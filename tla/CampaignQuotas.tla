--------------------------- MODULE CampaignQuotas ---------------------------
(***************************************************************************)
(* The quotas of the external gate (src/skatai/evaluation/iss_campaign.py, *)
(* iss_gate.py, and the functions of gate_worker.py built on them): which  *)
(* arm plays a game, which opponents a table is opened for, and when the   *)
(* gate is decided, as functions of the ledger.                            *)
(*                                                                         *)
(* A row of the ledger is its stratum.  An opponent stack is its place in  *)
(* DEFAULT_OPPONENTS, 0 any other.  Each arm has a sequence of its own:    *)
(* nothing looks at the order of games of different arms.  The bootstrap   *)
(* interval is data: above zero, below it, or spanning it, at each look.   *)
(***************************************************************************)
EXTENDS Naturals, Sequences, FiniteSetsExt

CONSTANTS
    Stacks,  \* number of primary opponent stacks
    Seats,   \* number of seats
    Looks    \* LOOKS_PER_ARM: games per arm, in increasing order

ASSUME QuotasAssumption ==
    /\ Stacks \in Nat \ {0} /\ Seats \in Nat \ {0}
    /\ Looks \in Seq(Nat \ {0}) /\ Looks # <<>>
    /\ \A i, j \in DOMAIN Looks : i < j => Looks[i] < Looks[j]

Arms == {"B0", "B1"}
Strata == [arm : Arms, stack : 1..Stacks, seat : 0..(Seats - 1)]
Intervals == [DOMAIN Looks -> {"above", "below", "spans"}]

Assigned(arm, stack, seat, target, primary) ==
    [arm |-> arm, stack |-> stack, seat |-> seat, target |-> target, primary |-> primary]

Stratum(a) == [arm |-> a.arm, stack |-> a.stack, seat |-> a.seat]

\* The canonical order of opponents and seats.
Place(s) == (s.stack - 1) * Seats + s.seat

target_quotas(n, s) ==
    n \div (Stacks * Seats) + IF Place(s) < n % (Stacks * Seats) THEN 1 ELSE 0

\* The rows of the ledger, and of games in flight (_rows_with_reservations).
observed_counts(rows, reserved, s) ==
    Cardinality({i \in DOMAIN rows[s.arm] : rows[s.arm][i] = s})
    + Cardinality({t \in DOMAIN reserved : reserved[t].primary /\ Stratum(reserved[t]) = s})

ArmTotal(rows, reserved, arm) ==
    Len(rows[arm]) + Cardinality({t \in DOMAIN reserved : reserved[t].primary /\ reserved[t].arm = arm})

NothingReserved == << >>

Underfilled(rows, reserved, n) ==
    {s \in Strata : observed_counts(rows, reserved, s) < target_quotas(n, s)}

quota_status(rows, n) == Underfilled(rows, NothingReserved, n) = {}

\* The targets of next_targets, in its order: the arm with fewer games, the
\* larger relative deficit, B0, and the canonical order.
next_targets(rows, reserved, n) ==
    {[of |-> s, total |-> ArmTotal(rows, reserved, s.arm), quota |-> target_quotas(n, s),
      missing |-> target_quotas(n, s) - observed_counts(rows, reserved, s)]
        : s \in Underfilled(rows, reserved, n)}

Precedes(x, y) ==
    \/ x.total < y.total
    \/ /\ x.total = y.total
       /\ \/ x.missing * y.quota > y.missing * x.quota
          \/ /\ x.missing * y.quota = y.missing * x.quota
             /\ \/ x.of.arm = "B0" /\ y.of.arm = "B1"
                \/ x.of.arm = y.of.arm /\ Place(x.of) < Place(y.of)

Foremost(targets) == CHOOSE x \in targets : \A y \in targets \ {x} : Precedes(x, y)

\* The stack of the first target; 0 if nothing is missing.
next_underfilled_stack(rows, reserved, n) ==
    LET targets == next_targets(rows, reserved, n)
    IN  IF targets = {} THEN 0 ELSE Foremost(targets).of.stack

\* The tables spread over the stacks that are still useful.
next_underfilled_stack_for_slot(rows, reserved, n, slots) ==
    LET targets == next_targets(rows, reserved, n)
        useful  == {[stack |-> x.of.stack,
                     held |-> Cardinality({t \in DOMAIN slots : slots[t] = x.of.stack}),
                     first |-> Foremost({y \in targets : y.of.stack = x.of.stack})] : x \in targets}
        prior(o, p) == o.held < p.held \/ (o.held = p.held /\ Precedes(o.first, p.first))
    IN  IF targets = {} THEN 0
        ELSE (CHOOSE o \in useful : \A p \in useful \ {o} : prior(o, p)).stack

\* A game nobody needs is played by B0 and counts for nothing.
choose_arm_for_stratum(rows, reserved, n, stack, seat) ==
    LET targets == {x \in next_targets(rows, reserved, n) : x.of.stack = stack /\ x.of.seat = seat}
        better(x, y) ==
            \/ x.missing > y.missing
            \/ /\ x.missing = y.missing
               /\ x.total < y.total \/ (x.total = y.total /\ x.of.arm = "B0")
    IN  IF targets = {} THEN Assigned("B0", stack, seat, n, FALSE)
        ELSE Assigned((CHOOSE x \in targets : \A y \in targets \ {x} : better(x, y)).of.arm,
                      stack, seat, n, TRUE)

assignment_still_needed(rows, a) ==
    /\ a.primary
    /\ Stratum(a) \in Underfilled(rows, NothingReserved, a.target)

\* What a ledger record may say of a game; there are three kinds of failure.
Statuses == {"SCORED", "FAILURE"}

append(rows, s) == [rows EXCEPT ![s.arm] = Append(@, s)]

\* The scored rows and, as a restart finds it, the evidence of a game.  Only
\* primary games go to the ledger, and the gate reads only scored ones
\* (scored_for_gate); a restart takes only those for complete.
append_game(rows, a, status) ==
    IF a.primary /\ status = "SCORED"
    THEN [rows |-> append(rows, Stratum(a)), filed |-> "scored"]
    ELSE [rows |-> rows, filed |-> "other"]

append_failure_without_terminal(rows) == [rows |-> rows, filed |-> "other"]

----------------------------------------------------------------------------
(* The gate.                                                               *)

\* The last look both arms have the games of; 0 if there is none.
current_look(rows) ==
    Max({0} \cup {i \in DOMAIN Looks : \A arm \in Arms : Len(rows[arm]) >= Looks[i]})

\* The games of a look: of each arm, those it had played first.
Selected(rows, i) == [arm \in Arms |-> SubSeq(rows[arm], 1, Looks[i])]

decide_external_gate(rows, interval) ==
    LET i == current_look(rows)
    IN  CASE i = 0                    -> "INCOMPLETE"
          [] i > 0 /\ interval[i] = "above" -> "ACCEPT"
          [] i > 0 /\ interval[i] = "below" -> "REJECT"
          [] i > 0 /\ interval[i] = "spans" ->
                IF i = Len(Looks) THEN "INCONCLUSIVE" ELSE "CONTINUE"

Incomplete(rows) == {i \in DOMAIN Looks : ~quota_status(rows, Looks[i])}

\* The look to be reached; 0 once the gate is decided.
current_target(rows, interval) ==
    IF 1 \in Incomplete(rows) THEN Looks[1]
    ELSE IF decide_external_gate(rows, interval) # "CONTINUE" \/ Incomplete(rows) = {} THEN 0
    ELSE Looks[Min(Incomplete(rows))]

----------------------------------------------------------------------------
\* decide_external_gate: "Use only the prefix through the current frozen look".
\* The games of a look are its quotas: as many of each stratum by both arms.
\* reserved are the games in flight that are not in the ledger yet: none exceeds
\* the quotas of the look in progress, and none is left once the gate is decided.
Balanced(rows, reserved, interval) ==
    /\ \A i \in 1..current_look(rows), s \in Strata :
          observed_counts(Selected(rows, i), NothingReserved, s) = target_quotas(Looks[i], s)
    /\ LET n     == current_target(rows, interval)
           limit == IF n = 0 THEN Looks[current_look(rows)] ELSE n
       IN  \A s \in Strata : observed_counts(rows, reserved, s) <= target_quotas(limit, s)
=============================================================================
