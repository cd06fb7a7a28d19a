--------------------------- MODULE EffectJournal ---------------------------
(***************************************************************************)
(* The durable journal of material ISS effects and the guard in front of   *)
(* the wire (src/skatai/iss/effects.py), driven the way ISSClientCore      *)
(* drives them: every call runs under the client's effect lock, so at most *)
(* one guarded send is in progress, and a process may die between any two  *)
(* of its durable or visible steps.                                        *)
(*                                                                         *)
(* The ISS server is external: it keeps the true move list of a game,      *)
(* accepts one material move per turn and may interleave moves that use no *)
(* turn.  What the client has applied of a game is a prefix of that list.  *)
(***************************************************************************)
EXTENDS EffectRecords, FiniteSets

CONSTANTS
    MaxErrors,  \* bound: effects aborted by table errors
    MaxMoves,   \* bound: moves of one game
    MaxGrants,  \* bound: retries authorised for one effect
    MaxLines    \* bound: lines sent for one effect

ASSUME BoundsAssumption ==
    /\ MaxErrors \in Nat /\ MaxMoves \in Nat
    /\ MaxGrants \in Nat /\ MaxLines \in Nat

VARIABLES
    history,  \* history[g]: the server's moves of game g
    seen,     \* seen[g]: how many of them the client has applied
    phase,    \* phase[g]: what the client holds of the game (see Phases)
    effects,  \* the journal replayed: effect id -> [status, attempts]
    lines,    \* per effect: lines sent, lines still travelling, retries granted
    call      \* the guarded send in progress, if any

vars == <<history, seen, phase, effects, lines, call>>

\* "live": in_progress.  "away": the server has not started the game, or not
\* again since the connection was lost.  "stopped": a table error aborted its
\* effects, its failure is not recorded yet.  "ended", "failed": over for us.
Phases == {"live", "away", "stopped", "ended", "failed"}

View(g) == Prefix(history[g], seen[g])

----------------------------------------------------------------------------
Idle == [pc |-> "idle"]

Init ==
    /\ history = [g \in Games |-> <<>>]
    /\ seen = [g \in Games |-> 0]
    /\ phase = [g \in Games |-> "away"]
    /\ effects = << >>
    /\ lines = << >>
    /\ call = Idle

(* The guard: prepare, send, mark_send_returned.                           *)

\* Mutation: no look at the other effects of the game.
BeginUnchecked(g, a) ==
    LET e == [game |-> g, pos |-> View(g), action |-> a]
    IN  /\ call = Idle
        /\ phase[g] = "live"
        /\ ~GameOver(View(g)) /\ ~HasLeft(View(g))
        /\ TurnAt(View(g)) \in MyTurns
        /\ e \notin DOMAIN effects
        /\ effects' = Put(effects, e, [status |-> "INTENT", attempts |-> 0])
        /\ lines' = Put(lines, e, [sent |-> 0, travelling |-> 0, grants |-> 0])
        /\ call' = [pc |-> "prepared", effect |-> e]
        /\ UNCHANGED <<history, seen, phase>>

\* begin() writes an INTENT for a decision on the current position of a live
\* game in which it is our turn.  If the effect exists already, or another
\* one of the game is unresolved, it returns that one and nothing changes.
Begin(g, a) ==
    LET e == [game |-> g, pos |-> View(g), action |-> a]
    IN  /\ call = Idle
        /\ phase[g] = "live"
        /\ ~GameOver(View(g)) /\ ~HasLeft(View(g))
        /\ TurnAt(View(g)) \in MyTurns
        /\ e \notin DOMAIN effects
        /\ Pending(effects, g) = {}
        /\ effects' = Put(effects, e, [status |-> "INTENT", attempts |-> 0])
        /\ lines' = Put(lines, e, [sent |-> 0, travelling |-> 0, grants |-> 0])
        /\ call' = [pc |-> "prepared", effect |-> e]
        /\ UNCHANGED <<history, seen, phase>>

Transmit(e) ==
    /\ lines' = [lines EXCEPT ![e].sent = @ + 1, ![e].travelling = @ + 1]
    /\ call' = [pc |-> "sent", effect |-> e]
    /\ UNCHANGED <<history, seen, phase, effects>>

\* send(created_now=True): the line of an effect just created leaves.
SendNew ==
    /\ call.pc = "prepared"
    /\ effects[call.effect].status = "INTENT"
    /\ Transmit(call.effect)

\* send(created_now=False): only an authorised retry may be sent again.
Resend(e) ==
    /\ call = Idle
    /\ effects[e].status = "RETRY_AUTHORIZED"
    /\ phase[e.game] = "live"
    /\ lines[e].sent < MaxLines
    /\ Transmit(e)

\* The transport raises before the line left: the effect stays as it is.
SendFails ==
    /\ call.pc = "prepared"
    /\ call' = Idle
    /\ UNCHANGED <<history, seen, phase, effects, lines>>

mark_send_returned ==
    /\ call.pc = "sent"
    /\ LET e == call.effect
       IN  /\ effects[e].status \in {"INTENT", "RETRY_AUTHORIZED"}
           /\ effects' = [effects EXCEPT
                ![e] = [status |-> "SEND_RETURNED", attempts |-> @.attempts + 1]]
    /\ call' = Idle
    /\ UNCHANGED <<history, seen, phase, lines>>

\* A caller that has proved the same request to be still pending.
authorize_retry(e) ==
    /\ call = Idle
    /\ effects[e].status \notin Terminal
    /\ phase[e.game] = "live"
    /\ View(e.game) = e.pos
    /\ lines[e].grants < MaxGrants
    /\ effects' = SetStatus(effects, {e}, "RETRY_AUTHORIZED")
    /\ lines' = [lines EXCEPT ![e].grants = @ + 1]
    /\ UNCHANGED <<history, seen, phase, call>>

----------------------------------------------------------------------------
(* Inbound protocol lines: the table applies the line, then reconciles.    *)

\* table_play: the next move of the server's list reaches the client, be the
\* game in progress or failed meanwhile.
Play(g) ==
    /\ call = Idle
    /\ phase[g] # "away"
    /\ seen[g] < Len(history[g])
    /\ seen' = [seen EXCEPT ![g] = @ + 1]
    /\ effects' = reconcile_table(effects, g, Prefix(history[g], seen[g] + 1))
    /\ UNCHANGED <<history, phase, lines, call>>

\* table_start of a new game, or after a reconnect with a replay of n moves:
\* the server's snapshot holds at least what it had delivered before.
Start(g, n) ==
    /\ call = Idle
    /\ phase[g] = "away"
    /\ seen[g] <= n
    /\ phase' = [phase EXCEPT ![g] = "live"]
    /\ seen' = [seen EXCEPT ![g] = n]
    /\ effects' = reconcile_table(effects, g, Prefix(history[g], n))
    /\ UNCHANGED <<history, lines, call>>

\* confirm_observed_action: a caller that feeds the echo of its own move
\* instead of reconciling the whole table.
confirm_observed_action(g) ==
    /\ call = Idle
    /\ phase[g] = "live"
    /\ seen[g] < Len(history[g])
    /\ LET m == history[g][seen[g] + 1]
           matches == {e \in Pending(effects, g) :
                          wire_actions_equivalent(e.action, m.form)}
       IN  /\ m.kind = "act"
           /\ matches # {}
           /\ effects' = SetStatus(effects, matches, "CONFIRMED")
    /\ seen' = [seen EXCEPT ![g] = @ + 1]
    /\ UNCHANGED <<history, phase, lines, call>>

\* Mutation: the reason of the abort is written in the place of the event.
TableErrorAsEvent(g) ==
    /\ call = Idle
    /\ phase[g] = "live"
    /\ effects' = SetStatus(effects, Pending(effects, g), "ISS_TABLE_ERROR")
    /\ phase' = [phase EXCEPT ![g] = "stopped"]
    /\ UNCHANGED <<history, seen, lines, call>>

\* An ISS table error first aborts the pending effects of its game ...
TableError(g) ==
    /\ Cardinality({e \in DOMAIN effects : effects[e].status = "ABORTED_ERROR"})
         < MaxErrors
    /\ call = Idle
    /\ phase[g] = "live"
    /\ effects' = SetStatus(effects, Pending(effects, g), "ABORTED_ERROR")
    /\ phase' = [phase EXCEPT ![g] = "stopped"]
    /\ UNCHANGED <<history, seen, lines, call>>

\* ... and then records the failure and takes the game out of play.
FailGame(g) ==
    /\ phase[g] = "stopped"
    /\ phase' = [phase EXCEPT ![g] = "failed"]
    /\ UNCHANGED <<history, seen, effects, lines, call>>

\* table_end: the game is over; what is still unresolved stays so.
End(g) ==
    /\ call = Idle
    /\ phase[g] = "live"
    /\ GameOver(View(g)) \/ HasLeft(View(g))
    /\ phase' = [phase EXCEPT ![g] = "ended"]
    /\ UNCHANGED <<history, seen, effects, lines, call>>

\* The connection drops or the process dies: whatever call was in progress is
\* gone, and no game is in progress until the server starts it again.
Restart ==
    /\ call' = Idle
    /\ phase' = [g \in Games |-> IF phase[g] \in {"live", "stopped"}
                                 THEN "away" ELSE phase[g]]
    /\ UNCHANGED <<history, seen, effects, lines>>

----------------------------------------------------------------------------
(* The server and the network (external).                                  *)

Extend(g, kind, form) ==
    /\ Len(history[g]) < MaxMoves
    /\ ~GameOver(history[g])
    /\ history' = [history EXCEPT ![g] =
                     Append(@, [kind |-> kind, form |-> form, turn |-> TurnAt(@)])]

\* A line arrives.  It is played if the turn is ours, and refused otherwise.
Deliver(e, form) ==
    LET g == e.game
    IN  /\ lines[e].travelling > 0
        /\ <<e.action, form>> \in Renders
        /\ lines' = [lines EXCEPT ![e].travelling = @ - 1]
        /\ \/ TurnAt(history[g]) \in MyTurns /\ Extend(g, "act", form)
           \/ /\ TurnAt(history[g]) \notin MyTurns \/ GameOver(history[g])
              /\ form = e.action
              /\ UNCHANGED history
        /\ UNCHANGED <<seen, phase, effects, call>>

\* A line is lost with the connection that carried it.
Lose(e) ==
    /\ lines[e].travelling > 0
    /\ lines' = [lines EXCEPT ![e].travelling = @ - 1]
    /\ UNCHANGED <<history, seen, phase, effects, call>>

OpponentMoves(g, form) ==
    /\ TurnAt(history[g]) \notin MyTurns
    /\ Extend(g, "act", form)
    /\ UNCHANGED <<seen, phase, effects, lines, call>>

Interleave(g, kind) ==
    /\ Extend(g, kind, kind)
    /\ UNCHANGED <<seen, phase, effects, lines, call>>

Server ==
    \/ \E g \in Games, f \in Forms : OpponentMoves(g, f)
    \/ \E g \in Games, k \in Kinds \ {"act"} : Interleave(g, k)
    \/ \E e \in DOMAIN lines : \/ \E f \in Forms : Deliver(e, f)
                               \/ Lose(e)

----------------------------------------------------------------------------
\* What the ISS client of this repository calls.
ClientNext ==
    \/ \E g \in Games, a \in Actions : Begin(g, a)
    \/ SendNew
    \/ SendFails
    \/ mark_send_returned
    \/ \E g \in Games : Play(g) \/ End(g) \/ TableError(g) \/ FailGame(g)
    \/ \E g \in Games : \E n \in 0..Len(history[g]) : Start(g, n)
    \/ Restart
    \/ Server

\* The rest of the journal's interface, which has no caller there yet.
ApiNext ==
    \/ ClientNext
    \/ \E e \in DOMAIN effects : authorize_retry(e) \/ Resend(e)
    \/ \E g \in Games : confirm_observed_action(g)

ClientSpec == Init /\ [][ClientNext]_vars
ApiSpec    == Init /\ [][ApiNext]_vars

----------------------------------------------------------------------------
(* What the journal implements: MoveAuthority, one claim per game at a     *)
(* time and one line per claim.                                            *)

NoEffect == [game |-> "none"]

OneOf(E) == IF E = {} THEN NoEffect ELSE CHOOSE e \in E : TRUE
Owner(g) == OneOf(Pending(effects, g))

Authority == INSTANCE MoveAuthority WITH
    Effects <- EffectId,
    owner   <- [g \in Games |-> Owner(g)],
    spent   <- {e \in DOMAIN lines : lines[e].sent > 0},
    settled <- {e \in DOMAIN effects : effects[e].status \in Terminal}

\* Every behaviour of the client's journal is one of the abstract authority.
ImplementsAuthority == Authority!Spec

----------------------------------------------------------------------------
(* Properties.                                                             *)

Call == {Idle} \cup [pc : {"prepared", "sent"}, effect : DOMAIN effects]

\* Type correctness: the journal and the wire know the same effects, and the
\* client's view of a game is a prefix of the server's move list.
TypeOK ==
    /\ history \in [Games -> Position]
    /\ seen \in [Games -> Nat]
    /\ \A g \in Games : seen[g] <= Len(history[g])
    /\ phase \in [Games -> Phases]
    /\ DOMAIN effects \subseteq EffectId
    /\ effects \in [DOMAIN effects -> [status : Status, attempts : Nat]]
    /\ lines \in [DOMAIN effects -> [sent : Nat, travelling : Nat, grants : Nat]]
    /\ call \in Call

\* effects.py: has_pending_for_game is what stops a second claim.  At no time
\* are two effects of one game unresolved.
AtMostOnePending ==
    \A g \in Games : \A d, e \in Pending(effects, g) : d = e

SameTurn(d, e) == d.game = e.game /\ TurnAt(d.pos) = TurnAt(e.pos)

\* client.py: "Exactly one material external effect may be in flight per
\* game."  A turn of ours is answered on the wire at most once, over restarts, lost
\* lines and moves interleaved by the server, but for one whose effect a table
\* error aborted.
SecondLineOnlyAfterError ==
    \A d, e \in DOMAIN lines :
        /\ lines[e].sent <= 1
        /\ d # e /\ SameTurn(d, e) /\ lines[d].sent > 0 /\ lines[e].sent > 0
           => "ABORTED_ERROR" \in {effects[d].status, effects[e].status}

\* The first move of game g after the effect's position that used up a turn or
\* ended the game, as the server has it: the truth an outcome is judged by.
Settling(e) ==
    {i \in DOMAIN history[e.game] :
        /\ i > Len(e.pos)
        /\ history[e.game][i].kind \in {"act", "timeout"}
        /\ \A k \in Len(e.pos) + 1 .. i - 1 :
              history[e.game][k].kind \notin {"act", "timeout"}}

\* An effect is CONFIRMED only if the server did play it in that turn, and
\* ABORTED_STALE without a table error only if the turn went to something else.
OutcomeIsTrue ==
    \A e \in DOMAIN effects :
        /\ effects[e].status = "CONFIRMED" =>
              \E i \in Settling(e) :
                 /\ history[e.game][i].kind = "act"
                 /\ <<e.action, history[e.game][i].form>> \in Renders
        /\ effects[e].status = "ABORTED_STALE" =>
              \E i \in Settling(e) :
                 \/ history[e.game][i].kind = "timeout"
                 \/ <<e.action, history[e.game][i].form>> \notin Renders

LeavesSettled ==
    \A e \in DOMAIN effects :
        effects[e].status \in Terminal =>
           /\ effects'[e] = effects[e]
           /\ lines'[e].sent = lines[e].sent

\* effects.py: an event after a terminal one makes the journal unreadable.  A
\* settled outcome is never revised and nothing is sent for it afterwards.
SettledStays == [][LeavesSettled]_vars
=============================================================================
