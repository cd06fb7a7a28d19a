------------------------------ MODULE Campaign ------------------------------
(***************************************************************************)
(* What MultiTableExternalGateWorker (src/skatai/iss/gate_worker.py) makes *)
(* of the quotas: several tables play for one ledger, each game reserves   *)
(* its place in the quota while it runs, and the campaign goes from look   *)
(* to look until the gate is decided.                                      *)
(*                                                                         *)
(* TableSlots has the tables' handshakes, connections and markers; here a  *)
(* table is as the server sees it, a handler is one step except where a    *)
(* death tells its parts apart, and the mirror never holds the worker up.  *)
(***************************************************************************)
EXTENDS CampaignQuotas

CONSTANTS
    Tables,   \* the tables of the throughput policy
    Analyses, \* what the bootstrap may say at each look
    Troubles  \* bounds: sets of [deaths, errors, odd]

ASSUME TroublesAssumption ==
    /\ IsFiniteSet(Tables)
    /\ Analyses \subseteq Intervals
    /\ Troubles \subseteq [deaths : Nat, errors : Nat, odd : Nat]

VARIABLES
    rows,      \* disk: scored games of each arm in the gate ledger, in order
    game,      \* disk: assignment_by_game, for each table
    filed,     \* disk: what the evidence of that game tells a restart
    slot,      \* disk: desired_stack of each table, 0 if it has no slot
    table,     \* the table at the server, "leaving" or "closing" once LEAVE is sent
    bound,     \* RecordingSwitchProvider.arm_by_game
    complete,  \* _campaign_complete_requested
    doing,     \* the handler in progress
    proc,      \* "up", "down", "done", "refused" by its own recovery
    interval,  \* what the bootstrap says at each look
    trouble    \* what is left of the troubles

disk == <<rows, game, filed, slot>>
vars == <<disk, table, bound, complete, doing, proc, interval, trouble>>

NoGame == Assigned("none", 0, 0, 0, FALSE)
Nothing == [op |-> "nothing"]
Fill    == [op |-> "fill"]
Close(t) == [op |-> "close", t |-> t]
Fail(t)  == [op |-> "fail", t |-> t]

Running == {t \in Tables : game[t] # NoGame}

\* The reservations: running games that are not in the ledger yet.
_reservations(exclude) == [t \in {u \in Running : filed[u] = "nothing"} \ exclude |-> game[t]]

Target == current_target(rows, interval)

Idle == proc = "up" /\ doing = Nothing

\* _retire_idle_tables, and the table itself; without a game each of them.
Leave(S, reason) ==
    [t \in Tables |-> IF t \in S \/ (reason = "closing" /\ table[t] = "ready")
                      THEN reason ELSE table[t]]

----------------------------------------------------------------------------
\* One turn of the loop: a table for the stack that is missing most.
create_next_table ==
    /\ proc = "up" /\ doing = Fill
    /\ LET free  == {t \in Tables : slot[t] = 0 /\ table[t] = "none"}
           stack == next_underfilled_stack_for_slot(rows, _reservations({}), Target, slot)
           stop  == doing' = Nothing /\ UNCHANGED <<slot, table>>
       IN  \/ (complete \/ free = {}) /\ stop /\ UNCHANGED complete
           \/ ~complete /\ free # {} /\ Target = 0 /\ stop /\ complete' = TRUE
           \/ /\ ~complete /\ free # {} /\ Target # 0
              /\ \/ stack = 0 /\ stop
                 \/ /\ stack # 0
                    /\ LET t == CHOOSE u \in free : TRUE
                       IN  slot' = [slot EXCEPT ![t] = stack] /\ table' = [table EXCEPT ![t] = "ready"]
                    /\ UNCHANGED doing
              /\ UNCHANGED complete
    /\ UNCHANGED <<rows, game, filed, bound, proc, interval, trouble>>

\* Mutation: games in flight reserve nothing.
AssignedUnreserved(t, stack, seat) ==
    choose_arm_for_stratum(rows, NothingReserved, Target, stack, seat)

\* _on_start_preapply: on disk before the client hears of the game.
Assignment(t, stack, seat) ==
    IF Target = 0 \/ stack # slot[t]
    THEN Assigned("B0", stack, seat, IF Target = 0 THEN Looks[Len(Looks)] ELSE Target, FALSE)
    ELSE choose_arm_for_stratum(rows, _reservations({}), Target, stack, seat)

on_start(t, stack, seat) ==
    /\ Idle /\ table[t] = "ready"
    /\ \/ stack = slot[t] /\ UNCHANGED trouble
       \/ /\ stack = 0 /\ trouble.odd > 0
          /\ trouble' = [trouble EXCEPT !.odd = @ - 1]
    /\ LET a == Assignment(t, stack, seat)
       IN  /\ bound' = [bound EXCEPT ![t] = a.arm]
           /\ game' = [game EXCEPT ![t] = a]
    /\ table' = [table EXCEPT ![t] = "playing"]
    /\ UNCHANGED <<rows, filed, slot, complete, doing, proc, interval>>

\* A game its look no longer needs is a diagnostic one.
on_end(t) ==
    /\ Idle /\ table[t] = "playing"
    /\ \E status \in Statuses :
          LET a == IF assignment_still_needed(rows, game[t]) THEN game[t]
                   ELSE [game[t] EXCEPT !.primary = FALSE]
              stored == append_game(rows, a, status)
          IN  /\ status = "FAILURE" => trouble.errors > 0
              /\ trouble' = IF status = "FAILURE" THEN [trouble EXCEPT !.errors = @ - 1] ELSE trouble
              /\ rows' = stored.rows
              /\ filed' = [filed EXCEPT ![t] = stored.filed]
    /\ table' = [table EXCEPT ![t] = "over"]
    /\ doing' = Close(t)
    /\ UNCHANGED <<game, slot, bound, complete, proc, interval>>

withdraw(t) ==
    /\ game' = [game EXCEPT ![t] = NoGame]
    /\ bound' = [bound EXCEPT ![t] = "none"]
    /\ filed' = [filed EXCEPT ![t] = "nothing"]

\* The rest of _on_end: the authority goes, and the table plays on if its stack
\* is missing beyond what is reserved.
close_game ==
    /\ proc = "up" /\ doing.op = "close"
    /\ LET t == doing.t
           useful == {s.stack : s \in Underfilled(rows, _reservations({t}), Target)}
       IN  /\ withdraw(t)
           /\ complete' = (complete \/ Target = 0)
           /\ table' = IF complete' THEN Leave({t}, "closing")
                       ELSE IF game[t].stack # slot[t] \/ slot[t] \notin useful
                       THEN Leave({t}, "leaving")
                       ELSE [table EXCEPT ![t] = "ready"]
    /\ doing' = Nothing
    /\ UNCHANGED <<rows, slot, proc, interval, trouble>>

on_table_error(t) ==
    /\ Idle /\ table[t] \in {"ready", "playing"} /\ trouble.errors > 0
    /\ trouble' = [trouble EXCEPT !.errors = @ - 1]
    /\ IF table[t] = "ready"
       THEN table' = Leave({t}, "leaving") /\ UNCHANGED <<rows, filed, doing>>
       ELSE LET stored == append_failure_without_terminal(rows)
            IN  /\ rows' = stored.rows
                /\ filed' = [filed EXCEPT ![t] = stored.filed]
                /\ table' = [table EXCEPT ![t] = "over"]
                /\ doing' = Fail(t)
    /\ UNCHANGED <<game, slot, bound, complete, proc, interval>>

fail_game ==
    /\ proc = "up" /\ doing.op = "fail"
    /\ withdraw(doing.t)
    /\ table' = Leave({doing.t}, "leaving")
    /\ doing' = Nothing
    /\ UNCHANGED <<rows, slot, complete, proc, interval, trouble>>

on_destroy(t) ==
    /\ Idle /\ table[t] \in {"leaving", "closing"}
    /\ slot' = [slot EXCEPT ![t] = 0]
    /\ LET left == [table EXCEPT ![t] = "none"]
       IN  table' = [u \in Tables |-> IF complete /\ left[u] = "ready" THEN "closing" ELSE left[u]]
    /\ IF complete
       THEN /\ proc' = IF Running = {} /\ \A u \in Tables : slot'[u] = 0 THEN "done" ELSE proc
            /\ UNCHANGED doing
       ELSE doing' = Fill /\ UNCHANGED proc
    /\ UNCHANGED <<rows, game, filed, bound, complete, interval, trouble>>

\* The session ends before the first table when there is nothing left to play.
idle_outcome ==
    /\ Idle /\ complete /\ Running = {} /\ \A t \in Tables : slot[t] = 0
    /\ proc' = "done"
    /\ UNCHANGED <<disk, table, bound, complete, doing, interval, trouble>>

die ==
    /\ proc = "up" /\ trouble.deaths > 0
    /\ trouble' = [trouble EXCEPT !.deaths = @ - 1]
    /\ proc' = "down"
    /\ bound' = [t \in Tables |-> "none"]
    /\ complete' = FALSE /\ doing' = Nothing
    /\ UNCHANGED <<disk, table, interval>>

\* What reconcile_terminal_active_games and _restore_active_game_authority do not
\* go on with: other evidence than a score, a game against others than its table's.
Refused(t) ==
    \/ filed[t] = "other"
    \/ filed[t] = "nothing" /\ game[t].stack # slot[t]

\* A game that is over is withdrawn, the arm of a running one is bound again; a
\* table that was ready is not readied twice.
restart ==
    /\ proc = "down"
    /\ IF \E t \in Running : Refused(t)
       THEN proc' = "refused" /\ UNCHANGED <<game, filed, bound, table, complete, doing>>
       ELSE /\ proc' = "up"
            /\ game' = [t \in Tables |-> IF filed[t] = "scored" THEN NoGame ELSE game[t]]
            /\ filed' = [t \in Tables |-> "nothing"]
            /\ bound' = [t \in Tables |-> game'[t].arm]
            /\ complete' = \E t \in Tables : table[t] = "closing"
            /\ table' = [t \in Tables |-> IF table[t] \notin {"ready", "over"} THEN table[t]
                                          ELSE IF complete' THEN "closing" ELSE "leaving"]
            /\ doing' = Fill
    /\ UNCHANGED <<rows, slot, interval, trouble>>

----------------------------------------------------------------------------
Init ==
    /\ rows = [arm \in Arms |-> <<>>]
    /\ game = [t \in Tables |-> NoGame]
    /\ filed = [t \in Tables |-> "nothing"]
    /\ slot = [t \in Tables |-> 0]
    /\ table = [t \in Tables |-> "none"]
    /\ bound = [t \in Tables |-> "none"]
    /\ complete = FALSE
    /\ doing = Fill
    /\ proc = "up"
    /\ interval \in Analyses
    /\ trouble \in Troubles

Starts(t) == \E stack \in 0..Stacks, seat \in 0..(Seats - 1) : on_start(t, stack, seat)

Worker == create_next_table \/ close_game \/ fail_game \/ idle_outcome \/ restart

Next ==
    \/ Worker \/ die
    \/ \E t \in Tables : Starts(t) \/ on_end(t) \/ on_table_error(t) \/ on_destroy(t)

Spec == Init /\ [][Next]_vars

\* The steps a handler of the worker has left, and the start of a game in a seat,
\* by what they change: they are enabled when create_next_table and close_game,
\* and on_start, are, and no other step takes them.
Proceeds ==
    /\ proc = "up" /\ doing # Nothing /\ proc' = "up"
    /\ doing' \in {Nothing, Fill} /\ slot' \in [Tables -> 0..Stacks]

Seated(t, seat) ==
    /\ Idle /\ table[t] = "ready"
    /\ table' = [table EXCEPT ![t] = "playing"]
    /\ \E arm \in Arms, n \in Range(Looks), primary \in BOOLEAN :
          game' = [game EXCEPT ![t] = Assigned(arm, slot[t], seat, n, primary)]

\* evaluate_restart_state: a worker that died is started again by itself only with
\* no game left active and games still to be played.
SupervisorRestarts == Running = {} /\ Target # 0

\* The worker's thread runs, the supervisor starts it where it may, the server goes
\* on with ending games and tables, and seats us everywhere in turn.
Fairness ==
    /\ WF_<<doing, slot>>(Proceeds)
    /\ WF_vars(idle_outcome \/ (SupervisorRestarts /\ restart))
    /\ WF_vars(\E t \in Tables : on_end(t) \/ on_destroy(t))
    /\ \A t \in Tables, seat \in 0..(Seats - 1) : SF_table(Seated(t, seat))

----------------------------------------------------------------------------
(* Properties.                                                             *)

\* choose_arm_for_stratum and RecordingSwitchProvider: whatever runs at once,
\* fails or dies, the games a look compares are its quotas, none exceeds them,
\* and a game is played by the arm it is assigned to.
LooksAreBalanced ==
    /\ Balanced(rows, _reservations({}), interval)
    /\ proc = "up" => \A t \in Tables : bound[t] = game[t].arm

\* A recovery that refuses its evidence stops the worker for the operator.
IsOver == proc \in {"done", "refused"}

\* BLOCKED_RECONCILIATION or CAMPAIGN_COMPLETE: nobody starts the worker again.
Stranded == proc = "down" /\ ~SupervisorRestarts

\* _create_next_table and _on_end: no stratum is left that no table plays for, and
\* no worker waits for what never comes.
CampaignEnds == []<>(IsOver \/ Stranded)
=============================================================================
