----------------------------- MODULE SingleTable -----------------------------
(***************************************************************************)
(* ExternalGateWorker (src/skatai/iss/gate_worker.py), the worker of one   *)
(* table: CREATE, READY and LEAVE at one table after the other, the pause  *)
(* when the mirror falls behind, lost connections and process deaths.      *)
(*                                                                         *)
(* `doing' is the next call of the handler in progress.  The worker keeps  *)
(* the table it is at, the one it expects and the stack it wants in memory *)
(* only: on disk are the running game, the ledger and the marker of a      *)
(* departure.  The server is external, and as in TableSlots.               *)
(***************************************************************************)
EXTENDS CampaignQuotas

CONSTANTS
    Names,    \* names of private tables
    Analyses, \* what the bootstrap may say at each look
    Hitches   \* bounds: sets of [deaths, losses, errors, pauses]

VARIABLES
    rows,     \* disk: scored games of each arm in the gate ledger, in order
    game,     \* disk: the running game: its table and its assignment
    filed,    \* disk: what the evidence of that game tells a restart
    marker,   \* disk: mirror-departure-pending, and what the journal says since
    table_id, expected, desired, pause, \* attributes of the worker
    doing,    \* the next call of the handler in progress
    proc,     \* "up", "down", "failed", "done", "refused" by its own recovery
    full,     \* backpressure_required()
    conn, server, up, down, \* as in TableSlots
    heard,    \* the table whose game this connection has told of: game_sequence
    interval, trouble       \* as in Campaign

disk   == <<rows, game, filed, marker>>
memory == <<table_id, expected, desired, pause>>
net    == <<conn, heard, server, up, down>>
vars   == <<disk, memory, doing, proc, full, net, interval, trouble>>

NONE     == "NONE"
NoGame   == [t |-> NONE, a |-> Assigned("none", 0, 0, 0, FALSE)]
NoMarker == [t |-> NONE, log |-> "nothing"]

Nothing == [op |-> "nothing"]
Do(op, t) == [op |-> op, t |-> t]
Fill == Do("fill", NONE)
Wait == Do("wait", NONE)
Sends == {"create", "ready", "leave", "last_leave"}

Target == current_target(rows, interval)
Stack  == next_underfilled_stack(rows, NothingReserved, Target)

Calling(op) == proc = "up" /\ doing.op = op

Hangup == conn' = "closed" /\ down' = <<>> /\ heard' = NONE

\* The process stops, with the memory of its attributes.
Stop(how) ==
    /\ proc' = how /\ doing' = Nothing /\ Hangup
    /\ table_id' = NONE /\ expected' = NONE /\ desired' = 0 /\ pause' = FALSE

----------------------------------------------------------------------------
(* The calls of the worker.                                                *)

\* A name never used, or one of which nothing is left.
Fresh(t) == /\ server[t] = "none" /\ t \notin {game.t, marker.t, table_id, expected}
            /\ \A i \in DOMAIN up : up[i].t # t

\* Once the gate is decided there is no table to create.
_create_next_table ==
    /\ Calling("fill")
    /\ \/ /\ Target = 0
          /\ doing' = Nothing /\ UNCHANGED <<expected, desired>>
       \/ /\ Target # 0 /\ \E t \in Names : Fresh(t)
          /\ expected' = CHOOSE t \in Names : Fresh(t)
          /\ doing' = Do("create", expected')
          /\ desired' = Stack
    /\ UNCHANGED <<disk, table_id, pause, proc, full, net, interval, trouble>>

\* The line reaches the server, is lost on a broken connection, or raises there.
SendCommand ==
    /\ proc = "up" /\ doing.op \in Sends /\ conn # "closed"
    /\ LET leaves == doing.op \in {"leave", "last_leave"}
       IN  /\ up' = IF conn = "broken" THEN up
                    ELSE Append(up, [command |-> IF leaves THEN "leave" ELSE doing.op, t |-> doing.t])
           /\ marker' = IF leaves /\ marker.t = doing.t THEN [marker EXCEPT !.log = "left"] ELSE marker
           /\ desired' = IF doing.op = "leave" THEN 0 ELSE desired
    /\ proc' = IF doing.op = "last_leave" THEN "done" ELSE proc
    /\ doing' = Nothing
    /\ UNCHANGED <<rows, game, filed, table_id, expected, pause, full, conn, heard, server, down,
                   interval, trouble>>

\* A connection that is lost with a departure pending leaves its outcome unknown.
ConnectionFails ==
    /\ \/ pause /\ Stop("failed")
       \/ ~pause /\ Hangup /\ doing' = Nothing /\ UNCHANGED <<memory, proc>>
    /\ UNCHANGED <<disk, full, server, up, interval, trouble>>

SendRaises == proc = "up" /\ doing.op \in Sends /\ conn = "broken" /\ ConnectionFails
ReadRaises == proc = "up" /\ doing = Nothing /\ conn = "broken" /\ down = <<>> /\ ConnectionFails

\* _on_end after append_game: the authority goes; the game joins the queue of the
\* mirror, which may be full then.
withdraw ==
    /\ Calling("withdraw")
    /\ game' = NoGame /\ filed' = "nothing"
    /\ doing' = [op |-> "decide", t |-> doing.t, a |-> game.a]
    /\ \/ UNCHANGED <<full, trouble>>
       \/ trouble.pauses > 0 /\ full' = TRUE /\ trouble' = [trouble EXCEPT !.pauses = @ - 1]
    /\ UNCHANGED <<rows, marker, memory, proc, net, interval>>

\* The rest of _on_end: complete, paused, another stack or a game that counted
\* for nothing, or the next game of this table.
decide ==
    /\ Calling("decide")
    /\ LET t == doing.t
           pauses == Target # 0 /\ full
       IN  /\ marker' = IF pauses THEN [t |-> t, log |-> "nothing"] ELSE marker
           /\ pause' = (pause \/ pauses)
           /\ doing' = Do(IF Target = 0 THEN "last_leave"
                          ELSE IF full \/ ~doing.a.primary \/ Stack # doing.a.stack THEN "leave"
                          ELSE "ready", t)
    /\ UNCHANGED <<rows, game, filed, table_id, expected, desired, proc, full, net, interval, trouble>>

\* The rest of _on_table_error, which raises; a mirror that fails keeps LEAVE back.
fail ==
    /\ Calling("fail")
    /\ game' = NoGame /\ filed' = "nothing"
    /\ up' \in {up} \cup {Append(up, [command |-> "leave", t |-> u]) :
                            u \in {doing.t} \cap IF conn = "up" THEN Names ELSE {}}
    /\ Stop("failed")
    /\ UNCHANGED <<rows, marker, full, server, interval, trouble>>

\* _on_destroy: the next table, or the end of a session that must wait.  A table
\* that was not the one to leave is nothing to go on from.
_on_destroy ==
    /\ Calling("retire")
    /\ IF pause /\ marker.t # doing.t
       THEN Stop("failed") /\ UNCHANGED marker
       ELSE /\ marker' = IF pause THEN NoMarker ELSE marker
            /\ table_id' = IF table_id = doing.t THEN NONE ELSE table_id
            /\ expected' = IF expected = doing.t THEN NONE ELSE expected
            /\ IF desired = 0 /\ (pause \/ full)
               THEN doing' = Wait /\ pause' = FALSE /\ Hangup
               ELSE /\ doing' = IF desired = 0 THEN Fill ELSE Nothing
                    /\ UNCHANGED <<pause, conn, heard, down>>
            /\ UNCHANGED <<desired, proc>>
    /\ UNCHANGED <<rows, game, filed, full, server, up, interval, trouble>>

_wait_for_mirror_capacity ==
    /\ Calling("wait") /\ (game # NoGame \/ ~full)
    /\ doing' = Nothing
    /\ UNCHANGED <<disk, memory, proc, full, net, interval, trouble>>

----------------------------------------------------------------------------
(* Inbound lines.                                                          *)

Reading(event) ==
    /\ proc = "up" /\ doing = Nothing /\ conn # "closed"
    /\ down # <<>> /\ Head(down).event = event
    /\ down' = Tail(down)

\* _event_is_admitted: the worker's own table, and no other.
Admitted == Head(down).t \in {game.t, table_id, expected} \ {NONE}

_event_is_foreign ==
    /\ \E event \in {"create", "start", "end", "error", "destroy"} : Reading(event)
    /\ ~Admitted
    /\ UNCHANGED <<disk, memory, doing, proc, full, conn, heard, server, up, interval, trouble>>

\* A table that is replayed is neither readied nor adopted.
_on_create ==
    /\ Reading("create") /\ Admitted
    /\ LET t == Head(down).t
       IN  \/ /\ t = expected /\ desired # 0
              /\ table_id' = t /\ expected' = NONE /\ doing' = Do("ready", t)
           \/ /\ t # expected \/ desired = 0
              /\ UNCHANGED <<table_id, expected, doing>>
    /\ UNCHANGED <<disk, desired, pause, proc, full, conn, heard, server, up, interval, trouble>>

\* A game that is replayed keeps its assignment.
Assignment(t, stack, seat) ==
    IF game.t = t THEN game
    ELSE [t |-> t, a |->
            IF Target = 0 THEN Assigned("B0", stack, seat, Looks[Len(Looks)], FALSE)
            ELSE choose_arm_for_stratum(rows, NothingReserved, Target, stack, seat)]

\* On disk before the client hears of the game.  Others than we invited may play.
_on_start_preapply(stack, seat) ==
    /\ Reading("start") /\ Admitted
    /\ \/ stack = desired /\ UNCHANGED trouble
       \/ /\ stack = 0 /\ game = NoGame /\ trouble.errors > 0
          /\ trouble' = [trouble EXCEPT !.errors = @ - 1]
    /\ game' = Assignment(Head(down).t, stack, seat)
    /\ heard' = Head(down).t
    /\ UNCHANGED <<rows, filed, marker, memory, doing, proc, full, conn, server, up, interval>>

\* Games are looked up by game_sequence, which a connection knows from the start it
\* was told of: not if the game was over before.
Known == game.t = Head(down).t /\ heard = game.t

_on_end ==
    /\ Reading("end") /\ Admitted /\ Known
    /\ \E status \in Statuses :
          LET stored == append_game(rows, game.a, status)
          IN  /\ status = "FAILURE" => trouble.errors > 0
              /\ trouble' = IF status = "FAILURE" THEN [trouble EXCEPT !.errors = @ - 1] ELSE trouble
              /\ rows' = stored.rows /\ filed' = stored.filed
    /\ doing' = Do("withdraw", Head(down).t)
    /\ UNCHANGED <<game, marker, memory, proc, full, conn, heard, server, up, interval>>

_on_table_error ==
    /\ Reading("error") /\ Admitted /\ Known
    /\ LET stored == append_failure_without_terminal(rows)
       IN  rows' = stored.rows /\ filed' = stored.filed
    /\ doing' = Do("fail", Head(down).t)
    /\ UNCHANGED <<game, marker, memory, proc, full, conn, heard, server, up, interval, trouble>>

\* MISSING_GAME_ASSIGNMENT or ISS_TABLE_ERROR_WITHOUT_ACTIVE_GAME; a game that is
\* unfinished on disk stays so.
WithoutGame ==
    /\ proc = "up" /\ doing = Nothing /\ conn # "closed" /\ down # <<>>
    /\ Head(down).event \in {"end", "error"} /\ Admitted /\ ~Known
    /\ Stop("failed")
    /\ UNCHANGED <<disk, full, server, up, interval, trouble>>

\* The line is journalled before it is acted on.
destroyed ==
    /\ Reading("destroy") /\ Admitted
    /\ marker' = IF marker.t = Head(down).t /\ marker.log = "left"
                 THEN [marker EXCEPT !.log = "confirmed"] ELSE marker
    /\ doing' = Do("retire", Head(down).t)
    /\ UNCHANGED <<rows, game, filed, memory, proc, full, conn, heard, server, up, interval, trouble>>

----------------------------------------------------------------------------
(* Sessions, deaths and restarts.                                          *)

\* The server's replay of what it has of us, the tables in any order, each
\* created and then its game started.
Replay ==
    {[event |-> "create", t |-> t] : t \in {u \in Names : server[u] # "none"}}
    \cup {[event |-> "start", t |-> t] : t \in {u \in Names : server[u] = "playing"}}

Replays(lines) ==
    /\ \A i, j \in DOMAIN lines : lines[i] = lines[j] => i = j
    /\ \A i \in DOMAIN lines : lines[i].event = "start" =>
          i > 1 /\ lines[i - 1] = [event |-> "create", t |-> lines[i].t]

_run_connected_session ==
    /\ proc = "up" /\ doing = Nothing /\ conn = "closed" /\ up = <<>>
    /\ conn' = "up" /\ UNCHANGED heard
    /\ \E lines \in [1..Cardinality(Replay) -> Replay] : Replays(lines) /\ down' = lines
    /\ doing' = IF table_id = NONE THEN Fill ELSE Nothing
    /\ UNCHANGED <<disk, memory, proc, full, server, up, interval, trouble>>

\* Mutation: the departure is taken for granted.
ReconcileNothing == TRUE

\* reconcile_mirror_departure.
reconcile == marker = NoMarker \/ marker.log = "confirmed"

\* run, with _restore_active_game_authority.
run ==
    /\ proc \in {"down", "failed"}
    /\ IF ~reconcile \/ filed = "other"
       THEN proc' = "refused" /\ UNCHANGED <<game, filed, marker, table_id, desired, doing>>
       ELSE /\ proc' = "up" /\ doing' = Wait
            /\ marker' = NoMarker /\ filed' = "nothing"
            /\ game' = IF filed = "scored" THEN NoGame ELSE game
            /\ table_id' = game'.t /\ desired' = game'.a.stack
    /\ UNCHANGED <<rows, expected, pause, full, net, interval, trouble>>

Die ==
    /\ proc = "up" /\ trouble.deaths > 0
    /\ trouble' = [trouble EXCEPT !.deaths = @ - 1]
    /\ Stop("down")
    /\ \E n \in 0..Len(up) : up' = SubSeq(up, 1, n)
    /\ UNCHANGED <<disk, full, server, interval>>

Break ==
    /\ conn = "up" /\ trouble.losses > 0
    /\ trouble' = [trouble EXCEPT !.losses = @ - 1]
    /\ conn' = "broken"
    /\ \E n \in 0..Len(up) : up' = SubSeq(up, 1, n)
    /\ \E n \in 0..Len(down) : down' = SubSeq(down, 1, n)
    /\ UNCHANGED <<disk, memory, doing, proc, full, heard, server, interval>>

\* The mirror catches up.
Drain == full /\ full' = FALSE /\ UNCHANGED <<disk, memory, doing, proc, net, interval, trouble>>

----------------------------------------------------------------------------
(* The server (external).                                                  *)

Tell(line) == down' = IF conn = "up" THEN Append(down, line) ELSE down

ServerTakes ==
    /\ up # <<>> /\ up' = Tail(up)
    /\ LET t == Head(up).t
           c == Head(up).command
       IN  \/ /\ c = "create"
              /\ server' = [server EXCEPT ![t] = "open"] /\ Tell([event |-> "create", t |-> t])
           \/ /\ c = "ready"
              /\ server' = [server EXCEPT ![t] = "ready"] /\ UNCHANGED down
           \/ /\ c = "leave"
              /\ server' = [server EXCEPT ![t] = "none"] /\ Tell([event |-> "destroy", t |-> t])
    /\ UNCHANGED <<disk, memory, doing, proc, full, conn, heard, interval, trouble>>

Plays(t, from, to, event) ==
    /\ server[t] = from
    /\ server' = [server EXCEPT ![t] = to] /\ Tell([event |-> event, t |-> t])
    /\ UNCHANGED <<disk, memory, doing, proc, full, conn, heard, up, interval, trouble>>

StartGame(t) == Plays(t, "ready", "playing", "start")
EndGame(t) == Plays(t, "playing", "open", "end")

Refuse(t) ==
    /\ server[t] # "none" /\ conn = "up" /\ trouble.errors > 0
    /\ Tell([event |-> "error", t |-> t])
    /\ trouble' = [trouble EXCEPT !.errors = @ - 1]
    /\ UNCHANGED <<disk, memory, doing, proc, full, conn, heard, server, up, interval>>
----------------------------------------------------------------------------
Init ==
    /\ rows = [arm \in Arms |-> <<>>]
    /\ game = NoGame /\ filed = "nothing" /\ marker = NoMarker
    /\ table_id = NONE /\ expected = NONE /\ desired = 0 /\ pause = FALSE
    /\ doing = Wait /\ proc = "up" /\ full = FALSE
    /\ conn = "closed" /\ up = <<>> /\ down = <<>> /\ heard = NONE
    /\ server = [t \in Names |-> "none"]
    /\ interval \in Analyses /\ trouble \in Hitches

Worker == _create_next_table \/ SendCommand \/ SendRaises \/ ReadRaises \/ withdraw \/ decide
          \/ fail \/ _on_destroy \/ _wait_for_mirror_capacity
Handlers ==
    \/ _event_is_foreign \/ _on_create \/ _on_end \/ _on_table_error \/ WithoutGame \/ destroyed
    \/ \E stack \in 0..Stacks, seat \in 0..(Seats - 1) : _on_start_preapply(stack, seat)
Session == _run_connected_session \/ run \/ Die \/ Break \/ Drain
Server == ServerTakes \/ \E t \in Names : StartGame(t) \/ EndGame(t) \/ Refuse(t)

Next == Worker \/ Handlers \/ Session \/ Server

\* What the guards of _create_next_table, of decide, of the handlers and of the
\* start of a game in a seat become, by what they change.
Decides ==
    /\ Calling("fill") \/ Calling("decide")
    /\ doing' \in {Nothing} \cup {Do(op, t) : op \in Sends, t \in Names}

Reads ==
    /\ proc = "up" /\ doing = Nothing /\ conn # "closed" /\ down # <<>>
    /\ down' = Tail(down) \/ (Head(down).event \in {"end", "error"} /\ down' = <<>>)

Seated(seat) ==
    /\ Reading("start") /\ Admitted /\ game = NoGame
    /\ \E arm \in Arms, n \in Range(Looks), primary \in BOOLEAN :
          game' = [t |-> Head(down).t, a |-> Assigned(arm, desired, seat, n, primary)]

\* As in Campaign.
SupervisorRestarts == game = NoGame /\ Target # 0

\* At most one of them is enabled at a time.
Progress == SendCommand \/ withdraw \/ fail \/ _on_destroy \/ _wait_for_mirror_capacity
            \/ ReadRaises \/ _run_connected_session
            \/ (SupervisorRestarts /\ run)

\* The worker's thread and the mirror run, the supervisor starts a worker that
\* stopped where it may, the server goes on with something it has to do, and seats us
\* everywhere in turn.
Fairness ==
    /\ WF_doing(Decides) /\ WF_down(Reads)
    /\ WF_vars(Progress) /\ WF_vars(Drain)
    /\ WF_vars(ServerTakes \/ \E t \in Names : StartGame(t) \/ EndGame(t))
    /\ \A seat \in 0..(Seats - 1) : SF_game(Seated(seat))

Spec == Init /\ [][Next]_vars

----------------------------------------------------------------------------
(* Properties.                                                             *)

\* choose_arm_for_stratum: over all replays, failures and deaths the games a look
\* compares are its quotas, and none exceeds them.
SingleIsBalanced ==
    Balanced(rows, IF game = NoGame \/ filed # "nothing" THEN NothingReserved
                   ELSE [t \in {game.t} |-> game.a], interval)

\* reconcile_mirror_departure: "A send return alone cannot prove departure".
\* Nothing is played or opened while a departure is unresolved, and only a table
\* that is gone resolves it.
DepartureIsProved ==
    [][ /\ marker' # NoMarker =>
              game' = NoGame /\ \A i \in DOMAIN up' : up'[i].command = "leave"
        /\ marker # NoMarker /\ marker' = NoMarker => server[marker.t] = "none" ]_vars

\* Stopped for the operator too.
IsOver == proc \in {"done", "refused"}

Stranded == proc \in {"down", "failed"} /\ ~SupervisorRestarts

\* _on_end and _on_destroy: with pauses, games that fail or count for nothing, the
\* worker comes to the end of the campaign.
SingleEnds == trouble.deaths = 0 /\ trouble.losses = 0 => []<>(IsOver \/ Stranded)
=============================================================================
