----------------------------- MODULE TableSlots -----------------------------
(***************************************************************************)
(* The tables of MultiTableExternalGateWorker (src/skatai/iss/             *)
(* gate_worker.py): slots and game assignments on disk, departure markers, *)
(* CREATE, READY and LEAVE, with lost connections and process deaths       *)
(* between any two durable or visible steps.                               *)
(*                                                                         *)
(* A handler puts the calls it will make, in the code's order, into        *)
(* `todo'; each is one step.  A death or a failed send forgets the rest.   *)
(*                                                                         *)
(* Abstractions:                                                           *)
(*  - table_slots and assignment_by_game are each saved where they are     *)
(*    assigned, with nothing in between: one variable for memory and file; *)
(*  - a table's session state is created by CREATE and gone with the       *)
(*    connection, so it also says what _create_seen_current_connection and *)
(*    _leave_sent_current_connection say;                                  *)
(*  - the quotas are one stratum of Need games, the arm is any;            *)
(*  - the ISS server is external.  It destroys a table when we leave it,   *)
(*    and replays the tables and running games after a reconnect.          *)
(***************************************************************************)
EXTENDS Naturals, Sequences, FiniteSets

CONSTANTS
    Tables,    \* table names
    Capacity,  \* tables of the throughput policy
    Need,      \* primary games the campaign needs
    MaxGames,  \* bound: games of one table name
    Faults     \* bounds: sets of [deaths, losses, errors, pauses]

ASSUME SlotsAssumption ==
    /\ IsFiniteSet(Tables)
    /\ Capacity \in Nat \ {0, 1} /\ Need \in Nat /\ MaxGames \in Nat
    /\ Faults \subseteq [deaths : Nat, losses : Nat, errors : Nat, pauses : Nat]

VARIABLES
    slots,      \* disk: slots[t], the state of the slot or NONE
    active,     \* disk: active[t], the running game's assignment or NoGame
    marker,     \* disk: marker[t], the departure marker or NoMarker
    evidence,   \* disk: finished games and the status of their packages
    ledger,     \* disk: primary games in the gate ledger
    proc,       \* "running", "done", "killed", or the error it stopped with
    pause,      \* _mirror_pause_requested
    complete,   \* _campaign_complete_requested
    confirmed,  \* _confirmed_departures
    sess,       \* sess[t]: "none", "new" (no start heard), "idle", "playing"
    todo,       \* what is left of the handler in progress
    conn,       \* "up", "broken" (and not noticed yet), "closed"
    server,     \* server[t]: the table there, and the number of its games
    up,         \* commands travelling to the server
    down,       \* lines travelling to the client
    played,     \* history: played[t], arms that decided in the last game
    missed,     \* history: tables left while the disk has a game of theirs
    budget      \* what is left of the faults

disk   == <<slots, active, marker, evidence, ledger>>
flags  == <<pause, complete, confirmed>>
net    == <<conn, server, up, down>>
ghosts == <<played, missed, budget>>
vars   == <<disk, proc, flags, sess, todo, net, ghosts>>

NONE     == "NONE"
NoGame   == [n |-> 0, arm |-> NONE, primary |-> FALSE]
NoMarker == [reason |-> NONE, log |-> "nothing"]

Arms    == {"B0", "B1"}
States  == {"PENDING_CREATE", "READY_INTENT", "READY_SENT", "ACTIVE", "RETIRING"}
Reasons == {"BACKPRESSURE", "CAMPAIGN_COMPLETE", "OTHER"}

Game(t, n) == [table |-> t, n |-> n]
Running    == {t \in Tables : active[t] # NoGame}
Occupied   == {t \in Tables : slots[t] # NONE}
Holding    == {t \in Tables : marker[t] # NoMarker}
GameOf(t)  == Game(t, active[t].n)

\* scored_rows, and the rows reserved by running primary games.
Scored   == {g \in ledger : evidence[g] = "SCORED"}
Reserved == {GameOf(t) : t \in {u \in Running : active[u].primary}}

\* Mutation: running games reserve nothing.
MissingScores == Cardinality(Scored) < Need

Missing == Cardinality(Scored) + Cardinality(Reserved) < Need
Enough  == Cardinality(Scored) >= Need

----------------------------------------------------------------------------
(* The calls a handler is made of.                                         *)

\* Constructors of the entries of todo.
Slot(t, s)      == <<[call |-> "slot", t |-> t, state |-> s]>>
Send(t, c)      == <<[call |-> "send", t |-> t, command |-> c]>>
Retire(t, r)    == <<[call |-> "retire", t |-> t, reason |-> r, retry |-> FALSE]>>
RetryLeave(t)   == <<[call |-> "retire", t |-> t, reason |-> "OTHER", retry |-> TRUE]>>
RetireIdle(r)   == <<[call |-> "retire_idle", reason |-> r]>>
Do(call)        == <<[call |-> call]>>
On(call, t)     == <<[call |-> call, t |-> t]>>

Op == Head(todo)
Calling(call) == proc = "running" /\ todo # <<>> /\ Op.call = call
Return == todo' = Tail(todo)
Goto(ops) == todo' = ops \o Tail(todo)

NoSession == [t \in Tables |-> "none"]

\* The session ends; what was written to the socket may still arrive.
Hangup ==
    /\ conn' = "closed"
    /\ down' = <<>>
    /\ sess' = NoSession

\* The process stops; commands still buffered may be lost.
Ends(why) ==
    /\ proc' = why
    /\ Hangup
    /\ todo' = <<>>
    /\ pause' = FALSE /\ complete' = FALSE /\ confirmed' = {}
    /\ \E n \in 0..Len(up) : up' = SubSeq(up, 1, n)

Stop(why) == Ends(why) /\ UNCHANGED <<disk, server>>

Raise(why) == Stop(why) /\ UNCHANGED ghosts

SaveSlot ==
    /\ Calling("slot")
    /\ slots' = [slots EXCEPT ![Op.t] = Op.state]
    /\ Return
    /\ UNCHANGED <<active, marker, evidence, ledger, proc, flags, sess, net,
                   ghosts>>

\* send_service_command: on a broken connection the line is lost, and the
\* send may raise.  Only then is the line journalled.
Logged(t, c) ==
    IF c = "leave" THEN On("log_leave", t) ELSE <<>>

SendCommand ==
    /\ Calling("send")
    /\ conn # "closed"
    /\ up' = IF conn = "up" THEN Append(up, [command |-> Op.command, t |-> Op.t])
             ELSE up
    /\ Goto(Logged(Op.t, Op.command))
    /\ UNCHANGED <<disk, proc, flags, sess, conn, server, down, ghosts>>

SendRaises ==
    /\ Calling("send")
    /\ conn = "broken"
    /\ Hangup
    /\ todo' = <<>>
    /\ UNCHANGED <<disk, proc, flags, server, up, ghosts>>

\* The protocol journal, as far as reconcile_mirror_departure reads it: one
\* LEAVE after the marker and then a DESTROY confirm the departure.
LogLeave ==
    /\ Calling("log_leave")
    /\ marker' = [marker EXCEPT ![Op.t].log =
                    IF @ = "nothing" THEN "left" ELSE "ambiguous"]
    /\ Return
    /\ UNCHANGED <<slots, active, evidence, ledger, proc, flags, sess, net, ghosts>>

SaveMarker ==
    /\ Calling("mark")
    /\ marker' = [marker EXCEPT ![Op.t] = [reason |-> Op.reason, log |-> "nothing"]]
    /\ Return
    /\ UNCHANGED <<slots, active, evidence, ledger, proc, flags, sess, net, ghosts>>

UnlinkMarker ==
    /\ Calling("unlink")
    /\ marker' = [marker EXCEPT ![Op.t] = NoMarker]
    /\ Return
    /\ UNCHANGED <<slots, active, evidence, ledger, proc, flags, sess, net, ghosts>>

\* Mutation: the marker is written after LEAVE.
RetireThenMark ==
    /\ Calling("retire")
    /\ LET t == Op.t
       IN  \/ /\ slots[t] \in {NONE, "RETIRING"}
              /\ Return
              /\ UNCHANGED slots
           \/ /\ slots[t] \notin {NONE, "RETIRING"}
              /\ slots' = [slots EXCEPT ![t] = "RETIRING"]
              /\ Goto(Send(t, "leave")
                      \o <<[call |-> "mark", t |-> t, reason |-> Op.reason]>>)
    /\ UNCHANGED <<active, marker, evidence, ledger, proc, flags, sess, net,
                   ghosts>>

\* _retire_table.
RetireTable ==
    /\ Calling("retire")
    /\ LET t == Op.t
           departs == Send(t, "leave")
       IN  \/ /\ slots[t] = NONE \/ (slots[t] = "RETIRING" /\ ~Op.retry)
              /\ Return
              /\ UNCHANGED <<disk, proc, flags, sess, net, ghosts>>
           \/ /\ slots[t] = "RETIRING" /\ Op.retry
              /\ IF marker[t] = NoMarker
                 THEN Raise("RETIRING_TABLE_WITHOUT_DEPARTURE_MARKER")
                 ELSE Goto(departs) /\ UNCHANGED <<disk, proc, flags, sess, net, ghosts>>
           \/ /\ slots[t] \notin {NONE, "RETIRING"}
              /\ IF marker[t] # NoMarker
                 THEN Raise("DEPARTURE_MARKER_WITH_NONRETIRING_SLOT")
                 ELSE /\ slots' = [slots EXCEPT ![t] = "RETIRING"]
                      /\ Goto(<<[call |-> "mark", t |-> t, reason |-> Op.reason]>>
                              \o departs)
                      /\ UNCHANGED <<active, marker, evidence, ledger, proc,
                                     flags, sess, net, ghosts>>

\* _retire_idle_tables: every table without a game that is known to be idle.
Idle == {t \in Occupied \ Running : /\ slots[t] \notin {"RETIRING", "PENDING_CREATE"}
                                    /\ sess[t] \in {"new", "idle"}}

RetireIdleTables ==
    /\ Calling("retire_idle")
    /\ \/ Idle = {} /\ Return
       \/ \E t \in Idle : todo' = Retire(t, Op.reason) \o todo
    /\ UNCHANGED <<disk, proc, flags, sess, net, ghosts>>

\* The handshake before a game: READY leaves between two saved states.
ReadyTable ==
    /\ Calling("ready")
    /\ slots' = [slots EXCEPT ![Op.t] = "READY_INTENT"]
    /\ Goto(Send(Op.t, "ready") \o Slot(Op.t, "READY_SENT"))
    /\ UNCHANGED <<active, marker, evidence, ledger, proc, flags, sess, net, ghosts>>

\* A name never used, or one of which nothing is left.
Fresh(t) == /\ slots[t] = NONE /\ marker[t] = NoMarker /\ active[t] = NoGame
            /\ server[t].st = "none"
            /\ \A i \in DOMAIN up : up[i].t # t
            /\ \A i \in DOMAIN down : down[i].t # t

\* Mutation: CREATE is sent before its slot is saved.
CreateThenSave ==
    /\ Calling("fill")
    /\ IF pause \/ complete \/ Cardinality(Occupied) >= Capacity \/ ~Missing
       THEN Return
       ELSE \E t \in Tables :
               Fresh(t) /\ todo' = Send(t, "create") \o Slot(t, "PENDING_CREATE") \o todo
    /\ UNCHANGED <<disk, proc, flags, sess, net, ghosts>>

\* _create_next_table, one table at a time.
CreateNextTable ==
    /\ Calling("fill")
    /\ IF pause \/ complete \/ Cardinality(Occupied) >= Capacity
       THEN Return /\ UNCHANGED <<slots, complete>>
       ELSE IF Enough
       THEN complete' = TRUE /\ Return /\ UNCHANGED slots
       ELSE IF ~Missing
       THEN Return /\ UNCHANGED <<slots, complete>>
       ELSE \E t \in Tables :
               /\ Fresh(t)
               /\ slots' = [slots EXCEPT ![t] = "PENDING_CREATE"]
               /\ todo' = Send(t, "create") \o todo
               /\ UNCHANGED complete
    /\ UNCHANGED <<active, marker, evidence, ledger, proc, pause, confirmed,
                   sess, net, ghosts>>

\* The session returns when no table and no game is left: the campaign is
\* over, or the mirror must catch up first.
Outcome ==
    /\ Calling("outcome")
    /\ IF Running # {} \/ Occupied # {} \/ ~(pause \/ complete)
       THEN Return /\ UNCHANGED <<proc, conn, down, sess>>
       ELSE /\ Hangup
            /\ IF complete THEN proc' = "done" /\ todo' = <<>>
               ELSE todo' = Do("wait") /\ UNCHANGED proc
    /\ UNCHANGED <<disk, flags, server, up, ghosts>>

\* _wait_for_mirror_capacity: the backlog drains, the pause is over once no
\* table is left.
WaitForMirrorCapacity ==
    /\ Calling("wait")
    /\ pause' = (pause /\ (Running # {} \/ Holding # {} \/ Occupied # {}))
    /\ Return
    /\ UNCHANGED <<disk, proc, complete, confirmed, sess, net, ghosts>>

----------------------------------------------------------------------------
(* Inbound lines.                                                          *)

Reading(event) ==
    /\ proc = "running" /\ todo = <<>> /\ conn # "closed"
    /\ down # <<>> /\ Head(down).event = event

Line == Head(down)
Taken == down' = Tail(down)

EnsureActive(t) == IF slots[t] = "ACTIVE" THEN <<>> ELSE Slot(t, "ACTIVE")

OnCreate ==
    /\ Reading("create")
    /\ LET t == Line.t
       IN  /\ sess' = [sess EXCEPT ![t] = "new"]
           /\ todo' = IF active[t] # NoGame THEN EnsureActive(t)
                      ELSE IF slots[t] = "RETIRING" THEN RetryLeave(t)
                      ELSE IF pause THEN Retire(t, "BACKPRESSURE")
                      ELSE IF complete THEN Retire(t, "CAMPAIGN_COMPLETE")
                      ELSE IF slots[t] = "PENDING_CREATE" THEN On("ready", t)
                      ELSE Retire(t, "OTHER")
    /\ Taken
    /\ UNCHANGED <<disk, proc, flags, conn, server, up, ghosts>>

\* _on_start_preapply, and then the start is applied.
OnStart ==
    /\ Reading("start")
    /\ LET t == Line.t
       IN  \/ /\ slots[t] = "RETIRING"
              /\ Raise("GAME_STARTED_ON_RETIRING_TABLE")
           \/ /\ slots[t] # "RETIRING"
              /\ todo' = EnsureActive(t)
                         \o <<[call |-> "assign", t |-> t, n |-> Line.n]>>
                         \o On("play", t)
              /\ Taken
              /\ UNCHANGED <<disk, proc, flags, sess, conn, server, up, ghosts>>

\* A game assigned before keeps its assignment.  A game nobody needs is a
\* diagnostic one.
Assign ==
    /\ Calling("assign")
    /\ IF active[Op.t] # NoGame
       THEN UNCHANGED active
       ELSE \E arm \in IF Missing THEN Arms ELSE {"B0"} :
               active' = [active EXCEPT ![Op.t] =
                            [n |-> Op.n, arm |-> arm, primary |-> Missing]]
    /\ Return
    /\ UNCHANGED <<slots, marker, evidence, ledger, proc, flags, sess, net, ghosts>>

\* The client applies the start: from here on the bound arm decides.
PlayGame ==
    /\ Calling("play")
    /\ sess' = [sess EXCEPT ![Op.t] = "playing"]
    /\ played' = [played EXCEPT ![Op.t] =
                    @ \cup {active[Op.t].arm}]
    /\ Return
    /\ UNCHANGED <<disk, proc, flags, net, missed, budget>>

\* A game is looked up by its number, and the table of a new session has
\* number 0 until a start is heard.
Known(t) == active[t] # NoGame /\ sess[t] # "new"

Finish(t, status, counts, then) ==
    todo' = <<[call |-> "package", t |-> t, status |-> status],
              [call |-> "record", t |-> t, counts |-> counts]>>
            \o On("withdraw", t) \o then

\* A finished game is scored, or a failure: effects without an outcome, or a
\* penalty.  It counts if it is a primary one and still needed.
OnEnd ==
    /\ Reading("end")
    /\ LET t == Line.t
       IN  \/ ~Known(t) /\ Raise("MISSING_GAME_ASSIGNMENT")
           \/ /\ Known(t)
              /\ sess' = [sess EXCEPT ![t] = "idle"]
              /\ \/ /\ Finish(t, "SCORED", active[t].primary /\ ~Enough, On("after_end", t))
                    /\ UNCHANGED budget
                 \/ /\ budget.errors > 0
                    /\ Finish(t, "FAILED", active[t].primary /\ ~Enough, On("after_end", t))
                    /\ budget' = [budget EXCEPT !.errors = @ - 1]
              /\ Taken
              /\ UNCHANGED <<disk, proc, flags, conn, server, up, played, missed>>

Package ==
    /\ Calling("package")
    /\ LET g == GameOf(Op.t)
       IN  evidence' = [x \in DOMAIN evidence \cup {g} |->
                          IF x = g THEN Op.status ELSE evidence[x]]
    /\ Return
    /\ UNCHANGED <<slots, active, marker, ledger, proc, flags, sess, net, ghosts>>

Record ==
    /\ Calling("record")
    /\ ledger' = IF Op.counts THEN ledger \cup {GameOf(Op.t)} ELSE ledger
    /\ Return
    /\ UNCHANGED <<slots, active, marker, evidence, proc, flags, sess, net, ghosts>>

Withdraw ==
    /\ Calling("withdraw")
    /\ active' = [active EXCEPT ![Op.t] = NoGame]
    /\ Return
    /\ UNCHANGED <<slots, marker, evidence, ledger, proc, flags, sess, net, ghosts>>

\* The rest of _on_end: complete, paused, a game still missing, or rotate.
AfterEnd ==
    /\ Calling("after_end")
    /\ complete' = (complete \/ Enough)
    /\ \/ UNCHANGED <<pause, budget>>
       \/ /\ budget.pauses > 0
          /\ pause' = TRUE
          /\ budget' = [budget EXCEPT !.pauses = @ - 1]
    /\ Goto(CASE complete' -> Retire(Op.t, "CAMPAIGN_COMPLETE")
                                \o RetireIdle("CAMPAIGN_COMPLETE")
              [] ~complete' /\ pause' -> Retire(Op.t, "BACKPRESSURE")
                                \o RetireIdle("BACKPRESSURE")
              [] ~complete' /\ ~pause' /\ Missing -> On("ready", Op.t)
              [] OTHER -> Retire(Op.t, "OTHER"))
    /\ UNCHANGED <<disk, proc, confirmed, sess, net, played, missed>>

\* _on_table_error: a known game fails, and the table is left.
OnTableError ==
    /\ Reading("error")
    /\ LET t == Line.t
       IN  /\ sess' = [sess EXCEPT ![t] = IF @ = "new" THEN "new" ELSE "idle"]
           /\ IF Known(t)
              THEN Finish(t, "FAILED", active[t].primary, Retire(t, "OTHER"))
              ELSE todo' = Retire(t, "OTHER")
           /\ missed' = IF active[t] # NoGame /\ ~Known(t) THEN missed \cup {t}
                        ELSE missed
    /\ Taken
    /\ UNCHANGED <<disk, proc, flags, conn, server, up, played, budget>>

\* The line is journalled before _on_destroy acts on it.
OnDestroy ==
    /\ Reading("destroy")
    /\ LET t == Line.t
       IN  /\ marker' = IF marker[t] = NoMarker THEN marker
                        ELSE [marker EXCEPT ![t].log =
                                IF @ = "left" THEN "confirmed" ELSE "ambiguous"]
           /\ \/ active[t] # NoGame /\ Ends("DESTROY_WITH_ACTIVE_GAME")
              \/ /\ active[t] = NoGame
                 /\ sess' = [sess EXCEPT ![t] = "none"]
                 /\ todo' = On("unlink", t) \o Slot(t, NONE) \o Do("after_destroy")
                 /\ Taken
                 /\ UNCHANGED <<proc, flags, conn, up>>
    /\ UNCHANGED <<slots, active, evidence, ledger, server, ghosts>>

\* Mutation: a paused worker does not look whether it was the last table.
AfterDestroyForgets ==
    /\ Calling("after_destroy")
    /\ Goto(IF pause THEN RetireIdle("BACKPRESSURE")
            ELSE IF complete THEN RetireIdle("CAMPAIGN_COMPLETE") \o Do("outcome")
            ELSE Do("fill"))
    /\ UNCHANGED <<disk, proc, flags, sess, net, ghosts>>

AfterDestroy ==
    /\ Calling("after_destroy")
    /\ Goto(CASE complete -> RetireIdle("CAMPAIGN_COMPLETE") \o Do("outcome")
              [] ~complete /\ pause -> RetireIdle("BACKPRESSURE") \o Do("outcome")
              [] OTHER -> Do("fill"))
    /\ UNCHANGED <<disk, proc, flags, sess, net, ghosts>>

Calls == SaveSlot \/ SendCommand \/ SendRaises \/ LogLeave \/ SaveMarker
         \/ UnlinkMarker \/ RetireTable \/ RetireIdleTables \/ ReadyTable
         \/ CreateNextTable \/ Outcome \/ WaitForMirrorCapacity \/ Assign
         \/ PlayGame \/ Package \/ Record \/ Withdraw \/ AfterEnd \/ AfterDestroy
Handlers == OnCreate \/ OnStart \/ OnEnd \/ OnTableError \/ OnDestroy

----------------------------------------------------------------------------
(* Sessions, deaths and restarts.                                          *)

\* The server's replay of what it has of us, the tables in any order, each
\* created and then its game started.
Replay ==
    {[event |-> "create", t |-> t] : t \in {u \in Tables : server[u].st # "none"}}
    \cup {[event |-> "start", t |-> t, n |-> server[t].n] :
             t \in {u \in Tables : server[u].st = "playing"}}

Replays(lines) ==
    /\ \A i, j \in DOMAIN lines : lines[i] = lines[j] => i = j
    /\ \A i \in DOMAIN lines : lines[i].event = "start" =>
          i > 1 /\ lines[i - 1] = [event |-> "create", t |-> lines[i].t]

\* Login, and then _create_next_table.
Connect ==
    /\ proc = "running" /\ todo = <<>> /\ conn = "closed"
    /\ up = <<>>
    /\ conn' = "up"
    /\ \E lines \in [1..Cardinality(Replay) -> Replay] : Replays(lines) /\ down' = lines
    /\ todo' = Do("fill") \o Do("outcome")
    /\ UNCHANGED <<disk, proc, flags, sess, server, up, ghosts>>

ReadRaises ==
    /\ proc = "running" /\ todo = <<>> /\ conn = "broken" /\ down = <<>>
    /\ Hangup
    /\ UNCHANGED <<disk, proc, flags, todo, server, up, ghosts>>

Break ==
    /\ conn = "up" /\ budget.losses > 0
    /\ conn' = "broken"
    /\ \E n \in 0..Len(up) : up' = SubSeq(up, 1, n)
    /\ \E n \in 0..Len(down) : down' = SubSeq(down, 1, n)
    /\ budget' = [budget EXCEPT !.losses = @ - 1]
    /\ UNCHANGED <<disk, proc, flags, sess, todo, server, played, missed>>

Die ==
    /\ proc = "running" /\ budget.deaths > 0
    /\ Stop("killed")
    /\ budget' = [budget EXCEPT !.deaths = @ - 1]
    /\ UNCHANGED <<played, missed>>

\* run: the departure markers set the flags again, ...
Restart ==
    /\ proc \notin {"running", "done"}
    /\ proc' = "running"
    /\ pause' = \E t \in Holding : marker[t].reason = "BACKPRESSURE"
    /\ complete' = \E t \in Holding : marker[t].reason = "CAMPAIGN_COMPLETE"
    /\ todo' = Do("confirm") \o Do("recover") \o Do("restore") \o Do("wait")
    /\ UNCHANGED <<disk, confirmed, sess, net, ghosts>>

\* ... departures the journal proves are confirmed, ...
Confirm ==
    /\ Calling("confirm")
    /\ LET proved == {t \in Holding : marker[t].log = "confirmed"}
       IN  \/ proved = {} /\ Return /\ UNCHANGED <<marker, confirmed>>
           \/ \E t \in proved :
                 /\ marker' = [marker EXCEPT ![t] = NoMarker]
                 /\ confirmed' = confirmed \cup {t}
                 /\ UNCHANGED todo
    /\ UNCHANGED <<slots, active, evidence, ledger, proc, pause, complete, sess,
                   net, ghosts>>

\* ... games that are over on disk are withdrawn, if the ledger agrees, ...
Recover ==
    /\ Calling("recover")
    /\ LET over == {t \in Running : GameOf(t) \in DOMAIN evidence}
       IN  IF \E t \in over : evidence[GameOf(t)] # "SCORED"
           THEN Raise("TERMINAL_ACTIVE_RECOVERY_EVIDENCE_MISMATCH")
           ELSE IF \E t \in over : GameOf(t) \notin ledger
           THEN Raise("TERMINAL_ACTIVE_RECOVERY_LEDGER_MISMATCH")
           ELSE /\ active' = [t \in Tables |-> IF t \in over THEN NoGame ELSE active[t]]
                /\ Return
                /\ UNCHANGED <<slots, marker, evidence, ledger, proc, flags,
                               sess, net, ghosts>>

\* ... and the slots are restored.
Restore ==
    /\ Calling("restore")
    /\ LET kept == [t \in Tables |-> IF t \in confirmed THEN NONE ELSE slots[t]]
       IN  IF \E t \in Running : kept[t] = "RETIRING"
           THEN Raise("ACTIVE_GAME_ON_RETIRING_TABLE")
           ELSE IF Cardinality({t \in Tables : kept[t] # NONE} \cup Running) > Capacity
           THEN Raise("RESTORED_TABLE_SLOTS_EXCEED_CONFIGURED_CAPACITY")
           ELSE /\ slots' = [t \in Tables |-> IF t \in Running THEN "ACTIVE" ELSE kept[t]]
                /\ Return
                /\ UNCHANGED <<active, marker, evidence, ledger, proc, flags,
                               sess, net, ghosts>>

Recovery == Confirm \/ Recover \/ Restore
Session == Connect \/ ReadRaises \/ Restart \/ Recovery
Breakage == Break \/ Die

----------------------------------------------------------------------------
(* The server (external).                                                  *)

Tell(line) == down' = IF conn = "up" THEN Append(down, line) ELSE down

Table(t, st) == server' = [server EXCEPT ![t].st = st]

ServerTakes ==
    /\ up # <<>>
    /\ up' = Tail(up)
    /\ LET t == Head(up).t
           c == Head(up).command
           st == server[t].st
       IN  \/ /\ c = "create" /\ st = "none"
              /\ Table(t, "open") /\ Tell([event |-> "create", t |-> t])
           \/ /\ c = "ready" /\ st = "open"
              /\ Table(t, "ready") /\ UNCHANGED down
           \/ /\ c = "leave" /\ st # "none"
              /\ Table(t, "none") /\ Tell([event |-> "destroy", t |-> t])
           \/ /\ (c = "ready" /\ st # "open") \/ (c = "leave" /\ st = "none")
              /\ UNCHANGED <<server, down>>
    /\ UNCHANGED <<disk, proc, flags, sess, todo, conn, ghosts>>

StartGame(t) ==
    /\ server[t].st = "ready" /\ server[t].n < MaxGames
    /\ server' = [server EXCEPT ![t] = [st |-> "playing", n |-> @.n + 1]]
    /\ Tell([event |-> "start", t |-> t, n |-> server[t].n + 1])
    /\ played' = [played EXCEPT ![t] = {}]
    /\ UNCHANGED <<disk, proc, flags, sess, todo, conn, up, missed, budget>>

EndGame(t) ==
    /\ server[t].st = "playing"
    /\ Table(t, "open")
    /\ Tell([event |-> "end", t |-> t])
    /\ UNCHANGED <<disk, proc, flags, sess, todo, conn, up, ghosts>>

Refuse(t) ==
    /\ server[t].st # "none" /\ conn = "up" /\ budget.errors > 0
    /\ Tell([event |-> "error", t |-> t])
    /\ budget' = [budget EXCEPT !.errors = @ - 1]
    /\ UNCHANGED <<disk, proc, flags, sess, todo, conn, server, up, played, missed>>

----------------------------------------------------------------------------
Init ==
    /\ slots = [t \in Tables |-> NONE]
    /\ active = [t \in Tables |-> NoGame]
    /\ marker = [t \in Tables |-> NoMarker]
    /\ evidence = << >>
    /\ ledger = {}
    /\ proc = "running"
    /\ pause = FALSE /\ complete = FALSE /\ confirmed = {}
    /\ sess = NoSession
    /\ todo = <<>>
    /\ conn = "closed"
    /\ server = [t \in Tables |-> [st |-> "none", n |-> 0]]
    /\ up = <<>> /\ down = <<>>
    /\ played = [t \in Tables |-> {}]
    /\ missed = {}
    /\ budget \in Faults

Server == ServerTakes \/ \E t \in Tables : StartGame(t) \/ EndGame(t) \/ Refuse(t)

Next == Calls \/ Handlers \/ Session \/ Breakage \/ Server

Spec == Init /\ [][Next]_vars

\* The thread of a worker that runs: no supervisor is bound to start it again.
Proceeds == Calls \/ Handlers \/ Connect \/ ReadRaises \/ Recovery

\* The worker's thread runs, and the server goes on with something it has to do.
Fairness ==
    /\ WF_vars(Proceeds)
    /\ WF_vars(ServerTakes \/ \E t \in Tables : StartGame(t) \/ EndGame(t))

FairSpec == Spec /\ Fairness

----------------------------------------------------------------------------
(* Properties.                                                             *)

\* Type correctness of the files and of the process.
TypeOK ==
    /\ slots \in [Tables -> States \cup {NONE}]
    /\ \A t \in Running : active[t] \in [n : 1..MaxGames, arm : Arms, primary : BOOLEAN]
    /\ \A t \in Holding : marker[t] \in [reason : Reasons,
                            log : {"nothing", "left", "confirmed", "ambiguous"}]
    /\ ledger \subseteq DOMAIN evidence
    /\ \A g \in DOMAIN evidence : evidence[g] \in {"SCORED", "FAILED"}
    /\ sess \in [Tables -> {"none", "new", "idle", "playing"}]
    /\ pause \in BOOLEAN /\ complete \in BOOLEAN /\ confirmed \subseteq Tables

Travels(c, t) == \E i \in DOMAIN up : up[i] = [command |-> c, t |-> t]

\* _create_next_table and _on_destroy: every table the server has of us, or is
\* going to have, holds one of the slots of the policy.
TablesAreManaged ==
    /\ Cardinality(Occupied) <= Capacity
    /\ \A t \in Tables : server[t].st # "none" \/ Travels("create", t) => t \in Occupied

\* _retire_table: a table is left only once its departure is on disk, and one
\* that is gone stays recorded as leaving until the slot is free, unless a
\* game of it was missed.
DepartureIsDurable ==
    \A t \in Tables :
        /\ Travels("leave", t) => slots[t] = "RETIRING" /\ marker[t] # NoMarker
        /\ server[t].st = "none" =>
              slots[t] \in {NONE, "PENDING_CREATE", "RETIRING"} \/ t \in missed

\* What _restore_active_game_authority and _retire_table refuse to go on with
\* is never on disk, whenever the process died, unless a table error came for
\* a game whose end was lost with the connection.
DiskIsConsistent ==
    \A t \in Tables :
        /\ marker[t] # NoMarker => slots[t] = "RETIRING" \/ t \in missed
        /\ active[t] # NoGame => slots[t] = "ACTIVE" \/ t \in missed
        /\ t \in missed => active[t] # NoGame /\ slots[t] \in {"ACTIVE", "RETIRING"}

\* _on_create: "Never resend READY/invites."  The server never gets READY for
\* a table that is ready or in a game.
NoSecondReady ==
    \A t \in Tables :
        Cardinality({i \in DOMAIN up : up[i] = [command |-> "ready", t |-> t]})
        + (IF server[t].st \in {"ready", "playing"} THEN 1 ELSE 0) <= 1

\* _on_start_preapply: a game is played on an assignment that is on disk, and
\* by one arm, over every reconnect and restart.
OneArmPerGame ==
    \A t \in Tables :
        /\ Cardinality(played[t]) <= 1 /\ NONE \notin played[t]
        /\ active[t] # NoGame => played[t] \subseteq {active[t].arm}

\* A restart finds slots, games and departures as a worker may have left them.
DiskIsSound == TypeOK /\ DepartureIsDurable /\ DiskIsConsistent

\* The server and the worker agree on the tables, over every replay of them.
TablesAreAgreed == TablesAreManaged /\ NoSecondReady

\* choose_arm_for_stratum with reservations: no game is played as a primary
\* one beyond the quota.
QuotaIsReserved == Cardinality(Scored \cup Reserved) <= Need

\* A game counts once, for the arm that played it.
GamesAreAssigned == OneArmPerGame /\ QuotaIsReserved

\* Or the worker stops over a game that begins, or ends, at a table it has just left.
IsOver == proc \in {"done", "GAME_STARTED_ON_RETIRING_TABLE", "MISSING_GAME_ASSIGNMENT"}

\* Table errors, failed games and pauses do not keep the campaign from ending.
Finishes == budget.deaths = 0 /\ budget.losses = 0 => <>IsOver
=============================================================================
