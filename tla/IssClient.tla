----------------------------- MODULE IssClient -----------------------------
(***************************************************************************)
(* ISSClientCore (src/skatai/iss/client.py) on one table of the gate       *)
(* worker: the reader thread that applies protocol lines, the inference    *)
(* executor and the done-callbacks that send its decisions, the effect     *)
(* journal underneath, an ISS server, and a connection and a process that  *)
(* may fail.  Every step ends where a lock is taken or released, or where  *)
(* something becomes durable or visible.                                   *)
(*                                                                         *)
(* Abstractions:                                                           *)
(*  - one game of one table, so the key of _decision_futures is constant;  *)
(*  - a callback holds the state lock exactly while `sender' is busy; each *)
(*    other critical section is one step.  The effect lock is free while   *)
(*    `sender' is at "none" or "begin";                                    *)
(*  - futures of a closed client object find it disconnected and return:   *)
(*    they are dropped when the client closes;                             *)
(*  - the ISS server is external.  It answers a reconnect with a replay of *)
(*    the game, and a line it cannot accept with a table error.            *)
(***************************************************************************)
EXTENDS EffectRecords, FiniteSets

CONSTANTS
    Workers,      \* inference workers of the decision executor, if there is one
    Futures,      \* bound: names for the futures that exist at one time
    MaxMoves,     \* bound: moves of a game
    Setups        \* the kinds of worker, each with its bounds

\* async: is there a decision executor (the multi-table worker)?
\* restarts: lost connections and process deaths.  errors: table errors the
\* server sends unprovoked.  failures: decisions that raise.
ASSUME ExecutorAssumption ==
    /\ Workers \in Nat \ {0}
    /\ Setups \subseteq [async : BOOLEAN, restarts : Nat, errors : Nat, failures : Nat]
\* One game of one table, of bounded length.
ASSUME TableAssumption ==
    /\ \E g \in Games : Games = {g}
    /\ MaxMoves \in Nat

VARIABLES
    history,   \* the server's moves of the game
    down,      \* lines travelling from the server to the client
    lines,     \* per effect: lines sent to the server, lines still travelling
    conn,      \* "up", "broken" (and not noticed yet), "closed" by a process that goes
               \* on, "dead" with its process
    table,     \* TableSession: its moves, and in_progress as a phase
    effects,   \* the journal replayed: effect id -> [status, attempts]
    readable,  \* does the journal file still replay?
    reader,    \* where the reader thread is
    futures,   \* the executor's futures and their done-callbacks
    slot,      \* _decision_futures[key]
    errors,    \* is _decision_errors nonempty?
    sender,    \* the decision being sent, if any
    setup      \* the kind of worker, and what is left of its bounds

vars == <<history, down, lines, conn, table, effects, readable, reader,
          futures, slot, errors, sender, setup>>
server  == <<history, down, lines>>
journal == <<effects, readable>>
pool    == <<futures, slot, errors>>

NONE  == "NONE"
Connected == conn \in {"up", "broken"}
Free  == [st |-> "free"]
Quiet == [pc |-> "none"]
At(pc) == [pc |-> pc]

Game    == CHOOSE g \in Games : TRUE
pending == Pending(effects, Game)
in_progress == table.phase = "live"

\* The decision provider acts only on an open turn of ours.
OurTurn(p) == TurnAt(p) \in MyTurns /\ ~GameOver(p) /\ ~HasLeft(p)

StartLine(p) == [event |-> "start", moves |-> p]
PlayLine(m)  == [event |-> "play", move |-> m]
EndLine      == [event |-> "end"]
ErrorLine    == [event |-> "error"]

\* What the server writes reaches a connection that is up, as long as the
\* client has not left the table.
Tell(s) == down' = IF conn = "up" /\ table.phase # "failed" THEN down \o s ELSE down

Init ==
    /\ history = <<>>
    /\ down = <<StartLine(<<>>)>>
    /\ lines = << >>
    /\ conn = "up"
    /\ table = [phase |-> "away", moves |-> <<>>]
    /\ effects = << >>
    /\ readable = TRUE
    /\ reader = At("idle")
    /\ futures = [f \in Futures |-> Free]
    /\ slot = NONE
    /\ errors = FALSE
    /\ sender = Quiet
    /\ setup \in Setups

----------------------------------------------------------------------------
(* The reader thread: handle_line.                                         *)

\* Mutation: the line is applied under no lock.
ReceiveUnlocked(event) ==
    /\ reader.pc = "idle" /\ Connected /\ down # <<>>
    /\ Head(down).event = event
    /\ ~errors
    /\ down' = Tail(down)

\* The next line is applied under the state lock, unless an asynchronous
\* decision error is waiting to be raised.
Receive(event) ==
    /\ reader.pc = "idle" /\ Connected /\ down # <<>>
    /\ Head(down).event = event
    /\ sender = Quiet
    /\ ~errors
    /\ down' = Tail(down)

\* table_start and table_play are reconciled in the same critical section.
Applied(phase, p) ==
    /\ readable
    /\ table' = [phase |-> phase, moves |-> p]
    /\ effects' = reconcile_table(effects, Game, p)
    /\ reader' = At("ask")

ApplyStart ==
    /\ Receive("start")
    /\ Applied("live", Head(down).moves)
    /\ UNCHANGED <<history, lines, conn, readable, pool, sender, setup>>

ApplyPlay ==
    /\ Receive("play")
    /\ Applied(table.phase, Append(table.moves, Head(down).move))
    /\ UNCHANGED <<history, lines, conn, readable, pool, sender, setup>>

ApplyEnd ==
    /\ Receive("end")
    /\ table' = [table EXCEPT !.phase = IF in_progress THEN "ended" ELSE @]
    /\ UNCHANGED <<history, lines, conn, journal, reader, pool, sender, setup>>

ApplyError ==
    /\ Receive("error")
    /\ reader' = At("error")
    /\ UNCHANGED <<history, lines, conn, table, journal, pool, sender, setup>>

\* _on_table_error of the multi-table worker, on the reader thread but under
\* no lock: the table is stopped, each effect found pending is aborted, and
\* the game is recorded as failed.
StopTable ==
    /\ reader.pc = "error"
    /\ readable
    /\ IF in_progress
       THEN /\ table' = [table EXCEPT !.phase = "stopped"]
            /\ reader' = [pc |-> "abort", found |-> pending]
       ELSE reader' = At("idle") /\ UNCHANGED table
    /\ UNCHANGED <<server, conn, journal, pool, sender, setup>>

\* Mutation: only what has not been sent is aborted.
AbortIntents ==
    /\ reader.pc = "abort"
    /\ effects' = SetStatus(effects, reader.found \cap IntentsOf(effects, Game),
                            "ABORTED_ERROR")
    /\ reader' = At("failing")
    /\ UNCHANGED <<server, conn, table, readable, pool, sender, setup>>

AbortPending ==
    /\ reader.pc = "abort"
    /\ readable
    /\ effects' = SetStatus(effects, reader.found \cap pending, "ABORTED_ERROR")
    /\ reader' = At("failing")
    /\ UNCHANGED <<server, conn, table, readable, pool, sender, setup>>

RecordFailure ==
    /\ reader.pc = "failing"
    /\ table' = [table EXCEPT !.phase = "failed"]
    /\ reader' = At("idle")
    /\ UNCHANGED <<server, conn, journal, pool, sender, setup>>

----------------------------------------------------------------------------
(* _maybe_send_move, on the reader thread or on a worker thread whose      *)
(* decision came too late.                                                 *)

EffectLockFree == sender.pc \in {"none", "begin"}

\* An effect in flight ends the request at once.
WantsMove == in_progress /\ pending = {}

ReaderAsks ==
    /\ setup.async
    /\ reader.pc = "ask" /\ EffectLockFree /\ readable
    /\ reader' = At(IF WantsMove THEN "submit" ELSE "idle")
    /\ UNCHANGED <<server, conn, table, journal, pool, sender, setup>>

WorkerAsks(f) ==
    /\ futures[f].st = "ask" /\ EffectLockFree
    /\ futures' = [futures EXCEPT ![f] =
                     IF WantsMove /\ readable THEN [st |-> "submit"] ELSE Free]
    /\ UNCHANGED <<server, conn, table, journal, reader, slot, errors, sender,
                   setup>>

Unfinished(f) == f # NONE /\ futures[f].st \in {"queued", "running"}

\* Under the state lock: one unfinished future per game, else submit another.
Submit(after) ==
    /\ sender = Quiet
    /\ IF Unfinished(slot)
       THEN futures' = after /\ UNCHANGED slot
       ELSE \E f \in Futures :
               /\ after[f] = Free
               /\ futures' = [after EXCEPT ![f] =
                                [st |-> "queued", snap |-> table.moves]]
               /\ slot' = f

ReaderSubmits ==
    /\ reader.pc = "submit"
    /\ Submit(futures)
    /\ reader' = At("idle")
    /\ UNCHANGED <<server, conn, table, journal, errors, sender, setup>>

WorkerSubmits(w) ==
    /\ futures[w].st = "submit"
    /\ Submit([futures EXCEPT ![w] = Free])
    /\ UNCHANGED <<server, conn, table, journal, reader, errors, sender, setup>>

\* Without an executor the reader thread decides and sends by itself.
ReaderDecides ==
    /\ ~setup.async
    /\ reader.pc = "ask" /\ readable
    /\ IF WantsMove /\ OurTurn(table.moves)
       THEN \E a \in Actions :
               /\ sender' = [pc |-> "begin", action |-> a,
                              pos |-> table.moves, snap |-> table.moves]
               /\ reader' = At("sending")
       ELSE reader' = At("idle") /\ UNCHANGED sender
    /\ UNCHANGED <<server, conn, table, journal, pool, setup>>

----------------------------------------------------------------------------
(* The executor.                                                           *)

Busy == Cardinality({f \in Futures : futures[f].st \notin {"free", "queued"}})
        + (IF setup.async /\ sender # Quiet THEN 1 ELSE 0)

Run(f) ==
    /\ futures[f].st = "queued" /\ Busy < Workers
    /\ futures' = [futures EXCEPT ![f].st = "running"]
    /\ UNCHANGED <<server, conn, table, journal, reader, slot, errors, sender,
                   setup>>

Decide(f) ==
    /\ futures[f].st = "running"
    /\ \E a \in Actions \cup {NONE} :
          /\ (a = NONE) = ~OurTurn(futures[f].snap)
          /\ futures' = [futures EXCEPT ![f] =
                [st |-> "done", snap |-> futures[f].snap, action |-> a]]
    /\ UNCHANGED <<server, conn, table, journal, reader, slot, errors, sender,
                   setup>>

DecideRaises(f) ==
    /\ futures[f].st = "running"
    /\ setup.failures > 0
    /\ futures' = [futures EXCEPT ![f] = [st |-> "raised"]]
    /\ setup' = [setup EXCEPT !.failures = @ - 1]
    /\ UNCHANGED <<server, conn, table, journal, reader, slot, errors, sender>>

(* _async_decision_done: the done-callback of a future.                    *)

\* Mutation: the error of a decision is dropped.
CallbackSilent(f) ==
    /\ futures[f].st = "raised" /\ sender = Quiet
    /\ slot' = NONE
    /\ futures' = [futures EXCEPT ![f] = Free]
    /\ UNCHANGED <<server, conn, table, journal, reader, errors, sender, setup>>

CallbackRaised(f) ==
    /\ futures[f].st = "raised" /\ sender = Quiet
    /\ slot' = NONE
    /\ errors' = TRUE
    /\ futures' = [futures EXCEPT ![f] = Free]
    /\ UNCHANGED <<server, conn, table, journal, reader, sender, setup>>

\* Mutation: the position is not compared again.
NeverStale(f) == FALSE

Stale(f) == futures[f].snap # table.moves

\* Mutation: a decision that came too late is dropped.
CallbackDrops(f) ==
    /\ futures[f].st = "done" /\ sender = Quiet
    /\ slot' = NONE
    /\ futures' = [futures EXCEPT ![f] = Free]
    /\ LET sends == /\ in_progress /\ ~Stale(f) /\ futures[f].action # NONE
                    /\ readable /\ pending = {}
       IN  sender' = IF sends
                     THEN [pc |-> "begin", action |-> futures[f].action,
                           pos |-> table.moves, snap |-> table.moves]
                     ELSE Quiet
    /\ UNCHANGED <<server, conn, table, journal, reader, errors, setup>>

Callback(f) ==
    /\ futures[f].st = "done" /\ sender = Quiet
    /\ slot' = NONE
    /\ LET worth  == in_progress /\ ~Stale(f) /\ futures[f].action # NONE
           sends  == worth /\ readable /\ pending = {}
       IN  /\ futures' = [futures EXCEPT ![f] =
                            IF in_progress /\ Stale(f) THEN [st |-> "ask"] ELSE Free]
           /\ sender' = IF sends
                        THEN [pc |-> "begin", action |-> futures[f].action,
                              pos |-> table.moves, snap |-> futures[f].snap]
                        ELSE Quiet
    /\ UNCHANGED <<server, conn, table, journal, reader, errors, setup>>

----------------------------------------------------------------------------
(* _send_decision: prepare, send_line, mark_send_returned.                 *)

SenderEffect == [game |-> Game, pos |-> sender.pos, action |-> sender.action]

SenderStops ==
    /\ sender' = Quiet
    /\ reader' = IF reader.pc = "sending" THEN At("idle") ELSE reader

Begin ==
    /\ sender.pc = "begin"
    /\ IF readable /\ pending = {} /\ SenderEffect \notin DOMAIN effects
       THEN /\ effects' = Put(effects, SenderEffect,
                              [status |-> "INTENT", attempts |-> 0])
            /\ lines' = Put(lines, SenderEffect,
                            [sent |-> 0, travelling |-> 0, grants |-> 0])
            /\ sender' = [sender EXCEPT !.pc = "send"]
            /\ UNCHANGED reader
       ELSE SenderStops /\ UNCHANGED <<effects, lines>>
    /\ UNCHANGED <<history, down, conn, table, readable, pool, setup>>

SendLine ==
    /\ sender.pc = "send" /\ Connected /\ readable
    /\ effects[SenderEffect].status = "INTENT"
    /\ lines' = [lines EXCEPT ![SenderEffect].sent = @ + 1,
                              ![SenderEffect].travelling = @ + 1]
    /\ sender' = [sender EXCEPT !.pc = "mark"]
    /\ UNCHANGED <<history, down, conn, table, journal, reader, pool, setup>>

\* The guard refuses an effect that is no longer an intent, or the transport
\* raises: a callback's exception is swallowed by the executor.
SendRaises ==
    /\ sender.pc = "send"
    /\ conn = "broken" \/ ~readable \/ effects[SenderEffect].status # "INTENT"
    /\ SenderStops
    /\ UNCHANGED <<server, conn, table, journal, pool, setup>>

\* mark_send_returned reads the status under no lock but the client's ...
MarkReads ==
    /\ sender.pc = "mark"
    /\ IF readable /\ effects[SenderEffect].status \in {"INTENT", "RETRY_AUTHORIZED"}
       THEN sender' = [sender EXCEPT !.pc = "append"] /\ UNCHANGED reader
       ELSE SenderStops
    /\ UNCHANGED <<server, conn, table, journal, pool, setup>>

\* ... and appends.  An event after a terminal one stops every later replay.
MarkAppends ==
    /\ sender.pc = "append"
    /\ IF effects[SenderEffect].status \in Terminal
       THEN readable' = FALSE /\ UNCHANGED effects
       ELSE /\ effects' = [effects EXCEPT ![SenderEffect].status = "SEND_RETURNED",
                                          ![SenderEffect].attempts = @ + 1]
            /\ UNCHANGED readable
    /\ SenderStops
    /\ UNCHANGED <<server, conn, table, pool, setup>>

----------------------------------------------------------------------------
(* Lost connections, close(), reconnects and restarts.                     *)

Away == [table EXCEPT !.phase = IF @ \in {"live", "stopped"} THEN "away" ELSE @]

Break ==
    /\ conn = "up" /\ setup.restarts > 0
    /\ conn' = "broken"
    /\ \E n \in 0..Len(down) : down' = Prefix(down, n)
    /\ setup' = [setup EXCEPT !.restarts = @ - 1]
    /\ UNCHANGED <<history, lines, table, journal, reader, pool, sender>>

\* close(), or the end of a process: nothing of the client object is left.
Forget ==
    /\ down' = <<>>
    /\ table' = Away
    /\ reader' = At("idle")
    /\ futures' = [f \in Futures |-> Free]
    /\ slot' = NONE
    /\ errors' = FALSE
    /\ sender' = Quiet

Close ==
    /\ conn = "broken" /\ reader.pc = "idle" /\ sender = Quiet
    /\ Forget /\ conn' = "closed"
    /\ UNCHANGED <<history, lines, journal, setup>>

\* The process dies anywhere, ...
Die ==
    /\ setup.restarts > 0 /\ conn # "dead"
    /\ Forget /\ conn' = "dead"
    /\ setup' = [setup EXCEPT !.restarts = @ - 1]
    /\ UNCHANGED <<history, lines, journal>>

\* ... or the reader raises a queued decision error at the next line (the
\* answer to the keepalive if nothing else), and the process stops.
RaiseError ==
    /\ reader.pc = "idle" /\ errors /\ sender = Quiet
    /\ Forget /\ conn' = "dead"
    /\ UNCHANGED <<history, lines, journal, setup>>

Reopen ==
    /\ readable
    /\ conn' = "up"
    /\ down' = IF table.phase = "away" /\ ~GameOver(history)
               THEN <<StartLine(history)>> ELSE <<>>
    /\ UNCHANGED <<history, lines, table, journal, reader, pool, sender, setup>>

\* The worker's loop makes a fresh client.
Reconnect == conn = "closed" /\ Reopen

\* An operator starts the worker again: the supervisor does not over an active game
\* (evaluate_restart_state), nor does anything else by itself.
Restart == conn = "dead" /\ Reopen

----------------------------------------------------------------------------
(* The server and the network (external).                                  *)

Moved(kind, form) ==
    [kind |-> kind, form |-> form, turn |-> TurnAt(history)]

Extend(kind, form) ==
    /\ Len(history) < MaxMoves /\ ~GameOver(history)
    /\ history' = Append(history, Moved(kind, form))
    /\ Tell(<<PlayLine(Moved(kind, form))>> \o
            (IF kind = "timeout" THEN <<EndLine>> ELSE <<>>))

Deliver(e) ==
    /\ lines[e].travelling > 0
    /\ lines' = [lines EXCEPT ![e].travelling = @ - 1]
    /\ \/ /\ TurnAt(history) \in MyTurns
          /\ \E form \in Forms : /\ <<e.action, form>> \in Renders
                                 /\ Extend("act", form)
       \/ /\ TurnAt(history) \notin MyTurns \/ GameOver(history)
          /\ Tell(<<ErrorLine>>)
          /\ UNCHANGED history
    /\ UNCHANGED <<conn, table, journal, reader, pool, sender, setup>>

\* A line is lost only with the connection that carried it.
Lose(e) ==
    /\ lines[e].travelling > 0 /\ conn # "up"
    /\ lines' = [lines EXCEPT ![e].travelling = @ - 1]
    /\ UNCHANGED <<history, down, conn, table, journal, reader, pool, sender,
                   setup>>

OpponentMoves ==
    /\ TurnAt(history) \notin MyTurns
    /\ \E form \in Forms : Extend("act", form)
    /\ UNCHANGED <<lines, conn, table, journal, reader, pool, sender, setup>>

Interleave(kind) ==
    /\ Extend(kind, kind)
    /\ UNCHANGED <<lines, conn, table, journal, reader, pool, sender, setup>>

ServerError ==
    /\ conn = "up" /\ setup.errors > 0
    /\ down' = Append(down, ErrorLine)
    /\ setup' = [setup EXCEPT !.errors = @ - 1]
    /\ UNCHANGED <<history, lines, conn, table, journal, reader, pool, sender>>

----------------------------------------------------------------------------
Reader == ApplyStart \/ ApplyPlay \/ ApplyEnd \/ ApplyError \/ StopTable
          \/ AbortPending \/ RecordFailure \/ ReaderAsks \/ ReaderSubmits \/ ReaderDecides
          \/ RaiseError
Future(f) == Run(f) \/ Decide(f) \/ CallbackRaised(f) \/ Callback(f)
             \/ WorkerAsks(f) \/ WorkerSubmits(f)
Sender == Begin \/ SendLine \/ SendRaises \/ MarkReads \/ MarkAppends
Network == \/ \E e \in DOMAIN lines : Deliver(e) \/ Lose(e)
           \/ OpponentMoves
           \/ \E k \in Kinds \ {"act"} : Interleave(k)
           \/ ServerError
Faults == Break \/ Die \/ \E f \in Futures : DecideRaises(f)

Next == \/ Reader \/ Sender \/ Network \/ Faults
        \/ \E f \in Futures : Future(f)
        \/ Close \/ Reconnect \/ Restart

Spec == Init /\ [][Next]_vars

\* Threads of a running process are scheduled, the worker's loop reconnects,
\* and a line on a connection that stays up arrives.  A dead process stays dead.
Fairness ==
    /\ WF_vars(Reader) /\ WF_vars(Sender) /\ WF_vars(Close) /\ WF_vars(Reconnect)
    /\ \A f \in Futures : WF_vars(Future(f))
    /\ WF_vars(\E e \in DOMAIN lines : Deliver(e))

FairSpec == Spec /\ Fairness

----------------------------------------------------------------------------
(* Properties.                                                             *)

\* The threads and their futures implement the serialised use of the journal
\* that EffectJournal describes.
Journal == INSTANCE EffectJournal WITH
    MaxErrors <- MaxMoves,
    MaxGrants <- 0,
    MaxLines  <- 1,
    history   <- [g \in Games |-> history],
    seen      <- [g \in Games |-> Len(table.moves)],
    phase     <- [g \in Games |-> IF reader.pc = "abort" THEN "live" ELSE table.phase],
    call      <- CASE sender.pc = "send" -> [pc |-> "prepared", effect |-> SenderEffect]
                   [] sender.pc \in {"mark", "append"} ->
                        [pc |-> "sent", effect |-> SenderEffect]
                   [] OTHER -> [pc |-> "idle"]

UsesJournalSerially == Journal!ClientSpec

\* Type correctness of the threads' state.
TypeOK ==
    /\ history \in Seq(Move)
    /\ conn \in {"up", "broken", "closed", "dead"}
    /\ table \in [phase : {"away", "live", "stopped", "ended", "failed"}, moves : Seq(Move)]
    /\ DOMAIN effects \subseteq EffectId
    /\ \A e \in DOMAIN effects : effects[e].status \in Status
    /\ reader.pc \in {"idle", "ask", "submit", "sending", "error", "abort",
                      "failing"}
    /\ slot \in Futures \cup {NONE}
    /\ sender.pc \in {"none", "begin", "send", "mark", "append"}
    /\ readable \in BOOLEAN /\ errors \in BOOLEAN

\* client.py: "A decision is material only for the exact external state it was
\* computed from."  A line leaves only while the table still is the position
\* its decision was taken from, and the game has no other open effect.
SendsOnlyFresh ==
    [][\A e \in DOMAIN lines :
          lines'[e].sent > lines[e].sent =>
             /\ table.moves = e.pos /\ table.moves = sender.snap
             /\ pending \subseteq {e}]_vars

\* effects.py: states() asserts that no event follows a terminal one.
JournalStaysReadable == readable

\* What the threads share keeps its shape, the journal included.
ThreadsAreSound == TypeOK /\ JournalStaysReadable

\* No wakeup is lost: when the reader has nothing left to read on a live
\* connection and the open turn is ours, an effect is in flight, an error is
\* about to surface, or a thread is still going to decide on that turn.
NoTurnForgotten ==
    /\ conn = "up" /\ down = <<>> /\ reader.pc = "idle"
    /\ in_progress /\ OurTurn(table.moves)
    => \/ pending # {} \/ errors \/ sender # Quiet
       \/ \E f \in Futures : futures[f].st # "free"

\* A failed game leaves no unresolved effect behind in the journal.
FailedGameIsSettled ==
    table.phase = "failed" /\ reader.pc = "idle" /\ sender = Quiet => pending = {}

TurnOpen(n) == /\ TurnAt(history) = n /\ Len(history) < MaxMoves
               /\ ~GameOver(history) /\ ~HasLeft(history)

\* As long as nothing fails, a turn of ours is answered: the server sees our
\* move, or closes the turn.
TurnAnswered ==
    \A n \in MyTurns : TurnOpen(n) ~> ~TurnOpen(n) \/ setup \notin Setups

\* Over lost connections, deaths and restarts a turn of ours does not stay unclaimed
\* while the process lives: it closes, or an effect of it is recorded and waits for
\* the server.  The exception is a turn whose effect a table error aborted: decided
\* again alike after a crash, it has the same effect id and is never sent.  Over a
\* dead process nothing is promised, since nothing starts it while a game is active;
\* whenever somebody does, the promise holds again.
TurnClaimed ==
    \A n \in MyTurns : TurnOpen(n) ~>
        \/ ~TurnOpen(n) \/ table.phase = "failed" \/ pending # {} \/ conn = "dead"
        \/ \E e \in DOMAIN effects : /\ TurnAt(e.pos) = n
                                      /\ effects[e].status = "ABORTED_ERROR"

\* Every turn of ours is served, as well as the faults so far allow.
TurnsAreServed == TurnAnswered /\ TurnClaimed
=============================================================================
