--------------------------- MODULE EvidenceOutbox ---------------------------
(***************************************************************************)
(* The evidence of finished games (GateEvidence, MirrorWriteBehind and     *)
(* HetznerEvidenceMirror in src/skatai/iss/gate_worker.py): packages, the  *)
(* ledger, the queue of games to be mirrored, the mark that the current    *)
(* state is to be mirrored too, and two threads that share these files     *)
(* without a lock: the worker's main thread, which ends games and asks how *)
(* long the queue is, and the write-behind thread, which uploads.          *)
(*                                                                         *)
(* Abstractions:                                                           *)
(*  - every game is a primary one and scored (TableSlots has the others);  *)
(*  - a table is there while its game runs;                                *)
(*  - ages are not measured: a batch may be due, and a backlog too old, as *)
(*    soon as there is one;                                                *)
(*  - _mirror_lock is left out: the main thread uploads only before the    *)
(*    write-behind thread starts and after it has ended;                   *)
(*  - the current state is the ledger and the active games; the files that *)
(*    say nothing new (journals, slots, events) are uploaded with them.    *)
(***************************************************************************)
EXTENDS Integers, FiniteSets

CONSTANTS
    Need,        \* the number of games the campaign needs
    BatchGames,  \* MirrorPolicy.batch_games
    MaxPending,  \* MirrorPolicy.max_pending_games
    Setups       \* [tables, restarts, outages]: tables at a time, and two bounds

\* MirrorPolicy.validate.
ASSUME PolicyAssumption ==
    /\ Need \in Nat
    /\ BatchGames \in Nat \ {0} /\ MaxPending \in Nat /\ MaxPending >= BatchGames
    /\ Setups \subseteq [tables : Nat \ {0}, restarts : Nat, outages : Nat]

VARIABLES
    active,    \* disk: active-games.json
    package,   \* disk: games with an evidence package
    ledger,    \* disk: games in the gate ledger
    queue,     \* disk: when a game's queue marker was written, 0 if there is none
    receipts,  \* disk: games with a verification receipt
    dirty,     \* disk: is there a mirror-current-dirty.json?
    tmp,       \* disk: is there a mirror-status.json.tmp?
    files,     \* remote: games whose files are there
    manifests, \* remote: games whose manifest is there
    current,   \* remote: the ledger and the active games under current/
    main,      \* where the main thread is
    back,      \* where it goes when the call it is in returns
    game,      \* the game it records or reconciles
    seen,      \* the queue markers it found
    pause,     \* _mirror_pause_requested
    stopping,  \* the stop event of the write-behind thread
    thread,    \* where the write-behind thread is
    report,    \* what the status it writes is about
    batch,     \* where mirror_batch is
    selected,  \* the games of the batch that are still queued
    token,     \* does the dirty mark still hold the bytes read by the batch?
    copy,      \* the current state as the batch read it
    setup      \* the tables, what is left of the faults, and was there a restart?

disk    == <<active, package, ledger, queue, receipts, dirty, tmp>>
remote  == <<files, manifests, current>>
mainVar == <<main, back, game, seen, pause, stopping>>
wbVar   == <<thread, report>>
bVar    == <<batch, selected, token, copy>>
vars    == <<disk, remote, mainVar, wbVar, bVar, setup>>

NONE     == "NONE"
Games    == 1..Need    \* numbered as they start
Pending  == {g \in Games : queue[g] # 0}
Complete == ledger = Games
Local    == [ledger |-> ledger, active |-> active]
Nothing  == [ledger |-> {}, active |-> {}]

\* pending_mirror_entries()[:limit]: the games queued first.
Oldest(S, limit) ==
    {g \in S : Cardinality({h \in S : queue[h] < queue[g]}) < limit}

Goto(pc)       == main' = pc
Call(pc, then) == main' = pc /\ back' = then
Back           == main' = back /\ back' = "idle"

\* The process ends and its memory is lost; a restart finds what is on disk.
\* (pause stays: the departure markers may tell a restart of it.)
Stop ==
    /\ main' = "stopped" /\ back' = "idle" /\ game' = 0 /\ seen' = {}
    /\ stopping' = FALSE /\ UNCHANGED pause
    /\ thread' = "none" /\ report' = NONE
    /\ batch' = "none" /\ selected' = {} /\ token' = NONE /\ copy' = Nothing

Raise == Stop /\ UNCHANGED <<disk, remote, setup>>

----------------------------------------------------------------------------
(* The main thread: games.                                                 *)

\* An assignment is saved, and the current state marked as changed.
StartGame ==
    /\ main = "idle" /\ ~pause
    /\ active \cup package # Games /\ Cardinality(active) < setup.tables
    /\ active' = active \cup {Cardinality(active \cup package) + 1}
    /\ Call("mark", "idle")
    /\ UNCHANGED <<package, ledger, queue, receipts, dirty, tmp, remote, game,
                   seen, pause, stopping, wbVar, bVar, setup>>

\* _on_end: package, ledger, queue marker, and only then the assignment goes.
EndGame(g) ==
    /\ main = "idle" /\ g \in active
    /\ package' = package \cup {g}
    /\ Goto("ledger") /\ game' = g
    /\ UNCHANGED <<active, ledger, queue, receipts, dirty, tmp, remote, back,
                   seen, pause, stopping, wbVar, bVar, setup>>

\* Mutation: the assignment goes before the queue marker is written.
AppendThenWithdraw ==
    /\ main = "ledger"
    /\ ledger' = ledger \cup {game}
    /\ active' = active \ {game}
    /\ Goto("enqueue")
    /\ UNCHANGED <<package, queue, receipts, dirty, tmp, remote, back,
                   game, seen, pause, stopping, wbVar, bVar, setup>>

AppendLedger ==
    /\ main = "ledger"
    /\ ledger' = ledger \cup {game}
    /\ Goto("enqueue")
    /\ UNCHANGED <<active, package, queue, receipts, dirty, tmp, remote, back,
                   game, seen, pause, stopping, wbVar, bVar, setup>>

Enqueue ==
    /\ main = "enqueue"
    /\ queue' = IF game \in Pending THEN queue
                ELSE [queue EXCEPT ![game] = Cardinality(ledger)]
    /\ Goto("withdraw")
    /\ UNCHANGED <<active, package, ledger, receipts, dirty, tmp, remote, back,
                   game, seen, pause, stopping, wbVar, bVar, setup>>

Withdraw ==
    /\ main = "withdraw"
    /\ active' = active \ {game}
    /\ Call("mark", "look") /\ game' = 0
    /\ UNCHANGED <<package, ledger, queue, receipts, dirty, tmp, remote,
                   seen, pause, stopping, wbVar, bVar, setup>>

\* mark_current_mirror_dirty: an older mark is read before it is replaced.
WriteMark ==
    /\ dirty' = TRUE
    /\ token' = IF token = "same" THEN "old" ELSE token
    /\ Back
    /\ UNCHANGED <<active, package, ledger, queue, receipts, tmp, remote,
                   game, seen, pause, stopping, wbVar, batch, selected, copy,
                   setup>>

Mark ==
    /\ main = "mark"
    /\ IF dirty
       THEN /\ Goto("mark_read")
            /\ UNCHANGED <<disk, remote, back, game, seen, pause, stopping, wbVar,
                           bVar, setup>>
       ELSE WriteMark

MarkRead ==
    /\ main = "mark_read"
    /\ IF dirty THEN WriteMark ELSE Raise

----------------------------------------------------------------------------
(* The main thread: backpressure.                                          *)

\* mirror_backlog_status: the markers are listed and then read.
List(read) ==
    /\ seen' = Pending
    /\ Goto(read)
    /\ UNCHANGED <<disk, remote, back, game, pause, stopping, wbVar, bVar, setup>>

Read(read) == main = read /\ seen \subseteq Pending /\ seen' = {}

ReadRaises ==
    /\ main \in {"look_read", "wait_read", "status_read"}
    /\ ~(seen \subseteq Pending)
    /\ Raise

Look == main = "look" /\ List("look_read")
WaitForMirrorCapacity == main = "wait" /\ List("wait_read")
WriteStatus == main = "status" /\ List("status_read")

\* backpressure_required: too many games, or too old ones.
Backpressure == {Cardinality(seen) >= MaxPending, seen # {}}

\* Mutation: the end of a game does not look at the backlog.
NeverPauses ==
    /\ Read("look_read")
    /\ Goto("idle")
    /\ UNCHANGED <<disk, remote, back, game, pause, stopping, wbVar, bVar,
                   setup>>

EndOfGame ==
    /\ Read("look_read")
    /\ \E required \in Backpressure : pause' = (pause \/ required)
    /\ IF pause' /\ ~Complete THEN Call("status", "idle")
       ELSE Goto("idle") /\ UNCHANGED back
    /\ UNCHANGED <<disk, remote, game, stopping, wbVar, bVar, setup>>

\* Paused, and no game is left: wait until the backlog has drained.
Drain ==
    /\ main = "idle" /\ pause /\ active = {} /\ ~Complete
    /\ Goto("wait")
    /\ UNCHANGED <<disk, remote, back, game, seen, pause, stopping, wbVar, bVar,
                   setup>>

Capacity ==
    /\ Read("wait_read")
    /\ \E required \in Backpressure :
          /\ pause' = (pause /\ required)
          /\ IF required THEN Call("status", "wait")
             ELSE IF pause THEN Call("status", "idle")
             ELSE Goto("idle") /\ UNCHANGED back
    /\ UNCHANGED <<disk, remote, game, stopping, wbVar, bVar, setup>>

\* _write_mirror_status, after the backlog was read: _atomic_json writes a
\* temporary file of a fixed name and renames it.
StatusRead ==
    /\ Read("status_read")
    /\ Goto("open")
    /\ UNCHANGED <<disk, remote, back, game, pause, stopping, wbVar, bVar,
                   setup>>

OpenTmp ==
    /\ main = "open"
    /\ tmp' = TRUE
    /\ Goto("replace")
    /\ UNCHANGED <<active, package, ledger, queue, receipts, dirty, remote, back,
                   game, seen, pause, stopping, wbVar, bVar, setup>>

ReplaceTmp ==
    /\ main = "replace"
    /\ IF tmp
       THEN /\ tmp' = FALSE
            /\ Back
            /\ UNCHANGED <<active, package, ledger, queue, receipts, dirty, remote,
                           game, seen, pause, stopping, wbVar, bVar, setup>>
       ELSE Raise

----------------------------------------------------------------------------
(* The main thread: the end of the campaign, death and restart.            *)

\* stop(flush=True): the thread is stopped and joined, ...
StopThread ==
    /\ main = "idle" /\ Complete /\ active = {}
    /\ stopping' = TRUE
    /\ Goto("join")
    /\ UNCHANGED <<disk, remote, back, game, seen, pause, wbVar, bVar, setup>>

\* Mutation: the thread is given some time to end.
JoinTimesOut ==
    /\ main = "join"
    /\ Goto("flush")
    /\ UNCHANGED <<disk, remote, back, game, seen, pause, stopping, wbVar, bVar,
                   setup>>

Join ==
    /\ main = "join" /\ thread \in {"stopped", "dead"}
    /\ Goto("flush")
    /\ UNCHANGED <<disk, remote, back, game, seen, pause, stopping, wbVar, bVar,
                   setup>>

\* Mutation: the flush ends when the current state is uploaded.
FlushMarked ==
    /\ main = "flush"
    /\ IF ~dirty
       THEN Goto("done") /\ UNCHANGED batch
       ELSE Goto("batch") /\ batch' = "stage"
    /\ UNCHANGED <<disk, remote, back, game, seen, pause, stopping, wbVar,
                   selected, token, copy, setup>>

\* ... and the main thread uploads until nothing is queued or marked.
Flush ==
    /\ main = "flush"
    /\ IF Pending = {} /\ ~dirty
       THEN Goto("done") /\ UNCHANGED batch
       ELSE Goto("batch") /\ batch' = "stage"
    /\ UNCHANGED <<disk, remote, back, game, seen, pause, stopping, wbVar,
                   selected, token, copy, setup>>

Die ==
    /\ main \notin {"done", "stopped"} /\ setup.restarts > 0
    /\ Raise

\* The departure markers, if some are left, pause the new process too.
Restart ==
    /\ main = "stopped" /\ setup.restarts > 0
    /\ setup' = [setup EXCEPT !.restarts = @ - 1, !.restarted = TRUE]
    /\ Goto("reconcile")
    /\ pause' \in {FALSE, pause}
    /\ UNCHANGED <<disk, remote, back, game, seen, stopping, wbVar, bVar>>

\* reconcile_terminal_active_games: a game that is over on disk is mirrored
\* and withdrawn, if the ledger agrees.  Then the thread starts.
Reconcile ==
    /\ main = "reconcile"
    /\ \/ /\ active \cap package = {}
          /\ thread' = "open" /\ report' = "start"
          /\ Goto(IF active = {} THEN "wait" ELSE "idle")
          /\ UNCHANGED <<disk, remote, back, game, seen, pause, stopping, bVar,
                         setup>>
       \/ \E g \in active \cap package :
             IF g \notin ledger THEN Raise
             ELSE /\ Goto("mirror_files") /\ game' = g
                  /\ UNCHANGED <<disk, remote, back, seen, pause, stopping, wbVar,
                                 bVar, setup>>

\* mirror_game: upload_verified for each file, then for the manifest.
MirrorFiles ==
    /\ main = "mirror_files"
    /\ files' = files \cup {game}
    /\ Goto("mirror_manifest")
    /\ UNCHANGED <<disk, manifests, current, back, game, seen, pause, stopping,
                   wbVar, bVar, setup>>

MirrorManifest ==
    /\ main = "mirror_manifest"
    /\ manifests' = manifests \cup {game}
    /\ Goto("mirror_save")
    /\ UNCHANGED <<disk, files, current, back, game, seen, pause, stopping, wbVar,
                   bVar, setup>>

MirrorFails ==
    /\ main \in {"mirror_files", "mirror_manifest", "mirror_current"}
    /\ setup.outages > 0
    /\ setup' = [setup EXCEPT !.outages = @ - 1]
    /\ Stop
    /\ UNCHANGED <<disk, remote>>

SaveRemaining ==
    /\ main = "mirror_save"
    /\ active' = active \ {game}
    /\ Call("mark", "mirror_current")
    /\ UNCHANGED <<package, ledger, queue, receipts, dirty, tmp, remote, game,
                   seen, pause, stopping, wbVar, bVar, setup>>

MirrorCurrent ==
    /\ main = "mirror_current"
    /\ current' = Local
    /\ Goto("mirror_clean")
    /\ UNCHANGED <<disk, files, manifests, back, game, seen, pause, stopping,
                   wbVar, bVar, setup>>

MirrorClean ==
    /\ main = "mirror_clean"
    /\ dirty' = FALSE
    /\ Goto("mirror_unqueue")
    /\ UNCHANGED <<active, package, ledger, queue, receipts, tmp, remote, back,
                   game, seen, pause, stopping, wbVar, bVar, setup>>

MirrorUnqueue ==
    /\ main = "mirror_unqueue"
    /\ queue' = [queue EXCEPT ![game] = 0]
    /\ Goto("reconcile") /\ game' = 0
    /\ UNCHANGED <<active, package, ledger, receipts, dirty, tmp, remote, back,
                   seen, pause, stopping, wbVar, bVar, setup>>

----------------------------------------------------------------------------
(* mirror_batch, on the write-behind thread or on the main thread's flush. *)

BatchVars == <<selected, token, copy>>

\* What it returns to, and what an exception does.
Return ==
    /\ batch' = "none" /\ token' = NONE /\ copy' = Nothing
    /\ IF thread = "batch"
       THEN thread' = "open" /\ report' = "ok" /\ UNCHANGED main
       ELSE Goto("flush") /\ UNCHANGED wbVar

\* Mutation: after a failed batch the thread ends.
BatchGivesUp ==
    IF thread = "batch"
    THEN /\ batch' = "none" /\ selected' = {} /\ token' = NONE /\ copy' = Nothing
         /\ thread' = "open" /\ report' = "stopped"
         /\ UNCHANGED mainVar
    ELSE Stop

BatchRaises ==
    IF thread = "batch"
    THEN /\ batch' = "none" /\ selected' = {} /\ token' = NONE /\ copy' = Nothing
         /\ thread' = "open" /\ report' = "degraded"
         /\ UNCHANGED mainVar
    ELSE Stop

\* The games queued first, the bytes of the dirty mark, and a copy of the
\* current files, read one after the other.
Stage ==
    /\ batch = "stage"
    /\ selected' = Oldest(Pending, BatchGames)
    /\ token' = IF dirty THEN "same" ELSE NONE
    /\ copy' = [copy EXCEPT !.ledger = ledger]
    /\ batch' = "stage_active"
    /\ UNCHANGED <<disk, remote, mainVar, wbVar, setup>>

StageActive ==
    /\ batch = "stage_active"
    /\ copy' = [copy EXCEPT !.active = active]
    /\ batch' = "files"
    /\ UNCHANGED <<disk, remote, mainVar, wbVar, selected, token, setup>>

\* Mutation: the manifests go before the games.
ManifestsFirst ==
    /\ batch = "files"
    /\ manifests' = manifests \cup selected
    /\ batch' = "manifests"
    /\ UNCHANGED <<disk, files, current, mainVar, wbVar, BatchVars, setup>>

\* upload_batch_verified: copy and check the games, then the manifests, then
\* the current state.
UploadFiles ==
    /\ batch = "files"
    /\ files' = files \cup selected
    /\ batch' = "manifests"
    /\ UNCHANGED <<disk, manifests, current, mainVar, wbVar, BatchVars, setup>>

UploadManifests ==
    /\ batch = "manifests"
    /\ manifests' = manifests \cup selected
    /\ batch' = "current"
    /\ UNCHANGED <<disk, files, current, mainVar, wbVar, BatchVars, setup>>

UploadCurrent ==
    /\ batch = "current"
    /\ current' = IF selected # {} \/ token # NONE THEN copy ELSE current
    /\ batch' = "receipt"
    /\ UNCHANGED <<disk, files, manifests, mainVar, wbVar, BatchVars, setup>>

\* Mutation: a failed upload is reported and the batch goes on.
UploadFailsSilently ==
    /\ batch \in {"files", "manifests", "current"} /\ setup.outages > 0
    /\ setup' = [setup EXCEPT !.outages = @ - 1]
    /\ batch' = "receipt"
    /\ UNCHANGED <<disk, remote, mainVar, wbVar, BatchVars>>

\* A copy or a check fails: some of the files are there.
UploadFails ==
    /\ setup.outages > 0
    /\ setup' = [setup EXCEPT !.outages = @ - 1]
    /\ \/ /\ batch = "files"
          /\ \E part \in SUBSET selected : files' = files \cup part
          /\ UNCHANGED <<manifests, current>>
       \/ /\ batch = "manifests"
          /\ \E part \in SUBSET selected : manifests' = manifests \cup part
          /\ UNCHANGED <<files, current>>
       \/ /\ batch = "current"
          /\ \E l \in {current.ledger, copy.ledger}, a \in {current.active, copy.active} :
                current' = [ledger |-> l, active |-> a]
          /\ UNCHANGED <<files, manifests>>
    /\ BatchRaises
    /\ UNCHANGED disk

\* A receipt for each game, and its marker goes.
WriteReceipt ==
    /\ batch = "receipt"
    /\ IF selected = {}
       THEN batch' = "compare" /\ UNCHANGED receipts
       ELSE batch' = "unqueue" /\ receipts' = receipts \cup Oldest(selected, 1)
    /\ UNCHANGED <<active, package, ledger, queue, dirty, tmp, remote, mainVar,
                   wbVar, BatchVars, setup>>

Unqueue ==
    /\ batch = "unqueue"
    /\ queue' = [g \in Games |-> IF g \in Oldest(selected, 1) THEN 0 ELSE queue[g]]
    /\ selected' = selected \ Oldest(selected, 1)
    /\ batch' = "receipt"
    /\ UNCHANGED <<active, package, ledger, receipts, dirty, tmp, remote, mainVar,
                   wbVar, token, copy, setup>>

\* The dirty mark goes if it still holds the bytes read before, ...
Compare ==
    /\ batch = "compare"
    /\ IF token = "same" THEN batch' = "clean" /\ UNCHANGED <<token, copy, main, wbVar>>
       ELSE Return
    /\ UNCHANGED <<disk, remote, back, game, seen, pause, stopping, selected,
                   setup>>

\* ... but it is unlinked after the comparison.
Clean ==
    /\ batch = "clean"
    /\ dirty' = FALSE
    /\ Return
    /\ UNCHANGED <<active, package, ledger, queue, receipts, tmp, remote, back,
                   game, seen, pause, stopping, selected, setup>>

----------------------------------------------------------------------------
(* The write-behind thread (MirrorWriteBehind._run).                       *)

Poll ==
    /\ thread = "poll"
    /\ IF stopping
       THEN thread' = "open" /\ report' = "stopped" /\ UNCHANGED batch
       ELSE /\ Pending # {} \/ dirty
            /\ thread' = "batch" /\ batch' = "stage" /\ UNCHANGED report
    /\ UNCHANGED <<disk, remote, mainVar, BatchVars, setup>>

ThreadOpensTmp ==
    /\ thread = "open"
    /\ tmp' = TRUE
    /\ thread' = "replace"
    /\ UNCHANGED <<active, package, ledger, queue, receipts, dirty, remote, mainVar,
                   report, bVar, setup>>

\* An exception inside the try is reported; one anywhere else ends the thread.
ThreadReplacesTmp ==
    /\ thread = "replace"
    /\ tmp' = FALSE
    /\ IF tmp
       THEN thread' = (IF report = "stopped" THEN "stopped" ELSE "poll")
            /\ UNCHANGED report
       ELSE IF report = "ok"
       THEN thread' = "open" /\ report' = "degraded"
       ELSE thread' = "dead" /\ UNCHANGED report
    /\ UNCHANGED <<active, package, ledger, queue, receipts, dirty, remote, mainVar,
                   bVar, setup>>

----------------------------------------------------------------------------
Init ==
    /\ active = {} /\ package = {} /\ ledger = {}
    /\ queue = [g \in Games |-> 0]
    /\ receipts = {} /\ dirty = FALSE /\ tmp = FALSE
    /\ files = {} /\ manifests = {}
    /\ current = Nothing
    /\ main = "reconcile" /\ back = "idle" /\ game = 0 /\ seen = {}
    /\ pause = FALSE /\ stopping = FALSE
    /\ thread = "none" /\ report = NONE
    /\ batch = "none" /\ selected = {} /\ token = NONE
    /\ copy = Nothing
    /\ \E s \in Setups : setup = [tables |-> s.tables, restarts |-> s.restarts,
                               outages |-> s.outages, restarted |-> FALSE]

Recording == AppendLedger \/ Enqueue \/ Withdraw
             \/ Mark \/ MarkRead
Admission == Look \/ WaitForMirrorCapacity \/ WriteStatus \/ ReadRaises
             \/ EndOfGame \/ Drain \/ Capacity \/ StatusRead \/ OpenTmp \/ ReplaceTmp
Recovery  == Reconcile \/ MirrorFiles \/ MirrorManifest \/ SaveRemaining
             \/ MirrorCurrent \/ MirrorClean \/ MirrorUnqueue
Batch     == Stage \/ StageActive \/ UploadFiles \/ UploadManifests
             \/ UploadCurrent \/ WriteReceipt \/ Unqueue \/ Compare \/ Clean
Main      == Recording \/ Admission \/ Recovery \/ StopThread \/ Join \/ Flush
Thread    == Poll \/ ThreadOpensTmp \/ ThreadReplacesTmp
Play      == StartGame \/ \E g \in Games : EndGame(g)
Trouble   == Die \/ Restart \/ MirrorFails \/ UploadFails

Next == Main \/ Thread \/ Batch \/ Play \/ Trouble

Spec == Init /\ [][Next]_vars

\* Both threads of a running process are scheduled, and games end.  Nothing
\* makes an operator restart the process.
FairSpec ==
    /\ Spec
    /\ WF_vars(Main) /\ WF_vars(Thread) /\ WF_vars(Batch)
    /\ WF_vars(\E g \in Games : EndGame(g))

----------------------------------------------------------------------------
(* Properties.                                                             *)

\* Type correctness of the files, and at most one thread is in mirror_batch.
TypeOK ==
    /\ active \subseteq Games /\ package \subseteq Games /\ ledger \subseteq Games
    /\ queue \in [Games -> Nat]
    /\ receipts \subseteq Games /\ files \subseteq Games /\ manifests \subseteq Games
    /\ dirty \in BOOLEAN /\ tmp \in BOOLEAN
    /\ game \in 0..Need /\ seen \subseteq Games
    /\ selected \subseteq Games /\ token \in {NONE, "same", "old"}
    /\ thread \in {"none", "open", "replace", "poll", "batch", "stopped", "dead"}
    /\ batch = "none" <=> main # "batch" /\ thread # "batch"
    /\ ~(main = "batch" /\ thread = "batch")

\* _on_end and reconcile_terminal_active_games: a game leaves active authority
\* only once it is scored, and from then on it is queued or published, over
\* every death and failed upload.
EvidenceSurvives ==
    /\ ledger \subseteq package
    /\ package \ active \subseteq ledger \cap (Pending \cup manifests)

\* upload_batch_verified: "Verify every game object remotely before exposing
\* its manifest to readers", also when uploads fail half way.
PublishedIsComplete == manifests \subseteq files

\* mirror_batch: a receipt is written only for a game verified remotely.
ReceiptsAreVerified == receipts \subseteq manifests

\* stop(flush=True): when the worker returns, every game is published.
DoneIsPublished == main = "done" => Complete /\ ledger \subseteq manifests

\* Backpressure at the end of games bounds the local spool: until a restart,
\* only games already running come on top of the limit.
SpoolIsBounded ==
    ~setup.restarted => Cardinality(Pending) <= MaxPending + setup.tables - 1

\* A recorded game is published in the end, if the process and its
\* write-behind thread stay alive.
GamesArePublished ==
    ledger # {} ~> ledger \subseteq manifests \/ main = "stopped" \/ thread = "dead"

\* run: "A scientific gate is not complete until every queued game and the
\* final current-state snapshot are remotely verified."
FinalSnapshotIsRemote == main = "done" => current = Local
=============================================================================
