------------------------ MODULE EvidenceOutboxProofs ------------------------
(***************************************************************************)
(* The evidence of a finished game survives (EvidenceOutbox), proved for   *)
(* any number of games, tables, restarts and failed uploads.  What makes   *)
(* EvidenceSurvives hold is what each thread has already done when it      *)
(* takes its next step (Recorded and Uploaded), and that reconciliation    *)
(* and flush never run beside the write-behind thread (Alone).             *)
(***************************************************************************)
EXTENDS EvidenceOutbox, FiniteSetTheorems, TLAPS

Mirrored == {"mirror_save", "mirror_current", "mirror_clean", "mirror_unqueue"}
Mirroring == {"mirror_files", "mirror_manifest"} \cup Mirrored

\* When the main thread reconciles or is not there, it is alone; and it
\* flushes only when the write-behind thread has ended.
Alone ==
    /\ back \in {"idle", "look", "wait", "mirror_current"}
    /\ back = "mirror_current" => main \in {"mark", "mark_read"}
    /\ main \in {"stopped", "reconcile"} \cup Mirroring \/ back = "mirror_current"
       => thread = "none"
    /\ main \in {"flush", "batch"} => thread \in {"stopped", "dead"}

\* What the main thread has done for the game in its hands.
Recorded ==
    /\ main \in {"ledger", "enqueue", "withdraw"} => game \in package
    /\ main \in {"enqueue", "withdraw"} \cup Mirroring \/ back = "mirror_current"
       => game \in ledger
    /\ main = "withdraw" => game \in Pending \cup manifests
    /\ main = "mirror_manifest" => game \in files
    /\ main \in Mirrored \/ back = "mirror_current" => game \in manifests

\* What mirror_batch has uploaded of its games.
Uploaded ==
    /\ batch = "manifests" => selected \subseteq files
    /\ batch \in {"current", "receipt", "unqueue", "compare", "clean"}
       => selected \subseteq manifests

\* The flush starts when every game is recorded and withdrawn.
Flushing ==
    /\ main \in {"join", "flush", "batch", "done"} => Complete /\ active = {}
    /\ main = "done" => Pending = {}

OutboxInv ==
    /\ TypeOK /\ Alone /\ Recorded /\ Uploaded /\ Flushing
    /\ EvidenceSurvives /\ PublishedIsComplete /\ ReceiptsAreVerified

\* A batch is taken from what is queued.
LEMMA OldestSubset == \A S, n : Oldest(S, n) \subseteq S
BY DEF Oldest

\* Games are finitely many.
LEMMA GamesFinite ==
    ASSUME NEW S, S \subseteq Games
    PROVE  IsFiniteSet(S) /\ Cardinality(S) \in Nat
<1>1. IsFiniteSet(Games) BY PolicyAssumption, FS_Interval DEF Games
<1>2. IsFiniteSet(S) BY <1>1, FS_Subset
<1> QED BY <1>2, FS_CardinalityType

\* The next game to be started is one of the campaign's.
LEMMA NextGame ==
    ASSUME NEW S, S \subseteq Games, S # Games
    PROVE  Cardinality(S) + 1 \in Games
<1>1. IsFiniteSet(Games) /\ Cardinality(Games) = Need
  <2>1. 1 \in Int /\ Need \in Int BY PolicyAssumption
  <2>2. IsFiniteSet(1..Need) BY <2>1, FS_Interval
  <2>3. Cardinality(1..Need) = IF 1 > Need THEN 0 ELSE Need - 1 + 1 BY <2>1, FS_Interval
  <2> QED BY <2>2, <2>3, PolicyAssumption DEF Games
<1>2. Cardinality(S) <= Cardinality(Games) BY <1>1, FS_Subset
<1>3. Cardinality(S) # Cardinality(Games) BY <1>1, FS_Subset
<1>4. Cardinality(S) \in Nat BY GamesFinite
<1> QED BY <1>1, <1>2, <1>3, <1>4, PolicyAssumption DEF Games

\* A stamp is written for a game in the ledger, so it is not 0.
LEMMA Stamp ==
    ASSUME NEW S, S \subseteq Games, NEW g \in S
    PROVE  Cardinality(S) \in Nat \ {0}
<1>1. IsFiniteSet(S) /\ Cardinality(S) \in Nat BY GamesFinite
<1> QED BY <1>1, FS_EmptySet

\* The end of the process loses memory, and no file.
LEMMA StopStep ==
    ASSUME OutboxInv, Stop, UNCHANGED disk,
           files' \subseteq Games,
           manifests \subseteq manifests', manifests' \subseteq files'
    PROVE  OutboxInv'
<1>1. TypeOK'
  BY PolicyAssumption, SMT DEF OutboxInv, Stop, disk, NONE, TypeOK
<1>2. Alone' /\ Recorded' /\ Uploaded' /\ Flushing'
  BY DEF Stop, Alone, Recorded, Uploaded, Flushing, Mirrored, Mirroring
<1>3. EvidenceSurvives' /\ PublishedIsComplete' /\ ReceiptsAreVerified'
  BY DEF OutboxInv, disk, Pending, EvidenceSurvives, PublishedIsComplete,
         ReceiptsAreVerified
<1> QED BY <1>1, <1>2, <1>3 DEF OutboxInv

LEMMA RaiseStep == OutboxInv /\ Raise => OutboxInv'
<1> SUFFICES ASSUME OutboxInv, Raise PROVE OutboxInv' OBVIOUS
<1>1. files' = files /\ manifests' = manifests /\ UNCHANGED disk /\ Stop
  BY DEF Raise, remote
<1>2. files \subseteq Games /\ manifests \subseteq files
  BY DEF OutboxInv, TypeOK, PublishedIsComplete
<1> QED BY <1>1, <1>2, StopStep

\* What the mark and the status change is not what the invariant is about,
\* but for the place the main thread is at.
Quiet ==
    /\ UNCHANGED <<active, package, ledger, queue, receipts, files, manifests, game,
                   thread, batch, selected>>
    /\ dirty' \in BOOLEAN /\ tmp' \in BOOLEAN /\ seen' \subseteq Games
    /\ token' \in {NONE, "same", "old"}
    /\ main # "batch"
    /\ main' \in {"mark_read", "status", "status_read", "open", "replace", "idle",
                  "look", "look_read", "wait", "wait_read", "mirror_current"}
    /\ main' = "mirror_current" => back = "mirror_current"
    /\ back' \in {"idle", "wait", back}
    /\ back' = "mirror_current" => main' = "mark_read"

LEMMA MoveStep == OutboxInv /\ Quiet => OutboxInv'
<1> SUFFICES ASSUME OutboxInv, Quiet PROVE OutboxInv' OBVIOUS
<1>1. TypeOK'
  BY SMT DEF OutboxInv, Quiet, TypeOK
<1>2. Alone'
  BY DEF OutboxInv, Quiet, Alone, Mirroring, Mirrored
<1>3. Recorded'
  BY DEF OutboxInv, Quiet, Alone, Recorded, Pending, Mirroring, Mirrored
<1>4. Uploaded' /\ Flushing'
  BY DEF OutboxInv, Quiet, Uploaded, Flushing
<1>5. EvidenceSurvives' /\ PublishedIsComplete' /\ ReceiptsAreVerified'
  BY DEF OutboxInv, Quiet, EvidenceSurvives, PublishedIsComplete, ReceiptsAreVerified,
     Pending
<1> QED BY <1>1, <1>2, <1>3, <1>4, <1>5 DEF OutboxInv

----------------------------------------------------------------------------
(* One lemma per action.  The main thread.                                 *)

LEMMA StartGameStep ==
    ASSUME OutboxInv, StartGame
    PROVE  OutboxInv'
<1>1. /\ active' = active \cup {Cardinality(active \cup package) + 1}
      /\ main' = "mark" /\ back' = "idle" /\ main = "idle"
      /\ active \cup package # Games
      /\ UNCHANGED <<package, ledger, queue, receipts, dirty, tmp, files, manifests,
                     game, seen, thread, batch, selected, token>>
  BY DEF StartGame, Call, disk, remote, wbVar, bVar
<1>2. TypeOK'
  <2>1. active \cup package \subseteq Games BY DEF OutboxInv, TypeOK
  <2>2. active' \subseteq Games BY <1>1, <2>1, NextGame
  <2>3. /\ package \subseteq Games /\ game \in 0..Need /\ main' # "batch"
        /\ batch = "none" <=> thread # "batch"
    BY <1>1 DEF OutboxInv, TypeOK
  <2> QED BY <1>1, <2>2, <2>3, Zenon DEF OutboxInv, TypeOK
<1>3. Alone' /\ Recorded' /\ Uploaded' /\ Flushing'
  BY <1>1 DEF OutboxInv, Alone, Recorded, Uploaded, Flushing, Mirroring, Mirrored
<1>4. EvidenceSurvives' /\ PublishedIsComplete' /\ ReceiptsAreVerified'
  <2>1. package' \ active' \subseteq package \ active BY <1>1
  <2> QED BY <1>1, <2>1 DEF OutboxInv, EvidenceSurvives, PublishedIsComplete,
             ReceiptsAreVerified, Pending
<1> QED BY <1>2, <1>3, <1>4 DEF OutboxInv

LEMMA EndGameStep ==
    ASSUME OutboxInv, NEW g \in Games, EndGame(g)
    PROVE  OutboxInv'
BY SMTT(20) DEF OutboxInv, EndGame, TypeOK, Alone, Recorded, Uploaded, Flushing,
   EvidenceSurvives, PublishedIsComplete, ReceiptsAreVerified, Pending, Complete,
   disk, remote, mainVar, wbVar, bVar, Mirroring, Mirrored, Goto, Games

LEMMA AppendLedgerStep ==
    ASSUME OutboxInv, AppendLedger
    PROVE  OutboxInv'
BY SMTT(20) DEF OutboxInv, AppendLedger, TypeOK, Alone, Recorded, Uploaded,
   Flushing, EvidenceSurvives, PublishedIsComplete, ReceiptsAreVerified, Pending,
   Complete, disk, remote, mainVar, wbVar, bVar, Mirroring, Mirrored, Goto

LEMMA EnqueueStep ==
    ASSUME OutboxInv, Enqueue
    PROVE  OutboxInv'
<1>1. /\ main = "enqueue" /\ main' = "withdraw"
      /\ UNCHANGED <<active, package, ledger, receipts, dirty, tmp, files, manifests,
                     back, game, seen, thread, batch, selected, token>>
  BY DEF Enqueue, Goto, remote, wbVar, bVar
<1>2. game \in ledger /\ game \in Games /\ ledger \subseteq Games
  BY <1>1 DEF OutboxInv, Recorded, TypeOK
<1>3. /\ queue' \in [Games -> Nat] /\ game \in Pending'
      /\ Pending \subseteq Pending'
  <2>1. CASE game \in Pending BY <2>1 DEF Enqueue, OutboxInv, TypeOK, Pending
  <2>2. CASE game \notin Pending
    <3>1. Cardinality(ledger) \in Nat \ {0} BY <1>2, Stamp
    <3>2. queue' = [queue EXCEPT ![game] = Cardinality(ledger)] BY <2>2 DEF Enqueue
    <3> HIDE <3>1
    <3> DEFINE stamp == Cardinality(ledger)
    <3>3. stamp \in Nat \ {0} /\ queue' = [queue EXCEPT ![game] = stamp]
      BY <3>1, <3>2
    <3> HIDE DEF stamp
    <3> QED BY <1>2, <3>3 DEF OutboxInv, TypeOK, Pending
  <2> QED BY <2>1, <2>2
<1>4. TypeOK' BY <1>1, <1>3, SMT DEF OutboxInv, TypeOK
<1>5. Alone' /\ Uploaded' /\ Flushing'
  BY <1>1 DEF OutboxInv, Alone, Uploaded, Flushing, Mirroring, Mirrored
<1>6. Recorded'
  BY <1>1, <1>2, <1>3 DEF OutboxInv, Recorded, Alone, Mirroring, Mirrored
<1>7. EvidenceSurvives' /\ PublishedIsComplete' /\ ReceiptsAreVerified'
  BY <1>1, <1>3 DEF OutboxInv, EvidenceSurvives, PublishedIsComplete,
     ReceiptsAreVerified
<1> QED BY <1>4, <1>5, <1>6, <1>7 DEF OutboxInv

LEMMA WithdrawStep ==
    ASSUME OutboxInv, Withdraw
    PROVE  OutboxInv'
<1>1. TypeOK'
  BY PolicyAssumption, SMT DEF OutboxInv, Withdraw, TypeOK, Recorded, Alone, Call,
     disk, remote, mainVar, wbVar, bVar
<1>2. Alone' /\ Recorded' /\ Uploaded' /\ Flushing'
  BY DEF OutboxInv, Withdraw, TypeOK, Alone, Recorded, Uploaded, Flushing, Pending,
     Mirroring, Mirrored, Goto, Call, Return, disk, remote, mainVar, wbVar, bVar
<1>3. EvidenceSurvives' /\ PublishedIsComplete' /\ ReceiptsAreVerified'
  BY DEF OutboxInv, Withdraw, TypeOK, Alone, Recorded, Uploaded, Pending,
     Mirroring, Mirrored, EvidenceSurvives, PublishedIsComplete,
     ReceiptsAreVerified, disk, remote, mainVar, wbVar, bVar
<1> QED BY <1>1, <1>2, <1>3 DEF OutboxInv

\* The mark is written whether there was one or not.
LEMMA WriteMarkStep ==
    ASSUME OutboxInv, WriteMark, main \in {"mark", "mark_read"}
    PROVE  OutboxInv'
<1>1. token' \in {NONE, "same", "old"} BY DEF WriteMark, OutboxInv, TypeOK
<1>2. dirty' \in BOOLEAN BY Zenon DEF WriteMark
<1>3. tmp' \in BOOLEAN BY Zenon DEF WriteMark, OutboxInv, TypeOK
<1>4. seen' \subseteq Games BY DEF WriteMark, OutboxInv, TypeOK
<1>5. UNCHANGED <<active, package, ledger, queue, receipts, files, manifests, game,
                  thread, batch, selected>>
  BY DEF WriteMark, remote, wbVar
<1>6. /\ main' \in {"idle", "look", "wait", "mirror_current"} /\ main # "batch"
      /\ main' = "mirror_current" => back = "mirror_current"
      /\ back' = "idle"
  BY DEF WriteMark, Back, OutboxInv, Alone
<1>7. Quiet BY <1>1, <1>2, <1>3, <1>4, <1>5, <1>6, Zenon DEF Quiet
<1> QED BY <1>7, MoveStep

LEMMA MarkStep ==
    ASSUME OutboxInv, Mark
    PROVE  OutboxInv'
<1>1. CASE WriteMark /\ main = "mark"
  BY <1>1, WriteMarkStep
<1>2. CASE UNCHANGED <<disk, remote, back, game, seen, wbVar, bVar>>
           /\ main = "mark" /\ main' = "mark_read"
  BY <1>2, MoveStep DEF Quiet, OutboxInv, TypeOK, Alone, Mirroring, Mirrored, disk,
     remote, wbVar, bVar
<1> QED BY <1>1, <1>2 DEF Mark, Goto

LEMMA MarkReadStep ==
    ASSUME OutboxInv, MarkRead
    PROVE  OutboxInv'
<1>1. CASE WriteMark /\ main = "mark_read"
  BY <1>1, WriteMarkStep
<1> QED BY <1>1, RaiseStep DEF MarkRead

LEMMA LookStep ==
    ASSUME OutboxInv, Look
    PROVE  OutboxInv'
BY MoveStep, RaiseStep DEF Quiet, OutboxInv, TypeOK, Alone, Mirroring, Mirrored,
   Look, Goto, Call, Back, List, Pending, disk, remote, mainVar, wbVar, bVar

LEMMA WaitForMirrorCapacityStep ==
    ASSUME OutboxInv, WaitForMirrorCapacity
    PROVE  OutboxInv'
BY MoveStep, RaiseStep DEF Quiet, OutboxInv, TypeOK, Alone, Mirroring, Mirrored,
   WaitForMirrorCapacity, Goto, Call, Back, List, Pending, disk, remote, mainVar,
   wbVar, bVar

LEMMA WriteStatusStep ==
    ASSUME OutboxInv, WriteStatus
    PROVE  OutboxInv'
BY MoveStep, RaiseStep DEF Quiet, OutboxInv, TypeOK, Alone, Mirroring, Mirrored,
   WriteStatus, Goto, Call, Back, List, Pending, disk, remote, mainVar, wbVar, bVar

LEMMA EndOfGameStep ==
    ASSUME OutboxInv, EndOfGame
    PROVE  OutboxInv'
BY MoveStep, RaiseStep DEF Quiet, OutboxInv, TypeOK, Alone, Mirroring, Mirrored,
   EndOfGame, Goto, Call, Back, Read, disk, remote, mainVar, wbVar, bVar

LEMMA DrainStep ==
    ASSUME OutboxInv, Drain
    PROVE  OutboxInv'
BY MoveStep, RaiseStep DEF Quiet, OutboxInv, TypeOK, Alone, Mirroring, Mirrored,
   Drain, Goto, Call, Back, disk, remote, mainVar, wbVar, bVar

LEMMA CapacityStep ==
    ASSUME OutboxInv, Capacity
    PROVE  OutboxInv'
BY MoveStep, RaiseStep DEF Quiet, OutboxInv, TypeOK, Alone, Mirroring, Mirrored,
   Capacity, Goto, Call, Back, Read, disk, remote, mainVar, wbVar, bVar

LEMMA StatusReadStep ==
    ASSUME OutboxInv, StatusRead
    PROVE  OutboxInv'
BY MoveStep, RaiseStep DEF Quiet, OutboxInv, TypeOK, Alone, Mirroring, Mirrored,
   StatusRead, Goto, Call, Back, Read, disk, remote, mainVar, wbVar, bVar

LEMMA OpenTmpStep ==
    ASSUME OutboxInv, OpenTmp
    PROVE  OutboxInv'
BY MoveStep, RaiseStep DEF Quiet, OutboxInv, TypeOK, Alone, Mirroring, Mirrored,
   OpenTmp, Goto, Call, Back, disk, remote, mainVar, wbVar, bVar

LEMMA ReplaceTmpStep ==
    ASSUME OutboxInv, ReplaceTmp
    PROVE  OutboxInv'
BY MoveStep, RaiseStep DEF Quiet, OutboxInv, TypeOK, Alone, Mirroring, Mirrored,
   ReplaceTmp, Goto, Call, Back, disk, remote, mainVar, wbVar, bVar

LEMMA ReadRaisesStep ==
    ASSUME OutboxInv, ReadRaises
    PROVE  OutboxInv'
BY RaiseStep DEF ReadRaises

LEMMA ReconcileStep ==
    ASSUME OutboxInv, Reconcile
    PROVE  OutboxInv'
<1>1. CASE active \cap package = {} /\ thread' = "open"
  BY <1>1, SMTT(20) DEF OutboxInv, Reconcile, TypeOK, Alone, Recorded, Uploaded,
     Flushing, EvidenceSurvives, PublishedIsComplete, ReceiptsAreVerified, Pending,
     Complete, Mirroring, Mirrored, Goto, Raise, Stop, disk, remote, bVar
<1>2. CASE Raise BY <1>2, RaiseStep
<1>3. ASSUME NEW g \in active \cap package, g \in ledger, game' = g,
             Goto("mirror_files"), main = "reconcile",
             UNCHANGED <<disk, remote, back, seen, thread, bVar>>
      PROVE  OutboxInv'
  BY <1>3, SMTT(20) DEF OutboxInv, TypeOK, Alone, Recorded, Uploaded, Flushing,
     EvidenceSurvives, PublishedIsComplete, ReceiptsAreVerified, Pending, Complete,
     Mirroring, Mirrored, Goto, disk, remote, bVar, Games
<1> QED BY <1>1, <1>2, <1>3 DEF Reconcile, wbVar

LEMMA MirrorFilesStep ==
    ASSUME OutboxInv, MirrorFiles
    PROVE  OutboxInv'
BY SMTT(20) DEF OutboxInv, MirrorFiles, TypeOK, Alone, Recorded, Uploaded, Flushing,
   EvidenceSurvives, PublishedIsComplete, ReceiptsAreVerified, Pending, Complete,
   disk, remote, mainVar, wbVar, bVar, Mirroring, Mirrored, Goto, Call

LEMMA MirrorManifestStep ==
    ASSUME OutboxInv, MirrorManifest
    PROVE  OutboxInv'
BY SMTT(20) DEF OutboxInv, MirrorManifest, TypeOK, Alone, Recorded, Uploaded,
   Flushing, EvidenceSurvives, PublishedIsComplete, ReceiptsAreVerified, Pending,
   Complete, disk, remote, mainVar, wbVar, bVar, Mirroring, Mirrored, Goto, Call

LEMMA SaveRemainingStep ==
    ASSUME OutboxInv, SaveRemaining
    PROVE  OutboxInv'
BY SMTT(20) DEF OutboxInv, SaveRemaining, TypeOK, Alone, Recorded, Uploaded,
   Flushing, EvidenceSurvives, PublishedIsComplete, ReceiptsAreVerified, Pending,
   Complete, disk, remote, mainVar, wbVar, bVar, Mirroring, Mirrored, Goto, Call

LEMMA MirrorCurrentStep ==
    ASSUME OutboxInv, MirrorCurrent
    PROVE  OutboxInv'
BY SMTT(20) DEF OutboxInv, MirrorCurrent, TypeOK, Alone, Recorded, Uploaded,
   Flushing, EvidenceSurvives, PublishedIsComplete, ReceiptsAreVerified, Pending,
   Complete, disk, remote, mainVar, wbVar, bVar, Mirroring, Mirrored, Goto, Call

LEMMA MirrorCleanStep ==
    ASSUME OutboxInv, MirrorClean
    PROVE  OutboxInv'
<1>1. TypeOK'
  BY Zenon DEF OutboxInv, MirrorClean, TypeOK, Goto, disk, remote, mainVar, wbVar, bVar
<1>2. Alone' /\ Recorded' /\ Uploaded' /\ Flushing'
  BY DEF OutboxInv, MirrorClean, TypeOK, Alone, Recorded, Uploaded, Flushing, Pending,
     Mirroring, Mirrored, Goto, Call, Return, disk, remote, mainVar, wbVar, bVar
<1>3. EvidenceSurvives' /\ PublishedIsComplete' /\ ReceiptsAreVerified'
  BY DEF OutboxInv, MirrorClean, TypeOK, Alone, Recorded, Uploaded, Pending,
     Mirroring, Mirrored, EvidenceSurvives, PublishedIsComplete,
     ReceiptsAreVerified, disk, remote, mainVar, wbVar, bVar
<1> QED BY <1>1, <1>2, <1>3 DEF OutboxInv

LEMMA MirrorUnqueueStep ==
    ASSUME OutboxInv, MirrorUnqueue
    PROVE  OutboxInv'
<1>1. TypeOK'
  <2>1. queue' \in [Games -> Nat]
    BY DEF OutboxInv, MirrorUnqueue, TypeOK
  <2>2. game' \in 0..Need BY PolicyAssumption DEF MirrorUnqueue
  <2> QED BY <2>1, <2>2, Zenon
          DEF OutboxInv, MirrorUnqueue, TypeOK, Goto, disk, remote, wbVar, bVar
<1>2. Alone' /\ Recorded' /\ Uploaded' /\ Flushing'
  BY DEF OutboxInv, MirrorUnqueue, TypeOK, Alone, Recorded, Uploaded, Flushing, Pending,
     Mirroring, Mirrored, Goto, Call, Return, disk, remote, mainVar, wbVar, bVar
<1>3. EvidenceSurvives' /\ PublishedIsComplete' /\ ReceiptsAreVerified'
  BY DEF OutboxInv, MirrorUnqueue, TypeOK, Alone, Recorded, Uploaded, Pending,
     Mirroring, Mirrored, EvidenceSurvives, PublishedIsComplete,
     ReceiptsAreVerified, disk, remote, mainVar, wbVar, bVar
<1> QED BY <1>1, <1>2, <1>3 DEF OutboxInv

LEMMA StopThreadStep ==
    ASSUME OutboxInv, StopThread
    PROVE  OutboxInv'
BY SMTT(20) DEF OutboxInv, StopThread, TypeOK, Alone, Recorded, Uploaded, Flushing,
   EvidenceSurvives, PublishedIsComplete, ReceiptsAreVerified, Pending, Complete,
   disk, remote, mainVar, wbVar, bVar, Mirroring, Mirrored, Goto, Call, BatchVars

LEMMA JoinStep ==
    ASSUME OutboxInv, Join
    PROVE  OutboxInv'
BY SMTT(20) DEF OutboxInv, Join, TypeOK, Alone, Recorded, Uploaded, Flushing,
   EvidenceSurvives, PublishedIsComplete, ReceiptsAreVerified, Pending, Complete,
   disk, remote, mainVar, wbVar, bVar, Mirroring, Mirrored, Goto, Call, BatchVars

LEMMA FlushStep ==
    ASSUME OutboxInv, Flush
    PROVE  OutboxInv'
BY SMTT(20) DEF OutboxInv, Flush, TypeOK, Alone, Recorded, Uploaded, Flushing,
   EvidenceSurvives, PublishedIsComplete, ReceiptsAreVerified, Pending, Complete,
   disk, remote, mainVar, wbVar, bVar, Mirroring, Mirrored, Goto, Call, BatchVars

LEMMA PollStep ==
    ASSUME OutboxInv, Poll
    PROVE  OutboxInv'
BY SMTT(20) DEF OutboxInv, Poll, TypeOK, Alone, Recorded, Uploaded, Flushing,
   EvidenceSurvives, PublishedIsComplete, ReceiptsAreVerified, Pending, Complete,
   disk, remote, mainVar, wbVar, bVar, Mirroring, Mirrored, Goto, Call, BatchVars

----------------------------------------------------------------------------
(* The write-behind thread and mirror_batch.                               *)

LEMMA ThreadOpensTmpStep ==
    ASSUME OutboxInv, ThreadOpensTmp
    PROVE  OutboxInv'
BY SMTT(20) DEF OutboxInv, ThreadOpensTmp, TypeOK, Alone, Recorded, Uploaded,
   Flushing, EvidenceSurvives, PublishedIsComplete, ReceiptsAreVerified, Pending,
   Complete, disk, remote, mainVar, wbVar, bVar, Mirroring, Mirrored, Goto, Call,
   BatchVars

LEMMA ThreadReplacesTmpStep ==
    ASSUME OutboxInv, ThreadReplacesTmp
    PROVE  OutboxInv'
<1>1. TypeOK'
  <2>1. thread' \in {"poll", "stopped", "open", "dead"} /\ thread = "replace"
    BY DEF ThreadReplacesTmp
  <2> QED
    BY <2>1, Zenon DEF OutboxInv, ThreadReplacesTmp, TypeOK, disk, remote, mainVar, bVar
<1>2. Alone' /\ Recorded' /\ Uploaded' /\ Flushing'
  BY DEF OutboxInv, ThreadReplacesTmp, TypeOK, Alone, Recorded, Uploaded, Flushing,
     Pending, Complete,
     Mirroring, Mirrored, Goto, Call, Return, disk, remote, mainVar, wbVar, bVar
<1>3. EvidenceSurvives' /\ PublishedIsComplete' /\ ReceiptsAreVerified'
  BY DEF OutboxInv, ThreadReplacesTmp, TypeOK, Alone, Recorded, Uploaded, Pending,
     Mirroring, Mirrored, EvidenceSurvives, PublishedIsComplete,
     ReceiptsAreVerified, disk, remote, mainVar, wbVar, bVar
<1> QED BY <1>1, <1>2, <1>3 DEF OutboxInv

LEMMA StageStep ==
    ASSUME OutboxInv, Stage
    PROVE  OutboxInv'
<1>1. TypeOK'
  <2>1. selected' \subseteq Games /\ token' \in {NONE, "same", "old"}
    BY OldestSubset DEF Stage, Pending
  <2> QED BY <2>1, SMT DEF OutboxInv, Stage, TypeOK, disk, remote, mainVar, wbVar
<1>2. Alone' /\ Recorded' /\ Uploaded' /\ Flushing'
  BY DEF OutboxInv, Stage, TypeOK, Alone, Recorded, Uploaded, Flushing, Pending, Complete,
     Mirroring, Mirrored, Goto, Call, Return, disk, remote, mainVar, wbVar, bVar
<1>3. EvidenceSurvives' /\ PublishedIsComplete' /\ ReceiptsAreVerified'
  BY DEF OutboxInv, Stage, TypeOK, Alone, Recorded, Uploaded, Pending,
     Mirroring, Mirrored, EvidenceSurvives, PublishedIsComplete,
     ReceiptsAreVerified, disk, remote, mainVar, wbVar, bVar
<1> QED BY <1>1, <1>2, <1>3 DEF OutboxInv

LEMMA StageActiveStep ==
    ASSUME OutboxInv, StageActive
    PROVE  OutboxInv'
BY SMTT(20) DEF OutboxInv, StageActive, TypeOK, Alone, Recorded, Uploaded, Flushing,
   EvidenceSurvives, PublishedIsComplete, ReceiptsAreVerified, Pending, Complete,
   disk, remote, mainVar, wbVar, bVar, Mirroring, Mirrored, BatchVars

LEMMA UploadFilesStep ==
    ASSUME OutboxInv, UploadFiles
    PROVE  OutboxInv'
BY SMTT(20) DEF OutboxInv, UploadFiles, TypeOK, Alone, Recorded, Uploaded, Flushing,
   EvidenceSurvives, PublishedIsComplete, ReceiptsAreVerified, Pending, Complete,
   disk, remote, mainVar, wbVar, bVar, Mirroring, Mirrored, BatchVars

LEMMA UploadManifestsStep ==
    ASSUME OutboxInv, UploadManifests
    PROVE  OutboxInv'
BY SMTT(20) DEF OutboxInv, UploadManifests, TypeOK, Alone, Recorded, Uploaded,
   Flushing, EvidenceSurvives, PublishedIsComplete, ReceiptsAreVerified, Pending,
   Complete, disk, remote, mainVar, wbVar, bVar, Mirroring, Mirrored, BatchVars

LEMMA UploadCurrentStep ==
    ASSUME OutboxInv, UploadCurrent
    PROVE  OutboxInv'
BY SMTT(20) DEF OutboxInv, UploadCurrent, TypeOK, Alone, Recorded, Uploaded,
   Flushing, EvidenceSurvives, PublishedIsComplete, ReceiptsAreVerified, Pending,
   Complete, disk, remote, mainVar, wbVar, bVar, Mirroring, Mirrored, BatchVars

LEMMA WriteReceiptStep ==
    ASSUME OutboxInv, WriteReceipt
    PROVE  OutboxInv'
<1>1. TypeOK'
  <2>1. Oldest(selected, 1) \subseteq Games BY OldestSubset DEF OutboxInv, TypeOK
  <2>2. receipts' \subseteq Games BY <2>1 DEF WriteReceipt, OutboxInv, TypeOK
  <2> QED
    BY <2>2, SMT DEF OutboxInv, WriteReceipt, TypeOK, remote, mainVar, wbVar, BatchVars
<1>2. Alone' /\ Recorded' /\ Uploaded' /\ Flushing'
  BY OldestSubset DEF OutboxInv, WriteReceipt, TypeOK, Alone, Recorded, Uploaded,
     Flushing, Pending, Complete, Mirroring, Mirrored, Goto, Call, Return, disk,
     remote, mainVar, wbVar, bVar, BatchVars
<1>3. EvidenceSurvives' /\ PublishedIsComplete' /\ ReceiptsAreVerified'
  BY OldestSubset DEF OutboxInv, WriteReceipt, TypeOK, Alone, Recorded, Uploaded,
     Pending, Mirroring, Mirrored, EvidenceSurvives, PublishedIsComplete,
     ReceiptsAreVerified, disk, remote, mainVar, wbVar, bVar, BatchVars
<1> QED BY <1>1, <1>2, <1>3 DEF OutboxInv

LEMMA UnqueueStep ==
    ASSUME OutboxInv, Unqueue
    PROVE  OutboxInv'
<1>1. TypeOK'
  <2>1. queue' \in [Games -> Nat] BY DEF OutboxInv, Unqueue, TypeOK
  <2>2. selected' \subseteq Games BY DEF OutboxInv, Unqueue, TypeOK
  <2> QED BY <2>1, <2>2, SMT DEF OutboxInv, Unqueue, TypeOK, remote, mainVar, wbVar
<1>2. Alone' /\ Recorded' /\ Uploaded' /\ Flushing'
  BY OldestSubset DEF OutboxInv, Unqueue, TypeOK, Alone, Recorded, Uploaded,
     Flushing, Pending, Complete, Mirroring, Mirrored, Goto, Call, Return, disk,
     remote, mainVar, wbVar, bVar
<1>3. EvidenceSurvives' /\ PublishedIsComplete' /\ ReceiptsAreVerified'
  BY OldestSubset DEF OutboxInv, Unqueue, TypeOK, Alone, Recorded, Uploaded,
     Pending, Mirroring, Mirrored, EvidenceSurvives, PublishedIsComplete,
     ReceiptsAreVerified, disk, remote, mainVar, wbVar, bVar
<1> QED BY <1>1, <1>2, <1>3 DEF OutboxInv

LEMMA CompareStep ==
    ASSUME OutboxInv, Compare
    PROVE  OutboxInv'
BY SMTT(20) DEF OutboxInv, Compare, TypeOK, Alone, Recorded, Uploaded, Flushing,
   EvidenceSurvives, PublishedIsComplete, ReceiptsAreVerified, Pending, Complete,
   disk, remote, mainVar, wbVar, bVar, Mirroring, Mirrored, Return, Goto, NONE

LEMMA CleanStep ==
    ASSUME OutboxInv, Clean
    PROVE  OutboxInv'
<1>1. TypeOK'
  BY Zenon DEF OutboxInv, Clean, Return, Goto, TypeOK, Alone, disk, remote, mainVar,
     wbVar
<1>2. Alone' /\ Recorded' /\ Uploaded' /\ Flushing'
  BY DEF OutboxInv, Clean, TypeOK, Alone, Recorded, Uploaded, Flushing, Pending, Complete,
     Mirroring, Mirrored, Goto, Call, Return, disk, remote, mainVar, wbVar, bVar
<1>3. EvidenceSurvives' /\ PublishedIsComplete' /\ ReceiptsAreVerified'
  BY DEF OutboxInv, Clean, TypeOK, Alone, Recorded, Uploaded, Pending,
     Mirroring, Mirrored, EvidenceSurvives, PublishedIsComplete,
     ReceiptsAreVerified, disk, remote, mainVar, wbVar, bVar
<1> QED BY <1>1, <1>2, <1>3 DEF OutboxInv

----------------------------------------------------------------------------
(* Deaths, restarts and failed uploads.                                    *)

LEMMA DieStep ==
    ASSUME OutboxInv, Die
    PROVE  OutboxInv'
BY RaiseStep DEF Die

LEMMA RestartStep ==
    ASSUME OutboxInv, Restart
    PROVE  OutboxInv'
BY SMTT(20) DEF OutboxInv, Restart, TypeOK, Alone, Recorded, Uploaded, Flushing,
   EvidenceSurvives, PublishedIsComplete, ReceiptsAreVerified, Pending, Complete,
   disk, remote, mainVar, wbVar, bVar, Mirroring, Mirrored, Goto

LEMMA MirrorFailsStep ==
    ASSUME OutboxInv, MirrorFails
    PROVE  OutboxInv'
<1>1. files' = files /\ manifests' = manifests /\ UNCHANGED disk /\ Stop
  BY DEF MirrorFails, remote
<1>2. files \subseteq Games /\ manifests \subseteq files
  BY DEF OutboxInv, TypeOK, PublishedIsComplete
<1> QED BY <1>1, <1>2, StopStep

LEMMA UploadFailsStep ==
    ASSUME OutboxInv, UploadFails
    PROVE  OutboxInv'
<1>1. /\ UNCHANGED disk /\ BatchRaises /\ batch # "none"
      /\ files' \subseteq Games /\ files \subseteq files'
      /\ manifests \subseteq manifests' /\ manifests' \subseteq files'
  BY SMTT(20) DEF OutboxInv, UploadFails, TypeOK, Uploaded, PublishedIsComplete
<1>2. CASE Stop BY <1>1, <1>2, StopStep
<1>3. CASE thread = "batch" /\ UNCHANGED mainVar /\ thread' = "open" /\ batch' = "none"
           /\ selected' = {} /\ token' = NONE
  <2>1. TypeOK' BY <1>1, <1>3, SMT DEF OutboxInv, TypeOK, disk, mainVar
  <2>2. Alone' /\ Uploaded' /\ Flushing'
    BY <1>1, <1>3 DEF OutboxInv, Alone, Uploaded, Flushing, Mirroring, Mirrored,
       disk, mainVar, Complete, Pending
  <2>3. Recorded'
    BY <1>1, <1>3 DEF OutboxInv, Recorded, Mirroring, Mirrored, disk, mainVar, Pending
  <2>4. EvidenceSurvives' /\ PublishedIsComplete' /\ ReceiptsAreVerified'
    BY <1>1, <1>3 DEF OutboxInv, EvidenceSurvives, PublishedIsComplete,
       ReceiptsAreVerified, disk, Pending
  <2> QED BY <2>1, <2>2, <2>3, <2>4 DEF OutboxInv
<1> QED BY <1>1, <1>2, <1>3 DEF BatchRaises

----------------------------------------------------------------------------
(* The invariant and what it gives.                                        *)

LEMMA InitInv == Init => OutboxInv
<1> SUFFICES ASSUME Init PROVE OutboxInv OBVIOUS
<1>1. TypeOK
  <2>1. dirty \in BOOLEAN /\ tmp \in BOOLEAN BY Zenon DEF Init
  <2>2. queue \in [Games -> Nat] /\ game \in 0..Need BY PolicyAssumption DEF Init
  <2> QED BY <2>1, <2>2 DEF Init, TypeOK, NONE
<1>2. Alone /\ Recorded /\ Uploaded /\ Flushing
  BY DEF Init, Alone, Recorded, Uploaded, Flushing, Mirroring, Mirrored
<1>3. EvidenceSurvives /\ PublishedIsComplete /\ ReceiptsAreVerified
  BY DEF Init, EvidenceSurvives, PublishedIsComplete, ReceiptsAreVerified
<1> QED BY <1>1, <1>2, <1>3 DEF OutboxInv

LEMMA NextInv == OutboxInv /\ [Next]_vars => OutboxInv'
<1> SUFFICES ASSUME OutboxInv, [Next]_vars PROVE OutboxInv' OBVIOUS
<1>1. CASE Recording
  BY <1>1, AppendLedgerStep, EnqueueStep, WithdrawStep, MarkStep, MarkReadStep
  DEF Recording
<1>2. CASE Admission
  BY <1>2, LookStep, WaitForMirrorCapacityStep, WriteStatusStep, ReadRaisesStep,
     EndOfGameStep, DrainStep, CapacityStep, StatusReadStep, OpenTmpStep, ReplaceTmpStep
  DEF Admission
<1>3. CASE Recovery
  BY <1>3, ReconcileStep, MirrorFilesStep, MirrorManifestStep, SaveRemainingStep,
     MirrorCurrentStep, MirrorCleanStep, MirrorUnqueueStep
  DEF Recovery
<1>4. CASE StopThread \/ Join \/ Flush
  BY <1>4, StopThreadStep, JoinStep, FlushStep
<1>5. CASE Thread
  BY <1>5, PollStep, ThreadOpensTmpStep, ThreadReplacesTmpStep DEF Thread
<1>6. CASE Batch
  BY <1>6, StageStep, StageActiveStep, UploadFilesStep, UploadManifestsStep,
     UploadCurrentStep, WriteReceiptStep, UnqueueStep, CompareStep, CleanStep
  DEF Batch
<1>7. CASE Play
  BY <1>7, StartGameStep, EndGameStep DEF Play
<1>8. CASE Trouble
  BY <1>8, DieStep, RestartStep, MirrorFailsStep, UploadFailsStep DEF Trouble
<1>9. CASE UNCHANGED vars
  BY <1>9 DEF vars, disk, remote, mainVar, wbVar, bVar, OutboxInv, TypeOK, Alone,
     Recorded, Uploaded, Flushing, Complete, Pending, EvidenceSurvives,
     PublishedIsComplete, ReceiptsAreVerified
<1> QED BY <1>1, <1>2, <1>3, <1>4, <1>5, <1>6, <1>7, <1>8, <1>9 DEF Next, Main

\* All parts together are invariant over deaths, restarts and failed uploads.
THEOREM OutboxInvariant == Spec => []OutboxInv
<1>1. Init => OutboxInv BY InitInv
<1>2. OutboxInv /\ [Next]_vars => OutboxInv' BY NextInv
<1> QED BY <1>1, <1>2, PTL DEF Spec

\* The files stay well-formed, and at most one thread is in mirror_batch,
\* although the model has no _mirror_lock.
THEOREM OutboxTypeCorrect == Spec => []TypeOK
<1>1. OutboxInv => TypeOK BY DEF OutboxInv
<1> QED BY <1>1, OutboxInvariant, PTL

\* _on_end and reconcile_terminal_active_games lose no evidence of a game.
THEOREM EvidenceIsKept == Spec => []EvidenceSurvives
<1>1. OutboxInv => EvidenceSurvives BY DEF OutboxInv
<1> QED BY <1>1, OutboxInvariant, PTL

\* A manifest is the publication marker of files that are there.
THEOREM ManifestsAreComplete == Spec => []PublishedIsComplete
<1>1. OutboxInv => PublishedIsComplete BY DEF OutboxInv
<1> QED BY <1>1, OutboxInvariant, PTL

\* A receipt is only written for a published game.
THEOREM ReceiptsAreEarned == Spec => []ReceiptsAreVerified
<1>1. OutboxInv => ReceiptsAreVerified BY DEF OutboxInv
<1> QED BY <1>1, OutboxInvariant, PTL

\* A worker that returns has published every game of the campaign.
THEOREM DoneMeansPublished == Spec => []DoneIsPublished
<1>1. OutboxInv => DoneIsPublished
  BY DEF OutboxInv, EvidenceSurvives, Flushing, DoneIsPublished
<1> QED BY <1>1, OutboxInvariant, PTL
----------------------------------------------------------------------------
(* The spool of games that are not yet mirrored.                           *)

\* Where the main thread is when nothing comes between it and a new game.
Admitting ==
    \/ main = "idle"
    \/ /\ back = "idle"
       /\ main \in {"mark", "mark_read", "status", "status_read", "open", "replace"}

\* What holds until a restart: a game is started only while there is room for
\* it, because what was seen when a game ended is all that was queued.
Room ==
    /\ Cardinality(active) <= setup.tables
    /\ Cardinality(Pending \cup active) <= MaxPending + setup.tables - 1
    /\ Admitting /\ ~pause => Cardinality(Pending) < MaxPending
    /\ main \notin Mirroring /\ back # "mirror_current"
    /\ main = "reconcile" => active = {}

SpoolInv ==
    /\ setup \in [tables : Nat \ {0}, restarts : Nat, outages : Nat, restarted : BOOLEAN]
    /\ pause \in BOOLEAN
    /\ main \in {"ledger", "enqueue", "withdraw"} => game \in active
    /\ main \in {"look_read", "wait_read"} => Pending \subseteq seen
    /\ ~setup.restarted => Room

\* Nothing is queued or started, and the main thread comes no nearer to a new
\* game.
Kept ==
    /\ active' = active /\ pause' = pause /\ Pending' \subseteq Pending
    /\ setup' \in [tables : Nat \ {0}, restarts : Nat, outages : Nat, restarted : BOOLEAN]
    /\ setup'.tables = setup.tables /\ setup'.restarted = setup.restarted
    /\ Admitting' => Admitting
    /\ main' \in {"ledger", "enqueue", "withdraw"}
       => main \in {"ledger", "enqueue", "withdraw"} /\ game' = game
    /\ main' \in {"look_read", "wait_read"} => Pending' \subseteq seen'
    /\ main' \in Mirroring \/ back' = "mirror_current"
       => main \in Mirroring \/ back = "mirror_current"
    /\ main' = "reconcile" => main = "reconcile"

\* A smaller set has no more elements.
LEMMA FewerGames ==
    ASSUME NEW S, NEW T, S \subseteq T, T \subseteq Games
    PROVE  /\ Cardinality(S) <= Cardinality(T)
           /\ Cardinality(S) \in Nat /\ Cardinality(T) \in Nat
<1>1. IsFiniteSet(T) /\ Cardinality(T) \in Nat BY GamesFinite
<1>2. S \subseteq Games OBVIOUS
<1>3. Cardinality(S) \in Nat BY <1>2, GamesFinite
<1>4. Cardinality(S) <= Cardinality(T) BY <1>1, FS_Subset
<1> QED BY <1>1, <1>3, <1>4

\* The bounds of the two counts survive what lets the sets only shrink.
LEMMA CountsKept ==
    ASSUME TypeOK, TypeOK', SpoolInv, ~setup.restarted,
           active' \subseteq active,
           Pending' \cup active' \subseteq Pending \cup active,
           setup'.tables = setup.tables
    PROVE  /\ Cardinality(active') <= setup'.tables
           /\ Cardinality(Pending' \cup active') <= MaxPending + setup'.tables - 1
<1>1. active \subseteq Games /\ Pending \cup active \subseteq Games
  BY DEF TypeOK, Pending
<1>2. /\ Cardinality(active) <= setup.tables /\ setup.tables \in Nat
      /\ Cardinality(Pending \cup active) <= MaxPending + setup.tables - 1
  BY DEF SpoolInv, Room
<1>3. /\ Cardinality(active') <= Cardinality(active)
      /\ Cardinality(active') \in Nat /\ Cardinality(active) \in Nat
  BY <1>1, FewerGames
<1>4. /\ Cardinality(Pending' \cup active') <= Cardinality(Pending \cup active)
      /\ Cardinality(Pending' \cup active') \in Nat
      /\ Cardinality(Pending \cup active) \in Nat
  BY <1>1, FewerGames
<1>5. Cardinality(active') <= setup.tables BY <1>2, <1>3
<1>6. Cardinality(Pending' \cup active') <= MaxPending + setup.tables - 1
  BY <1>2, <1>4, PolicyAssumption
<1> QED BY <1>5, <1>6

LEMMA KeptStep ==
    ASSUME TypeOK, TypeOK', SpoolInv, Kept
    PROVE  SpoolInv'
<1>1. /\ setup' \in [tables : Nat \ {0}, restarts : Nat, outages : Nat, restarted : BOOLEAN]
      /\ pause' \in BOOLEAN
      /\ main' \in {"ledger", "enqueue", "withdraw"} => game' \in active'
      /\ main' \in {"look_read", "wait_read"} => Pending' \subseteq seen'
  BY DEF SpoolInv, Kept
<1>2. ASSUME ~setup'.restarted PROVE Room'
  <2>1. ~setup.restarted /\ Room BY <1>2 DEF Kept, SpoolInv
  <2>2. /\ Cardinality(active') <= setup'.tables
        /\ Cardinality(Pending' \cup active') <= MaxPending + setup'.tables - 1
    BY <2>1, CountsKept DEF Kept
  <2>3. Admitting' /\ ~pause' => Cardinality(Pending') < MaxPending
    <3>1. SUFFICES ASSUME Admitting', ~pause' PROVE Cardinality(Pending') < MaxPending
      OBVIOUS
    <3>2. Cardinality(Pending) < MaxPending BY <2>1, <3>1 DEF Kept, Room
    <3>3. /\ Cardinality(Pending') <= Cardinality(Pending)
          /\ Cardinality(Pending') \in Nat /\ Cardinality(Pending) \in Nat
      BY FewerGames DEF Kept, Pending
    <3> QED BY <3>2, <3>3, PolicyAssumption
  <2>4. /\ main' \notin Mirroring /\ back' # "mirror_current"
        /\ main' = "reconcile" => active' = {}
    BY <2>1 DEF Kept, Room
  <2> QED BY <2>2, <2>3, <2>4, Zenon DEF Room, Mirroring, Mirrored
<1> QED BY <1>1, <1>2, Zenon DEF SpoolInv

\* The write-behind thread only shrinks the queue, and so does the main thread
\* as it flushes.
LEMMA ThreadKeeps ==
    ASSUME TypeOK, SpoolInv, Thread
    PROVE  Kept
<1>1. UNCHANGED <<active, queue, mainVar, setup>>
  BY DEF Thread, Poll, ThreadOpensTmp, ThreadReplacesTmp, disk
<1> QED
  BY <1>1 DEF Kept, SpoolInv, Room, Pending, Admitting, mainVar

LEMMA BatchKeeps ==
    ASSUME TypeOK, SpoolInv, Batch
    PROVE  Kept
<1>1. /\ UNCHANGED <<active, back, game, seen, pause, setup>>
      /\ main' \in {main, "flush"}
  BY DEF Batch, Stage, StageActive, UploadFiles, UploadManifests, UploadCurrent,
     WriteReceipt, Unqueue, Compare, Clean, Return, Goto, disk, mainVar, wbVar
<1>2. Pending' \subseteq Pending
  <2>1. CASE UNCHANGED queue BY <2>1 DEF Pending
  <2>2. CASE Unqueue BY <2>2 DEF Unqueue, Pending
  <2> QED
    BY <2>1, <2>2 DEF Batch, Stage, StageActive, UploadFiles, UploadManifests,
       UploadCurrent, WriteReceipt, Compare, Clean, disk
<1> QED
  BY <1>1, <1>2 DEF Kept, SpoolInv, Room, Admitting, Mirroring, Mirrored

\* The end of the process.
LEMMA StopKeeps ==
    ASSUME TypeOK, SpoolInv, Stop, UNCHANGED disk, 
           setup' \in [tables : Nat \ {0}, restarts : Nat, outages : Nat, restarted : BOOLEAN],
           setup'.tables = setup.tables, setup'.restarted = setup.restarted
    PROVE  Kept
BY DEF Stop, disk, Kept, Pending, Admitting, Mirroring, Mirrored

LEMMA RaiseKeeps ==
    ASSUME TypeOK, SpoolInv, Raise
    PROVE  Kept
BY StopKeeps DEF Raise, SpoolInv

\* The mark, the status, and the looks at the backlog.
LEMMA MarkKeeps ==
    ASSUME OutboxInv, SpoolInv, Mark \/ MarkRead
    PROVE  Kept
<1>1. CASE Raise BY <1>1, RaiseKeeps DEF OutboxInv
<1>2. CASE WriteMark /\ main \in {"mark", "mark_read"}
  <2>1. UNCHANGED <<active, queue, pause, setup, game, seen>> /\ main' = back /\ back' = "idle"
    BY <1>2 DEF WriteMark, Back
  <2>2. back \in {"idle", "look", "wait", "mirror_current"} BY DEF OutboxInv, Alone
  <2> QED BY <1>2, <2>1, <2>2 DEF Kept, SpoolInv, Pending, Admitting, Mirroring, Mirrored
<1>3. CASE main' = "mark_read" /\ main = "mark"
           /\ UNCHANGED <<disk, back, game, seen, pause, setup>>
  BY <1>3 DEF Kept, SpoolInv, Pending, Admitting, Mirroring, Mirrored, disk
<1> QED BY <1>1, <1>2, <1>3 DEF Mark, MarkRead, Goto


LEMMA LooksKeep ==
    ASSUME OutboxInv, SpoolInv, Look \/ WaitForMirrorCapacity \/ WriteStatus
    PROVE  Kept
<1>1. /\ UNCHANGED <<disk, back, game, pause, setup>> /\ seen' = Pending
      /\ \/ main = "look" /\ main' = "look_read"
         \/ main = "wait" /\ main' = "wait_read"
         \/ main = "status" /\ main' = "status_read"
  BY DEF Look, WaitForMirrorCapacity, WriteStatus, List, Goto
<1> QED BY <1>1 DEF Kept, SpoolInv, Pending, Admitting, Mirroring, Mirrored, disk

LEMMA StatusKeeps ==
    ASSUME OutboxInv, SpoolInv, StatusRead \/ OpenTmp \/ ReplaceTmp
    PROVE  Kept
<1>1. CASE Raise BY <1>1, RaiseKeeps DEF OutboxInv
<1>2. CASE /\ UNCHANGED <<active, queue, back, game, pause, setup>>
           /\ \/ main = "status_read" /\ main' = "open"
              \/ main = "open" /\ main' = "replace"
  BY <1>2 DEF Kept, SpoolInv, Pending, Admitting, Mirroring, Mirrored
<1>3. CASE /\ UNCHANGED <<active, queue, game, pause, setup>>
           /\ main = "replace" /\ Back
  <2>1. back \in {"idle", "look", "wait"}
    BY <1>3 DEF OutboxInv, Alone
  <2> QED
    BY <1>3, <2>1 DEF Back, Kept, SpoolInv, Pending, Admitting, Mirroring, Mirrored
<1> QED BY <1>1, <1>2, <1>3 DEF StatusRead, Read, OpenTmp, ReplaceTmp, Goto, disk

LEMMA EndKeeps ==
    ASSUME OutboxInv, SpoolInv, Drain \/ StopThread \/ Join \/ Flush \/ AppendLedger
    PROVE  Kept
<1>1. /\ UNCHANGED <<active, queue, back, game, pause, setup>>
      /\ \/ main' \in {"wait", "join", "flush", "done", "batch"}
         \/ main = "ledger" /\ main' = "enqueue"
  BY DEF Drain, StopThread, Join, Flush, AppendLedger, Goto, disk
<1> QED BY <1>1 DEF Kept, SpoolInv, Pending, Admitting, Mirroring, Mirrored

LEMMA FailuresKeep ==
    ASSUME OutboxInv, SpoolInv, MirrorFails \/ UploadFails
    PROVE  Kept
<1> DEFINE left == setup.outages - 1
<1>1. /\ UNCHANGED disk /\ setup.outages > 0
      /\ setup' = [setup EXCEPT !.outages = left]
  BY DEF MirrorFails, UploadFails
<1>2. left \in Nat BY <1>1 DEF SpoolInv
<1> HIDE DEF left
<1>3. /\ setup' \in [tables : Nat \ {0}, restarts : Nat, outages : Nat, restarted : BOOLEAN]
      /\ setup'.tables = setup.tables /\ setup'.restarted = setup.restarted
  BY <1>1, <1>2 DEF SpoolInv
<1>4. CASE Stop BY <1>1, <1>3, <1>4, StopKeeps DEF OutboxInv
<1>5. CASE UNCHANGED mainVar
  BY <1>1, <1>3, <1>5 DEF Kept, SpoolInv, Pending, Admitting, mainVar, disk
<1> QED BY <1>4, <1>5 DEF MirrorFails, UploadFails, BatchRaises

----------------------------------------------------------------------------
(* The steps that do more than that.                                       *)

\* A game is started while there is room for all that are running.
LEMMA StartGameSpool ==
    ASSUME OutboxInv, OutboxInv', SpoolInv, StartGame
    PROVE  SpoolInv'
<1> DEFINE n == Cardinality(active \cup package) + 1
<1>1. /\ main = "idle" /\ ~pause /\ Cardinality(active) < setup.tables
      /\ active' = active \cup {n} /\ main' = "mark" /\ back' = "idle"
      /\ UNCHANGED <<queue, pause, setup>>
  BY DEF StartGame, Call
<1> HIDE DEF n
<1>2. active \subseteq Games /\ active' \subseteq Games /\ Pending \subseteq Games
  BY DEF OutboxInv, TypeOK, Pending
<1>3. ASSUME ~setup.restarted PROVE Room'
  <2>1. Cardinality(Pending) < MaxPending BY <1>1, <1>3 DEF SpoolInv, Room, Admitting
  <2>2. /\ IsFiniteSet(active) /\ IsFiniteSet(active') /\ IsFiniteSet(Pending)
        /\ Cardinality(active) \in Nat /\ Cardinality(active') \in Nat
        /\ Cardinality(Pending) \in Nat /\ setup.tables \in Nat
    BY <1>2, GamesFinite DEF SpoolInv
  <2>3. Cardinality(active') <= Cardinality(active) + 1
    <3>1. Cardinality(active \cup {n}) =
          IF n \in active THEN Cardinality(active) ELSE Cardinality(active) + 1
      BY <2>2, FS_AddElement
    <3> QED BY <1>1, <2>2, <3>1
  <2>4. Cardinality(active') <= setup.tables BY <1>1, <2>2, <2>3
  <2>5. Cardinality(Pending \cup active') <= Cardinality(Pending) + Cardinality(active')
    <3>1. /\ IsFiniteSet(Pending \cap active')
          /\ Cardinality(Pending \cap active') \in Nat
      BY <1>2, GamesFinite
    <3>2. Cardinality(Pending \cup active') =
          Cardinality(Pending) + Cardinality(active') - Cardinality(Pending \cap active')
      BY <2>2, FS_Union
    <3> QED BY <2>2, <3>1, <3>2
  <2>6. Cardinality(Pending \cup active') <= MaxPending + setup.tables - 1
    <3>1. Cardinality(Pending \cup active') \in Nat BY <1>2, GamesFinite
    <3> QED BY <2>1, <2>2, <2>4, <2>5, <3>1, PolicyAssumption
  <2>7. Pending' = Pending BY <1>1 DEF Pending
  <2> QED
    BY <1>1, <2>1, <2>4, <2>6, <2>7 DEF Room, Mirroring, Mirrored
<1> QED BY <1>1, <1>3 DEF SpoolInv

LEMMA EndGameSpool ==
    ASSUME OutboxInv, OutboxInv', SpoolInv, NEW g \in Games, EndGame(g)
    PROVE  SpoolInv'
<1>1. /\ g \in active /\ game' = g /\ main' = "ledger" /\ main = "idle"
      /\ UNCHANGED <<active, queue, pause, setup, back>>
  BY DEF EndGame, Goto
<1>2. Pending' = Pending BY <1>1 DEF Pending
<1>3. ASSUME ~setup.restarted PROVE Room'
  <2>1. /\ Cardinality(active') <= setup'.tables
        /\ Cardinality(Pending' \cup active') <= MaxPending + setup'.tables - 1
    BY <1>1, <1>2, <1>3 DEF SpoolInv, Room
  <2> QED BY <1>1, <1>3, <2>1 DEF SpoolInv, Room, Admitting, Mirroring, Mirrored
<1> QED BY <1>1, <1>3 DEF SpoolInv

\* The game that is queued was still running, and the next is not started
\* before the backlog is looked at.
LEMMA EnqueueSpool ==
    ASSUME OutboxInv, OutboxInv', SpoolInv, Enqueue \/ Withdraw
    PROVE  SpoolInv'
<1>1. /\ main \in {"enqueue", "withdraw"} /\ active' \subseteq active
      /\ \/ main' = "withdraw" /\ game' = game /\ active' = active /\ UNCHANGED back
         \/ main' = "mark" /\ back' = "look"
      /\ UNCHANGED <<pause, setup>>
  BY DEF Enqueue, Withdraw, Goto, Call
<1>2. game \in active BY <1>1 DEF SpoolInv
<1>3. Pending' \cup active' \subseteq Pending \cup active
  <2>1. CASE Enqueue BY <1>2, <2>1 DEF Enqueue, Pending
  <2>2. CASE Withdraw BY <2>2 DEF Withdraw, Pending
  <2> QED BY <2>1, <2>2
<1>4. ASSUME ~setup.restarted PROVE Room'
  <2>1. /\ Cardinality(active') <= setup'.tables
        /\ Cardinality(Pending' \cup active') <= MaxPending + setup'.tables - 1
    BY <1>1, <1>3, <1>4, CountsKept DEF OutboxInv
  <2> QED BY <1>1, <1>4, <2>1 DEF SpoolInv, Room, Admitting, Mirroring, Mirrored
<1> QED BY <1>1, <1>2, <1>4 DEF SpoolInv

\* Fewer queued games than the limit were seen, and none was missed.
LEMMA BacklogSeen ==
    ASSUME OutboxInv, SpoolInv, main \in {"look_read", "wait_read"},
           FALSE \in Backpressure
    PROVE  Cardinality(Pending) < MaxPending
<1>1. Pending \subseteq seen /\ seen \subseteq Games
  BY DEF SpoolInv, OutboxInv, TypeOK
<1>2. /\ Cardinality(Pending) <= Cardinality(seen)
      /\ Cardinality(Pending) \in Nat /\ Cardinality(seen) \in Nat
  BY <1>1, FewerGames
<1>3. MaxPending \in Nat /\ MaxPending > 0 BY PolicyAssumption
<1>4. CASE ~(Cardinality(seen) >= MaxPending) BY <1>2, <1>3, <1>4
<1>5. CASE seen = {}
  <2>1. Cardinality(seen) = 0 BY <1>5, FS_EmptySet
  <2> QED BY <1>2, <1>3, <2>1
<1> QED BY <1>4, <1>5 DEF Backpressure

\* New games are let in only if no backpressure was seen.
LEMMA BackpressureSpool ==
    ASSUME OutboxInv, OutboxInv', SpoolInv, EndOfGame \/ Capacity
    PROVE  SpoolInv'
<1>1. /\ main \in {"look_read", "wait_read"} /\ UNCHANGED <<disk, setup>>
      /\ main' \in {"idle", "status"} /\ back' \in {back, "idle", "wait"}
  BY DEF EndOfGame, Capacity, Read, Goto, Call
<1>2. Pending' = Pending /\ active' = active BY <1>1 DEF Pending, disk
<1>3. pause' \in BOOLEAN /\ (Admitting' /\ ~pause' => FALSE \in Backpressure)
  <2>1. PICK required \in Backpressure :
           \/ pause' = (pause \/ required)
           \/ /\ pause' = (pause /\ required)
              /\ IF required THEN Call("status", "wait") ELSE TRUE
    BY DEF EndOfGame, Capacity
  <2>2. required \in BOOLEAN
    <3>1. CASE required = (Cardinality(seen) >= MaxPending) BY <3>1
    <3>2. CASE required = (seen # {}) BY <3>2
    <3> QED BY <3>1, <3>2, Zenon DEF Backpressure
  <2>3. CASE ~required BY <2>1, <2>2, <2>3 DEF SpoolInv
  <2>4. CASE required
    <3>1. CASE pause' = (pause \/ required) BY <2>4, <3>1
    <3>2. CASE pause' = (pause /\ required) /\ Call("status", "wait")
      BY <2>4, <3>2 DEF SpoolInv, Call, Admitting
    <3> QED BY <2>1, <2>4, <3>1, <3>2
  <2> QED BY <2>2, <2>3, <2>4
<1>4. ASSUME ~setup.restarted PROVE Room'
  <2>1. /\ Cardinality(active') <= setup'.tables
        /\ Cardinality(Pending' \cup active') <= MaxPending + setup'.tables - 1
    BY <1>1, <1>2, <1>4 DEF SpoolInv, Room
  <2>2. Admitting' /\ ~pause' => Cardinality(Pending') < MaxPending
    BY <1>1, <1>2, <1>3, BacklogSeen
  <2> QED BY <1>1, <1>4, <2>1, <2>2 DEF SpoolInv, Room, Mirroring, Mirrored
<1> QED BY <1>1, <1>3, <1>4 DEF SpoolInv

\* Without a restart there is nothing to be reconciled.
LEMMA RecoverySpool ==
    ASSUME OutboxInv, OutboxInv', SpoolInv, Recovery
    PROVE  SpoolInv'
<1>1. CASE Raise
  BY <1>1, RaiseKeeps, KeptStep DEF OutboxInv
<1>2. CASE /\ UNCHANGED <<disk, back, game, seen, pause, setup>> /\ main = "reconcile"
           /\ main' = (IF active = {} THEN "wait" ELSE "idle")
  <2>1. Pending' = Pending /\ active' = active BY <1>2 DEF Pending, disk
  <2>2. ASSUME ~setup.restarted PROVE Room'
    <3>1. active = {} /\ main' = "wait" BY <1>2, <2>2 DEF SpoolInv, Room
    <3> QED
      BY <1>2, <2>1, <2>2, <3>1 DEF SpoolInv, Room, Admitting, Mirroring, Mirrored
  <2> QED BY <1>2, <2>2 DEF SpoolInv
<1>3. CASE /\ main \in Mirroring \/ (main = "reconcile" /\ active # {})
           /\ UNCHANGED <<pause, setup>>
           /\ main' \in Mirroring \cup {"mark", "reconcile"}
  <2>1. setup.restarted BY <1>3 DEF SpoolInv, Room
  <2> QED BY <1>3, <2>1 DEF SpoolInv, Mirroring, Mirrored
<1> QED
  BY <1>1, <1>2, <1>3 DEF Recovery, Reconcile, MirrorFiles, MirrorManifest,
     SaveRemaining, MirrorCurrent, MirrorClean, MirrorUnqueue, Goto, Call, Mirroring,
     Mirrored

\* A restart has its own pause flag, and finds any backlog: nothing is claimed.
LEMMA RestartSpool ==
    ASSUME OutboxInv, OutboxInv', SpoolInv, Restart
    PROVE  SpoolInv'
<1> DEFINE left == setup.restarts - 1
<1>1. /\ setup' = [setup EXCEPT !.restarts = left, !.restarted = TRUE]
      /\ setup.restarts > 0 /\ main' = "reconcile" /\ pause' \in {FALSE, pause}
  BY DEF Restart, Goto
<1>2. left \in Nat BY <1>1 DEF SpoolInv
<1> HIDE DEF left
<1>3. /\ setup' \in [tables : Nat \ {0}, restarts : Nat, outages : Nat, restarted : BOOLEAN]
      /\ setup'.restarted
  BY <1>1, <1>2 DEF SpoolInv
<1>4. pause' \in BOOLEAN BY <1>1 DEF SpoolInv
<1> QED BY <1>1, <1>3, <1>4 DEF SpoolInv

LEMMA InitSpool == Init => SpoolInv
<1> SUFFICES ASSUME Init PROVE SpoolInv OBVIOUS
<1>1. PICK s \in Setups :
         setup = [tables |-> s.tables, restarts |-> s.restarts,
                  outages |-> s.outages, restarted |-> FALSE]
  BY DEF Init
<1>2. s \in [tables : Nat \ {0}, restarts : Nat, outages : Nat] BY PolicyAssumption
<1>3. /\ setup \in [tables : Nat \ {0}, restarts : Nat, outages : Nat, restarted : BOOLEAN]
      /\ setup.tables = s.tables
  BY <1>1, <1>2
<1>4. Pending = {} /\ active = {} BY DEF Init, Pending
<1>5. Cardinality(active) = 0 /\ Cardinality(Pending) = 0
      /\ Cardinality(Pending \cup active) = 0
  BY <1>4, FS_EmptySet
<1>6. main = "reconcile" /\ back = "idle" /\ pause = FALSE BY DEF Init
<1>7. Room
  BY <1>2, <1>3, <1>4, <1>5, <1>6, PolicyAssumption
  DEF Room, Admitting, Mirroring, Mirrored
<1> QED BY <1>3, <1>6, <1>7 DEF SpoolInv

LEMMA NextSpool ==
    ASSUME OutboxInv, OutboxInv', SpoolInv, [Next]_vars
    PROVE  SpoolInv'
<1>1. CASE Kept BY <1>1, KeptStep DEF OutboxInv
<1>2. CASE Recording
  BY <1>1, <1>2, EndKeeps, EnqueueSpool, MarkKeeps DEF Recording
<1>3. CASE Admission
  <2>1. CASE ReadRaises BY <1>1, <2>1, RaiseKeeps DEF ReadRaises, OutboxInv
  <2> QED
    BY <1>1, <1>3, <2>1, LooksKeep, StatusKeeps, EndKeeps, BackpressureSpool
    DEF Admission
<1>4. CASE Recovery BY <1>4, RecoverySpool
<1>5. CASE StopThread \/ Join \/ Flush BY <1>1, <1>5, EndKeeps
<1>6. CASE Thread BY <1>1, <1>6, ThreadKeeps DEF OutboxInv
<1>7. CASE Batch BY <1>1, <1>7, BatchKeeps DEF OutboxInv
<1>8. CASE Play BY <1>8, StartGameSpool, EndGameSpool DEF Play
<1>9. CASE Trouble
  <2>1. CASE Die BY <1>1, <2>1, RaiseKeeps DEF Die, OutboxInv
  <2> QED BY <1>1, <1>9, <2>1, RestartSpool, FailuresKeep DEF Trouble
<1>10. CASE UNCHANGED vars
  <2>1. Kept
    BY <1>10 DEF vars, disk, mainVar, Kept, SpoolInv, Pending, Admitting
  <2> QED BY <1>1, <2>1
<1> QED
  BY <1>2, <1>3, <1>4, <1>5, <1>6, <1>7, <1>8, <1>9, <1>10 DEF Next, Main

\* Backpressure bounds what waits to be mirrored: all games that end after the
\* limit is reached were running when it was, because no queued game is missed
\* by the look at the backlog that lets the next one start.
THEOREM SpoolBound == Spec => []SpoolIsBounded
<1>1. Init => SpoolInv BY InitSpool
<1>2. OutboxInv /\ OutboxInv' /\ SpoolInv /\ [Next]_vars => SpoolInv'
  BY NextSpool
<1>3. OutboxInv /\ SpoolInv => SpoolIsBounded
  <2> SUFFICES ASSUME OutboxInv, SpoolInv, ~setup.restarted
               PROVE  Cardinality(Pending) <= MaxPending + setup.tables - 1
    BY DEF SpoolIsBounded
  <2>1. Pending \cup active \subseteq Games BY DEF Pending, OutboxInv, TypeOK
  <2>2. /\ Cardinality(Pending) <= Cardinality(Pending \cup active)
        /\ Cardinality(Pending) \in Nat /\ Cardinality(Pending \cup active) \in Nat
    BY <2>1, FewerGames
  <2>3. /\ Cardinality(Pending \cup active) <= MaxPending + setup.tables - 1
        /\ setup.tables \in Nat
    BY DEF SpoolInv, Room
  <2> QED BY <2>2, <2>3, PolicyAssumption
<1>4. Spec => []SpoolInv BY <1>1, <1>2, OutboxInvariant, PTL DEF Spec
<1> QED BY <1>3, <1>4, OutboxInvariant, PTL
=============================================================================
