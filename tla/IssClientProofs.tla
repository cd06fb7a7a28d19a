-------------------------- MODULE IssClientProofs --------------------------
(***************************************************************************)
(* Theorems about the client's threads, for every number of workers,       *)
(* futures, moves, restarts, table errors and failing decisions.           *)
(***************************************************************************)
EXTENDS IssClient, SequenceTheorems, TLAPS

EffectStates == [status : Status, attempts : Nat]
WireStates   == [sent : Nat, travelling : Nat, grants : Nat]

----------------------------------------------------------------------------
(* Lemmas about the operators of EffectRecords.                            *)

LEMMA GameIsKnown == Game \in Games /\ Games = {Game}
BY TableAssumption DEF Game

\* The open turn of a position is a natural number.
LEMMA TurnAtNat ==
  ASSUME NEW p \in Position
  PROVE  TurnAt(p) \in Nat
<1>1. CASE p = <<>>
  BY <1>1 DEF TurnAt
<1>2. CASE p # <<>>
  <2>1. Len(p) \in 1..Len(p)
    BY <1>2, EmptySeq DEF Position
  <2>2. p[Len(p)] \in Move
    BY <2>1, ElementOfSeq DEF Position
  <2> QED
    BY <1>2, <2>2 DEF TurnAt, Move
<1> QED
  BY <1>1, <1>2

\* Settling entries changes no other entry.
LEMMA SetStatusType ==
  ASSUME NEW D, NEW j \in [D -> EffectStates], NEW E, NEW s \in Status
  PROVE  /\ SetStatus(j, E, s) \in [D -> EffectStates]
         /\ DOMAIN SetStatus(j, E, s) = D
         /\ \A e \in D : SetStatus(j, E, s)[e].status =
                            IF e \in E THEN s ELSE j[e].status
BY DEF SetStatus, EffectStates

\* Reconciliation settles pending effects of its own game and nothing else.
LEMMA ReconcileType ==
  ASSUME NEW D, NEW j \in [D -> EffectStates], NEW g, NEW p
  PROVE  /\ reconcile_table(j, g, p) \in [D -> EffectStates]
         /\ DOMAIN reconcile_table(j, g, p) = D
         /\ \A e \in D : \/ reconcile_table(j, g, p)[e] = j[e]
                         \/ /\ e \in Pending(j, g)
                            /\ Verdict(p, e) \in {"CONFIRMED", "ABORTED_STALE"}
                            /\ reconcile_table(j, g, p)[e].status = Verdict(p, e)
<1>1. \A e : Verdict(p, e) \in {"CONFIRMED", "ABORTED_STALE", "PENDING"}
  BY DEF Verdict
<1> QED
  BY <1>1 DEF reconcile_table, EffectStates, Status, Terminal

\* Recording one more entry.
LEMMA PutType ==
  ASSUME NEW D, NEW V, NEW f \in [D -> V], NEW k, NEW v \in V
  PROVE  /\ Put(f, k, v) \in [D \cup {k} -> V]
         /\ DOMAIN Put(f, k, v) = D \cup {k}
         /\ Put(f, k, v)[k] = v
         /\ \A x \in D \ {k} : Put(f, k, v)[x] = f[x]
BY DEF Put

----------------------------------------------------------------------------
(* What every worker keeps to.                                             *)

Line == [event : {"start"}, moves : Position] \cup [event : {"play"}, move : Move]
        \cup {EndLine, ErrorLine}

ReaderState ==
    [pc : {"idle", "ask", "submit", "sending", "error", "failing"}]
    \cup [pc : {"abort"}, found : SUBSET DOMAIN effects]

FutureState ==
    {Free, [st |-> "ask"], [st |-> "submit"], [st |-> "raised"]}
    \cup [st : {"queued", "running"}, snap : Position]
    \cup [st : {"done"}, snap : Position, action : Actions \cup {NONE}]

SenderState ==
    {Quiet} \cup [pc : {"begin", "send", "mark", "append"}, action : Actions,
                  pos : Position, snap : Position]

Shape ==
    /\ history \in Position /\ down \in Seq(Line)
    /\ conn \in {"up", "broken", "closed", "dead"}
    /\ table \in [phase : {"away", "live", "stopped", "ended", "failed"}, moves : Position]
    /\ DOMAIN effects \subseteq EffectId
    /\ effects \in [DOMAIN effects -> [status : Status, attempts : Nat]]
    /\ lines \in [DOMAIN effects -> [sent : Nat, travelling : Nat, grants : Nat]]
    /\ readable \in BOOLEAN /\ errors \in BOOLEAN
    /\ reader \in ReaderState
    /\ futures \in [Futures -> FutureState] /\ slot \in Futures \cup {NONE}
    /\ sender \in SenderState
    /\ setup \in [async : BOOLEAN, restarts : Nat, errors : Nat, failures : Nat]

\* A decision is sent from the position it was taken on, and no other effect
\* of the game is open meanwhile.
Fresh ==
    /\ sender # Quiet => /\ sender.pos = table.moves /\ sender.snap = table.moves
                         /\ OurTurn(sender.pos)
    /\ sender.pc \in {"send", "mark", "append"} =>
          SenderEffect \in DOMAIN effects /\ pending \subseteq {SenderEffect}

\* A decision is asked for only on an open turn.
Decided ==
    \A f \in Futures : futures[f].st = "done" =>
        (futures[f].action = NONE) = ~OurTurn(futures[f].snap)

\* The worker without an executor does one thing at a time.
Alone ==
    /\ readable
    /\ sender # Quiet <=> reader.pc = "sending"
    /\ reader.pc # "submit"
    /\ \A f \in Futures : futures[f] = Free
    /\ sender.pc \in {"mark", "append"} => effects[SenderEffect].status = "INTENT"
    /\ sender # Quiet => table.phase = "live"
    /\ reader.pc = "abort" => reader.found = pending
    /\ reader.pc \in {"abort", "failing"} <=> table.phase = "stopped"
    /\ reader.pc = "failing" \/ table.phase = "failed" => pending = {}

OneThread == ~setup.async => Alone

Executor == setup.async => reader.pc # "sending"

ThreadsInv == Shape /\ Fresh /\ Decided /\ OneThread /\ Executor

----------------------------------------------------------------------------
(* The shape of the state.                                                 *)

\* What the client can do with a line of the stream.
LEMMA LineTaken ==
  ASSUME NEW d \in Seq(Line), d # <<>>
  PROVE  /\ Tail(d) \in Seq(Line) /\ Head(d) \in Line
         /\ Head(d).event = "start" => Head(d).moves \in Position
         /\ Head(d).event = "play" => Head(d).move \in Move
<1>1. Head(d) \in Line /\ Tail(d) \in Seq(Line)
  BY HeadTailProperties
<1> QED
  BY <1>1 DEF Line, EndLine, ErrorLine

LEMMA InitShape == Init => Shape
<1> SUFFICES ASSUME Init PROVE Shape
  OBVIOUS
<1>1. <<>> \in Position
  BY DEF Position
<1>2. down \in Seq(Line)
  BY <1>1 DEF Init, StartLine, Line
<1>3. effects \in [DOMAIN effects -> EffectStates] /\ lines \in [DOMAIN effects -> WireStates]
      /\ DOMAIN effects = {}
  BY DEF Init
<1>4. setup \in [async : BOOLEAN, restarts : Nat, errors : Nat, failures : Nat]
  BY ExecutorAssumption DEF Init
<1>5. reader \in ReaderState /\ futures \in [Futures -> FutureState] /\ sender \in SenderState
  BY DEF Init, ReaderState, FutureState, SenderState, At, Free, Quiet
<1> QED
  BY <1>1, <1>2, <1>3, <1>4, <1>5 DEF Init, Shape, EffectStates, WireStates, NONE

\* Counting down the bounds of a setup.
LEMMA SetupType ==
  ASSUME NEW s \in [async : BOOLEAN, restarts : Nat, errors : Nat, failures : Nat]
  PROVE  /\ s.restarts > 0 => [s EXCEPT !.restarts = @ - 1]
               \in [async : BOOLEAN, restarts : Nat, errors : Nat, failures : Nat]
         /\ s.errors > 0 => [s EXCEPT !.errors = @ - 1]
               \in [async : BOOLEAN, restarts : Nat, errors : Nat, failures : Nat]
         /\ s.failures > 0 => [s EXCEPT !.failures = @ - 1]
               \in [async : BOOLEAN, restarts : Nat, errors : Nat, failures : Nat]
<1>1. s.restarts \in Nat /\ s.errors \in Nat /\ s.failures \in Nat
  OBVIOUS
<1>2. /\ s.restarts > 0 => s.restarts - 1 \in Nat
      /\ s.errors > 0 => s.errors - 1 \in Nat
      /\ s.failures > 0 => s.failures - 1 \in Nat
  BY <1>1
<1> QED
  BY <1>2

LEMMA AppliedShape ==
  ASSUME Shape, NEW phase \in {"away", "live", "stopped", "ended", "failed"},
         NEW p \in Position, Applied(phase, p)
  PROVE  /\ table' \in [phase : {"away", "live", "stopped", "ended", "failed"}, moves : Position]
         /\ effects' \in [DOMAIN effects -> EffectStates]
         /\ DOMAIN effects' = DOMAIN effects
         /\ (reader \in ReaderState)'
<1>1. effects \in [DOMAIN effects -> EffectStates]
  BY DEF Shape, EffectStates
<1> QED
  BY <1>1, ReconcileType DEF Applied, ReaderState, At

LEMMA ForgetShape ==
  ASSUME Shape, Forget, conn' \in {"closed", "dead"}, UNCHANGED effects
  PROVE  /\ (down \in Seq(Line) /\ conn \in {"up", "broken", "closed", "dead"})'
         /\ table' \in [phase : {"away", "live", "stopped", "ended", "failed"}, moves : Position]
         /\ (reader \in ReaderState)'
         /\ futures' \in [Futures -> FutureState] /\ slot' \in Futures \cup {NONE}
         /\ errors' \in BOOLEAN /\ (sender \in SenderState)'
<1>1. /\ table' = Away /\ reader' = At("idle") /\ sender' = Quiet /\ slot' = NONE
      /\ futures' = [f \in Futures |-> Free] /\ errors' = FALSE /\ down' = <<>>
  BY DEF Forget
<1>2. Away \in [phase : {"away", "live", "stopped", "ended", "failed"}, moves : Position]
  BY DEF Away, Shape
<1>3. Free \in FutureState
  BY DEF FutureState
<1>4. (down \in Seq(Line) /\ conn \in {"up", "broken", "closed", "dead"})'
  BY <1>1
<1>5. futures' \in [Futures -> FutureState] /\ slot' \in Futures \cup {NONE} /\ errors' \in BOOLEAN
  BY <1>1, <1>3
<1>6. (reader \in ReaderState)' /\ (sender \in SenderState)'
  BY <1>1 DEF ReaderState, SenderState, At
<1> QED
  BY <1>1, <1>2, <1>4, <1>5, <1>6

LEMMA ReaderShape ==
  ASSUME Shape, Reader
  PROVE  Shape'
<1> USE DEF journal, server, pool
<1>a. effects \in [DOMAIN effects -> EffectStates] /\ DOMAIN effects \subseteq EffectId
  BY DEF Shape, EffectStates
<1>1. CASE ApplyStart
  <2>1. Tail(down) \in Seq(Line) /\ Head(down).moves \in Position
    BY <1>1, LineTaken DEF Shape, ApplyStart, Receive
  <2>2. Applied("live", Head(down).moves)
    BY <1>1 DEF ApplyStart
  <2> QED
    BY <1>1, <2>1, <2>2, AppliedShape DEF Shape, ApplyStart, Receive, EffectStates
<1>2. CASE ApplyPlay
  <2>1. Tail(down) \in Seq(Line) /\ Head(down).move \in Move
    BY <1>2, LineTaken DEF Shape, ApplyPlay, Receive
  <2>2. /\ Applied(table.phase, Append(table.moves, Head(down).move))
        /\ Append(table.moves, Head(down).move) \in Position
    BY <1>2, <2>1 DEF ApplyPlay, Shape, Position
  <2> QED
    BY <1>2, <2>1, <2>2, AppliedShape DEF Shape, ApplyPlay, Receive, EffectStates
<1>3. CASE ApplyEnd
  <2>1. Tail(down) \in Seq(Line)
    BY <1>3, LineTaken DEF Shape, ApplyEnd, Receive
  <2>2. table' \in [phase : {"away", "live", "stopped", "ended", "failed"}, moves : Position]
    BY <1>3 DEF Shape, ApplyEnd
  <2>3. /\ down' = Tail(down)
        /\ UNCHANGED <<history, lines, conn, effects, readable, reader, futures, slot,
                       errors, sender, setup>>
    BY <1>3 DEF ApplyEnd, Receive
  <2> QED
    BY <2>1, <2>2, <2>3 DEF Shape, ReaderState
<1>4. CASE ApplyError
  <2>1. Tail(down) \in Seq(Line)
    BY <1>4, LineTaken DEF Shape, ApplyError, Receive
  <2>2. At("error") \in ReaderState
    BY DEF ReaderState, At
  <2> QED
    BY <1>4, <2>1, <2>2 DEF Shape, ApplyError, Receive, ReaderState, At
<1>5. CASE StopTable
  <2>1. pending \subseteq DOMAIN effects
    BY DEF pending, Pending
  <2>2. reader' \in ReaderState'
    BY <1>5, <2>1 DEF StopTable, ReaderState, At
  <2>3. table' \in [phase : {"away", "live", "stopped", "ended", "failed"}, moves : Position]
    BY <1>5 DEF StopTable, Shape
  <2> QED
    BY <1>5, <2>2, <2>3 DEF Shape, StopTable
<1>6. CASE AbortPending
  <2> DEFINE E == reader.found \cap pending
  <2>1. /\ SetStatus(effects, E, "ABORTED_ERROR") \in [DOMAIN effects -> EffectStates]
        /\ DOMAIN SetStatus(effects, E, "ABORTED_ERROR") = DOMAIN effects
    BY <1>a, SetStatusType DEF Status, Terminal
  <2>2. At("failing") \in ReaderState
    BY DEF ReaderState, At
  <2> QED
    BY <1>6, <2>1, <2>2 DEF Shape, AbortPending, EffectStates, ReaderState, At
<1>7. CASE RecordFailure
  BY <1>7 DEF Shape, RecordFailure, ReaderState, At
<1>8. CASE ReaderAsks
  BY <1>8 DEF Shape, ReaderAsks, ReaderState, At
<1>9. CASE ReaderSubmits
  <2>1. futures' \in [Futures -> FutureState] /\ slot' \in Futures \cup {NONE}
    <3>1. /\ futures \in [Futures -> FutureState] /\ slot \in Futures \cup {NONE}
          /\ table.moves \in Position
      BY DEF Shape
    <3>2. CASE UNCHANGED <<futures, slot>>
      BY <3>1, <3>2
    <3>3. ASSUME NEW f \in Futures, slot' = f,
                 futures' = [futures EXCEPT ![f] = [st |-> "queued", snap |-> table.moves]]
          PROVE  futures' \in [Futures -> FutureState] /\ slot' \in Futures \cup {NONE}
      <4>1. [st |-> "queued", snap |-> table.moves] \in FutureState
        BY <3>1 DEF FutureState
      <4> QED
        BY <3>1, <3>3, <4>1
    <3> QED
      BY <1>9, <3>2, <3>3 DEF ReaderSubmits, Submit
  <2> QED
    BY <1>9, <2>1 DEF Shape, ReaderSubmits, ReaderState, At
<1>10. CASE ReaderDecides
  <2>1. sender' \in SenderState /\ reader' \in ReaderState
    BY <1>10 DEF ReaderDecides, SenderState, ReaderState, Shape, At
  <2> QED
    BY <1>10, <2>1 DEF Shape, ReaderDecides, ReaderState
<1>11. CASE RaiseError
  BY <1>11, ForgetShape DEF Shape, RaiseError
<1> QED
  BY <1>1, <1>2, <1>3, <1>4, <1>5, <1>6, <1>7, <1>8, <1>9, <1>10, <1>11 DEF Reader

LEMMA FutureShape ==
  ASSUME Shape, NEW f \in Futures, Future(f) \/ DecideRaises(f)
  PROVE  Shape'
<1> USE DEF journal, server, pool
<1>a. futures \in [Futures -> FutureState] /\ futures[f] \in FutureState
  BY DEF Shape
<1>1. CASE Run(f)
  <2>1. futures' \in [Futures -> FutureState]
    <3>1. [futures[f] EXCEPT !.st = "running"] \in FutureState
      BY <1>1, <1>a DEF Run, FutureState, Free
    <3> QED
      BY <1>1, <1>a, <3>1 DEF Run
  <2> QED
    BY <1>1, <2>1 DEF Shape, Run, ReaderState
<1>2. CASE Decide(f)
  <2>1. PICK a \in Actions \cup {NONE} : futures' = [futures EXCEPT ![f] =
                [st |-> "done", snap |-> futures[f].snap, action |-> a]]
    BY <1>2 DEF Decide
  <2>2. futures[f].snap \in Position
    BY <1>2, <1>a DEF Decide, FutureState, Free
  <2>3. futures' \in [Futures -> FutureState]
    BY <1>a, <2>1, <2>2 DEF FutureState
  <2> QED
    BY <1>2, <2>3 DEF Shape, Decide, ReaderState
<1>3. CASE CallbackRaised(f)
  <2>1. futures' \in [Futures -> FutureState]
    BY <1>3, <1>a DEF CallbackRaised, FutureState
  <2> QED
    BY <1>3, <2>1 DEF Shape, CallbackRaised, ReaderState
<1>4. CASE Callback(f)
  <2>1. /\ futures' \in [Futures -> FutureState]
    BY <1>4, <1>a DEF Callback, FutureState
  <2>2. futures[f].snap \in Position /\ futures[f].action \in Actions \cup {NONE}
    BY <1>4, <1>a DEF Callback, FutureState, Free
  <2>3. sender' \in SenderState
    BY <1>4, <2>2 DEF Callback, SenderState, Shape
  <2>4. UNCHANGED <<history, down, lines, conn, table, effects, readable, reader, errors, setup>> /\ slot' = NONE
    BY <1>4 DEF Callback
  <2> QED
    BY <2>1, <2>3, <2>4 DEF Shape, ReaderState, SenderState
<1>5. CASE WorkerAsks(f)
  <2>1. futures' \in [Futures -> FutureState]
    BY <1>5, <1>a DEF WorkerAsks, FutureState
  <2> QED
    BY <1>5, <2>1 DEF Shape, WorkerAsks, ReaderState
<1>6. CASE WorkerSubmits(f)
  <2> DEFINE after == [futures EXCEPT ![f] = Free]
  <2>1. after \in [Futures -> FutureState]
    BY <1>a DEF FutureState
  <2>2. Submit(after)
    BY <1>6 DEF WorkerSubmits
  <2> HIDE DEF after
  <2>3. futures' \in [Futures -> FutureState] /\ slot' \in Futures \cup {NONE}
    <3>1. [st |-> "queued", snap |-> table.moves] \in FutureState
      BY DEF Shape, FutureState
    <3>2. CASE Unfinished(slot)
      BY <2>1, <2>2, <3>2 DEF Submit, Shape
    <3>3. CASE ~Unfinished(slot)
      BY <2>1, <2>2, <3>1, <3>3 DEF Submit
    <3> QED
      BY <3>2, <3>3
  <2> QED
    BY <1>6, <2>3 DEF Shape, WorkerSubmits, ReaderState
<1>7. CASE DecideRaises(f)
  <2>1. futures' \in [Futures -> FutureState]
    BY <1>7, <1>a DEF DecideRaises, FutureState
  <2>2. setup' \in [async : BOOLEAN, restarts : Nat, errors : Nat, failures : Nat]
    BY <1>7, SetupType DEF DecideRaises, Shape
  <2> QED
    BY <1>7, <2>1, <2>2 DEF Shape, DecideRaises, ReaderState
<1> QED
  BY <1>1, <1>2, <1>3, <1>4, <1>5, <1>6, <1>7 DEF Future

\* The effect being sent is one the journal can hold.
LEMMA SenderEffectType ==
  ASSUME Shape, sender # Quiet
  PROVE  SenderEffect \in EffectId /\ sender.pc \in {"begin", "send", "mark", "append"}
         /\ sender.pos \in Position /\ sender.snap \in Position /\ sender.action \in Actions
<1>1. /\ sender.pc \in {"begin", "send", "mark", "append"} /\ sender.action \in Actions
      /\ sender.pos \in Position /\ sender.snap \in Position
  BY DEF Shape, SenderState
<1> QED
  BY <1>1, GameIsKnown DEF SenderEffect, EffectId

LEMMA SentType ==
  ASSUME NEW w \in WireStates
  PROVE  [[w EXCEPT !.sent = @ + 1] EXCEPT !.travelling = @ + 1] \in WireStates
<1>1. w.sent + 1 \in Nat /\ w.travelling + 1 \in Nat
  BY DEF WireStates
<1> QED
  BY <1>1 DEF WireStates

LEMMA ReturnedType ==
  ASSUME NEW r \in EffectStates
  PROVE  [[r EXCEPT !.status = "SEND_RETURNED"] EXCEPT !.attempts = @ + 1] \in EffectStates
<1>1. r.attempts + 1 \in Nat /\ "SEND_RETURNED" \in Status
  BY DEF EffectStates, Status
<1> QED
  BY <1>1 DEF EffectStates

LEMMA SenderStopsShape ==
  ASSUME Shape, SenderStops, DOMAIN effects' = DOMAIN effects
  PROVE  (reader \in ReaderState /\ sender \in SenderState)'
BY DEF Shape, SenderStops, ReaderState, SenderState, At

LEMMA SenderShape ==
  ASSUME Shape, Fresh, Sender
  PROVE  Shape'
<1> USE DEF journal, server, pool
<1>a. effects \in [DOMAIN effects -> EffectStates] /\ DOMAIN effects \subseteq EffectId
      /\ lines \in [DOMAIN effects -> WireStates]
  BY DEF Shape, EffectStates, WireStates
<1>b. sender # Quiet /\ SenderEffect \in EffectId
  BY SenderEffectType DEF Sender, Begin, SendLine, SendRaises, MarkReads, MarkAppends, Quiet
<1>1. CASE Begin
  <2>1. CASE readable /\ pending = {} /\ SenderEffect \notin DOMAIN effects
    <3> DEFINE e == SenderEffect
               r == [status |-> "INTENT", attempts |-> 0]
               w == [sent |-> 0, travelling |-> 0, grants |-> 0]
               D == DOMAIN effects
    <3>1. r \in EffectStates /\ w \in WireStates
      BY DEF EffectStates, WireStates, Status
    <3>2. effects' = Put(effects, e, r) /\ lines' = Put(lines, e, w) /\ reader' = reader
          /\ sender' = [sender EXCEPT !.pc = "send"]
      BY <1>1, <2>1 DEF Begin
    <3>3. sender' \in SenderState
      BY <1>b, <3>2 DEF Shape, SenderState
    <3> HIDE DEF e, r, w
    <3>4. /\ effects' \in [D \cup {e} -> EffectStates] /\ DOMAIN effects' = D \cup {e}
      <4>1. effects' \in [D \cup {e} -> EffectStates]
        BY <1>a, <3>1, <3>2, PutType
      <4> QED
        BY <4>1
    <3>5. lines' \in [D \cup {e} -> WireStates]
      BY <1>a, <3>1, <3>2, PutType
    <3>6. (reader \in ReaderState)'
      BY <3>2, <3>4 DEF Shape, ReaderState
    <3>7. UNCHANGED <<history, down, conn, table, readable, futures, slot, errors, setup>>
      BY <1>1 DEF Begin
    <3>8. e \in EffectId
      BY <1>b DEF e
    <3> QED
      BY <1>a, <3>3, <3>4, <3>5, <3>6, <3>7, <3>8 DEF Shape, EffectStates, WireStates, SenderState
  <2>2. CASE ~(readable /\ pending = {} /\ SenderEffect \notin DOMAIN effects)
    <3>1. SenderStops /\ UNCHANGED <<history, down, conn, table, readable, futures, slot, errors, setup, effects, lines>>
      BY <1>1, <2>2 DEF Begin
    <3> QED
      BY <3>1, SenderStopsShape DEF Shape
  <2> QED
    BY <2>1, <2>2
<1>2. CASE SendLine
  <2>1. SenderEffect \in DOMAIN effects
    BY <1>2 DEF Fresh, SendLine
  <2>2. lines' \in [DOMAIN effects -> WireStates]
    <3>1. lines[SenderEffect] \in WireStates
      BY <1>a, <2>1
    <3>2. [[lines[SenderEffect] EXCEPT !.sent = @ + 1] EXCEPT !.travelling = @ + 1] \in WireStates
      BY <3>1, SentType
    <3>3. lines' = [lines EXCEPT ![SenderEffect] =
             [[lines[SenderEffect] EXCEPT !.sent = @ + 1] EXCEPT !.travelling = @ + 1]]
      BY <1>2, <1>a, <2>1 DEF SendLine, WireStates
    <3> QED
      BY <1>a, <2>1, <3>2, <3>3
  <2>3. sender' \in SenderState
    BY <1>b, <1>2 DEF Shape, SenderState, SendLine
  <2> QED
    BY <1>2, <2>2, <2>3 DEF Shape, SendLine, ReaderState, WireStates, SenderState
<1>3. CASE SendRaises
  BY <1>3, SenderStopsShape DEF Shape, SendRaises
<1>4. CASE MarkReads
  <2>1. (reader \in ReaderState /\ sender \in SenderState)'
    <3>1. CASE SenderStops
      BY <1>4, <3>1, SenderStopsShape DEF MarkReads
    <3>2. CASE sender' = [sender EXCEPT !.pc = "append"] /\ reader' = reader
      BY <1>4, <1>b, <3>2 DEF MarkReads, Shape, ReaderState, SenderState
    <3> QED
      BY <1>4, <3>1, <3>2 DEF MarkReads
  <2> QED
    BY <1>4, <2>1 DEF Shape, MarkReads
<1>5. CASE MarkAppends
  <2>1. SenderEffect \in DOMAIN effects
    BY <1>5 DEF Fresh, MarkAppends
  <2>2. /\ effects' \in [DOMAIN effects -> EffectStates] /\ DOMAIN effects' = DOMAIN effects
        /\ readable' \in BOOLEAN
    <3>1. CASE effects[SenderEffect].status \in Terminal
      BY <1>5, <1>a, <3>1 DEF MarkAppends, Shape
    <3>2. CASE effects[SenderEffect].status \notin Terminal
      <4>1. effects' = [effects EXCEPT ![SenderEffect] =
               [[effects[SenderEffect] EXCEPT !.status = "SEND_RETURNED"] EXCEPT !.attempts = @ + 1]]
        BY <1>5, <1>a, <2>1, <3>2 DEF MarkAppends, EffectStates
      <4>2. [[effects[SenderEffect] EXCEPT !.status = "SEND_RETURNED"] EXCEPT !.attempts = @ + 1]
               \in EffectStates
        BY <1>a, <2>1, ReturnedType
      <4> QED
        BY <1>5, <1>a, <2>1, <3>2, <4>1, <4>2 DEF MarkAppends, Shape
    <3> QED
      BY <3>1, <3>2
  <2>3. SenderStops
    BY <1>5 DEF MarkAppends
  <2> QED
    BY <1>5, <2>2, <2>3, SenderStopsShape DEF Shape, MarkAppends, EffectStates
<1> QED
  BY <1>1, <1>2, <1>3, <1>4, <1>5 DEF Sender

\* What the server writes is lines.
LEMMA TellShape ==
  ASSUME Shape, NEW s \in Seq(Line), Tell(s)
  PROVE  down' \in Seq(Line)
<1>1. down \o s \in Seq(Line)
  BY ConcatProperties DEF Shape
<1> QED
  BY <1>1 DEF Shape, Tell

LEMMA ExtendShape ==
  ASSUME Shape, NEW kind \in Kinds, NEW form \in Forms \cup Kinds, Extend(kind, form)
  PROVE  history' \in Position /\ down' \in Seq(Line)
<1> DEFINE m == Moved(kind, form)
<1>1. m \in Move
  BY TurnAtNat DEF Shape, Moved, Move
<1> HIDE DEF m
<1>2. history' = Append(history, m)
  BY DEF Extend, m
<1>3. Append(history, m) \in Position
  BY <1>1 DEF Shape, Position
<1> DEFINE s == <<PlayLine(m)>> \o (IF kind = "timeout" THEN <<EndLine>> ELSE <<>>)
<1>4. s \in Seq(Line)
  <2>1. PlayLine(m) \in Line /\ EndLine \in Line
    BY <1>1 DEF Line, PlayLine
  <2>2. <<PlayLine(m)>> \in Seq(Line) /\ <<EndLine>> \in Seq(Line) /\ <<>> \in Seq(Line)
    BY <2>1
  <2> QED
    BY <2>2, ConcatProperties
<1>5. Tell(s)
  BY DEF Extend, m
<1> HIDE DEF s
<1> QED
  BY <1>2, <1>3, <1>4, <1>5, TellShape

LEMMA LinesType ==
  ASSUME Shape, NEW e \in DOMAIN lines, lines[e].travelling > 0,
         lines' = [lines EXCEPT ![e].travelling = @ - 1]
  PROVE  lines' \in [DOMAIN effects -> WireStates]
<1>1. lines \in [DOMAIN effects -> WireStates] /\ lines[e] \in WireStates
  BY DEF Shape, WireStates
<1>2. [lines[e] EXCEPT !.travelling = @ - 1] \in WireStates
  BY <1>1 DEF WireStates
<1> QED
  BY <1>1, <1>2

LEMMA OthersShape ==
  ASSUME Shape, Network \/ Break \/ Die \/ Close \/ Reconnect \/ Restart
  PROVE  Shape'
<1> USE DEF journal, server, pool
<1>1. ASSUME NEW e \in DOMAIN lines, Deliver(e) \/ Lose(e)
      PROVE  Shape'
  <2>1. lines' \in [DOMAIN effects -> WireStates]
    BY <1>1, LinesType DEF Deliver, Lose
  <2>2. history' \in Position /\ down' \in Seq(Line)
    <3>1. ASSUME NEW form \in Forms, Extend("act", form) PROVE history' \in Position /\ down' \in Seq(Line)
      BY <3>1, ExtendShape DEF Kinds
    <3>2. <<ErrorLine>> \in Seq(Line)
      BY DEF Line
    <3> QED
      BY <1>1, <3>1, <3>2, TellShape DEF Deliver, Lose, Shape
  <2> QED
    BY <1>1, <2>1, <2>2 DEF Shape, Deliver, Lose, WireStates, ReaderState
<1>2. CASE OpponentMoves
  <2>1. history' \in Position /\ down' \in Seq(Line)
    BY <1>2, ExtendShape DEF OpponentMoves, Kinds
  <2> QED
    BY <1>2, <2>1 DEF Shape, OpponentMoves, ReaderState
<1>3. ASSUME NEW kind \in Kinds \ {"act"}, Interleave(kind)
      PROVE  Shape'
  <2>1. history' \in Position /\ down' \in Seq(Line)
    BY <1>3, ExtendShape DEF Interleave
  <2> QED
    BY <1>3, <2>1 DEF Shape, Interleave, ReaderState
<1>4. CASE ServerError
  <2>1. down' \in Seq(Line)
    BY <1>4 DEF ServerError, Shape, Line
  <2>2. setup' \in [async : BOOLEAN, restarts : Nat, errors : Nat, failures : Nat]
    BY <1>4, SetupType DEF ServerError, Shape
  <2> QED
    BY <1>4, <2>1, <2>2 DEF Shape, ServerError, ReaderState
<1>5. CASE Break
  <2>1. down' \in Seq(Line)
    <3>1. PICK n \in 0..Len(down) : down' = SubSeq(down, 1, n)
      BY <1>5 DEF Break, Prefix
    <3>2. Len(down) \in Nat /\ \A i \in 1..n : down[i] \in Line
      BY LenProperties, ElementOfSeq DEF Shape
    <3> QED
      BY <3>1, <3>2, SubSeqProperties
  <2>2. setup' \in [async : BOOLEAN, restarts : Nat, errors : Nat, failures : Nat]
    BY <1>5, SetupType DEF Break, Shape
  <2> QED
    BY <1>5, <2>1, <2>2 DEF Shape, Break, ReaderState
<1>6. CASE Die
  <2>1. setup' \in [async : BOOLEAN, restarts : Nat, errors : Nat, failures : Nat]
    BY <1>6, SetupType DEF Die, Shape
  <2> QED
    BY <1>6, <2>1, ForgetShape DEF Shape, Die
<1>7. CASE Close
  BY <1>7, ForgetShape DEF Shape, Close
<1>8. CASE Reconnect \/ Restart
  <2>1. down' \in Seq(Line)
    <3>1. <<StartLine(history)>> \in Seq(Line) /\ <<>> \in Seq(Line)
      BY DEF Shape, Line, StartLine
    <3>2. down' \in {<<StartLine(history)>>, <<>>}
      BY <1>8 DEF Reconnect, Restart, Reopen
    <3> QED
      BY <3>1, <3>2
  <2> QED
    BY <1>8, <2>1 DEF Shape, Reconnect, Restart, Reopen, ReaderState
<1> QED
  BY <1>1, <1>2, <1>3, <1>4, <1>5, <1>6, <1>7, <1>8 DEF Network

LEMMA ShapeInductive ==
  ASSUME Shape, Fresh, [Next]_vars
  PROVE  Shape'
<1>1. CASE UNCHANGED vars
  BY <1>1 DEF vars, Shape, ReaderState, FutureState, SenderState
<1> QED
  BY <1>1, ReaderShape, FutureShape, SenderShape, OthersShape DEF Next, Faults

----------------------------------------------------------------------------
(* What is sent is fresh.                                                  *)

\* Reconciling or aborting opens no effect.
LEMMA PendingShrinks ==
  ASSUME Shape, NEW phase, NEW p
  PROVE  /\ Pending(reconcile_table(effects, Game, p), Game) \subseteq pending
         /\ \A E \in SUBSET DOMAIN effects :
               Pending(SetStatus(effects, E, "ABORTED_ERROR"), Game) = pending \ E
<1>1. effects \in [DOMAIN effects -> EffectStates]
  BY DEF Shape, EffectStates
<1>2. Pending(reconcile_table(effects, Game, p), Game) \subseteq pending
  BY <1>1, ReconcileType DEF Pending, pending
<1>3. ASSUME NEW E \in SUBSET DOMAIN effects
      PROVE  Pending(SetStatus(effects, E, "ABORTED_ERROR"), Game) = pending \ E
  <2>1. "ABORTED_ERROR" \in Status /\ "ABORTED_ERROR" \in Terminal
    BY DEF Status, Terminal
  <2> QED
    BY <1>1, <2>1, SetStatusType DEF Pending, pending
<1> QED
  BY <1>2, <1>3

LEMMA FreshKept ==
  ASSUME Fresh, sender' = sender, table'.moves = table.moves,
         DOMAIN effects' = DOMAIN effects, pending' \subseteq pending
  PROVE  Fresh'
BY DEF Fresh, SenderEffect

LEMMA FreshWhenQuiet ==
  ASSUME sender' = Quiet
  PROVE  Fresh'
BY DEF Fresh, Quiet

LEMMA FreshWhenBegun ==
  ASSUME sender'.pc = "begin", sender'.pos = table'.moves, sender'.snap = table'.moves,
         OurTurn(table'.moves)
  PROVE  Fresh'
BY DEF Fresh

LEMMA DecidedInductive ==
  ASSUME Shape, Decided, [Next]_vars
  PROVE  Decided'
<1> USE DEF journal, server, pool
<1>a. futures \in [Futures -> FutureState]
  BY DEF Shape
<1>1. ASSUME NEW f \in Futures, Decide(f)
      PROVE  Decided'
  BY <1>a, <1>1 DEF Decide, Decided
<1>2. ASSUME NEW f \in Futures, NEW new,
             futures' = [futures EXCEPT ![f] = new], new.st # "done"
      PROVE  Decided'
  BY <1>a, <1>2 DEF Decided
<1>3. ASSUME NEW f \in Futures, \/ Run(f) \/ CallbackRaised(f) \/ Callback(f) \/ WorkerAsks(f)
                                \/ DecideRaises(f)
      PROVE  Decided'
  <2>1. CASE Run(f)
    <3>1. futures' = [futures EXCEPT ![f] = [futures[f] EXCEPT !.st = "running"]]
      BY <1>a, <2>1 DEF Run
    <3>2. [futures[f] EXCEPT !.st = "running"].st # "done"
      BY <1>a, <2>1 DEF Run, FutureState, Free
    <3> QED
      BY <1>2, <3>1, <3>2
  <2>2. CASE CallbackRaised(f) \/ WorkerAsks(f) \/ DecideRaises(f)
    BY <1>2, <2>2 DEF CallbackRaised, WorkerAsks, DecideRaises, Free
  <2>3. CASE Callback(f)
    <3>1. PICK new \in {[st |-> "ask"], Free} : futures' = [futures EXCEPT ![f] = new]
      BY <2>3 DEF Callback
    <3>2. new.st # "done"
      BY <3>1 DEF Free
    <3> QED
      BY <1>2, <3>1, <3>2
  <2> QED
    BY <1>3, <2>1, <2>2, <2>3
<1>4. ASSUME NEW after \in [Futures -> FutureState], Submit(after),
             \A f \in Futures : after[f].st = "done" => after[f] = futures[f]
      PROVE  Decided'
  <2>1. CASE futures' = after
    BY <1>4, <2>1 DEF Decided
  <2>2. CASE futures' # after
    <3>1. PICK f \in Futures : futures' = [after EXCEPT ![f] =
                                [st |-> "queued", snap |-> table.moves]]
      BY <1>4, <2>2 DEF Submit
    <3> QED
      BY <1>4, <3>1 DEF Decided
  <2> QED
    BY <2>1, <2>2
<1>5. ASSUME NEW f \in Futures, WorkerSubmits(f)
      PROVE  Decided'
  <2> DEFINE after == [futures EXCEPT ![f] = Free]
  <2>1. after \in [Futures -> FutureState] /\ \A d \in Futures : after[d] = futures[d] \/ after[d] = Free
    BY <1>a DEF FutureState
  <2>2. Submit(after)
    BY <1>5 DEF WorkerSubmits
  <2> HIDE DEF after
  <2> QED
    BY <1>4, <2>1, <2>2 DEF Free
<1>6. CASE ReaderSubmits
  BY <1>4, <1>6, <1>a DEF ReaderSubmits
<1>7. CASE Forget
  BY <1>7 DEF Forget, Decided, Free
<1>8. CASE futures' = futures
  BY <1>8 DEF Decided
<1>9. \/ \E f \in Futures : Future(f) \/ DecideRaises(f)
      \/ ReaderSubmits \/ Forget \/ futures' = futures
  <2>1. CASE Reader
    BY <2>1 DEF Reader, ApplyStart, ApplyPlay, ApplyEnd, ApplyError, StopTable, AbortPending,
       RecordFailure, ReaderAsks, ReaderDecides, RaiseError
  <2>2. CASE Sender
    BY <2>2 DEF Sender, Begin, SendLine, SendRaises, MarkReads, MarkAppends
  <2>3. CASE Network
    BY <2>3 DEF Network, Deliver, Lose, OpponentMoves, Interleave, ServerError
  <2>4. CASE Break \/ Die \/ Close \/ Reconnect \/ Restart \/ UNCHANGED vars
    BY <2>4 DEF Break, Die, Close, Reconnect, Restart, Reopen, vars
  <2> QED
    BY <2>1, <2>2, <2>3, <2>4 DEF Next, Faults
<1> QED
  BY <1>1, <1>3, <1>5, <1>6, <1>7, <1>8, <1>9 DEF Future

LEMMA FreshInductive ==
  ASSUME Shape, Fresh, Decided, [Next]_vars
  PROVE  Fresh'
<1> USE DEF journal, server, pool
<1>a. /\ effects \in [DOMAIN effects -> EffectStates]
      /\ pending \subseteq DOMAIN effects
  BY DEF Shape, EffectStates, pending, Pending
<1>1. CASE sender' = Quiet
  BY <1>1, FreshWhenQuiet
<1>2. CASE UNCHANGED <<sender, effects>> /\ table'.moves = table.moves
  BY <1>2, FreshKept DEF pending
<1>3. CASE AbortPending
  <2> DEFINE E == reader.found \cap pending
  <2>1. effects' = SetStatus(effects, E, "ABORTED_ERROR") /\ E \subseteq DOMAIN effects
    BY <1>3, <1>a DEF AbortPending
  <2> HIDE DEF E
  <2>2. DOMAIN effects' = DOMAIN effects /\ pending' \subseteq pending
    BY <1>a, <2>1, PendingShrinks DEF SetStatus, pending
  <2> QED
    BY <1>3, <2>2, FreshKept DEF AbortPending
<1>4. CASE ReaderDecides /\ sender' # Quiet
  <2>1. CASE UNCHANGED sender
    BY <1>4, <2>1, <1>2 DEF ReaderDecides
  <2>2. CASE ~UNCHANGED sender
    BY <1>4, <2>2, FreshWhenBegun DEF ReaderDecides
  <2> QED
    BY <2>1, <2>2
<1>5. ASSUME NEW f \in Futures, Callback(f), sender' # Quiet
      PROVE  Fresh'
  <2>1. /\ futures[f].st = "done" /\ futures[f].snap = table.moves /\ futures[f].action # NONE
        /\ sender' = [pc |-> "begin", action |-> futures[f].action,
                      pos |-> table.moves, snap |-> futures[f].snap]
        /\ table' = table
    BY <1>5 DEF Callback, Stale
  <2>2. OurTurn(table.moves)
    BY <2>1 DEF Decided
  <2> QED
    BY <2>1, <2>2, FreshWhenBegun
<1>6. CASE Begin /\ sender' # Quiet
  <2>1. /\ readable /\ pending = {} /\ SenderEffect \notin DOMAIN effects
        /\ effects' = Put(effects, SenderEffect, [status |-> "INTENT", attempts |-> 0])
        /\ sender' = [sender EXCEPT !.pc = "send"] /\ sender.pc = "begin" /\ table' = table
    BY <1>6 DEF Begin, SenderStops
  <2>2. sender # Quiet /\ sender \in SenderState
    BY <2>1 DEF Quiet, Shape
  <2>3. /\ sender'.pos = sender.pos /\ sender'.snap = sender.snap /\ sender'.action = sender.action
        /\ sender'.pc = "send" /\ sender' # Quiet
    BY <2>1, <2>2 DEF SenderState, Quiet
  <2>4. SenderEffect' = SenderEffect
    BY <2>3 DEF SenderEffect
  <2>5. pending' \subseteq {SenderEffect} /\ SenderEffect \in DOMAIN effects'
    BY <1>a, <2>1 DEF Put, pending, Pending
  <2> QED
    BY <2>1, <2>2, <2>3, <2>4, <2>5 DEF Fresh
<1>7. ASSUME NEW pc \in {"mark", "append"}, sender' = [sender EXCEPT !.pc = pc],
             sender.pc \in {"send", "mark"}, UNCHANGED <<effects, table>>
      PROVE  Fresh'
  <2>1. sender # Quiet /\ sender \in SenderState
    BY <1>7 DEF Quiet, Shape
  <2>2. /\ sender'.pos = sender.pos /\ sender'.snap = sender.snap /\ sender'.action = sender.action
        /\ sender'.pc = pc
    BY <1>7, <2>1 DEF SenderState, Quiet
  <2> QED
    BY <1>7, <2>1, <2>2 DEF Fresh, SenderEffect, pending
<1>8. CASE Reader /\ ~AbortPending /\ ~ReaderDecides
  <2>1. CASE ApplyStart \/ ApplyPlay
    BY <2>1, <1>1 DEF ApplyStart, ApplyPlay, Receive
  <2>2. CASE ApplyEnd
    BY <2>2, <1>2, <1>1 DEF ApplyEnd, Receive
  <2>3. CASE ApplyError \/ ReaderAsks \/ ReaderSubmits
    BY <2>3, <1>2 DEF ApplyError, ReaderAsks, ReaderSubmits
  <2>4. CASE StopTable
    BY <2>4, <1>2 DEF StopTable, Shape
  <2>5. CASE RecordFailure
    BY <2>5, <1>2 DEF RecordFailure, Shape
  <2>6. CASE RaiseError
    BY <2>6, <1>1 DEF RaiseError, Forget
  <2> QED
    BY <1>8, <2>1, <2>2, <2>3, <2>4, <2>5, <2>6 DEF Reader
<1>9. ASSUME NEW f \in Futures, (Future(f) /\ ~Callback(f)) \/ DecideRaises(f)
      PROVE  Fresh'
  BY <1>9, <1>2 DEF Future, DecideRaises, Run, Decide, CallbackRaised, WorkerAsks, WorkerSubmits
<1>10. CASE Sender
  <2>1. CASE SendLine
    BY <2>1, <1>7 DEF SendLine
  <2>2. CASE MarkReads
    BY <2>2, <1>1, <1>7 DEF MarkReads, SenderStops
  <2>3. CASE SendRaises \/ MarkAppends
    BY <2>3, <1>1 DEF SendRaises, MarkAppends, SenderStops
  <2> QED
    BY <1>1, <1>6, <1>10, <2>1, <2>2, <2>3 DEF Sender
<1>11. CASE Network
  BY <1>11, <1>2 DEF Network, Deliver, Lose, OpponentMoves, Interleave, ServerError
<1>12. CASE Break \/ Die \/ Close \/ Reconnect \/ Restart \/ UNCHANGED vars
  BY <1>12, <1>1, <1>2 DEF Break, Die, Close, Reconnect, Restart, Reopen, vars, Forget
<1> QED
  BY <1>1, <1>3, <1>4, <1>5, <1>8, <1>9, <1>10, <1>11, <1>12 DEF Next, Faults, Future, Reader

----------------------------------------------------------------------------
(* The worker without an executor.                                         *)

LEMMA ExecutorInductive ==
  ASSUME Shape, Executor, [Next]_vars
  PROVE  Executor' /\ setup'.async = setup.async
<1> USE DEF journal, server, pool
<1>1. setup'.async = setup.async
  <2>1. CASE setup' = setup
    BY <2>1
  <2>2. CASE setup' # setup
    BY <2>2 DEF Next, Faults, Reader, Sender, Network, Future, vars, Shape,
       ApplyStart, ApplyPlay, ApplyEnd, ApplyError, StopTable, AbortPending, RecordFailure,
       ReaderAsks, ReaderSubmits, ReaderDecides, RaiseError, Begin, SendLine, SendRaises,
       MarkReads, MarkAppends, Deliver, Lose, OpponentMoves, Interleave, ServerError, Break,
       Die, DecideRaises, Run, Decide, CallbackRaised, Callback, WorkerAsks, WorkerSubmits,
       Close, Reconnect, Restart, Reopen
  <2> QED
    BY <2>1, <2>2
<1>2. CASE reader' = reader
  BY <1>1, <1>2 DEF Executor
<1>3. CASE reader'.pc # "sending"
  BY <1>1, <1>3 DEF Executor
<1>4. CASE Reader
  <2>1. CASE ~ReaderDecides
    BY <1>3, <1>4, <2>1, <1>2 DEF Reader, ApplyStart, ApplyPlay, Applied, ApplyEnd, ApplyError,
       StopTable, AbortPending, RecordFailure, ReaderAsks, ReaderSubmits, RaiseError, Forget, At
  <2>2. CASE ReaderDecides
    BY <1>1, <2>2 DEF ReaderDecides, Executor
  <2> QED
    BY <2>1, <2>2
<1>5. CASE Sender
  BY <1>2, <1>3, <1>5 DEF Sender, Begin, SendLine, SendRaises, MarkReads, MarkAppends, SenderStops, At
<1>6. CASE Network
  BY <1>2, <1>6 DEF Network, Deliver, Lose, OpponentMoves, Interleave, ServerError
<1>7. ASSUME NEW f \in Futures, Future(f) \/ DecideRaises(f)
      PROVE  Executor'
  BY <1>2, <1>7 DEF Future, DecideRaises, Run, Decide, CallbackRaised, Callback, WorkerAsks,
     WorkerSubmits
<1>8. CASE Break \/ Die \/ Close \/ Reconnect \/ Restart \/ UNCHANGED vars
  BY <1>2, <1>3, <1>8 DEF Break, Die, Close, Reconnect, Restart, Reopen, vars, Forget, At
<1> QED
  BY <1>1, <1>4, <1>5, <1>6, <1>7, <1>8 DEF Next, Faults

LEMMA AloneForgotten ==
  ASSUME Shape, Alone, Forget, UNCHANGED <<effects, readable>>
  PROVE  Alone'
<1>1. /\ table' = Away /\ reader' = At("idle") /\ sender' = Quiet
      /\ futures' = [f \in Futures |-> Free]
  BY DEF Forget
<1>2. table'.phase \notin {"stopped", "failed"} \/ (table'.phase = "failed" /\ table.phase = "failed")
  BY <1>1 DEF Away, Shape
<1>3. reader'.pc = "idle"
  BY <1>1 DEF At
<1>4. sender'.pc = "none"
  BY <1>1 DEF Quiet
<1> QED
  BY <1>1, <1>2, <1>3, <1>4 DEF Alone, pending

LEMMA AloneInductive ==
  ASSUME Shape, Fresh, Alone, ~setup.async, [Next]_vars
  PROVE  Alone'
<1> USE DEF journal, server, pool
<1>a. /\ effects \in [DOMAIN effects -> EffectStates]
      /\ pending \subseteq DOMAIN effects
  BY DEF Shape, EffectStates, pending, Pending
<1>b. \A f \in Futures : futures[f].st = "free"
  BY DEF Alone, Free
<1>c. sender.pc \in {"send", "mark", "append"} => sender # Quiet
  BY DEF Quiet
<1>1. CASE ApplyStart \/ ApplyPlay
  <2>1. PICK phase, p : /\ Applied(phase, p) /\ phase \in {"live", table.phase}
                        /\ table.phase # "stopped"
    BY <1>1 DEF ApplyStart, ApplyPlay, Receive, Alone
  <2>2. /\ sender = Quiet /\ UNCHANGED <<readable, futures, sender>>
    BY <1>1 DEF ApplyStart, ApplyPlay, Receive
  <2>3. pending' \subseteq pending
    BY <2>1, PendingShrinks DEF Applied, pending
  <2>4. reader'.pc = "ask" /\ table'.phase = phase /\ sender'.pc = "none"
    BY <2>1, <2>2 DEF Applied, At, Quiet
  <2> QED
    BY <2>1, <2>2, <2>3, <2>4 DEF Alone
<1>2. CASE ApplyEnd
  <2>1. /\ sender = Quiet /\ UNCHANGED <<readable, futures, sender, effects, reader>>
    BY <1>2 DEF ApplyEnd, Receive
  <2>2. reader.pc = "idle" /\ table'.phase \in {"ended", table.phase}
    BY <1>2 DEF ApplyEnd, Receive, Shape
  <2>3. sender.pc = "none"
    BY <2>1 DEF Quiet
  <2> QED
    BY <2>1, <2>2, <2>3 DEF Alone, pending
<1>3. CASE ApplyError
  <2>1. /\ sender = Quiet /\ UNCHANGED <<readable, futures, sender, effects, table>>
        /\ reader.pc = "idle" /\ reader'.pc = "error" /\ sender.pc = "none"
    BY <1>3 DEF ApplyError, Receive, At, Quiet
  <2> QED
    BY <2>1 DEF Alone, pending
<1>4. CASE StopTable
  <2>1. /\ UNCHANGED <<readable, futures, sender, effects>> /\ reader.pc = "error"
        /\ sender = Quiet
    BY <1>4 DEF StopTable, Alone
  <2>2. CASE in_progress
    <3>1. table' = [table EXCEPT !.phase = "stopped"] /\ reader' = [pc |-> "abort", found |-> pending]
      BY <1>4, <2>2 DEF StopTable
    <3>2. table'.phase = "stopped" /\ reader'.pc = "abort" /\ reader'.found = pending /\ sender.pc = "none"
      BY <2>1, <3>1 DEF Shape, Quiet
    <3> QED
      BY <2>1, <3>2 DEF Alone, pending
  <2>3. CASE ~in_progress
    <3>1. table' = table /\ reader'.pc = "idle" /\ sender.pc = "none"
      BY <1>4, <2>1, <2>3 DEF StopTable, At, Quiet
    <3> QED
      BY <2>1, <3>1 DEF Alone, pending
  <2> QED
    BY <2>2, <2>3
<1>5. CASE AbortPending
  <2> DEFINE E == reader.found \cap pending
  <2>1. /\ effects' = SetStatus(effects, E, "ABORTED_ERROR") /\ E \subseteq DOMAIN effects
        /\ UNCHANGED <<readable, futures, sender, table>> /\ reader.pc = "abort"
        /\ reader'.pc = "failing"
    BY <1>5, <1>a DEF AbortPending, At
  <2>2. E = pending
    BY <2>1 DEF Alone
  <2> HIDE DEF E
  <2>3. pending' = {}
    BY <2>1, <2>2, PendingShrinks DEF pending
  <2>4. sender = Quiet /\ sender.pc = "none"
    BY <2>1 DEF Alone, Quiet
  <2> QED
    BY <2>1, <2>3, <2>4 DEF Alone
<1>6. CASE RecordFailure
  <2>1. /\ UNCHANGED <<readable, futures, sender, effects>> /\ reader.pc = "failing"
        /\ reader'.pc = "idle" /\ table'.phase = "failed"
    BY <1>6 DEF RecordFailure, At, Shape
  <2>2. sender = Quiet /\ sender.pc = "none"
    BY <2>1 DEF Alone, Quiet
  <2> QED
    BY <2>1, <2>2 DEF Alone, pending
<1>7. CASE ReaderAsks \/ ReaderSubmits
  BY <1>7 DEF ReaderAsks, ReaderSubmits, Alone
<1>8. CASE ReaderDecides
  <2>1. /\ UNCHANGED <<readable, futures, table, effects>> /\ reader.pc = "ask" /\ sender = Quiet
    BY <1>8 DEF ReaderDecides, Alone
  <2>2. CASE sender' = sender
    <3>1. reader'.pc = "idle" \/ (reader'.pc = "sending" /\ sender'.pc = "begin")
      BY <1>8, <2>2 DEF ReaderDecides, At
    <3>2. sender'.pc = "none"
      BY <2>1, <2>2 DEF Quiet
    <3> QED
      BY <2>1, <2>2, <3>1, <3>2 DEF Alone, pending
  <2>3. CASE sender' # sender
    <3>1. sender'.pc = "begin" /\ reader'.pc = "sending" /\ table.phase = "live"
      BY <1>8, <2>3 DEF ReaderDecides, At, WantsMove, in_progress
    <3> QED
      BY <2>1, <3>1 DEF Alone, pending, Quiet
  <2> QED
    BY <2>2, <2>3
<1>9. CASE RaiseError
  BY <1>9, AloneForgotten DEF RaiseError
<1>10. ASSUME SenderStops, reader.pc = "sending", UNCHANGED <<readable, futures, table, effects>>
       PROVE  Alone'
  <2>1. sender' = Quiet /\ sender'.pc = "none" /\ reader'.pc = "idle"
    BY <1>10 DEF SenderStops, At, Quiet
  <2> QED
    BY <1>10, <2>1 DEF Alone, pending
<1>11. CASE Sender
  <2>1. reader.pc = "sending" /\ sender # Quiet /\ sender \in SenderState /\ table.phase = "live"
    <3>1. sender.pc # "none"
      BY <1>11 DEF Sender, Begin, SendLine, SendRaises, MarkReads, MarkAppends
    <3> QED
      BY <3>1 DEF Alone, Quiet, Shape
  <2>a. ASSUME NEW pc \in {"send", "mark", "append"}, sender' = [sender EXCEPT !.pc = pc],
               UNCHANGED <<readable, futures, table, reader>>,
               pc \in {"mark", "append"} =>
                  effects' = effects /\ effects[SenderEffect].status = "INTENT"
        PROVE  Alone'
    <3>1. /\ sender'.pc = pc /\ sender'.pos = sender.pos /\ sender'.action = sender.action
          /\ sender' # Quiet
      BY <2>1, <2>a DEF SenderState, Quiet
    <3>2. SenderEffect' = SenderEffect
      BY <3>1 DEF SenderEffect
    <3> QED
      BY <2>1, <2>a, <3>1, <3>2 DEF Alone
  <2>2. CASE Begin
    <3>1. CASE SenderStops /\ UNCHANGED effects
      BY <2>1, <2>2, <3>1, <1>10 DEF Begin
    <3>2. CASE sender' = [sender EXCEPT !.pc = "send"] /\ UNCHANGED reader
      BY <2>1, <2>2, <3>2, <2>a DEF Begin
    <3> QED
      BY <2>2, <3>1, <3>2 DEF Begin
  <2>3. CASE SendLine
    BY <2>3, <2>a DEF SendLine
  <2>4. CASE SendRaises
    BY <2>1, <2>4, <1>10 DEF SendRaises
  <2>5. CASE MarkReads
    <3>1. CASE SenderStops
      BY <2>1, <2>5, <3>1, <1>10 DEF MarkReads
    <3>2. CASE sender' = [sender EXCEPT !.pc = "append"] /\ UNCHANGED reader
      <4>1. effects[SenderEffect].status = "INTENT"
        BY <2>5 DEF MarkReads, Alone
      <4> QED
        BY <2>5, <3>2, <4>1, <2>a DEF MarkReads
    <3> QED
      BY <2>5, <3>1, <3>2 DEF MarkReads
  <2>6. CASE MarkAppends
    <3>1. effects[SenderEffect].status = "INTENT"
      BY <2>6 DEF MarkAppends, Alone
    <3>2. readable' = readable /\ SenderStops /\ UNCHANGED <<table, futures>>
      BY <2>6, <3>1 DEF MarkAppends, Terminal
    <3>3. sender' = Quiet /\ sender'.pc = "none" /\ reader'.pc = "idle"
      BY <2>1, <3>2 DEF SenderStops, At, Quiet
    <3> QED
      BY <2>1, <3>2, <3>3 DEF Alone
  <2> QED
    BY <1>11, <2>2, <2>3, <2>4, <2>5, <2>6 DEF Sender
<1>12. CASE UNCHANGED <<table, effects, readable, reader, futures, sender>>
  BY <1>12 DEF Alone, pending, SenderEffect
<1>13. CASE Network \/ Break \/ Reconnect \/ Restart \/ UNCHANGED vars
  BY <1>12, <1>13 DEF Network, Deliver, Lose, OpponentMoves, Interleave, ServerError, Break,
     Reconnect, Restart, Reopen, vars
<1>14. CASE Die \/ Close
  BY <1>14, AloneForgotten DEF Die, Close
<1>15. ASSUME NEW f \in Futures, Future(f) \/ DecideRaises(f)
       PROVE  FALSE
  BY <1>b, <1>15 DEF Future, Run, Decide, CallbackRaised, Callback, WorkerAsks, WorkerSubmits,
     DecideRaises
<1> QED
  BY <1>1, <1>2, <1>3, <1>4, <1>5, <1>6, <1>7, <1>8, <1>9, <1>11, <1>13, <1>14, <1>15
     DEF Next, Faults, Reader

----------------------------------------------------------------------------
(* The results for every kind of worker.                                   *)

LEMMA ThreadsInvariant == Spec => []ThreadsInv
<1>1. Init => ThreadsInv
  <2> SUFFICES ASSUME Init PROVE ThreadsInv
    OBVIOUS
  <2>1. Fresh /\ Decided /\ OneThread /\ Executor
    BY DEF Init, Fresh, Decided, OneThread, Alone, Executor, Quiet, At, Free, pending, Pending
  <2> QED
    BY <2>1, InitShape DEF ThreadsInv
<1>2. ThreadsInv /\ [Next]_vars => ThreadsInv'
  <2> SUFFICES ASSUME ThreadsInv, [Next]_vars PROVE ThreadsInv'
    OBVIOUS
  <2>1. Shape' /\ Fresh' /\ Decided'
    BY ShapeInductive, FreshInductive, DecidedInductive DEF ThreadsInv
  <2>2. Executor' /\ setup'.async = setup.async
    BY ExecutorInductive DEF ThreadsInv
  <2>3. OneThread'
    <3>1. CASE setup.async
      BY <2>2, <3>1 DEF OneThread
    <3>2. CASE ~setup.async
      <4>1. Alone
        BY <3>2 DEF ThreadsInv, OneThread
      <4>2. Alone'
        BY <3>2, <4>1, AloneInductive DEF ThreadsInv
      <4> QED
        BY <4>2 DEF OneThread
    <3> QED
      BY <3>1, <3>2
  <2> QED
    BY <2>1, <2>2, <2>3 DEF ThreadsInv
<1> QED
  BY <1>1, <1>2, PTL DEF Spec

\* A line leaves only from the position its decision was taken on, and while
\* the game has no other open effect: whichever thread sends it, whatever was
\* lost, raised or restarted before.
THEOREM FreshSends == Spec => SendsOnlyFresh
<1>1. ThreadsInv /\ [Next]_vars =>
         [\A e \in DOMAIN lines :
             lines'[e].sent > lines[e].sent =>
                /\ table.moves = e.pos /\ table.moves = sender.snap
                /\ pending \subseteq {e}]_vars
  <2> SUFFICES ASSUME ThreadsInv, [Next]_vars, NEW e \in DOMAIN lines,
                      lines'[e].sent > lines[e].sent
               PROVE  /\ table.moves = e.pos /\ table.moves = sender.snap
                      /\ pending \subseteq {e}
    OBVIOUS
  <2> USE DEF journal, server, pool
  <2>a. DOMAIN lines = DOMAIN effects /\ lines \in [DOMAIN effects -> WireStates]
        /\ lines[e].sent \in Nat
    BY DEF ThreadsInv, Shape, WireStates
  <2>1. CASE SendLine
    <3>1. e = SenderEffect
      BY <2>1, <2>a DEF SendLine
    <3>2. sender # Quiet /\ sender.pc = "send"
      BY <2>1 DEF SendLine, Quiet
    <3> QED
      BY <3>1, <3>2 DEF ThreadsInv, Fresh, SenderEffect
  <2>2. CASE Begin
    <3>1. lines'[e] = lines[e]
      BY <2>2, <2>a DEF Begin, Put
    <3> QED
      BY <2>a, <3>1
  <2>3. ASSUME NEW d \in DOMAIN lines, Deliver(d) \/ Lose(d)
        PROVE  FALSE
    BY <2>3, <2>a DEF Deliver, Lose, WireStates
  <2>4. CASE lines' = lines
    BY <2>4, <2>a
  <2>5. SendLine \/ Begin \/ (\E d \in DOMAIN lines : Deliver(d) \/ Lose(d)) \/ lines' = lines
    BY DEF Next, Faults, Reader, Sender, Network, Future, vars,
       ApplyStart, ApplyPlay, ApplyEnd, ApplyError, StopTable, AbortPending, RecordFailure,
       ReaderAsks, ReaderSubmits, ReaderDecides, RaiseError, SendRaises,
       MarkReads, MarkAppends, OpponentMoves, Interleave, ServerError, Break,
       Die, DecideRaises, Run, Decide, CallbackRaised, Callback, WorkerAsks, WorkerSubmits,
       Close, Reconnect, Restart, Reopen
  <2> QED
    BY <2>1, <2>2, <2>3, <2>4, <2>5
<1> QED
  BY <1>1, ThreadsInvariant, PTL DEF Spec, SendsOnlyFresh

LEMMA ShapeIsTyped ==
  ASSUME Shape
  PROVE  TypeOK
BY DEF Shape, TypeOK, Position, ReaderState, SenderState, Quiet

\* Without an executor the journal stays readable, whatever table errors the
\* server sends: with one, a table error can poison it.
THEOREM OneThreadIsSound == Spec => [](~setup.async => ThreadsAreSound)
<1>1. ThreadsInv => (~setup.async => ThreadsAreSound)
  BY ShapeIsTyped DEF ThreadsInv, OneThread, Alone, ThreadsAreSound, JournalStaysReadable
<1> QED
  BY <1>1, ThreadsInvariant, PTL

\* ... and a game that failed has no unresolved effect in the journal.
THEOREM OneThreadSettles == Spec => [](~setup.async => FailedGameIsSettled)
<1>1. ThreadsInv => (~setup.async => FailedGameIsSettled)
  BY DEF ThreadsInv, OneThread, Alone, FailedGameIsSettled
<1> QED
  BY <1>1, ThreadsInvariant, PTL

----------------------------------------------------------------------------
(* What holds as long as the server raises no table error by itself.       *)

SteppedOver == OutOfTurn \subseteq {"resign", "leave"}
Unprovoked  == \A s \in Setups : s.errors = 0

\* No table error meets a game in progress.
NoErrorApplies ==
    /\ setup.errors = 0 /\ readable
    /\ reader.pc \notin {"abort", "failing"}
    /\ table.phase \notin {"stopped", "failed"}
    /\ reader.pc = "error" => table.phase # "live"

\* What the journal knows of the effect being sent.
Sending ==
    /\ sender # Quiet => table.phase = "live"
    /\ sender.pc \in {"send", "mark", "append"} => effects[SenderEffect].status = "INTENT"
    /\ sender.pc = "send" => lines[SenderEffect].sent = 0
    /\ \A e \in DOMAIN effects : effects[e].status # "ABORTED_ERROR"
    /\ \A e \in DOMAIN lines : lines[e].travelling <= lines[e].sent /\ lines[e].sent <= 1

\* A turn of ours that has passed was answered by an effect.
Answered(h) ==
    \A n \in 0..Len(h) : TurnAt(Prefix(h, n)) \in MyTurns =>
        \/ TurnAt(Prefix(h, n)) = TurnAt(h)
        \/ \E e \in DOMAIN effects : TurnAt(e.pos) = TurnAt(Prefix(h, n))

\* A line that has not arrived finds its turn open.
Turns ==
    /\ \A e \in DOMAIN effects : TurnAt(e.pos) \in MyTurns
    /\ \A e \in DOMAIN lines : lines[e].sent = 0 \/ lines[e].travelling > 0 =>
          TurnAt(history) = TurnAt(e.pos)
    /\ Answered(history)

\* Line l, the i-th on its way, takes a client that knows n moves of the
\* game to m of them.
Fits(l, i, n, m, h) ==
    /\ n <= m
    /\ l.event = "start" => i = 1 /\ l.moves = Prefix(h, m)
    /\ l.event = "play" => m = n + 1 /\ l.move = h[m]
    /\ l.event = "end" => n = m /\ m = Len(h) /\ GameOver(h)
    /\ l.event = "error" => n = m

\* The lines of d continue what a client with n moves of h knows, and tell it
\* the rest when they are complete.
Reads(d, n, h, complete, k) ==
    /\ k[0] = n
    /\ \A i \in 1..Len(d) : Fits(d[i], i, k[i - 1], k[i], h)
    /\ complete => k[Len(d)] = Len(h)

Continues(d, n, h, complete) ==
    \E k \in [0..Len(d) -> 0..Len(h)] : Reads(d, n, h, complete, k)

Starts == down # <<>> /\ down[1].event = "start"

\* The client is, or is about to be, in the game.
Joined == table.phase = "live" \/ Starts

EndBefore(i) == \E j \in 1..(i - 1) : down[j].event = "end"

Stream ==
    /\ table.moves = Prefix(history, Len(table.moves)) /\ Len(table.moves) <= Len(history)
    /\ Continues(down, Len(table.moves), history, conn = "up" /\ Joined)
    /\ Starts => table.phase = "away"
    /\ \A i \in 1..Len(down) : down[i].event = "play" => Joined
    /\ table.phase = "ended" => Len(table.moves) = Len(history) /\ GameOver(history)
    /\ ~Connected => down = <<>> /\ table.phase # "live"
    /\ conn = "up" /\ GameOver(history) /\ Joined => EndBefore(Len(down) + 1)
    /\ conn = "up" /\ table.phase = "away" /\ ~Starts => GameOver(history)
    /\ \A i \in 1..Len(down) : down[i].event = "error" => EndBefore(i) \/ ~Joined

USE DEF Connected

\* Somebody is going to decide on an open turn of ours.
Awake ==
    table.phase = "live" /\ OurTurn(table.moves) =>
        \/ reader.pc \in {"ask", "submit"} \/ pending # {} \/ errors \/ sender # Quiet
        \/ \E f \in Futures : futures[f].st # "free"

CalmInv == NoErrorApplies /\ Sending /\ Turns /\ Stream /\ Awake

----------------------------------------------------------------------------
(* The stream of lines.                                                    *)

\* A prefix of a position is a position, and keeps its moves.
LEMMA PrefixPosition ==
  ASSUME NEW p \in Position, NEW n \in 0..Len(p)
  PROVE  /\ Prefix(p, n) \in Position
         /\ Len(Prefix(p, n)) = n
         /\ \A i \in 1..n : Prefix(p, n)[i] = p[i]
<1>1. Len(p) \in Nat /\ n \in Int
  BY LenProperties DEF Position
<1>2. \A i \in 1..n : p[i] \in Move
  BY <1>1, ElementOfSeq DEF Position
<1>3. /\ SubSeq(p, 1, n) \in Seq(Move)
      /\ Len(SubSeq(p, 1, n)) = IF 1 <= n THEN n - 1 + 1 ELSE 0
      /\ \A i \in 1 .. n - 1 + 1 : SubSeq(p, 1, n)[i] = p[1 + i - 1]
  BY ONLY <1>1, <1>2, SubSeqProperties, 1 \in Int
<1> QED
  BY <1>1, <1>3 DEF Prefix, Position

LEMMA PositionEqual ==
  ASSUME NEW p \in Position, NEW q \in Position, Len(p) = Len(q),
         \A i \in 1..Len(p) : p[i] = q[i]
  PROVE  p = q
BY SeqEqual DEF Position

LEMMA PrefixOfAppend ==
  ASSUME NEW p \in Position, NEW m \in Move
  PROVE  /\ Append(p, m) \in Position /\ Len(Append(p, m)) = Len(p) + 1
         /\ Append(p, m)[Len(p) + 1] = m /\ Len(p) \in Nat
         /\ \A i \in 1..Len(p) : Append(p, m)[i] = p[i]
         /\ \A k \in 0..Len(p) : Prefix(Append(p, m), k) = Prefix(p, k)
<1> DEFINE q == Append(p, m)
<1>1. /\ q \in Position /\ Len(q) = Len(p) + 1 /\ q[Len(p) + 1] = m /\ Len(p) \in Nat
      /\ \A i \in 1..Len(p) : q[i] = p[i]
  BY AppendProperties, LenProperties DEF Position
<1> HIDE DEF q
<1>2. ASSUME NEW k \in 0..Len(p) PROVE Prefix(q, k) = Prefix(p, k)
  <2>1. k \in 0..Len(q)
    BY <1>1
  <2>2. /\ Prefix(p, k) \in Position /\ Len(Prefix(p, k)) = k
        /\ \A i \in 1..k : Prefix(p, k)[i] = p[i]
    BY PrefixPosition
  <2>3. /\ Prefix(q, k) \in Position /\ Len(Prefix(q, k)) = k
        /\ \A i \in 1..k : Prefix(q, k)[i] = q[i]
    BY <1>1, <2>1, PrefixPosition
  <2>4. \A i \in 1..k : Prefix(q, k)[i] = Prefix(p, k)[i]
    BY <1>1, <2>2, <2>3
  <2> QED
    BY <2>2, <2>3, <2>4, PositionEqual
<1> QED
  BY <1>1, <1>2 DEF q

\* The next move after a prefix makes the next prefix.
LEMMA NextPrefix ==
  ASSUME NEW p \in Position, NEW n \in Nat, n < Len(p)
  PROVE  Append(Prefix(p, n), p[n + 1]) = Prefix(p, n + 1)
<1>1. /\ Len(p) \in Nat /\ n \in 0..Len(p) /\ n + 1 \in 0..Len(p) /\ n + 1 \in 1..Len(p)
  BY LenProperties DEF Position
<1>2. /\ Prefix(p, n) \in Position /\ Len(Prefix(p, n)) = n
      /\ \A i \in 1..n : Prefix(p, n)[i] = p[i]
  BY <1>1, PrefixPosition
<1>3. /\ Prefix(p, n + 1) \in Position /\ Len(Prefix(p, n + 1)) = n + 1
      /\ \A i \in 1..(n + 1) : Prefix(p, n + 1)[i] = p[i]
  BY <1>1, PrefixPosition
<1>4. p[n + 1] \in Move
  BY <1>1, ElementOfSeq DEF Position
<1> DEFINE q == Append(Prefix(p, n), p[n + 1])
<1>5. /\ q \in Position /\ Len(q) = n + 1 /\ q[n + 1] = p[n + 1]
      /\ \A i \in 1..n : q[i] = Prefix(p, n)[i]
  BY <1>2, <1>4, PrefixOfAppend
<1> HIDE DEF q
<1>6. \A i \in 1..(n + 1) : q[i] = Prefix(p, n + 1)[i]
  BY <1>1, <1>2, <1>3, <1>5
<1>7. q = Prefix(p, n + 1)
  BY <1>3, <1>5, <1>6, PositionEqual
<1> QED
  BY <1>7 DEF q

LEMMA WholePrefix ==
  ASSUME NEW p \in Position
  PROVE  Prefix(p, Len(p)) = p
BY SubSeqFull DEF Prefix, Position

\* What a line says of a game stays true when the server adds a move.
LEMMA FitsKept ==
  ASSUME NEW h \in Position, NEW mv \in Move, ~GameOver(h), NEW l, NEW i,
         NEW n \in 0..Len(h), NEW m \in 0..Len(h), Fits(l, i, n, m, h)
  PROVE  Fits(l, i, n, m, Append(h, mv))
<1>1. l.event = "start" => i = 1 /\ l.moves = Prefix(Append(h, mv), m)
  BY PrefixOfAppend DEF Fits
<1>2. l.event = "play" => m = n + 1 /\ l.move = Append(h, mv)[m]
  <2>1. Len(h) \in Nat
    BY PrefixOfAppend
  <2>2. m = n + 1 => m \in 1..Len(h)
    BY <2>1
  <2> QED
    BY <2>2, PrefixOfAppend DEF Fits
<1> QED
  BY <1>1, <1>2 DEF Fits

LEMMA ReadsKept ==
  ASSUME NEW d \in Seq(Line), NEW n, NEW h \in Position, NEW mv \in Move, ~GameOver(h),
         NEW complete, NEW k \in [0..Len(d) -> 0..Len(h)], Reads(d, n, h, complete, k)
  PROVE  /\ Reads(d, n, Append(h, mv), FALSE, k)
         /\ k \in [0..Len(d) -> 0..Len(Append(h, mv))]
<1>1. Len(d) \in Nat /\ Len(h) \in Nat /\ Len(Append(h, mv)) = Len(h) + 1
  BY LenProperties, PrefixOfAppend
<1>2. ASSUME NEW i \in 1..Len(d) PROVE Fits(d[i], i, k[i - 1], k[i], Append(h, mv))
  <2>1. i \in 0..Len(d) /\ i - 1 \in 0..Len(d)
    BY <1>1
  <2> QED
    BY <2>1, FitsKept DEF Reads
<1>3. 0..Len(h) \subseteq 0..Len(Append(h, mv))
  BY <1>1
<1> QED
  BY <1>2, <1>3 DEF Reads

\* One more line.
LEMMA ReadsAppend ==
  ASSUME NEW d \in Seq(Line), NEW n, NEW h \in Position, NEW c,
         NEW k \in [0..Len(d) -> 0..Len(h)], Reads(d, n, h, c, k),
         NEW l \in Line, NEW m \in 0..Len(h), Fits(l, Len(d) + 1, k[Len(d)], m, h),
         NEW complete, complete => m = Len(h)
  PROVE  Continues(Append(d, l), n, h, complete)
<1> DEFINE q == [j \in 0..(Len(d) + 1) |-> IF j = Len(d) + 1 THEN m ELSE k[j]]
<1>1. /\ Len(d) \in Nat /\ Len(Append(d, l)) = Len(d) + 1
      /\ Append(d, l)[Len(d) + 1] = l
      /\ \A i \in 1..Len(d) : Append(d, l)[i] = d[i]
  BY LenProperties, AppendProperties
<1>2. q \in [0..(Len(d) + 1) -> 0..Len(h)]
  <2>1. \A j \in 0..(Len(d) + 1) : j # Len(d) + 1 => j \in 0..Len(d)
    BY <1>1
  <2> QED
    BY <2>1
<1>3. q[0] = n
  BY <1>1 DEF Reads
<1>4. q[Len(d) + 1] = m
  BY <1>1
<1>5. ASSUME NEW i \in 1..(Len(d) + 1) PROVE Fits(Append(d, l)[i], i, q[i - 1], q[i], h)
  <2>1. CASE i = Len(d) + 1
    <3>1. q[i - 1] = k[Len(d)] /\ q[i] = m
      BY <1>1, <2>1
    <3> QED
      BY <1>1, <2>1, <3>1
  <2>2. CASE i # Len(d) + 1
    <3>1. i \in 1..Len(d) /\ i - 1 \in 0..(Len(d) + 1) /\ i \in 0..(Len(d) + 1)
          /\ i - 1 # Len(d) + 1
      BY <1>1, <2>2
    <3>2. q[i - 1] = k[i - 1] /\ q[i] = k[i]
      BY <2>2, <3>1
    <3> QED
      BY <1>1, <3>1, <3>2 DEF Reads
  <2> QED
    BY <2>1, <2>2
<1> HIDE DEF q
<1>6. Reads(Append(d, l), n, h, complete, q)
  BY <1>1, <1>3, <1>4, <1>5 DEF Reads
<1> QED
  BY <1>1, <1>2, <1>6 DEF Continues

\* The client takes the first line.
LEMMA ContinuesTail ==
  ASSUME NEW d \in Seq(Line), d # <<>>, NEW n, NEW h \in Position, NEW complete,
         Continues(d, n, h, complete)
  PROVE  /\ \E m \in 0..Len(h) : /\ Fits(d[1], 1, n, m, h)
                                 /\ Continues(Tail(d), m, h, complete)
         /\ \A i \in 1..Len(d) : d[i].event = "start" => i = 1
<1>1. PICK k \in [0..Len(d) -> 0..Len(h)] : Reads(d, n, h, complete, k)
  BY DEF Continues
<1>2. /\ Len(d) \in Nat \ {0} /\ Len(Tail(d)) = Len(d) - 1
      /\ \A i \in 1..Len(Tail(d)) : Tail(d)[i] = d[i + 1]
  BY EmptySeq, LenProperties, HeadTailProperties
<1> DEFINE q == [j \in 0..Len(Tail(d)) |-> k[j + 1]]
<1>3. \A j \in 0..Len(Tail(d)) : j + 1 \in 0..Len(d)
  BY <1>2
<1>4. q \in [0..Len(Tail(d)) -> 0..Len(h)]
  BY <1>3
<1>5. ASSUME NEW i \in 1..Len(Tail(d)) PROVE Fits(Tail(d)[i], i, q[i - 1], q[i], h)
  <2>1. i + 1 \in 1..Len(d) /\ i - 1 \in 0..Len(Tail(d)) /\ i \in 0..Len(Tail(d)) /\ i \in Nat
        /\ i + 1 # 1 /\ i - 1 + 1 = i /\ i + 1 - 1 = i
    BY <1>2
  <2>2. Fits(d[i + 1], i + 1, k[i], k[i + 1], h)
    BY <1>1, <2>1 DEF Reads
  <2>3. q[i - 1] = k[i] /\ q[i] = k[i + 1]
    BY <2>1
  <2> QED
    BY <1>2, <2>1, <2>2, <2>3 DEF Fits
<1>6. q[0] = k[1] /\ (complete => q[Len(Tail(d))] = Len(h)) /\ 1 \in 0..Len(d)
  <2>1. 0 \in 0..Len(Tail(d)) /\ Len(Tail(d)) \in 0..Len(Tail(d)) /\ 1 \in 0..Len(d)
        /\ Len(Tail(d)) + 1 = Len(d)
    BY <1>2
  <2> QED
    BY <1>1, <2>1 DEF Reads
<1> HIDE DEF q
<1>7. Continues(Tail(d), k[1], h, complete)
  BY <1>4, <1>5, <1>6 DEF Continues, Reads
<1>8. Fits(d[1], 1, n, k[1], h)
  <2>1. 1 \in 1..Len(d) /\ 1 - 1 = 0
    BY <1>2
  <2> QED
    BY <1>1, <2>1 DEF Reads
<1>9. \A i \in 1..Len(d) : d[i].event = "start" => i = 1
  BY <1>1 DEF Reads, Fits
<1> QED
  BY <1>6, <1>7, <1>8, <1>9

\* The stream is cut short.
LEMMA ContinuesPrefix ==
  ASSUME NEW d \in Seq(Line), NEW n, NEW h \in Position, NEW c, Continues(d, n, h, c),
         NEW j \in 0..Len(d)
  PROVE  /\ Continues(Prefix(d, j), n, h, FALSE)
         /\ Prefix(d, j) \in Seq(Line) /\ Len(Prefix(d, j)) = j
         /\ \A i \in 1..j : Prefix(d, j)[i] = d[i]
<1>1. PICK k \in [0..Len(d) -> 0..Len(h)] : Reads(d, n, h, c, k)
  BY DEF Continues
<1>2. Len(d) \in Nat /\ j \in Int /\ \A i \in 1..j : d[i] \in Line
  BY LenProperties, ElementOfSeq
<1>3. /\ SubSeq(d, 1, j) \in Seq(Line)
      /\ Len(SubSeq(d, 1, j)) = IF 1 <= j THEN j - 1 + 1 ELSE 0
      /\ \A i \in 1 .. j - 1 + 1 : SubSeq(d, 1, j)[i] = d[1 + i - 1]
  BY ONLY <1>2, SubSeqProperties, 1 \in Int
<1>4. /\ Prefix(d, j) \in Seq(Line) /\ Len(Prefix(d, j)) = j
      /\ \A i \in 1..j : Prefix(d, j)[i] = d[i]
  BY <1>2, <1>3 DEF Prefix
<1> DEFINE q == [i \in 0..j |-> k[i]]
<1>5. q \in [0..j -> 0..Len(h)] /\ q[0] = n
  BY <1>1, <1>2 DEF Reads
<1>6. ASSUME NEW i \in 1..j PROVE Fits(Prefix(d, j)[i], i, q[i - 1], q[i], h)
  <2>1. i \in 1..Len(d) /\ i - 1 \in 0..j /\ i \in 0..j
    BY <1>2
  <2> QED
    BY <1>1, <1>4, <2>1 DEF Reads
<1> HIDE DEF q
<1> QED
  BY <1>4, <1>5, <1>6 DEF Continues, Reads

LEMMA ContinuesEmpty ==
  ASSUME NEW h \in Position, NEW n \in 0..Len(h), NEW complete, complete => n = Len(h)
  PROVE  Continues(<<>>, n, h, complete)
<1>1. [i \in 0..0 |-> n] \in [0..Len(<<>>) -> 0..Len(h)]
  OBVIOUS
<1>2. Reads(<<>>, n, h, complete, [i \in 0..0 |-> n])
  BY DEF Reads
<1> QED
  BY <1>1, <1>2 DEF Continues

LEMMA ContinuesStart ==
  ASSUME NEW h \in Position, NEW n \in 0..Len(h)
  PROVE  Continues(<<StartLine(h)>>, n, h, TRUE)
<1>1. Len(h) \in Nat /\ <<>> \in Seq(Line) /\ StartLine(h) \in Line /\ Len(h) \in 0..Len(h)
  BY LenProperties DEF Position, Line, StartLine
<1> DEFINE k == [i \in 0..0 |-> n]
<1>2. k \in [0..Len(<<>>) -> 0..Len(h)] /\ k[Len(<<>>)] = n
  OBVIOUS
<1>3. Reads(<<>>, n, h, FALSE, k)
  BY DEF Reads
<1> HIDE DEF k
<1>4. Fits(StartLine(h), Len(<<>>) + 1, k[Len(<<>>)], Len(h), h)
  BY <1>1, <1>2, WholePrefix DEF Fits, StartLine
<1>5. Continues(Append(<<>>, StartLine(h)), n, h, TRUE)
  BY <1>1, <1>2, <1>3, <1>4, ReadsAppend
<1>6. Append(<<>>, StartLine(h)) = <<StartLine(h)>>
  OBVIOUS
<1> QED
  BY <1>5, <1>6

\* A table error changes nothing in what is known.
LEMMA ContinuesError ==
  ASSUME NEW d \in Seq(Line), NEW n, NEW h \in Position, NEW complete,
         Continues(d, n, h, complete)
  PROVE  Continues(Append(d, ErrorLine), n, h, complete)
<1>1. PICK k \in [0..Len(d) -> 0..Len(h)] : Reads(d, n, h, complete, k)
  BY DEF Continues
<1>2. Len(d) \in Nat /\ Len(h) \in Nat /\ ErrorLine \in Line
  BY LenProperties DEF Position, Line
<1>3. k[Len(d)] \in 0..Len(h) /\ (complete => k[Len(d)] = Len(h))
  BY <1>1, <1>2 DEF Reads
<1>4. Fits(ErrorLine, Len(d) + 1, k[Len(d)], k[Len(d)], h)
  BY <1>2, <1>3 DEF Fits, ErrorLine
<1> QED
  BY <1>1, <1>2, <1>3, <1>4, ReadsAppend

\* The server tells of its move, and of the end of the game.
LEMMA ContinuesMove ==
  ASSUME NEW d \in Seq(Line), NEW n, NEW h \in Position, NEW mv \in Move, ~GameOver(h),
         NEW c, Continues(d, n, h, c)
  PROVE  /\ Continues(d, n, Append(h, mv), FALSE)
         /\ c => Continues(Append(d, PlayLine(mv)), n, Append(h, mv), TRUE)
<1>1. PICK k \in [0..Len(d) -> 0..Len(h)] : Reads(d, n, h, c, k)
  BY DEF Continues
<1> DEFINE g == Append(h, mv)
<1>2. /\ Reads(d, n, g, FALSE, k) /\ k \in [0..Len(d) -> 0..Len(g)]
      /\ g \in Position /\ Len(g) = Len(h) + 1 /\ g[Len(h) + 1] = mv /\ Len(h) \in Nat
  BY <1>1, ReadsKept, PrefixOfAppend
<1> HIDE DEF g
<1>3. Continues(d, n, g, FALSE)
  BY <1>2 DEF Continues
<1>4. ASSUME c PROVE Continues(Append(d, PlayLine(mv)), n, g, TRUE)
  <2>1. k[Len(d)] = Len(h) /\ Len(g) \in 0..Len(g) /\ PlayLine(mv) \in Line
    BY <1>1, <1>2, <1>4 DEF Reads, Line, PlayLine
  <2>2. Fits(PlayLine(mv), Len(d) + 1, k[Len(d)], Len(g), g)
    BY <1>2, <2>1 DEF Fits, PlayLine
  <2> QED
    BY <1>2, <2>1, <2>2, ReadsAppend
<1> QED
  BY <1>3, <1>4 DEF g

LEMMA ContinuesEnd ==
  ASSUME NEW d \in Seq(Line), NEW n, NEW h \in Position, GameOver(h), Continues(d, n, h, TRUE)
  PROVE  Continues(Append(d, EndLine), n, h, TRUE)
<1>1. PICK k \in [0..Len(d) -> 0..Len(h)] : Reads(d, n, h, TRUE, k)
  BY DEF Continues
<1>2. Len(d) \in Nat /\ Len(h) \in Nat /\ EndLine \in Line /\ k[Len(d)] = Len(h)
      /\ Len(h) \in 0..Len(h)
  BY <1>1, LenProperties DEF Position, Line, Reads
<1>3. Fits(EndLine, Len(d) + 1, k[Len(d)], Len(h), h)
  BY <1>2 DEF Fits, EndLine
<1> QED
  BY <1>1, <1>2, <1>3, ReadsAppend

----------------------------------------------------------------------------
(* The journal underneath, with what is proved about it.                   *)

J == INSTANCE EffectJournalProofs WITH
    MaxErrors <- MaxMoves,
    MaxGrants <- 0,
    MaxLines  <- 1,
    history   <- [g \in Games |-> history],
    seen      <- [g \in Games |-> Len(table.moves)],
    phase     <- [g \in Games |-> IF reader.pc = "abort" THEN "live" ELSE table.phase],
    call      <- CASE sender.pc = "send" -> [pc |-> "prepared", effect |-> SenderEffect]
                   [] sender.pc \in {"mark", "append"} ->
                        [pc |-> "sent", effect |-> SenderEffect]
                   [] OTHER -> [pc |-> "idle"]

\* Both instances speak of the same positions.
LEMMA SamePositions ==
  ASSUME NEW p
  PROVE  /\ J!TurnAt(p) = TurnAt(p) /\ J!GameOver(p) = GameOver(p) /\ J!HasLeft(p) = HasLeft(p)
         /\ \A n : J!Prefix(p, n) = Prefix(p, n)
         /\ \A j, g : J!Pending(j, g) = Pending(j, g) /\ J!reconcile_table(j, g, p) = reconcile_table(j, g, p)
BY DEF J!TurnAt, TurnAt, J!GameOver, GameOver, J!HasLeft, HasLeft, J!Prefix, Prefix, J!Pending, Pending,
  J!reconcile_table, reconcile_table, J!Verdict, Verdict, J!After, After, J!Terminal, Terminal,
  J!wire_actions_equivalent, wire_actions_equivalent

LEMMA JournalFacts ==
  ASSUME Shape, J!OutcomeInv
  PROVE  /\ Len(table.moves) <= Len(history)
         /\ \A d, e \in DOMAIN effects :
               d # e /\ TurnAt(d.pos) = TurnAt(e.pos) =>
                  "ABORTED_ERROR" \in {effects[d].status, effects[e].status}
         /\ \A e \in DOMAIN effects : e.pos = table.moves =>
               effects[e].status \notin {"CONFIRMED", "ABORTED_STALE"}
<1>a. DOMAIN effects \subseteq EffectId /\ Game \in Games /\ Games = {Game}
  BY GameIsKnown DEF Shape
<1>b. \A e \in DOMAIN effects : e.game = Game
  BY <1>a DEF EffectId
<1>1. Len(table.moves) <= Len(history)
  BY <1>a DEF J!OutcomeInv, J!TypeOK
<1>2. \A d, e \in DOMAIN effects :
               d # e /\ TurnAt(d.pos) = TurnAt(e.pos) =>
                  "ABORTED_ERROR" \in {effects[d].status, effects[e].status}
  BY <1>b, SamePositions DEF J!OutcomeInv, J!DistinctTurns, J!SameTurn
<1>3. ASSUME NEW e \in DOMAIN effects, e.pos = table.moves,
             effects[e].status \in {"CONFIRMED", "ABORTED_STALE"}
      PROVE  FALSE
  <2>1. J!Judged(e)
    BY DEF J!OutcomeInv
  <2>2. PICK i \in J!Settling(e) : i <= Len(table.moves)
    BY <1>a, <1>b, <1>3, <2>1 DEF J!Judged
  <2>3. i \in Nat /\ i > Len(table.moves) /\ Len(table.moves) \in Nat
    <3>1. i \in DOMAIN history /\ i > Len(e.pos)
      BY <1>a, <1>b DEF J!Settling
    <3>2. DOMAIN history = 1..Len(history) /\ Len(history) \in Nat /\ Len(table.moves) \in Nat
      BY LenProperties DEF Shape, Position
    <3> QED
      BY <1>3, <3>1, <3>2
  <2> QED
    BY <2>2, <2>3
<1> QED
  BY <1>1, <1>2, <1>3

----------------------------------------------------------------------------
(* Every step of the threads is a step of the journal, or none.            *)

\* What the mapped calls have in common.
LEMMA MappedGame ==
  /\ Game \in Games
  /\ \A x : [g \in Games |-> x][Game] = x
  /\ \A x, y : [[g \in Games |-> x] EXCEPT ![Game] = y] = [g \in Games |-> y]
<1>1. Games = {Game} /\ Game \in Games
  BY GameIsKnown
<1> QED
  BY <1>1

LEMMA BeginsEffect ==
  ASSUME Shape, Fresh, Begin, readable, pending = {}, SenderEffect \notin DOMAIN effects,
         table.phase = "live", reader.pc # "abort", table.moves = Prefix(history, Len(table.moves))
  PROVE  J!Begin(Game, sender.action)
<1>1. /\ sender.pc = "begin" /\ sender # Quiet /\ sender \in SenderState
  BY DEF Begin, Quiet, Shape
<1>2. sender.pos = table.moves /\ OurTurn(table.moves)
  BY <1>1 DEF Fresh
<1>3. /\ effects' = Put(effects, SenderEffect, [status |-> "INTENT", attempts |-> 0])
      /\ lines' = Put(lines, SenderEffect, [sent |-> 0, travelling |-> 0, grants |-> 0])
      /\ sender' = [sender EXCEPT !.pc = "send"]
      /\ UNCHANGED <<reader, history, table>>
  BY DEF Begin
<1>4. sender'.pc = "send" /\ SenderEffect' = SenderEffect
  BY <1>1, <1>3 DEF SenderState, Quiet, SenderEffect
<1>5. SenderEffect = [game |-> Game, pos |-> Prefix(history, Len(table.moves)), action |-> sender.action]
  BY <1>2 DEF SenderEffect
<1>6. J!View(Game) = Prefix(history, Len(table.moves))
  BY MappedGame, SamePositions DEF J!View
<1> QED
  BY <1>1, <1>2, <1>3, <1>4, <1>5, <1>6, MappedGame, SamePositions
     DEF J!Begin, J!Idle, J!Put, Put, OurTurn, pending

LEMMA SendsNew ==
  ASSUME Shape, SendLine, effects[SenderEffect].status = "INTENT"
  PROVE  J!SendNew
<1>1. /\ sender.pc = "send" /\ sender # Quiet /\ sender \in SenderState
      /\ sender' = [sender EXCEPT !.pc = "mark"]
      /\ lines' = [lines EXCEPT ![SenderEffect].sent = @ + 1, ![SenderEffect].travelling = @ + 1]
      /\ UNCHANGED <<history, table, effects, reader>>
  BY DEF SendLine, Quiet, Shape, journal
<1>2. sender'.pc = "mark" /\ SenderEffect' = SenderEffect
  BY <1>1 DEF SenderState, Quiet, SenderEffect
<1> QED
  BY <1>1, <1>2 DEF J!SendNew, J!Transmit

LEMMA SendFailed ==
  ASSUME SendRaises, reader.pc # "abort"
  PROVE  J!SendFails
<1>1. /\ sender.pc = "send" /\ sender'.pc = "none" /\ reader'.pc # "abort"
      /\ UNCHANGED <<history, table, effects, lines>>
  BY DEF SendRaises, SenderStops, Quiet, At, server, journal
<1> QED
  BY <1>1 DEF J!SendFails, J!Idle

LEMMA SendReturned ==
  ASSUME Shape, Fresh, MarkAppends, effects[SenderEffect].status = "INTENT", reader.pc # "abort"
  PROVE  J!mark_send_returned
<1>1. /\ sender.pc = "append" /\ sender'.pc = "none" /\ reader'.pc # "abort"
      /\ UNCHANGED <<history, table, lines>>
      /\ effects' = [effects EXCEPT ![SenderEffect].status = "SEND_RETURNED",
                                    ![SenderEffect].attempts = @ + 1]
  BY DEF MarkAppends, SenderStops, Quiet, At, server, Terminal
<1>2. SenderEffect \in DOMAIN effects /\ effects \in [DOMAIN effects -> EffectStates]
  BY <1>1 DEF Fresh, Shape, EffectStates
<1>3. effects' = [effects EXCEPT ![SenderEffect] =
                    [status |-> "SEND_RETURNED", attempts |-> @.attempts + 1]]
  <2>1. effects' = [effects EXCEPT ![SenderEffect] =
           [[effects[SenderEffect] EXCEPT !.status = "SEND_RETURNED"] EXCEPT !.attempts = @ + 1]]
    BY <1>1, <1>2 DEF EffectStates
  <2>2. ASSUME NEW r \in EffectStates
        PROVE  [[r EXCEPT !.status = "SEND_RETURNED"] EXCEPT !.attempts = @ + 1]
                 = [status |-> "SEND_RETURNED", attempts |-> r.attempts + 1]
    <3>1. r = [status |-> r.status, attempts |-> r.attempts]
      BY DEF EffectStates
    <3>2. [r EXCEPT !.status = "SEND_RETURNED"] = [status |-> "SEND_RETURNED", attempts |-> r.attempts]
      BY <3>1
    <3>3. \A b : [[status |-> "SEND_RETURNED", attempts |-> r.attempts] EXCEPT !.attempts = b]
               = [status |-> "SEND_RETURNED", attempts |-> b]
      OBVIOUS
    <3>4. [status |-> "SEND_RETURNED", attempts |-> r.attempts].attempts = r.attempts
      OBVIOUS
    <3> QED
      BY <3>2, <3>3, <3>4
  <2> QED
    BY <1>2, <2>1, <2>2
<1> QED
  BY <1>1, <1>3 DEF J!mark_send_returned, J!Idle

LEMMA Started ==
  ASSUME Shape, ApplyStart, table.phase = "away",
         NEW n \in 0..Len(history), Len(table.moves) <= n,
         Head(down).moves = Prefix(history, n)
  PROVE  J!Start(Game, n)
<1>1. /\ sender.pc = "none" /\ sender' = sender /\ reader.pc = "idle" /\ reader'.pc = "ask"
      /\ table' = [phase |-> "live", moves |-> Prefix(history, n)]
      /\ effects' = reconcile_table(effects, Game, Prefix(history, n))
      /\ UNCHANGED <<history, lines>>
  BY DEF ApplyStart, Receive, Applied, At, Quiet
<1>2. Len(Prefix(history, n)) = n
  BY PrefixPosition DEF Shape
<1> QED
  <2>1. J!reconcile_table(effects, Game, J!Prefix(history, n)) = effects'
    BY <1>1, SamePositions
  <2>2. /\ [g \in Games |-> Len(table'.moves)] = [g \in Games |-> n]
        /\ [g \in Games |-> IF reader'.pc = "abort" THEN "live" ELSE table'.phase]
             = [g \in Games |-> "live"]
    BY <1>1, <1>2
  <2> DEFINE callOf(s, e) == CASE s.pc = "send" -> [pc |-> "prepared", effect |-> e]
                               [] s.pc \in {"mark", "append"} -> [pc |-> "sent", effect |-> e]
                               [] OTHER -> [pc |-> "idle"]
  <2>3. callOf(sender, SenderEffect) = [pc |-> "idle"] /\ callOf(sender', SenderEffect') = [pc |-> "idle"]
    BY <1>1
  <2>4. /\ [[g \in Games |-> IF reader.pc = "abort" THEN "live" ELSE table.phase] EXCEPT ![Game] = "live"]
             = [g \in Games |-> "live"]
        /\ [[g \in Games |-> Len(table.moves)] EXCEPT ![Game] = n] = [g \in Games |-> n]
    BY MappedGame
  <2>5. /\ [g \in Games |-> IF reader.pc = "abort" THEN "live" ELSE table.phase][Game] = "away"
        /\ [g \in Games |-> Len(table.moves)][Game] <= n
        /\ [g \in Games |-> history][Game] = history
    BY <1>1, MappedGame
  <2> QED
    BY <1>1, <2>1, <2>2, <2>3, <2>4, <2>5 DEF J!Start, J!Idle

LEMMA Played ==
  ASSUME Shape, ApplyPlay, table.phase # "away", Len(table.moves) < Len(history),
         table.moves = Prefix(history, Len(table.moves)),
         Head(down).move = history[Len(table.moves) + 1]
  PROVE  J!Play(Game) /\ table'.moves = Prefix(history, Len(table.moves) + 1)
         /\ Len(table'.moves) = Len(table.moves) + 1
<1>1. /\ sender.pc = "none" /\ sender' = sender /\ reader.pc = "idle" /\ reader'.pc = "ask"
      /\ table' = [phase |-> table.phase, moves |-> Append(table.moves, Head(down).move)]
      /\ effects' = reconcile_table(effects, Game, Append(table.moves, Head(down).move))
      /\ UNCHANGED <<history, lines>>
  BY DEF ApplyPlay, Receive, Applied, At, Quiet
<1>2. history \in Position /\ Len(table.moves) \in Nat /\ Len(history) \in Nat
  BY LenProperties DEF Shape, Position
<1>3. Append(table.moves, Head(down).move) = Prefix(history, Len(table.moves) + 1)
  BY <1>2, NextPrefix
<1>4. Len(Prefix(history, Len(table.moves) + 1)) = Len(table.moves) + 1
  <2>1. Len(table.moves) + 1 \in 0..Len(history)
    BY <1>2
  <2> QED
    BY <1>2, <2>1, PrefixPosition
<1> QED
  <2>1. table'.moves = Prefix(history, Len(table.moves) + 1)
        /\ Len(table'.moves) = Len(table.moves) + 1 /\ table'.phase = table.phase
    BY <1>1, <1>3, <1>4
  <2>2. J!reconcile_table(effects, Game, J!Prefix(history, Len(table.moves) + 1)) = effects'
    BY <1>1, <1>3, SamePositions
  <2>3. /\ [g \in Games |-> Len(table'.moves)] = [g \in Games |-> Len(table.moves) + 1]
        /\ [g \in Games |-> IF reader'.pc = "abort" THEN "live" ELSE table'.phase]
             = [g \in Games |-> IF reader.pc = "abort" THEN "live" ELSE table.phase]
    BY <1>1, <2>1
  <2> DEFINE callOf(s, e) == CASE s.pc = "send" -> [pc |-> "prepared", effect |-> e]
                               [] s.pc \in {"mark", "append"} -> [pc |-> "sent", effect |-> e]
                               [] OTHER -> [pc |-> "idle"]
  <2>4. callOf(sender, SenderEffect) = [pc |-> "idle"] /\ callOf(sender', SenderEffect') = [pc |-> "idle"]
    BY <1>1
  <2>5. [[g \in Games |-> Len(table.moves)] EXCEPT ![Game] = @ + 1]
          = [g \in Games |-> Len(table.moves) + 1]
    BY MappedGame
  <2>6. /\ [g \in Games |-> IF reader.pc = "abort" THEN "live" ELSE table.phase][Game] # "away"
        /\ [g \in Games |-> Len(table.moves)][Game] = Len(table.moves)
        /\ [g \in Games |-> history][Game] = history
    BY <1>1, MappedGame
  <2> QED
    BY <1>1, <2>1, <2>2, <2>3, <2>4, <2>5, <2>6 DEF J!Play, J!Idle

LEMMA Ended ==
  ASSUME Shape, ApplyEnd, table.phase = "live",
         Len(table.moves) = Len(history), GameOver(history)
  PROVE  J!End(Game)
<1>1. /\ sender.pc = "none" /\ sender' = sender /\ reader.pc = "idle" /\ reader' = reader
      /\ table'.phase = "ended" /\ table'.moves = table.moves
      /\ UNCHANGED <<history, effects, lines>>
  BY DEF ApplyEnd, Receive, Quiet, in_progress, journal, Shape
<1>2. J!View(Game) = history
  <2>1. J!View(Game) = Prefix(history, Len(table.moves))
    BY MappedGame, SamePositions DEF J!View
  <2>2. Prefix(history, Len(history)) = history
    BY WholePrefix DEF Shape
  <2> QED
    BY <2>1, <2>2
<1> QED
  BY <1>1, <1>2, MappedGame, SamePositions DEF J!End, J!Idle

LEMMA Restarted ==
  ASSUME Shape, Forget, UNCHANGED <<history, lines, effects>>, reader.pc # "abort"
  PROVE  J!Restart
<1>1. /\ table' = Away /\ reader'.pc = "idle" /\ sender'.pc = "none"
  BY DEF Forget, At, Quiet
<1>2. table'.moves = table.moves
      /\ table'.phase = IF table.phase \in {"live", "stopped"} THEN "away" ELSE table.phase
  BY <1>1 DEF Away, Shape
<1>3. \A g \in Games : g = Game
  BY GameIsKnown
<1> QED
  BY <1>1, <1>2, <1>3, MappedGame DEF J!Restart, J!Idle

LEMMA Extended ==
  ASSUME NEW kind, NEW form, Extend(kind, form)
  PROVE  J!Extend(Game, kind, form)
BY MappedGame, SamePositions DEF Extend, J!Extend, Moved

LEMMA Interleaved ==
  ASSUME NEW kind, Interleave(kind)
  PROVE  J!Interleave(Game, kind)
BY Extended DEF Interleave, J!Interleave, journal, SenderEffect

LEMMA OpponentMoved ==
  ASSUME OpponentMoves
  PROVE  \E form \in Forms : J!OpponentMoves(Game, form)
BY Extended, MappedGame, SamePositions DEF OpponentMoves, J!OpponentMoves, journal, SenderEffect

LEMMA Lost ==
  ASSUME NEW e, Lose(e)
  PROVE  J!Lose(e)
BY DEF Lose, J!Lose, journal, SenderEffect

LEMMA Delivered ==
  ASSUME Shape, NEW e \in DOMAIN lines, Deliver(e)
  PROVE  \E form \in Forms : J!Deliver(e, form)
<1>1. e \in EffectId /\ e.game = Game /\ e.action \in Actions
  BY GameIsKnown DEF Shape, EffectId
<1>2. /\ lines[e].travelling > 0
      /\ lines' = [lines EXCEPT ![e].travelling = @ - 1]
      /\ UNCHANGED <<table, effects, reader, sender>>
  BY DEF Deliver, journal
<1>3. CASE TurnAt(history) \in MyTurns
           /\ \E form \in Forms : <<e.action, form>> \in Renders /\ Extend("act", form)
  BY <1>1, <1>2, <1>3, Extended, MappedGame, SamePositions DEF J!Deliver, SenderEffect
<1>4. CASE (TurnAt(history) \notin MyTurns \/ GameOver(history)) /\ UNCHANGED history
  <2>1. e.action \in Forms /\ <<e.action, e.action>> \in Renders
    BY <1>1, RendersAssumption
  <2> QED
    BY <1>1, <1>2, <1>4, <2>1, MappedGame, SamePositions DEF J!Deliver, SenderEffect
<1> QED
  BY <1>3, <1>4 DEF Deliver

\* The first line on its way, and what is left then.
LEMMA NextLine ==
  ASSUME Shape, Stream, down # <<>>
  PROVE  /\ Head(down) = down[1] /\ 1 \in 1..Len(down) /\ Len(down) \in Nat
         /\ Tail(down) \in Seq(Line) /\ Len(Tail(down)) = Len(down) - 1
         /\ \A i \in 1..Len(Tail(down)) : Tail(down)[i] = down[i + 1]
         /\ \A i \in 1..Len(Tail(down)) : Tail(down)[i].event # "start"
         /\ \E m \in 0..Len(history) :
               /\ Fits(Head(down), 1, Len(table.moves), m, history)
               /\ Continues(Tail(down), m, history, conn = "up" /\ Joined)
<1>1. /\ Len(down) \in Nat \ {0} /\ Tail(down) \in Seq(Line) /\ Len(Tail(down)) = Len(down) - 1
      /\ \A i \in 1..Len(Tail(down)) : Tail(down)[i] = down[i + 1]
  BY EmptySeq, LenProperties, HeadTailProperties DEF Shape
<1>2. Head(down) = down[1]
  OBVIOUS
<1>3. /\ \E m \in 0..Len(history) :
               /\ Fits(down[1], 1, Len(table.moves), m, history)
               /\ Continues(Tail(down), m, history, conn = "up" /\ Joined)
      /\ \A i \in 1..Len(down) : down[i].event = "start" => i = 1
  BY ContinuesTail DEF Shape, Stream
<1>4. \A i \in 1..Len(Tail(down)) : Tail(down)[i].event # "start"
  <2> SUFFICES ASSUME NEW i \in 1..Len(Tail(down)), Tail(down)[i].event = "start" PROVE FALSE
    OBVIOUS
  <2>1. i + 1 \in 1..Len(down) /\ i + 1 # 1
    BY <1>1
  <2> QED
    BY <1>1, <1>3, <2>1
<1> QED
  BY <1>1, <1>2, <1>3, <1>4

Sends == {"send", "mark", "append"}

LEMMA Stutters ==
  ASSUME UNCHANGED <<history, table, effects, lines>>,
         reader.pc # "abort", reader'.pc # "abort",
         \/ sender' = sender
         \/ sender.pc \notin Sends /\ sender'.pc \notin Sends
  PROVE  UNCHANGED J!vars
<1>1. CASE sender' = sender
  BY <1>1 DEF J!vars, SenderEffect
<1>2. CASE sender.pc \notin Sends /\ sender'.pc \notin Sends
  BY <1>2 DEF J!vars, Sends
<1> QED
  BY <1>1, <1>2

\* What is taken from the stream, without executor or with one.
LEMMA ReaderImplements ==
  ASSUME Shape, OneThread, NoErrorApplies, Sending, Stream, Reader
  PROVE  [J!ClientNext]_J!vars
<1> USE DEF journal, server, pool
<1>a. reader.pc # "abort" /\ Game \in Games /\ Len(table.moves) \in Nat /\ Len(history) \in Nat
  BY MappedGame, LenProperties DEF NoErrorApplies, Shape, Position
<1>1. CASE ApplyStart
  <2>1. down # <<>> /\ Head(down).event = "start"
    BY <1>1 DEF ApplyStart, Receive
  <2>2. table.phase = "away"
    BY <2>1, NextLine DEF Stream, Starts
  <2>3. PICK n \in 0..Len(history) : Fits(Head(down), 1, Len(table.moves), n, history)
    BY <2>1, NextLine
  <2>4. J!Start(Game, n)
    BY <1>1, <2>1, <2>2, <2>3, Started DEF Fits
  <2>5. J!ClientNext
    BY <2>4, MappedGame DEF J!ClientNext
  <2> QED
    BY <2>5
<1>2. CASE ApplyPlay
  <2>1. down # <<>> /\ Head(down).event = "play"
    BY <1>2 DEF ApplyPlay, Receive
  <2>2. table.phase = "live"
    BY <2>1, NextLine DEF Stream, Starts, Joined
  <2>3. PICK m \in 0..Len(history) : Fits(Head(down), 1, Len(table.moves), m, history)
    BY <2>1, NextLine
  <2>4. Len(table.moves) < Len(history) /\ Head(down).move = history[Len(table.moves) + 1]
    BY <1>a, <2>1, <2>3 DEF Fits
  <2>5. J!Play(Game)
    BY <1>2, <2>2, <2>4, Played DEF Stream
  <2> QED
    BY <1>a, <2>5 DEF J!ClientNext
<1>3. CASE ApplyEnd
  <2>1. /\ down # <<>> /\ Head(down).event = "end" /\ UNCHANGED <<history, effects, lines, reader, sender>>
        /\ table' = [table EXCEPT !.phase = IF in_progress THEN "ended" ELSE @]
    BY <1>3 DEF ApplyEnd, Receive
  <2>2. CASE table.phase = "live"
    <3>1. PICK m \in 0..Len(history) : Fits(Head(down), 1, Len(table.moves), m, history)
      BY <2>1, NextLine
    <3>2. J!End(Game)
      BY <1>3, <2>1, <2>2, <3>1, Ended DEF Fits
    <3> QED
      BY <1>a, <3>2 DEF J!ClientNext
  <2>3. CASE table.phase # "live"
    <3>1. table' = table
      BY <2>1, <2>3 DEF in_progress, Shape
    <3> QED
      BY <1>a, <2>1, <3>1, Stutters
  <2> QED
    BY <2>2, <2>3
<1>4. CASE ApplyError \/ ReaderAsks \/ ReaderSubmits
  BY <1>a, <1>4, Stutters DEF ApplyError, ReaderAsks, ReaderSubmits, At
<1>5. CASE StopTable
  <2>1. ~in_progress
    BY <1>5 DEF StopTable, NoErrorApplies, in_progress
  <2> QED
    BY <1>a, <1>5, <2>1, Stutters DEF StopTable, At
<1>6. CASE AbortPending \/ RecordFailure
  BY <1>6 DEF AbortPending, RecordFailure, NoErrorApplies
<1>7. CASE ReaderDecides
  <2>1. sender' = sender \/ (sender.pc \notin Sends /\ sender'.pc \notin Sends)
    <3>1. sender = Quiet
      BY <1>7 DEF ReaderDecides, OneThread, Alone
    <3> QED
      BY <1>7, <3>1 DEF ReaderDecides, Sends, Quiet
  <2> QED
    BY <1>a, <1>7, <2>1, Stutters DEF ReaderDecides, At
<1>8. CASE RaiseError
  <2>1. J!Restart
    BY <1>a, <1>8, Restarted DEF RaiseError
  <2> QED
    BY <2>1 DEF J!ClientNext
<1> QED
  BY <1>1, <1>2, <1>3, <1>4, <1>5, <1>6, <1>7, <1>8 DEF Reader

LEMMA SenderImplements ==
  ASSUME Shape, Fresh, NoErrorApplies, Sending, Stream, Sender
  PROVE  [J!ClientNext]_J!vars
<1> USE DEF journal, server, pool
<1>a. reader.pc # "abort" /\ readable /\ Game \in Games
  BY MappedGame DEF NoErrorApplies
<1>b. sender # Quiet
  BY DEF Sender, Begin, SendLine, SendRaises, MarkReads, MarkAppends, Quiet
<1>1. CASE Begin
  <2>1. CASE pending = {} /\ SenderEffect \notin DOMAIN effects
    <3>1. J!Begin(Game, sender.action) /\ sender.action \in Actions
      BY <1>1, <1>a, <1>b, <2>1, BeginsEffect, SenderEffectType DEF Sending, Stream
    <3> QED
      BY <1>a, <3>1 DEF J!ClientNext
  <2>2. CASE ~(pending = {} /\ SenderEffect \notin DOMAIN effects)
    <3>1. /\ UNCHANGED <<history, table, effects, lines>> /\ sender.pc = "begin"
          /\ sender'.pc = "none" /\ reader'.pc # "abort"
      BY <1>1, <1>a, <2>2 DEF Begin, SenderStops, Quiet, At
    <3> QED
      BY <1>a, <3>1, Stutters DEF Sends
  <2> QED
    BY <2>1, <2>2
<1>2. CASE SendLine
  <2>1. J!SendNew
    BY <1>2, SendsNew DEF SendLine
  <2> QED
    BY <2>1 DEF J!ClientNext
<1>3. CASE SendRaises
  <2>1. J!SendFails
    BY <1>3, <1>a, SendFailed
  <2> QED
    BY <2>1 DEF J!ClientNext
<1>4. CASE MarkReads
  <2>1. /\ sender' = [sender EXCEPT !.pc = "append"] /\ sender.pc = "mark" /\ sender \in SenderState
        /\ UNCHANGED <<history, table, effects, lines, reader>>
    BY <1>4, <1>a DEF MarkReads, Sending, Shape
  <2>2. sender'.pc = "append" /\ SenderEffect' = SenderEffect
    BY <1>b, <2>1 DEF SenderState, SenderEffect
  <2> QED
    BY <2>1, <2>2 DEF J!vars
<1>5. CASE MarkAppends
  <2>1. J!mark_send_returned
    BY <1>5, <1>a, SendReturned DEF MarkAppends, Sending
  <2> QED
    BY <2>1 DEF J!ClientNext
<1> QED
  BY <1>1, <1>2, <1>3, <1>4, <1>5 DEF Sender

LEMMA FutureImplements ==
  ASSUME Shape, NoErrorApplies, NEW f \in Futures, Future(f) \/ DecideRaises(f)
  PROVE  UNCHANGED J!vars
<1> USE DEF journal, server, pool
<1>a. reader.pc # "abort"
  BY DEF NoErrorApplies
<1>1. CASE Callback(f)
  <2>1. sender.pc = "none" /\ sender'.pc \in {"none", "begin"}
    BY <1>1 DEF Callback, Quiet
  <2> QED
    BY <1>a, <1>1, <2>1, Stutters DEF Callback, Sends
<1>2. CASE ~Callback(f)
  BY <1>a, <1>2, Stutters DEF Future, Run, Decide, CallbackRaised, WorkerAsks, WorkerSubmits, DecideRaises
<1> QED
  BY <1>1, <1>2

LEMMA NetworkImplements ==
  ASSUME Shape, NoErrorApplies, Network
  PROVE  J!ClientNext
<1>a. J!Kinds = Kinds /\ Game \in Games
  BY MappedGame DEF J!Kinds, Kinds
<1>1. ASSUME NEW e \in DOMAIN lines, Deliver(e) \/ Lose(e)
      PROVE  J!ClientNext
  BY <1>1, Delivered, Lost DEF J!ClientNext, J!Server
<1>2. CASE OpponentMoves
  BY <1>2, <1>a, OpponentMoved DEF J!ClientNext, J!Server
<1>3. ASSUME NEW kind \in Kinds \ {"act"}, Interleave(kind)
      PROVE  J!ClientNext
  BY <1>3, <1>a, Interleaved DEF J!ClientNext, J!Server
<1>4. CASE ServerError
  BY <1>4 DEF ServerError, NoErrorApplies
<1> QED
  BY <1>1, <1>2, <1>3, <1>4 DEF Network

LEMMA StepImplements ==
  ASSUME Shape, Fresh, OneThread, NoErrorApplies, Sending, Stream, [Next]_vars
  PROVE  [J!ClientNext]_J!vars
<1> USE DEF journal, server, pool
<1>a. reader.pc # "abort"
  BY DEF NoErrorApplies
<1>1. CASE Break \/ Reconnect \/ Restart \/ UNCHANGED vars
  BY <1>a, <1>1, Stutters DEF Break, Reconnect, Restart, Reopen, vars
<1>2. CASE Die \/ Close
  <2>1. J!Restart
    BY <1>a, <1>2, Restarted DEF Die, Close
  <2> QED
    BY <2>1 DEF J!ClientNext
<1> QED
  BY <1>1, <1>2, ReaderImplements, SenderImplements, FutureImplements, NetworkImplements
     DEF Next, Faults

----------------------------------------------------------------------------
(* Nothing goes wrong by itself.                                           *)

LEMMA ErrorMeetsNoGame ==
  ASSUME Shape, Stream, ApplyError
  PROVE  table.phase # "live"
<1>1. 1 \in 1..Len(down) /\ down[1].event = "error"
  BY NextLine DEF ApplyError, Receive
<1> QED
  BY <1>1 DEF Stream, EndBefore, Joined

LEMMA NoErrorInductive ==
  ASSUME Shape, NoErrorApplies, Sending, Stream, [Next]_vars
  PROVE  NoErrorApplies'
<1> USE DEF journal, server, pool
<1>a. table.phase \in {"away", "live", "ended"}
  BY DEF NoErrorApplies, Shape
<1>1. setup'.errors = 0
  <2>1. CASE setup' = setup
    BY <2>1 DEF NoErrorApplies
  <2>2. \/ setup' = setup \/ ServerError
        \/ setup' = [setup EXCEPT !.restarts = @ - 1]
        \/ setup' = [setup EXCEPT !.failures = @ - 1]
    BY DEF Next, Faults, Reader, Sender, Network, Future, vars,
       ApplyStart, ApplyPlay, ApplyEnd, ApplyError, StopTable, AbortPending, RecordFailure,
       ReaderAsks, ReaderSubmits, ReaderDecides, RaiseError, Begin, SendLine, SendRaises,
       MarkReads, MarkAppends, Deliver, Lose, OpponentMoves, Interleave, ServerError, Break,
       Die, DecideRaises, Run, Decide, CallbackRaised, Callback, WorkerAsks, WorkerSubmits,
       Close, Reconnect, Restart, Reopen
  <2>3. ~ServerError
    BY DEF ServerError, NoErrorApplies
  <2>4. \A x : [setup EXCEPT !.restarts = x].errors = 0 /\ [setup EXCEPT !.failures = x].errors = 0
    BY DEF Shape, NoErrorApplies
  <2> QED
    BY <2>1, <2>2, <2>3, <2>4
<1>2. CASE UNCHANGED <<readable, reader, table>>
  BY <1>1, <1>2 DEF NoErrorApplies
<1>3. ASSUME readable' = readable, table' = table, reader'.pc \in {"idle", "ask", "submit", "sending"}
      PROVE  NoErrorApplies'
  BY <1>1, <1>3 DEF NoErrorApplies
<1>4. CASE Reader
  <2>1. CASE ApplyStart
    <3>1. readable' = readable /\ table'.phase = "live" /\ reader'.pc = "ask"
      BY <2>1 DEF ApplyStart, Applied, At
    <3> QED
      BY <1>1, <3>1 DEF NoErrorApplies
  <2>2. CASE ApplyPlay
    <3>1. readable' = readable /\ table'.phase = table.phase /\ reader'.pc = "ask"
      BY <2>2 DEF ApplyPlay, Applied, At
    <3> QED
      BY <1>1, <3>1 DEF NoErrorApplies
  <2>3. CASE ApplyEnd
    <3>1. /\ readable' = readable /\ reader' = reader /\ reader.pc = "idle"
          /\ table'.phase \in {table.phase, "ended"}
      BY <2>3 DEF ApplyEnd, Receive, Shape
    <3> QED
      BY <1>1, <3>1 DEF NoErrorApplies
  <2>4. CASE ApplyError
    <3>1. readable' = readable /\ table' = table /\ reader'.pc = "error" /\ table.phase # "live"
      BY <2>4, ErrorMeetsNoGame DEF ApplyError, At
    <3> QED
      BY <1>1, <3>1 DEF NoErrorApplies
  <2>5. CASE AbortPending \/ RecordFailure
    BY <2>5 DEF AbortPending, RecordFailure, NoErrorApplies
  <2>8. CASE StopTable
    <3>1. readable' = readable /\ table' = table /\ reader'.pc = "idle"
      BY <2>8 DEF StopTable, NoErrorApplies, in_progress, At
    <3> QED
      BY <1>3, <3>1
  <2>6. CASE ReaderAsks \/ ReaderSubmits \/ ReaderDecides
    BY <1>3, <2>6 DEF ReaderAsks, ReaderSubmits, ReaderDecides, At
  <2>7. CASE RaiseError
    <3>1. /\ readable' = readable /\ table' = Away /\ reader'.pc = "idle"
      BY <2>7 DEF RaiseError, Forget, At
    <3>2. table'.phase \in {"away", "ended"}
      BY <1>a, <3>1 DEF Away, Shape
    <3> QED
      BY <1>1, <3>1, <3>2 DEF NoErrorApplies
  <2> QED
    BY <1>4, <2>1, <2>2, <2>3, <2>4, <2>5, <2>6, <2>7, <2>8 DEF Reader
<1>5. CASE Sender
  <2>1. readable' = readable
    BY <1>5 DEF Sender, Begin, SendLine, SendRaises, MarkReads, MarkAppends, Sending, Terminal
  <2>2. table' = table /\ (reader' = reader \/ reader'.pc = "idle")
    BY <1>5 DEF Sender, Begin, SendLine, SendRaises, MarkReads, MarkAppends, SenderStops, At
  <2> QED
    BY <1>2, <1>3, <2>1, <2>2
<1>6. CASE Network
  BY <1>2, <1>6 DEF Network, Deliver, Lose, OpponentMoves, Interleave, ServerError
<1>7. ASSUME NEW f \in Futures, Future(f) \/ DecideRaises(f)
      PROVE  NoErrorApplies'
  BY <1>2, <1>7 DEF Future, DecideRaises, Run, Decide, CallbackRaised, Callback, WorkerAsks,
     WorkerSubmits
<1>8. CASE Break \/ Reconnect \/ Restart \/ UNCHANGED vars
  BY <1>2, <1>8 DEF Break, Reconnect, Restart, Reopen, vars
<1>9. CASE Die \/ Close
  <2>1. /\ readable' = readable /\ table' = Away /\ reader'.pc = "idle"
    BY <1>9 DEF Die, Close, Forget, At
  <2>2. table'.phase \in {"away", "ended"}
    BY <1>a, <2>1 DEF Away, Shape
  <2> QED
    BY <1>1, <2>1, <2>2 DEF NoErrorApplies
<1> QED
  BY <1>4, <1>5, <1>6, <1>7, <1>8, <1>9 DEF Next, Faults

\* Whatever is sent, the journal and the wire agree on how often.
LEMMA SendingInductive ==
  ASSUME Shape, Fresh, OneThread, NoErrorApplies, Sending, [Next]_vars
  PROVE  Sending'
<1> USE DEF journal, server, pool
<1>a. /\ effects \in [DOMAIN effects -> EffectStates]
      /\ lines \in [DOMAIN effects -> WireStates] /\ DOMAIN lines = DOMAIN effects
  BY DEF Shape, EffectStates, WireStates
<1>b. sender.pc \in Sends => sender # Quiet
  BY DEF Sends, Quiet
<1>1. CASE UNCHANGED <<sender, effects, lines>> /\ (table'.phase = table.phase \/ sender = Quiet)
  BY <1>1 DEF Sending, SenderEffect, Quiet
<1>2. CASE UNCHANGED <<effects, lines>> /\ sender'.pc \in {"none", "begin"}
           /\ (sender' = Quiet \/ table'.phase = "live")
  BY <1>2 DEF Sending, Quiet
<1>3. CASE ApplyStart \/ ApplyPlay
  <2>1. /\ sender = Quiet /\ sender' = sender /\ lines' = lines
        /\ \E p : effects' = reconcile_table(effects, Game, p)
    BY <1>3 DEF ApplyStart, ApplyPlay, Receive, Applied
  <2>2. DOMAIN effects' = DOMAIN effects
        /\ \A e \in DOMAIN effects : effects'[e].status # "ABORTED_ERROR"
    BY <1>a, <2>1, ReconcileType DEF Sending
  <2> QED
    BY <2>1, <2>2 DEF Sending, Quiet
<1>4. CASE Reader /\ ~ApplyStart /\ ~ApplyPlay
  <2>1. CASE ApplyEnd
    BY <1>1, <2>1 DEF ApplyEnd, Receive
  <2>2. CASE ApplyError \/ ReaderAsks \/ ReaderSubmits
    BY <1>1, <2>2 DEF ApplyError, ReaderAsks, ReaderSubmits
  <2>3. CASE StopTable \/ AbortPending \/ RecordFailure
    BY <1>1, <2>3 DEF StopTable, AbortPending, RecordFailure, NoErrorApplies, in_progress
  <2>4. CASE ReaderDecides
    <3>1. sender = Quiet /\ UNCHANGED <<effects, lines, table>>
      BY <2>4 DEF ReaderDecides, OneThread, Alone
    <3>2. sender' = sender \/ (sender'.pc = "begin" /\ table.phase = "live")
      BY <2>4 DEF ReaderDecides, WantsMove, in_progress
    <3> QED
      BY <1>1, <1>2, <3>1, <3>2
  <2>5. CASE RaiseError
    BY <1>2, <2>5 DEF RaiseError, Forget, Quiet
  <2> QED
    BY <1>4, <2>1, <2>2, <2>3, <2>4, <2>5 DEF Reader
<1>5. CASE Sender
  <2>1. sender # Quiet /\ sender \in SenderState /\ table.phase = "live" /\ table' = table
    BY <1>5 DEF Sender, Begin, SendLine, SendRaises, MarkReads, MarkAppends, Sending, Quiet, Shape
  <2>2. ASSUME NEW pc \in Sends, sender' = [sender EXCEPT !.pc = pc]
        PROVE  SenderEffect' = SenderEffect /\ sender'.pc = pc
    BY <2>1, <2>2 DEF SenderState, SenderEffect
  <2>3. CASE Begin
    <3>1. CASE SenderStops /\ UNCHANGED <<effects, lines>>
      BY <1>2, <3>1 DEF SenderStops, Quiet
    <3>2. CASE ~(SenderStops /\ UNCHANGED <<effects, lines>>)
      <4> DEFINE r == [status |-> "INTENT", attempts |-> 0]
                 w == [sent |-> 0, travelling |-> 0, grants |-> 0]
      <4>1. /\ SenderEffect \notin DOMAIN effects
            /\ effects' = Put(effects, SenderEffect, r) /\ lines' = Put(lines, SenderEffect, w)
            /\ sender' = [sender EXCEPT !.pc = "send"]
        BY <2>3, <3>2 DEF Begin
      <4>2. SenderEffect' = SenderEffect /\ sender'.pc = "send"
        BY <2>2, <4>1 DEF Sends
      <4>3. /\ effects'[SenderEffect] = r /\ lines'[SenderEffect] = w
            /\ \A e \in DOMAIN effects : effects'[e] = effects[e] /\ lines'[e] = lines[e]
            /\ DOMAIN effects' = DOMAIN effects \cup {SenderEffect}
            /\ DOMAIN lines' = DOMAIN effects \cup {SenderEffect}
        BY <1>a, <4>1 DEF Put
      <4> QED
        BY <1>a, <2>1, <4>2, <4>3 DEF Sending
    <3> QED
      BY <3>1, <3>2
  <2>4. CASE SendLine
    <3>1. /\ sender.pc = "send" /\ UNCHANGED effects /\ sender' = [sender EXCEPT !.pc = "mark"]
          /\ lines' = [lines EXCEPT ![SenderEffect].sent = @ + 1,
                                    ![SenderEffect].travelling = @ + 1]
          /\ SenderEffect \in DOMAIN effects
      BY <2>4 DEF SendLine, Fresh
    <3>2. SenderEffect' = SenderEffect /\ sender'.pc = "mark"
      BY <2>2, <3>1 DEF Sends
    <3>3. /\ DOMAIN lines' = DOMAIN lines
          /\ \A e \in DOMAIN lines : e # SenderEffect => lines'[e] = lines[e]
          /\ lines'[SenderEffect].sent = lines[SenderEffect].sent + 1
          /\ lines'[SenderEffect].travelling = lines[SenderEffect].travelling + 1
      BY <1>a, <3>1 DEF WireStates
    <3>4. lines[SenderEffect].sent = 0 /\ lines[SenderEffect].travelling = 0
      BY <1>a, <3>1 DEF Sending, WireStates
    <3> QED
      BY <1>a, <2>1, <3>1, <3>2, <3>3, <3>4 DEF Sending
  <2>5. CASE SendRaises
    BY <1>2, <2>5 DEF SendRaises, SenderStops, Quiet
  <2>6. CASE MarkReads
    <3>1. UNCHANGED <<effects, lines>> /\ sender.pc = "mark"
          /\ sender' = [sender EXCEPT !.pc = "append"]
      BY <2>6 DEF MarkReads, Sending, NoErrorApplies
    <3>2. SenderEffect' = SenderEffect /\ sender'.pc = "append"
      BY <2>2, <3>1 DEF Sends
    <3> QED
      BY <2>1, <3>1, <3>2 DEF Sending
  <2>7. CASE MarkAppends
    <3>1. /\ sender' = Quiet /\ UNCHANGED lines /\ SenderEffect \in DOMAIN effects
          /\ effects' = [effects EXCEPT ![SenderEffect].status = "SEND_RETURNED",
                                        ![SenderEffect].attempts = @ + 1]
      BY <2>7 DEF MarkAppends, SenderStops, Sending, Terminal, Fresh
    <3>2. /\ DOMAIN effects' = DOMAIN effects
          /\ \A e \in DOMAIN effects : effects'[e].status \in {effects[e].status, "SEND_RETURNED"}
      BY <1>a, <3>1 DEF EffectStates
    <3> QED
      BY <3>1, <3>2 DEF Sending, Quiet
  <2> QED
    BY <1>5, <2>3, <2>4, <2>5, <2>6, <2>7 DEF Sender
<1>6. ASSUME NEW e \in DOMAIN lines, Deliver(e) \/ Lose(e)
      PROVE  Sending'
  <2>1. /\ UNCHANGED <<sender, effects, table>> /\ lines[e].travelling > 0
        /\ lines' = [lines EXCEPT ![e].travelling = @ - 1]
    BY <1>6 DEF Deliver, Lose
  <2>2. /\ DOMAIN lines' = DOMAIN lines
        /\ \A d \in DOMAIN lines : lines'[d].sent = lines[d].sent
                                   /\ lines'[d].travelling <= lines[d].travelling
                                   /\ lines'[d].travelling \in Int
    BY <1>a, <2>1 DEF WireStates
  <2>3. \A d \in DOMAIN lines : lines[d].sent \in Nat /\ lines[d].travelling \in Nat
    BY <1>a DEF WireStates
  <2>4. SenderEffect' = SenderEffect
    BY <2>1 DEF SenderEffect
  <2>5. \A d \in DOMAIN lines' : lines'[d].travelling <= lines'[d].sent /\ lines'[d].sent <= 1
    BY <2>2, <2>3 DEF Sending
  <2>6. sender.pc = "send" => SenderEffect \in DOMAIN lines
    BY <1>a DEF Fresh
  <2> QED
    BY <2>1, <2>2, <2>4, <2>5, <2>6 DEF Sending
<1>7. CASE OpponentMoves \/ (\E kind \in Kinds \ {"act"} : Interleave(kind)) \/ ServerError
  BY <1>1, <1>7 DEF OpponentMoves, Interleave, ServerError
<1>8. ASSUME NEW f \in Futures, Future(f) \/ DecideRaises(f)
      PROVE  Sending'
  <2>1. CASE Callback(f)
    <3>1. /\ UNCHANGED <<effects, lines, table>>
          /\ sender'.pc \in {"none", "begin"} /\ (sender' = Quiet \/ table.phase = "live")
      BY <2>1 DEF Callback, Quiet, in_progress
    <3> QED
      BY <1>2, <3>1
  <2>2. CASE ~Callback(f)
    BY <1>1, <1>8, <2>2 DEF Future, DecideRaises, Run, Decide, CallbackRaised, WorkerAsks,
       WorkerSubmits
  <2> QED
    BY <2>1, <2>2
<1>9. CASE Break \/ Reconnect \/ Restart \/ UNCHANGED vars
  BY <1>1, <1>9 DEF Break, Reconnect, Restart, Reopen, vars
<1>10. CASE Die \/ Close
  BY <1>2, <1>10 DEF Die, Close, Forget, Quiet
<1> QED
  BY <1>3, <1>4, <1>5, <1>6, <1>7, <1>8, <1>9, <1>10 DEF Next, Faults, Network


----------------------------------------------------------------------------
(* A line that has not arrived finds its turn open.                        *)

LEMMA DistinctAfter ==
  ASSUME Shape', J!OutcomeInv'
  PROVE  \A d, e \in DOMAIN effects' :
             d # e /\ TurnAt(d.pos) = TurnAt(e.pos) =>
                "ABORTED_ERROR" \in {effects'[d].status, effects'[e].status}
<1>1. DOMAIN effects' \subseteq EffectId /\ Games = {Game}
  BY GameIsKnown DEF Shape
<1>2. \A e \in DOMAIN effects' : e.game = Game
  BY <1>1 DEF EffectId
<1> QED
  BY <1>2, SamePositions DEF J!OutcomeInv, J!DistinctTurns, J!SameTurn

\* The turn after one more move.
LEMMA TurnAfterMove ==
  ASSUME NEW h \in Position, NEW mv \in Move, mv.turn = TurnAt(h)
  PROVE  /\ TurnAt(h) \in Nat
         /\ TurnAt(Append(h, mv)) = IF mv.kind = "act" THEN TurnAt(h) + 1 ELSE TurnAt(h)
<1>1. /\ Append(h, mv) \in Position /\ Len(Append(h, mv)) = Len(h) + 1 /\ Len(h) \in Nat
      /\ Append(h, mv)[Len(h) + 1] = mv
  BY PrefixOfAppend
<1>2. Append(h, mv) # <<>>
  BY <1>1, EmptySeq
<1> QED
  BY <1>1, <1>2, TurnAtNat DEF TurnAt

\* A turn that the server's move closes has been answered, if it was ours.
LEMMA AnsweredExtends ==
  ASSUME NEW h \in Position, NEW mv \in Move, mv.turn = TurnAt(h), Answered(h),
         mv.kind = "act" /\ TurnAt(h) \in MyTurns =>
            \E e \in DOMAIN effects : TurnAt(e.pos) = TurnAt(h)
  PROVE  Answered(Append(h, mv))
<1> DEFINE q == Append(h, mv)
<1>1. /\ q \in Position /\ Len(q) = Len(h) + 1 /\ Len(h) \in Nat
      /\ \A n \in 0..Len(h) : Prefix(q, n) = Prefix(h, n)
      /\ TurnAt(q) = IF mv.kind = "act" THEN TurnAt(h) + 1 ELSE TurnAt(h)
  BY PrefixOfAppend, TurnAfterMove
<1> HIDE DEF q
<1>2. SUFFICES ASSUME NEW n \in 0..Len(q), TurnAt(Prefix(q, n)) \in MyTurns
               PROVE  \/ TurnAt(Prefix(q, n)) = TurnAt(q)
                      \/ \E e \in DOMAIN effects : TurnAt(e.pos) = TurnAt(Prefix(q, n))
  BY DEF Answered, q
<1>3. CASE n = Len(q)
  BY <1>1, <1>3, WholePrefix
<1>4. CASE n # Len(q)
  <2>1. n \in 0..Len(h) /\ Prefix(q, n) = Prefix(h, n)
    BY <1>1, <1>4
  <2>2. \/ TurnAt(Prefix(h, n)) = TurnAt(h)
        \/ \E e \in DOMAIN effects : TurnAt(e.pos) = TurnAt(Prefix(h, n))
    BY <1>2, <2>1 DEF Answered
  <2> QED
    BY <1>1, <1>2, <2>1, <2>2
<1> QED
  BY <1>3, <1>4

\* What a server move is made of.
LEMMA MovedType ==
  ASSUME Shape, NEW kind \in Kinds, NEW form \in Forms \cup Kinds
  PROVE  /\ Moved(kind, form) \in Move
         /\ Moved(kind, form).turn = TurnAt(history) /\ Moved(kind, form).kind = kind
BY TurnAtNat DEF Moved, Move, Shape

LEMMA TurnsExtend ==
  ASSUME Shape, Turns, NEW kind \in Kinds, NEW form \in Forms \cup Kinds,
         Extend(kind, form), UNCHANGED effects,
         DOMAIN lines' = DOMAIN lines,
         kind # "act" => \A e \in DOMAIN lines :
             lines'[e].sent = 0 \/ lines'[e].travelling > 0 =>
                lines[e].sent = 0 \/ lines[e].travelling > 0,
         kind = "act" => \A e \in DOMAIN lines :
             ~(lines'[e].sent = 0 \/ lines'[e].travelling > 0),
         kind = "act" /\ TurnAt(history) \in MyTurns =>
            \E e \in DOMAIN effects : TurnAt(e.pos) = TurnAt(history)
  PROVE  Turns'
<1>1. history' = Append(history, Moved(kind, form)) /\ history \in Position
  BY DEF Extend, Shape
<1>2. Answered(history')
  BY <1>1, MovedType, AnsweredExtends DEF Turns
<1>3. kind # "act" => TurnAt(history') = TurnAt(history)
  BY <1>1, MovedType, TurnAfterMove
<1>4. ASSUME NEW e \in DOMAIN lines', lines'[e].sent = 0 \/ lines'[e].travelling > 0
      PROVE  TurnAt(history') = TurnAt(e.pos)
  BY <1>3, <1>4 DEF Turns
<1> QED
  BY <1>2, <1>4 DEF Turns, Answered

LEMMA TurnsInductive ==
  ASSUME Shape, Fresh, NoErrorApplies, Sending, Stream, Turns,
         J!OutcomeInv, Shape', J!OutcomeInv', [Next]_vars
  PROVE  Turns'
<1> USE DEF journal, server, pool
<1>a. /\ effects \in [DOMAIN effects -> EffectStates]
      /\ lines \in [DOMAIN effects -> WireStates] /\ DOMAIN lines = DOMAIN effects
  BY DEF Shape, EffectStates, WireStates
<1>1. ASSUME UNCHANGED <<history, lines>>, DOMAIN effects' = DOMAIN effects
      PROVE  Turns'
  BY <1>1 DEF Turns, Answered
<1>2. CASE Begin
  <2>1. CASE UNCHANGED <<effects, lines>>
    BY <1>1, <1>2, <2>1 DEF Begin
  <2>2. CASE ~UNCHANGED <<effects, lines>>
    <3>1. /\ sender # Quiet /\ history' = history /\ SenderEffect \notin DOMAIN effects
          /\ effects' = Put(effects, SenderEffect, [status |-> "INTENT", attempts |-> 0])
          /\ lines' = Put(lines, SenderEffect, [sent |-> 0, travelling |-> 0, grants |-> 0])
      BY <1>2, <2>2 DEF Begin, Quiet
    <3>2. /\ SenderEffect.pos = table.moves /\ TurnAt(table.moves) \in MyTurns
      BY <3>1 DEF Fresh, SenderEffect, OurTurn
    <3>4. /\ DOMAIN effects' = DOMAIN effects \cup {SenderEffect}
          /\ effects'[SenderEffect] = [status |-> "INTENT", attempts |-> 0]
          /\ \A e \in DOMAIN effects \ {SenderEffect} : effects'[e] = effects[e]
      BY <3>1 DEF Put
    <3>5. /\ DOMAIN lines' = DOMAIN lines \cup {SenderEffect}
          /\ \A e \in DOMAIN lines \ {SenderEffect} : lines'[e] = lines[e]
      BY <3>1 DEF Put
    <3>6. TurnAt(table.moves) = TurnAt(history)
      <4> SUFFICES ASSUME TurnAt(table.moves) # TurnAt(history) PROVE FALSE
        OBVIOUS
      <4>1. Len(table.moves) \in 0..Len(history)
        BY JournalFacts, LenProperties DEF Shape, Position
      <4>2. PICK e \in DOMAIN effects : TurnAt(e.pos) = TurnAt(table.moves)
        BY <3>2, <4>1 DEF Turns, Answered, Stream
      <4>3. e # SenderEffect /\ effects'[e].status # "ABORTED_ERROR"
        BY <3>1, <3>4 DEF Sending
      <4>4. effects'[SenderEffect].status # "ABORTED_ERROR"
        BY <3>4
      <4> QED
        BY <3>2, <3>4, <4>2, <4>3, <4>4, DistinctAfter
    <3>7. \A e \in DOMAIN effects' : TurnAt(e.pos) \in MyTurns
      BY <3>2, <3>4 DEF Turns
    <3>8. \A e \in DOMAIN lines' : lines'[e].sent = 0 \/ lines'[e].travelling > 0 =>
             TurnAt(history') = TurnAt(e.pos)
      BY <3>1, <3>2, <3>5, <3>6 DEF Turns
    <3>9. \A n \in 0..Len(history) : TurnAt(Prefix(history, n)) \in MyTurns =>
             \/ TurnAt(Prefix(history, n)) = TurnAt(history)
             \/ \E e \in DOMAIN effects' : TurnAt(e.pos) = TurnAt(Prefix(history, n))
      BY <3>4 DEF Turns, Answered
    <3> QED
      BY <3>1, <3>7, <3>8, <3>9 DEF Turns, Answered
  <2> QED
    BY <2>1, <2>2
<1>3. CASE SendLine
  <2>1. /\ UNCHANGED <<history, effects>> /\ sender.pc = "send"
        /\ lines' = [lines EXCEPT ![SenderEffect].sent = @ + 1, ![SenderEffect].travelling = @ + 1]
    BY <1>3 DEF SendLine
  <2>2. lines[SenderEffect].sent = 0
    BY <2>1 DEF Sending
  <2>3. DOMAIN lines' = DOMAIN lines /\ \A e \in DOMAIN lines \ {SenderEffect} : lines'[e] = lines[e]
    BY <2>1
  <2>4. \A e \in DOMAIN lines' : lines'[e].sent = 0 \/ lines'[e].travelling > 0 =>
             TurnAt(history') = TurnAt(e.pos)
    BY <2>1, <2>2, <2>3 DEF Turns
  <2> QED
    BY <2>1, <2>4 DEF Turns, Answered
<1>4. CASE (Sender /\ ~Begin /\ ~SendLine)
  <2>1. UNCHANGED <<history, lines>>
    BY <1>4 DEF Sender, SendRaises, MarkReads, MarkAppends
  <2>2. DOMAIN effects' = DOMAIN effects
    BY <1>4 DEF Sender, SendRaises, MarkReads, MarkAppends
  <2> QED
    BY <1>1, <2>1, <2>2
<1>5. CASE Reader
  <2>1. CASE ApplyStart \/ ApplyPlay
    <3>1. UNCHANGED <<history, lines>> /\ \E p : effects' = reconcile_table(effects, Game, p)
      BY <2>1 DEF ApplyStart, ApplyPlay, Applied
    <3> QED
      BY <1>a, <1>1, <3>1, ReconcileType
  <2>2. CASE AbortPending \/ RecordFailure
    BY <2>2 DEF AbortPending, RecordFailure, NoErrorApplies
  <2>3. CASE ApplyEnd \/ ApplyError \/ StopTable \/ ReaderAsks \/ ReaderSubmits \/ ReaderDecides
             \/ RaiseError
    BY <1>1, <2>3 DEF ApplyEnd, ApplyError, StopTable, ReaderAsks, ReaderSubmits, ReaderDecides,
       RaiseError
  <2> QED
    BY <1>5, <2>1, <2>2, <2>3 DEF Reader
<1>6. ASSUME NEW e \in DOMAIN lines, Deliver(e) \/ Lose(e)
      PROVE  Turns'
  <2>1. /\ UNCHANGED effects /\ lines[e].travelling > 0
        /\ lines' = [lines EXCEPT ![e].travelling = @ - 1]
    BY <1>6 DEF Deliver, Lose
  <2>2. /\ DOMAIN lines' = DOMAIN lines
        /\ \A d \in DOMAIN lines \ {e} : lines'[d] = lines[d]
        /\ lines'[e].sent = lines[e].sent /\ lines'[e].travelling = lines[e].travelling - 1
    BY <1>a, <2>1 DEF WireStates
  <2>3. lines[e].sent = 1 /\ lines[e].travelling = 1
    <3>1. lines[e].sent \in Nat /\ lines[e].travelling \in Nat
      BY <1>a DEF WireStates
    <3>2. lines[e].travelling <= lines[e].sent /\ lines[e].sent <= 1
      BY DEF Sending
    <3> QED
      BY <2>1, <3>1, <3>2
  <2>4. \A d \in DOMAIN lines : lines'[d].sent = 0 \/ lines'[d].travelling > 0 =>
            d # e /\ (lines[d].sent = 0 \/ lines[d].travelling > 0)
    BY <2>2, <2>3
  <2>5. CASE UNCHANGED history
    BY <2>1, <2>2, <2>4, <2>5 DEF Turns, Answered
  <2>6. CASE ~UNCHANGED history
    <3>1. PICK form \in Forms : Extend("act", form)
      BY <1>6, <2>6 DEF Deliver, Lose
    <3>2. TurnAt(history) = TurnAt(e.pos) /\ e \in DOMAIN effects
      BY <1>a, <2>1 DEF Turns
    <3>3. ASSUME NEW d \in DOMAIN lines, lines'[d].sent = 0 \/ lines'[d].travelling > 0
          PROVE  FALSE
      <4>1. d # e /\ TurnAt(d.pos) = TurnAt(e.pos) /\ d \in DOMAIN effects
        BY <1>a, <2>4, <3>2, <3>3 DEF Turns
      <4> QED
        BY <3>2, <4>1, JournalFacts DEF Sending
    <3>4. "act" \in Kinds /\ form \in Forms \cup Kinds
      BY DEF Kinds
    <3> QED
      BY <2>1, <2>2, <3>1, <3>2, <3>3, <3>4, TurnsExtend
  <2> QED
    BY <2>5, <2>6
<1>7. CASE OpponentMoves
  <2>1. PICK form \in Forms : Extend("act", form)
    BY <1>7 DEF OpponentMoves
  <2>2. TurnAt(history) \notin MyTurns /\ UNCHANGED <<lines, effects>>
    BY <1>7 DEF OpponentMoves
  <2>3. \A e \in DOMAIN lines : ~(lines'[e].sent = 0 \/ lines'[e].travelling > 0)
    BY <1>a, <2>2 DEF Turns
  <2>4. "act" \in Kinds /\ form \in Forms \cup Kinds
    BY DEF Kinds
  <2> QED
    BY <2>1, <2>2, <2>3, <2>4, TurnsExtend
<1>8. ASSUME NEW kind \in Kinds \ {"act"}, Interleave(kind)
      PROVE  Turns'
  <2>1. Extend(kind, kind) /\ UNCHANGED <<lines, effects>> /\ kind \in Forms \cup Kinds
    BY <1>8 DEF Interleave
  <2> QED
    BY <1>8, <2>1, TurnsExtend
<1>9. CASE ServerError
  BY <1>1, <1>9 DEF ServerError
<1>10. ASSUME NEW f \in Futures, Future(f) \/ DecideRaises(f)
       PROVE  Turns'
  BY <1>1, <1>10 DEF Future, DecideRaises, Run, Decide, CallbackRaised, Callback, WorkerAsks,
     WorkerSubmits
<1>11. CASE Break \/ Reconnect \/ Restart \/ Die \/ Close \/ UNCHANGED vars
  BY <1>1, <1>11 DEF Break, Reconnect, Restart, Reopen, Die, Close, vars
<1> QED
  BY <1>2, <1>3, <1>4, <1>5, <1>6, <1>7, <1>8, <1>9, <1>10, <1>11 DEF Next, Faults, Network

----------------------------------------------------------------------------
(* The stream keeps its shape.                                             *)

\* Nobody is told of a move after the last one.
LEMMA NothingMore ==
  ASSUME NEW d \in Seq(Line), NEW h \in Position, NEW c, Continues(d, Len(h), h, c)
  PROVE  \A i \in 1..Len(d) : d[i].event # "play"
<1>1. PICK k \in [0..Len(d) -> 0..Len(h)] : Reads(d, Len(h), h, c, k)
  BY DEF Continues
<1>2. Len(d) \in Nat /\ Len(h) \in Nat
  BY LenProperties DEF Position
<1> DEFINE T == {i \in 0..Len(d) : k[i] # Len(h)}
<1>3. T = {}
  <2> SUFFICES ASSUME T # {} PROVE FALSE
    OBVIOUS
  <2>1. T \subseteq Nat
    BY <1>2
  <2>2. PICK x \in T : \A y \in T : x <= y
    BY <2>1, J!LeastElement, TableAssumption, RendersAssumption, TurnsAssumption
       DEF J!BoundsAssumption, J!RendersAssumption, J!TurnsAssumption
  <2>3. x # 0 /\ x \in Nat /\ x <= Len(d)
    BY <1>1, <1>2, <2>2 DEF Reads
  <2>4. x - 1 \in 0..Len(d) /\ x - 1 \notin T /\ x \in 1..Len(d)
    BY <1>2, <2>2, <2>3
  <2>5. k[x - 1] <= k[x] /\ k[x - 1] = Len(h) /\ k[x] \in 0..Len(h)
    BY <1>1, <2>4 DEF Reads, Fits
  <2> QED
    BY <1>2, <2>2, <2>5
<1>4. ASSUME NEW i \in 1..Len(d), d[i].event = "play" PROVE FALSE
  <2>1. i \in 0..Len(d) /\ i - 1 \in 0..Len(d)
    BY <1>2
  <2>2. k[i] = Len(h) /\ k[i - 1] = Len(h)
    BY <1>3, <2>1
  <2>3. k[i] = k[i - 1] + 1
    BY <1>1, <1>4 DEF Reads, Fits
  <2> QED
    BY <1>2, <2>2, <2>3
<1> QED
  BY <1>4

\* What is left when the client takes a line.
LEMMA AfterNextLine ==
  ASSUME Shape, Stream, down # <<>>, down' = Tail(down)
  PROVE  /\ ~Starts'
         /\ \A i \in 1..Len(down') : down'[i] = down[i + 1] /\ i + 1 \in 1..Len(down)
         /\ down[1].event # "end" =>
               /\ \A i \in 1..Len(down') : EndBefore(i + 1) => EndBefore(i)'
               /\ EndBefore(Len(down) + 1) => EndBefore(Len(down) + 1)'
         /\ Len(down') = Len(down) - 1 /\ Len(down) \in Nat
<1>1. /\ Len(down) \in Nat /\ Len(down') = Len(down) - 1 /\ Len(down) >= 1
      /\ \A i \in 1..Len(down') : down'[i] = down[i + 1] /\ down'[i].event # "start"
  BY NextLine
<1>2. ~Starts'
  <2>1. down' # <<>> => 1 \in 1..Len(down')
    <3>1. down' \in Seq(Line)
      BY NextLine
    <3> QED
      BY <1>1, <3>1, EmptySeq
  <2> QED
    BY <1>1, <2>1 DEF Starts
<1>3. ASSUME down[1].event # "end", NEW i \in 1..(Len(down') + 1), EndBefore(i + 1)
      PROVE  EndBefore(i)'
  <2>1. PICK j \in 1..(i + 1 - 1) : down[j].event = "end"
    BY <1>3 DEF EndBefore
  <2>2. j # 1 /\ j - 1 \in 1..(i - 1) /\ j - 1 \in 1..Len(down') /\ j - 1 + 1 = j
    BY <1>1, <1>3, <2>1
  <2>3. down'[j - 1] = down[j]
    BY <1>1, <2>2
  <2> QED
    BY <2>1, <2>2, <2>3 DEF EndBefore
<1>4. \A i \in 1..Len(down') : i \in 1..(Len(down') + 1) /\ i + 1 \in 1..Len(down)
  BY <1>1
<1>5. ASSUME down[1].event # "end", EndBefore(Len(down) + 1)
      PROVE  EndBefore(Len(down) + 1)'
  <2>1. Len(down) \in 1..(Len(down') + 1) /\ Len(down') + 1 - 1 = Len(down) - 1
    BY <1>1
  <2> QED
    BY <1>3, <1>5, <2>1 DEF EndBefore
<1> QED
  BY <1>1, <1>2, <1>3, <1>4, <1>5

\* The client takes a line that is not the last one of the game.
LEMMA StreamAdvances ==
  ASSUME Shape, Stream, down # <<>>, down' = Tail(down), UNCHANGED <<history, conn>>,
         Connected, down[1].event # "end",
         NEW m \in 0..Len(history), Continues(Tail(down), m, history, conn = "up" /\ Joined),
         table'.moves = Prefix(history, m), Joined' = Joined, Joined \in BOOLEAN,
         table'.phase = "live" \/ (table'.phase = table.phase /\ ~Starts /\ m = Len(table.moves))
  PROVE  Stream'
<1>a. /\ Len(table'.moves) = m /\ m <= Len(history) /\ Len(history) \in Nat
  BY PrefixPosition, LenProperties DEF Shape, Position
<1>b. conn' = conn /\ history' = history
  OBVIOUS
<1>1. table'.moves = Prefix(history', Len(table'.moves)) /\ Len(table'.moves) <= Len(history')
  BY <1>a
<1>2. Continues(down', Len(table'.moves), history', conn' = "up" /\ Joined')
  BY <1>a
<1>3. ~Starts'
  BY AfterNextLine
<1>4. \A i \in 1..Len(down') : down'[i].event = "play" => Joined'
  BY AfterNextLine DEF Stream
<1>5. table'.phase = "ended" => Len(table'.moves) = Len(history') /\ GameOver(history')
  BY <1>a DEF Stream
<1>6. conn' = "up" /\ GameOver(history') /\ Joined' => EndBefore(Len(down) + 1)'
  BY AfterNextLine DEF Stream
<1>7. conn' = "up" /\ table'.phase = "away" /\ ~Starts' => GameOver(history')
  BY DEF Stream
<1>8. \A i \in 1..Len(down') : down'[i].event = "error" => EndBefore(i)' \/ ~Joined'
  BY AfterNextLine DEF Stream
<1> QED
  BY <1>b, <1>1, <1>2, <1>3, <1>4, <1>5, <1>6, <1>7, <1>8 DEF Stream

LEMMA StreamReceives ==
  ASSUME Shape, Stream, NoErrorApplies, ApplyStart \/ ApplyPlay \/ ApplyEnd \/ ApplyError
  PROVE  Stream'
<1>a. /\ down # <<>> /\ down' = Tail(down) /\ Connected /\ UNCHANGED <<history, conn>>
      /\ Head(down) = down[1]
  BY DEF ApplyStart, ApplyPlay, ApplyEnd, ApplyError, Receive
<1>b. PICK m \in 0..Len(history) :
         /\ Fits(down[1], 1, Len(table.moves), m, history)
         /\ Continues(Tail(down), m, history, conn = "up" /\ Joined)
  BY <1>a, NextLine
<1>c. 1 \in 1..Len(down) /\ ~Starts' /\ Joined \in BOOLEAN
  BY <1>a, NextLine, AfterNextLine DEF Joined
<1>1. CASE ApplyStart
  <2>1. /\ down[1].event = "start" /\ table' = [phase |-> "live", moves |-> down[1].moves]
    BY <1>1, <1>a DEF ApplyStart, Receive, Applied
  <2>2. /\ table'.moves = Prefix(history, m) /\ table'.phase = "live"
    BY <1>b, <2>1 DEF Fits
  <2>3. Joined /\ Joined'
    BY <1>a, <2>1, <2>2 DEF Joined, Starts
  <2> QED
    BY <1>a, <1>b, <2>1, <2>2, <2>3, StreamAdvances
<1>2. CASE ApplyPlay
  <2>1. /\ down[1].event = "play"
        /\ table' = [phase |-> table.phase, moves |-> Append(table.moves, down[1].move)]
    BY <1>2, <1>a DEF ApplyPlay, Receive, Applied
  <2>2. Joined /\ ~Starts
    BY <1>c, <2>1 DEF Stream, Starts
  <2>3. table.phase = "live"
    BY <2>2 DEF Joined
  <2>4. m = Len(table.moves) + 1 /\ down[1].move = history[Len(table.moves) + 1]
    BY <1>b, <2>1 DEF Fits
  <2>5. Len(table.moves) \in Nat /\ Len(history) \in Nat /\ history \in Position
    BY LenProperties DEF Shape, Position
  <2>6. Len(table.moves) < Len(history)
    BY <2>4, <2>5
  <2>7. table'.moves = Prefix(history, m) /\ table'.phase = "live"
    BY <2>1, <2>3, <2>4, <2>5, <2>6, NextPrefix DEF Stream
  <2>8. Joined'
    BY <2>7 DEF Joined
  <2> QED
    BY <1>a, <1>b, <2>1, <2>2, <2>7, <2>8, StreamAdvances
<1>3. CASE ApplyError
  <2>1. down[1].event = "error" /\ table' = table
    BY <1>3, <1>a DEF ApplyError, Receive
  <2>2. ~Starts /\ Joined' = Joined
    BY <1>c, <2>1 DEF Starts, Joined
  <2>3. m = Len(table.moves)
    BY <1>b, <2>1 DEF Fits
  <2>4. table'.moves = Prefix(history, m)
    BY <2>1, <2>3 DEF Stream
  <2> QED
    BY <1>a, <1>b, <1>c, <2>1, <2>2, <2>3, <2>4, StreamAdvances
<1>4. CASE ApplyEnd
  <2>1. /\ down[1].event = "end" /\ table' = [table EXCEPT !.phase = IF in_progress THEN "ended" ELSE @]
    BY <1>4, <1>a DEF ApplyEnd, Receive
  <2>2. /\ m = Len(table.moves) /\ m = Len(history) /\ GameOver(history)
    BY <1>b, <2>1 DEF Fits
  <2>3. /\ table'.moves = table.moves
        /\ table'.phase = IF table.phase = "live" THEN "ended" ELSE table.phase
    BY <2>1 DEF Shape, in_progress
  <2>4. ~Joined' /\ ~Starts
    BY <1>c, <2>1, <2>3 DEF Joined, Starts
  <2>5. Continues(down', Len(table'.moves), history', conn' = "up" /\ Joined')
    BY <1>a, <1>b, <2>2, <2>3, <2>4 DEF Continues, Reads
  <2>6. \A i \in 1..Len(down') : down'[i].event # "play"
    <3>1. Tail(down) \in Seq(Line)
      BY <1>a, NextLine
    <3>2. Continues(down', Len(history), history, conn = "up" /\ Joined)
      BY <1>a, <1>b, <2>2
    <3> QED
      BY <1>a, <3>1, <3>2, NothingMore DEF Shape
  <2> QED
    BY <1>a, <1>c, <2>2, <2>3, <2>4, <2>5, <2>6 DEF Stream
<1> QED
  BY <1>1, <1>2, <1>3, <1>4

LEMMA StreamForgotten ==
  ASSUME Shape, Stream, Forget, conn' \in {"closed", "dead"}, UNCHANGED history
  PROVE  Stream'
<1>1. /\ conn' # "up" /\ down' = <<>> /\ table' = Away
  BY DEF Forget
<1>2. /\ table'.moves = table.moves
      /\ table'.phase = IF table.phase \in {"live", "stopped"} THEN "away" ELSE table.phase
  BY <1>1 DEF Away, Shape
<1>3. Continues(<<>>, Len(table.moves), history, FALSE)
  <2>1. Len(table.moves) \in 0..Len(history)
    BY LenProperties DEF Shape, Position, Stream
  <2> QED
    BY <2>1, ContinuesEmpty DEF Shape
<1>4. Len(down') = 0 /\ ~Starts'
  BY <1>1 DEF Starts
<1>5. Continues(down', Len(table'.moves), history', conn' = "up" /\ Joined')
  BY <1>1, <1>2, <1>3 DEF Continues, Reads
<1> QED
  BY <1>1, <1>2, <1>4, <1>5 DEF Stream

LEMMA StreamBreaks ==
  ASSUME Shape, Stream, Break
  PROVE  Stream'
<1>1. PICK n \in 0..Len(down) : down' = Prefix(down, n)
  BY DEF Break
<1>2. conn' = "broken" /\ UNCHANGED <<history, table>>
  BY DEF Break, journal, pool
<1>3. /\ Continues(down', Len(table.moves), history, FALSE)
      /\ down' \in Seq(Line) /\ Len(down') = n /\ Len(down) \in Nat
      /\ \A i \in 1..n : down'[i] = down[i] /\ i \in 1..Len(down)
  <2>1. /\ Continues(down, Len(table.moves), history, conn = "up" /\ Joined)
        /\ down \in Seq(Line) /\ history \in Position
    BY DEF Shape, Stream
  <2>2. Len(down) \in Nat
    BY <2>1, LenProperties
  <2>3. \A i \in 1..n : i \in 1..Len(down)
    BY <2>2
  <2>4. /\ Continues(Prefix(down, n), Len(table.moves), history, FALSE)
        /\ Prefix(down, n) \in Seq(Line) /\ Len(Prefix(down, n)) = n
        /\ \A i \in 1..n : Prefix(down, n)[i] = down[i]
    BY <2>1, ContinuesPrefix
  <2> QED
    BY <1>1, <2>2, <2>3, <2>4
<1>4. (Starts' => Starts) /\ (\A i \in 1..n : Starts => Starts')
  <2>1. down' # <<>> => n # 0
    BY <1>3, EmptySeq
  <2>2. n # 0 => 1 \in 1..n
    BY <1>3
  <2>3. \A i \in 1..n : down' # <<>> /\ 1 \in 1..n
    BY <1>3, EmptySeq
  <2>4. down = <<>> => Len(down) = 0
    BY EmptySeq
  <2> QED
    BY <1>3, <2>1, <2>2, <2>3, <2>4 DEF Starts
<1>5. (Joined' => Joined) /\ (\A i \in 1..n : Joined => Joined')
  BY <1>2, <1>4 DEF Joined
<1>6. \A i \in 1..n : EndBefore(i) => EndBefore(i)'
  <2> SUFFICES ASSUME NEW i \in 1..n, EndBefore(i) PROVE EndBefore(i)'
    OBVIOUS
  <2>1. PICK j \in 1..(i - 1) : down[j].event = "end"
    BY DEF EndBefore
  <2>2. j \in 1..n
    BY <1>3, <2>1
  <2> QED
    BY <1>3, <2>1, <2>2 DEF EndBefore
<1>7. Continues(down', Len(table'.moves), history', conn' = "up" /\ Joined')
  BY <1>2, <1>3 DEF Continues, Reads
<1>8. \A i \in 1..Len(down') : down'[i].event = "play" => Joined'
  BY <1>3, <1>5 DEF Stream
<1>9. \A i \in 1..Len(down') : down'[i].event = "error" => EndBefore(i)' \/ ~Joined'
  BY <1>3, <1>5, <1>6 DEF Stream
<1> QED
  BY <1>2, <1>4, <1>7, <1>8, <1>9 DEF Stream

LEMMA StreamReconnects ==
  ASSUME Shape, Stream, NoErrorApplies, Reconnect \/ Restart
  PROVE  Stream'
<1>1. /\ conn' = "up" /\ UNCHANGED <<history, table>> /\ table.phase \in {"away", "ended"}
      /\ down' = IF table.phase = "away" /\ ~GameOver(history) THEN <<StartLine(history)>> ELSE <<>>
  BY DEF Reconnect, Restart, Reopen, journal, pool, Stream, NoErrorApplies, Shape
<1>2. Len(table.moves) \in 0..Len(history)
  BY LenProperties DEF Shape, Position, Stream
<1>3. CASE table.phase = "away" /\ ~GameOver(history)
  <2>1. down' = <<StartLine(history)>> /\ down' # <<>> /\ Len(down') = 1 /\ down'[1].event = "start"
    BY <1>1, <1>3 DEF StartLine
  <2>2. Continues(down', Len(table.moves), history, TRUE)
    BY <1>2, <2>1, ContinuesStart DEF Shape
  <2>3. Starts' /\ Joined'
    BY <2>1 DEF Starts, Joined
  <2>4. \A i \in 1..Len(down') : down'[i].event = "start"
    BY <2>1
  <2> QED
    BY <1>1, <1>3, <2>1, <2>2, <2>3, <2>4 DEF Stream
<1>4. CASE ~(table.phase = "away" /\ ~GameOver(history))
  <2>1. down' = <<>> /\ Len(down') = 0
    BY <1>1, <1>4
  <2>2. ~Starts' /\ ~Joined'
    BY <1>1, <2>1 DEF Starts, Joined
  <2>3. Continues(<<>>, Len(table.moves), history, FALSE)
    BY <1>2, ContinuesEmpty DEF Shape
  <2>4. Continues(down', Len(table.moves), history, FALSE)
    BY <2>1, <2>3
  <2>5. Continues(down', Len(table'.moves), history', conn' = "up" /\ Joined')
    <3>1. \A c : ~c /\ Continues(down', Len(table.moves), history, FALSE)
                => Continues(down', Len(table.moves), history, c)
      BY DEF Continues, Reads
    <3> QED
      BY <1>1, <2>2, <2>4, <3>1
  <2> QED
    BY <1>1, <1>4, <2>1, <2>2, <2>5 DEF Stream
<1> QED
  BY <1>3, <1>4

\* One more line on its way.
LEMMA OneMoreLine ==
  ASSUME Shape, NEW l \in Line, down' = Append(down, l), l.event # "start"
  PROVE  /\ Len(down') = Len(down) + 1 /\ Len(down) \in Nat
         /\ down'[Len(down) + 1] = l
         /\ \A i \in 1..Len(down) : down'[i] = down[i]
         /\ Starts' = Starts
         /\ \A i \in 1..(Len(down) + 1) : EndBefore(i) => EndBefore(i)'
<1>1. /\ Len(down') = Len(down) + 1 /\ Len(down) \in Nat /\ down' \in Seq(Line)
      /\ down'[Len(down) + 1] = l
      /\ \A i \in 1..Len(down) : down'[i] = down[i]
  BY LenProperties, AppendProperties DEF Shape
<1>2. Starts' = Starts
  <2>1. down' # <<>>
    BY <1>1, EmptySeq
  <2>2. CASE down = <<>>
    <3>1. Len(down) = 0
      BY <2>2, EmptySeq
    <3>2. down'[1] = l
      BY <1>1, <3>1
    <3> QED
      BY <2>2, <3>2 DEF Starts
  <2>3. CASE down # <<>>
    <3>1. 1 \in 1..Len(down)
      BY <1>1, <2>3, EmptySeq DEF Shape
    <3> QED
      BY <1>1, <2>1, <2>3, <3>1 DEF Starts
  <2> QED
    BY <2>2, <2>3
<1>3. ASSUME NEW i \in 1..(Len(down) + 1), EndBefore(i) PROVE EndBefore(i)'
  <2>1. PICK j \in 1..(i - 1) : down[j].event = "end"
    BY <1>3 DEF EndBefore
  <2>2. j \in 1..Len(down)
    BY <1>1, <2>1
  <2> QED
    BY <1>1, <2>1, <2>2 DEF EndBefore
<1> QED
  BY <1>1, <1>2, <1>3

LEMMA StreamError ==
  ASSUME Shape, Stream, GameOver(history), conn = "up", down' = Append(down, ErrorLine),
         UNCHANGED <<history, conn, table>>
  PROVE  Stream'
<1>1. /\ Len(down') = Len(down) + 1 /\ Len(down) \in Nat
      /\ down'[Len(down) + 1] = ErrorLine
      /\ \A i \in 1..Len(down) : down'[i] = down[i]
      /\ Starts' = Starts
      /\ \A i \in 1..(Len(down) + 1) : EndBefore(i) => EndBefore(i)'
  BY OneMoreLine DEF Line, ErrorLine
<1>2. Joined' = Joined
  BY <1>1 DEF Joined
<1>3. Continues(down', Len(table'.moves), history', conn' = "up" /\ Joined')
  BY <1>2, ContinuesError DEF Shape, Stream
<1>4. \A i \in 1..Len(down') : i \in 1..Len(down) \/ i = Len(down) + 1
  BY <1>1
<1>5. \A i \in 1..Len(down') : down'[i].event = "play" => Joined'
  BY <1>1, <1>2, <1>4 DEF Stream, ErrorLine
<1>6. Joined => EndBefore(Len(down) + 1) /\ EndBefore(Len(down) + 1)'
  <2>1. Joined => EndBefore(Len(down) + 1)
    BY DEF Stream
  <2>2. Joined => \E j \in 1..(Len(down) + 1 - 1) : down[j].event = "end"
    BY <2>1 DEF EndBefore
  <2>3. \A j \in 1..(Len(down) + 1 - 1) : j \in 1..Len(down) /\ j \in 1..(Len(down') + 1 - 1)
    BY <1>1
  <2>4. Joined => \E j \in 1..(Len(down') + 1 - 1) : down'[j].event = "end"
    BY <1>1, <2>2, <2>3
  <2> QED
    BY <2>1, <2>4 DEF EndBefore
<1>7. \A i \in 1..Len(down') : down'[i].event = "error" => EndBefore(i)' \/ ~Joined'
  <2> SUFFICES ASSUME NEW i \in 1..Len(down'), down'[i].event = "error", Joined
               PROVE  EndBefore(i)'
    BY <1>2
  <2>1. i \in 1..(Len(down) + 1)
    BY <1>1
  <2>2. EndBefore(i)
    BY <1>1, <1>4, <1>6 DEF Stream
  <2> QED
    BY <1>1, <2>1, <2>2
<1> QED
  BY <1>1, <1>2, <1>3, <1>5, <1>6, <1>7 DEF Stream

\* The server's list after one more move, as far as the client is concerned.
LEMMA ViewKept ==
  ASSUME Shape, Stream, NEW mv \in Move, history' = Append(history, mv), UNCHANGED table
  PROVE  table'.moves = Prefix(history', Len(table'.moves)) /\ Len(table'.moves) <= Len(history')
<1>1. Len(table.moves) \in 0..Len(history) /\ Len(history) \in Nat
  BY LenProperties DEF Shape, Position, Stream
<1> QED
  BY <1>1, PrefixOfAppend DEF Shape, Stream

\* A move nobody is told of.
LEMMA StreamMovesUnseen ==
  ASSUME Shape, Stream, NEW mv \in Move, ~GameOver(history), history' = Append(history, mv),
         conn # "up", UNCHANGED <<conn, table, down>>
  PROVE  Stream'
<1>1. Continues(down, Len(table.moves), history', FALSE)
  BY ContinuesMove DEF Shape, Stream
<1>2. Continues(down', Len(table'.moves), history', conn' = "up" /\ Joined')
  BY <1>1 DEF Continues, Reads
<1>3. Starts' = Starts /\ Joined' = Joined /\ \A i : EndBefore(i)' = EndBefore(i)
  BY DEF Starts, Joined, EndBefore
<1> QED
  BY <1>2, <1>3, ViewKept DEF Stream

\* A move the client is told of.
LEMMA StreamMoves ==
  ASSUME Shape, Stream, NoErrorApplies, NEW mv \in Move, ~GameOver(history),
         history' = Append(history, mv), conn = "up", UNCHANGED <<conn, table>>,
         down' = Append(down, PlayLine(mv)), ~GameOver(history')
  PROVE  Stream'
<1>1. /\ Len(down') = Len(down) + 1 /\ Len(down) \in Nat
      /\ down'[Len(down) + 1] = PlayLine(mv)
      /\ \A i \in 1..Len(down) : down'[i] = down[i]
      /\ Starts' = Starts
      /\ \A i \in 1..(Len(down) + 1) : EndBefore(i) => EndBefore(i)'
  BY OneMoreLine DEF Line, PlayLine
<1>2. table.phase \in {"away", "live"} /\ Joined
  <2>1. table.phase \in {"away", "live"}
    BY DEF Shape, NoErrorApplies, Stream
  <2> QED
    BY <2>1 DEF Stream, Joined
<1>3. Joined'
  BY <1>1, <1>2 DEF Joined
<1>4. Continues(down, Len(table.moves), history, TRUE)
  BY <1>2 DEF Stream, Continues, Reads
<1>5. Continues(down', Len(table.moves), history', TRUE)
  BY <1>4, ContinuesMove DEF Shape
<1>6. Continues(down', Len(table'.moves), history', conn' = "up" /\ Joined')
  BY <1>5 DEF Continues, Reads
<1>7. \A i \in 1..Len(down') : down'[i].event = "error" => EndBefore(i)' \/ ~Joined'
  <2> SUFFICES ASSUME NEW i \in 1..Len(down'), down'[i].event = "error"
               PROVE  EndBefore(i)'
    OBVIOUS
  <2>1. i \in 1..Len(down) /\ i \in 1..(Len(down) + 1)
    BY <1>1 DEF PlayLine
  <2> QED
    BY <1>1, <1>2, <2>1 DEF Stream
<1> QED
  BY <1>1, <1>2, <1>3, <1>6, <1>7, ViewKept DEF Stream

\* The last move of a game and its end.
LEMMA StreamEnds ==
  ASSUME Shape, Stream, NoErrorApplies, NEW mv \in Move, ~GameOver(history),
         history' = Append(history, mv), conn = "up", UNCHANGED <<conn, table>>,
         down' = Append(Append(down, PlayLine(mv)), EndLine), GameOver(history')
  PROVE  Stream'
<1> DEFINE d == Append(down, PlayLine(mv))
<1>a. /\ d \in Seq(Line) /\ Len(d) = Len(down) + 1 /\ Len(down) \in Nat
      /\ d[Len(down) + 1] = PlayLine(mv)
      /\ \A i \in 1..Len(down) : d[i] = down[i]
  BY LenProperties, AppendProperties DEF Shape, Line, PlayLine
<1>b. down' = Append(d, EndLine)
  OBVIOUS
<1>c. Continues(down, Len(table.moves), history, conn = "up" /\ Joined)
  BY DEF Stream
<1>d. Continues(down, Len(table.moves), history, TRUE) => Continues(d, Len(table.moves), history', TRUE)
  BY ContinuesMove DEF Shape
<1> HIDE DEF d
<1>e. /\ down' \in Seq(Line) /\ Len(down') = Len(down) + 2
      /\ down'[Len(down) + 2] = EndLine /\ down'[Len(down) + 1] = PlayLine(mv)
      /\ \A i \in 1..Len(down) : down'[i] = down[i]
  <2>1. EndLine \in Line
    BY DEF Line
  <2>2. /\ down' \in Seq(Line) /\ Len(down') = Len(d) + 1 /\ down'[Len(d) + 1] = EndLine
        /\ \A i \in 1..Len(d) : down'[i] = d[i]
    BY <1>a, <1>b, <2>1, AppendProperties
  <2>3. Len(d) + 1 = Len(down) + 2 /\ Len(down) + 1 \in 1..Len(d)
        /\ \A i \in 1..Len(down) : i \in 1..Len(d)
    BY <1>a
  <2> QED
    BY <1>a, <2>2, <2>3
<1>1. Starts' = Starts
  <2>1. down' # <<>>
    BY <1>e, <1>a, EmptySeq
  <2>2. CASE down = <<>>
    <3>1. Len(down) = 0
      BY <2>2, EmptySeq
    <3>2. down'[1] = PlayLine(mv)
      BY <1>e, <3>1
    <3> QED
      BY <2>2, <3>2 DEF Starts, PlayLine
  <2>3. CASE down # <<>>
    <3>1. 1 \in 1..Len(down)
      BY <1>a, <2>3, EmptySeq DEF Shape
    <3> QED
      BY <1>e, <2>1, <2>3, <3>1 DEF Starts
  <2> QED
    BY <2>2, <2>3
<1>2. table.phase \in {"away", "live"} /\ Joined
  <2>1. table.phase \in {"away", "live"}
    BY DEF Shape, NoErrorApplies, Stream
  <2> QED
    BY <2>1 DEF Stream, Joined
<1>3. Joined'
  BY <1>1, <1>2 DEF Joined
<1>4. Continues(d, Len(table.moves), history', TRUE)
  <2>1. Continues(down, Len(table.moves), history, TRUE)
    BY <1>2, <1>c DEF Continues, Reads
  <2> QED
    BY <1>d, <2>1
<1>5. Continues(down', Len(table.moves), history', TRUE)
  <2>1. history' \in Position
    BY PrefixOfAppend DEF Shape
  <2> QED
    BY <1>a, <1>b, <1>4, <2>1, ContinuesEnd
<1>6. Continues(down', Len(table'.moves), history', conn' = "up" /\ Joined')
  BY <1>5 DEF Continues, Reads
<1>7. \A i \in 1..Len(down') : down'[i].event = "error" => EndBefore(i)' \/ ~Joined'
  <2> SUFFICES ASSUME NEW i \in 1..Len(down'), down'[i].event = "error"
               PROVE  EndBefore(i)'
    OBVIOUS
  <2>1. i # Len(down) + 1 /\ i # Len(down) + 2
    BY <1>e DEF PlayLine, EndLine
  <2>2. i \in 1..Len(down)
    BY <1>a, <1>e, <2>1
  <2>3. EndBefore(i)
    BY <1>2, <1>e, <2>2 DEF Stream
  <2>4. PICK j \in 1..(i - 1) : down[j].event = "end"
    BY <2>3 DEF EndBefore
  <2>5. j \in 1..Len(down)
    BY <1>a, <2>2, <2>4
  <2> QED
    BY <1>e, <2>4, <2>5 DEF EndBefore
<1>8. EndBefore(Len(down) + 1)'
  <2>1. Len(down) + 2 \in 1..(Len(down') + 1 - 1)
    BY <1>a, <1>e
  <2> QED
    BY <1>e, <2>1 DEF EndBefore, EndLine
<1> QED
  BY <1>1, <1>2, <1>3, <1>6, <1>7, <1>8, ViewKept DEF Stream

LEMMA StreamExtends ==
  ASSUME Shape, Stream, NoErrorApplies, NEW kind \in Kinds, NEW form \in Forms \cup Kinds,
         Extend(kind, form), UNCHANGED <<conn, table>>
  PROVE  Stream'
<1> DEFINE mv == Moved(kind, form)
<1>1. /\ mv \in Move /\ mv.kind = kind /\ ~GameOver(history) /\ history' = Append(history, mv)
  BY MovedType DEF Extend
<1>2. /\ conn = "up" /\ kind = "timeout" => down' = down \o (<<PlayLine(mv)>> \o <<EndLine>>)
      /\ conn = "up" /\ kind # "timeout" => down' = down \o (<<PlayLine(mv)>> \o <<>>)
      /\ conn # "up" => down' = down
  BY DEF Extend, Tell, NoErrorApplies
<1>3. GameOver(history') <=> kind = "timeout"
  <2>1. /\ history' \in Position /\ Len(history') = Len(history) + 1 /\ Len(history) \in Nat
        /\ history'[Len(history) + 1] = mv
    BY <1>1, PrefixOfAppend DEF Shape
  <2>2. history' # <<>>
    BY <2>1, EmptySeq
  <2> QED
    BY <1>1, <2>1, <2>2 DEF GameOver
<1>4. PlayLine(mv) \in Line /\ EndLine \in Line /\ down \in Seq(Line)
  BY <1>1 DEF Line, PlayLine, Shape
<1> HIDE DEF mv
<1>5. /\ down \o (<<PlayLine(mv)>> \o <<>>) = Append(down, PlayLine(mv))
      /\ down \o (<<PlayLine(mv)>> \o <<EndLine>>) = Append(Append(down, PlayLine(mv)), EndLine)
  <2>1. <<PlayLine(mv)>> \in Seq(Line) /\ <<EndLine>> \in Seq(Line)
    BY <1>4
  <2>2. <<PlayLine(mv)>> \o <<>> = <<PlayLine(mv)>>
    BY <2>1, ConcatEmptySeq
  <2>3. down \o <<PlayLine(mv)>> = Append(down, PlayLine(mv))
    BY <1>4, AppendIsConcat
  <2>4. Append(down, PlayLine(mv)) \in Seq(Line)
    BY <1>4, AppendProperties
  <2>5. (down \o <<PlayLine(mv)>>) \o <<EndLine>> = Append(Append(down, PlayLine(mv)), EndLine)
    BY <1>4, <2>3, <2>4, AppendIsConcat
  <2>6. down \o (<<PlayLine(mv)>> \o <<EndLine>>) = (down \o <<PlayLine(mv)>>) \o <<EndLine>>
    BY <1>4, <2>1, ConcatAssociative
  <2> QED
    BY <2>2, <2>3, <2>5, <2>6
<1>6. CASE conn # "up"
  BY <1>1, <1>2, <1>6, StreamMovesUnseen
<1>7. CASE conn = "up" /\ kind = "timeout"
  BY <1>1, <1>2, <1>3, <1>5, <1>7, StreamEnds
<1>8. CASE conn = "up" /\ kind # "timeout"
  BY <1>1, <1>2, <1>3, <1>5, <1>8, StreamMoves
<1> QED
  BY <1>6, <1>7, <1>8

LEMMA StreamInductive ==
  ASSUME Shape, OneThread, NoErrorApplies, Turns, Stream, [Next]_vars
  PROVE  Stream'
<1> USE DEF journal, server, pool
<1>1. ASSUME UNCHANGED <<history, down, conn, table>>
      PROVE  Stream'
  <2>1. Starts' = Starts /\ Joined' = Joined /\ \A i : EndBefore(i)' = EndBefore(i)
    BY <1>1 DEF Starts, Joined, EndBefore
  <2> QED
    BY <1>1, <2>1 DEF Stream
<1>2. CASE ApplyStart \/ ApplyPlay \/ ApplyEnd \/ ApplyError
  BY <1>2, StreamReceives
<1>3. CASE AbortPending \/ RecordFailure
  BY <1>3 DEF AbortPending, RecordFailure, NoErrorApplies
<1>4. CASE StopTable
  <2>1. UNCHANGED <<history, down, conn>> /\ table' = table
    BY <1>4 DEF StopTable, NoErrorApplies, in_progress
  <2> QED
    BY <1>1, <2>1
<1>5. CASE ReaderAsks \/ ReaderSubmits \/ ReaderDecides
  BY <1>1, <1>5 DEF ReaderAsks, ReaderSubmits, ReaderDecides
<1>6. CASE Sender
  BY <1>1, <1>6 DEF Sender, Begin, SendLine, SendRaises, MarkReads, MarkAppends
<1>7. CASE RaiseError \/ Close \/ Die
  BY <1>7, StreamForgotten DEF RaiseError, Close, Die
<1>8. ASSUME NEW e \in DOMAIN lines, Deliver(e)
      PROVE  Stream'
  <2>1. UNCHANGED <<conn, table>> /\ lines[e].travelling > 0
    BY <1>8 DEF Deliver
  <2>2. ASSUME NEW form \in Forms, Extend("act", form)
        PROVE  Stream'
    <3>1. "act" \in Kinds /\ form \in Forms \cup Kinds
      BY DEF Kinds
    <3> QED
      BY <2>1, <2>2, <3>1, StreamExtends
  <2>3. CASE /\ TurnAt(history) \notin MyTurns \/ GameOver(history)
             /\ Tell(<<ErrorLine>>) /\ UNCHANGED history
    <3>1. GameOver(history)
      <4>1. e \in DOMAIN effects
        BY DEF Shape
      <4> QED
        BY <2>1, <2>3, <4>1 DEF Turns
    <3>2. down' = IF conn = "up" THEN down \o <<ErrorLine>> ELSE down
      BY <2>3 DEF Tell, NoErrorApplies
    <3>3. down \o <<ErrorLine>> = Append(down, ErrorLine)
      <4>1. ErrorLine \in Line /\ down \in Seq(Line)
        BY DEF Line, Shape
      <4> QED
        BY <4>1, AppendIsConcat
    <3> QED
      BY <1>1, <2>1, <2>3, <3>1, <3>2, <3>3, StreamError
  <2> QED
    BY <1>8, <2>2, <2>3 DEF Deliver
<1>9. ASSUME NEW e \in DOMAIN lines, Lose(e)
      PROVE  Stream'
  BY <1>1, <1>9 DEF Lose
<1>10. CASE OpponentMoves
  <2>1. PICK form \in Forms : Extend("act", form)
    BY <1>10 DEF OpponentMoves
  <2>2. "act" \in Kinds /\ form \in Forms \cup Kinds /\ UNCHANGED <<conn, table>>
    BY <1>10 DEF Kinds, OpponentMoves
  <2> QED
    BY <2>1, <2>2, StreamExtends
<1>11. ASSUME NEW kind \in Kinds \ {"act"}, Interleave(kind)
       PROVE  Stream'
  BY <1>11, StreamExtends DEF Interleave
<1>12. CASE ServerError
  BY <1>12 DEF ServerError, NoErrorApplies
<1>13. ASSUME NEW f \in Futures, Future(f) \/ DecideRaises(f)
       PROVE  Stream'
  BY <1>1, <1>13 DEF Future, DecideRaises, Run, Decide, CallbackRaised, Callback, WorkerAsks,
     WorkerSubmits
<1>14. CASE Break
  BY <1>14, StreamBreaks
<1>15. CASE Reconnect \/ Restart
  BY <1>15, StreamReconnects
<1>16. CASE UNCHANGED vars
  BY <1>1, <1>16 DEF vars
<1> QED
  BY <1>2, <1>3, <1>4, <1>5, <1>6, <1>7, <1>8, <1>9, <1>10, <1>11, <1>12, <1>13, <1>14, <1>15, <1>16
     DEF Next, Faults, Network, Reader

----------------------------------------------------------------------------
(* No wakeup is lost.                                                      *)

SomeFuture == \E f \in Futures : futures[f].st # "free"

\* Somebody submits the decision, or it is on its way already.
LEMMA SubmitWakes ==
  ASSUME Shape, NEW after \in [Futures -> FutureState], Submit(after),
         Unfinished(slot) => after[slot].st # "free"
  PROVE  SomeFuture'
<1>1. CASE Unfinished(slot)
  <2>1. futures' = after /\ slot \in Futures
    BY <1>1 DEF Submit, Unfinished, Shape
  <2> QED
    BY <1>1, <2>1 DEF SomeFuture
<1>2. CASE ~Unfinished(slot)
  <2>1. PICK f \in Futures : futures' = [after EXCEPT ![f] = [st |-> "queued", snap |-> table.moves]]
    BY <1>2 DEF Submit
  <2>2. futures'[f].st = "queued"
    BY <2>1
  <2> QED
    BY <2>2 DEF SomeFuture
<1> QED
  BY <1>1, <1>2

\* An effect being sent is pending before and after each of its steps.
LEMMA SenderWakes ==
  ASSUME Shape, Fresh, NoErrorApplies, Sending, J!OutcomeInv, Sender
  PROVE  (pending # {})'
<1> USE DEF journal, server, pool
<1>a. /\ effects \in [DOMAIN effects -> EffectStates] /\ sender # Quiet
  BY DEF Shape, EffectStates, Sender, Begin, SendLine, SendRaises, MarkReads, MarkAppends, Quiet
<1>b. SenderEffect.game = Game /\ SenderEffect.pos = table.moves
  BY <1>a DEF SenderEffect, Fresh
<1>c. SenderEffect \in DOMAIN effects /\ effects[SenderEffect].status \notin Terminal
        => pending # {}
  BY <1>b DEF pending, Pending
<1>1. CASE Begin
  <2>1. CASE pending = {} /\ SenderEffect \notin DOMAIN effects
    <3>1. effects' = Put(effects, SenderEffect, [status |-> "INTENT", attempts |-> 0])
      BY <1>1, <2>1 DEF Begin, NoErrorApplies
    <3>2. SenderEffect \in DOMAIN effects' /\ effects'[SenderEffect].status = "INTENT"
      BY <3>1 DEF Put
    <3>3. SenderEffect \in Pending(effects', Game)
      BY <1>b, <3>2 DEF Pending, Terminal
    <3> QED
      BY <3>3 DEF pending
  <2>2. CASE ~(pending = {} /\ SenderEffect \notin DOMAIN effects)
    <3>1. effects' = effects
      BY <1>1, <2>2 DEF Begin
    <3>2. CASE SenderEffect \in DOMAIN effects
      <4>1. effects[SenderEffect].status \notin {"CONFIRMED", "ABORTED_STALE", "ABORTED_ERROR"}
        BY <1>b, <3>2, JournalFacts DEF Sending
      <4> QED
        BY <1>c, <3>1, <3>2, <4>1 DEF Terminal, pending
    <3> QED
      BY <2>2, <3>1, <3>2 DEF pending
  <2> QED
    BY <2>1, <2>2
<1>2. CASE ~Begin
  <2>1. sender.pc \in Sends
    BY <1>2 DEF Sender, SendLine, SendRaises, MarkReads, MarkAppends, Sends
  <2>2. SenderEffect \in DOMAIN effects /\ effects[SenderEffect].status = "INTENT"
    BY <2>1 DEF Sends, Fresh, Sending
  <2>3. CASE UNCHANGED effects
    BY <1>c, <2>2, <2>3 DEF Terminal, pending
  <2>4. CASE MarkAppends
    <3>1. effects' = [effects EXCEPT ![SenderEffect].status = "SEND_RETURNED",
                                      ![SenderEffect].attempts = @ + 1]
      BY <2>2, <2>4 DEF MarkAppends, Terminal
    <3>2. SenderEffect \in DOMAIN effects' /\ effects'[SenderEffect].status = "SEND_RETURNED"
      BY <1>a, <2>2, <3>1 DEF EffectStates
    <3>3. SenderEffect \in Pending(effects', Game)
      BY <1>b, <3>2 DEF Pending, Terminal
    <3> QED
      BY <3>3 DEF pending
  <2> QED
    BY <1>2, <2>3, <2>4 DEF Sender, SendLine, SendRaises, MarkReads
<1> QED
  BY <1>1, <1>2

LEMMA AwakeInductive ==
  ASSUME Shape, Fresh, Decided, OneThread, NoErrorApplies, Sending, Stream, Awake,
         J!OutcomeInv, [Next]_vars
  PROVE  Awake'
<1> USE DEF journal, server, pool
<1>0. futures \in [Futures -> FutureState] /\ Free \in FutureState /\ Free.st = "free"
  BY DEF Shape, FutureState, Free
<1>1. ASSUME UNCHANGED <<table, effects, reader, futures, errors, sender>>
      PROVE  Awake'
  BY <1>1 DEF Awake, pending
<1>2. ASSUME table'.phase # "live" PROVE Awake'
  BY <1>2 DEF Awake
<1>3. ASSUME SomeFuture' PROVE Awake'
  BY <1>3 DEF Awake, SomeFuture
<1>4. ASSUME UNCHANGED <<table, effects>>, table.phase = "live" => pending # {}
      PROVE  Awake'
  BY <1>4 DEF Awake, pending
<1>5. ASSUME reader'.pc \in {"ask", "submit"} PROVE Awake'
  BY <1>5 DEF Awake
<1>6. CASE Reader
  <2>1. CASE ApplyStart \/ ApplyPlay
    BY <1>5, <2>1 DEF ApplyStart, ApplyPlay, Applied, At
  <2>2. CASE ApplyEnd
    <3>1. table'.phase # "live"
      BY <2>2 DEF ApplyEnd, in_progress, Shape
    <3> QED
      BY <1>2, <3>1
  <2>3. CASE ApplyError
    BY <1>2, <2>3, ErrorMeetsNoGame DEF ApplyError
  <2>4. CASE StopTable
    BY <1>2, <2>4 DEF StopTable, NoErrorApplies, in_progress
  <2>5. CASE AbortPending \/ RecordFailure
    BY <2>5 DEF AbortPending, RecordFailure, NoErrorApplies
  <2>6. CASE ReaderAsks
    <3>1. CASE WantsMove
      BY <1>5, <2>6, <3>1 DEF ReaderAsks, At
    <3>2. CASE ~WantsMove
      BY <1>4, <2>6, <3>2 DEF ReaderAsks, WantsMove, in_progress
    <3> QED
      BY <3>1, <3>2
  <2>7. CASE ReaderSubmits
    <3>1. Submit(futures)
      BY <2>7 DEF ReaderSubmits
    <3>2. SomeFuture'
      BY <1>0, <3>1, SubmitWakes DEF Unfinished
    <3> QED
      BY <1>3, <3>2
  <2>8. CASE ReaderDecides
    <3>1. UNCHANGED <<table, effects>>
      BY <2>8 DEF ReaderDecides
    <3>2. CASE WantsMove /\ OurTurn(table.moves)
      <4>1. sender'.pc = "begin"
        BY <2>8, <3>2 DEF ReaderDecides
      <4> QED
        BY <4>1 DEF Awake, Quiet
    <3>3. CASE ~WantsMove
      BY <1>4, <3>1, <3>3 DEF WantsMove, in_progress
    <3>4. CASE ~OurTurn(table.moves)
      BY <3>1, <3>4 DEF Awake
    <3> QED
      BY <3>2, <3>3, <3>4
  <2>9. CASE RaiseError
    <3>1. table'.phase # "live"
      BY <2>9 DEF RaiseError, Forget, Away, Shape
    <3> QED
      BY <1>2, <3>1
  <2> QED
    BY <1>6, <2>1, <2>2, <2>3, <2>4, <2>5, <2>6, <2>7, <2>8, <2>9 DEF Reader
<1>7. CASE Sender
  BY <1>7, SenderWakes DEF Awake
<1>8. CASE Network
  BY <1>1, <1>8 DEF Network, Deliver, Lose, OpponentMoves, Interleave, ServerError
<1>9. ASSUME NEW f \in Futures, Future(f) \/ DecideRaises(f)
      PROVE  Awake'
  <2>1. CASE Run(f) \/ Decide(f) \/ DecideRaises(f)
    <3>1. futures'[f].st # "free"
      <4>1. CASE Run(f)
        <5>1. futures' = [futures EXCEPT ![f].st = "running"] /\ futures[f].st = "queued"
          BY <4>1 DEF Run
        <5>2. futures[f] \in [st : {"queued", "running"}, snap : Position]
          BY <1>0, <5>1 DEF FutureState, Free
        <5> QED
          BY <1>0, <5>1, <5>2
      <4>2. CASE Decide(f) \/ DecideRaises(f)
        BY <1>0, <4>2 DEF Decide, DecideRaises
      <4> QED
        BY <2>1, <4>1, <4>2
    <3> QED
      BY <1>3, <3>1 DEF SomeFuture
  <2>2. CASE CallbackRaised(f)
    BY <2>2 DEF CallbackRaised, Awake
  <2>3. CASE WorkerAsks(f)
    <3>1. CASE WantsMove
      <4>1. futures'[f].st = "submit"
        BY <1>0, <2>3, <3>1 DEF WorkerAsks, NoErrorApplies
      <4> QED
        BY <1>3, <4>1 DEF SomeFuture
    <3>2. CASE ~WantsMove
      BY <1>4, <2>3, <3>2 DEF WorkerAsks, WantsMove, in_progress
    <3> QED
      BY <3>1, <3>2
  <2>4. CASE WorkerSubmits(f)
    <3>1. Submit([futures EXCEPT ![f] = Free]) /\ futures[f].st = "submit"
      BY <2>4 DEF WorkerSubmits
    <3>2. [futures EXCEPT ![f] = Free] \in [Futures -> FutureState]
      BY <1>0
    <3>3. Unfinished(slot) => [futures EXCEPT ![f] = Free][slot].st # "free"
      BY <1>0, <3>1 DEF Unfinished, Shape
    <3>4. SomeFuture'
      BY <3>1, <3>2, <3>3, SubmitWakes
    <3> QED
      BY <1>3, <3>4
  <2>5. CASE Callback(f)
    <3>1. UNCHANGED <<table, effects>> /\ futures[f].st = "done"
      BY <2>5 DEF Callback
    <3>2. CASE in_progress /\ Stale(f)
      <4>1. futures'[f].st = "ask"
        BY <1>0, <2>5, <3>2 DEF Callback
      <4> QED
        BY <1>3, <4>1 DEF SomeFuture
    <3>3. CASE ~in_progress
      BY <1>2, <3>1, <3>3 DEF in_progress
    <3>4. CASE in_progress /\ ~Stale(f) /\ OurTurn(table.moves)
      <4>1. futures[f].action # NONE
        BY <3>1, <3>4 DEF Decided, Stale
      <4>2. CASE pending = {}
        <5>1. sender'.pc = "begin"
          BY <2>5, <3>4, <4>1, <4>2 DEF Callback, NoErrorApplies
        <5> QED
          BY <5>1 DEF Awake, Quiet
      <4>3. CASE pending # {}
        BY <1>4, <3>1, <4>3
      <4> QED
        BY <4>2, <4>3
    <3>5. CASE ~OurTurn(table.moves)
      BY <3>1, <3>5 DEF Awake
    <3> QED
      BY <3>2, <3>3, <3>4, <3>5
  <2> QED
    BY <1>9, <2>1, <2>2, <2>3, <2>4, <2>5 DEF Future
<1>10. CASE Die \/ Close
  <2>1. table'.phase # "live"
    BY <1>10 DEF Die, Close, Forget, Away, Shape
  <2> QED
    BY <1>2, <2>1
<1>11. CASE Break \/ Reconnect \/ Restart \/ UNCHANGED vars
  BY <1>1, <1>11 DEF Break, Reconnect, Restart, Reopen, vars
<1> QED
  BY <1>6, <1>7, <1>8, <1>9, <1>10, <1>11 DEF Next, Faults


----------------------------------------------------------------------------
(* The invariant of a game nothing goes wrong in.                          *)

GameInv == CalmInv /\ J!OutcomeInv

LEMMA InitJournal == Init => J!Init
BY DEF Init, J!Init, J!Idle, At, Quiet

LEMMA InitCalm ==
  ASSUME Unprovoked, Init
  PROVE  CalmInv
<1>1. /\ setup.errors = 0 /\ readable /\ reader.pc = "idle" /\ errors = FALSE
      /\ table = [phase |-> "away", moves |-> <<>>] /\ conn = "up"
      /\ DOMAIN effects = {} /\ DOMAIN lines = {}
      /\ history = <<>> /\ down = <<StartLine(<<>>)>> /\ sender = Quiet
  BY DEF Init, Unprovoked, At
<1>2. NoErrorApplies
  BY <1>1 DEF NoErrorApplies
<1>3. Sending
  BY <1>1 DEF Sending, Quiet
<1>a. <<>> \in Position /\ Len(<<>>) = 0 /\ Prefix(<<>>, 0) = <<>>
  BY WholePrefix, EmptySeq DEF Position
<1>4. Turns
  <2>1. Answered(<<>>)
    BY <1>a DEF Answered
  <2> QED
    BY <1>1, <2>1 DEF Turns
<1>5. Stream
  <2>1. /\ down # <<>> /\ Len(down) = 1 /\ down[1].event = "start"
    BY <1>1 DEF StartLine
  <2>2. Starts /\ Joined
    BY <2>1 DEF Starts, Joined
  <2>3. Continues(down, 0, <<>>, TRUE)
    <3>1. <<>> \in Position /\ 0 \in 0..Len(<<>>)
      BY <1>a
    <3>2. Continues(<<StartLine(<<>>)>>, 0, <<>>, TRUE)
      BY ONLY <3>1, ContinuesStart
    <3> QED
      BY <1>1, <3>2
  <2>4. Continues(down, Len(table.moves), history, conn = "up" /\ Joined)
    BY <1>1, <1>a, <2>2, <2>3 DEF Continues, Reads
  <2>5. ~GameOver(history)
    BY <1>1 DEF GameOver
  <2>6. \A i \in 1..Len(down) : down[i].event = "start"
    BY <2>1
  <2> QED
    BY <1>1, <1>a, <2>2, <2>4, <2>5, <2>6 DEF Stream
<1>6. Awake
  BY <1>1 DEF Awake
<1> QED
  BY <1>2, <1>3, <1>4, <1>5, <1>6 DEF CalmInv

LEMMA InitOutcome == Init => J!OutcomeInv
BY InitJournal, J!OutcomeInvInit, TableAssumption, RendersAssumption, TurnsAssumption
   DEF J!BoundsAssumption, J!RendersAssumption, J!TurnsAssumption

\* One step of the journal keeps what is proved about it.
LEMMA OutcomeKept ==
  ASSUME SteppedOver, J!OutcomeInv, [J!ClientNext]_J!vars
  PROVE  J!OutcomeInv'
BY J!OutcomeInvInductive, TableAssumption, RendersAssumption, TurnsAssumption
   DEF J!BoundsAssumption, J!RendersAssumption, J!TurnsAssumption, SteppedOver, J!SteppedOver

LEMMA GameInductive ==
  ASSUME SteppedOver, ThreadsInv, ThreadsInv', GameInv, [Next]_vars
  PROVE  GameInv' /\ [J!ClientNext]_J!vars
<1>a. Shape /\ Fresh /\ Decided /\ OneThread /\ Shape'
  BY DEF ThreadsInv
<1>b. NoErrorApplies /\ Sending /\ Turns /\ Stream /\ Awake /\ J!OutcomeInv
  BY DEF GameInv, CalmInv
<1>1. [J!ClientNext]_J!vars
  BY <1>a, <1>b, StepImplements
<1>2. J!OutcomeInv'
  BY <1>b, <1>1, OutcomeKept
<1>3. NoErrorApplies'
  BY <1>a, <1>b, NoErrorInductive
<1>4. Sending'
  BY <1>a, <1>b, SendingInductive
<1>5. Turns'
  BY <1>a, <1>b, <1>2, TurnsInductive
<1>6. Stream'
  BY <1>a, <1>b, StreamInductive
<1>7. Awake'
  BY <1>a, <1>b, AwakeInductive
<1> QED
  BY <1>1, <1>2, <1>3, <1>4, <1>5, <1>6, <1>7 DEF GameInv, CalmInv

LEMMA GameInvariant ==
  ASSUME SteppedOver, Unprovoked
  PROVE  Spec => []GameInv
<1>1. Init => GameInv
  BY InitCalm, InitOutcome DEF GameInv
<1>2. ThreadsInv /\ ThreadsInv' /\ GameInv /\ [Next]_vars => GameInv'
  BY GameInductive
<1> QED
  BY <1>1, <1>2, ThreadsInvariant, PTL DEF Spec

----------------------------------------------------------------------------
(* The refinement.  Journal and J are the same module; a step of one is a  *)
(* step of the other, but for table errors, which do not happen here.      *)

LEMMA SameJournal ==
  ASSUME NoErrorApplies', J!ClientNext
  PROVE  Journal!ClientNext
<1> USE DEF Journal!Extend, J!Extend, Journal!Transmit, J!Transmit, Journal!Idle, J!Idle,
        Journal!View, J!View, Journal!TurnAt, J!TurnAt, Journal!GameOver, J!GameOver,
        Journal!HasLeft, J!HasLeft, Journal!Prefix, J!Prefix, Journal!Put, J!Put,
        Journal!Pending, J!Pending, Journal!SetStatus, J!SetStatus,
        Journal!reconcile_table, J!reconcile_table, Journal!Terminal, J!Terminal,
        Journal!Verdict, J!Verdict, Journal!After, J!After,
        Journal!wire_actions_equivalent, J!wire_actions_equivalent,
        Journal!Kinds, J!Kinds
<1>1. ASSUME NEW g \in Games, NEW a \in Actions, J!Begin(g, a) PROVE Journal!ClientNext
  <2>1. Journal!Begin(g, a)
    BY <1>1 DEF Journal!Begin, J!Begin
  <2> QED
    BY <2>1 DEF Journal!ClientNext
<1>2. CASE J!SendNew
  <2>1. Journal!SendNew
    BY <1>2 DEF Journal!SendNew, J!SendNew
  <2> QED
    BY <2>1 DEF Journal!ClientNext
<1>3. CASE J!SendFails
  <2>1. Journal!SendFails
    BY <1>3 DEF Journal!SendFails, J!SendFails
  <2> QED
    BY <2>1 DEF Journal!ClientNext
<1>4. CASE J!mark_send_returned
  <2>1. Journal!mark_send_returned
    BY <1>4 DEF Journal!mark_send_returned, J!mark_send_returned
  <2> QED
    BY <2>1 DEF Journal!ClientNext
<1>5. ASSUME NEW g \in Games, J!Play(g) PROVE Journal!ClientNext
  <2>1. Journal!Play(g)
    BY <1>5 DEF Journal!Play, J!Play
  <2> QED
    BY <2>1 DEF Journal!ClientNext
<1>6. ASSUME NEW g \in Games, J!End(g) PROVE Journal!ClientNext
  <2>1. Journal!End(g)
    BY <1>6 DEF Journal!End, J!End
  <2> QED
    BY <2>1 DEF Journal!ClientNext
<1>7. ASSUME NEW g \in Games, J!TableError(g) \/ J!FailGame(g) PROVE FALSE
  <2>1. [h \in Games |-> IF reader'.pc = "abort" THEN "live" ELSE table'.phase][g]
          \in {"stopped", "failed"}
    BY <1>7 DEF J!TableError, J!FailGame
  <2> QED
    BY <2>1 DEF NoErrorApplies
<1>8. ASSUME NEW g \in Games, NEW n \in 0..Len([h \in Games |-> history][g]), J!Start(g, n)
      PROVE  Journal!ClientNext
  <2>1. Journal!Start(g, n)
    BY <1>8 DEF Journal!Start, J!Start
  <2> QED
    BY <1>8, <2>1 DEF Journal!ClientNext
<1>9. CASE J!Restart
  <2>1. Journal!Restart
    BY <1>9 DEF Journal!Restart, J!Restart
  <2> QED
    BY <2>1 DEF Journal!ClientNext
<1>10. ASSUME NEW e \in DOMAIN lines, NEW form \in Forms, J!Deliver(e, form)
       PROVE  Journal!ClientNext
  <2>1. Journal!Deliver(e, form)
    BY <1>10 DEF Journal!Deliver, J!Deliver
  <2> QED
    BY <2>1 DEF Journal!ClientNext, Journal!Server
<1>11. ASSUME NEW e \in DOMAIN lines, J!Lose(e) PROVE Journal!ClientNext
  <2>1. Journal!Lose(e)
    BY <1>11 DEF Journal!Lose, J!Lose
  <2> QED
    BY <2>1 DEF Journal!ClientNext, Journal!Server
<1>12. ASSUME NEW g \in Games, NEW form \in Forms, J!OpponentMoves(g, form)
       PROVE  Journal!ClientNext
  <2>1. Journal!OpponentMoves(g, form)
    BY <1>12 DEF Journal!OpponentMoves, J!OpponentMoves
  <2> QED
    BY <2>1 DEF Journal!ClientNext, Journal!Server
<1>13. ASSUME NEW g \in Games, NEW kind \in J!Kinds \ {"act"}, J!Interleave(g, kind)
       PROVE  Journal!ClientNext
  <2>1. Journal!Interleave(g, kind) /\ kind \in Journal!Kinds \ {"act"}
    BY <1>13 DEF Journal!Interleave, J!Interleave
  <2> QED
    BY <2>1 DEF Journal!ClientNext, Journal!Server
<1> QED
  BY <1>1, <1>2, <1>3, <1>4, <1>5, <1>6, <1>7, <1>8, <1>9, <1>10, <1>11, <1>12, <1>13
     DEF J!ClientNext, J!Server

\* The executor's threads, their callbacks and the reader use the journal one
\* call at a time, whatever is lost or restarted (client.py: the effect lock).
THEOREM ThreadsImplementJournal ==
  ASSUME SteppedOver, Unprovoked
  PROVE  Spec => UsesJournalSerially
<1>1. Init => Journal!Init
  BY DEF Init, Journal!Init, Journal!Idle, At, Quiet
<1>2. ThreadsInv /\ ThreadsInv' /\ GameInv /\ GameInv' /\ [Next]_vars
        => [Journal!ClientNext]_Journal!vars
  <2> SUFFICES ASSUME ThreadsInv, ThreadsInv', GameInv, GameInv', [Next]_vars
               PROVE  [Journal!ClientNext]_Journal!vars
    OBVIOUS
  <2>1. [J!ClientNext]_J!vars
    BY GameInductive
  <2>2. J!vars = Journal!vars /\ J!vars' = Journal!vars'
    BY DEF J!vars, Journal!vars
  <2>3. J!ClientNext => Journal!ClientNext
    BY SameJournal DEF GameInv, CalmInv
  <2> QED
    BY <2>1, <2>2, <2>3
<1> QED
  BY <1>1, <1>2, ThreadsInvariant, GameInvariant, PTL DEF Spec, UsesJournalSerially, Journal!ClientSpec

\* While the server raises no table error by itself, the journal stays readable
\* and the threads' state well formed (effects.py: states()).
THEOREM CalmGameIsSound ==
  ASSUME SteppedOver, Unprovoked
  PROVE  Spec => []ThreadsAreSound
<1>1. ThreadsInv /\ GameInv => ThreadsAreSound
  BY ShapeIsTyped DEF ThreadsInv, GameInv, CalmInv, NoErrorApplies, ThreadsAreSound, JournalStaysReadable
<1> QED
  BY <1>1, ThreadsInvariant, GameInvariant, PTL

\* No wakeup is lost: an open turn of ours always has somebody to decide on it
\* (client.py: _async_decision_done and _maybe_send_move).
THEOREM TurnsAreRemembered ==
  ASSUME SteppedOver, Unprovoked
  PROVE  Spec => []NoTurnForgotten
<1>1. GameInv => NoTurnForgotten
  BY DEF GameInv, CalmInv, Awake, NoTurnForgotten, in_progress
<1> QED
  BY <1>1, GameInvariant, PTL

\* The client never provokes a table error that meets a game in progress: what
\* it sends finds its turn open, or the game over (gate_worker.py:
\* _on_table_error).
THEOREM NoErrorOfOurOwn ==
  ASSUME SteppedOver, Unprovoked
  PROVE  Spec => [](reader.pc = "error" => ~in_progress)
<1>1. GameInv => (reader.pc = "error" => ~in_progress)
  BY DEF GameInv, CalmInv, NoErrorApplies, in_progress
<1> QED
  BY <1>1, GameInvariant, PTL

\* With all its threads, restarts and lost lines, the client records only
\* outcomes the server's list bears out, and answers no turn twice
\* (effects.py: reconcile_table, has_pending_for_game).
THEOREM ThreadsOutcomes ==
  ASSUME SteppedOver, Unprovoked
  PROVE  Spec => [](J!OutcomeIsTrue /\ J!SecondLineOnlyAfterError)
<1>a. J!SteppedOver
  BY DEF SteppedOver, J!SteppedOver
<1>1. Init => J!Init
  BY InitJournal
<1>2. ThreadsInv /\ ThreadsInv' /\ GameInv /\ [Next]_vars => [J!ClientNext]_J!vars
  BY GameInductive
<1>3. J!ClientSpec => []J!OutcomeIsTrue
  BY <1>a, J!OutcomesAreTrue, TableAssumption, RendersAssumption, TurnsAssumption
     DEF J!BoundsAssumption, J!RendersAssumption, J!TurnsAssumption
<1>4. J!ClientSpec => []J!SecondLineOnlyAfterError
  BY <1>a, J!TurnsAnsweredOnce, TableAssumption, RendersAssumption, TurnsAssumption
     DEF J!BoundsAssumption, J!RendersAssumption, J!TurnsAssumption
<1> QED
  BY <1>1, <1>2, <1>3, <1>4, ThreadsInvariant, GameInvariant, PTL DEF Spec, J!ClientSpec
=====
