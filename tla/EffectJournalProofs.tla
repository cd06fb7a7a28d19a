------------------------ MODULE EffectJournalProofs ------------------------
(***************************************************************************)
(* Theorems about the effect journal, for every set of games, actions and  *)
(* turns and every bound.                                                  *)
(***************************************************************************)
EXTENDS EffectJournal, SequenceTheorems, WellFoundedInduction, TLAPS

EffectStates == [status : Status, attempts : Nat]
WireStates   == [sent : Nat, travelling : Nat, grants : Nat]

----------------------------------------------------------------------------
(* Lemmas about the operators of EffectRecords.                            *)

\* The open turn of a position is a natural number.
LEMMA TurnAtNat ==
  ASSUME NEW p \in Position
  PROVE  TurnAt(p) \in Nat
<1>1. CASE p = <<>>
  BY <1>1 DEF TurnAt
<1>2. CASE p # <<>>
  <2>1. Len(p) \in 1..Len(p)
    BY <1>2, EmptySeq DEF Position
  <2>2. p[Len(p)] \in Move
    BY <2>1, ElementOfSeq DEF Position
  <2> QED
    BY <1>2, <2>2 DEF TurnAt, Move
<1> QED
  BY <1>1, <1>2

\* A prefix of a position is a position, and keeps its moves.
LEMMA PrefixPosition ==
  ASSUME NEW p \in Position, NEW n \in 0..Len(p)
  PROVE  /\ Prefix(p, n) \in Position
         /\ Len(Prefix(p, n)) = n
         /\ \A i \in 1..n : Prefix(p, n)[i] = p[i]
<1>1. Len(p) \in Nat /\ n \in Int
  BY LenProperties DEF Position
<1>2. \A i \in 1..n : p[i] \in Move
  BY <1>1, ElementOfSeq DEF Position
<1>3. /\ SubSeq(p, 1, n) \in Seq(Move)
      /\ Len(SubSeq(p, 1, n)) = IF 1 <= n THEN n - 1 + 1 ELSE 0
      /\ \A i \in 1 .. n - 1 + 1 : SubSeq(p, 1, n)[i] = p[1 + i - 1]
  BY ONLY <1>1, <1>2, SubSeqProperties, 1 \in Int
<1> QED
  BY <1>1, <1>3 DEF Prefix, Position

\* Recording one more entry in a journal.
LEMMA PutType ==
  ASSUME NEW D, NEW V, NEW f \in [D -> V], NEW k, NEW v \in V
  PROVE  /\ Put(f, k, v) \in [D \cup {k} -> V]
         /\ DOMAIN Put(f, k, v) = D \cup {k}
         /\ Put(f, k, v)[k] = v
         /\ \A x \in D \ {k} : Put(f, k, v)[x] = f[x]
BY DEF Put

\* Settling entries keeps the journal a journal of the same effects.
LEMMA SetStatusType ==
  ASSUME NEW D, NEW j \in [D -> EffectStates], NEW E, NEW s \in Status
  PROVE  /\ SetStatus(j, E, s) \in [D -> EffectStates]
         /\ DOMAIN SetStatus(j, E, s) = D
         /\ \A e \in D : SetStatus(j, E, s)[e].status =
                            IF e \in E THEN s ELSE j[e].status
BY DEF SetStatus, EffectStates

LEMMA VerdictType ==
  ASSUME NEW p, NEW e
  PROVE  Verdict(p, e) \in {"CONFIRMED", "ABORTED_STALE", "PENDING"}
BY DEF Verdict

\* Reconciliation settles pending effects of its own game and nothing else.
LEMMA ReconcileType ==
  ASSUME NEW D, NEW j \in [D -> EffectStates], NEW g, NEW p
  PROVE  /\ reconcile_table(j, g, p) \in [D -> EffectStates]
         /\ DOMAIN reconcile_table(j, g, p) = D
         /\ \A e \in D : \/ reconcile_table(j, g, p)[e] = j[e]
                         \/ /\ e \in Pending(j, g)
                            /\ Verdict(p, e) \in {"CONFIRMED", "ABORTED_STALE"}
                            /\ reconcile_table(j, g, p)[e].status = Verdict(p, e)
<1>1. \A e : Verdict(p, e) \in {"CONFIRMED", "ABORTED_STALE", "PENDING"}
  BY VerdictType
<1> QED
  BY <1>1 DEF reconcile_table, EffectStates, Status, Terminal

----------------------------------------------------------------------------
(* Type correctness.                                                       *)

LEMMA InitTypeOK == Init => TypeOK
<1> SUFFICES ASSUME Init PROVE TypeOK
  OBVIOUS
<1>1. history \in [Games -> Position] /\ \A g \in Games : Len(history[g]) = 0
  BY EmptySeq DEF Init, Position
<1>2. effects \in [{} -> EffectStates] /\ lines \in [{} -> WireStates]
  BY DEF Init
<1> QED
  BY <1>1, <1>2 DEF Init, TypeOK, Phases, EffectStates, WireStates, Call, Idle

\* What the client sees of a game is a position.
LEMMA ViewPosition ==
  ASSUME TypeOK, NEW g \in Games
  PROVE  /\ View(g) \in Position /\ Len(View(g)) = seen[g]
         /\ \A i \in 1..seen[g] : View(g)[i] = history[g][i]
<1>1. history[g] \in Position /\ seen[g] \in 0..Len(history[g])
  BY LenProperties DEF TypeOK, Position
<1> QED
  BY <1>1, PrefixPosition DEF View

\* A move appended by the server leaves a well-typed history.
LEMMA ExtendType ==
  ASSUME TypeOK, NEW g \in Games, NEW kind \in Kinds, NEW form \in Forms \cup Kinds,
         Extend(g, kind, form)
  PROVE  /\ history' \in [Games -> Position]
         /\ \A h \in Games : Len(history[h]) <= Len(history'[h])
         /\ \A h \in Games : seen[h] <= Len(history'[h])
<1>1. history[g] \in Position /\ TurnAt(history[g]) \in Nat
  BY TurnAtNat DEF TypeOK
<1>2. [kind |-> kind, form |-> form, turn |-> TurnAt(history[g])] \in Move
  BY <1>1 DEF Move
<1>3. \A h \in Games : Len(history[h]) \in Nat
  BY LenProperties DEF TypeOK, Position
<1> DEFINE m == [kind |-> kind, form |-> form, turn |-> TurnAt(history[g])]
<1>4. Append(history[g], m) \in Position /\ Len(Append(history[g], m)) = Len(history[g]) + 1
  BY <1>1, <1>2 DEF Position
<1>5. history' = [history EXCEPT ![g] = Append(history[g], m)]
  BY DEF Extend
<1> HIDE DEF m
<1> QED
  BY <1>3, <1>4, <1>5 DEF TypeOK

LEMMA TypeOKInductive == TypeOK /\ [ApiNext]_vars => TypeOK'
<1> SUFFICES ASSUME TypeOK, [ApiNext]_vars PROVE TypeOK'
  OBVIOUS
<1> DEFINE D == DOMAIN effects
<1>a. /\ effects \in [D -> EffectStates] /\ lines \in [D -> WireStates]
      /\ D \subseteq EffectId /\ DOMAIN lines = D
  BY DEF TypeOK, EffectStates, WireStates
<1>1. ASSUME NEW g \in Games, NEW a \in Actions, Begin(g, a) PROVE TypeOK'
  <2> DEFINE e == [game |-> g, pos |-> View(g), action |-> a]
  <2>1. e \in EffectId
    BY ViewPosition DEF EffectId
  <2>2. /\ effects' = Put(effects, e, [status |-> "INTENT", attempts |-> 0])
        /\ lines' = Put(lines, e, [sent |-> 0, travelling |-> 0, grants |-> 0])
        /\ call' = [pc |-> "prepared", effect |-> e]
        /\ UNCHANGED <<history, seen, phase>>
    BY <1>1 DEF Begin
  <2> HIDE DEF e
  <2>a. /\ [status |-> "INTENT", attempts |-> 0] \in EffectStates
        /\ [sent |-> 0, travelling |-> 0, grants |-> 0] \in WireStates
    BY DEF EffectStates, WireStates, Status
  <2> HIDE DEF D
  <2>3. effects' \in [D \cup {e} -> EffectStates]
    BY <1>a, <2>2, <2>a, PutType
  <2>4. lines' \in [D \cup {e} -> WireStates]
    BY <1>a, <2>2, <2>a, PutType
  <2> QED
    BY <1>a, <2>1, <2>2, <2>3, <2>4 DEF D, TypeOK, EffectStates, WireStates, Call
<1>2. ASSUME NEW e \in D, Transmit(e) PROVE TypeOK'
  <2>1. lines' \in [D -> WireStates]
    BY <1>2, <1>a DEF Transmit, WireStates
  <2>2. /\ call' = [pc |-> "sent", effect |-> e]
        /\ UNCHANGED <<history, seen, phase, effects>>
    BY <1>2 DEF Transmit
  <2> QED
    BY <1>a, <2>1, <2>2 DEF TypeOK, WireStates, Call
<1>3. CASE SendNew
  <2>1. call.effect \in D
    BY <1>3 DEF SendNew, TypeOK, Call, Idle
  <2> QED
    BY <2>1, <1>2, <1>3 DEF SendNew
<1>4. ASSUME NEW e \in D, Resend(e) PROVE TypeOK'
  BY <1>2, <1>4 DEF Resend
<1>5. CASE SendFails
  BY <1>5 DEF SendFails, TypeOK, Call
<1>6. CASE mark_send_returned
  <2>1. call.effect \in D
    BY <1>6 DEF mark_send_returned, TypeOK, Call, Idle
  <2> DEFINE e == call.effect
  <2>2. effects' \in [D -> EffectStates] /\ DOMAIN effects' = D
    BY <1>6, <1>a, <2>1 DEF mark_send_returned, EffectStates, Status
  <2>4. UNCHANGED <<history, seen, phase, lines>> /\ call' = Idle
    BY <1>6 DEF mark_send_returned
  <2> QED
    BY <1>a, <2>2, <2>4 DEF TypeOK, EffectStates, Call
<1>7. ASSUME NEW e \in D, authorize_retry(e) PROVE TypeOK'
  <2>1. effects' \in [D -> EffectStates] /\ DOMAIN effects' = D
    BY <1>7, <1>a, SetStatusType DEF authorize_retry, Status
  <2>2. lines' \in [D -> WireStates]
    BY <1>7, <1>a DEF authorize_retry, WireStates
  <2>3. UNCHANGED <<history, seen, phase, call>>
    BY <1>7 DEF authorize_retry
  <2> QED
    BY <1>a, <2>1, <2>2, <2>3 DEF TypeOK, EffectStates, WireStates, Call
<1>8. ASSUME NEW g \in Games, Play(g) PROVE TypeOK'
  <2>1. effects' \in [D -> EffectStates] /\ DOMAIN effects' = D
    BY <1>8, <1>a, ReconcileType DEF Play
  <2>2. UNCHANGED <<history, phase, lines, call>>
    BY <1>8 DEF Play
  <2>3. seen' \in [Games -> Nat] /\ \A h \in Games : seen'[h] <= Len(history[h])
    BY <1>8, LenProperties DEF Play, TypeOK, Position
  <2> QED
    BY <1>a, <2>1, <2>2, <2>3 DEF TypeOK, EffectStates, Call
<1>9. ASSUME NEW g \in Games, NEW n \in 0..Len(history[g]), Start(g, n)
      PROVE  TypeOK'
  <2>1. effects' \in [D -> EffectStates] /\ DOMAIN effects' = D
    BY <1>9, <1>a, ReconcileType DEF Start
  <2>2. UNCHANGED <<history, lines, call>>
    BY <1>9 DEF Start
  <2>3. /\ seen' \in [Games -> Nat] /\ \A h \in Games : seen'[h] <= Len(history[h])
        /\ phase' \in [Games -> Phases]
    BY <1>9, LenProperties DEF Start, TypeOK, Position, Phases
  <2> QED
    BY <1>a, <2>1, <2>2, <2>3 DEF TypeOK, EffectStates, Call
<1>10. ASSUME NEW g \in Games, confirm_observed_action(g) PROVE TypeOK'
  <2>1. effects' \in [D -> EffectStates] /\ DOMAIN effects' = D
    BY <1>10, <1>a, SetStatusType DEF confirm_observed_action, Status, Terminal
  <2>2. UNCHANGED <<history, phase, lines, call>>
    BY <1>10 DEF confirm_observed_action
  <2>3. seen' \in [Games -> Nat] /\ \A h \in Games : seen'[h] <= Len(history[h])
    BY <1>10, LenProperties DEF confirm_observed_action, TypeOK, Position
  <2> QED
    BY <1>a, <2>1, <2>2, <2>3 DEF TypeOK, EffectStates, Call
<1>11. ASSUME NEW g \in Games, TableError(g) PROVE TypeOK'
  <2>1. effects' \in [D -> EffectStates] /\ DOMAIN effects' = D
    BY <1>11, <1>a, SetStatusType DEF TableError, Status, Terminal
  <2>2. UNCHANGED <<history, seen, lines, call>> /\ phase' \in [Games -> Phases]
    BY <1>11 DEF TableError, TypeOK, Phases
  <2> QED
    BY <1>a, <2>1, <2>2 DEF TypeOK, EffectStates, Call
<1>12. ASSUME NEW g \in Games, End(g) \/ FailGame(g) PROVE TypeOK'
  BY <1>12 DEF End, FailGame, TypeOK, Phases, Call
<1>13. CASE Restart
  BY <1>13 DEF Restart, TypeOK, Phases, Call
<1>14. ASSUME NEW e \in D, NEW f \in Forms, Deliver(e, f) PROVE TypeOK'
  <2>1. e.game \in Games
    BY <1>a DEF EffectId
  <2>2. lines' \in [D -> WireStates]
    BY <1>14, <1>a DEF Deliver, WireStates
  <2>3. UNCHANGED <<seen, phase, effects, call>>
    BY <1>14 DEF Deliver
  <2>4. /\ history' \in [Games -> Position]
        /\ \A h \in Games : seen[h] <= Len(history'[h])
    <3>1. CASE Extend(e.game, "act", f)
      BY <2>1, <3>1, ExtendType DEF Kinds
    <3>2. CASE UNCHANGED history
      BY <3>2 DEF TypeOK
    <3> QED
      BY <1>14, <3>1, <3>2 DEF Deliver
  <2> QED
    BY <1>a, <2>2, <2>3, <2>4 DEF TypeOK, WireStates, Call
<1>15. ASSUME NEW e \in D, Lose(e) PROVE TypeOK'
  <2>1. lines' \in [D -> WireStates] /\ UNCHANGED <<history, seen, phase, effects, call>>
    BY <1>15, <1>a DEF Lose, WireStates
  <2> QED
    BY <1>a, <2>1 DEF TypeOK, WireStates, Call
<1>16. ASSUME NEW g \in Games, NEW kind \in Kinds, NEW form \in Forms \cup Kinds,
              Extend(g, kind, form), UNCHANGED <<seen, phase, lines, effects, call>>
       PROVE  TypeOK'
  BY <1>16, ExtendType DEF TypeOK, Call
<1>17. ASSUME NEW g \in Games, NEW f \in Forms, OpponentMoves(g, f) PROVE TypeOK'
  BY <1>17, <1>16 DEF OpponentMoves, Kinds
<1>18. ASSUME NEW g \in Games, NEW k \in Kinds \ {"act"}, Interleave(g, k)
       PROVE  TypeOK'
  BY <1>18, <1>16 DEF Interleave
<1>19. CASE UNCHANGED vars
  BY <1>19 DEF vars, TypeOK, Call
<1> QED
  BY <1>a, <1>1, <1>3, <1>4, <1>5, <1>6, <1>7, <1>8, <1>9, <1>10, <1>11, <1>12,
     <1>13, <1>14, <1>15, <1>17, <1>18, <1>19
     DEF ApiNext, ClientNext, Server

\* The journal and the wire know the same effects, and the client's view of a
\* game is a prefix of the server's moves, whatever the journal's interface is
\* used for.
THEOREM ApiTypeCorrect == ApiSpec => []TypeOK
<1> QED
  BY InitTypeOK, TypeOKInductive, PTL DEF ApiSpec

\* The client uses a part of the interface.
LEMMA ClientUsesApi == ClientSpec => ApiSpec
<1>1. [ClientNext]_vars => [ApiNext]_vars
  BY DEF ApiNext
<1> QED
  BY <1>1, PTL DEF ClientSpec, ApiSpec

----------------------------------------------------------------------------
(* Four things a step can do to the journal: claim a game, send a line,    *)
(* settle effects of one game, or only note what happened.                 *)

Journaled == DOMAIN effects

ClaimStep(g, e) ==
    /\ e \in EffectId \ Journaled /\ e.game = g /\ Pending(effects, g) = {}
    /\ effects' \in [Journaled \cup {e} -> EffectStates]
    /\ effects'[e].status = "INTENT"
    /\ \A d \in Journaled : effects'[d] = effects[d]
    /\ lines' \in [Journaled \cup {e} -> WireStates]
    /\ lines'[e].sent = 0
    /\ \A d \in Journaled : lines'[d] = lines[d]
    /\ call' = [pc |-> "prepared", effect |-> e]

SendStep(e) ==
    /\ e \in Journaled /\ effects[e].status \notin Terminal
    /\ effects' = effects
    /\ lines' \in [Journaled -> WireStates]
    /\ lines'[e].sent = lines[e].sent + 1
    /\ \A d \in Journaled \ {e} : lines'[d] = lines[d]
    /\ call' = [pc |-> "sent", effect |-> e]

SettleStep(g) ==
    /\ effects' \in [Journaled -> EffectStates]
    /\ \A e \in Journaled :
          \/ effects'[e] = effects[e]
          \/ e \in Pending(effects, g) /\ effects'[e].status \in Terminal
    /\ UNCHANGED lines /\ call = Idle /\ call' = Idle

NoteStep ==
    /\ effects' \in [Journaled -> EffectStates]
    /\ \A e \in Journaled :
          \/ effects'[e] = effects[e]
          \/ effects[e].status \notin Terminal /\ effects'[e].status \notin Terminal
    /\ lines' \in [Journaled -> WireStates]
    /\ \A e \in Journaled : lines'[e].sent = lines[e].sent
    /\ call' \in {call, Idle}

LEMMA ClaimsWhenBegun ==
  ASSUME TypeOK, NEW g \in Games, NEW a \in Actions, Begin(g, a)
  PROVE  ClaimStep(g, [game |-> g, pos |-> View(g), action |-> a])
<1> DEFINE e == [game |-> g, pos |-> View(g), action |-> a]
           r == [status |-> "INTENT", attempts |-> 0]
           w == [sent |-> 0, travelling |-> 0, grants |-> 0]
           D == DOMAIN effects
<1>1. e \in EffectId /\ e.game = g
  BY ViewPosition DEF EffectId
<1>2. r \in EffectStates /\ r.status = "INTENT" /\ w \in WireStates /\ w.sent = 0
  BY DEF EffectStates, WireStates, Status
<1>3. /\ e \notin D /\ Pending(effects, g) = {}
      /\ effects' = Put(effects, e, r) /\ lines' = Put(lines, e, w)
      /\ call' = [pc |-> "prepared", effect |-> e]
  BY DEF Begin
<1>4. effects \in [D -> EffectStates] /\ lines \in [D -> WireStates]
  BY DEF TypeOK, EffectStates, WireStates
<1> HIDE DEF e, r, w, D
<1>5. /\ effects' \in [D \cup {e} -> EffectStates] /\ effects'[e] = r
      /\ \A d \in D \ {e} : effects'[d] = effects[d]
  <2>1. /\ Put(effects, e, r) \in [D \cup {e} -> EffectStates]
        /\ Put(effects, e, r)[e] = r
        /\ \A d \in D \ {e} : Put(effects, e, r)[d] = effects[d]
    BY <1>2, <1>4 DEF Put
  <2> QED
    BY <2>1, <1>3
<1>6. /\ lines' \in [D \cup {e} -> WireStates] /\ lines'[e] = w
      /\ \A d \in D \ {e} : lines'[d] = lines[d]
  <2>1. /\ Put(lines, e, w) \in [D \cup {e} -> WireStates]
        /\ Put(lines, e, w)[e] = w
        /\ \A d \in D \ {e} : Put(lines, e, w)[d] = lines[d]
    BY <1>2, <1>4 DEF Put
  <2> QED
    BY <2>1, <1>3
<1>7. ClaimStep(g, e)
  BY <1>1, <1>2, <1>3, <1>5, <1>6 DEF ClaimStep, Journaled, D
<1> QED
  BY <1>7 DEF e

LEMMA TransmitSends ==
  ASSUME TypeOK, NEW e \in Journaled, effects[e].status \notin Terminal, Transmit(e)
  PROVE  SendStep(e)
<1>1. lines \in [Journaled -> WireStates]
  BY DEF TypeOK, Journaled, WireStates
<1> QED
  BY <1>1 DEF Transmit, SendStep, WireStates

LEMMA ClientStep ==
  ASSUME TypeOK, [ClientNext]_vars
  PROVE  \/ \E g \in Games, e \in EffectId : ClaimStep(g, e)
         \/ \E e \in Journaled : call = [pc |-> "prepared", effect |-> e] /\ SendStep(e)
         \/ \E g \in Games : SettleStep(g)
         \/ NoteStep
<1>a. /\ effects \in [Journaled -> EffectStates] /\ lines \in [Journaled -> WireStates]
      /\ Journaled \subseteq EffectId
  BY DEF TypeOK, Journaled, EffectStates, WireStates
<1>1. ASSUME NEW g \in Games, NEW a \in Actions, Begin(g, a)
      PROVE  \E e \in EffectId : ClaimStep(g, e)
  BY <1>1, ClaimsWhenBegun, ViewPosition DEF EffectId
<1>2. CASE SendNew
  <2>1. call.effect \in Journaled /\ call = [pc |-> "prepared", effect |-> call.effect]
    BY <1>2 DEF SendNew, TypeOK, Call, Idle, Journaled
  <2>2. effects[call.effect].status \notin Terminal /\ Transmit(call.effect)
    BY <1>2 DEF SendNew, Terminal
  <2> QED
    BY <2>1, <2>2, TransmitSends
<1>3. ASSUME NEW g \in Games, Play(g) PROVE SettleStep(g)
  BY <1>3, <1>a, ReconcileType DEF Play, SettleStep, Terminal
<1>4. ASSUME NEW g \in Games, NEW n \in 0..Len(history[g]), Start(g, n)
      PROVE  SettleStep(g)
  BY <1>4, <1>a, ReconcileType DEF Start, SettleStep, Terminal
<1>5. ASSUME NEW g \in Games, TableError(g) PROVE SettleStep(g)
  <2>1. /\ effects' = SetStatus(effects, Pending(effects, g), "ABORTED_ERROR")
        /\ "ABORTED_ERROR" \in Status /\ "ABORTED_ERROR" \in Terminal
        /\ UNCHANGED lines /\ call = Idle /\ call' = Idle
    BY <1>5 DEF TableError, Status, Terminal
  <2>2. effects' \in [Journaled -> EffectStates]
    BY <2>1, <1>a, SetStatusType
  <2>3. \A e \in Journaled : e \notin Pending(effects, g) => effects'[e] = effects[e]
    BY <2>1, <1>a DEF SetStatus
  <2>4. \A e \in Pending(effects, g) : effects'[e].status \in Terminal
    BY <2>1, <1>a, SetStatusType DEF Pending, Journaled
  <2> QED
    BY <2>1, <2>2, <2>3, <2>4 DEF SettleStep
<1>6. CASE mark_send_returned
  <2>1. call.effect \in Journaled
    BY <1>6 DEF mark_send_returned, TypeOK, Call, Idle, Journaled
  <2> QED
    BY <1>6, <1>a, <2>1 DEF mark_send_returned, NoteStep, EffectStates, Status, Terminal
<1>7. ASSUME NEW e \in Journaled, Lose(e) \/ \E f \in Forms : Deliver(e, f)
      PROVE  NoteStep
  <2>1. /\ lines' = [lines EXCEPT ![e].travelling = @ - 1]
        /\ lines[e].travelling > 0
        /\ UNCHANGED <<effects, call>>
    BY <1>7 DEF Lose, Deliver
  <2>2. lines[e] \in WireStates
    BY <1>a
  <2>3. /\ lines' \in [Journaled -> WireStates]
        /\ \A d \in Journaled : lines'[d].sent = lines[d].sent
    BY <1>a, <2>1, <2>2 DEF WireStates
  <2> QED
    BY <1>a, <2>1, <2>3 DEF NoteStep
<1>8. ASSUME UNCHANGED <<effects, lines>>, call' \in {call, Idle}
      PROVE  NoteStep
  BY <1>8, <1>a DEF NoteStep
<1>9. CASE SendFails \/ Restart \/ UNCHANGED vars
  BY <1>8, <1>9 DEF SendFails, Restart, vars
<1>10. ASSUME NEW g \in Games,
              \/ End(g) \/ FailGame(g)
              \/ \E f \in Forms : OpponentMoves(g, f)
              \/ \E k \in Kinds \ {"act"} : Interleave(g, k)
       PROVE  NoteStep
  BY <1>8, <1>10 DEF End, FailGame, OpponentMoves, Interleave
<1> QED
  BY <1>1, <1>2, <1>3, <1>4, <1>5, <1>6, <1>7, <1>9, <1>10, <1>a
     DEF ClientNext, Server, TypeOK

LEMMA ApiStep ==
  ASSUME TypeOK, [ApiNext]_vars
  PROVE  \/ \E g \in Games, e \in EffectId : ClaimStep(g, e)
         \/ \E e \in Journaled : SendStep(e)
         \/ \E g \in Games : SettleStep(g)
         \/ NoteStep
<1>a. /\ effects \in [Journaled -> EffectStates] /\ lines \in [Journaled -> WireStates]
      /\ Journaled \subseteq EffectId
  BY DEF TypeOK, Journaled, EffectStates, WireStates
<1>1. ASSUME NEW e \in Journaled, Resend(e) PROVE SendStep(e)
  BY <1>1, TransmitSends DEF Resend, Terminal
<1>2. ASSUME NEW e \in Journaled, authorize_retry(e) PROVE NoteStep
  <2>1. /\ effects' = SetStatus(effects, {e}, "RETRY_AUTHORIZED")
        /\ "RETRY_AUTHORIZED" \in Status /\ "RETRY_AUTHORIZED" \notin Terminal
        /\ effects[e].status \notin Terminal
        /\ UNCHANGED call
    BY <1>2 DEF authorize_retry, Status, Terminal
  <2>2. effects' \in [Journaled -> EffectStates]
    BY <2>1, <1>a, SetStatusType
  <2>3. \A d \in Journaled : d # e => effects'[d] = effects[d]
    BY <2>1, <1>a DEF SetStatus
  <2>4. effects'[e].status \notin Terminal
    BY <2>1, <1>a, SetStatusType
  <2>5. /\ lines' \in [Journaled -> WireStates]
        /\ \A d \in Journaled : lines'[d].sent = lines[d].sent
    BY <1>2, <1>a DEF authorize_retry, WireStates
  <2> QED
    BY <2>1, <2>2, <2>3, <2>4, <2>5 DEF NoteStep
<1>3. ASSUME NEW g \in Games, confirm_observed_action(g) PROVE SettleStep(g)
  <2>1. PICK E \in SUBSET Pending(effects, g) :
              effects' = SetStatus(effects, E, "CONFIRMED")
    BY <1>3 DEF confirm_observed_action
  <2>2. "CONFIRMED" \in Status /\ "CONFIRMED" \in Terminal
    BY DEF Status, Terminal
  <2>3. effects' \in [Journaled -> EffectStates]
    BY <2>1, <2>2, <1>a, SetStatusType
  <2>4. \A e \in Journaled : e \notin E => effects'[e] = effects[e]
    BY <2>1, <1>a DEF SetStatus
  <2>5. \A e \in E : e \in Journaled /\ effects'[e].status \in Terminal
    BY <2>1, <2>2, <1>a, SetStatusType DEF Pending, Journaled
  <2>6. UNCHANGED lines /\ call = Idle /\ call' = Idle
    BY <1>3 DEF confirm_observed_action
  <2> QED
    BY <2>3, <2>4, <2>5, <2>6 DEF SettleStep
<1> QED
  BY <1>1, <1>2, <1>3, ClientStep DEF ApiNext, Journaled

----------------------------------------------------------------------------
(* At most one effect of a game is open, and a settled one stays settled.  *)

LEMMA AtMostOnePendingInductive ==
  ASSUME TypeOK, AtMostOnePending, [ApiNext]_vars
  PROVE  AtMostOnePending'
<1>a. DOMAIN effects = Journaled
  BY DEF Journaled
<1>1. ASSUME NEW g \in Games, NEW e \in EffectId, ClaimStep(g, e)
      PROVE  AtMostOnePending'
  <2>1. DOMAIN effects' = Journaled \cup {e}
    BY <1>1 DEF ClaimStep
  <2>2. ASSUME NEW h \in Games, NEW d \in Pending(effects', h)
        PROVE  (d = e /\ h = g) \/ d \in Pending(effects, h)
    BY <1>1, <1>a, <2>1, <2>2 DEF ClaimStep, Pending
  <2>3. ASSUME NEW h \in Games, NEW c \in Pending(effects', h),
               NEW d \in Pending(effects', h)
        PROVE  c = d
    BY <1>1, <2>2, <2>3 DEF ClaimStep, AtMostOnePending
  <2> QED
    BY <2>3 DEF AtMostOnePending
<1>2. ASSUME DOMAIN effects' = Journaled,
             \A e \in Journaled : \/ effects'[e].status = effects[e].status
                                  \/ effects[e].status \notin Terminal
      PROVE  AtMostOnePending'
  <2>1. \A h \in Games : Pending(effects', h) \subseteq Pending(effects, h)
    BY <1>a, <1>2 DEF Pending
  <2> QED
    BY <2>1 DEF AtMostOnePending
<1>3. ASSUME NEW e \in Journaled, SendStep(e) PROVE AtMostOnePending'
  BY <1>2, <1>3, <1>a DEF SendStep
<1>4. ASSUME NEW g \in Games, SettleStep(g) PROVE AtMostOnePending'
  BY <1>2, <1>4 DEF SettleStep, Pending
<1>5. CASE NoteStep
  BY <1>2, <1>5 DEF NoteStep
<1> QED
  BY <1>1, <1>3, <1>4, <1>5, ApiStep

\* No sequence of calls, restarts and server moves leaves two effects of one
\* game unresolved: the check in begin() is enough.
THEOREM OneEffectInFlight == ApiSpec => []AtMostOnePending
<1>1. Init => AtMostOnePending
  BY DEF Init, AtMostOnePending, Pending
<1>2. TypeOK /\ AtMostOnePending /\ [ApiNext]_vars => AtMostOnePending'
  BY AtMostOnePendingInductive
<1> QED
  BY <1>1, <1>2, ApiTypeCorrect, PTL DEF ApiSpec

\* What replaying the journal reports as settled is never revised, and no line
\* leaves for it any more.
THEOREM OutcomesAreFinal == ApiSpec => SettledStays
<1>1. ASSUME TypeOK, [ApiNext]_vars, NEW e \in DOMAIN effects,
             effects[e].status \in Terminal
      PROVE  effects'[e] = effects[e] /\ lines'[e].sent = lines[e].sent
  <2>a. e \in Journaled
    BY DEF Journaled
  <2>1. CASE \E g \in Games, d \in EffectId : ClaimStep(g, d)
    BY <2>a, <2>1 DEF ClaimStep
  <2>2. CASE \E d \in Journaled : SendStep(d)
    BY <1>1, <2>a, <2>2 DEF SendStep
  <2>3. CASE \E g \in Games : SettleStep(g)
    BY <1>1, <2>a, <2>3 DEF SettleStep, Pending
  <2>4. CASE NoteStep
    BY <1>1, <2>a, <2>4 DEF NoteStep
  <2> QED
    BY <1>1, <2>1, <2>2, <2>3, <2>4, ApiStep
<1>2. TypeOK /\ [ApiNext]_vars => [LeavesSettled]_vars
  BY <1>1 DEF LeavesSettled
<1> QED
  BY <1>2, ApiTypeCorrect, PTL DEF ApiSpec, SettledStays

----------------------------------------------------------------------------
(* The client's journal implements MoveAuthority.                          *)

owner   == [g \in Games |-> Owner(g)]
spent   == {e \in DOMAIN lines : lines[e].sent > 0}
settled == {e \in DOMAIN effects : effects[e].status \in Terminal}

\* The effect a guarded send has prepared has not been sent before.
PreparedUnsent == call.pc = "prepared" => lines[call.effect].sent = 0

AuthorityInv == TypeOK /\ AtMostOnePending /\ PreparedUnsent

LEMMA PreparedUnsentInductive ==
  ASSUME TypeOK, PreparedUnsent, [ClientNext]_vars
  PROVE  PreparedUnsent'
<1>1. ASSUME NEW g \in Games, NEW e \in EffectId, ClaimStep(g, e)
      PROVE  PreparedUnsent'
  BY <1>1 DEF ClaimStep, PreparedUnsent
<1>2. ASSUME NEW e \in Journaled, SendStep(e) PROVE PreparedUnsent'
  BY <1>2 DEF SendStep, PreparedUnsent
<1>3. ASSUME NEW g \in Games, SettleStep(g) PROVE PreparedUnsent'
  BY <1>3 DEF SettleStep, PreparedUnsent, Idle
<1>4. CASE NoteStep
  <2>1. call.pc = "prepared" => call.effect \in Journaled
    BY DEF TypeOK, Call, Idle, Journaled
  <2> QED
    BY <1>4, <2>1 DEF NoteStep, PreparedUnsent, Idle
<1> QED
  BY <1>1, <1>2, <1>3, <1>4, ClientStep

LEMMA AuthorityInvariant == ClientSpec => []AuthorityInv
<1>1. Init => PreparedUnsent
  BY DEF Init, Idle, PreparedUnsent
<1>2. AuthorityInv /\ [ClientNext]_vars => AuthorityInv'
  <2>1. [ClientNext]_vars => [ApiNext]_vars
    BY DEF ApiNext
  <2> QED
    BY <2>1, TypeOKInductive, AtMostOnePendingInductive, PreparedUnsentInductive
       DEF AuthorityInv
<1>3. Init => AuthorityInv
  BY <1>1, InitTypeOK DEF AuthorityInv, Init, AtMostOnePending, Pending
<1> QED
  BY <1>2, <1>3, PTL DEF ClientSpec

\* The owner of a game is its open effect, if it has one.
LEMMA OwnerIsPending ==
  ASSUME AtMostOnePending, NEW g \in Games, NEW e \in Pending(effects, g)
  PROVE  Owner(g) = e
BY DEF Owner, OneOf, AtMostOnePending

LEMMA NoEffectIsNone == NoEffect \notin EffectId
<1> SUFFICES ASSUME NoEffect \in EffectId PROVE FALSE
  OBVIOUS
<1>1. DOMAIN NoEffect = {"game"}
  BY DEF NoEffect
<1>2. "pos" \in DOMAIN NoEffect
  BY DEF EffectId
<1> QED
  BY <1>1, <1>2

LEMMA ClaimImplements ==
  ASSUME AuthorityInv, NEW g \in Games, NEW e \in EffectId, ClaimStep(g, e),
         AtMostOnePending'
  PROVE  Authority!Claim(g)
<1>a. DOMAIN effects = Journaled /\ DOMAIN lines = Journaled
  BY DEF AuthorityInv, TypeOK, Journaled
<1>1. DOMAIN effects' = Journaled \cup {e} /\ DOMAIN lines' = Journaled \cup {e}
  BY DEF ClaimStep
<1>2. e \in Pending(effects', g) /\ Pending(effects, g) = {}
  BY <1>1 DEF ClaimStep, Pending, Terminal
<1>3. Owner(g)' = e /\ Owner(g) = NoEffect
  BY <1>2 DEF Owner, OneOf, AtMostOnePending
<1>4. \A h \in Games \ {g} : Pending(effects', h) = Pending(effects, h)
  BY <1>a, <1>1 DEF ClaimStep, Pending
<1>5. \A h \in Games \ {g} : Owner(h)' = Owner(h)
  BY <1>4 DEF Owner
<1>6. UNCHANGED <<spent, settled>>
  <2>1. \A x : x \in spent' <=> x \in spent
    BY <1>a, <1>1 DEF ClaimStep, spent
  <2>2. \A x : x \in settled' <=> x \in settled
    BY <1>a, <1>1 DEF ClaimStep, settled, Terminal
  <2> QED
    BY <2>1, <2>2
<1>7. e \notin spent /\ e \notin settled /\ e.game = g
  BY <1>a DEF ClaimStep, spent, settled
<1> QED
  BY <1>3, <1>5, <1>6, <1>7 DEF Authority!Claim, spent, settled

LEMMA SendImplements ==
  ASSUME AuthorityInv, NEW e \in Journaled, SendStep(e),
         call = [pc |-> "prepared", effect |-> e]
  PROVE  \E g \in Games : Authority!Send(g)
<1>a. DOMAIN effects = Journaled /\ DOMAIN lines = Journaled /\ e \in EffectId
  BY DEF AuthorityInv, TypeOK, Journaled
<1>1. e.game \in Games /\ e \in Pending(effects, e.game)
  BY <1>a DEF EffectId, Pending, SendStep
<1>2. Owner(e.game) = e
  BY <1>1, OwnerIsPending DEF AuthorityInv
<1>3. lines[e].sent = 0
  BY DEF AuthorityInv, PreparedUnsent
<1>4. spent' = spent \cup {e} /\ e \notin spent
  <2>1. DOMAIN lines' = Journaled /\ lines'[e].sent = 1
    BY <1>3 DEF SendStep
  <2> QED
    BY <1>a, <1>3, <2>1 DEF SendStep, spent
<1>5. UNCHANGED <<owner, settled>>
  BY DEF SendStep, owner, settled, Owner
<1>6. e # NoEffect
  BY <1>a, NoEffectIsNone
<1>7. Authority!Send(e.game)
  BY <1>1, <1>2, <1>4, <1>5, <1>6 DEF Authority!Send, owner, spent, settled
<1> QED
  BY <1>1, <1>7

LEMMA SettleImplements ==
  ASSUME AuthorityInv, NEW g \in Games, SettleStep(g)
  PROVE  Authority!Settle(g) \/ UNCHANGED <<owner, spent, settled>>
<1>a. DOMAIN effects = Journaled /\ DOMAIN effects' = Journaled
  BY DEF Journaled, SettleStep
<1>b. effects \in [Journaled -> EffectStates] /\ effects' \in [Journaled -> EffectStates]
  BY DEF AuthorityInv, TypeOK, Journaled, SettleStep, EffectStates
<1>1. CASE \A e \in Journaled : effects'[e] = effects[e]
  <2>1. effects' = effects
    BY <1>1, <1>b
  <2> QED
    BY <2>1 DEF SettleStep, owner, spent, settled, Owner
<1>2. ASSUME NEW e \in Journaled, effects'[e] # effects[e]
      PROVE  Authority!Settle(g)
  <2>1. e \in Pending(effects, g) /\ effects'[e].status \in Terminal
    BY <1>2 DEF SettleStep
  <2>2. \A d \in Journaled \ {e} : effects'[d] = effects[d]
    BY <2>1 DEF SettleStep, AuthorityInv, AtMostOnePending
  <2>3. Owner(g) = e
    BY <2>1, OwnerIsPending DEF AuthorityInv
  <2>4. Pending(effects', g) = {} /\ Owner(g)' = NoEffect
    BY <1>a, <2>1, <2>2 DEF Pending, Owner, OneOf, AuthorityInv, AtMostOnePending
  <2>5. \A h \in Games \ {g} : Owner(h)' = Owner(h)
    <3>1. \A h \in Games \ {g} : Pending(effects', h) = Pending(effects, h)
      BY <1>a, <2>1, <2>2 DEF Pending
    <3> QED
      BY <3>1 DEF Owner
  <2>6. settled' = settled \cup {e}
    BY <1>a, <2>1, <2>2 DEF settled
  <2>7. e # NoEffect
    BY <2>1, <1>a, NoEffectIsNone DEF AuthorityInv, TypeOK
  <2>8. spent' = spent
    BY DEF SettleStep, spent
  <2>9. owner[g] = e /\ owner' = [owner EXCEPT ![g] = NoEffect]
    BY <2>3, <2>4, <2>5 DEF owner
  <2> QED
    BY <2>6, <2>7, <2>8, <2>9 DEF Authority!Settle, owner, spent, settled
<1> QED
  BY <1>1, <1>2

LEMMA NoteImplements ==
  ASSUME AuthorityInv, NoteStep
  PROVE  UNCHANGED <<owner, spent, settled>>
<1>a. /\ DOMAIN effects = Journaled /\ DOMAIN effects' = Journaled
      /\ DOMAIN lines = Journaled /\ DOMAIN lines' = Journaled
  BY DEF AuthorityInv, TypeOK, Journaled, NoteStep
<1>1. \A h \in Games : Pending(effects', h) = Pending(effects, h)
  BY <1>a DEF NoteStep, Pending
<1>2. \A h \in Games : Owner(h)' = Owner(h)
  BY <1>1 DEF Owner
<1>3. spent' = spent
  BY <1>a DEF NoteStep, spent
<1>4. settled' = settled
  BY <1>a DEF NoteStep, settled
<1> QED
  BY <1>2, <1>3, <1>4 DEF owner

\* Every behaviour of the client's journal is a behaviour of MoveAuthority: a
\* game is claimed by one fresh effect at a time, its line leaves at most once
\* and only while it owns the game, and it never comes back.
THEOREM JournalImplementsAuthority == ClientSpec => ImplementsAuthority
<1>1. Init => Authority!Init
  BY DEF Init, Authority!Init, Owner, OneOf, Pending
<1>2. AuthorityInv /\ AuthorityInv' /\ [ClientNext]_vars
      => [Authority!Next]_<<owner, spent, settled>>
  <2> SUFFICES ASSUME AuthorityInv, AuthorityInv', [ClientNext]_vars
               PROVE  [Authority!Next]_<<owner, spent, settled>>
    OBVIOUS
  <2>1. CASE \E g \in Games, e \in EffectId : ClaimStep(g, e)
    BY <2>1, ClaimImplements DEF AuthorityInv, Authority!Next
  <2>2. CASE \E e \in Journaled : call = [pc |-> "prepared", effect |-> e] /\ SendStep(e)
    BY <2>2, SendImplements DEF Authority!Next
  <2>3. CASE \E g \in Games : SettleStep(g)
    BY <2>3, SettleImplements DEF Authority!Next
  <2>4. CASE NoteStep
    BY <2>4, NoteImplements
  <2> QED
    BY <2>1, <2>2, <2>3, <2>4, ClientStep DEF AuthorityInv
<1>3. [Authority!Next]_<<owner, spent, settled>> => [Authority!Next]_(Authority!vars)
  BY DEF Authority!vars, owner, spent, settled
<1> QED
  BY <1>1, <1>2, <1>3, AuthorityInvariant, PTL
     DEF ClientSpec, ImplementsAuthority, Authority!Spec

----------------------------------------------------------------------------
(* Outcomes and turns.  That the journal's outcomes are true and a turn is  *)
(* not answered twice rests on the moves reconcile_table steps over being   *)
(* the only ones a server interleaves: a card show falsifies both.          *)

SteppedOver == OutOfTurn \subseteq {"resign", "leave"}

Settles(m) == m.kind \in {"act", "timeout"}

----------------------------------------------------------------------------
(* Lemmas about positions.                                                 *)

LEMMA LeastElement ==
  ASSUME NEW T, T \subseteq Nat, T # {}
  PROVE  \E x \in T : \A y \in T : x <= y
<1>1. \E x \in T : \A y \in T : ~ (<<y, x>> \in OpToRel(<, Nat))
  BY NatLessThanWellFounded, WFMin
<1>2. PICK x \in T : \A y \in T : ~ (<<y, x>> \in OpToRel(<, Nat))
  BY <1>1
<1>3. ASSUME NEW y \in T PROVE x <= y
  <2>1. x \in Nat /\ y \in Nat
    OBVIOUS
  <2>2. CASE y < x
    <3>1. <<y, x>> \in OpToRel(<, Nat)
      BY <2>1, <2>2 DEF OpToRel
    <3> QED
      BY <1>2, <3>1
  <2> QED
    BY <2>1, <2>2
<1> QED
  BY <1>3

\* The open turn of a prefix is told by its last move.
LEMMA TurnOfPrefix ==
  ASSUME NEW p \in Position, NEW n \in 1..Len(p)
  PROVE  TurnAt(Prefix(p, n)) = IF p[n].kind = "act" THEN p[n].turn + 1 ELSE p[n].turn
<1>1. Len(p) \in Nat
  BY LenProperties DEF Position
<1>2. n \in 0..Len(p) /\ n \in 1..n
  BY <1>1
<1>3. Len(Prefix(p, n)) = n /\ Prefix(p, n)[n] = p[n] /\ Prefix(p, n) # <<>>
  BY <1>2, PrefixPosition, EmptySeq
<1> QED
  BY <1>3 DEF TurnAt

LEMMA EmptyPrefix ==
  ASSUME NEW p
  PROVE  Prefix(p, 0) = <<>> /\ TurnAt(Prefix(p, 0)) = 0
<1>1. Prefix(p, 0) = <<>>
  BY SubSeqEmpty DEF Prefix
<1> QED
  BY <1>1 DEF TurnAt

LEMMA PrefixOfPrefix ==
  ASSUME NEW p \in Position, NEW n \in 0..Len(p), NEW k \in 0..n
  PROVE  Prefix(Prefix(p, n), k) = Prefix(p, k)
<1>1. Len(p) \in Nat
  BY LenProperties DEF Position
<1>2. /\ Prefix(p, n) \in Position /\ Len(Prefix(p, n)) = n
      /\ \A i \in 1..n : Prefix(p, n)[i] = p[i]
  BY PrefixPosition
<1>3. /\ Prefix(p, k) \in Position /\ Len(Prefix(p, k)) = k
      /\ \A i \in 1..k : Prefix(p, k)[i] = p[i]
  BY <1>1, PrefixPosition
<1>4. /\ Prefix(Prefix(p, n), k) \in Position /\ Len(Prefix(Prefix(p, n), k)) = k
      /\ \A i \in 1..k : Prefix(Prefix(p, n), k)[i] = Prefix(p, n)[i]
  BY <1>2, PrefixPosition
<1>5. \A i \in 1..k : Prefix(Prefix(p, n), k)[i] = Prefix(p, k)[i]
  BY <1>1, <1>2, <1>3, <1>4
<1> QED
  BY <1>3, <1>4, <1>5, SeqEqual DEF Position

LEMMA PrefixOfAppend ==
  ASSUME NEW p \in Position, NEW m \in Move, NEW k \in 0..Len(p)
  PROVE  Prefix(Append(p, m), k) = Prefix(p, k)
<1>1. /\ Len(p) \in Nat /\ Append(p, m) \in Position /\ Len(Append(p, m)) = Len(p) + 1
      /\ \A i \in 1..Len(p) : Append(p, m)[i] = p[i]
  BY LenProperties DEF Position
<1>2. /\ Prefix(p, k) \in Position /\ Len(Prefix(p, k)) = k
      /\ \A i \in 1..k : Prefix(p, k)[i] = p[i]
  BY <1>1, PrefixPosition
<1>3. /\ Prefix(Append(p, m), k) \in Position /\ Len(Prefix(Append(p, m), k)) = k
      /\ \A i \in 1..k : Prefix(Append(p, m), k)[i] = Append(p, m)[i]
  <2> DEFINE q == Append(p, m)
  <2>1. q \in Position /\ k \in 0..Len(q)
    BY <1>1
  <2> HIDE DEF q
  <2>2. /\ Prefix(q, k) \in Position /\ Len(Prefix(q, k)) = k
        /\ \A i \in 1..k : Prefix(q, k)[i] = q[i]
    BY <2>1, PrefixPosition
  <2> QED
    BY <2>2 DEF q
<1>4. \A i \in 1..k : Prefix(Append(p, m), k)[i] = Prefix(p, k)[i]
  BY <1>1, <1>2, <1>3
<1> QED
  BY <1>2, <1>3, <1>4, SeqEqual DEF Position

----------------------------------------------------------------------------
(* What the verdict of reconcile_table means.                              *)

\* In a position that extends the effect's, the verdict is about the first
\* move after it that is a material one or a timeout.
LEMMA VerdictMeaning ==
  ASSUME SteppedOver, NEW p \in Position, NEW e \in EffectId,
         Len(e.pos) <= Len(p), e.pos = Prefix(p, Len(e.pos)),
         \A i \in 1..Len(p) : p[i].kind = "timeout" => p[i].form = "timeout"
  PROVE  LET rest == Len(e.pos) + 1 .. Len(p)
             First(i) == i \in rest /\ Settles(p[i])
                         /\ \A k \in rest : k < i => ~Settles(p[k])
         IN  /\ Verdict(p, e) = "PENDING" => \A i \in rest : ~Settles(p[i])
             /\ Verdict(p, e) = "CONFIRMED" =>
                   \E i \in rest : /\ First(i) /\ p[i].kind = "act"
                                   /\ <<e.action, p[i].form>> \in Renders
             /\ Verdict(p, e) = "ABORTED_STALE" =>
                   \E i \in rest :
                      /\ First(i)
                      /\ p[i].kind = "timeout" \/ <<e.action, p[i].form>> \notin Renders
<1> DEFINE n == Len(e.pos)
           rest == n + 1 .. Len(p)
           A == After(p, e)
<1>1. n \in Nat /\ Len(p) \in Nat /\ DOMAIN p = 1..Len(p)
  BY LenProperties DEF Position, EffectId
<1>2. \A i \in 1..Len(p) : p[i] \in Move
  BY ElementOfSeq DEF Position
<1>3. A = {i \in rest : Settles(p[i])} /\ A \subseteq Nat
  <2>1. \A i \in 1..Len(p) : p[i].kind \in {"act", "timeout", "resign", "leave"}
    BY <1>2 DEF Move, Kinds, SteppedOver
  <2>2. \A i : i \in A <=> i \in rest /\ Settles(p[i])
    BY <1>1, <2>1 DEF After, Settles
  <2>3. A \subseteq Nat
    BY <1>1, <2>2
  <2> HIDE DEF A
  <2> QED
    BY <2>2, <2>3
<1>4. ~(Len(p) = n /\ p # e.pos)
  <2>1. Prefix(p, Len(p)) = p
    BY SubSeqFull DEF Prefix, Position
  <2> QED
    BY <2>1
<1>5. CASE A = {}
  <2>1. Verdict(p, e) = "PENDING"
    BY <1>4, <1>5 DEF Verdict
  <2> QED
    BY <1>3, <1>5, <2>1
<1>6. CASE A # {}
  <2> DEFINE first == CHOOSE i \in A : \A k \in A : i <= k
  <2>1. first \in A /\ \A k \in A : first <= k
    <3>1. \E i \in A : \A k \in A : i <= k
      <4> HIDE DEF A
      <4> QED
        BY <1>3, <1>6, LeastElement
    <3> QED
      BY <3>1
  <2>2. Len(p) > n
    BY <1>1, <1>3, <1>6
  <2>3. Verdict(p, e) = IF <<e.action, p[first].form>> \in Renders
                        THEN "CONFIRMED" ELSE "ABORTED_STALE"
    BY <1>6, <2>2 DEF Verdict, wire_actions_equivalent
  <2> HIDE DEF first
  <2>4. /\ first \in rest /\ Settles(p[first])
        /\ \A k \in rest : k < first => ~Settles(p[k])
    BY <1>1, <1>3, <2>1
  <2>5. p[first].kind # "act" => <<e.action, p[first].form>> \notin Renders
    BY <1>1, <2>4, RendersAssumption DEF Settles
  <2> QED
    BY <1>1, <2>3, <2>4, <2>5 DEF Settles
<1> QED
  BY <1>5, <1>6

----------------------------------------------------------------------------
(* The inductive invariant.                                                *)

\* Turns only go up in a game's moves, and nothing follows a timeout.
HistoryOrdered ==
    \A g \in Games : \A i \in 1..Len(history[g]) :
        /\ history[g][i].kind = "timeout" => history[g][i].form = "timeout"
        /\ \A k \in 1..Len(history[g]) : i < k =>
              /\ history[g][i].kind # "timeout"
              /\ history[g][i].turn <= history[g][k].turn
              /\ history[g][i].kind = "act" =>
                    history[g][i].turn < history[g][k].turn

\* An effect was decided on a position the client has seen.
Anchored(e) ==
    /\ Len(e.pos) <= seen[e.game]
    /\ e.pos = Prefix(history[e.game], Len(e.pos))

\* What the client has seen is reflected in the effect's status.
Judged(e) ==
    /\ effects[e].status \notin Terminal =>
          \A i \in Len(e.pos) + 1 .. seen[e.game] : ~Settles(history[e.game][i])
    /\ effects[e].status = "CONFIRMED" =>
          \E i \in Settling(e) :
             /\ i <= seen[e.game]
             /\ history[e.game][i].kind = "act"
             /\ <<e.action, history[e.game][i].form>> \in Renders
    /\ effects[e].status = "ABORTED_STALE" =>
          \E i \in Settling(e) :
             /\ i <= seen[e.game]
             /\ \/ history[e.game][i].kind = "timeout"
                \/ <<e.action, history[e.game][i].form>> \notin Renders

DistinctTurns ==
    \A d, e \in DOMAIN effects :
        d # e /\ SameTurn(d, e) =>
            "ABORTED_ERROR" \in {effects[d].status, effects[e].status}

OutcomeInv ==
    /\ TypeOK /\ HistoryOrdered
    /\ \A e \in DOMAIN effects : Anchored(e) /\ Judged(e)
    /\ DistinctTurns

----------------------------------------------------------------------------
(* What a step does to the moves of a game.                                *)

HistoryKept ==
    \A g \in Games :
        /\ Len(history[g]) <= Len(history'[g])
        /\ \A k \in 0..Len(history[g]) :
              Prefix(history'[g], k) = Prefix(history[g], k)
        /\ \A i \in 1..Len(history[g]) : history'[g][i] = history[g][i]

LEMMA ExtendKeeps ==
  ASSUME TypeOK, HistoryOrdered, NEW g \in Games, NEW kind \in Kinds,
         NEW form \in Forms \cup Kinds, kind = "timeout" => form = "timeout",
         Extend(g, kind, form)
  PROVE  HistoryKept /\ HistoryOrdered'
<1> DEFINE p == history[g]
           m == [kind |-> kind, form |-> form, turn |-> TurnAt(p)]
           q == Append(p, m)
<1>1. p \in Position /\ TurnAt(p) \in Nat /\ Len(p) \in Nat
  BY TurnAtNat, LenProperties DEF TypeOK, Position
<1>2. m \in Move
  BY <1>1 DEF Move
<1>3. /\ Len(q) = Len(p) + 1 /\ q[Len(p) + 1] = m
      /\ \A i \in 1..Len(p) : q[i] = p[i]
  BY <1>1, <1>2 DEF Position
<1>4. \A k \in 0..Len(p) : Prefix(q, k) = Prefix(p, k)
  BY <1>1, <1>2, PrefixOfAppend
<1>5. history'[g] = q /\ \A h \in Games \ {g} : history'[h] = history[h]
  BY DEF Extend, TypeOK
<1>6. ~GameOver(p)
  BY DEF Extend
<1>7. \A h \in Games : Len(history[h]) \in Nat
  BY LenProperties DEF TypeOK, Position
<1>8. HistoryKept
  <2>1. ASSUME NEW h \in Games
        PROVE  /\ Len(history[h]) <= Len(history'[h])
               /\ \A k \in 0..Len(history[h]) : Prefix(history'[h], k) = Prefix(history[h], k)
               /\ \A i \in 1..Len(history[h]) : history'[h][i] = history[h][i]
    <3>1. CASE h = g
      <4> HIDE DEF q
      <4> QED
        BY <1>1, <1>3, <1>4, <1>5, <3>1
    <3>2. CASE h # g
      BY <1>5, <1>7, <3>2
    <3> QED
      BY <3>1, <3>2
  <2> QED
    BY <2>1 DEF HistoryKept
<1>9. \A i \in 1..Len(p) : /\ p[i].kind # "timeout" /\ p[i].turn <= TurnAt(p)
                           /\ p[i].kind = "act" => p[i].turn < TurnAt(p)
  <2> SUFFICES ASSUME NEW i \in 1..Len(p)
               PROVE  /\ p[i].kind # "timeout" /\ p[i].turn <= TurnAt(p)
                      /\ p[i].kind = "act" => p[i].turn < TurnAt(p)
    OBVIOUS
  <2>1. /\ Len(p) \in 1..Len(p) /\ p # <<>>
        /\ p[i] \in Move /\ p[Len(p)] \in Move
    BY <1>1, EmptySeq, ElementOfSeq DEF Position
  <2>2. TurnAt(p) = IF p[Len(p)].kind = "act" THEN p[Len(p)].turn + 1
                    ELSE p[Len(p)].turn
    BY <2>1 DEF TurnAt
  <2>3. p[Len(p)].kind # "timeout"
    BY <1>6, <2>1 DEF GameOver
  <2>4. i < Len(p) => /\ p[i].kind # "timeout" /\ p[i].turn <= p[Len(p)].turn
                      /\ p[i].kind = "act" => p[i].turn < p[Len(p)].turn
    BY <2>1 DEF HistoryOrdered
  <2>5. p[i].turn \in Nat /\ p[Len(p)].turn \in Nat
    BY <2>1 DEF Move
  <2> HIDE DEF p
  <2>6. CASE i = Len(p)
    BY <2>2, <2>3, <2>5, <2>6
  <2>7. CASE i < Len(p)
    BY <2>2, <2>4, <2>5, <2>7
  <2> QED
    BY <1>1, <2>6, <2>7
<1>10. HistoryOrdered'
  <2> SUFFICES ASSUME NEW h \in Games, NEW i \in 1..Len(history'[h])
               PROVE  /\ history'[h][i].kind = "timeout" => history'[h][i].form = "timeout"
                      /\ \A k \in 1..Len(history'[h]) : i < k =>
                           /\ history'[h][i].kind # "timeout"
                           /\ history'[h][i].turn <= history'[h][k].turn
                           /\ history'[h][i].kind = "act" =>
                                 history'[h][i].turn < history'[h][k].turn
    BY DEF HistoryOrdered
  <2>1. CASE h # g
    BY <1>5, <2>1 DEF HistoryOrdered
  <2>2. CASE h = g
    <3>1. \A k \in 1..Len(q) : k \in 1..Len(p) \/ k = Len(p) + 1
      BY <1>1, <1>3
    <3>2. m.turn = TurnAt(p) /\ m.kind = kind /\ m.form = form
      OBVIOUS
    <3> HIDE DEF m, q
    <3>3. i \in 1..Len(q)
      BY <1>5, <2>2
    <3>4. q[i].kind = "timeout" => q[i].form = "timeout"
      BY <1>3, <3>1, <3>2, <3>3 DEF HistoryOrdered
    <3>5. ASSUME NEW k \in 1..Len(q), i < k
          PROVE  /\ q[i].kind # "timeout" /\ q[i].turn <= q[k].turn
                 /\ q[i].kind = "act" => q[i].turn < q[k].turn
      <4>1. i \in 1..Len(p)
        BY <1>1, <1>3, <3>3, <3>5
      <4>2. CASE k = Len(p) + 1
        BY <1>3, <1>9, <3>2, <4>1, <4>2
      <4>3. CASE k \in 1..Len(p)
        BY <1>3, <3>5, <4>1, <4>3 DEF HistoryOrdered
      <4> QED
        BY <3>1, <4>2, <4>3
    <3> QED
      BY <1>5, <2>2, <3>4, <3>5
  <2> QED
    BY <2>1, <2>2
<1> QED
  BY <1>8, <1>10

\* Every step keeps the moves there are, and their order.
LEMMA HistoryStep ==
  ASSUME TypeOK, HistoryOrdered, [ClientNext]_vars
  PROVE  HistoryKept /\ HistoryOrdered'
<1>1. ASSUME UNCHANGED history PROVE HistoryKept /\ HistoryOrdered'
  <2>1. \A g \in Games : Len(history[g]) \in Nat
    BY LenProperties DEF TypeOK, Position
  <2> QED
    BY <1>1, <2>1 DEF HistoryKept, HistoryOrdered
<1>2. ASSUME NEW e \in DOMAIN lines, NEW f \in Forms, Deliver(e, f)
      PROVE  HistoryKept /\ HistoryOrdered'
  <2>1. e.game \in Games
    BY DEF TypeOK, EffectId
  <2>2. CASE Extend(e.game, "act", f)
    BY <2>1, <2>2, ExtendKeeps DEF Kinds
  <2> QED
    BY <1>1, <1>2, <2>2 DEF Deliver
<1>3. ASSUME NEW g \in Games, NEW f \in Forms, OpponentMoves(g, f)
      PROVE  HistoryKept /\ HistoryOrdered'
  BY <1>3, ExtendKeeps DEF OpponentMoves, Kinds
<1>4. ASSUME NEW g \in Games, NEW k \in Kinds \ {"act"}, Interleave(g, k)
      PROVE  HistoryKept /\ HistoryOrdered'
  BY <1>4, ExtendKeeps DEF Interleave
<1>5. ASSUME NEW e \in DOMAIN lines, Lose(e) PROVE UNCHANGED history
  BY <1>5 DEF Lose
<1>6. ASSUME NEW g \in Games, Play(g) \/ End(g) \/ TableError(g) \/ FailGame(g)
      PROVE  UNCHANGED history
  BY <1>6 DEF Play, End, TableError, FailGame
<1>7. ASSUME NEW g \in Games, NEW n \in 0..Len(history[g]), Start(g, n)
      PROVE  UNCHANGED history
  BY <1>7 DEF Start
<1>8. ASSUME NEW g \in Games, NEW a \in Actions, Begin(g, a)
      PROVE  UNCHANGED history
  BY <1>8 DEF Begin
<1>9. CASE SendNew \/ SendFails \/ mark_send_returned \/ Restart \/ UNCHANGED vars
  BY <1>1, <1>9 DEF SendNew, Transmit, SendFails, mark_send_returned, Restart, vars
<1> QED
  BY <1>1, <1>2, <1>3, <1>4, <1>5, <1>6, <1>7, <1>8, <1>9 DEF ClientNext, Server

----------------------------------------------------------------------------
(* What a step does to the effects.                                        *)

Reconciles(g, n) ==
    /\ n \in seen[g]..Len(history[g])
    /\ effects' = reconcile_table(effects, g, Prefix(history[g], n))
    /\ seen' = [seen EXCEPT ![g] = n]
    /\ history' = history

\* No verdict: an open effect stays open or is aborted by a table error.
NoVerdict ==
    /\ seen' = seen
    /\ DOMAIN effects' = DOMAIN effects
    /\ \A e \in DOMAIN effects :
          \/ effects'[e].status = effects[e].status
          \/ /\ effects[e].status \notin Terminal
             /\ effects'[e].status \in (Status \ Terminal) \cup {"ABORTED_ERROR"}

LEMMA EffectStep ==
  ASSUME TypeOK, [ClientNext]_vars
  PROVE  \/ \E g \in Games, a \in Actions : Begin(g, a)
         \/ \E g \in Games, n \in Nat : Reconciles(g, n)
         \/ NoVerdict
<1>a. effects \in [Journaled -> EffectStates] /\ DOMAIN effects = Journaled
  BY DEF TypeOK, Journaled, EffectStates
<1>1. ASSUME NEW g \in Games, Play(g) PROVE \E n \in Nat : Reconciles(g, n)
  <2>1. seen[g] \in Nat /\ Len(history[g]) \in Nat /\ seen[g] < Len(history[g])
    BY <1>1, LenProperties DEF TypeOK, Position, Play
  <2>2. Reconciles(g, seen[g] + 1)
    BY <1>1, <2>1 DEF Play, Reconciles
  <2> QED
    BY <2>1, <2>2
<1>2. ASSUME NEW g \in Games, NEW n \in 0..Len(history[g]), Start(g, n)
      PROVE  \E k \in Nat : Reconciles(g, k)
  <2>1. seen[g] \in Nat /\ Len(history[g]) \in Nat
    BY LenProperties DEF TypeOK, Position
  <2>2. Reconciles(g, n)
    BY <1>2, <2>1 DEF Start, Reconciles
  <2> QED
    BY <2>2
<1>3. ASSUME NEW g \in Games, TableError(g) PROVE NoVerdict
  <2>1. /\ effects' = SetStatus(effects, Pending(effects, g), "ABORTED_ERROR")
        /\ "ABORTED_ERROR" \in Status /\ seen' = seen
    BY <1>3 DEF TableError, Status, Terminal
  <2>2. /\ DOMAIN effects' = Journaled
        /\ \A e \in Journaled : effects'[e].status =
              IF e \in Pending(effects, g) THEN "ABORTED_ERROR" ELSE effects[e].status
    BY <1>a, <2>1, SetStatusType
  <2> QED
    BY <1>a, <2>1, <2>2 DEF NoVerdict, Pending
<1>4. CASE mark_send_returned
  <2>1. call.effect \in Journaled
    BY <1>4 DEF mark_send_returned, TypeOK, Call, Idle, Journaled
  <2> QED
    BY <1>4, <1>a, <2>1 DEF mark_send_returned, NoVerdict, Status, Terminal
<1>5. ASSUME effects' = effects, seen' = seen PROVE NoVerdict
  BY <1>5 DEF NoVerdict
<1>6. CASE SendNew \/ SendFails \/ Restart \/ UNCHANGED vars
  BY <1>5, <1>6 DEF SendNew, Transmit, SendFails, Restart, vars
<1>7. ASSUME NEW g \in Games,
             \/ End(g) \/ FailGame(g)
             \/ \E f \in Forms : OpponentMoves(g, f)
             \/ \E k \in Kinds \ {"act"} : Interleave(g, k)
      PROVE  NoVerdict
  BY <1>5, <1>7 DEF End, FailGame, OpponentMoves, Interleave
<1>8. ASSUME NEW e \in DOMAIN lines, Lose(e) \/ \E f \in Forms : Deliver(e, f)
      PROVE  NoVerdict
  BY <1>5, <1>8 DEF Lose, Deliver
<1> QED
  BY <1>1, <1>2, <1>3, <1>4, <1>6, <1>7, <1>8 DEF ClientNext, Server

----------------------------------------------------------------------------
(* Preservation.                                                           *)

\* An effect of the journal in the terms of its game.
LEMMA EffectFacts ==
  ASSUME OutcomeInv, NEW e \in DOMAIN effects
  PROVE  /\ e \in EffectId /\ e.game \in Games /\ e.pos \in Position
         /\ Len(e.pos) \in Nat /\ seen[e.game] \in Nat /\ Len(history[e.game]) \in Nat
         /\ Len(e.pos) <= seen[e.game] /\ seen[e.game] <= Len(history[e.game])
         /\ DOMAIN history[e.game] = 1..Len(history[e.game])
         /\ history[e.game] \in Position
<1>1. e \in EffectId /\ e.game \in Games /\ e.pos \in Position
  BY DEF OutcomeInv, TypeOK, EffectId
<1>2. /\ history[e.game] \in Position /\ seen[e.game] \in Nat
      /\ seen[e.game] <= Len(history[e.game])
  BY <1>1 DEF OutcomeInv, TypeOK
<1>3. /\ Len(e.pos) \in Nat /\ Len(history[e.game]) \in Nat
      /\ DOMAIN history[e.game] = 1..Len(history[e.game])
  BY <1>1, <1>2, LenProperties DEF Position
<1> QED
  BY <1>1, <1>2, <1>3 DEF OutcomeInv, Anchored

LEMMA AnchoredKept ==
  ASSUME OutcomeInv, HistoryKept, NEW e \in DOMAIN effects,
         seen[e.game] <= seen'[e.game], seen'[e.game] \in Nat
  PROVE  Anchored(e)'
<1>1. Prefix(history'[e.game], Len(e.pos)) = Prefix(history[e.game], Len(e.pos))
  BY EffectFacts DEF HistoryKept
<1> QED
  BY <1>1, EffectFacts DEF OutcomeInv, Anchored

\* A move that settles an effect keeps doing so.
LEMMA SettlingKept ==
  ASSUME OutcomeInv, HistoryKept, TypeOK', NEW e \in DOMAIN effects, NEW i \in Settling(e)
  PROVE  i \in Settling(e)' /\ history'[e.game][i] = history[e.game][i]
<1> DEFINE p == history[e.game]
           q == history'[e.game]
           n == Len(e.pos)
<1>1. /\ DOMAIN p = 1..Len(p) /\ Len(p) \in Nat /\ n \in Nat
      /\ e.game \in Games
  BY EffectFacts
<1>2. Len(p) <= Len(q) /\ \A k \in 1..Len(p) : q[k] = p[k]
  BY <1>1 DEF HistoryKept
<1>3. DOMAIN q = 1..Len(q) /\ Len(q) \in Nat
  <2>1. q \in Position
    BY <1>1 DEF TypeOK
  <2> QED
    BY <2>1, LenProperties DEF Position
<1>4. /\ i \in 1..Len(p) /\ i > n /\ p[i].kind \in {"act", "timeout"}
      /\ \A k \in n + 1 .. i - 1 : p[k].kind \notin {"act", "timeout"}
  BY <1>1 DEF Settling
<1> HIDE DEF p, q, n
<1>5. i \in DOMAIN q /\ i > n /\ q[i] = p[i]
  BY <1>1, <1>2, <1>3, <1>4
<1>6. \A k \in n + 1 .. i - 1 : q[k] = p[k]
  BY <1>1, <1>2, <1>4
<1> QED
  BY <1>4, <1>5, <1>6 DEF Settling, p, q, n

\* An effect that keeps its status keeps its verdict.
LEMMA JudgedKept ==
  ASSUME OutcomeInv, HistoryKept, TypeOK', NEW e \in DOMAIN effects,
         effects'[e].status = effects[e].status,
         seen[e.game] <= seen'[e.game], seen'[e.game] \in Nat,
         effects[e].status \notin Terminal => seen'[e.game] = seen[e.game]
  PROVE  Judged(e)'
<1>1. Judged(e)
  BY DEF OutcomeInv
<1>2. CASE effects[e].status \notin Terminal
  <2>1. \A i \in Len(e.pos) + 1 .. seen[e.game] :
           ~Settles(history[e.game][i]) /\ history'[e.game][i] = history[e.game][i]
    BY <1>1, <1>2, EffectFacts DEF Judged, HistoryKept
  <2> QED
    BY <1>2, <2>1 DEF Judged, Terminal
<1>3. CASE effects[e].status = "CONFIRMED"
  <2>1. PICK i \in Settling(e) : /\ i <= seen[e.game]
                                 /\ history[e.game][i].kind = "act"
                                 /\ <<e.action, history[e.game][i].form>> \in Renders
    BY <1>1, <1>3 DEF Judged
  <2>2. i \in Settling(e)' /\ history'[e.game][i] = history[e.game][i]
    BY SettlingKept
  <2>3. i <= seen'[e.game]
    BY <2>1, EffectFacts DEF Settling
  <2> QED
    BY <1>3, <2>1, <2>2, <2>3 DEF Judged, Terminal
<1>4. CASE effects[e].status = "ABORTED_STALE"
  <2>1. PICK i \in Settling(e) : /\ i <= seen[e.game]
                                 /\ \/ history[e.game][i].kind = "timeout"
                                    \/ <<e.action, history[e.game][i].form>> \notin Renders
    BY <1>1, <1>4 DEF Judged
  <2>2. i \in Settling(e)' /\ history'[e.game][i] = history[e.game][i]
    BY SettlingKept
  <2>3. i <= seen'[e.game]
    BY <2>1, EffectFacts DEF Settling
  <2> QED
    BY <1>4, <2>1, <2>2, <2>3 DEF Judged, Terminal
<1> QED
  BY <1>2, <1>3, <1>4 DEF Judged, Terminal

\* A reconciliation judges rightly.
LEMMA ReconcileJudges ==
  ASSUME SteppedOver, OutcomeInv, TypeOK', NEW g \in Games, NEW n \in Nat,
         Reconciles(g, n), NEW e \in Pending(effects, g)
  PROVE  Judged(e)'
<1> DEFINE p == Prefix(history[g], n)
<1>a. /\ e \in DOMAIN effects /\ e.game = g /\ effects[e].status \notin Terminal
      /\ seen'[g] = n /\ history' = history /\ n <= Len(history[g]) /\ seen[g] <= n
  BY DEF Pending, Reconciles, OutcomeInv, TypeOK
<1>b. /\ e \in EffectId /\ Len(e.pos) \in Nat /\ Len(history[g]) \in Nat
      /\ Len(e.pos) <= n /\ history[g] \in Position
      /\ DOMAIN history[g] = 1..Len(history[g])
  BY <1>a, EffectFacts
<1>1. p \in Position /\ Len(p) = n /\ \A i \in 1..n : p[i] = history[g][i]
  BY <1>a, <1>b, PrefixPosition
<1>2. e.pos = Prefix(p, Len(e.pos))
  BY <1>a, <1>b, PrefixOfPrefix DEF OutcomeInv, Anchored
<1>3. \A i \in 1..Len(p) : p[i].kind = "timeout" => p[i].form = "timeout"
  BY <1>1, <1>a, <1>b DEF OutcomeInv, HistoryOrdered
<1>4. effects'[e] = IF Verdict(p, e) = "PENDING" THEN effects[e]
                    ELSE [effects[e] EXCEPT !.status = Verdict(p, e)]
  BY <1>a DEF Reconciles, reconcile_table
<1>5. effects[e] \in EffectStates
  BY <1>a DEF OutcomeInv, TypeOK, EffectStates
<1>6. effects'[e].status = IF Verdict(p, e) = "PENDING" THEN effects[e].status
                           ELSE Verdict(p, e)
  BY <1>4, <1>5 DEF EffectStates
<1> HIDE DEF p
<1> DEFINE rest == Len(e.pos) + 1 .. n
           First(i) == i \in rest /\ Settles(p[i])
                       /\ \A k \in rest : k < i => ~Settles(p[k])
<1>7. /\ Verdict(p, e) = "PENDING" => \A i \in rest : ~Settles(p[i])
      /\ Verdict(p, e) = "CONFIRMED" =>
            \E i \in rest : /\ First(i) /\ p[i].kind = "act"
                            /\ <<e.action, p[i].form>> \in Renders
      /\ Verdict(p, e) = "ABORTED_STALE" =>
            \E i \in rest :
               /\ First(i)
               /\ p[i].kind = "timeout" \/ <<e.action, p[i].form>> \notin Renders
  BY <1>1, <1>2, <1>3, <1>b, VerdictMeaning
<1>8. \A i \in rest : p[i] = history'[g][i]
  BY <1>1, <1>a, <1>b
<1>9. \A i \in rest : First(i) => i \in Settling(e)'
  BY <1>8, <1>a, <1>b DEF Settling, Settles
<1>10. CASE Verdict(p, e) = "PENDING"
  BY <1>6, <1>7, <1>8, <1>10, <1>a DEF Judged, Terminal
<1>11. CASE Verdict(p, e) = "CONFIRMED"
  <2>1. PICK i \in rest : /\ First(i) /\ p[i].kind = "act"
                          /\ <<e.action, p[i].form>> \in Renders
    BY <1>7, <1>11
  <2>2. i \in Settling(e)' /\ i <= seen'[e.game] /\ p[i] = history'[e.game][i]
    BY <1>8, <1>9, <1>a, <2>1
  <2> QED
    BY <1>6, <1>11, <2>1, <2>2 DEF Judged, Terminal
<1>12. CASE Verdict(p, e) = "ABORTED_STALE"
  <2>1. PICK i \in rest : /\ First(i)
                          /\ p[i].kind = "timeout" \/ <<e.action, p[i].form>> \notin Renders
    BY <1>7, <1>12
  <2>2. i \in Settling(e)' /\ i <= seen'[e.game] /\ p[i] = history'[e.game][i]
    BY <1>8, <1>9, <1>a, <2>1
  <2> QED
    BY <1>6, <1>12, <2>1, <2>2 DEF Judged, Terminal
<1> QED
  BY <1>10, <1>11, <1>12, VerdictType

\* Once an effect is judged, the turn it was for has passed.
LEMMA TurnPassed ==
  ASSUME OutcomeInv, NEW d \in DOMAIN effects, NEW i \in Settling(d),
         i <= seen[d.game], ~GameOver(View(d.game))
  PROVE  TurnAt(d.pos) < TurnAt(View(d.game))
<1> DEFINE g == d.game
           p == history[g]
           s == seen[g]
           n == Len(d.pos)
<1>1. /\ g \in Games /\ p \in Position /\ Len(p) \in Nat /\ s \in Nat /\ n \in Nat
      /\ s <= Len(p) /\ DOMAIN p = 1..Len(p) /\ d.pos = Prefix(p, n)
  BY EffectFacts DEF OutcomeInv, Anchored
<1>2. \A k \in 1..Len(p) : p[k].turn \in Nat
  <2>1. \A k \in 1..Len(p) : p[k] \in Move
    BY <1>1, ElementOfSeq DEF Position
  <2> QED
    BY <2>1 DEF Move
<1>3. /\ i \in 1..Len(p) /\ i > n /\ p[i].kind \in {"act", "timeout"} /\ i <= s
  BY <1>1 DEF Settling
<1>4. s \in 1..Len(p)
  BY <1>1, <1>3
<1>5. TurnAt(View(g)) = IF p[s].kind = "act" THEN p[s].turn + 1 ELSE p[s].turn
  BY <1>1, <1>4, TurnOfPrefix DEF View
<1>6. p[s].kind # "timeout"
  <2>1. /\ Prefix(p, s) # <<>> /\ Len(Prefix(p, s)) = s /\ Prefix(p, s)[s] = p[s]
    BY <1>1, <1>4, PrefixPosition, EmptySeq
  <2> QED
    BY <2>1 DEF GameOver, View
<1>7. TurnAt(d.pos) <= p[i].turn
  <2>1. CASE n = 0
    BY <1>1, <1>2, <1>3, <2>1, EmptyPrefix
  <2>2. CASE n # 0
    <3>1. n \in 1..Len(p) /\ n < i
      BY <1>1, <1>3, <2>2
    <3>2. TurnAt(d.pos) = IF p[n].kind = "act" THEN p[n].turn + 1 ELSE p[n].turn
      BY <1>1, <3>1, TurnOfPrefix
    <3>3. /\ p[n].turn <= p[i].turn
          /\ p[n].kind = "act" => p[n].turn < p[i].turn
      BY <1>1, <1>3, <3>1 DEF OutcomeInv, HistoryOrdered
    <3>4. p[n].turn \in Nat /\ p[i].turn \in Nat
      BY <1>2, <1>3, <3>1
    <3> HIDE DEF n, p
    <3> QED
      BY <3>2, <3>3, <3>4
  <2> QED
    BY <2>1, <2>2
<1>8. CASE i = s
  BY <1>2, <1>3, <1>4, <1>5, <1>6, <1>7, <1>8, TurnAtNat, EffectFacts
<1>9. CASE i < s
  <2>1. /\ p[i].kind = "act" /\ p[i].turn < p[s].turn
    BY <1>1, <1>3, <1>4, <1>9 DEF OutcomeInv, HistoryOrdered
  <2>2. TurnAt(d.pos) \in Nat /\ p[i].turn \in Nat /\ p[s].turn \in Nat
    BY <1>2, <1>3, <1>4, TurnAtNat, EffectFacts
  <2> HIDE DEF p, s
  <2> QED
    BY <1>5, <1>7, <2>1, <2>2
<1> QED
  BY <1>1, <1>3, <1>8, <1>9

LEMMA BeginKeeps ==
  ASSUME OutcomeInv, TypeOK', HistoryKept, NEW g \in Games, NEW a \in Actions, Begin(g, a)
  PROVE  (\A e \in DOMAIN effects : Anchored(e) /\ Judged(e))' /\ DistinctTurns'
<1>0. PICK new \in EffectId : new = [game |-> g, pos |-> View(g), action |-> a]
  BY ViewPosition DEF OutcomeInv, EffectId
<1>1. /\ Pending(effects, g) = {} /\ ~GameOver(View(g))
      /\ seen' = seen /\ history' = history
  BY DEF Begin
<1>2. /\ ClaimStep(g, new) /\ new.game = g /\ new.pos = View(g)
  BY <1>0, ClaimsWhenBegun DEF OutcomeInv
<1>3. /\ DOMAIN effects' = DOMAIN effects \cup {new}
      /\ \A d \in DOMAIN effects : effects'[d] = effects[d]
      /\ effects'[new].status = "INTENT"
  BY <1>2 DEF ClaimStep, Journaled
<1>4. /\ seen[g] \in Nat /\ seen[g] <= Len(history[g]) /\ Len(View(g)) = seen[g]
      /\ \A d \in DOMAIN effects : seen[d.game] \in Nat
  BY ViewPosition, EffectFacts DEF OutcomeInv, TypeOK
<1>5. \A d \in DOMAIN effects : Anchored(d)' /\ Judged(d)'
  BY <1>1, <1>3, <1>4, AnchoredKept, JudgedKept
<1>6. Anchored(new)' /\ Judged(new)'
  <2>1. Anchored(new)'
    BY <1>1, <1>2, <1>4 DEF Anchored, View
  <2>2. Judged(new)'
    BY <1>1, <1>2, <1>3, <1>4 DEF Judged, Terminal
  <2> QED
    BY <2>1, <2>2
<1>7. ASSUME NEW d \in DOMAIN effects, SameTurn(d, new)
      PROVE  effects[d].status = "ABORTED_ERROR"
  <2>1. d.game = g /\ TurnAt(d.pos) = TurnAt(View(g))
    BY <1>2, <1>7 DEF SameTurn
  <2>2. effects[d].status \in Terminal
    BY <1>1, <2>1 DEF Pending
  <2>3. ASSUME effects[d].status # "ABORTED_ERROR" PROVE FALSE
    <3>1. \E i \in Settling(d) : i <= seen[d.game]
      BY <2>2, <2>3 DEF OutcomeInv, Judged, Terminal
    <3>2. TurnAt(d.pos) < TurnAt(View(g))
      BY <1>1, <2>1, <3>1, TurnPassed
    <3>3. TurnAt(View(g)) \in Nat
      BY ViewPosition, TurnAtNat DEF OutcomeInv
    <3> QED
      BY <2>1, <3>2, <3>3
  <2> QED
    BY <2>3
<1>8. DistinctTurns'
  <2> SUFFICES ASSUME NEW d \in DOMAIN effects', NEW e \in DOMAIN effects',
                      d # e, SameTurn(d, e)
               PROVE  "ABORTED_ERROR" \in {effects'[d].status, effects'[e].status}
    BY DEF DistinctTurns, SameTurn
  <2>1. SameTurn(e, d)
    BY DEF SameTurn
  <2>2. CASE d \in DOMAIN effects /\ e \in DOMAIN effects
    BY <1>3, <2>2 DEF OutcomeInv, DistinctTurns
  <2>3. CASE d = new /\ e \in DOMAIN effects
    BY <1>3, <1>7, <2>1, <2>3
  <2>4. CASE e = new /\ d \in DOMAIN effects
    BY <1>3, <1>7, <2>4
  <2> QED
    BY <1>3, <2>2, <2>3, <2>4
<1> QED
  BY <1>3, <1>5, <1>6, <1>8

LEMMA DistinctTurnsKept ==
  ASSUME DistinctTurns, DOMAIN effects' = DOMAIN effects,
         \A e \in DOMAIN effects : effects[e].status = "ABORTED_ERROR" =>
                                      effects'[e].status = "ABORTED_ERROR"
  PROVE  DistinctTurns'
<1> SUFFICES ASSUME NEW d \in DOMAIN effects, NEW e \in DOMAIN effects,
                    d # e, SameTurn(d, e)
             PROVE  "ABORTED_ERROR" \in {effects'[d].status, effects'[e].status}
  BY DEF DistinctTurns, SameTurn
<1>1. "ABORTED_ERROR" \in {effects[d].status, effects[e].status}
  BY DEF DistinctTurns
<1> QED
  BY <1>1

LEMMA OutcomeInvInductive ==
  ASSUME SteppedOver, OutcomeInv, [ClientNext]_vars
  PROVE  OutcomeInv'
<1>1. TypeOK'
  <2>1. [ApiNext]_vars
    BY DEF ApiNext
  <2> QED
    BY <2>1, TypeOKInductive DEF OutcomeInv
<1>2. HistoryKept /\ HistoryOrdered'
  BY HistoryStep DEF OutcomeInv
<1>3. ASSUME NEW g \in Games, NEW a \in Actions, Begin(g, a) PROVE OutcomeInv'
  BY <1>1, <1>2, <1>3, BeginKeeps DEF OutcomeInv
<1>4. ASSUME NEW g \in Games, NEW n \in Nat, Reconciles(g, n) PROVE OutcomeInv'
  <2>1. /\ seen' = [seen EXCEPT ![g] = n] /\ seen \in [Games -> Nat] /\ seen[g] <= n
    BY <1>4 DEF Reconciles, OutcomeInv, TypeOK
  <2>2. /\ DOMAIN effects' = DOMAIN effects
        /\ \A e \in DOMAIN effects : e \notin Pending(effects, g) => effects'[e] = effects[e]
        /\ \A e \in Pending(effects, g) : effects[e].status \notin Terminal
    BY <1>4 DEF Reconciles, reconcile_table, Pending
  <2>3. \A e \in DOMAIN effects : seen[e.game] <= seen'[e.game] /\ seen'[e.game] \in Nat
    BY <2>1, EffectFacts
  <2>4. \A e \in DOMAIN effects : Anchored(e)'
    BY <1>2, <2>3, AnchoredKept
  <2>5. ASSUME NEW e \in DOMAIN effects PROVE Judged(e)'
    <3>1. CASE e \in Pending(effects, g)
      BY <1>1, <1>4, <3>1, ReconcileJudges
    <3>2. CASE e \notin Pending(effects, g)
      <4>1. effects[e].status \notin Terminal => e.game # g
        BY <3>2 DEF Pending
      <4>2. effects[e].status \notin Terminal => seen'[e.game] = seen[e.game]
        BY <2>1, <4>1, EffectFacts
      <4> QED
        BY <1>1, <1>2, <2>2, <2>3, <3>2, <4>2, JudgedKept
    <3> QED
      BY <3>1, <3>2
  <2>6. DistinctTurns'
    BY <2>2, DistinctTurnsKept DEF OutcomeInv, Terminal
  <2> QED
    BY <1>1, <1>2, <2>2, <2>4, <2>5, <2>6 DEF OutcomeInv
<1>5. CASE NoVerdict
  <2>1. \A e \in DOMAIN effects : seen[e.game] <= seen'[e.game] /\ seen'[e.game] \in Nat
                                  /\ seen'[e.game] = seen[e.game]
    BY <1>5, EffectFacts DEF NoVerdict
  <2>2. \A e \in DOMAIN effects : Anchored(e)'
    BY <1>2, <2>1, AnchoredKept
  <2>3. ASSUME NEW e \in DOMAIN effects PROVE Judged(e)'
    <3>1. CASE effects'[e].status = effects[e].status
      BY <1>1, <1>2, <2>1, <3>1, JudgedKept
    <3>2. CASE /\ effects[e].status \notin Terminal
               /\ effects'[e].status \in (Status \ Terminal) \cup {"ABORTED_ERROR"}
      <4>1. \A i \in Len(e.pos) + 1 .. seen[e.game] :
               ~Settles(history[e.game][i]) /\ history'[e.game][i] = history[e.game][i]
        BY <1>2, <3>2, EffectFacts DEF OutcomeInv, Judged, HistoryKept
      <4> QED
        BY <2>1, <3>2, <4>1 DEF Judged, Terminal
    <3> QED
      BY <1>5, <3>1, <3>2 DEF NoVerdict
  <2>4. DistinctTurns'
    BY <1>5, DistinctTurnsKept DEF OutcomeInv, NoVerdict, Terminal
  <2> QED
    BY <1>1, <1>2, <1>5, <2>2, <2>3, <2>4 DEF OutcomeInv, NoVerdict
<1> QED
  BY <1>3, <1>4, <1>5, EffectStep DEF OutcomeInv

LEMMA OutcomeInvInit == Init => OutcomeInv
<1> SUFFICES ASSUME Init PROVE OutcomeInv
  OBVIOUS
<1>1. TypeOK /\ DOMAIN effects = {} /\ \A g \in Games : Len(history[g]) = 0
  BY InitTypeOK, EmptySeq DEF Init
<1> QED
  BY <1>1 DEF OutcomeInv, HistoryOrdered, DistinctTurns

LEMMA OutcomeInvariant ==
  ASSUME SteppedOver
  PROVE  ClientSpec => []OutcomeInv
<1>1. Init => OutcomeInv
  BY OutcomeInvInit
<1>2. OutcomeInv /\ [ClientNext]_vars => OutcomeInv'
  BY OutcomeInvInductive
<1> QED
  BY <1>1, <1>2, PTL DEF ClientSpec

----------------------------------------------------------------------------
(* The results.                                                            *)

\* CONFIRMED means that the server played the effect's action in its turn, and
\* ABORTED_STALE that the turn went to something else.
THEOREM OutcomesAreTrue ==
  ASSUME SteppedOver
  PROVE  ClientSpec => []OutcomeIsTrue
<1>1. OutcomeInv => OutcomeIsTrue
  BY DEF OutcomeInv, Judged, OutcomeIsTrue
<1> QED
  BY <1>1, OutcomeInvariant, PTL

SentOnce == \A e \in DOMAIN lines : lines[e].sent <= 1

LEMMA SentOnceInvariant == ClientSpec => []SentOnce
<1>1. Init => SentOnce
  BY DEF Init, SentOnce
<1>2. AuthorityInv /\ SentOnce /\ [ClientNext]_vars => SentOnce'
  <2> SUFFICES ASSUME AuthorityInv, SentOnce, [ClientNext]_vars PROVE SentOnce'
    OBVIOUS
  <2>a. DOMAIN lines = Journaled
    BY DEF AuthorityInv, TypeOK, Journaled
  <2>1. CASE \E g \in Games, e \in EffectId : ClaimStep(g, e)
    BY <2>a, <2>1 DEF ClaimStep, SentOnce
  <2>2. CASE \E e \in Journaled : call = [pc |-> "prepared", effect |-> e] /\ SendStep(e)
    BY <2>a, <2>2 DEF SendStep, SentOnce, AuthorityInv, PreparedUnsent
  <2>3. CASE \E g \in Games : SettleStep(g)
    BY <2>3 DEF SettleStep, SentOnce
  <2>4. CASE NoteStep
    BY <2>a, <2>4 DEF NoteStep, SentOnce
  <2> QED
    BY <2>1, <2>2, <2>3, <2>4, ClientStep DEF AuthorityInv
<1> QED
  BY <1>1, <1>2, AuthorityInvariant, PTL DEF ClientSpec

\* A turn is answered by one line at most, whatever is lost, replayed or
\* restarted, unless a table error aborted one of its effects.
THEOREM TurnsAnsweredOnce ==
  ASSUME SteppedOver
  PROVE  ClientSpec => []SecondLineOnlyAfterError
<1>1. OutcomeInv /\ SentOnce => SecondLineOnlyAfterError
  BY DEF OutcomeInv, TypeOK, DistinctTurns, SentOnce, SecondLineOnlyAfterError
<1> QED
  BY <1>1, OutcomeInvariant, SentOnceInvariant, PTL
=============================================================================
