------------------------- MODULE DecisionHostProofs -------------------------
(***************************************************************************)
(* That the pool of inference processes loses none but with a replacement  *)
(* that does not start, gives none to two calls, and lets one call at a    *)
(* time value a hand: for any number of threads, processes, hands, faults  *)
(* and closes, under the threads of the gate worker and under the host.    *)
(* And that a player over the host asks about the game the engine plays,   *)
(* and reads the answers to what it asked.  And that of the players of a   *)
(* game on ISS exactly the one on turn is asked to act, whatever is played.*)
(***************************************************************************)
EXTENDS Decisions, FiniteSetTheorems, SequenceTheorems, WellFoundedInduction, TLAPS

Bounds ==
    [who : {"gate", "host", "iss"}, slots : 0..MaxProcs, faults : Nat, starts : Nat, closes : Nat]

ProcRecord ==
    [st : {"unborn", "loading", "idle", "busy", "slow", "dead"},
     out : {None, "ok", "failed", "garbage"}]

\* What a call asks for may be anything: only what is in Keys is looked up.
CallRecord(key) ==
    {r \in [pc : {"idle", "look", "wait", "enter", "acquire", "send", "read", "broken", "starting",
                  "finish", "value", "error"},
            key : {key}, worker : 0..MaxProcs, fresh : 0..MaxProcs, again : BOOLEAN,
            out : {None, "value", "error"}] :
        (r.pc = "finish" => r.out # None) /\ (r.pc = "starting" => r.fresh # 0)}

Types ==
    /\ left \in Bounds
    /\ proc \in [Procs -> ProcRecord]
    /\ all \subseteq Procs /\ avail \subseteq Procs
    /\ replacing \in Callers \cup {None}
    /\ closed \in BOOLEAN
    /\ DOMAIN call = Callers /\ call = [c \in Callers |-> call[c]]
    /\ \A c \in Callers : call[c] \in CallRecord(call[c].key)
    /\ inflight \in [Keys -> Callers \cup {None}]
    /\ lost \in Nat

\* Only a process at rest can be handed out; one that is being started is nobody's yet.
AvailIsIdle == \A w \in avail : proc[w].st \in {"idle", "dead"} /\ proc[w].out = None

HeldIsBorn ==
    \A c \in Callers : Holds(c) =>
        /\ call[c].worker \in Procs \ avail
        /\ proc[call[c].worker].st \notin {"unborn", "loading"}
        /\ call[c].pc = "send" => proc[call[c].worker].st \in {"idle", "dead"}
                                  /\ proc[call[c].worker].out = None

HeldApart ==
    \A c, d \in Callers : Holds(c) /\ Holds(d) /\ c # d => call[c].worker # call[d].worker

\* The answer in a pipe is that of a process that computes no more.
AnswersAreWhole == \A p \in Procs : proc[p].out # None => proc[p].st = "idle"

\* Who replaces holds the lock, and what it starts is in no other hands.
StartIsLocked ==
    \A c \in Callers : call[c].pc = "starting" =>
        /\ replacing = c
        /\ call[c].fresh \in Procs /\ proc[call[c].fresh].st = "loading"

PoolOpen ==
    ~closed => AvailIsIdle /\ HeldIsBorn /\ HeldApart /\ AnswersAreWhole /\ StartIsLocked
               /\ CapacityIsKept

\* Only the host ends with all its processes at once, and it is the only caller then.
HostIsAlone ==
    /\ "alive" \in DOMAIN host
    /\ host.alive => left.who = "host"
    /\ left.who # "gate" => \A c \in Callers \ {Host} : call[c].pc = "idle"

PoolInv == Types /\ PoolOpen /\ OneOwnerPerKey /\ HostIsAlone

----------------------------------------------------------------------------
(* What the actions' operators do.                                         *)

\* A call that moves is still a call, and no other call moves with it.
LEMMA CallMoves ==
  ASSUME Types, NEW c \in Callers, NEW r, NEW key, r \in CallRecord(key),
         call' = [call EXCEPT ![c] = r]
  PROVE  /\ DOMAIN call' = Callers /\ call' = [d \in Callers |-> call'[d]]
         /\ \A d \in Callers : call'[d] \in CallRecord(call'[d].key)
         /\ call'[c] = r
         /\ \A d \in Callers \ {c} : call'[d] = call[d]
<1>1. \A d \in Callers : call'[d] = IF d = c THEN r ELSE call[d]
  BY DEF Types
<1>2. r.key = key
  BY DEF CallRecord
<1> QED
  BY <1>1, <1>2 DEF Types

LEMMA SpendKeeps ==
  ASSUME left \in Bounds, Spend("faults") \/ Spend("starts") \/ Spend("closes")
  PROVE  left' \in Bounds /\ left'.who = left.who /\ left'.slots = left.slots
BY DEF Bounds, Spend

LEMMA ZeroInRange == 0 \in 0..MaxProcs
BY BoundAssumption

LEMMA HoldersAreFinite ==
  IsFiniteSet({c \in Callers : Holds(c)}) /\ Cardinality({c \in Callers : Holds(c)}) \in Nat
<1>1. IsFiniteSet({c \in Callers : Holds(c)})
  BY CallerAssumption, FS_Subset
<1> QED
  BY <1>1, FS_CardinalityType

LEMMA AvailIsFinite ==
  ASSUME NEW S \in SUBSET Procs
  PROVE  IsFiniteSet(S) /\ Cardinality(S) \in Nat
<1>1. IsFiniteSet(Procs)
  BY BoundAssumption, FS_Interval DEF Procs
<1>2. IsFiniteSet(S)
  BY <1>1, FS_Subset
<1> QED
  BY <1>2, FS_CardinalityType

\* A call that keeps or does not take a process leaves the count of holders as it is.
LEMMA SameHolders ==
  ASSUME \A d \in Callers : Holds(d)' = Holds(d)
  PROVE  {d \in Callers : Holds(d)}' = {d \in Callers : Holds(d)}
OBVIOUS

LEMMA OneHolderLess ==
  ASSUME NEW c \in Callers, Holds(c), ~Holds(c)',
         \A d \in Callers \ {c} : Holds(d)' = Holds(d)
  PROVE  Cardinality({d \in Callers : Holds(d)}') = Cardinality({d \in Callers : Holds(d)}) - 1
<1>1. {d \in Callers : Holds(d)}' = {d \in Callers : Holds(d)} \ {c}
  OBVIOUS
<1>2. c \in {d \in Callers : Holds(d)}
  OBVIOUS
<1> HIDE DEF Holds
<1> QED
  BY <1>1, <1>2, HoldersAreFinite, FS_RemoveElement

LEMMA OneHolderMore ==
  ASSUME NEW c \in Callers, ~Holds(c), Holds(c)',
         \A d \in Callers \ {c} : Holds(d)' = Holds(d)
  PROVE  Cardinality({d \in Callers : Holds(d)}') = Cardinality({d \in Callers : Holds(d)}) + 1
<1>1. {d \in Callers : Holds(d)}' = {d \in Callers : Holds(d)} \cup {c}
  OBVIOUS
<1>2. c \notin {d \in Callers : Holds(d)}
  OBVIOUS
<1> QED
  BY <1>1, <1>2, HoldersAreFinite, FS_AddElement

----------------------------------------------------------------------------
(* Calls that move and neither take a process nor give one back.           *)

LEMMA OpenByCalls ==
  ASSUME PoolInv, UNCHANGED <<proc, avail, replacing, closed, lost, left>>,
         \A d \in Callers : /\ Holds(d)' = Holds(d)
                            /\ Holds(d) => call'[d].worker = call[d].worker
                            /\ call'[d].pc \in {"send", "starting"} => call'[d] = call[d]
  PROVE  PoolOpen'
<1> SUFFICES ASSUME ~closed' PROVE AvailIsIdle' /\ HeldIsBorn' /\ HeldApart' /\ AnswersAreWhole'
                                   /\ StartIsLocked' /\ CapacityIsKept'
  BY DEF PoolOpen
<1>1. AvailIsIdle /\ HeldIsBorn /\ HeldApart /\ AnswersAreWhole /\ StartIsLocked /\ CapacityIsKept
  BY DEF PoolInv, PoolOpen
<1>2. AvailIsIdle' /\ AnswersAreWhole'
  BY <1>1 DEF AvailIsIdle, AnswersAreWhole
<1>3. HeldIsBorn' /\ HeldApart'
  BY <1>1 DEF HeldIsBorn, HeldApart
<1>4. StartIsLocked'
  BY <1>1 DEF StartIsLocked
<1>5. CapacityIsKept'
  BY <1>1, SameHolders DEF CapacityIsKept
<1> QED
  BY <1>2, <1>3, <1>4, <1>5

\* What one call does leaves the others' keys and the host as they are.
LEMMA AloneByCall ==
  ASSUME PoolInv, NEW c \in Callers, call[c].pc # "idle",
         \A d \in Callers \ {c} : call[d].pc = "idle" => call'[d].pc = "idle",
         left'.who = left.who, UNCHANGED host
  PROVE  HostIsAlone'
BY SeriesAssumption DEF PoolInv, HostIsAlone

\* Who is under way stays so, with its key: hands keep their owners.
LEMMA OwnersByCalls ==
  ASSUME PoolInv, inflight' = inflight,
         \A d \in Callers : UnderWay(d)' = UnderWay(d) /\ (UnderWay(d) => call'[d].key = call[d].key)
  PROVE  OneOwnerPerKey'
<1>1. \A k \in Keys : inflight[k] \in Callers \cup {None}
  BY DEF PoolInv, Types
<1>2. /\ \A k \in Keys : inflight[k] # None =>
            inflight[k] \in Callers /\ UnderWay(inflight[k]) /\ call[inflight[k]].key = k
      /\ \A d \in Callers : UnderWay(d) /\ call[d].key \in Keys => inflight[call[d].key] = d
  BY <1>1 DEF PoolInv, OneOwnerPerKey
<1> QED
  BY <1>2 DEF OneOwnerPerKey, UnderWay

LEMMA CallInv ==
  ASSUME PoolInv, NEW c \in Callers, NEW key, Call(c, key),
         HostIsAlone'
  PROVE  PoolInv'
<1> DEFINE r == [call[c] EXCEPT !.pc = IF key \in Keys THEN "look" ELSE "enter", !.key = key]
<1>1. Types /\ call[c] \in CallRecord(call[c].key) /\ call[c].pc = "idle"
  BY DEF PoolInv, Types, Call
<1>2. r \in CallRecord(key) /\ r.pc = (IF key \in Keys THEN "look" ELSE "enter") /\ r.key = key
  BY <1>1 DEF CallRecord
<1>3. call' = [call EXCEPT ![c] = r]
  BY <1>1 DEF Call
<1> HIDE DEF r
<1>4. /\ DOMAIN call' = Callers /\ call' = [d \in Callers |-> call'[d]]
      /\ \A d \in Callers : call'[d] \in CallRecord(call'[d].key)
      /\ call'[c] = r /\ \A d \in Callers \ {c} : call'[d] = call[d]
  BY <1>1, <1>2, <1>3, CallMoves
<1>5. Types'
  BY <1>1, <1>4 DEF Types, Call
<1>6. PoolOpen'
  <2>1. \A d \in Callers : /\ Holds(d)' = Holds(d)
                           /\ Holds(d) => call'[d].worker = call[d].worker
                           /\ call'[d].pc \in {"send", "starting"} => call'[d] = call[d]
    BY <1>1, <1>2, <1>4 DEF Holds
  <2> QED
    BY <2>1, OpenByCalls DEF Call
<1>7. OneOwnerPerKey'
  <2>1. \A d \in Callers \ {c} : UnderWay(d)' = UnderWay(d) /\ call'[d].key = call[d].key
    BY <1>4 DEF UnderWay
  <2>2. ~UnderWay(c) /\ (UnderWay(c)' => call'[c].key \notin Keys)
    BY <1>1, <1>2, <1>4 DEF UnderWay
  <2>3. /\ \A k \in Keys : inflight[k] # None =>
              inflight[k] \in Callers /\ UnderWay(inflight[k]) /\ call[inflight[k]].key = k
        /\ \A d \in Callers : UnderWay(d) /\ call[d].key \in Keys => inflight[call[d].key] = d
    BY <1>1 DEF PoolInv, OneOwnerPerKey, Types
  <2>4. inflight' = inflight
    BY DEF Call
  <2> QED
    BY <2>1, <2>2, <2>3, <2>4 DEF OneOwnerPerKey, UnderWay
<1> QED
  BY <1>5, <1>6, <1>7 DEF PoolInv

LEMMA LookInv ==
  ASSUME PoolInv, NEW c \in Callers, Look(c), UNCHANGED table
  PROVE  PoolInv'
<1>1. Types /\ call[c] \in CallRecord(call[c].key) /\ call[c].pc = "look"
  BY DEF PoolInv, Types, Look
<1>2. PICK pc \in {"value", "wait", "enter"} : call' = [call EXCEPT ![c] = [call[c] EXCEPT !.pc = pc]]
                                               /\ (pc # "enter" => inflight' = inflight)
                                               /\ (pc = "enter" => call[c].key \notin cache
                                                     /\ inflight[call[c].key] = None
                                                     /\ inflight' = [inflight EXCEPT ![call[c].key] = c])
  BY <1>1 DEF Look, Goto
<1> DEFINE r == [call[c] EXCEPT !.pc = pc]
<1>3. r \in CallRecord(call[c].key) /\ r.pc = pc /\ r.key = call[c].key
  BY <1>1 DEF CallRecord
<1> HIDE DEF r
<1>4. /\ DOMAIN call' = Callers /\ call' = [d \in Callers |-> call'[d]]
      /\ \A d \in Callers : call'[d] \in CallRecord(call'[d].key)
      /\ call'[c] = r /\ \A d \in Callers \ {c} : call'[d] = call[d]
  BY <1>1, <1>2, <1>3, CallMoves DEF r
<1>5. Types'
  BY <1>1, <1>2, <1>4 DEF Types, Look
<1>6. PoolOpen'
  <2>1. \A d \in Callers : /\ Holds(d)' = Holds(d)
                           /\ Holds(d) => call'[d].worker = call[d].worker
                           /\ call'[d].pc \in {"send", "starting"} => call'[d] = call[d]
    BY <1>1, <1>2, <1>3, <1>4 DEF Holds
  <2> QED
    BY <2>1, OpenByCalls DEF Look
<1>7. OneOwnerPerKey'
  <2>1. OneOwnerPerKey
    BY DEF PoolInv
  <2>2. \A d \in Callers \ {c} : UnderWay(d)' = UnderWay(d) /\ call'[d].key = call[d].key
    BY <1>4 DEF UnderWay
  <2>3. call'[c].key = call[c].key /\ ~UnderWay(c) /\ UnderWay(c)' = (pc = "enter")
    BY <1>1, <1>2, <1>3, <1>4 DEF UnderWay
  <2>4. CASE pc # "enter"
    <3>1. \A d \in Callers : UnderWay(d)' = UnderWay(d) /\ (UnderWay(d) => call'[d].key = call[d].key)
      BY <2>2, <2>3, <2>4 DEF UnderWay
    <3> QED
      BY <1>2, <2>4, <3>1, OwnersByCalls
  <2>5. CASE pc = "enter"
    <3>1. \A k \in Keys : inflight[k] # None =>
                inflight[k] \in Callers /\ UnderWay(inflight[k]) /\ call[inflight[k]].key = k
      BY <1>1, <2>1 DEF OneOwnerPerKey, Types
    <3>2. \A d \in Callers : UnderWay(d) /\ call[d].key \in Keys => inflight[call[d].key] = d
      BY <2>1 DEF OneOwnerPerKey
    <3>3. /\ inflight[call[c].key] = None /\ None \notin Callers
          /\ \A k \in Keys : inflight'[k] = IF k = call[c].key THEN c ELSE inflight[k]
      BY <1>1, <1>2, <2>5, CallerAssumption DEF Types
    <3>4. UnderWay(c)'
      BY <2>3, <2>5
    <3> QED
      BY <2>2, <2>3, <3>1, <3>2, <3>3, <3>4 DEF OneOwnerPerKey, UnderWay
  <2> QED
    BY <2>4, <2>5
<1>8. HostIsAlone'
  BY <1>1, <1>4, AloneByCall DEF Look, table
<1> QED
  BY <1>5, <1>6, <1>7, <1>8 DEF PoolInv

PcHolds(pc) == pc \in {"send", "read", "broken", "starting"}
PcUnderWay(pc) == pc \notin {"idle", "look", "wait", "value", "error"}

\* One call goes on, the pool does not notice, or is closed.
LEMMA QuietInv ==
  ASSUME PoolInv, NEW c \in Callers, NEW key, NEW r \in CallRecord(key),
         call' = [call EXCEPT ![c] = r],
         UNCHANGED <<proc, all, avail, replacing, closed, inflight, lost, left, host>>,
         call[c].pc # "idle", r.pc \notin {"send", "starting"},
         PcUnderWay(r.pc) = PcUnderWay(call[c].pc), PcUnderWay(r.pc) => key = call[c].key,
         closed \/ (PcHolds(r.pc) = PcHolds(call[c].pc) /\ r.worker = call[c].worker)
  PROVE  PoolInv'
<1>1. Types
  BY DEF PoolInv
<1>2. /\ DOMAIN call' = Callers /\ call' = [d \in Callers |-> call'[d]]
      /\ \A d \in Callers : call'[d] \in CallRecord(call'[d].key)
      /\ call'[c] = r /\ \A d \in Callers \ {c} : call'[d] = call[d]
  BY <1>1, CallMoves
<1>3. Types'
  BY <1>1, <1>2 DEF Types
<1>4. PoolOpen'
  <2>1. CASE closed
    BY <2>1 DEF PoolOpen
  <2>2. CASE ~closed
    <3>1. \A d \in Callers : /\ Holds(d)' = Holds(d)
                             /\ Holds(d) => call'[d].worker = call[d].worker
                             /\ call'[d].pc \in {"send", "starting"} => call'[d] = call[d]
      BY <1>2, <2>2 DEF Holds, PcHolds
    <3> QED
      BY <3>1, OpenByCalls
  <2> QED
    BY <2>1, <2>2
<1>5. OneOwnerPerKey'
  <2>1. r.key = key
    BY DEF CallRecord
  <2>2. \A d \in Callers : UnderWay(d)' = UnderWay(d) /\ (UnderWay(d) => call'[d].key = call[d].key)
    BY <1>2, <2>1 DEF UnderWay, PcUnderWay
  <2> QED
    BY <2>2, OwnersByCalls
<1>6. HostIsAlone'
  BY <1>2, AloneByCall
<1> QED
  BY <1>3, <1>4, <1>5, <1>6 DEF PoolInv

LEMMA CallOfTypes ==
  ASSUME PoolInv, NEW c \in Callers
  PROVE  call[c] \in CallRecord(call[c].key)
BY DEF PoolInv, Types

LEMMA QuietSteps ==
  ASSUME PoolInv, NEW c \in Callers, UNCHANGED <<host, left>>,
         WaitTimesOut(c) \/ Enter(c) \/ AcquireTimesOut(c) \/ Interrupted(c) \/ ReadFails(c)
  PROVE  PoolInv'
<1> USE CallOfTypes
<1> DEFINE fails(out) == [call[c] EXCEPT !.pc = "finish", !.out = out]
           goes(pc) == [call[c] EXCEPT !.pc = pc]
<1>1. /\ \A pc \in {"error", "acquire", "broken"} :
            goes(pc) \in CallRecord(call[c].key) /\ goes(pc).pc = pc /\ goes(pc).worker = call[c].worker
      /\ fails("error") \in CallRecord(call[c].key) /\ fails("error").pc = "finish"
      /\ fails("error").worker = call[c].worker
  BY DEF CallRecord, None
<1>2. /\ \A pc \in {"error", "acquire", "broken"} : Goto(c, pc) => call' = [call EXCEPT ![c] = goes(pc)]
      /\ Ends(c, "error") => call' = [call EXCEPT ![c] = fails("error")]
  BY DEF Goto, Ends
<1> HIDE DEF goes, fails
<1>3. CASE WaitTimesOut(c)
  BY <1>1, <1>2, <1>3, QuietInv DEF WaitTimesOut, PcHolds, PcUnderWay
<1>4. CASE Enter(c) /\ closed
  BY <1>1, <1>2, <1>4, QuietInv DEF Enter, PcHolds, PcUnderWay
<1>5. CASE Enter(c) /\ ~closed
  BY <1>1, <1>2, <1>5, QuietInv DEF Enter, PcHolds, PcUnderWay
<1>6. CASE AcquireTimesOut(c)
  BY <1>1, <1>2, <1>6, QuietInv DEF AcquireTimesOut, PcHolds, PcUnderWay
<1>7. CASE Interrupted(c)
  BY <1>1, <1>2, <1>7, QuietInv DEF Interrupted, PcHolds, PcUnderWay
<1>8. CASE ReadFails(c)
  BY <1>1, <1>2, <1>8, QuietInv DEF ReadFails, PcHolds, PcUnderWay
<1> QED
  BY <1>3, <1>4, <1>5, <1>6, <1>7, <1>8

LEMMA TakeInv ==
  ASSUME PoolInv, NEW c \in Callers, Take(c), "alive" \in DOMAIN host', host'.alive = host.alive
  PROVE  PoolInv'
<1>1. Types
  BY DEF PoolInv
<1>2. Idle \in CallRecord(None) /\ Idle.pc = "idle"
  BY BoundAssumption DEF Idle, CallRecord
<1>3. /\ DOMAIN call' = Callers /\ call' = [d \in Callers |-> call'[d]]
      /\ \A d \in Callers : call'[d] \in CallRecord(call'[d].key)
      /\ call'[c] = Idle /\ \A d \in Callers \ {c} : call'[d] = call[d]
  BY <1>1, <1>2, CallMoves DEF Take
<1>4. Types'
  BY <1>1, <1>3 DEF Types, Take
<1>5. PoolOpen'
  <2>1. \A d \in Callers : /\ Holds(d)' = Holds(d)
                           /\ Holds(d) => call'[d].worker = call[d].worker
                           /\ call'[d].pc \in {"send", "starting"} => call'[d] = call[d]
    BY <1>2, <1>3 DEF Holds, Take
  <2> QED
    BY <2>1, OpenByCalls DEF Take
<1>6. OneOwnerPerKey'
  <2>1. \A d \in Callers : UnderWay(d)' = UnderWay(d) /\ (UnderWay(d) => call'[d].key = call[d].key)
    BY <1>2, <1>3 DEF UnderWay, Take
  <2> QED
    BY <2>1, OwnersByCalls DEF Take
<1>7. HostIsAlone'
  BY <1>2, <1>3, SeriesAssumption DEF PoolInv, HostIsAlone, Take
<1> QED
  BY <1>4, <1>5, <1>6, <1>7 DEF PoolInv

\* The owner ends: its key is free, and who waited for it looks again.
LEMMA FinishInv ==
  ASSUME PoolInv, NEW c \in Callers, Finish(c), UNCHANGED host
  PROVE  PoolInv'
<1> DEFINE key == call[c].key
           end == [call[c] EXCEPT !.pc = call[c].out]
           looks(d) == [call[d] EXCEPT !.pc = "look"]
<1>1. Types /\ call[c].pc = "finish" /\ \A d \in Callers : call[d] \in CallRecord(call[d].key)
  BY DEF PoolInv, Types, Finish
<1>2. UnderWay(c) /\ (key \in Keys => inflight[key] = c)
  BY <1>1 DEF UnderWay, PoolInv, OneOwnerPerKey
<1>3. end \in CallRecord(key) /\ end.pc \in {"value", "error"} /\ end.key = key /\ end.worker = call[c].worker
  BY <1>1 DEF CallRecord
<1>4. \A d \in Callers : /\ looks(d) \in CallRecord(call[d].key) /\ looks(d).pc = "look"
                         /\ looks(d).key = call[d].key /\ looks(d).worker = call[d].worker
  BY <1>1 DEF CallRecord
<1>5. /\ DOMAIN call' = Callers /\ call' = [d \in Callers |-> call'[d]]
      /\ call'[c] = end
      /\ \A d \in Callers \ {c} : call'[d] = call[d] \/ (call[d].pc = "wait" /\ call'[d] = looks(d))
  BY DEF Finish
<1> HIDE DEF end, looks, key
<1>6. \A d \in Callers : call'[d] \in CallRecord(call'[d].key)
  <2>1. call'[c] \in CallRecord(call'[c].key)
    BY <1>3, <1>5
  <2>2. ASSUME NEW d \in Callers \ {c} PROVE call'[d] \in CallRecord(call'[d].key)
    BY <1>1, <1>4, <1>5, <2>2
  <2> QED
    BY <2>1, <2>2
<1>7. /\ inflight' \in [Keys -> Callers \cup {None}]
      /\ \A k \in Keys : inflight'[k] = IF k = key THEN None ELSE inflight[k]
  BY <1>1 DEF key, Finish, Types
<1>8. Types'
  BY <1>1, <1>5, <1>6, <1>7 DEF Types, Finish
<1>9. PoolOpen'
  <2>1. \A d \in Callers : /\ Holds(d)' = Holds(d)
                           /\ Holds(d) => call'[d].worker = call[d].worker
                           /\ call'[d].pc \in {"send", "starting"} => call'[d] = call[d]
    <3>1. ~Holds(c) /\ ~Holds(c)' /\ call'[c].pc \notin {"send", "starting"}
      BY <1>1, <1>3, <1>5 DEF Holds
    <3>2. ASSUME NEW d \in Callers \ {c}
          PROVE  /\ Holds(d)' = Holds(d) /\ (Holds(d) => call'[d].worker = call[d].worker)
                 /\ call'[d].pc \in {"send", "starting"} => call'[d] = call[d]
      BY <1>4, <1>5, <3>2 DEF Holds
    <3> QED
      BY <3>1, <3>2 DEF Holds
  <2> QED
    BY <2>1, OpenByCalls DEF Finish
<1>10. OneOwnerPerKey'
  <2>1. /\ \A k \in Keys : inflight[k] # None =>
              inflight[k] \in Callers /\ UnderWay(inflight[k]) /\ call[inflight[k]].key = k
        /\ \A d \in Callers : UnderWay(d) /\ call[d].key \in Keys => inflight[call[d].key] = d
    BY <1>1 DEF PoolInv, OneOwnerPerKey, Types
  <2>2. \A d \in Callers \ {c} : (UnderWay(d)' <=> UnderWay(d)) /\ call'[d].key = call[d].key
    BY <1>4, <1>5 DEF UnderWay
  <2>3. ~UnderWay(c)'
    BY <1>3, <1>5 DEF UnderWay
  <2>4. \A k \in Keys : inflight'[k] # None =>
            inflight'[k] \in Callers \ {c} /\ UnderWay(inflight'[k]) /\ call[inflight'[k]].key = k
    BY <1>7, <2>1 DEF key
  <2>5. \A k \in Keys : inflight'[k] # None => UnderWay(inflight[k])' /\ call'[inflight'[k]].key = k
    BY <2>2, <2>4 DEF UnderWay
  <2>6. \A d \in Callers : UnderWay(d)' /\ call'[d].key \in Keys => inflight'[call'[d].key] = d
    BY <1>2, <1>7, <2>1, <2>2, <2>3
  <2> QED
    BY <2>5, <2>6 DEF OneOwnerPerKey
<1>11. HostIsAlone'
  <2>1. call[c].pc # "idle" /\ \A d \in Callers \ {c} : call[d].pc = "idle" => call'[d].pc = "idle"
    BY <1>1, <1>5
  <2> QED
    BY <2>1, AloneByCall DEF Finish
<1> QED
  BY <1>8, <1>9, <1>10, <1>11 DEF PoolInv

----------------------------------------------------------------------------
(* Calls that take a process, use it, and give it back.                    *)

LEMMA AcquireInv ==
  ASSUME PoolInv, NEW c \in Callers, Acquire(c), UNCHANGED host
  PROVE  PoolInv'
<1>1. Types /\ call[c].pc = "acquire" /\ call[c] \in CallRecord(call[c].key)
  BY DEF PoolInv, Types, Acquire
<1>2. PICK w \in avail : /\ avail' = avail \ {w}
                         /\ call' = [call EXCEPT ![c] = [call[c] EXCEPT !.pc = "send", !.worker = w]]
  BY <1>1 DEF Acquire
<1> DEFINE r == [call[c] EXCEPT !.pc = "send", !.worker = w]
<1>3. w \in Procs /\ w \in 0..MaxProcs
  BY <1>1, BoundAssumption DEF Types, Procs
<1>4. r \in CallRecord(call[c].key) /\ r.pc = "send" /\ r.worker = w /\ r.key = call[c].key
  BY <1>1, <1>3 DEF CallRecord
<1> HIDE DEF r
<1>5. /\ DOMAIN call' = Callers /\ call' = [d \in Callers |-> call'[d]]
      /\ \A d \in Callers : call'[d] \in CallRecord(call'[d].key)
      /\ call'[c] = r /\ \A d \in Callers \ {c} : call'[d] = call[d]
  BY <1>1, <1>2, <1>4, CallMoves DEF r
<1>6. Types'
  BY <1>1, <1>2, <1>5 DEF Types, Acquire
<1>7. ASSUME ~closed' PROVE AvailIsIdle' /\ HeldIsBorn' /\ HeldApart' /\ AnswersAreWhole' /\ StartIsLocked'
                            /\ CapacityIsKept'
  <2>1. /\ ~closed /\ AvailIsIdle /\ HeldIsBorn /\ HeldApart /\ AnswersAreWhole /\ StartIsLocked /\ CapacityIsKept
        /\ UNCHANGED <<proc, replacing, closed, lost, left>>
    BY <1>7 DEF PoolInv, PoolOpen, Acquire
  <2>2. proc[w].st \in {"idle", "dead"} /\ proc[w].out = None
    BY <2>1 DEF AvailIsIdle
  <2>3. AvailIsIdle' /\ AnswersAreWhole'
    BY <1>2, <2>1 DEF AvailIsIdle, AnswersAreWhole
  <2>4. ~Holds(c) /\ Holds(c)' /\ \A d \in Callers \ {c} : Holds(d)' = Holds(d)
    BY <1>1, <1>4, <1>5 DEF Holds
  <2>5. HeldIsBorn'
    BY <1>2, <1>3, <1>4, <1>5, <2>1, <2>2, <2>4 DEF HeldIsBorn
  <2>6. HeldApart'
    BY <1>2, <1>4, <1>5, <2>1, <2>4 DEF HeldApart, HeldIsBorn
  <2>7. StartIsLocked'
    BY <1>4, <1>5, <2>1 DEF StartIsLocked
  <2>8. CapacityIsKept'
    <3>1. Cardinality(avail') = Cardinality(avail) - 1 /\ Cardinality(avail) \in Nat
      BY <1>1, <1>2, AvailIsFinite, FS_RemoveElement DEF Types
    <3>2. Cardinality({d \in Callers : Holds(d)}') = Cardinality({d \in Callers : Holds(d)}) + 1
      BY <2>4, OneHolderMore
    <3>3. Cardinality({d \in Callers : Holds(d)}) \in Nat /\ lost \in Nat
      BY <1>1, HoldersAreFinite DEF Types
    <3> QED
      BY <2>1, <3>1, <3>2, <3>3 DEF CapacityIsKept
  <2> QED
    BY <2>3, <2>5, <2>6, <2>7, <2>8
<1>8. OneOwnerPerKey'
  <2>1. \A d \in Callers : UnderWay(d)' = UnderWay(d) /\ (UnderWay(d) => call'[d].key = call[d].key)
    BY <1>1, <1>4, <1>5 DEF UnderWay
  <2> QED
    BY <2>1, OwnersByCalls DEF Acquire
<1>9. HostIsAlone'
  BY <1>1, <1>5, AloneByCall DEF Acquire
<1> QED
  BY <1>6, <1>7, <1>8, <1>9 DEF PoolInv, PoolOpen

LEMMA SendInv ==
  ASSUME PoolInv, NEW c \in Callers, Send(c), UNCHANGED host
  PROVE  PoolInv'
<1> DEFINE w == call[c].worker
           goes(pc) == [call[c] EXCEPT !.pc = pc]
           fails == [call[c] EXCEPT !.pc = "finish", !.out = "error"]
<1>1. Types /\ call[c].pc = "send" /\ call[c] \in CallRecord(call[c].key)
  BY DEF PoolInv, Types, Send
<1>2. /\ \A pc \in {"read", "broken"} :
            goes(pc) \in CallRecord(call[c].key) /\ goes(pc).pc = pc /\ goes(pc).worker = w
            /\ goes(pc).key = call[c].key
      /\ fails \in CallRecord(call[c].key) /\ fails.pc = "finish"
  BY <1>1 DEF CallRecord, None
<1>3. /\ \A pc : Goto(c, pc) => call' = [call EXCEPT ![c] = goes(pc)]
      /\ Ends(c, "error") => call' = [call EXCEPT ![c] = fails]
  BY DEF Goto, Ends
<1> HIDE DEF goes, fails
<1>4. CASE proc' = proc /\ Goto(c, "broken")
  BY <1>1, <1>2, <1>3, <1>4, QuietInv DEF Send, PcHolds, PcUnderWay
<1>5. CASE proc' = proc /\ closed /\ Ends(c, "error")
  BY <1>1, <1>2, <1>3, <1>5, QuietInv DEF Send, PcHolds, PcUnderWay
<1>6. CASE proc[w].st # "dead" /\ proc' = [proc EXCEPT ![w].st = "busy"] /\ Goto(c, "read")
  <2>1. /\ DOMAIN call' = Callers /\ call' = [d \in Callers |-> call'[d]]
        /\ \A d \in Callers : call'[d] \in CallRecord(call'[d].key)
        /\ call'[c] = goes("read") /\ \A d \in Callers \ {c} : call'[d] = call[d]
    BY <1>1, <1>2, <1>3, <1>6, CallMoves
  <2>2. proc' \in [Procs -> ProcRecord]
    BY <1>1, <1>6 DEF Types, ProcRecord
  <2>3. Types'
    BY <1>1, <2>1, <2>2 DEF Types, Send
  <2>4. ASSUME ~closed' PROVE AvailIsIdle' /\ HeldIsBorn' /\ HeldApart' /\ AnswersAreWhole' /\ StartIsLocked'
                              /\ CapacityIsKept'
    <3>1. /\ ~closed /\ AvailIsIdle /\ HeldIsBorn /\ HeldApart /\ AnswersAreWhole /\ StartIsLocked
          /\ CapacityIsKept /\ UNCHANGED <<avail, replacing, closed, lost, left>>
      BY <2>4 DEF PoolInv, PoolOpen, Send
    <3>2. w \in Procs \ avail /\ proc[w].st \in {"idle", "dead"} /\ proc[w].out = None
      BY <1>1, <3>1 DEF HeldIsBorn, Holds
    <3>3. /\ \A p \in Procs \ {w} : proc'[p] = proc[p]
          /\ proc'[w].st = "busy" /\ proc'[w].out = None
      BY <1>1, <1>6, <3>2 DEF Types, ProcRecord
    <3>4. Holds(c) /\ \A d \in Callers : Holds(d)' = Holds(d) /\ call'[d].worker = call[d].worker
      BY <1>1, <1>2, <2>1 DEF Holds
    <3>5. AvailIsIdle' /\ AnswersAreWhole'
      BY <1>1, <3>1, <3>2, <3>3 DEF AvailIsIdle, AnswersAreWhole, Types
    <3>6. HeldApart'
      BY <3>1, <3>4 DEF HeldApart
    <3>7. HeldIsBorn'
      <4>1. ASSUME NEW d \in Callers \ {c}, Holds(d) PROVE call[d].worker # w
        BY <3>1, <3>4, <4>1 DEF HeldApart
      <4> QED
        BY <1>2, <2>1, <3>1, <3>2, <3>3, <3>4, <4>1 DEF HeldIsBorn
    <3>8. StartIsLocked'
      BY <1>2, <2>1, <3>1, <3>2, <3>3 DEF StartIsLocked
    <3>9. CapacityIsKept'
      BY <3>1, <3>4, SameHolders DEF CapacityIsKept
    <3> QED
      BY <3>5, <3>6, <3>7, <3>8, <3>9
  <2>5. OneOwnerPerKey'
    <3>1. \A d \in Callers : UnderWay(d)' = UnderWay(d) /\ (UnderWay(d) => call'[d].key = call[d].key)
      BY <1>1, <1>2, <2>1 DEF UnderWay
    <3> QED
      BY <3>1, OwnersByCalls DEF Send
  <2>6. HostIsAlone'
    BY <1>1, <2>1, AloneByCall DEF Send
  <2> QED
    BY <2>3, <2>4, <2>5, <2>6 DEF PoolInv, PoolOpen
<1> QED
  BY <1>4, <1>5, <1>6 DEF Send

\* A process given back is at rest, with nothing in its pipe.
LEMMA ReadInv ==
  ASSUME PoolInv, NEW c \in Callers, Read(c), UNCHANGED host
  PROVE  PoolInv'
<1> DEFINE w == call[c].worker
           ends(out) == [call[c] EXCEPT !.pc = "finish", !.out = out]
<1>1. Types /\ call[c].pc = "read" /\ call[c] \in CallRecord(call[c].key)
  BY DEF PoolInv, Types, Read
<1>2. \A out \in {"value", "error"} :
         ends(out) \in CallRecord(call[c].key) /\ ends(out).pc = "finish" /\ ends(out).key = call[c].key
  BY <1>1 DEF CallRecord, None
<1>3. PICK out \in {"value", "error"} : call' = [call EXCEPT ![c] = ends(out)]
  BY DEF Read, Ends
<1> HIDE DEF ends
<1>4. /\ DOMAIN call' = Callers /\ call' = [d \in Callers |-> call'[d]]
      /\ \A d \in Callers : call'[d] \in CallRecord(call'[d].key)
      /\ call'[c] = ends(out) /\ \A d \in Callers \ {c} : call'[d] = call[d]
  BY <1>1, <1>2, <1>3, CallMoves
<1>5. proc' \in [Procs -> ProcRecord] /\ avail' \subseteq avail \cup {w}
  BY <1>1 DEF Read, GiveBack, Kill, Types, ProcRecord
<1>6. Types'
  <2>1. w \in avail' => w \in Procs
    <3>1. CASE closed
      BY <1>1, <3>1 DEF Types, Read, GiveBack
    <3>2. CASE ~closed
      BY <1>1, <3>2 DEF PoolInv, PoolOpen, HeldIsBorn, Holds
    <3> QED
      BY <3>1, <3>2
  <2> QED
    BY <1>1, <1>4, <1>5, <2>1 DEF Types, Read
<1>7. ASSUME ~closed' PROVE AvailIsIdle' /\ HeldIsBorn' /\ HeldApart' /\ AnswersAreWhole' /\ StartIsLocked'
                            /\ CapacityIsKept'
  <2>1. /\ ~closed /\ AvailIsIdle /\ HeldIsBorn /\ HeldApart /\ AnswersAreWhole /\ StartIsLocked /\ CapacityIsKept
        /\ UNCHANGED <<replacing, closed, lost, left>>
    BY <1>7 DEF PoolInv, PoolOpen, Read
  <2>2. w \in Procs \ avail /\ proc[w].st = "idle"
    BY <1>1, <2>1 DEF HeldIsBorn, Holds, AnswersAreWhole, Read, None
  <2>3. /\ avail' = avail \cup {w} /\ \A p \in Procs \ {w} : proc'[p] = proc[p]
        /\ proc'[w].st = "idle" /\ proc'[w].out = None
    BY <1>1, <2>1, <2>2 DEF Read, GiveBack, Types, ProcRecord
  <2>4. Holds(c) /\ ~Holds(c)' /\ \A d \in Callers \ {c} : Holds(d)' = Holds(d)
    BY <1>1, <1>2, <1>4 DEF Holds
  <2>5. AvailIsIdle' /\ AnswersAreWhole'
    BY <1>1, <2>1, <2>3 DEF AvailIsIdle, AnswersAreWhole, Types
  <2>6. HeldApart'
    BY <1>4, <2>1, <2>4 DEF HeldApart
  <2>7. HeldIsBorn'
    <3>1. ASSUME NEW d \in Callers \ {c}, Holds(d) PROVE call[d].worker # w
      BY <2>1, <2>4, <3>1 DEF HeldApart
    <3> QED
      BY <1>4, <2>1, <2>3, <2>4, <3>1 DEF HeldIsBorn
  <2>8. StartIsLocked'
    BY <1>2, <1>4, <2>1, <2>2, <2>3 DEF StartIsLocked
  <2>9. CapacityIsKept'
    <3>1. Cardinality(avail') = Cardinality(avail) + 1 /\ Cardinality(avail) \in Nat
      BY <1>1, <2>2, <2>3, AvailIsFinite, FS_AddElement DEF Types
    <3>2. Cardinality({d \in Callers : Holds(d)}') = Cardinality({d \in Callers : Holds(d)}) - 1
      BY <2>4, OneHolderLess
    <3>3. Cardinality({d \in Callers : Holds(d)}) \in Nat /\ lost \in Nat
      BY <1>1, HoldersAreFinite DEF Types
    <3> QED
      BY <2>1, <3>1, <3>2, <3>3 DEF CapacityIsKept
  <2> QED
    BY <2>5, <2>6, <2>7, <2>8, <2>9
<1>8. OneOwnerPerKey'
  <2>1. \A d \in Callers : UnderWay(d)' = UnderWay(d) /\ (UnderWay(d) => call'[d].key = call[d].key)
    BY <1>1, <1>2, <1>4 DEF UnderWay
  <2> QED
    BY <2>1, OwnersByCalls DEF Read
<1>9. HostIsAlone'
  BY <1>1, <1>4, AloneByCall DEF Read
<1> QED
  BY <1>6, <1>7, <1>8, <1>9 DEF PoolInv, PoolOpen

LEMMA KillIsTyped ==
  ASSUME Types, NEW P
  PROVE  /\ Kill(P) \in [Procs -> ProcRecord]
         /\ \A p \in Procs \ P : Kill(P)[p] = proc[p]
         /\ \A p \in Procs \cap P : Kill(P)[p].st \in {"dead", "unborn"} /\
                                    (proc[p].st # "unborn" => Kill(P)[p] = [st |-> "dead", out |-> None])
BY DEF Types, Kill, ProcRecord

LEMMA ReplaceInv ==
  ASSUME PoolInv, NEW c \in Callers, Replace(c), UNCHANGED host
  PROVE  PoolInv'
<1> DEFINE w == call[c].worker
           killed == Kill({w})
<1>1. Types /\ call[c].pc = "broken" /\ replacing = None /\ call[c] \in CallRecord(call[c].key)
  BY DEF PoolInv, Types, Replace
<1>2. PICK p \in Procs : /\ proc[p].st = "unborn"
                         /\ proc' = [killed EXCEPT ![p] = [st |-> "loading", out |-> None]]
                         /\ call' = [call EXCEPT ![c] = [call[c] EXCEPT !.pc = "starting", !.fresh = p]]
  BY <1>1 DEF Replace
<1> DEFINE r == [call[c] EXCEPT !.pc = "starting", !.fresh = p]
<1>3. p \in 0..MaxProcs /\ p # 0
  BY BoundAssumption DEF Procs
<1>4. r \in CallRecord(call[c].key) /\ r.pc = "starting" /\ r.worker = w /\ r.fresh = p /\ r.key = call[c].key
  BY <1>1, <1>3 DEF CallRecord
<1> HIDE DEF r
<1>5. /\ DOMAIN call' = Callers /\ call' = [d \in Callers |-> call'[d]]
      /\ \A d \in Callers : call'[d] \in CallRecord(call'[d].key)
      /\ call'[c] = r /\ \A d \in Callers \ {c} : call'[d] = call[d]
  BY <1>1, <1>2, <1>4, CallMoves DEF r
<1>6. /\ killed \in [Procs -> ProcRecord] /\ \A q \in Procs \ {w} : killed[q] = proc[q]
      /\ w \in Procs /\ proc[w].st # "unborn" => killed[w] = [st |-> "dead", out |-> None]
  BY <1>1, KillIsTyped
<1> HIDE DEF killed
<1>7. /\ proc' \in [Procs -> ProcRecord] /\ \A q \in Procs \ {w, p} : proc'[q] = proc[q]
      /\ proc'[p] = [st |-> "loading", out |-> None]
      /\ w \in Procs /\ proc[w].st # "unborn" => proc'[w] = [st |-> "dead", out |-> None]
  BY <1>2, <1>6 DEF ProcRecord
<1>8. Types'
  BY <1>1, <1>5, <1>7 DEF Types, Replace
<1>9. ASSUME ~closed' PROVE AvailIsIdle' /\ HeldIsBorn' /\ HeldApart' /\ AnswersAreWhole' /\ StartIsLocked'
                            /\ CapacityIsKept'
  <2>1. /\ ~closed /\ AvailIsIdle /\ HeldIsBorn /\ HeldApart /\ AnswersAreWhole /\ StartIsLocked /\ CapacityIsKept
        /\ UNCHANGED <<avail, closed, lost, left>> /\ replacing' = c
    BY <1>9 DEF PoolInv, PoolOpen, Replace
  <2>2. w \in Procs \ avail /\ proc[w].st # "unborn"
    BY <1>1, <2>1 DEF HeldIsBorn, Holds
  <2>3. proc'[w].st = "dead" /\ proc'[w].out = None /\ proc'[p].st = "loading" /\ proc'[p].out = None
    BY <1>7, <2>2
  <2>4. Holds(c) /\ \A d \in Callers : Holds(d)' = Holds(d) /\ call'[d].worker = call[d].worker
    BY <1>1, <1>4, <1>5 DEF Holds
  <2>5. AvailIsIdle' /\ AnswersAreWhole'
    <3>1. p \notin avail
      BY <1>2, <2>1 DEF AvailIsIdle
    <3> QED
      BY <1>1, <1>7, <2>1, <2>2, <2>3, <3>1 DEF AvailIsIdle, AnswersAreWhole, Types
  <2>6. HeldApart'
    BY <2>1, <2>4 DEF HeldApart
  <2>7. HeldIsBorn'
    <3>1. ASSUME NEW d \in Callers \ {c}, Holds(d) PROVE call[d].worker \notin {w, p}
      BY <1>2, <2>1, <2>4, <3>1 DEF HeldApart, HeldIsBorn
    <3> QED
      BY <1>4, <1>5, <1>7, <2>1, <2>2, <2>3, <2>4, <3>1 DEF HeldIsBorn
  <2>8. StartIsLocked'
    <3>1. \A d \in Callers : call[d].pc # "starting"
      BY <1>1, <2>1, CallerAssumption DEF StartIsLocked
    <3> QED
      BY <1>4, <1>5, <2>1, <2>3, <3>1 DEF StartIsLocked
  <2>9. CapacityIsKept'
    BY <2>1, <2>4, SameHolders DEF CapacityIsKept
  <2> QED
    BY <2>5, <2>6, <2>7, <2>8, <2>9
<1>10. OneOwnerPerKey'
  <2>1. \A d \in Callers : UnderWay(d)' = UnderWay(d) /\ (UnderWay(d) => call'[d].key = call[d].key)
    BY <1>1, <1>4, <1>5 DEF UnderWay
  <2> QED
    BY <2>1, OwnersByCalls DEF Replace
<1>11. HostIsAlone'
  BY <1>1, <1>5, AloneByCall DEF Replace
<1> QED
  BY <1>8, <1>9, <1>10, <1>11 DEF PoolInv, PoolOpen

\* The replacement has started: the request again, or a process for the others.
LEMMA StartedInv ==
  ASSUME PoolInv, NEW c \in Callers, Started(c), UNCHANGED host
  PROVE  PoolInv'
<1> DEFINE w == call[c].worker
           p == call[c].fresh
           again == call[c].again
           r == IF again
                THEN [call[c] EXCEPT !.pc = "finish", !.out = "error", !.worker = p, !.fresh = 0]
                ELSE [call[c] EXCEPT !.pc = "send", !.worker = p, !.fresh = 0, !.again = TRUE]
<1>1. Types /\ call[c].pc = "starting" /\ call[c] \in CallRecord(call[c].key)
  BY DEF PoolInv, Types, Started
<1>2. p \in 0..MaxProcs /\ p \in Procs /\ again \in BOOLEAN
  BY <1>1, BoundAssumption DEF CallRecord, Procs
<1>3. r \in CallRecord(call[c].key) /\ r.pc = (IF again THEN "finish" ELSE "send") /\ r.worker = p
      /\ r.key = call[c].key
  <2>1. CASE again
    BY <1>1, <1>2, <2>1, ZeroInRange DEF CallRecord, None
  <2>2. CASE ~again
    BY <1>1, <1>2, <2>2, ZeroInRange DEF CallRecord, None
  <2> QED
    BY <2>1, <2>2
<1>4. call' = [call EXCEPT ![c] = r]
  BY <1>1, <1>2 DEF Started
<1> HIDE DEF r
<1>5. /\ DOMAIN call' = Callers /\ call' = [d \in Callers |-> call'[d]]
      /\ \A d \in Callers : call'[d] \in CallRecord(call'[d].key)
      /\ call'[c] = r /\ \A d \in Callers \ {c} : call'[d] = call[d]
  BY <1>1, <1>3, <1>4, CallMoves
<1>6. /\ again /\ closed => avail' = avail /\ proc' = Kill({p})
      /\ again /\ ~closed => avail' = avail \cup {p} /\ proc' = [proc EXCEPT ![p].st = "idle"]
      /\ ~again => avail' = avail /\ proc' = [proc EXCEPT ![p].st = "idle"]
      /\ replacing' = None /\ UNCHANGED <<closed, inflight, cache, lost, left>>
  BY <1>2 DEF Started
<1>7. all' \subseteq Procs
  BY <1>1, <1>2 DEF Started, Types
<1>8. /\ proc' \in [Procs -> ProcRecord] /\ \A q \in Procs \ {p} : proc'[q] = proc[q]
      /\ ~closed => proc'[p].st = "idle" /\ proc'[p].out = proc[p].out
  BY <1>1, <1>2, <1>6, KillIsTyped DEF Types, ProcRecord
<1>9. Types'
  BY <1>1, <1>2, <1>5, <1>6, <1>7, <1>8 DEF Types
<1>10. ASSUME ~closed' PROVE AvailIsIdle' /\ HeldIsBorn' /\ HeldApart' /\ AnswersAreWhole' /\ StartIsLocked'
                             /\ CapacityIsKept'
  <2>1. /\ ~closed /\ AvailIsIdle /\ HeldIsBorn /\ HeldApart /\ AnswersAreWhole /\ StartIsLocked /\ CapacityIsKept
    BY <1>6, <1>10 DEF PoolInv, PoolOpen
  <2>2. replacing = c /\ proc[p].st = "loading" /\ proc[p].out = None
    BY <1>1, <1>2, <2>1 DEF StartIsLocked, AnswersAreWhole
  <2>3. proc'[p].st = "idle" /\ proc'[p].out = None /\ p \notin avail
    BY <1>8, <2>1, <2>2 DEF AvailIsIdle
  <2>4. \A d \in Callers : Holds(d) => call[d].worker # p
    BY <2>1, <2>2 DEF HeldIsBorn
  <2>5. Holds(c) /\ (Holds(c)' = ~again) /\ \A d \in Callers \ {c} : Holds(d)' = Holds(d)
    BY <1>1, <1>2, <1>3, <1>5 DEF Holds
  <2>6. avail' = IF again THEN avail \cup {p} ELSE avail
    BY <1>2, <1>6, <2>1
  <2>7. AvailIsIdle' /\ AnswersAreWhole'
    BY <1>1, <1>2, <1>8, <2>1, <2>3, <2>6 DEF AvailIsIdle, AnswersAreWhole, Types
  <2>8. HeldApart'
    BY <1>3, <1>5, <2>1, <2>4, <2>5 DEF HeldApart
  <2>9. HeldIsBorn'
    <3>1. ASSUME NEW d \in Callers \ {c}, Holds(d)
          PROVE  call'[d].worker \in Procs \ avail' /\ proc'[call'[d].worker] = proc[call'[d].worker]
                 /\ call'[d] = call[d]
      BY <1>5, <1>8, <2>1, <2>4, <2>6, <3>1 DEF HeldIsBorn
    <3>2. Holds(c)' => call'[c].worker = p /\ p \notin avail'
      BY <1>3, <1>5, <2>3, <2>5, <2>6
    <3> QED
      BY <1>2, <2>1, <2>3, <2>5, <3>1, <3>2 DEF HeldIsBorn
  <2>10. StartIsLocked'
    <3>1. \A d \in Callers \ {c} : call[d].pc # "starting"
      BY <2>1, <2>2 DEF StartIsLocked
    <3> QED
      BY <1>3, <1>5, <3>1 DEF StartIsLocked
  <2>11. CapacityIsKept'
    <3>1. Cardinality({d \in Callers : Holds(d)}) \in Nat /\ lost \in Nat /\ Cardinality(avail) \in Nat
      BY <1>1, HoldersAreFinite, AvailIsFinite DEF Types
    <3>2. CASE again
      <4>1. Cardinality({d \in Callers : Holds(d)}') = Cardinality({d \in Callers : Holds(d)}) - 1
        BY <2>5, <3>2, OneHolderLess
      <4>2. Cardinality(avail') = Cardinality(avail) + 1
        BY <1>1, <2>3, <2>6, <3>2, AvailIsFinite, FS_AddElement DEF Types
      <4> QED
        BY <1>6, <2>1, <3>1, <4>1, <4>2 DEF CapacityIsKept
    <3>3. CASE ~again
      <4>1. \A d \in Callers : Holds(d)' = Holds(d)
        BY <2>5, <3>3 DEF Holds
      <4> QED
        BY <1>6, <2>1, <2>6, <3>3, <4>1, SameHolders DEF CapacityIsKept
    <3> QED
      BY <3>2, <3>3
  <2> QED
    BY <2>7, <2>8, <2>9, <2>10, <2>11
<1>11. OneOwnerPerKey'
  <2>1. \A d \in Callers : UnderWay(d)' = UnderWay(d) /\ (UnderWay(d) => call'[d].key = call[d].key)
    BY <1>1, <1>3, <1>5 DEF UnderWay
  <2> QED
    BY <1>6, <2>1, OwnersByCalls
<1>12. HostIsAlone'
  BY <1>1, <1>5, <1>6, AloneByCall
<1> QED
  BY <1>9, <1>10, <1>11, <1>12 DEF PoolInv, PoolOpen

\* The start raises: the slot is lost, and counted as lost.
LEMMA StartFailsInv ==
  ASSUME PoolInv, NEW c \in Callers, StartFails(c), UNCHANGED host
  PROVE  PoolInv'
<1> DEFINE p == call[c].fresh
           r == [call[c] EXCEPT !.pc = "finish", !.out = "error", !.fresh = 0]
<1>1. Types /\ call[c].pc = "starting" /\ call[c] \in CallRecord(call[c].key)
  BY DEF PoolInv, Types, StartFails
<1>2. r \in CallRecord(call[c].key) /\ r.pc = "finish" /\ r.key = call[c].key
  BY <1>1, ZeroInRange DEF CallRecord, None
<1>3. call' = [call EXCEPT ![c] = r] /\ left.who = left'.who /\ left' \in Bounds /\ left'.slots = left.slots
  <2>1. call' = [call EXCEPT ![c] = r]
    BY <1>1 DEF StartFails
  <2> QED
    BY <1>1, <2>1, SpendKeeps DEF StartFails, Types
<1> HIDE DEF r
<1>4. /\ DOMAIN call' = Callers /\ call' = [d \in Callers |-> call'[d]]
      /\ \A d \in Callers : call'[d] \in CallRecord(call'[d].key)
      /\ call'[c] = r /\ \A d \in Callers \ {c} : call'[d] = call[d]
  BY <1>1, <1>2, <1>3, CallMoves
<1>5. /\ proc' \in [Procs -> ProcRecord] /\ \A q \in Procs \ {p} : proc'[q] = proc[q]
      /\ p \in Procs /\ proc[p].st # "unborn" => proc'[p] = [st |-> "dead", out |-> None]
  BY <1>1, KillIsTyped DEF StartFails
<1>6. Types'
  <2>1. lost' \in Nat
    BY <1>1 DEF Types, StartFails
  <2>2. UNCHANGED <<all, avail, closed, inflight>> /\ replacing' = None
    BY DEF StartFails
  <2> QED
    BY <1>1, <1>3, <1>4, <1>5, <2>1, <2>2 DEF Types
<1>7. ASSUME ~closed' PROVE AvailIsIdle' /\ HeldIsBorn' /\ HeldApart' /\ AnswersAreWhole' /\ StartIsLocked'
                            /\ CapacityIsKept'
  <2>1. /\ ~closed /\ AvailIsIdle /\ HeldIsBorn /\ HeldApart /\ AnswersAreWhole /\ StartIsLocked /\ CapacityIsKept
        /\ UNCHANGED <<avail, closed>> /\ replacing' = None /\ lost' = lost + 1
    BY <1>7 DEF PoolInv, PoolOpen, StartFails
  <2>2. replacing = c /\ p \in Procs /\ proc[p].st = "loading"
    BY <1>1, <2>1 DEF StartIsLocked
  <2>3. proc'[p].st = "dead" /\ proc'[p].out = None
    BY <1>5, <2>2
  <2>4. Holds(c) /\ ~Holds(c)' /\ \A d \in Callers \ {c} : Holds(d)' = Holds(d)
    BY <1>1, <1>2, <1>4 DEF Holds
  <2>5. AvailIsIdle' /\ AnswersAreWhole'
    BY <1>1, <1>5, <2>1, <2>3 DEF AvailIsIdle, AnswersAreWhole, Types
  <2>6. HeldApart'
    BY <1>4, <2>1, <2>4 DEF HeldApart
  <2>7. HeldIsBorn'
    BY <1>4, <1>5, <2>1, <2>2, <2>4 DEF HeldIsBorn
  <2>8. StartIsLocked'
    <3>1. \A d \in Callers \ {c} : call[d].pc # "starting"
      BY <2>1, <2>2 DEF StartIsLocked
    <3> QED
      BY <1>2, <1>4, <3>1 DEF StartIsLocked
  <2>9. CapacityIsKept'
    <3>1. Cardinality({d \in Callers : Holds(d)}') = Cardinality({d \in Callers : Holds(d)}) - 1
      BY <2>4, OneHolderLess
    <3>2. Cardinality({d \in Callers : Holds(d)}) \in Nat /\ lost \in Nat /\ Cardinality(avail) \in Nat
      BY <1>1, HoldersAreFinite, AvailIsFinite DEF Types
    <3> QED
      BY <1>3, <2>1, <3>1, <3>2 DEF CapacityIsKept
  <2> QED
    BY <2>5, <2>6, <2>7, <2>8, <2>9
<1>8. OneOwnerPerKey'
  <2>1. \A d \in Callers : UnderWay(d)' = UnderWay(d) /\ (UnderWay(d) => call'[d].key = call[d].key)
    BY <1>1, <1>2, <1>4 DEF UnderWay
  <2> QED
    BY <2>1, OwnersByCalls DEF StartFails
<1>9. HostIsAlone'
  BY <1>1, <1>3, <1>4, AloneByCall DEF StartFails
<1> QED
  BY <1>6, <1>7, <1>8, <1>9 DEF PoolInv, PoolOpen

----------------------------------------------------------------------------
(* The processes, close(), and the end of the host.                        *)

\* A process that answers, dies or gets slow concerns its holder only.
LEMMA ProcessInv ==
  ASSUME PoolInv, NEW p \in Procs, Answer(p) \/ Trouble(p), UNCHANGED host
  PROVE  PoolInv'
<1>1. /\ Types /\ proc[p].st \in {"idle", "busy", "slow"}
      /\ UNCHANGED <<all, avail, replacing, closed, call, inflight, lost>>
      /\ left' \in Bounds /\ left'.who = left.who /\ left'.slots = left.slots
  BY SpendKeeps DEF PoolInv, Types, Answer, Trouble
<1>2. /\ proc' \in [Procs -> ProcRecord] /\ \A q \in Procs \ {p} : proc'[q] = proc[q]
      /\ proc[p].st \in {"busy", "slow"} => proc'[p].st \in {"idle", "slow", "dead"}
      /\ proc[p].st = "idle" => proc[p].out = None /\ proc'[p].st = "dead" /\ proc'[p].out = None
      /\ (proc[p].out # None => proc[p].st = "idle") => (proc'[p].out # None => proc'[p].st = "idle")
  <2>1. CASE Answer(p)
    BY <1>1, <2>1 DEF Answer, Types, ProcRecord
  <2>2. CASE Trouble(p)
    BY <1>1, <2>2 DEF Trouble, Types, ProcRecord, None
  <2> QED
    BY <2>1, <2>2
<1>3. Types'
  BY <1>1, <1>2 DEF Types
<1>4. ASSUME ~closed' PROVE AvailIsIdle' /\ HeldIsBorn' /\ HeldApart' /\ AnswersAreWhole' /\ StartIsLocked'
                            /\ CapacityIsKept'
  <2>1. ~closed /\ AvailIsIdle /\ HeldIsBorn /\ HeldApart /\ AnswersAreWhole /\ StartIsLocked /\ CapacityIsKept
    BY <1>1, <1>4 DEF PoolInv, PoolOpen
  <2>2. AvailIsIdle' /\ AnswersAreWhole'
    BY <1>1, <1>2, <2>1 DEF AvailIsIdle, AnswersAreWhole, Types
  <2>3. \A d \in Callers : Holds(d)' = Holds(d)
    BY <1>1 DEF Holds
  <2>4. HeldIsBorn' /\ HeldApart'
    BY <1>1, <1>2, <2>1, <2>3 DEF HeldIsBorn, HeldApart
  <2>5. StartIsLocked'
    BY <1>1, <1>2, <2>1 DEF StartIsLocked
  <2>6. CapacityIsKept'
    BY <1>1, <2>1, <2>3, SameHolders DEF CapacityIsKept
  <2> QED
    BY <2>2, <2>4, <2>5, <2>6
<1>5. OneOwnerPerKey'
  <2>1. \A d \in Callers : UnderWay(d)' = UnderWay(d) /\ (UnderWay(d) => call'[d].key = call[d].key)
    BY <1>1 DEF UnderWay
  <2> QED
    BY <1>1, <2>1, OwnersByCalls
<1>6. HostIsAlone'
  BY <1>1 DEF PoolInv, HostIsAlone
<1> QED
  BY <1>3, <1>4, <1>5, <1>6 DEF PoolInv, PoolOpen

LEMMA CloseInv ==
  ASSUME PoolInv, CloseFlag \/ CloseAll, UNCHANGED host
  PROVE  PoolInv'
<1>1. /\ Types /\ UNCHANGED <<replacing, call, inflight, lost>> /\ closed' = TRUE
      /\ all' \subseteq Procs /\ avail' \subseteq Procs
      /\ left' \in Bounds /\ left'.who = left.who
  BY SpendKeeps DEF PoolInv, Types, CloseFlag, CloseAll
<1>2. proc' \in [Procs -> ProcRecord]
  <2>1. proc' = proc \/ proc' = Kill(all)
    BY DEF CloseFlag, CloseAll
  <2>2. Kill(all) \in [Procs -> ProcRecord]
    BY <1>1, KillIsTyped
  <2> QED
    BY <1>1, <2>1, <2>2 DEF Types
<1>3. Types'
  BY <1>1, <1>2 DEF Types
<1>4. PoolOpen'
  BY <1>1 DEF PoolOpen
<1>5. OneOwnerPerKey'
  <2>1. \A d \in Callers : UnderWay(d)' = UnderWay(d) /\ (UnderWay(d) => call'[d].key = call[d].key)
    BY <1>1 DEF UnderWay
  <2> QED
    BY <1>1, <2>1, OwnersByCalls
<1>6. HostIsAlone'
  BY <1>1 DEF PoolInv, HostIsAlone
<1> QED
  BY <1>3, <1>4, <1>5, <1>6 DEF PoolInv

\* The host takes its one call with it: no hand is in flight any more.
LEMMA HostEndsInv ==
  ASSUME PoolInv, HostEnds
  PROVE  PoolInv'
<1>1. Types /\ left.who = "host" /\ "alive" \in DOMAIN host
  BY DEF PoolInv, HostIsAlone, HostEnds
<1>2. Idle \in CallRecord(None) /\ Idle.pc = "idle"
  BY ZeroInRange DEF Idle, CallRecord
<1>3. /\ DOMAIN call' = Callers /\ call' = [d \in Callers |-> call'[d]]
      /\ \A d \in Callers : call'[d] \in CallRecord(call'[d].key)
      /\ call'[Host] = Idle /\ \A d \in Callers \ {Host} : call'[d] = call[d]
  BY <1>1, <1>2, CallMoves, SeriesAssumption DEF HostEnds
<1>4. Types'
  <2>1. proc' \in [Procs -> ProcRecord]
    BY <1>1, KillIsTyped DEF HostEnds
  <2> QED
    BY <1>1, <1>3, <2>1 DEF Types, HostEnds
<1>5. PoolOpen'
  BY DEF PoolOpen, HostEnds
<1>6. \A d \in Callers : call'[d].pc = "idle"
  BY <1>1, <1>2, <1>3 DEF PoolInv, HostIsAlone
<1>7. OneOwnerPerKey'
  BY <1>6 DEF OneOwnerPerKey, UnderWay, HostEnds
<1>8. HostIsAlone'
  BY <1>1, <1>6 DEF HostIsAlone, HostEnds
<1> QED
  BY <1>4, <1>5, <1>7, <1>8 DEF PoolInv

\* The game, the player and its client leave the pool alone.
LEMMA TableInv ==
  ASSUME PoolInv, UNCHANGED <<poolVars, left>>, "alive" \in DOMAIN host', host'.alive = host.alive
  PROVE  PoolInv'
<1>1. /\ UNCHANGED <<proc, all, avail, replacing, closed, call, inflight, lost, left>>
  BY DEF poolVars
<1>2. Types'
  BY <1>1 DEF PoolInv, Types
<1>3. PoolOpen'
  <2>1. \A d \in Callers : Holds(d)' = Holds(d)
    BY <1>1 DEF Holds
  <2> QED
    BY <1>1, <2>1, OpenByCalls
<1>4. OneOwnerPerKey'
  <2>1. \A d \in Callers : UnderWay(d)' = UnderWay(d)
    BY <1>1 DEF UnderWay
  <2> QED
    BY <1>1, <2>1, OwnersByCalls
<1>5. HostIsAlone'
  BY <1>1 DEF PoolInv, HostIsAlone
<1> QED
  BY <1>2, <1>3, <1>4, <1>5 DEF PoolInv

----------------------------------------------------------------------------
(* The invariant of the whole.                                             *)

LEMMA InitInv ==
  ASSUME Init
  PROVE  PoolInv
<1>1. left \in Bounds /\ left.slots \in 0..MaxProcs
  BY CaseAssumption DEF Init, PoolInit, Bounds
<1>2. /\ DOMAIN call = Callers /\ call = [d \in Callers |-> call[d]]
      /\ \A d \in Callers : call[d] = Idle
  BY DEF Init, PoolInit
<1>3. Idle \in CallRecord(None) /\ Idle.pc = "idle" /\ Idle.key = None
  BY ZeroInRange DEF Idle, CallRecord
<1>4. 1..left.slots \subseteq Procs
  BY <1>1, BoundAssumption DEF Procs
<1>5. proc \in [Procs -> ProcRecord]
  BY <1>1 DEF Init, PoolInit, ProcRecord
<1>6. Types
  BY <1>1, <1>2, <1>3, <1>4, <1>5 DEF Types, Init, PoolInit
<1>7. /\ \A d \in Callers : ~Holds(d) /\ ~UnderWay(d) /\ call[d].pc = "idle"
  BY <1>2, <1>3 DEF Holds, UnderWay
<1>8. PoolOpen
  <2>1. AvailIsIdle /\ AnswersAreWhole
    <3>1. \A p \in Procs : proc[p].out = None /\ (p <= left.slots => proc[p].st = "idle")
      BY DEF Init, PoolInit
    <3>2. \A p \in avail : p \in Procs /\ p <= left.slots
      BY <1>1, <1>4 DEF Init, PoolInit
    <3> QED
      BY <3>1, <3>2 DEF AvailIsIdle, AnswersAreWhole
  <2>2. HeldIsBorn /\ HeldApart /\ StartIsLocked
    BY <1>7 DEF HeldIsBorn, HeldApart, StartIsLocked
  <2>3. CapacityIsKept
    <3>1. {d \in Callers : Holds(d)} = {}
      BY <1>7
    <3>2. Cardinality(avail) = left.slots
      <4>1. avail = 1..left.slots /\ left.slots \in Nat
        BY <1>1, BoundAssumption DEF Init, PoolInit
      <4> QED
        BY <4>1, FS_Interval
    <3>3. lost = 0
      BY DEF Init, PoolInit
    <3>4. Cardinality({}) = 0
      BY FS_EmptySet
    <3>5. Cardinality(avail) + Cardinality({d \in Callers : Holds(d)}) + lost = left.slots
      BY <1>1, <3>1, <3>2, <3>3, <3>4
    <3> QED
      BY <3>5 DEF CapacityIsKept
  <2> QED
    BY <2>1, <2>2, <2>3 DEF PoolOpen
<1>9. OneOwnerPerKey
  BY <1>7 DEF OneOwnerPerKey, Init, PoolInit
<1>10. HostIsAlone
  BY <1>7 DEF HostIsAlone, Init
<1> QED
  BY <1>6, <1>8, <1>9, <1>10 DEF PoolInv

LEMMA TableSteps ==
  ASSUME PoolInv,
         OtherAnswers \/ OtherDeclares \/ prepareForNewGame \/ Player
         \/ Exchange \/ StaleRead \/ ReadLine \/ failAndStop
  PROVE  PoolInv'
<1>1. "alive" \in DOMAIN host
  BY DEF PoolInv, HostIsAlone
<1>2. UNCHANGED <<poolVars, left>>
  BY DEF OtherAnswers, OtherDeclares, prepareForNewGame, Player, Exchange, StaleRead, ReadLine, failAndStop,
         bidMore, holdBid, pickUpSkat, getCardsToDiscard, announceGame, playCard
<1>3. "alive" \in DOMAIN host' /\ host'.alive = host.alive
  <2>1. CASE OtherAnswers \/ OtherDeclares \/ prepareForNewGame \/ Player
    BY <1>1, <2>1 DEF OtherAnswers, OtherDeclares, prepareForNewGame, Player,
                      bidMore, holdBid, pickUpSkat, getCardsToDiscard, announceGame, playCard
  <2>2. CASE Exchange \/ StaleRead \/ ReadLine \/ failAndStop
    BY <1>1, <2>2 DEF Exchange, StaleRead, ReadLine, failAndStop
  <2> QED
    BY <2>1, <2>2
<1> QED
  BY <1>2, <1>3, TableInv

LEMMA HostReadsInv ==
  ASSUME PoolInv, HostReads
  PROVE  PoolInv'
<1>1. "alive" \in DOMAIN host /\ host.alive /\ left.who = "host" /\ call[Host].pc = "idle"
  BY DEF PoolInv, HostIsAlone, HostReads
<1>2. "alive" \in DOMAIN host' /\ host'.alive = host.alive
  BY <1>1 DEF HostReads
<1>3. CASE UNCHANGED <<poolVars, left>>
  BY <1>2, <1>3, TableInv
<1>4. CASE \E key : Call(Host, key)
  <2>1. PICK key : Call(Host, key)
    BY <1>4
  <2>2. \A d \in Callers \ {Host} : call'[d] = call[d]
    BY <2>1 DEF Call, PoolInv, Types
  <2>3. HostIsAlone'
    BY <1>1, <1>2, <2>1, <2>2 DEF HostIsAlone, PoolInv, Call
  <2> QED
    BY <2>1, <2>3, CallInv, SeriesAssumption
<1> QED
  BY <1>3, <1>4 DEF HostReads

LEMMA NextInv ==
  ASSUME PoolInv, [Next]_vars
  PROVE  PoolInv'
<1>1. "alive" \in DOMAIN host
  BY DEF PoolInv, HostIsAlone
<1>2. CASE UNCHANGED vars
  BY <1>1, <1>2, TableInv DEF vars
<1>3. CASE OtherAnswers \/ OtherDeclares \/ prepareForNewGame \/ Player
           \/ Exchange \/ StaleRead \/ ReadLine \/ failAndStop
  BY <1>3, TableSteps
<1>4. CASE HostReads
  BY <1>4, HostReadsInv
<1>5. CASE HostAnswers
  <2>1. "alive" \in DOMAIN host' /\ host'.alive = host.alive /\ Take(Host)
    BY <1>1, <1>5 DEF HostAnswers
  <2> QED
    BY <2>1, TakeInv, SeriesAssumption
<1>6. CASE HostEnds
  BY <1>6, HostEndsInv
<1>7. ASSUME NEW c \in Callers, Pool(c) \/ (StartFails(c) /\ UNCHANGED table) PROVE PoolInv'
  <2>1. UNCHANGED table /\ UNCHANGED host
    BY <1>7 DEF Pool, table
  <2>2. CASE WaitTimesOut(c) \/ Enter(c) \/ AcquireTimesOut(c) \/ Interrupted(c) \/ ReadFails(c)
    <3>1. UNCHANGED <<host, left>>
      BY <2>1, <2>2 DEF WaitTimesOut, Enter, AcquireTimesOut, Interrupted, ReadFails
    <3> QED
      BY <2>2, <3>1, QuietSteps
  <2> QED
    BY <1>7, <2>1, <2>2, LookInv, FinishInv, AcquireInv, SendInv, ReadInv, ReplaceInv, StartedInv, StartFailsInv
       DEF Pool, run, max_bid
<1>8. ASSUME NEW c \in Callers, Delivered(c) PROVE PoolInv'
  <2>1. Take(c) /\ host' = host
    BY <1>8 DEF Delivered, table
  <2> QED
    BY <1>1, <2>1, TakeInv
<1>9. ASSUME NEW c \in Callers, GateThread(c) PROVE PoolInv'
  <2>1. PICK key : Call(c, key)
    BY <1>9 DEF GateThread
  <2>2. left.who = "gate" /\ UNCHANGED <<host, left>>
    BY <1>9, <2>1 DEF GateThread, Call, table
  <2>3. left.who = "gate" => HostIsAlone'
    BY <2>2 DEF PoolInv, HostIsAlone
  <2> QED
    BY <2>1, <2>2, <2>3, CallInv
<1>10. ASSUME NEW p \in Procs, (Answer(p) \/ Trouble(p)) /\ UNCHANGED table PROVE PoolInv'
  BY <1>10, ProcessInv DEF table
<1>11. CASE (CloseFlag \/ CloseAll) /\ UNCHANGED table
  BY <1>11, CloseInv DEF table
<1> QED
  BY <1>2, <1>3, <1>4, <1>5, <1>6, <1>7, <1>8, <1>9, <1>10, <1>11 DEF Next

LEMMA InvIsSound ==
  ASSUME PoolInv
  PROVE  PoolIsSound
<1>1. OneInFlight
  BY DEF PoolInv, PoolOpen, AvailIsIdle, HeldIsBorn, HeldApart, OneInFlight
<1>2. CapacityIsKept
  BY DEF PoolInv, PoolOpen, CapacityIsKept
<1> QED
  BY <1>1, <1>2 DEF PoolIsSound, PoolInv

(***************************************************************************)
(* What skatzero_pool.py and max_bid promise, for every number of threads, *)
(* processes, hands, faults, failed starts and closes: a process handed    *)
(* out neither computes nor has an answer in its pipe, and no two calls    *)
(* share one; until close() the slots that are free, held and lost are     *)
(* those the pool started with; a hand has one owner at a time, and none   *)
(* once its call has failed.                                               *)
(***************************************************************************)
THEOREM PoolSoundness == Spec => []PoolIsSound
<1>1. Init => PoolInv
  BY InitInv
<1>2. PoolInv /\ [Next]_vars => PoolInv'
  BY NextInv
<1>3. PoolInv => PoolIsSound
  BY InvIsSound
<1> QED
  BY <1>1, <1>2, <1>3, PTL DEF Spec

----------------------------------------------------------------------------
(* The dialogue: what the player and the host know of the engine's auction.  *)

Values == 0..Top

EngineRecord ==
    [game : Nat, me : Seats, contract : {None, "hand", "open"},
     phase : {"bid", "hold", "solo", "pick", "discard", "announce", "play", "over"},
     stage : {1, 2}, hearer : {0, 1}, cur : Values, bids : [Seats -> Values],
     declarer : Seats \cup {NoOne}]

PlayerRecord ==
    [seq : Nat, solo : {0, 1}, hand : BOOLEAN, plan : Nat, wrong : {FALSE}]

Requests ==
    [kind : {"BID"}, game : Nat, seq : Nat, bidder : Seats, answerer : Seats, actor : Seats]
    \cup [kind : {"DECLARATION", "PLAN", "PLAY_CARD"}, game : Nat, seq : Nat,
          bid : Values, bids : [Seats -> Values]]

Lines == [game : Nat, seq : Nat, ok : BOOLEAN]

ClientRecord ==
    [pc : {"idle", "write", "await"}, req : Requests \cup {NoRequest}, stale : Nat]

HostRecord ==
    [alive : BOOLEAN, killed : BOOLEAN, inbox : Seq(Requests), outbox : Seq(Lines),
     work : Requests \cup {NoRequest}]

\* First duel: forehand holds what middlehand bids.
FirstDuel(e) ==
    /\ e.hearer = 0 /\ e.bids[1] = e.cur
    /\ e.phase = "bid" => e.bids[0] = e.cur
    /\ e.phase = "hold" => e.cur > 0 /\ e.bids[0] = e.cur - 1

\* Second duel: middlehand is in it only if it bid more than forehand held.
SecondDuel(e) ==
    /\ e.hearer = 1 <=> e.bids[1] > e.bids[0]
    /\ e.phase = "bid" => e.bids[e.hearer] = e.cur
    /\ e.phase = "hold" => e.cur > 0 /\ e.bids[2] = e.cur

\* Forehand alone plays at 18 without having bid.
Declared(e) ==
    /\ e.declarer \in Seats /\ e.bids[e.declarer] = e.cur
    /\ e.cur = 0 => e.declarer = 0

Auction(e) ==
    /\ e \in EngineRecord
    /\ \A s \in Seats : e.bids[s] <= e.cur
    /\ e.phase # "over" => e.game > 0
    /\ e.phase \in {"bid", "hold"} /\ e.stage = 1 => FirstDuel(e) /\ e.bids[2] = 0
    /\ e.phase \in {"bid", "hold"} /\ e.stage = 2 => SecondDuel(e)
    /\ e.phase = "solo" => e.cur = 0 /\ e.stage = 2
    /\ e.phase \in {"pick", "discard", "announce", "play"} => Declared(e)
    /\ e.phase = "play" <=> e.contract # None /\ e.phase # "over"

\* What the player keeps is of this game, and of the way it took.
Remembers(e, p) ==
    /\ p \in PlayerRecord
    /\ e.phase \in {"bid", "hold", "solo"} => p.solo = 0 /\ p.plan = 0
    /\ e.phase \in {"pick", "discard"} => p.plan = 0
    /\ e.phase \in {"pick", "discard", "announce", "play"} =>
          /\ p.solo = 1 => e.declarer = 0 /\ e.cur = 0
          /\ e.phase # "play" /\ e.me = 0 /\ e.declarer = 0 /\ e.cur = 0 => p.solo = 1
    /\ e.phase = "announce" /\ e.me = e.declarer => p.plan = e.game \/ (p.plan = 0 /\ p.hand)
    /\ e.phase = "play" /\ e.me = e.declarer /\ e.contract = "open" => p.plan # 0
    /\ e.phase \in {"discard", "announce"} => e.me = e.declarer

\* The engine waits for us while a request is on its way.
Waits ==
    /\ client \in ClientRecord
    /\ client.pc # "idle" =>
          /\ client.req \in Requests
          /\ Asked = engine.me /\ engine.phase # "announce"
          /\ engine.phase = "bid" /\ engine.stage = 1 => engine.cur < Top
    /\ RequestsTellTheAuction

\* Requests the host has not answered, and answers nobody has read: one for each
\* readLine, the last for the request that waits.
Awaiting == IF client.pc = "await" THEN 1 ELSE 0
Working == IF host.work = NoRequest THEN 0 ELSE 1
Unread == Len(host.outbox) + Working + Len(host.inbox)

SameRequest(line, req) == line.game = req.game /\ line.seq = req.seq

LastIsOwn ==
    /\ host.inbox # <<>> => host.inbox[Len(host.inbox)] = client.req
    /\ host.inbox = <<>> /\ host.work # NoRequest => host.work = client.req
    /\ host.inbox = <<>> /\ host.work = NoRequest /\ host.outbox # <<>> =>
          SameRequest(host.outbox[Len(host.outbox)], client.req)

Pipes ==
    /\ host \in HostRecord
    /\ Unread <= client.stale + Awaiting
    /\ ~host.alive => host.inbox = <<>> /\ host.work = NoRequest
    /\ client.pc = "await" /\ Unread = client.stale + 1 => LastIsOwn

DialogueInv == Auction(engine) /\ Remembers(engine, player) /\ Waits /\ Pipes

----------------------------------------------------------------------------

LEMMA DeclarerIsSet ==
  ASSUME NEW e \in EngineRecord, NEW s \in Seats
  PROVE  LET f == [e EXCEPT !.phase = "pick", !.declarer = s] IN
         /\ f \in EngineRecord
         /\ f.phase = "pick" /\ f.declarer = s
         /\ f.stage = e.stage /\ f.cur = e.cur /\ f.hearer = e.hearer /\ f.game = e.game
         /\ f.contract = e.contract /\ f.bids = e.bids /\ f.me = e.me
<1> DEFINE g == [e EXCEPT !.phase = "pick"]
<1>1. g \in EngineRecord
  BY DEF EngineRecord
<1>2. [e EXCEPT !.phase = "pick", !.declarer = s] = [g EXCEPT !.declarer = s]
  BY DEF EngineRecord
<1>3. /\ g.phase = "pick" /\ g.stage = e.stage /\ g.cur = e.cur /\ g.hearer = e.hearer
      /\ g.game = e.game /\ g.contract = e.contract /\ g.bids = e.bids /\ g.me = e.me
  BY DEF EngineRecord
<1> HIDE DEF g
<1>4. [g EXCEPT !.declarer = s] \in EngineRecord
  BY <1>1 DEF EngineRecord
<1>5. [g EXCEPT !.declarer = s].declarer = s
  BY <1>1 DEF EngineRecord
<1>6. /\ [g EXCEPT !.declarer = s].phase = g.phase /\ [g EXCEPT !.declarer = s].stage = g.stage
      /\ [g EXCEPT !.declarer = s].cur = g.cur /\ [g EXCEPT !.declarer = s].hearer = g.hearer
      /\ [g EXCEPT !.declarer = s].game = g.game /\ [g EXCEPT !.declarer = s].contract = g.contract
      /\ [g EXCEPT !.declarer = s].bids = g.bids /\ [g EXCEPT !.declarer = s].me = g.me
  BY <1>1 DEF EngineRecord
<1> QED
  BY <1>2, <1>3, <1>4, <1>5, <1>6

LEMMA BidMoves ==
  ASSUME NEW e, Auction(e), e.phase = "bid", NEW yes \in BOOLEAN,
         yes => e.cur < Top \/ e.stage = 2
  PROVE  Auction(Bidding(e, yes))
<1>1. CASE yes
  <2> DEFINE f == [e EXCEPT !.phase = "hold", !.cur = Next18(@), !.bids[Announcer(e)] = Next18(e.cur)]
  <2>1. Bidding(e, yes) = f
    BY <1>1 DEF Bidding
  <2>2. Next18(e.cur) \in Values /\ Next18(e.cur) > 0 /\ e.cur <= Next18(e.cur)
        /\ (e.cur < Top => Next18(e.cur) = e.cur + 1) /\ Announcer(e) = e.stage /\ e.stage \in {1, 2}
    BY TopAssumption DEF Next18, Values, Announcer, Auction, EngineRecord
  <2>3. /\ f \in EngineRecord /\ f.phase = "hold" /\ f.stage = e.stage /\ f.cur = Next18(e.cur)
        /\ f.hearer = e.hearer /\ f.game = e.game /\ f.contract = e.contract
        /\ f.bids = [e.bids EXCEPT ![e.stage] = Next18(e.cur)]
    BY <2>2 DEF Auction, EngineRecord, Seats
  <2>4. \A s \in Seats : f.bids[s] = IF s = e.stage THEN f.cur ELSE e.bids[s]
    BY <2>3 DEF Auction, EngineRecord
  <2> HIDE DEF f
  <2>5. \A s \in Seats : e.bids[s] \in Nat /\ e.cur \in Nat /\ f.cur \in Nat
    BY <2>3 DEF Auction, EngineRecord, Values
  <2>6. \A s \in Seats : f.bids[s] <= f.cur
    BY <2>2, <2>3, <2>4, <2>5 DEF Auction
  <2>7. ASSUME e.stage = 1 PROVE FirstDuel(f) /\ f.bids[2] = 0
    BY <1>1, <2>7, <2>2, <2>3, <2>4, <2>5 DEF Auction, FirstDuel, Seats
  <2>8. ASSUME e.stage = 2 PROVE SecondDuel(f)
    BY <1>1, <2>8, <2>2, <2>3, <2>4, <2>5 DEF Auction, SecondDuel, Seats
  <2>9. f.phase # "over" => f.game > 0
    BY <2>3 DEF Auction
  <2>10. f.contract = None
    BY <2>3 DEF Auction
  <2>11. Auction(f)
    BY <2>3, <2>6, <2>7, <2>8, <2>9, <2>10 DEF Auction
  <2> QED
    BY <2>1, <2>11
<1>2. CASE ~yes
  <2>1. Bidding(e, yes) = DuelWonBy(e, e.hearer)
    BY <1>2 DEF Bidding
  <2>2. e.hearer \in {0, 1} /\ e.stage \in {1, 2} /\ e.cur \in Nat
        /\ \A s \in Seats : e.bids[s] \in Nat
    BY DEF Auction, EngineRecord, Values
  <2>3. CASE e.stage = 1
    <3> DEFINE f == [e EXCEPT !.phase = "bid", !.stage = 2, !.hearer = e.hearer]
    <3>1. Bidding(e, yes) = f
      BY <2>1, <2>3 DEF DuelWonBy
    <3>2. /\ f \in EngineRecord /\ f.phase = "bid" /\ f.stage = 2 /\ f.cur = e.cur
          /\ f.hearer = e.hearer /\ f.game = e.game /\ f.contract = e.contract /\ f.bids = e.bids
      BY DEF Auction, EngineRecord
    <3> HIDE DEF f
    <3>3. SecondDuel(f)
      BY <2>2, <2>3, <3>2 DEF Auction, SecondDuel, FirstDuel, Seats
    <3>4. Auction(f)
      BY <2>2, <3>2, <3>3 DEF Auction
    <3> QED
      BY <3>1, <3>4
  <2>4. CASE e.stage = 2 /\ (e.hearer # 0 \/ e.cur > 0)
    <3> DEFINE f == [e EXCEPT !.phase = "pick", !.declarer = e.hearer]
    <3>1. Bidding(e, yes) = f
      BY <2>1, <2>4 DEF DuelWonBy
    <3>2. /\ f \in EngineRecord /\ f.phase = "pick" /\ f.stage = 2 /\ f.cur = e.cur /\ f.declarer = e.hearer
          /\ f.hearer = e.hearer /\ f.game = e.game /\ f.contract = e.contract /\ f.bids = e.bids
      <4>1. e \in EngineRecord /\ e.hearer \in Seats
        BY <2>2 DEF Auction, Seats
      <4> QED
        BY <4>1, <2>4, DeclarerIsSet
    <3> HIDE DEF f
    <3>3. Declared(f)
      BY <2>2, <2>4, <3>2 DEF Auction, SecondDuel, Declared, Seats
    <3>4. Auction(f)
      BY <2>2, <3>2, <3>3 DEF Auction
    <3> QED
      BY <3>1, <3>4
  <2>5. CASE e.stage = 2 /\ e.hearer = 0 /\ e.cur = 0
    <3> DEFINE f == [e EXCEPT !.phase = "solo"]
    <3>1. Bidding(e, yes) = f
      BY <2>1, <2>5 DEF DuelWonBy
    <3>2. /\ f \in EngineRecord /\ f.phase = "solo" /\ f.stage = 2 /\ f.cur = e.cur
          /\ f.hearer = e.hearer /\ f.game = e.game /\ f.contract = e.contract /\ f.bids = e.bids
      BY <2>5 DEF Auction, EngineRecord, Seats
    <3> HIDE DEF f
    <3>4. Auction(f)
      BY <2>2, <2>5, <3>2 DEF Auction
    <3> QED
      BY <3>1, <3>4
  <2> QED
    BY <2>2, <2>3, <2>4, <2>5
<1> QED
  BY <1>1, <1>2

LEMMA HoldMoves ==
  ASSUME NEW e, Auction(e), e.phase = "hold", NEW yes \in BOOLEAN
  PROVE  Auction(Bidding(e, yes))
<1>0. /\ e.hearer \in {0, 1} /\ e.stage \in {1, 2} /\ e.cur \in Nat /\ e.cur > 0 /\ Announcer(e) = e.stage
      /\ \A s \in Seats : e.bids[s] \in Nat
  BY DEF Auction, EngineRecord, Values, Announcer, FirstDuel, SecondDuel
<1>1. CASE yes
  <2> DEFINE f == [e EXCEPT !.phase = "bid", !.bids[e.hearer] = e.cur]
  <2>1. Bidding(e, yes) = f
    BY <1>1 DEF Bidding
  <2>3. /\ f \in EngineRecord /\ f.phase = "bid" /\ f.stage = e.stage /\ f.cur = e.cur
        /\ f.hearer = e.hearer /\ f.game = e.game /\ f.contract = e.contract
        /\ f.bids = [e.bids EXCEPT ![e.hearer] = e.cur]
    BY <1>0 DEF Auction, EngineRecord, Seats
  <2>4. \A s \in Seats : f.bids[s] = IF s = e.hearer THEN e.cur ELSE e.bids[s]
    BY <2>3 DEF Auction, EngineRecord
  <2> HIDE DEF f
  <2>6. \A s \in Seats : f.bids[s] <= f.cur
    BY <1>0, <2>3, <2>4 DEF Auction
  <2>7. ASSUME e.stage = 1 PROVE FirstDuel(f) /\ f.bids[2] = 0
    BY <1>0, <1>1, <2>7, <2>3, <2>4 DEF Auction, FirstDuel, Seats
  <2>8. ASSUME e.stage = 2 PROVE SecondDuel(f)
    <3>1. e.bids[0] <= e.cur /\ e.bids[1] <= e.cur /\ SecondDuel(e) /\ e.bids[0] \in Nat /\ e.bids[1] \in Nat
      BY <1>0, <2>8 DEF Auction, Seats
    <3>2. f.bids[0] = (IF 0 = e.hearer THEN e.cur ELSE e.bids[0])
          /\ f.bids[1] = (IF 1 = e.hearer THEN e.cur ELSE e.bids[1])
      BY <2>4 DEF Seats
    <3>3. f.bids[f.hearer] = f.cur
      BY <1>0, <3>2, <2>3
    <3>4. f.hearer = 1 <=> f.bids[1] > f.bids[0]
      BY <1>0, <3>1, <3>2, <2>3 DEF SecondDuel
    <3> QED
      BY <2>3, <3>3, <3>4 DEF SecondDuel
  <2>9. f.phase # "over" => f.game > 0
    BY <2>3 DEF Auction
  <2>10. f.contract = None
    BY <2>3 DEF Auction
  <2>11. Auction(f)
    BY <2>3, <2>6, <2>7, <2>8, <2>9, <2>10 DEF Auction
  <2> QED
    BY <2>1, <2>11
<1>2. CASE ~yes
  <2>1. Bidding(e, yes) = DuelWonBy(e, e.stage)
    BY <1>0, <1>2 DEF Bidding
  <2>3. CASE e.stage = 1
    <3> DEFINE f == [e EXCEPT !.phase = "bid", !.stage = 2, !.hearer = e.stage]
    <3>1. Bidding(e, yes) = f
      BY <2>1, <2>3 DEF DuelWonBy
    <3>2. /\ f \in EngineRecord /\ f.phase = "bid" /\ f.stage = 2 /\ f.cur = e.cur
          /\ f.hearer = 1 /\ f.game = e.game /\ f.contract = e.contract /\ f.bids = e.bids
      BY <2>3 DEF Auction, EngineRecord
    <3> HIDE DEF f
    <3>3. SecondDuel(f)
      BY <1>0, <2>3, <3>2 DEF Auction, SecondDuel, FirstDuel, Seats
    <3>4. Auction(f)
      BY <3>2, <3>3 DEF Auction
    <3> QED
      BY <3>1, <3>4
  <2>4. CASE e.stage = 2
    <3> DEFINE f == [e EXCEPT !.phase = "pick", !.declarer = e.stage]
    <3>1. Bidding(e, yes) = f
      BY <1>0, <2>1, <2>4 DEF DuelWonBy
    <3>2. /\ f \in EngineRecord /\ f.phase = "pick" /\ f.stage = 2 /\ f.cur = e.cur /\ f.declarer = 2
          /\ f.hearer = e.hearer /\ f.game = e.game /\ f.contract = e.contract /\ f.bids = e.bids
      <4>1. e \in EngineRecord /\ e.stage \in Seats
        BY <2>4 DEF Auction, Seats
      <4> QED
        BY <4>1, <2>4, DeclarerIsSet
    <3> HIDE DEF f
    <3>3. Declared(f)
      BY <1>0, <2>4, <3>2 DEF Auction, SecondDuel, Declared, Seats
    <3>4. Auction(f)
      BY <3>2, <3>3 DEF Auction
    <3> QED
      BY <3>1, <3>4
  <2> QED
    BY <1>0, <2>3, <2>4
<1> QED
  BY <1>1, <1>2

LEMMA SoloMoves ==
  ASSUME NEW e, Auction(e), e.phase = "solo", NEW yes \in BOOLEAN
  PROVE  Auction(Bidding(e, yes))
<1>1. CASE yes
  <2> DEFINE f == [e EXCEPT !.phase = "pick", !.declarer = 0]
  <2>1. Bidding(e, yes) = f
    BY <1>1 DEF Bidding
  <2>2. /\ f \in EngineRecord /\ f.phase = "pick" /\ f.cur = e.cur /\ f.declarer = 0
        /\ f.game = e.game /\ f.contract = e.contract /\ f.bids = e.bids
    <3>1. e \in EngineRecord /\ 0 \in Seats
      BY DEF Auction, Seats
    <3> QED
      BY <3>1, DeclarerIsSet
  <2> HIDE DEF f
  <2>3. Declared(f)
    BY <2>2 DEF Auction, EngineRecord, Values, Declared, Seats
  <2>4. Auction(f)
    BY <2>2, <2>3 DEF Auction
  <2> QED
    BY <2>1, <2>4
<1>2. CASE ~yes
  <2> DEFINE f == [e EXCEPT !.phase = "over"]
  <2>1. Bidding(e, yes) = f
    BY <1>2 DEF Bidding
  <2>2. f \in EngineRecord /\ f.phase = "over" /\ f.cur = e.cur /\ f.bids = e.bids
    BY DEF Auction, EngineRecord
  <2> QED
    BY <2>1, <2>2 DEF Auction
<1> QED
  BY <1>1, <1>2

----------------------------------------------------------------------------

\* What a move in the auction leaves as it was, and how forehand comes to play at 18.
LEMMA BiddingKeeps ==
  ASSUME NEW e, Auction(e), e.phase \in {"bid", "hold", "solo"}, NEW yes \in BOOLEAN
  PROVE  LET f == Bidding(e, yes) IN
         /\ f.me = e.me /\ f.game = e.game /\ f.contract = e.contract
         /\ f.phase \in {"bid", "hold", "solo", "pick", "over"}
         /\ f.phase = "pick" /\ f.declarer = 0 /\ f.cur = 0 => e.phase = "solo"
         /\ e.phase = "solo" /\ f.phase = "pick" => yes /\ f.declarer = 0 /\ f.cur = 0
<1>0. e \in EngineRecord /\ e.hearer \in {0, 1} /\ e.stage \in {1, 2} /\ e.cur \in Nat
      /\ Announcer(e) \in {0, 1, 2} /\ e.hearer \in Seats /\ Announcer(e) \in Seats
  BY DEF Auction, EngineRecord, Values, Announcer, Seats
<1>1. ASSUME NEW s \in Seats, e.phase # "solo"
      PROVE  LET f == DuelWonBy(e, s) IN
             /\ f.me = e.me /\ f.game = e.game /\ f.contract = e.contract
             /\ f.phase \in {"bid", "solo", "pick"}
             /\ f.phase = "pick" /\ f.declarer = 0 => f.cur # 0
  <2>1. CASE e.stage = 1
    <3>1. DuelWonBy(e, s) = [e EXCEPT !.phase = "bid", !.stage = 2, !.hearer = s]
      BY <2>1 DEF DuelWonBy
    <3> QED
      BY <1>0, <3>1 DEF EngineRecord
  <2>2. CASE e.stage = 2 /\ (s # 0 \/ e.cur > 0)
    <3>1. DuelWonBy(e, s) = [e EXCEPT !.phase = "pick", !.declarer = s]
      BY <2>2 DEF DuelWonBy
    <3> DEFINE f == [e EXCEPT !.phase = "pick", !.declarer = s]
    <3>2. /\ f.phase = "pick" /\ f.declarer = s /\ f.cur = e.cur /\ f.game = e.game
          /\ f.contract = e.contract /\ f.me = e.me
      BY <1>0, DeclarerIsSet
    <3> HIDE DEF f
    <3> QED
      BY <1>0, <2>2, <3>1, <3>2 DEF f
  <2>3. CASE e.stage = 2 /\ s = 0 /\ e.cur = 0
    <3>1. DuelWonBy(e, s) = [e EXCEPT !.phase = "solo"]
      BY <2>3 DEF DuelWonBy
    <3> QED
      BY <1>0, <3>1 DEF EngineRecord
  <2>4. e.stage = 2 => \/ s # 0 \/ e.cur > 0
                       \/ s = 0 /\ e.cur = 0
    BY <1>0
  <2> QED
    BY <1>0, <2>1, <2>2, <2>3, <2>4
<1>2. CASE e.phase = "bid" /\ yes
  <2>1. Bidding(e, yes) = [e EXCEPT !.phase = "hold", !.cur = Next18(@), !.bids[Announcer(e)] = Next18(e.cur)]
    BY <1>2 DEF Bidding
  <2> QED
    BY <1>0, <1>2, <2>1 DEF EngineRecord
<1>3. CASE e.phase = "bid" /\ ~yes
  <2>1. Bidding(e, yes) = DuelWonBy(e, e.hearer)
    BY <1>3 DEF Bidding
  <2> QED
    BY <1>0, <1>1, <1>3, <2>1
<1>4. CASE e.phase = "hold" /\ yes
  <2>1. Bidding(e, yes) = [e EXCEPT !.phase = "bid", !.bids[e.hearer] = e.cur]
    BY <1>4 DEF Bidding
  <2> QED
    BY <1>0, <1>4, <2>1 DEF EngineRecord
<1>5. CASE e.phase = "hold" /\ ~yes
  <2>1. Bidding(e, yes) = DuelWonBy(e, Announcer(e))
    BY <1>5 DEF Bidding
  <2> QED
    BY <1>0, <1>1, <1>5, <2>1
<1>6. CASE e.phase = "solo" /\ yes
  <2>1. Bidding(e, yes) = [e EXCEPT !.phase = "pick", !.declarer = 0]
    BY <1>6 DEF Bidding
  <2>2. e.cur = 0 /\ 0 \in Seats
    BY <1>6 DEF Auction, Seats
  <2> DEFINE f == [e EXCEPT !.phase = "pick", !.declarer = 0]
  <2>3. /\ f.phase = "pick" /\ f.declarer = 0 /\ f.cur = e.cur /\ f.game = e.game
        /\ f.contract = e.contract /\ f.me = e.me
    <3>1. e \in EngineRecord /\ 0 \in Seats
      BY <2>2 DEF Auction
    <3> QED
      BY <3>1, DeclarerIsSet
  <2> HIDE DEF f
  <2>4. Bidding(e, yes) = f
    BY <2>1 DEF f
  <2> QED
    BY <1>6, <2>2, <2>3, <2>4
<1>7. CASE e.phase = "solo" /\ ~yes
  <2>1. Bidding(e, yes) = [e EXCEPT !.phase = "over"]
    BY <1>7 DEF Bidding
  <2> QED
    BY <1>0, <1>7, <2>1 DEF EngineRecord
<1> QED
  BY <1>2, <1>3, <1>4, <1>5, <1>6, <1>7

LEMMA BiddingMoves ==
  ASSUME NEW e, Auction(e), e.phase \in {"bid", "hold", "solo"}, NEW yes \in BOOLEAN,
         e.phase = "bid" /\ yes => e.cur < Top \/ e.stage = 2
  PROVE  Auction(Bidding(e, yes))
<1>1. CASE e.phase = "bid"
  BY <1>1, BidMoves
<1> QED
  BY <1>1, HoldMoves, SoloMoves

\* A game that is broken off, or played to its end.
LEMMA GameOver ==
  ASSUME NEW e, NEW p, Auction(e), Remembers(e, p)
  PROVE  LET f == [e EXCEPT !.phase = "over"] IN
         Auction(f) /\ Remembers(f, p) /\ f.phase = "over" /\ f.me = e.me
<1> DEFINE f == [e EXCEPT !.phase = "over"]
<1>1. f \in EngineRecord /\ f.phase = "over" /\ f.cur = e.cur /\ f.bids = e.bids /\ f.me = e.me
  BY DEF Auction, EngineRecord
<1> HIDE DEF f
<1>2. Auction(f) /\ Remembers(f, p)
  BY <1>1 DEF Auction, Remembers
<1> QED
  BY <1>1, <1>2 DEF f

LEMMA FreshIsPlayer == Fresh \in PlayerRecord /\ Fresh.solo = 0 /\ Fresh.plan = 0
BY DEF Fresh, PlayerRecord

LEMMA DealIsAuction ==
  ASSUME NEW g \in Nat, NEW me \in Seats
  PROVE  LET e == Deal(g, me) IN
         /\ e \in EngineRecord /\ e.game = g /\ e.me = me /\ e.contract = None /\ e.phase = "bid"
         /\ e.stage = 1 /\ e.hearer = 0 /\ e.cur = 0 /\ e.bids = [s \in Seats |-> 0]
<1>1. Deal(g, me) = [game |-> g, me |-> me, contract |-> None, phase |-> "bid", stage |-> 1,
                     hearer |-> 0, cur |-> 0, bids |-> [s \in Seats |-> 0], declarer |-> NoOne]
  BY DEF Deal, NewAuction
<1>2. 0 \in Values /\ [s \in Seats |-> 0] \in [Seats -> Values]
  BY TopAssumption DEF Values
<1> QED
  BY <1>1, <1>2 DEF EngineRecord

LEMMA DealMoves ==
  ASSUME NEW g \in Nat \ {0}, NEW me \in Seats
  PROVE  Auction(Deal(g, me)) /\ Remembers(Deal(g, me), Fresh)
<1> DEFINE e == Deal(g, me)
<1>1. /\ e \in EngineRecord /\ e.game = g /\ e.me = me /\ e.contract = None /\ e.phase = "bid"
      /\ e.stage = 1 /\ e.hearer = 0 /\ e.cur = 0 /\ e.bids = [s \in Seats |-> 0]
  BY DealIsAuction
<1> HIDE DEF e
<1>2. \A s \in Seats : e.bids[s] = 0
  BY <1>1
<1>3. Auction(e)
  BY <1>1, <1>2 DEF Auction, FirstDuel, Seats
<1>4. Remembers(e, Fresh)
  BY <1>1, FreshIsPlayer DEF Remembers
<1> QED
  BY <1>3, <1>4 DEF e

----------------------------------------------------------------------------
(* The steps.                                                               *)

LEMMA RecordsOpen ==
  ASSUME DialogueInv
  PROVE  /\ client = [pc |-> client.pc, req |-> client.req, stale |-> client.stale]
         /\ host = [alive |-> host.alive, killed |-> host.killed, inbox |-> host.inbox,
                    outbox |-> host.outbox, work |-> host.work]
         /\ client.stale \in Nat /\ Awaiting \in {0, 1} /\ Working \in {0, 1}
         /\ Len(host.inbox) \in Nat /\ Len(host.outbox) \in Nat
<1> USE DEF DialogueInv, Waits, Pipes
<1>1. client \in ClientRecord /\ host \in HostRecord
  OBVIOUS
<1>2. host.inbox \in Seq(Requests) /\ host.outbox \in Seq(Lines)
  BY <1>1 DEF HostRecord
<1> HIDE DEF DialogueInv, Waits, Pipes
<1>3. Len(host.inbox) \in Nat /\ Len(host.outbox) \in Nat
  BY <1>2
<1>4. client = [pc |-> client.pc, req |-> client.req, stale |-> client.stale] /\ client.stale \in Nat
  BY <1>1 DEF ClientRecord
<1>5. host = [alive |-> host.alive, killed |-> host.killed, inbox |-> host.inbox,
              outbox |-> host.outbox, work |-> host.work]
  BY <1>1 DEF HostRecord
<1>6. Awaiting \in {0, 1} /\ Working \in {0, 1}
  BY DEF Awaiting, Working
<1> QED
  BY <1>3, <1>4, <1>5, <1>6

LEMMA NoRequestIsNone == NoRequest \notin Requests
BY DEF NoRequest, Requests, None

\* A step of the engine or of the player while no request is on its way.
LEMMA EngineMoves ==
  ASSUME DialogueInv, client.pc = "idle", UNCHANGED <<client, host>>,
         Auction(engine'), Remembers(engine', player')
  PROVE  DialogueInv'
<1>1. Waits'
  BY DEF DialogueInv, Waits, RequestsTellTheAuction
<1>2. Pipes'
  BY DEF DialogueInv, Pipes, Unread, Awaiting, Working, LastIsOwn, SameRequest
<1> QED
  BY <1>1, <1>2 DEF DialogueInv

LEMMA OthersWait ==
  ASSUME DialogueInv, Asked \in Seats \ {engine.me}
  PROVE  client.pc = "idle"
BY DEF DialogueInv, Waits

LEMMA OtherAnswersInv == ASSUME DialogueInv, OtherAnswers PROVE DialogueInv'
<1>1. client.pc = "idle" /\ UNCHANGED <<client, host, player>>
  BY OthersWait DEF OtherAnswers
<1>2. engine.phase \in {"bid", "hold", "solo"} /\ Auction(engine) /\ Remembers(engine, player)
  BY DEF OtherAnswers, DialogueInv
<1>3. PICK yes \in BOOLEAN : (engine.phase = "bid" /\ engine.cur = Top => ~yes) /\ engine' = Answered(yes)
  BY DEF OtherAnswers
<1>4. engine' = Bidding(engine, yes)
  BY <1>2, <1>3 DEF Answered
<1>5. engine.cur \in Nat /\ Top \in Nat /\ engine.cur <= Top
  BY <1>2, TopAssumption DEF Auction, EngineRecord, Values
<1>6. Auction(engine')
  BY <1>2, <1>3, <1>4, <1>5, BiddingMoves
<1>7. /\ engine'.me = engine.me /\ engine'.game = engine.game
      /\ engine'.phase \in {"bid", "hold", "solo", "pick", "over"}
      /\ engine'.phase = "pick" /\ engine'.declarer = 0 /\ engine'.cur = 0 => engine.phase = "solo"
  BY <1>2, <1>4, BiddingKeeps
<1>8. engine.phase = "solo" => engine.me # 0
  BY DEF OtherAnswers, Asked, Announcer
<1>9. Remembers(engine', player')
  BY <1>1, <1>2, <1>7, <1>8 DEF Remembers
<1> QED
  BY <1>1, <1>6, <1>9, EngineMoves

LEMMA OtherDeclaresInv == ASSUME DialogueInv, OtherDeclares PROVE DialogueInv'
<1>1. engine.phase = "pick" /\ engine.declarer # engine.me /\ UNCHANGED <<client, host, player>>
  BY DEF OtherDeclares
<1>2. Auction(engine) /\ Remembers(engine, player)
  BY DEF DialogueInv
<1>3. engine.declarer \in Seats /\ Asked = engine.declarer
  BY <1>1, <1>2 DEF Auction, Declared, Asked
<1>4. client.pc = "idle"
  BY <1>1, <1>3, OthersWait
<1>5. PICK c \in {"hand", "open"} : engine' = [engine EXCEPT !.phase = "play", !.contract = c]
  BY DEF OtherDeclares
<1>6. /\ engine' \in EngineRecord /\ engine'.phase = "play" /\ engine'.contract = c
      /\ engine'.cur = engine.cur /\ engine'.bids = engine.bids /\ engine'.declarer = engine.declarer
      /\ engine'.me = engine.me /\ engine'.game = engine.game
  BY <1>2, <1>5 DEF Auction, EngineRecord
<1>7. Auction(engine')
  BY <1>1, <1>2, <1>6 DEF Auction, Declared, None
<1>8. Remembers(engine', player')
  BY <1>1, <1>2, <1>6 DEF Remembers
<1> QED
  BY <1>1, <1>4, <1>7, <1>8, EngineMoves

LEMMA NewGameInv == ASSUME DialogueInv, prepareForNewGame PROVE DialogueInv'
<1>1. client.pc = "idle" /\ UNCHANGED <<client, host>> /\ player' = Fresh
  BY DEF prepareForNewGame
<1>2. PICK me \in Seats : engine' = Deal(engine.game + 1, me)
  BY DEF prepareForNewGame
<1>3. engine.game + 1 \in Nat \ {0}
  BY DEF DialogueInv, Auction, EngineRecord
<1> QED
  BY <1>1, <1>2, <1>3, DealMoves, EngineMoves

\* A request that tells the auction goes its way.
LEMMA AskInv ==
  ASSUME DialogueInv, client.pc = "idle", Asked = engine.me, engine.phase # "announce",
         engine.phase = "bid" /\ engine.stage = 1 => engine.cur < Top,
         NEW req \in Requests, NEW n \in Nat, Ask(req, n), UNCHANGED host,
         RequestsTellTheAuction'
  PROVE  DialogueInv'
<1>1. client' = [pc |-> "write", req |-> req, stale |-> client.stale] /\ UNCHANGED engine
  BY RecordsOpen DEF Ask
<1>2. Waits'
  BY <1>1, RecordsOpen DEF Waits, ClientRecord, Asked, Announcer
<1>3. Remembers(engine, player')
  <2>1. player \in PlayerRecord /\ player' = [player EXCEPT !.seq = @ + n] /\ Remembers(engine, player)
    BY DEF Ask, DialogueInv, Remembers
  <2>2. player.seq + n \in Nat
    BY <2>1 DEF PlayerRecord
  <2>3. player' \in PlayerRecord /\ player'.solo = player.solo /\ player'.plan = player.plan
        /\ player'.hand = player.hand
    BY <2>1, <2>2 DEF PlayerRecord
  <2> QED
    BY <2>1, <2>3 DEF Remembers
<1>4. Pipes'
  BY <1>1 DEF DialogueInv, Pipes, Unread, Awaiting, Working
<1> QED
  BY <1>1, <1>2, <1>3, <1>4 DEF DialogueInv

\* What the player makes of the bids it was told.
LEMMA HighestBid ==
  ASSUME NEW m, \A s \in Seats : engine.bids[s] <= m, \E s \in Seats : engine.bids[s] = m,
         m \in Nat, \A s \in Seats : engine.bids[s] \in Nat
  PROVE  maxAcceptedBid = m
<1> DEFINE Bids == {highestBid(s) : s \in Seats}
<1>1. m \in Bids /\ \A s \in Seats : highestBid(s) <= m
  BY DEF highestBid
<1>2. \A v \in Bids : (\A s \in Seats : highestBid(s) <= v) => v = m
  <2> SUFFICES ASSUME NEW v \in Bids, \A s \in Seats : highestBid(s) <= v PROVE v = m
    OBVIOUS
  <2>1. PICK s \in Seats : engine.bids[s] = m
    OBVIOUS
  <2>2. PICK t \in Seats : v = engine.bids[t]
    BY DEF highestBid
  <2>3. m <= v /\ v <= m /\ v \in Nat
    BY <2>1, <2>2 DEF highestBid
  <2> QED
    BY <2>3
<1>3. maxAcceptedBid \in Bids /\ \A s \in Seats : highestBid(s) <= maxAcceptedBid
  BY <1>1 DEF maxAcceptedBid
<1> QED
  BY <1>2, <1>3

LEMMA BidIsKnown ==
  ASSUME DialogueInv, engine.phase \in {"pick", "discard", "play"},
         engine.phase # "play" => Asked = engine.me
  PROVE  /\ winningBid \in Values /\ winningBid > 0
         /\ maxAcceptedBids \in [Seats -> Values]
         /\ engine.declarer \in Seats /\ winningBid = maxAcceptedBids[engine.declarer]
         /\ \A s \in Seats : maxAcceptedBids[s] =
               IF s = 0 /\ engine.declarer = 0 /\ engine.cur = 0 THEN 1 ELSE engine.bids[s]
<1>1. /\ Auction(engine) /\ Remembers(engine, player) /\ Declared(engine)
      /\ engine.cur \in Nat /\ engine.cur \in Values /\ engine.declarer \in Seats
      /\ \A s \in Seats : engine.bids[s] \in Nat /\ engine.bids[s] \in Values /\ engine.bids[s] <= engine.cur
  BY DEF DialogueInv, Auction, EngineRecord, Values, Declared
<1>2. maxAcceptedBid = engine.cur
  BY <1>1, HighestBid DEF Declared
<1>3. engine.phase # "play" => engine.declarer = engine.me
  BY DEF Asked
<1>4. player.solo = 1 => engine.declarer = 0 /\ engine.cur = 0
  BY <1>1 DEF Remembers
<1>5. engine.cur = 0 => engine.declarer = 0 /\ inferredSoloForehand18
  BY <1>1, <1>2, <1>3 DEF Remembers, Auction, Declared, inferredSoloForehand18
<1>6. inferredSoloForehand18 => engine.declarer = 0 /\ engine.cur = 0
  BY <1>2, <1>4 DEF inferredSoloForehand18
<1>7. winningBid = IF engine.cur > 0 THEN engine.cur ELSE 1
  BY <1>1, <1>2, <1>5 DEF winningBid
<1>8. 1 \in Values
  BY TopAssumption DEF Values
<1>9. winningBid \in Values /\ winningBid > 0
  BY <1>1, <1>7, <1>8
<1>10. 0 \in Seats
  BY DEF Seats
<1>11. \A s \in Seats : maxAcceptedBids[s] =
         IF s = 0 /\ engine.bids[0] = 0 /\ (player.solo = 1 \/ (engine.cur = 0 /\ inferredSoloForehand18))
         THEN 1 ELSE engine.bids[s]
  BY <1>2 DEF maxAcceptedBids, highestBid
<1>12. engine.cur = 0 => engine.bids[0] = 0
  BY <1>1, <1>10
<1>13. \A s \in Seats : maxAcceptedBids[s] =
         IF s = 0 /\ engine.declarer = 0 /\ engine.cur = 0 THEN 1 ELSE engine.bids[s]
  BY <1>4, <1>5, <1>6, <1>11, <1>12
<1>14. \A s \in Seats : maxAcceptedBids[s] \in Values
  BY <1>1, <1>8, <1>13
<1>15. maxAcceptedBids \in [Seats -> Values]
  BY <1>14 DEF maxAcceptedBids
<1>16. winningBid = maxAcceptedBids[engine.declarer]
  BY <1>1, <1>5, <1>7, <1>13 DEF Declared
<1> QED
  BY <1>1, <1>9, <1>13, <1>15, <1>16

LEMMA GameIsNamed ==
  ASSUME DialogueInv
  PROVE  engine.game \in Nat /\ player.seq \in Nat /\ engine.me \in Seats
BY DEF DialogueInv, Auction, Remembers, EngineRecord, PlayerRecord

LEMMA DecideInv ==
  ASSUME DialogueInv, client.pc = "idle", Asked = engine.me, UNCHANGED host,
         engine.phase \in {"pick", "discard", "play"},
         NEW kind \in {"DECLARATION", "PLAN", "PLAY_CARD"}, NEW n \in Nat, Decide(kind, n)
  PROVE  DialogueInv'
<1> DEFINE req == [kind |-> kind, game |-> engine.game, seq |-> player.seq, bid |-> winningBid,
                   bids |-> maxAcceptedBids]
<1>1. Ask(req, n)
  BY DEF Decide
<1>2. req \in Requests /\ req.kind # "BID"
  BY BidIsKnown, GameIsNamed DEF Requests
<1>3. req.bid = winningBid /\ req.bids = maxAcceptedBids
  OBVIOUS
<1> HIDE DEF req
<1>4. client'.req = req /\ UNCHANGED engine
  BY <1>1, RecordsOpen DEF Ask
<1>5. winningBid >= 1
  BY BidIsKnown DEF Values
<1>6. RequestsTellTheAuction'
  BY <1>2, <1>3, <1>4, <1>5, BidIsKnown DEF RequestsTellTheAuction
<1> QED
  BY <1>1, <1>2, <1>6, AskInv

LEMMA BidInv ==
  ASSUME DialogueInv, client.pc = "idle", Asked = engine.me, UNCHANGED host,
         engine.phase \in {"bid", "hold", "solo"},
         engine.phase = "bid" /\ engine.stage = 1 => engine.cur < Top,
         NEW b \in Seats, NEW a \in Seats, Bid(b, a),
         engine.phase = "solo" => b = 0 /\ a = 0,
         engine.phase # "solo" => b = Announcer(engine) /\ a = engine.hearer
  PROVE  DialogueInv'
<1> DEFINE req == [kind |-> "BID", game |-> engine.game, seq |-> player.seq, bidder |-> b,
                   answerer |-> a, actor |-> engine.me]
<1>1. Ask(req, 1)
  BY DEF Bid
<1>2. req \in Requests /\ req.kind = "BID"
  BY GameIsNamed DEF Requests
<1>3. req.bidder = b /\ req.answerer = a
  OBVIOUS
<1> HIDE DEF req
<1>4. client'.req = req /\ UNCHANGED engine
  BY <1>1, RecordsOpen DEF Ask
<1>6. RequestsTellTheAuction'
  BY <1>2, <1>3, <1>4 DEF RequestsTellTheAuction
<1> QED
  BY <1>1, <1>2, <1>6, AskInv

LEMMA BidMoreInv == ASSUME DialogueInv, bidMore PROVE DialogueInv'
<1>1. /\ client.pc = "idle" /\ Asked = engine.me /\ UNCHANGED host
      /\ engine.phase \in {"bid", "solo"} /\ Announcer(engine) = engine.me
  BY DEF bidMore, MyTurn, Asked
<1>2. /\ Auction(engine) /\ Remembers(engine, player) /\ engine.stage \in {1, 2} /\ engine.cur \in Nat
      /\ engine.cur <= Top /\ Top \in Nat /\ Top > 0
      /\ \A s \in Seats : engine.bids[s] \in Nat /\ engine.bids[s] <= engine.cur
  BY TopAssumption DEF DialogueInv, Auction, EngineRecord, Values
<1>3. CASE engine.phase = "bid"
  <2> DEFINE answerer == IF engine.me = 2 THEN firstDuelWinner ELSE 0
  <2>1. engine.me = engine.stage /\ engine.me # 0
    BY <1>1, <1>2, <1>3 DEF Announcer
  <2>2. answerer = engine.hearer /\ answerer \in Seats /\ engine.me \in Seats
    BY <1>2, <1>3, <2>1 DEF Auction, EngineRecord, FirstDuel, SecondDuel, firstDuelWinner, highestBid, Seats
  <2>3. engine.stage = 1 /\ engine.cur = Top =>
          Next18(engine.cur) = Top /\ highestBid(engine.me) = Top /\ highestBid(answerer) = Top
    BY <1>2, <1>3, <2>1, <2>2 DEF Auction, FirstDuel, Next18, highestBid
  <2>4. ASSUME engine' = Answered(FALSE), UNCHANGED <<player, client>> PROVE DialogueInv'
    <3>1. engine' = Bidding(engine, FALSE)
      BY <1>3, <2>4 DEF Answered
    <3>2. Auction(engine')
      BY <1>2, <1>3, <3>1, BiddingMoves
    <3>3. /\ engine'.me = engine.me /\ engine'.game = engine.game
          /\ engine'.phase \in {"bid", "hold", "solo", "pick", "over"}
          /\ engine'.phase = "pick" /\ engine'.declarer = 0 /\ engine'.cur = 0 => engine.phase = "solo"
      BY <1>2, <1>3, <3>1, BiddingKeeps
    <3>4. player' = player /\ Remembers(engine, player)
      BY <1>2, <2>4
    <3>5. Remembers(engine', player)
      BY <1>3, <3>3, <3>4 DEF Remembers
    <3> QED
      BY <1>1, <2>4, <3>2, <3>4, <3>5, EngineMoves
  <2>5. ASSUME Bid(engine.me, answerer),
               ~(Next18(engine.cur) = Top /\ highestBid(engine.me) = Top /\ highestBid(answerer) = Top)
        PROVE  DialogueInv'
    <3>1. engine.stage = 1 => engine.cur < Top
      BY <1>2, <2>3, <2>5
    <3> HIDE DEF answerer
    <3> QED
      BY <1>1, <1>3, <2>2, <2>5, <3>1, BidInv
  <2>6. \/ engine' = Answered(FALSE) /\ UNCHANGED <<player, client>>
        \/ /\ Bid(engine.me, answerer)
           /\ ~(Next18(engine.cur) = Top /\ highestBid(engine.me) = Top /\ highestBid(answerer) = Top)
    BY <1>3, <2>1 DEF bidMore
  <2> QED
    BY <2>4, <2>5, <2>6
<1>4. CASE engine.phase = "solo"
  <2>1. engine.me = 0 /\ engine.cur = 0 /\ 0 \in Seats
    BY <1>1, <1>2, <1>4 DEF Announcer, Auction, Seats
  <2>2. engine.bids[0] = 0
    BY <1>2, <2>1
  <2>3. maxAcceptedBid = 0
    BY <1>2, <2>1, <2>2, HighestBid
  <2>4. Bid(0, 0)
    BY <1>4, <2>1, <2>3 DEF bidMore
  <2> QED
    BY <1>1, <1>4, <2>1, <2>4, BidInv
<1> QED
  BY <1>1, <1>3, <1>4

LEMMA HoldBidInv == ASSUME DialogueInv, holdBid PROVE DialogueInv'
<1>1. /\ client.pc = "idle" /\ Asked = engine.me /\ UNCHANGED host
      /\ engine.phase = "hold" /\ engine.hearer = engine.me
  BY DEF holdBid, MyTurn, Asked
<1>2. /\ Auction(engine) /\ engine.stage \in {1, 2} /\ engine.cur \in Nat /\ engine.me \in {0, 1}
      /\ \A s \in Seats : engine.bids[s] \in Nat
  BY <1>1 DEF DialogueInv, Auction, EngineRecord, Values
<1> DEFINE bidder == IF highestBid(2) >= engine.cur THEN 2 ELSE 1
<1>3. bidder = engine.stage /\ engine.me \notin {2, bidder}
  BY <1>1, <1>2 DEF Auction, FirstDuel, SecondDuel, highestBid
<1>4. Bid(bidder, engine.me)
  BY <1>3 DEF holdBid
<1> HIDE DEF bidder
<1>5. bidder = Announcer(engine) /\ bidder \in Seats /\ engine.me \in Seats
  BY <1>1, <1>2, <1>3 DEF Announcer, Seats
<1> QED
  BY <1>1, <1>4, <1>5, BidInv

LEMMA PickDiscardInv == ASSUME DialogueInv, pickUpSkat \/ getCardsToDiscard PROVE DialogueInv'
<1>1. /\ client.pc = "idle" /\ Asked = engine.me /\ UNCHANGED host
      /\ engine.phase \in {"pick", "discard"}
  BY DEF pickUpSkat, getCardsToDiscard, MyTurn
<1>2. winningBid # 0
  BY <1>1, BidIsKnown DEF Values
<1>3. Decide("DECLARATION", 1) \/ Decide("PLAN", 2)
  BY <1>2 DEF pickUpSkat, getCardsToDiscard
<1> QED
  BY <1>1, <1>3, DecideInv

LEMMA AnnounceInv == ASSUME DialogueInv, announceGame PROVE DialogueInv'
<1>1. /\ client.pc = "idle" /\ Asked = engine.me /\ UNCHANGED host
      /\ engine.phase = "announce" /\ engine.declarer = engine.me
  BY DEF announceGame, MyTurn, Asked
<1>2. Auction(engine) /\ Remembers(engine, player)
  BY DEF DialogueInv
<1>3. player.plan = engine.game \/ (player.plan = 0 /\ player.hand)
  BY <1>1, <1>2 DEF Remembers
<1>4. ASSUME NEW c \in {"open", "hand"}, c = "open" => player.plan = engine.game,
             engine' = [engine EXCEPT !.phase = "play", !.contract = c], UNCHANGED <<player, client>>
      PROVE  DialogueInv'
  <2>1. /\ engine' \in EngineRecord /\ engine'.phase = "play" /\ engine'.contract = c
        /\ engine'.cur = engine.cur /\ engine'.bids = engine.bids /\ engine'.declarer = engine.declarer
        /\ engine'.me = engine.me /\ engine'.game = engine.game
    BY <1>2, <1>4 DEF Auction, EngineRecord
  <2>2. Auction(engine')
    BY <1>1, <1>2, <2>1 DEF Auction, Declared, None
  <2>3. engine.game > 0 /\ engine.game \in Nat
    BY <1>1, <1>2 DEF Auction, EngineRecord
  <2>4. Remembers(engine', player')
    BY <1>1, <1>2, <1>4, <2>1, <2>3 DEF Remembers
  <2> QED
    BY <1>1, <1>4, <2>2, <2>4, EngineMoves
<1>5. engine.game # 0
  BY <1>1, <1>2 DEF Auction, EngineRecord
<1>6. \/ /\ player.plan = engine.game /\ UNCHANGED <<player, client>>
         /\ engine' = [engine EXCEPT !.phase = "play", !.contract = "open"]
      \/ /\ engine' = [engine EXCEPT !.phase = "play", !.contract = "hand"]
         /\ UNCHANGED <<player, client>>
  BY <1>3, <1>5 DEF announceGame
<1>7. "open" \in {"open", "hand"} /\ "hand" \in {"open", "hand"} /\ "hand" # "open"
  OBVIOUS
<1> QED
  BY <1>4, <1>6, <1>7

LEMMA PlayCardInv == ASSUME DialogueInv, playCard PROVE DialogueInv'
<1>1. client.pc = "idle" /\ Asked = engine.me /\ UNCHANGED host /\ engine.phase = "play"
  BY DEF playCard, MyTurn
<1>2. winningBid # 0
  BY <1>1, BidIsKnown DEF Values
<1>3. ~(engine.me = engine.declarer /\ engine.contract = "open" /\ player.plan = 0)
  BY <1>1 DEF DialogueInv, Remembers
<1>4. Decide("PLAY_CARD", 1)
  BY <1>2, <1>3 DEF playCard
<1> QED
  BY <1>1, <1>4, DecideInv

\* The client gives a request up: nobody waits, and a readLine may be left behind.
LEMMA GivesUp ==
  ASSUME DialogueInv, NEW n \in Nat, GiveUp(n), Auction(engine'), Remembers(engine', player'), Pipes'
  PROVE  DialogueInv'
<1>1. client' = [pc |-> "idle", req |-> NoRequest, stale |-> client.stale + n]
  BY RecordsOpen DEF GiveUp
<1>2. client' \in ClientRecord /\ client'.pc = "idle"
  BY <1>1, RecordsOpen DEF ClientRecord
<1>3. Waits'
  BY <1>2 DEF Waits, RequestsTellTheAuction
<1> QED
  BY <1>3 DEF DialogueInv

LEMMA EmptyLen == Len(<<>>) = 0
OBVIOUS

LEMMA ThrowEnds ==
  ASSUME DialogueInv, Throw, UNCHANGED player
  PROVE  Auction(engine') /\ Remembers(engine', player')
BY GameOver DEF DialogueInv, Throw

LEMMA ExchangeInv == ASSUME DialogueInv, Exchange PROVE DialogueInv'
<1>1. client.pc = "write" /\ UNCHANGED player /\ client.req \in Requests
  BY DEF Exchange, DialogueInv, Waits
<1>2. CASE host.alive
  <2>1. /\ host' = [host EXCEPT !.inbox = Append(@, client.req)]
        /\ client' = [client EXCEPT !.pc = "await"] /\ UNCHANGED engine
    BY <1>2 DEF Exchange
  <2>2. client' = [pc |-> "await", req |-> client.req, stale |-> client.stale]
    BY <2>1, RecordsOpen
  <2>3. client' \in ClientRecord
    BY <1>1, <2>2, RecordsOpen DEF ClientRecord
  <2>4. Waits'
    BY <1>1, <2>1, <2>2, <2>3 DEF DialogueInv, Waits, RequestsTellTheAuction, Asked, Announcer
  <2>5. host' = [alive |-> host.alive, killed |-> host.killed, inbox |-> Append(host.inbox, client.req),
                 outbox |-> host.outbox, work |-> host.work]
    BY <2>1, RecordsOpen
  <2>6. host.inbox \in Seq(Requests)
    BY DEF DialogueInv, Pipes, HostRecord
  <2>7. /\ host'.inbox \in Seq(Requests) /\ Len(host'.inbox) = Len(host.inbox) + 1
        /\ host'.inbox[Len(host'.inbox)] = client.req /\ host'.inbox # <<>>
    BY <1>1, <2>5, <2>6
  <2>8. host' \in HostRecord
    BY <2>5, <2>7 DEF DialogueInv, Pipes, HostRecord
  <2>9. Unread' = Unread + 1 /\ Awaiting = 0 /\ Awaiting' = 1 /\ client'.stale = client.stale
    <3>1. Awaiting = 0 /\ Awaiting' = 1 /\ client'.stale = client.stale
      BY <1>1, <2>2 DEF Awaiting
    <3>2. Working' = Working /\ host'.outbox = host.outbox
      BY <2>5 DEF Working
    <3>3. Working \in Nat /\ Len(host.outbox) \in Nat /\ Len(host.inbox) \in Nat
      BY RecordsOpen
    <3>4. \A a, b, c \in Nat : a + b + (c + 1) = (a + b + c) + 1
      OBVIOUS
    <3>5. Unread' = Len(host.outbox) + Working + (Len(host.inbox) + 1)
      BY <2>7, <3>2 DEF Unread
    <3>6. Unread' = Unread + 1
      BY <3>3, <3>4, <3>5 DEF Unread
    <3> QED
      BY <3>1, <3>6
  <2>10. LastIsOwn'
    BY <2>2, <2>7 DEF LastIsOwn
  <2>11. Unread <= client.stale + Awaiting /\ host'.alive
    BY <1>2, <2>5 DEF DialogueInv, Pipes
  <2>12. Unread \in Nat
    BY RecordsOpen DEF Unread
  <2>13. Unread' <= client'.stale + Awaiting'
    BY <2>9, <2>11, <2>12, RecordsOpen
  <2>14. Pipes'
    BY <2>8, <2>10, <2>11, <2>13 DEF Pipes
  <2> QED
    BY <1>1, <2>1, <2>4, <2>14 DEF DialogueInv
<1>3. CASE ~host.alive
  <2>1. GiveUp(0) /\ Throw /\ UNCHANGED host
    BY <1>3 DEF Exchange
  <2>2. client' = [pc |-> "idle", req |-> NoRequest, stale |-> client.stale + 0]
    BY <2>1, RecordsOpen DEF GiveUp
  <2>3. Awaiting = 0 /\ Awaiting' = 0 /\ client'.pc # "await" /\ client'.stale = client.stale
    BY <1>1, <2>2, RecordsOpen DEF Awaiting
  <2>4. Unread' = Unread
    BY <2>1 DEF Unread, Working
  <2>5. Pipes'
    BY <2>1, <2>3, <2>4 DEF DialogueInv, Pipes
  <2> QED
    BY <1>1, <2>1, <2>5, ThrowEnds, GivesUp
<1> QED
  BY <1>2, <1>3

LEMMA TailOf ==
  ASSUME NEW S, NEW s \in Seq(S), s # <<>>
  PROVE  /\ Tail(s) \in Seq(S) /\ Len(Tail(s)) = Len(s) - 1 /\ Len(s) > 0 /\ Len(s) \in Nat
         /\ Head(s) \in S /\ Head(s) = s[1]
         /\ Tail(s) # <<>> => Len(s) > 1 /\ Tail(s)[Len(Tail(s))] = s[Len(s)]
         /\ Tail(s) = <<>> => Len(s) = 1
<1>1. Len(s) \in Nat /\ Len(s) > 0 /\ Tail(s) \in Seq(S) /\ Len(Tail(s)) = Len(s) - 1
      /\ Head(s) = s[1] /\ Head(s) \in S
  OBVIOUS
<1>2. \A i \in 1..Len(Tail(s)) : Tail(s)[i] = s[i + 1]
  OBVIOUS
<1>3. Tail(s) # <<>> => Len(Tail(s)) > 0
  BY <1>1
<1>4. Tail(s) = <<>> => Len(Tail(s)) = 0
  BY EmptyLen
<1>5. Tail(s) # <<>> => Len(s) > 1 /\ Tail(s)[Len(Tail(s))] = s[Len(s)]
  BY <1>1, <1>2, <1>3
<1> QED
  BY <1>1, <1>4, <1>5

LEMMA StaleReadInv == ASSUME DialogueInv, StaleRead PROVE DialogueInv'
<1>1. client.stale > 0 /\ UNCHANGED <<engine, player>>
      /\ client' = [client EXCEPT !.stale = @ - 1]
  BY DEF StaleRead
<1>2. client' = [pc |-> client.pc, req |-> client.req, stale |-> client.stale - 1]
  BY <1>1, RecordsOpen
<1>3. client' \in ClientRecord
  <2>1. client.stale - 1 \in Nat
    BY <1>1, RecordsOpen
  <2> QED
    BY <1>2, <2>1 DEF DialogueInv, Waits, ClientRecord
<1>4. Waits'
  BY <1>1, <1>2, <1>3 DEF DialogueInv, Waits, RequestsTellTheAuction, Asked, Announcer
<1>5. Awaiting' = Awaiting /\ client'.stale = client.stale - 1
  BY <1>2 DEF Awaiting
<1>6. CASE host.outbox = <<>>
  <2>1. ~host.alive /\ host' = [host EXCEPT !.outbox = IF @ = <<>> THEN @ ELSE Tail(@)]
    BY <1>6 DEF StaleRead
  <2>2. host' = host
    BY <1>6, <2>1, RecordsOpen
  <2>3. Unread = 0 /\ Unread' = 0
    <3>1. Len(host.outbox) = 0 /\ Len(host.inbox) = 0 /\ Working = 0
      BY <1>6, <2>1, EmptyLen DEF DialogueInv, Pipes, Working
    <3> QED
      BY <2>2, <3>1 DEF Unread, Working
  <2>4. Unread' <= client'.stale + Awaiting' /\ Unread' # client'.stale + 1
    BY <1>1, <1>5, <2>3, RecordsOpen
  <2>5. Pipes'
    BY <2>2, <2>4 DEF DialogueInv, Pipes
  <2> QED
    BY <1>1, <1>4, <2>5 DEF DialogueInv
<1>7. CASE host.outbox # <<>>
  <2>1. host' = [host EXCEPT !.outbox = IF @ = <<>> THEN @ ELSE Tail(@)]
    BY DEF StaleRead
  <2>2. host' = [alive |-> host.alive, killed |-> host.killed, inbox |-> host.inbox,
                 outbox |-> Tail(host.outbox), work |-> host.work]
    BY <1>7, <2>1, RecordsOpen
  <2>3. host.outbox \in Seq(Lines)
    BY DEF DialogueInv, Pipes, HostRecord
  <2>4. /\ Tail(host.outbox) \in Seq(Lines) /\ Len(Tail(host.outbox)) = Len(host.outbox) - 1
        /\ Tail(host.outbox) # <<>> => Tail(host.outbox)[Len(Tail(host.outbox))] = host.outbox[Len(host.outbox)]
    BY <1>7, <2>3, TailOf
  <2>5. host' \in HostRecord
    BY <2>2, <2>4 DEF DialogueInv, Pipes, HostRecord
  <2>6. Unread' = Unread - 1 /\ Unread \in Nat
    BY <2>2, <2>4, RecordsOpen DEF Unread, Working
  <2>7. Unread <= client.stale + Awaiting
    BY DEF DialogueInv, Pipes
  <2>8. Unread' <= client'.stale + Awaiting' /\ (Unread' = client'.stale + 1 <=> Unread = client.stale + 1)
    BY <1>1, <1>5, <2>6, <2>7, RecordsOpen
  <2>9. ASSUME client'.pc = "await", Unread' = client'.stale + 1 PROVE LastIsOwn'
    <3>1. LastIsOwn
      BY <1>2, <2>8, <2>9 DEF DialogueInv, Pipes
    <3> QED
      BY <1>2, <1>7, <2>2, <2>4, <3>1 DEF LastIsOwn, SameRequest
  <2>10. Pipes'
    BY <2>2, <2>5, <2>8, <2>9 DEF DialogueInv, Pipes
  <2> QED
    BY <1>1, <1>4, <2>10 DEF DialogueInv
<1> QED
  BY <1>6, <1>7

\* The answer to our own request, or none at all.
LEMMA NextLineIsOwn ==
  ASSUME DialogueInv, LineIsNext
  PROVE  SameRequest(Head(host.outbox), client.req) /\ Unread = 1
<1>1. client.pc = "await" /\ client.stale = 0 /\ host.outbox # <<>> /\ Awaiting = 1
  BY DEF LineIsNext, Awaiting
<1>2. host.outbox \in Seq(Lines) /\ host.inbox \in Seq(Requests)
  BY DEF DialogueInv, Pipes, HostRecord
<1>3. Len(host.outbox) > 0 /\ Head(host.outbox) = host.outbox[1]
  BY <1>1, <1>2, TailOf
<1>4. Unread <= 1
  BY <1>1 DEF DialogueInv, Pipes
<1>5. Len(host.outbox) = 1 /\ Working = 0 /\ Len(host.inbox) = 0 /\ Unread = 1
  <2>1. Working \in Nat /\ Len(host.inbox) \in Nat /\ Len(host.outbox) \in Nat
    BY RecordsOpen
  <2>2. \A a, b, c \in Nat : a + b + c <= 1 /\ a > 0 => a = 1 /\ b = 0 /\ c = 0 /\ a + b + c = 1
    OBVIOUS
  <2>3. Len(host.outbox) + Working + Len(host.inbox) <= 1
    BY <1>4 DEF Unread
  <2>4. Len(host.outbox) = 1 /\ Working = 0 /\ Len(host.inbox) = 0
        /\ Len(host.outbox) + Working + Len(host.inbox) = 1
    BY <1>3, <2>1, <2>2, <2>3
  <2> QED
    BY <2>4 DEF Unread
<1>6. host.inbox = <<>> /\ host.work = NoRequest
  BY <1>2, <1>5 DEF Working
<1>7. LastIsOwn
  BY <1>1, <1>5 DEF DialogueInv, Pipes
<1> QED
  BY <1>1, <1>3, <1>5, <1>6, <1>7 DEF LastIsOwn

\* What the player makes of an answer.
LEMMA ReturnMoves ==
  ASSUME DialogueInv, client.pc # "idle", NEW yes \in BOOLEAN, Return(yes)
  PROVE  Auction(engine') /\ Remembers(engine', player')
<1>1. /\ Auction(engine) /\ Remembers(engine, player) /\ Asked = engine.me
      /\ engine.phase # "announce" /\ engine.me \in Seats /\ engine \in EngineRecord
      /\ engine.phase = "bid" /\ engine.stage = 1 => engine.cur < Top
  BY DEF DialogueInv, Waits, Auction, EngineRecord
<1>2. player \in PlayerRecord /\ engine' = Answered(yes)
  BY <1>1 DEF Remembers, Return
<1>3. engine.phase \in {"bid", "hold", "solo", "pick", "discard", "play"}
  <2>1. engine.phase # "over"
    BY <1>1 DEF Asked, Seats, NoOne
  <2> QED
    BY <1>1, <2>1 DEF EngineRecord
<1>4. CASE engine.phase \in {"bid", "hold", "solo"}
  <2>1. engine' = Bidding(engine, yes)
    BY <1>2, <1>4 DEF Answered
  <2>2. Auction(engine')
    BY <1>1, <1>4, <2>1, BiddingMoves DEF EngineRecord
  <2>3. /\ engine'.me = engine.me /\ engine'.game = engine.game
        /\ engine'.phase \in {"bid", "hold", "solo", "pick", "over"}
        /\ engine'.phase = "pick" /\ engine'.declarer = 0 /\ engine'.cur = 0 => engine.phase = "solo"
        /\ engine.phase = "solo" /\ engine'.phase = "pick" => yes /\ engine'.declarer = 0 /\ engine'.cur = 0
    BY <1>1, <1>4, <2>1, BiddingKeeps
  <2>4. player.solo = 0 /\ player.plan = 0
    BY <1>1, <1>4 DEF Remembers
  <2>5. CASE engine.phase = "solo" /\ yes
    <3>1. player' = [player EXCEPT !.solo = 1]
      BY <2>5 DEF Return
    <3>2. player' \in PlayerRecord /\ player'.solo = 1 /\ player'.plan = 0
      BY <1>2, <2>4, <3>1 DEF PlayerRecord
    <3>3. engine' = [engine EXCEPT !.phase = "pick", !.declarer = 0]
      BY <2>1, <2>5 DEF Bidding
    <3>4. 0 \in Seats
      BY DEF Seats
    <3>5. engine'.phase = "pick"
      BY <1>1, <3>3, <3>4, DeclarerIsSet
    <3> QED
      BY <2>2, <2>3, <2>5, <3>2, <3>5 DEF Remembers
  <2>6. CASE ~(engine.phase = "solo" /\ yes)
    <3>1. player' = player
      BY <1>4, <2>6 DEF Return
    <3>2. engine.phase = "solo" => engine'.phase # "pick"
      BY <2>3, <2>6
    <3>3. Remembers(engine', player)
      BY <1>2, <2>3, <2>4, <3>2 DEF Remembers
    <3> QED
      BY <2>2, <3>1, <3>3
  <2> QED
    BY <2>5, <2>6
<1>5. CASE engine.phase = "pick"
  <2>1. engine' = [engine EXCEPT !.phase = IF yes THEN "discard" ELSE "announce"]
    BY <1>2, <1>5 DEF Answered
  <2>2. /\ engine' \in EngineRecord /\ engine'.phase = (IF yes THEN "discard" ELSE "announce")
        /\ engine'.cur = engine.cur /\ engine'.bids = engine.bids /\ engine'.declarer = engine.declarer
        /\ engine'.me = engine.me /\ engine'.game = engine.game /\ engine'.contract = engine.contract
    BY <1>1, <2>1 DEF EngineRecord
  <2>3. player' = [player EXCEPT !.hand = ~yes]
    BY <1>5 DEF Return
  <2>4. player' \in PlayerRecord /\ player'.solo = player.solo /\ player'.plan = player.plan
        /\ player'.hand = ~yes
    BY <1>2, <2>3 DEF PlayerRecord
  <2>5. Auction(engine')
    BY <1>1, <1>5, <2>2 DEF Auction, Declared
  <2>6. engine.me = engine.declarer
    BY <1>1, <1>5 DEF Asked
  <2>7. Remembers(engine', player')
    BY <1>1, <1>5, <2>2, <2>4, <2>6 DEF Remembers
  <2> QED
    BY <2>5, <2>7
<1>6. CASE engine.phase = "discard"
  <2>1. engine' = [engine EXCEPT !.phase = "announce"]
    BY <1>2, <1>6 DEF Answered
  <2>2. /\ engine' \in EngineRecord /\ engine'.phase = "announce"
        /\ engine'.cur = engine.cur /\ engine'.bids = engine.bids /\ engine'.declarer = engine.declarer
        /\ engine'.me = engine.me /\ engine'.game = engine.game /\ engine'.contract = engine.contract
    BY <1>1, <2>1 DEF EngineRecord
  <2>3. player' = [player EXCEPT !.plan = engine.game]
    BY <1>6 DEF Return
  <2>4. player' \in PlayerRecord /\ player'.solo = player.solo /\ player'.plan = engine.game
        /\ player'.hand = player.hand
    BY <1>1, <1>2, <2>3 DEF PlayerRecord, EngineRecord
  <2>5. Auction(engine')
    BY <1>1, <1>6, <2>2 DEF Auction, Declared
  <2>7. Remembers(engine', player')
    BY <1>1, <1>6, <2>2, <2>4 DEF Remembers
  <2> QED
    BY <2>5, <2>7
<1>7. CASE engine.phase = "play"
  <2>1. engine' = [engine EXCEPT !.phase = "over"] /\ player' = player
    BY <1>2, <1>7 DEF Answered, Return
  <2> QED
    BY <1>1, <2>1, GameOver
<1> QED
  BY <1>3, <1>4, <1>5, <1>6, <1>7

LEMMA ReadLineInv == ASSUME DialogueInv, ReadLine PROVE DialogueInv'
<1>1. LineIsNext /\ client.pc = "await" /\ client.stale = 0 /\ host.outbox # <<>>
  BY DEF ReadLine, LineIsNext
<1>2. host.outbox \in Seq(Lines) /\ Unread = 1
  BY <1>1, NextLineIsOwn DEF DialogueInv, Pipes, HostRecord
<1>3. Tail(host.outbox) \in Seq(Lines) /\ Len(Tail(host.outbox)) = Len(host.outbox) - 1
  BY <1>1, <1>2, TailOf
<1>4. ASSUME NEW killed \in BOOLEAN, client' = [pc |-> "idle", req |-> NoRequest, stale |-> client.stale],
             host' = [alive |-> host.alive, killed |-> killed, inbox |-> host.inbox,
                      outbox |-> Tail(host.outbox), work |-> host.work],
             Auction(engine'), Remembers(engine', player')
      PROVE  DialogueInv'
  <2>1. host' \in HostRecord
    BY <1>3, <1>4 DEF DialogueInv, Pipes, HostRecord
  <2>2. Awaiting' = 0 /\ client'.pc # "await" /\ client'.stale = 0
    BY <1>1, <1>4 DEF Awaiting
  <2>3. Unread' = 0
    <3>1. Working' = Working /\ host'.inbox = host.inbox /\ Len(host'.outbox) = Len(host.outbox) - 1
      BY <1>3, <1>4 DEF Working
    <3>2. Working \in Nat /\ Len(host.inbox) \in Nat /\ Len(host.outbox) \in Nat
      BY RecordsOpen
    <3>4. Unread' = (Len(host.outbox) - 1) + Working + Len(host.inbox)
      BY <3>1 DEF Unread
    <3>5. Len(host.outbox) + Working + Len(host.inbox) = 1
      BY <1>2 DEF Unread
    <3> DEFINE a == Len(host.outbox)
               b == Working
               c == Len(host.inbox)
    <3>6. a \in Nat /\ b \in Nat /\ c \in Nat /\ a + b + c = 1
      BY <3>2, <3>5
    <3> HIDE DEF a, b, c
    <3>7. (a - 1) + b + c = 0
      BY <3>6
    <3>8. (Len(host.outbox) - 1) + Working + Len(host.inbox) = 0
      BY <3>7 DEF a, b, c
    <3> QED
      BY <3>4, <3>8
  <2>4. Pipes'
    BY <1>4, <2>1, <2>2, <2>3 DEF DialogueInv, Pipes
  <2>5. client' \in ClientRecord /\ client'.pc = "idle"
    BY <1>1, <1>4 DEF ClientRecord
  <2>6. Waits'
    BY <2>5 DEF Waits, RequestsTellTheAuction
  <2> QED
    BY <1>4, <2>4, <2>6 DEF DialogueInv
<1>5. host.killed \in BOOLEAN
  BY DEF DialogueInv, Pipes, HostRecord
<1>6. CASE /\ \E yes \in BOOLEAN : Return(yes)
           /\ host' = [host EXCEPT !.outbox = Tail(@)]
  <2>1. PICK yes \in BOOLEAN : Return(yes)
    BY <1>6
  <2>2. Auction(engine') /\ Remembers(engine', player')
    BY <1>1, <2>1, ReturnMoves
  <2>3. client' = [pc |-> "idle", req |-> NoRequest, stale |-> client.stale]
    BY <2>1, RecordsOpen DEF Return
  <2>4. host' = [alive |-> host.alive, killed |-> host.killed, inbox |-> host.inbox,
                 outbox |-> Tail(host.outbox), work |-> host.work]
    BY <1>6, RecordsOpen
  <2> QED
    BY <1>4, <1>5, <2>2, <2>3, <2>4
<1>7. CASE /\ GiveUp(0) /\ Throw /\ UNCHANGED player
           /\ host' = [host EXCEPT !.outbox = Tail(@), !.killed = TRUE]
  <2>1. Auction(engine') /\ Remembers(engine', player')
    BY <1>7, ThrowEnds
  <2>2. client' = [pc |-> "idle", req |-> NoRequest, stale |-> client.stale + 0]
    BY <1>7, RecordsOpen DEF GiveUp
  <2>3. client.stale + 0 = client.stale
    BY RecordsOpen
  <2>4. host' = [alive |-> host.alive, killed |-> TRUE, inbox |-> host.inbox,
                 outbox |-> Tail(host.outbox), work |-> host.work]
    BY <1>7, RecordsOpen
  <2> QED
    BY <1>4, <2>1, <2>2, <2>3, <2>4
<1> QED
  BY <1>6, <1>7 DEF ReadLine

LEMMA FailAndStopInv == ASSUME DialogueInv, failAndStop PROVE DialogueInv'
<1>1. client.pc = "await" /\ Throw /\ UNCHANGED player /\ host' = [host EXCEPT !.killed = TRUE]
  BY DEF failAndStop
<1>2. Auction(engine') /\ Remembers(engine', player')
  BY <1>1, ThrowEnds
<1>3. host' = [alive |-> host.alive, killed |-> TRUE, inbox |-> host.inbox,
               outbox |-> host.outbox, work |-> host.work]
  BY <1>1, RecordsOpen
<1>4. host' \in HostRecord
  BY <1>3 DEF DialogueInv, Pipes, HostRecord
<1>5. Unread' = Unread /\ Awaiting = 1
  BY <1>1, <1>3 DEF Unread, Working, Awaiting
<1>6. ASSUME NEW n \in Nat, GiveUp(n), Unread <= client.stale + n PROVE DialogueInv'
  <2>1. client' = [pc |-> "idle", req |-> NoRequest, stale |-> client.stale + n]
    BY <1>6, RecordsOpen DEF GiveUp
  <2>2. Awaiting' = 0 /\ client'.pc # "await" /\ client'.stale + Awaiting' = client.stale + n
    BY <1>6, <2>1, RecordsOpen DEF Awaiting
  <2>3. Pipes'
    BY <1>3, <1>4, <1>5, <1>6, <2>2 DEF DialogueInv, Pipes
  <2> QED
    BY <1>2, <1>6, <2>3, GivesUp
<1>7. CASE ~host.alive /\ host.outbox = <<>> /\ client.stale = 0 /\ GiveUp(0)
  <2>1. Len(host.outbox) = 0 /\ Len(host.inbox) = 0 /\ Working = 0
    BY <1>7, EmptyLen DEF DialogueInv, Pipes, Working
  <2>2. Unread <= client.stale + 0
    BY <1>7, <2>1 DEF Unread
  <2> QED
    BY <1>6, <1>7, <2>2
<1>8. CASE host.alive /\ GiveUp(1)
  <2>1. Unread <= client.stale + 1
    BY <1>5 DEF DialogueInv, Pipes
  <2> QED
    BY <1>6, <1>8, <2>1
<1> QED
  BY <1>7, <1>8 DEF failAndStop

\* A step of the host process alone.
LEMMA HostMoves ==
  ASSUME DialogueInv, UNCHANGED <<engine, player, client>>, host' \in HostRecord,
         Unread' \in Nat, Unread' <= Unread, ~host'.alive => host'.inbox = <<>> /\ host'.work = NoRequest,
         LastIsOwn /\ Unread' = Unread => LastIsOwn'
  PROVE  DialogueInv'
<1>1. Waits'
  BY DEF DialogueInv, Waits, RequestsTellTheAuction, Asked, Announcer
<1>2. Awaiting' = Awaiting /\ Awaiting \in Nat /\ client.stale \in Nat /\ Unread <= client.stale + Awaiting
  BY RecordsOpen DEF DialogueInv, Pipes, Awaiting
<1>3. Unread \in Nat
  BY RecordsOpen DEF Unread
<1>4. Unread' <= client'.stale + Awaiting'
  BY <1>2, <1>3
<1>5. ASSUME client'.pc = "await", Unread' = client'.stale + 1 PROVE LastIsOwn'
  <2>1. Awaiting = 1
    BY <1>5 DEF Awaiting
  <2>2. Unread = client.stale + 1
    BY <1>2, <1>3, <1>5, <2>1
  <2> QED
    BY <1>5, <2>2 DEF DialogueInv, Pipes
<1>6. Pipes'
  BY <1>4, <1>5 DEF Pipes
<1> QED
  BY <1>1, <1>6 DEF DialogueInv

LEMMA HostReadsLine == ASSUME DialogueInv, HostReads PROVE DialogueInv'
<1>1. /\ host.alive /\ host.work = NoRequest /\ host.inbox # <<>>
      /\ UNCHANGED <<engine, player, client>>
  BY DEF HostReads
<1> DEFINE req == Head(host.inbox)
<1>2. host.inbox \in Seq(Requests) /\ host.outbox \in Seq(Lines)
  BY DEF DialogueInv, Pipes, HostRecord
<1>3. /\ Tail(host.inbox) \in Seq(Requests) /\ Len(Tail(host.inbox)) = Len(host.inbox) - 1
      /\ req \in Requests /\ req = host.inbox[1]
      /\ Tail(host.inbox) # <<>> => Tail(host.inbox)[Len(Tail(host.inbox))] = host.inbox[Len(host.inbox)]
      /\ Tail(host.inbox) = <<>> => Len(host.inbox) = 1
  BY <1>1, <1>2, TailOf
<1>4. Working = 0 /\ Len(host.inbox) \in Nat /\ Len(host.outbox) \in Nat
  BY <1>1, RecordsOpen DEF Working
<1>5. req # NoRequest
  BY <1>3, NoRequestIsNone
<1>6. \A a, c \in Nat : a + 1 + (c - 1) = a + 0 + c /\ (a + 1) + 0 + (c - 1) = a + 0 + c /\ a + 0 + c \in Nat
  OBVIOUS
<1> HIDE DEF req
<1>7. CASE host' = [host EXCEPT !.inbox = Tail(@), !.work = req]
  <2>1. host' = [alive |-> host.alive, killed |-> host.killed, inbox |-> Tail(host.inbox),
                 outbox |-> host.outbox, work |-> req]
    BY <1>7, RecordsOpen
  <2>2. host' \in HostRecord
    BY <1>3, <2>1 DEF DialogueInv, Pipes, HostRecord
  <2>3. Working' = 1
    BY <1>5, <2>1 DEF Working
  <2>4. Unread' = Len(host.outbox) + 1 + (Len(host.inbox) - 1)
    BY <1>3, <2>1, <2>3 DEF Unread
  <2>5. Unread' = Unread /\ Unread \in Nat
    BY <1>4, <1>6, <2>4 DEF Unread
  <2>6. LastIsOwn => LastIsOwn'
    BY <1>1, <1>3, <1>5, <2>1 DEF LastIsOwn
  <2> QED
    BY <1>1, <2>1, <2>2, <2>5, <2>6, HostMoves
<1>8. CASE host' = [host EXCEPT !.inbox = Tail(@),
                      !.outbox = Append(@, [game |-> req.game, seq |-> req.seq, ok |-> FALSE])]
  <2> DEFINE line == [game |-> req.game, seq |-> req.seq, ok |-> FALSE]
  <2>0. line \in Lines /\ SameRequest(line, req)
    BY <1>3 DEF Lines, Requests, SameRequest
  <2> HIDE DEF line
  <2>1. host' = [alive |-> host.alive, killed |-> host.killed, inbox |-> Tail(host.inbox),
                 outbox |-> Append(host.outbox, line), work |-> host.work]
    BY <1>8, RecordsOpen DEF line
  <2>7. /\ Append(host.outbox, line) \in Seq(Lines) /\ Len(Append(host.outbox, line)) = Len(host.outbox) + 1
        /\ Append(host.outbox, line)[Len(host.outbox) + 1] = line
    BY <1>2, <2>0
  <2>2. host' \in HostRecord
    BY <1>3, <2>1, <2>7 DEF DialogueInv, Pipes, HostRecord
  <2>3. Working' = 0
    BY <1>1, <2>1 DEF Working
  <2>4. Unread' = (Len(host.outbox) + 1) + 0 + (Len(host.inbox) - 1)
    BY <1>3, <2>1, <2>3, <2>7 DEF Unread
  <2>5. Unread' = Unread /\ Unread \in Nat
    BY <1>4, <1>6, <2>4 DEF Unread
  <2>6. LastIsOwn => LastIsOwn'
    BY <1>1, <1>3, <2>0, <2>1, <2>7 DEF LastIsOwn
  <2> QED
    BY <1>1, <2>1, <2>2, <2>5, <2>6, HostMoves
<1> QED
  BY <1>7, <1>8 DEF HostReads, req

LEMMA HostAnswersLine == ASSUME DialogueInv, HostAnswers PROVE DialogueInv'
<1>1. /\ host.alive /\ host.work # NoRequest /\ UNCHANGED <<engine, player, client>>
      /\ host' = [host EXCEPT !.work = NoRequest,
                     !.outbox = Append(@, [game |-> host.work.game, seq |-> host.work.seq,
                                           ok |-> call[Host].pc = "value"])]
  BY DEF HostAnswers
<1>2. host.work \in Requests /\ host.outbox \in Seq(Lines)
  BY <1>1 DEF DialogueInv, Pipes, HostRecord
<1> DEFINE line == [game |-> host.work.game, seq |-> host.work.seq, ok |-> call[Host].pc = "value"]
<1>3. line \in Lines /\ SameRequest(line, host.work)
  <2>1. host.work.game \in Nat /\ host.work.seq \in Nat
    BY <1>2 DEF Requests
  <2>2. (call[Host].pc = "value") \in BOOLEAN
    OBVIOUS
  <2> QED
    BY <2>1, <2>2 DEF Lines, SameRequest
<1> HIDE DEF line
<1>4. host' = [alive |-> host.alive, killed |-> host.killed, inbox |-> host.inbox,
               outbox |-> Append(host.outbox, line), work |-> NoRequest]
  BY <1>1, RecordsOpen DEF line
<1>5. /\ Append(host.outbox, line) \in Seq(Lines) /\ Len(Append(host.outbox, line)) = Len(host.outbox) + 1
      /\ Append(host.outbox, line)[Len(host.outbox) + 1] = line
  BY <1>2, <1>3
<1>6. host' \in HostRecord
  BY <1>4, <1>5 DEF DialogueInv, Pipes, HostRecord
<1>7. Working = 1 /\ Working' = 0 /\ Len(host.inbox) \in Nat /\ Len(host.outbox) \in Nat
  BY <1>1, <1>4, RecordsOpen DEF Working
<1>8. \A a, c \in Nat : (a + 1) + 0 + c = a + 1 + c /\ a + 1 + c \in Nat
  OBVIOUS
<1>9. Unread' = (Len(host.outbox) + 1) + 0 + Len(host.inbox)
  BY <1>4, <1>5, <1>7 DEF Unread
<1>10. Unread' = Unread /\ Unread \in Nat
  BY <1>7, <1>8, <1>9 DEF Unread
<1>11. LastIsOwn => LastIsOwn'
  BY <1>1, <1>3, <1>4, <1>5 DEF LastIsOwn, SameRequest
<1> QED
  BY <1>1, <1>4, <1>6, <1>10, <1>11, HostMoves

LEMMA HostEndsPipes == ASSUME DialogueInv, HostEnds PROVE DialogueInv'
<1>1. UNCHANGED <<engine, player, client>>
      /\ host' = [host EXCEPT !.alive = FALSE, !.inbox = <<>>, !.work = NoRequest]
  BY DEF HostEnds
<1>2. host' = [alive |-> FALSE, killed |-> host.killed, inbox |-> <<>>,
               outbox |-> host.outbox, work |-> NoRequest]
  BY <1>1, RecordsOpen
<1>3. host' \in HostRecord
  BY <1>2 DEF DialogueInv, Pipes, HostRecord
<1>4. Working \in Nat /\ Len(host.inbox) \in Nat /\ Len(host.outbox) \in Nat
  BY RecordsOpen
<1>5. Working' = 0 /\ Len(host'.inbox) = 0 /\ host'.outbox = host.outbox
  BY <1>2, EmptyLen DEF Working
<1>7. Unread' = Len(host.outbox) + 0 + 0
  BY <1>5 DEF Unread
<1>8. Unread' <= Unread /\ Unread' \in Nat /\ (Unread' = Unread => Working = 0 /\ Len(host.inbox) = 0)
  <2> DEFINE a == Len(host.outbox)
             b == Working
             c == Len(host.inbox)
  <2>1. a \in Nat /\ b \in Nat /\ c \in Nat /\ Unread' = a + 0 + 0 /\ Unread = a + b + c
    BY <1>4, <1>7 DEF Unread
  <2> HIDE DEF a, b, c, Unread
  <2>2. Unread' <= Unread /\ Unread' \in Nat /\ (Unread' = Unread => b = 0 /\ c = 0)
    BY <2>1
  <2> QED
    BY <2>2 DEF b, c
<1>9. Len(host.inbox) = 0 => host.inbox = <<>>
  BY DEF DialogueInv, Pipes, HostRecord
<1>10. Working = 0 => host.work = NoRequest
  BY DEF Working
<1>11. LastIsOwn /\ Unread' = Unread => LastIsOwn'
  BY <1>1, <1>2, <1>8, <1>9, <1>10 DEF LastIsOwn
<1> QED
  BY <1>1, <1>2, <1>3, <1>8, <1>11, HostMoves

LEMMA DialogueInit == Init => DialogueInv
<1> SUFFICES ASSUME Init PROVE DialogueInv
  OBVIOUS
<1> DEFINE e == Deal(0, 0)
<1>1. 0 \in Seats /\ 0 \in Nat
  BY DEF Seats
<1>2. /\ e \in EngineRecord /\ e.contract = None /\ e.cur = 0 /\ e.bids = [s \in Seats |-> 0]
  BY <1>1, DealIsAuction
<1> HIDE DEF e
<1>3. engine = [e EXCEPT !.phase = "over"] /\ player = Fresh
  BY DEF Init, e
<1>4. engine \in EngineRecord /\ engine.phase = "over" /\ engine.cur = 0 /\ engine.bids = [s \in Seats |-> 0]
  BY <1>2, <1>3 DEF EngineRecord
<1>5. Auction(engine) /\ Remembers(engine, player)
  BY <1>3, <1>4, FreshIsPlayer DEF Auction, Remembers
<1>6. client = [pc |-> "idle", req |-> NoRequest, stale |-> 0]
  BY DEF Init
<1>7. client \in ClientRecord /\ client.pc = "idle" /\ client.stale = 0
  BY <1>6 DEF ClientRecord
<1>8. Waits
  BY <1>7 DEF Waits, RequestsTellTheAuction
<1>9. host = [alive |-> (left.who = "host"), killed |-> FALSE, inbox |-> <<>>, outbox |-> <<>>,
              work |-> NoRequest]
  BY DEF Init
<1>10. (left.who = "host") \in BOOLEAN /\ <<>> \in Seq(Requests) /\ <<>> \in Seq(Lines)
  OBVIOUS
<1>11. host \in HostRecord
  BY <1>9, <1>10 DEF HostRecord
<1>12. Unread = 0 /\ Awaiting = 0 /\ client.pc # "await"
  BY <1>7, <1>9, EmptyLen DEF Unread, Working, Awaiting
<1>13. Pipes
  BY <1>7, <1>9, <1>11, <1>12 DEF Pipes
<1> QED
  BY <1>5, <1>8, <1>13 DEF DialogueInv

\* A step of the pool, or none.
LEMMA TableStays == ASSUME DialogueInv, UNCHANGED table PROVE DialogueInv'
<1>1. UNCHANGED <<engine, player, client, host>>
  BY DEF table
<1>2. Auction(engine') /\ Remembers(engine', player')
  BY <1>1 DEF DialogueInv
<1>3. Waits'
  BY <1>1 DEF DialogueInv, Waits, RequestsTellTheAuction, Asked, Announcer
<1>4. Pipes'
  BY <1>1 DEF DialogueInv, Pipes, LastIsOwn, Unread, Working, Awaiting, SameRequest
<1> QED
  BY <1>2, <1>3, <1>4 DEF DialogueInv

LEMMA DialogueNext == ASSUME DialogueInv, [Next]_vars PROVE DialogueInv'
<1>1. CASE UNCHANGED table
  BY <1>1, TableStays
<1>2. UNCHANGED vars => UNCHANGED table
  BY DEF vars, table
<1>3. ASSUME NEW c \in Callers,
             Pool(c) \/ Delivered(c) \/ GateThread(c) \/ (StartFails(c) /\ UNCHANGED table)
      PROVE  UNCHANGED table
  BY <1>3 DEF Pool, Delivered, GateThread
<1>4. ASSUME OtherAnswers \/ OtherDeclares \/ prepareForNewGame \/ Player PROVE DialogueInv'
  BY <1>4, OtherAnswersInv, OtherDeclaresInv, NewGameInv, BidMoreInv, HoldBidInv, PickDiscardInv,
     AnnounceInv, PlayCardInv DEF Player
<1>5. ASSUME Exchange \/ StaleRead \/ ReadLine \/ failAndStop \/ HostReads \/ HostAnswers \/ HostEnds
      PROVE  DialogueInv'
  BY <1>5, ExchangeInv, StaleReadInv, ReadLineInv, FailAndStopInv, HostReadsLine, HostAnswersLine, HostEndsPipes
<1> QED
  BY <1>1, <1>2, <1>3, <1>4, <1>5 DEF Next

LEMMA DialogueHolds == ASSUME DialogueInv PROVE DialogueIsSound
<1>1. RequestsTellTheAuction
  BY DEF DialogueInv, Waits
<1>2. LegalGamesGoOn
  BY DEF DialogueInv, Remembers, PlayerRecord, LegalGamesGoOn
<1>3. LineIsOwn
  BY NextLineIsOwn DEF LineIsOwn, SameRequest
<1> QED
  BY <1>1, <1>2, <1>3 DEF DialogueIsSound

(***************************************************************************)
(* What SkatAIJSkatPlayer and JsonLineHostClient rely on, for every number *)
(* of bid values, games and processes: a request names the duel or tells   *)
(* the accepted bids of the engine's auction, whichever game was played    *)
(* before; no legal game makes the player throw; and the line a request    *)
(* reads is the answer to it, over timeouts and a process that is killed.  *)
(***************************************************************************)
THEOREM DialogueSoundness == Spec => []DialogueIsSound
<1>1. DialogueInv /\ [Next]_vars => DialogueInv'
  BY DialogueNext
<1>2. DialogueInv => DialogueIsSound
  BY DialogueHolds
<1> QED
  BY DialogueInit, <1>1, <1>2, PTL DEF Spec

-----------------------------------------------------------------------------
(* The game on ISS, as the bridge and the view replay it.  What a replay makes *)
(* of a longer list follows from what it makes of the list without its last   *)
(* move (ReplayGrows): the functions are compared at the least place where     *)
(* they differ.                                                               *)

\* A set of numbers has a least one.
LEMMA LeastOf ==
  ASSUME NEW T, T \subseteq Nat, T # {}
  PROVE  \E x \in T : \A y \in T : x <= y
<1>1. \E x \in T : \A y \in T : ~ (<<y, x>> \in OpToRel(<, Nat))
  BY NatLessThanWellFounded, WFMin
<1>2. PICK x \in T : \A y \in T : ~ (<<y, x>> \in OpToRel(<, Nat))
  BY <1>1
<1>3. ASSUME NEW y \in T PROVE x <= y
  <2>1. x \in Nat /\ y \in Nat OBVIOUS
  <2>2. CASE y < x
    <3>1. <<y, x>> \in OpToRel(<, Nat) BY <2>1, <2>2 DEF OpToRel
    <3> QED BY <1>2, <3>1
  <2> QED BY <2>1, <2>2
<1> QED BY <1>3

\* after is what a replay makes of the first n moves of a list, and of each before.
Follows(after, who, list, n) ==
    after = [i \in 0..n |-> IF i = 0 THEN View!Start(who) ELSE View!Step(who, after[i - 1], list[i])]

\* There is a replay of the first n moves of any list.
LEMMA ReplayExists ==
  ASSUME NEW who, NEW list, NEW n \in Nat
  PROVE  \E after : Follows(after, who, list, n)
<1> DEFINE Bad == {k \in Nat : ~ \E after : Follows(after, who, list, k)}
<1>1. SUFFICES Bad = {} OBVIOUS
<1>2. SUFFICES ASSUME Bad # {} PROVE FALSE OBVIOUS
<1>3. PICK k \in Bad : \A j \in Bad : k <= j BY <1>2, LeastOf, Bad \subseteq Nat
<1>4. CASE k = 0
  <2> DEFINE f == [i \in 0..0 |-> View!Start(who)]
  <2>1. f = [i \in 0..0 |-> IF i = 0 THEN View!Start(who) ELSE View!Step(who, f[i - 1], list[i])] OBVIOUS
  <2>2. Follows(f, who, list, 0) BY <2>1 DEF Follows
  <2> QED BY <1>4, <2>2
<1>5. CASE k # 0
  <2>1. k \in Nat /\ k - 1 \in Nat /\ ~(k <= k - 1) BY <1>5
  <2>2. k - 1 \notin Bad BY <1>3, <2>1
  <2>3. PICK g : Follows(g, who, list, k - 1) BY <2>1, <2>2
  <2> DEFINE f == [i \in 0..k |-> IF i = k THEN View!Step(who, g[k - 1], list[k]) ELSE g[i]]
  <2>4. \A i \in 0..(k - 1) : g[i] = IF i = 0 THEN View!Start(who) ELSE View!Step(who, g[i - 1], list[i])
    BY <2>3 DEF Follows
  <2>5. ASSUME NEW i \in 0..k
        PROVE  f[i] = IF i = 0 THEN View!Start(who) ELSE View!Step(who, f[i - 1], list[i])
    <3>1. CASE i = k
      <4>1. f[i] = View!Step(who, g[k - 1], list[k]) BY <3>1
      <4>2. f[i - 1] = g[k - 1] BY <3>1, <2>1
      <4> QED BY <4>1, <4>2, <3>1, <1>5
    <3>2. CASE i # k
      <4>1. i \in 0..(k - 1) /\ f[i] = g[i] BY <3>2, <2>1
      <4>2. i # 0 => i - 1 \in 0..k /\ i - 1 # k /\ f[i - 1] = g[i - 1] BY <4>1, <2>1
      <4> QED BY <4>1, <4>2, <2>4
    <3> QED BY <3>1, <3>2
  <2>6. f = [i \in 0..k |-> f[i]] OBVIOUS
  <2>7. f = [i \in 0..k |-> IF i = 0 THEN View!Start(who) ELSE View!Step(who, f[i - 1], list[i])]
    <3> HIDE DEF f
    <3> QED BY <2>5, <2>6
  <2>8. Follows(f, who, list, k) BY <2>7 DEF Follows
  <2> QED BY <2>8
<1> QED BY <1>4, <1>5

\* Two replays of lists that start alike agree there.
LEMMA ReplaysAgree ==
  ASSUME NEW who, NEW a, NEW b, NEW f, NEW g, NEW k \in Nat, NEW n \in Nat, k <= n,
         Follows(f, who, a, k), Follows(g, who, b, n), \A i \in 1..k : a[i] = b[i]
  PROVE  \A i \in 0..k : f[i] = g[i]
<1> DEFINE Bad == {i \in 0..k : f[i] # g[i]}
<1>1. SUFFICES ASSUME Bad # {} PROVE FALSE OBVIOUS
<1>2. PICK i \in Bad : \A j \in Bad : i <= j BY <1>1, LeastOf, Bad \subseteq Nat
<1>3. f[i] = IF i = 0 THEN View!Start(who) ELSE View!Step(who, f[i - 1], a[i]) BY DEF Follows
<1>4. g[i] = IF i = 0 THEN View!Start(who) ELSE View!Step(who, g[i - 1], b[i])
  <2>1. i \in 0..n OBVIOUS
  <2> QED BY <2>1 DEF Follows
<1>5. i # 0
  BY <1>3, <1>4
<1>6. i - 1 \in 0..k /\ ~(i <= i - 1) /\ i \in 1..k BY <1>5
<1>7. f[i - 1] = g[i - 1] BY <1>2, <1>6
<1> QED BY <1>3, <1>4, <1>5, <1>6, <1>7

\* Replay is what is left at the end of it.
LEMMA ReplayIs ==
  ASSUME NEW who, NEW list, Len(list) \in Nat
  PROVE  \E after : Follows(after, who, list, Len(list)) /\ View!Replay(who, list) = after[Len(list)]
<1> DEFINE after == CHOOSE f : f = [i \in 0..Len(list) |->
                        IF i = 0 THEN View!Start(who) ELSE View!Step(who, f[i - 1], list[i])]
<1>3. \E f : f = [i \in 0..Len(list) |-> IF i = 0 THEN View!Start(who) ELSE View!Step(who, f[i - 1], list[i])]
  <2>1. PICK f : Follows(f, who, list, Len(list)) BY ReplayExists
  <2>2. f = [i \in 0..Len(list) |-> IF i = 0 THEN View!Start(who) ELSE View!Step(who, f[i - 1], list[i])]
    BY <2>1, Zenon DEF Follows
  <2> HIDE DEF after
  <2> QED BY <2>2, Zenon
<1>4. after = [i \in 0..Len(list) |-> IF i = 0 THEN View!Start(who) ELSE View!Step(who, after[i - 1], list[i])]
  BY <1>3
<1>1. Follows(after, who, list, Len(list)) BY <1>4 DEF Follows
<1>2. View!Replay(who, list) = after[Len(list)] BY DEF View!Replay
<1> QED BY <1>1, <1>2

\* A replay is where it was before the last move, and that move.
LEMMA ReplayGrows ==
  ASSUME NEW who, NEW S, NEW list \in Seq(S), NEW m \in S
  PROVE  /\ View!Replay(who, << >>) = View!Start(who)
         /\ View!Replay(who, Append(list, m)) = View!Step(who, View!Replay(who, list), m)
<1>1. View!Replay(who, << >>) = View!Start(who)
  <2>1. PICK f : Follows(f, who, << >>, 0) /\ View!Replay(who, << >>) = f[0] BY ReplayIs
  <2> QED BY <2>1 DEF Follows
<1>2. View!Replay(who, Append(list, m)) = View!Step(who, View!Replay(who, list), m)
  <2> DEFINE n == Len(list)  more == Append(list, m)
  <2>1. n \in Nat /\ Len(more) = n + 1 /\ more[n + 1] = m /\ \A i \in 1..n : list[i] = more[i]
    OBVIOUS
  <2>2. PICK f : Follows(f, who, list, n) /\ View!Replay(who, list) = f[n] BY <2>1, ReplayIs
  <2>6. PICK g : Follows(g, who, more, Len(more)) /\ View!Replay(who, more) = g[Len(more)]
    <3>1. Len(more) \in Nat BY <2>1
    <3> HIDE DEF more
    <3> QED BY <3>1, ReplayIs
  <2>3. Follows(g, who, more, n + 1) /\ View!Replay(who, more) = g[n + 1] BY <2>1, <2>6
  <2> HIDE DEF n, more
  <2>4. \A i \in 0..n : f[i] = g[i] BY <2>1, <2>2, <2>3, ReplaysAgree
  <2>5. g[n + 1] = View!Step(who, g[n], more[n + 1])
    <3>1. n + 1 \in 0..(n + 1) /\ n + 1 # 0 /\ (n + 1) - 1 = n BY <2>1
    <3> QED BY <2>3, <3>1 DEF Follows
  <2> QED BY <2>1, <2>2, <2>3, <2>4, <2>5 DEF more
<1> QED BY <1>1, <1>2

\* Where the three of them may be: the server,
Kinds == {"bid", "answer_yes", "pass", "skat_request", "skat_delivery", "declaration",
          "discard_only", "cardplay", "resign", "show_cards", "timeout", "leave"}
Moves == [by : 0..3, kind : Kinds, val : Nat \cup View!Contracts, n : Nat]
Games ==
    [contract : {"none"} \cup View!Contracts, turn : View!Seats, played : Nat, resigned : SUBSET View!Seats,
     shown : Nat, cut : BOOLEAN, stage : 1..2, hearer : View!Seats, cur : Nat,
     phase : {"bid", "hold", "solo", "pick", "skat", "declare", "discard", "play", "over"},
     bids : [View!Seats -> Nat], declarer : 0..3]

\* the bridge,
Biddings ==
    [bidder : View!Seats, answerer : View!Seats, offer : Nat, bidder_turn : BOOLEAN, finished : BOOLEAN,
     winner : 0..3, winning_bid : Nat]
Auctions == [state : Biddings, max_bids : [View!Seats -> Nat], frozen : BOOLEAN, raised : BOOLEAN]
TrickStates == [n : Nat, actor : View!Seats, wrong : BOOLEAN]

\* and the view.
Views ==
    [phase : {"BID", "ANSWER", "SKAT_OR_HAND_DECL", "GET_SKAT", "DISCARD_AND_DECL", "CARDPLAY",
              "FINISHED"},
     to_move : 0..3, bidder : View!Seats, asked : 0..3, max_bid : Nat, max_bids : [View!Seats -> Nat],
     declarer : 0..3, contract : {"none"} \cup View!Contracts, half : BOOLEAN,
     trick : TrickStates, resigned : SUBSET View!Seats, raised : BOOLEAN]

Turn(e) == IF e.phase = "hold" THEN e.hearer ELSE View!Announcer(e)

\* The auction as the server has it, as the bridge replays it and as the view does.
DuelsAgree(e, b, max_bids) ==
    /\ e.phase \in {"bid", "hold", "solo"} /\ ~e.cut /\ e.declarer = View!NoOne /\ e.cur < ViewTop
    /\ ~b.finished /\ b.winner = View!NoOne
    /\ b.offer = (IF e.phase = "hold" THEN e.cur ELSE e.cur + 1)
    /\ b.bidder_turn <=> e.phase # "hold"
    /\ b.bidder = View!Announcer(e)
    /\ e.phase = "solo" => b.answerer = 0 /\ e.cur = 0
    /\ e.phase # "solo" => b.answerer = e.hearer
    /\ e.stage = 1 => e.hearer = 0
    /\ e.stage = 2 => e.hearer \in {0, 1} /\ (e.hearer = 1 => e.cur > 0)
    /\ e.phase = "bid" /\ e.cur > 0 => max_bids[e.hearer] = e.cur
    /\ e.phase = "hold" => e.cur > 0 /\ max_bids[e.stage] = e.cur

ViewBids(e, b, c, v) ==
    /\ ~c.frozen /\ ~c.raised /\ ~v.raised /\ c.state = b
    /\ v.phase = (IF e.phase = "hold" THEN "ANSWER" ELSE "BID")
    /\ v.bidder = b.bidder /\ v.to_move = Turn(e)
    /\ v.asked = (IF e.phase = "solo" THEN View!NoOne ELSE e.hearer)
    /\ v.max_bid = View!Value(e.cur) /\ v.max_bids = View!Accepted(c) /\ v.declarer = View!NoOne

AuctionAgrees(e, c, v) ==
    DuelsAgree(e, c.state, c.max_bids) /\ ViewBids(e, c.state, c, v)

\* Who has won it, and at what bid.
WinnerAgrees(e, c, v) ==
    /\ c.state.finished /\ ~c.raised /\ ~v.raised
    /\ e.declarer \in View!Seats /\ c.state.winner = e.declarer /\ v.declarer = e.declarer
    /\ v.max_bids = View!Accepted(c)
    /\ v.max_bid = View!Value(c.state.winning_bid) /\ v.max_bid = v.max_bids[e.declarer]

Declarer(e, c, v) ==
    /\ e.phase = "pick" /\ WinnerAgrees(e, c, v)
    /\ v.phase = "SKAT_OR_HAND_DECL" /\ v.to_move = e.declarer

\* Nobody wanted to play.
NobodyPlays(c, v) ==
    /\ c.state.finished /\ c.state.winner = View!NoOne /\ ~c.raised /\ ~v.raised
    /\ v.phase = "FINISHED" /\ v.to_move = View!NoOne /\ v.declarer = View!NoOne
    /\ v.max_bids = View!Accepted(c)

\* The move of a player in the auction.
AuctionMoveOf(e, yes) ==
    View!Move(Turn(e), IF ~yes THEN "pass" ELSE IF e.phase = "hold" THEN "answer_yes" ELSE "bid",
         IF yes /\ e.phase # "hold" THEN e.cur + 1 ELSE 0, 0)

\* Nothing in the auction is about the tricks.
SameTable(e, e2) ==
    /\ e2.contract = e.contract /\ e2.turn = e.turn /\ e2.played = e.played
    /\ e2.resigned = e.resigned /\ e2.shown = e.shown /\ e2.cut = e.cut
SameTricks(v, v2) ==
    v2.contract = v.contract /\ v2.half = v.half /\ v2.trick = v.trick /\ v2.resigned = v.resigned

\* The view's bids by value are as large as the bids, and none is the mark.
LEMMA ValueIs ==
  ASSUME NEW n \in Nat
  PROVE  /\ View!Value(n) \in Nat /\ View!Value(n) # View!Mark /\ View!Mark \in Nat /\ View!Mark # 0
         /\ View!Value(n) = 0 <=> n = 0
         /\ View!Value(n + 1) = n + 2 /\ View!Value(n + 1) > View!Value(n)
         /\ View!Value(0) = 0
<1>1. View!Value(n) = (IF n = 0 THEN 0 ELSE n + 1) /\ View!Value(0) = 0 /\ View!Mark = 1
  BY DEF View!Value, View!Mark
<1>2. View!Value(n + 1) = n + 2
  <2>1. n + 1 # 0 /\ (n + 1) + 1 = n + 2 OBVIOUS
  <2> QED BY <2>1 DEF View!Value
<1> QED BY <1>1, <1>2

\* The accepted bids by the bridge's replay, one by one.
LEMMA AcceptedIs ==
  ASSUME NEW c \in Auctions
  PROVE  /\ View!Accepted(c) \in [View!Seats -> Nat]
         /\ \A s \in View!Seats : View!Accepted(c)[s] =
               IF c.max_bids[s] = 0 /\ s \in View!Out(c.state) THEN View!Mark
               ELSE View!Value(c.max_bids[s])
<1>1. \A s \in View!Seats : c.max_bids[s] \in Nat BY DEF Auctions
<1>2. \A s \in View!Seats : View!Value(c.max_bids[s]) \in Nat BY <1>1, ValueIs
<1>3. View!Mark \in Nat BY ValueIs, 0 \in Nat
<1> QED BY <1>2, <1>3 DEF View!Accepted

\* They stay as they are while nobody bids more or goes out,
LEMMA AcceptedStays ==
  ASSUME NEW c, NEW c2, c2.max_bids = c.max_bids, View!Out(c2.state) = View!Out(c.state)
  PROVE  View!Accepted(c2) = View!Accepted(c)
BY DEF View!Accepted

\* have the bid of one who makes one,
LEMMA AcceptedBid ==
  ASSUME NEW c \in Auctions, NEW c2 \in Auctions, NEW s \in View!Seats, NEW n \in Nat, n # 0,
         c2.max_bids = [c.max_bids EXCEPT ![s] = n], View!Out(c2.state) = View!Out(c.state)
  PROVE  View!Accepted(c2) = [View!Accepted(c) EXCEPT ![s] = View!Value(n)]
<1>1. View!Accepted(c) \in [View!Seats -> Nat] /\ View!Accepted(c2) \in [View!Seats -> Nat]
  BY AcceptedIs
<1>2. ASSUME NEW x \in View!Seats
      PROVE  View!Accepted(c2)[x] = (IF x = s THEN View!Value(n) ELSE View!Accepted(c)[x])
  <2>1. c2.max_bids[x] = (IF x = s THEN n ELSE c.max_bids[x]) BY DEF Auctions
  <2>2. CASE x = s
    <3>1. c2.max_bids[x] # 0 BY <2>1, <2>2
    <3> QED BY <2>1, <2>2, <3>1, AcceptedIs
  <2>3. CASE x # s
    <3>1. c2.max_bids[x] = c.max_bids[x] BY <2>1, <2>3
    <3>2. View!Accepted(c)[x] = IF c.max_bids[x] = 0 /\ x \in View!Out(c.state) THEN View!Mark
                                ELSE View!Value(c.max_bids[x])
      BY AcceptedIs
    <3>3. View!Accepted(c2)[x] = IF c2.max_bids[x] = 0 /\ x \in View!Out(c2.state) THEN View!Mark
                                 ELSE View!Value(c2.max_bids[x])
      BY AcceptedIs
    <3> QED BY <2>3, <3>1, <3>2, <3>3
  <2> QED BY <2>2, <2>3
<1> QED BY <1>1, <1>2

\* and the mark of one who goes out without one.
LEMMA AcceptedPass ==
  ASSUME NEW c \in Auctions, NEW c2 \in Auctions, NEW v \in Views, NEW s \in View!Seats,
         v.max_bids = View!Accepted(c), c2.max_bids = c.max_bids,
         View!Out(c2.state) = View!Out(c.state) \cup {s}, s \notin View!Out(c.state)
  PROVE  View!Passed(v, s) = [v EXCEPT !.max_bids = View!Accepted(c2)]
<1>1. View!Accepted(c) \in [View!Seats -> Nat] /\ View!Accepted(c2) \in [View!Seats -> Nat]
  BY AcceptedIs
<1>2. c.max_bids[s] \in Nat BY DEF Auctions
<1>3. View!Accepted(c)[s] = View!Value(c.max_bids[s]) BY AcceptedIs
<1>4. \A x \in View!Seats : x # s => View!Accepted(c2)[x] = View!Accepted(c)[x] BY AcceptedIs
<1>5. CASE v.max_bids[s] = 0
  <2>1. c.max_bids[s] = 0 BY <1>2, <1>3, <1>5, ValueIs
  <2>2. View!Accepted(c2)[s] = View!Mark BY <2>1, AcceptedIs
  <2>3. View!Accepted(c2) = [v.max_bids EXCEPT ![s] = View!Mark] BY <1>1, <1>4, <2>2
  <2> QED BY <1>5, <2>3 DEF View!Passed
<1>6. CASE v.max_bids[s] # 0
  <2>1. c.max_bids[s] # 0 BY <1>2, <1>3, <1>6, ValueIs
  <2>2. View!Accepted(c2)[s] = View!Accepted(c)[s] BY <1>3, <2>1, AcceptedIs
  <2>3. View!Accepted(c2) = v.max_bids BY <1>1, <1>4, <2>2
  <2>4. View!Passed(v, s) = v BY <1>6 DEF View!Passed
  <2>5. v = [v EXCEPT !.max_bids = v.max_bids] BY DEF Views
  <2> QED BY <2>3, <2>4, <2>5
<1> QED BY <1>5, <1>6

\* The winner of the auction is not out, and has the bid that won it.
LEMMA WinnerHas ==
  ASSUME NEW c \in Auctions, c.state.finished, c.state.winner \in View!Seats,
         c.max_bids[c.state.winner] = c.state.winning_bid
  PROVE  View!Accepted(c)[c.state.winner] = View!Value(c.state.winning_bid)
<1>1. c.state.winner \notin View!Out(c.state) BY DEF View!Out
<1> QED BY <1>1, AcceptedIs

\* A bid, a yes or a pass is legal, and takes all three to the same auction.
LEMMA BidKeeps ==
  ASSUME NEW e \in Games, NEW c \in Auctions, NEW v \in Views, AuctionAgrees(e, c, v),
         e.phase # "hold", e.cur + 1 < ViewTop
  PROVE  LET m  == AuctionMoveOf(e, TRUE)
             e2 == View!Bidding(e, TRUE)  c2 == View!AuctionMove(c, m)  v2 == View!ViewMove(v, m)
         IN  /\ e2 \in Games /\ c2 \in Auctions /\ v2 \in Views
             /\ SameTable(e, e2) /\ SameTricks(v, v2)
             /\ AuctionAgrees(e2, c2, v2) \/ Declarer(e2, c2, v2)
<1> DEFINE m == AuctionMoveOf(e, TRUE)
           e2 == View!Bidding(e, TRUE)
           c2 == View!AuctionMove(c, m)
           v2 == View!ViewMove(v, m)
<1>1. /\ m.by = View!Announcer(e) /\ m.kind = "bid" /\ m.val = e.cur + 1
  BY DEF AuctionMoveOf, View!Move, Turn
<1>2. View!Announcer(e) \in View!Seats /\ ViewTop \in Nat /\ e.cur \in Nat BY ViewAssumption DEF View!Announcer, Games, View!Seats
<1>3. c2 = [c EXCEPT !.state = View!BidderBids(c.state), !.max_bids[m.by] = c.state.offer]
  BY <1>1 DEF View!AuctionMove, AuctionAgrees, DuelsAgree, ViewBids, View!Legal, View!AuctionKinds, View!expected_actor, View!apply
<1>4. v2 = (LET q == [v EXCEPT !.max_bids[m.by] = View!Value(m.val), !.max_bid = View!Value(m.val)] IN
            IF m.by = 0 THEN View!ToDeclare(q, 0) ELSE [q EXCEPT !.phase = "ANSWER", !.to_move = v.asked])
  <2> HIDE DEF m
  <2>1. v.phase = "BID" /\ ~v.raised /\ v.to_move = View!Announcer(e) /\ v.max_bid = View!Value(e.cur)
    BY DEF AuctionAgrees, ViewBids, Turn
  <2>2. View!ViewMove(v, m) = View!BidMove(v, m) BY <1>1, <2>1 DEF View!ViewMove
  <2>3. View!Value(m.val) > v.max_bid BY <1>1, <1>2, <2>1, ValueIs
  <2> QED BY <1>1, <2>2, <2>3 DEF View!BidMove
<1>7. e2 = View!Bidding(e, TRUE) OBVIOUS
<1>8. SUFFICES /\ e2 \in Games /\ c2 \in Auctions /\ v2 \in Views
               /\ SameTable(e, e2) /\ SameTricks(v, v2)
               /\ AuctionAgrees(e2, c2, v2) \/ Declarer(e2, c2, v2)
  OBVIOUS
<1> HIDE DEF m, e2, c2, v2
<1>5. CASE e.phase = "bid"
  <2>1. e2 = [e EXCEPT !.phase = "hold", !.cur = e.cur + 1, !.bids[e.stage] = e.cur + 1]
    <3>1. View!Announcer(e) = e.stage BY <1>5 DEF View!Announcer
    <3>2. View!Next18(e.cur) = e.cur + 1 BY <1>2 DEF View!Next18, AuctionAgrees, DuelsAgree
    <3> QED BY <1>5, <1>7, <3>1, <3>2 DEF View!Bidding
  <2>2. m.by = e.stage /\ e.stage \in 1..2 /\ m.by # 0 /\ e.hearer \in {0, 1}
    BY <1>1, <1>5 DEF View!Announcer, Games, AuctionAgrees, DuelsAgree
  <2>3. c2 = [c EXCEPT !.state = [c.state EXCEPT !.bidder_turn = FALSE], !.max_bids[e.stage] = e.cur + 1]
    BY <1>3, <1>5, <2>2 DEF View!BidderBids, AuctionAgrees, DuelsAgree, View!Announcer, Games
  <2>4. v2 = [v EXCEPT !.max_bids[e.stage] = View!Value(e.cur + 1), !.max_bid = View!Value(e.cur + 1),
                       !.phase = "ANSWER", !.to_move = e.hearer]
    BY <1>1, <1>4, <1>5, <2>2 DEF AuctionAgrees, ViewBids
  <2>5. e2 \in Games /\ c2 \in Auctions /\ v2 \in Views
    <3>1. e.cur + 1 \in Nat /\ e.stage \in View!Seats /\ e.hearer \in 0..3
      BY <1>2, <2>2 DEF View!Seats
    <3>2. e2 \in Games BY <2>1, <3>1 DEF Games
    <3>3. c2 \in Auctions BY <2>3, <3>1 DEF Auctions, Biddings
    <3>5. View!Value(e.cur + 1) \in Nat BY <3>1, ValueIs
    <3>4. v2 \in Views BY <2>4, <3>1, <3>5 DEF Views
    <3> QED BY <3>2, <3>3, <3>4
  <2>6. SameTable(e, e2) /\ SameTricks(v, v2) BY <2>1, <2>4 DEF SameTable, SameTricks, Games, Views
  <2>7. DuelsAgree(e2, c2.state, c2.max_bids)
    BY <1>2, <1>5, <2>1, <2>2, <2>3 DEF DuelsAgree, AuctionAgrees, Games, Auctions, Biddings, View!Announcer, View!Seats, View!NoOne
  <2>9. v2.max_bids = View!Accepted(c2)
    <3>1. e.stage \in View!Seats /\ e.cur + 1 \in Nat /\ e.cur + 1 # 0 BY <1>2, <2>2 DEF View!Seats
    <3>2. c2.max_bids = [c.max_bids EXCEPT ![e.stage] = e.cur + 1] BY <2>3, <3>1 DEF Auctions
    <3>3. View!Out(c2.state) = View!Out(c.state) BY <2>3 DEF View!Out, Auctions, Biddings
    <3>4. View!Accepted(c2) = [View!Accepted(c) EXCEPT ![e.stage] = View!Value(e.cur + 1)]
      BY <2>5, <3>1, <3>2, <3>3, AcceptedBid
    <3>5. v2.max_bids = [v.max_bids EXCEPT ![e.stage] = View!Value(e.cur + 1)] BY <2>4, <3>1 DEF Views
    <3>6. v.max_bids = View!Accepted(c) BY DEF AuctionAgrees, ViewBids
    <3> QED BY <3>4, <3>5, <3>6
  <2>10. v2.max_bid = View!Value(e2.cur) BY <2>1, <2>4 DEF Games, Views
  <2>8. ViewBids(e2, c2.state, c2, v2)
    BY <1>2, <1>5, <2>1, <2>2, <2>3, <2>4, <2>9, <2>10 DEF ViewBids, AuctionAgrees, Games, Auctions, Biddings,
       Views, View!Announcer, View!Seats, View!NoOne, Turn
  <2> QED BY <2>5, <2>6, <2>7, <2>8 DEF AuctionAgrees
<1>6. CASE e.phase = "solo"
  <2>1. e2 = [e EXCEPT !.phase = "pick", !.declarer = 0] BY <1>6, <1>7 DEF View!Bidding
  <2>2. m.by = 0 /\ e.cur = 0 /\ c.state.offer = 1
    BY <1>1, <1>6 DEF View!Announcer, AuctionAgrees, DuelsAgree
  <2>3. c2 = [c EXCEPT !.state = [c.state EXCEPT !.finished = TRUE, !.winner = 0, !.winning_bid = 1],
                       !.max_bids[0] = 1]
    BY <1>3, <1>6, <2>2 DEF View!BidderBids, View!Won, AuctionAgrees, DuelsAgree, View!Announcer
  <2>4. v2 = [v EXCEPT !.max_bids[0] = View!Value(1), !.max_bid = View!Value(1), !.phase = "SKAT_OR_HAND_DECL",
                       !.declarer = 0, !.to_move = 0]
    <3>1. m.val = 1 BY <1>1, <2>2
    <3> QED BY <1>4, <2>2, <3>1 DEF View!ToDeclare
  <2>5. e2 \in Games /\ c2 \in Auctions /\ v2 \in Views
    <3>1. 0 \in View!Seats /\ 0 \in 0..3 /\ 1 \in Nat /\ View!Value(1) \in Nat BY ValueIs DEF View!Seats
    <3>2. e2 \in Games BY <2>1, <3>1 DEF Games
    <3>3. c2 \in Auctions BY <2>3, <3>1 DEF Auctions, Biddings
    <3>4. v2 \in Views BY <2>4, <3>1 DEF Views
    <3> QED BY <3>2, <3>3, <3>4
  <2>6. SameTable(e, e2) /\ SameTricks(v, v2) BY <2>1, <2>4 DEF SameTable, SameTricks, Games, Views
  <2>7. WinnerAgrees(e2, c2, v2)
    <3>1. 0 \in View!Seats /\ v.max_bids = View!Accepted(c) /\ ~c.raised /\ ~v.raised
      BY DEF View!Seats, AuctionAgrees, ViewBids
    <3>2. e2.declarer = 0 BY <2>1 DEF Games
    <3>3. c2.state.finished /\ c2.state.winner = 0 /\ c2.state.winning_bid = 1 /\ ~c2.raised
          /\ c2.max_bids = [c.max_bids EXCEPT ![0] = 1]
      BY <2>3, <3>1 DEF Auctions, Biddings
    <3>4. v2.declarer = 0 /\ ~v2.raised /\ v2.max_bid = View!Value(1)
          /\ v2.max_bids = [v.max_bids EXCEPT ![0] = View!Value(1)]
      BY <2>4, <3>1 DEF Views
    <3>5. c.max_bids \in [View!Seats -> Nat] BY DEF Auctions
    <3>6. View!Out(c2.state) = View!Out(c.state)
      <4>1. c.state.bidder = 0 /\ c.state.answerer = 0 /\ ~c.state.finished
        BY <1>6 DEF AuctionAgrees, DuelsAgree, View!Announcer
      <4> QED BY <3>3, <4>1 DEF View!Out
    <3>7. View!Accepted(c2) = [View!Accepted(c) EXCEPT ![0] = View!Value(1)]
      BY <2>5, <3>1, <3>3, <3>6, AcceptedBid, 1 \in Nat
    <3>8. View!Accepted(c) \in [View!Seats -> Nat] BY AcceptedIs
    <3> QED BY <3>1, <3>2, <3>3, <3>4, <3>7, <3>8 DEF WinnerAgrees
  <2>8. e2.phase = "pick" /\ e2.declarer = 0 /\ v2.phase = "SKAT_OR_HAND_DECL" /\ v2.to_move = 0
    BY <2>1, <2>4 DEF Games, Views
  <2> QED BY <2>1, <2>5, <2>6, <2>7, <2>8 DEF Declarer, Games
<1> QED BY <1>5, <1>6 DEF AuctionAgrees, DuelsAgree

\* A yes to a bid.
LEMMA HoldKeeps ==
  ASSUME NEW e \in Games, NEW c \in Auctions, NEW v \in Views, AuctionAgrees(e, c, v),
         e.phase = "hold"
  PROVE  LET m  == AuctionMoveOf(e, TRUE)
             e2 == View!Bidding(e, TRUE)  c2 == View!AuctionMove(c, m)  v2 == View!ViewMove(v, m)
         IN  /\ e2 \in Games /\ c2 \in Auctions /\ v2 \in Views
             /\ SameTable(e, e2) /\ SameTricks(v, v2)
             /\ AuctionAgrees(e2, c2, v2)
<1> DEFINE m == AuctionMoveOf(e, TRUE)
           e2 == View!Bidding(e, TRUE)
           c2 == View!AuctionMove(c, m)
           v2 == View!ViewMove(v, m)
<1>1. m.by = e.hearer /\ m.kind = "answer_yes"
  BY DEF AuctionMoveOf, View!Move, Turn
<1>2. e.hearer \in View!Seats /\ e.stage \in 1..2 /\ ViewTop \in Nat /\ e.cur \in Nat /\ e.cur + 1 \in Nat
      /\ e.cur # ViewTop /\ e.cur > 0
  BY ViewAssumption DEF Games, AuctionAgrees, DuelsAgree
<1>3. e2 = [e EXCEPT !.phase = "bid", !.bids[e.hearer] = e.cur] BY DEF View!Bidding
<1>4. c2 = [c EXCEPT !.state = [c.state EXCEPT !.offer = e.cur + 1, !.bidder_turn = TRUE],
                     !.max_bids[e.hearer] = e.cur]
  <2> HIDE DEF m
  <2>1. /\ ~c.frozen /\ ~c.raised /\ ~c.state.finished /\ c.state.offer = e.cur
        /\ ~c.state.bidder_turn /\ c.state.answerer = e.hearer
    BY DEF AuctionAgrees, DuelsAgree, ViewBids
  <2>2. View!Legal(c.state, m) BY <1>1, <2>1 DEF View!Legal, View!expected_actor
  <2>3. View!apply(c.state, TRUE) = [c.state EXCEPT !.offer = e.cur + 1, !.bidder_turn = TRUE]
    BY <1>2, <2>1 DEF View!apply, View!AnswererHolds
  <2> QED BY <1>1, <2>1, <2>2, <2>3 DEF View!AuctionMove, View!AuctionKinds
<1>5. v2 = [v EXCEPT !.max_bids[e.hearer] = View!Value(e.cur), !.phase = "BID", !.to_move = v.bidder]
  <2> HIDE DEF m
  <2>1. v.phase = "ANSWER" /\ ~v.raised /\ v.to_move = e.hearer /\ v.max_bid = View!Value(e.cur)
    BY DEF AuctionAgrees, ViewBids, Turn
  <2>2. View!ViewMove(v, m) = View!AnswerMove(v, m) BY <1>1, <2>1 DEF View!ViewMove
  <2> QED BY <1>1, <2>1, <2>2 DEF View!AnswerMove
<1>6. v.bidder = e.stage /\ c.state.bidder = e.stage
  BY DEF AuctionAgrees, DuelsAgree, ViewBids, View!Announcer
<1>7. SUFFICES /\ e2 \in Games /\ c2 \in Auctions /\ v2 \in Views
               /\ SameTable(e, e2) /\ SameTricks(v, v2) /\ AuctionAgrees(e2, c2, v2)
  OBVIOUS
<1> HIDE DEF m, e2, c2, v2
<1>8. e2 \in Games BY <1>2, <1>3 DEF Games
<1>9. c2 \in Auctions BY <1>2, <1>4 DEF Auctions, Biddings
<1>10. v2 \in Views
  <2>1. e.stage \in 0..3 /\ View!Value(e.cur) \in Nat BY <1>2, ValueIs
  <2> QED BY <1>2, <1>5, <1>6, <2>1 DEF Views
<1>11. SameTable(e, e2) /\ SameTricks(v, v2) BY <1>3, <1>5 DEF SameTable, SameTricks, Games, Views
<1>12. DuelsAgree(e2, c2.state, c2.max_bids)
  BY <1>2, <1>3, <1>4, <1>6 DEF DuelsAgree, AuctionAgrees, Games, Auctions, Biddings, View!Announcer, View!Seats, View!NoOne
<1>14. v2.max_bids = View!Accepted(c2)
  <2>1. e.cur \in Nat /\ e.cur # 0 BY <1>2
  <2>2. c2.max_bids = [c.max_bids EXCEPT ![e.hearer] = e.cur] BY <1>4, <1>2 DEF Auctions
  <2>3. View!Out(c2.state) = View!Out(c.state) BY <1>4 DEF View!Out, Auctions, Biddings
  <2>4. View!Accepted(c2) = [View!Accepted(c) EXCEPT ![e.hearer] = View!Value(e.cur)]
    BY <1>2, <1>9, <2>1, <2>2, <2>3, AcceptedBid
  <2>5. v2.max_bids = [v.max_bids EXCEPT ![e.hearer] = View!Value(e.cur)] BY <1>2, <1>5 DEF Views
  <2>6. v.max_bids = View!Accepted(c) BY DEF AuctionAgrees, ViewBids
  <2> QED BY <2>4, <2>5, <2>6
<1>13. ViewBids(e2, c2.state, c2, v2)
  BY <1>2, <1>3, <1>4, <1>5, <1>6, <1>14
  DEF ViewBids, AuctionAgrees, Games, Auctions, Biddings, Views, View!Announcer, View!Seats, View!NoOne, Turn
<1> QED BY <1>8, <1>9, <1>10, <1>11, <1>12, <1>13 DEF AuctionAgrees

\* A pass ends a duel, the auction or the game.
LEMMA PassKeeps ==
  ASSUME NEW e \in Games, NEW c \in Auctions, NEW v \in Views, AuctionAgrees(e, c, v)
  PROVE  LET m  == AuctionMoveOf(e, FALSE)
             e2 == View!Bidding(e, FALSE)  c2 == View!AuctionMove(c, m)  v2 == View!ViewMove(v, m)
         IN  /\ e2 \in Games /\ c2 \in Auctions /\ v2 \in Views
             /\ SameTable(e, e2) /\ SameTricks(v, v2)
             /\ \/ AuctionAgrees(e2, c2, v2)
                \/ Declarer(e2, c2, v2)
                \/ e2.phase = "over" /\ NobodyPlays(c2, v2)
<1> DEFINE m == AuctionMoveOf(e, FALSE)
           e2 == View!Bidding(e, FALSE)
           c2 == View!AuctionMove(c, m)
           v2 == View!ViewMove(v, m)
           b == c.state
<1>1. m.by = Turn(e) /\ m.kind = "pass"
  BY DEF AuctionMoveOf, View!Move
<1>2. e.hearer \in View!Seats /\ e.stage \in 1..2 /\ ViewTop \in Nat /\ e.cur \in Nat /\ e.cur + 1 \in Nat
      /\ e.cur # ViewTop /\ Turn(e) \in View!Seats /\ b.offer \in Nat /\ 0 \in View!Seats /\ 1 \in View!Seats /\ 2 \in View!Seats
      /\ View!Seats \subseteq 0..3 /\ View!NoOne \in 0..3
  BY ViewAssumption DEF Games, AuctionAgrees, DuelsAgree, Turn, View!Announcer, View!Seats, Auctions, Biddings, View!NoOne
<1>3. /\ ~c.frozen /\ ~c.raised /\ ~v.raised /\ ~b.finished
      /\ b.bidder_turn <=> e.phase # "hold"
      /\ b.offer = (IF e.phase = "hold" THEN e.cur ELSE e.cur + 1)
      /\ b.bidder = View!Announcer(e) /\ v.bidder = b.bidder
      /\ v.phase = (IF e.phase = "hold" THEN "ANSWER" ELSE "BID")
      /\ v.to_move = Turn(e) /\ v.max_bid = View!Value(e.cur)
      /\ v.max_bids = View!Accepted(c)
      /\ v.asked = (IF e.phase = "solo" THEN View!NoOne ELSE e.hearer)
      /\ b.answerer = (IF e.phase = "solo" THEN 0 ELSE e.hearer)
  BY DEF AuctionAgrees, DuelsAgree, ViewBids
<1>4. c2 = [c EXCEPT !.state = View!apply(b, FALSE)]
  <2> HIDE DEF m
  <2>1. View!expected_actor(b) = m.by BY <1>1, <1>3 DEF View!expected_actor, Turn, View!Announcer
  <2>2. View!Legal(b, m) BY <1>1, <1>3, <2>1 DEF View!Legal
  <2>3. View!AuctionMove(c, m) = [c EXCEPT !.state = View!apply(c.state, FALSE), !.max_bids[m.by] = c.max_bids[m.by]]
    BY <1>1, <1>3, <2>2 DEF View!AuctionMove, View!AuctionKinds
  <2>4. @ = [c EXCEPT !.state = View!apply(c.state, FALSE)]
    BY <1>1, <1>2 DEF Auctions
  <2> QED BY <2>3, <2>4
<1> DEFINE p == View!Passed(v, m.by)
<1>6. v2 = (IF e.phase = "hold"
            THEN IF v.bidder = 1 THEN View!Asks(p, 2, 1) ELSE View!ToDeclare(p, v.bidder)
            ELSE CASE v.bidder = 0 -> [p EXCEPT !.phase = "FINISHED", !.to_move = View!NoOne]
                   [] v.bidder = 1 -> View!Asks(p, 2, 0)
                   [] v.bidder = 2 -> IF v.max_bid = 0 THEN View!Asks(p, 0, View!NoOne) ELSE View!ToDeclare(p, v.asked))
  <2> HIDE DEF m, p
  <2>1. CASE e.phase = "hold"
    <3>1. View!ViewMove(v, m) = View!AnswerMove(v, m) BY <1>1, <1>3, <2>1 DEF View!ViewMove
    <3> QED BY <1>1, <2>1, <3>1 DEF View!AnswerMove, p
  <2>2. CASE e.phase # "hold"
    <3>1. View!ViewMove(v, m) = View!BidMove(v, m) BY <1>1, <1>3, <2>2 DEF View!ViewMove
    <3> QED BY <1>1, <2>2, <3>1 DEF View!BidMove, p
  <2> QED BY <2>1, <2>2
<1>7. SUFFICES /\ e2 \in Games /\ c2 \in Auctions /\ v2 \in Views
               /\ SameTable(e, e2) /\ SameTricks(v, v2)
               /\ \/ AuctionAgrees(e2, c2, v2)
                  \/ Declarer(e2, c2, v2)
                  \/ e2.phase = "over" /\ NobodyPlays(c2, v2)
  OBVIOUS
<1>8. e2 = View!Bidding(e, FALSE) OBVIOUS
<1>5. ASSUME c2 \in Auctions, c2.max_bids = c.max_bids,
             View!Out(c2.state) = View!Out(b) \cup {Turn(e)}, Turn(e) \notin View!Out(b)
      PROVE  p = [v EXCEPT !.max_bids = View!Accepted(c2)] /\ View!Accepted(c2) \in [View!Seats -> Nat]
  <2> HIDE DEF m, c2, p
  <2>1. p = [v EXCEPT !.max_bids = View!Accepted(c2)]
    BY <1>1, <1>2, <1>3, <1>5, AcceptedPass DEF p
  <2> QED BY <1>5, <2>1, AcceptedIs
<1> HIDE DEF m, e2, c2, v2, p
<1>9. CASE e.phase = "bid" /\ e.stage = 1
  <2>1. e2 = [e EXCEPT !.phase = "bid", !.stage = 2, !.hearer = e.hearer]
    BY <1>8, <1>9 DEF View!Bidding, View!DuelWonBy
  <2>2. e.hearer = 0 /\ View!Announcer(e) = 1
    BY <1>9 DEF AuctionAgrees, DuelsAgree, View!Announcer
  <2>3. c2 = [c EXCEPT !.state = [b EXCEPT !.bidder = 2]]
    BY <1>3, <1>4, <1>9, <2>2 DEF View!apply, View!BidderPasses
  <2>6. c2 \in Auctions BY <1>2, <2>3 DEF Auctions, Biddings
  <2>20. p = [v EXCEPT !.max_bids = View!Accepted(c2)] /\ View!Accepted(c2) \in [View!Seats -> Nat]
    <3>1. c2.max_bids = c.max_bids BY <2>3 DEF Auctions
    <3>2. View!Out(c2.state) = View!Out(b) \cup {Turn(e)} /\ Turn(e) \notin View!Out(b)
      <4>1. e.hearer \in {0, 1} /\ (e.stage = 1 => e.hearer = 0) /\ b.winner = View!NoOne
        BY <1>2 DEF AuctionAgrees, DuelsAgree
      <4>2. b.bidder = 1 /\ b.answerer = 0 /\ ~b.finished /\ Turn(e) = 1
        BY <1>3, <1>9, <2>2, <4>1 DEF Turn
      <4>3. ~c2.state.finished /\ c2.state.bidder = 2 /\ c2.state.answerer = 0
        BY <1>3, <2>3, <4>1, <4>2 DEF Auctions, Biddings
      <4>4. View!Out(b) = {}
        BY <4>1, <4>2 DEF View!Out, View!Seats
      <4>5. View!Out(c2.state) = {1}
        BY <4>1, <4>3 DEF View!Out, View!Seats, View!NoOne
      <4> QED BY <4>1, <4>2, <4>4, <4>5 DEF View!Seats
    <3> QED BY <1>5, <2>6, <3>1, <3>2
  <2>4. v2 = [v EXCEPT !.max_bids = View!Accepted(c2), !.phase = "BID", !.bidder = 2, !.asked = 0, !.to_move = 2]
    BY <1>3, <1>6, <1>9, <2>2, <2>20 DEF View!Asks
  <2>5. e2 \in Games
    <3>1. 2 \in 1..2 OBVIOUS
    <3> QED BY <1>2, <2>1, <3>1 DEF Games
  <2>7. v2 \in Views BY <1>2, <2>4, <2>20 DEF Views
  <2>8. SameTable(e, e2) /\ SameTricks(v, v2) BY <2>1, <2>4 DEF SameTable, SameTricks, Games, Views
  <2>9. DuelsAgree(e2, c2.state, c2.max_bids)
    BY <1>2, <1>3, <1>9, <2>1, <2>2, <2>3 DEF DuelsAgree, AuctionAgrees, Games, Auctions, Biddings, View!Announcer
  <2>10. ViewBids(e2, c2.state, c2, v2)
    BY <1>2, <1>3, <1>9, <2>1, <2>2, <2>3, <2>4, <2>20
    DEF ViewBids, AuctionAgrees, Games, Auctions, Biddings, Views, View!Announcer, Turn
  <2> QED BY <2>5, <2>6, <2>7, <2>8, <2>9, <2>10 DEF AuctionAgrees
<1>10. CASE e.phase = "bid" /\ e.stage = 2 /\ e.cur > 0
  <2>1. e2 = [e EXCEPT !.phase = "pick", !.declarer = e.hearer]
    BY <1>8, <1>10 DEF View!Bidding, View!DuelWonBy
  <2>2. View!Announcer(e) = 2 /\ c.max_bids[e.hearer] = e.cur
    BY <1>10 DEF AuctionAgrees, DuelsAgree, View!Announcer
  <2>3. c2 = [c EXCEPT !.state = [b EXCEPT !.finished = TRUE, !.winner = e.hearer, !.winning_bid = e.cur]]
    <3>1. b.offer > 1 /\ b.offer - 1 = e.cur BY <1>2, <1>3, <1>10
    <3>2. b.bidder = 2 /\ b.answerer = e.hearer /\ b.bidder_turn /\ b.offer # 1 BY <1>3, <1>10, <2>2, <3>1
    <3>3. View!apply(b, FALSE) = View!BidderPasses(b) BY <3>2 DEF View!apply
    <3>4. View!BidderPasses(b) = View!Won(b, e.hearer, e.cur) BY <3>1, <3>2 DEF View!BidderPasses
    <3> QED BY <1>4, <3>3, <3>4 DEF View!Won
  <2>6. c2 \in Auctions BY <1>2, <2>3 DEF Auctions, Biddings
  <2>20. p = [v EXCEPT !.max_bids = View!Accepted(c2)] /\ View!Accepted(c2) \in [View!Seats -> Nat]
    <3>1. c2.max_bids = c.max_bids BY <2>3 DEF Auctions
    <3>2. View!Out(c2.state) = View!Out(b) \cup {Turn(e)} /\ Turn(e) \notin View!Out(b)
      <4>1. e.hearer \in {0, 1} /\ (e.stage = 1 => e.hearer = 0) /\ b.winner = View!NoOne
        BY <1>2 DEF AuctionAgrees, DuelsAgree
      <4>2. b.bidder = 2 /\ b.answerer = e.hearer /\ ~b.finished /\ Turn(e) = 2
        BY <1>3, <1>10, <2>2, <4>1 DEF Turn
      <4>3. c2.state.finished /\ c2.state.winner = e.hearer
        BY <1>3, <2>3, <4>1, <4>2 DEF Auctions, Biddings
      <4>4. View!Out(b) = View!Seats \ {2, e.hearer}
        BY <4>1, <4>2 DEF View!Out, View!Seats
      <4>5. View!Out(c2.state) = View!Seats \ {e.hearer}
        BY <4>1, <4>3 DEF View!Out, View!Seats, View!NoOne
      <4> QED BY <4>1, <4>2, <4>4, <4>5 DEF View!Seats
    <3> QED BY <1>5, <2>6, <3>1, <3>2
  <2>4. v2 = [v EXCEPT !.max_bids = View!Accepted(c2), !.phase = "SKAT_OR_HAND_DECL", !.declarer = e.hearer, !.to_move = e.hearer]
    <3>1. v.max_bid # 0 BY <1>2, <1>3, <1>10, ValueIs
    <3> QED BY <1>2, <1>3, <1>6, <1>10, <2>2, <2>20, <3>1 DEF View!ToDeclare
  <2>5. e2 \in Games BY <1>2, <2>1 DEF Games
  <2>7. v2 \in Views BY <1>2, <2>4, <2>20 DEF Views
  <2>8. SameTable(e, e2) /\ SameTricks(v, v2) BY <2>1, <2>4 DEF SameTable, SameTricks, Games, Views
  <2>9. Declarer(e2, c2, v2)
    <3>1. c2.state.finished /\ c2.state.winner \in View!Seats /\ c2.state.winning_bid = e.cur
          /\ c2.max_bids[c2.state.winner] = e.cur
      BY <1>2, <2>2, <2>3, <2>1 DEF Auctions, Biddings
    <3>2. View!Accepted(c2)[c2.state.winner] = View!Value(e.cur) BY <2>6, <3>1, WinnerHas
    <3> QED BY <1>2, <1>3, <2>1, <2>2, <2>3, <2>4, <2>20, <3>1, <3>2
            DEF Declarer, WinnerAgrees, Games, Auctions, Biddings, Views
  <2> QED BY <2>5, <2>6, <2>7, <2>8, <2>9
<1>11. CASE e.phase = "bid" /\ e.stage = 2 /\ e.cur = 0
  <2>1. e.hearer = 0 /\ View!Announcer(e) = 2
    BY <1>11 DEF AuctionAgrees, DuelsAgree, View!Announcer
  <2>2. e2 = [e EXCEPT !.phase = "solo"]
    BY <1>8, <1>11, <2>1 DEF View!Bidding, View!DuelWonBy
  <2>3. c2 = [c EXCEPT !.state = [b EXCEPT !.bidder = 0]]
    BY <1>3, <1>4, <1>11, <2>1 DEF View!apply, View!BidderPasses
  <2>6. c2 \in Auctions BY <1>2, <2>3 DEF Auctions, Biddings
  <2>20. p = [v EXCEPT !.max_bids = View!Accepted(c2)] /\ View!Accepted(c2) \in [View!Seats -> Nat]
    <3>1. c2.max_bids = c.max_bids BY <2>3 DEF Auctions
    <3>2. View!Out(c2.state) = View!Out(b) \cup {Turn(e)} /\ Turn(e) \notin View!Out(b)
      <4>1. e.hearer \in {0, 1} /\ (e.stage = 1 => e.hearer = 0) /\ b.winner = View!NoOne
        BY <1>2 DEF AuctionAgrees, DuelsAgree
      <4>2. b.bidder = 2 /\ b.answerer = 0 /\ ~b.finished /\ Turn(e) = 2
        BY <1>3, <1>11, <2>1, <4>1 DEF Turn
      <4>3. ~c2.state.finished /\ c2.state.bidder = 0 /\ c2.state.answerer = 0
        BY <1>3, <2>3, <4>1, <4>2 DEF Auctions, Biddings
      <4>4. View!Out(b) = {1}
        BY <4>1, <4>2 DEF View!Out, View!Seats
      <4>5. View!Out(c2.state) = {1, 2}
        BY <4>1, <4>3 DEF View!Out, View!Seats, View!NoOne
      <4> QED BY <4>1, <4>2, <4>4, <4>5 DEF View!Seats
    <3> QED BY <1>5, <2>6, <3>1, <3>2
  <2>4. v2 = [v EXCEPT !.max_bids = View!Accepted(c2), !.phase = "BID", !.bidder = 0, !.asked = View!NoOne, !.to_move = 0]
    <3>1. v.max_bid = 0 BY <1>2, <1>3, <1>11, ValueIs
    <3> QED BY <1>3, <1>6, <1>11, <2>1, <2>20, <3>1 DEF View!Asks
  <2>5. e2 \in Games BY <1>2, <2>2 DEF Games
  <2>7. v2 \in Views BY <1>2, <2>4, <2>20 DEF Views
  <2>8. SameTable(e, e2) /\ SameTricks(v, v2) BY <2>2, <2>4 DEF SameTable, SameTricks, Games, Views
  <2>9. DuelsAgree(e2, c2.state, c2.max_bids)
    BY <1>2, <1>3, <1>11, <2>1, <2>2, <2>3 DEF DuelsAgree, AuctionAgrees, Games, Auctions, Biddings, View!Announcer
  <2>10. ViewBids(e2, c2.state, c2, v2)
    BY <1>2, <1>3, <1>11, <2>1, <2>2, <2>3, <2>4, <2>20
    DEF ViewBids, AuctionAgrees, Games, Auctions, Biddings, Views, View!Announcer, Turn
  <2> QED BY <2>5, <2>6, <2>7, <2>8, <2>9, <2>10 DEF AuctionAgrees
<1>12. CASE e.phase = "solo"
  <2>1. View!Announcer(e) = 0 /\ e.cur = 0 BY <1>12 DEF AuctionAgrees, DuelsAgree, View!Announcer
  <2>2. e2 = [e EXCEPT !.phase = "over"] BY <1>8, <1>12 DEF View!Bidding
  <2>3. c2 = [c EXCEPT !.state = [b EXCEPT !.finished = TRUE]]
    <3>1. b.bidder = 0 /\ b.answerer = 0 /\ b.bidder_turn BY <1>3, <1>12, <2>1
    <3>2. View!apply(b, FALSE) = View!BidderPasses(b) BY <3>1 DEF View!apply
    <3>3. View!BidderPasses(b) = [b EXCEPT !.finished = TRUE] BY <3>1 DEF View!BidderPasses
    <3> QED BY <1>4, <3>2, <3>3
  <2>6. c2 \in Auctions BY <1>2, <2>3 DEF Auctions, Biddings
  <2>20. p = [v EXCEPT !.max_bids = View!Accepted(c2)] /\ View!Accepted(c2) \in [View!Seats -> Nat]
    <3>1. c2.max_bids = c.max_bids BY <2>3 DEF Auctions
    <3>2. View!Out(c2.state) = View!Out(b) \cup {Turn(e)} /\ Turn(e) \notin View!Out(b)
      <4>1. e.hearer \in {0, 1} /\ (e.stage = 1 => e.hearer = 0) /\ b.winner = View!NoOne
        BY <1>2 DEF AuctionAgrees, DuelsAgree
      <4>2. b.bidder = 0 /\ b.answerer = 0 /\ ~b.finished /\ Turn(e) = 0
        BY <1>3, <1>12, <2>1, <4>1 DEF Turn
      <4>3. c2.state.finished /\ c2.state.winner = View!NoOne
        BY <1>3, <2>3, <4>1, <4>2 DEF Auctions, Biddings
      <4>4. View!Out(b) = {1, 2}
        BY <4>1, <4>2 DEF View!Out, View!Seats
      <4>5. View!Out(c2.state) = {0, 1, 2}
        BY <4>1, <4>3 DEF View!Out, View!Seats, View!NoOne
      <4> QED BY <4>1, <4>2, <4>4, <4>5 DEF View!Seats
    <3> QED BY <1>5, <2>6, <3>1, <3>2
  <2>4. v2 = [v EXCEPT !.max_bids = View!Accepted(c2), !.phase = "FINISHED", !.to_move = View!NoOne]
    BY <1>3, <1>6, <1>12, <2>1, <2>20
  <2>5. e2 \in Games BY <1>2, <2>2 DEF Games
  <2>7. v2 \in Views BY <1>2, <2>4, <2>20 DEF Views
  <2>8. SameTable(e, e2) /\ SameTricks(v, v2) BY <2>2, <2>4 DEF SameTable, SameTricks, Games, Views
  <2>9. NobodyPlays(c2, v2)
    <3>1. b.winner = View!NoOne /\ v.declarer = View!NoOne
      BY DEF AuctionAgrees, DuelsAgree, ViewBids
    <3> QED BY <1>3, <2>3, <2>4, <2>20, <3>1 DEF NobodyPlays, Auctions, Biddings, Views
  <2> QED BY <2>2, <2>5, <2>6, <2>7, <2>8, <2>9 DEF Games
<1>13. CASE e.phase = "hold" /\ e.stage = 1
  <2>1. View!Announcer(e) = 1 /\ e.cur > 0 /\ c.max_bids[1] = e.cur
    BY <1>13 DEF AuctionAgrees, DuelsAgree, View!Announcer
  <2>2. e2 = [e EXCEPT !.phase = "bid", !.stage = 2, !.hearer = 1]
    BY <1>8, <1>13, <2>1 DEF View!Bidding, View!DuelWonBy
  <2>3. c2 = [c EXCEPT !.state = [b EXCEPT !.answerer = 1, !.bidder = 2, !.offer = e.cur + 1,
                                           !.bidder_turn = TRUE]]
    BY <1>2, <1>3, <1>4, <1>13, <2>1 DEF View!apply, View!AnswererPasses
  <2>6. c2 \in Auctions BY <1>2, <2>3 DEF Auctions, Biddings
  <2>20. p = [v EXCEPT !.max_bids = View!Accepted(c2)] /\ View!Accepted(c2) \in [View!Seats -> Nat]
    <3>1. c2.max_bids = c.max_bids BY <2>3 DEF Auctions
    <3>2. View!Out(c2.state) = View!Out(b) \cup {Turn(e)} /\ Turn(e) \notin View!Out(b)
      <4>1. e.hearer \in {0, 1} /\ (e.stage = 1 => e.hearer = 0) /\ b.winner = View!NoOne
        BY <1>2 DEF AuctionAgrees, DuelsAgree
      <4>2. b.bidder = 1 /\ b.answerer = 0 /\ ~b.finished /\ Turn(e) = 0
        BY <1>3, <1>13, <2>1, <4>1 DEF Turn
      <4>3. ~c2.state.finished /\ c2.state.bidder = 2 /\ c2.state.answerer = 1
        BY <1>3, <2>2, <2>3, <4>1, <4>2 DEF Auctions, Biddings
      <4>4. View!Out(b) = {}
        BY <4>1, <4>2 DEF View!Out, View!Seats
      <4>5. View!Out(c2.state) = {0}
        BY <4>1, <4>3 DEF View!Out, View!Seats, View!NoOne
      <4> QED BY <4>1, <4>2, <4>4, <4>5 DEF View!Seats
    <3> QED BY <1>5, <2>6, <3>1, <3>2
  <2>4. v2 = [v EXCEPT !.max_bids = View!Accepted(c2), !.phase = "BID", !.bidder = 2, !.asked = 1, !.to_move = 2]
    BY <1>3, <1>6, <1>13, <2>1, <2>20 DEF View!Asks
  <2>5. e2 \in Games
    <3>1. 2 \in 1..2 OBVIOUS
    <3> QED BY <1>2, <2>2, <3>1 DEF Games
  <2>7. v2 \in Views BY <1>2, <2>4, <2>20 DEF Views
  <2>8. SameTable(e, e2) /\ SameTricks(v, v2) BY <2>2, <2>4 DEF SameTable, SameTricks, Games, Views
  <2>9. DuelsAgree(e2, c2.state, c2.max_bids)
    <3>1. /\ e2.phase = "bid" /\ e2.stage = 2 /\ e2.hearer = 1 /\ e2.cur = e.cur /\ e2.cut = e.cut
          /\ e2.declarer = e.declarer
      BY <2>2 DEF Games
    <3>2. /\ c2.state.bidder = 2 /\ c2.state.answerer = 1 /\ c2.state.offer = e.cur + 1
          /\ c2.state.bidder_turn /\ c2.state.finished = b.finished /\ c2.state.winner = b.winner
          /\ c2.max_bids = c.max_bids
      BY <2>3 DEF Auctions, Biddings
    <3> QED BY <1>3, <2>1, <3>1, <3>2 DEF DuelsAgree, AuctionAgrees, View!Announcer
  <2>10. ViewBids(e2, c2.state, c2, v2)
    BY <1>2, <1>3, <1>13, <2>1, <2>2, <2>3, <2>4, <2>20
    DEF ViewBids, AuctionAgrees, Games, Auctions, Biddings, Views, View!Announcer, Turn
  <2> QED BY <2>5, <2>6, <2>7, <2>8, <2>9, <2>10 DEF AuctionAgrees
<1>14. CASE e.phase = "hold" /\ e.stage = 2
  <2>1. View!Announcer(e) = 2 /\ c.max_bids[2] = e.cur
    BY <1>14 DEF AuctionAgrees, DuelsAgree, View!Announcer
  <2>2. e2 = [e EXCEPT !.phase = "pick", !.declarer = 2]
    BY <1>8, <1>14, <2>1 DEF View!Bidding, View!DuelWonBy
  <2>3. c2 = [c EXCEPT !.state = [b EXCEPT !.finished = TRUE, !.winner = 2, !.winning_bid = e.cur]]
    BY <1>3, <1>4, <1>14, <2>1 DEF View!apply, View!AnswererPasses, View!Won
  <2>6. c2 \in Auctions BY <1>2, <2>3 DEF Auctions, Biddings
  <2>20. p = [v EXCEPT !.max_bids = View!Accepted(c2)] /\ View!Accepted(c2) \in [View!Seats -> Nat]
    <3>1. c2.max_bids = c.max_bids BY <2>3 DEF Auctions
    <3>2. View!Out(c2.state) = View!Out(b) \cup {Turn(e)} /\ Turn(e) \notin View!Out(b)
      <4>1. e.hearer \in {0, 1} /\ (e.stage = 1 => e.hearer = 0) /\ b.winner = View!NoOne
        BY <1>2 DEF AuctionAgrees, DuelsAgree
      <4>2. b.bidder = 2 /\ b.answerer = e.hearer /\ ~b.finished /\ Turn(e) = e.hearer
        BY <1>3, <1>14, <2>1, <4>1 DEF Turn
      <4>3. c2.state.finished /\ c2.state.winner = 2
        BY <1>3, <2>3, <4>1, <4>2 DEF Auctions, Biddings
      <4>4. View!Out(b) = View!Seats \ {2, e.hearer}
        BY <4>1, <4>2 DEF View!Out, View!Seats
      <4>5. View!Out(c2.state) = {0, 1}
        BY <4>1, <4>3 DEF View!Out, View!Seats, View!NoOne
      <4> QED BY <4>1, <4>2, <4>4, <4>5 DEF View!Seats
    <3> QED BY <1>5, <2>6, <3>1, <3>2
  <2>4. v2 = [v EXCEPT !.max_bids = View!Accepted(c2), !.phase = "SKAT_OR_HAND_DECL", !.declarer = 2, !.to_move = 2]
    BY <1>3, <1>6, <1>14, <2>1, <2>20 DEF View!ToDeclare
  <2>5. e2 \in Games BY <1>2, <2>2 DEF Games
  <2>7. v2 \in Views BY <1>2, <2>4, <2>20 DEF Views
  <2>8. SameTable(e, e2) /\ SameTricks(v, v2) BY <2>2, <2>4 DEF SameTable, SameTricks, Games, Views
  <2>9. Declarer(e2, c2, v2)
    <3>1. c2.state.finished /\ c2.state.winner \in View!Seats /\ c2.state.winning_bid = e.cur
          /\ c2.max_bids[c2.state.winner] = e.cur
      BY <1>2, <2>2, <2>3, <2>1 DEF Auctions, Biddings
    <3>2. View!Accepted(c2)[c2.state.winner] = View!Value(e.cur) BY <2>6, <3>1, WinnerHas
    <3> QED BY <1>2, <1>3, <2>1, <2>2, <2>3, <2>4, <2>20, <3>1, <3>2
            DEF Declarer, WinnerAgrees, Games, Auctions, Biddings, Views
  <2> QED BY <2>5, <2>6, <2>7, <2>8, <2>9
<1> QED
  <2>1. e.phase \in {"bid", "hold", "solo"} BY DEF AuctionAgrees, DuelsAgree
  <2>2. e.stage = 1 \/ e.stage = 2 BY <1>2
  <2>3. e.cur > 0 \/ e.cur = 0 BY <1>2
  <2> QED BY <1>9, <1>10, <1>11, <1>12, <1>13, <1>14, <2>1, <2>2, <2>3

\* A greatest element is the maximum.
LEMMA MaxOf ==
  ASSUME NEW X \in SUBSET Nat, NEW x \in X, \A y \in X : y <= x
  PROVE  View!Max(X) = x
<1>1. \E y \in X : \A z \in X : y >= z BY SMT
<1>2. View!Max(X) \in X /\ \A z \in X : View!Max(X) >= z BY <1>1 DEF View!Max
<1>3. View!Max(X) >= x /\ View!Max(X) <= x /\ View!Max(X) \in Nat /\ x \in Nat BY <1>2
<1> QED BY <1>3, SMT

\* What has a bound has a greatest element.
LEMMA MaxIn ==
  ASSUME NEW n \in Nat, NEW X \in SUBSET (1..n), X # {}
  PROVE  View!Max(X) \in X
<1> DEFINE T == {n - x : x \in X}
<1>1. T \subseteq Nat /\ T # {}
  <2>1. PICK y : y \in X OBVIOUS
  <2>2. n - y \in T BY <2>1
  <2>3. \A x \in X : n - x \in Nat OBVIOUS
  <2> QED BY <2>2, <2>3
<1>2. PICK d \in T : \A y \in T : d <= y BY <1>1, LeastOf
<1>3. PICK x \in X : d = n - x BY <1>2
<1>4. ASSUME NEW y \in X PROVE y <= x
  <2>1. d <= n - y BY <1>2
  <2>2. y \in Int /\ x \in Int
    <3> HIDE DEF T
    <3> QED OBVIOUS
  <2> QED BY <1>3, <2>1, <2>2
<1>5. X \in SUBSET Nat OBVIOUS
<1> QED BY <1>3, <1>4, <1>5, MaxOf

\* The size of a set, as the view counts it.
LEMMA SizeIs ==
  ASSUME NEW S
  PROVE  View!Cardinality(S) = Cardinality(S)
BY DEF View!Cardinality, Cardinality

CardsPlayed(s) == {i \in View!Ours("cardplay") : moves[i].by = s}
Cards(s) == Cardinality(CardsPlayed(s))

\* What a move adds to the list.
LEMMA OursGrow ==
  ASSUME moves \in Seq(Moves), NEW m \in Moves, View!Adds(m), NEW k \in Kinds
  PROVE  /\ View!Ours(k) \in SUBSET (1..Len(moves))
         /\ View!Ours(k)' = IF m.kind = k THEN View!Ours(k) \cup {Len(moves) + 1} ELSE View!Ours(k)
         /\ \A i \in View!Ours(k) : moves'[i] = moves[i]
         /\ moves'[Len(moves) + 1] = m /\ Len(moves) \in Nat
<1>1. /\ Len(moves) \in Nat /\ DOMAIN moves = 1..Len(moves)
      /\ moves' = Append(moves, m) /\ Len(moves') = Len(moves) + 1
      /\ DOMAIN moves' = 1..(Len(moves) + 1) /\ moves'[Len(moves) + 1] = m
      /\ \A i \in 1..Len(moves) : moves'[i] = moves[i]
  BY DEF View!Adds
<1>2. View!Ours(k)' = {i \in DOMAIN moves' : moves'[i].kind = k} BY DEF View!Ours
<1>3. View!Ours(k) = {i \in DOMAIN moves : moves[i].kind = k} BY DEF View!Ours
<1>4. 1..(Len(moves) + 1) = (1..Len(moves)) \cup {Len(moves) + 1} BY <1>1
<1>5. Len(moves) + 1 \notin 1..Len(moves) BY <1>1
<1> HIDE DEF View!Ours
<1> QED BY <1>1, <1>2, <1>3, <1>4, <1>5

\* What the list holds after a move.
LEMMA ListGrows ==
  ASSUME moves \in Seq(Moves), NEW m \in Moves, View!Adds(m)
  PROVE  /\ moves' \in Seq(Moves)
         /\ \A k \in Kinds : View!Has(k)' <=> (View!Has(k) \/ m.kind = k)
         /\ \A k \in Kinds : m.kind = k => View!Latest(k)' = m
         /\ \A k \in Kinds : m.kind # k /\ View!Has(k) => View!Latest(k)' = View!Latest(k)
         /\ m.kind = "resign" => View!resigned_players' = View!resigned_players \cup {m.by}
         /\ m.kind # "resign" => View!resigned_players' = View!resigned_players
         /\ \A s \in View!Seats : Cards(s) \in Nat
         /\ \A s \in View!Seats : m.kind = "cardplay" /\ m.by = s => Cards(s)' = Cards(s) + 1
         /\ \A s \in View!Seats : ~(m.kind = "cardplay" /\ m.by = s) => Cards(s)' = Cards(s)
<1>1. moves' \in Seq(Moves) BY DEF View!Adds
<1>2. ASSUME NEW k \in Kinds PROVE View!Has(k)' <=> (View!Has(k) \/ m.kind = k)
  BY OursGrow DEF View!Has
<1>3. ASSUME NEW k \in Kinds, m.kind = k PROVE View!Latest(k)' = m
  <2>1. View!Ours(k)' = View!Ours(k) \cup {Len(moves) + 1} BY <1>3, OursGrow
  <2>2. /\ View!Ours(k)' \in SUBSET Nat /\ Len(moves) + 1 \in View!Ours(k)'
        /\ \A y \in View!Ours(k)' : y <= Len(moves) + 1
    <3>1. Len(moves) \in Nat /\ View!Ours(k) \in SUBSET (1..Len(moves)) BY OursGrow
    <3> QED BY <2>1, <3>1
  <2>3. View!Max(View!Ours(k)') = Len(moves) + 1 BY <2>2, MaxOf
  <2> QED BY <2>3, OursGrow DEF View!Latest
<1>4. ASSUME NEW k \in Kinds, m.kind # k, View!Has(k) PROVE View!Latest(k)' = View!Latest(k)
  <2>1. View!Ours(k)' = View!Ours(k) BY <1>4, OursGrow
  <2>2. View!Max(View!Ours(k)) \in View!Ours(k) BY <1>4, OursGrow, MaxIn DEF View!Has
  <2> QED BY <2>1, <2>2, OursGrow DEF View!Latest
<1>5. "resign" \in Kinds /\ "cardplay" \in Kinds BY DEF Kinds
<1>6. ASSUME m.kind = "resign" PROVE View!resigned_players' = View!resigned_players \cup {m.by}
  <2>1. View!Ours("resign")' = View!Ours("resign") \cup {Len(moves) + 1} BY <1>5, <1>6, OursGrow
  <2>2. /\ \A i \in View!Ours("resign") : moves'[i] = moves[i]
        /\ moves'[Len(moves) + 1] = m
    BY <1>5, OursGrow
  <2> QED BY <2>1, <2>2 DEF View!resigned_players
<1>7. ASSUME m.kind # "resign" PROVE View!resigned_players' = View!resigned_players
  <2>1. View!Ours("resign")' = View!Ours("resign") /\ \A i \in View!Ours("resign") : moves'[i] = moves[i]
    BY <1>5, <1>7, OursGrow
  <2> QED BY <2>1 DEF View!resigned_players
<1>8. ASSUME NEW s \in View!Seats
      PROVE  /\ Cards(s) \in Nat
             /\ m.kind = "cardplay" /\ m.by = s => Cards(s)' = Cards(s) + 1
             /\ ~(m.kind = "cardplay" /\ m.by = s) => Cards(s)' = Cards(s)
  <2>1. /\ View!Ours("cardplay") \in SUBSET (1..Len(moves)) /\ Len(moves) \in Nat
        /\ View!Ours("cardplay")' = IF m.kind = "cardplay" THEN View!Ours("cardplay") \cup {Len(moves) + 1}
                               ELSE View!Ours("cardplay")
        /\ \A i \in View!Ours("cardplay") : moves'[i] = moves[i]
        /\ moves'[Len(moves) + 1] = m
    BY <1>5, OursGrow
  <2>2. IsFiniteSet(CardsPlayed(s))
    <3>1. CardsPlayed(s) \in SUBSET (1..Len(moves)) BY <2>1 DEF CardsPlayed
    <3>2. IsFiniteSet(1..Len(moves)) BY <2>1, FS_Interval, 1 \in Int, Len(moves) \in Int
    <3> QED BY <3>1, <3>2, FS_Subset
  <2>3. Len(moves) + 1 \notin CardsPlayed(s)
    <3>1. Len(moves) + 1 \notin 1..Len(moves) BY <2>1
    <3> QED BY <2>1, <3>1 DEF CardsPlayed
  <2>4. CardsPlayed(s)' = {i \in View!Ours("cardplay")' : moves'[i].by = s} BY DEF CardsPlayed
  <2>5. CASE m.kind = "cardplay" /\ m.by = s
    <3>1. CardsPlayed(s)' = CardsPlayed(s) \cup {Len(moves) + 1} BY <2>1, <2>4, <2>5 DEF CardsPlayed
    <3> QED BY <2>2, <2>3, <2>5, <3>1, FS_AddElement, FS_CardinalityType DEF Cards
  <2>6. CASE ~(m.kind = "cardplay" /\ m.by = s)
    <3>1. CardsPlayed(s)' = CardsPlayed(s) BY <2>1, <2>4, <2>6 DEF CardsPlayed
    <3> QED BY <2>2, <2>6, <3>1, FS_CardinalityType DEF Cards
  <2> QED BY <2>5, <2>6
<1> QED BY <1>1, <1>2, <1>3, <1>4, <1>6, <1>7, <1>8

\* What it adds to the replays.
LEMMA ReplaysGrow ==
  ASSUME moves \in Seq(Moves), NEW m \in Moves, View!Adds(m)
  PROVE  /\ View!_auction_context' = View!AuctionMove(View!_auction_context, m)
         /\ View!replay_tricks' = View!TrickMove(View!replay_tricks, m)
         /\ View!replay_player_view' = View!ViewMove(View!replay_player_view, m)
<1>1. moves' = Append(moves, m) BY DEF View!Adds
<1>2. /\ View!Replay("auction", moves') = View!Step("auction", View!Replay("auction", moves), m)
      /\ View!Replay("tricks", moves') = View!Step("tricks", View!Replay("tricks", moves), m)
      /\ View!Replay("view", moves') = View!Step("view", View!Replay("view", moves), m)
  BY <1>1, ReplayGrows
<1> QED BY <1>2 DEF View!_auction_context, View!replay_tricks, View!replay_player_view, View!Step

Bidders == {"bid", "hold", "solo"}
AtTable == {"pick", "skat", "declare", "discard", "play"}

\* The view after the auction.
TableAgrees(e, v) ==
    /\ e.phase = "pick" => v.phase = "SKAT_OR_HAND_DECL"
    /\ e.phase = "skat" => v.phase = "GET_SKAT"
    /\ e.phase \in {"declare", "discard"} => v.phase = "DISCARD_AND_DECL"
    /\ e.phase = "play" => v.phase = "CARDPLAY"
    /\ v.to_move = (CASE e.phase = "skat" -> View!NoOne
                      [] e.phase = "play" -> e.turn
                      [] OTHER            -> e.declarer)
    /\ e.phase = "discard" => v.half
    /\ e.phase \in {"discard", "play"} => v.contract = e.contract /\ e.contract \in View!Contracts

\* The tricks, as both replay them, and who has resigned.
TricksAgree(e, t, v) ==
    /\ t = v.trick /\ t.n = e.played /\ t.actor = e.turn /\ ~t.wrong
    /\ v.resigned = e.resigned
    /\ e.phase # "play" => e.played = 0 /\ e.turn = 0 /\ e.resigned = {}
    /\ e.phase = "play" => /\ e.played < 3 * Tricks
                           /\ e.declarer \notin e.resigned
                           /\ Cardinality(e.resigned \ {e.declarer}) < 2

\* Cards of a seat: one of each trick, and one of the trick on the table.
CardsOf(e, s) ==
    e.played \div 3 + (IF ((s + 3 - e.turn) % 3) + (e.played % 3) >= 3 THEN 1 ELSE 0)

\* The declaration, with the discard in one move or in two.
HasContract(e) ==
    /\ View!Has("declaration")
    /\ View!picked_up_skat =>
          \/ View!Latest("declaration").n = View!Open(e.contract, 2)
          \/ View!Has("discard_only") /\ View!Latest("discard_only").n = View!Open(e.contract, 2)
    /\ ~View!picked_up_skat => View!Latest("declaration").n = View!Open(e.contract, 0)

\* What the list holds.
Listed(e) ==
    /\ e.phase \in Bidders \cup {"pick"} => \A k \in Kinds \ View!AuctionKinds : ~View!Has(k)
    /\ ~View!Has("timeout") /\ ~View!Has("leave")
    /\ e.phase \in {"skat", "declare"} =>
          /\ View!Has("skat_request") /\ ~View!Has("declaration") /\ ~View!Has("discard_only")
          /\ View!Has("skat_delivery") <=> e.phase = "declare"
    /\ e.phase = "discard" =>
          View!Has("skat_request") /\ View!Has("declaration") /\ ~View!Has("discard_only") /\ View!Latest("declaration").n = 0
    /\ e.phase = "play" => HasContract(e)
    /\ e.phase \in {"discard", "play"} =>
          View!Latest("declaration").by = e.declarer /\ View!Latest("declaration").val = e.contract
    /\ View!resigned_players = e.resigned
    /\ \A s \in View!Seats : Cards(s) = CardsOf(e, s)

\* A game that is over, and whose auction was not cut short.
Settled(c, t, v) ==
    /\ c.state.finished /\ ~c.raised /\ ~v.raised
    /\ v.to_move = View!NoOne /\ v.max_bids = View!Accepted(c)
    /\ v.declarer # View!NoOne =>
          /\ v.declarer = c.state.winner /\ v.max_bid = View!Value(c.state.winning_bid)
          /\ v.max_bid = v.max_bids[v.declarer]
    /\ \/ c.state.winner = View!NoOne
       \/ View!terminal
       \/ View!_declaration_complete /\ ~t.wrong /\ \A s \in View!Seats : Cards(s) = Tricks

Typed(e, c, t, v) ==
    moves \in Seq(Moves) /\ e \in Games /\ c \in Auctions /\ t \in TrickStates /\ v \in Views

Agreed(e, c, t, v) ==
    /\ e.cut => e.phase = "over"
    /\ ~e.cut =>
        /\ e.phase \in Bidders => AuctionAgrees(e, c, v)
        /\ e.phase \in AtTable => WinnerAgrees(e, c, v) /\ TableAgrees(e, v)
        /\ e.phase # "over" => TricksAgree(e, t, v) /\ Listed(e)
        /\ e.phase = "over" => Settled(c, t, v)

ViewInv ==
    /\ Typed(server, View!_auction_context, View!replay_tricks, View!replay_player_view)
    /\ Agreed(server, View!_auction_context, View!replay_tricks, View!replay_player_view)

-----------------------------------------------------------------------------

\* After the auction the bridge has it as it was.
LEMMA AuctionStays ==
  ASSUME NEW c \in Auctions, NEW m, m.kind \notin View!AuctionKinds
  PROVE  /\ View!AuctionMove(c, m) \in Auctions
         /\ View!AuctionMove(c, m).state = c.state /\ View!AuctionMove(c, m).max_bids = c.max_bids
         /\ View!AuctionMove(c, m).raised = c.raised
<1>1. CASE c.frozen \/ c.raised
  BY <1>1 DEF View!AuctionMove
<1>2. CASE ~c.frozen /\ ~c.raised
  <2>1. View!AuctionMove(c, m) = [c EXCEPT !.frozen = TRUE] BY <1>2 DEF View!AuctionMove
  <2> QED BY <2>1 DEF Auctions
<1> QED BY <1>1, <1>2 DEF Auctions

\* Only a card changes the tricks.
LEMMA TricksStay ==
  ASSUME NEW t, NEW m, m.kind # "cardplay"
  PROVE  View!TrickMove(t, m) = t
BY DEF View!TrickMove

\* A game just dealt is agreed on.
LEMMA ViewStarts ==
  ASSUME View!ViewInit PROVE ViewInv
<1> DEFINE c == View!_auction_context
           t == View!replay_tricks
           v == View!replay_player_view
<1>1. moves = << >> /\ moves \in Seq(Moves) BY DEF View!ViewInit
<1>2. /\ server \in Games /\ server.phase = "bid" /\ server.stage = 1 /\ server.hearer = 0
      /\ server.cur = 0 /\ server.declarer = View!NoOne /\ ~server.cut /\ server.turn = 0
      /\ server.played = 0 /\ server.resigned = {}
  BY DEF View!ViewInit, View!NewAuction, Games, View!Seats, View!NoOne
<1>3. /\ c = View!Start("auction") /\ t = View!Start("tricks") /\ v = View!Start("view")
  <2>1. /\ View!Replay("auction", << >>) = View!Start("auction")
        /\ View!Replay("tricks", << >>) = View!Start("tricks")
        /\ View!Replay("view", << >>) = View!Start("view")
    <3>1. << >> \in Seq({0}) /\ 0 \in {0} OBVIOUS
    <3> QED BY <3>1, ReplayGrows
  <2> QED BY <1>1, <2>1 DEF View!_auction_context, View!replay_tricks, View!replay_player_view
<1>4. c = [state |-> View!BiddingState, max_bids |-> [s \in View!Seats |-> 0], frozen |-> FALSE, raised |-> FALSE]
  BY <1>3 DEF View!Start
<1>5. t = View!NoTrick BY <1>3 DEF View!Start
<1>6. v = [phase |-> "BID", to_move |-> 1, bidder |-> 1, asked |-> 0, max_bid |-> 0,
           max_bids |-> [s \in View!Seats |-> 0], declarer |-> View!NoOne, contract |-> "none",
           half |-> FALSE, trick |-> View!NoTrick, resigned |-> {}, raised |-> FALSE]
  BY <1>3 DEF View!Start
<1>7. \A k \in Kinds : ~View!Has(k) BY <1>1 DEF View!Has, View!Ours
<1>8. View!resigned_players = {} BY <1>1 DEF View!resigned_players, View!Ours
<1>9. \A s \in View!Seats : Cards(s) = 0
  <2>1. \A s \in View!Seats : CardsPlayed(s) = {} BY <1>1 DEF CardsPlayed, View!Ours
  <2> QED BY <2>1, FS_EmptySet DEF Cards
<1> HIDE DEF c, t, v
<1>10. c \in Auctions BY <1>4 DEF Auctions, Biddings, View!BiddingState, View!Seats, View!NoOne
<1>11. t \in TrickStates BY <1>5 DEF TrickStates, View!NoTrick, View!Seats
<1>12. v \in Views BY <1>5, <1>6, <1>11 DEF Views, View!Seats, View!NoOne
<1>13. AuctionAgrees(server, c, v)
  <2>1. DuelsAgree(server, c.state, c.max_bids)
    BY <1>2, <1>4, ViewAssumption DEF DuelsAgree, View!BiddingState, View!Announcer
  <2>3. v.max_bids = View!Accepted(c) /\ v.max_bid = View!Value(server.cur)
    <3>1. View!Out(c.state) = {}
      <4>1. c.state.bidder = 1 /\ c.state.answerer = 0 /\ ~c.state.finished
        BY <1>4 DEF View!BiddingState
      <4> QED BY <4>1 DEF View!Out
    <3>2. \A s \in View!Seats : c.max_bids[s] = 0 BY <1>4
    <3>3. View!Value(0) = 0 BY ValueIs, 0 \in Nat
    <3>4. View!Accepted(c) = [s \in View!Seats |-> 0] BY <3>1, <3>2, <3>3 DEF View!Accepted
    <3> QED BY <1>2, <1>6, <3>3, <3>4
  <2>2. ViewBids(server, c.state, c, v)
    BY <1>2, <1>4, <1>6, <2>3 DEF ViewBids, View!BiddingState, View!Announcer, Turn
  <2> QED BY <2>1, <2>2 DEF AuctionAgrees
<1>14. TricksAgree(server, t, v) BY <1>2, <1>5, <1>6 DEF TricksAgree, View!NoTrick
<1>15. Listed(server)
  <2>1. "timeout" \in Kinds /\ "leave" \in Kinds BY DEF Kinds
  <2>2. \A s \in View!Seats : CardsOf(server, s) = 0
    <3>1. TAKE s \in View!Seats
    <3>2. server.played \div 3 = 0 /\ server.played % 3 = 0 BY <1>2
    <3>3. s = 0 \/ s = 1 \/ s = 2 BY DEF View!Seats
    <3>4. (s + 3 - server.turn) % 3 < 3 BY <1>2, <3>3
    <3> QED BY <3>2, <3>4, <3>3, <1>2, SMT DEF CardsOf
  <2> QED BY <1>2, <1>7, <1>8, <1>9, <2>1, <2>2 DEF Listed
<1> QED
  <2>1. server.phase \in Bidders /\ server.phase \notin AtTable /\ server.phase # "over"
    BY <1>2 DEF Bidders, AtTable
  <2> QED BY <1>1, <1>2, <1>10, <1>11, <1>12, <1>13, <1>14, <1>15, <2>1 DEF ViewInv, Typed, Agreed, c, t, v

\* Where the three agree, exactly the one on turn is asked.
LEMMA ViewIsAgreed ==
  ASSUME ViewInv PROVE View!TurnsAreAgreed
<1> DEFINE c == View!_auction_context
           t == View!replay_tricks
           v == View!replay_player_view
           e == server
           b == c.state
           asked(s) == View!next_decision(c, t, s)
<1>1. Typed(e, c, t, v) /\ Agreed(e, c, t, v) BY DEF ViewInv
<1> HIDE DEF c, t, v
<1>2. SUFFICES ASSUME ~e.cut
      PROVE  /\ \A s \in View!Seats : asked(s) # "None" <=> (View!ServerAsks = s)
             /\ View!InAuction => b.offer = IF e.phase = "hold" THEN e.cur ELSE e.cur + 1
             /\ ~v.raised
             /\ \A s \in View!Seats : asked(s) = IF v.to_move = s THEN v.phase ELSE "None"
             /\ v.max_bids = View!Accepted(c)
             /\ v.declarer # View!NoOne =>
                   /\ v.declarer = b.winner /\ v.max_bid = View!Value(b.winning_bid)
                   /\ v.max_bid = v.max_bids[v.declarer]
  BY DEF View!TurnsAreAgreed, c, t, v
<1>3. e \in Games /\ c \in Auctions /\ v \in Views BY <1>1 DEF Typed
<1>4. View!NoOne \notin View!Seats BY DEF View!NoOne, View!Seats
<1>5. CASE e.phase \in Bidders
  <2>1. AuctionAgrees(e, c, v) BY <1>1, <1>2, <1>5 DEF Agreed
  <2>2. View!InAuction /\ View!ServerAsks = Turn(e) BY <1>5 DEF View!InAuction, View!ServerAsks, Turn, Bidders
  <2>3. ~b.finished /\ ~c.raised /\ b.bidder_turn <=> e.phase # "hold"
    BY <2>1 DEF AuctionAgrees, DuelsAgree, ViewBids
  <2>4. ~b.finished /\ ~c.raised BY <2>1 DEF AuctionAgrees, DuelsAgree, ViewBids
  <2>5. View!expected_actor(b) = Turn(e)
    BY <1>5, <2>1 DEF AuctionAgrees, DuelsAgree, View!expected_actor, Turn, View!Announcer
  <2>6. \A s \in View!Seats : asked(s) = IF Turn(e) = s THEN IF b.bidder_turn THEN "BID" ELSE "ANSWER" ELSE "None"
    BY <2>4, <2>5 DEF View!next_decision
  <2>7. v.to_move = Turn(e) /\ v.phase = IF b.bidder_turn THEN "BID" ELSE "ANSWER"
    BY <2>1 DEF AuctionAgrees, DuelsAgree, ViewBids
  <2>8. ~v.raised /\ v.max_bids = View!Accepted(c) /\ v.declarer = View!NoOne
    BY <2>1 DEF AuctionAgrees, ViewBids
  <2>9. b.offer = IF e.phase = "hold" THEN e.cur ELSE e.cur + 1
    BY <2>1 DEF AuctionAgrees, DuelsAgree
  <2> HIDE DEF asked, e, b
  <2> QED BY <2>2, <2>6, <2>7, <2>8, <2>9
<1>6. CASE e.phase \in AtTable
  <2>1. WinnerAgrees(e, c, v) /\ TableAgrees(e, v) /\ TricksAgree(e, t, v) /\ Listed(e)
    BY <1>1, <1>2, <1>6 DEF Agreed, AtTable
  <2>2. ~View!InAuction BY <1>6 DEF View!InAuction, AtTable
  <2>3. b.finished /\ ~c.raised /\ b.winner = e.declarer /\ b.winner # View!NoOne /\ e.declarer \in View!Seats
    BY <1>4, <2>1 DEF WinnerAgrees
  <2>4. View!ServerAsks = v.to_move
    BY <1>6, <2>1, <2>2 DEF View!ServerAsks, TableAgrees, AtTable
  <2>5. ~View!Has("timeout") /\ ~View!Has("leave") BY <2>1 DEF Listed
  <2>6. ~View!terminal
    <3>1. CASE e.phase \in {"pick", "skat", "declare"}
      <4>1. ~View!Has("declaration")
        BY <2>1, <3>1 DEF Listed, Kinds, View!AuctionKinds
      <4> QED BY <2>5, <4>1 DEF View!terminal
    <3>2. CASE e.phase \in {"discard", "play"}
      <4>1. View!Latest("declaration").by = e.declarer /\ View!resigned_players = e.resigned
        BY <2>1, <3>2 DEF Listed
      <4>2. e.declarer \notin e.resigned /\ ~(Cardinality(e.resigned \ {e.declarer}) >= 2)
        <5>1. CASE e.phase = "play"
          <6>1. e.declarer \notin e.resigned /\ Cardinality(e.resigned \ {e.declarer}) < 2
            BY <2>1, <5>1 DEF TricksAgree
          <6>2. Cardinality(e.resigned \ {e.declarer}) \in Nat
            <7>1. IsFiniteSet(View!Seats) BY FS_Interval, 0 \in Int, 2 \in Int DEF View!Seats
            <7>2. e.resigned \ {e.declarer} \in SUBSET View!Seats BY <1>3 DEF Games
            <7> QED BY <7>1, <7>2, FS_Subset, FS_CardinalityType
          <6> QED BY <6>1, <6>2
        <5>2. CASE e.phase = "discard"
          <6>1. e.resigned = {} /\ e.resigned \ {e.declarer} = {} BY <2>1, <5>2 DEF TricksAgree
          <6> QED BY <6>1, FS_EmptySet
        <5> QED BY <3>2, <5>1, <5>2
      <4> QED BY <2>5, <4>1, <4>2, SizeIs DEF View!terminal
    <3> QED BY <1>6, <3>1, <3>2 DEF AtTable
  <2>7. \A s \in View!Seats : asked(s) = IF View!_declaration_complete THEN View!cardplay(t, e.declarer, s)
                                    ELSE IF s = e.declarer THEN View!SkatAction ELSE "None"
    BY <2>3, <2>6 DEF View!next_decision
  <2>8. /\ ~v.raised /\ v.max_bids = View!Accepted(c) /\ v.declarer = e.declarer
        /\ v.max_bid = View!Value(b.winning_bid) /\ v.max_bid = v.max_bids[e.declarer]
    BY <2>1 DEF WinnerAgrees
  <2>9. ASSUME NEW s \in View!Seats
        PROVE  asked(s) = IF v.to_move = s THEN v.phase ELSE "None"
    <3>1. CASE e.phase = "pick"
      <4>1. ~View!Has("declaration") /\ ~View!Has("skat_request") BY <2>1, <3>1 DEF Listed, Kinds, View!AuctionKinds
      <4>2. ~View!_declaration_complete /\ View!SkatAction = "SKAT_OR_HAND_DECL"
        BY <4>1 DEF View!_declaration_complete, View!SkatAction, View!picked_up_skat
      <4> QED BY <2>1, <2>7, <3>1, <4>2 DEF TableAgrees
    <3>2. CASE e.phase = "skat"
      <4>1. ~View!Has("declaration") /\ View!Has("skat_request") /\ ~View!Has("skat_delivery") BY <2>1, <3>2 DEF Listed
      <4>2. ~View!_declaration_complete /\ View!SkatAction = "None"
        BY <4>1 DEF View!_declaration_complete, View!SkatAction, View!picked_up_skat
      <4> QED BY <1>4, <2>1, <2>7, <3>2, <4>2 DEF TableAgrees
    <3>3. CASE e.phase = "declare"
      <4>1. ~View!Has("declaration") /\ View!Has("skat_request") /\ View!Has("skat_delivery") BY <2>1, <3>3 DEF Listed
      <4>2. ~View!_declaration_complete /\ View!SkatAction = "DISCARD_AND_DECL"
        BY <4>1 DEF View!_declaration_complete, View!SkatAction, View!picked_up_skat
      <4> QED BY <2>1, <2>7, <3>3, <4>2 DEF TableAgrees
    <3>4. CASE e.phase = "discard"
      <4>1. /\ View!Has("declaration") /\ View!Has("skat_request") /\ ~View!Has("discard_only")
            /\ View!Latest("declaration").n = 0
        BY <2>1, <3>4 DEF Listed
      <4>2. ~View!_declaration_complete /\ View!SkatAction = "DISCARD_AND_DECL"
        BY <4>1 DEF View!_declaration_complete, View!SkatAction, View!picked_up_skat
      <4> QED BY <2>1, <2>7, <3>4, <4>2 DEF TableAgrees
    <3>5. CASE e.phase = "play"
      <4>1. HasContract(e) /\ View!Latest("declaration").val = e.contract /\ e.contract \in View!Contracts
        BY <2>1, <3>5 DEF Listed, TableAgrees
      <4>2. View!Open(e.contract, 2) = (IF e.contract = "ouvert" THEN 12 ELSE 2)
            /\ View!Open(e.contract, 0) = (IF e.contract = "ouvert" THEN 10 ELSE 0)
        BY DEF View!Open
      <4>3. View!_declaration_complete BY <4>1, <4>2 DEF View!_declaration_complete, HasContract
      <4>4. e.contract = "ouvert" => View!open_hand_from_wire
        BY <4>1, <4>2 DEF View!open_hand_from_wire, HasContract
      <4>5. t.actor = e.turn /\ ~t.wrong /\ v.to_move = e.turn /\ v.phase = "CARDPLAY"
        BY <2>1, <3>5 DEF TricksAgree, TableAgrees
      <4>6. asked(s) = View!cardplay(t, e.declarer, s) BY <2>7, <4>3
      <4>7. CASE e.turn = s
        <5>1. Cards(s) = CardsOf(e, s) /\ e.played < 3 * Tricks /\ e.played \in Nat
          BY <1>3, <2>1, <3>5 DEF Listed, TricksAgree, Games
        <5>2. CardsOf(e, s) = e.played \div 3
          <6>1. (s + 3 - e.turn) % 3 = 0 BY <4>7 DEF View!Seats
          <6>2. e.played % 3 < 3 BY <5>1
          <6> QED BY <6>1, <6>2, <5>1 DEF CardsOf
        <5>3. Cards(s) < Tricks
          BY <5>1, <5>2, ViewAssumption
        <5>4. Cardinality({i \in View!Ours("cardplay") : moves[i].by = s}) < Tricks
          BY <5>3 DEF Cards, CardsPlayed
        <5>5. Cardinality({i \in View!Ours("cardplay") : moves[i].by = s}) # Tricks
          <6> HIDE DEF View!Ours
          <6> DEFINE own == Cardinality({i \in View!Ours("cardplay") : moves[i].by = s})
          <6>1. own \in Int BY <5>1, <5>2 DEF Cards, CardsPlayed
          <6> QED BY <5>4, <6>1, ViewAssumption
        <5>6. View!cardplay(t, e.declarer, s) = "CARDPLAY"
          BY <4>1, <4>4, <4>5, <4>7, <5>4, <5>5, SizeIs DEF View!cardplay
        <5> QED BY <4>5, <4>6, <4>7, <5>6
      <4>8. CASE e.turn # s
        <5>1. View!cardplay(t, e.declarer, s) = "None" BY <4>5, <4>8 DEF View!cardplay
        <5> QED BY <4>5, <4>6, <4>8, <5>1
      <4> QED BY <4>7, <4>8
    <3> QED BY <1>6, <3>1, <3>2, <3>3, <3>4, <3>5 DEF AtTable
  <2>10. v.to_move \in View!Seats => v.phase # "None"
    BY <1>3 DEF Views
  <2> HIDE DEF asked, e, b
  <2> QED BY <2>2, <2>3, <2>4, <2>8, <2>9, <2>10
<1>7. CASE e.phase = "over"
  <2>1. Settled(c, t, v) BY <1>1, <1>2, <1>7 DEF Agreed
  <2>2. ~View!InAuction /\ View!ServerAsks = View!NoOne BY <1>7 DEF View!InAuction, View!ServerAsks
  <2>3. ASSUME NEW s \in View!Seats PROVE asked(s) = "None"
    <3>1. CASE b.winner = View!NoOne \/ View!terminal
      BY <2>1, <3>1 DEF Settled, View!next_decision
    <3>2. CASE b.winner # View!NoOne /\ ~View!terminal
      <4>1. View!_declaration_complete /\ ~t.wrong /\ Cards(s) = Tricks BY <2>1, <3>2 DEF Settled
      <4>2. asked(s) = View!cardplay(t, b.winner, s) BY <2>1, <3>2, <4>1 DEF Settled, View!next_decision
      <4>3. View!cardplay(t, b.winner, s) = "None"
        <5>1. View!Cardinality({i \in View!Ours("cardplay") : moves[i].by = s}) = Tricks /\ ~(Tricks < Tricks)
          BY <4>1, SizeIs, ViewAssumption DEF Cards, CardsPlayed
        <5> QED BY <4>1, <5>1, Zenon DEF View!cardplay
      <4> QED BY <4>2, <4>3
    <3> QED BY <3>1, <3>2
  <2>4. /\ ~v.raised /\ v.to_move = View!NoOne /\ v.max_bids = View!Accepted(c)
        /\ v.declarer # View!NoOne => /\ v.declarer = b.winner /\ v.max_bid = View!Value(b.winning_bid)
                                 /\ v.max_bid = v.max_bids[v.declarer]
    BY <2>1 DEF Settled
  <2> HIDE DEF asked, e, b
  <2>5. \A s \in View!Seats : View!ServerAsks # s /\ v.to_move # s BY <1>4, <2>2, <2>4
  <2>6. \A s \in View!Seats : asked(s) = (IF v.to_move = s THEN v.phase ELSE "None") BY <2>3, <2>5
  <2>7. \A s \in View!Seats : (asked(s) # "None") <=> (View!ServerAsks = s) BY <2>3, <2>5
  <2>8. View!InAuction => b.offer = IF e.phase = "hold" THEN e.cur ELSE e.cur + 1 BY <2>2
  <2> QED BY <2>4, <2>6, <2>7, <2>8
<1> QED BY <1>3, <1>5, <1>6, <1>7 DEF Games, Bidders, AtTable

\* What every move after the auction has in common.
LEMMA TableFacts ==
  ASSUME ViewInv, server.phase \in AtTable
  PROVE  /\ moves \in Seq(Moves) /\ server \in Games /\ ~server.cut /\ server.declarer \in View!Seats
         /\ View!_auction_context \in Auctions /\ View!replay_tricks \in TrickStates
         /\ View!replay_player_view \in Views
         /\ WinnerAgrees(server, View!_auction_context, View!replay_player_view)
         /\ TableAgrees(server, View!replay_player_view)
         /\ TricksAgree(server, View!replay_tricks, View!replay_player_view)
         /\ Listed(server)
         /\ ~View!replay_player_view.raised
         /\ server.phase # "over"
BY DEF ViewInv, Typed, Agreed, AtTable, WinnerAgrees

\* A move that leaves the game at the table.
LEMMA TableStep ==
  ASSUME ViewInv, server.phase \in AtTable, NEW m \in Moves, m.kind \notin View!AuctionKinds, View!Adds(m),
         server' \in Games, server'.phase \in AtTable, ~server'.cut, server'.declarer = server.declarer,
         LET v == View!replay_player_view
         IN  /\ v' \in Views /\ ~v'.raised /\ v'.declarer = v.declarer
             /\ v'.max_bid = v.max_bid /\ v'.max_bids = v.max_bids
             /\ TableAgrees(server', v'),
         View!replay_tricks' \in TrickStates,
         TricksAgree(server', View!replay_tricks', View!replay_player_view'),
         Listed(server)'
  PROVE  ViewInv'
<1> DEFINE c == View!_auction_context
           t == View!replay_tricks
           v == View!replay_player_view
<1>1. c \in Auctions /\ WinnerAgrees(server, c, v) BY TableFacts
<1>2. moves \in Seq(Moves) BY TableFacts
<1>3. c' = View!AuctionMove(c, m) /\ moves' \in Seq(Moves) BY <1>2, ReplaysGrow, ListGrows
<1> HIDE DEF c, t, v
<1>4. c' \in Auctions /\ c'.state = c.state /\ c'.max_bids = c.max_bids /\ c'.raised = c.raised
  BY <1>1, <1>3, AuctionStays
<1>5. /\ v' \in Views /\ ~v'.raised /\ v'.declarer = v.declarer
      /\ v'.max_bid = v.max_bid /\ v'.max_bids = v.max_bids
      /\ TableAgrees(server', v')
  BY DEF v
<1>8. View!Accepted(c') = View!Accepted(c) BY <1>4, AcceptedStays
<1>6. WinnerAgrees(server', c', v') BY <1>1, <1>4, <1>5, <1>8 DEF WinnerAgrees
<1>7. t' \in TrickStates /\ TricksAgree(server', t', v') BY DEF t, v
<1>9. server'.phase \notin Bidders /\ server'.phase # "over" BY DEF AtTable, Bidders
<1>10. Agreed(server, c, t, v)' BY <1>5, <1>6, <1>7, <1>9 DEF Agreed
<1>11. Typed(server, c, t, v)' BY <1>3, <1>4, <1>5, <1>7 DEF Typed
<1> QED BY <1>10, <1>11 DEF ViewInv, c, t, v

\* A move that ends it.
LEMMA LastStep ==
  ASSUME ViewInv, server.phase \in AtTable, NEW m \in Moves, m.kind \notin View!AuctionKinds, View!Adds(m),
         server' \in Games, server'.phase = "over", ~server'.cut,
         LET v == View!replay_player_view
         IN  /\ v' \in Views /\ ~v'.raised /\ v'.declarer = v.declarer
             /\ v'.max_bid = v.max_bid /\ v'.max_bids = v.max_bids
             /\ v'.to_move = View!NoOne,
         View!replay_tricks' \in TrickStates,
         \/ View!terminal'
         \/ /\ View!_declaration_complete' /\ ~View!replay_tricks'.wrong
            /\ \A s \in View!Seats : Cards(s)' = Tricks
  PROVE  ViewInv'
<1> DEFINE c == View!_auction_context
           t == View!replay_tricks
           v == View!replay_player_view
<1>1. c \in Auctions /\ WinnerAgrees(server, c, v) BY TableFacts
<1>2. moves \in Seq(Moves) BY TableFacts
<1>3. c' = View!AuctionMove(c, m) /\ moves' \in Seq(Moves) BY <1>2, ReplaysGrow, ListGrows
<1> HIDE DEF c, t, v
<1>4. c' \in Auctions /\ c'.state = c.state /\ c'.max_bids = c.max_bids /\ c'.raised = c.raised
  BY <1>1, <1>3, AuctionStays
<1>5. /\ v' \in Views /\ ~v'.raised /\ v'.declarer = v.declarer
      /\ v'.max_bid = v.max_bid /\ v'.max_bids = v.max_bids
      /\ v'.to_move = View!NoOne
  BY DEF v
<1>6. t' \in TrickStates /\ (View!terminal' \/ (View!_declaration_complete' /\ ~t'.wrong /\ \A s \in View!Seats : Cards(s)' = Tricks))
  BY DEF t
<1>11. View!Accepted(c') = View!Accepted(c) BY <1>4, AcceptedStays
<1>7. Settled(c, t, v)'
  BY <1>1, <1>4, <1>5, <1>6, <1>11 DEF Settled, WinnerAgrees
<1>8. server'.phase \notin Bidders /\ server'.phase \notin AtTable BY DEF AtTable, Bidders
<1>9. Agreed(server, c, t, v)' BY <1>7, <1>8 DEF Agreed
<1>10. Typed(server, c, t, v)' BY <1>3, <1>4, <1>5, <1>6 DEF Typed
<1> QED BY <1>9, <1>10 DEF ViewInv, c, t, v

\* Cards stay where they are, if none is played.
LEMMA CardsStay ==
  ASSUME ViewInv, server.phase \in AtTable, NEW m \in Moves, m.kind # "cardplay", View!Adds(m),
         server'.turn = server.turn, server'.played = server.played
  PROVE  /\ View!replay_tricks' = View!replay_tricks
         /\ \A s \in View!Seats : Cards(s)' = CardsOf(server, s)'
<1>1. moves \in Seq(Moves) /\ Listed(server) BY TableFacts
<1>2. \A s \in View!Seats : Cards(s)' = Cards(s) BY <1>1, ListGrows
<1>3. \A s \in View!Seats : Cards(s) = CardsOf(server, s) BY <1>1 DEF Listed
<1>4. \A s \in View!Seats : CardsOf(server, s)' = CardsOf(server, s) BY DEF CardsOf
<1>5. View!replay_tricks' = View!TrickMove(View!replay_tricks, m) BY <1>1, ReplaysGrow
<1> QED BY <1>2, <1>3, <1>4, <1>5, TricksStay

\* The declarer asks for the skat,
LEMMA TakesSkatKeeps ==
  ASSUME ViewInv, View!TakesSkat PROVE ViewInv'
<1> DEFINE m == View!Move(server.declarer, "skat_request", 0, 0)
           v == View!replay_player_view
           t == View!replay_tricks
<1>0. server.phase = "pick" /\ server' = [server EXCEPT !.phase = "skat"] /\ View!Adds(m)
  BY DEF View!TakesSkat
<1>1. server.phase \in AtTable BY <1>0 DEF AtTable
<1>2. /\ moves \in Seq(Moves) /\ server \in Games /\ ~server.cut /\ server.declarer \in View!Seats
      /\ v \in Views /\ ~v.raised /\ t \in TrickStates
      /\ TableAgrees(server, v) /\ TricksAgree(server, t, v) /\ Listed(server)
      /\ v.declarer = server.declarer
  BY <1>1, TableFacts DEF WinnerAgrees
<1>3. m \in Moves /\ m.by = server.declarer /\ m.kind = "skat_request"
  BY <1>2 DEF View!Move, Moves, Kinds, View!Seats
<1>4. m.kind \notin View!AuctionKinds /\ m.kind # "cardplay" /\ m.kind # "resign" BY <1>3 DEF View!AuctionKinds
<1> HIDE DEF m
<1>5. /\ server' \in Games /\ server'.phase = "skat" /\ server'.cut = server.cut
      /\ server'.declarer = server.declarer
      /\ server'.turn = server.turn /\ server'.played = server.played
      /\ server'.resigned = server.resigned
  BY <1>0, <1>2 DEF Games
<1>6. v' = [v EXCEPT !.phase = "GET_SKAT", !.to_move = View!NoOne]
  <2>1. v' = View!ViewMove(v, m) BY <1>0, <1>2, <1>3, ReplaysGrow
  <2>2. v.phase = "SKAT_OR_HAND_DECL" /\ v.to_move = server.declarer
    BY <1>0, <1>2 DEF TableAgrees
  <2>3. View!ViewMove(v, m) = View!DeclareMove(v, m) BY <1>2, <1>3, <2>2 DEF View!ViewMove
  <2> QED BY <1>3, <2>1, <2>3 DEF View!DeclareMove
<1>7. t' = t /\ \A s \in View!Seats : Cards(s)' = CardsOf(server, s)'
  BY <1>0, <1>1, <1>3, <1>4, <1>5, CardsStay
<1>8. Listed(server)'
  <2>1. \A k \in Kinds \ View!AuctionKinds : ~View!Has(k) BY <1>0, <1>2 DEF Listed
  <2>2. \A k \in Kinds : View!Has(k)' <=> (View!Has(k) \/ m.kind = k) BY <1>0, <1>2, <1>3, ListGrows
  <2>3. /\ View!Has("skat_request")' /\ ~View!Has("skat_delivery")' /\ ~View!Has("declaration")'
        /\ ~View!Has("discard_only")' /\ ~View!Has("timeout")' /\ ~View!Has("leave")'
    BY <1>3, <2>1, <2>2 DEF Kinds, View!AuctionKinds
  <2>4. View!resigned_players' = server'.resigned
    BY <1>0, <1>2, <1>3, <1>4, <1>5, ListGrows DEF Listed
  <2> QED BY <1>5, <1>7, <2>3, <2>4 DEF Listed, Bidders
<1> HIDE DEF v, t
<1>9. /\ v' \in Views /\ ~v'.raised /\ v'.declarer = v.declarer
      /\ v'.max_bid = v.max_bid /\ v'.max_bids = v.max_bids
      /\ TableAgrees(server', v') /\ v'.trick = v.trick /\ v'.resigned = v.resigned
  <2>1. View!NoOne \in 0..3 BY DEF View!NoOne
  <2>2. v' \in Views BY <1>2, <1>6, <2>1 DEF Views
  <2>3. v'.phase = "GET_SKAT" /\ v'.to_move = View!NoOne BY <1>2, <1>6 DEF Views
  <2>4. TableAgrees(server', v') BY <1>5, <2>3 DEF TableAgrees
  <2> QED BY <1>2, <1>6, <2>2, <2>4 DEF Views
<1>10. TricksAgree(server', t', v') BY <1>0, <1>2, <1>5, <1>7, <1>9 DEF TricksAgree
<1> QED BY <1>0, <1>1, <1>2, <1>3, <1>4, <1>5, <1>7, <1>8, <1>9, <1>10, TableStep DEF v, t, AtTable

\* is given it,
LEMMA DeliversSkatKeeps ==
  ASSUME ViewInv, View!DeliversSkat PROVE ViewInv'
<1> DEFINE m == View!Move(View!World, "skat_delivery", 0, 2)
           v == View!replay_player_view
           t == View!replay_tricks
<1>0. server.phase = "skat" /\ server' = [server EXCEPT !.phase = "declare"] /\ View!Adds(m)
  BY DEF View!DeliversSkat
<1>1. server.phase \in AtTable BY <1>0 DEF AtTable
<1>2. /\ moves \in Seq(Moves) /\ server \in Games /\ ~server.cut /\ server.declarer \in View!Seats
      /\ v \in Views /\ ~v.raised /\ t \in TrickStates
      /\ TableAgrees(server, v) /\ TricksAgree(server, t, v) /\ Listed(server)
      /\ v.declarer = server.declarer
  BY <1>1, TableFacts DEF WinnerAgrees
<1>3. m \in Moves /\ m.kind = "skat_delivery"
  BY <1>2 DEF View!Move, Moves, Kinds, View!World
<1>4. m.kind \notin View!AuctionKinds /\ m.kind # "cardplay" /\ m.kind # "resign" BY <1>3 DEF View!AuctionKinds
<1> HIDE DEF m
<1>5. /\ server' \in Games /\ server'.phase = "declare" /\ server'.cut = server.cut
      /\ server'.declarer = server.declarer
      /\ server'.turn = server.turn /\ server'.played = server.played
      /\ server'.resigned = server.resigned
  BY <1>0, <1>2 DEF Games
<1>6. v' = [v EXCEPT !.phase = "DISCARD_AND_DECL", !.to_move = server.declarer]
  <2>1. v' = View!ViewMove(v, m) BY <1>0, <1>2, <1>3, ReplaysGrow
  <2>2. v.phase = "GET_SKAT" BY <1>0, <1>2 DEF TableAgrees
  <2> QED BY <1>2, <1>3, <2>1, <2>2 DEF View!ViewMove
<1>7. t' = t /\ \A s \in View!Seats : Cards(s)' = CardsOf(server, s)'
  BY <1>0, <1>1, <1>3, <1>4, <1>5, CardsStay
<1>8. Listed(server)'
  <2>1. View!Has("skat_request") /\ ~View!Has("declaration") /\ ~View!Has("discard_only") /\ ~View!Has("timeout") /\ ~View!Has("leave")
    BY <1>0, <1>2 DEF Listed
  <2>2. \A k \in Kinds : View!Has(k)' <=> (View!Has(k) \/ m.kind = k) BY <1>0, <1>2, <1>3, ListGrows
  <2>3. /\ View!Has("skat_request")' /\ View!Has("skat_delivery")' /\ ~View!Has("declaration")'
        /\ ~View!Has("discard_only")' /\ ~View!Has("timeout")' /\ ~View!Has("leave")'
    BY <1>3, <2>1, <2>2 DEF Kinds
  <2>4. View!resigned_players' = server'.resigned
    BY <1>0, <1>2, <1>3, <1>4, <1>5, ListGrows DEF Listed
  <2> QED BY <1>5, <1>7, <2>3, <2>4 DEF Listed, Bidders
<1> HIDE DEF v, t
<1>9. /\ v' \in Views /\ ~v'.raised /\ v'.declarer = v.declarer
      /\ v'.max_bid = v.max_bid /\ v'.max_bids = v.max_bids
      /\ TableAgrees(server', v') /\ v'.trick = v.trick /\ v'.resigned = v.resigned
  <2>1. server.declarer \in 0..3 BY <1>2 DEF View!Seats
  <2>2. v' \in Views BY <1>2, <1>6, <2>1 DEF Views
  <2>3. v'.phase = "DISCARD_AND_DECL" /\ v'.to_move = server.declarer BY <1>2, <1>6 DEF Views
  <2>4. TableAgrees(server', v') BY <1>5, <2>3 DEF TableAgrees
  <2> QED BY <1>2, <1>6, <2>2, <2>4 DEF Views
<1>10. TricksAgree(server', t', v') BY <1>0, <1>2, <1>5, <1>7, <1>9 DEF TricksAgree
<1> QED BY <1>0, <1>1, <1>2, <1>3, <1>4, <1>5, <1>7, <1>8, <1>9, <1>10, TableStep DEF v, t, AtTable

\* The card play begins, once the view has it and the list has a declaration.
LEMMA PlayBegins ==
  ASSUME ViewInv, server.phase \in AtTable \ {"play"}, NEW m \in Moves, View!Adds(m),
         m.kind \in {"declaration", "discard_only"}, NEW x \in View!Contracts,
         server' = [server EXCEPT !.phase = "play", !.contract = x],
         View!replay_player_view' = View!Plays([View!replay_player_view EXCEPT !.contract = x]),
         HasContract(server)', View!Latest("declaration")'.by = server.declarer, View!Latest("declaration")'.val = x
  PROVE  ViewInv'
<1> DEFINE v == View!replay_player_view
           t == View!replay_tricks
<1>2. /\ moves \in Seq(Moves) /\ server \in Games /\ ~server.cut /\ server.declarer \in View!Seats
      /\ v \in Views /\ ~v.raised /\ t \in TrickStates
      /\ TableAgrees(server, v) /\ TricksAgree(server, t, v) /\ Listed(server)
      /\ v.declarer = server.declarer
  BY TableFacts DEF WinnerAgrees
<1>4. m.kind \notin View!AuctionKinds /\ m.kind # "cardplay" /\ m.kind # "resign" BY DEF View!AuctionKinds
<1>5. /\ server' \in Games /\ server'.phase = "play" /\ server'.cut = server.cut
      /\ server'.declarer = server.declarer /\ server'.contract = x
      /\ server'.turn = server.turn /\ server'.played = server.played
      /\ server'.resigned = server.resigned
  BY <1>2 DEF Games
<1>7. t' = t /\ \A s \in View!Seats : Cards(s)' = CardsOf(server, s)'
  BY <1>4, <1>5, CardsStay
<1>8. Listed(server)'
  <2>1. ~View!Has("timeout") /\ ~View!Has("leave") BY <1>2 DEF Listed
  <2>2. \A k \in Kinds : View!Has(k)' <=> (View!Has(k) \/ m.kind = k) BY <1>2, ListGrows
  <2>3. ~View!Has("timeout")' /\ ~View!Has("leave")' BY <2>1, <2>2 DEF Kinds
  <2>4. View!resigned_players' = server'.resigned
    BY <1>2, <1>4, <1>5, ListGrows DEF Listed
  <2> QED BY <1>5, <1>7, <2>3, <2>4 DEF Listed, Bidders
<1>3. v' = [v EXCEPT !.contract = x, !.phase = "CARDPLAY", !.to_move = 0, !.half = FALSE]
  BY <1>2 DEF View!Plays, Views
<1> HIDE DEF v, t
<1>9. /\ v' \in Views /\ ~v'.raised /\ v'.declarer = v.declarer
      /\ v'.max_bid = v.max_bid /\ v'.max_bids = v.max_bids
      /\ TableAgrees(server', v') /\ v'.trick = v.trick /\ v'.resigned = v.resigned
  <2>1. 0 \in 0..3 /\ x \in {"none"} \cup View!Contracts OBVIOUS
  <2>2. v' \in Views BY <1>2, <1>3, <2>1 DEF Views
  <2>3. v'.phase = "CARDPLAY" /\ v'.to_move = 0 /\ v'.contract = x BY <1>2, <1>3 DEF Views
  <2>4. server.turn = 0 BY <1>2 DEF TricksAgree
  <2>5. TableAgrees(server', v') BY <1>5, <2>3, <2>4 DEF TableAgrees
  <2> QED BY <1>2, <1>3, <2>2, <2>5 DEF Views
<1>10. TricksAgree(server', t', v')
  <2>1. server.played = 0 /\ server.turn = 0 /\ server.resigned = {} BY <1>2 DEF TricksAgree
  <2>2. 0 < 3 * Tricks BY ViewAssumption
  <2>3. Cardinality({} \ {server.declarer}) < 2
    <3>1. {} \ {server.declarer} = {} OBVIOUS
    <3> QED BY <3>1, FS_EmptySet
  <2> QED BY <1>2, <1>5, <1>7, <1>9, <2>1, <2>2, <2>3 DEF TricksAgree
<1> QED BY <1>2, <1>4, <1>5, <1>7, <1>8, <1>9, <1>10, TableStep DEF v, t, AtTable

\* or declares from the hand.
LEMMA DeclaresHandKeeps ==
  ASSUME ViewInv, View!DeclaresHand PROVE ViewInv'
<1> DEFINE v == View!replay_player_view
<1>0. PICK x \in View!Contracts :
         /\ server' = [server EXCEPT !.phase = "play", !.contract = x]
         /\ View!Adds(View!Move(server.declarer, "declaration", x, View!Open(x, 0)))
  BY DEF View!DeclaresHand
<1> DEFINE m == View!Move(server.declarer, "declaration", x, View!Open(x, 0))
<1>1. server.phase = "pick" /\ server.phase \in AtTable BY DEF AtTable, View!DeclaresHand
<1>2. /\ moves \in Seq(Moves) /\ server \in Games /\ server.declarer \in View!Seats
      /\ v \in Views /\ ~v.raised /\ TableAgrees(server, v) /\ Listed(server)
  BY <1>1, TableFacts
<1>3. /\ m \in Moves /\ m.by = server.declarer /\ m.kind = "declaration" /\ m.val = x
      /\ m.n = View!Open(x, 0) /\ m.n \in {0, 10}
  BY <1>2 DEF View!Move, Moves, Kinds, View!Seats, View!Open
<1>4. View!Adds(m) BY <1>0
<1>5. server'.contract = x BY <1>0, <1>2 DEF Games
<1> HIDE DEF m
<1>6. v' = View!Plays([v EXCEPT !.contract = x])
  <2>1. v' = View!ViewMove(v, m) BY <1>4, <1>2, <1>3, ReplaysGrow
  <2>2. v.phase = "SKAT_OR_HAND_DECL" /\ v.to_move = server.declarer
    BY <1>1, <1>2 DEF TableAgrees
  <2>3. View!ViewMove(v, m) = View!DeclareMove(v, m) BY <1>2, <1>3, <2>2 DEF View!ViewMove
  <2> QED BY <1>3, <2>1, <2>3 DEF View!DeclareMove
<1>7. /\ View!Has("declaration")' /\ ~View!Has("skat_request")' /\ View!Latest("declaration")' = m
  <2>1. ~View!Has("skat_request") BY <1>1, <1>2 DEF Listed, Kinds, View!AuctionKinds
  <2>2. "declaration" \in Kinds /\ "skat_request" \in Kinds BY DEF Kinds
  <2> QED BY <1>2, <1>3, <1>4, <2>1, <2>2, ListGrows
<1>8. HasContract(server)' BY <1>3, <1>5, <1>7 DEF HasContract, View!picked_up_skat
<1> HIDE DEF v
<1> QED BY <1>0, <1>1, <1>3, <1>4, <1>6, <1>7, <1>8, PlayBegins DEF v

\* A declaration, with the discard or before it.
LEMMA DeclaresKeeps ==
  ASSUME ViewInv, View!Declares PROVE ViewInv'
<1> DEFINE v == View!replay_player_view
           t == View!replay_tricks
<1>0. PICK x \in View!Contracts, both \in BOOLEAN :
         /\ server' = [server EXCEPT !.phase = IF both THEN "play" ELSE "discard", !.contract = x]
         /\ View!Adds(View!Move(server.declarer, "declaration", x, IF both THEN View!Open(x, 2) ELSE 0))
  BY DEF View!Declares
<1> DEFINE m == View!Move(server.declarer, "declaration", x, IF both THEN View!Open(x, 2) ELSE 0)
<1>1. server.phase = "declare" /\ server.phase \in AtTable BY DEF AtTable, View!Declares
<1>2. /\ moves \in Seq(Moves) /\ server \in Games /\ ~server.cut /\ server.declarer \in View!Seats
      /\ v \in Views /\ ~v.raised /\ t \in TrickStates
      /\ TableAgrees(server, v) /\ TricksAgree(server, t, v) /\ Listed(server)
      /\ v.declarer = server.declarer
  BY <1>1, TableFacts DEF WinnerAgrees
<1>3. /\ m \in Moves /\ m.by = server.declarer /\ m.kind = "declaration" /\ m.val = x
      /\ both => m.n = View!Open(x, 2) /\ m.n \in {2, 12}
      /\ ~both => m.n = 0
  BY <1>2 DEF View!Move, Moves, Kinds, View!Seats, View!Open
<1>4. View!Adds(m) BY <1>0
<1>5. m.kind \notin View!AuctionKinds /\ m.kind # "cardplay" /\ m.kind # "resign" BY <1>3 DEF View!AuctionKinds
<1> HIDE DEF m
<1>6. v' = View!DiscardMove(v, m)
  <2>1. v' = View!ViewMove(v, m) BY <1>4, <1>2, <1>3, ReplaysGrow
  <2>2. v.phase = "DISCARD_AND_DECL" /\ v.to_move = server.declarer
    BY <1>1, <1>2 DEF TableAgrees
  <2> QED BY <1>2, <1>3, <2>1, <2>2 DEF View!ViewMove
<1>7. View!Has("declaration")' /\ View!Latest("declaration")' = m
  <2>1. "declaration" \in Kinds BY DEF Kinds
  <2> QED BY <1>2, <1>3, <1>4, <2>1, ListGrows
<1>8. CASE both
  <2>1. v' = View!Plays([v EXCEPT !.contract = x]) BY <1>3, <1>6, <1>8 DEF View!DiscardMove
  <2>2. server' = [server EXCEPT !.phase = "play", !.contract = x] BY <1>0, <1>8
  <2>3. server'.contract = x BY <2>2, <1>2 DEF Games
  <2>4. View!Has("skat_request")'
    <3>1. View!Has("skat_request") BY <1>1, <1>2 DEF Listed
    <3>2. "skat_request" \in Kinds BY DEF Kinds
    <3> QED BY <1>2, <1>3, <1>4, <3>1, <3>2, ListGrows
  <2>5. HasContract(server)' BY <1>3, <1>7, <1>8, <2>3, <2>4 DEF HasContract, View!picked_up_skat
  <2> HIDE DEF v
  <2> QED BY <1>1, <1>3, <1>4, <1>7, <2>1, <2>2, <2>5, PlayBegins DEF v
<1>9. CASE ~both
  <2>1. v' = [v EXCEPT !.contract = x, !.half = TRUE] BY <1>3, <1>6, <1>9 DEF View!DiscardMove
  <2>2. /\ server' \in Games /\ server'.phase = "discard" /\ server'.cut = server.cut
        /\ server'.declarer = server.declarer /\ server'.contract = x
        /\ server'.turn = server.turn /\ server'.played = server.played
        /\ server'.resigned = server.resigned
    BY <1>0, <1>2, <1>9 DEF Games
  <2>3. t' = t /\ \A s \in View!Seats : Cards(s)' = CardsOf(server, s)'
    BY <1>4, <1>1, <1>3, <1>5, <2>2, CardsStay
  <2>4. Listed(server)'
    <3>1. View!Has("skat_request") /\ ~View!Has("discard_only") /\ ~View!Has("timeout") /\ ~View!Has("leave")
      BY <1>1, <1>2 DEF Listed
    <3>2. \A k \in Kinds : View!Has(k)' <=> (View!Has(k) \/ m.kind = k) BY <1>2, <1>3, <1>4, ListGrows
    <3>3. /\ View!Has("skat_request")' /\ ~View!Has("discard_only")' /\ ~View!Has("timeout")' /\ ~View!Has("leave")'
      BY <1>3, <3>1, <3>2 DEF Kinds
    <3>4. View!resigned_players' = server'.resigned
      BY <1>2, <1>3, <1>4, <1>5, <2>2, ListGrows DEF Listed
    <3> QED BY <1>3, <1>7, <1>9, <2>2, <2>3, <3>3, <3>4 DEF Listed, Bidders
  <2> HIDE DEF v, t
  <2>5. /\ v' \in Views /\ ~v'.raised /\ v'.declarer = v.declarer
        /\ v'.max_bid = v.max_bid /\ v'.max_bids = v.max_bids
        /\ TableAgrees(server', v') /\ v'.trick = v.trick /\ v'.resigned = v.resigned
    <3>1. v' \in Views BY <1>2, <2>1 DEF Views
    <3>2. v'.phase = v.phase /\ v'.to_move = v.to_move /\ v'.contract = x /\ v'.half
      BY <1>2, <2>1 DEF Views
    <3>3. TableAgrees(server', v') BY <1>1, <1>2, <2>2, <3>2 DEF TableAgrees
    <3> QED BY <1>2, <2>1, <3>1, <3>3 DEF Views
  <2>6. TricksAgree(server', t', v') BY <1>1, <1>2, <2>2, <2>3, <2>5 DEF TricksAgree
  <2> QED BY <1>1, <1>2, <1>3, <1>4, <1>5, <2>2, <2>3, <2>4, <2>5, <2>6, TableStep DEF v, t, AtTable
<1> QED BY <1>8, <1>9

\* The discard after it.
LEMMA DiscardsKeeps ==
  ASSUME ViewInv, View!Discards PROVE ViewInv'
<1> DEFINE v == View!replay_player_view
           x == server.contract
           m == View!Move(server.declarer, "discard_only", 0, View!Open(server.contract, 2))
<1>0. server.phase = "discard" /\ server' = [server EXCEPT !.phase = "play"] /\ View!Adds(m)
  BY DEF View!Discards
<1>1. server.phase = "discard" /\ server.phase \in AtTable BY <1>0 DEF AtTable
<1>2. /\ moves \in Seq(Moves) /\ server \in Games /\ server.declarer \in View!Seats
      /\ v \in Views /\ ~v.raised /\ TableAgrees(server, v) /\ Listed(server)
  BY <1>1, TableFacts
<1>3. /\ x \in View!Contracts /\ v.contract = x /\ v.half /\ v.phase = "DISCARD_AND_DECL"
      /\ v.to_move = server.declarer
  BY <1>1, <1>2 DEF TableAgrees
<1>4. /\ m \in Moves /\ m.by = server.declarer /\ m.kind = "discard_only"
      /\ m.n = View!Open(x, 2) /\ (m.n = 2 \/ (m.n = 12 /\ x = "ouvert"))
  BY <1>2, <1>3 DEF View!Move, Moves, Kinds, View!Seats, View!Open
<1>5. server' = [server EXCEPT !.phase = "play", !.contract = x] /\ server'.contract = x
  BY <1>0, <1>2 DEF Games
<1> HIDE DEF m, x
<1>6. v' = View!Plays([v EXCEPT !.contract = x])
  <2>1. v' = View!ViewMove(v, m) BY <1>0, <1>2, <1>4, ReplaysGrow
  <2>2. View!ViewMove(v, m) = View!DiscardMove(v, m) BY <1>2, <1>3, <1>4 DEF View!ViewMove
  <2>3. View!DiscardMove(v, m) = View!Plays(v) BY <1>3, <1>4 DEF View!DiscardMove
  <2>4. v = [v EXCEPT !.contract = x] BY <1>2, <1>3 DEF Views
  <2> QED BY <2>1, <2>2, <2>3, <2>4
<1>7. /\ View!Has("declaration")' /\ View!Latest("declaration")' = View!Latest("declaration")
      /\ View!Has("skat_request")' /\ View!Has("discard_only")' /\ View!Latest("discard_only")' = m
  <2>1. View!Has("declaration") /\ View!Has("skat_request") BY <1>1, <1>2 DEF Listed
  <2>2. "declaration" \in Kinds /\ "skat_request" \in Kinds /\ "discard_only" \in Kinds BY DEF Kinds
  <2> QED BY <1>0, <1>2, <1>4, <2>1, <2>2, ListGrows
<1>8. View!Latest("declaration").by = server.declarer /\ View!Latest("declaration").val = x
  BY <1>1, <1>2 DEF Listed, x
<1>9. HasContract(server)' BY <1>4, <1>5, <1>7 DEF HasContract, View!picked_up_skat
<1> HIDE DEF v
<1> QED BY <1>0, <1>1, <1>3, <1>4, <1>5, <1>6, <1>7, <1>8, <1>9, PlayBegins DEF v

\* What is declared stays so, while cards are played or shown, or players resign.
LEMMA DeclaredStays ==
  ASSUME ViewInv, server.phase = "play", NEW m \in Moves, View!Adds(m),
         m.kind \in {"cardplay", "resign", "show_cards"}, server'.contract = server.contract
  PROVE  /\ ~View!Has("timeout")' /\ ~View!Has("leave")'
         /\ HasContract(server)'
         /\ View!Latest("declaration")'.by = server.declarer /\ View!Latest("declaration")'.val = server.contract
<1>1. server.phase \in AtTable BY DEF AtTable
<1>2. moves \in Seq(Moves) /\ Listed(server) BY <1>1, TableFacts
<1>3. /\ ~View!Has("timeout")' /\ ~View!Has("leave")'
      /\ \A k \in {"declaration", "discard_only", "skat_request"} :
            (View!Has(k)' <=> View!Has(k)) /\ (View!Has(k) => View!Latest(k)' = View!Latest(k))
  <2>1. ~View!Has("timeout") /\ ~View!Has("leave") BY <1>2 DEF Listed
  <2>2. /\ {"declaration", "discard_only", "skat_request"} \subseteq Kinds
        /\ "timeout" \in Kinds /\ "leave" \in Kinds
        /\ m.kind \notin {"declaration", "discard_only", "skat_request", "timeout", "leave"}
    BY DEF Kinds
  <2>3. /\ \A k \in Kinds : View!Has(k)' <=> (View!Has(k) \/ m.kind = k)
        /\ \A k \in Kinds : m.kind # k /\ View!Has(k) => View!Latest(k)' = View!Latest(k)
    BY <1>2, ListGrows
  <2> QED BY <2>1, <2>2, <2>3
<1>4. HasContract(server) /\ View!Latest("declaration").by = server.declarer
      /\ View!Latest("declaration").val = server.contract
  BY <1>2 DEF Listed
<1>5. HasContract(server)' BY <1>3, <1>4 DEF HasContract, View!picked_up_skat
<1>6. View!Latest("declaration")' = View!Latest("declaration") BY <1>3, <1>4 DEF HasContract
<1> QED BY <1>3, <1>4, <1>5, <1>6

\* A show changes nothing.
LEMMA ShowsCardsKeeps ==
  ASSUME ViewInv, View!ShowsCards PROVE ViewInv'
<1> DEFINE m == View!Move(server.turn, "show_cards", 0, 1)
           v == View!replay_player_view
           t == View!replay_tricks
<1>0. server.phase = "play" /\ server' = [server EXCEPT !.shown = @ + 1] /\ View!Adds(m)
  BY DEF View!ShowsCards
<1>1. server.phase \in AtTable BY <1>0 DEF AtTable
<1>2. /\ moves \in Seq(Moves) /\ server \in Games /\ ~server.cut /\ server.declarer \in View!Seats
      /\ v \in Views /\ ~v.raised /\ t \in TrickStates
      /\ TableAgrees(server, v) /\ TricksAgree(server, t, v) /\ Listed(server)
      /\ v.declarer = server.declarer
  BY <1>1, TableFacts DEF WinnerAgrees
<1>3. m \in Moves /\ m.kind = "show_cards"
  <2>1. server.turn \in 0..3 BY <1>2 DEF Games, View!Seats
  <2> QED BY <2>1 DEF View!Move, Moves, Kinds
<1>4. m.kind \notin View!AuctionKinds /\ m.kind # "cardplay" /\ m.kind # "resign" BY <1>3 DEF View!AuctionKinds
<1> HIDE DEF m
<1>5. /\ server' \in Games /\ server'.phase = "play" /\ server'.cut = server.cut
      /\ server'.declarer = server.declarer /\ server'.contract = server.contract
      /\ server'.turn = server.turn /\ server'.played = server.played
      /\ server'.resigned = server.resigned
  <2>1. server.shown \in Nat /\ server.shown + 1 \in Nat BY <1>2 DEF Games
  <2> QED BY <1>0, <1>2, <2>1 DEF Games
<1>6. v' = v
  <2>1. v' = View!ViewMove(v, m) BY <1>0, <1>2, <1>3, ReplaysGrow
  <2>2. v.phase = "CARDPLAY" BY <1>0, <1>2 DEF TableAgrees
  <2>3. View!ViewMove(v, m) = View!CardMove(v, m) BY <1>2, <1>3, <2>2 DEF View!ViewMove
  <2> QED BY <1>3, <2>1, <2>3 DEF View!CardMove
<1>7. t' = t /\ \A s \in View!Seats : Cards(s)' = CardsOf(server, s)'
  BY <1>0, <1>1, <1>3, <1>4, <1>5, CardsStay
<1>8. /\ ~View!Has("timeout")' /\ ~View!Has("leave")' /\ HasContract(server)'
      /\ View!Latest("declaration")'.by = server.declarer /\ View!Latest("declaration")'.val = server.contract
  BY <1>0, <1>3, <1>5, DeclaredStays
<1>13. View!resigned_players' = server'.resigned BY <1>0, <1>2, <1>3, <1>4, <1>5, ListGrows DEF Listed
<1>14. Listed(server)' BY <1>5, <1>7, <1>8, <1>13 DEF Listed, Bidders
<1> HIDE DEF v, t
<1>15. TableAgrees(server', v') BY <1>0, <1>2, <1>5, <1>6 DEF TableAgrees
<1>16. TricksAgree(server', t', v') BY <1>0, <1>2, <1>5, <1>6, <1>7 DEF TricksAgree
<1> QED BY <1>0, <1>1, <1>2, <1>3, <1>4, <1>5, <1>6, <1>7, <1>14, <1>15, <1>16, TableStep DEF v, t, AtTable

\* Two opponents are two.
LEMMA Opponents ==
  ASSUME NEW R \in SUBSET View!Seats, NEW d \in View!Seats
  PROVE  Cardinality(R \ {d}) \in Nat /\ Cardinality(R \ {d}) <= 2
<1>1. View!Seats = {0, 1, 2} BY DEF View!Seats
<1>2. IsFiniteSet(View!Seats) /\ Cardinality(View!Seats) = 3
  <2>1. 0 \in Int /\ 2 \in Int OBVIOUS
  <2>2. IsFiniteSet(0..2) /\ Cardinality(0..2) = IF 0 > 2 THEN 0 ELSE 2 - 0 + 1
    BY <2>1, FS_Interval, Zenon
  <2> QED BY <2>2 DEF View!Seats
<1>3. Cardinality(View!Seats \ {d}) = 2 /\ IsFiniteSet(View!Seats \ {d})
  BY <1>2, FS_RemoveElement
<1>4. R \ {d} \subseteq View!Seats \ {d} OBVIOUS
<1> QED BY <1>3, <1>4, FS_Subset, FS_CardinalityType

\* A resignation, which may be the last move.
LEMMA ResignsKeeps ==
  ASSUME ViewInv, View!Resigns PROVE ViewInv'
<1> DEFINE v == View!replay_player_view
           t == View!replay_tricks
<1>0. PICK s \in View!Seats \ server.resigned :
         LET gone == server.resigned \cup {s} IN
         /\ server' = [server EXCEPT !.resigned = gone,
                         !.phase = IF s = server.declarer \/ Cardinality(gone \ {server.declarer}) = 2
                                   THEN "over" ELSE @]
         /\ View!Adds(View!Move(s, "resign", 0, 0))
  BY SizeIs DEF View!Resigns
<1> DEFINE m == View!Move(s, "resign", 0, 0)
           gone == server.resigned \cup {s}
           ends == s = server.declarer \/ Cardinality(gone \ {server.declarer}) = 2
<1>1. server.phase = "play" /\ server.phase \in AtTable BY DEF AtTable, View!Resigns
<1>2. /\ moves \in Seq(Moves) /\ server \in Games /\ ~server.cut /\ server.declarer \in View!Seats
      /\ v \in Views /\ ~v.raised /\ t \in TrickStates
      /\ TableAgrees(server, v) /\ TricksAgree(server, t, v) /\ Listed(server)
      /\ v.declarer = server.declarer
  BY <1>1, TableFacts DEF WinnerAgrees
<1>3. m \in Moves /\ m.kind = "resign" /\ m.by = s
  BY <1>2 DEF View!Move, Moves, Kinds, View!Seats
<1>4. m.kind \notin View!AuctionKinds /\ m.kind # "cardplay" BY <1>3 DEF View!AuctionKinds
<1>5. View!Adds(m) /\ server' = [server EXCEPT !.resigned = gone, !.phase = IF ends THEN "over" ELSE @]
  BY <1>0
<1>6. gone \in SUBSET View!Seats /\ Cardinality(gone \ {server.declarer}) \in 0..2
  <2>1. gone \in SUBSET View!Seats BY <1>2 DEF Games
  <2> HIDE DEF gone
  <2>2. Cardinality(gone \ {server.declarer}) \in Nat /\ Cardinality(gone \ {server.declarer}) <= 2
    BY <1>2, <2>1, Opponents
  <2> QED BY <2>1, <2>2
<1>7. /\ server' \in Games /\ server'.cut = server.cut
      /\ server'.phase = (IF ends THEN "over" ELSE "play")
      /\ server'.declarer = server.declarer /\ server'.contract = server.contract
      /\ server'.turn = server.turn /\ server'.played = server.played
      /\ server'.resigned = gone
  <2> HIDE DEF gone, ends
  <2> QED BY <1>1, <1>2, <1>5, <1>6 DEF Games
<1>8. v' = [v EXCEPT !.resigned = gone, !.phase = IF ends THEN "FINISHED" ELSE @,
                     !.to_move = IF ends THEN View!NoOne ELSE @]
  <2> HIDE DEF m
  <2>1. v' = View!ViewMove(v, m) BY <1>5, <1>2, <1>3, ReplaysGrow
  <2>2. v.phase = "CARDPLAY" BY <1>1, <1>2 DEF TableAgrees
  <2>3. View!ViewMove(v, m) = View!CardMove(v, m) BY <1>2, <1>3, <2>2 DEF View!ViewMove
  <2>4. v.resigned = server.resigned BY <1>2 DEF TricksAgree
  <2>5. ends <=> (m.by = v.declarer \/ View!Cardinality((v.resigned \cup {m.by}) \ {v.declarer}) >= 2)
    <3>1. (v.resigned \cup {m.by}) \ {v.declarer} = gone \ {server.declarer} BY <1>2, <1>3, <2>4
    <3>2. View!Cardinality((v.resigned \cup {m.by}) \ {v.declarer}) = Cardinality(gone \ {server.declarer})
      BY <3>1, SizeIs
    <3> HIDE DEF gone
    <3> QED BY <1>2, <1>3, <1>6, <3>2
  <2> HIDE DEF ends
  <2>6. v.resigned \cup {m.by} = gone BY <1>3, <2>4
  <2> QED BY <1>3, <2>1, <2>3, <2>5, <2>6 DEF View!CardMove
<1>9. t' = t /\ \A q \in View!Seats : Cards(q)' = CardsOf(server, q)'
  BY <1>5, <1>1, <1>3, <1>4, <1>7, CardsStay
<1>10. /\ ~View!Has("timeout")' /\ ~View!Has("leave")' /\ HasContract(server)'
       /\ View!Latest("declaration")'.by = server.declarer /\ View!Latest("declaration")'.val = server.contract
  BY <1>1, <1>3, <1>5, <1>7, DeclaredStays
<1>11. View!resigned_players' = gone BY <1>2, <1>3, <1>5, ListGrows DEF Listed
<1> HIDE DEF m
<1>12. CASE ends
  <2>1. v' = [v EXCEPT !.resigned = gone, !.phase = "FINISHED", !.to_move = View!NoOne] BY <1>8, <1>12
  <2>2. View!terminal'
    <3>1. View!Has("declaration")' BY <1>10 DEF HasContract
    <3> QED BY <1>10, <1>11, <1>12, <3>1, SizeIs DEF View!terminal
  <2>3. server'.phase = "over" BY <1>7, <1>12
  <2> HIDE DEF v, t, gone, ends
  <2>4. /\ v' \in Views /\ ~v'.raised /\ v'.declarer = v.declarer
        /\ v'.max_bid = v.max_bid /\ v'.max_bids = v.max_bids /\ v'.to_move = View!NoOne
    <3>1. View!NoOne \in 0..3 BY DEF View!NoOne
    <3> QED BY <1>2, <1>6, <2>1, <3>1 DEF Views
  <2> QED BY <1>1, <1>2, <1>3, <1>4, <1>5, <1>7, <1>9, <2>2, <2>3, <2>4, LastStep DEF v, t
<1>13. CASE ~ends
  <2>1. v' = [v EXCEPT !.resigned = gone] BY <1>2, <1>8, <1>13 DEF Views
  <2>2. server.declarer \notin gone /\ Cardinality(gone \ {server.declarer}) < 2
    BY <1>1, <1>2, <1>6, <1>13 DEF TricksAgree
  <2>3. server'.phase = "play" BY <1>7, <1>13
  <2>4. Listed(server)' BY <1>7, <1>9, <1>10, <1>11, <2>3 DEF Listed, Bidders
  <2> HIDE DEF v, t, gone, ends
  <2>5. /\ v' \in Views /\ ~v'.raised /\ v'.declarer = v.declarer /\ v'.phase = v.phase
        /\ v'.max_bid = v.max_bid /\ v'.max_bids = v.max_bids /\ v'.to_move = v.to_move
        /\ v'.contract = v.contract /\ v'.trick = v.trick /\ v'.resigned = gone
    BY <1>2, <1>6, <2>1 DEF Views
  <2>6. TableAgrees(server', v') BY <1>1, <1>2, <1>7, <2>3, <2>5 DEF TableAgrees
  <2>7. TricksAgree(server', t', v') BY <1>1, <1>2, <1>7, <1>9, <2>2, <2>3, <2>5 DEF TricksAgree
  <2> QED BY <1>1, <1>2, <1>3, <1>4, <1>5, <1>7, <1>9, <2>3, <2>4, <2>5, <2>6, <2>7, TableStep DEF v, t, AtTable
<1> QED BY <1>12, <1>13

\* The end by a timeout or a leave, in the auction, too.
LEMMA EndsEarlyKeeps ==
  ASSUME ViewInv, View!EndsEarly PROVE ViewInv'
<1> DEFINE v == View!replay_player_view
           t == View!replay_tricks
           c == View!_auction_context
<1>0. PICK kind \in {"timeout", "leave"} : View!Adds(View!Move(View!World, kind, 0, 0)) BY DEF View!EndsEarly
<1> DEFINE m == View!Move(View!World, kind, 0, 0)
<1>1. server' = [server EXCEPT !.phase = "over", !.cut = View!InAuction] /\ server.phase # "over"
  BY DEF View!EndsEarly
<1>2. /\ moves \in Seq(Moves) /\ server \in Games /\ v \in Views /\ t \in TrickStates /\ c \in Auctions
      /\ ~server.cut
  BY <1>1 DEF ViewInv, Typed, Agreed
<1>3. m \in Moves /\ m.kind = kind /\ m.by = 3 /\ View!Adds(m)
  BY <1>0 DEF View!Move, Moves, Kinds, View!World
<1>4. m.kind \notin View!AuctionKinds /\ m.kind # "cardplay" BY <1>3 DEF View!AuctionKinds
<1> HIDE DEF m
<1>5. /\ server' \in Games /\ server'.phase = "over" /\ server'.cut = View!InAuction
      /\ server'.declarer = server.declarer
  <2>1. View!InAuction \in BOOLEAN BY DEF View!InAuction
  <2> QED BY <1>1, <1>2, <2>1 DEF Games
<1>6. c' = View!AuctionMove(c, m) /\ t' = View!TrickMove(t, m) /\ v' = View!ViewMove(v, m)
  BY <1>2, <1>3, ReplaysGrow
<1>7. t' = t BY <1>4, <1>6, TricksStay
<1>8. CASE View!InAuction
  <2>1. AuctionAgrees(server, c, v) BY <1>2, <1>8 DEF ViewInv, Agreed, View!InAuction, Bidders
  <2>2. v.phase \in {"BID", "ANSWER"} /\ ~v.raised /\ v.to_move # 3
    BY <1>2, <2>1 DEF AuctionAgrees, ViewBids, Turn, View!Announcer, Games, View!Seats
  <2>3. v' = View!Raise(v) BY <1>3, <1>6, <2>2 DEF View!ViewMove
  <2>4. c' \in Auctions BY <1>2, <1>4, <1>6, AuctionStays
  <2>5. moves' \in Seq(Moves) BY <1>2, <1>3, ListGrows
  <2> HIDE DEF v, c, t
  <2>6. v' \in Views BY <1>2, <2>3 DEF Views, View!Raise
  <2>7. Typed(server, c, t, v)' BY <1>2, <1>5, <1>7, <2>4, <2>5, <2>6 DEF Typed
  <2>8. Agreed(server, c, t, v)' BY <1>5, <1>8 DEF Agreed
  <2> QED BY <2>7, <2>8 DEF ViewInv, c, t, v
<1>9. CASE ~View!InAuction
  <2>1. server.phase \in AtTable BY <1>1, <1>2, <1>9 DEF Games, View!InAuction, AtTable
  <2>2. ~v.raised /\ v.phase \notin {"BID", "ANSWER", "FINISHED"}
    BY <2>1, TableFacts DEF TableAgrees, AtTable
  <2>3. v' = [v EXCEPT !.phase = "FINISHED", !.to_move = View!NoOne] BY <1>3, <1>6, <2>2 DEF View!ViewMove
  <2>4. View!terminal'
    <3>1. kind \in Kinds BY DEF Kinds
    <3>2. View!Has(kind)' BY <1>2, <1>3, <3>1, ListGrows
    <3> QED BY <3>2 DEF View!terminal
  <2> HIDE DEF v, c, t
  <2>5. /\ v' \in Views /\ ~v'.raised /\ v'.declarer = v.declarer
        /\ v'.max_bid = v.max_bid /\ v'.max_bids = v.max_bids /\ v'.to_move = View!NoOne
    <3>1. View!NoOne \in 0..3 BY DEF View!NoOne
    <3> QED BY <1>2, <2>2, <2>3, <3>1 DEF Views
  <2> QED BY <1>2, <1>3, <1>4, <1>5, <1>7, <1>9, <2>1, <2>4, <2>5, LastStep DEF v, t
<1> QED BY <1>8, <1>9

\* A card more in the trick, or the first of the next one.
LEMMA CardsOfPlayed ==
  ASSUME NEW e \in Games, NEW e2 \in Games, NEW s \in View!Seats,
         e2.played = e.played + 1,
         e.played % 3 # 2 => e2.turn = (e.turn + 1) % 3
  PROVE  CardsOf(e2, s) = CardsOf(e, s) + IF s = e.turn THEN 1 ELSE 0
<1>1. PICK q \in Nat, r \in 0..2 : e.played = 3 * q + r
  <2>1. e.played \in Nat BY DEF Games
  <2>2. e.played \div 3 \in Nat /\ e.played % 3 \in 0..2 /\ e.played = 3 * (e.played \div 3) + (e.played % 3)
    BY <2>1
  <2>3. e.played \div 3 \in Nat /\ e.played % 3 \in 0..2 BY <2>2
  <2> HIDE DEF Games
  <2> QED BY <2>2, <2>3
<1>2. e.played \div 3 = q /\ e.played % 3 = r BY <1>1
<1>3. s \in {0, 1, 2} /\ e.turn \in {0, 1, 2} /\ e2.turn \in {0, 1, 2} BY DEF Games, View!Seats
<1>4. CASE r # 2
  <2>1. e2.played \div 3 = q /\ e2.played % 3 = r + 1
    <3>1. e2.played = 3 * q + (r + 1) BY <1>1
    <3> QED BY <1>1, <1>4, <3>1
  <2>2. CASE e.turn = 0
    <3>1. e2.turn = 1 BY <1>2, <1>4, <2>2
    <3> QED BY <1>1, <1>2, <1>3, <1>4, <2>1, <2>2, <3>1 DEF CardsOf
  <2>3. CASE e.turn = 1
    <3>1. e2.turn = 2 BY <1>2, <1>4, <2>3
    <3> QED BY <1>1, <1>2, <1>3, <1>4, <2>1, <2>3, <3>1 DEF CardsOf
  <2>4. CASE e.turn = 2
    <3>1. e2.turn = 0 BY <1>2, <1>4, <2>4
    <3> QED BY <1>1, <1>2, <1>3, <1>4, <2>1, <2>4, <3>1 DEF CardsOf
  <2> QED BY <1>3, <2>2, <2>3, <2>4
<1>5. CASE r = 2
  <2>1. e2.played \div 3 = q + 1 /\ e2.played % 3 = 0
    <3>1. e2.played = 3 * (q + 1) BY <1>1, <1>5
    <3> QED BY <1>1, <3>1
  <2>2. CardsOf(e2, s) = q + 1
    <3>1. (s + 3 - e2.turn) % 3 < 3 /\ (s + 3 - e2.turn) % 3 \in Nat BY <1>3
    <3> QED BY <2>1, <3>1 DEF CardsOf
  <2>3. CardsOf(e, s) = q + (IF ((s + 3 - e.turn) % 3) + 2 >= 3 THEN 1 ELSE 0) BY <1>2, <1>5 DEF CardsOf
  <2>4. (s + 3 - e.turn) % 3 = 0 <=> s = e.turn
    <3>1. CASE e.turn = 0 BY <1>3, <3>1
    <3>2. CASE e.turn = 1 BY <1>3, <3>2
    <3>3. CASE e.turn = 2 BY <1>3, <3>3
    <3> QED BY <1>3, <3>1, <3>2, <3>3
  <2>5. (s + 3 - e.turn) % 3 \in 0..2 BY <1>3
  <2> QED BY <1>1, <2>2, <2>3, <2>4, <2>5
<1> QED BY <1>1, <1>4, <1>5

\* A card, which may be the last one.
LEMMA PlaysCardKeeps ==
  ASSUME ViewInv, View!PlaysCard PROVE ViewInv'
<1> DEFINE v == View!replay_player_view
           t == View!replay_tricks
<1>0. PICK w \in IF server.played % 3 = 2 THEN View!Seats ELSE {(server.turn + 1) % 3} :
         /\ server' = [server EXCEPT !.turn = w, !.played = @ + 1,
                         !.phase = IF server.played + 1 = 3 * Tricks THEN "over" ELSE @]
         /\ View!Adds(View!Move(server.turn, "cardplay", w, 1))
  BY DEF View!PlaysCard
<1> DEFINE m == View!Move(server.turn, "cardplay", w, 1)
<1>1. server.phase = "play" /\ server.phase \in AtTable BY DEF AtTable, View!PlaysCard
<1>2. /\ moves \in Seq(Moves) /\ server \in Games /\ ~server.cut /\ server.declarer \in View!Seats
      /\ v \in Views /\ ~v.raised /\ t \in TrickStates
      /\ TableAgrees(server, v) /\ TricksAgree(server, t, v) /\ Listed(server)
      /\ v.declarer = server.declarer
  BY <1>1, TableFacts DEF WinnerAgrees
<1>3. w \in View!Seats /\ server.turn \in View!Seats /\ server.played \in Nat
      /\ (server.played % 3 # 2 => w = (server.turn + 1) % 3)
  <2>1. server.turn \in 0..2 /\ server.played \in Nat BY <1>2 DEF Games, View!Seats
  <2>2. (server.turn + 1) % 3 \in 0..2 BY <2>1
  <2> QED BY <1>0, <2>1, <2>2 DEF View!Seats
<1>4. m \in Moves /\ m.kind = "cardplay" /\ m.by = server.turn /\ m.val = w
  BY <1>3 DEF View!Move, Moves, Kinds, View!Seats
<1>5. m.kind \notin View!AuctionKinds /\ m.kind # "resign" BY <1>4 DEF View!AuctionKinds
<1>6. View!Adds(m) BY <1>0
<1> HIDE DEF m
<1>7. /\ server' \in Games /\ server'.cut = server.cut
      /\ server'.phase = (IF server.played + 1 = 3 * Tricks THEN "over" ELSE "play")
      /\ server'.declarer = server.declarer /\ server'.contract = server.contract
      /\ server'.turn = w /\ server'.played = server.played + 1
      /\ server'.resigned = server.resigned
  <2>1. server.played + 1 \in Nat BY <1>3
  <2> QED BY <1>0, <1>1, <1>2, <1>3, <2>1 DEF Games
<1>8. t.n = server.played /\ t.actor = server.turn /\ ~t.wrong /\ v.trick = t BY <1>2 DEF TricksAgree
<1>9. /\ View!TrickMove(t, m) \in TrickStates /\ View!TrickMove(t, m).n = server.played + 1
      /\ View!TrickMove(t, m).actor = w /\ ~View!TrickMove(t, m).wrong
  <2>1. View!TrickMove(t, m) = [n |-> t.n + 1, actor |-> IF t.n % 3 = 2 THEN m.val ELSE (t.actor + 1) % 3,
                           wrong |-> t.wrong \/ m.by # t.actor]
    BY <1>4 DEF View!TrickMove
  <2> HIDE DEF t
  <2>2. (IF t.n % 3 = 2 THEN m.val ELSE (t.actor + 1) % 3) = w BY <1>3, <1>4, <1>8
  <2>3. (t.wrong \/ m.by # t.actor) = FALSE BY <1>4, <1>8
  <2>4. View!TrickMove(t, m) = [n |-> server.played + 1, actor |-> w, wrong |-> FALSE]
    BY <1>8, <2>1, <2>2, <2>3
  <2>5. server.played + 1 \in Nat BY <1>3
  <2> QED BY <1>3, <2>4, <2>5 DEF TrickStates
<1>10. t' = View!TrickMove(t, m) BY <1>2, <1>4, <1>6, ReplaysGrow
<1>11. v' = [v EXCEPT !.trick = t', !.phase = IF server.played + 1 = 3 * Tricks THEN "FINISHED" ELSE @,
                      !.to_move = IF server.played + 1 = 3 * Tricks THEN View!NoOne ELSE w]
  <2>1. v' = View!ViewMove(v, m) BY <1>2, <1>4, <1>6, ReplaysGrow
  <2>2. v.phase = "CARDPLAY" /\ v.to_move = server.turn BY <1>1, <1>2 DEF TableAgrees
  <2>3. View!ViewMove(v, m) = View!CardMove(v, m) BY <1>2, <1>4, <2>2 DEF View!ViewMove
  <2> QED BY <1>4, <1>8, <1>9, <1>10, <2>1, <2>2, <2>3 DEF View!CardMove
<1>12. \A s \in View!Seats : Cards(s)' = CardsOf(server', s)
  <2>1. TAKE s \in View!Seats
  <2>2. Cards(s) = CardsOf(server, s) /\ Cards(s) \in Nat BY <1>2, <1>4, <1>6, ListGrows DEF Listed
  <2>3. Cards(s)' = Cards(s) + IF s = server.turn THEN 1 ELSE 0
    BY <1>2, <1>4, <1>6, <2>2, ListGrows
  <2>4. CardsOf(server', s) = CardsOf(server, s) + IF s = server.turn THEN 1 ELSE 0
    BY <1>2, <1>3, <1>7, CardsOfPlayed
  <2> QED BY <2>2, <2>3, <2>4
<1>13. /\ ~View!Has("timeout")' /\ ~View!Has("leave")' /\ HasContract(server)'
       /\ View!Latest("declaration")'.by = server.declarer /\ View!Latest("declaration")'.val = server.contract
  BY <1>1, <1>4, <1>6, <1>7, DeclaredStays
<1>14. View!resigned_players' = server'.resigned BY <1>2, <1>4, <1>5, <1>6, <1>7, ListGrows DEF Listed
<1>15. CASE server.played + 1 = 3 * Tricks
  <2>1. v' = [v EXCEPT !.trick = t', !.phase = "FINISHED", !.to_move = View!NoOne] BY <1>11, <1>15
  <2>2. View!_declaration_complete'
    <3>1. server'.contract \in View!Contracts BY <1>1, <1>2, <1>7 DEF TableAgrees
    <3>2. View!Open(server'.contract, 2) >= 2 BY DEF View!Open
    <3> QED BY <1>13, <3>2 DEF HasContract, View!_declaration_complete, View!picked_up_skat
  <2>3. \A s \in View!Seats : Cards(s)' = Tricks
    <3>1. TAKE s \in View!Seats
    <3>2. server'.played = 3 * Tricks /\ server'.turn \in {0, 1, 2} /\ s \in {0, 1, 2}
      BY <1>3, <1>7, <1>15 DEF View!Seats
    <3>3. server'.played \div 3 = Tricks /\ server'.played % 3 = 0 BY <3>2, ViewAssumption
    <3>4. (s + 3 - server'.turn) % 3 < 3 /\ (s + 3 - server'.turn) % 3 \in Nat BY <3>2
    <3>5. CardsOf(server', s) = Tricks BY <3>3, <3>4, ViewAssumption DEF CardsOf
    <3> QED BY <1>12, <3>5
  <2>4. server'.phase = "over" BY <1>7, <1>15
  <2>5. t' \in TrickStates /\ ~t'.wrong BY <1>9, <1>10
  <2> HIDE DEF v, t
  <2>6. /\ v' \in Views /\ ~v'.raised /\ v'.declarer = v.declarer
        /\ v'.max_bid = v.max_bid /\ v'.max_bids = v.max_bids /\ v'.to_move = View!NoOne
    <3>1. View!NoOne \in 0..3 BY DEF View!NoOne
    <3> QED BY <1>2, <2>1, <2>5, <3>1 DEF Views
  <2> QED BY <1>1, <1>2, <1>4, <1>5, <1>6, <1>7, <2>2, <2>3, <2>4, <2>5, <2>6, LastStep DEF v, t
<1>16. CASE server.played + 1 # 3 * Tricks
  <2>1. v' = [v EXCEPT !.trick = t', !.to_move = w] BY <1>2, <1>11, <1>16 DEF Views
  <2>2. server'.phase = "play" BY <1>7, <1>16
  <2>3. server'.played < 3 * Tricks
    BY <1>1, <1>2, <1>3, <1>7, <1>16, ViewAssumption DEF TricksAgree
  <2>4. Listed(server)' BY <1>7, <1>12, <1>13, <1>14, <2>2 DEF Listed, Bidders
  <2>5. t' \in TrickStates /\ t'.n = server'.played /\ t'.actor = server'.turn /\ ~t'.wrong
    BY <1>7, <1>9, <1>10
  <2> HIDE DEF v, t
  <2>6. /\ v' \in Views /\ ~v'.raised /\ v'.declarer = v.declarer /\ v'.phase = v.phase
        /\ v'.max_bid = v.max_bid /\ v'.max_bids = v.max_bids /\ v'.to_move = w
        /\ v'.contract = v.contract /\ v'.trick = t' /\ v'.resigned = v.resigned
    <3>1. w \in 0..3 BY <1>3 DEF View!Seats
    <3> QED BY <1>2, <2>1, <2>5, <3>1 DEF Views
  <2>7. TableAgrees(server', v') BY <1>1, <1>2, <1>7, <2>2, <2>6 DEF TableAgrees
  <2>8. TricksAgree(server', t', v') BY <1>1, <1>2, <1>7, <2>2, <2>3, <2>5, <2>6 DEF TricksAgree
  <2> QED BY <1>1, <1>2, <1>4, <1>5, <1>6, <1>7, <2>2, <2>4, <2>5, <2>6, <2>7, <2>8, TableStep DEF v, t, AtTable
<1> QED BY <1>15, <1>16

\* A bid, a yes or a pass, which may end the auction or the game.
LEMMA PlayerBidsKeeps ==
  ASSUME ViewInv, View!PlayerBids PROVE ViewInv'
<1> DEFINE v == View!replay_player_view
           t == View!replay_tricks
           c == View!_auction_context
<1>0. PICK yes \in BOOLEAN :
         /\ yes => server.phase = "hold" \/ server.cur + 1 < ViewTop
         /\ server' = View!Bidding(server, yes)
         /\ View!Adds(View!Move(View!ServerAsks,
                      IF ~yes THEN "pass" ELSE IF server.phase = "hold" THEN "answer_yes" ELSE "bid",
                      IF yes /\ server.phase # "hold" THEN server.cur + 1 ELSE 0, 0))
  BY DEF View!PlayerBids
<1> DEFINE m == AuctionMoveOf(server, yes)
<1>1. server.phase \in Bidders /\ server.phase # "over" /\ View!InAuction
  BY DEF View!PlayerBids, View!InAuction, Bidders
<1>2. /\ moves \in Seq(Moves) /\ server \in Games /\ v \in Views /\ t \in TrickStates /\ c \in Auctions
      /\ ~server.cut /\ AuctionAgrees(server, c, v) /\ TricksAgree(server, t, v) /\ Listed(server)
  BY <1>1 DEF ViewInv, Typed, Agreed
<1>3. View!Adds(m)
  <2>1. View!ServerAsks = Turn(server) BY <1>1 DEF View!ServerAsks, Turn, View!InAuction
  <2> QED BY <1>0, <2>1 DEF AuctionMoveOf
<1>4. m \in Moves /\ m.kind \in View!AuctionKinds /\ m.kind \notin {"cardplay", "resign"}
  <2>1. Turn(server) \in 0..3 /\ server.cur + 1 \in Nat BY <1>2 DEF Turn, View!Announcer, Games, View!Seats
  <2> QED BY <2>1 DEF AuctionMoveOf, View!Move, Moves, Kinds, View!AuctionKinds
<1>5. c' = View!AuctionMove(c, m) /\ t' = t /\ v' = View!ViewMove(v, m) /\ moves' \in Seq(Moves)
  BY <1>2, <1>3, <1>4, ReplaysGrow, TricksStay, ListGrows
<1>6. /\ server' \in Games /\ c' \in Auctions /\ v' \in Views
      /\ SameTable(server, server') /\ SameTricks(v, v')
      /\ \/ AuctionAgrees(server', c', v')
         \/ Declarer(server', c', v')
         \/ server'.phase = "over" /\ NobodyPlays(c', v')
  <2> HIDE DEF v, c, t
  <2>1. CASE yes /\ server.phase = "hold"
    BY <1>0, <1>2, <1>5, <2>1, HoldKeeps
  <2>2. CASE yes /\ server.phase # "hold"
    BY <1>0, <1>2, <1>5, <2>2, BidKeeps
  <2>3. CASE ~yes
    BY <1>0, <1>2, <1>5, <2>3, PassKeeps
  <2> QED BY <2>1, <2>2, <2>3
<1>7. /\ server'.turn = server.turn /\ server'.played = server.played /\ ~server'.cut
      /\ server'.resigned = server.resigned
      /\ v'.trick = v.trick /\ v'.resigned = v.resigned
  BY <1>2, <1>6 DEF SameTable, SameTricks
<1>8. server.played = 0 /\ server.turn = 0 /\ server.resigned = {}
  BY <1>1, <1>2 DEF TricksAgree, Bidders
<1>9. Typed(server, c, t, v)' BY <1>2, <1>5, <1>6 DEF Typed
<1>10. server'.phase \in Bidders \cup {"pick"} => TricksAgree(server', t', v') /\ Listed(server)'
  <2>1. SUFFICES ASSUME server'.phase \in Bidders \cup {"pick"}
                 PROVE  TricksAgree(server', t', v') /\ Listed(server)'
    OBVIOUS
  <2>2. server'.phase \notin {"skat", "declare", "discard", "play"} BY <2>1 DEF Bidders
  <2>3. \A k \in Kinds \ View!AuctionKinds : ~View!Has(k)'
    <3>1. \A k \in Kinds \ View!AuctionKinds : ~View!Has(k) BY <1>1, <1>2 DEF Listed
    <3> QED BY <1>2, <1>3, <1>4, <3>1, ListGrows
  <2>4. "timeout" \in Kinds \ View!AuctionKinds /\ "leave" \in Kinds \ View!AuctionKinds
    BY DEF Kinds, View!AuctionKinds
  <2>5. View!resigned_players' = server'.resigned BY <1>2, <1>3, <1>4, <1>7, ListGrows DEF Listed
  <2>6. \A s \in View!Seats : Cards(s)' = CardsOf(server, s)'
    <3>1. \A s \in View!Seats : Cards(s)' = Cards(s) BY <1>2, <1>3, <1>4, ListGrows
    <3>2. \A s \in View!Seats : CardsOf(server, s)' = CardsOf(server, s) BY <1>7 DEF CardsOf
    <3> QED BY <1>2, <3>1, <3>2 DEF Listed
  <2>7. Listed(server)' BY <2>2, <2>3, <2>4, <2>5, <2>6 DEF Listed
  <2> HIDE DEF v, t, c
  <2>8. TricksAgree(server', t', v') BY <1>2, <1>5, <1>7, <1>8, <2>2 DEF TricksAgree
  <2> QED BY <2>7, <2>8
<1> HIDE DEF v, t, c
<1>11. CASE AuctionAgrees(server', c', v')
  <2>1. server'.phase \in Bidders /\ server'.phase \notin AtTable /\ server'.phase # "over"
    BY <1>11 DEF AuctionAgrees, DuelsAgree, Bidders, AtTable
  <2>2. Agreed(server, c, t, v)' BY <1>7, <1>10, <1>11, <2>1 DEF Agreed
  <2> QED BY <1>9, <2>2 DEF ViewInv, c, t, v
<1>12. CASE Declarer(server', c', v')
  <2>1. server'.phase = "pick" /\ server'.phase \notin Bidders /\ server'.phase # "over"
    BY <1>12 DEF Declarer, Bidders
  <2>2. WinnerAgrees(server', c', v') /\ TableAgrees(server', v')
    BY <1>12 DEF Declarer, TableAgrees
  <2>3. Agreed(server, c, t, v)' BY <1>7, <1>10, <2>1, <2>2 DEF Agreed
  <2> QED BY <1>9, <2>3 DEF ViewInv, c, t, v
<1>13. CASE server'.phase = "over" /\ NobodyPlays(c', v')
  <2>1. server'.phase \notin Bidders /\ server'.phase \notin AtTable BY <1>13 DEF Bidders, AtTable
  <2>2. Settled(c, t, v)' BY <1>13 DEF Settled, NobodyPlays
  <2>3. Agreed(server, c, t, v)' BY <1>7, <1>13, <2>1, <2>2 DEF Agreed
  <2> QED BY <1>9, <2>3 DEF ViewInv, c, t, v
<1> QED BY <1>6, <1>11, <1>12, <1>13

\* Nothing moves.
LEMMA ViewIdles ==
  ASSUME ViewInv, moves' = moves, server' = server PROVE ViewInv'
<1>1. \A k \in Kinds : View!Ours(k)' = View!Ours(k) BY DEF View!Ours
<1>2. \A k \in Kinds : (View!Has(k)' <=> View!Has(k)) /\ View!Latest(k)' = View!Latest(k) BY <1>1 DEF View!Has, View!Latest
<1>3. /\ {"declaration", "discard_only", "skat_request", "skat_delivery"} \subseteq Kinds
      /\ {"timeout", "leave", "resign", "cardplay"} \subseteq Kinds
  BY DEF Kinds
<1>4. View!resigned_players' = View!resigned_players BY <1>1, <1>3 DEF View!resigned_players
<1>5. \A s \in View!Seats : Cards(s)' = Cards(s) BY <1>1, <1>3 DEF Cards, CardsPlayed
<1>6. View!picked_up_skat' <=> View!picked_up_skat BY <1>2, <1>3 DEF View!picked_up_skat
<1>7. View!terminal' <=> View!terminal BY <1>2, <1>3, <1>4 DEF View!terminal
<1>8. View!_declaration_complete' <=> View!_declaration_complete BY <1>2, <1>3, <1>6 DEF View!_declaration_complete
<1>9. HasContract(server)' <=> HasContract(server) BY <1>2, <1>3, <1>6 DEF HasContract
<1>10. \A s \in View!Seats : CardsOf(server, s)' = CardsOf(server, s) BY DEF CardsOf
<1>11. Listed(server)' <=> Listed(server) BY <1>2, <1>3, <1>4, <1>5, <1>9, <1>10 DEF Listed
<1>12. /\ View!_auction_context' = View!_auction_context /\ View!replay_tricks' = View!replay_tricks
       /\ View!replay_player_view' = View!replay_player_view
  BY DEF View!_auction_context, View!replay_tricks, View!replay_player_view
<1>13. Settled(View!_auction_context, View!replay_tricks, View!replay_player_view)'
       <=> Settled(View!_auction_context, View!replay_tricks, View!replay_player_view)
  BY <1>5, <1>7, <1>8, <1>12 DEF Settled
<1> QED BY <1>11, <1>12, <1>13 DEF ViewInv, Typed, Agreed

\* The three agree after each move of the game.
LEMMA ViewStep ==
  ASSUME ViewInv, View!ViewNext PROVE ViewInv'
<1>1. CASE View!PlayerBids BY <1>1, PlayerBidsKeeps
<1>2. CASE View!TakesSkat BY <1>2, TakesSkatKeeps
<1>3. CASE View!DeliversSkat BY <1>3, DeliversSkatKeeps
<1>4. CASE View!DeclaresHand BY <1>4, DeclaresHandKeeps
<1>5. CASE View!Declares BY <1>5, DeclaresKeeps
<1>6. CASE View!Discards BY <1>6, DiscardsKeeps
<1>7. CASE View!PlaysCard BY <1>7, PlaysCardKeeps
<1>8. CASE View!Resigns BY <1>8, ResignsKeeps
<1>9. CASE View!ShowsCards BY <1>9, ShowsCardsKeeps
<1>10. CASE View!EndsEarly BY <1>10, EndsEarlyKeeps
<1> QED BY <1>1, <1>2, <1>3, <1>4, <1>5, <1>6, <1>7, <1>8, <1>9, <1>10 DEF View!ViewNext

\* At a table of three programs exactly the one the server waits for is asked to act, and
\* the normalised view agrees with the bridge (bridge.py, gameview.py): for any last bid,
\* any number of tricks, and games however they end.
THEOREM TurnAgreement == DecisionsSpec => []TurnsAreAgreed
<1>1. DecisionsInit => ViewInv BY ViewStarts DEF DecisionsInit
<1>2. ViewInv /\ [DecisionsNext]_<<vars, moves, server>> => ViewInv'
  <2>1. SUFFICES ASSUME ViewInv, [DecisionsNext]_<<vars, moves, server>> PROVE ViewInv'
    OBVIOUS
  <2>2. CASE View!ViewNext BY <2>1, <2>2, ViewStep
  <2>3. CASE moves' = moves /\ server' = server BY <2>1, <2>3, ViewIdles
  <2> QED BY <2>1, <2>2, <2>3 DEF DecisionsNext
<1>3. ViewInv => View!TurnsAreAgreed BY ViewIsAgreed
<1>4. ViewInv => TurnsAreAgreed BY <1>3 DEF TurnsAreAgreed
<1> QED BY <1>1, <1>2, <1>4, PTL DEF DecisionsSpec
=============================================================================
