------------------------- MODULE OperationsProofs --------------------------
(***************************************************************************)
(* What keeps the machine at work (Operations), proved for any number of   *)
(* processes, pods, launches, recoveries, games, deaths and failures.      *)
(*                                                                         *)
(* The pod hunter: SpendIsKnown is not inductive: that a create finds no   *)
(* live pod follows from what the holder of the lock has read and written  *)
(* on its way to the request (Reserved), and from there being one such     *)
(* process (Locked).                                                       *)
(*                                                                         *)
(* The supervisor: that one worker lives at most follows from what the     *)
(* supervisor has seen before it launches (Cleared, Seen), and that        *)
(* nothing of a game that ended is written off from what a recovery has    *)
(* seen under its lock (Exclusive, Writing, WrittenOff).  All this holds   *)
(* until a launcher slips through the two looks of a supervisor (unseen).  *)
(***************************************************************************)
EXTENDS Operations, FiniteSetTheorems, TLAPS

-----------------------------------------------------------------------------
(* The pod hunter: what it may spend.                                        *)

Places == {"down", "lock", "sleep", "read", "check", "source", "probe", "offer", "post",
           "keep", "verify"}

TypeOK ==
    /\ file \in [candidate : Pods \cup {None}, pending : BOOLEAN]
    /\ lock \in Hunters \cup {Nobody}
    /\ hunter \in [Hunters -> [pc : Places, claim : BOOLEAN, offers : Offers,
                               id : Pods \cup {None}]]
    /\ pod \in [Pods -> {"none", "live", "ended"}]
    /\ marker \in [claim : BOOLEAN, complete : BOOLEAN]
    /\ \A h \in Hunters : hunter[h].pc = "post" => hunter[h].offers > 0

\* Whoever is past the lock holds it.
Locked == \A h \in Hunters : hunter[h].pc \notin {"down", "lock"} => lock = h

\* What state.json says at each step of an iteration.
Reserved ==
    \A h \in Hunters :
        /\ hunter[h].pc = "check" => file.candidate # None
        /\ hunter[h].pc \in {"source", "probe", "offer"} =>
               file.candidate = None /\ ~file.pending
        /\ hunter[h].pc = "post" => file.candidate = None /\ file.pending /\ Live = {}
        /\ hunter[h].pc = "keep" =>
               /\ file.candidate = None /\ file.pending
               /\ hunter[h].id \in Pods /\ Live \subseteq {hunter[h].id}

OneLive == \A p, q \in Live : p = q

SpendInv == TypeOK /\ Locked /\ Reserved /\ OneLive /\ LivePodIsKnown

\* A set of pods with one member at most has a cardinality of one at most.
LEMMA OneLiveIsOne == OneLive => NoDuplicateSpend
<1> SUFFICES ASSUME OneLive PROVE Cardinality(Live) <= 1 BY DEF NoDuplicateSpend
<1>1. CASE Live = {} BY <1>1, FS_EmptySet
<1>2. CASE Live # {}
  <2>1. PICK p : p \in Live BY <1>2
  <2>2. Live = {p} BY <2>1 DEF OneLive
  <2>3. Cardinality({p}) = 1 BY FS_Singleton
  <2> QED BY <2>2, <2>3
<1> QED BY <1>1, <1>2

LEMMA SpendInvInit == Init => SpendInv
<1> SUFFICES ASSUME Init PROVE SpendInv OBVIOUS
<1>1. TypeOK
  BY BoundAssumption, SMT DEF Init, TypeOK, Places, Offers, Down, None
<1>2. Live = {} BY SMT DEF Init, Live
<1>3. Locked /\ Reserved BY SMT DEF Init, Locked, Reserved, Down
<1> QED BY <1>1, <1>2, <1>3 DEF SpendInv, OneLive, LivePodIsKnown

-----------------------------------------------------------------------------
(* The holder of the lock.                                                   *)

\* Nobody else is past the lock.
LEMMA Alone ==
    ASSUME SpendInv, NEW h \in Hunters, hunter[h].pc \notin {"down", "lock"}
    PROVE  /\ lock = h /\ lock # Nobody
           /\ \A g \in Hunters \ {h} : hunter[g].pc \in {"down", "lock"}
BY HuntersAssumption DEF SpendInv, Locked, Nobody

Iteration == [pc : Places, claim : BOOLEAN, offers : Offers, id : Pods \cup {None}]

\* A step of the iteration of h, which leaves it at r with what Reserved asks of r.
LEMMA HolderStep ==
    ASSUME SpendInv, NEW h \in Hunters, hunter[h].pc \notin {"down", "lock"},
           UNCHANGED <<lock, marker>>,
           NEW r \in Iteration, r.pc \notin {"down", "lock"},
           hunter' = [hunter EXCEPT ![h] = r],
           file' \in [candidate : Pods \cup {None}, pending : BOOLEAN],
           pod' \in [Pods -> {"none", "live", "ended"}],
           r.pc = "check" => file'.candidate # None,
           r.pc \in {"source", "probe", "offer"} => file'.candidate = None /\ ~file'.pending,
           r.pc = "post" => /\ r.offers > 0 /\ Live' = {}
                            /\ file'.candidate = None /\ file'.pending,
           r.pc = "keep" => /\ file'.candidate = None /\ file'.pending
                            /\ r.id \in Pods /\ Live' \subseteq {r.id},
           OneLive', LivePodIsKnown'
    PROVE  SpendInv'
<1>1. \A g \in Hunters : hunter'[g] = IF g = h THEN r ELSE hunter[g]
  BY DEF SpendInv, TypeOK
<1>2. TypeOK' BY <1>1, SMT DEF SpendInv, TypeOK, Iteration
<1>3. Locked' BY <1>1, Alone, SMT DEF Locked
<1>4. Reserved'
  <2> SUFFICES ASSUME NEW g \in Hunters
               PROVE  /\ hunter'[g].pc = "check" => file'.candidate # None
                      /\ hunter'[g].pc \in {"source", "probe", "offer"} =>
                             file'.candidate = None /\ ~file'.pending
                      /\ hunter'[g].pc = "post" =>
                             file'.candidate = None /\ file'.pending /\ Live' = {}
                      /\ hunter'[g].pc = "keep" =>
                             /\ file'.candidate = None /\ file'.pending
                             /\ hunter'[g].id \in Pods /\ Live' \subseteq {hunter'[g].id}
    BY DEF Reserved
  <2>1. CASE g = h BY <1>1, <2>1
  <2>2. CASE g # h
    <3>1. hunter'[g].pc \in {"down", "lock"} BY <1>1, <2>2, Alone
    <3> QED BY <3>1
  <2> QED BY <2>1, <2>2
<1> QED BY <1>2, <1>3, <1>4 DEF SpendInv

\* What a hunter's record is after each of the two ways an iteration moves on.
LEMMA Moves ==
    ASSUME TypeOK, NEW h \in Hunters
    PROVE  /\ hunter[h] \in Iteration
           /\ \A pc \in Places : [hunter[h] EXCEPT !.pc = pc] \in Iteration
           /\ [hunter[h] EXCEPT !.pc = "sleep", !.offers = 0, !.id = None] \in Iteration
<1>1. hunter[h] \in Iteration BY DEF TypeOK, Iteration
<1>2. \A pc \in Places : [hunter[h] EXCEPT !.pc = pc] \in Iteration BY <1>1 DEF Iteration
<1>3. 0 \in Offers /\ "sleep" \in Places /\ None \in Pods \cup {None}
  BY BoundAssumption DEF Offers, Places
<1>4. [hunter[h] EXCEPT !.pc = "sleep", !.offers = 0, !.id = None] \in Iteration
  BY <1>1, <1>3 DEF Iteration
<1> QED BY <1>1, <1>2, <1>4

\* The steps that write neither state.json nor the provider.
LEMMA StillStep ==
    ASSUME SpendInv, NEW h \in Hunters, hunter[h].pc \notin {"down", "lock"},
           UNCHANGED <<file, lock, pod, marker>>,
           NEW r \in Iteration, r.pc \notin {"down", "lock", "post", "keep"},
           hunter' = [hunter EXCEPT ![h] = r],
           r.pc = "check" => file.candidate # None,
           r.pc \in {"source", "probe", "offer"} => file.candidate = None /\ ~file.pending
    PROVE  SpendInv'
<1>1. Live' = Live BY DEF Live
<1>2. OneLive' /\ LivePodIsKnown' BY <1>1 DEF SpendInv, OneLive, LivePodIsKnown
<1>3. /\ file' \in [candidate : Pods \cup {None}, pending : BOOLEAN]
      /\ pod' \in [Pods -> {"none", "live", "ended"}]
  BY DEF SpendInv, TypeOK
<1> QED BY <1>2, <1>3, HolderStep

LEMMA SleepStep ==
    ASSUME SpendInv, NEW h \in Hunters, hunter[h].pc \notin {"down", "lock"},
           UNCHANGED <<file, lock, pod, marker>>, Sleep(h)
    PROVE  SpendInv'
<1> DEFINE r == [hunter[h] EXCEPT !.pc = "sleep", !.offers = 0, !.id = None]
<1>1. r \in Iteration BY Moves DEF SpendInv
<1>2. r.pc = "sleep" BY <1>1 DEF Iteration, SpendInv, TypeOK
<1>3. hunter' = [hunter EXCEPT ![h] = r] BY DEF Sleep
<1> HIDE DEF r
<1> QED BY <1>1, <1>2, <1>3, StillStep

\* An iteration goes on to another place, with nothing written.
LEMMA AtStep ==
    ASSUME SpendInv, NEW h \in Hunters, hunter[h].pc \notin {"down", "lock"},
           UNCHANGED <<file, lock, pod, marker>>,
           NEW pc \in Places \ {"down", "lock", "post", "keep"}, At(h, pc),
           pc = "check" => file.candidate # None,
           pc \in {"source", "probe", "offer"} => file.candidate = None /\ ~file.pending
    PROVE  SpendInv'
<1> DEFINE r == [hunter[h] EXCEPT !.pc = pc]
<1>1. r \in Iteration BY Moves DEF SpendInv
<1>2. r.pc = pc BY Moves DEF SpendInv, Iteration
<1>3. hunter' = [hunter EXCEPT ![h] = r] BY DEF At
<1> HIDE DEF r
<1> QED BY <1>1, <1>2, <1>3, StillStep

-----------------------------------------------------------------------------
(* The actions of an iteration.                                              *)

LEMMA ReadStep ==
    ASSUME SpendInv, NEW h \in Hunters, Read(h)
    PROVE  SpendInv'
<1> USE DEF Read, Places
<1>1. hunter[h].pc \notin {"down", "lock"} /\ UNCHANGED <<file, lock, pod, marker>> OBVIOUS
<1>2. CASE file.candidate # None /\ At(h, "check") BY <1>1, <1>2, AtStep
<1>3. CASE Sleep(h) BY <1>1, <1>3, SleepStep
<1>4. CASE file.candidate = None /\ ~file.pending /\ At(h, "source") BY <1>1, <1>4, AtStep
<1> QED BY <1>2, <1>3, <1>4

LEMMA CandidateGoneStep ==
    ASSUME SpendInv, NEW h \in Hunters, CandidateGone(h)
    PROVE  SpendInv'
<1> DEFINE r == [hunter[h] EXCEPT !.pc = "source"]
<1>1. hunter[h].pc = "check" /\ UNCHANGED <<lock, pod, marker>> BY DEF CandidateGone
<1>2. r \in Iteration BY Moves DEF SpendInv, Places
<1>3. r.pc = "source" BY Moves DEF SpendInv, Iteration
<1>4. hunter' = [hunter EXCEPT ![h] = r] BY DEF CandidateGone, At
<1>5. file' = [candidate |-> None, pending |-> FALSE] BY DEF CandidateGone, Record
<1>6. Live = {}
  BY <1>1 DEF CandidateGone, SpendInv, Reserved, LivePodIsKnown
<1>7. Live' = {} BY <1>1, <1>6 DEF Live
<1>8. OneLive' /\ LivePodIsKnown' BY <1>7 DEF OneLive, LivePodIsKnown
<1>9. pod' \in [Pods -> {"none", "live", "ended"}] BY <1>1 DEF SpendInv, TypeOK
<1> HIDE DEF r
<1> QED BY <1>1, <1>2, <1>3, <1>4, <1>5, <1>8, <1>9, HolderStep

LEMMA CheckSourceStep ==
    ASSUME SpendInv, NEW h \in Hunters, CheckSource(h)
    PROVE  SpendInv'
<1>1. hunter[h].pc = "source" /\ UNCHANGED <<file, lock, pod, marker>> BY DEF CheckSource
<1>2. file.candidate = None /\ ~file.pending BY <1>1 DEF SpendInv, Reserved
<1>3. CASE At(h, "probe") BY <1>1, <1>2, <1>3, AtStep DEF Places
<1>4. CASE Sleep(h) BY <1>1, <1>4, SleepStep
<1> QED BY <1>3, <1>4 DEF CheckSource

LEMMA ProbeStep ==
    ASSUME SpendInv, NEW h \in Hunters, Probe(h)
    PROVE  SpendInv'
<1>1. hunter[h].pc = "probe" /\ UNCHANGED <<file, lock, pod, marker>> BY DEF Probe
<1>2. file.candidate = None /\ ~file.pending BY <1>1 DEF SpendInv, Reserved
<1>3. CASE Sleep(h) BY <1>1, <1>3, SleepStep
<1>4. ASSUME NEW n \in Offers,
             hunter' = [hunter EXCEPT ![h] = [@ EXCEPT !.pc = "offer", !.offers = n]]
      PROVE  SpendInv'
  <2> DEFINE r == [hunter[h] EXCEPT !.pc = "offer", !.offers = n]
  <2>0. hunter[h] \in Iteration BY Moves DEF SpendInv
  <2>1. r \in Iteration /\ r.pc = "offer" BY <2>0 DEF Iteration, Places
  <2>2. hunter' = [hunter EXCEPT ![h] = r] BY <1>4
  <2> HIDE DEF r
  <2> QED BY <1>1, <1>2, <2>1, <2>2, StillStep
<1> QED BY <1>3, <1>4 DEF Probe

LEMMA MarkStep ==
    ASSUME SpendInv, NEW h \in Hunters, Mark(h)
    PROVE  SpendInv'
<1> DEFINE r == [hunter[h] EXCEPT !.pc = "post"]
<1>1. hunter[h].pc = "offer" /\ UNCHANGED <<lock, pod, marker>> BY DEF Mark
<1>2. CASE hunter[h].offers = 0 BY <1>1, <1>2, SleepStep DEF Mark
<1>3. CASE hunter[h].offers # 0
  <2>1. file' = [candidate |-> None, pending |-> TRUE] BY <1>3 DEF Mark, Record
  <2>2. r \in Iteration BY Moves DEF SpendInv, Places
  <2>3. r.pc = "post" /\ r.offers = hunter[h].offers BY Moves DEF SpendInv, Iteration
  <2>0. hunter[h].offers \in Offers BY Moves DEF SpendInv, Iteration
  <2>4. hunter[h].offers > 0 BY <1>3, <2>0, BoundAssumption DEF Offers
  <2>5. hunter' = [hunter EXCEPT ![h] = r] BY <1>3 DEF Mark, At
  <2>6. Live = {} BY <1>1 DEF SpendInv, Reserved, LivePodIsKnown, Live, None, Pods
  <2>7. Live' = {} BY <1>1, <2>6 DEF Live
  <2>8. OneLive' /\ LivePodIsKnown' BY <2>7 DEF OneLive, LivePodIsKnown
  <2>9. pod' \in [Pods -> {"none", "live", "ended"}] BY <1>1 DEF SpendInv, TypeOK
  <2> HIDE DEF r
  <2> QED BY <1>1, <2>1, <2>2, <2>3, <2>4, <2>5, <2>7, <2>8, <2>9, HolderStep
<1> QED BY <1>2, <1>3

\* After a create, accepted with its id or without anybody knowing, one pod lives.
LEMMA OneMore ==
    ASSUME SpendInv, NEW h \in Hunters, hunter[h].pc = "post",
           NEW p \in Fresh, pod' = [pod EXCEPT ![p] = "live"], UNCHANGED file
    PROVE  /\ Live' = {p} /\ p \in Pods
           /\ pod' \in [Pods -> {"none", "live", "ended"}]
           /\ OneLive' /\ LivePodIsKnown'
<1>1. file.candidate = None /\ file.pending /\ Live = {} BY DEF SpendInv, Reserved
<1>2. p \in Pods /\ pod' \in [Pods -> {"none", "live", "ended"}] BY DEF Fresh, SpendInv, TypeOK
<1>3. \A q \in Pods : pod'[q] = IF q = p THEN "live" ELSE pod[q] BY DEF SpendInv, TypeOK
<1>4. Live' = {p} BY <1>1, <1>2, <1>3 DEF Live
<1> QED BY <1>1, <1>2, <1>4 DEF OneLive, LivePodIsKnown

LEMMA CreatedStep ==
    ASSUME SpendInv, NEW h \in Hunters, Created(h)
    PROVE  SpendInv'
<1>1. hunter[h].pc = "post" /\ UNCHANGED <<file, lock, marker>> BY DEF Created
<1>2. PICK p \in Fresh : /\ pod' = [pod EXCEPT ![p] = "live"]
                         /\ hunter' = [hunter EXCEPT ![h] = [@ EXCEPT !.pc = "keep", !.id = p]]
  BY DEF Created
<1> DEFINE r == [hunter[h] EXCEPT !.pc = "keep", !.id = p]
<1>3. /\ Live' = {p} /\ p \in Pods /\ pod' \in [Pods -> {"none", "live", "ended"}]
      /\ OneLive' /\ LivePodIsKnown'
  BY <1>1, <1>2, OneMore
<1>4. hunter[h] \in Iteration BY Moves DEF SpendInv
<1>5. r \in Iteration /\ r.pc = "keep" /\ r.id = p BY <1>3, <1>4 DEF Iteration, Places
<1>6. hunter' = [hunter EXCEPT ![h] = r] BY <1>2
<1>7. file'.candidate = None /\ file'.pending BY <1>1 DEF SpendInv, Reserved
<1>8. file' \in [candidate : Pods \cup {None}, pending : BOOLEAN] BY <1>1 DEF SpendInv, TypeOK
<1> HIDE DEF r
<1> QED BY <1>1, <1>3, <1>5, <1>6, <1>7, <1>8, HolderStep

\* A hunter at rest asks nothing of state.json.
LEMMA RestStep ==
    ASSUME SpendInv, NEW h \in Hunters, hunter[h].pc \notin {"down", "lock"},
           UNCHANGED <<lock, marker>>, Sleep(h),
           file' \in [candidate : Pods \cup {None}, pending : BOOLEAN],
           pod' \in [Pods -> {"none", "live", "ended"}],
           OneLive', LivePodIsKnown'
    PROVE  SpendInv'
<1> DEFINE r == [hunter[h] EXCEPT !.pc = "sleep", !.offers = 0, !.id = None]
<1>1. r \in Iteration BY Moves DEF SpendInv
<1>2. hunter[h] \in Iteration BY Moves DEF SpendInv
<1>3. r.pc = "sleep" BY <1>2 DEF Iteration
<1>4. hunter' = [hunter EXCEPT ![h] = r] BY DEF Sleep
<1> HIDE DEF r
<1> QED BY <1>1, <1>3, <1>4, HolderStep

LEMMA AnswerLostStep ==
    ASSUME SpendInv, NEW h \in Hunters, AnswerLost(h)
    PROVE  SpendInv'
<1>1. /\ hunter[h].pc = "post" /\ Sleep(h) /\ UNCHANGED <<file, lock, marker>>
  BY DEF AnswerLost
<1>2. CASE UNCHANGED pod BY <1>1, <1>2, SleepStep
<1>3. ASSUME NEW p \in Fresh, pod' = [pod EXCEPT ![p] = "live"]
      PROVE  SpendInv'
  <2>1. /\ pod' \in [Pods -> {"none", "live", "ended"}] /\ OneLive' /\ LivePodIsKnown'
    BY <1>1, <1>3, OneMore
  <2>2. file' \in [candidate : Pods \cup {None}, pending : BOOLEAN]
    BY <1>1 DEF SpendInv, TypeOK
  <2> QED BY <1>1, <2>1, <2>2, RestStep
<1> QED BY <1>2, <1>3 DEF AnswerLost

LEMMA RejectedStep ==
    ASSUME SpendInv, NEW h \in Hunters, Rejected(h)
    PROVE  SpendInv'
<1>1. hunter[h].pc = "post" /\ UNCHANGED <<lock, pod, marker>> BY DEF Rejected
<1>2. file' = [candidate |-> None, pending |-> FALSE] BY DEF Rejected, Record
<1>3. Live' = {} BY <1>1 DEF SpendInv, Reserved, Live
<1>4. OneLive' /\ LivePodIsKnown' BY <1>3 DEF OneLive, LivePodIsKnown
<1>5. pod' \in [Pods -> {"none", "live", "ended"}] BY <1>1 DEF SpendInv, TypeOK
<1>6. file' \in [candidate : Pods \cup {None}, pending : BOOLEAN] BY <1>2
<1>7. CASE Sleep(h) BY <1>1, <1>4, <1>5, <1>6, <1>7, RestStep
<1>8. CASE hunter' = [hunter EXCEPT ![h].pc = "offer", ![h].offers = @ - 1]
  <2> DEFINE r == [hunter[h] EXCEPT !.pc = "offer", !.offers = @ - 1]
  <2>1. hunter[h] \in Iteration BY Moves DEF SpendInv
  <2>2. hunter[h].offers > 0 /\ hunter[h].offers \in Offers
    BY <1>1, <2>1 DEF SpendInv, TypeOK, Iteration
  <2>3. hunter[h].offers - 1 \in Offers BY <2>2, BoundAssumption DEF Offers
  <2>4. r \in Iteration /\ r.pc = "offer" BY <2>1, <2>3 DEF Iteration, Places
  <2>5. hunter' = [hunter EXCEPT ![h] = r] BY <1>8 DEF SpendInv, TypeOK
  <2> HIDE DEF r
  <2> QED BY <1>1, <1>2, <1>4, <1>5, <1>6, <2>4, <2>5, HolderStep
<1> QED BY <1>7, <1>8 DEF Rejected

LEMMA KeepStep ==
    ASSUME SpendInv, NEW h \in Hunters, Keep(h)
    PROVE  SpendInv'
<1> DEFINE r == [hunter[h] EXCEPT !.pc = "verify"]
<1>1. hunter[h].pc = "keep" /\ UNCHANGED <<lock, pod, marker>> BY DEF Keep
<1>2. hunter[h].id \in Pods /\ Live \subseteq {hunter[h].id}
  BY <1>1 DEF SpendInv, Reserved
<1>3. file' = [candidate |-> hunter[h].id, pending |-> FALSE] BY DEF Keep, Record
<1>4. Live' = Live BY <1>1 DEF Live
<1>5. OneLive' /\ LivePodIsKnown' BY <1>2, <1>3, <1>4 DEF OneLive, LivePodIsKnown
<1>6. pod' \in [Pods -> {"none", "live", "ended"}] BY <1>1 DEF SpendInv, TypeOK
<1>7. r \in Iteration BY Moves DEF SpendInv, Places
<1>8. hunter[h] \in Iteration BY Moves DEF SpendInv
<1>9. r.pc = "verify" BY <1>8 DEF Iteration
<1>10. hunter' = [hunter EXCEPT ![h] = r] BY DEF Keep, At
<1> HIDE DEF r
<1> QED BY <1>1, <1>2, <1>3, <1>5, <1>6, <1>7, <1>9, <1>10, HolderStep

-----------------------------------------------------------------------------
(* Processes, and what is outside.                                           *)

\* A process that starts, dies, ends or takes the lock.
LEMMA ProcessStep ==
    ASSUME SpendInv, NEW h \in Hunters, Start(h) \/ Lock(h) \/ Die(h) \/ Wake(h)
    PROVE  SpendInv'
<1>1. UNCHANGED <<file, pod, marker>> BY DEF Start, Lock, Die, Wake
<1>2. Live' = Live BY <1>1 DEF Live
<1>3. OneLive' /\ LivePodIsKnown' BY <1>1, <1>2 DEF SpendInv, OneLive, LivePodIsKnown
<1>4. PICK r \in Iteration : /\ r.pc \in {"down", "lock", "read"}
                             /\ hunter' = [hunter EXCEPT ![h] = r]
  <2>1. Down \in Iteration /\ Down.pc = "down"
    BY BoundAssumption DEF Down, Iteration, Places, Offers, None
  <2>2. [hunter[h] EXCEPT !.pc = "read"] \in Iteration BY Moves DEF SpendInv, Places
  <2>3. hunter[h] \in Iteration BY Moves DEF SpendInv
  <2>4. [hunter[h] EXCEPT !.pc = "read"].pc = "read" BY <2>3 DEF Iteration
  <2>5. [Down EXCEPT !.pc = "lock", !.claim = marker.claim] \in Iteration
    BY <2>1 DEF SpendInv, TypeOK, Iteration, Places
  <2>6. [Down EXCEPT !.pc = "lock", !.claim = marker.claim].pc = "lock" BY DEF Down
  <2>7. CASE Start(h) BY <2>5, <2>6, <2>7 DEF Start
  <2>8. CASE Die(h) BY <2>1, <2>8 DEF Die
  <2>9. CASE hunter' = [hunter EXCEPT ![h] = Down] BY <2>1, <2>9
  <2>10. CASE At(h, "read") BY <2>2, <2>4, <2>10 DEF At
  <2> QED BY <2>7, <2>8, <2>9, <2>10 DEF Lock, Wake
<1>5. \A g \in Hunters : hunter'[g] = IF g = h THEN r ELSE hunter[g]
  BY <1>4 DEF SpendInv, TypeOK
<1>6. lock' \in Hunters \cup {Nobody} BY DEF SpendInv, TypeOK, Start, Lock, Die, Wake
<1>7. TypeOK'
  <2>1. hunter' \in [Hunters -> Iteration] BY <1>4 DEF SpendInv, TypeOK, Iteration
  <2>2. \A g \in Hunters : hunter'[g].pc = "post" => hunter'[g].offers > 0
    BY <1>4, <1>5 DEF SpendInv, TypeOK
  <2> QED BY <1>1, <1>6, <2>1, <2>2 DEF SpendInv, TypeOK, Iteration
<1>8. Locked'
  <2> SUFFICES ASSUME NEW g \in Hunters, hunter'[g].pc \notin {"down", "lock"}
               PROVE  lock' = g
    BY DEF Locked
  <2>1. hunter[h].pc \notin {"down", "lock"} => lock = h BY DEF SpendInv, Locked
  <2>2. CASE g = h
    <3>1. r.pc = "read" BY <1>4, <1>5, <2>2
    <3>2. \A x : hunter' = [hunter EXCEPT ![h] = x] => x = r
      BY <1>4 DEF SpendInv, TypeOK
    <3>3. Down.pc # "read" /\ [Down EXCEPT !.pc = "lock", !.claim = marker.claim].pc # "read"
      BY DEF Down
    <3>4. ~Start(h) /\ ~Die(h) /\ hunter' # [hunter EXCEPT ![h] = Down]
      BY <3>1, <3>2, <3>3 DEF Start, Die
    <3>5. CASE Lock(h) BY <2>2, <3>4, <3>5 DEF Lock
    <3>6. CASE Wake(h) BY <2>1, <2>2, <3>4, <3>6 DEF Wake
    <3> QED BY <3>4, <3>5, <3>6
  <2>3. CASE g # h
    <3>1. hunter[g].pc \notin {"down", "lock"} BY <1>5, <2>3
    <3>2. lock = g /\ hunter[h].pc \in {"down", "lock"} /\ lock # Nobody
      BY <2>3, <3>1, Alone
    <3>3. UNCHANGED lock BY <2>3, <3>2 DEF Start, Lock, Die, Wake
    <3> QED BY <3>2, <3>3
  <2> QED BY <2>2, <2>3
<1>9. Reserved'
  BY <1>1, <1>2, <1>4, <1>5 DEF SpendInv, Reserved
<1> QED BY <1>3, <1>7, <1>8, <1>9 DEF SpendInv

\* A pod that ends changes nothing in state.json: what is known stays known.
LEMMA OutsideStep ==
    ASSUME SpendInv, SourceStops \/ UpgradeComplete \/ Authorise \/ \E p \in Pods : PodEnds(p)
    PROVE  SpendInv'
<1>1. UNCHANGED <<file, lock, hunter>>
  BY DEF SourceStops, UpgradeComplete, Authorise, PodEnds
<1>2. pod' \in [Pods -> {"none", "live", "ended"}] /\ Live' \subseteq Live
  <2>1. CASE UNCHANGED pod BY <2>1 DEF SpendInv, TypeOK, Live
  <2>2. ASSUME NEW p \in Pods, PodEnds(p)
        PROVE  pod' \in [Pods -> {"none", "live", "ended"}] /\ Live' \subseteq Live
    BY <2>2 DEF PodEnds, SpendInv, TypeOK, Live
  <2> QED BY <2>1, <2>2 DEF SourceStops, UpgradeComplete, Authorise
<1>3. marker' \in [claim : BOOLEAN, complete : BOOLEAN]
  BY DEF SourceStops, UpgradeComplete, Authorise, PodEnds, SpendInv, TypeOK
<1>4. TypeOK' /\ Locked' BY <1>1, <1>2, <1>3 DEF SpendInv, TypeOK, Locked
<1>5. Reserved' BY <1>1, <1>2 DEF SpendInv, Reserved
<1>6. OneLive' /\ LivePodIsKnown' BY <1>1, <1>2 DEF SpendInv, OneLive, LivePodIsKnown
<1> QED BY <1>4, <1>5, <1>6 DEF SpendInv

LEMMA SpendInvNext == SpendInv /\ [Next]_vars => SpendInv'
<1> SUFFICES ASSUME SpendInv, [Next]_vars PROVE SpendInv' OBVIOUS
<1>1. ASSUME NEW h \in Hunters, Start(h) \/ main(h) \/ Die(h) PROVE SpendInv'
  <2>1. CASE Start(h) \/ Lock(h) \/ Die(h) \/ Wake(h) BY <2>1, ProcessStep
  <2>2. CASE Read(h) BY <2>2, ReadStep
  <2>3. CASE CandidateGone(h) BY <2>3, CandidateGoneStep
  <2>4. CASE CandidateHeld(h) \/ RequestFails(h) \/ verify_candidate(h)
    <3>1. /\ hunter[h].pc \notin {"down", "lock"} /\ Sleep(h)
          /\ UNCHANGED <<file, lock, pod, marker>>
      BY <2>4 DEF CandidateHeld, RequestFails, verify_candidate
    <3> QED BY <3>1, SleepStep
  <2>5. CASE CheckSource(h) BY <2>5, CheckSourceStep
  <2>6. CASE Probe(h) BY <2>6, ProbeStep
  <2>7. CASE Mark(h) BY <2>7, MarkStep
  <2>8. CASE Created(h) BY <2>8, CreatedStep
  <2>9. CASE AnswerLost(h) BY <2>9, AnswerLostStep
  <2>10. CASE Rejected(h) BY <2>10, RejectedStep
  <2>11. CASE Keep(h) BY <2>11, KeepStep
  <2> QED BY <1>1, <2>1, <2>2, <2>3, <2>4, <2>5, <2>6, <2>7, <2>8, <2>9, <2>10, <2>11
          DEF main, run_iteration
<1>2. CASE SourceStops \/ UpgradeComplete \/ Authorise \/ \E p \in Pods : PodEnds(p)
  BY <1>2, OutsideStep
<1>3. CASE UNCHANGED vars
  <2>1. UNCHANGED <<file, lock, hunter, pod, marker>> BY <1>3 DEF vars
  <2> QED BY <2>1 DEF SpendInv, TypeOK, Locked, Reserved, OneLive, LivePodIsKnown, Live
<1> QED BY <1>1, <1>2, <1>3 DEF Next

-----------------------------------------------------------------------------
(* The theorems.                                                             *)

\* The hunter's state keeps its shape.
THEOREM HunterTypeCorrect == Spec => []TypeOK
<1>1. SpendInv => TypeOK BY DEF SpendInv
<1> QED BY <1>1, SpendInvInit, SpendInvNext, PTL DEF Spec

\* However many hunters are started, die or lose an answer, one paid pod lives at
\* most, and the disk knows of it (run_iteration and its claim_pending).
THEOREM SpendIsAlwaysKnown == Spec => []SpendIsKnown
<1>1. SpendInv => SpendIsKnown BY OneLiveIsOne DEF SpendInv, SpendIsKnown
<1> QED BY <1>1, SpendInvInit, SpendInvNext, PTL DEF Spec

-----------------------------------------------------------------------------
(* The supervisor and its recovery: what keeps processes apart.              *)

\* Launchers and workers that live.
Alive == {i \in Sup!Launches : procs[i] \in {"launcher", "both", "worker"}}

Steps == {"none", "start", "lock", "observe", "recheck", "append", "game", "report",
          "authority", "clear"}
Early == {"none", "start", "lock"}
Looking == Early \cup {"observe", "recheck"}

Stations == {"down", "scan", "evaluate", "recovering", "verify", "child", "done"}
SupRecord == [pc : Stations, workers : SUBSET Sup!Launches, child : Nat, unseen : BOOLEAN]
DiskRecord == [games : SUBSET Games, ended : SUBSET Games, pending : BOOLEAN,
               torn : BOOLEAN, complete : BOOLEAN, hold : BOOLEAN]
CaseRecord == [named : BOOLEAN, launcher : {"waits", "execs", "dies"}, deaths : Nat,
               torn : BOOLEAN, faults : BOOLEAN, holds : BOOLEAN]
Recovery == [pc : Steps, games : SUBSET Games]

SupTypes ==
    /\ procs \in [Sup!Launches -> {"unborn", "launcher", "both", "worker", "gone"}]
    /\ disk \in DiskRecord
    /\ ledger \in [scored : SUBSET Games, failed : SUBSET Games]
    /\ remote \in [evidence : SUBSET Games, report : SUBSET Games, cleared : BOOLEAN]
    /\ log \in {"none", "timeout", "other"}
    /\ sup \in SupRecord
    /\ rec \in [Sup!Recoveries -> Recovery]
    /\ attempts \in [count : 0..Sup!DayAttempts, cooled : BOOLEAN]
    /\ left \in CaseRecord

\* Before the supervisor recovers or launches it has seen that nobody lives, and
\* before it launches that the directory is clean; nobody can change that but itself.
Cleared ==
    /\ sup.pc = "recovering" => sup.child \in Sup!Recoveries
    /\ sup.pc = "child" => sup.child \in Sup!Launches
    /\ sup.pc \in {"recovering", "verify"} => Alive = {}
    /\ sup.pc = "verify" => disk.games = {} /\ ~disk.pending /\ ~disk.complete

\* Who lives while the supervisor evaluates is seen by its look for launchers, or was
\* seen by that for workers.
Seen ==
    sup.pc = "evaluate" => \A i \in Alive : procs[i] \in {"launcher", "both"} \/ i \in sup.workers

\* One recovery at a time is past the lock.  From its second look on, the games it
\* writes off are those of the directory, and nobody lives who could start or end one.
Exclusive ==
    \A q, r \in Sup!Recoveries : rec[q].pc \notin Early /\ rec[r].pc \notin Early => q = r

Writing ==
    \A r \in Sup!Recoveries : rec[r].pc \notin Looking =>
        /\ Alive = {} /\ disk.games = rec[r].games /\ disk.games # {}
        /\ disk.games \cap disk.ended = {}
        /\ rec[r].pc # "append" => disk.games \subseteq ledger.failed
        /\ rec[r].pc \in {"report", "authority", "clear"} => disk.games \subseteq remote.evidence
        /\ rec[r].pc \in {"authority", "clear"} => disk.games \subseteq remote.report

\* A worker never has a game that was written off.
WrittenOff ==
    /\ Alive # {} => disk.games \cap ledger.failed = {}
    /\ ledger.failed \cap disk.ended = {}
    /\ remote.evidence \subseteq ledger.failed /\ remote.report \subseteq remote.evidence

OneAlive == \A i, j \in Alive : i = j

SupervisorInv ==
    SupTypes /\ Cleared /\ Seen /\ Exclusive /\ Writing /\ WrittenOff /\ OneAlive

\* The invariant of every behaviour: once a worker slipped through, only the types are left.
Unslipped == SupTypes /\ (sup.unseen \/ SupervisorInv)

LEMMA SupervisorInvInit == Sup!Init => SupervisorInv
<1> SUFFICES ASSUME Sup!Init PROVE SupervisorInv OBVIOUS
<1>1. SupTypes
  BY CasesAssumption, SMT DEF Sup!Init, SupTypes, SupRecord, Stations, DiskRecord, CaseRecord, Recovery, Steps,
                           Sup!DayAttempts
<1>2. Alive = {} BY SMT DEF Sup!Init, Alive
<1>3. Cleared BY SMT DEF Sup!Init, Cleared
<1>4. Seen BY <1>2 DEF Seen
<1>5. Exclusive /\ Writing BY SMT DEF Sup!Init, Exclusive, Writing, Early, Looking
<1>6. WrittenOff /\ OneAlive BY <1>2 DEF Sup!Init, WrittenOff, OneAlive
<1> QED BY <1>1, <1>3, <1>4, <1>5, <1>6 DEF SupervisorInv

-----------------------------------------------------------------------------
(* Launcher and worker.                                                      *)

\* A step of the one that lives: nobody recovers or launches beside it.
LEMMA LivingStep ==
    ASSUME SupervisorInv, NEW i \in Alive, UNCHANGED <<remote, sup, rec, attempts, left>>,
           NEW p \in {"launcher", "both", "worker", "gone"}, procs' = [procs EXCEPT ![i] = p],
           sup.pc = "evaluate" /\ p = "worker" => i \in sup.workers,
           SupTypes', WrittenOff'
    PROVE  SupervisorInv'
<1>1. Alive = {i} BY DEF SupervisorInv, OneAlive
<1>2. procs[i] \in {"launcher", "both", "worker"} /\ i \in Sup!Launches BY DEF Alive
<1>3. \A j \in Sup!Launches : procs'[j] = IF j = i THEN p ELSE procs[j]
  BY DEF SupervisorInv, SupTypes
<1>4. Alive' \subseteq {i} /\ (Alive' # {} => p # "gone") BY <1>1, <1>3 DEF Alive
<1>5. Cleared' BY <1>1 DEF SupervisorInv, Cleared
<1>6. Seen' BY <1>3, <1>4, SMT DEF SupervisorInv, Seen
<1>7. Exclusive' BY DEF SupervisorInv, Exclusive
<1>8. Writing' BY <1>1 DEF SupervisorInv, Writing
<1>9. OneAlive' BY <1>4 DEF OneAlive
<1> QED BY <1>5, <1>6, <1>7, <1>8, <1>9 DEF SupervisorInv

LEMMA LauncherStep ==
    ASSUME SupervisorInv, NEW i \in Sup!Launches, ~sup'.unseen,
           Sup!Bootstrap(i) \/ Sup!BootstrapFails(i) \/ Sup!LauncherDies(i)
    PROVE  SupervisorInv'
<1> DEFINE p == procs'[i]
<1>0. UNCHANGED sup /\ (sup.pc = "evaluate" /\ procs'[i] = "worker" => i \in sup.workers)
  <2>1. sup \in SupRecord /\ procs \in [Sup!Launches -> {"unborn", "launcher", "both", "worker", "gone"}]
    BY DEF SupervisorInv, SupTypes
  <2>2. CASE Sup!Slips(i)
    <3>1. sup'.unseen = (sup.unseen \/ (sup.pc = "evaluate" /\ i \notin sup.workers))
      BY <2>1, <2>2 DEF Sup!Slips, SupRecord
    <3>2. ~(sup.pc = "evaluate" /\ i \notin sup.workers) BY <3>1
    <3>3. sup' = [sup EXCEPT !.unseen = sup.unseen] BY <2>1, <2>2, <3>2 DEF Sup!Slips, SupRecord
    <3> QED BY <2>1, <3>2, <3>3 DEF SupRecord
  <2>3. CASE UNCHANGED sup /\ procs'[i] # "worker" BY <2>3
  <2> QED BY <2>1, <2>2, <2>3, SMT DEF Sup!Bootstrap, Sup!BootstrapFails, Sup!LauncherDies
<1>1. i \in Alive
  BY DEF Sup!Bootstrap, Sup!BootstrapFails, Sup!LauncherDies, Alive
<1>2. /\ p \in {"both", "worker", "gone"} /\ procs' = [procs EXCEPT ![i] = p]
      /\ UNCHANGED <<disk, ledger, remote, sup, rec, attempts, left>>
  BY <1>0 DEF Sup!Bootstrap, Sup!BootstrapFails, Sup!LauncherDies, SupervisorInv, SupTypes
<1>3. SupTypes'
  BY <1>0, SMT DEF Sup!Bootstrap, Sup!BootstrapFails, Sup!LauncherDies, SupervisorInv, SupTypes
<1>4. WrittenOff' BY <1>1, <1>2 DEF SupervisorInv, WrittenOff
<1> QED BY <1>0, <1>1, <1>2, <1>3, <1>4, LivingStep

\* A worker that plays on.
LEMMA PlayStep ==
    ASSUME SupervisorInv, NEW i \in Sup!Launches, NEW g \in Games,
           Sup!StartGame(i, g) \/ Sup!Play(i) \/ Sup!FinishGame(i, g)
    PROVE  SupervisorInv'
<1> USE DEF Sup!StartGame, Sup!Play, Sup!FinishGame
<1>1. i \in Alive BY DEF Sup!Workers, Alive
<1>2. procs[i] \in {"both", "worker"} BY DEF Sup!Workers
<1>3. procs' = [procs EXCEPT ![i] = procs[i]] BY DEF SupervisorInv, SupTypes
<1>4. UNCHANGED <<remote, sup, rec, attempts, left>> /\ disk'.torn = disk.torn
  <2>1. disk \in DiskRecord BY DEF SupervisorInv, SupTypes
  <2> QED BY <2>1 DEF DiskRecord
<1>5. SupTypes'
  <2>1. disk \in DiskRecord /\ ledger \in [scored : SUBSET Games, failed : SUBSET Games]
    BY DEF SupervisorInv, SupTypes
  <2>2. disk' \in DiskRecord /\ ledger' \in [scored : SUBSET Games, failed : SUBSET Games]
    <3>1. CASE Sup!StartGame(i, g) BY <2>1, <3>1 DEF DiskRecord
    <3>2. CASE Sup!Play(i) BY <2>1, <3>2 DEF DiskRecord
    <3>3. CASE Sup!FinishGame(i, g) BY <2>1, <3>3 DEF DiskRecord
    <3> QED BY <3>1, <3>2, <3>3
  <2>3. UNCHANGED <<procs, log>> OBVIOUS
  <2> QED BY <1>4, <2>2, <2>3 DEF SupervisorInv, SupTypes
<1>6. WrittenOff'
  <2>1. disk \in DiskRecord /\ ledger \in [scored : SUBSET Games, failed : SUBSET Games]
    BY DEF SupervisorInv, SupTypes
  <2>2. /\ disk'.games \subseteq disk.games \cup {g} /\ (g \in ledger.failed => disk'.games \subseteq disk.games)
        /\ ledger'.failed = ledger.failed /\ disk'.ended = disk.ended
    <3>1. CASE Sup!StartGame(i, g) BY <2>1, <3>1 DEF DiskRecord, Sup!Started
    <3>2. CASE Sup!Play(i) BY <2>1, <3>2 DEF DiskRecord
    <3>3. CASE Sup!FinishGame(i, g) BY <2>1, <3>3 DEF DiskRecord
    <3> QED BY <3>1, <3>2, <3>3
  <2> QED BY <1>1, <1>4, <2>2 DEF SupervisorInv, WrittenOff
<1>7. sup.pc = "evaluate" /\ procs[i] = "worker" => i \in sup.workers
  BY <1>1 DEF SupervisorInv, Seen
<1> QED BY <1>1, <1>2, <1>3, <1>4, <1>5, <1>6, <1>7, LivingStep

\* A worker that ends.
LEMMA WorkerEndsStep ==
    ASSUME SupervisorInv, NEW i \in Sup!Launches, Sup!Complete(i) \/ Sup!WorkerDies(i)
    PROVE  SupervisorInv'
<1> USE DEF Sup!Complete, Sup!WorkerDies
<1>1. i \in Alive BY DEF Sup!Workers, Alive
<1>2. procs' = [procs EXCEPT ![i] = "gone"] /\ UNCHANGED <<ledger, remote, sup, rec, attempts, left>>
  OBVIOUS
<1>3. SupTypes'
  <2>1. CASE Sup!Complete(i)
    <3>1. disk' \in DiskRecord BY <2>1 DEF SupervisorInv, SupTypes, DiskRecord
    <3>2. log' = log /\ procs' \in [Sup!Launches -> {"unborn", "launcher", "both", "worker", "gone"}]
      BY <2>1 DEF SupervisorInv, SupTypes
    <3> QED BY <1>2, <3>1, <3>2 DEF SupervisorInv, SupTypes
  <2>2. CASE Sup!WorkerDies(i)
    <3>1. PICK why \in {"timeout", "other", "killed"}, ended \in SUBSET disk.games, torn \in BOOLEAN :
              /\ log' = IF why = "killed" THEN log ELSE why
              /\ disk' = [disk EXCEPT !.ended = @ \cup ended, !.torn = @ \/ torn]
      BY <2>2
    <3>2. disk' \in DiskRecord
      BY <3>1 DEF SupervisorInv, SupTypes, DiskRecord
    <3>3. log' \in {"none", "timeout", "other"} BY <3>1 DEF SupervisorInv, SupTypes
    <3>4. procs' \in [Sup!Launches -> {"unborn", "launcher", "both", "worker", "gone"}]
      BY <1>2 DEF SupervisorInv, SupTypes
    <3> QED BY <1>2, <3>2, <3>3, <3>4 DEF SupervisorInv, SupTypes
  <2> QED BY <2>1, <2>2
<1>4. WrittenOff'
  <2>0. disk \in DiskRecord BY DEF SupervisorInv, SupTypes
  <2>1. disk'.games = disk.games /\ disk'.ended \subseteq disk.ended \cup disk.games
    <3>1. CASE Sup!Complete(i) BY <2>0, <3>1 DEF DiskRecord
    <3>2. CASE Sup!WorkerDies(i)
      <4>1. PICK ended \in SUBSET disk.games, torn \in BOOLEAN :
                disk' = [disk EXCEPT !.ended = @ \cup ended, !.torn = @ \/ torn]
        BY <3>2
      <4> QED BY <2>0, <4>1 DEF DiskRecord
    <3> QED BY <3>1, <3>2
  <2>2. disk.games \cap ledger.failed = {} BY <1>1 DEF SupervisorInv, WrittenOff
  <2> QED BY <1>2, <2>1, <2>2 DEF SupervisorInv, WrittenOff
<1> QED BY <1>1, <1>2, <1>3, <1>4, LivingStep

-----------------------------------------------------------------------------
(* The supervisor.                                                           *)

\* A step of the supervisor that starts nobody.
LEMMA LookStep ==
    ASSUME SupervisorInv, UNCHANGED <<procs, disk, ledger, remote, log, rec, attempts, left>>,
           sup' \in SupRecord,
           Cleared', sup'.pc = "evaluate" => sup'.workers = Sup!Workers
    PROVE  SupervisorInv'
<1>1. Alive' = Alive BY DEF Alive
<1>2. SupTypes' BY DEF SupervisorInv, SupTypes
<1>3. Seen' BY <1>1 DEF Seen, Alive, Sup!Workers
<1>4. Exclusive' /\ Writing' /\ WrittenOff' /\ OneAlive'
  BY <1>1 DEF SupervisorInv, Exclusive, Writing, WrittenOff, OneAlive
<1> QED BY <1>2, <1>3, <1>4 DEF SupervisorInv

\* Nobody lives when the supervisor finds what it reads of /proc empty.
LEMMA NobodyLives ==
    ASSUME SupervisorInv, sup.pc = "evaluate", sup.workers = {}, Sup!Launchers = {}
    PROVE  Alive = {}
  BY DEF SupervisorInv, Seen, Alive, Sup!Launchers

LEMMA LooksStep ==
    ASSUME SupervisorInv,
           \/ Sup!Boot \/ Sup!ScanWorkers \/ Sup!EvaluateRaises \/ Sup!CampaignComplete
           \/ Sup!Observe \/ Sup!ManualHold \/ Sup!Reconciled \/ Sup!VerifyRaises \/ Sup!ChildExits
    PROVE  SupervisorInv'
<1> USE DEF Sup!Boot, Sup!ScanWorkers, Sup!EvaluateRaises, Sup!CampaignComplete, Sup!Observe,
            Sup!ManualHold, Sup!Reconciled, Sup!VerifyRaises, Sup!ChildExits, Sup!At, Sup!Finds
<1>1. UNCHANGED <<procs, disk, ledger, remote, log, rec, attempts, left>> OBVIOUS
<1>2. /\ sup' \in SupRecord /\ sup'.pc \in {"down", "scan", "evaluate", "done"}
      /\ sup'.pc = "evaluate" => sup'.workers = Sup!Workers
  <2> HIDE DEF Sup!At, Sup!Finds
  <2>1. sup \in SupRecord BY DEF SupervisorInv, SupTypes
  <2>2. ASSUME NEW pc \in {"down", "scan", "done"}, Sup!At(pc)
        PROVE  sup' \in SupRecord /\ sup'.pc = pc
    BY <2>1, <2>2 DEF Sup!At, SupRecord, Stations
  <2>3. CASE sup' = [sup EXCEPT !.pc = "evaluate", !.workers = Sup!Workers]
    BY <2>1, <2>3 DEF SupRecord, Stations, Sup!Workers
  <2>4. CASE sup' = [sup EXCEPT !.pc = "scan", !.child = 0] BY <2>1, <2>4 DEF SupRecord, Stations
  <2>5. \/ Sup!At("down") \/ Sup!At("scan") \/ Sup!At("done")
        \/ sup' = [sup EXCEPT !.pc = "evaluate", !.workers = Sup!Workers]
        \/ sup' = [sup EXCEPT !.pc = "scan", !.child = 0]
    OBVIOUS
  <2> QED BY <2>2, <2>3, <2>4, <2>5
<1>3. Cleared' BY <1>2 DEF Cleared
<1> QED BY <1>1, <1>2, <1>3, LookStep

\* What the supervisor finds before it starts a recovery or a launcher.
LEMMA FindsNobody ==
    ASSUME SupervisorInv, Sup!Finds("BLOCKED_RECONCILIATION") \/ Sup!Finds("SAFE_TO_RESTART")
    PROVE  /\ Alive = {}
           /\ Sup!Finds("SAFE_TO_RESTART") => disk.games = {} /\ ~disk.pending /\ ~disk.complete
<1>1. sup.workers = {} /\ Sup!Launchers = {}
  BY DEF Sup!Finds, Sup!evaluate_restart_state, Sup!LaunchersSeen
<1>2. Alive = {} BY <1>1, NobodyLives DEF Sup!Finds
<1>3. Sup!Finds("SAFE_TO_RESTART") => disk.games = {} /\ ~disk.pending /\ ~disk.complete
  BY DEF Sup!Finds, Sup!evaluate_restart_state, Sup!LaunchersSeen
<1> QED BY <1>2, <1>3

LEMMA SafeToRestartStep == ASSUME SupervisorInv, Sup!SafeToRestart PROVE SupervisorInv'
<1>1. UNCHANGED <<procs, disk, ledger, remote, log, rec, attempts, left>> BY DEF Sup!SafeToRestart
<1>2. /\ sup' \in SupRecord
      /\ sup'.pc = "verify"
  BY DEF Sup!SafeToRestart, Sup!At, SupervisorInv, SupTypes, SupRecord, Stations
<1>3. Alive = {} /\ disk.games = {} /\ ~disk.pending /\ ~disk.complete
  BY FindsNobody DEF Sup!SafeToRestart
<1>4. Alive' = {} BY <1>1, <1>3 DEF Alive
<1>5. Cleared' BY <1>1, <1>2, <1>3, <1>4 DEF Cleared
<1> QED BY <1>1, <1>2, <1>3, <1>5, LookStep

LEMMA ReconcileStep ==
    ASSUME SupervisorInv, NEW r \in Sup!Recoveries, Sup!Reconcile(r)
    PROVE  SupervisorInv'
<1>1. UNCHANGED <<procs, disk, ledger, remote, log, attempts, left>> BY DEF Sup!Reconcile
<1>2. Alive = {} BY FindsNobody DEF Sup!Reconcile
<1>3. Alive' = {} BY <1>1, <1>2 DEF Alive
<1>4. /\ sup'.pc = "recovering" /\ sup'.child = r
      /\ sup' \in SupRecord
  <2>1. sup \in SupRecord BY DEF SupervisorInv, SupTypes
  <2>2. r \in Nat BY LaunchesAssumption DEF Sup!Recoveries
  <2>3. sup' = [sup EXCEPT !.pc = "recovering", !.workers = {}, !.child = r] BY DEF Sup!Reconcile
  <2> QED BY <2>1, <2>2, <2>3 DEF SupRecord, Stations
<1>5. /\ rec' \in [Sup!Recoveries -> Recovery]
      /\ \A q \in Sup!Recoveries : rec'[q].games = rec[q].games
                                   /\ rec'[q].pc = IF q = r THEN "start" ELSE rec[q].pc
  BY SMT DEF Sup!Reconcile, SupervisorInv, SupTypes, Recovery, Steps
<1>6. SupTypes' BY <1>1, <1>4, <1>5 DEF SupervisorInv, SupTypes
<1>7. Cleared' BY <1>3, <1>4 DEF Cleared
<1>8. Seen' BY <1>4 DEF Seen
<1>9. Exclusive' BY <1>5 DEF SupervisorInv, Exclusive, Early
<1>10. Writing' BY <1>1, <1>2, <1>3, <1>5 DEF SupervisorInv, Writing, Looking, Early
<1>11. WrittenOff' /\ OneAlive' BY <1>1, <1>3 DEF SupervisorInv, WrittenOff, OneAlive
<1> QED BY <1>6, <1>7, <1>8, <1>9, <1>10, <1>11 DEF SupervisorInv

LEMMA LaunchStep ==
    ASSUME SupervisorInv, NEW i \in Sup!Launches, Sup!Launch(i)
    PROVE  SupervisorInv'
<1>1. UNCHANGED <<disk, ledger, remote, log, rec, attempts, left>> BY DEF Sup!Launch
<1>2. Alive = {} /\ disk.games = {} BY DEF Sup!Launch, SupervisorInv, Cleared
<1>3. \A j \in Sup!Launches : procs'[j] = IF j = i THEN "launcher" ELSE procs[j]
  BY DEF Sup!Launch, SupervisorInv, SupTypes
<1>4. Alive' = {i} BY <1>2, <1>3 DEF Alive
<1>5. /\ sup'.pc = "child" /\ sup'.child = i
      /\ sup' \in SupRecord
  <2>1. sup \in SupRecord BY DEF SupervisorInv, SupTypes
  <2>2. i \in Nat BY LaunchesAssumption DEF Sup!Launches
  <2>3. sup' = [sup EXCEPT !.pc = "child", !.child = i] BY DEF Sup!Launch
  <2> QED BY <2>1, <2>2, <2>3 DEF SupRecord, Stations
<1>6. SupTypes' BY <1>1, <1>5 DEF Sup!Launch, SupervisorInv, SupTypes
<1>7. Cleared' BY <1>5 DEF Cleared
<1>8. Seen' BY <1>5 DEF Seen
<1>9. Exclusive' BY <1>1 DEF SupervisorInv, Exclusive
<1>10. Writing' BY <1>1, <1>2 DEF SupervisorInv, Writing
<1>11. WrittenOff' /\ OneAlive' BY <1>1, <1>2, <1>4 DEF SupervisorInv, WrittenOff, OneAlive
<1> QED BY <1>6, <1>7, <1>8, <1>9, <1>10, <1>11 DEF SupervisorInv

\* The next supervisor looks at /proc before it starts anything.
LEMMA SupervisorDiesStep == ASSUME SupervisorInv, Sup!SupervisorDies PROVE SupervisorInv'
<1>1. UNCHANGED <<procs, disk, ledger, remote, log, rec, attempts>> /\ left.deaths > 0
  BY DEF Sup!SupervisorDies
<1>2. sup' \in SupRecord /\ sup'.pc = "down"
  BY DEF Sup!SupervisorDies, SupervisorInv, SupTypes, SupRecord, Stations
<1>3. left' \in CaseRecord /\ left'.launcher = left.launcher
  <2>1. left \in CaseRecord BY DEF SupervisorInv, SupTypes
  <2>2. left' = [left EXCEPT !.deaths = @ - 1] BY DEF Sup!SupervisorDies
  <2>3. left.deaths - 1 \in Nat BY <1>1, <2>1 DEF CaseRecord
  <2> QED BY <2>1, <2>2, <2>3 DEF CaseRecord
<1>9. SupTypes' BY <1>1, <1>2, <1>3 DEF SupervisorInv, SupTypes
<1>5. Alive' = Alive BY <1>1 DEF Alive
<1>6. Cleared' BY <1>2 DEF Cleared
<1>7. Seen' BY <1>2 DEF Seen
<1>8. Exclusive' /\ Writing' /\ WrittenOff' /\ OneAlive'
  BY <1>1, <1>5 DEF SupervisorInv, Exclusive, Writing, WrittenOff, OneAlive
<1> QED BY <1>6, <1>7, <1>8, <1>9 DEF SupervisorInv

-----------------------------------------------------------------------------
(* The recovery.                                                             *)

\* Where a recovery is known to be alone, a step of its own says of it what Writing does.
LEMMA RecoveryMoves ==
    ASSUME SupervisorInv, NEW r \in Sup!Recoveries, UNCHANGED <<procs, sup, left>>,
           NEW x \in Recovery, rec' = [rec EXCEPT ![r] = x],
           x.pc \in Early \/ rec[r].pc \notin Early \/ ~Sup!Locked,
           disk'.games = disk.games \/ (rec[r].pc \notin Looking /\ disk'.games = {} /\ x.pc \in Early),
           \A f \in {"ended", "pending", "torn", "complete", "hold"} : disk'[f] = disk[f],
           ledger.failed \subseteq ledger'.failed, remote.evidence \subseteq remote'.evidence,
           remote.report \subseteq remote'.report,
           remote'.evidence \subseteq ledger'.failed, remote'.report \subseteq remote'.evidence,
           ledger'.failed = ledger.failed \/
               (rec[r].pc = "append" /\ ledger'.failed = ledger.failed \cup disk.games),
           x.pc \notin Looking =>
               /\ Alive = {} /\ disk.games = x.games /\ disk.games # {}
               /\ disk.games \cap disk.ended = {}
               /\ x.pc # "append" => disk.games \subseteq ledger'.failed
               /\ x.pc \in {"report", "authority", "clear"} => disk.games \subseteq remote'.evidence
               /\ x.pc \in {"authority", "clear"} => disk.games \subseteq remote'.report,
           SupTypes'
    PROVE  SupervisorInv'
<1>1. \A q \in Sup!Recoveries : rec'[q] = IF q = r THEN x ELSE rec[q]
  BY DEF SupervisorInv, SupTypes
<1>2. Alive' = Alive BY DEF Alive
<1>3. Looking = Early \cup {"observe", "recheck"} BY DEF Looking
<1>4. rec[r].pc \notin Looking => Alive = {} /\ disk.games \cap disk.ended = {}
  BY DEF SupervisorInv, Writing
<1>5. Cleared'
  <2>1. sup.pc = "verify" => disk'.games = {} BY DEF SupervisorInv, Cleared
  <2> QED BY <1>2, <2>1 DEF SupervisorInv, Cleared
<1>6. Seen' BY <1>2 DEF SupervisorInv, Seen
<1>7. Exclusive'
  <2> SUFFICES ASSUME NEW q \in Sup!Recoveries, NEW p \in Sup!Recoveries,
                      rec'[q].pc \notin Early, rec'[p].pc \notin Early
               PROVE  q = p
    BY DEF Exclusive
  <2>1. Sup!Locked \/ \A s \in Sup!Recoveries : rec[s].pc \in Early BY DEF Sup!Locked, Early
  <2>2. \A s, t \in Sup!Recoveries : rec[s].pc \notin Early /\ rec[t].pc \notin Early => s = t
    BY DEF SupervisorInv, Exclusive
  <2>3. ~Sup!Locked => \A s \in Sup!Recoveries : rec[s].pc \in Early BY DEF Sup!Locked, Early
  <2>4. q # r => rec[q].pc \notin Early BY <1>1
  <2>5. p # r => rec[p].pc \notin Early BY <1>1
  <2>6. q = r \/ p = r => x.pc \notin Early BY <1>1
  <2> QED BY <2>2, <2>3, <2>4, <2>5, <2>6
<1>8. Writing'
  <2> SUFFICES ASSUME NEW q \in Sup!Recoveries, rec'[q].pc \notin Looking
               PROVE  /\ Alive' = {} /\ disk'.games = rec'[q].games /\ disk'.games # {}
                      /\ disk'.games \cap disk'.ended = {}
                      /\ rec'[q].pc # "append" => disk'.games \subseteq ledger'.failed
                      /\ rec'[q].pc \in {"report", "authority", "clear"} =>
                             disk'.games \subseteq remote'.evidence
                      /\ rec'[q].pc \in {"authority", "clear"} => disk'.games \subseteq remote'.report
    BY DEF Writing
  <2>1. disk'.ended = disk.ended OBVIOUS
  <2>2. CASE q = r
    <3>1. rec'[q] = x /\ x.pc \notin Early BY <1>1, <1>3, <2>2
    <3>2. disk'.games = disk.games BY <3>1
    <3> QED BY <1>2, <2>1, <3>1, <3>2
  <2>3. CASE q # r
    <3>1. rec'[q] = rec[q] /\ rec[q].pc \notin Looking BY <1>1, <2>3
    <3>2. rec[r].pc \in Early BY <1>3, <2>3, <3>1 DEF SupervisorInv, Exclusive
    <3>3. disk'.games = disk.games BY <1>3, <3>2
    <3>4. /\ Alive = {} /\ disk.games = rec[q].games /\ disk.games # {}
          /\ disk.games \cap disk.ended = {}
          /\ rec[q].pc # "append" => disk.games \subseteq ledger.failed
          /\ rec[q].pc \in {"report", "authority", "clear"} => disk.games \subseteq remote.evidence
          /\ rec[q].pc \in {"authority", "clear"} => disk.games \subseteq remote.report
      BY <3>1 DEF SupervisorInv, Writing
    <3> QED BY <1>2, <2>1, <3>1, <3>3, <3>4
  <2> QED BY <2>2, <2>3
<1>9. WrittenOff'
  <2>1. disk'.ended = disk.ended OBVIOUS
  <2>2. Alive # {} => rec[r].pc \in Looking BY <1>4
  <2>3. Alive # {} => ledger'.failed = ledger.failed BY <1>3, <2>2 DEF Early
  <2>4. Alive # {} => disk'.games = disk.games BY <2>2
  <2>5. rec[r].pc = "append" => disk.games \cap disk.ended = {}
    BY <1>4 DEF Looking, Early
  <2> QED BY <1>2, <2>1, <2>3, <2>4, <2>5 DEF SupervisorInv, WrittenOff
<1>10. OneAlive' BY <1>2 DEF SupervisorInv, OneAlive
<1> QED BY <1>5, <1>6, <1>7, <1>8, <1>9, <1>10 DEF SupervisorInv

\* A step that only moves a recovery: back to nothing, or on to a place before the lock.
LEMMA StillMoves ==
    ASSUME SupervisorInv, NEW r \in Sup!Recoveries, UNCHANGED <<procs, disk, ledger, remote, sup, left>>,
           log' \in {"none", "timeout", "other"},
           attempts' \in [count : 0..Sup!DayAttempts, cooled : BOOLEAN],
           NEW x \in Recovery, rec' = [rec EXCEPT ![r] = x],
           x.pc \in Early \/ (x.pc \in Looking /\ (rec[r].pc \notin Early \/ ~Sup!Locked))
    PROVE  SupervisorInv'
<1>1. SupTypes' BY DEF SupervisorInv, SupTypes
<1>2. x.pc \in Looking BY DEF Looking
<1>3. remote.evidence \subseteq ledger.failed /\ remote.report \subseteq remote.evidence
  BY DEF SupervisorInv, WrittenOff
<1> QED BY <1>1, <1>2, <1>3, RecoveryMoves

LEMMA RaiseStep ==
    ASSUME SupervisorInv, NEW r \in Sup!Recoveries, Sup!Raise(r), UNCHANGED <<procs, sup, left>>
    PROVE  SupervisorInv'
<1>1. [pc |-> "none", games |-> {}] \in Recovery BY DEF Recovery, Steps
<1>2. "none" \in Early BY DEF Early
<1>3. /\ rec' = [rec EXCEPT ![r] = [pc |-> "none", games |-> {}]] /\ log' = "other"
      /\ UNCHANGED <<disk, ledger, remote, attempts>>
  BY DEF Sup!Raise, Sup!Return
<1>4. attempts' \in [count : 0..Sup!DayAttempts, cooled : BOOLEAN]
  BY <1>3 DEF SupervisorInv, SupTypes
<1> QED BY <1>1, <1>2, <1>3, <1>4, StillMoves

LEMMA ReturnStep ==
    ASSUME SupervisorInv, NEW r \in Sup!Recoveries, Sup!Return(r),
           UNCHANGED <<procs, disk, ledger, remote, log, sup, attempts, left>>
    PROVE  SupervisorInv'
<1>1. [pc |-> "none", games |-> {}] \in Recovery BY DEF Recovery, Steps
<1>2. "none" \in Early BY DEF Early
<1>3. rec' = [rec EXCEPT ![r] = [pc |-> "none", games |-> {}]] BY DEF Sup!Return
<1>4. /\ attempts' \in [count : 0..Sup!DayAttempts, cooled : BOOLEAN]
      /\ log' \in {"none", "timeout", "other"}
  BY DEF SupervisorInv, SupTypes
<1> QED BY <1>1, <1>2, <1>3, <1>4, StillMoves

LEMMA RecoveryStartStep ==
    ASSUME SupervisorInv, NEW r \in Sup!Recoveries, Sup!RecoveryStart(r)
    PROVE  SupervisorInv'
<1>1. UNCHANGED <<procs, sup, left>> BY DEF Sup!RecoveryStart
<1>2. CASE Sup!Raise(r) BY <1>1, <1>2, RaiseStep
<1>3. CASE Sup!Return(r) /\ UNCHANGED <<disk, ledger, remote, log, attempts>>
  BY <1>1, <1>3, ReturnStep
<1>4. CASE /\ rec' = [rec EXCEPT ![r] = [pc |-> "lock", games |-> disk.games]]
           /\ UNCHANGED <<disk, ledger, remote, log, attempts>>
  <2>1. [pc |-> "lock", games |-> disk.games] \in Recovery
    BY DEF Recovery, Steps, SupervisorInv, SupTypes, DiskRecord
  <2>2. "lock" \in Early BY DEF Early
  <2>3. /\ attempts' \in [count : 0..Sup!DayAttempts, cooled : BOOLEAN]
        /\ log' \in {"none", "timeout", "other"}
    BY <1>4 DEF SupervisorInv, SupTypes
  <2> QED BY <1>1, <1>4, <2>1, <2>2, <2>3, StillMoves
<1> QED BY <1>2, <1>3, <1>4 DEF Sup!RecoveryStart

LEMMA RecoveryLockStep ==
    ASSUME SupervisorInv, NEW r \in Sup!Recoveries, Sup!RecoveryLock(r)
    PROVE  SupervisorInv'
<1>1. UNCHANGED <<procs, sup, left>> BY DEF Sup!RecoveryLock
<1>2. CASE Sup!Raise(r) BY <1>1, <1>2, RaiseStep
<1>3. CASE Sup!Return(r) /\ UNCHANGED <<disk, ledger, remote, log, attempts>>
  BY <1>1, <1>3, ReturnStep
<1>4. CASE /\ ~Sup!Locked /\ Sup!attempt_allowed
           /\ attempts' = [count |-> attempts.count + 1, cooled |-> FALSE]
           /\ Sup!Goto(r, "observe") /\ UNCHANGED <<disk, ledger, remote, log>>
  <2> DEFINE x == [rec[r] EXCEPT !.pc = "observe"]
  <2>1. rec[r] \in Recovery BY DEF SupervisorInv, SupTypes
  <2>2. x \in Recovery /\ x.pc = "observe" BY <2>1 DEF Recovery, Steps
  <2>3. rec' = [rec EXCEPT ![r] = x] BY <1>4 DEF Sup!Goto
  <2>4. "observe" \in Looking BY DEF Looking
  <2>5. attempts' \in [count : 0..Sup!DayAttempts, cooled : BOOLEAN]
    BY <1>4 DEF Sup!attempt_allowed, Sup!DayAttempts, SupervisorInv, SupTypes
  <2>6. log' \in {"none", "timeout", "other"} BY <1>4 DEF SupervisorInv, SupTypes
  <2> HIDE DEF x
  <2> QED BY <1>1, <1>4, <2>2, <2>3, <2>4, <2>5, <2>6, StillMoves
<1> QED BY <1>2, <1>3, <1>4 DEF Sup!RecoveryLock

LEMMA RecoveryObserveStep ==
    ASSUME SupervisorInv, NEW r \in Sup!Recoveries, Sup!RecoveryObserve(r)
    PROVE  SupervisorInv'
<1>1. UNCHANGED <<procs, sup, left>> /\ rec[r].pc = "observe" BY DEF Sup!RecoveryObserve
<1>2. CASE Sup!Raise(r) BY <1>1, <1>2, RaiseStep
<1>3. CASE Sup!Return(r) /\ UNCHANGED <<disk, ledger, remote, log, attempts>>
  BY <1>1, <1>3, ReturnStep
<1>4. CASE Sup!Goto(r, "recheck") /\ UNCHANGED <<disk, ledger, remote, log, attempts>>
  <2> DEFINE x == [rec[r] EXCEPT !.pc = "recheck"]
  <2>1. rec[r] \in Recovery BY DEF SupervisorInv, SupTypes
  <2>2. x \in Recovery /\ x.pc = "recheck" BY <2>1 DEF Recovery, Steps
  <2>3. rec' = [rec EXCEPT ![r] = x] BY <1>4 DEF Sup!Goto
  <2>4. "recheck" \in Looking /\ rec[r].pc \notin Early BY <1>1 DEF Looking, Early
  <2>5. /\ attempts' \in [count : 0..Sup!DayAttempts, cooled : BOOLEAN]
        /\ log' \in {"none", "timeout", "other"}
    BY <1>4 DEF SupervisorInv, SupTypes
  <2> HIDE DEF x
  <2> QED BY <1>1, <1>4, <2>2, <2>3, <2>4, <2>5, StillMoves
<1> QED BY <1>2, <1>3, <1>4 DEF Sup!RecoveryObserve

\* The look of a recovery that goes on: the games are those it started with, one, and
\* nobody lives.
LEMMA UnchangedMeaning ==
    ASSUME SupervisorInv, NEW r \in Sup!Recoveries, Sup!Unchanged(r)
    PROVE  Alive = {} /\ disk.games = rec[r].games /\ disk.games # {}
<1>1. Sup!Workers = {} /\ Sup!Launchers = {}
  BY DEF Sup!Unchanged, Sup!eligible, Sup!evaluate_restart_state, Sup!LaunchersSeen
<1>2. Alive = {} BY <1>1 DEF Alive, Sup!Workers, Sup!Launchers
<1>3. Cardinality(disk.games) = 1 /\ disk.games = rec[r].games
  <2>1. Sup!Cardinality(disk.games) = 1 /\ disk.games = rec[r].games
    BY DEF Sup!Unchanged, Sup!eligible
  <2>2. Sup!Cardinality(disk.games) = Cardinality(disk.games)
    BY DEF Sup!Cardinality, Cardinality
  <2> QED BY <2>1, <2>2
<1> QED BY <1>2, <1>3, FS_EmptySet

LEMMA RecoveryRecheckStep ==
    ASSUME SupervisorInv, NEW r \in Sup!Recoveries, Sup!RecoveryRecheck(r)
    PROVE  SupervisorInv'
<1>1. UNCHANGED <<procs, sup, left>> /\ rec[r].pc = "recheck" BY DEF Sup!RecoveryRecheck
<1>2. CASE Sup!Raise(r) BY <1>1, <1>2, RaiseStep
<1>3. CASE /\ Sup!Unchanged(r) /\ rec[r].games \cap disk.ended = {}
           /\ Sup!Goto(r, "append") /\ UNCHANGED <<disk, ledger, remote, log, attempts>>
  <2> DEFINE x == [rec[r] EXCEPT !.pc = "append"]
  <2>1. rec[r] \in Recovery BY DEF SupervisorInv, SupTypes
  <2>2. x \in Recovery /\ x.pc = "append" /\ x.games = rec[r].games
    BY <2>1 DEF Recovery, Steps
  <2>3. rec' = [rec EXCEPT ![r] = x] BY <1>3 DEF Sup!Goto
  <2>4. rec[r].pc \notin Early BY <1>1 DEF Early
  <2>5. Alive = {} /\ disk.games = x.games /\ disk.games # {} /\ disk.games \cap disk.ended = {}
    BY <1>3, <2>2, UnchangedMeaning
  <2>6. SupTypes' BY <1>1, <1>3, <2>2, <2>3 DEF SupervisorInv, SupTypes
  <2>7. remote.evidence \subseteq ledger.failed /\ remote.report \subseteq remote.evidence
    BY DEF SupervisorInv, WrittenOff
  <2> HIDE DEF x
  <2> QED BY <1>1, <1>3, <2>2, <2>3, <2>4, <2>5, <2>6, <2>7, RecoveryMoves
<1> QED BY <1>2, <1>3 DEF Sup!RecoveryRecheck

\* What a recovery that writes knows, and where it goes next.
LEMMA WritingMeaning ==
    ASSUME SupervisorInv, NEW r \in Sup!Recoveries,
           rec[r].pc \in {"append", "game", "report", "authority", "clear"}
    PROVE  /\ rec[r].pc \notin Looking /\ rec[r].pc \notin Early
           /\ Alive = {} /\ disk.games = rec[r].games /\ disk.games # {}
           /\ disk.games \cap disk.ended = {}
           /\ rec[r].pc # "append" => disk.games \subseteq ledger.failed
           /\ rec[r].pc \in {"report", "authority", "clear"} => disk.games \subseteq remote.evidence
           /\ rec[r].pc \in {"authority", "clear"} => disk.games \subseteq remote.report
           /\ \A pc \in Steps : /\ [rec[r] EXCEPT !.pc = pc] \in Recovery
                                /\ [rec[r] EXCEPT !.pc = pc].pc = pc
                                /\ [rec[r] EXCEPT !.pc = pc].games = rec[r].games
<1>1. rec[r].pc \notin Looking /\ rec[r].pc \notin Early BY DEF Looking, Early
<1>2. rec[r] \in Recovery BY DEF SupervisorInv, SupTypes
<1>3. \A pc \in Steps : /\ [rec[r] EXCEPT !.pc = pc] \in Recovery
                        /\ [rec[r] EXCEPT !.pc = pc].pc = pc
                        /\ [rec[r] EXCEPT !.pc = pc].games = rec[r].games
  BY <1>2 DEF Recovery
<1>4. /\ Alive = {} /\ disk.games = rec[r].games /\ disk.games # {}
      /\ disk.games \cap disk.ended = {}
      /\ rec[r].pc # "append" => disk.games \subseteq ledger.failed
      /\ rec[r].pc \in {"report", "authority", "clear"} => disk.games \subseteq remote.evidence
      /\ rec[r].pc \in {"authority", "clear"} => disk.games \subseteq remote.report
  BY <1>1 DEF SupervisorInv, Writing
<1> QED BY <1>1, <1>3, <1>4

LEMMA RecoveryAppendStep ==
    ASSUME SupervisorInv, NEW r \in Sup!Recoveries, Sup!RecoveryAppend(r)
    PROVE  SupervisorInv'
<1> DEFINE x == [rec[r] EXCEPT !.pc = "game"]
<1>1. UNCHANGED <<procs, disk, remote, log, sup, attempts, left>> /\ rec[r].pc = "append"
  BY DEF Sup!RecoveryAppend
<1>2. rec' = [rec EXCEPT ![r] = x] BY DEF Sup!RecoveryAppend, Sup!Goto
<1>3. x \in Recovery /\ x.pc = "game" /\ x.games = rec[r].games BY <1>1, WritingMeaning DEF Steps
<1>4. /\ rec[r].pc \notin Looking /\ rec[r].pc \notin Early
      /\ Alive = {} /\ disk.games = x.games /\ disk.games # {} /\ disk.games \cap disk.ended = {}
  BY <1>1, <1>3, WritingMeaning
<1>5. ledger'.failed = ledger.failed \cup disk.games
  BY <1>3, <1>4 DEF Sup!RecoveryAppend, SupervisorInv, SupTypes
<1>6. disk.games \in SUBSET Games /\ ledger' = [ledger EXCEPT !.failed = @ \cup disk.games]
  BY <1>3, <1>4 DEF SupervisorInv, SupTypes, DiskRecord, Sup!RecoveryAppend
<1>7. ledger' \in [scored : SUBSET Games, failed : SUBSET Games]
  BY <1>6 DEF SupervisorInv, SupTypes
<1>8. SupTypes' BY <1>1, <1>2, <1>3, <1>7 DEF SupervisorInv, SupTypes
<1>9. remote.evidence \subseteq ledger.failed /\ remote.report \subseteq remote.evidence
  BY DEF SupervisorInv, WrittenOff
<1> HIDE DEF x
<1> QED BY <1>1, <1>2, <1>3, <1>4, <1>5, <1>8, <1>9, RecoveryMoves

\* The uploads: of the evidence, of the report, of the empty authority.
LEMMA UploadStep ==
    ASSUME SupervisorInv, NEW r \in Sup!Recoveries,
           Sup!game_upload(r) \/ Sup!report_upload(r) \/ Sup!UploadAuthority(r)
    PROVE  SupervisorInv'
<1> USE DEF Sup!game_upload, Sup!report_upload, Sup!UploadAuthority
<1>1. /\ UNCHANGED <<procs, sup, left>>
      /\ rec[r].pc \in {"game", "report", "authority"}
  OBVIOUS
<1>2. CASE Sup!Raise(r) BY <1>1, <1>2, RaiseStep
<1>3. CASE ~Sup!Raise(r)
  <2>1. PICK pc \in {"report", "authority", "clear"} :
            /\ Sup!Goto(r, pc) /\ UNCHANGED <<disk, ledger, log, attempts>>
            /\ \/ pc = "report" /\ remote' = [remote EXCEPT !.evidence = @ \cup rec[r].games]
               \/ /\ pc = "authority" /\ rec[r].pc = "report"
                  /\ remote' = [remote EXCEPT !.report = @ \cup rec[r].games]
               \/ /\ pc = "clear" /\ rec[r].pc = "authority"
                  /\ remote' = [remote EXCEPT !.cleared = TRUE]
    BY <1>3
  <2> DEFINE x == [rec[r] EXCEPT !.pc = pc]
  <2>2. rec' = [rec EXCEPT ![r] = x] BY <2>1 DEF Sup!Goto
  <2>3. x \in Recovery /\ x.pc = pc /\ x.games = rec[r].games
    <3> HIDE DEF Sup!game_upload, Sup!report_upload, Sup!UploadAuthority
    <3>1. pc \in Steps BY DEF Steps
    <3>2. rec[r].pc \in {"append", "game", "report", "authority", "clear"} BY <1>1
    <3> QED BY <3>1, <3>2, WritingMeaning
  <2>4. /\ rec[r].pc \notin Looking /\ rec[r].pc \notin Early
        /\ Alive = {} /\ disk.games = x.games /\ disk.games # {}
        /\ disk.games \cap disk.ended = {} /\ disk.games \subseteq ledger.failed
    BY <1>1, <2>3, WritingMeaning
  <2>5. disk.games \in SUBSET Games /\ rec[r].games = disk.games
    BY <2>3, <2>4 DEF SupervisorInv, SupTypes, DiskRecord
  <2>6. /\ remote \in [evidence : SUBSET Games, report : SUBSET Games, cleared : BOOLEAN]
        /\ remote.evidence \subseteq ledger.failed /\ remote.report \subseteq remote.evidence
    BY DEF SupervisorInv, SupTypes, WrittenOff
  <2>7. /\ rec[r].pc \in {"report", "authority"} => disk.games \subseteq remote.evidence
        /\ rec[r].pc = "authority" => disk.games \subseteq remote.report
    BY <1>1, WritingMeaning
  <2>8. /\ remote' \in [evidence : SUBSET Games, report : SUBSET Games, cleared : BOOLEAN]
        /\ remote.evidence \subseteq remote'.evidence /\ remote.report \subseteq remote'.report
        /\ remote'.evidence \subseteq ledger.failed /\ remote'.report \subseteq remote'.evidence
        /\ disk.games \subseteq remote'.evidence
        /\ pc \in {"authority", "clear"} => disk.games \subseteq remote'.report
    <3>1. CASE remote' = [remote EXCEPT !.evidence = @ \cup rec[r].games] /\ pc = "report"
      BY <2>4, <2>5, <2>6, <3>1
    <3>2. CASE /\ remote' = [remote EXCEPT !.report = @ \cup rec[r].games]
               /\ pc = "authority" /\ rec[r].pc = "report"
      BY <2>4, <2>5, <2>6, <2>7, <3>2
    <3>3. CASE /\ remote' = [remote EXCEPT !.cleared = TRUE]
               /\ pc = "clear" /\ rec[r].pc = "authority"
      BY <2>4, <2>5, <2>6, <2>7, <3>3
    <3> QED BY <2>1, <3>1, <3>2, <3>3
  <2>9. SupTypes' BY <1>1, <2>1, <2>2, <2>3, <2>8 DEF SupervisorInv, SupTypes
  <2> HIDE DEF x
  <2> QED BY <1>1, <2>1, <2>2, <2>3, <2>4, <2>8, <2>9, RecoveryMoves
<1> QED BY <1>2, <1>3

LEMMA ClearAuthorityStep ==
    ASSUME SupervisorInv, NEW r \in Sup!Recoveries, Sup!clear_authority(r)
    PROVE  SupervisorInv'
<1> DEFINE x == [pc |-> "none", games |-> {}]
<1>1. UNCHANGED <<procs, ledger, remote, log, sup, attempts, left>> /\ rec[r].pc = "clear"
  BY DEF Sup!clear_authority
<1>2. rec' = [rec EXCEPT ![r] = x] BY DEF Sup!clear_authority, Sup!Return
<1>3. x \in Recovery /\ x.pc \in Early BY DEF Recovery, Steps, Early
<1>4. /\ disk' \in DiskRecord /\ disk'.games = {}
      /\ \A f \in {"ended", "pending", "torn", "complete", "hold"} : disk'[f] = disk[f]
  BY DEF Sup!clear_authority, SupervisorInv, SupTypes, DiskRecord
<1>5. rec[r].pc \notin Looking BY <1>1, WritingMeaning
<1>6. SupTypes' BY <1>1, <1>2, <1>3, <1>4 DEF SupervisorInv, SupTypes
<1>7. remote.evidence \subseteq ledger.failed /\ remote.report \subseteq remote.evidence
  BY DEF SupervisorInv, WrittenOff
<1>8. x.pc \in Looking BY <1>3 DEF Looking
<1> HIDE DEF x
<1> QED BY <1>1, <1>2, <1>3, <1>4, <1>5, <1>6, <1>7, <1>8, RecoveryMoves

LEMMA ReconcileTimesOutStep == ASSUME SupervisorInv, Sup!ReconcileTimesOut PROVE SupervisorInv'
<1>1. UNCHANGED <<procs, disk, ledger, remote, log, attempts, left>>
  BY DEF Sup!ReconcileTimesOut
<1>2. sup.child \in Sup!Recoveries /\ Alive = {}
  BY DEF Sup!ReconcileTimesOut, SupervisorInv, Cleared
<1>3. Alive' = {} BY <1>1, <1>2 DEF Alive
<1>4. sup' \in SupRecord /\ sup'.pc = "scan"
  BY DEF Sup!ReconcileTimesOut, SupervisorInv, SupTypes, SupRecord, Stations
<1>5. \A q \in Sup!Recoveries : rec'[q] = IF q = sup.child THEN [pc |-> "none", games |-> {}] ELSE rec[q]
  BY <1>2 DEF Sup!ReconcileTimesOut, SupervisorInv, SupTypes
<1>6. rec' \in [Sup!Recoveries -> Recovery]
  BY <1>2 DEF Sup!ReconcileTimesOut, SupervisorInv, SupTypes, Recovery, Steps
<1>7. SupTypes' BY <1>1, <1>4, <1>6 DEF SupervisorInv, SupTypes
<1>8. Cleared' BY <1>4 DEF Cleared
<1>9. Seen' BY <1>4 DEF Seen
<1>10. Exclusive' BY <1>5 DEF SupervisorInv, Exclusive, Early
<1>11. Writing' BY <1>1, <1>2, <1>3, <1>5 DEF SupervisorInv, Writing, Looking, Early
<1>12. WrittenOff' /\ OneAlive' BY <1>1, <1>3 DEF SupervisorInv, WrittenOff, OneAlive
<1> QED BY <1>7, <1>8, <1>9, <1>10, <1>11, <1>12 DEF SupervisorInv

\* The clock and the operator.
LEMMA OutsideSupervisor ==
    ASSUME SupervisorInv, Sup!HourPasses \/ Sup!ToggleHold \/ UNCHANGED Sup!vars
    PROVE  SupervisorInv'
<1>1. UNCHANGED <<procs, ledger, remote, log, sup, rec, left>>
  BY DEF Sup!HourPasses, Sup!ToggleHold, Sup!vars
<1>2. Alive' = Alive BY <1>1 DEF Alive
<1>3. disk \in DiskRecord /\ attempts \in [count : 0..Sup!DayAttempts, cooled : BOOLEAN]
  BY DEF SupervisorInv, SupTypes
<1>4. /\ disk' \in DiskRecord /\ attempts' \in [count : 0..Sup!DayAttempts, cooled : BOOLEAN]
      /\ \A f \in {"games", "ended", "pending", "torn", "complete"} : disk'[f] = disk[f]
  <2>1. CASE Sup!HourPasses BY <1>3, <2>1 DEF Sup!HourPasses
  <2>2. CASE Sup!ToggleHold BY <1>3, <2>2 DEF Sup!ToggleHold, DiskRecord
  <2>3. CASE UNCHANGED Sup!vars BY <1>3, <2>3 DEF Sup!vars
  <2> QED BY <2>1, <2>2, <2>3
<1>5. SupTypes' BY <1>1, <1>4 DEF SupervisorInv, SupTypes
<1>6. Cleared' /\ Seen' BY <1>1, <1>2, <1>4 DEF SupervisorInv, Cleared, Seen
<1>7. Exclusive' /\ Writing' /\ WrittenOff' /\ OneAlive'
  BY <1>1, <1>2, <1>4 DEF SupervisorInv, Exclusive, Writing, WrittenOff, OneAlive
<1> QED BY <1>5, <1>6, <1>7 DEF SupervisorInv

LEMMA SupervisorInvNext == SupervisorInv /\ [Sup!Next]_(Sup!vars) /\ ~sup'.unseen => SupervisorInv'
<1> SUFFICES ASSUME SupervisorInv, [Sup!Next]_(Sup!vars), ~sup'.unseen PROVE SupervisorInv' OBVIOUS
<1>1. ASSUME NEW i \in Sup!Launches, Sup!Worker(i) PROVE SupervisorInv'
  <2>1. CASE Sup!Bootstrap(i) \/ Sup!BootstrapFails(i) \/ Sup!LauncherDies(i)
    BY <2>1, LauncherStep
  <2>2. CASE Sup!Play(i)
    <3>1. PICK g : g \in Games BY <2>2 DEF Sup!Play, SupervisorInv, SupTypes, DiskRecord
    <3> QED BY <2>2, <3>1, PlayStep
  <2>3. CASE \E g \in Games : Sup!StartGame(i, g) \/ Sup!FinishGame(i, g) BY <2>3, PlayStep
  <2>4. CASE Sup!Complete(i) \/ Sup!WorkerDies(i) BY <2>4, WorkerEndsStep
  <2> QED BY <1>1, <2>1, <2>2, <2>3, <2>4 DEF Sup!Worker
<1>2. CASE Sup!Boot \/ Sup!VerifyRaises BY <1>2, LooksStep
<1>3. CASE Sup!Supervise
  <2>1. CASE \/ Sup!ScanWorkers \/ Sup!CampaignComplete \/ Sup!Observe \/ Sup!ManualHold
             \/ Sup!EvaluateRaises \/ Sup!Reconciled \/ Sup!ChildExits
    BY <2>1, LooksStep
  <2>2. CASE Sup!SafeToRestart BY <2>2, SafeToRestartStep
  <2>3. CASE \E r \in Sup!Recoveries : Sup!Reconcile(r) BY <2>3, ReconcileStep
  <2>4. CASE \E i \in Sup!Launches : Sup!Launch(i) BY <2>4, LaunchStep
  <2> QED BY <1>3, <2>1, <2>2, <2>3, <2>4 DEF Sup!Supervise
<1>4. CASE Sup!ReconcileTimesOut BY <1>4, ReconcileTimesOutStep
<1>5. CASE Sup!SupervisorDies BY <1>5, SupervisorDiesStep
<1>6. ASSUME NEW r \in Sup!Recoveries, Sup!Recover(r) PROVE SupervisorInv'
  BY <1>6, RecoveryStartStep, RecoveryLockStep, RecoveryObserveStep, RecoveryRecheckStep,
     RecoveryAppendStep, UploadStep, ClearAuthorityStep DEF Sup!Recover
<1>7. CASE Sup!HourPasses \/ Sup!ToggleHold \/ UNCHANGED Sup!vars BY <1>7, OutsideSupervisor
<1> QED BY <1>1, <1>2, <1>3, <1>4, <1>5, <1>6, <1>7 DEF Sup!Next

-----------------------------------------------------------------------------
(* The theorems about the supervisor.                                        *)

\* The types are kept by every step, and what slipped through stays so.
LEMMA SupTypesNext ==
    ASSUME SupTypes, [Sup!Next]_(Sup!vars)
    PROVE  SupTypes' /\ (sup.unseen => sup'.unseen)
<1> DEFINE TypedSup == sup' \in SupRecord /\ (sup.unseen => sup'.unseen)
<1>0. /\ procs \in [Sup!Launches -> {"unborn", "launcher", "both", "worker", "gone"}]
      /\ disk \in DiskRecord /\ sup \in SupRecord /\ rec \in [Sup!Recoveries -> Recovery]
      /\ ledger \in [scored : SUBSET Games, failed : SUBSET Games]
      /\ remote \in [evidence : SUBSET Games, report : SUBSET Games, cleared : BOOLEAN]
      /\ attempts \in [count : 0..Sup!DayAttempts, cooled : BOOLEAN] /\ left \in CaseRecord
      /\ log \in {"none", "timeout", "other"}
  BY DEF SupTypes
<1>1. ASSUME NEW i \in Sup!Launches, Sup!Worker(i)
      PROVE  SupTypes' /\ (sup.unseen => sup'.unseen)
  <2>1. procs' \in [Sup!Launches -> {"unborn", "launcher", "both", "worker", "gone"}]
    BY <1>0, <1>1 DEF Sup!Worker, Sup!Bootstrap, Sup!BootstrapFails, Sup!LauncherDies, Sup!Play,
       Sup!Complete, Sup!WorkerDies, Sup!StartGame, Sup!FinishGame
  <2>2. TypedSup
    <3>1. CASE Sup!Slips(i) BY <1>0, <3>1 DEF Sup!Slips, SupRecord
    <3>2. CASE UNCHANGED sup BY <1>0, <3>2
    <3> QED BY <1>1, <3>1, <3>2 DEF Sup!Worker, Sup!Bootstrap, Sup!BootstrapFails,
          Sup!LauncherDies, Sup!Play, Sup!Complete, Sup!WorkerDies, Sup!StartGame, Sup!FinishGame
  <2>3. disk' \in DiskRecord /\ log' \in {"none", "timeout", "other"}
        /\ ledger' \in [scored : SUBSET Games, failed : SUBSET Games]
    <3>1. CASE Sup!WorkerDies(i)
      <4>1. PICK why \in {"timeout", "other", "killed"}, ended \in SUBSET disk.games, torn \in BOOLEAN :
                /\ log' = IF why = "killed" THEN log ELSE why
                /\ disk' = [disk EXCEPT !.ended = @ \cup ended, !.torn = @ \/ torn]
        BY <3>1 DEF Sup!WorkerDies
      <4> QED BY <1>0, <3>1, <4>1 DEF DiskRecord, Sup!WorkerDies
    <3>2. CASE Sup!Complete(i) BY <1>0, <3>2 DEF Sup!Complete, DiskRecord
    <3>3. CASE Sup!Play(i) BY <1>0, <3>3 DEF Sup!Play, DiskRecord
    <3>4. CASE \E g \in Games : Sup!StartGame(i, g) \/ Sup!FinishGame(i, g)
      <4>1. PICK g \in Games : Sup!StartGame(i, g) \/ Sup!FinishGame(i, g) BY <3>4
      <4>2. CASE Sup!StartGame(i, g) BY <1>0, <4>2 DEF Sup!StartGame, DiskRecord
      <4>3. CASE Sup!FinishGame(i, g) BY <1>0, <4>3 DEF Sup!FinishGame, DiskRecord
      <4> QED BY <4>1, <4>2, <4>3
    <3>5. CASE Sup!Bootstrap(i) \/ Sup!BootstrapFails(i) \/ Sup!LauncherDies(i)
      BY <1>0, <3>5 DEF Sup!Bootstrap, Sup!BootstrapFails, Sup!LauncherDies
    <3> QED BY <1>1, <3>1, <3>2, <3>3, <3>4, <3>5 DEF Sup!Worker
  <2>4. UNCHANGED <<remote, rec, attempts, left>>
    BY <1>1 DEF Sup!Worker, Sup!Bootstrap, Sup!BootstrapFails, Sup!LauncherDies, Sup!Play,
       Sup!Complete, Sup!WorkerDies, Sup!StartGame, Sup!FinishGame
  <2> QED BY <1>0, <2>1, <2>2, <2>3, <2>4 DEF SupTypes
<1>2. CASE Sup!Boot \/ Sup!VerifyRaises \/ Sup!Supervise \/ Sup!ReconcileTimesOut \/ Sup!SupervisorDies
  <2>1. TypedSup
    <3>1. ASSUME NEW pc \in Stations, Sup!At(pc) PROVE TypedSup
      BY <1>0, <3>1 DEF Sup!At, SupRecord
    <3>2. CASE Sup!ScanWorkers BY <1>0, <3>2 DEF Sup!ScanWorkers, SupRecord, Stations, Sup!Workers
    <3>3. CASE \E r \in Sup!Recoveries : Sup!Reconcile(r)
      <4>1. PICK r \in Sup!Recoveries : Sup!Reconcile(r) BY <3>3
      <4>2. r \in Nat BY LaunchesAssumption DEF Sup!Recoveries
      <4> QED BY <1>0, <4>1, <4>2 DEF Sup!Reconcile, SupRecord, Stations
    <3>4. CASE \E i \in Sup!Launches : Sup!Launch(i)
      <4>1. PICK i \in Sup!Launches : Sup!Launch(i) BY <3>4
      <4>2. i \in Nat BY LaunchesAssumption DEF Sup!Launches
      <4> QED BY <1>0, <4>1, <4>2 DEF Sup!Launch, SupRecord, Stations
    <3>5. CASE Sup!Reconciled \/ Sup!ReconcileTimesOut \/ Sup!ChildExits \/ Sup!SupervisorDies
      <4>1. ASSUME sup' = [sup EXCEPT !.pc = "scan", !.child = 0] PROVE TypedSup
        BY <1>0, <4>1 DEF SupRecord, Stations
      <4>2. ASSUME sup' = [sup EXCEPT !.pc = "down", !.workers = {}, !.child = 0] PROVE TypedSup
        BY <1>0, <4>2 DEF SupRecord, Stations
      <4> HIDE DEF TypedSup
      <4> QED BY <3>5, <4>1, <4>2 DEF Sup!Reconciled, Sup!ReconcileTimesOut, Sup!ChildExits,
            Sup!SupervisorDies
    <3>6. "down" \in Stations /\ "scan" \in Stations /\ "verify" \in Stations /\ "done" \in Stations
      BY DEF Stations
    <3>7. CASE Sup!At("down") \/ Sup!At("scan") \/ Sup!At("verify") \/ Sup!At("done")
      <4> HIDE DEF TypedSup
      <4> QED BY <3>1, <3>6, <3>7
    <3> QED BY <1>2, <3>2, <3>3, <3>4, <3>5, <3>7 DEF Sup!Boot, Sup!VerifyRaises, Sup!Supervise,
          Sup!CampaignComplete, Sup!Observe, Sup!ManualHold, Sup!SafeToRestart, Sup!EvaluateRaises
  <2>2. procs' \in [Sup!Launches -> {"unborn", "launcher", "both", "worker", "gone"}]
        /\ rec' \in [Sup!Recoveries -> Recovery] /\ left' \in CaseRecord
    <3>1. CASE \E r \in Sup!Recoveries : Sup!Reconcile(r)
      <4>1. PICK r \in Sup!Recoveries : Sup!Reconcile(r) BY <3>1
      <4> QED BY <1>0, <4>1 DEF Sup!Reconcile, Recovery, Steps
    <3>2. CASE \E i \in Sup!Launches : Sup!Launch(i)
      <4>1. PICK i \in Sup!Launches : Sup!Launch(i) BY <3>2
      <4> QED BY <1>0, <4>1 DEF Sup!Launch
    <3>3. CASE Sup!ReconcileTimesOut BY <1>0, <3>3 DEF Sup!ReconcileTimesOut, Recovery, Steps
    <3>4. CASE Sup!SupervisorDies
      <4>1. left.deaths - 1 \in Nat BY <1>0, <3>4 DEF Sup!SupervisorDies, CaseRecord
      <4> QED BY <1>0, <3>4, <4>1 DEF Sup!SupervisorDies, CaseRecord
    <3>5. CASE UNCHANGED <<procs, rec, left>> BY <1>0, <3>5
    <3> QED BY <1>2, <3>1, <3>2, <3>3, <3>4, <3>5 DEF Sup!Boot, Sup!VerifyRaises, Sup!Supervise,
          Sup!CampaignComplete, Sup!Observe, Sup!ManualHold, Sup!SafeToRestart, Sup!EvaluateRaises,
          Sup!ScanWorkers, Sup!Reconciled, Sup!ChildExits
  <2>3. UNCHANGED <<disk, ledger, remote, log, attempts>>
    BY <1>2 DEF Sup!Boot, Sup!VerifyRaises, Sup!Supervise, Sup!CampaignComplete, Sup!Observe,
       Sup!ManualHold, Sup!SafeToRestart, Sup!EvaluateRaises, Sup!ScanWorkers, Sup!Reconciled,
       Sup!ChildExits, Sup!Reconcile, Sup!Launch, Sup!ReconcileTimesOut, Sup!SupervisorDies
  <2> QED BY <1>0, <2>1, <2>2, <2>3 DEF SupTypes
<1>3. ASSUME NEW r \in Sup!Recoveries, Sup!Recover(r)
      PROVE  SupTypes' /\ (sup.unseen => sup'.unseen)
  <2> USE DEF Sup!Recover
  <2>1. UNCHANGED <<procs, sup, left>>
    BY <1>3 DEF Sup!RecoveryStart, Sup!RecoveryLock, Sup!RecoveryObserve, Sup!RecoveryRecheck,
       Sup!RecoveryAppend, Sup!game_upload, Sup!report_upload, Sup!UploadAuthority,
       Sup!clear_authority
  <2>2. rec' \in [Sup!Recoveries -> Recovery]
    <3>1. CASE Sup!Return(r) BY <1>0, <3>1 DEF Sup!Return, Recovery, Steps
    <3>2. ASSUME NEW pc \in Steps, Sup!Goto(r, pc) PROVE rec' \in [Sup!Recoveries -> Recovery]
      BY <1>0, <3>2 DEF Sup!Goto, Recovery
    <3>3. CASE rec' = [rec EXCEPT ![r] = [pc |-> "lock", games |-> disk.games]]
      BY <1>0, <3>3 DEF Recovery, Steps, DiskRecord
    <3>4. {"observe", "recheck", "append", "game", "report", "authority", "clear"} \subseteq Steps
      BY DEF Steps
    <3> QED BY <1>3, <3>1, <3>2, <3>3, <3>4 DEF Sup!RecoveryStart, Sup!RecoveryLock,
          Sup!RecoveryObserve, Sup!RecoveryRecheck, Sup!RecoveryAppend, Sup!game_upload,
          Sup!report_upload, Sup!UploadAuthority, Sup!clear_authority, Sup!Raise
  <2>3. rec[r].games \in SUBSET Games BY <1>0 DEF Recovery
  <2>4. /\ disk' \in DiskRecord /\ log' \in {"none", "timeout", "other"}
        /\ ledger' \in [scored : SUBSET Games, failed : SUBSET Games]
        /\ remote' \in [evidence : SUBSET Games, report : SUBSET Games, cleared : BOOLEAN]
        /\ attempts' \in [count : 0..Sup!DayAttempts, cooled : BOOLEAN]
    <3>1. CASE Sup!Raise(r) BY <1>0, <3>1 DEF Sup!Raise
    <3>2. CASE UNCHANGED <<disk, ledger, remote, log, attempts>> BY <1>0, <3>2
    <3>3. CASE Sup!RecoveryLock(r) /\ ~Sup!Raise(r)
      <4>1. UNCHANGED <<disk, ledger, remote, log>> BY <3>3 DEF Sup!RecoveryLock
      <4>2. attempts' \in [count : 0..Sup!DayAttempts, cooled : BOOLEAN]
        <5>1. CASE attempts' = [count |-> attempts.count + 1, cooled |-> FALSE] /\ Sup!attempt_allowed
          BY <1>0, <5>1 DEF Sup!attempt_allowed, Sup!DayAttempts
        <5>2. CASE UNCHANGED attempts BY <1>0, <5>2
        <5> QED BY <3>3, <5>1, <5>2 DEF Sup!RecoveryLock
      <4> QED BY <1>0, <4>1, <4>2
    <3>4. CASE Sup!RecoveryAppend(r) /\ ~Sup!Raise(r) BY <1>0, <2>3, <3>4 DEF Sup!RecoveryAppend
    <3>5. CASE Sup!game_upload(r) /\ ~Sup!Raise(r) BY <1>0, <2>3, <3>5 DEF Sup!game_upload
    <3>6. CASE Sup!report_upload(r) /\ ~Sup!Raise(r) BY <1>0, <2>3, <3>6 DEF Sup!report_upload
    <3>7. CASE Sup!UploadAuthority(r) /\ ~Sup!Raise(r) BY <1>0, <3>7 DEF Sup!UploadAuthority
    <3>8. CASE Sup!clear_authority(r) BY <1>0, <3>8 DEF Sup!clear_authority, DiskRecord
    <3> QED BY <1>3, <3>1, <3>2, <3>3, <3>4, <3>5, <3>6, <3>7, <3>8 DEF Sup!RecoveryStart,
          Sup!RecoveryObserve, Sup!RecoveryRecheck
  <2> QED BY <1>0, <2>1, <2>2, <2>4 DEF SupTypes
<1>4. CASE Sup!HourPasses \/ Sup!ToggleHold \/ UNCHANGED Sup!vars
  <2>1. UNCHANGED <<procs, ledger, remote, log, sup, rec, left>>
    BY <1>4 DEF Sup!HourPasses, Sup!ToggleHold, Sup!vars
  <2>2. disk' \in DiskRecord /\ attempts' \in [count : 0..Sup!DayAttempts, cooled : BOOLEAN]
    BY <1>0, <1>4 DEF Sup!HourPasses, Sup!ToggleHold, Sup!vars, DiskRecord
  <2> QED BY <1>0, <2>1, <2>2 DEF SupTypes
<1> QED BY <1>1, <1>2, <1>3, <1>4 DEF Sup!Next

LEMMA UnslippedNext == Unslipped /\ [Sup!Next]_(Sup!vars) => Unslipped'
  BY SupTypesNext, SupervisorInvNext DEF Unslipped

LEMMA UnslippedMeaning == Unslipped => ProcessesAreApart
<1> SUFFICES ASSUME Unslipped PROVE ProcessesAreApart OBVIOUS
<1>1. Sup!TypeOK
  BY SMT DEF Unslipped, SupTypes, SupRecord, DiskRecord, Recovery, Sup!TypeOK
<1>4. CASE sup.unseen BY <1>1, <1>4 DEF ProcessesAreApart, Sup!ProcessesAreApart
<1> SUFFICES ASSUME SupervisorInv PROVE ProcessesAreApart BY <1>4 DEF Unslipped
<1>2. Sup!OneWorker
  <2>1. Sup!Workers \cup Sup!Launchers = Alive
    BY DEF Sup!Workers, Sup!Launchers, Alive
  <2>2. Cardinality(Alive) <= 1
    <3>1. CASE Alive = {} BY <3>1, FS_EmptySet
    <3>2. CASE Alive # {}
      <4>1. PICK i : i \in Alive BY <3>2
      <4>2. Alive = {i} BY <4>1 DEF SupervisorInv, OneAlive
      <4>3. Cardinality({i}) = 1 BY FS_Singleton
      <4> QED BY <4>2, <4>3
    <3> QED BY <3>1, <3>2
  <2>3. Sup!Cardinality(Alive) = Cardinality(Alive) BY DEF Sup!Cardinality, Cardinality
  <2> QED BY <2>1, <2>2, <2>3 DEF Sup!OneWorker
<1>3. Sup!EndedIsNotFailed BY DEF SupervisorInv, WrittenOff, Sup!EndedIsNotFailed
<1> QED BY <1>1, <1>2, <1>3 DEF ProcessesAreApart, Sup!ProcessesAreApart

\* However often supervisors and launchers die, and whether a launcher waits for its
\* worker or becomes it: one worker lives at most, and no game whose end was announced is
\* written off (supervise(), its look at /proc, and the recovery), as long as no launcher
\* became a worker between the two looks of one supervisor.
THEOREM ProcessSeparation == Sup!Spec => []ProcessesAreApart
<1>1. Sup!Init => Unslipped BY SupervisorInvInit DEF Unslipped, SupervisorInv
<1> QED BY <1>1, UnslippedNext, UnslippedMeaning, PTL DEF Sup!Spec

\* What a step may do to the authority over games.
LEMMA AuthorityStep ==
    ASSUME SupervisorInv, [Sup!Next]_(Sup!vars)
    PROVE  /\ \A i \in Sup!Launches : procs[i] = "unborn" /\ procs'[i] = "launcher" =>
                  disk.games = {} /\ ~disk.pending /\ ~disk.complete
           /\ \A g \in disk.games \ disk'.games :
                  g \in ledger'.scored \cup (ledger.failed \cap remote.evidence \cap remote.report)
<1>1. ASSUME NEW i \in Sup!Launches, procs[i] = "unborn", procs'[i] = "launcher"
      PROVE  disk.games = {} /\ ~disk.pending /\ ~disk.complete
  <2>1. PICK j \in Sup!Launches : Sup!Launch(j) \/ Sup!Worker(j)
    BY <1>1 DEF Sup!Next, Sup!Supervise, Sup!Recover, Sup!vars, Sup!Boot, Sup!VerifyRaises,
       Sup!ReconcileTimesOut, Sup!SupervisorDies, Sup!HourPasses, Sup!ToggleHold,
       Sup!ScanWorkers, Sup!CampaignComplete, Sup!Observe, Sup!ManualHold, Sup!SafeToRestart,
       Sup!EvaluateRaises, Sup!Reconciled, Sup!ChildExits, Sup!Reconcile, Sup!RecoveryStart,
       Sup!RecoveryLock, Sup!RecoveryObserve, Sup!RecoveryRecheck, Sup!RecoveryAppend,
       Sup!game_upload, Sup!report_upload, Sup!UploadAuthority, Sup!clear_authority
  <2>2. ~Sup!Worker(j)
    <3>1. procs \in [Sup!Launches -> {"unborn", "launcher", "both", "worker", "gone"}]
      BY DEF SupervisorInv, SupTypes
    <3> QED BY <1>1, <3>1 DEF Sup!Worker, Sup!Bootstrap, Sup!BootstrapFails, Sup!LauncherDies,
          Sup!Play, Sup!Complete, Sup!WorkerDies, Sup!StartGame, Sup!FinishGame
  <2> QED BY <2>1, <2>2 DEF Sup!Launch, SupervisorInv, Cleared
<1>2. ASSUME NEW g \in disk.games \ disk'.games
      PROVE  g \in ledger'.scored \cup (ledger.failed \cap remote.evidence \cap remote.report)
  <2>0. disk \in DiskRecord /\ ledger \in [scored : SUBSET Games, failed : SUBSET Games]
    BY DEF SupervisorInv, SupTypes
  <2>1. CASE \E r \in Sup!Recoveries : Sup!clear_authority(r)
    <3>1. PICK r \in Sup!Recoveries : rec[r].pc = "clear" BY <2>1 DEF Sup!clear_authority
    <3> QED BY <3>1, WritingMeaning
  <2>2. CASE \E i \in Sup!Launches : Sup!Worker(i)
    <3>1. PICK i \in Sup!Launches : Sup!Worker(i) BY <2>2
    <3>2. PICK h \in Games : Sup!FinishGame(i, h)
      <4>1. CASE Sup!WorkerDies(i)
        <5>1. PICK ended \in SUBSET disk.games, torn \in BOOLEAN :
                  disk' = [disk EXCEPT !.ended = @ \cup ended, !.torn = @ \/ torn]
          BY <4>1 DEF Sup!WorkerDies
        <5> QED BY <1>2, <2>0, <5>1 DEF DiskRecord
      <4>2. CASE \/ Sup!Bootstrap(i) \/ Sup!BootstrapFails(i) \/ Sup!LauncherDies(i)
                 \/ Sup!Play(i) \/ Sup!Complete(i) \/ \E h \in Games : Sup!StartGame(i, h)
        BY <1>2, <2>0, <4>2 DEF Sup!Bootstrap, Sup!BootstrapFails, Sup!LauncherDies, Sup!Play,
           Sup!Complete, Sup!StartGame, DiskRecord
      <4> QED BY <3>1, <4>1, <4>2 DEF Sup!Worker
    <3>3. g = h /\ h \in ledger'.scored BY <1>2, <2>0, <3>2 DEF Sup!FinishGame, DiskRecord
    <3> QED BY <3>3
  <2>3. CASE Sup!ToggleHold BY <1>2, <2>0, <2>3 DEF Sup!ToggleHold, DiskRecord
  <2>4. CASE UNCHANGED disk BY <1>2, <2>4
  <2>5. \/ \E r \in Sup!Recoveries : Sup!clear_authority(r)
        \/ \E i \in Sup!Launches : Sup!Worker(i)
        \/ Sup!ToggleHold \/ UNCHANGED disk
    BY DEF Sup!Next, Sup!Supervise, Sup!Recover, Sup!vars, Sup!Boot, Sup!VerifyRaises,
       Sup!ReconcileTimesOut, Sup!SupervisorDies, Sup!HourPasses,
       Sup!ScanWorkers, Sup!CampaignComplete, Sup!Observe, Sup!ManualHold, Sup!SafeToRestart,
       Sup!EvaluateRaises, Sup!Reconciled, Sup!ChildExits, Sup!Reconcile, Sup!Launch,
       Sup!RecoveryStart, Sup!RecoveryLock, Sup!RecoveryObserve, Sup!RecoveryRecheck,
       Sup!RecoveryAppend, Sup!game_upload, Sup!report_upload, Sup!UploadAuthority, Sup!Raise
  <2> QED BY <2>1, <2>2, <2>3, <2>4, <2>5
<1> QED BY <1>1, <1>2

\* A worker is only started over a directory without authority over a game, and a game
\* leaves it scored, or failed with its evidence and report in the object storage, as long
\* as no launcher became a worker between the two looks of one supervisor.
THEOREM AuthorityKeeping == Sup!Spec => AuthorityIsKept
<1>1. Sup!Init => Unslipped BY SupervisorInvInit DEF Unslipped, SupervisorInv
<1>2. Unslipped /\ [Sup!Next]_(Sup!vars) =>
          /\ [~sup.unseen => \A i \in Sup!Launches : procs[i] = "unborn" /\ procs'[i] = "launcher" =>
                  disk.games = {} /\ ~disk.pending /\ ~disk.complete]_(Sup!vars)
          /\ [~sup.unseen => \A g \in disk.games \ disk'.games :
                  g \in ledger'.scored \cup
                        (ledger.failed \cap remote.evidence \cap remote.report)]_(Sup!vars)
  BY AuthorityStep DEF Unslipped
<1> QED BY <1>1, <1>2, UnslippedNext, PTL
        DEF Sup!Spec, AuthorityIsKept, Sup!AuthorityIsKept, Sup!RestartIsClean,
            Sup!AuthorityIsSettled
=============================================================================
