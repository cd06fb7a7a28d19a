------------------------------ MODULE PodHunter ------------------------------
(* scripts/runpod_cpu_upgrade_hunter.py and the guardian that keeps it        *)
(* running: probe the provider for a larger pod, create one when there is     *)
(* capacity, and remember it over deaths.  A pod costs money from the moment  *)
(* it is created, and the hunter's key may not list pods: a pod whose id was  *)
(* lost with an answer can only be suspected.                                 *)
(*                                                                            *)
(* The provider is outside: a create is accepted or rejected, and either      *)
(* answer may be lost; GET of a pod tells the truth.  Catalog, flavors and    *)
(* prices are the number of offers a probe returns.                           *)
EXTENDS Naturals, FiniteSets

CONSTANTS
    Hunters,      \* processes: the guardian's, and one an operator starts by hand
    Once,         \* those started with --once
    MaxPods,      \* bound: pods the provider creates
    MaxOffers,    \* bound: offers of capacity a probe returns, over all targets
    MaxDeaths,    \* bound: deaths of hunters
    MaxFaults     \* bound: requests that fail or are rejected for another reason

ASSUME HuntersAssumption == Once \subseteq Hunters /\ "nobody" \notin Hunters
ASSUME BoundAssumption ==
    MaxPods \in Nat /\ MaxOffers \in Nat /\ MaxDeaths \in Nat /\ MaxFaults \in Nat

VARIABLES
    file,       \* state.json: candidate_pod_id (0 for None) and claim_pending
    lock,       \* who holds hunter.lock
    hunter,     \* process -> where its iteration is, its mode, offers left, the id answered
    pod,        \* the pods created by a hunter, and what became of them
    source,     \* whether the source pod runs
    marker,     \* ENABLE_AUTOCLAIM and UPGRADE_COMPLETE.json
    deaths, faults

vars == <<file, lock, hunter, pod, source, marker, deaths, faults>>

Pods == 1..MaxPods
None == 0
Nobody == "nobody"
Down == [pc |-> "down", claim |-> FALSE, offers |-> 0, id |-> None]
Live == {p \in Pods : pod[p] = "live"}

Init ==
    /\ file = [candidate |-> None, pending |-> FALSE]
    /\ lock = Nobody
    /\ hunter = [h \in Hunters |-> Down]
    /\ pod = [p \in Pods |-> "none"]
    /\ source = TRUE
    /\ marker = [claim |-> TRUE, complete |-> FALSE]
    /\ deaths = 0 /\ faults = 0

-----------------------------------------------------------------------------
(* Processes.                                                                *)

At(h, pc) == hunter' = [hunter EXCEPT ![h].pc = pc]
Sleep(h) == hunter' = [hunter EXCEPT ![h] = [@ EXCEPT !.pc = "sleep", !.offers = 0, !.id = None]]
Record(candidate, pending) == file' = [candidate |-> candidate, pending |-> pending]
Fault == faults < MaxFaults /\ faults' = faults + 1

\* The guardian starts a hunter, with --claim when the marker is there, unless the
\* upgrade is complete; an operator starts one when he likes.
Start(h) ==
    /\ hunter[h].pc = "down" /\ ~marker.complete
    /\ hunter' = [hunter EXCEPT ![h] = [Down EXCEPT !.pc = "lock", !.claim = marker.claim]]
    /\ UNCHANGED <<file, lock, pod, source, marker, deaths, faults>>

\* Mutant of Lock: another instance is waved through.
LockShared(h) ==
    /\ hunter[h].pc = "lock"
    /\ lock' = h /\ At(h, "read")
    /\ UNCHANGED <<file, pod, source, marker, deaths, faults>>

Lock(h) ==
    /\ hunter[h].pc = "lock"
    /\ IF lock = Nobody
       THEN lock' = h /\ At(h, "read")
       ELSE hunter' = [hunter EXCEPT ![h] = Down] /\ UNCHANGED lock
    /\ UNCHANGED <<file, pod, source, marker, deaths, faults>>

\* A signal, or the pod: the lock goes with the process, state.json is whole.
Die(h) ==
    /\ hunter[h].pc # "down" /\ deaths < MaxDeaths
    /\ deaths' = deaths + 1
    /\ hunter' = [hunter EXCEPT ![h] = Down]
    /\ lock' = IF lock = h THEN Nobody ELSE lock
    /\ UNCHANGED <<file, pod, source, marker, faults>>

\* The loop of main(): whatever an iteration raised, the next one follows; with
\* --once the process ends.
Wake(h) ==
    /\ hunter[h].pc = "sleep"
    /\ IF h \in Once
       THEN hunter' = [hunter EXCEPT ![h] = Down] /\ lock' = Nobody
       ELSE At(h, "read") /\ UNCHANGED lock
    /\ UNCHANGED <<file, pod, source, marker, deaths, faults>>

-----------------------------------------------------------------------------
(* run_iteration, one step per request and per write of state.json.          *)

Read(h) ==
    /\ hunter[h].pc = "read"
    /\ \/ file.candidate # None /\ At(h, "check")
       \/ file.candidate = None /\ file.pending /\ Sleep(h)       \* claim-uncertain
       \/ file.candidate = None /\ ~file.pending /\ At(h, "source")
    /\ UNCHANGED <<file, lock, pod, source, marker, deaths, faults>>

\* Mutant of CandidateGone: the hunt goes on with the old candidate in state.json.
GoneIsKept(h) ==
    /\ hunter[h].pc = "check" /\ file.candidate \notin Live
    /\ At(h, "source")
    /\ UNCHANGED <<file, lock, pod, source, marker, deaths, faults>>

\* 404 or a terminal status: the hunt goes on.
CandidateGone(h) ==
    /\ hunter[h].pc = "check" /\ file.candidate \notin Live
    /\ Record(None, FALSE) /\ At(h, "source")
    /\ UNCHANGED <<lock, pod, source, marker, deaths, faults>>

CandidateHeld(h) ==
    /\ hunter[h].pc = "check" /\ file.candidate \in Live
    /\ Sleep(h)
    /\ UNCHANGED <<file, lock, pod, source, marker, deaths, faults>>

\* A GET that fails raises out of the iteration.
RequestFails(h) ==
    /\ hunter[h].pc \in {"check", "source", "probe", "verify"} /\ Fault
    /\ Sleep(h)
    /\ UNCHANGED <<file, lock, pod, source, marker, deaths>>

CheckSource(h) ==
    /\ hunter[h].pc = "source"
    /\ IF source THEN At(h, "probe") ELSE Sleep(h)
    /\ UNCHANGED <<file, lock, pod, source, marker, deaths, faults>>

Offers == 0..MaxOffers

\* The offers of all targets, in their order; a watcher only reports them.
Probe(h) ==
    /\ hunter[h].pc = "probe"
    /\ \E n \in Offers :
          IF hunter[h].claim
          THEN hunter' = [hunter EXCEPT ![h] = [@ EXCEPT !.pc = "offer", !.offers = n]]
          ELSE Sleep(h)
    /\ UNCHANGED <<file, lock, pod, source, marker, deaths, faults>>

\* claim_pending is durable before the request that may spend.
Mark(h) ==
    /\ hunter[h].pc = "offer"
    /\ IF hunter[h].offers = 0
       THEN Sleep(h) /\ UNCHANGED file
       ELSE Record(None, TRUE) /\ At(h, "post")
    /\ UNCHANGED <<lock, pod, source, marker, deaths, faults>>

Fresh == {p \in Pods : pod[p] = "none" /\ \A q \in 1..(p - 1) : pod[q] # "none"}

\* The pod runs, its id is in the answer.
Created(h) ==
    /\ hunter[h].pc = "post"
    /\ \E p \in Fresh :
          /\ pod' = [pod EXCEPT ![p] = "live"]
          /\ hunter' = [hunter EXCEPT ![h] = [@ EXCEPT !.pc = "keep", !.id = p]]
    /\ UNCHANGED <<file, lock, source, marker, deaths, faults>>

\* A transport error, or an answer without an id: created or not, the marker stays.
AnswerLost(h) ==
    /\ hunter[h].pc = "post" /\ Fault
    /\ \/ \E p \in Fresh : pod' = [pod EXCEPT ![p] = "live"]
       \/ UNCHANGED pod
    /\ Sleep(h)
    /\ UNCHANGED <<file, lock, source, marker, deaths>>

\* An HTTP error is an answer: nothing was created.  For want of capacity the next
\* offer is tried, for another reason the iteration ends.
Rejected(h) ==
    /\ hunter[h].pc = "post" /\ Fault
    /\ Record(None, FALSE)
    /\ \/ hunter' = [hunter EXCEPT ![h].pc = "offer", ![h].offers = @ - 1]
       \/ Sleep(h)
    /\ UNCHANGED <<lock, pod, source, marker, deaths>>

\* The id is durable before anything else is asked.
Keep(h) ==
    /\ hunter[h].pc = "keep"
    /\ Record(hunter[h].id, FALSE) /\ At(h, "verify")
    /\ UNCHANGED <<lock, pod, source, marker, deaths, faults>>

\* Verified or not, the candidate stays in state.json for the next iteration.
verify_candidate(h) ==
    /\ hunter[h].pc = "verify" /\ Sleep(h)
    /\ UNCHANGED <<file, lock, pod, source, marker, deaths, faults>>

-----------------------------------------------------------------------------
(* The provider and the operator.                                            *)

\* A replacement waits for the source to stop, and ends itself after hold_seconds.
PodEnds(p) ==
    /\ pod[p] = "live"
    /\ pod' = [pod EXCEPT ![p] = "ended"]
    /\ UNCHANGED <<file, lock, hunter, source, marker, deaths, faults>>

SourceStops ==
    /\ source /\ source' = FALSE
    /\ UNCHANGED <<file, lock, hunter, pod, marker, deaths, faults>>

\* A handoff that succeeded; the guardian only looks before it starts a hunter.
UpgradeComplete ==
    /\ Live # {} /\ ~marker.complete
    /\ marker' = [marker EXCEPT !.complete = TRUE]
    /\ UNCHANGED <<file, lock, hunter, pod, source, deaths, faults>>

Authorise ==
    /\ marker' = [marker EXCEPT !.claim = ~@]
    /\ UNCHANGED <<file, lock, hunter, pod, source, deaths, faults>>

run_iteration(h) ==
    \/ Read(h) \/ CandidateGone(h) \/ CandidateHeld(h) \/ RequestFails(h) \/ CheckSource(h)
    \/ Probe(h) \/ Mark(h) \/ Created(h) \/ AnswerLost(h) \/ Rejected(h) \/ Keep(h)
    \/ verify_candidate(h)

main(h) == Lock(h) \/ Wake(h) \/ run_iteration(h)

Next ==
    \/ \E h \in Hunters : Start(h) \/ main(h) \/ Die(h)
    \/ \E p \in Pods : PodEnds(p)
    \/ SourceStops \/ UpgradeComplete \/ Authorise

\* The guardian restarts its hunter, and a hunter runs on; nothing is said of the
\* provider, of deaths and of the operator.
Fairness == \A h \in Hunters : WF_vars(main(h)) /\ WF_vars(Start(h))

Spec == Init /\ [][Next]_vars /\ Fairness

-----------------------------------------------------------------------------
(* Properties.                                                               *)

\* At most one replacement runs at a time, whatever dies, is lost or is started
\* beside it: "a restart ... cannot duplicate the reservation".
NoDuplicateSpend == Cardinality(Live) <= 1

\* A pod that runs can be found from the disk alone: its id is there, or the
\* suspicion that stops every further claim.
LivePodIsKnown == \A p \in Live : file.candidate = p \/ (file.candidate = None /\ file.pending)

\* The provider runs no pod twice, and none nobody knows of.
SpendIsKnown == NoDuplicateSpend /\ LivePodIsKnown

\* A replacement that ended is taken out of state.json, and hunting resumes, as
\* long as the upgrade is not complete.
GoneIsNoticed ==
    \A p \in Pods :
        (file.candidate = p /\ pod[p] = "ended") ~> (file.candidate # p \/ marker.complete)
=============================================================================
