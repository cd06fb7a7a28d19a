----------------------------- MODULE WorkerPool -----------------------------
(* src/skatai/runtime/skatzero_pool.py, the warm inference processes, and the *)
(* single flight of BID computations before them (skatzero_backend.py).       *)
(* Callers are the inference threads of the gate worker, which also prefetch  *)
(* bids, or the one loop of the host service.  A request is a key whose       *)
(* result is cached, or "plain".                                              *)
EXTENDS Naturals, FiniteSets

CONSTANTS
    Callers,
    Keys,          \* hands to be valued: max_bid is computed once for each
    MaxProcs,      \* bound: processes started
    Cases          \* the bounds below, one choice of them for a behaviour

ASSUME BoundAssumption == MaxProcs \in Nat

VARIABLES
    proc,       \* process -> state, and the answer in its pipe
    all,        \* self._all
    avail,      \* self._available
    replacing,  \* who holds _replace_lock
    closed,     \* self._closed
    call,       \* caller -> where its call is
    inflight,   \* _max_bid_inflight: key -> who computes it
    cache,      \* _max_bid_cache, its keys
    lost,       \* slots lost: their replacement did not start
    left        \* [slots, faults, starts, closes, who]: the size of the pool; what is
                \* left of crashes, hangs and garbled answers, of failing
                \* starts, of closes; whose threads call

poolVars == <<proc, all, avail, replacing, closed, call, inflight, cache, lost>>

Procs == 1..MaxProcs
None == "none"

ASSUME CallerAssumption == IsFiniteSet(Callers) /\ None \notin Callers

ASSUME KeyAssumption == "plain" \notin Keys

ASSUME CaseAssumption ==
    Cases \subseteq [who : {"gate", "host", "iss"}, slots : 0..MaxProcs,
                     faults : Nat, starts : Nat, closes : Nat]

Idle == [pc |-> "idle", key |-> None, worker |-> 0, fresh |-> 0, again |-> FALSE, out |-> None]

PoolInit ==
    /\ left \in Cases
    /\ proc = [p \in Procs |-> [st |-> IF p <= left.slots THEN "idle" ELSE "unborn", out |-> None]]
    /\ all = 1..left.slots /\ avail = 1..left.slots
    /\ replacing = None /\ closed = FALSE
    /\ call = [c \in Callers |-> Idle]
    /\ inflight = [k \in Keys |-> None]
    /\ cache = {} /\ lost = 0

Spend(bound) == left[bound] > 0 /\ left' = [left EXCEPT ![bound] = @ - 1]
Goto(c, pc) == call' = [call EXCEPT ![c].pc = pc]
Ends(c, out) == call' = [call EXCEPT ![c].pc = "finish", ![c].out = out]
Kill(P) == [p \in Procs |-> IF p \in P /\ proc[p].st # "unborn"
                            THEN [st |-> "dead", out |-> None] ELSE proc[p]]

-----------------------------------------------------------------------------
(* A worker process: one line in, one line out.                              *)

Answer(p) ==
    /\ proc[p].st \in {"busy", "slow"}
    /\ \E out \in {"ok", "failed"} : proc' = [proc EXCEPT ![p] = [st |-> "idle", out |-> out]]
    /\ UNCHANGED <<all, avail, replacing, closed, call, inflight, cache, lost, left>>

\* It dies, gets slow, or answers what is no answer.
Trouble(p) ==
    /\ proc[p].st \in {"idle", "busy"} /\ proc[p].out = None /\ Spend("faults")
    /\ \/ proc' = [proc EXCEPT ![p].st = "dead"]
       \/ proc[p].st = "busy" /\ proc' = [proc EXCEPT ![p].st = "slow"]
       \/ proc[p].st = "busy" /\ proc' = [proc EXCEPT ![p] = [st |-> "idle", out |-> "garbage"]]
    /\ UNCHANGED <<all, avail, replacing, closed, call, inflight, cache, lost>>

-----------------------------------------------------------------------------
(* max_bid: one computation of a key at a time, and who waits for it.        *)

Call(c, key) ==
    /\ call[c].pc = "idle"
    /\ call' = [call EXCEPT ![c].pc = IF key \in Keys THEN "look" ELSE "enter", ![c].key = key]
    /\ UNCHANGED <<proc, all, avail, replacing, closed, inflight, cache, lost, left>>

\* Under _max_bid_lock: cached, computed by another, or ours to compute.
Look(c) ==
    /\ call[c].pc = "look"
    /\ \/ call[c].key \in cache /\ call' = [call EXCEPT ![c].pc = "value"] /\ UNCHANGED inflight
       \/ call[c].key \notin cache /\ inflight[call[c].key] # None
          /\ Goto(c, "wait") /\ UNCHANGED inflight
       \/ call[c].key \notin cache /\ inflight[call[c].key] = None
          /\ Goto(c, "enter") /\ inflight' = [inflight EXCEPT ![call[c].key] = c]
    /\ UNCHANGED <<proc, all, avail, replacing, closed, cache, lost, left>>

\* timeout_s + 5 without the event: the waiter raises.
WaitTimesOut(c) ==
    /\ call[c].pc = "wait" /\ Goto(c, "error")
    /\ UNCHANGED <<proc, all, avail, replacing, closed, inflight, cache, lost, left>>

\* The owner's value is cached, and its finally takes the key out and wakes the
\* waiters, who look again.
Finish(c) ==
    LET key == call[c].key
        owner == key \in Keys IN
    /\ call[c].pc = "finish"
    /\ cache' = IF owner /\ call[c].out = "value" THEN cache \cup {key} ELSE cache
    /\ inflight' = IF owner THEN [inflight EXCEPT ![key] = None] ELSE inflight
    /\ call' = [d \in Callers |->
                  IF d = c THEN [call[c] EXCEPT !.pc = call[c].out]
                  ELSE IF owner /\ call[d].pc = "wait" /\ call[d].key = key
                       THEN [call[d] EXCEPT !.pc = "look"] ELSE call[d]]
    /\ UNCHANGED <<proc, all, avail, replacing, closed, lost, left>>

-----------------------------------------------------------------------------
(* run(): acquire, request, and one replacement.                             *)

Enter(c) ==
    /\ call[c].pc = "enter"
    /\ IF closed THEN Ends(c, "error") ELSE Goto(c, "acquire")
    /\ UNCHANGED <<proc, all, avail, replacing, closed, inflight, cache, lost, left>>

Acquire(c) ==
    /\ call[c].pc = "acquire"
    /\ \E w \in avail :
          /\ avail' = avail \ {w}
          /\ call' = [call EXCEPT ![c].pc = "send", ![c].worker = w]
    /\ UNCHANGED <<proc, all, replacing, closed, inflight, cache, lost, left>>

\* Mutant of AcquireTimesOut: get() without a timeout.
AcquireWaits(c) == FALSE /\ call[c].pc = "acquire" /\ UNCHANGED <<poolVars, left>>

AcquireTimesOut(c) ==
    /\ call[c].pc = "acquire" /\ avail = {}
    /\ Ends(c, "error")
    /\ UNCHANGED <<proc, all, avail, replacing, closed, inflight, cache, lost, left>>

\* A write that fails is a transport error; one to a process that close() took away
\* is none.
Send(c) ==
    LET w == call[c].worker IN
    /\ call[c].pc = "send"
    /\ \/ proc[w].st # "dead" /\ proc' = [proc EXCEPT ![w].st = "busy"] /\ Goto(c, "read")
       \/ proc[w].st = "dead" /\ Goto(c, "broken") /\ UNCHANGED proc
       \/ proc[w].st = "dead" /\ closed /\ Ends(c, "error") /\ UNCHANGED proc
    /\ UNCHANGED <<all, avail, replacing, closed, inflight, cache, lost, left>>

\* finally: back into the queue, unless the pool was closed; a process nobody keeps
\* loses its pipe and ends.
GiveBack(w) ==
    /\ avail' = IF closed THEN avail ELSE avail \cup {w}
    /\ proc' = IF closed THEN Kill({w}) ELSE [proc EXCEPT ![w].out = None]

\* An answer, or the error of a healthy worker: it goes back, and nothing is retried.
Read(c) ==
    LET w == call[c].worker IN
    /\ call[c].pc = "read" /\ proc[w].out \in {"ok", "failed"}
    /\ Ends(c, IF proc[w].out = "ok" THEN "value" ELSE "error")
    /\ GiveBack(w)
    /\ UNCHANGED <<all, replacing, closed, inflight, cache, lost, left>>

\* Mutant of ReadFails: a request that timed out is an error of the request.
ReadGivesBack(c) ==
    LET w == call[c].worker IN
    /\ call[c].pc = "read"
    /\ proc[w].st \in {"dead", "slow"} \/ proc[w].out = "garbage"
    /\ Ends(c, "error") /\ GiveBack(w)
    /\ UNCHANGED <<all, replacing, closed, inflight, cache, lost, left>>

\* EOF, no answer in time, bad JSON or the id of another request.
ReadFails(c) ==
    LET w == call[c].worker IN
    /\ call[c].pc = "read"
    /\ proc[w].st \in {"dead", "slow"} \/ proc[w].out = "garbage"
    /\ Goto(c, "broken")
    /\ UNCHANGED <<proc, all, avail, replacing, closed, inflight, cache, lost, left>>

\* close() took the process of a request away: an error that is no transport error.
Interrupted(c) ==
    /\ call[c].pc = "read" /\ closed /\ proc[call[c].worker].st = "dead"
    /\ Ends(c, "error")
    /\ UNCHANGED <<proc, all, avail, replacing, closed, inflight, cache, lost, left>>

\* _replace, under its lock: close what failed, start another one.
Replace(c) ==
    /\ call[c].pc = "broken" /\ replacing = None
    /\ \E p \in Procs :
          /\ proc[p].st = "unborn" /\ \A q \in 1..(p - 1) : proc[q].st # "unborn"
          /\ proc' = [Kill({call[c].worker}) EXCEPT ![p] = [st |-> "loading", out |-> None]]
          /\ call' = [call EXCEPT ![c].pc = "starting", ![c].fresh = p]
    /\ replacing' = c
    /\ UNCHANGED <<all, avail, closed, inflight, cache, lost, left>>

\* The first replacement gets the request again; the second is for those who follow.
Started(c) ==
    LET w == call[c].worker
        p == call[c].fresh IN
    /\ call[c].pc = "starting"
    /\ replacing' = None
    /\ all' = IF w \in all THEN (all \ {w}) \cup {p} ELSE all
    /\ IF call[c].again
       THEN /\ call' = [call EXCEPT ![c].pc = "finish", ![c].out = "error", ![c].worker = p, ![c].fresh = 0]
            /\ avail' = IF closed THEN avail ELSE avail \cup {p}
            /\ proc' = IF closed THEN Kill({p}) ELSE [proc EXCEPT ![p].st = "idle"]
       ELSE /\ call' = [call EXCEPT ![c].pc = "send", ![c].worker = p, ![c].fresh = 0, ![c].again = TRUE]
            /\ proc' = [proc EXCEPT ![p].st = "idle"]
            /\ UNCHANGED avail
    /\ UNCHANGED <<closed, inflight, cache, lost, left>>

\* The start raises out of run(): what was to be replaced is not put back either.
StartFails(c) ==
    /\ call[c].pc = "starting" /\ Spend("starts")
    /\ replacing' = None /\ proc' = Kill({call[c].fresh})
    /\ call' = [call EXCEPT ![c].pc = "finish", ![c].out = "error", ![c].fresh = 0]
    /\ lost' = lost + 1
    /\ UNCHANGED <<all, avail, closed, inflight, cache>>

\* close(), while threads may still be in run(): first the flag, then the processes.
CloseFlag ==
    /\ ~closed /\ Spend("closes")
    /\ closed' = TRUE
    /\ UNCHANGED <<proc, all, avail, replacing, call, inflight, cache, lost>>

CloseAll ==
    /\ closed /\ all # {}
    /\ proc' = Kill(all) /\ all' = {} /\ avail' = {}
    /\ UNCHANGED <<replacing, closed, call, inflight, cache, lost, left>>

\* The caller has what it asked for.
Take(c) ==
    /\ call[c].pc \in {"value", "error"}
    /\ call' = [call EXCEPT ![c] = Idle]
    /\ UNCHANGED <<proc, all, avail, replacing, closed, inflight, cache, lost, left>>

run(c) ==
    \/ Enter(c) \/ Acquire(c) \/ AcquireTimesOut(c) \/ Send(c) \/ Read(c) \/ ReadFails(c)
    \/ Interrupted(c) \/ Replace(c) \/ Started(c)

max_bid(c) == Look(c) \/ WaitTimesOut(c) \/ Finish(c)

-----------------------------------------------------------------------------
(* Properties of the pool.                                                   *)

UnderWay(c) == call[c].pc \notin {"idle", "look", "wait", "value", "error"}
Holds(c) == call[c].pc \in {"send", "read", "broken", "starting"}

\* "One request in flight per process": what is available neither computes nor has an
\* answer in its pipe, which a later request would read, and no two calls share one.
OneInFlight ==
    ~closed =>
        /\ \A w \in avail : proc[w].st \notin {"busy", "slow"} /\ proc[w].out = None
        /\ \A c \in Callers : Holds(c) => call[c].worker \notin avail
        /\ \A c, d \in Callers : Holds(c) /\ Holds(d) /\ c # d => call[c].worker # call[d].worker

\* No capacity is lost but with a replacement that did not start.
CapacityIsKept ==
    ~closed => Cardinality(avail) + Cardinality({c \in Callers : Holds(c)}) + lost = left.slots

\* A hand is valued by one call at a time, and is in flight only while that call
\* is: one that failed leaves nothing behind for which later ones would wait.
OneOwnerPerKey ==
    /\ \A k \in Keys : inflight[k] # None => UnderWay(inflight[k]) /\ call[inflight[k]].key = k
    /\ \A c \in Callers : UnderWay(c) /\ call[c].key \in Keys => inflight[call[c].key] = c

\* Neither a process nor the value of a hand is shared by mistake, or lost.
PoolIsSound == OneInFlight /\ CapacityIsKept /\ OneOwnerPerKey

\* Every call ends, with a value or an error, whatever happens to the processes; only
\* one that waits for a hand starts over, each time another's computation of it failed.
EveryCallEnds ==
    \A c \in Callers :
        call[c].pc # "idle" ~>
            \/ call[c].pc = "idle"
            \/ \E d \in Callers \ {c} : call[d].pc = "error" /\ call[d].key = call[c].key
=============================================================================
