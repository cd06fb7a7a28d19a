-------------------------- MODULE MCOrchestration ---------------------------
(* Small instances of the two controllers, the one that buys turns of a main *)
(* model and the one that dispatches tasks to workers.  They are generations  *)
(* of one job and never run together: a behaviour is one of the two, the      *)
(* other standing still.                                                     *)
EXTENDS Orchestration

CONSTANTS t1, t2, f

VARIABLE which

-----------------------------------------------------------------------------
(* MainController: every batch of one or two calls; then what happens         *)
(* outside, one bound at a time.                                             *)

AnyBatch == UNION {[1..n -> Kinds] : n \in 1..2}

MCCases ==
    {[batches |-> AnyBatch, deaths |-> 0, permits |-> 0, days |-> 0, events |-> 0],
     [batches |-> {<<"outcome">>}, deaths |-> 1, permits |-> 1, days |-> 0, events |-> 0],
     [batches |-> {<<"outcome">>}, deaths |-> 1, permits |-> 0, days |-> 1, events |-> 1]}

-----------------------------------------------------------------------------
(* ControlPlane: two writers of one file and a crash; a command that depends *)
(* on the first task, with ids created again and a crash, or with troubles.   *)

MCWrites == [t \in Tasks |-> {f}]

Case(det, runs, crashes, troubles) ==
    [det |-> det, runs |-> runs, crashes |-> crashes, troubles |-> troubles,
     deps |-> [t \in Tasks |-> IF t \in det THEN {t1} ELSE {}]]

MCPlaneCases == {Case({}, 1, 1, 0), Case({t2}, 2, 1, 0), Case({t2}, 1, 0, 1)}

-----------------------------------------------------------------------------

MCInit ==
    /\ which \in {"main", "plane"}
    /\ Init /\ Plane!Init
    /\ IF which = "main" THEN planeLeft = Case({}, 1, 1, 0) ELSE left.batches = AnyBatch

MCNext ==
    \/ which = "main" /\ Next /\ UNCHANGED <<plane, which>>
    \/ which = "plane" /\ Plane!Next /\ UNCHANGED <<vars, which>>

MCSpec == MCInit /\ [][MCNext]_<<vars, plane, which>>
=============================================================================
