--------------------------- MODULE Orchestration ----------------------------
(* The two controllers of the project: the one that buys turns of a main      *)
(* model, and the one that dispatches tasks to workers.  They are generations *)
(* of one job and share nothing.                                              *)
EXTENDS MainController, FiniteSets

CONSTANTS Tasks, Writes, MaxSessions, MaxRuns, PlaneCases

VARIABLES
    tasks, workers, result, event, brain, planeSessions, brainSession, keyUsed, planePc, mem,
    planeLeft, planeCrashed, announced, untold, undone

plane == <<tasks, workers, result, event, brain, planeSessions, brainSession, keyUsed, planePc,
           mem, planeLeft, planeCrashed, announced, untold, undone>>

ASSUME PlaneAssumption ==
    /\ IsFiniteSet(Tasks) /\ MaxSessions \in Nat \ {0} /\ MaxRuns \in Nat
    /\ PlaneCases \subseteq [det : SUBSET Tasks, deps : [Tasks -> SUBSET Tasks],
                             runs : 0..MaxRuns, crashes : Nat, troubles : Nat]

Plane == INSTANCE ControlPlane
    WITH sessions <- planeSessions, pc <- planePc, left <- planeLeft, crashed <- planeCrashed,
         Cases <- PlaneCases

\* The properties of ControlPlane, under its own names.

\* Running tasks share no file, a FINISHED worker was announced (poll_workers), and
\* COMPLETE is backed by a COMPLETE result on disk (accept_worker_result).
TasksAreTracked == Plane!TasksAreTracked
\* A result not judged yet keeps something that will wake the superbrain.
NoLostWakeUp == Plane!NoLostWakeUp
=============================================================================
