---------------------------- MODULE MCOperations ----------------------------
(* Small instances of the pod hunter, or of the supervisor with its recovery: *)
(* a behaviour is one of the two, the other standing still.                   *)
EXTENDS Operations

CONSTANTS g1, g2

VARIABLE script

supervision == <<procs, disk, ledger, remote, log, sup, rec, attempts, left>>

\* A dying supervisor, under launchers that exec and that wait; what may fail, with the
\* supervisor started as the boot does and by hand; a torn journal with the operator's
\* hold and a launcher that dies.
Plain == [named |-> FALSE, launcher |-> "waits", deaths |-> 0, torn |-> FALSE, faults |-> FALSE,
          holds |-> FALSE]

MCCases ==
    {[Plain EXCEPT !.deaths = 1],
     [Plain EXCEPT !.launcher = "execs", !.deaths = 1],
     [Plain EXCEPT !.launcher = "execs", !.deaths = 1, !.named = TRUE],
     [Plain EXCEPT !.launcher = "execs", !.faults = TRUE],
     [Plain EXCEPT !.launcher = "execs", !.faults = TRUE, !.named = TRUE],
     [Plain EXCEPT !.deaths = 1, !.faults = TRUE],
     [Plain EXCEPT !.torn = TRUE, !.holds = TRUE, !.launcher = "dies"]}

AllCases == MCCases \cup {Plain}

MCInit ==
    /\ script \in {"hunter", "supervisor"}
    /\ Init /\ Sup!Init
    /\ IF script = "supervisor" THEN left \in MCCases ELSE left = Plain

MCNext ==
    \/ script = "hunter" /\ Next /\ UNCHANGED <<supervision, script>>
    \/ script = "supervisor" /\ Sup!Next /\ UNCHANGED <<vars, script>>

\* Nothing of a supervisor that was not booted is enabled by itself; a hunter is.
MCFairness ==
    /\ Sup!Fairness
    /\ \A h \in Hunters :
          WF_vars(script = "hunter" /\ main(h)) /\ WF_vars(script = "hunter" /\ Start(h))

MCSpec == MCInit /\ [][MCNext]_<<vars, supervision, script>> /\ MCFairness
=============================================================================
