----------------------------- MODULE Operations -----------------------------
(* What keeps the machine at work: the pod hunter, and the supervisor with   *)
(* its recovery.  They run on one machine and share nothing.                 *)
EXTENDS PodHunter

CONSTANTS MaxLaunches, MaxRecoveries, Games, Cases

VARIABLES procs, disk, ledger, remote, log, sup, rec, attempts, left

ASSUME LaunchesAssumption == MaxLaunches \in Nat /\ MaxRecoveries \in Nat
ASSUME CasesAssumption ==
    Cases \subseteq [named : BOOLEAN, launcher : {"waits", "execs", "dies"}, deaths : Nat,
                     torn : BOOLEAN, faults : BOOLEAN, holds : BOOLEAN]

Sup == INSTANCE Supervisor

\* The properties of Supervisor, under its own names.

\* One worker over all deaths, and no ended game failed (supervise_frozen_r9.py).
ProcessesAreApart == Sup!ProcessesAreApart
\* No authority over a game is dropped (reconcile_r9_abandoned_game.py).
AuthorityIsKept == Sup!AuthorityIsKept
\* Work resumes, and an abandoned game is recovered (supervise()).
SupervisionGoesOn == Sup!SupervisionGoesOn
=============================================================================
