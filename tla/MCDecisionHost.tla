--------------------------- MODULE MCDecisionHost ---------------------------
(* The pool under the gate worker's threads or under the host of a series,   *)
(* and a game on ISS: each is a case of Decisions.                            *)
EXTENDS Decisions

CONSTANTS thread1, thread2

Hands == {"hand1", "hand2"}
MCHandOf == <<"hand1", "hand2">>

Case(who, slots, faults, starts, closes) ==
    [who |-> who, slots |-> slots, faults |-> faults, starts |-> starts, closes |-> closes]

\* Two threads with a process each or one for both, a series over one process, and a
\* game on ISS, whose decisions are left out of the pool.
MCCases ==
    {Case("gate", 1, 2, 1, 0), Case("gate", 2, 1, 1, 0), Case("gate", 2, 1, 0, 1),
     Case("host", 1, 1, 1, 0), Case("iss", 0, 0, 0, 0)}
=============================================================================
