----------------------------- MODULE Decisions -----------------------------
(* Where decisions come from and what they are asked about: the pool under    *)
(* its callers (DecisionHost), and a game on ISS as its players replay it     *)
(* (IssView).  Both start from the same auction and share no state: a case    *)
(* runs either.                                                               *)
EXTENDS DecisionHost

CONSTANTS
    ViewTop, Tricks, Shows      \* bounds of the ISS game

ASSUME ViewAssumption == ViewTop \in Nat \ {0} /\ Tricks \in Nat \ {0}

VARIABLES moves, server

View == INSTANCE IssView WITH Top <- ViewTop

DecisionsInit == Init /\ View!ViewInit

DecisionsNext ==
    \/ Next /\ UNCHANGED <<moves, server>>
    \/ left.who = "iss" /\ View!ViewNext /\ UNCHANGED vars

DecisionsSpec == DecisionsInit /\ [][DecisionsNext]_<<vars, moves, server>> /\ Fairness

\* Of three programs at a table exactly the one the server waits for is asked to act
\* (bridge.py, gameview.py), as IssView states it; only one case plays such a game.
TurnsAreAgreed == left.who = "iss" => View!TurnsAreAgreed
=============================================================================
