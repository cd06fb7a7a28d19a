--------------------------- MODULE MoveAuthority ---------------------------
(***************************************************************************)
(* What src/skatai/iss/effects.py promises to the rest of the client,      *)
(* without journal, positions or reconciliation: a game has one owner, the *)
(* material effect whose outcome is open.  An effect is claimed when the   *)
(* game has none, its line leaves at most once while it owns the game, and *)
(* once settled it never comes back.                                       *)
(***************************************************************************)
CONSTANTS Games, Effects, NoEffect

VARIABLES
    owner,    \* owner[g]: the effect of game g whose outcome is open
    spent,    \* effects whose line has left
    settled   \* effects whose outcome is known

vars == <<owner, spent, settled>>

Init ==
    /\ owner = [g \in Games |-> NoEffect]
    /\ spent = {}
    /\ settled = {}

\* A fresh effect takes a game that has no owner.
Claim(g) ==
    /\ owner[g] = NoEffect
    /\ owner'[g] \in Effects \ (settled \cup spent)
    /\ owner'[g].game = g
    /\ owner' = [owner EXCEPT ![g] = owner'[g]]
    /\ UNCHANGED <<spent, settled>>

Send(g) ==
    /\ owner[g] # NoEffect
    /\ owner[g] \notin spent
    /\ spent' = spent \cup {owner[g]}
    /\ UNCHANGED <<owner, settled>>

Settle(g) ==
    /\ owner[g] # NoEffect
    /\ settled' = settled \cup {owner[g]}
    /\ owner' = [owner EXCEPT ![g] = NoEffect]
    /\ UNCHANGED spent

Next == \E g \in Games : Claim(g) \/ Send(g) \/ Settle(g)

Spec == Init /\ [][Next]_vars
=============================================================================
