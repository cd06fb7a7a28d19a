--------------------------- MODULE EffectRecords ---------------------------
(***************************************************************************)
(* The values the ISS effect journal is made of (effects.py): moves,       *)
(* positions, effects, and the operators that read and settle a journal.   *)
(*                                                                         *)
(* Abstractions:                                                           *)
(*  - the JSONL file is its replay, the map states() computes from it;     *)
(*  - an effect id is the hash of table, game, position, decision and wire *)
(*    action: here the record of the game, the move list the decision was  *)
(*    taken from, and the action.  A game stands for one (table_id,        *)
(*    game_sequence) pair.                                                 *)
(***************************************************************************)
EXTENDS Naturals, Sequences

CONSTANTS
    Games,      \* (table_id, game_sequence) pairs
    Actions,    \* wire actions this client may decide on
    Forms,      \* wire actions as the server may echo them
    Renders,    \* pairs <<action, form>>: the echoes that mean the action
    MyTurns,    \* the turns of a game that are this client's
    OutOfTurn   \* move kinds the server may interleave without using a turn

ASSUME RendersAssumption ==
    /\ Actions \subseteq Forms
    /\ Renders \subseteq Actions \X Forms
    /\ \A a \in Actions : <<a, a>> \in Renders
    /\ Forms \cap {"act", "timeout", "resign", "leave", "show"} = {}
ASSUME TurnsAssumption ==
    /\ MyTurns \subseteq Nat
    /\ OutOfTurn \subseteq {"resign", "leave", "show"}

----------------------------------------------------------------------------
(* Moves, positions and effects.                                           *)

\* A move that is not a material one is written as its kind ("RE", "TI", ...).
Kinds    == {"act", "timeout"} \cup OutOfTurn
Move     == [kind : Kinds, form : Forms \cup Kinds, turn : Nat]
Position == Seq(Move)
EffectId == [game : Games, pos : Position, action : Actions]

\* ABORTED_STALE with the reason ISS_TABLE_ERROR is written ABORTED_ERROR.
Terminal == {"CONFIRMED", "ABORTED_STALE", "ABORTED_ERROR"}
Status   == {"INTENT", "SEND_RETURNED", "RETRY_AUTHORIZED"} \cup Terminal

\* The index of the turn that is open after the moves of p.
TurnAt(p) == IF p = <<>> THEN 0
             ELSE LET m == p[Len(p)]
                  IN  IF m.kind = "act" THEN m.turn + 1 ELSE m.turn

GameOver(p) == p # <<>> /\ p[Len(p)].kind = "timeout"

\* The client takes a leave, too, for the end of the game and decides nothing
\* any more.  (A resignation here is one that does not end the game.)
HasLeft(p) == \E i \in DOMAIN p : p[i].kind = "leave"

Prefix(p, n) == SubSeq(p, 1, n)

\* Mutation: the echo must be the line that was sent.
SameWire(expected, observed) == expected = observed

wire_actions_equivalent(expected, observed) == <<expected, observed>> \in Renders

Put(f, k, v) == [x \in DOMAIN f \cup {k} |-> IF x = k THEN v ELSE f[x]]

\* Mutations: settled effects count as open; effects already sent do not.
AnyOf(j, g)     == {e \in DOMAIN j : e.game = g}
IntentsOf(j, g) == {e \in DOMAIN j : e.game = g /\ j[e].status = "INTENT"}

Pending(j, g) ==
    {e \in DOMAIN j : e.game = g /\ j[e].status \notin Terminal}

SetStatus(j, E, s) ==
    [e \in DOMAIN j |-> IF e \in E THEN [j[e] EXCEPT !.status = s] ELSE j[e]]

----------------------------------------------------------------------------
(* reconcile_table: settle the pending effects of one game against the     *)
(* move list p the client holds for it.                                    *)

\* Mutation: the next move settles the effect, whatever it is.
AnyAfter(p, e) == {i \in DOMAIN p : i > Len(e.pos)}

\* Places in p, after the effect's position, of moves that are neither a
\* resignation nor a leave: those two the code steps over.
After(p, e) == {i \in DOMAIN p : i > Len(e.pos)
                                 /\ p[i].kind \notin {"resign", "leave"}}

Verdict(p, e) ==
    CASE Len(p) > Len(e.pos) /\ After(p, e) # {} ->
            LET first == CHOOSE i \in After(p, e) :
                            \A k \in After(p, e) : i <= k
            IN  IF wire_actions_equivalent(e.action, p[first].form)
                THEN "CONFIRMED" ELSE "ABORTED_STALE"
      [] Len(p) = Len(e.pos) /\ p # e.pos -> "ABORTED_STALE"
      [] OTHER -> "PENDING"

reconcile_table(j, g, p) ==
    [e \in DOMAIN j |->
        IF e \in Pending(j, g) /\ Verdict(p, e) # "PENDING"
        THEN [j[e] EXCEPT !.status = Verdict(p, e)]
        ELSE j[e]]
=============================================================================
