---------------------------- MODULE MCTableSlots ----------------------------
(* Small instances of TableSlots for TLC. *)
EXTENDS TableSlots

Bounds(d, l, e, p) == [deaths |-> d, losses |-> l, errors |-> e, pauses |-> p]

\* Two troubles of four: death, lost connection, failed game, pause.
MCFaults == {Bounds(1, 1, 0, 0), Bounds(0, 1, 1, 0), Bounds(1, 0, 1, 0), Bounds(1, 0, 0, 1)}
=============================================================================
