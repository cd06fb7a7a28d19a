-------------------------- MODULE MCEvidenceOutbox --------------------------
(* Small instances of EvidenceOutbox for TLC. *)
EXTENDS EvidenceOutbox

\* A restart and a failed upload with one table, a restart with two.
MCTrouble == {[tables |-> 1, restarts |-> 1, outages |-> 1],
              [tables |-> 2, restarts |-> 1, outages |-> 0]}
\* Nothing fails.
MCNone    == {[tables |-> 2, restarts |-> 0, outages |-> 0]}
=============================================================================
