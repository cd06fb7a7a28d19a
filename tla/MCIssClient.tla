---------------------------- MODULE MCIssClient ----------------------------
(* Small instances of IssClient for TLC: every action is its own echo. *)
EXTENDS IssClient

MCRenders == {<<a, a>> : a \in Actions}

Worker(a, r, e, f) == [async |-> a, restarts |-> r, errors |-> e, failures |-> f]

\* The multi-table worker with a lost connection or a restart, ...
MCRestart == {Worker(TRUE, 1, 0, 0)}
\* ... and a decision that raises; the single-table one with a table error.
MCTrouble == {Worker(TRUE, 1, 0, 1), Worker(FALSE, 1, 1, 0)}
MCError   == {Worker(TRUE, 0, 1, 0)}
=============================================================================
