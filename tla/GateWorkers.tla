----------------------------- MODULE GateWorkers -----------------------------
(* The workers of the external gate (gate_worker.py): the one of several      *)
(* tables, or the one of one table.  They share the ledger and the gate, and  *)
(* a campaign is played by one of them: main() picks it by the number of      *)
(* tables it is given.                                                        *)
EXTENDS Campaign

CONSTANTS Names, Hitches

VARIABLES
    one_game, one_filed, one_marker, one_table, one_expected, one_desired, one_pause, one_doing,
    one_proc, one_full, one_conn, one_heard, one_server, one_up, one_down, one_trouble,
    script  \* which worker main() runs

Single == INSTANCE SingleTable WITH
    game <- one_game, filed <- one_filed, marker <- one_marker, table_id <- one_table,
    expected <- one_expected, desired <- one_desired, pause <- one_pause, doing <- one_doing,
    proc <- one_proc, full <- one_full, conn <- one_conn, heard <- one_heard,
    server <- one_server, up <- one_up, down <- one_down, trouble <- one_trouble

\* Names are names, and there are as many as one runs with.
ASSUME NamesAssumption == IsFiniteSet(Names) /\ Single!NONE \notin Names

\* What the runs and the proofs share: each worker by its own specification.
GateSpec ==
    /\ [][UNCHANGED script]_script
    /\ script = "campaign" => Spec
    /\ script = "single" => Single!Spec

\* The ledger is what its quotas say, and so is each look of the gate, with
\* several tables and with one (choose_arm_for_stratum).
QuotasAreKept ==
    /\ script = "campaign" => LooksAreBalanced
    /\ script = "single" => Single!SingleIsBalanced

\* With one table nothing is opened before a departure is proved
\* (reconcile_mirror_departure).
DepartureIsProved == Single!DepartureIsProved
=============================================================================
