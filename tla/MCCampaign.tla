----------------------------- MODULE MCCampaign -----------------------------
(* Small instances of a campaign to its end: the quotas with several tables, *)
(* the handshakes of several tables, or the worker of one table.  A behaviour *)
(* is one of the three, the others standing still.                            *)
EXTENDS GateWorkers

CONSTANTS Capacity, Need, MaxGames, Faults

VARIABLES
    slots, active, marker, evidence, ledger, runs, pause, ended, confirmed, sess, todo,
    conn, server, up, down, played, missed, budget

Slots == INSTANCE TableSlots WITH proc <- runs, complete <- ended

campaign == <<game, filed, slot, table, bound, complete, doing, proc, trouble>>
tables == <<slots, active, marker, evidence, ledger, runs, pause, ended, confirmed, sess, todo,
            conn, server, up, down, played, missed, budget>>
single == <<one_game, one_filed, one_marker, one_table, one_expected, one_desired, one_pause,
            one_doing, one_proc, one_full, one_conn, one_heard, one_server, one_up, one_down,
            one_trouble>>

----------------------------------------------------------------------------
Bounds(d, l, e, p) == [deaths |-> d, losses |-> l, errors |-> e, pauses |-> p]
Trouble(d, e, o) == [deaths |-> d, errors |-> e, odd |-> o]

\* A game of each arm, then three of four strata; the gate is decided at either.
MCLooks == <<1, 3>>
MCAnalyses == {<<"above", "spans">>, <<"spans", "below">>}

\* A death or strangers at a table, and a game that fails.
MCTroubles == {Trouble(1, 1, 0), Trouble(0, 1, 1)}
\* One failed game, or one pause.
MCFaults == {Bounds(0, 0, 1, 0), Bounds(0, 0, 0, 1)}
\* A death, a lost connection or a failed game around a pause.
MCHitches == {Bounds(1, 0, 1, 1), Bounds(0, 1, 0, 1), Bounds(0, 0, 1, 1)}

MCInit ==
    /\ script \in {"campaign", "tables", "single"}
    /\ Init /\ Slots!Init /\ Single!Init
    /\ script # "campaign" => trouble = Trouble(0, 1, 1)
    /\ script # "tables" => budget = Bounds(0, 0, 1, 0)
    /\ script # "single" => one_trouble = Bounds(0, 0, 1, 1)
    /\ script = "tables" => interval = <<"spans", "below">>

MCNext ==
    \/ script = "campaign" /\ Next /\ UNCHANGED <<tables, single, script>>
    \/ script = "tables" /\ Slots!Next /\ UNCHANGED <<rows, interval, campaign, single, script>>
    \/ script = "single" /\ Single!Next /\ UNCHANGED <<campaign, tables, script>>

\* The fairness of each module, for the one that moves.
CampaignFairness ==
    /\ WF_<<doing, slot>>(script = "campaign" /\ Proceeds)
    /\ WF_proc(script = "campaign" /\ (idle_outcome \/ (SupervisorRestarts /\ restart)))
    /\ WF_<<table, slot>>(script = "campaign" /\ \E t \in Tables : on_end(t) \/ on_destroy(t))

TablesFairness ==
    /\ WF_tables(script = "tables" /\ (Slots!Proceeds))
    /\ WF_tables(/\ script = "tables"
                 /\ Slots!ServerTakes \/ \E t \in Tables : Slots!StartGame(t) \/ Slots!EndGame(t))

SingleFairness ==
    /\ WF_one_doing(script = "single" /\ Single!Decides)
    /\ WF_one_down(script = "single" /\ Single!Reads)
    /\ WF_single(script = "single" /\ Single!Progress)
    /\ WF_one_full(script = "single" /\ Single!Drain)
    /\ WF_single(/\ script = "single"
                 /\ \/ Single!ServerTakes
                    \/ \E t \in Names : Single!StartGame(t) \/ Single!EndGame(t))

\* Of both: script never changes, so one condition stands for two.
Seating(t, seat) ==
    \/ script = "campaign" /\ Seated(t, seat) /\ UNCHANGED one_game
    \/ script = "single" /\ Single!Seated(seat) /\ UNCHANGED table

SeatingFairness ==
    \A t \in Tables, seat \in 0..(Seats - 1) : SF_<<table, one_game>>(Seating(t, seat))

MCSpec ==
    /\ MCInit /\ [][MCNext]_<<rows, interval, campaign, tables, single, script>>
    /\ CampaignFairness /\ TablesFairness /\ SingleFairness /\ SeatingFairness

----------------------------------------------------------------------------
\* Whatever fails, the campaign comes to an end, or always again to where the
\* supervisor starts no worker (_on_end, _on_destroy, evaluate_restart_state); with
\* one table only where no connection is lost and no process dies.
Finishes ==
    \/ script = "tables" /\ <>Slots!IsOver
    \/ script = "single" /\ one_trouble.deaths + one_trouble.losses > 0
    \/ []<>(\/ script = "campaign" /\ (IsOver \/ Stranded)
            \/ script = "single" /\ (Single!IsOver \/ Single!Stranded))
=============================================================================
