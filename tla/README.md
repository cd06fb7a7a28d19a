# SkatAI V2 in TLA+

A verification development of SkatAI V2: TLA+ models of the program's own
protocols, TLC configurations that check them on small instances, and TLAPS
proofs of what matters most for every size. All paths below are relative to
`src/` (the repository); `PROJECT.json` names the lines each definition
stands for.

The program lets a neural Skat player play rated games on the ISS server, as
evidence in a promotion campaign. What makes it hard is not the play but the
bookkeeping: a move may be sent only once, over crashes and reconnects; games
on several tables share one process, one connection and a pool of inference
workers; and every finished game must be counted exactly once.

## 1. The system

| component | state it keeps | operations | who calls it |
|---|---|---|---|
| effect journal and guard (`iss/effects.py`) | append-only JSONL of effect events, replayed by `states()` | begin, send, mark_send_returned, reconcile_table, authorize_retry, abort_stale, confirm_observed_action | client core; gate worker on table errors |
| client core (`iss/client.py`) | state lock, effect lock, futures per game, queue of decision errors | handle_line, _maybe_send_move, _async_decision_done, _send_decision, close | gate worker's read loop; executor threads |
| session state (`iss/session.py`) | per table: moves, sequence, in_progress, seat; connected flag | create, start, play, end, destroy, error, set_disconnected | client core under the state lock |
| game view (`iss/gameview.py`) | none (pure replay of a move list) | replay_player_view | decision bridge |
| decision bridge (`iss/bridge.py`) | runtime handles, latency records | next_decision | client core, on worker threads |
| protocol, service, transport (`iss/protocol.py`, `service.py`, `transport.py`) | socket | parse, format, login, read_line, send_line | client core, gate worker |
| gate worker, tables (`iss/gate_worker.py`) | assignments, durable slots, departure markers, pause and complete flags | create, start, end, table error, destroy, retire, reconnect, restart | the process's main loop |
| gate worker, evidence (`iss/gate_worker.py`) | package directories, ledger, mirror queue, batches | append_game, enqueue, mirror, verify, reconcile | end of a game, restart, write-behind thread |
| campaign (`evaluation/iss_campaign.py`, `iss_ledger.py`, `iss_gate.py`) | ledger of scored games, strata, looks | next stratum, quotas, decision | gate worker |
| control plane (`orchestration/control_plane.py`) | task and worker registries, results, one pending event, the superbrain's session | launch_ready_workers, poll_workers, poll_superbrain, dispatch_tool, accept_worker_result | a loop, restarted when it dies |
| SkatZero pool and backend (`runtime/skatzero_pool.py`, `skatzero_backend.py`) | child processes, checkout queue, values in flight | run with a timeout, replace a process, max_bid, close | decision bridge, host service |
| host service (`runtime/host_service.py`) | one policy, what it works on | read a line, decide, answer | Java client |
| Java adapter (`integrations/jskat-adapter`) | auction as told, one host process | callbacks of a game, exchange, give up | JSkat |
| rules, auction, self play (`game/`, `gameplay/`, `selfplay/`) | none, or one game | bid, declare, play, score | training, evaluation, game view |
| training, data, models, offline evaluation, releases | files | batch jobs | command line |
| main controller (`scripts/openai_platform_main_controller.py`, `main_tool_gateway.py`) | STATE with ledger and counters, execution lock, turn outcome, result files | submit, handle required actions, close, abort, rotate | a loop under a guardian |
| supervisor and recovery (`scripts/supervise_frozen_r9.py`, `reconcile_r9_abandoned_game.py`) | attempts file; reads the worker's runtime directory and /proc | evaluate, launch, reconcile | boot scripts, operator |
| pod hunter (`scripts/runpod_cpu_upgrade_hunter.py`) | state.json, lock | probe, create a pod, verify | guardian script, operator |

How they interact: one reader thread takes lines off the socket and applies
them to the session state under the *state lock*; a started or changed game
makes it ask for a decision, either at once (single-table worker) or through
an executor (multi-table worker), whose done-callbacks run on worker threads.
A decision is sent under the *effect lock* through the journal: INTENT, line,
SEND_RETURNED. What the server plays afterwards settles the effect
(CONFIRMED or ABORTED_STALE). Table events then reach the gate worker, which
persists slots and assignments, records finished games as packages and in the
ledger, and sends READY or LEAVE for the table.

Around that process: the supervisor starts it and learns of its end from its
runtime directory and from /proc; the pool computes bids and cards for it, and
for the host service, whose client is a JSkat player. The two controllers
develop the program itself with language models and meet the rest only through
the repository; they are two generations of one job.

Hard behaviours: two locks and three kinds of threads around one journal;
process death between any two durable or visible steps; a line that left
although nothing was recorded, or was recorded and never left; reconnects that
replay a game; moves the server interleaves that use no turn; table errors in
the middle of a send; departures of tables that lose their answer.

What makes each part correct:

- *journal*: one unresolved effect per game, outcomes that are true and final,
  no line without authority, at most one line per turn;
- *client core*: decisions are sent only for the position they were computed
  on, no turn of ours is forgotten, the journal is used serially;
- *tables*: capacity is kept, no table is abandoned while a game runs on it,
  READY and LEAVE follow what is on disk, a game keeps its arm over a crash;
- *evidence*: a finished game is scored exactly once, and withdrawn from
  authority only when its package is durable;
- *campaign*: quotas are never overfilled, looks come at fixed counts;
- *control plane*: one live worker per task, results accepted once;
- *pool*: an answer belongs to the request it answers;
- *rules and views*: the replay of a move list agrees with the rules.

## 2. The plan

Most important first; every module keeps parameters as CONSTANTS with named
assumptions, one action per operation, and no RECURSIVE operator.

| step | modules | state |
|---|---|---|
| journal and authority | `EffectRecords`, `EffectJournal`, `MoveAuthority` | done, proved |
| threads of the client | `IssClient` | done, proved; left: several tables sharing the executor, `close()` |
| tables of the worker | `TableSlots`, `SingleTable` | done, proved |
| evidence | `EvidenceOutbox` | done, proved; left: an abstract specification |
| orchestration | `ControlPlane`, `MainController` over `TurnTools` | done, proved |
| operations | `Supervisor`, `PodHunter` | done, proved |
| decisions | `WorkerPool`, `DecisionHost`, `SkatAuction`, `IssView`, joined by `Decisions` | done, proved; left: card legality |
| campaign | `CampaignQuotas` under `Campaign` and `SingleTable`, joined by `GateWorkers` | done, quotas proved |

Composition: `IssClient` instantiates `EffectJournal`; `MainController` extends
`TurnTools`; `DecisionHost` extends `WorkerPool` and `SkatAuction`, `IssView`
extends `SkatAuction`, and `Decisions` extends the one and instantiates the other;
`Campaign` and `SingleTable` extend `CampaignQuotas`,
and `GateWorkers` extends one and instantiates the other, as `main()` runs one of them.
`Orchestration` puts the two controllers, and `Operations` the hunter and the
supervisor, side by side with the constants and assumptions of both.
`TableSlots` takes from the journal only that a game is
live, stopped or over, and meets `EvidenceOutbox` at the end of a game, where
both have the same four durable steps: `TableSlots` with all tables and no
mirror, `EvidenceOutbox` with the mirror and no tables. `Campaign` has the tables as
the server sees them, and of `TableSlots` what the quotas need. `Supervisor` has of the
worker only what it leaves on disk.

## 3. The modules

### EffectRecords
The values of the journal: a game stands for one (table_id, game_sequence)
pair, a position for the move list that `table_state_hash` hashes, an effect
id for the hash of game, position and action (`effects.py:205`). The JSONL file
is its replay. `reconcile_table` is the code's function of the same name: of
the moves after the effect's position it steps over resignations and leaves,
and the first other one confirms or stales the effect.

### EffectJournal
One action per operation of the journal and of the guard, with a process that
may die between any two of them (`Restart` is enabled in every state). The
server is external: `history[g]` is its true move list, `seen[g]` what the
client has applied. A line travels until it is delivered or lost. The bounds
`MaxErrors`, `MaxMoves`, `MaxGrants`, `MaxLines` are guards of the actions
that count. `ClientNext` is what the repository calls; `ApiNext` adds
`authorize_retry`, the resend and `confirm_observed_action`, which have no
caller yet.

### MoveAuthority
The abstract specification: a game has one owner, an effect is claimed when
there is none, its line leaves at most once, settled effects never come back.

### IssClient
One table of the worker at the granularity of its locks. `reader` is the
reader thread (`handle_line`, and `_on_table_error`, which runs on it without
the effect lock), `futures` the executor's futures with their done-callbacks,
`slot` is `_decision_futures[key]`, `errors` is `_decision_errors`. `sender`
is the decision being sent, step by step: begin, send, mark (which reads the
status and then appends). A callback holds the state lock exactly while
`sender` is busy. `Break`, `Close`, `Die` and `RaiseError` are
the lost connection, `close()`, process death and the raise of a queued decision
error. After a lost connection `Reconnect` is the loop of `run`; after the process
ended `Restart` is an operator who starts it again, since the supervisor does not while
a game is active (`BLOCKED_RECONCILIATION`, `supervise_frozen_r9.py:130`). `Journal` instantiates EffectJournal:
`UsesJournalSerially` says the threads only ever do what it describes.

### TableSlots
The multi-table worker between its durable files and the server. `slots`,
`active`, `marker`, `evidence` and `ledger` are the files; `todo` is what is
left of the handler in progress: a handler (`OnCreate`, `OnStart`, `OnEnd`,
`OnTableError`, `OnDestroy`) puts the calls the code makes into it, in order,
and each call is one step, so that `Die` and a failed send fall between any
two. `Restart` puts the startup sequence there: confirm departures from the
protocol journal, reconcile finished games, restore slots, wait for the
mirror. A departure marker carries what the protocol journal says about it
since it was written (`log`), which is all `reconcile_mirror_departure` reads.

Handlers look a game up by `(table_id, game_sequence)`, and a table that a new connection
was told of has number 0 until it hears of a start: `sess` is then `"new"`, and `Known`
says when the lookup finds the game. An end it misses raises; a table error it misses
retires the table with its game still active, and `missed` remembers that it happened.

Simplifications: the slots' file and memory are written together, so they are
one variable; a table's session state, created by CREATE and gone with the
connection, stands for its game number and for the sets of tables seen and left on this
connection;
invitations are sent with READY; lines of tables the worker does not manage
are dropped before any handler (`_admitted_table_ids`), so there are none; the
quotas are one stratum (`Campaign` has several); the backlog of the mirror is a pause at any end of a
game. The server is external: it creates, starts, ends and destroys tables,
and replays what it has after a login in any order, a running game as its create and start
lines. Leaving a table in a game destroys it without an end line.

### CampaignQuotas
The pure functions of the campaign, over a ledger that is a sequence of strata for
each arm: quotas of a look, counts with reservations, targets and their order, the
arm and the stack to play next, looks, the prefix a look compares, the decision.
Two games of different arms are never compared by their place in the ledger, so
each arm has a sequence of its own. The bootstrap interval is a constant of a
behaviour for each look: above zero, below it, or spanning it.

### Campaign
`MultiTableExternalGateWorker` as far as quotas go. A handler is one step, but for the
two places where a death would tell its parts apart: `on_end` stores the game and
`close_game` goes on, `on_table_error` stores the failure and `fail_game` goes on.
`restart` is the recovery: it takes a stored score for the end of its game, binds the
arm of a running one again, and refuses what the code refuses. `odd` counts games
against others than those invited. `SupervisorRestarts` is the answer
`SAFE_TO_RESTART` of `evaluate_restart_state`: no game active and some to play.

### SingleTable
`ExternalGateWorker` itself, whose handlers the worker of several tables overrides.
`doing` is the call that comes next in the handler in progress; `table_id`,
`expected`, `desired` and `pause` are its attributes, lost with the process. `marker`
is mirror-departure-pending.json with what the protocol journal says since it was
written, as in `TableSlots`; `heard` is the table whose game the connection knows the
number of. The server and the connection are those of `TableSlots`,
the replay after a login in any order of the tables, too.

| code | actions |
|---|---|
| `_on_create`, `_on_start_preapply`, `_on_destroy` | the actions of the same names, `SendCommand`, `destroyed` |
| `_on_end` | `_on_end`, `withdraw`, `decide`, `SendCommand` |
| `_on_table_error`, `_on_end` without a game found | `_on_table_error`, `fail`, `WithoutGame` |
| `run`, `_run_connected_session` | `run`, `_run_connected_session`, `_wait_for_mirror_capacity`, `ConnectionFails` |

### EvidenceOutbox
What happens to a finished game between the table and the object storage. On
disk: `active` (active-games.json), `package` (a game's directory), `ledger`,
`queue` (the markers under mirror-queue, with the order they were written in),
`receipts`, `dirty` (mirror-current-dirty.json) and `tmp` (the temporary file
of mirror-status.json). In the object storage: `files` and `manifests` of the
games, and `current`, the snapshot of ledger and active games.

| code | actions |
|---|---|
| `_on_start_preapply` | `StartGame` |
| `append_game`, `enqueue_mirror_game`, `persist_active_games` | `EndGame`, `AppendLedger`, `Enqueue`, `Withdraw` |
| `mark_current_mirror_dirty` | `Mark`, `MarkRead` (it reads an older mark first) |
| `pending_mirror_entries` | `List`, then `Read` or `ReadRaises` when a marker was unlinked in between |
| `_on_end`, `_wait_for_mirror_capacity` | `EndOfGame`, `Drain`, `Capacity` |
| `_write_mirror_status`, `_atomic_json` | `StatusRead`, `OpenTmp`, `ReplaceTmp` |
| `MirrorWriteBehind._run` | `Poll`, `ThreadOpensTmp`, `ThreadReplacesTmp` |
| `mirror_batch`, `upload_batch_verified` | `Stage`, ..., `UploadCurrent`, `WriteReceipt`, `Unqueue`, `Compare`, `Clean` |
| `stop(flush=True)` | `StopThread`, `Join`, `Flush` |
| `reconcile_terminal_active_games`, `mirror_game` | `Reconcile`, `MirrorFiles`, ..., `MirrorUnqueue` |

The main thread and the write-behind thread are program counters, `main` and
`thread`; `batch` is the one of `mirror_batch`, which runs on either. A mark is
compared by its bytes, so `token` only records whether the bytes the batch has
read are still there. `Die` is enabled at every step and leaves the disk as it
is; a failed upload leaves any part of it in the object storage.

Simplifications: every game is scored (failed and diagnostic ones are in
`TableSlots`); ages are not measured, so a batch is due and a backlog may be too
old as soon as there is one; `_mirror_lock` is left out, and that two threads
are never in `mirror_batch` is part of `TypeOK`; files that repeat what ledger
and active games say are uploaded with them.

### TurnTools and MainController
`TurnTools` is `handle_required_actions` for one turn: the batch the session
asks for, the result files, the counters in memory (`c`, `s`) and on disk
(`st`), and each way a batch is denied, in the order of the code: only the
outcome may be recorded, verification only, reconnaissance used up, rounds used
up. `Dispatch` is the gateway. `MainController` is the loop around it, cut where
disk or platform change: adopt a permit, read the session, close, abort, recover
or rotate, reserve tokens, submit. `st` is STATE, `s` the copy of an iteration,
so that a death (`Die`) loses exactly what was not saved. Outside an iteration a
user writes, a permit is issued, a day begins.

A turn costs one of `TurnCosts` tokens in the end, more than `Reservation` perhaps, and
each read of its usage may find any part of that: any growth is charged as it is and
releases the whole reservation, as in `settle_session_usage`. `sessions` is what the
platform runs, each turn under the permit it was bought with; a new permit forgets the
name of the session and cancels nothing, so an old turn goes on there.

| code | actions |
|---|---|
| `main`, reading the session | `Find...` |
| `main`, idle session | `Close...`, `SettleIdle`, `SaveClosed`, `KeepIdle` |
| `RecoverableTurnStop` handlers | `cancel_turn`, `settle_usage_after_abort`, `Trip`, `RecoverOutcome`, `RotateRecovered`, `NotRotated`, `DropSession` |
| `main`, submission | `Sleep`, `Exhausted`, `Begin`, `create_session_with_input`, `send_prepared_input`, `SubmissionUnknown`, `_commit_prepared_input`, `record_model_submit` |

### ControlPlane
`controller_iteration` as a program counter over its passes: negative results,
repository revision, platform resources, superbrain with one tool at a time,
launch, poll. `tasks`, `workers`, `result`, `event` and `brain` are the files;
`mem` is the registry a pass has read and not yet written back, which is why a
crash in `launch_ready_workers` forgets sessions that exist. A worker result
may be accepted in any state of its task, as in the code.

### Supervisor
`sup` is the loop of `supervise`, one step per look at /proc or at a file;
`procs` what a launcher has become: the launchers of the repository exec the worker
(`run-iss-external-gate-worker.sh:8`), the pinned one, which is not in it, may wait for
it, or die and leave it behind; any may fail before. `sup.unseen` remembers that a launcher
became its worker after a look for workers and before that for launchers. A case is
`named` if the supervisor's own arguments name the launcher, as the boot path has it
(`r9_trusted_boot.sh:66`, `launch_frozen_r9_supervisor.py:49`). `rec` the recoveries, step by step as
`reconcile_r9_abandoned_game.py` makes their effects durable. A worker plays
games and dies, with a timeout or something else as the last error in its log.

### PodHunter
A hunter is a program counter over `run_iteration`; `file` is state.json, `pod`
what the provider runs. A create may be answered, rejected, or lost with the
pod running.

### SkatAuction and IssView
`SkatAuction` has the auction twice: as game engines play it, and `BiddingState`
of `game/bidding.py`. In `IssView` a server (external) plays a game and appends
moves. `Replay` goes through the list from its first move, as each of
`_auction_context`, `replay_tricks` and `replay_player_view` (`gameview.py`) does
with its own `Start` and `Step`; `next_decision` goes on as the bridge does. Bids of the
view are values (`Value`), so that a 1 (`Mark`) is less than any: the view writes it where
a player passes without a bid, the bridge keeps a 0. The bids stop short of the last value, the only place
where a server and `BiddingState` might differ, unless a player stops there.

### WorkerPool and DecisionHost
`WorkerPool` has the worker processes with the answer in each pipe, `run` with
checkout, timeout, replacement and retry, and `max_bid` with its inflight map.
`DecisionHost` puts it under the threads of the gate worker (`GateThread`) or
under the host service, at whose other end are the Java client (`Exchange`,
`ReadLine`, `failAndStop`, `StaleRead`) and the JSkat player, one action per callback. A
readLine that was given up is the one the reading thread runs, never one still queued,
which would not run at all once cancelled.

### Proof modules
`EffectJournalProofs`, `IssClientProofs`, `EvidenceOutboxProofs`, `TableSlotsProofs`,
`GateWorkersProofs` (the quotas under both workers, and the departures of the worker of
one table), `DecisionHostProofs` (the pool, the host and the game on ISS),
`OperationsProofs` (the hunter and the supervisor) and `OrchestrationProofs` (the main
controller and the control plane), see section 6. Each component has its
inductive invariant first, then a lemma for each action. `IssClientProofs` instantiates
`EffectJournalProofs` as `Journal` does `EffectJournal`, so what is proved of the
journal is used for, and transferred to, the threads.

### Model-checking modules
`MCEffectJournal` gives two actions, of which one (a discard) may be echoed in
a second form (with the open hand), and turns 0 and 2 as ours. `MCIssClient`
has every action echoed as itself, and names the workers: with executor or
without, and the number of lost connections or deaths, of table errors and of
raising decisions. `MCTableSlots` names the fault bounds: a case gives the number
of process deaths, lost connections, failures (of a game, or a table error) and
pauses. `MCEvidenceOutbox` gives the number of tables, restarts and failed uploads.

`MCOrchestration` (`MainController`, `ControlPlane`, as `Orchestration` joins them),
`MCOperations` (`PodHunter`, `Supervisor`, as `Operations` does), `MCDecisionHost` (pool and host, `IssView`, as `Decisions` joins them) and
`MCCampaign` (`Campaign` and `SingleTable`, as `GateWorkers` joins them, and `TableSlots`) check
components side by side that share no state: a behaviour is one of them, the
others standing still, so the states add up and the properties of each are those of
its own specification. Their cases bound what goes wrong, one kind at a time.

## 4. The runs

| run | what it asks | bounds |
|---|---|---|
| `client` | outcomes are true, a turn is answered once (but for table errors), the journal implements MoveAuthority | 1 game, 4 moves, 2 actions, 1 table error, resignations and leaves |
| `api` | types, one pending effect and final outcomes under the whole interface | 1 game, 2 moves, 1 retry, 2 lines |
| `safety` | readable journal, no forgotten turn, fresh sends, refinement of EffectJournal | 2 workers, 3 futures, 3 moves, 1 lost connection or death |
| `recovery` | turns are answered without faults, and claimed in spite of them as long as a process lives; a table error settles its game | 3 moves; with executor (3 futures) 1 lost connection or death and 1 raising decision, without it 1 lost connection or death and 1 table error |
| `poison` (violation) | the journal stays readable under table errors | 2 moves, 1 error |
| `slots` | the files agree and a table is left behind a marker (`DiskIsSound`); tables hold slots and are readied once (`TablesAreAgreed`); games keep arm and quota (`GamesAreAssigned`); what a table error that missed its game leaves is named | 2 tables, capacity 2, quota 2, 2 games per table, two faults of four kinds |
| `finish` | the games a look compares are its quotas, whatever runs at once (`QuotasAreKept`); nothing is opened before a departure is proved (`DepartureIsProved`); every campaign ends, or is left to an operator (`Finishes`) | 2 stacks, 2 seats, looks at 1 and 3 games per arm, decided at either; `Campaign`: 2 tables, 1 failed game with 1 death or 1 game against others; `TableSlots`: 2 tables, 3 games each, 1 failed game or 1 pause; `SingleTable`: 3 names, 1 pause with 1 failed game, 1 lost connection, or both a failed game and a death |
| `outbox` | evidence survives, is published completely and in order, receipts are earned, the spool is bounded, and what is recorded is published | 3 games, batches of 1, limit 1; one table with 1 restart and 1 failed upload, two tables with 1 restart |
| `snapshot` (violation) | the final snapshot is in the object storage | 3 games, two tables, nothing fails |
| `control` | no submission is forgotten by the ledger, the turns of a permit and gate rotations are serial, effects happen once, a turn told to stop does; workers share no file, results are reported, judged and not overstated | batches of 1 or 2 calls of 4 kinds under caps of 1 to 4, 3 submissions, turns of 3 tokens under reservations of 2, permits of 5 and days of 6; or 1 death with a new permit, or with a midnight and a message; 2 tasks on one file with 1 crash, or one of them created twice with 1 crash, or 1 failed read |
| `ops` | one paid pod and known; one worker, no authority dropped; a gone pod is noticed, work resumes | 2 hunters, 2 pods, 2 deaths, 2 failed requests; 2 launches, 2 recoveries, 2 games; launchers that exec and that wait, each with 1 death of a supervisor, launchers that exec also under the boot that names them, with 1 death and with faults; a torn journal with the operator's hold and a launcher that dies |
| `pool` | no process shared or lost, no answer to another request, every call ends; bridge, view and server agree who acts | 2 threads, 1 or 2 processes, 2 faults, 1 failed start or a close; a series of 2 games, 2 bid values; 3 bid values, 1 trick, 1 show |

Why the bounds are enough to matter. Four moves give two turns of ours with an
opponent's move and an interleaved one between, so an effect can be settled,
left pending over a replay, and followed by another. One table error, one lost
connection or death and one raising decision each reach their handler in every
state. Three futures are one queued or running, one stale and asking again,
and one just submitted; no state of the `safety` run needs a fourth, since one
future at most is unfinished per game. Two tables that compete for a quota of
two give over-reservation, a table without a game to play, and rotation; two
games per table give an arm from an earlier game; two faults put
a lost connection, a failure or a pause into the recovery from a death. Three
games with a limit of one let the queue exceed the limit (a second table is
still playing when the first end asks for a pause), let it drain and fill
again, and leave a batch with several games still waiting behind it; one
restart meets every durable step of both threads, and one failed upload every
part of a batch. Two tables with a restart and a failed upload at once are
left out: the faults are independent, and the states would not be.
In `finish`, three games per arm over four strata leave one stratum without a game, so a
look is not a multiple of the strata, and two tables can reserve the last place of
one; a death with a game running on each table, one of them just stored, is every case of
the recovery; a game against others than those invited counts for nothing and turns its
table over. Three names are a table, the one a failure left behind, and the next.
In `control`, two calls in a batch put a second call behind each way the first may
be answered, and caps of one or two are all reached and passed; three
submissions give a turn, one after a death, and one after a rotation or a permit.
One file that two tasks write is every conflict of `launch_ready_workers`, and a
second creation of a task id makes a late result meet a new task. In `ops`, two
hunters compete for the lock, two pods are a duplicate; two games give a worker
that plays one while the other was abandoned, and two recoveries the one that
outlives its timeout. In `pool`, two processes suffice for one to be replaced
while the other answers; two games of a series, for an answer that comes a game
late; three bid values, for a duel that goes on after a pass and ends before the
last; and every trick is replayed like the first.

`CHECK_DEADLOCK FALSE` is set because the bounds stop the system: the games
end, and the worker is done, or has stopped and nobody restarts it. In `control`
deadlock is checked.

The violations are disagreements between the code and what it or its documents
say; `findings` in `PROJECT.json` quotes both.

- `poison`: `_on_table_error` of the multi-table worker aborts effects without
  the effect lock. Between a callback's send and its mark this puts
  SEND_RETURNED after ABORTED_STALE, and `states()` raises for every game.
- `snapshot`: `mirror_batch` compares the dirty mark with the bytes it has read
  and then unlinks it. A mark written in between is removed with it, so the
  flush finds nothing to upload and `current` stays old.

Weaknesses the models show and no run asks about, because a property states what
the code does promise around them:

- `reconcile_table` does not step over a card show (`effects.py:398`): one that the
  server interleaves settles an effect whose line is on its way. The runs
  interleave resignations and leaves, and the theorems assume it.
- PENDING_CREATE is saved before CREATE is sent (`gate_worker.py:3011`), and
  nothing resolves a slot whose CREATE was lost, nor a lost DESTROY or a lost end
  of a game. `Finishes` is about a connection that stays up.
- A death while a game against others than those invited runs leaves a slot whose stack
  is not that of its game, which the recovery refuses
  (`ACTIVE_GAME_TABLE_SLOT_STACK_MISMATCH`, `gate_worker.py:2940`), as it refuses a
  stored failure whose authority was not withdrawn. `Finishes` counts a refusal, where
  an operator is asked, as an end, and so the errors by which a worker stops over a game
  that begins or ends at a table it has just left.
- The worker of one table that is restarted after the gate was decided creates no
  table (`gate_worker.py:2389`) and reads lines for ever; so does one whose DESTROY or
  end of a game went with the connection. `Finishes` leaves out, for this worker,
  behaviours with deaths or lost connections.
- Both threads write mirror-status.json through one temporary file
  (`gate_worker.py:438`). The write-behind thread loses its rename outside the `try`
  of `_run` when the main thread renames first, ends, and a pause for the backlog
  lasts for ever; `GamesArePublished` exempts a thread that has ended.
- A table that a new connection was told of has game number 0 until it hears of a start
  (`session.py:63`). A table error that follows a lost end is looked up under that number,
  misses the game, and retires the table with its game still active
  (`gate_worker.py:3407-3434`). The DESTROY is then refused
  (`DESTROY_WITH_ACTIVE_GAME`), and the next start frees the marker and takes the slot of
  a table that is gone for ACTIVE, or refuses a game on a retiring table. In run `slots`
  `DiskIsSound` says what such a table leaves on disk (`t \in missed`); the theorems are
  about behaviours in which it has not happened (`missed = {}`).
- `_processes_containing` skips only the process that asks
  (`supervise_frozen_r9.py:36`): a supervisor whose own arguments name the launcher, as
  those of the boot path do (`r9_trusted_boot.sh:66-68`), is a launcher to its recovery,
  which then never finds the field clear. Workers are restarted all the same, which
  `WorkResumes` asks of every case; `AbandonedIsRecovered` exempts the named ones.
- The supervisor reads /proc for workers first and for launchers then
  (`supervise_frozen_r9.py:94`). If a launcher becomes its worker in between, as those
  do that exec (`run-iss-external-gate-worker.sh:8`,
  `launch_iss_throughput_candidate.sh:91`), neither look sees it. Under the supervisor that
  started it this cannot be; after the death of one, the next starts a second worker.
  `ProcessesAreApart` and `AuthorityIsKept` exempt a supervisor to which this happened
  (`sup.unseen`); without the exemption TLC finds both the second worker and what it does.
- A worker that dies with a game active is started again by nobody but an operator
  (`BLOCKED_RECONCILIATION`, `supervise_frozen_r9.py:130`), or after a recovery took its
  one game off. `TurnsAreServed` claims nothing of a dead process, and `Finishes` ends there.
- A task id that is created again still has the result of its first run, which may be
  accepted before the second starts (`control_plane.py` checks no state). Where the
  dispatch of that run overwrote the event of another task's result and the
  controller died before the launch, nothing wakes the superbrain for that other result.
  The case with ids created again and a crash reaches this, and `NoLostWakeUp` exempts
  this history and no other (`crashed /\ undone`).
- A new permit drops the name of the session without cancelling its turn
  (`openai_platform_main_controller.py:2367`), which goes on, paid, beside the first turn
  of the new permit. `TurnsAreSerial` is about the turns of one permit.
- Any growth of a session's usage releases the whole reservation (lines 991-1022): of a
  usage that was read while it still grew, the rest is charged to the next turn that
  settles in this session, or to none. `SpendIsCovered` therefore claims that each
  submission was charged, not that it was charged in full.
- A recovery writes its traceback to the log whose last error decides whether a
  game is recovered (`reconcile_r9_abandoned_game.py:74`): one failed upload
  ends the retries. `AbandonedIsRecovered` exempts a log that names another error.
- `settle_usage_after_abort` charges the full reservation at once only when the session
  names no usage; a total that has not grown yet is pending, and its reservation stays
  (`openai_platform_main_controller.py:1046`), which covers the spend as well.
- A timeout or leave announced during the auction is a move of the wrong player to
  `replay_player_view`, which raises (`gameview.py:109`), and the bridge goes on to
  bid; `TurnsAreAgreed` exempts an auction that was cut short.
- In `_replace` a pool that was closed meanwhile starts a process nobody closes
  (`skatzero_pool.py:219`), and a failed start loses its slot (`CapacityIsKept`
  counts it).

## 5. Fairness

Weak fairness of the reader, of each future's thread, of the sender, of
close, of reconnect and of delivery: threads of a running process are
scheduled, `run` reconnects in a loop, and a line on a connection that stays up
arrives. `Restart` is not fair: nobody starts a dead process again while its game is
active. No fairness for opponents, the server's interleaved moves, faults,
or the loss of a line. Of `TurnsAreServed`, `TurnAnswered` holds as long as no
fault occurs, and `TurnClaimed` over lost connections, restarts and decisions that
raise, as long as the process lives; its statement names the exceptions.

In `TableSlots` the worker's thread is fair as a whole (it is sequential and
runs one call after the other), and the server goes on with something it has to
do: an answer to a command, the start or the end of a game at a ready table.
Opponents that never come would hold a table for ever; the code has no timeout for it. Faults are not fair.
`Restart` is not fair. `Finishes` is asked of the behaviours without deaths and lost
connections, and allows two errors by name: a game that starts while its table is being
left for a pause (`GAME_STARTED_ON_RETIRING_TABLE`), and one that ends there
(`MISSING_GAME_ASSIGNMENT`). Any other stop violates it.

In `Campaign` and `SingleTable` the worker's thread is fair, the server goes on with
something it has to do, and the mirror catches up. The seats are strongly fair: a table
that is ready again and again is some day given each seat, as ISS seats players by the
order they come in; without it a stratum would stay empty. Strong and weak fairness
are stated over `Proceeds`, `Seated`, `Decides` and `Reads`, which say of some actions only
what they change: they are enabled exactly when those actions are and happen with them,
and are cheap to evaluate. Deaths, failures and lost connections are not fair. A restart
is fair exactly where the supervisor makes one (`SupervisorRestarts`: no game active and
some to play, `supervise_frozen_r9.py:122-133`). Elsewhere a worker that stopped is
`Stranded`, and `Finishes` says that it comes again and again to an end or to where it is
stranded: an operator may start it, and then it must get there again. In `Campaign`, whose
server is part of its handlers, the end of a game waits while the worker is down.

In `EvidenceOutbox` the steps of each thread and of `mirror_batch` are fair, and
so is the end of a running game. Restarts are not: nothing in the repository
promises that an operator restarts the worker. Nor is a new game: a campaign
need not go on for its games to be published. `GamesArePublished` therefore
allows a stopped process, and a write-behind thread that has ended;
a failed upload is retried, because the thread polls what is still queued.

In `Supervisor` the loop of the supervisor and the steps of a recovery are fair, a
launcher gets through, and the hour between two attempts passes; a worker, the
operator, boots and deaths are not. In `PodHunter` a hunter runs on and the guardian
starts it again. In the pool each call runs on, a worker process that was asked
answers, and the host takes its results; a process that hangs is one whose caller
times out first. The two controllers are asked safety only: what they wait for
is a language model.

## 6. What is proved

All for every number of games, actions, moves, retries and lines, of inference
workers, futures and raising decisions, of hunters,
pods and faults, of callers and processes, of batches, caps and deaths, of tasks and
sessions, of launches and recoveries, of opponents, seats and looks; TLC checks
the same definitions on the instances above.

| theorem | statement |
|---|---|
| `ApiTypeCorrect` | `ApiSpec => []TypeOK` |
| `OneEffectInFlight` | `ApiSpec => []AtMostOnePending` |
| `OutcomesAreFinal` | `ApiSpec => SettledStays` |
| `JournalImplementsAuthority` | `ClientSpec => ImplementsAuthority` |
| `OutcomesAreTrue` | `ClientSpec => []OutcomeIsTrue`, if `OutOfTurn \subseteq {"resign", "leave"}` |
| `TurnsAnsweredOnce` | `ClientSpec => []SecondLineOnlyAfterError`, same assumption |
| `FreshSends` | `Spec => SendsOnlyFresh` of IssClient, an action property |
| `OneThreadIsSound`, `OneThreadSettles` | `Spec => [](~setup.async => ThreadsAreSound)`, the same for `FailedGameIsSettled` |
| `ThreadsImplementJournal` | `Spec => UsesJournalSerially`, if no table error is unprovoked (`Unprovoked`) and `OutOfTurn \subseteq {"resign", "leave"}` |
| `CalmGameIsSound`, `TurnsAreRemembered` | `Spec => []ThreadsAreSound`, `Spec => []NoTurnForgotten`, same assumptions |
| `NoErrorOfOurOwn` | no table error provoked by the client meets a game in progress, same assumptions |
| `ThreadsOutcomes` | `Spec => [](OutcomeIsTrue /\ SecondLineOnlyAfterError)` of the journal under the threads, same assumptions |
| `OutboxTypeCorrect` | `Spec => []TypeOK` of EvidenceOutbox: one thread at most in `mirror_batch` |
| `EvidenceIsKept` | `Spec => []EvidenceSurvives` |
| `ManifestsAreComplete` | `Spec => []PublishedIsComplete` |
| `ReceiptsAreEarned` | `Spec => []ReceiptsAreVerified` |
| `DoneMeansPublished` | `Spec => []DoneIsPublished` |
| `SpoolBound` | `Spec => []SpoolIsBounded` |
| `DiskSoundness` | `Spec => [](missed = {} => DiskIsSound)` of TableSlots |
| `TableAgreement` | `Spec => [](missed = {} => TablesAreAgreed)` of TableSlots |
| `GameAssignment` | `Spec => [](missed = {} => GamesAreAssigned)` of TableSlots |
| `CampaignQuotasKept` | `Spec => []LooksAreBalanced` of Campaign |
| `SingleQuotasKept` | `Spec => []SingleIsBalanced` of SingleTable |
| `Quotas` | `GateSpec => []QuotasAreKept`: both of them |
| `DepartureProved` | `Single!Spec => DepartureIsProved` of SingleTable, two action properties |
| `PoolSoundness` | `Spec => []PoolIsSound` of WorkerPool, under DecisionHost's threads |
| `DialogueSoundness` | `Spec => []DialogueIsSound` of DecisionHost |
| `TurnAgreement` | `DecisionsSpec => []TurnsAreAgreed` of IssView |
| `TurnSoundness` | `Spec => []TurnsAreSound` of MainController: budgets, effects once, posts |
| `SpendCoverage` | `Spec => []SpendIsCovered` |
| `TurnSerialization` | `Spec => []TurnsAreSerial` |
| `WorkStops` | `Spec => WorkStopsWhenTold`, an action property |
| `TaskTracking` | `Spec => []TasksAreTracked` of ControlPlane |
| `WakeUps` | `Spec => []NoLostWakeUp` of ControlPlane |
| `HunterTypeCorrect` | `Spec => []TypeOK` of PodHunter |
| `SpendIsAlwaysKnown` | `Spec => []SpendIsKnown` of PodHunter |
| `ProcessSeparation` | `Spec => []ProcessesAreApart` of Supervisor, whatever the launchers do |
| `AuthorityKeeping` | `Spec => AuthorityIsKept` of Supervisor, two action properties |

Assumptions on constants: `RendersAssumption` (every action is its own echo,
and no action is written like a resignation, leave, show or timeout),
`TurnsAssumption`, `BoundsAssumption`; for IssClient that there is one game of
bounded length (`TableAssumption`: the module is one table); for EvidenceOutbox `PolicyAssumption`,
which is `MirrorPolicy.validate`; for TableSlots that there are finitely many table
names and a capacity of two at least, as the multi-table worker asks (`SlotsAssumption`);
for the campaign that looks are positive and increase, as `LOOKS_PER_ARM` does, that there
are an opponent and a seat (`QuotasAssumption`), that tables are finitely many
(`TroublesAssumption`), and that no table is named like none (`NamesAssumption`);
for PodHunter that the holder of
a lock is told from none (`HuntersAssumption`); for the pool that callers are finitely
many and none of them is `None`, and that a hand's key is not the word the model has
for a call without one (`CallerAssumption`, `KeyAssumption`, `CaseAssumption`); for the
auction that there is a first bid (`TopAssumption`), and for the game on ISS a first trick, too
(`ViewAssumption`); for the
main controller that caps are numbers as the permit's validation asks and a reservation
is positive (`BudgetAssumption`, `PermitAssumption`), and that a session that waits for calls
names one (`BatchAssumption`: the handler raises otherwise, and the model has that as
a failed read); for the control plane that tasks are finitely many and that at least one
session may run at a time (`PlaneAssumption`; the policy says four,
`configs/orchestration/ORCHESTRATOR_RUNTIME_POLICY.json:39`); for the supervisor what a
case names (`CasesAssumption`). What the code does not promise is named by the
properties themselves (`missed`, `crashed /\ undone`, `sup.unseen`), each a history that
TLC finds, and section 4 says how.

`AtMostOnePending` is inductive with `TypeOK`: only `Begin` adds an effect,
and it asks for none pending. The refinement needs in addition that a
prepared effect was never sent and that lines are counted once
(`AuthorityInv`): without it `SendNew` might map to a second `Send`.

`OutcomeIsTrue` is not inductive: what makes a verdict true is that the
position the effect was taken from is a prefix of the server's list. The
invariant `OutcomeInv` has five parts: `TypeOK`; `HistoryOrdered` (turn
numbers of a move list never decrease, and each move carries the turn open
before it); `Anchored` (an effect's position is a prefix of the client's view,
which is one of the server's list); `Judged` (the outcome of each settled
effect agrees with the first material move after its position); and
`DistinctTurns` (two effects of one turn only after a table error). The key
lemma, `VerdictMeaning`, says what `reconcile_table` finds in a prefix that
extends the position: with only resignations and leaves interleaved, the first
move it does not step over is the first one that used the turn. With a card
show in the list the lemma is false: the show is a move it does not step over and
that used no turn.

The threads of the client have two invariants. `ThreadsInv` needs no assumption:
`Fresh` says that a decision being sent was taken on the table's position, and that the
game has no open effect but its own; it holds from the callback's comparison to the mark
because every line is applied under the lock the callback holds. `SendsOnlyFresh` follows.
`Alone` says what the worker without an executor adds: reader and sender are one thread,
so a table error never falls between a send and its mark.

With an executor this is false when the server sends a table error by itself (run
`poison`), so what remains is that the client never provokes one. `CalmInv` proves it from
the stream of lines: `Stream` says that the lines on their way continue what the client
knows of the server's list, each taking it from one prefix to the next, and tell it all
when the connection is up (`Reads` has the prefixes as a function, so that no induction
over the stream is needed), that an error line comes after an end line, and when a
client without a game is owed a start. `Turns` says that a line not yet arrived finds its
turn open (two effects of one turn are excluded by the journal's `DistinctTurns`), so the
server refuses a line only after the game is over. `Sending`, `NoErrorApplies` and
`Awake` follow the sender, the reader and whoever is going to decide. Under `CalmInv`
each step is a step of the journal (`StepImplements`), so the journal's `OutcomeInv` holds of
the threads and is in turn what `Turns` and `Awake` need: the two are
one induction (`GameInductive`). The assumptions are those of run `safety`, whose kinds of
worker have no unprovoked error and whose server interleaves resignations. A
table error of the server's own is the run `poison` and, without executor, `recovery`.

`EvidenceSurvives` says of a game with a package that it still has its
assignment, or is in the ledger and queued or published. It is not inductive: a
step that withdraws an assignment is only right because of what its thread has
done before. `OutboxInv` (in `EvidenceOutboxProofs`) adds four parts: `Recorded`
(what the main thread has done for the game in its hands when it reaches each of
its steps), `Uploaded` (the same for `mirror_batch` and the games selected),
`Alone` (reconciliation and flush never run beside the write-behind thread,
which is why no lock is needed between them) and `Flushing` (a flush starts when
every game is in the ledger and withdrawn). Each action has a lemma; those that
only move the main thread between marks, statuses and the backlog share
`MoveStep`, and those that end the process share `StopStep`.

`SpoolIsBounded` needs more than the counts. A game may start while its predecessor
is still being counted by the other thread's unlinks, so what is inductive is the size
of the queued and running games together, and where the main thread stands:
`SpoolInv` says that wherever nothing more comes before a new game (`Admitting`) the
queue is below the limit, and that a look at the backlog has seen every queued game,
since the other thread only takes markers away. A restart is exempt: the new process
starts with a pause of its own and reads no backlog before its first game.

`DiskIsSound` and `TablesAreAgreed` are proved together. What the files say of a table
is only right because of what is on its way to and from the server and of what the
handler has done so far, and the other way round: `TablesInv` says of each table what
its files allow (`OnDisk`), which tables the server may have (`Managed`: a table whose
slot is free is unknown to the server, no line or command mentions it), and what may
travel (`InFlight`: a CREATE only for a pending slot, a LEAVE only behind a marker, a
READY only to a table without a game). Lines and commands come in an order (nothing of a
table before its creation or after its end, one READY at a time), and so do the calls of
a handler
(`Flow`, which names the successors of each call). With that only the next call needs
an invariant of its own (`HeadIsOK`, what it finds when its turn comes): the step that
makes it next is the one that establishes it. One call waits longer: the rest of
`_on_end` may find that a game is still missing and send READY again, so that the
table is at rest is kept from the end of the game on (`EndIsOK`). Each conjunct is
kept by a lemma of its own over all steps; steps that change nothing of a table share
`Calm`, and stops share `StopCalm`. A table error that misses its game breaks `OnDisk`
(`_on_table_error` retires a table whose game is active), so `Unmissed` has the invariant
only as long as that has not happened, and so have the theorems.

`GamesAreAssigned` rests on the same invariant and on `GamesInv`. That the arm which
plays is the arm on disk (`ArmOK`) breaks only if an assignment is made anew for a game
that was played or packaged under another one. `StartsOK` and `AssignOK` say when that
cannot be: a start on its way, or the call about to assign its game, is about a game
nobody played and nobody packaged, or one with its assignment still there, or its table
is left before the start is read: it is retiring, a call that retires it is due, or the
server's replay creates it again first, and `_on_create` leaves a table that has neither
a game nor a slot waiting for one. The quota is kept since a game is scored only out of
its own reservation: what `record` counts is primary (`GameCalls`), a game in the ledger
that still runs is primary (`ArmOK`), so a game passes from reserved to scored and the
union of both grows only where `Missing` has counted both.

`QuotasAreKept` says that what a look compares are its quotas, though the code never
looks at the order games were scored in: it takes the first games of an arm, as many as
the look asks for. That these are the right ones is arithmetic and order. The arithmetic
is that a quota is what dealing the games in turn gives a stratum (`QuotaIsDealt`), so
that the quotas of a look add up to its games, and an arm that is within them has no
more games than the look, and with as many has met each (`WithinLook`, `MeetsLook`, by
bijections between games and deals, since no induction over a sum is at hand). The order is
`QuotaInv`: the looks before the one in progress are complete (`Stage`), scored games with those in
flight are within it (`InQuota`), and the first games of an arm are the quotas of each look it has
reached (`Prefixes`). Where the gate is decided, the look in progress stays the one it was
decided at. Three kinds of step touch it: a game is assigned from the counts that hold the games
in flight (`QuotaReserved`), gives its place up in the step that scores it (`QuotaScored`),
or is dropped (`QuotaReleased`). `CampaignInv` and `SingleInv` say what of a worker's state that rests on: the
games in flight are exactly those assigned and without evidence, an assignment is of the
stratum its table was opened for, a bound table plays the arm on disk, and with one table evidence
without withdrawal exists only inside a handler or after a death. The worker of one table has
a copy of the functions by its instance, and the lemmas `Same...` say that they are the same.

`DepartureIsProved` says of the worker of one table that nothing is played or opened while a
departure is unresolved, and that only a table that is gone resolves it. The marker is set
behind the end of a game, and what could break it is a line already on its way: a start of
the table that is left, or a command sent before. That there is none is `SessionFits`: of one
table the worker has one line under way at most, and then no call but the check of an error
(`LineIsLast`); the lines of a table come in the order of what they tell, an end only while
the server still has the table open, with no start behind it, and nothing behind a destroy
(`Ordered`, `LinesHold`); and each call finds the table at rest (`CallsFit`). `Departing`
then holds of the marker from its writing to its removal: there is no game, only LEAVE is
sent, and the session confirms nothing but by the destroy of that table, in the step before
it retires it. After a death the journal alone decides: a restart goes on only where it says
confirmed, and that was written when the table was gone (`ConfirmedIsGone`), while a LEAVE
that was only sent proves nothing. `NamesAssumption` is needed because a fresh name is told
from none.

`SpendIsKnown` says that one paid pod lives at most and state.json names it, or
suspects it. What makes a create safe is where its process stands: `SpendInv` adds
`Locked` (whoever is past the lock holds it) and `Reserved` (what state.json says
at each step of an iteration: from the check of the candidate to the offers it names
nobody and suspects nothing, so nothing lives; from the mark to the answer it
suspects, so whatever the answer was stays known). Every step that keeps the lock
goes through `HolderStep`; a death or a new process through `ProcessStep`.

`PoolIsSound` is three things: one call at a time values a hand, no process is in two
hands, and slots are conserved but for replacements that failed to start. `PoolInv`
adds what a call that holds a process may rely on (`HeldIsBorn`, `HeldApart`), that
an answer in a pipe is that of a process at rest (`AnswersAreWhole`, which is what a
timed-out process would break if it were not replaced), that only the holder of the
lock starts one (`StartIsLocked`), and that the host, which kills all its processes at
once, is then the only caller (`HostIsAlone`). All but the first is claimed until the
pool is closed.

`DialogueIsSound` is about two other copies: the auction as the player infers it from
the bids it was told, and the lines as the client counts them. `Auction` says what the
bids of the three seats are in each phase (in the first duel they differ by one offer
at most, in the second middlehand is in it exactly if it bid more than forehand held),
`Remembers` that what the player keeps is of this game, so the two agree on who duels
and on the bid that won. `Pipes` says that the requests on their way and the answers
nobody has read are never more than the readLines, and that, if as many, the last is of
the request that waits: with none left behind the next line is its own. The process
that was just killed, but still answers, needs no case of its own.

`TurnsAreAgreed` is about three replays of one list, and the prover cannot do induction
over a list. It is not needed: `ReplayGrows` says what one move adds to any replay, and
follows from comparing two functions at the least place where they differ
(`ReplaysAgree`; `LeastOf` comes from the well-foundedness of the numbers). `ViewInv`
then relates the server's game to what the three replays have made of its moves so far,
phase by phase: `AuctionAgrees` (the duels, who bids, the offer, and that the bid to beat
is that of the hearer, or of the one who asks; and the accepted bids, where the view has
the mark for those whom `Out` finds out of the bridge's auction without a bid:
`AcceptedPass`, `AcceptedBid`), `WinnerAgrees`, `TableAgrees`, `TricksAgree`,
and in `Listed` what the list holds in each phase, since the bridge asks for kinds of moves
and not for a phase. The card a seat has left is a count (`CardsOf`): one of each trick,
and one of the trick on the table if the seat has been on turn. Once the game is over
`Settled` keeps all of them silent; an auction cut short is exempt.

The main controller's invariant (`ControllerInv`) is the largest, because memory and
disk are two copies of one state that agree only in places. `Flow` says where: within an
iteration the turn, gate and permit in memory are those on disk. `Files` and `Counting`
say that a replay of a batch after a death counts what the first attempt counted,
because a result file is there exactly for the calls counted; `Once`, `Posted` and
`Told` follow a call from its effect to its post. They are waived once a death fell
between a post and its save (`torn`), as the property is. `Ledger` covers the next submission from the moment
it is reserved (`Owed`), so no step between reservation and charge can lose it; `Slack` is
what a charge of a single token loses of the reservation it releases. `Gates`
says that the rotations of earlier turns name other turns than the one in hand.
`Serial` says where the iteration may stand while a session of its permit is open, and
`Owned` that the session in hand is of the permit in hand, so that a turn an older permit
left behind is never touched again. Steps that share what
they change share a lemma: those that copy memory to disk, those that leave the turn
alone, those that end an iteration.

`TasksAreTracked` relates three files that no step writes together. What a pass
relies on is the copy it has read: `RegDiffers` and `WrDiffers` say, by program counter,
where the registry and the workers in `mem` may differ from the disk (a task dispatched
and started in memory, a worker found finished, a result found and its event posted), and
`KeptApart` says of both copies that tasks in RUNNING share no file, since a conflict is
looked for in the copy a start is written to. `Roomy` counts the sessions in memory
with the places left. `Reported` and `Evidenced` are the other two parts for the disk: a
worker is announced before it is written as finished, and no result overwrites a
COMPLETE one.

`NoLostWakeUp` is about an event file that holds one event, so each step that overwrites
it must leave another waker. `WakePart` has two reasons why one is left. As long as no
dispatch was taken back (`Kept`: no task was judged between its dispatch and its launch),
what was dispatched is launched some day and reports then, over any crash
(`WokenKept`). As long as the controller has not died (`Alive`), what was
dispatched is started by the next pass, in which a task in RUNNING has a running
worker (`Backed`), so there is always a waker in the copy the pass works on
(`WokenAlive`). With neither there may be none: that is the history the property exempts.

`SupervisorInv` is about what was seen and is still so. `Cleared` says that a supervisor
which recovers or is about to launch has nobody alive, `Seen` that whoever lives while it
evaluates is seen by its look for launchers or was seen by that for workers. One step
breaks `Seen`: a launcher that execs between the two looks (`Slips`). From then on
`Unslipped` keeps only the types, as the properties do.
`Exclusive` has one recovery at most past its lock; `Writing` says that from
its second look on nobody lives who could start or end a game, that the games it writes
off are still those of the directory, and how far their evidence has got; `WrittenOff`
that no game of a living worker is among them. `AuthorityIsKept` then needs one look at
each step: only the launch creates a process, and it is enabled where `Cleared` finds the
directory clean; games leave it by the end of a game or by the last step of `Writing`.

## 7. What is only model-checked, and what is not modelled

Only checked by TLC, because liveness under fairness is out of the prover's reach: of
`IssClient` that turns are served in the end; of `TableSlots`, `Campaign` and `SingleTable`
that campaigns end; of `EvidenceOutbox` that games are published in the end; of `PodHunter`
that a gone pod is noticed; of `Supervisor` that work resumes; of `WorkerPool` that every
call ends. Every invariant and every action property of a passing run is stated by a
theorem of section 6.

Abstracted: a decision is any action of the set, so play quality is outside;
positions are lists of (kind, form, turn), the rest of a move never matters to
the journal; hashes are the values they hash; the event hash and file lock of
the journal are left out. Writing a line and its flush are one step: the
socket's buffer is the travelling line.

Not modelled, with the reason, in `components` of `PROJECT.json`: parsing and
wording of lines, hashing and packaging of releases, training, self play and
offline evaluation (batch numerics without concurrent or durable state), the
bootstrap interval of the campaign's gate, prompts and the contents of
tools, and one-off scripts. `hazards` lists what can go wrong in the code read so
far, each with the properties that catch it or the reason why none does.
