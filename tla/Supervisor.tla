----------------------------- MODULE Supervisor -----------------------------
(* scripts/supervise_frozen_r9.py, the process that starts the gate worker    *)
(* again when that is safe, and scripts/reconcile_r9_abandoned_game.py, the    *)
(* recovery it runs over a game whose worker died.  Both learn who is alive   *)
(* from the command lines in /proc, and share the runtime directory with the  *)
(* worker.  The worker is reduced to what it leaves there: its active games,  *)
(* a pending effect, rows of the ledger, the last error of its log.           *)
(*                                                                            *)
(* Simplifications: the observation of a table, the uploads and the frozen    *)
(* identity are choices of the step that uses them; attempts are those of one *)
(* day; status files and sleeps are left out, and the failure streak that only *)
(* lengthens them; of the clock only the hour between two attempts is kept.   *)
EXTENDS Naturals, FiniteSets

CONSTANTS
    MaxLaunches,   \* bound: launchers started
    Games,
    MaxRecoveries, \* bound: recovery processes alive at a time
    Cases          \* [named, launcher, deaths, torn, faults, holds]: the supervisor's own
                   \* arguments name the launcher; a launcher "waits" for its
                   \* worker, "execs" it, or "dies" before it; deaths of the
                   \* supervisor; a death may tear the journal; an
                   \* upload, a connection or the pinned identity may fail;
                   \* holds: the operator may stop the supervisor by its file

DayAttempts == 3

VARIABLES
    procs,     \* launch -> what is left of it
    disk,      \* the runtime directory, as recovery and supervisor read it
    ledger,    \* rows: games scored and games failed without a terminal
    remote,    \* object storage: games with evidence, with a report; authority cleared
    log,       \* the last error in supervisor-worker.log
    sup,       \* the supervisor; history, no code: unseen, if a launcher became a worker
               \* between its two looks at /proc
    rec,       \* the recovery processes
    attempts,  \* automatic-abandoned-attempts.json, and whether the hour has passed
    left       \* the case, with what is left of its bounds

vars == <<procs, disk, ledger, remote, log, sup, rec, attempts, left>>

Launches == 1..MaxLaunches
Recoveries == 1..MaxRecoveries
SupervisorPid == 0

Init ==
    /\ procs = [i \in Launches |-> "unborn"]
    /\ disk = [games |-> {}, ended |-> {}, pending |-> FALSE, torn |-> FALSE,
               complete |-> FALSE, hold |-> FALSE]
    /\ ledger = [scored |-> {}, failed |-> {}]
    /\ remote = [evidence |-> {}, report |-> {}, cleared |-> FALSE]
    /\ log = "none"
    /\ sup = [pc |-> "down", workers |-> {}, child |-> 0, unseen |-> FALSE]
    /\ rec = [r \in Recoveries |-> [pc |-> "none", games |-> {}]]
    /\ attempts = [count |-> 0, cooled |-> TRUE]
    /\ left \in Cases

-----------------------------------------------------------------------------
(* What the processes look like from outside.                                *)

Workers == {i \in Launches : procs[i] \in {"both", "worker"}}
Launchers == {i \in Launches : procs[i] \in {"launcher", "both"}}
SupervisorAlive == sup.pc \notin {"down", "done"}

\* _processes_containing(LAUNCHER_TOKEN), which skips only the process that asks:
\* the recovery also finds the supervisor, when its arguments name the launcher.
LaunchersSeen(byRecovery) ==
    Launchers \cup IF byRecovery /\ SupervisorAlive /\ left.named THEN {SupervisorPid} ELSE {}

\* Mutant of evaluate_restart_state: active games are left to the worker's own start.
EvaluateEffectsOnly(workers, launchers) ==
    CASE disk.hold -> "MANUAL_HOLD"
      [] ~disk.hold /\ workers # {} -> "RUNNING"
      [] ~disk.hold /\ workers = {} /\ launchers # {} -> "BOOTSTRAPPING"
      [] ~disk.hold /\ workers = {} /\ launchers = {} /\ disk.complete -> "CAMPAIGN_COMPLETE"
      [] ~disk.hold /\ workers = {} /\ launchers = {} /\ ~disk.complete /\ disk.pending ->
            "BLOCKED_RECONCILIATION"
      [] OTHER -> "SAFE_TO_RESTART"

\* Mutant of evaluate_restart_state: launchers are not looked for.
EvaluateWorkersOnly(workers, launchers) ==
    CASE disk.hold -> "MANUAL_HOLD"
      [] ~disk.hold /\ workers # {} -> "RUNNING"
      [] ~disk.hold /\ workers = {} /\ disk.complete -> "CAMPAIGN_COMPLETE"
      [] ~disk.hold /\ workers = {} /\ ~disk.complete /\ (disk.games # {} \/ disk.pending) ->
            "BLOCKED_RECONCILIATION"
      [] OTHER -> "SAFE_TO_RESTART"

evaluate_restart_state(workers, launchers) ==
    LET idle == ~disk.hold /\ workers = {} /\ launchers = {}
        held == disk.games # {} \/ disk.pending IN
    CASE disk.hold -> "MANUAL_HOLD"
      [] ~disk.hold /\ workers # {} -> "RUNNING"
      [] ~disk.hold /\ workers = {} /\ launchers # {} -> "BOOTSTRAPPING"
      [] idle /\ disk.complete -> "CAMPAIGN_COMPLETE"
      [] idle /\ ~disk.complete /\ held -> "BLOCKED_RECONCILIATION"
      [] idle /\ ~disk.complete /\ ~held -> "SAFE_TO_RESTART"

-----------------------------------------------------------------------------
(* Launcher and worker.                                                      *)

Started == disk.games \cup ledger.scored \cup ledger.failed

\* A launcher is replaced by its worker after the look for workers, before that for
\* launchers.
Slips(i) ==
    sup' = [sup EXCEPT !.unseen = @ \/ (sup.pc = "evaluate" /\ i \notin sup.workers)]

\* The repository's launchers exec the worker; another may wait for it, or die before.
Bootstrap(i) ==
    /\ procs[i] = "launcher"
    /\ IF left.launcher = "execs" THEN procs' = [procs EXCEPT ![i] = "worker"] /\ Slips(i)
                                  ELSE procs' = [procs EXCEPT ![i] = "both"] /\ UNCHANGED sup
    /\ UNCHANGED <<disk, ledger, remote, log, rec, attempts, left>>

BootstrapFails(i) ==
    /\ procs[i] = "launcher" /\ left.faults
    /\ procs' = [procs EXCEPT ![i] = "gone"]
    /\ log' = "other"
    /\ UNCHANGED <<disk, ledger, remote, sup, rec, attempts, left>>

LauncherDies(i) ==
    /\ procs[i] = "both" /\ left.launcher = "dies"
    /\ procs' = [procs EXCEPT ![i] = "worker"] /\ Slips(i)
    /\ UNCHANGED <<disk, ledger, remote, log, rec, attempts, left>>

StartGame(i, g) ==
    /\ i \in Workers /\ g \notin Started
    /\ disk' = [disk EXCEPT !.games = @ \cup {g}]
    /\ UNCHANGED <<procs, ledger, remote, log, sup, rec, attempts, left>>

Play(i) ==
    /\ i \in Workers /\ disk.games # {}
    /\ disk' = [disk EXCEPT !.pending = ~@]
    /\ UNCHANGED <<procs, ledger, remote, log, sup, rec, attempts, left>>

FinishGame(i, g) ==
    /\ i \in Workers /\ g \in disk.games /\ ~disk.pending
    /\ disk' = [disk EXCEPT !.games = @ \ {g}]
    /\ ledger' = [ledger EXCEPT !.scored = @ \cup {g}]
    /\ UNCHANGED <<procs, remote, log, sup, rec, attempts, left>>

\* The last look is reached: status.json has no next target, the worker returns.
Complete(i) ==
    /\ i \in Workers /\ disk.games = {}
    /\ disk' = [disk EXCEPT !.complete = TRUE]
    /\ procs' = [procs EXCEPT ![i] = "gone"]
    /\ UNCHANGED <<ledger, remote, log, sup, rec, attempts, left>>

\* A worker that dies: by an error that it logs, the timeout of a declaration or
\* another, or by a kill that may tear the journal.  The end of a game may already
\* be in service.jsonl, but not withdrawn.
WorkerDies(i) ==
    /\ i \in Workers
    /\ procs' = [procs EXCEPT ![i] = "gone"]
    /\ \E why \in {"timeout", "other", "killed"}, ended \in SUBSET disk.games, torn \in BOOLEAN :
          /\ why = "timeout" => disk.games # {}
          /\ torn => why = "killed" /\ disk.pending /\ left.torn
          /\ log' = IF why = "killed" THEN log ELSE why
          /\ disk' = [disk EXCEPT !.ended = @ \cup ended, !.torn = @ \/ torn]
    /\ UNCHANGED <<ledger, remote, sup, rec, attempts, left>>

-----------------------------------------------------------------------------
(* The supervisor.                                                           *)

At(pc) == sup' = [sup EXCEPT !.pc = pc, !.workers = {}]

\* The boot scripts; the lock lets one supervisor live.
Boot ==
    /\ sup.pc = "down" /\ At("scan")
    /\ UNCHANGED <<procs, disk, ledger, remote, log, rec, attempts, left>>

\* /proc is read for workers first, and once more for launchers.
ScanWorkers ==
    /\ sup.pc = "scan"
    /\ sup' = [sup EXCEPT !.pc = "evaluate", !.workers = Workers]
    /\ UNCHANGED <<procs, disk, ledger, remote, log, rec, attempts, left>>

\* Counting the pending effects of a torn journal raises, and supervise() with it.
EvaluateRaises ==
    /\ sup.pc \in {"evaluate", "child"} /\ disk.torn
    /\ At("down")
    /\ UNCHANGED <<procs, disk, ledger, remote, log, rec, attempts, left>>

Finds(state) ==
    /\ sup.pc = "evaluate" /\ ~disk.torn
    /\ state = evaluate_restart_state(sup.workers, LaunchersSeen(FALSE))

CampaignComplete ==
    /\ Finds("CAMPAIGN_COMPLETE") /\ At("done")
    /\ UNCHANGED <<procs, disk, ledger, remote, log, rec, attempts, left>>

Observe ==
    /\ Finds("RUNNING") \/ Finds("BOOTSTRAPPING")
    /\ At("scan")
    /\ UNCHANGED <<procs, disk, ledger, remote, log, rec, attempts, left>>

ManualHold ==
    /\ Finds("MANUAL_HOLD") /\ At("scan")
    /\ UNCHANGED <<procs, disk, ledger, remote, log, rec, attempts, left>>

\* subprocess.run of the recovery, which the supervisor waits for.
Reconcile(r) ==
    /\ Finds("BLOCKED_RECONCILIATION") /\ rec[r].pc = "none"
    /\ rec' = [rec EXCEPT ![r].pc = "start"]
    /\ sup' = [sup EXCEPT !.pc = "recovering", !.workers = {}, !.child = r]
    /\ UNCHANGED <<procs, disk, ledger, remote, log, attempts, left>>

Reconciled ==
    /\ sup.pc = "recovering" /\ rec[sup.child].pc = "none"
    /\ sup' = [sup EXCEPT !.pc = "scan", !.child = 0]
    /\ UNCHANGED <<procs, disk, ledger, remote, log, rec, attempts, left>>

\* timeout=180: the recovery is killed where it is, once it waits on the network.
ReconcileTimesOut ==
    /\ sup.pc = "recovering" /\ left.faults
    /\ rec[sup.child].pc \notin {"none", "start", "lock"}
    /\ rec' = [rec EXCEPT ![sup.child] = [pc |-> "none", games |-> {}]]
    /\ sup' = [sup EXCEPT !.pc = "scan", !.child = 0]
    /\ UNCHANGED <<procs, disk, ledger, remote, log, attempts, left>>

SafeToRestart ==
    /\ Finds("SAFE_TO_RESTART") /\ At("verify")
    /\ UNCHANGED <<procs, disk, ledger, remote, log, rec, attempts, left>>

\* _verify_frozen_identity and load_runtime_env raise out of supervise().
VerifyRaises ==
    /\ sup.pc = "verify" /\ left.faults /\ At("down")
    /\ UNCHANGED <<procs, disk, ledger, remote, log, rec, attempts, left>>

Launch(i) ==
    /\ sup.pc = "verify" /\ procs[i] = "unborn"
    /\ \A j \in 1..(i - 1) : procs[j] # "unborn"
    /\ procs' = [procs EXCEPT ![i] = "launcher"]
    /\ sup' = [sup EXCEPT !.pc = "child", !.child = i]
    /\ UNCHANGED <<disk, ledger, remote, log, rec, attempts, left>>

\* Mutant of ChildExits: supervise() returns with the worker it waited for.
ChildExitEnds ==
    /\ sup.pc = "child" /\ sup.child \notin Launchers \cup Workers
    /\ sup' = [sup EXCEPT !.pc = "done", !.child = 0]
    /\ UNCHANGED <<procs, disk, ledger, remote, log, rec, attempts, left>>

\* proc.poll(): what was started is gone, though a worker may have outlived it.
ChildExits ==
    /\ sup.pc = "child" /\ sup.child \notin Launchers
    /\ left.launcher = "execs" => sup.child \notin Workers
    /\ sup' = [sup EXCEPT !.pc = "scan", !.child = 0]
    /\ UNCHANGED <<procs, disk, ledger, remote, log, rec, attempts, left>>

SupervisorDies ==
    /\ SupervisorAlive /\ left.deaths > 0
    /\ sup' = [sup EXCEPT !.pc = "down", !.workers = {}, !.child = 0]
    /\ left' = [left EXCEPT !.deaths = @ - 1]
    /\ UNCHANGED <<procs, disk, ledger, remote, log, rec, attempts>>

-----------------------------------------------------------------------------
(* The recovery.                                                             *)

Locked == \E r \in Recoveries : rec[r].pc \notin {"none", "start", "lock"}
Return(r) == rec' = [rec EXCEPT ![r] = [pc |-> "none", games |-> {}]]
Goto(r, pc) == rec' = [rec EXCEPT ![r].pc = pc]

eligible ==
    /\ evaluate_restart_state(Workers, LaunchersSeen(TRUE)) = "BLOCKED_RECONCILIATION"
    /\ ~disk.pending
    /\ Cardinality(disk.games) = 1

\* Any exception ends in a traceback, and its last line is an error of the log.
Raise(r) ==
    /\ Return(r) /\ log' = "other"
    /\ UNCHANGED <<disk, ledger, remote, attempts>>

\* active() and the last error are read, and the state is looked at, before the lock.
RecoveryStart(r) ==
    /\ rec[r].pc = "start"
    /\ \/ disk.torn /\ Raise(r)
       \/ /\ ~disk.torn /\ eligible /\ log = "timeout"
          /\ rec' = [rec EXCEPT ![r] = [pc |-> "lock", games |-> disk.games]]
          /\ UNCHANGED <<disk, ledger, remote, log, attempts>>
       \/ /\ ~disk.torn /\ ~(eligible /\ log = "timeout")
          /\ Return(r) /\ UNCHANGED <<disk, ledger, remote, log, attempts>>
    /\ UNCHANGED <<procs, sup, left>>

attempt_allowed == attempts.count < DayAttempts /\ attempts.cooled

\* The attempt is written down before anything is tried.
RecoveryLock(r) ==
    /\ rec[r].pc = "lock"
    /\ \/ (disk.torn \/ Locked) /\ Raise(r)
       \/ /\ ~disk.torn /\ ~Locked /\ eligible /\ attempt_allowed
          /\ attempts' = [count |-> attempts.count + 1, cooled |-> FALSE]
          /\ Goto(r, "observe")
          /\ UNCHANGED <<disk, ledger, remote, log>>
       \/ /\ ~disk.torn /\ ~Locked /\ ~(eligible /\ attempt_allowed)
          /\ Return(r) /\ UNCHANGED <<disk, ledger, remote, log, attempts>>
    /\ UNCHANGED <<procs, sup, left>>

\* Log in, observe the table, keep the lines: the table does not exist, or that was
\* not confirmed, or the connection raised.
RecoveryObserve(r) ==
    /\ rec[r].pc = "observe"
    /\ \/ Goto(r, "recheck") /\ UNCHANGED <<disk, ledger, remote, log, attempts>>
       \/ Return(r) /\ UNCHANGED <<disk, ledger, remote, log, attempts>>
       \/ left.faults /\ Raise(r)
    /\ UNCHANGED <<procs, sup, left>>

Unchanged(r) == ~disk.torn /\ disk.games = rec[r].games /\ eligible

RecoveryRecheck(r) ==
    /\ rec[r].pc = "recheck"
    /\ \/ /\ Unchanged(r) /\ rec[r].games \cap disk.ended = {}
          /\ Goto(r, "append") /\ UNCHANGED <<disk, ledger, remote, log, attempts>>
       \/ ~(Unchanged(r) /\ rec[r].games \cap disk.ended = {}) /\ Raise(r)
    /\ UNCHANGED <<procs, sup, left>>

\* append_failure_without_terminal, which takes a row it wrote before for its own.
RecoveryAppend(r) ==
    /\ rec[r].pc = "append"
    /\ ledger' = [ledger EXCEPT !.failed = @ \cup rec[r].games]
    /\ Goto(r, "game")
    /\ UNCHANGED <<procs, disk, remote, log, sup, attempts, left>>

\* durable_then_clear: the game, the report, and then the authority.
game_upload(r) ==
    /\ rec[r].pc = "game"
    /\ \/ /\ remote' = [remote EXCEPT !.evidence = @ \cup rec[r].games]
          /\ Goto(r, "report") /\ UNCHANGED <<disk, ledger, log, attempts>>
       \/ left.faults /\ Raise(r)
    /\ UNCHANGED <<procs, sup, left>>

report_upload(r) ==
    /\ rec[r].pc = "report"
    /\ \/ /\ remote' = [remote EXCEPT !.report = @ \cup rec[r].games]
          /\ Goto(r, "authority") /\ UNCHANGED <<disk, ledger, log, attempts>>
       \/ left.faults /\ Raise(r)
    /\ UNCHANGED <<procs, sup, left>>

\* clear(): recheck, upload the empty authority, and only then replace the local one.
UploadAuthority(r) ==
    /\ rec[r].pc = "authority"
    /\ \/ /\ Unchanged(r) /\ remote' = [remote EXCEPT !.cleared = TRUE]
          /\ Goto(r, "clear") /\ UNCHANGED <<disk, ledger, log, attempts>>
       \/ (~Unchanged(r) \/ left.faults) /\ Raise(r)
    /\ UNCHANGED <<procs, sup, left>>

clear_authority(r) ==
    /\ rec[r].pc = "clear"
    /\ disk' = [disk EXCEPT !.games = {}]
    /\ Return(r)
    /\ UNCHANGED <<procs, ledger, remote, log, sup, attempts, left>>

HourPasses ==
    /\ ~attempts.cooled
    /\ attempts' = [attempts EXCEPT !.cooled = TRUE]
    /\ UNCHANGED <<procs, disk, ledger, remote, log, sup, rec, left>>

\* The operator's .supervisor-disable.
ToggleHold ==
    /\ left.holds
    /\ disk' = [disk EXCEPT !.hold = ~@]
    /\ UNCHANGED <<procs, ledger, remote, log, sup, rec, attempts, left>>

Worker(i) ==
    \/ Bootstrap(i) \/ BootstrapFails(i) \/ LauncherDies(i)
    \/ Play(i) \/ Complete(i) \/ WorkerDies(i)
    \/ \E g \in Games : StartGame(i, g) \/ FinishGame(i, g)

Supervise ==
    \/ ScanWorkers \/ CampaignComplete \/ Observe \/ ManualHold \/ SafeToRestart
    \/ EvaluateRaises \/ Reconciled \/ ChildExits
    \/ \E r \in Recoveries : Reconcile(r)
    \/ \E i \in Launches : Launch(i)

Recover(r) ==
    \/ RecoveryStart(r) \/ RecoveryLock(r) \/ RecoveryObserve(r) \/ RecoveryRecheck(r)
    \/ RecoveryAppend(r) \/ game_upload(r) \/ report_upload(r)
    \/ UploadAuthority(r) \/ clear_authority(r)

Next ==
    \/ Boot \/ Supervise \/ VerifyRaises \/ ReconcileTimesOut \/ SupervisorDies
    \/ \E i \in Launches : Worker(i)
    \/ \E r \in Recoveries : Recover(r)
    \/ HourPasses \/ ToggleHold

\* The supervisor and the recovery run, a launcher gets through, the clock goes on.
\* Nothing is said of what a worker does, nor of deaths, boots and the operator.
Fairness ==
    /\ WF_vars(Supervise) /\ WF_vars(HourPasses)
    /\ \A i \in Launches : WF_vars(Bootstrap(i))
    /\ \A r \in Recoveries : WF_vars(Recover(r))

Spec == Init /\ [][Next]_vars /\ Fairness

-----------------------------------------------------------------------------
(* Properties.                                                               *)

\* Every variable keeps its shape.
TypeOK ==
    /\ procs \in [Launches -> {"unborn", "launcher", "both", "worker", "gone"}]
    /\ disk.games \subseteq Games /\ disk.ended \subseteq Games
    /\ ledger.scored \subseteq Games /\ ledger.failed \subseteq Games
    /\ remote.evidence \subseteq Games /\ remote.report \subseteq Games
    /\ log \in {"none", "timeout", "other"}
    /\ sup.workers \subseteq Launches /\ sup.unseen \in BOOLEAN
    /\ \A r \in Recoveries : rec[r].games \subseteq Games
    /\ attempts.count \in 0..DayAttempts

\* At most one launcher or worker lives, over deaths of the supervisor, of a launcher
\* whose worker goes on, and over a boot in the middle: two workers would play one
\* account and write one runtime directory.
OneWorker == Cardinality(Workers \cup Launchers) <= 1

\* A game whose end the server announced is not written off as a failure.
EndedIsNotFailed == ledger.failed \cap disk.ended = {}

\* Two recoveries, two supervisors and a worker that is already there keep apart.  Only
\* a launcher that becomes a worker between the two looks of a new supervisor, after
\* the one that started it died, is seen by neither: it gets a second worker beside it.
ProcessesAreApart == TypeOK /\ (sup.unseen \/ (OneWorker /\ EndedIsNotFailed))

\* A worker is started only over a runtime directory without authority over a game:
\* none active, no effect pending, whatever happened since the state was evaluated.
RestartIsClean ==
    [][~sup.unseen => \A i \in Launches : procs[i] = "unborn" /\ procs'[i] = "launcher" =>
          disk.games = {} /\ ~disk.pending /\ ~disk.complete]_vars

\* A game leaves active-games.json scored, or failed with its evidence and its report
\* in the object storage; no step of a recovery that is late takes another one along.
AuthorityIsSettled ==
    [][~sup.unseen => \A g \in disk.games \ disk'.games :
          g \in ledger'.scored \cup (ledger.failed \cap remote.evidence \cap remote.report)]_vars

\* No authority over a game is dropped, neither by who starts a worker over it nor by
\* who clears it away, while no worker was unseen.
AuthorityIsKept == RestartIsClean /\ AuthorityIsSettled

Quiet == Workers \cup Launchers = {} /\ ~disk.hold /\ ~disk.torn /\ ~disk.complete
Exhausted == procs[MaxLaunches] # "unborn"

\* A campaign that may go on does: with nothing alive and nothing in its way, a
\* worker is started again, as long as the supervisor lives.
WorkResumes ==
    (Quiet /\ disk.games = {} /\ ~disk.pending) ~>
        (~Quiet \/ Exhausted \/ sup.pc = "down")

Abandoned ==
    /\ Quiet /\ ~disk.pending /\ log = "timeout"
    /\ Cardinality(disk.games) = 1 /\ disk.games \cap disk.ended = {}

\* A game abandoned by the timeout of a declaration is taken off the runtime
\* directory, or the attempts of the day are spent on it, unless a later error is in
\* the log: one of the recovery itself, which logs there too, ends its retries.  Not so
\* under a boot that names the launcher in the supervisor's own arguments, as
\* r9_trusted_boot.sh does: the recovery then takes the supervisor for a launcher at
\* work, and never touches a game.
AbandonedIsRecovered ==
    (Abandoned /\ ~left.named /\ ~sup.unseen) ~>
        \/ disk.games = {} \/ attempts.count = DayAttempts
        \/ disk.hold \/ sup.pc = "down" \/ log # "timeout"

\* While a supervisor lives, nobody waits for an operator who was not told to come.
SupervisionGoesOn == WorkResumes /\ AbandonedIsRecovered
=============================================================================
