---------------------------- MODULE ControlPlane ----------------------------
(* The orchestration controller of src/skatai/orchestration/control_plane.py: *)
(* one process that reads and writes JSON registries, creates worker sessions *)
(* and one reasoning session (the superbrain) on a platform, and is restarted *)
(* when it dies.  Every registry write, every step of a pass over the workers *)
(* and every platform call that others can see is an action, so a crash may   *)
(* fall between any two of them.                                              *)
(*                                                                            *)
(* Simplifications: a task's contract is fixed by the constants; a session    *)
(* asks for one tool at a time; a result is its status, "PARTIAL" standing    *)
(* for every negative result that reports changes; event_seq is compared with *)
(* last_superbrain_event_seq only, and the event is "none" when they are      *)
(* equal; the texts, costs, hashes and call counts the rules read are         *)
(* nondeterministic choices; the status of a live session, the repository     *)
(* HEAD and the budget change outside, and each read chooses what it finds.   *)
EXTENDS Integers, FiniteSets

CONSTANTS
    Tasks,          \* task ids
    Writes,         \* [Tasks -> sets of files]: authority.write
    MaxSessions,    \* workers.max_concurrent_sessions
    MaxRuns,        \* the largest of the bounds on creations below
    Cases           \* [det, deps, runs, crashes, troubles]: the tasks that run
                    \* one exact command; the dependencies; bounds on the
                    \* creations of a task id, on crashes, and on failed reads
                    \* of a session and budget holds

VARIABLES
    tasks,         \* disk: TASKS
    workers,       \* disk: WORKERS
    result,        \* disk: results/<task>.json
    event,         \* disk: last_event, "none" once the superbrain was told
    brain,         \* disk: the superbrain's part of CONTROLLER_STATE
    sessions,      \* platform: the worker session of each task and run
    brainSession,  \* platform: the session brain.session names
    keyUsed,       \* platform: a session was created under the current seq
    pc,            \* where controller_iteration stands
    mem,           \* the registries launch and poll read into memory
    left,          \* the case, with the faults it has left
    crashed,       \* the controller died at least once
    announced,     \* history: <<task, run>> with a worker_result event
    untold,        \* history: results the superbrain was not told of yet
    undone         \* history: since it was told, a task that waited to be
                   \* launched was judged by the result of an earlier run

disk == <<tasks, workers, result>>
control == <<event, brain, keyUsed>>
platform == <<sessions, brainSession>>
history == <<left, crashed>>
vars == <<disk, control, platform, pc, mem, history, announced, untold, undone>>

Terminal == {"COMPLETE", "PARTIAL", "BLOCKED", "FAILED"}
TaskStates == {"READY", "DISPATCH_REQUESTED", "RUNNING", "VERIFYING",
               "COMPLETE", "FAILED", "BLOCKED", "SUPERSEDED"}
SessionStates == {"absent", "live", "idle", "deleted"}
Statuses == {"running", "requires_action", "idle", "failed"}   \* of a live session
Reasoning == {"worker_result", "negative_worker_result_integrated", "controller_revision"}
NoMem == [reg |-> <<>>, wr |-> <<>>, todo |-> {}, cap |-> 0, changed |-> FALSE]

Running == {t \in Tasks : workers[t].state = "RUNNING"}
DepsComplete(reg, t) == \A d \in left.deps[t] : reg[d].state = "COMPLETE"

Trouble == [left EXCEPT !.troubles = @ - 1]

(* Writers to the same file: what launch_ready_workers keeps apart.          *)
Conflict(reg, t) ==
    \E u \in Tasks : reg[u].state = "RUNNING" /\ Writes[u] \cap Writes[t] # {}

Init ==
    /\ tasks = [t \in Tasks |-> [state |-> "ABSENT", run |-> 0, decided |-> FALSE]]
    /\ workers = [t \in Tasks |-> [state |-> "none", run |-> 0]]
    /\ result = [t \in Tasks |-> "none"]
    /\ event = "none"
    /\ brain = [session |-> FALSE, idle |-> FALSE, boot |-> FALSE,
                paused |-> "no"]
    /\ sessions = [t \in Tasks |-> [r \in 1..MaxRuns |-> "absent"]]
    /\ brainSession = "absent" /\ keyUsed = FALSE
    /\ pc = "negative" /\ mem = NoMem
    /\ left \in Cases /\ crashed = FALSE
    /\ announced = {} /\ untold = {} /\ undone = FALSE

-----------------------------------------------------------------------------
(* Events.                                                                   *)

bump_event(kind) ==
    /\ event' = kind
    /\ keyUsed' = FALSE

(* worker_result of task t, run r.                                           *)
Announce(t, r) ==
    /\ bump_event("worker_result")
    /\ announced' = announced \cup {<<t, r>>}
    /\ untold' = untold \cup {t}
    /\ UNCHANGED undone

\* Mutant of has_actionable_reasoning_event: an integrated negative result does not wake
BadActionable == event \in {"worker_result", "controller_revision"}

has_actionable_reasoning_event == event \in Reasoning

-----------------------------------------------------------------------------
\* Mutant of accept_worker_result: the status of the result is not looked at
BadJudged(t, accepted) == IF accepted THEN "COMPLETE" ELSE "FAILED"

(* What accept_worker_result makes of a result.                              *)
Judged(t, accepted) ==
    IF accepted /\ result[t] = "COMPLETE" THEN "COMPLETE"
    ELSE IF result[t] \in {"BLOCKED", "PARTIAL"} THEN "BLOCKED" ELSE "FAILED"

accept_worker_result(t, accepted) ==
    /\ tasks[t].state # "ABSENT"
    /\ result[t] # "none"
    /\ tasks' = [tasks EXCEPT ![t].state = Judged(t, accepted), ![t].decided = TRUE]

(* Phase 1 of an iteration: an unchanged negative result is closed without   *)
(* the superbrain.  The registry is saved before the event is counted.       *)
NegativeOpen(t) ==
    /\ tasks[t].state = "VERIFYING" /\ ~tasks[t].decided
    /\ result[t] \in {"BLOCKED", "FAILED"}

reconcile_negative_results ==
    /\ pc = "negative"
    /\ \E t \in Tasks : NegativeOpen(t) /\ accept_worker_result(t, FALSE)
    /\ pc' = "negbump"
    /\ UNCHANGED <<workers, result, control, platform, mem, history, announced, untold, undone>>

NegativeBump ==
    /\ pc = "negbump"
    /\ bump_event("negative_worker_result_integrated")
    /\ pc' = "negative"
    /\ UNCHANGED <<disk, brain, platform, mem, history, announced, untold, undone>>

(* Phase 2: a new commit is observed first and announced afterwards, if it   *)
(* touches relevant paths; it waits while another event is pending.          *)
reconcile_repository_revision ==
    /\ pc = "negative" /\ ~\E t \in Tasks : NegativeOpen(t)
    /\ pc' \in {"gc"} \cup (IF event = "none" THEN {"revbump"} ELSE {})
    /\ UNCHANGED <<disk, control, platform, mem, history, announced, untold, undone>>

RevisionBump ==
    /\ pc = "revbump"
    /\ bump_event("controller_revision")
    /\ pc' = "gc"
    /\ UNCHANGED <<disk, brain, platform, mem, history, announced, untold, undone>>

(* Phase 3: the sessions no registry names are cancelled, and deleted when   *)
(* idle.  The pass is skipped between intervals and may fail part way.       *)
Garbage == {s \in Tasks \X (1..MaxRuns) :
              /\ sessions[s[1]][s[2]] \notin {"absent", "deleted"}
              /\ ~(s[1] \in Running /\ workers[s[1]].run = s[2])}
Collected(s) == CASE s = "live" -> "idle" [] s = "idle" -> "deleted" [] OTHER -> s

reconcile_platform_resources ==
    /\ pc = "gc"
    /\ \E done \in SUBSET Garbage :
         sessions' = [t \in Tasks |-> [r \in 1..MaxRuns |->
             IF <<t, r>> \in done THEN Collected(sessions[t][r]) ELSE sessions[t][r]]]
    /\ brainSession' \in {brainSession} \cup
         (IF brain.session THEN {} ELSE {Collected(brainSession)})
    /\ pc' = "brain"
    /\ UNCHANGED <<disk, control, mem, history, announced, untold, undone>>

-----------------------------------------------------------------------------
(* Phase 4: poll_superbrain.                                                 *)

(* ensure_superbrain_session without a session: an exhausted budget, a pause *)
(* or nothing to do ends it.  The idempotency key of a new session is        *)
(* event_seq: under a key already used the platform answers with the session *)
(* it created before, whatever became of it.                                 *)
ensure_superbrain_session(b, force, old, exhausted) ==
    LET paused == IF b.paused = "budget" THEN "no" ELSE b.paused
        quiet == paused # "no" \/ (~force /\ b.boot /\ ~has_actionable_reasoning_event)
    IN  IF exhausted \/ quiet
        THEN /\ brain' = IF exhausted THEN [b EXCEPT !.paused = "budget"]
                         ELSE [b EXCEPT !.paused = paused, !.idle = (paused = "no") \/ @]
             /\ brainSession' = old
             /\ UNCHANGED <<event, keyUsed, untold, undone>>
        ELSE /\ brain' = [session |-> TRUE, idle |-> FALSE, boot |-> TRUE, paused |-> "no"]
             /\ brainSession' = IF keyUsed THEN old ELSE "live"
             /\ keyUsed' = TRUE
             /\ event' = "none"
             /\ untold' = {} /\ undone' = FALSE

(* A budget pause ends with the budget's; the others end as below.           *)
Paused == IF brain.paused = "budget" THEN "no" ELSE brain.paused
Awake == [brain EXCEPT !.paused = Paused]
Resting == brain.idle /\ ~has_actionable_reasoning_event
Reads == Paused = "no" /\ brain.session /\ ~Resting

(* What a read of the session may find.                                      *)
Status(s) ==
    \/ brainSession = "live" /\ (brain.idle => s \in {"idle", "failed"})
    \/ brainSession = s

(* Two bounded audits closed without evidence: reasoning is paused and the   *)
(* event consumed.  Whether the results are such audits is in their text.    *)
BrainNoProgress ==
    /\ event = "negative_worker_result_integrated"
    /\ Cardinality({t \in Tasks : tasks[t].state = "BLOCKED" /\ tasks[t].decided}) >= 2
    /\ brain' = [brain EXCEPT !.paused = "no_progress"]
    /\ event' = "none"
    /\ UNCHANGED <<keyUsed, brainSession, untold, undone>>

BrainBudgetHold ==
    /\ brain' = [brain EXCEPT !.session = FALSE, !.idle = brain.idle /\ ~brain.session,
                              !.paused = IF Paused = "no" THEN "budget" ELSE @]
    /\ brainSession' = IF brain.session /\ brainSession = "live" THEN "idle" ELSE brainSession
    /\ UNCHANGED <<event, keyUsed, untold, undone>>

(* A pause ends when an actionable event came after it.                      *)
BrainPaused(exhausted) ==
    /\ Paused # "no"
    /\ IF has_actionable_reasoning_event
       THEN ensure_superbrain_session([brain EXCEPT !.paused = "no", !.session = FALSE],
                                      FALSE, brainSession, exhausted)
       ELSE UNCHANGED <<control, brainSession, untold, undone>>

BrainNoSession ==
    /\ Paused = "no" /\ ~brain.session
    /\ ensure_superbrain_session(Awake, FALSE, brainSession, FALSE)

BrainWaits ==
    /\ Paused = "no" /\ brain.session
    /\ Resting \/ Status("running")
    /\ brain' = Awake
    /\ UNCHANGED <<event, keyUsed, brainSession, untold, undone>>

(* The session is gone, or could not be read: it is replaced.                *)
BrainLost(trouble) ==
    /\ Reads /\ (trouble \/ brainSession = "deleted")
    /\ \E exhausted \in {FALSE, trouble} :
         ensure_superbrain_session([Awake EXCEPT !.session = FALSE], TRUE,
                                   brainSession, exhausted)

BrainFailed(exhausted) ==
    /\ Reads /\ Status("failed")
    /\ ensure_superbrain_session([Awake EXCEPT !.session = FALSE], TRUE, "deleted", exhausted)

(* The turn ended: the next actionable event is sent, or the session rests.  *)
BrainTurnEnded ==
    /\ Reads /\ Status("idle")
    /\ brain' = [Awake EXCEPT !.idle = ~has_actionable_reasoning_event]
    /\ IF has_actionable_reasoning_event
       THEN /\ brainSession' = "live"
            /\ event' = "none"
            /\ untold' = {} /\ undone' = FALSE
       ELSE UNCHANGED <<brainSession, event, untold, undone>>
    /\ UNCHANGED keyUsed

BrainToolBudget ==
    /\ Reads /\ Status("requires_action")
    /\ brain' = [Awake EXCEPT !.paused = "tools", !.session = FALSE]
    /\ brainSession' = "idle"
    /\ UNCHANGED <<event, keyUsed, untold, undone>>

(* A trouble is an exhausted budget or a failed read; the session_allowance  *)
(* alone lets the session there is go on.                                    *)
poll_superbrain ==
    /\ pc \in {"gc", "brain"}
    /\ \E trouble \in BOOLEAN :
         /\ trouble => left.troubles > 0
         /\ left' = IF trouble THEN Trouble ELSE left
         /\ \/ BrainNoProgress \/ BrainLost(trouble)
            \/ trouble /\ BrainBudgetHold
            \/ /\ trouble => brain.session
               /\ BrainPaused(trouble) \/ BrainFailed(trouble) \/ BrainNoSession
                  \/ BrainWaits \/ BrainTurnEnded \/ BrainToolBudget
    /\ pc' = "launch"
    /\ UNCHANGED <<disk, sessions, mem, crashed, announced>>

(* The superbrain's tools.  Each applies at once; the answer is posted in a  *)
(* step of its own, so a crash between them leaves the call to be repeated.  *)
ToolStep(next) ==
    /\ pc \in {"gc", "brain"} /\ Reads
    /\ Status("requires_action")
    /\ pc' = next
    /\ UNCHANGED <<workers, result, brain, platform, mem, history, announced, untold>>

create_task(t) ==
    /\ ToolStep("post")
    /\ tasks[t].state \in {"ABSENT", "FAILED", "BLOCKED", "SUPERSEDED"}
    /\ tasks[t].run < left.runs
    /\ tasks' = [tasks EXCEPT ![t] = [state |-> "READY", run |-> @.run + 1, decided |-> FALSE]]
    /\ UNCHANGED <<event, keyUsed, undone>>

dispatch_task(t) ==
    /\ ToolStep("post")
    /\ tasks[t].state = "READY" /\ DepsComplete(tasks, t)
    /\ tasks' = [tasks EXCEPT ![t].state = "DISPATCH_REQUESTED"]
    /\ bump_event("task_dispatch_requested")
    /\ UNCHANGED undone

(* Both in one call: the contract stays created when it cannot be sent.      *)
create_and_dispatch_readonly_task(t) ==
    /\ ToolStep("post") /\ t \notin left.det
    /\ tasks[t].state \in {"ABSENT", "FAILED", "BLOCKED", "SUPERSEDED"}
    /\ tasks[t].run < left.runs
    /\ tasks' = [tasks EXCEPT ![t] =
           [state |-> IF DepsComplete(tasks, t) THEN "DISPATCH_REQUESTED" ELSE "READY",
            run |-> @.run + 1, decided |-> FALSE]]
    /\ IF DepsComplete(tasks, t) THEN bump_event("task_dispatch_requested")
       ELSE UNCHANGED <<event, keyUsed>>
    /\ UNCHANGED undone

ToolAccept(t, accepted) ==
    /\ ToolStep("post")
    /\ accept_worker_result(t, accepted)
    /\ undone' = (undone \/ tasks[t].state = "DISPATCH_REQUESTED")
    /\ UNCHANGED <<event, keyUsed>>

supersede_task(t) ==
    /\ ToolStep("post")
    /\ tasks[t].state \in {"BLOCKED", "FAILED"}
    /\ tasks' = [tasks EXCEPT ![t].state = "SUPERSEDED"]
    /\ UNCHANGED <<event, keyUsed, undone>>

(* A tool that only reads, or a call that is rejected.                       *)
ToolReads == ToolStep("post") /\ UNCHANGED <<tasks, event, keyUsed, undone>>
ToolRejected == ToolStep("rejected") /\ UNCHANGED <<tasks, event, keyUsed, undone>>

(* The answer is posted; the same rejection twice ends the session.          *)
PostAnswer ==
    /\ pc \in {"post", "rejected"}
    /\ \E stop \in {FALSE, pc = "rejected"} :
         /\ brain' = [brain EXCEPT !.session = ~stop, !.paused = IF stop THEN "rejected" ELSE "no"]
         /\ brainSession' = IF stop THEN "idle" ELSE brainSession
    /\ pc' = "launch"
    /\ UNCHANGED <<disk, event, keyUsed, sessions, mem, history, announced, untold, undone>>

-----------------------------------------------------------------------------
(* Phase 5: launch_ready_workers.  Both registries are read once; sessions   *)
(* are created and commands run; then WORKERS and TASKS are written back.    *)

(* The part of the state the passes over the workers leave alone.            *)
Elsewhere == <<brain, brainSession, history>>

LaunchStart ==
    /\ pc = "launch"
    /\ LET free == MaxSessions - Cardinality(Running)
           todo == {t \in Tasks : tasks[t].state = "DISPATCH_REQUESTED"}
       IN  IF free <= 0 \/ todo = {}
           THEN pc' = "poll" /\ UNCHANGED mem
           ELSE /\ mem' = [reg |-> tasks, wr |-> workers, todo |-> todo, cap |-> free,
                           changed |-> FALSE]
                /\ pc' = "launching"
    /\ UNCHANGED <<disk, event, keyUsed, sessions, Elsewhere, announced, untold, undone>>

Candidate(t) ==
    /\ pc = "launching" /\ t \in mem.todo
    /\ pc' = pc

LaunchSkip(t) ==
    /\ Candidate(t)
    /\ \/ mem.cap = 0 /\ t \notin left.det
       \/ Conflict(mem.reg, t)
       \/ ~DepsComplete(mem.reg, t)
    /\ mem' = [mem EXCEPT !.todo = @ \ {t}]
    /\ UNCHANGED <<disk, event, keyUsed, sessions, Elsewhere, announced, untold, undone>>

(* The key of the session is the task and its updated_at: asked again after  *)
(* a crash, the platform returns the session it already created.             *)
LaunchSession(t) ==
    LET r == tasks[t].run IN
    /\ Candidate(t) /\ t \notin left.det
    /\ mem.cap > 0 /\ ~Conflict(mem.reg, t) /\ DepsComplete(mem.reg, t)
    /\ sessions' = [sessions EXCEPT ![t][r] = IF @ = "absent" THEN "live" ELSE @]
    /\ mem' = [mem EXCEPT !.todo = @ \ {t}, !.cap = @ - 1, !.changed = TRUE,
                          !.wr[t] = [state |-> "RUNNING", run |-> r],
                          !.reg[t].state = "RUNNING"]
    /\ UNCHANGED <<disk, event, keyUsed, Elsewhere, announced, untold, undone>>

(* A deterministic task runs its command here; its result overwrites.        *)
LaunchCommand(t) ==
    /\ Candidate(t) /\ t \in left.det
    /\ ~Conflict(mem.reg, t) /\ DepsComplete(mem.reg, t)
    /\ \E status \in {"COMPLETE", "FAILED"} : result' = [result EXCEPT ![t] = status]
    /\ mem' = [mem EXCEPT !.todo = @ \ {t}, !.changed = TRUE, !.reg[t].state = "VERIFYING"]
    /\ Announce(t, tasks[t].run)
    /\ UNCHANGED <<tasks, workers, sessions, Elsewhere>>

(* Phase 6: poll_workers.                                                    *)
PollStart ==
    /\ pc = "poll"
    /\ IF Running = {}
       THEN pc' = "negative" /\ UNCHANGED mem
       ELSE /\ mem' = [reg |-> tasks, wr |-> workers, todo |-> Running, cap |-> 0,
                       changed |-> FALSE]
            /\ pc' = "polling"
    /\ UNCHANGED <<disk, event, keyUsed, sessions, Elsewhere, announced, untold, undone>>

Polled(t) ==
    /\ pc = "polling" /\ t \in mem.todo
    /\ pc' = pc
    /\ UNCHANGED <<tasks, workers, brain, brainSession, crashed>>

Session(t) == sessions[t][mem.wr[t].run]

(* The worker is finished: a synthetic result unless one is there, the       *)
(* session deleted or left, the task to be verified, the event counted.      *)
FinishWorker(t, status, session) ==
    /\ result' = [result EXCEPT ![t] = IF @ = "none" THEN status ELSE @]
    /\ sessions' = [sessions EXCEPT ![t][mem.wr[t].run] = session]
    /\ mem' = [mem EXCEPT !.todo = @ \ {t}, !.changed = TRUE,
                          !.wr[t].state = "FINISHED", !.reg[t].state = "VERIFYING"]
    /\ Announce(t, mem.wr[t].run)

PollTimeout(t) == Polled(t) /\ FinishWorker(t, "FAILED", "deleted") /\ UNCHANGED left

(* The session is gone or could not be read; it is not deleted here.         *)
PollLost(t) ==
    /\ Polled(t)
    /\ \/ Session(t) = "deleted" /\ UNCHANGED left
       \/ left.troubles > 0 /\ left' = Trouble
    /\ FinishWorker(t, "FAILED", Session(t))

(* Idle; failed; out of tool calls.                                          *)
PollEnded(t) ==
    /\ Polled(t) /\ UNCHANGED left
    /\ \/ Session(t) \in {"live", "idle"} /\ FinishWorker(t, "BLOCKED", "deleted")
       \/ Session(t) = "live" /\ FinishWorker(t, "FAILED", "deleted")

(* A tool of the worker: a result is written once; every other tool and a    *)
(* second result change nothing the model keeps.                             *)
PollTool(t) ==
    /\ Polled(t) /\ Session(t) = "live"
    /\ \E status \in Terminal \cup {result[t]} :
         result' = [result EXCEPT ![t] = IF @ = "none" THEN status ELSE @]
    /\ mem' = [mem EXCEPT !.todo = @ \ {t}, !.changed = TRUE]
    /\ UNCHANGED <<event, keyUsed, sessions, left, announced, untold, undone>>

PollRunning(t) ==
    /\ Polled(t) /\ Session(t) = "live"
    /\ mem' = [mem EXCEPT !.todo = @ \ {t}]
    /\ UNCHANGED <<result, event, keyUsed, sessions, left, announced, untold, undone>>

(* The end of either pass: WORKERS is written first, TASKS after it.  What   *)
(* a pass that launched nothing writes back is what it read.                 *)
SaveWorkers ==
    /\ pc \in {"launching", "polling"} /\ mem.todo = {}
    /\ IF mem.changed
       THEN /\ workers' = mem.wr
            /\ pc' = IF pc = "launching" THEN "launched" ELSE "polled"
            /\ UNCHANGED mem
       ELSE /\ pc' = IF pc = "launching" THEN "poll" ELSE "negative"
            /\ mem' = NoMem /\ UNCHANGED workers
    /\ UNCHANGED <<tasks, result, event, keyUsed, sessions, Elsewhere, announced, untold, undone>>

SaveTasks ==
    /\ pc \in {"launched", "polled"}
    /\ tasks' = mem.reg
    /\ pc' = IF pc = "launched" THEN "poll" ELSE "negative"
    /\ mem' = NoMem
    /\ UNCHANGED <<workers, result, event, keyUsed, sessions, Elsewhere, announced, untold, undone>>

-----------------------------------------------------------------------------
(* Any unhandled exception, a failed platform write included, or a kill.     *)
Crash ==
    /\ left.crashes > 0 /\ left' = [left EXCEPT !.crashes = @ - 1]
    /\ crashed' = TRUE
    /\ pc' = "negative" /\ mem' = NoMem
    /\ UNCHANGED <<disk, control, platform, announced, untold, undone>>

Tool ==
    \/ \E t \in Tasks : create_task(t) \/ dispatch_task(t) \/ supersede_task(t)
                        \/ create_and_dispatch_readonly_task(t)
    \/ \E t \in Tasks, accepted \in BOOLEAN : ToolAccept(t, accepted)
    \/ ToolReads \/ ToolRejected

launch_ready_workers ==
    \/ LaunchStart
    \/ \E t \in Tasks : LaunchSkip(t) \/ LaunchSession(t) \/ LaunchCommand(t)

poll_workers ==
    \/ PollStart
    \/ \E t \in Tasks : PollTimeout(t) \/ PollLost(t) \/ PollEnded(t)
                        \/ PollTool(t) \/ PollRunning(t)

controller_iteration ==
    \/ reconcile_negative_results \/ NegativeBump
    \/ reconcile_repository_revision \/ RevisionBump
    \/ reconcile_platform_resources
    \/ poll_superbrain \/ Tool \/ PostAnswer
    \/ launch_ready_workers \/ poll_workers \/ SaveWorkers \/ SaveTasks

Next == controller_iteration \/ Crash

Spec == Init /\ [][Next]_vars

-----------------------------------------------------------------------------
(* Properties.                                                               *)

TypeOK ==
    /\ tasks \in [Tasks -> [state : TaskStates \cup {"ABSENT"}, run : 0..MaxRuns,
                            decided : BOOLEAN]]
    /\ workers \in [Tasks -> [state : {"none", "RUNNING", "FINISHED"}, run : 0..MaxRuns]]
    /\ result \in [Tasks -> Terminal \cup {"none"}]
    /\ sessions \in [Tasks -> [1..MaxRuns -> SessionStates]]
    /\ brainSession \in SessionStates
    /\ announced \subseteq Tasks \X (1..MaxRuns) /\ untold \subseteq Tasks

(* A worker the registry calls FINISHED left a result on disk and was         *)
(* announced, wherever the controller died in between (poll_workers), and     *)
(* the registries keep their shape.                                           *)
FinishedIsReported ==
    /\ TypeOK
    /\ \A t \in Tasks : workers[t].state = "FINISHED" =>
           result[t] # "none" /\ <<t, workers[t].run>> \in announced

(* launch_ready_workers never starts a task while another RUNNING task may   *)
(* write one of its files, nor more workers than max_concurrent_sessions,    *)
(* also when several candidates start in one pass or the pass is repeated    *)
(* after a crash.                                                            *)
WorkersAreApart ==
    /\ Cardinality(Running) <= MaxSessions
    /\ \A t, u \in Tasks : t # u /\ tasks[t].state = "RUNNING" /\ tasks[u].state = "RUNNING"
           => Writes[t] \cap Writes[u] = {}

(* A COMPLETE task has a COMPLETE result on disk, whenever the superbrain    *)
(* judged it and whatever overwrites the result file (accept_worker_result). *)
CompleteIsEvidenced ==
    \A t \in Tasks : tasks[t].state = "COMPLETE" => result[t] = "COMPLETE"

(* A task runs apart from the others, its end is reported, and its success is *)
(* evidenced, over repeated passes and late results.                         *)
TasksAreTracked == FinishedIsReported /\ WorkersAreApart /\ CompleteIsEvidenced

(* last_event holds one event, so a result's event may be overwritten before *)
(* the superbrain is told.  While such a result awaits its judgement, an     *)
(* actionable event is pending, or a worker is still to report and to wake   *)
(* it, or the deliberate no-progress pause holds (has_actionable_...).  One   *)
(* history loses it: the controller died before it launched a task whose      *)
(* dispatch overwrote the event, and the superbrain then judged that task by  *)
(* the result of its earlier run, which no code asks it not to do.            *)
NoLostWakeUp ==
    \A t \in Tasks :
        t \in untold /\ tasks[t].state = "VERIFYING" /\ ~tasks[t].decided
            => \/ crashed /\ undone
               \/ has_actionable_reasoning_event
               \/ Running # {} \/ \E u \in Tasks : tasks[u].state = "DISPATCH_REQUESTED"
               \/ brain.paused = "no_progress"
=============================================================================
