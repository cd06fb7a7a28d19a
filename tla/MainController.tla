-------------------------- MODULE MainController ---------------------------
(* scripts/openai_platform_main_controller.py: one controller that buys      *)
(* model turns under a work permit, a token budget and an execution lock, and *)
(* its guardian, which starts it again when it dies.  An iteration of main()  *)
(* is cut where the disk or the platform changes, so a death falls between    *)
(* any two of those.  A turn's tool calls are those of TurnTools.             *)
(*                                                                            *)
(* Simplifications: a turn costs one of a few amounts of tokens; the status   *)
(* and the usage a read of the session finds are choices; all triggers are    *)
(* permitted; costs and the caps that only make the loop wait on the clock    *)
(* are choices; approvals, hashes, prompts, agent and session settings,       *)
(* evidence and progress contracts are choices of the step that checks them.  *)
EXTENDS TurnTools

CONSTANTS
    MaxSubmits, MaxAutonomous,  \* the permit's caps on submissions
    PermitTokens, DayTokens,    \* token caps of a permit and of a day
    Reservation, TurnCosts,     \* token_reservation_per_turn, and what a turn may cost
    SessionSubmits,             \* max_submits_per_session
    MaxRotations,               \* the permit's gate window
    Cases                       \* [batches, deaths, permits, days, events]: what a
                                \* turn may ask for, and the bounds on deaths, on
                                \* permits, on days and on what arrives outside

ASSUME PermitAssumption ==
    /\ MaxSubmits \in Nat \ {0} /\ MaxAutonomous \in 0..MaxSubmits
    /\ Reservation \in Nat \ {0} /\ TurnCosts \subseteq Nat
    /\ PermitTokens \in Nat /\ DayTokens \in Nat
    /\ SessionSubmits \in Nat \ {0} /\ MaxRotations \in Nat

\* A session that waits for calls without naming one makes the handler raise: it is
\* FindFailed.
ASSUME BatchAssumption ==
    Cases \subseteq [batches : SUBSET (Seq(Kinds) \ {<<>>}), deaths : Nat, permits : Nat,
                     days : Nat, events : Nat]

VARIABLES
    lock,      \* disk: EXECUTION_LOCK, the index of its gate in the queue
    disabled,  \* disk: HARD_DISABLE
    permit,    \* disk: WORK_PERMIT, its id and the gate its window starts at
    inbox,     \* disk: a message of the user is waiting
    sessions,  \* platform: the sessions created, each under its permit
    today,     \* the UTC day
    why,       \* memory: what follows an abort
    left,      \* the case, with what is left of its bounds
    crashed,   \* history: the controller died
    unsure,    \* history: a death around a submission, or a cancel that failed
    sent,      \* history: submissions [permit, day], of the permit and the budget day
    moved      \* history: <<nonce, gate of the turn, gate left>> of every rotation

outside == <<permit, today, left>>
past == <<crashed, unsure, sent, moved>>
vars == <<st, s, pc, turnOutcome, toolVars, torn, lock, disabled, inbox, sessions, why,
          outside, past>>

NoSession == 0
Session == [open |-> TRUE, used |-> 0, permit |-> s.permit]

Fresh == [permit |-> 0, session |-> NoSession, accounted |-> 0, submits |-> 0,
          total |-> 0, autonomous |-> 0,
          actual |-> 0, reserved |-> 0, day |-> 0, dayActual |-> 0, dayReserved |-> 0,
          live |-> FALSE, rotations |-> 0, initial |-> FALSE, awaiting |-> FALSE,
          follow |-> FALSE, event |-> FALSE, started |-> FALSE, nonce |-> 0, gate |-> 0,
          trigger |-> "none", tools |-> NoTools]

Init ==
    /\ st = [Fresh EXCEPT !.permit = 1] /\ s = Fresh /\ pc = "loop"
    /\ turnOutcome = NoOutcome
    /\ asked = <<>> /\ results = <<>> /\ c = NoCall
    /\ posts = 0 /\ ran = <<>> /\ told = FALSE /\ torn = FALSE
    /\ lock = 0 /\ disabled = FALSE /\ inbox = FALSE
    /\ permit = [id |-> 1, base |-> 0]
    /\ sessions = <<>> /\ today = 0 /\ why = "none"
    /\ left \in Cases
    /\ crashed = FALSE /\ unsure = FALSE
    /\ sent = [permit |-> 0, day |-> 0] /\ moved = {}

-----------------------------------------------------------------------------
(* The token ledger.                                                         *)

refresh_budget_state(x) ==
    IF x.day = today \/ x.live THEN x
    ELSE [x EXCEPT !.day = today, !.dayActual = 0, !.dayReserved = 0]

token_reservation_status(x) ==
    IF x.live THEN "outstanding"
    ELSE IF x.dayActual + x.dayReserved + Reservation > DayTokens
            \/ x.actual + x.reserved + Reservation > PermitTokens THEN "cap" ELSE "ok"

Reserve(x) == [x EXCEPT !.live = TRUE, !.reserved = @ + Reservation,
                        !.dayReserved = @ + Reservation]

(* The reservation is exchanged for what is charged.                         *)
Charge(x, delta) ==
    LET less(n) == IF n > Reservation THEN n - Reservation ELSE 0
    IN  [x EXCEPT !.live = FALSE, !.actual = @ + delta, !.dayActual = @ + delta,
                  !.reserved = less(@), !.dayReserved = less(@)]

\* Mutant of settle_session_usage: a turn whose usage is late is charged nothing
SettleForFree(x, reported, waited) ==
    LET new == reported > x.accounted
        delta == IF new THEN reported - x.accounted ELSE 0
    IN  /\ new \/ waited
        /\ s' = Charge([x EXCEPT !.accounted = @ + delta], delta)

(* Any growth of the cumulative usage is what the turn is charged; one that   *)
(* did not grow is waited for, and then the whole reservation is charged.    *)
settle_session_usage(x, reported, waited) ==
    LET new == reported > x.accounted
        delta == IF new THEN reported - x.accounted ELSE Reservation
    IN  /\ new \/ waited
        /\ s' = Charge([x EXCEPT !.accounted = @ + delta], delta)

OverCap(x) == x.dayActual > DayTokens \/ x.actual > PermitTokens

(* The permit: its gates, and what of it is left.                            *)
Authorized(gate) == gate \in permit.base .. permit.base + MaxRotations
work_permit_budget_status(x, user) ==
    x.total < MaxSubmits /\ (~user => x.autonomous < MaxAutonomous)

-----------------------------------------------------------------------------
(* Starting an iteration.                                                    *)

Still == UNCHANGED <<turnOutcome, toolVars, torn, lock, disabled, inbox, why, outside, past>>

(* The marker is written and main() returns.                                 *)
trip_hard_disable ==
    /\ disabled' = TRUE
    /\ pc' = "stopped"

\* A permit that expired, was withdrawn, or no longer fits its files.
PermitInvalid ==
    /\ pc = "loop" /\ left.events > 0
    /\ left' = [left EXCEPT !.events = 0]
    /\ trip_hard_disable
    /\ UNCHANGED <<st, s, turnOutcome, toolVars, torn, lock, inbox, sessions, why, permit,
                   today, past>>

(* A new permit is a new epoch: the session's name and the counters are      *)
(* dropped, the day's ledger is kept.  Nothing is cancelled: a turn that is   *)
(* under way stays open on the platform, and nobody reads it again.          *)
AdoptPermit ==
    /\ pc = "loop" /\ st.permit # permit.id
    /\ LET old == refresh_budget_state(st)
       IN  st' = [Fresh EXCEPT !.permit = permit.id, !.day = old.day, !.nonce = old.nonce,
                      !.dayActual = old.dayActual, !.dayReserved = old.dayReserved,
                      !.event = old.event]
    /\ asked' = <<>> /\ results' = <<>> /\ ran' = <<>>
    /\ sent' = [sent EXCEPT !.permit = 0]
    /\ UNCHANGED <<s, pc, turnOutcome, c, posts, told, torn, lock, disabled, inbox, sessions,
                   why, outside, crashed, unsure, moved>>

Reading == pc = "loop" /\ st.permit = permit.id /\ s' = refresh_budget_state(st)
Here == st.session
Open == Here # NoSession /\ sessions[Here].open

(* The turn has its cost by the time it is over.                             *)
Ended(n) ==
    \E cost \in IF sessions[n].open THEN TurnCosts ELSE {0} :
        sessions' = [sessions EXCEPT ![n].open = FALSE, ![n].used = @ + cost]

FindNoSession ==
    /\ Reading /\ Here = NoSession
    /\ pc' = "submit"
    /\ UNCHANGED <<st, sessions>> /\ Still

FindIdle ==
    /\ Reading /\ Here # NoSession /\ asked = <<>>
    /\ Ended(Here)
    /\ st' = s' /\ pc' = "idle"
    /\ Still

FindCalls ==
    /\ Reading /\ Open
    /\ \/ asked # <<>> /\ UNCHANGED <<asked, results, ran>>
       \/ /\ asked = <<>>
          /\ asked' \in left.batches
          /\ results' = NoResults(asked')
          /\ ran' = [i \in DOMAIN asked' |-> 0]
    /\ st' = s' /\ pc' = "tools"
    /\ UNCHANGED <<turnOutcome, c, posts, told, torn, lock, disabled, inbox, sessions, why,
                   outside, past>>

FindFailed ==
    /\ Reading /\ Open
    /\ Ended(Here)
    /\ st' = s' /\ pc' = "settle" /\ why' = "disable"
    /\ asked' = <<>> /\ results' = <<>> /\ ran' = <<>>
    /\ UNCHANGED <<turnOutcome, c, posts, told, torn, lock, disabled, inbox, outside, past>>

FindTimeout ==
    /\ Reading /\ Open /\ st.started
    /\ st' = s' /\ pc' = "boundary"
    /\ UNCHANGED sessions /\ Still

-----------------------------------------------------------------------------
(* Ending a turn early.                                                      *)

(* cancel_turn swallows its own failure.                                     *)
cancel_turn ==
    /\ pc \in {"boundary", "recover"}
    /\ st' = s
    /\ \/ Ended(s.session) /\ UNCHANGED unsure
       \/ UNCHANGED sessions /\ unsure' = TRUE
    /\ asked' = <<>> /\ results' = <<>> /\ ran' = <<>>
    /\ pc' = "settle"
    /\ why' = IF pc = "recover" THEN "recover" ELSE "disable"
    /\ UNCHANGED <<s, turnOutcome, c, posts, told, torn, lock, disabled, inbox, outside,
                   crashed, sent, moved>>

(* Usage that is there but did not grow leaves the reservation as it is.     *)
settle_usage_after_abort ==
    /\ pc = "settle"
    /\ \/ UNCHANGED s
       \/ /\ s.live
          /\ \E reported \in 0..sessions[s.session].used :
                settle_session_usage(s, reported, TRUE)
    /\ UNCHANGED sessions
    /\ st' = s'
    /\ pc' = IF why = "recover" THEN "closure" ELSE "trip"
    /\ Still

Trip ==
    /\ pc = "trip"
    /\ trip_hard_disable
    /\ UNCHANGED <<st, s, turnOutcome, toolVars, torn, lock, inbox, sessions, why, outside, past>>

-----------------------------------------------------------------------------
(* Closing a turn, and the gate queue.                                       *)

\* Mutant of GateIsCurrent: the gate of the outcome is not compared with the lock
AnyGate(o) == TRUE

(* Checked by terminal_outcome_allows_rotation, and again by the rotation.   *)
GateIsCurrent(o) == o.gate = s.gate /\ o.gate = lock

terminal_outcome_allows_rotation(o) == o.class = "terminal" /\ GateIsCurrent(o)

(* The next lock is copied over the execution lock; STATE is saved later.    *)
Rotated == [s EXCEPT !.rotations = @ + 1, !.follow = TRUE, !.initial = FALSE, !.event = FALSE]

rotate_to_next_authorized_gate(o) ==
    /\ Authorized(lock) /\ Authorized(lock + 1)
    /\ lock' = lock + 1
    /\ moved' = moved \cup {<<o.nonce, s.gate, lock>>}

(* recover_terminal_outcome_from_progress_contract: only of an outcome-only  *)
(* turn, and only when the contract file shows a terminal decision.          *)
RecoverOutcome ==
    /\ pc = "closure" /\ s.tools.only /\ s.gate = lock
    /\ turnOutcome' = [nonce |-> s.nonce, gate |-> s.gate, class |-> "terminal"]
    /\ pc' = "recovered"
    /\ UNCHANGED <<st, s, toolVars, torn, lock, disabled, inbox, sessions, why, outside, past>>

RotateRecovered ==
    /\ pc = "recovered"
    /\ terminal_outcome_allows_rotation(turnOutcome)
    /\ rotate_to_next_authorized_gate(turnOutcome)
    /\ s' = Rotated /\ pc' = "drop"
    /\ UNCHANGED <<st, turnOutcome, toolVars, torn, disabled, inbox, sessions, why, outside,
                   crashed, unsure, sent>>

(* Nothing recovered, or no rotation: the contract, the evidence and the     *)
(* queue decide.                                                             *)
NotRotated ==
    /\ pc \in {"closure", "recovered"}
    /\ s' = [s EXCEPT !.follow = FALSE]
    /\ pc' = "drop"
    /\ UNCHANGED <<st, sessions>> /\ Still

(* The session is dropped; without a rotation main() returns and the         *)
(* guardian starts it again.                                                 *)
DropSession ==
    /\ pc = "drop"
    /\ st' = [s EXCEPT !.session = NoSession, !.awaiting = FALSE, !.started = FALSE]
    /\ pc' = "loop"
    /\ UNCHANGED <<s, sessions>> /\ Still

(* An idle session: its usage first; a late one is waited for.               *)
SettleIdle ==
    /\ pc = "idle" /\ s.live
    /\ \E reported \in 0..sessions[s.session].used, waited \in BOOLEAN :
          settle_session_usage(s, reported, waited)
    /\ UNCHANGED sessions
    /\ st' = s'
    /\ pc' = IF OverCap(s') THEN "trip" ELSE "idle"
    /\ Still

read_turn_outcome == turnOutcome.nonce = s.nonce /\ turnOutcome.class # "void"

Closed(x) == [x EXCEPT !.awaiting = FALSE, !.started = FALSE]
Closing == pc = "idle" /\ ~s.live /\ s.awaiting

(* Held: no outcome, or one that does not allow the next turn.               *)
CloseAndHold ==
    /\ Closing
    /\ s' = [Closed(s) EXCEPT !.follow = FALSE]
    /\ st' = s' /\ pc' = "submit"
    /\ UNCHANGED sessions /\ Still

(* outcome_allows_followup: its evidence and its signature are choices.      *)
CloseAndFollow ==
    /\ Closing /\ read_turn_outcome
    /\ turnOutcome.class = "continue" /\ GateIsCurrent(turnOutcome)
    /\ s' = [Closed(s) EXCEPT !.follow = TRUE]
    /\ st' = s' /\ pc' = "submit"
    /\ UNCHANGED sessions /\ Still

CloseAndRotate ==
    /\ Closing /\ read_turn_outcome
    /\ terminal_outcome_allows_rotation(turnOutcome)
    /\ rotate_to_next_authorized_gate(turnOutcome)
    /\ s' = Closed(Rotated) /\ pc' = "closed"
    /\ UNCHANGED <<st, turnOutcome, toolVars, torn, disabled, inbox, sessions, why, outside,
                   crashed, unsure, sent>>

SaveClosed ==
    /\ pc = "closed"
    /\ st' = s /\ pc' = "submit"
    /\ UNCHANGED <<s, sessions>> /\ Still

(* material_effect_policy_violation: the turn changed what it might not.     *)
CloseAndDisable ==
    /\ Closing
    /\ st' = [Closed(s) EXCEPT !.follow = FALSE, !.started = s.started]
    /\ trip_hard_disable
    /\ UNCHANGED <<s, turnOutcome, toolVars, torn, lock, inbox, sessions, why, outside, past>>

KeepIdle ==
    /\ pc = "idle" /\ ~s.live /\ ~s.awaiting
    /\ pc' = "submit"
    /\ UNCHANGED <<st, s, sessions>> /\ Still

-----------------------------------------------------------------------------
(* Buying the next turn.                                                     *)

Wanted == inbox \/ ~s.initial \/ s.follow
Rolled == refresh_budget_state(s)

background_event ==
    /\ pc = "submit" /\ ~Wanted /\ left.events > 0
    /\ left' = [left EXCEPT !.events = @ - 1]
    /\ s' = [s EXCEPT !.follow = TRUE, !.event = TRUE]
    /\ st' = s'
    /\ UNCHANGED <<pc, turnOutcome, toolVars, torn, lock, disabled, inbox, sessions, why,
                   permit, today, past>>

(* Nothing to do, a cap of the day, the minimum interval, or a reservation   *)
(* nobody settled: the loop sleeps and starts over.                          *)
Sleep ==
    /\ pc = "submit"
    /\ ~Wanted \/ (work_permit_budget_status(s, inbox) /\ token_reservation_status(Rolled) # "cap")
    /\ st' = Rolled /\ pc' = "loop"
    /\ UNCHANGED <<s, sessions>> /\ Still

(* The permit or a token cap is used up, or prepare_next_input raises.       *)
Exhausted ==
    /\ pc = "submit" /\ Wanted
    /\ \/ ~work_permit_budget_status(s, inbox)
       \/ token_reservation_status(Rolled) = "cap"
       \/ s.rotations > MaxRotations
    /\ st' = [s EXCEPT !.follow = @ /\ work_permit_budget_status(s, inbox)]
    /\ trip_hard_disable
    /\ UNCHANGED <<s, turnOutcome, toolVars, torn, lock, inbox, sessions, why, outside, past>>

Trigger == IF inbox THEN "user" ELSE IF s.event THEN "event"
           ELSE IF ~s.initial THEN "initial" ELSE "step"

(* _begin_turn_state, reserve_turn_tokens and the save.  The old outcome is  *)
(* unlinked just before; nobody reads it while no turn is awaited.           *)
Begin ==
    /\ pc = "submit" /\ Wanted
    /\ work_permit_budget_status(s, inbox) /\ token_reservation_status(Rolled) = "ok"
    /\ s.rotations <= MaxRotations
    /\ s' = Reserve([Rolled EXCEPT !.nonce = @ + 1, !.gate = lock, !.awaiting = TRUE, !.follow = FALSE,
                              !.event = FALSE, !.started = TRUE, !.trigger = Trigger,
                              !.tools = NoTools])
    /\ st' = s'
    /\ turnOutcome' = NoOutcome
    /\ posts' = 0 /\ told' = FALSE /\ torn' = FALSE
    /\ pc' = "send"
    /\ UNCHANGED <<asked, results, c, ran, lock, disabled, inbox, sessions, why, outside, past>>

NewSession == s.session = NoSession \/ s.submits >= SessionSubmits

(* The submission reaches the platform, or fails there, or its answer fails. *)
Delivered ==
    /\ sessions' = IF NewSession THEN Append(sessions, Session)
                   ELSE [sessions EXCEPT ![s.session].open = TRUE]
    /\ sent' = [permit |-> sent.permit + 1, day |-> sent.day + 1]

create_session_with_input ==
    /\ pc = "send" /\ NewSession
    /\ Delivered
    /\ s' = [s EXCEPT !.session = Len(sessions'), !.accounted = 0, !.submits = 0]
    /\ pc' = "created"
    /\ UNCHANGED <<st, turnOutcome, toolVars, torn, lock, disabled, inbox, why, outside,
                   crashed, unsure, moved>>

send_prepared_input ==
    /\ pc = "send" /\ ~NewSession
    /\ Delivered
    /\ pc' = "sent"
    /\ UNCHANGED <<st, s, turnOutcome, toolVars, torn, lock, disabled, inbox, why, outside,
                   crashed, unsure, moved>>

(* The outcome of the submission is unknown: the controller is disabled and  *)
(* keeps the reservation.                                                    *)
SubmissionUnknown ==
    /\ pc = "send"
    /\ Delivered \/ UNCHANGED <<sessions, sent>>
    /\ unsure' = TRUE
    /\ st' = s
    /\ trip_hard_disable
    /\ UNCHANGED <<s, turnOutcome, toolVars, torn, lock, inbox, why, outside, crashed, moved>>

(* The message of the user is filed, the initial turn marked; a created      *)
(* session is saved before the submission is counted.                        *)
_commit_prepared_input ==
    /\ pc \in {"created", "sent"}
    /\ inbox' = (inbox /\ s.trigger # "user")
    /\ s' = [s EXCEPT !.initial = @ \/ s.trigger = "initial"]
    /\ st' = IF pc = "created" THEN s' ELSE st
    /\ pc' = "count"
    /\ UNCHANGED <<turnOutcome, toolVars, torn, lock, disabled, sessions, why, outside, past>>

record_model_submit ==
    /\ pc = "count"
    /\ s' = [s EXCEPT !.submits = @ + 1, !.total = @ + 1,
                      !.autonomous = @ + (IF s.trigger = "user" THEN 0 ELSE 1)]
    /\ st' = s'
    /\ pc' = "loop"
    /\ UNCHANGED sessions /\ Still

-----------------------------------------------------------------------------
(* A death, and what happens outside.                                        *)
Die ==
    /\ pc # "stopped" /\ left.deaths > 0
    /\ left' = [left EXCEPT !.deaths = @ - 1]
    /\ crashed' = TRUE
    /\ unsure' = (unsure \/ pc \in {"send", "created", "sent", "count"})
    /\ torn' = (torn \/ c.output # "none" \/ pc = "posted")
    /\ s' = Fresh /\ c' = NoCall /\ why' = "none" /\ pc' = "loop"
    /\ UNCHANGED <<st, turnOutcome, asked, results, posts, ran, told, lock, disabled, inbox,
                   sessions, permit, today, sent, moved>>

Issue ==
    /\ left.permits > 0
    /\ left' = [left EXCEPT !.permits = @ - 1]
    /\ permit' = [id |-> permit.id + 1, base |-> lock]
    /\ UNCHANGED <<inbox, today, sent>>
Midnight ==
    /\ left.days > 0
    /\ left' = [left EXCEPT !.days = @ - 1]
    /\ today' = today + 1
    /\ sent' = [sent EXCEPT !.day = 0]
    /\ UNCHANGED <<inbox, permit>>
UserWrites ==
    /\ left.events > 0 /\ ~inbox
    /\ left' = [left EXCEPT !.events = @ - 1]
    /\ inbox' = TRUE
    /\ UNCHANGED <<permit, today, sent>>

Outside ==
    /\ pc = "loop"
    /\ Issue \/ Midnight \/ UserWrites
    /\ UNCHANGED <<st, s, pc, turnOutcome, toolVars, torn, lock, disabled, sessions, why,
                   crashed, unsure, moved>>

Find == FindNoSession \/ FindIdle \/ FindCalls \/ FindFailed \/ FindTimeout
Tools == handle_required_actions
         /\ UNCHANGED <<lock, disabled, inbox, sessions, why, outside, past>>
Close == CloseAndHold \/ CloseAndFollow \/ CloseAndRotate \/ SaveClosed \/ CloseAndDisable
         \/ KeepIdle \/ SettleIdle
Abort == cancel_turn \/ settle_usage_after_abort \/ Trip \/ RecoverOutcome
         \/ RotateRecovered \/ NotRotated \/ DropSession
Submit == background_event \/ Sleep \/ Exhausted \/ Begin \/ create_session_with_input
          \/ send_prepared_input \/ SubmissionUnknown \/ _commit_prepared_input
          \/ record_model_submit

main == AdoptPermit \/ Find \/ Tools \/ Close \/ Abort \/ Submit
Stopped == pc = "stopped" /\ UNCHANGED vars
Next == main \/ PermitInvalid \/ Die \/ Outside \/ Stopped

Spec == Init /\ [][Next]_vars

-----------------------------------------------------------------------------
(* Properties.                                                               *)

State == [permit : Nat, session : Nat, accounted : Nat, submits : 0..SessionSubmits,
          total : 0..MaxSubmits, autonomous : 0..MaxSubmits, actual : Nat,
          reserved : {0, Reservation},
          day : Nat, dayActual : Nat, dayReserved : Nat, live : BOOLEAN,
          rotations : 0 .. MaxRotations + 1, initial : BOOLEAN, awaiting : BOOLEAN,
          follow : BOOLEAN, event : BOOLEAN, started : BOOLEAN, nonce : Nat, gate : Nat,
          trigger : {"none", "user", "event", "initial", "step"},
          tools : [calls : 0..MaxCalls, rounds : 0..MaxRounds, effects : 0..MaxEffects,
                   recon : 0..MaxRecon, verification : 0..MaxVerification,
                   denials : 0..MaxDenials, only : BOOLEAN, denied : BOOLEAN,
                   grace : BOOLEAN]]

(* Every counter of a turn and of a permit stays within its cap, and there   *)
(* is at most one reservation (STATE, as main() saves it).                   *)
TypeOK ==
    /\ st \in State /\ s \in State
    /\ turnOutcome.class \in Classes \cup {"none"}
    /\ st.session \in 0..Len(sessions)
    /\ DOMAIN results = DOMAIN asked /\ DOMAIN ran = DOMAIN asked
    /\ pc \in {"loop", "idle", "closed", "submit", "send", "created", "sent", "count",
              "tools", "posted", "boundary", "recover", "settle", "closure", "recovered",
              "drop", "trip", "stopped"}

(* However often the controller dies, no submission of the permit or of the   *)
(* day is forgotten by the saved ledger: the last one has its whole           *)
(* reservation, saved before it leaves, and every other one has been charged, *)
(* in full where its usage stayed away, over any midnight                     *)
(* (reserve_turn_tokens, settle_session_usage).  What was read of a usage     *)
(* that still grows is all that is charged for it.                           *)
SpendIsCovered ==
    /\ st.permit = permit.id => sent.permit <= st.actual + IF st.live THEN 1 ELSE 0
    /\ st.day = today => sent.day <= st.dayActual + st.dayReserved
    /\ st.live => st.reserved = Reservation /\ st.dayReserved >= Reservation

(* The files of a turn's calls are those of its batch, their effects happen   *)
(* once and their answers are bounded (handle_required_actions).             *)
TurnsAreSound == TypeOK /\ EffectsOnce /\ PostsAreBounded

(* The lock moves once per outcome, and only off the gate the turn was       *)
(* bought for, although the lock and the state that says it moved are saved  *)
(* one after the other (rotate_to_next_authorized_gate, then STATE).         *)
OneGatePerOutcome ==
    /\ \A m \in moved : m[2] = m[3]
    /\ \A m, n \in moved : m[1] = n[1] => m = n
    /\ lock = Cardinality(moved)

(* Unless a submission or a cancel went unanswered, one turn of a permit is   *)
(* under way at a time: what a stop drops was cancelled before.  Only a new   *)
(* permit leaves a turn behind that goes on beside its own.                  *)
OneTurnAtATime ==
    ~unsure => \A m, n \in DOMAIN sessions :
        /\ sessions[m].open /\ sessions[n].open
        /\ sessions[m].permit = sessions[n].permit
        => m = n

(* A death anywhere neither buys a second turn beside the permit's one that   *)
(* is under way nor moves the lock twice for one.                            *)
TurnsAreSerial == OneGatePerOutcome /\ OneTurnAtATime
=============================================================================
