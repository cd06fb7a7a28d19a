----------------------------- MODULE TurnTools -----------------------------
(* The tool calls of one model turn: handle_required_actions of              *)
(* scripts/openai_platform_main_controller.py over the gateway of            *)
(* scripts/main_tool_gateway.py.  The session asks for a batch of calls; the *)
(* controller answers all of them in one post and then saves its counters.   *)
(* A result file per call is written first, so that a batch asked again      *)
(* after a death is answered from the files.                                 *)
(*                                                                           *)
(* Simplifications: a call is its class, "check" being a reading call that   *)
(* _verification_tool_call_allowed accepts; whether a dispatched call        *)
(* succeeds, and whether its arguments repeat too often, is a choice; paths, *)
(* patches, commands and outputs are left out.                               *)
EXTENDS Integers, Sequences, FiniteSets

CONSTANTS MaxCalls, MaxRounds, MaxRecon, MaxDenials, MaxVerification, MaxEffects,
          MaxIdentical

ASSUME BudgetAssumption ==
    /\ {MaxCalls, MaxRounds, MaxRecon, MaxDenials, MaxVerification, MaxEffects,
        MaxIdentical} \subseteq Nat
    /\ MaxDenials > 0

VARIABLES
    st,           \* disk: STATE
    s,            \* memory: the state of the running iteration
    pc,           \* where the iteration stands
    turnOutcome,  \* disk: TURN_OUTCOME, NoOutcome when absent
    asked,        \* platform: the batch of calls the session waits for
    results,      \* disk: the result files of that batch
    c,            \* memory: the counters of handle_required_actions, and its call
    posts,        \* history: posts of this turn
    ran,          \* history: how often each call of the batch was dispatched
    told,         \* history: the model was told to record its outcome only
    torn          \* history: a death parted a call, or a post, from its record

toolVars == <<asked, results, c, posts, ran, told>>

Effects == {"effect", "outcome"}
Reads == {"recon", "check"}
Kinds == Effects \cup Reads
Classes == {"terminal", "continue", "void"}
NoOutcome == [nonce |-> 0, gate |-> 0, class |-> "none"]

NoTools == [calls |-> 0, rounds |-> 0, effects |-> 0, recon |-> 0, verification |-> 0,
            denials |-> 0, only |-> FALSE, denied |-> FALSE, grace |-> FALSE]
NoCall == [at |-> 0, tools |-> NoTools, output |-> "none"]
NoResults(batch) == [i \in DOMAIN batch |-> "none"]

Batch == {asked[i] : i \in DOMAIN asked}
TerminalOnly == Batch = {"outcome"}
VerificationOnly == s.tools.effects > 0 /\ Batch = {"check"}
Overflows == s.tools.calls + Len(asked) > MaxCalls
CountCalls(tools) == [tools EXCEPT !.calls = @ + Len(asked)]

-----------------------------------------------------------------------------
(* The end of the handler by an exception: a RecoverableTurnStop, or any     *)
(* other, which disables the controller.                                     *)
Stop(how) ==
    /\ pc' = how
    /\ c' = NoCall
    /\ UNCHANGED <<st, turnOutcome, asked, results, posts, ran, told, torn>>

(* The answers are posted; the counters follow in a step of their own.       *)
Post(tools, tells) ==
    /\ pc' = "posted"
    /\ s' = [s EXCEPT !.tools = tools]
    /\ asked' = <<>> /\ results' = <<>> /\ ran' = <<>>
    /\ posts' = posts + 1
    /\ told' = (told \/ tells)
    /\ c' = NoCall
    /\ UNCHANGED <<st, turnOutcome, torn>>

SaveTools ==
    /\ pc = "posted"
    /\ st' = s
    /\ pc' = "loop"
    /\ UNCHANGED <<s, turnOutcome, toolVars, torn>>

Handling == pc = "tools" /\ c.at = 0

(* After outcome-only one batch of other calls is denied, a second one ends  *)
(* the turn.                                                                 *)
OutcomeOnlyDenial ==
    /\ Handling /\ s.tools.only /\ ~TerminalOnly
    /\ \/ s.tools.denied /\ Stop("recover") /\ UNCHANGED s
       \/ ~s.tools.denied /\ Overflows /\ Stop("boundary") /\ UNCHANGED s
       \/ /\ ~s.tools.denied /\ ~Overflows
          /\ Post([CountCalls(s.tools) EXCEPT !.denied = TRUE], TRUE)

Verifying == ~s.tools.only /\ VerificationOnly
             /\ s.tools.verification >= MaxVerification

\* Mutant of VerificationDenial: turn_outcome_only is not set
VerificationDeniedOnly ==
    /\ Handling /\ Verifying
    /\ \/ Overflows /\ Stop("recover") /\ UNCHANGED s
       \/ ~Overflows /\ Post([CountCalls(s.tools) EXCEPT !.denied = FALSE], TRUE)

VerificationDenial ==
    /\ Handling /\ Verifying
    /\ \/ Overflows /\ Stop("recover") /\ UNCHANGED s
       \/ /\ ~Overflows
          /\ Post([CountCalls(s.tools) EXCEPT !.only = TRUE, !.denied = FALSE], TRUE)

Reconnoitring == ~s.tools.only /\ s.tools.recon >= MaxRecon
                 /\ Batch \subseteq Reads /\ ~VerificationOnly

ReconDenial ==
    /\ Handling /\ Reconnoitring
    /\ LET denials == IF s.tools.denials + Len(asked) > MaxDenials THEN MaxDenials
                      ELSE s.tools.denials + Len(asked)
           last == denials >= MaxDenials
       IN  \/ Overflows /\ Stop("boundary") /\ UNCHANGED s
           \/ /\ ~Overflows
              /\ Post([CountCalls(s.tools) EXCEPT !.denials = denials, !.only = last,
                                                  !.denied = ~last /\ @], last)

(* Out of rounds: told once that the outcome is all that is left.            *)
OutOfRounds == /\ ~s.tools.only /\ ~Verifying /\ ~Reconnoitring
               /\ s.tools.rounds >= MaxRounds /\ ~TerminalOnly

RoundDenial ==
    /\ Handling /\ OutOfRounds
    /\ \/ s.tools.grace /\ Stop("recover") /\ UNCHANGED s
       \/ ~s.tools.grace /\ Overflows /\ Stop("boundary") /\ UNCHANGED s
       \/ /\ ~s.tools.grace /\ ~Overflows
          /\ Post([CountCalls(s.tools) EXCEPT !.grace = TRUE], TRUE)

(* Otherwise the calls are made one after the other.                         *)
Work ==
    /\ Handling /\ (s.tools.only => TerminalOnly)
    /\ ~Verifying /\ ~Reconnoitring /\ ~OutOfRounds
    /\ c' = [at |-> 1, output |-> "none",
             tools |-> [s.tools EXCEPT !.rounds =
                 IF @ >= MaxRounds /\ TerminalOnly THEN @ ELSE @ + 1]]
    /\ UNCHANGED <<st, s, pc, turnOutcome, asked, results, posts, ran, told, torn>>

Kind == asked[c.at]
Calling == pc = "tools" /\ c.at \in DOMAIN asked /\ c.output = "none"
IsVerification == Kind = "check" /\ c.tools.effects > 0
OutOfVerifications == IsVerification /\ c.tools.verification >= MaxVerification
OutOfRecon == Kind \in Reads /\ ~IsVerification /\ c.tools.recon >= MaxRecon

(* A call too many, an effect too many, or the same call too often.          *)
CallRaises ==
    /\ Calling
    /\ \/ c.tools.calls >= MaxCalls
       \/ Kind \in Effects /\ c.tools.effects >= MaxEffects
       \/ c.tools.calls >= MaxIdentical
    /\ Stop("boundary") /\ UNCHANGED s

MayCall == /\ Calling /\ c.tools.calls < MaxCalls
           /\ Kind \in Effects => c.tools.effects < MaxEffects

(* The answer of the call, and what it counts for: an effect however it      *)
(* ended, a read when it succeeded.                                          *)
Answered(output) ==
    LET read == Kind \in Reads /\ output = "ok"
        count(b) == IF b THEN 1 ELSE 0
    IN  [at |-> c.at + 1, output |-> "none",
         tools |-> [c.tools EXCEPT
             !.calls = @ + 1, !.effects = @ + count(Kind \in Effects),
             !.verification = @ + count(read /\ IsVerification),
             !.recon = @ + count(read /\ ~IsVerification)]]

FromFile ==
    /\ MayCall /\ results[c.at] # "none"
    /\ c' = Answered(results[c.at])
    /\ UNCHANGED <<st, s, pc, turnOutcome, asked, results, posts, ran, told, torn>>

\* Mutant of NoFile: a file that is there is overwritten
AnyFile == TRUE
NoFile == results[c.at] = "none"

Record(output) == results' = [results EXCEPT ![c.at] = output]

(* The gateway answers a read, or raises: no permit, no such path, too long. *)
ReadOutputs == IF OutOfVerifications \/ OutOfRecon THEN {"error"} ELSE {"ok", "error"}

CallReads ==
    /\ MayCall /\ NoFile /\ Kind \in Reads
    /\ \E output \in ReadOutputs :
           Record(output) /\ c' = Answered(output)
    /\ s' = IF OutOfVerifications
            THEN [s EXCEPT !.tools.only = TRUE, !.tools.denied = FALSE] ELSE s
    /\ UNCHANGED <<st, pc, turnOutcome, asked, posts, ran, told, torn>>

(* A patch is applied or taken back; a command runs to whatever return code, *)
(* or raises because it is not authorised or times out.                      *)
EffectOutputs == {"ok", "error"}

_record_turn_outcome(class) == [nonce |-> s.nonce, gate |-> s.gate, class |-> class]

(* An effect happens, or is refused by the gateway, before its file is.      *)
Dispatch ==
    /\ MayCall /\ NoFile /\ Kind \in Effects
    /\ \E output \in EffectOutputs :
         /\ c' = [c EXCEPT !.output = output]
         /\ \E class \in Classes :
              turnOutcome' = IF Kind = "outcome" /\ output = "ok"
                             THEN _record_turn_outcome(class) ELSE turnOutcome
    /\ ran' = [ran EXCEPT ![c.at] = @ + 1]
    /\ UNCHANGED <<st, s, pc, asked, results, posts, told, torn>>

RecordEffect ==
    /\ pc = "tools" /\ c.output # "none"
    /\ Record(c.output)
    /\ c' = Answered(c.output)
    /\ UNCHANGED <<st, s, pc, turnOutcome, asked, posts, ran, told, torn>>

PostResults ==
    /\ pc = "tools" /\ c.at > Len(asked)
    /\ Post([c.tools EXCEPT !.only = s.tools.only, !.denied = s.tools.denied],
            s.tools.only)

handle_required_actions ==
    \/ OutcomeOnlyDenial \/ VerificationDenial \/ ReconDenial \/ RoundDenial
    \/ Work \/ CallRaises \/ FromFile \/ CallReads \/ Dispatch \/ RecordEffect
    \/ PostResults \/ SaveTools

-----------------------------------------------------------------------------
(* Properties.                                                               *)

(* However the calls of a batch are replayed after a death, an effect is     *)
(* dispatched again only when the death fell between the effect and its      *)
(* result file (the result files of handle_required_actions).                *)
EffectsOnce == ~torn => \A i \in DOMAIN ran : ran[i] <= 1

(* Every path of the handler counts what it answers, so a model that never   *)
(* stops asking is stopped after MaxCalls posts, in whatever mixture of      *)
(* denials and work.                                                         *)
PostsAreBounded == ~torn => posts <= MaxCalls

(* Once the model was told that recording the outcome is all that is left,   *)
(* no other effect is dispatched in that turn, whatever it asks for.         *)
WorkStopsWhenTold ==
    [][told /\ ~torn => \A i \in DOMAIN asked :
           i \in DOMAIN ran' /\ ran'[i] > ran[i] => asked[i] = "outcome"]_<<s, asked, ran>>
=============================================================================
