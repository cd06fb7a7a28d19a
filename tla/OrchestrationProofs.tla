------------------------ MODULE OrchestrationProofs ------------------------
(***************************************************************************)
(* The two controllers (Orchestration), for every choice of their caps,    *)
(* tasks and cases.                                                        *)
(*                                                                         *)
(* The one that buys model turns: what it spends is covered, gates move    *)
(* once per outcome, one turn is under way at a time, and a turn's tool    *)
(* calls stay within their budgets.                                        *)
(*                                                                         *)
(* The one that dispatches tasks: its registries stay true to what ran     *)
(* (what a pass has in memory differs from the disk by what it is about to *)
(* write, TrackedInv), and no result is left without something that wakes  *)
(* the superbrain (WakeInv).                                               *)
(***************************************************************************)
EXTENDS Orchestration, FiniteSetTheorems, SequenceTheorems, TLAPS

LooseTools ==
    [calls : Nat, rounds : Nat, effects : Nat, recon : Nat, verification : Nat, denials : Nat,
     only : BOOLEAN, denied : BOOLEAN, grace : BOOLEAN]

\* STATE without its caps.
Loose ==
    [permit : Nat, session : Nat, accounted : Nat, submits : Nat, total : Nat, autonomous : Nat,
     actual : Nat, reserved : Nat, day : Nat, dayActual : Nat, dayReserved : Nat, live : BOOLEAN,
     rotations : Nat, initial : BOOLEAN, awaiting : BOOLEAN, follow : BOOLEAN, event : BOOLEAN,
     started : BOOLEAN, nonce : Nat, gate : Nat,
     trigger : {"none", "user", "event", "initial", "step"}, tools : LooseTools]

SessionRecord == [open : BOOLEAN, used : Nat, permit : Nat]

Outputs == {"none", "ok", "error"}
Points == {"loop", "idle", "closed", "submit", "send", "created", "sent", "count", "tools",
           "posted", "boundary", "recover", "settle", "closure", "recovered", "drop", "trip",
           "stopped"}
Running == pc \notin {"loop", "stopped"}

TurnShape ==
    /\ turnOutcome \in [nonce : Nat, gate : Nat, class : Classes \cup {"none"}]
    /\ asked \in Seq(Kinds)
    /\ results \in [DOMAIN asked -> Outputs] /\ ran \in [DOMAIN asked -> Nat]
    /\ c \in [at : Nat, tools : LooseTools, output : Outputs]
    /\ posts \in Nat /\ told \in BOOLEAN /\ torn \in BOOLEAN

PlaceShape ==
    /\ lock \in Nat /\ disabled \in BOOLEAN /\ inbox \in BOOLEAN
    /\ permit \in [id : Nat, base : Nat] /\ today \in Nat
    /\ left \in [batches : SUBSET (Seq(Kinds) \ {<<>>}), deaths : Nat, permits : Nat, days : Nat,
                 events : Nat]
    /\ crashed \in BOOLEAN /\ unsure \in BOOLEAN
    /\ sent \in [permit : Nat, day : Nat]
    /\ why \in {"none", "disable", "recover"}

Shape ==
    /\ st \in Loose /\ s \in Loose /\ pc \in Points
    /\ sessions \in Seq(SessionRecord)
    /\ TurnShape /\ PlaceShape

\* Where the iteration stands, what it holds in memory is of the permit, the session
\* and the turn on disk.
Flow ==
    /\ st.permit <= permit.id /\ st.session <= Len(sessions)
    /\ Running => /\ st.permit = permit.id /\ s.permit = permit.id
                  /\ s.session <= Len(sessions)
                  /\ s.nonce = st.nonce /\ s.gate = st.gate
    /\ Running /\ pc # "created" => s.session = st.session
    /\ pc \in {"tools", "posted", "boundary", "recover", "idle", "settle", "closure", "recovered", "drop"} =>
          s.session # NoSession
    /\ asked # <<>> => \/ pc \in {"tools", "boundary", "recover", "stopped"}
                       \/ pc = "loop" /\ st.session # NoSession
    /\ pc = "recovered" => turnOutcome.nonce = s.nonce

-----------------------------------------------------------------------------
(* The ledger, the caps of the permit.                                       *)

Owed == IF pc = "send" THEN 1 ELSE 0
\* What a reservation that is exchanged for a charge may lose.
Slack(x) == IF x.live THEN Reservation - 1 ELSE 0
CoveredBy(x, id, day, ofPermit, ofDay) ==
    /\ x.permit = id => ofPermit + Slack(x) <= x.actual + x.reserved
    /\ x.day = day => ofDay + Slack(x) <= x.dayActual + x.dayReserved
    /\ x.day # day => ofDay = 0
    /\ x.live => x.dayReserved >= Reservation
    /\ x.reserved = IF x.live THEN Reservation ELSE 0
Covered(x) == CoveredBy(x, permit.id, today, sent.permit + Owed, sent.day + Owed)

Ledger ==
    /\ Covered(st) /\ (Running => Covered(s))
    /\ s.reserved = IF s.live THEN Reservation ELSE 0

Capped(x) ==
    /\ x.submits <= SessionSubmits /\ x.total <= MaxSubmits /\ x.autonomous <= x.total
    /\ x.rotations <= MaxRotations + 1

Caps ==
    /\ Capped(st) /\ Capped(s)
    /\ permit.base <= lock
    /\ st.permit = permit.id => st.rotations + permit.base <= lock
    /\ Running => s.rotations + permit.base <= lock
    /\ pc \in {"send", "created", "sent", "count"} => s.total < MaxSubmits
    /\ pc \in {"created", "sent", "count"} => s.submits < SessionSubmits

-----------------------------------------------------------------------------
(* Gates and sessions.                                                       *)

OfTurn(x) == x.session # NoSession \/ x.awaiting

Gates ==
    /\ IsFiniteSet(moved) /\ lock = Cardinality(moved)
    /\ \A m \in moved : m = <<m[1], m[2], m[3]>> /\ m[1] \in Nat /\ m[3] \in Nat
    /\ \A m \in moved : m[2] = m[3] /\ m[3] < lock /\ m[1] <= st.nonce
    /\ OfTurn(st) \/ (Running /\ OfTurn(s)) => \A m \in moved : m[1] = st.nonce => m[2] = st.gate
    /\ \A m, n \in moved : m[1] = n[1] => m = n

\* The sessions of the permit STATE is of: no older permit's is touched again.
Opened(n) == n \in DOMAIN sessions /\ sessions[n].open /\ sessions[n].permit = st.permit
Single(q) ==
    \A m, n \in DOMAIN q : q[m].open /\ q[n].open /\ q[m].permit = q[n].permit => m = n

Serial ==
    ~unsure =>
        /\ Single(sessions)
        /\ \A n \in DOMAIN sessions : Opened(n) =>
               \/ pc \in {"loop", "stopped", "tools", "posted", "boundary", "recover"} /\ n = st.session
               \/ pc \in {"created", "sent", "count"} /\ n = s.session

Owned ==
    /\ \A n \in DOMAIN sessions : sessions[n].permit <= st.permit
    /\ st.session # NoSession => sessions[st.session].permit = st.permit
    /\ pc = "created" => sessions[s.session].permit = st.permit

-----------------------------------------------------------------------------
(* Tools of a turn.                                                          *)

ToolsRange ==
    [calls : 0..MaxCalls, rounds : 0..MaxRounds, effects : 0..MaxEffects, recon : 0..MaxRecon,
     verification : 0..MaxVerification, denials : 0..MaxDenials,
     only : BOOLEAN, denied : BOOLEAN, grace : BOOLEAN]

\* Call n of the batch comes after an effect, of this batch or of one before.
AfterEffect(n) == st.tools.effects > 0 \/ \E k \in 1..(n - 1) : asked[k] \in Effects
VerOk(n) == asked[n] = "check" /\ AfterEffect(n) /\ results[n] = "ok"
ReconOk(n) == asked[n] \in Reads /\ ~(asked[n] = "check" /\ AfterEffect(n)) /\ results[n] = "ok"
VersBefore(n) == {k \in 1..(n - 1) : VerOk(k)}
ReconsBefore(n) == {k \in 1..(n - 1) : ReconOk(k)}

\* A replay of the batch counts what the first attempt counted.
Files ==
    /\ \A n \in DOMAIN asked : results[n] # "none" => \A k \in 1..n : results[k] # "none"
    /\ \A n \in DOMAIN asked :
          /\ VerOk(n) => st.tools.verification + Cardinality(VersBefore(n)) < MaxVerification
          /\ ReconOk(n) => st.tools.recon + Cardinality(ReconsBefore(n)) < MaxRecon

\* A call may set only and denied in memory, everything else is set at the end.
SameTools(x, y) ==
    /\ x.calls = y.calls /\ x.rounds = y.rounds /\ x.effects = y.effects /\ x.recon = y.recon
    /\ x.verification = y.verification /\ x.denials = y.denials /\ x.grace = y.grace

Counting ==
    /\ Running /\ pc # "posted" => /\ SameTools(s.tools, st.tools)
                                   /\ st.tools.only => s.tools.only
    /\ pc = "tools" => asked # <<>>
    /\ c.at = 0 => c.output = "none"
    /\ c.at > 0 =>
          /\ pc = "tools" /\ c.at <= Len(asked) + 1
          /\ c.tools \in ToolsRange
          /\ c.tools.calls = s.tools.calls + c.at - 1
          /\ c.tools.effects > 0 <=> AfterEffect(c.at)
          /\ c.tools.verification = s.tools.verification + Cardinality(VersBefore(c.at))
          /\ c.tools.recon = s.tools.recon + Cardinality(ReconsBefore(c.at))
          /\ c.tools.denials = s.tools.denials /\ c.tools.grace = s.tools.grace
          /\ c.tools.rounds >= s.tools.rounds
          /\ \A k \in 1..(c.at - 1) : results[k] # "none"
          /\ c.output # "none" => /\ c.at <= Len(asked) /\ asked[c.at] \in Effects
                                  /\ results[c.at] = "none"
                                  /\ c.tools.calls < MaxCalls /\ c.tools.effects < MaxEffects

TurnTyped == st.tools \in ToolsRange /\ s.tools \in ToolsRange

Once ==
    ~torn => \A n \in DOMAIN asked :
                 /\ ran[n] <= 1
                 /\ ran[n] = 1 => results[n] # "none" \/ (c.at = n /\ c.output # "none")

\* A turn whose session was dropped posts no more.
Submitting == pc \in {"send", "created", "sent", "count"}
Current == IF pc = "posted" THEN s.tools ELSE st.tools

Posted ==
    /\ Submitting => posts = 0 /\ told = FALSE
    /\ ~torn => posts <= MaxCalls
    /\ ~torn /\ st.session # NoSession => posts <= Current.calls

OutcomeIsLeft(x) == x.only \/ (x.grace /\ x.rounds >= MaxRounds)
Told ==
    told /\ ~torn /\ st.session # NoSession =>
        /\ OutcomeIsLeft(Current)
        /\ c.at > 0 => TerminalOnly

-----------------------------------------------------------------------------
(* The shape of the state.                                                   *)

LEMMA Parts ==
  ASSUME Shape
  PROVE  /\ st \in Loose /\ s \in Loose /\ pc \in Points /\ TurnShape /\ PlaceShape
         /\ today \in Nat /\ lock \in Nat /\ permit.id \in Nat /\ permit.base \in Nat
         /\ sent.permit \in Nat /\ sent.day \in Nat
         /\ st.session \in Nat /\ s.session \in Nat /\ s.tools \in LooseTools
         /\ st.permit \in Nat /\ s.permit \in Nat /\ s.nonce \in Nat /\ s.gate \in Nat
BY DEF Shape, PlaceShape, Loose

LEMMA SessionsShape ==
  ASSUME Shape
  PROVE  /\ sessions \in Seq(SessionRecord) /\ Len(sessions) \in Nat
         /\ DOMAIN sessions = 1..Len(sessions)
         /\ \A n \in 1..Len(sessions) : sessions[n] \in SessionRecord
<1>1. sessions \in Seq(SessionRecord)
  BY DEF Shape
<1> QED
  BY <1>1, LenProperties, ElementOfSeq

LEMMA RefreshShape ==
  ASSUME NEW x \in Loose, today \in Nat
  PROVE  /\ refresh_budget_state(x) \in Loose
         /\ \A y : y = refresh_budget_state(x) =>
               /\ y.permit = x.permit /\ y.session = x.session /\ y.nonce = x.nonce /\ y.gate = x.gate
               /\ y.tools = x.tools
<1>1. CASE x.day = today \/ x.live
  BY <1>1 DEF refresh_budget_state
<1>2. CASE ~(x.day = today \/ x.live)
  <2> DEFINE y == [x EXCEPT !.day = today, !.dayActual = 0, !.dayReserved = 0]
  <2>1. y \in Loose /\ y.permit = x.permit /\ y.session = x.session /\ y.nonce = x.nonce /\ y.gate = x.gate
        /\ y.tools = x.tools
    BY DEF Loose
  <2>2. refresh_budget_state(x) = y
    BY <1>2 DEF refresh_budget_state
  <2> QED
    BY <2>1, <2>2
<1> QED
  BY <1>1, <1>2

Less(n) == IF n > Reservation THEN n - Reservation ELSE 0
Charged(x, n1, n2, n3, n4) ==
    [x EXCEPT !.live = FALSE, !.actual = n1, !.dayActual = n2, !.reserved = n3, !.dayReserved = n4]
SameTurn(x, y) ==
    x.permit = y.permit /\ x.session = y.session /\ x.nonce = y.nonce /\ x.gate = y.gate

LEMMA ChargeShape ==
  ASSUME NEW x \in Loose, NEW delta \in Nat
  PROVE  /\ Charge(x, delta) = Charged(x, x.actual + delta, x.dayActual + delta, Less(x.reserved), Less(x.dayReserved))
         /\ Charge(x, delta) \in Loose
         /\ SameTurn(Charge(x, delta), x)
<1>1. Charge(x, delta) = Charged(x, x.actual + delta, x.dayActual + delta, Less(x.reserved), Less(x.dayReserved))
  BY DEF Charge, Charged, Less
<1>2. \A n1, n2, n3, n4 \in Nat : Charged(x, n1, n2, n3, n4) \in Loose
  BY DEF Loose, Charged
<1>3. x.actual \in Nat /\ x.dayActual \in Nat /\ x.reserved \in Nat /\ x.dayReserved \in Nat
  BY DEF Loose
<1>4. x.actual + delta \in Nat /\ x.dayActual + delta \in Nat /\ Less(x.reserved) \in Nat /\ Less(x.dayReserved) \in Nat
  BY <1>3, PermitAssumption DEF Less
<1>5. \A n1, n2, n3, n4 \in Nat : SameTurn(Charged(x, n1, n2, n3, n4), x)
  BY DEF Loose, Charged, SameTurn
<1> QED
  BY <1>1, <1>2, <1>4, <1>5

\* What a settlement charges.
Delta(x, reported) == IF reported > x.accounted THEN reported - x.accounted ELSE Reservation

LEMMA SettleShape ==
  ASSUME NEW x \in Loose, NEW reported \in Nat, NEW waited, settle_session_usage(x, reported, waited)
  PROVE  s' \in Loose /\ SameTurn(s', x)
<1> DEFINE delta == Delta(x, reported)
           y == [x EXCEPT !.accounted = @ + delta]
<1>1. x.accounted \in Nat /\ delta \in Nat
  BY PermitAssumption DEF Loose, Delta
<1>2. y \in Loose /\ SameTurn(y, x)
  BY <1>1 DEF Loose, SameTurn
<1>3. s' = Charge(y, delta)
  BY DEF settle_session_usage, Delta
<1> HIDE DEF y, delta
<1>4. s' \in Loose /\ SameTurn(s', y)
  BY <1>1, <1>2, <1>3, ChargeShape
<1> QED
  BY <1>2, <1>4 DEF SameTurn

LEMMA FreshShape ==
  /\ Fresh \in Loose /\ NoTools \in LooseTools
  /\ Fresh.permit = 0 /\ Fresh.session = 0 /\ ~Fresh.live /\ Fresh.day = 0
BY DEF Fresh, Loose, NoTools, LooseTools, NoSession

LEMMA TurnCleared ==
  ASSUME TurnShape, asked' = <<>>, results' = <<>>, ran' = <<>>, UNCHANGED <<turnOutcome, c, posts, told, torn>>
  PROVE  TurnShape'
<1>1. <<>> \in Seq(Kinds) /\ DOMAIN <<>> = {}
  BY EmptySeq
<1>2. <<>> \in [{} -> Outputs] /\ <<>> \in [{} -> Nat]
  BY <1>1
<1> QED
  BY <1>1, <1>2 DEF TurnShape

LEMMA TurnSame ==
  ASSUME TurnShape, UNCHANGED <<turnOutcome, toolVars, torn>>
  PROVE  TurnShape' /\ asked' = asked /\ turnOutcome' = turnOutcome
BY DEF TurnShape, toolVars

LEMMA PlaceSame ==
  ASSUME PlaceShape, UNCHANGED <<lock, disabled, inbox, why, outside, past>>
  PROVE  PlaceShape' /\ permit' = permit
BY DEF PlaceShape, outside, past

LEMMA StillSame ==
  ASSUME Shape, Still
  PROVE  TurnShape' /\ PlaceShape' /\ asked' = asked /\ turnOutcome' = turnOutcome /\ permit' = permit
<1>1. TurnShape /\ PlaceShape /\ UNCHANGED <<turnOutcome, toolVars, torn>> /\ UNCHANGED <<lock, disabled, inbox, why, outside, past>>
  BY DEF Shape, Still
<1> QED
  BY <1>1, TurnSame, PlaceSame

LEMMA ShapeStep ==
  ASSUME Shape, st' \in Loose, s' \in Loose, pc' \in Points, sessions' = sessions, TurnShape', PlaceShape'
  PROVE  Shape'
BY DEF Shape

LEMMA EndedShape ==
  ASSUME Shape, NEW n \in 1..Len(sessions), Ended(n)
  PROVE  /\ sessions' \in Seq(SessionRecord) /\ Len(sessions') = Len(sessions)
         /\ DOMAIN sessions' = DOMAIN sessions
         /\ sessions'[n].open = FALSE
         /\ \A k \in DOMAIN sessions \ {n} : sessions'[k] = sessions[k]
         /\ \A k \in DOMAIN sessions : sessions'[k].permit = sessions[k].permit
<1>2. sessions[n] \in SessionRecord /\ n \in DOMAIN sessions
  BY SessionsShape
<1> DEFINE z(m) == [sessions[n] EXCEPT !.open = FALSE, !.used = m]
<1>1. PICK cost \in Nat : sessions' = [sessions EXCEPT ![n].open = FALSE, ![n].used = @ + cost]
  BY PermitAssumption DEF Ended
<1>a. sessions[n].used + cost \in Nat
  BY <1>2 DEF SessionRecord
<1>b. \A m \in Nat : z(m) \in SessionRecord /\ z(m).open = FALSE /\ z(m).permit = sessions[n].permit
  BY <1>2 DEF SessionRecord
<1> DEFINE e == z(sessions[n].used + cost)
<1>3. sessions' = [sessions EXCEPT ![n] = e]
  BY <1>1, <1>2
<1> HIDE DEF z
<1>4. e \in SessionRecord /\ e.open = FALSE /\ e.permit = sessions[n].permit
  BY <1>a, <1>b
<1> HIDE DEF e
<1>5. sessions \in Seq(SessionRecord)
  BY SessionsShape
<1>6. /\ sessions' \in Seq(SessionRecord) /\ Len(sessions') = Len(sessions)
      /\ \A k \in 1..Len(sessions) : sessions'[k] = IF k = n THEN e ELSE sessions[k]
  BY <1>2, <1>3, <1>4, <1>5, ExceptSeq
<1>7. DOMAIN sessions = 1..Len(sessions) /\ DOMAIN sessions' = 1..Len(sessions')
  BY <1>5, <1>6, LenProperties
<1> QED
  BY <1>2, <1>4, <1>6, <1>7

Base == Shape /\ Flow

Adopted(x, n1, n2, n3, n4, n5, b) ==
    [x EXCEPT !.permit = n1, !.day = n2, !.nonce = n3, !.dayActual = n4, !.dayReserved = n5, !.event = b]

LEMMA LooseAdopted ==
  ASSUME NEW x \in Loose, NEW n1 \in Nat, NEW n2 \in Nat, NEW n3 \in Nat, NEW n4 \in Nat, NEW n5 \in Nat,
         NEW b \in BOOLEAN
  PROVE  Adopted(x, n1, n2, n3, n4, n5, b) \in Loose
BY DEF Loose, Adopted

LEMMA AdoptBase ==
  ASSUME Base, AdoptPermit
  PROVE  Base'
<1> DEFINE old == refresh_budget_state(st)
<1>1. Shape /\ Flow /\ st \in Loose /\ s \in Loose /\ permit.id \in Nat /\ today \in Nat /\ pc = "loop"
  BY Parts DEF Base, AdoptPermit
<1>2. old \in Loose
  BY <1>1, RefreshShape
<1> HIDE DEF old
<1>a. old.day \in Nat /\ old.nonce \in Nat /\ old.dayActual \in Nat /\ old.dayReserved \in Nat /\ old.event \in BOOLEAN
  BY <1>2 DEF Loose
<1> DEFINE y == Adopted(Fresh, permit.id, old.day, old.nonce, old.dayActual, old.dayReserved, old.event)
<1>c. y \in Loose
  BY <1>1, <1>a, FreshShape, LooseAdopted
<1>3. y.permit = permit.id /\ y.session = NoSession
  BY DEF Fresh, Adopted
<1>4. st' = y
  BY DEF AdoptPermit, old, Adopted
<1> HIDE DEF y
<1>5. TurnShape'
  BY <1>1, TurnCleared DEF AdoptPermit, Shape
<1>6. PlaceShape' /\ permit' = permit
  BY <1>1 DEF AdoptPermit, Shape, PlaceShape, outside
<1>7. sessions' \in Seq(SessionRecord) /\ Len(sessions') \in Nat
  BY <1>1, SessionsShape DEF AdoptPermit
<1>8. Shape'
  BY <1>1, <1>c, <1>4, <1>5, <1>6, <1>7 DEF Shape, AdoptPermit
<1>9. st'.permit = permit.id /\ st'.session = 0 /\ pc' = "loop" /\ asked' = <<>>
  BY <1>1, <1>3, <1>4 DEF AdoptPermit, NoSession
<1>10. Flow'
  BY <1>1, <1>6, <1>7, <1>9 DEF Flow, Running
<1> QED
  BY <1>8, <1>10 DEF Base

LEMMA FindBase ==
  ASSUME Base, Find
  PROVE  Base'
<1> DEFINE y == refresh_budget_state(st)
<1>1. /\ Shape /\ Flow /\ st \in Loose /\ s \in Loose /\ pc = "loop" /\ st.permit = permit.id /\ s' = y
      /\ TurnShape /\ PlaceShape /\ today \in Nat /\ permit.id \in Nat
  BY Parts DEF Base, Find, FindNoSession, FindIdle, FindCalls, FindFailed, FindTimeout, Reading
<1>2. y \in Loose /\ y.permit = st.permit /\ y.session = st.session /\ y.nonce = st.nonce /\ y.gate = st.gate
  BY <1>1, RefreshShape
<1> HIDE DEF y
<1>3. (st' = st \/ st' = s') /\ pc' \in {"submit", "idle", "tools", "settle", "boundary"}
  BY DEF Find, FindNoSession, FindIdle, FindCalls, FindFailed, FindTimeout
<1>4. /\ st' \in Loose /\ s' \in Loose /\ pc' \in Points
      /\ st'.permit = permit.id /\ s'.permit = permit.id /\ s'.session = st.session /\ st'.session = st.session
      /\ s'.nonce = st'.nonce /\ s'.gate = st'.gate
  BY <1>1, <1>2, <1>3 DEF Points
<1>5. PlaceShape' /\ permit' = permit
  BY <1>1 DEF PlaceShape, Find, FindNoSession, FindIdle, FindCalls, FindFailed, FindTimeout, Still, outside, past
<1>7. st.session \in Nat /\ st.session <= Len(sessions) /\ Len(sessions) \in Nat
  BY <1>1, SessionsShape, Parts DEF Flow
<1>8. st.session # NoSession => st.session \in 1..Len(sessions)
  BY <1>7 DEF NoSession
<1>9. sessions' \in Seq(SessionRecord) /\ Len(sessions') = Len(sessions)
  <2>1. CASE Here # NoSession /\ Ended(Here)
    BY <1>1, <1>8, <2>1, EndedShape DEF Here
  <2>2. CASE UNCHANGED sessions
    BY <1>1, <2>2, SessionsShape
  <2> QED
    BY <2>1, <2>2 DEF Find, FindNoSession, FindIdle, FindCalls, FindFailed, FindTimeout, Open
<1>10. TurnShape' /\ (asked' = <<>> \/ asked' = asked \/ pc' = "tools")
  <2>1. CASE UNCHANGED <<turnOutcome, toolVars, torn>>
    BY <1>1, <2>1, TurnSame
  <2>2. CASE FindCalls
    <3>1. CASE UNCHANGED <<asked, results, ran>>
      BY <1>1, <2>2, <3>1, TurnSame DEF FindCalls, toolVars
    <3>2. CASE asked' \in left.batches /\ results' = NoResults(asked') /\ ran' = [i \in DOMAIN asked' |-> 0]
      <4>1. asked' \in Seq(Kinds)
        BY <1>1, <3>2 DEF PlaceShape
      <4> QED
        BY <1>1, <2>2, <3>2, <4>1 DEF TurnShape, FindCalls, NoResults, Outputs
    <3> QED
      BY <2>2, <3>1, <3>2 DEF FindCalls
  <2>3. CASE FindFailed
    BY <1>1, <2>3, TurnCleared DEF FindFailed
  <2> QED
    BY <2>1, <2>2, <2>3 DEF Find, FindNoSession, FindIdle, FindTimeout, Still
<1>11. Shape'
  BY <1>1, <1>4, <1>5, <1>9, <1>10 DEF Shape
<1>12. asked' # <<>> => pc' \in {"tools", "boundary"}
  <2>1. CASE FindNoSession
    BY <1>1, <2>1 DEF FindNoSession, Still, toolVars, Here, Flow
  <2> QED
    BY <2>1 DEF Find, FindIdle, FindCalls, FindFailed, FindTimeout, Still, toolVars
<1>13. pc' \in {"tools", "posted", "boundary", "recover", "idle", "settle", "closure", "recovered", "drop"} => st.session # NoSession
  BY DEF Find, FindNoSession, FindIdle, FindCalls, FindFailed, FindTimeout, Open, Here
<1>14. Flow'
  BY <1>3, <1>4, <1>5, <1>7, <1>9, <1>12, <1>13, <1>1 DEF Flow, Running
<1> QED
  BY <1>11, <1>14 DEF Base

LEMMA LooseWithTools ==
  ASSUME NEW x \in Loose, NEW t \in LooseTools
  PROVE  [x EXCEPT !.tools = t] \in Loose /\ SameTurn([x EXCEPT !.tools = t], x) /\ [x EXCEPT !.tools = t].tools = t
BY DEF Loose, SameTurn

\* What a step of handle_required_actions leaves alone, in the words of Tools.
Apart == UNCHANGED <<lock, disabled, inbox, sessions, why, outside, past>>

LEMMA ApartShape ==
  ASSUME Shape, Apart
  PROVE  PlaceShape' /\ sessions' = sessions /\ permit' = permit
BY DEF Shape, Apart, PlaceShape, outside, past

LEMMA StopBase ==
  ASSUME Base, pc = "tools", NEW how \in {"boundary", "recover"}, Stop(how), UNCHANGED s, Apart
  PROVE  Base'
<1>1. Shape /\ Flow /\ st \in Loose /\ s \in Loose /\ TurnShape
  BY Parts DEF Base
<1>2. PlaceShape' /\ sessions' = sessions /\ permit' = permit
  BY <1>1, ApartShape
<1>3. NoCall \in [at : Nat, tools : LooseTools, output : Outputs]
  BY FreshShape DEF NoCall, Outputs
<1>4. TurnShape'
  BY <1>1, <1>3 DEF Stop, TurnShape
<1>5. Shape'
  BY <1>1, <1>2, <1>4, ShapeStep DEF Stop, Points
<1>6. Flow'
  BY <1>1, <1>2 DEF Flow, Stop, Running
<1> QED
  BY <1>5, <1>6 DEF Base

LEMMA PostBase ==
  ASSUME Base, pc = "tools", NEW tools \in LooseTools, NEW tells \in BOOLEAN, Post(tools, tells), Apart
  PROVE  Base'
<1>1. Shape /\ Flow /\ st \in Loose /\ s \in Loose /\ TurnShape
  BY Parts DEF Base
<1>2. PlaceShape' /\ sessions' = sessions /\ permit' = permit
  BY <1>1, ApartShape
<1>3. NoCall \in [at : Nat, tools : LooseTools, output : Outputs]
  BY FreshShape DEF NoCall, Outputs
<1>4. <<>> \in Seq(Kinds) /\ <<>> \in [DOMAIN <<>> -> Outputs] /\ <<>> \in [DOMAIN <<>> -> Nat]
  <2>1. <<>> \in Seq(Kinds) /\ DOMAIN <<>> = {}
    BY EmptySeq
  <2> QED
    BY <2>1
<1>5. asked' \in Seq(Kinds) /\ results' \in [DOMAIN asked' -> Outputs] /\ ran' \in [DOMAIN asked' -> Nat]
  BY <1>4 DEF Post
<1>6. posts' \in Nat /\ told' \in BOOLEAN
  BY <1>1 DEF Post, TurnShape
<1>7. TurnShape'
  BY <1>1, <1>3, <1>5, <1>6 DEF Post, TurnShape
<1>8. s' \in Loose /\ SameTurn(s', s)
  BY <1>1, LooseWithTools DEF Post
<1>9. Shape'
  BY <1>1, <1>2, <1>7, <1>8, ShapeStep DEF Post, Points
<1>10. Flow'
  BY <1>1, <1>2, <1>8 DEF Flow, Post, Running, SameTurn
<1> QED
  BY <1>9, <1>10 DEF Base

LEMMA CallShape ==
  ASSUME Shape
  PROVE  /\ c.at \in Nat /\ c.tools \in LooseTools /\ c.output \in Outputs /\ Len(asked) \in Nat
         /\ DOMAIN asked = 1..Len(asked)
         /\ \A n \in 1..Len(asked) : asked[n] \in Kinds /\ results[n] \in Outputs /\ ran[n] \in Nat
         /\ DOMAIN results = 1..Len(asked) /\ DOMAIN ran = 1..Len(asked)
<1>1. TurnShape
  BY DEF Shape
<1>2. asked \in Seq(Kinds)
  BY <1>1 DEF TurnShape
<1>3. Len(asked) \in Nat /\ DOMAIN asked = 1..Len(asked) /\ \A n \in 1..Len(asked) : asked[n] \in Kinds
  BY <1>2, LenProperties, ElementOfSeq
<1> QED
  BY <1>1, <1>3 DEF TurnShape

LEMMA CountShape ==
  ASSUME Shape, NEW t \in LooseTools
  PROVE  CountCalls(t) \in LooseTools
<1>1. Len(asked) \in Nat
  BY CallShape
<1> QED
  BY <1>1 DEF CountCalls, LooseTools

LEMMA AnsweredShape ==
  ASSUME Shape, NEW output \in Outputs
  PROVE  Answered(output) \in [at : Nat, tools : LooseTools, output : Outputs]
<1> DEFINE count(b) == IF b THEN 1 ELSE 0
           read == Kind \in Reads /\ output = "ok"
           n1 == count(Kind \in Effects)
           n2 == count(read /\ IsVerification)
           n3 == count(read /\ ~IsVerification)
           t == [c.tools EXCEPT !.calls = @ + 1, !.effects = @ + n1, !.verification = @ + n2, !.recon = @ + n3]
<1>1. c.tools \in LooseTools /\ c.at \in Nat
  BY CallShape
<1>2. n1 \in Nat /\ n2 \in Nat /\ n3 \in Nat
  OBVIOUS
<1>3. Answered(output) = [at |-> c.at + 1, output |-> "none", tools |-> t]
  BY DEF Answered
<1> HIDE DEF n1, n2, n3, count, read
<1>4. t \in LooseTools
  <2>1. ASSUME NEW k1 \in Nat, NEW k2 \in Nat, NEW k3 \in Nat, NEW k4 \in Nat
        PROVE  [c.tools EXCEPT !.calls = k1, !.effects = k2, !.verification = k3, !.recon = k4] \in LooseTools
    BY <1>1 DEF LooseTools
  <2>2. /\ c.tools.calls + 1 \in Nat /\ c.tools.effects + n1 \in Nat /\ c.tools.verification + n2 \in Nat
        /\ c.tools.recon + n3 \in Nat
    BY <1>1, <1>2 DEF LooseTools
  <2> QED
    BY <2>1, <2>2
<1> HIDE DEF t
<1> QED
  BY <1>1, <1>3, <1>4 DEF Outputs

LEMMA CallBase ==
  ASSUME Base, pc = "tools", UNCHANGED <<st, pc, asked, posts, told, torn>>, Apart,
         turnOutcome' \in [nonce : Nat, gate : Nat, class : Classes \cup {"none"}],
         results' \in [DOMAIN asked -> Outputs], ran' \in [DOMAIN asked -> Nat],
         c' \in [at : Nat, tools : LooseTools, output : Outputs],
         s' \in Loose, SameTurn(s', s)
  PROVE  Base'
<1>1. Shape /\ Flow /\ st \in Loose /\ TurnShape
  BY Parts DEF Base
<1>2. PlaceShape' /\ sessions' = sessions /\ permit' = permit
  BY <1>1, ApartShape
<1>3. TurnShape'
  BY <1>1 DEF TurnShape
<1>4. Shape'
  BY <1>1, <1>2, <1>3, ShapeStep DEF Points
<1>5. Flow'
  BY <1>1, <1>2 DEF Flow, Running, SameTurn
<1> QED
  BY <1>4, <1>5 DEF Base

LEMMA RecordShape ==
  ASSUME Shape, NEW output \in Outputs, Record(output)
  PROVE  results' \in [DOMAIN asked -> Outputs]
BY DEF Record, Shape, TurnShape

LEMMA DenialBase ==
  ASSUME Base, Apart, OutcomeOnlyDenial \/ VerificationDenial \/ ReconDenial \/ RoundDenial
  PROVE  Base'
<1>1. Shape /\ pc = "tools" /\ s.tools \in LooseTools
  BY Parts DEF Base, OutcomeOnlyDenial, VerificationDenial, ReconDenial, RoundDenial, Handling
<1> DEFINE t == CountCalls(s.tools)
<1>2. t \in LooseTools
  BY <1>1, CountShape
<1> HIDE DEF t
<1>3. CASE UNCHANGED s /\ (Stop("recover") \/ Stop("boundary"))
  BY <1>1, <1>3, StopBase
<1>4. CASE OutcomeOnlyDenial /\ Post([t EXCEPT !.denied = TRUE], TRUE)
  <2>1. [t EXCEPT !.denied = TRUE] \in LooseTools
    BY <1>2 DEF LooseTools
  <2> QED
    BY <1>1, <1>4, <2>1, PostBase
<1>5. CASE VerificationDenial /\ Post([t EXCEPT !.only = TRUE, !.denied = FALSE], TRUE)
  <2>1. [t EXCEPT !.only = TRUE, !.denied = FALSE] \in LooseTools
    BY <1>2 DEF LooseTools
  <2> QED
    BY <1>1, <1>5, <2>1, PostBase
<1>6. ASSUME NEW n \in Nat, NEW b \in BOOLEAN,
             Post([t EXCEPT !.denials = n, !.only = b, !.denied = ~b /\ @], b)
      PROVE  Base'
  <2>1. t.denied \in BOOLEAN
    BY <1>2 DEF LooseTools
  <2>2. (~b /\ t.denied) \in BOOLEAN
    BY <2>1
  <2>3. [t EXCEPT !.denials = n, !.only = b, !.denied = ~b /\ @] \in LooseTools
    BY <1>2, <2>2 DEF LooseTools
  <2> QED
    BY <1>1, <1>6, <2>3, PostBase
<1>7. CASE RoundDenial /\ Post([t EXCEPT !.grace = TRUE], TRUE)
  <2>1. [t EXCEPT !.grace = TRUE] \in LooseTools
    BY <1>2 DEF LooseTools
  <2> QED
    BY <1>1, <1>7, <2>1, PostBase
<1>8. CASE ReconDenial
  <2> DEFINE denials == IF s.tools.denials + Len(asked) > MaxDenials THEN MaxDenials
                        ELSE s.tools.denials + Len(asked)
             last == denials >= MaxDenials
  <2>1. denials \in Nat /\ last \in BOOLEAN
    <3>1. s.tools.denials \in Nat
      BY <1>1 DEF LooseTools
    <3>2. Len(asked) \in Nat
      BY <1>1, CallShape
    <3>3. MaxDenials \in Nat
      BY BudgetAssumption
    <3> QED
      BY <3>1, <3>2, <3>3
  <2>2. \/ UNCHANGED s /\ Stop("boundary")
        \/ Post([t EXCEPT !.denials = denials, !.only = last, !.denied = ~last /\ @], last)
    BY <1>8 DEF ReconDenial, t
  <2> HIDE DEF denials, last
  <2> QED
    BY <1>3, <1>6, <2>1, <2>2
<1> QED
  BY <1>3, <1>4, <1>5, <1>7, <1>8 DEF OutcomeOnlyDenial, VerificationDenial, RoundDenial, t

LEMMA ToolsBase ==
  ASSUME Base, Tools
  PROVE  Base'
<1>1. Shape /\ Flow /\ TurnShape /\ s \in Loose /\ s.tools \in LooseTools /\ Apart /\ st \in Loose
  BY Parts DEF Base, Tools, Apart
<1>2. SameTurn(s, s)
  BY DEF SameTurn
<1>3. /\ turnOutcome \in [nonce : Nat, gate : Nat, class : Classes \cup {"none"}]
      /\ results \in [DOMAIN asked -> Outputs] /\ ran \in [DOMAIN asked -> Nat]
      /\ c \in [at : Nat, tools : LooseTools, output : Outputs]
      /\ told \in BOOLEAN
  BY <1>1 DEF TurnShape
<1>4. c.tools \in LooseTools /\ c.at \in Nat /\ c.output \in Outputs /\ Len(asked) \in Nat /\ DOMAIN asked = 1..Len(asked)
      /\ \A n \in 1..Len(asked) : results[n] \in Outputs
  BY <1>1, CallShape
<1>5. CASE Work
  <2> DEFINE n == IF s.tools.rounds >= MaxRounds /\ TerminalOnly THEN s.tools.rounds ELSE s.tools.rounds + 1
             call == [at |-> 1, output |-> "none", tools |-> [s.tools EXCEPT !.rounds = n]]
  <2>1. n \in Nat
    BY <1>1 DEF LooseTools
  <2>2. c' = call
    BY <1>5 DEF Work
  <2> HIDE DEF n
  <2>3. [s.tools EXCEPT !.rounds = n] \in LooseTools
    BY <1>1, <2>1 DEF LooseTools
  <2>4. c' \in [at : Nat, tools : LooseTools, output : Outputs]
    BY <2>2, <2>3 DEF Outputs
  <2> QED
    BY <1>1, <1>2, <1>3, <1>5, <2>4, CallBase DEF Work, Handling
<1>6. CASE CallRaises
  BY <1>1, <1>6, StopBase DEF CallRaises, Calling
<1>7. CASE FromFile
  <2>1. results[c.at] \in Outputs
    BY <1>4, <1>7 DEF FromFile, MayCall, Calling
  <2>2. c' \in [at : Nat, tools : LooseTools, output : Outputs]
    BY <1>1, <1>7, <2>1, AnsweredShape DEF FromFile
  <2> QED
    BY <1>1, <1>2, <1>3, <1>7, <2>2, CallBase DEF FromFile, MayCall, Calling
<1>8. CASE CallReads
  <2>1. PICK output \in ReadOutputs : Record(output) /\ c' = Answered(output)
    BY <1>8 DEF CallReads
  <2>2. output \in Outputs
    BY DEF ReadOutputs, Outputs
  <2>3. c' \in [at : Nat, tools : LooseTools, output : Outputs] /\ results' \in [DOMAIN asked -> Outputs]
    BY <1>1, <2>1, <2>2, AnsweredShape, RecordShape
  <2>4. s' \in Loose /\ SameTurn(s', s)
    <3>1. CASE OutOfVerifications
      <4>1. [s EXCEPT !.tools.only = TRUE, !.tools.denied = FALSE] = [s EXCEPT !.tools = [s.tools EXCEPT !.only = TRUE, !.denied = FALSE]]
        BY <1>1 DEF Loose, LooseTools
      <4>2. [s.tools EXCEPT !.only = TRUE, !.denied = FALSE] \in LooseTools
        BY <1>1 DEF LooseTools
      <4>3. s' = [s EXCEPT !.tools = [s.tools EXCEPT !.only = TRUE, !.denied = FALSE]]
        BY <1>8, <3>1, <4>1 DEF CallReads
      <4> QED
        BY <1>1, <4>2, <4>3, LooseWithTools
    <3> QED
      BY <1>1, <1>2, <1>8, <3>1 DEF CallReads
  <2> QED
    BY <1>1, <1>3, <1>8, <2>3, <2>4, CallBase DEF CallReads, MayCall, Calling
<1>9. CASE Dispatch
  <2>1. PICK output \in EffectOutputs : c' = [c EXCEPT !.output = output]
    BY <1>9 DEF Dispatch
  <2>2. c' \in [at : Nat, tools : LooseTools, output : Outputs]
    BY <1>3, <2>1 DEF EffectOutputs, Outputs
  <2>3. turnOutcome' \in [nonce : Nat, gate : Nat, class : Classes \cup {"none"}]
    <3>1. s.nonce \in Nat /\ s.gate \in Nat
      BY <1>1, Parts
    <3> QED
      BY <1>3, <1>9, <3>1 DEF Dispatch, _record_turn_outcome
  <2>4. ran' \in [DOMAIN asked -> Nat]
    <3>1. c.at \in DOMAIN asked /\ ran' = [ran EXCEPT ![c.at] = ran[c.at] + 1]
      BY <1>9 DEF Dispatch, MayCall, Calling
    <3>2. ran[c.at] + 1 \in Nat
      BY <1>3, <3>1
    <3> QED
      BY <1>3, <3>1, <3>2
  <2> QED
    BY <1>1, <1>2, <1>3, <1>9, <2>2, <2>3, <2>4, CallBase DEF Dispatch, MayCall, Calling
<1>10. CASE RecordEffect
  <2>1. c' \in [at : Nat, tools : LooseTools, output : Outputs] /\ results' \in [DOMAIN asked -> Outputs]
    BY <1>1, <1>4, <1>10, AnsweredShape, RecordShape DEF RecordEffect
  <2> QED
    BY <1>1, <1>2, <1>3, <1>10, <2>1, CallBase DEF RecordEffect
<1>11. CASE PostResults
  <2>1. s.tools.only \in BOOLEAN /\ s.tools.denied \in BOOLEAN
    BY <1>1 DEF LooseTools
  <2>2. [c.tools EXCEPT !.only = s.tools.only, !.denied = s.tools.denied] \in LooseTools
    BY <1>4, <2>1 DEF LooseTools
  <2> QED
    BY <1>1, <1>11, <2>1, <2>2, PostBase DEF PostResults
<1>12. CASE SaveTools
  <2>1. TurnShape' /\ asked' = asked
    BY <1>1, <1>12, TurnSame DEF SaveTools
  <2>2. PlaceShape' /\ sessions' = sessions /\ permit' = permit
    BY <1>1, ApartShape
  <2>3. Shape'
    BY <1>1, <1>12, <2>1, <2>2, ShapeStep DEF SaveTools, Points
  <2>4. Flow'
    BY <1>1, <1>12, <2>1, <2>2 DEF SaveTools, Flow, Running
  <2> QED
    BY <2>3, <2>4 DEF Base
<1> QED
  BY <1>1, <1>5, <1>6, <1>7, <1>8, <1>9, <1>10, <1>11, <1>12, DenialBase DEF Tools, handle_required_actions

LEMMA LooseFollow ==
  ASSUME NEW x \in Loose, NEW b \in BOOLEAN
  PROVE  [x EXCEPT !.follow = b] \in Loose /\ SameTurn([x EXCEPT !.follow = b], x)
BY DEF Loose, SameTurn

LEMMA LooseClosed ==
  ASSUME NEW x \in Loose
  PROVE  Closed(x) \in Loose /\ SameTurn(Closed(x), x)
BY DEF Loose, SameTurn, Closed

RotatedTo(n) == [s EXCEPT !.rotations = n, !.follow = TRUE, !.initial = FALSE, !.event = FALSE]

LEMMA LooseRotated ==
  ASSUME s \in Loose
  PROVE  Rotated \in Loose /\ SameTurn(Rotated, s)
<1>1. s.rotations + 1 \in Nat
  BY DEF Loose
<1>2. ASSUME NEW n \in Nat
      PROVE  RotatedTo(n) \in Loose /\ SameTurn(RotatedTo(n), s)
  BY DEF Loose, SameTurn, RotatedTo
<1>3. Rotated = RotatedTo(s.rotations + 1)
  BY DEF Rotated, RotatedTo
<1> QED
  BY <1>1, <1>2, <1>3

\* Points with a turn's session in hand.
Turning == {"idle", "settle", "closure", "recovered", "drop"}

LEMMA StepBase ==
  ASSUME Base, Running, pc \notin {"tools", "posted", "boundary", "recover"},
         pc' \in Points \ {"tools", "posted", "boundary", "recover"},
         TurnShape', PlaceShape', permit' = permit, asked' = asked, sessions' = sessions,
         st' \in Loose, s' \in Loose, SameTurn(s', s), SameTurn(st', st) \/ SameTurn(st', s),
         pc' \in Turning => pc \in Turning, pc' # "created", pc = "created" => SameTurn(st', s),
         pc' = "recovered" => turnOutcome'.nonce = s'.nonce
  PROVE  Base'
<1>1. Shape /\ Flow /\ st.permit = permit.id /\ s.permit = permit.id /\ s.session <= Len(sessions)
      /\ (pc = "created" \/ s.session = st.session)
      /\ st.session <= Len(sessions) /\ s.nonce = st.nonce /\ s.gate = st.gate
      /\ permit.id \in Nat
  BY Parts DEF Base, Flow
<1>2. Shape'
  BY <1>1, ShapeStep
<1>3. asked = <<>>
  BY <1>1 DEF Flow, Running
<1>4. s.session # NoSession \/ pc \notin Turning
  BY <1>1 DEF Flow, Turning
<1>5. Flow'
  BY <1>1, <1>3, <1>4 DEF Flow, Running, SameTurn, Turning
<1> QED
  BY <1>2, <1>5 DEF Base

LEMMA SessionInHand ==
  ASSUME Base, Running, s.session # NoSession
  PROVE  s.session \in 1..Len(sessions) /\ sessions[s.session].used \in Nat /\ sessions[s.session].open \in BOOLEAN
<1>1. Shape /\ s.session \in Nat /\ s.session <= Len(sessions) /\ Len(sessions) \in Nat
  BY Parts, SessionsShape DEF Base, Flow
<1>2. s.session \in 1..Len(sessions)
  BY <1>1 DEF NoSession
<1>3. sessions[s.session] \in SessionRecord
  BY <1>1, <1>2, SessionsShape
<1> QED
  BY <1>2, <1>3 DEF SessionRecord

LEMMA SettledBase ==
  ASSUME Base, pc \in {"idle", "settle"},
         NEW reported \in 0..sessions[s.session].used, NEW waited, settle_session_usage(s, reported, waited)
  PROVE  s' \in Loose /\ SameTurn(s', s) /\ reported \in Nat
<1>1. s.session # NoSession /\ Running /\ s \in Loose
  BY Parts DEF Base, Flow, Running
<1>2. reported \in Nat
  BY <1>1, SessionInHand
<1> QED
  BY <1>1, <1>2, SettleShape

LEMMA CloseBase ==
  ASSUME Base, Close
  PROVE  Base'
<1>1. /\ Shape /\ Flow /\ st \in Loose /\ s \in Loose /\ pc \in {"idle", "closed"} /\ TurnShape /\ PlaceShape
      /\ Running
  BY Parts DEF Base, Close, CloseAndHold, CloseAndFollow, CloseAndRotate, SaveClosed, CloseAndDisable, KeepIdle,
     SettleIdle, Closing, Running
<1>2. SameTurn(s, s) /\ SameTurn(st, st)
  BY DEF SameTurn
<1>3. CASE Still /\ UNCHANGED sessions /\ pc' \in {"idle", "submit", "trip"} /\ (pc' = "idle" => pc = "idle")
           /\ s' \in Loose /\ SameTurn(s', s) /\ st' \in {st, s'}
  <2>1. TurnShape' /\ PlaceShape' /\ asked' = asked /\ turnOutcome' = turnOutcome /\ permit' = permit
    BY <1>1, <1>3, StillSame
  <2> QED
    BY <1>1, <1>2, <1>3, <2>1, StepBase DEF Points, Turning, SameTurn
<1>4. CASE CloseAndHold \/ CloseAndFollow
  <2>1. s' \in Loose /\ SameTurn(s', s)
    <3>1. Closed(s) \in Loose /\ SameTurn(Closed(s), s)
      BY <1>1, LooseClosed
    <3>2. ASSUME NEW b \in BOOLEAN, s' = [Closed(s) EXCEPT !.follow = b]
          PROVE  s' \in Loose /\ SameTurn(s', s)
      BY <3>1, <3>2, LooseFollow DEF SameTurn
    <3> QED
      BY <1>4, <3>2 DEF CloseAndHold, CloseAndFollow
  <2> QED
    BY <1>3, <1>4, <2>1 DEF CloseAndHold, CloseAndFollow
<1>5. CASE CloseAndRotate
  <2>1. s' \in Loose /\ SameTurn(s', s)
    <3>1. Rotated \in Loose /\ SameTurn(Rotated, s)
      BY <1>1, LooseRotated
    <3>2. Closed(Rotated) \in Loose /\ SameTurn(Closed(Rotated), Rotated) /\ s' = Closed(Rotated)
      BY <1>5, <3>1, LooseClosed DEF CloseAndRotate
    <3> QED
      BY <3>1, <3>2 DEF SameTurn
  <2>2. TurnShape' /\ asked' = asked
    BY <1>1, <1>5, TurnSame DEF CloseAndRotate
  <2>3. PlaceShape' /\ permit' = permit
    BY <1>1, <1>5 DEF PlaceShape, CloseAndRotate, rotate_to_next_authorized_gate, outside
  <2> QED
    BY <1>1, <1>2, <1>5, <2>1, <2>2, <2>3, StepBase DEF CloseAndRotate, Points, Turning
<1>6. CASE SaveClosed
  BY <1>1, <1>2, <1>3, <1>6 DEF SaveClosed
<1>7. CASE CloseAndDisable
  <2>1. s.started \in BOOLEAN
    BY <1>1 DEF Loose
  <2>2. [Closed(s) EXCEPT !.follow = FALSE, !.started = s.started] \in Loose
        /\ SameTurn([Closed(s) EXCEPT !.follow = FALSE, !.started = s.started], s)
    <3>1. Closed(s) \in Loose /\ SameTurn(Closed(s), s)
      BY <1>1, LooseClosed
    <3>2. ASSUME NEW x \in Loose, NEW b \in BOOLEAN
          PROVE  [x EXCEPT !.follow = FALSE, !.started = b] \in Loose
                 /\ SameTurn([x EXCEPT !.follow = FALSE, !.started = b], x)
      BY DEF Loose, SameTurn
    <3> QED
      BY <2>1, <3>1, <3>2 DEF SameTurn
  <2>3. TurnShape' /\ asked' = asked
    BY <1>1, <1>7, TurnSame DEF CloseAndDisable
  <2>4. PlaceShape' /\ permit' = permit
    BY <1>1, <1>7 DEF PlaceShape, CloseAndDisable, trip_hard_disable, outside, past
  <2> QED
    BY <1>1, <1>2, <1>7, <2>2, <2>3, <2>4, StepBase DEF CloseAndDisable, trip_hard_disable, Points, Turning
<1>8. CASE KeepIdle
  BY <1>1, <1>2, <1>3, <1>8 DEF KeepIdle
<1>9. CASE SettleIdle
  BY <1>1, <1>3, <1>9, SettledBase DEF SettleIdle
<1> QED
  BY <1>4, <1>5, <1>6, <1>7, <1>8, <1>9 DEF Close

LEMMA CancelBase ==
  ASSUME Base, cancel_turn
  PROVE  Base'
<1>1. /\ Shape /\ Flow /\ s \in Loose /\ pc \in {"boundary", "recover"} /\ TurnShape /\ PlaceShape /\ Running
      /\ s.session # NoSession /\ permit.id \in Nat
  BY Parts DEF Base, cancel_turn, Running, Flow
<1>2. sessions' \in Seq(SessionRecord) /\ Len(sessions') = Len(sessions)
  <2>1. CASE Ended(s.session)
    BY <1>1, <2>1, SessionInHand, EndedShape
  <2> QED
    BY <1>1, <2>1, SessionsShape DEF cancel_turn
<1>3. TurnShape'
  BY <1>1, TurnCleared DEF cancel_turn
<1>4. PlaceShape' /\ permit' = permit
  BY <1>1 DEF PlaceShape, cancel_turn, outside
<1>5. Shape'
  BY <1>1, <1>2, <1>3, <1>4 DEF Shape, cancel_turn, Points
<1>6. Flow'
  BY <1>1, <1>2, <1>4 DEF Flow, cancel_turn, Running
<1> QED
  BY <1>5, <1>6 DEF Base

LEMMA AbortBase ==
  ASSUME Base, Abort
  PROVE  Base'
<1>1. Shape /\ Flow /\ st \in Loose /\ s \in Loose /\ TurnShape /\ PlaceShape /\ permit.id \in Nat
  BY Parts DEF Base
<1>2. SameTurn(s, s) /\ SameTurn(st, st)
  BY DEF SameTurn
<1>3. CASE Still /\ UNCHANGED sessions /\ pc \in Points \ {"loop", "stopped", "tools", "posted", "boundary", "recover", "created"}
           /\ pc' \in {"closure", "trip", "drop"} /\ (pc' # "trip" => pc \in Turning)
           /\ s' \in Loose /\ SameTurn(s', s) /\ st' \in {st, s'}
  <2>1. TurnShape' /\ PlaceShape' /\ asked' = asked /\ turnOutcome' = turnOutcome /\ permit' = permit
    BY <1>1, <1>3, StillSame
  <2>2. SameTurn(st', st) \/ SameTurn(st', s)
    BY <1>2, <1>3
  <2> QED
    BY <1>1, <1>2, <1>3, <2>1, <2>2, StepBase DEF Points, Turning, Running
<1>4. CASE settle_usage_after_abort
  <2>1. s' \in Loose /\ SameTurn(s', s)
    BY <1>1, <1>2, <1>4, SettledBase DEF settle_usage_after_abort
  <2> QED
    BY <1>3, <1>4, <2>1 DEF settle_usage_after_abort, Points, Turning
<1>5. CASE Trip
  <2>1. TurnShape' /\ asked' = asked
    BY <1>1, <1>5, TurnSame DEF Trip
  <2>2. PlaceShape' /\ permit' = permit
    BY <1>1, <1>5 DEF PlaceShape, Trip, trip_hard_disable, outside, past
  <2> QED
    BY <1>1, <1>2, <1>5, <2>1, <2>2, StepBase DEF Trip, trip_hard_disable, Points, Turning, Running
<1>6. CASE RecoverOutcome
  <2>1. turnOutcome' \in [nonce : Nat, gate : Nat, class : Classes \cup {"none"}] /\ turnOutcome'.nonce = s.nonce
    <3>1. s.nonce \in Nat /\ s.gate \in Nat
      BY <1>1, Parts
    <3> QED
      BY <1>6, <3>1 DEF RecoverOutcome, Classes
  <2>2. TurnShape' /\ asked' = asked
    BY <1>1, <1>6, <2>1 DEF TurnShape, RecoverOutcome, toolVars
  <2>3. PlaceShape' /\ permit' = permit
    BY <1>1, <1>6, PlaceSame DEF RecoverOutcome
  <2> QED
    BY <1>1, <1>2, <1>6, <2>1, <2>2, <2>3, StepBase DEF RecoverOutcome, Points, Turning, Running
<1>7. CASE RotateRecovered
  <2>1. s' \in Loose /\ SameTurn(s', s)
    BY <1>1, <1>7, LooseRotated DEF RotateRecovered
  <2>2. TurnShape' /\ asked' = asked
    BY <1>1, <1>7, TurnSame DEF RotateRecovered
  <2>3. PlaceShape' /\ permit' = permit
    BY <1>1, <1>7 DEF PlaceShape, RotateRecovered, rotate_to_next_authorized_gate, outside
  <2> QED
    BY <1>1, <1>2, <1>7, <2>1, <2>2, <2>3, StepBase DEF RotateRecovered, Points, Turning, Running
<1>8. CASE NotRotated
  <2>1. s' \in Loose /\ SameTurn(s', s)
    BY <1>1, <1>8, LooseFollow DEF NotRotated
  <2> QED
    BY <1>3, <1>8, <2>1 DEF NotRotated, Points, Turning
<1>9. CASE DropSession
  <2>1. TurnShape' /\ PlaceShape' /\ asked' = asked /\ turnOutcome' = turnOutcome /\ permit' = permit
    BY <1>1, <1>9, StillSame DEF DropSession
  <2>2. st' \in Loose /\ st'.permit = s.permit /\ st'.session = NoSession
    BY <1>1, <1>9 DEF DropSession, Loose, NoSession
  <2>3. Shape'
    BY <1>1, <1>9, <2>1, <2>2, ShapeStep DEF DropSession, Points
  <2>4. asked = <<>> /\ s.permit = permit.id /\ Len(sessions) \in Nat
    BY <1>1, <1>9, SessionsShape DEF DropSession, Flow, Running
  <2>5. Flow'
    BY <1>1, <1>9, <2>1, <2>2, <2>4 DEF DropSession, Flow, Running, NoSession
  <2> QED
    BY <2>3, <2>5 DEF Base
<1> QED
  BY <1>4, <1>5, <1>6, <1>7, <1>8, <1>9, CancelBase DEF Abort

Counted(x, n1, n2, n3) == [x EXCEPT !.submits = n1, !.total = n2, !.autonomous = n3]
Begun(x, n1, n2, t) ==
    [x EXCEPT !.nonce = n1, !.gate = n2, !.awaiting = TRUE, !.follow = FALSE,
              !.event = FALSE, !.started = TRUE, !.trigger = t, !.tools = NoTools]
Reserved(x, n1, n2) == [x EXCEPT !.live = TRUE, !.reserved = n1, !.dayReserved = n2]

LEMMA LooseBegun ==
  ASSUME NEW x \in Loose, NEW n1 \in Nat, NEW n2 \in Nat, NEW t \in {"none", "user", "event", "initial", "step"}
  PROVE  /\ Begun(x, n1, n2, t) \in Loose
         /\ Begun(x, n1, n2, t).permit = x.permit /\ Begun(x, n1, n2, t).session = x.session
<1>1. NoTools \in LooseTools
  BY FreshShape
<1> QED
  BY <1>1 DEF Loose, Begun

LEMMA LooseReserved ==
  ASSUME NEW x \in Loose
  PROVE  Reserve(x) \in Loose /\ SameTurn(Reserve(x), x)
<1>1. x.reserved + Reservation \in Nat /\ x.dayReserved + Reservation \in Nat
  BY PermitAssumption DEF Loose
<1>2. ASSUME NEW n1 \in Nat, NEW n2 \in Nat
      PROVE  Reserved(x, n1, n2) \in Loose /\ SameTurn(Reserved(x, n1, n2), x)
  BY DEF Loose, SameTurn, Reserved
<1>3. Reserve(x) = Reserved(x, x.reserved + Reservation, x.dayReserved + Reservation)
  BY DEF Reserve, Reserved
<1> QED
  BY <1>1, <1>2, <1>3

LEMMA DeliveredShape ==
  ASSUME Base, Running, Delivered
  PROVE  /\ sessions' \in Seq(SessionRecord)
         /\ Len(sessions') = IF NewSession THEN Len(sessions) + 1 ELSE Len(sessions)
         /\ \A k \in 1..Len(sessions) : sessions'[k].permit = sessions[k].permit
         /\ NewSession => sessions'[Len(sessions) + 1].permit = s.permit
<1>1. Shape /\ sessions \in Seq(SessionRecord) /\ Len(sessions) \in Nat /\ s.session \in Nat
  BY SessionsShape, Parts DEF Base
<1>2. CASE NewSession
  <2>1. Session \in SessionRecord /\ Session.permit = s.permit
    BY <1>1, Parts DEF Session, SessionRecord
  <2> QED
    BY <1>1, <1>2, <2>1, AppendProperties DEF Delivered
<1>3. CASE ~NewSession
  <2>1. s.session \in 1..Len(sessions) /\ sessions[s.session] \in SessionRecord
    BY <1>1, <1>3, SessionInHand, SessionsShape DEF NewSession
  <2>2. /\ [sessions[s.session] EXCEPT !.open = TRUE] \in SessionRecord
        /\ [sessions[s.session] EXCEPT !.open = TRUE].permit = sessions[s.session].permit
    BY <2>1 DEF SessionRecord
  <2>3. sessions' = [sessions EXCEPT ![s.session] = [sessions[s.session] EXCEPT !.open = TRUE]]
    BY <1>3 DEF Delivered
  <2> QED
    BY <1>1, <1>3, <2>1, <2>2, <2>3, ExceptSeq
<1> QED
  BY <1>2, <1>3

LEMMA BeginBase ==
  ASSUME Base, Begin
  PROVE  Base'
<1>1. /\ Shape /\ Flow /\ st \in Loose /\ s \in Loose /\ TurnShape /\ PlaceShape /\ permit.id \in Nat
      /\ Running /\ pc = "submit" /\ lock \in Nat /\ today \in Nat /\ Len(sessions) \in Nat
  BY Parts, SessionsShape DEF Base, Begin, Running
<1>2. Rolled \in Loose /\ Rolled.permit = s.permit /\ Rolled.session = s.session
  BY <1>1, RefreshShape DEF Rolled
<1> DEFINE y == Begun(Rolled, Rolled.nonce + 1, lock, Trigger)
<1>3. Rolled.nonce + 1 \in Nat /\ Trigger \in {"none", "user", "event", "initial", "step"}
  BY <1>2 DEF Loose, Trigger
<1>4. s' = Reserve(y)
  BY DEF Begin, Begun
<1>5. y \in Loose /\ y.permit = s.permit /\ y.session = s.session
  <2>1. \A n1, n2 \in Nat, t \in {"none", "user", "event", "initial", "step"} :
           Begun(Rolled, n1, n2, t) \in Loose /\ Begun(Rolled, n1, n2, t).permit = Rolled.permit
           /\ Begun(Rolled, n1, n2, t).session = Rolled.session
    BY <1>2, LooseBegun
  <2> QED
    BY <1>1, <1>2, <1>3, <2>1
<1> HIDE DEF y
<1>6. s' \in Loose /\ s'.permit = s.permit /\ s'.session = s.session /\ st' = s'
  BY <1>4, <1>5, LooseReserved DEF SameTurn, Begin
<1>7. NoOutcome \in [nonce : Nat, gate : Nat, class : Classes \cup {"none"}]
  BY DEF NoOutcome
<1>8. TurnShape'
  BY <1>1, <1>7 DEF TurnShape, Begin
<1>9. PlaceShape' /\ permit' = permit
  BY <1>1, PlaceSame DEF Begin
<1>10. Shape'
  BY <1>1, <1>6, <1>8, <1>9, ShapeStep DEF Begin, Points
<1>11. asked = <<>> /\ s.permit = permit.id /\ s.session <= Len(sessions)
  BY <1>1 DEF Flow
<1>12. Flow'
  BY <1>1, <1>6, <1>9, <1>11 DEF Flow, Running, Begin
<1> QED
  BY <1>10, <1>12 DEF Base

Created(x, n) == [x EXCEPT !.session = n, !.accounted = 0, !.submits = 0]

LEMMA LooseCreated ==
  ASSUME NEW x \in Loose, NEW n \in Nat
  PROVE  /\ Created(x, n) \in Loose /\ Created(x, n).permit = x.permit /\ Created(x, n).session = n
         /\ Created(x, n).nonce = x.nonce /\ Created(x, n).gate = x.gate
BY DEF Loose, Created

LEMMA SendBase ==
  ASSUME Base, create_session_with_input \/ send_prepared_input \/ SubmissionUnknown
  PROVE  Base'
<1>1. /\ Shape /\ Flow /\ st \in Loose /\ s \in Loose /\ TurnShape /\ PlaceShape /\ permit.id \in Nat
      /\ Running /\ pc = "send" /\ Len(sessions) \in Nat /\ sent.permit \in Nat /\ sent.day \in Nat
  BY Parts, SessionsShape DEF Base, create_session_with_input, send_prepared_input, SubmissionUnknown, Running
<1>2. /\ sessions' \in Seq(SessionRecord)
      /\ Len(sessions') \in {Len(sessions), Len(sessions) + 1}
  BY <1>1, DeliveredShape, SessionsShape DEF create_session_with_input, send_prepared_input, SubmissionUnknown
<1>3. asked = <<>> /\ s.permit = permit.id /\ st.permit = permit.id /\ s.session <= Len(sessions)
      /\ st.session <= Len(sessions) /\ s.nonce = st.nonce /\ s.gate = st.gate
      /\ s.session \in Nat /\ st.session \in Nat
  BY <1>1, Parts DEF Flow
<1>a. st.session <= Len(sessions') /\ s.session <= Len(sessions') /\ Len(sessions') \in Nat
  BY <1>1, <1>2, <1>3
<1>4. TurnShape' /\ asked' = asked
  BY <1>1, TurnSame DEF create_session_with_input, send_prepared_input, SubmissionUnknown
<1>5. PlaceShape' /\ permit' = permit
  <2>1. sent' \in [permit : Nat, day : Nat]
    BY <1>1 DEF create_session_with_input, send_prepared_input, SubmissionUnknown, Delivered, PlaceShape
  <2> QED
    BY <1>1, <2>1 DEF PlaceShape, create_session_with_input, send_prepared_input, SubmissionUnknown,
       trip_hard_disable, outside
<1>6. CASE create_session_with_input
  <2>1. Len(sessions') = Len(sessions) + 1
    BY <1>1, <1>6, DeliveredShape DEF create_session_with_input
  <2>2. s' = Created(s, Len(sessions')) /\ st' = st /\ pc' = "created"
    BY <1>6 DEF create_session_with_input, Created
  <2>3. /\ s' \in Loose /\ s'.permit = s.permit /\ s'.session = Len(sessions') /\ s'.nonce = s.nonce
        /\ s'.gate = s.gate
    BY <1>1, <1>a, <2>2, LooseCreated
  <2>4. Shape'
    BY <1>1, <1>2, <1>4, <1>5, <2>2, <2>3 DEF Shape, Points
  <2>5. Flow'
    BY <1>1, <1>3, <1>4, <1>5, <1>a, <2>2, <2>3 DEF Flow, Running
  <2> QED
    BY <2>4, <2>5 DEF Base
<1>7. CASE send_prepared_input
  <2>1. Shape'
    BY <1>1, <1>2, <1>4, <1>5, <1>7 DEF Shape, Points, send_prepared_input
  <2>2. Flow'
    BY <1>1, <1>a, <1>3, <1>4, <1>5, <1>7 DEF Flow, Running, send_prepared_input
  <2> QED
    BY <2>1, <2>2 DEF Base
<1>8. CASE SubmissionUnknown
  <2>1. Shape'
    BY <1>1, <1>2, <1>4, <1>5, <1>8 DEF Shape, Points, SubmissionUnknown, trip_hard_disable
  <2>2. Flow'
    BY <1>1, <1>a, <1>3, <1>4, <1>5, <1>8 DEF Flow, Running, SubmissionUnknown, trip_hard_disable
  <2> QED
    BY <2>1, <2>2 DEF Base
<1> QED
  BY <1>6, <1>7, <1>8

LEMMA SubmitBase ==
  ASSUME Base, Submit
  PROVE  Base'
<1>1. Shape /\ Flow /\ st \in Loose /\ s \in Loose /\ TurnShape /\ PlaceShape /\ permit.id \in Nat /\ today \in Nat
  BY Parts DEF Base
<1>2. SameTurn(s, s) /\ SameTurn(st, st)
  BY DEF SameTurn
<1>3. CASE background_event
  <2>1. s' \in Loose /\ SameTurn(s', s) /\ st' = s'
    BY <1>1, <1>3 DEF background_event, Loose, SameTurn
  <2>2. TurnShape' /\ asked' = asked
    BY <1>1, <1>3, TurnSame DEF background_event
  <2>3. PlaceShape' /\ permit' = permit
    <3>1. left' \in [batches : SUBSET (Seq(Kinds) \ {<<>>}), deaths : Nat, permits : Nat, days : Nat, events : Nat]
      <4>1. left \in [batches : SUBSET (Seq(Kinds) \ {<<>>}), deaths : Nat, permits : Nat, days : Nat, events : Nat]
            /\ left.events \in Nat /\ left.events > 0 /\ left' = [left EXCEPT !.events = left.events - 1]
        BY <1>1, <1>3 DEF PlaceShape, background_event
      <4>2. left.events - 1 \in Nat
        BY <4>1
      <4> QED
        BY <4>1, <4>2
    <3> QED
      BY <1>1, <1>3, <3>1 DEF PlaceShape, background_event, past
  <2> QED
    BY <1>1, <1>3, <2>1, <2>2, <2>3, StepBase DEF background_event, Points, Turning, Running
<1>4. CASE Sleep
  <2>1. Rolled \in Loose /\ SameTurn(Rolled, s)
    BY <1>1, RefreshShape DEF Rolled, SameTurn
  <2>2. TurnShape' /\ PlaceShape' /\ asked' = asked /\ permit' = permit
    BY <1>1, <1>4, StillSame DEF Sleep
  <2> QED
    BY <1>1, <1>2, <1>4, <2>1, <2>2, StepBase DEF Sleep, Points, Turning, Running
<1>5. CASE Exhausted
  <2>1. st' \in Loose /\ SameTurn(st', s)
    <3>1. (s.follow /\ work_permit_budget_status(s, inbox)) \in BOOLEAN
      BY <1>1 DEF Loose, PlaceShape, work_permit_budget_status
    <3>2. st' = [s EXCEPT !.follow = s.follow /\ work_permit_budget_status(s, inbox)]
      BY <1>5 DEF Exhausted
    <3> QED
      BY <1>1, <3>1, <3>2, LooseFollow
  <2>2. TurnShape' /\ asked' = asked
    BY <1>1, <1>5, TurnSame DEF Exhausted
  <2>3. PlaceShape' /\ permit' = permit
    BY <1>1, <1>5 DEF PlaceShape, Exhausted, trip_hard_disable, outside, past
  <2> QED
    BY <1>1, <1>2, <1>5, <2>1, <2>2, <2>3, StepBase DEF Exhausted, trip_hard_disable, Points, Turning, Running
<1>6. CASE _commit_prepared_input
  <2>1. s' \in Loose /\ SameTurn(s', s)
    <3>1. (s.initial \/ s.trigger = "initial") \in BOOLEAN
      BY <1>1 DEF Loose
    <3>2. ASSUME NEW b \in BOOLEAN
          PROVE  [s EXCEPT !.initial = b] \in Loose /\ SameTurn([s EXCEPT !.initial = b], s)
      BY <1>1 DEF Loose, SameTurn
    <3>3. s' = [s EXCEPT !.initial = s.initial \/ s.trigger = "initial"]
      BY <1>6 DEF _commit_prepared_input
    <3> QED
      BY <3>1, <3>2, <3>3
  <2>2. TurnShape' /\ asked' = asked
    BY <1>1, <1>6, TurnSame DEF _commit_prepared_input
  <2>3. PlaceShape' /\ permit' = permit
    BY <1>1, <1>6 DEF PlaceShape, _commit_prepared_input, outside, past
  <2>4. st' \in Loose /\ (SameTurn(st', st) \/ SameTurn(st', s)) /\ (pc = "created" => SameTurn(st', s))
    BY <1>1, <1>2, <1>6, <2>1 DEF _commit_prepared_input
  <2> QED
    BY <1>1, <1>6, <2>1, <2>2, <2>3, <2>4, StepBase DEF _commit_prepared_input, Points, Turning, Running
<1>7. CASE record_model_submit
  <2>1. s' \in Loose /\ SameTurn(s', s)
    <3>1. s.submits + 1 \in Nat /\ s.total + 1 \in Nat /\ s.autonomous + (IF s.trigger = "user" THEN 0 ELSE 1) \in Nat
      BY <1>1 DEF Loose
    <3>2. ASSUME NEW n1 \in Nat, NEW n2 \in Nat, NEW n3 \in Nat
          PROVE  Counted(s, n1, n2, n3) \in Loose /\ SameTurn(Counted(s, n1, n2, n3), s)
      BY <1>1 DEF Loose, SameTurn, Counted
    <3>3. s' = Counted(s, s.submits + 1, s.total + 1, s.autonomous + (IF s.trigger = "user" THEN 0 ELSE 1))
      BY <1>7 DEF record_model_submit, Counted
    <3> QED
      BY <3>1, <3>2, <3>3
  <2>2. TurnShape' /\ PlaceShape' /\ asked' = asked /\ permit' = permit
    BY <1>1, <1>7, StillSame DEF record_model_submit
  <2> QED
    BY <1>1, <1>7, <2>1, <2>2, StepBase DEF record_model_submit, Points, Turning, Running
<1> QED
  BY <1>3, <1>4, <1>5, <1>6, <1>7, BeginBase, SendBase DEF Submit

LEMMA OutsideBase ==
  ASSUME Base, PermitInvalid \/ Die \/ Outside
  PROVE  Base'
<1>1. Shape /\ Flow /\ st \in Loose /\ s \in Loose /\ TurnShape /\ PlaceShape /\ permit.id \in Nat /\ today \in Nat
      /\ st.permit \in Nat /\ lock \in Nat /\ pc \in Points
  BY Parts DEF Base
<1> DEFINE Left == [batches : SUBSET (Seq(Kinds) \ {<<>>}), deaths : Nat, permits : Nat, days : Nat, events : Nat]
<1>2. left \in Left /\ left.deaths \in Nat /\ left.permits \in Nat /\ left.days \in Nat /\ left.events \in Nat
  BY <1>1 DEF PlaceShape
<1>3. ASSUME NEW n \in Nat
      PROVE  /\ [left EXCEPT !.events = n] \in Left /\ [left EXCEPT !.deaths = n] \in Left
             /\ [left EXCEPT !.permits = n] \in Left /\ [left EXCEPT !.days = n] \in Left
  BY <1>2
<1>4. left' \in Left
  BY <1>2, <1>3 DEF PermitInvalid, Die, Outside, Issue, Midnight, UserWrites
<1> HIDE DEF Left
<1>5. CASE PermitInvalid
  <2>1. TurnShape' /\ asked' = asked
    BY <1>1, <1>5, TurnSame DEF PermitInvalid
  <2>2. PlaceShape' /\ permit' = permit
    BY <1>1, <1>4, <1>5 DEF PlaceShape, PermitInvalid, trip_hard_disable, past, Left
  <2>3. Shape'
    BY <1>1, <1>5, <2>1, <2>2, ShapeStep DEF PermitInvalid, trip_hard_disable, Points
  <2>4. Flow'
    BY <1>1, <1>5, <2>1, <2>2 DEF Flow, Running, PermitInvalid, trip_hard_disable
  <2> QED
    BY <2>3, <2>4 DEF Base
<1>6. CASE Die
  <2>1. c' \in [at : Nat, tools : LooseTools, output : Outputs]
    BY <1>6, FreshShape DEF NoCall, Outputs, Die
  <2>2. torn' \in BOOLEAN /\ unsure' \in BOOLEAN /\ crashed' \in BOOLEAN
    BY <1>1, <1>6 DEF TurnShape, PlaceShape, Die
  <2>3. TurnShape'
    BY <1>1, <1>6, <2>1, <2>2 DEF TurnShape, Die
  <2>4. PlaceShape'
    BY <1>1, <1>4, <1>6, <2>2 DEF PlaceShape, Die, Left
  <2>5. Shape'
    BY <1>1, <1>6, <2>3, <2>4, ShapeStep, FreshShape DEF Die, Points
  <2>6. asked # <<>> => st.session # NoSession
    BY <1>1, <1>6 DEF Flow, Die, Running
  <2>7. Flow'
    BY <1>1, <1>6, <2>6 DEF Flow, Running, Die
  <2> QED
    BY <2>5, <2>7 DEF Base
<1>7. CASE Outside
  <2>1. TurnShape' /\ asked' = asked
    BY <1>1, <1>7, TurnSame DEF Outside
  <2>2. permit' = permit \/ permit' = [id |-> permit.id + 1, base |-> lock]
    BY <1>7 DEF Outside, Issue, Midnight, UserWrites
  <2>3. permit' \in [id : Nat, base : Nat] /\ permit'.id >= permit.id
    BY <1>1, <2>2 DEF PlaceShape
  <2>4. today' \in Nat /\ inbox' \in BOOLEAN /\ sent' \in [permit : Nat, day : Nat]
    <3>1. today \in Nat /\ inbox \in BOOLEAN /\ sent \in [permit : Nat, day : Nat]
      BY <1>1 DEF PlaceShape
    <3>2. [sent EXCEPT !.day = 0] \in [permit : Nat, day : Nat] /\ today + 1 \in Nat
      BY <3>1
    <3> QED
      BY <1>7, <3>1, <3>2 DEF Outside, Issue, Midnight, UserWrites
  <2>5. PlaceShape'
    BY <1>1, <1>4, <1>7, <2>3, <2>4 DEF PlaceShape, Outside, Left
  <2>6. Shape'
    BY <1>1, <1>7, <2>1, <2>5, ShapeStep DEF Outside
  <2>7. permit'.id \in Nat
    BY <2>3
  <2>8. Flow'
    BY <1>1, <1>7, <2>1, <2>3, <2>7 DEF Flow, Running, Outside
  <2> QED
    BY <2>6, <2>8 DEF Base
<1> QED
  BY <1>5, <1>6, <1>7

LEMMA SameBase ==
  ASSUME Base, UNCHANGED vars
  PROVE  Base'
BY DEF Base, Shape, Flow, TurnShape, PlaceShape, Running, vars, toolVars, outside, past

LEMMA BaseInit == Init => Base
<1> SUFFICES ASSUME Init PROVE Base
  OBVIOUS
<1>1. Fresh \in Loose /\ NoTools \in LooseTools /\ Fresh.session = 0 /\ Fresh.permit = 0
  BY FreshShape
<1>2. st \in Loose /\ s \in Loose /\ st.permit = 1 /\ st.session = 0
  BY <1>1 DEF Init, Loose, Fresh
<1>3. <<>> \in Seq(Kinds) /\ DOMAIN <<>> = {} /\ <<>> \in Seq(SessionRecord) /\ Len(sessions) = 0
  BY EmptySeq DEF Init
<1>4. <<>> \in [{} -> Outputs] /\ <<>> \in [{} -> Nat]
  BY <1>3
<1>5. turnOutcome \in [nonce : Nat, gate : Nat, class : Classes \cup {"none"}]
      /\ c \in [at : Nat, tools : LooseTools, output : Outputs]
  BY <1>1 DEF Init, NoOutcome, NoCall, Outputs
<1>6. TurnShape
  BY <1>3, <1>4, <1>5 DEF TurnShape, Init
<1>7. left \in [batches : SUBSET (Seq(Kinds) \ {<<>>}), deaths : Nat, permits : Nat, days : Nat, events : Nat]
  BY BatchAssumption DEF Init
<1>8. PlaceShape
  BY <1>7 DEF PlaceShape, Init
<1>9. Shape
  BY <1>2, <1>3, <1>6, <1>8 DEF Shape, Init, Points
<1>10. Flow
  BY <1>2, <1>3 DEF Flow, Init, Running
<1> QED
  BY <1>9, <1>10 DEF Base

LEMMA BaseNext ==
  ASSUME Base, [Next]_vars
  PROVE  Base'
BY AdoptBase, FindBase, ToolsBase, CloseBase, AbortBase, SubmitBase, OutsideBase, SameBase
   DEF Next, main, Stopped

-----------------------------------------------------------------------------
(* The tool calls of a turn.                                                 *)

LEMMA CapsAreNat ==
  /\ MaxCalls \in Nat /\ MaxRounds \in Nat /\ MaxRecon \in Nat /\ MaxDenials \in Nat
  /\ MaxVerification \in Nat /\ MaxEffects \in Nat
BY BudgetAssumption

LEMMA RangeParts ==
  ASSUME NEW t \in ToolsRange
  PROVE  /\ t.calls \in Nat /\ t.rounds \in Nat /\ t.effects \in Nat /\ t.recon \in Nat
         /\ t.verification \in Nat /\ t.denials \in Nat
         /\ t.only \in BOOLEAN /\ t.denied \in BOOLEAN /\ t.grace \in BOOLEAN
<1>1. /\ t.calls \in 0..MaxCalls /\ t.rounds \in 0..MaxRounds /\ t.effects \in 0..MaxEffects
      /\ t.recon \in 0..MaxRecon /\ t.verification \in 0..MaxVerification /\ t.denials \in 0..MaxDenials
      /\ t.only \in BOOLEAN /\ t.denied \in BOOLEAN /\ t.grace \in BOOLEAN
  BY DEF ToolsRange
<1> QED
  BY <1>1, CapsAreNat

\* What an update of STATE leaves alone unless it says so.
SamePurse(y, x) ==
    /\ y.live = x.live /\ y.actual = x.actual /\ y.reserved = x.reserved
    /\ y.day = x.day /\ y.dayActual = x.dayActual /\ y.dayReserved = x.dayReserved
SameCount(y, x) == y.submits = x.submits /\ y.total = x.total /\ y.autonomous = x.autonomous
Near(y, x) == SameTurn(y, x) /\ SameCount(y, x) /\ y.tools = x.tools /\ (y.awaiting => x.awaiting)

Alike(y, x) == Near(y, x) /\ SamePurse(y, x) /\ y.rotations = x.rotations

LEMMA AlikeTrans ==
  /\ \A x : Alike(x, x) /\ Near(x, x)
  /\ \A x, y, z : Alike(x, y) /\ Alike(y, z) => Alike(x, z)
  /\ \A x, y : Alike(x, y) => Near(x, y)
BY DEF Alike, Near, SameTurn, SameCount, SamePurse

LEMMA AlikeFollow ==
  ASSUME NEW x \in Loose, NEW b \in BOOLEAN
  PROVE  Alike([x EXCEPT !.follow = b], x)
BY DEF Loose, Alike, Near, SamePurse, SameTurn, SameCount

LEMMA AlikeEvent ==
  ASSUME NEW x \in Loose, NEW b \in BOOLEAN, NEW d \in BOOLEAN
  PROVE  Alike([x EXCEPT !.follow = b, !.event = d], x)
BY DEF Loose, Alike, Near, SamePurse, SameTurn, SameCount

LEMMA AlikeInitial ==
  ASSUME NEW x \in Loose, NEW b \in BOOLEAN
  PROVE  Alike([x EXCEPT !.initial = b], x)
BY DEF Loose, Alike, Near, SamePurse, SameTurn, SameCount

LEMMA AlikeStarted ==
  ASSUME NEW x \in Loose, NEW b \in BOOLEAN, NEW d \in BOOLEAN
  PROVE  Alike([x EXCEPT !.follow = b, !.started = d], x)
BY DEF Loose, Alike, Near, SamePurse, SameTurn, SameCount

LEMMA AlikeClosed ==
  ASSUME NEW x \in Loose
  PROVE  Alike(Closed(x), x) /\ ~Closed(x).awaiting
BY DEF Loose, Alike, Near, SamePurse, SameTurn, SameCount, Closed

LEMMA NearRotated ==
  ASSUME s \in Loose
  PROVE  Near(Rotated, s) /\ SamePurse(Rotated, s) /\ Rotated.rotations = s.rotations + 1
BY DEF Loose, Near, SamePurse, SameTurn, SameCount, Rotated

LEMMA NearRefresh ==
  ASSUME NEW x \in Loose, today \in Nat, NEW y, y = refresh_budget_state(x)
  PROVE  /\ Near(y, x) /\ y.rotations = x.rotations
         /\ y.live = x.live /\ y.actual = x.actual /\ y.reserved = x.reserved
         /\ y.awaiting = x.awaiting
<1>1. CASE x.day = today \/ x.live
  <2>1. y = x
    BY <1>1 DEF refresh_budget_state
  <2> QED
    BY <2>1 DEF Near, SameTurn, SameCount
<1>2. CASE ~(x.day = today \/ x.live)
  <2>1. y = [x EXCEPT !.day = today, !.dayActual = 0, !.dayReserved = 0]
    BY <1>2 DEF refresh_budget_state
  <2> QED
    BY <2>1 DEF Loose, Near, SameTurn, SameCount
<1> QED
  BY <1>1, <1>2

LEMMA NearCharge ==
  ASSUME NEW x \in Loose, NEW delta \in Nat
  PROVE  Near(Charge(x, delta), x) /\ Charge(x, delta).rotations = x.rotations
<1>1. ASSUME NEW n1 \in Nat, NEW n2 \in Nat, NEW n3 \in Nat, NEW n4 \in Nat
      PROVE  Near(Charged(x, n1, n2, n3, n4), x) /\ Charged(x, n1, n2, n3, n4).rotations = x.rotations
  BY DEF Loose, Charged, Near, SameTurn, SameCount
<1>2. x.actual \in Nat /\ x.dayActual \in Nat /\ x.reserved \in Nat /\ x.dayReserved \in Nat
  BY DEF Loose
<1>3. x.actual + delta \in Nat /\ x.dayActual + delta \in Nat /\ Less(x.reserved) \in Nat /\ Less(x.dayReserved) \in Nat
  BY <1>2, PermitAssumption DEF Less
<1> DEFINE z == Charged(x, x.actual + delta, x.dayActual + delta, Less(x.reserved), Less(x.dayReserved))
<1>4. Near(z, x) /\ z.rotations = x.rotations
  BY <1>1, <1>3
<1>5. Charge(x, delta) = z
  BY ChargeShape
<1> HIDE DEF z
<1> QED
  BY <1>4, <1>5

LEMMA NearSettle ==
  ASSUME NEW x \in Loose, NEW reported \in Nat, NEW waited, settle_session_usage(x, reported, waited)
  PROVE  Near(s', x) /\ s'.rotations = x.rotations
<1> DEFINE delta == Delta(x, reported)
           y == [x EXCEPT !.accounted = @ + delta]
<1>1. x.accounted \in Nat /\ delta \in Nat
  BY PermitAssumption DEF Loose, Delta
<1> HIDE DEF delta
<1>2. y \in Loose /\ Near(y, x) /\ y.rotations = x.rotations
  BY <1>1 DEF Loose, Near, SameTurn, SameCount
<1>3. s' = Charge(y, delta)
  BY DEF settle_session_usage, Delta, delta
<1> HIDE DEF y
<1>4. Near(s', y) /\ s'.rotations = y.rotations
  BY <1>1, <1>2, <1>3, NearCharge
<1> QED
  BY <1>2, <1>4 DEF Near, SameTurn, SameCount

AlikeStep == Alike(s', s) /\ (Alike(st', st) \/ Alike(st', s))
RotateStep == /\ Near(s', s) /\ SamePurse(s', s) /\ s'.rotations = s.rotations + 1
              /\ rotate_to_next_authorized_gate(turnOutcome) /\ GateIsCurrent(turnOutcome)
              /\ turnOutcome.nonce = s.nonce /\ st' = st
SettleStep == /\ s.live /\ Near(s', s) /\ s'.rotations = s.rotations /\ st' = s'
              /\ \E reported \in Nat, waited \in BOOLEAN : settle_session_usage(s, reported, waited)
RollStep == s' = s /\ st' = Rolled /\ Near(Rolled, s) /\ Rolled.rotations = s.rotations
NearStep == Near(s', s) /\ (Near(st', st) \/ Near(st', s))

LEMMA StepsAreNear == AlikeStep \/ RotateStep \/ SettleStep \/ RollStep => NearStep
BY AlikeTrans DEF AlikeStep, RotateStep, SettleStep, RollStep, NearStep

\* The steps between two looks at the session that keep the turn as it is.
LEMMA CloseNear ==
  ASSUME Base, Close
  PROVE  /\ RotateStep \/ ((AlikeStep \/ SettleStep) /\ lock' = lock /\ moved' = moved)
         /\ NearStep /\ UNCHANGED <<toolVars, torn, sessions, unsure, sent, permit, today>>
         /\ pc \in {"idle", "closed"} /\ pc' \in {"idle", "closed", "submit", "trip", "stopped"}
<1>1. s \in Loose /\ st \in Loose /\ Shape
  BY Parts DEF Base
<1>2. /\ UNCHANGED <<toolVars, torn, sessions, unsure, sent, permit, today>>
      /\ pc \in {"idle", "closed"} /\ pc' \in {"idle", "closed", "submit", "trip", "stopped"}
      /\ CloseAndRotate \/ UNCHANGED <<lock, moved>>
  BY DEF Close, CloseAndHold, CloseAndFollow, CloseAndRotate, SaveClosed, CloseAndDisable, KeepIdle,
     SettleIdle, Closing, Still, past, outside, trip_hard_disable
<1>3. Closed(s) \in Loose /\ Alike(Closed(s), s)
  BY <1>1, LooseClosed, AlikeClosed
<1>4. CASE CloseAndHold \/ CloseAndFollow
  <2>1. PICK b \in BOOLEAN : s' = [Closed(s) EXCEPT !.follow = b]
    BY <1>4 DEF CloseAndHold, CloseAndFollow
  <2>2. Alike(s', Closed(s)) /\ st' = s' /\ UNCHANGED <<lock, moved>>
    BY <1>3, <1>4, <2>1, AlikeFollow DEF CloseAndHold, CloseAndFollow, Still, past
  <2>3. AlikeStep
    BY <1>3, <2>2, AlikeTrans DEF AlikeStep
  <2> QED
    BY <1>2, <2>2, <2>3, StepsAreNear
<1>5. CASE CloseAndRotate
  <2>1. Rotated \in Loose /\ Near(Rotated, s) /\ SamePurse(Rotated, s) /\ Rotated.rotations = s.rotations + 1
    BY <1>1, LooseRotated, NearRotated
  <2>2. Alike(Closed(Rotated), Rotated) /\ s' = Closed(Rotated) /\ st' = st
    BY <1>5, <2>1, AlikeClosed DEF CloseAndRotate
  <2>3. Near(s', s) /\ SamePurse(s', s) /\ s'.rotations = s.rotations + 1
    BY <2>1, <2>2 DEF Alike, Near, SameTurn, SameCount, SamePurse
  <2>4. RotateStep
    BY <1>5, <2>2, <2>3 DEF RotateStep, CloseAndRotate, terminal_outcome_allows_rotation, read_turn_outcome
  <2> QED
    BY <1>2, <2>4, StepsAreNear
<1>6. CASE SaveClosed \/ KeepIdle
  <2>1. AlikeStep /\ UNCHANGED <<lock, moved>>
    BY <1>6, AlikeTrans DEF AlikeStep, SaveClosed, KeepIdle, Still, past
  <2> QED
    BY <1>2, <2>1, StepsAreNear
<1>7. CASE CloseAndDisable
  <2>1. s.started \in BOOLEAN
    BY <1>1 DEF Loose
  <2>2. Alike([Closed(s) EXCEPT !.follow = FALSE, !.started = s.started], Closed(s))
    BY <1>3, <2>1, AlikeStarted
  <2>3. st' = [Closed(s) EXCEPT !.follow = FALSE, !.started = s.started] /\ s' = s /\ UNCHANGED <<lock, moved>>
    BY <1>7 DEF CloseAndDisable, past
  <2>4. AlikeStep
    BY <1>3, <2>2, <2>3, AlikeTrans DEF AlikeStep
  <2> QED
    BY <1>2, <2>3, <2>4, StepsAreNear
<1>8. CASE SettleIdle
  <2>1. PICK reported \in 0..sessions[s.session].used, waited \in BOOLEAN : settle_session_usage(s, reported, waited)
    BY <1>8 DEF SettleIdle
  <2>2. Near(s', s) /\ s'.rotations = s.rotations /\ st' = s' /\ reported \in Nat /\ UNCHANGED <<lock, moved>> /\ s.live
    BY <1>1, <1>8, <2>1, SettledBase, NearSettle DEF SettleIdle, Still, past
  <2>3. SettleStep
    BY <2>1, <2>2 DEF SettleStep
  <2> QED
    BY <1>2, <2>2, <2>3, StepsAreNear
<1> QED
  BY <1>4, <1>5, <1>6, <1>7, <1>8 DEF Close

LEMMA AbortNear ==
  ASSUME Base, Abort, ~DropSession
  PROVE  /\ RotateStep \/ ((AlikeStep \/ SettleStep) /\ lock' = lock /\ moved' = moved)
         /\ NearStep /\ UNCHANGED <<c, posts, told, torn, sent, permit, today>>
         /\ UNCHANGED <<asked, results, ran>> \/ asked' = <<>>
         /\ pc \in {"boundary", "recover", "settle", "trip", "closure", "recovered"}
         /\ pc' \in {"settle", "closure", "trip", "stopped", "recovered", "drop"}
<1>1. s \in Loose /\ st \in Loose /\ Shape
  BY Parts DEF Base
<1>2. /\ UNCHANGED <<c, posts, told, torn, sent, permit, today>> /\ (UNCHANGED <<asked, results, ran>> \/ asked' = <<>>)
      /\ pc \in {"boundary", "recover", "settle", "trip", "closure", "recovered"}
      /\ pc' \in {"settle", "closure", "trip", "stopped", "recovered", "drop"}
      /\ RotateRecovered \/ UNCHANGED <<lock, moved>>
  BY DEF Abort, cancel_turn, settle_usage_after_abort, Trip, RecoverOutcome, RotateRecovered, NotRotated,
     trip_hard_disable, Still, past, outside, toolVars
<1>3. CASE cancel_turn \/ Trip \/ RecoverOutcome
  <2>1. AlikeStep /\ UNCHANGED <<lock, moved>>
    BY <1>3, AlikeTrans DEF cancel_turn, Trip, RecoverOutcome, AlikeStep, past
  <2> QED
    BY <1>2, <2>1, StepsAreNear
<1>4. CASE settle_usage_after_abort
  <2>1. CASE UNCHANGED s
    <3>1. AlikeStep /\ UNCHANGED <<lock, moved>>
      BY <1>4, <2>1, AlikeTrans DEF settle_usage_after_abort, AlikeStep, Still, past
    <3> QED
      BY <1>2, <3>1, StepsAreNear
  <2>2. CASE s.live /\ \E reported \in 0..sessions[s.session].used : settle_session_usage(s, reported, TRUE)
    <3>1. PICK reported \in 0..sessions[s.session].used : settle_session_usage(s, reported, TRUE)
      BY <2>2
    <3>2. Near(s', s) /\ s'.rotations = s.rotations /\ st' = s' /\ reported \in Nat /\ UNCHANGED <<lock, moved>>
      BY <1>1, <1>4, <3>1, SettledBase, NearSettle DEF settle_usage_after_abort, Still, past
    <3>3. SettleStep
      BY <2>2, <3>1, <3>2 DEF SettleStep
    <3> QED
      BY <1>2, <3>2, <3>3, StepsAreNear
  <2> QED
    BY <1>4, <2>1, <2>2 DEF settle_usage_after_abort
<1>5. CASE RotateRecovered
  <2>1. turnOutcome.nonce = s.nonce
    BY <1>5 DEF Base, Flow, RotateRecovered
  <2>2. RotateStep
    BY <1>1, <1>5, <2>1, NearRotated DEF RotateRecovered, RotateStep, terminal_outcome_allows_rotation
  <2> QED
    BY <1>2, <2>2, StepsAreNear
<1>6. CASE NotRotated
  <2>1. AlikeStep /\ UNCHANGED <<lock, moved>>
    BY <1>1, <1>6, AlikeFollow, AlikeTrans DEF NotRotated, AlikeStep, Still, past
  <2> QED
    BY <1>2, <2>1, StepsAreNear
<1> QED
  BY <1>3, <1>4, <1>5, <1>6 DEF Abort

LEMMA SubmitNear ==
  ASSUME Base, background_event \/ Sleep \/ Exhausted \/ send_prepared_input \/ SubmissionUnknown \/ _commit_prepared_input
  PROVE  /\ AlikeStep \/ RollStep
         /\ sent' = sent \/ pc = "send"
         /\ NearStep /\ UNCHANGED <<toolVars, torn, lock, moved, permit, today>>
         /\ pc \in {"submit", "send", "created", "sent"} /\ pc' \in {"submit", "loop", "stopped", "sent", "count"}
         /\ (pc' \in {"sent", "count"} => Submitting) /\ (pc = "created" => st' = s')
<1>1. s \in Loose /\ st \in Loose /\ Shape /\ today \in Nat /\ inbox \in BOOLEAN
  BY Parts DEF Base, Shape, PlaceShape
<1>2. /\ UNCHANGED <<toolVars, torn, lock, moved, permit, today>>
      /\ pc \in {"submit", "send", "created", "sent"} /\ pc' \in {"submit", "loop", "stopped", "sent", "count"}
      /\ (pc' \in {"sent", "count"} => Submitting) /\ (pc = "created" => st' = s')
      /\ (sent' = sent \/ pc = "send")
  BY DEF background_event, Sleep, Exhausted, send_prepared_input, SubmissionUnknown, _commit_prepared_input,
     trip_hard_disable, Still, Submitting, past, outside
<1>3. CASE background_event
  <2>1. s' = [s EXCEPT !.follow = TRUE, !.event = TRUE] /\ st' = s'
    BY <1>3 DEF background_event
  <2>2. AlikeStep
    BY <1>1, <2>1, AlikeEvent DEF AlikeStep
  <2> QED
    BY <1>2, <2>2, StepsAreNear
<1>4. CASE Sleep
  <2>1. Near(Rolled, s) /\ Rolled.rotations = s.rotations
    BY <1>1, NearRefresh DEF Rolled
  <2>2. RollStep /\ sent' = sent
    BY <1>4, <2>1 DEF Sleep, RollStep, Still, past
  <2> QED
    BY <1>2, <2>2, StepsAreNear
<1>5. CASE Exhausted
  <2>1. (s.follow /\ work_permit_budget_status(s, inbox)) \in BOOLEAN
    BY <1>1 DEF Loose, work_permit_budget_status
  <2>2. st' = [s EXCEPT !.follow = s.follow /\ work_permit_budget_status(s, inbox)] /\ s' = s
    BY <1>5 DEF Exhausted
  <2>3. Alike(st', s)
    BY <1>1, <2>1, <2>2, AlikeFollow
  <2>4. AlikeStep
    BY <2>2, <2>3, AlikeTrans DEF AlikeStep
  <2> QED
    BY <1>2, <2>4, StepsAreNear
<1>6. CASE send_prepared_input \/ SubmissionUnknown
  <2>1. AlikeStep
    BY <1>6, AlikeTrans DEF send_prepared_input, SubmissionUnknown, AlikeStep
  <2> QED
    BY <1>2, <2>1, StepsAreNear
<1>7. CASE _commit_prepared_input
  <2>1. (s.initial \/ s.trigger = "initial") \in BOOLEAN
    BY <1>1 DEF Loose
  <2>2. s' = [s EXCEPT !.initial = s.initial \/ s.trigger = "initial"]
    BY <1>7 DEF _commit_prepared_input
  <2>3. Alike(s', s)
    BY <1>1, <2>1, <2>2, AlikeInitial
  <2>4. st' = s' \/ st' = st
    BY <1>7 DEF _commit_prepared_input
  <2>5. AlikeStep
    BY <2>3, <2>4, AlikeTrans DEF AlikeStep
  <2> QED
    BY <1>2, <2>5, StepsAreNear
<1> QED
  BY <1>3, <1>4, <1>5, <1>6, <1>7

ToolsInv == Files /\ Counting /\ TurnTyped /\ Once /\ Posted /\ Told

Quiet ==
    /\ asked' = <<>> \/ (UNCHANGED <<asked, results, ran>> /\ st'.tools = st.tools)
    /\ c'.at = 0 /\ c'.output = "none" /\ (torn' \/ c.output = "none")
    /\ pc' = "tools" => asked' # <<>>
    /\ (torn => torn') /\ posts' = posts /\ told' = told
    /\ Running' => SameTools(s'.tools, st'.tools) /\ (st'.tools.only => s'.tools.only) /\ pc' # "posted"
    /\ Submitting' => Submitting
    /\ pc # "posted" \/ torn'
    /\ \/ Submitting \/ st'.session = NoSession
       \/ st.session # NoSession /\ SameTools(st'.tools, st.tools) /\ (st.tools.only => st'.tools.only)

LEMMA FilesSame ==
  ASSUME Files, UNCHANGED <<asked, results>>, st'.tools = st.tools
  PROVE  Files'
<1>1. ASSUME NEW n \in DOMAIN asked
      PROVE  (VerOk(n)' <=> VerOk(n)) /\ (ReconOk(n)' <=> ReconOk(n))
  BY DEF VerOk, ReconOk, AfterEffect
<1>2. ASSUME NEW n \in DOMAIN asked
      PROVE  VersBefore(n)' = VersBefore(n) /\ ReconsBefore(n)' = ReconsBefore(n)
  BY DEF VersBefore, ReconsBefore, VerOk, ReconOk, AfterEffect
<1> QED
  BY <1>1, <1>2 DEF Files

\* A step of the loop that is not the tool handler's leaves the calls as they are.
LEMMA QuietTools ==
  ASSUME Base, Base', ToolsInv, Quiet, st'.tools \in ToolsRange, s'.tools \in ToolsRange
  PROVE  ToolsInv'
<1>1. Files /\ Counting /\ TurnTyped /\ Once /\ Posted /\ Told
  BY DEF ToolsInv
<1>2. DOMAIN asked = 1..Len(asked) /\ Len(asked) \in Nat
  BY CallShape DEF Base
<1>3. asked' = <<>> => DOMAIN asked' = {}
  BY EmptySeq
<1>4. Files'
  <2>1. CASE asked' = <<>>
    BY <1>3, <2>1 DEF Files
  <2>2. CASE UNCHANGED <<asked, results, ran>> /\ st'.tools = st.tools
    BY <1>1, <2>2, FilesSame
  <2> QED
    BY <2>1, <2>2 DEF Quiet
<1>5. Counting'
  BY DEF Quiet, Counting
<1>6. TurnTyped'
  BY DEF TurnTyped
<1>7. Once'
  <2>1. CASE asked' = <<>>
    BY <1>3, <2>1 DEF Once
  <2>2. CASE UNCHANGED <<asked, results, ran>>
    BY <1>1, <2>2 DEF Once, Quiet
  <2> QED
    BY <2>1, <2>2 DEF Quiet
<1>8. /\ st.tools.calls \in 0..MaxCalls /\ st'.tools.calls \in 0..MaxCalls /\ s'.tools.calls \in 0..MaxCalls
      /\ MaxCalls \in Nat
  BY <1>1, BudgetAssumption DEF TurnTyped, ToolsRange
<1>9. ~torn' /\ st'.session # NoSession => posts' <= st'.tools.calls
  <2>1. CASE Submitting
    BY <1>1, <1>8, <2>1 DEF Posted, Quiet
  <2>2. CASE st.session # NoSession /\ SameTools(st'.tools, st.tools)
    BY <1>1, <2>2 DEF Posted, Quiet, Current, SameTools
  <2> QED
    BY <2>1, <2>2 DEF Quiet
<1>10. ~torn' => posts' <= MaxCalls
  BY <1>1 DEF Posted, Quiet
<1>11. Submitting' => posts' = 0 /\ told' = FALSE
  BY <1>1 DEF Posted, Quiet
<1>12. pc' = "posted" => ~Running'
  BY DEF Quiet
<1>13. pc' # "posted"
  BY <1>12 DEF Running
<1>14. Posted'
  BY <1>9, <1>10, <1>11, <1>13 DEF Posted, Current
<1>15. told' /\ ~torn' /\ st'.session # NoSession => OutcomeIsLeft(st'.tools)
  <2>1. CASE Submitting
    BY <1>1, <2>1 DEF Posted, Quiet
  <2>2. CASE st.session # NoSession /\ SameTools(st'.tools, st.tools) /\ (st.tools.only => st'.tools.only)
    BY <1>1, <2>2 DEF Told, Quiet, Current, SameTools, OutcomeIsLeft
  <2> QED
    BY <2>1, <2>2 DEF Quiet
<1>16. Told'
  BY <1>13, <1>15 DEF Told, Current, Quiet
<1> QED
  BY <1>4, <1>5, <1>6, <1>7, <1>14, <1>16 DEF ToolsInv

LEMMA NearQuiet ==
  ASSUME Base, Base', ToolsInv, NearStep, pc \in Points \ {"loop", "stopped", "tools", "posted"},
         UNCHANGED <<c, posts, told, torn>>, UNCHANGED <<asked, results, ran>> \/ asked' = <<>>,
         pc \in {"boundary", "recover"} => asked' = <<>>,
         pc' \notin {"tools", "posted"}, Submitting' => Submitting
  PROVE  ToolsInv'
<1>1. Flow /\ Counting /\ TurnTyped /\ Running /\ c.at \in Nat
  BY CallShape DEF Base, ToolsInv, Running
<1>2. c.at = 0 /\ c.output = "none"
  BY <1>1 DEF Counting
<1>3. SameTools(s.tools, st.tools) /\ (st.tools.only => s.tools.only) /\ (pc # "created" => s.session = st.session)
  BY <1>1 DEF Counting, Flow
<1>4. asked' = <<>>
  BY <1>1 DEF Flow
<1>5. s'.tools = s.tools /\ \/ st'.tools = st.tools /\ st'.session = st.session
                            \/ st'.tools = s.tools /\ st'.session = s.session
  BY DEF NearStep, Near, SameTurn
<1>6. SameTools(s.tools, s.tools) /\ SameTools(st.tools, st.tools)
  BY DEF SameTools
<1>7. Running' => SameTools(s'.tools, st'.tools) /\ (st'.tools.only => s'.tools.only) /\ pc' # "posted"
  BY <1>3, <1>5, <1>6
<1>8. \/ Submitting \/ st'.session = NoSession
      \/ st.session # NoSession /\ SameTools(st'.tools, st.tools) /\ (st.tools.only => st'.tools.only)
  BY <1>3, <1>5, <1>6 DEF Submitting
<1>9. Quiet
  BY <1>2, <1>4, <1>7, <1>8 DEF Quiet
<1>10. st'.tools \in ToolsRange /\ s'.tools \in ToolsRange
  BY <1>1, <1>5 DEF TurnTyped
<1> QED
  BY <1>9, <1>10, QuietTools

LEMMA NoToolsRange == NoTools \in ToolsRange /\ Fresh.tools = NoTools /\ SameTools(NoTools, NoTools)
BY BudgetAssumption DEF NoTools, ToolsRange, Fresh, SameTools

LEMMA StartTools ==
  ASSUME Base, Base', ToolsInv, AdoptPermit \/ Find
  PROVE  ToolsInv'
<1>1. Shape /\ Flow /\ Counting /\ TurnTyped /\ pc = "loop" /\ c.at \in Nat /\ st \in Loose /\ s \in Loose /\ today \in Nat
  BY CallShape, Parts DEF Base, ToolsInv, AdoptPermit, Find, FindNoSession, FindIdle, FindCalls, FindFailed,
     FindTimeout, Reading
<1>2. c.at = 0 /\ c.output = "none"
  BY <1>1 DEF Counting
<1>3. CASE AdoptPermit
  <2>1. st'.tools = NoTools /\ st'.session = NoSession
    BY <1>3 DEF AdoptPermit, Fresh
  <2>2. pc' = "loop" /\ s' = s /\ asked' = <<>> /\ UNCHANGED <<c, posts, told, torn>>
    BY <1>1, <1>3 DEF AdoptPermit
  <2>3. Quiet
    BY <1>1, <1>2, <2>1, <2>2 DEF Quiet, Running, Submitting
  <2> QED
    BY <1>1, <2>1, <2>2, <2>3, NoToolsRange, QuietTools DEF TurnTyped
<1>4. CASE Find
  <2>1. s' = refresh_budget_state(st) /\ (st' = s' \/ st' = st)
    BY <1>4 DEF Find, FindNoSession, FindIdle, FindCalls, FindFailed, FindTimeout, Reading
  <2>2. Near(s', st)
    BY <1>1, <2>1, NearRefresh
  <2>3. s'.tools = st.tools /\ st'.tools = st.tools /\ st'.session = st.session
    BY <2>1, <2>2 DEF Near, SameTurn
  <2>4. /\ pc' \in {"submit", "idle", "tools", "settle", "boundary"} /\ UNCHANGED <<c, posts, told, torn>>
        /\ pc' = "tools" => FindCalls
    BY <1>4 DEF Find, FindNoSession, FindIdle, FindCalls, FindFailed, FindTimeout, Still, toolVars
  <2>5. SameTools(st.tools, st.tools)
    BY DEF SameTools
  <2>6. CASE asked' = <<>> \/ UNCHANGED <<asked, results, ran>>
    <3>1. FindCalls => asked' # <<>>
      <4>1. left.batches \subseteq Seq(Kinds) \ {<<>>}
        BY <1>1 DEF Shape, PlaceShape
      <4> QED
        BY <2>6, <4>1 DEF FindCalls
    <3>2. Quiet
      BY <1>2, <2>3, <2>4, <2>5, <2>6, <3>1, <1>1 DEF Quiet, Submitting
    <3> QED
      BY <1>1, <2>3, <3>2, QuietTools DEF TurnTyped
  <2>7. CASE FindCalls /\ asked = <<>> /\ asked' \in left.batches /\ results' = NoResults(asked')
             /\ ran' = [i \in DOMAIN asked' |-> 0]
    <3>1. asked' # <<>> /\ DOMAIN asked' = DOMAIN results' /\ pc' = "tools"
      <4>1. left.batches \subseteq Seq(Kinds) \ {<<>>}
        BY <1>1 DEF Shape, PlaceShape
      <4> QED
        BY <2>7, <4>1 DEF FindCalls, NoResults
    <3>2. \A n \in DOMAIN asked' : results'[n] = "none" /\ ran'[n] = 0
      BY <2>7 DEF NoResults
    <3>3. Files'
      BY <3>2 DEF Files, VerOk, ReconOk
    <3>4. Counting'
      BY <1>2, <2>3, <2>4, <2>5, <3>1 DEF Counting
    <3>5. TurnTyped'
      BY <1>1, <2>3 DEF TurnTyped
    <3>6. Once'
      BY <3>2 DEF Once
    <3>7. Posted /\ Told
      BY DEF ToolsInv
    <3>8. Posted' /\ Told'
      BY <1>1, <1>2, <2>3, <2>4, <3>1, <3>7 DEF Posted, Told, Current, Submitting, OutcomeIsLeft
    <3> QED
      BY <3>3, <3>4, <3>5, <3>6, <3>8 DEF ToolsInv
  <2> QED
    BY <1>4, <2>6, <2>7 DEF Find, FindNoSession, FindIdle, FindCalls, FindFailed, FindTimeout, Still, toolVars
<1> QED
  BY <1>3, <1>4

LEMMA DropFields ==
  ASSUME Base, DropSession
  PROVE  /\ SameCount(st', s) /\ SamePurse(st', s) /\ st'.rotations = s.rotations /\ st'.tools = s.tools
         /\ st'.permit = s.permit /\ st'.session = NoSession /\ ~st'.awaiting /\ st'.nonce = s.nonce /\ st'.gate = s.gate
<1>1. s \in Loose
  BY Parts DEF Base
<1> QED
  BY <1>1 DEF DropSession, Loose, SameCount, SamePurse

LEMMA CountFields ==
  ASSUME Base, record_model_submit
  PROVE  /\ SamePurse(s', s) /\ SameTurn(s', s) /\ s'.rotations = s.rotations /\ s'.tools = s.tools
         /\ s'.awaiting = s.awaiting
         /\ s'.submits = s.submits + 1 /\ s'.total = s.total + 1
         /\ s'.autonomous \in {s.autonomous, s.autonomous + 1}
         /\ st' = s'
<1>1. s \in Loose
  BY Parts DEF Base
<1>2. s.submits + 1 \in Nat /\ s.total + 1 \in Nat /\ s.autonomous \in Nat /\ s.autonomous + 1 \in Nat
  BY <1>1 DEF Loose
<1>3. PICK n \in {s.autonomous, s.autonomous + 1} :
        s' = Counted(s, s.submits + 1, s.total + 1, n) /\ st' = s'
  <2>1. s' = Counted(s, s.submits + 1, s.total + 1, s.autonomous + (IF s.trigger = "user" THEN 0 ELSE 1)) /\ st' = s'
    BY DEF record_model_submit, Counted
  <2> QED
    BY <1>2, <2>1
<1>4. ASSUME NEW n1 \in Nat, NEW n2 \in Nat, NEW n3 \in Nat
      PROVE  /\ SamePurse(Counted(s, n1, n2, n3), s) /\ SameTurn(Counted(s, n1, n2, n3), s)
             /\ Counted(s, n1, n2, n3).rotations = s.rotations /\ Counted(s, n1, n2, n3).tools = s.tools
             /\ Counted(s, n1, n2, n3).awaiting = s.awaiting
             /\ Counted(s, n1, n2, n3).submits = n1 /\ Counted(s, n1, n2, n3).total = n2
             /\ Counted(s, n1, n2, n3).autonomous = n3
  BY <1>1 DEF Loose, SamePurse, SameTurn, Counted
<1>5. n \in Nat
  BY <1>2
<1> DEFINE n1 == s.submits + 1
           n2 == s.total + 1
<1>6. n1 \in Nat /\ n2 \in Nat /\ s' = Counted(s, n1, n2, n)
  BY <1>2, <1>3
<1> HIDE DEF n1, n2
<1>7. /\ SamePurse(s', s) /\ SameTurn(s', s) /\ s'.rotations = s.rotations /\ s'.tools = s.tools
      /\ s'.awaiting = s.awaiting /\ s'.submits = n1 /\ s'.total = n2 /\ s'.autonomous = n
  BY <1>4, <1>5, <1>6
<1> QED
  BY <1>3, <1>7 DEF n1, n2

LEMMA CreateFields ==
  ASSUME Base, create_session_with_input
  PROVE  /\ SamePurse(s', s) /\ s'.rotations = s.rotations /\ s'.tools = s.tools /\ s'.awaiting = s.awaiting
         /\ s'.permit = s.permit /\ s'.nonce = s.nonce /\ s'.gate = s.gate /\ s'.session = Len(sessions')
         /\ s'.submits = 0 /\ s'.total = s.total /\ s'.autonomous = s.autonomous /\ st' = st
<1>1. s \in Loose
  BY Parts DEF Base
<1>2. ASSUME NEW n
      PROVE  /\ SamePurse(Created(s, n), s) /\ Created(s, n).rotations = s.rotations /\ Created(s, n).tools = s.tools
             /\ Created(s, n).awaiting = s.awaiting /\ Created(s, n).permit = s.permit
             /\ Created(s, n).nonce = s.nonce /\ Created(s, n).gate = s.gate /\ Created(s, n).session = n
             /\ Created(s, n).submits = 0 /\ Created(s, n).total = s.total /\ Created(s, n).autonomous = s.autonomous
  BY <1>1 DEF Loose, SamePurse, Created
<1>3. s' = Created(s, Len(sessions')) /\ st' = st
  BY DEF create_session_with_input, Created
<1> QED
  BY <1>2, <1>3

LEMMA BeginFields ==
  ASSUME Base, Begin
  PROVE  /\ Rolled \in Loose /\ st' = s'
         /\ s'.live /\ s'.actual = Rolled.actual /\ s'.reserved = Rolled.reserved + Reservation
         /\ s'.day = Rolled.day /\ s'.dayActual = Rolled.dayActual /\ s'.dayReserved = Rolled.dayReserved + Reservation
         /\ SameCount(s', s) /\ s'.rotations = s.rotations /\ s'.tools = NoTools /\ s'.awaiting
         /\ s'.permit = s.permit /\ s'.session = s.session /\ s'.nonce = s.nonce + 1 /\ s'.gate = lock
<1>1. s \in Loose /\ today \in Nat /\ lock \in Nat
  BY Parts DEF Base
<1>2. Rolled \in Loose /\ Near(Rolled, s) /\ Rolled.rotations = s.rotations
  BY <1>1, RefreshShape, NearRefresh DEF Rolled
<1> DEFINE y == Begun(Rolled, Rolled.nonce + 1, lock, Trigger)
<1>3. s' = Reserve(y) /\ st' = s'
  BY DEF Begin, Begun
<1>4. /\ y.live = Rolled.live /\ y.actual = Rolled.actual /\ y.reserved = Rolled.reserved /\ y.day = Rolled.day
      /\ y.dayActual = Rolled.dayActual /\ y.dayReserved = Rolled.dayReserved
      /\ SameCount(y, Rolled) /\ y.rotations = Rolled.rotations /\ y.tools = NoTools /\ y.awaiting
      /\ y.permit = Rolled.permit /\ y.session = Rolled.session /\ y.nonce = Rolled.nonce + 1 /\ y.gate = lock
  BY <1>2 DEF Loose, Begun, SameCount
<1>5. y \in Loose
  <2>1. Rolled.nonce + 1 \in Nat /\ Trigger \in {"none", "user", "event", "initial", "step"}
    BY <1>2 DEF Loose, Trigger
  <2>2. \A n1, n2 \in Nat, t \in {"none", "user", "event", "initial", "step"} : Begun(Rolled, n1, n2, t) \in Loose
    BY <1>2, LooseBegun
  <2> QED
    BY <1>1, <2>1, <2>2
<1> HIDE DEF y
<1>6. /\ s'.live /\ s'.actual = y.actual /\ s'.reserved = y.reserved + Reservation
      /\ s'.day = y.day /\ s'.dayActual = y.dayActual /\ s'.dayReserved = y.dayReserved + Reservation
      /\ SameCount(s', y) /\ s'.rotations = y.rotations /\ s'.tools = y.tools /\ s'.awaiting = y.awaiting
      /\ s'.permit = y.permit /\ s'.session = y.session /\ s'.nonce = y.nonce /\ s'.gate = y.gate
  BY <1>3, <1>5 DEF Loose, Reserve, SameCount
<1> QED
  BY <1>2, <1>3, <1>4, <1>6 DEF SameCount, Near, SameTurn

LEMMA BuyTools ==
  ASSUME Base, Base', ToolsInv, Begin \/ create_session_with_input \/ record_model_submit
  PROVE  ToolsInv'
<1>1. /\ Shape /\ Flow /\ Counting /\ TurnTyped /\ Posted /\ c.at \in Nat /\ Running /\ pc \in {"submit", "send", "count"}
      /\ asked' = asked /\ Files /\ Once
  BY CallShape DEF Base, ToolsInv, Begin, create_session_with_input, record_model_submit, Running, Still, toolVars
<1>2. c.at = 0 /\ c.output = "none" /\ asked = <<>> /\ DOMAIN asked = {}
  BY <1>1, EmptySeq DEF Counting, Flow
<1>3. SameTools(s.tools, st.tools) /\ (st.tools.only => s.tools.only) /\ s.session = st.session
  BY <1>1 DEF Counting, Flow
<1>4. SameTools(s.tools, s.tools)
  BY DEF SameTools
<1>5. CASE Begin
  <2>1. s'.tools = NoTools /\ st' = s'
    BY <1>5, BeginFields
  <2>2. c' = c /\ pc' = "send" /\ posts' = 0 /\ told' = FALSE
    BY <1>5 DEF Begin
  <2>3. Files' /\ Once'
    BY <1>1, <1>2 DEF Files, Once
  <2>4. Counting' /\ TurnTyped'
    BY <1>1, <1>2, <2>1, <2>2, NoToolsRange DEF Counting, TurnTyped
  <2>5. NoTools.calls = 0 /\ MaxCalls \in Nat
    BY BudgetAssumption DEF NoTools
  <2>6. Posted' /\ Told'
    BY <2>1, <2>2, <2>5 DEF Posted, Told, Current, Submitting
  <2> QED
    BY <2>3, <2>4, <2>6 DEF ToolsInv
<1>6. CASE create_session_with_input
  <2>1. s'.tools = s.tools /\ st' = st
    BY <1>6, CreateFields
  <2>2. Quiet
    BY <1>1, <1>2, <1>3, <1>6, <2>1 DEF Quiet, create_session_with_input, Running, Submitting, toolVars
  <2> QED
    BY <1>1, <2>1, <2>2, QuietTools DEF TurnTyped
<1>7. CASE record_model_submit
  <2>1. s'.tools = s.tools /\ st' = s'
    BY <1>7, CountFields
  <2>2. Quiet
    BY <1>1, <1>2, <1>3, <1>4, <1>7, <2>1 DEF Quiet, record_model_submit, Running, Submitting, toolVars, Still
  <2> QED
    BY <1>1, <2>1, <2>2, QuietTools DEF TurnTyped
<1> QED
  BY <1>5, <1>6, <1>7

LEMMA DropTools ==
  ASSUME Base, Base', ToolsInv, DropSession
  PROVE  ToolsInv'
<1>1. /\ Flow /\ Counting /\ TurnTyped /\ c.at \in Nat /\ Running /\ pc = "drop" /\ pc' = "loop"
      /\ UNCHANGED <<toolVars, torn>> /\ s' = s
  BY CallShape DEF Base, ToolsInv, DropSession, Running, Still
<1>2. c.at = 0 /\ c.output = "none" /\ asked = <<>>
  BY <1>1 DEF Counting, Flow
<1>3. st'.session = NoSession /\ st'.tools = s.tools
  BY DropFields
<1>4. Quiet
  BY <1>1, <1>2, <1>3 DEF Quiet, Running, Submitting, toolVars
<1> QED
  BY <1>1, <1>3, <1>4, QuietTools DEF TurnTyped

LEMMA OutsideTools ==
  ASSUME Base, Base', ToolsInv, PermitInvalid \/ Die \/ Outside
  PROVE  ToolsInv'
<1>1. /\ Shape /\ Flow /\ Counting /\ TurnTyped /\ Posted /\ c.at \in Nat /\ c.output \in Outputs
      /\ st' = st /\ UNCHANGED <<asked, results, ran, posts, told>> /\ pc' \in {"loop", "stopped"}
  BY CallShape DEF Base, ToolsInv, PermitInvalid, Die, Outside, trip_hard_disable, toolVars
<1>2. SameTools(st.tools, st.tools)
  BY DEF SameTools
<1>3. CASE Die
  <2>1. torn' = (torn \/ c.output # "none" \/ pc = "posted") /\ c' = NoCall /\ s' = Fresh
    BY <1>3 DEF Die
  <2>2. Quiet
    BY <1>1, <1>2, <2>1 DEF Quiet, Running, Submitting, NoCall
  <2> QED
    BY <1>1, <2>1, <2>2, NoToolsRange, QuietTools DEF TurnTyped
<1>4. CASE PermitInvalid \/ Outside
  <2>1. pc = "loop" /\ s' = s /\ c' = c /\ torn' = torn
    BY <1>4 DEF PermitInvalid, Outside, toolVars
  <2>2. c.at = 0 /\ c.output = "none"
    BY <1>1, <2>1 DEF Counting
  <2>3. Quiet
    BY <1>1, <1>2, <2>1, <2>2 DEF Quiet, Running, Submitting
  <2> QED
    BY <1>1, <2>1, <2>3, QuietTools DEF TurnTyped
<1> QED
  BY <1>3, <1>4

LEMMA LoopTools ==
  ASSUME Base, Base', ToolsInv, [Next]_vars, ~Tools
  PROVE  ToolsInv'
<1>1. CASE Close
  <2>1. /\ NearStep /\ UNCHANGED <<toolVars, torn>> /\ pc \in {"idle", "closed"}
        /\ pc' \in {"idle", "closed", "submit", "trip", "stopped"}
    BY <1>1, CloseNear
  <2> QED
    BY <2>1, NearQuiet DEF Points, Submitting, toolVars
<1>2. CASE Abort /\ ~DropSession
  <2>1. /\ NearStep /\ UNCHANGED <<c, posts, told, torn>>
        /\ UNCHANGED <<asked, results, ran>> \/ asked' = <<>>
        /\ pc \in {"boundary", "recover", "settle", "trip", "closure", "recovered"}
        /\ pc' \in {"settle", "closure", "trip", "stopped", "recovered", "drop"}
    BY <1>2, AbortNear
  <2>2. pc \in {"boundary", "recover"} => asked' = <<>>
    BY <1>2 DEF Abort, cancel_turn, settle_usage_after_abort, Trip, RecoverOutcome, RotateRecovered, NotRotated
  <2> QED
    BY <2>1, <2>2, NearQuiet DEF Points, Submitting
<1>3. CASE background_event \/ Sleep \/ Exhausted \/ send_prepared_input \/ SubmissionUnknown \/ _commit_prepared_input
  <2>1. /\ NearStep /\ UNCHANGED <<toolVars, torn>>
        /\ pc \in {"submit", "send", "created", "sent"} /\ pc' \in {"submit", "loop", "stopped", "sent", "count"}
        /\ (pc' \in {"sent", "count"} => Submitting)
    BY <1>3, SubmitNear
  <2> QED
    BY <2>1, NearQuiet DEF Points, Submitting, toolVars
<1>4. CASE UNCHANGED vars
  <2>1. /\ UNCHANGED <<st, s, pc, turnOutcome, asked, results, c, posts, ran, told, torn>>
    BY <1>4 DEF vars, toolVars
  <2>2. Files' /\ TurnTyped' /\ Once' /\ Posted' /\ Told'
    BY <2>1 DEF ToolsInv, Files, TurnTyped, Once, Posted, Told, VerOk, ReconOk, AfterEffect, VersBefore, ReconsBefore,
       Current, Submitting, TerminalOnly, Batch
  <2>3. Counting'
    BY <2>1 DEF ToolsInv, Counting, Running, AfterEffect, VersBefore, ReconsBefore, VerOk, ReconOk
  <2> QED
    BY <2>2, <2>3 DEF ToolsInv
<1> QED
  BY <1>1, <1>2, <1>3, <1>4, StartTools, BuyTools, DropTools, OutsideTools DEF Next, main, Stopped, Submit, Abort

LEMMA HandlerParts ==
  ASSUME Base, ToolsInv, pc = "tools"
  PROVE  /\ Shape /\ Flow /\ TurnShape /\ st \in Loose /\ s \in Loose
         /\ SameTools(s.tools, st.tools) /\ (st.tools.only => s.tools.only)
         /\ st.tools \in ToolsRange /\ s.tools \in ToolsRange
         /\ Len(asked) \in Nat /\ Len(asked) > 0 /\ DOMAIN asked = 1..Len(asked)
         /\ c.at \in Nat /\ c.output \in Outputs /\ (c.at = 0 => c.output = "none")
         /\ s.session # NoSession /\ st.session # NoSession
         /\ (~torn => posts <= st.tools.calls) /\ posts \in Nat
         /\ (told /\ ~torn => OutcomeIsLeft(s.tools) /\ (c.at > 0 => TerminalOnly))
         /\ told \in BOOLEAN /\ torn \in BOOLEAN
<1>1. Shape /\ Flow /\ TurnShape /\ st \in Loose /\ s \in Loose /\ Counting /\ TurnTyped /\ Posted /\ Told
  BY Parts DEF Base, ToolsInv
<1>2. Len(asked) \in Nat /\ DOMAIN asked = 1..Len(asked) /\ c.at \in Nat /\ c.output \in Outputs
  BY <1>1, CallShape
<1>3. asked \in Seq(Kinds) /\ asked # <<>> /\ posts \in Nat /\ told \in BOOLEAN /\ torn \in BOOLEAN
  BY <1>1 DEF Counting, TurnShape
<1>4. Len(asked) > 0
  BY <1>2, <1>3, EmptySeq
<1>5. Running /\ s.session # NoSession /\ st.session # NoSession
  BY <1>1 DEF Flow, Running
<1>6. SameTools(s.tools, st.tools) /\ (st.tools.only => s.tools.only) /\ (c.at = 0 => c.output = "none")
  BY <1>1, <1>5 DEF Counting
<1>7. ~torn => posts <= st.tools.calls
  BY <1>1, <1>5 DEF Posted, Current
<1>8. told /\ ~torn => OutcomeIsLeft(st.tools) /\ (c.at > 0 => TerminalOnly)
  BY <1>1, <1>5 DEF Told, Current
<1>9. OutcomeIsLeft(st.tools) => OutcomeIsLeft(s.tools)
  BY <1>6 DEF OutcomeIsLeft, SameTools
<1>10. st.tools \in ToolsRange /\ s.tools \in ToolsRange
  BY <1>1 DEF TurnTyped
<1> QED
  BY <1>1, <1>2, <1>3, <1>4, <1>5, <1>6, <1>7, <1>8, <1>9, <1>10

LEMMA PostTools ==
  ASSUME Base, ToolsInv, pc = "tools", NEW tools \in ToolsRange, NEW tells \in BOOLEAN, Post(tools, tells),
         tools.calls > s.tools.calls,
         ~torn /\ (told \/ tells) => OutcomeIsLeft(tools)
  PROVE  ToolsInv'
<1>1. /\ s \in Loose /\ SameTools(s.tools, st.tools) /\ st.tools \in ToolsRange /\ s.tools \in ToolsRange
      /\ (~torn => posts <= st.tools.calls) /\ posts \in Nat /\ st.session # NoSession /\ Posted
  BY HandlerParts DEF ToolsInv
<1>2. s'.tools = tools /\ st' = st
  BY <1>1 DEF Post, Loose
<1>3. pc' = "posted" /\ asked' = <<>> /\ DOMAIN asked' = {} /\ c'.at = 0 /\ c'.output = "none" /\ torn' = torn
      /\ posts' = posts + 1 /\ told' = (told \/ tells)
  BY EmptySeq DEF Post, NoCall
<1>4. Files' /\ Once'
  BY <1>3 DEF Files, Once
<1>5. Counting' /\ TurnTyped'
  BY <1>1, <1>2, <1>3 DEF Counting, TurnTyped
<1>6. tools.calls \in 0..MaxCalls /\ MaxCalls \in Nat /\ s.tools.calls \in Nat /\ st.tools.calls = s.tools.calls
  BY <1>1, BudgetAssumption DEF ToolsRange, SameTools
<1>7. ~torn => posts + 1 <= tools.calls /\ posts + 1 <= MaxCalls
  BY <1>1, <1>6
<1>8. Posted'
  BY <1>2, <1>3, <1>7 DEF Posted, Current, Submitting
<1>9. Told'
  BY <1>2, <1>3 DEF Told, Current
<1> QED
  BY <1>4, <1>5, <1>8, <1>9 DEF ToolsInv

LEMMA StopTools ==
  ASSUME Base, ToolsInv, pc = "tools", c.output = "none", NEW how \in {"boundary", "recover"}, Stop(how), UNCHANGED s
  PROVE  ToolsInv'
<1>1. /\ SameTools(s.tools, st.tools) /\ (st.tools.only => s.tools.only) /\ Files /\ TurnTyped /\ Once /\ Posted /\ Told
  BY HandlerParts DEF ToolsInv
<1>2. UNCHANGED <<st, s, asked, results, posts, ran, told, torn>> /\ c'.at = 0 /\ c'.output = "none" /\ pc' = how
  BY DEF Stop, NoCall
<1>3. Files' /\ TurnTyped'
  BY <1>1, <1>2, FilesSame DEF TurnTyped
<1>4. Counting'
  BY <1>1, <1>2 DEF Counting
<1>5. Once'
  BY <1>1, <1>2 DEF Once
<1>6. Posted' /\ Told'
  BY <1>1, <1>2 DEF Posted, Told, Current, Submitting, OutcomeIsLeft
<1> QED
  BY <1>3, <1>4, <1>5, <1>6 DEF ToolsInv

LEMMA DenialTools ==
  ASSUME Base, ToolsInv, OutcomeOnlyDenial \/ VerificationDenial \/ ReconDenial \/ RoundDenial
  PROVE  ToolsInv'
<1>1. Handling /\ pc = "tools" /\ c.at = 0
  BY DEF OutcomeOnlyDenial, VerificationDenial, ReconDenial, RoundDenial, Handling
<1>2. /\ s.tools \in ToolsRange /\ Len(asked) \in Nat /\ Len(asked) > 0 /\ c.output = "none"
      /\ (told /\ ~torn => OutcomeIsLeft(s.tools)) /\ told \in BOOLEAN /\ torn \in BOOLEAN
  BY <1>1, HandlerParts
<1>3. MaxCalls \in Nat /\ MaxDenials \in Nat /\ s.tools.calls \in Nat /\ s.tools.denials \in 0..MaxDenials
      /\ s.tools.denied \in BOOLEAN /\ s.tools.only \in BOOLEAN /\ s.tools.grace \in BOOLEAN
  BY <1>2, BudgetAssumption DEF ToolsRange
<1> DEFINE t == CountCalls(s.tools)
<1>4. /\ t.calls = s.tools.calls + Len(asked) /\ t.denied = s.tools.denied /\ t.only = s.tools.only
      /\ t.grace = s.tools.grace /\ t.rounds = s.tools.rounds
  BY <1>2 DEF CountCalls, ToolsRange
<1>5. ~Overflows => t \in ToolsRange
  <2> DEFINE n == s.tools.calls + Len(asked)
  <2>1. ~Overflows => n \in 0..MaxCalls
    BY <1>2, <1>3 DEF Overflows
  <2>2. t = [s.tools EXCEPT !.calls = n]
    BY DEF CountCalls
  <2> HIDE DEF n
  <2>3. n \in 0..MaxCalls => [s.tools EXCEPT !.calls = n] \in ToolsRange
    BY <1>2 DEF ToolsRange
  <2> QED
    BY <2>1, <2>2, <2>3
<1>6. t.calls > s.tools.calls
  BY <1>2, <1>3, <1>4
<1> HIDE DEF t
<1>7. CASE UNCHANGED s /\ (Stop("recover") \/ Stop("boundary"))
  BY <1>1, <1>2, <1>7, StopTools
<1>8. CASE OutcomeOnlyDenial /\ ~Overflows /\ Post([t EXCEPT !.denied = TRUE], TRUE)
  <2> DEFINE y == [t EXCEPT !.denied = TRUE]
  <2>1. y \in ToolsRange /\ y.calls = t.calls /\ y.only = t.only
    BY <1>5, <1>8 DEF ToolsRange
  <2>2. s.tools.only
    BY <1>8 DEF OutcomeOnlyDenial
  <2>3. OutcomeIsLeft(y)
    BY <1>4, <2>1, <2>2 DEF OutcomeIsLeft
  <2>4. Post(y, TRUE)
    BY <1>8
  <2> HIDE DEF y
  <2> QED
    BY <1>1, <1>6, <2>1, <2>3, <2>4, PostTools
<1>9. CASE VerificationDenial /\ ~Overflows /\ Post([t EXCEPT !.only = TRUE, !.denied = FALSE], TRUE)
  <2> DEFINE y == [t EXCEPT !.only = TRUE, !.denied = FALSE]
  <2>1. y \in ToolsRange /\ y.calls = t.calls /\ y.only
    BY <1>5, <1>9 DEF ToolsRange
  <2>3. OutcomeIsLeft(y)
    BY <2>1 DEF OutcomeIsLeft
  <2>4. Post(y, TRUE)
    BY <1>9
  <2> HIDE DEF y
  <2> QED
    BY <1>1, <1>6, <2>1, <2>3, <2>4, PostTools
<1>10. CASE RoundDenial /\ ~Overflows /\ Post([t EXCEPT !.grace = TRUE], TRUE)
  <2> DEFINE y == [t EXCEPT !.grace = TRUE]
  <2>1. y \in ToolsRange /\ y.calls = t.calls /\ y.grace /\ y.rounds = t.rounds
    BY <1>5, <1>10 DEF ToolsRange
  <2>2. s.tools.rounds >= MaxRounds
    BY <1>10 DEF RoundDenial, OutOfRounds
  <2>3. OutcomeIsLeft(y)
    BY <1>4, <2>1, <2>2 DEF OutcomeIsLeft
  <2>4. Post(y, TRUE)
    BY <1>10
  <2> HIDE DEF y
  <2> QED
    BY <1>1, <1>6, <2>1, <2>3, <2>4, PostTools
<1>11. CASE ReconDenial
  <2> DEFINE denials == IF s.tools.denials + Len(asked) > MaxDenials THEN MaxDenials
                        ELSE s.tools.denials + Len(asked)
             last == denials >= MaxDenials
  <2>1. denials \in 0..MaxDenials /\ last \in BOOLEAN
    BY <1>2, <1>3
  <2>2. \/ UNCHANGED s /\ Stop("boundary")
        \/ ~Overflows /\ Post([t EXCEPT !.denials = denials, !.only = last, !.denied = ~last /\ @], last)
    BY <1>11 DEF ReconDenial, t
  <2> HIDE DEF denials, last
  <2>3. CASE ~Overflows /\ Post([t EXCEPT !.denials = denials, !.only = last, !.denied = ~last /\ @], last)
    <3> DEFINE b == ~last /\ t.denied
               y == [t EXCEPT !.denials = denials, !.only = last, !.denied = b]
    <3>1. b \in BOOLEAN
      BY <1>3, <1>4, <2>1
    <3>2. Post(y, last)
      BY <2>3
    <3> HIDE DEF b
    <3>3. y \in ToolsRange /\ y.calls = t.calls /\ y.only = last /\ y.grace = t.grace /\ y.rounds = t.rounds
      BY <1>5, <2>1, <2>3, <3>1 DEF ToolsRange
    <3>4. ~s.tools.only
      BY <1>11 DEF ReconDenial, Reconnoitring
    <3> HIDE DEF y
    <3>5. ~torn /\ (told \/ last) => OutcomeIsLeft(y)
      BY <1>2, <1>4, <3>3, <3>4 DEF OutcomeIsLeft
    <3> QED
      BY <1>1, <1>6, <2>1, <3>2, <3>3, <3>5, PostTools
  <2> QED
    BY <1>7, <2>2, <2>3
<1> QED
  BY <1>7, <1>8, <1>9, <1>10, <1>11 DEF OutcomeOnlyDenial, VerificationDenial, RoundDenial, t

LEMMA WorkTools ==
  ASSUME Base, ToolsInv, Work
  PROVE  ToolsInv'
<1>1. pc = "tools" /\ c.at = 0 /\ UNCHANGED <<st, s, pc, asked, results, posts, ran, told, torn>>
  BY DEF Work, Handling
<1>2. /\ Files /\ Counting /\ TurnTyped /\ Once /\ Posted /\ Told
      /\ s.tools \in ToolsRange /\ st.tools \in ToolsRange /\ SameTools(s.tools, st.tools)
      /\ Len(asked) \in Nat /\ Len(asked) > 0 /\ c.output = "none"
      /\ (told /\ ~torn => OutcomeIsLeft(s.tools))
  BY <1>1, HandlerParts DEF ToolsInv
<1> DEFINE n == IF s.tools.rounds >= MaxRounds /\ TerminalOnly THEN s.tools.rounds ELSE s.tools.rounds + 1
<1>3. s.tools.rounds \in 0..MaxRounds /\ MaxRounds \in Nat
  BY <1>2, BudgetAssumption DEF ToolsRange
<1>4. s.tools.rounds >= MaxRounds => TerminalOnly
  BY DEF Work, Handling, OutOfRounds, Verifying, Reconnoitring
<1>5. n \in 0..MaxRounds /\ n >= s.tools.rounds
  BY <1>3, <1>4
<1>6. c' = [at |-> 1, output |-> "none", tools |-> [s.tools EXCEPT !.rounds = n]]
  BY DEF Work
<1> HIDE DEF n
<1>7. /\ c'.at = 1 /\ c'.output = "none" /\ c'.tools \in ToolsRange /\ c'.tools.calls = s.tools.calls
      /\ c'.tools.effects = s.tools.effects /\ c'.tools.verification = s.tools.verification
      /\ c'.tools.recon = s.tools.recon /\ c'.tools.denials = s.tools.denials /\ c'.tools.grace = s.tools.grace
      /\ c'.tools.rounds = n
  BY <1>2, <1>5, <1>6 DEF ToolsRange
<1>8. (c'.tools.effects > 0) <=> (AfterEffect(c.at)')
  <2>1. (AfterEffect(c.at)') <=> st.tools.effects > 0 \/ \E k \in 1..(1 - 1) : asked[k] \in Effects
    BY <1>1, <1>7 DEF AfterEffect
  <2> QED
    BY <1>2, <1>7, <2>1 DEF SameTools
<1>9. /\ c'.tools.verification = s.tools.verification + Cardinality(VersBefore(c.at)')
      /\ c'.tools.recon = s.tools.recon + Cardinality(ReconsBefore(c.at)')
  <2>1. (VersBefore(c.at))' = {} /\ (ReconsBefore(c.at))' = {}
    BY <1>7 DEF VersBefore, ReconsBefore
  <2>2. Cardinality({}) = 0
    BY FS_EmptySet
  <2>3. s.tools.verification \in Nat /\ s.tools.recon \in Nat
    BY <1>2, RangeParts
  <2> QED
    BY <1>7, <2>1, <2>2, <2>3
<1>10. s.tools.calls \in Nat /\ s'.tools = s.tools
  BY <1>1, <1>2, BudgetAssumption DEF ToolsRange
<1>11. /\ c'.at <= Len(asked) + 1 /\ c'.tools.calls = s.tools.calls + c'.at - 1
       /\ c'.tools.rounds >= s.tools.rounds
       /\ \A k \in 1..(c'.at - 1) : results[k] # "none"
  BY <1>2, <1>5, <1>7, <1>10
<1>12. Counting'
  BY <1>1, <1>2, <1>7, <1>8, <1>9, <1>11 DEF Counting, Running
<1>13. Files' /\ TurnTyped'
  BY <1>1, <1>2, FilesSame DEF TurnTyped
<1>14. Once'
  BY <1>1, <1>2 DEF Once
<1>15. Posted'
  BY <1>1, <1>2 DEF Posted, Current, Submitting
<1>16. Told'
  <2>1. TerminalOnly' <=> TerminalOnly
    BY <1>1 DEF TerminalOnly, Batch
  <2>2. OutcomeIsLeft(s.tools) => TerminalOnly
    BY <1>4 DEF OutcomeIsLeft, Work
  <2>3. st' = st /\ s' = s /\ pc' = pc /\ told' = told /\ torn' = torn
    BY <1>1
  <2>4. (~torn /\ told /\ st.session # NoSession) => OutcomeIsLeft(st.tools)
    BY <1>1, <1>2 DEF Told, Current
  <2> QED
    BY <1>1, <1>2, <2>1, <2>2, <2>3, <2>4 DEF Told, Current
<1> QED
  BY <1>12, <1>13, <1>14, <1>15, <1>16 DEF ToolsInv

\* The sets of counted reads grow by the call just answered.
LEMMA BeforeGrows ==
  ASSUME NEW n \in Nat, n > 0, NEW P, NEW A, NEW B, A \subseteq 1..(n - 1),
         B = A \cup (IF P THEN {n} ELSE {})
  PROVE  IsFiniteSet(B) /\ Cardinality(A) \in Nat /\ Cardinality(B) = Cardinality(A) + (IF P THEN 1 ELSE 0)
<1>1. IsFiniteSet(1..(n - 1))
  BY FS_Interval
<1>2. IsFiniteSet(A)
  BY <1>1, FS_Subset
<1>3. Cardinality(A) \in Nat
  BY <1>2, FS_CardinalityType
<1>4. n \notin A
  BY SMT
<1>5. Cardinality(A \cup {n}) = Cardinality(A) + 1 /\ IsFiniteSet(A \cup {n})
  BY <1>2, <1>4, FS_AddElement
<1> QED
  BY <1>2, <1>3, <1>5

\* A call that ends in this step: it and its output, its place, and what was counted.
Ends(n, output) ==
    /\ pc = "tools" /\ n = c.at /\ n \in 1..Len(asked) /\ output \in {"ok", "error"}
    /\ c.tools.calls < MaxCalls /\ (asked[n] \in Effects => c.tools.effects < MaxEffects)
    /\ c' = Answered(output)
    /\ results' \in [DOMAIN asked -> Outputs]
    /\ results'[n] = output /\ \A k \in DOMAIN asked \ {n} : results'[k] = results[k]
    /\ results[n] = "none" \/ results[n] = output
    /\ UNCHANGED <<st, pc, asked, posts, ran, told, torn>>
    /\ SameTools(s'.tools, s.tools) /\ (s.tools.only => s'.tools.only) /\ s'.tools \in ToolsRange

\* How much a call counts as a verification and as a reconnaissance.
Verifies(n, output) == asked[n] = "check" /\ AfterEffect(n) /\ output = "ok"
Reconnoitres(n, output) == asked[n] \in Reads /\ ~(asked[n] = "check" /\ AfterEffect(n)) /\ output = "ok"
One(b) == IF b THEN 1 ELSE 0

LEMMA CallParts ==
  ASSUME Base, ToolsInv, c.at > 0
  PROVE  /\ pc = "tools" /\ c.at <= Len(asked) + 1 /\ c.at \in Nat /\ Len(asked) \in Nat
         /\ c.tools \in ToolsRange
         /\ c.tools.calls = s.tools.calls + c.at - 1
         /\ c.tools.effects > 0 <=> AfterEffect(c.at)
         /\ c.tools.verification = s.tools.verification + Cardinality(VersBefore(c.at))
         /\ c.tools.recon = s.tools.recon + Cardinality(ReconsBefore(c.at))
         /\ c.tools.denials = s.tools.denials /\ c.tools.grace = s.tools.grace
         /\ c.tools.rounds >= s.tools.rounds
         /\ \A k \in 1..(c.at - 1) : results[k] # "none"
         /\ c.output # "none" => /\ c.at <= Len(asked) /\ asked[c.at] \in Effects
                                 /\ results[c.at] = "none"
                                 /\ c.tools.calls < MaxCalls /\ c.tools.effects < MaxEffects
<1>1. Counting /\ Shape
  BY DEF Base, ToolsInv
<1>2. c.at \in Nat /\ Len(asked) \in Nat
  BY <1>1, CallShape
<1> QED
  BY <1>1, <1>2 DEF Counting

Tallied(t, k1, k2, k3, k4) == [t EXCEPT !.calls = k1, !.effects = k2, !.verification = k3, !.recon = k4]

\* The counters after the answer.
LEMMA AnsweredFields ==
  ASSUME Base, ToolsInv, NEW n, NEW output, Ends(n, output)
  PROVE  /\ c'.at = n + 1 /\ c'.output = "none"
         /\ c'.tools.calls = c.tools.calls + 1 /\ c'.tools.rounds = c.tools.rounds
         /\ c'.tools.effects = c.tools.effects + One(asked[n] \in Effects)
         /\ c'.tools.verification = c.tools.verification + One(Verifies(n, output))
         /\ c'.tools.recon = c.tools.recon + One(Reconnoitres(n, output))
         /\ c'.tools.denials = c.tools.denials /\ c'.tools.grace = c.tools.grace
         /\ c'.tools.only = c.tools.only /\ c'.tools.denied = c.tools.denied
         /\ c'.tools = Tallied(c.tools, c'.tools.calls, c'.tools.effects, c'.tools.verification, c'.tools.recon)
<1>1. n \in 1..Len(asked) /\ n = c.at /\ Len(asked) \in Nat
  BY CallShape DEF Ends, Base
<1>2. c.tools \in ToolsRange /\ (c.tools.effects > 0 <=> AfterEffect(n)) /\ asked[n] \in Kinds
  BY <1>1, CallParts, CallShape DEF Base
<1> DEFINE read == asked[n] \in Reads /\ output = "ok"
           n2 == One(read /\ IsVerification)
           n3 == One(read /\ ~IsVerification)
           n1 == One(asked[n] \in Effects)
<1>3. IsVerification <=> asked[n] = "check" /\ AfterEffect(n)
  BY <1>1, <1>2 DEF IsVerification, Kind
<1>4. n2 = One(Verifies(n, output)) /\ n3 = One(Reconnoitres(n, output))
  BY <1>3 DEF Verifies, Reconnoitres, One, Reads
<1>5. c' = [at |-> c.at + 1, output |-> "none",
            tools |-> [c.tools EXCEPT !.calls = @ + 1, !.effects = @ + n1, !.verification = @ + n2, !.recon = @ + n3]]
  BY <1>1 DEF Ends, Answered, Kind, One
<1> HIDE DEF n1, n2, n3
<1> DEFINE t == [c.tools EXCEPT !.calls = @ + 1, !.effects = @ + n1, !.verification = @ + n2, !.recon = @ + n3]
<1>6. /\ t.calls = c.tools.calls + 1 /\ t.rounds = c.tools.rounds /\ t.effects = c.tools.effects + n1
      /\ t.verification = c.tools.verification + n2 /\ t.recon = c.tools.recon + n3
      /\ t.denials = c.tools.denials /\ t.grace = c.tools.grace /\ t.only = c.tools.only /\ t.denied = c.tools.denied
  BY <1>2 DEF ToolsRange
<1>7. t = Tallied(c.tools, t.calls, t.effects, t.verification, t.recon)
  BY <1>6 DEF Tallied
<1>8. c'.at = n + 1 /\ c'.output = "none" /\ c'.tools = t
  BY <1>1, <1>5
<1> HIDE DEF t
<1> QED
  BY <1>4, <1>6, <1>7, <1>8 DEF n1

LEMMA EndsBefore ==
  ASSUME Base, ToolsInv, NEW n, NEW output, Ends(n, output)
  PROVE  /\ \A k \in 1..Len(asked) : k # n => (VerOk(k)' <=> VerOk(k)) /\ (ReconOk(k)' <=> ReconOk(k))
         /\ (VerOk(n)' <=> Verifies(n, output)) /\ (ReconOk(n)' <=> Reconnoitres(n, output))
         /\ \A m \in 1..n : VersBefore(m)' = VersBefore(m) /\ ReconsBefore(m)' = ReconsBefore(m)
         /\ VersBefore(c.at)' = VersBefore(n) \cup (IF Verifies(n, output) THEN {n} ELSE {})
         /\ ReconsBefore(c.at)' = ReconsBefore(n) \cup (IF Reconnoitres(n, output) THEN {n} ELSE {})
<1>1. n \in 1..Len(asked) /\ DOMAIN asked = 1..Len(asked) /\ Len(asked) \in Nat
  BY CallShape DEF Ends, Base
<1>2. UNCHANGED <<st, asked>> /\ results'[n] = output /\ \A k \in DOMAIN asked \ {n} : results'[k] = results[k]
  BY DEF Ends
<1>3. ASSUME NEW k \in 1..Len(asked), k # n
      PROVE  (VerOk(k)' <=> VerOk(k)) /\ (ReconOk(k)' <=> ReconOk(k))
  BY <1>1, <1>2, <1>3 DEF VerOk, ReconOk, AfterEffect
<1>4. (VerOk(n)' <=> Verifies(n, output)) /\ (ReconOk(n)' <=> Reconnoitres(n, output))
  BY <1>2 DEF VerOk, ReconOk, AfterEffect, Verifies, Reconnoitres
<1>5. ASSUME NEW m \in 1..n
      PROVE  VersBefore(m)' = VersBefore(m) /\ ReconsBefore(m)' = ReconsBefore(m)
  <2>1. \A k \in 1..(m - 1) : k \in 1..Len(asked) /\ k # n
    BY <1>1
  <2> QED
    BY <1>3, <2>1 DEF VersBefore, ReconsBefore
<1>6. c'.at = n + 1
  BY AnsweredFields
<1>7. 1..(c'.at - 1) = 1..n
  BY <1>1, <1>6
<1>8. /\ VersBefore(c.at)' = {k \in 1..n : VerOk(k)'}
      /\ ReconsBefore(c.at)' = {k \in 1..n : ReconOk(k)'}
  BY <1>7 DEF VersBefore, ReconsBefore
<1>9. \A k \in 1..n : k \in 1..(n - 1) \/ k = n
  BY <1>1
<1>10. \A k \in 1..(n - 1) : k \in 1..n /\ k \in 1..Len(asked) /\ k # n
  BY <1>1
<1>11. n \in 1..n
  BY <1>1
<1>12. VersBefore(c.at)' = VersBefore(n) \cup (IF Verifies(n, output) THEN {n} ELSE {})
  BY <1>3, <1>4, <1>8, <1>9, <1>10, <1>11 DEF VersBefore
<1>13. ReconsBefore(c.at)' = ReconsBefore(n) \cup (IF Reconnoitres(n, output) THEN {n} ELSE {})
  BY <1>3, <1>4, <1>8, <1>9, <1>10, <1>11 DEF ReconsBefore
<1> QED
  BY <1>3, <1>4, <1>5, <1>12, <1>13

LEMMA EndsFiles ==
  ASSUME Base, ToolsInv, NEW n, NEW output, Ends(n, output),
         Verifies(n, output) => c.tools.verification < MaxVerification,
         Reconnoitres(n, output) => c.tools.recon < MaxRecon
  PROVE  Files'
<1>1. /\ n \in 1..Len(asked) /\ DOMAIN asked = 1..Len(asked) /\ Len(asked) \in Nat /\ n = c.at /\ c.at > 0
      /\ output # "none" /\ Files
  BY CallShape DEF Ends, Base, ToolsInv
<1>2. /\ UNCHANGED <<st, asked>> /\ results'[n] = output /\ \A k \in DOMAIN asked \ {n} : results'[k] = results[k]
      /\ results[n] = "none" \/ results[n] = output
      /\ results \in [DOMAIN asked -> Outputs] /\ results' \in [DOMAIN asked -> Outputs]
  BY DEF Ends, Base, Shape, TurnShape
<1>3. /\ \A k \in 1..(n - 1) : results[k] # "none"
      /\ c.tools.verification = s.tools.verification + Cardinality(VersBefore(n))
      /\ c.tools.recon = s.tools.recon + Cardinality(ReconsBefore(n))
      /\ SameTools(s.tools, st.tools)
  <2>1. pc = "tools"
    BY DEF Ends
  <2> QED
    BY <1>1, <2>1, CallParts, HandlerParts
<1>4. CASE results[n] = output
  <2>1. results' = results
    BY <1>1, <1>2, <1>4
  <2> QED
    BY <1>1, <1>2, <2>1, FilesSame
<1>5. CASE results[n] = "none"
  <2>1. ASSUME NEW m \in DOMAIN asked, results'[m] # "none"
        PROVE  m <= n
    BY <1>1, <1>2, <1>5, <2>1 DEF Files
  <2>2. ASSUME NEW m \in DOMAIN asked, results'[m] # "none", NEW k \in 1..m
        PROVE  results'[k] # "none"
    BY <1>1, <1>2, <1>3, <2>1, <2>2
  <2>3. ASSUME NEW m \in DOMAIN asked, VerOk(m)'
        PROVE  st.tools.verification + Cardinality(VersBefore(m)') < MaxVerification
    <3>1. results'[m] = "ok"
      BY <2>3 DEF VerOk
    <3>2. m \in 1..n
      BY <1>1, <2>1, <3>1
    <3>3. VersBefore(m)' = VersBefore(m)
      BY <3>2, EndsBefore
    <3>4. CASE m = n
      BY <1>3, <2>3, <3>3, <3>4, EndsBefore DEF SameTools
    <3>5. CASE m # n
      BY <1>1, <2>3, <3>3, <3>5, EndsBefore DEF Files
    <3> QED
      BY <3>4, <3>5
  <2>4. ASSUME NEW m \in DOMAIN asked, ReconOk(m)'
        PROVE  st.tools.recon + Cardinality(ReconsBefore(m)') < MaxRecon
    <3>1. results'[m] = "ok"
      BY <2>4 DEF ReconOk
    <3>2. m \in 1..n
      BY <1>1, <2>1, <3>1
    <3>3. ReconsBefore(m)' = ReconsBefore(m)
      BY <3>2, EndsBefore
    <3>4. CASE m = n
      BY <1>3, <2>4, <3>3, <3>4, EndsBefore DEF SameTools
    <3>5. CASE m # n
      BY <1>1, <2>4, <3>3, <3>5, EndsBefore DEF Files
    <3> QED
      BY <3>4, <3>5
  <2> QED
    BY <1>2, <2>2, <2>3, <2>4 DEF Files
<1> QED
  BY <1>2, <1>4, <1>5

LEMMA EndsCounting ==
  ASSUME Base, ToolsInv, NEW n, NEW output, Ends(n, output),
         Verifies(n, output) => c.tools.verification < MaxVerification,
         Reconnoitres(n, output) => c.tools.recon < MaxRecon
  PROVE  Counting'
<1>1. /\ n \in 1..Len(asked) /\ DOMAIN asked = 1..Len(asked) /\ Len(asked) \in Nat /\ n = c.at /\ c.at > 0
      /\ output # "none" /\ pc = "tools" /\ Counting /\ n \in Nat /\ n > 0
  BY CallShape DEF Ends, Base, ToolsInv
<1>2. /\ UNCHANGED <<st, pc, asked>> /\ results'[n] = output /\ \A k \in DOMAIN asked \ {n} : results'[k] = results[k]
      /\ SameTools(s'.tools, s.tools) /\ (s.tools.only => s'.tools.only)
      /\ c.tools.calls < MaxCalls /\ (asked[n] \in Effects => c.tools.effects < MaxEffects)
  BY DEF Ends
<1>3. /\ \A k \in 1..(n - 1) : results[k] # "none"
      /\ c.tools.calls = s.tools.calls + n - 1
      /\ c.tools.effects > 0 <=> AfterEffect(n)
      /\ c.tools.verification = s.tools.verification + Cardinality(VersBefore(n))
      /\ c.tools.recon = s.tools.recon + Cardinality(ReconsBefore(n))
      /\ c.tools.denials = s.tools.denials /\ c.tools.grace = s.tools.grace
      /\ c.tools.rounds >= s.tools.rounds /\ c.tools \in ToolsRange
  BY <1>1, CallParts
<1>4. SameTools(s.tools, st.tools) /\ (st.tools.only => s.tools.only) /\ s.tools \in ToolsRange /\ asked # <<>>
  BY <1>1, HandlerParts DEF Counting
<1>5. /\ c'.at = n + 1 /\ c'.output = "none"
      /\ c'.tools.calls = c.tools.calls + 1 /\ c'.tools.rounds = c.tools.rounds
      /\ c'.tools.effects = c.tools.effects + One(asked[n] \in Effects)
      /\ c'.tools.verification = c.tools.verification + One(Verifies(n, output))
      /\ c'.tools.recon = c.tools.recon + One(Reconnoitres(n, output))
      /\ c'.tools.denials = c.tools.denials /\ c'.tools.grace = c.tools.grace
      /\ c'.tools = Tallied(c.tools, c'.tools.calls, c'.tools.effects, c'.tools.verification, c'.tools.recon)
  BY AnsweredFields
<1>6. c.tools.calls \in Nat /\ c.tools.effects \in Nat /\ c.tools.verification \in Nat /\ c.tools.recon \in Nat
      /\ s.tools.calls \in Nat /\ s.tools.verification \in Nat /\ s.tools.recon \in Nat
      /\ c.tools.effects \in 0..MaxEffects /\ c.tools.verification \in 0..MaxVerification /\ c.tools.recon \in 0..MaxRecon
  BY <1>3, <1>4, RangeParts DEF ToolsRange
<1>7. /\ c'.tools.calls \in 0..MaxCalls /\ c'.tools.effects \in 0..MaxEffects
      /\ c'.tools.verification \in 0..MaxVerification /\ c'.tools.recon \in 0..MaxRecon
  BY <1>2, <1>5, <1>6, CapsAreNat DEF One
<1>8. c'.tools \in ToolsRange
  <2>1. ASSUME NEW k1 \in 0..MaxCalls, NEW k2 \in 0..MaxEffects, NEW k3 \in 0..MaxVerification, NEW k4 \in 0..MaxRecon
        PROVE  Tallied(c.tools, k1, k2, k3, k4) \in ToolsRange
    BY <1>3 DEF ToolsRange, Tallied
  <2> QED
    BY <1>5, <1>7, <2>1
<1>9. /\ c'.tools.verification = s.tools.verification + Cardinality(VersBefore(c.at)')
      /\ c'.tools.recon = s.tools.recon + Cardinality(ReconsBefore(c.at)')
  <2>1. /\ VersBefore(c.at)' = VersBefore(n) \cup (IF Verifies(n, output) THEN {n} ELSE {})
        /\ ReconsBefore(c.at)' = ReconsBefore(n) \cup (IF Reconnoitres(n, output) THEN {n} ELSE {})
    BY EndsBefore
  <2>2. VersBefore(n) \subseteq 1..(n - 1) /\ ReconsBefore(n) \subseteq 1..(n - 1)
    BY DEF VersBefore, ReconsBefore
  <2>3. /\ Cardinality(VersBefore(n)) \in Nat
        /\ Cardinality(VersBefore(c.at)') = Cardinality(VersBefore(n)) + One(Verifies(n, output))
    BY <1>1, <2>1, <2>2, BeforeGrows DEF One
  <2>4. /\ Cardinality(ReconsBefore(n)) \in Nat
        /\ Cardinality(ReconsBefore(c.at)') = Cardinality(ReconsBefore(n)) + One(Reconnoitres(n, output))
    BY <1>1, <2>1, <2>2, BeforeGrows DEF One
  <2>5. One(Verifies(n, output)) \in Nat /\ One(Reconnoitres(n, output)) \in Nat
    BY DEF One
  <2> QED
    BY <1>3, <1>5, <1>6, <2>3, <2>4, <2>5
<1>10. (c'.tools.effects > 0) <=> (AfterEffect(c.at)')
  <2>1. 1..(c'.at - 1) = 1..n
    BY <1>1, <1>5
  <2>2. (AfterEffect(c.at)') <=> st.tools.effects > 0 \/ \E k \in 1..n : asked[k] \in Effects
    BY <1>2, <2>1 DEF AfterEffect
  <2>3. (AfterEffect(c.at)') <=> AfterEffect(n) \/ asked[n] \in Effects
    BY <1>1, <2>2 DEF AfterEffect
  <2>4. (c'.tools.effects > 0) <=> (c.tools.effects > 0 \/ asked[n] \in Effects)
    BY <1>5, <1>6 DEF One
  <2> QED
    BY <1>3, <2>3, <2>4
<1>11. c'.at <= Len(asked) + 1 /\ c'.tools.calls = s.tools.calls + c'.at - 1
  <2>1. c'.at = n + 1 /\ c'.tools.calls = c.tools.calls + 1 /\ c.tools.calls = s.tools.calls + n - 1
    BY <1>3, <1>5
  <2>2. n \in 1..Len(asked) /\ Len(asked) \in Nat /\ s.tools.calls \in Nat /\ c.tools.calls \in Nat
    BY <1>1, <1>6
  <2> QED
    BY <2>1, <2>2
<1>12. \A k \in 1..(c'.at - 1) : results'[k] # "none"
  <2>1. \A k \in 1..(c'.at - 1) : k = n \/ (k \in 1..(n - 1) /\ k \in DOMAIN asked \ {n})
    BY <1>1, <1>5
  <2> QED
    BY <1>1, <1>2, <1>3, <2>1
<1>13. SameTools(s'.tools, st'.tools) /\ (st'.tools.only => s'.tools.only)
  BY <1>2, <1>4 DEF SameTools
<1>14. c'.at > 0 /\ c'.at # 0
  BY <1>1, <1>5
<1> QED
  BY <1>1, <1>2, <1>3, <1>4, <1>5, <1>8, <1>9, <1>10, <1>11, <1>12, <1>13, <1>14 DEF Counting, SameTools

LEMMA EndsTools ==
  ASSUME Base, ToolsInv, NEW n, NEW output, Ends(n, output),
         Verifies(n, output) => c.tools.verification < MaxVerification,
         Reconnoitres(n, output) => c.tools.recon < MaxRecon
  PROVE  ToolsInv'
<1>1. Files' /\ Counting'
  BY EndsFiles, EndsCounting
<1>2. /\ UNCHANGED <<st, pc, asked, posts, ran, told, torn>> /\ results'[n] = output /\ output # "none"
      /\ \A k \in DOMAIN asked \ {n} : results'[k] = results[k]
      /\ n = c.at /\ s'.tools \in ToolsRange /\ pc = "tools" /\ n \in 1..Len(asked)
  BY DEF Ends
<1>3. TurnTyped' /\ Posted' /\ Once /\ Told
  BY <1>2 DEF ToolsInv, TurnTyped, Posted, Current, Submitting
<1>4. Once'
  BY <1>2, <1>3 DEF Once
<1>5. c.at > 0
  BY <1>2
<1>6. TerminalOnly' <=> TerminalOnly
  BY <1>2 DEF TerminalOnly, Batch
<1>7. Told'
  BY <1>2, <1>3, <1>5, <1>6 DEF Told, Current
<1> QED
  BY <1>1, <1>3, <1>4, <1>7 DEF ToolsInv

LEMMA DispatchTools ==
  ASSUME Base, ToolsInv, Dispatch
  PROVE  ToolsInv'
<1>1. /\ pc = "tools" /\ c.at \in DOMAIN asked /\ c.output = "none" /\ results[c.at] = "none"
      /\ c.tools.calls < MaxCalls /\ asked[c.at] \in Effects /\ c.tools.effects < MaxEffects
      /\ UNCHANGED <<st, s, pc, asked, results, posts, told, torn>> /\ ran' = [ran EXCEPT ![c.at] = @ + 1]
  BY DEF Dispatch, MayCall, Calling, Kind, NoFile
<1>2. /\ Files /\ Counting /\ TurnTyped /\ Once /\ Posted /\ Told /\ DOMAIN asked = 1..Len(asked) /\ Len(asked) \in Nat
      /\ c \in [at : Nat, tools : LooseTools, output : Outputs] /\ ran \in [DOMAIN asked -> Nat]
  BY <1>1, HandlerParts DEF ToolsInv, TurnShape
<1>3. c.at > 0 /\ c.at \in 1..Len(asked)
  BY <1>1, <1>2
<1>4. c'.at = c.at /\ c'.tools = c.tools /\ c'.output # "none"
  BY <1>2 DEF Dispatch, EffectOutputs
<1>5. Files' /\ TurnTyped'
  BY <1>1, <1>2, FilesSame DEF TurnTyped
<1>6. /\ (AfterEffect(c.at)' <=> AfterEffect(c.at))
      /\ VersBefore(c.at)' = VersBefore(c.at) /\ ReconsBefore(c.at)' = ReconsBefore(c.at)
  BY <1>1, <1>4 DEF AfterEffect, VersBefore, ReconsBefore, VerOk, ReconOk
<1>7. Counting'
  BY <1>1, <1>2, <1>3, <1>4, <1>6 DEF Counting, Running
<1>8. Once'
  <2>1. ASSUME ~torn, NEW n \in DOMAIN asked
        PROVE  ran'[n] <= 1 /\ (ran'[n] = 1 => results[n] # "none" \/ c.at = n)
    <3>1. CASE n = c.at
      <4>1. ran[n] <= 1 /\ ran[n] # 1 /\ ran[n] \in Nat
        BY <1>1, <1>2, <2>1, <3>1 DEF Once
      <4> QED
        BY <1>1, <1>2, <2>1, <3>1, <4>1
    <3>2. CASE n # c.at
      BY <1>1, <1>2, <2>1, <3>2 DEF Once
    <3> QED
      BY <3>1, <3>2
  <2> QED
    BY <1>1, <1>4, <2>1 DEF Once
<1>9. Posted'
  BY <1>1, <1>2 DEF Posted, Current, Submitting
<1>10. Told'
  <2>1. TerminalOnly' <=> TerminalOnly
    BY <1>1 DEF TerminalOnly, Batch
  <2> QED
    BY <1>1, <1>2, <1>3, <2>1 DEF Told, Current
<1> QED
  BY <1>5, <1>7, <1>8, <1>9, <1>10 DEF ToolsInv

LEMMA AnswerTools ==
  ASSUME Base, ToolsInv, FromFile \/ CallReads \/ RecordEffect
  PROVE  ToolsInv'
<1>1. pc = "tools"
  BY DEF FromFile, CallReads, RecordEffect, MayCall, Calling
<1>2. /\ Files /\ Counting /\ DOMAIN asked = 1..Len(asked) /\ Len(asked) \in Nat /\ s.tools \in ToolsRange
      /\ s \in Loose /\ results \in [DOMAIN asked -> Outputs] /\ c.at \in Nat /\ c.output \in Outputs
      /\ SameTools(s.tools, st.tools)
  BY <1>1, HandlerParts DEF ToolsInv, TurnShape
<1>3. SameTools(s.tools, s.tools)
  BY DEF SameTools
<1> DEFINE n == c.at
<1>4. c.at > 0
  BY <1>2 DEF FromFile, CallReads, RecordEffect, MayCall, Calling, Counting
<1>5. /\ c.at <= Len(asked) + 1 /\ c.tools \in ToolsRange
      /\ c.tools.effects > 0 <=> AfterEffect(n)
      /\ c.tools.verification = s.tools.verification + Cardinality(VersBefore(n))
      /\ c.tools.recon = s.tools.recon + Cardinality(ReconsBefore(n))
      /\ c.output # "none" => /\ c.at <= Len(asked) /\ asked[c.at] \in Effects
                              /\ results[c.at] = "none"
                              /\ c.tools.calls < MaxCalls /\ c.tools.effects < MaxEffects
  BY <1>4, CallParts
<1>6. n \in 1..Len(asked)
  BY <1>2, <1>4, <1>5 DEF FromFile, CallReads, RecordEffect, MayCall, Calling
<1>7. asked[n] \in Kinds /\ Effects \cap Reads = {} /\ "check" \notin Effects
  BY <1>2, <1>6, CallShape DEF Base, Effects, Reads
<1> HIDE DEF n
<1>8. CASE FromFile
  <2> DEFINE o == results[n]
  <2>1. o \in {"ok", "error"} /\ results' = results /\ c' = Answered(o)
    BY <1>2, <1>6, <1>8 DEF FromFile, Outputs, n
  <2>2. Ends(n, o)
    BY <1>1, <1>2, <1>3, <1>6, <1>8, <2>1 DEF Ends, FromFile, MayCall, Calling, Kind, n
  <2>3. Verifies(n, o) => c.tools.verification < MaxVerification
    BY <1>2, <1>5, <1>6 DEF Verifies, Files, VerOk, SameTools
  <2>4. Reconnoitres(n, o) => c.tools.recon < MaxRecon
    BY <1>2, <1>5, <1>6 DEF Reconnoitres, Files, ReconOk, SameTools
  <2> HIDE DEF o
  <2> QED
    BY <2>2, <2>3, <2>4, EndsTools
<1>9. CASE CallReads
  <2>1. PICK o \in ReadOutputs : Record(o) /\ c' = Answered(o)
    BY <1>9 DEF CallReads
  <2>2. o \in {"ok", "error"}
    BY DEF ReadOutputs
  <2>3. results' = [results EXCEPT ![n] = o] /\ results[n] = "none"
    BY <1>9, <2>1 DEF Record, CallReads, NoFile, n
  <2>4. results' \in [DOMAIN asked -> Outputs] /\ results'[n] = o /\ \A k \in DOMAIN asked \ {n} : results'[k] = results[k]
    BY <1>2, <1>6, <2>2, <2>3 DEF Outputs
  <2>5. SameTools(s'.tools, s.tools) /\ (s.tools.only => s'.tools.only) /\ s'.tools \in ToolsRange
    <3>1. CASE OutOfVerifications
      <4> DEFINE t == [s.tools EXCEPT !.only = TRUE, !.denied = FALSE]
      <4>1. s'.tools = t
        BY <1>2, <1>9, <3>1 DEF CallReads, Loose, LooseTools
      <4>2. t \in ToolsRange /\ SameTools(t, s.tools) /\ t.only
        BY <1>2 DEF ToolsRange, SameTools
      <4> QED
        BY <4>1, <4>2
    <3>2. CASE ~OutOfVerifications
      BY <1>2, <1>3, <1>9, <3>2 DEF CallReads
    <3> QED
      BY <3>1, <3>2
  <2>6. Ends(n, o)
    BY <1>1, <1>2, <1>6, <1>9, <2>1, <2>2, <2>3, <2>4, <2>5 DEF Ends, CallReads, MayCall, Calling, Kind, n
  <2>7. c.tools.verification \in Nat /\ c.tools.recon \in Nat /\ MaxVerification \in Nat /\ MaxRecon \in Nat
    BY <1>5, RangeParts, CapsAreNat
  <2>8. Verifies(n, o) => c.tools.verification < MaxVerification
    BY <1>5, <2>7 DEF Verifies, ReadOutputs, OutOfVerifications, IsVerification, Kind, n
  <2>9. Reconnoitres(n, o) => c.tools.recon < MaxRecon
    BY <1>5, <2>7 DEF Reconnoitres, ReadOutputs, OutOfRecon, IsVerification, Kind, n
  <2> QED
    BY <2>6, <2>8, <2>9, EndsTools
<1>10. CASE RecordEffect
  <2> DEFINE o == c.output
  <2>1. /\ o \in {"ok", "error"} /\ results' = [results EXCEPT ![n] = o] /\ results[n] = "none" /\ c' = Answered(o)
        /\ asked[n] \in Effects
    BY <1>2, <1>5, <1>10 DEF RecordEffect, Outputs, Record, n
  <2>2. results' \in [DOMAIN asked -> Outputs] /\ results'[n] = o /\ \A k \in DOMAIN asked \ {n} : results'[k] = results[k]
    BY <1>2, <1>6, <2>1 DEF Outputs
  <2>3. c.tools.calls < MaxCalls /\ c.tools.effects < MaxEffects
    BY <1>5, <1>10 DEF RecordEffect
  <2>4. Ends(n, o)
    BY <1>1, <1>2, <1>3, <1>6, <1>10, <2>1, <2>2, <2>3 DEF Ends, RecordEffect, n
  <2>5. ~Verifies(n, o) /\ ~Reconnoitres(n, o)
    BY <1>7, <2>1 DEF Verifies, Reconnoitres
  <2> HIDE DEF o
  <2> QED
    BY <2>4, <2>5, EndsTools
<1> QED
  BY <1>8, <1>9, <1>10

LEMMA PostResultsTools ==
  ASSUME Base, ToolsInv, PostResults
  PROVE  ToolsInv'
<1>1. pc = "tools" /\ c.at > Len(asked)
  BY DEF PostResults
<1>2. /\ s.tools \in ToolsRange /\ Len(asked) \in Nat /\ Len(asked) > 0 /\ c.at \in Nat
      /\ (told /\ ~torn => OutcomeIsLeft(s.tools))
  BY <1>1, HandlerParts
<1>3. c.at > 0
  BY <1>1, <1>2
<1>4. /\ c.tools \in ToolsRange /\ c.tools.calls = s.tools.calls + c.at - 1 /\ c.tools.grace = s.tools.grace
      /\ c.tools.rounds >= s.tools.rounds
  BY <1>3, CallParts
<1>5. s.tools.only \in BOOLEAN /\ s.tools.denied \in BOOLEAN /\ s.tools.calls \in Nat /\ s.tools.rounds \in Nat
      /\ c.tools.rounds \in Nat /\ MaxRounds \in Nat
  BY <1>2, <1>4, RangeParts, CapsAreNat
<1> DEFINE y == [c.tools EXCEPT !.only = s.tools.only, !.denied = s.tools.denied]
<1>6. /\ y \in ToolsRange /\ y.calls = c.tools.calls /\ y.only = s.tools.only /\ y.grace = c.tools.grace
      /\ y.rounds = c.tools.rounds
  BY <1>4, <1>5 DEF ToolsRange
<1>7. Post(y, s.tools.only)
  BY DEF PostResults
<1> HIDE DEF y
<1>8. y.calls > s.tools.calls
  BY <1>1, <1>2, <1>4, <1>5, <1>6
<1>9. ~torn /\ (told \/ s.tools.only) => OutcomeIsLeft(y)
  <2>1. s.tools.rounds >= MaxRounds => y.rounds >= MaxRounds
    BY <1>4, <1>5, <1>6
  <2> QED
    BY <1>2, <1>4, <1>6, <2>1 DEF OutcomeIsLeft
<1> QED
  BY <1>1, <1>5, <1>6, <1>7, <1>8, <1>9, PostTools

LEMMA SaveToolsTools ==
  ASSUME Base, ToolsInv, SaveTools
  PROVE  ToolsInv'
<1>1. /\ pc = "posted" /\ pc' = "loop" /\ st' = s /\ s' = s /\ UNCHANGED <<asked, results, c, posts, ran, told, torn>>
  BY DEF SaveTools, toolVars
<1>2. Flow /\ Counting /\ TurnTyped /\ Posted /\ Told /\ c.at \in Nat
  BY CallShape DEF Base, ToolsInv
<1>3. asked = <<>> /\ DOMAIN asked = {} /\ c.at = 0 /\ c.output = "none" /\ s.session = st.session
  BY <1>1, <1>2, EmptySeq DEF Flow, Counting, Running
<1>4. Files' /\ Once'
  BY <1>1, <1>3 DEF Files, Once
<1>5. Counting' /\ TurnTyped'
  BY <1>1, <1>2, <1>3 DEF Counting, TurnTyped, Running
<1>6. Posted' /\ Told'
  BY <1>1, <1>2, <1>3 DEF Posted, Told, Current, Submitting
<1> QED
  BY <1>4, <1>5, <1>6 DEF ToolsInv

LEMMA HandlerTools ==
  ASSUME Base, ToolsInv, handle_required_actions
  PROVE  ToolsInv'
<1>1. CASE CallRaises
  <2>1. pc = "tools" /\ c.output = "none" /\ Stop("boundary") /\ UNCHANGED s
    BY <1>1 DEF CallRaises, Calling
  <2> QED
    BY <2>1, StopTools
<1> QED
  BY <1>1, DenialTools, WorkTools, DispatchTools, AnswerTools, PostResultsTools, SaveToolsTools
     DEF handle_required_actions

LEMMA ToolsNext ==
  ASSUME Base, ToolsInv, [Next]_vars
  PROVE  ToolsInv'
<1>1. Base'
  BY BaseNext
<1>2. CASE Tools
  BY <1>2, HandlerTools DEF Tools
<1> QED
  BY <1>1, <1>2, LoopTools

LEMMA ToolsInit == Init => ToolsInv
<1> SUFFICES ASSUME Init PROVE ToolsInv
  OBVIOUS
<1>1. asked = <<>> /\ DOMAIN asked = {} /\ c.at = 0 /\ c.output = "none" /\ pc = "loop" /\ st.session = NoSession
      /\ st.tools = NoTools /\ s.tools = NoTools /\ posts = 0 /\ MaxCalls \in Nat
  BY EmptySeq, CapsAreNat DEF Init, NoCall, Fresh
<1>2. Files /\ Once
  BY <1>1 DEF Files, Once
<1>3. Counting /\ TurnTyped
  BY <1>1, NoToolsRange DEF Counting, TurnTyped, Running
<1>4. Posted /\ Told
  BY <1>1 DEF Posted, Told, Submitting
<1> QED
  BY <1>2, <1>3, <1>4 DEF ToolsInv

-----------------------------------------------------------------------------
(* The token ledger and the caps of the permit.                              *)

MoneyInv == Ledger /\ Caps

LEMMA CoveredAlike ==
  ASSUME NEW x, NEW y, NEW id, NEW day, NEW n1, NEW n2, y.permit = x.permit, SamePurse(y, x),
         CoveredBy(x, id, day, n1, n2)
  PROVE  CoveredBy(y, id, day, n1, n2)
BY DEF CoveredBy, SamePurse, Slack

LEMMA CoveredLess ==
  ASSUME NEW x \in Loose, NEW id, NEW day, NEW n1 \in Nat, NEW n2 \in Nat, NEW m1 \in Nat, NEW m2 \in Nat,
         m1 <= n1, m2 <= n2, CoveredBy(x, id, day, n1, n2)
  PROVE  CoveredBy(x, id, day, m1, m2)
<1>1. x.actual + x.reserved \in Nat /\ x.dayActual + x.dayReserved \in Nat
  BY DEF Loose
<1>2. Slack(x) \in Nat
  BY PermitAssumption DEF Slack
<1> QED
  BY <1>1, <1>2 DEF CoveredBy

Accounted(x, n) == [x EXCEPT !.accounted = n]

LEMMA LooseAccounted ==
  ASSUME NEW x \in Loose, NEW n \in Nat
  PROVE  Accounted(x, n) \in Loose /\ SamePurse(Accounted(x, n), x) /\ Accounted(x, n).permit = x.permit
BY DEF Loose, SamePurse, Accounted

LEMMA CoveredSettled ==
  ASSUME NEW x \in Loose, x.live, NEW id, NEW day, NEW n1 \in Nat, NEW n2 \in Nat, CoveredBy(x, id, day, n1, n2),
         NEW reported \in Nat, NEW waited, settle_session_usage(x, reported, waited)
  PROVE  CoveredBy(s', id, day, n1, n2)
<1> DEFINE delta == Delta(x, reported)
           y == Accounted(x, x.accounted + delta)
<1>1. x.accounted \in Nat /\ delta \in Nat /\ delta > 0
  BY PermitAssumption DEF Loose, Delta
<1>2. s' = Charge(y, delta)
  BY DEF settle_session_usage, Delta, Accounted
<1> HIDE DEF delta
<1>3. x.accounted + delta \in Nat
  BY <1>1
<1>a. y \in Loose /\ SamePurse(y, x) /\ y.permit = x.permit
  BY <1>3, LooseAccounted
<1> HIDE DEF y
<1>4. CoveredBy(y, id, day, n1, n2)
  BY <1>a, CoveredAlike
<1>5. y.live /\ y.reserved = Reservation /\ y.dayReserved >= Reservation
  BY <1>a, <1>4 DEF CoveredBy, SamePurse
<1>6. y.actual \in Nat /\ y.dayActual \in Nat /\ y.reserved \in Nat /\ y.dayReserved \in Nat
      /\ Reservation \in Nat \ {0} /\ Slack(y) = Reservation - 1
  BY <1>a, <1>5, PermitAssumption DEF Loose, Slack
<1>7. s' = Charged(y, y.actual + delta, y.dayActual + delta, Less(y.reserved), Less(y.dayReserved))
  BY <1>1, <1>a, <1>2, ChargeShape
<1>8. /\ s'.permit = y.permit /\ s'.day = y.day /\ s'.live = FALSE /\ s'.actual = y.actual + delta
      /\ s'.dayActual = y.dayActual + delta /\ s'.reserved = Less(y.reserved) /\ s'.dayReserved = Less(y.dayReserved)
  BY <1>a, <1>7 DEF Loose, Charged
<1>9. Less(y.reserved) = 0 /\ Less(y.dayReserved) = y.dayReserved - Reservation
  BY <1>5, <1>6 DEF Less
<1>10. /\ s'.actual + s'.reserved + Slack(y) >= y.actual + y.reserved
       /\ s'.dayActual + s'.dayReserved + Slack(y) >= y.dayActual + y.dayReserved
  BY <1>1, <1>5, <1>6, <1>8, <1>9
<1>11. /\ s'.actual + s'.reserved \in Nat /\ y.actual + y.reserved \in Nat
       /\ s'.dayActual + s'.dayReserved \in Nat /\ y.dayActual + y.dayReserved \in Nat
       /\ Slack(y) \in Nat /\ Slack(s') = 0
  BY <1>1, <1>5, <1>6, <1>8, <1>9 DEF Slack
<1>b. y.permit = id => n1 + Slack(s') <= s'.actual + s'.reserved
  BY <1>4, <1>10, <1>11 DEF CoveredBy
<1>13. y.day = day => n2 + Slack(s') <= s'.dayActual + s'.dayReserved
  BY <1>4, <1>10, <1>11 DEF CoveredBy
<1> QED
  BY <1>4, <1>8, <1>9, <1>b, <1>13 DEF CoveredBy

LEMMA CoveredRolled ==
  ASSUME NEW x \in Loose, today \in Nat, NEW id, NEW n1, NEW n2 \in Nat, CoveredBy(x, id, today, n1, n2)
  PROVE  /\ CoveredBy(refresh_budget_state(x), id, today, n1, n2)
         /\ x.live \/ refresh_budget_state(x).day = today
<1>1. CASE x.day = today \/ x.live
  BY <1>1 DEF refresh_budget_state
<1>2. CASE ~(x.day = today \/ x.live)
  <2> DEFINE y == [x EXCEPT !.day = today, !.dayActual = 0, !.dayReserved = 0]
  <2>1. y.day = today /\ y.dayActual = 0 /\ y.dayReserved = 0 /\ y.live = x.live /\ y.reserved = x.reserved
        /\ y.actual = x.actual /\ y.permit = x.permit
    BY DEF Loose
  <2>2. n2 = 0
    BY <1>2 DEF CoveredBy
  <2>3. refresh_budget_state(x) = y
    BY <1>2 DEF refresh_budget_state
  <2> HIDE DEF y
  <2> QED
    BY <1>2, <2>1, <2>2, <2>3 DEF CoveredBy, Slack
<1> QED
  BY <1>1, <1>2

LEMMA OwedShape ==
  ASSUME Shape
  PROVE  /\ Owed \in {0, 1} /\ sent.permit + Owed \in Nat /\ sent.day + Owed \in Nat
         /\ sent.permit \in Nat /\ sent.day \in Nat
BY Parts DEF Owed

LEMMA CappedSame ==
  ASSUME NEW x, NEW y, SameCount(y, x), y.rotations = x.rotations, Capped(x)
  PROVE  Capped(y)
BY DEF Capped, SameCount

LEMMA LooseCounts ==
  ASSUME NEW x \in Loose
  PROVE  /\ x.submits \in Nat /\ x.total \in Nat /\ x.autonomous \in Nat /\ x.rotations \in Nat
         /\ x.actual \in Nat /\ x.reserved \in Nat /\ x.dayActual \in Nat /\ x.dayReserved \in Nat
BY DEF Loose

\* Alike, but for the counters of the turn's calls.
Even(y, x) ==
    /\ SameTurn(y, x) /\ SameCount(y, x) /\ SamePurse(y, x)
    /\ y.rotations = x.rotations /\ (y.awaiting => x.awaiting)
EvenStep == Even(s', s) /\ (Even(st', st) \/ Even(st', s))

LEMMA AlikeIsEven ==
  /\ \A x : Even(x, x)
  /\ AlikeStep => EvenStep
BY DEF Even, EvenStep, AlikeStep, Alike, Near, SameTurn, SameCount, SamePurse

\* Nothing new is owed, and what the ledger holds stays or grows.
LEMMA NearLedger ==
  ASSUME Base, Base', Ledger, Running, EvenStep \/ RotateStep \/ SettleStep \/ RollStep,
         UNCHANGED <<permit, today>>,
         sent'.permit + Owed' <= sent.permit + Owed, sent'.day + Owed' <= sent.day + Owed
  PROVE  Ledger'
<1>1. /\ Shape /\ Shape' /\ st \in Loose /\ s \in Loose /\ today \in Nat /\ s' \in Loose /\ st' \in Loose
      /\ sent.permit + Owed \in Nat /\ sent.day + Owed \in Nat
      /\ sent'.permit + Owed' \in Nat /\ sent'.day + Owed' \in Nat
  <2>1. Shape /\ Shape'
    BY DEF Base
  <2>2. sent'.permit + Owed' \in Nat /\ sent'.day + Owed' \in Nat
    <3>1. sent' \in [permit : Nat, day : Nat] /\ Owed' \in {0, 1}
      BY <2>1 DEF Shape, PlaceShape, Owed
    <3>2. sent'.permit \in Nat /\ sent'.day \in Nat
      BY <3>1
    <3> QED
      BY <3>1, <3>2
  <2>3. s' \in Loose /\ st' \in Loose
    BY <2>1 DEF Shape
  <2> QED
    BY <2>1, <2>2, <2>3, Parts, OwedShape
<1> DEFINE C(x) == CoveredBy(x, permit.id, today, sent.permit + Owed, sent.day + Owed)
<1>2. C(s) /\ C(st)
  BY DEF Ledger, Covered
<1>3. C(s') /\ C(st')
  <2>1. CASE EvenStep
    BY <1>2, <2>1, CoveredAlike DEF EvenStep, Even, SameTurn
  <2>2. CASE RotateStep
    BY <1>2, <2>2, CoveredAlike DEF RotateStep, Near, SameTurn
  <2>3. CASE SettleStep
    BY <1>1, <1>2, <2>3, CoveredSettled DEF SettleStep
  <2>4. CASE RollStep
    BY <1>1, <1>2, <2>4, CoveredRolled DEF RollStep, Rolled
  <2> QED
    BY <2>1, <2>2, <2>3, <2>4
<1>4. s'.reserved = IF s'.live THEN Reservation ELSE 0
  BY <1>3 DEF CoveredBy
<1> HIDE DEF C
<1>5. /\ CoveredBy(s', permit.id, today, sent'.permit + Owed', sent'.day + Owed')
      /\ CoveredBy(st', permit.id, today, sent'.permit + Owed', sent'.day + Owed')
  BY <1>1, <1>3, CoveredLess DEF C
<1>6. Covered(s)' /\ Covered(st)'
  BY <1>5 DEF Covered
<1> QED
  BY <1>4, <1>6 DEF Ledger

LEMMA NearCaps ==
  ASSUME Base, Base', Caps, Running, permit' = permit,
         RotateStep \/ ((EvenStep \/ SettleStep \/ RollStep) /\ lock' = lock),
         Submitting' => Submitting /\ EvenStep /\ (pc' = "sent" => s.submits < SessionSubmits)
                        /\ (pc' # "sent" => pc \in {"created", "sent", "count"}),
         pc' # "send"
  PROVE  Caps'
<1>1. /\ s \in Loose /\ st \in Loose /\ lock \in Nat /\ permit.base \in Nat /\ Flow /\ Shape
  BY Parts DEF Base
<1>2. s.rotations \in Nat /\ st.rotations \in Nat /\ MaxRotations \in Nat
  BY <1>1, LooseCounts, PermitAssumption
<1>3. Capped(st) /\ Capped(s) /\ permit.base <= lock /\ s.rotations + permit.base <= lock
      /\ st.rotations + permit.base <= lock /\ st.permit = permit.id
  BY <1>1 DEF Caps, Flow
<1>4. CASE RotateStep
  <2>1. lock' = lock + 1 /\ lock + 1 \in permit.base .. permit.base + MaxRotations /\ s'.rotations = s.rotations + 1
        /\ st' = st /\ SameCount(s', s)
    BY <1>4 DEF RotateStep, rotate_to_next_authorized_gate, Authorized, Near
  <2>2. s'.rotations + permit.base <= lock' /\ s'.rotations <= MaxRotations + 1 /\ permit.base <= lock'
        /\ st'.rotations + permit.base <= lock'
    BY <1>1, <1>2, <1>3, <2>1
  <2>3. Capped(s') /\ Capped(st')
    BY <1>3, <2>1, <2>2 DEF Capped, SameCount
  <2>4. Submitting' => EvenStep
    OBVIOUS
  <2>5. ~EvenStep
    BY <1>2, <2>1 DEF EvenStep, Even
  <2> QED
    BY <2>2, <2>3, <2>4, <2>5 DEF Caps, Submitting
<1>5. CASE (EvenStep \/ SettleStep \/ RollStep) /\ lock' = lock
  <2>1. /\ SameCount(s', s) /\ s'.rotations = s.rotations
        /\ \/ SameCount(st', st) /\ st'.rotations = st.rotations
           \/ SameCount(st', s) /\ st'.rotations = s.rotations
    <3>1. CASE EvenStep
      BY <3>1 DEF EvenStep, Even
    <3>2. CASE SettleStep
      BY <3>2 DEF SettleStep, Near
    <3>3. CASE RollStep
      BY <3>3 DEF RollStep, Near, SameCount
    <3> QED
      BY <1>5, <3>1, <3>2, <3>3
  <2>2. Capped(s') /\ Capped(st')
    BY <1>3, <2>1, CappedSame
  <2>3. s'.rotations + permit.base <= lock /\ st'.rotations + permit.base <= lock
    BY <1>3, <2>1
  <2>4. Submitting' => s'.total < MaxSubmits
    BY <2>1 DEF Caps, Submitting, SameCount
  <2>5. pc' \in {"created", "sent", "count"} => s'.submits < SessionSubmits
    BY <2>1 DEF Caps, Submitting, SameCount
  <2> QED
    BY <1>3, <1>5, <2>2, <2>3, <2>4, <2>5 DEF Caps, Submitting
<1> QED
  BY <1>4, <1>5


LEMMA NothingOwed ==
  ASSUME Shape, sent' = sent, pc' # "send"
  PROVE  sent'.permit + Owed' <= sent.permit + Owed /\ sent'.day + Owed' <= sent.day + Owed
<1>1. Owed' = 0 /\ Owed \in {0, 1} /\ sent.permit \in Nat /\ sent.day \in Nat
  BY Parts DEF Owed
<1> QED
  BY <1>1

LEMMA AdoptMoney ==
  ASSUME Base, Base', MoneyInv, AdoptPermit
  PROVE  MoneyInv'
<1>1. /\ st \in Loose /\ today \in Nat /\ permit.id \in Nat /\ pc = "loop" /\ lock \in Nat /\ permit.base \in Nat
      /\ sent.permit \in Nat /\ sent.day \in Nat /\ sent \in [permit : Nat, day : Nat]
  BY Parts DEF Base, Shape, PlaceShape, AdoptPermit
<1> DEFINE old == refresh_budget_state(st)
<1>2. Owed = 0 /\ Owed' = 0
  BY <1>1 DEF Owed, AdoptPermit
<1>3. CoveredBy(st, permit.id, today, sent.permit, sent.day)
  BY <1>1, <1>2 DEF MoneyInv, Ledger, Covered
<1>4. CoveredBy(old, permit.id, today, sent.permit, sent.day)
  BY <1>1, <1>3, CoveredRolled
<1>5. old \in Loose
  BY <1>1, RefreshShape
<1>6. st' = Adopted(Fresh, permit.id, old.day, old.nonce, old.dayActual, old.dayReserved, old.event)
  BY DEF AdoptPermit, Adopted
<1> HIDE DEF old
<1>7. /\ st'.permit = permit.id /\ st'.actual = 0 /\ st'.reserved = 0 /\ st'.live = FALSE /\ st'.day = old.day
      /\ st'.dayActual = old.dayActual /\ st'.dayReserved = old.dayReserved
      /\ st'.submits = 0 /\ st'.total = 0 /\ st'.autonomous = 0 /\ st'.rotations = 0
  BY <1>6 DEF Adopted, Fresh
<1>8. sent'.permit = 0 /\ sent'.day = sent.day /\ UNCHANGED <<s, pc, permit, today, lock>>
  BY <1>1 DEF AdoptPermit, outside
<1>a. old.dayActual + old.dayReserved \in Nat /\ Slack(old) \in Nat /\ Slack(st') = 0
  BY <1>5, <1>7, PermitAssumption DEF Loose, Slack
<1>9. CoveredBy(st', permit.id, today, 0, sent.day)
  BY <1>1, <1>4, <1>7, <1>a DEF CoveredBy
<1>10. Ledger'
  BY <1>1, <1>2, <1>8, <1>9 DEF MoneyInv, Ledger, Covered, Running
<1>11. Capped(st')
  BY <1>7, PermitAssumption DEF Capped
<1>12. Caps'
  BY <1>1, <1>7, <1>8, <1>11 DEF MoneyInv, Caps, Running
<1> QED
  BY <1>10, <1>12 DEF MoneyInv

LEMMA FindMoney ==
  ASSUME Base, Base', MoneyInv, Find
  PROVE  MoneyInv'
<1>1. /\ st \in Loose /\ today \in Nat /\ lock \in Nat /\ permit.base \in Nat /\ sent.permit \in Nat /\ sent.day \in Nat
      /\ pc = "loop" /\ st.permit = permit.id /\ s' = refresh_budget_state(st) /\ (st' = st \/ st' = s')
      /\ pc' \in {"submit", "idle", "tools", "settle", "boundary"} /\ UNCHANGED <<permit, today, lock, sent>>
  BY Parts DEF Base, Find, FindNoSession, FindIdle, FindCalls, FindFailed, FindTimeout, Reading, Still, outside, past
<1>2. Owed = 0 /\ Owed' = 0
  BY <1>1 DEF Owed
<1>3. CoveredBy(st, permit.id, today, sent.permit, sent.day)
  BY <1>1, <1>2 DEF MoneyInv, Ledger, Covered
<1>4. CoveredBy(s', permit.id, today, sent.permit, sent.day)
  BY <1>1, <1>3, CoveredRolled
<1>5. Ledger'
  <2>1. s'.reserved = IF s'.live THEN Reservation ELSE 0
    BY <1>4 DEF CoveredBy
  <2>2. CoveredBy(st', permit.id, today, sent.permit, sent.day)
    BY <1>1, <1>3, <1>4
  <2> QED
    BY <1>1, <1>2, <1>4, <2>1, <2>2 DEF Ledger, Covered
<1>6. Near(s', st) /\ s'.rotations = st.rotations
  BY <1>1, NearRefresh
<1>7. Capped(st) /\ st.rotations + permit.base <= lock /\ permit.base <= lock
  BY <1>1 DEF MoneyInv, Caps
<1>8. Capped(s')
  BY <1>6, <1>7, CappedSame DEF Near
<1>9. Caps'
  BY <1>1, <1>6, <1>7, <1>8 DEF Caps
<1> QED
  BY <1>5, <1>9 DEF MoneyInv

\* The calls of a turn touch the counters of its calls only.
LEMMA ToolsEven ==
  ASSUME Base, Tools
  PROVE  /\ EvenStep
         /\ UNCHANGED <<lock, moved, unsure, sent, permit, today, sessions>>
         /\ pc \in {"tools", "posted"} /\ pc' \in {"tools", "posted", "boundary", "recover", "loop"}
<1>1. s \in Loose /\ st \in Loose /\ Shape
  BY Parts DEF Base
<1>2. UNCHANGED <<lock, moved, unsure, sent, permit, today, sessions>>
  BY DEF Tools, outside, past
<1>3. ASSUME NEW t
      PROVE  Even([s EXCEPT !.tools = t], s)
  BY <1>1 DEF Loose, Even, SameTurn, SameCount, SamePurse
<1>4. Even(s, s) /\ Even(st, st)
  BY AlikeIsEven
<1>5. CASE SaveTools
  BY <1>2, <1>4, <1>5 DEF SaveTools, EvenStep
<1> DEFINE Goal == EvenStep /\ pc \in {"tools", "posted"} /\ pc' \in {"tools", "posted", "boundary", "recover", "loop"}
<1>6. ASSUME NEW tools, NEW tells, Post(tools, tells), pc = "tools"
      PROVE  Goal
  BY <1>3, <1>4, <1>6 DEF Post, EvenStep
<1>7. ASSUME NEW how \in {"boundary", "recover"}, Stop(how), UNCHANGED s, pc = "tools"
      PROVE  Goal
  BY <1>4, <1>7 DEF Stop, EvenStep
<1>8. CASE Work \/ FromFile \/ Dispatch \/ RecordEffect
  BY <1>2, <1>4, <1>8 DEF Work, FromFile, Dispatch, RecordEffect, EvenStep, Handling, MayCall, Calling
<1>9. CASE CallReads
  <2>1. Even(s', s)
    <3>1. [s EXCEPT !.tools.only = TRUE, !.tools.denied = FALSE] =
             [s EXCEPT !.tools = [s.tools EXCEPT !.only = TRUE, !.denied = FALSE]]
      BY <1>1 DEF Loose
    <3> QED
      BY <1>3, <1>4, <1>9, <3>1 DEF CallReads
  <2> QED
    BY <1>2, <1>4, <1>9, <2>1 DEF CallReads, EvenStep, MayCall, Calling
<1> HIDE DEF Goal
<1>10. OutcomeOnlyDenial => Goal
  BY <1>6, <1>7 DEF OutcomeOnlyDenial, Handling
<1>11. VerificationDenial => Goal
  BY <1>6, <1>7 DEF VerificationDenial, Handling
<1>12. ReconDenial => Goal
  BY <1>6, <1>7 DEF ReconDenial, Handling
<1>13. RoundDenial => Goal
  BY <1>6, <1>7 DEF RoundDenial, Handling
<1>14. CallRaises => Goal
  BY <1>7 DEF CallRaises, Calling
<1>15. PostResults => Goal
  BY <1>6 DEF PostResults
<1>16. Goal
  BY <1>5, <1>8, <1>9, <1>10, <1>11, <1>12, <1>13, <1>14, <1>15 DEF Tools, handle_required_actions, Goal
<1> QED
  BY <1>2, <1>16 DEF Goal

\* The steps that touch neither the ledger nor the counters of a submission.
LEMMA QuietMoney ==
  ASSUME Base, Base', MoneyInv, Tools \/ Close \/ (Abort /\ ~DropSession)
  PROVE  MoneyInv'
<1>1. Shape
  BY DEF Base
<1>2. /\ RotateStep \/ ((EvenStep \/ SettleStep) /\ lock' = lock)
      /\ UNCHANGED <<sent, permit, today>>
      /\ pc \notin {"loop", "stopped"} /\ pc' \notin {"send", "created", "sent", "count"}
  BY ToolsEven, CloseNear, AbortNear, AlikeIsEven
<1>3. sent'.permit + Owed' <= sent.permit + Owed /\ sent'.day + Owed' <= sent.day + Owed
  BY <1>1, <1>2, NothingOwed
<1>4. Ledger'
  BY <1>2, <1>3, NearLedger DEF MoneyInv, Running
<1>5. Caps'
  BY <1>2, NearCaps DEF MoneyInv, Running, Submitting
<1> QED
  BY <1>4, <1>5 DEF MoneyInv

LEMMA SubmitMoney ==
  ASSUME Base, Base', MoneyInv,
         background_event \/ Sleep \/ Exhausted \/ send_prepared_input \/ SubmissionUnknown \/ _commit_prepared_input
  PROVE  MoneyInv'
<1>1. /\ Shape /\ sent.permit \in Nat /\ sent.day \in Nat /\ s.submits \in Nat /\ SessionSubmits \in Nat
  BY Parts, LooseCounts, PermitAssumption DEF Base
<1>2. /\ EvenStep \/ RollStep
      /\ UNCHANGED <<lock, permit, today>>
      /\ pc \in {"submit", "send", "created", "sent"} /\ pc' \in {"submit", "loop", "stopped", "sent", "count"}
      /\ (sent' = sent \/ pc = "send")
  BY SubmitNear, AlikeIsEven
<1>3. sent'.permit + Owed' <= sent.permit + Owed /\ sent'.day + Owed' <= sent.day + Owed
  <2>1. CASE sent' = sent
    BY <1>1, <1>2, <2>1, NothingOwed
  <2>2. CASE pc = "send" /\ Delivered
    <3>1. sent'.permit = sent.permit + 1 /\ sent'.day = sent.day + 1
      BY <2>2 DEF Delivered
    <3> QED
      BY <1>1, <1>2, <2>2, <3>1 DEF Owed
  <2> QED
    BY <1>2, <2>1, <2>2 DEF background_event, Sleep, Exhausted, send_prepared_input, SubmissionUnknown,
       _commit_prepared_input, Still, past
<1>4. Ledger'
  BY <1>2, <1>3, NearLedger DEF MoneyInv, Running
<1>5. /\ pc' = "sent" => s.submits < SessionSubmits /\ pc = "send"
      /\ pc' = "count" => pc \in {"created", "sent", "count"}
      /\ pc' \in {"sent", "count"} => EvenStep
  <2>1. CASE send_prepared_input
    <3>1. s.submits < SessionSubmits
      BY <1>1, <2>1 DEF send_prepared_input, NewSession
    <3> QED
      BY <1>2, <2>1, <3>1, AlikeIsEven DEF send_prepared_input, EvenStep
  <2>2. CASE _commit_prepared_input
    <3>1. ~RollStep \/ EvenStep
      BY <2>2, AlikeIsEven DEF RollStep, EvenStep, _commit_prepared_input
    <3> QED
      BY <1>2, <2>2, <3>1 DEF _commit_prepared_input
  <2> QED
    BY <1>2, <2>1, <2>2 DEF background_event, Sleep, Exhausted, SubmissionUnknown, trip_hard_disable
<1>6. Caps'
  BY <1>2, <1>5, NearCaps DEF MoneyInv, Running, Submitting
<1> QED
  BY <1>4, <1>6 DEF MoneyInv

LEMMA DropMoney ==
  ASSUME Base, Base', MoneyInv, DropSession
  PROVE  MoneyInv'
<1>1. pc = "drop" /\ pc' = "loop" /\ s' = s /\ UNCHANGED <<sent, permit, today, lock>>
  BY DEF DropSession, Still, past, outside
<1>2. Owed = 0 /\ Owed' = 0
  BY <1>1 DEF Owed
<1>3. /\ SameCount(st', s) /\ SamePurse(st', s) /\ st'.rotations = s.rotations /\ st'.permit = s.permit
  BY DropFields
<1>4. CoveredBy(s, permit.id, today, sent.permit + 0, sent.day + 0) /\ Capped(s)
      /\ (s.reserved = IF s.live THEN Reservation ELSE 0)
      /\ permit.base <= lock /\ s.rotations + permit.base <= lock
  BY <1>1, <1>2 DEF MoneyInv, Ledger, Covered, Running, Caps
<1>5. CoveredBy(st', permit.id, today, sent.permit + 0, sent.day + 0)
  BY <1>3, <1>4, CoveredAlike
<1>6. Ledger'
  BY <1>1, <1>2, <1>4, <1>5 DEF Ledger, Covered, Running
<1>7. Capped(st')
  BY <1>3, <1>4, CappedSame
<1>8. Caps'
  BY <1>1, <1>3, <1>4, <1>7 DEF Caps, Running
<1> QED
  BY <1>6, <1>8 DEF MoneyInv

LEMMA BeginMoney ==
  ASSUME Base, Base', MoneyInv, Begin
  PROVE  MoneyInv'
<1>1. /\ s \in Loose /\ today \in Nat /\ lock \in Nat /\ sent.permit \in Nat /\ sent.day \in Nat /\ permit.base \in Nat
  BY Parts DEF Base
<1>2. /\ pc = "submit" /\ pc' = "send" /\ UNCHANGED <<sent, permit, today, lock>>
      /\ s.total < MaxSubmits /\ ~Rolled.live
  BY DEF Begin, outside, past, work_permit_budget_status, token_reservation_status
<1>3. Owed = 0 /\ Owed' = 1
  BY <1>2 DEF Owed
<1>4. CoveredBy(s, permit.id, today, sent.permit, sent.day) /\ Capped(s)
      /\ permit.base <= lock /\ s.rotations + permit.base <= lock
  BY <1>1, <1>2, <1>3 DEF MoneyInv, Ledger, Covered, Caps, Running
<1>5. CoveredBy(Rolled, permit.id, today, sent.permit, sent.day) /\ Rolled.day = today
  <2>1. Rolled.live = s.live
    BY <1>1, NearRefresh DEF Rolled
  <2> QED
    BY <1>1, <1>2, <1>4, <2>1, CoveredRolled DEF Rolled
<1>6. /\ Rolled \in Loose /\ st' = s'
      /\ s'.live /\ s'.actual = Rolled.actual /\ s'.reserved = Rolled.reserved + Reservation
      /\ s'.day = Rolled.day /\ s'.dayActual = Rolled.dayActual /\ s'.dayReserved = Rolled.dayReserved + Reservation
      /\ SameCount(s', s) /\ s'.rotations = s.rotations /\ s'.permit = s.permit
  BY BeginFields
<1>7. s.permit = permit.id /\ Rolled.permit = s.permit
  <2>1. Near(Rolled, s)
    BY <1>1, NearRefresh DEF Rolled
  <2> QED
    BY <1>2, <2>1 DEF Base, Flow, Running, Near, SameTurn
<1>9. Rolled.actual \in Nat /\ Rolled.dayActual \in Nat /\ Rolled.dayReserved \in Nat
      /\ Reservation \in Nat \ {0} /\ Slack(Rolled) = 0 /\ Slack(s') = Reservation - 1
  BY <1>2, <1>6, LooseCounts, PermitAssumption DEF Slack
<1>8. Rolled.reserved = 0 /\ sent.permit <= Rolled.actual /\ sent.day <= Rolled.dayActual + Rolled.dayReserved
  BY <1>1, <1>2, <1>5, <1>7, <1>9 DEF CoveredBy
<1>10. /\ s'.reserved = Reservation /\ s'.dayReserved >= Reservation
       /\ sent.permit + 1 + Slack(s') <= s'.actual + s'.reserved
       /\ sent.day + 1 + Slack(s') <= s'.dayActual + s'.dayReserved
  BY <1>1, <1>6, <1>8, <1>9
<1>11. CoveredBy(s', permit.id, today, sent.permit + 1, sent.day + 1)
  BY <1>5, <1>6, <1>10 DEF CoveredBy
<1>12. Ledger'
  BY <1>2, <1>3, <1>6, <1>10, <1>11 DEF Ledger, Covered
<1>13. Capped(s')
  BY <1>4, <1>6, CappedSame
<1>14. s'.total < MaxSubmits
  BY <1>2, <1>6 DEF SameCount
<1>15. Caps'
  BY <1>2, <1>4, <1>6, <1>13, <1>14 DEF Caps, Running
<1> QED
  BY <1>12, <1>15 DEF MoneyInv

LEMMA CreateMoney ==
  ASSUME Base, Base', MoneyInv, create_session_with_input
  PROVE  MoneyInv'
<1>1. sent.permit \in Nat /\ sent.day \in Nat
  BY Parts DEF Base
<1>2. /\ pc = "send" /\ pc' = "created" /\ UNCHANGED <<permit, today, lock>>
      /\ sent'.permit = sent.permit + 1 /\ sent'.day = sent.day + 1
  BY DEF create_session_with_input, outside, Delivered
<1>3. Owed = 1 /\ Owed' = 0 /\ sent'.permit + 0 = sent.permit + 1 /\ sent'.day + 0 = sent.day + 1
  BY <1>1, <1>2 DEF Owed
<1>4. /\ SamePurse(s', s) /\ s'.rotations = s.rotations /\ s'.permit = s.permit
      /\ s'.submits = 0 /\ s'.total = s.total /\ s'.autonomous = s.autonomous /\ st' = st
  BY CreateFields
<1> DEFINE C(x) == CoveredBy(x, permit.id, today, sent.permit + 1, sent.day + 1)
<1>5. C(s) /\ C(st)
  BY <1>2, <1>3 DEF MoneyInv, Ledger, Covered, Running
<1>6. C(s') /\ C(st')
  BY <1>4, <1>5, CoveredAlike
<1>7. s'.reserved = IF s'.live THEN Reservation ELSE 0
  BY <1>6 DEF CoveredBy
<1> HIDE DEF C
<1>8. Ledger'
  BY <1>2, <1>3, <1>6, <1>7 DEF Ledger, Covered, C
<1>9. Caps'
  BY <1>2, <1>4, PermitAssumption DEF MoneyInv, Caps, Capped, Running
<1> QED
  BY <1>8, <1>9 DEF MoneyInv

LEMMA CountMoney ==
  ASSUME Base, Base', MoneyInv, record_model_submit
  PROVE  MoneyInv'
<1>1. s \in Loose /\ s.submits \in Nat /\ s.total \in Nat /\ s.autonomous \in Nat
      /\ SessionSubmits \in Nat /\ MaxSubmits \in Nat
  BY Parts, LooseCounts, PermitAssumption DEF Base
<1>2. pc = "count" /\ pc' = "loop" /\ UNCHANGED <<sent, permit, today, lock>>
  BY DEF record_model_submit, Still, past, outside
<1>3. Owed = 0 /\ Owed' = 0
  BY <1>2 DEF Owed
<1>4. /\ SamePurse(s', s) /\ s'.permit = s.permit /\ s'.rotations = s.rotations
      /\ s'.submits = s.submits + 1 /\ s'.total = s.total + 1
      /\ s'.autonomous \in {s.autonomous, s.autonomous + 1} /\ st' = s'
  BY CountFields DEF SameTurn
<1>5. /\ CoveredBy(s, permit.id, today, sent.permit + 0, sent.day + 0) /\ Capped(s)
      /\ permit.base <= lock /\ s.rotations + permit.base <= lock
      /\ s.total < MaxSubmits /\ s.submits < SessionSubmits
  BY <1>2, <1>3 DEF MoneyInv, Ledger, Covered, Running, Caps
<1>6. CoveredBy(s', permit.id, today, sent.permit + 0, sent.day + 0)
  BY <1>4, <1>5, CoveredAlike
<1>7. Ledger'
  BY <1>2, <1>3, <1>4, <1>6 DEF Ledger, Covered, CoveredBy
<1>8. Capped(s')
  BY <1>1, <1>4, <1>5 DEF Capped
<1>9. Caps'
  BY <1>2, <1>4, <1>5, <1>8 DEF Caps, Running
<1> QED
  BY <1>7, <1>9 DEF MoneyInv

LEMMA OutsideMoney ==
  ASSUME Base, Base', MoneyInv, PermitInvalid \/ Die \/ Outside
  PROVE  MoneyInv'
<1>1. /\ st \in Loose /\ today \in Nat /\ lock \in Nat /\ sent.permit \in Nat /\ sent.day \in Nat
      /\ permit.base \in Nat /\ permit.id \in Nat /\ st.permit \in Nat /\ st.permit <= permit.id /\ Shape
      /\ sent \in [permit : Nat, day : Nat]
  BY Parts DEF Base, Flow, Shape, PlaceShape
<1>2. Owed \in {0, 1} /\ Owed' = 0
  BY DEF Owed, PermitInvalid, Die, Outside, trip_hard_disable
<1>3. Covered(st) /\ Capped(st) /\ permit.base <= lock /\ (st.permit = permit.id => st.rotations + permit.base <= lock)
  BY DEF MoneyInv, Ledger, Caps
<1>4. CoveredBy(st, permit.id, today, sent.permit, sent.day)
  <2>1. /\ sent.permit <= sent.permit + Owed /\ sent.day <= sent.day + Owed
        /\ sent.permit + Owed \in Nat /\ sent.day + Owed \in Nat
    BY <1>1, <1>2
  <2> QED
    BY <1>1, <1>3, <2>1, CoveredLess DEF Covered
<1>5. CASE PermitInvalid
  <2>1. UNCHANGED <<st, s, sent, permit, today, lock>> /\ pc' = "stopped"
    BY <1>5 DEF PermitInvalid, trip_hard_disable, past
  <2> QED
    BY <1>1, <1>2, <1>4, <2>1 DEF MoneyInv, Ledger, Covered, Caps, Running
<1>6. CASE Die
  <2>1. UNCHANGED <<st, sent, permit, today, lock>> /\ pc' = "loop" /\ s' = Fresh
    BY <1>6 DEF Die
  <2>2. Capped(Fresh) /\ (Fresh.reserved = IF Fresh.live THEN Reservation ELSE 0)
    BY PermitAssumption DEF Capped, Fresh
  <2> QED
    BY <1>1, <1>2, <1>3, <1>4, <2>1, <2>2 DEF MoneyInv, Ledger, Covered, Caps, Running
<1>7. CASE Outside
  <2>1. UNCHANGED <<st, s, lock>> /\ pc' = "loop"
    BY <1>7 DEF Outside
  <2>2. CoveredBy(st, permit'.id, today', sent'.permit, sent'.day) /\ permit'.base <= lock
        /\ (st.permit = permit'.id => st.rotations + permit'.base <= lock)
    <3>1. CASE Issue
      <4>1. permit'.id = permit.id + 1 /\ permit'.base = lock /\ sent' = sent
        BY <3>1 DEF Issue
      <4>2. today' = today
        BY <1>7, <3>1 DEF Outside, Issue, Midnight, UserWrites
      <4>3. st.permit # permit'.id
        BY <1>1, <4>1
      <4> QED
        BY <1>1, <1>4, <4>1, <4>2, <4>3 DEF CoveredBy
    <3>2. CASE Midnight
      <4>1. permit' = permit /\ sent'.permit = sent.permit /\ sent'.day = 0
        BY <1>1, <3>2 DEF Midnight
      <4>2. /\ st.dayActual \in Nat /\ st.dayReserved \in Nat /\ Slack(st) \in Nat
            /\ st.live => Slack(st) <= Reservation
            /\ ~st.live => Slack(st) = 0
        BY <1>1, PermitAssumption DEF Loose, Slack
      <4>3. st.dayReserved >= Slack(st)
        BY <1>4, <4>2, PermitAssumption DEF CoveredBy
      <4> QED
        BY <1>1, <1>3, <1>4, <4>1, <4>2, <4>3 DEF CoveredBy
    <3>3. CASE UserWrites
      <4>1. permit' = permit /\ sent' = sent /\ today' = today
        BY <3>3 DEF UserWrites
      <4> QED
        BY <1>3, <1>4, <4>1
    <3> QED
      BY <1>7, <3>1, <3>2, <3>3 DEF Outside
  <2>3. sent'.permit + 0 = sent'.permit /\ sent'.day + 0 = sent'.day
    <3>1. sent' \in [permit : Nat, day : Nat]
      BY DEF Base, Shape, PlaceShape
    <3> QED
      BY <3>1
  <2> QED
    BY <1>2, <2>1, <2>2, <2>3 DEF MoneyInv, Ledger, Covered, Caps, Running
<1> QED
  BY <1>5, <1>6, <1>7

LEMMA MoneyNext ==
  ASSUME Base, MoneyInv, [Next]_vars
  PROVE  MoneyInv'
<1>1. Base'
  BY BaseNext
<1>2. CASE Next /\ ~Stopped
  BY <1>1, <1>2, AdoptMoney, FindMoney, QuietMoney, SubmitMoney, DropMoney, BeginMoney, CreateMoney, CountMoney,
     OutsideMoney DEF Next, main, Submit
<1>3. CASE UNCHANGED vars
  BY <1>3 DEF MoneyInv, Ledger, Covered, Owed, Caps, Running, vars, toolVars, outside, past
<1> QED
  BY <1>2, <1>3 DEF Stopped

LEMMA MoneyInit == Init => MoneyInv
<1> SUFFICES ASSUME Init PROVE MoneyInv
  OBVIOUS
<1>1. /\ st.permit = 1 /\ st.actual = 0 /\ st.reserved = 0 /\ st.live = FALSE /\ st.day = 0 /\ st.dayActual = 0
      /\ st.dayReserved = 0 /\ st.submits = 0 /\ st.total = 0 /\ st.autonomous = 0 /\ st.rotations = 0
  BY DEF Init, Fresh
<1>2. Fresh.submits = 0 /\ Fresh.total = 0 /\ Fresh.autonomous = 0 /\ Fresh.rotations = 0
      /\ Fresh.reserved = 0 /\ Fresh.live = FALSE
  BY DEF Fresh
<1>3. Owed = 0 /\ sent.permit = 0 /\ sent.day = 0 /\ permit.id = 1 /\ permit.base = 0 /\ lock = 0 /\ pc = "loop"
      /\ today = 0 /\ s = Fresh
  BY DEF Init, Owed
<1>4. Ledger
  BY <1>1, <1>2, <1>3 DEF Ledger, Covered, CoveredBy, Running, Slack
<1>5. Caps
  BY <1>1, <1>2, <1>3, PermitAssumption DEF Caps, Capped, Running
<1> QED
  BY <1>4, <1>5 DEF MoneyInv

-----------------------------------------------------------------------------
(* The gates, and the sessions.                                              *)

\* What a step does to the turn in hand when it moves no gate: the turn is the one on
\* disk, and it is not begun anew.
GatesKept(x) ==
    /\ x.nonce = st.nonce /\ x.gate = st.gate /\ (OfTurn(x) => OfTurn(st) \/ (Running /\ OfTurn(s)))

Awaited == pc = "send" => s.awaiting

LEMMA GatesStay ==
  ASSUME Gates, lock' = lock, moved' = moved, GatesKept(st'), Running' => GatesKept(s')
  PROVE  Gates'
<1>1. Running' /\ OfTurn(s)' => GatesKept(s') /\ OfTurn(s')
  BY DEF OfTurn
<1>2. OfTurn(st)' => OfTurn(st')
  BY DEF OfTurn
<1>3. OfTurn(st)' \/ (Running' /\ OfTurn(s)') => OfTurn(st) \/ (Running /\ OfTurn(s))
  BY <1>1, <1>2 DEF GatesKept
<1>4. st'.nonce = st.nonce /\ st'.gate = st.gate
  BY DEF GatesKept
<1> QED
  BY <1>3, <1>4 DEF Gates

LEMMA NearGates ==
  ASSUME Base, Gates, Running, NearStep \/ EvenStep, lock' = lock, moved' = moved
  PROVE  Gates'
<1>1. s.nonce = st.nonce /\ s.gate = st.gate
  BY DEF Base, Flow
<1>2. /\ SameTurn(s', s) /\ (s'.awaiting => s.awaiting)
      /\ \/ SameTurn(st', st) /\ (st'.awaiting => st.awaiting)
         \/ SameTurn(st', s) /\ (st'.awaiting => s.awaiting)
  BY DEF NearStep, Near, EvenStep, Even
<1>3. GatesKept(s') /\ GatesKept(st')
  BY <1>1, <1>2 DEF GatesKept, SameTurn, OfTurn
<1> QED
  BY <1>3, GatesStay

\* A gate is moved by the outcome of the turn in hand, and every earlier one by the
\* outcome of a turn of an earlier gate.
LEMMA RotateGates ==
  ASSUME Base, Gates, Running, OfTurn(s), RotateStep
  PROVE  Gates'
<1>1. /\ s \in Loose /\ st \in Loose /\ lock \in Nat /\ s.nonce \in Nat /\ s.gate \in Nat
      /\ s.nonce = st.nonce /\ s.gate = st.gate
  BY Parts DEF Base, Flow
<1> DEFINE e == <<s.nonce, s.gate, lock>>
<1>2. /\ lock' = lock + 1 /\ moved' = moved \cup {e} /\ s.gate = lock /\ st' = st
      /\ SameTurn(s', s)
  BY DEF RotateStep, rotate_to_next_authorized_gate, GateIsCurrent, Near
<1>3. \A m \in moved : m[2] = m[3] /\ m[3] < lock /\ m[1] # s.nonce
  <2>1. ASSUME NEW m \in moved, m[1] = s.nonce
        PROVE  FALSE
    <3>1. m[2] = st.gate /\ m[2] = m[3] /\ m[3] < lock /\ m[3] \in Nat
      BY <1>1, <2>1 DEF Gates
    <3> QED
      BY <1>1, <1>2, <3>1
  <2> QED
    BY <2>1 DEF Gates
<1>4. e[1] = s.nonce /\ e[2] = lock /\ e[3] = lock /\ e = <<e[1], e[2], e[3]>>
  BY <1>2
<1> HIDE DEF e
<1>5. e \notin moved
  BY <1>3, <1>4
<1>6. IsFiniteSet(moved') /\ lock' = Cardinality(moved')
  BY <1>1, <1>2, <1>5, FS_AddElement DEF Gates
<1>7. \A m \in moved' : m = <<m[1], m[2], m[3]>> /\ m[1] \in Nat /\ m[3] \in Nat
  BY <1>1, <1>2, <1>4 DEF Gates
<1>8. \A m \in moved' : m[2] = m[3] /\ m[3] < lock' /\ m[1] <= st'.nonce
  <2>1. \A m \in moved : m[3] < lock + 1 /\ m[1] <= st.nonce
    BY <1>1 DEF Gates
  <2>2. e[3] < lock + 1 /\ e[1] <= st.nonce
    BY <1>1, <1>4
  <2> QED
    BY <1>2, <1>3, <1>4, <2>1, <2>2
<1>9. \A m \in moved' : m[1] = st'.nonce => m[2] = st'.gate
  BY <1>1, <1>2, <1>3, <1>4
<1>10. \A m, n \in moved' : m[1] = n[1] => m = n
  BY <1>2, <1>3, <1>4 DEF Gates
<1> QED
  BY <1>6, <1>7, <1>8, <1>9, <1>10 DEF Gates

LEMMA BeginGates ==
  ASSUME Base, Gates, Begin
  PROVE  Gates'
<1>1. s.nonce \in Nat /\ s.nonce = st.nonce /\ lock' = lock /\ moved' = moved
  BY Parts DEF Base, Flow, Begin, Running, past
<1>2. s'.nonce = s.nonce + 1 /\ st' = s'
  BY BeginFields
<1>3. \A m \in moved : m[1] \in Nat /\ m[1] <= st.nonce
  BY DEF Gates
<1>4. \A m \in moved' : m[1] <= st'.nonce /\ m[1] # st'.nonce
  BY <1>1, <1>2, <1>3
<1> QED
  BY <1>1, <1>4 DEF Gates

LEMMA AwaitedNext ==
  ASSUME Base, Awaited, [Next]_vars
  PROVE  Awaited'
<1>1. CASE UNCHANGED vars
  BY <1>1 DEF Awaited, vars
<1>2. CASE Begin
  BY <1>2, BeginFields DEF Awaited
<1>3. CASE AdoptPermit \/ Find \/ PermitInvalid \/ Die \/ Outside
  BY <1>3 DEF AdoptPermit, Find, FindNoSession, FindIdle, FindCalls, FindFailed, FindTimeout, PermitInvalid, Die,
     Outside, trip_hard_disable, Awaited
<1>4. CASE Tools \/ Close \/ Abort
  BY <1>4, ToolsEven, CloseNear, AbortNear DEF Awaited, DropSession
<1>5. CASE Submit /\ ~Begin
  BY <1>5, SubmitNear DEF Awaited, Submit, create_session_with_input, record_model_submit
<1> QED
  BY <1>1, <1>2, <1>3, <1>4, <1>5 DEF Next, main, Stopped

LEMMA GatesNext ==
  ASSUME Base, Gates, Awaited, [Next]_vars
  PROVE  Gates'
<1>1. /\ s \in Loose /\ st \in Loose /\ today \in Nat
      /\ Running => s.nonce = st.nonce /\ s.gate = st.gate
  BY Parts DEF Base, Flow
<1>2. CASE UNCHANGED vars
  BY <1>2, <1>1, GatesStay DEF vars, past, GatesKept, Running
<1>3. CASE AdoptPermit
  <2>1. lock' = lock /\ moved' = moved /\ pc' = "loop"
    BY <1>3 DEF AdoptPermit
  <2> DEFINE old == refresh_budget_state(st)
  <2>2. old.nonce = st.nonce
    BY <1>1, NearRefresh DEF Near, SameTurn
  <2>3. st' = Adopted(Fresh, permit.id, old.day, old.nonce, old.dayActual, old.dayReserved, old.event)
    BY <1>3 DEF AdoptPermit, Adopted
  <2> HIDE DEF old
  <2>4. st'.nonce = st.nonce /\ ~OfTurn(st')
    BY <2>2, <2>3 DEF Adopted, Fresh, OfTurn
  <2>5. ~OfTurn(st)' /\ ~Running'
    BY <2>1, <2>4 DEF OfTurn, Running
  <2> QED
    BY <2>1, <2>4, <2>5 DEF Gates
<1>4. CASE Find
  <2>1. /\ s' = refresh_budget_state(st) /\ (st' = st \/ st' = s') /\ lock' = lock /\ moved' = moved
    BY <1>4 DEF Find, FindNoSession, FindIdle, FindCalls, FindFailed, FindTimeout, Reading, Still, past
  <2>2. Near(s', st)
    BY <1>1, <2>1, NearRefresh
  <2>3. GatesKept(s') /\ GatesKept(st')
    BY <2>1, <2>2 DEF GatesKept, Near, SameTurn, OfTurn
  <2> QED
    BY <2>1, <2>3, GatesStay
<1>5. CASE Tools
  <2>1. EvenStep /\ lock' = lock /\ moved' = moved /\ Running
    BY <1>5, ToolsEven DEF Running
  <2> QED
    BY <2>1, NearGates
<1>6. CASE Close \/ (Abort /\ ~DropSession)
  <2>1. /\ RotateStep \/ (NearStep /\ lock' = lock /\ moved' = moved)
        /\ Running
    BY <1>6, CloseNear, AbortNear, StepsAreNear, AlikeIsEven DEF Running
  <2>2. RotateStep => OfTurn(s)
    <3>1. RotateStep => CloseAndRotate \/ RotateRecovered
      <4>1. s.rotations \in Nat /\ lock \in Nat
        BY LooseCounts, Parts DEF Base
      <4>2. RotateStep => lock' # lock
        BY <4>1 DEF RotateStep, rotate_to_next_authorized_gate
      <4> QED
        BY <1>6, <4>2 DEF Close, CloseAndHold, CloseAndFollow, SaveClosed, CloseAndDisable, KeepIdle, SettleIdle,
           Abort, cancel_turn, settle_usage_after_abort, Trip, RecoverOutcome, NotRotated, Still
    <3>2. CloseAndRotate => s.awaiting
      BY DEF CloseAndRotate, Closing
    <3>3. RotateRecovered => s.session # NoSession
      BY DEF RotateRecovered, Base, Flow
    <3> QED
      BY <3>1, <3>2, <3>3 DEF OfTurn
  <2> QED
    BY <2>1, <2>2, RotateGates, NearGates
<1>7. CASE DropSession
  <2>1. s' = s /\ lock' = lock /\ moved' = moved /\ pc = "drop"
    BY <1>7 DEF DropSession, Still, past
  <2>2. st'.nonce = s.nonce /\ st'.gate = s.gate /\ ~OfTurn(st')
    BY <1>7, DropFields DEF OfTurn
  <2>3. GatesKept(st') /\ GatesKept(s')
    BY <1>1, <2>1, <2>2 DEF GatesKept, Running
  <2> QED
    BY <2>1, <2>3, GatesStay
<1>8. CASE background_event \/ Sleep \/ Exhausted \/ send_prepared_input \/ SubmissionUnknown \/ _commit_prepared_input
  <2>1. NearStep /\ lock' = lock /\ moved' = moved /\ Running
    BY <1>8, SubmitNear DEF Running
  <2> QED
    BY <2>1, NearGates
<1>9. CASE create_session_with_input
  <2>1. /\ pc = "send" /\ lock' = lock /\ moved' = moved
        /\ st' = st /\ s'.nonce = s.nonce /\ s'.gate = s.gate /\ s'.awaiting = s.awaiting
    BY <1>9, CreateFields DEF create_session_with_input
  <2>2. OfTurn(s)
    BY <2>1 DEF Awaited, OfTurn
  <2> QED
    BY <1>1, <2>1, <2>2, GatesStay DEF GatesKept, Running
<1>10. CASE record_model_submit
  <2>1. /\ pc = "count" /\ lock' = lock /\ moved' = moved /\ SameTurn(s', s) /\ s'.awaiting = s.awaiting /\ st' = s'
    BY <1>10, CountFields DEF record_model_submit, Still, past
  <2> QED
    BY <1>1, <2>1, GatesStay DEF GatesKept, Running, OfTurn, SameTurn
<1>11. CASE PermitInvalid
  <2>1. /\ UNCHANGED <<st, s, lock, moved>> /\ pc' = "stopped"
    BY <1>11 DEF PermitInvalid, trip_hard_disable, past
  <2> QED
    BY <2>1, GatesStay DEF GatesKept, Running
<1>12. CASE Die
  <2>1. /\ UNCHANGED <<st, lock, moved>> /\ pc' = "loop"
    BY <1>12 DEF Die
  <2> QED
    BY <2>1, GatesStay DEF GatesKept, Running
<1>13. CASE Outside
  <2>1. /\ UNCHANGED <<st, lock, moved>> /\ pc' = "loop"
    BY <1>13 DEF Outside
  <2> QED
    BY <2>1, GatesStay DEF GatesKept, Running
<1> QED
  BY <1>2, <1>3, <1>4, <1>5, <1>6, <1>7, <1>8, <1>9, <1>10, <1>11, <1>12, <1>13, BeginGates
     DEF Next, main, Submit, Stopped

LEMMA GatesInit == Init => Gates /\ Awaited
<1> SUFFICES ASSUME Init PROVE Gates /\ Awaited
  OBVIOUS
<1>1. moved = {} /\ lock = 0 /\ pc = "loop"
  BY DEF Init
<1>2. IsFiniteSet(moved) /\ Cardinality(moved) = 0
  BY <1>1, FS_EmptySet
<1> QED
  BY <1>1, <1>2 DEF Gates, Awaited

\* No session of the permit is open once the turn in hand is being closed or bought.
Underway == {"loop", "stopped", "tools", "posted", "boundary", "recover"}
Bought == {"created", "sent", "count"}
OnlyOpenIn(q, p, n) == \A k \in DOMAIN q : q[k].open /\ q[k].permit = p => k = n
OnlyOpen(n) == OnlyOpenIn(sessions, st.permit, n)
ShutIn(q, p) == \A k \in DOMAIN q : q[k].open => q[k].permit # p
Shut == ShutIn(sessions, st.permit)

LEMMA SerialParts ==
  Serial <=> (~unsure => /\ Single(sessions)
                         /\ pc \in Underway \ Bought => OnlyOpen(st.session)
                         /\ pc \in Bought => OnlyOpen(s.session)
                         /\ pc \notin Underway \cup Bought => Shut)
BY DEF Serial, Opened, Underway, Bought, OnlyOpen, OnlyOpenIn, Shut, ShutIn

\* What ends a turn, or opens the one turn of its permit, leaves it the only one.
LEMMA EndedShut ==
  ASSUME Base, NEW n \in 1..Len(sessions), Ended(n), OnlyOpen(n), Single(sessions)
  PROVE  ShutIn(sessions', st.permit) /\ Single(sessions')
<1>1. Shape
  BY DEF Base
<1>2. DOMAIN sessions' = DOMAIN sessions /\ sessions'[n].open = FALSE
      /\ \A k \in DOMAIN sessions \ {n} : sessions'[k] = sessions[k]
  BY <1>1, EndedShape
<1>3. ShutIn(sessions', st.permit)
  BY <1>2 DEF ShutIn, OnlyOpen, OnlyOpenIn
<1>4. Single(sessions')
  BY <1>2 DEF Single
<1> QED
  BY <1>3, <1>4

LEMMA SessionOnDisk ==
  ASSUME Base, st.session # NoSession
  PROVE  st.session \in 1..Len(sessions)
<1>1. st.session \in Nat /\ st.session <= Len(sessions) /\ Len(sessions) \in Nat
  BY Parts, SessionsShape DEF Base, Flow
<1> QED
  BY <1>1 DEF NoSession

\* Without a session on disk none is open while the loop looks.
LEMMA NothingOpen ==
  ASSUME Base, OnlyOpen(NoSession)
  PROVE  Shut
<1>1. DOMAIN sessions = 1..Len(sessions) /\ Len(sessions) \in Nat
  BY SessionsShape DEF Base
<1> QED
  BY <1>1 DEF OnlyOpen, OnlyOpenIn, Shut, ShutIn, NoSession

LEMMA DeliveredOpen ==
  ASSUME Base, Running, Owned, Shut, Single(sessions), Delivered
  PROVE  /\ OnlyOpenIn(sessions', st.permit, IF NewSession THEN Len(sessions') ELSE s.session)
         /\ Single(sessions')
<1>1. /\ sessions \in Seq(SessionRecord) /\ DOMAIN sessions = 1..Len(sessions) /\ Len(sessions) \in Nat
      /\ s.session \in Nat /\ s.permit \in Nat /\ s.permit = st.permit
  BY SessionsShape, Parts DEF Base, Flow
<1>2. CASE NewSession
  <2>1. Session \in SessionRecord /\ Session.permit = st.permit
    BY <1>1 DEF Session, SessionRecord
  <2>2. sessions' = Append(sessions, Session)
    BY <1>2 DEF Delivered
  <2>3. /\ Len(sessions') = Len(sessions) + 1 /\ sessions' \in Seq(SessionRecord)
        /\ \A k \in 1..Len(sessions) : sessions'[k] = sessions[k]
        /\ sessions'[Len(sessions) + 1] = Session
    BY <1>1, <2>1, <2>2, AppendProperties
  <2>4. DOMAIN sessions' = 1..(Len(sessions) + 1)
    BY <2>3, LenProperties
  <2>5. \A k \in DOMAIN sessions' : k \in DOMAIN sessions \/ k = Len(sessions')
    BY <1>1, <2>3, <2>4
  <2>6. OnlyOpenIn(sessions', st.permit, Len(sessions'))
    BY <1>1, <2>3, <2>5 DEF Shut, ShutIn, OnlyOpenIn
  <2>7. Single(sessions')
    BY <1>1, <2>1, <2>3, <2>5 DEF Shut, ShutIn, Single
  <2> QED
    BY <1>2, <2>6, <2>7
<1>3. CASE ~NewSession
  <2>1. s.session \in 1..Len(sessions) /\ sessions[s.session] \in SessionRecord
    BY <1>1, <1>3, SessionInHand, SessionsShape DEF NewSession, Base
  <2>2. sessions[s.session].permit = st.permit
    BY <1>1, <1>3, <2>1 DEF NewSession, Base, Flow, Owned
  <2>3. sessions' = [sessions EXCEPT ![s.session] = [sessions[s.session] EXCEPT !.open = TRUE]]
    BY <1>3 DEF Delivered
  <2>4. DOMAIN sessions' = DOMAIN sessions /\ \A k \in DOMAIN sessions \ {s.session} : sessions'[k] = sessions[k]
    BY <2>3
  <2>5. sessions'[s.session].permit = st.permit
    BY <1>1, <2>1, <2>2, <2>3 DEF SessionRecord
  <2>6. OnlyOpenIn(sessions', st.permit, s.session)
    BY <2>4 DEF Shut, ShutIn, OnlyOpenIn
  <2>7. Single(sessions')
    BY <2>4, <2>5 DEF Shut, ShutIn, Single
  <2> QED
    BY <1>3, <2>6, <2>7
<1> QED
  BY <1>2, <1>3

\* Only a new permit changes the permit STATE is of, and only a submission the session
\* the loop has in hand.
LEMMA HandKept ==
  ASSUME Base, Next, ~AdoptPermit, ~Stopped
  PROVE  /\ st'.permit = st.permit
         /\ st'.session \in {st.session, NoSession} \/ (Running /\ st'.session = s.session)
<1>1. Flow /\ st \in Loose /\ s \in Loose /\ today \in Nat
  BY Parts DEF Base
<1>2. Running => s.permit = st.permit
  BY <1>1 DEF Flow
<1>3. CASE Find
  <2>1. st' = st \/ st' = refresh_budget_state(st)
    BY <1>3 DEF Find, FindNoSession, FindIdle, FindCalls, FindFailed, FindTimeout, Reading
  <2> QED
    BY <1>1, <2>1, RefreshShape
<1>4. CASE Tools
  BY <1>2, <1>4, ToolsEven DEF EvenStep, Even, SameTurn, Running
<1>5. CASE Close
  BY <1>2, <1>5, CloseNear DEF NearStep, Near, SameTurn, Running
<1>6. CASE Abort /\ ~DropSession
  BY <1>2, <1>6, AbortNear DEF NearStep, Near, SameTurn, Running
<1>7. CASE DropSession
  <2>1. Running
    BY <1>7 DEF DropSession, Running
  <2> QED
    BY <1>2, <1>7, <2>1, DropFields
<1>8. CASE background_event \/ Sleep \/ Exhausted \/ send_prepared_input \/ SubmissionUnknown \/ _commit_prepared_input
  BY <1>2, <1>8, SubmitNear DEF NearStep, Near, SameTurn, Running
<1>9. CASE Begin
  <2>1. Running
    BY <1>9 DEF Begin, Running
  <2> QED
    BY <1>2, <1>9, <2>1, BeginFields
<1>10. CASE create_session_with_input
  BY <1>10 DEF create_session_with_input
<1>11. CASE record_model_submit
  <2>1. Running
    BY <1>11 DEF record_model_submit, Running
  <2> QED
    BY <1>2, <1>11, <2>1, CountFields DEF SameTurn
<1>12. CASE PermitInvalid \/ Die \/ Outside
  BY <1>12 DEF PermitInvalid, Die, Outside
<1> QED
  BY <1>3, <1>4, <1>5, <1>6, <1>7, <1>8, <1>9, <1>10, <1>11, <1>12 DEF Next, main, Submit

\* A session keeps its permit; a new one is of the permit in hand.
LEMMA SessionsKept ==
  ASSUME Base, Next, ~Stopped
  PROVE  /\ DOMAIN sessions \subseteq DOMAIN sessions'
         /\ \A k \in DOMAIN sessions : sessions'[k].permit = sessions[k].permit
         /\ \A k \in DOMAIN sessions' \ DOMAIN sessions : sessions'[k].permit = s.permit /\ Running
<1>1. Shape /\ DOMAIN sessions = 1..Len(sessions) /\ Len(sessions) \in Nat
  BY SessionsShape DEF Base
<1>2. CASE UNCHANGED sessions
  BY <1>2
<1>3. ASSUME NEW n \in 1..Len(sessions), Ended(n)
      PROVE  DOMAIN sessions' = DOMAIN sessions
             /\ \A k \in DOMAIN sessions : sessions'[k].permit = sessions[k].permit
  BY <1>1, <1>3, EndedShape
<1>4. CASE Here # NoSession /\ Ended(Here)
  <2>1. st.session \in 1..Len(sessions)
    BY <1>4, SessionOnDisk DEF Here
  <2> QED
    BY <1>3, <1>4, <2>1 DEF Here
<1>5. CASE cancel_turn /\ Ended(s.session)
  <2>1. s.session # NoSession /\ s.session = st.session
    BY <1>5 DEF cancel_turn, Base, Flow, Running
  <2>2. st.session \in 1..Len(sessions)
    BY <2>1, SessionOnDisk
  <2> QED
    BY <1>3, <1>5, <2>1, <2>2
<1>6. CASE Running /\ Delivered
  <2>1. /\ sessions' \in Seq(SessionRecord)
        /\ Len(sessions') = IF NewSession THEN Len(sessions) + 1 ELSE Len(sessions)
        /\ \A k \in 1..Len(sessions) : sessions'[k].permit = sessions[k].permit
        /\ NewSession => sessions'[Len(sessions) + 1].permit = s.permit
    BY <1>6, DeliveredShape
  <2>2. DOMAIN sessions' = 1..Len(sessions')
    BY <2>1, LenProperties
  <2> QED
    BY <1>1, <1>6, <2>1, <2>2
<1>7. UNCHANGED sessions \/ (Here # NoSession /\ Ended(Here)) \/ (cancel_turn /\ Ended(s.session))
      \/ (Running /\ Delivered)
  <2>1. CASE AdoptPermit \/ Find \/ PermitInvalid \/ Die \/ Outside
    BY <2>1 DEF AdoptPermit, Find, FindNoSession, FindIdle, FindCalls, FindFailed, FindTimeout, Still, Open,
       PermitInvalid, Die, Outside
  <2>2. CASE Tools \/ Close
    BY <2>2, ToolsEven, CloseNear
  <2>3. CASE Abort
    BY <2>3 DEF Abort, cancel_turn, settle_usage_after_abort, Trip, RecoverOutcome, RotateRecovered, NotRotated,
       DropSession
  <2>4. CASE Submit
    BY <2>4 DEF Submit, background_event, Sleep, Exhausted, Begin, create_session_with_input,
       send_prepared_input, SubmissionUnknown, _commit_prepared_input, record_model_submit, Running
  <2> QED
    BY <2>1, <2>2, <2>3, <2>4 DEF Next, main
<1> QED
  BY <1>2, <1>4, <1>5, <1>6, <1>7

LEMMA OwnedNext ==
  ASSUME Base, Owned, [Next]_vars
  PROVE  Owned'
<1>1. Base' /\ Shape /\ Flow /\ DOMAIN sessions = 1..Len(sessions) /\ Len(sessions) \in Nat /\ st.permit \in Nat
      /\ permit.id \in Nat /\ \A n \in DOMAIN sessions : sessions[n].permit \in Nat
  BY BaseNext, SessionsShape, Parts DEF Base, SessionRecord
<1>2. CASE UNCHANGED vars
  BY <1>2 DEF Owned, vars
<1>3. CASE AdoptPermit
  <2>1. st'.permit = permit.id /\ st'.session = NoSession /\ sessions' = sessions /\ pc' = "loop"
    BY <1>3 DEF AdoptPermit, Fresh
  <2>2. st.permit <= permit.id
    BY <1>1 DEF Flow
  <2> QED
    BY <1>1, <2>1, <2>2 DEF Owned
<1>4. CASE Next /\ ~AdoptPermit /\ ~Stopped
  <2>1. /\ st'.permit = st.permit
        /\ st'.session \in {st.session, NoSession} \/ (Running /\ st'.session = s.session)
    BY <1>4, HandKept
  <2>2. /\ DOMAIN sessions \subseteq DOMAIN sessions'
        /\ \A k \in DOMAIN sessions : sessions'[k].permit = sessions[k].permit
        /\ \A k \in DOMAIN sessions' \ DOMAIN sessions : sessions'[k].permit = s.permit /\ Running
    BY <1>4, SessionsKept
  <2>3. Running => s.permit = st.permit /\ (pc # "created" => s.session = st.session)
    BY <1>1 DEF Flow
  <2>4. \A n \in DOMAIN sessions' : sessions'[n].permit <= st'.permit
    <3> SUFFICES ASSUME NEW n \in DOMAIN sessions'
                 PROVE  sessions'[n].permit <= st'.permit
      OBVIOUS
    <3>1. CASE n \in DOMAIN sessions
      BY <2>1, <2>2, <3>1 DEF Owned
    <3>2. CASE n \notin DOMAIN sessions
      BY <1>1, <2>1, <2>2, <2>3, <3>2
    <3> QED
      BY <3>1, <3>2
  <2>5. st'.session # NoSession => sessions'[st'.session].permit = st'.permit
    <3> SUFFICES ASSUME st'.session # NoSession
                 PROVE  sessions'[st'.session].permit = st'.permit
      OBVIOUS
    <3>1. CASE st'.session = st.session
      BY <1>1, <2>1, <2>2, <3>1, SessionOnDisk DEF Owned
    <3>2. CASE Running /\ st'.session = s.session /\ pc # "created"
      BY <1>1, <2>1, <2>2, <2>3, <3>2, SessionOnDisk DEF Owned
    <3>3. CASE st'.session = s.session /\ pc = "created"
      <4>1. s.session \in 1..Len(sessions)
        BY <3>3, SessionInHand DEF Running
      <4> QED
        BY <1>1, <2>1, <2>2, <3>3, <4>1 DEF Owned
    <3> QED
      BY <2>1, <3>1, <3>2, <3>3
  <2>6. pc' = "created" => sessions'[s'.session].permit = st'.permit
    <3> SUFFICES ASSUME pc' = "created"
                 PROVE  sessions'[s'.session].permit = st'.permit
      OBVIOUS
    <3>1. create_session_with_input
      <4>1. CASE Find \/ PermitInvalid \/ Die \/ Outside
        BY <4>1 DEF Find, FindNoSession, FindIdle, FindCalls, FindFailed, FindTimeout, PermitInvalid, Die, Outside,
           trip_hard_disable
      <4>2. CASE Tools \/ Close
        BY <4>2, ToolsEven, CloseNear
      <4>3. CASE Abort
        BY <4>3 DEF Abort, cancel_turn, settle_usage_after_abort, Trip, RecoverOutcome, RotateRecovered, NotRotated,
           DropSession, trip_hard_disable
      <4>4. CASE Submit
        BY <4>4 DEF Submit, background_event, Sleep, Exhausted, Begin, create_session_with_input,
           send_prepared_input, SubmissionUnknown, _commit_prepared_input, record_model_submit, trip_hard_disable
      <4> QED
        BY <1>4, <4>1, <4>2, <4>3, <4>4 DEF Next, main
    <3>2. NewSession /\ Delivered /\ Running /\ s'.session = Len(sessions')
      BY <3>1, CreateFields DEF create_session_with_input, Running
    <3>3. sessions'[s'.session].permit = s.permit
      BY <3>2, DeliveredShape
    <3> QED
      BY <2>1, <2>3, <3>2, <3>3
  <2> QED
    BY <2>4, <2>5, <2>6 DEF Owned
<1> QED
  BY <1>2, <1>3, <1>4 DEF Stopped

LEMMA OwnedInit == Init => Owned
<1>1. DOMAIN <<>> = {}
  OBVIOUS
<1> QED
  BY <1>1 DEF Init, Owned, Fresh

\* The three things Serial says of where the iteration stands.
LEMMA SerialStep ==
  ASSUME st'.permit = st.permit, Single(sessions'),
         /\ pc' \in Underway => OnlyOpenIn(sessions', st.permit, st'.session)
         /\ pc' \in Bought => OnlyOpenIn(sessions', st.permit, s'.session)
         /\ pc' \notin Underway \cup Bought => ShutIn(sessions', st.permit)
  PROVE  Serial'
BY DEF Serial, Opened, Underway, Bought, OnlyOpenIn, ShutIn

\* A new permit has no session yet: the turns that are open are of older ones.
LEMMA SerialAdopt ==
  ASSUME Base, Owned, Serial, AdoptPermit
  PROVE  Serial'
<1>1. /\ st.permit \in Nat /\ permit.id \in Nat /\ st.permit <= permit.id /\ st.permit # permit.id
      /\ DOMAIN sessions = 1..Len(sessions) /\ \A n \in DOMAIN sessions : sessions[n].permit \in Nat
  BY Parts, SessionsShape DEF Base, Flow, AdoptPermit, SessionRecord
<1>2. st'.permit = permit.id /\ sessions' = sessions /\ unsure' = unsure
  BY DEF AdoptPermit, Fresh
<1>3. \A n \in DOMAIN sessions : sessions[n].permit # permit.id
  BY <1>1 DEF Owned
<1> QED
  BY <1>2, <1>3 DEF Serial, Opened

LEMMA SerialNext ==
  ASSUME Base, Owned, Serial, [Next]_vars
  PROVE  Serial'
<1>1. Base' /\ unsure' \in BOOLEAN /\ unsure \in BOOLEAN
  BY BaseNext DEF Base, Shape, PlaceShape
<1>2. \A n : Shut => OnlyOpen(n)
  BY DEF Shut, ShutIn, OnlyOpen, OnlyOpenIn
<1>3. ASSUME UNCHANGED sessions, Shut
      PROVE  ShutIn(sessions', st.permit) /\ \A n : OnlyOpenIn(sessions', st.permit, n)
  BY <1>3 DEF Shut, ShutIn, OnlyOpenIn
<1>4. \A n : OnlyOpen(n) /\ UNCHANGED sessions => OnlyOpenIn(sessions', st.permit, n)
  BY DEF OnlyOpen
<1>5. ASSUME ShutIn(sessions', st.permit)
      PROVE  \A n : OnlyOpenIn(sessions', st.permit, n)
  BY <1>5 DEF ShutIn, OnlyOpenIn
<1>a. UNCHANGED sessions /\ Single(sessions) => Single(sessions')
  OBVIOUS
<1>6. CASE unsure'
  BY <1>6 DEF Serial
<1>9. CASE AdoptPermit
  BY <1>9, SerialAdopt
<1>b. CASE UNCHANGED vars
  BY <1>b DEF Serial, vars, past, Opened
<1>7. CASE unsure' = FALSE /\ unsure = FALSE /\ Next /\ ~AdoptPermit /\ ~Stopped
  <2>1. /\ pc \in Underway => OnlyOpen(st.session)
        /\ pc \in Bought => OnlyOpen(s.session)
        /\ pc \notin Underway \cup Bought => Shut
        /\ Single(sessions)
    BY <1>7, SerialParts DEF Underway, Bought
  <2>2. st'.permit = st.permit
    BY <1>7, HandKept
  <2>4. CASE Find
    <3>1. pc = "loop" /\ OnlyOpen(st.session)
      BY <2>1, <2>4 DEF Find, FindNoSession, FindIdle, FindCalls, FindFailed, FindTimeout, Reading, Underway
    <3>2. CASE Here # NoSession /\ Ended(Here)
      <4>1. ShutIn(sessions', st.permit) /\ Single(sessions')
        BY <2>1, <3>1, <3>2, SessionOnDisk, EndedShut DEF Here
      <4> QED
        BY <1>5, <2>2, <4>1, SerialStep
    <3>3. CASE FindNoSession
      <4>1. Shut /\ UNCHANGED sessions
        BY <3>1, <3>3, NothingOpen DEF FindNoSession, Here
      <4> QED
        BY <1>3, <1>a, <2>1, <2>2, <4>1, SerialStep
    <3>4. CASE FindCalls \/ FindTimeout
      <4>1. UNCHANGED sessions /\ pc' \in Underway /\ pc' \notin Bought
        BY <3>4 DEF FindCalls, FindTimeout, Underway, Bought
      <4>2. st'.session = st.session
        <5>1. today \in Nat /\ st \in Loose
          BY Parts DEF Base
        <5>2. st' = refresh_budget_state(st)
          BY <3>4 DEF FindCalls, FindTimeout, Reading
        <5> QED
          BY <5>1, <5>2, RefreshShape
      <4> QED
        BY <1>4, <1>a, <2>1, <2>2, <3>1, <4>1, <4>2, SerialStep
    <3> QED
      BY <2>4, <3>2, <3>3, <3>4 DEF Find, FindIdle, FindFailed, Open
  <2>5. CASE Tools
    <3>1. /\ EvenStep /\ UNCHANGED sessions /\ pc \in Underway /\ pc' \in Underway /\ pc' \notin Bought
          /\ pc \in {"tools", "posted"}
      BY <2>5, ToolsEven DEF Underway, Bought
    <3>2. s.session = st.session
      BY <3>1 DEF Base, Flow, Running
    <3>3. st'.session = st.session
      BY <3>1, <3>2 DEF EvenStep, Even, SameTurn
    <3> QED
      BY <1>4, <1>a, <2>1, <2>2, <3>1, <3>3, SerialStep
  <2>6. CASE cancel_turn
    <3>1. Ended(s.session) /\ pc \in {"boundary", "recover"}
      BY <1>7, <2>6 DEF cancel_turn
    <3>2. s.session = st.session /\ st.session # NoSession /\ OnlyOpen(st.session)
      BY <2>1, <3>1 DEF Base, Flow, Running, Underway
    <3>3. ShutIn(sessions', st.permit) /\ Single(sessions')
      BY <2>1, <3>1, <3>2, SessionOnDisk, EndedShut
    <3> QED
      BY <1>5, <2>2, <3>3, SerialStep
  <2>7. CASE Close \/ (Abort /\ ~cancel_turn) \/ background_event \/ Sleep \/ Exhausted \/ Begin
    <3>1. UNCHANGED sessions /\ pc \in {"idle", "closed", "settle", "trip", "closure", "recovered", "drop", "submit"}
      BY <2>7 DEF Close, CloseAndHold, CloseAndFollow, CloseAndRotate, SaveClosed, CloseAndDisable, KeepIdle, SettleIdle,
         Closing, Abort, settle_usage_after_abort, Trip, RecoverOutcome, RotateRecovered, NotRotated, DropSession,
         background_event, Sleep, Exhausted, Begin
    <3>2. Shut
      BY <2>1, <3>1 DEF Underway, Bought
    <3> QED
      BY <1>3, <1>a, <2>1, <2>2, <3>1, <3>2, SerialStep
  <2>8. CASE create_session_with_input \/ send_prepared_input
    <3>1. Shut /\ Running /\ Delivered
      BY <2>1, <2>8 DEF create_session_with_input, send_prepared_input, Underway, Bought, Running
    <3>2. OnlyOpenIn(sessions', st.permit, s'.session) /\ Single(sessions')
      BY <2>1, <2>8, <3>1, DeliveredOpen, CreateFields DEF create_session_with_input, send_prepared_input
    <3>3. pc' \in Bought /\ pc' \notin Underway
      BY <2>8 DEF create_session_with_input, send_prepared_input, Underway, Bought
    <3> QED
      BY <2>2, <3>2, <3>3, SerialStep
  <2>9. CASE SubmissionUnknown
    BY <1>7, <2>9 DEF SubmissionUnknown
  <2>10. CASE _commit_prepared_input
    <3>1. pc \in Bought /\ UNCHANGED sessions /\ pc' \in Bought /\ pc' \notin Underway
      BY <2>10 DEF _commit_prepared_input, Bought, Underway
    <3>2. s'.session = s.session
      BY <2>10, SubmitNear DEF NearStep, Near, SameTurn
    <3> QED
      BY <1>4, <1>a, <2>1, <2>2, <3>1, <3>2, SerialStep
  <2>11. CASE record_model_submit
    <3>1. pc \in Bought /\ UNCHANGED sessions /\ pc' \in Underway /\ pc' \notin Bought
      BY <2>11 DEF record_model_submit, Bought, Underway
    <3>2. st'.session = s.session
      BY <2>11, CountFields DEF SameTurn
    <3> QED
      BY <1>4, <1>a, <2>1, <2>2, <3>1, <3>2, SerialStep
  <2>12. CASE PermitInvalid \/ Outside
    <3>1. UNCHANGED <<st, sessions>> /\ pc \in Underway /\ pc' \in Underway /\ pc' \notin Bought
      BY <2>12 DEF PermitInvalid, Outside, trip_hard_disable, Underway, Bought
    <3> QED
      BY <1>4, <1>a, <2>1, <2>2, <3>1, SerialStep
  <2>13. CASE Die
    <3>1. UNCHANGED <<st, sessions>> /\ pc \notin Bought /\ pc' \in Underway /\ pc' \notin Bought
      BY <1>1, <1>7, <2>13 DEF Die, Underway, Bought
    <3>2. OnlyOpen(st.session)
      BY <1>2, <2>1, <3>1
    <3> QED
      BY <1>4, <1>a, <2>1, <2>2, <3>1, <3>2, SerialStep
  <2> QED
    BY <1>7, <2>4, <2>5, <2>6, <2>7, <2>8, <2>9, <2>10, <2>11, <2>12, <2>13 DEF Next, main, Abort, Submit, Stopped
<1>8. unsure => unsure'
  BY DEF Next, main, Stopped, vars, AdoptPermit, Find, FindNoSession, FindIdle, FindCalls, FindFailed, FindTimeout,
     Tools, Close, CloseAndHold, CloseAndFollow, CloseAndRotate, SaveClosed, CloseAndDisable, KeepIdle, SettleIdle,
     Abort, cancel_turn, settle_usage_after_abort, Trip, RecoverOutcome, RotateRecovered, NotRotated, DropSession,
     Submit, background_event, Sleep, Exhausted, Begin, create_session_with_input, send_prepared_input,
     SubmissionUnknown, _commit_prepared_input, record_model_submit, PermitInvalid, Die, Outside, Still, past
<1> QED
  BY <1>1, <1>6, <1>7, <1>8, <1>9, <1>b DEF Stopped

LEMMA SerialInit == Init => Serial
<1>1. DOMAIN <<>> = {}
  OBVIOUS
<1> QED
  BY <1>1 DEF Init, Serial, Single

-----------------------------------------------------------------------------
(* What holds of the controller.                                             *)

ControllerInv == Base /\ ToolsInv /\ MoneyInv /\ Gates /\ Awaited /\ Owned /\ Serial

\* The inductive invariant: where the iteration stands relates what it holds in memory to
\* the disk, the ledger counts the submission about to be made, and the gates of the turns
\* already rotated differ from the gate of the turn in hand.
THEOREM ControllerInvariant == Spec => []ControllerInv
<1>1. Init => ControllerInv
  BY BaseInit, ToolsInit, MoneyInit, GatesInit, OwnedInit, SerialInit DEF ControllerInv
<1>2. ControllerInv /\ [Next]_vars => ControllerInv'
  BY BaseNext, ToolsNext, MoneyNext, GatesNext, AwaitedNext, OwnedNext, SerialNext DEF ControllerInv
<1> QED
  BY <1>1, <1>2, PTL DEF Spec

LEMMA StateInCaps ==
  ASSUME NEW x \in Loose, x.tools \in ToolsRange, Capped(x), x.reserved \in {0, Reservation}
  PROVE  x \in State
<1>1. MaxSubmits \in Nat /\ SessionSubmits \in Nat /\ MaxRotations \in Nat
  BY PermitAssumption
<1>2. x.submits \in Nat /\ x.total \in Nat /\ x.autonomous \in Nat /\ x.rotations \in Nat
  BY LooseCounts
<1>3. /\ x.submits \in 0..SessionSubmits /\ x.total \in 0..MaxSubmits /\ x.autonomous \in 0..MaxSubmits
      /\ x.rotations \in 0 .. MaxRotations + 1
  BY <1>1, <1>2 DEF Capped
<1> QED
  BY <1>3 DEF Loose, State, ToolsRange

LEMMA SoundTurns == ASSUME ControllerInv PROVE TurnsAreSound
<1>1. Shape /\ Flow /\ st \in Loose /\ s \in Loose /\ TurnShape
  BY Parts DEF ControllerInv, Base
<1>2. st.reserved \in {0, Reservation} /\ s.reserved \in {0, Reservation}
  BY DEF ControllerInv, MoneyInv, Ledger, Covered, CoveredBy
<1>3. st \in State /\ s \in State
  BY <1>1, <1>2, StateInCaps DEF ControllerInv, MoneyInv, Caps, ToolsInv, TurnTyped
<1>4. st.session \in 0..Len(sessions)
  <2>1. st.session \in Nat /\ st.session <= Len(sessions) /\ Len(sessions) \in Nat
    BY <1>1, Parts, SessionsShape DEF Flow
  <2> QED
    BY <2>1
<1>5. TypeOK
  BY <1>1, <1>3, <1>4 DEF TypeOK, TurnShape, Shape, Points
<1>6. EffectsOnce
  BY <1>1 DEF ControllerInv, ToolsInv, Once, EffectsOnce, TurnShape
<1>7. PostsAreBounded
  BY DEF ControllerInv, ToolsInv, Posted, PostsAreBounded
<1> QED
  BY <1>5, <1>6, <1>7 DEF TurnsAreSound

\* A death anywhere between the effect of a call, its file, the post and the counters
\* keeps every counter in its cap, dispatches no recorded effect again and posts no more
\* than the budget of calls (handle_required_actions, STATE).
THEOREM TurnSoundness == Spec => []TurnsAreSound
BY ControllerInvariant, SoundTurns, PTL

LEMMA CoveredSpend == ASSUME ControllerInv PROVE SpendIsCovered
<1>1. st \in Loose /\ sent.permit \in Nat /\ sent.day \in Nat /\ Shape
  BY Parts DEF ControllerInv, Base
<1>2. Covered(st)
  BY DEF ControllerInv, MoneyInv, Ledger
<1>3. sent.permit <= sent.permit + Owed /\ sent.day <= sent.day + Owed
      /\ sent.permit + Owed \in Nat /\ sent.day + Owed \in Nat
  BY <1>1 DEF Owed
<1>4. CoveredBy(st, permit.id, today, sent.permit, sent.day)
  BY <1>1, <1>2, <1>3, CoveredLess DEF Covered
<1>5. /\ Slack(st) \in Nat /\ Reservation > 0
      /\ st.actual + st.reserved \in Nat /\ st.dayActual + st.dayReserved \in Nat /\ st.dayReserved \in Nat
  BY <1>1, PermitAssumption DEF Slack, Loose
<1>6. /\ st.permit = permit.id => sent.permit + Slack(st) <= st.actual + st.reserved
      /\ st.day = today => sent.day + Slack(st) <= st.dayActual + st.dayReserved
      /\ st.live => st.dayReserved >= Reservation
      /\ st.reserved = IF st.live THEN Reservation ELSE 0
  BY <1>4 DEF CoveredBy
<1>7. st.actual \in Nat /\ st.live \in BOOLEAN /\ Reservation \in Nat
  BY <1>1, PermitAssumption DEF Loose
<1>8. st.permit = permit.id => sent.permit <= st.actual + IF st.live THEN 1 ELSE 0
  <2>1. CASE st.live
    BY <1>1, <1>6, <1>7, <2>1 DEF Slack
  <2>2. CASE ~st.live
    BY <1>1, <1>6, <1>7, <2>2 DEF Slack
  <2> QED
    BY <2>1, <2>2
<1>9. st.day = today => sent.day <= st.dayActual + st.dayReserved
  BY <1>1, <1>5, <1>6
<1>10. st.live => st.reserved = Reservation /\ st.dayReserved >= Reservation
  BY <1>6
<1> QED
  BY <1>8, <1>9, <1>10 DEF SpendIsCovered

\* Every submission of the permit and of the day is charged on disk, or has its whole
\* reservation there, over any number of deaths, permits and days (reserve_turn_tokens,
\* settle_session_usage).
THEOREM SpendCoverage == Spec => []SpendIsCovered
BY ControllerInvariant, CoveredSpend, PTL

LEMMA SerialTurns == ASSUME ControllerInv PROVE TurnsAreSerial
<1>1. OneGatePerOutcome
  BY DEF ControllerInv, Gates, OneGatePerOutcome
<1>2. OneTurnAtATime
  BY DEF ControllerInv, Serial, Single, OneTurnAtATime
<1> QED
  BY <1>1, <1>2 DEF TurnsAreSerial

\* However deaths fall between the two files of a rotation and around a submission, one
\* outcome moves the lock once, off the gate of its own turn, and unless a submission or
\* a cancel went unanswered no two sessions of one permit are open, whatever a permit
\* that was replaced left running (rotate_to_next_authorized_gate, cancel_turn).
THEOREM TurnSerialization == Spec => []TurnsAreSerial
BY ControllerInvariant, SerialTurns, PTL

ToldStep ==
    told /\ ~torn => \A i \in DOMAIN asked :
        i \in DOMAIN ran' /\ ran'[i] > ran[i] => asked[i] = "outcome"

LEMMA ToldWork ==
  ASSUME ControllerInv, [Next]_vars
  PROVE  ToldStep
<1>1. /\ Shape /\ Flow /\ Told /\ Counting /\ DOMAIN asked = DOMAIN ran
      /\ \A i \in DOMAIN asked : ran[i] \in Nat
  BY DEF ControllerInv, Base, ToolsInv, Shape, TurnShape
<1>2. CASE ran' = ran \/ ran' = <<>>
  <2>1. DOMAIN <<>> = {}
    OBVIOUS
  <2> QED
    BY <1>1, <1>2, <2>1 DEF ToldStep
<1>3. CASE asked = <<>>
  BY <1>3 DEF ToldStep
<1>4. CASE Dispatch
  <2>1. pc = "tools" /\ c.at \in DOMAIN asked /\ ran' = [ran EXCEPT ![c.at] = ran[c.at] + 1]
    BY <1>4 DEF Dispatch, MayCall, Calling
  <2>2. c.at > 0 /\ st.session # NoSession
    BY <1>1, <2>1, CallShape DEF Flow, Running
  <2>3. told /\ ~torn => TerminalOnly
    BY <1>1, <2>2 DEF Told
  <2> QED
    BY <1>1, <2>1, <2>3 DEF ToldStep, TerminalOnly, Batch
<1>5. (ran' = ran \/ ran' = <<>>) \/ asked = <<>> \/ Dispatch
  <2>1. CASE UNCHANGED vars \/ AdoptPermit \/ Find
    BY <2>1 DEF vars, toolVars, AdoptPermit, Find, FindNoSession, FindIdle, FindCalls, FindFailed, FindTimeout, Still
  <2>2. CASE Tools
    BY <2>2 DEF Tools, handle_required_actions, OutcomeOnlyDenial, VerificationDenial, ReconDenial, RoundDenial, Work,
       CallRaises, FromFile, CallReads, RecordEffect, PostResults, SaveTools, Post, Stop, toolVars
  <2>3. CASE Close \/ (Submit /\ ~Begin /\ ~create_session_with_input /\ ~record_model_submit)
    BY <2>3, CloseNear, SubmitNear DEF toolVars, ControllerInv, Submit
  <2>4. CASE Abort
    BY <2>4 DEF Abort, cancel_turn, settle_usage_after_abort, Trip, RecoverOutcome, RotateRecovered, NotRotated,
       DropSession, Still, toolVars
  <2>5. CASE Begin \/ create_session_with_input \/ record_model_submit \/ PermitInvalid \/ Die \/ Outside
    BY <2>5 DEF Begin, create_session_with_input, record_model_submit, PermitInvalid, Die, Outside, Still, toolVars
  <2> QED
    BY <2>1, <2>2, <2>3, <2>4, <2>5 DEF Next, main, Stopped
<1> QED
  BY <1>2, <1>3, <1>4, <1>5

\* Told that its outcome is all that is left, a turn has no other effect, in whatever
\* order denials, deaths and replays of the batch come (the denials of
\* handle_required_actions).
THEOREM WorkStops == Spec => WorkStopsWhenTold
<1>1. ControllerInv /\ [Next]_vars => [ToldStep]_<<s, asked, ran>>
  BY ToldWork
<1> QED
  BY <1>1, ControllerInvariant, PTL DEF Spec, WorkStopsWhenTold, ToldStep

-----------------------------------------------------------------------------
(* The control plane: what the registries and the memory of a pass say.      *)

PlaneTask == [state : Plane!TaskStates \cup {"ABSENT"}, run : 0..MaxRuns, decided : BOOLEAN]
PlaneWorker == [state : {"none", "RUNNING", "FINISHED"}, run : 0..MaxRuns]
PlaneCase == [det : SUBSET Tasks, deps : [Tasks -> SUBSET Tasks], runs : 0..MaxRuns,
              crashes : Nat, troubles : Nat]

Passes == {"launching", "launched", "polling", "polled"}

PlaneTypes ==
    /\ tasks \in [Tasks -> PlaneTask] /\ workers \in [Tasks -> PlaneWorker]
    /\ result \in [Tasks -> Plane!Terminal \cup {"none"}]
    /\ planeSessions \in [Tasks -> [1..MaxRuns -> Plane!SessionStates]]
    /\ brainSession \in Plane!SessionStates
    /\ announced \subseteq Tasks \X (1..MaxRuns) /\ untold \subseteq Tasks
    /\ planeLeft \in PlaneCase /\ planeCrashed \in BOOLEAN
    /\ \A t \in Tasks : /\ tasks[t].state # "ABSENT" => tasks[t].run # 0
                        /\ workers[t].state # "none" =>
                               workers[t].run # 0 /\ tasks[t].state # "ABSENT"

MemTypes ==
    planePc \in Passes =>
        mem \in [reg : [Tasks -> PlaneTask], wr : [Tasks -> PlaneWorker],
                 todo : SUBSET Tasks, cap : 0..MaxSessions, changed : BOOLEAN]

Waking == Plane!has_actionable_reasoning_event

\* The two registries in memory, as far as they differ from the disk's.
RegDiffers ==
    planePc \in Passes => \A t \in Tasks :
        /\ mem.reg[t].run = tasks[t].run /\ mem.reg[t].decided = tasks[t].decided
        /\ mem.reg[t].state # tasks[t].state =>
               \/ /\ mem.reg[t].state = "VERIFYING" /\ Waking /\ t \notin mem.todo
                  /\ tasks[t].state # "ABSENT"
                  /\ (planePc \in {"launching", "launched"} =>
                          tasks[t].state = "DISPATCH_REQUESTED")
               \/ /\ planePc \in {"launching", "launched"}
                  /\ tasks[t].state = "DISPATCH_REQUESTED" /\ t \notin mem.todo
                  /\ mem.reg[t].state = "RUNNING" /\ mem.wr[t].state = "RUNNING"

WrDiffers ==
    /\ planePc = "launching" => \A t \in Tasks :
           /\ t \in mem.todo => tasks[t].state = "DISPATCH_REQUESTED"
           /\ mem.wr[t] # workers[t] =>
                  /\ tasks[t].state = "DISPATCH_REQUESTED" /\ mem.wr[t].state = "RUNNING"
                  /\ mem.wr[t].run # 0
    /\ planePc = "polling" => \A t \in Tasks :
           /\ t \in mem.todo => mem.wr[t].state = "RUNNING"
           /\ mem.wr[t] # workers[t] =>
                  /\ workers[t].state = "RUNNING" /\ mem.wr[t].state = "FINISHED" /\ Waking
                  /\ mem.wr[t].run = workers[t].run
                  /\ result[t] # "none" /\ <<t, mem.wr[t].run>> \in announced
    /\ planePc \in {"launched", "polled"} => mem.wr = workers
    /\ planePc \in {"launching", "polling"} /\ ~mem.changed =>
           mem.wr = workers /\ mem.reg = tasks

Working(wr) == {t \in Tasks : wr[t].state = "RUNNING"}

\* A pass has room for the workers it still may start.
Roomy ==
    /\ Cardinality(Working(workers)) <= MaxSessions
    /\ planePc = "launching" =>
           /\ Cardinality(Working(mem.wr)) + mem.cap <= MaxSessions
           /\ mem.cap = 0 => Working(mem.wr) # {}

ApartIn(reg) ==
    \A t, u \in Tasks : t # u /\ reg[t].state = "RUNNING" /\ reg[u].state = "RUNNING" =>
        Writes[t] \cap Writes[u] = {}

KeptApart ==
    /\ ApartIn(tasks)
    /\ planePc \in Passes => ApartIn(mem.reg)

Reported ==
    \A t \in Tasks : workers[t].state = "FINISHED" =>
        result[t] # "none" /\ <<t, workers[t].run>> \in announced

Evidenced == \A t \in Tasks : tasks[t].state = "COMPLETE" => result[t] = "COMPLETE"

TrackedInv ==
    PlaneTypes /\ MemTypes /\ RegDiffers /\ WrDiffers /\ Roomy /\ KeptApart /\ Reported /\ Evidenced

-----------------------------------------------------------------------------
(* The control plane: what wakes the superbrain.                             *)

Asleep == brain.paused = "no_progress"
Unjudged(t) == t \in untold /\ tasks[t].state = "VERIFYING" /\ ~tasks[t].decided

\* A tool runs and answers while reasoning is not paused.
Answering == planePc \in {"post", "rejected"} => ~Asleep

\* Where no dispatch is taken back, a task that waits to be launched is launched.
WokenKept ==
    \A t \in Tasks : Unjudged(t) =>
        \/ Waking \/ Asleep \/ Working(workers) # {}
        \/ \E u \in Tasks : tasks[u].state = "DISPATCH_REQUESTED"

\* Where the controller does not die, a task just dispatched is started by the next
\* pass, unless a worker runs that is still to report.
Backed ==
    /\ planePc \in Passes => \A t \in Tasks :
           mem.reg[t].state = "RUNNING" => mem.wr[t].state = "RUNNING"
    /\ planePc # "polled" => \A t \in Tasks :
           tasks[t].state = "RUNNING" => workers[t].state = "RUNNING"
WokenAlive ==
    \A t \in Tasks : Unjudged(t) =>
        \/ Waking \/ Asleep
        \/ planePc # "launching" /\ Working(workers) # {}
        \/ planePc = "launching" /\ Working(mem.wr) # {}
        \/ /\ planePc \in {"post", "rejected", "launch"}
           /\ \E u \in Tasks : /\ tasks[u].state = "DISPATCH_REQUESTED"
                               /\ Plane!DepsComplete(tasks, u)
        \/ planePc = "launching" /\ \E u \in mem.todo : Plane!DepsComplete(mem.reg, u)

Kept == ~undone
Alive == ~planeCrashed

BrainTypes == brain \in [session : BOOLEAN, idle : BOOLEAN, boot : BOOLEAN,
                         paused : {"no", "budget", "no_progress", "tools", "rejected"}]

WakePart ==
    /\ BrainTypes /\ Answering
    /\ Kept => WokenKept
    /\ Alive => Backed /\ WokenAlive

WakeInv == TrackedInv /\ WakePart

-----------------------------------------------------------------------------
(* The control plane: the registries over one step.                          *)

LEMMA PlaneCounts == ASSUME NEW S PROVE Plane!Cardinality(S) = Cardinality(S)
BY DEF Plane!Cardinality, Cardinality

LEMMA PlaneStates ==
    /\ {"ABSENT", "READY", "DISPATCH_REQUESTED", "RUNNING", "VERIFYING", "COMPLETE", "FAILED",
        "BLOCKED", "SUPERSEDED"} = Plane!TaskStates \cup {"ABSENT"}
    /\ {"COMPLETE", "PARTIAL", "BLOCKED", "FAILED"} = Plane!Terminal
BY DEF Plane!TaskStates, Plane!Terminal

LEMMA TrackedInit == Plane!Init => TrackedInv
<1> SUFFICES ASSUME Plane!Init PROVE TrackedInv OBVIOUS
<1>1. PlaneTypes
  <2>1. tasks \in [Tasks -> PlaneTask] /\ workers \in [Tasks -> PlaneWorker]
    BY PlaneAssumption DEF Plane!Init, PlaneTask, PlaneWorker
  <2>2. planeSessions \in [Tasks -> [1..MaxRuns -> Plane!SessionStates]]
    BY DEF Plane!Init, Plane!SessionStates
  <2>3. planeLeft \in PlaneCase /\ planeCrashed \in BOOLEAN
    BY PlaneAssumption DEF Plane!Init, PlaneCase
  <2>4. /\ result \in [Tasks -> Plane!Terminal \cup {"none"}]
        /\ brainSession \in Plane!SessionStates
        /\ announced \subseteq Tasks \X (1..MaxRuns) /\ untold \subseteq Tasks
    BY DEF Plane!Init, Plane!SessionStates
  <2>5. \A t \in Tasks : tasks[t].state = "ABSENT" /\ workers[t].state = "none"
    BY DEF Plane!Init
  <2> QED BY <2>1, <2>2, <2>3, <2>4, <2>5 DEF PlaneTypes
<1>2. planePc = "negative" BY DEF Plane!Init
<1>3. Working(workers) = {} BY DEF Plane!Init, Working
<1>4. Roomy BY <1>2, <1>3, FS_EmptySet, PlaneAssumption DEF Roomy
<1>5. KeptApart /\ Reported /\ Evidenced
  BY <1>2 DEF Plane!Init, KeptApart, ApartIn, Passes, Reported, Evidenced
<1>6. MemTypes /\ RegDiffers /\ WrDiffers BY <1>2 DEF MemTypes, RegDiffers, WrDiffers, Passes
<1> QED BY <1>1, <1>4, <1>5, <1>6 DEF TrackedInv

\* A step that leaves the registries and the results alone, and ends outside a pass.
PlaneRest ==
    /\ planeSessions' \in [Tasks -> [1..MaxRuns -> Plane!SessionStates]]
    /\ brainSession' \in Plane!SessionStates
    /\ untold' \subseteq Tasks
    /\ planeLeft' \in PlaneCase /\ planeCrashed' \in BOOLEAN

LEMMA TrackedOutside ==
    ASSUME TrackedInv, UNCHANGED <<tasks, workers, result, announced>>,
           planePc' \notin Passes, PlaneRest
    PROVE  TrackedInv'
<1>1. PlaneTypes' BY DEF TrackedInv, PlaneTypes, PlaneRest
<1>2. MemTypes' /\ RegDiffers' /\ WrDiffers'
  BY DEF MemTypes, RegDiffers, WrDiffers, Passes
<1>3. Roomy' BY DEF TrackedInv, Roomy, Working, Passes
<1>4. KeptApart' /\ Reported' /\ Evidenced'
  BY DEF TrackedInv, KeptApart, ApartIn, Reported, Evidenced
<1> QED BY <1>1, <1>2, <1>3, <1>4 DEF TrackedInv

\* A step that rewrites one task outside a pass.
LEMMA TrackedTask ==
    ASSUME TrackedInv, UNCHANGED <<workers, result, announced>>, planePc' \notin Passes,
           PlaneRest, NEW t \in Tasks, NEW x \in PlaneTask,
           tasks' = [tasks EXCEPT ![t] = x],
           x.state \notin {"ABSENT", "RUNNING"}, x.run # 0,
           x.state = "COMPLETE" => result[t] = "COMPLETE"
    PROVE  TrackedInv'
<1>0. tasks \in [Tasks -> PlaneTask] BY DEF TrackedInv, PlaneTypes
<1>1. PlaneTypes' BY <1>0 DEF TrackedInv, PlaneTypes, PlaneRest
<1>2. MemTypes' /\ RegDiffers' /\ WrDiffers'
  BY DEF MemTypes, RegDiffers, WrDiffers, Passes
<1>3. Roomy' BY DEF TrackedInv, Roomy, Working, Passes
<1>4. KeptApart'
  BY <1>0 DEF TrackedInv, KeptApart, ApartIn
<1>5. Reported' /\ Evidenced'
  BY <1>0 DEF TrackedInv, Reported, Evidenced
<1> QED BY <1>1, <1>2, <1>3, <1>4, <1>5 DEF TrackedInv

LEMMA RestSame ==
    ASSUME TrackedInv, UNCHANGED <<planeSessions, brainSession, untold, planeLeft, planeCrashed>>
    PROVE  PlaneRest
BY DEF TrackedInv, PlaneTypes, PlaneRest

\* What the tools make of a task.
LEMMA ToolTask ==
    ASSUME TrackedInv, NEW t \in Tasks,
           \/ Plane!create_task(t) \/ Plane!dispatch_task(t) \/ Plane!supersede_task(t)
           \/ Plane!create_and_dispatch_readonly_task(t)
           \/ \E accepted \in BOOLEAN : Plane!ToolAccept(t, accepted)
    PROVE  TrackedInv'
<1>0. tasks[t] \in PlaneTask /\ planeLeft \in PlaneCase
  BY DEF TrackedInv, PlaneTypes
<1>1. /\ UNCHANGED <<workers, result, announced, planeSessions, brainSession, untold,
                     planeLeft, planeCrashed>>
      /\ planePc' = "post"
  BY DEF Plane!create_task, Plane!dispatch_task, Plane!supersede_task,
         Plane!create_and_dispatch_readonly_task, Plane!ToolAccept, Plane!ToolStep,
         Plane!platform, Plane!history
<1>2. planePc' \notin Passes BY <1>1 DEF Passes
<1>3. PlaneRest BY <1>1, RestSame
<1>4. CASE Plane!create_task(t) \/ Plane!create_and_dispatch_readonly_task(t)
  <2>1. tasks[t].run \in 0..MaxRuns /\ planeLeft.runs \in 0..MaxRuns
    BY <1>0 DEF PlaneTask, PlaneCase
  <2>2. tasks[t].run < planeLeft.runs
    BY <1>4 DEF Plane!create_task, Plane!create_and_dispatch_readonly_task
  <2>3. tasks[t].run + 1 \in 0..MaxRuns /\ tasks[t].run + 1 # 0
    BY <2>1, <2>2, PlaneAssumption
  <2>4. PICK name \in {"READY", "DISPATCH_REQUESTED"} :
            tasks' = [tasks EXCEPT ![t] =
                         [state |-> name, run |-> tasks[t].run + 1, decided |-> FALSE]]
    BY <1>4 DEF Plane!create_task, Plane!create_and_dispatch_readonly_task
  <2> DEFINE x == [state |-> name, run |-> tasks[t].run + 1, decided |-> FALSE]
  <2>5. /\ x \in PlaneTask /\ x.state \notin {"ABSENT", "RUNNING", "COMPLETE"} /\ x.run # 0
    BY <2>3, PlaneStates DEF PlaneTask
  <2> HIDE DEF x
  <2> QED BY <1>1, <1>2, <1>3, <2>4, <2>5, TrackedTask DEF x
<1>5. CASE ~(Plane!create_task(t) \/ Plane!create_and_dispatch_readonly_task(t))
  <2>1. tasks[t].state # "ABSENT"
    BY <1>5 DEF Plane!dispatch_task, Plane!supersede_task, Plane!ToolAccept,
                Plane!accept_worker_result
  <2>2. PICK name \in {"DISPATCH_REQUESTED", "SUPERSEDED", "COMPLETE", "BLOCKED", "FAILED"},
             decided \in BOOLEAN :
            /\ tasks' = [tasks EXCEPT ![t] = [tasks[t] EXCEPT !.state = name,
                                                             !.decided = decided]]
            /\ name = "COMPLETE" => result[t] = "COMPLETE"
    <3>1. CASE Plane!dispatch_task(t)
      BY <1>0, <3>1 DEF Plane!dispatch_task, PlaneTask
    <3>2. CASE Plane!supersede_task(t)
      BY <1>0, <3>2 DEF Plane!supersede_task, PlaneTask
    <3>3. CASE \E accepted \in BOOLEAN : Plane!ToolAccept(t, accepted)
      BY <3>3 DEF Plane!ToolAccept, Plane!accept_worker_result, Plane!Judged
    <3> QED BY <1>5, <3>1, <3>2, <3>3
  <2> DEFINE x == [tasks[t] EXCEPT !.state = name, !.decided = decided]
  <2>3. tasks[t].run # 0 BY <2>1 DEF TrackedInv, PlaneTypes
  <2>4. /\ x \in PlaneTask /\ x.state = name /\ x.run # 0
    BY <1>0, <2>3, PlaneStates DEF PlaneTask
  <2> HIDE DEF x
  <2> QED BY <1>1, <1>2, <1>3, <2>2, <2>4, TrackedTask DEF x
<1> QED BY <1>4, <1>5

\* The steps between the passes that leave the registries alone.
LEMMA BetweenPasses ==
    ASSUME TrackedInv,
           \/ Plane!NegativeBump \/ Plane!reconcile_repository_revision \/ Plane!RevisionBump
           \/ Plane!ToolReads \/ Plane!ToolRejected \/ Plane!PostAnswer \/ Plane!Crash
    PROVE  TrackedInv'
<1>1. /\ UNCHANGED <<tasks, workers, result, announced, planeSessions, untold>>
      /\ brainSession' \in {brainSession, "idle"} /\ planePc' \notin Passes
      /\ planeCrashed' \in {planeCrashed, TRUE}
  BY DEF Plane!NegativeBump, Plane!reconcile_repository_revision, Plane!RevisionBump,
         Plane!ToolReads, Plane!ToolRejected, Plane!PostAnswer, Plane!Crash, Plane!ToolStep,
         Plane!disk, Plane!control, Plane!platform, Plane!history, Passes
<1>2. planeLeft' \in PlaneCase
  <2>0. planeLeft \in PlaneCase BY DEF TrackedInv, PlaneTypes
  <2>1. CASE planeLeft' = planeLeft BY <2>0, <2>1
  <2>2. CASE Plane!Crash
    <3>1. planeLeft.crashes \in Nat /\ planeLeft.crashes > 0
      BY <2>0, <2>2 DEF Plane!Crash, PlaneCase
    <3>2. planeLeft.crashes - 1 \in Nat BY <3>1
    <3> QED BY <2>0, <2>2, <3>2 DEF Plane!Crash, PlaneCase
  <2> QED BY <2>1, <2>2
      DEF Plane!NegativeBump, Plane!reconcile_repository_revision, Plane!RevisionBump,
          Plane!ToolReads, Plane!ToolRejected, Plane!PostAnswer, Plane!ToolStep,
          Plane!history
<1>3. PlaneRest
  BY <1>1, <1>2 DEF TrackedInv, PlaneTypes, PlaneRest, Plane!SessionStates
<1> QED BY <1>1, <1>3, TrackedOutside

LEMMA NegativeTask == ASSUME TrackedInv, Plane!reconcile_negative_results PROVE TrackedInv'
<1>1. PICK t \in Tasks : Plane!NegativeOpen(t) /\ Plane!accept_worker_result(t, FALSE)
  BY DEF Plane!reconcile_negative_results
<1>2. /\ UNCHANGED <<workers, result, announced, planeSessions, brainSession, untold,
                     planeLeft, planeCrashed>>
      /\ planePc' = "negbump"
  BY DEF Plane!reconcile_negative_results, Plane!platform, Plane!history
<1>3. planePc' \notin Passes /\ PlaneRest BY <1>2, RestSame DEF Passes
<1>4. tasks[t] \in PlaneTask /\ tasks[t].run # 0
  BY <1>1 DEF TrackedInv, PlaneTypes, Plane!accept_worker_result
<1>5. PICK name \in {"BLOCKED", "FAILED"} :
          tasks' = [tasks EXCEPT ![t] = [tasks[t] EXCEPT !.state = name, !.decided = TRUE]]
  BY <1>1, <1>4 DEF Plane!accept_worker_result, Plane!Judged
<1> DEFINE x == [tasks[t] EXCEPT !.state = name, !.decided = TRUE]
<1>6. /\ x \in PlaneTask /\ x.state = name /\ x.run # 0
  BY <1>4, PlaneStates DEF PlaneTask
<1> HIDE DEF x
<1> QED BY <1>2, <1>3, <1>5, <1>6, TrackedTask DEF x

LEMMA ResourcesTracked == ASSUME TrackedInv, Plane!reconcile_platform_resources PROVE TrackedInv'
<1>1. /\ UNCHANGED <<tasks, workers, result, announced, untold, planeLeft, planeCrashed>>
      /\ planePc' = "brain"
  BY DEF Plane!reconcile_platform_resources, Plane!disk, Plane!history
<1>2. \A was \in Plane!SessionStates : Plane!Collected(was) \in Plane!SessionStates
  BY DEF Plane!SessionStates, Plane!Collected
<1>3. planeSessions' \in [Tasks -> [1..MaxRuns -> Plane!SessionStates]]
  <2>1. planeSessions \in [Tasks -> [1..MaxRuns -> Plane!SessionStates]]
    BY DEF TrackedInv, PlaneTypes
  <2>2. PICK done : planeSessions' = [t \in Tasks |-> [r \in 1..MaxRuns |->
            IF <<t, r>> \in done THEN Plane!Collected(planeSessions[t][r])
            ELSE planeSessions[t][r]]]
    BY DEF Plane!reconcile_platform_resources
  <2>3. \A t \in Tasks, r \in 1..MaxRuns :
            /\ planeSessions[t][r] \in Plane!SessionStates
            /\ Plane!Collected(planeSessions[t][r]) \in Plane!SessionStates
    BY <1>2, <2>1
  <2> QED BY <2>2, <2>3
<1>4. brainSession' \in Plane!SessionStates
  BY <1>2 DEF Plane!reconcile_platform_resources, TrackedInv, PlaneTypes
<1>5. PlaneRest BY <1>1, <1>3, <1>4 DEF TrackedInv, PlaneTypes, PlaneRest
<1> QED BY <1>1, <1>5, TrackedOutside DEF Passes

\* What poll_superbrain may do to the event, the session and the history.
LEMMA EnsureParts ==
    ASSUME NEW b, NEW force, NEW old, NEW exhausted,
           Plane!ensure_superbrain_session(b, force, old, exhausted)
    PROVE  /\ brainSession' \in {old, "live"}
           /\ untold' \in {untold, {}}
BY DEF Plane!ensure_superbrain_session

LEMMA BrainTracked == ASSUME TrackedInv, Plane!poll_superbrain PROVE TrackedInv'
<1>0. planeLeft \in PlaneCase BY DEF TrackedInv, PlaneTypes
<1>1. /\ UNCHANGED <<tasks, workers, result, announced, planeSessions, planeCrashed>>
      /\ planePc' = "launch"
  BY DEF Plane!poll_superbrain, Plane!disk
<1>2. planeLeft' \in PlaneCase
  <2>1. CASE planeLeft' = planeLeft BY <1>0, <2>1
  <2>2. CASE planeLeft' = Plane!Trouble /\ planeLeft.troubles > 0
    <3>1. planeLeft.troubles - 1 \in Nat BY <1>0, <2>2 DEF PlaneCase
    <3> QED BY <1>0, <2>2, <3>1 DEF Plane!Trouble, PlaneCase
  <2> QED BY <2>1, <2>2 DEF Plane!poll_superbrain
<1>3. brainSession' \in {brainSession, "live", "idle", "deleted"} /\ untold' \in {untold, {}}
  <2>1. PICK trouble \in BOOLEAN :
            \/ Plane!BrainNoProgress \/ Plane!BrainLost(trouble) \/ Plane!BrainBudgetHold
            \/ Plane!BrainPaused(trouble) \/ Plane!BrainFailed(trouble) \/ Plane!BrainNoSession
            \/ Plane!BrainWaits \/ Plane!BrainTurnEnded \/ Plane!BrainToolBudget
    BY DEF Plane!poll_superbrain
  <2>2. CASE \/ Plane!BrainNoProgress \/ Plane!BrainBudgetHold \/ Plane!BrainWaits
             \/ Plane!BrainTurnEnded \/ Plane!BrainToolBudget
    BY <2>2 DEF Plane!BrainNoProgress, Plane!BrainBudgetHold, Plane!BrainWaits,
                Plane!BrainTurnEnded, Plane!BrainToolBudget
  <2>3. CASE Plane!BrainLost(trouble) BY <2>3, EnsureParts DEF Plane!BrainLost
  <2>4. CASE Plane!BrainPaused(trouble) BY <2>4, EnsureParts DEF Plane!BrainPaused
  <2>5. CASE Plane!BrainFailed(trouble) BY <2>5, EnsureParts DEF Plane!BrainFailed
  <2>6. CASE Plane!BrainNoSession BY <2>6, EnsureParts DEF Plane!BrainNoSession
  <2> QED BY <2>1, <2>2, <2>3, <2>4, <2>5, <2>6
<1>4. PlaneRest
  BY <1>1, <1>2, <1>3 DEF TrackedInv, PlaneTypes, PlaneRest, Plane!SessionStates
<1> QED BY <1>1, <1>4, TrackedOutside DEF Passes

-----------------------------------------------------------------------------
(* The control plane: the two passes over the registries.                    *)

\* What a step within a pass leaves alone.
PassRest ==
    /\ UNCHANGED <<tasks, workers, brainSession, planeCrashed>>
    /\ planeSessions' \in [Tasks -> [1..MaxRuns -> Plane!SessionStates]]
    /\ result' \in [Tasks -> Plane!Terminal \cup {"none"}]
    /\ announced' \subseteq Tasks \X (1..MaxRuns) /\ announced \subseteq announced'
    /\ untold' \subseteq Tasks /\ planeLeft' \in PlaneCase
    /\ \A t \in Tasks : result[t] # "none" => result'[t] # "none"
    /\ \A t \in Tasks : tasks[t].state = "COMPLETE" => result'[t] = result[t] \/ result[t] = "none"

LEMMA PassKeeps ==
    ASSUME TrackedInv, PassRest
    PROVE  PlaneTypes' /\ Reported' /\ Evidenced' /\ ApartIn(tasks)'
           /\ (Cardinality(Working(workers)) <= MaxSessions)'
<1>1. PlaneTypes' BY DEF TrackedInv, PlaneTypes, PassRest
<1>2. Reported' BY DEF TrackedInv, Reported, PassRest
<1>3. Evidenced' BY DEF TrackedInv, Evidenced, PassRest
<1>4. ApartIn(tasks)' BY DEF TrackedInv, KeptApart, ApartIn, PassRest
<1>5. (Cardinality(Working(workers)) <= MaxSessions)'
  BY DEF TrackedInv, Roomy, Working, PassRest
<1> QED BY <1>1, <1>2, <1>3, <1>4, <1>5

LEMMA WorkingFinite == ASSUME NEW wr PROVE IsFiniteSet(Working(wr)) /\ Cardinality(Working(wr)) \in Nat
<1>1. Working(wr) \subseteq Tasks BY DEF Working
<1>2. IsFiniteSet(Working(wr)) BY <1>1, PlaneAssumption, FS_Subset
<1> QED BY <1>2, FS_CardinalityType

LEMMA LaunchStartTracked == ASSUME TrackedInv, Plane!LaunchStart PROVE TrackedInv'
<1>1. /\ UNCHANGED <<tasks, workers, result, announced, planeSessions, brainSession, untold,
                     planeLeft, planeCrashed>>
      /\ planePc = "launch"
  BY DEF Plane!LaunchStart, Plane!disk, Plane!Elsewhere, Plane!history
<1>2. CASE planePc' = "poll" BY <1>1, <1>2, RestSame, TrackedOutside DEF Passes
<1>3. CASE planePc' # "poll"
  <2> DEFINE free == MaxSessions - Cardinality(Working(workers))
             todo == {t \in Tasks : tasks[t].state = "DISPATCH_REQUESTED"}
  <2>1. /\ ~(free <= 0) /\ planePc' = "launching"
        /\ mem' = [reg |-> tasks, wr |-> workers, todo |-> todo, cap |-> free,
                   changed |-> FALSE]
    <3>1. Plane!Cardinality(Plane!Running) = Cardinality(Working(workers))
      BY PlaneCounts DEF Plane!Running, Working
    <3> QED BY <1>3, <3>1 DEF Plane!LaunchStart
  <2>2. free \in 0..MaxSessions /\ free # 0
    BY <2>1, WorkingFinite, PlaneAssumption
  <2>3. mem'.reg = tasks /\ mem'.wr = workers /\ mem'.todo = todo /\ mem'.cap = free
        /\ mem'.changed = FALSE
    BY <2>1
  <2>4. PlaneTypes' BY <1>1 DEF TrackedInv, PlaneTypes
  <2>5. MemTypes'
    BY <2>1, <2>2 DEF TrackedInv, PlaneTypes, MemTypes
  <2>6. RegDiffers' BY <1>1, <2>3 DEF RegDiffers
  <2>7. WrDiffers' BY <1>1, <2>1, <2>3 DEF WrDiffers
  <2>8. Roomy'
    <3>1. Working(workers)' = Working(workers) /\ Working(mem.wr)' = Working(workers)
      BY <1>1, <2>3 DEF Working
    <3>2. Cardinality(Working(workers)) + free <= MaxSessions
      BY WorkingFinite, PlaneAssumption
    <3> HIDE DEF free
    <3> QED BY <2>1, <2>2, <2>3, <3>1, <3>2 DEF TrackedInv, Roomy
  <2>9. KeptApart' /\ Reported' /\ Evidenced'
    BY <1>1, <2>3 DEF TrackedInv, KeptApart, ApartIn, Reported, Evidenced
  <2> QED BY <2>4, <2>5, <2>6, <2>7, <2>8, <2>9 DEF TrackedInv
<1> QED BY <1>2, <1>3

LEMMA LaunchSkipTracked ==
    ASSUME TrackedInv, NEW t \in Tasks, Plane!LaunchSkip(t) PROVE TrackedInv'
<1>1. /\ UNCHANGED <<tasks, workers, result, announced, planeSessions, brainSession, untold,
                     planeLeft, planeCrashed, event>>
      /\ planePc = "launching" /\ planePc' = "launching"
      /\ mem' = [mem EXCEPT !.todo = @ \ {t}]
  BY DEF Plane!LaunchSkip, Plane!Candidate, Plane!disk, Plane!Elsewhere, Plane!history
<1>2. mem \in [reg : [Tasks -> PlaneTask], wr : [Tasks -> PlaneWorker],
               todo : SUBSET Tasks, cap : 0..MaxSessions, changed : BOOLEAN]
  BY <1>1 DEF TrackedInv, MemTypes, Passes
<1>3. /\ mem'.reg = mem.reg /\ mem'.wr = mem.wr /\ mem'.todo = mem.todo \ {t}
      /\ mem'.cap = mem.cap /\ mem'.changed = mem.changed
  BY <1>1, <1>2
<1>4. PassRest BY <1>1 DEF TrackedInv, PlaneTypes, PassRest
<1>5. MemTypes' BY <1>1, <1>2 DEF MemTypes
<1>6. RegDiffers'
  BY <1>1, <1>3 DEF TrackedInv, RegDiffers, Waking, Plane!has_actionable_reasoning_event, Passes
<1>7. WrDiffers' BY <1>1, <1>3 DEF TrackedInv, WrDiffers
<1>8. Roomy' BY <1>1, <1>3 DEF TrackedInv, Roomy, Working
<1>9. KeptApart' BY <1>1, <1>3 DEF TrackedInv, KeptApart, ApartIn, Passes
<1> QED BY <1>4, <1>5, <1>6, <1>7, <1>8, <1>9, PassKeeps DEF TrackedInv

LEMMA LaunchSessionTracked ==
    ASSUME TrackedInv, NEW t \in Tasks, Plane!LaunchSession(t) PROVE TrackedInv'
<1> DEFINE r == tasks[t].run
<1>1. /\ UNCHANGED <<tasks, workers, result, announced, brainSession, untold,
                     planeLeft, planeCrashed, event>>
      /\ planePc = "launching" /\ planePc' = "launching" /\ t \in mem.todo
      /\ mem.cap > 0 /\ ~Plane!Conflict(mem.reg, t)
      /\ mem' = [mem EXCEPT !.todo = @ \ {t}, !.cap = @ - 1, !.changed = TRUE,
                            !.wr[t] = [state |-> "RUNNING", run |-> r],
                            !.reg[t].state = "RUNNING"]
      /\ planeSessions' = [planeSessions EXCEPT
                               ![t][r] = IF @ = "absent" THEN "live" ELSE @]
  BY DEF Plane!LaunchSession, Plane!Candidate, Plane!disk, Plane!Elsewhere, Plane!history
<1>2. mem \in [reg : [Tasks -> PlaneTask], wr : [Tasks -> PlaneWorker],
               todo : SUBSET Tasks, cap : 0..MaxSessions, changed : BOOLEAN]
  BY <1>1 DEF TrackedInv, MemTypes, Passes
<1>3. /\ mem'.reg = [mem.reg EXCEPT ![t].state = "RUNNING"]
      /\ mem'.wr = [mem.wr EXCEPT ![t] = [state |-> "RUNNING", run |-> r]]
      /\ mem'.todo = mem.todo \ {t}
      /\ mem'.cap = mem.cap - 1 /\ mem'.changed = TRUE
  BY <1>1, <1>2
<1>4. tasks[t].state = "DISPATCH_REQUESTED" /\ r \in 0..MaxRuns /\ r # 0
  BY <1>1 DEF TrackedInv, WrDiffers, PlaneTypes, PlaneTask
<1>5. PassRest
  <2>1. planeSessions \in [Tasks -> [1..MaxRuns -> Plane!SessionStates]] /\ r \in 1..MaxRuns
    BY <1>4, PlaneAssumption DEF TrackedInv, PlaneTypes
  <2>2. (IF planeSessions[t][r] = "absent" THEN "live" ELSE planeSessions[t][r])
            \in Plane!SessionStates
    BY <2>1 DEF Plane!SessionStates
  <2>3. planeSessions' \in [Tasks -> [1..MaxRuns -> Plane!SessionStates]]
    BY <1>1, <2>1, <2>2
  <2> QED BY <1>1, <2>3 DEF TrackedInv, PlaneTypes, PassRest
<1>6. mem.reg \in [Tasks -> PlaneTask] /\ mem.wr \in [Tasks -> PlaneWorker]
      /\ mem.cap \in 0..MaxSessions
  BY <1>2
<1>7. MemTypes'
  <2>1. [state |-> "RUNNING", run |-> r] \in PlaneWorker BY <1>4 DEF PlaneWorker
  <2>2. [mem.reg[t] EXCEPT !.state = "RUNNING"] \in PlaneTask
    BY <1>6, PlaneStates DEF PlaneTask
  <2>3. mem.cap - 1 \in 0..MaxSessions BY <1>1, <1>6, PlaneAssumption
  <2>4. mem'.reg \in [Tasks -> PlaneTask] /\ mem'.wr \in [Tasks -> PlaneWorker]
    BY <1>3, <1>6, <2>1, <2>2
  <2> QED BY <1>1, <1>2, <1>3, <2>3, <2>4 DEF MemTypes
<1>8. /\ \A u \in Tasks : u # t => mem'.reg[u] = mem.reg[u] /\ mem'.wr[u] = mem.wr[u]
      /\ mem'.reg[t].state = "RUNNING" /\ mem'.reg[t].run = mem.reg[t].run
      /\ mem'.reg[t].decided = mem.reg[t].decided
      /\ mem'.wr[t].state = "RUNNING" /\ mem'.wr[t].run = r
  BY <1>3, <1>6 DEF PlaneTask
<1>9. RegDiffers'
  BY <1>1, <1>3, <1>4, <1>8
  DEF TrackedInv, RegDiffers, Waking, Plane!has_actionable_reasoning_event, Passes
<1>10. WrDiffers' BY <1>1, <1>3, <1>4, <1>8 DEF TrackedInv, WrDiffers
<1>11. Roomy'
  <2>1. Working(mem'.wr) = Working(mem.wr) \cup {t} BY <1>8 DEF Working
  <2>2. Cardinality(Working(mem.wr) \cup {t}) <= Cardinality(Working(mem.wr)) + 1
    <3> DEFINE W == Working(mem.wr)
    <3>1. IsFiniteSet(W) /\ Cardinality(W) \in Nat BY WorkingFinite
    <3> HIDE DEF W
    <3>2. Cardinality(W \cup {t}) = IF t \in W THEN Cardinality(W) ELSE Cardinality(W) + 1
      BY <3>1, FS_AddElement
    <3>3. Cardinality(W \cup {t}) <= Cardinality(W) + 1 BY <3>1, <3>2
    <3> QED BY <3>3 DEF W
  <2>3. /\ Cardinality(Working(workers)) <= MaxSessions
        /\ Cardinality(Working(mem.wr)) + mem.cap <= MaxSessions
    BY <1>1 DEF TrackedInv, Roomy
  <2>4. Cardinality(Working(mem'.wr)) + mem'.cap <= MaxSessions
    <3>1. Cardinality(Working(mem.wr)) \in Nat /\ Cardinality(Working(mem'.wr)) \in Nat
      BY WorkingFinite
    <3>2. Cardinality(Working(mem'.wr)) <= Cardinality(Working(mem.wr)) + 1 BY <2>1, <2>2
    <3> QED BY <1>3, <1>6, <2>3, <3>1, <3>2, PlaneAssumption
  <2>5. Working(mem'.wr) # {} /\ Working(workers)' = Working(workers)
        /\ Working(mem.wr)' = Working(mem'.wr)
    BY <1>1, <2>1 DEF Working
  <2> QED BY <1>1, <2>3, <2>4, <2>5 DEF Roomy
<1>12. KeptApart'
  BY <1>1, <1>8 DEF TrackedInv, KeptApart, ApartIn, Passes, Plane!Conflict
<1> QED BY <1>5, <1>7, <1>9, <1>10, <1>11, <1>12, PassKeeps DEF TrackedInv

LEMMA LaunchCommandTracked ==
    ASSUME TrackedInv, NEW t \in Tasks, Plane!LaunchCommand(t) PROVE TrackedInv'
<1>1. PICK status \in {"COMPLETE", "FAILED"} :
      /\ UNCHANGED <<tasks, workers, planeSessions, brainSession, planeLeft, planeCrashed>>
      /\ planePc = "launching" /\ planePc' = "launching" /\ t \in mem.todo
      /\ result' = [result EXCEPT ![t] = status]
      /\ mem' = [mem EXCEPT !.todo = @ \ {t}, !.changed = TRUE, !.reg[t].state = "VERIFYING"]
      /\ event' = "worker_result" /\ untold' = untold \cup {t}
      /\ announced' = announced \cup {<<t, tasks[t].run>>}
  BY DEF Plane!LaunchCommand, Plane!Candidate, Plane!Announce, Plane!bump_event,
         Plane!Elsewhere, Plane!history
<1>2. mem \in [reg : [Tasks -> PlaneTask], wr : [Tasks -> PlaneWorker],
               todo : SUBSET Tasks, cap : 0..MaxSessions, changed : BOOLEAN]
  BY <1>1 DEF TrackedInv, MemTypes, Passes
<1>3. /\ mem'.reg = [mem.reg EXCEPT ![t].state = "VERIFYING"]
      /\ mem'.wr = mem.wr /\ mem'.todo = mem.todo \ {t}
      /\ mem'.cap = mem.cap /\ mem'.changed = TRUE
  BY <1>1, <1>2
<1>4. tasks[t].state = "DISPATCH_REQUESTED" /\ tasks[t].run \in 1..MaxRuns
  BY <1>1, PlaneAssumption DEF TrackedInv, WrDiffers, PlaneTypes, PlaneTask
<1>5. PassRest
  <2>1. result \in [Tasks -> Plane!Terminal \cup {"none"}]
    BY DEF TrackedInv, PlaneTypes
  <2>2. result' \in [Tasks -> Plane!Terminal \cup {"none"}]
        /\ \A u \in Tasks : result'[u] # result[u] => u = t /\ result'[u] # "none"
    BY <1>1, <2>1, PlaneStates
  <2> QED BY <1>1, <1>4, <2>2 DEF TrackedInv, PlaneTypes, PassRest
<1>6. mem.reg \in [Tasks -> PlaneTask] BY <1>2
<1>7. MemTypes'
  <2>2. [mem.reg[t] EXCEPT !.state = "VERIFYING"] \in PlaneTask
    BY <1>6, PlaneStates DEF PlaneTask
  <2>4. mem'.reg \in [Tasks -> PlaneTask] BY <1>3, <1>6, <2>2
  <2> QED BY <1>1, <1>2, <1>3, <2>4 DEF MemTypes
<1>8. /\ \A u \in Tasks : u # t => mem'.reg[u] = mem.reg[u]
      /\ mem'.reg[t].state = "VERIFYING" /\ mem'.reg[t].run = mem.reg[t].run
      /\ mem'.reg[t].decided = mem.reg[t].decided
  BY <1>3, <1>6 DEF PlaneTask
<1>9. RegDiffers'
  BY <1>1, <1>3, <1>4, <1>8
  DEF TrackedInv, RegDiffers, Waking, Plane!has_actionable_reasoning_event, Plane!Reasoning,
      Passes
<1>10. WrDiffers' BY <1>1, <1>3, <1>4, <1>8 DEF TrackedInv, WrDiffers
<1>11. Roomy' BY <1>1, <1>3 DEF TrackedInv, Roomy, Working
<1>12. KeptApart'
  BY <1>1, <1>8 DEF TrackedInv, KeptApart, ApartIn, Passes
<1> QED BY <1>5, <1>7, <1>9, <1>10, <1>11, <1>12, PassKeeps DEF TrackedInv

LEMMA PollStartTracked == ASSUME TrackedInv, Plane!PollStart PROVE TrackedInv'
<1>1. /\ UNCHANGED <<tasks, workers, result, announced, planeSessions, brainSession, untold,
                     planeLeft, planeCrashed>>
      /\ planePc = "poll"
  BY DEF Plane!PollStart, Plane!disk, Plane!Elsewhere, Plane!history
<1>2. CASE planePc' = "negative" BY <1>1, <1>2, RestSame, TrackedOutside DEF Passes
<1>3. CASE planePc' # "negative"
  <2>1. /\ planePc' = "polling"
        /\ mem' = [reg |-> tasks, wr |-> workers, todo |-> Plane!Running, cap |-> 0,
                   changed |-> FALSE]
    BY <1>3 DEF Plane!PollStart
  <2>2. mem'.reg = tasks /\ mem'.wr = workers /\ mem'.todo = Working(workers) /\ mem'.cap = 0
        /\ mem'.changed = FALSE
    BY <2>1 DEF Plane!Running, Working
  <2>3. 0 \in 0..MaxSessions /\ Working(workers) \subseteq Tasks
    BY PlaneAssumption DEF Working
  <2>4. PlaneTypes' BY <1>1 DEF TrackedInv, PlaneTypes
  <2>5. MemTypes'
    BY <2>1, <2>3 DEF TrackedInv, PlaneTypes, MemTypes, Plane!Running, Working
  <2>6. RegDiffers' BY <1>1, <2>2 DEF RegDiffers
  <2>7. WrDiffers' BY <1>1, <2>1, <2>2 DEF WrDiffers, Working
  <2>8. Roomy' BY <1>1, <2>1 DEF TrackedInv, Roomy, Working
  <2>9. KeptApart' /\ Reported' /\ Evidenced'
    BY <1>1, <2>2 DEF TrackedInv, KeptApart, ApartIn, Reported, Evidenced
  <2> QED BY <2>4, <2>5, <2>6, <2>7, <2>8, <2>9 DEF TrackedInv
<1> QED BY <1>2, <1>3

\* What Polled says, and that the worker at hand runs and has a task.
LEMMA PolledParts ==
    ASSUME TrackedInv, NEW t \in Tasks, Plane!Polled(t)
    PROVE  /\ UNCHANGED <<tasks, workers, brain, brainSession, planeCrashed>>
           /\ planePc = "polling" /\ planePc' = "polling" /\ t \in mem.todo
           /\ mem \in [reg : [Tasks -> PlaneTask], wr : [Tasks -> PlaneWorker],
                       todo : SUBSET Tasks, cap : 0..MaxSessions, changed : BOOLEAN]
           /\ workers[t].state = "RUNNING" /\ mem.wr[t] = workers[t]
           /\ tasks[t].state # "ABSENT" /\ workers[t].run \in 1..MaxRuns
<1>1. /\ UNCHANGED <<tasks, workers, brain, brainSession, planeCrashed>>
      /\ planePc = "polling" /\ planePc' = "polling" /\ t \in mem.todo
  BY DEF Plane!Polled
<1>2. workers[t].state = "RUNNING" /\ mem.wr[t] = workers[t]
  <2>1. /\ mem.wr[t].state = "RUNNING"
        /\ mem.wr[t] # workers[t] => mem.wr[t].state = "FINISHED"
    BY <1>1 DEF TrackedInv, WrDiffers
  <2> QED BY <2>1
<1>3. tasks[t].state # "ABSENT" /\ workers[t].run \in 1..MaxRuns
  BY <1>2, PlaneAssumption DEF TrackedInv, PlaneTypes, PlaneWorker
<1> QED BY <1>1, <1>2, <1>3 DEF TrackedInv, MemTypes, Passes

LEMMA FinishTracked ==
    ASSUME TrackedInv, NEW t \in Tasks, Plane!Polled(t), planeLeft' \in PlaneCase,
           NEW status \in Plane!Terminal, NEW session \in Plane!SessionStates,
           Plane!FinishWorker(t, status, session)
    PROVE  TrackedInv'
<1> DEFINE r == workers[t].run
<1>1. /\ UNCHANGED <<tasks, workers, brain, brainSession, planeCrashed>>
      /\ planePc = "polling" /\ planePc' = "polling" /\ t \in mem.todo
      /\ workers[t].state = "RUNNING" /\ mem.wr[t] = workers[t]
      /\ tasks[t].state # "ABSENT" /\ r \in 1..MaxRuns
  BY PolledParts
<1>2. mem \in [reg : [Tasks -> PlaneTask], wr : [Tasks -> PlaneWorker],
               todo : SUBSET Tasks, cap : 0..MaxSessions, changed : BOOLEAN]
  BY PolledParts
<1>3. /\ result' = [result EXCEPT ![t] = IF @ = "none" THEN status ELSE @]
      /\ planeSessions' = [planeSessions EXCEPT ![t][r] = session]
      /\ mem' = [mem EXCEPT !.todo = @ \ {t}, !.changed = TRUE,
                            !.wr[t].state = "FINISHED", !.reg[t].state = "VERIFYING"]
      /\ event' = "worker_result" /\ untold' = untold \cup {t}
      /\ announced' = announced \cup {<<t, r>>}
  BY <1>1 DEF Plane!FinishWorker, Plane!Announce, Plane!bump_event
<1>4. /\ mem'.reg = [mem.reg EXCEPT ![t].state = "VERIFYING"]
      /\ mem'.wr = [mem.wr EXCEPT ![t].state = "FINISHED"]
      /\ mem'.todo = mem.todo \ {t} /\ mem'.cap = mem.cap /\ mem'.changed = TRUE
  BY <1>2, <1>3
<1>5. mem.reg \in [Tasks -> PlaneTask] /\ mem.wr \in [Tasks -> PlaneWorker] BY <1>2
<1>6. result'[t] # "none" /\ \A u \in Tasks : u # t => result'[u] = result[u]
  <2>1. result \in [Tasks -> Plane!Terminal \cup {"none"}]
    BY DEF TrackedInv, PlaneTypes
  <2> QED BY <1>3, <2>1, PlaneStates
<1>7. PassRest
  <2>1. result \in [Tasks -> Plane!Terminal \cup {"none"}]
        /\ planeSessions \in [Tasks -> [1..MaxRuns -> Plane!SessionStates]]
    BY DEF TrackedInv, PlaneTypes
  <2>2. result' \in [Tasks -> Plane!Terminal \cup {"none"}] BY <1>3, <2>1
  <2>3. planeSessions' \in [Tasks -> [1..MaxRuns -> Plane!SessionStates]]
    BY <1>1, <1>3, <2>1
  <2>4. announced' \subseteq Tasks \X (1..MaxRuns) /\ announced \subseteq announced'
        /\ untold' \subseteq Tasks
    BY <1>1, <1>3 DEF TrackedInv, PlaneTypes
  <2>5. result'[t] = result[t] \/ result[t] = "none" BY <1>3, <2>1
  <2> QED BY <1>1, <1>6, <2>2, <2>3, <2>4, <2>5 DEF PassRest
<1>8. MemTypes'
  <2>1. [mem.wr[t] EXCEPT !.state = "FINISHED"] \in PlaneWorker BY <1>5 DEF PlaneWorker
  <2>2. [mem.reg[t] EXCEPT !.state = "VERIFYING"] \in PlaneTask
    BY <1>5, PlaneStates DEF PlaneTask
  <2>3. mem'.reg \in [Tasks -> PlaneTask] /\ mem'.wr \in [Tasks -> PlaneWorker]
    BY <1>4, <1>5, <2>1, <2>2
  <2> QED BY <1>1, <1>2, <1>3, <2>3 DEF MemTypes
<1>9. /\ \A u \in Tasks : u # t => mem'.reg[u] = mem.reg[u] /\ mem'.wr[u] = mem.wr[u]
      /\ mem'.reg[t].state = "VERIFYING" /\ mem'.reg[t].run = mem.reg[t].run
      /\ mem'.reg[t].decided = mem.reg[t].decided
      /\ mem'.wr[t].state = "FINISHED" /\ mem'.wr[t].run = r
  BY <1>1, <1>4, <1>5 DEF PlaneTask, PlaneWorker
<1>10. RegDiffers'
  BY <1>1, <1>3, <1>4, <1>9
  DEF TrackedInv, RegDiffers, Waking, Plane!has_actionable_reasoning_event, Plane!Reasoning,
      Passes
<1>11. WrDiffers'
  BY <1>1, <1>3, <1>4, <1>6, <1>9
  DEF TrackedInv, WrDiffers, Waking, Plane!has_actionable_reasoning_event, Plane!Reasoning
<1>12. Roomy' BY <1>1 DEF TrackedInv, Roomy, Working
<1>13. KeptApart'
  BY <1>1, <1>9 DEF TrackedInv, KeptApart, ApartIn, Passes
<1> QED BY <1>7, <1>8, <1>10, <1>11, <1>12, <1>13, PassKeeps DEF TrackedInv

\* A look at a worker that finds it running, and a tool of it.
LEMMA GoesOnTracked ==
    ASSUME TrackedInv, NEW t \in Tasks, Plane!PollTool(t) \/ Plane!PollRunning(t)
    PROVE  TrackedInv'
<1>0. Plane!Polled(t) BY DEF Plane!PollTool, Plane!PollRunning
<1>1. /\ UNCHANGED <<tasks, workers, brain, brainSession, planeCrashed>>
      /\ planePc = "polling" /\ planePc' = "polling" /\ t \in mem.todo
  BY <1>0, PolledParts
<1>2. mem \in [reg : [Tasks -> PlaneTask], wr : [Tasks -> PlaneWorker],
               todo : SUBSET Tasks, cap : 0..MaxSessions, changed : BOOLEAN]
  BY <1>0, PolledParts
<1>3. PICK changed \in {mem.changed, TRUE} :
         mem' = [mem EXCEPT !.todo = @ \ {t}, !.changed = changed]
  BY <1>2 DEF Plane!PollTool, Plane!PollRunning
<1>4. /\ mem'.reg = mem.reg /\ mem'.wr = mem.wr /\ mem'.todo = mem.todo \ {t}
      /\ mem'.cap = mem.cap /\ mem'.changed \in {mem.changed, TRUE}
  BY <1>2, <1>3
<1>5. UNCHANGED <<event, keyUsed, planeSessions, planeLeft, announced, untold>>
  BY DEF Plane!PollTool, Plane!PollRunning
<1>6. /\ result' \in [Tasks -> Plane!Terminal \cup {"none"}]
      /\ \A u \in Tasks : result'[u] = result[u] \/ result[u] = "none"
  <2>1. result \in [Tasks -> Plane!Terminal \cup {"none"}]
    BY DEF TrackedInv, PlaneTypes
  <2>2. PICK status \in Plane!Terminal \cup {"none"} :
            result' = [result EXCEPT ![t] = IF @ = "none" THEN status ELSE @]
    BY <2>1 DEF Plane!PollTool, Plane!PollRunning
  <2> QED BY <2>1, <2>2
<1>7. PassRest BY <1>1, <1>5, <1>6 DEF TrackedInv, PlaneTypes, PassRest
<1>8. MemTypes' BY <1>1, <1>2, <1>3, <1>4 DEF MemTypes
<1>9. RegDiffers'
  BY <1>1, <1>4, <1>5
  DEF TrackedInv, RegDiffers, Waking, Plane!has_actionable_reasoning_event, Passes
<1>10. WrDiffers'
  <2>1. ~mem'.changed => ~mem.changed BY <1>4
  <2>2. \A u \in Tasks :
           /\ u \in mem.todo => mem.wr[u].state = "RUNNING"
           /\ mem.wr[u] # workers[u] =>
                  /\ workers[u].state = "RUNNING" /\ mem.wr[u].state = "FINISHED" /\ Waking
                  /\ mem.wr[u].run = workers[u].run
                  /\ result[u] # "none" /\ <<u, mem.wr[u].run>> \in announced
    BY <1>1 DEF TrackedInv, WrDiffers
  <2>3. ~mem.changed => mem.wr = workers /\ mem.reg = tasks
    BY <1>1 DEF TrackedInv, WrDiffers
  <2>4. Waking' = Waking BY <1>5 DEF Waking, Plane!has_actionable_reasoning_event
  <2>5. \A u \in Tasks : result[u] # "none" => result'[u] # "none" BY <1>6
  <2>6. (\A u \in Tasks :
           /\ u \in mem.todo => mem.wr[u].state = "RUNNING"
           /\ mem.wr[u] # workers[u] =>
                  /\ workers[u].state = "RUNNING" /\ mem.wr[u].state = "FINISHED" /\ Waking
                  /\ mem.wr[u].run = workers[u].run
                  /\ result[u] # "none" /\ <<u, mem.wr[u].run>> \in announced)'
    BY <1>1, <1>4, <1>5, <2>2, <2>4, <2>5
  <2>7. (~mem.changed => mem.wr = workers /\ mem.reg = tasks)'
    BY <1>1, <1>4, <2>1, <2>3
  <2> QED BY <1>1, <2>6, <2>7 DEF WrDiffers
<1>11. Roomy' BY <1>1 DEF TrackedInv, Roomy, Working
<1>12. KeptApart' BY <1>1, <1>4 DEF TrackedInv, KeptApart, ApartIn, Passes
<1> QED BY <1>7, <1>8, <1>9, <1>10, <1>11, <1>12, PassKeeps DEF TrackedInv

LEMMA PollTracked ==
    ASSUME TrackedInv, NEW t \in Tasks,
           Plane!PollTimeout(t) \/ Plane!PollLost(t) \/ Plane!PollEnded(t)
    PROVE  TrackedInv'
<1>0. Plane!Polled(t) BY DEF Plane!PollTimeout, Plane!PollLost, Plane!PollEnded
<1>1. planeLeft \in PlaneCase BY DEF TrackedInv, PlaneTypes
<1>2. planeLeft' \in PlaneCase
  <2>1. CASE planeLeft' = planeLeft BY <1>1, <2>1
  <2>2. CASE planeLeft' = Plane!Trouble /\ planeLeft.troubles > 0
    <3>1. planeLeft.troubles - 1 \in Nat BY <1>1, <2>2 DEF PlaneCase
    <3> QED BY <1>1, <2>2, <3>1 DEF Plane!Trouble, PlaneCase
  <2> QED BY <2>1, <2>2 DEF Plane!PollTimeout, Plane!PollLost, Plane!PollEnded
<1>3. Plane!Session(t) \in Plane!SessionStates
  BY <1>0, PolledParts DEF TrackedInv, PlaneTypes, Plane!Session
<1>4. \E status \in Plane!Terminal, session \in Plane!SessionStates :
          Plane!FinishWorker(t, status, session)
  <2>1. "deleted" \in Plane!SessionStates /\ {"FAILED", "BLOCKED"} \subseteq Plane!Terminal
    BY DEF Plane!SessionStates, Plane!Terminal
  <2> QED BY <1>3, <2>1 DEF Plane!PollTimeout, Plane!PollLost, Plane!PollEnded
<1> QED BY <1>0, <1>2, <1>4, FinishTracked

LEMMA SaveWorkersTracked == ASSUME TrackedInv, Plane!SaveWorkers PROVE TrackedInv'
<1>1. /\ UNCHANGED <<tasks, result, announced, planeSessions, brainSession, untold,
                     planeLeft, planeCrashed, event>>
      /\ planePc \in {"launching", "polling"}
  BY DEF Plane!SaveWorkers, Plane!Elsewhere, Plane!history
<1>2. CASE ~mem.changed
  <2>1. workers' = workers /\ planePc' \notin Passes
    BY <1>1, <1>2 DEF Plane!SaveWorkers, Passes
  <2> QED BY <1>1, <2>1, RestSame, TrackedOutside
<1>3. CASE mem.changed
  <2>1. /\ workers' = mem.wr /\ mem' = mem
        /\ planePc = "launching" => planePc' = "launched"
        /\ planePc = "polling" => planePc' = "polled"
    BY <1>3 DEF Plane!SaveWorkers
  <2>2. mem \in [reg : [Tasks -> PlaneTask], wr : [Tasks -> PlaneWorker],
                 todo : SUBSET Tasks, cap : 0..MaxSessions, changed : BOOLEAN]
    BY <1>1 DEF TrackedInv, MemTypes, Passes
  <2>3. workers' \in [Tasks -> PlaneWorker] BY <2>1, <2>2
  <2>4. \A t \in Tasks : workers'[t].state # "none" =>
            workers'[t].run # 0 /\ tasks[t].state # "ABSENT"
    <3> SUFFICES ASSUME NEW t \in Tasks, mem.wr[t].state # "none"
                 PROVE  mem.wr[t].run # 0 /\ tasks[t].state # "ABSENT"
      BY <2>1
    <3>1. workers[t].state # "none" => workers[t].run # 0 /\ tasks[t].state # "ABSENT"
      BY DEF TrackedInv, PlaneTypes
    <3>2. CASE mem.wr[t] = workers[t] BY <3>1, <3>2
    <3>3. CASE mem.wr[t] # workers[t] BY <1>1, <3>1, <3>3 DEF TrackedInv, WrDiffers
    <3> QED BY <3>2, <3>3
  <2>5. PlaneTypes' BY <1>1, <2>3, <2>4 DEF TrackedInv, PlaneTypes
  <2>6. MemTypes' BY <2>1, <2>2 DEF MemTypes
  <2>7. RegDiffers'
    BY <1>1, <2>1
    DEF TrackedInv, RegDiffers, Waking, Plane!has_actionable_reasoning_event, Passes
  <2>8. WrDiffers' BY <1>1, <2>1 DEF WrDiffers
  <2>9. Cardinality(Working(mem.wr)) <= MaxSessions
    <3>1. CASE planePc = "launching"
      <4>1. Cardinality(Working(mem.wr)) + mem.cap <= MaxSessions
        BY <3>1 DEF TrackedInv, Roomy
      <4>2. mem.cap \in 0..MaxSessions BY <2>2
      <4> QED BY <4>1, <4>2, WorkingFinite, PlaneAssumption
    <3>2. CASE planePc = "polling"
      <4>1. \A t \in Tasks : mem.wr[t] # workers[t] => mem.wr[t].state = "FINISHED"
        BY <3>2 DEF TrackedInv, WrDiffers
      <4>2. Working(mem.wr) \subseteq Working(workers) BY <4>1 DEF Working
      <4>3. Cardinality(Working(mem.wr)) <= Cardinality(Working(workers))
        BY <4>2, WorkingFinite, FS_Subset
      <4>4. Cardinality(Working(workers)) <= MaxSessions BY DEF TrackedInv, Roomy
      <4> QED BY <4>3, <4>4, WorkingFinite, PlaneAssumption
    <3> QED BY <1>1, <3>1, <3>2
  <2>10. Roomy' BY <1>1, <2>1, <2>9 DEF Roomy, Working
  <2>11. KeptApart' BY <1>1, <2>1 DEF TrackedInv, KeptApart, ApartIn, Passes
  <2>12. Evidenced' BY <1>1 DEF TrackedInv, Evidenced
  <2>13. Reported'
    <3>1. \A t \in Tasks : mem.wr[t] # workers[t] /\ mem.wr[t].state = "FINISHED" =>
              result[t] # "none" /\ <<t, mem.wr[t].run>> \in announced
      BY <1>1 DEF TrackedInv, WrDiffers
    <3>2. \A t \in Tasks : mem.wr[t].state = "FINISHED" =>
              result[t] # "none" /\ <<t, mem.wr[t].run>> \in announced
      BY <3>1 DEF TrackedInv, Reported
    <3> QED BY <1>1, <2>1, <3>2 DEF Reported
  <2> QED BY <2>5, <2>6, <2>7, <2>8, <2>10, <2>11, <2>12, <2>13 DEF TrackedInv
<1> QED BY <1>2, <1>3

LEMMA SaveTasksTracked == ASSUME TrackedInv, Plane!SaveTasks PROVE TrackedInv'
<1>1. /\ UNCHANGED <<workers, result, announced, planeSessions, brainSession, untold,
                     planeLeft, planeCrashed, event>>
      /\ planePc \in {"launched", "polled"} /\ planePc' \notin Passes /\ tasks' = mem.reg
  BY DEF Plane!SaveTasks, Plane!Elsewhere, Plane!history, Passes
<1>2. mem.reg \in [Tasks -> PlaneTask] BY <1>1 DEF TrackedInv, MemTypes, Passes
<1>3. \A t \in Tasks :
          /\ mem.reg[t].run = tasks[t].run
          /\ mem.reg[t].state # tasks[t].state =>
                 tasks[t].state # "ABSENT" /\ mem.reg[t].state \in {"VERIFYING", "RUNNING"}
  BY <1>1 DEF TrackedInv, RegDiffers, Passes
<1>4. PlaneTypes'
  <2>1. \A t \in Tasks : /\ mem.reg[t].state # "ABSENT" => mem.reg[t].run # 0
                         /\ workers[t].state # "none" =>
                                workers[t].run # 0 /\ mem.reg[t].state # "ABSENT"
    BY <1>3 DEF TrackedInv, PlaneTypes
  <2> QED BY <1>1, <1>2, <2>1 DEF TrackedInv, PlaneTypes
<1>5. MemTypes' /\ RegDiffers' /\ WrDiffers'
  BY <1>1 DEF MemTypes, RegDiffers, WrDiffers, Passes
<1>6. Roomy' BY <1>1 DEF TrackedInv, Roomy, Working, Passes
<1>7. KeptApart' BY <1>1 DEF TrackedInv, KeptApart, ApartIn, Passes
<1>8. Reported' BY <1>1 DEF TrackedInv, Reported
<1>9. Evidenced' BY <1>1, <1>3 DEF TrackedInv, Evidenced
<1> QED BY <1>4, <1>5, <1>6, <1>7, <1>8, <1>9 DEF TrackedInv

LEMMA PlaneStill == ASSUME TrackedInv, UNCHANGED Plane!vars PROVE TrackedInv'
<1>1. UNCHANGED <<tasks, workers, result, announced, planeSessions, brainSession, untold,
                  planeLeft, planeCrashed, event, planePc, mem>>
  BY DEF Plane!vars, Plane!disk, Plane!control, Plane!platform, Plane!history
<1>2. PlaneTypes' /\ MemTypes' BY <1>1 DEF TrackedInv, PlaneTypes, MemTypes
<1>3. RegDiffers'
  BY <1>1 DEF TrackedInv, RegDiffers, Waking, Plane!has_actionable_reasoning_event
<1>4. WrDiffers'
  BY <1>1 DEF TrackedInv, WrDiffers, Waking, Plane!has_actionable_reasoning_event
<1>5. Roomy' /\ KeptApart' BY <1>1 DEF TrackedInv, Roomy, Working, KeptApart, ApartIn
<1>6. Reported' /\ Evidenced' BY <1>1 DEF TrackedInv, Reported, Evidenced
<1> QED BY <1>2, <1>3, <1>4, <1>5, <1>6 DEF TrackedInv

LEMMA TrackedNext == TrackedInv /\ [Plane!Next]_(Plane!vars) => TrackedInv'
<1> SUFFICES ASSUME TrackedInv, [Plane!Next]_(Plane!vars) PROVE TrackedInv' OBVIOUS
<1>1. CASE \/ Plane!NegativeBump \/ Plane!reconcile_repository_revision \/ Plane!RevisionBump
           \/ Plane!ToolReads \/ Plane!ToolRejected \/ Plane!PostAnswer \/ Plane!Crash
  BY <1>1, BetweenPasses
<1>2. CASE Plane!reconcile_negative_results BY <1>2, NegativeTask
<1>3. CASE Plane!reconcile_platform_resources BY <1>3, ResourcesTracked
<1>4. CASE Plane!poll_superbrain BY <1>4, BrainTracked
<1>5. CASE \/ \E t \in Tasks : \/ Plane!create_task(t) \/ Plane!dispatch_task(t)
                               \/ Plane!supersede_task(t)
                               \/ Plane!create_and_dispatch_readonly_task(t)
           \/ \E t \in Tasks, accepted \in BOOLEAN : Plane!ToolAccept(t, accepted)
  BY <1>5, ToolTask
<1>6. CASE Plane!launch_ready_workers
  BY <1>6, LaunchStartTracked, LaunchSkipTracked, LaunchSessionTracked, LaunchCommandTracked
  DEF Plane!launch_ready_workers
<1>7. CASE Plane!poll_workers
  BY <1>7, PollStartTracked, PollTracked, GoesOnTracked DEF Plane!poll_workers
<1>8. CASE Plane!SaveWorkers \/ Plane!SaveTasks
  BY <1>8, SaveWorkersTracked, SaveTasksTracked
<1>9. CASE UNCHANGED Plane!vars BY <1>9, PlaneStill
<1> QED BY <1>1, <1>2, <1>3, <1>4, <1>5, <1>6, <1>7, <1>8, <1>9
        DEF Plane!Next, Plane!controller_iteration, Plane!Tool

LEMMA TrackedMeaning == TrackedInv => TasksAreTracked
<1> SUFFICES ASSUME TrackedInv PROVE TasksAreTracked OBVIOUS
<1>1. Plane!TypeOK
  BY DEF TrackedInv, PlaneTypes, PlaneTask, PlaneWorker, Plane!TypeOK
<1>2. Plane!FinishedIsReported
  BY <1>1 DEF TrackedInv, Reported, Plane!FinishedIsReported
<1>3. Plane!WorkersAreApart
  <2>1. Plane!Cardinality(Plane!Running) = Cardinality(Working(workers))
    BY PlaneCounts DEF Plane!Running, Working
  <2> QED BY <2>1 DEF TrackedInv, Roomy, KeptApart, ApartIn, Plane!WorkersAreApart
<1>4. Plane!CompleteIsEvidenced BY DEF TrackedInv, Evidenced, Plane!CompleteIsEvidenced
<1> QED BY <1>2, <1>3, <1>4 DEF TasksAreTracked, Plane!TasksAreTracked

\* However many tasks run and wherever the controller dies: running tasks share no file
\* and stay within their number, the end of a worker is on disk and announced, and a
\* COMPLETE task has a COMPLETE result (launch_ready_workers, poll_workers,
\* accept_worker_result).
THEOREM TaskTracking == Plane!Spec => []TasksAreTracked
BY TrackedInit, TrackedNext, TrackedMeaning, PTL DEF Plane!Spec

-----------------------------------------------------------------------------
(* The control plane: no wake-up is lost.                                    *)

LEMMA WakeInit == Plane!Init => WakeInv
<1> SUFFICES ASSUME Plane!Init PROVE WakeInv OBVIOUS
<1>1. TrackedInv BY TrackedInit
<1>2. BrainTypes BY DEF Plane!Init, BrainTypes
<1>3. planePc = "negative" BY DEF Plane!Init
<1>4. Answering BY <1>3 DEF Answering
<1>5. WokenKept /\ WokenAlive BY DEF Plane!Init, WokenKept, WokenAlive, Unjudged
<1>6. Backed BY <1>3 DEF Plane!Init, Backed, Passes
<1> QED BY <1>1, <1>2, <1>4, <1>5, <1>6 DEF WakeInv, WakePart

\* What of the history and the case the argument rests on.
SameCase == planeLeft'.deps = planeLeft.deps /\ planeCrashed' = planeCrashed

LEMMA SameCaseMeaning == ASSUME SameCase PROVE Alive' <=> Alive
BY DEF SameCase, Alive

LEMMA SameWhenLeftIs ==
    ASSUME UNCHANGED <<planeLeft, planeCrashed>> PROVE SameCase
BY DEF SameCase

LEMMA SameWithTrouble ==
    ASSUME TrackedInv, planeLeft' \in {planeLeft, Plane!Trouble}, planeCrashed' = planeCrashed
    PROVE  SameCase
<1>1. planeLeft \in PlaneCase BY DEF TrackedInv, PlaneTypes
<1>2. Plane!Trouble.deps = planeLeft.deps
  BY <1>1 DEF Plane!Trouble, PlaneCase
<1> QED BY <1>2 DEF SameCase

\* A step between the passes that leaves the registries alone, and does not forget an
\* event without telling the superbrain or pausing it.
LEMMA WakeOutside ==
    ASSUME WakeInv, UNCHANGED <<tasks, workers, result>>, SameCase,
           planePc \notin Passes, planePc # "launch", planePc' \notin Passes,
           planePc \in {"post", "rejected"} => planePc' = "launch",
           untold' \subseteq untold, untold' = {} \/ undone' = undone,
           untold' = {} \/ (Waking \/ Asleep => Waking' \/ Asleep'),
           BrainTypes', Answering'
    PROVE  WakePart'
<1>1. WokenKept => WokenKept' BY DEF WokenKept, Unjudged, Working
<1>2. Kept' => WokenKept'
  <2>1. untold' = {} => WokenKept' BY DEF WokenKept, Unjudged
  <2> QED BY <1>1, <2>1 DEF Kept, WakeInv, WakePart
<1>3. Backed => Backed' BY DEF Backed, Passes
<1>4. WokenAlive => WokenAlive'
  <2> SUFFICES ASSUME WokenAlive, NEW t \in Tasks, Unjudged(t)' PROVE
            \/ Waking' \/ Asleep' \/ Working(workers) # {}
            \/ /\ planePc' \in {"post", "rejected", "launch"}
               /\ \E u \in Tasks : /\ tasks[u].state = "DISPATCH_REQUESTED"
                                   /\ Plane!DepsComplete(tasks, u)'
    BY DEF WokenAlive, Working, Passes
  <2>1. Unjudged(t) /\ untold' # {} BY DEF Unjudged
  <2>2. \A u \in Tasks : Plane!DepsComplete(tasks, u) => Plane!DepsComplete(tasks, u)'
    BY DEF Plane!DepsComplete, SameCase
  <2> QED BY <2>1, <2>2 DEF WokenAlive, Passes
<1> QED BY <1>2, <1>3, <1>4, SameCaseMeaning DEF WakeInv, WakePart

LEMMA RestWakes ==
    ASSUME WakeInv,
           \/ Plane!NegativeBump \/ Plane!reconcile_repository_revision \/ Plane!RevisionBump
           \/ Plane!ToolReads \/ Plane!ToolRejected \/ Plane!PostAnswer
           \/ Plane!reconcile_platform_resources
    PROVE  WakePart'
<1>1. /\ UNCHANGED <<tasks, workers, result, planeLeft, planeCrashed, untold,
                     undone>>
      /\ planePc \in {"negbump", "negative", "revbump", "gc", "brain", "post", "rejected"}
      /\ planePc' \in {"negative", "gc", "revbump", "brain", "post", "rejected", "launch"}
      /\ planePc \in {"post", "rejected"} => planePc' = "launch"
  BY DEF Plane!NegativeBump, Plane!reconcile_repository_revision, Plane!RevisionBump,
         Plane!ToolReads, Plane!ToolRejected, Plane!PostAnswer, Plane!ToolStep,
         Plane!reconcile_platform_resources, Plane!disk, Plane!history
<1>2. SameCase BY <1>1, SameWhenLeftIs
<1>3. BrainTypes' /\ Answering' /\ (Waking \/ Asleep => Waking' \/ Asleep')
  <2>1. CASE Plane!PostAnswer
    <3>1. PICK stop \in BOOLEAN :
              brain' = [brain EXCEPT !.session = ~stop,
                                     !.paused = IF stop THEN "rejected" ELSE "no"]
      BY <2>1 DEF Plane!PostAnswer
    <3>2. BrainTypes BY DEF WakeInv, WakePart
    <3>3. BrainTypes' BY <3>1, <3>2 DEF BrainTypes
    <3>4. ~Asleep BY <2>1 DEF WakeInv, WakePart, Answering, Plane!PostAnswer
    <3>5. event' = event /\ planePc' = "launch" BY <2>1 DEF Plane!PostAnswer
    <3> QED BY <3>3, <3>4, <3>5 DEF Answering, Waking, Plane!has_actionable_reasoning_event
  <2>2. CASE Plane!ToolReads \/ Plane!ToolRejected
    <3>1. Plane!Paused = "no" /\ UNCHANGED <<brain, event>>
      BY <2>2 DEF Plane!ToolReads, Plane!ToolRejected, Plane!ToolStep, Plane!Reads
    <3>2. ~Asleep BY <3>1 DEF Plane!Paused, Asleep
    <3> QED BY <3>1, <3>2 DEF WakeInv, WakePart, BrainTypes, Answering, Asleep, Waking,
                              Plane!has_actionable_reasoning_event
  <2>3. CASE Plane!reconcile_repository_revision \/ Plane!reconcile_platform_resources
    <3>1. UNCHANGED <<brain, event>> /\ planePc' \notin {"post", "rejected"}
      BY <2>3 DEF Plane!reconcile_repository_revision, Plane!reconcile_platform_resources,
                  Plane!control
    <3> QED BY <3>1 DEF WakeInv, WakePart, BrainTypes, Answering, Asleep, Waking,
                        Plane!has_actionable_reasoning_event
  <2>4. CASE Plane!NegativeBump \/ Plane!RevisionBump
    <3>1. brain' = brain /\ planePc' \notin {"post", "rejected"} /\ Waking'
      BY <2>4 DEF Plane!NegativeBump, Plane!RevisionBump, Plane!bump_event, Waking,
                  Plane!has_actionable_reasoning_event, Plane!Reasoning
    <3> QED BY <3>1 DEF WakeInv, WakePart, BrainTypes, Answering
  <2> QED BY <2>1, <2>2, <2>3, <2>4
<1> QED BY <1>1, <1>2, <1>3, WakeOutside DEF Passes

\* What a new session is told of, or what it leaves pending.
LEMMA EnsureWakes ==
    ASSUME NEW b \in [session : BOOLEAN, idle : BOOLEAN, boot : BOOLEAN,
                      paused : {"no", "budget", "no_progress", "tools", "rejected"}],
           NEW force \in BOOLEAN, NEW old, NEW exhausted \in BOOLEAN,
           b.paused = "no",
           Plane!ensure_superbrain_session(b, force, old, exhausted)
    PROVE  BrainTypes' /\ (untold' = {} \/ UNCHANGED <<event, untold, undone>>)
<1> DEFINE quiet == "no" # "no" \/ (~force /\ b.boot /\ ~Plane!has_actionable_reasoning_event)
<1>1. CASE /\ brain' = [b EXCEPT !.paused = "budget"] /\ UNCHANGED <<event, untold, undone>>
  BY <1>1 DEF BrainTypes
<1>2. CASE /\ brain' = [b EXCEPT !.paused = "no", !.idle = TRUE]
           /\ UNCHANGED <<event, untold, undone>>
  BY <1>2 DEF BrainTypes
<1>3. CASE /\ brain' = [session |-> TRUE, idle |-> FALSE, boot |-> TRUE, paused |-> "no"]
           /\ untold' = {}
  BY <1>3 DEF BrainTypes
<1>4. exhausted => brain' = [b EXCEPT !.paused = "budget"] /\ UNCHANGED <<event, untold, undone>>
  BY DEF Plane!ensure_superbrain_session
<1>5. ~exhausted =>
        \/ brain' = [b EXCEPT !.paused = "no", !.idle = TRUE] /\ UNCHANGED <<event, untold, undone>>
        \/ /\ brain' = [session |-> TRUE, idle |-> FALSE, boot |-> TRUE, paused |-> "no"]
           /\ untold' = {}
  BY DEF Plane!ensure_superbrain_session
<1> QED BY <1>1, <1>2, <1>3, <1>4, <1>5

LEMMA BrainWakes == ASSUME WakeInv, Plane!poll_superbrain PROVE WakePart'
<1>1. /\ UNCHANGED <<tasks, workers, result, planeCrashed>>
      /\ planePc \in {"gc", "brain"} /\ planePc' = "launch"
      /\ planeLeft' \in {planeLeft, Plane!Trouble}
  BY DEF Plane!poll_superbrain, Plane!disk
<1>2. SameCase BY <1>1, SameWithTrouble DEF WakeInv
<1>3. BrainTypes BY DEF WakeInv, WakePart
<1>4. Plane!Paused \in {"no", "no_progress", "tools", "rejected"}
      /\ Plane!Awake = [brain EXCEPT !.paused = Plane!Paused]
  BY <1>3 DEF BrainTypes, Plane!Paused, Plane!Awake
<1>5. /\ BrainTypes' /\ untold' \subseteq untold
      /\ untold' = {} \/ undone' = undone
      /\ untold' = {} \/ (Waking \/ Asleep => Waking' \/ Asleep')
  <2>1. PICK trouble \in BOOLEAN :
            \/ Plane!BrainNoProgress \/ Plane!BrainLost(trouble) \/ Plane!BrainBudgetHold
            \/ Plane!BrainPaused(trouble) \/ Plane!BrainFailed(trouble) \/ Plane!BrainNoSession
            \/ Plane!BrainWaits \/ Plane!BrainTurnEnded \/ Plane!BrainToolBudget
    BY DEF Plane!poll_superbrain
  <2> USE DEF Waking, Plane!has_actionable_reasoning_event
  <2>2. Plane!Paused = "no" => ~Asleep BY DEF Plane!Paused, Asleep
  <2>3. CASE Plane!BrainNoProgress
    BY <1>3, <2>3 DEF Plane!BrainNoProgress, BrainTypes, Asleep
  <2>4. CASE Plane!BrainBudgetHold
    <3>1. /\ brain' = [brain EXCEPT !.session = FALSE, !.idle = brain.idle /\ ~brain.session,
                         !.paused = IF Plane!Paused = "no" THEN "budget" ELSE @]
          /\ UNCHANGED <<event, untold, undone>>
      BY <2>4 DEF Plane!BrainBudgetHold
    <3>2. (brain.idle /\ ~brain.session) \in BOOLEAN BY ZenonT(20)
    <3>3. BrainTypes' BY <1>3, <3>1, <3>2 DEF BrainTypes
    <3>4. Asleep => Asleep' BY <1>3, <2>2, <3>1 DEF BrainTypes, Asleep
    <3> QED BY <3>1, <3>3, <3>4
  <2>5. CASE Plane!BrainPaused(trouble)
    <3>1. CASE Waking
      <4> DEFINE b == [brain EXCEPT !.paused = "no", !.session = FALSE]
      <4>1. Plane!ensure_superbrain_session(b, FALSE, brainSession, trouble)
        BY <2>5, <3>1 DEF Plane!BrainPaused
      <4>2. b \in [session : BOOLEAN, idle : BOOLEAN, boot : BOOLEAN,
                   paused : {"no", "budget", "no_progress", "tools", "rejected"}]
            /\ b.paused = "no"
        BY <1>3 DEF BrainTypes
      <4> HIDE DEF b
      <4>3. BrainTypes' /\ (untold' = {} \/ UNCHANGED <<event, untold, undone>>)
        BY <4>1, <4>2, EnsureWakes
      <4> QED BY <3>1, <4>3
    <3>2. CASE ~Waking
      BY <1>3, <2>5, <3>2 DEF Plane!BrainPaused, Plane!control, BrainTypes, Asleep
    <3> QED BY <3>1, <3>2
  <2>6. CASE Plane!BrainNoSession \/ Plane!BrainLost(trouble) \/ Plane!BrainFailed(trouble)
    <3>1. PICK session \in {brain.session, FALSE}, force \in BOOLEAN, exhausted \in BOOLEAN :
             /\ Plane!Paused = "no"
             /\ \E old : Plane!ensure_superbrain_session(
                            [Plane!Awake EXCEPT !.session = session], force, old, exhausted)
      <4>1. CASE Plane!BrainNoSession
        <5>1. Plane!Awake = [Plane!Awake EXCEPT !.session = brain.session]
          BY <1>3, <1>4 DEF BrainTypes
        <5> QED BY <4>1, <5>1 DEF Plane!BrainNoSession
      <4>2. CASE Plane!BrainLost(trouble) BY <4>2 DEF Plane!BrainLost, Plane!Reads
      <4>3. CASE Plane!BrainFailed(trouble) BY <4>3 DEF Plane!BrainFailed, Plane!Reads
      <4> QED BY <2>6, <4>1, <4>2, <4>3
    <3> DEFINE b == [Plane!Awake EXCEPT !.session = session]
    <3>2. b \in [session : BOOLEAN, idle : BOOLEAN, boot : BOOLEAN,
                 paused : {"no", "budget", "no_progress", "tools", "rejected"}]
          /\ b.paused = "no"
      BY <1>3, <1>4, <3>1 DEF BrainTypes
    <3>3. \E old : Plane!ensure_superbrain_session(b, force, old, exhausted) BY <3>1
    <3> HIDE DEF b
    <3>4. BrainTypes' /\ (untold' = {} \/ UNCHANGED <<event, untold, undone>>)
      BY <3>2, <3>3, EnsureWakes
    <3> QED BY <2>2, <3>1, <3>4
  <2>7. CASE Plane!BrainWaits \/ Plane!BrainTurnEnded \/ Plane!BrainToolBudget
    <3>1. Plane!Paused = "no"
      BY <2>7 DEF Plane!BrainWaits, Plane!BrainTurnEnded, Plane!BrainToolBudget, Plane!Reads
    <3>2. untold' = {} \/ UNCHANGED <<event, untold, undone>>
      BY <2>7 DEF Plane!BrainWaits, Plane!BrainTurnEnded, Plane!BrainToolBudget
    <3>3. BrainTypes'
      <4>1. CASE Plane!BrainWaits BY <1>3, <1>4, <4>1 DEF Plane!BrainWaits, BrainTypes
      <4>2. CASE Plane!BrainTurnEnded
        <5>1. (~Plane!has_actionable_reasoning_event) \in BOOLEAN OBVIOUS
        <5> QED BY <1>3, <1>4, <4>2, <5>1 DEF Plane!BrainTurnEnded, BrainTypes
      <4>3. CASE Plane!BrainToolBudget BY <1>3, <1>4, <4>3 DEF Plane!BrainToolBudget, BrainTypes
      <4> QED BY <2>7, <4>1, <4>2, <4>3
    <3> QED BY <2>2, <3>1, <3>2, <3>3
  <2> QED BY <2>1, <2>3, <2>4, <2>5, <2>6, <2>7
<1>6. Answering' BY <1>1 DEF Answering
<1> QED BY <1>1, <1>2, <1>5, <1>6, WakeOutside DEF Passes

\* A step between the passes that rewrites one task.
LEMMA TaskWakes ==
    ASSUME WakeInv, UNCHANGED <<workers, result, brain, untold, planeLeft, planeCrashed>>,
           planePc \in {"negative", "gc", "brain"}, planePc' \notin Passes,
           planePc' \in {"post", "rejected"} => ~Asleep,
           NEW t \in Tasks, NEW x \in PlaneTask, tasks' = [tasks EXCEPT ![t] = x],
           x.state \notin {"RUNNING", "VERIFYING", "ABSENT"},
           ~undone' => ~undone /\ tasks[t].state # "DISPATCH_REQUESTED",
           Waking => \/ Waking'
                     \/ /\ planePc' = "post" /\ x.state = "DISPATCH_REQUESTED"
                        /\ Plane!DepsComplete(tasks, t) /\ tasks[t].state # "COMPLETE"
    PROVE  WakePart'
<1>0. tasks \in [Tasks -> PlaneTask] BY DEF WakeInv, TrackedInv, PlaneTypes
<1>1. tasks'[t] = x /\ \A u \in Tasks : u # t => tasks'[u] = tasks[u] BY <1>0
<1>2. SameCase BY SameWhenLeftIs
<1>3. Answering' /\ BrainTypes' /\ (Asleep' <=> Asleep)
  BY DEF WakeInv, WakePart, Answering, BrainTypes, Asleep
<1>5. \A u \in Tasks : Unjudged(u)' => u # t /\ Unjudged(u) BY <1>1 DEF Unjudged
<1>6. Kept' => WokenKept'
  <2> SUFFICES ASSUME ~undone', NEW u \in Tasks, Unjudged(u)' PROVE
            \/ Waking' \/ Asleep' \/ Working(workers) # {}
            \/ \E v \in Tasks : tasks'[v].state = "DISPATCH_REQUESTED"
    BY DEF Kept, WokenKept, Working
  <2>1. WokenKept BY DEF WakeInv, WakePart, Kept
  <2>2. \/ Waking \/ Asleep \/ Working(workers) # {}
        \/ \E v \in Tasks : tasks[v].state = "DISPATCH_REQUESTED"
    BY <1>5, <2>1 DEF WokenKept
  <2>3. CASE Waking BY <1>1, <2>3
  <2>4. CASE \E v \in Tasks : tasks[v].state = "DISPATCH_REQUESTED"
    BY <1>1, <2>4
  <2> QED BY <1>3, <2>2, <2>3, <2>4
<1>7. Backed => Backed' BY <1>1 DEF Backed, Passes
<1>8. WokenAlive => WokenAlive'
  <2> SUFFICES ASSUME WokenAlive, NEW u \in Tasks, Unjudged(u)' PROVE
            \/ Waking' \/ Asleep' \/ Working(workers) # {}
            \/ /\ planePc' = "post"
               /\ \E v \in Tasks : /\ tasks'[v].state = "DISPATCH_REQUESTED"
                                   /\ Plane!DepsComplete(tasks, v)'
    BY DEF WokenAlive, Working, Passes
  <2>1. Waking \/ Asleep \/ Working(workers) # {} BY <1>5 DEF WokenAlive
  <2>2. Plane!DepsComplete(tasks, t) /\ tasks[t].state # "COMPLETE" =>
            Plane!DepsComplete(tasks, t)'
    <3> SUFFICES ASSUME Plane!DepsComplete(tasks, t), tasks[t].state # "COMPLETE"
                 PROVE  Plane!DepsComplete(tasks, t)'
      OBVIOUS
    <3>1. planeLeft.deps[t] \subseteq Tasks
      BY DEF WakeInv, TrackedInv, PlaneTypes, PlaneCase
    <3>2. \A d \in planeLeft.deps[t] : d # t /\ tasks[d].state = "COMPLETE"
      BY DEF Plane!DepsComplete
    <3>3. \A d \in planeLeft.deps[t] : tasks'[d].state = "COMPLETE" BY <1>1, <3>1, <3>2
    <3> QED BY <3>3 DEF Plane!DepsComplete
  <2>3. CASE Waking BY <1>1, <2>2, <2>3
  <2> QED BY <1>3, <2>1, <2>3
<1> QED BY <1>2, <1>3, <1>6, <1>7, <1>8, SameCaseMeaning DEF WakeInv, WakePart

LEMMA NegativeWakes == ASSUME WakeInv, Plane!reconcile_negative_results PROVE WakePart'
<1>1. PICK t \in Tasks : Plane!NegativeOpen(t) /\ Plane!accept_worker_result(t, FALSE)
  BY DEF Plane!reconcile_negative_results
<1>2. /\ UNCHANGED <<workers, result, brain, untold, planeLeft, planeCrashed, event,
                     undone>>
      /\ planePc = "negative" /\ planePc' = "negbump"
  BY DEF Plane!reconcile_negative_results, Plane!platform, Plane!history, Plane!control
<1>3. tasks[t] \in PlaneTask /\ tasks[t].state = "VERIFYING"
  BY <1>1 DEF WakeInv, TrackedInv, PlaneTypes, Plane!NegativeOpen
<1>4. PICK name \in {"BLOCKED", "FAILED"} :
          tasks' = [tasks EXCEPT ![t] = [tasks[t] EXCEPT !.state = name, !.decided = TRUE]]
  BY <1>1, <1>3 DEF Plane!accept_worker_result, Plane!Judged
<1> DEFINE x == [tasks[t] EXCEPT !.state = name, !.decided = TRUE]
<1>5. /\ x \in PlaneTask /\ x.state = name
  BY <1>3, PlaneStates DEF PlaneTask
<1>6. Waking' = Waking BY <1>2 DEF Waking, Plane!has_actionable_reasoning_event
<1> HIDE DEF x
<1> QED BY <1>2, <1>3, <1>4, <1>5, <1>6, TaskWakes DEF x, Passes

LEMMA ToolWakes ==
    ASSUME WakeInv, NEW t \in Tasks,
           \/ Plane!create_task(t) \/ Plane!dispatch_task(t) \/ Plane!supersede_task(t)
           \/ Plane!create_and_dispatch_readonly_task(t)
           \/ \E accepted \in BOOLEAN : Plane!ToolAccept(t, accepted)
    PROVE  WakePart'
<1>0. tasks[t] \in PlaneTask /\ planeLeft \in PlaneCase
  BY DEF WakeInv, TrackedInv, PlaneTypes
<1>1. /\ UNCHANGED <<workers, result, brain, untold, planeLeft, planeCrashed>>
      /\ planePc \in {"gc", "brain"} /\ planePc' = "post" /\ Plane!Paused = "no"
  BY DEF Plane!create_task, Plane!dispatch_task, Plane!supersede_task,
         Plane!create_and_dispatch_readonly_task, Plane!ToolAccept, Plane!ToolStep,
         Plane!platform, Plane!history, Plane!Reads
<1>2. planePc' \notin Passes /\ ~Asleep BY <1>1 DEF Passes, Plane!Paused, Asleep
<1>3. event' = event => (Waking => Waking')
  BY DEF Waking, Plane!has_actionable_reasoning_event
<1>4. CASE Plane!create_task(t) \/ Plane!create_and_dispatch_readonly_task(t)
  <2>1. tasks[t].run \in 0..MaxRuns /\ planeLeft.runs \in 0..MaxRuns
    BY <1>0 DEF PlaneTask, PlaneCase
  <2>2. /\ tasks[t].run < planeLeft.runs
        /\ tasks[t].state \in {"ABSENT", "FAILED", "BLOCKED", "SUPERSEDED"}
    BY <1>4 DEF Plane!create_task, Plane!create_and_dispatch_readonly_task
  <2>3. tasks[t].run + 1 \in 0..MaxRuns
    BY <2>1, <2>2, PlaneAssumption
  <2>4. undone' = undone
    BY <1>4 DEF Plane!create_task, Plane!create_and_dispatch_readonly_task
  <2>5. PICK name \in {"READY", "DISPATCH_REQUESTED"} :
            /\ tasks' = [tasks EXCEPT ![t] =
                            [state |-> name, run |-> tasks[t].run + 1, decided |-> FALSE]]
            /\ event' = event \/ (name = "DISPATCH_REQUESTED" /\ Plane!DepsComplete(tasks, t))
    BY <1>4 DEF Plane!create_task, Plane!create_and_dispatch_readonly_task, Plane!bump_event
  <2> DEFINE x == [state |-> name, run |-> tasks[t].run + 1, decided |-> FALSE]
  <2>6. x \in PlaneTask /\ x.state = name
    BY <2>3, PlaneStates DEF PlaneTask
  <2> HIDE DEF x
  <2>7. Waking => \/ Waking'
                  \/ /\ planePc' = "post" /\ x.state = "DISPATCH_REQUESTED"
                     /\ Plane!DepsComplete(tasks, t) /\ tasks[t].state # "COMPLETE"
    BY <1>1, <1>3, <2>2, <2>5, <2>6
  <2>8. tasks' = [tasks EXCEPT ![t] = x] BY <2>5 DEF x
  <2> QED BY <1>1, <1>2, <2>2, <2>4, <2>6, <2>7, <2>8, TaskWakes
<1>5. CASE ~(Plane!create_task(t) \/ Plane!create_and_dispatch_readonly_task(t))
  <2>1. PICK name \in {"DISPATCH_REQUESTED", "SUPERSEDED", "COMPLETE", "BLOCKED", "FAILED"},
             decided \in BOOLEAN :
            /\ tasks' = [tasks EXCEPT ![t] = [tasks[t] EXCEPT !.state = name,
                                                             !.decided = decided]]
            /\ ~undone' => ~undone /\ tasks[t].state # "DISPATCH_REQUESTED"
            /\ \/ event' = event
               \/ /\ name = "DISPATCH_REQUESTED" /\ tasks[t].state = "READY"
                  /\ Plane!DepsComplete(tasks, t)
    <3>1. CASE Plane!dispatch_task(t)
      BY <1>0, <3>1 DEF Plane!dispatch_task, PlaneTask
    <3>2. CASE Plane!supersede_task(t)
      BY <1>0, <3>2 DEF Plane!supersede_task, PlaneTask
    <3>3. CASE \E accepted \in BOOLEAN : Plane!ToolAccept(t, accepted)
      BY <3>3 DEF Plane!ToolAccept, Plane!accept_worker_result, Plane!Judged
    <3> QED BY <1>5, <3>1, <3>2, <3>3
  <2> DEFINE x == [tasks[t] EXCEPT !.state = name, !.decided = decided]
  <2>2. x \in PlaneTask /\ x.state = name
    BY <1>0, PlaneStates DEF PlaneTask
  <2>3. tasks' = [tasks EXCEPT ![t] = x] BY <2>1
  <2> HIDE DEF x
  <2>5. Waking => \/ Waking'
                  \/ /\ planePc' = "post" /\ x.state = "DISPATCH_REQUESTED"
                     /\ Plane!DepsComplete(tasks, t) /\ tasks[t].state # "COMPLETE"
    BY <1>1, <1>3, <2>1, <2>2
  <2>6. ~undone' => ~undone /\ tasks[t].state # "DISPATCH_REQUESTED"
    BY <2>1
  <2> QED BY <1>1, <1>2, <2>1, <2>2, <2>3, <2>5, <2>6, TaskWakes
<1> QED BY <1>4, <1>5

LEMMA LaunchStartWakes == ASSUME WakeInv, Plane!LaunchStart PROVE WakePart'
<1>1. /\ UNCHANGED <<tasks, workers, result, brain, event, untold, undone, planeLeft,
                     planeCrashed>>
      /\ planePc = "launch"
  BY DEF Plane!LaunchStart, Plane!disk, Plane!Elsewhere, Plane!history
<1> DEFINE todo == {t \in Tasks : tasks[t].state = "DISPATCH_REQUESTED"}
<1>2. \/ planePc' = "poll" /\ (todo = {} \/ Working(workers) # {})
      \/ /\ planePc' = "launching" /\ mem'.reg = tasks /\ mem'.wr = workers
         /\ mem'.todo = todo
  <2>1. CASE MaxSessions - Plane!Cardinality(Plane!Running) <= 0 \/ todo = {}
    <3>1. planePc' = "poll" BY <2>1 DEF Plane!LaunchStart
    <3>2. Working(workers) = {} => Plane!Cardinality(Plane!Running) = 0
      BY PlaneCounts, FS_EmptySet DEF Plane!Running, Working
    <3> QED BY <2>1, <3>1, <3>2, PlaneAssumption
  <2>2. CASE ~(MaxSessions - Plane!Cardinality(Plane!Running) <= 0 \/ todo = {})
    BY <2>2 DEF Plane!LaunchStart
  <2> QED BY <2>1, <2>2
<1>3. SameCase /\ Waking' = Waking /\ Asleep' = Asleep /\ BrainTypes' /\ Answering'
  BY <1>1, <1>2, SameWhenLeftIs
  DEF Waking, Plane!has_actionable_reasoning_event, Asleep, WakeInv, WakePart, BrainTypes,
      Answering
<1>5. WokenKept => WokenKept' BY <1>1, <1>3 DEF WokenKept, Unjudged, Working
<1>6. Backed => Backed' BY <1>1, <1>2 DEF Backed, Passes
<1>7. WokenAlive => WokenAlive'
  <2> SUFFICES ASSUME WokenAlive, NEW t \in Tasks, Unjudged(t)', ~Waking, ~Asleep PROVE
            \/ planePc' # "launching" /\ Working(workers)' # {}
            \/ planePc' = "launching" /\ Working(mem'.wr) # {}
            \/ planePc' = "launching" /\ \E u \in mem'.todo : Plane!DepsComplete(mem.reg, u)'
    BY <1>3 DEF WokenAlive, Working
  <2>1. Unjudged(t) /\ Working(workers)' = Working(workers) BY <1>1 DEF Unjudged, Working
  <2>2. \/ Working(workers) # {}
        \/ \E u \in todo : Plane!DepsComplete(tasks, u)
    BY <1>1, <2>1 DEF WokenAlive
  <2>3. planePc' = "launching" => \A u \in todo :
            Plane!DepsComplete(tasks, u) => Plane!DepsComplete(mem.reg, u)'
    BY <1>2, <1>1 DEF Plane!DepsComplete
  <2>4. CASE planePc' = "launching" BY <1>2, <2>2, <2>3, <2>4
  <2>5. CASE planePc' # "launching" BY <1>2, <2>1, <2>2, <2>5
  <2> QED BY <2>4, <2>5
<1> QED BY <1>1, <1>3, <1>5, <1>6, <1>7, SameCaseMeaning DEF WakeInv, WakePart, Kept

LEMMA LaunchWakes ==
    ASSUME WakeInv, NEW t \in Tasks, Plane!LaunchSkip(t) \/ Plane!LaunchSession(t)
    PROVE  WakePart'
<1>1. /\ UNCHANGED <<tasks, workers, result, brain, event, untold, undone, planeLeft,
                     planeCrashed>>
      /\ planePc = "launching" /\ planePc' = "launching" /\ t \in mem.todo
  BY DEF Plane!LaunchSkip, Plane!LaunchSession, Plane!Candidate, Plane!disk, Plane!Elsewhere,
         Plane!history
<1>2. mem \in [reg : [Tasks -> PlaneTask], wr : [Tasks -> PlaneWorker],
               todo : SUBSET Tasks, cap : 0..MaxSessions, changed : BOOLEAN]
  BY <1>1 DEF WakeInv, TrackedInv, MemTypes, Passes
<1>3. SameCase /\ Waking' = Waking /\ Asleep' = Asleep /\ BrainTypes' /\ Answering'
  BY <1>1, SameWhenLeftIs
  DEF Waking, Plane!has_actionable_reasoning_event, Asleep, WakeInv, WakePart, BrainTypes,
      Answering
<1>5. WokenKept => WokenKept' BY <1>1, <1>3 DEF WokenKept, Unjudged, Working
<1>6. (Backed => Backed') /\ (Backed /\ WokenAlive => WokenAlive')
  <2>1. CASE Plane!LaunchSkip(t)
    <3>1. mem' = [mem EXCEPT !.todo = @ \ {t}] BY <2>1 DEF Plane!LaunchSkip
    <3>2. mem'.reg = mem.reg /\ mem'.wr = mem.wr /\ mem'.todo = mem.todo \ {t}
      BY <1>2, <3>1
    <3>3. Backed => Backed' BY <1>1, <3>2 DEF Backed
    <3>4. Backed /\ Plane!DepsComplete(mem.reg, t) => Working(mem.wr) # {}
      <4> SUFFICES ASSUME Backed, Plane!DepsComplete(mem.reg, t) PROVE Working(mem.wr) # {}
        OBVIOUS
      <4>1. CASE mem.cap = 0 BY <1>1, <4>1 DEF WakeInv, TrackedInv, Roomy
      <4>2. CASE Plane!Conflict(mem.reg, t)
        BY <1>1, <4>2 DEF Plane!Conflict, Backed, Passes, Working
      <4> QED BY <2>1, <4>1, <4>2 DEF Plane!LaunchSkip
    <3>5. \A u \in mem.todo : Plane!DepsComplete(mem.reg, u) => Plane!DepsComplete(mem.reg, u)'
      BY <1>1, <3>2 DEF Plane!DepsComplete
    <3>6. Backed /\ WokenAlive => WokenAlive'
      <4> SUFFICES ASSUME Backed, WokenAlive, NEW u \in Tasks, Unjudged(u)', ~Waking, ~Asleep
                   PROVE  \/ Working(mem.wr) # {}
                          \/ \E v \in mem.todo \ {t} : Plane!DepsComplete(mem.reg, v)'
        BY <1>1, <1>3, <3>2 DEF WokenAlive, Working
      <4>1. Unjudged(u) BY <1>1 DEF Unjudged
      <4> QED BY <1>1, <3>4, <3>5, <4>1 DEF WokenAlive
    <3> QED BY <3>3, <3>6
  <2>2. CASE Plane!LaunchSession(t)
    <3>1. mem' = [mem EXCEPT !.todo = @ \ {t}, !.cap = @ - 1, !.changed = TRUE,
                          !.wr[t] = [state |-> "RUNNING", run |-> tasks[t].run],
                          !.reg[t].state = "RUNNING"]
      BY <2>2 DEF Plane!LaunchSession
    <3>2. /\ mem'.reg = [mem.reg EXCEPT ![t].state = "RUNNING"]
          /\ mem'.wr = [mem.wr EXCEPT ![t] = [state |-> "RUNNING", run |-> tasks[t].run]]
      BY <1>2, <3>1
    <3>3. mem.reg \in [Tasks -> PlaneTask] /\ mem.wr \in [Tasks -> PlaneWorker] BY <1>2
    <3>4. /\ mem'.wr[t].state = "RUNNING"
          /\ \A u \in Tasks : u # t => mem'.reg[u] = mem.reg[u] /\ mem'.wr[u] = mem.wr[u]
      BY <3>2, <3>3
    <3>5. Backed => Backed' BY <1>1, <3>4 DEF Backed, Passes
    <3>6. Working(mem.wr)' # {} BY <3>4 DEF Working
    <3> QED BY <1>1, <3>5, <3>6 DEF WokenAlive
  <2> QED BY <2>1, <2>2
<1> QED BY <1>1, <1>3, <1>5, <1>6, SameCaseMeaning DEF WakeInv, WakePart, Kept

\* A step within a pass that announces a result wakes whoever is to be woken.
LEMMA AnnounceWakes ==
    ASSUME WakeInv, UNCHANGED <<tasks, workers, brain>>, SameCase,
           event' = "worker_result", planePc \in {"launching", "polling"}, planePc' = planePc,
           NEW t \in Tasks,
           \A u \in Tasks : u # t => result'[u] = result[u] /\ mem'.reg[u] = mem.reg[u]
                                     /\ mem'.wr[u] = mem.wr[u],
           tasks[t].state = "DISPATCH_REQUESTED" \/ workers[t].state = "RUNNING",
           mem'.reg[t].state = "VERIFYING"
    PROVE  WakePart'
<1>1. Waking' BY DEF Waking, Plane!has_actionable_reasoning_event, Plane!Reasoning
<1>2. BrainTypes' /\ Answering' BY DEF WakeInv, WakePart, BrainTypes, Answering
<1>4. WokenKept' /\ WokenAlive' BY <1>1 DEF WokenKept, WokenAlive
<1>5. Backed => Backed' BY DEF Backed, Passes
<1> QED BY <1>1, <1>2, <1>4, <1>5, SameCaseMeaning DEF WakeInv, WakePart, Kept

LEMMA LaunchCommandWakes ==
    ASSUME WakeInv, NEW t \in Tasks, Plane!LaunchCommand(t) PROVE WakePart'
<1>1. PICK status \in {"COMPLETE", "FAILED"} :
      /\ UNCHANGED <<tasks, workers, brain, planeLeft, planeCrashed>>
      /\ planePc = "launching" /\ planePc' = "launching" /\ t \in mem.todo
      /\ result' = [result EXCEPT ![t] = status]
      /\ mem' = [mem EXCEPT !.todo = @ \ {t}, !.changed = TRUE, !.reg[t].state = "VERIFYING"]
      /\ event' = "worker_result"
  BY DEF Plane!LaunchCommand, Plane!Candidate, Plane!Announce, Plane!bump_event,
         Plane!Elsewhere, Plane!history
<1>2. mem \in [reg : [Tasks -> PlaneTask], wr : [Tasks -> PlaneWorker],
               todo : SUBSET Tasks, cap : 0..MaxSessions, changed : BOOLEAN]
  BY <1>1 DEF WakeInv, TrackedInv, MemTypes, Passes
<1>3. mem'.reg = [mem.reg EXCEPT ![t].state = "VERIFYING"] /\ mem'.wr = mem.wr
  BY <1>1, <1>2
<1>4. mem.reg \in [Tasks -> PlaneTask] BY <1>2
<1>5. /\ \A u \in Tasks : u # t => mem'.reg[u] = mem.reg[u]
      /\ mem'.reg[t].state = "VERIFYING"
  BY <1>3, <1>4 DEF PlaneTask
<1>6. \A u \in Tasks : u # t => result'[u] = result[u]
  BY <1>1 DEF WakeInv, TrackedInv, PlaneTypes
<1>7. tasks[t].state = "DISPATCH_REQUESTED" BY <1>1 DEF WakeInv, TrackedInv, WrDiffers
<1>8. SameCase BY <1>1, SameWhenLeftIs
<1> QED BY <1>1, <1>3, <1>5, <1>6, <1>7, <1>8, AnnounceWakes

LEMMA PollStartWakes == ASSUME WakeInv, Plane!PollStart PROVE WakePart'
<1>1. /\ UNCHANGED <<tasks, workers, result, brain, event, untold, undone, planeLeft,
                     planeCrashed>>
      /\ planePc = "poll"
      /\ \/ planePc' = "negative"
         \/ planePc' = "polling" /\ mem'.reg = tasks /\ mem'.wr = workers
  BY DEF Plane!PollStart, Plane!disk, Plane!Elsewhere, Plane!history
<1>3. SameCase /\ Waking' = Waking /\ Asleep' = Asleep /\ BrainTypes' /\ Answering'
  BY <1>1, SameWhenLeftIs
  DEF Waking, Plane!has_actionable_reasoning_event, Asleep, WakeInv, WakePart, BrainTypes,
      Answering
<1>5. WokenKept => WokenKept' BY <1>1, <1>3 DEF WokenKept, Unjudged, Working
<1>6. Backed => Backed' BY <1>1 DEF Backed, Passes
<1>7. WokenAlive => WokenAlive' BY <1>1, <1>3 DEF WokenAlive, Unjudged, Working
<1> QED BY <1>1, <1>3, <1>5, <1>6, <1>7, SameCaseMeaning DEF WakeInv, WakePart, Kept

LEMMA PollWakes ==
    ASSUME WakeInv, NEW t \in Tasks,
           Plane!PollTimeout(t) \/ Plane!PollLost(t) \/ Plane!PollEnded(t)
    PROVE  WakePart'
<1>0. Plane!Polled(t) BY DEF Plane!PollTimeout, Plane!PollLost, Plane!PollEnded
<1>1. /\ UNCHANGED <<tasks, workers, brain, brainSession, planeCrashed>>
      /\ planePc = "polling" /\ planePc' = "polling" /\ t \in mem.todo
      /\ workers[t].state = "RUNNING"
  BY <1>0, PolledParts DEF WakeInv
<1>2. mem \in [reg : [Tasks -> PlaneTask], wr : [Tasks -> PlaneWorker],
               todo : SUBSET Tasks, cap : 0..MaxSessions, changed : BOOLEAN]
  BY <1>0, PolledParts DEF WakeInv
<1>3. PICK status :
      /\ result' = [result EXCEPT ![t] = IF @ = "none" THEN status ELSE @]
      /\ mem' = [mem EXCEPT !.todo = @ \ {t}, !.changed = TRUE,
                            !.wr[t].state = "FINISHED", !.reg[t].state = "VERIFYING"]
      /\ event' = "worker_result"
  BY DEF Plane!PollTimeout, Plane!PollLost, Plane!PollEnded, Plane!FinishWorker,
         Plane!Announce, Plane!bump_event
<1>4. /\ mem'.reg = [mem.reg EXCEPT ![t].state = "VERIFYING"]
      /\ mem'.wr = [mem.wr EXCEPT ![t].state = "FINISHED"]
  BY <1>2, <1>3
<1>5. mem.reg \in [Tasks -> PlaneTask] /\ mem.wr \in [Tasks -> PlaneWorker] BY <1>2
<1>6. /\ \A u \in Tasks : u # t => mem'.reg[u] = mem.reg[u] /\ mem'.wr[u] = mem.wr[u]
      /\ mem'.reg[t].state = "VERIFYING"
  BY <1>4, <1>5 DEF PlaneTask, PlaneWorker
<1>7. \A u \in Tasks : u # t => result'[u] = result[u]
  BY <1>3 DEF WakeInv, TrackedInv, PlaneTypes
<1>8. SameCase
  <2>1. planeLeft' \in {planeLeft, Plane!Trouble}
    BY DEF Plane!PollTimeout, Plane!PollLost, Plane!PollEnded
  <2> QED BY <1>1, <2>1, SameWithTrouble DEF WakeInv
<1> QED BY <1>1, <1>3, <1>6, <1>7, <1>8, AnnounceWakes

LEMMA GoesOnWakes ==
    ASSUME WakeInv, NEW t \in Tasks, Plane!PollTool(t) \/ Plane!PollRunning(t)
    PROVE  WakePart'
<1>0. Plane!Polled(t) BY DEF Plane!PollTool, Plane!PollRunning
<1>1. /\ UNCHANGED <<tasks, workers, brain, brainSession, planeCrashed, event, untold,
                     undone, planeLeft>>
      /\ planePc = "polling" /\ planePc' = "polling" /\ t \in mem.todo
      /\ workers[t].state = "RUNNING"
  BY <1>0, PolledParts DEF WakeInv, Plane!PollTool, Plane!PollRunning
<1>2. mem \in [reg : [Tasks -> PlaneTask], wr : [Tasks -> PlaneWorker],
               todo : SUBSET Tasks, cap : 0..MaxSessions, changed : BOOLEAN]
  BY <1>0, PolledParts DEF WakeInv
<1>3. mem'.reg = mem.reg /\ mem'.wr = mem.wr
  BY <1>2 DEF Plane!PollTool, Plane!PollRunning
<1>4. \A u \in Tasks : u # t => result'[u] = result[u]
  BY DEF WakeInv, TrackedInv, PlaneTypes, Plane!PollTool, Plane!PollRunning
<1>5. SameCase /\ Waking' = Waking /\ Asleep' = Asleep /\ BrainTypes' /\ Answering'
  BY <1>1, SameWhenLeftIs
  DEF Waking, Plane!has_actionable_reasoning_event, Asleep, WakeInv, WakePart, BrainTypes,
      Answering
<1>7. Working(workers)' # {} BY <1>1 DEF Working
<1>8. WokenKept' /\ WokenAlive' BY <1>1, <1>7 DEF WokenKept, WokenAlive
<1>9. Backed => Backed' BY <1>1, <1>3 DEF Backed
<1> QED BY <1>1, <1>5, <1>8, <1>9, SameCaseMeaning DEF WakeInv, WakePart, Kept

LEMMA SaveWorkersWakes == ASSUME WakeInv, Plane!SaveWorkers PROVE WakePart'
<1>1. /\ UNCHANGED <<tasks, result, brain, event, untold, undone, planeLeft,
                     planeCrashed>>
      /\ planePc \in {"launching", "polling"} /\ mem.todo = {}
      /\ planePc' \in {"launched", "polled", "poll", "negative"}
  BY DEF Plane!SaveWorkers, Plane!Elsewhere, Plane!history
<1>2. workers' = mem.wr
  BY <1>1 DEF Plane!SaveWorkers, WakeInv, TrackedInv, WrDiffers
<1>3. SameCase /\ Waking' = Waking /\ Asleep' = Asleep /\ BrainTypes' /\ Answering'
  BY <1>1, SameWhenLeftIs
  DEF Waking, Plane!has_actionable_reasoning_event, Asleep, WakeInv, WakePart, BrainTypes,
      Answering
<1>4. \A t \in Tasks : mem.wr[t] # workers[t] =>
          \/ tasks[t].state = "DISPATCH_REQUESTED" /\ mem.wr[t].state = "RUNNING"
          \/ workers[t].state = "RUNNING" /\ Waking
  BY <1>1 DEF WakeInv, TrackedInv, WrDiffers
<1>5. planePc = "launching" => \A t \in Tasks :
          mem.wr[t] # workers[t] => mem.wr[t].state = "RUNNING"
  BY DEF WakeInv, TrackedInv, WrDiffers
<1>7. Working(workers) # {} => Waking \/ Working(mem.wr) # {} BY <1>4 DEF Working
<1>8. WokenKept => WokenKept'
  <2>1. Working(workers)' = Working(mem.wr) BY <1>2 DEF Working
  <2> QED BY <1>1, <1>3, <1>7, <2>1 DEF WokenKept, Unjudged
<1>9. WokenAlive => WokenAlive'
  <2> SUFFICES ASSUME WokenAlive, NEW t \in Tasks, Unjudged(t)', ~Waking, ~Asleep
               PROVE  planePc' # "launching" /\ Working(workers)' # {}
    BY <1>3 DEF WokenAlive
  <2>1. Unjudged(t) BY <1>1 DEF Unjudged
  <2>2. Working(workers)' = Working(mem.wr) BY <1>2 DEF Working
  <2>3. Working(workers) # {} \/ Working(mem.wr) # {} BY <1>1, <2>1 DEF WokenAlive
  <2> QED BY <1>1, <1>7, <2>2, <2>3
<1>10. Backed => Backed'
  <2> SUFFICES ASSUME Backed PROVE Backed' OBVIOUS
  <2>1. planePc' \in Passes => mem' = mem /\ mem.changed
    BY <1>1 DEF Plane!SaveWorkers, Passes
  <2>2. planePc' \in Passes => \A t \in Tasks :
            mem.reg[t].state = "RUNNING" => mem.wr[t].state = "RUNNING"
    BY <1>1 DEF Backed, Passes
  <2>3. ASSUME planePc' # "polled", NEW t \in Tasks, tasks[t].state = "RUNNING"
        PROVE  mem.wr[t].state = "RUNNING"
    <3>1. workers[t].state = "RUNNING" BY <1>1, <2>3 DEF Backed
    <3>2. CASE planePc = "launching" BY <1>5, <3>1, <3>2
    <3>3. CASE planePc = "polling"
      <4>1. mem.wr = workers
        BY <2>3, <3>3 DEF Plane!SaveWorkers, WakeInv, TrackedInv, WrDiffers
      <4> QED BY <3>1, <4>1
    <3> QED BY <1>1, <3>2, <3>3
  <2> QED BY <1>1, <1>2, <2>1, <2>2, <2>3 DEF Backed
<1> QED BY <1>1, <1>3, <1>8, <1>9, <1>10, SameCaseMeaning DEF WakeInv, WakePart, Kept

LEMMA SaveTasksWakes == ASSUME WakeInv, Plane!SaveTasks PROVE WakePart'
<1>1. /\ UNCHANGED <<workers, result, brain, event, untold, undone, planeLeft,
                     planeCrashed>>
      /\ planePc \in {"launched", "polled"} /\ planePc' \in {"poll", "negative"}
      /\ tasks' = mem.reg
  BY DEF Plane!SaveTasks, Plane!Elsewhere, Plane!history
<1>2. mem.wr = workers BY <1>1 DEF WakeInv, TrackedInv, WrDiffers
<1>3. SameCase /\ Waking' = Waking /\ Asleep' = Asleep /\ BrainTypes' /\ Answering'
  BY <1>1, SameWhenLeftIs
  DEF Waking, Plane!has_actionable_reasoning_event, Asleep, WakeInv, WakePart, BrainTypes,
      Answering
<1>4. \A t \in Tasks :
          /\ mem.reg[t].decided = tasks[t].decided
          /\ mem.reg[t].state # tasks[t].state =>
                 \/ mem.reg[t].state = "VERIFYING" /\ Waking
                 \/ mem.reg[t].state = "RUNNING" /\ workers[t].state = "RUNNING"
  BY <1>1, <1>2 DEF WakeInv, TrackedInv, RegDiffers, Passes
<1>6. \A t \in Tasks : Unjudged(t)' => Waking \/ Unjudged(t) BY <1>1, <1>4 DEF Unjudged
<1>7. Working(workers)' = Working(workers) BY <1>1 DEF Working
<1>8. WokenKept => WokenKept'
  <2> SUFFICES ASSUME WokenKept, NEW t \in Tasks, Unjudged(t)', ~Waking, ~Asleep,
                      Working(workers) = {}
               PROVE  \E u \in Tasks : tasks'[u].state = "DISPATCH_REQUESTED"
    BY <1>1, <1>3, <1>7 DEF WokenKept
  <2>1. PICK u \in Tasks : tasks[u].state = "DISPATCH_REQUESTED"
    BY <1>6 DEF WokenKept
  <2>2. workers[u].state # "RUNNING" BY DEF Working
  <2>3. tasks'[u].state = "DISPATCH_REQUESTED" BY <1>1, <1>4, <2>1, <2>2
  <2> QED BY <2>1, <2>3
<1>9. WokenAlive => WokenAlive'
  BY <1>1, <1>3, <1>6, <1>7 DEF WokenAlive
<1>10. Backed => Backed' BY <1>1, <1>2 DEF Backed, Passes
<1> QED BY <1>1, <1>3, <1>8, <1>9, <1>10, SameCaseMeaning DEF WakeInv, WakePart, Kept

\* What wakes the superbrain is on disk.
LEMMA CrashWakes == ASSUME WakeInv, Plane!Crash PROVE WakePart'
<1>1. /\ UNCHANGED <<tasks, workers, result, brain, event, untold, undone>>
      /\ planePc' = "negative" /\ planeCrashed' = TRUE
  BY DEF Plane!Crash, Plane!disk, Plane!control
<1>3. ~Alive' BY <1>1 DEF Alive
<1>5. Waking' = Waking /\ Asleep' = Asleep /\ BrainTypes' /\ Answering'
  BY <1>1
  DEF Waking, Plane!has_actionable_reasoning_event, Asleep, WakeInv, WakePart, BrainTypes,
      Answering
<1>7. WokenKept => WokenKept' BY <1>1, <1>5 DEF WokenKept, Unjudged, Working
<1> QED BY <1>1, <1>3, <1>5, <1>7 DEF WakeInv, WakePart, Kept

LEMMA StillWakes == ASSUME WakeInv, UNCHANGED Plane!vars PROVE WakePart'
<1>1. UNCHANGED <<tasks, workers, result, brain, event, untold, undone, planeLeft,
                  planeCrashed, planePc, mem>>
  BY DEF Plane!vars, Plane!disk, Plane!control, Plane!history
<1>2. SameCase /\ Waking' = Waking /\ Asleep' = Asleep /\ BrainTypes' /\ Answering'
  BY <1>1, SameWhenLeftIs
  DEF Waking, Plane!has_actionable_reasoning_event, Asleep, WakeInv, WakePart, BrainTypes,
      Answering
<1>4. WokenKept => WokenKept' BY <1>1, <1>2 DEF WokenKept, Unjudged, Working
<1>5. Backed => Backed' BY <1>1 DEF Backed
<1>6. WokenAlive => WokenAlive'
  BY <1>1, <1>2 DEF WokenAlive, Unjudged, Working, Plane!DepsComplete
<1> QED BY <1>1, <1>2, <1>4, <1>5, <1>6, SameCaseMeaning DEF WakeInv, WakePart, Kept

LEMMA WakeNext == WakeInv /\ [Plane!Next]_(Plane!vars) => WakeInv'
<1> SUFFICES ASSUME WakeInv, [Plane!Next]_(Plane!vars) PROVE WakePart'
  BY TrackedNext DEF WakeInv
<1>1. CASE \/ Plane!NegativeBump \/ Plane!reconcile_repository_revision \/ Plane!RevisionBump
           \/ Plane!ToolReads \/ Plane!ToolRejected \/ Plane!PostAnswer
           \/ Plane!reconcile_platform_resources
  BY <1>1, RestWakes
<1>2. CASE Plane!reconcile_negative_results BY <1>2, NegativeWakes
<1>3. CASE Plane!poll_superbrain BY <1>3, BrainWakes
<1>4. CASE \/ \E t \in Tasks : \/ Plane!create_task(t) \/ Plane!dispatch_task(t)
                               \/ Plane!supersede_task(t)
                               \/ Plane!create_and_dispatch_readonly_task(t)
           \/ \E t \in Tasks, accepted \in BOOLEAN : Plane!ToolAccept(t, accepted)
  BY <1>4, ToolWakes
<1>5. CASE Plane!launch_ready_workers
  BY <1>5, LaunchStartWakes, LaunchWakes, LaunchCommandWakes DEF Plane!launch_ready_workers
<1>6. CASE Plane!poll_workers
  BY <1>6, PollStartWakes, PollWakes, GoesOnWakes DEF Plane!poll_workers
<1>7. CASE Plane!SaveWorkers \/ Plane!SaveTasks BY <1>7, SaveWorkersWakes, SaveTasksWakes
<1>8. CASE Plane!Crash \/ UNCHANGED Plane!vars BY <1>8, CrashWakes, StillWakes
<1> QED BY <1>1, <1>2, <1>3, <1>4, <1>5, <1>6, <1>7, <1>8
        DEF Plane!Next, Plane!controller_iteration, Plane!Tool

LEMMA WakeMeaning == WakeInv => NoLostWakeUp
<1> SUFFICES ASSUME WakeInv, NEW t \in Tasks, Unjudged(t), ~Waking, ~Asleep, Kept \/ Alive
             PROVE  \/ Plane!Running # {}
                    \/ \E u \in Tasks : tasks[u].state = "DISPATCH_REQUESTED"
  BY DEF NoLostWakeUp, Plane!NoLostWakeUp, Unjudged, Waking, Asleep, Kept, Alive
<1>1. CASE Kept
  BY <1>1 DEF WakeInv, WakePart, WokenKept, Plane!Running, Working
<1>2. CASE Alive
  <2>1. \A u \in mem.todo : planePc = "launching" =>
            u \in Tasks /\ tasks[u].state = "DISPATCH_REQUESTED"
    BY DEF WakeInv, TrackedInv, MemTypes, WrDiffers, Passes
  <2>2. ASSUME planePc = "launching", NEW u \in Working(mem.wr)
        PROVE  u \in Plane!Running \/ tasks[u].state = "DISPATCH_REQUESTED"
    <3>1. u \in Tasks /\ mem.wr[u].state = "RUNNING" BY <2>2 DEF Working
    <3>2. mem.wr[u] # workers[u] => tasks[u].state = "DISPATCH_REQUESTED"
      BY <2>2, <3>1 DEF WakeInv, TrackedInv, WrDiffers
    <3> QED BY <3>1, <3>2 DEF Plane!Running
  <2>3. /\ Working(mem.wr) \subseteq Tasks /\ Working(workers) = Plane!Running
    BY DEF Working, Plane!Running
  <2> QED BY <1>2, <2>1, <2>2, <2>3 DEF WakeInv, WakePart, WokenAlive
<1> QED BY <1>1, <1>2 DEF WakeInv, WakePart

\* A result that awaits its judgement keeps something that will wake the superbrain
\* (has_actionable_reasoning_event, launch_ready_workers, poll_workers), unless the
\* controller died before a launch and the superbrain then took the dispatch back.
THEOREM WakeUps == Plane!Spec => []NoLostWakeUp
BY WakeInit, WakeNext, WakeMeaning, PTL DEF Plane!Spec
=============================================================================
