-------------------------- MODULE TableSlotsProofs --------------------------
(***************************************************************************)
(* Proofs about TableSlots: whatever is lost and wherever the process      *)
(* dies, a restart finds files it can go on from (DiskSoundness), the      *)
(* server's tables are the worker's slots (TableAgreement), and a game is  *)
(* played by the arm and in the quota it was assigned (GameAssignment).    *)
(*                                                                         *)
(* The inductive invariant is Types /\ TablesInv.  It says of every table  *)
(* what its files allow (OnDisk), which tables the server may have         *)
(* (Managed), and which commands and lines may be on their way (InFlight); *)
(* in which order lines, commands and the calls of a handler come; and     *)
(* what the next call of the handler finds when its turn comes (HeadOK).   *)
(* Only the next one: what a later call needs follows from the steps in    *)
(* between, except for _on_end's rest after the withdrawal of the game     *)
(* (EndIsOK).                                                              *)
(*                                                                         *)
(* GamesInv adds what is known of the games: that a start on its way, or   *)
(* a call about to assign a game, is about one nobody has played, unless   *)
(* its table is going to be left first; and that a game is recorded only   *)
(* out of its own reservation.                                             *)
(***************************************************************************)
EXTENDS TableSlots, SequenceTheorems, FiniteSetTheorems, TLAPS

LEMMA TailIs ==
  ASSUME NEW S, NEW s \in Seq(S), s # <<>>
  PROVE  /\ Tail(s) \in Seq(S) /\ Len(Tail(s)) = Len(s) - 1 /\ Len(s) \in Nat \ {0}
         /\ s[1] = Head(s) /\ Head(s) \in S /\ 1 \in DOMAIN s
         /\ DOMAIN Tail(s) = 1..(Len(s) - 1) /\ DOMAIN s = 1..Len(s)
         /\ \A i \in DOMAIN Tail(s) : Tail(s)[i] = s[i + 1] /\ i + 1 \in DOMAIN s
  OBVIOUS

LEMMA PushIs ==
  ASSUME NEW S, NEW s \in Seq(S), NEW e \in S
  PROVE  /\ <<e>> \o s \in Seq(S) /\ Len(<<e>> \o s) = Len(s) + 1 /\ Len(s) \in Nat
         /\ (<<e>> \o s)[1] = e
         /\ DOMAIN (<<e>> \o s) = 1..(Len(s) + 1)
         /\ \A i \in 1..Len(s) : (<<e>> \o s)[i + 1] = s[i]
  OBVIOUS

LEMMA Push2Is ==
  ASSUME NEW S, NEW s \in Seq(S), NEW e \in S, NEW f \in S
  PROVE  /\ <<e, f>> \o s \in Seq(S) /\ Len(<<e, f>> \o s) = Len(s) + 2 /\ Len(s) \in Nat
         /\ (<<e, f>> \o s)[1] = e /\ (<<e, f>> \o s)[2] = f
         /\ DOMAIN (<<e, f>> \o s) = 1..(Len(s) + 2)
         /\ \A i \in 1..Len(s) : (<<e, f>> \o s)[i + 2] = s[i]
  OBVIOUS

LEMMA AppendIs ==
  ASSUME NEW S, NEW s \in Seq(S), NEW e \in S
  PROVE  /\ Append(s, e) \in Seq(S) /\ Len(Append(s, e)) = Len(s) + 1 /\ Len(s) \in Nat
         /\ Append(s, e)[Len(s) + 1] = e
         /\ DOMAIN Append(s, e) = 1..(Len(s) + 1)
         /\ \A i \in 1..Len(s) : Append(s, e)[i] = s[i]
  OBVIOUS

LEMMA PrefixIs ==
  ASSUME NEW S, NEW s \in Seq(S), NEW n \in 0..Len(s)
  PROVE  /\ SubSeq(s, 1, n) \in Seq(S) /\ Len(SubSeq(s, 1, n)) = n /\ Len(s) \in Nat
         /\ DOMAIN SubSeq(s, 1, n) = 1..n
         /\ \A i \in 1..n : SubSeq(s, 1, n)[i] = s[i]
  OBVIOUS

LEMMA EmptyIs ==
  ASSUME NEW S
  PROVE  <<>> \in Seq(S) /\ Len(<<>>) = 0 /\ DOMAIN <<>> = {}
  OBVIOUS

LEMMA SeqIs ==
  ASSUME NEW S, NEW s \in Seq(S)
  PROVE  /\ Len(s) \in Nat /\ DOMAIN s = 1..Len(s) /\ (s = <<>> <=> Len(s) = 0)
         /\ \A i \in DOMAIN s : s[i] \in S
  OBVIOUS

\* A few calls in a row, alone or before what was to be done.
LEMMA RowsAre ==
  ASSUME NEW S
  PROVE  /\ <<>> \in Seq(S)
         /\ \A a \in S : <<a>> \in Seq(S)
         /\ \A a, b \in S : <<a, b>> \in Seq(S)
         /\ \A a, b, c \in S : <<a, b, c>> \in Seq(S)
         /\ \A a, b, c, d \in S : <<a, b, c, d>> \in Seq(S)
  OBVIOUS

LEMMA JoinsAre ==
  /\ \A a, b : <<a>> \o <<b>> = <<a, b>>
  /\ \A a, b, c : <<a, b>> \o <<c>> = <<a, b, c>>
  /\ \A a, b, c, d : <<a, b, c>> \o <<d>> = <<a, b, c, d>>
<1>1. ASSUME NEW a, NEW b PROVE <<a>> \o <<b>> = <<a, b>>
  <2>1. <<a>> \in Seq({a, b}) /\ <<b>> \in Seq({a, b}) /\ <<a, b>> \in Seq({a, b})
    OBVIOUS
  <2>2. Len(<<a>> \o <<b>>) = 2 /\ \A i \in 1..2 : (<<a>> \o <<b>>)[i] = <<a, b>>[i]
    BY <2>1
  <2> QED
    BY <2>1, <2>2, SeqEqual, ConcatProperties
<1>2. ASSUME NEW a, NEW b, NEW c PROVE <<a, b>> \o <<c>> = <<a, b, c>>
  <2> DEFINE S == {a, b, c}
  <2>1. <<a, b>> \in Seq(S) /\ <<c>> \in Seq(S) /\ <<a, b, c>> \in Seq(S)
    OBVIOUS
  <2> HIDE DEF S
  <2>2. Len(<<a, b>> \o <<c>>) = 3 /\ \A i \in 1..3 : (<<a, b>> \o <<c>>)[i] = <<a, b, c>>[i]
    BY <2>1
  <2> QED
    BY <2>1, <2>2, SeqEqual, ConcatProperties
<1>3. ASSUME NEW a, NEW b, NEW c, NEW d PROVE <<a, b, c>> \o <<d>> = <<a, b, c, d>>
  <2> DEFINE S == {a, b, c, d}
  <2>1. <<a, b, c>> \in Seq(S) /\ <<d>> \in Seq(S) /\ <<a, b, c, d>> \in Seq(S)
    OBVIOUS
  <2> HIDE DEF S
  <2>2. Len(<<a, b, c>> \o <<d>>) = 4 /\ \A i \in 1..4 : (<<a, b, c>> \o <<d>>)[i] = <<a, b, c, d>>[i]
    BY <2>1
  <2> QED
    BY <2>1, <2>2, SeqEqual, ConcatProperties
<1> QED
  BY <1>1, <1>2, <1>3

LEMMA CallsJoin ==
  /\ \A a, b : <<a>> \o <<b>> = <<a, b>>
  /\ \A a, b, c : (<<a>> \o <<b>>) \o <<c>> = <<a, b, c>>
  /\ \A a, b, c, d : (<<a, b>> \o <<c>>) \o <<d>> = <<a, b, c, d>>
  /\ \A a, b, c, d : ((<<a>> \o <<b>>) \o <<c>>) \o <<d>> = <<a, b, c, d>>
<1>1. ASSUME NEW a, NEW b PROVE <<a>> \o <<b>> = <<a, b>>
  BY JoinsAre
<1>2. ASSUME NEW a, NEW b, NEW c PROVE (<<a>> \o <<b>>) \o <<c>> = <<a, b, c>>
  <2>1. <<a>> \o <<b>> = <<a, b>>
    BY <1>1
  <2>2. <<a, b>> \o <<c>> = <<a, b, c>>
    BY JoinsAre
  <2> QED
    BY <2>1, <2>2
<1>3. ASSUME NEW a, NEW b, NEW c, NEW d PROVE (<<a, b>> \o <<c>>) \o <<d>> = <<a, b, c, d>>
  <2>1. <<a, b>> \o <<c>> = <<a, b, c>>
    BY JoinsAre
  <2>2. <<a, b, c>> \o <<d>> = <<a, b, c, d>>
    BY JoinsAre
  <2> QED
    BY <2>1, <2>2
<1>4. ASSUME NEW a, NEW b, NEW c, NEW d
      PROVE  ((<<a>> \o <<b>>) \o <<c>>) \o <<d>> = <<a, b, c, d>>
  <2>1. <<a>> \o <<b>> = <<a, b>>
    BY <1>1
  <2>2. (<<a, b>> \o <<c>>) \o <<d>> = <<a, b, c, d>>
    BY <1>3
  <2> QED
    BY <2>1, <2>2
<1> QED
  BY <1>1, <1>2, <1>3, <1>4

LEMMA GotoIs ==
  ASSUME NEW S, NEW rest \in Seq(S)
  PROVE  /\ <<>> \o rest = rest
         /\ \A a \in S : <<a>> \o rest \in Seq(S)
         /\ \A a, b \in S : <<a, b>> \o rest \in Seq(S)
         /\ \A a, b \in S : (<<a>> \o <<b>>) \o rest = <<a, b>> \o rest
<1>1. \A a, b \in S : <<a>> \o <<b>> = <<a, b>>
  BY CallsJoin
<1>2. <<>> \o rest = rest
  BY ConcatEmptySeq
<1> QED
  BY <1>1, <1>2, PushIs, Push2Is

Commands == [command : {"create", "ready", "leave"}, t : Tables]

Lines == [event : {"create", "end", "error", "destroy"}, t : Tables]
         \cup [event : {"start"}, t : Tables, n : 1..MaxGames]

Ops == [call : {"slot"}, t : Tables, state : {"ACTIVE", "READY_SENT", NONE}]
       \cup [call : {"send"}, t : Tables, command : {"create", "ready", "leave"}]
       \cup [call : {"retire"}, t : Tables, reason : Reasons, retry : BOOLEAN]
       \cup [call : {"retire_idle"}, reason : Reasons]
       \cup [call : {"mark"}, t : Tables, reason : Reasons]
       \cup [call : {"assign"}, t : Tables, n : 1..MaxGames]
       \cup [call : {"package"}, t : Tables, status : {"SCORED", "FAILED"}]
       \cup [call : {"record"}, t : Tables, counts : BOOLEAN]
       \cup [call : {"log_leave", "unlink", "ready", "play", "withdraw", "after_end"}, t : Tables]
       \cup [call : {"fill", "outcome", "wait", "after_destroy", "confirm", "recover", "restore"}]

GameRecord == [n : 1..MaxGames, arm : Arms, primary : BOOLEAN] \cup {NoGame}

MarkerRecord ==
    [reason : Reasons \cup {NONE}, log : {"nothing", "left", "confirmed", "ambiguous"}]

ServerRecord == [st : {"none", "open", "ready", "playing"}, n : 0..MaxGames]

Types ==
    /\ slots \in [Tables -> States \cup {NONE}]
    /\ active \in [Tables -> GameRecord]
    /\ marker \in [Tables -> MarkerRecord]
    /\ \A g \in DOMAIN evidence : evidence[g] \in {"SCORED", "FAILED"}
    /\ pause \in BOOLEAN /\ complete \in BOOLEAN /\ confirmed \subseteq Tables
    /\ sess \in [Tables -> {"none", "new", "idle", "playing"}]
    /\ todo \in Seq(Ops) /\ up \in Seq(Commands) /\ down \in Seq(Lines)
    /\ conn \in {"up", "broken", "closed"}
    /\ server \in [Tables -> ServerRecord]
    /\ \A t \in Tables : server[t].st = "playing" => server[t].n > 0

LEMMA OpFields ==
  ASSUME NEW op \in Ops
  PROVE  /\ op.call \notin {"retire_idle", "fill", "outcome", "wait", "after_destroy", "confirm",
                            "recover", "restore"} => op.t \in Tables
         /\ op.call = "slot" => op.state \in {"ACTIVE", "READY_SENT", NONE}
         /\ op.call = "send" => op.command \in {"create", "ready", "leave"}
         /\ op.call \in {"retire", "retire_idle", "mark"} => op.reason \in Reasons
         /\ op.call = "retire" => op.retry \in BOOLEAN
         /\ op.call = "assign" => op.n \in 1..MaxGames
         /\ op.call = "package" => op.status \in {"SCORED", "FAILED"}
         /\ op.call = "record" => op.counts \in BOOLEAN
         /\ op.call \in {"slot", "send", "retire", "retire_idle", "mark", "assign", "package",
                         "record", "log_leave", "unlink", "ready", "play", "withdraw",
                         "after_end", "fill", "outcome", "wait", "after_destroy", "confirm",
                         "recover", "restore"}
  BY SMTT(60) DEF Ops

\* The entries of todo.
SlotCall(t, state)      == [call |-> "slot", t |-> t, state |-> state]
SendCall(t, command)    == [call |-> "send", t |-> t, command |-> command]
RetireCall(t, r, again) == [call |-> "retire", t |-> t, reason |-> r, retry |-> again]
IdleCall(r)             == [call |-> "retire_idle", reason |-> r]
MarkCall(t, r)          == [call |-> "mark", t |-> t, reason |-> r]
AssignCall(t, n)        == [call |-> "assign", t |-> t, n |-> n]
PackageCall(t, status)  == [call |-> "package", t |-> t, status |-> status]
RecordCall(t, counts)   == [call |-> "record", t |-> t, counts |-> counts]
TableCall(call, t)      == [call |-> call, t |-> t]
PlainCall(call)         == [call |-> call]

LEMMA OpsMade ==
  ASSUME NEW t \in Tables
  PROVE  /\ \A s \in {"ACTIVE", "READY_SENT", NONE} : SlotCall(t, s) \in Ops
         /\ \A c \in {"create", "ready", "leave"} : SendCall(t, c) \in Ops
         /\ \A r \in Reasons, again \in BOOLEAN : RetireCall(t, r, again) \in Ops
         /\ \A r \in Reasons : MarkCall(t, r) \in Ops
         /\ \A n \in 1..MaxGames : AssignCall(t, n) \in Ops
         /\ \A s \in {"SCORED", "FAILED"} : PackageCall(t, s) \in Ops
         /\ \A b \in BOOLEAN : RecordCall(t, b) \in Ops
         /\ \A c \in {"log_leave", "unlink", "ready", "play", "withdraw", "after_end"} :
               TableCall(c, t) \in Ops
  BY SMTT(60) DEF Ops, SlotCall, SendCall, RetireCall, MarkCall, AssignCall, PackageCall,
                  RecordCall, TableCall

LEMMA PlainOpsMade ==
  /\ \A r \in Reasons : IdleCall(r) \in Ops
  /\ \A c \in {"fill", "outcome", "wait", "after_destroy", "confirm", "recover", "restore"} :
        PlainCall(c) \in Ops
  BY SMTT(60) DEF Ops, IdleCall, PlainCall

LEMMA LineFields ==
  ASSUME NEW line \in Lines
  PROVE  /\ line.t \in Tables
         /\ line.event \in {"create", "start", "end", "error", "destroy"}
         /\ line.event = "start" => line.n \in 1..MaxGames
  BY DEF Lines

LEMMA LinesMade ==
  ASSUME NEW t \in Tables
  PROVE  /\ \A e \in {"create", "end", "error", "destroy"} : [event |-> e, t |-> t] \in Lines
         /\ \A n \in 1..MaxGames : [event |-> "start", t |-> t, n |-> n] \in Lines
  BY DEF Lines

LEMMA CommandFields ==
  ASSUME NEW c \in Commands
  PROVE  c.t \in Tables /\ c.command \in {"create", "ready", "leave"}
  BY DEF Commands

----------------------------------------------------------------------------
(* Types.                                                                  *)

LEMMA OpIs ==
  ASSUME Types, todo # <<>>
  PROVE  Op \in Ops /\ Tail(todo) \in Seq(Ops) /\ Op = todo[1]
  BY TailIs DEF Types, Op

LEMMA LineIs ==
  ASSUME Types, down # <<>>
  PROVE  Line \in Lines /\ Tail(down) \in Seq(Lines) /\ Line = down[1]
  BY TailIs DEF Types, Line

LEMMA Truncated ==
  ASSUME Types
  PROVE  /\ \A n \in 0..Len(up) : SubSeq(up, 1, n) \in Seq(Commands)
         /\ \A n \in 0..Len(down) : SubSeq(down, 1, n) \in Seq(Lines)
  BY PrefixIs DEF Types

----------------------------------------------------------------------------
(* What each action leaves to be done.                                     *)

LEMMA RetireDoes ==
  ASSUME Types, RetireTable, slots[Op.t] \notin {NONE, "RETIRING"}, marker[Op.t] = NoMarker
  PROVE  todo' = <<MarkCall(Op.t, Op.reason), SendCall(Op.t, "leave")>> \o Tail(todo)
<1>1. Op \in Ops /\ Tail(todo) \in Seq(Ops) /\ Op.call = "retire"
  BY OpIs DEF RetireTable, Calling
<1>2. MarkCall(Op.t, Op.reason) \in Ops /\ SendCall(Op.t, "leave") \in Ops
  BY <1>1, OpFields, OpsMade
<1>3. todo' = (<<MarkCall(Op.t, Op.reason)>> \o <<SendCall(Op.t, "leave")>>) \o Tail(todo)
  BY DEF RetireTable, Goto, Send, MarkCall, SendCall
<1> QED
  BY <1>1, <1>2, <1>3, GotoIs

LEMMA ReadyDoes ==
  ASSUME Types, ReadyTable
  PROVE  todo' = <<SendCall(Op.t, "ready"), SlotCall(Op.t, "READY_SENT")>> \o Tail(todo)
<1>1. Op \in Ops /\ Tail(todo) \in Seq(Ops) /\ Op.call = "ready"
  BY OpIs DEF ReadyTable, Calling
<1>2. SendCall(Op.t, "ready") \in Ops /\ SlotCall(Op.t, "READY_SENT") \in Ops
  BY <1>1, OpFields, OpsMade
<1>3. todo' = (<<SendCall(Op.t, "ready")>> \o <<SlotCall(Op.t, "READY_SENT")>>) \o Tail(todo)
  BY DEF ReadyTable, Goto, Send, Slot, SlotCall, SendCall
<1> QED
  BY <1>1, <1>2, <1>3, GotoIs

LEMMA AfterEndDoes ==
  ASSUME Types, AfterEnd
  PROVE  \/ \E r \in Reasons :
               todo' = <<RetireCall(Op.t, r, FALSE), IdleCall(r)>> \o Tail(todo)
         \/ todo' = <<TableCall("ready", Op.t)>> \o Tail(todo)
         \/ todo' = <<RetireCall(Op.t, "OTHER", FALSE)>> \o Tail(todo)
<1>1. Op \in Ops /\ Tail(todo) \in Seq(Ops) /\ Op.call = "after_end"
  BY OpIs DEF AfterEnd, Calling
<1>t. Op.t \in Tables
  BY <1>1, OpFields
<1>2. \A r \in Reasons : RetireCall(Op.t, r, FALSE) \in Ops /\ IdleCall(r) \in Ops
  BY <1>t, OpsMade, PlainOpsMade
<1>3. \A r \in Reasons : (<<RetireCall(Op.t, r, FALSE)>> \o <<IdleCall(r)>>) \o Tail(todo)
                           = <<RetireCall(Op.t, r, FALSE), IdleCall(r)>> \o Tail(todo)
  BY <1>2, CallsJoin
<1> DEFINE retire(r) == Retire(Op.t, r) \o RetireIdle(r)
<1>4. \A r \in Reasons : retire(r) \o Tail(todo) =
         <<RetireCall(Op.t, r, FALSE), IdleCall(r)>> \o Tail(todo)
  BY <1>3 DEF Retire, RetireIdle, RetireCall, IdleCall
<1>5. \/ todo' = retire("CAMPAIGN_COMPLETE") \o Tail(todo)
      \/ todo' = retire("BACKPRESSURE") \o Tail(todo)
      \/ todo' = On("ready", Op.t) \o Tail(todo)
      \/ todo' = Retire(Op.t, "OTHER") \o Tail(todo)
  BY DEF AfterEnd, Goto
<1> HIDE DEF retire
<1> QED
  BY <1>4, <1>5 DEF Reasons, Retire, On, RetireCall, TableCall

LEMMA AfterDestroyDoes ==
  ASSUME Types, AfterDestroy
  PROVE  \/ \E r \in Reasons : todo' = <<IdleCall(r), PlainCall("outcome")>> \o Tail(todo)
         \/ todo' = <<PlainCall("fill")>> \o Tail(todo)
<1>1. Tail(todo) \in Seq(Ops)
  BY OpIs DEF AfterDestroy, Calling
<1>2. \A r \in Reasons : (<<IdleCall(r)>> \o <<PlainCall("outcome")>>) \o Tail(todo)
                           = <<IdleCall(r), PlainCall("outcome")>> \o Tail(todo)
  BY <1>1, PlainOpsMade, GotoIs
<1>3. \/ todo' = (RetireIdle("CAMPAIGN_COMPLETE") \o Do("outcome")) \o Tail(todo)
      \/ todo' = (RetireIdle("BACKPRESSURE") \o Do("outcome")) \o Tail(todo)
      \/ todo' = Do("fill") \o Tail(todo)
  BY DEF AfterDestroy, Goto
<1> QED
  BY <1>2, <1>3 DEF Reasons, RetireIdle, Do, IdleCall, PlainCall

LEMMA StartDoes ==
  ASSUME Types, OnStart, slots[Line.t] # "RETIRING"
  PROVE  \/ /\ slots[Line.t] = "ACTIVE"
            /\ todo' = <<AssignCall(Line.t, Line.n), TableCall("play", Line.t)>>
         \/ todo' = <<SlotCall(Line.t, "ACTIVE"), AssignCall(Line.t, Line.n),
                      TableCall("play", Line.t)>>
<1> DEFINE slot == SlotCall(Line.t, "ACTIVE")
           assign == AssignCall(Line.t, Line.n)
           play == TableCall("play", Line.t)
<1>1. Line.t \in Tables /\ Line.n \in 1..MaxGames
  BY LineIs, LineFields DEF OnStart, Reading
<1>2. slot \in Ops /\ assign \in Ops /\ play \in Ops
  BY <1>1, OpsMade
<1>3. \/ slots[Line.t] = "ACTIVE" /\ todo' = (<<>> \o <<assign>>) \o <<play>>
      \/ todo' = (<<slot>> \o <<assign>>) \o <<play>>
  BY DEF OnStart, EnsureActive, Slot, On, SlotCall, AssignCall, TableCall
<1> HIDE DEF slot, assign, play
<1>4. <<>> \o <<assign>> = <<assign>>
  BY <1>2, RowsAre, ConcatEmptySeq
<1>5. <<assign>> \o <<play>> = <<assign, play>>
      /\ (<<slot>> \o <<assign>>) \o <<play>> = <<slot, assign, play>>
  BY <1>2, CallsJoin
<1> QED
  BY <1>3, <1>4, <1>5 DEF slot, assign, play

LEMMA FinishDoes ==
  ASSUME NEW t \in Tables, NEW status \in {"SCORED", "FAILED"}, NEW counts \in BOOLEAN,
         NEW op \in Ops, Finish(t, status, counts, <<op>>)
  PROVE  todo' = <<PackageCall(t, status), RecordCall(t, counts), TableCall("withdraw", t), op>>
<1> DEFINE package == PackageCall(t, status)
           record == RecordCall(t, counts)
           withdraw == TableCall("withdraw", t)
<1>1. package \in Ops /\ record \in Ops /\ withdraw \in Ops
  BY OpsMade
<1>2. todo' = (<<package, record>> \o <<withdraw>>) \o <<op>>
  BY DEF Finish, On, PackageCall, RecordCall, TableCall
<1> HIDE DEF package, record, withdraw
<1>3. (<<package, record>> \o <<withdraw>>) \o <<op>> = <<package, record, withdraw, op>>
  BY <1>1, CallsJoin
<1> QED
  BY <1>2, <1>3 DEF package, record, withdraw

LEMMA DestroyDoes ==
  ASSUME Types, OnDestroy, active[Line.t] = NoGame
  PROVE  todo' = <<TableCall("unlink", Line.t), SlotCall(Line.t, NONE), PlainCall("after_destroy")>>
<1> DEFINE unlink == TableCall("unlink", Line.t)
           free == SlotCall(Line.t, NONE)
           next == PlainCall("after_destroy")
<1>1. Line.t \in Tables
  BY LineIs, LineFields DEF OnDestroy, Reading
<1>2. unlink \in Ops /\ free \in Ops /\ next \in Ops
  BY <1>1, OpsMade, PlainOpsMade
<1>3. todo' = (<<unlink>> \o <<free>>) \o <<next>>
  BY DEF OnDestroy, Slot, On, Do, SlotCall, TableCall, PlainCall
<1> HIDE DEF unlink, free, next
<1>4. (<<unlink>> \o <<free>>) \o <<next>> = <<unlink, free, next>>
  BY <1>2, CallsJoin
<1> QED
  BY <1>3, <1>4 DEF unlink, free, next

LEMMA ConnectDoes ==
  ASSUME Connect
  PROVE  todo' = <<PlainCall("fill"), PlainCall("outcome")>>
<1>1. <<PlainCall("fill")>> \o <<PlainCall("outcome")>> = <<PlainCall("fill"), PlainCall("outcome")>>
  BY PlainOpsMade, CallsJoin
<1> QED
  BY <1>1 DEF Connect, Do, PlainCall

LEMMA RestartDoes ==
  ASSUME Restart
  PROVE  todo' = <<PlainCall("confirm"), PlainCall("recover"), PlainCall("restore"),
                   PlainCall("wait")>>
<1> DEFINE confirm == PlainCall("confirm")
           recover == PlainCall("recover")
           restore == PlainCall("restore")
           wait == PlainCall("wait")
<1>1. confirm \in Ops /\ recover \in Ops /\ restore \in Ops /\ wait \in Ops
  BY PlainOpsMade
<1>2. todo' = ((<<confirm>> \o <<recover>>) \o <<restore>>) \o <<wait>>
  BY DEF Restart, Do, PlainCall
<1> HIDE DEF confirm, recover, restore, wait
<1>3. ((<<confirm>> \o <<recover>>) \o <<restore>>) \o <<wait>>
         = <<confirm, recover, restore, wait>>
  BY <1>1, CallsJoin
<1> QED
  BY <1>2, <1>3 DEF confirm, recover, restore, wait

----------------------------------------------------------------------------
(* Every step keeps the types.                                             *)

LEMMA LogIs ==
  ASSUME NEW m \in MarkerRecord, NEW log \in {"nothing", "left", "confirmed", "ambiguous"}
  PROVE  [m EXCEPT !.log = log] \in MarkerRecord
BY DEF MarkerRecord

LEMMA StopTypes ==
  ASSUME Types, NEW why, Ends(why), UNCHANGED <<slots, active, evidence, server>>,
         marker' \in [Tables -> MarkerRecord]
  PROVE  Types'
<1>1. up' \in Seq(Commands)
  BY Truncated DEF Ends
<1> QED
  BY <1>1, EmptyIs DEF Ends, Hangup, Types, NoSession


\* The types are kept by the calls, the handlers, the sessions, the faults and the server.
LEMMA CallsTypes ==
  ASSUME SlotsAssumption, Types, Calls
  PROVE  Types'
<1>0. /\ todo # <<>> /\ Op \in Ops /\ Tail(todo) \in Seq(Ops)
  BY OpIs DEF Calls, Calling, SaveSlot, SendCommand, SendRaises, LogLeave, SaveMarker, UnlinkMarker,
          RetireTable, RetireIdleTables, ReadyTable, CreateNextTable, Outcome, WaitForMirrorCapacity,
          Assign, PlayGame, Package, Record, Withdraw, AfterEnd, AfterDestroy
<1> USE <1>0
<1>1. CASE SaveSlot
  BY <1>1, OpFields DEF SaveSlot, Calling, Return, Types, flags, net, States, NONE
<1>2. CASE SendCommand
  <2>1. Op.t \in Tables /\ Op.command \in {"create", "ready", "leave"}
    BY <1>2, OpFields DEF SendCommand, Calling
  <2>2. up' \in Seq(Commands)
    <3>1. [command |-> Op.command, t |-> Op.t] \in Commands
      BY <2>1 DEF Commands
    <3> QED
      BY <1>2, <3>1, AppendIs DEF SendCommand, Types
  <2>3. todo' \in Seq(Ops)
    <3>1. TableCall("log_leave", Op.t) \in Ops
      BY <2>1, OpsMade
    <3> QED
      BY <1>2, <3>1, GotoIs DEF SendCommand, Goto, Logged, On, TableCall
  <2> QED
    BY <1>2, <2>2, <2>3 DEF SendCommand, Types, disk, flags
<1>3. CASE SendRaises
  BY <1>3, EmptyIs DEF SendRaises, Hangup, NoSession, Types, disk, flags
<1>4. CASE LogLeave
  <2>1. Op.t \in Tables
    BY <1>4, OpFields DEF LogLeave, Calling
  <2>2. [marker[Op.t] EXCEPT !.log = IF @ = "nothing" THEN "left" ELSE "ambiguous"]
          \in MarkerRecord
    <3>1. marker[Op.t] \in MarkerRecord
      BY <2>1 DEF Types
    <3> QED
      BY <3>1, LogIs
  <2>3. marker' \in [Tables -> MarkerRecord]
    BY <1>4, <2>1, <2>2 DEF LogLeave, Types
  <2> QED
    BY <1>4, <2>3 DEF LogLeave, Return, Types, flags, net
<1>5. CASE SaveMarker
  <2>1. Op.t \in Tables /\ Op.reason \in Reasons
    BY <1>5, OpFields DEF SaveMarker, Calling
  <2>2. marker' \in [Tables -> MarkerRecord]
    BY <1>5, <2>1 DEF SaveMarker, Types, MarkerRecord
  <2> QED
    BY <1>5, <2>2 DEF SaveMarker, Return, Types, flags, net
<1>6. CASE UnlinkMarker
  <2>2. marker' \in [Tables -> MarkerRecord]
    BY <1>6 DEF UnlinkMarker, Types, MarkerRecord, NoMarker
  <2> QED
    BY <1>6, <2>2 DEF UnlinkMarker, Return, Types, flags, net
<1>7. CASE RetireTable
  <2>1. Op.t \in Tables /\ Op.reason \in Reasons
    BY <1>7, OpFields DEF RetireTable, Calling
  <2>2. MarkCall(Op.t, Op.reason) \in Ops /\ SendCall(Op.t, "leave") \in Ops
    BY <2>1, OpsMade
  <2>3. ASSUME NEW why, Raise(why) PROVE Types'
    BY <2>3, StopTypes DEF Raise, Stop, disk, Types
  <2>4. ASSUME todo' \in Seq(Ops), slots' \in [Tables -> States \cup {NONE}],
               UNCHANGED <<active, marker, evidence, ledger, proc, flags, sess, net, ghosts>>
        PROVE  Types'
    BY <2>4 DEF Types, flags, net
  <2>5. slots \in [Tables -> States \cup {NONE}]
        /\ [slots EXCEPT ![Op.t] = "RETIRING"] \in [Tables -> States \cup {NONE}]
    BY DEF Types, States
  <2>6. CASE slots[Op.t] = NONE \/ (slots[Op.t] = "RETIRING" /\ ~Op.retry)
    BY <1>7, <2>4, <2>5, <2>6 DEF RetireTable, Return, NONE, disk, flags, net, Types
  <2>7. CASE slots[Op.t] = "RETIRING" /\ Op.retry
    <3>1. Send(Op.t, "leave") \o Tail(todo) \in Seq(Ops)
      BY <2>2, GotoIs DEF Send, SendCall
    <3> QED
      BY <1>7, <2>3, <2>4, <2>5, <2>7, <3>1 DEF RetireTable, Goto, NONE, disk
  <2>8. CASE slots[Op.t] \notin {NONE, "RETIRING"}
    <3>1. CASE marker[Op.t] = NoMarker
      <4>1. todo' \in Seq(Ops)
        BY <1>7, <2>2, <2>8, <3>1, RetireDoes, GotoIs
      <4> QED
        BY <1>7, <2>4, <2>5, <2>8, <3>1, <4>1 DEF RetireTable, NONE
    <3>2. CASE marker[Op.t] # NoMarker
      BY <1>7, <2>3, <2>8, <3>2 DEF RetireTable, NONE
    <3> QED
      BY <3>1, <3>2
  <2> QED
    BY <2>6, <2>7, <2>8
<1>8. CASE RetireIdleTables
  <2>1. todo' \in Seq(Ops)
    <3>1. ASSUME NEW t \in Idle PROVE Retire(t, Op.reason) \o todo \in Seq(Ops)
      BY <1>8, <3>1, OpFields, OpsMade, GotoIs
         DEF Types, Retire, RetireCall, Idle, Occupied, RetireIdleTables, Calling
    <3> QED
      BY <1>8, <3>1 DEF RetireIdleTables, Return
  <2> QED
    BY <1>8, <2>1 DEF RetireIdleTables, Types, disk, flags, net
<1>9. CASE ReadyTable
  <2>1. Op.t \in Tables
    BY <1>9, OpFields DEF ReadyTable, Calling
  <2>2. todo' \in Seq(Ops)
    BY <1>9, <2>1, ReadyDoes, OpsMade, GotoIs
  <2> QED
    BY <1>9, <2>1, <2>2 DEF ReadyTable, Types, flags, net, States
<1>10. CASE CreateNextTable
  <2>1. ASSUME NEW t \in Tables PROVE Send(t, "create") \o todo \in Seq(Ops)
    BY <2>1, OpsMade, GotoIs DEF Types, Send, SendCall
  <2> QED
    BY <1>10, <2>1 DEF CreateNextTable, Types, Return, net, States
<1>11. CASE Outcome
  <2>1. Do("wait") \in Seq(Ops) /\ <<>> \in Seq(Ops) /\ <<>> \in Seq(Lines)
    BY PlainOpsMade, RowsAre, EmptyIs DEF Do, PlainCall
  <2> QED
    BY <1>11, <2>1 DEF Outcome, Hangup, NoSession, Return, Types, disk, flags
<1>12. CASE WaitForMirrorCapacity
  BY <1>12 DEF WaitForMirrorCapacity, Return, Types, disk, net
<1>13. CASE Assign
  <2>1. Op.t \in Tables /\ Op.n \in 1..MaxGames
    BY <1>13, OpFields DEF Assign, Calling
  <2>2. Missing \in BOOLEAN
    BY DEF Missing
  <2>3. \A arm \in Arms : [n |-> Op.n, arm |-> arm, primary |-> Missing] \in GameRecord
    BY <2>1, <2>2 DEF GameRecord
  <2>4. active' \in [Tables -> GameRecord]
    <3>1. CASE active[Op.t] # NoGame
      BY <1>13, <3>1 DEF Assign, Types
    <3>2. CASE active[Op.t] = NoGame
      <4>1. PICK arm \in Arms :
               active' = [active EXCEPT ![Op.t] = [n |-> Op.n, arm |-> arm, primary |-> Missing]]
        BY <1>13, <3>2 DEF Assign, Arms
      <4>2. active \in [Tables -> GameRecord]
        BY DEF Types
      <4> QED
        BY <4>1, <4>2, <2>3
    <3> QED
      BY <3>1, <3>2
  <2> QED
    BY <1>13, <2>4 DEF Assign, Return, Types, flags, net
<1>14. CASE PlayGame
  BY <1>14 DEF PlayGame, Return, Types, disk, flags, net
<1>15. CASE Package
  <2>1. Op.status \in {"SCORED", "FAILED"}
    BY <1>15, OpFields DEF Package, Calling
  <2> QED
    BY <1>15, <2>1 DEF Package, Return, Types, flags, net
<1>16. CASE Record
  BY <1>16 DEF Record, Return, Types, flags, net
<1>17. CASE Withdraw
  BY <1>17 DEF Withdraw, Return, Types, flags, net, GameRecord
<1>18. CASE AfterEnd
  <2>1. Op.t \in Tables
    BY <1>18, OpFields DEF AfterEnd, Calling
  <2>2. /\ TableCall("ready", Op.t) \in Ops
        /\ \A r \in Reasons : RetireCall(Op.t, r, FALSE) \in Ops /\ IdleCall(r) \in Ops
    BY <2>1, OpsMade, PlainOpsMade
  <2>3. todo' \in Seq(Ops)
    <3>1. \A r \in Reasons :
             /\ <<RetireCall(Op.t, r, FALSE), IdleCall(r)>> \o Tail(todo) \in Seq(Ops)
             /\ <<RetireCall(Op.t, r, FALSE)>> \o Tail(todo) \in Seq(Ops)
      BY <2>2, GotoIs
    <3>2. <<TableCall("ready", Op.t)>> \o Tail(todo) \in Seq(Ops)
      BY <2>2, GotoIs
    <3> QED
      BY <1>18, <3>1, <3>2, AfterEndDoes DEF Reasons
  <2> QED
    BY <1>18, <2>3 DEF AfterEnd, Types, disk, net, Enough
<1>19. CASE AfterDestroy
  <2>2. todo' \in Seq(Ops)
    <3>1. /\ \A r \in Reasons : <<IdleCall(r), PlainCall("outcome")>> \o Tail(todo) \in Seq(Ops)
          /\ <<PlainCall("fill")>> \o Tail(todo) \in Seq(Ops)
      BY PlainOpsMade, GotoIs
    <3> QED
      BY <1>19, <3>1, AfterDestroyDoes
  <2> QED
    BY <1>19, <2>2 DEF AfterDestroy, Types, disk, flags, net
<1> QED
  BY <1>1, <1>2, <1>3, <1>4, <1>5, <1>6, <1>7, <1>8, <1>9, <1>10, <1>11, <1>12, <1>13, <1>14,
     <1>15, <1>16, <1>17, <1>18, <1>19 DEF Calls

LEMMA HandlersTypes ==
  ASSUME SlotsAssumption, Types, Handlers
  PROVE  Types'
<1>0. /\ Line \in Lines /\ Tail(down) \in Seq(Lines) /\ Line.t \in Tables
      /\ Line.event = "start" => Line.n \in 1..MaxGames
  BY LineIs, LineFields DEF Handlers, Reading, OnCreate, OnStart, OnEnd, OnTableError, OnDestroy
<1> USE <1>0
<1> DEFINE t == Line.t
<1>1. ASSUME NEW why, Raise(why) PROVE Types'
  BY <1>1, StopTypes DEF Raise, Stop, disk, Types
<1>2. ASSUME NEW status \in {"SCORED", "FAILED"}, NEW counts \in BOOLEAN, NEW op \in Ops,
             Finish(t, status, counts, <<op>>)
      PROVE  todo' \in Seq(Ops)
  <2>1. todo' = <<PackageCall(t, status), RecordCall(t, counts), TableCall("withdraw", t), op>>
    BY <1>2, FinishDoes
  <2>2. PackageCall(t, status) \in Ops /\ RecordCall(t, counts) \in Ops
        /\ TableCall("withdraw", t) \in Ops
    BY OpsMade
  <2>3. <<PackageCall(t, status), RecordCall(t, counts), TableCall("withdraw", t), op>> \in Seq(Ops)
    BY <2>2, RowsAre
  <2> QED
    BY <2>1, <2>3
<1>3. CASE OnCreate
  <2>1. /\ <<>> \in Seq(Ops) /\ Slot(t, "ACTIVE") \in Seq(Ops) /\ On("ready", t) \in Seq(Ops)
        /\ RetryLeave(t) \in Seq(Ops)
        /\ \A r \in Reasons : Retire(t, r) \in Seq(Ops)
    BY OpsMade, RowsAre
       DEF Slot, On, RetryLeave, Retire, Reasons, SlotCall, TableCall, RetireCall
  <2>2. todo' \in Seq(Ops)
    BY <1>3, <2>1 DEF OnCreate, EnsureActive, Reasons
  <2> QED
    BY <1>3, <2>2 DEF OnCreate, Taken, Types, disk, flags
<1>4. CASE OnStart
  <2>1. CASE slots[t] = "RETIRING"
    BY <1>4, <1>1, <2>1 DEF OnStart
  <2>2. CASE slots[t] # "RETIRING"
    <3>1. Line.n \in 1..MaxGames
      BY <1>0, <1>4 DEF OnStart, Reading, Line
    <3>2. todo' \in Seq(Ops)
      <4>1. /\ SlotCall(t, "ACTIVE") \in Ops /\ AssignCall(t, Line.n) \in Ops
            /\ TableCall("play", t) \in Ops
        BY <3>1, OpsMade
      <4>2. /\ <<AssignCall(t, Line.n), TableCall("play", t)>> \in Seq(Ops)
            /\ <<SlotCall(t, "ACTIVE"), AssignCall(t, Line.n), TableCall("play", t)>> \in Seq(Ops)
        BY <4>1, RowsAre
      <4> QED
        BY <1>4, <2>2, <4>2, StartDoes
    <3> QED
      BY <1>4, <2>2, <3>2 DEF OnStart, Taken, Types, disk, flags
  <2> QED
    BY <2>1, <2>2
<1>5. active[t] # NoGame => active[t].primary \in BOOLEAN
  BY DEF Types, GameRecord
<1>6. CASE OnEnd
  <2>1. CASE ~Known(t)
    BY <1>6, <1>1, <2>1 DEF OnEnd
  <2>2. CASE active[t] # NoGame /\ Known(t)
    <3>1. TableCall("after_end", t) \in Ops
      BY OpsMade
    <3>2. (active[t].primary /\ ~Enough) \in BOOLEAN
      BY <1>5, <2>2
    <3>3. todo' \in Seq(Ops)
      BY <1>6, <1>2, <2>2, <3>1, <3>2 DEF OnEnd, On, TableCall
    <3> QED
      BY <1>6, <2>2, <3>3 DEF OnEnd, Taken, Types, disk, flags
  <2> QED
    BY <2>1, <2>2 DEF Known
<1>7. CASE OnTableError
  <2>1. RetireCall(t, "OTHER", FALSE) \in Ops /\ Retire(t, "OTHER") \in Seq(Ops)
    BY OpsMade, RowsAre DEF Reasons, Retire, RetireCall
  <2>2. todo' \in Seq(Ops)
    BY <1>7, <1>2, <1>5, <2>1 DEF OnTableError, Known, Retire, RetireCall
  <2> QED
    BY <1>7, <2>2 DEF OnTableError, Taken, Types, disk, flags
<1>8. CASE OnDestroy
  <2>0. marker' \in [Tables -> MarkerRecord]
    <3>1. marker[t] \in MarkerRecord
      BY DEF Types
    <3>2. [marker[t] EXCEPT !.log = IF @ = "left" THEN "confirmed" ELSE "ambiguous"]
            \in MarkerRecord
      BY <3>1, LogIs
    <3> QED
      BY <1>8, <3>2 DEF OnDestroy, Types
  <2>1. CASE active[t] # NoGame
    BY <1>8, <2>0, <2>1, StopTypes DEF OnDestroy
  <2>2. CASE active[t] = NoGame
    <3>1. todo' \in Seq(Ops)
      <4>1. /\ TableCall("unlink", t) \in Ops /\ SlotCall(t, NONE) \in Ops
            /\ PlainCall("after_destroy") \in Ops
        BY OpsMade, PlainOpsMade
      <4>2. <<TableCall("unlink", t), SlotCall(t, NONE), PlainCall("after_destroy")>> \in Seq(Ops)
        BY <4>1, RowsAre
      <4> QED
        BY <1>8, <2>2, <4>2, DestroyDoes
    <3> QED
      BY <1>8, <2>0, <2>2, <3>1 DEF OnDestroy, Taken, Types, flags
  <2> QED
    BY <2>1, <2>2
<1> QED
  BY <1>3, <1>4, <1>6, <1>7, <1>8 DEF Handlers

\* A line the server sends, if somebody is connected.
LEMMA TellTypes ==
  ASSUME Types, NEW line \in Lines, Tell(line)
  PROVE  down' \in Seq(Lines)
  BY AppendIs DEF Types, Tell

\* The server's replay, as a sequence of lines.
LEMMA ReplayIs ==
  ASSUME SlotsAssumption, Types
  PROVE  /\ Cardinality(Replay) \in Nat
         /\ \A lines \in [1..Cardinality(Replay) -> Replay] :
               /\ lines \in Seq(Lines) /\ lines \in Seq(Replay)
               /\ DOMAIN lines = 1..Cardinality(Replay)
<1> DEFINE creates == {[event |-> "create", t |-> t] : t \in {u \in Tables : server[u].st # "none"}}
           starts == {[event |-> "start", t |-> t, n |-> server[t].n] :
                         t \in {u \in Tables : server[u].st = "playing"}}
<1>1. IsFiniteSet({u \in Tables : server[u].st # "none"})
      /\ IsFiniteSet({u \in Tables : server[u].st = "playing"})
  BY FS_Subset DEF SlotsAssumption
<1>2. IsFiniteSet(creates) /\ IsFiniteSet(starts)
  <2> DEFINE opened == {u \in Tables : server[u].st # "none"}
             busy == {u \in Tables : server[u].st = "playing"}
             create == [t \in opened |-> [event |-> "create", t |-> t]]
             start == [t \in busy |-> [event |-> "start", t |-> t, n |-> server[t].n]]
  <2>1. create \in Surjection(opened, creates) /\ start \in Surjection(busy, starts)
    BY DEF Surjection
  <2> HIDE DEF create, start
  <2> QED
    BY <1>1, <2>1, FS_Surjection
<1>3. Replay = creates \cup starts
  BY DEF Replay
<1>4. IsFiniteSet(Replay)
  BY <1>2, <1>3, FS_Union
<1>5. Cardinality(Replay) \in Nat
  BY <1>4, FS_CardinalityType
<1>6. Replay \subseteq Lines
  <2>1. \A t \in Tables : server[t].st = "playing" => server[t].n \in 1..MaxGames
    BY DEF Types, ServerRecord, SlotsAssumption
  <2> QED
    BY <1>3, <2>1, LinesMade
<1> HIDE DEF creates, starts
<1>7. ASSUME NEW n \in Nat, NEW lines \in [1..n -> Replay]
      PROVE  lines \in Seq(Lines) /\ lines \in Seq(Replay) /\ DOMAIN lines = 1..n
  BY <1>6, SeqDef
<1> QED
  BY <1>5, <1>7

LEMMA SessionTypes ==
  ASSUME SlotsAssumption, Types, Session
  PROVE  Types'
<1>1. ASSUME NEW why, Raise(why) PROVE Types'
  BY <1>1, StopTypes DEF Raise, Stop, disk, Types
<1>2. CASE Connect
  <2>1. down' \in Seq(Lines)
    BY <1>2, ReplayIs DEF Connect
  <2>2. todo' \in Seq(Ops)
    BY <1>2, ConnectDoes, PlainOpsMade, RowsAre
  <2> QED
    BY <1>2, <2>1, <2>2 DEF Connect, Types, disk, flags
<1>3. CASE ReadRaises
  BY <1>3, EmptyIs DEF ReadRaises, Hangup, NoSession, Types, disk, flags
<1>4. CASE Restart
  <2>1. <<PlainCall("confirm"), PlainCall("recover"), PlainCall("restore"), PlainCall("wait")>>
           \in Seq(Ops)
    BY PlainOpsMade, RowsAre
  <2>2. todo' \in Seq(Ops)
    BY <1>4, <2>1, RestartDoes
  <2>3. pause' \in BOOLEAN /\ complete' \in BOOLEAN
    BY <1>4 DEF Restart
  <2> QED
    BY <1>4, <2>2, <2>3 DEF Restart, Types, disk, net
<1>5. CASE Confirm
  <2>1. Tail(todo) \in Seq(Ops)
    BY <1>5, OpIs DEF Confirm, Calling
  <2>2. NoMarker \in MarkerRecord
    BY DEF NoMarker, MarkerRecord
  <2>3. marker' \in [Tables -> MarkerRecord]
    BY <1>5, <2>2 DEF Confirm, Types
  <2>4. confirmed' \subseteq Tables /\ todo' \in Seq(Ops)
    BY <1>5, <2>1 DEF Confirm, Return, Types, Holding
  <2> QED
    BY <1>5, <2>3, <2>4 DEF Confirm, Types, net
<1>6. CASE Recover
  <2>1. Tail(todo) \in Seq(Ops)
    BY <1>6, OpIs DEF Recover, Calling
  <2> QED
    BY <1>1, <1>6, <2>1 DEF Recover, Return, Types, flags, net, GameRecord
<1>7. CASE Restore
  <2>1. Tail(todo) \in Seq(Ops)
    BY <1>7, OpIs DEF Restore, Calling
  <2> QED
    BY <1>1, <1>7, <2>1 DEF Restore, Return, Types, flags, net, States
<1> QED
  BY <1>2, <1>3, <1>4, <1>5, <1>6, <1>7 DEF Session, Recovery

LEMMA OtherTypes ==
  ASSUME SlotsAssumption, Types, Breakage \/ Server
  PROVE  Types'
<1>1. CASE Break
  BY <1>1, Truncated DEF Break, Types, disk, flags
<1>2. CASE Die
  BY <1>2, StopTypes DEF Die, Stop, disk, Types
<1>3. CASE ServerTakes
  <2>1. Head(up) \in Commands /\ Tail(up) \in Seq(Commands)
    BY <1>3, TailIs DEF ServerTakes, Types
  <2> DEFINE t == Head(up).t
  <2>2. t \in Tables
    BY <2>1, CommandFields
  <2>3. /\ [event |-> "create", t |-> t] \in Lines
        /\ [event |-> "destroy", t |-> t] \in Lines
    BY <2>2, LinesMade
  <2>4. down' \in Seq(Lines)
    BY <1>3, <2>3, TellTypes DEF ServerTakes, Types
  <2>5. \A st \in {"none", "open", "ready", "playing"} :
           [server[t] EXCEPT !.st = st] \in ServerRecord
    BY <2>2 DEF Types, ServerRecord
  <2>6. server' \in [Tables -> ServerRecord]
        /\ \A u \in Tables : server'[u].st = "playing" => server'[u].n > 0
    <3>1. CASE UNCHANGED server
      BY <3>1 DEF Types
    <3>2. CASE \E st \in {"none", "open", "ready"} : Table(t, st)
      <4>1. PICK st \in {"none", "open", "ready"} :
               server' = [server EXCEPT ![t] = [server[t] EXCEPT !.st = st]]
        BY <3>2 DEF Table
      <4>2. [server[t] EXCEPT !.st = st].st = st
        BY <2>2 DEF Types, ServerRecord
      <4>3. server \in [Tables -> ServerRecord]
            /\ \A u \in Tables : server[u].st = "playing" => server[u].n > 0
        BY DEF Types
      <4> HIDE DEF t
      <4> QED
        BY <2>2, <2>5, <4>1, <4>2, <4>3
    <3> QED
      BY <1>3, <3>1, <3>2 DEF ServerTakes
  <2> QED
    BY <1>3, <2>1, <2>4, <2>6 DEF ServerTakes, Types, disk, flags
<1>4. ASSUME NEW t \in Tables, StartGame(t) PROVE Types'
  <2>1. server[t].n + 1 \in 1..MaxGames
    BY <1>4 DEF StartGame, Types, ServerRecord, SlotsAssumption
  <2>2. [st |-> "playing", n |-> server[t].n + 1] \in ServerRecord
    BY <2>1 DEF ServerRecord, SlotsAssumption
  <2>3. down' \in Seq(Lines)
    BY <1>4, <2>1, LinesMade, TellTypes DEF StartGame
  <2>4. server' \in [Tables -> ServerRecord]
        /\ \A u \in Tables : server'[u].st = "playing" => server'[u].n > 0
    BY <1>4, <2>1, <2>2 DEF StartGame, Types
  <2> QED
    BY <1>4, <2>3, <2>4 DEF StartGame, Types, disk, flags
<1>5. ASSUME NEW t \in Tables, EndGame(t) PROVE Types'
  <2>1. down' \in Seq(Lines)
    BY <1>5, LinesMade, TellTypes DEF EndGame
  <2>2. [server[t] EXCEPT !.st = "open"] \in ServerRecord
    BY DEF Types, ServerRecord
  <2>3. server' \in [Tables -> ServerRecord]
        /\ \A u \in Tables : server'[u].st = "playing" => server'[u].n > 0
    BY <1>5, <2>2 DEF EndGame, Table, Types, ServerRecord
  <2> QED
    BY <1>5, <2>1, <2>3 DEF EndGame, Types, disk, flags
<1>6. ASSUME NEW t \in Tables, Refuse(t) PROVE Types'
  <2>1. down' \in Seq(Lines)
    BY <1>6, LinesMade, TellTypes DEF Refuse
  <2> QED
    BY <1>6, <2>1 DEF Refuse, Types, disk, flags
<1> QED
  BY <1>1, <1>2, <1>3, <1>4, <1>5, <1>6 DEF Breakage, Server

LEMMA TypesKept ==
  ASSUME SlotsAssumption, Types, [Next]_vars
  PROVE  Types'
<1>1. CASE UNCHANGED vars
  BY <1>1 DEF vars, disk, flags, net, Types
<1> QED
  BY <1>1, CallsTypes, HandlersTypes, SessionTypes, OtherTypes DEF Next

LEMMA InitTypes ==
  ASSUME SlotsAssumption, Init
  PROVE  Types
<1>1. [st |-> "none", n |-> 0] \in ServerRecord
  BY DEF ServerRecord, SlotsAssumption
<1>2. NoMarker \in MarkerRecord /\ NoGame \in GameRecord
  BY DEF NoMarker, MarkerRecord, GameRecord
<1>3. <<>> \in Seq(Ops) /\ <<>> \in Seq(Lines) /\ <<>> \in Seq(Commands) /\ DOMAIN << >> = {}
  BY EmptyIs
<1> QED
  BY <1>1, <1>2, <1>3 DEF Init, Types, NoSession

----------------------------------------------------------------------------
(* What travels.                                                           *)

Hears(lines, e, t)    == \E i \in DOMAIN lines : lines[i].event = e /\ lines[i].t = t
Sends(commands, c, t) == \E i \in DOMAIN commands : commands[i].command = c /\ commands[i].t = t
Mentions(s, t)        == \E i \in DOMAIN s : s[i].t = t

NothingNew(new, old, t) ==
    \A i \in DOMAIN new : new[i].t = t => \E j \in DOMAIN old : new[i] = old[j]

\* What is not new was there before; lines and commands are lost, or added at the end.
LEMMA NothingNewMeans ==
  ASSUME NEW new, NEW old, NEW t, NothingNew(new, old, t)
  PROVE  /\ \A e : Hears(new, e, t) => Hears(old, e, t)
         /\ \A c : Sends(new, c, t) => Sends(old, c, t)
         /\ Mentions(new, t) => Mentions(old, t)
  BY DEF NothingNew, Hears, Sends, Mentions

LEMMA NothingNewIn ==
  ASSUME NEW S, NEW s \in Seq(S), NEW t
  PROVE  /\ NothingNew(s, s, t) /\ NothingNew(<<>>, s, t)
         /\ s # <<>> => NothingNew(Tail(s), s, t)
         /\ \A n \in 0..Len(s) : NothingNew(SubSeq(s, 1, n), s, t)
         /\ \A e \in S : e.t # t => NothingNew(Append(s, e), s, t)
<1>1. NothingNew(s, s, t) /\ NothingNew(<<>>, s, t)
  BY EmptyIs DEF NothingNew
<1>2. s # <<>> => NothingNew(Tail(s), s, t)
  BY TailIs DEF NothingNew
<1>3. ASSUME NEW n \in 0..Len(s) PROVE NothingNew(SubSeq(s, 1, n), s, t)
  BY PrefixIs, SeqIs DEF NothingNew
<1>4. ASSUME NEW e \in S, e.t # t PROVE NothingNew(Append(s, e), s, t)
  <2>1. ASSUME NEW i \in DOMAIN Append(s, e), Append(s, e)[i].t = t
        PROVE  \E j \in DOMAIN s : Append(s, e)[i] = s[j]
    <3>1. i \in 1..Len(s) /\ Len(s) \in Nat /\ DOMAIN s = 1..Len(s)
      BY <1>4, <2>1, AppendIs, SeqIs
    <3>2. Append(s, e)[i] = s[i]
      BY <3>1, AppendIs
    <3> QED
      BY <3>1, <3>2
  <2> QED
    BY <2>1 DEF NothingNew
<1> QED
  BY <1>1, <1>2, <1>3, <1>4

LEMMA Appended ==
  ASSUME NEW S, NEW s \in Seq(S), NEW x \in S, NEW t
  PROVE  /\ \A e : Hears(Append(s, x), e, t) => Hears(s, e, t) \/ (x.event = e /\ x.t = t)
         /\ \A c : Sends(Append(s, x), c, t) => Sends(s, c, t) \/ (x.command = c /\ x.t = t)
         /\ Mentions(Append(s, x), t) => Mentions(s, t) \/ x.t = t
<1>1. /\ Len(s) \in Nat /\ DOMAIN s = 1..Len(s)
      /\ DOMAIN Append(s, x) = 1..(Len(s) + 1)
      /\ Append(s, x)[Len(s) + 1] = x
      /\ \A i \in 1..Len(s) : Append(s, x)[i] = s[i]
  BY AppendIs, SeqIs
<1>2. ASSUME NEW i \in DOMAIN Append(s, x)
      PROVE  Append(s, x)[i] = x \/ (i \in DOMAIN s /\ Append(s, x)[i] = s[i])
  BY <1>1
<1> QED
  BY <1>2 DEF Hears, Sends, Mentions

LEMMA HeadMeans ==
  ASSUME NEW S, NEW s \in Seq(S), s # <<>>
  PROVE  /\ Hears(s, Head(s).event, Head(s).t)
         /\ Sends(s, Head(s).command, Head(s).t)
         /\ Mentions(s, Head(s).t)
  BY TailIs DEF Hears, Sends, Mentions

LEMMA EmptyMeans ==
  ASSUME NEW t
  PROVE  ~Mentions(<<>>, t)
  BY EmptyIs DEF Mentions

LEMMA MentionMeans ==
  ASSUME NEW s, NEW t, ~Mentions(s, t)
  PROVE  (\A e : ~Hears(s, e, t)) /\ (\A c : ~Sends(s, c, t))
  BY DEF Mentions, Hears, Sends

\* Nothing of a table comes before its creation or after its end, ...
LineOrder(s) ==
    \A i, j \in DOMAIN s : i < j /\ s[i].t = s[j].t =>
        /\ s[j].event # "create" /\ s[i].event # "destroy"
        /\ s[i].event = "end" => s[j].event \in {"error", "destroy"}

\* ... and neither do commands; READY is sent once.
CommandOrder(s) ==
    \A i, j \in DOMAIN s : i < j /\ s[i].t = s[j].t =>
        /\ s[j].command # "create" /\ s[i].command # "leave"
        /\ ~(s[i].command = "ready" /\ s[j].command = "ready")

\* The order survives every loss, and what is added in its place.
LEMMA OrderIn ==
  ASSUME NEW S, NEW s \in Seq(S)
  PROVE  /\ s # <<>> /\ LineOrder(s) => LineOrder(Tail(s))
         /\ s # <<>> /\ CommandOrder(s) => CommandOrder(Tail(s))
         /\ \A n \in 0..Len(s) : /\ LineOrder(s) => LineOrder(SubSeq(s, 1, n))
                                 /\ CommandOrder(s) => CommandOrder(SubSeq(s, 1, n))
         /\ LineOrder(<<>>) /\ CommandOrder(<<>>)
<1>1. ASSUME s # <<>> PROVE /\ LineOrder(s) => LineOrder(Tail(s))
                            /\ CommandOrder(s) => CommandOrder(Tail(s))
  <2>1. /\ Len(s) \in Nat /\ DOMAIN Tail(s) = 1..(Len(s) - 1)
        /\ \A i \in DOMAIN Tail(s) : Tail(s)[i] = s[i + 1] /\ i + 1 \in DOMAIN s
    BY <1>1, TailIs
  <2>2. \A i, j \in DOMAIN Tail(s) : i < j => i + 1 < j + 1
    BY <2>1
  <2>3. LineOrder(s) => LineOrder(Tail(s))
    BY <2>1, <2>2 DEF LineOrder
  <2>4. CommandOrder(s) => CommandOrder(Tail(s))
    BY <2>1, <2>2 DEF CommandOrder
  <2> QED
    BY <2>3, <2>4
<1>2. ASSUME NEW n \in 0..Len(s)
      PROVE  /\ LineOrder(s) => LineOrder(SubSeq(s, 1, n))
             /\ CommandOrder(s) => CommandOrder(SubSeq(s, 1, n))
  <2>1. \A i \in DOMAIN SubSeq(s, 1, n) : i \in DOMAIN s /\ SubSeq(s, 1, n)[i] = s[i]
    BY PrefixIs, SeqIs
  <2> QED
    BY <2>1 DEF LineOrder, CommandOrder
<1>3. LineOrder(<<>>) /\ CommandOrder(<<>>)
  BY EmptyIs DEF LineOrder, CommandOrder
<1> QED
  BY <1>1, <1>2, <1>3

LEMMA LineAppended ==
  ASSUME NEW S, NEW s \in Seq(S), NEW x \in S, LineOrder(s),
         ~Hears(s, "destroy", x.t),
         x.event = "create" => ~Mentions(s, x.t),
         x.event \notin {"error", "destroy"} => ~Hears(s, "end", x.t)
  PROVE  LineOrder(Append(s, x))
<1>1. /\ Len(s) \in Nat /\ DOMAIN s = 1..Len(s)
      /\ DOMAIN Append(s, x) = 1..(Len(s) + 1)
      /\ Append(s, x)[Len(s) + 1] = x
      /\ \A i \in 1..Len(s) : Append(s, x)[i] = s[i]
  BY AppendIs, SeqIs
<1>2. ASSUME NEW i \in DOMAIN Append(s, x), NEW j \in DOMAIN Append(s, x), i < j
      PROVE  i \in DOMAIN s /\ Append(s, x)[i] = s[i]
             /\ ((j \in DOMAIN s /\ Append(s, x)[j] = s[j]) \/ Append(s, x)[j] = x)
  BY <1>1, <1>2
<1>3. ASSUME NEW i \in DOMAIN s, s[i].t = x.t
      PROVE  /\ x.event # "create" /\ s[i].event # "destroy"
             /\ s[i].event = "end" => x.event \in {"error", "destroy"}
  BY <1>3 DEF Hears, Mentions
<1> QED
  BY <1>2, <1>3 DEF LineOrder

LEMMA CommandAppended ==
  ASSUME NEW S, NEW s \in Seq(S), NEW x \in S, CommandOrder(s),
         ~Sends(s, "leave", x.t),
         x.command = "create" => ~Mentions(s, x.t),
         x.command = "ready" => ~Sends(s, "ready", x.t)
  PROVE  CommandOrder(Append(s, x))
<1>1. /\ Len(s) \in Nat /\ DOMAIN s = 1..Len(s)
      /\ DOMAIN Append(s, x) = 1..(Len(s) + 1)
      /\ Append(s, x)[Len(s) + 1] = x
      /\ \A i \in 1..Len(s) : Append(s, x)[i] = s[i]
  BY AppendIs, SeqIs
<1>2. ASSUME NEW i \in DOMAIN Append(s, x), NEW j \in DOMAIN Append(s, x), i < j
      PROVE  i \in DOMAIN s /\ Append(s, x)[i] = s[i]
             /\ ((j \in DOMAIN s /\ Append(s, x)[j] = s[j]) \/ Append(s, x)[j] = x)
  BY <1>1, <1>2
<1>3. ASSUME NEW i \in DOMAIN s, s[i].t = x.t
      PROVE  /\ x.command # "create" /\ s[i].command # "leave"
             /\ ~(s[i].command = "ready" /\ x.command = "ready")
  BY <1>3 DEF Sends, Mentions
<1> QED
  BY <1>2, <1>3 DEF CommandOrder

\* What follows the head of the line.
LEMMA OrderMeans ==
  ASSUME NEW S, NEW s \in Seq(S), s # <<>>
  PROVE  /\ LineOrder(s) =>
              /\ ~Hears(Tail(s), "create", Head(s).t)
              /\ Head(s).event = "destroy" => ~Mentions(Tail(s), Head(s).t)
              /\ Head(s).event = "end" =>
                    \A e : Hears(Tail(s), e, Head(s).t) => e \in {"error", "destroy"}
         /\ CommandOrder(s) =>
              /\ ~Sends(Tail(s), "create", Head(s).t)
              /\ Head(s).command = "leave" => ~Mentions(Tail(s), Head(s).t)
              /\ Head(s).command = "ready" => ~Sends(Tail(s), "ready", Head(s).t)
<1>1. /\ Len(s) \in Nat \ {0} /\ 1 \in DOMAIN s /\ Head(s) = s[1]
      /\ DOMAIN Tail(s) = 1..(Len(s) - 1)
      /\ \A i \in DOMAIN Tail(s) : Tail(s)[i] = s[i + 1] /\ i + 1 \in DOMAIN s
  BY TailIs
<1>2. \A i \in DOMAIN Tail(s) : 1 < i + 1
  BY <1>1
<1> QED
  BY <1>1, <1>2 DEF LineOrder, CommandOrder, Hears, Sends, Mentions

----------------------------------------------------------------------------
(* The invariant of the tables.                                            *)

Silent(t) == ~Mentions(up, t) /\ ~Mentions(down, t)

\* What is on disk of a table.
OnDisk(t) ==
    /\ marker[t] # NoMarker => slots[t] = "RETIRING" /\ marker[t].reason \in Reasons
    /\ active[t] # NoGame => slots[t] = "ACTIVE"
    /\ marker[t].log = "confirmed" => server[t].st = "none"

\* The slot knows of every table the server has, or is going to have.
Managed(t) ==
    /\ slots[t] = NONE => server[t].st = "none" /\ Silent(t) /\ sess[t] = "none"
    /\ slots[t] = "PENDING_CREATE" =>
          /\ server[t].st \in {"none", "open"}
          /\ ~Sends(up, "ready", t)
          /\ \A e \in {"start", "end", "destroy"} : ~Hears(down, e, t)
          /\ server[t].st = "none" => ~Mentions(down, t) /\ sess[t] = "none"
    /\ server[t].st = "none" =>
          /\ slots[t] \in {NONE, "PENDING_CREATE", "RETIRING"}
          /\ slots[t] = "RETIRING" => ~Mentions(up, t)

\* What travels is no older than the table.
InFlight(t) ==
    /\ Sends(up, "create", t) => slots[t] = "PENDING_CREATE" /\ server[t].st = "none"
    /\ Sends(up, "ready", t) => server[t].st \notin {"ready", "playing"}
    /\ Sends(up, "leave", t) => slots[t] = "RETIRING" /\ marker[t] # NoMarker
    /\ Hears(down, "create", t) =>
          sess[t] = "none" /\ server[t].st # "none" /\ ~Sends(up, "leave", t)
    /\ Hears(down, "destroy", t) => server[t].st = "none" /\ slots[t] = "RETIRING"
    /\ Hears(down, "end", t) => server[t].st \in {"open", "none"} /\ ~Sends(up, "ready", t)

TableOK(t) == OnDisk(t) /\ Managed(t) /\ InFlight(t)

\* What a call finds when its turn comes.
Gone(t) == slots[t] = "RETIRING" /\ server[t].st = "none" /\ Silent(t) /\ sess[t] = "none"

Rested(t) ==
    /\ slots[t] = "ACTIVE" /\ sess[t] # "none" /\ server[t].st = "open"
    /\ ~Sends(up, "ready", t)
    /\ \A e \in {"create", "start", "end", "destroy"} : ~Hears(down, e, t)

Open(t) ==
    /\ sess[t] # "none" /\ server[t].st = "open" /\ active[t] = NoGame
    /\ ~Sends(up, "ready", t) /\ ~Hears(down, "end", t)

Leaves(t) ==
    /\ slots[t] = "RETIRING" /\ sess[t] # "none" /\ server[t].st # "none"
    /\ ~Sends(up, "leave", t)

SlotOK(op) ==
    /\ op.state = "ACTIVE" => /\ slots[op.t] \notin {NONE, "PENDING_CREATE", "RETIRING"}
                              /\ ~Hears(down, "create", op.t)
    /\ op.state = "READY_SENT" => slots[op.t] = "READY_INTENT"
    /\ op.state = NONE => Gone(op.t) /\ marker[op.t] = NoMarker

SendOK(op) ==
    /\ op.command = "create" =>
          /\ slots[op.t] = "PENDING_CREATE" /\ server[op.t].st = "none"
          /\ Silent(op.t) /\ sess[op.t] = "none"
    /\ op.command = "ready" => Open(op.t) /\ slots[op.t] = "READY_INTENT"
    /\ op.command = "leave" => Leaves(op.t) /\ marker[op.t] # NoMarker

RetireOK(op) ==
    /\ sess[op.t] # "none" /\ active[op.t] = NoGame
    /\ op.retry => Leaves(op.t)

PlayOK(op) ==
    /\ slots[op.t] = "ACTIVE" /\ ~Hears(down, "create", op.t)
    /\ op.call = "play" => active[op.t] # NoGame

GameOK(op) ==
    /\ sess[op.t] # "none"
    /\ op.call \in {"package", "record"} => active[op.t] # NoGame
    /\ op.call = "record" => GameOf(op.t) \in DOMAIN evidence

RecoveryOK ==
    \A t \in confirmed : slots[t] = "RETIRING" /\ marker[t] = NoMarker /\ server[t].st = "none"

HeadOK(op) ==
    /\ op.call = "slot" => SlotOK(op)
    /\ op.call = "send" => SendOK(op)
    /\ op.call = "retire" => RetireOK(op)
    /\ op.call = "mark" => Leaves(op.t)
    /\ op.call = "log_leave" => slots[op.t] = "RETIRING" /\ marker[op.t] # NoMarker
    /\ op.call = "ready" => Open(op.t) /\ slots[op.t] \in {"PENDING_CREATE", "ACTIVE"}
    /\ op.call \in {"assign", "play"} => PlayOK(op)
    /\ op.call \in {"package", "record", "withdraw"} => GameOK(op)
    /\ op.call = "after_end" => active[op.t] = NoGame
    /\ op.call = "unlink" => Gone(op.t)
    /\ op.call \in {"confirm", "recover", "restore"} => RecoveryOK

\* What may come after a call.
Follows(a, b) ==
    /\ a.call = "slot" => \/ a.state = "ACTIVE" /\ b.call = "assign" /\ b.t = a.t
                          \/ a.state = NONE /\ b.call = "after_destroy"
    /\ a.call = "send" =>
          \/ a.command = "create" /\ b.call = "fill"
          \/ /\ a.command = "ready" /\ b.call = "slot" /\ b.state = "READY_SENT" /\ b.t = a.t
          \/ a.command = "leave" /\ b.call = "retire_idle"
    /\ a.call = "mark" => b.call = "send" /\ b.command = "leave" /\ b.t = a.t
    /\ a.call \in {"retire", "log_leave"} => b.call = "retire_idle"
    /\ a.call \in {"retire_idle", "fill"} => b.call = "outcome"
    /\ a.call = "assign" => b.call = "play" /\ b.t = a.t
    /\ a.call = "package" => b.call = "record" /\ b.t = a.t
    /\ a.call = "record" => b.call = "withdraw" /\ b.t = a.t
    /\ a.call = "withdraw" => /\ b.call \in {"after_end", "retire"} /\ b.t = a.t
                              /\ b.call = "retire" => ~b.retry
    /\ a.call = "unlink" => b.call = "slot" /\ b.state = NONE /\ b.t = a.t
    /\ a.call = "confirm" => b.call = "recover"
    /\ a.call = "recover" => b.call = "restore"
    /\ a.call = "restore" => b.call = "wait"
    /\ a.call \notin {"ready", "play", "after_end", "after_destroy", "outcome", "wait"}

FlowOf(ops) == \A i \in 1..(Len(ops) - 1) : Follows(ops[i], ops[i + 1])

Flow == FlowOf(todo)

Recovering == {"confirm", "recover", "restore", "wait"}

HeadIsOK == todo # <<>> => HeadOK(todo[1]) /\ (todo[1].call \in Recovering <=> conn = "closed")

EndIsOK == \A i \in DOMAIN todo : todo[i].call = "after_end" => Rested(todo[i].t)

ConnOK ==
    /\ conn = "closed" => down = <<>> /\ \A t \in Tables : sess[t] = "none"
    /\ proc # "running" => conn = "closed" /\ todo = <<>>
    /\ proc \notin {"running", "done"} => confirmed = {}

TablesInv ==
    /\ \A t \in Tables : TableOK(t)
    /\ LineOrder(down) /\ CommandOrder(up)
    /\ Flow /\ HeadIsOK /\ EndIsOK
    /\ ConnOK
    /\ ledger \subseteq DOMAIN evidence
    /\ Cardinality(Occupied) <= Capacity

\* A table nothing happens to stays as it should be, whatever is lost on the way.
LEMMA Calm ==
  ASSUME NEW t, TableOK(t),
         slots'[t] = slots[t], active'[t] = active[t], marker'[t] = marker[t],
         server'[t].st = server[t].st, sess'[t] \in {sess[t], "none"},
         NothingNew(up', up, t), NothingNew(down', down, t)
  PROVE  TableOK(t)'
<1>1. /\ \A e : Hears(down', e, t) => Hears(down, e, t)
      /\ \A c : Sends(up', c, t) => Sends(up, c, t)
      /\ Mentions(up', t) => Mentions(up, t)
      /\ Mentions(down', t) => Mentions(down, t)
  BY NothingNewMeans
<1>2. OnDisk(t)'
  BY DEF TableOK, OnDisk
<1>3. Managed(t)'
  BY <1>1 DEF TableOK, Managed, Silent
<1>4. InFlight(t)'
  BY <1>1 DEF TableOK, InFlight
<1> QED
  BY <1>2, <1>3, <1>4 DEF TableOK

\* What is known of the call whose turn it is.
LEMMA CallIs ==
  ASSUME Types, TablesInv, todo # <<>>
  PROVE  /\ Op \in Ops /\ Op = todo[1] /\ HeadOK(Op) /\ Tail(todo) \in Seq(Ops)
         /\ Op.call \in Recovering <=> conn = "closed"
  BY OpIs DEF TablesInv, HeadIsOK

\* What is lost on the way, or read, is nothing new.
LEMMA Losing ==
  ASSUME Types, NEW t
  PROVE  /\ NothingNew(up, up, t) /\ NothingNew(down, down, t)
         /\ NothingNew(<<>>, down, t)
         /\ up # <<>> => NothingNew(Tail(up), up, t)
         /\ down # <<>> => NothingNew(Tail(down), down, t)
         /\ \A n \in 0..Len(up) : NothingNew(SubSeq(up, 1, n), up, t)
         /\ \A n \in 0..Len(down) : NothingNew(SubSeq(down, 1, n), down, t)
<1>1. up \in Seq(Commands) /\ down \in Seq(Lines)
  BY DEF Types
<1> QED
  BY <1>1, NothingNewIn

LEMMA AllCalm ==
  ASSUME SlotsAssumption, Types, TablesInv,
         UNCHANGED <<slots, active, marker, server>>,
         \A t \in Tables : sess'[t] \in {sess[t], "none"},
         \A t : NothingNew(up', up, t), \A t : NothingNew(down', down, t)
  PROVE  \A t \in Tables : TableOK(t)'
  BY Calm DEF TablesInv

LEMMA StopCalm ==
  ASSUME SlotsAssumption, Types, TablesInv, NEW why, Stop(why)
  PROVE  \A t \in Tables : TableOK(t)'
<1>1. \A t : NothingNew(up', up, t) /\ NothingNew(down', down, t)
  BY Losing DEF Stop, Ends, Hangup
<1>2. \A t \in Tables : sess'[t] \in {sess[t], "none"}
  BY DEF Stop, Ends, Hangup, NoSession
<1> QED
  BY <1>1, <1>2, AllCalm DEF Stop, Ends, disk

\* Each part of the worker, and the server, keeps what is said of the tables.
LEMMA CallsTables ==
  ASSUME SlotsAssumption, Types, TablesInv, Calls
  PROVE  \A t \in Tables : TableOK(t)'
<1>0. /\ todo # <<>> /\ Op \in Ops /\ HeadOK(Op)
      /\ \A t \in Tables : TableOK(t)
      /\ \A t : NothingNew(up, up, t) /\ NothingNew(down, down, t) /\ NothingNew(<<>>, down, t)
      /\ up \in Seq(Commands) /\ down \in Seq(Lines)
  BY CallIs, Losing DEF Calls, Calling, SaveSlot, SendCommand, SendRaises, LogLeave, SaveMarker,
          UnlinkMarker, RetireTable, RetireIdleTables, ReadyTable, CreateNextTable, Outcome,
          WaitForMirrorCapacity, Assign, PlayGame, Package, Record, Withdraw, AfterEnd,
          AfterDestroy, TablesInv, Types
<1>a. ASSUME NEW why, Raise(why) PROVE \A t \in Tables : TableOK(t)'
  BY <1>a, StopCalm DEF Raise
<1>1. CASE SaveSlot
  <2>0. PICK t \in Tables : t = Op.t
    BY <1>0, <1>1, OpFields DEF SaveSlot, Calling
  <2> USE <2>0
  <2>1. SlotOK(Op) /\ Op.state \in {"ACTIVE", "READY_SENT", NONE}
    BY <1>0, <1>1, OpFields DEF SaveSlot, Calling, HeadOK
  <2>2. slots' = [slots EXCEPT ![t] = Op.state] /\ slots \in [Tables -> States \cup {NONE}]
    BY <1>1 DEF SaveSlot, Types
  <2>3. UNCHANGED <<active, marker, server, sess, up, down>>
    BY <1>1 DEF SaveSlot, net
  <2>4. ASSUME NEW u \in Tables \ {t} PROVE TableOK(u)'
    BY <1>0, <2>2, <2>3, Calm
  <2>5. TableOK(t)'
    <3>1. TableOK(t) /\ slots'[t] = Op.state
      BY <1>0, <2>1, <2>2
    <3>2. OnDisk(t)'
      BY <2>1, <2>3, <3>1 DEF TableOK, OnDisk, SlotOK, Gone, NONE
    <3>3. Managed(t)'
      BY <2>1, <2>3, <3>1 DEF TableOK, Managed, SlotOK, Gone, Silent, NONE
    <3>4. InFlight(t)'
      <4>1. Silent(t) => /\ ~Hears(down, "create", t) /\ ~Hears(down, "destroy", t)
                         /\ ~Sends(up, "create", t) /\ ~Sends(up, "leave", t)
        BY MentionMeans DEF Silent
      <4> QED
        BY <2>1, <2>3, <3>1, <4>1 DEF TableOK, InFlight, OnDisk, Managed, SlotOK, Gone, NONE
    <3> QED
      BY <3>2, <3>3, <3>4 DEF TableOK
  <2> QED
    BY <2>4, <2>5
<1>2. CASE SendCommand
  <2>0. PICK t \in Tables : t = Op.t
    BY <1>0, <1>2, OpFields DEF SendCommand, Calling
  <2> USE <2>0
  <2> DEFINE command == [command |-> Op.command, t |-> t]
  <2>1. SendOK(Op) /\ Op.command \in {"create", "ready", "leave"}
    BY <1>0, <1>2, OpFields DEF SendCommand, Calling, HeadOK
  <2>2. command \in Commands /\ command.t = t /\ command.command = Op.command
    BY <2>1 DEF Commands
  <2>3. UNCHANGED <<slots, active, marker, server, sess, down>> /\ up' \in {up, Append(up, command)}
    BY <1>2 DEF SendCommand, disk
  <2> HIDE DEF command
  <2>4. CASE up' = up
    BY <1>0, <2>3, <2>4, Calm
  <2>5. CASE up' = Append(up, command)
    <3>1. ASSUME NEW u \in Tables \ {t} PROVE TableOK(u)'
      <4>1. NothingNew(up', up, u)
        BY <1>0, <2>2, <2>5, NothingNewIn
      <4> QED
        BY <1>0, <2>3, <4>1, Calm
    <3>2. TableOK(t)'
      <4>1. TableOK(t)
        BY <1>0, <2>1
      <4>2. /\ \A c : Sends(up', c, t) => Sends(up, c, t) \/ c = Op.command
        <5>1. up \in Seq(Commands)
          BY DEF Types
        <5>2. \A c : Sends(Append(up, command), c, t) => Sends(up, c, t) \/ c = Op.command
          BY <2>2, <5>1, Appended
        <5> QED
          BY <2>5, <5>2
      <4>3. OnDisk(t)'
        BY <2>3, <4>1 DEF TableOK, OnDisk
      <4>4. Managed(t)'
        BY <2>1, <2>3, <4>1, <4>2 DEF TableOK, Managed, SendOK, Open, Leaves, Silent, NONE
      <4>5. InFlight(t)'
        <5>1. Silent(t) => \A e : ~Hears(down, e, t)
          BY MentionMeans DEF Silent
        <5> QED
          BY <2>1, <2>3, <4>1, <4>2, <5>1 DEF TableOK, InFlight, SendOK, Open, Leaves
      <4> QED
        BY <4>3, <4>4, <4>5 DEF TableOK
    <3> QED
      BY <3>1, <3>2
  <2> QED
    BY <2>3, <2>4, <2>5
<1>3. CASE SendRaises
  BY <1>0, <1>3, AllCalm DEF SendRaises, Hangup, NoSession, disk
<1>4. CASE LogLeave
  <2>0. PICK t \in Tables : t = Op.t
    BY <1>0, <1>4, OpFields DEF LogLeave, Calling
  <2> USE <2>0
  <2>1. slots[t] = "RETIRING" /\ marker[t] # NoMarker
    BY <1>0, <1>4, OpFields DEF LogLeave, Calling, HeadOK
  <2>2. UNCHANGED <<slots, active, server, sess, up, down>>
    BY <1>4 DEF LogLeave, net
  <2>3. /\ \A u \in Tables \ {t} : marker'[u] = marker[u]
        /\ marker'[t].log \in {"left", "ambiguous"} /\ marker'[t].reason = marker[t].reason
    BY <1>4, <2>1 DEF LogLeave, Types, MarkerRecord
  <2>4. ASSUME NEW u \in Tables \ {t} PROVE TableOK(u)'
    BY <1>0, <2>2, <2>3, Calm
  <2>5. TableOK(t)'
    <3>1. TableOK(t) /\ marker'[t] # NoMarker
      BY <1>0, <2>1, <2>3 DEF NoMarker
    <3> QED
      BY <2>1, <2>2, <2>3, <3>1 DEF TableOK, OnDisk, Managed, InFlight, Silent
  <2> QED
    BY <2>4, <2>5
<1>5. CASE SaveMarker
  <2>0. PICK t \in Tables : t = Op.t
    BY <1>0, <1>5, OpFields DEF SaveMarker, Calling
  <2> USE <2>0
  <2>1. Leaves(t) /\ Op.reason \in Reasons
    BY <1>0, <1>5, OpFields DEF SaveMarker, Calling, HeadOK
  <2>2. UNCHANGED <<slots, active, server, sess, up, down>>
    BY <1>5 DEF SaveMarker, net
  <2>3. /\ \A u \in Tables \ {t} : marker'[u] = marker[u]
        /\ marker'[t].log = "nothing" /\ marker'[t].reason = Op.reason
    BY <1>5, <2>1 DEF SaveMarker, Types
  <2>4. ASSUME NEW u \in Tables \ {t} PROVE TableOK(u)'
    BY <1>0, <2>2, <2>3, Calm
  <2>5. TableOK(t)'
    BY <1>0, <2>1, <2>2, <2>3 DEF TableOK, OnDisk, Managed, InFlight, Silent, Leaves
  <2> QED
    BY <2>4, <2>5
<1>6. CASE UnlinkMarker
  <2>0. PICK t \in Tables : t = Op.t
    BY <1>0, <1>6, OpFields DEF UnlinkMarker, Calling
  <2> USE <2>0
  <2>1. Gone(t)
    BY <1>0, <1>6, OpFields DEF UnlinkMarker, Calling, HeadOK
  <2>2. UNCHANGED <<slots, active, server, sess, up, down>>
    BY <1>6 DEF UnlinkMarker, net
  <2>3. (\A u \in Tables \ {t} : marker'[u] = marker[u]) /\ marker'[t] = NoMarker
    BY <1>6, <2>1 DEF UnlinkMarker, Types
  <2>4. ASSUME NEW u \in Tables \ {t} PROVE TableOK(u)'
    BY <1>0, <2>2, <2>3, Calm
  <2>5. TableOK(t)'
    <3>1. ~Sends(up, "leave", t)
      BY <2>1, MentionMeans DEF Gone, Silent
    <3> QED
      BY <1>0, <2>1, <2>2, <2>3, <3>1 DEF TableOK, OnDisk, Managed, InFlight, Silent, Gone
  <2> QED
    BY <2>4, <2>5
<1>7. CASE RetireTable
  <2>0. PICK t \in Tables : t = Op.t
    BY <1>0, <1>7, OpFields DEF RetireTable, Calling
  <2> USE <2>0
  <2>1. RetireOK(Op)
    BY <1>0, <1>7, OpFields DEF RetireTable, Calling, HeadOK
  <2>2. \/ \E why : Raise(why)
        \/ UNCHANGED <<slots, active, marker, server, sess, up, down>>
        \/ /\ slots[t] \notin {NONE, "RETIRING"} /\ slots' = [slots EXCEPT ![t] = "RETIRING"]
           /\ UNCHANGED <<active, marker, server, sess, up, down>>
    BY <1>7 DEF RetireTable, disk, net
  <2>3. CASE UNCHANGED <<slots, active, marker, server, sess, up, down>>
    BY <1>0, <2>3, Calm
  <2>4. CASE /\ slots[t] \notin {NONE, "RETIRING"} /\ slots' = [slots EXCEPT ![t] = "RETIRING"]
             /\ UNCHANGED <<active, marker, server, sess, up, down>>
    <3>1. slots'[t] = "RETIRING" /\ \A u \in Tables \ {t} : slots'[u] = slots[u]
      BY <2>1, <2>4 DEF Types
    <3>2. ASSUME NEW u \in Tables \ {t} PROVE TableOK(u)'
      BY <1>0, <2>4, <3>1, Calm
    <3>3. TableOK(t)'
      BY <1>0, <2>1, <2>4, <3>1 DEF TableOK, OnDisk, Managed, InFlight, Silent, RetireOK, NONE
    <3> QED
      BY <3>2, <3>3
  <2> QED
    BY <1>a, <2>2, <2>3, <2>4
<1>8. CASE RetireIdleTables
  BY <1>0, <1>8, AllCalm DEF RetireIdleTables, disk, net
<1>9. CASE ReadyTable
  <2>0. PICK t \in Tables : t = Op.t
    BY <1>0, <1>9, OpFields DEF ReadyTable, Calling
  <2> USE <2>0
  <2>1. Open(t) /\ slots[t] \in {"PENDING_CREATE", "ACTIVE"}
    BY <1>0, <1>9, OpFields DEF ReadyTable, Calling, HeadOK
  <2>2. UNCHANGED <<active, marker, server, sess, up, down>>
    BY <1>9 DEF ReadyTable, net
  <2>3. slots'[t] = "READY_INTENT" /\ \A u \in Tables \ {t} : slots'[u] = slots[u]
    BY <1>9, <2>1 DEF ReadyTable, Types
  <2>4. ASSUME NEW u \in Tables \ {t} PROVE TableOK(u)'
    BY <1>0, <2>2, <2>3, Calm
  <2>5. TableOK(t)'
    BY <1>0, <2>1, <2>2, <2>3 DEF TableOK, OnDisk, Managed, InFlight, Silent, Open, NONE
  <2> QED
    BY <2>4, <2>5
<1>10. CASE CreateNextTable
  <2>1. UNCHANGED <<active, marker, server, sess, up, down>>
    BY <1>10 DEF CreateNextTable, net
  <2>2. CASE UNCHANGED slots
    BY <1>0, <2>1, <2>2, Calm
  <2>3. CASE \E t \in Tables : Fresh(t) /\ slots' = [slots EXCEPT ![t] = "PENDING_CREATE"]
    <3>1. PICK t \in Tables : Fresh(t) /\ slots' = [slots EXCEPT ![t] = "PENDING_CREATE"]
      BY <2>3
    <3>2. slots'[t] = "PENDING_CREATE" /\ \A u \in Tables \ {t} : slots'[u] = slots[u]
      BY <3>1 DEF Types
    <3>3. ASSUME NEW u \in Tables \ {t} PROVE TableOK(u)'
      BY <1>0, <2>1, <3>2, Calm
    <3>4. TableOK(t)'
      <4>1. ~Mentions(up, t) /\ ~Mentions(down, t)
        BY <3>1 DEF Fresh, Mentions
      <4>2. (\A e : ~Hears(down, e, t)) /\ (\A c : ~Sends(up, c, t))
        BY <4>1, MentionMeans
      <4> QED
        BY <1>0, <2>1, <3>1, <3>2, <4>1, <4>2
           DEF TableOK, OnDisk, Managed, InFlight, Silent, Fresh, NONE
    <3> QED
      BY <3>3, <3>4
  <2> QED
    BY <1>10, <2>2, <2>3 DEF CreateNextTable
<1>11. CASE Outcome
  BY <1>0, <1>11, AllCalm DEF Outcome, Hangup, NoSession, disk
<1>12. CASE WaitForMirrorCapacity
  BY <1>0, <1>12, AllCalm DEF WaitForMirrorCapacity, disk, net
<1>13. CASE Assign
  <2>0. PICK t \in Tables : t = Op.t
    BY <1>0, <1>13, OpFields DEF Assign, Calling
  <2> USE <2>0
  <2>1. slots[t] = "ACTIVE"
    BY <1>0, <1>13, OpFields DEF Assign, Calling, HeadOK, PlayOK
  <2>2. UNCHANGED <<slots, marker, server, sess, up, down>>
    BY <1>13 DEF Assign, net
  <2>3. \A u \in Tables \ {t} : active'[u] = active[u]
    BY <1>13, <2>1 DEF Assign, Types
  <2>4. ASSUME NEW u \in Tables \ {t} PROVE TableOK(u)'
    BY <1>0, <2>2, <2>3, Calm
  <2>5. TableOK(t)'
    BY <1>0, <2>1, <2>2 DEF TableOK, OnDisk, Managed, InFlight, Silent
  <2> QED
    BY <2>4, <2>5
<1>14. CASE PlayGame
  <2>0. PICK t \in Tables : t = Op.t
    BY <1>0, <1>14, OpFields DEF PlayGame, Calling
  <2> USE <2>0
  <2>1. slots[t] = "ACTIVE" /\ ~Hears(down, "create", t)
    BY <1>0, <1>14, OpFields DEF PlayGame, Calling, HeadOK, PlayOK
  <2>2. UNCHANGED <<slots, active, marker, server, up, down>>
    BY <1>14 DEF PlayGame, net, disk
  <2>3. \A u \in Tables \ {t} : sess'[u] = sess[u]
    BY <1>14, <2>1 DEF PlayGame, Types
  <2>4. ASSUME NEW u \in Tables \ {t} PROVE TableOK(u)'
    BY <1>0, <2>2, <2>3, Calm
  <2>5. TableOK(t)'
    BY <1>0, <2>1, <2>2 DEF TableOK, OnDisk, Managed, InFlight, Silent, NONE
  <2> QED
    BY <2>4, <2>5
<1>15. CASE Package
  BY <1>0, <1>15, AllCalm DEF Package, net
<1>16. CASE Record
  BY <1>0, <1>16, AllCalm DEF Record, net
<1>17. CASE Withdraw
  <2>0. PICK t \in Tables : t = Op.t
    BY <1>0, <1>17, OpFields DEF Withdraw, Calling
  <2> USE <2>0
  <2>2. UNCHANGED <<slots, marker, server, sess, up, down>>
    BY <1>17 DEF Withdraw, net
  <2>3. active'[t] = NoGame /\ \A u \in Tables \ {t} : active'[u] = active[u]
    BY <1>17 DEF Withdraw, Types
  <2>4. ASSUME NEW u \in Tables \ {t} PROVE TableOK(u)'
    BY <1>0, <2>2, <2>3, Calm
  <2>5. TableOK(t)'
    BY <1>0, <2>2, <2>3 DEF TableOK, OnDisk, Managed, InFlight, Silent
  <2> QED
    BY <2>4, <2>5
<1>18. CASE AfterEnd
  BY <1>0, <1>18, AllCalm DEF AfterEnd, disk, net
<1>19. CASE AfterDestroy
  BY <1>0, <1>19, AllCalm DEF AfterDestroy, disk, net
<1> QED
  BY <1>1, <1>2, <1>3, <1>4, <1>5, <1>6, <1>7, <1>8, <1>9, <1>10, <1>11, <1>12, <1>13, <1>14,
     <1>15, <1>16, <1>17, <1>18, <1>19 DEF Calls

\* A line that is read, and what may still follow it.
LEMMA LineRead ==
  ASSUME Types, TablesInv, down # <<>>
  PROVE  /\ Line \in Lines /\ Line.t \in Tables
         /\ Hears(down, Line.event, Line.t) /\ Mentions(down, Line.t)
         /\ ~Hears(Tail(down), "create", Line.t)
         /\ Line.event = "destroy" => ~Mentions(Tail(down), Line.t)
         /\ Line.event = "end" =>
               \A e : Hears(Tail(down), e, Line.t) => e \in {"error", "destroy"}
         /\ \A t : NothingNew(Tail(down), down, t)
<1>1. down \in Seq(Lines) /\ LineOrder(down)
  BY DEF Types, TablesInv
<1>2. Line \in Lines /\ Line = Head(down)
  BY LineIs DEF Line
<1>3. Hears(down, Line.event, Line.t) /\ Mentions(down, Line.t)
  BY <1>1, <1>2, HeadMeans
<1>4. /\ ~Hears(Tail(down), "create", Line.t)
      /\ Line.event = "destroy" => ~Mentions(Tail(down), Line.t)
      /\ Line.event = "end" =>
            \A e : Hears(Tail(down), e, Line.t) => e \in {"error", "destroy"}
  BY <1>1, <1>2, OrderMeans
<1> QED
  BY <1>2, <1>3, <1>4, LineFields, Losing

\* A table that is gone has no game on disk.
LEMMA DestroyIsFree ==
  ASSUME SlotsAssumption, Types, TablesInv, OnDestroy
  PROVE  active[Line.t] = NoGame
<1>1. down # <<>> /\ Line.event = "destroy" /\ Line.t \in Tables
  BY LineRead DEF OnDestroy, Reading, Line
<1>2. Hears(down, "destroy", Line.t)
  BY <1>1, LineRead
<1> QED
  BY <1>1, <1>2 DEF TablesInv, TableOK, InFlight, OnDisk

LEMMA HandlersTables ==
  ASSUME SlotsAssumption, Types, TablesInv, Handlers
  PROVE  \A t \in Tables : TableOK(t)'
<1>0. /\ down # <<>> /\ Line.t \in Tables
      /\ \A t \in Tables : TableOK(t)
      /\ \A t : NothingNew(up, up, t) /\ NothingNew(Tail(down), down, t)
  BY LineRead, Losing DEF Handlers, OnCreate, OnStart, OnEnd, OnTableError, OnDestroy, Reading,
                          TablesInv
<1>a. ASSUME NEW why, Raise(why) PROVE \A t \in Tables : TableOK(t)'
  BY <1>a, StopCalm DEF Raise
<1>b. PICK t \in Tables : t = Line.t
  BY <1>0
<1>c. TableOK(t)
  BY <1>0
<1> USE <1>b
<1>d. /\ \A e : Hears(Tail(down), e, t) => Hears(down, e, t)
      /\ Mentions(Tail(down), t) => Mentions(down, t)
  BY <1>0, NothingNewMeans
<1>1. CASE OnCreate
  <2>1. Line.event = "create"
    BY <1>1 DEF OnCreate, Reading, Line
  <2>2. /\ Hears(down, "create", t) /\ Mentions(down, t)
        /\ ~Hears(Tail(down), "create", t)
    BY <1>0, <2>1, LineRead
  <2>3. /\ UNCHANGED <<slots, active, marker, server, up>> /\ down' = Tail(down)
        /\ \A u \in Tables \ {t} : sess'[u] = sess[u]
    BY <1>1 DEF OnCreate, Taken, Types, disk
  <2>4. ASSUME NEW u \in Tables \ {t} PROVE TableOK(u)'
    BY <1>0, <2>3, <2>4, Calm
  <2>5. TableOK(t)'
    BY <1>c, <1>d, <2>2, <2>3 DEF TableOK, OnDisk, Managed, InFlight, Silent, NONE
  <2> QED
    BY <2>4, <2>5
<1>2. CASE OnStart
  <2>1. (\E why : Raise(why)) \/ (UNCHANGED <<slots, active, marker, server, sess, up>> /\ Taken)
    BY <1>2 DEF OnStart, disk
  <2>2. CASE UNCHANGED <<slots, active, marker, server, sess, up>> /\ Taken
    BY <1>0, <2>2, AllCalm DEF Taken
  <2> QED
    BY <1>a, <2>1, <2>2
<1>3. CASE OnEnd
  <2>1. Line.event = "end"
    BY <1>3 DEF OnEnd, Reading, Line
  <2>2. /\ Hears(down, "end", t) /\ Mentions(down, t) /\ ~Hears(Tail(down), "create", t)
    BY <1>0, <2>1, LineRead
  <2>3. \/ \E why : Raise(why)
        \/ /\ UNCHANGED <<slots, active, marker, server, up>> /\ down' = Tail(down)
           /\ \A u \in Tables \ {t} : sess'[u] = sess[u]
    BY <1>3 DEF OnEnd, Taken, Types, disk
  <2>4. CASE /\ UNCHANGED <<slots, active, marker, server, up>> /\ down' = Tail(down)
             /\ \A u \in Tables \ {t} : sess'[u] = sess[u]
    <3>1. ASSUME NEW u \in Tables \ {t} PROVE TableOK(u)'
      BY <1>0, <2>4, Calm
    <3>2. TableOK(t)'
      BY <1>c, <1>d, <2>2, <2>4 DEF TableOK, OnDisk, Managed, InFlight, Silent, NONE
    <3> QED
      BY <3>1, <3>2
  <2> QED
    BY <1>a, <2>3, <2>4
<1>4. CASE OnTableError
  <2>2. Mentions(down, t) /\ ~Hears(Tail(down), "create", t)
    BY <1>0, LineRead
  <2>3. /\ UNCHANGED <<slots, active, marker, server, up>> /\ down' = Tail(down)
        /\ \A u \in Tables \ {t} : sess'[u] = sess[u]
    BY <1>4 DEF OnTableError, Taken, Types, disk
  <2>4. ASSUME NEW u \in Tables \ {t} PROVE TableOK(u)'
    BY <1>0, <2>3, <2>4, Calm
  <2>5. TableOK(t)'
    BY <1>c, <1>d, <2>2, <2>3 DEF TableOK, OnDisk, Managed, InFlight, Silent, NONE
  <2> QED
    BY <2>4, <2>5
<1>5. CASE OnDestroy
  <2>1. Line.event = "destroy"
    BY <1>5 DEF OnDestroy, Reading, Line
  <2>2. Hears(down, "destroy", t) /\ ~Mentions(Tail(down), t)
    BY <1>0, <2>1, LineRead
  <2>3. CASE active[t] = NoGame
    <3>1. /\ UNCHANGED <<slots, active, server, up>> /\ down' = Tail(down)
          /\ sess'[t] = "none"
          /\ \A u \in Tables \ {t} : sess'[u] = sess[u] /\ marker'[u] = marker[u]
      BY <1>5, <2>3 DEF OnDestroy, Taken, Types
    <3>2. /\ marker[t] = NoMarker => marker'[t] = NoMarker
          /\ marker[t] # NoMarker => /\ marker'[t].reason = marker[t].reason
                                     /\ marker'[t].log \in {"confirmed", "ambiguous"}
      <4>1. marker[t] = NoMarker => marker' = marker
        BY <1>5, <2>3 DEF OnDestroy
      <4>2. marker[t] # NoMarker =>
               marker' = [marker EXCEPT ![t].log = IF @ = "left" THEN "confirmed" ELSE "ambiguous"]
        BY <1>5, <2>3 DEF OnDestroy
      <4>3. marker \in [Tables -> MarkerRecord]
        BY DEF Types
      <4> QED
        BY <4>1, <4>2, <4>3 DEF MarkerRecord
    <3>3. ASSUME NEW u \in Tables \ {t} PROVE TableOK(u)'
      BY <1>0, <3>1, Calm
    <3>4. TableOK(t)'
      <4>1. server[t].st = "none" /\ slots[t] = "RETIRING" /\ NoMarker.log = "nothing"
        BY <1>c, <2>2 DEF TableOK, InFlight, NoMarker
      <4>2. marker[t] # NoMarker => marker'[t] # NoMarker
        BY <3>2 DEF NoMarker
      <4>3. OnDisk(t)'
        BY <1>c, <3>1, <3>2, <4>1, <4>2 DEF TableOK, OnDisk
      <4>4. Managed(t)' /\ InFlight(t)'
        BY <1>c, <1>d, <2>2, <3>1, <4>1, <4>2 DEF TableOK, Managed, InFlight, Silent, NONE
      <4> QED
        BY <4>3, <4>4 DEF TableOK
    <3> QED
      BY <3>3, <3>4
  <2> QED
    BY <1>5, <2>3, DestroyIsFree
<1> QED
  BY <1>1, <1>2, <1>3, <1>4, <1>5 DEF Handlers

\* Each line of a replay tells of a table the server has.
LEMMA ReplayMeans ==
  ASSUME SlotsAssumption, Types, NEW lines \in [1..Cardinality(Replay) -> Replay], Replays(lines)
  PROVE  /\ LineOrder(lines)
         /\ \A i \in DOMAIN lines :
               \/ lines[i].event = "create" /\ server[lines[i].t].st # "none"
               \/ /\ lines[i].event = "start" /\ server[lines[i].t].st = "playing"
                  /\ lines[i].n = server[lines[i].t].n /\ Hears(lines, "create", lines[i].t)
<1>1. /\ Cardinality(Replay) \in Nat /\ DOMAIN lines = 1..Cardinality(Replay)
      /\ \A i \in DOMAIN lines : lines[i] \in Replay
  BY ReplayIs
<1>2. ASSUME NEW i \in DOMAIN lines
      PROVE  \/ /\ lines[i].event = "create" /\ server[lines[i].t].st # "none"
                /\ lines[i] = [event |-> "create", t |-> lines[i].t]
             \/ /\ lines[i].event = "start" /\ server[lines[i].t].st = "playing"
                /\ lines[i] = [event |-> "start", t |-> lines[i].t, n |-> lines[i].n]
                /\ lines[i].n = server[lines[i].t].n
  BY <1>1 DEF Replay
<1>3. ASSUME NEW i \in DOMAIN lines, lines[i].event = "start"
      PROVE  i > 1 /\ i - 1 \in DOMAIN lines
             /\ lines[i - 1] = [event |-> "create", t |-> lines[i].t]
  BY <1>1, <1>3 DEF Replays
<1>4. ASSUME NEW i \in DOMAIN lines, lines[i].event = "start"
      PROVE  Hears(lines, "create", lines[i].t)
  <2>1. i - 1 \in DOMAIN lines /\ lines[i - 1] = [event |-> "create", t |-> lines[i].t]
    BY <1>3, <1>4
  <2>2. lines[i - 1].event = "create" /\ lines[i - 1].t = lines[i].t
    BY <2>1
  <2> QED
    BY <2>1, <2>2 DEF Hears
<1>5. ASSUME NEW i \in DOMAIN lines, NEW j \in DOMAIN lines, i < j, lines[i].t = lines[j].t
      PROVE  lines[j].event # "create"
  <2>1. SUFFICES ASSUME lines[j].event = "create" PROVE FALSE
    OBVIOUS
  <2>2. CASE lines[i].event = "create"
    <3>1. lines[i] = lines[j]
      BY <1>2, <1>5, <2>1, <2>2
    <3> QED
      BY <1>1, <1>5, <3>1 DEF Replays
  <2>3. CASE lines[i].event = "start"
    <3>1. lines[i - 1] = lines[j] /\ i - 1 \in DOMAIN lines
      BY <1>2, <1>3, <1>5, <2>1, <2>3
    <3>2. i - 1 = j
      BY <3>1 DEF Replays
    <3> QED
      BY <1>1, <1>5, <3>2
  <2> QED
    BY <1>2, <2>2, <2>3
<1>6. LineOrder(lines)
  BY <1>2, <1>5 DEF LineOrder
<1> QED
  BY <1>2, <1>4, <1>6

LEMMA SessionTables ==
  ASSUME SlotsAssumption, Types, TablesInv, Session
  PROVE  \A t \in Tables : TableOK(t)'
<1>0. /\ \A t \in Tables : TableOK(t)
      /\ \A t : NothingNew(up, up, t) /\ NothingNew(down, down, t) /\ NothingNew(<<>>, down, t)
  BY Losing DEF TablesInv
<1>a. ASSUME NEW why, Raise(why) PROVE \A t \in Tables : TableOK(t)'
  BY <1>a, StopCalm DEF Raise
<1>1. CASE Connect
  <2>1. UNCHANGED <<slots, active, marker, server, sess, up>> /\ up = <<>> /\ conn = "closed"
    BY <1>1 DEF Connect, disk
  <2>2. PICK lines \in [1..Cardinality(Replay) -> Replay] : Replays(lines) /\ down' = lines
    BY <1>1 DEF Connect
  <2>3. ASSUME NEW t \in Tables PROVE TableOK(t)'
    <3>1. sess[t] = "none" /\ ~Mentions(up, t) /\ \A c : ~Sends(up, c, t)
      BY <2>1, EmptyMeans, MentionMeans DEF TablesInv, ConnOK
    <3>2. /\ \A e : Hears(down', e, t) => /\ e \in {"create", "start"} /\ server[t].st # "none"
                                          /\ e = "start" => server[t].st = "playing"
          /\ Mentions(down', t) => server[t].st # "none"
      <4>1. \A i \in DOMAIN lines :
               \/ lines[i].event = "create" /\ server[lines[i].t].st # "none"
               \/ lines[i].event = "start" /\ server[lines[i].t].st = "playing"
        BY <2>2, ReplayMeans
      <4> QED
        BY <2>2, <4>1 DEF Hears, Mentions
    <3>3. TableOK(t)
      BY <1>0
    <3>4. OnDisk(t)'
      BY <2>1, <3>3 DEF TableOK, OnDisk
    <3>5. Managed(t)' /\ InFlight(t)'
      BY <2>1, <3>1, <3>2, <3>3 DEF TableOK, Managed, InFlight, Silent
    <3> QED
      BY <3>4, <3>5 DEF TableOK
  <2> QED
    BY <2>3
<1>2. CASE ReadRaises
  BY <1>0, <1>2, AllCalm DEF ReadRaises, Hangup, NoSession, disk
<1>3. CASE Restart
  BY <1>0, <1>3, AllCalm DEF Restart, disk, net
<1>4. CASE Confirm
  <2>1. UNCHANGED <<slots, active, server, sess, up, down>>
    BY <1>4 DEF Confirm, net
  <2>2. CASE UNCHANGED marker
    BY <1>0, <2>1, <2>2, AllCalm
  <2>3. CASE \E t \in Holding : marker[t].log = "confirmed"
                                /\ marker' = [marker EXCEPT ![t] = NoMarker]
    <3>1. PICK t \in Tables : /\ marker[t] # NoMarker /\ marker[t].log = "confirmed"
                              /\ marker' = [marker EXCEPT ![t] = NoMarker]
      BY <2>3 DEF Holding
    <3>2. (\A u \in Tables \ {t} : marker'[u] = marker[u]) /\ marker'[t] = NoMarker
      BY <3>1 DEF Types
    <3>3. ASSUME NEW u \in Tables \ {t} PROVE TableOK(u)'
      BY <1>0, <2>1, <3>2, Calm
    <3>4. TableOK(t)'
      <4>1. TableOK(t) /\ server[t].st = "none" /\ slots[t] = "RETIRING"
        BY <1>0, <3>1 DEF TableOK, OnDisk
      <4>2. ~Mentions(up, t) /\ ~Sends(up, "leave", t)
        BY <4>1, MentionMeans DEF TableOK, Managed
      <4> QED
        BY <2>1, <3>2, <4>1, <4>2 DEF TableOK, OnDisk, Managed, InFlight, Silent, NoMarker
    <3> QED
      BY <3>3, <3>4
  <2> QED
    BY <1>4, <2>2, <2>3 DEF Confirm
<1>5. CASE Recover
  <2>1. \/ \E why : Raise(why)
        \/ /\ UNCHANGED <<slots, marker, server, sess, up, down>>
           /\ \A t \in Tables : active'[t] \in {active[t], NoGame}
    BY <1>5 DEF Recover, flags, net
  <2>2. CASE /\ UNCHANGED <<slots, marker, server, sess, up, down>>
             /\ \A t \in Tables : active'[t] \in {active[t], NoGame}
    <3>1. ASSUME NEW t \in Tables PROVE TableOK(t)'
      BY <1>0, <2>2 DEF TableOK, OnDisk, Managed, InFlight, Silent
    <3> QED
      BY <3>1
  <2> QED
    BY <1>a, <2>1, <2>2
<1>6. CASE Restore
  <2>1. \/ \E why : Raise(why)
        \/ /\ UNCHANGED <<active, marker, server, sess, up, down>>
           /\ slots' = [t \in Tables |-> IF t \in Running THEN "ACTIVE" ELSE
                                         IF t \in confirmed THEN NONE ELSE slots[t]]
    BY <1>6 DEF Restore, flags, net
  <2>2. CASE /\ UNCHANGED <<active, marker, server, sess, up, down>>
             /\ slots' = [t \in Tables |-> IF t \in Running THEN "ACTIVE" ELSE
                                           IF t \in confirmed THEN NONE ELSE slots[t]]
    <3>1. RecoveryOK /\ conn = "closed" /\ down = <<>> /\ \A t \in Tables : sess[t] = "none"
      BY <1>6, CallIs DEF Restore, Calling, HeadOK, Recovering, TablesInv, ConnOK
    <3>2. ASSUME NEW t \in Tables \ confirmed PROVE TableOK(t)'
      <4>1. TableOK(t)
        BY <1>0
      <4>2. slots'[t] = slots[t]
        BY <2>2, <4>1 DEF TableOK, OnDisk, Running
      <4> QED
        BY <1>0, <2>2, <4>1, <4>2, Calm
    <3>3. ASSUME NEW t \in Tables, t \in confirmed PROVE TableOK(t)'
      <4>1. /\ TableOK(t) /\ slots[t] = "RETIRING" /\ marker[t] = NoMarker
            /\ server[t].st = "none" /\ sess[t] = "none"
        BY <1>0, <3>1, <3>3 DEF RecoveryOK
      <4>2. slots'[t] = NONE
        BY <2>2, <3>3, <4>1 DEF TableOK, OnDisk, Running
      <4>3. Silent(t)
        BY <3>1, <4>1, EmptyMeans DEF TableOK, Managed, Silent
      <4>4. (\A e : ~Hears(down, e, t)) /\ \A c : ~Sends(up, c, t)
        BY <4>3, MentionMeans DEF Silent
      <4>5. active[t] = NoGame
        BY <4>1 DEF TableOK, OnDisk
      <4> QED
        BY <2>2, <4>1, <4>2, <4>3, <4>4, <4>5
           DEF TableOK, OnDisk, Managed, InFlight, Silent, NONE
    <3> QED
      BY <3>2, <3>3
  <2> QED
    BY <1>a, <2>1, <2>2
<1> QED
  BY <1>1, <1>2, <1>3, <1>4, <1>5, <1>6 DEF Session, Recovery

\* What a table may hear after the server told it something.
LEMMA Told ==
  ASSUME Types, NEW line \in Lines, Tell(line)
  PROVE  /\ \A t : line.t # t => NothingNew(down', down, t)
         /\ \A t, e : Hears(down', e, t) => Hears(down, e, t) \/ (line.event = e /\ line.t = t)
         /\ \A t : Mentions(down', t) => Mentions(down, t) \/ line.t = t
         /\ conn # "up" => down' = down
         /\ \/ conn = "up" /\ down' = Append(down, line)
            \/ conn # "up" /\ down' = down
<1>1. down \in Seq(Lines)
  BY DEF Types
<1>2. CASE conn # "up"
  BY <1>1, <1>2, NothingNewIn DEF Tell
<1>3. CASE conn = "up"
  <2>1. down' = Append(down, line)
    BY <1>3 DEF Tell
  <2>2. \A t : line.t # t => NothingNew(down', down, t)
    BY <1>1, <2>1, NothingNewIn
  <2>3. ASSUME NEW t PROVE /\ \A e : Hears(down', e, t) => Hears(down, e, t) \/ (line.event = e /\ line.t = t)
                           /\ Mentions(down', t) => Mentions(down, t) \/ line.t = t
    BY <1>1, <2>1, Appended
  <2> QED
    BY <1>3, <2>1, <2>2, <2>3
<1> QED
  BY <1>2, <1>3

\* A command the server takes, and what may still follow it.
LEMMA CommandTaken ==
  ASSUME Types, TablesInv, up # <<>>
  PROVE  /\ Head(up) \in Commands /\ Head(up).t \in Tables
         /\ Sends(up, Head(up).command, Head(up).t) /\ Mentions(up, Head(up).t)
         /\ ~Sends(Tail(up), "create", Head(up).t)
         /\ Head(up).command = "leave" => ~Mentions(Tail(up), Head(up).t)
         /\ Head(up).command = "ready" => ~Sends(Tail(up), "ready", Head(up).t)
         /\ \A t : NothingNew(Tail(up), up, t)
<1>1. up \in Seq(Commands) /\ CommandOrder(up)
  BY DEF Types, TablesInv
<1>2. Head(up) \in Commands
  BY <1>1, TailIs
<1>3. Sends(up, Head(up).command, Head(up).t) /\ Mentions(up, Head(up).t)
  BY <1>1, HeadMeans
<1>4. /\ ~Sends(Tail(up), "create", Head(up).t)
      /\ Head(up).command = "leave" => ~Mentions(Tail(up), Head(up).t)
      /\ Head(up).command = "ready" => ~Sends(Tail(up), "ready", Head(up).t)
  BY <1>1, OrderMeans
<1> QED
  BY <1>2, <1>3, <1>4, CommandFields, Losing

\* One line from the server about a table, whose state there changes.
LEMMA TakesTables ==
  ASSUME SlotsAssumption, Types, TablesInv, ServerTakes
  PROVE  \A t \in Tables : TableOK(t)'
<1>1. PICK t \in Tables : t = Head(up).t
  BY CommandTaken DEF ServerTakes
<1>2. /\ UNCHANGED <<slots, active, marker, sess>> /\ up' = Tail(up) /\ up # <<>>
  BY DEF ServerTakes, disk
<1>3. PICK c \in {"create", "ready", "leave"} : c = Head(up).command
  BY <1>2, CommandTaken, CommandFields
<1>4. /\ Sends(up, c, t) /\ Mentions(up, t)
      /\ ~Sends(up', "create", t)
      /\ c = "leave" => ~Mentions(up', t)
      /\ c = "ready" => ~Sends(up', "ready", t)
      /\ \A u : NothingNew(up', up, u)
  BY <1>1, <1>2, <1>3, CommandTaken
<1>5. /\ \A d : Sends(up', d, t) => Sends(up, d, t)
      /\ Mentions(up', t) => Mentions(up, t)
  BY <1>4, NothingNewMeans
<1>6. [event |-> "create", t |-> t] \in Lines /\ [event |-> "destroy", t |-> t] \in Lines
  BY LinesMade
<1>7. TableOK(t) /\ \A u \in Tables : TableOK(u) /\ NothingNew(down, down, u)
  BY Losing DEF TablesInv
<1>8. server \in [Tables -> ServerRecord]
  BY DEF Types
<1>9. CASE c = "create" /\ server[t].st = "none"
           /\ Table(t, "open") /\ Tell([event |-> "create", t |-> t])
  <2>1. server'[t].st = "open" /\ \A u \in Tables \ {t} : server'[u] = server[u]
    BY <1>8, <1>9 DEF Table, ServerRecord
  <2> DEFINE line == [event |-> "create", t |-> t]
  <2>2. line \in Lines /\ line.t = t /\ line.event = "create" /\ Tell(line)
    BY <1>6, <1>9
  <2> HIDE DEF line
  <2>3. ASSUME NEW u \in Tables \ {t} PROVE TableOK(u)'
    BY <1>2, <1>4, <1>7, <2>1, <2>2, <2>3, Calm, Told
  <2>4. TableOK(t)'
    <3>1. /\ \A e : Hears(down', e, t) => Hears(down, e, t) \/ e = "create"
      BY <2>2, Told
    <3>2. slots[t] = "PENDING_CREATE" /\ ~Mentions(down, t) /\ sess[t] = "none"
          /\ ~Sends(up, "leave", t) /\ ~Sends(up, "ready", t)
      BY <1>3, <1>4, <1>7, <1>9 DEF TableOK, InFlight, Managed
    <3>3. \A e : Hears(down', e, t) => e = "create"
      BY <3>1, <3>2, MentionMeans
    <3> QED
      BY <1>2, <1>4, <1>5, <1>7, <2>1, <3>2, <3>3
         DEF TableOK, OnDisk, Managed, InFlight, Silent, NONE, NoMarker
  <2> QED
    BY <2>3, <2>4
<1>10. CASE c = "ready" /\ server[t].st = "open" /\ Table(t, "ready") /\ UNCHANGED down
  <2>1. server'[t].st = "ready" /\ \A u \in Tables \ {t} : server'[u] = server[u]
    BY <1>8, <1>10 DEF Table, ServerRecord
  <2>2. ASSUME NEW u \in Tables \ {t} PROVE TableOK(u)'
    BY <1>2, <1>4, <1>7, <1>10, <2>1, Calm
  <2>3. TableOK(t)'
    BY <1>2, <1>4, <1>5, <1>7, <1>10, <2>1 DEF TableOK, OnDisk, Managed, InFlight, Silent
  <2> QED
    BY <2>2, <2>3
<1>11. CASE c = "leave" /\ server[t].st # "none"
            /\ Table(t, "none") /\ Tell([event |-> "destroy", t |-> t])
  <2>1. server'[t].st = "none" /\ \A u \in Tables \ {t} : server'[u] = server[u]
    BY <1>8, <1>11 DEF Table, ServerRecord
  <2> DEFINE line == [event |-> "destroy", t |-> t]
  <2>2. line \in Lines /\ line.t = t /\ line.event = "destroy" /\ Tell(line)
    BY <1>6, <1>11
  <2> HIDE DEF line
  <2>3. ASSUME NEW u \in Tables \ {t} PROVE TableOK(u)'
    BY <1>2, <1>4, <1>7, <2>1, <2>2, <2>3, Calm, Told
  <2>4. TableOK(t)'
    <3>1. \A e : Hears(down', e, t) => Hears(down, e, t) \/ e = "destroy"
      BY <2>2, Told
    <3>2. slots[t] = "RETIRING" /\ marker[t] # NoMarker /\ ~Hears(down, "create", t)
      BY <1>3, <1>4, <1>7, <1>11 DEF TableOK, InFlight
    <3>3. ~Mentions(up', t) /\ \A d : ~Sends(up', d, t)
      BY <1>4, <1>11, MentionMeans
    <3> QED
      BY <1>2, <1>7, <2>1, <3>1, <3>2, <3>3
         DEF TableOK, OnDisk, Managed, InFlight, Silent, NONE
  <2> QED
    BY <2>3, <2>4
<1>12. CASE UNCHANGED <<server, down>>
  BY <1>2, <1>4, <1>7, <1>12, Calm
<1>13. \/ c = "create" /\ server[t].st = "none"
          /\ Table(t, "open") /\ Tell([event |-> "create", t |-> t])
       \/ c = "ready" /\ server[t].st = "open" /\ Table(t, "ready") /\ UNCHANGED down
       \/ c = "leave" /\ server[t].st # "none"
          /\ Table(t, "none") /\ Tell([event |-> "destroy", t |-> t])
       \/ UNCHANGED <<server, down>>
  BY <1>1, <1>3 DEF ServerTakes
<1> QED
  BY <1>9, <1>10, <1>11, <1>12, <1>13

LEMMA OtherTables ==
  ASSUME SlotsAssumption, Types, TablesInv, Breakage \/ Server
  PROVE  \A t \in Tables : TableOK(t)'
<1>0. /\ \A t \in Tables : TableOK(t)
      /\ \A t : NothingNew(up, up, t) /\ NothingNew(down, down, t)
      /\ server \in [Tables -> ServerRecord]
  BY Losing DEF TablesInv, Types
<1>1. CASE Break
  <2>1. \A t : NothingNew(up', up, t) /\ NothingNew(down', down, t)
    BY <1>1, Losing DEF Break
  <2> QED
    BY <1>1, <2>1, AllCalm DEF Break, disk
<1>2. CASE Die
  BY <1>2, StopCalm DEF Die
<1>3. CASE ServerTakes
  BY <1>3, TakesTables
<1>4. ASSUME NEW t \in Tables, StartGame(t) PROVE \A u \in Tables : TableOK(u)'
  <2> DEFINE line == [event |-> "start", t |-> t, n |-> server[t].n + 1]
  <2>1. line \in Lines /\ line.t = t /\ line.event = "start" /\ Tell(line)
    <3>1. server[t].n + 1 \in 1..MaxGames
      BY <1>4 DEF StartGame, Types, ServerRecord, SlotsAssumption
    <3> QED
      BY <1>4, <3>1, LinesMade DEF StartGame
  <2> HIDE DEF line
  <2>2. /\ UNCHANGED <<slots, active, marker, sess, up>> /\ server[t].st = "ready"
        /\ server'[t].st = "playing" /\ \A u \in Tables \ {t} : server'[u] = server[u]
    BY <1>0, <1>4 DEF StartGame, disk
  <2>3. ASSUME NEW u \in Tables \ {t} PROVE TableOK(u)'
    BY <1>0, <2>1, <2>2, Calm, Told
  <2>4. TableOK(t)'
    <3>1. \A e : Hears(down', e, t) => Hears(down, e, t) \/ e = "start"
      BY <2>1, Told
    <3> QED
      BY <1>0, <2>2, <3>1 DEF TableOK, OnDisk, Managed, InFlight, Silent
  <2> QED
    BY <2>3, <2>4
<1>5. ASSUME NEW t \in Tables, EndGame(t) PROVE \A u \in Tables : TableOK(u)'
  <2> DEFINE line == [event |-> "end", t |-> t]
  <2>1. line \in Lines /\ line.t = t /\ line.event = "end" /\ Tell(line)
    BY <1>5, LinesMade DEF EndGame
  <2> HIDE DEF line
  <2>2. /\ UNCHANGED <<slots, active, marker, sess, up>> /\ server[t].st = "playing"
        /\ server'[t].st = "open" /\ \A u \in Tables \ {t} : server'[u] = server[u]
    BY <1>0, <1>5 DEF EndGame, Table, ServerRecord, disk
  <2>3. ASSUME NEW u \in Tables \ {t} PROVE TableOK(u)'
    BY <1>0, <2>1, <2>2, Calm, Told
  <2>4. TableOK(t)'
    <3>1. \A e : Hears(down', e, t) => Hears(down, e, t) \/ e = "end"
      BY <2>1, Told
    <3> QED
      BY <1>0, <2>2, <3>1 DEF TableOK, OnDisk, Managed, InFlight, Silent
  <2> QED
    BY <2>3, <2>4
<1>6. ASSUME NEW t \in Tables, Refuse(t) PROVE \A u \in Tables : TableOK(u)'
  <2> DEFINE line == [event |-> "error", t |-> t]
  <2>1. line \in Lines /\ line.t = t /\ line.event = "error" /\ Tell(line)
    BY <1>6, LinesMade DEF Refuse
  <2> HIDE DEF line
  <2>2. UNCHANGED <<slots, active, marker, sess, up, server>> /\ server[t].st # "none"
    BY <1>6 DEF Refuse, disk
  <2>3. ASSUME NEW u \in Tables \ {t} PROVE TableOK(u)'
    BY <1>0, <2>1, <2>2, Calm, Told
  <2>4. TableOK(t)'
    <3>1. \A e : Hears(down', e, t) => Hears(down, e, t) \/ e = "error"
      BY <2>1, Told
    <3> QED
      BY <1>0, <2>2, <3>1 DEF TableOK, OnDisk, Managed, InFlight, Silent
  <2> QED
    BY <2>3, <2>4
<1> QED
  BY <1>1, <1>2, <1>3, <1>4, <1>5, <1>6 DEF Breakage, Server

LEMMA TablesKept ==
  ASSUME SlotsAssumption, Types, TablesInv, [Next]_vars
  PROVE  \A t \in Tables : TableOK(t)'
<1>1. CASE UNCHANGED vars
  BY <1>1, AllCalm, Losing DEF vars, disk, flags, net
<1> QED
  BY <1>1, CallsTables, HandlersTables, SessionTables, OtherTables DEF Next

----------------------------------------------------------------------------
(* The order of what travels.                                              *)

LEMMA OrdersStop ==
  ASSUME Types, TablesInv, NEW why, Stop(why)
  PROVE  LineOrder(down') /\ CommandOrder(up')
<1>1. /\ up \in Seq(Commands) /\ down \in Seq(Lines) /\ LineOrder(down) /\ CommandOrder(up)
  BY DEF Types, TablesInv
<1>2. \A n \in 0..Len(up) : CommandOrder(SubSeq(up, 1, n))
  BY <1>1, OrderIn
<1>3. LineOrder(<<>>)
  BY <1>1, OrderIn
<1> QED
  BY <1>2, <1>3 DEF Stop, Ends, Hangup

\* Every step keeps both orders.
LEMMA OrdersKept ==
  ASSUME SlotsAssumption, Types, TablesInv, [Next]_vars
  PROVE  LineOrder(down') /\ CommandOrder(up')
<1>0. /\ up \in Seq(Commands) /\ down \in Seq(Lines) /\ LineOrder(down) /\ CommandOrder(up)
      /\ \A t \in Tables : TableOK(t)
      /\ server \in [Tables -> ServerRecord]
  BY DEF Types, TablesInv
<1>a. /\ LineOrder(<<>>)
      /\ down # <<>> => LineOrder(Tail(down))
      /\ up # <<>> => CommandOrder(Tail(up))
      /\ \A n \in 0..Len(up) : CommandOrder(SubSeq(up, 1, n))
      /\ \A n \in 0..Len(down) : LineOrder(SubSeq(down, 1, n))
  BY <1>0, OrderIn
<1>b. ASSUME NEW why, Raise(why) PROVE LineOrder(down') /\ CommandOrder(up')
  BY <1>b, OrdersStop DEF Raise
<1>1. CASE UNCHANGED vars
  BY <1>0, <1>1 DEF vars, net
<1>2. CASE Calls
  <2>1. CASE SendCommand
    <3>1. todo # <<>> /\ Op.call = "send" /\ Op \in Ops /\ SendOK(Op)
      BY <2>1, CallIs DEF SendCommand, Calling, HeadOK
    <3>2. Op.t \in Tables /\ Op.command \in {"create", "ready", "leave"}
      BY <3>1, OpFields
    <3> DEFINE command == [command |-> Op.command, t |-> Op.t]
    <3>3. command \in Commands /\ command.t = Op.t /\ command.command = Op.command
      BY <3>2 DEF Commands
    <3>4. down' = down /\ up' \in {up, Append(up, command)}
      BY <2>1 DEF SendCommand
    <3> HIDE DEF command
    <3>5. ~Sends(up, "leave", Op.t)
      BY <1>0, <3>1, <3>2, MentionMeans DEF SendOK, Open, Leaves, Silent, TableOK, InFlight
    <3>6. Op.command = "create" => ~Mentions(up, Op.t)
      BY <3>1 DEF SendOK, Silent
    <3>7. Op.command = "ready" => ~Sends(up, "ready", Op.t)
      BY <3>1 DEF SendOK, Open
    <3>8. CommandOrder(Append(up, command))
      BY <1>0, <3>3, <3>5, <3>6, <3>7, CommandAppended
    <3> QED
      BY <1>0, <3>4, <3>8
  <2>2. CASE ~SendCommand
    <3>1. (\E why : Raise(why)) \/ (up' = up /\ down' \in {down, <<>>})
      BY <1>2, <2>2 DEF Calls, SaveSlot, SendRaises, LogLeave, SaveMarker, UnlinkMarker,
            RetireTable, RetireIdleTables, ReadyTable, CreateNextTable, Outcome,
            WaitForMirrorCapacity, Assign, PlayGame, Package, Record, Withdraw, AfterEnd,
            AfterDestroy, Hangup, net
    <3> QED
      BY <1>0, <1>a, <1>b, <3>1
  <2> QED
    BY <2>1, <2>2
<1>3. CASE Handlers
  <2>1. (\E why : Raise(why)) \/ (up' = up /\ down # <<>> /\ down' = Tail(down))
    BY <1>3, DestroyIsFree
       DEF Handlers, OnCreate, OnStart, OnEnd, OnTableError, OnDestroy, Reading, Taken
  <2> QED
    BY <1>0, <1>a, <1>b, <2>1
<1>4. CASE Session
  <2>1. CASE Connect
    <3>1. \E lines \in [1..Cardinality(Replay) -> Replay] : Replays(lines) /\ down' = lines
      BY <2>1 DEF Connect
    <3>2. LineOrder(down')
      BY <3>1, ReplayMeans
    <3> QED
      BY <1>0, <2>1, <3>2 DEF Connect
  <2>2. CASE ~Connect
    <3>1. (\E why : Raise(why)) \/ (up' = up /\ down' \in {down, <<>>})
      BY <1>4, <2>2 DEF Session, Recovery, ReadRaises, Restart, Confirm, Recover, Restore, Hangup, net
    <3> QED
      BY <1>0, <1>a, <1>b, <3>1
  <2> QED
    BY <2>1, <2>2
<1>5. CASE Breakage
  <2>1. CASE Break
    BY <1>a, <2>1 DEF Break
  <2>2. CASE Die
    BY <2>2, OrdersStop DEF Die
  <2> QED
    BY <1>5, <2>1, <2>2 DEF Breakage
<1>6. ASSUME NEW line \in Lines, Tell(line),
             ~Hears(down, "destroy", line.t),
             line.event = "create" => ~Mentions(down, line.t),
             line.event \notin {"error", "destroy"} => ~Hears(down, "end", line.t)
      PROVE  LineOrder(down')
  <2>1. LineOrder(Append(down, line))
    BY <1>0, <1>6, LineAppended
  <2> QED
    BY <1>0, <1>6, <2>1, Told
<1>7. CASE ServerTakes
  <2>1. PICK t \in Tables : t = Head(up).t
    BY <1>7, CommandTaken DEF ServerTakes
  <2>2. TableOK(t) /\ Sends(up, Head(up).command, t) /\ up' = Tail(up) /\ up # <<>>
    BY <1>0, <1>7, <2>1, CommandTaken DEF ServerTakes
  <2>3. /\ [event |-> "create", t |-> t] \in Lines /\ [event |-> "destroy", t |-> t] \in Lines
    BY LinesMade
  <2>4. CASE Head(up).command = "create" /\ server[t].st = "none" /\ Tell([event |-> "create", t |-> t])
    <3>1. ~Mentions(down, t)
      BY <2>2, <2>4 DEF TableOK, InFlight, Managed
    <3>2. LineOrder(down')
      BY <1>6, <2>3, <2>4, <3>1, MentionMeans
    <3> QED
      BY <1>a, <2>2, <3>2
  <2>5. CASE server[t].st # "none" /\ Tell([event |-> "destroy", t |-> t])
    <3>1. ~Hears(down, "destroy", t)
      BY <2>2, <2>5 DEF TableOK, InFlight
    <3>2. LineOrder(down')
      BY <1>6, <2>3, <2>5, <3>1
    <3> QED
      BY <1>a, <2>2, <3>2
  <2>6. CASE UNCHANGED down
    BY <1>0, <1>a, <2>2, <2>6
  <2> QED
    BY <1>7, <2>1, <2>4, <2>5, <2>6 DEF ServerTakes
<1>8. ASSUME NEW t \in Tables, StartGame(t) PROVE LineOrder(down') /\ CommandOrder(up')
  <2> DEFINE line == [event |-> "start", t |-> t, n |-> server[t].n + 1]
  <2>1. line \in Lines /\ line.t = t /\ line.event = "start" /\ Tell(line)
    <3>1. server[t].n + 1 \in 1..MaxGames
      BY <1>8 DEF StartGame, Types, ServerRecord, SlotsAssumption
    <3> QED
      BY <1>8, <3>1, LinesMade DEF StartGame
  <2> HIDE DEF line
  <2>2. ~Hears(down, "destroy", t) /\ ~Hears(down, "end", t) /\ up' = up
    BY <1>0, <1>8 DEF StartGame, TableOK, InFlight
  <2> QED
    BY <1>0, <1>6, <2>1, <2>2
<1>9. ASSUME NEW t \in Tables, EndGame(t) PROVE LineOrder(down') /\ CommandOrder(up')
  <2> DEFINE line == [event |-> "end", t |-> t]
  <2>1. line \in Lines /\ line.t = t /\ line.event = "end" /\ Tell(line)
    BY <1>9, LinesMade DEF EndGame
  <2> HIDE DEF line
  <2>2. ~Hears(down, "destroy", t) /\ ~Hears(down, "end", t) /\ up' = up
    BY <1>0, <1>9 DEF EndGame, TableOK, InFlight
  <2> QED
    BY <1>0, <1>6, <2>1, <2>2
<1>10. ASSUME NEW t \in Tables, Refuse(t) PROVE LineOrder(down') /\ CommandOrder(up')
  <2> DEFINE line == [event |-> "error", t |-> t]
  <2>1. line \in Lines /\ line.t = t /\ line.event = "error" /\ Tell(line)
    BY <1>10, LinesMade DEF Refuse
  <2> HIDE DEF line
  <2>2. ~Hears(down, "destroy", t) /\ up' = up
    BY <1>0, <1>10 DEF Refuse, TableOK, InFlight
  <2> QED
    BY <1>0, <1>6, <2>1, <2>2
<1> QED
  BY <1>1, <1>2, <1>3, <1>4, <1>5, <1>7, <1>8, <1>9, <1>10 DEF Next, Server

----------------------------------------------------------------------------
(* The order of the calls.                                                 *)

LEMMA FlowIn ==
  ASSUME NEW ops \in Seq(Ops), ops # <<>>, FlowOf(ops)
  PROVE  /\ FlowOf(Tail(ops))
         /\ Tail(ops) # <<>> => Follows(ops[1], Tail(ops)[1])
<1>1. /\ Len(ops) \in Nat \ {0} /\ Tail(ops) \in Seq(Ops) /\ Len(Tail(ops)) = Len(ops) - 1
      /\ \A i \in 1..(Len(ops) - 1) : Tail(ops)[i] = ops[i + 1]
  BY TailIs
<1>2. FlowOf(Tail(ops))
  <2>1. ASSUME NEW i \in 1..(Len(ops) - 1 - 1) PROVE Follows(Tail(ops)[i], Tail(ops)[i + 1])
    <3>1. i \in 1..(Len(ops) - 1) /\ i + 1 \in 1..(Len(ops) - 1)
      BY <1>1
    <3> QED
      BY <1>1, <3>1 DEF FlowOf
  <2> QED
    BY <1>1, <2>1 DEF FlowOf
<1>3. ASSUME Tail(ops) # <<>> PROVE Follows(ops[1], Tail(ops)[1])
  <2>1. Len(Tail(ops)) # 0
    BY <1>1, <1>3, SeqIs
  <2>2. 1 \in 1..(Len(ops) - 1)
    BY <1>1, <2>1
  <2> QED
    BY <1>1, <2>2 DEF FlowOf
<1> QED
  BY <1>2, <1>3

LEMMA FlowOnto ==
  ASSUME NEW rest \in Seq(Ops), FlowOf(rest), NEW a \in Ops,
         rest # <<>> => Follows(a, rest[1])
  PROVE  FlowOf(<<a>> \o rest)
<1>1. /\ Len(<<a>> \o rest) = Len(rest) + 1 /\ Len(rest) \in Nat
      /\ (<<a>> \o rest)[1] = a
      /\ \A i \in 1..Len(rest) : (<<a>> \o rest)[i + 1] = rest[i]
      /\ rest = <<>> <=> Len(rest) = 0
  BY PushIs, SeqIs
<1>2. ASSUME NEW i \in 1..Len(rest)
      PROVE  Follows((<<a>> \o rest)[i], (<<a>> \o rest)[i + 1])
  <2>1. CASE i = 1
    BY <1>1, <1>2, <2>1
  <2>2. CASE i # 1
    <3>1. i - 1 \in 1..(Len(rest) - 1) /\ i - 1 \in 1..Len(rest) /\ (i - 1) + 1 = i
      BY <1>1, <1>2, <2>2
    <3>2. Follows(rest[i - 1], rest[(i - 1) + 1])
      BY <3>1 DEF FlowOf
    <3>3. (<<a>> \o rest)[(i - 1) + 1] = rest[i - 1]
      BY <1>1, <3>1
    <3> QED
      BY <1>1, <1>2, <3>1, <3>2, <3>3
  <2> QED
    BY <2>1, <2>2
<1>3. Len(<<a>> \o rest) - 1 = Len(rest)
  BY <1>1
<1> QED
  BY <1>2, <1>3 DEF FlowOf

LEMMA FlowOntoTwo ==
  ASSUME NEW rest \in Seq(Ops), FlowOf(rest), NEW a \in Ops, NEW b \in Ops,
         Follows(a, b), rest # <<>> => Follows(b, rest[1])
  PROVE  FlowOf(<<a, b>> \o rest)
<1>1. <<a>> \o (<<b>> \o rest) = <<a, b>> \o rest
  <2>1. <<a>> \in Seq(Ops) /\ <<b>> \in Seq(Ops)
    OBVIOUS
  <2>2. (<<a>> \o <<b>>) \o rest = <<a>> \o (<<b>> \o rest)
    BY <2>1, ConcatAssociative
  <2> QED
    BY <2>2, CallsJoin
<1>2. FlowOf(<<b>> \o rest) /\ <<b>> \o rest \in Seq(Ops) /\ (<<b>> \o rest)[1] = b
  BY FlowOnto, PushIs
<1>3. FlowOf(<<a>> \o (<<b>> \o rest))
  BY <1>2, FlowOnto
<1> QED
  BY <1>1, <1>3

LEMMA FlowRows ==
  /\ FlowOf(<<>>)
  /\ \A a \in Ops : FlowOf(<<a>>)
  /\ \A a, b \in Ops : Follows(a, b) => FlowOf(<<a, b>>)
  /\ \A a, b, c \in Ops : Follows(a, b) /\ Follows(b, c) => FlowOf(<<a, b, c>>)
  /\ \A a, b, c, d \in Ops :
        Follows(a, b) /\ Follows(b, c) /\ Follows(c, d) => FlowOf(<<a, b, c, d>>)
<1>1. FlowOf(<<>>)
  BY EmptyIs DEF FlowOf
<1>2. ASSUME NEW a \in Ops PROVE FlowOf(<<a>>)
  BY DEF FlowOf
<1>3. ASSUME NEW a \in Ops, NEW b \in Ops, Follows(a, b) PROVE FlowOf(<<a, b>>)
  <2>1. \A i \in 1..1 : Follows(<<a, b>>[i], <<a, b>>[i + 1])
    BY <1>3
  <2> QED
    BY <2>1 DEF FlowOf
<1>4. ASSUME NEW a \in Ops, NEW b \in Ops, NEW c \in Ops, Follows(a, b), Follows(b, c)
      PROVE  FlowOf(<<a, b, c>>)
  <2>1. \A i \in 1..2 : Follows(<<a, b, c>>[i], <<a, b, c>>[i + 1])
    BY <1>4
  <2> QED
    BY <2>1 DEF FlowOf
<1>5. ASSUME NEW a \in Ops, NEW b \in Ops, NEW c \in Ops, NEW d \in Ops,
             Follows(a, b), Follows(b, c), Follows(c, d)
      PROVE  FlowOf(<<a, b, c, d>>)
  <2>1. \A i \in 1..3 : Follows(<<a, b, c, d>>[i], <<a, b, c, d>>[i + 1])
    BY <1>5
  <2> QED
    BY <2>1 DEF FlowOf
<1> QED
  BY <1>1, <1>2, <1>3, <1>4, <1>5

\* What is left of the handler after a call, and what comes first then.
LEMMA RestIs ==
  ASSUME Types, TablesInv, todo # <<>>
  PROVE  /\ Tail(todo) \in Seq(Ops) /\ FlowOf(Tail(todo))
         /\ Tail(todo) # <<>> => Tail(todo)[1] \in Ops /\ Follows(Op, Tail(todo)[1])
<1>1. todo \in Seq(Ops) /\ Tail(todo) \in Seq(Ops) /\ Op = todo[1]
  BY OpIs DEF Types
<1>2. Tail(todo) # <<>> => Tail(todo)[1] \in Ops
  BY <1>1, TailIs
<1> QED
  BY <1>1, <1>2, FlowIn DEF TablesInv, Flow

LEMMA FirstIs ==
  ASSUME NEW rest \in Seq(Ops), NEW a \in Ops
  PROVE  /\ <<a>> \o rest # <<>> /\ (<<a>> \o rest)[1] = a
         /\ \A b \in Ops : <<a, b>> \o rest # <<>> /\ (<<a, b>> \o rest)[1] = a
  BY PushIs, Push2Is, EmptyIs, SeqIs

\* Nothing comes after these calls.
LEMMA Alone ==
  ASSUME Types, TablesInv, todo # <<>>,
         Op.call \in {"ready", "play", "after_end", "after_destroy", "outcome", "wait"}
  PROVE  Tail(todo) = <<>>
  BY RestIs DEF Follows

\* Every step leaves calls in their order.
LEMMA CallsFlow ==
  ASSUME SlotsAssumption, Types, TablesInv, Calls
  PROVE  Flow'
<1>0. /\ todo # <<>> /\ Op \in Ops /\ Tail(todo) \in Seq(Ops) /\ FlowOf(Tail(todo))
      /\ Tail(todo) # <<>> => Tail(todo)[1] \in Ops /\ Follows(Op, Tail(todo)[1])
      /\ FlowOf(todo) /\ todo \in Seq(Ops)
      /\ Op = todo[1]
  BY CallIs, RestIs DEF Calls, Calling, SaveSlot, SendCommand, SendRaises, LogLeave, SaveMarker,
          UnlinkMarker, RetireTable, RetireIdleTables, ReadyTable, CreateNextTable, Outcome,
          WaitForMirrorCapacity, Assign, PlayGame, Package, Record, Withdraw, AfterEnd,
          AfterDestroy, TablesInv, Flow, Types
<1> SUFFICES FlowOf(todo')
  BY DEF Flow, FlowOf
<1>1. CASE todo' = Tail(todo) \/ todo' = <<>>
  BY <1>0, <1>1, FlowRows
<1>2. CASE SendCommand
  <2>1. Op.t \in Tables /\ Op.call = "send"
    BY <1>0, <1>2, OpFields DEF SendCommand, Calling
  <2>2. CASE Op.command # "leave"
    <3>1. todo' = <<>> \o Tail(todo)
      BY <1>2, <2>2 DEF SendCommand, Goto, Logged
    <3> QED
      BY <1>0, <1>1, <3>1, GotoIs
  <2>3. CASE Op.command = "leave"
    <3>1. todo' = <<TableCall("log_leave", Op.t)>> \o Tail(todo)
      BY <1>2, <2>3 DEF SendCommand, Goto, Logged, On, TableCall
    <3>2. TableCall("log_leave", Op.t) \in Ops
      BY <2>1, OpsMade
    <3>3. Tail(todo) # <<>> => Follows(TableCall("log_leave", Op.t), Tail(todo)[1])
      BY <1>0, <2>1, <2>3 DEF Follows, TableCall
    <3> QED
      BY <1>0, <3>1, <3>2, <3>3, FlowOnto
  <2> QED
    BY <2>2, <2>3
<1>3. CASE RetireTable
  <2>1. Op.t \in Tables /\ Op.call = "retire" /\ Op.reason \in Reasons
    BY <1>0, <1>3, OpFields DEF RetireTable, Calling
  <2>2. MarkCall(Op.t, Op.reason) \in Ops /\ SendCall(Op.t, "leave") \in Ops
    BY <2>1, OpsMade
  <2>3. Tail(todo) # <<>> => Follows(SendCall(Op.t, "leave"), Tail(todo)[1])
    BY <1>0, <2>1 DEF Follows, SendCall
  <2>4. Follows(MarkCall(Op.t, Op.reason), SendCall(Op.t, "leave"))
    BY DEF Follows, SendCall, MarkCall
  <2>5. CASE slots[Op.t] \notin {NONE, "RETIRING"} /\ marker[Op.t] = NoMarker
    <3>1. todo' = <<MarkCall(Op.t, Op.reason), SendCall(Op.t, "leave")>> \o Tail(todo)
      BY <1>3, <2>5, RetireDoes
    <3> QED
      BY <1>0, <2>2, <2>3, <2>4, <3>1, FlowOntoTwo
  <2>6. CASE todo' = Send(Op.t, "leave") \o Tail(todo)
    <3>1. todo' = <<SendCall(Op.t, "leave")>> \o Tail(todo)
      BY <2>6 DEF Send, SendCall
    <3> QED
      BY <1>0, <2>2, <2>3, <3>1, FlowOnto
  <2>7. \/ todo' = Tail(todo) \/ todo' = <<>>
        \/ slots[Op.t] \notin {NONE, "RETIRING"} /\ marker[Op.t] = NoMarker
        \/ todo' = Send(Op.t, "leave") \o Tail(todo)
    BY <1>3 DEF RetireTable, Return, Raise, Stop, Ends, Goto
  <2> QED
    BY <1>1, <2>5, <2>6, <2>7
<1>4. CASE RetireIdleTables
  <2>1. Op.call = "retire_idle" /\ Op.reason \in Reasons
    BY <1>0, <1>4, OpFields DEF RetireIdleTables, Calling
  <2>2. ASSUME NEW t \in Idle PROVE FlowOf(Retire(t, Op.reason) \o todo)
    <3>1. RetireCall(t, Op.reason, FALSE) \in Ops
      BY <2>1, <2>2, OpsMade DEF Idle, Occupied
    <3>2. Follows(RetireCall(t, Op.reason, FALSE), todo[1])
      BY <1>0, <2>1 DEF Follows, RetireCall
    <3>3. FlowOf(<<RetireCall(t, Op.reason, FALSE)>> \o todo)
      BY <1>0, <3>1, <3>2, FlowOnto
    <3> QED
      BY <3>3 DEF Retire, RetireCall
  <2> QED
    BY <1>1, <1>4, <2>2 DEF RetireIdleTables, Return
<1>5. CASE ReadyTable
  <2>1. Op.t \in Tables /\ Op.call = "ready"
    BY <1>0, <1>5, OpFields DEF ReadyTable, Calling
  <2>2. SendCall(Op.t, "ready") \in Ops /\ SlotCall(Op.t, "READY_SENT") \in Ops
    BY <2>1, OpsMade
  <2>3. Follows(SendCall(Op.t, "ready"), SlotCall(Op.t, "READY_SENT"))
    BY DEF Follows, SendCall, SlotCall
  <2>4. Tail(todo) = <<>>
    BY <1>0, <2>1, Alone
  <2> QED
    BY <1>0, <1>5, <2>2, <2>3, <2>4, ReadyDoes, FlowOntoTwo
<1>6. CASE CreateNextTable
  <2>1. Op.call = "fill"
    BY <1>6 DEF CreateNextTable, Calling
  <2>2. ASSUME NEW t \in Tables PROVE FlowOf(Send(t, "create") \o todo)
    <3>1. SendCall(t, "create") \in Ops
      BY <2>2, OpsMade
    <3>2. Follows(SendCall(t, "create"), todo[1])
      BY <1>0, <2>1 DEF Follows, SendCall
    <3>3. FlowOf(<<SendCall(t, "create")>> \o todo)
      BY <1>0, <3>1, <3>2, FlowOnto
    <3> QED
      BY <3>3 DEF Send, SendCall
  <2> QED
    BY <1>1, <1>6, <2>2 DEF CreateNextTable, Return
<1>7. CASE Outcome
  <2>1. FlowOf(Do("wait"))
    BY PlainOpsMade, FlowRows DEF Do, PlainCall
  <2> QED
    BY <1>1, <1>7, <2>1 DEF Outcome, Return
<1>8. CASE AfterEnd
  <2>1. Op.t \in Tables /\ Op.call = "after_end"
    BY <1>0, <1>8, OpFields DEF AfterEnd, Calling
  <2>2. Tail(todo) = <<>>
    BY <1>0, <2>1, Alone
  <2>3. TableCall("ready", Op.t) \in Ops /\ RetireCall(Op.t, "OTHER", FALSE) \in Ops
    BY <2>1, OpsMade DEF Reasons
  <2>4. ASSUME NEW r \in Reasons
        PROVE  FlowOf(<<RetireCall(Op.t, r, FALSE), IdleCall(r)>> \o Tail(todo))
    <3>1. RetireCall(Op.t, r, FALSE) \in Ops /\ IdleCall(r) \in Ops
      BY <2>1, OpsMade, PlainOpsMade
    <3>2. Follows(RetireCall(Op.t, r, FALSE), IdleCall(r))
      BY DEF Follows, RetireCall, IdleCall
    <3> QED
      BY <1>0, <2>2, <3>1, <3>2, FlowOntoTwo
  <2>5. /\ FlowOf(<<TableCall("ready", Op.t)>> \o Tail(todo))
        /\ FlowOf(<<RetireCall(Op.t, "OTHER", FALSE)>> \o Tail(todo))
    BY <1>0, <2>2, <2>3, FlowOnto
  <2> QED
    BY <1>8, <2>4, <2>5, AfterEndDoes
<1>9. CASE AfterDestroy
  <2>1. Op.call = "after_destroy"
    BY <1>9 DEF AfterDestroy, Calling
  <2>2. Tail(todo) = <<>>
    BY <1>0, <2>1, Alone
  <2>3. PlainCall("fill") \in Ops /\ PlainCall("outcome") \in Ops
    BY PlainOpsMade
  <2>4. ASSUME NEW r \in Reasons
        PROVE  FlowOf(<<IdleCall(r), PlainCall("outcome")>> \o Tail(todo))
    <3>1. IdleCall(r) \in Ops
      BY PlainOpsMade
    <3>2. Follows(IdleCall(r), PlainCall("outcome"))
      BY DEF Follows, IdleCall, PlainCall
    <3> QED
      BY <1>0, <2>2, <2>3, <3>1, <3>2, FlowOntoTwo
  <2>5. FlowOf(<<PlainCall("fill")>> \o Tail(todo))
    BY <1>0, <2>2, <2>3, FlowOnto
  <2> QED
    BY <1>9, <2>4, <2>5, AfterDestroyDoes
<1> QED
  BY <1>1, <1>2, <1>3, <1>4, <1>5, <1>6, <1>7, <1>8, <1>9
     DEF Calls, Return, SaveSlot, SendRaises, LogLeave, SaveMarker, UnlinkMarker,
         WaitForMirrorCapacity, Assign, PlayGame, Package, Record, Withdraw


LEMMA HandlersFlow ==
  ASSUME SlotsAssumption, Types, TablesInv, Handlers
  PROVE  Flow'
<1>0. down # <<>> /\ Line \in Lines /\ Line.t \in Tables
  BY LineIs, LineFields DEF Handlers, OnCreate, OnStart, OnEnd, OnTableError, OnDestroy, Reading
<1> SUFFICES FlowOf(todo')
  BY DEF Flow, FlowOf
<1>1. CASE todo' = <<>>
  BY <1>1, FlowRows
<1>2. ASSUME NEW op \in Ops, todo' = <<op>> PROVE FlowOf(todo')
  BY <1>2, FlowRows
<1>3. CASE OnCreate
  <2>1. ASSUME NEW r \in Reasons, todo' = Retire(Line.t, r) PROVE FlowOf(todo')
    BY <1>0, <1>2, <2>1, OpsMade DEF Retire, RetireCall
  <2>2. ASSUME todo' = RetryLeave(Line.t) PROVE FlowOf(todo')
    <3>1. RetireCall(Line.t, "OTHER", TRUE) \in Ops
      BY <1>0, OpsMade DEF Reasons
    <3> QED
      BY <1>2, <2>2, <3>1 DEF RetryLeave, RetireCall
  <2>3. ASSUME todo' = On("ready", Line.t) PROVE FlowOf(todo')
    <3>1. TableCall("ready", Line.t) \in Ops
      BY <1>0, OpsMade
    <3> QED
      BY <1>2, <2>3, <3>1 DEF On, TableCall
  <2>4. ASSUME todo' = Slot(Line.t, "ACTIVE") PROVE FlowOf(todo')
    <3>1. SlotCall(Line.t, "ACTIVE") \in Ops
      BY <1>0, OpsMade
    <3> QED
      BY <1>2, <2>4, <3>1 DEF Slot, SlotCall
  <2>5. \/ todo' = <<>> \/ \E r \in Reasons : todo' = Retire(Line.t, r)
        \/ todo' = RetryLeave(Line.t) \/ todo' = On("ready", Line.t)
        \/ todo' = Slot(Line.t, "ACTIVE")
    BY <1>3 DEF OnCreate, EnsureActive, Reasons
  <2> QED
    BY <1>1, <2>1, <2>2, <2>3, <2>4, <2>5
<1>4. CASE OnStart
  <2>1. CASE slots[Line.t] = "RETIRING"
    BY <1>1, <1>4, <2>1 DEF OnStart, Raise, Stop, Ends
  <2>2. CASE slots[Line.t] # "RETIRING"
    <3> DEFINE slot == SlotCall(Line.t, "ACTIVE")
               assign == AssignCall(Line.t, Line.n)
               play == TableCall("play", Line.t)
    <3>1. Line.n \in 1..MaxGames
      BY <1>0, <1>4, LineFields DEF OnStart, Reading, Line
    <3>2. slot \in Ops /\ assign \in Ops /\ play \in Ops
      BY <1>0, <3>1, OpsMade
    <3>3. Follows(slot, assign) /\ Follows(assign, play)
      BY DEF Follows, SlotCall, AssignCall, TableCall
    <3>4. todo' = <<assign, play>> \/ todo' = <<slot, assign, play>>
      BY <1>4, <2>2, StartDoes
    <3> HIDE DEF slot, assign, play
    <3> QED
      BY <3>2, <3>3, <3>4, FlowRows
  <2> QED
    BY <2>1, <2>2
<1>5. ASSUME NEW status \in {"SCORED", "FAILED"}, NEW counts \in BOOLEAN, NEW op \in Ops,
             Finish(Line.t, status, counts, <<op>>), Follows(TableCall("withdraw", Line.t), op)
      PROVE  FlowOf(todo')
  <2> DEFINE package == PackageCall(Line.t, status)
             record == RecordCall(Line.t, counts)
             withdraw == TableCall("withdraw", Line.t)
  <2>1. package \in Ops /\ record \in Ops /\ withdraw \in Ops
    BY <1>0, OpsMade
  <2>2. Follows(package, record) /\ Follows(record, withdraw) /\ Follows(withdraw, op)
    BY <1>5 DEF Follows, PackageCall, RecordCall, TableCall
  <2>3. todo' = <<package, record, withdraw, op>>
    BY <1>0, <1>5, FinishDoes
  <2> HIDE DEF package, record, withdraw
  <2> QED
    BY <1>5, <2>1, <2>2, <2>3, FlowRows
<1>6. CASE OnEnd
  <2> DEFINE op == TableCall("after_end", Line.t)
  <2>1. op \in Ops /\ Follows(TableCall("withdraw", Line.t), op)
    BY <1>0, OpsMade DEF Follows, TableCall
  <2>2. \/ todo' = <<>>
        \/ \E status \in {"SCORED", "FAILED"} :
              Finish(Line.t, status, active[Line.t].primary /\ ~Enough, <<op>>)
    BY <1>6 DEF OnEnd, Raise, Stop, Ends, On, TableCall
  <2>3. (active[Line.t].primary /\ ~Enough) \in BOOLEAN
    OBVIOUS
  <2> HIDE DEF op
  <2> QED
    BY <1>1, <1>5, <2>1, <2>2, <2>3
<1>7. CASE OnTableError
  <2> DEFINE op == RetireCall(Line.t, "OTHER", FALSE)
  <2>1. op \in Ops /\ Follows(TableCall("withdraw", Line.t), op)
    BY <1>0, OpsMade DEF Follows, TableCall, RetireCall, Reasons
  <2>2. \/ todo' = <<op>>
        \/ active[Line.t] # NoGame /\ Finish(Line.t, "FAILED", active[Line.t].primary, <<op>>)
    BY <1>7 DEF OnTableError, Known, Retire, RetireCall
  <2>3. active[Line.t] # NoGame => active[Line.t].primary \in BOOLEAN
    BY <1>0 DEF Types, GameRecord
  <2> HIDE DEF op
  <2> QED
    BY <1>2, <1>5, <2>1, <2>2, <2>3
<1>8. CASE OnDestroy
  <2>1. CASE active[Line.t] # NoGame
    BY <1>1, <1>8, <2>1 DEF OnDestroy, Raise, Stop, Ends
  <2>2. CASE active[Line.t] = NoGame
    <3> DEFINE unlink == TableCall("unlink", Line.t)
               free == SlotCall(Line.t, NONE)
               next == PlainCall("after_destroy")
    <3>1. unlink \in Ops /\ free \in Ops /\ next \in Ops
      BY <1>0, OpsMade, PlainOpsMade
    <3>2. Follows(unlink, free) /\ Follows(free, next)
      BY DEF Follows, SlotCall, TableCall, PlainCall
    <3>3. todo' = <<unlink, free, next>>
      BY <1>8, <2>2, DestroyDoes
    <3> HIDE DEF unlink, free, next
    <3> QED
      BY <3>1, <3>2, <3>3, FlowRows
  <2> QED
    BY <2>1, <2>2
<1> QED
  BY <1>3, <1>4, <1>6, <1>7, <1>8 DEF Handlers

LEMMA FlowKept ==
  ASSUME SlotsAssumption, Types, TablesInv, [Next]_vars
  PROVE  Flow'
<1>0. FlowOf(todo)
  BY DEF TablesInv, Flow
<1>1. ASSUME FlowOf(todo') PROVE Flow'
  BY <1>1 DEF Flow, FlowOf
<1>2. CASE UNCHANGED todo
  BY <1>0, <1>1, <1>2
<1>3. CASE todo' = <<>>
  BY <1>1, <1>3, FlowRows
<1>4. CASE Session
  <2>1. CASE Connect
    <3>1. Follows(PlainCall("fill"), PlainCall("outcome"))
      BY DEF Follows, PlainCall
    <3>2. FlowOf(<<PlainCall("fill"), PlainCall("outcome")>>)
      BY <3>1, PlainOpsMade, FlowRows
    <3> QED
      BY <1>1, <2>1, <3>2, ConnectDoes
  <2>2. CASE Restart
    <3> DEFINE confirm == PlainCall("confirm")
               recover == PlainCall("recover")
               restore == PlainCall("restore")
               wait == PlainCall("wait")
    <3>1. Follows(confirm, recover) /\ Follows(recover, restore) /\ Follows(restore, wait)
      BY DEF Follows, PlainCall
    <3>2. confirm \in Ops /\ recover \in Ops /\ restore \in Ops /\ wait \in Ops
      BY PlainOpsMade
    <3>3. todo' = <<confirm, recover, restore, wait>>
      BY <2>2, RestartDoes
    <3> HIDE DEF confirm, recover, restore, wait
    <3> QED
      BY <1>1, <3>1, <3>2, <3>3, FlowRows
  <2>3. CASE Confirm \/ Recover \/ Restore
    <3>1. todo # <<>>
      BY <2>3 DEF Confirm, Recover, Restore, Calling
    <3>2. FlowOf(Tail(todo))
      BY <3>1, RestIs
    <3>3. todo' = todo \/ todo' = Tail(todo) \/ todo' = <<>>
      BY <2>3 DEF Confirm, Recover, Restore, Return, Raise, Stop, Ends
    <3> QED
      BY <1>1, <1>2, <1>3, <3>2, <3>3
  <2> QED
    BY <1>2, <1>4, <2>1, <2>2, <2>3 DEF Session, Recovery, ReadRaises
<1>5. CASE Breakage \/ Server \/ UNCHANGED vars
  BY <1>2, <1>3, <1>5 DEF Breakage, Break, Die, Stop, Ends, Server, ServerTakes, StartGame, EndGame,
     Refuse, vars
<1> QED
  BY <1>4, <1>5, CallsFlow, HandlersFlow DEF Next


----------------------------------------------------------------------------
(* What a call finds when its turn comes.                                  *)

\* While a handler is at work the server and the network may change a table,
\* but not in a way the calls have to expect.
Meanwhile(t) ==
    /\ server[t].st = "none" /\ ~Sends(up, "create", t) =>
          server'[t].st = "none" /\ (Mentions(down', t) => Mentions(down, t))
    /\ server[t].st = "open" /\ ~Sends(up, "ready", t) /\ ~Sends(up, "leave", t) =>
          /\ server'[t].st = "open"
          /\ \A e : Hears(down', e, t) => Hears(down, e, t) \/ e = "error"
    /\ server[t].st # "none" /\ ~Sends(up, "leave", t) => server'[t].st # "none"
    /\ server[t].st # "none" => (Hears(down', "create", t) => Hears(down, "create", t))
    /\ \A c : Sends(up', c, t) => Sends(up, c, t)
    /\ Mentions(up', t) => Mentions(up, t)

\* Losing lines or commands is no more than that.
LEMMA MeanwhileCalm ==
  ASSUME NEW t, server'[t].st = server[t].st, NothingNew(up', up, t),
         NothingNew(down', down, t)
  PROVE  Meanwhile(t)
<1>1. /\ \A e : Hears(down', e, t) => Hears(down, e, t)
      /\ \A c : Sends(up', c, t) => Sends(up, c, t)
      /\ Mentions(up', t) => Mentions(up, t)
      /\ Mentions(down', t) => Mentions(down, t)
  BY NothingNewMeans
<1> QED
  BY <1>1 DEF Meanwhile

LEMMA MeanwhileTakes ==
  ASSUME SlotsAssumption, Types, TablesInv, ServerTakes, NEW t \in Tables
  PROVE  Meanwhile(t)
<1>1. /\ up' = Tail(up) /\ up # <<>> /\ server \in [Tables -> ServerRecord]
      /\ NothingNew(up', up, t) /\ NothingNew(down, down, t)
      /\ Head(up).t \in Tables /\ Sends(up, Head(up).command, Head(up).t)
  BY Losing, CommandTaken DEF ServerTakes, Types
<1>2. /\ \A c : Sends(up', c, t) => Sends(up, c, t)
      /\ Mentions(up', t) => Mentions(up, t)
  BY <1>1, NothingNewMeans
<1>3. CASE t # Head(up).t
  <2>1. server'[t] = server[t]
    BY <1>1, <1>3 DEF ServerTakes, Table, ServerRecord
  <2>2. /\ [event |-> "create", t |-> Head(up).t] \in Lines
        /\ [event |-> "destroy", t |-> Head(up).t] \in Lines
    BY <1>1, LinesMade
  <2>3. ASSUME NEW line \in Lines, line.t = Head(up).t, Tell(line)
        PROVE  NothingNew(down', down, t)
    BY <1>3, <2>3, Told
  <2>4. NothingNew(down', down, t)
    BY <1>1, <2>2, <2>3 DEF ServerTakes
  <2> QED
    BY <1>1, <2>1, <2>4, MeanwhileCalm
<1>4. CASE t = Head(up).t
  <2>1. [event |-> "create", t |-> t] \in Lines /\ [event |-> "destroy", t |-> t] \in Lines
    BY LinesMade
  <2>2. CASE Head(up).command = "create" /\ server[t].st = "none"
    BY <1>1, <1>2, <1>4, <2>2 DEF Meanwhile
  <2>3. CASE Head(up).command = "ready" /\ server[t].st = "open" /\ Table(t, "ready")
             /\ UNCHANGED down
    BY <1>1, <1>2, <1>4, <2>3 DEF Meanwhile, Table, ServerRecord
  <2>4. CASE Head(up).command = "leave" /\ server[t].st # "none"
             /\ Tell([event |-> "destroy", t |-> t])
    <3>1. Hears(down', "create", t) => Hears(down, "create", t)
      <4> DEFINE line == [event |-> "destroy", t |-> t]
      <4>1. line \in Lines /\ line.event = "destroy" /\ Tell(line)
        BY <2>1, <2>4
      <4> HIDE DEF line
      <4> QED
        BY <4>1, Told
    <3> QED
      BY <1>1, <1>2, <1>4, <2>4, <3>1 DEF Meanwhile
  <2>5. CASE UNCHANGED <<server, down>>
    BY <1>1, <2>5, MeanwhileCalm
  <2> QED
    BY <1>4, <2>2, <2>3, <2>4, <2>5 DEF ServerTakes
<1> QED
  BY <1>3, <1>4

LEMMA MeanwhileIs ==
  ASSUME SlotsAssumption, Types, TablesInv, Break \/ Server, NEW t \in Tables
  PROVE  Meanwhile(t)
<1>0. /\ \A u : NothingNew(up, up, u) /\ NothingNew(down, down, u)
      /\ server \in [Tables -> ServerRecord]
  BY Losing DEF Types
<1>1. CASE Break
  <2>1. NothingNew(up', up, t) /\ NothingNew(down', down, t)
    BY <1>1, Losing DEF Break
  <2> QED
    BY <1>1, <2>1, MeanwhileCalm DEF Break
<1>2. ASSUME NEW u \in Tables, UNCHANGED up, NEW line \in Lines, Tell(line), line.t = u,
             \A v \in Tables \ {u} : server'[v] = server[v],
             line.event # "create",
             \/ server[u].st = "ready" /\ server'[u].st # "none"
             \/ server[u].st = "playing" /\ server'[u].st # "none"
             \/ line.event = "error" /\ server[u].st # "none" /\ server' = server
      PROVE  Meanwhile(t)
  <2>1. CASE t # u
    <3>1. NothingNew(down', down, t)
      BY <1>2, <2>1, Told
    <3> QED
      BY <1>0, <1>2, <2>1, <3>1, MeanwhileCalm
  <2>2. CASE t = u
    <3>1. \A e : Hears(down', e, t) => Hears(down, e, t) \/ line.event = e
      BY <1>2, Told
    <3> QED
      BY <1>2, <2>2, <3>1 DEF Meanwhile
  <2> QED
    BY <2>1, <2>2
<1>3. ASSUME NEW u \in Tables, StartGame(u) PROVE Meanwhile(t)
  <2> DEFINE line == [event |-> "start", t |-> u, n |-> server[u].n + 1]
  <2>1. line \in Lines /\ line.t = u /\ line.event = "start" /\ Tell(line)
    <3>1. server[u].n + 1 \in 1..MaxGames
      BY <1>3 DEF StartGame, Types, ServerRecord, SlotsAssumption
    <3> QED
      BY <1>3, <3>1, LinesMade DEF StartGame
  <2> HIDE DEF line
  <2>2. /\ UNCHANGED up /\ server[u].st = "ready"
        /\ server'[u].st = "playing" /\ \A v \in Tables \ {u} : server'[v] = server[v]
    BY <1>0, <1>3 DEF StartGame
  <2> QED
    BY <1>2, <2>1, <2>2
<1>4. ASSUME NEW u \in Tables, EndGame(u) PROVE Meanwhile(t)
  <2> DEFINE line == [event |-> "end", t |-> u]
  <2>1. line \in Lines /\ line.t = u /\ line.event = "end" /\ Tell(line)
    BY <1>4, LinesMade DEF EndGame
  <2> HIDE DEF line
  <2>2. /\ UNCHANGED up /\ server[u].st = "playing"
        /\ server'[u].st = "open" /\ \A v \in Tables \ {u} : server'[v] = server[v]
    BY <1>0, <1>4 DEF EndGame, Table, ServerRecord
  <2> QED
    BY <1>2, <2>1, <2>2
<1>5. ASSUME NEW u \in Tables, Refuse(u) PROVE Meanwhile(t)
  <2> DEFINE line == [event |-> "error", t |-> u]
  <2>1. line \in Lines /\ line.t = u /\ line.event = "error" /\ Tell(line)
    BY <1>5, LinesMade DEF Refuse
  <2> HIDE DEF line
  <2>2. UNCHANGED <<up, server>> /\ server[u].st # "none"
    BY <1>5 DEF Refuse
  <2> QED
    BY <1>2, <2>1, <2>2
<1> QED
  BY <1>1, <1>3, <1>4, <1>5, MeanwhileTakes DEF Server


\* Only a game that ends is left for later.
LEMMA EndIsAhead ==
  ASSUME NEW ops \in Seq(Ops), FlowOf(ops), NEW i \in DOMAIN ops, ops[i].call = "after_end"
  PROVE  ops[1].call \in {"package", "record", "withdraw", "after_end"}
<1>1. DOMAIN ops = 1..Len(ops) /\ Len(ops) \in Nat /\ i \in 1..Len(ops)
  BY SeqIs
<1>2. \A j \in 1..Len(ops) : j > 1 =>
         j - 1 \in 1..Len(ops) /\ Follows(ops[j - 1], ops[j])
  <2>1. ASSUME NEW j \in 1..Len(ops), j > 1
        PROVE  j - 1 \in 1..Len(ops) /\ Follows(ops[j - 1], ops[j])
    <3>1. j - 1 \in 1..(Len(ops) - 1) /\ (j - 1) + 1 = j /\ j - 1 \in 1..Len(ops)
      BY <1>1, <2>1
    <3>2. Follows(ops[j - 1], ops[(j - 1) + 1])
      BY <3>1 DEF FlowOf
    <3> QED
      BY <3>1, <3>2
  <2> QED
    BY <2>1
<1>3. \A j \in 1..Len(ops) : ops[j] \in Ops
  BY <1>1, SeqIs
<1>4. \A j \in 1..Len(ops) :
         j > 1 => /\ ops[j].call = "after_end" => ops[j - 1].call = "withdraw"
                  /\ ops[j].call = "withdraw" => ops[j - 1].call = "record"
                  /\ ops[j].call = "record" => ops[j - 1].call = "package"
                  /\ ops[j].call # "package"
  <2>1. ASSUME NEW a \in Ops, NEW b, Follows(a, b)
        PROVE  /\ b.call = "after_end" => a.call = "withdraw"
               /\ b.call = "withdraw" => a.call = "record"
               /\ b.call = "record" => a.call = "package"
               /\ b.call # "package"
    BY <2>1, OpFields DEF Follows
  <2> QED
    BY <1>2, <1>3, <2>1
<1>5. CASE i = 1
  BY <1>5
<1>6. CASE i = 2
  BY <1>1, <1>4, <1>6
<1>7. CASE i = 3
  <2>1. ops[2].call = "withdraw" /\ 2 \in 1..Len(ops)
    BY <1>1, <1>4, <1>7
  <2> QED
    BY <1>4, <2>1
<1>8. CASE i > 3
  <2>1. ops[i - 1].call = "withdraw" /\ i - 1 \in 1..Len(ops) /\ i - 1 > 1
    BY <1>1, <1>4, <1>8
  <2>2. ops[(i - 1) - 1].call = "record" /\ (i - 1) - 1 \in 1..Len(ops) /\ (i - 1) - 1 > 1
    BY <1>1, <1>4, <1>8, <2>1
  <2>3. ops[((i - 1) - 1) - 1].call = "package" /\ ((i - 1) - 1) - 1 \in 1..Len(ops)
    BY <1>1, <1>4, <1>8, <2>2
  <2>4. ((i - 1) - 1) - 1 = 1 \/ ((i - 1) - 1) - 1 > 1
    BY <2>3
  <2> QED
    BY <1>4, <2>3, <2>4
<1> QED
  BY <1>1, <1>5, <1>6, <1>7, <1>8

\* The next call still finds it after such a step, ...
LEMMA HeadStays ==
  ASSUME SlotsAssumption, Types, TablesInv, Break \/ Server, NEW op \in Ops, HeadOK(op)
  PROVE  HeadOK(op)'
<1>0. /\ UNCHANGED <<slots, active, marker, evidence, confirmed, sess>>
      /\ \A t \in Tables : TableOK(t) /\ Meanwhile(t)
      /\ confirmed \subseteq Tables
  BY MeanwhileIs DEF Break, Server, ServerTakes, StartGame, EndGame, Refuse, disk, flags,
     TablesInv, Types
<1>1. ASSUME NEW t \in Tables, Gone(t) PROVE Gone(t)'
  <2>1. ~Sends(up, "create", t)
    BY <1>1, MentionMeans DEF Gone, Silent
  <2> QED
    BY <1>0, <1>1, <2>1 DEF Gone, Silent, Meanwhile
<1>2. ASSUME NEW t \in Tables, Open(t), slots[t] # "RETIRING" PROVE Open(t)'
  <2>1. ~Sends(up, "leave", t)
    BY <1>0, <1>2 DEF TableOK, InFlight
  <2> QED
    BY <1>0, <1>2, <2>1 DEF Open, Meanwhile
<1>3. ASSUME NEW t \in Tables, Leaves(t) PROVE Leaves(t)'
  BY <1>0, <1>3 DEF Leaves, Meanwhile
<1>4. ASSUME NEW t \in Tables, slots[t] \notin {NONE, "PENDING_CREATE", "RETIRING"},
             ~Hears(down, "create", t)
      PROVE  ~Hears(down', "create", t)
  BY <1>0, <1>4 DEF TableOK, Managed, Meanwhile
<1>5. op.call = "slot" => SlotOK(op)'
  <2> SUFFICES ASSUME op.call = "slot" PROVE SlotOK(op)'
    OBVIOUS
  <2>0. PICK t \in Tables : t = op.t
    BY OpFields
  <2> USE <2>0
  <2> QED
    BY <1>0, <1>1, <1>4 DEF HeadOK, SlotOK
<1>6. op.call = "send" => SendOK(op)'
  <2> SUFFICES ASSUME op.call = "send" PROVE SendOK(op)'
    OBVIOUS
  <2>0. PICK t \in Tables : t = op.t
    BY OpFields
  <2> USE <2>0
  <2>1. op.command = "create" => server'[t].st = "none" /\ Silent(t)'
    <3>1. Silent(t) => ~Sends(up, "create", t)
      BY MentionMeans DEF Silent
    <3> QED
      BY <1>0, <3>1 DEF HeadOK, SendOK, Silent, Meanwhile
  <2> QED
    BY <1>0, <1>2, <1>3, <2>1 DEF HeadOK, SendOK
<1>7. op.call = "retire" => RetireOK(op)'
  <2> SUFFICES ASSUME op.call = "retire" PROVE RetireOK(op)'
    OBVIOUS
  <2>0. PICK t \in Tables : t = op.t
    BY OpFields
  <2> USE <2>0
  <2> QED
    BY <1>0, <1>3 DEF HeadOK, RetireOK
<1>8. op.call \in {"mark", "ready", "unlink"} =>
         /\ op.call = "mark" => Leaves(op.t)'
         /\ op.call = "ready" => Open(op.t)' /\ slots'[op.t] \in {"PENDING_CREATE", "ACTIVE"}
         /\ op.call = "unlink" => Gone(op.t)'
  <2> SUFFICES ASSUME op.call \in {"mark", "ready", "unlink"}
               PROVE /\ op.call = "mark" => Leaves(op.t)'
                     /\ op.call = "ready" => /\ Open(op.t)'
                                             /\ slots'[op.t] \in {"PENDING_CREATE", "ACTIVE"}
                     /\ op.call = "unlink" => Gone(op.t)'
    OBVIOUS
  <2>0. PICK t \in Tables : t = op.t
    BY OpFields
  <2> USE <2>0
  <2> QED
    BY <1>0, <1>1, <1>2, <1>3 DEF HeadOK
<1>9. op.call \in {"assign", "play"} => PlayOK(op)'
  <2> SUFFICES ASSUME op.call \in {"assign", "play"} PROVE PlayOK(op)'
    OBVIOUS
  <2>0. PICK t \in Tables : t = op.t
    BY OpFields
  <2> USE <2>0
  <2> QED
    BY <1>0, <1>4 DEF HeadOK, PlayOK, NONE
<1>10. op.call \in {"package", "record", "withdraw"} => GameOK(op)'
  BY <1>0 DEF HeadOK, GameOK, GameOf
<1>11. op.call \in {"confirm", "recover", "restore"} => RecoveryOK'
  <2>1. ASSUME NEW t \in confirmed, RecoveryOK PROVE server'[t].st = "none"
    BY <1>0, <2>1 DEF RecoveryOK, TableOK, InFlight, Meanwhile
  <2> QED
    BY <1>0, <2>1 DEF HeadOK, RecoveryOK
<1>12. /\ op.call = "log_leave" => slots'[op.t] = "RETIRING" /\ marker'[op.t] # NoMarker
       /\ op.call = "after_end" => active'[op.t] = NoGame
  BY <1>0 DEF HeadOK
<1> QED
  BY <1>5, <1>6, <1>7, <1>8, <1>9, <1>10, <1>11, <1>12 DEF HeadOK

LEMMA RestedStays ==
  ASSUME SlotsAssumption, Types, TablesInv, Break \/ Server, NEW t \in Tables, Rested(t)
  PROVE  Rested(t)'
<1>0. UNCHANGED <<slots, sess>> /\ TableOK(t) /\ Meanwhile(t)
  BY MeanwhileIs DEF Break, Server, ServerTakes, StartGame, EndGame, Refuse, disk, flags,
     TablesInv
<1>1. ~Sends(up, "leave", t)
  BY <1>0 DEF TableOK, InFlight, Rested
<1> QED
  BY <1>0, <1>1 DEF Rested, Meanwhile


\* ... and a call that becomes the next finds what the step before has established.
LEMMA HeadBecomes ==
  ASSUME NEW op, todo' # <<>>, todo'[1] = op, HeadOK(op)',
         op.call \in Recovering <=> conn' = "closed"
  PROVE  HeadIsOK'
  BY DEF HeadIsOK

LEMMA HeadIsFree ==
  ASSUME NEW op, op.call \in {"retire_idle", "fill", "outcome", "wait", "after_destroy"}
  PROVE  HeadOK(op)'
  BY DEF HeadOK

LEMMA CallsHead ==
  ASSUME SlotsAssumption, Types, TablesInv, Calls
  PROVE  HeadIsOK'
<1>0. /\ todo # <<>> /\ Op \in Ops /\ Op = todo[1] /\ HeadOK(Op)
      /\ Op.call \in Recovering <=> conn = "closed"
      /\ Tail(todo) \in Seq(Ops)
      /\ Tail(todo) # <<>> => Tail(todo)[1] \in Ops /\ Follows(Op, Tail(todo)[1])
      /\ \A t \in Tables : TableOK(t)
      /\ todo \in Seq(Ops)
  BY CallIs, RestIs DEF Calls, Calling, SaveSlot, SendCommand, SendRaises, LogLeave, SaveMarker,
          UnlinkMarker, RetireTable, RetireIdleTables, ReadyTable, CreateNextTable, Outcome,
          WaitForMirrorCapacity, Assign, PlayGame, Package, Record, Withdraw, AfterEnd,
          AfterDestroy, TablesInv, Types
<1>a. CASE todo' = <<>>
  BY <1>a DEF HeadIsOK
<1>b. ASSUME todo' = Tail(todo), conn' = conn, Op.call \notin Recovering,
             \A b \in Ops : Follows(Op, b) => HeadOK(b)' /\ b.call \notin Recovering
      PROVE  HeadIsOK'
  <2>1. CASE Tail(todo) # <<>>
    <3>1. PICK b \in Ops : b = Tail(todo)[1]
      BY <1>0, <2>1
    <3>2. HeadOK(b)' /\ b.call \notin Recovering
      BY <1>0, <1>b, <2>1, <3>1
    <3> QED
      BY <1>0, <1>b, <2>1, <3>1, <3>2, HeadBecomes
  <2> QED
    BY <1>a, <1>b, <2>1
<1>c. ASSUME NEW op \in Ops, NEW rest \in Seq(Ops), HeadOK(op)', op.call \notin Recovering,
             conn' = conn, conn # "closed",
             todo' = <<op>> \o rest \/ \E b \in Ops : todo' = <<op, b>> \o rest
      PROVE  HeadIsOK'
  <2>1. CASE todo' = <<op>> \o rest
    <3>1. todo' # <<>> /\ todo'[1] = op
      BY <1>c, <2>1, FirstIs
    <3> QED
      BY <1>c, <3>1, HeadBecomes
  <2>2. ASSUME NEW b \in Ops, todo' = <<op, b>> \o rest PROVE HeadIsOK'
    <3>1. todo' # <<>> /\ todo'[1] = op
      BY <1>c, <2>2, FirstIs
    <3> QED
      BY <1>c, <3>1, HeadBecomes
  <2> QED
    BY <1>c, <2>1, <2>2
<1>1. CASE SaveSlot
  <2>0. PICK t \in Tables : t = Op.t
    BY <1>0, <1>1, OpFields DEF SaveSlot, Calling
  <2> USE <2>0
  <2>1. SlotOK(Op) /\ Op.call = "slot"
    BY <1>0, <1>1 DEF SaveSlot, Calling, HeadOK
  <2>2. /\ slots' = [slots EXCEPT ![t] = Op.state] /\ slots \in [Tables -> States \cup {NONE}]
        /\ todo' = Tail(todo) /\ conn' = conn /\ down' = down
    BY <1>1 DEF SaveSlot, Types, Return, net
  <2>3. ASSUME NEW b \in Ops, Follows(Op, b) PROVE HeadOK(b)' /\ b.call \notin Recovering
    <3>1. CASE Op.state = "ACTIVE"
      <4>1. b.call = "assign" /\ b.t = t
        BY <2>1, <2>3, <3>1 DEF Follows, NONE
      <4>2. slots'[t] = "ACTIVE" /\ ~Hears(down', "create", t)
        BY <2>1, <2>2, <3>1 DEF SlotOK
      <4> QED
        BY <4>1, <4>2 DEF HeadOK, PlayOK, Recovering
    <3>2. CASE Op.state # "ACTIVE"
      <4>1. b.call = "after_destroy"
        BY <2>1, <2>3, <3>2 DEF Follows
      <4> QED
        BY <4>1, HeadIsFree DEF Recovering
    <3> QED
      BY <3>1, <3>2
  <2> QED
    BY <1>b, <2>1, <2>2, <2>3 DEF Recovering
<1>2. CASE SendCommand
  <2>0. PICK t \in Tables : t = Op.t
    BY <1>0, <1>2, OpFields DEF SendCommand, Calling
  <2> USE <2>0
  <2>1. SendOK(Op) /\ Op.call = "send" /\ Op.command \in {"create", "ready", "leave"}
    BY <1>0, <1>2, OpFields DEF SendCommand, Calling, HeadOK
  <2>2. UNCHANGED <<slots, marker, conn>> /\ conn # "closed"
    BY <1>2 DEF SendCommand, disk
  <2>3. CASE Op.command = "leave"
    <3> DEFINE op == TableCall("log_leave", t)
    <3>1. op \in Ops /\ op.call = "log_leave" /\ op.t = t
      BY OpsMade DEF TableCall
    <3>2. todo' = <<op>> \o Tail(todo)
      BY <1>2, <2>3 DEF SendCommand, Goto, Logged, On, TableCall
    <3> HIDE DEF op
    <3>3. HeadOK(op)' /\ op.call \notin Recovering
      BY <2>1, <2>2, <2>3, <3>1 DEF HeadOK, SendOK, Leaves, Recovering
    <3> QED
      BY <1>0, <1>c, <2>2, <3>1, <3>2, <3>3
  <2>4. CASE Op.command # "leave"
    <3>1. todo' = Tail(todo)
      BY <1>0, <1>2, <2>4, GotoIs DEF SendCommand, Goto, Logged
    <3>2. ASSUME NEW b \in Ops, Follows(Op, b) PROVE HeadOK(b)' /\ b.call \notin Recovering
      <4>1. CASE Op.command = "create"
        BY <2>1, <3>2, <4>1, HeadIsFree DEF Follows, Recovering
      <4>2. CASE Op.command = "ready"
        <5>1. b.call = "slot" /\ b.state = "READY_SENT" /\ b.t = t
          BY <2>1, <3>2, <4>2 DEF Follows
        <5> QED
          BY <2>1, <2>2, <4>2, <5>1 DEF HeadOK, SlotOK, SendOK, Recovering, NONE
      <4> QED
        BY <2>1, <2>4, <4>1, <4>2
    <3> QED
      BY <1>b, <2>1, <2>2, <3>1, <3>2 DEF Recovering
  <2> QED
    BY <2>3, <2>4
<1>3. CASE SendRaises
  BY <1>3, <1>a DEF SendRaises
<1>4. CASE LogLeave
  <2>1. todo' = Tail(todo) /\ conn' = conn /\ Op.call = "log_leave"
    BY <1>4 DEF LogLeave, Return, Calling, net
  <2> QED
    BY <1>b, <2>1, HeadIsFree DEF Follows, Recovering
<1>5. CASE SaveMarker
  <2>0. PICK t \in Tables : t = Op.t
    BY <1>0, <1>5, OpFields DEF SaveMarker, Calling
  <2> USE <2>0
  <2>1. /\ todo' = Tail(todo) /\ Op.call = "mark" /\ Leaves(t) /\ Op.reason \in Reasons
        /\ UNCHANGED <<slots, sess, server, up, conn>>
    BY <1>0, <1>5, OpFields DEF SaveMarker, Return, Calling, net, HeadOK
  <2>2. marker'[t] # NoMarker
    BY <1>5, <2>1 DEF SaveMarker, Types, Reasons, NoMarker, NONE
  <2>3. Leaves(t)'
    BY <2>1 DEF Leaves
  <2>4. ASSUME NEW b \in Ops, Follows(Op, b) PROVE HeadOK(b)' /\ b.call \notin Recovering
    <3>1. b.call = "send" /\ b.command = "leave" /\ b.t = t
      BY <2>1, <2>4 DEF Follows
    <3> QED
      BY <2>2, <2>3, <3>1 DEF HeadOK, SendOK, Recovering
  <2> QED
    BY <1>b, <2>1, <2>4 DEF Recovering
<1>6. CASE UnlinkMarker
  <2>0. PICK t \in Tables : t = Op.t
    BY <1>0, <1>6, OpFields DEF UnlinkMarker, Calling
  <2> USE <2>0
  <2>1. /\ todo' = Tail(todo) /\ Op.call = "unlink" /\ Gone(t)
        /\ UNCHANGED <<slots, sess, server, up, down, conn>>
    BY <1>0, <1>6 DEF UnlinkMarker, Return, Calling, net, HeadOK
  <2>2. marker'[t] = NoMarker
    BY <1>6 DEF UnlinkMarker, Types
  <2>3. Gone(t)'
    BY <2>1 DEF Gone, Silent
  <2>4. ASSUME NEW b \in Ops, Follows(Op, b) PROVE HeadOK(b)' /\ b.call \notin Recovering
    <3>1. b.call = "slot" /\ b.state = NONE /\ b.t = t
      BY <2>1, <2>4 DEF Follows
    <3> QED
      BY <2>2, <2>3, <3>1 DEF HeadOK, SlotOK, Recovering, NONE
  <2> QED
    BY <1>b, <2>1, <2>4 DEF Recovering
<1>7. CASE RetireTable
  <2>0. PICK t \in Tables : t = Op.t
    BY <1>0, <1>7, OpFields DEF RetireTable, Calling
  <2> USE <2>0
  <2>1. /\ RetireOK(Op) /\ Op.call = "retire" /\ Op.reason \in Reasons /\ conn # "closed"
        /\ TableOK(t)
    BY <1>0, <1>7, OpFields DEF RetireTable, Calling, HeadOK, Recovering
  <2>r. PICK r \in Reasons : r = Op.reason
    BY <2>1
  <2>2. MarkCall(t, r) \in Ops /\ SendCall(t, "leave") \in Ops
    BY <2>1, OpsMade
  <2>3. CASE slots[t] \notin {NONE, "RETIRING"} /\ marker[t] = NoMarker
    <3>1. todo' = <<MarkCall(t, r), SendCall(t, "leave")>> \o Tail(todo)
      BY <1>7, <2>3, <2>r, RetireDoes
    <3>2. /\ slots' = [slots EXCEPT ![t] = "RETIRING"] /\ slots \in [Tables -> States \cup {NONE}]
          /\ UNCHANGED <<sess, server, up, conn>>
      BY <1>7, <2>3 DEF RetireTable, net, Types, NONE
    <3>3. Leaves(t)'
      BY <2>1, <2>3, <3>2 DEF Leaves, RetireOK, TableOK, Managed, InFlight
    <3>4. MarkCall(t, r).call = "mark" /\ MarkCall(t, r).t = t
      BY DEF MarkCall
    <3> DEFINE op == MarkCall(t, r)
    <3> HIDE DEF op
    <3>5. HeadOK(op)' /\ op.call \notin Recovering
      BY <3>3, <3>4 DEF HeadOK, Recovering, op
    <3> QED
      BY <1>0, <1>c, <2>1, <2>2, <3>1, <3>2, <3>5 DEF op
  <2>4. CASE slots[t] = "RETIRING" /\ Op.retry /\ marker[t] # NoMarker
    <3> DEFINE op == SendCall(t, "leave")
    <3>1. op.call = "send" /\ op.t = t /\ op.command = "leave"
      BY DEF SendCall
    <3>2. todo' = <<op>> \o Tail(todo) /\ UNCHANGED <<slots, marker, sess, server, up, conn>>
      BY <1>7, <2>4 DEF RetireTable, Goto, Send, SendCall, disk, net, NONE
    <3>3. op \in Ops
      BY <2>2
    <3> HIDE DEF op
    <3>4. Leaves(t)'
      BY <2>1, <2>4, <3>2 DEF Leaves, RetireOK
    <3>5. HeadOK(op)' /\ op.call \notin Recovering
      BY <2>4, <3>1, <3>2, <3>4 DEF HeadOK, SendOK, Recovering
    <3> QED
      BY <1>0, <1>c, <2>1, <3>2, <3>3, <3>5
  <2>5. CASE todo' = Tail(todo) /\ conn' = conn
    BY <1>b, <2>1, <2>5, HeadIsFree DEF Follows, Recovering
  <2>6. \/ slots[t] \notin {NONE, "RETIRING"} /\ marker[t] = NoMarker
        \/ slots[t] = "RETIRING" /\ Op.retry /\ marker[t] # NoMarker
        \/ todo' = Tail(todo) /\ conn' = conn
        \/ todo' = <<>>
    BY <1>7 DEF RetireTable, Return, Raise, Stop, Ends, net
  <2> QED
    BY <1>a, <2>3, <2>4, <2>5, <2>6
<1>8. CASE RetireIdleTables
  <2>1. Op.call = "retire_idle" /\ Op.reason \in Reasons /\ UNCHANGED <<disk, sess, conn>>
        /\ conn # "closed"
    BY <1>0, <1>8, OpFields DEF RetireIdleTables, Calling, Recovering, net
  <2>2. CASE todo' = Tail(todo)
    BY <1>b, <2>1, <2>2, HeadIsFree DEF Follows, Recovering
  <2>r. PICK r \in Reasons : r = Op.reason
    BY <2>1
  <2>3. ASSUME NEW u \in Idle, todo' = Retire(u, Op.reason) \o todo PROVE HeadIsOK'
    <3>0. PICK t \in Tables : t = u
      BY <2>3 DEF Idle, Occupied
    <3> DEFINE op == RetireCall(t, r, FALSE)
    <3>1. t \in Tables /\ sess[t] \in {"new", "idle"} /\ active[t] = NoGame
      BY <2>3, <3>0 DEF Idle, Occupied, Running
    <3>2. op \in Ops /\ op.call = "retire" /\ op.t = t /\ ~op.retry
      BY <2>1, <3>1, OpsMade DEF RetireCall
    <3>3. todo' = <<op>> \o todo
      BY <2>3, <2>r, <3>0 DEF Retire, RetireCall
    <3> HIDE DEF op
    <3>4. HeadOK(op)' /\ op.call \notin Recovering
      BY <2>1, <3>1, <3>2 DEF HeadOK, RetireOK, Recovering, disk
    <3> QED
      BY <1>0, <1>c, <2>1, <3>2, <3>3, <3>4
  <2> QED
    BY <1>8, <2>2, <2>3 DEF RetireIdleTables, Return
<1>9. CASE ReadyTable
  <2>0. PICK t \in Tables : t = Op.t
    BY <1>0, <1>9, OpFields DEF ReadyTable, Calling
  <2> USE <2>0
  <2> DEFINE op == SendCall(t, "ready")
  <2>1. op \in Ops /\ SlotCall(t, "READY_SENT") \in Ops
        /\ op.call = "send" /\ op.command = "ready" /\ op.t = t
    BY OpsMade DEF SendCall
  <2>2. /\ Open(t) /\ conn # "closed" /\ UNCHANGED <<sess, server, active, up, down, conn>>
        /\ slots'[t] = "READY_INTENT"
    BY <1>0, <1>9 DEF ReadyTable, Calling, HeadOK, net, Types, Recovering
  <2>3. todo' = <<op, SlotCall(t, "READY_SENT")>> \o Tail(todo)
    BY <1>9, ReadyDoes
  <2> HIDE DEF op
  <2>4. Open(t)'
    BY <2>2 DEF Open
  <2>5. HeadOK(op)' /\ op.call \notin Recovering
    BY <2>1, <2>2, <2>4 DEF HeadOK, SendOK, Recovering
  <2> QED
    BY <1>0, <1>c, <2>1, <2>2, <2>3, <2>5
<1>10. CASE CreateNextTable
  <2>1. Op.call = "fill" /\ UNCHANGED <<sess, server, up, down, conn>> /\ conn # "closed"
    BY <1>0, <1>10 DEF CreateNextTable, Calling, Recovering, net
  <2>2. CASE todo' = Tail(todo)
    BY <1>b, <2>1, <2>2, HeadIsFree DEF Follows, Recovering
  <2>3. ASSUME NEW t \in Tables, Fresh(t), slots' = [slots EXCEPT ![t] = "PENDING_CREATE"],
               todo' = Send(t, "create") \o todo
        PROVE  HeadIsOK'
    <3> DEFINE op == SendCall(t, "create")
    <3>1. op \in Ops /\ op.call = "send" /\ op.command = "create" /\ op.t = t
      BY OpsMade DEF SendCall
    <3>2. todo' = <<op>> \o todo
      BY <2>3 DEF Send, SendCall
    <3> HIDE DEF op
    <3>3. sess[t] = "none" /\ server[t].st = "none" /\ Silent(t)
      BY <1>0, <2>3 DEF Fresh, TableOK, Managed
    <3>4. slots'[t] = "PENDING_CREATE" /\ Silent(t)'
      BY <2>1, <2>3, <3>3 DEF Silent, Types
    <3>5. HeadOK(op)' /\ op.call \notin Recovering
      BY <2>1, <3>1, <3>3, <3>4 DEF HeadOK, SendOK, Recovering
    <3> QED
      BY <1>0, <1>c, <2>1, <3>1, <3>2, <3>5
  <2> QED
    BY <1>10, <2>2, <2>3 DEF CreateNextTable, Return
<1>11. CASE Outcome
  <2>1. Tail(todo) = <<>>
    BY <1>0, <1>11, Alone DEF Outcome, Calling
  <2>2. CASE todo' = Do("wait") /\ conn' = "closed"
    <3>1. todo' = <<PlainCall("wait")>> /\ PlainCall("wait").call = "wait"
      BY <2>2 DEF Do, PlainCall
    <3>2. todo' # <<>> /\ todo'[1] = PlainCall("wait")
      BY <3>1
    <3> QED
      BY <2>2, <3>1, <3>2, HeadIsFree, HeadBecomes DEF Recovering
  <2> QED
    BY <1>11, <1>a, <2>1, <2>2 DEF Outcome, Return, Hangup
<1>12. CASE WaitForMirrorCapacity
  BY <1>0, <1>12, <1>a, Alone DEF WaitForMirrorCapacity, Calling, Return
<1>13. CASE Assign
  <2>0. PICK t \in Tables : t = Op.t
    BY <1>0, <1>13, OpFields DEF Assign, Calling
  <2> USE <2>0
  <2>1. /\ PlayOK(Op) /\ Op.call = "assign" /\ Op.n \in 1..MaxGames
        /\ UNCHANGED <<slots, down, conn>> /\ todo' = Tail(todo)
    BY <1>0, <1>13, OpFields DEF Assign, Calling, HeadOK, net, Return
  <2>2. active'[t] # NoGame
    <3> DEFINE game(arm) == [n |-> Op.n, arm |-> arm, primary |-> Missing]
    <3>1. \A arm : game(arm).n = Op.n
      OBVIOUS
    <3>2. \/ active[t] # NoGame /\ active' = active
          \/ \E arm \in Arms : active' = [active EXCEPT ![t] = game(arm)]
      BY <1>13 DEF Assign, Arms
    <3> HIDE DEF game
    <3>3. (active[t] # NoGame /\ active' = active) \/ \E arm \in Arms : active'[t] = game(arm)
      BY <3>2 DEF Types
    <3>4. NoGame.n = 0 /\ Op.n # 0
      BY <2>1 DEF NoGame
    <3>5. CASE active[t] # NoGame /\ active' = active
      BY <3>5
    <3>6. ASSUME NEW arm \in Arms, active'[t] = game(arm) PROVE active'[t] # NoGame
      BY <3>1, <3>4, <3>6
    <3> QED
      BY <3>3, <3>5, <3>6
  <2>3. ASSUME NEW b \in Ops, Follows(Op, b) PROVE HeadOK(b)' /\ b.call \notin Recovering
    <3>1. b.call = "play" /\ b.t = t
      BY <2>1, <2>3 DEF Follows
    <3> QED
      BY <2>1, <2>2, <3>1 DEF HeadOK, PlayOK, Recovering
  <2> QED
    BY <1>b, <2>1, <2>3 DEF Recovering
<1>14. CASE PlayGame
  BY <1>0, <1>14, <1>a, Alone DEF PlayGame, Calling, Return
<1>15. CASE Package
  <2>0. PICK t \in Tables : t = Op.t
    BY <1>0, <1>15, OpFields DEF Package, Calling
  <2> USE <2>0
  <2>1. /\ GameOK(Op) /\ Op.call = "package"
        /\ UNCHANGED <<active, sess, conn>> /\ todo' = Tail(todo)
    BY <1>0, <1>15 DEF Package, Calling, HeadOK, net, Return
  <2>2. GameOf(t) \in DOMAIN evidence' /\ GameOf(t)' = GameOf(t)
    BY <1>15, <2>1 DEF Package, GameOf
  <2>3. ASSUME NEW b \in Ops, Follows(Op, b) PROVE HeadOK(b)' /\ b.call \notin Recovering
    <3>1. b.call = "record" /\ b.t = t
      BY <2>1, <2>3 DEF Follows
    <3>2. GameOK(b)'
      BY <2>1, <2>2, <3>1 DEF GameOK, GameOf
    <3> QED
      BY <3>1, <3>2 DEF HeadOK, Recovering
  <2> QED
    BY <1>b, <2>1, <2>3 DEF Recovering
<1>16. CASE Record
  <2>1. /\ GameOK(Op) /\ Op.call = "record"
        /\ UNCHANGED <<active, sess, conn>> /\ todo' = Tail(todo)
    BY <1>0, <1>16 DEF Record, Calling, HeadOK, net, Return
  <2>2. ASSUME NEW b \in Ops, Follows(Op, b) PROVE HeadOK(b)' /\ b.call \notin Recovering
    <3>1. b.call = "withdraw" /\ b.t = Op.t
      BY <2>1, <2>2 DEF Follows
    <3> QED
      BY <2>1, <3>1 DEF HeadOK, GameOK, Recovering
  <2> QED
    BY <1>b, <2>1, <2>2 DEF Recovering
<1>17. CASE Withdraw
  <2>0. PICK t \in Tables : t = Op.t
    BY <1>0, <1>17, OpFields DEF Withdraw, Calling
  <2> USE <2>0
  <2>1. /\ GameOK(Op) /\ Op.call = "withdraw"
        /\ UNCHANGED <<sess, conn>> /\ todo' = Tail(todo)
        /\ active'[t] = NoGame
    BY <1>0, <1>17 DEF Withdraw, Calling, HeadOK, net, Return, Types
  <2>2. ASSUME NEW b \in Ops, Follows(Op, b) PROVE HeadOK(b)' /\ b.call \notin Recovering
    <3>1. b.call \in {"after_end", "retire"} /\ b.t = t /\ (b.call = "retire" => ~b.retry)
      BY <2>1, <2>2 DEF Follows
    <3> QED
      BY <2>1, <3>1 DEF HeadOK, GameOK, RetireOK, Recovering
  <2> QED
    BY <1>b, <2>1, <2>2 DEF Recovering
<1>18. CASE AfterEnd
  <2>0. PICK t \in Tables : t = Op.t
    BY <1>0, <1>18, OpFields DEF AfterEnd, Calling
  <2> USE <2>0
  <2>1. Op.call = "after_end" /\ active[t] = NoGame
    BY <1>0, <1>18 DEF AfterEnd, Calling, HeadOK
  <2>2. Rested(t) /\ conn # "closed" /\ UNCHANGED <<disk, sess, server, up, down, conn>>
    <3>1. 1 \in DOMAIN todo
      BY <1>0, TailIs
    <3> QED
      BY <1>0, <1>18, <2>1, <3>1 DEF AfterEnd, TablesInv, EndIsOK, Recovering, net
  <2>3. ASSUME NEW r \in Reasons
        PROVE  /\ RetireCall(t, r, FALSE) \in Ops /\ IdleCall(r) \in Ops
               /\ HeadOK(RetireCall(t, r, FALSE))' /\ RetireCall(t, r, FALSE).call \notin Recovering
    <3> DEFINE op == RetireCall(t, r, FALSE)
    <3>1. op \in Ops /\ IdleCall(r) \in Ops /\ op.call = "retire" /\ op.t = t /\ ~op.retry
      BY OpsMade, PlainOpsMade DEF RetireCall
    <3> HIDE DEF op
    <3>2. HeadOK(op)' /\ op.call \notin Recovering
      BY <2>1, <2>2, <3>1 DEF HeadOK, RetireOK, Rested, Recovering, disk
    <3> QED
      BY <3>1, <3>2 DEF op
  <2>4. /\ TableCall("ready", t) \in Ops /\ HeadOK(TableCall("ready", t))'
        /\ TableCall("ready", t).call \notin Recovering
    <3> DEFINE op == TableCall("ready", t)
    <3>1. op \in Ops /\ op.call = "ready" /\ op.t = t
      BY OpsMade DEF TableCall
    <3> HIDE DEF op
    <3>2. Open(t)'
      BY <2>1, <2>2 DEF Open, Rested, disk
    <3>3. HeadOK(op)' /\ op.call \notin Recovering
      BY <2>2, <3>1, <3>2 DEF HeadOK, Rested, Recovering, disk
    <3> QED
      BY <3>1, <3>3 DEF op
  <2>5. "OTHER" \in Reasons
    BY DEF Reasons
  <2>6. CASE \E r \in Reasons : todo' = <<RetireCall(t, r, FALSE), IdleCall(r)>> \o Tail(todo)
    BY <1>0, <1>c, <2>2, <2>3, <2>6
  <2>7. CASE todo' = <<TableCall("ready", t)>> \o Tail(todo)
    BY <1>0, <1>c, <2>2, <2>4, <2>7
  <2>8. CASE todo' = <<RetireCall(t, "OTHER", FALSE)>> \o Tail(todo)
    BY <1>0, <1>c, <2>2, <2>3, <2>5, <2>8
  <2> QED
    BY <1>18, <2>6, <2>7, <2>8, AfterEndDoes
<1>19. CASE AfterDestroy
  <2>1. conn # "closed" /\ conn' = conn
    BY <1>0, <1>19 DEF AfterDestroy, Calling, Recovering, net
  <2>2. PlainCall("fill") \in Ops /\ PlainCall("outcome") \in Ops
        /\ PlainCall("fill").call = "fill"
    BY PlainOpsMade DEF PlainCall
  <2>3. \A r \in Reasons : IdleCall(r) \in Ops /\ IdleCall(r).call = "retire_idle"
    BY PlainOpsMade DEF IdleCall
  <2>4. \A r \in Reasons : HeadOK(IdleCall(r))'
    BY <2>3, HeadIsFree
  <2>5. HeadOK(PlainCall("fill"))'
    BY <2>2, HeadIsFree
  <2> QED
    BY <1>0, <1>19, <1>c, <2>1, <2>2, <2>3, <2>4, <2>5, AfterDestroyDoes DEF Recovering
<1> QED
  BY <1>1, <1>2, <1>3, <1>4, <1>5, <1>6, <1>7, <1>8, <1>9, <1>10, <1>11, <1>12, <1>13, <1>14,
     <1>15, <1>16, <1>17, <1>18, <1>19 DEF Calls


LEMMA RowFirst ==
  /\ \A a : <<a>> # <<>> /\ <<a>>[1] = a
  /\ \A a, b : <<a, b>> # <<>> /\ <<a, b>>[1] = a
  /\ \A a, b, c : <<a, b, c>> # <<>> /\ <<a, b, c>>[1] = a
  /\ \A a, b, c, d : <<a, b, c, d>> # <<>> /\ <<a, b, c, d>>[1] = a
  OBVIOUS

LEMMA HandlersHead ==
  ASSUME SlotsAssumption, Types, TablesInv, Handlers, missed' = {}
  PROVE  HeadIsOK'
<1>0. /\ down # <<>> /\ Line \in Lines /\ Line.t \in Tables /\ conn # "closed"
      /\ \A t \in Tables : TableOK(t)
      /\ \A t : NothingNew(Tail(down), down, t)
  BY LineRead, Losing DEF Handlers, OnCreate, OnStart, OnEnd, OnTableError, OnDestroy, Reading,
                          TablesInv
<1>a. CASE todo' = <<>>
  BY <1>a DEF HeadIsOK
<1>b. PICK t \in Tables : t = Line.t
  BY <1>0
<1>c. TableOK(t)
  BY <1>0
<1> USE <1>b
<1>d. /\ \A e : Hears(Tail(down), e, t) => Hears(down, e, t)
      /\ Mentions(Tail(down), t) => Mentions(down, t)
  BY <1>0, NothingNewMeans
<1>e. ASSUME NEW op, HeadOK(op)', op.call \notin Recovering, conn' = conn,
             todo' # <<>>, todo'[1] = op
      PROVE  HeadIsOK'
  BY <1>0, <1>e, HeadBecomes
<1>f. ASSUME NEW r \in Reasons, todo' = Retire(t, r), sess'[t] # "none", active'[t] = NoGame,
             conn' = conn
      PROVE  HeadIsOK'
  <2> DEFINE op == RetireCall(t, r, FALSE)
  <2>1. op.call = "retire" /\ op.t = t /\ ~op.retry
    BY DEF RetireCall
  <2>2. todo' = <<op>>
    BY <1>f DEF Retire, RetireCall
  <2> HIDE DEF op
  <2>3. HeadOK(op)' /\ op.call \notin Recovering
    BY <1>f, <2>1 DEF HeadOK, RetireOK, Recovering
  <2>4. todo' # <<>> /\ todo'[1] = op
    BY <2>2, RowFirst
  <2> QED
    BY <1>e, <1>f, <2>3, <2>4
<1>1. CASE OnCreate
  <2>1. Line.event = "create"
    BY <1>1 DEF OnCreate, Reading, Line
  <2>2. /\ Hears(down, "create", t) /\ Mentions(down, t)
        /\ ~Hears(Tail(down), "create", t)
    BY <1>0, <2>1, LineRead
  <2>3. /\ UNCHANGED <<slots, active, marker, server, up, conn>> /\ down' = Tail(down)
        /\ sess'[t] = "new"
    BY <1>1 DEF OnCreate, Taken, Types, disk
  <2>4. ASSUME active[t] = NoGame, slots[t] = "RETIRING", todo' = RetryLeave(t) PROVE HeadIsOK'
    <3> DEFINE op == RetireCall(t, "OTHER", TRUE)
    <3>1. op.call = "retire" /\ op.t = t
      BY DEF RetireCall
    <3>2. todo' = <<op>>
      BY <2>4 DEF RetryLeave, RetireCall
    <3> HIDE DEF op
    <3>3. Leaves(t)'
      BY <1>c, <2>2, <2>3, <2>4 DEF Leaves, TableOK, InFlight
    <3>4. HeadOK(op)' /\ op.call \notin Recovering
      BY <2>3, <2>4, <3>1, <3>3 DEF HeadOK, RetireOK, Recovering
    <3>5. todo' # <<>> /\ todo'[1] = op
      BY <3>2, RowFirst
    <3> QED
      BY <1>e, <2>3, <3>4, <3>5
  <2>5. ASSUME active[t] = NoGame, slots[t] = "PENDING_CREATE", todo' = On("ready", t)
        PROVE  HeadIsOK'
    <3> DEFINE op == TableCall("ready", t)
    <3>1. op.call = "ready" /\ op.t = t
      BY DEF TableCall
    <3>2. todo' = <<op>>
      BY <2>5 DEF On, TableCall
    <3> HIDE DEF op
    <3>3. Open(t)'
      BY <1>c, <1>d, <2>2, <2>3, <2>5 DEF Open, TableOK, InFlight, Managed, NONE
    <3>4. HeadOK(op)' /\ op.call \notin Recovering
      BY <2>3, <2>5, <3>1, <3>3 DEF HeadOK, Recovering
    <3>5. todo' # <<>> /\ todo'[1] = op
      BY <3>2, RowFirst
    <3> QED
      BY <1>e, <2>3, <3>4, <3>5
  <2>6. CASE active[t] # NoGame
    <3>1. slots[t] = "ACTIVE"
      BY <1>c, <2>6 DEF TableOK, OnDisk
    <3>2. todo' = EnsureActive(t)
      BY <1>1, <2>6 DEF OnCreate
    <3>3. todo' = <<>>
      BY <3>1, <3>2 DEF EnsureActive
    <3> QED
      BY <1>a, <3>3
  <2>7. CASE active[t] = NoGame
    <3>1. \/ slots[t] = "RETIRING" /\ todo' = RetryLeave(t)
          \/ slots[t] = "PENDING_CREATE" /\ todo' = On("ready", t)
          \/ \E r \in Reasons : todo' = Retire(t, r)
      BY <1>1, <2>7 DEF OnCreate, Reasons
    <3> QED
      BY <1>f, <2>3, <2>4, <2>5, <2>7, <3>1
  <2> QED
    BY <2>6, <2>7
<1>2. CASE OnStart
  <2>1. CASE slots[t] = "RETIRING"
    BY <1>2, <1>a, <2>1 DEF OnStart, Raise, Stop, Ends
  <2>2. CASE slots[t] # "RETIRING"
    <3>1. Line.event = "start" /\ Line.n \in 1..MaxGames
      BY <1>0, <1>2, LineFields DEF OnStart, Reading, Line
    <3>2. PICK n \in 1..MaxGames : n = Line.n
      BY <3>1
    <3>3. /\ Hears(down, "start", t) /\ Mentions(down, t)
          /\ ~Hears(Tail(down), "create", t)
      BY <1>0, <3>1, LineRead
    <3>4. /\ UNCHANGED <<slots, conn>> /\ down' = Tail(down)
      BY <1>2, <2>2 DEF OnStart, Taken, disk, Raise
    <3>5. slots[t] \notin {NONE, "PENDING_CREATE", "RETIRING"}
      BY <1>c, <2>2, <3>3 DEF TableOK, Managed, Silent
    <3>6. CASE todo' = <<SlotCall(t, "ACTIVE"), AssignCall(t, n), TableCall("play", t)>>
      <4> DEFINE op == SlotCall(t, "ACTIVE")
      <4>1. op.call = "slot" /\ op.t = t /\ op.state = "ACTIVE"
        BY DEF SlotCall
      <4>2. todo' # <<>> /\ todo'[1] = op
        BY <3>6, RowFirst
      <4> HIDE DEF op
      <4>3. HeadOK(op)' /\ op.call \notin Recovering
        BY <3>3, <3>4, <3>5, <4>1 DEF HeadOK, SlotOK, Recovering, NONE
      <4> QED
        BY <1>e, <3>4, <4>2, <4>3
    <3>7. CASE slots[t] = "ACTIVE" /\ todo' = <<AssignCall(t, n), TableCall("play", t)>>
      <4> DEFINE op == AssignCall(t, n)
      <4>1. op.call = "assign" /\ op.t = t
        BY DEF AssignCall
      <4>2. todo' # <<>> /\ todo'[1] = op
        BY <3>7, RowFirst
      <4> HIDE DEF op
      <4>3. HeadOK(op)' /\ op.call \notin Recovering
        BY <3>3, <3>4, <3>7, <4>1 DEF HeadOK, PlayOK, Recovering
      <4> QED
        BY <1>e, <3>4, <4>2, <4>3
    <3>8. \/ todo' = <<SlotCall(t, "ACTIVE"), AssignCall(t, n), TableCall("play", t)>>
          \/ slots[t] = "ACTIVE" /\ todo' = <<AssignCall(t, n), TableCall("play", t)>>
      BY <1>2, <2>2, <3>2, StartDoes
    <3> QED
      BY <3>6, <3>7, <3>8
  <2> QED
    BY <2>1, <2>2
<1>3. ASSUME NEW status \in {"SCORED", "FAILED"}, NEW counts \in BOOLEAN, NEW op \in Ops,
             Finish(t, status, counts, <<op>>), active'[t] # NoGame, sess'[t] # "none",
             conn' = conn
      PROVE  HeadIsOK'
  <2> DEFINE package == PackageCall(t, status)
  <2>1. todo' # <<>> /\ todo'[1] = package
    <3>1. todo' = <<package, RecordCall(t, counts), TableCall("withdraw", t), op>>
      BY <1>3, FinishDoes
    <3> HIDE DEF package
    <3> QED
      BY <3>1, RowFirst
  <2>2. package.call = "package" /\ package.t = t
    BY DEF PackageCall
  <2> HIDE DEF package
  <2>3. HeadOK(package)' /\ package.call \notin Recovering
    BY <1>3, <2>2 DEF HeadOK, GameOK, Recovering
  <2> QED
    BY <1>3, <1>e, <2>1, <2>3
<1>4. CASE OnEnd
  <2>1. CASE ~Known(t)
    BY <1>4, <1>a, <2>1 DEF OnEnd, Raise, Stop, Ends
  <2>2. CASE active[t] # NoGame /\ Known(t)
    <3> DEFINE op == TableCall("after_end", t)
    <3>1. op \in Ops
      BY OpsMade
    <3>2. \E status \in {"SCORED", "FAILED"} :
             Finish(t, status, active[t].primary /\ ~Enough, <<op>>)
      BY <1>4, <2>2 DEF OnEnd, On, TableCall
    <3>3. PICK counts \in BOOLEAN : counts = (active[t].primary /\ ~Enough)
      OBVIOUS
    <3>4. active' = active /\ sess'[t] = "idle" /\ conn' = conn
      BY <1>4, <2>2 DEF OnEnd, disk, Types
    <3> HIDE DEF op
    <3>5. \E status \in {"SCORED", "FAILED"} : Finish(t, status, counts, <<op>>)
      BY <3>2, <3>3
    <3> QED
      BY <1>3, <2>2, <3>1, <3>4, <3>5
  <2> QED
    BY <2>1, <2>2 DEF Known
<1>5. CASE OnTableError
  <2>1. active' = active /\ sess'[t] \in {"new", "idle"} /\ conn' = conn
    BY <1>5 DEF OnTableError, disk, Types
  <2>2. CASE ~Known(t)
    <3>1. todo' = Retire(t, "OTHER") /\ "OTHER" \in Reasons
      BY <1>5, <2>2 DEF OnTableError, Reasons
    <3>2. active[t] = NoGame
      BY <1>5, <2>2 DEF OnTableError
    <3> QED
      BY <1>f, <2>1, <3>1, <3>2
  <2>3. CASE active[t] # NoGame /\ Known(t)
    <3> DEFINE op == RetireCall(t, "OTHER", FALSE)
    <3>1. op \in Ops
      BY OpsMade DEF Reasons
    <3>2. Finish(t, "FAILED", active[t].primary, <<op>>)
      BY <1>5, <2>3 DEF OnTableError, Retire, RetireCall
    <3>3. PICK counts \in BOOLEAN : counts = active[t].primary
      BY <2>3 DEF Types, GameRecord
    <3> HIDE DEF op
    <3>4. Finish(t, "FAILED", counts, <<op>>)
      BY <3>2, <3>3
    <3> QED
      BY <1>3, <2>1, <2>3, <3>1, <3>4
  <2> QED
    BY <2>2, <2>3 DEF Known
<1>6. CASE OnDestroy
  <2>1. Line.event = "destroy"
    BY <1>6 DEF OnDestroy, Reading, Line
  <2>2. Hears(down, "destroy", t) /\ ~Mentions(Tail(down), t)
    BY <1>0, <2>1, LineRead
  <2>3. CASE active[t] # NoGame
    BY <1>6, <1>a, <2>3 DEF OnDestroy, Raise, Stop, Ends
  <2>4. CASE active[t] = NoGame
    <3> DEFINE op == TableCall("unlink", t)
    <3>1. op.call = "unlink" /\ op.t = t
      BY DEF TableCall
    <3>0. todo' = <<op, SlotCall(t, NONE), PlainCall("after_destroy")>>
      BY <1>6, <2>4, DestroyDoes
    <3>2. todo' # <<>> /\ todo'[1] = op
      BY <3>0, RowFirst
    <3> HIDE DEF op
    <3>3. /\ UNCHANGED <<slots, server, up, conn>> /\ down' = Tail(down) /\ sess'[t] = "none"
      BY <1>6, <2>4 DEF OnDestroy, Taken, Types
    <3>4. Gone(t)'
      BY <1>c, <2>2, <3>3 DEF Gone, Silent, TableOK, InFlight, Managed
    <3>5. HeadOK(op)' /\ op.call \notin Recovering
      BY <3>1, <3>4 DEF HeadOK, Recovering
    <3> QED
      BY <1>e, <3>2, <3>3, <3>5
  <2> QED
    BY <2>3, <2>4
<1> QED
  BY <1>1, <1>2, <1>4, <1>5, <1>6 DEF Handlers


LEMMA SessionHead ==
  ASSUME SlotsAssumption, Types, TablesInv, Session
  PROVE  HeadIsOK'
<1>0. \A t \in Tables : TableOK(t)
  BY DEF TablesInv
<1>a. CASE todo' = <<>>
  BY <1>a DEF HeadIsOK
<1>1. CASE Connect
  <2>1. PlainCall("fill").call = "fill"
    BY DEF PlainCall
  <2>2. todo' # <<>> /\ todo'[1] = PlainCall("fill")
    BY <1>1, ConnectDoes, RowFirst
  <2> QED
    BY <1>1, <2>1, <2>2, HeadIsFree, HeadBecomes DEF Connect, Recovering
<1>2. CASE ReadRaises
  BY <1>2, <1>a DEF ReadRaises
<1>3. CASE Restart
  <2> DEFINE op == PlainCall("confirm")
  <2>1. op.call = "confirm"
    BY DEF PlainCall
  <2>2. todo' # <<>> /\ todo'[1] = op
    BY <1>3, RestartDoes, RowFirst
  <2> HIDE DEF op
  <2>3. confirmed' = {} /\ conn' = "closed"
    BY <1>3 DEF Restart, TablesInv, ConnOK, net
  <2>4. HeadOK(op)'
    BY <2>1, <2>3 DEF HeadOK, RecoveryOK
  <2> QED
    BY <2>1, <2>2, <2>3, <2>4, HeadBecomes DEF Recovering
<1>b. ASSUME todo # <<>>, Op.call \in {"confirm", "recover", "restore"}
      PROVE  /\ todo[1] = Op /\ RecoveryOK /\ conn = "closed" /\ Op \in Ops
             /\ Tail(todo) \in Seq(Ops)
             /\ Tail(todo) # <<>> => Tail(todo)[1] \in Ops /\ Follows(Op, Tail(todo)[1])
  BY <1>b, CallIs, RestIs DEF HeadOK, Recovering
<1>c. ASSUME todo # <<>>, Op.call \in {"confirm", "recover", "restore"},
             todo' = Tail(todo), conn' = conn,
             Op.call # "restore" => RecoveryOK'
      PROVE  HeadIsOK'
  <2>1. CASE Tail(todo) # <<>>
    <3>1. PICK b \in Ops : b = Tail(todo)[1] /\ Follows(Op, b)
      BY <1>b, <1>c, <2>1
    <3>2. b.call \in Recovering /\ b.call # "confirm" /\ (Op.call = "restore" => b.call = "wait")
      BY <1>c, <3>1 DEF Follows, Recovering
    <3>3. HeadOK(b)'
      BY <1>c, <3>2 DEF HeadOK, Recovering
    <3> QED
      BY <1>b, <1>c, <2>1, <3>1, <3>2, <3>3, HeadBecomes
  <2> QED
    BY <1>a, <1>c, <2>1
<1>4. CASE Confirm
  <2>1. todo # <<>> /\ Op.call = "confirm" /\ UNCHANGED <<slots, server, conn>>
    BY <1>4 DEF Confirm, Calling, net
  <2>2. CASE todo' = Tail(todo) /\ UNCHANGED <<marker, confirmed>>
    <3>1. RecoveryOK'
      BY <1>b, <2>1, <2>2 DEF RecoveryOK
    <3> QED
      BY <1>c, <2>1, <2>2, <3>1
  <2>3. ASSUME NEW t \in Tables, marker[t] # NoMarker, marker[t].log = "confirmed",
               marker' = [marker EXCEPT ![t] = NoMarker], confirmed' = confirmed \cup {t},
               todo' = todo
        PROVE  HeadIsOK'
    <3>1. slots[t] = "RETIRING" /\ server[t].st = "none"
      BY <1>0, <2>3 DEF TableOK, OnDisk
    <3>2. RecoveryOK'
      BY <1>b, <2>1, <2>3, <3>1 DEF RecoveryOK, Types
    <3>3. PICK op \in Ops : op = Op
      BY <1>b, <2>1
    <3>4. HeadOK(op)'
      BY <2>1, <3>2, <3>3 DEF HeadOK
    <3> QED
      BY <1>b, <2>1, <2>3, <3>3, <3>4, HeadBecomes DEF Recovering
  <2> QED
    BY <1>4, <2>2, <2>3 DEF Confirm, Return, Holding
<1>5. CASE Recover
  <2>1. todo # <<>> /\ Op.call = "recover"
    BY <1>5 DEF Recover, Calling
  <2>2. \/ todo' = <<>>
        \/ todo' = Tail(todo) /\ UNCHANGED <<slots, marker, confirmed, server, conn>>
    BY <1>5 DEF Recover, Return, Raise, Stop, Ends, flags, net
  <2>3. CASE todo' = Tail(todo) /\ UNCHANGED <<slots, marker, confirmed, server, conn>>
    <3>1. RecoveryOK'
      BY <1>b, <2>1, <2>3 DEF RecoveryOK
    <3> QED
      BY <1>c, <2>1, <2>3, <3>1
  <2> QED
    BY <1>a, <2>2, <2>3
<1>6. CASE Restore
  <2>1. todo # <<>> /\ Op.call = "restore"
    BY <1>6 DEF Restore, Calling
  <2>2. todo' = <<>> \/ (todo' = Tail(todo) /\ conn' = conn)
    BY <1>6 DEF Restore, Return, Raise, Stop, Ends, net
  <2> QED
    BY <1>a, <1>c, <2>1, <2>2
<1> QED
  BY <1>1, <1>2, <1>3, <1>4, <1>5, <1>6 DEF Session, Recovery

LEMMA HeadKept ==
  ASSUME SlotsAssumption, Types, TablesInv, [Next]_vars, missed' = {}
  PROVE  HeadIsOK'
<1>1. CASE UNCHANGED vars
  <2>1. CASE todo # <<>>
    <3>1. PICK op \in Ops : op = todo[1]
      BY <2>1, CallIs
    <3>2. HeadOK(op) /\ (op.call \in Recovering <=> conn = "closed")
      BY <2>1, <3>1 DEF TablesInv, HeadIsOK
    <3>3. HeadOK(op)'
      BY <1>1, <3>2 DEF vars, disk, flags, net, HeadOK, SlotOK, SendOK, RetireOK, PlayOK, GameOK,
         RecoveryOK, Leaves, Open, Gone, GameOf, Silent
    <3> QED
      BY <1>1, <2>1, <3>1, <3>2, <3>3, HeadBecomes DEF vars, net
  <2> QED
    BY <1>1, <2>1 DEF vars, HeadIsOK
<1>2. CASE Break \/ Server
  <2>1. todo' = todo /\ (conn' = "closed" <=> conn = "closed")
    BY <1>2 DEF Break, Server, ServerTakes, StartGame, EndGame, Refuse
  <2>2. CASE todo # <<>>
    <3>1. PICK op \in Ops : op = todo[1]
      BY <2>2, CallIs
    <3>2. HeadOK(op) /\ (op.call \in Recovering <=> conn = "closed")
      BY <2>2, <3>1 DEF TablesInv, HeadIsOK
    <3>3. HeadOK(op)'
      BY <1>2, <3>2, HeadStays
    <3> QED
      BY <2>1, <2>2, <3>1, <3>2, <3>3, HeadBecomes
  <2> QED
    BY <2>1, <2>2 DEF HeadIsOK
<1>3. CASE Die
  BY <1>3 DEF Die, Stop, Ends, HeadIsOK
<1> QED
  BY <1>1, <1>2, <1>3, CallsHead, HandlersHead, SessionHead DEF Next, Breakage


Ending == {"package", "record", "withdraw", "after_end"}

LEMMA CallsTodo ==
  ASSUME Types, TablesInv, Calls
  PROVE  todo # <<>> /\ Op \in Ops /\ Tail(todo) \in Seq(Ops) /\ todo \in Seq(Ops)
BY CallIs, RestIs DEF Calls, Calling, SaveSlot, SendCommand, SendRaises, LogLeave, SaveMarker,
          UnlinkMarker, RetireTable, RetireIdleTables, ReadyTable, CreateNextTable, Outcome,
          WaitForMirrorCapacity, Assign, PlayGame, Package, Record, Withdraw, AfterEnd,
          AfterDestroy, Types

\* A call puts other calls before what is left to do, takes itself from it, or
\* ends the session.  Calls that begin, or end, a game are made by none.
Starting(op) == op.call = "assign" \/ (op.call = "slot" /\ op.state = "ACTIVE")

Ordinary(op) == op \in Ops /\ op.call \notin Ending /\ ~Starting(op)

Adds(rest) == \E op : /\ Ordinary(op)
                      /\ todo' = <<op>> \o rest \/ \E b \in Ops : todo' = <<op, b>> \o rest

LEMMA CallsShape ==
  ASSUME SlotsAssumption, Types, TablesInv, Calls
  PROVE  \/ todo' = Tail(todo)
         \/ down' = <<>> /\ (todo' = <<>> \/ todo' = <<PlainCall("wait")>>)
         \/ Adds(Tail(todo)) \/ Adds(todo)
<1>0. /\ todo # <<>> /\ Op \in Ops /\ Tail(todo) \in Seq(Ops) /\ todo \in Seq(Ops)
  BY CallsTodo
<1>1. ASSUME NEW op \in Ops, op.call \notin Ending /\ ~Starting(op),
             NEW rest \in {todo, Tail(todo)},
             todo' = <<op>> \o rest \/ \E b \in Ops : todo' = <<op, b>> \o rest
      PROVE  Adds(Tail(todo)) \/ Adds(todo)
  BY <1>1 DEF Adds, Ordinary
<1>2. /\ \A t, c : SendCall(t, c).call \notin Ending /\ ~Starting(SendCall(t, c))
      /\ \A t, r : MarkCall(t, r).call \notin Ending /\ ~Starting(MarkCall(t, r))
      /\ \A t, r, b : RetireCall(t, r, b).call \notin Ending /\ ~Starting(RetireCall(t, r, b))
      /\ \A r : IdleCall(r).call \notin Ending /\ ~Starting(IdleCall(r))
      /\ \A c \in {"log_leave", "ready"} :
            \A t : TableCall(c, t).call \notin Ending /\ ~Starting(TableCall(c, t))
      /\ PlainCall("fill").call \notin Ending /\ ~Starting(PlainCall("fill"))
  BY DEF SendCall, MarkCall, RetireCall, IdleCall, TableCall, PlainCall, Ending, Starting
<1>3. CASE SendCommand
  <2>1. Op.t \in Tables
    BY <1>0, <1>3, OpFields DEF SendCommand, Calling
  <2>2. CASE Op.command # "leave"
    BY <1>0, <1>3, <2>2, GotoIs DEF SendCommand, Goto, Logged
  <2>3. CASE Op.command = "leave"
    <3>1. todo' = <<TableCall("log_leave", Op.t)>> \o Tail(todo)
      BY <1>3, <2>3 DEF SendCommand, Goto, Logged, On, TableCall
    <3> QED
      BY <1>0, <1>1, <1>2, <2>1, <3>1, OpsMade
  <2> QED
    BY <2>2, <2>3
<1>4. CASE RetireTable
  <2>1. Op.t \in Tables /\ Op.reason \in Reasons
    BY <1>0, <1>4, OpFields DEF RetireTable, Calling
  <2>2. MarkCall(Op.t, Op.reason) \in Ops /\ SendCall(Op.t, "leave") \in Ops
    BY <2>1, OpsMade
  <2>3. CASE slots[Op.t] \notin {NONE, "RETIRING"} /\ marker[Op.t] = NoMarker
    BY <1>0, <1>1, <1>2, <1>4, <2>2, <2>3, RetireDoes
  <2>4. CASE todo' = Send(Op.t, "leave") \o Tail(todo)
    <3>1. todo' = <<SendCall(Op.t, "leave")>> \o Tail(todo)
      BY <2>4 DEF Send, SendCall
    <3> QED
      BY <1>0, <1>1, <1>2, <2>2, <3>1
  <2>5. \/ todo' = Tail(todo) \/ (todo' = <<>> /\ down' = <<>>)
        \/ slots[Op.t] \notin {NONE, "RETIRING"} /\ marker[Op.t] = NoMarker
        \/ todo' = Send(Op.t, "leave") \o Tail(todo)
    BY <1>4 DEF RetireTable, Return, Raise, Stop, Ends, Hangup, Goto
  <2> QED
    BY <2>3, <2>4, <2>5
<1>5. CASE RetireIdleTables
  <2>1. ASSUME NEW t \in Idle, todo' = Retire(t, Op.reason) \o todo
        PROVE  Adds(todo)
    <3>1. RetireCall(t, Op.reason, FALSE) \in Ops
      BY <1>0, <1>5, <2>1, OpFields, OpsMade DEF RetireIdleTables, Calling, Idle, Occupied
    <3>2. todo' = <<RetireCall(t, Op.reason, FALSE)>> \o todo
      BY <2>1 DEF Retire, RetireCall
    <3> QED
      BY <1>2, <3>1, <3>2 DEF Adds, Ordinary
  <2> QED
    BY <1>5, <2>1 DEF RetireIdleTables, Return
<1>6. CASE ReadyTable
  <2>1. Op.t \in Tables
    BY <1>0, <1>6, OpFields DEF ReadyTable, Calling
  <2>2. SendCall(Op.t, "ready") \in Ops /\ SlotCall(Op.t, "READY_SENT") \in Ops
    BY <2>1, OpsMade
  <2> QED
    BY <1>0, <1>1, <1>2, <1>6, <2>2, ReadyDoes
<1>7. CASE CreateNextTable
  <2>1. ASSUME NEW t \in Tables, todo' = Send(t, "create") \o todo
        PROVE  Adds(todo)
    <3>1. SendCall(t, "create") \in Ops /\ todo' = <<SendCall(t, "create")>> \o todo
      BY <2>1, OpsMade DEF Send, SendCall
    <3> QED
      BY <1>2, <3>1 DEF Adds, Ordinary
  <2> QED
    BY <1>7, <2>1 DEF CreateNextTable, Return
<1>8. CASE Outcome
  <2>1. CASE todo' = Do("wait")
    <3>1. todo' = <<PlainCall("wait")>>
      BY <2>1 DEF Do, PlainCall
    <3> QED
      BY <1>8, <2>1, <3>1 DEF Outcome, Hangup, Return
  <2> QED
    BY <1>8, <2>1 DEF Outcome, Hangup, Return
<1>9. CASE AfterEnd
  <2>1. Op.t \in Tables
    BY <1>0, <1>9, OpFields DEF AfterEnd, Calling
  <2>2. TableCall("ready", Op.t) \in Ops /\ RetireCall(Op.t, "OTHER", FALSE) \in Ops
    BY <2>1, OpsMade DEF Reasons
  <2>3. \A r \in Reasons : RetireCall(Op.t, r, FALSE) \in Ops /\ IdleCall(r) \in Ops
    BY <2>1, OpsMade, PlainOpsMade
  <2> QED
    BY <1>0, <1>1, <1>2, <1>9, <2>2, <2>3, AfterEndDoes
<1>10. CASE AfterDestroy
  <2>1. PlainCall("fill") \in Ops /\ PlainCall("outcome") \in Ops
        /\ \A r \in Reasons : IdleCall(r) \in Ops
    BY PlainOpsMade
  <2> QED
    BY <1>0, <1>1, <1>2, <1>10, <2>1, AfterDestroyDoes
<1> QED
  BY <1>3, <1>4, <1>5, <1>6, <1>7, <1>8, <1>9, <1>10
     DEF Calls, Return, Hangup, SaveSlot, SendRaises, LogLeave, SaveMarker, UnlinkMarker,
         WaitForMirrorCapacity, Assign, PlayGame, Package, Record, Withdraw

LEMMA CallsFirst ==
  ASSUME SlotsAssumption, Types, TablesInv, Calls
  PROVE  \/ todo' = <<>> \/ todo' = Tail(todo)
         \/ todo' # <<>> /\ todo'[1].call \notin Ending /\ ~Starting(todo'[1])
<1>1. todo \in Seq(Ops) /\ Tail(todo) \in Seq(Ops)
  BY CallsTodo
<1>2. ASSUME NEW rest \in Seq(Ops), Adds(rest)
      PROVE  todo' # <<>> /\ todo'[1].call \notin Ending /\ ~Starting(todo'[1])
  <2>1. PICK op \in Ops :
           /\ op.call \notin Ending /\ ~Starting(op)
           /\ todo' = <<op>> \o rest \/ \E b \in Ops : todo' = <<op, b>> \o rest
    BY <1>2 DEF Adds, Ordinary
  <2>2. CASE todo' = <<op>> \o rest
    BY <2>1, <2>2, FirstIs
  <2>3. ASSUME NEW b \in Ops, todo' = <<op, b>> \o rest
        PROVE  todo' # <<>> /\ todo'[1] = op
    BY <2>3, FirstIs
  <2> QED
    BY <2>1, <2>2, <2>3
<1>3. CASE todo' = <<PlainCall("wait")>>
  <2>1. todo' # <<>> /\ todo'[1] = PlainCall("wait")
    BY <1>3, RowFirst
  <2> QED
    BY <2>1 DEF PlainCall, Ending, Starting
<1> QED
  BY <1>1, <1>2, <1>3, CallsShape

\* The end of a game is awaited only by the calls that come before it.
LEMMA EndIsNear ==
  ASSUME NEW ops \in Seq(Ops), FlowOf(ops), ops # <<>> => ops[1].call \notin Ending
  PROVE  \A i \in DOMAIN ops : ops[i].call # "after_end"
<1>1. ASSUME NEW i \in DOMAIN ops, ops[i].call = "after_end" PROVE FALSE
  <2>1. ops # <<>>
    BY <1>1, EmptyIs
  <2>2. ops[1].call \in Ending
    BY <1>1, EndIsAhead DEF Ending
  <2> QED
    BY <1>1, <2>1, <2>2
<1> QED
  BY <1>1

LEMMA EndBecomes ==
  ASSUME \A i \in DOMAIN todo' : todo'[i].call = "after_end" =>
            \E t \in Tables : todo'[i].t = t /\ Rested(t)'
  PROVE  EndIsOK'
  BY DEF EndIsOK, Rested

LEMMA CallsEnd ==
  ASSUME SlotsAssumption, Types, TablesInv, Calls
  PROVE  EndIsOK'
<1>0. /\ todo # <<>> /\ Op \in Ops /\ todo \in Seq(Ops) /\ Op = todo[1] /\ FlowOf(todo)
      /\ Tail(todo) \in Seq(Ops) /\ FlowOf(Tail(todo))
      /\ Tail(todo) # <<>> => Tail(todo)[1] \in Ops /\ Follows(Op, Tail(todo)[1])
  BY CallIs, RestIs DEF Calls, Calling, SaveSlot, SendCommand, SendRaises, LogLeave, SaveMarker,
          UnlinkMarker, RetireTable, RetireIdleTables, ReadyTable, CreateNextTable, Outcome,
          WaitForMirrorCapacity, Assign, PlayGame, Package, Record, Withdraw, AfterEnd,
          AfterDestroy, Types, TablesInv, Flow
<1>1. todo' \in Seq(Ops) /\ FlowOf(todo')
  BY CallsTypes, CallsFlow DEF Types, Flow, FlowOf
<1>2. ASSUME todo' # <<>> => todo'[1].call \notin Ending PROVE EndIsOK'
  <2>1. \A i \in DOMAIN todo' : todo'[i].call # "after_end"
    BY <1>1, <1>2, EndIsNear
  <2> QED
    BY <2>1 DEF EndIsOK
<1>3. CASE todo' = <<>>
  BY <1>2, <1>3
<1>4. CASE todo' = Tail(todo)
  <2>1. CASE Op.call \notin Ending
    <3>1. \A b \in Ops : Follows(Op, b) => b.call \notin Ending
      <4>1. ASSUME NEW b \in Ops, Follows(Op, b), b.call \in Ending PROVE FALSE
        BY <1>0, <2>1, <4>1, OpFields DEF Follows, Ending
      <4> QED
        BY <4>1
    <3> QED
      BY <1>0, <1>2, <1>4, <3>1
  <2>2. CASE Op.call \in Ending
    <3>1. Package \/ Record \/ Withdraw \/ AfterEnd
      BY <2>2 DEF Calls, Calling, Ending, SaveSlot, SendCommand, SendRaises, LogLeave, SaveMarker,
          UnlinkMarker, RetireTable, RetireIdleTables, ReadyTable, CreateNextTable, Outcome,
          WaitForMirrorCapacity, Assign, PlayGame, AfterDestroy
    <3>2. UNCHANGED <<slots, sess, server, up, down>>
      BY <3>1 DEF Package, Record, Withdraw, AfterEnd, net, disk
    <3>3. ASSUME NEW i \in DOMAIN todo', todo'[i].call = "after_end" 
          PROVE  \E t \in Tables : todo'[i].t = t /\ Rested(t)'
      <4>1. i + 1 \in DOMAIN todo /\ todo'[i] = todo[i + 1]
        BY <1>0, <1>4, <3>3, TailIs
      <4>2. PICK t \in Tables : t = todo[i + 1].t
        BY <1>0, <3>3, <4>1, SeqIs, OpFields
      <4>3. Rested(t)
        BY <3>3, <4>1, <4>2 DEF TablesInv, EndIsOK
      <4>4. Rested(t)'
        BY <3>2, <4>3 DEF Rested
      <4> QED
        BY <4>1, <4>2, <4>4
    <3> QED
      BY <3>3, EndBecomes
  <2> QED
    BY <2>1, <2>2
<1> QED
  BY <1>2, <1>3, <1>4, CallsFirst

LEMMA HandlersEnd ==
  ASSUME SlotsAssumption, Types, TablesInv, Handlers
  PROVE  EndIsOK'
<1>0. /\ down # <<>> /\ Line \in Lines /\ Line.t \in Tables
      /\ \A t \in Tables : TableOK(t)
      /\ \A t : NothingNew(Tail(down), down, t)
  BY LineRead, Losing DEF Handlers, OnCreate, OnStart, OnEnd, OnTableError, OnDestroy, Reading,
                          TablesInv
<1>1. todo' \in Seq(Ops) /\ FlowOf(todo')
  BY HandlersTypes, HandlersFlow DEF Types, Flow, FlowOf
<1>2. ASSUME todo' # <<>> => todo'[1].call \notin Ending PROVE EndIsOK'
  <2>1. \A i \in DOMAIN todo' : todo'[i].call # "after_end"
    BY <1>1, <1>2, EndIsNear
  <2> QED
    BY <2>1 DEF EndIsOK
<1>b. PICK t \in Tables : t = Line.t
  BY <1>0
<1>c. TableOK(t)
  BY <1>0
<1> USE <1>b
<1>3. ASSUME NEW op, op.call \notin Ending, todo' = <<op>> PROVE EndIsOK'
  BY <1>2, <1>3, RowFirst
<1>4. CASE OnCreate
  <2>1. \/ todo' = <<>> \/ \E r : todo' = Retire(t, r)
        \/ todo' = RetryLeave(t) \/ todo' = On("ready", t) \/ todo' = Slot(t, "ACTIVE")
    BY <1>4 DEF OnCreate, EnsureActive
  <2> QED
    BY <1>2, <1>3, <2>1 DEF Retire, RetryLeave, On, Slot, Ending
<1>5. CASE OnStart
  <2>1. CASE slots[t] = "RETIRING"
    BY <1>2, <1>5, <2>1 DEF OnStart, Raise, Stop, Ends
  <2>2. CASE slots[t] # "RETIRING"
    <3>1. todo' # <<>> /\ (todo'[1] = SlotCall(t, "ACTIVE") \/ todo'[1] = AssignCall(t, Line.n))
      BY <1>5, <2>2, StartDoes, RowFirst
    <3> QED
      BY <1>2, <3>1 DEF SlotCall, AssignCall, Ending
  <2> QED
    BY <2>1, <2>2
<1>6. CASE OnEnd
  <2>1. Line.event = "end"
    BY <1>6 DEF OnEnd, Reading, Line
  <2>2. /\ Hears(down, "end", t) /\ Mentions(down, t) /\ ~Hears(Tail(down), "create", t)
        /\ \A e : Hears(Tail(down), e, t) => e \in {"error", "destroy"}
        /\ \A e : Hears(Tail(down), e, t) => Hears(down, e, t)
    BY <1>0, <2>1, LineRead, NothingNewMeans
  <2>3. CASE ~Known(t)
    BY <1>2, <1>6, <2>3 DEF OnEnd, Raise, Stop, Ends
  <2>4. CASE active[t] # NoGame /\ Known(t)
    <3> DEFINE op == TableCall("after_end", t)
    <3>1. op \in Ops /\ op.t = t
      BY OpsMade DEF TableCall
    <3>2. \E status \in {"SCORED", "FAILED"} :
             Finish(t, status, active[t].primary /\ ~Enough, <<op>>)
      BY <1>6, <2>4 DEF OnEnd, On, TableCall
    <3>3. PICK counts \in BOOLEAN : counts = (active[t].primary /\ ~Enough)
      OBVIOUS
    <3>4. /\ UNCHANGED <<slots, server, up>> /\ sess'[t] = "idle" /\ down' = Tail(down)
      BY <1>6, <2>4 DEF OnEnd, disk, Types, Taken
    <3> HIDE DEF op
    <3>5. PICK status \in {"SCORED", "FAILED"} : Finish(t, status, counts, <<op>>)
      BY <3>2, <3>3
    <3>6. todo' = <<PackageCall(t, status), RecordCall(t, counts), TableCall("withdraw", t), op>>
      BY <3>1, <3>5, FinishDoes
    <3>7. slots[t] = "ACTIVE"
      BY <1>c, <2>4 DEF TableOK, OnDisk
    <3>8. Rested(t)'
      BY <1>c, <2>2, <3>4, <3>7 DEF Rested, TableOK, InFlight, Managed, NONE
    <3>9. \A i \in DOMAIN todo' : todo'[i].call = "after_end" => todo'[i].t = t
      <4>1. /\ PackageCall(t, status).call # "after_end" /\ RecordCall(t, counts).call # "after_end"
            /\ TableCall("withdraw", t).call # "after_end"
        BY DEF PackageCall, RecordCall, TableCall
      <4> DEFINE package == PackageCall(t, status)
                 record == RecordCall(t, counts)
                 withdraw == TableCall("withdraw", t)
      <4> HIDE DEF package, record, withdraw
      <4>2. \A i \in DOMAIN <<package, record, withdraw, op>> :
               <<package, record, withdraw, op>>[i] \in {package, record, withdraw, op}
        OBVIOUS
      <4> QED
        BY <3>1, <3>6, <4>1, <4>2 DEF package, record, withdraw
    <3> QED
      BY <3>8, <3>9, EndBecomes
  <2> QED
    BY <2>3, <2>4 DEF Known
<1>7. CASE OnTableError
  <2>1. CASE ~Known(t)
    <3>1. todo' = Retire(t, "OTHER")
      BY <1>7, <2>1 DEF OnTableError
    <3> QED
      BY <1>3, <3>1 DEF Retire, Ending
  <2>2. CASE active[t] # NoGame /\ Known(t)
    <3> DEFINE op == RetireCall(t, "OTHER", FALSE)
    <3>1. op \in Ops /\ op.call # "after_end"
      BY OpsMade DEF Reasons, RetireCall
    <3>2. Finish(t, "FAILED", active[t].primary, <<op>>)
      BY <1>7, <2>2 DEF OnTableError, Retire, RetireCall
    <3>3. PICK counts \in BOOLEAN : counts = active[t].primary
      BY <2>2 DEF Types, GameRecord
    <3> HIDE DEF op
    <3>4. Finish(t, "FAILED", counts, <<op>>)
      BY <3>2, <3>3
    <3>5. todo' = <<PackageCall(t, "FAILED"), RecordCall(t, counts), TableCall("withdraw", t), op>>
      BY <3>1, <3>4, FinishDoes
    <3>6. \A i \in DOMAIN todo' : todo'[i].call # "after_end"
      <4>1. /\ PackageCall(t, "FAILED").call # "after_end" /\ RecordCall(t, counts).call # "after_end"
            /\ TableCall("withdraw", t).call # "after_end"
        BY DEF PackageCall, RecordCall, TableCall
      <4> DEFINE package == PackageCall(t, "FAILED")
                 record == RecordCall(t, counts)
                 withdraw == TableCall("withdraw", t)
      <4> HIDE DEF package, record, withdraw
      <4>2. \A i \in DOMAIN <<package, record, withdraw, op>> :
               <<package, record, withdraw, op>>[i] \in {package, record, withdraw, op}
        OBVIOUS
      <4> QED
        BY <3>1, <3>5, <4>1, <4>2 DEF package, record, withdraw
    <3> QED
      BY <3>6 DEF EndIsOK
  <2> QED
    BY <2>1, <2>2 DEF Known
<1>8. CASE OnDestroy
  <2>1. CASE active[t] # NoGame
    BY <1>2, <1>8, <2>1 DEF OnDestroy, Raise, Stop, Ends
  <2>2. CASE active[t] = NoGame
    <3>0. todo' = <<TableCall("unlink", t), SlotCall(t, NONE), PlainCall("after_destroy")>>
      BY <1>8, <2>2, DestroyDoes
    <3>1. todo' # <<>> /\ todo'[1] = TableCall("unlink", t)
      BY <3>0, RowFirst
    <3> QED
      BY <1>2, <3>1 DEF TableCall, Ending
  <2> QED
    BY <2>1, <2>2
<1> QED
  BY <1>4, <1>5, <1>6, <1>7, <1>8 DEF Handlers

LEMMA EndKept ==
  ASSUME SlotsAssumption, Types, TablesInv, [Next]_vars
  PROVE  EndIsOK'
<1>0. todo \in Seq(Ops) /\ FlowOf(todo) /\ EndIsOK
  BY DEF Types, TablesInv, Flow
<1>1. todo' \in Seq(Ops) /\ FlowOf(todo')
  BY TypesKept, FlowKept DEF Types, Flow, FlowOf
<1>2. ASSUME todo' # <<>> => todo'[1].call \notin Ending PROVE EndIsOK'
  <2>1. \A i \in DOMAIN todo' : todo'[i].call # "after_end"
    BY <1>1, <1>2, EndIsNear
  <2> QED
    BY <2>1 DEF EndIsOK
<1>3. CASE todo' = <<>>
  BY <1>2, <1>3
<1>4. CASE UNCHANGED vars
  BY <1>0, <1>4 DEF EndIsOK, Rested, vars, disk, net
<1>5. CASE Break \/ Server
  <2>1. todo' = todo
    BY <1>5 DEF Break, Server, ServerTakes, StartGame, EndGame, Refuse
  <2>2. ASSUME NEW i \in DOMAIN todo', todo'[i].call = "after_end"
        PROVE  \E t \in Tables : todo'[i].t = t /\ Rested(t)'
    <3>1. PICK t \in Tables : t = todo[i].t
      BY <1>0, <2>1, <2>2, SeqIs, OpFields
    <3>2. Rested(t)
      BY <1>0, <2>1, <2>2, <3>1 DEF EndIsOK
    <3> QED
      BY <1>5, <2>1, <3>1, <3>2, RestedStays
  <2> QED
    BY <2>2, EndBecomes
<1>6. CASE Die
  BY <1>3, <1>6 DEF Die, Stop, Ends
<1>7. CASE Session
  <2>1. CASE Connect
    <3>1. todo' # <<>> /\ todo'[1] = PlainCall("fill")
      BY <2>1, ConnectDoes, RowFirst
    <3> QED
      BY <1>2, <3>1 DEF PlainCall, Ending
  <2>2. CASE ReadRaises
    BY <1>3, <2>2 DEF ReadRaises
  <2>3. CASE Restart
    <3>1. todo' # <<>> /\ todo'[1] = PlainCall("confirm")
      BY <2>3, RestartDoes, RowFirst
    <3> QED
      BY <1>2, <3>1 DEF PlainCall, Ending
  <2>4. CASE Confirm \/ Recover \/ Restore
    <3>1. todo # <<>> /\ Op.call \in {"confirm", "recover", "restore"}
      BY <2>4 DEF Confirm, Recover, Restore, Calling
    <3>2. /\ Op \in Ops /\ Op = todo[1]
          /\ Tail(todo) # <<>> => Tail(todo)[1] \in Ops /\ Follows(Op, Tail(todo)[1])
      BY <3>1, CallIs, RestIs
    <3>3. \A b : Follows(Op, b) => b.call \notin Ending
      BY <3>1 DEF Follows, Ending
    <3>4. todo' = todo \/ todo' = Tail(todo) \/ todo' = <<>>
      BY <2>4 DEF Confirm, Recover, Restore, Return, Raise, Stop, Ends
    <3> QED
      BY <1>2, <1>3, <3>1, <3>2, <3>3, <3>4 DEF Ending
  <2> QED
    BY <1>7, <2>1, <2>2, <2>3, <2>4 DEF Session, Recovery
<1> QED
  BY <1>4, <1>5, <1>6, <1>7, CallsEnd, HandlersEnd DEF Next, Breakage

----------------------------------------------------------------------------
(* The rest of the invariant.                                              *)

LEMMA ConnKept ==
  ASSUME SlotsAssumption, Types, TablesInv, [Next]_vars
  PROVE  ConnOK'
<1>0. ConnOK
  BY DEF TablesInv
<1>1. CASE UNCHANGED vars
  BY <1>0, <1>1 DEF vars, flags, net, ConnOK
<1>2. ASSUME NEW why, Stop(why) PROVE ConnOK'
  BY <1>2 DEF Stop, Ends, Hangup, NoSession, ConnOK
<1>3. CASE Calls
  <2>1. /\ todo # <<>> /\ proc = "running" /\ (Op.call \in Recovering <=> conn = "closed")
    BY <1>3, CallIs DEF Calls, Calling, SaveSlot, SendCommand, SendRaises, LogLeave, SaveMarker,
          UnlinkMarker, RetireTable, RetireIdleTables, ReadyTable, CreateNextTable, Outcome,
          WaitForMirrorCapacity, Assign, PlayGame, Package, Record, Withdraw, AfterEnd,
          AfterDestroy
  <2>2. CASE \E why : Raise(why)
    BY <1>2, <2>2 DEF Raise
  <2>3. CASE WaitForMirrorCapacity
    BY <1>0, <2>1, <2>3 DEF WaitForMirrorCapacity, ConnOK, net
  <2>4. CASE SendRaises \/ Outcome
    BY <2>1, <2>4 DEF SendRaises, Outcome, Hangup, NoSession, ConnOK, flags, Recovering, Calling
  <2>5. ASSUME proc' = proc, conn' = conn, conn # "closed" PROVE ConnOK'
    BY <2>1, <2>5 DEF ConnOK
  <2>6. CASE ~(\E why : Raise(why)) /\ ~WaitForMirrorCapacity /\ ~SendRaises /\ ~Outcome
    <3>1. proc' = proc /\ conn' = conn /\ conn # "closed"
      BY <1>3, <2>1, <2>6 DEF Calls, Calling, SaveSlot, SendCommand, LogLeave, SaveMarker,
          UnlinkMarker, RetireTable, RetireIdleTables, ReadyTable, CreateNextTable,
          Assign, PlayGame, Package, Record, Withdraw, AfterEnd, AfterDestroy, net, Recovering
    <3> QED
      BY <2>5, <3>1
  <2> QED
    BY <2>2, <2>3, <2>4, <2>6
<1>4. CASE Handlers
  <2>1. (\E why : Raise(why)) \/ (proc = "running" /\ proc' = proc /\ conn' = conn /\ conn # "closed")
    BY <1>4, DestroyIsFree
       DEF Handlers, OnCreate, OnStart, OnEnd, OnTableError, OnDestroy, Reading
  <2> QED
    BY <1>2, <2>1 DEF Raise, ConnOK
<1>5. CASE Session
  <2>1. CASE Connect
    BY <2>1 DEF Connect, ConnOK
  <2>2. CASE ReadRaises
    BY <2>2 DEF ReadRaises, Hangup, NoSession, ConnOK, flags
  <2>3. CASE Restart
    BY <1>0, <2>3 DEF Restart, ConnOK, net
  <2>4. CASE Confirm \/ Recover \/ Restore
    <3>1. proc = "running"
      BY <2>4 DEF Confirm, Recover, Restore, Calling
    <3>2. (\E why : Raise(why)) \/ (proc' = proc /\ UNCHANGED <<conn, down, sess>>)
      BY <2>4 DEF Confirm, Recover, Restore, net
    <3> QED
      BY <1>0, <1>2, <3>1, <3>2 DEF Raise, ConnOK
  <2> QED
    BY <1>5, <2>1, <2>2, <2>3, <2>4 DEF Session, Recovery
<1>6. CASE Break
  BY <1>0, <1>6 DEF Break, ConnOK, flags
<1>7. CASE Die
  BY <1>2, <1>7 DEF Die
<1>8. CASE Server
  <2>1. /\ UNCHANGED <<proc, conn, sess, todo, confirmed>>
        /\ conn # "up" => down' = down
    BY <1>8 DEF Server, ServerTakes, StartGame, EndGame, Refuse, Tell, flags
  <2> QED
    BY <1>0, <2>1 DEF ConnOK
<1> QED
  BY <1>1, <1>3, <1>4, <1>5, <1>6, <1>7, <1>8 DEF Next, Breakage


\* A game is in the ledger only with its package.
LEMMA LedgerKept ==
  ASSUME SlotsAssumption, Types, TablesInv, [Next]_vars
  PROVE  ledger' \subseteq DOMAIN evidence'
<1>0. ledger \subseteq DOMAIN evidence
  BY DEF TablesInv
<1>1. CASE Record
  <2>1. todo # <<>> /\ Op.call = "record" /\ HeadOK(Op)
    BY <1>1, CallIs DEF Record, Calling
  <2>2. GameOf(Op.t) \in DOMAIN evidence
    BY <2>1 DEF HeadOK, GameOK
  <2> QED
    BY <1>0, <1>1, <2>2 DEF Record
<1>2. CASE Package
  BY <1>0, <1>2 DEF Package
<1>3. CASE ~Record /\ ~Package
  <2>1. UNCHANGED <<ledger, evidence>>
    BY <1>3 DEF Next, Calls, Handlers, Session, Recovery, Breakage, Server, SaveSlot, SendCommand, SendRaises,
       LogLeave, SaveMarker, UnlinkMarker, RetireTable, RetireIdleTables, ReadyTable,
       CreateNextTable, Outcome, WaitForMirrorCapacity, Assign, PlayGame, Withdraw, AfterEnd,
       AfterDestroy, OnCreate, OnStart, OnEnd, OnTableError, OnDestroy, Connect, ReadRaises,
       Restart, Confirm, Recover, Restore, Break, Die, ServerTakes, StartGame, EndGame, Refuse,
       Raise, Stop, Ends, disk, vars
  <2> QED
    BY <1>0, <2>1
<1> QED
  BY <1>1, <1>2, <1>3

\* A slot is taken only by the creation of a table, and by the recovery.
LEMMA SlotsTaken ==
  ASSUME SlotsAssumption, Types, TablesInv, [Next]_vars, ~CreateNextTable, ~Restore
  PROVE  \A t \in Tables : slots'[t] # NONE => slots[t] # NONE
<1>0. slots \in [Tables -> States \cup {NONE}]
  BY DEF Types
<1>1. CASE SaveSlot
  <2>1. todo # <<>> /\ SlotOK(Op) /\ Op.state \in {"ACTIVE", "READY_SENT", NONE}
    BY <1>1, CallIs, OpFields DEF SaveSlot, Calling, HeadOK
  <2> QED
    BY <1>0, <1>1, <2>1 DEF SaveSlot, SlotOK, NONE
<1>2. CASE ReadyTable
  <2>1. slots[Op.t] \in {"PENDING_CREATE", "ACTIVE"}
    BY <1>2, CallIs DEF ReadyTable, Calling, HeadOK
  <2> QED
    BY <1>0, <1>2, <2>1 DEF ReadyTable, NONE
<1>3. CASE RetireTable
  BY <1>0, <1>3 DEF RetireTable, Raise, Stop, Ends, disk, NONE
<1>4. CASE ~SaveSlot /\ ~ReadyTable /\ ~RetireTable
  <2>1. UNCHANGED slots
    BY <1>4 DEF Next, Calls, Handlers, Session, Recovery, Breakage, Server, SendCommand, SendRaises,
       LogLeave, SaveMarker, UnlinkMarker, RetireIdleTables,
       Outcome, WaitForMirrorCapacity, Assign, PlayGame, Package, Record, Withdraw, AfterEnd,
       AfterDestroy, OnCreate, OnStart, OnEnd, OnTableError, OnDestroy, Connect, ReadRaises,
       Restart, Confirm, Recover, Break, Die, ServerTakes, StartGame, EndGame, Refuse,
       Raise, Stop, Ends, disk, vars
  <2> QED
    BY <2>1
<1> QED
  BY <1>1, <1>2, <1>3, <1>4

\* _create_next_table and _restore_active_game_authority keep to the capacity.
LEMMA CapacityKept ==
  ASSUME SlotsAssumption, Types, TablesInv, [Next]_vars
  PROVE  Cardinality(Occupied') <= Capacity
<1>0. /\ Cardinality(Occupied) <= Capacity /\ Capacity \in Nat
      /\ IsFiniteSet(Occupied) /\ IsFiniteSet(Occupied')
      /\ slots \in [Tables -> States \cup {NONE}]
  <2>1. Occupied \subseteq Tables /\ Occupied' \subseteq Tables /\ IsFiniteSet(Tables)
    BY DEF Occupied, SlotsAssumption
  <2> QED
    BY <2>1, FS_Subset DEF TablesInv, SlotsAssumption, Types
<1>1. Cardinality(Occupied) \in Nat /\ Cardinality(Occupied') \in Nat
  BY <1>0, FS_CardinalityType
<1>2. ASSUME Occupied' \subseteq Occupied PROVE Cardinality(Occupied') <= Capacity
  <2>1. Cardinality(Occupied') <= Cardinality(Occupied)
    BY <1>0, <1>2, FS_Subset
  <2> QED
    BY <1>0, <1>1, <2>1
<1>3. CASE CreateNextTable
  <2>1. CASE UNCHANGED slots
    BY <1>2, <2>1 DEF Occupied
  <2>2. ASSUME NEW t \in Tables, slots' = [slots EXCEPT ![t] = "PENDING_CREATE"],
               slots[t] = NONE, ~(Cardinality(Occupied) >= Capacity)
        PROVE  Cardinality(Occupied') <= Capacity
    <3>1. Occupied' = Occupied \cup {t} /\ t \notin Occupied
      BY <1>0, <2>2 DEF Occupied, NONE
    <3>2. Cardinality(Occupied \cup {t}) = Cardinality(Occupied) + 1
      BY <1>0, <3>1, FS_AddElement
    <3> QED
      BY <1>0, <1>1, <2>2, <3>1, <3>2
  <2>3. \/ UNCHANGED slots
        \/ \E t \in Tables : /\ slots' = [slots EXCEPT ![t] = "PENDING_CREATE"]
                             /\ slots[t] = NONE /\ ~(Cardinality(Occupied) >= Capacity)
    BY <1>3 DEF CreateNextTable, Fresh
  <2> QED
    BY <2>1, <2>2, <2>3
<1>4. CASE Restore
  <2> DEFINE kept == [t \in Tables |-> IF t \in confirmed THEN NONE ELSE slots[t]]
             held == {t \in Tables : kept[t] # NONE} \cup Running
  <2>1. CASE slots' = [t \in Tables |-> IF t \in Running THEN "ACTIVE" ELSE kept[t]]
             /\ ~(Cardinality(held) > Capacity)
    <3>1. Occupied' = held
      <4>1. \A t \in Tables : slots'[t] # NONE <=> t \in held
        BY <2>1 DEF NONE, Running
      <4>2. held \subseteq Tables
        BY DEF Running
      <4> QED
        BY <4>1, <4>2 DEF Occupied
    <3> HIDE DEF held
    <3> QED
      BY <1>0, <1>1, <2>1, <3>1
  <2>2. CASE UNCHANGED slots
    BY <1>2, <2>2 DEF Occupied
  <2> QED
    BY <1>4, <2>1, <2>2 DEF Restore, Raise, Stop, Ends, disk
<1>5. CASE ~CreateNextTable /\ ~Restore
  <2>1. \A t \in Tables : slots'[t] # NONE => slots[t] # NONE
    BY <1>5, SlotsTaken
  <2> QED
    BY <1>2, <2>1 DEF Occupied
<1> QED
  BY <1>3, <1>4, <1>5

\* All conjuncts are kept.
LEMMA TablesInvKept ==
  ASSUME SlotsAssumption, Types, TablesInv, [Next]_vars, missed' = {}
  PROVE  TablesInv'
BY TablesKept, OrdersKept, FlowKept, HeadKept, EndKept, ConnKept, LedgerKept, CapacityKept
   DEF TablesInv, LineOrder, CommandOrder, Occupied

LEMMA InitTables ==
  ASSUME SlotsAssumption, Init
  PROVE  TablesInv
<1>1. \A t \in Tables : TableOK(t)
  <2>1. ASSUME NEW t \in Tables PROVE TableOK(t)
    <3>1. /\ slots[t] = NONE /\ active[t] = NoGame /\ marker[t] = NoMarker
          /\ server[t].st = "none" /\ sess[t] = "none" /\ up = <<>> /\ down = <<>>
      BY DEF Init, NoSession
    <3>2. /\ ~Mentions(up, t) /\ \A c : ~Sends(up, c, t)
          /\ ~Mentions(down, t) /\ \A e : ~Hears(down, e, t)
      BY <3>1, EmptyMeans, MentionMeans
    <3>3. NoMarker.log = "nothing"
      BY DEF NoMarker
    <3> QED
      BY <3>1, <3>2, <3>3 DEF TableOK, OnDisk, Managed, InFlight, Silent, NONE
  <2> QED
    BY <2>1
<1>2. LineOrder(down) /\ CommandOrder(up)
  BY OrderIn, EmptyIs DEF Init, LineOrder, CommandOrder
<1>3. Flow /\ HeadIsOK /\ EndIsOK
  BY FlowRows, EmptyIs DEF Init, Flow, HeadIsOK, EndIsOK
<1>4. ConnOK
  BY DEF Init, ConnOK, NoSession
<1>5. ledger \subseteq DOMAIN evidence
  BY DEF Init
<1>6. Cardinality(Occupied) <= Capacity
  <2>1. Occupied = {}
    BY DEF Init, Occupied
  <2> QED
    BY <2>1, FS_EmptySet DEF SlotsAssumption
<1> QED
  BY <1>1, <1>2, <1>3, <1>4, <1>5, <1>6 DEF TablesInv

----------------------------------------------------------------------------
(* What the invariant says of the tables.                                  *)

LEMMA DiskIs ==
  ASSUME SlotsAssumption, Types, TablesInv, missed = {}
  PROVE  DiskIsSound
<1>1. TypeOK
  <2>1. \A t \in Running : active[t] \in [n : 1..MaxGames, arm : Arms, primary : BOOLEAN]
    BY DEF Types, Running, GameRecord
  <2>2. \A t \in Holding : marker[t] \in [reason : Reasons,
                              log : {"nothing", "left", "confirmed", "ambiguous"}]
    BY DEF Types, Holding, MarkerRecord, TablesInv, TableOK, OnDisk
  <2> QED
    BY <2>1, <2>2 DEF Types, TablesInv, TypeOK
<1>2. DepartureIsDurable
  <2>1. ASSUME NEW t \in Tables, Travels("leave", t) PROVE Sends(up, "leave", t)
    BY <2>1 DEF Travels, Sends
  <2> QED
    BY <2>1 DEF DepartureIsDurable, TablesInv, TableOK, InFlight, Managed
<1>3. DiskIsConsistent
  BY DEF DiskIsConsistent, TablesInv, TableOK, OnDisk
<1> QED
  BY <1>1, <1>2, <1>3 DEF DiskIsSound

LEMMA AgreedIs ==
  ASSUME SlotsAssumption, Types, TablesInv
  PROVE  TablesAreAgreed
<1>1. TablesAreManaged
  <2>1. ASSUME NEW t \in Tables, Travels("create", t) PROVE Sends(up, "create", t)
    BY <2>1 DEF Travels, Sends
  <2> QED
    BY <2>1 DEF TablesAreManaged, TablesInv, TableOK, InFlight, Managed, Occupied, NONE
<1>2. NoSecondReady
  <2> SUFFICES ASSUME NEW t \in Tables
               PROVE  Cardinality({i \in DOMAIN up : up[i] = [command |-> "ready", t |-> t]})
                      + (IF server[t].st \in {"ready", "playing"} THEN 1 ELSE 0) <= 1
    BY DEF NoSecondReady
  <2> DEFINE sent == {i \in DOMAIN up : up[i] = [command |-> "ready", t |-> t]}
  <2>1. \A i, j \in sent : i = j
    <3>1. DOMAIN up = 1..Len(up) /\ Len(up) \in Nat
      BY SeqIs DEF Types
    <3>2. ASSUME NEW i \in sent, NEW j \in sent, i < j PROVE FALSE
      BY <3>2 DEF TablesInv, CommandOrder
    <3> QED
      BY <3>1, <3>2
  <2>2. CASE sent = {}
    BY <2>2, FS_EmptySet
  <2>3. CASE sent # {}
    <3>1. PICK i \in sent : sent = {i}
      BY <2>1, <2>3
    <3>2. Cardinality(sent) = 1
      BY <3>1, FS_Singleton
    <3>3. Sends(up, "ready", t)
      BY <3>1 DEF Sends
    <3>4. server[t].st \notin {"ready", "playing"}
      BY <3>3 DEF TablesInv, TableOK, InFlight
    <3> QED
      BY <3>2, <3>4
  <2> QED
    BY <2>2, <2>3
<1> QED
  BY <1>1, <1>2 DEF TablesAreAgreed

\* A game that was missed stays so.
LEMMA MissedStays ==
  ASSUME [Next]_vars, missed' = {}
  PROVE  missed = {}
<1>1. CASE OnTableError
  BY <1>1 DEF OnTableError
<1>2. CASE ~OnTableError
  <2>1. UNCHANGED missed
    BY <1>2 DEF Next, Calls, Handlers, Session, Recovery, Breakage, Server, SaveSlot, SendCommand,
       SendRaises, LogLeave, SaveMarker, UnlinkMarker, RetireTable, RetireIdleTables, ReadyTable,
       CreateNextTable, Outcome, WaitForMirrorCapacity, Assign, PlayGame, Package, Record,
       Withdraw, AfterEnd, AfterDestroy, OnCreate, OnStart, OnEnd, OnDestroy, Connect,
       ReadRaises, Restart, Confirm, Recover, Restore, Break, Die, ServerTakes, StartGame,
       EndGame, Refuse, Raise, ghosts, vars
  <2> QED
    BY <2>1
<1> QED
  BY <1>1, <1>2

\* Until a table error misses a game whose end was lost with the connection.
Unmissed == Types /\ (missed = {} => TablesInv)

LEMMA TablesInductive == Spec => []Unmissed
<1>1. Init => Unmissed
  BY SlotsAssumption, InitTypes, InitTables DEF Unmissed
<1>2. Unmissed /\ [Next]_vars => Unmissed'
  BY SlotsAssumption, TypesKept, TablesInvKept, MissedStays DEF Unmissed
<1> QED
  BY <1>1, <1>2, PTL DEF Spec

\* _retire_table, _on_destroy, _restore_active_game_authority: wherever the process
\* dies, no LEAVE is on its way before its departure is on disk, and slots, games and
\* departures on disk agree as the recovery expects them, as long as _on_table_error
\* has missed no game.
THEOREM DiskSoundness == Spec => [](missed = {} => DiskIsSound)
<1>1. Unmissed => (missed = {} => DiskIsSound)
  BY SlotsAssumption, DiskIs DEF Unmissed
<1> QED
  BY <1>1, TablesInductive, PTL

\* _create_next_table, _on_create: every table of the server holds one of the slots of
\* the policy, over every replay, and READY is never sent a second time, as long as
\* _on_table_error has missed no game.
THEOREM TableAgreement == Spec => [](missed = {} => TablesAreAgreed)
<1>1. Unmissed => (missed = {} => TablesAreAgreed)
  BY SlotsAssumption, AgreedIs DEF Unmissed
<1> QED
  BY <1>1, TablesInductive, PTL

----------------------------------------------------------------------------
(* The invariant of the games.                                             *)

Starts(lines, t, n) ==
    \E i \in DOMAIN lines : lines[i].event = "start" /\ lines[i].t = t /\ lines[i].n = n

Retires(ops, t) == \E i \in DOMAIN ops : ops[i].call = "retire" /\ ops[i].t = t

\* The arm that decides in the last game is the one of its assignment.
ArmOK(t) ==
    /\ played[t] = {} \/ \E a \in Arms : played[t] = {a}
    /\ active[t] # NoGame =>
          /\ played[t] \subseteq {active[t].arm}
          /\ active[t].n <= server[t].n
          /\ GameOf(t) \in ledger => active[t].primary

\* Only games the server has started are over.
KnownGames ==
    \A g \in DOMAIN evidence :
        /\ g.table \in Tables /\ g.n \in Nat /\ g.n <= server[g.table].n
        /\ g = Game(g.table, g.n)

\* A game without an assignment was never played, ...
Unplayed(t, n) == played[t] = {} /\ Game(t, n) \notin DOMAIN evidence

\* ... unless nobody is going to begin it: the table is left, or must be created again.
StartOK(t, n) ==
    \/ Unplayed(t, n) \/ active[t] # NoGame
    \/ slots[t] = "RETIRING" \/ Hears(down, "create", t) \/ Retires(todo, t)

StartsOK ==
    \A t \in Tables, n \in 1..MaxGames :
        Starts(down, t, n) => n <= server[t].n /\ StartOK(t, n)

Closing == {"package", "record", "withdraw"}

AssignOK(t, n) == n <= server[t].n /\ (active[t] # NoGame \/ Unplayed(t, n))

CallOK(op) ==
    /\ op.call = "assign" => AssignOK(op.t, op.n)
    /\ op.call = "record" /\ op.counts => active[op.t].primary

GameCalls ==
    \A i \in DOMAIN todo :
        /\ CallOK(todo[i])
        /\ todo[i].call \in Closing => i + 1 \in DOMAIN todo

GamesInv ==
    /\ played \in [Tables -> SUBSET Arms] /\ \A t \in Tables : ArmOK(t)
    /\ KnownGames /\ StartsOK /\ GameCalls
    /\ IsFiniteSet(ledger)
    /\ QuotaIsReserved

----------------------------------------------------------------------------
(* The calls of a handler that begin and end a game.                       *)

\* Nothing comes before them but the calls that go with them.
LEMMA Before ==
  ASSUME NEW ops \in Seq(Ops), FlowOf(ops)
  PROVE  \A j \in 1..Len(ops) :
            j > 1 => /\ j - 1 \in 1..Len(ops)
                     /\ ~(ops[j].call = "slot" /\ ops[j].state = "ACTIVE")
                     /\ ops[j].call # "package"
                     /\ ops[j].call = "assign" =>
                           ops[j - 1].call = "slot" /\ ops[j - 1].state = "ACTIVE"
                     /\ ops[j].call = "record" => ops[j - 1].call = "package"
                     /\ ops[j].call = "withdraw" => ops[j - 1].call = "record"
<1>1. DOMAIN ops = 1..Len(ops) /\ Len(ops) \in Nat /\ \A j \in 1..Len(ops) : ops[j] \in Ops
  BY SeqIs
<1>2. ASSUME NEW a \in Ops, NEW b \in Ops, Follows(a, b)
      PROVE  /\ ~(b.call = "slot" /\ b.state = "ACTIVE")
             /\ b.call # "package"
             /\ b.call = "assign" => a.call = "slot" /\ a.state = "ACTIVE"
             /\ b.call = "record" => a.call = "package"
             /\ b.call = "withdraw" => a.call = "record"
  BY <1>2, OpFields DEF Follows, NONE
<1>3. ASSUME NEW j \in 1..Len(ops), j > 1
      PROVE  j - 1 \in 1..Len(ops) /\ Follows(ops[j - 1], ops[j])
  <2>1. j - 1 \in 1..(Len(ops) - 1) /\ (j - 1) + 1 = j /\ j - 1 \in 1..Len(ops)
    BY <1>1, <1>3
  <2>2. Follows(ops[j - 1], ops[(j - 1) + 1])
    BY <2>1 DEF FlowOf
  <2> QED
    BY <2>1, <2>2
<1> QED
  BY <1>1, <1>2, <1>3

\* So the call that begins or ends a game tells what comes after it.
LEMMA GameCallsAhead ==
  ASSUME NEW ops \in Seq(Ops), FlowOf(ops), NEW i \in DOMAIN ops
  PROVE  /\ ops[i].call = "assign" => Starting(ops[1])
         /\ ops[i].call = "record" => ops[1].call \in {"package", "record"}
         /\ ops[i].call \in Closing => ops[1].call \in Closing
<1>1. DOMAIN ops = 1..Len(ops) /\ Len(ops) \in Nat /\ i \in 1..Len(ops)
  BY SeqIs
<1>2. CASE i = 1
  BY <1>2 DEF Starting, Closing
<1>3. CASE i > 1
  <2>0. i - 1 \in 1..Len(ops)
    BY <1>1, <1>3
  <2>1. ops[i].call = "assign" => Starting(ops[1])
    <3>1. SUFFICES ASSUME ops[i].call = "assign" PROVE Starting(ops[1])
      OBVIOUS
    <3>2. ops[i - 1].call = "slot" /\ ops[i - 1].state = "ACTIVE"
      BY <1>1, <1>3, <3>1, Before
    <3>3. ~(i - 1 > 1)
      BY <2>0, <3>2, Before
    <3>4. i - 1 = 1
      BY <2>0, <3>3
    <3> QED
      BY <3>2, <3>4 DEF Starting
  <2>2. ops[i].call = "record" => ops[1].call = "package"
    <3>1. SUFFICES ASSUME ops[i].call = "record" PROVE ops[1].call = "package"
      OBVIOUS
    <3>2. ops[i - 1].call = "package"
      BY <1>1, <1>3, <3>1, Before
    <3>3. ~(i - 1 > 1)
      BY <2>0, <3>2, Before
    <3>4. i - 1 = 1
      BY <2>0, <3>3
    <3> QED
      BY <3>2, <3>4
  <2>3. ops[i].call = "withdraw" => ops[1].call \in Closing
    <3>1. SUFFICES ASSUME ops[i].call = "withdraw" PROVE ops[1].call \in Closing
      OBVIOUS
    <3>2. ops[i - 1].call = "record"
      BY <1>1, <1>3, <3>1, Before
    <3>3. CASE i - 1 = 1
      BY <3>2, <3>3 DEF Closing
    <3>4. CASE i - 1 > 1
      <4>1. (i - 1) - 1 \in 1..Len(ops) /\ ops[(i - 1) - 1].call = "package"
        BY <2>0, <3>2, <3>4, Before
      <4>2. ~((i - 1) - 1 > 1)
        BY <4>1, Before
      <4>3. (i - 1) - 1 = 1
        BY <4>1, <4>2
      <4> QED
        BY <4>1, <4>3 DEF Closing
    <3> QED
      BY <2>0, <3>3, <3>4
  <2>4. ops[i].call # "package"
    BY <1>1, <1>3, Before
  <2> QED
    BY <2>1, <2>2, <2>3, <2>4 DEF Closing
<1> QED
  BY <1>1, <1>2, <1>3

\* Any other call comes with none of them after it.
LEMMA NoGameCalls ==
  ASSUME todo' \in Seq(Ops), FlowOf(todo'),
         todo' # <<>> => ~Starting(todo'[1]) /\ todo'[1].call \notin Closing
  PROVE  GameCalls'
<1>1. ASSUME NEW ops \in Seq(Ops), FlowOf(ops),
             ops # <<>> => ~Starting(ops[1]) /\ ops[1].call \notin Closing,
             NEW i \in DOMAIN ops
      PROVE  ops[i].call \notin {"assign", "package", "record", "withdraw"}
  <2>1. ops # <<>>
    BY <1>1, EmptyIs
  <2> QED
    BY <1>1, <2>1, GameCallsAhead DEF Closing
<1>2. \A i \in DOMAIN todo' : todo'[i].call \notin {"assign", "package", "record", "withdraw"}
  BY <1>1
<1> QED
  BY <1>2 DEF GameCalls, CallOK, Closing

LEMMA GameCallsBecome ==
  ASSUME \A i \in DOMAIN todo' : /\ \E op \in Ops : todo'[i] = op /\ CallOK(op)'
                                 /\ todo'[i].call \in Closing => i + 1 \in DOMAIN todo'
  PROVE  GameCalls'
<1>1. ASSUME NEW i \in DOMAIN todo' PROVE CallOK(todo[i])'
  <2>1. PICK op \in Ops : todo'[i] = op /\ CallOK(op)'
    BY <1>1
  <2> QED
    BY <2>1 DEF CallOK, AssignOK, Unplayed
<1> QED
  BY <1>1 DEF GameCalls

\* What a call may count on does not change before its turn.
LEMMA CallStays ==
  ASSUME NEW op \in Ops, CallOK(op), op.call \in {"assign", "record"} => op.t \in Tables,
         UNCHANGED <<active, evidence>>,
         \A t \in Tables : played'[t] \in {played[t], {}},
         \A t \in Tables : server'[t].n \in Nat /\ server[t].n \in Nat /\ server'[t].n >= server[t].n,
         op.call = "assign" => op.n \in Nat
  PROVE  CallOK(op)'
<1>1. CASE op.call = "assign"
  <2>1. AssignOK(op.t, op.n) /\ op.t \in Tables
    BY <1>1 DEF CallOK
  <2>2. AssignOK(op.t, op.n)'
    BY <2>1, <1>1 DEF AssignOK, Unplayed
  <2> QED
    BY <1>1, <2>2 DEF CallOK
<1>2. CASE op.call # "assign"
  BY <1>2 DEF CallOK
<1> QED
  BY <1>1, <1>2

LEMMA CallsGameCalls ==
  ASSUME SlotsAssumption, Types, TablesInv, GamesInv, Calls
  PROVE  GameCalls'
<1>0. /\ todo # <<>> /\ Op \in Ops /\ todo \in Seq(Ops) /\ Op = todo[1] /\ FlowOf(todo)
      /\ Tail(todo) \in Seq(Ops) /\ FlowOf(Tail(todo))
      /\ Tail(todo) # <<>> => Tail(todo)[1] \in Ops /\ Follows(Op, Tail(todo)[1])
      /\ GameCalls
  BY CallsTodo, OpIs, RestIs DEF TablesInv, Flow, GamesInv
<1>1. todo' \in Seq(Ops) /\ FlowOf(todo')
  BY CallsTypes, CallsFlow DEF Types, Flow, FlowOf
<1>2. ASSUME todo' # <<>> => ~Starting(todo'[1]) /\ todo'[1].call \notin Closing PROVE GameCalls'
  BY <1>1, <1>2, NoGameCalls
<1>3. CASE todo' = <<>> \/ (todo' # <<>> /\ todo'[1].call \notin Ending /\ ~Starting(todo'[1]))
  BY <1>2, <1>3 DEF Ending, Closing
<1>4. CASE todo' = Tail(todo)
  <2>1. CASE Op.call \notin {"slot", "package", "record"}
    <3>1. \A b \in Ops : Follows(Op, b) => ~Starting(b) /\ b.call \notin Closing
      <4>1. ASSUME NEW b \in Ops, Follows(Op, b), Starting(b) \/ b.call \in Closing PROVE FALSE
        BY <1>0, <2>1, <4>1, OpFields DEF Follows, Closing, Starting, NONE
      <4> QED
        BY <4>1
    <3> QED
      BY <1>0, <1>2, <1>4, <3>1
  <2>2. ASSUME UNCHANGED <<active, played, server>>,
               evidence' # evidence => Op.call = "package"
        PROVE  GameCalls'
    <3>1. ASSUME NEW i \in DOMAIN todo'
          PROVE  /\ \E op \in Ops : todo'[i] = op /\ CallOK(op)'
                 /\ todo'[i].call \in Closing => i + 1 \in DOMAIN todo'
      <4>1. /\ i + 1 \in DOMAIN todo /\ todo'[i] = todo[i + 1] /\ i \in 1..(Len(todo) - 1)
            /\ DOMAIN todo' = 1..(Len(todo) - 1) /\ DOMAIN todo = 1..Len(todo) /\ Len(todo) \in Nat
        BY <1>0, <1>4, <3>1, TailIs
      <4>2. PICK op \in Ops : op = todo[i + 1]
        BY <1>0, <4>1, SeqIs
      <4>3. /\ CallOK(op)
            /\ op.call \in Closing => (i + 1) + 1 \in DOMAIN todo
        BY <1>0, <4>1, <4>2 DEF GameCalls
      <4>4. CallOK(op)'
        <5>1. CASE op.call = "assign"
          <6>1. Starting(Op)
            BY <1>0, <4>1, <4>2, <5>1, GameCallsAhead
          <6>2. evidence' = evidence
            BY <2>2, <6>1 DEF Starting
          <6> QED
            BY <2>2, <4>3, <6>2 DEF CallOK, AssignOK, Unplayed
        <5>2. CASE op.call # "assign"
          BY <2>2, <4>3, <5>2 DEF CallOK
        <5> QED
          BY <5>1, <5>2
      <4>5. op.call \in Closing => i + 1 \in DOMAIN todo'
        BY <4>1, <4>3
      <4> QED
        BY <4>1, <4>2, <4>4, <4>5
    <3> QED
      BY <3>1, GameCallsBecome
  <2>3. CASE Op.call \in {"slot", "package", "record"}
    <3>1. SaveSlot \/ Package \/ Record
      BY <2>3 DEF Calls, Calling, SendCommand, SendRaises, LogLeave, SaveMarker,
          UnlinkMarker, RetireTable, RetireIdleTables, ReadyTable, CreateNextTable, Outcome,
          WaitForMirrorCapacity, Assign, PlayGame, Withdraw, AfterEnd, AfterDestroy
    <3>2. UNCHANGED <<active, played, server>> /\ (evidence' # evidence => Op.call = "package")
      BY <3>1 DEF SaveSlot, Package, Record, Calling, net, disk, ghosts
    <3> QED
      BY <2>2, <3>2
  <2> QED
    BY <2>1, <2>3
<1> QED
  BY <1>3, <1>4, CallsFirst

\* A line is the next one, or comes later.
LEMMA HeadOrTail ==
  ASSUME NEW S, NEW s \in Seq(S), s # <<>>
  PROVE  /\ \A e, t : Hears(s, e, t) => \/ Hears(Tail(s), e, t)
                                        \/ Head(s).event = e /\ Head(s).t = t
         /\ \A t, n : Starts(s, t, n) => \/ Starts(Tail(s), t, n)
                                         \/ /\ Head(s).event = "start" /\ Head(s).t = t
                                            /\ Head(s).n = n
         /\ \A t, n : Starts(Tail(s), t, n) => Starts(s, t, n)
         /\ Head(s).event = "start" => Starts(s, Head(s).t, Head(s).n)
<1>1. ASSUME NEW i \in DOMAIN s
      PROVE  s[i] = Head(s) \/ \E j \in DOMAIN Tail(s) : s[i] = Tail(s)[j]
  <2>1. /\ Len(s) \in Nat \ {0} /\ s[1] = Head(s) /\ DOMAIN s = 1..Len(s)
        /\ DOMAIN Tail(s) = 1..(Len(s) - 1)
        /\ \A j \in DOMAIN Tail(s) : Tail(s)[j] = s[j + 1]
    BY TailIs
  <2>2. CASE i = 1
    BY <2>1, <2>2
  <2>3. CASE i # 1
    <3>1. i - 1 \in DOMAIN Tail(s) /\ (i - 1) + 1 = i
      BY <2>1, <2>3
    <3>2. Tail(s)[i - 1] = s[i]
      BY <2>1, <3>1
    <3> QED
      BY <3>1, <3>2
  <2> QED
    BY <2>2, <2>3
<1>2. ASSUME NEW j \in DOMAIN Tail(s) PROVE \E i \in DOMAIN s : s[i] = Tail(s)[j]
  BY TailIs
<1>3. 1 \in DOMAIN s /\ s[1] = Head(s)
  BY TailIs
<1> QED
  BY <1>1, <1>2, <1>3 DEF Hears, Starts

\* A game that is about to begin has not been played.
LEMMA StartBegins ==
  ASSUME SlotsAssumption, Types, TablesInv, GamesInv, OnStart, slots[Line.t] # "RETIRING"
  PROVE  AssignOK(Line.t, Line.n)
<1>1. down # <<>> /\ down \in Seq(Lines) /\ Line.event = "start" /\ todo = <<>>
  BY DEF OnStart, Reading, Line, Types
<1>2. Line \in Lines /\ Line.t \in Tables /\ ~Hears(Tail(down), "create", Line.t)
  BY <1>1, LineRead
<1>3. Line.n \in 1..MaxGames
  BY <1>1, <1>2, LineFields
<1>4. Starts(down, Line.t, Line.n) /\ ~Hears(down, "create", Line.t)
  BY <1>1, <1>2, HeadOrTail DEF Line
<1>5. ~Retires(todo, Line.t)
  BY <1>1, EmptyIs DEF Retires
<1> QED
  BY <1>2, <1>3, <1>4, <1>5 DEF GamesInv, StartsOK, StartOK, AssignOK

LEMMA HandlersGameCalls ==
  ASSUME SlotsAssumption, Types, TablesInv, GamesInv, Handlers
  PROVE  GameCalls'
<1>0. /\ down # <<>> /\ Line \in Lines /\ Line.t \in Tables
      /\ \A t \in Tables : TableOK(t)
  BY LineRead DEF Handlers, OnCreate, OnStart, OnEnd, OnTableError, OnDestroy, Reading,
                          TablesInv
<1>1. todo' \in Seq(Ops) /\ FlowOf(todo')
  BY HandlersTypes, HandlersFlow DEF Types, Flow, FlowOf
<1>2. ASSUME todo' # <<>> => ~Starting(todo'[1]) /\ todo'[1].call \notin Closing PROVE GameCalls'
  BY <1>1, <1>2, NoGameCalls
<1>b. PICK t \in Tables : t = Line.t
  BY <1>0
<1>c. TableOK(t)
  BY <1>0
<1> USE <1>b
<1>3. ASSUME NEW op, ~Starting(op), op.call \notin Closing, todo' = <<op>> PROVE GameCalls'
  BY <1>2, <1>3, RowFirst
<1>4. CASE OnCreate
  <2>1. active[t] # NoGame => EnsureActive(t) = <<>>
    BY <1>c DEF TableOK, OnDisk, EnsureActive
  <2>2. \/ todo' = <<>> \/ \E r : todo' = Retire(t, r)
        \/ todo' = RetryLeave(t) \/ todo' = On("ready", t)
    BY <1>4, <2>1 DEF OnCreate
  <2> QED
    BY <1>2, <1>3, <2>2 DEF Retire, RetryLeave, On, Slot, Closing, Starting
<1>5. CASE OnStart
  <2>1. CASE slots[t] = "RETIRING"
    BY <1>2, <1>5, <2>1 DEF OnStart, Raise, Stop, Ends
  <2>2. CASE slots[t] # "RETIRING"
    <3>1. PICK n \in 1..MaxGames : n = Line.n
      BY <1>0, <1>5, LineFields DEF OnStart, Reading, Line
    <3>2. AssignOK(t, n)'
      BY <1>5, <2>2, <3>1, StartBegins DEF AssignOK, Unplayed, OnStart, disk, ghosts
    <3> DEFINE slot == SlotCall(t, "ACTIVE")
               assign == AssignCall(t, n)
               play == TableCall("play", t)
    <3>3. /\ slot \in Ops /\ slot.call = "slot"
          /\ assign \in Ops /\ assign.call = "assign" /\ assign.t = t /\ assign.n = n
          /\ play \in Ops /\ play.call = "play"
      BY OpsMade DEF SlotCall, AssignCall, TableCall
    <3>4. todo' = <<assign, play>> \/ todo' = <<slot, assign, play>>
      BY <1>5, <2>2, <3>1, StartDoes
    <3> HIDE DEF slot, assign, play
    <3>5. CallOK(slot)' /\ CallOK(assign)' /\ CallOK(play)'
      BY <3>2, <3>3 DEF CallOK
    <3>6. ASSUME NEW i \in DOMAIN todo' PROVE todo'[i] \in {slot, assign, play}
      BY <3>4, <3>6
    <3>7. \A i \in DOMAIN todo' : /\ \E op \in Ops : todo'[i] = op /\ CallOK(op)'
                                  /\ todo'[i].call \notin Closing
      BY <3>3, <3>5, <3>6 DEF Closing
    <3> QED
      BY <3>7, GameCallsBecome
  <2> QED
    BY <2>1, <2>2
<1>6. ASSUME NEW status \in {"SCORED", "FAILED"}, NEW counts \in BOOLEAN, NEW op \in Ops,
             Finish(t, status, counts, <<op>>), op.call \notin Closing, op.call # "assign",
             counts => active'[t].primary
      PROVE  GameCalls'
  <2> DEFINE package == PackageCall(t, status)
             record == RecordCall(t, counts)
             withdraw == TableCall("withdraw", t)
  <2>1. /\ package \in Ops /\ package.call = "package"
        /\ record \in Ops /\ record.call = "record" /\ record.t = t /\ record.counts = counts
        /\ withdraw \in Ops /\ withdraw.call = "withdraw"
    BY OpsMade DEF PackageCall, RecordCall, TableCall
  <2>2. todo' = <<package, record, withdraw, op>>
    BY <1>6, FinishDoes
  <2> HIDE DEF package, record, withdraw
  <2>3. CallOK(package)' /\ CallOK(record)' /\ CallOK(withdraw)' /\ CallOK(op)'
    BY <1>6, <2>1 DEF CallOK, Closing
  <2>4. ASSUME NEW i \in DOMAIN todo'
        PROVE  todo'[i] \in {package, record, withdraw, op} /\ (todo'[i] = op \/ i + 1 \in DOMAIN todo')
    BY <2>2, <2>4
  <2>5. \A i \in DOMAIN todo' : /\ \E a \in Ops : todo'[i] = a /\ CallOK(a)'
                                /\ todo'[i].call \in Closing => i + 1 \in DOMAIN todo'
    BY <1>6, <2>1, <2>3, <2>4
  <2> QED
    BY <2>5, GameCallsBecome
<1>7. CASE OnEnd
  <2>1. CASE ~Known(t)
    BY <1>2, <1>7, <2>1 DEF OnEnd, Raise, Stop, Ends
  <2>2. CASE active[t] # NoGame /\ Known(t)
    <3> DEFINE op == TableCall("after_end", t)
    <3>1. op \in Ops /\ op.call = "after_end"
      BY OpsMade DEF TableCall
    <3>2. \E status \in {"SCORED", "FAILED"} :
             Finish(t, status, active[t].primary /\ ~Enough, <<op>>)
      BY <1>7, <2>2 DEF OnEnd, On, TableCall
    <3>3. PICK counts \in BOOLEAN : counts = (active[t].primary /\ ~Enough)
      OBVIOUS
    <3>4. active' = active
      BY <1>7, <2>2 DEF OnEnd, disk
    <3> HIDE DEF op
    <3>5. PICK status \in {"SCORED", "FAILED"} : Finish(t, status, counts, <<op>>)
      BY <3>2, <3>3
    <3> QED
      BY <1>6, <3>1, <3>3, <3>4, <3>5 DEF Closing
  <2> QED
    BY <2>1, <2>2 DEF Known
<1>8. CASE OnTableError
  <2>1. CASE ~Known(t)
    <3>1. todo' = Retire(t, "OTHER")
      BY <1>8, <2>1 DEF OnTableError
    <3> QED
      BY <1>3, <3>1 DEF Retire, Closing, Starting
  <2>2. CASE active[t] # NoGame /\ Known(t)
    <3> DEFINE op == RetireCall(t, "OTHER", FALSE)
    <3>1. op \in Ops /\ op.call = "retire"
      BY OpsMade DEF Reasons, RetireCall
    <3>2. Finish(t, "FAILED", active[t].primary, <<op>>) /\ active' = active
      BY <1>8, <2>2 DEF OnTableError, Retire, RetireCall, disk
    <3>3. PICK counts \in BOOLEAN : counts = active[t].primary
      BY <2>2 DEF Types, GameRecord
    <3> HIDE DEF op
    <3>4. Finish(t, "FAILED", counts, <<op>>)
      BY <3>2, <3>3
    <3> QED
      BY <1>6, <3>1, <3>2, <3>3, <3>4 DEF Closing
  <2> QED
    BY <2>1, <2>2 DEF Known
<1>9. CASE OnDestroy
  <2>1. CASE active[t] # NoGame
    BY <1>2, <1>9, <2>1 DEF OnDestroy, Raise, Stop, Ends
  <2>2. CASE active[t] = NoGame
    <3>0. todo' = <<TableCall("unlink", t), SlotCall(t, NONE), PlainCall("after_destroy")>>
      BY <1>9, <2>2, DestroyDoes
    <3>1. todo' # <<>> /\ todo'[1] = TableCall("unlink", t)
      BY <3>0, RowFirst
    <3> QED
      BY <1>2, <3>1 DEF TableCall, Closing, Starting
  <2> QED
    BY <2>1, <2>2
<1> QED
  BY <1>4, <1>5, <1>7, <1>8, <1>9 DEF Handlers

\* The server numbers the games of a table upwards.
LEMMA NumbersGrow ==
  ASSUME SlotsAssumption, Types, [Next]_vars
  PROVE  \A t \in Tables :
            server'[t].n \in Nat /\ server[t].n \in Nat /\ server'[t].n >= server[t].n
<1>0. /\ server \in [Tables -> ServerRecord] /\ MaxGames \in Nat
      /\ \A t \in Tables : server[t].n \in Nat
  BY DEF Types, ServerRecord, SlotsAssumption
<1>1. ASSUME NEW t \in Tables, StartGame(t)
      PROVE  \A u \in Tables : server'[u].n \in Nat /\ server'[u].n >= server[u].n
  <2>1. \A u \in Tables : server'[u].n = IF u = t THEN server[t].n + 1 ELSE server[u].n
    BY <1>0, <1>1 DEF StartGame
  <2> QED
    BY <1>0, <2>1
<1>2. ASSUME NEW t \in Tables, NEW st, Table(t, st)
      PROVE  \A u \in Tables : server'[u].n = server[u].n
  BY <1>0, <1>2 DEF Table, ServerRecord
<1>3. CASE ServerTakes
  <2>1. up \in Seq(Commands) /\ up # <<>>
    BY <1>3 DEF ServerTakes, Types
  <2>2. Head(up).t \in Tables
    BY <2>1, TailIs, CommandFields
  <2>3. (\E st : Table(Head(up).t, st)) \/ UNCHANGED server
    BY <1>3 DEF ServerTakes
  <2> QED
    BY <1>0, <1>2, <2>2, <2>3
<1>4. ASSUME NEW t \in Tables, EndGame(t)
      PROVE  \A u \in Tables : server'[u].n = server[u].n
  BY <1>2, <1>4 DEF EndGame
<1>5. CASE ~Server
  <2>1. UNCHANGED server
    BY <1>5 DEF Next, Calls, Handlers, Session, Recovery, Breakage, SaveSlot, SendCommand, SendRaises,
       LogLeave, SaveMarker, UnlinkMarker, RetireTable, RetireIdleTables, ReadyTable,
       CreateNextTable, Outcome, WaitForMirrorCapacity, Assign, PlayGame, Package, Record,
       Withdraw, AfterEnd, AfterDestroy, OnCreate, OnStart, OnEnd, OnTableError, OnDestroy,
       Connect, ReadRaises, Restart, Confirm, Recover, Restore, Break, Die, Raise, Stop, Ends, net, vars
  <2> QED
    BY <1>0, <2>1
<1>6. ASSUME NEW t \in Tables, Refuse(t) PROVE UNCHANGED server
  BY <1>6 DEF Refuse
<1> QED
  BY <1>0, <1>1, <1>3, <1>4, <1>5, <1>6 DEF Server

\* Every step keeps what the calls of a game count on.
LEMMA GameCallsKept ==
  ASSUME SlotsAssumption, Types, TablesInv, GamesInv, [Next]_vars
  PROVE  GameCalls'
<1>0. todo \in Seq(Ops) /\ FlowOf(todo) /\ GameCalls
  BY DEF Types, TablesInv, Flow, GamesInv
<1>1. todo' \in Seq(Ops) /\ FlowOf(todo')
  BY TypesKept, FlowKept DEF Types, Flow, FlowOf
<1>2. ASSUME todo' # <<>> => ~Starting(todo'[1]) /\ todo'[1].call \notin Closing PROVE GameCalls'
  BY <1>1, <1>2, NoGameCalls
<1>3. CASE todo' = <<>>
  BY <1>2, <1>3
<1>4. CASE UNCHANGED vars
  BY <1>0, <1>4 DEF GameCalls, CallOK, AssignOK, Unplayed, vars, disk, net, ghosts
<1>5. CASE Break \/ Server
  <2>1. /\ todo' = todo /\ UNCHANGED <<active, evidence>>
        /\ \A t \in Tables : played'[t] \in {played[t], {}}
    BY <1>5 DEF Break, Server, ServerTakes, StartGame, EndGame, Refuse, disk, ghosts, GamesInv
  <2>2. \A t \in Tables :
           server'[t].n \in Nat /\ server[t].n \in Nat /\ server'[t].n >= server[t].n
    BY <1>5, NumbersGrow
  <2>3. ASSUME NEW i \in DOMAIN todo'
        PROVE  /\ \E op \in Ops : todo'[i] = op /\ CallOK(op)'
               /\ todo'[i].call \in Closing => i + 1 \in DOMAIN todo'
    <3>1. PICK op \in Ops : op = todo[i]
      BY <1>0, <2>1, <2>3, SeqIs
    <3>2. CallOK(op) /\ (op.call \in Closing => i + 1 \in DOMAIN todo)
      BY <1>0, <2>1, <2>3, <3>1 DEF GameCalls
    <3>3. /\ op.call \in {"assign", "record"} => op.t \in Tables
          /\ op.call = "assign" => op.n \in Nat
      BY OpFields DEF SlotsAssumption
    <3>4. CallOK(op)'
      BY <2>1, <2>2, <3>2, <3>3, CallStays
    <3> QED
      BY <2>1, <3>1, <3>2, <3>4
  <2> QED
    BY <2>3, GameCallsBecome
<1>6. CASE Die
  BY <1>3, <1>6 DEF Die, Stop, Ends
<1>7. CASE Session
  <2>1. CASE Connect
    <3>1. todo' # <<>> /\ todo'[1] = PlainCall("fill")
      BY <2>1, ConnectDoes, RowFirst
    <3> QED
      BY <1>2, <3>1 DEF PlainCall, Closing, Starting
  <2>2. CASE ReadRaises
    BY <1>3, <2>2 DEF ReadRaises
  <2>3. CASE Restart
    <3>1. todo' # <<>> /\ todo'[1] = PlainCall("confirm")
      BY <2>3, RestartDoes, RowFirst
    <3> QED
      BY <1>2, <3>1 DEF PlainCall, Closing, Starting
  <2>4. CASE Confirm \/ Recover \/ Restore
    <3>1. todo # <<>> /\ Op.call \in {"confirm", "recover", "restore"}
      BY <2>4 DEF Confirm, Recover, Restore, Calling
    <3>2. /\ Op \in Ops /\ Op = todo[1]
          /\ Tail(todo) # <<>> => Tail(todo)[1] \in Ops /\ Follows(Op, Tail(todo)[1])
      BY <3>1, CallIs, RestIs
    <3>3. \A b : Follows(Op, b) => b.call \notin Closing /\ ~Starting(b)
      BY <3>1 DEF Follows, Closing, Starting
    <3>4. todo' = todo \/ todo' = Tail(todo) \/ todo' = <<>>
      BY <2>4 DEF Confirm, Recover, Restore, Return, Raise, Stop, Ends
    <3> QED
      BY <1>2, <1>3, <3>1, <3>2, <3>3, <3>4 DEF Closing, Starting
  <2> QED
    BY <1>7, <2>1, <2>2, <2>3, <2>4 DEF Session, Recovery
<1> QED
  BY <1>4, <1>5, <1>6, <1>7, CallsGameCalls, HandlersGameCalls DEF Next, Breakage

\* What changes the record of the games.
LEMMA GamesFrame ==
  ASSUME SlotsAssumption, [Next]_vars
  PROVE  /\ ~Package => UNCHANGED evidence
         /\ ~Record => UNCHANGED ledger
         /\ ~Assign /\ ~Withdraw /\ ~Recover => UNCHANGED active
         /\ ~PlayGame /\ ~(\E t \in Tables : StartGame(t)) => UNCHANGED played
BY DEF Next, Calls, Handlers, Session, Recovery, Breakage, Server, SaveSlot, SendCommand, SendRaises,
       LogLeave, SaveMarker, UnlinkMarker, RetireTable, RetireIdleTables, ReadyTable,
       CreateNextTable, Outcome, WaitForMirrorCapacity, Assign, PlayGame, Package, Record,
       Withdraw, AfterEnd, AfterDestroy, OnCreate, OnStart, OnEnd, OnTableError, OnDestroy,
       Connect, ReadRaises, Restart, Confirm, Recover, Restore, Break, Die, ServerTakes,
       StartGame, EndGame, Refuse, Raise, Stop, Ends, disk, ghosts, vars

\* The call whose turn it is to begin or end a game.
LEMMA GameCallIs ==
  ASSUME SlotsAssumption, Types, TablesInv, GamesInv, todo # <<>>
  PROVE  /\ Op \in Ops /\ CallOK(Op) /\ HeadOK(Op)
         /\ Op.call \in {"assign", "play", "package", "record", "withdraw"} => Op.t \in Tables
         /\ Op.call = "assign" => Op.n \in 1..MaxGames
         /\ Op.call \in {"package", "record"} => active[Op.t] # NoGame
         /\ Op.call \in Closing => Tail(todo) # <<>>
<1>1. todo \in Seq(Ops) /\ Op = todo[1] /\ 1 \in DOMAIN todo /\ Len(todo) \in Nat
      /\ DOMAIN todo = 1..Len(todo) /\ Len(Tail(todo)) = Len(todo) - 1 /\ Tail(todo) \in Seq(Ops)
  BY OpIs, TailIs DEF Types
<1>2. CallOK(Op) /\ (Op.call \in Closing => 1 + 1 \in DOMAIN todo)
  BY <1>1 DEF GamesInv, GameCalls
<1>3. Op.call \in Closing => Tail(todo) # <<>>
  <2>1. SUFFICES ASSUME Op.call \in Closing PROVE Tail(todo) # <<>>
    OBVIOUS
  <2>2. 2 \in 1..Len(todo)
    BY <1>1, <1>2, <2>1
  <2>3. Len(Tail(todo)) # 0
    BY <1>1, <2>2
  <2> QED
    BY <1>1, <2>3, SeqIs
<1>4. Op \in Ops /\ HeadOK(Op)
  BY CallIs
<1> QED
  BY <1>2, <1>3, <1>4, OpFields DEF HeadOK, GameOK

LEMMA GameIs ==
  ASSUME NEW t, NEW n, NEW u, NEW m
  PROVE  /\ Game(t, n).table = t /\ Game(t, n).n = n
         /\ Game(t, n) = Game(u, m) => t = u /\ n = m
BY DEF Game

\* _on_end and _on_table_error package the game of the assignment.
LEMMA KnownGamesKept ==
  ASSUME SlotsAssumption, Types, TablesInv, GamesInv, [Next]_vars
  PROVE  KnownGames'
<1>0. /\ \A t \in Tables :
            server'[t].n \in Nat /\ server[t].n \in Nat /\ server'[t].n >= server[t].n
      /\ KnownGames
  BY NumbersGrow DEF GamesInv
<1>1. CASE ~Package
  BY <1>0, <1>1, GamesFrame DEF KnownGames
<1>2. CASE Package
  <2>1. todo # <<>> /\ Op.call = "package"
    BY <1>2 DEF Package, Calling
  <2>2. PICK t \in Tables : t = Op.t
    BY <2>1, GameCallIs
  <2>3. active[t] # NoGame
    BY <2>1, <2>2, GameCallIs
  <2>4. PICK n \in Nat : n = active[t].n
    BY <2>3 DEF Types, GameRecord, SlotsAssumption
  <2>5. n <= server[t].n
    BY <2>3, <2>4 DEF GamesInv, ArmOK
  <2>6. DOMAIN evidence' = DOMAIN evidence \cup {Game(t, n)}
    BY <1>2, <2>2, <2>4 DEF Package, GameOf
  <2>7. Game(t, n).table = t /\ Game(t, n).n = n
    BY GameIs
  <2>8. n <= server'[t].n
    BY <1>0, <2>5
  <2> QED
    BY <1>0, <2>6, <2>7, <2>8 DEF KnownGames
<1> QED
  BY <1>1, <1>2

\* Assign takes a game nobody played; play adds the arm of the assignment.
LEMMA ArmsKept ==
  ASSUME SlotsAssumption, Types, TablesInv, GamesInv, [Next]_vars
  PROVE  played' \in [Tables -> SUBSET Arms] /\ \A t \in Tables : ArmOK(t)'
<1>0. /\ \A t \in Tables :
            server'[t].n \in Nat /\ server[t].n \in Nat /\ server'[t].n >= server[t].n
      /\ played \in [Tables -> SUBSET Arms] /\ \A t \in Tables : ArmOK(t)
      /\ active \in [Tables -> GameRecord]
      /\ \A t \in Tables : active[t] # NoGame => active[t].n \in Nat
  BY NumbersGrow DEF GamesInv, Types, GameRecord, SlotsAssumption
<1>1. ASSUME NEW t \in Tables, active'[t] = active[t], played'[t] = played[t],
             GameOf(t) \in ledger' => GameOf(t) \in ledger
      PROVE  ArmOK(t)'
  BY <1>0, <1>1 DEF ArmOK, GameOf, GameRecord
<1>2. CASE ~Record /\ ~Assign /\ ~Withdraw /\ ~Recover /\ ~PlayGame
           /\ ~(\E t \in Tables : StartGame(t))
  <2>1. UNCHANGED <<ledger, active, played>>
    BY <1>2, GamesFrame
  <2> QED
    BY <1>0, <1>1, <2>1
<1>3. CASE Record
  <2>1. todo # <<>> /\ Op.call = "record" /\ UNCHANGED <<active, played>>
    BY <1>3 DEF Record, Calling, ghosts
  <2>2. PICK u \in Tables : u = Op.t
    BY <2>1, GameCallIs
  <2>3. active[u] # NoGame /\ (Op.counts => active[u].primary)
    BY <2>1, <2>2, GameCallIs DEF CallOK
  <2>4. ledger' = IF Op.counts THEN ledger \cup {GameOf(u)} ELSE ledger
    BY <1>3, <2>2 DEF Record
  <2>5. ASSUME NEW t \in Tables PROVE ArmOK(t)'
    <3>1. CASE t = u
      <4>1. active'[t] = active[t] /\ played'[t] = played[t] /\ GameOf(t)' = GameOf(t)
        BY <2>1 DEF GameOf
      <4>2. GameOf(t) \in ledger' => active[t].primary
        BY <1>0, <2>3, <2>4, <3>1 DEF ArmOK
      <4> QED
        BY <1>0, <2>3, <3>1, <4>1, <4>2 DEF ArmOK
    <3>2. CASE t # u
      <4>1. GameOf(t) # GameOf(u)
        BY <3>2 DEF GameOf, Game
      <4> QED
        BY <1>1, <2>1, <2>4, <4>1
    <3> QED
      BY <3>1, <3>2
  <2> QED
    BY <1>0, <2>1, <2>5
<1>4. CASE Assign
  <2>1. todo # <<>> /\ Op.call = "assign" /\ UNCHANGED <<played, ledger, evidence, server>>
    BY <1>4 DEF Assign, Calling, ghosts, net
  <2>2. PICK u \in Tables : u = Op.t
    BY <2>1, GameCallIs
  <2>3. PICK n \in 1..MaxGames : n = Op.n
    BY <2>1, GameCallIs
  <2>4. AssignOK(u, n)
    BY <2>1, <2>2, <2>3, GameCallIs DEF CallOK
  <2>5. CASE active[u] # NoGame
    <3>1. UNCHANGED active
      BY <1>4, <2>2, <2>5 DEF Assign
    <3> QED
      BY <1>0, <1>1, <2>1, <3>1
  <2>6. CASE active[u] = NoGame
    <3>1. PICK arm \in Arms :
             active' = [active EXCEPT ![u] = [n |-> n, arm |-> arm, primary |-> Missing]]
      BY <1>4, <2>2, <2>3, <2>6 DEF Assign, Arms
    <3>2. active'[u].n = n /\ \A t \in Tables : t # u => active'[t] = active[t]
      BY <1>0, <3>1
    <3>3. played[u] = {} /\ Game(u, n) \notin ledger /\ n <= server[u].n
      BY <2>4, <2>6 DEF AssignOK, Unplayed, TablesInv
    <3>4. ArmOK(u)'
      <4>1. GameOf(u)' = Game(u, n)
        BY <3>2 DEF GameOf
      <4> QED
        BY <2>1, <3>2, <3>3, <4>1 DEF ArmOK
    <3> QED
      BY <1>0, <1>1, <2>1, <3>2, <3>4
  <2> QED
    BY <2>5, <2>6
<1>5. CASE Withdraw
  <2>1. /\ UNCHANGED <<played, ledger>>
        /\ \A t \in Tables : active'[t] = active[t] \/ active'[t] = NoGame
    BY <1>0, <1>5 DEF Withdraw, ghosts
  <2>2. ASSUME NEW t \in Tables, active'[t] = NoGame PROVE ArmOK(t)'
    BY <1>0, <2>1, <2>2 DEF ArmOK
  <2> QED
    BY <1>0, <1>1, <2>1, <2>2
<1>6. CASE Recover
  <2>1. /\ UNCHANGED <<played, ledger>>
        /\ \A t \in Tables : active'[t] = active[t] \/ active'[t] = NoGame
    BY <1>0, <1>6 DEF Recover, Raise, Stop, Ends, disk, ghosts
  <2>2. ASSUME NEW t \in Tables, active'[t] = NoGame PROVE ArmOK(t)'
    BY <1>0, <2>1, <2>2 DEF ArmOK
  <2> QED
    BY <1>0, <1>1, <2>1, <2>2
<1>7. CASE PlayGame
  <2>1. todo # <<>> /\ Op.call = "play" /\ UNCHANGED <<active, ledger>>
    BY <1>7 DEF PlayGame, Calling, disk
  <2>2. PICK u \in Tables : u = Op.t
    BY <2>1, GameCallIs
  <2>3. active[u] # NoGame
    BY <2>1, <2>2, GameCallIs DEF HeadOK, PlayOK
  <2>4. PICK a \in Arms : a = active[u].arm
    BY <1>0, <2>3 DEF GameRecord
  <2>5. played' = [played EXCEPT ![u] = played[u] \cup {a}]
    BY <1>7, <2>2, <2>4 DEF PlayGame
  <2>6. played'[u] = played[u] \cup {a} /\ \A t \in Tables : t # u => played'[t] = played[t]
    BY <1>0, <2>5
  <2>7. played[u] \subseteq {a}
    BY <1>0, <2>3, <2>4 DEF ArmOK
  <2>8. ArmOK(u)'
    <3>1. played'[u] = {a}
      BY <2>6, <2>7
    <3> QED
      BY <1>0, <2>1, <2>3, <2>4, <3>1 DEF ArmOK, GameOf, GameRecord
  <2> QED
    BY <1>0, <1>1, <2>1, <2>5, <2>6, <2>8
<1>8. ASSUME NEW u \in Tables, StartGame(u)
      PROVE  played' \in [Tables -> SUBSET Arms] /\ \A t \in Tables : ArmOK(t)'
  <2>1. UNCHANGED <<active, ledger>> /\ played' = [played EXCEPT ![u] = {}]
    BY <1>8 DEF StartGame, disk
  <2>2. ArmOK(u)'
    BY <1>0, <2>1 DEF ArmOK, GameOf, GameRecord
  <2> QED
    BY <1>0, <1>1, <2>1, <2>2
<1> QED
  BY <1>2, <1>3, <1>4, <1>5, <1>6, <1>7, <1>8

----------------------------------------------------------------------------
(* A start on its way will begin a game that was not played before.        *)

LEMMA EmptyStarts ==
  ASSUME down' = <<>> PROVE StartsOK'
<1>1. \A t, n : ~Starts(<<>>, t, n)
  BY EmptyIs DEF Starts
<1>2. \A t, n : ~Starts(down, t, n)'
  BY <1>1 DEF Starts
<1> QED
  BY <1>2 DEF StartsOK

LEMMA StartStays ==
  ASSUME NEW t \in Tables, NEW n, StartOK(t, n),
         played'[t] = played[t], active'[t] = active[t],
         Game(t, n) \in DOMAIN evidence' => Game(t, n) \in DOMAIN evidence,
         slots[t] = "RETIRING" => slots'[t] = "RETIRING",
         Hears(down, "create", t) => Hears(down', "create", t),
         Retires(todo, t) => Retires(todo', t)
  PROVE  StartOK(t, n)'
BY DEF StartOK, Unplayed

\* A table that is to be left stays so until the call, or the session is over.
LEMMA RetiresStay ==
  ASSUME SlotsAssumption, Types, TablesInv, Calls, NEW t, Retires(todo, t),
         ~(Op.call = "retire" /\ Op.t = t)
  PROVE  down' = <<>> \/ Retires(todo', t)
<1>0. todo # <<>> /\ Op = todo[1] /\ Tail(todo) \in Seq(Ops) /\ todo \in Seq(Ops)
  BY CallsTodo, OpIs
<1>1. Retires(Tail(todo), t)
  <2>1. PICK i \in DOMAIN todo : todo[i].call = "retire" /\ todo[i].t = t
    BY DEF Retires
  <2>2. /\ DOMAIN todo = 1..Len(todo) /\ Len(todo) \in Nat /\ DOMAIN Tail(todo) = 1..(Len(todo) - 1)
        /\ \A j \in DOMAIN Tail(todo) : Tail(todo)[j] = todo[j + 1]
    BY <1>0, TailIs
  <2>3. i - 1 \in DOMAIN Tail(todo) /\ (i - 1) + 1 = i
    BY <1>0, <2>1, <2>2
  <2>4. Tail(todo)[i - 1] = todo[i]
    BY <2>2, <2>3
  <2> QED
    BY <2>1, <2>3, <2>4 DEF Retires
<1>2. ASSUME NEW rest \in Seq(Ops), Retires(rest, t), Adds(rest) PROVE Retires(todo', t)
  <2>1. PICK i \in DOMAIN rest : rest[i].call = "retire" /\ rest[i].t = t
    BY <1>2 DEF Retires
  <2>2. PICK op \in Ops : todo' = <<op>> \o rest \/ \E b \in Ops : todo' = <<op, b>> \o rest
    BY <1>2 DEF Adds, Ordinary
  <2>3. DOMAIN rest = 1..Len(rest) /\ Len(rest) \in Nat
    BY SeqIs
  <2>4. CASE todo' = <<op>> \o rest
    <3>1. i + 1 \in DOMAIN todo' /\ todo'[i + 1] = rest[i]
      BY <2>1, <2>3, <2>4, PushIs
    <3> QED
      BY <2>1, <3>1 DEF Retires
  <2>5. ASSUME NEW b \in Ops, todo' = <<op, b>> \o rest PROVE Retires(todo', t)
    <3>1. i + 2 \in DOMAIN todo' /\ todo'[i + 2] = rest[i]
      BY <2>1, <2>3, <2>5, Push2Is
    <3> QED
      BY <2>1, <3>1 DEF Retires
  <2> QED
    BY <2>2, <2>4, <2>5
<1> QED
  BY <1>0, <1>1, <1>2, CallsShape

\* What a withdrawn game leaves behind.
LEMMA WithdrawnRetires ==
  ASSUME SlotsAssumption, Types, TablesInv, GamesInv, Withdraw
  PROVE  \/ ~Hears(down, "start", Op.t)
         \/ Retires(todo', Op.t)
<1>1. todo # <<>> /\ Op.call = "withdraw" /\ todo' = Tail(todo)
  BY DEF Withdraw, Calling, Return
<1>2. Tail(todo) # <<>> /\ Op \in Ops
  BY <1>1, GameCallIs DEF Closing
<1>3. Tail(todo)[1] \in Ops /\ Follows(Op, Tail(todo)[1]) /\ Tail(todo) \in Seq(Ops)
  BY <1>1, <1>2, RestIs
<1>4. 1 \in DOMAIN Tail(todo)
  BY <1>2, <1>3, TailIs
<1>5. Tail(todo)[1] = todo[2] /\ 2 \in DOMAIN todo
  BY <1>1, <1>4, TailIs DEF Types
<1>6. CASE Tail(todo)[1].call = "retire"
  BY <1>1, <1>3, <1>4, <1>6 DEF Follows, Retires
<1>7. CASE Tail(todo)[1].call = "after_end"
  <2>1. todo[2].t = Op.t /\ Rested(todo[2].t)
    BY <1>1, <1>3, <1>5, <1>7 DEF Follows, TablesInv, EndIsOK
  <2> QED
    BY <2>1 DEF Rested
<1> QED
  BY <1>1, <1>3, <1>6, <1>7 DEF Follows

LEMMA CallsStarts ==
  ASSUME SlotsAssumption, Types, TablesInv, GamesInv, Calls
  PROVE  StartsOK'
<1>0. /\ todo # <<>> /\ Op \in Ops /\ HeadOK(Op)
      /\ \A t \in Tables : TableOK(t)
      /\ StartsOK
      /\ slots \in [Tables -> States \cup {NONE}] /\ active \in [Tables -> GameRecord]
      /\ played \in [Tables -> SUBSET Arms]
  BY CallsTodo, CallIs DEF TablesInv, GamesInv, Types
<1>1. CASE down' = <<>>
  BY <1>1, EmptyStarts
<1>2. ASSUME down' # <<>>, NEW t \in Tables, NEW n \in 1..MaxGames, Starts(down, t, n)
      PROVE  StartOK(t, n)'
  <2>0. StartOK(t, n) /\ TableOK(t)
    BY <1>0, <1>2 DEF StartsOK
  <2>1. /\ Hears(down, "start", t) /\ Mentions(down, t) /\ slots[t] # NONE
    BY <1>2, <2>0 DEF Starts, Hears, Mentions, TableOK, Managed, Silent
  <2>2. down' = down
    BY <1>2 DEF Calls, SaveSlot, SendCommand, SendRaises, LogLeave, SaveMarker, UnlinkMarker,
          RetireTable, RetireIdleTables, ReadyTable, CreateNextTable, Outcome,
          WaitForMirrorCapacity, Assign, PlayGame, Package, Record, Withdraw, AfterEnd,
          AfterDestroy, Hangup, Raise, Stop, Ends, net
  <2>3. Retires(todo, t) /\ ~(Op.call = "retire" /\ Op.t = t) => Retires(todo', t)
    BY <1>2, RetiresStay
  <2>4. ASSUME played'[t] = played[t], active'[t] = active[t],
               Game(t, n) \in DOMAIN evidence' => Game(t, n) \in DOMAIN evidence,
               slots[t] = "RETIRING" => slots'[t] = "RETIRING",
               ~(Op.call = "retire" /\ Op.t = t)
        PROVE  StartOK(t, n)'
    BY <2>0, <2>2, <2>3, <2>4, StartStays
  <2>5. CASE RetireTable
    <3>1. Op.call = "retire" /\ UNCHANGED <<played, active, evidence>>
      BY <1>2, <2>5 DEF RetireTable, Calling, Raise, Stop, Ends, Hangup, disk, ghosts
    <3>2. CASE Op.t = t
      <4>1. slots'[t] = "RETIRING"
        BY <1>0, <1>2, <2>1, <2>5, <3>2 DEF RetireTable, Raise, Stop, Ends, Hangup, disk
      <4> QED
        BY <4>1 DEF StartOK
    <3>3. CASE Op.t # t
      <4>1. slots[t] = "RETIRING" => slots'[t] = "RETIRING"
        BY <1>0, <2>5, <3>3 DEF RetireTable, Raise, Stop, Ends, disk
      <4> QED
        BY <2>4, <3>1, <3>3, <4>1
    <3> QED
      BY <3>2, <3>3
  <2>6. CASE SaveSlot
    <3>1. Op.call = "slot" /\ UNCHANGED <<played, active, evidence>> /\ SlotOK(Op)
          /\ slots' = [slots EXCEPT ![Op.t] = Op.state]
      BY <1>0, <2>6 DEF SaveSlot, Calling, HeadOK, ghosts
    <3>2. Op.state \in {"ACTIVE", "READY_SENT", NONE}
      BY <1>0, <3>1, OpFields
    <3>3. slots[t] = "RETIRING" => Op.t # t
      <4>1. SUFFICES ASSUME slots[t] = "RETIRING", Op.t = t PROVE FALSE
        OBVIOUS
      <4>2. Gone(t)
        BY <3>1, <3>2, <4>1 DEF SlotOK
      <4> QED
        BY <2>1, <4>2 DEF Gone, Silent
    <3>4. slots[t] = "RETIRING" => slots'[t] = "RETIRING"
      BY <1>0, <3>1, <3>3
    <3> QED
      BY <2>4, <3>1, <3>4
  <2>7. CASE ReadyTable
    <3>1. Op.call = "ready" /\ UNCHANGED <<played, active, evidence>>
          /\ slots' = [slots EXCEPT ![Op.t] = "READY_INTENT"] /\ slots[Op.t] # "RETIRING"
      BY <1>0, <2>7 DEF ReadyTable, Calling, HeadOK, ghosts
    <3>2. slots[t] = "RETIRING" => slots'[t] = "RETIRING"
      BY <1>0, <3>1
    <3> QED
      BY <2>4, <3>1, <3>2
  <2>8. CASE CreateNextTable
    <3>1. Op.call = "fill" /\ UNCHANGED <<played, active, evidence>>
      BY <2>8 DEF CreateNextTable, Calling, ghosts
    <3>2. slots[t] = "RETIRING" => slots'[t] = "RETIRING"
      BY <1>0, <2>8 DEF CreateNextTable, Fresh, NONE
    <3> QED
      BY <2>4, <3>1, <3>2
  <2>9. CASE Assign
    <3>1. /\ Op.call = "assign" /\ UNCHANGED <<played, slots, evidence>>
      BY <2>9 DEF Assign, Calling, ghosts
    <3>2. active'[t] = active[t] \/ active'[t] # NoGame
      <4>1. \A arm \in Arms : [n |-> Op.n, arm |-> arm, primary |-> Missing] # NoGame
        BY DEF Arms, NoGame, NONE
      <4>2. \/ active' = active
            \/ \E arm \in Arms : active' = [active EXCEPT ![Op.t] =
                                     [n |-> Op.n, arm |-> arm, primary |-> Missing]]
        BY <2>9 DEF Assign, Arms
      <4> QED
        BY <1>0, <4>1, <4>2
    <3>3. CASE active'[t] # NoGame
      BY <3>3 DEF StartOK
    <3> QED
      BY <2>4, <3>1, <3>2, <3>3
  <2>10. CASE PlayGame
    <3>1. Op.call = "play" /\ UNCHANGED <<active, slots, evidence>>
      BY <2>10 DEF PlayGame, Calling, disk
    <3>2. CASE Op.t = t
      <4>1. active'[t] # NoGame
        BY <1>0, <3>1, <3>2 DEF HeadOK, PlayOK
      <4> QED
        BY <4>1 DEF StartOK
    <3>3. CASE Op.t # t
      <4>1. played'[t] = played[t]
        BY <1>0, <2>10, <3>3 DEF PlayGame
      <4> QED
        BY <2>4, <3>1, <4>1
    <3> QED
      BY <3>2, <3>3
  <2>11. CASE Package
    <3>1. Op.call = "package" /\ UNCHANGED <<active, slots, played>>
      BY <2>11 DEF Package, Calling, ghosts
    <3>2. CASE Op.t = t
      <4>1. active'[t] # NoGame
        BY <1>0, <3>1, <3>2 DEF HeadOK, GameOK
      <4> QED
        BY <4>1 DEF StartOK
    <3>3. CASE Op.t # t
      <4>1. Game(t, n) # GameOf(Op.t)
        BY <3>3, GameIs DEF GameOf
      <4>2. Game(t, n) \in DOMAIN evidence' => Game(t, n) \in DOMAIN evidence
        BY <2>11, <4>1 DEF Package
      <4> QED
        BY <2>4, <3>1, <4>2
    <3> QED
      BY <3>2, <3>3
  <2>12. CASE Withdraw
    <3>1. Op.call = "withdraw" /\ UNCHANGED <<slots, played, evidence>>
          /\ active' = [active EXCEPT ![Op.t] = NoGame]
      BY <2>12 DEF Withdraw, Calling, ghosts
    <3>2. CASE Op.t = t
      <4>1. Retires(todo', t)
        BY <2>1, <2>12, <3>2, WithdrawnRetires
      <4> QED
        BY <4>1 DEF StartOK
    <3>3. CASE Op.t # t
      <4>1. active'[t] = active[t]
        BY <1>0, <3>1, <3>3
      <4> QED
        BY <2>4, <3>1, <4>1
    <3> QED
      BY <3>2, <3>3
  <2>13. CASE ~RetireTable /\ ~SaveSlot /\ ~ReadyTable /\ ~CreateNextTable /\ ~Assign /\ ~PlayGame
              /\ ~Package /\ ~Withdraw
    <3>1. UNCHANGED <<slots, played, active, evidence>> /\ Op.call # "retire"
      BY <2>13 DEF Calls, Calling, SendCommand, SendRaises, LogLeave, SaveMarker, UnlinkMarker,
          RetireIdleTables, Outcome, WaitForMirrorCapacity, Record, AfterEnd, AfterDestroy,
          disk, ghosts
    <3> QED
      BY <2>4, <3>1
  <2> QED
    BY <2>5, <2>6, <2>7, <2>8, <2>9, <2>10, <2>11, <2>12, <2>13
<1>3. CASE down' # <<>>
  <2>1. down' = down /\ server' = server
    BY <1>3 DEF Calls, SaveSlot, SendCommand, SendRaises, LogLeave, SaveMarker, UnlinkMarker,
          RetireTable, RetireIdleTables, ReadyTable, CreateNextTable, Outcome,
          WaitForMirrorCapacity, Assign, PlayGame, Package, Record, Withdraw, AfterEnd,
          AfterDestroy, Hangup, Raise, Stop, Ends, net
  <2> QED
    BY <1>0, <1>2, <1>3, <2>1 DEF StartsOK
<1> QED
  BY <1>1, <1>3

\* What another line does to the starts on their way.
LEMMA StartsAppended ==
  ASSUME NEW S, NEW s \in Seq(S), NEW x \in S
  PROVE  /\ \A t, n : Starts(Append(s, x), t, n) =>
                         Starts(s, t, n) \/ (x.event = "start" /\ x.t = t /\ x.n = n)
         /\ \A e, t : Hears(s, e, t) => Hears(Append(s, x), e, t)
<1>1. /\ Len(s) \in Nat /\ DOMAIN s = 1..Len(s)
      /\ DOMAIN Append(s, x) = 1..(Len(s) + 1)
      /\ Append(s, x)[Len(s) + 1] = x
      /\ \A i \in 1..Len(s) : Append(s, x)[i] = s[i]
  BY AppendIs, SeqIs
<1>2. ASSUME NEW i \in DOMAIN Append(s, x)
      PROVE  Append(s, x)[i] = x \/ (i \in DOMAIN s /\ Append(s, x)[i] = s[i])
  BY <1>1
<1>3. ASSUME NEW i \in DOMAIN s PROVE i \in DOMAIN Append(s, x) /\ Append(s, x)[i] = s[i]
  BY <1>1
<1> QED
  BY <1>2, <1>3 DEF Hears, Starts

\* A CREATE of a table without a game and without a slot that waits for it leaves the table.
LEMMA HandlersStarts ==
  ASSUME SlotsAssumption, Types, TablesInv, GamesInv, Handlers
  PROVE  StartsOK'
<1>0. /\ down # <<>> /\ down \in Seq(Lines) /\ Line = Head(down) /\ todo = <<>>
      /\ \A t \in Tables : TableOK(t)
      /\ StartsOK
  BY DEF Handlers, OnCreate, OnStart, OnEnd, OnTableError, OnDestroy, Reading, Line, Types,
         TablesInv, GamesInv
<1>1. CASE \E why : Raise(why)
  BY <1>1, EmptyStarts DEF Raise, Stop, Ends, Hangup
<1>2. CASE ~(\E why : Raise(why))
  <2>1. down' = Tail(down) /\ UNCHANGED <<slots, active, played, evidence, server>>
    BY <1>2, DestroyIsFree
       DEF Handlers, OnCreate, OnStart, OnEnd, OnTableError, OnDestroy, Taken, disk, ghosts
  <2>2. ASSUME NEW t \in Tables, NEW n \in 1..MaxGames, Starts(down', t, n)
        PROVE  n <= server'[t].n /\ StartOK(t, n)'
    <3>1. Starts(down, t, n)
      BY <1>0, <2>1, <2>2, HeadOrTail
    <3>2. n <= server[t].n /\ StartOK(t, n) /\ TableOK(t)
      BY <1>0, <3>1 DEF StartsOK
    <3>3. ~Retires(todo, t)
      BY <1>0, EmptyIs DEF Retires
    <3>4. CASE Unplayed(t, n) \/ active[t] # NoGame \/ slots[t] = "RETIRING"
      BY <2>1, <3>2, <3>4 DEF StartOK, Unplayed
    <3>5. CASE Hears(down', "create", t)
      BY <2>1, <3>2, <3>5 DEF StartOK
    <3>6. CASE Head(down).event = "create" /\ Head(down).t = t
               /\ active[t] = NoGame /\ slots[t] # "RETIRING"
      <4>1. OnCreate /\ Line.t = t
        BY <1>0, <3>6 DEF Handlers, OnCreate, OnStart, OnEnd, OnTableError, OnDestroy, Reading
      <4>2. slots[t] # "PENDING_CREATE"
        BY <3>1, <3>2 DEF TableOK, Managed, Starts, Hears
      <4>3. \E r : todo' = Retire(t, r)
        BY <3>6, <4>1, <4>2 DEF OnCreate
      <4>4. \A r : Retires(Retire(t, r), t)
        BY DEF Retires, Retire
      <4>5. Retires(todo', t)
        BY <4>3, <4>4
      <4> QED
        BY <2>1, <3>2, <4>5 DEF StartOK
    <3> QED
      BY <1>0, <2>1, <3>2, <3>3, <3>4, <3>5, <3>6, HeadOrTail DEF StartOK
  <2> QED
    BY <2>2 DEF StartsOK
<1> QED
  BY <1>1, <1>2

\* The replay creates a table again before its game starts.
LEMMA SessionStarts ==
  ASSUME SlotsAssumption, Types, TablesInv, GamesInv, Session
  PROVE  StartsOK'
<1>1. CASE Connect
  <2>1. PICK lines \in [1..Cardinality(Replay) -> Replay] : Replays(lines) /\ down' = lines
    BY <1>1 DEF Connect
  <2>2. server' = server /\ \A t \in Tables : server[t].n \in Nat
    BY <1>1 DEF Connect, Types, ServerRecord, SlotsAssumption
  <2>3. ASSUME NEW t \in Tables, NEW n \in 1..MaxGames, Starts(down', t, n)
        PROVE  n <= server'[t].n /\ StartOK(t, n)'
    <3>1. PICK i \in DOMAIN lines : lines[i].event = "start" /\ lines[i].t = t /\ lines[i].n = n
      BY <2>1, <2>3 DEF Starts
    <3>2. lines[i].n = server[t].n /\ Hears(lines, "create", t)
      BY <2>1, <3>1, ReplayMeans
    <3> QED
      BY <2>1, <2>2, <3>1, <3>2 DEF StartOK
  <2> QED
    BY <2>3 DEF StartsOK
<1>2. CASE ~Connect
  <2>1. CASE ReadRaises \/ \E why : Raise(why)
    BY <2>1, EmptyStarts DEF ReadRaises, Raise, Stop, Ends, Hangup
  <2>2. CASE Restart
    BY <2>2, EmptyStarts DEF Restart, TablesInv, ConnOK, net
  <2>3. CASE (Confirm \/ Recover \/ Restore) /\ ~(\E why : Raise(why))
    <3>1. todo # <<>> /\ Op.call \in Recovering /\ down' = down
      BY <2>3 DEF Confirm, Recover, Restore, Calling, Recovering, net
    <3>2. down = <<>>
      BY <3>1, CallIs DEF TablesInv, ConnOK
    <3> QED
      BY <3>1, <3>2, EmptyStarts
  <2> QED
    BY <1>2, <2>1, <2>2, <2>3 DEF Session, Recovery
<1> QED
  BY <1>1, <1>2

\* A line is lost only with everything behind it.
LEMMA BreakStarts ==
  ASSUME SlotsAssumption, Types, TablesInv, GamesInv, Break
  PROVE  StartsOK'
<1>1. PICK m \in 0..Len(down) : down' = SubSeq(down, 1, m)
  BY DEF Break
<1>2. /\ UNCHANGED <<slots, active, played, evidence, server, todo>>
      /\ down \in Seq(Lines) /\ LineOrder(down) /\ StartsOK
  BY DEF Break, disk, Types, TablesInv, GamesInv
<1>3. /\ Len(down) \in Nat /\ DOMAIN down = 1..Len(down) /\ DOMAIN down' = 1..m
      /\ \A i \in 1..m : down'[i] = down[i]
  BY <1>1, <1>2, PrefixIs, SeqIs
<1>4. ASSUME NEW t \in Tables, NEW n \in 1..MaxGames, Starts(down', t, n)
      PROVE  n <= server'[t].n /\ StartOK(t, n)'
  <2>1. PICK j \in 1..m : down[j].event = "start" /\ down[j].t = t /\ down[j].n = n
    BY <1>3, <1>4 DEF Starts
  <2>2. j \in DOMAIN down /\ n <= server[t].n /\ StartOK(t, n)
    BY <1>2, <1>3, <2>1 DEF Starts, StartsOK
  <2>3. ASSUME Hears(down, "create", t) PROVE Hears(down', "create", t)
    <3>1. PICK i \in DOMAIN down : down[i].event = "create" /\ down[i].t = t
      BY <2>3 DEF Hears
    <3>2. ~(j < i)
      BY <1>2, <2>1, <2>2, <3>1 DEF LineOrder
    <3>3. i \in 1..m
      BY <1>3, <2>1, <2>2, <3>1, <3>2
    <3> QED
      BY <1>3, <3>1, <3>3 DEF Hears
  <2>4. StartOK(t, n)'
    BY <1>2, <2>2, <2>3, StartStays
  <2> QED
    BY <1>2, <2>2, <2>4
<1> QED
  BY <1>4 DEF StartsOK

\* The server starts a game it has not started before.
LEMMA ServerStarts ==
  ASSUME SlotsAssumption, Types, TablesInv, GamesInv, Server
  PROVE  StartsOK'
<1>0. /\ UNCHANGED <<slots, active, evidence, todo>>
      /\ down \in Seq(Lines) /\ StartsOK /\ KnownGames
      /\ \A t \in Tables :
            server'[t].n \in Nat /\ server[t].n \in Nat /\ server'[t].n >= server[t].n
  BY NumbersGrow DEF Server, ServerTakes, StartGame, EndGame, Refuse, disk, Types, GamesInv, Next
<1>1. ASSUME NEW t \in Tables, NEW n \in 1..MaxGames, Starts(down, t, n),
             played'[t] \in {played[t], {}},
             Hears(down, "create", t) => Hears(down', "create", t)
      PROVE  n <= server'[t].n /\ StartOK(t, n)'
  <2>1. n <= server[t].n /\ StartOK(t, n)
    BY <1>0, <1>1 DEF StartsOK
  <2>2. StartOK(t, n)'
    BY <1>0, <1>1, <2>1 DEF StartOK, Unplayed
  <2> QED
    BY <1>0, <2>1, <2>2
<1>2. ASSUME NEW line \in Lines, Tell(line)
      PROVE  /\ \A t, n : Starts(down', t, n) =>
                   Starts(down, t, n) \/ (line.event = "start" /\ line.t = t /\ line.n = n)
             /\ \A t : Hears(down, "create", t) => Hears(down', "create", t)
  <2>1. CASE down' = down
    BY <2>1
  <2>2. CASE down' = Append(down, line)
    <3>1. down \in Seq(Lines)
      BY <1>0
    <3> QED
      BY <2>2, <3>1, StartsAppended
  <2>3. down' = down \/ down' = Append(down, line)
    BY <1>2, Told
  <2> QED
    BY <2>1, <2>2, <2>3
<1>3. ASSUME NEW line \in Lines, Tell(line), line.event # "start", UNCHANGED played PROVE StartsOK'
  BY <1>1, <1>2, <1>3 DEF StartsOK
<1>4. CASE ServerTakes
  <2>1. UNCHANGED played
    BY <1>4 DEF ServerTakes, ghosts
  <2>2. PICK t \in Tables : t = Head(up).t
    BY <1>4, CommandTaken DEF ServerTakes
  <2>3. [event |-> "create", t |-> t] \in Lines /\ [event |-> "destroy", t |-> t] \in Lines
    BY LinesMade
  <2>4. CASE Tell([event |-> "create", t |-> t]) \/ Tell([event |-> "destroy", t |-> t])
    BY <1>3, <2>1, <2>3, <2>4
  <2>5. CASE UNCHANGED down
    BY <1>1, <2>1, <2>5 DEF StartsOK
  <2> QED
    BY <1>4, <2>2, <2>4, <2>5 DEF ServerTakes
<1>5. ASSUME NEW t \in Tables, EndGame(t) PROVE StartsOK'
  <2>1. [event |-> "end", t |-> t] \in Lines
    BY LinesMade
  <2> QED
    BY <1>3, <1>5, <2>1 DEF EndGame, ghosts
<1>6. ASSUME NEW t \in Tables, Refuse(t) PROVE StartsOK'
  <2>1. [event |-> "error", t |-> t] \in Lines
    BY LinesMade
  <2> QED
    BY <1>3, <1>6, <2>1 DEF Refuse
<1>7. ASSUME NEW u \in Tables, StartGame(u) PROVE StartsOK'
  <2>1. PICK m \in 1..MaxGames : m = server[u].n + 1
    BY <1>7 DEF StartGame, Types, ServerRecord, SlotsAssumption
  <2> DEFINE line == [event |-> "start", t |-> u, n |-> m]
  <2>2. line \in Lines /\ line.event = "start" /\ line.t = u /\ line.n = m /\ Tell(line)
    BY <1>7, <2>1, LinesMade DEF StartGame
  <2>3. /\ played'[u] = {} /\ \A t \in Tables : t # u => played'[t] = played[t]
        /\ server'[u].n = m
    <3>1. played \in [Tables -> SUBSET Arms] /\ server \in [Tables -> ServerRecord]
      BY DEF GamesInv, Types
    <3> QED
      BY <1>7, <2>1, <3>1 DEF StartGame
  <2> HIDE DEF line
  <2>4. ASSUME NEW t \in Tables, NEW n \in 1..MaxGames, Starts(down', t, n)
        PROVE  n <= server'[t].n /\ StartOK(t, n)'
    <3>1. CASE Starts(down, t, n)
      BY <1>1, <1>2, <2>2, <2>3, <3>1
    <3>2. CASE t = u /\ n = m
      <4>1. Game(u, m) \notin DOMAIN evidence
        <5>1. SUFFICES ASSUME Game(u, m) \in DOMAIN evidence PROVE FALSE
          OBVIOUS
        <5>2. m <= server[u].n
          BY <1>0, <5>1, GameIs DEF KnownGames
        <5> QED
          BY <1>0, <2>1, <5>2
      <4> QED
        BY <1>0, <2>3, <3>2, <4>1 DEF StartOK, Unplayed
    <3> QED
      BY <1>2, <2>2, <2>4, <3>1, <3>2
  <2> QED
    BY <2>4 DEF StartsOK
<1> QED
  BY <1>4, <1>5, <1>6, <1>7 DEF Server

LEMMA StartsKept ==
  ASSUME SlotsAssumption, Types, TablesInv, GamesInv, [Next]_vars
  PROVE  StartsOK'
<1>1. CASE UNCHANGED vars
  BY <1>1 DEF vars, disk, net, ghosts, GamesInv, StartsOK, StartOK, Unplayed
<1>2. CASE Die
  BY <1>2, EmptyStarts DEF Die, Stop, Ends, Hangup
<1> QED
  BY <1>1, <1>2, CallsStarts, HandlersStarts, SessionStarts, BreakStarts, ServerStarts
     DEF Next, Breakage

----------------------------------------------------------------------------
(* The quota.                                                              *)

LEMMA LedgerIsFinite ==
  ASSUME SlotsAssumption, Types, TablesInv, GamesInv, [Next]_vars
  PROVE  IsFiniteSet(ledger')
<1>1. IsFiniteSet(ledger)
  BY DEF GamesInv
<1>2. CASE Record
  <2>1. ledger' = ledger \/ ledger' = ledger \cup {GameOf(Op.t)}
    BY <1>2 DEF Record
  <2> QED
    BY <1>1, <2>1, FS_AddElement
<1> QED
  BY <1>1, <1>2, GamesFrame

LEMMA QuotaIsFinite ==
  ASSUME SlotsAssumption, GamesInv
  PROVE  /\ IsFiniteSet(Scored) /\ IsFiniteSet(Reserved) /\ IsFiniteSet(Scored \cup Reserved)
         /\ Cardinality(Scored) \in Nat /\ Cardinality(Reserved) \in Nat
         /\ Cardinality(Scored \cup Reserved) \in Nat
         /\ Cardinality(Scored \cup Reserved) <= Cardinality(Scored) + Cardinality(Reserved)
<1>1. IsFiniteSet(Scored)
  <2>1. Scored \subseteq ledger
    BY DEF Scored
  <2> QED
    BY <2>1, FS_Subset DEF GamesInv
<1>2. IsFiniteSet(Reserved)
  <2> DEFINE primary == {u \in Running : active[u].primary}
             f == [t \in primary |-> GameOf(t)]
  <2>1. IsFiniteSet(primary)
    <3>1. primary \subseteq Tables
      BY DEF Running
    <3> QED
      BY <3>1, FS_Subset DEF SlotsAssumption
  <2>2. f \in Surjection(primary, Reserved)
    BY DEF Reserved, Surjection
  <2> QED
    BY <2>1, <2>2, FS_Surjection
<1>3. IsFiniteSet(Scored \cup Reserved) /\ IsFiniteSet(Scored \cap Reserved)
      /\ Cardinality(Scored \cup Reserved) =
           Cardinality(Scored) + Cardinality(Reserved) - Cardinality(Scored \cap Reserved)
  <2>1. Scored \cap Reserved \subseteq Scored
    OBVIOUS
  <2> QED
    BY <1>1, <1>2, <2>1, FS_Union, FS_Subset
<1>4. /\ Cardinality(Scored) \in Nat /\ Cardinality(Reserved) \in Nat
      /\ Cardinality(Scored \cup Reserved) \in Nat /\ Cardinality(Scored \cap Reserved) \in Nat
  BY <1>1, <1>2, <1>3, FS_CardinalityType
<1> QED
  BY <1>1, <1>2, <1>3, <1>4

\* The games that count, or may: a step adds none to them, ...
LEMMA QuotaCalm ==
  ASSUME SlotsAssumption, GamesInv, Scored' \cup Reserved' \subseteq Scored \cup Reserved
  PROVE  QuotaIsReserved'
<1>1. IsFiniteSet(Scored \cup Reserved) /\ Cardinality(Scored \cup Reserved) \in Nat
  BY QuotaIsFinite
<1>2. Cardinality(Scored' \cup Reserved') <= Cardinality(Scored \cup Reserved)
      /\ IsFiniteSet(Scored' \cup Reserved')
  BY <1>1, FS_Subset
<1>3. Cardinality(Scored' \cup Reserved') \in Nat
  BY <1>2, FS_CardinalityType
<1>4. Cardinality(Scored \cup Reserved) <= Need /\ Need \in Nat
  BY DEF GamesInv, QuotaIsReserved, SlotsAssumption
<1>5. Cardinality(Scored' \cup Reserved') <= Need
  BY <1>1, <1>2, <1>3, <1>4
<1> QED
  BY <1>5 DEF QuotaIsReserved

\* ... or one that is still missing.
LEMMA QuotaTaken ==
  ASSUME SlotsAssumption, GamesInv, Missing, NEW g,
         Scored' \cup Reserved' \subseteq (Scored \cup Reserved) \cup {g}
  PROVE  QuotaIsReserved'
<1>1. /\ IsFiniteSet(Scored \cup Reserved)
      /\ Cardinality(Scored) \in Nat /\ Cardinality(Reserved) \in Nat
      /\ Cardinality(Scored \cup Reserved) \in Nat
      /\ Cardinality(Scored \cup Reserved) <= Cardinality(Scored) + Cardinality(Reserved)
  BY QuotaIsFinite
<1> DEFINE more == (Scored \cup Reserved) \cup {g}
<1>2. IsFiniteSet(more) /\ Cardinality(more) <= Cardinality(Scored \cup Reserved) + 1
  <2> DEFINE old == Scored \cup Reserved
  <2>1. IsFiniteSet(old) /\ Cardinality(old) \in Nat
    BY <1>1
  <2> HIDE DEF old
  <2>2. IsFiniteSet(old \cup {g}) /\ Cardinality(old \cup {g}) \in {Cardinality(old), Cardinality(old) + 1}
    BY <2>1, FS_AddElement
  <2>3. IsFiniteSet(old \cup {g}) /\ Cardinality(old \cup {g}) <= Cardinality(old) + 1
    BY <2>1, <2>2
  <2> QED
    BY <2>3 DEF old
<1>3. Cardinality(more) \in Nat
  BY <1>2, FS_CardinalityType
<1>4. Cardinality(Scored' \cup Reserved') <= Cardinality(more)
      /\ IsFiniteSet(Scored' \cup Reserved')
  <2>1. Scored' \cup Reserved' \in SUBSET more
    OBVIOUS
  <2> HIDE DEF more
  <2> QED
    BY <1>2, <2>1, FS_Subset
<1>5. Cardinality(Scored' \cup Reserved') \in Nat
  BY <1>4, FS_CardinalityType
<1>6. Cardinality(Scored) + Cardinality(Reserved) < Need /\ Need \in Nat
  BY DEF Missing, SlotsAssumption
<1> HIDE DEF more
<1>7. Cardinality(Scored' \cup Reserved') <= Need
  BY <1>1, <1>2, <1>3, <1>4, <1>5, <1>6
<1> QED
  BY <1>7 DEF QuotaIsReserved

\* A game that ends, or is given up, reserves nothing any more.
LEMMA QuotaFreed ==
  ASSUME SlotsAssumption, GamesInv, UNCHANGED <<ledger, evidence>>,
         \A t \in Tables : active'[t] = active[t] \/ active'[t] = NoGame
  PROVE  QuotaIsReserved'
<1>1. Scored' = Scored
  BY DEF Scored
<1>2. ASSUME NEW t \in Tables, active'[t] = active[t] PROVE GameOf(t)' = GameOf(t)
  BY <1>2 DEF GameOf
<1>3. Reserved' \subseteq Reserved
  BY <1>2 DEF Reserved, Running
<1> QED
  BY <1>1, <1>3, QuotaCalm

\* A game is scored out of the reservation that its assignment made.
LEMMA QuotaKept ==
  ASSUME SlotsAssumption, Types, TablesInv, GamesInv, [Next]_vars
  PROVE  QuotaIsReserved'
<1>0. /\ active \in [Tables -> GameRecord] /\ \A t \in Tables : ArmOK(t)
      /\ ledger \subseteq DOMAIN evidence
  BY DEF Types, TablesInv, GamesInv
<1>1. CASE ~Package /\ ~Record /\ ~Assign /\ ~Withdraw /\ ~Recover
  BY <1>1, GamesFrame, QuotaFreed
<1>2. CASE Withdraw \/ Recover
  <2>1. /\ UNCHANGED <<ledger, evidence>>
        /\ \A t \in Tables : active'[t] = active[t] \/ active'[t] = NoGame
    BY <1>0, <1>2 DEF Withdraw, Recover, Raise, Stop, Ends, disk
  <2> QED
    BY <2>1, QuotaFreed
<1>3. ASSUME NEW t \in Tables, active[t] # NoGame, active[t].primary
      PROVE  GameOf(t) \in Reserved
  BY <1>3 DEF Reserved, Running
<1>4. CASE Package
  <2>1. todo # <<>> /\ Op.call = "package" /\ UNCHANGED <<active, ledger>>
    BY <1>4 DEF Package, Calling
  <2>2. PICK t \in Tables : t = Op.t
    BY <2>1, GameCallIs
  <2>3. active[t] # NoGame
    BY <2>1, <2>2, GameCallIs
  <2>4. evidence' = [x \in DOMAIN evidence \cup {GameOf(t)} |->
                       IF x = GameOf(t) THEN Op.status ELSE evidence[x]]
    BY <1>4, <2>2 DEF Package
  <2>5. Reserved' = Reserved
    BY <2>1 DEF Reserved, Running, GameOf
  <2>6. ASSUME NEW g \in ledger, evidence'[g] = "SCORED" PROVE g \in Scored \cup Reserved
    <3>1. CASE g = GameOf(t)
      BY <1>0, <1>3, <2>3, <3>1 DEF ArmOK
    <3>2. CASE g # GameOf(t)
      BY <1>0, <2>4, <2>6, <3>2 DEF Scored
    <3> QED
      BY <3>1, <3>2
  <2>7. Scored' \subseteq Scored \cup Reserved
    BY <2>1, <2>6 DEF Scored
  <2> QED
    BY <2>5, <2>7, QuotaCalm
<1>5. CASE Record
  <2>1. todo # <<>> /\ Op.call = "record" /\ UNCHANGED <<active, evidence>>
    BY <1>5 DEF Record, Calling
  <2>2. PICK t \in Tables : t = Op.t
    BY <2>1, GameCallIs
  <2>3. active[t] # NoGame /\ (Op.counts => active[t].primary)
    BY <2>1, <2>2, GameCallIs DEF CallOK
  <2>4. ledger' = IF Op.counts THEN ledger \cup {GameOf(t)} ELSE ledger
    BY <1>5, <2>2 DEF Record
  <2>5. Reserved' = Reserved
    BY <2>1 DEF Reserved, Running, GameOf
  <2>6. Scored' \subseteq Scored \cup Reserved
    BY <1>3, <2>1, <2>3, <2>4 DEF Scored
  <2> QED
    BY <2>5, <2>6, QuotaCalm
<1>6. CASE Assign
  <2>1. todo # <<>> /\ Op.call = "assign" /\ UNCHANGED <<ledger, evidence>>
    BY <1>6 DEF Assign, Calling
  <2>2. PICK u \in Tables : u = Op.t
    BY <2>1, GameCallIs
  <2>3. Scored' = Scored
    BY <2>1 DEF Scored
  <2>4. CASE UNCHANGED active
    BY <2>1, <2>4, QuotaFreed
  <2>5. CASE ~UNCHANGED active
    <3> DEFINE game(arm) == [n |-> Op.n, arm |-> arm, primary |-> Missing]
    <3>1. PICK arm \in Arms : active' = [active EXCEPT ![u] = game(arm)]
      BY <1>6, <2>2, <2>5 DEF Assign, Arms
    <3>2. /\ \A t \in Tables : t # u => active'[t] = active[t]
          /\ active'[u] = game(arm)
      BY <1>0, <3>1
    <3>3. /\ \A t \in Tables : t # u => GameOf(t)' = GameOf(t)
          /\ active'[u].primary = Missing
      BY <3>2 DEF GameOf
    <3> HIDE DEF game
    <3>4. CASE Missing
      <4>1. Reserved' \subseteq Reserved \cup {GameOf(u)'}
        BY <3>2, <3>3 DEF Reserved, Running
      <4> QED
        BY <2>3, <3>4, <4>1, QuotaTaken
    <3>5. CASE ~Missing
      <4>1. Reserved' \subseteq Reserved
        BY <3>2, <3>3, <3>5 DEF Reserved, Running
      <4> QED
        BY <2>3, <4>1, QuotaCalm
    <3> QED
      BY <3>4, <3>5
  <2> QED
    BY <2>4, <2>5
<1> QED
  BY <1>1, <1>2, <1>4, <1>5, <1>6

LEMMA GamesInvKept ==
  ASSUME SlotsAssumption, Types, TablesInv, GamesInv, [Next]_vars
  PROVE  GamesInv'
<1>1. /\ played' \in [Tables -> SUBSET Arms] /\ \A t \in Tables : ArmOK(t)'
      /\ KnownGames' /\ StartsOK' /\ GameCalls' /\ IsFiniteSet(ledger') /\ QuotaIsReserved'
  BY ArmsKept, KnownGamesKept, StartsKept, GameCallsKept, LedgerIsFinite, QuotaKept
<1> QED
  BY <1>1 DEF GamesInv

LEMMA InitGames ==
  ASSUME SlotsAssumption, Init
  PROVE  GamesInv
<1>1. \A t \in Tables : active[t] = NoGame /\ played[t] = {}
  BY DEF Init
<1>2. \A t \in Tables : ArmOK(t)
  BY <1>1 DEF ArmOK
<1>3. DOMAIN evidence = {} /\ ledger = {} /\ DOMAIN todo = {} /\ DOMAIN down = {}
  BY EmptyIs DEF Init
<1>4. Scored = {} /\ Reserved = {}
  BY <1>1, <1>3 DEF Scored, Reserved, Running
<1>5. QuotaIsReserved
  <2>1. Cardinality(Scored \cup Reserved) = 0
    BY <1>4, FS_EmptySet
  <2> QED
    BY <2>1 DEF QuotaIsReserved, SlotsAssumption
<1>6. IsFiniteSet(ledger)
  BY <1>3, FS_EmptySet
<1>7. played \in [Tables -> SUBSET Arms]
  BY DEF Init
<1> QED
  BY <1>2, <1>3, <1>5, <1>6, <1>7 DEF GamesInv, KnownGames, StartsOK, Starts, GameCalls

\* What the invariant says of the games.
LEMMA GamesAre ==
  ASSUME SlotsAssumption, Types, GamesInv
  PROVE  GamesAreAssigned
<1>1. ASSUME NEW t \in Tables
      PROVE  /\ Cardinality(played[t]) <= 1 /\ NONE \notin played[t]
             /\ active[t] # NoGame => played[t] \subseteq {active[t].arm}
  <2>1. ArmOK(t) /\ played[t] \subseteq Arms
    BY DEF GamesInv
  <2>2. NONE \notin played[t]
    BY <2>1 DEF Arms, NONE
  <2>3. Cardinality(played[t]) <= 1
    <3>1. Cardinality({}) = 0 /\ \A a : Cardinality({a}) = 1
      BY FS_EmptySet, FS_Singleton
    <3>2. played[t] = {} \/ \E a \in Arms : played[t] = {a}
      BY <2>1 DEF ArmOK
    <3>3. Cardinality(played[t]) = 0 \/ Cardinality(played[t]) = 1
      BY <3>1, <3>2
    <3> QED
      BY <3>3
  <2> QED
    BY <2>1, <2>2, <2>3 DEF ArmOK
<1> QED
  BY <1>1 DEF GamesAreAssigned, OneArmPerGame, GamesInv

UnmissedGames == Types /\ (missed = {} => TablesInv /\ GamesInv)

LEMMA GamesInductive == Spec => []UnmissedGames
<1>1. Init => UnmissedGames
  BY SlotsAssumption, InitTypes, InitTables, InitGames DEF UnmissedGames
<1>2. UnmissedGames /\ [Next]_vars => UnmissedGames'
  BY SlotsAssumption, TypesKept, TablesInvKept, GamesInvKept, MissedStays DEF UnmissedGames
<1> QED
  BY <1>1, <1>2, PTL DEF Spec

\* _on_start_preapply, choose_arm_for_stratum: over reconnects, deaths and
\* restarts a game is decided by the arm of its assignment on disk and by no
\* other, and the primary games that are scored or run never exceed the quota, as long
\* as _on_table_error has missed no game.
THEOREM GameAssignment == Spec => [](missed = {} => GamesAreAssigned)
<1>1. UnmissedGames => (missed = {} => GamesAreAssigned)
  BY SlotsAssumption, GamesAre DEF UnmissedGames
<1> QED
  BY <1>1, GamesInductive, PTL
=============================================================================
