---------------------------- MODULE DecisionHost ----------------------------
(* A JSkat series played through the host service: SkatAIJSkatPlayer answers  *)
(* the callbacks of the game engine, JsonLineHostClient exchanges one line    *)
(* with the host process (src/skatai/runtime/host_service.py), whose loop is  *)
(* a caller of the worker pool.  Without a host the pool is the gate worker's *)
(* and its callers call as they like.                                         *)
(*                                                                            *)
(* The engine is outside, modelled as the adapter relies on it: its auction,  *)
(* its order of callbacks, and what it has told the player before each.  Cards *)
(* are left out; a bid is its place in a short list of values, 0 for none.    *)
EXTENDS WorkerPool, SkatAuction, Sequences

CONSTANTS
    Series,     \* bound: games of a series; Series of hands to be valued
    HandOf,     \* game -> the key of our ten cards
    Host        \* the caller that is the host's loop

ASSUME SeriesAssumption == Series \in Nat /\ Host \in Callers

VARIABLES
    engine,     \* the game: what comes next, the auction, declarer, kind of contract
    player,     \* SkatAIJSkatPlayer
    client,     \* JsonLineHostClient: the request, and readLine calls given up
    host        \* the host process: its pipes, and what it works on

vars == <<poolVars, left, engine, player, client, host>>
table == <<engine, player, client, host>>

NoRequest == [kind |-> None, game |-> 0, seq |-> 0]
Fresh == [seq |-> 0, solo |-> 0, hand |-> FALSE, plan |-> 0, wrong |-> FALSE]

Deal(game, me) ==
    LET a == NewAuction IN
    [game |-> game, me |-> me, contract |-> None, phase |-> a.phase, stage |-> a.stage,
     hearer |-> a.hearer, cur |-> a.cur, bids |-> a.bids, declarer |-> a.declarer]

Init ==
    /\ PoolInit
    /\ engine = [Deal(0, 0) EXCEPT !.phase = "over"]
    /\ player = Fresh
    /\ client = [pc |-> "idle", req |-> NoRequest, stale |-> 0]
    /\ host = [alive |-> (left.who = "host"), killed |-> FALSE, inbox |-> <<>>, outbox |-> <<>>,
               work |-> NoRequest]

-----------------------------------------------------------------------------
(* The engine: auction, skat, announcement, cards.                           *)

\* Whom the next callback asks.
Asked ==
    CASE engine.phase \in {"bid", "solo"} -> Announcer(engine)
      [] engine.phase = "hold" -> engine.hearer
      [] engine.phase \in {"pick", "discard", "announce"} -> engine.declarer
      [] engine.phase = "play" -> engine.me
      [] OTHER -> NoOne

\* The game after the one who was asked said yes or no.
Answered(yes) ==
    CASE engine.phase \in {"bid", "hold", "solo"} -> Bidding(engine, yes)
      [] engine.phase = "pick" -> [engine EXCEPT !.phase = IF yes THEN "discard" ELSE "announce"]
      [] engine.phase = "discard" -> [engine EXCEPT !.phase = "announce"]
      [] engine.phase = "play" -> [engine EXCEPT !.phase = "over"]

\* Other players; at the last value none of them bids on.
OtherAnswers ==
    /\ left.who = "host" /\ Asked \in Seats \ {engine.me} /\ engine.phase \in {"bid", "hold", "solo"}
    /\ \E yes \in BOOLEAN :
          /\ engine.phase = "bid" /\ engine.cur = Top => ~yes
          /\ engine' = Answered(yes)
    /\ UNCHANGED <<poolVars, left, player, client, host>>

OtherDeclares ==
    /\ left.who = "host" /\ engine.phase = "pick" /\ engine.declarer # engine.me
    /\ \E c \in {"hand", "open"} : engine' = [engine EXCEPT !.phase = "play", !.contract = c]
    /\ UNCHANGED <<poolVars, left, player, client, host>>

\* Mutant of prepareForNewGame: only the game and its sequence are new.
KeepsAuction ==
    /\ left.who = "host" /\ engine.phase = "over" /\ client.pc = "idle" /\ engine.game < Series
    /\ \E me \in Seats : engine' = Deal(engine.game + 1, me)
    /\ player' = [player EXCEPT !.seq = 0]
    /\ UNCHANGED <<poolVars, left, client, host>>

\* The next game of the series; the host process stays.
prepareForNewGame ==
    /\ left.who = "host" /\ engine.phase = "over" /\ client.pc = "idle" /\ engine.game < Series
    /\ \E me \in Seats : engine' = Deal(engine.game + 1, me)
    /\ player' = Fresh
    /\ UNCHANGED <<poolVars, left, client, host>>

-----------------------------------------------------------------------------
(* The player: what it derives from the auction, and what it asks the host.  *)

highestBid(s) == engine.bids[s]
maxAcceptedBid == CHOOSE v \in {highestBid(s) : s \in Seats} : \A s \in Seats : highestBid(s) <= v

firstDuelWinner == IF highestBid(1) > highestBid(0) THEN 1 ELSE 0

inferredSoloForehand18 ==
    player.solo = 1 \/ (maxAcceptedBid = 0 /\ engine.declarer = 0 /\ engine.contract # None)

winningBid ==
    CASE maxAcceptedBid > 0 -> maxAcceptedBid
      [] maxAcceptedBid = 0 /\ inferredSoloForehand18 -> 1
      [] OTHER -> 0

maxAcceptedBids ==
    [s \in Seats |-> IF s = 0 /\ highestBid(0) = 0
                        /\ (player.solo = 1 \/ (maxAcceptedBid = 0 /\ inferredSoloForehand18))
                     THEN 1 ELSE highestBid(s)]

\* A request on its way: the sequence numbers it takes are the player's next.
Ask(req, n) ==
    /\ client' = [client EXCEPT !.pc = "write", !.req = req]
    /\ player' = [player EXCEPT !.seq = @ + n]
    /\ UNCHANGED engine

\* An exception of the player's own: it cannot make sense of the game.
Refuse ==
    /\ player' = [player EXCEPT !.wrong = TRUE]
    /\ engine' = [engine EXCEPT !.phase = "over"]
    /\ UNCHANGED client

Bid(bidder, answerer) ==
    Ask([kind |-> "BID", game |-> engine.game, seq |-> player.seq, bidder |-> bidder,
         answerer |-> answerer, actor |-> engine.me], 1)

Decide(kind, n) ==
    Ask([kind |-> kind, game |-> engine.game, seq |-> player.seq, bid |-> winningBid,
         bids |-> maxAcceptedBids], n)

MyTurn(phase) == left.who = "host" /\ client.pc = "idle" /\ Asked = engine.me /\ engine.phase = phase

bidMore ==
    LET next == IF engine.phase = "solo" THEN 1 ELSE Next18(engine.cur)
        answerer == IF engine.me = 2 THEN firstDuelWinner ELSE 0 IN
    /\ MyTurn("bid") \/ MyTurn("solo")
    /\ \/ /\ engine.me # 0 /\ next = Top /\ highestBid(engine.me) = Top /\ highestBid(answerer) = Top
          /\ engine' = Answered(FALSE) /\ UNCHANGED <<player, client>>
       \/ /\ engine.me # 0
          /\ ~(next = Top /\ highestBid(engine.me) = Top /\ highestBid(answerer) = Top)
          /\ Bid(engine.me, answerer)
       \/ engine.me = 0 /\ next = 1 /\ maxAcceptedBid = 0 /\ Bid(0, 0)
       \/ engine.me = 0 /\ ~(next = 1 /\ maxAcceptedBid = 0) /\ Refuse
    /\ UNCHANGED <<poolVars, left, host>>

holdBid ==
    LET bidder == IF highestBid(2) >= engine.cur THEN 2 ELSE 1 IN
    /\ MyTurn("hold")
    /\ IF engine.me \in {2, bidder} THEN Refuse ELSE Bid(bidder, engine.me)
    /\ UNCHANGED <<poolVars, left, host>>

pickUpSkat ==
    /\ MyTurn("pick")
    /\ IF winningBid = 0 THEN Refuse ELSE Decide("DECLARATION", 1)
    /\ UNCHANGED <<poolVars, left, host>>

\* The plan commits DECLARATION at N and DISCARD at N + 1.
getCardsToDiscard ==
    /\ MyTurn("discard")
    /\ IF winningBid = 0 THEN Refuse ELSE Decide("PLAN", 2)
    /\ UNCHANGED <<poolVars, left, host>>

\* The contract that was planned with the discard, or declared from the hand: a plan
\* of other cards does not fit.
announceGame ==
    /\ MyTurn("announce")
    /\ \/ /\ player.plan = engine.game
          /\ engine' = [engine EXCEPT !.phase = "play", !.contract = "open"]
          /\ UNCHANGED <<player, client>>
       \/ /\ player.plan = 0 /\ player.hand
          /\ engine' = [engine EXCEPT !.phase = "play", !.contract = "hand"]
          /\ UNCHANGED <<player, client>>
       \/ (player.plan \notin {0, engine.game} \/ (player.plan = 0 /\ ~player.hand)) /\ Refuse
    /\ UNCHANGED <<poolVars, left, host>>

playCard ==
    /\ MyTurn("play")
    /\ IF winningBid = 0 \/ (engine.me = engine.declarer /\ engine.contract = "open" /\ player.plan = 0)
       THEN Refuse ELSE Decide("PLAY_CARD", 1)
    /\ UNCHANGED <<poolVars, left, host>>

\* A decision comes back: what the player remembers of it, and says to the engine.
Return(yes) ==
    /\ engine' = Answered(yes)
    /\ player' = CASE engine.phase = "solo" /\ yes -> [player EXCEPT !.solo = 1]
                   [] engine.phase = "pick" -> [player EXCEPT !.hand = ~yes]
                   [] engine.phase = "discard" -> [player EXCEPT !.plan = engine.game]
                   [] OTHER -> player
    /\ client' = [client EXCEPT !.pc = "idle", !.req = NoRequest]

-----------------------------------------------------------------------------
(* The client and the host process.                                          *)

Throw == engine' = [engine EXCEPT !.phase = "over"]
GiveUp(n) == client' = [client EXCEPT !.pc = "idle", !.req = NoRequest, !.stale = @ + n]

\* exchange(): no process, no request.  A process just killed may still look alive.
Exchange ==
    /\ client.pc = "write"
    /\ IF host.alive
       THEN /\ host' = [host EXCEPT !.inbox = Append(@, client.req)]
            /\ client' = [client EXCEPT !.pc = "await"] /\ UNCHANGED engine
       ELSE GiveUp(0) /\ Throw /\ UNCHANGED host
    /\ UNCHANGED <<poolVars, left, player>>

\* One thread reads: a line goes to the oldest readLine, given up or not.
StaleRead ==
    /\ client.stale > 0 /\ (host.outbox # <<>> \/ ~host.alive)
    /\ client' = [client EXCEPT !.stale = @ - 1]
    /\ host' = [host EXCEPT !.outbox = IF @ = <<>> THEN @ ELSE Tail(@)]
    /\ UNCHANGED <<poolVars, left, engine, player>>

LineIsNext == client.pc = "await" /\ client.stale = 0 /\ host.outbox # <<>>

\* The answer to this very request, or the process is killed.
ReadLine ==
    /\ LineIsNext
    /\ LET line == Head(host.outbox) IN
       IF line.ok /\ line.game = client.req.game /\ line.seq = client.req.seq
       THEN /\ \E yes \in BOOLEAN : Return(yes)
            /\ host' = [host EXCEPT !.outbox = Tail(@)]
       ELSE /\ GiveUp(0) /\ Throw /\ UNCHANGED player
            /\ host' = [host EXCEPT !.outbox = Tail(@), !.killed = TRUE]
    /\ UNCHANGED <<poolVars, left>>

\* EOF, or no line in time.  A process that was killed is gone well before a second
\* timeout: the readLine given up is the one that runs, never one queued behind it,
\* whose cancelled task would not run at all.
failAndStop ==
    /\ client.pc = "await"
    /\ \/ ~host.alive /\ host.outbox = <<>> /\ client.stale = 0 /\ GiveUp(0)
       \/ host.alive /\ ~host.killed /\ GiveUp(1)
    /\ host' = [host EXCEPT !.killed = TRUE]
    /\ Throw
    /\ UNCHANGED <<poolVars, left, player>>

\* handle_request: the roles of a bid, as the host checks them.
Accepts(req) ==
    req.kind = "BID" =>
        /\ req.bidder # req.answerer \/ req.actor = 0
        /\ req.actor \in {req.bidder, req.answerer}

\* main(): one request at a time, a bid through max_bid, any other straight to run().
HostReads ==
    /\ host.alive /\ host.work = NoRequest /\ host.inbox # <<>> /\ call[Host].pc = "idle"
    /\ LET req == Head(host.inbox) IN
       IF Accepts(req)
       THEN /\ host' = [host EXCEPT !.inbox = Tail(@), !.work = req]
            /\ Call(Host, IF req.kind = "BID" THEN HandOf[req.game] ELSE "plain")
       ELSE /\ host' = [host EXCEPT !.inbox = Tail(@),
                          !.outbox = Append(@, [game |-> req.game, seq |-> req.seq, ok |-> FALSE])]
            /\ UNCHANGED <<poolVars, left>>
    /\ UNCHANGED <<engine, player, client>>

HostAnswers ==
    /\ host.alive /\ host.work # NoRequest /\ Take(Host)
    /\ host' = [host EXCEPT !.work = NoRequest,
                  !.outbox = Append(@, [game |-> host.work.game, seq |-> host.work.seq,
                                        ok |-> call[Host].pc = "value"])]
    /\ UNCHANGED <<engine, player, client>>

\* Killed by the client; its workers lose their pipes and end with it.
HostEnds ==
    /\ host.alive /\ host.killed
    /\ host' = [host EXCEPT !.alive = FALSE, !.inbox = <<>>, !.work = NoRequest]
    /\ proc' = Kill(Procs) /\ all' = {} /\ avail' = {} /\ replacing' = None /\ closed' = TRUE
    /\ call' = [call EXCEPT ![Host] = Idle]
    /\ inflight' = [k \in Keys |-> None]
    /\ UNCHANGED <<cache, lost, left, engine, player, client>>

-----------------------------------------------------------------------------

Player ==
    \/ bidMore \/ holdBid \/ pickUpSkat \/ getCardsToDiscard \/ announceGame \/ playCard

Pool(c) == (run(c) \/ max_bid(c)) /\ UNCHANGED table

\* The threads of the gate worker, over one hand.
GateThread(c) ==
    /\ left.who = "gate"
    /\ \E key \in {HandOf[1], "plain"} : Call(c, key)
    /\ UNCHANGED table

Delivered(c) == left.who = "gate" /\ Take(c) /\ UNCHANGED table

Next ==
    \/ OtherAnswers \/ OtherDeclares \/ prepareForNewGame \/ Player
    \/ Exchange \/ StaleRead \/ ReadLine \/ failAndStop
    \/ HostReads \/ HostAnswers \/ HostEnds
    \/ \E c \in Callers : Pool(c) \/ Delivered(c) \/ GateThread(c) \/ (StartFails(c) /\ UNCHANGED table)
    \/ \E p \in Procs : (Answer(p) \/ Trouble(p)) /\ UNCHANGED table
    \/ (CloseFlag \/ CloseAll) /\ UNCHANGED table

\* Threads run on, a worker answers, and the host's loop takes its results.
Fairness ==
    /\ \A c \in Callers : WF_vars(Pool(c)) /\ WF_vars(Delivered(c))
    /\ \A p \in Procs : WF_vars(Answer(p) /\ UNCHANGED table)
    /\ WF_vars(HostAnswers)

Spec == Init /\ [][Next]_vars /\ Fairness

-----------------------------------------------------------------------------
(* Properties.                                                               *)

\* The two who duel, as the player infers them from the bids it was told, are those
\* of the engine; and every later request tells the bids that were accepted, a
\* forehand's alone at 18 included, whichever game was played before.
RequestsTellTheAuction ==
    client.pc # "idle" =>
        IF client.req.kind = "BID"
        THEN /\ engine.phase = "solo" => client.req.bidder = 0 /\ client.req.answerer = 0
             /\ engine.phase # "solo" => client.req.bidder = Announcer(engine) /\ client.req.answerer = engine.hearer
        ELSE /\ client.req.bid >= 1 /\ client.req.bid = client.req.bids[engine.declarer]
             /\ \A s \in Seats : client.req.bids[s] =
                    IF s = 0 /\ engine.declarer = 0 /\ engine.cur = 0 THEN 1 ELSE engine.bids[s]

\* No callback of a legal game finds the player without what it needs: it never
\* throws but for the host.
LegalGamesGoOn == ~player.wrong

\* The line a request reads is the answer to it, over timeouts of earlier requests
\* and a process that was killed but still answers.
LineIsOwn ==
    LineIsNext => /\ Head(host.outbox).game = client.req.game
                  /\ Head(host.outbox).seq = client.req.seq

\* The player and the host talk about the same game: each request tells the auction
\* as it was, each answer is to the request that reads it, and a legal game is never
\* broken off by the player itself.
DialogueIsSound == RequestsTellTheAuction /\ LegalGamesGoOn /\ LineIsOwn
=============================================================================
