------------------------------ MODULE IssView ------------------------------
(* What a player of the ISS makes of the moves the server lists, twice: the   *)
(* decision bridge (src/skatai/iss/bridge.py), which asks the program to act, *)
(* and the normalised view (src/skatai/iss/gameview.py).  Both replay the     *)
(* whole list each time.  The list grows as the server lets the three play;   *)
(* it is looked at from each of their seats.                                  *)
(*                                                                            *)
(* Cards are counted, not named: the winner of a trick comes with its third   *)
(* card.                                                                      *)
EXTENDS SkatAuction, Sequences, FiniteSets, FiniteSetsExt

CONSTANTS
    Tricks,     \* bound: tricks of a game, ten in the source
    Shows       \* bound: cards shown in a game

VARIABLES
    moves,      \* table.moves, after the deal
    server      \* the game itself

viewVars == <<moves, server>>

World == 3
Contracts == {"plain", "ouvert"}

Move(by, kind, val, n) == [by |-> by, kind |-> kind, val |-> val, n |-> n]
Adds(m) == moves' = Append(moves, m)

ViewInit ==
    /\ moves = <<>>
    /\ LET a == NewAuction IN
       server = [contract |-> "none", turn |-> 0, played |-> 0, resigned |-> {}, shown |-> 0,
                 cut |-> FALSE, phase |-> a.phase, stage |-> a.stage, hearer |-> a.hearer,
                 cur |-> a.cur, bids |-> a.bids, declarer |-> a.declarer]

-----------------------------------------------------------------------------
(* The server.  Players bid the next value, and stop short of the last one.  *)

InAuction == server.phase \in {"bid", "hold", "solo"}
ServerAsks ==
    CASE InAuction -> IF server.phase = "hold" THEN server.hearer ELSE Announcer(server)
      [] server.phase \in {"pick", "declare", "discard"} -> server.declarer
      [] server.phase = "play" -> server.turn
      [] OTHER -> NoOne

PlayerBids ==
    /\ InAuction
    /\ \E yes \in BOOLEAN :
          /\ yes => server.phase = "hold" \/ server.cur + 1 < Top
          /\ server' = Bidding(server, yes)
          /\ Adds(Move(ServerAsks,
                       IF ~yes THEN "pass" ELSE IF server.phase = "hold" THEN "answer_yes" ELSE "bid",
                       IF yes /\ server.phase # "hold" THEN server.cur + 1 ELSE 0, 0))

TakesSkat ==
    /\ server.phase = "pick"
    /\ server' = [server EXCEPT !.phase = "skat"]
    /\ Adds(Move(server.declarer, "skat_request", 0, 0))

DeliversSkat ==
    /\ server.phase = "skat"
    /\ server' = [server EXCEPT !.phase = "declare"]
    /\ Adds(Move(World, "skat_delivery", 0, 2))

Open(c, n) == IF c = "ouvert" THEN n + 10 ELSE n

\* From the hand, with its cards when it is open.
DeclaresHand ==
    /\ server.phase = "pick"
    /\ \E c \in Contracts :
          /\ server' = [server EXCEPT !.phase = "play", !.contract = c]
          /\ Adds(Move(server.declarer, "declaration", c, Open(c, 0)))

\* Contract and discard in one move, or in two.
Declares ==
    /\ server.phase = "declare"
    /\ \E c \in Contracts, both \in BOOLEAN :
          /\ server' = [server EXCEPT !.phase = IF both THEN "play" ELSE "discard", !.contract = c]
          /\ Adds(Move(server.declarer, "declaration", c, IF both THEN Open(c, 2) ELSE 0))

Discards ==
    /\ server.phase = "discard"
    /\ server' = [server EXCEPT !.phase = "play"]
    /\ Adds(Move(server.declarer, "discard_only", 0, Open(server.contract, 2)))

PlaysCard ==
    /\ server.phase = "play"
    /\ \E winner \in IF server.played % 3 = 2 THEN Seats ELSE {(server.turn + 1) % 3} :
          /\ server' = [server EXCEPT !.turn = winner, !.played = @ + 1,
                          !.phase = IF server.played + 1 = 3 * Tricks THEN "over" ELSE @]
          /\ Adds(Move(server.turn, "cardplay", winner, 1))

\* A resignation, which ends the game when the declarer or both others have resigned.
Resigns ==
    /\ server.phase = "play"
    /\ \E s \in Seats \ server.resigned :
          LET all == server.resigned \cup {s} IN
          /\ server' = [server EXCEPT !.resigned = all,
                          !.phase = IF s = server.declarer \/ Cardinality(all \ {server.declarer}) = 2
                                    THEN "over" ELSE @]
          /\ Adds(Move(s, "resign", 0, 0))

ShowsCards ==
    /\ server.phase = "play" /\ server.shown < Shows
    /\ server' = [server EXCEPT !.shown = @ + 1]
    /\ Adds(Move(server.turn, "show_cards", 0, 1))

\* Somebody runs out of time or leaves, in any phase.
EndsEarly ==
    /\ server.phase # "over"
    /\ server' = [server EXCEPT !.phase = "over", !.cut = InAuction]
    /\ \E kind \in {"timeout", "leave"} : Adds(Move(World, kind, 0, 0))

ViewNext ==
    \/ PlayerBids \/ TakesSkat \/ DeliversSkat \/ DeclaresHand \/ Declares \/ Discards
    \/ PlaysCard \/ Resigns \/ ShowsCards \/ EndsEarly

ViewSpec == ViewInit /\ [][ViewNext]_viewVars

-----------------------------------------------------------------------------
(* bridge.py                                                                 *)

\* The moves of a kind, whether there is one, and the last of them.
Ours(kind) == {i \in DOMAIN moves : moves[i].kind = kind}
Has(kind) == Ours(kind) # {}
Latest(kind) == moves[Max(Ours(kind))]
AuctionKinds == {"bid", "answer_yes", "pass"}

\* Whether apply() takes the move: its actor, and one of the two legal actions.
Legal(b, m) ==
    /\ ~b.finished /\ m.by = expected_actor(b)
    /\ CASE m.kind = "bid" -> b.bidder_turn /\ m.val = b.offer
         [] m.kind = "answer_yes" -> ~b.bidder_turn
         [] m.kind = "pass" -> TRUE

AuctionMove(ctx, m) ==
    CASE ctx.frozen \/ ctx.raised -> ctx
      [] ~ctx.frozen /\ ~ctx.raised /\ m.kind \notin AuctionKinds -> [ctx EXCEPT !.frozen = TRUE]
      [] ~ctx.frozen /\ ~ctx.raised /\ m.kind \in AuctionKinds ->
            IF ~Legal(ctx.state, m) THEN [ctx EXCEPT !.raised = TRUE]
            ELSE [ctx EXCEPT !.state = apply(@, m.kind # "pass"),
                             !.max_bids[m.by] = IF m.kind = "pass" THEN @ ELSE ctx.state.offer]

\* replay_tricks: how many cards are played, who has the next one, and whether all were
\* played in turn; of any other move it is not told.
TrickMove(t, m) ==
    IF m.kind # "cardplay" THEN t
    ELSE [n |-> t.n + 1, actor |-> IF t.n % 3 = 2 THEN m.val ELSE (t.actor + 1) % 3,
          wrong |-> t.wrong \/ m.by # t.actor]
NoTrick == [n |-> 0, actor |-> 0, wrong |-> FALSE]

resigned_players == {moves[i].by : i \in Ours("resign")}

\* _post_auction_context.terminal
terminal ==
    \/ Has("timeout") \/ Has("leave")
    \/ /\ Has("declaration")
       /\ LET declarer == Latest("declaration").by IN
          \/ declarer \in resigned_players
          \/ Cardinality(resigned_players \ {declarer}) >= 2

picked_up_skat == Has("skat_request")

\* Mutant of _declaration_complete: a contract is a declaration, with or without discard.
ContractIsEnough == Has("declaration")

_declaration_complete ==
    /\ Has("declaration")
    /\ picked_up_skat => Latest("declaration").n >= 2 \/ Has("discard_only")

\* _open_hand_from_wire: whether the ten cards of an open hand are in the list.
open_hand_from_wire ==
    LET n == Latest("declaration").n IN
    \/ ~picked_up_skat /\ n = 10
    \/ picked_up_skat /\ n = 12
    \/ Has("discard_only") /\ Latest("discard_only").n = 12

\* _cardplay_observation_from_context: None, an exception, or a card to play.
cardplay(t, declarer, s) ==
    LET own == Cardinality({i \in Ours("cardplay") : moves[i].by = s}) IN
    CASE t.wrong -> "raises"
      [] ~t.wrong /\ (t.actor # s \/ own = Tricks) -> "None"
      [] ~t.wrong /\ t.actor = s /\ own < Tricks ->
            IF Latest("declaration").val = "ouvert" /\ s # declarer /\ ~open_hand_from_wire
            THEN "raises" ELSE "CARDPLAY"

\* next_skat_action of the declarer.
SkatAction ==
    CASE ~picked_up_skat /\ ~Has("declaration") -> "SKAT_OR_HAND_DECL"
      [] picked_up_skat /\ ~Has("declaration") ->
            IF Has("skat_delivery") THEN "DISCARD_AND_DECL" ELSE "None"
      [] OTHER -> "DISCARD_AND_DECL"

\* ISSSkatAIDecisionProvider.next_decision for the player of seat s.
next_decision(ctx, t, s) ==
    LET b == ctx.state IN
    CASE ctx.raised -> "raises"
      [] ~ctx.raised /\ ~b.finished ->
            IF expected_actor(b) = s THEN IF b.bidder_turn THEN "BID" ELSE "ANSWER" ELSE "None"
      [] ~ctx.raised /\ b.finished /\ (b.winner = NoOne \/ terminal) -> "None"
      [] ~ctx.raised /\ b.finished /\ b.winner # NoOne /\ ~terminal ->
            IF _declaration_complete THEN cardplay(t, b.winner, s)
            ELSE IF s = b.winner THEN SkatAction ELSE "None"

-----------------------------------------------------------------------------
(* gameview.py, replay_player_view.                                          *)

ToDeclare(v, s) ==
    [v EXCEPT !.phase = "SKAT_OR_HAND_DECL", !.declarer = s, !.to_move = s]
Asks(v, bidder, asked) ==
    [v EXCEPT !.phase = "BID", !.bidder = bidder, !.asked = asked, !.to_move = bidder]
Raise(v) == [v EXCEPT !.raised = TRUE]

\* The view has bids by value.  One who passes without a bid is marked by a bid of 1,
\* which is less than any.
Value(bid) == IF bid = 0 THEN 0 ELSE bid + 1
Mark == 1
Passed(v, s) == IF v.max_bids[s] = 0 THEN [v EXCEPT !.max_bids[s] = Mark] ELSE v

BidMove(v, m) ==
    CASE m.kind = "pass" ->
            LET p == Passed(v, m.by) IN
           (CASE v.bidder = 0 -> [p EXCEPT !.phase = "FINISHED", !.to_move = NoOne]
              [] v.bidder = 1 -> Asks(p, 2, 0)
              [] v.bidder = 2 -> IF v.max_bid = 0 THEN Asks(p, 0, NoOne) ELSE ToDeclare(p, v.asked))
      [] m.kind = "bid" /\ Value(m.val) > v.max_bid ->
            LET q == [v EXCEPT !.max_bids[m.by] = Value(m.val), !.max_bid = Value(m.val)] IN
            IF m.by = 0 THEN ToDeclare(q, 0) ELSE [q EXCEPT !.phase = "ANSWER", !.to_move = v.asked]
      [] OTHER -> Raise(v)

AnswerMove(v, m) ==
    CASE m.kind = "answer_yes" ->
            [v EXCEPT !.max_bids[m.by] = v.max_bid, !.phase = "BID", !.to_move = v.bidder]
      [] m.kind = "pass" -> IF v.bidder = 1 THEN Asks(Passed(v, m.by), 2, 1)
                            ELSE ToDeclare(Passed(v, m.by), v.bidder)
      [] OTHER -> Raise(v)

Plays(v) == [v EXCEPT !.phase = "CARDPLAY", !.to_move = 0, !.half = FALSE]

DeclareMove(v, m) ==
    CASE m.kind = "skat_request" -> [v EXCEPT !.phase = "GET_SKAT", !.to_move = NoOne]
      [] m.kind = "declaration" /\ m.n \in {0, 10} -> Plays([v EXCEPT !.contract = m.val])
      [] OTHER -> Raise(v)

DiscardMove(v, m) ==
    CASE m.kind = "declaration" /\ m.n = 0 -> [v EXCEPT !.contract = m.val, !.half = TRUE]
      [] m.kind = "declaration" /\ m.n \in {2, 12} -> Plays([v EXCEPT !.contract = m.val])
      [] m.kind = "discard_only" /\ v.half /\ (m.n = 2 \/ (m.n = 12 /\ v.contract = "ouvert")) ->
            Plays(v)
      [] OTHER -> Raise(v)

CardMove(v, m) ==
    CASE m.kind = "show_cards" -> v
      [] m.kind = "resign" ->
            LET all == v.resigned \cup {m.by}
                ends == m.by = v.declarer \/ Cardinality(all \ {v.declarer}) >= 2 IN
            [v EXCEPT !.resigned = all, !.phase = IF ends THEN "FINISHED" ELSE @,
                      !.to_move = IF ends THEN NoOne ELSE @]
      [] m.kind = "cardplay" /\ m.by = v.to_move ->
            LET t == TrickMove(v.trick, m)
                ends == t.n = 3 * Tricks IN
            [v EXCEPT !.trick = t, !.phase = IF ends THEN "FINISHED" ELSE @,
                      !.to_move = IF ends THEN NoOne ELSE t.actor]
      [] OTHER -> Raise(v)

ViewMove(v, m) ==
    CASE v.raised \/ v.phase = "FINISHED" -> v
      [] ~v.raised /\ v.phase \in {"BID", "ANSWER"} ->
            IF m.by # v.to_move THEN Raise(v)
            ELSE IF v.phase = "BID" THEN BidMove(v, m) ELSE AnswerMove(v, m)
      [] ~v.raised /\ v.phase \notin {"BID", "ANSWER", "FINISHED"} ->
            CASE m.kind \in {"timeout", "leave"} -> [v EXCEPT !.phase = "FINISHED", !.to_move = NoOne]
              [] m.kind \notin {"timeout", "leave"} /\ v.phase = "GET_SKAT" ->
                    IF m.kind = "skat_delivery"
                    THEN [v EXCEPT !.phase = "DISCARD_AND_DECL", !.to_move = v.declarer] ELSE Raise(v)
              [] m.kind \notin {"timeout", "leave"} /\ v.phase = "CARDPLAY" -> CardMove(v, m)
              [] OTHER -> IF m.by # v.to_move THEN Raise(v)
                          ELSE IF v.phase = "SKAT_OR_HAND_DECL" THEN DeclareMove(v, m)
                          ELSE DiscardMove(v, m)

-----------------------------------------------------------------------------
(* The replays: each goes through the list from its first move on.            *)

Start(who) ==
    CASE who = "auction" ->
            [state |-> BiddingState, max_bids |-> [s \in Seats |-> 0], frozen |-> FALSE, raised |-> FALSE]
      [] who = "tricks" -> NoTrick
      [] who = "view" ->
            [phase |-> "BID", to_move |-> 1, bidder |-> 1, asked |-> 0, max_bid |-> 0,
             max_bids |-> [s \in Seats |-> 0], declarer |-> NoOne, contract |-> "none",
             half |-> FALSE, trick |-> NoTrick, resigned |-> {}, raised |-> FALSE]

Step(who, x, m) ==
    CASE who = "auction" -> AuctionMove(x, m)
      [] who = "tricks" -> TrickMove(x, m)
      [] who = "view" -> ViewMove(x, m)

Replay(who, list) ==
    LET after[i \in 0..Len(list)] ==
            IF i = 0 THEN Start(who) ELSE Step(who, after[i - 1], list[i])
    IN  after[Len(list)]

_auction_context == Replay("auction", moves)
replay_tricks == Replay("tricks", moves)
replay_player_view == Replay("view", moves)

-----------------------------------------------------------------------------
(* Property.                                                                 *)

\* Who is out of the auction the bridge replays, and the accepted bids the view has by
\* it: the bridge's, but for the mark of those who never bid.
Out(b) == {s \in Seats : IF b.finished THEN s # b.winner
                         ELSE b.bidder # 1 /\ s \notin {b.bidder, b.answerer}}
Accepted(ctx) ==
    [s \in Seats |-> IF ctx.max_bids[s] = 0 /\ s \in Out(ctx.state) THEN Mark
                     ELSE Value(ctx.max_bids[s])]

\* Of three programs at a table, exactly the one the server waits for is asked to act,
\* and offers the bid that is next: none acts out of turn, and the game never stands
\* still because nobody believes to be on turn.  The normalised view agrees, on turn,
\* phase, declarer and accepted bids, and marks those whom the bridge has out of the
\* auction without a bid.  Not so if the auction was cut short: the bridge
\* goes on to bid, and the view raises.
TurnsAreAgreed ==
    LET ctx == _auction_context
        v == replay_player_view
        asked == [s \in Seats |-> next_decision(ctx, replay_tricks, s)] IN
    ~server.cut =>
        /\ \A s \in Seats : (asked[s] # "None") <=> (ServerAsks = s)
        /\ InAuction => ctx.state.offer = IF server.phase = "hold" THEN server.cur ELSE server.cur + 1
        /\ ~v.raised
        /\ \A s \in Seats : asked[s] = IF v.to_move = s THEN v.phase ELSE "None"
        /\ v.max_bids = Accepted(ctx)
        /\ v.declarer # NoOne =>
              /\ v.declarer = ctx.state.winner /\ v.max_bid = Value(ctx.state.winning_bid)
              /\ v.max_bid = v.max_bids[v.declarer]
=============================================================================
