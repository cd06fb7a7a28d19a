---------------------------- MODULE SkatAuction ----------------------------
(* The auction, twice.  First as the game engines outside play it, JSkat and  *)
(* the ISS server, on a record of theirs; then as the repository replays it,  *)
(* BiddingState of src/skatai/game/bidding.py.  A bid is its place in the     *)
(* list of values, 0 for none.                                                *)
EXTENDS Naturals

CONSTANT Top        \* bound: the last bid value, 264 in the source

\* The first offer, 18, is there: the list of the source has 63 values.
ASSUME TopAssumption == Top \in Nat \ {0}

Seats == 0..2
NoOne == 3

-----------------------------------------------------------------------------
(* The engines: two duels, then forehand alone if nobody has bid.            *)

NewAuction ==
    [phase |-> "bid", stage |-> 1, hearer |-> 0, cur |-> 0,
     bids |-> [s \in Seats |-> 0], declarer |-> NoOne]

Announcer(e) == IF e.phase = "solo" THEN 0 ELSE e.stage
Next18(v) == IF v < Top THEN v + 1 ELSE Top

DuelWonBy(e, s) ==
    CASE e.stage = 1 -> [e EXCEPT !.phase = "bid", !.stage = 2, !.hearer = s]
      [] e.stage = 2 /\ (s # 0 \/ e.cur > 0) -> [e EXCEPT !.phase = "pick", !.declarer = s]
      [] e.stage = 2 /\ s = 0 /\ e.cur = 0 -> [e EXCEPT !.phase = "solo"]

\* The one who was asked, to bid, to hold or to play alone at 18, said yes or no.
Bidding(e, yes) ==
    CASE e.phase = "bid" /\ yes ->
            [e EXCEPT !.phase = "hold", !.cur = Next18(@), !.bids[Announcer(e)] = Next18(e.cur)]
      [] e.phase = "bid" /\ ~yes -> DuelWonBy(e, e.hearer)
      [] e.phase = "hold" /\ yes -> [e EXCEPT !.phase = "bid", !.bids[e.hearer] = e.cur]
      [] e.phase = "hold" /\ ~yes -> DuelWonBy(e, Announcer(e))
      [] e.phase = "solo" /\ yes -> [e EXCEPT !.phase = "pick", !.declarer = 0]
      [] e.phase = "solo" /\ ~yes -> [e EXCEPT !.phase = "over"]

-----------------------------------------------------------------------------
(* game/bidding.py.                                                          *)

BiddingState ==
    [bidder |-> 1, answerer |-> 0, offer |-> 1, bidder_turn |-> TRUE,
     finished |-> FALSE, winner |-> NoOne, winning_bid |-> 0]

expected_actor(b) == IF b.bidder_turn THEN b.bidder ELSE b.answerer

Won(b, s, bid) == [b EXCEPT !.finished = TRUE, !.winner = s, !.winning_bid = bid]

BidderPasses(b) ==
    CASE b.bidder = 2 /\ b.offer = 1 -> [b EXCEPT !.bidder = b.answerer]
      [] b.bidder = 2 /\ b.offer > 1 -> Won(b, b.answerer, b.offer - 1)
      [] b.bidder # 2 /\ b.bidder = b.answerer -> [b EXCEPT !.finished = TRUE]
      [] b.bidder # 2 /\ b.bidder # b.answerer -> [b EXCEPT !.bidder = 2]

BidderBids(b) ==
    IF b.bidder = b.answerer THEN Won(b, b.bidder, b.offer) ELSE [b EXCEPT !.bidder_turn = FALSE]

AnswererHolds(b) ==
    IF b.offer = Top THEN Won(b, b.answerer, b.offer)
    ELSE [b EXCEPT !.offer = @ + 1, !.bidder_turn = TRUE]

AnswererPasses(b) ==
    IF b.bidder = 2 \/ b.offer = Top THEN Won(b, b.bidder, b.offer)
    ELSE [b EXCEPT !.answerer = b.bidder, !.bidder = 2, !.offer = @ + 1, !.bidder_turn = TRUE]

\* A legal action of the actor it expects: the offer or "y", or a pass.
apply(b, yes) ==
    CASE b.bidder_turn /\ yes -> BidderBids(b)
      [] b.bidder_turn /\ ~yes -> BidderPasses(b)
      [] ~b.bidder_turn /\ yes -> AnswererHolds(b)
      [] ~b.bidder_turn /\ ~yes -> AnswererPasses(b)
=============================================================================
