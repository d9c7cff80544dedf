------------------------------- MODULE OrderBook -------------------------------
(***************************************************************************)
(* L2OrderBook: a window of price levels around a base price, with the     *)
(* index of the best level of each side kept beside it, so that bbo() need *)
(* not search.  The trigger orders are evaluated against bbo().            *)
(*                                                                         *)
(* Prices are in ticks.  The window moves when a price is further from its *)
(* base than a quarter of it, and what was in it is dropped.               *)
(***************************************************************************)
EXTENDS Integers

CONSTANTS
  LevelCount,    \* levels of the window
  Prices,        \* the prices updates may carry, in ticks
  Quantities     \* the quantities updates may carry

ASSUME OrderBookAssumption ==
  /\ LevelCount \in Nat \ {0}
  /\ Prices \subseteq Int /\ Quantities \subseteq Int

VARIABLE book

Levels == 0 .. (LevelCount - 1)
NoLevel == -1

\* recenter(): an empty window around a price.
Centred(price) ==
  [ base |-> price, initialized |-> TRUE,
    bids |-> [ i \in Levels |-> 0 ], asks |-> [ i \in Levels |-> 0 ],
    bestBid |-> NoLevel, bestAsk |-> NoLevel,
    lastBid |-> NoLevel, lastAsk |-> NoLevel ]

\* reset() without a reference price.
Cleared == [ Centred(0) EXCEPT !.initialized = FALSE ]

\* Mutant: the window moves, the best levels stay.
EnsureMappable_KeepsBest(b, price) ==
  LET distance == IF price >= b.base THEN price - b.base ELSE b.base - price
  IN IF b.initialized /\ distance <= LevelCount \div 4 THEN b
     ELSE [ Centred(price) EXCEPT !.bestBid = b.bestBid, !.bestAsk = b.bestAsk ]

\* ensureMappable()
EnsureMappable(b, price) ==
  LET distance == IF price >= b.base THEN price - b.base ELSE b.base - price
  IN IF b.initialized /\ distance <= LevelCount \div 4 THEN b ELSE Centred(price)

\* toIndex(): a price outside the window is at its edge.
ToIndex(b, price) ==
  LET index == LevelCount \div 2 + price - b.base
  IN IF index < 0 THEN 0 ELSE IF index >= LevelCount THEN LevelCount - 1 ELSE index

\* refreshBestBidFrom(): the next level below that has a quantity.
BestBidFrom(levels, start) ==
  LET below == { i \in Levels : i < start /\ levels[i] > 0 }
  IN IF below = {} THEN NoLevel
     ELSE CHOOSE i \in below : \A j \in below : j <= i

\* refreshBestAskFrom(): the level itself and those above.
BestAskFrom(levels, start) ==
  LET above == { i \in Levels : start # NoLevel /\ i >= start /\ levels[i] > 0 }
  IN IF above = {} THEN NoLevel
     ELSE CHOOSE i \in above : \A j \in above : i <= j

--------------------------------------------------------------------------------

BookInit == book = Cleared

\* reset()
ResetBook(price) == book' = IF price > 0 THEN Centred(price) ELSE Cleared

\* applyBidLevel()
ApplyBidLevel(price, quantity) ==
  LET b      == EnsureMappable(book, price)
      index  == ToIndex(b, price)
      levels == [ b.bids EXCEPT ![index] = quantity ]
  IN /\ price > 0 /\ quantity >= 0
     /\ book' = [ b EXCEPT !.bids = levels,
                    !.bestBid = IF quantity > 0
                                THEN IF @ < index THEN index ELSE @
                                ELSE IF @ = index THEN BestBidFrom(levels, index)
                                ELSE @ ]

\* applyAskLevel()
ApplyAskLevel(price, quantity) ==
  LET b      == EnsureMappable(book, price)
      index  == ToIndex(b, price)
      levels == [ b.asks EXCEPT ![index] = quantity ]
  IN /\ price > 0 /\ quantity >= 0
     /\ book' = [ b EXCEPT !.asks = levels,
                    !.bestAsk = IF quantity > 0
                                THEN IF @ = NoLevel \/ @ > index THEN index ELSE @
                                ELSE IF @ = index THEN BestAskFrom(levels, index)
                                ELSE @ ]

\* applyBbo(), one side: the level the last update set is cleared and the
\* new one is set.
Replaced(levels, old, new, quantity) ==
  [ i \in Levels |-> IF i = new /\ quantity > 0 THEN quantity
                     ELSE IF i = old THEN 0 ELSE levels[i] ]

\* applyBbo(): the window is made to fit the bid, and then the ask.
ApplyBbo(bid, bidQuantity, ask, askQuantity) ==
  LET b       == EnsureMappable(EnsureMappable(book, bid), ask)
      newBid  == ToIndex(b, bid)
      newAsk  == ToIndex(b, ask)
      newBids == Replaced(b.bids, b.lastBid, newBid, bidQuantity)
      newAsks == Replaced(b.asks, b.lastAsk, newAsk, askQuantity)
  IN /\ bid > 0 /\ ask >= bid
     /\ book' = [ b EXCEPT
          !.bids = newBids, !.asks = newAsks,
          !.bestBid = IF bidQuantity > 0
                      THEN IF @ \in { NoLevel, b.lastBid } \/ newBid > @ THEN newBid ELSE @
                      ELSE IF @ = b.lastBid THEN BestBidFrom(newBids, @) ELSE @,
          !.bestAsk = IF askQuantity > 0
                      THEN IF @ \in { NoLevel, b.lastAsk } \/ newAsk < @ THEN newAsk ELSE @
                      ELSE IF @ = b.lastAsk THEN BestAskFrom(newAsks, @) ELSE @,
          !.lastBid = IF bidQuantity > 0 THEN newBid ELSE NoLevel,
          !.lastAsk = IF askQuantity > 0 THEN newAsk ELSE NoLevel ]

BookNext ==
  \/ \E price \in Prices : ResetBook(price)
  \/ \E price \in Prices, quantity \in Quantities :
       ApplyBidLevel(price, quantity) \/ ApplyAskLevel(price, quantity)
  \/ \E bid, ask \in Prices, bidQuantity, askQuantity \in Quantities :
       ApplyBbo(bid, bidQuantity, ask, askQuantity)

BookSpec == BookInit /\ [][BookNext]_book

--------------------------------------------------------------------------------

Sizes == { q \in Quantities : q > 0 } \cup { 0 }
Index == Levels \cup { NoLevel }

BookTypeOK ==
  book \in [ base : Prices \cup { 0 }, initialized : BOOLEAN,
             bids : [ Levels -> Sizes ], asks : [ Levels -> Sizes ],
             bestBid : Index, bestAsk : Index, lastBid : Index, lastAsk : Index ]

(***************************************************************************)
(* Whatever mixture of updates, a quote that bbo() calls valid has a       *)
(* quantity on both sides: the best levels it points at are never levels   *)
(* that were emptied, or dropped with the window.                          *)
(***************************************************************************)
QuoteHasSize ==
  /\ book.bestBid # NoLevel => book.bids[book.bestBid] > 0
  /\ book.bestAsk # NoLevel => book.asks[book.bestAsk] > 0

(***************************************************************************)
(* What applyBbo() relies on when it does not search: if the best bid was  *)
(* the last quote's, the new quote's is the best bid now ("keeps that      *)
(* side's best at the new index without a scan").                          *)
(***************************************************************************)
BestBidIsHighest ==
  \A i \in Levels : book.bids[i] > 0 => i <= book.bestBid
================================================================================
