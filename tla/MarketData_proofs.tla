-------------------------- MODULE MarketData_proofs --------------------------
(***************************************************************************)
(* The market data on its way to a strategy, for every value of the        *)
(* constants: the ring between two threads and the order book behind it,   *)
(* the nodes the live feed is given, the messages of its web socket, the   *)
(* frames of cTrader, and the candles and quotes of the demo runtime.      *)
(***************************************************************************)
EXTENDS RingBuffer, OrderBook, WebSocketClient, LiveFeed, FrameDecoder,
        DemoSignalRun, FiniteSetTheorems, SequenceTheorems, WellFoundedInduction, TLAPS

(***************************************************************************)
(* LockFreeRingBuffer implements a bounded queue, for every capacity and   *)
(* every set of values.                                                    *)
(***************************************************************************)

(***************************************************************************)
(* What each side may rely on while the other runs: the slot the producer  *)
(* is about to fill is not in use, the slot the consumer is reading is,    *)
(* and what was written or read is still there.                            *)
(***************************************************************************)
ProducerOwnsItsSlot ==
  /\ producer.at \in { "write", "publish" } => Increment(head) # tail
  /\ producer.at = "publish" => data[head] = producer.value

ConsumerOwnsItsSlot ==
  /\ consumer.at \in { "read", "release" } => tail # head
  /\ consumer.at = "release" => consumer.value = data[tail]

RingInv == RingTypeOK /\ ProducerOwnsItsSlot /\ ConsumerOwnsItsSlot

\* increment() counts up and starts over at the end of the array.
LEMMA IncrementWraps ==
  ASSUME NEW i \in Indices
  PROVE  /\ Increment(i) = IF i + 1 = RingCapacity THEN 0 ELSE i + 1
         /\ Increment(i) \in Indices
<1>a. CASE i + 1 = RingCapacity
  BY <1>a, RingAssumption DEF Increment, Indices
<1>b. CASE i + 1 # RingCapacity
  BY <1>b, RingAssumption DEF Increment, Indices
<1> QED  BY <1>a, <1>b

\* No more values in flight than the ring has slots to spare.
LEMMA SizeIsBounded ==
  ASSUME RingTypeOK
  PROVE  RingSize \in 0 .. (RingCapacity - 1)
BY RingAssumption DEF RingTypeOK, RingSize, Indices

\* The slots in use, and the one after them.
LEMMA SlotsOfTheQueue ==
  ASSUME RingTypeOK
  PROVE  /\ \A i \in 1 .. RingSize : Slot(i) \in Indices /\ Slot(i) # head
         /\ RingSize # 0 => Slot(1) = tail
         /\ Slot(RingSize + 1) = head
BY RingAssumption DEF RingTypeOK, RingSize, Indices, Slot

\* What is queued is a sequence of the values pushed.
LEMMA QueuedIsSequence ==
  RingTypeOK => Queued \in Seq(RingValues) /\ Len(Queued) = RingSize
<1> SUFFICES ASSUME RingTypeOK
             PROVE  Queued \in Seq(RingValues) /\ Len(Queued) = RingSize
  OBVIOUS
<1>a. \A i \in 1 .. RingSize : data[Slot(i)] \in RingValues
  BY SlotsOfTheQueue DEF RingTypeOK
<1> QED  BY <1>a, SizeIsBounded DEF Queued

(***************************************************************************)
(* The inductive invariant.                                                *)
(***************************************************************************)
LEMMA RingInvInit ==
  ASSUME RingInit PROVE RingInv
<1>a. DefaultValue \in RingValues
  BY RingAssumption DEF DefaultValue
<1> QED  BY <1>a, RingAssumption
         DEF RingInit, RingInv, RingTypeOK, Indices, ProducerOwnsItsSlot,
             ConsumerOwnsItsSlot

\* Every step of the producer and of the consumer keeps the invariant.
LEMMA RingInvNext ==
  ASSUME RingInv, [RingNext]_ringVars PROVE RingInv'
<1> USE DEF RingInv, RingTypeOK, ProducerOwnsItsSlot, ConsumerOwnsItsSlot
<1>known. head \in Indices /\ tail \in Indices
  OBVIOUS
<1>a. /\ Increment(head) \in Indices /\ Increment(head) # head
      /\ Increment(tail) \in Indices /\ Increment(tail) # tail
  <2>a. \A i \in Indices : Increment(i) \in Indices /\ Increment(i) # i
    <3> SUFFICES ASSUME NEW i \in Indices
                 PROVE  Increment(i) \in Indices /\ Increment(i) # i
      OBVIOUS
    <3>a. Increment(i) = IF i + 1 = RingCapacity THEN 0 ELSE i + 1
      BY IncrementWraps
    <3> QED  BY <3>a, IncrementWraps, RingAssumption DEF Indices
  <2> QED  BY <1>known, <2>a
<1>b. ASSUME NEW v \in RingValues, CallPush(v) PROVE RingInv'
  BY <1>b DEF CallPush
<1>c. CASE FindFull
  BY <1>c DEF FindFull
<1>d. CASE FindRoom
  BY <1>d DEF FindRoom
<1>e. CASE WriteSlot
  BY <1>e DEF WriteSlot
<1>f. CASE Publish
  BY <1>f, <1>a DEF Publish
<1>g. CASE FindEmpty
  BY <1>g DEF FindEmpty
<1>h. CASE FindValue
  BY <1>h DEF FindValue
<1>i. CASE ReadSlot
  BY <1>i DEF ReadSlot
<1>j. CASE Release
  <2>a. consumer.at = "release" /\ head # tail
    BY <1>j DEF Release
  <2>b. Increment(head) # Increment(tail)
    <3>a. /\ Increment(head) = IF head + 1 = RingCapacity THEN 0 ELSE head + 1
          /\ Increment(tail) = IF tail + 1 = RingCapacity THEN 0 ELSE tail + 1
      BY <1>known, IncrementWraps
    <3> QED  BY <1>known, <2>a, <3>a, RingAssumption DEF Indices
  <2>c. Increment(head)' # tail'
    BY <1>j, <2>b DEF Release, Increment
  <2>d. RingTypeOK'
    BY <1>j, <1>a DEF Release
  <2>e. ProducerOwnsItsSlot'
    BY <1>j, <2>c DEF Release
  <2>f. ConsumerOwnsItsSlot'
    BY <1>j DEF Release
  <2> QED  BY <2>d, <2>e, <2>f
<1>k. CASE UNCHANGED ringVars
  BY <1>k DEF ringVars, Increment
<1> QED  BY <1>b, <1>c, <1>d, <1>e, <1>f, <1>g, <1>h, <1>i, <1>j, <1>k
         DEF RingNext

\* RingSpec keeps RingInv, and RingTypeOK with it.
THEOREM RingSafe == RingSpec => []RingInv
BY RingInvInit, RingInvNext, PTL DEF RingSpec

(***************************************************************************)
(* The steps of the ring are steps of the queue.                           *)
(***************************************************************************)

\* An empty ring is an empty queue.
LEMMA InitIsFifoInit ==
  ASSUME RingInit PROVE Fifo!FifoInit
<1>a. RingTypeOK
  BY RingInvInit DEF RingInv
<1>b. RingSize = 0
  BY DEF RingInit, RingSize
<1>c. Queued = <<>>
  BY <1>a, <1>b, QueuedIsSequence
<1> QED  BY <1>a, <1>c DEF Fifo!FifoInit, RingInit, RingTypeOK

\* A step that moves neither index and leaves the slots in use alone does
\* not show in the queue.
LEMMA SameQueue ==
  ASSUME RingTypeOK, RingTypeOK', UNCHANGED <<head, tail>>,
         \A i \in 1 .. RingSize : data'[Slot(i)] = data[Slot(i)]
  PROVE  Queued' = Queued
BY DEF Queued, RingSize, Slot

\* Publishing the head is where a value joins the queue.
LEMMA PublishEnqueues ==
  ASSUME RingInv, RingInv', Publish
  PROVE  Fifo!Enqueue(producer.value)
<1>a. /\ head' = Increment(head) /\ Increment(head) # tail /\ UNCHANGED <<data, tail>>
      /\ data[head] = producer.value
      /\ head \in Indices /\ tail \in Indices
  BY DEF Publish, RingInv, RingTypeOK, ProducerOwnsItsSlot
<1>b. Increment(head) = IF head + 1 = RingCapacity THEN 0 ELSE head + 1
  BY <1>a, IncrementWraps
<1>c. RingSize' = RingSize + 1 /\ RingSize + 1 \in 1 .. (RingCapacity - 1)
  BY <1>a, <1>b, RingAssumption DEF RingSize, Indices
<1>d. /\ Queued \in Seq(RingValues) /\ Len(Queued) = RingSize
      /\ Queued' \in Seq(RingValues) /\ Len(Queued') = RingSize + 1
  <2>a. (RingTypeOK => Queued \in Seq(RingValues) /\ Len(Queued) = RingSize)'
    BY QueuedIsSequence, PTL
  <2> QED  BY <1>c, <2>a, QueuedIsSequence DEF RingInv
<1>e. \A i \in 1 .. RingSize : Queued'[i] = Queued[i]
  <2> SUFFICES ASSUME NEW i \in 1 .. RingSize PROVE Queued'[i] = Queued[i]
    OBVIOUS
  <2>a. i \in 1 .. RingSize'
    BY <1>c, SizeIsBounded DEF RingInv
  <2>b. Slot(i)' = Slot(i)
    BY <1>a DEF Slot
  <2> QED  BY <1>a, <2>a, <2>b DEF Queued
<1>f. Queued'[RingSize + 1] = producer.value
  <2>a. Slot(RingSize + 1) = head
    BY SlotsOfTheQueue DEF RingInv
  <2> QED  BY <1>a, <1>c, <2>a DEF Queued, Slot
<1>g. Queued' = Append(Queued, producer.value)
  BY <1>c, <1>d, <1>e, <1>f, SizeIsBounded DEF RingInv, RingTypeOK
<1> QED  BY <1>c, <1>d, <1>g, SizeIsBounded, RingAssumption
         DEF Fifo!Enqueue, Publish, RingInv

\* A push that is refused leaves the queue as it is.
LEMMA FullIsRefused ==
  ASSUME RingInv, RingInv', FindFull
  PROVE  Fifo!Refuse
<1>a. /\ Increment(head) = tail /\ UNCHANGED <<data, head, tail, returned>>
      /\ head \in Indices /\ tail \in Indices
  BY DEF FindFull, RingInv, RingTypeOK
<1>b. Increment(head) = IF head + 1 = RingCapacity THEN 0 ELSE head + 1
  BY <1>a, IncrementWraps
<1>c. RingSize = RingCapacity - 1
  BY <1>a, <1>b, RingAssumption DEF RingSize, Indices
<1>d. Len(Queued) = RingCapacity - 1
  BY <1>c, QueuedIsSequence DEF RingInv
<1>e. Queued' = Queued
  BY <1>a, SameQueue DEF RingInv
<1> QED  BY <1>a, <1>d, <1>e DEF Fifo!Refuse, FindFull

\* So does a pop that finds nothing.
LEMMA EmptyIsMissed ==
  ASSUME RingInv, RingInv', FindEmpty
  PROVE  Fifo!Miss
<1>a. tail = head /\ UNCHANGED <<data, head, tail, returned>>
  BY DEF FindEmpty
<1>b. RingSize = 0
  BY <1>a DEF RingSize, RingInv, RingTypeOK, Indices
<1>c. Queued = <<>>
  BY <1>b, QueuedIsSequence DEF RingInv
<1>d. Queued' = Queued
  BY <1>a, SameQueue DEF RingInv
<1> QED  BY <1>a, <1>c, <1>d DEF Fifo!Miss, FindEmpty

\* Releasing the tail is where the oldest value leaves the queue.
LEMMA ReleaseDequeues ==
  ASSUME RingInv, RingInv', Release
  PROVE  Fifo!Dequeue
<1>a. /\ tail' = Increment(tail) /\ tail # head /\ UNCHANGED <<data, head>>
      /\ returned' = data[tail]
      /\ head \in Indices /\ tail \in Indices
  BY DEF Release, RingInv, RingTypeOK, ConsumerOwnsItsSlot
<1>b. Increment(tail) = IF tail + 1 = RingCapacity THEN 0 ELSE tail + 1
  BY <1>a, IncrementWraps
<1>c. RingSize' = RingSize - 1 /\ RingSize \in 1 .. (RingCapacity - 1)
  BY <1>a, <1>b, RingAssumption DEF RingSize, Indices
<1>d. /\ Queued \in Seq(RingValues) /\ Len(Queued) = RingSize
      /\ Queued' \in Seq(RingValues) /\ Len(Queued') = RingSize - 1
  <2>a. (RingTypeOK => Queued \in Seq(RingValues) /\ Len(Queued) = RingSize)'
    BY QueuedIsSequence, PTL
  <2> QED  BY <1>c, <2>a, QueuedIsSequence DEF RingInv
<1>e. \A i \in 1 .. (RingSize - 1) : Queued'[i] = Queued[i + 1]
  BY <1>a, <1>b, <1>c, RingAssumption DEF Queued, Slot, Indices
<1>f. Queued[1] = data[tail]
  BY <1>c, SlotsOfTheQueue DEF Queued, RingInv
<1>g. Queued' = Tail(Queued) /\ Head(Queued) = data[tail] /\ Queued # <<>>
  BY <1>c, <1>d, <1>e, <1>f
<1> QED  BY <1>a, <1>g DEF Fifo!Dequeue, Release

\* Every step of the ring is a step of the queue, or none.
LEMMA StepIsFifoStep ==
  ASSUME RingInv, RingInv', [RingNext]_ringVars
  PROVE  [Fifo!FifoNext]_(Fifo!fifoVars)
<1> USE DEF Fifo!fifoVars
<1>a. ASSUME NEW v \in RingValues, CallPush(v) PROVE UNCHANGED Fifo!fifoVars
  BY <1>a, SameQueue DEF CallPush, RingInv
<1>b. CASE FindRoom
  BY <1>b, SameQueue DEF FindRoom, RingInv
<1>c. CASE WriteSlot
  <2>a. \A i \in 1 .. RingSize : data'[Slot(i)] = data[Slot(i)]
    BY <1>c, SlotsOfTheQueue DEF WriteSlot, RingInv, RingTypeOK
  <2> QED  BY <1>c, <2>a, SameQueue DEF WriteSlot, RingInv
<1>d. CASE Publish
  <2>a. producer.value \in RingValues
    BY DEF RingInv, RingTypeOK
  <2> QED  BY <1>d, <2>a, PublishEnqueues DEF Fifo!FifoNext
<1>e. CASE FindFull
  BY <1>e, FullIsRefused DEF Fifo!FifoNext
<1>f. CASE FindEmpty
  BY <1>f, EmptyIsMissed DEF Fifo!FifoNext
<1>g. CASE FindValue
  BY <1>g, SameQueue DEF FindValue, RingInv
<1>h. CASE ReadSlot
  BY <1>h, SameQueue DEF ReadSlot, RingInv
<1>i. CASE Release
  BY <1>i, ReleaseDequeues DEF Fifo!FifoNext
<1>j. CASE UNCHANGED ringVars
  BY <1>j, SameQueue DEF ringVars, RingInv
<1> QED  BY <1>a, <1>b, <1>c, <1>d, <1>e, <1>f, <1>g, <1>h, <1>i, <1>j
         DEF RingNext

\* The ring implements the queue: RingIsFifo, for every capacity.
THEOREM RingImplementsFifo == RingSpec => RingIsFifo
<1>a. RingInv /\ RingInv' /\ [RingNext]_ringVars => [Fifo!FifoNext]_(Fifo!fifoVars)
  BY StepIsFifoStep
<1> QED  BY <1>a, InitIsFifoInit, RingSafe, PTL DEF RingSpec, RingIsFifo, Fifo!FifoSpec

(***************************************************************************)
(* The quote has a quantity on both sides, for any window, any prices and  *)
(* any quantities.  The argument needs no more of the search for the best  *)
(* level than that it finds a level with a quantity where there is one,    *)
(* and that is where the window being finite matters.                      *)
(***************************************************************************)

(***************************************************************************)
(* The search for a best level.                                            *)
(***************************************************************************)

\* A set of levels that is not empty has a lowest one.
LEMMA HasLowest ==
  ASSUME NEW T, T \subseteq Nat, T # {}
  PROVE  \E x \in T : \A y \in T : x <= y
<1> DEFINE R == { p \in Nat \X Nat : p[1] < p[2] }
<1>a. IsWellFoundedOn(R, Nat)
  BY NatLessThanWellFounded, Zenon DEF OpToRel
<1>b. PICK x \in T : \A y \in T : ~ (<<y, x>> \in R)
  <2> HIDE DEF R
  <2> QED  BY <1>a, WFMin
<1>c. ASSUME NEW y \in T PROVE x <= y
  <2>a. x \in Nat /\ y \in Nat
    OBVIOUS
  <2>b. ~ (y < x)
    BY <1>b, <2>a
  <2> QED  BY <2>a, <2>b
<1> QED  BY <1>c

\* It has a highest one, seen from the other end of the window.
LEMMA HasHighest ==
  ASSUME NEW T, T \subseteq Levels, T # {}
  PROVE  \E x \in T : \A y \in T : y <= x
<1> DEFINE mirror == { LevelCount - 1 - t : t \in T }
<1>a. \A t \in T : t \in Int /\ LevelCount - 1 - t \in Nat
  BY OrderBookAssumption DEF Levels
<1>b. mirror \subseteq Nat /\ mirror # {}
  BY <1>a
<1>c. PICK m \in mirror : \A n \in mirror : m <= n
  <2> HIDE DEF mirror
  <2> QED  BY <1>b, HasLowest
<1>d. PICK x \in T : m = LevelCount - 1 - x
  OBVIOUS
<1>e. ASSUME NEW y \in T PROVE y <= x
  <2>a. m <= LevelCount - 1 - y
    BY <1>c
  <2> QED  BY <1>a, <1>d, <2>a, OrderBookAssumption
<1> QED  BY <1>e

\* refreshBestBidFrom() finds a level with a quantity, or none.
LEMMA BestBidHasSize ==
  ASSUME NEW levels, NEW start
  PROVE  LET best == BestBidFrom(levels, start)
         IN best \in Index /\ (best # NoLevel => levels[best] > 0)
<1> DEFINE below == { i \in Levels : i < start /\ levels[i] > 0 }
<1>a. CASE below = {}
  BY <1>a DEF BestBidFrom, Index
<1>b. CASE below # {}
  <2>a. \E i \in below : \A j \in below : j <= i
    BY <1>b, HasHighest
  <2>b. BestBidFrom(levels, start) \in below
    BY <1>b, <2>a DEF BestBidFrom
  <2> QED  BY <2>b DEF Index
<1> QED  BY <1>a, <1>b

\* So does refreshBestAskFrom().
LEMMA BestAskHasSize ==
  ASSUME NEW levels, NEW start
  PROVE  LET best == BestAskFrom(levels, start)
         IN best \in Index /\ (best # NoLevel => levels[best] > 0)
<1> DEFINE above == { i \in Levels : start # NoLevel /\ i >= start /\ levels[i] > 0 }
<1>a. CASE above = {}
  BY <1>a DEF BestAskFrom, Index
<1>b. CASE above # {}
  <2>a. above \subseteq Nat
    BY DEF Levels
  <2>b. \E i \in above : \A j \in above : i <= j
    BY <1>b, <2>a, HasLowest
  <2>c. BestAskFrom(levels, start) \in above
    BY <1>b, <2>b DEF BestAskFrom
  <2> QED  BY <2>c DEF Index
<1> QED  BY <1>a, <1>b

(***************************************************************************)
(* One book: its types, and what QuoteHasSize says of it.                  *)
(***************************************************************************)

Books ==
  [ base : Int, initialized : BOOLEAN,
    bids : [ Levels -> Int ], asks : [ Levels -> Int ],
    bestBid : Index, bestAsk : Index, lastBid : Index, lastAsk : Index ]

Sized(b) ==
  /\ b.bestBid # NoLevel => b.bids[b.bestBid] > 0
  /\ b.bestAsk # NoLevel => b.asks[b.bestAsk] > 0

Sound(b) == b \in Books /\ Sized(b)

\* A window around a price is empty and points nowhere.
LEMMA CentredIsSound ==
  ASSUME NEW price \in Int PROVE Sound(Centred(price))
BY DEF Sound, Sized, Books, Centred, Index, NoLevel

\* Moving the window drops the best levels with it.
LEMMA EnsuredIsSound ==
  ASSUME NEW b, Sound(b), NEW price \in Int PROVE Sound(EnsureMappable(b, price))
BY CentredIsSound DEF EnsureMappable

\* A price is mapped to a level of the window.
LEMMA IndexIsLevel ==
  ASSUME NEW b \in Books, NEW price \in Int
  PROVE  ToIndex(b, price) \in Levels
<1>a. b.base \in Int /\ LevelCount \div 2 \in Int /\ LevelCount - 1 \in Int
  BY OrderBookAssumption DEF Books
<1>b. LevelCount \div 2 + price - b.base \in Int
  BY <1>a
<1> QED  BY <1>b, OrderBookAssumption DEF ToIndex, Levels

\* The empty book at the start.
LEMMA BookInitIsSound ==
  ASSUME BookInit PROVE Sound(book)
<1>a. Sound(Centred(0))
  BY CentredIsSound
<1> QED  BY <1>a DEF BookInit, Cleared, Sound, Sized, Books

\* A bid level is set or emptied.
LEMMA BidLevelKeepsSound ==
  ASSUME Sound(book), NEW price \in Prices, NEW quantity \in Quantities,
         ApplyBidLevel(price, quantity)
  PROVE  Sound(book')
<1> DEFINE b      == EnsureMappable(book, price)
           index  == ToIndex(b, price)
           levels == [ b.bids EXCEPT ![index] = quantity ]
           best   == IF quantity > 0
                     THEN IF b.bestBid < index THEN index ELSE b.bestBid
                     ELSE IF b.bestBid = index THEN BestBidFrom(levels, index)
                     ELSE b.bestBid
<1>a. price \in Int /\ quantity \in Int
  BY OrderBookAssumption
<1>b. Sound(b)
  BY <1>a, EnsuredIsSound
<1>c. index \in Levels
  BY <1>a, <1>b, IndexIsLevel DEF Sound
<1>d. book' = [ b EXCEPT !.bids = levels, !.bestBid = best ]
  BY DEF ApplyBidLevel
<1> HIDE DEF b, index
<1>e. levels \in [ Levels -> Int ]
  BY <1>a, <1>b DEF Sound, Books
<1>f. BestBidFrom(levels, index) \in Index
      /\ (BestBidFrom(levels, index) # NoLevel => levels[BestBidFrom(levels, index)] > 0)
  BY BestBidHasSize
<1>g. \A i \in Levels : levels[i] = IF i = index THEN quantity ELSE b.bids[i]
  BY <1>b, <1>c DEF Sound, Books
<1> HIDE DEF levels
<1>h. best \in Index /\ (best # NoLevel => levels[best] > 0)
  BY <1>a, <1>b, <1>c, <1>f, <1>g DEF Sound, Sized, Books, Index
<1> HIDE DEF best
<1> QED  BY <1>b, <1>d, <1>e, <1>h DEF Sound, Sized, Books

\* An ask level is set or emptied.
LEMMA AskLevelKeepsSound ==
  ASSUME Sound(book), NEW price \in Prices, NEW quantity \in Quantities,
         ApplyAskLevel(price, quantity)
  PROVE  Sound(book')
<1> DEFINE b      == EnsureMappable(book, price)
           index  == ToIndex(b, price)
           levels == [ b.asks EXCEPT ![index] = quantity ]
           best   == IF quantity > 0
                     THEN IF b.bestAsk = NoLevel \/ b.bestAsk > index THEN index
                          ELSE b.bestAsk
                     ELSE IF b.bestAsk = index THEN BestAskFrom(levels, index)
                     ELSE b.bestAsk
<1>a. price \in Int /\ quantity \in Int
  BY OrderBookAssumption
<1>b. Sound(b)
  BY <1>a, EnsuredIsSound
<1>c. index \in Levels
  BY <1>a, <1>b, IndexIsLevel DEF Sound
<1>d. book' = [ b EXCEPT !.asks = levels, !.bestAsk = best ]
  BY DEF ApplyAskLevel
<1> HIDE DEF b, index
<1>e. levels \in [ Levels -> Int ]
  BY <1>a, <1>b DEF Sound, Books
<1>f. BestAskFrom(levels, index) \in Index
      /\ (BestAskFrom(levels, index) # NoLevel => levels[BestAskFrom(levels, index)] > 0)
  BY BestAskHasSize
<1>g. \A i \in Levels : levels[i] = IF i = index THEN quantity ELSE b.asks[i]
  BY <1>b, <1>c DEF Sound, Books
<1> HIDE DEF levels
<1>h. best \in Index /\ (best # NoLevel => levels[best] > 0)
  BY <1>a, <1>b, <1>c, <1>f, <1>g DEF Sound, Sized, Books, Index
<1> HIDE DEF best
<1> QED  BY <1>b, <1>d, <1>e, <1>h DEF Sound, Sized, Books

\* One side of a quote, level by level.
LEMMA ReplacedLevels ==
  ASSUME NEW levels \in [ Levels -> Int ], NEW old, NEW new, NEW quantity \in Int
  PROVE  /\ Replaced(levels, old, new, quantity) \in [ Levels -> Int ]
         /\ \A i \in Levels :
              Replaced(levels, old, new, quantity)[i] =
                IF i = new /\ quantity > 0 THEN quantity
                ELSE IF i = old THEN 0 ELSE levels[i]
BY DEF Replaced

\* A quote replaces the last one on both sides.
LEMMA BboKeepsSound ==
  ASSUME Sound(book), NEW bid \in Prices, NEW ask \in Prices,
         NEW bidQuantity \in Quantities, NEW askQuantity \in Quantities,
         ApplyBbo(bid, bidQuantity, ask, askQuantity)
  PROVE  Sound(book')
<1> DEFINE b       == EnsureMappable(EnsureMappable(book, bid), ask)
           newBid  == ToIndex(b, bid)
           newAsk  == ToIndex(b, ask)
           newBids == Replaced(b.bids, b.lastBid, newBid, bidQuantity)
           newAsks == Replaced(b.asks, b.lastAsk, newAsk, askQuantity)
           bestBid == IF bidQuantity > 0
                      THEN IF b.bestBid \in { NoLevel, b.lastBid } \/ newBid > b.bestBid
                           THEN newBid ELSE b.bestBid
                      ELSE IF b.bestBid = b.lastBid THEN BestBidFrom(newBids, b.bestBid)
                      ELSE b.bestBid
           bestAsk == IF askQuantity > 0
                      THEN IF b.bestAsk \in { NoLevel, b.lastAsk } \/ newAsk < b.bestAsk
                           THEN newAsk ELSE b.bestAsk
                      ELSE IF b.bestAsk = b.lastAsk THEN BestAskFrom(newAsks, b.bestAsk)
                      ELSE b.bestAsk
           lastBid == IF bidQuantity > 0 THEN newBid ELSE NoLevel
           lastAsk == IF askQuantity > 0 THEN newAsk ELSE NoLevel
<1>a. bid \in Int /\ ask \in Int /\ bidQuantity \in Int /\ askQuantity \in Int
  BY OrderBookAssumption
<1>b. Sound(b)
  BY <1>a, EnsuredIsSound
<1>c. newBid \in Levels /\ newAsk \in Levels
  BY <1>a, <1>b, IndexIsLevel DEF Sound
<1>d. book' = [ b EXCEPT !.bids = newBids, !.asks = newAsks,
                  !.bestBid = bestBid, !.bestAsk = bestAsk,
                  !.lastBid = lastBid, !.lastAsk = lastAsk ]
  BY DEF ApplyBbo
<1> HIDE DEF b, newBid, newAsk
<1>e. /\ b.bids \in [ Levels -> Int ] /\ b.asks \in [ Levels -> Int ]
      /\ b.bestBid \in Index /\ b.bestAsk \in Index
      /\ b.lastBid \in Index /\ b.lastAsk \in Index
      /\ b.bestBid # NoLevel => b.bids[b.bestBid] > 0
      /\ b.bestAsk # NoLevel => b.asks[b.bestAsk] > 0
  BY <1>b DEF Sound, Sized, Books
<1>f. lastBid \in Index /\ lastAsk \in Index
  BY <1>c DEF Index
<1>g. /\ newBids \in [ Levels -> Int ] /\ bestBid \in Index
      /\ bestBid # NoLevel => newBids[bestBid] > 0
  <2> DEFINE found == BestBidFrom(newBids, b.bestBid)
  <2>known. /\ newBids \in [ Levels -> Int ]
        /\ \A i \in Levels : newBids[i] = IF i = newBid /\ bidQuantity > 0 THEN bidQuantity
                                      ELSE IF i = b.lastBid THEN 0 ELSE b.bids[i]
    BY <1>a, <1>e, ReplacedLevels
  <2>a. found \in Index /\ (found # NoLevel => newBids[found] > 0)
    BY BestBidHasSize
  <2>b. IF bidQuantity > 0
        THEN bestBid = newBid \/ (bestBid = b.bestBid /\ b.bestBid # b.lastBid)
        ELSE \/ b.bestBid = b.lastBid /\ bestBid = found
             \/ b.bestBid # b.lastBid /\ bestBid = b.bestBid
    OBVIOUS
  <2> HIDE DEF found, bestBid, newBids
  <2>c. bestBid \in Index
    BY <1>c, <1>e, <2>a, <2>b DEF Index
  <2> QED  BY <1>a, <1>c, <1>e, <2>known, <2>a, <2>b, <2>c DEF Index
<1>h. /\ newAsks \in [ Levels -> Int ] /\ bestAsk \in Index
      /\ bestAsk # NoLevel => newAsks[bestAsk] > 0
  <2> DEFINE found == BestAskFrom(newAsks, b.bestAsk)
  <2>known. /\ newAsks \in [ Levels -> Int ]
        /\ \A i \in Levels : newAsks[i] = IF i = newAsk /\ askQuantity > 0 THEN askQuantity
                                      ELSE IF i = b.lastAsk THEN 0 ELSE b.asks[i]
    BY <1>a, <1>e, ReplacedLevels
  <2>a. found \in Index /\ (found # NoLevel => newAsks[found] > 0)
    BY BestAskHasSize
  <2>b. IF askQuantity > 0
        THEN bestAsk = newAsk \/ (bestAsk = b.bestAsk /\ b.bestAsk # b.lastAsk)
        ELSE \/ b.bestAsk = b.lastAsk /\ bestAsk = found
             \/ b.bestAsk # b.lastAsk /\ bestAsk = b.bestAsk
    OBVIOUS
  <2> HIDE DEF found, bestAsk, newAsks
  <2>c. bestAsk \in Index
    BY <1>c, <1>e, <2>a, <2>b DEF Index
  <2> QED  BY <1>a, <1>c, <1>e, <2>known, <2>a, <2>b, <2>c DEF Index
<1> HIDE DEF newBids, newAsks, bestBid, bestAsk, lastBid, lastAsk
<1> QED  BY <1>b, <1>d, <1>f, <1>g, <1>h DEF Sound, Sized, Books

\* Every update keeps the book sound.
LEMMA BookStepKeepsSound ==
  ASSUME Sound(book), [BookNext]_book PROVE Sound(book')
<1>a. ASSUME NEW price \in Prices, ResetBook(price) PROVE Sound(book')
  <2>a. Sound(Centred(price)) /\ Sound(Cleared)
    <3>a. Sound(Centred(price)) /\ Sound(Centred(0))
      BY CentredIsSound, OrderBookAssumption
    <3> QED  BY <3>a DEF Cleared, Sound, Sized, Books
  <2> QED  BY <1>a, <2>a DEF ResetBook
<1>b. ASSUME NEW price \in Prices, NEW quantity \in Quantities,
             ApplyBidLevel(price, quantity) \/ ApplyAskLevel(price, quantity)
      PROVE  Sound(book')
  BY <1>b, BidLevelKeepsSound, AskLevelKeepsSound
<1>c. ASSUME NEW bid \in Prices, NEW ask \in Prices,
             NEW bidQuantity \in Quantities, NEW askQuantity \in Quantities,
             ApplyBbo(bid, bidQuantity, ask, askQuantity)
      PROVE  Sound(book')
  BY <1>c, BboKeepsSound
<1>d. CASE UNCHANGED book
  BY <1>d
<1> QED  BY <1>a, <1>b, <1>c, <1>d DEF BookNext

\* Whatever mixture of updates, a valid quote has a quantity on both sides.
THEOREM QuoteAlwaysHasSize == BookSpec => []QuoteHasSize
<1>a. BookInit => Sound(book)
  BY BookInitIsSound
<1>b. Sound(book) /\ [BookNext]_book => Sound(book)'
  BY BookStepKeepsSound
<1>c. Sound(book) => QuoteHasSize
  BY DEF Sound, Sized, QuoteHasSize
<1> QED  BY <1>a, <1>b, <1>c, PTL DEF BookSpec

(***************************************************************************)
(* The feed of a live run: every tick node has one owner.  The rings hand  *)
(* nodes over one by one; what is in two of them at once, or in none,      *)
(* would be read while it is written, or never come back.                  *)
(***************************************************************************)

\* Two sequences without a repetition, that share nothing, make one.
LEMMA JoinedInjective ==
  ASSUME NEW S, NEW s \in Seq(S), NEW t \in Seq(S), IsInjective(s), IsInjective(t),
         ToSet(s) \cap ToSet(t) = {}
  PROVE  /\ s \o t \in Seq(S) /\ IsInjective(s \o t)
         /\ ToSet(s \o t) = ToSet(s) \cup ToSet(t)
<1>a. /\ DOMAIN s = 1 .. Len(s) /\ Len(s) \in Nat /\ DOMAIN t = 1 .. Len(t) /\ Len(t) \in Nat
  BY LenProperties
<1>b. PICK u \in Seq(S) :
        /\ u = s \o t /\ DOMAIN u = 1 .. Len(s) + Len(t)
        /\ \A i \in 1 .. Len(s) + Len(t) : u[i] = IF i <= Len(s) THEN s[i] ELSE t[i - Len(s)]
  <2>a. /\ s \o t \in Seq(S) /\ Len(s \o t) = Len(s) + Len(t)
        /\ \A i \in 1 .. Len(s) + Len(t) :
             (s \o t)[i] = IF i <= Len(s) THEN s[i] ELSE t[i - Len(s)]
    BY ConcatProperties
  <2>b. DOMAIN (s \o t) = 1 .. Len(s \o t)
    BY <2>a, LenProperties
  <2> QED  BY <2>a, <2>b
<1>c. \A i \in 1 .. Len(s) : i \in DOMAIN u /\ u[i] = s[i]
  BY <1>a, <1>b
<1>d. \A i \in 1 .. Len(t) : Len(s) + i \in DOMAIN u /\ u[Len(s) + i] = t[i]
  BY <1>a, <1>b
<1>e. \A i \in DOMAIN u : \/ i \in 1 .. Len(s) /\ u[i] = s[i]
                          \/ i - Len(s) \in 1 .. Len(t) /\ u[i] = t[i - Len(s)]
  BY <1>a, <1>b
<1>f. \A i \in 1 .. Len(s), j \in 1 .. Len(t) : s[i] # t[j]
  BY <1>a DEF ToSet
<1>g. IsInjective(u)
  <2>a. ASSUME NEW i \in DOMAIN u, NEW j \in DOMAIN u, u[i] = u[j]
        PROVE  i = j
    <3>a. CASE i \in 1 .. Len(s) /\ u[i] = s[i]
      BY <1>a, <1>e, <1>f, <2>a, <3>a DEF IsInjective
    <3>b. CASE i - Len(s) \in 1 .. Len(t) /\ u[i] = t[i - Len(s)]
      <4>a. j - Len(s) \in 1 .. Len(t) /\ u[j] = t[j - Len(s)]
        BY <1>e, <1>f, <2>a, <3>b
      <4>b. i - Len(s) = j - Len(s)
        BY <1>a, <2>a, <3>b, <4>a DEF IsInjective
      <4>c. i \in Int /\ j \in Int
        BY <1>a, <1>b
      <4> QED  BY <1>a, <4>b, <4>c
    <3> QED  BY <1>e, <3>a, <3>b
  <2> QED  BY <2>a DEF IsInjective
<1>h. ToSet(u) = ToSet(s) \cup ToSet(t)
  <2>a. ToSet(u) \subseteq ToSet(s) \cup ToSet(t)
    BY <1>a, <1>e DEF ToSet
  <2>b. ToSet(s) \cup ToSet(t) \subseteq ToSet(u)
    BY <1>a, <1>c, <1>d DEF ToSet
  <2> QED  BY <2>a, <2>b
<1> QED  BY <1>b, <1>g, <1>h

\* A finite set has its elements as a sequence without a repetition.
LEMMA ListedSet ==
  ASSUME NEW S, NEW T \in SUBSET S, IsFiniteSet(T)
  PROVE  SetToSeq(T) \in Seq(S) /\ IsInjective(SetToSeq(T)) /\ ToSet(SetToSeq(T)) = T
<1> DEFINE n == Cardinality(T)
           f == SetToSeq(T)
<1>a. n \in Nat /\ ExistsBijection(1 .. n, T)
  BY FS_CardinalityType
<1>b. f \in [ 1 .. n -> T ] /\ IsInjective(f)
  <2>a. \E g \in [ 1 .. n -> T ] : IsInjective(g)
    BY <1>a DEF ExistsBijection, Bijection, Injection
  <2>b. f = CHOOSE g \in [ 1 .. n -> T ] : IsInjective(g)
    BY DEF SetToSeq
  <2> HIDE DEF f, n
  <2> QED  BY <2>a, <2>b
<1>c. IsFiniteSet(1 .. n) /\ Cardinality(1 .. n) = n
  <2> HIDE DEF n
  <2>a. Cardinality(1 .. n) = IF 1 > n THEN 0 ELSE n - 1 + 1
    BY <1>a, FS_Interval
  <2> QED  BY <1>a, <2>a, FS_Interval
<1>d. f \in Surjection(1 .. n, T)
  <2>a. f \in Injection(1 .. n, T)
    BY <1>b DEF Injection
  <2> HIDE DEF f
  <2> QED  BY <1>c, <2>a, FS_Injection
<1>e. ToSet(f) = T
  <2> HIDE DEF f, n
  <2> QED  BY <1>b, <1>d DEF Surjection, ToSet
<1>f. f \in Seq(S)
  <2> HIDE DEF f, n
  <2>a. f \in [ 1 .. n -> S ]
    BY <1>b
  <2> QED  BY <1>a, <2>a, SeqDef
<1> QED  BY <1>b, <1>e, <1>f

Nodes == NetNodes \cup LocalNodes

\* s has the nodes of T, each once.
Lists(s, T) == s \in Seq(Nodes) /\ IsInjective(s) /\ ToSet(s) = T

\* So may be joined what shares no node.
LEMMA ListsJoined ==
  ASSUME NEW s, NEW t, NEW T, NEW U, Lists(s, T), Lists(t, U), T \cap U = {}
  PROVE  Lists(s \o t, T \cup U)
BY JoinedInjective DEF Lists

Looping == { "check", "restore", "announce", "drain", "collect", "take" }
Stopped == { "stopping", "ended" }

NodesTyped ==
  /\ netFree \in SUBSET NetNodes /\ netHeld \in SUBSET NetNodes
  /\ recycle \in SUBSET NetNodes /\ localFree \in SUBSET LocalNodes
  /\ ingress \in Seq(NetNodes) /\ queue \in Seq(Nodes)

\* The owners of nodes share none.
OneOwner ==
  /\ IsInjective(ingress) /\ IsInjective(queue)
  /\ netFree \cap (netHeld \cup recycle \cup ToSet(ingress) \cup ToSet(queue)) = {}
  /\ netHeld \cap (recycle \cup ToSet(ingress) \cup ToSet(queue)) = {}
  /\ recycle \cap (ToSet(ingress) \cup ToSet(queue)) = {}
  /\ ToSet(queue) \cap (ToSet(ingress) \cup localFree) = {}

\* And they own all of them, until the run ends.
AllOwned ==
  mainAt \notin Stopped =>
    netFree \cup netHeld \cup recycle \cup ToSet(ingress) \cup ToSet(queue)
      \cup localFree = Nodes

\* The callback holds the one node of the message it parses.
HeldWhileParsing ==
  /\ netAt # "parse" => netHeld = {}
  /\ \A m, n \in netHeld : m = n

\* Before it connects there is no network thread.
NotStarted == mainAt = "setup" => netAt = "off"

FeedInv ==
  /\ NodesTyped /\ OneOwner /\ AllOwned /\ HeldWhileParsing /\ NotStarted
  /\ mainAt \in Looping => queue # <<>>

\* It is what the property asks for.
LEMMA FeedPlaces == FeedInv => NodeHasOneOwner
<1> SUFFICES ASSUME FeedInv PROVE NodeHasOneOwner
  OBVIOUS
<1> DEFINE free == SetToSeq(netFree)
           held == SetToSeq(netHeld)
           back == SetToSeq(recycle)
           ours == SetToSeq(localFree)
<1>a. /\ netFree \in SUBSET Nodes /\ netHeld \in SUBSET Nodes /\ recycle \in SUBSET Nodes
      /\ localFree \in SUBSET Nodes /\ queue \in Seq(Nodes) /\ ingress \in Seq(Nodes)
  <2>a. ingress \in Seq(NetNodes) /\ NetNodes \subseteq Nodes
    BY DEF FeedInv, NodesTyped, Nodes
  <2>b. ingress \in Seq(Nodes)
    BY <2>a, SeqMonotonic
  <2> QED  BY <2>b DEF FeedInv, NodesTyped, Nodes
<1>b. /\ IsFiniteSet(netFree) /\ IsFiniteSet(netHeld) /\ IsFiniteSet(recycle)
      /\ IsFiniteSet(localFree)
  BY FS_Subset, FeedAssumption DEF FeedInv, NodesTyped
<1>c. /\ Lists(free, netFree) /\ Lists(held, netHeld) /\ Lists(back, recycle)
      /\ Lists(ours, localFree)
  BY <1>a, <1>b, ListedSet DEF Lists
<1>d. Lists(ingress, ToSet(ingress)) /\ Lists(queue, ToSet(queue))
  BY <1>a DEF Lists, FeedInv, OneOwner
<1>g. Placed = free \o held \o back \o ingress \o queue \o ours
  BY DEF Placed
<1> HIDE DEF free, held, back, ours
<1>h. NetNodes \cap LocalNodes = {} /\ ToSet(ingress) \subseteq NetNodes
  <2>a. ingress \in Seq(NetNodes)
    BY DEF FeedInv, NodesTyped
  <2>b. \A i \in DOMAIN ingress : ingress[i] \in NetNodes
    BY <2>a, LenProperties, ElementOfSeq
  <2> QED  BY <2>b, FeedAssumption DEF ToSet
<1>i. Lists(free \o held, netFree \cup netHeld)
  BY <1>c, ListsJoined DEF FeedInv, OneOwner
<1>j. Lists(free \o held \o back, netFree \cup netHeld \cup recycle)
  <2>a. (netFree \cup netHeld) \cap recycle = {}
    BY DEF FeedInv, OneOwner
  <2> QED  BY <1>c, <1>i, <2>a, ListsJoined
<1>k. Lists(free \o held \o back \o ingress,
             netFree \cup netHeld \cup recycle \cup ToSet(ingress))
  <2>a. (netFree \cup netHeld \cup recycle) \cap ToSet(ingress) = {}
    BY DEF FeedInv, OneOwner
  <2> QED  BY <1>d, <1>j, <2>a, ListsJoined
<1>l. Lists(free \o held \o back \o ingress \o queue,
             netFree \cup netHeld \cup recycle \cup ToSet(ingress) \cup ToSet(queue))
  <2>a. (netFree \cup netHeld \cup recycle \cup ToSet(ingress)) \cap ToSet(queue) = {}
    BY DEF FeedInv, OneOwner
  <2> QED  BY <1>d, <1>k, <2>a, ListsJoined
<1>m. (netFree \cup netHeld \cup recycle \cup ToSet(ingress) \cup ToSet(queue))
         \cap localFree = {}
  BY <1>h DEF FeedInv, OneOwner, NodesTyped
<1>n. Lists(Placed, netFree \cup netHeld \cup recycle \cup ToSet(ingress)
                       \cup ToSet(queue) \cup localFree)
  BY <1>c, <1>g, <1>l, <1>m, ListsJoined
<1>o. /\ IsInjective(Placed)
       /\ ToSet(Placed) = netFree \cup netHeld \cup recycle \cup ToSet(ingress)
                            \cup ToSet(queue) \cup localFree
  BY <1>n DEF Lists
<1> QED  BY <1>o DEF NodeHasOneOwner, FeedInv, AllOwned, Stopped, Looping, Nodes

\* No node is anywhere but at its pool when the program starts.
LEMMA FeedBegins == FeedInit => FeedInv
<1> SUFFICES ASSUME FeedInit PROVE FeedInv
  OBVIOUS
<1>a. /\ netFree = NetNodes /\ netHeld = {} /\ recycle = {} /\ localFree = LocalNodes
      /\ ingress = <<>> /\ queue = <<>> /\ netAt = "off" /\ mainAt = "setup"
  BY DEF FeedInit
<1>b. /\ IsInjective(<<>>) /\ ToSet(<<>>) = {}
      /\ <<>> \in Seq(NetNodes) /\ <<>> \in Seq(Nodes)
  BY DEF IsInjective, ToSet
<1>c. NodesTyped /\ OneOwner /\ AllOwned /\ HeldWhileParsing /\ NotStarted
  BY <1>a, <1>b, FeedAssumption
  DEF NodesTyped, OneOwner, AllOwned, HeldWhileParsing, Nodes, NotStarted
<1> QED  BY <1>a, <1>c DEF FeedInv, Looping

\* One more node at the end of a sequence without a repetition.
LEMMA NodeAppended ==
  ASSUME NEW S, NEW s \in Seq(S), NEW n \in S, IsInjective(s), n \notin ToSet(s)
  PROVE  /\ Append(s, n) \in Seq(S) /\ IsInjective(Append(s, n))
         /\ ToSet(Append(s, n)) = ToSet(s) \cup { n } /\ Append(s, n) # <<>>
<1>a. PICK u \in Seq(S) :
        /\ u = Append(s, n) /\ u # <<>> /\ DOMAIN u = 1 .. Len(s) + 1
        /\ \A i \in 1 .. Len(s) : u[i] = s[i]
        /\ u[Len(s) + 1] = n
  <2>a. /\ Append(s, n) \in Seq(S) /\ Append(s, n) # <<>>
        /\ Len(Append(s, n)) = Len(s) + 1
        /\ \A i \in 1 .. Len(s) : Append(s, n)[i] = s[i]
        /\ Append(s, n)[Len(s) + 1] = n
    BY AppendProperties
  <2>b. DOMAIN Append(s, n) = 1 .. Len(Append(s, n))
    BY <2>a, LenProperties
  <2> QED  BY <2>a, <2>b
<1>b. DOMAIN s = 1 .. Len(s) /\ Len(s) \in Nat
  BY LenProperties
<1>c. \A i \in DOMAIN u : \/ i \in DOMAIN s /\ u[i] = s[i]
                          \/ i = Len(s) + 1 /\ u[i] = n
  BY <1>a, <1>b
<1>d. \A i \in DOMAIN s : i \in DOMAIN u /\ u[i] = s[i] /\ s[i] # n
  BY <1>a, <1>b DEF ToSet
<1>e. ToSet(u) = ToSet(s) \cup { n }
  <2>a. Len(s) + 1 \in DOMAIN u
    BY <1>a, <1>b
  <2> QED  BY <1>a, <1>c, <1>d, <2>a DEF ToSet
<1>f. IsInjective(u)
  BY <1>c, <1>d DEF IsInjective
<1> QED  BY <1>a, <1>e, <1>f

\* One less at its beginning.
LEMMA NodeTaken ==
  ASSUME NEW S, NEW s \in Seq(S), IsInjective(s), s # <<>>
  PROVE  /\ Tail(s) \in Seq(S) /\ IsInjective(Tail(s)) /\ Head(s) \in S
         /\ Head(s) \in ToSet(s) /\ ToSet(Tail(s)) = ToSet(s) \ { Head(s) }
<1>a. PICK u \in Seq(S) :
        /\ u = Tail(s) /\ Len(u) = Len(s) - 1
        /\ \A i \in 1 .. Len(u) : u[i] = s[i + 1]
  BY HeadTailProperties
<1>b. /\ DOMAIN s = 1 .. Len(s) /\ Len(s) \in Nat \ {0} /\ DOMAIN u = 1 .. Len(u)
      /\ Head(s) = s[1] /\ 1 \in DOMAIN s
  BY LenProperties, EmptySeq
<1>c. \A i \in DOMAIN u : i + 1 \in DOMAIN s /\ u[i] = s[i + 1] /\ i \in Nat /\ i + 1 # 1
  BY <1>a, <1>b
<1>d. \A i \in DOMAIN s : i = 1 \/ (i - 1 \in DOMAIN u /\ u[i - 1] = s[i])
  <2>a. \A i \in DOMAIN s : i = 1 \/ (i - 1 \in DOMAIN u /\ i - 1 + 1 = i)
    BY <1>a, <1>b
  <2> QED  BY <1>c, <2>a
<1>e. IsInjective(u)
  BY <1>c DEF IsInjective
<1>f. ToSet(u) = ToSet(s) \ { s[1] }
  <2>a. ToSet(u) \subseteq ToSet(s) \ { s[1] }
    BY <1>b, <1>c DEF ToSet, IsInjective
  <2>b. ToSet(s) \ { s[1] } \subseteq ToSet(u)
    BY <1>d DEF ToSet
  <2> QED  BY <2>a, <2>b
<1>g. s[1] \in ToSet(s) /\ s[1] \in S
  BY <1>b, ElementOfSeq DEF ToSet
<1> QED  BY <1>a, <1>b, <1>e, <1>f, <1>g

\* A step that moves no node, and enters the loop only with a candle queued.
LEMMA NodesStay ==
  ASSUME FeedInv, UNCHANGED nodeVars,
         netAt # "parse" /\ netAt' # "parse", NotStarted',
         mainAt' \notin Stopped => mainAt \notin Stopped,
         mainAt' \in Looping => mainAt \in Looping
  PROVE  FeedInv'
<1>a. UNCHANGED <<netHeld, netFree, recycle, ingress, queue, localFree>>
  BY DEF nodeVars
<1> QED
  BY <1>a DEF FeedInv, NodesTyped, OneOwner, AllOwned, HeldWhileParsing

\* The same on the threads that do not parse.
LEMMA NodesStayElsewhere ==
  ASSUME FeedInv, UNCHANGED <<nodeVars, netAt>>, NotStarted',
         mainAt' \notin Stopped => mainAt \notin Stopped,
         mainAt' \in Looping => mainAt \in Looping
  PROVE  FeedInv'
<1>a. UNCHANGED <<netHeld, netFree, recycle, ingress, queue, localFree>>
  BY DEF nodeVars
<1> QED
  BY <1>a DEF FeedInv, NodesTyped, OneOwner, AllOwned, HeldWhileParsing

\* What the network thread does with a node.
LEMMA NetworkKeeps ==
  ASSUME FeedInv, NetworkStep
  PROVE  FeedInv'
<1> USE DEF FeedInv
<1>known. mainAt # "setup" /\ (UNCHANGED mainAt => NotStarted')
  BY DEF NetworkStep, ReceiveTick, HandOver, LoseConnection, LoseUnannounced,
         CloseUnannounced, TellAdapter, TellRisk, Retry, NotStarted
<1>a. CASE ReceiveTick
  <2>a. PICK n \in netFree : netFree' = netFree \ { n } /\ netHeld' = { n }
    BY <1>a DEF ReceiveTick
  <2>b. /\ netHeld = {} /\ netAt' = "parse"
        /\ UNCHANGED <<recycle, ingress, queue, localFree, mainAt>>
    BY <1>a DEF ReceiveTick, HeldWhileParsing
  <2>c. NodesTyped' /\ HeldWhileParsing' /\ AllOwned'
    BY <2>a, <2>b DEF NodesTyped, HeldWhileParsing, AllOwned
  <2>d. OneOwner'
    BY <2>a, <2>b DEF OneOwner
  <2> QED  BY <1>known, <2>b, <2>c, <2>d
<1>b. CASE HandOver
  <2>a. PICK n \in netHeld :
          \/ ingress' = Append(ingress, n) /\ UNCHANGED recycle
          \/ recycle' = recycle \cup { n } /\ UNCHANGED ingress
    BY <1>b DEF HandOver
  <2>b. /\ netHeld = { n } /\ netHeld' = {} /\ netAt' = "poll" /\ n \in NetNodes
        /\ UNCHANGED <<netFree, queue, localFree, mainAt>>
    BY <1>b DEF HandOver, HeldWhileParsing, NodesTyped
  <2>c. CASE ingress' = Append(ingress, n) /\ UNCHANGED recycle
    <3>a. n \notin ToSet(ingress) /\ ingress \in Seq(NetNodes) /\ IsInjective(ingress)
      BY <2>b DEF OneOwner, NodesTyped
    <3>b. /\ ingress' \in Seq(NetNodes) /\ IsInjective(ingress')
          /\ ToSet(ingress') = ToSet(ingress) \cup { n }
      BY <2>b, <2>c, <3>a, NodeAppended
    <3>c. NodesTyped' /\ HeldWhileParsing' /\ AllOwned'
      BY <2>b, <2>c, <3>b DEF NodesTyped, HeldWhileParsing, AllOwned
    <3>d. OneOwner'
      BY <2>b, <2>c, <3>b DEF OneOwner
    <3> QED  BY <1>known, <2>b, <3>c, <3>d
  <2>d. CASE recycle' = recycle \cup { n } /\ UNCHANGED ingress
    <3>a. NodesTyped' /\ HeldWhileParsing' /\ AllOwned'
      BY <2>b, <2>d DEF NodesTyped, HeldWhileParsing, AllOwned
    <3>b. OneOwner'
      BY <2>b, <2>d DEF OneOwner
    <3> QED  BY <1>known, <2>b, <3>a, <3>b
  <2> QED  BY <2>a, <2>c, <2>d
<1>c. ASSUME \/ LoseConnection \/ LoseUnannounced \/ CloseUnannounced
             \/ TellAdapter \/ TellRisk \/ Retry
      PROVE  FeedInv'
  <2>a. UNCHANGED <<nodeVars, mainAt>> /\ netAt # "parse" /\ netAt' # "parse"
    BY <1>c DEF LoseConnection, LoseUnannounced, CloseUnannounced, TellAdapter, TellRisk,
                Retry
  <2>b. NotStarted'
    BY <1>known, <2>a DEF NotStarted
  <2> QED  BY <2>a, <2>b, NodesStay
<1> QED  BY <1>a, <1>b, <1>c DEF NetworkStep

\* With every local node in the queue there is one.
LEMMA QueueHasLocals ==
  ASSUME FeedInv, mainAt = "push", localFree = {}
  PROVE  queue # <<>>
<1> SUFFICES ASSUME queue = <<>> PROVE FALSE
  OBVIOUS
<1>a. ToSet(queue) = {}
  BY DEF ToSet
<1>b. PICK n \in LocalNodes : n \notin NetNodes
  BY FeedAssumption
<1>c. n \in netFree \cup netHeld \cup recycle \cup ToSet(ingress)
  BY <1>a DEF FeedInv, AllOwned, Stopped, Nodes
<1>d. ToSet(ingress) \subseteq NetNodes
  <2>a. ingress \in Seq(NetNodes)
    BY DEF FeedInv, NodesTyped
  <2>b. \A i \in DOMAIN ingress : ingress[i] \in NetNodes
    BY <2>a, LenProperties, ElementOfSeq
  <2> QED  BY <2>b DEF ToSet
<1> QED  BY <1>b, <1>c, <1>d DEF FeedInv, NodesTyped

\* What the main thread does with nodes.
LEMMA PushKeeps == ASSUME FeedInv, PushCandle PROVE FeedInv'
<1> USE DEF FeedInv
<1>a. /\ mainAt = "push" /\ mainAt' = "check"
      /\ UNCHANGED <<netAt, netHeld, netFree, recycle, ingress>>
  BY DEF PushCandle
<1>b. CASE localFree = {} /\ UNCHANGED <<localFree, queue>>
  <2>a. queue # <<>>
    BY <1>a, <1>b, QueueHasLocals
  <2> QED
    BY <1>a, <1>b, <2>a
    DEF NodesTyped, OneOwner, AllOwned, HeldWhileParsing, NotStarted, Stopped
<1>c. ASSUME NEW n \in localFree,
             localFree' = localFree \ { n }, queue' = Append(queue, n)
      PROVE  FeedInv'
  <2>a. n \in Nodes /\ n \notin ToSet(queue) /\ queue \in Seq(Nodes) /\ IsInjective(queue)
    BY DEF NodesTyped, OneOwner, Nodes
  <2>b. /\ queue' \in Seq(Nodes) /\ IsInjective(queue') /\ queue' # <<>>
        /\ ToSet(queue') = ToSet(queue) \cup { n }
    BY <1>c, <2>a, NodeAppended
  <2>c. n \notin NetNodes /\ ToSet(ingress) \subseteq NetNodes
    <3>a. ingress \in Seq(NetNodes)
      BY DEF NodesTyped
    <3>b. \A i \in DOMAIN ingress : ingress[i] \in NetNodes
      BY <3>a, LenProperties, ElementOfSeq
    <3> QED  BY <3>b, FeedAssumption DEF NodesTyped, ToSet
  <2>d. NodesTyped' /\ HeldWhileParsing' /\ NotStarted'
    BY <1>a, <1>c, <2>b DEF NodesTyped, HeldWhileParsing, NotStarted
  <2>e. AllOwned'
    BY <1>a, <1>c, <2>b DEF AllOwned, Stopped
  <2>f. OneOwner'
    BY <1>a, <1>c, <2>b, <2>c DEF OneOwner, NodesTyped
  <2> QED  BY <2>b, <2>d, <2>e, <2>f
<1> QED  BY <1>b, <1>c DEF PushCandle

\* The rings are emptied into the queue and the pool.
LEMMA PumpKeeps == ASSUME FeedInv, Drain \/ Collect PROVE FeedInv'
<1> USE DEF FeedInv
<1>a. CASE Drain
  <2>a. /\ mainAt = "drain" /\ mainAt' = "collect" /\ netFree' = netFree \cup recycle
        /\ recycle' = {} /\ UNCHANGED <<netAt, netHeld, ingress, queue, localFree>>
    BY <1>a DEF Drain
  <2>b. NodesTyped' /\ HeldWhileParsing' /\ NotStarted' /\ AllOwned'
    BY <2>a DEF NodesTyped, HeldWhileParsing, NotStarted, AllOwned, Stopped
  <2>c. OneOwner'
    BY <2>a DEF OneOwner
  <2> QED  BY <2>a, <2>b, <2>c DEF Looping
<1>b. CASE Collect
  <2>a. /\ mainAt = "collect" /\ mainAt' = "take" /\ queue' = queue \o ingress
        /\ ingress' = <<>> /\ UNCHANGED <<netAt, netHeld, netFree, recycle, localFree>>
    BY <1>b DEF Collect
  <2>b. ingress \in Seq(Nodes) /\ queue \in Seq(Nodes) /\ ToSet(ingress) \subseteq NetNodes
    <3>a. ingress \in Seq(NetNodes) /\ queue \in Seq(Nodes) /\ NetNodes \subseteq Nodes
      BY DEF NodesTyped, Nodes
    <3>b. ingress \in Seq(Nodes)
      BY <3>a, SeqMonotonic
    <3>c. \A i \in DOMAIN ingress : ingress[i] \in NetNodes
      BY <3>a, LenProperties, ElementOfSeq
    <3> QED  BY <3>a, <3>b, <3>c DEF ToSet
  <2>c. /\ queue' \in Seq(Nodes) /\ IsInjective(queue')
        /\ ToSet(queue') = ToSet(queue) \cup ToSet(ingress)
    <3>a. IsInjective(ingress) /\ IsInjective(queue) /\ ToSet(queue) \cap ToSet(ingress) = {}
      BY DEF OneOwner
    <3> QED  BY <2>a, <2>b, <3>a, JoinedInjective
  <2>d. IsInjective(<<>>) /\ ToSet(<<>>) = {} /\ <<>> \in Seq(NetNodes)
    BY DEF IsInjective, ToSet
  <2>e. queue' # <<>>
    <3>a. queue # <<>>
      BY <2>a DEF Looping
    <3>b. 1 \in DOMAIN queue
      BY <2>b, <3>a, LenProperties, EmptySeq
    <3>c. queue[1] \in ToSet(queue')
      BY <2>c, <3>b DEF ToSet
    <3> QED  BY <2>d, <3>c
  <2>f. NodesTyped' /\ HeldWhileParsing' /\ NotStarted' /\ AllOwned'
    BY <2>a, <2>c, <2>d DEF NodesTyped, HeldWhileParsing, NotStarted, AllOwned, Stopped
  <2>g. OneOwner'
    <3>a. ToSet(ingress) \cap localFree = {}
      BY <2>b, FeedAssumption DEF NodesTyped
    <3> QED  BY <2>a, <2>c, <2>d, <3>a DEF OneOwner
  <2> QED  BY <2>e, <2>f, <2>g
<1> QED  BY <1>a, <1>b

\* A candle is taken, its node goes back where it came from.
LEMMA TakeKeeps == ASSUME FeedInv, TakeCandle PROVE FeedInv'
<1> USE DEF FeedInv
<1>a. /\ mainAt = "take" /\ mainAt' = "push" /\ queue # <<>> /\ queue' = Tail(queue)
      /\ UNCHANGED <<netAt, netHeld, recycle, ingress>>
  BY DEF TakeCandle
<1>b. PICK n \in Nodes : n = Head(queue) /\ n \in ToSet(queue)
  BY <1>a, NodeTaken DEF NodesTyped, OneOwner
<1>c. /\ queue' \in Seq(Nodes) /\ IsInjective(queue')
      /\ ToSet(queue') = ToSet(queue) \ { n }
  BY <1>a, <1>b, NodeTaken DEF NodesTyped, OneOwner
<1>d. \/ /\ n \in NetNodes /\ netFree' = netFree \cup { n } /\ UNCHANGED localFree
      \/ /\ n \in LocalNodes /\ localFree' = localFree \cup { n } /\ UNCHANGED netFree
  BY <1>b DEF TakeCandle
<1>e. NodesTyped' /\ HeldWhileParsing' /\ NotStarted'
  BY <1>a, <1>c, <1>d DEF NodesTyped, HeldWhileParsing, NotStarted
<1>f. AllOwned'
  BY <1>a, <1>b, <1>c, <1>d DEF AllOwned, Stopped
<1>g. OneOwner'
  BY <1>a, <1>b, <1>c, <1>d DEF OneOwner
<1> QED  BY <1>a, <1>e, <1>f, <1>g DEF Looping

\* At the end the nodes of the queue are given up.
LEMMA DisconnectKeeps == ASSUME FeedInv, Disconnect PROVE FeedInv'
<1> USE DEF FeedInv
<1>a. /\ mainAt' = "stopping" /\ netAt \in { "off", "poll" } /\ netAt' = "off"
      /\ netFree' = netFree \cup ToSet(ingress) \cup recycle
      /\ ingress' = <<>> /\ recycle' = {} /\ queue' = <<>> /\ localFree' = LocalNodes
      /\ UNCHANGED netHeld
  BY DEF Disconnect, ClientStopped
<1>b. /\ IsInjective(<<>>) /\ ToSet(<<>>) = {}
      /\ <<>> \in Seq(NetNodes) /\ <<>> \in Seq(Nodes)
  BY DEF IsInjective, ToSet
<1>c. ToSet(ingress) \subseteq NetNodes
  <2>a. ingress \in Seq(NetNodes)
    BY DEF NodesTyped
  <2>b. \A i \in DOMAIN ingress : ingress[i] \in NetNodes
    BY <2>a, LenProperties, ElementOfSeq
  <2> QED  BY <2>b DEF ToSet
<1>d. netHeld = {}
  BY <1>a DEF HeldWhileParsing
<1>e. NodesTyped' /\ HeldWhileParsing' /\ NotStarted' /\ AllOwned'
  BY <1>a, <1>b, <1>c, <1>d DEF NodesTyped, HeldWhileParsing, NotStarted, AllOwned, Stopped
<1>f. OneOwner'
  BY <1>a, <1>b, <1>d DEF OneOwner
<1> QED  BY <1>a, <1>e, <1>f DEF Looping

\* Every step keeps the owners apart.
LEMMA FeedKeeps == FeedInv /\ [FeedNext]_feedVars => FeedInv'
<1> SUFFICES ASSUME FeedInv, [FeedNext]_feedVars PROVE FeedInv'
  OBVIOUS
<1>a. CASE NetworkStep
  BY <1>a, NetworkKeeps
<1>b. CASE Disconnect
  BY <1>b, DisconnectKeeps
<1>c. ASSUME PushCandle \/ Drain \/ Collect \/ TakeCandle
      PROVE  FeedInv'
  BY <1>c, PushKeeps, PumpKeeps, TakeKeeps
<1>d. CASE Connect
  <2>a. /\ mainAt = "setup" /\ UNCHANGED nodeVars /\ mainAt' \in { "wiring", "shared" }
        /\ netAt' = netAt \/ netAt' = "poll"
    BY <1>d DEF Connect, ClientStarted
  <2>b. netAt # "parse" /\ netAt' # "parse" /\ NotStarted'
    BY <2>a DEF FeedInv, NotStarted
  <2> QED  BY <2>a, <2>b, NodesStay DEF Stopped, Looping
<1>e. ASSUME \/ AnnounceFirst \/ ClearFirstRetry \/ Established \/ WireRiskEngine
             \/ CheckLink \/ RestoreLink \/ AnnounceLink
             \/ SimulateDisconnect \/ ReportDegraded \/ JoinWorker
      PROVE  FeedInv'
  <2>a. /\ UNCHANGED <<nodeVars, netAt>> /\ mainAt' # "setup"
        /\ mainAt' \notin Stopped => mainAt \notin Stopped
        /\ mainAt' \in Looping => mainAt \in Looping
    BY <1>e DEF AnnounceFirst, ClearFirstRetry, Established, WireRiskEngine, CheckLink,
                RestoreLink, AnnounceLink, SimulateDisconnect, ReportDegraded, JoinWorker,
                Stopped, Looping
  <2> QED  BY <2>a, NodesStayElsewhere DEF NotStarted
<1>f. ASSUME Outage \/ EndpointReturns \/ WorkerStep \/ UNCHANGED feedVars
      PROVE  FeedInv'
  <2>a. UNCHANGED <<nodeVars, netAt, mainAt>>
    BY <1>f DEF Outage, EndpointReturns, WorkerStep, WorkerReconnects, WorkerReports,
                WorkerLoops, feedVars
  <2> QED  BY <2>a, NodesStayElsewhere DEF FeedInv, NotStarted
<1> QED  BY <1>a, <1>b, <1>c, <1>d, <1>e, <1>f DEF FeedNext, MainStep

\* No node is lost or in two places while the feed runs, and the main thread
\* finds a candle whenever it looks for one.
THEOREM NodesHaveOneOwner == FeedSpec => []NodeHasOneOwner
<1>a. FeedSpec => []FeedInv
  BY FeedBegins, FeedKeeps, PTL DEF FeedSpec
<1> QED  BY <1>a, FeedPlaces, PTL
(***************************************************************************)
(* The web socket.  What the callback gets depends on what lies ahead in   *)
(* the stream: a last fragment is joined with what was collected, so that  *)
(* the beginning of its message must lie before it in the stream, or have  *)
(* been collected with nothing of another message between, or be lost with *)
(* the handshake.  A fragment still to be sent is the last frame but one.  *)
(***************************************************************************)
PartSet == Nat \X (0 .. 2)
FrameSet == [ op : { "text", "continuation", "ping", "pong", "close" },
              fin : BOOLEAN, msg : Nat, part : 0 .. 2 ]

Data(frame) == frame.op \in { "text", "continuation" }

\* Which part of a message a frame carries.
SoundFrame(frame) ==
  /\ (frame.op = "text" /\ frame.fin) => (frame.part = 0)
  /\ (frame.op = "text" /\ ~frame.fin) => (frame.part = 1)
  /\ (frame.op = "continuation") => (frame.part = 2)

Precedes(m, p, n, q) == m < n \/ (m = n /\ p = 1 /\ q = 2)

InSendOrder(s) ==
  \A i, j \in 1 .. Len(s) :
    (i < j /\ Data(s[i]) /\ Data(s[j]))
      => Precedes(s[i].msg, s[i].part, s[j].msg, s[j].part)

\* What the server has sent comes before what it sends next.
AllSent(s, m, b) ==
  \A i \in 1 .. Len(s) :
    Data(s[i]) => (s[i].msg < m \/ (s[i].msg = m /\ s[i].part = 1 /\ b))

\* The beginning of message m is found by whoever reads its end at j.
Opens(frame, m) == frame.op = "text" /\ frame.part = 1 /\ frame.msg = m
Collected(m, f, d, u) ==
  f = << <<m, 1>> >> \/ (f = <<>> /\ d = <<>> /\ u)
Joins(s, j, m, f, d, u) ==
  \/ \E i \in 1 .. j - 1 : Opens(s[i], m)
  \/ (\A i \in 1 .. j - 1 : ~Data(s[i])) /\ Collected(m, f, d, u)

EndsJoin(s, f, d, u) ==
  \A j \in 1 .. Len(s) :
    (s[j].op = "continuation") => Joins(s, j, s[j].msg, f, d, u)

Behind(d, s, m) ==
  \A i \in 1 .. Len(d) :
    /\ d[i][1][1] < m
    /\ \A j \in 1 .. Len(s) : Data(s[j]) => (d[i][1][1] < s[j].msg)

WsTypes ==
  /\ stream \in Seq(FrameSet) /\ message \in Nat
  /\ between \in BOOLEAN /\ surplus \in BOOLEAN
  /\ fragment \in Seq(PartSet) /\ delivered \in Seq(Seq(PartSet))

WsInv ==
  /\ WsTypes
  /\ \A i \in 1 .. Len(stream) : SoundFrame(stream[i])
  /\ InSendOrder(stream) /\ AllSent(stream, message, between)
  /\ EndsJoin(stream, fragment, delivered, surplus)
  /\ between =>
       Joins(stream, Len(stream) + 1, message, fragment, delivered, surplus)
  /\ Behind(delivered, stream, message)
  /\ (opener.at = "handshake") =>
       (wsFd = NoFd /\ fragment = <<>> /\ delivered = <<>> /\ ~surplus)
  /\ DeliveredIsSent

\* t is what is left of s when n frames are gone.
Remainder(t, s, n) ==
  /\ t \in Seq(FrameSet) /\ n \in Nat /\ Len(s) = Len(t) + n
  /\ \A i \in 1 .. Len(t) : t[i] = s[i + n]

\* Frames taken from the front leave the others in their order.
LEMMA RestInOrder ==
  ASSUME NEW s \in Seq(FrameSet), NEW t, NEW n, Remainder(t, s, n),
         NEW m, NEW b, InSendOrder(s), AllSent(s, m, b),
         \A i \in 1 .. Len(s) : SoundFrame(s[i])
  PROVE  /\ InSendOrder(t) /\ AllSent(t, m, b)
         /\ \A i \in 1 .. Len(t) : SoundFrame(t[i])
PROOF
<1>a. Len(t) \in Nat /\ Len(s) \in Nat /\ n \in Nat BY DEF Remainder
<1>b. \A i \in 1 .. Len(t) : i + n \in 1 .. Len(s) /\ t[i] = s[i + n]
  BY <1>a DEF Remainder
<1>c. InSendOrder(t)
  <2> SUFFICES ASSUME NEW i \in 1 .. Len(t), NEW j \in 1 .. Len(t), i < j,
                      Data(t[i]), Data(t[j])
               PROVE  Precedes(t[i].msg, t[i].part, t[j].msg, t[j].part)
    BY DEF InSendOrder
  <2>a. i + n < j + n BY <1>a
  <2> QED BY <2>a, <1>b DEF InSendOrder
<1>d. AllSent(t, m, b) BY <1>b DEF AllSent
<1> QED BY <1>b, <1>c, <1>d

\* The end of a message behind the frame that is taken: the frame begins the
\* message, or has nothing to do with it.
LEMMA JoinsAfterHead ==
  ASSUME NEW s \in Seq(FrameSet), NEW t, Remainder(t, s, 1),
         NEW j \in Nat \ {0, 1}, NEW m, NEW f, NEW d, NEW u,
         Joins(s, j, m, f, d, u), j <= Len(s) + 1
  PROVE  /\ Opens(s[1], m) \/ ~Data(s[1]) \/ (\A g, e : Joins(t, j - 1, m, g, e, u))
         /\ ~Data(s[1]) => Joins(t, j - 1, m, f, d, u)
PROOF
<1>a. Len(t) \in Nat /\ Len(s) = Len(t) + 1 BY DEF Remainder
<1>b. \A i \in 1 .. j - 2 : i + 1 \in 1 .. j - 1 /\ t[i] = s[i + 1]
  BY <1>a DEF Remainder
<1>c. 1 \in 1 .. j - 1 OBVIOUS
<1>d. ASSUME NEW i \in 1 .. j - 1, Opens(s[i], m), ~Opens(s[1], m), NEW g, NEW e
      PROVE  Joins(t, j - 1, m, g, e, u)
  <2>a. i # 1 BY <1>d
  <2>b. i - 1 \in 1 .. j - 2 /\ (i - 1) + 1 = i BY <2>a
  <2>c. Opens(t[i - 1], m) BY <2>b, <1>b, <1>d
  <2>d. j - 2 = (j - 1) - 1 OBVIOUS
  <2> QED BY <2>b, <2>c, <2>d DEF Joins
<1>e. CASE \E i \in 1 .. j - 1 : Opens(s[i], m)
  <2>a. ~Data(s[1]) => ~Opens(s[1], m) BY DEF Data, Opens
  <2> QED BY <1>d, <1>e, <2>a
<1>f. CASE (\A i \in 1 .. j - 1 : ~Data(s[i])) /\ Collected(m, f, d, u)
  <2>a. \A i \in 1 .. j - 2 : ~Data(t[i]) BY <1>b, <1>f
  <2>b. (j - 1) - 1 = j - 2 OBVIOUS
  <2>c. Joins(t, j - 1, m, f, d, u) BY <1>f, <2>a, <2>b DEF Joins
  <2> QED BY <1>c, <1>f, <2>c
<1> QED BY <1>e, <1>f DEF Joins

\* Between the beginning of a message and its end nothing of another lies.
LEMMA NothingBetween ==
  ASSUME NEW s \in Seq(FrameSet), InSendOrder(s),
         NEW j \in Nat, j <= Len(s) + 1, NEW m \in Nat,
         \A k \in 1 .. j - 1 : Data(s[k]) => Precedes(s[k].msg, s[k].part, m, 2),
         NEW i \in 1 .. j - 1, Opens(s[i], m),
         NEW k \in 1 .. j - 1, i < k
  PROVE  ~Data(s[k])
PROOF
<1> SUFFICES ASSUME Data(s[k]) PROVE FALSE OBVIOUS
<1>a. i \in 1 .. Len(s) /\ k \in 1 .. Len(s) OBVIOUS
<1>b. Data(s[i]) /\ s[i].msg = m /\ s[i].part = 1 BY DEF Opens, Data
<1>c. Precedes(m, 1, s[k].msg, s[k].part) BY <1>a, <1>b DEF InSendOrder
<1>d. Precedes(s[k].msg, s[k].part, m, 2) OBVIOUS
<1>e. s[k] \in FrameSet BY <1>a
<1>f. s[k].msg \in Nat /\ s[k].part \in 0 .. 2 BY <1>e DEF FrameSet
<1> QED BY <1>c, <1>d, <1>f DEF Precedes

\* Where a last fragment lies, or the next one will, and of which message.
EndsAt(j, m) ==
  \/ j \in 1 .. Len(stream) /\ stream[j].op = "continuation" /\ m = stream[j].msg
  \/ j = Len(stream) + 1 /\ between /\ m = message

\* What lies before the end of a message was sent before it.
LEMMA EndIsLast ==
  ASSUME WsInv, NEW j, NEW m, EndsAt(j, m)
  PROVE  /\ j \in Nat \ {0} /\ j <= Len(stream) + 1 /\ m \in Nat
         /\ Joins(stream, j, m, fragment, delivered, surplus)
         /\ \A k \in 1 .. j - 1 :
              Data(stream[k]) => Precedes(stream[k].msg, stream[k].part, m, 2)
PROOF
<1>a. stream \in Seq(FrameSet) /\ message \in Nat /\ Len(stream) \in Nat
  BY DEF WsInv, WsTypes
<1>b. CASE j \in 1 .. Len(stream) /\ stream[j].op = "continuation"
           /\ m = stream[j].msg
  <2>a. stream[j] \in FrameSet /\ SoundFrame(stream[j]) BY <1>a, <1>b DEF WsInv
  <2>b. m \in Nat /\ stream[j].part = 2 /\ Data(stream[j])
    BY <1>b, <2>a DEF FrameSet, SoundFrame, Data
  <2>c. \A k \in 1 .. j - 1 : k \in 1 .. Len(stream) /\ k < j BY <1>a, <1>b
  <2>d. InSendOrder(stream) BY DEF WsInv
  <2>e. \A k \in 1 .. j - 1 :
          Data(stream[k]) => Precedes(stream[k].msg, stream[k].part, m, 2)
    BY <1>b, <2>b, <2>c, <2>d DEF InSendOrder
  <2>f. Joins(stream, j, m, fragment, delivered, surplus)
    BY <1>b DEF WsInv, EndsJoin
  <2> QED BY <1>a, <1>b, <2>b, <2>e, <2>f
<1>c. CASE j = Len(stream) + 1 /\ between /\ m = message
  <2>a. AllSent(stream, message, between) BY DEF WsInv
  <2>b. \A k \in 1 .. j - 1 : k \in 1 .. Len(stream) BY <1>a, <1>c
  <2>c. \A k \in 1 .. j - 1 :
          Data(stream[k]) => Precedes(stream[k].msg, stream[k].part, m, 2)
    BY <1>c, <2>a, <2>b DEF AllSent, Precedes
  <2>d. Joins(stream, j, m, fragment, delivered, surplus) BY <1>c DEF WsInv
  <2> QED BY <1>a, <1>c, <2>c, <2>d
<1> QED BY <1>b, <1>c DEF EndsAt

\* The end of a message when frames went with the handshake: either its
\* beginning is still there or it is the first thing that will be read of it.
LEMMA JoinsAfterHandshake ==
  ASSUME NEW s \in Seq(FrameSet), NEW t, NEW n, Remainder(t, s, n), InSendOrder(s),
         NEW j \in Nat \ {0}, n < j, j <= Len(s) + 1, NEW m \in Nat,
         Joins(s, j, m, <<>>, <<>>, FALSE),
         \A k \in 1 .. j - 1 : Data(s[k]) => Precedes(s[k].msg, s[k].part, m, 2)
  PROVE  Joins(t, j - n, m, <<>>, <<>>, n > 0)
PROOF
<1>a. Len(t) \in Nat /\ n \in Nat /\ Len(s) = Len(t) + n BY DEF Remainder
<1>b. \A i \in 1 .. (j - n) - 1 :
        i + n \in 1 .. j - 1 /\ i + n \in 1 .. Len(s) /\ t[i] = s[i + n]
  <2>a. \A i \in 1 .. (j - n) - 1 :
          i + n \in 1 .. j - 1 /\ i + n \in 1 .. Len(s) /\ i \in 1 .. Len(t)
    BY <1>a
  <2> QED BY <2>a DEF Remainder
<1>c. ~Collected(m, <<>>, <<>>, FALSE) BY DEF Collected
<1>d. PICK i \in 1 .. j - 1 : Opens(s[i], m) BY <1>c DEF Joins
<1>e. CASE i > n
  <2>a. i - n \in 1 .. (j - n) - 1 /\ (i - n) + n = i BY <1>a, <1>e
  <2>b. Opens(t[i - n], m) BY <2>a, <1>b, <1>d
  <2> QED BY <2>a, <2>b DEF Joins
<1>f. CASE i <= n
  <2>a. n > 0 BY <1>a, <1>f
  <2>b. ASSUME NEW k \in 1 .. (j - n) - 1, Data(t[k]) PROVE FALSE
    <3>a. /\ k + n \in 1 .. j - 1 /\ k + n \in 1 .. Len(s) /\ i \in 1 .. Len(s)
          /\ i < k + n /\ Data(s[k + n])
      BY <1>a, <1>b, <1>f, <2>b
    <3>b. ~Data(s[k + n]) BY <1>d, <3>a, NothingBetween
    <3> QED BY <3>a, <3>b
  <2>c. Collected(m, <<>>, <<>>, n > 0) BY <2>a DEF Collected
  <2> QED BY <2>b, <2>c DEF Joins
<1> QED BY <1>a, <1>e, <1>f

\* Reading one frame, and what is left of the invariant for the rest.
LEMMA HeadTaken ==
  ASSUME WsInv, stream # <<>>, stream' = Tail(stream)
  PROVE  /\ Remainder(stream', stream, 1) /\ 1 \in 1 .. Len(stream)
         /\ stream[1] \in FrameSet /\ Head(stream) = stream[1]
         /\ SoundFrame(stream[1])
         /\ InSendOrder(stream') /\ AllSent(stream', message, between)
         /\ \A i \in 1 .. Len(stream') : SoundFrame(stream'[i])
PROOF
<1>a. stream \in Seq(FrameSet) BY DEF WsInv, WsTypes
<1>b. /\ stream' \in Seq(FrameSet) /\ Len(stream) = Len(stream') + 1
      /\ 1 \in 1 .. Len(stream) /\ Head(stream) = stream[1]
      /\ \A i \in 1 .. Len(stream') : stream'[i] = stream[i + 1]
  BY <1>a
<1>c. Remainder(stream', stream, 1) BY <1>b DEF Remainder
<1>d. stream[1] \in FrameSet /\ SoundFrame(stream[1]) BY <1>a, <1>b DEF WsInv
<1>e. InSendOrder(stream) /\ AllSent(stream, message, between)
      /\ \A i \in 1 .. Len(stream) : SoundFrame(stream[i])
  BY DEF WsInv
<1>f. /\ InSendOrder(stream') /\ AllSent(stream', message, between)
      /\ \A i \in 1 .. Len(stream') : SoundFrame(stream'[i])
  BY <1>a, <1>c, <1>e, RestInOrder
<1> QED BY <1>b, <1>c, <1>d, <1>f

\* How much the frames behind the head still need, whatever was the head.
LEMMA EndsAfterHead ==
  ASSUME WsInv, stream # <<>>, stream' = Tail(stream), NEW f, NEW d,
         \A m : Opens(stream[1], m) => f = << <<m, 1>> >>,
         ~Data(stream[1]) => f = fragment /\ d = delivered
  PROVE  /\ EndsJoin(stream', f, d, surplus)
         /\ between => Joins(stream', Len(stream') + 1, message, f, d, surplus)
PROOF
<1>a. /\ Remainder(stream', stream, 1) /\ 1 \in 1 .. Len(stream)
      /\ stream[1] \in FrameSet
  BY HeadTaken
<1>b. stream \in Seq(FrameSet) /\ Len(stream') \in Nat
      /\ Len(stream) = Len(stream') + 1
  BY <1>a DEF WsInv, WsTypes, Remainder
<1>c. ASSUME NEW j \in 1 .. Len(stream') + 1, NEW m, EndsAt(j + 1, m)
      PROVE  Joins(stream', j, m, f, d, surplus)
  <2>a. j + 1 \in Nat \ {0, 1} /\ j + 1 <= Len(stream) + 1 /\ (j + 1) - 1 = j
    BY <1>b
  <2>b. /\ m \in Nat /\ Joins(stream, j + 1, m, fragment, delivered, surplus)
        /\ \A k \in 1 .. j :
             Data(stream[k]) => Precedes(stream[k].msg, stream[k].part, m, 2)
    BY <1>c, <2>a, EndIsLast
  <2>c. /\ Opens(stream[1], m) \/ ~Data(stream[1])
           \/ (\A g, e : Joins(stream', j, m, g, e, surplus))
        /\ ~Data(stream[1]) => Joins(stream', j, m, fragment, delivered, surplus)
    BY <1>a, <1>b, <2>a, <2>b, JoinsAfterHead
  <2>d. CASE ~Data(stream[1]) BY <2>c, <2>d
  <2>e. CASE Data(stream[1]) /\ ~Opens(stream[1], m) BY <2>c, <2>e
  <2>f. CASE Opens(stream[1], m)
    <3>a. f = << <<m, 1>> >> BY <2>f
    <3>b. Collected(m, f, d, surplus) BY <3>a DEF Collected
    <3>c. ASSUME NEW k \in 1 .. j - 1 PROVE ~Data(stream'[k])
      <4>a. /\ 1 \in 1 .. (j + 1) - 1 /\ k + 1 \in 1 .. (j + 1) - 1 /\ 1 < k + 1
            /\ k \in 1 .. Len(stream')
        BY <1>b
      <4>b. InSendOrder(stream) BY DEF WsInv
      <4>c. j + 1 \in Nat /\ j + 1 <= Len(stream) + 1 BY <2>a
      <4>d. ~Data(stream[k + 1])
        BY <1>b, <2>a, <2>b, <2>f, <4>a, <4>b, <4>c, NothingBetween
      <4> QED BY <1>a, <4>a, <4>d DEF Remainder
    <3> QED BY <3>b, <3>c DEF Joins
  <2> QED BY <2>d, <2>e, <2>f
<1>d. ASSUME NEW j \in 1 .. Len(stream'), stream'[j].op = "continuation"
      PROVE  Joins(stream', j, stream'[j].msg, f, d, surplus)
  <2>a. /\ j + 1 \in 1 .. Len(stream) /\ stream'[j] = stream[j + 1]
        /\ j \in 1 .. Len(stream') + 1
    BY <1>a, <1>b DEF Remainder
  <2>b. EndsAt(j + 1, stream'[j].msg) BY <1>d, <2>a DEF EndsAt
  <2> QED BY <1>c, <2>a, <2>b
<1>e. ASSUME between PROVE Joins(stream', Len(stream') + 1, message, f, d, surplus)
  <2>a. EndsAt((Len(stream') + 1) + 1, message) BY <1>b, <1>e DEF EndsAt
  <2> QED BY <1>b, <1>c, <2>a
<1> QED BY <1>d, <1>e DEF EndsJoin

\* What the server may send: nothing of another message comes between the two
\* fragments of one.
LEMMA SentInOrder ==
  ASSUME WsInv, NEW f \in FrameSet, ServerSends(f), SoundFrame(f),
         message' \in Nat, between' \in BOOLEAN,
         Data(f) => f.msg = message, Data(f) /\ between => f.part = 2,
         f.op = "continuation" => between,
         \/ message' = message + 1
         \/ /\ message' = message /\ (between => between')
            /\ Data(f) => f.part = 1 /\ between',
         between' => \/ between /\ ~Data(f) /\ message' = message
                     \/ Opens(f, message')
  PROVE  WsInv'
PROOF
<1>a. /\ stream \in Seq(FrameSet) /\ message \in Nat /\ Len(stream) \in Nat
      /\ stream' = Append(stream, f)
      /\ UNCHANGED <<wsFd, opener, fragment, delivered, surplus>>
  BY DEF WsInv, WsTypes, ServerSends, clientVars
<1>b. /\ stream' \in Seq(FrameSet) /\ Len(stream') = Len(stream) + 1
      /\ stream'[Len(stream) + 1] = f
      /\ \A i \in 1 .. Len(stream) : stream'[i] = stream[i]
      /\ \A i \in 1 .. Len(stream') : i \in 1 .. Len(stream) \/ i = Len(stream) + 1
  BY <1>a
<1>c. WsTypes' BY <1>a, <1>b DEF WsInv, WsTypes
<1>d. \A i \in 1 .. Len(stream') : SoundFrame(stream'[i]) BY <1>b DEF WsInv
<1>e. InSendOrder(stream')
  <2> SUFFICES ASSUME NEW i \in 1 .. Len(stream'), NEW j \in 1 .. Len(stream'),
                      i < j, Data(stream'[i]), Data(stream'[j])
               PROVE  Precedes(stream'[i].msg, stream'[i].part,
                               stream'[j].msg, stream'[j].part)
    BY DEF InSendOrder
  <2>a. i \in 1 .. Len(stream) BY <1>a, <1>b
  <2>b. CASE j \in 1 .. Len(stream)
    BY <1>b, <2>a, <2>b DEF WsInv, InSendOrder
  <2>c. CASE j = Len(stream) + 1
    <3>a. Data(stream[i]) /\ Data(f) BY <1>b, <2>a, <2>c
    <3>b. \/ stream[i].msg < message
          \/ stream[i].msg = message /\ stream[i].part = 1 /\ between
      BY <2>a, <3>a DEF WsInv, AllSent
    <3> QED BY <1>b, <2>a, <2>c, <3>a, <3>b DEF Precedes
  <2> QED BY <1>b, <2>b, <2>c
<1>f. AllSent(stream', message', between')
  <2> SUFFICES ASSUME NEW i \in 1 .. Len(stream'), Data(stream'[i])
               PROVE  \/ stream'[i].msg < message'
                      \/ stream'[i].msg = message' /\ stream'[i].part = 1 /\ between'
    BY DEF AllSent
  <2>a. CASE i \in 1 .. Len(stream)
    <3>a. \/ stream[i].msg < message
          \/ stream[i].msg = message /\ stream[i].part = 1 /\ between
      BY <1>b, <2>a DEF WsInv, AllSent
    <3>b. stream[i] \in FrameSet BY <1>a, <2>a
    <3>c. stream[i].msg \in Nat BY <3>b DEF FrameSet
    <3> QED BY <1>a, <1>b, <2>a, <3>a, <3>c
  <2>b. CASE i = Len(stream) + 1 BY <1>a, <1>b, <2>b
  <2> QED BY <1>b, <2>a, <2>b
<1>g. ASSUME NEW j \in 1 .. Len(stream) + 1, NEW m,
             Joins(stream, j, m, fragment, delivered, surplus)
      PROVE  Joins(stream', j, m, fragment', delivered', surplus')
  <2>a. \A i \in 1 .. j - 1 : i \in 1 .. Len(stream) BY <1>a
  <2> QED BY <1>a, <1>b, <1>g, <2>a DEF Joins
<1>h. EndsJoin(stream', fragment', delivered', surplus')
  <2> SUFFICES ASSUME NEW j \in 1 .. Len(stream'), stream'[j].op = "continuation"
               PROVE  Joins(stream', j, stream'[j].msg, fragment', delivered',
                            surplus')
    BY DEF EndsJoin
  <2>a. j \in 1 .. Len(stream) + 1 BY <1>b
  <2>b. CASE j \in 1 .. Len(stream)
    <3>a. Joins(stream, j, stream[j].msg, fragment, delivered, surplus)
      BY <1>b, <2>b DEF WsInv, EndsJoin
    <3> QED BY <1>b, <1>g, <2>a, <2>b, <3>a
  <2>c. CASE j = Len(stream) + 1
    <3>a. between /\ Data(f) BY <1>b, <2>c DEF Data
    <3>b. Joins(stream, j, message, fragment, delivered, surplus)
      BY <2>c, <3>a DEF WsInv
    <3> QED BY <1>b, <1>g, <2>a, <2>c, <3>a, <3>b
  <2> QED BY <1>b, <2>b, <2>c
<1>i. ASSUME between'
      PROVE  Joins(stream', Len(stream') + 1, message', fragment', delivered',
                   surplus')
  <2>a. (Len(stream') + 1) - 1 = Len(stream) + 1
        /\ Len(stream) + 1 \in 1 .. Len(stream) + 1
    BY <1>a, <1>b
  <2>b. CASE between /\ ~Data(f) /\ message' = message
    <3>a. Joins(stream', Len(stream) + 1, message', fragment', delivered', surplus')
      BY <1>g, <2>a, <2>b DEF WsInv
    <3>b. (Len(stream) + 1) - 1 = Len(stream) BY <1>a
    <3>c. \A i \in 1 .. Len(stream) + 1 : i \in 1 .. Len(stream) \/ i = Len(stream) + 1
      BY <1>a
    <3>d. \A i \in 1 .. Len(stream) : i \in 1 .. Len(stream) + 1 BY <1>a
    <3> HIDE DEF Data
    <3> QED BY <1>b, <2>a, <2>b, <3>a, <3>b, <3>c, <3>d DEF Joins
  <2>c. CASE Opens(f, message') BY <1>b, <2>a, <2>c DEF Joins
  <2> QED BY <1>i, <2>b, <2>c
<1>j. Behind(delivered', stream', message')
  <2>a. delivered \in Seq(Seq(PartSet)) BY DEF WsInv, WsTypes
  <2> SUFFICES ASSUME NEW i \in 1 .. Len(delivered)
               PROVE  /\ delivered[i][1][1] < message'
                      /\ \A j \in 1 .. Len(stream') :
                           Data(stream'[j]) => delivered[i][1][1] < stream'[j].msg
    BY <1>a DEF Behind
  <2>b. /\ delivered[i][1][1] < message
        /\ \A j \in 1 .. Len(stream) :
             Data(stream[j]) => delivered[i][1][1] < stream[j].msg
    BY DEF WsInv, Behind
  <2>c. delivered[i][1][1] \in Nat
    <3>a. DeliveredIsSent BY DEF WsInv
    <3>b. delivered[i] \in Seq(PartSet) BY <2>a
    <3>c. delivered[i] # <<>>
      <4>a. i \in DOMAIN delivered BY <2>a
      <4>b. \/ delivered[i] \in Whole(delivered[i][1][1])
            \/ delivered[i] = << <<delivered[i][1][1], 2>> >>
        BY <3>a, <4>a DEF DeliveredIsSent
      <4> QED BY <4>b DEF Whole
    <3>d. 1 \in 1 .. Len(delivered[i]) BY <3>b, <3>c
    <3>e. delivered[i][1] \in PartSet BY <3>b, <3>d
    <3> QED BY <3>e DEF PartSet
  <2>d. delivered[i][1][1] < message' BY <1>a, <2>b, <2>c
  <2>e. \A j \in 1 .. Len(stream') :
          Data(stream'[j]) => delivered[i][1][1] < stream'[j].msg
    BY <1>b, <2>b
  <2> QED BY <2>d, <2>e
<1>k. DeliveredIsSent' BY <1>a DEF WsInv, DeliveredIsSent, NoFd
<1>l. (opener'.at = "handshake") =>
         (wsFd' = NoFd /\ fragment' = <<>> /\ delivered' = <<>> /\ ~surplus')
  BY <1>a DEF WsInv, NoFd
<1> QED BY <1>c, <1>d, <1>e, <1>f, <1>h, <1>i, <1>j, <1>k, <1>l DEF WsInv

\* A connection that is given up leaves nothing behind.
LEMMA NothingIsLeft ==
  ASSUME NoStream, CloseWsConnection
  PROVE  WsInv'
PROOF
<1>a. /\ stream' = <<>> /\ message' = 1 /\ between' = FALSE /\ delivered' = <<>>
      /\ surplus' = FALSE /\ fragment' = <<>> /\ wsFd' = NoFd
  BY DEF NoStream, CloseWsConnection
<1>b. WsTypes'
  <2>a. <<>> \in Seq(FrameSet) /\ <<>> \in Seq(PartSet) /\ <<>> \in Seq(Seq(PartSet))
    OBVIOUS
  <2>b. 1 \in Nat /\ FALSE \in BOOLEAN OBVIOUS
  <2> QED BY <1>a, <2>a, <2>b DEF WsTypes
<1>c. /\ \A i \in 1 .. Len(stream') : SoundFrame(stream'[i])
      /\ InSendOrder(stream') /\ AllSent(stream', message', between')
      /\ EndsJoin(stream', fragment', delivered', surplus')
      /\ Behind(delivered', stream', message')
  BY <1>a DEF InSendOrder, AllSent, EndsJoin, Behind
<1>d. DeliveredIsSent' BY <1>a DEF DeliveredIsSent
<1>e. NoFd' = NoFd BY DEF NoFd
<1> QED BY <1>a, <1>b, <1>c, <1>d, <1>e DEF WsInv

\* A message whose number is above all that was delivered may be delivered.
LEMMA DeliveredInOrder ==
  ASSUME WsInv, stream # <<>>, stream' = Tail(stream), Data(stream[1]),
         stream[1].part # 1, wsFd # NoFd,
         UNCHANGED <<wsFd, opener, message, between, surplus>>,
         NEW parts \in Seq(PartSet), delivered' = Append(delivered, parts),
         \/ parts \in Whole(stream[1].msg)
         \/ /\ parts = << <<stream[1].msg, 2>> >> /\ delivered = <<>> /\ surplus,
         fragment' \in Seq(PartSet),
         \A m : Opens(stream[1], m) => fragment' = << <<m, 1>> >>
  PROVE  WsInv'
PROOF
<1>a. /\ Remainder(stream', stream, 1) /\ 1 \in 1 .. Len(stream)
      /\ stream[1] \in FrameSet
      /\ InSendOrder(stream') /\ AllSent(stream', message, between)
      /\ \A i \in 1 .. Len(stream') : SoundFrame(stream'[i])
  BY HeadTaken
<1> DEFINE h == stream[1].msg
<1>b. h \in Nat BY <1>a DEF FrameSet
<1>c. parts[1][1] = h
  <2>a. CASE parts = << <<h, 0>> >> BY <2>a
  <2>b. CASE parts = << <<h, 1>>, <<h, 2>> >> BY <2>b
  <2>c. CASE parts = << <<h, 2>> >> BY <2>c
  <2> QED BY <2>a, <2>b, <2>c DEF Whole
<1>d. /\ EndsJoin(stream', fragment', delivered', surplus)
      /\ between => Joins(stream', Len(stream') + 1, message, fragment', delivered',
                          surplus)
  BY EndsAfterHead
<1>e. delivered \in Seq(Seq(PartSet)) BY DEF WsInv, WsTypes
<1>f. /\ delivered' \in Seq(Seq(PartSet)) /\ Len(delivered') = Len(delivered) + 1
      /\ Len(delivered) \in Nat /\ delivered'[Len(delivered) + 1] = parts
      /\ \A i \in 1 .. Len(delivered) : delivered'[i] = delivered[i]
      /\ \A i \in 1 .. Len(delivered') :
           i \in 1 .. Len(delivered) \/ i = Len(delivered) + 1
      /\ DOMAIN delivered' = 1 .. Len(delivered')
      /\ DOMAIN delivered = 1 .. Len(delivered)
  BY <1>e
<1>g. h < message BY <1>a DEF WsInv, AllSent
<1>h. \A j \in 1 .. Len(stream') : Data(stream'[j]) => h < stream'[j].msg
  <2> SUFFICES ASSUME NEW j \in 1 .. Len(stream'), Data(stream'[j])
               PROVE  h < stream'[j].msg
    OBVIOUS
  <2>a. stream \in Seq(FrameSet) /\ stream' \in Seq(FrameSet) BY <1>a DEF WsInv, WsTypes, Remainder
  <2>b. j + 1 \in 1 .. Len(stream) /\ 1 < j + 1 /\ stream'[j] = stream[j + 1]
    BY <1>a, <2>a DEF Remainder
  <2>c. Precedes(stream[1].msg, stream[1].part, stream[j + 1].msg,
                 stream[j + 1].part)
    BY <1>a, <2>b DEF WsInv, InSendOrder
  <2> QED BY <2>b, <2>c DEF Precedes
<1>i. \A i \in 1 .. Len(delivered) : delivered[i][1][1] < h
  BY <1>a DEF WsInv, Behind
<1>j. Behind(delivered', stream', message)
  <2> SUFFICES ASSUME NEW i \in 1 .. Len(delivered')
               PROVE  /\ delivered'[i][1][1] < message
                      /\ \A j \in 1 .. Len(stream') :
                           Data(stream'[j]) => delivered'[i][1][1] < stream'[j].msg
    BY DEF Behind
  <2>a. CASE i = Len(delivered) + 1 BY <1>c, <1>f, <1>g, <1>h, <2>a
  <2>b. CASE i \in 1 .. Len(delivered)
    <3>a. delivered'[i] = delivered[i] BY <1>f, <2>b
    <3>b. delivered[i][1][1] < message BY <2>b DEF WsInv, Behind
    <3>c. \A j \in 1 .. Len(stream') :
            j + 1 \in 1 .. Len(stream) /\ stream'[j] = stream[j + 1]
      <4>a. Len(stream') \in Nat /\ Len(stream) = Len(stream') + 1
        BY <1>a DEF Remainder
      <4> QED BY <1>a, <4>a DEF Remainder
    <3>d. \A j \in 1 .. Len(stream) :
            Data(stream[j]) => delivered[i][1][1] < stream[j].msg
      BY <2>b DEF WsInv, Behind
    <3> QED BY <3>a, <3>b, <3>c, <3>d
  <2> QED BY <1>f, <2>a, <2>b
<1>k. DeliveredIsSent'
  <2> SUFFICES ASSUME NEW i \in 1 .. Len(delivered')
               PROVE  /\ \/ delivered'[i] \in Whole(delivered'[i][1][1])
                         \/ /\ i = 1 /\ surplus
                            /\ delivered'[i] = << <<delivered'[i][1][1], 2>> >>
                      /\ i < Len(delivered') =>
                           delivered'[i][1][1] < delivered'[i + 1][1][1]
    BY <1>f DEF DeliveredIsSent
  <2>a. CASE i = Len(delivered) + 1
    <3>a. delivered'[i] = parts /\ ~(i < Len(delivered')) BY <1>f, <2>a
    <3>b. delivered = <<>> => i = 1 BY <2>a
    <3> QED BY <1>c, <3>a, <3>b
  <2>b. CASE i \in 1 .. Len(delivered)
    <3>a. delivered'[i] = delivered[i] BY <1>f, <2>b
    <3>b. \/ delivered[i] \in Whole(delivered[i][1][1])
          \/ /\ i = 1 /\ surplus
             /\ delivered[i] = << <<delivered[i][1][1], 2>> >>
      BY <1>f, <2>b DEF WsInv, DeliveredIsSent
    <3>c. CASE i < Len(delivered)
      <4>a. i + 1 \in 1 .. Len(delivered) BY <1>f, <3>c
      <4>b. delivered[i][1][1] < delivered[i + 1][1][1]
        BY <1>f, <2>b, <3>c DEF WsInv, DeliveredIsSent
      <4> QED BY <1>f, <3>a, <3>b, <4>a, <4>b
    <3>d. CASE i = Len(delivered)
      <4>a. delivered'[i + 1] = parts BY <1>f, <3>d
      <4> QED BY <1>c, <1>i, <2>b, <3>a, <3>b, <4>a
    <3>e. i < Len(delivered) \/ i = Len(delivered)
      <4>a. Len(delivered) \in Nat BY <1>e
      <4> QED BY <2>b, <4>a
    <3> QED BY <3>c, <3>d, <3>e
  <2> QED BY <1>f, <2>a, <2>b
<1>l. WsTypes' BY <1>a, <1>f DEF WsInv, WsTypes, Remainder
<1>m. opener'.at # "handshake" BY DEF WsInv
<1> QED BY <1>a, <1>d, <1>j, <1>k, <1>l, <1>m DEF WsInv

\* A frame that is only collected or answered.
LEMMA NothingDelivered ==
  ASSUME WsInv, stream # <<>>, stream' = Tail(stream),
         UNCHANGED <<wsFd, opener, message, between, surplus, delivered>>,
         fragment' \in Seq(PartSet),
         \A m : Opens(stream[1], m) => fragment' = << <<m, 1>> >>,
         ~Data(stream[1]) => fragment' = fragment, wsFd # NoFd
  PROVE  WsInv'
PROOF
<1>a. /\ Remainder(stream', stream, 1) /\ 1 \in 1 .. Len(stream)
      /\ InSendOrder(stream') /\ AllSent(stream', message, between)
      /\ \A i \in 1 .. Len(stream') : SoundFrame(stream'[i])
  BY HeadTaken
<1>b. /\ EndsJoin(stream', fragment', delivered, surplus)
      /\ between => Joins(stream', Len(stream') + 1, message, fragment', delivered,
                          surplus)
  BY EndsAfterHead
<1>c. \A j \in 1 .. Len(stream') :
        j + 1 \in 1 .. Len(stream) /\ stream'[j] = stream[j + 1]
  <2>a. Len(stream') \in Nat /\ Len(stream) = Len(stream') + 1
    BY <1>a DEF Remainder
  <2> QED BY <1>a, <2>a DEF Remainder
<1>d. Behind(delivered, stream', message) BY <1>c DEF WsInv, Behind
<1>e. WsTypes' BY <1>a DEF WsInv, WsTypes, Remainder
<1>f. DeliveredIsSent' BY DEF WsInv, DeliveredIsSent, NoFd
<1>g. opener'.at # "handshake" BY DEF WsInv
<1> QED BY <1>a, <1>b, <1>d, <1>e, <1>f, <1>g DEF WsInv

\* What the handshake reads beyond the response is lost to the callback.
LEMMA HandshakeTakesFrames ==
  ASSUME WsInv, NEW thread, ShareDescriptor(thread)
  PROVE  WsInv'
PROOF
<1>a. PICK taken \in 0 .. Len(stream) : ReadWithHeader(taken)
  BY DEF ShareDescriptor
<1>b. /\ opener.at = "handshake" /\ opener' = [ opener EXCEPT !.at = "shared" ]
      /\ opener = [ thread |-> thread, at |-> "handshake" ]
      /\ UNCHANGED <<message, between, delivered>> /\ fragment' = <<>>
  BY DEF ShareDescriptor
<1>c. fragment = <<>> /\ delivered = <<>> /\ surplus = FALSE
  BY <1>b DEF WsInv, WsTypes
<1>d. /\ stream \in Seq(FrameSet) /\ Len(stream) \in Nat /\ taken \in Nat
      /\ stream' = SubSeq(stream, taken + 1, Len(stream))
      /\ surplus' = (taken > 0)
  BY <1>a DEF WsInv, WsTypes, ReadWithHeader
<1>e. Remainder(stream', stream, taken)
  <2>a. taken + 1 \in Int /\ Len(stream) \in Int BY <1>d
  <2>b. \A i \in taken + 1 .. Len(stream) : stream[i] \in FrameSet BY <1>d
  <2>c. /\ stream' \in Seq(FrameSet)
        /\ Len(stream') = IF taken + 1 <= Len(stream)
                          THEN Len(stream) - (taken + 1) + 1 ELSE 0
        /\ \A i \in 1 .. Len(stream) - (taken + 1) + 1 :
             stream'[i] = stream[(taken + 1) + i - 1]
    BY <1>d, <2>a, <2>b, SubSeqProperties
  <2>d. Len(stream') = Len(stream) - taken BY <1>d, <2>c
  <2>e. \A i \in 1 .. Len(stream') : stream'[i] = stream[i + taken]
    BY <1>d, <2>c, <2>d
  <2>f. stream' \in Seq(FrameSet) BY <2>c
  <2>g. taken \in Nat /\ Len(stream) = Len(stream') + taken BY <1>d, <2>d
  <2> QED BY <2>e, <2>f, <2>g DEF Remainder
<1>f. /\ InSendOrder(stream') /\ AllSent(stream', message, between)
      /\ \A i \in 1 .. Len(stream') : SoundFrame(stream'[i])
  <2>a. /\ InSendOrder(stream) /\ AllSent(stream, message, between)
        /\ \A i \in 1 .. Len(stream) : SoundFrame(stream[i])
    BY DEF WsInv
  <2> QED BY <1>d, <1>e, <2>a, RestInOrder
<1>g. Len(stream') \in Nat /\ Len(stream) = Len(stream') + taken
  BY <1>e DEF Remainder
<1>h. ASSUME NEW j \in 1 .. Len(stream') + 1, NEW m, EndsAt(j + taken, m)
      PROVE  Joins(stream', j, m, fragment', delivered', surplus')
  <2>a. /\ j + taken \in Nat \ {0} /\ taken < j + taken /\ (j + taken) - taken = j
        /\ j + taken <= Len(stream) + 1
    BY <1>d, <1>g
  <2>b. /\ m \in Nat /\ Joins(stream, j + taken, m, fragment, delivered, surplus)
        /\ \A k \in 1 .. (j + taken) - 1 :
             Data(stream[k]) => Precedes(stream[k].msg, stream[k].part, m, 2)
    BY <1>h, EndIsLast
  <2>c. InSendOrder(stream) BY DEF WsInv
  <2>d. Joins(stream, j + taken, m, <<>>, <<>>, FALSE) BY <1>c, <2>b
  <2>e. Joins(stream', (j + taken) - taken, m, <<>>, <<>>, taken > 0)
    BY <1>d, <1>e, <2>a, <2>b, <2>c, <2>d, JoinsAfterHandshake
  <2> QED BY <1>b, <1>c, <1>d, <2>a, <2>e
<1>i. EndsJoin(stream', fragment', delivered', surplus')
  <2> SUFFICES ASSUME NEW j \in 1 .. Len(stream'), stream'[j].op = "continuation"
               PROVE  Joins(stream', j, stream'[j].msg, fragment', delivered',
                            surplus')
    BY DEF EndsJoin
  <2>a. /\ j + taken \in 1 .. Len(stream) /\ stream'[j] = stream[j + taken]
        /\ j \in 1 .. Len(stream') + 1
    BY <1>d, <1>e, <1>g DEF Remainder
  <2>b. EndsAt(j + taken, stream'[j].msg) BY <2>a DEF EndsAt
  <2> QED BY <1>h, <2>a, <2>b
<1>j. ASSUME between'
       PROVE  Joins(stream', Len(stream') + 1, message', fragment', delivered',
                    surplus')
  <2>a. (Len(stream') + 1) + taken = Len(stream) + 1 BY <1>g, <1>d
  <2>b. EndsAt((Len(stream') + 1) + taken, message') BY <1>b, <1>j, <2>a DEF EndsAt
  <2>c. Len(stream') + 1 \in 1 .. Len(stream') + 1 BY <1>g
  <2> QED BY <1>h, <2>b, <2>c
<1>k. Behind(delivered', stream', message') /\ DeliveredIsSent'
  BY <1>b, <1>c DEF Behind, DeliveredIsSent
<1>l. WsTypes'
  <2>a. surplus' \in BOOLEAN BY <1>d
  <2>b. stream' \in Seq(FrameSet) BY <1>e DEF Remainder
  <2>c. <<>> \in Seq(PartSet) OBVIOUS
  <2> QED BY <1>b, <2>a, <2>b, <2>c DEF WsInv, WsTypes
<1>m. opener'.at # "handshake" BY <1>b
<1> QED BY <1>b, <1>f, <1>i, <1>j, <1>k, <1>l, <1>m DEF WsInv

\* processWsRxBuffer() keeps the invariant, for every frame.
LEMMA FramesAreTaken ==
  ASSUME WsInv, TakeText \/ TakeContinuation \/ TakeControl
  PROVE  WsInv'
PROOF
<1>a. /\ stream # <<>> /\ stream' = Tail(stream) /\ wsFd # NoFd
      /\ UNCHANGED <<wsFd, opener, message, between, surplus>>
  BY DEF TakeText, TakeContinuation, TakeControl, Readable, Taken
<1>b. /\ 1 \in 1 .. Len(stream) /\ stream[1] \in FrameSet
      /\ Head(stream) = stream[1] /\ SoundFrame(stream[1])
  BY <1>a, HeadTaken
<1> DEFINE m == stream[1].msg
<1>c. /\ m \in Nat /\ stream[1].part \in 0 .. 2 /\ stream[1].fin \in BOOLEAN
      /\ Part(Head(stream)) = <<m, stream[1].part>>
  BY <1>b DEF FrameSet, Part
<1>d. <<m, stream[1].part>> \in PartSet BY <1>c DEF PartSet
<1>e. fragment \in Seq(PartSet) /\ delivered \in Seq(Seq(PartSet))
  BY DEF WsInv, WsTypes
<1>f. CASE TakeText /\ stream[1].fin
  <2>a. /\ stream[1].op = "text" /\ delivered' = Append(delivered, << <<m, 0>> >>)
        /\ fragment' = fragment /\ stream[1].part = 0
    BY <1>b, <1>c, <1>f DEF TakeText, Readable, Deliver, SoundFrame
  <2>b. << <<m, 0>> >> \in Seq(PartSet) BY <1>d, <2>a
  <2>c. Data(stream[1]) /\ \A n : ~Opens(stream[1], n) BY <2>a DEF Data, Opens
  <2>d. << <<m, 0>> >> \in Whole(m) BY DEF Whole
  <2>e. stream[1].part # 1 BY <2>a
  <2> DEFINE parts == << <<m, 0>> >>
  <2>f. /\ parts \in Seq(PartSet) /\ parts \in Whole(stream[1].msg)
        /\ delivered' = Append(delivered, parts) /\ fragment' \in Seq(PartSet)
    BY <1>e, <2>a, <2>b, <2>d
  <2> HIDE DEF parts
  <2> QED BY <1>a, <2>c, <2>e, <2>f, DeliveredInOrder
<1>g. CASE TakeText /\ ~stream[1].fin
  <2>a. /\ stream[1].op = "text" /\ fragment' = << <<m, 1>> >>
        /\ delivered' = delivered /\ stream[1].part = 1
    BY <1>b, <1>c, <1>g DEF TakeText, Readable, SoundFrame
  <2>b. << <<m, 1>> >> \in Seq(PartSet) BY <1>d, <2>a
  <2>c. Data(stream[1]) /\ \A n : Opens(stream[1], n) => n = m
    BY <2>a DEF Data, Opens
  <2> QED BY <1>a, <2>a, <2>b, <2>c, NothingDelivered
<1>h. CASE TakeContinuation
  <2>a. /\ stream[1].op = "continuation" /\ fragment' = <<>>
        /\ delivered' = Append(delivered, Append(fragment, <<m, 2>>))
        /\ stream[1].part = 2
    BY <1>b, <1>c, <1>h DEF TakeContinuation, Readable, Deliver, SoundFrame
  <2>b. Data(stream[1]) /\ \A n : ~Opens(stream[1], n) BY <2>a DEF Data, Opens
  <2>c. Joins(stream, 1, m, fragment, delivered, surplus)
    BY <1>b, <2>a DEF WsInv, EndsJoin
  <2>d. Collected(m, fragment, delivered, surplus) BY <2>c DEF Joins
  <2>e. Append(fragment, <<m, 2>>) \in Seq(PartSet) BY <1>d, <1>e, <2>a
  <2>f. \/ Append(fragment, <<m, 2>>) \in Whole(m)
        \/ /\ Append(fragment, <<m, 2>>) = << <<m, 2>> >> /\ delivered = <<>>
           /\ surplus
    <3>a. CASE fragment = << <<m, 1>> >>
      <4> DEFINE joined == Append(fragment, <<m, 2>>)
                 both == << <<m, 1>>, <<m, 2>> >>
      <4>a. /\ joined \in Seq(PartSet) /\ Len(joined) = 2
            /\ joined[1] = <<m, 1>> /\ joined[2] = <<m, 2>>
        BY <1>d, <1>e, <2>a, <3>a
      <4>b. <<m, 1>> \in PartSet /\ <<m, 2>> \in PartSet BY <1>c DEF PartSet
      <4>c. /\ both \in Seq(PartSet) /\ Len(both) = 2
            /\ both[1] = <<m, 1>> /\ both[2] = <<m, 2>>
        BY <4>b
      <4>d. ASSUME NEW i \in 1 .. 2 PROVE joined[i] = both[i]
        <5>a. i = 1 \/ i = 2 OBVIOUS
        <5> HIDE DEF joined, both
        <5> QED BY <4>a, <4>c, <5>a
      <4> HIDE DEF joined, both
      <4>e. joined = both BY <4>a, <4>c, <4>d, SeqEqual
      <4>f. both \in Whole(m) BY DEF both, Whole
      <4>g. Append(fragment, <<m, 2>>) \in Whole(m) BY <4>e, <4>f DEF joined
      <4> QED BY <4>g
    <3>b. CASE fragment = <<>> /\ delivered = <<>> /\ surplus
      <4>a. Append(fragment, <<m, 2>>) = << <<m, 2>> >> BY <3>b
      <4> QED BY <3>b, <4>a
    <3> QED BY <2>d, <3>a, <3>b DEF Collected
  <2>g. <<>> \in Seq(PartSet) OBVIOUS
  <2>h. stream[1].part # 1 BY <2>a
  <2> QED BY <1>a, <2>a, <2>b, <2>e, <2>f, <2>g, <2>h, DeliveredInOrder
<1>i. CASE TakeControl
  <2>a. /\ stream[1].op \in { "ping", "pong" }
        /\ UNCHANGED <<fragment, delivered>>
    BY <1>b, <1>i DEF TakeControl, Readable
  <2>b. ~Data(stream[1]) /\ \A n : ~Opens(stream[1], n) BY <2>a DEF Data, Opens
  <2> QED BY <1>a, <1>e, <2>a, <2>b, NothingDelivered
<1> QED BY <1>f, <1>g, <1>h, <1>i

\* Every step keeps the invariant.
LEMMA WsInvNext ==
  ASSUME WsInv, [WebSocketNext]_webSocketVars
  PROVE  WsInv'
PROOF
<1>a. message \in Nat /\ between \in BOOLEAN BY DEF WsInv, WsTypes
<1>b. CASE SendMessage
  <2> DEFINE f == Frame("text", TRUE, 0)
  <2>a. /\ f \in FrameSet /\ SoundFrame(f) /\ f.msg = message /\ f.part = 0
        /\ f.op = "text" /\ Data(f)
    BY <1>a DEF FrameSet, SoundFrame, Frame, Data
  <2>b. ~between /\ ServerSends(f) /\ message' = message + 1 /\ between' = between
    BY <1>b DEF SendMessage
  <2> HIDE DEF f
  <2> QED BY <1>a, <2>a, <2>b, SentInOrder
<1>c. CASE SendFirstFragment
  <2> DEFINE f == Frame("text", FALSE, 1)
  <2>a. /\ f \in FrameSet /\ SoundFrame(f) /\ f.msg = message /\ f.part = 1
        /\ f.op = "text" /\ Data(f) /\ Opens(f, message)
    BY <1>a DEF FrameSet, SoundFrame, Frame, Data, Opens
  <2>b. ~between /\ ServerSends(f) /\ message' = message /\ between' = TRUE
    BY <1>c DEF SendFirstFragment
  <2>c. between' /\ between' \in BOOLEAN BY <2>b
  <2> HIDE DEF f
  <2> QED BY <1>a, <2>a, <2>b, <2>c, SentInOrder
<1>d. CASE SendLastFragment
  <2> DEFINE f == Frame("continuation", TRUE, 2)
  <2>a. /\ f \in FrameSet /\ SoundFrame(f) /\ f.msg = message /\ f.part = 2
        /\ Data(f)
    BY <1>a DEF FrameSet, SoundFrame, Frame, Data
  <2>b. between /\ ServerSends(f) /\ message' = message + 1 /\ between' = FALSE
    BY <1>d DEF SendLastFragment
  <2>c. ~between' /\ between' \in BOOLEAN BY <2>b
  <2> HIDE DEF f
  <2> QED BY <1>a, <2>a, <2>b, <2>c, SentInOrder
<1>e. ASSUME NEW op \in { "ping", "pong", "close" }, ServerSends(Frame(op, TRUE, 0)),
             message' = message, between' = between
      PROVE  WsInv'
  <2> DEFINE f == Frame(op, TRUE, 0)
  <2>a. f \in FrameSet /\ SoundFrame(f) /\ ~Data(f) /\ f.op # "continuation"
    BY <1>a DEF FrameSet, SoundFrame, Frame, Data
  <2>b. ServerSends(f) BY <1>e
  <2> HIDE DEF f
  <2> QED BY <1>a, <1>e, <2>a, <2>b, SentInOrder
<1>f. CASE SendControl BY <1>e, <1>f DEF SendControl
<1>g. CASE SendClose BY <1>e, <1>g DEF SendClose
<1>h. ASSUME NEW thread \in { "main", "loop" }, ShareDescriptor(thread)
      PROVE  WsInv'
  BY <1>h, HandshakeTakesFrames
<1>i. ASSUME NEW thread \in { "main", "loop" },
             \/ StartHandshake(thread) \/ ConnectRefused(thread)
             \/ HandshakeFails(thread)
      PROVE  WsInv'
  BY <1>i, NothingIsLeft
     DEF StartHandshake, ConnectRefused, HandshakeFails, GiveUpOpening
<1>j. CASE TakeClose \/ SocketFails \/ HeartbeatTimeout
  BY <1>j, NothingIsLeft DEF TakeClose, SocketFails, HeartbeatTimeout, HandleDisconnect
<1>k. CASE TakeText \/ TakeContinuation \/ TakeControl BY <1>k, FramesAreTaken
<1>l. ASSUME UNCHANGED <<wsFd, fragment, stream, message, between, delivered, surplus>>,
              opener' = opener \/ opener'.at = "idle"
       PROVE  WsInv'
  <2>a. DeliveredIsSent' BY <1>l DEF WsInv, DeliveredIsSent, NoFd
  <2>b. WsTypes' BY <1>l DEF WsInv, WsTypes
  <2>c. (opener'.at = "handshake") =>
          (wsFd' = NoFd /\ fragment' = <<>> /\ delivered' = <<>> /\ ~surplus')
    BY <1>l DEF WsInv
  <2> QED BY <1>l, <2>a, <2>b, <2>c DEF WsInv, NoFd
<1>m. ASSUME NEW thread \in { "main", "loop" }, AnnounceConnected(thread)
       PROVE  WsInv'
  BY <1>l, <1>m DEF AnnounceConnected, Nobody, serverVars
<1>n. CASE RetryDue BY <1>l, <1>n DEF RetryDue, serverVars
<1>q. CASE MainClearsRetry BY <1>l, <1>q DEF MainClearsRetry, serverVars
<1>o. CASE ServerGone BY <1>l, <1>o DEF ServerGone, clientVars
<1>p. CASE UNCHANGED webSocketVars
  BY <1>l, <1>p DEF webSocketVars, serverVars, clientVars
<1> QED
  BY <1>b, <1>c, <1>d, <1>f, <1>g, <1>h, <1>i, <1>j, <1>k, <1>m, <1>n, <1>o,
     <1>p, <1>q
  DEF WebSocketNext

\* Before the first connection nothing has happened.
LEMMA WsInvInit ==
  ASSUME WebSocketInit PROVE WsInv
PROOF
<1>a. <<>> \in Seq(FrameSet) /\ <<>> \in Seq(PartSet) /\ <<>> \in Seq(Seq(PartSet))
  OBVIOUS
<1>b. WsTypes BY <1>a DEF WebSocketInit, WsTypes
<1>c. opener.at = "idle" BY DEF WebSocketInit
<1> QED
  BY <1>b, <1>c DEF WebSocketInit, WsInv, InSendOrder, AllSent, EndsJoin, Behind,
                    DeliveredIsSent

\* What the callback of the web socket gets on a connection are whole messages
\* of that connection, in order, each once, for any number of connections and
\* of frames, whichever thread opens them and however each of them ends.
THEOREM MessagesArriveWhole == WebSocketSpec => []DeliveredIsSent
PROOF
<1>a. WsInv /\ [WebSocketNext]_webSocketVars => WsInv' BY WsInvNext
<1>b. WsInv => DeliveredIsSent BY DEF WsInv
<1> QED BY <1>a, <1>b, WsInvInit, PTL DEF WebSocketSpec
(***************************************************************************)
(* The frames of cTrader.  What is in the buffer and under way is cut into *)
(* the frames not handed up yet: off[i] is where the i-th of them ends.    *)
(***************************************************************************)
ByteSeq == Seq(0 .. ByteBase - 1)

Encodes(rest, s) ==
  \E off \in [ 0 .. Len(rest) -> Nat ] :
    /\ off[0] = 0 /\ off[Len(rest)] = Len(s)
    /\ \A i, j \in 0 .. Len(rest) : (i <= j) => (off[i] <= off[j])
    /\ \A i \in 1 .. Len(rest) :
         /\ off[i] = off[i - 1] + Len(EncodedFrame(rest[i]))
         /\ \A b \in 1 .. Len(EncodedFrame(rest[i])) :
              s[off[i - 1] + b] = EncodedFrame(rest[i])[b]

\* Elements of a sequence of bytes are bytes.
LEMMA BytesOf ==
  ASSUME NEW s \in ByteSeq
  PROVE  \A i \in 1 .. Len(s) : s[i] \in 0 .. ByteBase - 1
BY ElementOfSeq DEF ByteSeq

\* Bytes put together are the same bytes however they are grouped.
LEMMA BytesTogether ==
  ASSUME NEW s \in ByteSeq, NEW t \in ByteSeq, NEW u \in ByteSeq
  PROVE  (s \o t) \o u = s \o (t \o u)
BY ConcatAssociative DEF ByteSeq

\* Two digits of base B tell a length below B * B.
LEMMA HeaderTellsLength ==
  ASSUME NEW B \in Nat \ {0}, NEW L \in Nat, L < B * B
  PROVE  /\ L \div B \in 0 .. B - 1 /\ L % B \in 0 .. B - 1
         /\ (L \div B) * B + (L % B) = L
PROOF
<1>a. L % B \in 0 .. B - 1 /\ L \div B \in Nat OBVIOUS
<1>b. (L \div B) * B + (L % B) = L OBVIOUS
<1>c. L \div B < B
  <2> SUFFICES ASSUME L \div B >= B PROVE FALSE BY <1>a
  <2>a. (L \div B) * B >= B * B BY <1>a
  <2> QED BY <1>a, <1>b, <2>a
<1> QED BY <1>a, <1>b, <1>c

\* A frame on the wire: two bytes of length, then the payload.
LEMMA FrameOnTheWire ==
  ASSUME NEW p \in FramePayloads
  PROVE  /\ p \in ByteSeq /\ Len(p) \in Nat
         /\ EncodedFrame(p) \in ByteSeq /\ Len(EncodedFrame(p)) = Len(p) + 2
         /\ EncodedFrame(p)[1] * ByteBase + EncodedFrame(p)[2] = Len(p)
         /\ \A i \in 1 .. Len(p) : EncodedFrame(p)[i + 2] = p[i]
PROOF
<1>a. /\ ByteBase \in Nat \ {0} /\ p \in ByteSeq /\ Len(p) \in Nat
      /\ Len(p) < ByteBase * ByteBase
  BY FrameAssumption DEF ByteSeq
<1> DEFINE q == Len(p) \div ByteBase
           r == Len(p) % ByteBase
           h == << q, r >>
<1>b. /\ q \in 0 .. ByteBase - 1 /\ r \in 0 .. ByteBase - 1
      /\ q * ByteBase + r = Len(p)
  BY <1>a, HeaderTellsLength
<1> HIDE DEF q, r
<1>c. h \in ByteSeq /\ Len(h) = 2 /\ h[1] = q /\ h[2] = r BY <1>b DEF ByteSeq
<1>d. EncodedFrame(p) = h \o p BY DEF EncodedFrame, q, r
<1> HIDE DEF h
<1>e. /\ h \o p \in ByteSeq /\ Len(h \o p) = 2 + Len(p)
      /\ \A i \in 1 .. 2 + Len(p) : (h \o p)[i] = IF i <= 2 THEN h[i] ELSE p[i - 2]
  <2>a. /\ h \o p \in ByteSeq /\ Len(h \o p) = Len(h) + Len(p)
        /\ \A i \in 1 .. Len(h) + Len(p) :
             (h \o p)[i] = IF i <= Len(h) THEN h[i] ELSE p[i - Len(h)]
    BY <1>a, <1>c, ConcatProperties DEF ByteSeq
  <2> QED BY <1>c, <2>a
<1>f. 1 \in 1 .. 2 + Len(p) /\ 2 \in 1 .. 2 + Len(p) BY <1>a
<1>g. (h \o p)[1] = q /\ (h \o p)[2] = r BY <1>c, <1>e, <1>f
<1>h. ASSUME NEW i \in 1 .. Len(p) PROVE (h \o p)[i + 2] = p[i]
  <2>a. i + 2 \in 1 .. 2 + Len(p) /\ ~(i + 2 <= 2) /\ (i + 2) - 2 = i BY <1>a
  <2> QED BY <1>e, <2>a
<1>i. Len(h \o p) = Len(p) + 2 BY <1>a, <1>e
<1> QED BY <1>a, <1>b, <1>d, <1>e, <1>g, <1>h, <1>i

\* No frame, no bytes.
LEMMA EncodesNone ==
  Encodes(<<>>, <<>>)
PROOF
<1> DEFINE off == [ i \in 0 .. 0 |-> 0 ]
<1>a. off \in [ 0 .. Len(<<>>) -> Nat ] /\ Len(<<>>) = 0 OBVIOUS
<1>b. off[0] = 0 OBVIOUS
<1>c. \A i, j \in 0 .. Len(<<>>) : (i <= j) => (off[i] <= off[j]) BY <1>a
<1> HIDE DEF off
<1> QED BY <1>a, <1>b, <1>c DEF Encodes

\* One more frame is sent.
LEMMA EncodesOneMore ==
  ASSUME NEW rest \in Seq(FramePayloads), NEW s \in ByteSeq, Encodes(rest, s),
         NEW p \in FramePayloads
  PROVE  Encodes(Append(rest, p), s \o EncodedFrame(p))
PROOF
<1> DEFINE n == Len(rest)
           e == EncodedFrame(p)
           more == Append(rest, p)
           t == s \o e
<1>a. PICK off \in [ 0 .. n -> Nat ] :
        /\ off[0] = 0 /\ off[n] = Len(s)
        /\ \A i, j \in 0 .. n : (i <= j) => (off[i] <= off[j])
        /\ \A i \in 1 .. n :
             /\ off[i] = off[i - 1] + Len(EncodedFrame(rest[i]))
             /\ \A b \in 1 .. Len(EncodedFrame(rest[i])) :
                  s[off[i - 1] + b] = EncodedFrame(rest[i])[b]
  BY DEF Encodes
<1>b. n \in Nat /\ Len(s) \in Nat BY DEF ByteSeq
<1>c. e \in ByteSeq /\ Len(e) \in Nat BY FrameOnTheWire DEF ByteSeq
<1> HIDE DEF e
<1>d. /\ t \in ByteSeq /\ Len(t) = Len(s) + Len(e)
      /\ \A b \in 1 .. Len(s) + Len(e) :
           t[b] = IF b <= Len(s) THEN s[b] ELSE e[b - Len(s)]
  BY <1>c, ConcatProperties DEF ByteSeq
<1> HIDE DEF t
<1>e. /\ Len(more) = n + 1 /\ more[n + 1] = p
      /\ \A i \in 1 .. n : more[i] = rest[i]
  OBVIOUS
<1> HIDE DEF more
<1> DEFINE cut == [ i \in 0 .. n + 1 |-> IF i = n + 1 THEN Len(t) ELSE off[i] ]
<1>f. \A i \in 0 .. n + 1 : i \in 0 .. n \/ i = n + 1 BY <1>b
<1>g. cut \in [ 0 .. n + 1 -> Nat ]
  BY <1>a, <1>b, <1>c, <1>d, <1>f
<1>h. cut[n + 1] = Len(t) /\ \A i \in 0 .. n : cut[i] = off[i] BY <1>b
<1> HIDE DEF cut
<1>i. cut[0] = 0 BY <1>a, <1>b, <1>h
<1>j. \A i \in 0 .. n : off[i] \in Nat /\ off[i] <= Len(s)
  BY <1>a, <1>b
<1>k. ASSUME NEW i \in 0 .. n + 1, NEW j \in 0 .. n + 1, i <= j
       PROVE  cut[i] <= cut[j]
  <2>a. CASE j \in 0 .. n
    <3>a. i \in 0 .. n BY <1>b, <1>k, <2>a
    <3> QED BY <1>a, <1>h, <1>k, <2>a, <3>a
  <2>b. CASE j = n + 1
    <3>a. cut[i] <= Len(t) BY <1>b, <1>c, <1>d, <1>f, <1>h, <1>j
    <3> QED BY <1>h, <2>b, <3>a
  <2> QED BY <1>f, <2>a, <2>b
<1>l. ASSUME NEW i \in 1 .. n + 1
       PROVE  /\ cut[i] = cut[i - 1] + Len(EncodedFrame(more[i]))
              /\ \A b \in 1 .. Len(EncodedFrame(more[i])) :
                   t[cut[i - 1] + b] = EncodedFrame(more[i])[b]
  <2>a. CASE i = n + 1
    <3>a. cut[i - 1] = Len(s) /\ cut[i] = Len(t) /\ EncodedFrame(more[i]) = e
      <4>a. i - 1 = n /\ n \in 0 .. n BY <1>b, <2>a
      <4> QED BY <1>a, <1>e, <1>h, <2>a, <4>a DEF e
    <3>b. ASSUME NEW b \in 1 .. Len(e) PROVE t[Len(s) + b] = e[b]
      <4>a. /\ Len(s) + b \in 1 .. Len(s) + Len(e) /\ ~(Len(s) + b <= Len(s))
            /\ (Len(s) + b) - Len(s) = b
        BY <1>b, <1>c
      <4> QED BY <1>d, <4>a
    <3> QED BY <1>d, <3>a, <3>b
  <2>b. CASE i \in 1 .. n
    <3>a. i \in 0 .. n /\ i - 1 \in 0 .. n BY <1>b, <2>b
    <3>b. /\ cut[i] = off[i] /\ cut[i - 1] = off[i - 1] /\ more[i] = rest[i]
          /\ off[i] = off[i - 1] + Len(EncodedFrame(rest[i]))
      BY <1>a, <1>e, <1>h, <2>b, <3>a
    <3>c. rest[i] \in FramePayloads BY <2>b
    <3>d. Len(EncodedFrame(rest[i])) \in Nat
      BY <3>c, FrameOnTheWire
    <3>e. ASSUME NEW b \in 1 .. Len(EncodedFrame(rest[i]))
          PROVE  t[off[i - 1] + b] = EncodedFrame(rest[i])[b]
      <4>a. off[i - 1] + b \in 1 .. Len(s)
        BY <1>b, <1>j, <3>a, <3>b, <3>d
      <4>b. off[i - 1] + b \in 1 .. Len(s) + Len(e) /\ off[i - 1] + b <= Len(s)
        BY <1>b, <1>c, <4>a
      <4>c. t[off[i - 1] + b] = s[off[i - 1] + b] BY <1>d, <4>b
      <4> QED BY <1>a, <2>b, <4>c
    <3> QED BY <3>b, <3>e
  <2>c. i \in 1 .. n \/ i = n + 1 BY <1>b
  <2> QED BY <2>a, <2>b, <2>c
<1>m. Encodes(more, t)
  <2>a. cut[Len(more)] = Len(t) BY <1>e, <1>h
  <2>b. \A i, j \in 0 .. Len(more) : (i <= j) => (cut[i] <= cut[j]) BY <1>e, <1>k
  <2>c. \A i \in 1 .. Len(more) :
          /\ cut[i] = cut[i - 1] + Len(EncodedFrame(more[i]))
          /\ \A b \in 1 .. Len(EncodedFrame(more[i])) :
               t[cut[i - 1] + b] = EncodedFrame(more[i])[b]
    BY <1>e, <1>l
  <2>d. cut \in [ 0 .. Len(more) -> Nat ] BY <1>e, <1>g
  <2> QED BY <1>i, <2>a, <2>b, <2>c, <2>d DEF Encodes
<1> QED BY <1>m DEF more, t, e

\* What is read next is the frame that was sent next.
LEMMA EncodesFirst ==
  ASSUME NEW rest \in Seq(FramePayloads), NEW s \in ByteSeq, Encodes(rest, s)
  PROVE  /\ rest = <<>> <=> s = <<>>
         /\ rest # <<>> =>
              /\ rest[1] \in FramePayloads
              /\ Len(rest[1]) + 2 <= Len(s)
              /\ s[1] * ByteBase + s[2] = Len(rest[1])
              /\ \A i \in 1 .. Len(rest[1]) : s[i + 2] = rest[1][i]
PROOF
<1>a. PICK off \in [ 0 .. Len(rest) -> Nat ] :
        /\ off[0] = 0 /\ off[Len(rest)] = Len(s)
        /\ \A i, j \in 0 .. Len(rest) : (i <= j) => (off[i] <= off[j])
        /\ \A i \in 1 .. Len(rest) :
             /\ off[i] = off[i - 1] + Len(EncodedFrame(rest[i]))
             /\ \A b \in 1 .. Len(EncodedFrame(rest[i])) :
                  s[off[i - 1] + b] = EncodedFrame(rest[i])[b]
  BY DEF Encodes
<1>b. CASE rest = <<>>
  <2>a. Len(rest) = 0 BY <1>b
  <2>b. Len(s) = 0 BY <1>a, <2>a
  <2>c. s = <<>> BY <2>b, EmptySeq DEF ByteSeq
  <2> QED BY <1>b, <2>c
<1>c. CASE rest # <<>>
  <2>a. 1 \in 1 .. Len(rest) /\ 1 - 1 = 0 /\ Len(rest) \in Nat BY <1>c
  <2>b. rest[1] \in FramePayloads BY <2>a
  <2> DEFINE p == rest[1]
             e == EncodedFrame(p)
  <2>c. /\ Len(p) \in Nat /\ Len(e) = Len(p) + 2
        /\ e[1] * ByteBase + e[2] = Len(p)
        /\ \A i \in 1 .. Len(p) : e[i + 2] = p[i]
    BY <2>b, FrameOnTheWire
  <2>d. off[1] = 0 + Len(e) /\ \A b \in 1 .. Len(e) : s[0 + b] = e[b]
    <3>a. /\ off[1] = off[1 - 1] + Len(EncodedFrame(rest[1]))
          /\ \A b \in 1 .. Len(EncodedFrame(rest[1])) :
               s[off[1 - 1] + b] = EncodedFrame(rest[1])[b]
      BY <1>a, <2>a
    <3>b. off[1 - 1] = 0 BY <1>a
    <3> QED BY <3>a, <3>b
  <2> HIDE DEF e
  <2>e. /\ 1 \in 0 .. Len(rest) /\ Len(rest) \in 0 .. Len(rest) /\ 1 <= Len(rest)
    BY <2>a
  <2>f. off[1] <= Len(s) BY <1>a, <2>e
  <2> HIDE DEF p
  <2>g. Len(p) + 2 <= Len(s) BY <2>c, <2>d, <2>f
  <2>h. \A b \in 1 .. Len(e) : 0 + b = b BY <2>c
  <2>i. \A b \in 1 .. Len(e) : s[b] = e[b] BY <2>d, <2>h
  <2>j. 1 \in 1 .. Len(e) /\ 2 \in 1 .. Len(e) BY <2>c
  <2>k. s[1] * ByteBase + s[2] = Len(p) BY <2>c, <2>i, <2>j
  <2>l. ASSUME NEW i \in 1 .. Len(p) PROVE s[i + 2] = p[i]
    <3>a. i + 2 \in 1 .. Len(e) BY <2>c
    <3> QED BY <2>c, <2>i, <3>a
  <2>m. s # <<>>
    <3>a. Len(s) # 0 BY <2>c, <2>g DEF ByteSeq
    <3> QED BY <3>a
  <2> QED BY <1>c, <2>b, <2>g, <2>k, <2>l, <2>m DEF p
<1> QED BY <1>b, <1>c

\* A frame handed up takes its bytes with it, and no other.
LEMMA EncodesTail ==
  ASSUME NEW rest \in Seq(FramePayloads), NEW s \in ByteSeq, Encodes(rest, s),
         rest # <<>>
  PROVE  Encodes(Tail(rest), SubSeq(s, Len(rest[1]) + 3, Len(s)))
PROOF
<1> DEFINE n == Len(rest)
           less == Tail(rest)
           d == Len(rest[1]) + 2
           t == SubSeq(s, Len(rest[1]) + 3, Len(s))
<1>a. PICK off \in [ 0 .. n -> Nat ] :
        /\ off[0] = 0 /\ off[n] = Len(s)
        /\ \A i, j \in 0 .. n : (i <= j) => (off[i] <= off[j])
        /\ \A i \in 1 .. n :
             /\ off[i] = off[i - 1] + Len(EncodedFrame(rest[i]))
             /\ \A b \in 1 .. Len(EncodedFrame(rest[i])) :
                  s[off[i - 1] + b] = EncodedFrame(rest[i])[b]
  BY DEF Encodes
<1>b. n \in Nat /\ 1 \in 1 .. n /\ 1 - 1 = 0 /\ Len(s) \in Nat BY DEF ByteSeq
<1>c. rest[1] \in FramePayloads BY <1>b
<1>d. Len(rest[1]) \in Nat /\ Len(EncodedFrame(rest[1])) = Len(rest[1]) + 2
  BY <1>c, FrameOnTheWire
<1>e. d \in Nat /\ off[1] = d /\ d <= Len(s) /\ Len(rest[1]) + 3 = d + 1
  <2>a. off[1] = 0 + Len(EncodedFrame(rest[1])) BY <1>a, <1>b
  <2>b. 1 \in 0 .. n /\ n \in 0 .. n /\ 1 <= n BY <1>b
  <2>c. off[1] <= Len(s) BY <1>a, <2>b
  <2> QED BY <1>d, <2>a, <2>c
<1> HIDE DEF d
<1>f. /\ t \in ByteSeq /\ Len(t) = Len(s) - d
      /\ \A b \in 1 .. Len(s) - d : t[b] = s[d + b]
  <2>a. t = SubSeq(s, d + 1, Len(s)) BY <1>e
  <2> HIDE DEF t
  <2>b. d + 1 \in Int /\ Len(s) \in Int BY <1>b, <1>e
  <2>c. \A i \in d + 1 .. Len(s) : s[i] \in 0 .. ByteBase - 1
    <3>a. \A i \in d + 1 .. Len(s) : i \in 1 .. Len(s) BY <1>b, <1>e
    <3>b. \A i \in 1 .. Len(s) : s[i] \in 0 .. ByteBase - 1 BY BytesOf
    <3> QED BY <3>a, <3>b
  <2>d. /\ t \in ByteSeq
        /\ Len(t) = IF d + 1 <= Len(s) THEN Len(s) - (d + 1) + 1 ELSE 0
        /\ \A i \in 1 .. Len(s) - (d + 1) + 1 : t[i] = s[(d + 1) + i - 1]
    BY <2>a, <2>b, <2>c, SubSeqProperties DEF ByteSeq
  <2>e. Len(t) = Len(s) - d BY <1>b, <1>e, <2>d
  <2>f. \A i \in 1 .. Len(s) - d :
          i \in 1 .. Len(s) - (d + 1) + 1 /\ (d + 1) + i - 1 = d + i
    BY <1>b, <1>e
  <2> QED BY <2>d, <2>e, <2>f
<1> HIDE DEF t
<1>g. /\ less \in Seq(FramePayloads) /\ Len(less) = n - 1 /\ n - 1 \in Nat
      /\ \A i \in 1 .. n - 1 : less[i] = rest[i + 1]
  BY <1>b
<1> HIDE DEF less
<1> DEFINE cut == [ i \in 0 .. n - 1 |-> off[i + 1] - d ]
<1>h. ASSUME NEW i \in 0 .. n - 1
      PROVE  i + 1 \in 0 .. n /\ off[i + 1] \in Nat /\ d <= off[i + 1]
             /\ off[i + 1] <= Len(s)
  <2>a. i + 1 \in 0 .. n /\ 1 \in 0 .. n /\ 1 <= i + 1 /\ n \in 0 .. n /\ i + 1 <= n
    BY <1>b
  <2> QED BY <1>a, <1>e, <2>a
<1>i. \A i \in 0 .. n - 1 : cut[i] = off[i + 1] - d OBVIOUS
<1>j. cut \in [ 0 .. n - 1 -> Nat ] BY <1>e, <1>h
<1> HIDE DEF cut
<1>k. cut[0] = 0 /\ cut[n - 1] = Len(t)
  <2>a. 0 \in 0 .. n - 1 /\ n - 1 \in 0 .. n - 1 /\ 0 + 1 = 1 /\ (n - 1) + 1 = n
    BY <1>b
  <2>b. cut[0] = d - d BY <1>e, <1>i, <2>a
  <2>c. cut[n - 1] = Len(s) - d BY <1>a, <1>i, <2>a
  <2> QED BY <1>e, <1>f, <2>b, <2>c
<1>l. ASSUME NEW i \in 0 .. n - 1, NEW j \in 0 .. n - 1, i <= j
       PROVE  cut[i] <= cut[j]
  <2>a. off[i + 1] <= off[j + 1]
    <3>a. i + 1 <= j + 1 BY <1>l
    <3> QED BY <1>a, <1>h, <3>a
  <2> QED BY <1>e, <1>h, <1>i, <2>a
<1>m. ASSUME NEW i \in 1 .. n - 1
       PROVE  /\ cut[i] = cut[i - 1] + Len(EncodedFrame(less[i]))
              /\ \A b \in 1 .. Len(EncodedFrame(less[i])) :
                   t[cut[i - 1] + b] = EncodedFrame(less[i])[b]
  <2>a. /\ i \in 0 .. n - 1 /\ i - 1 \in 0 .. n - 1 /\ (i - 1) + 1 = i
        /\ i + 1 \in 1 .. n /\ (i + 1) - 1 = i
    BY <1>b
  <2>b. /\ cut[i] = off[i + 1] - d /\ cut[i - 1] = off[i] - d
        /\ off[i] \in Nat /\ d <= off[i] /\ off[i + 1] \in Nat
        /\ off[i + 1] <= Len(s)
    BY <1>h, <1>i, <2>a
  <2>c. less[i] = rest[i + 1] BY <1>g
  <2> DEFINE e == EncodedFrame(rest[i + 1])
  <2>d. rest[i + 1] \in FramePayloads BY <2>a
  <2>e. Len(e) \in Nat BY <2>d, FrameOnTheWire
  <2>f. /\ off[i + 1] = off[i] + Len(e)
        /\ \A b \in 1 .. Len(e) : s[off[i] + b] = e[b]
    BY <1>a, <2>a
  <2> HIDE DEF e
  <2>g. cut[i] = cut[i - 1] + Len(e) BY <1>e, <2>b, <2>e, <2>f
  <2>h. ASSUME NEW b \in 1 .. Len(e) PROVE t[cut[i - 1] + b] = e[b]
    <3>a. b \in Nat /\ 1 <= b /\ b <= Len(e) BY <2>e
    <3>b. off[i] + b <= Len(s) BY <1>b, <2>b, <2>e, <2>f, <3>a
    <3>c. d + (cut[i - 1] + b) = off[i] + b BY <1>e, <2>b, <3>a
    <3>d. cut[i - 1] \in Nat BY <1>e, <2>b
    <3>e. cut[i - 1] + b \in 1 .. Len(s) - d BY <1>b, <1>e, <3>a, <3>b, <3>c, <3>d
    <3> QED BY <1>f, <2>f, <3>c, <3>e
  <2> QED BY <2>c, <2>g, <2>h DEF e
<1>n. Encodes(less, t)
  <2>a. cut[Len(less)] = Len(t) BY <1>g, <1>k
  <2>b. \A i, j \in 0 .. Len(less) : (i <= j) => (cut[i] <= cut[j]) BY <1>g, <1>l
  <2>c. \A i \in 1 .. Len(less) :
          /\ cut[i] = cut[i - 1] + Len(EncodedFrame(less[i]))
          /\ \A b \in 1 .. Len(EncodedFrame(less[i])) :
               t[cut[i - 1] + b] = EncodedFrame(less[i])[b]
    BY <1>g, <1>m
  <2>d. cut \in [ 0 .. Len(less) -> Nat ] BY <1>g, <1>j
  <2> QED BY <1>k, <2>a, <2>b, <2>c, <2>d DEF Encodes
<1> QED BY <1>n DEF less, t

\* Cut into frames is the same as put together from them: FlattenSeq() adds
\* them up one after the other, and agrees with the cuts at each.
LEMMA EncodesFlat ==
  ASSUME NEW rest \in Seq(FramePayloads), NEW s \in ByteSeq, Encodes(rest, s)
  PROVE  s = FlattenSeq([ i \in DOMAIN rest |-> EncodedFrame(rest[i]) ])
PROOF
<1> DEFINE n == Len(rest)
           parts == [ i \in DOMAIN rest |-> EncodedFrame(rest[i]) ]
<1>a. PICK off \in [ 0 .. n -> Nat ] :
        /\ off[0] = 0 /\ off[n] = Len(s)
        /\ \A i, j \in 0 .. n : (i <= j) => (off[i] <= off[j])
        /\ \A i \in 1 .. n :
             /\ off[i] = off[i - 1] + Len(EncodedFrame(rest[i]))
             /\ \A b \in 1 .. Len(EncodedFrame(rest[i])) :
                  s[off[i - 1] + b] = EncodedFrame(rest[i])[b]
  BY DEF Encodes
<1>b. n \in Nat /\ Len(s) \in Nat /\ DOMAIN rest = 1 .. n BY DEF ByteSeq
<1>c. /\ parts \in Seq(ByteSeq) /\ Len(parts) = n
      /\ \A i \in 1 .. n : parts[i] = EncodedFrame(rest[i])
  <2>a. \A i \in 1 .. n : EncodedFrame(rest[i]) \in ByteSeq
    <3>a. \A i \in 1 .. n : rest[i] \in FramePayloads OBVIOUS
    <3> QED BY <3>a, FrameOnTheWire
  <2>b. parts = [ i \in 1 .. n |-> EncodedFrame(rest[i]) ] BY <1>b
  <2> QED BY <1>b, <2>a, <2>b
<1> HIDE DEF parts
<1>d. CASE n = 0
  <2>a. s = <<>> BY <1>a, <1>b, <1>d, EmptySeq DEF ByteSeq
  <2>b. parts = <<>> BY <1>c, <1>d, EmptySeq
  <2>c. FlattenSeq(parts) = parts BY <1>c, <1>d DEF FlattenSeq
  <2> QED BY <2>a, <2>b, <2>c DEF parts
<1>e. CASE n # 0
  <2> DEFINE w == [ i \in 1 .. n |-> SubSeq(s, 1, off[i]) ]
  <2>a. \A i \in 0 .. n : off[i] \in Nat /\ off[i] <= Len(s) BY <1>a, <1>b
  <2>b. ASSUME NEW i \in 0 .. n
        PROVE  /\ SubSeq(s, 1, off[i]) \in ByteSeq
               /\ Len(SubSeq(s, 1, off[i])) = off[i]
               /\ \A b \in 1 .. off[i] : SubSeq(s, 1, off[i])[b] = s[b]
    <3> DEFINE m == off[i]
    <3>a. m \in Nat /\ m <= Len(s) BY <2>a
    <3> HIDE DEF m
    <3>b. \A b \in 1 .. m : s[b] \in 0 .. ByteBase - 1
      <4>a. \A b \in 1 .. m : b \in 1 .. Len(s) BY <1>b, <3>a
      <4> QED BY <4>a DEF ByteSeq
    <3>c. /\ SubSeq(s, 1, m) \in ByteSeq
          /\ Len(SubSeq(s, 1, m)) = IF 1 <= m THEN m - 1 + 1 ELSE 0
          /\ \A b \in 1 .. m - 1 + 1 : SubSeq(s, 1, m)[b] = s[1 + b - 1]
      BY <3>a, <3>b, SubSeqProperties DEF ByteSeq
    <3>d. Len(SubSeq(s, 1, m)) = m BY <3>a, <3>c
    <3>e. \A b \in 1 .. m : b \in 1 .. m - 1 + 1 /\ 1 + b - 1 = b BY <3>a
    <3> QED BY <3>c, <3>d, <3>e DEF m
  <2>c. ASSUME NEW i \in 1 .. n
        PROVE  SubSeq(s, 1, off[i]) = SubSeq(s, 1, off[i - 1]) \o parts[i]
    <3> DEFINE a == SubSeq(s, 1, off[i - 1])
               c == SubSeq(s, 1, off[i])
               e == parts[i]
               k == off[i - 1]
    <3>a. i - 1 \in 0 .. n /\ i \in 0 .. n BY <1>b
    <3>b. e = EncodedFrame(rest[i]) /\ e \in ByteSeq /\ Len(e) \in Nat
      BY <1>c DEF ByteSeq
    <3>c. /\ off[i] = k + Len(e)
          /\ \A b \in 1 .. Len(e) : s[k + b] = e[b]
      BY <1>a, <3>b
    <3>d. /\ a \in ByteSeq /\ Len(a) = k /\ k \in Nat
          /\ \A b \in 1 .. k : a[b] = s[b]
      BY <2>a, <2>b, <3>a
    <3>e. /\ c \in ByteSeq /\ Len(c) = k + Len(e)
          /\ \A b \in 1 .. k + Len(e) : c[b] = s[b]
      BY <2>b, <3>a, <3>c
    <3> HIDE DEF a, c, e, k
    <3>f. /\ a \o e \in ByteSeq /\ Len(a \o e) = k + Len(e)
          /\ \A b \in 1 .. k + Len(e) :
               (a \o e)[b] = IF b <= k THEN a[b] ELSE e[b - k]
      <4>a. /\ a \o e \in ByteSeq /\ Len(a \o e) = Len(a) + Len(e)
            /\ \A b \in 1 .. Len(a) + Len(e) :
                 (a \o e)[b] = IF b <= Len(a) THEN a[b] ELSE e[b - Len(a)]
        BY <3>b, <3>d, ConcatProperties DEF ByteSeq
      <4> QED BY <3>d, <4>a
    <3>g. ASSUME NEW b \in 1 .. k + Len(e) PROVE c[b] = (a \o e)[b]
      <4>a. CASE b <= k
        <5>a. b \in 1 .. k BY <3>b, <3>d, <4>a
        <5> QED BY <3>d, <3>e, <3>f, <4>a, <5>a
      <4>b. CASE ~(b <= k)
        <5>a. b - k \in 1 .. Len(e) /\ k + (b - k) = b BY <3>b, <3>d, <4>b
        <5>b. s[b] = e[b - k] BY <3>c, <5>a
        <5> QED BY <3>e, <3>f, <4>b, <5>b
      <4> QED BY <4>a, <4>b
    <3>h. c = a \o e BY <3>e, <3>f, <3>g, SeqEqual DEF ByteSeq
    <3> QED BY <3>h DEF a, c, e
  <2>d. \A i \in 1 .. n : w[i] = IF i = 1 THEN parts[i] ELSE w[i - 1] \o parts[i]
    <3> SUFFICES ASSUME NEW i \in 1 .. n
                 PROVE  w[i] = IF i = 1 THEN parts[i] ELSE w[i - 1] \o parts[i]
      OBVIOUS
    <3>a. w[i] = SubSeq(s, 1, off[i - 1]) \o parts[i] BY <2>c
    <3>b. CASE i = 1
      <4>a. off[i - 1] = 0 BY <1>a, <3>b
      <4>b. SubSeq(s, 1, off[i - 1]) = <<>> BY <4>a, SubSeqEmpty
      <4>c. parts[i] \in ByteSeq BY <1>c
      <4> QED BY <3>a, <3>b, <4>b, <4>c, ConcatEmptySeq DEF ByteSeq
    <3>c. CASE i # 1
      <4>a. i - 1 \in 1 .. n BY <1>b, <3>c
      <4>b. w[i - 1] = SubSeq(s, 1, off[i - 1]) BY <4>a
      <4> QED BY <3>a, <3>c, <4>b
    <3> QED BY <3>b, <3>c
  <2>e. w[n] = s
    <3>a. n \in 1 .. n BY <1>b, <1>e
    <3>b. w[n] = SubSeq(s, 1, Len(s)) BY <1>a, <3>a
    <3> QED BY <3>b, SubSeqFull DEF ByteSeq
  <2>f. DOMAIN w = 1 .. n /\ w = [ i \in 1 .. n |-> w[i] ] OBVIOUS
  <2> HIDE DEF w
  <2>g. w = [ i \in 1 .. n |-> IF i = 1 THEN parts[i] ELSE w[i - 1] \o parts[i] ]
    BY <2>d, <2>f
  <2> DEFINE f == CHOOSE f : f = [ i \in 1 .. n |->
                     IF i = 1 THEN parts[i] ELSE f[i - 1] \o parts[i] ]
  <2>h. f = [ i \in 1 .. n |-> IF i = 1 THEN parts[i] ELSE f[i - 1] \o parts[i] ]
    BY <2>g
  <2>i. FlattenSeq(parts) = f[n]
    BY <1>c, <1>e DEF FlattenSeq
  <2> HIDE DEF f
  <2>j. \A i \in 1 .. n : f[i] = IF i = 1 THEN parts[i] ELSE f[i - 1] \o parts[i]
    BY <2>h
  <2>k. \A i \in 1 .. n : f[i] = w[i]
    <3> DEFINE T == { i \in 1 .. n : f[i] # w[i] }
    <3> SUFFICES ASSUME T # {} PROVE FALSE OBVIOUS
    <3>a. T \subseteq Nat OBVIOUS
    <3>b. PICK x \in T : \A y \in T : x <= y
      <4> HIDE DEF T
      <4> QED BY <3>a, HasLowest
    <3>c. CASE x = 1 BY <2>d, <2>j, <3>c
    <3>d. CASE x # 1
      <4>a. x \in 1 .. n OBVIOUS
      <4>b. x - 1 \in 1 .. n /\ ~(x <= x - 1) BY <3>d, <4>a
      <4>c. x - 1 \notin T BY <3>b, <4>b
      <4>d. f[x - 1] = w[x - 1] BY <4>b, <4>c
      <4> QED BY <2>d, <2>j, <3>d, <4>a, <4>d
    <3> QED BY <3>c, <3>d
  <2>l. n \in 1 .. n BY <1>b, <1>e
  <2> QED BY <2>e, <2>i, <2>k, <2>l DEF parts
<1> QED BY <1>d, <1>e

(***************************************************************************)
(* The inductive invariant of the decoder.                                 *)
(***************************************************************************)
NotYet == SubSeq(sent, Len(frames) + 1, Len(sent))

FramesInv ==
  /\ sent \in Seq(FramePayloads) /\ frames \in Seq(FramePayloads)
  /\ buffer \in ByteSeq /\ wire \in ByteSeq
  /\ failure \in { "none", "malformed" }
  /\ Len(frames) <= Len(sent)
  /\ \A i \in 1 .. Len(frames) : frames[i] = sent[i]
  /\ (failure = "none") => Encodes(NotYet, buffer \o wire)
  /\ (failure # "none") => (NotYet # <<>> /\ ~Legal(NotYet[1]))

\* What is still to be handed up.
LEMMA NotYetProperties ==
  ASSUME FramesInv
  PROVE  /\ NotYet \in Seq(FramePayloads)
         /\ Len(NotYet) = Len(sent) - Len(frames)
         /\ \A i \in 1 .. Len(sent) - Len(frames) : NotYet[i] = sent[i + Len(frames)]
PROOF
<1> DEFINE k == Len(frames)
<1>a. k \in Nat /\ Len(sent) \in Nat /\ k <= Len(sent)
      /\ sent \in Seq(FramePayloads)
  BY DEF FramesInv
<1> HIDE DEF k
<1>b. \A i \in k + 1 .. Len(sent) : sent[i] \in FramePayloads
  <2>a. \A i \in k + 1 .. Len(sent) : i \in 1 .. Len(sent) BY <1>a
  <2> QED BY <1>a, <2>a
<1>c. k + 1 \in Int /\ Len(sent) \in Int BY <1>a
<1>d. NotYet = SubSeq(sent, k + 1, Len(sent)) BY DEF NotYet, k
<1>e. /\ NotYet \in Seq(FramePayloads)
      /\ Len(NotYet) = IF k + 1 <= Len(sent) THEN Len(sent) - (k + 1) + 1 ELSE 0
      /\ \A i \in 1 .. Len(sent) - (k + 1) + 1 : NotYet[i] = sent[(k + 1) + i - 1]
  BY <1>b, <1>c, <1>d, SubSeqProperties
<1>f. Len(NotYet) = Len(sent) - k BY <1>a, <1>e
<1>g. \A i \in 1 .. Len(sent) - k :
        i \in 1 .. Len(sent) - (k + 1) + 1 /\ (k + 1) + i - 1 = i + k
  BY <1>a
<1>h. \A i \in 1 .. Len(sent) - k : NotYet[i] = sent[i + k] BY <1>e, <1>g
<1> QED BY <1>e, <1>f, <1>h DEF k

\* What next() reads from the buffer is the header of the frame that is next.
LEMMA HeaderIsTheFrames ==
  ASSUME FramesInv, failure = "none", HeaderRead
  PROVE  /\ NotYet # <<>> /\ NotYet[1] \in FramePayloads
         /\ FrameLength = Len(NotYet[1]) /\ FrameLength \in Nat
         /\ \A i \in 1 .. FrameLength :
              (i + 2 <= Len(buffer)) => (buffer[i + 2] = NotYet[1][i])
         /\ Encodes(NotYet, buffer \o wire)
PROOF
<1> DEFINE s == buffer \o wire
<1>a. /\ buffer \in ByteSeq /\ wire \in ByteSeq /\ Encodes(NotYet, s)
      /\ NotYet \in Seq(FramePayloads)
  BY NotYetProperties DEF FramesInv
<1>b. Len(buffer) \in Nat /\ Len(wire) \in Nat /\ 2 <= Len(buffer)
  BY <1>a DEF HeaderRead, HeaderBytes, ByteSeq
<1>c. /\ s \in ByteSeq /\ Len(s) = Len(buffer) + Len(wire)
      /\ \A i \in 1 .. Len(buffer) + Len(wire) :
           s[i] = IF i <= Len(buffer) THEN buffer[i] ELSE wire[i - Len(buffer)]
  BY <1>a, ConcatProperties DEF ByteSeq
<1>d. \A i \in 1 .. Len(buffer) : s[i] = buffer[i]
  <2>a. \A i \in 1 .. Len(buffer) :
          i \in 1 .. Len(buffer) + Len(wire) /\ i <= Len(buffer)
    BY <1>b
  <2> QED BY <1>c, <2>a
<1> HIDE DEF s
<1>e. s # <<>> BY <1>b, <1>c
<1>f. /\ NotYet # <<>> /\ NotYet[1] \in FramePayloads
      /\ s[1] * ByteBase + s[2] = Len(NotYet[1])
      /\ \A i \in 1 .. Len(NotYet[1]) : s[i + 2] = NotYet[1][i]
  BY <1>a, <1>c, <1>e, EncodesFirst
<1>g. 1 \in 1 .. Len(buffer) /\ 2 \in 1 .. Len(buffer) BY <1>b
<1>h. FrameLength = Len(NotYet[1]) BY <1>d, <1>f, <1>g DEF FrameLength
<1>i. Len(NotYet[1]) \in Nat BY <1>f, FrameOnTheWire
<1>j. ASSUME NEW i \in 1 .. Len(NotYet[1]), i + 2 <= Len(buffer)
       PROVE  buffer[i + 2] = NotYet[1][i]
  <2>a. i + 2 \in 1 .. Len(buffer) BY <1>b, <1>i, <1>j
  <2> QED BY <1>d, <1>f, <2>a
<1> QED BY <1>a, <1>f, <1>h, <1>i, <1>j DEF s

\* One more frame is sent: what is not handed up yet grows by it at its end.
LEMMA SentIsNotYet ==
  ASSUME FramesInv, NEW p \in FramePayloads, sent' = Append(sent, p),
         frames' = frames
  PROVE  /\ NotYet' = Append(NotYet, p)
         /\ Len(frames') <= Len(sent') /\ sent' \in Seq(FramePayloads)
         /\ \A i \in 1 .. Len(frames') : frames'[i] = sent'[i]
PROOF
<1> DEFINE k == Len(frames)
           n == Len(sent)
           a == NotYet
           b == Append(NotYet, p)
           c == NotYet'
<1>a. /\ k \in Nat /\ n \in Nat /\ k <= n
      /\ sent \in Seq(FramePayloads) /\ \A i \in 1 .. k : frames[i] = sent[i]
  BY DEF FramesInv
<1>b. /\ sent' \in Seq(FramePayloads) /\ Len(sent') = n + 1 /\ sent'[n + 1] = p
      /\ \A i \in 1 .. n : sent'[i] = sent[i]
  BY <1>a
<1>c. c = SubSeq(sent', k + 1, n + 1) BY <1>b DEF NotYet
<1>d. /\ a \in Seq(FramePayloads) /\ Len(a) = n - k
      /\ \A i \in 1 .. n - k : a[i] = sent[i + k]
  BY NotYetProperties
<1> HIDE DEF k, n, a, c
<1>e. /\ c \in Seq(FramePayloads) /\ Len(c) = n + 1 - k
      /\ \A i \in 1 .. n + 1 - k : c[i] = sent'[i + k]
  <2>a. \A i \in k + 1 .. n + 1 : sent'[i] \in FramePayloads
    <3>a. \A i \in k + 1 .. n + 1 : i \in 1 .. Len(sent') BY <1>a, <1>b
    <3> QED BY <1>b, <3>a
  <2>b. PICK first \in Int, last \in Int, t \in { sent' } :
          first = k + 1 /\ last = n + 1 /\ t = sent'
    BY <1>a
  <2>c. \A i \in first .. last : t[i] \in FramePayloads BY <2>a, <2>b
  <2>d. c = SubSeq(t, first, last) BY <1>c, <2>b
  <2>e. /\ c \in Seq(FramePayloads)
        /\ Len(c) = IF first <= last THEN last - first + 1 ELSE 0
        /\ \A i \in 1 .. last - first + 1 : c[i] = t[first + i - 1]
    BY <2>c, <2>d, SubSeqProperties
  <2>f. Len(c) = n + 1 - k BY <1>a, <2>b, <2>e
  <2>g. \A i \in 1 .. n + 1 - k :
          i \in 1 .. last - first + 1 /\ first + i - 1 = i + k
    <3>a. last - first + 1 = n + 1 - k BY <1>a, <2>b
    <3>b. \A i \in 1 .. n + 1 - k : first + i - 1 = i + k BY <1>a, <2>b
    <3> QED BY <3>a, <3>b
  <2> QED BY <2>b, <2>e, <2>f, <2>g
<1>f. /\ b \in Seq(FramePayloads) /\ Len(b) = n + 1 - k /\ b[n + 1 - k] = p
      /\ \A i \in 1 .. n - k : b[i] = a[i]
  <2>a. /\ b \in Seq(FramePayloads) /\ Len(b) = Len(a) + 1 /\ b[Len(a) + 1] = p
        /\ \A i \in 1 .. Len(a) : b[i] = a[i]
    BY <1>d DEF a
  <2>b. Len(a) + 1 = n + 1 - k BY <1>a, <1>d
  <2> QED BY <1>d, <2>a, <2>b
<1> HIDE DEF b
<1>g. ASSUME NEW i \in 1 .. n + 1 - k PROVE b[i] = c[i]
  <2>a. CASE i = n + 1 - k
    <3>a. i + k = n + 1 BY <1>a, <2>a
    <3> QED BY <1>b, <1>e, <1>f, <2>a, <3>a
  <2>b. CASE i # n + 1 - k
    <3>a. i \in 1 .. n - k /\ i + k \in 1 .. n BY <1>a, <2>b
    <3> QED BY <1>b, <1>d, <1>e, <1>f, <3>a
  <2> QED BY <2>a, <2>b
<1>h. b = c BY <1>e, <1>f, <1>g, SeqEqual
<1>i. \A i \in 1 .. k : i \in 1 .. n BY <1>a
<1>j. \A i \in 1 .. k : frames'[i] = sent'[i] BY <1>a, <1>b, <1>i
<1>k. k <= n + 1 BY <1>a
<1> QED BY <1>b, <1>h, <1>j, <1>k DEF a, b, c, k, n

\* One frame is handed up: what is not handed up yet loses its first.
LEMMA HandedUpIsSent ==
  ASSUME FramesInv, NotYet # <<>>, sent' = sent, frames' = Append(frames, NotYet[1])
  PROVE  /\ NotYet' = Tail(NotYet)
         /\ Len(frames') <= Len(sent') /\ frames' \in Seq(FramePayloads)
         /\ \A i \in 1 .. Len(frames') : frames'[i] = sent'[i]
PROOF
<1> DEFINE k == Len(frames)
           n == Len(sent)
           a == NotYet
           b == Tail(NotYet)
           c == NotYet'
<1>a. /\ k \in Nat /\ n \in Nat /\ k <= n /\ frames \in Seq(FramePayloads)
      /\ sent \in Seq(FramePayloads) /\ \A i \in 1 .. k : frames[i] = sent[i]
  BY DEF FramesInv
<1>b. /\ a \in Seq(FramePayloads) /\ Len(a) = n - k /\ a # <<>>
      /\ \A i \in 1 .. n - k : a[i] = sent[i + k]
  BY NotYetProperties
<1>c. /\ b \in Seq(FramePayloads) /\ Len(b) = Len(a) - 1
      /\ \A i \in 1 .. Len(b) : b[i] = a[i + 1]
  BY <1>b, HeadTailProperties
<1>d. Len(a) \in Nat \ {0} BY <1>b, EmptySeq
<1>e. 1 \in 1 .. n - k /\ a[1] = sent[1 + k] /\ a[1] \in FramePayloads
  <2>a. 1 \in 1 .. n - k BY <1>a, <1>b, <1>d
  <2>b. 1 \in 1 .. Len(a) BY <1>d
  <2> HIDE DEF a
  <2> QED BY <1>b, <2>a, <2>b
<1>f. /\ frames' \in Seq(FramePayloads) /\ Len(frames') = k + 1
      /\ frames'[k + 1] = a[1] /\ \A i \in 1 .. k : frames'[i] = frames[i]
  BY <1>a, <1>e
<1>g. c = SubSeq(sent, k + 1 + 1, n) BY <1>f DEF NotYet
<1> HIDE DEF k, n, a, b, c
<1>h. /\ c \in Seq(FramePayloads) /\ Len(c) = n - k - 1
      /\ \A i \in 1 .. n - k - 1 : c[i] = sent[i + k + 1]
  <2>a. \A i \in k + 1 + 1 .. n : sent[i] \in FramePayloads
    <3>a. \A i \in k + 1 + 1 .. n : i \in 1 .. Len(sent) BY <1>a DEF n
    <3> QED BY <1>a, <3>a
  <2>b. k + 1 + 1 \in Int /\ n \in Int BY <1>a
  <2>c. /\ c \in Seq(FramePayloads)
        /\ Len(c) = IF k + 1 + 1 <= n THEN n - (k + 1 + 1) + 1 ELSE 0
        /\ \A i \in 1 .. n - (k + 1 + 1) + 1 : c[i] = sent[(k + 1 + 1) + i - 1]
    BY <1>g, <2>a, <2>b, SubSeqProperties
  <2>d. Len(c) = n - k - 1 BY <1>a, <1>e, <2>c
  <2>e. \A i \in 1 .. n - k - 1 :
          i \in 1 .. n - (k + 1 + 1) + 1 /\ (k + 1 + 1) + i - 1 = i + k + 1
    BY <1>a
  <2> QED BY <2>c, <2>d, <2>e
<1>i. Len(b) = n - k - 1 BY <1>a, <1>b, <1>c
<1>j. ASSUME NEW i \in 1 .. n - k - 1 PROVE b[i] = c[i]
  <2>a. i + 1 \in 1 .. n - k /\ (i + 1) + k = i + k + 1 BY <1>a
  <2> QED BY <1>b, <1>c, <1>h, <1>i, <2>a
<1>k. b = c BY <1>c, <1>h, <1>i, <1>j, SeqEqual
<1>l. ASSUME NEW i \in 1 .. k + 1 PROVE frames'[i] = sent[i]
  <2>a. CASE i = k + 1 BY <1>a, <1>e, <1>f, <2>a
  <2>b. CASE i # k + 1
    <3>a. i \in 1 .. k BY <1>a, <2>b
    <3> QED BY <1>a, <1>f, <3>a
  <2> QED BY <2>a, <2>b
<1>m. k + 1 <= n BY <1>a, <1>e
<1> QED BY <1>f, <1>k, <1>l, <1>m DEF a, b, c, k, n

\* next() hands up the frame that is next, whole, and keeps what lies behind it.
LEMMA FrameIsHandedUp ==
  ASSUME FramesInv, NextFrame
  PROVE  FramesInv'
PROOF
<1> DEFINE p == NotYet[1]
           total == HeaderBytes + FrameLength
           s == buffer \o wire
<1>a. /\ failure = "none" /\ HeaderRead /\ ~BadLength /\ FrameIsWhole
      /\ frames' = Append(frames, SubSeq(buffer, HeaderBytes + 1, total))
      /\ buffer' = SubSeq(buffer, total + 1, Len(buffer))
      /\ UNCHANGED <<wire, sent, failure>>
  BY DEF NextFrame
<1>b. /\ NotYet # <<>> /\ p \in FramePayloads
      /\ FrameLength = Len(p) /\ FrameLength \in Nat
      /\ \A i \in 1 .. FrameLength :
           (i + 2 <= Len(buffer)) => (buffer[i + 2] = p[i])
      /\ Encodes(NotYet, s)
  BY <1>a, HeaderIsTheFrames
<1>c. /\ buffer \in ByteSeq /\ wire \in ByteSeq /\ NotYet \in Seq(FramePayloads)
      /\ Len(buffer) \in Nat /\ Len(wire) \in Nat
  <2>a. buffer \in ByteSeq /\ wire \in ByteSeq BY DEF FramesInv
  <2>b. NotYet \in Seq(FramePayloads) BY NotYetProperties
  <2>c. Len(buffer) \in Nat /\ Len(wire) \in Nat BY <2>a DEF ByteSeq
  <2> QED BY <2>a, <2>b, <2>c
<1>d. total = 2 + Len(p) /\ total <= Len(buffer) /\ total \in Nat /\ Len(p) \in Nat
  BY <1>a, <1>b DEF FrameIsWhole, HeaderBytes
<1> HIDE DEF p, total
<1>e. \A i \in 1 .. Len(buffer) : buffer[i] \in 0 .. ByteBase - 1
  BY <1>c, BytesOf
<1>f. p \in ByteSeq BY <1>b, FrameOnTheWire
<1>g. SubSeq(buffer, HeaderBytes + 1, total) = p
  <2> DEFINE c == SubSeq(buffer, 3, total)
  <2>a. \A i \in 3 .. total : buffer[i] \in 0 .. ByteBase - 1
    <3>a. \A i \in 3 .. total : i \in 1 .. Len(buffer) BY <1>c, <1>d
    <3> QED BY <1>e, <3>a
  <2>b. total \in Int /\ 3 \in Int BY <1>d
  <2>c. /\ c \in ByteSeq /\ Len(c) = IF 3 <= total THEN total - 3 + 1 ELSE 0
        /\ \A i \in 1 .. total - 3 + 1 : c[i] = buffer[3 + i - 1]
    BY <2>a, <2>b, SubSeqProperties DEF ByteSeq
  <2> HIDE DEF c
  <2>d. Len(c) = Len(p) BY <1>d, <2>c
  <2>e. ASSUME NEW i \in 1 .. Len(p) PROVE c[i] = p[i]
    <3>a. /\ i \in 1 .. total - 3 + 1 /\ 3 + i - 1 = i + 2 /\ i + 2 <= Len(buffer)
      BY <1>c, <1>d
    <3> QED BY <1>b, <2>c, <3>a
  <2>f. c = p BY <1>f, <2>c, <2>d, <2>e, SeqEqual DEF ByteSeq
  <2> QED BY <2>f DEF c, HeaderBytes
<1>h. NotYet' = Tail(NotYet) /\ Len(frames') <= Len(sent')
      /\ frames' \in Seq(FramePayloads)
      /\ \A i \in 1 .. Len(frames') : frames'[i] = sent'[i]
  BY <1>a, <1>b, <1>g, HandedUpIsSent DEF p
<1>i. /\ buffer' \in ByteSeq /\ Len(buffer') = Len(buffer) - total
      /\ \A i \in 1 .. Len(buffer) - total : buffer'[i] = buffer[total + i]
  <2>a. PICK first \in Int, last \in Int : first = total + 1 /\ last = Len(buffer)
    BY <1>c, <1>d
  <2>b. \A i \in first .. last : buffer[i] \in 0 .. ByteBase - 1
    <3>a. \A i \in first .. last : i \in 1 .. Len(buffer) BY <1>c, <1>d, <2>a
    <3> QED BY <1>e, <3>a
  <2>c. /\ SubSeq(buffer, first, last) \in ByteSeq
        /\ Len(SubSeq(buffer, first, last)) =
             IF first <= last THEN last - first + 1 ELSE 0
        /\ \A i \in 1 .. last - first + 1 :
             SubSeq(buffer, first, last)[i] = buffer[first + i - 1]
    BY <2>b, SubSeqProperties DEF ByteSeq
  <2>d. buffer' = SubSeq(buffer, first, last) BY <1>a, <2>a DEF total
  <2>e. Len(buffer') = Len(buffer) - total BY <1>c, <1>d, <2>a, <2>c, <2>d
  <2>f. \A i \in 1 .. Len(buffer) - total :
          i \in 1 .. last - first + 1 /\ first + i - 1 = total + i
    BY <1>c, <1>d, <2>a
  <2> QED BY <2>c, <2>d, <2>e, <2>f
<1>j. /\ s \in ByteSeq /\ Len(s) = Len(buffer) + Len(wire)
       /\ \A i \in 1 .. Len(buffer) + Len(wire) :
            s[i] = IF i <= Len(buffer) THEN buffer[i] ELSE wire[i - Len(buffer)]
  BY <1>c, ConcatProperties DEF ByteSeq
<1> DEFINE t == SubSeq(s, Len(p) + 3, Len(s))
           u == buffer' \o wire
<1>k. Encodes(Tail(NotYet), t)
  <2>a. Encodes(Tail(NotYet), SubSeq(s, Len(NotYet[1]) + 3, Len(s)))
    <3> HIDE DEF s
    <3> QED BY <1>b, <1>c, <1>j, EncodesTail
  <2> QED BY <2>a DEF p
<1> HIDE DEF s
<1>l. /\ t \in ByteSeq /\ Len(t) = Len(s) - total
       /\ \A i \in 1 .. Len(s) - total : t[i] = s[total + i]
  <2>a. PICK first \in Int, last \in Int : first = Len(p) + 3 /\ last = Len(s)
    BY <1>c, <1>d, <1>j
  <2>b. \A i \in first .. last : s[i] \in 0 .. ByteBase - 1
    <3>a. \A i \in first .. last : i \in 1 .. Len(s) BY <1>c, <1>d, <1>j, <2>a
    <3>b. \A i \in 1 .. Len(s) : s[i] \in 0 .. ByteBase - 1 BY <1>j, BytesOf
    <3> QED BY <3>a, <3>b
  <2>c. t = SubSeq(s, first, last) BY <2>a
  <2> HIDE DEF t
  <2>d. /\ t \in ByteSeq
        /\ Len(t) = IF first <= last THEN last - first + 1 ELSE 0
        /\ \A i \in 1 .. last - first + 1 : t[i] = s[first + i - 1]
    BY <2>b, <2>c, SubSeqProperties DEF ByteSeq
  <2>e. Len(t) = Len(s) - total BY <1>c, <1>d, <1>j, <2>a, <2>d
  <2>f. \A i \in 1 .. Len(s) - total :
          i \in 1 .. last - first + 1 /\ first + i - 1 = total + i
    BY <1>c, <1>d, <1>j, <2>a
  <2> QED BY <2>d, <2>e, <2>f
<1> HIDE DEF t
<1>m. /\ u \in ByteSeq /\ Len(u) = Len(buffer) - total + Len(wire)
       /\ \A i \in 1 .. Len(buffer) - total + Len(wire) :
            u[i] = IF i <= Len(buffer) - total THEN buffer'[i]
                   ELSE wire[i - (Len(buffer) - total)]
  <2>a. /\ u \in ByteSeq /\ Len(u) = Len(buffer') + Len(wire)
        /\ \A i \in 1 .. Len(buffer') + Len(wire) :
             u[i] = IF i <= Len(buffer') THEN buffer'[i]
                    ELSE wire[i - Len(buffer')]
    BY <1>c, <1>i, ConcatProperties DEF ByteSeq
  <2> QED BY <1>i, <2>a
<1> HIDE DEF u
<1>n. Len(u) = Len(t) BY <1>c, <1>d, <1>j, <1>l, <1>m
<1>o. ASSUME NEW i \in 1 .. Len(u) PROVE u[i] = t[i]
  <2>a. /\ i \in 1 .. Len(s) - total /\ total + i \in 1 .. Len(buffer) + Len(wire)
        /\ i \in 1 .. Len(buffer) - total + Len(wire)
    BY <1>c, <1>d, <1>j, <1>l, <1>m, <1>n
  <2>b. t[i] = s[total + i] BY <1>l, <2>a
  <2>c. CASE i <= Len(buffer) - total
    <3>a. i \in 1 .. Len(buffer) - total /\ total + i <= Len(buffer)
      BY <1>c, <1>d, <2>a, <2>c
    <3> QED BY <1>i, <1>j, <1>m, <2>a, <2>b, <2>c, <3>a
  <2>d. CASE ~(i <= Len(buffer) - total)
    <3>a. /\ ~(total + i <= Len(buffer))
          /\ (total + i) - Len(buffer) = i - (Len(buffer) - total)
      BY <1>c, <1>d, <2>a, <2>d
    <3> QED BY <1>j, <1>m, <2>a, <2>b, <2>d, <3>a
  <2> QED BY <2>c, <2>d
<1>p. u = t BY <1>l, <1>m, <1>n, <1>o, SeqEqual DEF ByteSeq
<1>q. Encodes(NotYet', buffer' \o wire')
  <2>a. Encodes(NotYet', u) BY <1>h, <1>k, <1>p
  <2> QED BY <1>a, <2>a DEF u
<1>r. sent' \in Seq(FramePayloads) /\ wire' \in ByteSeq /\ failure' = "none"
  BY <1>a DEF FramesInv
<1> QED BY <1>h, <1>i, <1>q, <1>r DEF FramesInv

\* Bytes that are read change place and are never too many for the buffer:
\* more is read only while a frame is not whole, and no frame fills half of it.
LEMMA BytesAreRead ==
  ASSUME FramesInv, ReadMore
  PROVE  FramesInv'
PROOF
<1>a. PICK n \in 1 .. ReadBytes :
        /\ n <= Len(wire)
        /\ wire' = SubSeq(wire, n + 1, Len(wire))
        /\ IF Len(buffer) + n > MaxBuffered
           THEN buffer' = NoBytes /\ failure' = "malformed"
           ELSE buffer' = buffer \o SubSeq(wire, 1, n) /\ UNCHANGED failure
  BY DEF ReadMore
<1>b. failure = "none" /\ NeedsMore /\ UNCHANGED <<sent, frames>> BY DEF ReadMore
<1>c. /\ MaxFrameBytes \in Nat /\ n \in Nat /\ 1 <= n /\ n <= MaxFrameBytes
  BY FrameAssumption
<1>d. /\ buffer \in ByteSeq /\ wire \in ByteSeq /\ Len(buffer) \in Nat
      /\ Len(wire) \in Nat /\ Encodes(NotYet, buffer \o wire)
  BY <1>b DEF FramesInv, ByteSeq
<1>e. ~(Len(buffer) + n > MaxBuffered)
  <2>a. CASE HeaderRead
    <3>a. FrameLength \in Nat BY <1>b, <2>a, HeaderIsTheFrames
    <3>b. FrameLength <= MaxFrameBytes /\ Len(buffer) < 2 + FrameLength
      BY <1>b, <1>c, <1>d, <2>a, <3>a
      DEF NeedsMore, BadLength, FrameIsWhole, HeaderBytes
    <3> QED BY <1>c, <1>d, <3>a, <3>b DEF MaxBuffered, HeaderBytes
  <2>b. CASE ~HeaderRead
    BY <1>c, <1>d, <2>b DEF HeaderRead, MaxBuffered, HeaderBytes
  <2> QED BY <2>a, <2>b
<1> DEFINE a == SubSeq(wire, 1, n)
           b == SubSeq(wire, n + 1, Len(wire))
<1>f. buffer' = buffer \o a /\ failure' = failure /\ wire' = b BY <1>a, <1>e
<1>g. a \in ByteSeq /\ b \in ByteSeq /\ a \o b = wire
  <2>a. PICK last \in Int : last = Len(wire) BY <1>d
  <2>b. /\ 1 \in 1 .. Len(wire) + 1 /\ n \in 1 - 1 .. Len(wire)
        /\ Len(wire) \in n .. Len(wire)
    BY <1>a, <1>c, <1>d
  <2>c. SubSeq(wire, 1, n) \o SubSeq(wire, n + 1, Len(wire)) =
          SubSeq(wire, 1, Len(wire))
    BY <1>d, <2>b, ConcatAdjacentSubSeq DEF ByteSeq
  <2>d. SubSeq(wire, 1, Len(wire)) = wire BY <1>d, SubSeqFull DEF ByteSeq
  <2>e. \A i \in 1 .. Len(wire) : wire[i] \in 0 .. ByteBase - 1
    BY <1>d, BytesOf
  <2>f. /\ \A i \in 1 .. n : wire[i] \in 0 .. ByteBase - 1
        /\ \A i \in n + 1 .. Len(wire) : wire[i] \in 0 .. ByteBase - 1
    <3>a. /\ \A i \in 1 .. n : i \in 1 .. Len(wire)
          /\ \A i \in n + 1 .. Len(wire) : i \in 1 .. Len(wire)
      BY <1>a, <1>c, <1>d
    <3> QED BY <2>e, <3>a
  <2>g. 1 \in Int /\ n \in Int /\ n + 1 \in Int /\ Len(wire) \in Int BY <1>c, <1>d
  <2>h. SubSeq(wire, 1, n) \in ByteSeq
    BY <2>f, <2>g, SubSeqProperties DEF ByteSeq
  <2>i. SubSeq(wire, n + 1, Len(wire)) \in ByteSeq
    BY <2>f, <2>g, SubSeqProperties DEF ByteSeq
  <2> QED BY <2>c, <2>d, <2>h, <2>i
<1> HIDE DEF a, b
<1>h. (buffer \o a) \o b = buffer \o wire
  <2>a. (buffer \o a) \o b = buffer \o (a \o b)
    <3>a. buffer \in ByteSeq /\ a \in ByteSeq /\ b \in ByteSeq BY <1>d, <1>g
    <3> QED BY <3>a, BytesTogether
  <2> QED BY <1>g, <2>a
<1>i. buffer \o a \in ByteSeq BY <1>d, <1>g, ConcatProperties DEF ByteSeq
<1>j. NotYet' = NotYet BY <1>b DEF NotYet
<1>k. Encodes(NotYet', buffer' \o wire') BY <1>d, <1>f, <1>h, <1>j
<1>l. buffer' \in ByteSeq /\ wire' \in ByteSeq BY <1>f, <1>g, <1>i
<1>m. failure' = "none" BY <1>b, <1>f
<1> QED BY <1>b, <1>k, <1>l, <1>m DEF FramesInv

\* What is called malformed is a frame that may not be sent.
LEMMA RejectedIsIllegal ==
  ASSUME FramesInv, RejectFrame
  PROVE  FramesInv'
PROOF
<1>a. /\ failure = "none" /\ HeaderRead /\ BadLength /\ buffer' = <<>>
      /\ failure' = "malformed" /\ UNCHANGED <<wire, sent, frames>>
  BY DEF RejectFrame, NoBytes
<1>b. NotYet # <<>> /\ FrameLength = Len(NotYet[1]) /\ FrameLength \in Nat
  BY <1>a, HeaderIsTheFrames
<1>c. ~Legal(NotYet[1]) BY <1>a, <1>b, FrameAssumption DEF Legal, BadLength
<1>d. NotYet' = NotYet BY <1>a DEF NotYet
<1>e. ~Legal(NotYet'[1]) /\ NotYet' # <<>> BY <1>b, <1>c, <1>d
<1>f. <<>> \in ByteSeq BY DEF ByteSeq
<1> QED BY <1>a, <1>e, <1>f DEF FramesInv

\* The other side sends, whatever the decoder has made of what it sent before.
LEMMA SentIsEncoded ==
  ASSUME FramesInv, SendFrame
  PROVE  FramesInv'
PROOF
<1>a. PICK p \in FramePayloads :
        wire' = wire \o EncodedFrame(p) /\ sent' = Append(sent, p)
  BY DEF SendFrame
<1>b. UNCHANGED <<buffer, frames, failure>> BY DEF SendFrame
<1>c. /\ NotYet' = Append(NotYet, p)
      /\ Len(frames') <= Len(sent') /\ sent' \in Seq(FramePayloads)
      /\ \A i \in 1 .. Len(frames') : frames'[i] = sent'[i]
  BY <1>a, <1>b, SentIsNotYet
<1>d. buffer \in ByteSeq /\ wire \in ByteSeq /\ NotYet \in Seq(FramePayloads)
  BY NotYetProperties DEF FramesInv
<1>e. EncodedFrame(p) \in ByteSeq BY FrameOnTheWire
<1>f. ASSUME failure = "none" PROVE Encodes(NotYet', buffer' \o wire')
  <2>a. Encodes(NotYet, buffer \o wire) BY <1>f DEF FramesInv
  <2>b. buffer \o wire \in ByteSeq BY <1>d, ConcatProperties DEF ByteSeq
  <2>c. Encodes(Append(NotYet, p), (buffer \o wire) \o EncodedFrame(p))
    BY <1>d, <2>a, <2>b, EncodesOneMore
  <2>d. (buffer \o wire) \o EncodedFrame(p) = buffer \o (wire \o EncodedFrame(p))
    BY <1>d, <1>e, BytesTogether
  <2> QED BY <1>a, <1>b, <1>c, <2>c, <2>d
<1>g. ASSUME failure # "none" PROVE NotYet' # <<>> /\ ~Legal(NotYet'[1])
  <2>a. NotYet # <<>> /\ ~Legal(NotYet[1]) BY <1>g DEF FramesInv
  <2>b. Append(NotYet, p)[1] = NotYet[1] /\ Append(NotYet, p) # <<>>
    BY <1>d, <2>a
  <2> QED BY <1>c, <2>a, <2>b
<1>h. wire' \in ByteSeq BY <1>a, <1>d, <1>e, ConcatProperties DEF ByteSeq
<1> QED BY <1>b, <1>c, <1>f, <1>g, <1>h DEF FramesInv

\* Every connection begins with nothing.
LEMMA NothingOnTheWire ==
  ASSUME NEW s, NEW f, s = <<>>, f = <<>>
  PROVE  SubSeq(s, Len(f) + 1, Len(s)) = <<>> /\ Encodes(<<>>, s \o f)
PROOF
<1>a. Len(<<>>) = 0 BY EmptySeq
<1>b. SubSeq(<<>>, 1, 0) = <<>> BY SubSeqEmpty
<1>c. <<>> \o <<>> = <<>> BY ConcatEmptySeq, EmptySeq
<1> QED BY <1>a, <1>b, <1>c, EncodesNone

\* Every step keeps the invariant.
LEMMA FramesInvNext ==
  ASSUME FramesInv, [FrameNext]_frameVars
  PROVE  FramesInv'
PROOF
<1>a. CASE ReconnectStream
  <2>a. /\ wire' = <<>> /\ sent' = <<>> /\ frames' = <<>> /\ failure' = "none"
        /\ buffer' = <<>>
    BY <1>a DEF ReconnectStream, BufferAfterClose, NoBytes
  <2>b. NotYet' = <<>> BY <2>a, NothingOnTheWire DEF NotYet
  <2>c. Encodes(NotYet', buffer' \o wire') BY <2>a, <2>b, NothingOnTheWire
  <2>d. <<>> \in ByteSeq /\ <<>> \in Seq(FramePayloads) /\ Len(<<>>) = 0
    BY DEF ByteSeq
  <2> QED BY <2>a, <2>c, <2>d DEF FramesInv
<1>b. CASE UNCHANGED frameVars
  <2>a. UNCHANGED <<wire, sent, buffer, frames, failure>> BY <1>b DEF frameVars
  <2>b. NotYet' = NotYet BY <2>a DEF NotYet
  <2> QED BY <2>a, <2>b DEF FramesInv
<1> QED
  BY <1>a, <1>b, SentIsEncoded, BytesAreRead, FrameIsHandedUp, RejectedIsIllegal
  DEF FrameNext

\* The decoder starts with nothing on the wire.
LEMMA FramesBegin ==
  ASSUME FrameInit PROVE FramesInv
PROOF
<1>a. /\ wire = <<>> /\ sent = <<>> /\ frames = <<>> /\ failure = "none"
      /\ buffer = <<>>
  BY DEF FrameInit
<1>b. NotYet = <<>> BY <1>a, NothingOnTheWire DEF NotYet
<1>c. Encodes(NotYet, buffer \o wire) BY <1>a, <1>b, NothingOnTheWire
<1>d. <<>> \in ByteSeq /\ <<>> \in Seq(FramePayloads) /\ Len(<<>>) = 0
  BY DEF ByteSeq
<1> QED BY <1>a, <1>c, <1>d DEF FramesInv

\* A sequence whose elements are those another one begins with is its prefix.
LEMMA BeginningIsPrefix ==
  ASSUME NEW S, NEW s \in Seq(S), NEW t \in Seq(S), Len(s) <= Len(t),
         \A i \in 1 .. Len(s) : s[i] = t[i]
  PROVE  IsPrefix(s, t)
PROOF
<1> DEFINE c == SubSeq(t, 1, Len(s))
<1>inside. \A i \in 1 .. Len(s) : t[i] \in S
  <2>a. \A i \in 1 .. Len(s) : i \in 1 .. Len(t) OBVIOUS
  <2> QED BY <2>a
<1>bounds. 1 \in Int /\ Len(s) \in Int /\ Len(s) \in Nat OBVIOUS
<1>cut. /\ c \in Seq(S)
        /\ Len(c) = IF 1 <= Len(s) THEN Len(s) - 1 + 1 ELSE 0
        /\ \A i \in 1 .. Len(s) - 1 + 1 : c[i] = t[1 + i - 1]
  BY <1>inside, <1>bounds, SubSeqProperties
<1> HIDE DEF c
<1>length. Len(c) = Len(s) BY <1>bounds, <1>cut
<1>index. \A i \in 1 .. Len(s) : i \in 1 .. Len(s) - 1 + 1 /\ 1 + i - 1 = i
  BY <1>bounds
<1>elements. \A i \in 1 .. Len(s) : s[i] = c[i] BY <1>cut, <1>index
<1>same. s = c BY <1>cut, <1>length, <1>elements, SeqEqual
<1>whole. SubSeq(s, 1, Len(s)) = s BY SubSeqFull
<1> QED BY <1>same, <1>whole DEF IsPrefix, c

\* What was not handed up yet is on the wire or in the buffer, as it was sent.
LEMMA RestIsUnderWay ==
  ASSUME FramesInv, failure = "none"
  PROVE  buffer \o wire =
           FlattenSeq([ i \in DOMAIN NotYet |-> EncodedFrame(NotYet[i]) ])
PROOF
<1>bytes. Encodes(NotYet, buffer \o wire) /\ buffer \in ByteSeq /\ wire \in ByteSeq
  BY DEF FramesInv
<1>both. buffer \o wire \in ByteSeq BY <1>bytes, ConcatProperties DEF ByteSeq
<1>rest. NotYet \in Seq(FramePayloads) BY NotYetProperties
<1> QED BY <1>bytes, <1>both, <1>rest, EncodesFlat

\* What is refused is the next frame, and it was not fit to be sent.
LEMMA RefusedIsIllegal ==
  ASSUME FramesInv, failure # "none"
  PROVE  NotYet # <<>> /\ ~Legal(Head(NotYet))
PROOF
<1>first. NotYet # <<>> /\ ~Legal(NotYet[1]) BY DEF FramesInv
<1>head. Head(NotYet) = NotYet[1] BY <1>first, NotYetProperties
<1> QED BY <1>first, <1>head

\* The decoder hands up, on each connection, the frames that were sent on it,
\* whole and in order, for every size of a byte and of a frame and in whatever
\* pieces they are read; what it refuses was not fit to be sent.
THEOREM DecoderLosesNothing == FrameSpec => []FramesAreSent
PROOF
<1>told. FramesInv => IsPrefix(frames, sent)
  BY BeginningIsPrefix DEF FramesInv
<1>safe. FrameSpec => []FramesInv
  BY FramesBegin, FramesInvNext, PTL DEF FrameSpec
<1>meant. FramesInv => FramesAreSent
  BY <1>told, RestIsUnderWay, RefusedIsIllegal DEF FramesAreSent, NotYet
<1> QED BY <1>safe, <1>meant, PTL

(***************************************************************************)
(* What the demo runtime sees and decides on, for every clock, capacity    *)
(* and number of attempts: the candles its strategies are advanced on are  *)
(* final, and the evidence of a decision is of one connection.             *)
(*                                                                         *)
(* A bar that is completed is final: its minute is over.  The bar in       *)
(* progress need not be what the venue has, after a loss or a refused      *)
(* update; but then nothing is received any more before the market state   *)
(* is emptied.  The same holds of quotes of a connection that is gone.     *)
(***************************************************************************)

\* A later time is not of an earlier minute.
LEMMA MinutesGrow ==
  ASSUME NEW early \in Nat, NEW late \in Nat, early <= late
  PROVE  /\ Minute(early) \in Nat /\ Minute(late) \in Nat
         /\ Minute(early) <= Minute(late)
<1> DEFINE d == TicksPerMinute
           q == early \div d
           p == late \div d
<1>a. d \in Nat /\ d > 0
  BY SignalAssumption
<1> HIDE DEF d
<1>b. /\ q \in Nat /\ p \in Nat
      /\ early = d * q + (early % d) /\ early % d \in 0 .. d - 1
      /\ late = d * p + (late % d) /\ late % d \in 0 .. d - 1
  BY <1>a
<1> HIDE DEF q, p
<1>c. ASSUME p < q PROVE FALSE
  <2>a. p + 1 <= q
    BY <1>b, <1>c
  <2>b. d * (p + 1) <= d * q
    BY <1>a, <1>b, <2>a
  <2>c. d * (p + 1) = d * p + d
    BY <1>a, <1>b
  <2>d. d * p \in Nat /\ d * q \in Nat
    BY <1>a, <1>b
  <2> QED  BY <1>a, <1>b, <2>b, <2>c, <2>d
<1> QED  BY <1>b, <1>c DEF Minute, q, p, d

IoPlaces ==
  { "history", "subscribe", "idle", "reconcile", "margin", "reconnect", "reload",
    "resubscribe", "confirm", "ended" }

Dates == [ at : Nat, from : { "none", "current", "past" } ]

Markets ==
  [ bid : Dates, ask : Dates, crossed : BOOLEAN, bar : Bars \cup { NoBar },
    completed : Seq(Bars) ]

SignalTypes ==
  /\ clock \in 1 .. MaxClock /\ venueBars \in [ Minutes -> 0 .. MaxRevision ]
  /\ market \in Markets /\ io \in IoPlaces /\ reconciliation \in Dates
  /\ history \in Nat /\ advanced \in Seq(Bars)

\* Before a subscription there is nothing.
EmptyBefore ==
  /\ io \in { "history", "subscribe", "resubscribe" } =>
       market.bar = NoBar /\ market.completed = <<>>
  /\ io = "history" => advanced = <<>>

\* What is received is added to a bar that is the venue's.
BarIsFresh ==
  Receives /\ market.bar # NoBar =>
    market.bar.revision = venueBars[market.bar.minute]

Final(bar) ==
  /\ history <= bar.minute /\ bar.minute < Minute(clock)
  /\ bar.revision = venueBars[bar.minute]

InMinutes(bars) ==
  \A i \in 1 .. Len(bars) : \A j \in 1 .. i - 1 : bars[j].minute < bars[i].minute

AllBefore(bars, minute) == \A i \in 1 .. Len(bars) : bars[i].minute < minute
AllFinal(bars) == \A i \in 1 .. Len(bars) : Final(bars[i])

CompletedAreFinal ==
  /\ history <= Minute(clock)
  /\ AllFinal(advanced) /\ AllFinal(market.completed)
  /\ InMinutes(advanced) /\ InMinutes(market.completed)
  /\ \A i \in 1 .. Len(market.completed) : AllBefore(advanced, market.completed[i].minute)
  /\ market.bar # NoBar =>
       /\ history <= market.bar.minute /\ market.bar.minute <= Minute(clock)
       /\ AllBefore(market.completed, market.bar.minute)
       /\ AllBefore(advanced, market.bar.minute)

\* Only a recovery, and a session that has ended, know sides of the past.
QuotesAreCurrent ==
  \A side \in { market.bid, market.ask } :
    /\ side.at > 0 => side.from # "none"
    /\ io \notin { "reconnect", "reload", "ended" } => side.from # "past"

ReconciliationIsDated == reconciliation.from = "current" => reconciliation.at > 0

SignalInv ==
  /\ SignalTypes /\ EmptyBefore /\ BarIsFresh /\ CompletedAreFinal /\ QuotesAreCurrent
  /\ ReconciliationIsDated /\ EvidenceIsOfOneConnection

USE DEF Bars

\* It is what the first property asks for, and more.
LEMMA FinalCandles == SignalInv => CandlesAreFinal
BY DEF SignalInv, CompletedAreFinal, AllFinal, Final, InMinutes, CandlesAreFinal

\* Markets without quotes and bars are markets.
LEMMA EmptyMarkets == EmptyMarket \in Markets /\ NoSide \in Dates
BY DEF EmptyMarket, Markets, NoSide, Dates

\* The invariant holds at the start.
LEMMA SignalBegins == SignalInit => SignalInv
<1> SUFFICES ASSUME SignalInit PROVE SignalInv
  OBVIOUS
<1>a. /\ market = EmptyMarket /\ market.bar = NoBar /\ market.completed = <<>>
      /\ market.bid = NoSide /\ market.ask = NoSide /\ advanced = <<>>
      /\ reconciliation = NoSide /\ history = 0 /\ io = "history"
      /\ decidedOn = NoContext /\ transport = "up"
  BY DEF SignalInit, EmptyMarket, NotReconciled
<1>b. SignalTypes
  <2>a. clock \in 1 .. MaxClock
    BY SignalAssumption DEF SignalInit
  <2>b. venueBars \in [ Minutes -> 0 .. MaxRevision ]
    BY SignalAssumption DEF SignalInit
  <2> QED  BY <1>a, <2>a, <2>b, EmptyMarkets DEF SignalTypes, IoPlaces
<1>c. EmptyBefore /\ BarIsFresh
  BY <1>a DEF EmptyBefore, BarIsFresh
<1>d. CompletedAreFinal
  <2>a. clock \in Nat
    BY SignalAssumption DEF SignalInit
  <2>b. history <= Minute(clock)
    BY <1>a, <2>a, MinutesGrow
  <2> QED  BY <1>a, <2>b DEF CompletedAreFinal, AllFinal, InMinutes, AllBefore
<1>e. QuotesAreCurrent /\ ReconciliationIsDated /\ EvidenceIsOfOneConnection
  BY <1>a DEF QuotesAreCurrent, ReconciliationIsDated, EvidenceIsOfOneConnection, NoSide
<1> QED  BY <1>b, <1>c, <1>d, <1>e DEF SignalInv

\* What bars are made of, and the minutes they may have.
LEMMA MarketTypes ==
  ASSUME SignalInv
  PROVE  /\ market.bid \in Dates /\ market.ask \in Dates /\ market.crossed \in BOOLEAN
         /\ market.bar \in Bars \cup { NoBar } /\ market.completed \in Seq(Bars)
         /\ Len(market.completed) \in Nat /\ advanced \in Seq(Bars)
         /\ Len(advanced) \in Nat /\ clock \in Nat /\ MaxClock \in Nat
         /\ \A i \in 1 .. Len(market.completed) : market.completed[i] \in Bars
         /\ \A i \in 1 .. Len(advanced) : advanced[i] \in Bars
         /\ Minute(clock) \in Minutes /\ Minute(clock) \in Nat /\ Minutes \subseteq Nat
         /\ history \in Nat /\ history <= Minute(clock)
<1>a. market \in Markets /\ advanced \in Seq(Bars) /\ clock \in 1 .. MaxClock
  BY DEF SignalInv, SignalTypes
<1>b. market.completed \in Seq(Bars)
  BY <1>a DEF Markets
<1>c. /\ Len(market.completed) \in Nat /\ Len(advanced) \in Nat
      /\ \A i \in 1 .. Len(market.completed) : market.completed[i] \in Bars
      /\ \A i \in 1 .. Len(advanced) : advanced[i] \in Bars
  BY <1>a, <1>b, LenProperties, ElementOfSeq
<1>d. MaxClock \in Nat /\ clock \in Nat
  BY <1>a, SignalAssumption
<1>e. Minute(clock) \in Nat /\ Minute(MaxClock) \in Nat /\ Minute(clock) <= Minute(MaxClock)
  BY <1>a, <1>d, MinutesGrow
<1>f. history \in Nat /\ history <= Minute(clock)
  BY DEF SignalInv, SignalTypes, CompletedAreFinal
<1> QED  BY <1>a, <1>b, <1>c, <1>d, <1>e, <1>f DEF Markets, Minutes

\* Time goes on, and at most the bar of this minute changes.
Later ==
  /\ clock' \in clock .. MaxClock /\ UNCHANGED history
  /\ venueBars' \in [ Minutes -> 0 .. MaxRevision ]
  /\ \A m \in Minutes : m < Minute(clock) => venueBars'[m] = venueBars[m]

\* A bar that is final stays so.
LEMMA FinalStays ==
  ASSUME SignalInv, Later, NEW bar \in Bars, Final(bar)
  PROVE  Final(bar)'
<1>a. clock' \in Nat /\ clock <= clock' /\ bar.minute \in Minutes /\ bar.minute \in Nat
  BY MarketTypes DEF Later
<1>b. Minute(clock) <= Minute(clock') /\ Minute(clock') \in Nat /\ Minute(clock) \in Nat
  BY <1>a, MarketTypes, MinutesGrow
<1> QED  BY <1>a, <1>b DEF Final, Later, Minute

\* The historical bars are of the past.
LEMMA HistoryStays ==
  ASSUME SignalInv, Later PROVE history' <= Minute(clock')
BY MarketTypes, MinutesGrow DEF Later

\* Nothing is completed, and nothing is taken.
LEMMA CompletedStay ==
  ASSUME SignalInv, Later, UNCHANGED advanced,
         market'.completed = market.completed, market'.bar = market.bar
  PROVE  CompletedAreFinal'
<1>a. AllFinal(advanced)' /\ AllFinal(market.completed)'
  BY FinalStays, MarketTypes DEF SignalInv, CompletedAreFinal, AllFinal
<1>b. Minute(clock) <= Minute(clock') /\ Minute(clock') \in Nat /\ Minute(clock) \in Nat
  BY MarketTypes, MinutesGrow DEF Later
<1>c. market.bar # NoBar => market.bar.minute \in Nat
  BY MarketTypes
<1> QED
  BY <1>a, <1>b, <1>c, HistoryStays
  DEF SignalInv, CompletedAreFinal, InMinutes, AllBefore, Later, Minute

\* The market state is emptied.
LEMMA CompletedEmptied ==
  ASSUME SignalInv, Later, UNCHANGED advanced,
         market'.completed = <<>>, market'.bar = NoBar
  PROVE  CompletedAreFinal'
<1>a. AllFinal(advanced)'
  BY FinalStays, MarketTypes DEF SignalInv, CompletedAreFinal, AllFinal
<1>b. InMinutes(advanced)' /\ Len(market'.completed) = 0
  BY DEF SignalInv, CompletedAreFinal, InMinutes
<1> QED
  BY <1>a, <1>b, HistoryStays DEF CompletedAreFinal, AllFinal, InMinutes, AllBefore, Minute

\* The oldest completed bar is taken; it is the youngest of those advanced on.
LEMMA TakenIsYoungest ==
  ASSUME SignalInv, UNCHANGED <<clock, venueBars, history>>, TakeCompleted
  PROVE  /\ advanced' \in Seq(Bars) /\ AllFinal(advanced)' /\ InMinutes(advanced)'
         /\ \A i \in 2 .. Len(market.completed) :
              AllBefore(advanced', market.completed[i].minute)
         /\ market.bar # NoBar => AllBefore(advanced', market.bar.minute)
<1> DEFINE bar == Head(market.completed)
<1>a. market.completed # <<>> /\ market.completed \in Seq(Bars) /\ advanced \in Seq(Bars)
  BY MarketTypes DEF TakeCompleted
<1>b. 1 \in 1 .. Len(market.completed) /\ bar = market.completed[1] /\ bar \in Bars
  <2>a. Len(market.completed) \in Nat \ {0} /\ bar \in Bars
    BY <1>a, HeadTailProperties, EmptySeq
  <2> QED  BY <2>a
<1>c. PICK b \in Bars : b = market.completed[1] /\ advanced' = Append(advanced, b)
  BY <1>b DEF TakeCompleted
<1>d. /\ advanced' \in Seq(Bars) /\ Len(advanced') = Len(advanced) + 1
      /\ \A i \in 1 .. Len(advanced) : advanced'[i] = advanced[i]
      /\ advanced'[Len(advanced) + 1] = b /\ Len(advanced) \in Nat
  BY <1>a, <1>c, AppendProperties, LenProperties
<1>e. \A i \in 1 .. Len(advanced') :
        advanced'[i] = b \/ (i \in 1 .. Len(advanced) /\ advanced'[i] = advanced[i])
  BY <1>d
<1>f. AllFinal(advanced)'
  BY <1>b, <1>c, <1>e DEF SignalInv, CompletedAreFinal, AllFinal, Final
<1>g. AllBefore(advanced, b.minute) /\ InMinutes(advanced)
  BY <1>b, <1>c DEF SignalInv, CompletedAreFinal
<1>h. InMinutes(advanced)'
  <2>a. ASSUME NEW i \in 1 .. Len(advanced'), NEW j \in 1 .. i - 1
        PROVE  advanced'[j].minute < advanced'[i].minute
    <3> i \in 1 .. Len(advanced) \/ i = Len(advanced) + 1
      BY <1>d
    <3>a. CASE i \in 1 .. Len(advanced)
      <4>a. j \in 1 .. Len(advanced) /\ advanced'[j] = advanced[j]
            /\ advanced'[i] = advanced[i]
        BY <1>d, <3>a
      <4> QED  BY <1>g, <3>a, <4>a DEF InMinutes
    <3>b. CASE i = Len(advanced) + 1
      BY <1>d, <1>g, <3>b DEF AllBefore
    <3> QED  BY <3>a, <3>b
  <2> QED  BY <2>a DEF InMinutes
<1>i. ASSUME NEW i \in 2 .. Len(market.completed)
      PROVE  AllBefore(advanced', market.completed[i].minute)
  <2>a. i \in 1 .. Len(market.completed) /\ 1 \in 1 .. i - 1
    BY <1>a, LenProperties
  <2>b. b.minute < market.completed[i].minute
    BY <1>c, <2>a DEF SignalInv, CompletedAreFinal, InMinutes
  <2>c. AllBefore(advanced, market.completed[i].minute)
    BY <2>a DEF SignalInv, CompletedAreFinal
  <2> QED  BY <1>e, <2>b, <2>c DEF AllBefore
<1>j. market.bar # NoBar => AllBefore(advanced', market.bar.minute)
  BY <1>b, <1>c, <1>e DEF SignalInv, CompletedAreFinal, AllBefore
<1> QED  BY <1>d, <1>f, <1>h, <1>i, <1>j

\* A completed bar goes to the strategies, one by one or with the session.
LEMMA CompletedTaken ==
  ASSUME SignalInv, UNCHANGED <<clock, venueBars, history>>, TakeCompleted,
         TakenFromQueue
  PROVE  /\ CompletedAreFinal' /\ market' \in Markets
         /\ UNCHANGED <<market.bid, market.ask, market.bar>>
         /\ advanced' \in Seq(Bars)
<1>a. /\ market \in Markets /\ market.completed # <<>> /\ market.completed \in Seq(Bars)
      /\ market' = [ market EXCEPT !.completed = Tail(market.completed) ]
  BY MarketTypes DEF SignalInv, SignalTypes, TakeCompleted, TakenFromQueue
<1>b. PICK rest \in Seq(Bars) :
        /\ rest = Tail(market.completed) /\ Len(rest) \in Nat
        /\ Len(rest) = Len(market.completed) - 1
        /\ \A i \in 1 .. Len(rest) : rest[i] = market.completed[i + 1]
  BY <1>a, HeadTailProperties, LenProperties
<1>c. /\ market'.completed = rest /\ UNCHANGED <<market.bid, market.ask, market.bar>>
      /\ market' \in Markets
  BY <1>a, <1>b DEF Markets
<1>d. /\ advanced' \in Seq(Bars) /\ AllFinal(advanced)' /\ InMinutes(advanced)'
      /\ \A i \in 2 .. Len(market.completed) :
           AllBefore(advanced', market.completed[i].minute)
      /\ market.bar # NoBar => AllBefore(advanced', market.bar.minute)
  BY TakenIsYoungest
<1>known. Len(market.completed) \in Nat
  BY MarketTypes
<1>e. \A i \in 1 .. Len(rest) : i + 1 \in 2 .. Len(market.completed)
  BY <1>known, <1>b
<1>f. AllFinal(market.completed)'
  BY <1>b, <1>c, <1>e DEF SignalInv, CompletedAreFinal, AllFinal, Final
<1>g. InMinutes(market.completed)'
  <2>a. ASSUME NEW i \in 1 .. Len(rest), NEW j \in 1 .. i - 1
        PROVE  rest[j].minute < rest[i].minute
    <3>a. /\ i + 1 \in 1 .. Len(market.completed) /\ j + 1 \in 1 .. (i + 1) - 1
          /\ j \in 1 .. Len(rest)
      BY <1>known, <1>b
    <3>b. market.completed[j + 1].minute < market.completed[i + 1].minute
      BY <3>a DEF SignalInv, CompletedAreFinal, InMinutes
    <3> QED  BY <1>b, <3>a, <3>b
  <2> QED  BY <1>c, <2>a DEF InMinutes
<1>h. \A i \in 1 .. Len(rest) : AllBefore(advanced', rest[i].minute)
  BY <1>b, <1>d, <1>e
<1>i. market.bar # NoBar =>
        /\ history <= market.bar.minute /\ market.bar.minute <= Minute(clock)
        /\ AllBefore(rest, market.bar.minute)
  BY <1>b, <1>e DEF SignalInv, CompletedAreFinal, AllBefore
<1> QED
  BY <1>c, <1>d, <1>f, <1>g, <1>h, <1>i, MarketTypes DEF CompletedAreFinal, Minute

\* The session ends with it.
LEMMA TakenAndEmptied ==
  ASSUME SignalInv, UNCHANGED <<clock, venueBars, history>>, TakeCompleted,
         market' = EmptyMarket
  PROVE  CompletedAreFinal' /\ advanced' \in Seq(Bars)
<1>a. market'.bar = NoBar /\ market'.completed = <<>> /\ Len(market'.completed) = 0
  BY DEF EmptyMarket
<1> QED
  BY <1>a, TakenIsYoungest, MarketTypes
  DEF CompletedAreFinal, AllFinal, InMinutes, AllBefore, Minute

\* Disconnecting leaves nothing behind but what has been decided.
LEMMA Disconnecting ==
  ASSUME SignalInv, Later, DisconnectGateway, advanced' \in Seq(Bars),
         CompletedAreFinal', EvidenceIsOfOneConnection'
  PROVE  SignalInv'
<1>a. /\ market' = EmptyMarket /\ market'.bid = NoSide /\ market'.ask = NoSide
      /\ io' = "ended" /\ reconciliation' = NoSide
  BY DEF DisconnectGateway, EmptyMarket, NotReconciled
<1>b. SignalTypes'
  <2>a. clock' \in 1 .. MaxClock /\ history' \in Nat
    BY DEF SignalInv, SignalTypes, Later
  <2> QED  BY <1>a, <2>a, EmptyMarkets DEF SignalTypes, IoPlaces, Later
<1>c. EmptyBefore' /\ BarIsFresh'
  BY <1>a DEF EmptyBefore, BarIsFresh, Receives
<1>d. QuotesAreCurrent' /\ ReconciliationIsDated'
  BY <1>a DEF QuotesAreCurrent, ReconciliationIsDated, NoSide
<1> QED  BY <1>b, <1>c, <1>d DEF SignalInv

\* The run stops and decides nothing more.
LEMMA Stopping == ASSUME SignalInv, Later, Stop PROVE SignalInv'
<1>a. /\ DisconnectGateway /\ UNCHANGED <<advanced, decidedOn>>
      /\ market'.completed = <<>> /\ market'.bar = NoBar
  BY DEF Stop, DisconnectGateway, EmptyMarket
<1>b. CompletedAreFinal'
  BY <1>a, CompletedEmptied
<1>c. EvidenceIsOfOneConnection' /\ advanced' \in Seq(Bars)
  BY <1>a DEF SignalInv, EvidenceIsOfOneConnection, SignalTypes
<1> QED  BY <1>a, <1>b, <1>c, Disconnecting

\* The bars stay as they are.
LEMMA BarsStaying ==
  ASSUME SignalInv, Later, UNCHANGED <<advanced, decidedOn>>, market' \in Markets,
         market'.bar = market.bar, market'.completed = market.completed,
         io' \in IoPlaces, reconciliation' \in Dates,
         ReconciliationIsDated', EmptyBefore', BarIsFresh', QuotesAreCurrent'
  PROVE  SignalInv'
<1>a. SignalTypes'
  BY DEF SignalInv, SignalTypes, Later
<1>b. EvidenceIsOfOneConnection'
  BY DEF SignalInv, EvidenceIsOfOneConnection
<1> QED  BY <1>a, <1>b, CompletedStay DEF SignalInv

SidesAreDated(state) ==
  \A side \in { state.bid, state.ask } : side.at > 0 => side.from # "none"

\* The session ends, or it starts once more to recover.
LEMMA Leaving ==
  ASSUME SignalInv, Later, NEW received \in Markets,
         received.bar = market.bar, received.completed = market.completed,
         SidesAreDated(received), EndSession(received) \/ NextAttempt(received)
  PROVE  SignalInv'
<1>a. CASE Stop
  BY <1>a, Stopping
<1>b. CASE ~Stop
  <2>a. /\ io' \in { "ended", "reconnect" } /\ market' = received
        /\ UNCHANGED <<advanced, decidedOn, reconciliation>>
    BY <1>b DEF EndSession, NextAttempt, CommandFails, runVars
  <2>b. ReconciliationIsDated' /\ reconciliation' \in Dates
    BY <2>a DEF SignalInv, SignalTypes, ReconciliationIsDated
  <2>c. EmptyBefore' /\ BarIsFresh' /\ QuotesAreCurrent' /\ io' \in IoPlaces
    BY <2>a DEF EmptyBefore, BarIsFresh, Receives, QuotesAreCurrent, SidesAreDated, IoPlaces
  <2> QED  BY <2>a, <2>b, <2>c, BarsStaying
<1> QED  BY <1>a, <1>b

\* Time that does not pass is time that goes on.
LEMMA SameTime ==
  ASSUME SignalInv, UNCHANGED <<marketVars, history>>
  PROVE  Later
BY MarketTypes DEF SignalInv, SignalTypes, Later, marketVars

\* The sides of the market are dated.
LEMMA DatedSides == ASSUME SignalInv PROVE market \in Markets /\ SidesAreDated(market)
BY DEF SignalInv, SignalTypes, QuotesAreCurrent, SidesAreDated

\* The market and the network.
LEMMA OutsideKeeps ==
  ASSUME SignalInv, Tick \/ TradeUnseen \/ LoseTransport
  PROVE  SignalInv'
<1> USE DEF SignalInv
<1>a. UNCHANGED <<market, io, reconciliation, advanced, decidedOn, history>>
  BY DEF Tick, TradeUnseen, LoseTransport, ioVars, runVars
<1>b. /\ market' \in Markets /\ io' \in IoPlaces /\ reconciliation' \in Dates
      /\ ReconciliationIsDated' /\ EmptyBefore' /\ QuotesAreCurrent'
  BY <1>a DEF SignalTypes, ReconciliationIsDated, EmptyBefore, QuotesAreCurrent
<1>c. CASE Tick
  <2>a. clock' \in clock .. MaxClock /\ UNCHANGED <<venueBars, transport>>
    BY <1>c, MarketTypes DEF Tick, ioVars
  <2>b. Later /\ BarIsFresh'
    BY <1>a, <2>a DEF Later, SignalTypes, BarIsFresh, Receives
  <2> QED  BY <1>a, <1>b, <2>b, BarsStaying
<1>d. CASE TradeUnseen
  <2>a. /\ ~Receives /\ UNCHANGED <<clock, transport>>
        /\ venueBars' = [ venueBars EXCEPT ![Minute(clock)] = @ + 1 ]
        /\ venueBars[Minute(clock)] < MaxRevision
    BY <1>d DEF TradeUnseen, Revised, ioVars
  <2>b. venueBars[Minute(clock)] + 1 \in 0 .. MaxRevision
    <3>a. PICK r \in 0 .. MaxRevision : r = venueBars[Minute(clock)]
      BY MarketTypes DEF SignalTypes
    <3>b. r < MaxRevision /\ MaxRevision \in Nat
      BY <2>a, <3>a, SignalAssumption
    <3> QED  BY <3>a, <3>b
  <2>c. /\ venueBars' \in [ Minutes -> 0 .. MaxRevision ]
        /\ \A m \in Minutes : m < Minute(clock) => venueBars'[m] = venueBars[m]
    BY <2>a, <2>b, MarketTypes DEF SignalTypes
  <2>d. Later /\ BarIsFresh'
    BY <1>a, <2>a, <2>c, MarketTypes DEF Later, SignalTypes, BarIsFresh, Receives
  <2> QED  BY <1>a, <1>b, <2>d, BarsStaying
<1>e. CASE LoseTransport
  <2>a. BarIsFresh' /\ UNCHANGED <<marketVars, history>>
    BY <1>e DEF LoseTransport, BarIsFresh, Receives
  <2> QED  BY <1>a, <1>b, <2>a, SameTime, BarsStaying
<1> QED  BY <1>c, <1>d, <1>e

\* The session starts.
LEMMA StartingKeeps ==
  ASSUME SignalInv, LoadHistory \/ Subscribe \/ StartupFails
  PROVE  SignalInv'
<1> USE DEF SignalInv
<1>a. CASE LoadHistory
  <2>a. /\ io = "history" /\ market.bar = NoBar /\ market.completed = <<>>
        /\ advanced = <<>> /\ Len(<<>>) = 0
        /\ UNCHANGED <<clock, venueBars, market, reconciliation, advanced, decidedOn,
                       transport>>
        /\ history' = Minute(clock) /\ io' = "subscribe"
    BY <1>a DEF LoadHistory, EmptyBefore, marketVars, runVars
  <2>b. SignalTypes'
    BY <2>a, MarketTypes DEF SignalTypes, IoPlaces
  <2>c. EmptyBefore' /\ BarIsFresh'
    BY <2>a DEF EmptyBefore, BarIsFresh
  <2>d. CompletedAreFinal'
    BY <2>a, MarketTypes DEF CompletedAreFinal, AllFinal, InMinutes, AllBefore, Minute
  <2>e. QuotesAreCurrent' /\ ReconciliationIsDated' /\ EvidenceIsOfOneConnection'
    BY <2>a DEF QuotesAreCurrent, ReconciliationIsDated, EvidenceIsOfOneConnection
  <2> QED  BY <2>b, <2>c, <2>d, <2>e
<1>b. CASE Subscribe
  <2>a. /\ UNCHANGED <<marketVars, market, reconciliation, history, advanced, decidedOn>>
        /\ io = "subscribe" /\ io' = "idle" /\ market.bar = NoBar
    BY <1>b DEF Subscribe, EmptyBefore, runVars
  <2>b. /\ io' \in IoPlaces /\ EmptyBefore' /\ BarIsFresh' /\ QuotesAreCurrent'
        /\ ReconciliationIsDated' /\ market' \in Markets /\ reconciliation' \in Dates
    BY <2>a DEF IoPlaces, EmptyBefore, BarIsFresh, QuotesAreCurrent,
                ReconciliationIsDated, SignalTypes
  <2> QED  BY <2>a, <2>b, SameTime, BarsStaying
<1>c. CASE StartupFails
  BY <1>c, SameTime, DatedSides, Leaving DEF StartupFails
<1> QED  BY <1>a, <1>b, <1>c

\* What an order is decided on.
LEMMA EvidenceIsCurrent ==
  ASSUME SignalInv, io = "margin", IsCurrent(RiskContext), decidedOn' = RiskContext
  PROVE  EvidenceIsOfOneConnection'
<1> DEFINE newest == RiskContext.evaluatedAt
<1>a. /\ market.bid \in Dates /\ market.ask \in Dates /\ reconciliation \in Dates
      /\ clock \in Nat /\ MaxEvidenceAge \in Nat
  BY MarketTypes, SignalAssumption DEF SignalInv, SignalTypes
<1>b. /\ reconciliation.from = "current" /\ clock - reconciliation.at <= MaxEvidenceAge
      /\ Bbo > 0 /\ clock - Bbo <= MaxEvidenceAge
  BY DEF IsCurrent, RiskContext
<1>c. ~market.crossed
  BY <1>b DEF Bbo
<1>d. /\ Bbo \in { market.bid.at, market.ask.at }
      /\ Bbo <= market.bid.at /\ Bbo <= market.ask.at
  BY <1>a, <1>c DEF Bbo, Dates
<1>e. \A side \in { market.bid, market.ask } :
        side.from = "current" /\ side.at > 0 /\ clock - side.at <= MaxEvidenceAge
  <2>a. \A side \in { market.bid, market.ask } :
          side.at > 0 /\ clock - side.at <= MaxEvidenceAge
    BY <1>a, <1>b, <1>d DEF Dates
  <2> QED  BY <1>a, <2>a DEF SignalInv, QuotesAreCurrent, Dates
<1>f. reconciliation.at > 0
  BY <1>b DEF SignalInv, ReconciliationIsDated
<1>g. /\ decidedOn'.bid = market.bid /\ decidedOn'.ask = market.ask
      /\ decidedOn'.reconciled = reconciliation /\ decidedOn'.evaluatedAt = clock
  BY DEF RiskContext
<1> QED  BY <1>b, <1>e, <1>f, <1>g DEF EvidenceIsOfOneConnection

\* The I/O thread answers the main thread.
LEMMA AnsweringKeeps ==
  ASSUME SignalInv, Answering, UNCHANGED <<marketVars, history>>
  PROVE  SignalInv'
<1> USE DEF SignalInv
<1>known. Later
  BY SameTime
<1>a. ASSUME TakeCommand \/ Reconciled
      PROVE  SignalInv'
  <2>a. UNCHANGED <<venueBars, market, transport, advanced, decidedOn>>
    BY <1>a DEF TakeCommand, Reconciled, runVars, marketVars
  <2>b. /\ io \in { "idle", "reconcile" } /\ io' \in { "reconcile", "margin" }
        /\ reconciliation' \in { reconciliation, Dated(clock) }
    BY <1>a DEF TakeCommand, Reconciled
  <2>known. clock \in Nat /\ clock > 0
    BY MarketTypes DEF SignalTypes
  <2>c. reconciliation' \in Dates /\ ReconciliationIsDated'
    BY <2>known, <2>b DEF SignalTypes, ReconciliationIsDated, Dated, Dates
  <2>d. market' \in Markets /\ io' \in IoPlaces /\ EmptyBefore' /\ QuotesAreCurrent'
    BY <2>a, <2>b DEF SignalTypes, IoPlaces, EmptyBefore, QuotesAreCurrent
  <2>e. BarIsFresh'
    BY <2>a, <2>b DEF BarIsFresh, Receives
  <2> QED  BY <1>known, <2>a, <2>c, <2>d, <2>e, BarsStaying
<1>b. CASE Arm
  <2>a. /\ io = "margin" /\ io' = "idle" /\ reconciliation' = NoSide
        /\ UNCHANGED <<clock, venueBars, history, market, transport, advanced>>
    BY <1>b DEF Arm, NotReconciled, marketVars
  <2>b. EvidenceIsOfOneConnection'
    BY <1>b, EvidenceIsCurrent DEF Arm
  <2>c. SignalTypes'
    BY <2>a, EmptyMarkets DEF SignalTypes, IoPlaces
  <2>d. EmptyBefore' /\ QuotesAreCurrent' /\ ReconciliationIsDated' /\ BarIsFresh'
    BY <2>a DEF EmptyBefore, QuotesAreCurrent, ReconciliationIsDated, NoSide, BarIsFresh,
                Receives
  <2>e. CompletedAreFinal'
    BY <1>known, <2>a, CompletedStay
  <2> QED  BY <2>b, <2>c, <2>d, <2>e
<1>c. CASE Commission
  <2>a. DisconnectGateway /\ UNCHANGED advanced
    BY <1>c DEF Commission
  <2>b. market'.completed = <<>> /\ market'.bar = NoBar
    BY <2>a DEF DisconnectGateway, EmptyMarket
  <2>c. EvidenceIsOfOneConnection'
    BY <1>c, EvidenceIsCurrent DEF Commission
  <2>d. advanced' \in Seq(Bars)
    BY <2>a DEF SignalTypes
  <2> QED  BY <1>known, <2>a, <2>b, <2>c, <2>d, CompletedEmptied, Disconnecting
<1>d. CASE QueryFails
  BY <1>known, <1>d, Stopping DEF QueryFails, CommandFails
<1>e. CASE QueryFindsLoss
  <2>a. CASE Stop
    BY <1>known, <2>a, Stopping
  <2>b. CASE ~Stop
    <3>a. StartRecovery("command")
      BY <1>e, <2>b DEF QueryFindsLoss, CommandFails
    <3>b. /\ io' = "reconnect"
          /\ UNCHANGED <<market, reconciliation, advanced, decidedOn>>
      BY <3>a DEF StartRecovery, runVars
    <3>c. /\ market' \in Markets /\ io' \in IoPlaces /\ EmptyBefore' /\ QuotesAreCurrent'
          /\ BarIsFresh' /\ reconciliation' \in Dates /\ ReconciliationIsDated'
      BY <3>b DEF SignalTypes, IoPlaces, EmptyBefore, QuotesAreCurrent, BarIsFresh,
                  Receives, ReconciliationIsDated
    <3> QED  BY <1>known, <3>b, <3>c, BarsStaying
  <2> QED  BY <2>a, <2>b
<1> QED  BY <1>a, <1>b, <1>c, <1>d, <1>e DEF Answering

\* It replaces a connection that is lost.
LEMMA RecoveringKeeps ==
  ASSUME SignalInv, Recovering, UNCHANGED <<marketVars, history>>
  PROVE  SignalInv'
<1> USE DEF SignalInv
<1>known. Later
  BY SameTime
<1>a. ASSUME LoopFindsLoss \/ Confirm
      PROVE  SignalInv'
  <2>a. UNCHANGED <<venueBars, market, transport, reconciliation, advanced, decidedOn>>
    BY <1>a DEF LoopFindsLoss, StartRecovery, Confirm, runVars, marketVars
  <2>b. \/ io' = "reconnect"
        \/ io = "confirm" /\ io' \in { "idle", "reconcile" }
    BY <1>a DEF LoopFindsLoss, StartRecovery, Confirm
  <2>c. /\ market' \in Markets /\ io' \in IoPlaces /\ EmptyBefore' /\ QuotesAreCurrent'
        /\ reconciliation' \in Dates /\ ReconciliationIsDated'
    BY <2>a, <2>b DEF SignalTypes, IoPlaces, EmptyBefore, QuotesAreCurrent,
                      ReconciliationIsDated
  <2>d. BarIsFresh'
    BY <2>a, <2>b DEF BarIsFresh, Receives
  <2> QED  BY <1>known, <2>a, <2>c, <2>d, BarsStaying
<1>b. CASE Reconnect
  <2>a. /\ io' = "reload" /\ UNCHANGED <<advanced, decidedOn>>
        /\ market' = [ market EXCEPT !.bid = Past(market.bid), !.ask = Past(market.ask) ]
        /\ reconciliation' = Past(reconciliation)
    BY <1>b DEF Reconnect, runVars
  <2>b. \A dated \in Dates :
          /\ Past(dated) \in Dates /\ Past(dated).from # "current"
          /\ Past(dated).at = dated.at
          /\ Past(dated).from = "none" => dated.from = "none"
    BY DEF Past, Dates
  <2>c. /\ market' \in Markets /\ market'.bid = Past(market.bid)
        /\ market'.ask = Past(market.ask) /\ market'.bar = market.bar
        /\ market'.completed = market.completed
    BY <2>a, <2>b, DatedSides DEF Markets
  <2>d. EmptyBefore' /\ BarIsFresh' /\ io' \in IoPlaces
    BY <2>a DEF EmptyBefore, BarIsFresh, Receives, IoPlaces
  <2>e. QuotesAreCurrent'
    BY <2>a, <2>b, <2>c, MarketTypes DEF QuotesAreCurrent
  <2>f. reconciliation' \in Dates /\ ReconciliationIsDated'
    BY <2>a, <2>b DEF SignalTypes, ReconciliationIsDated
  <2> QED  BY <1>known, <2>a, <2>c, <2>d, <2>e, <2>f, BarsStaying
<1>c. CASE Reload
  <2>a. /\ market' = EmptyMarket /\ market'.bar = NoBar /\ market'.completed = <<>>
        /\ market'.bid = NoSide /\ market'.ask = NoSide /\ io' = "resubscribe"
        /\ UNCHANGED <<clock, venueBars, history, reconciliation, advanced, decidedOn>>
    BY <1>c DEF Reload, ResetLiveGeneration, EmptyMarket, runVars, marketVars
  <2>b. SignalTypes'
    BY <2>a, EmptyMarkets DEF SignalTypes, IoPlaces
  <2>c. EmptyBefore' /\ QuotesAreCurrent' /\ ReconciliationIsDated' /\ BarIsFresh'
    BY <2>a DEF EmptyBefore, QuotesAreCurrent, ReconciliationIsDated, NoSide, BarIsFresh
  <2>d. EvidenceIsOfOneConnection' /\ CompletedAreFinal'
    BY <1>known, <2>a, CompletedEmptied DEF EvidenceIsOfOneConnection
  <2> QED  BY <2>b, <2>c, <2>d
<1>d. CASE Resubscribe
  <2>a. /\ io = "resubscribe" /\ io' = "confirm" /\ market.bar = NoBar
        /\ UNCHANGED <<market, reconciliation, advanced, decidedOn>>
    BY <1>d DEF Resubscribe, EmptyBefore, runVars
  <2>b. /\ market' \in Markets /\ io' \in IoPlaces /\ EmptyBefore' /\ QuotesAreCurrent'
        /\ BarIsFresh' /\ reconciliation' \in Dates /\ ReconciliationIsDated'
    BY <2>a DEF SignalTypes, IoPlaces, EmptyBefore, QuotesAreCurrent, BarIsFresh,
                ReconciliationIsDated
  <2> QED  BY <1>known, <2>a, <2>b, BarsStaying
<1>e. CASE RecoveryStepFails
  BY <1>known, <1>e, DatedSides, Leaving DEF RecoveryStepFails
<1> QED  BY <1>a, <1>b, <1>c, <1>d, <1>e DEF Recovering

\* The sides of an update are of this connection.
LEMMA QuotesStored ==
  ASSUME SignalInv, Receives, NEW update \in SpotUpdates
  PROVE  LET state == StoreQuotes(market, update)
         IN /\ state \in Markets /\ state.bar = market.bar
            /\ state.completed = market.completed /\ SidesAreDated(state)
            /\ \A side \in { state.bid, state.ask } : side.from # "past"
<1> DEFINE bid == IF update.bid THEN Dated(update.at) ELSE market.bid
           ask == IF update.ask THEN Dated(update.at) ELSE market.ask
           state == StoreQuotes(market, update)
<1>a. PICK crossed \in BOOLEAN :
        state = [ market EXCEPT !.bid = bid, !.ask = ask, !.crossed = crossed ]
  <2> DEFINE c == /\ ~Missing(bid) /\ ~Missing(ask)
                  /\ IF update.bid \/ update.ask THEN update.crosses ELSE market.crossed
  <2>a. update.crosses \in BOOLEAN /\ market.crossed \in BOOLEAN
    BY MarketTypes DEF SpotUpdates
  <2>b. c \in BOOLEAN
    OBVIOUS
  <2>c. state = [ market EXCEPT !.bid = bid, !.ask = ask, !.crossed = c ]
    BY DEF StoreQuotes
  <2> QED  BY <2>b, <2>c
<1>b. update.at \in Nat
  BY MarketTypes DEF SpotUpdates
<1>c. Dated(update.at) \in Dates /\ Dated(update.at).from = "current"
  BY <1>b DEF Dated, Dates
<1>d. io \notin { "reconnect", "reload", "ended" }
  BY DEF Receives
<1>e. \A side \in { bid, ask } :
        side \in Dates /\ (side.at > 0 => side.from # "none") /\ side.from # "past"
  BY <1>c, <1>d, MarketTypes DEF SignalInv, QuotesAreCurrent
<1> HIDE DEF bid, ask, state
<1>f. /\ state \in Markets /\ state.bid = bid /\ state.ask = ask
      /\ state.bar = market.bar /\ state.completed = market.completed
  BY <1>a, <1>e, DatedSides DEF Markets
<1> QED  BY <1>e, <1>f DEF SidesAreDated, state

\* The bar of an update is the venue's of this minute.
LEMMA UpdatedBars ==
  ASSUME SignalInv, NEW update \in SpotUpdates, UNCHANGED <<clock, history>>,
         venueBars' = IF update.bar = NoBar THEN venueBars
                      ELSE [ venueBars EXCEPT ![Minute(clock)] = update.bar.revision ]
  PROVE  /\ Later /\ update.bar \in Bars \cup { NoBar }
         /\ update.bar # NoBar =>
              /\ update.bar.minute = Minute(clock)
              /\ venueBars'[update.bar.minute] = update.bar.revision
<1>a. update.bar \in { NoBar } \cup SentBars
  BY DEF SpotUpdates
<1>b. update.bar # NoBar =>
        /\ update.bar \in Bars /\ update.bar.minute = Minute(clock)
        /\ update.bar.revision \in 0 .. MaxRevision
  BY <1>a, MarketTypes DEF SentBars
<1>c. venueBars \in [ Minutes -> 0 .. MaxRevision ] /\ clock \in clock .. MaxClock
  BY MarketTypes DEF SignalInv, SignalTypes
<1>d. CASE update.bar = NoBar
  BY <1>c, <1>d DEF Later
<1>e. CASE update.bar # NoBar
  <2>a. /\ venueBars' \in [ Minutes -> 0 .. MaxRevision ]
        /\ \A m \in Minutes : m < Minute(clock) => venueBars'[m] = venueBars[m]
        /\ venueBars'[Minute(clock)] = update.bar.revision
    BY <1>b, <1>c, <1>e, MarketTypes
  <2> QED  BY <1>b, <1>c, <2>a DEF Later
<1> QED  BY <1>d, <1>e

\* An update is applied, its bar with it or after the one that is completed.
LEMMA UpdateApplied ==
  ASSUME SignalInv, Later, UNCHANGED <<clock, advanced, decidedOn, reconciliation>>,
         UNCHANGED <<io, transport>>, Receives,
         NEW state \in Markets, state.bar = market.bar,
         state.completed = market.completed, SidesAreDated(state),
         \A side \in { state.bid, state.ask } : side.from # "past",
         NEW bar \in Bars, bar.minute = Minute(clock),
         venueBars'[bar.minute] = bar.revision,
         \/ /\ state.bar = NoBar \/ state.bar.minute = bar.minute
            /\ market' = [ state EXCEPT !.bar = bar ]
         \/ /\ state.bar # NoBar /\ bar.minute > state.bar.minute
            /\ market' = NextBar(state, bar)
  PROVE  SignalInv'
<1> USE DEF SignalInv
<1>a. /\ market'.bar = bar /\ market'.bid = state.bid /\ market'.ask = state.ask
      /\ market' \in Markets /\ bar # NoBar /\ market'.completed \in Seq(Bars)
      /\ \/ market'.completed = market.completed
         \/ /\ market.bar # NoBar /\ bar.minute > market.bar.minute
            /\ market'.completed = Append(market.completed, market.bar)
  <2>a. bar # NoBar
    BY SignalAssumption DEF NoBar
  <2>b. state.bar # NoBar => Append(state.completed, state.bar) \in Seq(Bars)
    BY AppendProperties, MarketTypes
  <2>c. /\ state.bar # NoBar =>
             /\ NextBar(state, bar) \in Markets /\ NextBar(state, bar).bar = bar
             /\ NextBar(state, bar).bid = state.bid /\ NextBar(state, bar).ask = state.ask
             /\ NextBar(state, bar).completed = Append(state.completed, state.bar)
    BY <2>b DEF NextBar, Markets
  <2>d. LET next == [ state EXCEPT !.bar = bar ]
        IN /\ next \in Markets /\ next.bar = bar /\ next.completed = state.completed
           /\ next.bid = state.bid /\ next.ask = state.ask
    BY DEF Markets
  <2> QED  BY <2>a, <2>c, <2>d DEF Markets
<1>b. /\ SignalTypes' /\ EmptyBefore' /\ BarIsFresh' /\ QuotesAreCurrent'
      /\ ReconciliationIsDated' /\ EvidenceIsOfOneConnection'
  <2>a. SignalTypes'
    BY <1>a DEF SignalTypes, Later
  <2>b. EmptyBefore' /\ BarIsFresh'
    BY <1>a DEF EmptyBefore, BarIsFresh, Receives
  <2>c. QuotesAreCurrent' /\ ReconciliationIsDated' /\ EvidenceIsOfOneConnection'
    BY <1>a DEF QuotesAreCurrent, SidesAreDated, ReconciliationIsDated,
                EvidenceIsOfOneConnection
  <2> QED  BY <2>a, <2>b, <2>c
<1>c. AllFinal(advanced)' /\ history' <= Minute(clock')
  BY FinalStays, MarketTypes, HistoryStays DEF CompletedAreFinal, AllFinal
<1>d. AllFinal(market.completed) /\ AllFinal(advanced)
  BY DEF CompletedAreFinal
<1>e. AllBefore(market.completed, bar.minute) /\ AllBefore(advanced, bar.minute)
  BY <1>d DEF AllFinal, AllBefore, Final
<1>h. history <= bar.minute /\ bar.minute <= Minute(clock)
  BY MarketTypes
<1>f. CASE market'.completed = market.completed
  <2>a. AllFinal(market.completed)'
    BY <1>d, <1>f, FinalStays, MarketTypes DEF AllFinal
  <2> QED
    BY <1>a, <1>b, <1>c, <1>e, <1>f, <1>h, <2>a
    DEF CompletedAreFinal, InMinutes, AllBefore, Later, Minute
<1>g. ASSUME market.bar # NoBar, bar.minute > market.bar.minute,
             market'.completed = Append(market.completed, market.bar)
      PROVE  SignalInv'
  <2>a. PICK old \in Bars : old = market.bar
    BY <1>g, MarketTypes
  <2>b. /\ Len(market'.completed) = Len(market.completed) + 1
        /\ market'.completed[Len(market.completed) + 1] = old
        /\ \A i \in 1 .. Len(market.completed) :
             market'.completed[i] = market.completed[i]
        /\ Len(market.completed) \in Nat
    BY <1>g, <2>a, AppendProperties, MarketTypes
  <2>c. /\ history <= old.minute /\ AllBefore(market.completed, old.minute)
        /\ AllBefore(advanced, old.minute)
    BY <1>g, <2>a DEF CompletedAreFinal
  <2>d. Final(old)
    BY <1>g, <2>a, <2>c DEF Final, BarIsFresh
  <2>e. \A i \in 1 .. Len(market'.completed) :
          \/ market'.completed[i] = old
          \/ i \in 1 .. Len(market.completed)
             /\ market'.completed[i] = market.completed[i]
    BY <2>b
  <2>f. AllFinal(market.completed)'
    BY <1>d, <2>d, <2>e, FinalStays, MarketTypes DEF AllFinal
  <2>g. InMinutes(market.completed)'
    <3>a. ASSUME NEW i \in 1 .. Len(market'.completed), NEW j \in 1 .. i - 1
          PROVE  market'.completed[j].minute < market'.completed[i].minute
      <4> i \in 1 .. Len(market.completed) \/ i = Len(market.completed) + 1
        BY <2>b
      <4>a. CASE i \in 1 .. Len(market.completed)
        <5>a. j \in 1 .. Len(market.completed) /\ InMinutes(market.completed)
          BY <2>b, <4>a DEF CompletedAreFinal
        <5> QED  BY <2>b, <4>a, <5>a DEF InMinutes
      <4>b. CASE i = Len(market.completed) + 1
        BY <2>b, <2>c, <4>b DEF AllBefore
      <4> QED  BY <4>a, <4>b
    <3> QED  BY <3>a DEF InMinutes
  <2>h. \A i \in 1 .. Len(market'.completed) :
          AllBefore(advanced, market'.completed[i].minute)
    BY <2>c, <2>e DEF CompletedAreFinal
  <2>i. AllBefore(market'.completed, bar.minute)
    BY <1>e, <1>g, <2>a, <2>e DEF AllBefore
  <2> QED
    BY <1>a, <1>b, <1>c, <1>e, <1>h, <2>f, <2>g, <2>h, <2>i
    DEF CompletedAreFinal, InMinutes, AllBefore, Later, Minute
<1> QED  BY <1>a, <1>f, <1>g

\* A spot event is applied, or it is refused.
LEMMA HandlingKeeps == ASSUME SignalInv, HandleSpot PROVE SignalInv'
<1>a. PICK update \in SpotUpdates :
        /\ venueBars' = IF update.bar = NoBar THEN venueBars
                        ELSE [ venueBars EXCEPT ![Minute(clock)] = update.bar.revision ]
        /\ LET applied == Apply(update)
           IN IF applied.result = "applied"
              THEN /\ market' = applied.market
                   /\ UNCHANGED <<transport, io, recovery, rebuilt, reconciliation,
                                  command, runVars>>
              ELSE EventRefused(applied.market)
  BY DEF HandleSpot
<1>b. Receives /\ UNCHANGED <<clock, history>>
  BY DEF HandleSpot
<1>c. /\ Later /\ update.bar \in Bars \cup { NoBar }
      /\ update.bar # NoBar =>
           /\ update.bar.minute = Minute(clock)
           /\ venueBars'[update.bar.minute] = update.bar.revision
  BY <1>a, <1>b, UpdatedBars
<1>d. PICK state \in Markets :
        /\ state = StoreQuotes(market, update) /\ state.bar = market.bar
        /\ state.completed = market.completed /\ SidesAreDated(state)
        /\ \A side \in { state.bid, state.ask } : side.from # "past"
  BY <1>b, QuotesStored
<1>e. \/ Apply(update) = Refused(state)
      \/ update.bar = NoBar /\ Apply(update) = Applied(state)
      \/ /\ update.bar # NoBar
         /\ state.bar = NoBar \/ state.bar.minute = update.bar.minute
         /\ Apply(update) = Applied([ state EXCEPT !.bar = update.bar ])
      \/ /\ update.bar # NoBar /\ state.bar # NoBar
         /\ update.bar.minute > state.bar.minute
         /\ Apply(update) = Applied(NextBar(state, update.bar))
  <2>a. Apply(update) = Refused(state) \/ Apply(update) = ApplyBar(state, update.bar)
    BY <1>d DEF Apply
  <2>b. ApplyBar(state, update.bar) # Refused(state) =>
          \/ update.bar = NoBar /\ ApplyBar(state, update.bar) = Applied(state)
          \/ /\ update.bar # NoBar
             /\ state.bar = NoBar \/ state.bar.minute = update.bar.minute
             /\ ApplyBar(state, update.bar) = Applied([ state EXCEPT !.bar = update.bar ])
          \/ /\ update.bar # NoBar /\ state.bar # NoBar
             /\ update.bar.minute > state.bar.minute
             /\ ApplyBar(state, update.bar) = Applied(NextBar(state, update.bar))
    BY DEF ApplyBar
  <2> QED  BY <2>a, <2>b
<1>f. CASE Apply(update) = Refused(state)
  <2>a. EventRefused(state)
    BY <1>a, <1>f DEF Refused
  <2>b. EndSession(state) \/ NextAttempt(state) \/ Stop
    BY <2>a DEF EventRefused, CommandFails
  <2> QED  BY <1>c, <1>d, <2>b, Leaving, Stopping
<1>g. ASSUME NEW next, Apply(update) = Applied(next)
      PROVE  /\ market' = next
             /\ UNCHANGED <<transport, io, reconciliation, advanced, decidedOn>>
  BY <1>a, <1>g DEF Applied, runVars
<1>h. CASE update.bar = NoBar /\ Apply(update) = Applied(state)
  <2>a. /\ market' = state /\ UNCHANGED venueBars
        /\ UNCHANGED <<transport, io, reconciliation, advanced, decidedOn>>
    BY <1>a, <1>g, <1>h
  <2>b. /\ io' \in IoPlaces /\ EmptyBefore' /\ BarIsFresh' /\ QuotesAreCurrent'
        /\ reconciliation' \in Dates /\ ReconciliationIsDated'
    BY <1>d, <2>a
    DEF SignalInv, SignalTypes, EmptyBefore, BarIsFresh, Receives, QuotesAreCurrent,
        SidesAreDated, ReconciliationIsDated
  <2> QED  BY <1>c, <1>d, <2>a, <2>b, BarsStaying
<1>i. CASE /\ update.bar # NoBar
           /\ \/ /\ state.bar = NoBar \/ state.bar.minute = update.bar.minute
                 /\ Apply(update) = Applied([ state EXCEPT !.bar = update.bar ])
              \/ /\ state.bar # NoBar /\ update.bar.minute > state.bar.minute
                 /\ Apply(update) = Applied(NextBar(state, update.bar))
  <2>a. /\ UNCHANGED <<transport, io, reconciliation, advanced, decidedOn>>
        /\ \/ /\ state.bar = NoBar \/ state.bar.minute = update.bar.minute
              /\ market' = [ state EXCEPT !.bar = update.bar ]
           \/ /\ state.bar # NoBar /\ update.bar.minute > state.bar.minute
              /\ market' = NextBar(state, update.bar)
    BY <1>g, <1>i
  <2>b. PICK bar \in Bars : bar = update.bar
    BY <1>c, <1>i
  <2> QED  BY <1>b, <1>c, <1>d, <1>i, <2>a, <2>b, UpdateApplied
<1> QED  BY <1>e, <1>f, <1>h, <1>i

\* The main thread takes candles one after another.
LEMMA MainKeeps ==
  ASSUME SignalInv, MainThread, UNCHANGED <<marketVars, history>>
  PROVE  SignalInv'
<1> USE DEF SignalInv
<1>known. Later /\ UNCHANGED <<clock, venueBars, history>>
  BY SameTime DEF marketVars
<1>a. CASE StartRun
  BY <1>a, <1>known
  DEF StartRun, ioVars, SignalTypes, EmptyBefore, BarIsFresh, Receives,
      CompletedAreFinal, AllFinal, Final, InMinutes, AllBefore, QuotesAreCurrent,
      ReconciliationIsDated, EvidenceIsOfOneConnection, Minute
<1>b. CASE StopRun
  BY <1>known, <1>b, Stopping DEF StopRun
<1>c. ASSUME TakeCompleted, TakenFromQueue,
             UNCHANGED <<decidedOn, transport, io, reconciliation>>
      PROVE  SignalInv'
  <2>a. /\ CompletedAreFinal' /\ market' \in Markets
        /\ UNCHANGED <<market.bid, market.ask, market.bar>> /\ advanced' \in Seq(Bars)
    BY <1>known, <1>c, CompletedTaken
  <2>b. market.completed # <<>>
    BY <1>c DEF TakeCompleted
  <2>c. SignalTypes' /\ EmptyBefore'
    BY <1>known, <1>c, <2>a, <2>b DEF SignalTypes, EmptyBefore
  <2>d. BarIsFresh' /\ QuotesAreCurrent'
    BY <1>known, <1>c, <2>a DEF BarIsFresh, Receives, QuotesAreCurrent
  <2>e. ReconciliationIsDated' /\ EvidenceIsOfOneConnection'
    BY <1>c DEF ReconciliationIsDated, EvidenceIsOfOneConnection
  <2> QED  BY <2>a, <2>c, <2>d, <2>e
<1>d. ASSUME TakeCompleted, DisconnectGateway, UNCHANGED decidedOn
      PROVE  SignalInv'
  <2>a. CompletedAreFinal' /\ advanced' \in Seq(Bars)
    BY <1>known, <1>d, TakenAndEmptied DEF DisconnectGateway
  <2>b. EvidenceIsOfOneConnection'
    BY <1>d DEF EvidenceIsOfOneConnection
  <2> QED  BY <1>known, <1>d, <2>a, <2>b, Disconnecting
<1>e. ASSUME AdvanceFirst \/ ObserveNothing \/ ObserveSignal
      PROVE  SignalInv'
  BY <1>c, <1>d, <1>e DEF AdvanceFirst, ObserveNothing, ObserveSignal, RequestContext
<1> QED  BY <1>a, <1>b, <1>e DEF MainThread

\* Every step keeps the invariant.
LEMMA SignalKeeps == SignalInv /\ [SignalNext]_signalVars => SignalInv'
<1> SUFFICES ASSUME SignalInv, [SignalNext]_signalVars PROVE SignalInv'
  OBVIOUS
<1>a. CASE UNCHANGED signalVars
  BY <1>a
  DEF signalVars, marketVars, ioVars, runVars, SignalInv, SignalTypes, EmptyBefore,
      BarIsFresh, Receives, CompletedAreFinal, AllFinal, Final, InMinutes, AllBefore,
      QuotesAreCurrent, ReconciliationIsDated, EvidenceIsOfOneConnection, Minute
<1>b. CASE SignalNext
  BY <1>b, OutsideKeeps, StartingKeeps, HandlingKeeps, AnsweringKeeps, RecoveringKeeps,
     MainKeeps
  DEF SignalNext
<1> QED  BY <1>a, <1>b

\* And so it holds for ever.
LEMMA SignalSafe == SignalSpec => []SignalInv
BY SignalBegins, SignalKeeps, PTL DEF SignalSpec

\* The strategies see final bars only, each at most once and in order,
\* whatever is lost, refused or revised meanwhile.
THEOREM StrategiesSeeFinalBars == SignalSpec => []CandlesAreFinal
BY SignalSafe, FinalCandles, PTL

\* What arms the run, and what an order is decided on, is of one connection.
THEOREM DecisionsAreCurrent == SignalSpec => []EvidenceIsOfOneConnection
<1>a. SignalInv => EvidenceIsOfOneConnection
  BY DEF SignalInv
<1> QED  BY <1>a, SignalSafe, PTL
================================================================================
