------------------------------ MODULE RingBuffer -------------------------------
(***************************************************************************)
(* LockFreeRingBuffer: one producer and one consumer share an array and    *)
(* two indices, without a lock.  Each loads its own index and the other's  *)
(* (acquire), touches the slot, and stores its own index (release); the    *)
(* steps of the two sides interleave between any two of these.  Release    *)
(* and acquire order the access to the slot and the index that gives it    *)
(* away, so steps on one shared memory show all that the two can see.      *)
(***************************************************************************)
EXTENDS Naturals, Sequences

CONSTANTS
  RingValues,     \* what is pushed
  RingCapacity    \* the Capacity parameter: one slot always stays empty

ASSUME RingAssumption ==
  RingCapacity \in Nat /\ RingCapacity > 1 /\ RingValues # {}

VARIABLES
  data,         \* m_data
  head,         \* m_head, stored by the producer
  tail,         \* m_tail, stored by the consumer
  producer,     \* the push in progress: where it is, and its value
  consumer,     \* the pop in progress: where it is, and the value it read
  returned,     \* the value the last successful pop returned
  ringAnswers   \* what the last push and the last pop returned

ringVars == <<data, head, tail, producer, consumer, returned, ringAnswers>>

Indices == 0 .. (RingCapacity - 1)

\* increment()
Increment(i) == (i + 1) % RingCapacity

\* size()
RingSize == IF head >= tail THEN head - tail ELSE RingCapacity - (tail - head)

\* T{}, what the slots hold at first.
DefaultValue == CHOOSE v \in RingValues : TRUE

RingInit ==
  /\ data = [ i \in Indices |-> DefaultValue ] /\ head = 0 /\ tail = 0
  /\ producer = [ at |-> "idle", value |-> DefaultValue ]
  /\ consumer = [ at |-> "idle", value |-> DefaultValue ]
  /\ returned = DefaultValue /\ ringAnswers = [ push |-> TRUE, pop |-> TRUE ]

--------------------------------------------------------------------------------
(***************************************************************************)
(* push()                                                                  *)
(***************************************************************************)

CallPush(v) ==
  /\ producer.at = "idle"
  /\ producer' = [ at |-> "check", value |-> v ]
  /\ UNCHANGED <<data, head, tail, consumer, returned, ringAnswers>>

FindFull ==
  /\ producer.at = "check" /\ Increment(head) = tail
  /\ producer' = [ producer EXCEPT !.at = "idle" ]
  /\ ringAnswers' = [ ringAnswers EXCEPT !.push = FALSE ]
  /\ UNCHANGED <<data, head, tail, consumer, returned>>

\* Mutant: the last slot is used too.
FindRoom_LastSlot ==
  /\ producer.at = "check"
  /\ producer' = [ producer EXCEPT !.at = "write" ]
  /\ UNCHANGED <<data, head, tail, consumer, returned, ringAnswers>>

FindRoom ==
  /\ producer.at = "check" /\ Increment(head) # tail
  /\ producer' = [ producer EXCEPT !.at = "write" ]
  /\ UNCHANGED <<data, head, tail, consumer, returned, ringAnswers>>

WriteSlot ==
  /\ producer.at = "write"
  /\ data' = [ data EXCEPT ![head] = producer.value ]
  /\ producer' = [ producer EXCEPT !.at = "publish" ]
  /\ UNCHANGED <<head, tail, consumer, returned, ringAnswers>>

Publish ==
  /\ producer.at = "publish"
  /\ head' = Increment(head)
  /\ producer' = [ producer EXCEPT !.at = "idle" ]
  /\ ringAnswers' = [ ringAnswers EXCEPT !.push = TRUE ]
  /\ UNCHANGED <<data, tail, consumer, returned>>

--------------------------------------------------------------------------------
(***************************************************************************)
(* pop()                                                                   *)
(***************************************************************************)

FindEmpty ==
  /\ consumer.at = "idle" /\ tail = head
  /\ ringAnswers' = [ ringAnswers EXCEPT !.pop = FALSE ]
  /\ UNCHANGED <<data, head, tail, producer, consumer, returned>>

FindValue ==
  /\ consumer.at = "idle" /\ tail # head
  /\ consumer' = [ consumer EXCEPT !.at = "read" ]
  /\ UNCHANGED <<data, head, tail, producer, returned, ringAnswers>>

ReadSlot ==
  /\ consumer.at = "read"
  /\ consumer' = [ at |-> "release", value |-> data[tail] ]
  /\ UNCHANGED <<data, head, tail, producer, returned, ringAnswers>>

Release ==
  /\ consumer.at = "release"
  /\ tail' = Increment(tail)
  /\ returned' = consumer.value
  /\ consumer' = [ consumer EXCEPT !.at = "idle" ]
  /\ ringAnswers' = [ ringAnswers EXCEPT !.pop = TRUE ]
  /\ UNCHANGED <<data, head, producer>>

RingNext ==
  \/ \E v \in RingValues : CallPush(v)
  \/ FindFull \/ FindRoom \/ WriteSlot \/ Publish
  \/ FindEmpty \/ FindValue \/ ReadSlot \/ Release

RingSpec == RingInit /\ [][RingNext]_ringVars

--------------------------------------------------------------------------------

RingTypeOK ==
  /\ data \in [ Indices -> RingValues ]
  /\ head \in Indices /\ tail \in Indices
  /\ producer \in [ at : { "idle", "check", "write", "publish" },
                    value : RingValues ]
  /\ consumer \in [ at : { "idle", "read", "release" }, value : RingValues ]
  /\ returned \in RingValues
  /\ ringAnswers \in [ push : BOOLEAN, pop : BOOLEAN ]

\* The slots between the indices, oldest first.
Slot(i) ==
  IF tail + i - 1 < RingCapacity THEN tail + i - 1 ELSE tail + i - 1 - RingCapacity

Queued == [ i \in 1 .. RingSize |-> data[Slot(i)] ]

Fifo == INSTANCE BoundedFifo
          WITH FifoValues <- RingValues, Limit <- RingCapacity - 1,
               queue <- Queued, taken <- returned, answers <- ringAnswers

(***************************************************************************)
(* Between a push and a pop that run at the same time the ring is a queue  *)
(* of RingCapacity - 1 values: nothing is lost, doubled, reordered or read *)
(* before it was written, no push is refused while there is room and no    *)
(* pop misses while there is a value, at the moment each looks.            *)
(***************************************************************************)
RingIsFifo == Fifo!FifoSpec
================================================================================
