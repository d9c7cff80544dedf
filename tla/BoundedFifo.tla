------------------------------ MODULE BoundedFifo ------------------------------
(***************************************************************************)
(* What the feed and the engine expect of a ring: a queue of at most Limit *)
(* values, filled at one end and emptied at the other, where each call     *)
(* takes effect in one step: a value is queued, or refused because the     *)
(* queue is full; one is taken, or missed because the queue is empty.      *)
(***************************************************************************)
EXTENDS Naturals, Sequences

CONSTANTS FifoValues, Limit

VARIABLES
  queue,     \* the values queued, oldest first
  taken,     \* the value the last successful pop returned
  answers    \* what the last push and the last pop returned

fifoVars == <<queue, taken, answers>>

FifoInit ==
  /\ queue = <<>> /\ taken \in FifoValues
  /\ answers = [ push |-> TRUE, pop |-> TRUE ]

Enqueue(v) ==
  /\ Len(queue) < Limit /\ queue' = Append(queue, v)
  /\ answers' = [ answers EXCEPT !.push = TRUE ] /\ UNCHANGED taken

Refuse ==
  /\ Len(queue) = Limit /\ answers' = [ answers EXCEPT !.push = FALSE ]
  /\ UNCHANGED <<queue, taken>>

Dequeue ==
  /\ queue # <<>> /\ taken' = Head(queue) /\ queue' = Tail(queue)
  /\ answers' = [ answers EXCEPT !.pop = TRUE ]

Miss ==
  /\ queue = <<>> /\ answers' = [ answers EXCEPT !.pop = FALSE ]
  /\ UNCHANGED <<queue, taken>>

FifoNext == (\E v \in FifoValues : Enqueue(v)) \/ Refuse \/ Dequeue \/ Miss

FifoSpec == FifoInit /\ [][FifoNext]_fifoVars
================================================================================
