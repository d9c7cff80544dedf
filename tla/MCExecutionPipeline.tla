-------------------------- MODULE MCExecutionPipeline --------------------------
(***************************************************************************)
(* A small instance of the trading pipeline, and the property that sums    *)
(* over its orders.                                                        *)
(***************************************************************************)
EXTENDS ExecutionPipeline, FiniteSetsExt, TLC

EngineSymmetry == Permutations(Engines)

\* What the engine has booked of an order: its context counts while there is
\* one; without one the order is complete and booked as the store has it.
Booked(e, o) ==
  IF o \in DOMAIN contexts[e] THEN contexts[e][o].cumulative
  ELSE records[o].filled

Total(e, side) ==
  LET booked(o) == Booked(e, o)
  IN  MapThenSumSet(booked, { o \in DOMAIN records : issuer[o] = <<e, side>> })

(***************************************************************************)
(* The portfolio holds of each symbol what its own engine's orders bought  *)
(* less what they sold, plus what pending orders moved: no fill is booked  *)
(* twice, by the wrong engine or not at all, however partial fills, late   *)
(* fills, cancels and colliding identities follow each other.              *)
(***************************************************************************)
BooksFollowFills ==
  \A e \in Engines :
    position[e] = Total(e, "Buy") - Total(e, "Sell") + localFills[e]
================================================================================
