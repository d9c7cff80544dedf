---------------------------- MODULE MCOrderLifecycle ----------------------------
(***************************************************************************)
(* Small instances of OrderLifecycle for TLC.                              *)
(***************************************************************************)
EXTENDS OrderLifecycle, TLC

CONSTANTS o1, o2

TwoOrders == [ o \in { o1, o2 } |-> 2 ]

KeySymmetry == Permutations(Keys)
================================================================================
