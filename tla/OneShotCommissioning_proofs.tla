----------------------- MODULE OneShotCommissioning_proofs -----------------------
(***************************************************************************)
(* The promise of a commissioning run holds for every minimum volume.  The *)
(* inductive invariant adds to the properties that no leg is filled beyond *)
(* what was placed for it: without it, a leg that was never placed could   *)
(* already have taken a part of the position.                              *)
(***************************************************************************)
EXTENDS OneShotCommissioning, TLAPS

NeverOverfilled == \A l \in Legs : filled[l] <= asked[l]

IInv == TypeOK /\ NeverOverfilled /\ NeverOverclosed /\ SuccessIsFlat

\* Nothing is open before anything is placed.
LEMMA Initially == Init => IInv
  BY QuantityAssumption
  DEF Init, IInv, TypeOK, NeverOverfilled, NeverOverclosed, SuccessIsFlat,
      Rest, Exposure, Legs, Outcomes

(***************************************************************************)
(* Placing a leg keeps the invariant if the leg is no larger than what the *)
(* closes may still take: for the entry nothing, so any volume will do.    *)
(***************************************************************************)
LEMMA PlacingKeeps ==
  ASSUME IInv, NEW l \in Legs, NEW q \in 1 .. Qty, Place(l, q),
         l # "Entry" => q <= Exposure
  PROVE  IInv'
<1> USE QuantityAssumption
<1>1. TypeOK'
  BY DEF IInv, TypeOK, Place
<1>2. NeverOverfilled'
  BY DEF IInv, TypeOK, NeverOverfilled, Place, Legs
<1>3. filled[l] = 0
  BY DEF IInv, TypeOK, NeverOverfilled, Place, Legs
<1>4. NeverOverclosed'
  <2>1. 0 <= Exposure
    BY DEF IInv, NeverOverclosed, Place, Rest, Exposure
  <2>2. Exposure' = Exposure
    BY DEF Place, Exposure
  <2>3. \A k \in Legs : Rest(k)' = IF k = l THEN q ELSE 0
    BY <1>3 DEF IInv, TypeOK, Place, Rest, Legs
  <2> QED
    BY <2>1, <2>2, <2>3 DEF NeverOverclosed, Legs, IInv, TypeOK, Exposure
<1>5. SuccessIsFlat'
  BY DEF Place, SuccessIsFlat, Earned
<1> QED
  BY <1>1, <1>2, <1>4, <1>5 DEF IInv

\* A fill takes from what its leg has left, never from what another has.
LEMMA FillingKeeps ==
  ASSUME IInv, NEW l \in Legs, NEW n \in 1 .. Qty, Fill(l, n)
  PROVE  IInv'
<1> USE QuantityAssumption
<1>1. /\ l \in live /\ n <= asked[l] - filled[l]
      /\ asked[l] \in 0 .. Qty /\ filled[l] \in 0 .. Qty
  BY DEF Fill, Rest, IInv, TypeOK
<1>2. filled[l] + n \in 0 .. Qty /\ filled[l] + n <= asked[l]
  BY <1>1
<1>3. filled' = [ filled EXCEPT ![l] = filled[l] + n ]
  BY DEF Fill
<1>4. TypeOK'
  BY <1>2, <1>3 DEF IInv, TypeOK, Fill
<1>5. NeverOverfilled'
  BY <1>2, <1>3 DEF IInv, TypeOK, NeverOverfilled, Fill
<1>6. \A k \in Legs : Rest(k)' = IF k = l THEN Rest(k) - n ELSE Rest(k)
  BY <1>1, <1>3 DEF IInv, TypeOK, Fill, Rest
<1>7. Exposure' = IF l = "Entry" THEN Exposure + n ELSE Exposure - n
  BY <1>3 DEF IInv, TypeOK, Exposure, Legs
<1>8. /\ Exposure \in Int
      /\ \A k \in Legs : Rest(k) \in Int
  BY DEF IInv, TypeOK, Exposure, Rest, Legs
<1>9. NeverOverclosed'
  BY <1>6, <1>7, <1>8 DEF IInv, NeverOverclosed, Legs
<1>10. SuccessIsFlat'
  BY <1>1 DEF IInv, SuccessIsFlat, Earned, Fill
<1> QED
  BY <1>4, <1>5, <1>9, <1>10 DEF IInv

\* A leg that is given up only has less left to be filled.
LEMMA GivingUpKeeps ==
  ASSUME IInv, NEW l \in Legs, GiveUp(l)
  PROVE  IInv'
<1> USE QuantityAssumption
<1>1. TypeOK' /\ NeverOverfilled'
  BY DEF IInv, TypeOK, NeverOverfilled, GiveUp
<1>2. \A k \in Legs : Rest(k) \in Int /\ 0 <= Rest(k)
  BY DEF IInv, TypeOK, NeverOverfilled, Rest, Legs
<1>3. \A k \in Legs : Rest(k)' = IF k = l THEN 0 ELSE Rest(k)
  BY DEF GiveUp, Rest
<1>4. Exposure' = Exposure /\ Exposure \in Int
  BY DEF IInv, TypeOK, GiveUp, Exposure, Legs
<1>5. NeverOverclosed'
  BY <1>2, <1>3, <1>4 DEF IInv, NeverOverclosed, Legs
<1>6. SuccessIsFlat'
  BY DEF IInv, GiveUp, SuccessIsFlat, Earned
<1> QED
  BY <1>1, <1>5, <1>6 DEF IInv

\* Every step keeps the invariant, an action at a time.
LEMMA Stepwise == IInv /\ [Next]_vars => IInv'
<1> SUFFICES ASSUME IInv, [Next]_vars
             PROVE  IInv'
  OBVIOUS
<1> USE QuantityAssumption
<1>1. CASE PlaceEntry
  BY <1>1, PlacingKeeps DEF PlaceEntry, Legs
<1>2. CASE PlaceClose
  BY <1>2, PlacingKeeps DEF PlaceClose, Legs
<1>3. CASE PlaceResidual
  BY <1>3, PlacingKeeps DEF PlaceResidual, Legs
<1>4. ASSUME NEW l \in Legs, GiveUp(l)
      PROVE  IInv'
  BY <1>4, GivingUpKeeps
<1>5. ASSUME NEW l \in Legs, NEW n \in 1 .. Qty, Fill(l, n)
      PROVE  IInv'
  BY <1>5, FillingKeeps
<1>6. ASSUME NEW result \in Outcomes, Report(result)
      PROVE  IInv'
  BY <1>6
  DEF Report, IInv, TypeOK, NeverOverfilled, NeverOverclosed, SuccessIsFlat,
      Earned, Rest, Exposure
<1>7. CASE UNCHANGED vars
  BY <1>7
  DEF vars, IInv, TypeOK, NeverOverfilled, NeverOverclosed, SuccessIsFlat,
      Earned, Rest, Exposure
<1> QED
  BY <1>1, <1>2, <1>3, <1>4, <1>5, <1>6, <1>7 DEF Next

\* The inductive invariant holds in every state of every run.
THEOREM Inductive == Spec => []IInv
  BY Initially, Stepwise, PTL DEF Spec

\* Volumes stay within the entry's minimum volume, whatever is filled.
THEOREM TypeCorrect == Spec => []TypeOK
<1>1. IInv => TypeOK
  BY DEF IInv
<1> QED
  BY <1>1, Inductive, PTL

\* The two closes together never take out more than the entry brought in.
THEOREM NoOverclose == Spec => []NeverOverclosed
<1>1. IInv => NeverOverclosed
  BY DEF IInv
<1> QED
  BY <1>1, Inductive, PTL

\* A reported success is a complete entry and a flat account, for good.
THEOREM FlatSuccess == Spec => []SuccessIsFlat
<1>1. IInv => SuccessIsFlat
  BY DEF IInv
<1> QED
  BY <1>1, Inductive, PTL

\* The open position stays between flat and the minimum volume of the entry.
ExposureBounded == 0 <= Exposure /\ Exposure <= Qty

(***************************************************************************)
(* A run never holds a position on the other side, nor one larger than the *)
(* minimum volume, at any moment: not only at the end.                     *)
(***************************************************************************)
THEOREM BoundedExposure == Spec => []ExposureBounded
<1>1. IInv => ExposureBounded
  <2> SUFFICES ASSUME IInv PROVE ExposureBounded
    OBVIOUS
  <2> USE QuantityAssumption
  <2>1. \A l \in Legs : Rest(l) \in Int /\ 0 <= Rest(l)
    BY DEF IInv, TypeOK, NeverOverfilled, Rest, Legs
  <2>2. Exposure \in Int /\ Exposure <= Qty
    BY DEF IInv, TypeOK, Exposure, Legs
  <2> QED
    BY <2>1, <2>2 DEF IInv, NeverOverclosed, ExposureBounded, Legs
<1> QED
  BY <1>1, Inductive, PTL

\* No leg is placed twice, and none while another may still be filled.
THEOREM OnceAndAlone == Spec => PlacedOnce
<1>1. IInv /\ [Next]_vars => [PlacedAlone]_vars
  <2> SUFFICES ASSUME IInv, Next
               PROVE  PlacedAlone
    BY DEF vars
  <2>1. ASSUME NEW l \in Legs, NEW q \in 1 .. Qty, Place(l, q)
        PROVE  PlacedAlone
    BY <2>1 DEF PlacedAlone, Place, IInv, TypeOK
  <2> QED
    BY <2>1, QuantityAssumption
    DEF Next, PlaceEntry, PlaceClose, PlaceResidual, GiveUp, Fill, Report,
        PlacedAlone, Legs
<1> QED
  BY <1>1, Inductive, PTL DEF Spec, PlacedOnce
================================================================================
