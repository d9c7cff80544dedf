-------------------------- MODULE OneShotCommissioning --------------------------
(***************************************************************************)
(* What a commissioning run promises, whatever the session and the venue   *)
(* do: the account sees at most one entry, one close and one residual      *)
(* close, each at most once and one after the other, no close is larger    *)
(* than the position it closes, and success is reported only for a         *)
(* complete entry that is flat again.                                      *)
(*                                                                         *)
(* The promise is about the account, so its state is the account's: what   *)
(* was asked and filled of each leg, and which legs may still fill.        *)
(* DemoCommissioning implements it.                                        *)
(***************************************************************************)
EXTENDS Integers

CONSTANT Qty      \* units of the minimum volume the entry asks for

ASSUME QuantityAssumption == Qty \in Nat \ {0}

VARIABLES
  asked,    \* the volume placed for each leg, 0 if it never was
  filled,   \* the part of it that was filled
  live,     \* the legs that may still be filled
  outcome   \* what the run reported

vars == <<asked, filled, live, outcome>>

Legs == { "Entry", "Close", "Residual" }

Outcomes ==
  { "none", "NoEligibleSignal", "ReadOnly", "Failed", "RecoveryRequired",
    "Succeeded" }

\* The open volume of the position.
Exposure == filled["Entry"] - filled["Close"] - filled["Residual"]

\* What a leg may still be filled with.
Rest(l) == IF l \in live THEN asked[l] - filled[l] ELSE 0

Init ==
  /\ asked = [ l \in Legs |-> 0 ]
  /\ filled = [ l \in Legs |-> 0 ]
  /\ live = {}
  /\ outcome = "none"

Place(l, q) ==
  /\ outcome = "none" /\ live = {} /\ asked[l] = 0
  /\ asked' = [ asked EXCEPT ![l] = q ]
  /\ live' = { l }
  /\ UNCHANGED <<filled, outcome>>

\* Mutant: the entry asks for one unit too many.
PlaceEntry_Larger == Place("Entry", Qty + 1)

PlaceEntry == Place("Entry", Qty)

PlaceClose ==
  /\ asked["Residual"] = 0
  /\ \E q \in 1 .. Qty : q <= Exposure /\ Place("Close", q)

\* The first close may never have reached the venue.
PlaceResidual == \E q \in 1 .. Qty : q <= Exposure /\ Place("Residual", q)

\* A leg is over when it is filled completely, or when the venue gives it up.
Fill(l, n) ==
  /\ l \in live /\ n <= Rest(l)
  /\ filled' = [ filled EXCEPT ![l] = @ + n ]
  /\ live' = IF n = Rest(l) THEN live \ { l } ELSE live
  /\ UNCHANGED <<asked, outcome>>

GiveUp(l) ==
  /\ l \in live
  /\ live' = live \ { l }
  /\ UNCHANGED <<asked, filled, outcome>>

Earned == live = {} /\ filled["Entry"] = Qty /\ Exposure = 0

Report(result) ==
  /\ outcome = "none" /\ result # "none"
  /\ result = "Succeeded" => Earned
  /\ outcome' = result
  /\ UNCHANGED <<asked, filled, live>>

Next ==
  \/ PlaceEntry \/ PlaceClose \/ PlaceResidual
  \/ \E l \in Legs : GiveUp(l) \/ \E n \in 1 .. Qty : Fill(l, n)
  \/ \E result \in Outcomes : Report(result)

Spec == Init /\ [][Next]_vars

--------------------------------------------------------------------------------
(***************************************************************************)
(* Properties.                                                             *)
(***************************************************************************)

\* Volumes stay between nothing and the entry's minimum volume.
TypeOK ==
  /\ asked \in [ Legs -> 0 .. Qty ]
  /\ filled \in [ Legs -> 0 .. Qty ]
  /\ live \in SUBSET Legs
  /\ outcome \in Outcomes

(***************************************************************************)
(* Whatever may still be filled, the two closes together never take more   *)
(* out of the account than the entry brought in: no run can turn the       *)
(* position over (the native close is sent with a volume, and the residual *)
(* close is sized from a later snapshot than the first close was).         *)
(***************************************************************************)
NeverOverclosed == Rest("Close") + Rest("Residual") <= Exposure

(***************************************************************************)
(* Success means a complete entry, an account that is flat, and no leg     *)
(* that could still change it: no event after the report undoes it.        *)
(***************************************************************************)
SuccessIsFlat == outcome = "Succeeded" => Earned

(***************************************************************************)
(* No leg is placed a second time, and none while another may still fill:  *)
(* an entry or close whose fate is not known is not sent again.            *)
(***************************************************************************)
PlacedAlone ==
  \A l \in Legs :
    asked'[l] # asked[l] => asked[l] = 0 /\ live = {} /\ live' = { l }

PlacedOnce == [][PlacedAlone]_vars
================================================================================
