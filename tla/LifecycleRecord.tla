---------------------------- MODULE LifecycleRecord ----------------------------
(***************************************************************************)
(* The order lifecycle record of OrderLifecycleStore and the pure part of  *)
(* its operations: given a record, the keys the store has applied and an   *)
(* event, which result the store returns and which record it leaves.       *)
(*                                                                         *)
(* Quantities are the integer units of Decimal64 at the order's own scale. *)
(* The audit history, the failure category and the reason text are left    *)
(* out: nothing the store decides reads them.                              *)
(***************************************************************************)
EXTENDS Integers

LifecycleStates ==
  { "Created", "RiskChecked", "Submitted", "Accepted", "PartiallyFilled",
    "Filled", "CancelRequested", "Canceled", "Expired", "Rejected",
    "Timeout", "Unknown", "Reconciled" }

TerminalStates == { "Filled", "Canceled", "Expired", "Rejected", "Reconciled" }

\* The states a reconciliation may resolve an order to.
ResolvedStates ==
  { "Filled", "PartiallyFilled", "Canceled", "Expired", "Rejected" }

Unresolved == "unresolved"     \* std::nullopt in reconciledState

(***************************************************************************)
(* The transition table: a disjunct per target, with the states it may be  *)
(* entered from.  No state is entered from a terminal one.                 *)
(***************************************************************************)
CanTransition(from, to) ==
  /\ from \notin TerminalStates
  /\ \/ to = "RiskChecked" /\ from = "Created"
     \/ to = "Submitted" /\ from = "RiskChecked"
     \/ to \in { "Accepted", "Rejected" } /\ from = "Submitted"
     \/ /\ to \in { "PartiallyFilled", "Filled" }
        /\ from \in { "Submitted", "Accepted", "PartiallyFilled",
                      "CancelRequested", "Timeout", "Unknown" }
     \/ to = "CancelRequested" /\ from \in { "Accepted", "PartiallyFilled" }
     \/ /\ to \in { "Canceled", "Expired" }
        /\ from \in { "Accepted", "PartiallyFilled", "CancelRequested", "Unknown" }
     \/ /\ to \in { "Timeout", "Unknown" }
        /\ from \in { "Submitted", "Accepted", "PartiallyFilled",
                      "CancelRequested", "Timeout" }
     \/ /\ to = "Reconciled"
        /\ from \in { "Unknown", "Timeout", "CancelRequested", "PartiallyFilled" }

--------------------------------------------------------------------------------

\* A record that create() has just stored for a request of qty units.
NewRecord(qty, ts, seq) ==
  [ state      |-> "Created",  preCancel |-> "Created",
    reconciled |-> Unresolved, requested |-> qty,
    filled     |-> 0,          remaining |-> qty,
    lastTs     |-> ts,         lastSeq   |-> seq ]

(***************************************************************************)
(* Sequence numbers decide when both sides carry one; otherwise the time   *)
(* stamps do, and an event without either is never older.                  *)
(***************************************************************************)
EventIsOlder(r, e) ==
  IF e.seq > 0 /\ r.lastSeq > 0
  THEN e.seq <= r.lastSeq
  ELSE e.ts > 0 /\ r.lastTs > 0 /\ e.ts < r.lastTs

ValidQuantities(r, cumulative, remaining) ==
  cumulative >= 0 /\ remaining >= 0 /\ cumulative + remaining = r.requested

\* Every operation that applies leaves the event's position in the record.
Stamped(r, e, next) ==
  [ r EXCEPT !.state = next, !.lastTs = e.ts, !.lastSeq = e.seq ]

(***************************************************************************)
(* transition(): markRiskChecked, markSubmitted, markTimeout, markUnknown. *)
(***************************************************************************)
TransitionResult(r, keys, e, next) ==
  IF e.key \in keys THEN "Duplicate"
  ELSE IF EventIsOlder(r, e) THEN "InvalidEvent"
  ELSE IF CanTransition(r.state, next) THEN "Applied"
  ELSE "InvalidTransition"

(***************************************************************************)
(* applyAcknowledgement().  e.accepted is the provider's verdict and       *)
(* e.identified says that it named an external order.                      *)
(***************************************************************************)
AckState(e) == IF e.accepted THEN "Accepted" ELSE "Rejected"

AckResult(r, keys, e) ==
  IF e.key \notin keys /\ e.accepted /\ ~e.identified
  THEN "InvalidEvent"
  ELSE TransitionResult(r, keys, e, AckState(e))

AckRecord(r, e) == Stamped(r, e, AckState(e))

(***************************************************************************)
(* applyExecution().  e.conforms stands for the checks on data the store   *)
(* only compares: positive price, fee not negative, same side and effect.  *)
(***************************************************************************)
FillState(e) == IF e.remaining = 0 THEN "Filled" ELSE "PartiallyFilled"

\* Mutant: the two quantities are not compared with the request.
FillIsValid_Unsummed(r, e) == e.conforms /\ e.cumulative >= r.filled

\* Mutant: a report with less filled than before is taken.
FillIsValid_Falling(r, e) ==
  ValidQuantities(r, e.cumulative, e.remaining) /\ e.conforms

FillIsValid(r, e) ==
  /\ ValidQuantities(r, e.cumulative, e.remaining)
  /\ e.conforms
  /\ e.cumulative >= r.filled

FillResult(r, keys, e) ==
  IF e.key \notin keys /\ ~FillIsValid(r, e)
  THEN "InvalidEvent"
  ELSE TransitionResult(r, keys, e, FillState(e))

FillRecord(r, e) ==
  [ Stamped(r, e, FillState(e)) EXCEPT
      !.filled = e.cumulative, !.remaining = e.remaining ]

(***************************************************************************)
(* requestCancel() and applyCancelResult(): an event that is older is an   *)
(* invalid transition here, where the other operations call it invalid.    *)
(***************************************************************************)
CancelRequestResult(r, keys, e) ==
  IF e.key \in keys THEN "Duplicate"
  ELSE IF ~EventIsOlder(r, e) /\ CanTransition(r.state, "CancelRequested")
       THEN "Applied"
  ELSE "InvalidTransition"

\* Mutant: a refused cancel always goes back to Accepted.
CancelRequestRecord_Accepted(r, e) ==
  [ Stamped(r, e, "CancelRequested") EXCEPT !.preCancel = "Accepted" ]

CancelRequestRecord(r, e) ==
  [ Stamped(r, e, "CancelRequested") EXCEPT !.preCancel = r.state ]

CancelDispositions ==
  { "Accepted", "AlreadyCanceled", "AlreadyFilled", "Rejected", "Unknown" }

CancelResultState(r, disposition) ==
  IF disposition \in { "Accepted", "AlreadyCanceled" } THEN "Canceled"
  ELSE IF disposition = "AlreadyFilled" THEN "Filled"
  ELSE IF disposition = "Rejected" THEN r.preCancel
  ELSE "Unknown"

\* Mutant: no cancel need be in flight.
CancelResultResult_Unmatched(r, keys, e) ==
  IF e.key \in keys THEN "Duplicate"
  ELSE IF EventIsOlder(r, e) THEN "InvalidTransition"
  ELSE IF e.disposition = "AlreadyFilled" /\ r.remaining # 0 THEN "InvalidEvent"
  ELSE "Applied"

CancelResultResult(r, keys, e) ==
  IF e.key \in keys THEN "Duplicate"
  ELSE IF EventIsOlder(r, e) \/ r.state # "CancelRequested"
       THEN "InvalidTransition"
  ELSE IF e.disposition = "AlreadyFilled" /\ r.remaining # 0 THEN "InvalidEvent"
  ELSE "Applied"

CancelResultRecord(r, e) == Stamped(r, e, CancelResultState(r, e.disposition))

(***************************************************************************)
(* applyReconciliation().                                                  *)
(***************************************************************************)
\* Mutant: an order may be resolved to any state.
ReconcileResult_AnyState(r, keys, e) ==
  IF e.key \in keys THEN "Duplicate"
  ELSE IF EventIsOlder(r, e) \/ ~ValidQuantities(r, e.cumulative, e.remaining)
       THEN "InvalidEvent"
  ELSE IF CanTransition(r.state, "Reconciled") THEN "Applied"
  ELSE "InvalidTransition"

ReconcileResult(r, keys, e) ==
  IF e.key \in keys THEN "Duplicate"
  ELSE IF EventIsOlder(r, e) \/ ~ValidQuantities(r, e.cumulative, e.remaining)
       THEN "InvalidEvent"
  ELSE IF /\ CanTransition(r.state, "Reconciled")
          /\ e.resolved \in ResolvedStates
       THEN "Applied"
  ELSE "InvalidTransition"

ReconcileRecord(r, e) ==
  [ Stamped(r, e, "Reconciled") EXCEPT
      !.reconciled = e.resolved,
      !.filled = e.cumulative, !.remaining = e.remaining ]
================================================================================
