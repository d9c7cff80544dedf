------------------------- MODULE OrderLifecycle_proofs -------------------------
(***************************************************************************)
(* Proofs about OrderLifecycle for every set of orders and keys, every     *)
(* requested quantity and every bound.                                     *)
(*                                                                         *)
(* The invariants speak of one record at a time, so the inductive          *)
(* invariant is a predicate on a record, RecordInv.  Each operation gets a *)
(* lemma on records (an event that applies takes a good record to a good   *)
(* record); one more lemma lifts that to the store.                        *)
(***************************************************************************)
EXTENDS OrderLifecycle, TLAPS

(***************************************************************************)
(* The strengthening: a cancel in flight remembers a state a cancel can be *)
(* requested from.  Without it a refused cancel could restore any state,   *)
(* Filled and Created included.                                            *)
(***************************************************************************)
CancelRemembers(r) ==
  r.state = "CancelRequested" => r.preCancel \in { "Accepted", "PartiallyFilled" }

RecordInv(o, r) ==
  /\ r \in Record
  /\ r.requested = Requested[o]
  /\ r.filled + r.remaining = Requested[o]
  /\ r.state = "Filled" => r.remaining = 0
  /\ r.remaining = 0 => r.state \in { "Filled", "Reconciled" }
  /\ \/ r.state \in { "Created", "RiskChecked", "Submitted",
                      "Accepted", "Rejected" }
     \/ r.state = "CancelRequested" /\ r.preCancel = "Accepted"
     => r.filled = 0
  /\ CancelRemembers(r)

IInv ==
  /\ DOMAIN records \subseteq Orders
  /\ appliedKeys \subseteq Keys
  /\ \A o \in DOMAIN records : RecordInv(o, records[o])

\* An event's position as Next draws it.
Positions == [ key : Keys, ts : 0 .. MaxTs, seq : 0 .. MaxSeq ]

--------------------------------------------------------------------------------

\* A new record is a good one.
LEMMA NewRecordGood ==
  ASSUME NEW o \in Orders, NEW t \in 0 .. MaxTs, NEW s \in 0 .. MaxSeq
  PROVE  RecordInv(o, NewRecord(Requested[o], t, s))
BY RequestedAssumption
   DEF RecordInv, NewRecord, Record, LifecycleStates, CancelRemembers

\* A mark that applies leaves the quantities alone and a good record behind.
LEMMA MarkGood ==
  ASSUME NEW o \in Orders, NEW r, RecordInv(o, r), NEW e,
         e.key \in Keys, e.ts \in 0 .. MaxTs, e.seq \in 0 .. MaxSeq,
         NEW next \in { "RiskChecked", "Submitted", "Timeout", "Unknown" },
         CanTransition(r.state, next)
  PROVE  RecordInv(o, Stamped(r, e, next))
BY DEF RecordInv, Stamped, Record, LifecycleStates, CancelRemembers,
       CanTransition, TerminalStates,
       Unresolved, ResolvedStates

\* An acknowledgement that applies finds a submitted order without a fill.
LEMMA AckGood ==
  ASSUME NEW o \in Orders, NEW r, RecordInv(o, r), NEW e,
         e.key \in Keys, e.ts \in 0 .. MaxTs, e.seq \in 0 .. MaxSeq,
         e.accepted \in BOOLEAN, CanTransition(r.state, AckState(e))
  PROVE  RecordInv(o, AckRecord(r, e))
BY DEF RecordInv, AckRecord, AckState, Stamped, Record, LifecycleStates,
       CancelRemembers, CanTransition, TerminalStates, Unresolved, ResolvedStates

\* A fill that applies closes the order exactly when it leaves nothing.
LEMMA FillGood ==
  ASSUME NEW o \in Orders, NEW r, RecordInv(o, r), NEW e,
         e.key \in Keys, e.ts \in 0 .. MaxTs, e.seq \in 0 .. MaxSeq,
         e.cumulative \in Nat, e.remaining \in Nat,
         FillIsValid(r, e), CanTransition(r.state, FillState(e))
  PROVE  RecordInv(o, FillRecord(r, e))
BY DEF RecordInv, FillRecord, FillState, FillIsValid, ValidQuantities, Stamped,
       Record, LifecycleStates, CancelRemembers, CanTransition, TerminalStates,
       Unresolved, ResolvedStates

\* A cancel is requested from Accepted or PartiallyFilled, and remembers which.
LEMMA CancelRequestGood ==
  ASSUME NEW o \in Orders, NEW r, RecordInv(o, r), NEW e,
         e.key \in Keys, e.ts \in 0 .. MaxTs, e.seq \in 0 .. MaxSeq,
         CanTransition(r.state, "CancelRequested")
  PROVE  RecordInv(o, CancelRequestRecord(r, e))
BY DEF RecordInv, CancelRequestRecord, Stamped, Record, LifecycleStates,
       CancelRemembers, CanTransition, TerminalStates, Unresolved, ResolvedStates

(***************************************************************************)
(* A cancel result finds something left to fill, so AlreadyFilled never    *)
(* applies, and a refusal restores a state the remembered fill agrees with.*)
(***************************************************************************)
LEMMA CancelResultGood ==
  ASSUME NEW o \in Orders, NEW r, RecordInv(o, r), NEW e,
         e.key \in Keys, e.ts \in 0 .. MaxTs, e.seq \in 0 .. MaxSeq,
         e.disposition \in CancelDispositions,
         r.state = "CancelRequested",
         e.disposition = "AlreadyFilled" => r.remaining = 0
  PROVE  RecordInv(o, CancelResultRecord(r, e))
<1>1. r.remaining # 0 /\ e.disposition # "AlreadyFilled"
  BY DEF RecordInv
<1>2. CancelResultState(r, e.disposition) \in
        { "Canceled", "Unknown", "Accepted", "PartiallyFilled" }
  BY <1>1 DEF CancelResultState, RecordInv, CancelRemembers
<1>3. CancelResultState(r, e.disposition) = "Accepted" => r.preCancel = "Accepted"
  BY DEF CancelResultState
<1> QED
  BY <1>1, <1>2, <1>3
     DEF RecordInv, CancelResultRecord, Stamped, Record, LifecycleStates,
         CancelRemembers, Unresolved, ResolvedStates

\* A reconciliation that applies leaves a conserved, terminal record.
LEMMA ReconcileGood ==
  ASSUME NEW o \in Orders, NEW r, RecordInv(o, r), NEW e,
         e.key \in Keys, e.ts \in 0 .. MaxTs, e.seq \in 0 .. MaxSeq,
         e.cumulative \in Nat, e.remaining \in Nat,
         ValidQuantities(r, e.cumulative, e.remaining),
         e.resolved \in ResolvedStates
  PROVE  RecordInv(o, ReconcileRecord(r, e))
BY DEF RecordInv, ReconcileRecord, ValidQuantities, Stamped, Record,
       LifecycleStates, CancelRemembers, Unresolved, ResolvedStates

--------------------------------------------------------------------------------

\* A good record committed to the store leaves a good store.
LEMMA CommitGood ==
  ASSUME IInv, NEW o \in DOMAIN records, NEW r, NEW k \in Keys,
         RecordInv(o, r), Commit(o, r, k)
  PROVE  IInv'
BY DEF IInv, Commit, RecordInv, CancelRemembers

\* Creating an order adds one good record and leaves the others alone.
LEMMA CreateGood ==
  ASSUME IInv, NEW o \in Orders, NEW e \in Positions, Create(o, e)
  PROVE  IInv'
<1>1. RecordInv(o, NewRecord(Requested[o], e.ts, e.seq))
  BY NewRecordGood DEF Positions
<1> QED
  BY <1>1 DEF IInv, Create, RecordInv, Positions, CancelRemembers

--------------------------------------------------------------------------------

(***************************************************************************)
(* What an operation does when it applies, apart from the record it        *)
(* leaves: the facts the step proofs below share.                          *)
(***************************************************************************)
LEMMA MarkApplied ==
  ASSUME NEW o, NEW e, NEW next, Mark(o, e, next)
  PROVE  /\ o \in DOMAIN records /\ CanTransition(records[o].state, next)
         /\ Commit(o, Stamped(records[o], e, next), e.key)
BY DEF Mark, TransitionResult

\* Every operation of the store keeps the invariant.
LEMMA StepPreservesIInv == IInv /\ [Next]_vars => IInv'
<1> SUFFICES ASSUME IInv, [Next]_vars PROVE IInv'
  OBVIOUS
<1>1. ASSUME NEW o \in Orders, NEW e \in Positions, Apply(o, e)
      PROVE  IInv'
  <2> e.key \in Keys /\ e.ts \in 0 .. MaxTs /\ e.seq \in 0 .. MaxSeq
    BY DEF Positions
  <2> o \in DOMAIN records => RecordInv(o, records[o])
    BY DEF IInv
  <2>1. CASE Create(o, e)
    BY <2>1, CreateGood
  <2>2. ASSUME NEW next \in { "RiskChecked", "Submitted", "Timeout", "Unknown" },
               Mark(o, e, next)
        PROVE  IInv'
    <3>1. /\ o \in DOMAIN records /\ CanTransition(records[o].state, next)
          /\ Commit(o, Stamped(records[o], e, next), e.key)
      BY <2>2, MarkApplied
    <3>2. RecordInv(o, Stamped(records[o], e, next))
      BY <3>1, MarkGood
    <3> QED
      BY <3>1, <3>2, CommitGood
  <2>3. ASSUME NEW accepted \in BOOLEAN, NEW identified \in BOOLEAN,
               ApplyAcknowledgement(o, e, accepted, identified)
        PROVE  IInv'
    <3> DEFINE ack == [ key |-> e.key, ts |-> e.ts, seq |-> e.seq,
                        accepted |-> accepted, identified |-> identified ]
    <3>1. /\ o \in DOMAIN records
          /\ AckResult(records[o], appliedKeys, ack) = "Applied"
          /\ Commit(o, AckRecord(records[o], ack), ack.key)
      BY <2>3 DEF ApplyAcknowledgement
    <3>2. CanTransition(records[o].state, AckState(ack))
      BY <3>1 DEF AckResult, TransitionResult
    <3>3. RecordInv(o, AckRecord(records[o], ack))
      BY <3>1, <3>2, AckGood
    <3> QED
      BY <3>1, <3>3, CommitGood
  <2>4. ASSUME NEW cumulative \in Reports(o), NEW remaining \in Reports(o),
               NEW conforms \in BOOLEAN,
               ApplyExecution(o, e, cumulative, remaining, conforms)
        PROVE  IInv'
    <3> DEFINE fill == [ key |-> e.key, ts |-> e.ts, seq |-> e.seq,
                         cumulative |-> cumulative, remaining |-> remaining,
                         conforms |-> conforms ]
    <3>1. /\ o \in DOMAIN records
          /\ FillResult(records[o], appliedKeys, fill) = "Applied"
          /\ Commit(o, FillRecord(records[o], fill), fill.key)
      BY <2>4 DEF ApplyExecution
    <3>2. /\ FillIsValid(records[o], fill)
          /\ CanTransition(records[o].state, FillState(fill))
      BY <3>1 DEF FillResult, TransitionResult
    <3>3. fill.cumulative \in Nat /\ fill.remaining \in Nat
      BY RequestedAssumption DEF Reports
    <3>4. RecordInv(o, FillRecord(records[o], fill))
      BY <3>1, <3>2, <3>3, FillGood
    <3> QED
      BY <3>1, <3>4, CommitGood
  <2>5. CASE RequestCancel(o, e)
    <3>1. /\ o \in DOMAIN records
          /\ CanTransition(records[o].state, "CancelRequested")
          /\ Commit(o, CancelRequestRecord(records[o], e), e.key)
      BY <2>5 DEF RequestCancel, CancelRequestResult
    <3> QED
      BY <3>1, CancelRequestGood, CommitGood
  <2>6. ASSUME NEW disposition \in CancelDispositions,
               ApplyCancelResult(o, e, disposition)
        PROVE  IInv'
    <3> DEFINE result == [ key |-> e.key, ts |-> e.ts, seq |-> e.seq,
                           disposition |-> disposition ]
    <3>1. /\ o \in DOMAIN records
          /\ CancelResultResult(records[o], appliedKeys, result) = "Applied"
          /\ Commit(o, CancelResultRecord(records[o], result), result.key)
      BY <2>6 DEF ApplyCancelResult
    <3>2. /\ records[o].state = "CancelRequested"
          /\ result.disposition = "AlreadyFilled" => records[o].remaining = 0
      BY <3>1 DEF CancelResultResult
    <3>3. RecordInv(o, CancelResultRecord(records[o], result))
      BY <3>1, <3>2, CancelResultGood
    <3> QED
      BY <3>1, <3>3, CommitGood
  <2>7. ASSUME NEW resolved \in LifecycleStates, NEW cumulative \in Reports(o),
               NEW remaining \in Reports(o),
               ApplyReconciliation(o, e, resolved, cumulative, remaining)
        PROVE  IInv'
    <3> DEFINE report == [ key |-> e.key, ts |-> e.ts, seq |-> e.seq,
                           resolved |-> resolved, cumulative |-> cumulative,
                           remaining |-> remaining ]
    <3>1. /\ o \in DOMAIN records
          /\ ReconcileResult(records[o], appliedKeys, report) = "Applied"
          /\ Commit(o, ReconcileRecord(records[o], report), report.key)
      BY <2>7 DEF ApplyReconciliation
    <3>2. /\ ValidQuantities(records[o], report.cumulative, report.remaining)
          /\ report.resolved \in ResolvedStates
      BY <3>1 DEF ReconcileResult
    <3>3. report.cumulative \in Nat /\ report.remaining \in Nat
      BY RequestedAssumption DEF Reports
    <3>4. RecordInv(o, ReconcileRecord(records[o], report))
      BY <3>1, <3>2, <3>3, ReconcileGood
    <3> QED
      BY <3>1, <3>4, CommitGood
  <2> QED
    BY <1>1, <2>1, <2>2, <2>3, <2>4, <2>5, <2>6, <2>7
       DEF Apply, MarkRiskChecked, MarkSubmitted, MarkTimeout, MarkUnknown
<1>2. CASE Next
  <2>1. PICK o \in Orders, k \in Keys, t \in 0 .. MaxTs, s \in 0 .. MaxSeq :
          Apply(o, Position(k, t, s))
    BY <1>2 DEF Next
  <2>2. Position(k, t, s) \in Positions
    BY DEF Position, Positions
  <2> QED
    BY <1>1, <2>1, <2>2
<1>3. CASE UNCHANGED vars
  BY <1>3 DEF vars, IInv, RecordInv, CancelRemembers
<1> QED
  BY <1>2, <1>3

\* The inductive invariant holds in every reachable state.
THEOREM Inductive == Spec => []IInv
<1>1. Init => IInv
  BY DEF Init, IInv
<1> QED
  BY <1>1, StepPreservesIInv, PTL DEF Spec

(***************************************************************************)
(* The store never holds a value outside the record type, whatever its     *)
(* callers pass in whatever order (OrderLifecycleStore, every operation).  *)
(***************************************************************************)
THEOREM TypeCorrect == Spec => []TypeOK
<1>1. IInv => TypeOK
  BY DEF IInv, TypeOK, RecordInv
<1> QED
  BY <1>1, Inductive, PTL

(***************************************************************************)
(* Filled and remaining quantity add up to the request in every record     *)
(* that create, fills, cancels and reconciliations leave.                  *)
(***************************************************************************)
THEOREM Conservation == Spec => []QuantityConserved
<1>1. IInv => QuantityConserved
  BY DEF IInv, QuantityConserved, RecordInv
<1> QED
  BY <1>1, Inductive, PTL

(***************************************************************************)
(* The state of a record tells the truth about its fill: only Filled and   *)
(* Reconciled records have nothing left, so the AlreadyFilled branch of    *)
(* applyCancelResult completes no order, and a rejected order or one that  *)
(* a refused cancel restored to Accepted has no fill behind it.            *)
(***************************************************************************)
THEOREM StateIsTrue == Spec => []StateTellsFill
<1>1. IInv => CompleteFillIsTerminal
  BY DEF IInv, CompleteFillIsTerminal, RecordInv
<1>2. IInv => NoFillBehindAcceptance
  BY DEF IInv, NoFillBehindAcceptance, RecordInv
<1>3. IInv => StateTellsFill
  BY <1>1, <1>2 DEF StateTellsFill
<1> QED
  BY <1>3, Inductive, PTL

--------------------------------------------------------------------------------
(***************************************************************************)
(* Action properties.  A step takes one record along the transition table, *)
(* or settles a cancel in flight, and touches no other record.             *)
(***************************************************************************)
AlongTheTable(r, s) ==
  \/ CanTransition(r.state, s.state) /\ s.state \notin { "Canceled", "Expired" }
  \/ r.state = "CancelRequested"

Grows(r, s) == s.filled >= r.filled \/ s.state = "Reconciled"

\* What a step may do to a record that is there.
LEMMA StepOnRecords ==
  ASSUME IInv, Next, NEW p \in DOMAIN records
  PROVE  \/ records'[p] = records[p]
         \/ AlongTheTable(records[p], records'[p]) /\ Grows(records[p], records'[p])
<1>1. PICK o \in Orders, k \in Keys, t \in 0 .. MaxTs, s \in 0 .. MaxSeq :
        Apply(o, Position(k, t, s))
  BY DEF Next
<1> DEFINE e == Position(k, t, s)
<1>2. records[p] \in Record
  BY DEF IInv, RecordInv
<1>3. CASE Create(o, e)
  BY <1>3 DEF Create
<1>4. ASSUME NEW r, o \in DOMAIN records, Commit(o, r, k),
             AlongTheTable(records[o], r) /\ Grows(records[o], r)
      PROVE  \/ records'[p] = records[p]
             \/ /\ AlongTheTable(records[p], records'[p])
                /\ Grows(records[p], records'[p])
  BY <1>4 DEF Commit
<1>5. ASSUME NEW next \in { "RiskChecked", "Submitted", "Timeout", "Unknown" },
             Mark(o, e, next)
      PROVE  \E r : Commit(o, r, k) /\ AlongTheTable(records[o], r)
                                   /\ Grows(records[o], r) /\ o \in DOMAIN records
  <2> DEFINE r == Stamped(records[o], e, next)
  <2>1. o \in DOMAIN records /\ CanTransition(records[o].state, next)
        /\ Commit(o, r, e.key)
    BY <1>5, MarkApplied
  <2>2. records[o] \in Record
    BY <2>1 DEF IInv, RecordInv
  <2>3. r.state = next /\ r.filled = records[o].filled
    BY <2>2 DEF Stamped, Record
  <2> HIDE DEF r
  <2> QED
    BY <2>1, <2>2, <2>3 DEF AlongTheTable, Grows, Record, Position
<1>6. ASSUME NEW accepted \in BOOLEAN, NEW identified \in BOOLEAN,
             ApplyAcknowledgement(o, e, accepted, identified)
      PROVE  \E r : Commit(o, r, k) /\ AlongTheTable(records[o], r)
                                   /\ Grows(records[o], r) /\ o \in DOMAIN records
  <2> DEFINE ack == [ key |-> e.key, ts |-> e.ts, seq |-> e.seq,
                      accepted |-> accepted, identified |-> identified ]
             r == AckRecord(records[o], ack)
  <2>1. o \in DOMAIN records /\ CanTransition(records[o].state, AckState(ack))
        /\ Commit(o, r, k)
    BY <1>6 DEF ApplyAcknowledgement, AckResult, TransitionResult, Position
  <2>2. records[o] \in Record
    BY <2>1 DEF IInv, RecordInv
  <2>3. r.state = AckState(ack) /\ r.filled = records[o].filled
    BY <2>2 DEF AckRecord, Stamped, Record
  <2>4. AckState(ack) \in { "Accepted", "Rejected" }
    BY DEF AckState
  <2> HIDE DEF r, ack
  <2> QED
    BY <2>1, <2>2, <2>3, <2>4 DEF AlongTheTable, Grows, Record
<1>7. ASSUME NEW cumulative \in Reports(o), NEW remaining \in Reports(o),
             NEW conforms \in BOOLEAN,
             ApplyExecution(o, e, cumulative, remaining, conforms)
      PROVE  \E r : Commit(o, r, k) /\ AlongTheTable(records[o], r)
                                   /\ Grows(records[o], r) /\ o \in DOMAIN records
  <2> DEFINE fill == [ key |-> e.key, ts |-> e.ts, seq |-> e.seq,
                       cumulative |-> cumulative, remaining |-> remaining,
                       conforms |-> conforms ]
             r == FillRecord(records[o], fill)
  <2>1. o \in DOMAIN records /\ CanTransition(records[o].state, FillState(fill))
        /\ FillIsValid(records[o], fill) /\ Commit(o, r, k)
    BY <1>7 DEF ApplyExecution, FillResult, TransitionResult, Position
  <2>2. records[o] \in Record
    BY <2>1 DEF IInv, RecordInv
  <2>3. r.state = FillState(fill) /\ r.filled = cumulative
    BY <2>2 DEF FillRecord, Stamped, Record
  <2>4. FillState(fill) \in { "Filled", "PartiallyFilled" }
    BY DEF FillState
  <2>5. cumulative >= records[o].filled
    BY <2>1 DEF FillIsValid
  <2> HIDE DEF r, fill
  <2> QED
    BY <2>1, <2>3, <2>4, <2>5 DEF AlongTheTable, Grows
<1>8. ASSUME RequestCancel(o, e)
      PROVE  \E r : Commit(o, r, k) /\ AlongTheTable(records[o], r)
                                   /\ Grows(records[o], r) /\ o \in DOMAIN records
  <2> DEFINE r == CancelRequestRecord(records[o], e)
  <2>1. o \in DOMAIN records /\ CanTransition(records[o].state, "CancelRequested")
        /\ Commit(o, r, k)
    BY <1>8 DEF RequestCancel, CancelRequestResult, Position
  <2>2. records[o] \in Record
    BY <2>1 DEF IInv, RecordInv
  <2>3. r.state = "CancelRequested" /\ r.filled = records[o].filled
    BY <2>2 DEF CancelRequestRecord, Stamped, Record
  <2> HIDE DEF r
  <2> QED
    BY <2>1, <2>2, <2>3 DEF AlongTheTable, Grows, Record
<1>9. ASSUME NEW disposition \in CancelDispositions,
             ApplyCancelResult(o, e, disposition)
      PROVE  \E r : Commit(o, r, k) /\ AlongTheTable(records[o], r)
                                   /\ Grows(records[o], r) /\ o \in DOMAIN records
  <2> DEFINE result == [ key |-> e.key, ts |-> e.ts, seq |-> e.seq,
                         disposition |-> disposition ]
             r == CancelResultRecord(records[o], result)
  <2>1. o \in DOMAIN records /\ records[o].state = "CancelRequested"
        /\ Commit(o, r, k)
    BY <1>9 DEF ApplyCancelResult, CancelResultResult, Position
  <2>2. records[o] \in Record
    BY <2>1 DEF IInv, RecordInv
  <2>3. r.filled = records[o].filled
    BY <2>2 DEF CancelResultRecord, Stamped, Record
  <2> HIDE DEF r, result
  <2> QED
    BY <2>1, <2>2, <2>3 DEF AlongTheTable, Grows, Record
<1>10. ASSUME NEW resolved \in LifecycleStates, NEW cumulative \in Reports(o),
              NEW remaining \in Reports(o),
              ApplyReconciliation(o, e, resolved, cumulative, remaining)
       PROVE  \E r : Commit(o, r, k) /\ AlongTheTable(records[o], r)
                                    /\ Grows(records[o], r) /\ o \in DOMAIN records
  <2> DEFINE report == [ key |-> e.key, ts |-> e.ts, seq |-> e.seq,
                         resolved |-> resolved, cumulative |-> cumulative,
                         remaining |-> remaining ]
             r == ReconcileRecord(records[o], report)
  <2>1. o \in DOMAIN records /\ CanTransition(records[o].state, "Reconciled")
        /\ Commit(o, r, k)
    BY <1>10 DEF ApplyReconciliation, ReconcileResult, Position
  <2>2. records[o] \in Record
    BY <2>1 DEF IInv, RecordInv
  <2>3. r.state = "Reconciled"
    BY <2>2 DEF ReconcileRecord, Stamped, Record
  <2> HIDE DEF r, report
  <2> QED
    BY <2>1, <2>3 DEF AlongTheTable, Grows
<1> QED
  BY <1>1, <1>3, <1>4, <1>5, <1>6, <1>7, <1>8, <1>9, <1>10
     DEF Apply, MarkRiskChecked, MarkSubmitted, MarkTimeout, MarkUnknown

(***************************************************************************)
(* No operation of the store changes a terminal record: the table has no   *)
(* way out of a terminal state and a cancel result needs a cancel in       *)
(* flight.                                                                 *)
(***************************************************************************)
THEOREM TerminalFinality == Spec => TerminalIsFinal
<1>1. IInv /\ Next => TerminalUntouched
  BY StepOnRecords
     DEF TerminalUntouched, AlongTheTable, CanTransition, TerminalStates
<1>2. IInv /\ [Next]_vars => [TerminalUntouched]_vars
  BY <1>1
<1> QED
  BY <1>2, Inductive, PTL DEF Spec, TerminalIsFinal

(***************************************************************************)
(* An unknown or timed out order is settled by a fill or a reconciliation: *)
(* no acknowledgement and no cancel result applies to it.                  *)
(***************************************************************************)
THEOREM UnknownSettledByEvidence == Spec => UnknownNeedsEvidence
<1>1. IInv /\ Next => SettledByEvidence
  BY StepOnRecords
     DEF SettledByEvidence, AlongTheTable, CanTransition, TerminalStates
<1>2. IInv /\ [Next]_vars => [SettledByEvidence]_vars
  BY <1>1
<1> QED
  BY <1>2, Inductive, PTL DEF Spec, UnknownNeedsEvidence

(***************************************************************************)
(* The filled quantity of a record falls in a reconciliation only.         *)
(***************************************************************************)
THEOREM FillMonotone == Spec => FillsOnlyGrow
<1>1. IInv /\ Next => FilledFallsInReconciliation
  BY StepOnRecords DEF FilledFallsInReconciliation, Grows, IInv, RecordInv, Record
<1>2. IInv /\ [Next]_vars => [FilledFallsInReconciliation]_vars
  BY <1>1
<1> QED
  BY <1>2, Inductive, PTL DEF Spec, FillsOnlyGrow

--------------------------------------------------------------------------------
(***************************************************************************)
(* Keys.  Every operation asks whether its key is new before anything      *)
(* else, whatever else it asks.                                            *)
(***************************************************************************)
FreshKeyUsed ==
  /\ \E k \in Keys \ appliedKeys : appliedKeys' = appliedKeys \cup { k }
  /\ \A p, q \in DOMAIN records :
       records'[p] # records[p] /\ records'[q] # records[q] => p = q

\* A record that becomes another under a new key.
Changes(o, k) ==
  /\ k \notin appliedKeys
  /\ appliedKeys' = appliedKeys \cup { k }
  /\ \A p \in DOMAIN records \ { o } : records'[p] = records[p]

\* An operation that applies changes one record under its own new key.
LEMMA AppliedUsesKey ==
  ASSUME NEW o, NEW e, Apply(o, e)
  PROVE  Changes(o, e.key)
<1>1. CASE Create(o, e)
  BY <1>1 DEF Create, Changes
<1>2. ASSUME NEW r, NEW k, k \notin appliedKeys, Commit(o, r, k)
      PROVE  Changes(o, k)
  BY <1>2 DEF Commit, Changes
<1>3. ASSUME NEW next, Mark(o, e, next)
      PROVE  Changes(o, e.key)
  BY <1>2, <1>3 DEF Mark, TransitionResult
<1>4. ASSUME NEW accepted \in BOOLEAN, NEW identified \in BOOLEAN,
             ApplyAcknowledgement(o, e, accepted, identified)
      PROVE  Changes(o, e.key)
  BY <1>2, <1>4 DEF ApplyAcknowledgement, AckResult, TransitionResult
<1>5. ASSUME NEW cumulative \in Reports(o), NEW remaining \in Reports(o),
             NEW conforms \in BOOLEAN,
             ApplyExecution(o, e, cumulative, remaining, conforms)
      PROVE  Changes(o, e.key)
  BY <1>2, <1>5 DEF ApplyExecution, FillResult, TransitionResult
<1>6. CASE RequestCancel(o, e)
  BY <1>2, <1>6 DEF RequestCancel, CancelRequestResult
<1>7. ASSUME NEW disposition \in CancelDispositions,
             ApplyCancelResult(o, e, disposition)
      PROVE  Changes(o, e.key)
  BY <1>2, <1>7 DEF ApplyCancelResult, CancelResultResult
<1>8. ASSUME NEW resolved \in LifecycleStates, NEW cumulative \in Reports(o),
             NEW remaining \in Reports(o),
             ApplyReconciliation(o, e, resolved, cumulative, remaining)
      PROVE  Changes(o, e.key)
  BY <1>2, <1>8 DEF ApplyReconciliation, ReconcileResult
<1> QED
  BY <1>1, <1>3, <1>4, <1>5, <1>6, <1>7, <1>8
     DEF Apply, MarkRiskChecked, MarkSubmitted, MarkTimeout, MarkUnknown

(***************************************************************************)
(* Events are idempotent: a step that changes or creates a record uses up  *)
(* a key no earlier step used, and changes one record only.                *)
(***************************************************************************)
THEOREM EventsApplyOnce == Spec => OneFreshKeyPerChange
<1>1. ASSUME Next
      PROVE  FreshKeyUsed
  <2>1. PICK o \in Orders, k \in Keys, t \in 0 .. MaxTs, s \in 0 .. MaxSeq :
          Apply(o, Position(k, t, s))
    BY <1>1 DEF Next
  <2>2. Position(k, t, s).key = k
    BY DEF Position
  <2>3. Changes(o, k)
    BY <2>1, <2>2, AppliedUsesKey
  <2> QED
    BY <2>3 DEF Changes, FreshKeyUsed
<1>2. [Next]_vars => [FreshKeyUsed]_vars
  BY <1>1
<1>3. Spec => [][FreshKeyUsed]_vars
  BY <1>2, PTL DEF Spec
<1> QED
  BY <1>3 DEF FreshKeyUsed, OneFreshKeyPerChange
================================================================================
