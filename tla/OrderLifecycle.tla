----------------------------- MODULE OrderLifecycle -----------------------------
(***************************************************************************)
(* OrderLifecycleStore as a component: the map of lifecycle records, the   *)
(* set of event keys applied so far, and one action per operation.  The    *)
(* callers (gateway, adapters, venue) are unconstrained: any order, key,   *)
(* time stamp, sequence number and quantity in the bounds may be passed,   *)
(* in any order, as the store's own interface allows.                      *)
(*                                                                         *)
(* A call the store refuses leaves both variables as they are, so only     *)
(* calls that apply are steps.                                             *)
(***************************************************************************)
EXTENDS LifecycleRecord

CONSTANTS
  Orders,      \* local order ids
  Keys,        \* event and idempotency keys
  Requested,   \* the quantity each order asks for
  MaxSeq,      \* bound on event sequence numbers
  MaxTs        \* bound on event time stamps

ASSUME RequestedAssumption == Requested \in [Orders -> Nat \ {0}]
ASSUME BoundAssumption == MaxSeq \in Nat /\ MaxTs \in Nat

VARIABLES
  records,     \* m_records: the orders created so far and their records
  appliedKeys  \* m_appliedEventKeys

vars == <<records, appliedKeys>>

Record ==
  [ state : LifecycleStates, preCancel : LifecycleStates,
    reconciled : ResolvedStates \cup { Unresolved },
    requested : Nat \ {0}, filled : Nat, remaining : Nat,
    lastTs : 0 .. MaxTs, lastSeq : 0 .. MaxSeq ]

\* Where an event stands: its key, time stamp and sequence (0 = none given).
Position(k, t, s) == [ key |-> k, ts |-> t, seq |-> s ]

Init == records = << >> /\ appliedKeys = {}

\* Mutant: the key is not remembered.
Commit_Forgetful(o, r, k) ==
  records' = [ records EXCEPT ![o] = r ] /\ UNCHANGED appliedKeys

\* The record of order o becomes r and the key k is used up.
Commit(o, r, k) ==
  /\ records' = [ records EXCEPT ![o] = r ]
  /\ appliedKeys' = appliedKeys \cup { k }

Create(o, e) ==
  /\ o \notin DOMAIN records
  /\ e.key \notin appliedKeys
  /\ records' = [ x \in DOMAIN records \cup {o} |->
                    IF x = o THEN NewRecord(Requested[o], e.ts, e.seq)
                             ELSE records[x] ]
  /\ appliedKeys' = appliedKeys \cup { e.key }

Mark(o, e, next) ==
  /\ o \in DOMAIN records
  /\ TransitionResult(records[o], appliedKeys, e, next) = "Applied"
  /\ Commit(o, Stamped(records[o], e, next), e.key)

MarkRiskChecked(o, e) == Mark(o, e, "RiskChecked")
MarkSubmitted(o, e) == Mark(o, e, "Submitted")
MarkTimeout(o, e) == Mark(o, e, "Timeout")
MarkUnknown(o, e) == Mark(o, e, "Unknown")

ApplyAcknowledgement(o, pos, accepted, identified) ==
  LET e == [ key |-> pos.key, ts |-> pos.ts, seq |-> pos.seq,
             accepted |-> accepted, identified |-> identified ]
  IN  /\ o \in DOMAIN records
      /\ AckResult(records[o], appliedKeys, e) = "Applied"
      /\ Commit(o, AckRecord(records[o], e), e.key)

ApplyExecution(o, pos, cumulative, remaining, conforms) ==
  LET e == [ key |-> pos.key, ts |-> pos.ts, seq |-> pos.seq,
             cumulative |-> cumulative, remaining |-> remaining,
             conforms |-> conforms ]
  IN  /\ o \in DOMAIN records
      /\ FillResult(records[o], appliedKeys, e) = "Applied"
      /\ Commit(o, FillRecord(records[o], e), e.key)

RequestCancel(o, e) ==
  /\ o \in DOMAIN records
  /\ CancelRequestResult(records[o], appliedKeys, e) = "Applied"
  /\ Commit(o, CancelRequestRecord(records[o], e), e.key)

ApplyCancelResult(o, pos, disposition) ==
  LET e == [ key |-> pos.key, ts |-> pos.ts, seq |-> pos.seq,
             disposition |-> disposition ]
  IN  /\ o \in DOMAIN records
      /\ CancelResultResult(records[o], appliedKeys, e) = "Applied"
      /\ Commit(o, CancelResultRecord(records[o], e), e.key)

ApplyReconciliation(o, pos, resolved, cumulative, remaining) ==
  LET e == [ key |-> pos.key, ts |-> pos.ts, seq |-> pos.seq,
             resolved |-> resolved, cumulative |-> cumulative,
             remaining |-> remaining ]
  IN  /\ o \in DOMAIN records
      /\ ReconcileResult(records[o], appliedKeys, e) = "Applied"
      /\ Commit(o, ReconcileRecord(records[o], e), e.key)

\* What a venue reports of an order: the filled part and the rest.
Reports(o) == 0 .. Requested[o]

Apply(o, e) ==
  \/ Create(o, e)
  \/ MarkRiskChecked(o, e)
  \/ MarkSubmitted(o, e)
  \/ MarkTimeout(o, e)
  \/ MarkUnknown(o, e)
  \/ \E accepted, identified \in BOOLEAN :
       ApplyAcknowledgement(o, e, accepted, identified)
  \/ \E cumulative, remaining \in Reports(o), conforms \in BOOLEAN :
       ApplyExecution(o, e, cumulative, remaining, conforms)
  \/ RequestCancel(o, e)
  \/ \E disposition \in CancelDispositions : ApplyCancelResult(o, e, disposition)
  \/ \E resolved \in LifecycleStates, cumulative, remaining \in Reports(o) :
       ApplyReconciliation(o, e, resolved, cumulative, remaining)

Next ==
  \E o \in Orders, k \in Keys, t \in 0 .. MaxTs, s \in 0 .. MaxSeq :
    Apply(o, Position(k, t, s))

Spec == Init /\ [][Next]_vars

--------------------------------------------------------------------------------
(***************************************************************************)
(* Properties.                                                             *)
(***************************************************************************)

\* Every record is a lifecycle record and every applied key a known key.
TypeOK ==
  /\ DOMAIN records \subseteq Orders
  /\ \A o \in DOMAIN records : records[o] \in Record
  /\ appliedKeys \subseteq Keys

(***************************************************************************)
(* No sequence of fills, cancels and reconciliations loses or invents      *)
(* quantity: what is filled and what remains always add up to the request  *)
(* the order was created with (validQuantities guards two of the writers,  *)
(* the others must leave both alone).                                      *)
(***************************************************************************)
QuantityConserved ==
  \A o \in DOMAIN records :
    /\ records[o].requested = Requested[o]
    /\ records[o].filled + records[o].remaining = Requested[o]

(***************************************************************************)
(* What the state of a record says of its fill is true.  A complete fill   *)
(* always closes the order: no live state, in particular not a cancel in   *)
(* flight or an unknown order, has nothing left to fill, although the      *)
(* AlreadyFilled branch of applyCancelResult relies on the fill event      *)
(* having been applied first.  A rejected order never had a fill, and a    *)
(* refused cancel can never put an order with a fill back to Accepted: a   *)
(* fill that arrives while the cancel is in flight must end the cancel,    *)
(* whatever the venue then says.                                           *)
(***************************************************************************)
CompleteFillIsTerminal ==
  \A o \in DOMAIN records :
    /\ records[o].state = "Filled" => records[o].remaining = 0
    /\ records[o].remaining = 0 => records[o].state \in { "Filled", "Reconciled" }

NoFillBehindAcceptance ==
  \A o \in DOMAIN records :
    \/ records[o].state \in { "Created", "RiskChecked", "Submitted",
                              "Accepted", "Rejected" }
    \/ records[o].state = "CancelRequested" /\ records[o].preCancel = "Accepted"
    => records[o].filled = 0

StateTellsFill == CompleteFillIsTerminal /\ NoFillBehindAcceptance

\* Once an order is terminal no later event, of any kind, touches its record.
TerminalUntouched ==
  \A o \in DOMAIN records :
    records[o].state \in TerminalStates => records'[o] = records[o]

TerminalIsFinal == [][TerminalUntouched]_vars

(***************************************************************************)
(* Events are idempotent: a step that changes or creates a record uses up  *)
(* a key no earlier step used, and changes one record only.                *)
(***************************************************************************)
OneFreshKeyPerChange ==
  [][ /\ \E k \in Keys \ appliedKeys : appliedKeys' = appliedKeys \cup { k }
      /\ \A p, q \in DOMAIN records :
           records'[p] # records[p] /\ records'[q] # records[q] => p = q
    ]_vars

(***************************************************************************)
(* An order whose fate is unknown is settled by evidence only, a fill or a *)
(* reconciliation: a late acknowledgement, rejection or cancel result      *)
(* never brings it back to a live state.                                   *)
(***************************************************************************)
SettledByEvidence ==
  \A o \in DOMAIN records :
    records[o].state \in { "Unknown", "Timeout" }
      => records'[o].state \in { records[o].state, "Timeout", "Unknown",
                                 "PartiallyFilled", "Filled", "Reconciled" }

UnknownNeedsEvidence == [][SettledByEvidence]_vars

(***************************************************************************)
(* The filled quantity falls in no step but a reconciliation, which may    *)
(* replace it by the venue's own figure.                                   *)
(***************************************************************************)
FilledFallsInReconciliation ==
  \A o \in DOMAIN records :
    \/ records'[o].filled >= records[o].filled
    \/ records'[o].state = "Reconciled"

FillsOnlyGrow == [][FilledFallsInReconciliation]_vars
================================================================================
