----------------------- MODULE ExecutionPipeline_proofs -----------------------
(***************************************************************************)
(* Proofs about ExecutionPipeline for any number of engines and any value  *)
(* of the limits.                                                          *)
(*                                                                         *)
(* The inductive invariant relates an order to everybody who knows it: its *)
(* record, the engine's context for it, the adapter and the keys.  That    *)
(* the books follow the fills is an equation between a position and two    *)
(* sums over orders; the sums are shown to count the units booked, so that *)
(* a step of one order moves them by what it books.                        *)
(***************************************************************************)
EXTENDS MCExecutionPipeline, FunctionTheorems, FiniteSetTheorems,
        WellFoundedInduction, TLAPS

PipelineRecord ==
  [ state : LifecycleStates, preCancel : LifecycleStates,
    reconciled : { Unresolved }, requested : Nat \ {0}, filled : Nat,
    remaining : Nat, lastTs : { 0 }, lastSeq : Nat ]

\* A record at rest: an order with something left to fill, or a terminal one.
RecordGood(r) ==
  /\ r \in PipelineRecord
  /\ r.state \in { "PartiallyFilled" } \cup TerminalStates
  /\ r.filled + r.remaining = r.requested
  /\ r.state = "PartiallyFilled" => r.remaining > 0

(***************************************************************************)
(* What is known of one order: a record at rest, an issuer, the context of *)
(* that issuer and of nobody else, never ahead of the store, and the       *)
(* result of a cancel only for an order that is over.                      *)
(***************************************************************************)
RecordInv(o) ==
  IF o \in DOMAIN records
  THEN /\ RecordGood(records[o])
       /\ <<"canceled", o>> \in appliedKeys => records[o].state \in TerminalStates
  ELSE <<"canceled", o>> \notin appliedKeys

ContextOf(o, e) ==
  /\ o \in DOMAIN contexts[e] =>
       /\ o \in DOMAIN records
       /\ contexts[e][o] \in Context
       /\ issuer[o] = <<e, contexts[e][o].side>>
       /\ contexts[e][o].quantity = records[o].requested
       /\ contexts[e][o].cumulative <= records[o].filled
  /\ o \in DOMAIN pendingQty[e] =>
       o \in DOMAIN contexts[e] /\ pendingQty[e][o] \in Nat \ {0}

ContextInv(o) == \A e \in Engines : ContextOf(o, e)

TrackedBy(o, e) ==
  /\ issuer[o] = <<e, contexts[e][o].side>>
  /\ o \in atVenue
  /\ Listeners(o) = { e }
  /\ contexts[e][o].quantity = records[o].requested
  /\ \/ contexts[e][o].cumulative < records[o].filled
     \/ o \in DOMAIN pendingQty[e] /\ pendingQty[e][o] = records[o].remaining

TrackedInv(o) ==
  o \in DOMAIN records /\ Live(o) => \E e \in Engines : TrackedBy(o, e)

OrderInv(o) == RecordInv(o) /\ ContextInv(o) /\ TrackedInv(o)

\* The functions and sets that hold the orders.
Shape ==
  /\ nextId \in [Engines -> 1 .. MaxOrders + 1]
  /\ DOMAIN contexts = Engines /\ DOMAIN pendingQty = Engines
  /\ \A e \in Engines :
       DOMAIN contexts[e] \subseteq OrderIds /\ DOMAIN pendingQty[e] \subseteq OrderIds
  /\ DOMAIN records \subseteq OrderIds
  /\ issuer \in [DOMAIN records -> Engines \X Sides]
  /\ atVenue \subseteq DOMAIN records

OrdersInv == Shape /\ \A o \in OrderIds : OrderInv(o)

RiskTypes == errors \in 0 .. Threshold + 1 /\ { halted, tripped } \subseteq BOOLEAN

OtherTypes ==
  /\ localFills \in [Engines -> Int]
  /\ triggers \subseteq Engines \X TriggerKinds
  /\ resting \subseteq Engines \X Sides
  /\ connected \in BOOLEAN

IInv == OrdersInv /\ RiskTypes /\ OtherTypes /\ position \in [Engines -> Nat]

\* A step keeps what the engines, and what the gateway, know of order x.
EnginesKeep(x) ==
  \A e \in Engines :
    /\ x \in DOMAIN contexts'[e] <=> x \in DOMAIN contexts[e]
    /\ x \in DOMAIN contexts[e] => contexts'[e][x] = contexts[e][x]
    /\ x \in DOMAIN pendingQty'[e] <=> x \in DOMAIN pendingQty[e]
    /\ x \in DOMAIN pendingQty[e] => pendingQty'[e][x] = pendingQty[e][x]

GatewayKeeps(x) ==
  /\ x \in DOMAIN records' <=> x \in DOMAIN records
  /\ x \in DOMAIN records => records'[x] = records[x] /\ issuer'[x] = issuer[x]
  /\ x \in atVenue' <=> x \in atVenue
  /\ <<"canceled", x>> \in appliedKeys' <=> <<"canceled", x>> \in appliedKeys

\* A step that concerns order o alone.
OthersKept(o) ==
  \A x \in OrderIds \ { o } : EnginesKeep(x) /\ GatewayKeeps(x)

--------------------------------------------------------------------------------
(***************************************************************************)
(* What the operations make of a record.                                   *)
(***************************************************************************)

\* A new event at a later position changes the state and the position only.
LEMMA StampedRecord ==
  ASSUME NEW r \in PipelineRecord, NEW e, e.ts = 0, e.seq \in Nat,
         NEW next \in LifecycleStates
  PROVE  /\ Stamped(r, e, next) \in PipelineRecord
         /\ Stamped(r, e, next).state = next
         /\ Stamped(r, e, next).lastSeq = e.seq
         /\ Stamped(r, e, next).preCancel = r.preCancel
         /\ Stamped(r, e, next).filled = r.filled
         /\ Stamped(r, e, next).remaining = r.remaining
         /\ Stamped(r, e, next).requested = r.requested
BY DEF Stamped, PipelineRecord

\* A submitted order has nothing filled.
LEMMA SubmittedRecord ==
  ASSUME NEW q \in Nat \ {0}
  PROVE  /\ Submitted(q) \in PipelineRecord
         /\ Submitted(q).filled = 0
         /\ Submitted(q).remaining = q
         /\ Submitted(q).requested = q
<1>1. NewRecord(q, 0, 1) \in PipelineRecord
  BY DEF NewRecord, PipelineRecord, LifecycleStates, Unresolved
<1>2. /\ At(2).ts = 0 /\ At(2).seq \in Nat
      /\ At(3).ts = 0 /\ At(3).seq \in Nat
      /\ { "RiskChecked", "Submitted" } \subseteq LifecycleStates
  BY DEF At, LifecycleStates
<1> DEFINE checked == Stamped(NewRecord(q, 0, 1), At(2), "RiskChecked")
<1>3. /\ checked \in PipelineRecord
      /\ checked.filled = 0 /\ checked.remaining = q /\ checked.requested = q
  <2>1. NewRecord(q, 0, 1).filled = 0 /\ NewRecord(q, 0, 1).remaining = q
        /\ NewRecord(q, 0, 1).requested = q
    BY DEF NewRecord
  <2> HIDE DEF checked
  <2>2. "RiskChecked" \in LifecycleStates
    BY <1>2
  <2> QED
    BY <1>1, <1>2, <2>1, <2>2, StampedRecord DEF checked
<1> HIDE DEF checked
<1>4. Submitted(q) = Stamped(checked, At(3), "Submitted")
  BY DEF Submitted, checked
<1>5. "Submitted" \in LifecycleStates
  BY <1>2
<1> QED
  BY <1>2, <1>3, <1>4, <1>5, StampedRecord

\* An order the adapter rejects ends rejected, with nothing filled.
LEMMA RejectedRecord ==
  ASSUME NEW q \in Nat \ {0}
  PROVE  /\ RecordGood(Acknowledged(q, FALSE))
         /\ Acknowledged(q, FALSE).state = "Rejected"
         /\ Acknowledged(q, FALSE).filled = 0
<1> DEFINE e == [ ts |-> 0, seq |-> 4, accepted |-> FALSE ]
<1>1. AckState(e) = "Rejected"
  BY DEF AckState
<1>2. Acknowledged(q, FALSE) = Stamped(Submitted(q), e, AckState(e))
  BY DEF Acknowledged, AckRecord
<1>3. e.ts = 0 /\ e.seq \in Nat
  OBVIOUS
<1> HIDE DEF e
<1> DEFINE r == Stamped(Submitted(q), e, "Rejected")
<1>4. "Rejected" \in LifecycleStates
  BY DEF LifecycleStates
<1>5. /\ r \in PipelineRecord /\ r.state = "Rejected" /\ r.filled = 0
      /\ r.remaining = q /\ r.requested = q
  BY <1>3, <1>4, SubmittedRecord, StampedRecord
<1>6. Acknowledged(q, FALSE) = r
  BY <1>1, <1>2
<1> HIDE DEF r
<1>7. RecordGood(r)
  BY <1>5 DEF RecordGood, TerminalStates
<1> QED
  BY <1>5, <1>6, <1>7

\* An order the adapter accepts has nothing filled before its fill.
LEMMA AcceptedRecord ==
  ASSUME NEW q \in Nat \ {0}
  PROVE  /\ Acknowledged(q, TRUE) \in PipelineRecord
         /\ Acknowledged(q, TRUE).requested = q
<1> DEFINE e == [ ts |-> 0, seq |-> 4, accepted |-> TRUE ]
<1>1. e.ts = 0 /\ e.seq \in Nat /\ AckState(e) = "Accepted"
  BY DEF AckState
<1> DEFINE r == Stamped(Submitted(q), e, "Accepted")
<1>2. Acknowledged(q, TRUE) = r
  BY <1>1 DEF Acknowledged, AckRecord
<1> HIDE DEF e
<1>3. "Accepted" \in LifecycleStates
  BY DEF LifecycleStates
<1>4. r \in PipelineRecord /\ r.requested = q
  BY <1>1, <1>3, SubmittedRecord, StampedRecord
<1> HIDE DEF r
<1> QED
  BY <1>2, <1>4

\* A fill changes the quantities and the state with them.
LEMMA FilledBy ==
  ASSUME NEW r \in PipelineRecord, NEW e, e.ts = 0, e.seq \in Nat,
         e.cumulative \in Nat, e.remaining \in Nat,
         e.cumulative + e.remaining = r.requested
  PROVE  /\ RecordGood(FillRecord(r, e))
         /\ FillRecord(r, e).filled = e.cumulative
         /\ FillRecord(r, e).remaining = e.remaining
         /\ FillRecord(r, e).requested = r.requested
         /\ FillRecord(r, e).state =
              IF e.remaining = 0 THEN "Filled" ELSE "PartiallyFilled"
<1>1. FillState(e) = IF e.remaining = 0 THEN "Filled" ELSE "PartiallyFilled"
  BY DEF FillState
<1>2. FillState(e) \in LifecycleStates
  BY <1>1 DEF LifecycleStates
<1> DEFINE s == Stamped(r, e, FillState(e))
<1>3. s \in PipelineRecord /\ s.state = FillState(e) /\ s.requested = r.requested
  BY <1>2, StampedRecord
<1> HIDE DEF s
<1>4. FillRecord(r, e) =
        [ s EXCEPT !.filled = e.cumulative, !.remaining = e.remaining ]
  BY DEF FillRecord, s
<1>5. /\ FillRecord(r, e) \in PipelineRecord
      /\ FillRecord(r, e).filled = e.cumulative
      /\ FillRecord(r, e).remaining = e.remaining
      /\ FillRecord(r, e).requested = r.requested
      /\ FillRecord(r, e).state = FillState(e)
  BY <1>3, <1>4 DEF PipelineRecord
<1> QED
  BY <1>1, <1>5 DEF RecordGood, TerminalStates

\* An order the adapter fills with n units is at rest, filled by n.
AnsweredRecord(q, n) == FillRecord(Acknowledged(q, TRUE), FillAt(5, n, q - n))

\* What a fill makes of a record.
LEMMA FilledRecord ==
  ASSUME NEW q \in Nat \ {0}, NEW n \in 1 .. q
  PROVE  /\ RecordGood(AnsweredRecord(q, n))
         /\ AnsweredRecord(q, n).requested = q
         /\ AnsweredRecord(q, n).filled = n
         /\ AnsweredRecord(q, n).remaining = q - n
         /\ AnsweredRecord(q, n).state =
              IF q - n = 0 THEN "Filled" ELSE "PartiallyFilled"
<1> DEFINE e == FillAt(5, n, q - n)
           a == Acknowledged(q, TRUE)
<1>1. e.ts = 0 /\ e.seq \in Nat /\ e.cumulative = n /\ e.remaining = q - n
  BY DEF FillAt
<1>2. AnsweredRecord(q, n) = FillRecord(a, e)
  BY DEF AnsweredRecord
<1>3. a \in PipelineRecord /\ a.requested = q
  BY AcceptedRecord
<1> HIDE DEF e, a
<1>4. /\ e.cumulative \in Nat /\ e.remaining \in Nat
      /\ e.cumulative + e.remaining = a.requested
  BY <1>1, <1>3
<1>5. /\ RecordGood(FillRecord(a, e))
      /\ FillRecord(a, e).filled = e.cumulative
      /\ FillRecord(a, e).remaining = e.remaining
      /\ FillRecord(a, e).requested = a.requested
      /\ FillRecord(a, e).state =
           IF e.remaining = 0 THEN "Filled" ELSE "PartiallyFilled"
  BY <1>1, <1>3, <1>4, FilledBy
<1> QED
  BY <1>1, <1>2, <1>3, <1>5

\* A late fill the store takes is one of an order at rest and not over.
LEMMA ConfirmedRecord ==
  ASSUME NEW r, RecordGood(r), NEW n \in Nat \ {0}, NEW keys, NEW e,
         e.ts = 0, e.seq \in Nat, e.cumulative = r.filled + n,
         e.remaining = r.requested - r.filled - n,
         FillResult(r, keys, e) = "Applied"
  PROVE  /\ r.state = "PartiallyFilled"
         /\ RecordGood(FillRecord(r, e))
         /\ e.cumulative \in Nat /\ e.remaining \in Nat
         /\ FillRecord(r, e).filled = e.cumulative
         /\ FillRecord(r, e).remaining = e.remaining
         /\ FillRecord(r, e).requested = r.requested
         /\ FillRecord(r, e).state =
              IF e.remaining = 0 THEN "Filled" ELSE "PartiallyFilled"
<1>1. FillIsValid(r, e) /\ CanTransition(r.state, FillState(e))
  BY DEF FillResult, TransitionResult
<1>2. e.cumulative >= 0 /\ e.remaining >= 0
  BY <1>1 DEF FillIsValid, ValidQuantities
<1>3. r.state = "PartiallyFilled"
  BY <1>1 DEF CanTransition, RecordGood
<1>4. e.cumulative \in Nat /\ e.remaining \in Nat
  BY <1>2 DEF RecordGood, PipelineRecord
<1>5. e.cumulative + e.remaining = r.requested
  BY DEF RecordGood, PipelineRecord
<1>6. r \in PipelineRecord
  BY DEF RecordGood
<1> QED
  BY <1>3, <1>4, <1>5, <1>6, FilledBy

\* A cancel the store takes is one of an order at rest and not over; what it
\* leaves waits for the result with its quantities as they were.
LEMMA CancelRequestedRecord ==
  ASSUME NEW r, RecordGood(r), NEW keys, NEW e, e.ts = 0, e.seq = r.lastSeq + 1,
         CancelRequestResult(r, keys, e) = "Applied"
  PROVE  /\ r.state = "PartiallyFilled"
         /\ CancelRequestRecord(r, e) \in PipelineRecord
         /\ CancelRequestRecord(r, e).state = "CancelRequested"
         /\ CancelRequestRecord(r, e).lastSeq = r.lastSeq + 1
         /\ CancelRequestRecord(r, e).filled = r.filled
         /\ CancelRequestRecord(r, e).remaining = r.remaining
         /\ CancelRequestRecord(r, e).requested = r.requested
<1>1. CanTransition(r.state, "CancelRequested")
  BY DEF CancelRequestResult
<1>2. r.state = "PartiallyFilled"
  BY <1>1 DEF CanTransition, RecordGood
<1> DEFINE s == Stamped(r, e, "CancelRequested")
<1>3. r \in PipelineRecord /\ e.seq \in Nat /\ "CancelRequested" \in LifecycleStates
  BY DEF RecordGood, PipelineRecord, LifecycleStates
<1>4. /\ s \in PipelineRecord /\ s.state = "CancelRequested"
      /\ s.lastSeq = r.lastSeq + 1 /\ s.filled = r.filled
      /\ s.remaining = r.remaining /\ s.requested = r.requested
  BY <1>3, StampedRecord
<1> HIDE DEF s
<1>5. CancelRequestRecord(r, e) = [ s EXCEPT !.preCancel = r.state ]
  BY DEF CancelRequestRecord, s
<1> QED
  BY <1>2, <1>3, <1>4, <1>5 DEF PipelineRecord

\* The adapter's acceptance of that cancel applies and ends the order.
LEMMA CanceledRecord ==
  ASSUME NEW r \in PipelineRecord, r.state = "CancelRequested",
         r.filled + r.remaining = r.requested,
         NEW keys, NEW e, e.key \notin keys, e.ts = 0, e.seq = r.lastSeq + 1,
         e.disposition = "Accepted"
  PROVE  /\ CancelResultResult(r, keys, e) = "Applied"
         /\ RecordGood(CancelResultRecord(r, e))
         /\ CancelResultRecord(r, e).state = "Canceled"
         /\ CancelResultRecord(r, e).filled = r.filled
         /\ CancelResultRecord(r, e).requested = r.requested
<1>1. ~EventIsOlder(r, e)
  BY DEF EventIsOlder, PipelineRecord
<1>2. CancelResultResult(r, keys, e) = "Applied"
  BY <1>1 DEF CancelResultResult
<1>3. CancelResultRecord(r, e) = Stamped(r, e, "Canceled")
  BY DEF CancelResultRecord, CancelResultState
<1>4. "Canceled" \in LifecycleStates /\ e.seq \in Nat
  BY DEF LifecycleStates, PipelineRecord
<1> QED
  BY <1>2, <1>3, <1>4, StampedRecord DEF RecordGood, TerminalStates

--------------------------------------------------------------------------------
(***************************************************************************)
(* What an execution makes of the engine.                                  *)
(***************************************************************************)
\* An error report keeps the types of the breaker and never lifts a halt.
LEMMA ReportTypes ==
  ASSUME RiskTypes, ReportApiError
  PROVE  RiskTypes'
<1>1. PICK kept \in 0 .. errors :
        /\ errors' = IF kept > Threshold THEN kept ELSE kept + 1
        /\ halted' = (halted \/ errors' > Threshold)
        /\ tripped' = (tripped \/ errors' > Threshold)
  BY DEF ReportApiError
<1>2. errors' \in 0 .. Threshold + 1
  BY <1>1, ThresholdAssumption DEF RiskTypes
<1>3. halted' \in BOOLEAN /\ tripped' \in BOOLEAN
  BY <1>1
<1> QED
  BY <1>2, <1>3 DEF RiskTypes

(***************************************************************************)
(* The engine that hears of a fill books it, completely or in part, or     *)
(* keeps what it had; nothing changes for another engine.                  *)
(***************************************************************************)
ExecutionOutcome(e, o, c, cumulative, remaining, seq) ==
  /\ DOMAIN contexts' = Engines /\ DOMAIN pendingQty' = Engines
  /\ \A g \in Engines \ { e } : /\ contexts'[g] = contexts[g]
                                /\ pendingQty'[g] = pendingQty[g]
                                /\ position'[g] = position[g]
  /\ \/ /\ remaining = 0
        /\ contexts'[e] = Without(contexts[e], o)
        /\ pendingQty'[e] = Without(pendingQty[e], o)
     \/ /\ remaining > 0
        /\ contexts'[e] = With(contexts[e], o,
             [ c EXCEPT !.cumulative = cumulative, !.lastSeq = seq ])
        /\ pendingQty'[e] = With(pendingQty[e], o, remaining)
     \/ /\ contexts'[e] = With(contexts[e], o, c)
        /\ pendingQty'[e] = pendingQty[e]

\* An execution has such an outcome, grows a position only for a buy, and
\* takes none below zero.
LEMMA ExecutionEffect ==
  ASSUME RiskTypes, DOMAIN contexts = Engines, DOMAIN pendingQty = Engines,
         position \in [Engines -> Nat],
         NEW e \in Engines, NEW o, NEW c \in Context, NEW cumulative \in Nat,
         NEW remaining \in Nat, NEW seq \in Nat, NEW affordable \in BOOLEAN,
         OnBrokerExecution(e, o, c, cumulative, remaining, seq, affordable)
  PROVE  /\ RiskTypes'
         /\ position' \in [Engines -> Nat]
         /\ position'[e] > position[e] => c.side = "Buy"
         /\ ExecutionOutcome(e, o, c, cumulative, remaining, seq)
<1>1. CASE FillIsBookable(e, c, cumulative, seq, affordable)
  <2>1. /\ Book(e, o, c, cumulative, remaining, seq)
        /\ UNCHANGED riskVars
    BY <1>1 DEF OnBrokerExecution
  <2>2. RiskTypes'
    BY <2>1 DEF RiskTypes, riskVars
  <2>3. /\ cumulative > c.cumulative /\ seq > c.lastSeq
        /\ c.side = "Sell" => cumulative - c.cumulative <= position[e]
        /\ c.cumulative \in Nat /\ c.lastSeq \in Nat /\ c.side \in Sides
    BY <1>1 DEF FillIsBookable, Context
  <2>4. position' = Moved(position, e, c.side, cumulative - c.cumulative)
    BY <2>1 DEF Book
  <2>5. /\ position' \in [Engines -> Nat]
        /\ \A g \in Engines \ {e} : position'[g] = position[g]
        /\ position'[e] > position[e] => c.side = "Buy"
    BY <2>3, <2>4 DEF Moved, Sides
  <2>6. CASE remaining = 0
    BY <2>1, <2>2, <2>5, <2>6 DEF Book, ExecutionOutcome
  <2>7. CASE remaining # 0
    BY <2>1, <2>2, <2>3, <2>5, <2>7 DEF Book, ExecutionOutcome
  <2> QED
    BY <2>6, <2>7
<1>2. CASE ~FillIsBookable(e, c, cumulative, seq, affordable)
  <2>1. /\ ReportApiError
        /\ contexts' = [ contexts EXCEPT ![e] = With(@, o, c) ]
        /\ UNCHANGED <<pendingQty, position>>
    BY <1>2 DEF OnBrokerExecution
  <2>2. RiskTypes'
    BY <2>1, ReportTypes
  <2> QED
    BY <2>1, <2>2 DEF ExecutionOutcome
<1> QED
  BY <1>1, <1>2

--------------------------------------------------------------------------------
(***************************************************************************)
(* Frames.                                                                 *)
(***************************************************************************)

\* An order nobody's knowledge of has changed keeps its invariant.
LEMMA UnmovedOrder ==
  ASSUME Shape, NEW x \in OrderIds, OrderInv(x), EnginesKeep(x), GatewayKeeps(x)
  PROVE  OrderInv(x)'
<1>1. RecordInv(x)'
  BY DEF OrderInv, RecordInv, GatewayKeeps
<1>2. ContextInv(x)'
  <2> SUFFICES ASSUME NEW e \in Engines
               PROVE  ContextOf(x, e)'
    BY DEF ContextInv
  <2>1. ContextOf(x, e)
    BY DEF OrderInv, ContextInv
  <2> QED
    BY <2>1 DEF ContextOf, EnginesKeep, GatewayKeeps
<1>3. TrackedInv(x)'
  <2> SUFFICES ASSUME x \in DOMAIN records', Live(x)'
               PROVE  \E e \in Engines : TrackedBy(x, e)'
    BY DEF TrackedInv
  <2>1. x \in DOMAIN records /\ Live(x)
    BY DEF GatewayKeeps, Live
  <2>2. PICK e \in Engines : TrackedBy(x, e)
    BY <2>1 DEF OrderInv, TrackedInv
  <2>3. Listeners(x)' = Listeners(x) /\ e \in Listeners(x)
    BY <2>2 DEF TrackedBy, EnginesKeep, Listeners
  <2>4. TrackedBy(x, e)'
    BY <2>1, <2>2, <2>3 DEF TrackedBy, EnginesKeep, GatewayKeeps, Listeners
  <2> QED
    BY <2>4
<1> QED
  BY <1>1, <1>2, <1>3 DEF OrderInv

\* An execution for order o concerns no other order.
LEMMA ExecutionFrame ==
  ASSUME NEW e \in Engines, NEW o, NEW c, NEW cumulative, NEW remaining, NEW seq,
         ExecutionOutcome(e, o, c, cumulative, remaining, seq)
  PROVE  /\ \A x : x # o => EnginesKeep(x)
         /\ \A g \in Engines : DOMAIN contexts'[g] \subseteq DOMAIN contexts[g] \cup { o }
         /\ \A g \in Engines : DOMAIN pendingQty'[g] \subseteq DOMAIN pendingQty[g] \cup { o }
<1>1. \A g \in Engines \ {e} : contexts'[g] = contexts[g] /\ pendingQty'[g] = pendingQty[g]
  BY DEF ExecutionOutcome
<1>2. \/ contexts'[e] = Without(contexts[e], o)
      \/ \E y : contexts'[e] = With(contexts[e], o, y)
  BY DEF ExecutionOutcome
<1>3. \/ pendingQty'[e] = Without(pendingQty[e], o)
      \/ \E y : pendingQty'[e] = With(pendingQty[e], o, y)
      \/ pendingQty'[e] = pendingQty[e]
  BY DEF ExecutionOutcome
<1>4. /\ DOMAIN contexts'[e] \in { DOMAIN contexts[e] \ { o }, DOMAIN contexts[e] \cup { o } }
      /\ \A x \in DOMAIN contexts[e] \ { o } : contexts'[e][x] = contexts[e][x]
  BY <1>2 DEF With, Without
<1>5. /\ DOMAIN pendingQty'[e] \in { DOMAIN pendingQty[e] \ { o },
                DOMAIN pendingQty[e] \cup { o }, DOMAIN pendingQty[e] }
      /\ \A x \in DOMAIN pendingQty[e] \ { o } : pendingQty'[e][x] = pendingQty[e][x]
  BY <1>3 DEF With, Without
<1>6. ASSUME NEW x, x # o
      PROVE  EnginesKeep(x)
  <2> SUFFICES ASSUME NEW g \in Engines
               PROVE  /\ x \in DOMAIN contexts'[g] <=> x \in DOMAIN contexts[g]
                      /\ x \in DOMAIN contexts[g] => contexts'[g][x] = contexts[g][x]
                      /\ x \in DOMAIN pendingQty'[g] <=> x \in DOMAIN pendingQty[g]
                      /\ x \in DOMAIN pendingQty[g] => pendingQty'[g][x] = pendingQty[g][x]
    BY DEF EnginesKeep
  <2>1. CASE g = e
    BY <2>1, <1>4, <1>5, <1>6
  <2>2. CASE g # e
    BY <2>2, <1>1
  <2> QED
    BY <2>1, <2>2
<1> QED
  BY <1>1, <1>4, <1>5, <1>6

(***************************************************************************)
(* Order o is in order after its execution, booked or refused, if its      *)
(* record shows the fill and no other engine has a context for it.         *)
(***************************************************************************)
LEMMA ExecutedOrder ==
  ASSUME NEW e \in Engines, NEW o, NEW c \in Context, NEW cumulative \in Nat,
         NEW remaining \in Nat, NEW seq \in Nat,
         ExecutionOutcome(e, o, c, cumulative, remaining, seq),
         o \in DOMAIN records', RecordGood(records'[o]),
         records'[o].filled = cumulative, records'[o].remaining = remaining,
         records'[o].requested = c.quantity,
         records'[o].state = (IF remaining = 0 THEN "Filled" ELSE "PartiallyFilled"),
         issuer'[o] = <<e, c.side>>, c.cumulative < cumulative,
         <<"canceled", o>> \notin appliedKeys',
         remaining > 0 => o \in atVenue',
         \A g \in Engines \ {e} : o \notin DOMAIN contexts[g] /\ o \notin DOMAIN pendingQty[g],
         o \in DOMAIN pendingQty[e] => pendingQty[e][o] \in Nat \ {0}
  PROVE  OrderInv(o)'
<1> DEFINE booked == [ c EXCEPT !.cumulative = cumulative, !.lastSeq = seq ]
<1>1. \A g \in Engines \ {e} : o \notin DOMAIN contexts'[g] /\ o \notin DOMAIN pendingQty'[g]
  BY DEF ExecutionOutcome
<1>2. /\ booked \in Context /\ booked.cumulative = cumulative
      /\ booked.side = c.side /\ booked.quantity = c.quantity
  BY DEF Context
<1> HIDE DEF booked
<1>3. \/ /\ remaining = 0
         /\ o \notin DOMAIN contexts'[e] /\ o \notin DOMAIN pendingQty'[e]
      \/ /\ remaining > 0
         /\ o \in DOMAIN contexts'[e] /\ contexts'[e][o] = booked
         /\ o \in DOMAIN pendingQty'[e] /\ pendingQty'[e][o] = remaining
      \/ /\ o \in DOMAIN contexts'[e] /\ contexts'[e][o] = c
         /\ pendingQty'[e] = pendingQty[e]
  <2>1. \/ /\ remaining = 0
           /\ contexts'[e] = Without(contexts[e], o)
           /\ pendingQty'[e] = Without(pendingQty[e], o)
        \/ /\ remaining > 0
           /\ contexts'[e] = With(contexts[e], o, booked)
           /\ pendingQty'[e] = With(pendingQty[e], o, remaining)
        \/ contexts'[e] = With(contexts[e], o, c) /\ pendingQty'[e] = pendingQty[e]
    BY DEF ExecutionOutcome, booked
  <2>2. CASE remaining = 0 /\ contexts'[e] = Without(contexts[e], o)
             /\ pendingQty'[e] = Without(pendingQty[e], o)
    BY <2>2 DEF Without
  <2>3. CASE remaining > 0 /\ contexts'[e] = With(contexts[e], o, booked)
             /\ pendingQty'[e] = With(pendingQty[e], o, remaining)
    BY <2>3 DEF With
  <2>4. CASE contexts'[e] = With(contexts[e], o, c) /\ pendingQty'[e] = pendingQty[e]
    BY <2>4 DEF With
  <2> QED
    BY <2>1, <2>2, <2>3, <2>4
<1>4. RecordInv(o)'
  BY DEF RecordInv
<1>5. ContextInv(o)'
  <2> SUFFICES ASSUME NEW g \in Engines
               PROVE  ContextOf(o, g)'
    BY DEF ContextInv
  <2>1. CASE g # e
    BY <2>1, <1>1 DEF ContextOf
  <2>2. CASE g = e
    BY <2>2, <1>2, <1>3 DEF ContextOf, Context
  <2> QED
    BY <2>1, <2>2
<1>6. TrackedInv(o)'
  <2> SUFFICES ASSUME Live(o)'
               PROVE  TrackedBy(o, e)'
    BY DEF TrackedInv
  <2>1. remaining > 0
    BY DEF Live
  <2>2. /\ o \in DOMAIN contexts'[e]
        /\ contexts'[e][o].side = c.side /\ contexts'[e][o].quantity = c.quantity
        /\ \/ contexts'[e][o].cumulative < cumulative
           \/ o \in DOMAIN pendingQty'[e] /\ pendingQty'[e][o] = remaining
    BY <1>2, <1>3, <2>1
  <2>3. Listeners(o)' = { e }
    BY <1>1, <2>2 DEF Listeners
  <2> QED
    BY <2>1, <2>2, <2>3 DEF TrackedBy
<1> QED
  BY <1>4, <1>5, <1>6 DEF OrderInv

--------------------------------------------------------------------------------
(***************************************************************************)
(* The steps.                                                              *)
(***************************************************************************)

\* An order that is new to the store is unknown to every engine and to the
\* adapter.
LEMMA NewOrderIsUnknown ==
  ASSUME OrdersInv, NEW o \in OrderIds, o \notin DOMAIN records
  PROVE  /\ \A g \in Engines : o \notin DOMAIN contexts[g] /\ o \notin DOMAIN pendingQty[g]
         /\ <<"canceled", o>> \notin appliedKeys
BY DEF OrdersInv, OrderInv, RecordInv, ContextInv, ContextOf

\* The acknowledgement and the fill of an order leave the other orders alone.
LEMMA FirstKeysFrame ==
  ASSUME NEW o, NEW x,
         \/ appliedKeys' = appliedKeys \cup FirstKeys(o)
         \/ appliedKeys' = appliedKeys \cup FirstKeys(o) \cup { <<"fill", o>> }
  PROVE  <<"canceled", x>> \in appliedKeys' <=> <<"canceled", x>> \in appliedKeys
<1>1. /\ <<"canceled", x>> # <<"execution", o>> /\ <<"canceled", x>> # <<"risk", o>>
      /\ <<"canceled", x>> # <<"submit", o>> /\ <<"canceled", x>> # <<"ack", o>>
      /\ <<"canceled", x>> # <<"fill", o>>
  OBVIOUS
<1> QED
  BY <1>1 DEF FirstKeys

\* A rejection adds an order that is over.
LEMMA RejectStep ==
  ASSUME OrdersInv, RiskTypes, NEW e \in Engines, NEW side \in Sides,
         NEW quantity \in Nat \ {0}, NEW o \in OrderIds, o \notin DOMAIN records,
         nextId' \in [Engines -> 1 .. MaxOrders + 1],
         Reject(e, o, side, quantity)
  PROVE  /\ OrdersInv' /\ RiskTypes' /\ position' = position
         /\ \A x \in OrderIds \ { o } : EnginesKeep(x) /\ GatewayKeeps(x)
<1>1. /\ records' = With(records, o, Acknowledged(quantity, FALSE))
      /\ issuer' = With(issuer, o, <<e, side>>)
      /\ appliedKeys' = appliedKeys \cup FirstKeys(o)
      /\ ReportApiError
      /\ contexts' = contexts /\ pendingQty' = pendingQty /\ atVenue' = atVenue
      /\ position' = position
  BY DEF Reject
<1>2. RiskTypes'
  BY <1>1, ReportTypes
<1>3. Shape
  BY DEF OrdersInv
<1>4. /\ DOMAIN records' = DOMAIN records \cup { o }
      /\ records'[o] = Acknowledged(quantity, FALSE)
      /\ \A x \in DOMAIN records : records'[x] = records[x]
  BY <1>1 DEF With
<1>5. /\ issuer' \in [DOMAIN records' -> Engines \X Sides]
      /\ \A x \in DOMAIN records : issuer'[x] = issuer[x]
  BY <1>1, <1>3, <1>4 DEF With, Shape
<1>6. Shape'
  BY <1>1, <1>3, <1>4, <1>5 DEF Shape
<1>7. ASSUME NEW x \in OrderIds \ { o }
      PROVE  EnginesKeep(x) /\ GatewayKeeps(x)
  <2>1. <<"canceled", x>> \in appliedKeys' <=> <<"canceled", x>> \in appliedKeys
    BY <1>1, FirstKeysFrame
  <2>2. EnginesKeep(x)
    BY <1>1 DEF EnginesKeep
  <2> QED
    BY <1>1, <1>4, <1>5, <2>1, <2>2 DEF GatewayKeeps
<1>8. OrderInv(o)'
  <2>1. /\ \A g \in Engines : o \notin DOMAIN contexts'[g] /\ o \notin DOMAIN pendingQty'[g]
        /\ <<"canceled", o>> \notin appliedKeys'
    BY <1>1, NewOrderIsUnknown, FirstKeysFrame
  <2>2. RecordGood(records'[o]) /\ records'[o].state = "Rejected"
    BY <1>4, RejectedRecord
  <2> QED
    BY <2>1, <2>2
       DEF OrderInv, RecordInv, ContextInv, ContextOf, TrackedInv, Live
<1>9. \A x \in OrderIds \ { o } : OrderInv(x)'
  BY <1>3, <1>7, UnmovedOrder DEF OrdersInv
<1> QED
  BY <1>1, <1>2, <1>6, <1>7, <1>8, <1>9 DEF OrdersInv

\* An acceptance with its fill adds an order that is tracked or over.
LEMMA AcceptStep ==
  ASSUME OrdersInv, RiskTypes, position \in [Engines -> Nat],
         NEW e \in Engines, NEW side \in Sides,
         NEW quantity \in Nat \ {0}, NEW o \in OrderIds, o \notin DOMAIN records,
         nextId' \in [Engines -> 1 .. MaxOrders + 1], NEW n \in 1 .. quantity,
         AcceptAndFill(e, o, side, quantity, n)
  PROVE  /\ OrdersInv' /\ RiskTypes' /\ position' \in [Engines -> Nat]
         /\ \A g \in Engines : position'[g] > position[g] => side = "Buy"
         /\ \A x \in OrderIds \ { o } : EnginesKeep(x) /\ GatewayKeeps(x)
<1> DEFINE c == [ side |-> side, quantity |-> quantity, cumulative |-> 0, lastSeq |-> 0 ]
           r == AnsweredRecord(quantity, n)
<1>1. /\ records' = With(records, o, r)
      /\ issuer' = With(issuer, o, <<e, side>>)
      /\ appliedKeys' = appliedKeys \cup FirstKeys(o) \cup { <<"fill", o>> }
      /\ atVenue' = IF n < quantity THEN atVenue \cup { o } ELSE atVenue
      /\ OnBrokerExecution(e, o, c, n, quantity - n, 5, TRUE)
  BY DEF AcceptAndFill, AnsweredRecord
<1>2. /\ c \in Context /\ c.side = side /\ c.quantity = quantity /\ c.cumulative = 0
      /\ n \in Nat /\ quantity - n \in Nat /\ 5 \in Nat /\ TRUE \in BOOLEAN
  BY DEF Context
<1>3. /\ RecordGood(r)
      /\ r.requested = quantity /\ r.filled = n /\ r.remaining = quantity - n
      /\ r.state = IF quantity - n = 0 THEN "Filled" ELSE "PartiallyFilled"
  BY FilledRecord
<1> HIDE DEF c, r
<1>4. Shape /\ DOMAIN contexts = Engines /\ DOMAIN pendingQty = Engines
  BY DEF OrdersInv, Shape
<1>5. /\ RiskTypes' /\ position' \in [Engines -> Nat]
      /\ position'[e] > position[e] => c.side = "Buy"
      /\ ExecutionOutcome(e, o, c, n, quantity - n, 5)
  BY <1>1, <1>2, <1>4, ExecutionEffect
<1>6. /\ \A x : x # o => EnginesKeep(x)
      /\ \A g \in Engines : DOMAIN contexts'[g] \subseteq DOMAIN contexts[g] \cup { o }
      /\ \A g \in Engines : DOMAIN pendingQty'[g] \subseteq DOMAIN pendingQty[g] \cup { o }
  BY <1>5, ExecutionFrame
<1>7. \A g \in Engines : position'[g] > position[g] => side = "Buy"
  <2> SUFFICES ASSUME NEW g \in Engines, position'[g] > position[g]
               PROVE  side = "Buy"
    OBVIOUS
  <2>1. g # e => position'[g] = position[g]
    BY <1>5 DEF ExecutionOutcome
  <2>2. g = e
    BY <2>1
  <2> QED
    BY <1>2, <1>5, <2>2
<1>8. /\ DOMAIN records' = DOMAIN records \cup { o } /\ records'[o] = r
      /\ \A x \in DOMAIN records : records'[x] = records[x]
  BY <1>1 DEF With
<1>9. /\ issuer' \in [DOMAIN records' -> Engines \X Sides]
      /\ issuer'[o] = <<e, side>>
      /\ \A x \in DOMAIN records : issuer'[x] = issuer[x]
  BY <1>1, <1>4, <1>8 DEF With, Shape
<1>10. DOMAIN contexts' = Engines /\ DOMAIN pendingQty' = Engines
  BY <1>5 DEF ExecutionOutcome
<1>11. Shape'
  BY <1>1, <1>4, <1>6, <1>8, <1>9, <1>10 DEF Shape
<1>12. ASSUME NEW x \in OrderIds \ { o }
       PROVE  EnginesKeep(x) /\ GatewayKeeps(x)
  <2>1. <<"canceled", x>> \in appliedKeys' <=> <<"canceled", x>> \in appliedKeys
    BY <1>1, FirstKeysFrame
  <2>2. x \in atVenue' <=> x \in atVenue
    BY <1>1
  <2> QED
    BY <1>6, <1>8, <1>9, <2>1, <2>2 DEF GatewayKeeps
<1>13. OrderInv(o)'
  <2>1. /\ \A g \in Engines : o \notin DOMAIN contexts[g] /\ o \notin DOMAIN pendingQty[g]
        /\ <<"canceled", o>> \notin appliedKeys
    BY NewOrderIsUnknown
  <2>2. <<"canceled", o>> \notin appliedKeys'
    BY <2>1, <1>1, FirstKeysFrame
  <2>3. (quantity - n > 0 => o \in atVenue') /\ n > 0
    BY <1>1
  <2>4. /\ o \in DOMAIN records' /\ RecordGood(records'[o])
        /\ records'[o].filled = n /\ records'[o].remaining = quantity - n
        /\ records'[o].requested = c.quantity
        /\ records'[o].state = IF quantity - n = 0 THEN "Filled" ELSE "PartiallyFilled"
        /\ issuer'[o] = <<e, c.side>> /\ c.cumulative < n
    BY <1>2, <1>3, <1>8, <1>9, <2>3
  <2> DEFINE left == quantity - n
  <2>5. left \in Nat /\ ExecutionOutcome(e, o, c, n, left, 5)
    BY <1>2, <1>5
  <2>6. left = quantity - n
    OBVIOUS
  <2> HIDE DEF left
  <2> QED
    BY <1>2, <2>1, <2>2, <2>3, <2>4, <2>5, <2>6, ExecutedOrder
<1>14. \A x \in OrderIds \ { o } : OrderInv(x)'
  BY <1>4, <1>12, UnmovedOrder DEF OrdersInv
<1> QED
  BY <1>5, <1>7, <1>11, <1>12, <1>13, <1>14 DEF OrdersInv

\* A step that touches no order.
LEMMA OrdersUnmoved ==
  ASSUME OrdersInv, nextId' \in [Engines -> 1 .. MaxOrders + 1],
         UNCHANGED <<contexts, pendingQty, gatewayVars>>
  PROVE  /\ OrdersInv'
         /\ \A x \in OrderIds : EnginesKeep(x) /\ GatewayKeeps(x)
<1>1. \A x \in OrderIds : EnginesKeep(x) /\ GatewayKeeps(x)
  BY DEF EnginesKeep, GatewayKeeps, gatewayVars
<1>2. Shape /\ \A x \in OrderIds : OrderInv(x)
  BY DEF OrdersInv
<1>3. Shape'
  BY <1>2 DEF Shape, gatewayVars
<1>4. \A x \in OrderIds : OrderInv(x)'
  BY <1>1, <1>2, UnmovedOrder
<1> QED
  BY <1>1, <1>3, <1>4 DEF OrdersInv

\* Routing adds at most one order, disturbs none that exists, and lets a
\* position grow only for a buy.
LEMMA RouteStep ==
  ASSUME OrdersInv, RiskTypes, position \in [Engines -> Nat],
         NEW e \in Engines, NEW side \in Sides, NEW quantity \in Nat \ {0},
         Route(e, side, quantity)
  PROVE  /\ OrdersInv' /\ RiskTypes' /\ position' \in [Engines -> Nat]
         /\ \A g \in Engines : position'[g] > position[g] => side = "Buy"
         /\ \A x \in DOMAIN records : EnginesKeep(x) /\ GatewayKeeps(x)
<1> DEFINE o == nextId[e]
<1>1. /\ o \in OrderIds /\ nextId' = [ nextId EXCEPT ![e] = @ + 1 ]
      /\ IF o \in DOMAIN records
         THEN RefuseIdentity
         ELSE Reject(e, o, side, quantity) \/
              \E n \in 1 .. quantity : AcceptAndFill(e, o, side, quantity, n)
  BY DEF Route, IdentityIsNew
<1>2. nextId' \in [Engines -> 1 .. MaxOrders + 1]
  BY <1>1, PipelineBounds DEF OrdersInv, Shape, OrderIds
<1>3. DOMAIN records \subseteq OrderIds
  BY DEF OrdersInv, Shape
<1> HIDE DEF o
<1>4. CASE o \in DOMAIN records
  <2>1. UNCHANGED <<contexts, pendingQty, gatewayVars, riskVars, position>>
    BY <1>1, <1>4 DEF RefuseIdentity
  <2>2. OrdersInv' /\ \A x \in OrderIds : EnginesKeep(x) /\ GatewayKeeps(x)
    BY <1>2, <2>1, OrdersUnmoved
  <2>3. RiskTypes' /\ position' = position
    BY <2>1 DEF RiskTypes, riskVars
  <2> QED
    BY <1>3, <2>2, <2>3
<1>5. CASE o \notin DOMAIN records /\ Reject(e, o, side, quantity)
  <2>1. /\ OrdersInv' /\ RiskTypes' /\ position' = position
        /\ \A x \in OrderIds \ { o } : EnginesKeep(x) /\ GatewayKeeps(x)
    BY <1>1, <1>2, <1>5, RejectStep
  <2> QED
    BY <1>3, <1>5, <2>1
<1>6. ASSUME o \notin DOMAIN records,
             NEW n \in 1 .. quantity, AcceptAndFill(e, o, side, quantity, n)
      PROVE  /\ OrdersInv' /\ RiskTypes' /\ position' \in [Engines -> Nat]
             /\ \A g \in Engines : position'[g] > position[g] => side = "Buy"
             /\ \A x \in DOMAIN records : EnginesKeep(x) /\ GatewayKeeps(x)
  <2>1. /\ OrdersInv' /\ RiskTypes' /\ position' \in [Engines -> Nat]
        /\ \A g \in Engines : position'[g] > position[g] => side = "Buy"
        /\ \A x \in OrderIds \ { o } : EnginesKeep(x) /\ GatewayKeeps(x)
    BY <1>1, <1>2, <1>6, AcceptStep
  <2> QED
    BY <1>3, <1>6, <2>1
<1> QED
  BY <1>1, <1>4, <1>5, <1>6

\* The engine that issued order o hears of what its record says.
IsExecutionOf(o, g, affordable) ==
  /\ o \in DOMAIN contexts[g] /\ contexts[g][o] \in Context
  /\ issuer[o] = <<g, contexts[g][o].side>>
  /\ records'[o].filled \in Nat
  /\ \E remaining, seq \in Nat :
       OnBrokerExecution(g, o, contexts[g][o], records'[o].filled, remaining, seq,
                         affordable)

\* A late fill moves its own order, of which one engine hears.
LEMMA ConfirmStep ==
  ASSUME OrdersInv, RiskTypes, position \in [Engines -> Nat],
         NEW o \in DOMAIN records, NEW n \in Nat \ {0}, NEW affordable \in BOOLEAN,
         ConfirmFill(o, n, affordable)
  PROVE  /\ OrdersInv' /\ RiskTypes' /\ position' \in [Engines -> Nat]
         /\ \A g \in Engines : position'[g] > position[g] =>
              /\ issuer[o] = <<g, "Buy">> /\ Live(o)
              /\ records'[o].filled > records[o].filled
         /\ OthersKept(o) /\ DOMAIN records' = DOMAIN records /\ issuer' = issuer
         /\ \E g \in Engines : IsExecutionOf(o, g, affordable)
<1> DEFINE r == records[o]
           e == [ key |-> <<"simulated", o, r.lastSeq + 1>>, ts |-> 0,
                  seq |-> r.lastSeq + 1, cumulative |-> r.filled + n,
                  remaining |-> r.requested - r.filled - n, conforms |-> TRUE ]
<1>1. /\ FillResult(r, appliedKeys, e) = "Applied"
      /\ records' = [ records EXCEPT ![o] = FillRecord(r, e) ]
      /\ appliedKeys' = appliedKeys \cup { e.key }
      /\ IF Listeners(o) = {}
         THEN UNCHANGED <<contexts, pendingQty, position, riskVars>>
         ELSE \E g \in Listeners(o) :
                OnBrokerExecution(g, o, contexts[g][o], e.cumulative, e.remaining,
                                  e.seq, affordable)
      /\ UNCHANGED <<nextId, issuer, atVenue>>
  BY DEF ConfirmFill
<1>2. /\ e.key = <<"simulated", o, r.lastSeq + 1>> /\ e.ts = 0
      /\ e.seq = r.lastSeq + 1 /\ e.cumulative = r.filled + n
      /\ e.remaining = r.requested - r.filled - n
  OBVIOUS
<1> HIDE DEF e
<1>3. o \in OrderIds /\ OrderInv(o) /\ Shape
  BY DEF OrdersInv, Shape
<1>4. RecordGood(r) /\ (<<"canceled", o>> \in appliedKeys => r.state \in TerminalStates)
  BY <1>3 DEF OrderInv, RecordInv
<1>5. r.lastSeq \in Nat /\ r.filled \in Nat /\ e.seq \in Nat
  BY <1>2, <1>4 DEF RecordGood, PipelineRecord
<1>6. /\ r.state = "PartiallyFilled"
      /\ RecordGood(FillRecord(r, e))
      /\ e.cumulative \in Nat /\ e.remaining \in Nat
      /\ FillRecord(r, e).filled = e.cumulative
      /\ FillRecord(r, e).remaining = e.remaining
      /\ FillRecord(r, e).requested = r.requested
      /\ FillRecord(r, e).state =
           IF e.remaining = 0 THEN "Filled" ELSE "PartiallyFilled"
  BY <1>1, <1>2, <1>4, <1>5, ConfirmedRecord
<1>7. Live(o)
  BY <1>6 DEF Live
<1>8. PICK g \in Engines : TrackedBy(o, g)
  BY <1>3, <1>7 DEF OrderInv, TrackedInv
<1> DEFINE c == contexts[g][o]
<1>9. OnBrokerExecution(g, o, c, e.cumulative, e.remaining, e.seq, affordable)
  BY <1>1, <1>8 DEF TrackedBy
<1>10. /\ o \in DOMAIN contexts[g] /\ c \in Context /\ issuer[o] = <<g, c.side>>
       /\ c.quantity = r.requested /\ c.cumulative <= r.filled /\ c.cumulative \in Nat
       /\ o \in DOMAIN pendingQty[g] => pendingQty[g][o] \in Nat \ {0}
  <2>1. o \in DOMAIN contexts[g]
    BY <1>8 DEF TrackedBy, Listeners
  <2> QED
    BY <1>3, <2>1 DEF OrderInv, ContextInv, ContextOf, Context
<1>11. \A f \in Engines \ { g } : o \notin DOMAIN contexts[f] /\ o \notin DOMAIN pendingQty[f]
  BY <1>3, <1>8 DEF TrackedBy, Listeners, OrderInv, ContextInv, ContextOf
<1>12. o \in atVenue
  BY <1>8 DEF TrackedBy
<1>13. DOMAIN contexts = Engines /\ DOMAIN pendingQty = Engines
  BY <1>3 DEF Shape
<1> HIDE DEF c
<1>14. /\ RiskTypes' /\ position' \in [Engines -> Nat]
       /\ position'[g] > position[g] => c.side = "Buy"
       /\ ExecutionOutcome(g, o, c, e.cumulative, e.remaining, e.seq)
  BY <1>5, <1>6, <1>9, <1>10, <1>13, ExecutionEffect
<1>15. /\ \A x : x # o => EnginesKeep(x)
       /\ \A f \in Engines : DOMAIN contexts'[f] \subseteq DOMAIN contexts[f] \cup { o }
       /\ \A f \in Engines : DOMAIN pendingQty'[f] \subseteq DOMAIN pendingQty[f] \cup { o }
       /\ DOMAIN contexts' = Engines /\ DOMAIN pendingQty' = Engines
  <2>1. DOMAIN contexts' = Engines /\ DOMAIN pendingQty' = Engines
    BY <1>14 DEF ExecutionOutcome
  <2> QED
    BY <1>14, <2>1, ExecutionFrame
<1>16. /\ DOMAIN records' = DOMAIN records /\ records'[o] = FillRecord(r, e)
       /\ \A x \in DOMAIN records \ { o } : records'[x] = records[x]
       /\ issuer' = issuer /\ atVenue' = atVenue
  BY <1>1
<1>17. Shape'
  BY <1>1, <1>3, <1>15, <1>16 DEF Shape
<1>18. \A x : <<"canceled", x>> \in appliedKeys' <=> <<"canceled", x>> \in appliedKeys
  <2> SUFFICES ASSUME NEW x
               PROVE  <<"canceled", x>> # e.key
    BY <1>1
  <2> QED
    BY <1>2
<1>19. OthersKept(o)
  BY <1>15, <1>16, <1>18 DEF GatewayKeeps, OthersKept
<1>20. ASSUME NEW x \in OrderIds \ { o }
       PROVE  OrderInv(x)'
  BY <1>3, <1>19, UnmovedOrder DEF OrdersInv, OthersKept
<1>21. OrderInv(o)'
  <2>1. c.cumulative < e.cumulative
    BY <1>2, <1>5, <1>10
  <2>2. <<"canceled", o>> \notin appliedKeys'
    BY <1>4, <1>6, <1>18 DEF TerminalStates
  <2>3. /\ o \in DOMAIN records' /\ RecordGood(records'[o])
        /\ records'[o].filled = e.cumulative /\ records'[o].remaining = e.remaining
        /\ records'[o].requested = c.quantity
        /\ records'[o].state = IF e.remaining = 0 THEN "Filled" ELSE "PartiallyFilled"
        /\ issuer'[o] = <<g, c.side>> /\ o \in atVenue'
    BY <1>6, <1>10, <1>12, <1>16
  <2> QED
    BY <1>5, <1>6, <1>10, <1>11, <1>14, <2>1, <2>2, <2>3, ExecutedOrder
<1>22. \A f \in Engines : position'[f] > position[f] => f = g /\ c.side = "Buy"
  <2> SUFFICES ASSUME NEW f \in Engines, position'[f] > position[f]
               PROVE  f = g /\ c.side = "Buy"
    OBVIOUS
  <2>1. f # g => position'[f] = position[f]
    BY <1>14 DEF ExecutionOutcome
  <2>2. f = g
    BY <2>1
  <2> QED
    BY <1>14, <2>2
<1>23. records'[o].filled > records[o].filled
  BY <1>2, <1>5, <1>6, <1>16
<1>24. IsExecutionOf(o, g, affordable)
  <2>1. records'[o].filled = e.cumulative
    BY <1>6, <1>16
  <2> QED
    BY <1>5, <1>6, <1>9, <1>10, <2>1 DEF IsExecutionOf, c
<1>25. OrdersInv'
  BY <1>17, <1>20, <1>21 DEF OrdersInv
<1> QED
  BY <1>7, <1>10, <1>14, <1>16, <1>19, <1>22, <1>23, <1>24, <1>25

\* A cancel the store takes ends its order: the adapter still has it.
LEMMA CancelStep ==
  ASSUME OrdersInv, NEW o \in DOMAIN records, CancelOrder(o)
  PROVE  /\ OrdersInv'
         /\ OthersKept(o) /\ DOMAIN records' = DOMAIN records /\ issuer' = issuer
         /\ records'[o].filled = records[o].filled
<1> DEFINE r == records[o]
           ask == [ key |-> <<"cancel", o>>, ts |-> 0, seq |-> r.lastSeq + 1 ]
           asked == CancelRequestRecord(r, ask)
           answer == [ key |-> <<"canceled", o>>, ts |-> 0, seq |-> r.lastSeq + 2,
                       disposition |-> CancelDisposition(o) ]
<1>1. /\ CancelRequestResult(r, appliedKeys, ask) = "Applied"
      /\ atVenue' = atVenue \ { o }
      /\ IF CancelResultResult(asked, appliedKeys \cup { ask.key }, answer) = "Applied"
         THEN records' = [ records EXCEPT ![o] = CancelResultRecord(asked, answer) ]
         ELSE records' = [ records EXCEPT ![o] = asked ]
      /\ appliedKeys' \in { appliedKeys \cup { ask.key, answer.key },
                            appliedKeys \cup { ask.key } }
      /\ UNCHANGED <<engineVars, issuer>>
  BY DEF CancelOrder
<1>2. /\ ask.key = <<"cancel", o>> /\ ask.ts = 0 /\ ask.seq = r.lastSeq + 1
      /\ answer.key = <<"canceled", o>> /\ answer.ts = 0
      /\ answer.seq = r.lastSeq + 2 /\ answer.disposition = CancelDisposition(o)
  OBVIOUS
<1> HIDE DEF ask, answer
<1>3. o \in OrderIds /\ OrderInv(o) /\ Shape
  BY DEF OrdersInv, Shape
<1>4. /\ RecordGood(r) /\ r \in PipelineRecord /\ r.filled + r.remaining = r.requested
      /\ <<"canceled", o>> \in appliedKeys => r.state \in TerminalStates
  BY <1>3 DEF OrderInv, RecordInv, RecordGood
<1>5. /\ r.state = "PartiallyFilled" /\ asked \in PipelineRecord
      /\ asked.state = "CancelRequested" /\ asked.lastSeq = r.lastSeq + 1
      /\ asked.filled = r.filled /\ asked.remaining = r.remaining
      /\ asked.requested = r.requested
  BY <1>1, <1>2, <1>4, CancelRequestedRecord
<1> HIDE DEF asked
<1>6. o \in atVenue
  BY <1>3, <1>5 DEF OrderInv, TrackedInv, TrackedBy, Live
<1>7. answer.disposition = "Accepted"
  BY <1>2, <1>6 DEF CancelDisposition
<1> DEFINE keys == appliedKeys \cup { ask.key }
<1>8. answer.key \notin keys
  BY <1>2, <1>4, <1>5 DEF TerminalStates
<1>9. answer.seq = asked.lastSeq + 1
  BY <1>2, <1>4, <1>5 DEF PipelineRecord
<1>10. asked.filled + asked.remaining = asked.requested
  BY <1>4, <1>5
<1>11. CancelResultResult(asked, keys, answer) = "Applied"
  <2> HIDE DEF keys
  <2> QED
    BY <1>2, <1>5, <1>7, <1>8, <1>9, <1>10, CanceledRecord
<1> DEFINE over == CancelResultRecord(asked, answer)
<1>12. /\ RecordGood(over) /\ over.state = "Canceled"
       /\ over.filled = r.filled /\ over.requested = r.requested
  <2> HIDE DEF keys
  <2> QED
    BY <1>2, <1>5, <1>7, <1>8, <1>9, <1>10, CanceledRecord
<1> HIDE DEF over
<1>13. /\ DOMAIN records' = DOMAIN records /\ records'[o] = over
       /\ \A x \in DOMAIN records \ { o } : records'[x] = records[x]
  BY <1>1, <1>11 DEF over
<1>14. contexts' = contexts /\ pendingQty' = pendingQty /\ issuer' = issuer /\ nextId' = nextId
  BY <1>1 DEF engineVars
<1>15. Shape'
  BY <1>1, <1>3, <1>13, <1>14 DEF Shape
<1>16. OthersKept(o)
  <2> SUFFICES ASSUME NEW x \in OrderIds \ { o }
               PROVE  EnginesKeep(x) /\ GatewayKeeps(x)
    BY DEF OthersKept
  <2>1. <<"canceled", x>> # ask.key /\ <<"canceled", x>> # answer.key
    BY <1>2
  <2>2. <<"canceled", x>> \in appliedKeys' <=> <<"canceled", x>> \in appliedKeys
    BY <1>1, <2>1
  <2>3. EnginesKeep(x)
    BY <1>14 DEF EnginesKeep
  <2> QED
    BY <1>1, <1>13, <1>14, <2>2, <2>3 DEF GatewayKeeps
<1>17. \A x \in OrderIds \ { o } : OrderInv(x)'
  BY <1>3, <1>16, UnmovedOrder DEF OrdersInv, OthersKept
<1>18. OrderInv(o)'
  <2>1. RecordInv(o)'
    BY <1>12, <1>13 DEF RecordInv, TerminalStates
  <2>2. ContextInv(o)'
    BY <1>3, <1>12, <1>13, <1>14 DEF OrderInv, ContextInv, ContextOf
  <2>3. TrackedInv(o)'
    BY <1>12, <1>13 DEF TrackedInv, Live
  <2> QED
    BY <2>1, <2>2, <2>3 DEF OrderInv
<1> QED
  BY <1>12, <1>13, <1>14, <1>15, <1>16, <1>17, <1>18 DEF OrdersInv

--------------------------------------------------------------------------------
(***************************************************************************)
(* The invariant.                                                          *)
(***************************************************************************)

\* What a step of the pipeline does: it keeps the invariant, disturbs no order
\* if it issues one, and grows no position while trading is halted but by the
\* fill of an order at the venue.
StepFacts == IInv' /\ IssuingDisturbsNoOrder /\ GrowsByOldOrders

\* A step that issues nothing, keeps the orders and shrinks positions only.
LEMMA QuietStep ==
  ASSUME IInv, RiskTypes', OtherTypes', position' \in [Engines -> Nat],
         UNCHANGED <<engineVars, gatewayVars>>,
         \A e \in Engines : halted => position'[e] <= position[e]
  PROVE  StepFacts
<1>1. nextId' = nextId /\ contexts' = contexts /\ pendingQty' = pendingQty
  BY DEF engineVars
<1>2. nextId' \in [Engines -> 1 .. MaxOrders + 1]
  BY <1>1 DEF IInv, OrdersInv, Shape
<1>3. OrdersInv'
  BY <1>1, <1>2, OrdersUnmoved DEF IInv
<1>4. GrowsByOldOrders
  <2> SUFFICES ASSUME NEW e \in Engines, halted
               PROVE  ~(position'[e] > position[e])
    BY DEF GrowsByOldOrders
  <2>1. position'[e] \in Nat /\ position[e] \in Nat /\ position'[e] <= position[e]
    BY DEF IInv
  <2> QED
    BY <2>1
<1> QED
  BY <1>1, <1>3, <1>4 DEF StepFacts, IInv, IssuingDisturbsNoOrder

\* A step that routes an order: a buy only while trading is not halted.
LEMMA RoutingStep ==
  ASSUME IInv, OtherTypes', NEW e \in Engines, NEW side \in Sides,
         NEW quantity \in Nat \ {0}, Route(e, side, quantity), side = "Buy" => ~halted
  PROVE  StepFacts
<1>1. /\ OrdersInv' /\ RiskTypes' /\ position' \in [Engines -> Nat]
      /\ \A g \in Engines : position'[g] > position[g] => side = "Buy"
      /\ \A x \in DOMAIN records : EnginesKeep(x) /\ GatewayKeeps(x)
  BY RouteStep DEF IInv
<1>2. GrowsByOldOrders
  BY <1>1 DEF GrowsByOldOrders
<1>3. IssuingDisturbsNoOrder
  <2>1. \A x \in DOMAIN records : records'[x] = records[x]
    BY <1>1 DEF GatewayKeeps
  <2>2. \A g \in Engines : \A x \in DOMAIN contexts[g] : x \in DOMAIN records
    BY DEF IInv, OrdersInv, Shape, OrderInv, ContextInv, ContextOf
  <2>3. \A g \in Engines : \A x \in DOMAIN contexts[g] :
          x \in DOMAIN contexts'[g] /\ contexts'[g][x] = contexts[g][x]
    BY <1>1, <2>2 DEF EnginesKeep
  <2> QED
    BY <2>1, <2>3 DEF IssuingDisturbsNoOrder
<1> QED
  BY <1>1, <1>2, <1>3 DEF StepFacts, IInv

\* The initial state has no order.
LEMMA InitIInv == Init => IInv
<1> SUFFICES ASSUME Init
             PROVE  IInv
  OBVIOUS
<1>1. DOMAIN records = {} /\ \A e \in Engines : DOMAIN contexts[e] = {} /\ DOMAIN pendingQty[e] = {}
  BY DEF Init
<1>2. Shape
  BY <1>1, PipelineBounds DEF Init, Shape, OrderIds
<1>3. \A o \in OrderIds : OrderInv(o)
  BY <1>1 DEF Init, OrderInv, RecordInv, ContextInv, ContextOf, TrackedInv
<1>4. RiskTypes
  <2>1. errors \in 0 .. Threshold + 1
    BY ThresholdAssumption DEF Init
  <2>2. halted \in BOOLEAN /\ tripped \in BOOLEAN
    BY DEF Init
  <2> QED
    BY <2>1, <2>2 DEF RiskTypes
<1>5. OtherTypes /\ position \in [Engines -> Nat]
  BY DEF Init, OtherTypes
<1> QED
  BY <1>2, <1>3, <1>4, <1>5 DEF IInv, OrdersInv

\* Every step keeps the invariant and the two action properties.
LEMMA NextFacts == IInv /\ Next => StepFacts
<1> SUFFICES ASSUME IInv, Next
             PROVE  StepFacts
  OBVIOUS
<1> USE DEF IInv
<1>1. OrdersInv /\ RiskTypes /\ OtherTypes /\ position \in [Engines -> Nat]
  OBVIOUS
<1>2. ASSUME NEW e \in Engines, ExecuteBuy(e)
      PROVE  StepFacts
  <2>1. PICK quantity \in Quantities : Route(e, "Buy", quantity)
    BY <1>2 DEF ExecuteBuy
  <2>2. quantity \in Nat \ {0} /\ "Buy" \in Sides /\ ~halted
    BY <1>2, PipelineBounds DEF ExecuteBuy, CanTrade, Quantities, Sides
  <2>3. OtherTypes'
    BY <1>1, <1>2 DEF ExecuteBuy, OtherTypes, restVars
  <2> QED
    BY <2>1, <2>2, <2>3, RoutingStep
<1>3. ASSUME NEW e \in Engines, ExecuteSell(e)
      PROVE  StepFacts
  <2>1. Route(e, "Sell", position[e]) /\ position[e] \in Nat \ {0} /\ "Sell" \in Sides
    BY <1>1, <1>3 DEF ExecuteSell, Sides
  <2>2. OtherTypes'
    BY <1>1, <1>3 DEF ExecuteSell, OtherTypes, restVars
  <2> QED
    BY <2>1, <2>2, RoutingStep
<1>4. ASSUME NEW e \in Engines, NEW kind \in TriggerKinds, PlaceTrigger(e, kind)
      PROVE  StepFacts
  <2>1. OtherTypes'
    BY <1>1, <1>4 DEF PlaceTrigger, OtherTypes
  <2>2. /\ UNCHANGED <<engineVars, gatewayVars, riskVars, position>> /\ RiskTypes'
    BY <1>1, <1>4 DEF PlaceTrigger, RiskTypes, riskVars
  <2> QED
    BY <1>1, <2>1, <2>2, QuietStep
<1>5. ASSUME NEW e \in Engines, NEW kind \in TriggerKinds, FireTrigger(e, kind)
      PROVE  StepFacts
  <2>1. Route(e, "Sell", position[e]) /\ position[e] \in Nat \ {0} /\ "Sell" \in Sides
    BY <1>1, <1>5 DEF FireTrigger, Sides
  <2>2. OtherTypes'
    BY <1>1, <1>5 DEF FireTrigger, OtherTypes
  <2> QED
    BY <2>1, <2>2, RoutingStep
<1>6. ASSUME NEW e \in Engines, NEW side \in Sides, PlacePendingOrder(e, side)
      PROVE  StepFacts
  <2>1. OtherTypes'
    BY <1>1, <1>6 DEF PlacePendingOrder, OtherTypes
  <2>2. /\ UNCHANGED <<engineVars, gatewayVars, riskVars, position>> /\ RiskTypes'
    BY <1>1, <1>6 DEF PlacePendingOrder, RiskTypes, riskVars
  <2> QED
    BY <1>1, <2>1, <2>2, QuietStep
<1>7. ASSUME NEW e \in Engines, NEW quantity \in Quantities, NEW gatesOpen \in BOOLEAN,
             ProcessPendingBuy(e, quantity, gatesOpen)
      PROVE  StepFacts
  <2>1. /\ UNCHANGED <<engineVars, gatewayVars, riskVars, triggers, connected>>
        /\ resting' = resting \ { <<e, "Buy">> } /\ RiskTypes'
    BY <1>1, <1>7 DEF ProcessPendingBuy, RiskTypes, riskVars
  <2>2. quantity \in Nat
    BY PipelineBounds DEF Quantities
  <2>3. CASE PendingBuyIsAdmitted(e, gatesOpen)
    <3>1. /\ position' = [ position EXCEPT ![e] = quantity ]
          /\ localFills' = [ localFills EXCEPT ![e] = @ + quantity ]
      BY <1>7, <2>3 DEF ProcessPendingBuy
    <3>2. OtherTypes' /\ position' \in [Engines -> Nat]
      BY <1>1, <2>1, <2>2, <3>1 DEF OtherTypes
    <3>3. ~halted
      BY <2>3 DEF PendingBuyIsAdmitted, CanTrade
    <3> QED
      BY <1>1, <2>1, <3>2, <3>3, QuietStep
  <2>4. CASE ~PendingBuyIsAdmitted(e, gatesOpen)
    <3>1. position' = position /\ localFills' = localFills
      BY <1>7, <2>4 DEF ProcessPendingBuy
    <3>2. OtherTypes'
      BY <1>1, <2>1, <3>1 DEF OtherTypes
    <3> QED
      BY <1>1, <2>1, <3>1, <3>2, QuietStep
  <2> QED
    BY <2>3, <2>4
<1>8. ASSUME NEW e \in Engines, ProcessPendingSell(e)
      PROVE  StepFacts
  <2>1. /\ UNCHANGED <<engineVars, gatewayVars, riskVars, triggers, connected>>
        /\ resting' = resting \ { <<e, "Sell">> } /\ RiskTypes'
        /\ position' = [ position EXCEPT ![e] = 0 ]
        /\ localFills' = [ localFills EXCEPT ![e] = @ - position[e] ]
    BY <1>1, <1>8 DEF ProcessPendingSell, RiskTypes, riskVars
  <2>2. OtherTypes' /\ position' \in [Engines -> Nat]
    BY <1>1, <2>1 DEF OtherTypes
  <2>3. \A g \in Engines : position'[g] <= position[g]
    BY <1>1, <2>1
  <2> QED
    BY <1>1, <2>1, <2>2, <2>3, QuietStep
<1>9. ASSUME Connect \/ Disconnect
      PROVE  StepFacts
  <2>1. UNCHANGED <<engineVars, gatewayVars, restVars, riskVars, position, localFills>>
    BY <1>9 DEF Connect, Disconnect
  <2>2. connected' \in BOOLEAN
    BY <1>9 DEF Connect, Disconnect
  <2>3. OtherTypes' /\ RiskTypes'
    BY <1>1, <2>1, <2>2 DEF OtherTypes, RiskTypes, restVars, riskVars
  <2> QED
    BY <1>1, <2>1, <2>3, QuietStep
<1>10. ASSUME NEW o \in DOMAIN records, NEW n \in Quantities, NEW affordable \in BOOLEAN,
              ConfirmFill(o, n, affordable)
       PROVE  StepFacts
  <2>1. n \in Nat \ {0}
    BY PipelineBounds DEF Quantities
  <2>2. /\ OrdersInv' /\ RiskTypes' /\ position' \in [Engines -> Nat]
        /\ \A g \in Engines : position'[g] > position[g] =>
             /\ issuer[o] = <<g, "Buy">> /\ Live(o)
             /\ records'[o].filled > records[o].filled
    BY <1>1, <1>10, <2>1, ConfirmStep
  <2>3. nextId' = nextId /\ OtherTypes'
    BY <1>1, <1>10 DEF ConfirmFill, OtherTypes, restVars
  <2> QED
    BY <1>10, <2>2, <2>3 DEF StepFacts, IssuingDisturbsNoOrder, GrowsByOldOrders
<1>11. ASSUME NEW o \in DOMAIN records, CancelOrder(o)
       PROVE  StepFacts
  <2>1. OrdersInv'
    BY <1>1, <1>11, CancelStep
  <2>2. UNCHANGED <<engineVars, restVars, riskVars, connected, position, localFills>>
    BY <1>11 DEF CancelOrder
  <2>3. OtherTypes' /\ RiskTypes' /\ nextId' = nextId /\ position' = position
    BY <1>1, <2>2 DEF OtherTypes, RiskTypes, restVars, riskVars, engineVars
  <2>4. GrowsByOldOrders
    BY <1>1, <2>3 DEF GrowsByOldOrders
  <2> QED
    BY <1>1, <2>1, <2>3, <2>4 DEF StepFacts, IssuingDisturbsNoOrder
<1>12. ASSUME ClearHalt \/ \E halt \in BOOLEAN : SetHaltTrading(halt)
       PROVE  StepFacts
  <2>1. UNCHANGED <<engineVars, gatewayVars, restVars, connected, position, localFills>>
    BY <1>12 DEF ClearHalt, SetHaltTrading
  <2>2. errors' \in 0 .. Threshold + 1
    BY <1>1, <1>12, ThresholdAssumption DEF ClearHalt, SetHaltTrading, RiskTypes
  <2>3. halted' \in BOOLEAN /\ tripped' \in BOOLEAN
    BY <1>1, <1>12 DEF ClearHalt, SetHaltTrading, RiskTypes
  <2>4. OtherTypes' /\ RiskTypes'
    BY <1>1, <2>1, <2>2, <2>3 DEF OtherTypes, RiskTypes, restVars
  <2> QED
    BY <1>1, <2>1, <2>4, QuietStep
<1> QED
  BY <1>2, <1>3, <1>4, <1>5, <1>6, <1>7, <1>8, <1>9, <1>10, <1>11, <1>12
     DEF Next, EngineStep, GatewayStep, RiskStep

\* A stuttering step keeps all of it.
LEMMA StutterFacts == IInv /\ UNCHANGED vars => IInv'
<1> SUFFICES ASSUME IInv, UNCHANGED vars
             PROVE  IInv'
  OBVIOUS
<1>1. /\ UNCHANGED <<engineVars, gatewayVars, restVars, riskVars>>
      /\ UNCHANGED <<connected, position, localFills>>
  BY DEF vars
<1>2. nextId' \in [Engines -> 1 .. MaxOrders + 1]
      /\ UNCHANGED <<contexts, pendingQty, gatewayVars>>
  BY <1>1 DEF engineVars, IInv, OrdersInv, Shape
<1>3. OrdersInv'
  BY <1>2, OrdersUnmoved DEF IInv
<1>4. RiskTypes' /\ OtherTypes'
  BY <1>1 DEF IInv, RiskTypes, OtherTypes, restVars, riskVars
<1> QED
  BY <1>1, <1>3, <1>4 DEF IInv

\* IInv is an invariant of the specification.
THEOREM Invariance == Spec => []IInv
<1>1. Init => IInv
  BY InitIInv
<1>2. IInv /\ [Next]_vars => IInv'
  BY NextFacts, StutterFacts DEF StepFacts
<1> QED
  BY <1>1, <1>2, PTL DEF Spec

--------------------------------------------------------------------------------
(***************************************************************************)
(* The properties.                                                         *)
(***************************************************************************)

\* Every variable keeps its type; in particular no sequence of fills, late
\* fills and pending orders makes a position short.
THEOREM TypeCorrectness == Spec => []TypeOK
<1>1. IInv => TypeOK
  <2> SUFFICES ASSUME IInv
               PROVE  TypeOK
    OBVIOUS
  <2>1. Shape /\ RiskTypes /\ OtherTypes /\ position \in [Engines -> Nat]
    BY DEF IInv, OrdersInv
  <2>2. ASSUME NEW e \in Engines
        PROVE  /\ DOMAIN contexts[e] \subseteq OrderIds
               /\ \A o \in DOMAIN contexts[e] : contexts[e][o] \in Context
               /\ DOMAIN pendingQty[e] \subseteq DOMAIN contexts[e]
               /\ \A o \in DOMAIN pendingQty[e] : pendingQty[e][o] \in Nat \ {0}
    BY <2>1 DEF IInv, OrdersInv, Shape, OrderInv, ContextInv, ContextOf
  <2>3. \A o \in DOMAIN records : records[o].state \in LifecycleStates
    BY <2>1 DEF IInv, OrdersInv, Shape, OrderInv, RecordInv, RecordGood, PipelineRecord
  <2>4. { connected, halted, tripped } \subseteq BOOLEAN
    BY <2>1 DEF RiskTypes, OtherTypes
  <2> QED
    BY <2>1, <2>2, <2>3, <2>4 DEF TypeOK, Shape, RiskTypes, OtherTypes
<1> QED
  BY <1>1, Invariance, PTL

\* Whatever can still be filled is known to the adapter and to its issuer.
THEOREM Tracking == Spec => []LiveOrderIsTracked
<1>1. IInv => LiveOrderIsTracked
  <2> SUFFICES ASSUME IInv, NEW o \in DOMAIN records, Live(o)
               PROVE  /\ o \in atVenue
                      /\ Listeners(o) = { issuer[o][1] }
                      /\ contexts[issuer[o][1]][o].side = issuer[o][2]
                      /\ contexts[issuer[o][1]][o].quantity = records[o].requested
                      /\ \/ contexts[issuer[o][1]][o].cumulative < records[o].filled
                         \/ pendingQty[issuer[o][1]][o] = records[o].remaining
    BY DEF LiveOrderIsTracked
  <2>1. PICK e \in Engines : TrackedBy(o, e)
    BY DEF IInv, OrdersInv, Shape, OrderInv, TrackedInv
  <2>2. issuer[o][1] = e /\ issuer[o][2] = contexts[e][o].side
    BY <2>1 DEF TrackedBy
  <2> QED
    BY <2>1, <2>2 DEF TrackedBy
<1> QED
  BY <1>1, Invariance, PTL

\* At rest no order waits for an answer of the adapter.
THEOREM NothingWaits == Spec => []NoOrderIsLeftWaiting
<1>1. IInv => NoOrderIsLeftWaiting
  BY DEF IInv, OrdersInv, Shape, OrderInv, RecordInv, RecordGood, NoOrderIsLeftWaiting
<1> QED
  BY <1>1, Invariance, PTL

\* Colliding order identities of two engines disturb no order.
THEOREM IdentitiesStayApart == Spec => IdentitiesDoNotMix
<1>1. IInv /\ [Next]_vars => [IssuingDisturbsNoOrder]_vars
  BY NextFacts DEF StepFacts
<1> QED
  BY <1>1, Invariance, PTL DEF Spec, IdentitiesDoNotMix

\* A halt admits no new exposure through any path.
THEOREM HaltHolds == Spec => HaltAdmitsNoExposure
<1>1. IInv /\ [Next]_vars => [GrowsByOldOrders]_vars
  BY NextFacts DEF StepFacts
<1> QED
  BY <1>1, Invariance, PTL DEF Spec, HaltAdmitsNoExposure
--------------------------------------------------------------------------------
(***************************************************************************)
(* The books.  What an engine has booked of its orders is a sum over a set *)
(* of them; the sum is the number of the units booked, counted one by one. *)
(***************************************************************************)
Units(g, s) == { u \in s \X Nat : u[2] \in 1 .. g[u[1]] }
Weight(g, s) == Cardinality(Units(g, s))

\* The units of finitely many orders are finitely many.
LEMMA UnitsFinite ==
  ASSUME NEW S, IsFiniteSet(S), NEW g \in [S -> Nat], NEW s \in SUBSET S
  PROVE  IsFiniteSet(Units(g, s)) /\ Weight(g, s) \in Nat
PROOF
<1> DEFINE f == [ x \in s |-> {x} \X (1 .. g[x]) ]
           T == { f[x] : x \in s }
<1>1. IsFiniteSet(s) BY FS_Subset
<1>2. f \in Surjection(s, T) BY DEF Surjection
<1>3. IsFiniteSet(T)
  <2> HIDE DEF f, T
  <2> QED BY <1>1, <1>2, FS_Surjection
<1>4. ASSUME NEW x \in s PROVE IsFiniteSet({x} \X (1 .. g[x]))
  <2>1. g[x] \in Int /\ 1 \in Int OBVIOUS
  <2>2. IsFiniteSet({x}) BY FS_Singleton
  <2>3. IsFiniteSet(1 .. g[x]) BY <2>1, FS_Interval
  <2> QED BY <2>2, <2>3, FS_Product
<1>5. \A t \in T : IsFiniteSet(t) BY <1>4
<1>6. IsFiniteSet(UNION T)
  <2> HIDE DEF f, T
  <2> QED BY <1>3, <1>5, FS_UNION
<1>7. Units(g, s) \subseteq UNION T
  <2> SUFFICES ASSUME NEW u \in Units(g, s) PROVE u \in UNION T OBVIOUS
  <2>1. u[1] \in s /\ u \in {u[1]} \X (1 .. g[u[1]]) BY DEF Units
  <2> QED BY <2>1
<1>8. IsFiniteSet(Units(g, s))
  <2> HIDE DEF T
  <2> QED BY <1>6, <1>7, FS_Subset
<1> QED BY <1>8, FS_CardinalityType DEF Weight

\* No orders, no units.
LEMMA WeightOfNone ==
  ASSUME NEW g PROVE Weight(g, {}) = 0
BY FS_EmptySet DEF Weight, Units

\* The units of one order count apart from those of the others.
LEMMA WeightSplits ==
  ASSUME NEW S, IsFiniteSet(S), NEW g \in [S -> Nat], NEW s \in SUBSET S, NEW x \in s
  PROVE  Weight(g, s) = g[x] + Weight(g, s \ {x})
PROOF
<1> DEFINE a == {x} \X (1 .. g[x])
           b == Units(g, s \ {x})
<1>1. g[x] \in Nat OBVIOUS
<1>2. IsFiniteSet(a) /\ Cardinality(a) = g[x]
  <2>1. IsFiniteSet({x}) /\ Cardinality({x}) = 1 BY FS_Singleton
  <2>2. g[x] \in Int /\ 1 \in Int BY <1>1
  <2>3. IsFiniteSet(1 .. g[x])
        /\ Cardinality(1 .. g[x]) = IF 1 > g[x] THEN 0 ELSE g[x] - 1 + 1
    BY <2>2, FS_Interval
  <2>4. Cardinality(1 .. g[x]) = g[x] BY <1>1, <2>3
  <2>5. IsFiniteSet(a) /\ Cardinality(a) = Cardinality({x}) * Cardinality(1 .. g[x])
    BY <2>1, <2>3, FS_Product
  <2>6. Cardinality(a) = 1 * g[x] BY <2>1, <2>4, <2>5
  <2> QED BY <1>1, <2>5, <2>6
<1>3. IsFiniteSet(b) /\ Cardinality(b) \in Nat
  <2>1. s \ {x} \in SUBSET S OBVIOUS
  <2> QED BY <2>1, UnitsFinite DEF Weight
<1>4. a \cap b = {} /\ a \cup b = Units(g, s) BY DEF Units
<1> HIDE DEF a, b
<1>5. /\ Cardinality(a \cup b) =
           Cardinality(a) + Cardinality(b) - Cardinality(a \cap b)
  BY <1>2, <1>3, FS_Union
<1>6. Cardinality(a \cap b) = 0 BY <1>4, FS_EmptySet
<1>7. Weight(g, s) = g[x] + Cardinality(b)
  BY <1>1, <1>2, <1>3, <1>4, <1>5, <1>6 DEF Weight
<1> QED BY <1>7 DEF Weight, b

\* Units depend on nothing but what is booked.
LEMMA WeightIsOfValues ==
  ASSUME NEW s, NEW g, NEW h, \A x \in s : g[x] = h[x]
  PROVE  Weight(g, s) = Weight(h, s)
PROOF
<1>1. Units(g, s) = Units(h, s) BY DEF Units
<1> QED BY <1>1 DEF Weight

IssuedBy(e, side) == { o \in DOMAIN records : issuer[o] = <<e, side>> }
BookedOf(e, side) == [ o \in IssuedBy(e, side) |-> Booked(e, o) ]

\* A set of numbers that is not empty has a lowest one.
LEMMA HasLowest ==
  ASSUME NEW T, T \subseteq Nat, T # {}
  PROVE  \E x \in T : \A y \in T : x <= y
<1> DEFINE R == { p \in Nat \X Nat : p[1] < p[2] }
<1>1. IsWellFoundedOn(R, Nat)
  BY NatLessThanWellFounded, Zenon DEF OpToRel
<1>2. PICK x \in T : \A y \in T : ~ (<<y, x>> \in R)
  <2> HIDE DEF R
  <2> QED  BY <1>1, WFMin
<1>3. ASSUME NEW y \in T PROVE x <= y
  <2>1. x \in Nat /\ y \in Nat
    OBVIOUS
  <2>2. ~ (y < x)
    BY <1>2, <2>1
  <2> QED BY <2>1, <2>2
<1> QED BY <1>3

\* The sum of BooksFollowFills is that number.
LEMMA TotalIsWeight ==
  ASSUME NEW e, NEW side, IsFiniteSet(IssuedBy(e, side)),
         \A o \in IssuedBy(e, side) : Booked(e, o) \in Nat
  PROVE  Total(e, side) = Weight(BookedOf(e, side), IssuedBy(e, side))
PROOF
<1> DEFINE S == IssuedBy(e, side)
           g == BookedOf(e, side)
           pick(s) == CHOOSE x \in s : TRUE
           f == CHOOSE f : f = [ s \in SUBSET S |->
                  IF s = {} THEN 0 ELSE Booked(e, pick(s)) + f[s \ { pick(s) }] ]
           w == [ s \in SUBSET S |-> Weight(g, s) ]
<1>1. Total(e, side) = f[S]
  BY DEF Total, MapThenSumSet, MapThenFoldSet, IssuedBy
<1>2. IsFiniteSet(S) /\ g \in [ S -> Nat ] /\ \A x \in S : g[x] = Booked(e, x)
  BY DEF BookedOf
<1> HIDE DEF S, g
<1>3. \A s \in SUBSET S : w[s] = IF s = {} THEN 0
                                ELSE Booked(e, pick(s)) + w[s \ { pick(s) }]
  <2> SUFFICES ASSUME NEW s \in SUBSET S
               PROVE  w[s] = IF s = {} THEN 0
                             ELSE Booked(e, pick(s)) + w[s \ { pick(s) }]
    OBVIOUS
  <2>1. CASE s = {} BY <2>1, WeightOfNone
  <2>2. CASE s # {}
    <3>1. pick(s) \in s BY <2>2
    <3> HIDE DEF pick
    <3>2. Weight(g, s) = g[pick(s)] + Weight(g, s \ { pick(s) })
      BY <1>2, <3>1, WeightSplits
    <3>3. s \ { pick(s) } \in SUBSET S OBVIOUS
    <3> QED BY <1>2, <2>2, <3>1, <3>2, <3>3
  <2> QED BY <2>1, <2>2
<1>4. DOMAIN w = SUBSET S /\ w = [ s \in SUBSET S |-> w[s] ] OBVIOUS
<1>5. w[S] = Weight(g, S) OBVIOUS
<1> HIDE DEF w
<1>6. w = [ s \in SUBSET S |->
             IF s = {} THEN 0 ELSE Booked(e, pick(s)) + w[s \ { pick(s) }] ]
  BY <1>3, <1>4
<1>7. f = [ s \in SUBSET S |->
             IF s = {} THEN 0 ELSE Booked(e, pick(s)) + f[s \ { pick(s) }] ]
  BY <1>6
<1> HIDE DEF f
<1>8. \A s \in SUBSET S :
        f[s] = IF s = {} THEN 0 ELSE Booked(e, pick(s)) + f[s \ { pick(s) }]
  BY <1>7
<1>9. \A s \in SUBSET S : f[s] = w[s]
  <2> DEFINE bad == { s \in SUBSET S : f[s] # w[s] }
             sizes == { Cardinality(s) : s \in bad }
  <2> SUFFICES ASSUME bad # {} PROVE FALSE OBVIOUS
  <2>1. \A s \in SUBSET S : IsFiniteSet(s) /\ Cardinality(s) \in Nat
    BY <1>2, FS_Subset, FS_CardinalityType
  <2>2. sizes \subseteq Nat /\ sizes # {} BY <2>1
  <2>3. PICK n \in sizes : \A m \in sizes : n <= m
    <3> HIDE DEF sizes
    <3> QED BY <2>2, HasLowest
  <2>4. PICK s \in bad : n = Cardinality(s) OBVIOUS
  <2>5. CASE s = {} BY <1>3, <1>8, <2>5
  <2>6. CASE s # {}
    <3>1. pick(s) \in s BY <2>6
    <3> HIDE DEF pick
    <3>2. s \ { pick(s) } \in SUBSET S OBVIOUS
    <3>3. Cardinality(s \ { pick(s) }) = Cardinality(s) - 1
      BY <2>1, <3>1, FS_RemoveElement
    <3>4. ~(n <= Cardinality(s) - 1) BY <2>1, <2>4
    <3>5. s \ { pick(s) } \notin bad BY <2>3, <3>3, <3>4
    <3>6. f[s \ { pick(s) }] = w[s \ { pick(s) }] BY <3>2, <3>5
    <3> QED BY <1>3, <1>8, <2>6, <3>6
  <2> QED BY <2>5, <2>6
<1> QED BY <1>1, <1>5, <1>9 DEF S, g


\* The totals are such numbers in every state of the invariant.
TotalsAreWeights ==
  \A e \in Engines, side \in Sides :
    /\ IsFiniteSet(IssuedBy(e, side))
    /\ BookedOf(e, side) \in [ IssuedBy(e, side) -> Nat ]
    /\ Total(e, side) = Weight(BookedOf(e, side), IssuedBy(e, side))

\* What is booked of an order is a number of units.
LEMMA BookedIsNat ==
  ASSUME IInv, NEW e \in Engines, NEW o \in DOMAIN records
  PROVE  Booked(e, o) \in Nat
<1>1. o \in OrderIds
  BY DEF IInv, OrdersInv, Shape
<1>2. records[o].filled \in Nat
  BY <1>1 DEF IInv, OrdersInv, OrderInv, RecordInv, RecordGood, PipelineRecord
<1>3. o \in DOMAIN contexts[e] => contexts[e][o].cumulative \in Nat
  BY <1>1 DEF IInv, OrdersInv, OrderInv, ContextInv, ContextOf, Context
<1> QED
  BY <1>2, <1>3 DEF Booked

\* The invariant makes the totals numbers of units.
LEMMA CountedTotals == IInv => TotalsAreWeights
<1> SUFFICES ASSUME IInv, NEW e \in Engines, NEW side \in Sides
             PROVE  /\ IsFiniteSet(IssuedBy(e, side))
                    /\ BookedOf(e, side) \in [ IssuedBy(e, side) -> Nat ]
                    /\ Total(e, side) = Weight(BookedOf(e, side), IssuedBy(e, side))
  BY DEF TotalsAreWeights
<1>1. IsFiniteSet(OrderIds)
  BY PipelineBounds, FS_Interval DEF OrderIds
<1>2. IssuedBy(e, side) \subseteq DOMAIN records /\ DOMAIN records \subseteq OrderIds
  BY DEF IssuedBy, IInv, OrdersInv, Shape
<1>3. IsFiniteSet(IssuedBy(e, side))
  BY <1>1, <1>2, FS_Subset
<1>4. \A o \in IssuedBy(e, side) : Booked(e, o) \in Nat
  BY <1>2, BookedIsNat
<1>5. BookedOf(e, side) \in [ IssuedBy(e, side) -> Nat ]
  BY <1>4 DEF BookedOf
<1> QED
  BY <1>3, <1>4, <1>5, TotalIsWeight

\* And in the next state.
LEMMA CountedTotalsNext == IInv' => TotalsAreWeights'
BY CountedTotals, PTL

\* h is g with a new value for order o, which counted for was.
MovesOne(s, g, o, h, was) ==
  /\ IsFiniteSet(s) /\ g \in [ s -> Nat ] /\ h \in [ s \cup { o } -> Nat ]
  /\ \A x \in s \ { o } : h[x] = g[x]
  /\ was \in Nat
  /\ o \in s => was = g[o]
  /\ o \notin s => was = 0

\* A new value for one order moves the number by the difference.
LEMMA WeightMoves ==
  ASSUME NEW s, NEW g, NEW o, NEW h, NEW was, MovesOne(s, g, o, h, was)
  PROVE  /\ Weight(g, s) \in Nat /\ Weight(h, s \cup { o }) \in Nat
         /\ Weight(h, s \cup { o }) = Weight(g, s) + (h[o] - was)
<1>1. /\ IsFiniteSet(s) /\ g \in [ s -> Nat ] /\ h \in [ s \cup { o } -> Nat ]
      /\ \A x \in s \ { o } : h[x] = g[x]
      /\ was \in Nat
      /\ o \in s => was = g[o]
      /\ o \notin s => was = 0
  BY DEF MovesOne
<1> DEFINE t == s \cup { o }
           rest == s \ { o }
<1>2. IsFiniteSet(t) /\ t \ { o } = rest /\ o \in t /\ t \in SUBSET t
  BY <1>1, FS_AddElement
<1>3. rest \in SUBSET s /\ s \in SUBSET s /\ rest \in SUBSET t
  OBVIOUS
<1>4. /\ Weight(g, s) \in Nat /\ Weight(g, rest) \in Nat
      /\ Weight(h, t) \in Nat
  <2>1. Weight(g, s) \in Nat
    BY <1>1, UnitsFinite, <1>3
  <2>2. Weight(g, rest) \in Nat
    BY <1>1, UnitsFinite, <1>3
  <2>3. Weight(h, t) \in Nat
    BY <1>1, UnitsFinite, <1>2
  <2> QED
    BY <2>1, <2>2, <2>3
<1>5. Weight(h, t) = h[o] + Weight(h, rest)
  <2>1. Weight(h, t) = h[o] + Weight(h, t \ { o })
    BY <1>1, <1>2, WeightSplits
  <2> QED
    BY <1>2, <2>1
<1>6. Weight(h, rest) = Weight(g, rest)
  BY <1>1, WeightIsOfValues
<1>7. Weight(g, s) = was + Weight(g, rest)
  <2>1. CASE o \in s
    BY <1>1, <1>3, <2>1, WeightSplits
  <2>2. CASE o \notin s
    <3>1. rest = s
      BY <2>2
    <3> QED
      BY <1>1, <1>4, <2>2, <3>1
  <2> QED
    BY <2>1, <2>2
<1>8. h[o] \in Nat
  BY <1>1
<1> HIDE DEF rest
<1> QED
  BY <1>1, <1>4, <1>5, <1>6, <1>7, <1>8

\* An order neither the engines nor the gateway have changed is booked as before.
LEMMA KeptBooking ==
  ASSUME NEW x \in DOMAIN records, EnginesKeep(x), GatewayKeeps(x), NEW e \in Engines
  PROVE  x \in DOMAIN records' /\ issuer'[x] = issuer[x] /\ Booked(e, x)' = Booked(e, x)
BY DEF EnginesKeep, GatewayKeeps, Booked

\* None of the orders M that a step moves was or is one of engine e's on that
\* side: the total is what it was.
LEMMA TotalsStay ==
  ASSUME IInv, IInv', NEW e \in Engines, NEW side \in Sides, NEW M,
         \A x \in OrderIds \ M : EnginesKeep(x) /\ GatewayKeeps(x),
         \A x \in M : x \in DOMAIN records => issuer[x] # <<e, side>>,
         \A x \in M : x \in DOMAIN records' => issuer'[x] # <<e, side>>
  PROVE  Total(e, side)' = Total(e, side)
<1> DEFINE s == IssuedBy(e, side)
           g == BookedOf(e, side)
<1>1. Total(e, side) = Weight(g, s) /\ Total(e, side)' = Weight(g', s')
  BY CountedTotals, CountedTotalsNext DEF TotalsAreWeights
<1>2. \A x \in DOMAIN records \ M :
        x \in DOMAIN records' /\ issuer'[x] = issuer[x] /\ Booked(e, x)' = Booked(e, x)
  BY KeptBooking DEF IInv, OrdersInv, Shape
<1>3. \A x \in DOMAIN records' \ M : x \in DOMAIN records
  BY DEF IInv, OrdersInv, Shape, GatewayKeeps
<1>4. \A x \in M : x \notin s /\ x \notin s'
  BY DEF IssuedBy
<1>5. s' = s
  BY <1>2, <1>3, <1>4 DEF IssuedBy
<1>6. \A x \in s : g'[x] = g[x]
  BY <1>2, <1>4, <1>5 DEF IssuedBy, BookedOf
<1> HIDE DEF s, g
<1>7. Weight(g', s) = Weight(g, s)
  BY <1>6, WeightIsOfValues
<1> QED
  BY <1>1, <1>5, <1>7

(***************************************************************************)
(* One order of engine e has moved: the total of its side moves with what  *)
(* is booked of it.                                                        *)
(***************************************************************************)
LEMMA TotalMoves ==
  ASSUME IInv, IInv', NEW e \in Engines, NEW side \in Sides, NEW o \in OrderIds,
         OthersKept(o), o \in DOMAIN records', issuer'[o] = <<e, side>>,
         o \in DOMAIN records => issuer[o] = <<e, side>>,
         NEW was \in Nat, was = IF o \in DOMAIN records THEN Booked(e, o) ELSE 0
  PROVE  /\ Booked(e, o)' \in Nat
         /\ Total(e, side) \in Nat /\ Total(e, side)' \in Nat
         /\ Total(e, side)' = Total(e, side) + (Booked(e, o)' - was)
<1> DEFINE s == IssuedBy(e, side)
           g == BookedOf(e, side)
<1>1. /\ Total(e, side) = Weight(g, s) /\ Total(e, side)' = Weight(g', s')
      /\ IsFiniteSet(s) /\ g \in [ s -> Nat ] /\ g' \in [ s' -> Nat ]
  BY CountedTotals, CountedTotalsNext DEF TotalsAreWeights
<1>2. DOMAIN records \subseteq OrderIds /\ DOMAIN records' \subseteq OrderIds
  BY DEF IInv, OrdersInv, Shape
<1>3. \A x \in DOMAIN records \ { o } :
        x \in DOMAIN records' /\ issuer'[x] = issuer[x] /\ Booked(e, x)' = Booked(e, x)
  BY <1>2, KeptBooking DEF OthersKept
<1>4. \A x \in DOMAIN records' \ { o } : x \in DOMAIN records
  BY <1>2 DEF OthersKept, GatewayKeeps
<1>5. s' = s \cup { o }
  BY <1>3, <1>4 DEF IssuedBy
<1>6. o \in s <=> o \in DOMAIN records
  BY DEF IssuedBy
<1>7. \A x \in s \ { o } : g'[x] = g[x]
  BY <1>3, <1>5 DEF IssuedBy, BookedOf
<1>8. (o \in s => was = g[o]) /\ (o \notin s => was = 0)
  BY <1>6 DEF BookedOf
<1>9. g'[o] = Booked(e, o)' /\ g'[o] \in Nat
  BY <1>1, <1>5 DEF BookedOf
<1>10. g' \in [ s \cup { o } -> Nat ]
  BY <1>1, <1>5
<1> HIDE DEF s, g
<1>11. MovesOne(s, g, o, g', was)
  BY <1>1, <1>7, <1>8, <1>10 DEF MovesOne
<1>12. /\ Weight(g, s) \in Nat /\ Weight(g', s \cup { o }) \in Nat
       /\ Weight(g', s \cup { o }) = Weight(g, s) + (g'[o] - was)
  BY <1>11, WeightMoves
<1> QED
  BY <1>1, <1>5, <1>9, <1>12

\* The totals of the invariant are numbers of units.
LEMMA TotalIsNat ==
  ASSUME IInv, NEW e \in Engines, NEW side \in Sides
  PROVE  Total(e, side) \in Nat
<1>1. IssuedBy(e, side) \in SUBSET IssuedBy(e, side)
  OBVIOUS
<1> QED
  BY <1>1, CountedTotals, UnitsFinite DEF TotalsAreWeights

(***************************************************************************)
(* A step that moves one order of engine e, and its position by what more  *)
(* is booked of the order, keeps everybody's books.                        *)
(***************************************************************************)
LEMMA BooksMove ==
  ASSUME IInv, IInv', BooksFollowFills, NEW e \in Engines, NEW side \in Sides,
         NEW o \in OrderIds,
         OthersKept(o), o \in DOMAIN records', issuer'[o] = <<e, side>>,
         o \in DOMAIN records => issuer[o] = <<e, side>>,
         NEW was \in Nat, was = IF o \in DOMAIN records THEN Booked(e, o) ELSE 0,
         localFills' = localFills,
         position' = Moved(position, e, side, Booked(e, o)' - was)
  PROVE  BooksFollowFills'
<1>1. /\ position \in [ Engines -> Nat ] /\ localFills \in [ Engines -> Int ]
      /\ DOMAIN records \subseteq OrderIds
  BY DEF IInv, OtherTypes, OrdersInv, Shape
<1>2. ASSUME NEW d \in Engines, NEW way \in Sides, <<d, way>> # <<e, side>>
      PROVE  Total(d, way)' = Total(d, way)
  <2> DEFINE M == { o }
  <2>1. /\ \A x \in OrderIds \ M : EnginesKeep(x) /\ GatewayKeeps(x)
        /\ \A x \in M : x \in DOMAIN records => issuer[x] # <<d, way>>
        /\ \A x \in M : x \in DOMAIN records' => issuer'[x] # <<d, way>>
    BY <1>2 DEF OthersKept
  <2> HIDE DEF M
  <2> QED
    BY <2>1, TotalsStay
<1>3. /\ Booked(e, o)' \in Nat
      /\ Total(e, side)' = Total(e, side) + (Booked(e, o)' - was)
  BY TotalMoves
<1>4. "Buy" \in Sides /\ "Sell" \in Sides /\ side \in { "Buy", "Sell" }
  BY DEF Sides
<1>5. \A d \in Engines : Total(d, "Buy") \in Nat /\ Total(d, "Sell") \in Nat
  BY <1>4, TotalIsNat
<1>6. ASSUME NEW d \in Engines
      PROVE  position'[d] = Total(d, "Buy")' - Total(d, "Sell")' + localFills'[d]
  <2>1. /\ position[d] = Total(d, "Buy") - Total(d, "Sell") + localFills[d]
        /\ position[d] \in Nat /\ localFills[d] \in Int
        /\ Total(d, "Buy") \in Nat /\ Total(d, "Sell") \in Nat
    BY <1>1, <1>5 DEF BooksFollowFills
  <2>2. CASE d # e
    <3>1. position'[d] = position[d]
      BY <1>1, <2>2 DEF Moved
    <3>2. Total(d, "Buy")' = Total(d, "Buy") /\ Total(d, "Sell")' = Total(d, "Sell")
      BY <1>2, <1>4, <2>2
    <3> QED
      BY <2>1, <3>1, <3>2
  <2>3. CASE d = e /\ side = "Buy"
    <3>1. position'[d] = position[d] + (Booked(e, o)' - was)
      BY <1>1, <2>3 DEF Moved
    <3>2. <<d, "Sell">> # <<e, side>>
      BY <2>3
    <3>3. Total(d, "Sell")' = Total(d, "Sell")
      BY <1>2, <1>4, <3>2
    <3>4. Total(d, "Buy")' = Total(d, "Buy") + (Booked(e, o)' - was)
      BY <1>3, <2>3
    <3> QED
      BY <1>3, <2>1, <3>1, <3>3, <3>4
  <2>4. CASE d = e /\ side = "Sell"
    <3>1. position'[d] = position[d] - (Booked(e, o)' - was)
      BY <1>1, <2>4 DEF Moved
    <3>2. <<d, "Buy">> # <<e, side>>
      BY <2>4
    <3>3. Total(d, "Buy")' = Total(d, "Buy")
      BY <1>2, <1>4, <3>2
    <3>4. Total(d, "Sell")' = Total(d, "Sell") + (Booked(e, o)' - was)
      BY <1>3, <2>4
    <3> QED
      BY <1>3, <2>1, <3>1, <3>3, <3>4
  <2> QED
    BY <1>4, <2>2, <2>3, <2>4
<1> QED
  BY <1>6 DEF BooksFollowFills

\* A step that leaves orders and contexts alone keeps the books if the
\* positions move with the local fills.
LEMMA BooksStay ==
  ASSUME IInv, IInv', BooksFollowFills, UNCHANGED <<contexts, pendingQty, gatewayVars>>,
         \A e \in Engines : position'[e] - position[e] = localFills'[e] - localFills[e]
  PROVE  BooksFollowFills'
<1>1. \A x : EnginesKeep(x) /\ GatewayKeeps(x)
  BY DEF EnginesKeep, GatewayKeeps, gatewayVars
<1> SUFFICES ASSUME NEW e \in Engines
             PROVE  position'[e] = Total(e, "Buy")' - Total(e, "Sell")' + localFills'[e]
  BY DEF BooksFollowFills
<1>2. "Buy" \in Sides /\ "Sell" \in Sides
  BY DEF Sides
<1>3. Total(e, "Buy")' = Total(e, "Buy") /\ Total(e, "Sell")' = Total(e, "Sell")
  <2> DEFINE M == {}
  <2>1. /\ \A x \in OrderIds \ M : EnginesKeep(x) /\ GatewayKeeps(x)
        /\ \A d \in Engines, way \in Sides : \A x \in M :
             /\ x \in DOMAIN records => issuer[x] # <<d, way>>
             /\ x \in DOMAIN records' => issuer'[x] # <<d, way>>
    BY <1>1
  <2> HIDE DEF M
  <2> QED
    BY <1>2, <2>1, TotalsStay
<1>4. Total(e, "Buy") \in Nat /\ Total(e, "Sell") \in Nat
  BY <1>2, TotalIsNat
<1>5. /\ position[e] \in Int /\ position'[e] \in Int
      /\ localFills[e] \in Int /\ localFills'[e] \in Int
  BY DEF IInv, OtherTypes
<1>6. position[e] = Total(e, "Buy") - Total(e, "Sell") + localFills[e]
  BY DEF BooksFollowFills
<1> QED
  BY <1>3, <1>4, <1>5, <1>6

(***************************************************************************)
(* What an execution moves: the position by what is newly booked of the    *)
(* order, or nothing at all.                                               *)
(***************************************************************************)
LEMMA ExecutionMoves ==
  ASSUME DOMAIN contexts = Engines, NEW e \in Engines, NEW o, NEW c \in Context,
         NEW cumulative \in Nat, NEW remaining, NEW seq, NEW affordable \in BOOLEAN,
         OnBrokerExecution(e, o, c, cumulative, remaining, seq, affordable),
         o \in DOMAIN records', remaining = 0 => records'[o].filled = cumulative,
         position \in [ Engines -> Nat ]
  PROVE  position' = Moved(position, e, c.side, Booked(e, o)' - c.cumulative)
<1>1. CASE FillIsBookable(e, c, cumulative, seq, affordable)
  <2>1. Book(e, o, c, cumulative, remaining, seq)
    BY <1>1 DEF OnBrokerExecution
  <2>2. position' = Moved(position, e, c.side, cumulative - c.cumulative)
    BY <2>1 DEF Book
  <2>3. CASE remaining = 0
    <3>1. o \notin DOMAIN contexts'[e]
      BY <2>1, <2>3 DEF Book, Without
    <3> QED
      BY <2>2, <2>3, <3>1 DEF Booked
  <2>4. CASE remaining # 0
    <3> DEFINE booked == [ c EXCEPT !.cumulative = cumulative, !.lastSeq = seq ]
    <3>1. contexts'[e] = With(contexts[e], o, booked)
      BY <2>1, <2>4 DEF Book
    <3>2. booked.cumulative = cumulative
      BY DEF Context
    <3> HIDE DEF booked
    <3>3. o \in DOMAIN contexts'[e] /\ contexts'[e][o].cumulative = cumulative
      BY <3>1, <3>2 DEF With
    <3> QED
      BY <2>2, <3>3 DEF Booked
  <2> QED
    BY <2>3, <2>4
<1>2. CASE ~FillIsBookable(e, c, cumulative, seq, affordable)
  <2>1. contexts'[e] = With(contexts[e], o, c) /\ position' = position
    BY <1>2 DEF OnBrokerExecution
  <2>2. Booked(e, o)' = c.cumulative
    BY <2>1 DEF Booked, With
  <2>3. c.cumulative \in Nat
    BY DEF Context
  <2>4. Moved(position, e, c.side, c.cumulative - c.cumulative) = position
    BY <2>3 DEF Moved
  <2> QED
    BY <2>1, <2>2, <2>4
<1> QED
  BY <1>1, <1>2

\* A rejection books nothing.
LEMMA RejectBooks ==
  ASSUME IInv, IInv', BooksFollowFills, NEW e \in Engines, NEW side \in Sides,
         NEW quantity \in Nat \ {0}, NEW o \in OrderIds, o \notin DOMAIN records,
         OthersKept(o), localFills' = localFills, Reject(e, o, side, quantity)
  PROVE  BooksFollowFills'
<1>1. /\ records' = With(records, o, Acknowledged(quantity, FALSE))
      /\ issuer' = With(issuer, o, <<e, side>>)
      /\ contexts' = contexts /\ position' = position
  BY DEF Reject
<1>2. /\ o \in DOMAIN records' /\ issuer'[o] = <<e, side>>
      /\ records'[o] = Acknowledged(quantity, FALSE)
  BY <1>1 DEF With
<1>3. Acknowledged(quantity, FALSE).filled = 0
  BY RejectedRecord
<1>4. o \notin DOMAIN contexts'[e]
  BY <1>1, NewOrderIsUnknown DEF IInv
<1>5. Booked(e, o)' = 0
  BY <1>2, <1>3, <1>4 DEF Booked
<1>6. position' = Moved(position, e, side, Booked(e, o)' - 0)
  BY <1>1, <1>5 DEF Moved, IInv
<1> QED
  BY <1>2, <1>6, BooksMove

\* An acceptance with its fill books the fill, or nothing.
LEMMA AcceptBooks ==
  ASSUME IInv, IInv', BooksFollowFills, NEW e \in Engines, NEW side \in Sides,
         NEW quantity \in Nat \ {0}, NEW o \in OrderIds, o \notin DOMAIN records,
         OthersKept(o), localFills' = localFills, NEW n \in 1 .. quantity,
         AcceptAndFill(e, o, side, quantity, n)
  PROVE  BooksFollowFills'
<1> DEFINE c == [ side |-> side, quantity |-> quantity, cumulative |-> 0, lastSeq |-> 0 ]
           r == AnsweredRecord(quantity, n)
<1>1. /\ records' = With(records, o, r) /\ issuer' = With(issuer, o, <<e, side>>)
      /\ OnBrokerExecution(e, o, c, n, quantity - n, 5, TRUE)
  BY DEF AcceptAndFill, AnsweredRecord
<1>2. c \in Context /\ c.side = side /\ c.cumulative = 0 /\ n \in Nat
  BY DEF Context
<1>3. r.filled = n
  BY FilledRecord
<1> HIDE DEF c, r
<1>4. o \in DOMAIN records' /\ issuer'[o] = <<e, side>> /\ records'[o] = r
  BY <1>1 DEF With
<1>5. DOMAIN contexts = Engines /\ position \in [ Engines -> Nat ]
  BY DEF IInv, OrdersInv, Shape
<1>6. position' = Moved(position, e, c.side, Booked(e, o)' - c.cumulative)
  BY <1>1, <1>2, <1>3, <1>4, <1>5, ExecutionMoves
<1>7. position' = Moved(position, e, side, Booked(e, o)' - 0)
  BY <1>2, <1>6
<1> QED
  BY <1>4, <1>7, BooksMove

\* Routing keeps the books, whichever way the order goes.
LEMMA RouteBooks ==
  ASSUME IInv, IInv', BooksFollowFills, NEW e \in Engines, NEW side \in Sides,
         NEW quantity \in Nat \ {0}, localFills' = localFills,
         Route(e, side, quantity)
  PROVE  BooksFollowFills'
<1> DEFINE o == nextId[e]
<1>1. /\ o \in OrderIds /\ nextId' = [ nextId EXCEPT ![e] = @ + 1 ]
      /\ IF o \in DOMAIN records
         THEN RefuseIdentity
         ELSE Reject(e, o, side, quantity) \/
              \E n \in 1 .. quantity : AcceptAndFill(e, o, side, quantity, n)
  BY DEF Route, IdentityIsNew
<1>2. /\ OrdersInv /\ RiskTypes /\ position \in [ Engines -> Nat ]
      /\ nextId' \in [Engines -> 1 .. MaxOrders + 1]
  BY DEF IInv, OrdersInv, Shape
<1> HIDE DEF o
<1>3. CASE o \in DOMAIN records
  <2>1. UNCHANGED <<contexts, pendingQty, gatewayVars, riskVars, position>>
    BY <1>1, <1>3 DEF RefuseIdentity
  <2> QED
    <3>1. localFills \in [ Engines -> Int ]
      BY DEF IInv, OtherTypes
    <3>2. \A d \in Engines : position'[d] - position[d] = localFills'[d] - localFills[d]
      BY <1>2, <2>1, <3>1
    <3> QED
      BY <2>1, <3>2, BooksStay
<1>4. CASE o \notin DOMAIN records /\ Reject(e, o, side, quantity)
  <2>1. OthersKept(o)
    BY <1>1, <1>2, <1>4, RejectStep DEF OthersKept
  <2> QED
    BY <1>1, <1>4, <2>1, RejectBooks
<1>5. ASSUME o \notin DOMAIN records,
             NEW n \in 1 .. quantity, AcceptAndFill(e, o, side, quantity, n)
      PROVE  BooksFollowFills'
  <2>1. OthersKept(o)
    BY <1>1, <1>2, <1>5, AcceptStep DEF OthersKept
  <2> QED
    BY <1>1, <1>5, <2>1, AcceptBooks
<1> QED
  BY <1>1, <1>3, <1>4, <1>5

\* A late fill books what it adds, or nothing.
LEMMA ConfirmBooks ==
  ASSUME IInv, IInv', BooksFollowFills, NEW o \in DOMAIN records,
         NEW n \in Nat \ {0}, NEW affordable \in BOOLEAN,
         ConfirmFill(o, n, affordable)
  PROVE  BooksFollowFills'
<1>1. /\ OthersKept(o) /\ DOMAIN records' = DOMAIN records /\ issuer' = issuer
      /\ \E g \in Engines : IsExecutionOf(o, g, affordable)
  BY ConfirmStep DEF IInv
<1>2. PICK g \in Engines : IsExecutionOf(o, g, affordable)
  BY <1>1
<1> DEFINE c == contexts[g][o]
<1>3. /\ o \in DOMAIN contexts[g] /\ c \in Context /\ issuer[o] = <<g, c.side>>
      /\ records'[o].filled \in Nat
  BY <1>2 DEF IsExecutionOf
<1>4. PICK remaining \in Nat, seq \in Nat :
        OnBrokerExecution(g, o, c, records'[o].filled, remaining, seq, affordable)
  BY <1>2 DEF IsExecutionOf
<1>5. /\ DOMAIN contexts = Engines /\ position \in [ Engines -> Nat ] /\ o \in OrderIds
  BY DEF IInv, OrdersInv, Shape
<1>6. Booked(g, o) = c.cumulative /\ c.cumulative \in Nat /\ c.side \in Sides
  BY <1>3 DEF Booked, Context
<1>7. localFills' = localFills
  BY DEF ConfirmFill
<1>8. PICK side \in Sides, was \in Nat : side = c.side /\ was = c.cumulative
  BY <1>6
<1>9. position' = Moved(position, g, side, Booked(g, o)' - was)
  <2>1. position' = Moved(position, g, c.side, Booked(g, o)' - c.cumulative)
    <3> DEFINE filled == records'[o].filled
    <3>1. filled \in Nat /\ OnBrokerExecution(g, o, c, filled, remaining, seq, affordable)
      BY <1>3, <1>4
    <3>2. o \in DOMAIN records' /\ records'[o].filled = filled
      BY <1>1
    <3> HIDE DEF filled, c
    <3> QED
      BY <1>3, <1>5, <3>1, <3>2, ExecutionMoves
  <2> QED
    BY <1>8, <2>1
<1>10. /\ o \in DOMAIN records' /\ issuer'[o] = <<g, side>> /\ issuer[o] = <<g, side>>
       /\ was = Booked(g, o)
  BY <1>1, <1>3, <1>6, <1>8
<1> QED
  BY <1>1, <1>5, <1>7, <1>9, <1>10, BooksMove

\* A cancel moves nothing: what is booked of the order stays booked.
LEMMA CancelBooks ==
  ASSUME IInv, IInv', BooksFollowFills, NEW o \in DOMAIN records, CancelOrder(o)
  PROVE  BooksFollowFills'
<1>1. /\ OthersKept(o) /\ DOMAIN records' = DOMAIN records /\ issuer' = issuer
      /\ records'[o].filled = records[o].filled
  BY CancelStep DEF IInv
<1>2. contexts' = contexts /\ position' = position /\ localFills' = localFills
  BY DEF CancelOrder, engineVars
<1>3. /\ position \in [ Engines -> Nat ] /\ o \in OrderIds
      /\ issuer \in [ DOMAIN records -> Engines \X Sides ]
  BY DEF IInv, OrdersInv, Shape
<1>4. PICK e \in Engines, side \in Sides : issuer[o] = <<e, side>>
  BY <1>3
<1>5. Booked(e, o) \in Nat /\ Booked(e, o)' = Booked(e, o)
  BY <1>1, <1>2, BookedIsNat DEF Booked
<1>6. PICK was \in Nat : was = Booked(e, o)
  BY <1>5
<1>7. position' = Moved(position, e, side, Booked(e, o)' - was)
  BY <1>2, <1>3, <1>5, <1>6 DEF Moved
<1> QED
  BY <1>1, <1>2, <1>3, <1>4, <1>6, <1>7, BooksMove

\* Every step keeps the books.
LEMMA NextBooks == IInv /\ BooksFollowFills /\ Next => BooksFollowFills'
<1> SUFFICES ASSUME IInv, BooksFollowFills, Next
             PROVE  BooksFollowFills'
  OBVIOUS
<1>1. IInv'
  BY NextFacts DEF StepFacts
<1>2. /\ position \in [ Engines -> Nat ] /\ localFills \in [ Engines -> Int ]
  BY DEF IInv, OtherTypes
<1>3. ASSUME UNCHANGED <<engineVars, gatewayVars, position, localFills>>
      PROVE  BooksFollowFills'
  <2>1. \A d \in Engines : position'[d] - position[d] = localFills'[d] - localFills[d]
    BY <1>2, <1>3
  <2> QED
    BY <1>1, <1>3, <2>1, BooksStay DEF engineVars
<1>4. ASSUME NEW e \in Engines, ExecuteBuy(e)
      PROVE  BooksFollowFills'
  <2>1. PICK quantity \in Quantities : Route(e, "Buy", quantity)
    BY <1>4 DEF ExecuteBuy
  <2>2. quantity \in Nat \ {0} /\ "Buy" \in Sides /\ localFills' = localFills
    BY <1>4, PipelineBounds DEF ExecuteBuy, Quantities, Sides
  <2> QED
    BY <1>1, <2>1, <2>2, RouteBooks
<1>5. ASSUME NEW e \in Engines,
             ExecuteSell(e) \/ \E kind \in TriggerKinds : FireTrigger(e, kind)
      PROVE  BooksFollowFills'
  <2>1. Route(e, "Sell", position[e]) /\ position[e] > 0 /\ localFills' = localFills
    <3>1. CASE ExecuteSell(e)
      BY <3>1 DEF ExecuteSell
    <3>2. ASSUME NEW kind \in TriggerKinds, FireTrigger(e, kind)
          PROVE  Route(e, "Sell", position[e]) /\ position[e] > 0 /\ localFills' = localFills
      BY <3>2 DEF FireTrigger
    <3> QED
      BY <1>5, <3>1, <3>2
  <2>2. position[e] \in Nat \ {0} /\ "Sell" \in Sides
    BY <1>2, <2>1 DEF Sides
  <2> QED
    BY <1>1, <2>1, <2>2, RouteBooks
<1>6. ASSUME NEW e \in Engines, NEW kind \in TriggerKinds, PlaceTrigger(e, kind)
      PROVE  BooksFollowFills'
  BY <1>3, <1>6 DEF PlaceTrigger
<1>7. ASSUME NEW e \in Engines, NEW side \in Sides, PlacePendingOrder(e, side)
      PROVE  BooksFollowFills'
  BY <1>3, <1>7 DEF PlacePendingOrder
<1>8. ASSUME NEW e \in Engines, NEW quantity \in Quantities, NEW gatesOpen \in BOOLEAN,
             ProcessPendingBuy(e, quantity, gatesOpen)
      PROVE  BooksFollowFills'
  <2>1. UNCHANGED <<engineVars, gatewayVars>> /\ quantity \in Nat
    BY <1>8, PipelineBounds DEF ProcessPendingBuy, Quantities
  <2>2. CASE PendingBuyIsAdmitted(e, gatesOpen)
    <3>1. /\ position[e] = 0
          /\ position' = [ position EXCEPT ![e] = quantity ]
          /\ localFills' = [ localFills EXCEPT ![e] = @ + quantity ]
      BY <1>8, <2>2 DEF ProcessPendingBuy, PendingBuyIsAdmitted
    <3>2. \A d \in Engines :
            position'[d] - position[d] = localFills'[d] - localFills[d]
      BY <1>2, <2>1, <3>1
    <3> QED
      BY <1>1, <2>1, <3>2, BooksStay DEF engineVars
  <2>3. CASE ~PendingBuyIsAdmitted(e, gatesOpen)
    BY <1>3, <1>8, <2>1, <2>3 DEF ProcessPendingBuy
  <2> QED
    BY <2>2, <2>3
<1>9. ASSUME NEW e \in Engines, ProcessPendingSell(e)
      PROVE  BooksFollowFills'
  <2>1. /\ UNCHANGED <<engineVars, gatewayVars>>
        /\ position' = [ position EXCEPT ![e] = 0 ]
        /\ localFills' = [ localFills EXCEPT ![e] = @ - position[e] ]
    BY <1>9 DEF ProcessPendingSell
  <2>2. \A d \in Engines : position'[d] - position[d] = localFills'[d] - localFills[d]
    BY <1>2, <2>1
  <2> QED
    BY <1>1, <2>1, <2>2, BooksStay DEF engineVars
<1>10. ASSUME NEW o \in DOMAIN records, NEW n \in Quantities, NEW affordable \in BOOLEAN,
              ConfirmFill(o, n, affordable)
       PROVE  BooksFollowFills'
  <2>1. n \in Nat \ {0}
    BY PipelineBounds DEF Quantities
  <2> QED
    BY <1>1, <1>10, <2>1, ConfirmBooks
<1>11. ASSUME NEW o \in DOMAIN records, CancelOrder(o)
       PROVE  BooksFollowFills'
  BY <1>1, <1>11, CancelBooks
<1>12. ASSUME \/ Connect
              \/ Disconnect
              \/ RiskStep
       PROVE  BooksFollowFills'
  <2>1. UNCHANGED <<engineVars, gatewayVars, position, localFills>>
    BY <1>12 DEF Connect, Disconnect, RiskStep, SetHaltTrading, ClearHalt
  <2> QED
    BY <1>3, <2>1
<1> QED
  BY <1>4, <1>5, <1>6, <1>7, <1>8, <1>9, <1>10, <1>11, <1>12
     DEF Next, EngineStep, GatewayStep

\* The portfolio holds of each symbol what its own engine's orders bought less
\* what they sold, plus what pending orders moved: no fill is booked twice, by
\* the wrong engine or not at all.
THEOREM BooksStayTrue == Spec => []BooksFollowFills
<1>1. Init => BooksFollowFills
  <2> SUFFICES ASSUME Init, NEW e \in Engines
               PROVE  position[e] = Total(e, "Buy") - Total(e, "Sell") + localFills[e]
    BY DEF BooksFollowFills
  <2>1. "Buy" \in Sides /\ "Sell" \in Sides
    BY DEF Sides
  <2>2. \A side \in Sides : Total(e, side) = Weight(BookedOf(e, side), IssuedBy(e, side))
    BY InitIInv, CountedTotals DEF TotalsAreWeights
  <2>3. DOMAIN records = {}
    BY DEF Init
  <2>4. \A side : IssuedBy(e, side) = {}
    BY <2>3 DEF IssuedBy
  <2>5. \A side \in Sides : Weight(BookedOf(e, side), {}) = 0
    BY WeightOfNone
  <2>6. Total(e, "Buy") = 0 /\ Total(e, "Sell") = 0
    BY <2>1, <2>2, <2>4, <2>5
  <2>7. position[e] = 0 /\ localFills[e] = 0
    BY DEF Init
  <2> QED
    BY <2>6, <2>7
<1>2. IInv /\ BooksFollowFills /\ UNCHANGED vars => BooksFollowFills'
  <2> SUFFICES ASSUME IInv, BooksFollowFills, UNCHANGED vars
               PROVE  BooksFollowFills'
    OBVIOUS
  <2>1. /\ UNCHANGED <<engineVars, gatewayVars>>
        /\ position' = position /\ localFills' = localFills
    BY DEF vars
  <2>2. \A d \in Engines : position'[d] - position[d] = localFills'[d] - localFills[d]
    BY <2>1 DEF IInv, OtherTypes
  <2> QED
    BY <2>1, <2>2, StutterFacts, BooksStay DEF engineVars
<1>3. IInv /\ BooksFollowFills /\ [Next]_vars => BooksFollowFills'
  BY <1>2, NextBooks
<1> QED
  BY <1>1, <1>3, Invariance, PTL DEF Spec
================================================================================
