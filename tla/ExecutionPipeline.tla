--------------------------- MODULE ExecutionPipeline ---------------------------
(***************************************************************************)
(* The PAPER trading pipeline that main() wires: one ExecutionEngine per   *)
(* symbol, all of them bound to one BrokerGateway with its lifecycle store *)
(* and deterministic adapter, one PortfolioManager and one RiskEngine.     *)
(*                                                                         *)
(* The adapter calls back before submit() and cancel() return and one      *)
(* thread runs every engine, so an operation with all its callbacks is one *)
(* step; what other threads write is a flag of the RiskEngine.  Triggers,  *)
(* pending orders, late fills and cancels are placed by the tests and the  *)
(* burn-in benchmark.  Prices, fees and cash are left out: a trigger or a  *)
(* pending order may fire at any candle, and a late fill may turn out not  *)
(* to be affordable.                                                       *)
(***************************************************************************)
EXTENDS LifecycleRecord, FiniteSets

CONSTANTS
  Engines,      \* the engines, one per symbol
  Cap,          \* maxConcurrentPositions
  Threshold,    \* errorRateThresh: more errors than this in a minute halt
  MaxQuantity,  \* bound: units of one buy, or of one late fill
  MaxOrders,    \* bound: orders one engine issues
  MaxResting    \* bound: triggers and pending orders at any time

ASSUME CapAssumption == Cap \in Nat \ {0}
ASSUME ThresholdAssumption == Threshold \in Nat
ASSUME PipelineBounds ==
  MaxQuantity \in Nat \ {0} /\ MaxOrders \in Nat /\ MaxResting \in Nat

OrderIds == 1 .. MaxOrders
Quantities == 1 .. MaxQuantity

VARIABLES
  nextId,       \* m_nextLocalOrderId of each engine
  contexts,     \* m_gatewayOrderContexts of each engine
  pendingQty,   \* m_pendingBrokerQty of each engine
  records,      \* m_records of the gateway's lifecycle store
  appliedKeys,  \* m_appliedEventKeys of that store
  issuer,       \* which engine and side an order of the store belongs to
  atVenue,      \* m_pendingOrders of the adapter
  connected,    \* m_connected of the adapter
  position,     \* the portfolio's quantity of each engine's symbol
  localFills,   \* history: net quantity the portfolio took without a venue
  triggers,     \* the slots of the TriggerOrderManager: protective sells
  resting,      \* m_pendingOrders of the portfolio, by engine and side
  halted,       \* m_halted of the RiskEngine
  errors,       \* m_errorTimestamps: errors of the last minute
  tripped       \* history: the error rate halted, no operator has cleared

engineVars == <<nextId, contexts, pendingQty>>
gatewayVars == <<records, appliedKeys, issuer, atVenue>>
restVars == <<triggers, resting>>
riskVars == <<halted, errors, tripped>>

vars == <<engineVars, gatewayVars, restVars, riskVars, connected, position,
          localFills>>

Sides == { "Buy", "Sell" }
TriggerKinds == { "StopLoss", "Oco" }

Context ==
  [ side : Sides, quantity : Nat \ {0}, cumulative : Nat, lastSeq : Nat ]

Init ==
  /\ nextId = [ e \in Engines |-> 1 ]
  /\ contexts = [ e \in Engines |-> << >> ]
  /\ pendingQty = [ e \in Engines |-> << >> ]
  /\ records = << >> /\ issuer = << >>
  /\ appliedKeys = {} /\ atVenue = {}
  /\ connected = TRUE
  /\ position = [ e \in Engines |-> 0 ]
  /\ localFills = [ e \in Engines |-> 0 ]
  /\ triggers = {} /\ resting = {}
  /\ halted = FALSE /\ errors = 0 /\ tripped = FALSE

\* The function f with x mapped to y, and f without x.
With(f, x, y) == [ z \in DOMAIN f \cup { x } |-> IF z = x THEN y ELSE f[z] ]
Without(f, x) == [ z \in DOMAIN f \ { x } |-> f[z] ]

--------------------------------------------------------------------------------
(***************************************************************************)
(* RiskEngine.                                                             *)
(***************************************************************************)
HeldSymbols == { e \in Engines : position[e] > 0 }

\* canTrade() without the drawdown, latency and VaR gates, which are a free
\* choice of the actions that ask.
CanTrade == ~halted /\ Cardinality(HeldSymbols) < Cap

(***************************************************************************)
(* reportApiError(): the errors of the last minute are kept, however many  *)
(* those are, and counted with the new one.  The count is not followed     *)
(* beyond the threshold.                                                   *)
(***************************************************************************)
ReportApiError ==
  \E kept \in 0 .. errors :
    /\ errors' = IF kept > Threshold THEN kept ELSE kept + 1
    /\ halted' = (halted \/ errors' > Threshold)
    /\ tripped' = (tripped \/ errors' > Threshold)

\* The integrity callback of the live feed, which main() wires.
SetHaltTrading(halt) ==
  /\ halted' = halt
  /\ UNCHANGED <<engineVars, gatewayVars, restVars, errors, tripped, connected,
                 position, localFills>>

\* An operator's review.
ClearHalt ==
  /\ halted' = FALSE /\ errors' = 0 /\ tripped' = FALSE
  /\ UNCHANGED <<engineVars, gatewayVars, restVars, connected, position,
                 localFills>>

--------------------------------------------------------------------------------
(***************************************************************************)
(* onBrokerExecution() of the engine that has a context for order o: the   *)
(* fill up to cumulative, at sequence seq, is booked, or it is refused and *)
(* counted as an error.  affordable stands for the time stamp and for the  *)
(* cash the portfolio asks for.                                            *)
(***************************************************************************)
\* Mutant: a sell is booked beyond what is held.
FillIsBookable_Overclose(e, c, cumulative, seq, affordable) ==
  affordable /\ seq > c.lastSeq /\ cumulative > c.cumulative

FillIsBookable(e, c, cumulative, seq, affordable) ==
  /\ affordable
  /\ seq > c.lastSeq
  /\ cumulative > c.cumulative
  /\ c.side = "Sell" => cumulative - c.cumulative <= position[e]

\* The position of engine e moves by n units in the direction of the side.
Moved(p, e, side, n) ==
  [ p EXCEPT ![e] = IF side = "Buy" THEN @ + n ELSE @ - n ]

\* Mutant: the whole fill is booked again with every event.
Book_Cumulative(e, o, c, cumulative, remaining, seq) ==
  /\ position' = Moved(position, e, c.side, cumulative)
  /\ IF remaining = 0
     THEN /\ contexts' = [ contexts EXCEPT ![e] = Without(@, o) ]
          /\ pendingQty' = [ pendingQty EXCEPT ![e] = Without(@, o) ]
     ELSE /\ contexts' = [ contexts EXCEPT ![e] = With(@, o,
                 [ c EXCEPT !.cumulative = cumulative, !.lastSeq = seq ]) ]
          /\ pendingQty' = [ pendingQty EXCEPT ![e] = With(@, o, remaining) ]

\* Mutant: the context goes with the first fill, complete or not.
Book_Closing(e, o, c, cumulative, remaining, seq) ==
  /\ position' = Moved(position, e, c.side, cumulative - c.cumulative)
  /\ contexts' = [ contexts EXCEPT ![e] = Without(@, o) ]
  /\ pendingQty' = [ pendingQty EXCEPT ![e] = Without(@, o) ]

Book(e, o, c, cumulative, remaining, seq) ==
  /\ position' = Moved(position, e, c.side, cumulative - c.cumulative)
  /\ IF remaining = 0
     THEN /\ contexts' = [ contexts EXCEPT ![e] = Without(@, o) ]
          /\ pendingQty' = [ pendingQty EXCEPT ![e] = Without(@, o) ]
     ELSE /\ contexts' = [ contexts EXCEPT ![e] = With(@, o,
                 [ c EXCEPT !.cumulative = cumulative, !.lastSeq = seq ]) ]
          /\ pendingQty' = [ pendingQty EXCEPT ![e] = With(@, o, remaining) ]

OnBrokerExecution(e, o, c, cumulative, remaining, seq, affordable) ==
  IF FillIsBookable(e, c, cumulative, seq, affordable)
  THEN /\ Book(e, o, c, cumulative, remaining, seq)
       /\ UNCHANGED riskVars
  ELSE /\ ReportApiError
       /\ contexts' = [ contexts EXCEPT ![e] = With(@, o, c) ]
       /\ UNCHANGED <<pendingQty, position>>

--------------------------------------------------------------------------------
(***************************************************************************)
(* drainOrderBus() and dispatchOrder() for one order: the store creates it *)
(* at sequence 1 and takes it to Submitted at 3, the adapter answers with  *)
(* an acknowledgement at 4 and a fill at 5.                                *)
(***************************************************************************)
FirstKeys(o) == { <<"execution", o>>, <<"risk", o>>, <<"submit", o>>, <<"ack", o>> }

At(seq) == [ ts |-> 0, seq |-> seq ]

Submitted(quantity) ==
  Stamped(Stamped(NewRecord(quantity, 0, 1), At(2), "RiskChecked"),
          At(3), "Submitted")

Acknowledged(quantity, accepted) ==
  AckRecord(Submitted(quantity), [ ts |-> 0, seq |-> 4, accepted |-> accepted ])

FillAt(seq, cumulative, remaining) ==
  [ ts |-> 0, seq |-> seq, cumulative |-> cumulative, remaining |-> remaining ]

\* Mutant: an order identity the store knows is created again.
IdentityIsNew_Never(o) == TRUE

IdentityIsNew(o) == o \notin DOMAIN records

\* The gateway does not know the identity as new: the engine drops its order.
RefuseIdentity ==
  UNCHANGED <<contexts, pendingQty, gatewayVars, riskVars, position>>

\* A negative acknowledgement: injected error or dropped submission.
Reject(e, o, side, quantity) ==
  /\ records' = With(records, o, Acknowledged(quantity, FALSE))
  /\ issuer' = With(issuer, o, <<e, side>>)
  /\ appliedKeys' = appliedKeys \cup FirstKeys(o)
  /\ ReportApiError
  /\ UNCHANGED <<contexts, pendingQty, atVenue, position>>

\* An acceptance and the fill of n units that follows it.
AcceptAndFill(e, o, side, quantity, n) ==
  LET c == [ side |-> side, quantity |-> quantity, cumulative |-> 0, lastSeq |-> 0 ]
  IN  /\ records' = With(records, o,
           FillRecord(Acknowledged(quantity, TRUE), FillAt(5, n, quantity - n)))
      /\ issuer' = With(issuer, o, <<e, side>>)
      /\ appliedKeys' = appliedKeys \cup FirstKeys(o) \cup { <<"fill", o>> }
      /\ atVenue' = IF n < quantity THEN atVenue \cup { o } ELSE atVenue
      /\ OnBrokerExecution(e, o, c, n, quantity - n, 5, TRUE)

\* What routing leaves of the engine's order, whichever way it went: execute()
\* returns true as soon as the order is handed to the bus.
Route(e, side, quantity) ==
  LET o == nextId[e]
  IN  /\ o \in OrderIds
      /\ connected
      /\ nextId' = [ nextId EXCEPT ![e] = @ + 1 ]
      /\ IF ~IdentityIsNew(o)
         THEN RefuseIdentity
         ELSE \/ Reject(e, o, side, quantity)
              \/ AcceptAndFill(e, o, side, quantity, quantity)
              \/ \E n \in 1 .. quantity - 1 :
                   AcceptAndFill(e, o, side, quantity, n)

--------------------------------------------------------------------------------
(***************************************************************************)
(* The operations of an engine.                                            *)
(***************************************************************************)
ExecuteBuy(e) ==
  /\ CanTrade
  /\ position[e] = 0
  /\ \E quantity \in Quantities : Route(e, "Buy", quantity)
  /\ UNCHANGED <<restVars, connected, localFills>>

ExecuteSell(e) ==
  /\ position[e] > 0
  /\ Route(e, "Sell", position[e])
  /\ UNCHANGED <<restVars, connected, localFills>>

HasRoom == Cardinality(triggers) + Cardinality(resting) < MaxResting

PlaceTrigger(e, kind) ==
  /\ HasRoom
  /\ triggers' = triggers \cup { <<e, kind>> }
  /\ UNCHANGED <<engineVars, gatewayVars, riskVars, resting, connected,
                 position, localFills>>

\* processTriggerOrders() for one trigger the quotes have reached; with no
\* position or no connection execute() returns false and nothing changes.
FireTrigger(e, kind) ==
  /\ <<e, kind>> \in triggers
  /\ position[e] > 0
  /\ Route(e, "Sell", position[e])
  /\ triggers' = triggers \ { <<e, kind>> }
  /\ UNCHANGED <<resting, connected, localFills>>

PlacePendingOrder(e, side) ==
  /\ HasRoom
  /\ resting' = resting \cup { <<e, side>> }
  /\ UNCHANGED <<engineVars, gatewayVars, riskVars, triggers, connected,
                 position, localFills>>

\* Mutant: a pending buy is filled whatever the RiskEngine says.
PendingBuyIsAdmitted_Ungated(e, gatesOpen) == gatesOpen /\ position[e] = 0

PendingBuyIsAdmitted(e, gatesOpen) == gatesOpen /\ CanTrade /\ position[e] = 0

\* processPendingOrders() for one order the candle has reached: it leaves the
\* queue in any case, and is filled in the portfolio, not at the gateway.
ProcessPendingBuy(e, quantity, gatesOpen) ==
  /\ <<e, "Buy">> \in resting
  /\ resting' = resting \ { <<e, "Buy">> }
  /\ IF PendingBuyIsAdmitted(e, gatesOpen)
     THEN /\ position' = [ position EXCEPT ![e] = quantity ]
          /\ localFills' = [ localFills EXCEPT ![e] = @ + quantity ]
     ELSE UNCHANGED <<position, localFills>>
  /\ UNCHANGED <<engineVars, gatewayVars, riskVars, triggers, connected>>

\* A position's proceeds are taken to be representable, so a sell always closes.
ProcessPendingSell(e) ==
  /\ <<e, "Sell">> \in resting
  /\ resting' = resting \ { <<e, "Sell">> }
  /\ position' = [ position EXCEPT ![e] = 0 ]
  /\ localFills' = [ localFills EXCEPT ![e] = @ - position[e] ]
  /\ UNCHANGED <<engineVars, gatewayVars, riskVars, triggers, connected>>

--------------------------------------------------------------------------------
(***************************************************************************)
(* The operations of the gateway.                                          *)
(***************************************************************************)
Connect ==
  /\ ~connected /\ connected' = TRUE
  /\ UNCHANGED <<engineVars, gatewayVars, restVars, riskVars, position, localFills>>

Disconnect ==
  /\ connected /\ connected' = FALSE
  /\ UNCHANGED <<engineVars, gatewayVars, restVars, riskVars, position, localFills>>

\* Whoever has a context for the order hears of its execution.
Listeners(o) == { e \in Engines : o \in DOMAIN contexts[e] }

(***************************************************************************)
(* simulateFillConfirmation(): n more units of the order are filled.  The  *)
(* adapter is not told.                                                    *)
(***************************************************************************)
ConfirmFill(o, n, affordable) ==
  LET r == records[o]
      e == [ key |-> <<"simulated", o, r.lastSeq + 1>>, ts |-> 0,
             seq |-> r.lastSeq + 1, cumulative |-> r.filled + n,
             remaining |-> r.requested - r.filled - n, conforms |-> TRUE ]
  IN  /\ FillResult(r, appliedKeys, e) = "Applied"
      /\ records' = [ records EXCEPT ![o] = FillRecord(r, e) ]
      /\ appliedKeys' = appliedKeys \cup { e.key }
      /\ IF Listeners(o) = {}
         THEN UNCHANGED <<contexts, pendingQty, position, riskVars>>
         ELSE \E g \in Listeners(o) :
                OnBrokerExecution(g, o, contexts[g][o], e.cumulative, e.remaining,
                                  e.seq, affordable)
      /\ UNCHANGED <<nextId, issuer, atVenue, restVars, connected, localFills>>

\* Mutant: the adapter always says that the order was filled before.
CancelDisposition_Filled(o) == "AlreadyFilled"

CancelDisposition(o) == IF o \in atVenue THEN "Accepted" ELSE "AlreadyFilled"

(***************************************************************************)
(* cancelOrder(): the store is asked, then the adapter, whose answer goes  *)
(* back to the store.  The engine is not told.                             *)
(***************************************************************************)
CancelOrder(o) ==
  LET r == records[o]
      ask == [ key |-> <<"cancel", o>>, ts |-> 0, seq |-> r.lastSeq + 1 ]
      asked == CancelRequestRecord(r, ask)
      answer == [ key |-> <<"canceled", o>>, ts |-> 0, seq |-> r.lastSeq + 2,
                  disposition |-> CancelDisposition(o) ]
  IN  /\ connected
      /\ CancelRequestResult(r, appliedKeys, ask) = "Applied"
      /\ atVenue' = atVenue \ { o }
      /\ IF CancelResultResult(asked, appliedKeys \cup { ask.key }, answer) = "Applied"
         THEN /\ records' = [ records EXCEPT ![o] = CancelResultRecord(asked, answer) ]
              /\ appliedKeys' = appliedKeys \cup { ask.key, answer.key }
         ELSE /\ records' = [ records EXCEPT ![o] = asked ]
              /\ appliedKeys' = appliedKeys \cup { ask.key }
      /\ UNCHANGED <<engineVars, issuer, restVars, riskVars, connected, position,
                     localFills>>

EngineStep(e) ==
  \/ ExecuteBuy(e)
  \/ ExecuteSell(e)
  \/ \E kind \in TriggerKinds : PlaceTrigger(e, kind) \/ FireTrigger(e, kind)
  \/ \E side \in Sides : PlacePendingOrder(e, side)
  \/ \E quantity \in Quantities, gatesOpen \in BOOLEAN :
       ProcessPendingBuy(e, quantity, gatesOpen)
  \/ ProcessPendingSell(e)

GatewayStep ==
  \/ Connect
  \/ Disconnect
  \/ \E o \in DOMAIN records :
       \/ \E n \in Quantities, affordable \in BOOLEAN : ConfirmFill(o, n, affordable)
       \/ CancelOrder(o)

RiskStep ==
  \/ \E halt \in BOOLEAN : SetHaltTrading(halt)
  \/ ClearHalt

Next == (\E e \in Engines : EngineStep(e)) \/ GatewayStep \/ RiskStep

Spec == Init /\ [][Next]_vars

--------------------------------------------------------------------------------
(***************************************************************************)
(* Properties.                                                             *)
(***************************************************************************)

\* Every variable has its type; no position is ever short.
TypeOK ==
  /\ nextId \in [Engines -> 1 .. MaxOrders + 1]
  /\ \A e \in Engines :
       /\ DOMAIN contexts[e] \subseteq OrderIds
       /\ \A o \in DOMAIN contexts[e] : contexts[e][o] \in Context
       /\ DOMAIN pendingQty[e] \subseteq DOMAIN contexts[e]
       /\ \A o \in DOMAIN pendingQty[e] : pendingQty[e][o] \in Nat \ {0}
  /\ DOMAIN records \subseteq OrderIds
  /\ \A o \in DOMAIN records : records[o].state \in LifecycleStates
  /\ issuer \in [DOMAIN records -> Engines \X Sides]
  /\ atVenue \subseteq DOMAIN records
  /\ position \in [Engines -> Nat] /\ localFills \in [Engines -> Int]
  /\ triggers \subseteq Engines \X TriggerKinds
  /\ resting \subseteq Engines \X Sides
  /\ errors \in 0 .. Threshold + 1
  /\ { connected, halted, tripped } \subseteq BOOLEAN

Live(o) == records[o].state \in { "Submitted", "Accepted", "PartiallyFilled" }

(***************************************************************************)
(* Every order that can still be filled is known to all who must act on    *)
(* the fill: the adapter can cancel it, and the engine that issued it, and *)
(* no other, keeps its context, with the remainder the store has unless a  *)
(* fill was refused in between.                                            *)
(***************************************************************************)
LiveOrderIsTracked ==
  \A o \in DOMAIN records :
    Live(o) =>
      LET e == issuer[o][1]
      IN  /\ o \in atVenue
          /\ Listeners(o) = { e }
          /\ contexts[e][o].side = issuer[o][2]
          /\ contexts[e][o].quantity = records[o].requested
          /\ \/ contexts[e][o].cumulative < records[o].filled
             \/ pendingQty[e][o] = records[o].remaining

(***************************************************************************)
(* The adapter answers before its caller returns, and so that the store    *)
(* can act on it: at rest no order waits for an acknowledgement or for the *)
(* result of a cancel, and none is unknown.                                *)
(***************************************************************************)
NoOrderIsLeftWaiting ==
  \A o \in DOMAIN records :
    records[o].state \in { "PartiallyFilled" } \cup TerminalStates

(***************************************************************************)
(* An engine that issues an order never disturbs one that exists: the      *)
(* counters of two engines run over the same identities, and an identity   *)
(* that is taken costs the later engine its order and nothing else.        *)
(***************************************************************************)
IssuingDisturbsNoOrder ==
  nextId' # nextId =>
    /\ \A o \in DOMAIN records : records'[o] = records[o]
    /\ \A e \in Engines : \A o \in DOMAIN contexts[e] :
         o \in DOMAIN contexts'[e] /\ contexts'[e][o] = contexts[e][o]

IdentitiesDoNotMix == [][IssuingDisturbsNoOrder]_vars

(***************************************************************************)
(* While trading is halted no position grows except by the fill of a buy   *)
(* that was at the venue before, through no path: signal, trigger, pending *)
(* order or a late answer.                                                 *)
(***************************************************************************)
GrowsByOldOrders ==
  \A e \in Engines :
    halted /\ position'[e] > position[e] =>
      \E o \in DOMAIN records :
        /\ issuer[o] = <<e, "Buy">> /\ Live(o)
        /\ records'[o].filled > records[o].filled

HaltAdmitsNoExposure == [][GrowsByOldOrders]_vars

(***************************************************************************)
(* A protective trigger leaves its manager only with an exit that reduces  *)
(* the position (the comment of TriggerOrderManager::evaluate).            *)
(***************************************************************************)
RemovedWithItsExit ==
  \A t \in triggers \ triggers' : position'[t[1]] < position[t[1]]

TriggerSurvivesRefusal == [][RemovedWithItsExit]_vars

(***************************************************************************)
(* A halt the error rate has caused lasts until clearHalt() (the comment   *)
(* of RiskEngine::reportApiError).                                         *)
(***************************************************************************)
ErrorHaltLasts == tripped => halted
================================================================================
