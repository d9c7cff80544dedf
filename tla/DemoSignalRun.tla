----------------------------- MODULE DemoSignalRun -----------------------------
(***************************************************************************)
(* The demo runtime up to the order: from the start of the cTrader session *)
(* to the candle whose signal is commissioned.  Two threads share the      *)
(* market state under a lock: the main thread waits for completed candles, *)
(* advances the strategies on them and asks for the evidence an order       *)
(* needs; the session's I/O thread handles the spot events, answers these  *)
(* requests and replaces a lost connection.  What follows the hand-over to *)
(* the controller is module DemoCommissioning.                             *)
(*                                                                         *)
(* A bar is its minute and its revision.  A quote is the time its source   *)
(* gives it and, for the properties only, whether it came by the current   *)
(* connection; of the prices only "the ask is not above the bid" is kept.  *)
(* Connection generations are only compared with the current one: one is   *)
(* current or past, and need not be counted.  A spot event has one live    *)
(* bar at most.  The main thread waits for the result of its request and   *)
(* reads nothing else when it goes on with it: both are one step.          *)
(***************************************************************************)
EXTENDS Naturals, Sequences

CONSTANTS
  TicksPerMinute,    \* how finely time is told
  MaxClock,          \* bound: the last tick of a run
  MaxRevision,       \* bound: revisions of a bar after its first
  MaxEvidenceAge,    \* maximumBboAgeNs, in ticks
  CompletedCapacity, \* m_completedCapacity
  ReconnectAttempts  \* DEMO_RECONNECT_ATTEMPTS

ASSUME SignalAssumption ==
  /\ TicksPerMinute \in Nat \ {0} /\ MaxClock \in Nat \ {0}
  /\ CompletedCapacity \in Nat \ {0} /\ ReconnectAttempts \in Nat \ {0}
  /\ MaxRevision \in Nat /\ MaxEvidenceAge \in Nat

VARIABLES
  clock,       \* the time, for everybody
  venueBars,   \* the venue's: how often each minute's bar was revised after
               \* it was first received
  transport,   \* the connection: "down", "up" or "subscribed"
  market,      \* m_marketState
  io,          \* what the I/O thread does
  recovery,    \* recoverTransport(): attempts that failed, and what for
  rebuilt,     \* the risk context is built a second time
  reconciliation,  \* the reconciliation the risk context is built from
  command,     \* the RiskContext command: "none", "queued" or "running"
  main,        \* where runCTraderDemoRuntime() is
  history,     \* the minute before which the historical bars end
  advanced,    \* history: the live candles the strategies have seen
  decidedOn    \* history: the context that armed or that is commissioned

marketVars == <<clock, venueBars>>
ioVars == <<transport, market, io, recovery, rebuilt, reconciliation, command>>
runVars == <<main, advanced, decidedOn>>
signalVars == <<marketVars, ioVars, runVars, history>>

NoSide == [ at |-> 0, from |-> "none" ]
NoBar == [ minute |-> 0, revision |-> MaxRevision + 1 ]
NotReconciled == NoSide
NoRecovery == [ failed |-> 0, for |-> "receive" ]
NoContext == [ complete |-> FALSE ]
EmptyMarket ==
  [ bid |-> NoSide, ask |-> NoSide, crossed |-> FALSE, bar |-> NoBar,
    completed |-> <<>> ]

Minute(time) == time \div TicksPerMinute
Minutes == 0 .. Minute(MaxClock)

Over == main \in { "commissioned", "stopped" }
Connected == io \notin { "history", "subscribe", "ended" }    \* m_connected

SignalInit ==
  /\ clock = 1 /\ venueBars = [ m \in Minutes |-> 0 ]
  /\ transport = "up"
  /\ market = EmptyMarket /\ io = "history"
  /\ recovery = NoRecovery /\ rebuilt = FALSE
  /\ reconciliation = NotReconciled /\ command = "none"
  /\ main = "starting" /\ advanced = <<>> /\ decidedOn = NoContext /\ history = 0

--------------------------------------------------------------------------------
(***************************************************************************)
(* The market and the network (external).                                  *)
(***************************************************************************)

Tick ==
  /\ clock < MaxClock /\ clock' = clock + 1
  /\ UNCHANGED <<venueBars, ioVars, runVars, history>>

Revised == [ venueBars EXCEPT ![Minute(clock)] = @ + 1 ]

Receives ==
  /\ transport = "subscribed"
  /\ io \in { "idle", "reconcile", "margin", "confirm" }

\* The bar of this minute, received once, changes while nobody is told.
TradeUnseen ==
  /\ ~Receives
  /\ market.bar # NoBar /\ market.bar.minute = Minute(clock)
  /\ venueBars[Minute(clock)] < MaxRevision /\ venueBars' = Revised
  /\ UNCHANGED <<clock, ioVars, runVars, history>>

\* Closed by the other side, or the account or the client is disconnected;
\* a loss in a recovery is a step of it that fails.
LoseTransport ==
  /\ io \in { "idle", "reconcile", "margin" } /\ transport # "down"
  /\ transport' = "down"
  /\ UNCHANGED <<marketVars, market, io, recovery, rebuilt, reconciliation, command,
                 runVars, history>>

--------------------------------------------------------------------------------
(***************************************************************************)
(* CTraderDemoMarketState.                                                 *)
(***************************************************************************)

Dated(stamp) == [ at |-> stamp, from |-> "current" ]

Missing(quote) == quote.from = "none"

\* The quotes of an update are stored first: a side without time has none.
StoreQuotes(state, update) ==
  LET bid == IF update.bid THEN Dated(update.at) ELSE state.bid
      ask == IF update.ask THEN Dated(update.at) ELSE state.ask
  IN  [ state EXCEPT !.bid = bid, !.ask = ask,
                     !.crossed = ~Missing(bid) /\ ~Missing(ask)
                                 /\ IF update.bid \/ update.ask
                                    THEN update.crosses ELSE @ ]

\* A bar of a later minute completes the one before it.
NextBar(state, bar) ==
  [ state EXCEPT !.completed = Append(@, state.bar), !.bar = bar ]

Applied(state) == [ result |-> "applied", market |-> state ]
Refused(state) == [ result |-> "refused", market |-> state ]

ApplyBar(state, bar) ==
  IF bar = NoBar THEN Applied(state)
  ELSE IF state.bar = NoBar \/ state.bar.minute = bar.minute
  THEN Applied([ state EXCEPT !.bar = bar ])
  ELSE IF /\ bar.minute > state.bar.minute
          /\ Len(state.completed) < CompletedCapacity
  THEN Applied(NextBar(state, bar))
  ELSE Refused(state)

\* apply(): a pair of quotes that crosses refuses the update, its bar with it.
Apply(update) ==
  LET state == StoreQuotes(market, update)
  IN  IF state.crossed
      THEN Refused(state)
      ELSE ApplyBar(state, update.bar)

\* Mutant: a pair is as recent as its newer side.
Bbo_OfNewerSide ==
  IF market.crossed \/ market.bid.at = 0 \/ market.ask.at = 0 THEN 0
  ELSE IF market.bid.at > market.ask.at THEN market.bid.at ELSE market.ask.at

\* bbo(): as old as the older of its sides, and 0 when there is none.
Bbo ==
  LET older == IF market.bid.at < market.ask.at THEN market.bid.at
                                                ELSE market.ask.at
  IN  IF market.crossed THEN 0 ELSE older

\* Mutant: the bar in progress survives the connection that was to finish it.
ResetLiveGeneration_KeepsBar == [ EmptyMarket EXCEPT !.bar = market.bar ]

\* resetLiveGeneration()
ResetLiveGeneration == EmptyMarket

--------------------------------------------------------------------------------
(***************************************************************************)
(* The I/O thread: its results, and how it goes on after them.             *)
(***************************************************************************)

\* gateway.disconnect() of the main thread: the I/O thread is joined, the
\* provider's state is cleared.
DisconnectGateway ==
  /\ io' = "ended" /\ transport' = "down" /\ market' = EmptyMarket
  /\ recovery' = NoRecovery /\ rebuilt' = FALSE /\ reconciliation' = NotReconciled
  /\ command' = "none"

Stop == DisconnectGateway /\ main' = "stopped" /\ UNCHANGED <<advanced, decidedOn>>

\* A command that fails has no context for the main thread, which then stops.
CommandFails == Stop

\* The I/O thread ends; what it has received stays until the program stops.
EndSession(received) ==
  IF command # "none" THEN CommandFails
  ELSE /\ io' = "ended" /\ transport' = "down" /\ market' = received
       /\ recovery' = NoRecovery /\ UNCHANGED <<rebuilt, reconciliation, command, runVars>>

\* After the last attempt of recoverTransport() the receiving loop ends, and
\* a command fails.
NextAttempt(received) ==
  IF recovery.failed + 1 < ReconnectAttempts
  THEN /\ io' = "reconnect" /\ recovery' = [ recovery EXCEPT !.failed = @ + 1 ]
       /\ market' = received
       /\ UNCHANGED <<transport, rebuilt, reconciliation, command, runVars>>
  ELSE IF recovery.for = "receive" THEN EndSession(received) ELSE CommandFails

StartRecovery(for) ==
  /\ io' = "reconnect" /\ recovery' = [ failed |-> 0, for |-> for ]
  /\ UNCHANGED <<transport, market, reconciliation, command, runVars>>

\* handleIncoming() says no: the receiving loop ends, a request fails.
EventRefused(received) ==
  CASE io = "idle" -> EndSession(received)
    [] io = "confirm" -> NextAttempt(received)
    [] OTHER -> CommandFails

\* The venue's bar as it is, or revised; the first one received is revision 0.
SentBars ==
  { bar \in [ minute : { Minute(clock) }, revision : 0 .. MaxRevision ] :
      bar.revision - venueBars[bar.minute] \in
        IF market.bar.minute = bar.minute THEN { 0, 1 } ELSE { 0 } }

\* One or both sides, with a time or without, a bar, or all of it.  A side has
\* the time it is sent: times before are those of a side that stays while the
\* other comes anew, and a time ahead of the clock is refused like none.
SpotUpdates ==
  { u \in [ bid : BOOLEAN, ask : BOOLEAN, at : { 0, clock }, crosses : BOOLEAN,
            bar : { NoBar } \union SentBars ] :
      /\ u.bid \/ u.ask \/ u.bar # NoBar
      /\ u.bar # NoBar => u.bid = u.ask
      /\ ~(u.bid \/ u.ask) => u.at = 0 /\ ~u.crosses }

HandleSpot ==
  /\ Receives
  /\ \E update \in SpotUpdates :
       LET applied == Apply(update)
       IN  /\ venueBars' = IF update.bar = NoBar THEN venueBars
                           ELSE [ venueBars EXCEPT ![Minute(clock)] =
                                                      update.bar.revision ]
           /\ IF applied.result = "applied"
              THEN /\ market' = applied.market
                   /\ UNCHANGED <<transport, io, recovery, rebuilt, reconciliation,
                                  command, runVars>>
              ELSE EventRefused(applied.market)
  /\ UNCHANGED <<clock, history>>

\* loadHistory(): the bars before this minute; subscribe(), then m_connected.
LoadHistory ==
  /\ io = "history"
  /\ history' = Minute(clock) /\ io' = "subscribe"
  /\ UNCHANGED <<marketVars, transport, market, recovery, rebuilt, reconciliation,
                 command, runVars>>

Subscribe ==
  /\ io = "subscribe" /\ transport' = "subscribed" /\ io' = "idle"
  /\ UNCHANGED <<marketVars, market, recovery, rebuilt, reconciliation, command,
                 runVars, history>>

StartupFails ==
  /\ io \in { "history", "subscribe" } /\ EndSession(market)
  /\ UNCHANGED <<marketVars, history>>

\* What validArmingEvidence() and evaluateOrder() ask of the context's times
\* and generations.
IsCurrent(context) ==
  /\ context.reconciled.from = "current"
  /\ context.evaluatedAt - context.reconciled.at <= MaxEvidenceAge
  /\ context.bboAt > 0 /\ context.evaluatedAt - context.bboAt <= MaxEvidenceAge

\* The loop takes a command before it receives.
TakeCommand ==
  /\ io = "idle" /\ command = "queued" /\ command' = "running"
  /\ io' = "reconcile" /\ rebuilt' = FALSE
  /\ UNCHANGED <<transport, market, recovery, reconciliation, runVars>>

\* queryReconciliation()
Reconciled ==
  /\ io = "reconcile" /\ transport # "down"
  /\ reconciliation' = Dated(clock)
  /\ io' = "margin"
  /\ UNCHANGED <<transport, market, recovery, rebuilt, command, runVars>>

\* The expected margin is there: buildRiskContext() with the quotes of now.
RiskContext ==
  [ complete |-> TRUE, reconciled |-> reconciliation, bboAt |-> Bbo,
    evaluatedAt |-> clock, bid |-> market.bid, ask |-> market.ask ]

\* The run is armed, and goes on observing.
Arm ==
  /\ main = "arming" /\ io = "margin" /\ transport # "down"
  /\ IsCurrent(RiskContext)
  /\ main' = "observing" /\ decidedOn' = RiskContext
  /\ command' = "none" /\ io' = "idle"
  /\ reconciliation' = NotReconciled /\ rebuilt' = FALSE
  /\ UNCHANGED <<transport, market, recovery, advanced>>

\* The exact order is evaluated with the context of its own request; after
\* the controller has done with it the program disconnects.
Commission ==
  /\ main = "deciding" /\ io = "margin" /\ transport # "down"
  /\ IsCurrent(RiskContext)
  /\ main' = "commissioned" /\ decidedOn' = RiskContext
  /\ DisconnectGateway /\ UNCHANGED advanced

\* The venue refuses or does not answer, or the context is not accepted.
QueryFails == io \in { "reconcile", "margin" } /\ CommandFails

\* A query finds the connection lost: one recovery, then all is asked again.
QueryFindsLoss ==
  /\ io \in { "reconcile", "margin" } /\ transport = "down"
  /\ IF rebuilt THEN CommandFails ELSE StartRecovery("command") /\ rebuilt' = TRUE

LoopFindsLoss ==
  /\ io = "idle" /\ transport = "down" /\ command # "queued"
  /\ StartRecovery("receive") /\ UNCHANGED rebuilt

\* What came by a connection that is no more.
Past(dated) == IF dated.from = "none" THEN dated ELSE [ dated EXCEPT !.from = "past" ]

\* reconnectDemo() begins a generation and connects; the application is
\* authenticated, the account is the one of before.
Reconnect ==
  /\ io = "reconnect" /\ transport' = "up" /\ io' = "reload"
  /\ market' = [ market EXCEPT !.bid = Past(@), !.ask = Past(@) ]
  /\ reconciliation' = Past(reconciliation)
  /\ UNCHANGED <<recovery, rebuilt, command, runVars>>

\* Trader, currency and instrument; only then is the market state emptied.
Reload ==
  /\ io = "reload" /\ market' = ResetLiveGeneration /\ io' = "resubscribe"
  /\ UNCHANGED <<transport, recovery, rebuilt, reconciliation, command, runVars>>

Resubscribe ==
  /\ io = "resubscribe" /\ transport' = "subscribed" /\ io' = "confirm"
  /\ UNCHANGED <<market, recovery, rebuilt, reconciliation, command, runVars>>

\* A reconciliation ends the recovery; a command is then answered anew.
Confirm ==
  /\ io = "confirm"
  /\ io' = IF recovery.for = "receive" THEN "idle" ELSE "reconcile"
  /\ recovery' = NoRecovery
  /\ UNCHANGED <<transport, market, rebuilt, reconciliation, command, runVars>>

RecoveryStepFails ==
  /\ io \in { "reconnect", "reload", "resubscribe", "confirm" }
  /\ NextAttempt(market)

Answering ==
  TakeCommand \/ Reconciled \/ Arm \/ Commission \/ QueryFails \/ QueryFindsLoss

Recovering ==
  LoopFindsLoss \/ Reconnect \/ Reload \/ Resubscribe
  \/ Confirm \/ RecoveryStepFails

--------------------------------------------------------------------------------
(***************************************************************************)
(* runCTraderDemoRuntime(), but for what it does with a context.           *)
(***************************************************************************)

\* The gateway is connected when the session has started, and the historical
\* bars are advanced on.
StartRun ==
  /\ main = "starting" /\ Connected /\ main' = "first"
  /\ UNCHANGED <<ioVars, advanced, decidedOn>>

\* waitForCandle(): also what is left when the session has ended.
TakeCompleted ==
  /\ market.completed # <<>>
  /\ advanced' = Append(advanced, Head(market.completed))

TakenFromQueue == market' = [ market EXCEPT !.completed = Tail(@) ]

\* riskContext() queues a command, if there is a session to answer it.
RequestContext(state) ==
  /\ TakeCompleted /\ UNCHANGED decidedOn
  /\ IF Connected
     THEN /\ main' = state /\ command' = "queued" /\ TakenFromQueue
          /\ UNCHANGED <<transport, io, recovery, rebuilt, reconciliation>>
     ELSE main' = "stopped" /\ DisconnectGateway

\* The first live candle arms; it decides nothing.
AdvanceFirst == main = "first" /\ RequestContext("arming")

\* The decision of a candle: nothing, or a signal that needs a context.
ObserveNothing ==
  /\ main = "observing" /\ TakeCompleted /\ TakenFromQueue
  /\ UNCHANGED <<transport, io, recovery, rebuilt, reconciliation, command, main,
                 decidedOn>>

ObserveSignal == main = "observing" /\ RequestContext("deciding")

\* No session, no candle or no context in time, or the deadline for a signal.
StopRun ==
  /\ \/ main = "starting" /\ io = "ended"
     \/ main = "first" /\ market.completed = <<>>
     \/ main \in { "arming", "observing", "deciding" }
  /\ Stop

MainThread == StartRun \/ AdvanceFirst \/ ObserveNothing \/ ObserveSignal \/ StopRun

SignalNext ==
  /\ ~Over
  /\ \/ Tick \/ TradeUnseen \/ LoseTransport
     \/ LoadHistory \/ Subscribe \/ StartupFails \/ HandleSpot
     \/ (Answering \/ Recovering \/ MainThread) /\ UNCHANGED <<marketVars, history>>

SignalSpec == SignalInit /\ [][SignalNext]_signalVars

--------------------------------------------------------------------------------

DatedSources == [ at : 0 .. MaxClock, from : { "none", "current", "past" } ]
Bars == [ minute : Minutes, revision : 0 .. MaxRevision ]

\* Types of the runtime's variables.
SignalTypeOK ==
  /\ clock \in 1 .. MaxClock /\ venueBars \in [ Minutes -> 0 .. MaxRevision ]
  /\ transport \in { "down", "up", "subscribed" }
  /\ { market.bid, market.ask } \subseteq DatedSources /\ market.crossed \in BOOLEAN
  /\ market.bar \in Bars \union { NoBar } /\ market.completed \in Seq(Bars)
  /\ io \in { "history", "subscribe", "idle", "reconcile", "margin", "reconnect",
              "reload", "resubscribe", "confirm", "ended" }
  /\ recovery \in [ failed : 0 .. ReconnectAttempts - 1,
                    for : { "receive", "command" } ]
  /\ rebuilt \in BOOLEAN /\ reconciliation \in DatedSources
  /\ command \in { "none", "queued", "running" }
  /\ decidedOn.complete \in BOOLEAN
  /\ main \in { "starting", "first", "arming", "observing", "deciding",
                "commissioned", "stopped" }
  /\ history \in Minutes /\ advanced \in Seq(Bars)

\* The strategies are advanced on every minute's bar at most once and in
\* order, after the historical bars, and only on its last revision, whatever
\* was revised while the connection was down: waitForCompletedCandle() and
\* resetLiveGeneration().
CandlesAreFinal ==
  \A i \in 1 .. Len(advanced) :
    /\ advanced[i].minute >= history /\ advanced[i].minute < Minute(clock)
    /\ advanced[i].revision = venueBars[advanced[i].minute]
    /\ \A j \in 1 .. i - 1 : advanced[j].minute < advanced[i].minute

\* RISK_POLICY.md:165-168: what arms the run and what an order is decided on
\* comes from one connection: both sides of the quote and the reconciliation,
\* and each side is recent when it is evaluated.
EvidenceIsOfOneConnection ==
  decidedOn # NoContext =>
    LET sources == { decidedOn.bid, decidedOn.ask, decidedOn.reconciled }
    IN  \A s \in sources :
          /\ s.from = "current" /\ s.at > 0
          /\ decidedOn.evaluatedAt - s.at <= MaxEvidenceAge
================================================================================
