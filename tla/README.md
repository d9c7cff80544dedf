# TLA+ models of the Mynyra trading engine

This directory holds TLA+ models of the engine under `src/engine`, the TLC
configurations that check them on small instances, and TLAPS proofs of what
matters most for every instance. Paths below are relative to `src/engine/src`
unless they start with `src/`.

    tlc -workers 2 -config OrderLifecycle.cfg MCOrderLifecycle.tla
    tlc -workers 2 -config Commissioning_partial.cfg DemoCommissioning.tla
    tlc -workers 2 -config Programs.cfg MCPrograms.tla
    tlapm OrderLifecycle_proofs.tla
    tlapm DemoCommissioning_proofs.tla

`PROJECT.json` lists the components, the runs, the source lines every definition
translates, the theorems, the hazards of the code and, for each property, a
plausible bug of the code that breaks it (the definitions commented *Mutant*).

## 1. Inventory

The engine trades one instrument. A *demo* process opens and closes one position
of minimum volume at a cTrader demo account to prove that the order path works
(commissioning); the other modes replay or simulate. Only these parts decide what
happens to orders and money:

| part | state | operations | hard because |
|---|---|---|---|
| `OrderLifecycleStore` | lifecycle record per order, applied event keys | create, mark*, acknowledge, fill, cancel, cancel result, reconcile | events come late, twice, reordered, with or without sequence numbers |
| `BrokerGateway` | the store, adapter health, last snapshot | dispatch, cancel, reconcile, adapter callbacks | callbacks come while a dispatch is in progress |
| `ExecutionEngine` | order contexts, pending quantities, order bus, pool | executeIntent, broker callbacks, queue and drain of the bus | partial failures; bus full; verdicts that are stale when used |
| `MynyraDemoCommissioningController` | tracked orders with evidence, proof so far | commission, two callbacks | two threads; every wait may end without an answer |
| `BrokerPortfolioMirror` | positions, applied keys, snapshot version | register, fill, reconcile | fills and snapshots race |
| `CTraderSession` (`providers/ctrader/CTraderProviderAdapterDemo.mm`) | command queue, order identities, position maps, connection | submit, reconcile, order events, recovery | one I/O thread, promises with deadlines, reconnection inside a command |
| `RiskEngine` | halts, error and latency windows, limits | evaluateOrder, canTrade, reports, restore | one breaker may clear what another has set |
| `PortfolioManager`, `StateSerializer`, `EventLoop`, `main` | cash, positions, checkpoint | open, add, close, pending orders, save, load | crash between two steps, partial restore |
| `LiveDataAdapter`, `AsyncNetworkClient`, `LockFreeRingBuffer` | queues, reconnect worker | push, drain, disconnect, reconnect | lock-free queue, thread hand-over |
| `L2OrderBook`, `TriggerOrderManager` | price window, slot table | apply, recentre; place, evaluate, release | limits, reuse of slots |
| `CTraderDemoMarketState`, `CTraderFrameDecoder` | candle and quotes of a generation; byte buffer | apply, reset; append, next | reset between generations; partial frames |
| `CTraderOAuthCorrelation`, gate 6 and 7 | one authorization; staged proofs | arm, consume, expire, cancel; accept, confirm, finish | answer races expiry; lists that change between two connections |
| `OfflineReplay`, `mynyra_offline_replay_main` | one replay, its evidence directory | check, replay, write, rename, sync | a signal, the clock, a failing sink or write, a crash at any step |
| strategies, metrics, client, server | signals, reports, pages | – | sequential, or arithmetic only |

How they interact: `commission()` calls `ExecutionEngine::executeIntent()`, which
asks the risk engine, normalises, and calls `BrokerGateway::dispatchOrder()`; that
creates the lifecycle record and calls the adapter's `submit()`, which enqueues a
command and blocks on a promise. The session's I/O thread executes commands, reads
the socket and calls back into gateway, execution engine and controller, in this
order and on its own thread. A reconciliation goes the same way and returns a
snapshot through a promise. The PAPER, BACKTEST and LIVE modes of `main` feed the
same engines from CSV streams through `EventLoop`; a LIVE run also takes ticks from
`LiveDataAdapter`, which gets them from the event loop thread of `AsyncNetworkClient`.
Gates 6 and 7 and the offline replay are programs of their own.

What makes each part correct:

- *store*: quantities are conserved, terminal orders stay so, duplicates and late events
  change nothing they should not;
- *commissioning, session, mirror*: at most one entry and its closes, success only when
  flat, books never ahead of the venue, every run ends;
- *engines, gateway, risk, portfolio*: every order that can still fill is known to its
  issuer, positions are what the fills add up to, a halt admits no exposure;
- *checkpoint*: no candle is traded twice and none is lost over a crash;
- *feed, web socket, ring*: no node and no message is lost, doubled or mixed up, an outage
  ends and halts trading;
- *order book*: the quote is one that is there;
- *gates*: a code is used once, only the approved account is touched, the proof is true;
- *offline replay*: evidence is whole or absent, success is deserved;
- *market state, decoder, demo runtime*: strategies see each candle once and finished, an
  order is decided on evidence of one connection, frames are what was sent.

## 2. Modules

| module | models | built from |
|---|---|---|
| `LifecycleRecord` | the pure part of the store: which result an operation returns, which record it leaves | – |
| `OrderLifecycle` | the store as a component, with unconstrained callers | `LifecycleRecord` |
| `MCOrderLifecycle` | two orders of two units, key symmetry | `OrderLifecycle` |
| `OrderLifecycle_proofs` | theorems about the store | `OrderLifecycle`, TLAPS |
| `OneShotCommissioning` | abstract: what a run promises about the account | – |
| `OneShotCommissioning_proofs` | theorems about the promise | `OneShotCommissioning`, TLAPS |
| `DemoVenue` | the venue and the connection (external) | – |
| `DemoBooks` | what gateway, execution engine, controller and mirror believe, and the two order callbacks that change it | `DemoVenue`, `LifecycleRecord` |
| `CTraderSession` | the I/O thread: queue, promises, events, queries, recovery | `DemoBooks` |
| `DemoCommissioning` | `commission()` on its own thread, composed with all of the above; implements `OneShotCommissioning` | `CTraderSession` |
| `DemoCommissioning_proofs` | theorems about the run: it implements the promise, its snapshots are true, its books stay behind the venue | `DemoCommissioning`, TLAPS |
| `ExecutionPipeline` | PAPER mode: one engine per symbol at one gateway with the deterministic adapter, portfolio quantities, triggers, pending orders, halts | `LifecycleRecord` |
| `MCExecutionPipeline` | engine symmetry and the property that sums over orders | `ExecutionPipeline` |
| `ExecutionPipeline_proofs` | theorems about the pipeline | `MCExecutionPipeline`, TLAPS |
| `ResumableBacktest` | a BACKTEST run of `main` with checkpoints: `EventLoop`, `StateSerializer`, death and `--resume` | – |
| `LiveFeed` | LIVE and harness feed: `LiveDataAdapter` over `AsyncNetworkClient`, three threads | – |
| `WebSocketClient` | one connection after another of `AsyncNetworkClient`, frames to messages | – |
| `BoundedFifo` | abstract: a bounded queue; a call queues a value or is refused, takes one or misses, in one step | – |
| `RingBuffer` | `LockFreeRingBuffer`, access by access; implements `BoundedFifo` | `BoundedFifo` |
| `OrderBook` | `L2OrderBook`: levels, moving window, cached best levels | – |
| `GateAuthorization` | how a gate gets a token: correlation guard, listener, browser tabs, token store | – |
| `DemoAccountGate` | gate 6: two account lists with a human answer in between | – |
| `QuoteGate` | gate 7: six requests and one quote | – |
| `OfflineReplay` | one launch of `mynyra_offline_replay` after the other | – |
| `DemoSignalRun` | the demo runtime from its start to the order: market state, the session's reads and recovery, risk context, main thread | – |
| `FrameDecoder` | `CTraderFrameDecoder` below the TLS stream | – |
| `MCPrograms` | the programs above that share no state and `OneShotCommissioning`, one at a time, with their bounds | all of them |
| `Persistence_proofs` | theorems about the two programs whose files outlive them | `ResumableBacktest`, `OfflineReplay`, TLAPS |
| `MarketData_proofs` | theorems about the path of market data | `RingBuffer`, `OrderBook`, `LiveFeed`, `WebSocketClient`, `FrameDecoder`, `DemoSignalRun`, TLAPS |
| `Gates_proofs` | theorems about the gates | `GateAuthorization`, `DemoAccountGate`, `QuoteGate`, TLAPS |
| `Programs_proofs` | the types of all those programs, each alone and all together | `MCPrograms`, the proof modules of its programs, TLAPS |

### The order lifecycle

`records` and `appliedKeys` are `m_records` and `m_appliedEventKeys`. Each
operation of the store is an action; a call the store refuses changes nothing, so
it is a stutter. The callers are left free: any key, time stamp (0 = none),
sequence number (0 = none), verdict and quantity may be passed in any order. Three
things the code does and a reader may not expect are in the model as they are: the
keys are shared by all orders; an event is older by its sequence number only when
both sides have one, and by its time stamp otherwise; and an event without a
sequence number resets the record's to 0, so that an old sequence number passes
afterwards. `requestCancel` and `applyCancelResult` call an older event an invalid
transition, the other operations an invalid event; both leave the store alone.

### The commissioning run

The state is that of three actors. The *venue* has an order per leg and the
connection. The *session* has its command queue, the promise somebody waits for,
the place of its I/O thread (`loop`, `read`, `query`, `recover`, `down`) and its
order and position maps. The *controller* has its place in `commission()`. In
between are the books: lifecycle records (operators of `LifecycleRecord`, so the
store's logic is used and not repeated), the execution engine's contexts and
pending quantities, the controller's evidence, the mirror.

An action is what one thread does between two points where the other can be seen:
the dispatch up to `submit()` (`DispatchCreates`), the enqueue, the promise or its
timeout, `markUnknown` (under the gateway's lock), the erasure of the context
(under the engine's), the judgement in `dispatch()`, the wait, and what
`commission()` does with a snapshot. One callback is one action: gateway, engine
and controller take it one after the other on the I/O thread, and the controller's
own reads come after its wait.

What the environment may do, in full: accept, reject, fill in parts or completely,
drop the rest of an order; answer a request or never; drop the connection at any
time (`MaxDrops` times), losing what is under way, and losing an order it has not
touched or not; let a reconnection fail; let a reply overtake an event
(`EventsMayLag`); send a quote the session refuses. Every deadline may pass.

Assumed of it, because the code relies on it or because it bounds the model:

- A reconcile reply lists every order the venue holds. An order on a connection that
  drops is taken at once or never; it does not turn up later.
- A pending close has no client order id, since `ProtoOAClosePositionReq` carries none:
  a snapshot with one is incomplete. Fills name a position; acceptances and
  rejections carry the request's correlation.
- The account is empty at the start and its position carries the run's label.
- Snapshot versions and generations grow strictly, so the mirror's staleness check
  never refuses. Time stamps of fills do not go backwards.
- Cancel and expiry events change nothing (`handleExecutionEvent` returns early).

Abstracted: the risk verdict and normalisation are a free choice
(`DispatchRefused`); a failing event sink is a choice in `Conclude`; the trader
request is part of the reconcile request; authentication, account selection,
instrument and subscription are part of `Reconnect` or `ReconnectFails`; the
provider sequence starts at 5 instead of 1000; marking the partial close unknown
and reconciling it is one step (both are calls of the controller; by then the close
is no longer at the venue); the queue's capacity of 64 is never reached, since at
most one command is awaited and few are abandoned. The runtime disconnects after the
outcome, so nothing moves afterwards. `commission()` is called once
(`m_entryAttempted`). A crash of the process is not recovered (decision 0006).

A promise is given up after two minutes. The run loop looks for a command four times
a second, so this happens only while the I/O thread is in a query or a recovery
(`CommandTimesOut`); the command stays in the queue and is executed later.

### The execution pipeline

In PAPER mode the adapter calls back before `submit()` and `cancel()` return and one
thread runs every engine, so a public operation with all its callbacks is one action:
`ExecuteBuy` is `execute(BUY)` with `queueOrderEvent`, `drainOrderBus`,
`dispatchOrder`, the acknowledgement and the fill. The variables are the members they
name: `contexts` is `m_gatewayOrderContexts`, `pendingQty` is `m_pendingBrokerQty`,
`atVenue` is the adapter's `m_pendingOrders`, `resting` the portfolio's. `issuer`,
`localFills` and `tripped` are history. The records are those of `LifecycleRecord`, so
acknowledgements, fills and cancels go through the store's own checks.

Two things a reader may not expect are as in the code: every engine counts its order
identities from 1, at a gateway they share, so two engines use the same identities
and the second order is refused (`RefuseIdentity`) while `execute()` still returns
true; and a pending order leaves its queue when the candle reaches it, whether or not
it is then filled, in the portfolio and not at the gateway (`ExecutionEngine.cpp:908`, `localFills`),
although the comment at `ExecutionEngine.hpp:53` says that a bound engine's orders route only through
the gateway. `main` wires engines, gateway, portfolio and risk engine like this
and fires pending orders per candle; triggers, late fills (`simulateFillConfirmation`)
and cancels are operations of the same objects that only tests and the burn-in
benchmark call today.

Left out: prices, cash and fees (a free choice where they decide), the drawdown, VaR
and latency gates (an action that asks them may just not happen), a second thread at
the bus, the legacy `submitOrder`, and reconciliation, which reads only.

### The resumable backtest

`cursor` is the heap of `main` (one row of each stream), `memory` what portfolio, risk
engine and regime remember, abstracted to the candles that made it so; `snapshot` is the
file. A step is a candle (`WarmUp`, `ProcessCandle`), a step of `atomicWrite()`
(`WriteTemporary`, `ReplaceSnapshot`, `CheckpointFails`), a start of `main` or a death.
`CheckpointDue` keeps the unsigned subtraction of `EventLoop.cpp:162`, which wraps when a
candle is older than the last checkpoint. All time stamp assignments are initial states.

The snapshot file is flushed but neither it nor its directory is synced, so after a loss of
power it may be torn; the model says so with `powerLost`, and `loadImpl()` then refuses it
as a whole.

`SortedInput` restricts the files to readable dates in order. Without it
`NoCandleTradedTwice` does not hold: the heap orders what it holds, so a file that goes back
in time, or a date that cannot be read and becomes 0, is dispatched out of order, and a
candle traded after a later checkpoint instant was reached is traded again on resume (or one
before it skipped). `src/engine/docs/RISK_POLICY.md:99` claims the property without this
condition; the data files of the repository satisfy it. A malformed row ends its stream
silently (`CsvReader.cpp:94`); a stream is here what lies before such a row.

### The live feed

A step is one access to what another thread sees: the descriptor, `m_wsConnected`,
`m_nextReconnectNs`, `m_connected`, `m_halted` and the rings. The three program counters are
`netAt`, `mainAt` and `worker`. `main` opens the first connection while the event loop runs, so its
three stores are steps of their own: the descriptor is shared (`Connect`), the flag is set
(`AnnounceFirst`) and the retry cleared (`ClearFirstRetry`), and the loop may find the connection
gone between any two of them. `LoseConnection` is a `handleDisconnect()` that finds the flag set;
one that finds it cleared only closes (`LoseUnannounced`, `CloseUnannounced`). The loop's own
reconnection (`Retry`) is one step, since only the loop looks at what it stores.
`feedMode` "paper" is the harness that calls `simulateDisconnect()`; "live" has the socket.
The candles of CSV files and the ticks share `queue`, as in the code. `disconnect()` does
not give back the network's nodes the queue held, which `NodeHasOneOwner` allows for, and
nobody uses them after it.

Things a reader may not expect: a first `connect()` that fails is never retried, since only
the event loop's `handleDisconnect()` arms a retry and it needs a connection to lose; a first
connection lost while `main` announces it may not be retried either (finding 7); a
worker that has finished is joinable and blocks the start of another; the branch at
`main.cpp:440` cannot run, because a candle was pushed just before.

### The web socket

`wsFd` and the buffers change together under the lock; `wsConnected` is the atomic
beside it. The main thread opens the first connection while the loop already runs, so the
loop may read, lose and close the new descriptor before the main thread announces it; then
`wsConnected` says true with no descriptor and the heartbeat repairs it
(`HeartbeatTimeout`). Main clears the retry in a step after that (`clearing`,
`MainClearsRetry`), so one the loop arms in between is lost, as in `LiveFeed`. Bytes that came with the response of the handshake are dropped
(`ReadWithHeader`), and a hang-up drops what is unread. Abstracted: TLS and the scheme that
mocks it, masks and lengths, the bound of attempts (the adapter sets none), a message of more
than two fragments.

### The ring

Each side loads its own index and the other's, touches the slot and stores its index;
each is a step (`FindRoom`, `WriteSlot`, `Publish`; `FindValue`, `ReadSlot`,
`Release`), so any interleaving of the two is covered. One shared memory
stands for release and acquire, which order exactly the slot and the index that gives it
away. `RingIsFifo` is `BoundedFifo` under *queue* = the slots from `tail` to `head`.

### The order book

Operations are the public ones with all they call. Prices are ticks; `toIndex()` clamps and
`ensureMappable()` moves the window as in the code, first for the bid, then for the ask.

### The gates

`GateAuthorization`: browser tabs outlive a launch, so every state ever opened may call back
into the listener of a later launch, with the code it was granted, repeatedly. The provider
issues each code once (assumed). Any local connection ends the authorisation: the first
one accepted is the only one read, also when it is no callback. Gate 6 stores the token it
gets, gate 7 neither the exchanged nor the refreshed one.

`DemoAccountGate` and `QuoteGate` are one thread each against answers that are inputs: a
list with any subset of the accounts, an answer that is not the token's, lacks the scope, comes
late or is of another kind. Both keep the proof object and the program around it apart,
because the program decides by the object's phase. Gate 6 approves a broker title, so the
account found on the second connection may be another account of the same title than the one
shown; what holds is that it is the only one so titled then, and a demo account. In gate 7
`acceptAccountAuthenticationImpl` does not look whether the proof has ended, unlike its
siblings, and would judge a call after the end by the phase alone; nobody makes one. Prices go through `NormalizeSignedScale5` and may
round to 0 when a symbol has fewer than five digits, which is why the property says
`0 <= bid`; time stamps are tried in each unit until one is fresh.

### The offline replay

`manifest` is drawn per launch: the candles, the record limit, whether the manifest is
valid, its files match their pins, and whether there is a sink. (`main` passes none; the
library takes one.) The evidence is written piece by piece under another name, synchronised,
renamed, and the directory synchronised, with a kill, a failure or a loss of power anywhere.
The parent of the new directory is never synchronised (`mynyra_offline_replay_main.cpp:330`,
`:357`), so the machine going down may take the whole directory with it, a synchronised result
included (`PowerFails`); a signal after the last line has no effect.

### The demo runtime up to the order

`DemoSignalRun` is `runCTraderDemoRuntime()` with the session it runs on, up to the call of
`commission()`, which is `DemoCommissioning`. `market` is `CTraderDemoMarketState` (both
quotes, the bar in progress, the queue of completed candles), `io` says where the I/O thread
is, `recovery` the attempts of `recoverTransport()`, `rebuilt` that `processCommand()` has
asked for the risk context a second time, `main` where the main thread is. The operations of
the market state are operators (`Apply`, `Bbo`, `ResetLiveGeneration`), used by the handlers
that call them: `HandleSpot` applies an update and goes on as the code does when it is
refused, which ends the receiving loop, fails a command or costs an attempt, by where it was read.
`Reconnect`, `Reload` and `Resubscribe` are the stretch of a recovery in which a new connection
is up and the old quotes are still there.

A bar is its minute and its revision: the venue revises the bar of the current minute, told
or not (`TradeUnseen`), and starts to count when it is first received. A quote is the time of its
source, 0 when the source gives none, and which connection it came by; of prices
only that a pair crosses is kept. Connections are told apart as the current one and past ones. A
spot event has at most one live bar; the arming evidence's account, instrument and amounts are a
free choice (`QueryFails`), as is what the strategies decide (`ObserveSignal`,
`ObserveNothing`). The main thread reads nothing between a result and what it does with it, so
both are one step (`Arm`, `Commission`).

### The frame decoder

`ReadMore` is one `SSL_read()` of any size with `append()`, `NextFrame` and `RejectFrame` are
`next()`, `ReconnectStream` is `close()` and a new stream at any moment. The header has two
digits of base 3 in the instance and four bytes in the code. An allocation that fails
clears the buffer like a bad length does and is left out.

## 3. Runs

| run | instance | states | checks |
|---|---|---|---|
| `OrderLifecycle` | 2 orders of 2 units, 6 keys, sequence 0..2, time 0..1 | 4 393 (symmetric) | all properties of the store |
| `Commissioning_partial` | 2 units, 1 attempt, 1 drop, no lag | 930 k, 1–2 min | books, records, promise |
| `Commissioning_reconnect` | 1 unit, 2 attempts, 1 drop, lag, fairness | 595 k, 2 min | snapshots, adoption, termination |
| `Pipeline` | 2 engines, 2 orders each, buys of 1..2 units, cap 1, threshold 1, 1 resting order | 449 k (symmetric), 1 min | books, tracking, identities, halts |
| `Programs` | see below | 394 k, 2 min | checkpoint, feed, web socket, ring, book, gates, replay, demo runtime, decoder |
| `Pipeline_trigger`, `Pipeline_halt` | 1 engine | found in seconds | violations, see findings |
| `Commissioning_failed` | 1 unit, 1 drop | found in seconds | violation, see findings |
| `Commissioning_delayed` | 2 units, lag | found in seconds | violation, see findings |
| `Feed_exposure` | LIVE and harness, 2 outages | found in seconds | violation, see findings |
| `Feed_retry` | LIVE and harness, 1 outage, fairness | found in seconds | violation, see findings |
| `Quotes` | 8 levels, 3 prices | found in seconds | violation, see findings |

**Store.** `QuantityConserved`, `StateTellsFill` (no live record has nothing left, no accepted or
rejected one hides a fill), `TerminalIsFinal`, `OneFreshKeyPerChange`, `UnknownNeedsEvidence`, `FillsOnlyGrow`.
Six keys let an order go through its longest lives (created, checked, submitted,
accepted, cancel requested, cancel refused or filled) and let two orders compete for
keys; two units are enough for a partial fill; sequence 0..2 and time 0..1 include
"none", older, same and newer on both axes.

**Promise.** `OneShotCommissioning` says what the account sees: at most one entry,
one close and one residual close, one after the other; no close larger than the
position; success only for a complete entry that is flat again with nothing left
that could fill. `KeepsPromise` checks that `DemoCommissioning` implements it under
the mapping *asked, filled, live* = the venue's orders.

**Books.** `RecordsFollowVenue` (no record claims more than the venue did, every order that may
still fill has one, and a closed record is final: the venue is done and all it filled is counted),
`RecordsAdvance` (no step takes back what a record says was filled, drops it or touches a closed one),
`FailureShowsExposure` (`Failed` of an account with exposure, finding 1, happens only after a drop and
with the record of the entry showing that it got through, so `RecoveryRequired` could be told from it),
`BooksAgreeOnSuccess` (at success records, engine and mirror agree with the venue),
`PendingIsRemaining` (no stale pending quantity while the run goes on),
`MirrorWithinVenue` and `AdoptionCountsOnce` (exposure is not counted twice),
`SnapshotIsCurrent` (a complete snapshot without pending orders is still true when the
controller uses it, although put together from two replies).

`PendingIsRemaining` is limited to a run that goes on because it does not hold of one
that is about to fail: `executeIntent` erases the context of a refused order and not
its pending quantity, so a partial fill before and a complete fill after the erasure
leave a quantity behind. The run then reports `Failed` and reads it no more.

Two units are what a partial fill needs, and a third would only lengthen it: no code
tells two partial fills of a leg from one except by their sum. One drop is what starts
a recovery; further failures come as `ReconnectFails` and failed queries, which are
not bounded by `MaxDrops` but by `Attempts`. `Attempts` is 2 in the code and in the
run that is about recovery.

**Pipeline.** `LiveOrderIsTracked` (what can still be filled is known to the adapter and
to its issuer alone), `NoOrderIsLeftWaiting`, `BooksFollowFills` (positions are what the
orders' fills and the pending orders add up to), `IdentitiesDoNotMix`,
`HaltAdmitsNoExposure`; that no position becomes short is part of `TypeOK`. Two engines
are what colliding identities need and two identities let each engine be the first
or the second to use one. Two units give one partial fill and one late fill. A cap of 1
makes one engine's position block the other's buy. With a threshold of 1 the second
error halts, so both sides of the limit occur, and errors may expire in between. One
trigger or pending order at a time is enough: they act one by one and
read only the position. Symmetry is sound: engines are interchangeable. The run is
stopped by its bound on identities, so deadlock is not checked.

**Programs.** These programs share no state. `ProgramsInit` chooses one, which then runs
under its own next-state relation while the others stay in an initial state, so the run
is the union of their runs and no product. What each contributes:

| program | bounds | states it and its properties need |
|---|---|---|
| backtest | 2 streams of 3 rows, instants 1..3, interval 1, 3 launches | streams that share an instant with a checkpoint taken between them; a resume of a resume |
| feed | 2 network and 2 local nodes, 2 outages | pools that run empty; a disconnect while another is being reported |
| socket | 2 connections, 4 frames | a fragmented message with a control frame inside, a connection lost in the middle, the next one opened |
| ring | capacity 3, 3 values | full, empty, wrapped around |
| book | 8 levels, prices 1, 2, 4 | window moved by 3 ticks, not by 2; clamping; empty sides |
| authorization | 2 launches, 2 codes | a tab of the first launch calling into the second, reloaded |
| gate6 | 7 records | demo, live and unsaid accounts, equal titles, a changed second list |
| gate7 | 4 accounts, 4 symbols, 6 prices, 5 times | none, one and two candidates; rounding, overflow, fresh in one unit only |
| replay | 2 launches, 2 pieces, 3 files | a second launch at the directory of a first that died at any step |
| signal | 3 minutes of one tick, 2 revisions, a queue of 1, evidence as old as its tick, 2 reconnect attempts, losses without bound | one candle arms and a later one decides, with a recovery before, between and during the request; the queue overflows |
| frames | base 3, frames of at most 3 bytes, reads of at most 3, 3 frames, 2 streams | a piece of a header, several frames in a read, an empty and an oversized frame, a stream that ends within one |
| commissioning | 4 units | a partial close and its residual; the types only, see below |

`NoCandleTradedTwice`, `LostOnlyAtCheckpointInstant` and `CheckpointSurvivesDeath` are about
any chain of crashes and resumes. The second says precisely what is lost: a resumed run takes
candles at the checkpoint's instant as covered (`main.cpp:453`), so those of other symbols at
that very instant, which the dead run had not reached, are left out. `NodeHasOneOwner` is about
the hand-over of nodes between threads, `DeliveredIsSent` about what a callback may see across
connections, `RingIsFifo` a refinement. `QuoteHasSize` is about cached indices that
survive an emptied level or a moved window. `CodeUsedOnce`, `OnlyTheApprovedAccount` and
`QuoteProvesOneDemoAccount` are what the gates exist for. `EvidenceIsWhole` has three parts:
nothing torn is ever under the final name; exit code 0 means that all candles were replayed in
order and that their evidence is there or was until the machine went down; and a synchronised result
is all or nothing: no process changes it, and a machine that goes down leaves it as it is or takes
the directory. That exit code 0 means the evidence stays is not claimed, because it does not.

`CandlesAreFinal` says that a candle the strategies see is the last revision of its minute and that
no minute comes twice, over any number of reconnections: were the bar in progress to survive one
(the mutant), the first bar of the new connection would complete it with the revisions missed
in between left out. `EvidenceIsOfOneConnection` is about an order decided while the
connection is replaced: quotes and reconciliation carry no common lock, only a generation and the older of the two quote times.
`FramesAreSent` relates what was sent, what is handed up, the buffer and the wire at every step.

The promise's own safety properties (`NeverOverclosed`, `SuccessIsFlat`, `PlacedOnce`) are proved for
every volume (section 4) and reach the code through `KeepsPromise`, which TLC checks on the
instances above and `RunKeepsPromise` proves for all.

Deadlock is not checked: a finished program stops, and the bounds stop the others.

**Fairness.** `FairSpec` asks weak fairness of the controller and of the session, each
as a whole: both threads keep running, because the run loop never blocks longer than
250 ms or the deadline of a request (`NETWORK_TIMEOUT`) and each wait of the controller
has its own. The venue owes nothing: it may stay silent for ever. Under this `Terminates`
says every run reports an outcome. `FeedFairness` asks weak fairness of each step of the
network thread that needs no message (but not of one that notices a loss not yet announced), of the
main thread and of the reconnect worker (threads keep
running and none waits without a deadline), and of the endpoint coming back, for
without it no outage need ever end. Receiving a tick is not fair. Under this `OutageEnds` says
that an outage somebody is at work on (`RecoveryUnderWay`) ends, with a connection behind the
adapter's flag (`LinkIsUp`) and not with the flag alone. It does not claim the same of the three in
which nobody is: a first connection that failed, a harness whose worker has
finished, and a first connection lost before `main` has cleared the retry (finding 7). The code
leaves them as they are. `CHECK_DEADLOCK FALSE` is set because a finished run
stops, and the store stops when the keys are used up.

Every action is taken in some run, except `SubmitRefused`: a close is only sent after a
snapshot or fill has mapped its position, so the guard in `submitOrder` never refuses.

### Findings

1. **`FailedIsFlat` is violated** (`Commissioning_failed`). `dispatch()` takes a refused
   submit for unsent unless the record is `Unknown` (`MynyraDemoCommissioning.cpp:198`).
   If an acceptance or fill was delivered while the promise was open, as during
   `recoverTransport()`, the record is past `Unknown` and the run reports `Failed`
   although the account has exposure. `docs/RISK_POLICY.md:187` asks for
   recovery-required.
2. **`MirrorWithinVenue` is violated when a reply overtakes a fill**
   (`Commissioning_delayed`). Adoption, which makes later fills be ignored, happens only
   for a position that is not mapped (`CTraderProviderAdapterDemo.mm:1665`). After a
   first partial fill it is mapped; a snapshot that includes the rest is applied and the
   late fill is added again. The comment at line 2194 says it must not.

3. **`TriggerSurvivesRefusal` is violated** (`Pipeline_trigger`). `processTriggerOrders()`
   cancels a trigger when `execute()` returns true (`ExecutionEngine.cpp:817`), which it
   does once the order is on the bus, rejected or not. `TriggerOrderManager.hpp:54` asks
   for the trigger to stay until the exit is accepted.
4. **`ErrorHaltLasts` is violated** (`Pipeline_halt`). The feed's integrity callback and the
   error-rate breaker share `m_halted` (`main.cpp:334`, `RiskEngine.cpp:614`), so a healthy
   report lifts a halt that `RiskEngine.hpp:63` says only `clearHalt()` lifts.
5. **`DisconnectBlocksExposure` is violated** (`Feed_exposure`). `main` connects
   (`main.cpp:292`) before it installs the integrity callback (`:333`), so the failure or loss of
   a connection in between is reported to nobody; and `pumpNetworkIngress()`
   (`LiveDataAdapter.cpp:436`) may report "connected" after the disconnect it has overtaken. `main`
   goes on processing CSV candles with trading not halted. What the run shows is the halt that is
   not set; in a LIVE run of today the gateway has no adapter, so no order leaves the program either
   way. `docs/WORKSTREAM_I_ADAPTER_CONTRACT.md:206` asks a disconnect to block new exposure.
6. **`BestBidIsHighest` is violated** (`Quotes`). `applyBbo()` takes its own bid for the best when the
   last quote's was (`L2OrderBook.cpp:115`), although a level set by `applyBidLevel()` may lie
   in between. The comment at `:112` says no scan is needed.
7. **`DisconnectionIsRetried` is violated** (`Feed_retry`). `connectWebSocketInternal()`, called by `main`
   for the first connection, sets `m_wsConnected` (`AsyncNetworkClient.cpp:800`) and clears
   `m_nextReconnectNs` (`:806`). If the event loop loses the connection in between, the retry it arms
   (`:1539`, `:847`) is erased, `LiveDataAdapter.cpp:157` says connected, and nothing repairs
   it: `updateHeartbeat()` (`:1542`) does nothing without a flag and without a retry.
   `include/LiveDataAdapter.hpp:13` says that a disconnection is followed by reconnection. Were the
   retry cleared before the flag is set, the property would hold.

## 4. Proofs

Every safety and action property a passing run checks is also a theorem, for every value of the
constants, the types of the single programs included. Liveness is not.

### The store

`OrderLifecycle_proofs`, for all sets of orders and keys, all requested quantities and
all bounds: `TypeCorrect`, `Conservation`, `StateIsTrue`, `TerminalFinality`,
`UnknownSettledByEvidence`, `FillMonotone`, `EventsApplyOnce`.
The inductive invariant `IInv` is a property of each record on its own (`RecordInv`)
and adds one conjunct to the checked ones: `CancelRemembers`, that an order whose cancel
is in flight came from `Accepted` or `PartiallyFilled`. Without it a refused cancel could
bring back any state. One lemma per operation shows that the record it leaves is good;
`CommitGood` lifts this to the map; the action properties follow from `StepOnRecords`,
that every step moves a record along the transition table or leaves it, and
`AppliedUsesKey`, that an operation which applies an event had not seen its key.

### The commissioning run

`OneShotCommissioning_proofs`, for every entry volume: `TypeCorrect`, `NoOverclose`,
`FlatSuccess`, `BoundedExposure`, `OnceAndAlone`. `IInv` adds `NeverOverfilled`, that no
leg is filled beyond what it asked; with it `NeverOverclosed` is inductive because a leg
is only placed when nothing is live.

`DemoCommissioning_proofs`, for every minimum volume, number of reconnection attempts and
number of lost connections, with and without lag. `RunKeepsPromise` says that the composition
of controller, session, books and venue implements `OneShotCommissioning`; `AccountStaysSafe` and
`LegsArePlacedOnce` carry the promise's theorems over to it. `SnapshotStaysTrue` is about what the
controller concludes from. They rest on `CoreInv` (`CoreHolds`), which says what one thread may
rely on while the other runs:

- `CommandsFollowControl`: the controller's place determines what is queued and what the I/O
  thread may be busy with, a command given up included. So at most one leg is on its way.
- `ThreadIsWhereItIs`, `OneReplyAwaited`: a job keeps the I/O thread in a query or a recovery, and
  at most one reconcile reply is under way that it would believe.
- `LegsInTurn`, `UnsentIsSized`: a leg that waits in the queue was not placed, nothing else can
  fill, and its size still fits the position when the I/O thread takes it up.
- `RepliesTell`: a reply that shows no order was true when it was made and cannot become false
  afterwards, since only the controller could place another leg and it is waiting. Together with
  `ProofIsEarned` this gives `SuccessIsFlat`.

`BooksInv` (`BooksHold`) builds on it: `RecordSound` (a record is never ahead of its leg; the events
of the venue have sequence numbers above those of the gateway's own, `GatewaySequence`, so a
dispatch that failed marks no record that heard of a fill), `PendingFollowsRecords`,
`FillsTold` (nor is a fill on the wire ahead), `MirrorFollows`, and, where no reply overtakes an
event, `SnapshotComesLast`. From it follow `TypesHold`, `PendingStaysTrue`, `AdoptionStaysSingle`, `BooksStayInStep` and `MirrorStaysWithin`. The last
assumes `~EventsMayLag`; that it needs to is what `Commissioning_delayed` shows (finding 2).

`TraceInv` (`TraceHolds`) says where the facts in the books came from, which bounds do not:

- an event on the wire is of an order that was placed, and a rejection of one that is gone unfilled
  (`EventsOfOrders`); whatever was placed has a record (`OrdersHaveRecords`); a record that heard of
  its order is of one that was placed, and a rejected one is of one that is gone (`RecordsTraced`);
- a dispatch that is judged has left the state in which it was submitted (`JudgedIsMarked`): the mark
  of the gateway applies in that state, because all sequence numbers before it are its own;
- a session that is down has nothing queued and owes no answer (`DownIsOver`). While the connection has
  not dropped nothing is recovered, and a dispatch of the entry that failed placed nothing
  (`Calm`, `CalmEntry`).

The last two are why `Failed` with an exposure needs a drop (`FailureStaysVisible`): without one, an
entry that is refused never reached the venue; with one, a record that is not unknown when it is judged
has heard of the order. `RecordsStayTrue` uses that a rejection is of an order that is gone and
that a reconciled close is followed by no event that applies. `RecordsOnlyAdvance` shows that per handler
(`RecordsMove`), since each takes a record along the transition table.

### The execution pipeline

`ExecutionPipeline_proofs`, for any set of engines, any cap, threshold and bounds:
`TypeCorrectness`, `Tracking`, `NothingWaits`, `IdentitiesStayApart`, `HaltHolds`,
`BooksStayTrue`. `IInv` is
again a property of each order (`OrderInv`) and of the shape of the maps. Tracking is not
inductive alone: a late fill finds its engine only because a context belongs to the
issuer named in the record and is never ahead of it (`ContextInv`), and a cancel ends its
order only because the adapter still has it and the result's key is unused (`RecordInv`).
Without them a refused fill could leave an order nobody hears of. `UnmovedOrder` says that
an order nobody's knowledge of has changed keeps its invariant, so each step needs work
for the one order it touches; `ExecutionEffect` is the case split of `onBrokerExecution`;
`QuietStep` and `RoutingStep` gather the actions that touch no order and those that issue
one. The two action properties come out of the same lemmas.

`BooksStayTrue` is about a sum over all orders of an engine. The sum is a fold, of which no
prover knows anything but its definition; `TotalIsWeight` shows that it is the number of units
booked, a cardinality (`Weight`), and `TotalMoves` that a step which changes one order moves the
total by what it books of it. What each action books follows from the lemmas above.

### The programs

`Persistence_proofs`, on `ResumableBacktest` for any number of streams, rows and launches and any
interval:
`BacktestSafe`, `NoneTradedTwice`, `LostOnlyAtCuts`, `CheckpointIsThere`. The first three assume
`SortedInput`. Being traded once is not inductive by itself: a resume trades again
whatever is later than the file's instant, so the file must hold nothing later. The
invariant says that a checkpoint divides the candles by its instant (`DividedAt`), which it does because
it is taken at the earliest candle of the heap (`WritingTheEarliest`) and everything taken before is
no later (`PassedIsEarlier`, where the order of the files enters). On `OfflineReplay`, for any files,
record limits, pieces and launches: `ReplaySafe`,
`EvidenceAlwaysWhole`. The invariant says how far the file of this launch is (`OwnFile`), what
holds of the directory whoever wrote it (`AnyFile`), that the outcome fixes the
events (`Said`), and what was replayed in order (`LinesInOrder`).

`MarketData_proofs`:

- the ring, for every capacity above 1 and every set of values: `RingSafe` and
  `RingImplementsFifo`, the refinement the run checks. The invariant is what each side may rely on
  while the other runs: the slot being filled is not in the queue, and the slot being read is
  (`ProducerOwnsItsSlot`, `ConsumerOwnsItsSlot`);
- the order book, for every window, price and quantity: `QuoteAlwaysHasSize`. It needs that a
  search over a finite window finds a level with a quantity if there is one (`HasLowest`, `HasHighest`);
- the live feed, for all finite pools: `NodesHaveOneOwner`. `FeedInv` says the same with the
  nodes a thread has in hand (`OneOwner`, `AllOwned`), which depends on where the thread is
  (`HeldWhileParsing`);
- the web socket, for any number of connections and frames: `MessagesArriveWhole`. `WsInv`
  says that what is on the stream is in the order sent and follows what was delivered
  (`Behind`), and that the beginning of a last fragment lies before it on the stream, was
  collected, or was lost with the handshake (`EndsJoin`);
- the decoder, for every base, frame size and read size: `DecoderLosesNothing`. `FramesInv` says
  that buffer and wire together encode what is not yet handed up (`Encodes`, by the offsets at
  which frames begin), so it does not matter where a read ends. It follows that `append()`
  is never called with more than there is room for: its overflow branch is not taken in a run.

`Gates_proofs`:

- `AuthSafe`, `CodeIsUsedOnce`, for any number of launches and codes: the invariant follows a code
  from the provider (`CodesDiffer`) through the guard, which is armed with the state of the
  current launch alone (`ArmedForThisLaunch`), to the exchange (`MatchedIsOurs`), of which a launch
  has one (`OnePerLaunch`);
- `ApprovedAccountOnly`, for any finite set of accounts and any two lists of them: what was
  confirmed was shown (`TitleWasShown`), the account taken from the second list is the only demo
  account there with that title (`AccountIsApproved`), and nothing is authenticated before
  (`AuthenticationIsLast`);
- `QuoteOfOneAccount`, for any accounts, symbols, prices and times: requests go out in the one order
  (`QuestionsInTurn`) and for the one eligible account (`AccountIsTheOne`), the subscription names
  what the proof waits for (`SubscribedIsProven`), and a complete proof has the quote
  (`QuoteIsProven`).

`MarketData_proofs` on the demo runtime, for every length of a minute, clock, queue and number of attempts:
`StrategiesSeeFinalBars`, `DecisionsAreCurrent`. `SignalInv` says that the bar in progress is the
venue's, but only while the session receives (`BarIsFresh`): a lost connection ends that, and
the reset ends the bar before anything is received again. Completed and advanced bars are final and
in order (`CompletedAreFinal`), and a quote of a past connection is there only during a recovery or
after the end (`QuotesAreCurrent`).

`Programs_proofs`: `ProgramsTypesHold`, that `ProgramsTypeOK` holds whichever program runs, for all
values of all their constants. `ProgramsInv` is the conjunction of the invariants above, each with what
the types need beyond it; `OnlyOneRuns` says that a step of `ProgramsNext` is a step of one program and
leaves the variables of the others alone, so every invariant is kept for its own reason
(`ProgramsKeep`). Beyond the earlier
invariants the types need the places and flags of each thread, and a reason for each bound: a message has
at least one frame, so there are no more messages than frames (`MessagesCounted`); what is in the book
came with an update, so best prices and sizes are of the instance (`FromUpdates`); the decoder keeps less
than the longest frame and one read more (`BufferIsBounded`); the candle whose checkpoint is being
written still waits in its stream, also when the files are not in order, which `BacktestSafe` assumes
and this does not (`RunTypes`); a replay says six things at most (`ReplayResults`), and gate 7 no more
than its six questions (`Gate7History`); quotes and reconciliations of the demo runtime are dated within
its clock (`SignalDates`).

### Assumptions and limits

Assumed, each as a named `ASSUME` that TLC evaluates in the runs: `RequestedAssumption` (quantities
are positive, which `create()` checks), `BoundAssumption`; `QtyAssumption`, `QuantityAssumption`,
`LagAssumption`, `DropsAssumption`, `AttemptsAssumption`; `CapAssumption`,
`ThresholdAssumption`, `PipelineBounds`; `BacktestAssumption`, `ReplayAssumption`;
`RingAssumption`, `OrderBookAssumption`, `FeedAssumption`, `WebSocketAssumption`,
`FrameAssumption`; `AuthorizationAssumption`, `GateAccountsAssumption`, `QuoteGateAssumption`;
`SignalAssumption`. They ask for bounds that are numbers, sets that are finite or not empty and
sizes that are positive; of the backtest also that the word is wider than the latest instant, and
of the decoder that the length of a payload fits the header, a read fits the buffer and there is a
stream to read.

The provers cannot do induction over data. Where a recursive function or a fold has to be known
for every argument (`Power10` of the gates, `FlattenSeq` of the decoder, the sums of the books) the proof takes
the least argument at which the claim fails, which exists because the naturals are
well-founded (`HasLowest`), and the one before it contradicts that.

The theorems on the promise, the invariants (`CoreHolds`, `BooksHold`, `TraceHolds`, `BacktestSafe`, `RingSafe`,
`AuthSafe`, `ReplaySafe`) and what is carried over from the promise name properties no run repeats.

Only model-checked: liveness (`Terminates`, `OutageEnds`), which with its fairness and `ENABLED` is
out of the prover's reach.

## 5. Plan

What is left, most useful first:

1. The rest of `RiskEngine`: latency window and CLOSE_ONLY, volatility scaling and the
   drawdown gate, so that `HaltAdmitsNoExposure` has every gate in the model.
2. The order bus with a producer on a second thread, the bus and its pool full, and the
   legacy `submitOrder`, beside `ExecutionPipeline`.
3. Gap filling and injected frames of `LiveDataAdapter`; trailing stops of
   `TriggerOrderManager`.
4. Proofs: the safety of whatever is modelled next; that `MirrorWithinVenue` holds with lag as long
   as no snapshot overtakes a fill, which would replace the condition by its cause.

## 6. Not modelled

- *Strategies, regime detection, covariance and position sizing, decimal arithmetic*:
  numbers beyond TLC; the decisions modelled do not depend on how they are computed, and where
  one does it is a free choice.
- *Metrics, analytics, event sinks, printed summaries*: output. A sink that fails is a choice of
  the models that have one.
- *TLS, HTTP, DNS, epoll, protobuf, windows, the browser, the keychain*: I/O. What they may answer
  or fail with is an input.
- *Digests and the canonical form of a replay manifest*: whether the pins match is an input.
- *Runtime events, evidence files and `normalizeHistory()`*: output, and a check of the
  historical bars before the run begins.
- *Authentication and instrument loading of the session*: part of `Reconnect`, `Reload` and their
  failures.
- *Client and server*: static pages.
