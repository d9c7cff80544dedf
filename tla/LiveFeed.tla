-------------------------------- MODULE LiveFeed --------------------------------
(***************************************************************************)
(* The market data of a LIVE run, and of the PAPER harness of the same     *)
(* adapter: LiveDataAdapter over AsyncNetworkClient, between three threads *)
(*                                                                         *)
(*   network  the client's event loop: it receives ticks, sees the         *)
(*            connection go and comes back to the endpoint,                *)
(*   main     connects, wires the risk engine, then loops: push the next   *)
(*            CSV candle, take a candle from the queue,                    *)
(*   worker   the harness's reconnect worker (PAPER only).                 *)
(*                                                                         *)
(* Every step is one access to what another thread can change: the atomics *)
(* m_wsConnected, m_connected and m_halted, and the three rings that hand  *)
(* tick nodes over without a lock.                                         *)
(***************************************************************************)
EXTENDS Naturals, Sequences, SequencesExt

CONSTANTS
  NetNodes,      \* m_networkPool
  LocalNodes,    \* m_tickPool
  MaxOutages     \* bound: how often the connection is lost

ASSUME FeedAssumption ==
  /\ NetNodes \cap LocalNodes = {} /\ LocalNodes # {}
  /\ IsFiniteSet(NetNodes) /\ IsFiniteSet(LocalNodes)
  /\ MaxOutages \in Nat

VARIABLES
  feedMode,    \* "paper" or "live"
  endpointUp,  \* the endpoint accepts connections (external)
  socket,      \* what m_wsFd stands for: "none", "alive" or "dead"
  outages,     \* history: how often a connection was lost
  wsUp,        \* m_wsConnected of the client
  retryArmed,  \* m_nextReconnectNs # 0
  netAt,       \* where the network thread is
  netHeld,     \* the nodes popped by its message callback
  adapterUp,   \* m_connected of the adapter
  halted,      \* m_halted of the risk engine, this cause alone
  mainAt,      \* where the main thread is
  worker,      \* m_reconnectWorker
  netFree,     \* m_networkFree
  recycle,     \* m_networkRecycle
  ingress,     \* m_networkIngress
  queue,       \* m_queue
  localFree    \* m_freeNodes

linkVars == <<endpointUp, socket, outages, wsUp, retryArmed>>
flagVars == <<adapterUp, halted>>
nodeVars == <<netHeld, netFree, recycle, ingress, queue, localFree>>
feedVars == <<feedMode, linkVars, netAt, flagVars, mainAt, worker, nodeVars>>

\* main() installs the integrity callback only after connect() has returned.
Wired == mainAt \notin { "setup", "shared", "announced", "connecting", "wiring" }

\* m_integrityCallback, if there is one: setHaltTrading(!ok).
Integrity(ok) == halted' = IF Wired THEN ~ok ELSE halted

FeedInit ==
  /\ feedMode \in { "paper", "live" }
  /\ endpointUp \in BOOLEAN
  /\ socket = "none" /\ outages = 0 /\ wsUp = FALSE /\ retryArmed = FALSE
  /\ netAt = "off" /\ netHeld = {}
  /\ adapterUp = FALSE /\ halted = FALSE
  /\ mainAt = "setup" /\ worker = "none"
  /\ netFree = NetNodes /\ recycle = {} /\ ingress = <<>>
  /\ queue = <<>> /\ localFree = LocalNodes

--------------------------------------------------------------------------------
(***************************************************************************)
(* The endpoint and the way to it (external).                              *)
(***************************************************************************)

\* Closed, reset or silent; the endpoint may be gone with it.
Outage ==
  /\ outages < MaxOutages /\ socket = "alive"
  /\ socket' = "dead" /\ outages' = outages + 1
  /\ endpointUp' \in { TRUE, FALSE }
  /\ UNCHANGED <<feedMode, wsUp, retryArmed, netAt, flagVars, mainAt, worker,
                 nodeVars>>

EndpointReturns ==
  /\ ~endpointUp /\ endpointUp' = TRUE
  /\ UNCHANGED <<feedMode, socket, outages, wsUp, retryArmed, netAt, flagVars,
                 mainAt, worker, nodeVars>>

--------------------------------------------------------------------------------
(***************************************************************************)
(* The network thread.                                                     *)
(***************************************************************************)

\* What connectWebSocketInternal() does when the handshake has succeeded: the
\* descriptor is shared, then the flag set, then the retry cleared.
ShareDescriptorOf == socket' = "alive"
SetConnected == wsUp' = TRUE
ClearRetry == retryArmed' = FALSE

\* scheduleReconnect(): the adapter sets no limit on the attempts.
ScheduleReconnect == retryArmed' = TRUE

\* A text message is complete: the callback pops a node, if there is one.  The
\* loop reads any descriptor there is, announced or not.
ReceiveTick ==
  /\ netAt = "poll" /\ socket = "alive"
  /\ \E n \in netFree :
       /\ netFree' = netFree \ { n } /\ netHeld' = { n }
  /\ netAt' = "parse"
  /\ UNCHANGED <<feedMode, linkVars, flagVars, mainAt, worker, recycle, ingress,
                 queue, localFree>>

\* Mutant: the node of a message that is no tick goes nowhere.
HandOver_Leaks ==
  /\ netAt = "parse" /\ netAt' = "poll" /\ netHeld' = {}
  /\ ingress' \in { ingress } \cup { Append(ingress, n) : n \in netHeld }
  /\ UNCHANGED <<feedMode, linkVars, flagVars, mainAt, worker, netFree, recycle,
                 queue, localFree>>

\* parseExternalTick() decides where the node goes; the rings hold twice the
\* pool, so a push never fails.
HandOver ==
  /\ netAt = "parse" /\ netAt' = "poll" /\ netHeld' = {}
  /\ \E n \in netHeld :
       \/ ingress' = Append(ingress, n) /\ UNCHANGED recycle
       \/ recycle' = recycle \cup { n } /\ UNCHANGED ingress
  /\ UNCHANGED <<feedMode, linkVars, flagVars, mainAt, worker, netFree, queue,
                 localFree>>

\* closeWsConnection(), which stores the flag once more.
CloseSocket == socket' = "none" /\ wsUp' = FALSE

\* A close frame, a failed read, a hang-up or a missing pong, the last also
\* when there is no descriptor behind the flag: handleDisconnect() finds the
\* flag set, clears it and closes, up to its callback.
LoseConnection ==
  /\ netAt = "poll" /\ wsUp /\ socket # "alive"
  /\ CloseSocket /\ netAt' = "lost"
  /\ UNCHANGED <<feedMode, endpointUp, outages, retryArmed, flagVars, mainAt,
                 worker, nodeVars>>

\* handleDisconnect() of a connection that is not announced yet: it finds the
\* flag cleared, which main may set before the close clears it again.
LoseUnannounced ==
  /\ netAt = "poll" /\ ~wsUp /\ socket = "dead" /\ netAt' = "closing"
  /\ UNCHANGED <<feedMode, linkVars, flagVars, mainAt, worker, nodeVars>>

\* It returns before the callback, and schedules nothing.
CloseUnannounced ==
  /\ netAt = "closing" /\ netAt' = "poll" /\ CloseSocket
  /\ UNCHANGED <<feedMode, endpointUp, outages, retryArmed, flagVars, mainAt,
                 worker, nodeVars>>

TellAdapter ==
  /\ netAt = "lost" /\ netAt' = "told" /\ adapterUp' = FALSE
  /\ UNCHANGED <<feedMode, linkVars, halted, mainAt, worker, nodeVars>>

\* Mutant: the disconnect is reported, but no attempt is scheduled.
TellRisk_Only ==
  /\ netAt = "told" /\ netAt' = "poll"
  /\ Integrity(FALSE)
  /\ UNCHANGED <<feedMode, linkVars, adapterUp, mainAt, worker, nodeVars>>

\* The rest of the callback, then the next attempt is scheduled.
TellRisk ==
  /\ netAt = "told" /\ netAt' = "poll"
  /\ Integrity(FALSE) /\ ScheduleReconnect
  /\ UNCHANGED <<feedMode, endpointUp, socket, outages, wsUp, adapterUp, mainAt,
                 worker, nodeVars>>

\* updateHeartbeat(), not connected, the back-off has passed.  The loop is the
\* only one to look at the descriptor meanwhile: opening is one step here.
Retry ==
  /\ netAt = "poll" /\ ~wsUp /\ retryArmed
  /\ \/ endpointUp /\ ShareDescriptorOf /\ SetConnected /\ ClearRetry
     \/ ~endpointUp /\ ScheduleReconnect /\ UNCHANGED <<socket, wsUp>>
  /\ UNCHANGED <<feedMode, endpointUp, outages, netAt, flagVars, mainAt, worker,
                 nodeVars>>

--------------------------------------------------------------------------------
(***************************************************************************)
(* The main thread.                                                        *)
(***************************************************************************)

\* start() of the client: its event loop runs.
ClientStarted == netAt' = "poll"

\* stop() of the client: the thread is joined, the socket closed.
ClientStopped ==
  /\ netAt \in { "off", "poll" } /\ netAt' = "off"
  /\ CloseSocket

\* connect(), to where the descriptor is shared with the loop that runs already.
\* The first attempt is not one of the event loop: nothing repeats it.
Connect ==
  /\ mainAt = "setup"
  /\ \/ /\ feedMode = "paper" /\ mainAt' = "wiring" /\ adapterUp' = TRUE
        /\ UNCHANGED <<socket, wsUp, retryArmed, netAt>>
     \/ /\ feedMode = "live" /\ endpointUp /\ ShareDescriptorOf
        /\ ClientStarted /\ mainAt' = "shared"
        /\ UNCHANGED <<adapterUp, wsUp, retryArmed>>
     \/ /\ feedMode = "live" /\ ~endpointUp
        /\ ClientStarted /\ mainAt' = "wiring" /\ adapterUp' = FALSE
        /\ UNCHANGED <<socket, wsUp, retryArmed>>
  /\ UNCHANGED <<feedMode, endpointUp, outages, halted, worker, nodeVars>>

\* Whatever the loop has made of the descriptor, main sets the flag ...
AnnounceFirst ==
  /\ mainAt = "shared" /\ mainAt' = "announced" /\ SetConnected
  /\ UNCHANGED <<feedMode, endpointUp, socket, outages, retryArmed, netAt,
                 flagVars, worker, nodeVars>>

\* ... and clears a retry that the loop may have armed since.
ClearFirstRetry ==
  /\ mainAt = "announced" /\ mainAt' = "connecting" /\ ClearRetry
  /\ UNCHANGED <<feedMode, endpointUp, socket, outages, wsUp, netAt, flagVars,
                 worker, nodeVars>>

\* connectWebSocket() has answered true.
Established ==
  /\ mainAt = "connecting" /\ mainAt' = "wiring" /\ adapterUp' = TRUE
  /\ UNCHANGED <<feedMode, linkVars, netAt, halted, worker, nodeVars>>

WireRiskEngine ==
  /\ mainAt = "wiring" /\ mainAt' = "push"
  /\ UNCHANGED <<feedMode, linkVars, netAt, flagVars, worker, nodeVars>>

\* pushSimulatedCandle(): dropped when the pool is used up.
PushCandle ==
  /\ mainAt = "push" /\ mainAt' = "check"
  /\ \/ \E n \in localFree :
          localFree' = localFree \ { n } /\ queue' = Append(queue, n)
     \/ localFree = {} /\ UNCHANGED <<localFree, queue>>
  /\ UNCHANGED <<feedMode, linkVars, netAt, flagVars, worker, netHeld, netFree,
                 recycle, ingress>>

\* pumpNetworkIngress() reads both flags, then sets one, then reports.
CheckLink ==
  /\ mainAt = "check"
  /\ mainAt' = IF ~adapterUp /\ wsUp THEN "restore" ELSE "drain"
  /\ UNCHANGED <<feedMode, linkVars, netAt, flagVars, worker, nodeVars>>

RestoreLink ==
  /\ mainAt = "restore" /\ mainAt' = "announce" /\ adapterUp' = TRUE
  /\ UNCHANGED <<feedMode, linkVars, netAt, halted, worker, nodeVars>>

AnnounceLink ==
  /\ mainAt = "announce" /\ mainAt' = "drain" /\ Integrity(TRUE)
  /\ UNCHANGED <<feedMode, linkVars, netAt, adapterUp, worker, nodeVars>>

Drain ==
  /\ mainAt = "drain" /\ mainAt' = "collect"
  /\ netFree' = netFree \cup recycle /\ recycle' = {}
  /\ UNCHANGED <<feedMode, linkVars, netAt, flagVars, worker, netHeld, ingress,
                 queue, localFree>>

Collect ==
  /\ mainAt = "collect" /\ mainAt' = "take"
  /\ queue' = queue \o ingress /\ ingress' = <<>>
  /\ UNCHANGED <<feedMode, linkVars, netAt, flagVars, worker, netHeld, netFree,
                 recycle, localFree>>

\* getNextCandle() returns the oldest candle and its node; main() processes it.
TakeCandle ==
  /\ mainAt = "take" /\ queue # <<>>
  /\ mainAt' = "push" /\ queue' = Tail(queue)
  /\ \/ /\ Head(queue) \in NetNodes
        /\ netFree' = netFree \cup { Head(queue) } /\ UNCHANGED localFree
     \/ /\ Head(queue) \in LocalNodes
        /\ localFree' = localFree \cup { Head(queue) } /\ UNCHANGED netFree
  /\ UNCHANGED <<feedMode, linkVars, netAt, flagVars, worker, netHeld, recycle,
                 ingress>>

\* The harness: simulateDisconnect().
SimulateDisconnect ==
  /\ feedMode = "paper" /\ mainAt = "push" /\ outages < MaxOutages
  /\ outages' = outages + 1 /\ adapterUp' = FALSE /\ mainAt' = "degrading"
  /\ UNCHANGED <<feedMode, endpointUp, socket, wsUp, retryArmed, netAt, halted,
                 worker, nodeVars>>

\* Its report, and startReconnectWorker().  A worker that has finished is still
\* joinable, and then no other is started.
ReportDegraded ==
  /\ mainAt = "degrading" /\ mainAt' = "push" /\ Integrity(FALSE)
  /\ worker' = IF worker = "none" THEN "asleep" ELSE worker
  /\ UNCHANGED <<feedMode, linkVars, netAt, adapterUp, nodeVars>>

\* disconnect(): the network thread is joined, the queue is emptied.  What
\* the queue held of the network's pool does not come back to m_networkFree.
Disconnect ==
  /\ mainAt = "push" /\ mainAt' = "stopping" /\ ClientStopped
  /\ adapterUp' = FALSE
  /\ netFree' = netFree \cup ToSet(ingress) \cup recycle
  /\ ingress' = <<>> /\ recycle' = {} /\ queue' = <<>>
  /\ localFree' = LocalNodes
  /\ UNCHANGED <<feedMode, endpointUp, outages, retryArmed, halted, worker,
                 netHeld>>

\* stopReconnectWorker(): a worker that sleeps sees m_shutdown when it wakes.
\* One that was already past that look may have set m_connected again.
JoinWorker ==
  /\ mainAt = "stopping" /\ worker \in { "none", "asleep", "finished" }
  /\ mainAt' = "ended" /\ worker' = "finished"
  /\ UNCHANGED <<feedMode, linkVars, netAt, flagVars, nodeVars>>

--------------------------------------------------------------------------------
(***************************************************************************)
(* The reconnect worker: simulateReconnect(), in PAPER without a socket.   *)
(***************************************************************************)

WorkerReconnects ==
  /\ worker = "asleep"
  /\ adapterUp' = TRUE /\ worker' = "reported"
  /\ UNCHANGED <<feedMode, linkVars, netAt, halted, mainAt, nodeVars>>

WorkerReports ==
  /\ worker = "reported" /\ Integrity(TRUE)
  /\ worker' = "looping"
  /\ UNCHANGED <<feedMode, linkVars, netAt, adapterUp, mainAt, nodeVars>>

WorkerLoops ==
  /\ worker = "looping"
  /\ worker' = IF adapterUp \/ mainAt = "stopping" THEN "finished" ELSE "asleep"
  /\ UNCHANGED <<feedMode, linkVars, netAt, flagVars, mainAt, nodeVars>>

--------------------------------------------------------------------------------

NetworkStep ==
  \/ ReceiveTick \/ HandOver \/ LoseConnection \/ TellAdapter \/ TellRisk \/ Retry
  \/ LoseUnannounced \/ CloseUnannounced

MainStep ==
  \/ Connect \/ AnnounceFirst \/ ClearFirstRetry \/ Established \/ WireRiskEngine
  \/ PushCandle \/ CheckLink \/ RestoreLink \/ AnnounceLink
  \/ Drain \/ Collect \/ TakeCandle \/ ReportDegraded \/ JoinWorker

WorkerStep == WorkerReconnects \/ WorkerReports \/ WorkerLoops

FeedNext ==
  \/ Outage \/ EndpointReturns \/ NetworkStep \/ MainStep \/ WorkerStep
  \/ SimulateDisconnect \/ Disconnect

FeedSpec == FeedInit /\ [][FeedNext]_feedVars

\* Threads run, and an endpoint that is gone comes back.
FeedFairness ==
  /\ WF_feedVars(HandOver) /\ WF_feedVars(LoseConnection)
  /\ WF_feedVars(CloseUnannounced)
  /\ WF_feedVars(TellAdapter) /\ WF_feedVars(TellRisk) /\ WF_feedVars(Retry)
  /\ WF_feedVars(MainStep) /\ WF_feedVars(WorkerStep)
  /\ WF_feedVars(EndpointReturns)

FairFeedSpec == FeedSpec /\ FeedFairness

--------------------------------------------------------------------------------

FeedTypeOK ==
  /\ feedMode \in { "paper", "live" }
  /\ socket \in { "none", "alive", "dead" }
  /\ outages \in 0 .. MaxOutages
  /\ netAt \in { "off", "poll", "parse", "closing", "lost", "told" }
  /\ mainAt \in { "setup", "shared", "announced", "connecting", "wiring", "push",
                  "check", "restore", "announce", "drain", "collect", "take",
                  "degrading", "stopping", "ended" }
  /\ worker \in { "none", "asleep", "reported", "looping", "finished" }
  /\ { endpointUp, wsUp, retryArmed, adapterUp, halted } \subseteq BOOLEAN
  /\ { netHeld, netFree, recycle, ToSet(ingress) } \subseteq SUBSET NetNodes
  /\ queue \in Seq(NetNodes \cup LocalNodes) /\ localFree \subseteq LocalNodes

\* The network's nodes, place by place, as one sequence.
Placed ==
  SetToSeq(netFree) \o SetToSeq(netHeld) \o SetToSeq(recycle) \o ingress
    \o queue \o SetToSeq(localFree)

(***************************************************************************)
(* Handing nodes between threads without a lock neither loses one nor      *)
(* gives it to two: every node of both pools is in exactly one place, at   *)
(* least until disconnect().  Afterwards a node may be gone, never in two. *)
(* And so the main thread always finds a candle, connected or not.         *)
(***************************************************************************)
NodeHasOneOwner ==
  /\ IsInjective(Placed)
  /\ mainAt \notin { "stopping", "ended" } =>
       ToSet(Placed) = NetNodes \cup LocalNodes
  /\ mainAt = "take" => queue # <<>>

\* The adapter says it is connected, and in LIVE there is a connection.
LinkIsUp ==
  adapterUp /\ (feedMode = "live" => wsUp /\ socket = "alive")

\* Somebody is at work on the connection whom main does not cross: it clears a
\* retry before "connecting", and what was lost unannounced is not retried.
RecoveryUnderWay ==
  /\ ~LinkIsUp /\ netAt # "closing"
  /\ mainAt \notin { "shared", "announced", "stopping", "ended" }
  /\ \/ wsUp \/ retryArmed \/ netAt \in { "lost", "told" }
     \/ worker \in { "asleep", "reported", "looping" }

(***************************************************************************)
(* An outage ends, with a connection behind the adapter's flag, or the run *)
(* does, whatever way the reports of the threads overtake each other.      *)
(* Nobody is at work on it in three cases only: a first connect() that     *)
(* failed, a worker that has finished before, and a first connection lost  *)
(* before connectWebSocketInternal() has cleared the retry.                *)
(***************************************************************************)
OutageEnds == RecoveryUnderWay ~> LinkIsUp \/ mainAt = "stopping"

(***************************************************************************)
(* include/LiveDataAdapter.hpp:13: "On disconnection, applies exponential  *)
(* back-off reconnection".  A disconnection the loop has noticed is        *)
(* repaired, or the run ends, at whatever moment it comes.                 *)
(***************************************************************************)
DisconnectionIsRetried == netAt = "lost" ~> LinkIsUp \/ mainAt = "stopping"

(***************************************************************************)
(* docs/WORKSTREAM_I_ADAPTER_CONTRACT.md:206: a network disconnect blocks  *)
(* new exposure.  When main() takes a candle while no feed is connected    *)
(* and no report is under way, trading is halted.                          *)
(***************************************************************************)
DisconnectBlocksExposure ==
  mainAt = "take" /\ feedMode = "live" /\ ~adapterUp /\ netAt = "poll" => halted
================================================================================
