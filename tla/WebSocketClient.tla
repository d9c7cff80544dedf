---------------------------- MODULE WebSocketClient ----------------------------
(***************************************************************************)
(* The web socket of AsyncNetworkClient: from the bytes of one connection  *)
(* after another to the messages its callback is given.  Two threads use   *)
(* it.  The main thread opens the first connection; the event loop thread  *)
(* reads, answers, notices the end of a connection and opens the next.     *)
(* They share m_wsFd and the buffers under a lock, and m_wsConnected, an   *)
(* atomic that says "connected" before and after that lock is held.        *)
(*                                                                         *)
(* A frame is the unit of the stream: how frames lie in reads is left out, *)
(* because a frame is taken from the buffer when it is complete.  What the *)
(* handshake has read beyond the response is dropped with the buffers.     *)
(***************************************************************************)
EXTENDS Naturals, Sequences

CONSTANTS
  MaxConnections,  \* bound: connections of a run
  MaxFrames        \* bound: frames the server sends on one of them

ASSUME WebSocketAssumption ==
  MaxConnections \in Nat \ {0} /\ MaxFrames \in Nat

VARIABLES
  connections,   \* how many were opened: the name of the current one
  wsFd,          \* m_wsFd: the current connection, or none
  wsConnected,   \* m_wsConnected
  reconnectDue,  \* m_nextReconnectNs # 0
  opener,        \* who is in connectWebSocketInternal(), and how far
  clearing,      \* main has set the flag, and the retry is cleared next
  server,        \* the other end: "none", "open", "closed" or "silent"
  stream,        \* frames on their way on the current connection
  sentFrames,    \* how many the server has sent on it
  message,       \* the number of the message the server sends
  between,       \* the server is between the fragments of a message
  fragment,      \* m_wsFragmentBuffer
  delivered,     \* history: what the callback got on the current connection
  surplus        \* history: the handshake has taken frames with it

serverVars == <<server, stream, sentFrames, message, between>>
clientVars == <<wsFd, wsConnected, reconnectDue, opener, clearing, fragment>>
webSocketVars == <<connections, serverVars, clientVars, delivered, surplus>>

NoFd == 0
Nobody == [ thread |-> "nobody", at |-> "idle" ]

WebSocketInit ==
  /\ connections = 0 /\ wsFd = NoFd /\ wsConnected = FALSE
  /\ reconnectDue = FALSE /\ clearing = FALSE
  /\ opener = [ thread |-> "main", at |-> "idle" ]
  /\ server = "none" /\ stream = <<>> /\ sentFrames = 0 /\ message = 1
  /\ between = FALSE /\ fragment = <<>> /\ delivered = <<>> /\ surplus = FALSE

--------------------------------------------------------------------------------
(***************************************************************************)
(* The server (external).  part 0 is a whole message, 1 and 2 are the      *)
(* fragments of one; control frames may come between them.                 *)
(***************************************************************************)

ServerSends(frame) ==
  /\ server = "open" /\ sentFrames < MaxFrames
  /\ stream' = Append(stream, frame) /\ sentFrames' = sentFrames + 1
  /\ UNCHANGED <<connections, clientVars, delivered, surplus>>

Frame(op, fin, part) == [ op |-> op, fin |-> fin, msg |-> message, part |-> part ]

SendMessage ==
  /\ ~between /\ ServerSends(Frame("text", TRUE, 0))
  /\ message' = message + 1 /\ UNCHANGED <<server, between>>

SendFirstFragment ==
  /\ ~between /\ ServerSends(Frame("text", FALSE, 1))
  /\ between' = TRUE /\ UNCHANGED <<server, message>>

SendLastFragment ==
  /\ between /\ ServerSends(Frame("continuation", TRUE, 2))
  /\ between' = FALSE /\ message' = message + 1 /\ UNCHANGED server

SendControl ==
  /\ \E op \in { "ping", "pong" } : ServerSends(Frame(op, TRUE, 0))
  /\ UNCHANGED <<server, message, between>>

\* A close frame, a closed or broken connection, or no answer any more.
SendClose ==
  /\ ServerSends(Frame("close", TRUE, 0)) /\ server' = "closed"
  /\ UNCHANGED <<message, between>>

ServerGone ==
  /\ server = "open" /\ server' \in { "closed", "silent" }
  /\ UNCHANGED <<connections, stream, sentFrames, message, between, clientVars,
                 delivered, surplus>>

--------------------------------------------------------------------------------
(***************************************************************************)
(* connectWebSocketInternal(), on either thread.                           *)
(***************************************************************************)

NoStream ==
  /\ stream' = <<>> /\ sentFrames' = 0 /\ message' = 1 /\ between' = FALSE
  /\ delivered' = <<>> /\ surplus' = FALSE

\* closeWsConnection(): it locks, closes and clears.
CloseWsConnection ==
  /\ wsFd' = NoFd /\ fragment' = <<>> /\ wsConnected' = FALSE

\* Connected and the upgrade is accepted: from here on the server may send.
StartHandshake(thread) ==
  /\ opener = [ thread |-> thread, at |-> "idle" ]
  /\ connections < MaxConnections /\ connections' = connections + 1
  /\ CloseWsConnection /\ NoStream
  /\ server' = "open" /\ opener' = [ opener EXCEPT !.at = "handshake" ]
  /\ UNCHANGED <<reconnectDue, clearing>>

\* readHttpHeader() reads on until the header is there, and may have read more.
ReadWithHeader(taken) ==
  /\ stream' = SubSeq(stream, taken + 1, Len(stream))
  /\ surplus' = (taken > 0)

\* Everything read with the response is dropped, the descriptor is shared.
ShareDescriptor(thread) ==
  /\ opener = [ thread |-> thread, at |-> "handshake" ]
  /\ \E taken \in 0 .. Len(stream) : ReadWithHeader(taken)
  /\ wsFd' = connections /\ fragment' = <<>>
  /\ opener' = [ opener EXCEPT !.at = "shared" ]
  /\ UNCHANGED <<connections, wsConnected, reconnectDue, clearing, server,
                 sentFrames, message, between, delivered>>

\* m_wsConnected.store(true).  The loop, which alone arms a retry, clears it
\* with the same step; main does so in one of its own.
AnnounceConnected(thread) ==
  /\ opener = [ thread |-> thread, at |-> "shared" ]
  /\ wsConnected' = TRUE /\ opener' = Nobody
  /\ clearing' = (clearing \/ thread = "main")
  /\ reconnectDue' = (reconnectDue /\ thread = "main")
  /\ UNCHANGED <<connections, wsFd, fragment, serverVars, delivered, surplus>>

\* m_nextReconnectNs.store(0), whatever the loop has done meanwhile.
MainClearsRetry ==
  /\ clearing /\ clearing' = FALSE /\ reconnectDue' = FALSE
  /\ UNCHANGED <<connections, wsFd, wsConnected, opener, fragment, serverVars,
                 delivered, surplus>>

\* The loop tries again later, the main thread does not.
GiveUpOpening(thread) ==
  /\ CloseWsConnection /\ server' = "none" /\ NoStream
  /\ opener' = Nobody /\ reconnectDue' = (thread = "loop")
  /\ UNCHANGED <<connections, clearing>>

\* connectTcpBlocking() finds no address or is refused.
ConnectRefused(thread) ==
  /\ opener = [ thread |-> thread, at |-> "idle" ] /\ GiveUpOpening(thread)

\* TLS, the request, the response, or the registration with epoll fails.
HandshakeFails(thread) ==
  /\ opener = [ thread |-> thread, at |-> "handshake" ] /\ GiveUpOpening(thread)

--------------------------------------------------------------------------------
(***************************************************************************)
(* The event loop.                                                         *)
(***************************************************************************)

LoopIsFree == opener.thread # "loop"

\* handleDisconnect(): only who finds m_wsConnected set arms the next attempt.
\* LiveFeed takes the look at the flag and the close apart, which the messages
\* do not depend on.
HandleDisconnect ==
  /\ reconnectDue' = (reconnectDue \/ wsConnected)
  /\ CloseWsConnection /\ server' = "none" /\ NoStream
  /\ UNCHANGED <<connections, opener, clearing>>

Part(frame) == <<frame.msg, frame.part>>

\* processWsRxBuffer(), one frame.
Readable(op) ==
  LoopIsFree /\ wsFd # NoFd /\ stream # <<>> /\ Head(stream).op = op

Deliver(parts) == delivered' = Append(delivered, parts)

Taken ==
  /\ stream' = Tail(stream)
  /\ UNCHANGED <<connections, wsFd, wsConnected, reconnectDue, opener, clearing,
                 server, sentFrames, message, between, surplus>>

TakeText ==
  /\ Readable("text") /\ Taken
  /\ \/ Head(stream).fin /\ Deliver(<<Part(Head(stream))>>) /\ UNCHANGED fragment
     \/ /\ ~Head(stream).fin /\ fragment' = <<Part(Head(stream))>>
        /\ UNCHANGED delivered

\* A last fragment is delivered with whatever came before it.
TakeContinuation ==
  /\ Readable("continuation") /\ Taken
  /\ Deliver(Append(fragment, Part(Head(stream)))) /\ fragment' = <<>>

\* Mutant: a control frame between two fragments clears what was collected.
TakeControl_Clears ==
  /\ Readable("ping") \/ Readable("pong")
  /\ Taken /\ fragment' = <<>> /\ UNCHANGED delivered

TakeControl ==
  /\ Readable("ping") \/ Readable("pong")
  /\ Taken /\ UNCHANGED <<fragment, delivered>>

TakeClose == Readable("close") /\ HandleDisconnect

\* A failed read, a hang-up: what is still unread is lost with it.
SocketFails ==
  /\ LoopIsFree /\ wsFd # NoFd /\ server = "closed" /\ HandleDisconnect

\* updateHeartbeat(): nothing was heard for as long as a pong may take; also
\* when the flag is set and there is no socket behind it.
HeartbeatTimeout ==
  /\ LoopIsFree /\ wsConnected /\ (wsFd = NoFd \/ server # "open")
  /\ HandleDisconnect

RetryDue ==
  /\ opener = Nobody /\ ~wsConnected /\ reconnectDue
  /\ opener' = [ thread |-> "loop", at |-> "idle" ] /\ reconnectDue' = FALSE
  /\ UNCHANGED <<connections, wsFd, wsConnected, clearing, fragment, serverVars,
                 delivered, surplus>>

WebSocketNext ==
  \/ SendMessage \/ SendFirstFragment \/ SendLastFragment \/ SendControl
  \/ SendClose \/ ServerGone
  \/ \E thread \in { "main", "loop" } :
       \/ StartHandshake(thread) \/ ShareDescriptor(thread)
       \/ AnnounceConnected(thread)
       \/ ConnectRefused(thread) \/ HandshakeFails(thread)
  \/ TakeText \/ TakeContinuation \/ TakeControl \/ TakeClose
  \/ SocketFails \/ HeartbeatTimeout \/ RetryDue
  \/ MainClearsRetry

WebSocketSpec == WebSocketInit /\ [][WebSocketNext]_webSocketVars

--------------------------------------------------------------------------------

MessageParts == (1 .. MaxFrames) \X (0 .. 2)

WebSocketTypeOK ==
  /\ connections \in 0 .. MaxConnections /\ wsFd \in { NoFd, connections }
  /\ { wsConnected, reconnectDue, clearing, between, surplus } \subseteq BOOLEAN
  /\ opener.thread \in { "main", "loop", "nobody" }
  /\ opener.at \in { "idle", "handshake", "shared" }
  /\ server \in { "none", "open", "closed", "silent" }
  /\ sentFrames \in 0 .. MaxFrames /\ message \in 1 .. MaxFrames + 1
  /\ fragment \in Seq(MessageParts) /\ delivered \in Seq(Seq(MessageParts))

Whole(m) == { <<<<m, 0>>>>, <<<<m, 1>>, <<m, 2>>>> }

(***************************************************************************)
(* What the callback gets are messages of this connection, whole, in the   *)
(* order they were sent and each once: no fragment outlives a connection   *)
(* and none is joined with another message.  One exception: the first      *)
(* message may lack its beginning, if that came with the handshake.        *)
(***************************************************************************)
DeliveredIsSent ==
  /\ \A i \in DOMAIN delivered :
       LET m == delivered[i][1][1]
       IN /\ \/ delivered[i] \in Whole(m)
             \/ i = 1 /\ surplus /\ delivered[i] = <<<<m, 2>>>>
          /\ i < Len(delivered) => m < delivered[i + 1][1][1]
  /\ wsFd # NoFd \/ delivered = <<>>
================================================================================
