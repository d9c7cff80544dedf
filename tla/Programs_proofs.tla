---------------------------- MODULE Programs_proofs ----------------------------
(***************************************************************************)
(* Type correctness of the programs that share no state with one another,  *)
(* each by itself and all of them together, for every value of the         *)
(* constants.  The invariants of the other modules hold the types their    *)
(* arguments need; what is missing, mostly where each thread is and how    *)
(* large a buffer or a history gets, is added to them here.                *)
(***************************************************************************)
EXTENDS MCPrograms, MarketData_proofs, Gates_proofs, Persistence_proofs,
        OneShotCommissioning_proofs

--------------------------------------------------------------------------------
(***************************************************************************)
(* The gates.                                                              *)
(***************************************************************************)

AuthPlaces ==
  { "down", "authorize", "stored", "listening", "reading", "exchanging", "ready" }

AuthControl ==
  /\ gate \in { "none", "gate6", "gate7" } /\ authStep \in AuthPlaces
  /\ keychain \in { "none", "usable", "expired" } /\ tooLate \in BOOLEAN

\* With what the gates' launches have opened and granted that is every type.
LEMMA AuthTyped ==
  /\ AuthInit => AuthInv /\ AuthControl
  /\ AuthInv /\ AuthControl /\ [AuthNext]_authVars => AuthControl'
  /\ AuthInv /\ AuthControl => AuthTypeOK
<1>1. AuthInit => AuthInv /\ AuthControl
  BY AuthInvInit DEF AuthInit, AuthControl, AuthPlaces
<1>2. ASSUME AuthControl, [AuthNext]_authVars PROVE AuthControl'
  BY <1>2
  DEF AuthControl, AuthPlaces, AuthNext, authVars, LaunchGate, ReadStoredToken,
      OpenBrowser, UserGrants, TimePasses, TokenExpires, AcceptConnection,
      ListenerEnds, ReadFails, ConsumeCallback, ExchangeAndStore, ExchangeForUse,
      GateEnds, Fail
<1>3. ASSUME AuthInv, AuthControl PROVE AuthTypeOK
  <2>1. /\ gateLaunch \in 0 .. MaxGateLaunches /\ guard \in Guards
        /\ tabs \subseteq 1 .. gateLaunch /\ granted \subseteq Callback
        /\ accepted \in granted \cup { NoCallback }
    BY <1>3 DEF AuthInv, AuthTypes, TabsOfLaunches
  <2>2. 1 .. gateLaunch \subseteq 1 .. MaxGateLaunches
    BY <2>1, AuthorizationAssumption
  <2> QED
    BY <1>3, <2>1, <2>2 DEF AuthTypeOK, AuthControl, AuthPlaces, Guards
<1> QED  BY <1>1, <1>2, <1>3

\* The types of gate 6 are part of its invariant.
LEMMA Gate6Typed == Gate6Inv => Gate6TypeOK
BY DEF Gate6Inv, Gate6Types, Proofs6, Gate6TypeOK

\* How many questions gate 7 has asked, and what spot it has taken.
Gate7History == Len(asked7) <= Len(AskingSteps) /\ lastSpot \in Spots \cup { NoSpot }

\* What gate 7 asks is bounded by its steps, and so its types hold.
LEMMA Gate7Typed ==
  /\ Gate7Init => Gate7Inv /\ Gate7History
  /\ Gate7Inv /\ Gate7History /\ [Gate7Next]_gate7Vars => Gate7History'
  /\ Gate7Inv /\ Gate7History => Gate7TypeOK
<1>1. Gate7Init => Gate7History
  BY DEF Gate7Init, Gate7History, AskingSteps
<1>2. ASSUME Gate7Inv, Gate7History, [Gate7Next]_gate7Vars PROVE Gate7History'
  <2> USE DEF Gate7History
  <2>1. CASE Ask7
    <3>1. CASE Exit7("exit1")
      BY <1>2, <3>1 DEF Exit7
    <3>2. CASE asked7' = Append(asked7, Request7(step7)) /\ lastSpot' = lastSpot
      <4>1. ~awaiting7 /\ step7 \in Questions /\ step7 # "spot"
        BY <2>1 DEF Ask7, AskingSteps, Questions, Asked7Before
      <4>2. Len(asked7) = Asked7Before[step7] /\ asked7 \in Seq(Requests7)
        <5>1. Len(asked7) = Asked7Before[step7] + 0
          BY <1>2, <4>1, Zenon DEF Gate7Inv, Gate7InStep
        <5> QED  BY <1>2, <4>1, <5>1 DEF Gate7Inv, Gate7Types, Questions, Asked7Before
      <4>3. Asked7Before[step7] \in 0 .. 5
        BY <4>1 DEF Questions, Asked7Before
      <4>4. Len(asked7') = Len(asked7) + 1
        BY <3>2, <4>2
      <4> QED  BY <1>2, <3>2, <4>2, <4>3, <4>4 DEF AskingSteps
    <3> QED  BY <2>1, <3>1, <3>2 DEF Ask7
  <2>2. ASSUME NEW spot \in Spots, ReceiveSpot(spot) PROVE Gate7History'
    BY <1>2, <2>2 DEF ReceiveSpot
  <2>3. CASE \/ ConnectDemo7 \/ NoAnswer7 \/ UNCHANGED gate7Vars
             \/ \E frame \in Frames :
                  \/ Refuse(frame) \/ ApplicationAuthenticated(frame)
                  \/ \E answer \in [ accounts : SUBSET ListedAccounts,
                                     owned : BOOLEAN, scope : BOOLEAN ] :
                       DiscoverAccounts(frame, answer)
                  \/ \E account \in Ids(ListedAccounts) :
                       \/ AuthenticateAccount(frame, account)
                       \/ SubscribeToSpot(frame, account)
                       \/ \E symbols \in SUBSET ListedSymbols :
                            RequestSymbols(frame, account, symbols)
                       \/ \E symbols \in SUBSET FullSymbols :
                            RequestFullSymbol(frame, account, symbols)
    <3>1. UNCHANGED <<asked7, lastSpot>>
      BY <2>3, Zenon
      DEF ConnectDemo7, NoAnswer7, gate7Vars, Refuse, Exit7, ApplicationAuthenticated,
          DiscoverAccounts, AuthenticateAccount, SubscribeToSpot, RequestSymbols,
          RequestFullSymbol, Judge
    <3> QED  BY <1>2, <3>1 DEF Spots
  <2> QED  BY <1>2, <2>1, <2>2, <2>3 DEF Gate7Next
<1>3. ASSUME Gate7Inv, Gate7History PROVE Gate7TypeOK
  <2>1. step7 \in Questions \cup { "exit0", "exit1" }
    BY <1>3 DEF Gate7Inv, Gate7Types
  <2>2. step7 \in { AskingSteps[i] : i \in DOMAIN AskingSteps }
                   \cup { "connect", "spot", "exit0", "exit1" }
    <3>1. /\ 1 \in DOMAIN AskingSteps /\ AskingSteps[1] = "application"
          /\ 2 \in DOMAIN AskingSteps /\ AskingSteps[2] = "accounts"
          /\ 3 \in DOMAIN AskingSteps /\ AskingSteps[3] = "account"
          /\ 4 \in DOMAIN AskingSteps /\ AskingSteps[4] = "symbols"
          /\ 5 \in DOMAIN AskingSteps /\ AskingSteps[5] = "full"
          /\ 6 \in DOMAIN AskingSteps /\ AskingSteps[6] = "subscription"
      BY DEF AskingSteps
    <3> QED  BY <2>1, <3>1, Zenon DEF Questions, Asked7Before
  <2> QED
    BY <1>3, <2>2 DEF Gate7Inv, Gate7Types, Proofs7, Gate7History, Gate7TypeOK
<1> QED  BY <1>1, <1>2, <1>3, Gate7Begins

--------------------------------------------------------------------------------
(***************************************************************************)
(* Market data: the book, the web socket, the frames.                      *)
(***************************************************************************)

MessageFrames ==
  [ op : { "text", "continuation", "ping", "pong", "close" }, fin : BOOLEAN,
    msg : 1 .. MaxFrames, part : 0 .. 2 ]

SocketPlaces ==
  /\ connections \in 0 .. MaxConnections /\ wsFd \in { NoFd, connections }
  /\ opener \in [ thread : { "main", "loop", "nobody" },
                  at : { "idle", "handshake", "shared" } ]
  /\ server \in { "none", "open", "closed", "silent" }

SocketFlags ==
  /\ wsConnected \in BOOLEAN /\ reconnectDue \in BOOLEAN /\ clearing \in BOOLEAN
  /\ between \in BOOLEAN /\ surplus \in BOOLEAN

\* A message has at least one frame, and one that has begun has sent it.
MessagesCounted ==
  /\ sentFrames \in 0 .. MaxFrames /\ message \in 1 .. sentFrames + 1
  /\ between => message <= sentFrames

SocketParts ==
  /\ stream \in Seq(MessageFrames)
  /\ fragment \in Seq(MessageParts) /\ delivered \in Seq(Seq(MessageParts))

SocketInv == SocketPlaces /\ MessagesCounted /\ SocketParts

\* Five members of a set.
LEMMA FiveMembers ==
  ASSUME NEW S, NEW a \in S, NEW b \in S, NEW c \in S, NEW d \in S, NEW e \in S
  PROVE  { a, b, c, d, e } \subseteq S
OBVIOUS

\* The flags of the web socket client, whichever thread sets them.
LEMMA FlagsAreFlags ==
  /\ WebSocketInit => SocketFlags
  /\ SocketFlags /\ [WebSocketNext]_webSocketVars => SocketFlags'
<1>1. WebSocketInit => SocketFlags
  BY Zenon DEF WebSocketInit, SocketFlags
<1>2. ASSUME SocketFlags, [WebSocketNext]_webSocketVars PROVE SocketFlags'
  <2>1. CASE SendMessage \/ SendFirstFragment \/ SendLastFragment \/ SendControl
             \/ SendClose \/ ServerGone
    BY <1>2, <2>1, Zenon
    DEF SendMessage, SendFirstFragment, SendLastFragment, SendControl,
        SendClose, ServerSends, ServerGone, clientVars, SocketFlags
  <2>2. ASSUME NEW thread \in { "main", "loop" },
               StartHandshake(thread) \/ AnnounceConnected(thread)
        PROVE  SocketFlags'
    <3>1. /\ (clearing \/ thread = "main") \in BOOLEAN
          /\ (reconnectDue /\ thread = "main") \in BOOLEAN
      OBVIOUS
    <3> QED
      BY <1>2, <2>2, <3>1, Zenon
      DEF StartHandshake, AnnounceConnected, NoStream, CloseWsConnection, serverVars,
          SocketFlags
  <2>3. ASSUME NEW thread \in { "main", "loop" },
               ConnectRefused(thread) \/ HandshakeFails(thread)
        PROVE  SocketFlags'
    <3>1. (thread = "loop") \in BOOLEAN
      OBVIOUS
    <3> QED
      BY <1>2, <2>3, <3>1, Zenon
      DEF ConnectRefused, HandshakeFails, GiveUpOpening, NoStream, CloseWsConnection,
          SocketFlags
  <2>4. ASSUME NEW thread \in { "main", "loop" }, ShareDescriptor(thread)
        PROVE  SocketFlags'
    <3>1. \A taken : (taken > 0) \in BOOLEAN
      OBVIOUS
    <3> QED
      BY <1>2, <2>4, <3>1, Zenon DEF ShareDescriptor, ReadWithHeader, SocketFlags
  <2>5. CASE TakeText \/ TakeContinuation \/ TakeControl
    BY <1>2, <2>5, Zenon DEF TakeText, TakeContinuation, TakeControl, Taken, SocketFlags
  <2>6. CASE TakeClose \/ SocketFails \/ HeartbeatTimeout
    <3>1. (reconnectDue \/ wsConnected) \in BOOLEAN
      OBVIOUS
    <3> QED
      BY <1>2, <2>6, <3>1, Zenon
      DEF TakeClose, SocketFails, HeartbeatTimeout, HandleDisconnect, NoStream,
          CloseWsConnection, SocketFlags
  <2>7. CASE RetryDue \/ MainClearsRetry \/ UNCHANGED webSocketVars
    BY <1>2, <2>7, Zenon
    DEF RetryDue, MainClearsRetry, webSocketVars, clientVars, serverVars, SocketFlags
  <2> QED
    BY <1>2, <2>1, <2>2, <2>3, <2>4, <2>5, <2>6, <2>7 DEF WebSocketNext
<1> QED  BY <1>1, <1>2

\* The parts of the web socket, and the types they give.
LEMMA SocketTyped ==
  /\ WebSocketInit => SocketInv
  /\ SocketInv /\ [WebSocketNext]_webSocketVars => SocketInv'
  /\ SocketInv /\ SocketFlags => WebSocketTypeOK
<1>1. ASSUME WebSocketInit PROVE SocketInv
  <2>1. <<>> \in Seq(MessageFrames) /\ <<>> \in Seq(MessageParts)
        /\ <<>> \in Seq(Seq(MessageParts))
    OBVIOUS
  <2> QED
    BY <1>1, <2>1, WebSocketAssumption
    DEF WebSocketInit, SocketInv, SocketPlaces, MessagesCounted, SocketParts, NoFd
<1>2. ASSUME SocketInv, [WebSocketNext]_webSocketVars PROVE SocketInv'
  <2> USE DEF SocketInv
  \* Nothing is under way on a connection that begins or is gone.
  <2>1. ASSUME NoStream, fragment' = <<>> PROVE MessagesCounted' /\ SocketParts'
    <3>1. <<>> \in Seq(MessageFrames) /\ <<>> \in Seq(MessageParts)
          /\ <<>> \in Seq(Seq(MessageParts))
      OBVIOUS
    <3> QED
      BY <2>1, <3>1, WebSocketAssumption DEF NoStream, MessagesCounted, SocketParts
  <2>2. ASSUME NEW op \in { "text", "continuation", "ping", "pong", "close" },
               NEW fin \in BOOLEAN, NEW part \in 0 .. 2,
               ServerSends(Frame(op, fin, part))
        PROVE  SocketParts' /\ sentFrames' = sentFrames + 1 /\ sentFrames' \in 1 .. MaxFrames
    <3>1. sentFrames \in Nat /\ sentFrames < MaxFrames /\ message \in 1 .. MaxFrames
      BY <1>2, <2>2, WebSocketAssumption DEF ServerSends, MessagesCounted
    <3>2. Frame(op, fin, part) \in MessageFrames
      BY <2>2, <3>1 DEF Frame, MessageFrames
    <3> QED
      BY <1>2, <2>2, <3>1, <3>2, WebSocketAssumption
      DEF ServerSends, SocketParts, clientVars
  <2>3. CASE SendMessage \/ SendFirstFragment \/ SendLastFragment \/ SendControl \/ SendClose
    <3>0. 0 \in 0 .. 2 /\ 1 \in 0 .. 2 /\ 2 \in 0 .. 2 /\ TRUE \in BOOLEAN /\ FALSE \in BOOLEAN
      OBVIOUS
    <3>1. SocketParts' /\ sentFrames' = sentFrames + 1 /\ sentFrames' \in 1 .. MaxFrames
      BY <2>2, <2>3, <3>0, Zenon
      DEF SendMessage, SendFirstFragment, SendLastFragment, SendControl, SendClose
    <3>2. \/ ~between /\ message' = message + 1 /\ between' = between
          \/ ~between /\ message' = message /\ between' = TRUE
          \/ between /\ message' = message + 1 /\ between' = FALSE
          \/ message' = message /\ between' = between
      BY <2>3, Zenon
      DEF SendMessage, SendFirstFragment, SendLastFragment, SendControl, SendClose
    <3>3. MessagesCounted'
      BY <1>2, <3>1, <3>2 DEF MessagesCounted
    <3>4. /\ UNCHANGED <<connections, wsFd, wsConnected, reconnectDue, opener, surplus>>
          /\ server' \in { server, "closed" }
      BY <2>3
      DEF SendMessage, SendFirstFragment, SendLastFragment, SendControl, SendClose,
          ServerSends, clientVars
    <3>5. SocketPlaces'
      BY <1>2, <3>4 DEF SocketPlaces
    <3> QED  BY <3>1, <3>3, <3>5
  <2>4. ASSUME NEW thread \in { "main", "loop" },
               \/ StartHandshake(thread) \/ ConnectRefused(thread)
               \/ HandshakeFails(thread)
        PROVE  SocketInv'
    <3>1. NoStream /\ fragment' = <<>>
      BY <2>4
      DEF StartHandshake, ConnectRefused, HandshakeFails, GiveUpOpening,
          CloseWsConnection
    <3>2. SocketPlaces'
      BY <1>2, <2>4, WebSocketAssumption
      DEF StartHandshake, ConnectRefused, HandshakeFails, GiveUpOpening, NoStream,
          CloseWsConnection, SocketPlaces, Nobody, NoFd
    <3> QED  BY <2>1, <3>1, <3>2
  <2>5. CASE TakeClose \/ SocketFails \/ HeartbeatTimeout
    <3>1. HandleDisconnect
      BY <2>5 DEF TakeClose, SocketFails, HeartbeatTimeout
    <3>2. NoStream /\ fragment' = <<>>
      BY <3>1 DEF HandleDisconnect, CloseWsConnection
    <3>3. SocketPlaces'
      BY <1>2, <3>1 DEF HandleDisconnect, NoStream, CloseWsConnection, SocketPlaces, NoFd
    <3> QED  BY <2>1, <3>2, <3>3
  <2>6. ASSUME NEW thread \in { "main", "loop" }, ShareDescriptor(thread)
        PROVE  SocketInv'
    <3>1. PICK taken \in 0 .. Len(stream) : ReadWithHeader(taken)
      BY <2>6 DEF ShareDescriptor
    <3>2. stream' \in Seq(MessageFrames)
      BY <1>2, <3>1 DEF ReadWithHeader, SocketParts
    <3>3. SocketParts'
      BY <1>2, <2>6, <3>2 DEF ShareDescriptor, SocketParts
    <3>4. SocketPlaces' /\ MessagesCounted'
      BY <1>2, <2>6, <3>1
      DEF ShareDescriptor, ReadWithHeader, SocketPlaces, MessagesCounted
    <3> QED  BY <3>3, <3>4
  <2>7. CASE TakeText \/ TakeContinuation \/ TakeControl
    <3>1. /\ stream # <<>> /\ Taken
      BY <2>7 DEF TakeText, TakeContinuation, TakeControl, Readable
    <3>2. Head(stream) \in MessageFrames /\ stream' \in Seq(MessageFrames)
      BY <1>2, <3>1 DEF Taken, SocketParts
    <3>3. Part(Head(stream)) \in MessageParts
      BY <3>2 DEF Part, MessageParts, MessageFrames
    <3>4. fragment' \in Seq(MessageParts) /\ delivered' \in Seq(Seq(MessageParts))
      <4> DEFINE part == Part(Head(stream))
      <4>1. /\ <<part>> \in Seq(MessageParts) /\ Append(fragment, part) \in Seq(MessageParts)
            /\ <<>> \in Seq(MessageParts)
        BY <1>2, <3>3 DEF SocketParts
      <4>2. fragment' \in { fragment, <<part>>, <<>> }
        BY <2>7 DEF TakeText, TakeContinuation, TakeControl
      <4>3. \/ delivered' = delivered
            \/ \E parts \in Seq(MessageParts) : delivered' = Append(delivered, parts)
        BY <2>7, <4>1 DEF TakeText, TakeContinuation, TakeControl, Deliver
      <4>4. fragment \in Seq(MessageParts) /\ delivered \in Seq(Seq(MessageParts))
        BY <1>2 DEF SocketParts
      <4>5. \A parts \in Seq(MessageParts) :
              Append(delivered, parts) \in Seq(Seq(MessageParts))
        BY <4>4
      <4> HIDE DEF part
      <4>6. delivered' \in Seq(Seq(MessageParts))
        BY <4>3, <4>4, <4>5, Zenon
      <4> QED  BY <4>1, <4>2, <4>4, <4>6, Zenon
    <3>5. SocketPlaces' /\ MessagesCounted'
      BY <1>2, <3>1 DEF Taken, SocketPlaces, MessagesCounted
    <3> QED  BY <3>2, <3>4, <3>5 DEF SocketParts
  <2>8. CASE \/ ServerGone \/ RetryDue \/ MainClearsRetry \/ UNCHANGED webSocketVars
             \/ \E thread \in { "main", "loop" } : AnnounceConnected(thread)
    BY <1>2, <2>8
    DEF ServerGone, RetryDue, MainClearsRetry, AnnounceConnected, webSocketVars,
        serverVars, clientVars, SocketPlaces, MessagesCounted, SocketParts, Nobody
  <2> QED
    BY <1>2, <2>3, <2>4, <2>5, <2>6, <2>7, <2>8 DEF WebSocketNext
<1>3. ASSUME SocketInv, SocketFlags PROVE WebSocketTypeOK
  <2>1. { wsConnected, reconnectDue, clearing, between, surplus } \subseteq BOOLEAN
    BY <1>3, FiveMembers, Zenon DEF SocketFlags
  <2>2. message \in 1 .. MaxFrames + 1
    BY <1>3, WebSocketAssumption DEF SocketInv, MessagesCounted
  <2> QED
    BY <1>3, <2>1, <2>2
    DEF SocketInv, SocketPlaces, MessagesCounted, SocketParts, WebSocketTypeOK
<1> QED  BY <1>1, <1>2, <1>3

--------------------------------------------------------------------------------
(***************************************************************************)
(* The order book and the frames of cTrader.                               *)
(***************************************************************************)

\* The window lies at a price, what is in it came with an update.
FromUpdates(b) ==
  /\ b.base \in Prices \cup { 0 }
  /\ b.bids \in [ Levels -> Sizes ] /\ b.asks \in [ Levels -> Sizes ]

\* A book that is centred anew has nothing in it.
LEMMA CentredFromUpdates ==
  ASSUME NEW price \in Prices \cup { 0 } PROVE FromUpdates(Centred(price))
BY DEF FromUpdates, Centred, Sizes

\* Nor does one that has to be, for a price to be mapped.
LEMMA EnsuredFromUpdates ==
  ASSUME NEW b, FromUpdates(b), NEW price \in Prices
  PROVE  FromUpdates(EnsureMappable(b, price))
BY CentredFromUpdates DEF EnsureMappable

\* What is in the book came with an update, and so has its type.
LEMMA BookTyped ==
  /\ BookInit => Sound(book) /\ FromUpdates(book)
  /\ Sound(book) /\ FromUpdates(book) /\ [BookNext]_book => FromUpdates(book')
  /\ Sound(book) /\ FromUpdates(book) => BookTypeOK
<1>1. ASSUME BookInit PROVE Sound(book) /\ FromUpdates(book)
  <2>1. FromUpdates(Centred(0))
    BY CentredFromUpdates
  <2> QED
    BY <1>1, <2>1, BookInitIsSound DEF BookInit, Cleared, Centred, FromUpdates
<1>2. ASSUME Sound(book), FromUpdates(book), [BookNext]_book
      PROVE  FromUpdates(book')
  <2>1. ASSUME NEW price \in Prices, ResetBook(price) PROVE FromUpdates(book')
    <3>1. FromUpdates(Centred(0)) /\ FromUpdates(Centred(price))
      BY CentredFromUpdates
    <3> QED  BY <2>1, <3>1 DEF ResetBook, Cleared, Centred, FromUpdates
  <2>2. ASSUME NEW price \in Prices, NEW quantity \in Quantities,
               ApplyBidLevel(price, quantity) \/ ApplyAskLevel(price, quantity)
        PROVE  FromUpdates(book')
    <3> DEFINE b == EnsureMappable(book, price)
               i == ToIndex(b, price)
    <3>1. FromUpdates(b)
      BY <1>2, EnsuredFromUpdates
    <3>2. quantity \in Sizes
      BY <2>2, OrderBookAssumption DEF ApplyBidLevel, ApplyAskLevel, Sizes
    <3>3. \/ \E best : book' = [ b EXCEPT !.bids = [ b.bids EXCEPT ![i] = quantity ],
                                          !.bestBid = best ]
          \/ \E best : book' = [ b EXCEPT !.asks = [ b.asks EXCEPT ![i] = quantity ],
                                          !.bestAsk = best ]
      BY <2>2 DEF ApplyBidLevel, ApplyAskLevel
    <3>4. b \in Books
      BY <1>2, EnsuredIsSound, OrderBookAssumption DEF Sound
    <3> HIDE DEF b, i
    <3>5. /\ [ b.bids EXCEPT ![i] = quantity ] \in [ Levels -> Sizes ]
          /\ [ b.asks EXCEPT ![i] = quantity ] \in [ Levels -> Sizes ]
      BY <3>1, <3>2 DEF FromUpdates
    <3> QED  BY <3>1, <3>3, <3>4, <3>5 DEF FromUpdates, Books
  <2>3. ASSUME NEW bid \in Prices, NEW ask \in Prices,
               NEW bidQuantity \in Quantities, NEW askQuantity \in Quantities,
               ApplyBbo(bid, bidQuantity, ask, askQuantity)
        PROVE  FromUpdates(book')
    <3> DEFINE b == EnsureMappable(EnsureMappable(book, bid), ask)
               newBids == Replaced(b.bids, b.lastBid, ToIndex(b, bid), bidQuantity)
               newAsks == Replaced(b.asks, b.lastAsk, ToIndex(b, ask), askQuantity)
    <3>1. FromUpdates(b) /\ b \in Books
      BY <1>2, EnsuredFromUpdates, EnsuredIsSound, OrderBookAssumption DEF Sound
    <3>2. /\ bidQuantity > 0 => bidQuantity \in Sizes
          /\ askQuantity > 0 => askQuantity \in Sizes
          /\ 0 \in Sizes
      BY OrderBookAssumption DEF Sizes
    <3>3. book'.base = b.base /\ book'.bids = newBids /\ book'.asks = newAsks
      <4> HIDE DEF newBids, newAsks
      <4>1. b \in Books
        BY <3>1
      <4>2. book' = [ b EXCEPT
              !.bids = newBids, !.asks = newAsks,
              !.bestBid = book'.bestBid, !.bestAsk = book'.bestAsk,
              !.lastBid = book'.lastBid, !.lastAsk = book'.lastAsk ]
        BY <2>3, <4>1 DEF ApplyBbo, Books, newBids, newAsks
      <4> QED  BY <4>1, <4>2 DEF Books
    <3>4. newBids \in [ Levels -> Sizes ] /\ newAsks \in [ Levels -> Sizes ]
      <4> HIDE DEF b
      <4> QED  BY <3>1, <3>2 DEF Replaced, FromUpdates
    <3> HIDE DEF b, newBids, newAsks
    <3> QED  BY <3>1, <3>3, <3>4 DEF FromUpdates
  <2> QED  BY <1>2, <2>1, <2>2, <2>3 DEF BookNext
<1>3. ASSUME Sound(book), FromUpdates(book) PROVE BookTypeOK
  BY <1>3 DEF Sound, Books, FromUpdates, BookTypeOK
<1> QED  BY <1>1, <1>2, <1>3

\* The decoder never stores more than one frame, and what one read adds to it.
BufferIsBounded == streams \in 1 .. MaxStreams /\ Len(buffer) <= MaxBuffered

\* A part of a sequence of bytes is one, and as long as it says.
LEMMA PartOfBytes ==
  ASSUME NEW s \in ByteSeq, NEW m \in Nat \ {0}, NEW n \in Nat, n <= Len(s)
  PROVE  /\ SubSeq(s, m, n) \in ByteSeq
         /\ Len(SubSeq(s, m, n)) = IF m <= n THEN n - m + 1 ELSE 0
<1>1. \A i \in m .. n : i \in 1 .. Len(s)
  BY DEF ByteSeq
<1>2. ASSUME NEW i \in m .. n PROVE s[i] \in 0 .. ByteBase - 1
  <2>1. i \in 1 .. Len(s)
    BY <1>1
  <2> QED  BY <2>1, ElementOfSeq DEF ByteSeq
<1>3. m \in Int /\ n \in Int
  OBVIOUS
<1> QED  BY <1>2, <1>3, SubSeqProperties DEF ByteSeq

\* The decoder keeps less than the longest frame and one read more.
LEMMA FramesTyped ==
  /\ FrameInit => FramesInv /\ BufferIsBounded
  /\ FramesInv /\ BufferIsBounded /\ [FrameNext]_frameVars => BufferIsBounded'
  /\ FramesInv /\ BufferIsBounded => FrameTypeOK
<1>0. MaxBuffered \in Nat /\ Len(<<>>) = 0
  BY FrameAssumption DEF MaxBuffered, HeaderBytes
<1>1. FrameInit => BufferIsBounded
  BY <1>0, FrameAssumption DEF FrameInit, BufferIsBounded
<1>2. ASSUME FramesInv, BufferIsBounded, [FrameNext]_frameVars PROVE BufferIsBounded'
  <2>1. buffer \in ByteSeq /\ wire \in ByteSeq
    BY <1>2 DEF FramesInv
  <2>2. CASE ReadMore
    <3>1. PICK n \in 1 .. ReadBytes :
            /\ n <= Len(wire)
            /\ IF Len(buffer) + n > MaxBuffered THEN buffer' = NoBytes
               ELSE buffer' = buffer \o SubSeq(wire, 1, n)
      BY <2>2 DEF ReadMore
    <3>2. n \in Nat /\ n >= 1
      BY FrameAssumption
    <3>3. SubSeq(wire, 1, n) \in ByteSeq /\ Len(SubSeq(wire, 1, n)) = n
      BY <2>1, <3>1, <3>2, PartOfBytes
    <3>4. Len(buffer \o SubSeq(wire, 1, n)) = Len(buffer) + n
      BY <2>1, <3>3, ConcatProperties DEF ByteSeq
    <3>5. Len(buffer') <= MaxBuffered
      BY <1>0, <2>1, <3>1, <3>2, <3>4 DEF NoBytes, ByteSeq
    <3> QED  BY <1>2, <2>2, <3>5 DEF ReadMore, BufferIsBounded
  <2>3. CASE NextFrame
    <3>1. FrameLength \in Nat /\ Len(buffer) >= HeaderBytes + FrameLength
      BY <1>2, <2>3, HeaderIsTheFrames DEF NextFrame, FrameIsWhole
    <3> DEFINE total == HeaderBytes + FrameLength
    <3>2. buffer' = SubSeq(buffer, total + 1, Len(buffer)) /\ streams' = streams
      BY <2>3 DEF NextFrame
    <3>3. total \in Nat /\ total <= Len(buffer)
      BY <3>1 DEF HeaderBytes
    <3> HIDE DEF total
    <3>4. Len(buffer') <= Len(buffer) /\ buffer' \in ByteSeq
      <4>1. Len(buffer) \in Nat /\ Len(buffer) <= Len(buffer)
        BY <2>1, LenProperties DEF ByteSeq
      <4>2. total + 1 \in Nat \ {0}
        BY <3>3
      <4>3. /\ buffer' \in ByteSeq
            /\ Len(buffer') = IF total + 1 <= Len(buffer)
                              THEN Len(buffer) - (total + 1) + 1 ELSE 0
        BY <2>1, <3>2, <4>1, <4>2, PartOfBytes
      <4> QED  BY <3>3, <4>1, <4>3
    <3>5. Len(buffer) \in Nat /\ Len(buffer') \in Nat
      BY <2>1, <3>4, LenProperties DEF ByteSeq
    <3>6. streams \in 1 .. MaxStreams /\ Len(buffer) <= MaxBuffered
      BY <1>2 DEF BufferIsBounded
    <3>7. Len(buffer') <= MaxBuffered
      BY <1>0, <3>4, <3>5, <3>6
    <3> QED  BY <3>2, <3>6, <3>7 DEF BufferIsBounded
  <2>4. CASE SendFrame \/ RejectFrame \/ ReconnectStream \/ UNCHANGED frameVars
    BY <1>0, <1>2, <2>4, FrameAssumption
    DEF SendFrame, RejectFrame, ReconnectStream, BufferAfterClose, NoBytes, frameVars,
        BufferIsBounded, MaxBuffered
  <2> QED  BY <1>2, <2>2, <2>3, <2>4 DEF FrameNext
<1>3. FramesInv /\ BufferIsBounded => FrameTypeOK
  BY DEF FramesInv, BufferIsBounded, ByteSeq, FrameTypeOK
<1> QED  BY <1>1, <1>2, <1>3, FramesBegin

--------------------------------------------------------------------------------
(***************************************************************************)
(* The live feed: what FeedInv says of the nodes, with the connection and  *)
(* where its threads are.                                                  *)
(***************************************************************************)

FeedPlacesTyped ==
  /\ feedMode \in { "paper", "live" }
  /\ socket \in { "none", "alive", "dead" }
  /\ outages \in 0 .. MaxOutages
  /\ netAt \in { "off", "poll", "parse", "closing", "lost", "told" }
  /\ mainAt \in { "setup", "shared", "announced", "connecting", "wiring", "push",
                  "check", "restore", "announce", "drain", "collect", "take",
                  "degrading", "stopping", "ended" }
  /\ worker \in { "none", "asleep", "reported", "looping", "finished" }

FeedFlags ==
  /\ endpointUp \in BOOLEAN /\ wsUp \in BOOLEAN /\ retryArmed \in BOOLEAN
  /\ adapterUp \in BOOLEAN /\ halted \in BOOLEAN

\* A report leaves a flag.
LEMMA IntegrityIsFlag ==
  ASSUME FeedFlags, Integrity(TRUE) \/ Integrity(FALSE) PROVE halted' \in BOOLEAN
<1>1. halted' = halted \/ halted' = ~TRUE \/ halted' = ~FALSE
  BY Zenon DEF Integrity
<1> QED  BY <1>1, Zenon DEF FeedFlags

\* The flags of the connection, whoever sets them.
LEMMA FeedFlagsStay ==
  /\ FeedInit => FeedFlags
  /\ FeedFlags /\ [FeedNext]_feedVars => FeedFlags'
<1>1. FeedInit => FeedFlags
  BY Zenon DEF FeedInit, FeedFlags
<1>2. ASSUME FeedFlags, [FeedNext]_feedVars PROVE FeedFlags'
  <2>1. CASE Outage \/ EndpointReturns \/ SimulateDisconnect
    BY <1>2, <2>1, Zenon
    DEF Outage, EndpointReturns, SimulateDisconnect, flagVars, FeedFlags
  <2>2. CASE \/ ReceiveTick \/ HandOver \/ LoseConnection \/ TellAdapter
             \/ LoseUnannounced \/ CloseUnannounced
    BY <1>2, <2>2, Zenon
    DEF ReceiveTick, HandOver, LoseConnection, LoseUnannounced, CloseUnannounced,
        TellAdapter, CloseSocket, linkVars, flagVars, FeedFlags
  <2>3. CASE TellRisk \/ Retry
    <3>1. halted' \in BOOLEAN
      BY <1>2, <2>3, IntegrityIsFlag, Zenon DEF TellRisk, Retry, flagVars, FeedFlags
    <3> QED
      BY <1>2, <2>3, <3>1, Zenon
      DEF TellRisk, Retry, ScheduleReconnect, ShareDescriptorOf, SetConnected, ClearRetry,
          flagVars, FeedFlags
  <2>4. CASE Connect \/ AnnounceFirst \/ ClearFirstRetry
    BY <1>2, <2>4, Zenon
    DEF Connect, AnnounceFirst, ClearFirstRetry, ShareDescriptorOf, SetConnected, ClearRetry,
        flagVars, FeedFlags
  <2>5. CASE Established \/ WireRiskEngine \/ PushCandle \/ CheckLink \/ RestoreLink
             \/ Drain \/ Collect \/ TakeCandle \/ JoinWorker
    BY <1>2, <2>5, Zenon
    DEF Established, WireRiskEngine, PushCandle, CheckLink, RestoreLink, Drain, Collect,
        TakeCandle, JoinWorker, linkVars, flagVars, FeedFlags
  <2>6. CASE AnnounceLink \/ ReportDegraded
    <3>1. halted' \in BOOLEAN
      BY <1>2, <2>6, IntegrityIsFlag, Zenon DEF AnnounceLink, ReportDegraded
    <3> QED
      BY <1>2, <2>6, <3>1, Zenon DEF AnnounceLink, ReportDegraded, linkVars, FeedFlags
  <2>7. CASE WorkerReports
    <3>1. halted' \in BOOLEAN
      BY <1>2, <2>7, IntegrityIsFlag, Zenon DEF WorkerReports
    <3> QED  BY <1>2, <2>7, <3>1, Zenon DEF WorkerReports, linkVars, FeedFlags
  <2>8. CASE Disconnect \/ WorkerReconnects \/ WorkerLoops \/ UNCHANGED feedVars
    BY <1>2, <2>8, Zenon
    DEF Disconnect, ClientStopped, CloseSocket, WorkerReconnects, WorkerLoops, feedVars, linkVars,
        flagVars, FeedFlags
  <2> QED
    BY <1>2, <2>1, <2>2, <2>3, <2>4, <2>5, <2>6, <2>7, <2>8
    DEF FeedNext, NetworkStep, MainStep, WorkerStep
<1> QED  BY <1>1, <1>2

\* Where the threads of the feed are.
LEMMA FeedTyped ==
  /\ FeedInit => FeedPlacesTyped
  /\ FeedPlacesTyped /\ [FeedNext]_feedVars => FeedPlacesTyped'
  /\ FeedInv /\ FeedPlacesTyped /\ FeedFlags => FeedTypeOK
<1>1. FeedInit => FeedPlacesTyped
  BY FeedAssumption DEF FeedInit, FeedPlacesTyped
<1>2. ASSUME FeedPlacesTyped, [FeedNext]_feedVars PROVE FeedPlacesTyped'
  <2>1. CASE Outage \/ EndpointReturns \/ SimulateDisconnect
    <3>1. /\ socket' \in { socket, "dead" } /\ UNCHANGED <<feedMode, netAt, worker>>
          /\ mainAt' \in { mainAt, "degrading" }
          /\ \/ outages' = outages
             \/ outages < MaxOutages /\ outages' = outages + 1
      BY <2>1, Zenon DEF Outage, EndpointReturns, SimulateDisconnect
    <3> QED  BY <1>2, <3>1, FeedAssumption DEF FeedPlacesTyped
  <2>2. CASE NetworkStep
    BY <1>2, <2>2
    DEF NetworkStep, ReceiveTick, HandOver, LoseConnection, LoseUnannounced,
        CloseUnannounced, TellAdapter, TellRisk, Retry, CloseSocket, ShareDescriptorOf,
        linkVars, FeedPlacesTyped
  <2>3. CASE \/ Connect \/ AnnounceFirst \/ ClearFirstRetry \/ Established
             \/ WireRiskEngine \/ Disconnect \/ JoinWorker
    BY <1>2, <2>3
    DEF Connect, AnnounceFirst, ClearFirstRetry, Established, WireRiskEngine, Disconnect,
        JoinWorker, ShareDescriptorOf, ClientStarted, ClientStopped, CloseSocket, linkVars,
        FeedPlacesTyped
  <2>4. CASE PushCandle \/ CheckLink \/ RestoreLink \/ AnnounceLink \/ ReportDegraded
    BY <1>2, <2>4
    DEF PushCandle, CheckLink, RestoreLink, AnnounceLink, ReportDegraded, linkVars,
        FeedPlacesTyped
  <2>5. CASE Drain \/ Collect \/ TakeCandle
    BY <1>2, <2>5 DEF Drain, Collect, TakeCandle, linkVars, FeedPlacesTyped
  <2>6. CASE WorkerStep \/ UNCHANGED feedVars
    BY <1>2, <2>6
    DEF WorkerStep, WorkerReconnects, WorkerReports, WorkerLoops, feedVars, linkVars,
        FeedPlacesTyped
  <2> QED
    BY <1>2, <2>1, <2>2, <2>3, <2>4, <2>5, <2>6 DEF FeedNext, MainStep
<1>3. ASSUME FeedInv, FeedPlacesTyped, FeedFlags PROVE FeedTypeOK
  <2>1. { endpointUp, wsUp, retryArmed, adapterUp, halted } \subseteq BOOLEAN
    BY <1>3, FiveMembers, Zenon DEF FeedFlags
  <2>2. /\ netFree \in SUBSET NetNodes /\ netHeld \in SUBSET NetNodes
        /\ recycle \in SUBSET NetNodes /\ localFree \in SUBSET LocalNodes
        /\ ingress \in Seq(NetNodes) /\ queue \in Seq(Nodes)
    BY <1>3 DEF FeedInv, NodesTyped
  <2>3. ToSet(ingress) \in SUBSET NetNodes
    BY <2>2, ElementOfSeq DEF ToSet
  <2> HIDE DEF FeedFlags
  <2> QED  BY <1>3, <2>1, <2>2, <2>3 DEF FeedPlacesTyped, FeedTypeOK, Nodes
<1> QED  BY <1>1, <1>2, <1>3

--------------------------------------------------------------------------------
(***************************************************************************)
(* The backtest, also when the files are not in order.                     *)
(***************************************************************************)

\* The candle whose checkpoint is written still waits in its stream.
RunTypes ==
  /\ BTypes /\ lastCheckpoint \in [ Streams -> 0 .. LatestInstant ]
  /\ current \in Candles \cup { NoCandle } /\ launches \in 0 .. MaxLaunches
  /\ stage \in { "writing", "renaming" } => current \in Heap

RunFlags == powerLost \in BOOLEAN /\ saved \in BOOLEAN

\* The two flags of the backtest.
LEMMA RunFlagsStay ==
  /\ BacktestInit => RunFlags
  /\ RunFlags /\ [BacktestNext]_backtestVars => RunFlags'
<1>1. BacktestInit => RunFlags
  BY Zenon DEF BacktestInit, RunFlags
<1>2. ASSUME RunFlags, [BacktestNext]_backtestVars PROVE RunFlags'
  <2>1. CASE StartFresh \/ StartResumed \/ (\E c \in Candles : WarmUp(c) \/ ProcessCandle(c))
             \/ WriteTemporary \/ CheckpointFails \/ Finish
    BY <1>2, <2>1, Zenon
    DEF StartFresh, StartResumed, WarmUp, ProcessCandle, WriteTemporary,
        CheckpointFails, Finish, fileVars, RunFlags
  <2>2. CASE ReplaceSnapshot \/ Die \/ UNCHANGED backtestVars
    BY <1>2, <2>2, Zenon DEF ReplaceSnapshot, Die, backtestVars, fileVars, RunFlags
  <2> QED  BY <1>2, <2>1, <2>2 DEF BacktestNext
<1> QED  BY <1>1, <1>2

\* Taking what waits in a stream goes on to the next row, or to the end.
LEMMA NextRowInRange ==
  ASSUME BTypes, NEW c \in Heap, NextRow(c)
  PROVE  cursor' \in [ Streams -> 1 .. Rows + 1 ]
<1>1. c \in Candles /\ c[2] = cursor[c[1]]
  BY HeapRow
<1>2. c[1] \in Streams /\ c[2] \in 1 .. Rows
  BY <1>1, CandleParts
<1>3. cursor' = [ cursor EXCEPT ![c[1]] = c[2] + 1 ]
  BY <1>1, <1>2 DEF NextRow, BTypes
<1>4. c[2] + 1 \in 1 .. Rows + 1
  BY <1>2, BacktestAssumption
<1> QED  BY <1>2, <1>3, <1>4 DEF BTypes

\* A run starts at the first rows, from some memory.
LEMMA ConstructedIsTyped ==
  ASSUME RunTypes, Idle, launches' = launches + 1, UNCHANGED <<instants, fileVars>>,
         NEW m \in Memory, NEW ts \in NotResuming .. LatestInstant, Constructed(ts, m)
  PROVE  RunTypes'
<1>1. launches' \in 0 .. MaxLaunches
  BY BacktestAssumption DEF RunTypes, Idle
<1>2. /\ cursor' \in [ Streams -> 1 .. Rows + 1 ]
      /\ lastCheckpoint' \in [ Streams -> 0 .. LatestInstant ]
  BY BacktestAssumption DEF Constructed
<1>3. BTypes'
  BY <1>2 DEF RunTypes, BTypes, Constructed, fileVars, Ordered
<1> QED  BY <1>1, <1>2, <1>3 DEF RunTypes, Constructed

\* The backtest's types, whatever the order of its input.
LEMMA BacktestTyped ==
  /\ BacktestInit => RunTypes
  /\ RunTypes /\ [BacktestNext]_backtestVars => RunTypes'
  /\ RunTypes /\ RunFlags => BacktestTypeOK
<1>1. ASSUME BacktestInit PROVE RunTypes
  <2>1. FreshMemory \in Memory
    BY DEF FreshMemory, Unread, Memory
  <2>2. BTypes
    BY <1>1, <2>1, BacktestAssumption DEF BacktestInit, BTypes, NotResuming, File
  <2> QED  BY <1>1, <2>2, BacktestAssumption DEF BacktestInit, RunTypes
<1>2. ASSUME RunTypes, [BacktestNext]_backtestVars PROVE RunTypes'
  <2> USE DEF RunTypes
  <2>1. CASE StartFresh
    <3>1. FreshMemory \in Memory /\ NotResuming \in NotResuming .. LatestInstant
      BY BacktestAssumption DEF FreshMemory, Unread, Memory, NotResuming
    <3> QED  BY <1>2, <2>1, <3>1, ConstructedIsTyped DEF StartFresh
  <2>2. CASE StartResumed
    <3>1. CASE Loadable(snapshot) /\ Constructed(snapshot.ts, Restored(snapshot))
      <4>1. snapshot.ts \in 0 .. LatestInstant /\ snapshot.payload \in Memory
        BY <1>2, <3>1 DEF BTypes, File, Loadable, NoFile, TornFile
      <4>2. Restored(snapshot) \in Memory
        BY <4>1 DEF Restored, Memory
      <4>3. snapshot.ts \in NotResuming .. LatestInstant
        BY <4>1, BacktestAssumption DEF NotResuming
      <4> QED  BY <1>2, <2>2, <3>1, <4>2, <4>3, ConstructedIsTyped DEF StartResumed
    <3>2. CASE stage' = "down" /\ UNCHANGED <<resumeTs, cursor, lastCheckpoint, memory, current>>
      <4>1. launches' \in 0 .. MaxLaunches
        BY <1>2, <2>2, BacktestAssumption DEF StartResumed, Idle
      <4> QED  BY <1>2, <2>2, <3>2, <4>1 DEF StartResumed, BTypes, fileVars, Ordered
    <3> QED  BY <2>2, <3>1, <3>2 DEF StartResumed
  <2>3. ASSUME NEW c \in Candles, WarmUp(c) PROVE RunTypes'
    <3>1. cursor' \in [ Streams -> 1 .. Rows + 1 ]
      BY <1>2, <2>3, NextRowInRange DEF WarmUp, Earliest
    <3> QED  BY <1>2, <2>3, <3>1 DEF WarmUp, BTypes, fileVars, Ordered
  <2>4. ASSUME NEW c \in Candles, ProcessCandle(c) PROVE RunTypes'
    <3>1. memory' \in Memory
      <4>1. memory \in Memory /\ memory' = Absorbed(c)
        BY <1>2, <2>4 DEF ProcessCandle, BTypes
      <4>2. memory' = [ portfolio |-> [ memory.portfolio EXCEPT ![c] = @ + 1 ],
                        risk |-> [ memory.risk EXCEPT ![c] = @ + 1 ],
                        regime |-> [ memory.regime EXCEPT ![c] = @ + 1 ],
                        cuts |-> memory.cuts ]
        BY <4>1 DEF Absorbed, Memory
      <4>3. /\ [ memory.portfolio EXCEPT ![c] = @ + 1 ] \in [ Candles -> Nat ]
            /\ [ memory.risk EXCEPT ![c] = @ + 1 ] \in [ Candles -> Nat ]
            /\ [ memory.regime EXCEPT ![c] = @ + 1 ] \in [ Candles -> Nat ]
            /\ memory.cuts \in SUBSET (0 .. LatestInstant)
        BY <4>1 DEF Memory
      <4> QED  BY <4>2, <4>3 DEF Memory
    <3>2. c \in Heap /\ instants[c] \in 0 .. LatestInstant
      BY <1>2, <2>4 DEF ProcessCandle, Earliest, BTypes
    <3>3. CASE stage' = "writing" /\ current' = c /\ UNCHANGED <<cursor, lastCheckpoint>>
      BY <1>2, <2>4, <3>1, <3>2, <3>3 DEF ProcessCandle, BTypes, fileVars, Heap, Ordered
    <3>4. CASE /\ NextRow(c) /\ UNCHANGED <<stage, current>>
               /\ lastCheckpoint' = IF lastCheckpoint[c[1]] # 0 THEN lastCheckpoint
                                    ELSE [ lastCheckpoint EXCEPT ![c[1]] = instants[c] ]
      <4>1. cursor' \in [ Streams -> 1 .. Rows + 1 ]
        BY <1>2, <3>2, <3>4, NextRowInRange
      <4>2. lastCheckpoint' \in [ Streams -> 0 .. LatestInstant ]
        BY <1>2, <3>2, <3>4
      <4> QED
        BY <1>2, <2>4, <3>1, <3>4, <4>1, <4>2 DEF ProcessCandle, BTypes, fileVars, Ordered
    <3> QED  BY <2>4, <3>3, <3>4 DEF ProcessCandle
  <2>5. CASE ReplaceSnapshot
    <3>1. current \in Heap /\ current \in Candles /\ current[1] \in Streams
      BY <1>2, <2>5, HeapRow, CandleParts DEF ReplaceSnapshot
    <3>2. instants[current] \in 0 .. LatestInstant
      BY <1>2, <3>1 DEF BTypes
    <3>3. Encoded(instants[current], memory) \in File
      BY <1>2, <3>2
      DEF Encoded, Payload, PortfolioPart, RiskPart, RegimePart, File, BTypes, Memory
    <3>4. cursor' \in [ Streams -> 1 .. Rows + 1 ]
      BY <1>2, <2>5, <3>1, NextRowInRange DEF ReplaceSnapshot
    <3>5. lastCheckpoint' \in [ Streams -> 0 .. LatestInstant ]
      BY <1>2, <2>5, <3>2 DEF ReplaceSnapshot
    <3> QED  BY <1>2, <2>5, <3>3, <3>4, <3>5 DEF ReplaceSnapshot, BTypes, Ordered
  <2>6. CASE WriteTemporary
    BY <1>2, <2>6 DEF WriteTemporary, BTypes, Heap, fileVars, Ordered
  <2>7. CASE CheckpointFails \/ Finish \/ Die
    BY <1>2, <2>7 DEF CheckpointFails, Finish, Die, BTypes, File, fileVars, Ordered
  <2>8. CASE UNCHANGED backtestVars
    BY <1>2, <2>8 DEF backtestVars, mainVars, fileVars, BTypes, Heap, Ordered
  <2> QED
    BY <1>2, <2>1, <2>2, <2>3, <2>4, <2>5, <2>6, <2>7, <2>8 DEF BacktestNext
<1>3. ASSUME RunTypes, RunFlags PROVE BacktestTypeOK
  <2>1. powerLost \in BOOLEAN /\ saved \in BOOLEAN
    BY <1>3 DEF RunFlags
  <2> QED  BY <1>3, <2>1 DEF RunTypes, BTypes, BacktestTypeOK
<1> QED  BY <1>1, <1>2, <1>3

--------------------------------------------------------------------------------
(***************************************************************************)
(* The offline replay.  How much it says of a run does not depend on the   *)
(* candles it replays.                                                     *)
(***************************************************************************)

ReplayFlags == cancelled \in BOOLEAN /\ overdue \in BOOLEAN

\* The two flags that end a replay early.
LEMMA ReplayFlagsStay ==
  /\ ReplayInit => ReplayFlags
  /\ ReplayFlags /\ [ReplayNext]_replayVars => ReplayFlags'
<1>1. ReplayInit => ReplayFlags
  BY Zenon DEF ReplayInit, ReplayFlags
<1>2. ASSUME ReplayFlags, [ReplayNext]_replayVars PROVE ReplayFlags'
  <2>1. CASE LaunchRefused \/ LaunchReplay
    BY <1>2, <2>1, Zenon DEF LaunchRefused, LaunchReplay, NewReplay, ReplayFlags
  <2>2. CASE CheckManifest \/ ReplayLine \/ EndOfInput \/ ReplayThrows
             \/ RequestCancellation \/ RunsOverTime
    BY <1>2, <2>2, Zenon
    DEF CheckManifest, ReplayLine, EndOfInput, ReplayThrows, RequestCancellation,
        RunsOverTime, ReplayFlags
  <2>3. CASE CreateDirectory \/ CreateTemporary \/ WritePiece \/ SyncFile \/ RenameFile
             \/ SyncDirectory
    BY <1>2, <2>3, Zenon
    DEF CreateDirectory, CreateTemporary, WritePiece, SyncFile, RenameFile,
        SyncDirectory, WriteStep, ReplayFlags
  <2>4. CASE WriteFails \/ ReplayKilled \/ PowerFails \/ UNCHANGED replayVars
    BY <1>2, <2>4, Zenon
    DEF WriteFails, ReplayKilled, PowerFails, Forgotten, replayVars, ReplayFlags
  <2> QED  BY <1>2, <2>1, <2>2, <2>3, <2>4 DEF ReplayNext
<1> QED  BY <1>1, <1>2

\* A result is said of this run, and of those whose files there are.
ReplayResults ==
  /\ replays \in 0 .. MaxReplays /\ exitCode \in { 0, 1, 2, 3, NoExit }
  /\ terminal \in Results /\ Len(events) <= 6
  /\ evidence.partial.terminal \in Results /\ evidence.result.terminal \in Results

\* The end of a run adds two events at most.
LEMMA FinishingSays ==
  ASSUME NEW before \in Seq(Words), Len(before) <= 4, NEW t \in Results,
         FinishReplay(before, t)
  PROVE  terminal' \in Results /\ Len(events') <= 6
<1>1. "EvidenceIncomplete" \in Results
  BY DEF Results
<1>2. \/ terminal' = t /\ events' = Append(before, TerminalCode(t))
      \/ /\ terminal' = "EvidenceIncomplete"
         /\ events' = before \o << TerminalCode(t), "EvidenceIncomplete" >>
  BY DEF FinishReplay
<1>3. TerminalCode(t) \in Words /\ "EvidenceIncomplete" \in Words
  BY <1>1 DEF TerminalCode, Words
<1>4. << TerminalCode(t), "EvidenceIncomplete" >> \in Seq(Words)
  BY <1>3
<1>5. Len(before \o << TerminalCode(t), "EvidenceIncomplete" >>) = Len(before) + 2
  BY <1>4, ConcatProperties
<1>6. Len(Append(before, TerminalCode(t))) = Len(before) + 1 /\ Len(before) \in Nat
  BY <1>3
<1> QED  BY <1>1, <1>2, <1>5, <1>6

\* A sequence grows by what is appended to it.
LEMMA OneMoreWord ==
  ASSUME NEW W, NEW said \in Seq(W), NEW w \in W
  PROVE  Append(said, w) \in Seq(W) /\ Len(Append(said, w)) = Len(said) + 1
BY AppendProperties

\* The results a replay and its evidence may say, and the types.
LEMMA ReplayTyped ==
  /\ ReplayInit => ReplayInv /\ ReplayResults
  /\ ReplayInv /\ ReplayResults /\ [ReplayNext]_replayVars => ReplayResults'
  /\ ReplayInv /\ ReplayResults /\ ReplayFlags => ReplayTypeOK
<1>1. ASSUME ReplayInit PROVE ReplayResults
  <2>1. /\ replays = 0 /\ exitCode = NoExit /\ terminal = "none" /\ events = <<>>
        /\ evidence = NoDirectory
    BY <1>1 DEF ReplayInit
  <2>2. Len(events) = 0 /\ 0 \in 0 .. MaxReplays
    BY <2>1, ReplayAssumption
  <2> QED  BY <2>1, <2>2 DEF ReplayResults, NoDirectory, Nothing, Results
<1>2. ASSUME ReplayInv, ReplayResults, [ReplayNext]_replayVars PROVE ReplayResults'
  <2> USE DEF ReplayResults
  <2>1. CASE LaunchRefused \/ LaunchReplay
    <3>1. /\ replays' = replays + 1 /\ replays < MaxReplays /\ terminal' = "none"
          /\ events' = <<>> /\ evidence' = evidence /\ exitCode' \in { 2, NoExit }
      BY <2>1 DEF LaunchRefused, LaunchReplay, NewReplay
    <3>2. Len(events') = 0 /\ "none" \in Results
      BY <3>1 DEF Results
    <3> QED  BY <1>2, <3>1, <3>2, ReplayAssumption
  <2>2. ASSUME NEW before \in Seq(Words), Len(before) <= 4, NEW t \in Results,
               FinishReplay(before, t), UNCHANGED <<replays, evidence, exitCode>>
        PROVE  ReplayResults'
    BY <1>2, <2>2, FinishingSays
  <2>3. CASE CheckManifest
    <3>1. /\ <<>> \in Seq(Words) /\ << "ManifestAccepted" >> \in Seq(Words)
          /\ << "ManifestAccepted", "InputAccepted" >> \in Seq(Words)
          /\ << "ManifestAccepted", "InputAccepted", "ReplayStarted" >> \in Seq(Words)
      BY DEF Words
    <3>2. /\ Len(<<>>) <= 4 /\ Len(<< "ManifestAccepted" >>) <= 4
          /\ Len(<< "ManifestAccepted", "InputAccepted" >>) <= 4
          /\ Len(<< "ManifestAccepted", "InputAccepted", "ReplayStarted" >>) <= 4
          /\ Len(<< "ManifestAccepted", "InputAccepted", "ReplayStarted" >>) <= 6
      OBVIOUS
    <3>3. { "ManifestRejected", "EvidenceIncomplete", "InputRejected" } \subseteq Results
      BY DEF Results
    <3>4. \/ \E before \in Seq(Words), t \in Results :
               Len(before) <= 4 /\ FinishReplay(before, t)
          \/ /\ terminal' = terminal
             /\ events' = << "ManifestAccepted", "InputAccepted", "ReplayStarted" >>
      BY <2>3, <3>1, <3>2, <3>3, Zenon DEF CheckManifest
    <3>5. UNCHANGED <<replays, evidence, exitCode>>
      BY <2>3, Zenon DEF CheckManifest
    <3> QED  BY <1>2, <2>2, <3>2, <3>4, <3>5
  <2>4. CASE ReplayLine \/ EndOfInput \/ ReplayThrows
    <3>1. UNCHANGED <<replays, evidence, exitCode>>
      BY <2>4, Zenon DEF ReplayLine, EndOfInput, ReplayThrows
    <3>2. replayAt = "replaying" =>
            /\ events \in Seq(Words) /\ Len(events) = 3
            /\ Append(events, "ReplayProgress") \in Seq(Words)
            /\ Len(Append(events, "ReplayProgress")) = 4
      <4>1. replayAt = "replaying" => events = Started
        BY <1>2 DEF ReplayInv, Said
      <4>2. Started \in Seq(Words) /\ Len(Started) = 3 /\ "ReplayProgress" \in Words
        BY DEF Started, Words
      <4>3. /\ Append(Started, "ReplayProgress") \in Seq(Words)
            /\ Len(Append(Started, "ReplayProgress")) = Len(Started) + 1
        BY <4>2, OneMoreWord
      <4> QED  BY <4>1, <4>2, <4>3
    <3>3. <<>> \in Seq(Words) /\ Len(<<>>) <= 4
      OBVIOUS
    <3>4. { "Cancelled", "TimedOut", "ResourceExhausted", "InputRejected", "Completed",
            "EvidenceIncomplete", "InternalFailure" } \subseteq Results
      BY DEF Results
    <3>5. CASE ReplayLine
      <4>1. \/ \E t \in Results : FinishReplay(events, t)
            \/ UNCHANGED <<events, terminal>>
        BY <3>4, <3>5, Zenon DEF ReplayLine
      <4>2. replayAt = "replaying"
        BY <3>5 DEF ReplayLine
      <4> QED  BY <1>2, <2>2, <3>1, <3>2, <4>1, <4>2
    <3>6. CASE EndOfInput
      <4>1. \E before \in { events, Append(events, "ReplayProgress") }, t \in Results :
              FinishReplay(before, t)
        BY <3>4, <3>6, Zenon DEF EndOfInput
      <4>2. replayAt = "replaying"
        BY <3>6 DEF EndOfInput
      <4> QED  BY <2>2, <3>1, <3>2, <4>1, <4>2
    <3>7. CASE ReplayThrows
      BY <2>2, <3>1, <3>3, <3>4, <3>7 DEF ReplayThrows
    <3> QED  BY <2>4, <3>5, <3>6, <3>7
  <2>5. CASE CreateDirectory \/ CreateTemporary \/ WritePiece \/ SyncFile \/ RenameFile
             \/ SyncDirectory
    <3>1. evidence \in Directories
      BY <1>2 DEF ReplayInv, ReplayTypes
    <3>2. UNCHANGED <<replays, terminal, events>> /\ exitCode' \in { 0, 1, exitCode }
      BY <2>5
      DEF CreateDirectory, CreateTemporary, WritePiece, SyncFile, RenameFile,
          SyncDirectory, WriteStep
    <3>3. /\ evidence'.partial.terminal \in { "none", terminal, evidence.partial.terminal }
          /\ evidence'.result.terminal \in
               { "none", evidence.partial.terminal, evidence.result.terminal }
      <4>1. CASE CreateDirectory
        <5>1. evidence' = [ NoDirectory EXCEPT !.exists = TRUE ]
          BY <4>1 DEF CreateDirectory
        <5> QED  BY <5>1 DEF NoDirectory, Nothing
      <4>2. CASE CreateTemporary
        <5>1. evidence' = [ evidence EXCEPT !.partial = Serialized ]
          BY <4>2 DEF CreateTemporary
        <5> QED  BY <3>1, <5>1 DEF Serialized, Directories
      <4>3. CASE WritePiece
        <5>1. evidence' = [ evidence EXCEPT !.partial.written = @ + 1 ]
          BY <4>3 DEF WritePiece
        <5> QED  BY <3>1, <5>1 DEF Directories, Files
      <4>4. CASE SyncFile \/ SyncDirectory
        <5>1. \/ evidence' = [ evidence EXCEPT !.synced = TRUE ]
              \/ evidence' = [ evidence EXCEPT !.renamed = TRUE ]
          BY <4>4 DEF SyncFile, SyncDirectory
        <5> QED  BY <3>1, <5>1 DEF Directories
      <4>5. CASE RenameFile
        <5>1. evidence' = [ evidence EXCEPT !.result = evidence.partial,
                                            !.partial = Nothing ]
          BY <4>5 DEF RenameFile
        <5> QED  BY <3>1, <5>1 DEF Directories, Nothing
      <4> QED  BY <2>5, <4>1, <4>2, <4>3, <4>4, <4>5
    <3> QED  BY <1>2, <3>2, <3>3 DEF Results
  <2>6. CASE WriteFails \/ ReplayKilled
    <3>1. /\ UNCHANGED <<replays, evidence>> /\ terminal' = "none" /\ events' = <<>>
          /\ exitCode' \in { 3, exitCode }
      BY <2>6 DEF WriteFails, ReplayKilled, Forgotten
    <3>2. Len(events') = 0 /\ "none" \in Results
      BY <3>1 DEF Results
    <3> QED  BY <1>2, <3>1, <3>2
  <2>7. CASE PowerFails
    <3>1. UNCHANGED <<replays, exitCode>> /\ terminal' = "none" /\ events' = <<>>
      BY <2>7 DEF PowerFails, Forgotten
    <3>2. Len(events') = 0 /\ "none" \in Results
      BY <3>1 DEF Results
    <3>3. evidence \in Directories
      BY <1>2 DEF ReplayInv, ReplayTypes
    <3>4. \A file \in Files : \A f \in Remains(file) : f.terminal = file.terminal
      BY DEF Remains, Files
    <3>5. /\ evidence'.partial.terminal \in
               { "none", evidence.result.terminal, evidence.partial.terminal }
          /\ evidence'.result.terminal \in { "none", evidence.result.terminal }
      <4>1. evidence.partial \in Files /\ evidence.result \in Files
        BY <3>3 DEF Directories
      <4>2. ASSUME NEW f \in Remains(evidence.result),
                   evidence' = [ evidence EXCEPT !.result = f ]
            PROVE  evidence'.partial.terminal = evidence.partial.terminal
                     /\ evidence'.result.terminal = evidence.result.terminal
        BY <3>3, <3>4, <4>1, <4>2 DEF Directories
      <4>3. ASSUME NEW f \in Remains(evidence.partial),
                   evidence' = [ evidence EXCEPT !.partial = f ]
            PROVE  evidence'.partial.terminal = evidence.partial.terminal
                     /\ evidence'.result.terminal = evidence.result.terminal
        BY <3>3, <3>4, <4>1, <4>3 DEF Directories
      <4>4. ASSUME evidence' = [ evidence EXCEPT !.partial = evidence.result,
                                                 !.result = Nothing ]
            PROVE  evidence'.partial.terminal = evidence.result.terminal
                     /\ evidence'.result.terminal = "none"
        BY <3>3, <4>4 DEF Directories, Nothing
      <4>5. \/ \E f \in Remains(evidence.result) :
                 evidence' = [ evidence EXCEPT !.result = f ]
            \/ \E f \in Remains(evidence.partial) :
                 evidence' = [ evidence EXCEPT !.partial = f ]
            \/ evidence' = [ evidence EXCEPT !.partial = evidence.result,
                                             !.result = Nothing ]
            \/ evidence' = NoDirectory
        BY <2>7 DEF PowerFails
      <4>6. ASSUME evidence' = NoDirectory
            PROVE  evidence'.partial.terminal = "none" /\ evidence'.result.terminal = "none"
        BY <4>6 DEF NoDirectory, Nothing
      <4> QED  BY <4>2, <4>3, <4>4, <4>5, <4>6
    <3> QED  BY <1>2, <3>1, <3>2, <3>5
  <2>8. CASE RequestCancellation \/ RunsOverTime \/ UNCHANGED replayVars
    BY <1>2, <2>8 DEF RequestCancellation, RunsOverTime, replayVars
  <2> QED
    BY <1>2, <2>1, <2>3, <2>4, <2>5, <2>6, <2>7, <2>8 DEF ReplayNext
<1>3. ASSUME ReplayInv, ReplayResults, ReplayFlags PROVE ReplayTypeOK
  <2>1. cancelled \in BOOLEAN /\ overdue \in BOOLEAN
    BY <1>3 DEF ReplayFlags
  <2>2. /\ replayAt \in { "down", "checking", "replaying" } \cup Writing
        /\ line \in 0 .. Len(manifest.input) /\ evidence \in Directories
    BY <1>3 DEF ReplayInv, ReplayTypes
  <2>3. evidence.partial.written \in 0 .. Pieces /\ evidence.result.written \in 0 .. Pieces
    BY <2>2 DEF Directories, Files
  <2> QED  BY <1>3, <2>1, <2>2, <2>3 DEF ReplayResults, ReplayTypeOK
<1> QED  BY <1>1, <1>2, <1>3, ReplayInvInit

--------------------------------------------------------------------------------
(***************************************************************************)
(* The demo runtime up to the order: what SignalInv says, with how far     *)
(* each thread is and when its evidence was received.                      *)
(***************************************************************************)

SignalPlaces ==
  /\ transport \in { "down", "up", "subscribed" }
  /\ recovery \in [ failed : 0 .. ReconnectAttempts - 1,
                    for : { "receive", "command" } ]
  /\ command \in { "none", "queued", "running" }
  /\ main \in { "starting", "first", "arming", "observing", "deciding",
                "commissioned", "stopped" }
  /\ history \in Minutes

SignalDates ==
  /\ market.bid \in DatedSources /\ market.ask \in DatedSources
  /\ reconciliation \in DatedSources

SignalFlags == rebuilt \in BOOLEAN /\ decidedOn.complete \in BOOLEAN

\* A recovery that has not begun, and a side without a quote.
LEMMA BlankIsTyped ==
  /\ NoRecovery \in [ failed : 0 .. ReconnectAttempts - 1, for : { "receive", "command" } ]
  /\ NoSide \in DatedSources
  /\ EmptyMarket.bid \in DatedSources /\ EmptyMarket.ask \in DatedSources
<1>1. NoSide \in DatedSources
  BY SignalAssumption DEF NoSide, DatedSources
<1> QED  BY <1>1, SignalAssumption DEF NoRecovery, EmptyMarket

\* However a session ends or tries again.
LEMMA EndingIsTyped ==
  ASSUME SignalPlaces, SignalDates, SignalFlags, UNCHANGED history, NEW received,
         received.bid \in DatedSources, received.ask \in DatedSources,
         EndSession(received) \/ NextAttempt(received) \/ Stop
  PROVE  SignalPlaces' /\ SignalDates' /\ SignalFlags'
<1>1. CASE Stop
  <2>1. /\ market' = EmptyMarket /\ reconciliation' = NoSide /\ UNCHANGED decidedOn
        /\ rebuilt' = FALSE
    BY <1>1, Zenon DEF Stop, DisconnectGateway, NotReconciled
  <2>2. SignalPlaces'
    BY <1>1, BlankIsTyped DEF Stop, DisconnectGateway, SignalPlaces
  <2>3. SignalFlags'
    BY <2>1, Zenon DEF SignalFlags
  <2> QED  BY <2>1, <2>2, <2>3, BlankIsTyped DEF SignalDates
<1>2. CASE ~Stop
  <2>1. UNCHANGED <<rebuilt, decidedOn, main, reconciliation, command>>
    BY <1>2, Zenon DEF EndSession, NextAttempt, CommandFails, runVars
  <2>2. /\ market' = received /\ transport' \in { "down", transport }
        /\ \/ recovery' = NoRecovery
           \/ /\ recovery' = [ recovery EXCEPT !.failed = @ + 1 ]
              /\ recovery.failed + 1 < ReconnectAttempts
    BY <1>2 DEF EndSession, NextAttempt, CommandFails
  <2>3. SignalPlaces'
    BY <2>1, <2>2, BlankIsTyped, SignalAssumption DEF SignalPlaces
  <2>4. SignalFlags'
    BY <2>1, Zenon DEF SignalFlags
  <2> QED  BY <2>1, <2>2, <2>3, <2>4 DEF SignalDates
<1> QED  BY <1>1, <1>2

\* The sides a spot event leaves are dated, now or before.
LEMMA AppliedSides ==
  ASSUME SignalInv, SignalDates, Receives, NEW update \in SpotUpdates
  PROVE  /\ Apply(update).market.bid \in DatedSources
         /\ Apply(update).market.ask \in DatedSources
<1> DEFINE bid == IF update.bid THEN Dated(update.at) ELSE market.bid
           ask == IF update.ask THEN Dated(update.at) ELSE market.ask
           c == /\ ~Missing(bid) /\ ~Missing(ask)
                /\ IF update.bid \/ update.ask THEN update.crosses ELSE market.crossed
           state == StoreQuotes(market, update)
<1>1. bid \in DatedSources /\ ask \in DatedSources
  <2>1. update.at \in { 0, clock } /\ clock \in 1 .. MaxClock
    BY DEF SpotUpdates, SignalInv, SignalTypes
  <2>2. Dated(update.at) \in DatedSources
    BY <2>1, SignalAssumption DEF Dated, DatedSources
  <2> QED  BY <2>2 DEF SignalDates
<1>2. state = [ market EXCEPT !.bid = bid, !.ask = ask, !.crossed = c ]
  BY DEF StoreQuotes
<1>3. state \in Markets /\ market \in Markets
  BY QuotesStored DEF SignalInv, SignalTypes
<1> HIDE DEF bid, ask, c, state
<1>4. state.bid = bid /\ state.ask = ask
  BY <1>2, <1>3 DEF Markets
<1>5. \/ Apply(update) = Refused(state)
      \/ \E next \in { state, [ state EXCEPT !.bar = update.bar ],
                       NextBar(state, update.bar) } : Apply(update) = Applied(next)
  BY DEF Apply, ApplyBar, state
<1>6. \A next \in { state, [ state EXCEPT !.bar = update.bar ],
                    NextBar(state, update.bar) } :
        next.bid = state.bid /\ next.ask = state.ask
  BY <1>3 DEF NextBar, Markets
<1>7. Apply(update).market.bid = state.bid /\ Apply(update).market.ask = state.ask
  <2>1. Refused(state).market = state /\ \A next : Applied(next).market = next
    BY DEF Refused, Applied
  <2>2. CASE Apply(update) = Refused(state)
    BY <2>1, <2>2
  <2>3. ASSUME NEW next \in { state, [ state EXCEPT !.bar = update.bar ],
                              NextBar(state, update.bar) }, Apply(update) = Applied(next)
        PROVE  /\ Apply(update).market.bid = state.bid
               /\ Apply(update).market.ask = state.ask
    <3>1. Apply(update).market = next
      BY <2>1, <2>3
    <3> QED  BY <1>6, <3>1
  <2> QED  BY <1>5, <2>2, <2>3
<1> QED  BY <1>1, <1>4, <1>7

\* What the runtime starts with.
LEMMA SignalStartsTyped == SignalInit => SignalPlaces /\ SignalDates /\ SignalFlags
<1> SUFFICES ASSUME SignalInit PROVE SignalPlaces /\ SignalDates /\ SignalFlags
  OBVIOUS
<1>1. /\ transport = "up" /\ market = EmptyMarket /\ recovery = NoRecovery
      /\ reconciliation = NoSide /\ command = "none" /\ main = "starting" /\ history = 0
  BY DEF SignalInit, NotReconciled
<1>2. 0 \in Minutes
  <2>1. MaxClock \in Nat
    BY SignalAssumption
  <2>2. Minute(MaxClock) \in Nat
    BY <2>1, MinutesGrow
  <2> QED  BY <2>2 DEF Minutes
<1>3. SignalFlags
  <2>1. rebuilt = FALSE /\ decidedOn = [ complete |-> FALSE ]
    BY Zenon DEF SignalInit, NoContext
  <2>2. [ complete |-> FALSE ].complete = FALSE
    OBVIOUS
  <2> QED  BY <2>1, <2>2, Zenon DEF SignalFlags
<1> QED  BY <1>1, <1>2, <1>3, BlankIsTyped DEF SignalPlaces, SignalDates

\* The I/O thread answers a command.
LEMMA AnsweringIsTyped ==
  ASSUME SignalInv, SignalPlaces, SignalDates, SignalFlags, Answering,
         UNCHANGED <<marketVars, history>>
  PROVE  SignalPlaces' /\ SignalDates' /\ SignalFlags'
<1>0. clock \in 1 .. MaxClock
  BY DEF SignalInv, SignalTypes
<1>1. CASE TakeCommand \/ Reconciled
  <2>1. /\ UNCHANGED <<transport, market, recovery, main, decidedOn>>
        /\ command' \in { "running", command }
        /\ reconciliation' \in { reconciliation, Dated(clock) }
    BY <1>1 DEF TakeCommand, Reconciled, runVars
  <2>2. rebuilt' = FALSE \/ rebuilt' = rebuilt
    BY <1>1, Zenon DEF TakeCommand, Reconciled
  <2>3. Dated(clock) \in DatedSources
    BY <1>0, SignalAssumption DEF Dated, DatedSources
  <2>4. SignalPlaces' /\ SignalDates'
    BY <2>1, <2>3 DEF SignalPlaces, SignalDates
  <2>5. SignalFlags'
    BY <2>1, <2>2, Zenon DEF SignalFlags
  <2> QED  BY <2>4, <2>5
<1>2. CASE Arm \/ Commission
  <2>1. /\ transport' \in { transport, "down" } /\ command' = "none"
        /\ recovery' \in { recovery, NoRecovery } /\ main' \in { "observing", "commissioned" }
        /\ market' \in { market, EmptyMarket } /\ reconciliation' = NoSide
        /\ decidedOn' = RiskContext
    BY <1>2 DEF Arm, Commission, DisconnectGateway, NotReconciled
  <2>2. rebuilt' = FALSE
    BY <1>2, Zenon DEF Arm, Commission, DisconnectGateway
  <2>3. RiskContext.complete = TRUE
    BY DEF RiskContext
  <2>4. SignalFlags'
    BY <2>1, <2>2, <2>3, Zenon DEF SignalFlags
  <2>5. SignalPlaces' /\ SignalDates'
    BY <2>1, BlankIsTyped DEF SignalPlaces, SignalDates
  <2> QED  BY <2>4, <2>5
<1>3. CASE Stop
  <2>1. market.bid \in DatedSources /\ market.ask \in DatedSources
    BY DEF SignalDates
  <2> QED  BY <1>3, <2>1, EndingIsTyped
<1>4. CASE StartRecovery("command") /\ rebuilt' = TRUE
  <2>1. /\ UNCHANGED <<transport, market, reconciliation, command, main, decidedOn>>
        /\ recovery' = [ failed |-> 0, for |-> "command" ]
    BY <1>4 DEF StartRecovery, runVars
  <2>2. SignalPlaces' /\ SignalDates'
    BY <2>1, SignalAssumption DEF SignalPlaces, SignalDates
  <2>3. SignalFlags'
    BY <1>4, <2>1, Zenon DEF SignalFlags
  <2> QED  BY <2>2, <2>3
<1>5. QueryFails \/ QueryFindsLoss =>
        Stop \/ (StartRecovery("command") /\ rebuilt' = TRUE)
  BY Zenon DEF QueryFails, QueryFindsLoss, CommandFails
<1> QED  BY <1>1, <1>2, <1>3, <1>4, <1>5 DEF Answering

\* It replaces a lost connection.
LEMMA RecoveringIsTyped ==
  ASSUME SignalInv, SignalPlaces, SignalDates, SignalFlags, Recovering,
         UNCHANGED <<marketVars, history>>
  PROVE  SignalPlaces' /\ SignalDates' /\ SignalFlags'
<1>1. CASE RecoveryStepFails
  <2>1. market.bid \in DatedSources /\ market.ask \in DatedSources
    BY DEF SignalDates
  <2> QED  BY <1>1, <2>1, EndingIsTyped DEF RecoveryStepFails
<1>2. ASSUME LoopFindsLoss \/ Reconnect \/ Reload \/ Resubscribe \/ Confirm
      PROVE  SignalPlaces' /\ SignalDates' /\ SignalFlags'
  <2>1. /\ transport' \in { transport, "up", "subscribed" }
        /\ recovery' \in { recovery, NoRecovery, [ failed |-> 0, for |-> "receive" ] }
        /\ UNCHANGED <<command, main, decidedOn, history>>
    BY <1>2
    DEF LoopFindsLoss, StartRecovery, Reconnect, Reload, Resubscribe, Confirm, runVars
  <2>2. SignalPlaces'
    BY <2>1, BlankIsTyped, SignalAssumption DEF SignalPlaces
  <2>3. rebuilt' = rebuilt
    BY <1>2, Zenon DEF LoopFindsLoss, Reconnect, Reload, Resubscribe, Confirm
  <2>4. SignalFlags'
    BY <2>1, <2>3, Zenon DEF SignalFlags
  <2>5. \A dated \in DatedSources : Past(dated) \in DatedSources
    BY DEF Past, DatedSources
  <2>6. SignalDates'
    <3>1. market \in Markets
      BY DEF SignalInv, SignalTypes
    <3>2. CASE Reconnect
      <4>1. /\ market' = [ market EXCEPT !.bid = Past(market.bid), !.ask = Past(market.ask) ]
            /\ reconciliation' = Past(reconciliation)
        BY <3>2 DEF Reconnect
      <4>2. market'.bid = Past(market.bid) /\ market'.ask = Past(market.ask)
        BY <3>1, <4>1 DEF Markets
      <4> QED  BY <2>5, <4>1, <4>2 DEF SignalDates
    <3>3. CASE ~Reconnect
      <4>1. market' \in { market, EmptyMarket } /\ reconciliation' = reconciliation
        BY <1>2, <3>3
        DEF LoopFindsLoss, StartRecovery, Reload, ResetLiveGeneration, Resubscribe, Confirm
      <4> QED  BY <4>1, BlankIsTyped DEF SignalDates
    <3> QED  BY <3>2, <3>3
  <2> QED  BY <2>2, <2>4, <2>6
<1> QED  BY <1>1, <1>2 DEF Recovering

\* The main thread takes candles.
LEMMA MainIsTyped ==
  ASSUME SignalInv, SignalPlaces, SignalDates, SignalFlags, MainThread, UNCHANGED history
  PROVE  SignalPlaces' /\ SignalDates' /\ SignalFlags'
<1>1. CASE StopRun
  <2>1. market.bid \in DatedSources /\ market.ask \in DatedSources
    BY DEF SignalDates
  <2> QED  BY <1>1, <2>1, EndingIsTyped DEF StopRun
<1>2. ASSUME StartRun \/ AdvanceFirst \/ ObserveNothing \/ ObserveSignal
      PROVE  SignalPlaces' /\ SignalDates' /\ SignalFlags'
  <2>1. /\ transport' \in { transport, "down" } /\ recovery' \in { recovery, NoRecovery }
        /\ command' \in { command, "queued", "none" } /\ UNCHANGED decidedOn
        /\ main' \in { main, "first", "arming", "deciding", "stopped" }
        /\ reconciliation' \in { reconciliation, NoSide }
    BY <1>2
    DEF StartRun, AdvanceFirst, ObserveNothing, ObserveSignal, RequestContext,
        DisconnectGateway, NotReconciled, ioVars
  <2>2. rebuilt' = rebuilt \/ rebuilt' = FALSE
    BY <1>2, Zenon
    DEF StartRun, AdvanceFirst, ObserveNothing, ObserveSignal, RequestContext,
        DisconnectGateway, ioVars
  <2>3. market'.bid \in { market.bid, NoSide } /\ market'.ask \in { market.ask, NoSide }
    <3>1. market' = market \/ market' = EmptyMarket \/ TakenFromQueue
      BY <1>2
      DEF StartRun, AdvanceFirst, ObserveNothing, ObserveSignal, RequestContext,
          DisconnectGateway, ioVars
    <3>2. market \in Markets
      BY DEF SignalInv, SignalTypes
    <3> QED  BY <3>1, <3>2 DEF TakenFromQueue, Markets, EmptyMarket
  <2>4. SignalFlags'
    BY <2>1, <2>2, Zenon DEF SignalFlags
  <2> QED  BY <2>1, <2>3, <2>4, BlankIsTyped DEF SignalPlaces, SignalDates
<1> QED  BY <1>1, <1>2 DEF MainThread

\* The market, the network and the session that starts and receives.
LEMMA SessionIsTyped ==
  ASSUME SignalInv, SignalPlaces, SignalDates, SignalFlags,
         \/ Tick \/ TradeUnseen \/ LoseTransport
         \/ LoadHistory \/ Subscribe \/ StartupFails \/ HandleSpot
  PROVE  SignalPlaces' /\ SignalDates' /\ SignalFlags'
<1>1. ASSUME Tick \/ TradeUnseen \/ LoseTransport \/ LoadHistory \/ Subscribe
      PROVE  SignalPlaces' /\ SignalDates' /\ SignalFlags'
  <2>1. /\ transport' \in { transport, "down", "subscribed" }
        /\ UNCHANGED <<recovery, command, main, market, reconciliation, decidedOn>>
        /\ history' \in { history, Minute(clock) }
    BY <1>1 DEF Tick, TradeUnseen, LoseTransport, LoadHistory, Subscribe, ioVars, runVars
  <2>2. rebuilt' = rebuilt
    BY <1>1, Zenon DEF Tick, TradeUnseen, LoseTransport, LoadHistory, Subscribe, ioVars
  <2>3. Minute(clock) \in Minutes
    BY MarketTypes
  <2>4. SignalFlags'
    BY <2>1, <2>2, Zenon DEF SignalFlags
  <2> QED  BY <2>1, <2>3, <2>4 DEF SignalPlaces, SignalDates
<1>2. CASE StartupFails
  <2>1. market.bid \in DatedSources /\ market.ask \in DatedSources
    BY DEF SignalDates
  <2> QED  BY <1>2, <2>1, EndingIsTyped DEF StartupFails
<1>3. CASE HandleSpot
  <2>1. Receives /\ UNCHANGED history
    BY <1>3 DEF HandleSpot
  <2>2. PICK update \in SpotUpdates :
          IF Apply(update).result = "applied"
          THEN /\ market' = Apply(update).market
               /\ UNCHANGED <<transport, io, recovery, rebuilt, reconciliation, command,
                              runVars>>
          ELSE EventRefused(Apply(update).market)
    BY <1>3 DEF HandleSpot
  <2>3. /\ Apply(update).market.bid \in DatedSources
        /\ Apply(update).market.ask \in DatedSources
    BY <2>1, AppliedSides
  <2>4. CASE Apply(update).result = "applied"
    <3>1. /\ market' = Apply(update).market
          /\ UNCHANGED <<transport, recovery, rebuilt, reconciliation, command, main,
                         decidedOn>>
      BY <2>2, <2>4, Zenon DEF runVars
    <3>2. SignalFlags'
      BY <3>1, Zenon DEF SignalFlags
    <3> QED  BY <2>1, <2>3, <3>1, <3>2 DEF SignalPlaces, SignalDates
  <2>5. CASE Apply(update).result # "applied"
    <3>1. EventRefused(Apply(update).market)
      BY <2>2, <2>5
    <3>2. EndSession(Apply(update).market) \/ NextAttempt(Apply(update).market) \/ Stop
      BY <3>1 DEF EventRefused, CommandFails
    <3> QED  BY <2>1, <2>3, <3>2, EndingIsTyped
  <2> QED  BY <2>4, <2>5
<1> QED  BY <1>1, <1>2, <1>3

\* Types of the runtime up to the order.
LEMMA SignalTyped ==
  /\ SignalInv /\ SignalPlaces /\ SignalDates /\ SignalFlags /\ [SignalNext]_signalVars
       => SignalPlaces' /\ SignalDates' /\ SignalFlags'
  /\ SignalInv /\ SignalPlaces /\ SignalDates /\ SignalFlags => SignalTypeOK
<1>1. ASSUME SignalInv, SignalPlaces, SignalDates, SignalFlags, [SignalNext]_signalVars
      PROVE  SignalPlaces' /\ SignalDates' /\ SignalFlags'
  <2>1. CASE UNCHANGED signalVars
    <3>1. UNCHANGED <<transport, recovery, command, main, history, market, reconciliation>>
      BY <2>1 DEF signalVars, ioVars, runVars
    <3>2. UNCHANGED <<rebuilt, decidedOn>>
      BY <2>1, Zenon DEF signalVars, ioVars, runVars
    <3>3. SignalFlags'
      BY <1>1, <3>2, Zenon DEF SignalFlags
    <3> QED  BY <1>1, <3>1, <3>3 DEF SignalPlaces, SignalDates
  <2> QED
    BY <1>1, <2>1, AnsweringIsTyped, RecoveringIsTyped, MainIsTyped, SessionIsTyped
    DEF SignalNext
<1>2. ASSUME SignalInv, SignalPlaces, SignalDates, SignalFlags PROVE SignalTypeOK
  <2>1. /\ market \in Markets /\ clock \in 1 .. MaxClock
        /\ venueBars \in [ Minutes -> 0 .. MaxRevision ]
        /\ io \in IoPlaces /\ advanced \in Seq(Bars)
    BY <1>2 DEF SignalInv, SignalTypes
  <2>2. market.bar \in Bars \cup { NoBar } /\ market.completed \in Seq(Bars)
    BY <2>1 DEF Markets
  <2>3. market.crossed \in BOOLEAN
    BY <1>2, MarketTypes
  <2>4. { market.bid, market.ask } \subseteq DatedSources /\ reconciliation \in DatedSources
    BY <1>2 DEF SignalDates
  <2>5. rebuilt \in BOOLEAN /\ decidedOn.complete \in BOOLEAN
    BY <1>2, Zenon DEF SignalFlags
  <2>6. io \in { "history", "subscribe", "idle", "reconcile", "margin", "reconnect",
                 "reload", "resubscribe", "confirm", "ended" }
    BY <2>1 DEF IoPlaces
  <2> QED
    BY <1>2, <2>1, <2>2, <2>3, <2>4, <2>5, <2>6, Zenon DEF SignalPlaces, SignalTypeOK
<1> QED  BY <1>1, <1>2

--------------------------------------------------------------------------------
(***************************************************************************)
(* All of them.  The steps of a program keep its own invariant, and leave  *)
(* the variables of the others alone.                                      *)
(***************************************************************************)

BacktestHolds == RunTypes /\ RunFlags
FeedHolds == FeedInv /\ FeedPlacesTyped /\ FeedFlags
SocketHolds == SocketInv /\ SocketFlags
BookHolds == Sound(book) /\ FromUpdates(book)
AuthHolds == AuthInv /\ AuthControl
Gate7Holds == Gate7Inv /\ Gate7History
ReplayHolds == ReplayInv /\ ReplayResults /\ ReplayFlags
SignalHolds == SignalInv /\ SignalPlaces /\ SignalDates /\ SignalFlags
FramesHold == FramesInv /\ BufferIsBounded

ProgramsInv ==
  /\ program \in Programs
  /\ BacktestHolds /\ FeedHolds /\ SocketHolds /\ RingInv /\ BookHolds
  /\ AuthHolds /\ Gate6Inv /\ Gate7Holds /\ ReplayHolds /\ IInv
  /\ SignalHolds /\ FramesHold

\* All of it holds at the start, whatever runs.
LEMMA ProgramsBegin == ProgramsInit => ProgramsInv
<1> SUFFICES ASSUME ProgramsInit PROVE ProgramsInv
  OBVIOUS
<1>0. /\ program \in Programs /\ BacktestInit /\ FeedInit /\ AuthInit /\ WebSocketInit
      /\ RingInit /\ BookInit /\ Gate6Init /\ Gate7Init /\ ReplayInit /\ Init
      /\ SignalInit /\ FrameInit
  BY Zenon DEF ProgramsInit
<1>1. BacktestHolds
  BY <1>0, BacktestTyped, RunFlagsStay, Zenon DEF BacktestHolds
<1>2. FeedHolds
  BY <1>0, FeedBegins, FeedTyped, FeedFlagsStay, Zenon DEF FeedHolds
<1>3. SocketHolds /\ RingInv
  BY <1>0, SocketTyped, FlagsAreFlags, RingInvInit, Zenon DEF SocketHolds
<1>4. BookHolds
  BY <1>0, BookTyped, Zenon DEF BookHolds
<1>5. AuthHolds /\ Gate6Inv /\ Gate7Holds
  BY <1>0, AuthTyped, Gate6Begins, Gate7Typed, Zenon DEF AuthHolds, Gate7Holds
<1>6. ReplayHolds /\ IInv
  BY <1>0, ReplayTyped, ReplayFlagsStay, Initially, Zenon DEF ReplayHolds
<1>7. SignalHolds /\ FramesHold
  BY <1>0, SignalBegins, SignalStartsTyped, FramesTyped, Zenon DEF SignalHolds, FramesHold
<1> QED  BY <1>0, <1>1, <1>2, <1>3, <1>4, <1>5, <1>6, <1>7, Zenon DEF ProgramsInv

\* What one program does is no step of another.
LEMMA OnlyOneRuns ==
  ASSUME [ProgramsNext]_programVars
  PROVE  /\ program' = program
         /\ [BacktestNext]_backtestVars /\ [FeedNext]_feedVars
         /\ [WebSocketNext]_webSocketVars /\ [RingNext]_ringVars /\ [BookNext]_book
         /\ [AuthNext]_authVars /\ [Gate6Next]_gate6Vars /\ [Gate7Next]_gate7Vars
         /\ [ReplayNext]_replayVars /\ [Next]_vars /\ [SignalNext]_signalVars
         /\ [FrameNext]_frameVars
<1>1. CASE ProgramsNext
  BY <1>1, Zenon DEF ProgramsNext
<1>2. CASE UNCHANGED programVars
  BY <1>2, Zenon DEF programVars
<1> QED  BY <1>1, <1>2

\* Every step keeps it.
LEMMA ProgramsKeep == ProgramsInv /\ [ProgramsNext]_programVars => ProgramsInv'
<1> SUFFICES ASSUME ProgramsInv, [ProgramsNext]_programVars PROVE ProgramsInv'
  OBVIOUS
<1>0. /\ program \in Programs
      /\ BacktestHolds /\ FeedHolds /\ SocketHolds /\ RingInv /\ BookHolds
      /\ AuthHolds /\ Gate6Inv /\ Gate7Holds /\ ReplayHolds /\ IInv
      /\ SignalHolds /\ FramesHold
  BY Zenon DEF ProgramsInv
<1>1. BacktestHolds'
  BY <1>0, OnlyOneRuns, BacktestTyped, RunFlagsStay, Zenon DEF BacktestHolds
<1>2. FeedHolds'
  BY <1>0, OnlyOneRuns, FeedKeeps, FeedTyped, FeedFlagsStay, Zenon DEF FeedHolds
<1>3. SocketHolds' /\ RingInv'
  BY <1>0, OnlyOneRuns, SocketTyped, FlagsAreFlags, RingInvNext, Zenon DEF SocketHolds
<1>4. BookHolds'
  <2>1. Sound(book') /\ FromUpdates(book')
    BY <1>0, OnlyOneRuns, BookTyped, BookStepKeepsSound, Zenon DEF BookHolds
  <2> QED  BY <2>1, Zenon DEF BookHolds
<1>5. AuthHolds' /\ Gate6Inv' /\ Gate7Holds'
  BY <1>0, OnlyOneRuns, AuthTyped, AuthInvNext, Gate6Keeps, Gate7Keeps, Gate7Typed, Zenon
  DEF AuthHolds, Gate7Holds
<1>6. ReplayHolds' /\ IInv'
  BY <1>0, OnlyOneRuns, ReplayInvNext, ReplayTyped, ReplayFlagsStay, Stepwise, Zenon
  DEF ReplayHolds
<1>7. SignalHolds' /\ FramesHold'
  BY <1>0, OnlyOneRuns, SignalKeeps, SignalTyped, FramesInvNext, FramesTyped, Zenon
  DEF SignalHolds, FramesHold
<1>8. program' \in Programs
  BY <1>0, OnlyOneRuns, Zenon
<1> QED  BY <1>1, <1>2, <1>3, <1>4, <1>5, <1>6, <1>7, <1>8, Zenon DEF ProgramsInv

\* And it has every type.
LEMMA ProgramsAreTyped == ProgramsInv => ProgramsTypeOK
<1> SUFFICES ASSUME ProgramsInv PROVE ProgramsTypeOK
  OBVIOUS
<1>1. /\ program \in Programs
      /\ BacktestHolds /\ FeedHolds /\ SocketHolds /\ RingInv /\ BookHolds
      /\ AuthHolds /\ Gate6Inv /\ Gate7Holds /\ ReplayHolds /\ IInv
      /\ SignalHolds /\ FramesHold
  BY Zenon DEF ProgramsInv
<1>2. BacktestTypeOK /\ FeedTypeOK /\ WebSocketTypeOK
  BY <1>1, BacktestTyped, FeedTyped, SocketTyped, Zenon
  DEF BacktestHolds, FeedHolds, SocketHolds
<1>3. RingTypeOK /\ BookTypeOK /\ AuthTypeOK
  BY <1>1, BookTyped, AuthTyped, Zenon DEF RingInv, BookHolds, AuthHolds
<1>4. Gate6TypeOK /\ Gate7TypeOK /\ ReplayTypeOK /\ TypeOK
  BY <1>1, Gate6Typed, Gate7Typed, ReplayTyped, Zenon
  DEF Gate7Holds, ReplayHolds, IInv
<1>5. SignalTypeOK /\ FrameTypeOK
  BY <1>1, SignalTyped, FramesTyped, Zenon DEF SignalHolds, FramesHold
<1> QED  BY <1>1, <1>2, <1>3, <1>4, <1>5, Zenon DEF ProgramsTypeOK

\* Whichever program runs, and however it is stopped, delayed or refused, the
\* variables of all of them keep their types: no thread is anywhere but where
\* the code has it, no buffer, history or counter outgrows its bound.
THEOREM ProgramsTypesHold == ProgramsSpec => []ProgramsTypeOK
<1>1. ProgramsInit => ProgramsInv
  BY ProgramsBegin
<1>2. ProgramsInv /\ [ProgramsNext]_programVars => ProgramsInv'
  BY ProgramsKeep
<1>3. ProgramsInv => ProgramsTypeOK
  BY ProgramsAreTyped
<1> QED  BY <1>1, <1>2, <1>3, PTL DEF ProgramsSpec
================================================================================
