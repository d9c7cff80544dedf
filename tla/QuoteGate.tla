------------------------------- MODULE QuoteGate -------------------------------
(***************************************************************************)
(* Gate 7: the read-only proof that the one FIBO demo account of the token *)
(* sees one fresh, two-sided quote of XAUUSD.  One thread                  *)
(* (runCTraderGate7Proof) asks the provider one thing after another over   *)
(* one connection; CTraderGate7Proof judges every answer.  What the        *)
(* provider answers, and when, is input: an earlier request may be         *)
(* answered late or twice, heartbeats and spots may come at any time.      *)
(***************************************************************************)
EXTENDS Integers, Sequences, FiniteSets

CONSTANTS
  ListedAccounts,  \* account records: [id, live, broker]
  ListedSymbols,   \* light symbol records: [id, name, tradable]
  FullSymbols,     \* full symbol records: [id, complete, digits]
  RawPrices,       \* prices on the wire, in units of 10^-5
  RawTimes,        \* time stamps on the wire, in an unknown unit
  ReceiptTime,     \* the local time a spot arrives
  TimeUnits,       \* multipliers classifyTimestamp() tries
  MaxAge, MaxFuture,
  MaxInt,          \* largest signed integer
  MaxScale         \* Decimal64::MAX_SCALE

VARIABLES
  step7,      \* where runCTraderGate7Proof() is
  awaiting7,  \* a request has been sent, its answer has not been taken
  proof7,     \* CTraderGate7Proof
  asked7,     \* history: the requests sent; its length is the correlation
  listed7,    \* history: the accounts listed, when the list was accepted
  lastSpot    \* history: the spot event the quote was taken from

gate7Vars == <<step7, awaiting7, proof7, asked7, listed7, lastSpot>>

None == 0
NotGiven == -1

ASSUME QuoteGateAssumption ==
  /\ IsFiniteSet(ListedAccounts) /\ IsFiniteSet(ListedSymbols)
  /\ IsFiniteSet(FullSymbols) /\ IsFiniteSet(TimeUnits)
  /\ RawPrices \cup RawTimes \subseteq Nat \cup { NotGiven }
  /\ TimeUnits \subseteq Nat
  /\ { ReceiptTime, MaxAge, MaxFuture, MaxInt, MaxScale } \subseteq Nat

NoQuote == [ bid |-> 0, ask |-> 0, time |-> 0 ]
NoSpot == [ account |-> None, symbol |-> None, bid |-> NotGiven,
            ask |-> NotGiven, time |-> NotGiven ]

EmptyProof7(phase) ==
  [ phase |-> phase, account |-> None, symbol |-> None, digits |-> None,
    quote |-> NoQuote ]

Gate7Init ==
  /\ step7 = "connect" /\ awaiting7 = FALSE
  /\ proof7 = EmptyProof7("AccountList")
  /\ asked7 = <<>> /\ listed7 = {} /\ lastSpot = NoSpot

Terminal7(p) == p.phase \in { "Complete", "Terminal" }
Finish7(p) == EmptyProof7("Terminal")

\* The one member of a set of candidates, if there is exactly one.
Unambiguous(candidates) == Cardinality(candidates) = 1
TheOne(candidates) == CHOOSE c \in candidates : TRUE

--------------------------------------------------------------------------------
(***************************************************************************)
(* Prices and time stamps.                                                 *)
(***************************************************************************)

Power10[n \in Nat] == IF n = 0 THEN 1 ELSE 10 * Power10[n - 1]

Unrepresentable == -1

\* A positive price of scale 5 in units of 10^-digits: widened if that fits,
\* otherwise rounded half up.
NormalizeSignedScale5(units, digits) ==
  LET factor == Power10[IF digits > 5 THEN digits - 5 ELSE 5 - digits]
  IN IF digits < 0 \/ digits > MaxScale THEN Unrepresentable
     ELSE IF digits > 5
     THEN IF units > MaxInt \div factor THEN Unrepresentable ELSE units * factor
     ELSE units \div factor + (IF 2 * (units % factor) >= factor THEN 1 ELSE 0)

NormalizeSpotPrice(raw, digits) ==
  IF raw = 0 \/ raw > MaxInt THEN Unrepresentable
  ELSE NormalizeSignedScale5(raw, digits)

\* The units that put a time stamp close to its receipt.
PlausibleTimes(raw) ==
  { raw * u : u \in { v \in TimeUnits :
      raw * v >= ReceiptTime - MaxAge /\ raw * v <= ReceiptTime + MaxFuture } }

\* Two units are too many, also when both make the same time of a zero.
TimestampProven(raw) ==
  /\ ReceiptTime # 0
  /\ Unambiguous({ u \in TimeUnits : raw * u \in PlausibleTimes(raw) })

--------------------------------------------------------------------------------
(***************************************************************************)
(* The proof object.                                                       *)
(***************************************************************************)

Eligible(accounts) ==
  { a \in accounts : a.id > 0 /\ a.live = "demo" /\ a.broker = "FIBO" }

\* Mutant: the first of several eligible accounts is taken.
AcceptAccountList_First(p, answer) ==
  IF /\ p.phase = "AccountList" /\ answer.owned /\ answer.scope
     /\ Eligible(answer.accounts) # {}
  THEN [ p EXCEPT !.phase = "AccountAuthentication",
                  !.account = TheOne(Eligible(answer.accounts)).id ]
  ELSE Finish7(p)

AcceptAccountList(p, answer) ==
  IF Terminal7(p) THEN p
  ELSE IF /\ p.phase = "AccountList" /\ answer.owned /\ answer.scope
          /\ Unambiguous(Eligible(answer.accounts))
  THEN [ p EXCEPT !.phase = "AccountAuthentication",
                  !.account = TheOne(Eligible(answer.accounts)).id ]
  ELSE Finish7(p)

\* Alone among its siblings it does not look whether the proof has ended.
AcceptAccountAuthentication(p, id) ==
  IF p.phase = "AccountAuthentication" /\ id > 0 /\ id = p.account
  THEN [ p EXCEPT !.phase = "SymbolsList" ]
  ELSE Finish7(p)

IsCanonicalXauusd(name) == name \in { "XAUUSD", "XAU/USD" }

Canonical(symbols) ==
  { s \in symbols : s.id > 0 /\ s.tradable /\ IsCanonicalXauusd(s.name) }

AcceptSymbolsList(p, account, symbols) ==
  IF Terminal7(p) THEN p
  ELSE IF /\ p.phase = "SymbolsList" /\ account = p.account
          /\ Unambiguous(Canonical(symbols))
  THEN [ p EXCEPT !.phase = "FullSymbol",
                  !.symbol = TheOne(Canonical(symbols)).id ]
  ELSE Finish7(p)

AcceptFullSymbol(p, account, symbols) ==
  LET matching == { s \in symbols : s.id = p.symbol }
  IN IF Terminal7(p) THEN p
     ELSE IF /\ p.phase = "FullSymbol" /\ account = p.account
             /\ Unambiguous(matching) /\ TheOne(matching).complete
             /\ TheOne(matching).digits \in 0 .. MaxScale
     THEN [ p EXCEPT !.phase = "Subscription",
                     !.digits = TheOne(matching).digits ]
     ELSE Finish7(p)

AcceptSubscription(p, account, symbol) ==
  IF Terminal7(p) THEN p
  ELSE IF p.phase = "Subscription" /\ account = p.account /\ symbol = p.symbol
  THEN [ p EXCEPT !.phase = "Spot" ]
  ELSE Finish7(p)

\* A spot that lacks a side or its time is passed over, unless what it has is
\* wrong.
AcceptSpot(p, spot) ==
  LET bid == NormalizeSpotPrice(spot.bid, p.digits)
      ask == NormalizeSpotPrice(spot.ask, p.digits)
      twoSided == NotGiven \notin { spot.bid, spot.ask }
      timed == spot.time # NotGiven
      outOfPlace ==
        p.phase # "Spot" \/ spot.account # p.account \/ spot.symbol # p.symbol
      wrong ==
        \/ outOfPlace
        \/ \E price \in { spot.bid, spot.ask } \ { NotGiven } :
             price = 0 \/ price > MaxInt
        \/ timed /\ ~TimestampProven(spot.time)
        \/ twoSided /\ (spot.bid > spot.ask \/ bid > ask)
        \/ twoSided /\ Unrepresentable \in { bid, ask }
  IN IF Terminal7(p) THEN p
     ELSE IF wrong THEN Finish7(p)
     ELSE IF ~(twoSided /\ timed) THEN p
     ELSE [ EmptyProof7("Complete") EXCEPT
              !.quote = [ bid |-> bid, ask |-> ask,
                          time |-> TheOne(PlausibleTimes(spot.time)) ] ]

--------------------------------------------------------------------------------
(***************************************************************************)
(* The runtime: ask, wait for the answer to this request, judge it.        *)
(***************************************************************************)

AskingSteps ==
  <<"application", "accounts", "account", "symbols", "full", "subscription">>

Exit7(code) ==
  /\ step7' = code /\ awaiting7' = FALSE
  /\ UNCHANGED <<asked7, listed7, lastSpot>>

Continue7(next) ==
  /\ step7' = next /\ awaiting7' = FALSE

ConnectDemo7 ==
  /\ step7 = "connect" /\ UNCHANGED proof7
  /\ \/ Continue7("application") /\ UNCHANGED <<asked7, listed7, lastSpot>>
     \/ Exit7("exit1")

Request7(s) ==
  [ type |-> s,
    account |-> IF s \in { "application", "accounts" } THEN None
                ELSE proof7.account,
    symbol |-> IF s \in { "full", "subscription" } THEN proof7.symbol
               ELSE None ]

\* sendDetailed(): the request goes out with a correlation of its own.
Ask7 ==
  /\ ~awaiting7 /\ \E i \in DOMAIN AskingSteps : AskingSteps[i] = step7
  /\ UNCHANGED proof7
  /\ \/ /\ asked7' = Append(asked7, Request7(step7)) /\ awaiting7' = TRUE
        /\ UNCHANGED <<step7, listed7, lastSpot>>
     \/ Exit7("exit1")

\* A frame answers some request that was sent, or none: a spot, an error, a
\* disconnect, a malformed frame.  Heartbeats are passed over.
Frames ==
  [ type : { asked7[i].type : i \in 1 .. Len(asked7) } \cup { "spot", "error" },
    correlation : 0 .. Len(asked7) ]

\* receiveExpectedDetailed()
Expected(frame) ==
  frame.type = step7 /\ frame.correlation = Len(asked7)

Refuse(frame) ==
  /\ awaiting7 /\ ~Expected(frame)
  /\ UNCHANGED proof7 /\ Exit7("exit1")

\* The deadline, the end of the connection, or an answer that does not parse.
NoAnswer7 ==
  /\ awaiting7 \/ step7 = "spot"
  /\ UNCHANGED proof7 /\ Exit7("exit1")

\* The runtime goes on only if the proof object is where it should be now.
Judge(frame, judged, phase, next) ==
  /\ awaiting7 /\ Expected(frame) /\ proof7' = judged
  /\ \/ judged.phase = phase /\ Continue7(next) /\ UNCHANGED <<asked7, lastSpot>>
     \/ judged.phase # phase /\ step7' = "exit1" /\ awaiting7' = FALSE
        /\ UNCHANGED <<asked7, lastSpot>>

ApplicationAuthenticated(frame) ==
  /\ step7 = "application" /\ Judge(frame, proof7, "AccountList", "accounts")
  /\ UNCHANGED listed7

DiscoverAccounts(frame, answer) ==
  /\ step7 = "accounts"
  /\ Judge(frame, AcceptAccountList(proof7, answer), "AccountAuthentication",
           "account")
  /\ listed7' = IF step7' = "account" THEN answer.accounts ELSE listed7

AuthenticateAccount(frame, id) ==
  /\ step7 = "account"
  /\ Judge(frame, AcceptAccountAuthentication(proof7, id), "SymbolsList",
           "symbols")
  /\ UNCHANGED listed7

RequestSymbols(frame, account, symbols) ==
  /\ step7 = "symbols"
  /\ Judge(frame, AcceptSymbolsList(proof7, account, symbols), "FullSymbol",
           "full")
  /\ UNCHANGED listed7

RequestFullSymbol(frame, account, symbols) ==
  /\ step7 = "full"
  /\ Judge(frame, AcceptFullSymbol(proof7, account, symbols), "Subscription",
           "subscription")
  /\ UNCHANGED listed7

\* The answer names the account only; the symbol is the one asked for.  An
\* answer of another account ends the program before the proof object sees it,
\* as if there were none.
SubscribeToSpot(frame, account) ==
  /\ step7 = "subscription" /\ account = proof7.account
  /\ Judge(frame, AcceptSubscription(proof7, account, proof7.symbol), "Spot",
           "spot")
  /\ UNCHANGED listed7

\* receiveFirstCompleteSpot() compares a spot with what was asked for before
\* it asks the proof object.
Foreign(spot) ==
  LET asked == asked7[Len(asked7)]
  IN spot.account # asked.account \/ spot.symbol # asked.symbol

ReceiveSpot(spot) ==
  /\ step7 = "spot"
  /\ proof7' = IF Foreign(spot) THEN proof7 ELSE AcceptSpot(proof7, spot)
  /\ step7' = IF Foreign(spot) \/ proof7'.phase = "Terminal" THEN "exit1"
              ELSE IF proof7'.phase = "Complete" THEN "exit0" ELSE "spot"
  /\ lastSpot' = IF step7' = "exit0" THEN spot ELSE lastSpot
  /\ UNCHANGED <<awaiting7, asked7, listed7>>

Ids(records) == { r.id : r \in records }

Spots ==
  [ account : Ids(ListedAccounts), symbol : Ids(ListedSymbols),
    bid : RawPrices, ask : RawPrices, time : RawTimes ]

Gate7Next ==
  \/ ConnectDemo7 \/ Ask7 \/ NoAnswer7
  \/ \E frame \in Frames :
       \/ Refuse(frame)
       \/ ApplicationAuthenticated(frame)
       \/ \E answer \in [ accounts : SUBSET ListedAccounts, owned : BOOLEAN,
                          scope : BOOLEAN ] : DiscoverAccounts(frame, answer)
       \/ \E account \in Ids(ListedAccounts) :
            \/ AuthenticateAccount(frame, account)
            \/ SubscribeToSpot(frame, account)
            \/ \E symbols \in SUBSET ListedSymbols :
                 RequestSymbols(frame, account, symbols)
            \/ \E symbols \in SUBSET FullSymbols :
                 RequestFullSymbol(frame, account, symbols)
  \/ \E spot \in Spots : ReceiveSpot(spot)

Gate7Spec == Gate7Init /\ [][Gate7Next]_gate7Vars

--------------------------------------------------------------------------------

Gate7TypeOK ==
  /\ step7 \in { AskingSteps[i] : i \in DOMAIN AskingSteps }
                 \cup { "connect", "spot", "exit0", "exit1" }
  /\ awaiting7 \in BOOLEAN
  /\ proof7.phase \in { "AccountList", "AccountAuthentication", "SymbolsList",
                        "FullSymbol", "Subscription", "Spot", "Complete",
                        "Terminal" }
  /\ proof7.account \in Ids(ListedAccounts) \cup { None }
  /\ proof7.symbol \in Ids(ListedSymbols) \cup { None }
  /\ Len(asked7) <= Len(AskingSteps)
  /\ listed7 \subseteq ListedAccounts
  /\ lastSpot \in Spots \cup { NoSpot }

(***************************************************************************)
(* Whatever the provider sends, nothing is ever asked for an account that  *)
(* is not the single FIBO demo account of the list, every question is      *)
(* asked once and in order, and the program reports success exactly when   *)
(* it holds a quote: two-sided, not crossed, fresh, and of one event for   *)
(* the account and the symbol it has subscribed.                           *)
(***************************************************************************)
QuoteProvesOneDemoAccount ==
  /\ \A i \in 1 .. Len(asked7) :
       /\ asked7[i].type = AskingSteps[i]
       /\ asked7[i].account # None => Ids(Eligible(listed7)) = { asked7[i].account }
  /\ step7 = "exit0" <=> proof7.phase = "Complete"
  /\ proof7.phase = "Complete" =>
       LET quote == proof7.quote
           subscribed == asked7[Len(asked7)]
       IN /\ Len(asked7) = Len(AskingSteps)
          /\ lastSpot.account = subscribed.account
          /\ lastSpot.symbol = subscribed.symbol
          /\ NotGiven \notin { lastSpot.bid, lastSpot.ask, lastSpot.time }
          /\ 0 <= quote.bid /\ quote.bid <= quote.ask
          /\ quote.time \in ReceiptTime - MaxAge .. ReceiptTime + MaxFuture
================================================================================
