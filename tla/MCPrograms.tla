------------------------------ MODULE MCPrograms -------------------------------
(***************************************************************************)
(* The programs and harnesses of the repository that share no state with   *)
(* one another, each under its own next-state relation: what is chosen at  *)
(* first runs, the rest stays as it is.                                    *)
(***************************************************************************)
EXTENDS ResumableBacktest, LiveFeed, WebSocketClient, RingBuffer, OrderBook,
        GateAuthorization, DemoAccountGate, QuoteGate, OfflineReplay,
        OneShotCommissioning, DemoSignalRun, FrameDecoder

\* Gate 6: demo and live accounts, one that does not say, two of a title, a
\* title that is refused, one that is missing.
MCGateAccounts ==
  { [ id |-> 1, live |-> "demo", title |-> "FIBO" ],
    [ id |-> 2, live |-> "demo", title |-> "FIBO" ],
    [ id |-> 3, live |-> "demo", title |-> "other" ],
    [ id |-> 4, live |-> "live", title |-> "FIBO" ],
    [ id |-> 1, live |-> "unknown", title |-> "other" ],
    [ id |-> 5, live |-> "demo", title |-> "unsafe" ],
    [ id |-> 6, live |-> "demo", title |-> Absent ] }

\* Gate 7: two demo accounts, a live one, one of another broker.
MCListedAccounts ==
  { [ id |-> 1, live |-> "demo", broker |-> "FIBO" ],
    [ id |-> 2, live |-> "demo", broker |-> "FIBO" ],
    [ id |-> 3, live |-> "live", broker |-> "FIBO" ],
    [ id |-> 4, live |-> "demo", broker |-> "other" ] }

MCListedSymbols ==
  { [ id |-> 1, name |-> "XAUUSD", tradable |-> TRUE ],
    [ id |-> 2, name |-> "XAU/USD", tradable |-> TRUE ],
    [ id |-> 3, name |-> "XAUUSD", tradable |-> FALSE ],
    [ id |-> 4, name |-> "EURUSD", tradable |-> TRUE ] }

MCFullSymbols ==
  { [ id |-> 1, complete |-> TRUE, digits |-> 4 ],
    [ id |-> 1, complete |-> FALSE, digits |-> 4 ],
    [ id |-> 2, complete |-> TRUE, digits |-> 6 ],
    [ id |-> 2, complete |-> TRUE, digits |-> 9 ] }

MCRawPrices == { -1, 0, 14, 15, 120, 2000 }

\* Offline replay: an empty file, one in order, one that is not.
MCReplayInputs == { <<>>, << 1, 2 >>, << 2, 1 >> }

\* Frames of base 3: payloads that look like headers, and two lengths that are
\* refused.
MCPayloads == { <<1>>, <<0, 2>>, <<0, 1, 1>>, <<>>, <<1, 1, 1, 1>> }

VARIABLE program    \* what runs

programVars == <<program, backtestVars, feedVars, webSocketVars, ringVars, book,
                 authVars, gate6Vars, gate7Vars, replayVars, vars, signalVars,
                 frameVars>>

Programs == { "backtest", "feed", "socket", "ring", "book", "authorization",
              "gate6", "gate7", "replay", "commissioning", "signal", "frames" }

\* What does not run starts in one of its initial states.
ProgramsInit ==
  /\ program \in Programs
  /\ BacktestInit
  /\ program # "backtest" => instants = [ c \in Candles |-> c[2] ]
  /\ FeedInit /\ (program # "feed" => feedMode = "paper" /\ endpointUp)
  /\ AuthInit /\ (program # "authorization" => keychain = "none")
  /\ WebSocketInit /\ RingInit /\ BookInit
  /\ Gate6Init /\ Gate7Init /\ ReplayInit /\ Init
  /\ SignalInit /\ FrameInit

ProgramsNext ==
  /\ UNCHANGED program
  /\ IF program = "backtest" THEN BacktestNext ELSE UNCHANGED backtestVars
  /\ IF program = "feed" THEN FeedNext ELSE UNCHANGED feedVars
  /\ IF program = "socket" THEN WebSocketNext ELSE UNCHANGED webSocketVars
  /\ IF program = "ring" THEN RingNext ELSE UNCHANGED ringVars
  /\ IF program = "book" THEN BookNext ELSE UNCHANGED book
  /\ IF program = "authorization" THEN AuthNext ELSE UNCHANGED authVars
  /\ IF program = "gate6" THEN Gate6Next ELSE UNCHANGED gate6Vars
  /\ IF program = "gate7" THEN Gate7Next ELSE UNCHANGED gate7Vars
  /\ IF program = "replay" THEN ReplayNext ELSE UNCHANGED replayVars
  /\ IF program = "commissioning" THEN Next ELSE UNCHANGED vars
  /\ IF program = "signal" THEN SignalNext ELSE UNCHANGED signalVars
  /\ IF program = "frames" THEN FrameNext ELSE UNCHANGED frameVars

\* FeedFairness of the feed's threads, when it is the feed that runs.
ProgramsFairness ==
  /\ WF_feedVars(program = "feed" /\ HandOver)
  /\ WF_feedVars(program = "feed" /\ LoseConnection)
  /\ WF_feedVars(program = "feed" /\ CloseUnannounced)
  /\ WF_feedVars(program = "feed" /\ TellAdapter)
  /\ WF_feedVars(program = "feed" /\ TellRisk)
  /\ WF_feedVars(program = "feed" /\ Retry)
  /\ WF_feedVars(program = "feed" /\ MainStep)
  /\ WF_feedVars(program = "feed" /\ WorkerStep)
  /\ WF_feedVars(program = "feed" /\ EndpointReturns)

ProgramsSpec == ProgramsInit /\ [][ProgramsNext]_programVars /\ ProgramsFairness

--------------------------------------------------------------------------------

\* What is in every variable of every program.
ProgramsTypeOK ==
  /\ program \in Programs
  /\ BacktestTypeOK /\ FeedTypeOK /\ WebSocketTypeOK /\ RingTypeOK /\ BookTypeOK
  /\ AuthTypeOK /\ Gate6TypeOK /\ Gate7TypeOK /\ ReplayTypeOK /\ TypeOK
  /\ SignalTypeOK /\ FrameTypeOK
================================================================================
