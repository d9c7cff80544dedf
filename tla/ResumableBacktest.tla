--------------------------- MODULE ResumableBacktest ---------------------------
(***************************************************************************)
(* A BACKTEST run of main() that checkpoints and resumes.  One thread      *)
(* takes the earliest candle of all streams, lets the engine of its symbol *)
(* process it and, when that engine's interval has passed, replaces the    *)
(* one snapshot file.  The process may die between any two steps; main()   *)
(* is then started again, with --resume or without.                        *)
(*                                                                         *)
(* What a part of the program remembers is abstracted to the candles that  *)
(* made it what it is: a history counts how often each candle entered it.  *)
(***************************************************************************)
EXTENDS Integers, FiniteSets

CONSTANTS
  Streams,        \* the symbols, one CSV stream and one EventLoop each
  Rows,           \* candles of a stream
  LatestInstant,  \* bound: the latest epochTimestamp; 0 is an unreadable date
  Interval,       \* m_checkpointIntervalSec
  Word,           \* modulus of the unsigned time stamps
  SortedInput,    \* whether every stream is readable and in order
  MaxLaunches     \* bound: how often main() is started

ASSUME BacktestAssumption ==
  /\ Rows \in Nat \ {0} /\ LatestInstant \in Nat \ {0} /\ MaxLaunches \in Nat
  /\ Interval \in Nat \ {0} /\ Word \in Nat /\ Word > LatestInstant + Interval
  /\ SortedInput \in BOOLEAN

VARIABLES
  instants,        \* epochTimestamp of every candle of the CSV files
  stage,           \* where main() is
  resumeTs,        \* resumeCheckpointTs, 0 without --resume
  cursor,          \* the row of each stream that is in the heap
  lastCheckpoint,  \* m_lastCheckpointTs of each EventLoop
  memory,          \* portfolio, risk engine, and regime with allocator
  current,         \* the candle whose checkpoint is being written
  snapshot,        \* data/results/snapshot.json
  launches,        \* how often main() was started
  powerLost,       \* history: the machine went down with the process
  saved            \* history: a checkpoint has been completed

mainVars == <<stage, resumeTs, cursor, lastCheckpoint, memory, current>>
fileVars == <<snapshot, powerLost, saved>>
backtestVars == <<instants, mainVars, fileVars, launches>>

Candles == Streams \X (1 .. Rows)
NoCandle == <<"none", 0>>
NotResuming == -1
Unread == [ c \in Candles |-> 0 ]

\* cuts is a history: the checkpoint instants this memory was resumed from.
FreshMemory ==
  [ portfolio |-> Unread, risk |-> Unread, regime |-> Unread, cuts |-> {} ]

--------------------------------------------------------------------------------
(***************************************************************************)
(* The snapshot file.                                                      *)
(***************************************************************************)

NoFile == [ state |-> "absent" ]
TornFile == [ state |-> "torn" ]

\* What writing and reading back keeps of each part.
PortfolioPart(m) == m.portfolio
RiskPart(m) == m.risk
RegimePart(m) == m.regime

Payload(m) ==
  [ portfolio |-> PortfolioPart(m), risk |-> RiskPart(m),
    regime |-> RegimePart(m), cuts |-> m.cuts ]

\* saveImpl(): one file with the time stamp and every part.
Encoded(ts, m) == [ state |-> "whole", ts |-> ts, payload |-> Payload(m) ]

\* loadImpl(): envelope, checksum and payload are checked before anything is
\* restored.
Loadable(file) == file.state = "whole"

\* Mutant: the resumed run takes the portfolio from the file, and nothing else.
Restored_Portfolio(file) ==
  [ FreshMemory EXCEPT !.portfolio = file.payload.portfolio,
                       !.cuts = file.payload.cuts \cup { file.ts } ]

\* Every part is taken over, or none.
Restored(file) == [ file.payload EXCEPT !.cuts = @ \cup { file.ts } ]

--------------------------------------------------------------------------------

Ordered(times) ==
  \A s \in Streams :
    /\ times[<<s, 1>>] > 0
    /\ \A i, j \in 1 .. Rows : i < j => times[<<s, i>>] <= times[<<s, j>>]

BacktestInit ==
  /\ instants \in [ Candles -> 0 .. LatestInstant ]
  /\ SortedInput => Ordered(instants)
  /\ stage = "down" /\ resumeTs = NotResuming
  /\ cursor = [ s \in Streams |-> 1 ]
  /\ lastCheckpoint = [ s \in Streams |-> 0 ]
  /\ memory = FreshMemory /\ current = NoCandle
  /\ snapshot = NoFile /\ powerLost = FALSE /\ saved = FALSE
  /\ launches = 0

\* A new process: engines are constructed, each stream's first row is read.
Constructed(ts, m) ==
  /\ stage' = "running" /\ resumeTs' = ts /\ memory' = m
  /\ cursor' = [ s \in Streams |-> 1 ]
  /\ lastCheckpoint' = [ s \in Streams |-> 0 ]
  /\ current' = NoCandle

Idle == stage \in { "down", "finished" } /\ launches < MaxLaunches

StartFresh ==
  /\ Idle /\ launches' = launches + 1
  /\ Constructed(NotResuming, FreshMemory)
  /\ UNCHANGED <<instants, fileVars>>

\* A snapshot that cannot be loaded ends the process: EXIT_FAILURE.
StartResumed ==
  /\ Idle /\ launches' = launches + 1
  /\ \/ /\ Loadable(snapshot)
        /\ Constructed(snapshot.ts, Restored(snapshot))
     \/ /\ ~Loadable(snapshot)
        /\ stage' = "down"
        /\ UNCHANGED <<resumeTs, cursor, lastCheckpoint, memory, current>>
  /\ UNCHANGED <<instants, fileVars>>

--------------------------------------------------------------------------------
(***************************************************************************)
(* The dispatch loop.                                                      *)
(***************************************************************************)

Heap == { <<s, cursor[s]>> : s \in { t \in Streams : cursor[t] <= Rows } }

\* The top of the heap; equal time stamps come in any order.
Earliest(c) == c \in Heap /\ \A d \in Heap : instants[c] <= instants[d]

NextRow(c) == cursor' = [ cursor EXCEPT ![c[1]] = @ + 1 ]

\* Mutant: the candle at the instant of the checkpoint is not covered by it.
AlreadyCovered_Strict(c) == instants[c] < resumeTs

AlreadyCovered(c) == instants[c] <= resumeTs

\* The subtraction is of unsigned 64-bit values.
CheckpointDue(c) ==
  /\ lastCheckpoint[c[1]] # 0
  /\ (instants[c] - lastCheckpoint[c[1]]) % Word >= Interval

\* Strategies see the candle, the portfolio does not.
WarmUp(c) ==
  /\ stage = "running" /\ Earliest(c) /\ AlreadyCovered(c)
  /\ NextRow(c)
  /\ UNCHANGED <<instants, stage, resumeTs, lastCheckpoint, memory, current,
                 fileVars, launches>>

\* processCandle() up to the checkpoint: portfolio first, then risk.
Absorbed(c) ==
  [ memory EXCEPT !.portfolio[c] = @ + 1, !.risk[c] = @ + 1,
                  !.regime[c] = @ + 1 ]

ProcessCandle(c) ==
  /\ stage = "running" /\ Earliest(c) /\ ~AlreadyCovered(c)
  /\ memory' = Absorbed(c)
  /\ \/ /\ CheckpointDue(c)
        /\ stage' = "writing" /\ current' = c
        /\ UNCHANGED <<cursor, lastCheckpoint>>
     \/ /\ ~CheckpointDue(c)
        /\ NextRow(c)
        /\ lastCheckpoint' = IF lastCheckpoint[c[1]] # 0 THEN lastCheckpoint
                             ELSE [ lastCheckpoint EXCEPT ![c[1]] = instants[c] ]
        /\ UNCHANGED <<stage, current>>
  /\ UNCHANGED <<instants, resumeTs, fileVars, launches>>

\* Mutant: the snapshot is written in place.
WriteTemporary_InPlace ==
  /\ stage = "writing" /\ stage' = "renaming" /\ snapshot' = TornFile
  /\ UNCHANGED <<instants, resumeTs, cursor, lastCheckpoint, memory, current,
                 powerLost, saved, launches>>

\* atomicWrite(): the temporary file is complete and flushed.
WriteTemporary ==
  /\ stage = "writing" /\ stage' = "renaming"
  /\ UNCHANGED <<instants, resumeTs, cursor, lastCheckpoint, memory, current,
                 fileVars, launches>>

ReplaceSnapshot ==
  /\ stage = "renaming" /\ stage' = "running"
  /\ snapshot' = Encoded(instants[current], memory) /\ saved' = TRUE
  /\ lastCheckpoint' = [ lastCheckpoint EXCEPT ![current[1]] = instants[current] ]
  /\ NextRow(current) /\ current' = NoCandle
  /\ UNCHANGED <<instants, resumeTs, memory, powerLost, launches>>

Finish ==
  /\ stage = "running" /\ Heap = {} /\ stage' = "finished"
  /\ UNCHANGED <<instants, resumeTs, cursor, lastCheckpoint, memory, current,
                 fileVars, launches>>

\* A state that may not be saved, or a file that cannot be written or renamed:
\* the exception ends main(), the temporary file is removed.
CheckpointFails ==
  /\ stage \in { "writing", "renaming" } /\ stage' = "down"
  /\ UNCHANGED <<instants, resumeTs, cursor, lastCheckpoint, memory, current,
                 fileVars, launches>>

\* The process is killed.  When the machine goes down with it, a renamed file
\* that was never synced may be torn.
Die ==
  /\ stage \in { "running", "writing", "renaming" } /\ stage' = "down"
  /\ \/ UNCHANGED <<snapshot, powerLost>>
     \/ /\ snapshot # NoFile
        /\ powerLost' = TRUE /\ snapshot' \in { snapshot, TornFile }
  /\ UNCHANGED <<instants, resumeTs, cursor, lastCheckpoint, memory, current,
                 saved, launches>>

BacktestNext ==
  \/ StartFresh \/ StartResumed
  \/ \E c \in Candles : WarmUp(c) \/ ProcessCandle(c)
  \/ WriteTemporary \/ ReplaceSnapshot \/ CheckpointFails \/ Finish \/ Die

BacktestSpec == BacktestInit /\ [][BacktestNext]_backtestVars

--------------------------------------------------------------------------------

Memory ==
  [ portfolio : [ Candles -> Nat ], risk : [ Candles -> Nat ],
    regime : [ Candles -> Nat ], cuts : SUBSET (0 .. LatestInstant) ]

File ==
  { NoFile, TornFile } \cup
  [ state : { "whole" }, ts : 0 .. LatestInstant, payload : Memory ]

\* Types of the run and of the file.
BacktestTypeOK ==
  /\ instants \in [ Candles -> 0 .. LatestInstant ]
  /\ stage \in { "down", "running", "writing", "renaming", "finished" }
  /\ resumeTs \in NotResuming .. LatestInstant
  /\ cursor \in [ Streams -> 1 .. Rows + 1 ]
  /\ lastCheckpoint \in [ Streams -> 0 .. LatestInstant ]
  /\ memory \in Memory /\ snapshot \in File
  /\ current \in Candles \cup { NoCandle }
  /\ launches \in 0 .. MaxLaunches
  /\ powerLost \in BOOLEAN /\ saved \in BOOLEAN

(***************************************************************************)
(* A candle is traded at most once, in whatever lineage of crashes and     *)
(* resumptions the portfolio stands: docs/RISK_POLICY.md:99.               *)
(***************************************************************************)
NoCandleTradedTwice == \A c \in Candles : memory.portfolio[c] <= 1

(***************************************************************************)
(* Every candle this process has taken from a stream has entered the       *)
(* portfolio, the risk engine and the regime, all three, unless it carries *)
(* the very instant of a checkpoint the run was resumed from: a checkpoint *)
(* taken by one symbol at an instant hides what other symbols have yet to  *)
(* do at that instant, and nothing else.                                   *)
(***************************************************************************)
LostOnlyAtCheckpointInstant ==
  stage \in { "running", "finished" } =>
    \A c \in Candles :
      /\ memory.risk[c] = memory.portfolio[c]
      /\ memory.regime[c] = memory.portfolio[c]
      /\ c[2] < cursor[c[1]] /\ memory.portfolio[c] = 0
           => instants[c] \in memory.cuts

(***************************************************************************)
(* Once a checkpoint was completed there is always one to resume from,     *)
(* wherever the process dies, unless the machine lost power: the file is   *)
(* replaced in one step by a file that is complete.                        *)
(***************************************************************************)
CheckpointSurvivesDeath == saved /\ ~powerLost => Loadable(snapshot)
================================================================================
