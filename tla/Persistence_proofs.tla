-------------------------- MODULE Persistence_proofs --------------------------
(***************************************************************************)
(* What survives a crash: the backtest that resumes from a checkpoint, and *)
(* the evidence of an offline replay.                                      *)
(***************************************************************************)
EXTENDS ResumableBacktest, OfflineReplay, SequenceTheorems, TLAPS

--------------------------------------------------------------------------------
(***************************************************************************)
(* What a chain of crashes and resumptions does to the candles, for any    *)
(* number of streams, rows and launches and any interval: when the files   *)
(* are in order no candle is traded twice, and none is left out but at the *)
(* instant of a checkpoint.  The candles come in the order of time, so a   *)
(* checkpoint divides them by its instant; that is what the invariant      *)
(* says of the running program and of the file.                            *)
(***************************************************************************)

\* Types, and the order of the input.
BTypes ==
  /\ instants \in [ Candles -> 0 .. LatestInstant ]
  /\ SortedInput => Ordered(instants)
  /\ stage \in { "down", "running", "writing", "renaming", "finished" }
  /\ resumeTs \in NotResuming .. LatestInstant
  /\ cursor \in [ Streams -> 1 .. Rows + 1 ]
  /\ memory \in Memory /\ snapshot \in File

Passed(c) == c[2] < cursor[c[1]]

\* What was taken from the streams is no later than what waits there.
PassedIsEarlier ==
  \A c \in Candles, d \in Heap : Passed(c) => instants[c] <= instants[d]

\* What entered the portfolio will not be met again.
TradedIsBehind ==
  \A c \in Candles :
    memory.portfolio[c] >= 1 =>
      \/ Passed(c) \/ instants[c] <= resumeTs
      \/ stage # "running" /\ c = current

\* What the run will not meet again has been traded, or fell to a cut.
BehindIsTradedOrCut ==
  \A c \in Candles :
    Passed(c) \/ instants[c] <= resumeTs =>
      memory.portfolio[c] >= 1 \/ instants[c] \in memory.cuts

\* A checkpoint is being written at the earliest candle that waits.
WritingTheEarliest ==
  stage \in { "writing", "renaming" } =>
    /\ current \in Candles /\ Earliest(current) /\ resumeTs < instants[current]
    /\ memory.portfolio[current] >= 1

PartsAgree(m) == m.risk = m.portfolio /\ m.regime = m.portfolio

\* The file holds what came up to its instant.
DividedAt(m, ts) ==
  \A c \in Candles :
    /\ m.portfolio[c] <= 1
    /\ m.portfolio[c] >= 1 => instants[c] <= ts
    /\ instants[c] <= ts => m.portfolio[c] >= 1 \/ instants[c] \in m.cuts \cup { ts }

FileIsDivided ==
  Loadable(snapshot) =>
    PartsAgree(snapshot.payload) /\ DividedAt(snapshot.payload, snapshot.ts)

BacktestInv ==
  /\ BTypes /\ PassedIsEarlier /\ TradedIsBehind /\ BehindIsTradedOrCut
  /\ WritingTheEarliest /\ PartsAgree(memory) /\ FileIsDivided
  /\ NoCandleTradedTwice

--------------------------------------------------------------------------------

\* A candle is a stream and a row of it.
LEMMA CandleParts ==
  ASSUME NEW c \in Candles
  PROVE  c[1] \in Streams /\ c[2] \in 1 .. Rows /\ c = <<c[1], c[2]>>
BY DEF Candles

\* What waits in a stream is the row at its cursor.
LEMMA HeapRow ==
  ASSUME BTypes, NEW d \in Heap
  PROVE  d \in Candles /\ d[2] = cursor[d[1]]
<1>1. PICK s \in Streams : cursor[s] <= Rows /\ d = <<s, cursor[s]>>
  BY DEF Heap
<1>2. cursor[s] \in 1 .. Rows
  BY <1>1, BacktestAssumption DEF BTypes
<1> QED  BY <1>1, <1>2 DEF Candles

\* In ordered files everything before the earliest waiting candle has passed.
LEMMA EarlierHasPassed ==
  ASSUME SortedInput, BTypes, NEW e \in Candles, Earliest(e),
         NEW c \in Candles, instants[c] < instants[e]
  PROVE  Passed(c)
<1> SUFFICES ASSUME ~ Passed(c) PROVE FALSE
  OBVIOUS
<1> DEFINE s == c[1]
<1>1. s \in Streams /\ c[2] \in 1 .. Rows /\ c = <<s, c[2]>>
  BY CandleParts
<1>2. cursor[s] \in 1 .. Rows /\ cursor[s] <= c[2]
  BY <1>1, BacktestAssumption DEF BTypes, Passed
<1>3. <<s, cursor[s]>> \in Heap
  BY <1>1, <1>2 DEF Heap
<1>4. <<s, cursor[s]>> \in Candles
  BY <1>1, <1>2 DEF Candles
<1>5. instants[<<s, cursor[s]>>] <= instants[c]
  <2>1. CASE cursor[s] = c[2]
    BY <1>1, <1>4, <2>1 DEF BTypes
  <2>2. CASE cursor[s] < c[2]
    BY <1>1, <1>2, <2>2 DEF BTypes, Ordered
  <2> QED  BY <1>1, <1>2, <2>1, <2>2
<1>6. instants[e] <= instants[<<s, cursor[s]>>]
  BY <1>3 DEF Earliest
<1>7. instants[e] \in Nat /\ instants[c] \in Nat /\ instants[<<s, cursor[s]>>] \in Nat
  BY <1>4 DEF BTypes
<1> QED  BY <1>5, <1>6, <1>7

\* Taking the earliest candle keeps the streams in order and passes it alone.
LEMMA TakingTheEarliest ==
  ASSUME SortedInput, BTypes, PassedIsEarlier, NEW c \in Candles, Earliest(c),
         NextRow(c), UNCHANGED instants
  PROVE  /\ cursor' \in [ Streams -> 1 .. Rows + 1 ]
         /\ \A d \in Candles : Passed(d)' <=> Passed(d) \/ d = c
         /\ PassedIsEarlier'
<1>1. c[1] \in Streams /\ c[2] \in 1 .. Rows /\ c = <<c[1], c[2]>>
  BY CandleParts
<1>2. c \in Heap /\ cursor[c[1]] = c[2]
  BY HeapRow DEF Earliest
<1>3. cursor' \in [ Streams -> 1 .. Rows + 1 ]
  BY <1>1, <1>2, BacktestAssumption DEF NextRow, BTypes
<1>4. cursor' = [ cursor EXCEPT ![c[1]] = c[2] + 1 ]
  BY <1>1, <1>2 DEF NextRow, BTypes
<1>5. ASSUME NEW d \in Candles PROVE Passed(d)' <=> Passed(d) \/ d = c
  <2>1. d[1] \in Streams /\ d[2] \in 1 .. Rows /\ d = <<d[1], d[2]>>
    BY CandleParts
  <2>2. CASE d[1] = c[1]
    BY <1>1, <1>2, <1>4, <2>1, <2>2, BacktestAssumption DEF Passed, BTypes
  <2>3. CASE d[1] # c[1]
    BY <1>1, <1>4, <2>1, <2>3 DEF Passed, BTypes
  <2> QED  BY <2>2, <2>3
<1>6. ASSUME NEW d \in Heap' PROVE instants[c] <= instants[d] /\ d \in Candles
  <2>1. PICK s \in Streams : cursor'[s] <= Rows /\ d = <<s, cursor'[s]>>
    BY DEF Heap
  <2>2. CASE s = c[1]
    <3>1. d = <<c[1], c[2] + 1>> /\ c[2] + 1 \in 1 .. Rows
      BY <1>1, <1>4, <2>1, <2>2, BacktestAssumption DEF BTypes
    <3>2. \A i, j \in 1 .. Rows :
            i < j => instants[<<c[1], i>>] <= instants[<<c[1], j>>]
      BY <1>1 DEF BTypes, Ordered
    <3>3. c[2] < c[2] + 1
      BY <1>1, BacktestAssumption
    <3>4. instants[<<c[1], c[2]>>] <= instants[<<c[1], c[2] + 1>>]
      BY <1>1, <3>1, <3>2, <3>3
    <3> QED  BY <1>1, <3>1, <3>4 DEF Candles
  <2>3. CASE s # c[1]
    <3>1. d = <<s, cursor[s]>> /\ cursor[s] <= Rows
      BY <1>4, <2>1, <2>3 DEF BTypes
    <3>2. d \in Heap
      BY <3>1 DEF Heap
    <3> QED  BY <3>2, HeapRow DEF Earliest
  <2> QED  BY <2>2, <2>3
<1>7. PassedIsEarlier'
  <2> SUFFICES ASSUME NEW a \in Candles, NEW d \in Heap', Passed(a)'
               PROVE  instants[a] <= instants[d]
    BY DEF PassedIsEarlier
  <2>1. a = c \/ instants[a] <= instants[c]
    BY <1>2, <1>5 DEF PassedIsEarlier
  <2>2. instants[a] \in Nat /\ instants[c] \in Nat /\ instants[d] \in Nat
    BY <1>6 DEF BTypes
  <2> QED  BY <1>6, <2>1, <2>2
<1> QED  BY <1>3, <1>5, <1>7

\* The first start finds no file and an empty portfolio.
LEMMA BacktestInvInit ==
  ASSUME BacktestInit, SortedInput PROVE BacktestInv
<1> USE BacktestAssumption DEF BacktestInit
<1>1. /\ memory \in Memory /\ PartsAgree(memory)
      /\ \A c \in Candles : memory.portfolio[c] = 0
  BY DEF FreshMemory, Unread, Memory, PartsAgree
<1>2. BTypes
  BY <1>1 DEF BTypes, NotResuming, File
<1>3. \A c \in Candles : ~ Passed(c) /\ ~ (instants[c] <= resumeTs)
  <2> SUFFICES ASSUME NEW c \in Candles
               PROVE  ~ Passed(c) /\ ~ (instants[c] <= resumeTs)
    OBVIOUS
  <2>1. c[1] \in Streams /\ c[2] \in 1 .. Rows
    BY CandleParts
  <2>2. instants[c] \in 0 .. LatestInstant
    BY <1>2 DEF BTypes
  <2> QED  BY <2>1, <2>2 DEF Passed, NotResuming
<1>4. FileIsDivided
  BY DEF FileIsDivided, Loadable, NoFile
<1> QED
  BY <1>1, <1>2, <1>3, <1>4
     DEF BacktestInv, PassedIsEarlier, TradedIsBehind, BehindIsTradedOrCut,
         WritingTheEarliest, NoCandleTradedTwice

\* A launch starts from an empty portfolio before all time, or from the file.
LEMMA ConstructedKeepsInv ==
  ASSUME BacktestInv, UNCHANGED <<instants, snapshot>>,
         NEW m \in Memory, NEW ts \in NotResuming .. LatestInstant,
         Constructed(ts, m), PartsAgree(m), DividedAt(m, ts),
         \A c \in Candles : instants[c] <= ts =>
           m.portfolio[c] >= 1 \/ instants[c] \in m.cuts
  PROVE  BacktestInv'
<1>1. memory' = m /\ resumeTs' = ts /\ stage' = "running"
      /\ cursor' = [ s \in Streams |-> 1 ]
  BY DEF Constructed
<1>2. BTypes'
  BY <1>1, BacktestAssumption DEF BacktestInv, BTypes
<1>3. \A c \in Candles : ~ Passed(c)'
  BY <1>1, CandleParts DEF Passed
<1>4. PassedIsEarlier' /\ WritingTheEarliest' /\ PartsAgree(memory)' /\ FileIsDivided'
  BY <1>1, <1>3
     DEF BacktestInv, PassedIsEarlier, WritingTheEarliest, PartsAgree, FileIsDivided,
         DividedAt, Loadable
<1>5. TradedIsBehind' /\ BehindIsTradedOrCut' /\ NoCandleTradedTwice'
  BY <1>1, <1>3 DEF TradedIsBehind, BehindIsTradedOrCut, DividedAt, NoCandleTradedTwice
<1> QED  BY <1>2, <1>4, <1>5 DEF BacktestInv

\* A launch without --resume.
LEMMA StartFreshKeepsInv ==
  ASSUME BacktestInv, StartFresh PROVE BacktestInv'
<1>1. /\ FreshMemory \in Memory /\ PartsAgree(FreshMemory)
      /\ \A c \in Candles : FreshMemory.portfolio[c] = 0
  BY DEF FreshMemory, Unread, Memory, PartsAgree
<1>2. NotResuming \in NotResuming .. LatestInstant
  BY BacktestAssumption DEF NotResuming
<1>3. \A c \in Candles : ~ (instants[c] <= NotResuming)
  BY DEF BacktestInv, BTypes, NotResuming
<1>4. DividedAt(FreshMemory, NotResuming)
  BY <1>1, <1>3 DEF DividedAt
<1> QED
  BY <1>1, <1>2, <1>3, <1>4, ConstructedKeepsInv DEF StartFresh, fileVars

\* A launch with --resume that can load the file, or ends.
LEMMA StartResumedKeepsInv ==
  ASSUME BacktestInv, StartResumed PROVE BacktestInv'
<1>1. CASE Loadable(snapshot) /\ Constructed(snapshot.ts, Restored(snapshot))
  <2> DEFINE m == Restored(snapshot)
             p == snapshot.payload
  <2>1. p \in Memory /\ snapshot.ts \in 0 .. LatestInstant
    BY <1>1 DEF BacktestInv, BTypes, File, Loadable, NoFile, TornFile
  <2>2. /\ m \in Memory /\ m.portfolio = p.portfolio /\ m.risk = p.risk
        /\ m.regime = p.regime /\ m.cuts = p.cuts \cup { snapshot.ts }
    BY <2>1, BacktestAssumption DEF Restored, Memory
  <2>3. PartsAgree(p) /\ DividedAt(p, snapshot.ts)
    BY <1>1 DEF BacktestInv, FileIsDivided
  <2>4. snapshot.ts \in NotResuming .. LatestInstant
    BY <2>1, BacktestAssumption DEF NotResuming
  <2> HIDE DEF m, p
  <2>5. /\ PartsAgree(m) /\ DividedAt(m, snapshot.ts)
        /\ \A c \in Candles : instants[c] <= snapshot.ts =>
             m.portfolio[c] >= 1 \/ instants[c] \in m.cuts
    BY <2>2, <2>3 DEF PartsAgree, DividedAt
  <2>6. UNCHANGED <<instants, snapshot>> /\ Constructed(snapshot.ts, m)
    BY <1>1 DEF StartResumed, fileVars, m
  <2> QED  BY <2>2, <2>4, <2>5, <2>6, ConstructedKeepsInv
<1>2. CASE /\ ~ Loadable(snapshot) /\ stage' = "down"
           /\ UNCHANGED <<resumeTs, cursor, lastCheckpoint, memory, current>>
  <2>1. UNCHANGED <<instants, resumeTs, cursor, memory, current, snapshot>>
    BY <1>2 DEF StartResumed, fileVars
  <2> QED
    BY <1>2, <2>1
       DEF BacktestInv, BTypes, PassedIsEarlier, TradedIsBehind, BehindIsTradedOrCut,
           WritingTheEarliest, PartsAgree, FileIsDivided, DividedAt, Loadable, Passed,
           Heap, NoCandleTradedTwice
<1> QED  BY <1>1, <1>2 DEF StartResumed

\* A candle the file covers already is passed over.
LEMMA WarmUpKeepsInv ==
  ASSUME BacktestInv, SortedInput, NEW c \in Candles, WarmUp(c) PROVE BacktestInv'
<1>1. /\ stage = "running" /\ Earliest(c) /\ instants[c] <= resumeTs /\ NextRow(c)
      /\ UNCHANGED <<instants, stage, resumeTs, memory, current, snapshot>>
  BY DEF WarmUp, AlreadyCovered, fileVars
<1>2. /\ cursor' \in [ Streams -> 1 .. Rows + 1 ] /\ PassedIsEarlier'
      /\ \A d \in Candles : Passed(d)' <=> Passed(d) \/ d = c
  BY <1>1, TakingTheEarliest DEF BacktestInv
<1>3. BTypes' /\ WritingTheEarliest' /\ PartsAgree(memory)' /\ FileIsDivided'
  BY <1>1, <1>2 DEF BacktestInv, BTypes, WritingTheEarliest, PartsAgree, FileIsDivided,
                    DividedAt, Loadable
<1>4. TradedIsBehind' /\ BehindIsTradedOrCut' /\ NoCandleTradedTwice'
  BY <1>1, <1>2 DEF BacktestInv, TradedIsBehind, BehindIsTradedOrCut, NoCandleTradedTwice
<1> QED  BY <1>2, <1>3, <1>4 DEF BacktestInv

\* A candle that is processed enters all parts, and the portfolio had not seen
\* it.
LEMMA ProcessCandleKeepsInv ==
  ASSUME BacktestInv, SortedInput, NEW c \in Candles, ProcessCandle(c)
  PROVE  BacktestInv'
<1>1. /\ stage = "running" /\ Earliest(c) /\ ~ (instants[c] <= resumeTs)
      /\ memory' = Absorbed(c)
      /\ UNCHANGED <<instants, resumeTs, snapshot>>
      /\ \/ stage' = "writing" /\ current' = c /\ UNCHANGED cursor
         \/ stage' = "running" /\ current' = current /\ NextRow(c)
  BY DEF ProcessCandle, AlreadyCovered, fileVars
<1>2. c[2] = cursor[c[1]] /\ c[2] \in 1 .. Rows /\ c[1] \in Streams
  BY <1>1, HeapRow, CandleParts DEF Earliest, BacktestInv
<1>3. ~ Passed(c) /\ instants[c] \in Nat /\ resumeTs \in Int
  BY <1>2, BacktestAssumption DEF Passed, BacktestInv, BTypes, NotResuming
<1>4. memory \in Memory
  BY DEF BacktestInv, BTypes
<1>5. memory.portfolio[c] = 0
  BY <1>1, <1>3, <1>4 DEF BacktestInv, TradedIsBehind, Memory
<1>6. /\ memory' \in Memory /\ PartsAgree(memory') /\ memory'.cuts = memory.cuts
      /\ memory'.portfolio[c] = 1
      /\ \A d \in Candles : d # c => memory'.portfolio[d] = memory.portfolio[d]
  <2>1. memory' = [ portfolio |-> [ memory.portfolio EXCEPT ![c] = @ + 1 ],
                    risk |-> [ memory.risk EXCEPT ![c] = @ + 1 ],
                    regime |-> [ memory.regime EXCEPT ![c] = @ + 1 ],
                    cuts |-> memory.cuts ]
    BY <1>1, <1>4 DEF Absorbed, Memory
  <2>2. /\ memory.portfolio \in [ Candles -> Nat ] /\ memory.cuts \in SUBSET (0 .. LatestInstant)
        /\ memory.risk = memory.portfolio /\ memory.regime = memory.portfolio
    BY <1>4 DEF Memory, BacktestInv, PartsAgree
  <2>3. [ memory.portfolio EXCEPT ![c] = @ + 1 ] \in [ Candles -> Nat ]
    BY <2>2
  <2>4. memory' \in Memory /\ PartsAgree(memory') /\ memory'.cuts = memory.cuts
    BY <2>1, <2>2, <2>3 DEF Memory, PartsAgree
  <2>5. memory'.portfolio = [ memory.portfolio EXCEPT ![c] = @ + 1 ]
    BY <2>1
  <2> QED  BY <1>5, <2>2, <2>4, <2>5
<1>7. NoCandleTradedTwice'
  BY <1>6 DEF BacktestInv, NoCandleTradedTwice
<1>8. FileIsDivided'
  BY <1>1 DEF BacktestInv, FileIsDivided, DividedAt, Loadable
<1>9. CASE stage' = "writing" /\ current' = c /\ UNCHANGED cursor
  <2>1. BTypes' /\ PassedIsEarlier'
    BY <1>1, <1>6, <1>9 DEF BacktestInv, BTypes, PassedIsEarlier, Heap, Passed
  <2>2. TradedIsBehind' /\ BehindIsTradedOrCut'
    BY <1>1, <1>6, <1>9 DEF BacktestInv, TradedIsBehind, BehindIsTradedOrCut, Passed
  <2>3. WritingTheEarliest'
    BY <1>1, <1>3, <1>6, <1>9 DEF WritingTheEarliest, Earliest, Heap
  <2> QED  BY <1>6, <1>7, <1>8, <2>1, <2>2, <2>3 DEF BacktestInv
<1>10. CASE stage' = "running" /\ current' = current /\ NextRow(c)
  <2>1. /\ cursor' \in [ Streams -> 1 .. Rows + 1 ] /\ PassedIsEarlier'
        /\ \A d \in Candles : Passed(d)' <=> Passed(d) \/ d = c
    BY <1>1, <1>10, TakingTheEarliest DEF BacktestInv
  <2>2. BTypes' /\ WritingTheEarliest'
    BY <1>1, <1>6, <1>10, <2>1 DEF BacktestInv, BTypes, WritingTheEarliest
  <2>3. TradedIsBehind' /\ BehindIsTradedOrCut'
    BY <1>1, <1>6, <1>10, <2>1 DEF BacktestInv, TradedIsBehind, BehindIsTradedOrCut
  <2> QED  BY <1>6, <1>7, <1>8, <2>1, <2>2, <2>3 DEF BacktestInv
<1> QED  BY <1>1, <1>9, <1>10

\* What is renamed is divided at the instant of the candle it was taken at.
LEMMA ReplaceSnapshotKeepsInv ==
  ASSUME BacktestInv, SortedInput, ReplaceSnapshot PROVE BacktestInv'
<1> DEFINE ts == instants[current]
<1>1. /\ stage = "renaming" /\ stage' = "running"
      /\ snapshot' = Encoded(ts, memory) /\ NextRow(current) /\ current' = NoCandle
      /\ UNCHANGED <<instants, resumeTs, memory>>
  BY DEF ReplaceSnapshot
<1>2. /\ current \in Candles /\ Earliest(current) /\ resumeTs < ts
      /\ memory.portfolio[current] >= 1
  BY <1>1 DEF BacktestInv, WritingTheEarliest
<1>3. /\ cursor' \in [ Streams -> 1 .. Rows + 1 ] /\ PassedIsEarlier'
      /\ \A d \in Candles : Passed(d)' <=> Passed(d) \/ d = current
  BY <1>1, <1>2, TakingTheEarliest DEF BacktestInv
<1>4. memory \in Memory /\ ts \in 0 .. LatestInstant /\ resumeTs \in Int
      /\ \A c \in Candles : instants[c] \in Nat
  BY <1>2 DEF BacktestInv, BTypes, NotResuming
<1>5. /\ snapshot'.state = "whole" /\ snapshot'.ts = ts /\ snapshot'.payload = memory
      /\ snapshot' \in File
  BY <1>1, <1>4
     DEF Encoded, Payload, PortfolioPart, RiskPart, RegimePart, Memory, File
<1> HIDE DEF ts
<1>6. ASSUME NEW c \in Candles, memory.portfolio[c] >= 1 PROVE instants[c] <= ts
  <2>1. \/ Passed(c) \/ instants[c] <= resumeTs \/ c = current
    BY <1>6 DEF BacktestInv, TradedIsBehind
  <2>2. Passed(c) => instants[c] <= ts
    BY <1>2 DEF BacktestInv, PassedIsEarlier, Earliest, ts
  <2> QED  BY <1>2, <1>4, <2>1, <2>2 DEF ts
<1>7. ASSUME NEW c \in Candles, instants[c] <= ts
      PROVE  memory.portfolio[c] >= 1 \/ instants[c] \in memory.cuts \cup { ts }
  <2>1. CASE instants[c] = ts
    BY <2>1
  <2>2. CASE instants[c] < ts
    <3>1. Passed(c)
      BY <1>2, <2>2, EarlierHasPassed DEF BacktestInv, ts
    <3> QED  BY <3>1 DEF BacktestInv, BehindIsTradedOrCut
  <2> QED  BY <1>4, <1>7, <2>1, <2>2
<1>8. \A c \in Candles : memory.portfolio[c] <= 1
  BY DEF BacktestInv, NoCandleTradedTwice
<1>9. DividedAt(memory, ts)
  BY <1>6, <1>7, <1>8 DEF DividedAt
<1>10. FileIsDivided'
  BY <1>1, <1>5, <1>9 DEF FileIsDivided, DividedAt, BacktestInv, PartsAgree
<1>11. BTypes' /\ WritingTheEarliest' /\ PartsAgree(memory)' /\ NoCandleTradedTwice'
  BY <1>1, <1>3, <1>5
     DEF BacktestInv, BTypes, WritingTheEarliest, PartsAgree, NoCandleTradedTwice
<1>12. TradedIsBehind' /\ BehindIsTradedOrCut'
  BY <1>1, <1>2, <1>3 DEF BacktestInv, TradedIsBehind, BehindIsTradedOrCut
<1> QED  BY <1>3, <1>10, <1>11, <1>12 DEF BacktestInv

\* Writing the temporary file, an end by itself, by an exception or by a kill
\* change at most where the program is, and whether the file is torn.
LEMMA OtherStepsKeepInv ==
  ASSUME BacktestInv,
         WriteTemporary \/ CheckpointFails \/ Finish \/ Die \/ UNCHANGED backtestVars
  PROVE  BacktestInv'
<1>1. /\ UNCHANGED <<instants, resumeTs, cursor, memory, current>>
      /\ snapshot' \in { snapshot, TornFile }
      /\ stage' \in { "down", "running", "writing", "renaming", "finished" }
      /\ stage' = "running" => stage = "running"
      /\ stage' \in { "writing", "renaming" } => stage \in { "writing", "renaming" }
  BY DEF WriteTemporary, CheckpointFails, Finish, Die, backtestVars, mainVars, fileVars,
         BacktestInv, BTypes
<1>2. BTypes' /\ PassedIsEarlier' /\ TradedIsBehind' /\ BehindIsTradedOrCut'
  BY <1>1 DEF BacktestInv, BTypes, PassedIsEarlier, TradedIsBehind, BehindIsTradedOrCut,
              Passed, Heap, File
<1>3. WritingTheEarliest' /\ PartsAgree(memory)' /\ NoCandleTradedTwice'
  BY <1>1 DEF BacktestInv, WritingTheEarliest, Earliest, Heap, PartsAgree,
              NoCandleTradedTwice
<1>4. FileIsDivided'
  <2>1. CASE snapshot' = snapshot
    BY <1>1, <2>1 DEF BacktestInv, FileIsDivided, DividedAt, Loadable
  <2>2. CASE snapshot' = TornFile
    BY <2>2 DEF FileIsDivided, Loadable, TornFile
  <2> QED  BY <1>1, <2>1, <2>2
<1> QED  BY <1>2, <1>3, <1>4 DEF BacktestInv

--------------------------------------------------------------------------------

\* A run on ordered files keeps BacktestInv, whatever kills it and however often
\* it is started again.
THEOREM BacktestSafe ==
  ASSUME SortedInput PROVE BacktestSpec => []BacktestInv
<1>1. BacktestInit => BacktestInv
  BY BacktestInvInit
<1>2. BacktestInv /\ [BacktestNext]_backtestVars => BacktestInv'
  <2> SUFFICES ASSUME BacktestInv, [BacktestNext]_backtestVars PROVE BacktestInv'
    OBVIOUS
  <2>1. CASE StartFresh \/ StartResumed
    BY <2>1, StartFreshKeepsInv, StartResumedKeepsInv
  <2>2. ASSUME NEW c \in Candles, WarmUp(c) \/ ProcessCandle(c) PROVE BacktestInv'
    BY <2>2, WarmUpKeepsInv, ProcessCandleKeepsInv
  <2>3. CASE ReplaceSnapshot
    BY <2>3, ReplaceSnapshotKeepsInv
  <2>4. CASE WriteTemporary \/ CheckpointFails \/ Finish \/ Die \/ UNCHANGED backtestVars
    BY <2>4, OtherStepsKeepInv
  <2> QED  BY <2>1, <2>2, <2>3, <2>4 DEF BacktestNext
<1> QED  BY <1>1, <1>2, PTL DEF BacktestSpec

\* Over all crashes and resumptions a candle of an ordered file is traded once
\* at most.
THEOREM NoneTradedTwice ==
  ASSUME SortedInput PROVE BacktestSpec => []NoCandleTradedTwice
<1>1. BacktestInv => NoCandleTradedTwice
  BY DEF BacktestInv
<1> QED  BY <1>1, BacktestSafe, PTL

\* What a run on ordered files leaves out carries the instant of a checkpoint,
\* and all parts of the program have seen the same candles.
THEOREM LostOnlyAtCuts ==
  ASSUME SortedInput PROVE BacktestSpec => []LostOnlyAtCheckpointInstant
<1>1. ASSUME BacktestInv PROVE LostOnlyAtCheckpointInstant
  <2>1. \A c \in Candles : memory.portfolio[c] \in Nat
    BY <1>1 DEF BacktestInv, BTypes, Memory
  <2> QED
    BY <1>1, <2>1
       DEF LostOnlyAtCheckpointInstant, BacktestInv, BehindIsTradedOrCut, Passed,
           PartsAgree
<1> QED  BY <1>1, BacktestSafe, PTL

\* Once a checkpoint was completed there is one to load, unless power was lost;
\* the order of the files does not matter.
THEOREM CheckpointIsThere == BacktestSpec => []CheckpointSurvivesDeath
<1>1. BacktestInit => CheckpointSurvivesDeath
  BY DEF BacktestInit, CheckpointSurvivesDeath
<1>2. CheckpointSurvivesDeath /\ [BacktestNext]_backtestVars => CheckpointSurvivesDeath'
  <2> SUFFICES ASSUME CheckpointSurvivesDeath, [BacktestNext]_backtestVars
               PROVE  CheckpointSurvivesDeath'
    OBVIOUS
  <2>1. \/ UNCHANGED fileVars \/ ReplaceSnapshot \/ Die
    BY DEF BacktestNext, StartFresh, StartResumed, WarmUp, ProcessCandle,
           WriteTemporary, CheckpointFails, Finish, backtestVars
  <2>2. CASE UNCHANGED fileVars
    BY <2>2, Zenon DEF CheckpointSurvivesDeath, Loadable, fileVars
  <2>3. CASE ReplaceSnapshot
    BY <2>3 DEF ReplaceSnapshot, CheckpointSurvivesDeath, Loadable, Encoded
  <2>4. CASE Die
    <3>1. /\ saved' = saved
          /\ \/ snapshot' = snapshot /\ powerLost' = powerLost
             \/ powerLost' = TRUE
      BY <2>4, Zenon DEF Die
    <3> QED  BY <3>1, Zenon DEF CheckpointSurvivesDeath, Loadable
  <2> QED  BY <2>1, <2>2, <2>3, <2>4
<1> QED  BY <1>1, <1>2, PTL DEF BacktestSpec

--------------------------------------------------------------------------------
(***************************************************************************)
(* The evidence of an offline replay is whole or not there, and a replay   *)
(* that claims success replayed every candle in order, for any inputs, any *)
(* number of writes and of launches.  The invariant follows what is known  *)
(* of the file from step to step: what it will say is fixed when the       *)
(* replay ends, all of it is in the temporary file before that is          *)
(* synchronised, and only a synchronised file is renamed.                  *)
(***************************************************************************)

\* Terminal results and events.
Words ==
  Results \cup { "ManifestAccepted", "InputAccepted", "ReplayStarted", "ReplayProgress",
                "MalformedInput" }

Files == [ events : Seq(Words), terminal : Words, written : 0 .. Pieces ]

Directories == [ exists : BOOLEAN, partial : Files, result : Files,
                 synced : BOOLEAN, renamed : BOOLEAN ]

Manifests == [ input : Seq(Nat), limit : Nat, valid : BOOLEAN, pinned : BOOLEAN,
               sink : BOOLEAN ]

\* What is where.
ReplayTypes ==
  /\ replayAt \in { "down", "checking", "replaying" } \cup Writing
  /\ manifest \in Manifests /\ line \in 0 .. Len(manifest.input) /\ lastStamp \in Nat
  /\ events \in Seq(Words) /\ terminal \in Words
  /\ evidence \in Directories

\* The candles replayed so far are in order.
InOrder(n) == \A i \in 2 .. n : manifest.input[i - 1] < manifest.input[i]

LinesInOrder ==
  InOrder(line) /\ (line > 0 => lastStamp = manifest.input[line])

\* What a replay says when it ends.
Outcome(said, t) ==
  /\ Last(said) = TerminalCode(t)
  /\ t = "Completed" => said = CompleteEvidence /\ line = Len(manifest.input)

Started == << "ManifestAccepted", "InputAccepted", "ReplayStarted" >>

Said ==
  /\ replayAt = "replaying" => events = Started
  /\ replayAt \in Writing => Outcome(events, terminal)

\* How far the file of this launch is.
OwnFile ==
  /\ replayAt \in { "created", "writing", "synced", "renamed" } =>
       evidence.exists /\ ~ evidence.renamed
  /\ replayAt \in { "created", "writing" } => ~ evidence.synced
  /\ replayAt \in { "created", "writing", "synced" } => evidence.result = Nothing
  /\ replayAt \in { "writing", "synced" } =>
       evidence.partial.events = events /\ evidence.partial.terminal = terminal
  /\ replayAt = "synced" => evidence.synced /\ evidence.partial.written = Pieces
  /\ replayAt = "renamed" => evidence.synced /\ evidence.result.terminal = terminal

\* What can be said of the directory whoever wrote it.
AnyFile ==
  /\ evidence.renamed => evidence.exists /\ evidence.synced
  /\ evidence.result # Nothing =>
       evidence.exists /\ evidence.synced /\ ResultIsWhole(evidence.result)

\* What exit code 0 means.
Success ==
  exitCode = 0 =>
    /\ replayAt = "down"
    /\ \/ evidence.renamed /\ evidence.result.terminal = "Completed"
       \/ evidence = NoDirectory
    /\ line = Len(manifest.input) /\ InOrder(line)

ReplayInv ==
  ReplayTypes /\ LinesInOrder /\ Said /\ OwnFile /\ AnyFile /\ Success

--------------------------------------------------------------------------------

\* An empty record of events is one.
LEMMA NothingIsFile ==
  Nothing \in Files /\ <<>> \in Seq(Words) /\ <<>> \in Seq(Nat) /\ Len(<<>>) = 0
<1>1. <<>> \in Seq(Words) /\ <<>> \in Seq(Nat)
  BY EmptySeq
<1>2. 0 \in 0 .. Pieces /\ "none" \in Words
  BY ReplayAssumption DEF Words, Results
<1>3. Nothing \in Files
  BY <1>1, <1>2 DEF Nothing, Files
<1> QED  BY <1>1, <1>3, EmptySeq

\* Nothing has run, there is no directory.
LEMMA ReplayInvInit ==
  ASSUME ReplayInit PROVE ReplayInv
<1>1. ReplayTypes
  <2>1. NoDirectory \in Directories /\ NoManifest \in Manifests
        /\ NoManifest.input = <<>>
    BY NothingIsFile DEF NoManifest, Manifests, NoDirectory, Directories
  <2>2. "none" \in Words
    BY DEF Words, Results
  <2> QED  BY <2>1, <2>2, NothingIsFile DEF ReplayInit, ReplayTypes
<1>2. InOrder(line)
  BY DEF ReplayInit, InOrder
<1> QED
  BY <1>1, <1>2
     DEF ReplayInit, ReplayInv, LinesInOrder, Said, Writing, OwnFile, AnyFile, Success,
         NoDirectory, NoExit

\* The last event of a sequence is the one appended.
LEMMA LastOfAppend ==
  ASSUME NEW s \in Seq(Words), NEW e \in Words
  PROVE  Append(s, e) \in Seq(Words) /\ Last(Append(s, e)) = e
BY AppendProperties DEF Last

\* finish() leaves a sequence that ends with what happened, and one that says
\* "Completed" only if that was asked for.
LEMMA FinishSaysOutcome ==
  ASSUME NEW before \in Seq(Words), NEW t \in Words,
         t = "Completed" => Append(before, "Completed") = CompleteEvidence
                            /\ line' = Len(manifest.input)',
         FinishReplay(before, t)
  PROVE  /\ replayAt' = "finished" /\ events' \in Seq(Words) /\ terminal' \in Words
         /\ Outcome(events, terminal)'
<1>1. TerminalCode(t) \in Words
  BY DEF TerminalCode, Words, Results
<1>2. CASE terminal' = t /\ events' = Append(before, TerminalCode(t))
  <2>1. events' \in Seq(Words) /\ Last(events') = TerminalCode(t)
    BY <1>1, <1>2, LastOfAppend
  <2>2. t = "Completed" => TerminalCode(t) = "Completed"
    BY DEF TerminalCode
  <2> QED  BY <1>2, <2>1, <2>2 DEF FinishReplay, Outcome
<1>3. CASE /\ terminal' = "EvidenceIncomplete"
           /\ events' = before \o << TerminalCode(t), "EvidenceIncomplete" >>
  <2>1. /\ before \o << TerminalCode(t), "EvidenceIncomplete" >> \in Seq(Words)
        /\ Last(before \o << TerminalCode(t), "EvidenceIncomplete" >>) = "EvidenceIncomplete"
    <3> DEFINE pair == << TerminalCode(t), "EvidenceIncomplete" >>
    <3>0. "EvidenceIncomplete" \in Words
      BY DEF Words, Results
    <3>1. pair \in Seq(Words) /\ Len(pair) = 2 /\ pair[2] = "EvidenceIncomplete"
      BY <1>1, <3>0
    <3>2. Len(before) \in Nat
      BY LenProperties
    <3> HIDE DEF pair
    <3>3. /\ before \o pair \in Seq(Words) /\ Len(before \o pair) = Len(before) + Len(pair)
          /\ \A i \in 1 .. Len(before) + Len(pair) :
               (before \o pair)[i] = IF i <= Len(before) THEN before[i]
                                     ELSE pair[i - Len(before)]
      BY <3>1, ConcatProperties, Zenon
    <3>4. Last(before \o pair) = "EvidenceIncomplete"
      <4>1. Len(before) + 2 \in 1 .. Len(before) + Len(pair)
            /\ ~ (Len(before) + 2 <= Len(before))
            /\ Len(before) + 2 - Len(before) = 2
        BY <3>1, <3>2
      <4>2. (before \o pair)[Len(before) + 2] = pair[2]
        BY <3>3, <4>1
      <4> QED  BY <3>1, <3>3, <4>2 DEF Last
    <3> QED  BY <3>3, <3>4 DEF pair
  <2>2. TerminalCode("EvidenceIncomplete") = "EvidenceIncomplete"
        /\ "EvidenceIncomplete" \in Words
    BY DEF TerminalCode, Words, Results
  <2> QED  BY <1>3, <2>1, <2>2 DEF FinishReplay, Outcome
<1> QED  BY <1>2, <1>3 DEF FinishReplay

--------------------------------------------------------------------------------
(***************************************************************************)
(* The replay, up to its end.                                              *)
(***************************************************************************)

\* A replay that ends keeps the invariant when what it says is right.
LEMMA EndingKeepsInv ==
  ASSUME ReplayInv, replayAt \in { "checking", "replaying" }, replayAt' = "finished",
         events' \in Seq(Words), terminal' \in Words, Outcome(events, terminal)',
         line' \in 0 .. Len(manifest.input), LinesInOrder', lastStamp' = lastStamp,
         UNCHANGED <<manifest, evidence, exitCode>>
  PROVE  ReplayInv'
<1>1. ReplayTypes'
  BY DEF ReplayInv, ReplayTypes, Writing
<1>2. Said' /\ OwnFile' /\ AnyFile' /\ Success'
  BY DEF ReplayInv, Said, OwnFile, AnyFile, Success
<1> QED  BY <1>1, <1>2 DEF ReplayInv

\* A sequence that goes on with one element is what appending it gives.
LEMMA AppendIs ==
  ASSUME NEW S, NEW s \in Seq(S), NEW t \in Seq(S), NEW e \in S,
         Len(t) = Len(s) + 1, t[Len(t)] = e, \A i \in 1 .. Len(s) : s[i] = t[i]
  PROVE  Append(s, e) = t
<1> DEFINE u == Append(s, e)
<1>1. Len(s) \in Nat
  BY LenProperties
<1>2. /\ u \in Seq(S) /\ Len(u) = Len(s) + 1 /\ u[Len(s) + 1] = e
      /\ \A i \in 1 .. Len(s) : u[i] = s[i]
  BY AppendProperties
<1> HIDE DEF u
<1>3. \A i \in 1 .. Len(u) : u[i] = t[i]
  BY <1>1, <1>2
<1>4. u = t
  BY <1>2, <1>3, SeqEqual
<1> QED  BY <1>4 DEF u

\* What a replay has said until it ends is a sequence of events.
LEMMA SaidIsSequence ==
  /\ <<>> \in Seq(Words) /\ << "ManifestAccepted" >> \in Seq(Words)
  /\ << "ManifestAccepted", "InputAccepted" >> \in Seq(Words)
  /\ Started \in Seq(Words) /\ Append(Started, "ReplayProgress") \in Seq(Words)
  /\ Append(Append(Started, "ReplayProgress"), "Completed") = CompleteEvidence
<1>1. { "ManifestAccepted", "InputAccepted", "ReplayStarted", "ReplayProgress" }
        \subseteq Words
  BY DEF Words
<1>2. /\ << "ManifestAccepted" >> \in Seq(Words)
      /\ << "ManifestAccepted", "InputAccepted" >> \in Seq(Words)
      /\ Started \in Seq(Words)
  BY <1>1 DEF Started
<1> DEFINE four == << "ManifestAccepted", "InputAccepted", "ReplayStarted",
                      "ReplayProgress" >>
<1>3. Append(Started, "ReplayProgress") = four
  <2>1. Started \in Seq(Words) /\ four \in Seq(Words) /\ "ReplayProgress" \in Words
    BY <1>1, <1>2
  <2>2. /\ Len(four) = Len(Started) + 1 /\ four[Len(four)] = "ReplayProgress"
        /\ \A i \in 1 .. Len(Started) : Started[i] = four[i]
    BY DEF Started
  <2> HIDE DEF four
  <2> QED  BY <2>1, <2>2, AppendIs
<1>4. Append(four, "Completed") = CompleteEvidence
  <2>1. four \in Seq(Words) /\ CompleteEvidence \in Seq(Words) /\ "Completed" \in Words
    BY <1>1 DEF CompleteEvidence, Words, Results
  <2>2. /\ Len(CompleteEvidence) = Len(four) + 1
        /\ CompleteEvidence[Len(CompleteEvidence)] = "Completed"
        /\ \A i \in 1 .. Len(four) : four[i] = CompleteEvidence[i]
    BY DEF CompleteEvidence
  <2> HIDE DEF four
  <2> QED  BY <2>1, <2>2, AppendIs
<1> HIDE DEF four
<1> QED  BY <1>1, <1>2, <1>3, <1>4, EmptySeq, LastOfAppend

\* A launch begins with nothing replayed.
LEMMA NewReplayKeepsInv ==
  ASSUME ReplayInv, LaunchRefused \/ LaunchReplay PROVE ReplayInv'
<1>1. /\ replayAt = "down" /\ line' = 0 /\ lastStamp' = 0 /\ events' = <<>>
      /\ terminal' = "none" /\ UNCHANGED evidence /\ exitCode' # 0
      /\ replayAt' \in { "down", "checking" }
  BY DEF LaunchRefused, LaunchReplay, NewReplay, NoExit
<1>2. manifest' \in Manifests
  <2>1. CASE LaunchRefused
    BY <2>1 DEF LaunchRefused, ReplayInv, ReplayTypes
  <2>2. CASE LaunchReplay
    BY <2>2, ReplayAssumption DEF LaunchReplay, Manifests
  <2> QED  BY <2>1, <2>2
<1>3. Len(manifest'.input) \in Nat /\ "none" \in Words
  BY <1>2, LenProperties DEF Manifests, Words, Results
<1>4. ReplayTypes'
  BY <1>1, <1>2, <1>3, NothingIsFile DEF ReplayInv, ReplayTypes
<1>5. LinesInOrder'
  BY <1>1 DEF LinesInOrder, InOrder
<1>6. Said' /\ OwnFile' /\ AnyFile' /\ Success'
  BY <1>1 DEF ReplayInv, Said, OwnFile, AnyFile, Success, Writing
<1> QED  BY <1>4, <1>5, <1>6 DEF ReplayInv

\* run(), up to the first line.
LEMMA CheckManifestKeepsInv ==
  ASSUME ReplayInv, CheckManifest PROVE ReplayInv'
<1>1. /\ replayAt = "checking"
      /\ UNCHANGED <<manifest, line, lastStamp, evidence, exitCode>>
  BY DEF CheckManifest
<1>2. line' \in 0 .. Len(manifest.input) /\ LinesInOrder'
  BY <1>1 DEF ReplayInv, ReplayTypes, LinesInOrder, InOrder
<1>3. { "ManifestRejected", "EvidenceIncomplete", "InputRejected" } \subseteq Words
  BY DEF Words, Results
<1>4. ASSUME NEW before \in Seq(Words),
             NEW t \in { "ManifestRejected", "EvidenceIncomplete", "InputRejected" },
             FinishReplay(before, t)
      PROVE  ReplayInv'
  <2>1. /\ replayAt' = "finished" /\ events' \in Seq(Words) /\ terminal' \in Words
        /\ Outcome(events, terminal)'
    BY <1>3, <1>4, FinishSaysOutcome
  <2> QED  BY <1>1, <1>2, <2>1, EndingKeepsInv
<1>5. CASE replayAt' = "replaying" /\ events' = Started /\ UNCHANGED terminal
  BY <1>1, <1>2, <1>5, SaidIsSequence
     DEF ReplayInv, ReplayTypes, Said, OwnFile, AnyFile, Success, Writing
<1>6. \/ replayAt' = "replaying" /\ events' = Started /\ UNCHANGED terminal
      \/ FinishReplay(<<>>, "ManifestRejected")
      \/ FinishReplay(<< "ManifestAccepted" >>, "EvidenceIncomplete")
      \/ FinishReplay(<< "ManifestAccepted" >>, "InputRejected")
      \/ FinishReplay(<< "ManifestAccepted", "InputAccepted" >>, "EvidenceIncomplete")
      \/ FinishReplay(Started, "EvidenceIncomplete")
  BY DEF CheckManifest, Started
<1> QED  BY <1>4, <1>5, <1>6, SaidIsSequence

\* One line: it is refused, or later than the last one.
LEMMA ReplayLineKeepsInv ==
  ASSUME ReplayInv, ReplayLine PROVE ReplayInv'
<1>1. /\ replayAt = "replaying" /\ line < Len(manifest.input)
      /\ UNCHANGED <<manifest, evidence, exitCode>>
  BY DEF ReplayLine
<1>2. /\ manifest.input \in Seq(Nat) /\ Len(manifest.input) \in Nat
      /\ line \in 0 .. Len(manifest.input) /\ lastStamp \in Nat
      /\ events \in Seq(Words) /\ LinesInOrder
  BY LenProperties DEF ReplayInv, ReplayTypes, Manifests
<1>3. { "Cancelled", "TimedOut", "ResourceExhausted", "InputRejected" } \subseteq Words
  BY DEF Words, Results
<1>4. ASSUME NEW t \in { "Cancelled", "TimedOut", "ResourceExhausted", "InputRejected" },
             FinishReplay(events, t), UNCHANGED <<line, lastStamp>>
      PROVE  ReplayInv'
  <2>1. /\ replayAt' = "finished" /\ events' \in Seq(Words) /\ terminal' \in Words
        /\ Outcome(events, terminal)'
    BY <1>2, <1>3, <1>4, FinishSaysOutcome
  <2>2. line' \in 0 .. Len(manifest.input) /\ LinesInOrder' /\ lastStamp' = lastStamp
    BY <1>1, <1>2, <1>4 DEF LinesInOrder, InOrder
  <2> QED  BY <1>1, <2>1, <2>2, EndingKeepsInv
<1>5. CASE /\ line' = line + 1 /\ lastStamp' = manifest.input[line + 1]
           /\ line = 0 \/ ~ (lastStamp' <= lastStamp)
           /\ UNCHANGED <<replayAt, events, terminal>>
  <2>1. line + 1 \in 1 .. Len(manifest.input) /\ manifest.input[line + 1] \in Nat
    <3>1. line + 1 \in 1 .. Len(manifest.input)
      BY <1>1, <1>2
    <3> QED  BY <1>2, <3>1, ElementOfSeq
  <2>2. line > 0 => manifest.input[line] < manifest.input[line + 1]
    BY <1>2, <1>5, <2>1 DEF LinesInOrder
  <2>3. LinesInOrder'
    <3>1. ASSUME NEW i \in 2 .. line + 1
          PROVE  manifest.input[i - 1] < manifest.input[i]
      <4>1. CASE i = line + 1
        BY <1>2, <2>2, <4>1
      <4>2. CASE i # line + 1
        BY <1>2, <4>2 DEF LinesInOrder, InOrder
      <4> QED  BY <4>1, <4>2
    <3> QED  BY <1>1, <1>2, <1>5, <3>1 DEF LinesInOrder, InOrder
  <2>4. ReplayTypes'
    BY <1>1, <1>2, <1>5, <2>1 DEF ReplayInv, ReplayTypes
  <2> QED
    BY <1>1, <1>5, <2>3, <2>4
       DEF ReplayInv, Said, OwnFile, AnyFile, Success, Writing
<1>6. \/ \E t \in { "Cancelled", "TimedOut", "ResourceExhausted", "InputRejected" } :
           FinishReplay(events, t) /\ UNCHANGED <<line, lastStamp>>
      \/ /\ line' = line + 1 /\ lastStamp' = manifest.input[line + 1]
         /\ line = 0 \/ ~ (lastStamp' <= lastStamp)
         /\ UNCHANGED <<replayAt, events, terminal>>
  <2>1. line > 0 \/ line = 0
    BY <1>2
  <2> QED  BY <2>1 DEF ReplayLine
<1> QED  BY <1>4, <1>5, <1>6

\* After the last line: only a replay of all lines is completed.
LEMMA EndOfInputKeepsInv ==
  ASSUME ReplayInv, EndOfInput PROVE ReplayInv'
<1>1. /\ replayAt = "replaying" /\ line = Len(manifest.input) /\ events = Started
      /\ events \in Seq(Words)
      /\ UNCHANGED <<manifest, line, lastStamp, evidence, exitCode>>
  BY DEF EndOfInput, ReplayInv, Said, ReplayTypes
<1>2. line' \in 0 .. Len(manifest.input) /\ LinesInOrder'
  BY <1>1 DEF ReplayInv, ReplayTypes, LinesInOrder, InOrder
<1>3. { "Cancelled", "InputRejected", "TimedOut", "Completed", "EvidenceIncomplete" }
        \subseteq Words
  BY DEF Words, Results
<1>4. ASSUME NEW before \in Seq(Words),
             NEW t \in { "Cancelled", "InputRejected", "TimedOut", "Completed",
                        "EvidenceIncomplete" },
             t = "Completed" => before = Append(Started, "ReplayProgress"),
             FinishReplay(before, t)
      PROVE  ReplayInv'
  <2>1. t = "Completed" => Append(before, "Completed") = CompleteEvidence
                           /\ line' = Len(manifest.input)'
    BY <1>1, <1>4, SaidIsSequence
  <2>2. /\ replayAt' = "finished" /\ events' \in Seq(Words) /\ terminal' \in Words
        /\ Outcome(events, terminal)'
    BY <1>3, <1>4, <2>1, FinishSaysOutcome
  <2> QED  BY <1>1, <1>2, <2>2, EndingKeepsInv
<1>5. \/ \E t \in { "Cancelled", "InputRejected", "TimedOut" } : FinishReplay(events, t)
      \/ \E t \in { "Completed", "EvidenceIncomplete" } :
           FinishReplay(Append(Started, "ReplayProgress"), t)
  BY <1>1 DEF EndOfInput
<1> QED  BY <1>1, <1>4, <1>5, SaidIsSequence

\* An exception: nothing was said but that.
LEMMA ReplayThrowsKeepsInv ==
  ASSUME ReplayInv, ReplayThrows PROVE ReplayInv'
<1>1. /\ replayAt \in { "checking", "replaying" } /\ line' = 0
      /\ FinishReplay(<<>>, "InternalFailure")
      /\ UNCHANGED <<manifest, lastStamp, evidence, exitCode>>
  BY DEF ReplayThrows
<1>2. "InternalFailure" \in Words /\ <<>> \in Seq(Words)
  BY SaidIsSequence DEF Words, Results
<1>3. /\ replayAt' = "finished" /\ events' \in Seq(Words) /\ terminal' \in Words
      /\ Outcome(events, terminal)'
  BY <1>1, <1>2, FinishSaysOutcome
<1>4. line' \in 0 .. Len(manifest.input) /\ LinesInOrder'
  BY <1>1 DEF ReplayInv, ReplayTypes, LinesInOrder, InOrder
<1> QED  BY <1>1, <1>3, <1>4, EndingKeepsInv

--------------------------------------------------------------------------------
(***************************************************************************)
(* The file.                                                               *)
(***************************************************************************)

\* The steps of writeAtomically() that leave the rest of the launch alone.
LEMMA FileStepsKeepInv ==
  ASSUME ReplayInv,
         CreateDirectory \/ CreateTemporary \/ WritePiece \/ SyncFile \/ RenameFile
  PROVE  ReplayInv'
<1>1. /\ replayAt \in Writing /\ replayAt' \in Writing
      /\ replayAt # "down" /\ replayAt # "replaying"
      /\ UNCHANGED <<manifest, line, lastStamp, events, terminal, exitCode>>
  BY DEF CreateDirectory, CreateTemporary, WritePiece, SyncFile, RenameFile, WriteStep,
         Writing
<1>2. LinesInOrder' /\ Said' /\ Success'
  BY <1>1 DEF ReplayInv, LinesInOrder, InOrder, Said, Outcome, Success, Writing
<1>3. /\ evidence \in Directories /\ events \in Seq(Words) /\ terminal \in Words
      /\ OwnFile /\ AnyFile /\ Outcome(events, terminal)
  BY <1>1 DEF ReplayInv, ReplayTypes, Said
<1>4. evidence' \in Directories /\ OwnFile' /\ AnyFile'
  <2>1. CASE CreateDirectory
    <3>1. /\ replayAt' = "created" /\ evidence'.exists /\ ~ evidence'.renamed
          /\ ~ evidence'.synced /\ evidence'.result = Nothing
          /\ evidence' \in Directories
      BY <2>1, NothingIsFile DEF CreateDirectory, WriteStep, NoDirectory, Directories
    <3> QED  BY <3>1 DEF OwnFile, AnyFile
  <2>2. CASE CreateTemporary
    <3>1. Serialized \in Files
      BY <1>3, ReplayAssumption DEF Serialized, Files
    <3>2. /\ replayAt = "created" /\ replayAt' = "writing"
          /\ evidence' = [ evidence EXCEPT !.partial = Serialized ]
      BY <2>2 DEF CreateTemporary, WriteStep
    <3>3. /\ evidence' \in Directories /\ evidence'.partial = Serialized
          /\ evidence'.result = evidence.result /\ evidence'.exists = evidence.exists
          /\ evidence'.renamed = evidence.renamed /\ evidence'.synced = evidence.synced
      BY <1>3, <3>1, <3>2 DEF Directories
    <3> QED  BY <1>1, <1>3, <3>2, <3>3 DEF OwnFile, AnyFile, Serialized
  <2>3. CASE WritePiece
    <3>1. /\ replayAt = "writing" /\ replayAt' = "writing"
          /\ evidence.partial.written < Pieces
          /\ evidence' = [ evidence EXCEPT !.partial.written = @ + 1 ]
      BY <2>3 DEF WritePiece, WriteStep
    <3>2. evidence.partial \in Files /\ evidence.partial.written + 1 \in 0 .. Pieces
      BY <1>3, <3>1, ReplayAssumption DEF Directories, Files
    <3>3. /\ evidence'.partial = [ evidence.partial EXCEPT !.written = @ + 1 ]
          /\ evidence'.result = evidence.result /\ evidence'.exists = evidence.exists
          /\ evidence'.renamed = evidence.renamed /\ evidence'.synced = evidence.synced
      BY <1>3, <3>1 DEF Directories
    <3>4. evidence'.partial \in Files
      BY <3>2, <3>3 DEF Files
    <3>5. evidence' \in Directories
      BY <1>3, <3>1, <3>3, <3>4 DEF Directories
    <3>6. evidence'.partial.events = evidence.partial.events
          /\ evidence'.partial.terminal = evidence.partial.terminal
      BY <3>2, <3>3 DEF Files
    <3> QED  BY <1>1, <1>3, <3>1, <3>3, <3>5, <3>6 DEF OwnFile, AnyFile
  <2>4. CASE SyncFile
    <3>1. /\ replayAt = "writing" /\ replayAt' = "synced"
          /\ evidence.partial.written = Pieces
          /\ evidence' = [ evidence EXCEPT !.synced = TRUE ]
      BY <2>4 DEF SyncFile, WriteStep
    <3>2. /\ evidence' \in Directories /\ evidence'.partial = evidence.partial
          /\ evidence'.result = evidence.result /\ evidence'.exists = evidence.exists
          /\ evidence'.renamed = evidence.renamed /\ evidence'.synced
      BY <1>3, <3>1 DEF Directories
    <3> QED  BY <1>1, <1>3, <3>1, <3>2 DEF OwnFile, AnyFile
  <2>5. CASE RenameFile
    <3>1. /\ replayAt = "synced" /\ replayAt' = "renamed"
          /\ evidence' = [ evidence EXCEPT !.result = evidence.partial, !.partial = Nothing ]
      BY <2>5 DEF RenameFile, WriteStep
    <3>2. /\ evidence' \in Directories /\ evidence'.result = evidence.partial
          /\ evidence'.exists = evidence.exists
          /\ evidence'.renamed = evidence.renamed /\ evidence'.synced = evidence.synced
      BY <1>3, <3>1, NothingIsFile DEF Directories
    <3>3. ResultIsWhole(evidence.partial)
      BY <1>3, <3>1 DEF OwnFile, ResultIsWhole, Outcome
    <3> QED  BY <1>1, <1>3, <3>1, <3>2, <3>3 DEF OwnFile, AnyFile, ResultIsWhole
  <2> QED  BY <2>1, <2>2, <2>3, <2>4, <2>5
<1>5. ReplayTypes'
  BY <1>1, <1>4 DEF ReplayInv, ReplayTypes
<1> QED  BY <1>2, <1>4, <1>5 DEF ReplayInv

\* The directory is synchronised: success is told when it was completed.
LEMMA SyncDirectoryKeepsInv ==
  ASSUME ReplayInv, SyncDirectory PROVE ReplayInv'
<1>1. /\ replayAt = "renamed" /\ replayAt' = "down"
      /\ evidence' = [ evidence EXCEPT !.renamed = TRUE ]
      /\ exitCode' = 0 => terminal = "Completed"
      /\ UNCHANGED <<manifest, line, lastStamp, events, terminal>>
  BY DEF SyncDirectory
<1>2. /\ evidence \in Directories /\ OwnFile /\ AnyFile /\ Outcome(events, terminal)
      /\ LinesInOrder
  BY <1>1 DEF ReplayInv, ReplayTypes, Said, Writing
<1>3. /\ evidence' \in Directories /\ evidence'.result = evidence.result
      /\ evidence'.exists = evidence.exists /\ evidence'.renamed
      /\ evidence'.synced = evidence.synced
  BY <1>1, <1>2 DEF Directories
<1>4. ReplayTypes' /\ LinesInOrder'
  BY <1>1, <1>3 DEF ReplayInv, ReplayTypes, LinesInOrder, InOrder
<1>5. Said' /\ OwnFile' /\ AnyFile'
  BY <1>1, <1>2, <1>3 DEF Said, OwnFile, AnyFile, ResultIsWhole, Writing
<1>6. Success'
  BY <1>1, <1>2, <1>3 DEF Success, OwnFile, Outcome, LinesInOrder, InOrder
<1> QED  BY <1>4, <1>5, <1>6 DEF ReplayInv

\* When the machine goes down what was synchronised is still there, and what is
\* under its name was, or the directory is gone with all that was in it.
LEMMA PowerLeavesWhole ==
  ASSUME ReplayInv, PowerFails
  PROVE  /\ evidence' \in Directories /\ AnyFile' /\ evidence # NoDirectory
         /\ evidence.renamed => evidence' \in { evidence, NoDirectory }
<1>1. evidence \in Directories /\ AnyFile /\ evidence.result \in Files
      /\ evidence.partial \in Files
  BY DEF ReplayInv, ReplayTypes, Directories
<1>2. evidence # NoDirectory
  BY DEF PowerFails, NoDirectory
<1>3. ASSUME NEW f \in Files, NEW g \in Remains(f)
      PROVE  g \in Files /\ (evidence.synced \/ f = Nothing => g = f)
  <2>1. CASE evidence.synced
    BY <1>3, <2>1 DEF Remains
  <2>2. CASE ~ evidence.synced
    <3>1. PICK n \in 0 .. f.written : g = [ f EXCEPT !.written = n ]
      BY <1>3, <2>2 DEF Remains
    <3>2. f.written \in 0 .. Pieces
      BY DEF Files
    <3>3. g \in Files
      BY <3>1, <3>2, ReplayAssumption DEF Files
    <3>4. f = Nothing => n = 0 /\ g = f
      <4>1. f = Nothing => f.written = 0
        BY DEF Nothing
      <4>2. f = [ f EXCEPT !.written = f.written ]
        BY DEF Files
      <4> QED  BY <3>1, <3>2, <4>1, <4>2
    <3> QED  BY <2>2, <3>3, <3>4
  <2> QED  BY <2>1, <2>2
<1>4. ASSUME NEW g \in Remains(evidence.result),
             evidence' = [ evidence EXCEPT !.result = g ]
      PROVE  evidence' = evidence
  <2>1. evidence.synced \/ evidence.result = Nothing
    BY <1>1 DEF AnyFile
  <2>2. g = evidence.result
    BY <1>1, <1>3, <2>1
  <2> QED  BY <1>1, <1>4, <2>2 DEF Directories
<1>5. ASSUME NEW g \in Remains(evidence.partial),
             evidence' = [ evidence EXCEPT !.partial = g ]
      PROVE  /\ evidence' \in Directories /\ AnyFile'
             /\ evidence.renamed => evidence' = evidence
  <2>1. g \in Files /\ (evidence.synced => g = evidence.partial)
    BY <1>1, <1>3
  <2>2. /\ evidence' \in Directories /\ evidence'.result = evidence.result
        /\ evidence'.exists = evidence.exists /\ evidence'.renamed = evidence.renamed
        /\ evidence'.synced = evidence.synced
        /\ g = evidence.partial => evidence' = evidence
    BY <1>1, <1>5, <2>1 DEF Directories
  <2> QED  BY <1>1, <2>1, <2>2 DEF AnyFile, ResultIsWhole
<1>6. CASE /\ ~ evidence.renamed /\ evidence.result # Nothing
           /\ evidence' = [ evidence EXCEPT !.partial = evidence.result, !.result = Nothing ]
  <2>1. /\ evidence' \in Directories /\ evidence'.result = Nothing
        /\ evidence'.renamed = evidence.renamed
    BY <1>1, <1>6, NothingIsFile DEF Directories
  <2> QED  BY <1>2, <1>6, <2>1 DEF AnyFile
<1>7. evidence' = evidence => evidence' \in Directories /\ AnyFile'
  BY <1>1 DEF AnyFile, ResultIsWhole
<1>8. evidence' = NoDirectory => evidence' \in Directories /\ AnyFile'
  BY NothingIsFile DEF NoDirectory, Directories, AnyFile
<1> QED  BY <1>2, <1>4, <1>5, <1>6, <1>7, <1>8 DEF PowerFails

\* A launch that ends in the middle leaves the file to itself.
LEMMA ForgottenKeepsInv ==
  ASSUME ReplayInv, Forgotten, evidence' \in Directories, AnyFile',
         \/ exitCode' # 0
         \/ /\ exitCode' = exitCode
            /\ evidence.renamed \/ evidence = NoDirectory =>
                 evidence' \in { evidence, NoDirectory }
  PROVE  ReplayInv'
<1>1. /\ replayAt' = "down" /\ manifest' = NoManifest /\ line' = 0 /\ lastStamp' = 0
      /\ events' = <<>> /\ terminal' = "none"
  BY DEF Forgotten
<1>2. NoManifest \in Manifests /\ NoManifest.input = <<>> /\ "none" \in Words
  BY NothingIsFile DEF NoManifest, Manifests, Words, Results
<1>3. ReplayTypes'
  BY <1>1, <1>2, NothingIsFile DEF ReplayTypes
<1>4. LinesInOrder' /\ Said' /\ OwnFile'
  BY <1>1 DEF LinesInOrder, InOrder, Said, OwnFile, Writing
<1>5. Success'
  BY <1>1, <1>2, NothingIsFile DEF ReplayInv, Success, InOrder
<1> QED  BY <1>3, <1>4, <1>5 DEF ReplayInv

\* A synchronised result stays as it is, or goes with its directory when the
\* machine goes down.
LeftAlone ==
  evidence.renamed => \/ UNCHANGED evidence
                      \/ PowerFails /\ evidence' = NoDirectory

\* Every step keeps the invariant, and leaves a synchronised result alone.
LEMMA ReplayInvNext ==
  ASSUME ReplayInv, [ReplayNext]_replayVars
  PROVE  ReplayInv' /\ LeftAlone
<1> USE DEF LeftAlone
<1>1. CASE LaunchRefused \/ LaunchReplay \/ CheckManifest \/ ReplayLine \/ EndOfInput
           \/ ReplayThrows
  <2>1. UNCHANGED evidence
    BY <1>1 DEF LaunchRefused, LaunchReplay, NewReplay, CheckManifest, ReplayLine,
                EndOfInput, ReplayThrows
  <2> QED
    BY <1>1, <2>1, NewReplayKeepsInv, CheckManifestKeepsInv, ReplayLineKeepsInv,
       EndOfInputKeepsInv, ReplayThrowsKeepsInv
<1>2. CASE RequestCancellation \/ RunsOverTime \/ UNCHANGED replayVars
  BY <1>2
     DEF RequestCancellation, RunsOverTime, replayVars, ReplayInv, ReplayTypes,
         LinesInOrder, InOrder, Said, Outcome, OwnFile, AnyFile, ResultIsWhole, Success
<1>3. CASE CreateDirectory \/ CreateTemporary \/ WritePiece \/ SyncFile \/ RenameFile
  <2>1. ~ evidence.renamed
    BY <1>3
       DEF CreateDirectory, CreateTemporary, WritePiece, SyncFile, RenameFile, WriteStep,
           ReplayInv, OwnFile, AnyFile
  <2> QED  BY <1>3, <2>1, FileStepsKeepInv
<1>4. CASE SyncDirectory
  <2>1. ~ evidence.renamed
    BY <1>4 DEF SyncDirectory, ReplayInv, OwnFile
  <2> QED  BY <1>4, <2>1, SyncDirectoryKeepsInv
<1>5. CASE WriteFails \/ ReplayKilled
  <2>1. /\ Forgotten /\ UNCHANGED evidence
        /\ exitCode' = 3 \/ exitCode' = exitCode
    BY <1>5 DEF WriteFails, ReplayKilled
  <2>2. evidence' \in Directories /\ AnyFile'
    BY <2>1 DEF ReplayInv, ReplayTypes, AnyFile, ResultIsWhole
  <2> QED  BY <2>1, <2>2, ForgottenKeepsInv
<1>6. CASE PowerFails
  <2>1. Forgotten /\ exitCode' = exitCode
    BY <1>6 DEF PowerFails
  <2> QED  BY <1>6, <2>1, PowerLeavesWhole, ForgottenKeepsInv
<1> QED  BY <1>1, <1>2, <1>3, <1>4, <1>5, <1>6 DEF ReplayNext

\* ReplaySpec keeps ReplayInv.
THEOREM ReplaySafe == ReplaySpec => []ReplayInv
<1>1. ReplayInit => ReplayInv
  BY ReplayInvInit
<1>2. ReplayInv /\ [ReplayNext]_replayVars => ReplayInv'
  BY ReplayInvNext
<1> QED  BY <1>1, <1>2, PTL DEF ReplaySpec

WholeOrNot == evidence.result # Nothing => ResultIsWhole(evidence.result)

SuccessIsTrue ==
  exitCode = 0 => /\ \/ evidence.result.terminal = "Completed"
                     \/ evidence = NoDirectory
                  /\ line = Len(manifest.input)
                  /\ \A i \in 2 .. line : manifest.input[i - 1] < manifest.input[i]

\* The evidence is whole or not there.  Exit code 0 means that all was replayed
\* and that the evidence is there, or was until the machine went down; nothing
\* else takes a synchronised result away, and nothing changes part of it.
THEOREM EvidenceAlwaysWhole == ReplaySpec => EvidenceIsWhole
<1>1. ReplayInv => WholeOrNot
  BY DEF ReplayInv, AnyFile, WholeOrNot
<1>2. ReplayInv => SuccessIsTrue
  BY DEF ReplayInv, Success, InOrder, SuccessIsTrue
<1>3. ReplayInv /\ [ReplayNext]_replayVars => [LeftAlone]_replayVars
  BY ReplayInvNext
<1>4. ReplaySpec => []WholeOrNot /\ []SuccessIsTrue /\ [][LeftAlone]_replayVars
  BY <1>1, <1>2, <1>3, ReplaySafe, PTL DEF ReplaySpec
<1> QED  BY <1>4 DEF EvidenceIsWhole, WholeOrNot, SuccessIsTrue, LeftAlone
================================================================================
