----------------------------- MODULE OfflineReplay -----------------------------
(***************************************************************************)
(* mynyra_offline_replay: one launch checks a manifest and the files it    *)
(* pins, replays the candles in them, and leaves its evidence in a fresh   *)
(* directory, in a file that is written under another name and renamed.    *)
(* A signal, the clock, a failing event sink, a failing write and the end  *)
(* of the process may come at any step; a later launch may be given the    *)
(* same directory.                                                         *)
(***************************************************************************)
EXTENDS Naturals, Sequences, SequencesExt

CONSTANTS
  ReplayInputs,    \* the candle files: sequences of time stamps, 0 a bad line
  RecordLimits,    \* the record limits manifests declare
  Pieces,          \* bound: writes the evidence takes
  MaxReplays       \* bound: launches

ASSUME ReplayAssumption ==
  /\ ReplayInputs \subseteq Seq(Nat) /\ RecordLimits \subseteq Nat
  /\ Pieces \in Nat \ {0} /\ MaxReplays \in Nat

VARIABLES
  replayAt,     \* where the launch is
  replays,      \* launches so far
  manifest,     \* what this launch was given
  line,         \* candles replayed: processedRecords
  lastStamp,    \* previousTimestamp
  cancelled,    \* gCancellationRequested
  overdue,      \* elapsedMilliseconds() is beyond the limit
  events,       \* the evidence events
  terminal,     \* terminalResult
  evidence,     \* the evidence directory
  exitCode      \* of the last launch that ended by itself

replayVars == <<replayAt, replays, manifest, line, lastStamp, cancelled, overdue,
                events, terminal, evidence, exitCode>>

Nothing == [ events |-> <<>>, terminal |-> "none", written |-> 0 ]
NoDirectory == [ exists |-> FALSE, partial |-> Nothing, result |-> Nothing,
                 synced |-> FALSE, renamed |-> FALSE ]
NoManifest == [ input |-> <<>>, limit |-> 0, valid |-> FALSE, pinned |-> FALSE,
                sink |-> FALSE ]
NoExit == 9

ReplayInit ==
  /\ replayAt = "down" /\ replays = 0 /\ manifest = NoManifest
  /\ line = 0 /\ lastStamp = 0 /\ cancelled = FALSE /\ overdue = FALSE
  /\ events = <<>> /\ terminal = "none"
  /\ evidence = NoDirectory /\ exitCode = NoExit

--------------------------------------------------------------------------------
(***************************************************************************)
(* The evidence.  appendEvidence() answers whether the sink, if there is   *)
(* one, took the event; finish() closes the sequence.                      *)
(***************************************************************************)

SinkAnswers == IF manifest.sink THEN BOOLEAN ELSE { TRUE }

TerminalCode(t) ==
  IF t = "InputRejected" THEN "MalformedInput" ELSE t

\* finish(): a terminal event the sink refuses makes the evidence incomplete.
FinishReplay(before, t) ==
  /\ replayAt' = "finished"
  /\ \E answer \in IF t = "EvidenceIncomplete" THEN { TRUE } ELSE SinkAnswers :
       \/ answer /\ terminal' = t /\ events' = Append(before, TerminalCode(t))
       \/ /\ ~answer /\ terminal' = "EvidenceIncomplete"
          /\ events' = before \o << TerminalCode(t), "EvidenceIncomplete" >>

--------------------------------------------------------------------------------
(***************************************************************************)
(* main(): arguments, the manifest and the files it names.                 *)
(***************************************************************************)

NewReplay ==
  /\ replayAt = "down" /\ replays < MaxReplays /\ replays' = replays + 1
  /\ cancelled' = FALSE /\ overdue' = FALSE /\ line' = 0 /\ lastStamp' = 0
  /\ events' = <<>> /\ terminal' = "none" /\ UNCHANGED evidence

\* Arguments that are missing or repeated, a manifest that cannot be parsed, a
\* file that is not a regular one or too large.
LaunchRefused ==
  /\ NewReplay /\ exitCode' = 2 /\ UNCHANGED <<replayAt, manifest>>

LaunchReplay ==
  /\ NewReplay /\ replayAt' = "checking" /\ exitCode' = NoExit
  /\ \E input \in ReplayInputs, limit \in RecordLimits,
        valid, pinned, sink \in BOOLEAN :
       manifest' = [ input |-> input, limit |-> limit, valid |-> valid,
                     pinned |-> pinned, sink |-> sink ]

\* run(), up to the first line.
CheckManifest ==
  /\ replayAt = "checking"
  /\ \/ ~manifest.valid /\ FinishReplay(<<>>, "ManifestRejected")
     \/ /\ manifest.valid /\ FALSE \in SinkAnswers
        /\ FinishReplay(<< "ManifestAccepted" >>, "EvidenceIncomplete")
     \/ /\ manifest.valid /\ ~manifest.pinned
        /\ FinishReplay(<< "ManifestAccepted" >>, "InputRejected")
     \/ /\ manifest.valid /\ manifest.pinned /\ FALSE \in SinkAnswers
        /\ \/ FinishReplay(<< "ManifestAccepted", "InputAccepted" >>, "EvidenceIncomplete")
           \/ FinishReplay(<< "ManifestAccepted", "InputAccepted", "ReplayStarted" >>,
                     "EvidenceIncomplete")
     \/ /\ manifest.valid /\ manifest.pinned
        /\ replayAt' = "replaying" /\ UNCHANGED terminal
        /\ events' = << "ManifestAccepted", "InputAccepted", "ReplayStarted" >>
  /\ UNCHANGED <<replays, manifest, line, lastStamp, cancelled, overdue, evidence,
                 exitCode>>

\* parseCandle(): six numbers that are a candle.
BadLine(stamp) == stamp = 0

\* One line: the checks come in this order.
ReplayLine ==
  /\ replayAt = "replaying" /\ line < Len(manifest.input)
  /\ LET stamp == manifest.input[line + 1]
         wrong == IF cancelled THEN "Cancelled"
                  ELSE IF overdue THEN "TimedOut"
                  ELSE IF line >= manifest.limit THEN "ResourceExhausted"
                  ELSE IF BadLine(stamp) \/ (line > 0 /\ stamp <= lastStamp)
                  THEN "InputRejected" ELSE "none"
     IN \/ wrong # "none" /\ FinishReplay(events, wrong) /\ UNCHANGED <<line, lastStamp>>
        \/ /\ wrong = "none" /\ line' = line + 1 /\ lastStamp' = stamp
           /\ UNCHANGED <<replayAt, events, terminal>>
  /\ UNCHANGED <<replays, manifest, cancelled, overdue, evidence, exitCode>>

\* After the last line.  The flag is read twice: a signal in between makes an
\* empty file a cancellation.
EndOfInput ==
  /\ replayAt = "replaying" /\ line = Len(manifest.input)
  /\ \/ cancelled /\ FinishReplay(events, "Cancelled")
     \/ ~cancelled /\ line = 0 /\ FinishReplay(events, "InputRejected")
     \/ ~cancelled /\ line > 0 /\ overdue /\ FinishReplay(events, "TimedOut")
     \/ /\ ~cancelled /\ line > 0 /\ ~overdue
        /\ \/ FinishReplay(Append(events, "ReplayProgress"), "Completed")
           \/ /\ FALSE \in SinkAnswers
              /\ FinishReplay(Append(events, "ReplayProgress"), "EvidenceIncomplete")
  /\ UNCHANGED <<replays, manifest, line, lastStamp, cancelled, overdue, evidence,
                 exitCode>>

\* An exception: the evidence starts again with what happened.
ReplayThrows ==
  /\ replayAt \in { "checking", "replaying" } /\ FinishReplay(<<>>, "InternalFailure")
  /\ line' = 0
  /\ UNCHANGED <<replays, manifest, lastStamp, cancelled, overdue, evidence, exitCode>>

\* SIGINT, and the clock; nobody looks once the result is there.
RequestCancellation ==
  /\ replayAt \in { "checking", "replaying" } /\ ~cancelled /\ cancelled' = TRUE
  /\ UNCHANGED <<replayAt, replays, manifest, line, lastStamp, overdue, events,
                 terminal, evidence, exitCode>>

RunsOverTime ==
  /\ replayAt = "replaying" /\ ~overdue /\ overdue' = TRUE
  /\ UNCHANGED <<replayAt, replays, manifest, line, lastStamp, cancelled, events,
                 terminal, evidence, exitCode>>

--------------------------------------------------------------------------------
(***************************************************************************)
(* writeAtomically(): each step may fail and end the launch with code 3.   *)
(***************************************************************************)

Writing == { "finished", "created", "writing", "synced", "renamed" }

WriteStep(from, to) ==
  /\ replayAt = from /\ replayAt' = to
  /\ UNCHANGED <<replays, manifest, line, lastStamp, cancelled, overdue, events,
                 terminal, exitCode>>

CreateDirectory ==
  /\ WriteStep("finished", "created") /\ ~evidence.exists
  /\ evidence' = [ NoDirectory EXCEPT !.exists = TRUE ]

\* serializeResult(): what the file will say.
Serialized == [ events |-> events, terminal |-> terminal, written |-> 0 ]

CreateTemporary ==
  /\ WriteStep("created", "writing")
  /\ evidence' = [ evidence EXCEPT !.partial = Serialized ]

WritePiece ==
  /\ WriteStep("writing", "writing") /\ evidence.partial.written < Pieces
  /\ evidence' = [ evidence EXCEPT !.partial.written = @ + 1 ]

\* Mutant: the file is renamed without having been synchronised.
SyncFile_Skipped ==
  /\ WriteStep("writing", "synced") /\ evidence.partial.written = Pieces
  /\ UNCHANGED evidence

SyncFile ==
  /\ WriteStep("writing", "synced") /\ evidence.partial.written = Pieces
  /\ evidence' = [ evidence EXCEPT !.synced = TRUE ]

RenameFile ==
  /\ WriteStep("synced", "renamed")
  /\ evidence' = [ evidence EXCEPT !.result = evidence.partial, !.partial = Nothing ]

\* The directory is synchronised too, the digest printed.
SyncDirectory ==
  /\ replayAt = "renamed" /\ replayAt' = "down"
  /\ evidence' = [ evidence EXCEPT !.renamed = TRUE ]
  /\ exitCode' = (IF terminal = "Completed" THEN 0 ELSE 1)
  /\ UNCHANGED <<replays, manifest, line, lastStamp, cancelled, overdue, events, terminal>>

\* What the process knew is gone.
Forgotten ==
  /\ replayAt' = "down" /\ manifest' = NoManifest /\ line' = 0 /\ lastStamp' = 0
  /\ cancelled' = FALSE /\ overdue' = FALSE /\ events' = <<>> /\ terminal' = "none"

WriteFails ==
  /\ replayAt \in Writing /\ Forgotten /\ exitCode' = 3
  /\ UNCHANGED <<replays, evidence>>

\* The process is killed.
ReplayKilled ==
  /\ replayAt # "down" /\ Forgotten /\ UNCHANGED <<replays, evidence, exitCode>>

\* The machine goes down (external): what was not synchronised is lost, in
\* part or altogether, and a rename may be undone.  The directory that names
\* the evidence directory is never synchronised: all of it may be lost.
Remains(file) ==
  IF evidence.synced THEN { file } ELSE { [ file EXCEPT !.written = n ] : n \in 0 .. file.written }

PowerFails ==
  /\ evidence.exists /\ Forgotten
  /\ \/ evidence' \in { [ evidence EXCEPT !.result = f ] : f \in Remains(evidence.result) }
     \/ evidence' \in { [ evidence EXCEPT !.partial = f ] : f \in Remains(evidence.partial) }
     \/ /\ ~evidence.renamed /\ evidence.result # Nothing
        /\ evidence' = [ evidence EXCEPT !.partial = evidence.result, !.result = Nothing ]
     \/ evidence' = NoDirectory
  /\ UNCHANGED <<replays, exitCode>>

ReplayNext ==
  \/ LaunchRefused \/ LaunchReplay \/ CheckManifest \/ ReplayLine \/ EndOfInput \/ ReplayThrows
  \/ RequestCancellation \/ RunsOverTime
  \/ CreateDirectory \/ CreateTemporary \/ WritePiece \/ SyncFile \/ RenameFile
  \/ SyncDirectory \/ WriteFails \/ ReplayKilled \/ PowerFails

ReplaySpec == ReplayInit /\ [][ReplayNext]_replayVars

--------------------------------------------------------------------------------

Results == { "none", "Completed", "ManifestRejected", "InputRejected", "Cancelled",
             "TimedOut", "ResourceExhausted", "EvidenceIncomplete", "InternalFailure" }

ReplayTypeOK ==
  /\ replayAt \in { "down", "checking", "replaying" } \cup Writing
  /\ replays \in 0 .. MaxReplays
  /\ line \in 0 .. Len(manifest.input) /\ cancelled \in BOOLEAN /\ overdue \in BOOLEAN
  /\ terminal \in Results /\ Len(events) <= 6
  /\ \A file \in { evidence.partial, evidence.result } :
       file.terminal \in Results /\ file.written \in 0 .. Pieces
  /\ exitCode \in { 0, 1, 2, 3, NoExit }

CompleteEvidence ==
  << "ManifestAccepted", "InputAccepted", "ReplayStarted", "ReplayProgress", "Completed" >>

\* A result under its name is all there, ends with its terminal event, and is
\* a completed one only with every event before it.
ResultIsWhole(file) ==
  /\ file.written = Pieces /\ Last(file.events) = TerminalCode(file.terminal)
  /\ file.terminal = "Completed" => file.events = CompleteEvidence

(***************************************************************************)
(* The evidence directory never shows a result that is not whole, whatever *)
(* stops the program or the machine.  Exit code 0 means that every candle  *)
(* was replayed, in order, and that the evidence of it is there, unless    *)
(* the machine has gone down since and taken the directory with it.  A     *)
(* result that is synchronised with its directory is all or nothing: no    *)
(* later launch, write or death of a process touches it, and when the      *)
(* machine goes down it stays as it is or goes with the whole directory.   *)
(***************************************************************************)
EvidenceIsWhole ==
  /\ [](evidence.result # Nothing => ResultIsWhole(evidence.result))
  /\ [](exitCode = 0 => /\ \/ evidence.result.terminal = "Completed"
                           \/ evidence = NoDirectory
                        /\ line = Len(manifest.input)
                        /\ \A i \in 2 .. line : manifest.input[i - 1] < manifest.input[i])
  /\ [][evidence.renamed => \/ UNCHANGED evidence
                            \/ PowerFails /\ evidence' = NoDirectory]_replayVars
================================================================================
