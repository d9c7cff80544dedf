------------------------ MODULE DemoCommissioning_proofs ------------------------
(***************************************************************************)
(* The commissioning run keeps the promise of OneShotCommissioning for     *)
(* every minimum volume, every number of reconnection attempts and of      *)
(* dropped connections, and whether or not events may lag.                 *)
(*                                                                         *)
(* The two facts that matter are about what one thread knows of another.   *)
(* A leg is placed when the I/O thread takes its command, long after the   *)
(* controller sized it: the size must still fit the position then.  And a  *)
(* snapshot is put together from replies that were under way while the     *)
(* venue went on: it must still be true when the controller uses it.       *)
(* CoreInv says how the command queue, the thread's job, the promise and   *)
(* the wire depend on where the controller is, so that both hold.          *)
(*                                                                         *)
(* BooksInv builds on it: what the gateway's records, the execution engine *)
(* and the portfolio mirror know of the venue, and how far each may lag    *)
(* behind it.  No book ever runs ahead, and at success they agree.         *)
(* TraceInv adds what each fact in the records and each verdict can be     *)
(* traced to: no order is open without an open record, and a failure that  *)
(* left an exposure shows.                                                 *)
(***************************************************************************)
EXTENDS DemoCommissioning, TLAPS

Answers ==
  [ ready : BOOLEAN, ok : BOOLEAN, position : 0 .. Qty, pending : BOOLEAN ]

IOStates ==
  [ mode : { "loop", "read", "query", "recover", "down" }, job : Command,
    attempt : 0 .. Attempts, recovering : BOOLEAN, retried : BOOLEAN,
    stage : { "reconcile", "pnl" }, view : Answers ]

VenueTyped == venue \in [ Legs -> VenueOrder ]

LinkTyped ==
  /\ link \in BOOLEAN /\ drops \in 0 .. MaxDrops
  /\ wire \in Seq(Message) /\ requests \in Seq(RequestKinds)

SessionTyped ==
  /\ connected \in BOOLEAN
  /\ awaiting \in Command /\ answer \in Answers /\ io \in IOStates

ControlTyped ==
  /\ pc \in Places /\ leg \in Legs /\ lot \in Volumes
  /\ proof \in [ entry : BOOLEAN, partial : BOOLEAN, settled : BOOLEAN ]
  /\ outcome \in Outcomes /\ (pc = "done" <=> outcome # "none")
  /\ pc \in { "idle", "done" } \/ lot["Entry"] = Qty

(***************************************************************************)
(* Where the controller is tells what is queued and what the I/O thread    *)
(* may be busy with: nothing, the submission of this leg, and after it the *)
(* reconciliation of this leg.  A command the controller gave up waiting   *)
(* for is still there; one that was answered is not.                       *)
(***************************************************************************)
LegSubmit == Submit(leg, lot[leg])
LegReconcile == Reconcile(leg)

Quiet == commands = << >> /\ io.job = None

Sending ==
  \/ commands = << LegSubmit >> /\ io.job = None
  \/ commands = << >> /\ io.job \in { None, LegSubmit }

Asking ==
  \/ commands = << LegSubmit, LegReconcile >> /\ io.job = None
  \/ commands = << LegReconcile >> /\ io.job \in { None, LegSubmit }
  \/ commands = << >> /\ io.job \in { None, LegReconcile }

CommandsFollowControl ==
  /\ pc \in { "idle", "start", "send", "conclude" } => Quiet /\ awaiting = None
  /\ pc \in { "refused", "forget", "judge", "wait" } => Sending /\ awaiting = None
  /\ pc = "submitted" => Sending /\ awaiting = LegSubmit /\ (answer.ready => Quiet)
  /\ pc = "asked" => Asking /\ awaiting = LegReconcile /\ (answer.ready => Quiet)
  /\ answer.ok => answer.ready

\* A job keeps the thread in a query or a recovery; a dead link carries nothing.
ThreadIsWhereItIs ==
  /\ io.mode \in { "loop", "read", "down" } => io.job = None
  /\ io.mode = "query" => io.attempt < Attempts
  /\ io.mode = "recover" => io.recovering /\ io.stage = "reconcile"
  /\ ~link => wire = << >> /\ requests = << >>

\* Legs are placed in order, and only the current one may still be filled.
LegsInTurn ==
  /\ \A l \in Legs : venue[l].filled <= venue[l].asked
  /\ 0 <= Exposure
  /\ \A l \in Legs : Held(l) => l = leg
  /\ leg = "Entry" => venue["Close"].asked = 0
  /\ leg # "Residual" => venue["Residual"].asked = 0
  /\ pc = "idle" => leg = "Entry" /\ venue["Entry"].asked = 0 /\ NothingHeld

\* A leg that is on its way to the venue was not placed, and fits.
Unsent ==
  \/ pc \in { "start", "send" }
  \/ pc # "done" /\ commands # << >> /\ Head(commands) = LegSubmit

UnsentIsSized ==
  Unsent =>
    /\ NothingHeld /\ venue[leg].asked = 0 /\ lot[leg] \in 1 .. Qty
    /\ lot[leg] = IF leg = "Entry" THEN Qty ELSE Exposure

\* At most one reconcile reply is under way that the session would believe.
AsksReconcile(m) == m.kind = "reply" /\ m.to = "reconcile"

OneReplyAwaited ==
  /\ \A i \in DOMAIN wire : AsksReconcile(wire[i]) =>
       /\ io.mode = "query" /\ io.stage = "reconcile"
       /\ \A j \in DOMAIN wire : AsksReconcile(wire[j]) => j = i
       /\ \A j \in DOMAIN requests : requests[j] # "reconcile"
  /\ \A i \in DOMAIN requests : requests[i] = "reconcile" =>
       /\ io.mode = "query" /\ io.stage = "reconcile"
       /\ \A j \in DOMAIN requests : requests[j] = "reconcile" => j = i

\* What a snapshot without orders says cannot change any more.
StillTrue(position) == position = Exposure /\ NothingHeld

RepliesTell ==
  io.job.kind = "reconcile" =>
    /\ \A i \in DOMAIN wire :
         AsksReconcile(wire[i]) /\ ~wire[i].entryHeld /\ ~wire[i].closeHeld
           => StillTrue(wire[i].position)
    /\ io.view.ok /\ ~io.view.pending => StillTrue(io.view.position)

ProofIsEarned ==
  /\ proof.entry => venue["Entry"].filled = Qty /\ leg # "Entry"
  /\ pc = "conclude" => StillTrue(0)

CoreInv ==
  /\ VenueTyped /\ LinkTyped /\ SessionTyped /\ ControlTyped
  /\ CommandsFollowControl /\ ThreadIsWhereItIs /\ LegsInTurn /\ UnsentIsSized
  /\ OneReplyAwaited /\ RepliesTell /\ SnapshotIsCurrent /\ ProofIsEarned

USE QtyAssumption, LagAssumption, DropsAssumption, AttemptsAssumption

--------------------------------------------------------------------------------
(***************************************************************************)
(* Queues of at most two commands.                                         *)
(***************************************************************************)

\* What appending to and taking from such a queue gives.
LEMMA ShortQueues ==
  ASSUME NEW a, NEW b
  PROVE  /\ Append(<< >>, a) = << a >> /\ Append(<< a >>, b) = << a, b >>
         /\ Head(<< a >>) = a /\ Head(<< a, b >>) = a
         /\ Tail(<< a >>) = << >> /\ Tail(<< a, b >>) = << b >>
         /\ << a >> # << >> /\ << a, b >> # << >> /\ << a, b >> # << a >>
         /\ a # b => << a >> # << b >>
<1> DEFINE s == << a >>  t == << a, b >>  u == Append(s, b)
<1>1. /\ s \in Seq({a, b}) /\ t \in Seq({a, b})
      /\ Len(s) = 1 /\ Len(t) = 2 /\ s[1] = a
  OBVIOUS
<1>2. u \in Seq({a, b}) /\ Len(u) = 2 /\ u[1] = a /\ u[2] = b
  BY <1>1
<1>3. \A i \in 1 .. 2 : u[i] = t[i]
  BY <1>2
<1>4. u = t
  <2> HIDE DEF s, t, u
  <2> QED  BY <1>1, <1>2, <1>3
<1>5. t # s
  BY <1>1
<1> QED  BY <1>4, <1>5

\* The head and the rest of what the wire carries.
LEMMA TakingFrom ==
  ASSUME NEW S, NEW s \in Seq(S), s # << >>
  PROVE  /\ Head(s) \in S /\ Head(s) = s[1] /\ 1 \in DOMAIN s
         /\ Tail(s) \in Seq(S)
         /\ \A i \in DOMAIN Tail(s) : i + 1 \in DOMAIN s /\ Tail(s)[i] = s[i + 1]
                                      /\ i \in Nat /\ i + 1 # 1
  OBVIOUS

\* Nothing is queued, placed or under way before the run begins.
LEMMA CoreInit == Init => CoreInv
<1> SUFFICES ASSUME Init PROVE CoreInv
  OBVIOUS
<1> USE DEF Init, VenueInit, BooksInit, SessionInit
<1>1. VenueTyped
  BY DEF VenueTyped, VenueOrder
<1>2. LinkTyped
  BY DEF LinkTyped
<1>3. SessionTyped
  BY DEF SessionTyped, Answers, IOStates, Pending, Idle, Command, None
<1>4. ControlTyped
  BY DEF ControlTyped, Places, Legs, Volumes, NoWitness, Outcomes
<1>5. CommandsFollowControl
  BY DEF CommandsFollowControl, Quiet, Idle, Pending
<1>6. ThreadIsWhereItIs
  BY DEF ThreadIsWhereItIs, Idle
<1>7. LegsInTurn
  BY DEF LegsInTurn, NothingHeld, Held, Legs, Exposure
<1>8. UnsentIsSized
  BY DEF UnsentIsSized, Unsent
<1>9. OneReplyAwaited /\ RepliesTell
  BY DEF OneReplyAwaited, RepliesTell, Idle, None
<1>10. SnapshotIsCurrent /\ ProofIsEarned
  BY DEF SnapshotIsCurrent, ProofIsEarned
<1> QED  BY <1>1, <1>2, <1>3, <1>4, <1>5, <1>6, <1>7, <1>8, <1>9, <1>10 DEF CoreInv

--------------------------------------------------------------------------------
(***************************************************************************)
(* The controller's steps.  None touches the venue, the wire or the        *)
(* thread, so five parts of CoreInv stay as they are.                      *)
(***************************************************************************)
ControlKeeps ==
  SessionTyped /\ ControlTyped /\ CommandsFollowControl /\ LegsInTurn
    /\ UnsentIsSized /\ SnapshotIsCurrent /\ ProofIsEarned

\* What the controller need not prove.
LEMMA ControlFrame ==
  ASSUME CoreInv, UNCHANGED <<venueVars, io>>, ControlKeeps'
  PROVE  CoreInv'
<1> USE DEF CoreInv, venueVars, linkVars
<1>1. VenueTyped' /\ LinkTyped'
  BY DEF VenueTyped, LinkTyped
<1>2. ThreadIsWhereItIs' /\ OneReplyAwaited'
  BY DEF ThreadIsWhereItIs, OneReplyAwaited, AsksReconcile
<1>3. RepliesTell'
  BY DEF RepliesTell, AsksReconcile, StillTrue, Exposure, NothingHeld, Held
<1> QED  BY <1>1, <1>2, <1>3 DEF ControlKeeps

\* A controller that ends leaves the promise open, or gives it up.
LEMMA EndKeeps ==
  ASSUME CoreInv, UNCHANGED <<venueVars, io>>, pc # "done", connected' \in BOOLEAN,
         NEW result \in Outcomes \ { "none" }, End(result),
         UNCHANGED <<awaiting, answer>> \/ Abandon
  PROVE  CoreInv'
<1> USE DEF End
<1>1. SessionTyped' /\ (answer.ok => answer.ready)'
  <2>1. io' \in IOStates
    BY DEF CoreInv, SessionTyped
  <2>2. awaiting' \in Command
    BY DEF CoreInv, SessionTyped, Abandon, Command
  <2>3. answer' \in Answers
    <3>1. Pending \in Answers
      BY DEF Answers, Pending
    <3> QED  BY <3>1 DEF CoreInv, SessionTyped, Abandon
  <2> QED  BY <2>1, <2>2, <2>3 DEF CoreInv, SessionTyped, Abandon, Pending,
                       CommandsFollowControl
<1>2. ControlTyped'
  BY DEF CoreInv, ControlTyped, Places
<1>3. CommandsFollowControl'
  BY <1>1 DEF CommandsFollowControl
<1>4. LegsInTurn'
  BY DEF CoreInv, LegsInTurn, venueVars, Held, NothingHeld, Exposure
<1>5. UnsentIsSized' /\ SnapshotIsCurrent'
  BY DEF UnsentIsSized, Unsent, SnapshotIsCurrent
<1>6. ProofIsEarned'
  BY DEF CoreInv, ProofIsEarned, venueVars
<1> QED  BY <1>1, <1>2, <1>3, <1>4, <1>5, <1>6, ControlFrame DEF ControlKeeps

\* A snapshot the controller uses finds nothing queued and no job.
LEMMA AskedIsAnswered ==
  ASSUME CoreInv, NEW l \in Legs, Reconciled(l)
  PROVE  /\ Quiet /\ leg = l /\ pc = "asked" /\ answer.position \in 0 .. Qty
         /\ ~answer.pending => answer.position = Exposure /\ NothingHeld
BY DEF CoreInv, Reconciled, CommandsFollowControl, SnapshotIsCurrent,
       SessionTyped, Answers

\* During the entry the position is what the entry filled.
LEMMA EntryAlone ==
  ASSUME CoreInv, leg = "Entry"
  PROVE  Exposure = venue["Entry"].filled
BY DEF CoreInv, VenueTyped, VenueOrder, LegsInTurn, Exposure, Legs

(***************************************************************************)
(* The next leg is as large as the position the snapshot shows, and that   *)
(* is the position the venue has until the leg is placed.                  *)
(***************************************************************************)
LEMMA NextLegKeeps ==
  ASSUME CoreInv, UNCHANGED <<venueVars, io, commands, connected>>,
         NEW l \in Legs, NEW k \in Legs, Reconciled(l),
         \/ l = "Entry" /\ k = "Close"
         \/ l = "Close" /\ k = "Residual",
         OpenSnapshot, NextLeg(k), Abandon,
         proof' \in [ entry : BOOLEAN, partial : BOOLEAN, settled : BOOLEAN ],
         proof'.entry =>
           proof.entry \/ (l = "Entry" /\ answer.position = Qty)
  PROVE  CoreInv'
<1>1. /\ Quiet /\ leg = l /\ answer.position \in 1 .. Qty
      /\ answer.position = Exposure /\ NothingHeld
      /\ commands' = << >> /\ io' = io /\ io.job = None /\ venue' = venue
      /\ pc' = "start" /\ leg' = k /\ awaiting' = None /\ answer' = Pending
      /\ lot' = [ lot EXCEPT ![k] = answer.position ] /\ lot \in Volumes
      /\ outcome' = outcome /\ seen' = NoWitness /\ pc = "asked"
  BY AskedIsAnswered DEF OpenSnapshot, NextLeg, Abandon, Quiet, venueVars,
     CoreInv, ControlTyped
<1>2. SessionTyped'
  BY <1>1 DEF CoreInv, SessionTyped, Answers, Pending, Command, IOStates
<1>3. ControlTyped'
  BY <1>1 DEF CoreInv, ControlTyped, Places, Volumes, NoWitness
<1>4. CommandsFollowControl'
  BY <1>1 DEF CommandsFollowControl, Quiet, Pending
<1>5. LegsInTurn'
  BY <1>1 DEF CoreInv, LegsInTurn, NothingHeld, Held, Legs, Exposure
<1>6. UnsentIsSized'
  <2>1. venue[k].asked = 0
    BY <1>1 DEF CoreInv, LegsInTurn
  <2>2. NothingHeld' /\ Exposure' = Exposure
    BY <1>1 DEF NothingHeld, Held, Exposure
  <2> QED  BY <1>1, <2>1, <2>2 DEF UnsentIsSized, Volumes
<1>7. SnapshotIsCurrent'
  BY <1>1 DEF SnapshotIsCurrent
<1>8. ProofIsEarned'
  BY <1>1, EntryAlone DEF CoreInv, ProofIsEarned
<1> QED  BY <1>1, <1>2, <1>3, <1>4, <1>5, <1>6, <1>7, <1>8, ControlFrame
         DEF ControlKeeps

(***************************************************************************)
(* Steps that put a command in the queue or give one up waiting for.       *)
(***************************************************************************)

\* A step that only moves on, with the same leg and what is sized.
LEMMA GoingKeeps ==
  ASSUME CoreInv, UNCHANGED <<venueVars, io, leg, lot, proof, outcome>>,
         pc \notin { "idle", "done" }, pc' \in Places \ { "idle", "start", "done", "conclude" },
         connected' \in BOOLEAN,
         awaiting' \in Command, answer' = Pending, CommandsFollowControl',
         Unsent' => Unsent
  PROVE  CoreInv'
<1>1. SessionTyped'
  <2>1. Pending \in Answers /\ ~Pending.ok
    BY DEF Answers, Pending
  <2> QED  BY <2>1 DEF CoreInv, SessionTyped
<1>2. ControlTyped'
  BY DEF CoreInv, ControlTyped
<1>3. LegsInTurn'
  BY DEF CoreInv, LegsInTurn, venueVars, Held, NothingHeld, Exposure
<1>4. UnsentIsSized'
  BY DEF CoreInv, UnsentIsSized, venueVars, Held, NothingHeld, Exposure
<1>5. SnapshotIsCurrent'
  BY DEF SnapshotIsCurrent, Pending
<1>6. ProofIsEarned'
  BY DEF CoreInv, ProofIsEarned, venueVars
<1> QED  BY <1>1, <1>2, <1>3, <1>4, <1>5, <1>6, ControlFrame DEF ControlKeeps

\* The commands of this leg are commands, and not each other.
LEMMA LegCommands ==
  ASSUME CoreInv
  PROVE  /\ Unsent => LegSubmit \in Command
         /\ LegReconcile \in Command /\ None \in Command
         /\ LegSubmit # LegReconcile /\ LegSubmit # None /\ LegReconcile # None
BY DEF CoreInv, ControlTyped, UnsentIsSized, LegSubmit, LegReconcile, Command,
       Submit, Reconcile, None

\* The submission joins an empty queue.
LEMMA AdapterSubmitsKeeps == ASSUME CoreInv, AdapterSubmits PROVE CoreInv'
<1> USE DEF AdapterSubmits
<1>1. CASE connected
  <2>1. commands = << >> /\ io.job = None /\ Unsent
    BY DEF CoreInv, CommandsFollowControl, Quiet, Unsent
  <2>2. commands' = << LegSubmit >> /\ awaiting' = LegSubmit /\ answer' = Pending
    BY <1>1, <2>1, ShortQueues DEF Enqueue, LegSubmit
  <2>3. CommandsFollowControl'
    BY <1>1, <2>1, <2>2
    DEF GoTo, CommandsFollowControl, Sending, LegSubmit, Pending
  <2> QED  BY <1>1, <2>1, <2>2, <2>3, LegCommands, GoingKeeps
           DEF GoTo, CoreInv, ControlTyped, SessionTyped, Places
<1>2. CASE ~connected
  <2>1. Quiet /\ awaiting' = None /\ UNCHANGED answer
    BY <1>2 DEF CoreInv, CommandsFollowControl
  <2>2. SessionTyped' /\ ControlTyped'
    BY <1>2 DEF GoTo, CoreInv, SessionTyped, ControlTyped, Places
  <2>3. CommandsFollowControl'
    BY <1>2, <2>1 DEF CoreInv, GoTo, CommandsFollowControl, Quiet, Sending
  <2>4. LegsInTurn' /\ ProofIsEarned' /\ SnapshotIsCurrent'
    BY <1>2 DEF GoTo, CoreInv, LegsInTurn, ProofIsEarned, SnapshotIsCurrent,
                venueVars, Held, Exposure
  <2>5. UnsentIsSized'
    BY <1>2, <2>1 DEF GoTo, UnsentIsSized, Unsent, Quiet
  <2> QED  BY <2>2, <2>3, <2>4, <2>5, ControlFrame DEF ControlKeeps
<1> QED  BY <1>1, <1>2

\* A wait for the promise of a submit ends, and the queue stays.
LEMMA SubmitEndsKeeps ==
  ASSUME CoreInv, SubmitAnswered \/ SubmitTimesOut PROVE CoreInv'
<1>1. /\ pc = "submitted" /\ pc' \in { "wait", "refused" } /\ Abandon
      /\ UNCHANGED <<leg, lot, seen, proof, outcome, connected, commands, io,
                     venueVars>>
  BY DEF SubmitAnswered, SubmitTimesOut, GoTo
<1>2. CommandsFollowControl'
  BY <1>1 DEF CoreInv, CommandsFollowControl, Sending, Abandon, Pending, LegSubmit
<1> QED  BY <1>1, <1>2, LegCommands, GoingKeeps
         DEF CoreInv, ControlTyped, SessionTyped, Places, Unsent, Abandon, LegSubmit

\* Steps between the same queue and the next: only the place changes.
LEMMA PlaceKeeps ==
  ASSUME CoreInv, UNCHANGED <<venueVars, sessionVars>>, NEW place, GoTo(place),
         \/ pc \in { "refused", "forget", "judge" } /\ place \in { "forget", "judge", "wait" }
         \/ pc = "start" /\ place = "send"
  PROVE  CoreInv'
<1> USE DEF GoTo, sessionVars
<1>1. SessionTyped' /\ ControlTyped'
  BY DEF CoreInv, SessionTyped, ControlTyped, Places
<1>2. CommandsFollowControl'
  BY DEF CoreInv, CommandsFollowControl, Quiet, Sending, LegSubmit
<1>3. LegsInTurn' /\ ProofIsEarned' /\ SnapshotIsCurrent'
  BY DEF CoreInv, LegsInTurn, ProofIsEarned, SnapshotIsCurrent, venueVars, Held,
         Exposure
<1>4. UnsentIsSized'
  BY DEF CoreInv, UnsentIsSized, Unsent, venueVars, Held, NothingHeld, Exposure,
         LegSubmit
<1> QED  BY <1>1, <1>2, <1>3, <1>4, ControlFrame DEF ControlKeeps

\* The run begins with the entry, of the minimum volume.
LEMMA CommissionKeeps == ASSUME CoreInv, Commission PROVE CoreInv'
<1> USE DEF Commission, sessionVars
<1>1. SessionTyped' /\ ControlTyped'
  BY DEF CoreInv, SessionTyped, ControlTyped, Places, Legs, Volumes
<1>2. CommandsFollowControl'
  BY DEF CoreInv, CommandsFollowControl, Quiet
<1>3. LegsInTurn' /\ ProofIsEarned' /\ SnapshotIsCurrent'
  BY DEF CoreInv, LegsInTurn, ProofIsEarned, SnapshotIsCurrent, venueVars, Held,
         Exposure
<1>4. UnsentIsSized'
  <2>1. venue["Entry"].asked = 0 /\ leg = "Entry" /\ venue' = venue
    BY DEF CoreInv, LegsInTurn, venueVars
  <2>2. NothingHeld
    BY DEF CoreInv, LegsInTurn
  <2> QED  BY <2>1, <2>2 DEF CoreInv, ControlTyped, Volumes, Legs, UnsentIsSized, NothingHeld, Held
<1> QED  BY <1>1, <1>2, <1>3, <1>4, ControlFrame DEF ControlKeeps

\* When the wait is over the account is asked about, if there is a session.
LEMMA WaitEndsKeeps == ASSUME CoreInv, WaitEnds PROVE CoreInv'
<1> USE DEF WaitEnds
<1>1. pc = "wait" /\ UNCHANGED <<leg, lot, proof, connected, io, venueVars>>
  OBVIOUS
<1>2. CASE connected
  <2>1. Sending /\ awaiting' = LegReconcile /\ answer' = Pending
    BY <1>1, <1>2 DEF CoreInv, CommandsFollowControl, Enqueue, LegReconcile
  <2>2. commands' = Append(commands, LegReconcile)
    BY <1>2 DEF Enqueue, LegReconcile
  <2>3. Asking' /\ pc' = "asked" /\ outcome' = outcome
    BY <1>1, <1>2, <2>1, <2>2, ShortQueues
    DEF Asking, Sending, LegSubmit, LegReconcile
  <2>4. CommandsFollowControl'
    BY <2>1, <2>3, <1>1 DEF CommandsFollowControl, Pending, LegReconcile
  <2>5. Unsent' => Unsent
    BY <1>1, <2>1, <2>2, <2>3, ShortQueues, LegCommands
    DEF Unsent, Sending, LegSubmit
  <2> QED  BY <1>1, <1>2, <2>1, <2>3, <2>4, <2>5, LegCommands, GoingKeeps
           DEF CoreInv, SessionTyped, Places
<1>3. CASE ~connected
  <2>1. SessionTyped' /\ ControlTyped'
    BY <1>1, <1>3 DEF CoreInv, SessionTyped, ControlTyped, Places, Outcomes, Legs
  <2>2. CommandsFollowControl'
    BY <1>1, <1>3 DEF CoreInv, CommandsFollowControl
  <2>3. LegsInTurn' /\ ProofIsEarned' /\ SnapshotIsCurrent' /\ UnsentIsSized'
    BY <1>1, <1>3 DEF CoreInv, LegsInTurn, ProofIsEarned, SnapshotIsCurrent,
       venueVars, Held, UnsentIsSized, Unsent, Exposure
  <2> QED  BY <2>1, <2>2, <2>3, ControlFrame DEF ControlKeeps
<1> QED  BY <1>2, <1>3

\* A flat snapshot after a close is a flat account, and stays one.
LEMMA FlatKeeps ==
  ASSUME CoreInv, NEW l \in { "Close", "Residual" }, FlatAfter(l), GoTo("conclude")
  PROVE  CoreInv'
<1>1. /\ Quiet /\ leg = l /\ answer.position = Exposure /\ NothingHeld
      /\ answer.position = 0 /\ pc = "asked"
      /\ UNCHANGED <<venueVars, io, connected, commands>>
      /\ awaiting' = None /\ answer' = Pending
      /\ pc' = "conclude" /\ UNCHANGED <<leg, lot, seen, proof, outcome>>
  BY AskedIsAnswered DEF FlatAfter, FlatSnapshot, Legs, Abandon, GoTo
<1>2. SessionTyped' /\ ControlTyped'
  <2>1. Pending \in Answers
    BY DEF Pending, Answers
  <2> QED  BY <1>1, <2>1, LegCommands
           DEF CoreInv, SessionTyped, ControlTyped, Places
<1>3. CommandsFollowControl'
  BY <1>1 DEF CommandsFollowControl, Quiet, Pending
<1>4. LegsInTurn' /\ SnapshotIsCurrent'
  BY <1>1 DEF CoreInv, LegsInTurn, SnapshotIsCurrent, venueVars, Held, Exposure
<1>5. UnsentIsSized'
  BY <1>1 DEF UnsentIsSized, Unsent, Quiet
<1>6. ProofIsEarned'
  BY <1>1 DEF CoreInv, ProofIsEarned, StillTrue, NothingHeld, Held, Exposure,
             venueVars
<1> QED  BY <1>1, <1>2, <1>3, <1>4, <1>5, <1>6, ControlFrame DEF ControlKeeps

\* Every step of the controller keeps the invariant.
LEMMA ControllerKeeps == ASSUME CoreInv, ControllerStep PROVE CoreInv'
<1> USE DEF sessionVars
<1>0. CoreInv => connected \in BOOLEAN
  BY DEF CoreInv, SessionTyped
<1>1. CASE Decline
  BY <1>0, <1>1, EndKeeps DEF Decline, Outcomes
<1>2. CASE Commission
  BY <1>2, CommissionKeeps
<1>3. CASE DispatchRefused
  BY <1>0, <1>3, EndKeeps DEF DispatchRefused, RefusedOutcome, Outcomes
<1>4. CASE DispatchCreates
  BY <1>4, PlaceKeeps DEF DispatchCreates
<1>5. CASE AdapterSubmits
  BY <1>5, AdapterSubmitsKeeps
<1>6. CASE SubmitAnswered \/ SubmitTimesOut
  BY <1>6, SubmitEndsKeeps
<1>7. CASE MarkDispatchFailed
  BY <1>7, PlaceKeeps DEF MarkDispatchFailed
<1>8. CASE ForgetContext
  BY <1>8, PlaceKeeps DEF ForgetContext
<1>9. CASE JudgeDispatch
  <2>1. CASE GoTo("wait")
    BY <1>9, <2>1, PlaceKeeps DEF JudgeDispatch
  <2>2. CASE End(RefusedOutcome)
    BY <1>0, <1>9, <2>2, EndKeeps DEF JudgeDispatch, RefusedOutcome, Outcomes
  <2> QED  BY <1>9, <2>1, <2>2 DEF JudgeDispatch
<1>10. CASE WaitEnds
  BY <1>10, WaitEndsKeeps
<1>11. CASE NotReconciled
  BY <1>0, <1>11, EndKeeps DEF NotReconciled, Outcomes
<1>12. CASE EntryIsOpen
  <2>1. lot["Entry"] = Qty
    BY <1>12 DEF CoreInv, ControlTyped, EntryIsOpen, Reconciled
  <2>2. /\ proof' \in [ entry : BOOLEAN, partial : BOOLEAN, settled : BOOLEAN ]
        /\ proof'.entry => proof.entry \/ answer.position = Qty
    BY <1>12, <2>1 DEF CoreInv, ControlTyped, EntryIsOpen, Witness
  <2> QED  BY <1>12, <2>2, NextLegKeeps DEF EntryIsOpen, Legs
<1>13. CASE EntryIsNotOpen
  BY <1>0, <1>13, EndKeeps DEF EntryIsNotOpen, Reconciled, Outcomes
<1>14. CASE CloseIsFlat
  BY <1>14, FlatKeeps DEF CloseIsFlat
<1>15. CASE ResidualIsFlat
  <2>1. CASE GoTo("conclude")
    BY <1>15, <2>1, FlatKeeps DEF ResidualIsFlat
  <2>2. CASE End("RecoveryRequired")
    BY <1>0, <1>15, <2>2, EndKeeps DEF ResidualIsFlat, FlatAfter, Reconciled, Outcomes
  <2> QED  BY <1>15, <2>1, <2>2 DEF ResidualIsFlat
<1>16. CASE CloseLeavesResidue
  <2>0. /\ Reconciled("Close") /\ OpenSnapshot /\ Abandon
        /\ UNCHANGED <<venueVars, io, commands, connected>>
    BY <1>16 DEF CloseLeavesResidue, Residue
  <2>1. CASE End("RecoveryRequired")
    BY <1>0, <2>0, <2>1, EndKeeps DEF Reconciled, Outcomes
  <2>2. ASSUME NEW settles, NEW partial, settles \in BOOLEAN, partial \in BOOLEAN,
               proof' = [ proof EXCEPT !.settled = settles, !.partial = partial ],
               NextLeg("Residual")
        PROVE  CoreInv'
    <3>1. /\ proof' \in [ entry : BOOLEAN, partial : BOOLEAN, settled : BOOLEAN ]
          /\ proof'.entry => proof.entry
      BY <2>2 DEF CoreInv, ControlTyped
    <3> QED  BY <2>0, <2>2, <3>1, NextLegKeeps DEF Legs
  <2> QED  BY <1>16, <2>1, <2>2 DEF CloseLeavesResidue
<1>17. CASE NotFlat
  BY <1>0, <1>17, EndKeeps DEF NotFlat, Reconciled, Outcomes
<1>18. CASE Conclude
  BY <1>0, <1>18, EndKeeps DEF Conclude, Outcomes
<1> QED  BY <1>1, <1>2, <1>3, <1>4, <1>5, <1>6, <1>7, <1>8, <1>9, <1>10, <1>11,
            <1>12, <1>13, <1>14, <1>15, <1>16, <1>17, <1>18 DEF ControllerStep

--------------------------------------------------------------------------------
(***************************************************************************)
(* The venue's steps.  The venue only settles what it holds: it places     *)
(* nothing, and a leg it does not hold fills no further.  So what a        *)
(* snapshot without orders said stays true.                                *)
(***************************************************************************)
Settles ==
  /\ 0 <= Exposure'
  /\ \A l \in Legs :
       /\ venue'[l].asked = venue[l].asked
       /\ venue[l].filled <= venue'[l].filled
       /\ venue'[l].filled <= venue'[l].asked
       /\ Held(l)' => Held(l)
       /\ ~Held(l) => venue'[l].filled = venue[l].filled

\* Every step of the venue settles.
LEMMA VenueSettles ==
  ASSUME CoreInv, VenueStep
  PROVE  Settles /\ VenueTyped'
<1>0. /\ venue \in [ Legs -> VenueOrder ] /\ 0 <= Exposure
      /\ \A l \in Legs : venue[l].filled <= venue[l].asked
                         /\ venue[l].filled <= venue[l].filled
  BY DEF CoreInv, LegsInTurn, VenueTyped, VenueOrder
<1>1. ASSUME NEW l \in Legs, VenueAccept(l) \/ VenueReject(l) \/ VenueDropsRest(l)
      PROVE  Settles /\ VenueTyped'
  <2>1. PICK s \in { "working", "closed" } :
          venue' = [ venue EXCEPT ![l].state = s ] /\ Held(l)
    BY <1>1 DEF VenueAccept, VenueReject, VenueDropsRest, New, Held
  <2> QED  BY <1>0, <2>1 DEF Settles, VenueTyped, VenueOrder, Held, Exposure, Legs
<1>2. ASSUME NEW l \in Legs, NEW n \in 1 .. Qty, VenueFill(l, n)
      PROVE  Settles /\ VenueTyped'
  <2> DEFINE cumulative == venue[l].filled + n
             new == [ venue[l] EXCEPT !.filled = cumulative,
                                      !.state = IF cumulative = venue[l].asked
                                                THEN "closed" ELSE "working" ]
  <2>1. venue[l] \in VenueOrder /\ Held(l) /\ venue' = [ venue EXCEPT ![l] = new ]
    BY <1>0, <1>2 DEF VenueFill
  <2>2. cumulative <= venue[l].asked /\ (l # "Entry" => n <= Exposure)
    BY <1>2 DEF VenueFill
  <2>3. cumulative \in 0 .. Qty /\ venue[l].filled <= cumulative
    BY <2>1, <2>2 DEF VenueOrder
  <2> HIDE DEF cumulative
  <2>4. /\ new \in VenueOrder /\ new.asked = venue[l].asked
        /\ new.filled = cumulative
    BY <2>1, <2>3 DEF VenueOrder
  <2> HIDE DEF new
  <2>5. VenueTyped'
    BY <1>0, <2>1, <2>4 DEF VenueTyped
  <2>6. 0 <= Exposure'
    BY <1>0, <2>1, <2>2, <2>4 DEF Exposure, Legs, VenueOrder, cumulative
  <2> QED  BY <1>0, <2>1, <2>2, <2>3, <2>4, <2>5, <2>6 DEF Settles, Held
<1>3. CASE VenueReplies \/ ReplyOvertakes
  BY <1>0, <1>3
  DEF VenueReplies, ReplyOvertakes, Settles, VenueTyped, Held, Exposure
<1>4. CASE LinkDrops
  <2>1. PICK lost \in SUBSET { l \in Legs : New(l) } :
          venue' = [ l \in Legs |-> IF l \in lost
                                    THEN [ venue[l] EXCEPT !.state = "closed" ]
                                    ELSE venue[l] ]
    BY <1>4 DEF LinkDrops
  <2>2. \A l \in Legs : /\ venue'[l].asked = venue[l].asked
                        /\ venue'[l].filled = venue[l].filled
                        /\ venue'[l] \in VenueOrder
                        /\ Held(l)' => Held(l)
    BY <1>0, <2>1 DEF New, Held, VenueOrder
  <2> QED  BY <1>0, <2>1, <2>2 DEF Settles, VenueTyped, Exposure, Legs
<1> QED  BY <1>1, <1>2, <1>3, <1>4 DEF VenueStep

\* What is still true stays true while the venue only settles.
LEMMA StillTrueStays ==
  ASSUME Settles
  PROVE  /\ NothingHeld => NothingHeld' /\ Exposure' = Exposure
         /\ \A p : StillTrue(p) => (StillTrue(p))'
BY DEF Settles, StillTrue, NothingHeld, Held, Exposure, Legs

\* The parts of CoreInv that say what the venue has.
LEMMA SettlingFrame ==
  ASSUME CoreInv, Settles, VenueTyped', UNCHANGED <<sessionVars, controlVars>>
  PROVE  /\ SessionTyped' /\ ControlTyped' /\ CommandsFollowControl'
         /\ LegsInTurn' /\ UnsentIsSized' /\ SnapshotIsCurrent' /\ ProofIsEarned'
<1> USE DEF sessionVars, controlVars
<1>1. SessionTyped' /\ ControlTyped' /\ CommandsFollowControl'
  BY DEF CoreInv, SessionTyped, ControlTyped, CommandsFollowControl, Quiet,
         Sending, Asking, LegSubmit, LegReconcile
<1>2. LegsInTurn'
  BY StillTrueStays DEF CoreInv, LegsInTurn, Settles, Legs
<1>3. UnsentIsSized'
  BY StillTrueStays DEF CoreInv, UnsentIsSized, Unsent, LegSubmit, Settles,
                        ControlTyped
<1>4. SnapshotIsCurrent'
  BY StillTrueStays DEF CoreInv, SnapshotIsCurrent
<1>5. ProofIsEarned'
  BY StillTrueStays DEF CoreInv, ProofIsEarned, Settles, LegsInTurn, Legs
<1> QED  BY <1>1, <1>2, <1>3, <1>4, <1>5

\* The parts that say what is under way.
WireKeeps == LinkTyped /\ ThreadIsWhereItIs /\ OneReplyAwaited /\ RepliesTell

\* Nothing under way, and nothing asked for.
LEMMA EmptyWireKeeps ==
  ASSUME CoreInv, UNCHANGED io, Settles, link' \in BOOLEAN, drops' \in 0 .. MaxDrops,
         wire' = << >>, requests' = << >>
  PROVE  WireKeeps'
<1>1. LinkTyped' /\ ThreadIsWhereItIs' /\ OneReplyAwaited'
  BY DEF CoreInv, LinkTyped, ThreadIsWhereItIs, OneReplyAwaited
<1>2. RepliesTell'
  BY StillTrueStays DEF CoreInv, RepliesTell
<1> QED  BY <1>1, <1>2 DEF WireKeeps

\* An event joins the wire behind the replies.
LEMMA EventKeepsWire ==
  ASSUME CoreInv, UNCHANGED <<io, linkVars, requests>>, Settles,
         NEW m \in Message, m.kind # "reply", Emit(m)
  PROVE  WireKeeps'
<1>1. CASE ~link
  BY <1>1, EmptyWireKeeps DEF Emit, CoreInv, LinkTyped, ThreadIsWhereItIs, linkVars
<1>2. CASE link
  <2>1. /\ wire \in Seq(Message) /\ wire' = Append(wire, m)
        /\ wire' \in Seq(Message)
        /\ \A i \in DOMAIN wire' :
             AsksReconcile(wire'[i]) => i \in DOMAIN wire /\ wire'[i] = wire[i]
    BY <1>2 DEF Emit, CoreInv, LinkTyped, AsksReconcile
  <2> HIDE DEF AsksReconcile
  <2>2. LinkTyped' /\ ThreadIsWhereItIs'
    BY <1>2, <2>1 DEF CoreInv, LinkTyped, ThreadIsWhereItIs, linkVars
  <2>3. OneReplyAwaited'
    BY <2>1 DEF CoreInv, OneReplyAwaited
  <2>4. RepliesTell'
    BY <2>1, StillTrueStays DEF CoreInv, RepliesTell
  <2> QED  BY <2>2, <2>3, <2>4 DEF WireKeeps
<1> QED  BY <1>1, <1>2 DEF CoreInv, LinkTyped

\* What the venue answers is a message.
LEMMA AnswerIsMessage ==
  ASSUME CoreInv, requests # << >>
  PROVE  [ kind |-> "reply", to |-> Head(requests), position |-> Exposure,
           entryHeld |-> Held("Entry"),
           closeHeld |-> Held("Close") \/ Held("Residual") ] \in Message
<1>1. Head(requests) \in RequestKinds
  BY TakingFrom DEF CoreInv, LinkTyped
<1>2. Exposure \in 0 .. Qty
  BY DEF CoreInv, VenueTyped, VenueOrder, LegsInTurn, Exposure, Legs
<1>3. /\ Held("Entry") \in BOOLEAN
      /\ (Held("Close") \/ Held("Residual")) \in BOOLEAN
  BY DEF Held
<1> QED  BY <1>1, <1>2, <1>3 DEF Message

\* An answer to the oldest request joins the wire.
LEMMA ReplyKeepsWire ==
  ASSUME CoreInv, UNCHANGED io, Settles, VenueReplies
  PROVE  WireKeeps'
<1> DEFINE m == [ kind |-> "reply", to |-> Head(requests), position |-> Exposure,
                  entryHeld |-> Held("Entry"),
                  closeHeld |-> Held("Close") \/ Held("Residual") ]
<1>1. /\ link /\ requests # << >> /\ requests' = Tail(requests)
      /\ wire' = Append(wire, m) /\ UNCHANGED <<venue, link, drops>>
  BY DEF VenueReplies, Emit, linkVars
<1>2. /\ requests \in Seq(RequestKinds) /\ requests' \in Seq(RequestKinds)
      /\ Head(requests) = requests[1] /\ 1 \in DOMAIN requests
      /\ \A i \in DOMAIN requests' :
           i + 1 \in DOMAIN requests /\ requests'[i] = requests[i + 1] /\ i + 1 # 1
           /\ i \in Nat
  BY <1>1, TakingFrom DEF CoreInv, LinkTyped
<1>3. /\ wire \in Seq(Message) /\ wire' \in Seq(Message) /\ m \in Message
      /\ Len(wire) \in Nat /\ DOMAIN wire = 1 .. Len(wire)
      /\ DOMAIN wire' = 1 .. Len(wire) + 1
      /\ \A i \in DOMAIN wire : wire'[i] = wire[i]
      /\ wire'[Len(wire) + 1] = m
  <2>1. m \in Message
    BY <1>1, AnswerIsMessage
  <2> HIDE DEF m
  <2> QED  BY <1>1, <2>1 DEF CoreInv, LinkTyped
<1>4. LinkTyped' /\ ThreadIsWhereItIs'
  BY <1>1, <1>2, <1>3 DEF CoreInv, LinkTyped, ThreadIsWhereItIs
<1>5. AsksReconcile(m) <=> requests[1] = "reconcile"
  BY <1>2 DEF AsksReconcile
<1>6. ~m.entryHeld /\ ~m.closeHeld => StillTrue(m.position)
  BY DEF StillTrue, NothingHeld, Legs
<1> HIDE DEF m, AsksReconcile
<1>7. OneReplyAwaited'
  <2>1. ASSUME NEW i \in DOMAIN wire', AsksReconcile(wire'[i])
        PROVE  /\ io.mode = "query" /\ io.stage = "reconcile"
               /\ \A j \in DOMAIN wire' : AsksReconcile(wire'[j]) => j = i
               /\ \A j \in DOMAIN requests' : requests'[j] # "reconcile"
    <3>1. CASE i \in DOMAIN wire
      BY <1>2, <1>3, <1>5, <2>1, <3>1 DEF CoreInv, OneReplyAwaited
    <3>2. CASE i = Len(wire) + 1
      BY <1>2, <1>3, <1>5, <2>1, <3>2 DEF CoreInv, OneReplyAwaited
    <3> QED  BY <1>3, <3>1, <3>2
  <2>2. ASSUME NEW i \in DOMAIN requests', requests'[i] = "reconcile"
        PROVE  /\ io.mode = "query" /\ io.stage = "reconcile"
               /\ \A j \in DOMAIN requests' : requests'[j] = "reconcile" => j = i
    BY <1>2, <2>2 DEF CoreInv, OneReplyAwaited
  <2> QED  BY <2>1, <2>2 DEF OneReplyAwaited
<1>8. RepliesTell'
  <2>1. ASSUME NEW i \in DOMAIN wire', AsksReconcile(wire'[i]),
               ~wire'[i].entryHeld, ~wire'[i].closeHeld, io.job.kind = "reconcile"
        PROVE  StillTrue(wire'[i].position)
    BY <1>3, <1>6, <2>1 DEF CoreInv, RepliesTell
  <2> QED  BY <2>1, StillTrueStays DEF CoreInv, RepliesTell
<1> QED  BY <1>4, <1>7, <1>8 DEF WireKeeps

\* A reply that overtakes an event says the same, one place earlier.
LEMMA OvertakingKeepsWire ==
  ASSUME CoreInv, UNCHANGED io, Settles, ReplyOvertakes
  PROVE  WireKeeps'
<1>1. PICK k \in 1 .. Len(wire) - 1 :
        wire' = [ wire EXCEPT ![k] = wire[k + 1], ![k + 1] = wire[k] ]
  BY DEF ReplyOvertakes
<1> DEFINE p(i) == IF i = k THEN k + 1 ELSE IF i = k + 1 THEN k ELSE i
<1>2. /\ wire \in Seq(Message) /\ wire' \in Seq(Message)
      /\ DOMAIN wire' = DOMAIN wire
      /\ \A i \in DOMAIN wire : p(i) \in DOMAIN wire /\ wire'[i] = wire[p(i)]
      /\ \A i, j \in DOMAIN wire : p(i) = p(j) => i = j
  BY <1>1 DEF CoreInv, LinkTyped
<1> HIDE DEF p
<1>3. UNCHANGED <<venue, link, drops, requests>>
  BY DEF ReplyOvertakes, linkVars
<1>4. LinkTyped'
  BY <1>2, <1>3 DEF CoreInv, LinkTyped
<1>5. ThreadIsWhereItIs'
  BY <1>1, <1>2, <1>3 DEF CoreInv, LinkTyped, ThreadIsWhereItIs
<1> HIDE DEF AsksReconcile
<1>6. OneReplyAwaited'
  BY <1>2, <1>3 DEF CoreInv, OneReplyAwaited
<1>7. RepliesTell'
  BY <1>2, <1>3, StillTrueStays DEF CoreInv, RepliesTell
<1> QED  BY <1>4, <1>5, <1>6, <1>7 DEF WireKeeps

\* Every step of the venue keeps the invariant.
LEMMA VenueKeeps ==
  ASSUME CoreInv, VenueStep, UNCHANGED <<bookVars, sessionVars, controlVars>>
  PROVE  CoreInv'
<1>0. Settles /\ VenueTyped' /\ UNCHANGED io
  BY VenueSettles DEF sessionVars
<1>1. ASSUME NEW l \in Legs, VenueAccept(l) \/ VenueReject(l)
      PROVE  WireKeeps'
  <2>1. /\ [ kind |-> "accept", leg |-> l ] \in Message
        /\ [ kind |-> "reject", leg |-> l ] \in Message
    BY DEF Message
  <2> QED  BY <1>0, <1>1, <2>1, EventKeepsWire DEF VenueAccept, VenueReject
<1>2. ASSUME NEW l \in Legs, NEW n \in 1 .. Qty, VenueFill(l, n)
      PROVE  WireKeeps'
  <2>1. venue[l].filled + n \in 1 .. Qty
    BY <1>2 DEF VenueFill, CoreInv, VenueTyped, VenueOrder
  <2>2. [ kind |-> "fill", leg |-> l, cumulative |-> venue[l].filled + n ]
          \in Message
    BY <2>1 DEF Message
  <2> QED  BY <1>0, <1>2, <2>2, EventKeepsWire DEF VenueFill
<1>3. ASSUME NEW l \in Legs, VenueDropsRest(l)
      PROVE  WireKeeps'
  BY <1>0, <1>3, StillTrueStays
  DEF VenueDropsRest, WireKeeps, CoreInv, LinkTyped, ThreadIsWhereItIs,
      OneReplyAwaited, RepliesTell, linkVars, AsksReconcile
<1>4. ASSUME VenueReplies PROVE WireKeeps'
  BY <1>0, <1>4, ReplyKeepsWire
<1>5. ASSUME LinkDrops PROVE WireKeeps'
  <2>1. /\ link' = FALSE /\ drops' = drops + 1 /\ drops < MaxDrops
        /\ wire' = << >> /\ requests' = << >> /\ drops \in 0 .. MaxDrops
    BY <1>5 DEF LinkDrops, CoreInv, LinkTyped
  <2>2. drops' \in 0 .. MaxDrops
    BY <2>1
  <2> QED  BY <1>0, <2>1, <2>2, EmptyWireKeeps
<1>6. ASSUME ReplyOvertakes PROVE WireKeeps'
  BY <1>0, <1>6, OvertakingKeepsWire
<1>7. WireKeeps'
  BY <1>1, <1>2, <1>3, <1>4, <1>5, <1>6 DEF VenueStep
<1> QED  BY <1>0, <1>7, SettlingFrame DEF WireKeeps, CoreInv

--------------------------------------------------------------------------------
(***************************************************************************)
(* The session's steps.  Only a submission touches the venue.              *)
(***************************************************************************)

\* The parts of CoreInv that a step of the session may disturb.
SessionKeeps ==
  /\ LinkTyped /\ SessionTyped /\ CommandsFollowControl /\ ThreadIsWhereItIs
  /\ OneReplyAwaited /\ RepliesTell /\ SnapshotIsCurrent

\* What a step that leaves the venue alone need not prove.
LEMMA SessionFrame ==
  ASSUME CoreInv, UNCHANGED <<venue, controlVars>>, Unsent' => Unsent, SessionKeeps'
  PROVE  CoreInv'
<1> USE DEF CoreInv, controlVars
<1>1. VenueTyped' /\ ControlTyped'
  BY DEF VenueTyped, ControlTyped
<1>2. LegsInTurn' /\ ProofIsEarned'
  BY DEF LegsInTurn, ProofIsEarned, StillTrue, NothingHeld, Held, Exposure
<1>3. UnsentIsSized'
  BY DEF UnsentIsSized, NothingHeld, Held, Exposure
<1> QED  BY <1>1, <1>2, <1>3 DEF SessionKeeps

\* The states the thread is put in, and that none holds a snapshot.
LEMMA IdleStates ==
  /\ Idle \in IOStates
  /\ Idle.mode = "loop" /\ Idle.job = None /\ ~Idle.view.ok
  /\ \A mode \in { "read", "down" } : LET s == [ Idle EXCEPT !.mode = mode ] IN
       s \in IOStates /\ s.mode = mode /\ s.job = None /\ ~s.view.ok
<1>1. None \in Command /\ Pending \in Answers /\ ~Pending.ok
  BY DEF Command, Pending, Answers
<1>2. Idle \in IOStates /\ Idle.mode = "loop" /\ Idle.job = None /\ ~Idle.view.ok
  BY <1>1 DEF Idle, IOStates
<1> HIDE DEF Idle
<1> QED  BY <1>2 DEF IOStates

\* What a thread in a query knows of its state.
LEMMA QueryStates ==
  ASSUME NEW job \in Command, NEW retried \in BOOLEAN
  PROVE  LET s == QueryIO(job, retried) IN
           /\ s \in IOStates /\ s.mode = "query" /\ s.job = job /\ ~s.view.ok
           /\ s.stage = "reconcile" /\ s.attempt = 0
<1> HIDE DEF Idle
<1>1. Idle.stage = "reconcile" /\ Idle.attempt = 0
  BY DEF Idle
<1> QED  BY <1>1, IdleStates DEF QueryIO, IOStates

\* The same of a thread in a recovery.
LEMMA RecoverStates ==
  ASSUME NEW job \in Command, NEW attempt \in 0 .. Attempts
  PROVE  LET s == RecoverIO(job, attempt) IN
           /\ s \in IOStates /\ s.mode = "recover" /\ s.job = job /\ ~s.view.ok
           /\ s.stage = "reconcile" /\ s.recovering
<1>1. Idle.stage = "reconcile"
  BY DEF Idle
<1> QED  BY <1>1, IdleStates DEF RecoverIO, IOStates

\* And what promises are given.
LEMMA PromiseValues ==
  /\ { Pending, Failure, Success } \subseteq Answers
  /\ Failure.ready /\ Success.ready /\ ~Pending.ok /\ ~Failure.ok
<1>1. Pending \in Answers /\ ~Pending.ok
  BY DEF Pending, Answers
<1>2. Failure \in Answers /\ Failure.ready /\ ~Failure.ok
  BY <1>1 DEF Failure, Answers
<1>3. Success \in Answers /\ Success.ready
  BY <1>2 DEF Success, Answers
<1> QED  BY <1>1, <1>2, <1>3

\* The values a view and a promise take.
LEMMA SnapshotValues ==
  ASSUME NEW position \in 0 .. Qty, NEW pending \in BOOLEAN
  PROVE  /\ Snapshot(position, pending) \in Answers
         /\ Snapshot(position, pending).ready
         /\ Snapshot(position, pending).position = position
         /\ Snapshot(position, pending).pending = pending
BY PromiseValues DEF Snapshot, Answers

\* No reply is under way or asked for that the session would believe.
NothingAsked ==
  /\ \A i \in DOMAIN wire : ~AsksReconcile(wire[i])
  /\ \A i \in DOMAIN requests : requests[i] # "reconcile"

\* Outside the first stage of a query, nothing is.
LEMMA OnlyAQueryAsks ==
  ASSUME CoreInv, io.mode # "query" \/ io.stage # "reconcile"
  PROVE  NothingAsked
BY DEF CoreInv, OneReplyAwaited, NothingAsked

\* And then no reply tells the session anything.
LEMMA NothingAskedKeeps ==
  ASSUME CoreInv, NothingAsked', venue' = venue,
         \/ io'.view = io.view /\ io'.job = io.job
         \/ ~io'.view.ok
         \/ io'.job.kind # "reconcile"
  PROVE  OneReplyAwaited' /\ RepliesTell'
<1>1. OneReplyAwaited'
  BY DEF OneReplyAwaited, NothingAsked
<1>2. RepliesTell'
  BY DEF CoreInv, RepliesTell, NothingAsked, StillTrue, NothingHeld, Held, Exposure
<1> QED  BY <1>1, <1>2

\* A thread that stays with its job leaves the controller's view as it is.
LEMMA JobStays ==
  ASSUME CoreInv, io'.job = io.job,
         UNCHANGED <<venue, controlVars, connected, commands, awaiting, answer>>
  PROVE  CommandsFollowControl' /\ SnapshotIsCurrent' /\ (Unsent' => Unsent)
BY DEF CoreInv, controlVars, CommandsFollowControl, Quiet, Sending, Asking, LegSubmit,
       LegReconcile, SnapshotIsCurrent, NothingHeld, Held, Exposure, Unsent

(***************************************************************************)
(* A job that ends answers the promise only if the controller still waits  *)
(* for this command; then nothing is left in the queue.                    *)
(***************************************************************************)
LEMMA JobEnds ==
  ASSUME CoreInv, pc # "done", io'.job = None, NEW value \in Answers, value.ready,
         Settle(io.job, value),
         UNCHANGED <<venue, controlVars, connected, commands, awaiting>>,
         value.ok /\ ~value.pending /\ io.job.kind = "reconcile"
           => StillTrue(value.position)
  PROVE  /\ CommandsFollowControl' /\ SnapshotIsCurrent' /\ (Unsent' => Unsent)
         /\ answer' \in Answers
<1>1. /\ LegSubmit # LegReconcile /\ LegSubmit # None /\ LegReconcile # None
      /\ LegReconcile.kind = "reconcile"
  BY DEF LegSubmit, LegReconcile, Submit, Reconcile, None
<1>2. LegSubmit' = LegSubmit /\ LegReconcile' = LegReconcile
  BY DEF LegSubmit, LegReconcile, controlVars
<1>3. /\ pc' = pc /\ commands' = commands /\ awaiting' = awaiting
      /\ answer' = IF io.job = awaiting /\ io.job # None THEN value ELSE answer
  BY DEF controlVars, Settle
<1>4. pc \in Places /\ CommandsFollowControl
  BY DEF CoreInv, ControlTyped
<1>5. CommandsFollowControl'
  <2>1. CASE pc = "asked"
    BY <1>1, <1>2, <1>3, <1>4, <2>1 DEF CommandsFollowControl, Asking, Quiet
  <2>2. CASE pc # "asked"
    BY <1>1, <1>2, <1>3, <1>4, <2>2
    DEF CommandsFollowControl, Sending, Quiet, Places
  <2> QED  BY <2>1, <2>2
<1>6. SnapshotIsCurrent'
  <2>1. pc = "asked" => awaiting = LegReconcile
    BY DEF CoreInv, CommandsFollowControl
  <2> QED  BY <1>1, <1>3, <2>1
           DEF CoreInv, SnapshotIsCurrent, StillTrue, NothingHeld, Held, Exposure
<1>7. Unsent' => Unsent
  BY <1>2, <1>3 DEF Unsent
<1>8. answer' \in Answers
  BY <1>3 DEF CoreInv, SessionTyped
<1> QED  BY <1>5, <1>6, <1>7, <1>8

\* A command that is taken is the next one of this leg.
LEMMA JobTaken ==
  ASSUME CoreInv, pc # "done", io.mode = "loop", commands # << >>,
         UNCHANGED <<controlVars, connected, awaiting>>, commands' = Tail(commands),
         NEW value \in Answers, value.ready,
         \/ io'.job = Head(commands) /\ answer' = answer
         \/ /\ io'.job = None /\ Head(commands).kind = "submit"
            /\ Settle(Head(commands), value)
  PROVE  /\ Head(commands) \in { LegSubmit, LegReconcile }
         /\ pc \in { "refused", "forget", "judge", "wait", "submitted", "asked" }
         /\ pc = "asked" => answer' = answer /\ ~answer.ok
         /\ CommandsFollowControl' /\ ~Unsent' /\ answer' \in Answers
<1>1. /\ LegSubmit # LegReconcile /\ LegSubmit # None /\ LegReconcile # None
      /\ LegReconcile.kind = "reconcile" /\ LegSubmit.kind = "submit"
  BY DEF LegSubmit, LegReconcile, Submit, Reconcile, None
<1>2. LegSubmit' = LegSubmit /\ LegReconcile' = LegReconcile
  BY DEF LegSubmit, LegReconcile, controlVars
<1>3. /\ pc' = pc /\ awaiting' = awaiting /\ io.job = None
      /\ \/ io'.job = Head(commands) /\ answer' = answer
         \/ /\ io'.job = None /\ Head(commands) # LegReconcile
            /\ answer' = IF Head(commands) = awaiting /\ Head(commands) # None
                         THEN value ELSE answer
  BY <1>1 DEF CoreInv, ThreadIsWhereItIs, controlVars, Settle
<1>4. /\ pc \in { "refused", "forget", "judge", "wait", "submitted", "asked" }
      /\ CommandsFollowControl
  BY DEF CoreInv, ControlTyped, Places, CommandsFollowControl, Quiet
<1>5. /\ \/ /\ commands = << LegSubmit >> /\ Head(commands) = LegSubmit
            /\ commands' = << >>
         \/ /\ commands = << LegReconcile >> /\ Head(commands) = LegReconcile
            /\ commands' = << >> /\ pc = "asked"
         \/ /\ commands = << LegSubmit, LegReconcile >> /\ Head(commands) = LegSubmit
            /\ commands' = << LegReconcile >> /\ pc = "asked"
      /\ pc = "asked" => commands # << LegSubmit >>
  <2>0. /\ Head(<< LegSubmit >>) = LegSubmit /\ Tail(<< LegSubmit >>) = << >>
        /\ Head(<< LegReconcile >>) = LegReconcile /\ Tail(<< LegReconcile >>) = << >>
        /\ Head(<< LegSubmit, LegReconcile >>) = LegSubmit
        /\ Tail(<< LegSubmit, LegReconcile >>) = << LegReconcile >>
        /\ << LegSubmit >> # << LegReconcile >> /\ << >> # << LegSubmit >>
        /\ << LegSubmit, LegReconcile >> # << LegSubmit >>
    BY <1>1, ShortQueues
  <2>1. \/ pc # "asked" /\ commands = << LegSubmit >>
        \/ pc = "asked" /\ commands = << LegReconcile >>
        \/ pc = "asked" /\ commands = << LegSubmit, LegReconcile >>
    BY <1>4 DEF CommandsFollowControl, Sending, Asking
  <2>2. pc = "asked" => commands # << LegSubmit >>
    BY <1>1, <1>4, <2>0 DEF CommandsFollowControl, Asking
  <2> QED  BY <2>0, <2>1, <2>2
<1>6. pc = "asked" => answer' = answer /\ ~answer.ok
  BY <1>3, <1>4, <1>5 DEF CommandsFollowControl, Quiet
<1>7. CommandsFollowControl'
  <2>1. CASE pc = "asked"
    BY <1>1, <1>2, <1>3, <1>4, <1>5, <1>6, <2>1
    DEF CommandsFollowControl, Asking, Quiet
  <2>2. CASE pc = "submitted"
    BY <1>1, <1>2, <1>3, <1>4, <1>5, <2>2
    DEF CommandsFollowControl, Sending, Quiet
  <2>3. CASE pc \notin { "asked", "submitted" }
    BY <1>1, <1>2, <1>3, <1>4, <1>5, <2>3
    DEF CommandsFollowControl, Sending, Quiet
  <2> QED  BY <2>1, <2>2, <2>3
<1>8. ~Unsent'
  BY <1>1, <1>2, <1>3, <1>4, <1>5, ShortQueues DEF Unsent
<1>9. answer' \in Answers
  BY <1>3 DEF CoreInv, SessionTyped
<1> QED  BY <1>4, <1>5, <1>6, <1>7, <1>8, <1>9

DeadLinkIsEmpty == ~link => wire = << >> /\ requests = << >>

\* The thread goes on with the same job.
LEMMA SameJobKeeps ==
  ASSUME CoreInv, io' \in IOStates, io'.job = io.job,
         UNCHANGED <<venue, controlVars, connected, commands, awaiting, answer>>,
         LinkTyped', ThreadIsWhereItIs', OneReplyAwaited', RepliesTell'
  PROVE  CoreInv'
<1>1. SessionTyped'
  BY DEF CoreInv, SessionTyped
<1> QED  BY <1>1, JobStays, SessionFrame DEF SessionKeeps

\* The thread goes on to read, to recover, or back to its loop.
LEMMA MovesOnKeeps ==
  ASSUME CoreInv, NEW n \in 0 .. Attempts,
         \/ io' \in { Idle, [ Idle EXCEPT !.mode = "read" ] } /\ io.job = None
         \/ io' = RecoverIO(io.job, n),
         UNCHANGED <<venue, controlVars, connected, commands, awaiting, answer>>,
         LinkTyped', DeadLinkIsEmpty', NothingAsked'
  PROVE  CoreInv'
<1>1. io.job \in Command
  BY DEF CoreInv, SessionTyped, IOStates
<1>2. io' \in IOStates
  BY <1>1, IdleStates, RecoverStates
<1>3. /\ io'.job = io.job /\ ~io'.view.ok
      /\ io'.mode \in { "loop", "read" } => io.job = None
      /\ io'.mode \in { "loop", "read", "recover" }
      /\ io'.mode = "recover" => io'.recovering /\ io'.stage = "reconcile"
  <2>1. CASE io' = Idle /\ io.job = None
    BY <2>1, IdleStates
  <2>2. CASE io' = [ Idle EXCEPT !.mode = "read" ] /\ io.job = None
    <3>1. LET s == [ Idle EXCEPT !.mode = "read" ] IN
            s.mode = "read" /\ s.job = None /\ ~s.view.ok
      BY IdleStates
    <3> QED  BY <2>2, <3>1
  <2>3. CASE io' = RecoverIO(io.job, n)
    BY <1>1, <2>3, RecoverStates
  <2> QED  BY <2>1, <2>2, <2>3
<1>4. ThreadIsWhereItIs'
  BY <1>3 DEF ThreadIsWhereItIs, DeadLinkIsEmpty
<1>5. OneReplyAwaited' /\ RepliesTell'
  BY <1>3, NothingAskedKeeps
<1> QED  BY <1>2, <1>3, <1>4, <1>5, SameJobKeeps

\* The thread is done with its job.
LEMMA JobDoneKeeps ==
  ASSUME CoreInv, pc # "done", NEW value \in Answers, value.ready, FinishJob(value),
         value.ok /\ ~value.pending /\ io.job.kind = "reconcile"
           => StillTrue(value.position),
         UNCHANGED <<venue, controlVars, connected, commands, awaiting>>,
         LinkTyped', DeadLinkIsEmpty', NothingAsked'
  PROVE  CoreInv'
<1>1. /\ io' = Idle /\ io'.job = None /\ ~io'.view.ok /\ io'.mode = "loop"
      /\ Settle(io.job, value)
  BY DEF FinishJob, Idle, Pending
<1>2. ThreadIsWhereItIs'
  BY <1>1 DEF ThreadIsWhereItIs, DeadLinkIsEmpty
<1>3. OneReplyAwaited' /\ RepliesTell'
  BY <1>1, NothingAskedKeeps
<1>4. /\ CommandsFollowControl' /\ SnapshotIsCurrent' /\ (Unsent' => Unsent)
      /\ answer' \in Answers
  BY <1>1, JobEnds
<1>5. SessionTyped'
  BY <1>1, <1>4, IdleStates DEF CoreInv, SessionTyped
<1> QED  BY <1>2, <1>3, <1>4, <1>5, SessionFrame DEF SessionKeeps

\* A failed query is retried, recovered from, or fails its command.
LEMMA QueryFailsKeeps ==
  ASSUME CoreInv, pc # "done", io.mode = "query", NEW dropped, QueryFails(dropped),
         UNCHANGED <<venue, controlVars>>,
         LinkTyped', DeadLinkIsEmpty', NothingAsked'
  PROVE  CoreInv'
<1>1. UNCHANGED <<connected, commands, awaiting>>
  BY DEF QueryFails
<1>2. io.attempt + 1 \in 0 .. Attempts /\ 0 \in 0 .. Attempts
  BY DEF CoreInv, ThreadIsWhereItIs, SessionTyped, IOStates
<1>3. Failure \in Answers /\ Failure.ready /\ ~Failure.ok
  BY PromiseValues
<1>4. CASE FinishJob(Failure)
  BY <1>1, <1>3, <1>4, JobDoneKeeps
<1>5. CASE \E n \in { 0, io.attempt + 1 } : io' = RecoverIO(io.job, n) /\ UNCHANGED answer
  BY <1>1, <1>2, <1>5, MovesOnKeeps
<1> QED  BY <1>4, <1>5 DEF QueryFails

\* The session ends: whoever waits is told, and nothing is queued any more.
LEMMA SessionEndsKeeps ==
  ASSUME CoreInv, pc # "done", SessionEnds, UNCHANGED controlVars
  PROVE  CoreInv'
<1>1. /\ io' = [ Idle EXCEPT !.mode = "down" ] /\ commands' = << >>
      /\ connected' = FALSE /\ UNCHANGED <<venue, drops, awaiting>>
      /\ link' = FALSE /\ wire' = << >> /\ requests' = << >>
      /\ answer' = IF awaiting # None /\ ~answer.ready THEN Failure ELSE answer
  BY DEF SessionEnds
<1>2. /\ io'.job = None /\ ~io'.view.ok /\ io'.mode = "down" /\ io' \in IOStates
  <2>1. LET s == [ Idle EXCEPT !.mode = "down" ] IN
          s \in IOStates /\ s.mode = "down" /\ s.job = None /\ ~s.view.ok
    BY IdleStates
  <2> QED  BY <1>1, <2>1
<1>3. Failure \in Answers /\ Failure.ready /\ ~Failure.ok
  BY PromiseValues
<1>4. LinkTyped' /\ NothingAsked' /\ ThreadIsWhereItIs'
  <2>1. drops \in 0 .. MaxDrops
    BY DEF CoreInv, LinkTyped
  <2>2. LinkTyped'
    <3>1. wire' \in Seq(Message) /\ requests' \in Seq(RequestKinds)
      BY <1>1
    <3>2. link' \in BOOLEAN /\ drops' \in 0 .. MaxDrops
      BY <1>1, <2>1
    <3> QED  BY <3>1, <3>2 DEF LinkTyped
  <2>3. NothingAsked'
    BY <1>1 DEF NothingAsked
  <2>4. ThreadIsWhereItIs'
    BY <1>1, <1>2 DEF ThreadIsWhereItIs
  <2> QED  BY <2>2, <2>3, <2>4
<1>5. SessionTyped'
  BY <1>1, <1>2, <1>3 DEF CoreInv, SessionTyped
<1>6. CommandsFollowControl'
  BY <1>1, <1>2, <1>3
  DEF CoreInv, CommandsFollowControl, controlVars, Quiet, Sending, Asking,
      LegSubmit, LegReconcile
<1>7. SnapshotIsCurrent'
  BY <1>1, <1>3
  DEF CoreInv, SnapshotIsCurrent, controlVars, NothingHeld, Held, Exposure
<1>8. OneReplyAwaited' /\ RepliesTell'
  BY <1>1, <1>2, <1>4, NothingAskedKeeps
<1>9. Unsent' => Unsent
  BY <1>1 DEF Unsent, controlVars
<1> QED  BY <1>1, <1>4, <1>5, <1>6, <1>7, <1>8, <1>9, SessionFrame
         DEF SessionKeeps, controlVars

\* What a failed query leaves on the wire is late.
LEMMA ForgettingAsksNothing ==
  ASSUME CoreInv, link, NEW unread \in Seq(Message), QueryForgets(unread)
  PROVE  LinkTyped' /\ DeadLinkIsEmpty' /\ NothingAsked'
<1>1. \A m \in Message : Late(m) \in Message /\ ~AsksReconcile(Late(m))
  <2> SUFFICES ASSUME NEW m \in Message
               PROVE  Late(m) \in Message /\ ~AsksReconcile(Late(m))
    OBVIOUS
  <2>1. CASE m.kind # "reply"
    BY <2>1 DEF Late, AsksReconcile
  <2>2. CASE m.kind = "reply"
    <3>1. m \in [ kind : { "reply" }, to : RequestKinds, position : 0 .. Qty,
                  entryHeld : BOOLEAN, closeHeld : BOOLEAN ]
      BY <2>2 DEF Message
    <3> QED  BY <2>2, <3>1 DEF Late, AsksReconcile, Message, RequestKinds
  <2> QED  BY <2>1, <2>2
<1>2. /\ wire' = [ i \in DOMAIN unread |-> Late(unread[i]) ]
      /\ requests' = [ i \in DOMAIN requests |-> "late" ]
      /\ UNCHANGED <<link, drops>> /\ requests \in Seq(RequestKinds)
      /\ link \in BOOLEAN /\ drops \in 0 .. MaxDrops
  BY DEF QueryForgets, CoreInv, LinkTyped, linkVars
<1>3. /\ wire' \in Seq(Message)
      /\ \A i \in DOMAIN wire' : ~AsksReconcile(wire'[i])
  BY <1>1, <1>2
<1>4. /\ requests' \in Seq(RequestKinds)
      /\ \A i \in DOMAIN requests' : requests'[i] # "reconcile"
  BY <1>2 DEF RequestKinds
<1>5. NothingAsked'
  BY <1>3, <1>4 DEF NothingAsked, AsksReconcile
<1> QED  BY <1>2, <1>3, <1>4, <1>5 DEF LinkTyped, DeadLinkIsEmpty

\* Taking an answered, refused or unsent submission leaves the venue alone.
LEMMA RefusedKeeps ==
  ASSUME CoreInv, pc # "done", io.mode = "loop", commands # << >>,
         Head(commands).kind = "submit", commands' = Tail(commands),
         SubmitRefused(Head(commands)), UNCHANGED <<controlVars, connected, awaiting>>
  PROVE  CoreInv'
<1>1. /\ UNCHANGED <<io, venue, link, drops, wire, requests>>
      /\ Settle(Head(commands), Failure)
  BY DEF SubmitRefused, venueVars, linkVars
<1>2. Failure \in Answers /\ Failure.ready /\ io'.job = None
  BY <1>1, PromiseValues DEF CoreInv, ThreadIsWhereItIs
<1>3. /\ pc = "asked" => answer' = answer /\ ~answer.ok
      /\ CommandsFollowControl' /\ ~Unsent' /\ answer' \in Answers
  BY <1>1, <1>2, JobTaken
<1>4. SessionTyped' /\ LinkTyped' /\ ThreadIsWhereItIs' /\ OneReplyAwaited'
  BY <1>1, <1>3 DEF CoreInv, SessionTyped, LinkTyped, ThreadIsWhereItIs,
                    OneReplyAwaited, AsksReconcile
<1>5. RepliesTell' /\ SnapshotIsCurrent'
  <2>1. io'.job.kind # "reconcile"
    BY <1>2 DEF None
  <2> QED  BY <1>1, <1>3, <2>1 DEF RepliesTell, SnapshotIsCurrent, controlVars
<1> QED  BY <1>1, <1>3, <1>4, <1>5, SessionFrame DEF SessionKeeps

(***************************************************************************)
(* A submission that reaches the venue: the leg was not placed, nothing is *)
(* held, and its size is the minimum volume or the open position.          *)
(***************************************************************************)
LEMMA PlacedKeeps ==
  ASSUME CoreInv, ~Unsent', Unsent, UNCHANGED controlVars, pc \notin { "idle", "conclude" },
         venue' = Placed(LegSubmit)
  PROVE  VenueTyped' /\ LegsInTurn' /\ UnsentIsSized' /\ ProofIsEarned' /\ ControlTyped'
<1>1. /\ venue \in [ Legs -> VenueOrder ] /\ leg \in Legs /\ lot[leg] \in 1 .. Qty
      /\ NothingHeld /\ venue[leg].asked = 0 /\ venue[leg].filled = 0
  BY DEF CoreInv, VenueTyped, VenueOrder, ControlTyped, UnsentIsSized, LegsInTurn
<1>2. venue' = [ venue EXCEPT ![leg] = [ venue[leg] EXCEPT !.state = "new",
                                                          !.asked = lot[leg] ] ]
  BY <1>1 DEF Placed, LegSubmit, Submit
<1>3. /\ venue' \in [ Legs -> VenueOrder ]
      /\ \A l \in Legs : /\ venue'[l].filled = venue[l].filled
                         /\ l # leg => venue'[l] = venue[l]
      /\ venue'[leg].asked = lot[leg]
  <2> DEFINE new == [ venue[leg] EXCEPT !.state = "new", !.asked = lot[leg] ]
  <2>1. new \in VenueOrder /\ new.filled = venue[leg].filled /\ new.asked = lot[leg]
    <3>1. venue[leg] \in VenueOrder /\ lot[leg] \in 0 .. Qty
      BY <1>1
    <3> QED  BY <3>1 DEF VenueOrder
  <2> HIDE DEF new
  <2>2. venue' = [ venue EXCEPT ![leg] = new ]
    BY <1>2 DEF new
  <2> QED  BY <1>1, <2>1, <2>2
<1>4. Exposure' = Exposure
  BY <1>3 DEF Exposure, Legs
<1>5. VenueTyped' /\ ControlTyped'
  BY <1>3 DEF VenueTyped, CoreInv, ControlTyped, controlVars
<1>6. LegsInTurn'
  <2>1. \A l \in Legs : venue'[l].filled <= venue'[l].asked
    BY <1>1, <1>3 DEF CoreInv, LegsInTurn
  <2>2. \A l \in Legs : Held(l)' => l = leg
    BY <1>1, <1>3 DEF NothingHeld, Held
  <2> QED  BY <1>3, <1>4, <2>1, <2>2 DEF CoreInv, LegsInTurn, controlVars, Legs
<1>7. UnsentIsSized'
  BY DEF UnsentIsSized
<1>8. ProofIsEarned'
  BY <1>3 DEF CoreInv, ProofIsEarned, controlVars, Legs
<1> QED  BY <1>5, <1>6, <1>7, <1>8

\* A submission that was written, or may have been.
LEMMA SubmittedKeeps ==
  ASSUME CoreInv, pc # "done", io.mode = "loop", commands # << >>,
         Head(commands).kind = "submit", commands' = Tail(commands),
         SubmitSent(Head(commands)) \/ SubmitAmbiguous(Head(commands)),
         UNCHANGED <<controlVars, connected, awaiting>>
  PROVE  CoreInv'
<1>1. /\ UNCHANGED <<link, drops, wire, requests>>
      /\ venue' \in { venue, Placed(Head(commands)) }
      /\ \/ io' = io /\ Settle(Head(commands), Success)
         \/ io' = RecoverIO(Head(commands), 0) /\ answer' = answer
  BY DEF SubmitSent, SubmitAmbiguous, linkVars
<1>2. io.job = None /\ Success \in Answers /\ Success.ready
  BY PromiseValues DEF CoreInv, ThreadIsWhereItIs
<1>3. /\ Head(commands) \in { LegSubmit, LegReconcile }
      /\ pc \in { "refused", "forget", "judge", "wait", "submitted", "asked" }
      /\ pc = "asked" => answer' = answer /\ ~answer.ok
      /\ CommandsFollowControl' /\ ~Unsent' /\ answer' \in Answers
  <2>1. \/ io'.job = Head(commands) /\ answer' = answer
        \/ io'.job = None /\ Settle(Head(commands), Success)
    BY <1>1, <1>2 DEF RecoverIO, Idle
  <2> QED  BY <1>2, <2>1, JobTaken
<1>4. Head(commands) = LegSubmit /\ Unsent /\ LegSubmit \in Command
  <2>1. Head(commands) = LegSubmit
    BY <1>3 DEF LegReconcile, Reconcile
  <2> QED  BY <2>1, LegCommands DEF Unsent
<1>5. VenueTyped' /\ LegsInTurn' /\ UnsentIsSized' /\ ProofIsEarned' /\ ControlTyped'
  <2>1. CASE venue' = venue
    BY <1>3, <2>1
    DEF CoreInv, VenueTyped, LegsInTurn, UnsentIsSized, ProofIsEarned, ControlTyped,
        controlVars, Held, NothingHeld, Exposure, StillTrue
  <2>2. CASE venue' = Placed(LegSubmit)
    BY <1>3, <1>4, <2>2, PlacedKeeps
  <2> QED  BY <1>1, <1>4, <2>1, <2>2
<1>6. /\ io' \in IOStates /\ io'.job.kind # "reconcile"
      /\ io'.mode \in { "loop", "recover" } /\ (io'.mode = "loop" => io'.job = None)
      /\ io'.mode = "recover" => io'.recovering /\ io'.stage = "reconcile"
  <2>1. CASE io' = io
    BY <1>2, <2>1 DEF CoreInv, SessionTyped, None
  <2>2. CASE io' = RecoverIO(LegSubmit, 0)
    BY <1>4, <2>2, RecoverStates DEF LegSubmit, Submit
  <2> QED  BY <1>1, <1>4, <2>1, <2>2
<1>7. SessionTyped' /\ LinkTyped' /\ ThreadIsWhereItIs'
  BY <1>1, <1>3, <1>6 DEF CoreInv, SessionTyped, LinkTyped, ThreadIsWhereItIs
<1>8. OneReplyAwaited' /\ RepliesTell'
  <2>1. NothingAsked'
    BY <1>1, OnlyAQueryAsks DEF NothingAsked, AsksReconcile
  <2> QED  BY <1>6, <2>1 DEF OneReplyAwaited, RepliesTell, NothingAsked
<1>9. SnapshotIsCurrent'
  BY <1>3 DEF SnapshotIsCurrent, controlVars
<1> QED  BY <1>3, <1>5, <1>7, <1>8, <1>9 DEF CoreInv

\* A reconcile command begins a query, or a recovery.
LEMMA QueryStartsKeeps ==
  ASSUME CoreInv, pc # "done", io.mode = "loop", commands # << >>,
         commands' = Tail(commands), QueryStarts(Head(commands)),
         UNCHANGED <<controlVars, connected, awaiting>>
  PROVE  CoreInv'
<1>1. /\ UNCHANGED <<answer, venue, link, drops, wire>>
      /\ \/ /\ link /\ io' = QueryIO(Head(commands), FALSE)
            /\ requests' = Append(requests, "reconcile")
         \/ /\ ~link /\ io' = RecoverIO(Head(commands), 0)
            /\ requests' = requests
  BY DEF QueryStarts, linkVars
<1>2. io'.job = Head(commands) /\ Success \in Answers /\ Success.ready
  BY <1>1, PromiseValues DEF QueryIO, RecoverIO, Idle
<1>3. /\ Head(commands) \in { LegSubmit, LegReconcile }
      /\ CommandsFollowControl' /\ ~Unsent' /\ answer' \in Answers
  BY <1>1, <1>2, JobTaken
<1>4. Head(commands) \in Command
  BY <1>3, LegCommands DEF Unsent
<1>5. SessionTyped'
  <2>1. io' \in IOStates
    <3>1. 0 \in 0 .. Attempts /\ FALSE \in BOOLEAN
      OBVIOUS
    <3>2. /\ QueryIO(Head(commands), FALSE) \in IOStates
          /\ RecoverIO(Head(commands), 0) \in IOStates
      BY <1>4, <3>1, QueryStates, RecoverStates
    <3> QED  BY <1>1, <3>2
  <2> QED  BY <1>1, <1>3, <2>1 DEF CoreInv, SessionTyped
<1>6. SnapshotIsCurrent'
  BY <1>1 DEF CoreInv, SnapshotIsCurrent, controlVars, NothingHeld, Held, Exposure
<1>7. NothingAsked
  BY OnlyAQueryAsks
<1>8. LinkTyped' /\ ThreadIsWhereItIs' /\ OneReplyAwaited' /\ RepliesTell'
  <2>1. CASE link /\ requests' = Append(requests, "reconcile")
    <3>1. /\ io' = QueryIO(Head(commands), FALSE)
          /\ requests \in Seq(RequestKinds) /\ requests' \in Seq(RequestKinds)
          /\ \A i \in DOMAIN requests' : requests'[i] = "reconcile" =>
               i = Len(requests) + 1
      BY <1>1, <1>7, <2>1 DEF CoreInv, LinkTyped, NothingAsked, RequestKinds
    <3>2. io'.mode = "query" /\ io'.stage = "reconcile" /\ io'.attempt = 0 /\ ~io'.view.ok
      BY <1>4, <3>1, QueryStates
    <3>3. LinkTyped' /\ ThreadIsWhereItIs'
      <4>1. LinkTyped'
        BY <1>1, <3>1 DEF CoreInv, LinkTyped
      <4>2. ThreadIsWhereItIs'
        BY <1>1, <2>1, <3>2 DEF ThreadIsWhereItIs
      <4> QED  BY <4>1, <4>2
    <3>4. OneReplyAwaited'
      BY <1>1, <1>7, <3>1, <3>2 DEF OneReplyAwaited, NothingAsked, AsksReconcile
    <3>5. RepliesTell'
      BY <1>1, <1>7, <3>2 DEF RepliesTell, NothingAsked, AsksReconcile
    <3> QED  BY <3>3, <3>4, <3>5
  <2>2. CASE ~link /\ requests' = requests
    <3>1. /\ io' = RecoverIO(Head(commands), 0) /\ NothingAsked'
      BY <1>1, <1>7, <2>2 DEF NothingAsked, AsksReconcile
    <3>2. /\ io'.mode = "recover" /\ io'.stage = "reconcile" /\ ~io'.view.ok
          /\ io'.recovering
      BY <1>4, <3>1, RecoverStates
    <3> QED  BY <1>1, <2>2, <3>1, <3>2, NothingAskedKeeps
             DEF CoreInv, LinkTyped, ThreadIsWhereItIs
  <2> QED  BY <1>1, <2>1, <2>2
<1> QED  BY <1>1, <1>3, <1>5, <1>6, <1>8, SessionFrame DEF SessionKeeps

\* Taking a command, whichever it is.
LEMMA TakeCommandKeeps ==
  ASSUME CoreInv, pc # "done", TakeCommand, UNCHANGED controlVars
  PROVE  CoreInv'
BY RefusedKeeps, SubmittedKeeps, QueryStartsKeeps DEF TakeCommand

\* Reading leaves the rest of the wire, one place earlier.
LEMMA ReadingShifts ==
  ASSUME CoreInv, wire # << >>, wire' = Tail(wire)
  PROVE  /\ Head(wire) \in Message /\ Head(wire) = wire[1] /\ 1 \in DOMAIN wire
         /\ link /\ wire' \in Seq(Message)
         /\ \A i \in DOMAIN wire' :
              /\ i \in Nat /\ i + 1 \in DOMAIN wire /\ i + 1 # 1
              /\ wire'[i] = wire[i + 1]
<1>1. wire \in Seq(Message)
  BY DEF CoreInv, LinkTyped
<1>2. link
  BY DEF CoreInv, LinkTyped, ThreadIsWhereItIs
<1> QED  BY <1>1, <1>2, TakingFrom

\* An order event, whatever the books make of it.
LEMMA ReceiveEventKeeps ==
  ASSUME CoreInv, pc # "done", ReceiveEvent, UNCHANGED controlVars
  PROVE  CoreInv'
<1>1. /\ io.mode \in { "read", "query" } /\ wire # << >> /\ wire' = Tail(wire)
      /\ Head(wire).kind # "reply"
      /\ io' = IF io.mode = "read" THEN Idle ELSE io
      /\ UNCHANGED <<venue, link, drops, requests, connected, commands, awaiting,
                     answer>>
  BY DEF ReceiveEvent, Reading, linkVars
<1>2. /\ link /\ wire' \in Seq(Message)
      /\ \A i \in DOMAIN wire' :
           /\ i \in Nat /\ i + 1 \in DOMAIN wire /\ wire'[i] = wire[i + 1]
  BY <1>1, ReadingShifts
<1>3. LinkTyped' /\ DeadLinkIsEmpty'
  BY <1>1, <1>2 DEF CoreInv, LinkTyped, DeadLinkIsEmpty
<1>4. CASE io.mode = "read"
  <2>1. NothingAsked' /\ io.job = None
    BY <1>1, <1>2, <1>4, OnlyAQueryAsks
    DEF NothingAsked, AsksReconcile, CoreInv, ThreadIsWhereItIs
  <2>2. 0 \in 0 .. Attempts
    OBVIOUS
  <2> QED  BY <1>1, <1>3, <1>4, <2>1, <2>2, MovesOnKeeps
<1>5. CASE io.mode = "query"
  <2>1. io' = io /\ io \in IOStates
    BY <1>1, <1>5 DEF CoreInv, SessionTyped
  <2>2. ThreadIsWhereItIs'
    BY <1>3, <2>1 DEF CoreInv, ThreadIsWhereItIs, DeadLinkIsEmpty
  <2>3. OneReplyAwaited'
    <3> HIDE DEF AsksReconcile
    <3> QED  BY <1>1, <1>2, <2>1 DEF CoreInv, OneReplyAwaited
  <2>4. RepliesTell'
    <3>1. \A p : StillTrue(p) => (StillTrue(p))'
      BY <1>1 DEF StillTrue, NothingHeld, Held, Exposure
    <3> QED  BY <1>2, <2>1, <3>1 DEF CoreInv, RepliesTell
  <2> QED  BY <1>1, <1>3, <2>1, <2>2, <2>3, <2>4, SameJobKeeps
<1> QED  BY <1>1, <1>4, <1>5

\* The first reply of a query: what it says of the account is still true.
LEMMA ReconcileReplyKeeps ==
  ASSUME CoreInv, pc # "done", Reading, Expected(Head(wire)), io.stage = "reconcile",
         wire' = Tail(wire),
         io' = [ io EXCEPT !.stage = "pnl", !.view = ViewOf(Head(wire)) ],
         requests' = Append(requests, "pnl"),
         UNCHANGED <<connected, commands, awaiting, answer, venue, linkVars,
                     controlVars>>
  PROVE  CoreInv'
<1> DEFINE m == Head(wire)
<1>1. /\ wire # << >> /\ io.mode = "query" /\ AsksReconcile(m)
      /\ UNCHANGED <<link, drops>>
  BY DEF Reading, Expected, AsksReconcile, linkVars
<1>2. /\ m \in Message /\ m = wire[1] /\ 1 \in DOMAIN wire /\ link
      /\ wire' \in Seq(Message)
      /\ \A i \in DOMAIN wire' :
           /\ i \in Nat /\ i + 1 \in DOMAIN wire /\ i + 1 # 1
           /\ wire'[i] = wire[i + 1]
  BY <1>1, ReadingShifts
<1> HIDE DEF m
<1>3. /\ requests \in Seq(RequestKinds) /\ requests' \in Seq(RequestKinds)
      /\ DOMAIN requests' = 1 .. Len(requests) + 1 /\ Len(requests) \in Nat
      /\ \A i \in 1 .. Len(requests) : i \in DOMAIN requests /\ requests'[i] = requests[i]
      /\ requests'[Len(requests) + 1] = "pnl"
  BY DEF CoreInv, LinkTyped, RequestKinds
<1>4. LinkTyped'
  BY <1>1, <1>2, <1>3 DEF CoreInv, LinkTyped
<1>5. NothingAsked'
  <2> HIDE DEF AsksReconcile
  <2>1. \A j \in DOMAIN requests : requests[j] # "reconcile"
    BY <1>1, <1>2 DEF CoreInv, OneReplyAwaited
  <2>2. \A i \in DOMAIN requests' : requests'[i] # "reconcile"
    BY <1>3, <2>1
  <2>3. \A j \in DOMAIN wire : AsksReconcile(wire[j]) => j = 1
    BY <1>1, <1>2 DEF CoreInv, OneReplyAwaited
  <2>4. \A i \in DOMAIN wire' : ~AsksReconcile(wire'[i])
    BY <1>2, <2>3
  <2> QED  BY <2>2, <2>4 DEF NothingAsked, AsksReconcile
<1>6. /\ m.position \in 0 .. Qty
      /\ m.entryHeld \in BOOLEAN /\ m.closeHeld \in BOOLEAN
  BY <1>1, <1>2 DEF Message, AsksReconcile
<1>7. ViewOf(m) \in Answers
  BY <1>6 DEF ViewOf, Answers
<1>8. /\ io' \in IOStates /\ io'.job = io.job /\ io'.view = ViewOf(m)
      /\ io'.mode = "query" /\ io'.attempt = io.attempt
  BY <1>1, <1>7 DEF CoreInv, SessionTyped, IOStates, m
<1>9. ThreadIsWhereItIs'
  BY <1>1, <1>2, <1>8 DEF CoreInv, ThreadIsWhereItIs
<1>10. OneReplyAwaited'
  BY <1>5 DEF NothingAsked, OneReplyAwaited
<1>11. RepliesTell'
  <2>1. io.job.kind = "reconcile" /\ ViewOf(m).ok /\ ~ViewOf(m).pending
          => StillTrue(ViewOf(m).position)
    BY <1>1, <1>2, <1>6 DEF CoreInv, RepliesTell, ViewOf
  <2>2. \A p : StillTrue(p) => (StillTrue(p))'
    BY DEF StillTrue, NothingHeld, Held, Exposure
  <2> QED  BY <1>5, <1>8, <2>1, <2>2 DEF NothingAsked, RepliesTell
<1> QED  BY <1>4, <1>8, <1>9, <1>10, <1>11, SameJobKeeps

\* The last reply of a query: the snapshot says what the first reply said.
LEMMA QueryCompletesKeeps ==
  ASSUME CoreInv, pc # "done", Reading, Expected(Head(wire)), io.stage # "reconcile",
         wire' = Tail(wire), NEW pnl, QueryCompletes(pnl), UNCHANGED controlVars
  PROVE  CoreInv'
<1>1. /\ wire # << >> /\ io.mode = "query"
      /\ UNCHANGED <<connected, commands, awaiting, venue, link, drops>>
  BY DEF Reading, Expected, QueryCompletes, linkVars
<1>2. /\ link /\ wire' \in Seq(Message)
      /\ \A i \in DOMAIN wire' :
           /\ i \in Nat /\ i + 1 \in DOMAIN wire /\ wire'[i] = wire[i + 1]
  BY <1>1, ReadingShifts
<1>3. NothingAsked /\ \A i \in DOMAIN wire' : ~AsksReconcile(wire'[i])
  BY <1>2, OnlyAQueryAsks DEF NothingAsked, AsksReconcile
<1>4. io.view \in Answers /\ io.job \in Command /\ io.attempt + 1 \in 0 .. Attempts
  BY <1>1 DEF CoreInv, SessionTyped, IOStates, ThreadIsWhereItIs
<1>5. CASE UNCHANGED requests
  <2>1. LinkTyped' /\ DeadLinkIsEmpty'
    BY <1>1, <1>2, <1>5 DEF CoreInv, LinkTyped, DeadLinkIsEmpty
  <2>2. NothingAsked'
    BY <1>3, <1>5 DEF NothingAsked, AsksReconcile
  <2>3. CASE FinishJob(Failure)
    BY <1>1, <2>1, <2>2, <2>3, PromiseValues, JobDoneKeeps
  <2>4. CASE io' = RecoverIO(io.job, io.attempt + 1) /\ UNCHANGED answer
    BY <1>1, <1>4, <2>1, <2>2, <2>4, MovesOnKeeps
  <2>5. CASE /\ io.view.ok
             /\ FinishJob(Snapshot(io.view.position, io.view.pending))
    <3> DEFINE value == Snapshot(io.view.position, io.view.pending)
    <3>1. /\ value \in Answers /\ value.ready
          /\ value.position = io.view.position /\ value.pending = io.view.pending
      BY <1>4, SnapshotValues DEF Answers
    <3>2. ~value.pending /\ io.job.kind = "reconcile" => StillTrue(value.position)
      BY <2>5, <3>1 DEF CoreInv, RepliesTell
    <3> HIDE DEF value
    <3>3. FinishJob(value)
      BY <2>5 DEF value
    <3> QED  BY <1>1, <2>1, <2>2, <3>1, <3>2, <3>3, JobDoneKeeps
  <2>6. \/ FinishJob(Failure)
        \/ io' = RecoverIO(io.job, io.attempt + 1) /\ UNCHANGED answer
        \/ io.view.ok /\ FinishJob(Snapshot(io.view.position, io.view.pending))
        \/ requests' = Append(requests, "reconcile")
    BY DEF QueryCompletes
  <2>7. requests' # Append(requests, "reconcile")
    BY <1>5 DEF CoreInv, LinkTyped
  <2> QED  BY <2>3, <2>4, <2>5, <2>6, <2>7
<1>6. CASE /\ io' = QueryIO(io.job, TRUE) /\ UNCHANGED answer
           /\ requests' = Append(requests, "reconcile")
  <2>1. /\ requests \in Seq(RequestKinds) /\ requests' \in Seq(RequestKinds)
        /\ \A i \in DOMAIN requests' : requests'[i] = "reconcile" =>
             i = Len(requests) + 1
    BY <1>3, <1>6 DEF CoreInv, LinkTyped, NothingAsked, RequestKinds
  <2>2. LinkTyped'
    BY <1>1, <1>2, <2>1 DEF CoreInv, LinkTyped
  <2>3. /\ io' \in IOStates /\ io'.job = io.job /\ ~io'.view.ok
        /\ io'.mode = "query" /\ io'.stage = "reconcile" /\ io'.attempt = 0
    BY <1>4, <1>6, QueryStates
  <2>4. ThreadIsWhereItIs'
    BY <1>1, <1>2, <2>3 DEF ThreadIsWhereItIs
  <2>5. OneReplyAwaited' /\ RepliesTell'
    BY <1>3, <2>1, <2>3 DEF OneReplyAwaited, RepliesTell
  <2> QED  BY <1>1, <1>6, <2>2, <2>3, <2>4, <2>5, SameJobKeeps
<1> QED  BY <1>5, <1>6 DEF QueryCompletes

\* A message nobody handles, or a quote that is refused.
LEMMA ReadFailsKeeps ==
  ASSUME CoreInv, pc # "done", io.mode \in { "read", "query" }, link,
         NEW unread \in Seq(Message), ReadFails(unread), UNCHANGED controlVars
  PROVE  CoreInv'
<1>1. CASE io.mode = "read"
  BY <1>1, SessionEndsKeeps DEF ReadFails
<1>2. CASE io.mode = "query"
  <2>1. QueryForgets(unread) /\ QueryFails(FALSE)
    BY <1>2 DEF ReadFails
  <2>2. LinkTyped' /\ DeadLinkIsEmpty' /\ NothingAsked' /\ venue' = venue
    BY <2>1, ForgettingAsksNothing DEF QueryForgets
  <2> QED  BY <1>2, <2>1, <2>2, QueryFailsKeeps
<1> QED  BY <1>1, <1>2

\* A connection that is tried again.
LEMMA ReconnectingKeeps ==
  ASSUME CoreInv, pc # "done", Reconnect \/ ReconnectFails, UNCHANGED controlVars
  PROVE  CoreInv'
<1>1. /\ io.mode = "recover" /\ io.attempt < Attempts
      /\ UNCHANGED <<venue, drops, connected, commands, awaiting, answer>>
      /\ drops \in 0 .. MaxDrops
      /\ io \in IOStates /\ io.job \in Command /\ io.attempt \in 0 .. Attempts
      /\ io.stage = "reconcile"
  BY DEF Reconnect, ReconnectFails, AttemptsLeft, CoreInv, LinkTyped, SessionTyped,
         IOStates, ThreadIsWhereItIs
<1>2. CASE Reconnect
  <2>1. /\ link' = TRUE /\ wire' = << >> /\ requests' = << "reconcile" >>
        /\ io' = [ io EXCEPT !.mode = "query" ]
    BY <1>2 DEF Reconnect
  <2>2. LinkTyped'
    <3>1. wire' \in Seq(Message) /\ requests' \in Seq(RequestKinds) /\ link' \in BOOLEAN
      BY <2>1 DEF RequestKinds
    <3> QED  BY <1>1, <3>1 DEF LinkTyped
  <2>3. /\ io' \in IOStates /\ io'.job = io.job /\ io'.view = io.view
        /\ io'.mode = "query" /\ io'.stage = "reconcile" /\ io'.attempt < Attempts
    BY <1>1, <2>1 DEF IOStates
  <2>4. ThreadIsWhereItIs'
    BY <2>1, <2>3 DEF ThreadIsWhereItIs
  <2>5. OneReplyAwaited'
    BY <2>1, <2>3 DEF OneReplyAwaited
  <2>6. RepliesTell'
    BY <1>1, <2>1, <2>3
    DEF CoreInv, RepliesTell, StillTrue, NothingHeld, Held, Exposure
  <2> QED  BY <1>1, <2>2, <2>3, <2>4, <2>5, <2>6, SameJobKeeps
<1>3. CASE ReconnectFails
  <2>1. /\ link' = FALSE /\ wire' = << >> /\ requests' = << >>
        /\ io' = RecoverIO(io.job, io.attempt + 1)
    BY <1>3 DEF ReconnectFails
  <2>2. LinkTyped' /\ DeadLinkIsEmpty' /\ NothingAsked'
    <3>1. wire' \in Seq(Message) /\ requests' \in Seq(RequestKinds)
      BY <2>1
    <3>2. link' \in BOOLEAN
      BY <2>1
    <3>3. NothingAsked' /\ DeadLinkIsEmpty'
      BY <2>1 DEF NothingAsked, DeadLinkIsEmpty
    <3> QED  BY <1>1, <3>1, <3>2, <3>3 DEF LinkTyped
  <2>3. io.attempt + 1 \in 0 .. Attempts
    BY <1>1
  <2> QED  BY <1>1, <2>1, <2>2, <2>3, MovesOnKeeps
<1> QED  BY <1>2, <1>3

\* Every step of the session keeps the invariant.
LEMMA SessionStepKeeps ==
  ASSUME CoreInv, pc # "done", SessionStep, UNCHANGED controlVars
  PROVE  CoreInv'
<1>0. 0 \in 0 .. Attempts
  OBVIOUS
<1>1. CASE TakeCommand
  BY <1>1, TakeCommandKeeps
<1>2. CASE LoopReads \/ ReadTimesOut \/ ReadFindsLinkDown
  <2>1. /\ UNCHANGED <<venue, link, drops, wire, requests, connected, commands,
                       awaiting, answer>>
        /\ io.job = None /\ io.mode # "query"
        /\ \/ io' \in { Idle, [ Idle EXCEPT !.mode = "read" ] }
           \/ io' = RecoverIO(io.job, 0)
    BY <1>2 DEF LoopReads, ReadTimesOut, ReadFindsLinkDown, venueVars, linkVars,
                CoreInv, ThreadIsWhereItIs
  <2>2. LinkTyped' /\ DeadLinkIsEmpty'
    BY <2>1 DEF CoreInv, LinkTyped, DeadLinkIsEmpty, ThreadIsWhereItIs
  <2>3. NothingAsked'
    BY <2>1, OnlyAQueryAsks DEF NothingAsked, AsksReconcile
  <2> QED  BY <1>0, <2>1, <2>2, <2>3, MovesOnKeeps
<1>3. CASE ReceiveEvent
  BY <1>3, ReceiveEventKeeps
<1>4. CASE ReceiveReply
  BY <1>4, ReconcileReplyKeeps, QueryCompletesKeeps DEF ReceiveReply
<1>5. CASE ReceiveUnexpected
  <2>1. /\ io.mode \in { "read", "query" } /\ wire # << >> /\ ReadFails(Tail(wire))
        /\ link /\ Tail(wire) \in Seq(Message)
    BY <1>5, TakingFrom
    DEF ReceiveUnexpected, Reading, CoreInv, LinkTyped, ThreadIsWhereItIs
  <2> QED  BY <2>1, ReadFailsKeeps
<1>6. CASE SpotRefused
  BY <1>6, ReadFailsKeeps DEF SpotRefused, CoreInv, LinkTyped
<1>7. CASE QueryTimesOut
  <2>1. LinkTyped' /\ DeadLinkIsEmpty' /\ NothingAsked' /\ venue' = venue
    BY <1>7, ForgettingAsksNothing DEF QueryTimesOut, QueryForgets, CoreInv, LinkTyped
  <2> QED  BY <1>7, <2>1, QueryFailsKeeps DEF QueryTimesOut
<1>8. CASE QueryFindsLinkDown
  <2>1. /\ ~link /\ UNCHANGED <<venue, link, drops, wire, requests>>
        /\ wire = << >> /\ requests = << >>
    BY <1>8 DEF QueryFindsLinkDown, venueVars, linkVars, CoreInv, ThreadIsWhereItIs
  <2>2. LinkTyped' /\ DeadLinkIsEmpty' /\ NothingAsked'
    BY <2>1 DEF CoreInv, LinkTyped, DeadLinkIsEmpty, NothingAsked
  <2> QED  BY <1>8, <2>1, <2>2, QueryFailsKeeps DEF QueryFindsLinkDown
<1>9. CASE Reconnect \/ ReconnectFails
  BY <1>9, ReconnectingKeeps
<1>10. CASE RecoveryFails
  <2>1. CASE SessionEnds
    BY <2>1, SessionEndsKeeps
  <2>2. CASE ~SessionEnds
    <3>1. /\ FinishJob(Failure) /\ io.mode # "query"
          /\ UNCHANGED <<venue, link, drops, wire, requests, connected, commands,
                         awaiting>>
      BY <1>10, <2>2 DEF RecoveryFails, venueVars, linkVars
    <3>2. LinkTyped' /\ DeadLinkIsEmpty'
      BY <3>1 DEF CoreInv, LinkTyped, DeadLinkIsEmpty, ThreadIsWhereItIs
    <3>3. NothingAsked'
      BY <3>1, OnlyAQueryAsks DEF NothingAsked, AsksReconcile
    <3> QED  BY <3>1, <3>2, <3>3, PromiseValues, JobDoneKeeps
  <2> QED  BY <2>1, <2>2
<1> QED  BY <1>1, <1>2, <1>3, <1>4, <1>5, <1>6, <1>7, <1>8, <1>9, <1>10
         DEF SessionStep

\* A step of any of the three keeps the invariant.
LEMMA CoreNext == CoreInv /\ [Next]_vars => CoreInv'
<1> SUFFICES ASSUME CoreInv, [Next]_vars PROVE CoreInv'
  OBVIOUS
<1>1. outcome = "none" => pc # "done"
  BY DEF CoreInv, ControlTyped
<1>2. CASE ControllerStep
  BY <1>2, ControllerKeeps
<1>3. CASE outcome = "none" /\ SessionStep /\ UNCHANGED controlVars
  BY <1>1, <1>3, SessionStepKeeps
<1>4. CASE outcome = "none" /\ VenueStep /\ UNCHANGED <<bookVars, sessionVars, controlVars>>
  BY <1>4, VenueKeeps
<1>5. CASE UNCHANGED vars
  <2>1. UNCHANGED <<venueVars, io>> /\ UNCHANGED <<sessionVars, controlVars>>
    BY <1>5 DEF vars, sessionVars
  <2>2. ControlKeeps'
    BY <2>1
    DEF ControlKeeps, CoreInv, SessionTyped, ControlTyped, CommandsFollowControl,
        LegsInTurn, UnsentIsSized, SnapshotIsCurrent, ProofIsEarned, sessionVars,
        controlVars, venueVars, Quiet, Sending, Asking, LegSubmit, LegReconcile,
        Held, NothingHeld, Exposure, Unsent, StillTrue
  <2> QED  BY <2>1, <2>2, ControlFrame
<1> QED  BY <1>2, <1>3, <1>4, <1>5 DEF Next

\* The inductive invariant holds in every state of every run.
THEOREM CoreHolds == Spec => []CoreInv
BY CoreInit, CoreNext, PTL DEF Spec

--------------------------------------------------------------------------------
(***************************************************************************)
(* What the account sees of a step.                                        *)
(***************************************************************************)

\* A complete snapshot without orders is still true when it is used.
THEOREM SnapshotStaysTrue == Spec => []SnapshotIsCurrent
<1>1. CoreInv => SnapshotIsCurrent
  BY DEF CoreInv
<1> QED  BY <1>1, CoreHolds, PTL

\* The controller only reports, and success only after both proofs.
LEMMA ControllerReports ==
  ASSUME CoreInv, ControllerStep
  PROVE  /\ venue' = venue
         /\ \/ outcome' = outcome
            \/ /\ outcome = "none" /\ outcome' \in Outcomes \ { "none" }
               /\ outcome' = "Succeeded" =>
                    NothingHeld /\ Exposure = 0 /\ venue["Entry"].filled = Qty
<1>1. venue' = venue
  BY DEF ControllerStep, Decline, Commission, DispatchRefused, DispatchCreates,
     AdapterSubmits, SubmitAnswered, SubmitTimesOut, MarkDispatchFailed,
     ForgetContext, JudgeDispatch, WaitEnds, NotReconciled, EntryIsOpen,
     EntryIsNotOpen, CloseIsFlat, FlatAfter, CloseLeavesResidue, ResidualIsFlat,
     NotFlat, Conclude, venueVars
<1>2. pc # "done" => outcome = "none"
  BY DEF CoreInv, ControlTyped
<1>3. CASE Conclude
  BY <1>1, <1>2, <1>3
  DEF Conclude, End, Proven, Outcomes, CoreInv, ProofIsEarned, StillTrue
<1>4. CASE ~Conclude
  BY <1>1, <1>2, <1>4
  DEF ControllerStep, Decline, Commission, DispatchRefused, DispatchCreates,
      AdapterSubmits, SubmitAnswered, SubmitTimesOut, MarkDispatchFailed,
      ForgetContext, JudgeDispatch, WaitEnds, NotReconciled, EntryIsOpen,
      EntryIsNotOpen, CloseIsFlat, FlatAfter, CloseLeavesResidue, ResidualIsFlat,
      NotFlat, GoTo, End, NextLeg, RefusedOutcome, Outcomes, Reconciled, Residue
<1> QED  BY <1>3, <1>4

\* A submission that is taken is the one of this leg.
LEMMA SubmissionIsOfLeg ==
  ASSUME CoreInv, pc # "done", commands # << >>, Head(commands).kind = "submit"
  PROVE  Head(commands) = LegSubmit /\ Unsent
<1>1. LegReconcile.kind # "submit"
  BY DEF LegReconcile, Reconcile
<1>2. /\ Head(<< LegSubmit >>) = LegSubmit /\ Head(<< LegReconcile >>) = LegReconcile
      /\ Head(<< LegSubmit, LegReconcile >>) = LegSubmit
  BY ShortQueues
<1>3. \/ commands = << LegSubmit >> \/ commands = << LegReconcile >>
      \/ commands = << LegSubmit, LegReconcile >>
  BY DEF CoreInv, ControlTyped, Places, CommandsFollowControl, Quiet, Sending, Asking
<1> QED  BY <1>1, <1>2, <1>3 DEF Unsent

\* The session only places the leg that was sized, and nothing else.
LEMMA SessionPlaces ==
  ASSUME CoreInv, pc # "done", SessionStep
  PROVE  venue' = venue \/ (Unsent /\ venue' = Placed(LegSubmit))
<1>1. CASE TakeCommand
  BY <1>1, SubmissionIsOfLeg
  DEF TakeCommand, SubmitRefused, SubmitSent, SubmitAmbiguous, QueryStarts, venueVars
<1>2. CASE ~TakeCommand
  BY <1>2
  DEF SessionStep, LoopReads, ReadTimesOut, ReadFindsLinkDown, ReceiveEvent,
      ReceiveReply, QueryCompletes, ReceiveUnexpected, SpotRefused, ReadFails,
      SessionEnds, QueryForgets, QueryTimesOut, QueryFindsLinkDown, Reconnect,
      ReconnectFails, RecoveryFails, venueVars
<1> QED  BY <1>1, <1>2

--------------------------------------------------------------------------------
(***************************************************************************)
(* The run implements the promise.                                         *)
(***************************************************************************)
Asked == [ l \in Legs |-> venue[l].asked ]
Filled == [ l \in Legs |-> venue[l].filled ]
Live == { l \in Legs : Held(l) }

\* Nothing is asked, filled or live in the beginning.
LEMMA InitPromises == Init => Promise!Init
BY DEF Init, VenueInit, Promise!Init, Promise!Legs, Legs, Held

\* The exposure of the promise is the exposure of the venue.
LEMMA SameExposure ==
  Promise!Exposure = Exposure
BY DEF Promise!Exposure, Exposure, Legs

\* A leg is placed once, alone, and no larger than the position.
LEMMA PlacingPromises ==
  ASSUME CoreInv, Unsent, venue' = Placed(LegSubmit), outcome = "none", outcome' = outcome
  PROVE  Promise!Next
<1>1. /\ venue \in [ Legs -> VenueOrder ] /\ leg \in Legs /\ lot[leg] \in 1 .. Qty
      /\ NothingHeld /\ venue[leg].asked = 0
      /\ lot[leg] = IF leg = "Entry" THEN Qty ELSE Exposure
      /\ leg # "Residual" => venue["Residual"].asked = 0
  BY DEF CoreInv, VenueTyped, ControlTyped, UnsentIsSized, LegsInTurn
<1>2. venue' = [ venue EXCEPT ![leg] = [ venue[leg] EXCEPT !.state = "new",
                                                          !.asked = lot[leg] ] ]
  BY <1>1 DEF Placed, LegSubmit, Submit
<1>3. \A l \in Legs :
        /\ venue'[l].asked = IF l = leg THEN lot[leg] ELSE venue[l].asked
        /\ venue'[l].filled = venue[l].filled
        /\ Held(l)' <=> l = leg
  BY <1>1, <1>2 DEF VenueOrder, NothingHeld, Held
<1>4. /\ Asked' = [ Asked EXCEPT ![leg] = lot[leg] ] /\ Filled' = Filled
      /\ Live = {} /\ Live' = { leg } /\ Asked[leg] = 0
  BY <1>1, <1>3 DEF Asked, Filled, Live, NothingHeld
<1>5. PICK q \in 1 .. Qty : q = lot[leg]
  BY <1>1
<1>6. ASSUME NEW l \in Legs, l = leg PROVE Promise!Place(l, q)
  BY <1>4, <1>5, <1>6 DEF Promise!Place, Asked, Filled, Live
<1>7. CASE leg = "Entry"
  <2>1. Promise!Place("Entry", q) /\ q = Qty
    BY <1>1, <1>5, <1>6, <1>7
  <2> QED  BY <2>1 DEF Promise!Next, Promise!PlaceEntry, Promise!Place
<1>8. CASE leg = "Close"
  <2>1. Promise!Place("Close", q)
    BY <1>6, <1>8 DEF Legs
  <2>2. q <= Promise!Exposure /\ Asked["Residual"] = 0
    BY <1>1, <1>5, <1>8, SameExposure DEF Asked, Legs
  <2> QED  BY <2>1, <2>2 DEF Promise!Next, Promise!PlaceClose, Asked
<1>9. CASE leg = "Residual"
  <2>1. Promise!Place("Residual", q)
    BY <1>6, <1>9 DEF Legs
  <2>2. q <= Promise!Exposure
    BY <1>1, <1>5, <1>9, SameExposure
  <2> QED  BY <2>1, <2>2 DEF Promise!Next, Promise!PlaceResidual
<1> QED  BY <1>1, <1>7, <1>8, <1>9 DEF Legs

\* The account does not see the step.
LEMMA UnseenPromises ==
  ASSUME venue' = venue, outcome' = outcome PROVE UNCHANGED Promise!vars
BY DEF Promise!vars, Held

\* A report is a report; a success is earned.
LEMMA ReportPromises ==
  ASSUME CoreInv, ControllerStep PROVE [Promise!Next]_(Promise!vars)
<1>1. venue' = venue
  BY ControllerReports
<1>2. CASE outcome' = outcome
  BY <1>1, <1>2, UnseenPromises
<1>3. CASE /\ outcome = "none" /\ outcome' \in Outcomes \ { "none" }
           /\ outcome' = "Succeeded" =>
                NothingHeld /\ Exposure = 0 /\ venue["Entry"].filled = Qty
  <2>1. Asked' = Asked /\ Filled' = Filled /\ Live' = Live
    BY <1>1 DEF Asked, Filled, Live, Held
  <2>2. outcome' = "Succeeded" => Promise!Earned
    BY <1>3, SameExposure DEF Promise!Earned, NothingHeld, Legs
  <2>3. Promise!Report(outcome')
    BY <1>3, <2>1, <2>2 DEF Promise!Report, Asked, Filled, Live
  <2> QED  BY <1>3, <2>3 DEF Promise!Next, Promise!Outcomes, Outcomes
<1> QED  BY <1>2, <1>3, ControllerReports

\* A leg the venue gives up, or loses with the connection.
LEMMA GivingUpPromises ==
  ASSUME NEW l \in Legs, Held(l), outcome' = outcome,
         \A k \in Legs : /\ venue'[k].asked = venue[k].asked
                         /\ venue'[k].filled = venue[k].filled
                         /\ Held(k)' <=> Held(k) /\ k # l
  PROVE  Promise!Next
<1>1. Asked' = Asked /\ Filled' = Filled /\ Live' = Live \ { l } /\ l \in Live
  BY DEF Asked, Filled, Live
<1>2. Promise!GiveUp(l)
  BY <1>1 DEF Promise!GiveUp, Asked, Filled, Live
<1> QED  BY <1>2 DEF Promise!Next, Promise!Legs, Legs

\* A fill takes from what its leg has left.
LEMMA FillPromises ==
  ASSUME CoreInv, NEW l \in Legs, NEW n \in 1 .. Qty, VenueFill(l, n),
         outcome' = outcome
  PROVE  Promise!Next
<1> DEFINE cumulative == venue[l].filled + n
           rest == venue[l].asked - venue[l].filled
<1>1. /\ venue \in [ Legs -> VenueOrder ] /\ Held(l) /\ cumulative <= venue[l].asked
      /\ venue' = [ venue EXCEPT ![l].filled = cumulative,
                                 ![l].state = IF cumulative = venue[l].asked
                                              THEN "closed" ELSE "working" ]
  BY DEF VenueFill, CoreInv, VenueTyped
<1>2. /\ venue[l].asked \in Nat /\ venue[l].filled \in Nat
      /\ n <= rest /\ (cumulative = venue[l].asked <=> n = rest)
  BY <1>1 DEF VenueOrder
<1> HIDE DEF cumulative, rest
<1>3. \A k \in Legs :
        /\ venue'[k].asked = venue[k].asked
        /\ venue'[k].filled = IF k = l THEN cumulative ELSE venue[k].filled
        /\ Held(k)' <=> Held(k) /\ (k = l => n # rest)
  BY <1>1, <1>2 DEF VenueOrder, Held
<1>4. /\ Asked' = Asked /\ Filled' = [ Filled EXCEPT ![l] = cumulative ]
      /\ Live' = IF n = rest THEN Live \ { l } ELSE Live
      /\ l \in Live /\ Filled[l] + n = cumulative /\ rest = Asked[l] - Filled[l]
  BY <1>1, <1>3 DEF Asked, Filled, Live, cumulative, rest
<1>5. Promise!Rest(l) = rest
  BY <1>1, <1>4 DEF Promise!Rest, Live, rest
<1>6. Promise!Fill(l, n)
  BY <1>2, <1>4, <1>5 DEF Promise!Fill, Asked, Filled, Live
<1> QED  BY <1>6 DEF Promise!Next, Promise!Legs, Legs

\* What the venue does is a fill, an order that is given up, or not seen.
LEMMA VenuePromises ==
  ASSUME CoreInv, VenueStep, outcome' = outcome
  PROVE  [Promise!Next]_(Promise!vars)
<1>0. venue \in [ Legs -> VenueOrder ]
  BY DEF CoreInv, VenueTyped
<1>1. ASSUME NEW l \in Legs, VenueAccept(l) PROVE UNCHANGED Promise!vars
  <2>1. venue' = [ venue EXCEPT ![l].state = "working" ] /\ Held(l)
    BY <1>1 DEF VenueAccept, New, Held
  <2>2. \A k \in Legs : /\ venue'[k].asked = venue[k].asked
                        /\ venue'[k].filled = venue[k].filled
                        /\ Held(k)' <=> Held(k)
    BY <1>0, <2>1 DEF VenueOrder, Held
  <2>3. Asked' = Asked /\ Filled' = Filled /\ Live' = Live
    BY <2>2 DEF Asked, Filled, Live
  <2> QED  BY <2>3 DEF Promise!vars, Asked, Filled, Live
<1>2. ASSUME NEW l \in Legs, VenueReject(l) \/ VenueDropsRest(l) PROVE Promise!Next
  <2>1. venue' = [ venue EXCEPT ![l].state = "closed" ] /\ Held(l)
    BY <1>2 DEF VenueReject, VenueDropsRest, New, Held
  <2>2. \A k \in Legs : /\ venue'[k].asked = venue[k].asked
                        /\ venue'[k].filled = venue[k].filled
                        /\ Held(k)' <=> Held(k) /\ k # l
    BY <1>0, <2>1 DEF VenueOrder, Held
  <2> QED  BY <2>1, <2>2, GivingUpPromises
<1>3. ASSUME NEW l \in Legs, NEW n \in 1 .. Qty, VenueFill(l, n) PROVE Promise!Next
  BY <1>3, FillPromises
<1>4. ASSUME VenueReplies \/ ReplyOvertakes PROVE UNCHANGED Promise!vars
  BY <1>4, UnseenPromises DEF VenueReplies, ReplyOvertakes
<1>5. ASSUME LinkDrops PROVE [Promise!Next]_(Promise!vars)
  <2>1. PICK lost \in SUBSET { l \in Legs : New(l) } :
          venue' = [ l \in Legs |-> IF l \in lost
                                    THEN [ venue[l] EXCEPT !.state = "closed" ]
                                    ELSE venue[l] ]
    BY <1>5 DEF LinkDrops
  <2>2. \A k \in Legs : /\ venue'[k].asked = venue[k].asked
                        /\ venue'[k].filled = venue[k].filled
                        /\ Held(k)' <=> Held(k) /\ k \notin lost
    BY <1>0, <2>1 DEF VenueOrder, Held, New
  <2>3. \A k \in lost : k = leg /\ Held(k) /\ k \in Legs
    BY <2>1 DEF CoreInv, LegsInTurn, New, Held
  <2>4. CASE lost = {}
    <3>1. Asked' = Asked /\ Filled' = Filled /\ Live' = Live
      BY <2>2, <2>4 DEF Asked, Filled, Live
    <3> QED  BY <3>1 DEF Promise!vars, Asked, Filled, Live
  <2>5. CASE lost # {}
    <3>1. leg \in Legs /\ Held(leg) /\ \A k \in Legs : k \in lost <=> k = leg
      BY <2>3, <2>5
    <3>2. \A k \in Legs : /\ venue'[k].asked = venue[k].asked
                          /\ venue'[k].filled = venue[k].filled
                          /\ Held(k)' <=> Held(k) /\ k # leg
      BY <2>2, <3>1
    <3> QED  BY <3>1, <3>2, GivingUpPromises
  <2> QED  BY <2>4, <2>5
<1> QED  BY <1>1, <1>2, <1>3, <1>4, <1>5 DEF VenueStep

\* Every step of the run is a step of the promise, or is not seen.
LEMMA StepPromises ==
  CoreInv /\ [Next]_vars => [Promise!Next]_(Promise!vars)
<1> SUFFICES ASSUME CoreInv, [Next]_vars PROVE [Promise!Next]_(Promise!vars)
  OBVIOUS
<1>1. CASE ControllerStep
  BY <1>1, ReportPromises
<1>2. CASE outcome = "none" /\ SessionStep /\ UNCHANGED controlVars
  <2>1. pc # "done" /\ outcome' = outcome
    BY <1>2 DEF CoreInv, ControlTyped, controlVars
  <2> QED  BY <1>2, <2>1, SessionPlaces, UnseenPromises, PlacingPromises
<1>3. CASE outcome = "none" /\ VenueStep /\ UNCHANGED <<bookVars, sessionVars, controlVars>>
  BY <1>3, VenuePromises DEF controlVars
<1>4. CASE UNCHANGED vars
  BY <1>4, UnseenPromises DEF vars, venueVars, controlVars
<1> QED  BY <1>1, <1>2, <1>3, <1>4 DEF Next

(***************************************************************************)
(* The run implements the one-shot promise: KeepsPromise, for every        *)
(* minimum volume, number of attempts and number of dropped connections.   *)
(***************************************************************************)
THEOREM RunKeepsPromise == Spec => KeepsPromise
BY InitPromises, StepPromises, CoreHolds, PTL DEF Spec, KeepsPromise, Promise!Spec

--------------------------------------------------------------------------------
(***************************************************************************)
(* The books.  BooksInv adds to CoreInv what the gateway's records, the    *)
(* execution engine and the mirror know of the venue: fills that are under *)
(* way claim no more than the venue has filled, a record no more than the  *)
(* fills it was told of, and the mirror no more than the entry.            *)
(***************************************************************************)
Records ==
  [ state : LifecycleStates, preCancel : LifecycleStates,
    reconciled : ResolvedStates \cup { Unresolved }, requested : 0 .. Qty,
    filled : 0 .. Qty, remaining : 0 .. Qty, lastTs : Nat, lastSeq : Nat ]

Sessions ==
  [ known : SUBSET Legs, accepted : SUBSET Legs, adopted : BOOLEAN,
    mapped : BOOLEAN, closing : Legs, cumulative : Volumes, sequence : Nat ]

Engines == [ active : SUBSET Legs, pending : Volumes ]

Evidences ==
  [ tracked : BOOLEAN, acceptance : BOOLEAN, filled : BOOLEAN,
    rejected : BOOLEAN, duplicate : BOOLEAN, failure : BOOLEAN ]

Mirrors ==
  [ provisional : 0 .. Qty, logical : 0 .. Qty, pending : BOOLEAN,
    keys : SUBSET (Legs \X (1 .. Qty)), cumulative : Volumes,
    sequence : [ Legs -> Nat ] ]

SessionSound ==
  /\ session \in Sessions /\ session.accepted \subseteq session.known
  /\ session.sequence >= FirstProviderSequence
  /\ session.adopted => session.mapped

RecordsTyped ==
  /\ DOMAIN records \subseteq Legs /\ records \in [ DOMAIN records -> Records ]
  /\ fillKeys \subseteq Legs \X (1 .. Qty)

EngineTyped == engine \in Engines /\ evidence \in [ Legs -> Evidences ]

\* What was sized is what was placed, and the close is as large as the entry.
LotsFit ==
  /\ \A l \in Legs : venue[l].asked <= lot[l]
  /\ leg = "Close" => lot["Close"] = venue["Entry"].filled

\* Each leg has its record when it is dispatched, and keeps it.
RecordsFollowLegs ==
  /\ leg = "Entry" => DOMAIN records \subseteq { "Entry" }
  /\ leg = "Close" => DOMAIN records \subseteq { "Entry", "Close" }
  /\ leg # "Entry" => "Entry" \in DOMAIN records
  /\ leg = "Residual" => "Close" \in DOMAIN records
  /\ pc \in { "idle", "start" } => leg \notin DOMAIN records
  /\ pc \notin { "idle", "start", "done" } => leg \in DOMAIN records

(***************************************************************************)
(* What a record says of its leg.  Only events of the venue carry          *)
(* sequence numbers above the gateway's own, so a dispatch that failed     *)
(* marks no record that heard of a fill; and only the close is reconciled. *)
(***************************************************************************)
GatewaySequence == 4

ReachedStates ==
  { "Submitted", "Unknown", "Accepted", "PartiallyFilled", "Filled", "Rejected",
    "Reconciled" }

RecordSound(l, r) ==
  /\ r.requested = lot[l] /\ r.filled + r.remaining = r.requested
  /\ r.filled <= venue[l].filled
  /\ r.state \in ReachedStates /\ r.lastSeq > 0
  /\ r.state = "Filled" <=> r.remaining = 0
  /\ r.state \notin { "Submitted", "Unknown", "Reconciled" } =>
       r.lastSeq > GatewaySequence
  /\ r.state = "Reconciled" =>
       l = "Close" /\ leg = "Residual" /\ r.filled = venue["Close"].filled

RecordsSound == \A l \in DOMAIN records : RecordSound(l, records[l])

(***************************************************************************)
(* A pending quantity comes from a fill, which the record knows.  It is    *)
(* stale only when the context is gone.                                    *)
(***************************************************************************)
PendingFits(l) ==
  engine.pending[l] > 0 =>
    /\ l \in DOMAIN records /\ records[l].state \in { "PartiallyFilled", "Filled" }
    /\ \/ pc = "done" \/ (pc = "judge" /\ l = leg)
       \/ engine.pending[l] = records[l].remaining /\ l \in engine.active

PendingFollowsRecords == \A l \in Legs : PendingFits(l)

FillsTold ==
  \A i \in DOMAIN wire :
    wire[i].kind = "fill" => wire[i].cumulative <= venue[wire[i].leg].filled

(***************************************************************************)
(* On a connection that keeps the order, a reply without orders is behind  *)
(* every fill.  So when the controller uses a snapshot no fill is under    *)
(* way, and afterwards none of the entry.                                  *)
(***************************************************************************)
NoFillAfter(i) == \A j \in DOMAIN wire : j > i => wire[j].kind # "fill"

Believed(m) == AsksReconcile(m) /\ ~m.entryHeld /\ ~m.closeHeld

Clear(a) == a.ok /\ ~a.pending

RepliesComeLast ==
  ~EventsMayLag /\ io.job.kind = "reconcile" =>
    /\ \A i \in DOMAIN wire : Believed(wire[i]) => NoFillAfter(i)
    /\ Clear(io.view) => NoFillAfter(0)

AnswerComesLast ==
  ~EventsMayLag /\ pc = "asked" /\ Clear(answer) => NoFillAfter(0)

EntryIsTold ==
  ~EventsMayLag /\ leg # "Entry" =>
    \A i \in DOMAIN wire : wire[i].kind = "fill" => wire[i].leg # "Entry"

SnapshotComesLast == RepliesComeLast /\ AnswerComesLast /\ EntryIsTold

\* The mirror follows the fills; what the entry filled moves when adopted.
MirrorFollows ==
  /\ mirror \in Mirrors /\ mirror.keys \subseteq fillKeys
  /\ mirror.cumulative["Entry"] <= venue["Entry"].filled
  /\ mirror.provisional <= mirror.cumulative["Entry"]
  /\ mirror.logical <= venue["Entry"].filled
  /\ leg = "Entry" => mirror.logical = 0
  /\ ~session.mapped \/ session.adopted => mirror.provisional = 0
  /\ ~EventsMayLag /\ leg # "Entry" => mirror.provisional = 0

BooksInv ==
  /\ SessionSound /\ RecordsTyped /\ EngineTyped /\ LotsFit /\ RecordsFollowLegs
  /\ RecordsSound /\ PendingFollowsRecords /\ FillsTold /\ SnapshotComesLast
  /\ MirrorFollows /\ BooksAgreeOnSuccess

\* Nothing is written anywhere before the run begins.
LEMMA BooksBegin == Init => BooksInv
<1> SUFFICES ASSUME Init PROVE BooksInv
  OBVIOUS
<1> USE DEF Init, VenueInit, BooksInit, SessionInit
<1>1. SessionSound
  BY DEF SessionSound, Sessions, Legs, Volumes, FirstProviderSequence
<1>2. RecordsTyped /\ RecordsSound /\ RecordsFollowLegs
  BY DEF RecordsTyped, RecordsSound, RecordsFollowLegs
<1>3. EngineTyped
  BY DEF EngineTyped, Engines, Evidences, NoEvidence, Volumes
<1>4. LotsFit /\ PendingFollowsRecords /\ BooksAgreeOnSuccess
  BY DEF LotsFit, PendingFollowsRecords, PendingFits, BooksAgreeOnSuccess
<1>5. FillsTold /\ SnapshotComesLast
  BY DEF FillsTold, SnapshotComesLast, RepliesComeLast, AnswerComesLast,
         EntryIsTold, NoFillAfter
<1>6. MirrorFollows
  BY DEF MirrorFollows, Mirrors, Volumes, Legs
<1> QED  BY <1>1, <1>2, <1>3, <1>4, <1>5, <1>6 DEF BooksInv

--------------------------------------------------------------------------------
(***************************************************************************)
(* One record.                                                             *)
(***************************************************************************)

\* What an operation that applies leaves as it was.
LEMMA StampedRecord ==
  ASSUME NEW r \in Records, NEW e, e.ts \in Nat, e.seq \in Nat,
         NEW next \in LifecycleStates
  PROVE  LET s == Stamped(r, e, next) IN
           /\ s \in Records /\ s.state = next /\ s.lastSeq = e.seq
           /\ s.requested = r.requested /\ s.filled = r.filled
           /\ s.remaining = r.remaining
BY DEF Stamped, Records

\* And what a report of quantities does.
LEMMA QuantifiedRecord ==
  ASSUME NEW r \in Records, NEW e, e.ts \in Nat, e.seq \in Nat,
         e.cumulative \in 0 .. Qty, e.remaining \in 0 .. Qty
  PROVE  /\ LET s == FillRecord(r, e) IN
              /\ s \in Records /\ s.state = FillState(e) /\ s.lastSeq = e.seq
              /\ s.requested = r.requested
              /\ s.filled = e.cumulative /\ s.remaining = e.remaining
         /\ e.resolved \in ResolvedStates =>
              LET s == ReconcileRecord(r, e) IN
              /\ s \in Records /\ s.state = "Reconciled" /\ s.lastSeq = e.seq
              /\ s.requested = r.requested
              /\ s.filled = e.cumulative /\ s.remaining = e.remaining
<1>1. FillState(e) \in LifecycleStates /\ "Reconciled" \in LifecycleStates
  BY DEF FillState, LifecycleStates
<1>2. LET s == Stamped(r, e, FillState(e)) IN
        /\ s \in Records /\ s.state = FillState(e) /\ s.lastSeq = e.seq
        /\ s.requested = r.requested
  BY <1>1, StampedRecord
<1>3. LET s == Stamped(r, e, "Reconciled") IN
        /\ s \in Records /\ s.state = "Reconciled" /\ s.lastSeq = e.seq
        /\ s.requested = r.requested
  BY <1>1, StampedRecord
<1> HIDE DEF FillState
<1>4. LET s == FillRecord(r, e) IN
        /\ s \in Records /\ s.state = FillState(e) /\ s.lastSeq = e.seq
        /\ s.requested = r.requested
        /\ s.filled = e.cumulative /\ s.remaining = e.remaining
  BY <1>2 DEF FillRecord, Records
<1>5. ASSUME e.resolved \in ResolvedStates
      PROVE  LET s == ReconcileRecord(r, e) IN
               /\ s \in Records /\ s.state = "Reconciled" /\ s.lastSeq = e.seq
               /\ s.requested = r.requested
               /\ s.filled = e.cumulative /\ s.remaining = e.remaining
  BY <1>3, <1>5 DEF ReconcileRecord, Records
<1> QED  BY <1>4, <1>5

\* A record that is replaced, and the others that are not.
LEMMA RecordReplaced ==
  ASSUME RecordsTyped, NEW l \in DOMAIN records, NEW s \in Records,
         records' = [ records EXCEPT ![l] = s ]
  PROVE  /\ DOMAIN records' = DOMAIN records /\ DOMAIN records \subseteq Legs
         /\ records' \in [ DOMAIN records' -> Records ] /\ records'[l] = s
         /\ \A k \in DOMAIN records : k # l => records'[k] = records[k]
BY DEF RecordsTyped

\* A position that is open is of a record that was told of a fill.
LEMMA RecordOf ==
  ASSUME BooksInv, NEW l \in DOMAIN records
  PROVE  l \in Legs /\ records[l] \in Records /\ RecordSound(l, records[l])
BY DEF BooksInv, RecordsTyped, RecordsSound

--------------------------------------------------------------------------------
(***************************************************************************)
(* The venue's steps.                                                      *)
(***************************************************************************)

\* What is on the wire stays there, and nothing is said of a fill.
LEMMA SilentKeepsBooks ==
  ASSUME CoreInv, BooksInv, pc # "done", Settles, VenueTyped',
         UNCHANGED <<bookVars, sessionVars, controlVars>>,
         FillsTold', SnapshotComesLast'
  PROVE  BooksInv'
<1> USE DEF BooksInv, bookVars, sessionVars, controlVars
<1>1. /\ venue \in [ Legs -> VenueOrder ] /\ venue' \in [ Legs -> VenueOrder ]
      /\ \A l \in Legs : venue'[l].asked = venue[l].asked
                         /\ venue[l].filled <= venue'[l].filled
                         /\ venue[l].filled \in Nat /\ venue'[l].filled \in Nat
      /\ leg # "Entry" => venue'["Entry"].filled = venue["Entry"].filled
      /\ leg # "Close" => venue'["Close"].filled = venue["Close"].filled
  BY DEF CoreInv, VenueTyped, VenueOrder, LegsInTurn, Settles, Legs
<1>2. SessionSound' /\ RecordsTyped' /\ EngineTyped' /\ RecordsFollowLegs'
  BY DEF SessionSound, RecordsTyped, EngineTyped, RecordsFollowLegs
<1>3. LotsFit'
  BY <1>1 DEF LotsFit
<1>4. RecordsSound'
  <2>1. ASSUME NEW l \in DOMAIN records
        PROVE  RecordSound(l, records[l])'
    <3>1. /\ l \in Legs /\ records[l] \in Records /\ RecordSound(l, records[l])
      BY <1>1, <2>1, RecordOf
    <3> QED  BY <1>1, <3>1 DEF RecordSound, Records
  <2> QED  BY <2>1 DEF RecordsSound
<1>5. PendingFollowsRecords'
  BY DEF PendingFollowsRecords, PendingFits
<1>6. MirrorFollows'
  BY <1>1 DEF MirrorFollows, Mirrors, Volumes, Legs
<1>7. BooksAgreeOnSuccess'
  BY DEF BooksAgreeOnSuccess, CoreInv, ControlTyped
<1> QED  BY <1>2, <1>3, <1>4, <1>5, <1>6, <1>7

\* Nothing is on the wire.
LEMMA EmptyWireTells ==
  ASSUME wire' = << >>
  PROVE  FillsTold' /\ SnapshotComesLast'
BY DEF FillsTold, SnapshotComesLast, RepliesComeLast, AnswerComesLast, EntryIsTold,
       NoFillAfter

\* What a message that joins the wire changes.
LEMMA JoiningWire ==
  ASSUME CoreInv, NEW m \in Message, wire' = Append(wire, m)
  PROVE  /\ DOMAIN wire = 1 .. Len(wire) /\ Len(wire) \in Nat
         /\ DOMAIN wire' = 1 .. Len(wire) + 1 /\ wire'[Len(wire) + 1] = m
         /\ \A i \in DOMAIN wire : wire'[i] = wire[i] /\ wire[i] \in Message
BY DEF CoreInv, LinkTyped

(***************************************************************************)
(* A message that is not a fill may join, and a fill may join when it is   *)
(* told truly and its leg is held: then no reply without orders is there.  *)
(***************************************************************************)
LEMMA JoiningTells ==
  ASSUME CoreInv, BooksInv, pc # "done", Settles, VenueTyped',
         UNCHANGED <<sessionVars, controlVars>>,
         NEW m \in Message, wire' = Append(wire, m),
         m.kind = "fill" =>
           Held(m.leg) /\ m.leg \in Legs /\ m.cumulative <= venue'[m.leg].filled
  PROVE  FillsTold' /\ SnapshotComesLast'
<1> USE DEF sessionVars, controlVars
<1>1. /\ DOMAIN wire = 1 .. Len(wire) /\ Len(wire) \in Nat
      /\ DOMAIN wire' = 1 .. Len(wire) + 1 /\ wire'[Len(wire) + 1] = m
      /\ \A i \in DOMAIN wire : wire'[i] = wire[i] /\ wire[i] \in Message
  BY JoiningWire
<1>2. FillsTold'
  <2>1. ASSUME NEW i \in DOMAIN wire', wire'[i].kind = "fill"
        PROVE  wire'[i].cumulative <= venue'[wire'[i].leg].filled
    <3>1. CASE i = Len(wire) + 1
      BY <1>1, <2>1, <3>1
    <3>2. CASE i \in DOMAIN wire
      <4>1. /\ wire'[i] = wire[i] /\ wire[i].leg \in Legs
            /\ wire[i].cumulative \in Int
            /\ wire[i].cumulative <= venue[wire[i].leg].filled
        BY <1>1, <2>1, <3>2 DEF BooksInv, FillsTold, Message
      <4>2. /\ venue[wire[i].leg].filled <= venue'[wire[i].leg].filled
            /\ venue[wire[i].leg].filled \in Int
            /\ venue'[wire[i].leg].filled \in Int
        BY <4>1 DEF Settles, CoreInv, VenueTyped, VenueOrder
      <4> QED  BY <4>1, <4>2
    <3> QED  BY <1>1, <3>1, <3>2
  <2> QED  BY <2>1 DEF FillsTold
<1>3. m.kind = "fill" => ~NothingHeld /\ m.leg = leg /\ ~Believed(m)
  BY DEF NothingHeld, CoreInv, LegsInTurn, Believed, AsksReconcile
<1>4. ASSUME m.kind = "fill", io.job.kind = "reconcile"
      PROVE  /\ \A i \in DOMAIN wire : ~Believed(wire[i])
             /\ ~Clear(io.view)
  BY <1>3, <1>4 DEF CoreInv, RepliesTell, Believed, StillTrue, Clear
<1>5. m.kind = "fill" /\ pc = "asked" => ~Clear(answer)
  BY <1>3 DEF CoreInv, SnapshotIsCurrent, Clear
<1> HIDE DEF Believed, Clear
<1>6. RepliesComeLast'
  <2>1. ASSUME NEW i \in DOMAIN wire', ~EventsMayLag, io.job.kind = "reconcile",
               Believed(wire'[i])
        PROVE  NoFillAfter(i)'
    <3>1. CASE i = Len(wire) + 1
      BY <1>1, <3>1 DEF NoFillAfter
    <3>2. CASE i \in DOMAIN wire
      BY <1>1, <1>4, <2>1, <3>2
      DEF BooksInv, SnapshotComesLast, RepliesComeLast, NoFillAfter
    <3> QED  BY <1>1, <3>1, <3>2
  <2>2. ASSUME ~EventsMayLag, io.job.kind = "reconcile", Clear(io.view)
        PROVE  NoFillAfter(0)'
    BY <1>1, <1>4, <2>2
    DEF BooksInv, SnapshotComesLast, RepliesComeLast, NoFillAfter
  <2> QED  BY <2>1, <2>2 DEF RepliesComeLast, Believed, AsksReconcile, Clear
<1>7. AnswerComesLast'
  <2>1. ASSUME ~EventsMayLag, pc = "asked", Clear(answer)
        PROVE  NoFillAfter(0)'
    BY <1>1, <1>5, <2>1
    DEF BooksInv, SnapshotComesLast, AnswerComesLast, NoFillAfter
  <2> QED  BY <2>1 DEF AnswerComesLast, Clear
<1>8. EntryIsTold'
  BY <1>1, <1>3 DEF BooksInv, SnapshotComesLast, EntryIsTold
<1> QED  BY <1>2, <1>6, <1>7, <1>8 DEF SnapshotComesLast

\* An event or a reply, on a connection that may be down.
LEMMA EmittingTells ==
  ASSUME CoreInv, BooksInv, pc # "done", Settles, VenueTyped',
         UNCHANGED <<sessionVars, controlVars>>,
         NEW m \in Message, Emit(m),
         m.kind = "fill" =>
           Held(m.leg) /\ m.leg \in Legs /\ m.cumulative <= venue'[m.leg].filled
  PROVE  FillsTold' /\ SnapshotComesLast'
<1>1. CASE link
  BY <1>1, JoiningTells DEF Emit
<1>2. CASE ~link
  BY <1>2, EmptyWireTells DEF Emit, CoreInv, ThreadIsWhereItIs
<1> QED  BY <1>1, <1>2

\* A reply that overtakes a fill tells the same, where replies may overtake.
LEMMA OvertakingTells ==
  ASSUME CoreInv, BooksInv, pc # "done", ReplyOvertakes,
         UNCHANGED <<sessionVars, controlVars>>
  PROVE  FillsTold' /\ SnapshotComesLast'
<1>1. PICK k \in 1 .. Len(wire) - 1 :
        wire' = [ wire EXCEPT ![k] = wire[k + 1], ![k + 1] = wire[k] ]
  BY DEF ReplyOvertakes
<1>2. \A i \in DOMAIN wire' : \E j \in DOMAIN wire : wire'[i] = wire[j]
  BY <1>1 DEF CoreInv, LinkTyped
<1>3. EventsMayLag /\ venue' = venue
  BY DEF ReplyOvertakes
<1>4. FillsTold'
  BY <1>2, <1>3 DEF BooksInv, FillsTold
<1> QED  BY <1>3, <1>4
         DEF SnapshotComesLast, RepliesComeLast, AnswerComesLast, EntryIsTold

\* Every step of the venue keeps the books.
LEMMA VenueKeepsBooks ==
  ASSUME CoreInv, BooksInv, pc # "done", VenueStep,
         UNCHANGED <<bookVars, sessionVars, controlVars>>
  PROVE  BooksInv'
<1>0. Settles /\ VenueTyped'
  BY VenueSettles
<1>1. ASSUME NEW l \in Legs, VenueAccept(l) \/ VenueReject(l)
      PROVE  FillsTold' /\ SnapshotComesLast'
  <2>1. PICK m \in Message : m.kind # "fill" /\ Emit(m)
    <3>1. /\ [ kind |-> "accept", leg |-> l ] \in Message
          /\ [ kind |-> "reject", leg |-> l ] \in Message
      BY DEF Message
    <3> QED  BY <1>1, <3>1 DEF VenueAccept, VenueReject
  <2> QED  BY <1>0, <2>1, EmittingTells
<1>2. ASSUME NEW l \in Legs, NEW n \in 1 .. Qty, VenueFill(l, n)
      PROVE  FillsTold' /\ SnapshotComesLast'
  <2> DEFINE m == [ kind |-> "fill", leg |-> l, cumulative |-> venue[l].filled + n ]
  <2>1. venue[l] \in VenueOrder /\ venue[l].filled + n \in 1 .. Qty
    BY <1>2 DEF VenueFill, CoreInv, VenueTyped, VenueOrder
  <2>2. /\ m \in Message /\ m.leg = l /\ m.cumulative = venue[l].filled + n
        /\ Emit(m) /\ Held(l)
    BY <1>2, <2>1 DEF VenueFill, Message
  <2>3. venue'[l].filled = venue[l].filled + n
    BY <1>2, <2>1 DEF VenueFill, CoreInv, VenueTyped, VenueOrder
  <2> HIDE DEF m
  <2>4. m.cumulative <= venue'[m.leg].filled
    BY <2>1, <2>2, <2>3
  <2> QED  BY <1>0, <2>2, <2>4, EmittingTells
<1>3. ASSUME NEW l \in Legs, VenueDropsRest(l)
      PROVE  FillsTold' /\ SnapshotComesLast'
  <2>1. wire' = wire /\ \A k \in Legs : venue'[k].filled = venue[k].filled
    BY <1>3 DEF VenueDropsRest, CoreInv, VenueTyped, VenueOrder
  <2>2. FillsTold'
    BY <2>1 DEF BooksInv, FillsTold, CoreInv, LinkTyped, Message
  <2> QED  BY <2>1, <2>2
      DEF BooksInv, SnapshotComesLast, RepliesComeLast, AnswerComesLast,
          EntryIsTold, NoFillAfter, Believed, AsksReconcile, Clear, sessionVars,
          controlVars
<1>4. ASSUME VenueReplies PROVE FillsTold' /\ SnapshotComesLast'
  <2>1. PICK m \in Message : m.kind = "reply" /\ Emit(m)
    BY <1>4, AnswerIsMessage DEF VenueReplies
  <2> QED  BY <1>0, <2>1, EmittingTells
<1>5. ASSUME LinkDrops PROVE FillsTold' /\ SnapshotComesLast'
  BY <1>5, EmptyWireTells DEF LinkDrops
<1>6. ASSUME ReplyOvertakes PROVE FillsTold' /\ SnapshotComesLast'
  BY <1>6, OvertakingTells
<1>7. FillsTold' /\ SnapshotComesLast'
  BY <1>1, <1>2, <1>3, <1>4, <1>5, <1>6 DEF VenueStep
<1> QED  BY <1>0, <1>7, SilentKeepsBooks

--------------------------------------------------------------------------------
(***************************************************************************)
(* The session's steps that leave the books alone.                         *)
(***************************************************************************)

\* The wire is what it was from the n-th message on; replies may turn late.
Shifted(n) ==
  \A i \in DOMAIN wire' :
    /\ i \in Nat /\ i + n \in DOMAIN wire /\ wire'[i].kind = wire[i + n].kind
    /\ wire'[i].kind = "fill" => wire'[i] = wire[i + n]
    /\ AsksReconcile(wire'[i]) => wire'[i] = wire[i + n]

\* So no fill appears where there was none.
LEMMA ShiftTells ==
  ASSUME BooksInv, NEW n \in Nat, Shifted(n), controlVars' = controlVars,
         \A l \in Legs : venue'[l].filled = venue[l].filled,
         \A i \in DOMAIN wire : wire[i] \in Message
  PROVE  /\ FillsTold' /\ EntryIsTold'
         /\ \A i \in Nat : NoFillAfter(i + n) => NoFillAfter(i)'
         /\ NoFillAfter(0) => NoFillAfter(0)'
<1>1. \A i \in DOMAIN wire' : wire'[i].kind = "fill" =>
        wire'[i].leg \in Legs /\ wire'[i] = wire[i + n] /\ i + n \in DOMAIN wire
  BY DEF Shifted, Message
<1>2. FillsTold'
  BY <1>1 DEF BooksInv, FillsTold
<1>3. EntryIsTold'
  BY <1>1 DEF BooksInv, SnapshotComesLast, EntryIsTold, controlVars
<1>4. \A i \in Nat : NoFillAfter(i + n) => NoFillAfter(i)'
  <2>1. ASSUME NEW i \in Nat, NoFillAfter(i + n), NEW j \in DOMAIN wire', j > i
        PROVE  wire'[j].kind # "fill"
    <3>1. j \in Nat /\ j + n \in DOMAIN wire /\ j + n > i + n
          /\ wire'[j].kind = wire[j + n].kind
      BY <2>1 DEF Shifted
    <3> QED  BY <2>1, <3>1 DEF NoFillAfter
  <2> QED  BY <2>1 DEF NoFillAfter
<1>5. NoFillAfter(0) => NoFillAfter(0)'
  <2>1. ASSUME NoFillAfter(0), NEW j \in DOMAIN wire', j > 0
        PROVE  wire'[j].kind # "fill"
    <3>1. j \in Nat /\ j + n \in DOMAIN wire /\ j + n > 0
          /\ wire'[j].kind = wire[j + n].kind
      BY <2>1 DEF Shifted
    <3> QED  BY <2>1, <3>1 DEF NoFillAfter
  <2> QED  BY <2>1 DEF NoFillAfter
<1> QED  BY <1>2, <1>3, <1>4, <1>5

\* No reply the session would believe is under way.
Unreplied == \A i \in DOMAIN wire : ~AsksReconcile(wire[i])

\* What the thread knows it knew before, or learned when no fill was left.
ViewStays ==
  io'.job.kind = "reconcile" =>
    \/ Unreplied' /\ ~io'.view.ok
    \/ io'.job = io.job /\ io'.view = io.view
    \/ io'.job = io.job /\ Unreplied' /\ (Clear(io'.view) => NoFillAfter(0)')

\* The promise is given no snapshot but that of a reconciling job.
AnswerStays ==
  \/ answer' = answer
  \/ ~answer'.ok
  \/ pc # "asked"
  \/ io.job.kind = "reconcile" /\ answer'.pending = io.view.pending /\ io.view.ok

\* Then a snapshot still comes last.
LEMMA StaysLast ==
  ASSUME CoreInv, BooksInv, NEW n \in Nat, Shifted(n), controlVars' = controlVars,
         \A l \in Legs : venue'[l].filled = venue[l].filled,
         ~EventsMayLag => ViewStays, AnswerStays
  PROVE  FillsTold' /\ SnapshotComesLast'
<1>1. /\ FillsTold' /\ EntryIsTold'
      /\ \A i \in Nat : NoFillAfter(i + n) => NoFillAfter(i)'
      /\ NoFillAfter(0) => NoFillAfter(0)'
  <2>1. \A i \in DOMAIN wire : wire[i] \in Message
    BY DEF CoreInv, LinkTyped
  <2> QED  BY <2>1, ShiftTells
<1>2. AnswerComesLast'
  BY <1>1
  DEF AnswerStays, AnswerComesLast, BooksInv, SnapshotComesLast, RepliesComeLast,
      Clear, controlVars
<1>3. RepliesComeLast'
  <2>1. ASSUME ~EventsMayLag, io'.job.kind = "reconcile",
               NEW i \in DOMAIN wire', Believed(wire'[i])
        PROVE  NoFillAfter(i)'
    <3>1. /\ io'.job = io.job
          /\ i \in Nat /\ i + n \in DOMAIN wire /\ wire'[i] = wire[i + n]
      BY <2>1 DEF ViewStays, Unreplied, Believed, Shifted
    <3>2. NoFillAfter(i + n)
      BY <2>1, <3>1 DEF BooksInv, SnapshotComesLast, RepliesComeLast
    <3> QED  BY <1>1, <3>1, <3>2
  <2>2. ASSUME ~EventsMayLag, io'.job.kind = "reconcile", Clear(io'.view)
        PROVE  NoFillAfter(0)'
    BY <1>1, <2>2
    DEF ViewStays, Clear, BooksInv, SnapshotComesLast, RepliesComeLast
  <2> QED  BY <2>1, <2>2 DEF RepliesComeLast, Believed, AsksReconcile, Clear
<1> QED  BY <1>1, <1>2, <1>3 DEF SnapshotComesLast

\* What the session learns of orders and the position, without an event.
SessionLearns ==
  /\ SessionSound'
  /\ session.mapped => session'.mapped
  /\ session'.adopted => session.adopted \/ ~session.mapped

\* A step of the session that is not an order event.
LEMMA QuietStepKeepsBooks ==
  ASSUME CoreInv, BooksInv, pc # "done", UNCHANGED <<bookVars, controlVars>>,
         \A l \in Legs : venue'[l].filled = venue[l].filled /\ venue'[l].asked <= lot[l],
         SessionLearns, FillsTold', SnapshotComesLast'
  PROVE  BooksInv'
<1> USE DEF BooksInv, bookVars, controlVars
<1>1. RecordsTyped' /\ EngineTyped' /\ RecordsFollowLegs'
  BY DEF RecordsTyped, EngineTyped, RecordsFollowLegs
<1>2. LotsFit'
  BY DEF LotsFit, Legs
<1>3. RecordsSound'
  <2>1. ASSUME NEW l \in DOMAIN records
        PROVE  RecordSound(l, records[l])'
    BY <2>1, RecordOf DEF RecordSound, Legs
  <2> QED  BY <2>1 DEF RecordsSound
<1>4. PendingFollowsRecords'
  BY DEF PendingFollowsRecords, PendingFits
<1>5. MirrorFollows'
  BY DEF MirrorFollows, SessionLearns, SessionSound, Sessions, Legs
<1>6. BooksAgreeOnSuccess'
  BY DEF BooksAgreeOnSuccess, CoreInv, ControlTyped
<1> QED  BY <1>1, <1>2, <1>3, <1>4, <1>5, <1>6 DEF SessionLearns

\* Nothing is learned of orders.
LEMMA SameSession ==
  ASSUME BooksInv, session' = session PROVE SessionLearns
BY DEF BooksInv, SessionSound, SessionLearns

\* Taking a submission: its leg is known from then on.
LEMMA RegisteredLearns ==
  ASSUME BooksInv, NEW c \in Command, session' = Registered(c)
  PROVE  SessionLearns
<1>1. c.leg \in Legs
  BY DEF Command, None, Submit, Reconcile, Legs
<1> QED  BY <1>1 DEF BooksInv, SessionSound, SessionLearns, Registered, Sessions

\* The wire as it is, without its head, and with replies that are too late.
LEMMA WireShifts ==
  ASSUME CoreInv
  PROVE  /\ wire' = wire => Shifted(0)
         /\ wire # << >> /\ wire' = Tail(wire) => Shifted(1)
         /\ \A unread \in Seq(Message) :
              /\ QueryForgets(unread) /\ unread = wire => Shifted(0)
              /\ QueryForgets(unread) /\ wire # << >> /\ unread = Tail(wire)
                   => Shifted(1)
<1>0. wire \in Seq(Message) /\ \A i \in DOMAIN wire : i \in Nat /\ i + 0 = i
  BY DEF CoreInv, LinkTyped
<1>1. wire' = wire => Shifted(0)
  BY <1>0 DEF Shifted
<1>2. ASSUME wire # << >>
      PROVE  \A i \in DOMAIN Tail(wire) :
               i \in Nat /\ i + 1 \in DOMAIN wire /\ Tail(wire)[i] = wire[i + 1]
  BY <1>0, <1>2, TakingFrom
<1>3. wire # << >> /\ wire' = Tail(wire) => Shifted(1)
  BY <1>2 DEF Shifted
<1>4. ASSUME NEW unread \in Seq(Message), QueryForgets(unread), unread = wire
      PROVE  Shifted(0)
  BY <1>0, <1>4 DEF Shifted, QueryForgets, Late, AsksReconcile
<1>5. ASSUME NEW unread \in Seq(Message), QueryForgets(unread), wire # << >>,
             unread = Tail(wire)
      PROVE  Shifted(1)
  BY <1>2, <1>5 DEF Shifted, QueryForgets, Late, AsksReconcile
<1> QED  BY <1>1, <1>3, <1>4, <1>5

\* A thread that is put in a query or a recovery has no snapshot yet.
LEMMA NoViewYet ==
  /\ ~Idle.view.ok /\ Idle.job = None
  /\ \A job, n : RecoverIO(job, n).job = job /\ ~RecoverIO(job, n).view.ok
  /\ \A job, b : QueryIO(job, b).job = job /\ ~QueryIO(job, b).view.ok
<1> HIDE DEF Idle
<1>1. Idle \in IOStates /\ ~Idle.view.ok /\ Idle.job = None
  BY IdleStates
<1> QED  BY <1>1 DEF RecoverIO, QueryIO, IOStates

\* A job that ends without a snapshot, or goes on without one.
LEMMA FailingStays ==
  ASSUME CoreInv, Unreplied',
         \/ UNCHANGED answer /\ \E n : io' = RecoverIO(io.job, n)
         \/ UNCHANGED answer /\ \E b : io' = QueryIO(io.job, b)
         \/ FinishJob(Failure)
  PROVE  ViewStays /\ AnswerStays
<1>1. ~io'.view.ok
  BY NoViewYet DEF FinishJob
<1>2. answer' = answer \/ ~answer'.ok
  BY PromiseValues DEF FinishJob, Settle
<1> QED  BY <1>1, <1>2 DEF ViewStays, AnswerStays

\* A query that fails tells nothing.
LEMMA FailedQueryKeepsBooks ==
  ASSUME CoreInv, BooksInv, pc # "done", NEW n \in Nat, Shifted(n), NEW dropped,
         QueryFails(dropped), Unreplied', venue' = venue, UNCHANGED controlVars
  PROVE  BooksInv'
<1>1. ViewStays /\ AnswerStays
  BY FailingStays DEF QueryFails
<1>2. FillsTold' /\ SnapshotComesLast'
  BY <1>1, StaysLast
<1> QED  BY <1>2, SameSession, QuietStepKeepsBooks
         DEF QueryFails, BooksInv, LotsFit

\* A session that ends, or a connection that is tried again.
LEMMA CutOffKeepsBooks ==
  ASSUME CoreInv, BooksInv, pc # "done", wire' = << >>,
         UNCHANGED <<venue, session, bookVars, controlVars>>
  PROVE  BooksInv'
BY EmptyWireTells, SameSession, QuietStepKeepsBooks DEF BooksInv, LotsFit

\* A message nobody handles, or a quote that is refused.
LEMMA ReadFailsKeepsBooks ==
  ASSUME CoreInv, BooksInv, pc # "done", io.mode \in { "read", "query" }, link,
         NEW n \in Nat, NEW unread \in Seq(Message), QueryForgets(unread) => Shifted(n),
         ReadFails(unread), UNCHANGED controlVars
  PROVE  BooksInv'
<1>1. CASE io.mode = "read"
  BY <1>1, CutOffKeepsBooks DEF ReadFails, SessionEnds
<1>2. CASE io.mode = "query"
  <2>1. QueryForgets(unread) /\ QueryFails(FALSE) /\ venue' = venue
    BY <1>2 DEF ReadFails, QueryForgets
  <2>2. Unreplied'
    BY <2>1, ForgettingAsksNothing DEF NothingAsked, Unreplied, AsksReconcile
  <2> QED  BY <2>1, <2>2, FailedQueryKeepsBooks
<1> QED  BY <1>1, <1>2

\* A step that leaves the wire and has no job to reconcile tells nothing.
LEMMA IdleStepTells ==
  ASSUME CoreInv, BooksInv, wire' = wire, UNCHANGED controlVars,
         \A l \in Legs : venue'[l].filled = venue[l].filled,
         io'.job.kind # "reconcile", AnswerStays
  PROVE  FillsTold' /\ SnapshotComesLast'
<1>1. Shifted(0) /\ ViewStays
  BY WireShifts DEF ViewStays
<1> QED  BY <1>1, StaysLast

\* Taking a command.
LEMMA TakeCommandKeepsBooks ==
  ASSUME CoreInv, BooksInv, pc # "done", TakeCommand, UNCHANGED controlVars
  PROVE  BooksInv'
<1> DEFINE c == Head(commands)
<1>1. /\ commands # << >> /\ io.mode = "loop" /\ io.job = None
      /\ UNCHANGED <<wire, bookVars>>
  BY DEF TakeCommand, SubmitRefused, SubmitSent, SubmitAmbiguous, QueryStarts,
         venueVars, CoreInv, ThreadIsWhereItIs
<1>2. None.kind # "reconcile" /\ (pc = "asked" => awaiting.kind = "reconcile")
  BY DEF None, CoreInv, CommandsFollowControl, LegReconcile, Reconcile
<1>3. CASE c.kind = "submit"
  <2>1. c = LegSubmit /\ Unsent /\ c \in Command
    BY <1>1, <1>3, SubmissionIsOfLeg, LegCommands
  <2>2. \A l \in Legs : venue'[l].filled = venue[l].filled /\ venue'[l].asked <= lot[l]
    <3>1. venue \in [ Legs -> VenueOrder ] /\ lot \in [ Legs -> 0 .. Qty ]
      BY DEF CoreInv, VenueTyped, ControlTyped, Volumes
    <3>2. venue' = venue \/ venue' = Placed(LegSubmit)
      BY <2>1, SessionPlaces DEF SessionStep
    <3> QED  BY <3>1, <3>2
        DEF Placed, LegSubmit, Submit, VenueOrder, BooksInv, LotsFit
  <2>3. io'.job.kind # "reconcile"
    BY <1>1, <1>2, <1>3
    DEF TakeCommand, SubmitRefused, SubmitSent, SubmitAmbiguous, RecoverIO, Idle
  <2>4. AnswerStays
    BY <1>2, <1>3, PromiseValues
    DEF TakeCommand, SubmitRefused, SubmitSent, SubmitAmbiguous, Settle, AnswerStays
  <2>5. SessionLearns
    BY <1>3, <2>1, SameSession, RegisteredLearns
    DEF TakeCommand, SubmitRefused, SubmitSent, SubmitAmbiguous
  <2>6. FillsTold' /\ SnapshotComesLast'
    BY <1>1, <2>2, <2>3, <2>4, IdleStepTells
  <2> QED  BY <1>1, <2>2, <2>5, <2>6, QuietStepKeepsBooks
<1>4. CASE c.kind = "reconcile"
  <2>1. /\ QueryStarts(c) /\ UNCHANGED <<venue, session, answer>>
        /\ ~io'.view.ok
    BY <1>4, NoViewYet DEF TakeCommand, QueryStarts
  <2>2. Unreplied'
    BY <1>1, OnlyAQueryAsks DEF Unreplied, NothingAsked, AsksReconcile
  <2>3. Shifted(0) /\ ViewStays /\ AnswerStays
    BY <1>1, <2>1, <2>2, WireShifts DEF ViewStays, AnswerStays
  <2>4. FillsTold' /\ SnapshotComesLast'
    BY <2>1, <2>3, StaysLast
  <2> QED  BY <1>1, <2>1, <2>4, SameSession, QuietStepKeepsBooks
           DEF BooksInv, LotsFit
<1> QED  BY <1>3, <1>4 DEF TakeCommand

\* The first reply of a query: if it shows no order, no fill is behind it.
LEMMA ReconcileReplyKeepsBooks ==
  ASSUME CoreInv, BooksInv, pc # "done", Reading, Expected(Head(wire)),
         io.stage = "reconcile", wire' = Tail(wire),
         io' = [ io EXCEPT !.stage = "pnl", !.view = ViewOf(Head(wire)) ],
         UNCHANGED <<answer, session, venue, bookVars, controlVars>>
  PROVE  BooksInv'
<1> DEFINE m == Head(wire)
<1>1. wire # << >> /\ AsksReconcile(m)
  BY DEF Reading, Expected, AsksReconcile
<1>2. /\ m = wire[1] /\ 1 \in DOMAIN wire
      /\ \A i \in DOMAIN wire' :
           i \in Nat /\ i + 1 \in DOMAIN wire /\ i + 1 # 1 /\ wire'[i] = wire[i + 1]
  BY <1>1, ReadingShifts
<1> HIDE DEF m
<1>3. io'.job = io.job /\ io'.view = ViewOf(m)
  BY DEF CoreInv, SessionTyped, IOStates, m
<1>4. Unreplied'
  <2>1. \A j \in DOMAIN wire : AsksReconcile(wire[j]) => j = 1
    BY <1>1, <1>2 DEF CoreInv, OneReplyAwaited
  <2>2. \A i \in DOMAIN wire' : ~AsksReconcile(wire'[i])
    <3> HIDE DEF AsksReconcile
    <3> QED  BY <1>2, <2>1
  <2> QED  BY <2>2 DEF Unreplied, AsksReconcile
<1>5. ASSUME ~EventsMayLag PROVE ViewStays
  <2>1. ASSUME io.job.kind = "reconcile", Clear(ViewOf(m))
        PROVE  NoFillAfter(0)'
    <3>1. Believed(m)
      BY <1>1, <2>1 DEF Believed, Clear, ViewOf
    <3>2. NoFillAfter(1)
      BY <1>2, <1>5, <2>1, <3>1 DEF BooksInv, SnapshotComesLast, RepliesComeLast
    <3>3. ASSUME NEW i \in DOMAIN wire', i > 0
          PROVE  wire'[i].kind # "fill"
      <4>1. i + 1 \in DOMAIN wire /\ i + 1 > 1 /\ wire'[i] = wire[i + 1]
        BY <1>2, <3>3
      <4> QED  BY <3>2, <4>1 DEF NoFillAfter
    <3> QED  BY <3>3 DEF NoFillAfter
  <2> QED  BY <1>3, <1>4, <2>1 DEF ViewStays
<1>6. Shifted(1) /\ AnswerStays
  BY <1>1, WireShifts DEF AnswerStays
<1>7. FillsTold' /\ SnapshotComesLast'
  BY <1>5, <1>6, StaysLast
<1> QED  BY <1>7, SameSession, QuietStepKeepsBooks DEF BooksInv, LotsFit

\* A position that is adopted is known, and no fill had opened one.
LEMMA AdoptingLearns ==
  ASSUME CoreInv, BooksInv, NEW pnl, QueryCompletes(pnl)
  PROVE  SessionLearns
<1>1. session' = session
      \/ (~session.mapped /\ session' = [ session EXCEPT !.adopted = TRUE, !.mapped = TRUE ])
  BY DEF QueryCompletes, Adopts
<1>2. CASE session' = session
  BY <1>2, SameSession
<1>3. CASE ~session.mapped /\ session' = [ session EXCEPT !.adopted = TRUE, !.mapped = TRUE ]
  BY <1>3 DEF BooksInv, SessionSound, SessionLearns, Sessions
<1> QED  BY <1>1, <1>2, <1>3

\* The last reply of a query: the snapshot is that of the first.
LEMMA QueryCompletesKeepsBooks ==
  ASSUME CoreInv, BooksInv, pc # "done", Reading, Expected(Head(wire)),
         io.stage # "reconcile", wire' = Tail(wire), NEW pnl, QueryCompletes(pnl),
         UNCHANGED controlVars
  PROVE  BooksInv'
<1>1. wire # << >> /\ UNCHANGED <<venue, bookVars>>
  BY DEF Reading, QueryCompletes
<1>2. Shifted(1)
  BY <1>1, WireShifts
<1>3. Unreplied'
  BY <1>1, OnlyAQueryAsks, ReadingShifts DEF NothingAsked, Unreplied, AsksReconcile
<1> DEFINE value == Snapshot(io.view.position, io.view.pending)
<1>4. CASE io.view.ok /\ FinishJob(value)
  <2>1. value.pending = io.view.pending
    BY SnapshotValues DEF CoreInv, SessionTyped, IOStates, Answers
  <2>2. io'.job.kind # "reconcile"
    BY <1>4, NoViewYet DEF FinishJob, None
  <2>3. AnswerStays
    <3>1. pc = "asked" => awaiting.kind = "reconcile"
      BY DEF CoreInv, CommandsFollowControl, LegReconcile, Reconcile
    <3> HIDE DEF value
    <3> QED  BY <1>4, <2>1, <3>1 DEF FinishJob, Settle, AnswerStays
  <2> QED  BY <1>1, <1>2, <1>4, <2>2, <2>3, StaysLast, AdoptingLearns,
              QuietStepKeepsBooks
      DEF ViewStays, BooksInv, LotsFit
<1>5. CASE \/ UNCHANGED answer /\ \E n : io' = RecoverIO(io.job, n)
           \/ UNCHANGED answer /\ \E b : io' = QueryIO(io.job, b)
           \/ FinishJob(Failure)
  <2>1. ViewStays /\ AnswerStays
    BY <1>3, <1>5, FailingStays
  <2> QED  BY <1>1, <1>2, <2>1, StaysLast, AdoptingLearns, QuietStepKeepsBooks
      DEF BooksInv, LotsFit
<1> QED  BY <1>4, <1>5 DEF QueryCompletes

\* A step of the session, if it is not an order event.
LEMMA OtherStepsKeepBooks ==
  ASSUME CoreInv, BooksInv, pc # "done", SessionStep, ~ReceiveEvent,
         UNCHANGED controlVars
  PROVE  BooksInv'
<1>1. CASE TakeCommand
  BY <1>1, TakeCommandKeepsBooks
<1>2. CASE LoopReads \/ ReadTimesOut \/ ReadFindsLinkDown
  <2>1. /\ UNCHANGED <<venue, wire, answer, session, bookVars>>
        /\ io'.job.kind # "reconcile"
    <3>1. UNCHANGED <<venue, wire, answer, session, bookVars>>
      BY <1>2 DEF LoopReads, ReadTimesOut, ReadFindsLinkDown, venueVars
    <3>2. \/ io' = [ Idle EXCEPT !.mode = "read" ] \/ io' = Idle
          \/ io' = RecoverIO(None, 0)
      BY <1>2 DEF LoopReads, ReadTimesOut, ReadFindsLinkDown
    <3>3. [ Idle EXCEPT !.mode = "read" ].job = None
      BY IdleStates
    <3>4. io'.job = None
      BY <3>2, <3>3, NoViewYet
    <3> QED  BY <3>1, <3>4 DEF None
  <2>2. FillsTold' /\ SnapshotComesLast'
    BY <2>1, IdleStepTells DEF AnswerStays
  <2> QED  BY <2>1, <2>2, SameSession, QuietStepKeepsBooks DEF BooksInv, LotsFit
<1>3. CASE ReceiveReply
  BY <1>3, ReconcileReplyKeepsBooks, QueryCompletesKeepsBooks DEF ReceiveReply
<1>4. CASE ReceiveUnexpected
  <2>1. /\ io.mode \in { "read", "query" } /\ wire # << >> /\ ReadFails(Tail(wire))
        /\ link /\ Tail(wire) \in Seq(Message)
    BY <1>4, TakingFrom
    DEF ReceiveUnexpected, Reading, CoreInv, LinkTyped, ThreadIsWhereItIs
  <2>2. QueryForgets(Tail(wire)) => Shifted(1)
    BY <2>1, WireShifts
  <2> QED  BY <2>1, <2>2, ReadFailsKeepsBooks
<1>5. CASE SpotRefused
  <2>1. wire \in Seq(Message) /\ (QueryForgets(wire) => Shifted(0))
    BY WireShifts DEF CoreInv, LinkTyped
  <2> QED  BY <1>5, <2>1, ReadFailsKeepsBooks DEF SpotRefused
<1>6. CASE QueryTimesOut
  <2>1. wire \in Seq(Message) /\ QueryForgets(wire) /\ link /\ venue' = venue
    BY <1>6 DEF QueryTimesOut, QueryForgets, CoreInv, LinkTyped
  <2>2. Shifted(0) /\ Unreplied'
    BY <2>1, WireShifts, ForgettingAsksNothing DEF NothingAsked, Unreplied, AsksReconcile
  <2> QED  BY <1>6, <2>1, <2>2, FailedQueryKeepsBooks DEF QueryTimesOut
<1>7. CASE QueryFindsLinkDown
  <2>1. wire' = wire /\ wire = << >> /\ venue' = venue
    BY <1>7 DEF QueryFindsLinkDown, venueVars, CoreInv, ThreadIsWhereItIs
  <2>2. Shifted(0) /\ Unreplied'
    BY <2>1, WireShifts DEF Unreplied
  <2> QED  BY <1>7, <2>1, <2>2, FailedQueryKeepsBooks DEF QueryFindsLinkDown
<1>8. CASE Reconnect \/ ReconnectFails
  BY <1>8, CutOffKeepsBooks DEF Reconnect, ReconnectFails
<1>9. CASE RecoveryFails
  <2>1. CASE SessionEnds
    BY <2>1, CutOffKeepsBooks DEF SessionEnds
  <2>2. CASE ~SessionEnds
    <3>1. /\ FinishJob(Failure) /\ UNCHANGED <<venue, wire, session, bookVars>>
          /\ io.mode # "query"
      BY <1>9, <2>2 DEF RecoveryFails, venueVars
    <3>2. Unreplied' /\ Shifted(0)
      BY <3>1, OnlyAQueryAsks, WireShifts DEF NothingAsked, Unreplied, AsksReconcile
    <3>3. ViewStays /\ AnswerStays
      BY <3>1, <3>2, FailingStays
    <3>4. FillsTold' /\ SnapshotComesLast'
      BY <3>1, <3>2, <3>3, StaysLast
    <3> QED  BY <3>1, <3>4, SameSession, QuietStepKeepsBooks DEF BooksInv, LotsFit
  <2> QED  BY <2>1, <2>2
<1> QED  BY <1>1, <1>2, <1>3, <1>4, <1>5, <1>6, <1>7, <1>8, <1>9 DEF SessionStep

--------------------------------------------------------------------------------
(***************************************************************************)
(* Order events.  The parts of BooksInv that the gateway and the execution *)
(* engine may disturb are about one leg at a time.                         *)
(***************************************************************************)
LedgersKeep ==
  RecordsTyped /\ EngineTyped /\ RecordsFollowLegs /\ RecordsSound
    /\ PendingFollowsRecords

\* The engine's account of one leg changes, and of no other.
EngineTouches(l) ==
  /\ engine' \in Engines
  /\ \A k \in Legs \ { l } : /\ engine'.pending[k] = engine.pending[k]
                             /\ k \in engine.active => k \in engine'.active

\* A record is replaced by a sound one, and what its leg has pending fits.
LEMMA ReplacingKeeps ==
  ASSUME BooksInv, NEW l \in DOMAIN records, NEW s \in Records, RecordSound(l, s),
         records' = [ records EXCEPT ![l] = s ], UNCHANGED <<venue, leg, lot, pc>>,
         fillKeys' \subseteq Legs \X (1 .. Qty), evidence' \in [ Legs -> Evidences ],
         EngineTouches(l), PendingFits(l)'
  PROVE  LedgersKeep'
<1>1. /\ DOMAIN records' = DOMAIN records /\ DOMAIN records \subseteq Legs
      /\ records' \in [ DOMAIN records' -> Records ] /\ records'[l] = s
      /\ \A k \in DOMAIN records : k # l => records'[k] = records[k]
  BY RecordReplaced DEF BooksInv
<1>2. RecordsTyped' /\ EngineTyped'
  BY <1>1 DEF RecordsTyped, EngineTyped, EngineTouches
<1>3. RecordsFollowLegs'
  BY <1>1 DEF BooksInv, RecordsFollowLegs
<1>4. RecordsSound'
  <2>1. ASSUME NEW k \in DOMAIN records PROVE RecordSound(k, records[k])'
    <3>1. CASE k = l
      BY <1>1, <3>1 DEF RecordSound
    <3>2. CASE k # l
      BY <1>1, <3>2 DEF BooksInv, RecordsSound, RecordSound
    <3> QED  BY <3>1, <3>2
  <2> QED  BY <1>1, <2>1 DEF RecordsSound
<1>5. PendingFollowsRecords'
  <2>1. ASSUME NEW k \in Legs, k # l PROVE PendingFits(k)'
    BY <1>1, <2>1 DEF BooksInv, PendingFollowsRecords, PendingFits, EngineTouches
  <2> QED  BY <2>1 DEF PendingFollowsRecords
<1> QED  BY <1>2, <1>3, <1>4, <1>5 DEF LedgersKeep

\* No record is replaced.
LEMMA LedgersStay ==
  ASSUME BooksInv, UNCHANGED <<records, fillKeys, engine, venue, leg, lot, pc>>,
         evidence' \in [ Legs -> Evidences ]
  PROVE  LedgersKeep'
<1>1. RecordsSound'
  BY DEF BooksInv, RecordsSound, RecordSound
<1> QED  BY <1>1
    DEF BooksInv, LedgersKeep, RecordsTyped, EngineTyped, RecordsFollowLegs,
        PendingFollowsRecords, PendingFits

\* A leg the engine forgets has nothing pending.
LEMMA InactiveTouches ==
  ASSUME BooksInv, NEW l \in Legs, engine' = Inactive(engine, l)
  PROVE  EngineTouches(l) /\ engine'.pending[l] = 0
BY DEF BooksInv, EngineTyped, Engines, Volumes, Inactive, EngineTouches

\* An acknowledgement applies only to an order that was submitted.
LEMMA AcknowledgedRecord ==
  ASSUME BooksInv, NEW l \in DOMAIN records, NEW e, e.ts = 0, e.seq \in Nat,
         e.seq > GatewaySequence, AckResult(records[l], {}, e) = "Applied"
  PROVE  /\ records[l].state = "Submitted"
         /\ AckRecord(records[l], e) \in Records
         /\ RecordSound(l, AckRecord(records[l], e))
<1> DEFINE s == AckRecord(records[l], e)
<1>1. l \in Legs /\ records[l] \in Records /\ RecordSound(l, records[l])
  BY RecordOf
<1>2. records[l].state = "Submitted" /\ AckState(e) \in { "Accepted", "Rejected" }
  BY DEF AckResult, TransitionResult, CanTransition, AckState
<1>3. /\ s \in Records /\ s.state = AckState(e) /\ s.lastSeq = e.seq
      /\ s.requested = records[l].requested /\ s.filled = records[l].filled
      /\ s.remaining = records[l].remaining
  <2>1. AckState(e) \in LifecycleStates /\ e.ts \in Nat
    BY <1>2 DEF LifecycleStates
  <2> QED  BY <1>1, <2>1, StampedRecord DEF AckRecord
<1> HIDE DEF s
<1>4. RecordSound(l, s)
  BY <1>1, <1>2, <1>3 DEF RecordSound, ReachedStates, GatewaySequence
<1> QED  BY <1>2, <1>3, <1>4 DEF s

\* An acknowledgement keeps the ledgers.
LEMMA AcknowledgementKeeps ==
  ASSUME CoreInv, BooksInv, NEW l \in Legs, NEW accepted \in BOOLEAN,
         NEW sequence \in Nat, sequence > GatewaySequence,
         HandleAcknowledgement(l, accepted, sequence),
         UNCHANGED <<venue, leg, lot, pc>>
  PROVE  LedgersKeep' /\ UNCHANGED <<fillKeys, mirror>>
<1> DEFINE e == [ key |-> "fresh", ts |-> 0, seq |-> sequence,
                  accepted |-> accepted, identified |-> TRUE ]
           applied == l \in DOMAIN records /\ AckResult(records[l], {}, e) = "Applied"
<1>1. /\ records' = IF applied THEN [ records EXCEPT ![l] = AckRecord(records[l], e) ]
                    ELSE records
      /\ engine' = IF applied /\ ~accepted /\ l \in engine.active
                   THEN Inactive(engine, l) ELSE engine
      /\ evidence' = IF applied /\ evidence[l].tracked
                     THEN [ evidence EXCEPT ![l].acceptance = accepted,
                                            ![l].rejected = ~accepted,
                                            ![l].failure = ~accepted ]
                     ELSE evidence
      /\ UNCHANGED <<fillKeys, mirror>>
  BY DEF HandleAcknowledgement, HasRecord
<1>2. evidence' \in [ Legs -> Evidences ]
  <2>1. evidence \in [ Legs -> Evidences ] /\ evidence[l] \in Evidences
    BY DEF BooksInv, EngineTyped
  <2>2. [ evidence[l] EXCEPT !.acceptance = accepted, !.rejected = ~accepted,
                             !.failure = ~accepted ] \in Evidences
    BY <2>1 DEF Evidences
  <2>3. evidence' = evidence \/
        evidence' = [ evidence EXCEPT ![l] =
                        [ evidence[l] EXCEPT !.acceptance = accepted,
                            !.rejected = ~accepted, !.failure = ~accepted ] ]
    BY <1>1, <2>1 DEF Evidences
  <2> QED  BY <2>1, <2>2, <2>3
<1>3. e.ts = 0 /\ e.seq = sequence
  OBVIOUS
<1> HIDE DEF e
<1>4. CASE applied
  <2>1. /\ records[l].state = "Submitted" /\ AckRecord(records[l], e) \in Records
        /\ RecordSound(l, AckRecord(records[l], e))
    BY <1>3, <1>4, AcknowledgedRecord
  <2>2. engine.pending[l] = 0 /\ engine \in Engines
    BY <2>1 DEF BooksInv, PendingFollowsRecords, PendingFits, EngineTyped, Engines,
                Volumes
  <2>3. EngineTouches(l) /\ engine'.pending[l] = 0
    BY <1>1, <2>2, InactiveTouches DEF EngineTouches
  <2>4. PendingFits(l)'
    BY <2>3 DEF PendingFits
  <2>5. fillKeys' \subseteq Legs \X (1 .. Qty)
    BY <1>1 DEF BooksInv, RecordsTyped
  <2> QED  BY <1>1, <1>2, <1>4, <2>1, <2>3, <2>4, <2>5, ReplacingKeeps
<1>5. CASE ~applied
  BY <1>1, <1>2, <1>5, LedgersStay
<1> QED  BY <1>1, <1>4, <1>5

\* A fill that applies is of an open order, and claims what it was told.
LEMMA FilledRecord ==
  ASSUME BooksInv, NEW l \in DOMAIN records, NEW keys, NEW e, e.ts = 0, e.seq \in Nat,
         e.seq > GatewaySequence, e.cumulative \in 1 .. Qty,
         e.cumulative <= venue[l].filled, e.remaining \in Int,
         FillResult(records[l], keys, e) = "Applied"
  PROVE  LET s == FillRecord(records[l], e) IN
           /\ s \in Records /\ RecordSound(l, s) /\ e.remaining \in 0 .. Qty
           /\ s.state \in { "PartiallyFilled", "Filled" }
           /\ s.remaining = e.remaining
<1> DEFINE r == records[l]
           s == FillRecord(r, e)
<1>1. l \in Legs /\ r \in Records /\ RecordSound(l, r)
  BY RecordOf
<1>2. FillIsValid(r, e) /\ CanTransition(r.state, FillState(e))
  BY DEF FillResult, TransitionResult
<1>3. /\ e.remaining \in 0 .. Qty /\ e.cumulative + e.remaining = r.requested
      /\ e.cumulative \in 0 .. Qty
  BY <1>1, <1>2 DEF FillIsValid, ValidQuantities, Records
<1>4. e.ts \in Nat
  OBVIOUS
<1> HIDE DEF r
<1>5. /\ s \in Records /\ s.state = FillState(e) /\ s.lastSeq = e.seq
      /\ s.requested = r.requested
      /\ s.filled = e.cumulative /\ s.remaining = e.remaining
  BY <1>1, <1>3, <1>4, QuantifiedRecord
<1> HIDE DEF s
<1>6. /\ s.state \in { "PartiallyFilled", "Filled" }
      /\ s.state = "Filled" <=> e.remaining = 0
  BY <1>5 DEF FillState
<1>7. RecordSound(l, s)
  BY <1>1, <1>3, <1>5, <1>6 DEF RecordSound, ReachedStates, GatewaySequence
<1> QED  BY <1>3, <1>5, <1>6, <1>7 DEF r, s

\* What the mirror applies is a new fill, and a close no larger than it holds.
LEMMA MirroredFill ==
  ASSUME BooksInv, NEW l \in Legs, NEW cumulative \in 1 .. Qty,
         cumulative <= venue[l].filled, \A k \in Legs : venue[k].filled \in Nat,
         NEW sequence \in Nat, MirrorResult(l, cumulative, sequence) = "Applied",
         ~EventsMayLag /\ leg # "Entry" => l # "Entry",
         l = "Entry" => ~session.adopted
  PROVE  LET m == MirrorExecuted(l, cumulative, sequence) IN
           /\ m \in Mirrors /\ m.keys = mirror.keys \cup { <<l, cumulative>> }
           /\ m.cumulative["Entry"] <= venue["Entry"].filled
           /\ m.provisional <= m.cumulative["Entry"]
           /\ m.logical <= venue["Entry"].filled
           /\ leg = "Entry" => m.logical = 0
           /\ session.adopted => m.provisional = 0
           /\ ~EventsMayLag /\ leg # "Entry" => m.provisional = 0
<1> DEFINE delta == cumulative - mirror.cumulative[l]
           m == MirrorExecuted(l, cumulative, sequence)
<1>1. /\ mirror \in Mirrors /\ MirrorFollows
      /\ delta \in Int /\ delta > 0 /\ (l # "Entry" => delta <= mirror.logical)
      /\ mirror.cumulative \in [ Legs -> 0 .. Qty ] /\ mirror.sequence \in [ Legs -> Nat ]
      /\ mirror.provisional \in 0 .. Qty /\ mirror.logical \in 0 .. Qty
  BY DEF BooksInv, MirrorFollows, MirrorResult, Mirrors, Volumes
<1> DEFINE p == IF l = "Entry" THEN mirror.provisional + delta ELSE mirror.provisional
           q == IF l = "Entry" THEN mirror.logical ELSE mirror.logical - delta
           ks == mirror.keys \cup { <<l, cumulative>> }
           cs == [ mirror.cumulative EXCEPT ![l] = cumulative ]
           ss == [ mirror.sequence EXCEPT ![l] = sequence ]
<1>2. m = [ mirror EXCEPT !.provisional = p, !.logical = q, !.keys = ks,
                          !.cumulative = cs, !.sequence = ss ]
  BY DEF MirrorExecuted
<1> HIDE DEF m, p, q, ks, cs, ss
<1>3. m = [ provisional |-> p, logical |-> q, pending |-> mirror.pending,
            keys |-> ks, cumulative |-> cs, sequence |-> ss ]
  BY <1>1, <1>2 DEF Mirrors
<1> USE DEF p, q, ks, cs, ss
<1>4. /\ m.cumulative = [ mirror.cumulative EXCEPT ![l] = cumulative ]
      /\ m.sequence = [ mirror.sequence EXCEPT ![l] = sequence ]
      /\ m.keys = mirror.keys \cup { <<l, cumulative>> }
      /\ m.provisional = IF l = "Entry" THEN mirror.provisional + delta
                         ELSE mirror.provisional
      /\ m.logical = IF l = "Entry" THEN mirror.logical ELSE mirror.logical - delta
  BY <1>3
<1>5. m.cumulative["Entry"] = IF l = "Entry" THEN cumulative
                              ELSE mirror.cumulative["Entry"]
  BY <1>1, <1>4 DEF Legs
<1>6. /\ m.provisional \in 0 .. Qty /\ m.logical \in 0 .. Qty
      /\ m.provisional <= m.cumulative["Entry"]
  BY <1>1, <1>4, <1>5 DEF MirrorFollows, Legs
<1>7. m \in Mirrors
  <2>1. m.cumulative \in Volumes /\ m.sequence \in [ Legs -> Nat ]
    BY <1>1, <1>4 DEF Volumes
  <2>2. m.keys \subseteq Legs \X (1 .. Qty) /\ mirror.pending \in BOOLEAN
    BY <1>1, <1>4 DEF Mirrors
  <2> QED  BY <1>3, <1>6, <2>1, <2>2 DEF Mirrors
<1>8. m.cumulative["Entry"] <= venue["Entry"].filled
  BY <1>1, <1>5 DEF MirrorFollows
<1>9. m.logical <= venue["Entry"].filled /\ (leg = "Entry" => m.logical = 0)
  BY <1>1, <1>4 DEF MirrorFollows, Legs
<1>10. /\ session.adopted => m.provisional = 0
       /\ ~EventsMayLag /\ leg # "Entry" => m.provisional = 0
  BY <1>1, <1>4 DEF MirrorFollows
<1> QED  BY <1>4, <1>6, <1>7, <1>8, <1>9, <1>10 DEF m

\* What the controller witnesses is evidence.
LEMMA WitnessedEvidence ==
  ASSUME NEW ev \in Evidences, NEW verdict, NEW complete \in BOOLEAN,
         NEW implied \in BOOLEAN
  PROVE  Witnessed(ev, verdict, complete, implied) \in Evidences
BY DEF Witnessed, Evidences

\* A fill keeps the ledgers, and the mirror takes it as MirroredFill says.
LEMMA ExecutionKeeps ==
  ASSUME CoreInv, BooksInv, pc # "done", NEW l \in Legs,
         NEW cumulative \in 1 .. Qty, cumulative <= venue[l].filled,
         NEW sequence \in Nat, sequence > GatewaySequence, NEW direct \in BOOLEAN,
         HandleExecution(l, cumulative, sequence, direct),
         UNCHANGED <<venue, leg, lot, pc>>
  PROVE  /\ LedgersKeep'
         /\ \/ mirror' = mirror /\ fillKeys \subseteq fillKeys'
            \/ /\ mirror' = MirrorExecuted(l, cumulative, sequence)
               /\ MirrorResult(l, cumulative, sequence) = "Applied"
               /\ fillKeys' = fillKeys \cup { <<l, cumulative>> }
<1> DEFINE remaining == IF HasRecord(l) THEN records[l].requested - cumulative ELSE 0
           e == [ key |-> <<l, cumulative>>, ts |-> 0, seq |-> sequence,
                  cumulative |-> cumulative, remaining |-> remaining,
                  conforms |-> TRUE ]
           applied == HasRecord(l) /\ FillResult(records[l], fillKeys, e) = "Applied"
           implied == direct \/ records[l].state = "Submitted"
           tracked == applied /\ evidence[l].tracked
           verdict == MirrorResult(l, cumulative, sequence)
<1>1. /\ records' = IF applied THEN [ records EXCEPT ![l] = FillRecord(records[l], e) ]
                    ELSE records
      /\ fillKeys' = IF applied THEN fillKeys \cup { <<l, cumulative>> } ELSE fillKeys
      /\ engine' = IF ~applied \/ l \notin engine.active THEN engine
                   ELSE IF remaining = 0 THEN Inactive(engine, l)
                   ELSE [ engine EXCEPT !.pending[l] = remaining ]
      /\ evidence' = IF ~tracked THEN evidence
                     ELSE [ evidence EXCEPT ![l] =
                              Witnessed(evidence[l], verdict, remaining = 0, implied) ]
      /\ mirror' = IF tracked /\ verdict = "Applied"
                   THEN MirrorExecuted(l, cumulative, sequence) ELSE mirror
  BY DEF HandleExecution
<1>2. /\ e.ts = 0 /\ e.seq = sequence /\ e.cumulative = cumulative
      /\ e.remaining = remaining
  OBVIOUS
<1> HIDE DEF e, remaining, verdict, implied
<1>3. \/ mirror' = mirror /\ fillKeys \subseteq fillKeys'
      \/ /\ mirror' = MirrorExecuted(l, cumulative, sequence)
         /\ MirrorResult(l, cumulative, sequence) = "Applied"
         /\ fillKeys' = fillKeys \cup { <<l, cumulative>> }
  BY <1>1 DEF verdict
<1>4. evidence' \in [ Legs -> Evidences ]
  <2>1. evidence \in [ Legs -> Evidences ] /\ evidence[l] \in Evidences
    BY DEF BooksInv, EngineTyped
  <2>2. implied \in BOOLEAN /\ (remaining = 0) \in BOOLEAN
    BY DEF implied
  <2>3. Witnessed(evidence[l], verdict, remaining = 0, implied) \in Evidences
    BY <2>1, <2>2, WitnessedEvidence
  <2> QED  BY <1>1, <2>1, <2>3
<1>5. fillKeys' \subseteq Legs \X (1 .. Qty)
  BY <1>1 DEF BooksInv, RecordsTyped
<1>6. CASE ~applied
  BY <1>1, <1>3, <1>4, <1>6, LedgersStay
<1>7. CASE applied
  <2> DEFINE s == FillRecord(records[l], e)
  <2>1. l \in DOMAIN records /\ FillResult(records[l], fillKeys, e) = "Applied"
    BY <1>7 DEF HasRecord
  <2>2. e.remaining \in Int
    BY <1>2, <2>1, RecordOf DEF remaining, HasRecord, Records
  <2>3. /\ s \in Records /\ RecordSound(l, s) /\ remaining \in 0 .. Qty
        /\ s.state \in { "PartiallyFilled", "Filled" } /\ s.remaining = remaining
    BY <1>2, <2>1, <2>2, FilledRecord
  <2> HIDE DEF s
  <2>4. engine \in Engines /\ PendingFits(l)
    BY DEF BooksInv, EngineTyped, PendingFollowsRecords
  <2>5. records' = [ records EXCEPT ![l] = s ] /\ records'[l] = s
        /\ DOMAIN records' = DOMAIN records
    BY <1>1, <1>7, <2>1 DEF s
  <2>6. EngineTouches(l) /\ PendingFits(l)'
    <3>1. CASE l \notin engine.active
      BY <1>1, <2>1, <2>3, <2>4, <2>5, <3>1 DEF EngineTouches, PendingFits
    <3>2. CASE l \in engine.active /\ remaining = 0
      BY <1>1, <1>7, <3>2, InactiveTouches DEF PendingFits
    <3>3. CASE l \in engine.active /\ remaining # 0
      <4>1. /\ engine' = [ engine EXCEPT !.pending[l] = remaining ]
            /\ engine.pending \in [ Legs -> 0 .. Qty ]
        BY <1>1, <1>7, <2>4, <3>3 DEF Engines, Volumes
      <4>2. /\ engine'.pending = [ engine.pending EXCEPT ![l] = remaining ]
            /\ engine'.active = engine.active /\ engine' \in Engines
        BY <2>3, <2>4, <4>1 DEF Engines, Volumes
      <4> QED  BY <2>1, <2>3, <2>5, <3>3, <4>1, <4>2 DEF EngineTouches, PendingFits
    <3> QED  BY <3>1, <3>2, <3>3
  <2> QED  BY <1>3, <1>4, <1>5, <2>1, <2>3, <2>5, <2>6, ReplacingKeeps
<1> QED  BY <1>6, <1>7

\* The part of BooksInv that an event leaves to the session.
LEMMA EventFrame ==
  ASSUME CoreInv, BooksInv, pc # "done", UNCHANGED <<venue, controlVars>>,
         LedgersKeep', SessionSound', FillsTold', SnapshotComesLast', MirrorFollows'
  PROVE  BooksInv'
<1>1. LotsFit'
  BY DEF BooksInv, LotsFit, controlVars
<1>2. BooksAgreeOnSuccess'
  BY DEF BooksAgreeOnSuccess, CoreInv, ControlTyped, controlVars
<1> QED  BY <1>1, <1>2 DEF BooksInv, LedgersKeep

\* Every order event, applied, refused or ignored, keeps the books.
LEMMA ReceiveEventKeepsBooks ==
  ASSUME CoreInv, BooksInv, pc # "done", ReceiveEvent, UNCHANGED controlVars
  PROVE  BooksInv'
<1> DEFINE m == Head(wire)
           sequence == session.sequence + 1
<1>1. /\ wire # << >> /\ wire' = Tail(wire) /\ m.kind # "reply" /\ Accepted(m)
      /\ HandleEvent(m) /\ UNCHANGED <<venue, answer, leg, lot, pc>>
      /\ io' = io \/ io' = Idle
  BY DEF ReceiveEvent, Reading, controlVars
<1>2. m \in Message /\ m = wire[1] /\ 1 \in DOMAIN wire
  BY <1>1, ReadingShifts
<1>3. /\ sequence \in Nat /\ sequence > GatewaySequence
      /\ sequence >= FirstProviderSequence
      /\ session \in Sessions /\ session.accepted \subseteq session.known
      /\ session.cumulative \in [ Legs -> 0 .. Qty ]
      /\ session.adopted => session.mapped
  BY DEF BooksInv, SessionSound, Sessions, GatewaySequence, FirstProviderSequence,
         Volumes
<1> HIDE DEF m, sequence
<1>4. m.leg \in Legs /\ m.leg \in session.known
  BY <1>1, <1>2 DEF Accepted, Identified, Message
<1>5. FillsTold' /\ SnapshotComesLast'
  <2>1. Shifted(1)
    BY <1>1, WireShifts
  <2>2. ViewStays
    BY <1>1, NoViewYet DEF ViewStays, None
  <2> QED  BY <1>1, <2>1, <2>2, StaysLast DEF AnswerStays
<1>6. CASE Ignored(m)
  <2>1. UNCHANGED <<session, bookVars>>
    BY <1>1, <1>6 DEF HandleEvent
  <2>2. evidence \in [ Legs -> Evidences ]
    BY DEF BooksInv, EngineTyped
  <2>3. LedgersKeep'
    BY <1>1, <2>1, <2>2, LedgersStay DEF bookVars
  <2>4. MirrorFollows' /\ SessionSound'
    BY <1>1, <2>1 DEF BooksInv, MirrorFollows, SessionSound, bookVars
  <2> QED  BY <1>1, <1>5, <2>3, <2>4, EventFrame
<1>7. CASE ~Ignored(m) /\ m.kind # "fill"
  <2>1. /\ session' = [ session EXCEPT
                          !.sequence = sequence,
                          !.accepted = IF m.kind = "accept"
                                       THEN session.accepted \cup {m.leg}
                                       ELSE session.accepted \ {m.leg} ]
        /\ HandleAcknowledgement(m.leg, m.kind = "accept", sequence)
    BY <1>1, <1>7 DEF HandleEvent, sequence
  <2>2. (m.kind = "accept") \in BOOLEAN
    OBVIOUS
  <2>3. LedgersKeep' /\ UNCHANGED <<fillKeys, mirror>>
    BY <1>1, <1>3, <1>4, <2>1, <2>2, AcknowledgementKeeps
  <2>4. /\ SessionSound' /\ session'.mapped = session.mapped
        /\ session'.adopted = session.adopted
    BY <1>3, <1>4, <2>1 DEF SessionSound, Sessions
  <2>5. MirrorFollows'
    BY <1>1, <2>3, <2>4 DEF BooksInv, MirrorFollows
  <2> QED  BY <1>1, <1>5, <2>3, <2>4, <2>5, EventFrame
<1>8. CASE ~Ignored(m) /\ m.kind = "fill"
  <2> DEFINE direct == m.leg \notin session.accepted
  <2>1. /\ session' = [ session EXCEPT
                          !.sequence = sequence, !.mapped = TRUE,
                          !.accepted = session.accepted \cup {m.leg},
                          !.cumulative[m.leg] = m.cumulative ]
        /\ HandleExecution(m.leg, m.cumulative, sequence, direct)
    BY <1>1, <1>8 DEF HandleEvent, sequence
  <2>2. m.cumulative \in 1 .. Qty /\ m.cumulative <= venue[m.leg].filled
    BY <1>2, <1>8 DEF Message, BooksInv, FillsTold
  <2>3. direct \in BOOLEAN
    OBVIOUS
  <2> HIDE DEF direct
  <2>4. /\ LedgersKeep'
        /\ \/ mirror' = mirror /\ fillKeys \subseteq fillKeys'
           \/ /\ mirror' = MirrorExecuted(m.leg, m.cumulative, sequence)
              /\ MirrorResult(m.leg, m.cumulative, sequence) = "Applied"
              /\ fillKeys' = fillKeys \cup { <<m.leg, m.cumulative>> }
    BY <1>1, <1>3, <1>4, <2>1, <2>2, <2>3, ExecutionKeeps
  <2>5. /\ SessionSound' /\ session'.mapped /\ session'.adopted = session.adopted
    <3>1. m.cumulative \in 0 .. Qty
      BY <2>2
    <3>2. [ session.cumulative EXCEPT ![m.leg] = m.cumulative ] \in Volumes
      BY <1>3, <3>1 DEF Volumes
    <3> QED  BY <1>3, <1>4, <2>1, <3>2 DEF SessionSound, Sessions
  <2>6. /\ ~EventsMayLag /\ leg # "Entry" => m.leg # "Entry"
        /\ m.leg = "Entry" => ~session.adopted
    BY <1>2, <1>8 DEF BooksInv, SnapshotComesLast, EntryIsTold, Ignored
  <2>7. MirrorFollows'
    <3>1. CASE mirror' = mirror /\ fillKeys \subseteq fillKeys'
      BY <1>1, <2>5, <3>1 DEF BooksInv, MirrorFollows
    <3>2. CASE /\ mirror' = MirrorExecuted(m.leg, m.cumulative, sequence)
               /\ MirrorResult(m.leg, m.cumulative, sequence) = "Applied"
               /\ fillKeys' = fillKeys \cup { <<m.leg, m.cumulative>> }
      <4>1. \A k \in Legs : venue[k].filled \in Nat
        BY DEF CoreInv, VenueTyped, VenueOrder
      <4>2. /\ mirror' \in Mirrors
            /\ mirror'.keys = mirror.keys \cup { <<m.leg, m.cumulative>> }
            /\ mirror'.cumulative["Entry"] <= venue["Entry"].filled
            /\ mirror'.provisional <= mirror'.cumulative["Entry"]
            /\ mirror'.logical <= venue["Entry"].filled
            /\ leg = "Entry" => mirror'.logical = 0
            /\ session.adopted => mirror'.provisional = 0
            /\ ~EventsMayLag /\ leg # "Entry" => mirror'.provisional = 0
        BY <1>3, <1>4, <2>2, <2>6, <3>2, <4>1, MirroredFill
      <4> QED  BY <1>1, <2>5, <3>2, <4>2 DEF BooksInv, MirrorFollows
    <3> QED  BY <2>4, <3>1, <3>2
  <2> QED  BY <1>1, <1>5, <2>4, <2>5, <2>7, EventFrame
<1> QED  BY <1>6, <1>7, <1>8

--------------------------------------------------------------------------------
(***************************************************************************)
(* The controller's steps.                                                 *)
(***************************************************************************)

\* What the controller need not prove of the books.
LEMMA ControllerFrame ==
  ASSUME BooksInv, UNCHANGED <<venueVars, io, session>>,
         LedgersKeep', LotsFit', MirrorFollows', AnswerComesLast', EntryIsTold',
         BooksAgreeOnSuccess'
  PROVE  BooksInv'
<1> USE DEF BooksInv, venueVars
<1>1. SessionSound' /\ FillsTold'
  BY DEF SessionSound, FillsTold
<1>2. RepliesComeLast'
  BY DEF SnapshotComesLast, RepliesComeLast, Believed, AsksReconcile, NoFillAfter,
         Clear
<1> QED  BY <1>1, <1>2 DEF LedgersKeep, SnapshotComesLast

\* The mirror stays, or adopts a position that is there.
LEMMA MirrorStays ==
  ASSUME BooksInv, UNCHANGED <<venue, session, fillKeys, mirror, leg>>
  PROVE  MirrorFollows'
BY DEF BooksInv, MirrorFollows

\* A position that is adopted replaces what the fills opened.
LEMMA MirrorAdopts ==
  ASSUME CoreInv, BooksInv, AdoptSnapshot, UNCHANGED <<venue, session, fillKeys>>,
         answer.position <= venue["Entry"].filled,
         leg' = "Entry" => answer.position = 0
  PROVE  MirrorFollows'
<1>1. /\ mirror \in Mirrors
      /\ answer.position \in 0 .. Qty /\ answer.pending \in BOOLEAN
      /\ mirror' = [ mirror EXCEPT !.provisional = 0, !.logical = answer.position,
                                   !.pending = answer.pending ]
  BY DEF CoreInv, SessionTyped, Answers, BooksInv, MirrorFollows, AdoptSnapshot,
         MirrorReconciled
<1>2. /\ mirror' \in Mirrors /\ mirror'.keys = mirror.keys
      /\ mirror'.provisional = 0 /\ mirror'.logical = answer.position
      /\ mirror'.cumulative = mirror.cumulative
  <2>1. 0 \in 0 .. Qty
    OBVIOUS
  <2> QED  BY <1>1, <2>1 DEF Mirrors
<1>3. mirror'.cumulative["Entry"] \in Nat
  BY <1>1, <1>2 DEF Mirrors, Volumes, Legs
<1> QED  BY <1>2, <1>3 DEF BooksInv, MirrorFollows

\* The controller moves on, with the books as they are but for the mirror.
LEMMA MovingKeepsBooks ==
  ASSUME CoreInv, BooksInv, pc # "done",
         UNCHANGED <<venueVars, io, session, records, fillKeys, engine, leg, lot>>,
         evidence' \in [ Legs -> Evidences ], MirrorFollows',
         pc' = "asked" => ~answer'.ok, BooksAgreeOnSuccess',
         \/ pc' = "done"
         \/ /\ pc \notin { "idle", "start" } /\ pc' \notin { "idle", "start" }
            /\ pc = "judge" => engine.pending[leg] = 0
  PROVE  BooksInv'
<1> USE DEF BooksInv, venueVars
<1>1. RecordsTyped' /\ EngineTyped' /\ LotsFit'
  BY DEF RecordsTyped, EngineTyped, LotsFit
<1>2. RecordsFollowLegs'
  BY DEF RecordsFollowLegs
<1>3. RecordsSound'
  BY DEF RecordsSound, RecordSound
<1>4. PendingFollowsRecords'
  BY DEF PendingFollowsRecords, PendingFits
<1>5. AnswerComesLast'
  BY DEF AnswerComesLast, Clear
<1>6. EntryIsTold'
  BY DEF SnapshotComesLast, EntryIsTold
<1> QED  BY <1>1, <1>2, <1>3, <1>4, <1>5, <1>6, ControllerFrame DEF LedgersKeep

\* The books agree when nothing is concluded.
LEMMA NotSucceeded == ASSUME outcome' # "Succeeded" PROVE BooksAgreeOnSuccess'
BY DEF BooksAgreeOnSuccess

\* The run begins: no leg has a record.
LEMMA CommissionKeepsBooks ==
  ASSUME CoreInv, BooksInv, Commission PROVE BooksInv'
<1> USE DEF Commission, bookVars, sessionVars
<1>1. /\ pc = "idle" /\ leg = "Entry" /\ pc' = "start" /\ leg' = "Entry"
      /\ lot' = [ lot EXCEPT !["Entry"] = Qty ] /\ lot \in [ Legs -> 0 .. Qty ]
      /\ venue' = venue /\ venue["Entry"].asked = 0 /\ outcome' = outcome
  BY DEF CoreInv, LegsInTurn, ControlTyped, Volumes, venueVars
<1>2. DOMAIN records = {}
  BY <1>1 DEF BooksInv, RecordsFollowLegs
<1>3. RecordsTyped' /\ EngineTyped' /\ RecordsFollowLegs' /\ RecordsSound'
  BY <1>1, <1>2 DEF BooksInv, RecordsTyped, EngineTyped, RecordsFollowLegs, RecordsSound
<1>4. PendingFollowsRecords'
  BY <1>1, <1>2 DEF BooksInv, PendingFollowsRecords, PendingFits
<1>5. LotsFit'
  BY <1>1 DEF BooksInv, LotsFit, Legs
<1>6. MirrorFollows' /\ AnswerComesLast' /\ EntryIsTold'
  BY <1>1, MirrorStays DEF AnswerComesLast, EntryIsTold
<1>7. BooksAgreeOnSuccess'
  BY <1>1, NotSucceeded DEF CoreInv, ControlTyped
<1> QED  BY <1>3, <1>4, <1>5, <1>6, <1>7, ControllerFrame DEF LedgersKeep

\* A leg is dispatched: its record is new, and nothing is pending of it.
LEMMA DispatchCreatesKeepsBooks ==
  ASSUME CoreInv, BooksInv, DispatchCreates PROVE BooksInv'
<1> DEFINE created == NewRecord(lot[leg], 0, 1)
           checked == Stamped(created, At(2), "RiskChecked")
           stored == Stamped(checked, At(3), "Submitted")
<1>1. /\ pc = "start" /\ pc' = "send" /\ UNCHANGED <<leg, lot, outcome, venue>>
      /\ leg \in Legs /\ lot[leg] \in 1 .. Qty /\ outcome = "none"
      /\ UNCHANGED <<venueVars, io, session, fillKeys, mirror>>
      /\ records' = [ l \in DOMAIN records \cup { leg } |->
                        IF l = leg THEN stored ELSE records[l] ]
  BY DEF DispatchCreates, GoTo, CoreInv, ControlTyped, UnsentIsSized, Unsent,
         venueVars, sessionVars
<1>2. /\ leg \notin DOMAIN records /\ RecordsTyped
      /\ venue[leg].filled \in Nat
  BY <1>1 DEF BooksInv, RecordsFollowLegs, CoreInv, VenueTyped, VenueOrder
<1>3. PICK r \in Records :
      /\ r = stored /\ r.state = "Submitted" /\ r.lastSeq = 3 /\ r.filled = 0
      /\ r.requested = lot[leg] /\ r.remaining = lot[leg]
  <2>1. /\ created \in Records /\ created.filled = 0
        /\ created.requested = lot[leg] /\ created.remaining = lot[leg]
    BY <1>1 DEF NewRecord, Records, LifecycleStates, Unresolved
  <2> HIDE DEF created
  <2>2. /\ At(2).ts \in Nat /\ At(2).seq \in Nat
        /\ At(3).ts \in Nat /\ At(3).seq \in Nat /\ At(3).seq = 3
        /\ "RiskChecked" \in LifecycleStates /\ "Submitted" \in LifecycleStates
    BY DEF At, LifecycleStates
  <2>3. /\ checked \in Records /\ checked.filled = created.filled
        /\ checked.requested = created.requested
        /\ checked.remaining = created.remaining
    BY <2>1, <2>2, StampedRecord
  <2> HIDE DEF checked
  <2> QED  BY <2>1, <2>2, <2>3, StampedRecord
<1> HIDE DEF stored
<1>4. RecordSound(leg, r)'
  BY <1>1, <1>2, <1>3 DEF RecordSound, ReachedStates, GatewaySequence
<1>5. /\ DOMAIN records' = DOMAIN records \cup { leg } /\ records'[leg] = r
      /\ \A l \in DOMAIN records : records'[l] = records[l]
      /\ records' \in [ DOMAIN records' -> Records ]
  BY <1>1, <1>2, <1>3 DEF RecordsTyped
<1>6. RecordsTyped'
  BY <1>1, <1>2, <1>5 DEF RecordsTyped
<1>7. RecordsSound'
  <2>1. ASSUME NEW l \in DOMAIN records PROVE RecordSound(l, records[l])'
    BY <1>1, <1>5, <2>1 DEF BooksInv, RecordsSound, RecordSound
  <2>2. ASSUME NEW l \in Legs, l = leg PROVE RecordSound(l, records[l])'
    BY <1>1, <1>4, <1>5, <2>2 DEF RecordSound
  <2> QED  BY <1>1, <1>5, <2>1, <2>2 DEF RecordsSound
<1>8. RecordsFollowLegs'
  BY <1>1, <1>5 DEF BooksInv, RecordsFollowLegs
<1>9. EngineTyped'
  <2>1. engine' \in Engines
    BY <1>1 DEF DispatchCreates, BooksInv, EngineTyped, Engines
  <2>2. evidence' \in [ Legs -> Evidences ]
    BY <1>1 DEF DispatchCreates, BooksInv, EngineTyped, Evidences
  <2> QED  BY <2>1, <2>2 DEF EngineTyped
<1>10. PendingFollowsRecords'
  <2>1. engine'.pending = engine.pending /\ engine.active \subseteq engine'.active
    BY DEF DispatchCreates, BooksInv, EngineTyped, Engines
  <2>2. ASSUME NEW l \in Legs PROVE PendingFits(l)'
    BY <1>1, <1>5, <2>1, <2>2 DEF BooksInv, PendingFollowsRecords, PendingFits
  <2> QED  BY <2>2 DEF PendingFollowsRecords
<1>11. LotsFit' /\ AnswerComesLast' /\ EntryIsTold'
  BY <1>1 DEF BooksInv, LotsFit, AnswerComesLast, SnapshotComesLast, EntryIsTold,
     venueVars
<1> QED  BY <1>1, <1>6, <1>7, <1>8, <1>9, <1>10, <1>11, MirrorStays, NotSucceeded,
            ControllerFrame
         DEF LedgersKeep

\* A dispatch that failed marks only a record that heard of nothing.
LEMMA MarkDispatchFailedKeepsBooks ==
  ASSUME CoreInv, BooksInv, MarkDispatchFailed PROVE BooksInv'
<1> USE DEF venueVars, sessionVars
<1>1. /\ pc = "refused" /\ pc' = "forget" /\ UNCHANGED <<leg, lot, outcome>>
      /\ UNCHANGED <<venueVars, io, session, fillKeys, engine, evidence, mirror>>
      /\ leg \in DOMAIN records /\ outcome = "none"
  BY DEF MarkDispatchFailed, GoTo, BooksInv, RecordsFollowLegs, CoreInv, ControlTyped
<1>2. /\ leg \in Legs /\ records[leg] \in Records /\ RecordSound(leg, records[leg])
      /\ evidence \in [ Legs -> Evidences ] /\ engine \in Engines
      /\ fillKeys \subseteq Legs \X (1 .. Qty) /\ PendingFollowsRecords
  BY <1>1, RecordOf DEF BooksInv, EngineTyped, RecordsTyped
<1>3. PICK s \in Records :
        /\ records' = [ records EXCEPT ![leg] = s ] /\ RecordSound(leg, s)
        /\ \/ s = records[leg]
           \/ s.state = "Unknown" /\ records[leg].state = "Submitted"
  <2>1. CASE records' = records
    <3>1. records = [ records EXCEPT ![leg] = records[leg] ]
      BY DEF BooksInv, RecordsTyped
    <3> QED  BY <1>2, <2>1, <3>1
  <2>2. CASE /\ TransitionResult(records[leg], {}, At(4), "Unknown") = "Applied"
             /\ records' = [ records EXCEPT
                               ![leg] = Stamped(records[leg], At(4), "Unknown") ]
    <3>1. records[leg].lastSeq < 4
      BY <1>2, <2>2 DEF TransitionResult, EventIsOlder, At, Records, RecordSound
    <3>2. records[leg].state = "Submitted"
      BY <1>2, <2>2, <3>1
      DEF TransitionResult, CanTransition, RecordSound, GatewaySequence, Records
    <3>3. /\ At(4).ts \in Nat /\ At(4).seq \in Nat /\ At(4).seq = 4
          /\ "Unknown" \in LifecycleStates
      BY DEF At, LifecycleStates
    <3> DEFINE s == Stamped(records[leg], At(4), "Unknown")
    <3>4. /\ s \in Records /\ s.state = "Unknown" /\ s.lastSeq = 4
          /\ s.requested = records[leg].requested /\ s.filled = records[leg].filled
          /\ s.remaining = records[leg].remaining
      BY <1>2, <3>3, StampedRecord
    <3> HIDE DEF s
    <3>5. RecordSound(leg, s)
      BY <1>2, <3>2, <3>4 DEF RecordSound, ReachedStates
    <3> QED  BY <2>2, <3>2, <3>4, <3>5 DEF s
  <2> QED  BY <2>1, <2>2 DEF MarkDispatchFailed
<1>4. /\ DOMAIN records' = DOMAIN records /\ DOMAIN records \subseteq Legs
      /\ records' \in [ DOMAIN records' -> Records ] /\ records'[leg] = s
      /\ \A k \in DOMAIN records : k # leg => records'[k] = records[k]
  BY <1>1, <1>3, RecordReplaced DEF BooksInv
<1>5. RecordsTyped' /\ EngineTyped' /\ RecordsFollowLegs' /\ LotsFit'
  BY <1>1, <1>2, <1>4
  DEF RecordsTyped, EngineTyped, BooksInv, RecordsFollowLegs, LotsFit
<1>6. RecordsSound'
  <2>1. ASSUME NEW k \in DOMAIN records PROVE RecordSound(k, records[k])'
    <3>1. CASE k = leg
      BY <1>1, <1>3, <1>4, <3>1 DEF RecordSound
    <3>2. CASE k # leg
      BY <1>1, <1>4, <3>2 DEF BooksInv, RecordsSound, RecordSound
    <3> QED  BY <3>1, <3>2
  <2> QED  BY <1>4, <2>1 DEF RecordsSound
<1>7. PendingFollowsRecords'
  BY <1>1, <1>2, <1>3, <1>4 DEF PendingFollowsRecords, PendingFits
<1>8. AnswerComesLast' /\ EntryIsTold'
  BY <1>1 DEF AnswerComesLast, BooksInv, SnapshotComesLast, EntryIsTold
<1> QED  BY <1>1, <1>5, <1>6, <1>7, <1>8, MirrorStays, NotSucceeded, ControllerFrame
         DEF LedgersKeep

\* A context that is erased leaves what its leg has pending, to be judged next.
LEMMA ForgetContextKeepsBooks ==
  ASSUME CoreInv, BooksInv, ForgetContext PROVE BooksInv'
<1> USE DEF venueVars, sessionVars
<1>1. /\ pc = "forget" /\ pc' = "judge" /\ UNCHANGED <<leg, lot, outcome>>
      /\ UNCHANGED <<venueVars, io, session, records, fillKeys, evidence, mirror>>
      /\ engine' = [ engine EXCEPT !.active = engine.active \ { leg } ]
      /\ outcome = "none"
  BY DEF ForgetContext, GoTo, CoreInv, ControlTyped
<1>2. /\ engine' \in Engines /\ engine'.pending = engine.pending
      /\ engine'.active = engine.active \ { leg }
  BY <1>1 DEF BooksInv, EngineTyped, Engines
<1>3. RecordsTyped' /\ EngineTyped' /\ RecordsFollowLegs' /\ LotsFit' /\ RecordsSound'
  BY <1>1, <1>2
  DEF BooksInv, RecordsTyped, EngineTyped, RecordsFollowLegs, LotsFit, RecordsSound,
      RecordSound
<1>4. PendingFollowsRecords'
  BY <1>1, <1>2 DEF BooksInv, PendingFollowsRecords, PendingFits
<1>5. AnswerComesLast' /\ EntryIsTold'
  BY <1>1 DEF AnswerComesLast, BooksInv, SnapshotComesLast, EntryIsTold
<1> QED  BY <1>1, <1>3, <1>4, <1>5, MirrorStays, NotSucceeded, ControllerFrame
         DEF LedgersKeep

(***************************************************************************)
(* The entry is adopted.  The position is what the entry filled, the close *)
(* is as large, and no fill of the entry is under way any more.            *)
(***************************************************************************)
LEMMA EntryIsOpenKeepsBooks ==
  ASSUME CoreInv, BooksInv, EntryIsOpen PROVE BooksInv'
<1> USE DEF EntryIsOpen, Abandon, venueVars
<1>1. /\ pc = "asked" /\ leg = "Entry" /\ pc' = "start" /\ leg' = "Close"
      /\ answer.ok /\ ~answer.pending /\ answer.position \in 0 .. Qty
      /\ answer.position = Exposure /\ outcome' = outcome /\ outcome = "none"
      /\ lot' = [ lot EXCEPT !["Close"] = answer.position ]
      /\ lot \in [ Legs -> 0 .. Qty ] /\ venue \in [ Legs -> VenueOrder ]
      /\ venue["Close"].asked = 0
  BY AskedIsAnswered
  DEF OpenSnapshot, NextLeg, Reconciled, CoreInv, ControlTyped, Volumes, Legs,
      VenueTyped, LegsInTurn
<1>2. answer.position = venue["Entry"].filled
  BY <1>1, EntryAlone
<1>3. DOMAIN records = { "Entry" }
  BY <1>1 DEF BooksInv, RecordsFollowLegs
<1>4. RecordsTyped' /\ EngineTyped' /\ RecordsFollowLegs'
  BY <1>1, <1>3 DEF BooksInv, RecordsTyped, EngineTyped, RecordsFollowLegs
<1>5. RecordsSound'
  BY <1>1, <1>3 DEF BooksInv, RecordsSound, RecordSound, Legs
<1>6. PendingFollowsRecords'
  BY <1>1 DEF BooksInv, PendingFollowsRecords, PendingFits
<1>7. LotsFit'
  BY <1>1, <1>2 DEF BooksInv, LotsFit, Legs, VenueOrder
<1>8. MirrorFollows'
  <2>1. answer.position <= venue["Entry"].filled
    BY <1>1, <1>2
  <2> QED  BY <1>1, <2>1, MirrorAdopts
<1>9. EntryIsTold'
  <2>1. ASSUME ~EventsMayLag, NEW i \in DOMAIN wire PROVE wire[i].kind # "fill"
    <3>1. i \in Nat /\ i > 0
      BY DEF CoreInv, LinkTyped
    <3>2. NoFillAfter(0)
      BY <1>1, <2>1 DEF BooksInv, SnapshotComesLast, AnswerComesLast, Clear
    <3> QED  BY <3>1, <3>2 DEF NoFillAfter
  <2> QED  BY <2>1 DEF EntryIsTold
<1>10. AnswerComesLast'
  BY <1>1 DEF AnswerComesLast
<1> QED  BY <1>1, <1>4, <1>5, <1>6, <1>7, <1>8, <1>9, <1>10, NotSucceeded,
            ControllerFrame
         DEF LedgersKeep

(***************************************************************************)
(* A residue.  The snapshot shows what the close did not fill, because the *)
(* close was as large as the entry; so the filled part that is computed    *)
(* from the difference is what the venue filled.                           *)
(***************************************************************************)
LEMMA ResidueIsUnfilled ==
  ASSUME CoreInv, BooksInv, Residue
  PROVE  /\ leg = "Close" /\ pc = "asked" /\ outcome = "none"
         /\ answer.position \in 1 .. Qty /\ lot["Close"] \in 0 .. Qty
         /\ lot["Close"] - answer.position = venue["Close"].filled
         /\ venue["Residual"].asked = 0 /\ answer.position <= venue["Entry"].filled
<1>1. /\ leg = "Close" /\ pc = "asked" /\ answer.position \in 1 .. Qty
      /\ answer.position = Exposure
  BY AskedIsAnswered DEF Residue, Reconciled, OpenSnapshot, Legs
<1>2. /\ lot["Close"] = venue["Entry"].filled /\ lot["Close"] \in 0 .. Qty
      /\ venue["Residual"].asked = 0 /\ outcome = "none"
      /\ \A l \in Legs : venue[l].filled \in 0 .. Qty /\ venue[l].filled <= venue[l].asked
  BY <1>1 DEF BooksInv, LotsFit, CoreInv, LegsInTurn, ControlTyped, Volumes, Legs,
              VenueTyped, VenueOrder
<1>3. venue["Residual"].filled = 0
  BY <1>2 DEF Legs
<1> QED  BY <1>1, <1>2, <1>3 DEF Exposure, Legs

\* The record of the close is made unknown only when it has nothing pending.
LEMMA DoubtedRecord ==
  ASSUME BooksInv, NEW l \in DOMAIN records
  PROVE  LET d == Doubted(records[l]) IN
           /\ d \in Records /\ RecordSound(l, d) /\ d.requested = records[l].requested
           /\ d = records[l] \/ records[l].state \in { "Submitted", "Accepted" }
<1> DEFINE r == records[l]
           e == At(r.lastSeq + 1)
           s == Stamped(r, e, "Unknown")
<1>1. r \in Records /\ RecordSound(l, r)
  BY RecordOf
<1> HIDE DEF r
<1>2. CASE Doubted(r) = r
  BY <1>1, <1>2 DEF r
<1>3. CASE /\ r.state \notin { "PartiallyFilled", "Unknown", "Filled" }
           /\ TransitionResult(r, {}, e, "Unknown") = "Applied"
           /\ Doubted(r) = s
  <2>1. r.state \in { "Submitted", "Accepted" }
    BY <1>1, <1>3 DEF TransitionResult, CanTransition, RecordSound, ReachedStates
  <2>2. /\ e.ts \in Nat /\ e.seq \in Nat /\ e.seq = r.lastSeq + 1
        /\ "Unknown" \in LifecycleStates
    BY <1>1 DEF At, Records, LifecycleStates
  <2> HIDE DEF e
  <2>3. /\ s \in Records /\ s.state = "Unknown" /\ s.lastSeq = r.lastSeq + 1
        /\ s.requested = r.requested /\ s.filled = r.filled
        /\ s.remaining = r.remaining
    BY <1>1, <2>2, StampedRecord
  <2> HIDE DEF s
  <2>4. RecordSound(l, s)
    BY <1>1, <2>1, <2>3 DEF RecordSound, ReachedStates, Records
  <2> QED  BY <1>3, <2>1, <2>3, <2>4 DEF r
<1> QED  BY <1>2, <1>3 DEF Doubted

\* The close is made unknown, or reconciled with what it filled.
LEMMA CloseLeavesResidueKeepsBooks ==
  ASSUME CoreInv, BooksInv, CloseLeavesResidue PROVE BooksInv'
<1> USE DEF Abandon, venueVars
<1> DEFINE doubted == Doubted(records["Close"])
           filled == lot["Close"] - answer.position
           event == Resolution(doubted, filled, answer.position)
           settles == ReconcileResult(doubted, {}, event) = "Applied"
           goesOn == settles \/ doubted.state = "Filled"
           next == IF settles THEN ReconcileRecord(doubted, event) ELSE doubted
<1>1. /\ Residue /\ AdoptSnapshot /\ answer' = Pending /\ venue' = venue
      /\ UNCHANGED <<venueVars, io, session, fillKeys, evidence>>
      /\ records' = [ records EXCEPT !["Close"] = next ]
      /\ \/ goesOn /\ engine' = Inactive(engine, "Close") /\ NextLeg("Residual")
         \/ ~goesOn /\ engine' = engine /\ End("RecoveryRequired")
  BY DEF CloseLeavesResidue
<1>2. /\ leg = "Close" /\ pc = "asked" /\ outcome = "none"
      /\ answer.position \in 1 .. Qty /\ lot["Close"] \in 0 .. Qty
      /\ filled = venue["Close"].filled
      /\ venue["Residual"].asked = 0 /\ answer.position <= venue["Entry"].filled
  BY <1>1, ResidueIsUnfilled
<1>3. /\ "Close" \in DOMAIN records /\ venue["Close"] \in VenueOrder
      /\ engine \in Engines /\ lot \in [ Legs -> 0 .. Qty ]
      /\ venue \in [ Legs -> VenueOrder ]
  BY <1>2 DEF BooksInv, RecordsFollowLegs, CoreInv, VenueTyped, Legs, EngineTyped,
              ControlTyped, Volumes
<1>4. /\ doubted \in Records /\ RecordSound("Close", doubted)
      /\ doubted.requested = records["Close"].requested
      /\ doubted = records["Close"]
         \/ records["Close"].state \in { "Submitted", "Accepted" }
  BY <1>3, DoubtedRecord
<1>5. filled \in 0 .. Qty /\ filled + answer.position = lot["Close"]
  BY <1>2, <1>3 DEF VenueOrder
<1> HIDE DEF doubted, filled
<1>6. PICK s \in Records :
      /\ s = next
      /\ settles => /\ s.state = "Reconciled" /\ s.filled = filled
                    /\ s.remaining = answer.position /\ s.lastSeq = doubted.lastSeq + 1
                    /\ s.requested = doubted.requested
      /\ ~settles => s = doubted
  <2>1. /\ event.ts \in Nat /\ event.seq \in Nat /\ event.seq = doubted.lastSeq + 1
        /\ event.cumulative = filled /\ event.remaining = answer.position
        /\ event.resolved \in ResolvedStates /\ answer.position \in 0 .. Qty
    BY <1>2, <1>4, <1>5 DEF Resolution, ResolvedStates, Records
  <2> HIDE DEF event
  <2>2. LET x == ReconcileRecord(doubted, event) IN
          /\ x \in Records /\ x.state = "Reconciled" /\ x.lastSeq = event.seq
          /\ x.requested = doubted.requested
          /\ x.filled = event.cumulative /\ x.remaining = event.remaining
    BY <1>4, <1>5, <2>1, QuantifiedRecord
  <2> QED  BY <1>4, <2>1, <2>2
<1>7. settles => doubted.lastSeq > 0 /\ doubted.state # "Filled"
  BY <1>4
  DEF RecordSound, ReconcileResult, CanTransition, Resolution, TerminalStates
<1> HIDE DEF settles
<1>8. /\ DOMAIN records' = DOMAIN records /\ DOMAIN records \subseteq Legs
      /\ records' \in [ DOMAIN records' -> Records ] /\ records'["Close"] = s
      /\ \A k \in DOMAIN records : k # "Close" => records'[k] = records[k]
  BY <1>1, <1>3, <1>6, RecordReplaced DEF BooksInv
<1> HIDE DEF next
<1>9. \/ /\ goesOn /\ engine' = Inactive(engine, "Close")
         /\ leg' = "Residual" /\ pc' = "start" /\ outcome' = "none"
         /\ lot' = [ lot EXCEPT !["Residual"] = answer.position ]
      \/ /\ ~settles /\ engine' = engine
         /\ leg' = leg /\ pc' = "done" /\ outcome' = "RecoveryRequired" /\ lot' = lot
  BY <1>1, <1>2 DEF NextLeg, End
<1>10. DOMAIN records \subseteq { "Entry", "Close" } /\ "Entry" \in DOMAIN records
  BY <1>2 DEF BooksInv, RecordsFollowLegs
<1>11. RecordsTyped' /\ RecordsFollowLegs'
  BY <1>1, <1>2, <1>3, <1>8, <1>9, <1>10 DEF BooksInv, RecordsTyped, RecordsFollowLegs
<1>12. /\ lot'["Close"] = lot["Close"] /\ lot'["Entry"] = lot["Entry"]
       /\ settles => leg' = "Residual"
  BY <1>3, <1>9 DEF Legs
<1>13. RecordSound("Close", s)'
  <2>1. CASE settles
    <3>1. /\ s.requested = lot["Close"] /\ s.filled + s.remaining = s.requested
          /\ s.filled = venue["Close"].filled /\ s.lastSeq > 0
      BY <1>2, <1>4, <1>5, <1>6, <1>7, <2>1 DEF RecordSound, Records, GatewaySequence
    <3> QED  BY <1>1, <1>2, <1>6, <1>12, <2>1, <3>1
             DEF RecordSound, ReachedStates, Records, GatewaySequence, VenueOrder
  <2>2. CASE ~settles
    BY <1>1, <1>2, <1>4, <1>6, <1>12, <2>2 DEF RecordSound
  <2> QED  BY <2>1, <2>2
<1>14. RecordsSound'
  <2>1. ASSUME NEW k \in DOMAIN records PROVE RecordSound(k, records[k])'
    <3>1. CASE k = "Close"
      BY <1>8, <1>13, <3>1
    <3>2. CASE k # "Close"
      <4>1. /\ k = "Entry" /\ records'[k] = records[k]
            /\ RecordSound("Entry", records["Entry"])
        BY <1>8, <1>10, <3>2, RecordOf
      <4> QED  BY <1>1, <1>12, <4>1 DEF RecordSound
    <3> QED  BY <3>1, <3>2
  <2> QED  BY <1>8, <2>1 DEF RecordsSound
<1>15. EngineTyped'
  <2>1. engine' \in Engines
    BY <1>3, <1>9, InactiveTouches DEF EngineTouches, Legs
  <2> QED  BY <1>1, <2>1 DEF BooksInv, EngineTyped
<1>16. PendingFollowsRecords'
  <2>1. CASE goesOn /\ engine' = Inactive(engine, "Close") /\ pc' = "start"
    <3>1. EngineTouches("Close") /\ engine'.pending["Close"] = 0
      BY <2>1, InactiveTouches DEF Legs
    <3>2. ASSUME NEW l \in Legs, l # "Close" PROVE PendingFits(l)'
      <4>1. /\ engine'.pending[l] = engine.pending[l]
            /\ l \in engine.active => l \in engine'.active
        BY <3>1, <3>2 DEF EngineTouches
      <4>2. PendingFits(l)
        BY DEF BooksInv, PendingFollowsRecords
      <4> QED  BY <1>2, <1>8, <3>2, <4>1, <4>2 DEF PendingFits
    <3>3. PendingFits("Close")'
      BY <3>1 DEF PendingFits
    <3> QED  BY <3>2, <3>3 DEF PendingFollowsRecords
  <2>2. CASE ~settles /\ engine' = engine /\ pc' = "done"
    <3>1. ASSUME NEW l \in Legs PROVE PendingFits(l)'
      <4>1. PendingFits(l)
        BY DEF BooksInv, PendingFollowsRecords
      <4>2. CASE l = "Close"
        BY <1>4, <1>6, <1>8, <2>2, <4>1, <4>2 DEF PendingFits
      <4>3. CASE l # "Close"
        BY <1>8, <2>2, <4>1, <4>3 DEF PendingFits
      <4> QED  BY <4>2, <4>3
    <3> QED  BY <3>1 DEF PendingFollowsRecords
  <2> QED  BY <1>9, <2>1, <2>2
<1>17. LotsFit'
  <2>1. \/ lot'["Residual"] = lot["Residual"]
        \/ venue'["Residual"].asked = 0 /\ lot'["Residual"] = answer.position
    BY <1>1, <1>2, <1>3, <1>9 DEF Legs
  <2> QED  BY <1>1, <1>2, <1>12, <2>1 DEF BooksInv, LotsFit, Legs
<1>18. MirrorFollows'
  <2>1. leg' # "Entry"
    BY <1>2, <1>9
  <2> QED  BY <1>1, <1>2, <2>1, MirrorAdopts
<1>19. AnswerComesLast' /\ EntryIsTold' /\ BooksAgreeOnSuccess'
  BY <1>1, <1>2, <1>9
  DEF AnswerComesLast, BooksInv, SnapshotComesLast, EntryIsTold, BooksAgreeOnSuccess
<1> QED  BY <1>1, <1>11, <1>14, <1>15, <1>16, <1>17, <1>18, <1>19, ControllerFrame
         DEF LedgersKeep

\* The controller moves on, and none of the books changes.
LEMMA QuietMoveKeepsBooks ==
  ASSUME CoreInv, BooksInv, pc # "done",
         UNCHANGED <<venueVars, bookVars, io, session, leg, lot>>,
         outcome' # "Succeeded", pc' = "asked" => ~answer'.ok,
         \/ pc' = "done"
         \/ pc \notin { "idle", "start", "judge" } /\ pc' \notin { "idle", "start" }
  PROVE  BooksInv'
<1>1. /\ UNCHANGED <<venueVars, io, session, records, fillKeys, engine, leg, lot>>
      /\ UNCHANGED <<venue, mirror, evidence>>
  BY DEF bookVars, venueVars
<1>2. evidence' \in [ Legs -> Evidences ]
  BY <1>1 DEF BooksInv, EngineTyped
<1>3. MirrorFollows'
  BY <1>1, MirrorStays
<1> QED  BY <1>1, <1>2, <1>3, NotSucceeded, MovingKeepsBooks

\* What does not look at the books: refusals, waits and the ends of both.
LEMMA QuietStepsKeepBooks ==
  ASSUME CoreInv, BooksInv,
         Decline \/ DispatchRefused \/ AdapterSubmits \/ SubmitAnswered
           \/ SubmitTimesOut \/ WaitEnds \/ NotReconciled \/ NotFlat
  PROVE  BooksInv'
<1>1. CASE Decline
  BY <1>1, QuietMoveKeepsBooks DEF Decline, End, sessionVars
<1>2. CASE DispatchRefused
  BY <1>2, QuietMoveKeepsBooks DEF DispatchRefused, RefusedOutcome, End, sessionVars
<1>3. outcome # "Succeeded" \/ pc = "done"
  BY DEF CoreInv, ControlTyped
<1>4. CASE AdapterSubmits
  <2>1. pc' \in { "submitted", "refused" } /\ pc = "send"
        /\ UNCHANGED <<leg, lot, outcome>>
    BY <1>4 DEF AdapterSubmits, GoTo
  <2> QED  BY <1>3, <1>4, <2>1, QuietMoveKeepsBooks DEF AdapterSubmits
<1>5. CASE SubmitAnswered
  BY <1>3, <1>5, QuietMoveKeepsBooks DEF SubmitAnswered, GoTo
<1>6. CASE SubmitTimesOut
  BY <1>3, <1>6, QuietMoveKeepsBooks DEF SubmitTimesOut, GoTo
<1>7. CASE WaitEnds
  <2>1. pc = "wait" /\ (pc' = "asked" => answer' = Pending)
        /\ pc' \in { "asked", "done" } /\ UNCHANGED <<leg, lot>>
        /\ (outcome' = outcome \/ outcome' = "RecoveryRequired")
    BY <1>7 DEF WaitEnds, Enqueue
  <2>2. ~Pending.ok
    BY DEF Pending
  <2> QED  BY <1>3, <1>7, <2>1, <2>2, QuietMoveKeepsBooks DEF WaitEnds
<1>8. CASE NotReconciled
  BY <1>8, QuietMoveKeepsBooks DEF NotReconciled, End
<1>9. CASE NotFlat
  <2>1. pc = "asked"
    BY <1>9 DEF NotFlat, Reconciled
  <2> QED  BY <1>9, <2>1, QuietMoveKeepsBooks DEF NotFlat, End
<1> QED  BY <1>1, <1>2, <1>4, <1>5, <1>6, <1>7, <1>8, <1>9

\* An order whose fate is unknown has nothing pending.
LEMMA JudgeDispatchKeepsBooks ==
  ASSUME CoreInv, BooksInv, JudgeDispatch PROVE BooksInv'
<1>1. /\ pc = "judge" /\ outcome = "none" /\ leg \in DOMAIN records /\ leg \in Legs
      /\ UNCHANGED <<venueVars, io, session, records, fillKeys, engine, mirror,
                     leg, lot>>
      /\ UNCHANGED <<venue, session, fillKeys, mirror, leg>>
  BY DEF JudgeDispatch, End, GoTo, CoreInv, ControlTyped, BooksInv,
         RecordsFollowLegs, sessionVars, venueVars
<1>2. evidence' \in [ Legs -> Evidences ]
  BY <1>1 DEF JudgeDispatch, BooksInv, EngineTyped, Evidences
<1>3. MirrorFollows'
  BY <1>1, MirrorStays
<1>4. \/ pc' = "done"
      \/ pc' = "wait" /\ records[leg].state = "Unknown"
  BY DEF JudgeDispatch, End, GoTo
<1>5. engine.pending[leg] \in 0 .. Qty
  BY <1>1 DEF BooksInv, EngineTyped, Engines, Volumes
<1>6. pc' # "done" => engine.pending[leg] = 0
  BY <1>1, <1>4, <1>5 DEF BooksInv, PendingFollowsRecords, PendingFits
<1>7. outcome' # "Succeeded"
  BY <1>1 DEF JudgeDispatch, End, GoTo, RefusedOutcome
<1>8. BooksAgreeOnSuccess'
  BY <1>7, NotSucceeded
<1> QED  BY <1>1, <1>2, <1>3, <1>4, <1>6, <1>8, MovingKeepsBooks

\* The mirror adopts a flat account, or stays.
LEMMA FlatStepsKeepBooks ==
  ASSUME CoreInv, BooksInv, EntryIsNotOpen \/ CloseIsFlat \/ ResidualIsFlat
  PROVE  BooksInv'
<1> USE DEF EntryIsNotOpen, CloseIsFlat, ResidualIsFlat, FlatAfter, Reconciled, End, GoTo
<1>1. /\ pc = "asked" /\ pc' \in { "done", "conclude" }
      /\ UNCHANGED <<venueVars, io, session, records, fillKeys, engine, leg, lot>>
      /\ UNCHANGED <<venue, session, fillKeys, leg, evidence>>
      /\ outcome = "none"
  BY DEF venueVars, CoreInv, ControlTyped
<1>2. ASSUME mirror' = mirror PROVE MirrorFollows'
  BY <1>1, <1>2, MirrorStays
<1>3. ASSUME AdoptSnapshot, answer.position = 0 PROVE MirrorFollows'
  <2>1. 0 <= venue["Entry"].filled
    BY DEF CoreInv, VenueTyped, VenueOrder, Legs
  <2> QED  BY <1>1, <1>3, <2>1, MirrorAdopts
<1>4. MirrorFollows'
  BY <1>2, <1>3 DEF FlatSnapshot
<1>5. outcome' # "Succeeded"
  BY <1>1
<1>6. evidence' \in [ Legs -> Evidences ]
  BY <1>1 DEF BooksInv, EngineTyped
<1> QED  BY <1>1, <1>4, <1>5, <1>6, NotSucceeded, MovingKeepsBooks

(***************************************************************************)
(* Success.  A leg that is filled has no rest, so its record, its size and *)
(* what the venue filled are the same; a close that left a residue was     *)
(* reconciled with what it filled; and a leg that was not dispatched is    *)
(* not known anywhere.                                                     *)
(***************************************************************************)
LEMMA ConcludeKeepsBooks ==
  ASSUME CoreInv, BooksInv, Conclude PROVE BooksInv'
<1>1. /\ pc = "conclude" /\ pc' = "done"
      /\ UNCHANGED <<venueVars, bookVars, io, session, leg, lot>>
      /\ outcome' = "Succeeded" => Proven
  BY DEF Conclude, End, sessionVars
<1>2. CASE outcome' # "Succeeded"
  BY <1>1, <1>2, QuietMoveKeepsBooks
<1>3. CASE outcome' = "Succeeded"
  <2>1. /\ Proven /\ leg \in { "Close", "Residual" } /\ Exposure = 0
        /\ venue \in [ Legs -> VenueOrder ] /\ lot \in [ Legs -> 0 .. Qty ]
        /\ \A l \in Legs : venue[l].filled <= venue[l].asked
        /\ leg = "Close" => venue["Residual"].asked = 0
    BY <1>1, <1>3
    DEF Proven, CoreInv, ProofIsEarned, StillTrue, ControlTyped, Legs, VenueTyped,
        LegsInTurn, Volumes
  <2>2. Dispatched \subseteq DOMAIN records /\ Dispatched \subseteq Legs
    BY <1>1, <2>1 DEF Dispatched, BooksInv, RecordsFollowLegs, Legs
  <2>3. ASSUME NEW l \in Dispatched
        PROVE  venue[l].filled = records[l].filled /\ engine.pending[l] = 0
    <3>1. /\ l \in DOMAIN records /\ records[l] \in Records
          /\ RecordSound(l, records[l]) /\ venue[l] \in VenueOrder
          /\ lot[l] \in 0 .. Qty /\ venue[l].filled <= venue[l].asked
          /\ venue[l].asked <= lot[l]
      BY <2>1, <2>2, <2>3, RecordOf DEF BooksInv, LotsFit
    <3>2. /\ engine.pending[l] = 0
          /\ \/ records[l].state = "Filled"
             \/ l = "Close" /\ records[l].state = "Reconciled"
      BY <2>1, <2>3 DEF Proven
    <3>3. ASSUME records[l].state = "Filled" PROVE venue[l].filled = records[l].filled
      <4>1. /\ records[l].filled + records[l].remaining = lot[l]
            /\ records[l].remaining = 0 /\ records[l].filled <= venue[l].filled
        BY <3>1, <3>3 DEF RecordSound
      <4> QED  BY <3>1, <4>1 DEF Records, VenueOrder
    <3>4. ASSUME l = "Close", records[l].state = "Reconciled"
          PROVE  venue[l].filled = records[l].filled
      BY <3>1, <3>4 DEF RecordSound
    <3> QED  BY <3>2, <3>3, <3>4
  <2>4. ASSUME NEW l \in Legs, l \notin Dispatched
        PROVE  venue[l].filled = 0 /\ engine.pending[l] = 0 /\ ~HasRecord(l)
    <3>1. l = "Residual" /\ leg = "Close"
      BY <2>1, <2>4 DEF Dispatched, Legs
    <3>2. l \notin DOMAIN records
      BY <3>1 DEF BooksInv, RecordsFollowLegs
    <3>3. venue[l] \in VenueOrder /\ engine.pending[l] \in 0 .. Qty
          /\ venue[l].filled <= venue[l].asked
      BY <2>1 DEF BooksInv, EngineTyped, Engines, Volumes
    <3>4. engine.pending[l] = 0
      BY <3>2, <3>3 DEF BooksInv, PendingFollowsRecords, PendingFits
    <3> QED  BY <2>1, <3>1, <3>2, <3>3, <3>4 DEF VenueOrder, HasRecord
  <2>5. MirrorTotal = Exposure
    BY <2>1 DEF Proven, MirrorFlat, MirrorTotal
  <2>6. BooksAgreeOnSuccess'
    <3>1. \A l \in Legs :
            /\ venue[l].filled = IF HasRecord(l) THEN records[l].filled ELSE 0
            /\ engine.pending[l] = 0
      BY <2>2, <2>3, <2>4 DEF HasRecord
    <3>2. UNCHANGED <<venue, records, engine, mirror>>
      BY <1>1 DEF venueVars, bookVars
    <3> QED  BY <2>5, <3>1, <3>2
             DEF BooksAgreeOnSuccess, HasRecord, MirrorTotal, Exposure
  <2>7. MirrorFollows' /\ evidence' \in [ Legs -> Evidences ]
    BY <1>1, MirrorStays DEF venueVars, bookVars, BooksInv, EngineTyped
  <2> QED  BY <1>1, <2>6, <2>7, MovingKeepsBooks DEF bookVars
<1> QED  BY <1>2, <1>3

\* The controller's steps together.
LEMMA ControllerKeepsBooks ==
  ASSUME CoreInv, BooksInv, ControllerStep PROVE BooksInv'
BY QuietStepsKeepBooks, CommissionKeepsBooks, DispatchCreatesKeepsBooks,
   MarkDispatchFailedKeepsBooks, ForgetContextKeepsBooks, JudgeDispatchKeepsBooks,
   EntryIsOpenKeepsBooks, FlatStepsKeepBooks, CloseLeavesResidueKeepsBooks,
   ConcludeKeepsBooks
DEF ControllerStep

\* A step of any of the three keeps the books.
LEMMA BooksNext == CoreInv /\ BooksInv /\ [Next]_vars => BooksInv'
<1> SUFFICES ASSUME CoreInv, BooksInv, [Next]_vars PROVE BooksInv'
  OBVIOUS
<1>1. outcome = "none" => pc # "done"
  BY DEF CoreInv, ControlTyped
<1>2. CASE ControllerStep
  BY <1>2, ControllerKeepsBooks
<1>3. CASE outcome = "none" /\ SessionStep /\ UNCHANGED controlVars
  BY <1>1, <1>3, ReceiveEventKeepsBooks, OtherStepsKeepBooks
<1>4. CASE outcome = "none" /\ VenueStep /\ UNCHANGED <<bookVars, sessionVars, controlVars>>
  BY <1>1, <1>4, VenueKeepsBooks
<1>5. CASE UNCHANGED vars
  <2>1. /\ UNCHANGED <<venueVars, bookVars>> /\ UNCHANGED sessionVars
        /\ UNCHANGED controlVars
    BY <1>5 DEF vars
  <2>2. LedgersKeep'
    BY <2>1
    DEF LedgersKeep, BooksInv, RecordsTyped, EngineTyped, RecordsFollowLegs,
        RecordsSound, RecordSound, PendingFollowsRecords, PendingFits, bookVars,
        venueVars, controlVars
  <2>3. LotsFit' /\ MirrorFollows' /\ BooksAgreeOnSuccess'
    BY <2>1
    DEF BooksInv, LotsFit, MirrorFollows, BooksAgreeOnSuccess, MirrorTotal, Exposure,
        HasRecord, bookVars, venueVars, controlVars, sessionVars
  <2>4. AnswerComesLast' /\ EntryIsTold'
    BY <2>1
    DEF BooksInv, SnapshotComesLast, AnswerComesLast, EntryIsTold, NoFillAfter, Clear,
        venueVars, linkVars, controlVars, sessionVars
  <2> QED  BY <2>1, <2>2, <2>3, <2>4, ControllerFrame DEF sessionVars
<1> QED  BY <1>2, <1>3, <1>4, <1>5 DEF Next

--------------------------------------------------------------------------------
(***************************************************************************)
(* What follows for every run.                                             *)
(***************************************************************************)

\* The books are what BooksInv says in every state of every run.
THEOREM BooksHold == Spec => []BooksInv
BY BooksBegin, BooksNext, CoreHolds, PTL DEF Spec

\* A run that is over does nothing any more.
LEMMA DoneIsOver ==
  ASSUME CoreInv, [Next]_vars, pc = "done" PROVE UNCHANGED vars
<1>1. ~ControllerStep
  BY DEF ControllerStep, Decline, Commission, DispatchRefused, DispatchCreates,
      AdapterSubmits, SubmitAnswered, SubmitTimesOut, MarkDispatchFailed,
      ForgetContext, JudgeDispatch, WaitEnds, NotReconciled, EntryIsOpen,
      EntryIsNotOpen, CloseIsFlat, CloseLeavesResidue, ResidualIsFlat, NotFlat,
      Conclude, FlatAfter, Residue, Reconciled
<1>2. outcome # "none"
  BY DEF CoreInv, ControlTyped
<1> QED  BY <1>1, <1>2 DEF Next

\* What the controller left in the queue when it ended are commands still.
QueueLeft == pc = "done" => \A i \in DOMAIN commands : commands[i] \in Command

\* While the run goes on, what is queued is of this leg.
LEMMA QueueOfCommands ==
  ASSUME CoreInv, pc # "done" PROVE \A i \in DOMAIN commands : commands[i] \in Command
<1>1. (Unsent => LegSubmit \in Command) /\ LegReconcile \in Command
  BY LegCommands
<1>2. commands \in { << >>, << LegSubmit >>, << LegReconcile >>,
                     << LegSubmit, LegReconcile >> }
  BY DEF CoreInv, CommandsFollowControl, ControlTyped, Places, Quiet, Sending, Asking
<1> HIDE DEF LegSubmit, LegReconcile
<1>3. Head(<< LegSubmit >>) = LegSubmit /\ Head(<< LegSubmit, LegReconcile >>) = LegSubmit
  BY ShortQueues
<1>4. commands \in { << LegSubmit >>, << LegSubmit, LegReconcile >> } => Unsent
  BY <1>3 DEF Unsent
<1> QED  BY <1>1, <1>2, <1>4

\* A run that has ended leaves the queue as it was.
LEMMA QueueStays == CoreInv /\ QueueLeft /\ [Next]_vars => QueueLeft'
<1> SUFFICES ASSUME CoreInv, QueueLeft, [Next]_vars, pc' = "done"
             PROVE  (\A i \in DOMAIN commands : commands[i] \in Command)'
  BY DEF QueueLeft
<1>1. CASE pc = "done"
  BY <1>1, DoneIsOver DEF QueueLeft, vars, sessionVars
<1>2. CASE pc # "done"
  <2>1. commands' = commands
    <3>1. CASE ControllerStep
      BY <1>2, <3>1
      DEF ControllerStep, Decline, Commission, DispatchRefused, DispatchCreates,
          AdapterSubmits, SubmitAnswered, SubmitTimesOut, MarkDispatchFailed,
          ForgetContext, JudgeDispatch, WaitEnds, NotReconciled, EntryIsOpen,
          EntryIsNotOpen, CloseIsFlat, CloseLeavesResidue, ResidualIsFlat, NotFlat,
          Conclude, FlatAfter, GoTo, sessionVars
    <3>2. CASE ~ControllerStep
      BY <1>2, <3>2 DEF Next, controlVars, vars
    <3> QED  BY <3>1, <3>2
  <2> QED  BY <1>2, <2>1, QueueOfCommands
<1> QED  BY <1>1, <1>2

\* So the queue holds nothing else in any run.
LEMMA QueueHolds == Spec => []QueueLeft
<1>1. Init => QueueLeft
  BY DEF Init, QueueLeft
<1> QED  BY <1>1, QueueStays, CoreHolds, PTL DEF Spec

(***************************************************************************)
(* Every variable of the three actors keeps its type, the records, the     *)
(* engine's quantities and the mirror within the minimum volume among them.*)
(***************************************************************************)
THEOREM TypesHold == Spec => []TypeOK
<1>1. CoreInv /\ BooksInv /\ QueueLeft => TypeOK
  <2> SUFFICES ASSUME CoreInv, BooksInv, QueueLeft PROVE TypeOK
    OBVIOUS
  <2>1. /\ venue \in [ Legs -> VenueOrder ] /\ link \in BOOLEAN /\ drops \in 0 .. MaxDrops
        /\ \A i \in DOMAIN wire : wire[i] \in Message
        /\ \A i \in DOMAIN requests : requests[i] \in RequestKinds
    BY DEF CoreInv, VenueTyped, LinkTyped
  <2>2. /\ DOMAIN records \subseteq Legs /\ fillKeys \subseteq Legs \X (1 .. Qty)
        /\ \A l \in DOMAIN records :
             /\ records[l].state \in LifecycleStates
             /\ { records[l].requested, records[l].filled,
                  records[l].remaining } \subseteq 0 .. Qty
    BY DEF BooksInv, RecordsTyped, Records
  <2>3. /\ engine.active \subseteq Legs /\ engine.pending \in Volumes
        /\ \A l \in Legs : \A field \in DOMAIN NoEvidence : evidence[l][field] \in BOOLEAN
    BY DEF BooksInv, EngineTyped, Engines, Evidences, NoEvidence
  <2>4. /\ mirror.keys \subseteq fillKeys /\ mirror.cumulative \in Volumes
        /\ mirror.provisional \in 0 .. Qty /\ mirror.logical \in 0 .. Qty
    BY DEF BooksInv, MirrorFollows, Mirrors
  <2>5. \A i \in DOMAIN commands : commands[i] \in Command
    BY QueueOfCommands DEF QueueLeft
  <2>6. /\ connected \in BOOLEAN /\ awaiting \in Command /\ io.job \in Command
        /\ io.attempt \in 0 .. Attempts
        /\ io.mode \in { "loop", "read", "query", "recover", "down" }
        /\ DOMAIN answer = DOMAIN Pending /\ answer.position \in 0 .. Qty
    BY DEF CoreInv, SessionTyped, Answers, IOStates, Pending
  <2>7. /\ session.known \subseteq Legs /\ session.accepted \subseteq session.known
        /\ session.closing \in Legs /\ session.cumulative \in Volumes
    BY DEF BooksInv, SessionSound, Sessions
  <2>8. pc \in Places /\ leg \in Legs /\ lot \in Volumes /\ outcome \in Outcomes
    BY DEF CoreInv, ControlTyped
  <2> QED  BY <2>1, <2>2, <2>3, <2>4, <2>5, <2>6, <2>7, <2>8 DEF TypeOK
<1> QED  BY <1>1, CoreHolds, BooksHold, QueueHolds, PTL

(***************************************************************************)
(* What the engine has pending is what the record has left, on every path  *)
(* on which the run goes on.                                               *)
(***************************************************************************)
THEOREM PendingStaysTrue == Spec => []PendingIsRemaining
<1>1. CoreInv /\ BooksInv => PendingIsRemaining
  BY DEF CoreInv, BooksInv, PendingFollowsRecords, PendingFits, PendingIsRemaining,
         GoesOn, HasRecord
<1> QED  BY <1>1, CoreHolds, BooksHold, PTL

\* Once the entry is adopted, its fills do not count beside it.
THEOREM AdoptionStaysSingle == Spec => []AdoptionCountsOnce
<1>1. CoreInv /\ BooksInv => AdoptionCountsOnce
  BY DEF CoreInv, VenueTyped, VenueOrder, Legs, BooksInv, MirrorFollows, Mirrors,
         AdoptionCountsOnce, MirrorWithinVenue, MirrorTotal
<1> QED  BY <1>1, CoreHolds, BooksHold, PTL

(***************************************************************************)
(* On a connection that keeps the order of what the venue sends, the       *)
(* mirror never shows more than the entry brought in.  The assumption is   *)
(* needed: with events that lag a run of the checker violates it.          *)
(***************************************************************************)
THEOREM MirrorStaysWithin == ASSUME ~EventsMayLag PROVE Spec => []MirrorWithinVenue
<1>1. CoreInv /\ BooksInv => MirrorWithinVenue
  <2> SUFFICES ASSUME CoreInv, BooksInv PROVE MirrorWithinVenue
    OBVIOUS
  <2>1. /\ mirror.provisional \in Nat /\ mirror.logical \in Nat
        /\ mirror.cumulative["Entry"] \in Nat /\ venue["Entry"].filled \in Nat
    BY DEF CoreInv, VenueTyped, VenueOrder, Legs, BooksInv, MirrorFollows, Mirrors,
           Volumes
  <2>2. leg = "Entry" => mirror.logical = 0
    BY DEF BooksInv, MirrorFollows
  <2>3. leg # "Entry" => mirror.provisional = 0
    BY DEF BooksInv, MirrorFollows
  <2> QED  BY <2>1, <2>2, <2>3
           DEF BooksInv, MirrorFollows, MirrorWithinVenue, MirrorTotal
<1> QED  BY <1>1, CoreHolds, BooksHold, PTL

\* At success the records, the engine and the mirror agree with the venue.
THEOREM BooksStayInStep == Spec => []BooksAgreeOnSuccess
<1>1. BooksInv => BooksAgreeOnSuccess
  BY DEF BooksInv
<1> QED  BY <1>1, BooksHold, PTL

--------------------------------------------------------------------------------
(***************************************************************************)
(* What a record and a verdict can be traced to.  TraceInv adds to the     *)
(* books where each of their facts came from: an event is of an order that *)
(* was placed, a record that heard of one too, and an order that was       *)
(* rejected is gone.  While the connection has not dropped a dispatch that *)
(* failed placed nothing; and one that is judged left the state in which   *)
(* it was submitted, because the gateway's mark applies in that state.     *)
(***************************************************************************)
Refused(l) == ~Held(l) /\ venue[l].asked > 0 /\ venue[l].filled = 0

HeldIsUnfilled ==
  \A l \in Legs : /\ Held(l) => venue[l].filled < venue[l].asked
                  /\ New(l) => venue[l].filled = 0

EventsOfOrders ==
  \A i \in DOMAIN wire :
    /\ wire[i].kind # "reply" => venue[wire[i].leg].asked > 0
    /\ wire[i].kind = "reject" => Refused(wire[i].leg)

OrdersHaveRecords == \A l \in Legs : venue[l].asked > 0 => HasRecord(l)

TracedTo(l, r) ==
  /\ r.state \notin { "Submitted", "Unknown", "Reconciled" } => venue[l].asked > 0
  /\ r.state = "Rejected" => Refused(l)
  /\ r.state = "Submitted" => r.lastSeq < GatewaySequence

RecordsTraced == \A l \in DOMAIN records : TracedTo(l, records[l])

JudgedIsMarked == pc \in { "forget", "judge" } => records[leg].state # "Submitted"

DownIsOver ==
  io.mode = "down" => /\ ~connected /\ commands = << >>
                      /\ awaiting # None => answer.ready

Calm ==
  drops = 0 =>
    /\ ~io.recovering /\ (link \/ io.mode = "down")
    /\ io.mode = "query" => io.job.kind = "reconcile"

CalmEntry ==
  drops = 0 /\ leg = "Entry" =>
    /\ pc \in { "refused", "forget", "judge" } =>
         venue["Entry"].asked = 0 /\ commands = << >>
    /\ pc = "submitted" /\ ~answer.ok => venue["Entry"].asked = 0

TraceInv ==
  /\ HeldIsUnfilled /\ EventsOfOrders /\ OrdersHaveRecords /\ RecordsTraced
  /\ JudgedIsMarked /\ DownIsOver /\ Calm /\ CalmEntry
  /\ FailureShowsExposure

\* Nothing was heard of before the run begins.
LEMMA TraceBegins == Init => TraceInv
<1> SUFFICES ASSUME Init PROVE TraceInv
  OBVIOUS
<1> USE DEF Init, VenueInit, BooksInit, SessionInit
<1>1. HeldIsUnfilled /\ EventsOfOrders /\ OrdersHaveRecords
  BY DEF HeldIsUnfilled, EventsOfOrders, OrdersHaveRecords, Held, New
<1>2. RecordsTraced /\ JudgedIsMarked /\ FailureShowsExposure
  BY DEF RecordsTraced, JudgedIsMarked, FailureShowsExposure
<1>3. DownIsOver /\ Calm /\ CalmEntry
  BY DEF DownIsOver, Calm, CalmEntry, Idle
<1> QED  BY <1>1, <1>2, <1>3 DEF TraceInv

(***************************************************************************)
(* What an account does not take back: an order that was placed stays      *)
(* placed, one that was refused stays refused, and a new one is of this    *)
(* leg, after its record was made.                                         *)
(***************************************************************************)
OrdersStay ==
  \A l \in Legs :
    /\ venue[l].asked > 0 => venue'[l].asked > 0
    /\ Refused(l) => Refused(l)'
    /\ venue'[l].asked > 0 =>
         \/ venue[l].asked > 0
         \/ l = leg /\ pc \notin { "idle", "start", "send", "done" }

\* The order of each leg.
LEMMA OrderOf ==
  ASSUME CoreInv, NEW l \in Legs
  PROVE  /\ venue[l] \in VenueOrder /\ venue[l].filled <= venue[l].asked
         /\ venue[l].filled \in 0 .. Qty /\ venue[l].asked \in 0 .. Qty
BY DEF CoreInv, VenueTyped, VenueOrder, LegsInTurn

\* The order of the leg is placed, and no other is touched.
LEMMA PlacedOrder ==
  ASSUME CoreInv, Unsent, venue' = Placed(LegSubmit)
  PROVE  /\ leg \in Legs /\ venue'[leg].state = "new" /\ venue'[leg].asked = lot[leg]
         /\ venue'[leg].filled = 0 /\ lot[leg] \in 1 .. Qty
         /\ venue[leg].asked = 0 /\ NothingHeld
         /\ \A l \in Legs : l # leg => venue'[l] = venue[l]
<1>1. /\ leg \in Legs /\ venue \in [ Legs -> VenueOrder ] /\ NothingHeld
      /\ venue[leg].asked = 0 /\ lot[leg] \in 1 .. Qty
  BY DEF CoreInv, ControlTyped, VenueTyped, UnsentIsSized
<1>2. venue[leg] \in VenueOrder /\ venue[leg].filled = 0
  BY <1>1, OrderOf DEF VenueOrder
<1>3. venue' = [ venue EXCEPT ![leg].state = "new", ![leg].asked = lot[leg] ]
  BY DEF Placed, LegSubmit, Submit
<1> QED  BY <1>1, <1>2, <1>3 DEF VenueOrder

\* A step leaves what was placed or refused as it was.
LEMMA StepsKeepOrders ==
  ASSUME CoreInv, [Next]_vars, pc # "done" PROVE OrdersStay
<1>1. CASE venue' = venue
  BY <1>1 DEF OrdersStay, Refused, Held
<1>2. CASE SessionStep
  <2>1. CASE Unsent /\ venue' = Placed(LegSubmit) /\ pc \notin { "start", "send" }
    BY <2>1, PlacedOrder
    DEF OrdersStay, Refused, Held, CoreInv, CommandsFollowControl, Quiet, Unsent
  <2>2. TakeCommand => commands # << >>
    BY DEF TakeCommand
  <2>3. ~TakeCommand => venue' = venue
    BY <1>2
    DEF SessionStep, LoopReads, ReadTimesOut, ReadFindsLinkDown, ReceiveEvent,
        ReceiveReply, QueryCompletes, ReceiveUnexpected, SpotRefused, ReadFails,
        SessionEnds, QueryForgets, QueryTimesOut, QueryFindsLinkDown, Reconnect,
        ReconnectFails, RecoveryFails, venueVars
  <2> QED  BY <1>1, <1>2, <2>1, <2>2, <2>3, SessionPlaces
           DEF CoreInv, CommandsFollowControl, Quiet
<1>3. CASE VenueStep
  BY <1>3, VenueSettles, OrderOf DEF OrdersStay, Refused, Settles
<1>4. ControllerStep => venue' = venue
  BY ControllerReports
<1> QED  BY <1>1, <1>2, <1>3, <1>4 DEF Next, vars, venueVars

(***************************************************************************)
(* What a step may make of the record of a leg.  A record that changes     *)
(* keeps its fills, was not terminal and leaves the state in which it was  *)
(* submitted; what it says of the venue by then is true.                   *)
(***************************************************************************)
MovesOn(l, r, s) ==
  /\ r.filled <= s.filled
  /\ r.state \in TerminalStates => s = r
  /\ s = r \/
       /\ s.state # "Submitted"
       /\ s.state \notin { "Unknown", "Reconciled" } => venue[l].asked > 0
       /\ s.state = "Rejected" => Refused(l)

RecordsMove ==
  \A l \in DOMAIN records : HasRecord(l)' /\ MovesOn(l, records[l], records'[l])

\* A record that stays moves on.
LEMMA StayingMovesOn ==
  ASSUME BooksInv, NEW l \in DOMAIN records PROVE MovesOn(l, records[l], records[l])
<1>1. records[l] \in Records
  BY RecordOf
<1> QED  BY <1>1 DEF MovesOn, Records

\* So if one record is replaced by one that moves on, all do.
LEMMA ReplacedMovesOn ==
  ASSUME BooksInv, NEW l \in DOMAIN records, NEW s \in Records,
         MovesOn(l, records[l], s), records' = [ records EXCEPT ![l] = s ]
  PROVE  RecordsMove
<1>1. /\ DOMAIN records' = DOMAIN records /\ records'[l] = s
      /\ \A k \in DOMAIN records : k # l => records'[k] = records[k]
  BY RecordReplaced DEF BooksInv
<1> QED  BY <1>1, StayingMovesOn DEF RecordsMove, HasRecord

\* And if none is.
LEMMA UnreplacedMoveOn ==
  ASSUME BooksInv,
         \A l \in DOMAIN records : l \in DOMAIN records' /\ records'[l] = records[l]
  PROVE  RecordsMove
BY StayingMovesOn DEF RecordsMove, HasRecord

\* An acknowledgement moves the record of an order that was placed.
LEMMA AcknowledgementMoves ==
  ASSUME CoreInv, BooksInv, NEW l \in Legs, NEW accepted \in BOOLEAN,
         NEW sequence \in Nat, sequence > GatewaySequence,
         HandleAcknowledgement(l, accepted, sequence),
         venue[l].asked > 0, ~accepted => Refused(l)
  PROVE  RecordsMove
<1> DEFINE e == [ key |-> "fresh", ts |-> 0, seq |-> sequence,
                  accepted |-> accepted, identified |-> TRUE ]
           applied == l \in DOMAIN records /\ AckResult(records[l], {}, e) = "Applied"
           s == AckRecord(records[l], e)
<1>1. records' = IF applied THEN [ records EXCEPT ![l] = s ] ELSE records
  BY DEF HandleAcknowledgement, HasRecord
<1>2. e.ts = 0 /\ e.seq = sequence /\ e.ts \in Nat /\ e.accepted = accepted
  OBVIOUS
<1> HIDE DEF e
<1>3. CASE applied
  <2>1. records[l].state = "Submitted" /\ s \in Records
    BY <1>2, <1>3, AcknowledgedRecord
  <2>2. AckState(e) \in { "Accepted", "Rejected" } /\ AckState(e) \in LifecycleStates
        /\ (AckState(e) = "Rejected" => ~accepted)
    BY <1>2 DEF AckState, LifecycleStates
  <2>3. s.state = AckState(e) /\ s.filled = records[l].filled
    BY <1>2, <1>3, <2>2, RecordOf, StampedRecord DEF AckRecord
  <2>4. MovesOn(l, records[l], s)
    <3>1. records[l] \in Records
      BY <1>3, RecordOf
    <3> HIDE DEF s
    <3> QED  BY <2>1, <2>2, <2>3, <3>1 DEF MovesOn, Records, TerminalStates
  <2> HIDE DEF s
  <2> QED  BY <1>1, <1>3, <2>1, <2>4, ReplacedMovesOn
<1>4. CASE ~applied
  BY <1>1, <1>4, UnreplacedMoveOn
<1> QED  BY <1>3, <1>4

\* A fill moves a record that is not terminal, and never back.
LEMMA FillMoves ==
  ASSUME CoreInv, BooksInv, NEW l \in Legs, NEW cumulative \in 1 .. Qty,
         cumulative <= venue[l].filled, NEW sequence \in Nat,
         sequence > GatewaySequence, NEW direct \in BOOLEAN,
         HandleExecution(l, cumulative, sequence, direct), venue[l].asked > 0
  PROVE  RecordsMove
<1> DEFINE e == [ key |-> <<l, cumulative>>, ts |-> 0, seq |-> sequence,
                  cumulative |-> cumulative,
                  remaining |-> IF HasRecord(l)
                                THEN records[l].requested - cumulative ELSE 0,
                  conforms |-> TRUE ]
           applied == l \in DOMAIN records
                        /\ FillResult(records[l], fillKeys, e) = "Applied"
           s == FillRecord(records[l], e)
<1>1. records' = IF applied THEN [ records EXCEPT ![l] = s ] ELSE records
  BY DEF HandleExecution, HasRecord
<1>2. CASE applied
  <2>1. records[l] \in Records
    BY <1>2, RecordOf
  <2>2. /\ e.ts = 0 /\ e.seq = sequence /\ e.cumulative = cumulative
        /\ e.remaining \in Int
    BY <1>2, <2>1 DEF HasRecord, Records
  <2> HIDE DEF e
  <2>3. /\ s \in Records /\ e.remaining \in 0 .. Qty
        /\ s.state \in { "PartiallyFilled", "Filled" }
    BY <1>2, <2>2, FilledRecord
  <2>4. FillIsValid(records[l], e) /\ records[l].state \notin TerminalStates
    BY <1>2 DEF FillResult, TransitionResult, CanTransition
  <2>5. s.filled = e.cumulative /\ records[l].filled <= e.cumulative
    <3>1. e.ts \in Nat /\ e.cumulative \in 0 .. Qty /\ e.seq \in Nat
      BY <2>2
    <3> QED  BY <2>1, <2>3, <2>4, <3>1, QuantifiedRecord DEF FillIsValid
  <2> HIDE DEF s
  <2>6. MovesOn(l, records[l], s)
    BY <2>1, <2>3, <2>4, <2>5 DEF MovesOn
  <2> QED  BY <1>1, <1>2, <2>3, <2>6, ReplacedMovesOn
<1>3. CASE ~applied
  BY <1>1, <1>3, UnreplacedMoveOn
<1> QED  BY <1>2, <1>3

\* An event the session receives, whatever it is.
LEMMA EventMoves ==
  ASSUME CoreInv, BooksInv, EventsOfOrders, pc # "done", ReceiveEvent
  PROVE  RecordsMove
<1> DEFINE m == Head(wire)
           sequence == session.sequence + 1
<1>1. /\ wire # << >> /\ wire' = Tail(wire) /\ m.kind # "reply"
      /\ Accepted(m) /\ HandleEvent(m)
  BY DEF ReceiveEvent, Reading
<1>2. m \in Message /\ m = wire[1] /\ 1 \in DOMAIN wire
  BY <1>1, ReadingShifts
<1>3. sequence \in Nat /\ sequence > GatewaySequence
  BY DEF BooksInv, SessionSound, Sessions, GatewaySequence, FirstProviderSequence
<1> HIDE DEF m, sequence
<1>4. /\ m.leg \in Legs /\ venue[m.leg].asked > 0
      /\ m.kind = "reject" => Refused(m.leg)
  BY <1>1, <1>2 DEF Message, EventsOfOrders
<1>5. CASE Ignored(m)
  BY <1>1, <1>5, UnreplacedMoveOn DEF HandleEvent, bookVars
<1>6. CASE ~Ignored(m) /\ m.kind # "fill"
  <2>1. HandleAcknowledgement(m.leg, m.kind = "accept", sequence)
    BY <1>1, <1>6 DEF HandleEvent, sequence
  <2>2. (m.kind = "accept") \in BOOLEAN /\ (m.kind # "accept" => m.kind = "reject")
    BY <1>1, <1>2, <1>6 DEF Message
  <2> QED  BY <1>3, <1>4, <2>1, <2>2, AcknowledgementMoves
<1>7. CASE ~Ignored(m) /\ m.kind = "fill"
  <2>1. HandleExecution(m.leg, m.cumulative, sequence, m.leg \notin session.accepted)
    BY <1>1, <1>7 DEF HandleEvent, sequence
  <2>2. m.cumulative \in 1 .. Qty /\ m.cumulative <= venue[m.leg].filled
    BY <1>2, <1>7 DEF Message, BooksInv, FillsTold
  <2>3. (m.leg \notin session.accepted) \in BOOLEAN
    OBVIOUS
  <2> QED  BY <1>3, <1>4, <2>1, <2>2, <2>3, FillMoves
<1> QED  BY <1>5, <1>6, <1>7

\* A dispatch that failed marks only what is still submitted.
LEMMA MarkMoves ==
  ASSUME CoreInv, BooksInv, RecordsTraced, MarkDispatchFailed
  PROVE  RecordsMove /\ records'[leg].state # "Submitted"
<1> DEFINE s == Stamped(records[leg], At(4), "Unknown")
           applied == TransitionResult(records[leg], {}, At(4), "Unknown") = "Applied"
<1>1. leg \in DOMAIN records
  BY DEF MarkDispatchFailed, BooksInv, RecordsFollowLegs
<1>2. /\ records[leg] \in Records /\ RecordSound(leg, records[leg])
      /\ TracedTo(leg, records[leg])
  BY <1>1, RecordOf DEF RecordsTraced
<1>3. /\ At(4).ts \in Nat /\ At(4).seq \in Nat /\ "Unknown" \in LifecycleStates
      /\ At(4).seq = 4 /\ At(4).key \notin {}
  BY DEF At, LifecycleStates
<1>4. records' = IF applied THEN [ records EXCEPT ![leg] = s ] ELSE records
  BY DEF MarkDispatchFailed
<1>5. s \in Records /\ s.state = "Unknown" /\ s.filled = records[leg].filled
  BY <1>2, <1>3, StampedRecord
<1> HIDE DEF s
<1>6. CASE applied
  <2>1. records[leg].state \notin TerminalStates
    BY <1>6 DEF TransitionResult, CanTransition
  <2>2. MovesOn(leg, records[leg], s)
    BY <1>2, <1>5, <2>1 DEF MovesOn, Records
  <2>3. records'[leg] = s
    BY <1>1, <1>4, <1>6
  <2> QED  BY <1>1, <1>4, <1>5, <1>6, <2>2, <2>3, ReplacedMovesOn
<1>7. CASE ~applied
  <2>1. records[leg].state # "Submitted"
    BY <1>2, <1>3, <1>7
    DEF TransitionResult, EventIsOlder, CanTransition, TerminalStates, TracedTo,
        RecordSound, GatewaySequence, Records
  <2> QED  BY <1>4, <1>7, <2>1, UnreplacedMoveOn
<1> QED  BY <1>6, <1>7

\* A close that is doubted keeps its fills.
LEMMA DoubtMoves ==
  ASSUME BooksInv, NEW l \in DOMAIN records
  PROVE  LET d == Doubted(records[l]) IN
           d \in Records /\ d.filled = records[l].filled /\ MovesOn(l, records[l], d)
<1> DEFINE r == records[l]
           e == At(r.lastSeq + 1)
           s == Stamped(r, e, "Unknown")
<1>1. r \in Records /\ MovesOn(l, r, r)
  BY RecordOf, StayingMovesOn
<1>2. /\ e.ts \in Nat /\ e.seq \in Nat /\ "Unknown" \in LifecycleStates
  BY <1>1 DEF At, Records, LifecycleStates
<1>3. \/ Doubted(r) = r
      \/ TransitionResult(r, {}, e, "Unknown") = "Applied" /\ Doubted(r) = s
  BY DEF Doubted
<1> HIDE DEF r, e
<1>4. s \in Records /\ s.state = "Unknown" /\ s.filled = r.filled
  BY <1>1, <1>2, StampedRecord
<1> HIDE DEF s
<1>5. TransitionResult(r, {}, e, "Unknown") = "Applied" => r.state \notin TerminalStates
  BY DEF TransitionResult, CanTransition
<1>6. TransitionResult(r, {}, e, "Unknown") = "Applied" => MovesOn(l, r, s)
  BY <1>1, <1>4, <1>5 DEF MovesOn, Records
<1> QED  BY <1>1, <1>3, <1>4, <1>6 DEF r

(***************************************************************************)
(* A residue puts the close to rest with what the venue filled, which is   *)
(* no less than what its record was told.                                  *)
(***************************************************************************)
LEMMA ResidueMoves ==
  ASSUME CoreInv, BooksInv, CloseLeavesResidue PROVE RecordsMove
<1> DEFINE r == records["Close"]
           doubted == Doubted(r)
           filled == lot["Close"] - answer.position
           event == Resolution(doubted, filled, answer.position)
           settles == ReconcileResult(doubted, {}, event) = "Applied"
           x == ReconcileRecord(doubted, event)
<1>1. /\ Residue
      /\ records' = [ records EXCEPT !["Close"] = IF settles THEN x ELSE doubted ]
  BY DEF CloseLeavesResidue
<1>2. /\ leg = "Close" /\ pc = "asked" /\ answer.position \in 1 .. Qty
      /\ filled = venue["Close"].filled
  BY <1>1, ResidueIsUnfilled
<1>3. "Close" \in DOMAIN records /\ filled \in 0 .. Qty
  BY <1>2, OrderOf DEF BooksInv, RecordsFollowLegs, Legs
<1>4. r \in Records /\ RecordSound("Close", r)
  BY <1>3, RecordOf
<1>5. doubted \in Records /\ doubted.filled = r.filled /\ MovesOn("Close", r, doubted)
  BY <1>3, DoubtMoves
<1> HIDE DEF r, doubted, filled
<1>6. /\ event.ts \in Nat /\ event.seq \in Nat /\ event.cumulative = filled
      /\ event.remaining = answer.position /\ event.resolved \in ResolvedStates
      /\ answer.position \in 0 .. Qty
  BY <1>2, <1>3, <1>5 DEF Resolution, ResolvedStates, Records
<1> HIDE DEF event
<1>7. x \in Records /\ x.state = "Reconciled" /\ x.filled = filled
  BY <1>3, <1>5, <1>6, QuantifiedRecord
<1> HIDE DEF x
<1>8. settles => doubted.state \notin TerminalStates
  BY DEF ReconcileResult, CanTransition
<1> HIDE DEF settles
<1>9. settles => MovesOn("Close", r, x)
  BY <1>2, <1>4, <1>5, <1>7, <1>8 DEF MovesOn, RecordSound
<1> QED  BY <1>1, <1>3, <1>5, <1>7, <1>9, ReplacedMovesOn DEF r

\* A dispatch gives its leg a record, and touches no other.
LEMMA DispatchMoves ==
  ASSUME CoreInv, BooksInv, DispatchCreates
  PROVE  /\ RecordsMove /\ leg' = leg /\ pc = "start" /\ pc' = "send"
         /\ DOMAIN records' = DOMAIN records \cup { leg }
         /\ records'[leg].state = "Submitted" /\ records'[leg].lastSeq = 3
<1> DEFINE stored == Stamped(Stamped(NewRecord(lot[leg], 0, 1), At(2), "RiskChecked"),
                             At(3), "Submitted")
<1>1. /\ pc = "start" /\ pc' = "send" /\ leg' = leg /\ leg \in Legs
      /\ records' = [ l \in DOMAIN records \cup { leg } |->
                        IF l = leg THEN stored ELSE records[l] ]
  BY DEF DispatchCreates, GoTo, CoreInv, ControlTyped
<1>2. stored.state = "Submitted" /\ stored.lastSeq = 3
  BY DEF Stamped, NewRecord, At
<1> HIDE DEF stored
<1>3. leg \notin DOMAIN records
  BY <1>1 DEF BooksInv, RecordsFollowLegs
<1>4. RecordsMove
  BY <1>1, <1>3, UnreplacedMoveOn
<1> QED  BY <1>1, <1>2, <1>4

\* What any step makes of the records.
LEMMA StepsMoveRecords ==
  ASSUME CoreInv, BooksInv, EventsOfOrders, RecordsTraced, [Next]_vars, pc # "done"
  PROVE  /\ RecordsMove
         /\ DOMAIN records' = DOMAIN records \/ DispatchCreates
<1>1. CASE DispatchCreates
  BY <1>1, DispatchMoves
<1>2. CASE MarkDispatchFailed
  <2>1. DOMAIN records' = DOMAIN records
    BY <1>2 DEF MarkDispatchFailed
  <2> QED  BY <1>2, <2>1, MarkMoves
<1>3. CASE CloseLeavesResidue
  <2>1. DOMAIN records' = DOMAIN records
    BY <1>3 DEF CloseLeavesResidue
  <2> QED  BY <1>3, <2>1, ResidueMoves
<1>4. CASE ReceiveEvent
  <2>1. DOMAIN records' = DOMAIN records
    BY <1>4 DEF ReceiveEvent, HandleEvent, HandleAcknowledgement, HandleExecution, bookVars
  <2> QED  BY <1>4, <2>1, EventMoves
<1>5. CASE records' = records
  BY <1>5, UnreplacedMoveOn
<1>6. SessionStep => ReceiveEvent \/ records' = records
  BY DEF SessionStep, TakeCommand, LoopReads, ReadTimesOut, ReceiveReply,
         QueryCompletes, ReceiveUnexpected, SpotRefused, ReadFails, SessionEnds,
         QueryFails, QueryTimesOut, QueryFindsLinkDown, ReadFindsLinkDown, Reconnect,
         ReconnectFails, RecoveryFails, bookVars
<1>7. ControllerStep =>
        \/ DispatchCreates \/ MarkDispatchFailed \/ CloseLeavesResidue
        \/ records' = records
  BY DEF ControllerStep, Decline, Commission, DispatchRefused, AdapterSubmits,
         SubmitAnswered, SubmitTimesOut, ForgetContext, JudgeDispatch, WaitEnds,
         NotReconciled, EntryIsOpen, EntryIsNotOpen, CloseIsFlat, FlatAfter,
         ResidualIsFlat, NotFlat, Conclude, bookVars
<1> QED  BY <1>1, <1>2, <1>3, <1>4, <1>5, <1>6, <1>7 DEF Next, vars, bookVars

\* What a record is traced to stays.
LEMMA RecordsStayTraced ==
  ASSUME CoreInv, BooksInv, EventsOfOrders, RecordsTraced, [Next]_vars, pc # "done"
  PROVE  RecordsTraced'
<1>1. RecordsMove /\ (DOMAIN records' = DOMAIN records \/ DispatchCreates) /\ OrdersStay
  BY StepsMoveRecords, StepsKeepOrders
<1>2. ASSUME NEW l \in DOMAIN records PROVE TracedTo(l, records[l])'
  BY <1>1, <1>2, RecordOf
  DEF RecordsMove, MovesOn, RecordsTraced, TracedTo, OrdersStay
<1>3. ASSUME NEW l \in DOMAIN records', l \notin DOMAIN records
      PROVE  TracedTo(l, records[l])'
  BY <1>1, <1>3, DispatchMoves DEF TracedTo, GatewaySequence
<1> QED  BY <1>2, <1>3 DEF RecordsTraced

\* An order that is placed is of a leg that has its record.
LEMMA OrdersKeepRecords ==
  ASSUME CoreInv, BooksInv, EventsOfOrders, RecordsTraced, OrdersHaveRecords,
         [Next]_vars, pc # "done"
  PROVE  OrdersHaveRecords'
<1>1. RecordsMove /\ OrdersStay
  BY StepsMoveRecords, StepsKeepOrders
<1> QED  BY <1>1 DEF OrdersHaveRecords, OrdersStay, RecordsMove, HasRecord, BooksInv,
                     RecordsFollowLegs

(***************************************************************************)
(* The venue's side of TraceInv.                                           *)
(***************************************************************************)

\* An order that is held has something left, and a new one has no fills.
LEMMA HeldStaysUnfilled ==
  ASSUME CoreInv, HeldIsUnfilled, [Next]_vars, pc # "done" PROVE HeldIsUnfilled'
<1> USE DEF HeldIsUnfilled, Held, New
<1>1. CASE venue' = venue
  BY <1>1
<1>2. ASSUME NEW l \in Legs, NEW n \in 1 .. Qty, VenueFill(l, n) PROVE HeldIsUnfilled'
  <2>1. venue[l] \in VenueOrder /\ venue \in [ Legs -> VenueOrder ]
    BY DEF CoreInv, VenueTyped
  <2>2. /\ venue'[l].asked = venue[l].asked /\ venue'[l].filled = venue[l].filled + n
        /\ venue'[l].filled <= venue[l].asked
        /\ venue'[l].state = IF venue'[l].filled = venue[l].asked
                              THEN "closed" ELSE "working"
        /\ \A k \in Legs : k # l => venue'[k] = venue[k]
    BY <1>2, <2>1 DEF VenueFill, VenueOrder
  <2> QED  BY <2>1, <2>2 DEF VenueOrder
<1>3. ASSUME NEW l \in Legs, VenueAccept(l) \/ VenueReject(l) \/ VenueDropsRest(l)
      PROVE  HeldIsUnfilled'
  <2>1. venue \in [ Legs -> VenueOrder ]
    BY DEF CoreInv, VenueTyped
  <2> QED  BY <1>3, <2>1 DEF VenueAccept, VenueReject, VenueDropsRest, VenueOrder
<1>4. CASE LinkDrops
  <2>1. PICK lost \in SUBSET { l \in Legs : New(l) } :
          venue' = [ l \in Legs |-> IF l \in lost
                                    THEN [ venue[l] EXCEPT !.state = "closed" ]
                                    ELSE venue[l] ]
    BY <1>4 DEF LinkDrops
  <2>2. venue \in [ Legs -> VenueOrder ]
    BY DEF CoreInv, VenueTyped
  <2> QED  BY <2>1, <2>2 DEF VenueOrder
<1>5. VenueStep => HeldIsUnfilled'
  BY <1>1, <1>2, <1>3, <1>4 DEF VenueStep, VenueReplies, ReplyOvertakes
<1>6. CASE Unsent /\ venue' = Placed(LegSubmit)
  BY <1>6, PlacedOrder
<1>7. (SessionStep => venue' = venue \/ (Unsent /\ venue' = Placed(LegSubmit)))
      /\ (ControllerStep => venue' = venue)
  BY SessionPlaces, ControllerReports
<1> QED  BY <1>1, <1>5, <1>6, <1>7 DEF Next, vars, venueVars

\* An event that joins the wire is of an order that was placed.
LEMMA EventJoins ==
  ASSUME CoreInv, EventsOfOrders, OrdersStay, NEW m \in Message, Emit(m),
         m.kind # "reply" => venue'[m.leg].asked > 0,
         m.kind = "reject" => Refused(m.leg)'
  PROVE  EventsOfOrders'
<1>1. \A i \in DOMAIN wire : wire[i] \in Message
  BY DEF CoreInv, LinkTyped
<1>2. \A i \in DOMAIN wire' :
        wire'[i] = m \/ (i \in DOMAIN wire /\ wire'[i] = wire[i])
  BY JoiningWire DEF Emit
<1> QED  BY <1>1, <1>2 DEF EventsOfOrders, OrdersStay, Message

\* What was on the wire is still told truly.
LEMMA EventsStay ==
  ASSUME CoreInv, EventsOfOrders, OrdersStay,
         \A i \in DOMAIN wire' : wire'[i].kind # "reply" =>
           \E j \in DOMAIN wire : wire'[i] = wire[j]
  PROVE  EventsOfOrders'
<1>1. \A i \in DOMAIN wire : wire[i] \in Message
  BY DEF CoreInv, LinkTyped
<1> QED  BY <1>1 DEF EventsOfOrders, OrdersStay, Message

\* The venue tells of nothing but the orders it was sent.
LEMMA VenueTellsOfOrders ==
  ASSUME CoreInv, HeldIsUnfilled, EventsOfOrders, OrdersStay, VenueStep
  PROVE  EventsOfOrders'
<1>1. ASSUME NEW l \in Legs, Held(l) PROVE venue[l].asked > 0
  BY <1>1, OrderOf DEF HeldIsUnfilled
<1>2. ASSUME NEW l \in Legs, VenueAccept(l) PROVE EventsOfOrders'
  <2> DEFINE m == [ kind |-> "accept", leg |-> l ]
  <2>1. m \in Message /\ m.kind = "accept" /\ m.leg = l
    BY DEF Message
  <2>2. Emit(m) /\ Held(l)
    BY <1>2 DEF VenueAccept, New, Held
  <2> HIDE DEF m
  <2> QED  BY <1>1, <2>1, <2>2, EventJoins DEF OrdersStay
<1>3. ASSUME NEW l \in Legs, VenueReject(l) PROVE EventsOfOrders'
  <2> DEFINE m == [ kind |-> "reject", leg |-> l ]
  <2>1. m \in Message /\ m.kind = "reject" /\ m.leg = l
    BY DEF Message
  <2>2. Emit(m) /\ Held(l) /\ New(l) /\ venue' = [ venue EXCEPT ![l].state = "closed" ]
    BY <1>3 DEF VenueReject, New, Held
  <2>3. venue \in [ Legs -> VenueOrder ] /\ venue[l].filled = 0 /\ venue[l].asked > 0
    BY <1>1, <2>2 DEF CoreInv, VenueTyped, HeldIsUnfilled
  <2>4. Refused(l)'
    BY <2>2, <2>3 DEF Refused, Held, VenueOrder
  <2> HIDE DEF m
  <2> QED  BY <2>1, <2>2, <2>4, EventJoins DEF Refused
<1>4. ASSUME NEW l \in Legs, NEW n \in 1 .. Qty, VenueFill(l, n) PROVE EventsOfOrders'
  <2> DEFINE m == [ kind |-> "fill", leg |-> l, cumulative |-> venue[l].filled + n ]
  <2>1. venue[l].filled + n \in 1 .. Qty
    BY <1>4, OrderOf DEF VenueFill
  <2>2. m \in Message /\ m.kind = "fill" /\ m.leg = l
    BY <2>1 DEF Message
  <2>3. Emit(m) /\ Held(l)
    BY <1>4 DEF VenueFill
  <2> HIDE DEF m
  <2> QED  BY <1>1, <2>2, <2>3, EventJoins DEF OrdersStay
<1>5. CASE VenueReplies
  <2>1. PICK m \in Message : m.kind = "reply" /\ Emit(m)
    BY <1>5, AnswerIsMessage DEF VenueReplies
  <2> QED  BY <2>1, EventJoins
<1>6. CASE ReplyOvertakes
  <2>1. PICK k \in 1 .. Len(wire) - 1 :
          wire' = [ wire EXCEPT ![k] = wire[k + 1], ![k + 1] = wire[k] ]
    BY <1>6 DEF ReplyOvertakes
  <2>2. \A i \in DOMAIN wire' : \E j \in DOMAIN wire : wire'[i] = wire[j]
    BY <2>1 DEF CoreInv, LinkTyped
  <2> QED  BY <2>2, EventsStay
<1>7. CASE LinkDrops \/ \E l \in Legs : VenueDropsRest(l)
  BY <1>7, EventsStay DEF LinkDrops, VenueDropsRest
<1> QED  BY <1>2, <1>3, <1>4, <1>5, <1>6, <1>7 DEF VenueStep

\* The session adds nothing to the wire, and turns only replies into late ones.
LEMMA SessionTellsNothing ==
  ASSUME CoreInv, SessionStep
  PROVE  \A i \in DOMAIN wire' : wire'[i].kind # "reply" =>
           \E j \in DOMAIN wire : wire'[i] = wire[j]
<1> DEFINE Told(w) == \A i \in DOMAIN w : \E j \in DOMAIN wire : w[i] = wire[j]
<1>1. Told(wire) /\ Told(<< >>) /\ (wire # << >> => Told(Tail(wire)))
  <2>1. wire \in Seq(Message)
    BY DEF CoreInv, LinkTyped
  <2>2. wire # << >> => Told(Tail(wire))
    BY <2>1, TakingFrom
  <2> QED  BY <2>2
<1>2. ASSUME NEW unread, Told(unread), QueryForgets(unread)
      PROVE  \A i \in DOMAIN wire' : wire'[i].kind # "reply" =>
               \E j \in DOMAIN wire : wire'[i] = wire[j]
  BY <1>2 DEF QueryForgets, Late
<1>3. SessionStep =>
        \/ Told(wire')
        \/ QueryForgets(wire) \/ (wire # << >> /\ QueryForgets(Tail(wire)))
  <2> HIDE DEF Told
  <2> QED
    BY <1>1
    DEF SessionStep, TakeCommand, SubmitRefused, SubmitSent, SubmitAmbiguous,
        QueryStarts, LoopReads, ReadTimesOut, ReadFindsLinkDown, ReceiveEvent,
        ReceiveReply, QueryCompletes, ReceiveUnexpected, SpotRefused, ReadFails,
        SessionEnds, QueryTimesOut, QueryFindsLinkDown, Reconnect, ReconnectFails,
        RecoveryFails, venueVars, linkVars, Reading
<1> QED  BY <1>1, <1>2, <1>3

\* So whatever is on the wire is of an order that was placed.
LEMMA EventsStayOfOrders ==
  ASSUME CoreInv, HeldIsUnfilled, EventsOfOrders, [Next]_vars, pc # "done"
  PROVE  EventsOfOrders'
<1>1. OrdersStay
  BY StepsKeepOrders
<1>2. ControllerStep => wire' = wire
  BY DEF ControllerStep, Decline, Commission, DispatchRefused, DispatchCreates,
     AdapterSubmits, SubmitAnswered, SubmitTimesOut, MarkDispatchFailed,
     ForgetContext, JudgeDispatch, WaitEnds, NotReconciled, EntryIsOpen,
     EntryIsNotOpen, CloseIsFlat, FlatAfter, CloseLeavesResidue, ResidualIsFlat,
     NotFlat, Conclude, venueVars
<1>3. wire' = wire => EventsOfOrders'
  BY <1>1, EventsStay
<1>4. SessionStep => EventsOfOrders'
  BY <1>1, SessionTellsNothing, EventsStay
<1>5. VenueStep => EventsOfOrders'
  BY <1>1, VenueTellsOfOrders
<1> QED  BY <1>2, <1>3, <1>4, <1>5 DEF Next, vars, venueVars

(***************************************************************************)
(* The thread's side.                                                      *)
(***************************************************************************)

\* Where the thread is put.
LEMMA ThreadStates ==
  /\ Idle.mode = "loop" /\ ~Idle.recovering
  /\ \A mode \in { "read", "down" } :
       [ Idle EXCEPT !.mode = mode ].mode = mode
         /\ ~[ Idle EXCEPT !.mode = mode ].recovering
  /\ \A job, retried : /\ QueryIO(job, retried).mode = "query"
                       /\ QueryIO(job, retried).job = job
                       /\ ~QueryIO(job, retried).recovering
  /\ \A job, attempt : RecoverIO(job, attempt).mode = "recover"
<1>1. ~Idle.recovering
  BY DEF Idle
<1>2. Idle \in IOStates /\ Idle.mode = "loop"
  BY IdleStates
<1> HIDE DEF Idle
<1> QED  BY <1>1, <1>2 DEF QueryIO, RecoverIO, IOStates

\* A session that is down does nothing any more, and only ends that way.
LEMMA SessionGoesDown ==
  ASSUME CoreInv, SessionStep
  PROVE  io.mode # "down" /\ (io'.mode = "down" => SessionEnds)
<1>1. io.mode # "down"
  BY DEF SessionStep, TakeCommand, LoopReads, ReadTimesOut, ReceiveEvent, ReceiveReply,
         Reading, ReceiveUnexpected, SpotRefused, QueryTimesOut, QueryFindsLinkDown,
         ReadFindsLinkDown, Reconnect, ReconnectFails, RecoveryFails
<1>2. io \in IOStates
  BY DEF CoreInv, SessionTyped
<1>3. \/ io' = io \/ io' = Idle \/ io' = [ Idle EXCEPT !.mode = "read" ]
      \/ SessionEnds
      \/ \E job, retried : io' = QueryIO(job, retried)
      \/ \E job, attempt : io' = RecoverIO(job, attempt)
      \/ io' = [ io EXCEPT !.mode = "query" ]
      \/ io' = [ io EXCEPT !.stage = "pnl", !.view = ViewOf(Head(wire)) ]
  <2>1. \A value : FinishJob(value) => io' = Idle
    BY DEF FinishJob
  <2>2. \A position : QueryCompletes(position) =>
           \/ io' = Idle \/ \E job, attempt : io' = RecoverIO(job, attempt)
           \/ \E job, retried : io' = QueryIO(job, retried)
    BY <2>1 DEF QueryCompletes
  <2>3. \A dropped : QueryFails(dropped) =>
           io' = Idle \/ \E job, attempt : io' = RecoverIO(job, attempt)
    BY <2>1 DEF QueryFails
  <2> QED
    BY <2>1, <2>2, <2>3
    DEF SessionStep, TakeCommand, SubmitRefused, SubmitSent, SubmitAmbiguous,
        QueryStarts, LoopReads, ReadTimesOut, ReadFindsLinkDown, ReceiveEvent,
        ReceiveReply, ReceiveUnexpected, SpotRefused, ReadFails, QueryTimesOut,
        QueryFindsLinkDown, Reconnect, ReconnectFails, RecoveryFails
<1>4. /\ [ io EXCEPT !.mode = "query" ].mode = "query"
      /\ [ io EXCEPT !.stage = "pnl", !.view = ViewOf(Head(wire)) ].mode = io.mode
  BY <1>2 DEF IOStates
<1>5. io'.mode = "down" => io' = io \/ SessionEnds \/ io'.mode = io.mode
  <2>1. \A job, attempt : RecoverIO(job, attempt).mode # "down"
    BY ThreadStates
  <2>2. \A job, retried : QueryIO(job, retried).mode # "down"
    BY ThreadStates
  <2>3. Idle.mode # "down" /\ [ Idle EXCEPT !.mode = "read" ].mode # "down"
    BY ThreadStates
  <2> HIDE DEF Idle
  <2> QED  BY <1>3, <1>4, <2>1, <2>2, <2>3
<1> QED  BY <1>1, <1>5

\* What is down answers everything and takes nothing.
LEMMA DownStaysOver ==
  ASSUME CoreInv, DownIsOver, [Next]_vars, pc # "done" PROVE DownIsOver'
<1>1. CASE UNCHANGED <<io, connected, commands, awaiting, answer>>
  BY <1>1 DEF DownIsOver
<1>2. SessionStep => DownIsOver'
  <2>1. SessionEnds =>
          ~connected' /\ commands' = << >> /\ (awaiting' # None => answer'.ready)
    BY PromiseValues DEF SessionEnds
  <2> QED  BY <2>1, SessionGoesDown DEF DownIsOver
<1>3. ControllerStep => DownIsOver'
  <2>1. ControllerStep =>
          /\ UNCHANGED <<io, connected>>
          /\ \/ UNCHANGED <<commands, awaiting, answer>>
             \/ commands' = commands /\ awaiting' = None
             \/ connected
    BY DEF ControllerStep, Decline, Commission, DispatchRefused, DispatchCreates,
       AdapterSubmits, SubmitAnswered, SubmitTimesOut, MarkDispatchFailed,
       ForgetContext, JudgeDispatch, WaitEnds, NotReconciled, EntryIsOpen,
       EntryIsNotOpen, CloseIsFlat, FlatAfter, CloseLeavesResidue, ResidualIsFlat,
       NotFlat, Conclude, sessionVars, Abandon
  <2> QED  BY <2>1 DEF DownIsOver
<1> QED  BY <1>1, <1>2, <1>3 DEF Next, vars, sessionVars

(***************************************************************************)
(* While the connection has not dropped by itself, the thread does not     *)
(* recover it, and so no submission fails half-way.                        *)
(***************************************************************************)
LEMMA CalmSession ==
  ASSUME CoreInv, Calm, drops = 0, SessionStep PROVE Calm'
<1>1. io \in IOStates /\ (io.mode = "recover" => io.recovering) /\ ~io.recovering
  BY DEF CoreInv, SessionTyped, ThreadIsWhereItIs, Calm
<1>2. link \/ io.mode = "down"
  BY DEF Calm
<1>3. SessionEnds => Calm'
  BY ThreadStates DEF SessionEnds, Calm
<1>4. ASSUME link' = link, io'.mode # "query", ~io'.recovering, link PROVE Calm'
  BY <1>4 DEF Calm
<1>5. FinishJob(Failure) /\ link' = link /\ link => Calm'
  BY <1>4, ThreadStates DEF FinishJob
<1>6. CASE TakeCommand
  <2>1. io.mode = "loop" /\ link /\ drops' = drops
    BY <1>2, <1>6
    DEF TakeCommand, SubmitRefused, SubmitSent, SubmitAmbiguous, QueryStarts, venueVars,
        linkVars
  <2>2. \/ io' = io /\ link' = link
        \/ /\ link' = link /\ Head(commands).kind = "reconcile"
           /\ io' = QueryIO(Head(commands), FALSE)
    BY <1>6, <2>1
    DEF TakeCommand, SubmitRefused, SubmitSent, SubmitAmbiguous, QueryStarts, venueVars,
        linkVars
  <2>3. LET s == QueryIO(Head(commands), FALSE) IN
          s.mode = "query" /\ s.job = Head(commands) /\ ~s.recovering
    BY ThreadStates
  <2> QED  BY <1>1, <2>1, <2>2, <2>3 DEF Calm
<1>7. CASE LoopReads \/ ReadTimesOut \/ ReceiveEvent
  <2>1. \/ io' = Idle \/ io' = [ Idle EXCEPT !.mode = "read" ] \/ io' = io
    BY <1>7 DEF LoopReads, ReadTimesOut, ReceiveEvent
  <2>2. link' = link /\ link /\ drops' = drops
    BY <1>2, <1>7 DEF LoopReads, ReadTimesOut, ReceiveEvent, Reading, venueVars, linkVars
  <2> QED  BY <1>1, <2>1, <2>2, ThreadStates DEF Calm
<1>8. CASE ReceiveReply
  <2>1. io.mode = "query" /\ link
    BY <1>2, <1>8 DEF ReceiveReply, Expected
  <2>2. CASE io' = [ io EXCEPT !.stage = "pnl", !.view = ViewOf(Head(wire)) ] /\ link' = link
    BY <1>1, <2>1, <2>2 DEF Calm, IOStates
  <2>3. ASSUME NEW position, QueryCompletes(position) PROVE Calm'
    <3>1. io' = Idle /\ link' = link
      BY <1>1, <2>3 DEF QueryCompletes, FinishJob, linkVars
    <3> QED  BY <1>4, <2>1, <3>1, ThreadStates
  <2> QED  BY <1>8, <2>2, <2>3 DEF ReceiveReply, linkVars
<1>9. ASSUME NEW unread, io.mode \in { "read", "query" }, ReadFails(unread) PROVE Calm'
  <2>1. CASE SessionEnds
    BY <1>3, <2>1
  <2>2. CASE QueryForgets(unread) /\ QueryFails(FALSE)
    BY <1>1, <1>2, <1>5, <1>9, <2>2 DEF QueryForgets, QueryFails, linkVars
  <2> QED  BY <1>9, <2>1, <2>2 DEF ReadFails
<1>10. CASE ReceiveUnexpected \/ SpotRefused
  BY <1>9, <1>10 DEF ReceiveUnexpected, SpotRefused, Reading
<1>11. CASE QueryTimesOut
  BY <1>1, <1>2, <1>5, <1>11 DEF QueryTimesOut, QueryForgets, QueryFails, linkVars
<1>12. CASE QueryFindsLinkDown \/ ReadFindsLinkDown
  BY <1>2, <1>12 DEF QueryFindsLinkDown, ReadFindsLinkDown
<1>13. CASE Reconnect \/ ReconnectFails \/ RecoveryFails
  BY <1>1, <1>13 DEF Reconnect, ReconnectFails, RecoveryFails
<1> QED  BY <1>6, <1>7, <1>8, <1>10, <1>11, <1>12, <1>13 DEF SessionStep

\* Of the venue's steps only a drop touches the connection.
LEMMA VenueDropsLink ==
  ASSUME VenueStep PROVE UNCHANGED <<link, drops>> \/ drops' = drops + 1
<1>1. ASSUME NEW l \in Legs
      PROVE  /\ VenueAccept(l) \/ VenueReject(l) \/ VenueDropsRest(l)
                  => UNCHANGED linkVars
             /\ \A n \in 1 .. Qty : VenueFill(l, n) => UNCHANGED linkVars
  BY DEF VenueAccept, VenueReject, VenueFill, VenueDropsRest
<1>2. VenueReplies \/ ReplyOvertakes => UNCHANGED linkVars
  BY DEF VenueReplies, ReplyOvertakes
<1>3. LinkDrops => drops' = drops + 1
  BY DEF LinkDrops
<1> QED  BY <1>1, <1>2, <1>3 DEF VenueStep, linkVars

\* The session does not count drops, and the venue only counts them up.
LEMMA DropsCountUp ==
  ASSUME CoreInv, [Next]_vars PROVE drops' = 0 => drops = 0
<1>1. SessionStep => drops' = drops
  BY DEF SessionStep, TakeCommand, SubmitRefused, SubmitSent, SubmitAmbiguous,
         QueryStarts, LoopReads, ReadTimesOut, ReadFindsLinkDown, ReceiveEvent,
         ReceiveReply, QueryCompletes, ReceiveUnexpected, SpotRefused, ReadFails,
         SessionEnds, QueryForgets, QueryTimesOut, QueryFindsLinkDown, Reconnect,
         ReconnectFails, RecoveryFails, venueVars, linkVars
<1>2. ControllerStep => drops' = drops
  BY DEF ControllerStep, Decline, Commission, DispatchRefused, DispatchCreates,
     AdapterSubmits, SubmitAnswered, SubmitTimesOut, MarkDispatchFailed,
     ForgetContext, JudgeDispatch, WaitEnds, NotReconciled, EntryIsOpen,
     EntryIsNotOpen, CloseIsFlat, FlatAfter, CloseLeavesResidue, ResidualIsFlat,
     NotFlat, Conclude, venueVars, linkVars
<1>3. VenueStep => drops' = drops \/ drops' = drops + 1
  BY VenueDropsLink
<1>4. drops \in Nat
  BY DEF CoreInv, LinkTyped
<1> QED  BY <1>1, <1>2, <1>3, <1>4 DEF Next, vars, venueVars, linkVars

\* Calm stays.
LEMMA CalmStays ==
  ASSUME CoreInv, Calm, [Next]_vars, pc # "done" PROVE Calm'
<1>1. CASE UNCHANGED <<io, link, drops>>
  BY <1>1 DEF Calm
<1>2. CASE SessionStep
  <2>1. drops' = 0 => drops = 0
    BY DropsCountUp
  <2> QED  BY <1>2, <2>1, CalmSession DEF Calm
<1>3. ControllerStep => UNCHANGED <<io, link, drops>>
  BY DEF ControllerStep, Decline, Commission, DispatchRefused, DispatchCreates,
     AdapterSubmits, SubmitAnswered, SubmitTimesOut, MarkDispatchFailed,
     ForgetContext, JudgeDispatch, WaitEnds, NotReconciled, EntryIsOpen,
     EntryIsNotOpen, CloseIsFlat, FlatAfter, CloseLeavesResidue, ResidualIsFlat,
     NotFlat, Conclude, venueVars, linkVars, sessionVars
<1>4. CASE VenueStep /\ io' = io
  <2>1. UNCHANGED <<link, drops>> \/ drops' = drops + 1
    BY <1>4, VenueDropsLink
  <2>2. drops \in Nat
    BY DEF CoreInv, LinkTyped
  <2> QED  BY <1>4, <2>1, <2>2 DEF Calm
<1> QED  BY <1>1, <1>2, <1>3, <1>4 DEF Next, vars, venueVars, linkVars, sessionVars

(***************************************************************************)
(* The entry, while the connection has not dropped.                        *)
(***************************************************************************)

\* A promise that was answered with nothing left to do keeps its answer.
LEMMA AnswerKept ==
  ASSUME CoreInv, Quiet, answer.ready, SessionStep PROVE answer' = answer
<1>1. commands = << >> /\ io.job = None
  BY DEF Quiet
<1>2. \A value : FinishJob(value) => answer' = answer
  BY <1>1 DEF FinishJob, Settle
<1>3. \A dropped : QueryFails(dropped) => answer' = answer
  BY <1>2 DEF QueryFails
<1>4. \A position : QueryCompletes(position) => answer' = answer
  BY <1>2 DEF QueryCompletes
<1>5. \A unread : ReadFails(unread) => answer' = answer
  BY <1>3 DEF ReadFails, SessionEnds
<1> QED
  BY <1>1, <1>2, <1>3, <1>4, <1>5
  DEF SessionStep, TakeCommand, LoopReads, ReadTimesOut, ReadFindsLinkDown,
      ReceiveEvent, ReceiveReply, ReceiveUnexpected, SpotRefused, SessionEnds,
      QueryTimesOut, QueryFindsLinkDown, Reconnect, ReconnectFails, RecoveryFails

\* An empty queue stays empty while the controller adds nothing.
LEMMA QueueStaysEmpty ==
  ASSUME commands = << >>, SessionStep PROVE commands' = << >>
BY DEF SessionStep, TakeCommand, LoopReads, ReadTimesOut, ReadFindsLinkDown,
       ReceiveEvent, ReceiveReply, QueryCompletes, ReceiveUnexpected, SpotRefused,
       ReadFails, SessionEnds, QueryFails, QueryTimesOut, QueryFindsLinkDown, Reconnect,
       ReconnectFails, RecoveryFails

\* An entry that is placed on a calm connection is answered with success.
LEMMA CalmPlacing ==
  ASSUME CoreInv, Calm, drops = 0, pc = "submitted", SessionStep,
         venue' # venue
  PROVE  answer'.ok
<1>1. TakeCommand
  BY DEF SessionStep, LoopReads, ReadTimesOut, ReadFindsLinkDown, ReceiveEvent,
        ReceiveReply, QueryCompletes, ReceiveUnexpected, SpotRefused, ReadFails,
        SessionEnds, QueryForgets, QueryTimesOut, QueryFindsLinkDown, Reconnect,
        ReconnectFails, RecoveryFails, venueVars
<1>2. link /\ commands # << >>
  BY <1>1 DEF TakeCommand, Calm
<1>3. Head(commands).kind = "submit" /\ SubmitSent(Head(commands))
  BY <1>1, <1>2
  DEF TakeCommand, SubmitRefused, SubmitAmbiguous, QueryStarts, venueVars
<1>4. Head(commands) = LegSubmit /\ awaiting = LegSubmit /\ LegSubmit # None
  BY <1>2, <1>3, SubmissionIsOfLeg, LegCommands DEF CoreInv, CommandsFollowControl
<1>5. answer' = Success
  BY <1>3, <1>4 DEF SubmitSent, Settle
<1> QED  BY <1>5 DEF Success, Failure, Pending

\* What the thread and the venue do leaves the judgement of an entry right.
LEMMA CalmEntryLasts ==
  ASSUME CoreInv, Calm, CalmEntry, pc # "done", drops' = 0 => drops = 0,
         \/ SessionStep /\ UNCHANGED controlVars
         \/ VenueStep /\ UNCHANGED <<sessionVars, controlVars>>
  PROVE  CalmEntry'
<1> SUFFICES ASSUME drops = 0, leg = "Entry",
                    pc \in { "refused", "forget", "judge", "submitted" }
             PROVE  CalmEntry'
  BY DEF CalmEntry, controlVars
<1>1. pc' = pc /\ leg' = leg
  BY DEF controlVars
<1>2. VenueStep => venue'["Entry"].asked = venue["Entry"].asked
  BY VenueSettles DEF Settles, Legs
<1>3. CASE VenueStep /\ UNCHANGED sessionVars
  BY <1>1, <1>2, <1>3 DEF CalmEntry, sessionVars
<1>4. CASE SessionStep /\ pc # "submitted"
  <2>1. commands = << >> /\ venue["Entry"].asked = 0
    BY <1>4 DEF CalmEntry
  <2>2. commands' = << >>
    BY <1>4, <2>1, QueueStaysEmpty
  <2>3. venue' = venue
    BY <1>4, <2>1, SessionPlaces DEF Unsent
  <2> QED  BY <1>1, <1>4, <2>1, <2>2, <2>3 DEF CalmEntry
<1>5. CASE SessionStep /\ pc = "submitted"
  <2>1. ASSUME ~answer'.ok PROVE venue'["Entry"].asked = 0
    <3>1. venue' = venue
      BY <1>5, <2>1, CalmPlacing
    <3>2. answer.ok => answer.ready /\ Quiet
      BY <1>5 DEF CoreInv, CommandsFollowControl
    <3>3. ~answer.ok
      BY <1>5, <2>1, <3>2, AnswerKept
    <3> QED  BY <1>5, <3>1, <3>3 DEF CalmEntry
  <2> QED  BY <1>1, <1>5, <2>1 DEF CalmEntry
<1> QED  BY <1>3, <1>4, <1>5

(***************************************************************************)
(* A dispatch that fails on a calm connection found the session gone, or   *)
(* was told so: in neither case did the entry reach the venue.             *)
(***************************************************************************)
LEMMA CalmEntryDecided ==
  ASSUME CoreInv, DownIsOver, Calm, CalmEntry, ControllerStep,
         drops' = 0 => drops = 0
  PROVE  CalmEntry'
<1> SUFFICES ASSUME drops = 0, leg' = "Entry",
                    pc' \in { "refused", "forget", "judge", "submitted" }
             PROVE  CalmEntry'
  BY DEF CalmEntry
<1>0. venue' = venue
  BY ControllerReports
<1>1. \/ AdapterSubmits \/ SubmitAnswered \/ SubmitTimesOut \/ MarkDispatchFailed
      \/ ForgetContext
  BY DEF ControllerStep, Decline, Commission, DispatchRefused, DispatchCreates,
     JudgeDispatch, WaitEnds, NotReconciled, EntryIsOpen, EntryIsNotOpen, CloseIsFlat,
     FlatAfter, CloseLeavesResidue, ResidualIsFlat, NotFlat, Conclude, GoTo, End,
     NextLeg
<1>2. leg = "Entry"
  BY <1>1 DEF AdapterSubmits, SubmitAnswered, SubmitTimesOut, MarkDispatchFailed,
              ForgetContext, GoTo
<1>3. CASE AdapterSubmits
  <2>1. commands = << >> /\ venue["Entry"].asked = 0
    BY <1>2, <1>3 DEF AdapterSubmits, CoreInv, CommandsFollowControl, Quiet,
                      UnsentIsSized, Unsent
  <2> QED  BY <1>0, <1>3, <2>1 DEF AdapterSubmits, GoTo, CalmEntry
<1>4. CASE SubmitAnswered
  <2>1. commands = << >> /\ (~answer.ok => venue["Entry"].asked = 0)
    BY <1>2, <1>4 DEF SubmitAnswered, CoreInv, CommandsFollowControl, Quiet, CalmEntry
  <2> QED  BY <1>0, <1>4, <2>1 DEF SubmitAnswered, GoTo, CalmEntry
<1>5. ~SubmitTimesOut
  <2>1. ASSUME SubmitTimesOut PROVE FALSE
    <3>1. pc = "submitted" /\ ~answer.ready /\ io.mode \notin { "loop", "read" }
      BY <2>1 DEF SubmitTimesOut, CommandTimesOut
    <3>2. io.job \in { None, LegSubmit } /\ awaiting = LegSubmit /\ LegSubmit # None
      BY <3>1, LegCommands DEF CoreInv, CommandsFollowControl, Sending
    <3>3. io.job.kind # "reconcile"
      BY <3>2 DEF None, LegSubmit, Submit
    <3>4. io.mode = "down"
      BY <3>1, <3>3 DEF CoreInv, SessionTyped, IOStates, ThreadIsWhereItIs, Calm
    <3> QED  BY <3>1, <3>2, <3>4 DEF DownIsOver
  <2> QED  BY <2>1
<1>6. CASE MarkDispatchFailed \/ ForgetContext
  BY <1>0, <1>2, <1>6
  DEF MarkDispatchFailed, ForgetContext, GoTo, CalmEntry, sessionVars
<1> QED  BY <1>1, <1>3, <1>4, <1>5, <1>6

\* Every step keeps what is known of a dispatch on a calm connection.
LEMMA CalmEntryStays ==
  ASSUME CoreInv, DownIsOver, Calm, CalmEntry, [Next]_vars, pc # "done"
  PROVE  CalmEntry'
<1>1. drops' = 0 => drops = 0
  BY DropsCountUp
<1>2. UNCHANGED vars => CalmEntry'
  BY DEF vars, venueVars, linkVars, sessionVars, controlVars, CalmEntry
<1> QED  BY <1>1, <1>2, CalmEntryLasts, CalmEntryDecided DEF Next

\* A dispatch that is judged was marked.
LEMMA JudgedStaysMarked ==
  ASSUME CoreInv, BooksInv, EventsOfOrders, RecordsTraced, JudgedIsMarked,
         [Next]_vars, pc # "done"
  PROVE  JudgedIsMarked'
<1>1. RecordsMove
  BY StepsMoveRecords
<1>2. ASSUME pc \in { "forget", "judge" }, leg' = leg
      PROVE  records'[leg].state # "Submitted"
  <2>1. leg \in DOMAIN records
    BY <1>2 DEF BooksInv, RecordsFollowLegs
  <2> QED  BY <1>1, <1>2, <2>1 DEF RecordsMove, MovesOn, JudgedIsMarked
<1>3. CASE MarkDispatchFailed
  BY <1>3, MarkMoves DEF MarkDispatchFailed, GoTo, JudgedIsMarked
<1>4. CASE UNCHANGED controlVars
  BY <1>2, <1>4 DEF JudgedIsMarked, controlVars
<1>5. CASE ControllerStep /\ ~MarkDispatchFailed
  <2>1. pc' \in { "forget", "judge" } => ForgetContext
    BY <1>5
    DEF ControllerStep, Decline, Commission, DispatchRefused, DispatchCreates,
        AdapterSubmits, SubmitAnswered, SubmitTimesOut, JudgeDispatch, WaitEnds,
        NotReconciled, EntryIsOpen, EntryIsNotOpen, CloseIsFlat, FlatAfter,
        CloseLeavesResidue, ResidualIsFlat, NotFlat, Conclude, GoTo, End, NextLeg
  <2> QED  BY <1>2, <2>1 DEF ForgetContext, GoTo, JudgedIsMarked
<1> QED  BY <1>3, <1>4, <1>5 DEF Next, vars

(***************************************************************************)
(* Failed is reported before anything was placed, of a complete snapshot,  *)
(* with all proofs, or by the judgement of a dispatch.  The last is wrong  *)
(* when the order got through; then its record shows that it did.          *)
(***************************************************************************)
LEMMA JudgementShows ==
  ASSUME CoreInv, BooksInv, TraceInv, JudgeDispatch, outcome' = "Failed"
  PROVE  FailureShowsExposure'
<1>1. /\ pc = "judge" /\ leg = "Entry" /\ records["Entry"].state # "Unknown"
      /\ UNCHANGED <<records, venueVars>> /\ pc # "done"
  BY DEF JudgeDispatch, RefusedOutcome, End, GoTo, CoreInv, ControlTyped
<1>2. /\ "Entry" \in DOMAIN records /\ RecordSound("Entry", records["Entry"])
      /\ TracedTo("Entry", records["Entry"]) /\ records["Entry"].state # "Submitted"
  BY <1>1, RecordOf DEF BooksInv, RecordsFollowLegs, TraceInv, RecordsTraced,
                        JudgedIsMarked
<1>3. records["Entry"].state \in { "Accepted", "PartiallyFilled", "Filled", "Rejected" }
  BY <1>1, <1>2 DEF RecordSound, ReachedStates
<1>4. CASE records["Entry"].state = "Rejected"
  <2>1. Refused("Entry")
    BY <1>2, <1>4 DEF TracedTo
  <2>2. Exposure = 0 /\ NothingHeld
    BY <1>1, <2>1, EntryAlone DEF Refused, NothingHeld, CoreInv, LegsInTurn
  <2> QED  BY <1>1, <2>2 DEF FailureShowsExposure, Exposure, NothingHeld, Held, venueVars
<1>5. CASE records["Entry"].state # "Rejected"
  <2>1. venue["Entry"].asked > 0
    BY <1>3, <1>5, <1>2 DEF TracedTo
  <2>2. drops # 0 /\ drops \in Nat
    BY <1>1, <2>1 DEF TraceInv, CalmEntry, CoreInv, LinkTyped
  <2> QED  BY <1>1, <1>3, <1>5, <2>2 DEF FailureShowsExposure, venueVars, linkVars
<1> QED  BY <1>4, <1>5

\* Every other way to Failed is of a flat account.
LEMMA FailureShows ==
  ASSUME CoreInv, BooksInv, TraceInv, ControllerStep, outcome' = "Failed"
  PROVE  FailureShowsExposure'
<1>1. venue' = venue
  BY ControllerReports
<1>2. Exposure = 0 /\ NothingHeld => FailureShowsExposure'
  BY <1>1 DEF FailureShowsExposure, Exposure, NothingHeld, Held
<1>3. CASE DispatchRefused
  <2>1. leg = "Entry" /\ Unsent
    BY <1>3 DEF DispatchRefused, End, RefusedOutcome, Unsent
  <2>2. NothingHeld /\ venue["Entry"].asked = 0
    BY <2>1 DEF CoreInv, UnsentIsSized
  <2>3. venue["Entry"].filled = 0
    BY <2>2, OrderOf DEF Legs
  <2> QED  BY <1>2, <2>1, <2>2, <2>3, EntryAlone
<1>4. CASE JudgeDispatch
  BY <1>4, JudgementShows
<1>5. CASE EntryIsNotOpen
  <2>1. FlatSnapshot /\ Reconciled("Entry") /\ "Entry" \in Legs
    BY <1>5 DEF EntryIsNotOpen, End, Legs
  <2> QED  BY <1>2, <2>1, AskedIsAnswered DEF FlatSnapshot
<1>6. CASE Conclude
  BY <1>2, <1>6 DEF Conclude, CoreInv, ProofIsEarned, StillTrue
<1>7. DispatchRefused \/ JudgeDispatch \/ EntryIsNotOpen \/ Conclude
  <2>1. ASSUME ControllerStep PROVE outcome = "none"
    BY DoneIsOver DEF ControllerStep, Decline, Commission, DispatchRefused, DispatchCreates,
      AdapterSubmits, SubmitAnswered, SubmitTimesOut, MarkDispatchFailed,
      ForgetContext, JudgeDispatch, WaitEnds, NotReconciled, EntryIsOpen,
      EntryIsNotOpen, CloseIsFlat, CloseLeavesResidue, ResidualIsFlat, NotFlat,
      Conclude, FlatAfter, Residue, Reconciled, CoreInv, ControlTyped
  <2> QED
    BY <2>1
    DEF ControllerStep, Decline, Commission, DispatchCreates, AdapterSubmits,
        SubmitAnswered, SubmitTimesOut, MarkDispatchFailed, ForgetContext, WaitEnds,
        NotReconciled, EntryIsOpen, CloseIsFlat, FlatAfter, CloseLeavesResidue,
        ResidualIsFlat, NotFlat, GoTo, End, NextLeg
<1> QED  BY <1>3, <1>4, <1>5, <1>6, <1>7

\* A step of any of the three keeps what is traced.
LEMMA TraceNext == CoreInv /\ BooksInv /\ TraceInv /\ [Next]_vars => TraceInv'
<1> SUFFICES ASSUME CoreInv, BooksInv, TraceInv, [Next]_vars PROVE TraceInv'
  OBVIOUS
<1>1. CASE UNCHANGED vars
  <2>1. HeldIsUnfilled' /\ EventsOfOrders' /\ OrdersHaveRecords' /\ RecordsTraced'
    BY <1>1 DEF TraceInv, HeldIsUnfilled, EventsOfOrders, OrdersHaveRecords,
                RecordsTraced, TracedTo, Refused, Held, New, HasRecord, vars, venueVars,
                bookVars
  <2>2. JudgedIsMarked' /\ DownIsOver' /\ Calm' /\ CalmEntry' /\ FailureShowsExposure'
    BY <1>1 DEF TraceInv, JudgedIsMarked, DownIsOver, Calm, CalmEntry,
                FailureShowsExposure, Exposure, NothingHeld, Held, vars, venueVars,
                linkVars, bookVars, sessionVars, controlVars
  <2> QED  BY <2>1, <2>2 DEF TraceInv
<1>2. CASE pc # "done"
  <2> USE <1>2 DEF TraceInv
  <2>1. HeldIsUnfilled' /\ EventsOfOrders'
    BY HeldStaysUnfilled, EventsStayOfOrders
  <2>2. OrdersHaveRecords' /\ RecordsTraced' /\ JudgedIsMarked'
    BY OrdersKeepRecords, RecordsStayTraced, JudgedStaysMarked
  <2>3. DownIsOver' /\ Calm' /\ CalmEntry'
    BY DownStaysOver, CalmStays, CalmEntryStays
  <2>4. FailureShowsExposure'
    <3>1. outcome = "none"
      BY DEF CoreInv, ControlTyped
    <3>2. UNCHANGED controlVars \/ ControllerStep
      BY DEF Next, vars
    <3> QED  BY <3>1, <3>2, FailureShows DEF FailureShowsExposure, controlVars
  <2> QED  BY <2>1, <2>2, <2>3, <2>4
<1> QED  BY <1>1, <1>2, DoneIsOver

\* What is traced holds in every state of every run.
THEOREM TraceHolds == Spec => []TraceInv
BY TraceBegins, TraceNext, CoreHolds, BooksHold, PTL DEF Spec

(***************************************************************************)
(* Failed with an exposure is never silent, for every number of drops and  *)
(* reconnections and every order of events: on a connection that stayed up *)
(* Failed means that nothing was opened, and after a drop the record of    *)
(* the entry tells.                                                        *)
(***************************************************************************)
THEOREM FailureStaysVisible == Spec => []FailureShowsExposure
<1>1. TraceInv => FailureShowsExposure
  BY DEF TraceInv
<1> QED  BY <1>1, TraceHolds, PTL

(***************************************************************************)
(* No record claims a fill the venue has not made, and none is closed      *)
(* before the venue is done with its order.                                *)
(***************************************************************************)
THEOREM RecordsStayTrue == Spec => []RecordsFollowVenue
<1>1. CoreInv /\ BooksInv /\ TraceInv => RecordsCloseLast
  <2> SUFFICES ASSUME CoreInv, BooksInv, TraceInv PROVE RecordsCloseLast
    OBVIOUS
  <2>1. ASSUME NEW l \in Legs, Held(l) PROVE HasRecord(l)
    BY <2>1, OrderOf DEF TraceInv, HeldIsUnfilled, OrdersHaveRecords
  <2>2. ASSUME NEW l \in DOMAIN records, records[l].state \in TerminalStates
        PROVE  ~Held(l) /\ records[l].filled = venue[l].filled
    <3>1. /\ l \in Legs /\ records[l] \in Records /\ RecordSound(l, records[l])
          /\ TracedTo(l, records[l])
      BY <2>2, RecordOf DEF TraceInv, RecordsTraced
    <3>2. /\ venue[l].filled \in 0 .. Qty /\ venue[l].asked \in 0 .. Qty
          /\ venue[l].filled <= venue[l].asked /\ venue[l].asked <= lot[l]
          /\ lot[l] \in 0 .. Qty /\ (Held(l) => venue[l].filled < venue[l].asked)
      BY <3>1, OrderOf DEF BooksInv, LotsFit, CoreInv, ControlTyped, Volumes, TraceInv,
                           HeldIsUnfilled
    <3>3. records[l].state \in { "Filled", "Rejected", "Reconciled" }
      BY <2>2, <3>1 DEF RecordSound, ReachedStates, TerminalStates
    <3>4. CASE records[l].state = "Filled"
      BY <3>1, <3>2, <3>4 DEF RecordSound, Records
    <3>5. CASE records[l].state = "Rejected"
      BY <3>1, <3>2, <3>5 DEF RecordSound, Records, TracedTo, Refused
    <3>6. CASE records[l].state = "Reconciled"
      BY <3>1, <3>6 DEF RecordSound, CoreInv, LegsInTurn
    <3> QED  BY <3>3, <3>4, <3>5, <3>6
  <2> QED  BY <2>1, <2>2 DEF RecordsCloseLast
<1>2. BooksInv => RecordsBehindVenue
  BY DEF BooksInv, RecordsSound, RecordSound, RecordsBehindVenue
<1>3. CoreInv /\ BooksInv /\ TraceInv => RecordsFollowVenue
  BY <1>1, <1>2 DEF RecordsFollowVenue
<1> QED  BY <1>3, CoreHolds, BooksHold, TraceHolds, PTL

\* What a record says was filled is never taken back, nor its end.
THEOREM RecordsOnlyAdvance == Spec => RecordsAdvance
<1>1. CoreInv /\ BooksInv /\ TraceInv /\ [Next]_vars =>
        [\A l \in DOMAIN records :
           /\ l \in DOMAIN records' /\ records[l].filled <= records'[l].filled
           /\ records[l].state \in TerminalStates => records'[l] = records[l]]_vars
  <2> SUFFICES ASSUME CoreInv, BooksInv, TraceInv, [Next]_vars, ~UNCHANGED vars,
                      NEW l \in DOMAIN records
               PROVE  /\ l \in DOMAIN records'
                      /\ records[l].filled <= records'[l].filled
                      /\ records[l].state \in TerminalStates => records'[l] = records[l]
    OBVIOUS
  <2>1. RecordsMove
    BY StepsMoveRecords, DoneIsOver DEF TraceInv
  <2> QED  BY <2>1 DEF RecordsMove, MovesOn, HasRecord
<1> QED  BY <1>1, CoreHolds, BooksHold, TraceHolds, PTL DEF Spec, RecordsAdvance

--------------------------------------------------------------------------------
(***************************************************************************)
(* What OneShotCommissioning promises and its proofs establish holds of    *)
(* the run, because the run implements it.                                 *)
(***************************************************************************)
Kept ==
  INSTANCE OneShotCommissioning_proofs WITH
    asked <- [ l \in Legs |-> venue[l].asked ],
    filled <- [ l \in Legs |-> venue[l].filled ],
    live <- { l \in Legs : Held(l) }

\* The promise in the run's module and the one proved about are the same.
LEMMA PromiseIsKept == Spec => Kept!Spec
<1>1. KeepsPromise => Kept!Spec
  BY DEF KeepsPromise, Promise!Spec, Kept!Spec, Promise!vars, Kept!vars,
         Promise!Init, Kept!Init, Promise!Next, Kept!Next, Promise!PlaceEntry,
         Kept!PlaceEntry, Promise!PlaceClose, Kept!PlaceClose, Promise!PlaceResidual,
         Kept!PlaceResidual, Promise!Place, Kept!Place, Promise!GiveUp, Kept!GiveUp,
         Promise!Fill, Kept!Fill, Promise!Report, Kept!Report, Promise!Legs, Kept!Legs,
         Promise!Outcomes, Kept!Outcomes, Promise!Earned, Kept!Earned,
         Promise!Exposure, Kept!Exposure, Promise!Rest, Kept!Rest
<1> QED  BY <1>1, RunKeepsPromise, PTL

(***************************************************************************)
(* At no moment of a run is the position negative or larger than the       *)
(* minimum volume, whatever the closes may still fill; and a reported      *)
(* success is a complete entry and a flat account.                         *)
(***************************************************************************)
THEOREM AccountStaysSafe ==
  Spec => [](Kept!NeverOverclosed /\ Kept!ExposureBounded /\ Kept!SuccessIsFlat)
<1>1. Kept!Spec => []Kept!NeverOverclosed
  BY Kept!NoOverclose, QtyAssumption
<1>2. Kept!Spec => []Kept!ExposureBounded
  BY Kept!BoundedExposure, QtyAssumption
<1>3. Kept!Spec => []Kept!SuccessIsFlat
  BY Kept!FlatSuccess, QtyAssumption
<1> QED  BY <1>1, <1>2, <1>3, PromiseIsKept, PTL

\* No leg reaches the venue twice, nor while another may still be filled.
THEOREM LegsArePlacedOnce == Spec => Kept!PlacedOnce
<1>1. Kept!Spec => Kept!PlacedOnce
  BY Kept!OnceAndAlone, QtyAssumption
<1> QED  BY <1>1, PromiseIsKept, PTL
================================================================================
