---------------------------- MODULE DemoCommissioning ----------------------------
(***************************************************************************)
(* One commissioning run: MynyraDemoCommissioningController::commission()  *)
(* on the runtime's thread, composed with the session's I/O thread and the *)
(* venue.  The controller opens a position of the minimum volume once,     *)
(* reconciles it, closes it, reconciles again, and may close a residue     *)
(* once.  Each wait has a deadline, so each may end without what it waits  *)
(* for; the deadlines are not related to one another.                      *)
(***************************************************************************)
EXTENDS CTraderSession

VARIABLES
  pc,        \* where commission() is
  leg,       \* in which leg
  lot,       \* volume of each leg
  seen,      \* the LegEvidence waitForLeg() returned for this leg
  proof,     \* the parts of the proof that success needs
  outcome    \* MynyraDemoOutcome

controlVars == <<pc, leg, lot, seen, proof, outcome>>

vars == <<venueVars, bookVars, sessionVars, controlVars>>

Outcomes ==
  { "none", "NoEligibleSignal", "ReadOnly", "Failed", "RecoveryRequired",
    "Succeeded" }

NoWitness == [ acceptance |-> FALSE, filled |-> FALSE, duplicate |-> FALSE ]

Init ==
  /\ VenueInit /\ BooksInit /\ SessionInit
  /\ pc = "idle" /\ leg = "Entry"
  /\ lot = [ l \in Legs |-> 0 ]
  /\ seen = NoWitness
  /\ proof = [ entry |-> FALSE, partial |-> FALSE, settled |-> FALSE ]
  /\ outcome = "none"

--------------------------------------------------------------------------------

End(result) ==
  /\ pc' = "done" /\ outcome' = result
  /\ UNCHANGED <<leg, lot, seen, proof>>

GoTo(place) == pc' = place /\ UNCHANGED <<leg, lot, seen, proof, outcome>>

\* Nothing sent, nothing to recover; once there is a position there is.
RefusedOutcome == IF leg = "Entry" THEN "Failed" ELSE "RecoveryRequired"

\* No eligible signal, or a read-only configuration.
Decline ==
  /\ pc = "idle"
  /\ \E result \in { "NoEligibleSignal", "ReadOnly" } : End(result)
  /\ UNCHANGED <<venueVars, bookVars, sessionVars>>

Commission ==
  /\ pc = "idle"
  /\ pc' = "start" /\ leg' = "Entry" /\ lot' = [ lot EXCEPT !["Entry"] = Qty ]
  /\ UNCHANGED <<seen, proof, outcome, venueVars, bookVars, sessionVars>>

--------------------------------------------------------------------------------
(***************************************************************************)
(* dispatch(): executeIntent() and BrokerGateway::dispatchOrder().         *)
(***************************************************************************)

\* The gateway is not connected, or the risk engine or normalization refuses.
DispatchRefused ==
  /\ pc = "start"
  /\ End(RefusedOutcome)
  /\ UNCHANGED <<venueVars, bookVars, sessionVars>>

At(sequence) == [ key |-> "fresh", ts |-> 0, seq |-> sequence ]

DispatchCreates ==
  /\ pc = "start" /\ connected
  /\ evidence' = [ evidence EXCEPT ![leg].tracked = TRUE ]
  /\ engine' = [ engine EXCEPT !.active = @ \cup {leg} ]
  /\ LET created == NewRecord(lot[leg], 0, 1)
         checked == Stamped(created, At(2), "RiskChecked")
     IN  records' = [ l \in DOMAIN records \cup {leg} |->
                        IF l = leg THEN Stamped(checked, At(3), "Submitted")
                                   ELSE records[l] ]
  /\ GoTo("send")
  /\ UNCHANGED <<fillKeys, mirror, venueVars, sessionVars>>

AdapterSubmits ==
  /\ pc = "send"
  /\ IF connected
     THEN Enqueue(Submit(leg, lot[leg])) /\ GoTo("submitted")
     ELSE UNCHANGED <<commands, awaiting, answer>> /\ GoTo("refused")
  /\ UNCHANGED <<connected, io, session, venueVars, bookVars>>

SubmitAnswered ==
  /\ pc = "submitted" /\ answer.ready
  /\ Abandon
  /\ GoTo(IF answer.ok THEN "wait" ELSE "refused")
  /\ UNCHANGED <<connected, commands, io, session, venueVars, bookVars>>

(***************************************************************************)
(* DEMO_COMMAND_TIMEOUT is two minutes; the run loop looks for a command   *)
(* four times a second, so it passes only while the I/O thread is in a     *)
(* query or a recovery.  The command stays where it is.                    *)
(***************************************************************************)
CommandTimesOut == ~answer.ready /\ io.mode \notin { "loop", "read" }

SubmitTimesOut ==
  /\ pc = "submitted" /\ CommandTimesOut
  /\ Abandon
  /\ GoTo("refused")
  /\ UNCHANGED <<connected, commands, io, session, venueVars, bookVars>>

\* dispatchOrder() marks the order unknown unless the record has moved on.
MarkDispatchFailed ==
  /\ pc = "refused"
  /\ records' =
       IF TransitionResult(records[leg], {}, At(4), "Unknown") = "Applied"
       THEN [ records EXCEPT ![leg] = Stamped(@, At(4), "Unknown") ]
       ELSE records
  /\ GoTo("forget")
  /\ UNCHANGED <<fillKeys, engine, evidence, mirror, venueVars, sessionVars>>

\* executeIntent() erases the context, not what the order has pending.
ForgetContext ==
  /\ pc = "forget"
  /\ engine' = [ engine EXCEPT !.active = @ \ {leg} ]
  /\ GoTo("judge")
  /\ UNCHANGED <<records, fillKeys, evidence, mirror, venueVars, sessionVars>>

\* Mutant: a dispatch that failed counts as not sent, whatever the record says.
JudgeDispatch_NotSent ==
  /\ pc = "judge"
  /\ End(RefusedOutcome)
  /\ UNCHANGED <<bookVars, venueVars, sessionVars>>

\* Back in dispatch(): an order that is not unknown counts as not sent.
JudgeDispatch ==
  /\ pc = "judge"
  /\ IF records[leg].state = "Unknown"
     THEN /\ evidence' = [ evidence EXCEPT ![leg].failure = TRUE ]
          /\ GoTo("wait")
     ELSE UNCHANGED evidence /\ End(RefusedOutcome)
  /\ UNCHANGED <<records, fillKeys, engine, mirror, venueVars, sessionVars>>

--------------------------------------------------------------------------------

\* waitForLeg() wakes up for this, or at its deadline.
LegIsOver ==
  \/ evidence[leg].filled \/ evidence[leg].rejected
  \/ evidence[leg].duplicate \/ evidence[leg].failure

\* Mutant: the wait has no deadline.
WaitMayEnd_Unbounded == LegIsOver

\* Nothing relates the lifecycle timeout to what the session is waiting for.
LifecycleTimesOut == TRUE

WaitMayEnd == LegIsOver \/ LifecycleTimesOut

(***************************************************************************)
(* waitForLeg() returns what evidence there is: it is complete, or the     *)
(* lifecycle timeout is over.  Then the account is reconciled.             *)
(***************************************************************************)
WaitEnds ==
  /\ pc = "wait" /\ WaitMayEnd
  /\ seen' = [ acceptance |-> evidence[leg].acceptance,
               filled |-> evidence[leg].filled,
               duplicate |-> evidence[leg].duplicate ]
  /\ IF connected
     THEN /\ Enqueue(Reconcile(leg))
          /\ pc' = "asked" /\ UNCHANGED outcome
     ELSE /\ UNCHANGED <<commands, awaiting, answer>>
          /\ pc' = "done" /\ outcome' = "RecoveryRequired"
  /\ UNCHANGED <<leg, lot, proof, connected, io, session, venueVars, bookVars>>

\* No snapshot, or none that is complete and matched, is never good enough.
NotReconciled ==
  /\ pc = "asked"
  /\ (answer.ready /\ ~answer.ok) \/ CommandTimesOut
  /\ Abandon
  /\ End("RecoveryRequired")
  /\ UNCHANGED <<connected, commands, io, session, venueVars, bookVars>>

--------------------------------------------------------------------------------
(***************************************************************************)
(* What commission() does with a complete snapshot after each leg.         *)
(***************************************************************************)

Reconciled(l) == pc = "asked" /\ leg = l /\ answer.ok

FlatSnapshot == answer.position = 0 /\ ~answer.pending
OpenSnapshot == answer.position > 0 /\ ~answer.pending

AdoptSnapshot == mirror' = MirrorReconciled(answer.position, answer.pending)

Witness == seen.acceptance /\ seen.filled /\ ~seen.duplicate

\* Mutant: every leg is as large as the entry.
NextLeg_SameSize(l) ==
  /\ pc' = "start" /\ leg' = l
  /\ lot' = [ lot EXCEPT ![l] = lot["Entry"] ]
  /\ seen' = NoWitness
  /\ UNCHANGED outcome

NextLeg(l) ==
  /\ pc' = "start" /\ leg' = l
  /\ lot' = [ lot EXCEPT ![l] = answer.position ]
  /\ seen' = NoWitness
  /\ UNCHANGED outcome

EntryIsOpen ==
  /\ Reconciled("Entry") /\ OpenSnapshot
  /\ AdoptSnapshot
  /\ proof' = [ proof EXCEPT !.entry = Witness
                                         /\ answer.position = lot["Entry"] ]
  /\ NextLeg("Close")
  /\ Abandon
  /\ UNCHANGED <<connected, commands, io, session, venueVars,
                 records, fillKeys, engine, evidence>>

EntryIsNotOpen ==
  /\ Reconciled("Entry") /\ ~OpenSnapshot
  /\ IF ~seen.filled /\ FlatSnapshot
     THEN AdoptSnapshot /\ End("Failed")
     ELSE UNCHANGED mirror /\ End("RecoveryRequired")
  /\ Abandon
  /\ UNCHANGED <<connected, commands, io, session, venueVars,
                 records, fillKeys, engine, evidence>>

FlatAfter(l) ==
  /\ Reconciled(l) /\ FlatSnapshot
  /\ AdoptSnapshot
  /\ Abandon
  /\ UNCHANGED <<connected, commands, io, session, venueVars,
                 records, fillKeys, engine, evidence>>

CloseIsFlat == FlatAfter("Close") /\ GoTo("conclude")

ResidualIsFlat ==
  /\ FlatAfter("Residual")
  /\ IF Witness THEN GoTo("conclude") ELSE End("RecoveryRequired")

(***************************************************************************)
(* A residue.  The close is made unknown unless it is partial, unknown or  *)
(* filled already, and then reconciled as canceled with what it filled; a  *)
(* close that refuses either ends the run.                                 *)
(***************************************************************************)
Residue == Reconciled("Close") /\ OpenSnapshot /\ answer.position <= lot["Close"]

Doubted(r) ==
  IF r.state \in { "PartiallyFilled", "Unknown", "Filled" } THEN r
  ELSE IF TransitionResult(r, {}, At(r.lastSeq + 1), "Unknown") = "Applied"
       THEN Stamped(r, At(r.lastSeq + 1), "Unknown")
  ELSE r

\* Mutant: the canceled rest counts as filled.
Resolution_Whole(r, filled, remaining) ==
  [ key |-> "fresh", ts |-> 0, seq |-> r.lastSeq + 1, resolved |-> "Canceled",
    cumulative |-> filled + remaining, remaining |-> 0 ]

\* Mutant: a canceled close counts as not filled.
Resolution_Unfilled(r, filled, remaining) ==
  [ key |-> "fresh", ts |-> 0, seq |-> r.lastSeq + 1, resolved |-> "Canceled",
    cumulative |-> 0, remaining |-> filled + remaining ]

Resolution(r, filled, remaining) ==
  [ key |-> "fresh", ts |-> 0, seq |-> r.lastSeq + 1, resolved |-> "Canceled",
    cumulative |-> filled, remaining |-> remaining ]

CloseLeavesResidue ==
  /\ Residue
  /\ AdoptSnapshot
  /\ LET r == records["Close"]
         doubted == Doubted(r)
         filled == lot["Close"] - answer.position
         event == Resolution(doubted, filled, answer.position)
         settles == ReconcileResult(doubted, {}, event) = "Applied"
         goesOn == settles \/ doubted.state = "Filled"
     IN  /\ records' = [ records EXCEPT !["Close"] =
                           IF settles THEN ReconcileRecord(doubted, event)
                                      ELSE doubted ]
         /\ IF goesOn
            THEN /\ engine' = Inactive(engine, "Close")
                 /\ proof' = [ proof EXCEPT
                      !.settled = settles,
                      !.partial = /\ filled > 0
                                  /\ r.state = "PartiallyFilled"
                                  /\ seen.acceptance
                                  /\ ~seen.duplicate
                                  /\ r.filled = filled
                                  /\ r.remaining = answer.position ]
                 /\ NextLeg("Residual")
            ELSE UNCHANGED engine /\ End("RecoveryRequired")
  /\ Abandon
  /\ UNCHANGED <<connected, commands, io, session, venueVars, fillKeys, evidence>>

NotFlat ==
  /\ \/ Reconciled("Close") /\ ~FlatSnapshot /\ ~Residue
     \/ Reconciled("Residual") /\ ~FlatSnapshot
  /\ End("RecoveryRequired")
  /\ Abandon
  /\ UNCHANGED <<connected, commands, io, session, venueVars, bookVars>>

--------------------------------------------------------------------------------

Dispatched == IF leg = "Residual" THEN Legs ELSE { "Entry", "Close" }

Proven ==
  /\ proof.entry
  /\ IF leg = "Residual" THEN proof.partial /\ proof.settled ELSE Witness
  /\ \A l \in Dispatched :
       /\ \/ records[l].state = "Filled"
          \/ /\ l = "Close" /\ leg = "Residual"
             /\ records[l].state = "Reconciled"
             /\ records[l].reconciled = "Canceled"
       /\ engine.pending[l] = 0
  /\ MirrorFlat

\* The event sink may have failed before, or fail on the very last event.
Conclude ==
  /\ pc = "conclude"
  /\ \/ Proven /\ End("Succeeded")
     \/ Proven /\ End("Failed")
     \/ End("RecoveryRequired")
  /\ UNCHANGED <<venueVars, bookVars, sessionVars>>

ControllerStep ==
  \/ Decline \/ Commission
  \/ DispatchRefused \/ DispatchCreates \/ AdapterSubmits
  \/ SubmitAnswered \/ SubmitTimesOut \/ MarkDispatchFailed
  \/ ForgetContext \/ JudgeDispatch
  \/ WaitEnds \/ NotReconciled
  \/ EntryIsOpen \/ EntryIsNotOpen
  \/ CloseIsFlat \/ CloseLeavesResidue \/ ResidualIsFlat \/ NotFlat
  \/ Conclude

Next ==
  \/ ControllerStep
  \/ outcome = "none" /\ SessionStep /\ UNCHANGED controlVars
  \/ outcome = "none" /\ VenueStep /\ UNCHANGED <<bookVars, sessionVars, controlVars>>

Spec == Init /\ [][Next]_vars

(***************************************************************************)
(* Both threads keep running: the I/O thread's loop never blocks for more  *)
(* than 250 ms or the deadline of a request, and every wait of the         *)
(* controller has a deadline of its own.  The venue owes nothing.          *)
(***************************************************************************)
FairSpec ==
  /\ Spec
  /\ WF_vars(ControllerStep)
  /\ WF_vars(outcome = "none" /\ SessionStep /\ UNCHANGED controlVars)

--------------------------------------------------------------------------------
(***************************************************************************)
(* Properties.                                                             *)
(***************************************************************************)

Places ==
  { "idle", "start", "send", "submitted", "refused", "forget", "judge", "wait",
    "asked", "conclude", "done" }

Volumes == [ Legs -> 0 .. Qty ]

\* The types of the variables of all three actors.
TypeOK ==
  /\ venue \in [ Legs -> VenueOrder ]
  /\ link \in BOOLEAN /\ drops \in 0 .. MaxDrops
  /\ \A i \in DOMAIN wire : wire[i] \in Message
  /\ \A i \in DOMAIN requests : requests[i] \in RequestKinds
  /\ DOMAIN records \subseteq Legs
  /\ \A l \in DOMAIN records :
       /\ records[l].state \in LifecycleStates
       /\ { records[l].requested, records[l].filled,
            records[l].remaining } \subseteq 0 .. Qty
  /\ fillKeys \subseteq Legs \X (1 .. Qty)
  /\ engine.active \subseteq Legs /\ engine.pending \in Volumes
  /\ \A l \in Legs : \A field \in DOMAIN NoEvidence : evidence[l][field] \in BOOLEAN
  /\ mirror.keys \subseteq fillKeys /\ mirror.cumulative \in Volumes
  /\ mirror.provisional \in 0 .. Qty /\ mirror.logical \in 0 .. Qty
  /\ connected \in BOOLEAN
  /\ \A i \in DOMAIN commands : commands[i] \in Command
  /\ awaiting \in Command /\ io.job \in Command /\ io.attempt \in 0 .. Attempts
  /\ io.mode \in { "loop", "read", "query", "recover", "down" }
  /\ DOMAIN answer = DOMAIN Pending /\ answer.position \in 0 .. Qty
  /\ session.known \subseteq Legs /\ session.accepted \subseteq session.known
  /\ session.closing \in Legs /\ session.cumulative \in Volumes
  /\ pc \in Places /\ leg \in Legs /\ lot \in Volumes
  /\ outcome \in Outcomes

NothingHeld == \A l \in Legs : ~Held(l)

(***************************************************************************)
(* The run keeps the promise of OneShotCommissioning on the account, in    *)
(* whatever order events, replies, timeouts and reconnections come: each   *)
(* leg is placed at most once and never beside another, no close exceeds   *)
(* the position, and success is reported only for an account that is flat  *)
(* and stays so.                                                           *)
(***************************************************************************)
Promise ==
  INSTANCE OneShotCommissioning WITH
    asked <- [ l \in Legs |-> venue[l].asked ],
    filled <- [ l \in Legs |-> venue[l].filled ],
    live <- { l \in Legs : Held(l) }

KeepsPromise == Promise!Spec

(***************************************************************************)
(* A complete snapshot without pending orders is still true when the       *)
(* controller uses it, although it was put together from two replies, with *)
(* events in between, and handed over through a promise.                   *)
(***************************************************************************)
SnapshotIsCurrent ==
  pc = "asked" /\ answer.ok /\ ~answer.pending
    => answer.position = Exposure /\ NothingHeld

(***************************************************************************)
(* At success three books agree with the venue: the gateway's records, the *)
(* execution engine's pending quantities and the mirror.                   *)
(***************************************************************************)
BooksAgreeOnSuccess ==
  outcome = "Succeeded" =>
    /\ \A l \in Legs : venue[l].filled = IF HasRecord(l) THEN records[l].filled ELSE 0
    /\ \A l \in Legs : engine.pending[l] = 0
    /\ MirrorTotal = Exposure

(***************************************************************************)
(* As long as the run goes on, what the execution engine believes to be    *)
(* pending is what the gateway's record has left: no path, of fills or of  *)
(* a dispatch that failed half-way, leaves a stale quantity behind.  Only  *)
(* a dispatch that is about to be judged as not sent may, because its      *)
(* context is gone and a fill no longer finds it.                          *)
(***************************************************************************)
GoesOn == pc \notin { "judge", "done" }

PendingIsRemaining ==
  GoesOn =>
    \A l \in Legs :
      engine.pending[l] > 0 =>
        HasRecord(l) /\ engine.pending[l] = records[l].remaining

(***************************************************************************)
(* The mirror never shows more than the entry brought in: handleExecution- *)
(* Event says that a delayed fill must not apply the same exposure twice.  *)
(***************************************************************************)
MirrorWithinVenue == MirrorTotal <= venue["Entry"].filled

\* The same, once a reconciliation has adopted the position of the entry.
AdoptionCountsOnce == session.adopted => MirrorWithinVenue

(***************************************************************************)
(* Failed, as opposed to RecoveryRequired, is reported only of an account  *)
(* without exposure: RISK_POLICY.md wants recovery-required for ambiguous  *)
(* or non-flat state.                                                      *)
(***************************************************************************)
FailedIsFlat == outcome = "Failed" => Exposure = 0 /\ NothingHeld

(***************************************************************************)
(* Failed of an account with an exposure, which the run above finds, is    *)
(* never silent: the connection dropped, and the entry's own record says   *)
(* that the order got through, although dispatch() counts it as not sent.  *)
(***************************************************************************)
FailureShowsExposure ==
  outcome = "Failed" =>
    \/ Exposure = 0 /\ NothingHeld
    \/ /\ drops > 0
       /\ records["Entry"].state \in { "Accepted", "PartiallyFilled", "Filled" }

(***************************************************************************)
(* A lifecycle record follows its order.  It never claims a fill the venue *)
(* has not made: neither a fill event nor the reconciliation of a partial  *)
(* close, which computes the filled part from the difference of two        *)
(* snapshots, runs ahead.  The gateway has a record of every order the     *)
(* venue may still fill, and closes it last: when a record is terminal the *)
(* venue is done with the order, and what the record says was filled is    *)
(* final, also for the close, which a snapshot puts to rest.               *)
(***************************************************************************)
RecordsBehindVenue ==
  \A l \in DOMAIN records : records[l].filled <= venue[l].filled

RecordsCloseLast ==
  /\ \A l \in Legs : Held(l) => HasRecord(l)
  /\ \A l \in DOMAIN records : records[l].state \in TerminalStates =>
       ~Held(l) /\ records[l].filled = venue[l].filled

RecordsFollowVenue == RecordsBehindVenue /\ RecordsCloseLast

(***************************************************************************)
(* No step takes back what a record says was filled, drops a record or     *)
(* touches a terminal one: neither an event that repeats or comes late nor *)
(* the reconciliation of the close, which may follow the fills it sums up. *)
(***************************************************************************)
RecordsAdvance ==
  [][ \A l \in DOMAIN records :
        /\ l \in DOMAIN records' /\ records[l].filled <= records'[l].filled
        /\ records[l].state \in TerminalStates => records'[l] = records[l] ]_vars

(***************************************************************************)
(* A run always ends: no lost reply, dropped connection or unanswered      *)
(* command keeps the controller or the I/O thread waiting for ever.        *)
(***************************************************************************)
Terminates == <>(outcome # "none")
================================================================================
