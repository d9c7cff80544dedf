----------------------------- MODULE CTraderSession -----------------------------
(***************************************************************************)
(* CTraderSession: the one I/O thread that owns the connection.  It takes  *)
(* submit and reconcile commands from a queue, answers each through its    *)
(* promise, reads order events in between and inside every request, and    *)
(* reconnects a bounded number of times when the connection drops.         *)
(*                                                                         *)
(* A submit command is never sent twice.  A reconcile command is repeated  *)
(* once after a recovery.  What a command finds in the wire before its own *)
(* reply it handles on the way, so order events are delivered while the    *)
(* promise of a submit is still open.                                      *)
(***************************************************************************)
EXTENDS DemoBooks

CONSTANT Attempts      \* DEMO_RECONNECT_ATTEMPTS

ASSUME AttemptsAssumption == Attempts \in Nat \ {0}

VARIABLES
  connected,  \* m_connected
  commands,   \* m_commands
  awaiting,   \* the command whose promise the controller waits for
  answer,     \* the value of that promise
  io,         \* where the thread is, and in which command
  session     \* m_orders, the position maps and m_providerSequence

sessionVars == <<connected, commands, awaiting, answer, io, session>>

None == [ kind |-> "none", leg |-> "Entry", quantity |-> 0 ]
Submit(l, q) == [ kind |-> "submit", leg |-> l, quantity |-> q ]
Reconcile(l) == [ kind |-> "reconcile", leg |-> l, quantity |-> 0 ]

Command ==
  {None} \cup { Submit(l, q) : l \in Legs, q \in 1 .. Qty }
         \cup { Reconcile(l) : l \in Legs }

\* A promise's value: of a submit only ok counts, of a reconcile all of it.
Pending == [ ready |-> FALSE, ok |-> FALSE, position |-> 0, pending |-> FALSE ]
Failure == [ Pending EXCEPT !.ready = TRUE ]
Success == [ Failure EXCEPT !.ok = TRUE ]
Snapshot(position, pending) ==
  [ Success EXCEPT !.position = position, !.pending = pending ]

\* Sequence 1 is the request's, 2 to 4 are the gateway's; events come after.
FirstProviderSequence == 5

(***************************************************************************)
(* The I/O thread with no command: at the top of its run loop, or in the   *)
(* read that follows when no command was queued.                           *)
(***************************************************************************)
Idle ==
  [ mode |-> "loop", job |-> None, attempt |-> 0, recovering |-> FALSE,
    retried |-> FALSE, stage |-> "reconcile", view |-> Pending ]

SessionInit ==
  /\ connected = TRUE
  /\ commands = << >>
  /\ awaiting = None
  /\ answer = Pending
  /\ io = Idle
  /\ session = [ known |-> {}, accepted |-> {}, adopted |-> FALSE,
                 mapped |-> FALSE, closing |-> "Entry",
                 cumulative |-> [ l \in Legs |-> 0 ],
                 sequence |-> FirstProviderSequence ]

--------------------------------------------------------------------------------
\* The controller's side: enqueue(), and a future that is no longer awaited.

Enqueue(c) ==
  /\ commands' = Append(commands, c)
  /\ awaiting' = c
  /\ answer' = Pending

Abandon == awaiting' = None /\ answer' = Pending

--------------------------------------------------------------------------------
\* Settling a command, and the way back to the run loop.

Settle(job, value) ==
  answer' = IF job = awaiting /\ job # None THEN value ELSE answer

FinishJob(value) == Settle(io.job, value) /\ io' = Idle

\* A query begins with a reconcile request on a connection that is up.
QueryIO(job, retried) ==
  [ Idle EXCEPT !.mode = "query", !.job = job, !.retried = retried ]

RecoverIO(job, attempt) ==
  [ Idle EXCEPT !.mode = "recover", !.job = job, !.recovering = TRUE,
                !.attempt = attempt ]

\* run() leaves its loop: all that is queued fails and the connection closes.
SessionEnds ==
  /\ connected' = FALSE
  /\ commands' = << >>
  /\ answer' = IF awaiting # None /\ ~answer.ready THEN Failure ELSE answer
  /\ io' = [ Idle EXCEPT !.mode = "down" ]
  /\ link' = FALSE /\ wire' = << >> /\ requests' = << >>
  /\ UNCHANGED <<venue, drops, awaiting, session, bookVars>>

--------------------------------------------------------------------------------
(***************************************************************************)
(* Taking a command.                                                       *)
(***************************************************************************)

\* The order becomes known to the session, whether or not it got through.
Registered(c) ==
  [ session EXCEPT !.known = @ \cup { c.leg },
                   !.closing = IF c.leg = "Entry" THEN @ ELSE c.leg ]

Placed(c) ==
  [ venue EXCEPT ![c.leg].state = "new", ![c.leg].asked = c.quantity ]

\* A close needs the native id of the position.
Submittable(c) == c.leg = "Entry" \/ session.mapped

SubmitRefused(c) ==
  /\ ~Submittable(c)
  /\ Settle(c, Failure)
  /\ UNCHANGED <<io, session, venueVars>>

SubmitSent(c) ==
  /\ Submittable(c) /\ link
  /\ venue' = Placed(c)
  /\ session' = Registered(c)
  /\ Settle(c, Success)
  /\ UNCHANGED <<io, linkVars, wire, requests>>

\* The write failed; whether the order reached the venue is not known.
SubmitAmbiguous(c) ==
  /\ Submittable(c) /\ ~link
  /\ venue' \in { venue, Placed(c) }
  /\ session' = Registered(c)
  /\ io' = RecoverIO(c, 0)
  /\ UNCHANGED <<answer, linkVars, wire, requests>>

QueryStarts(c) ==
  /\ IF link
     THEN /\ io' = QueryIO(c, FALSE)
          /\ requests' = Append(requests, "reconcile")
     ELSE /\ io' = RecoverIO(c, 0)
          /\ UNCHANGED requests
  /\ UNCHANGED <<answer, session, venue, linkVars, wire>>

TakeCommand ==
  /\ io.mode = "loop" /\ commands # << >>
  /\ commands' = Tail(commands)
  /\ LET c == Head(commands) IN
       \/ /\ c.kind = "submit"
          /\ SubmitRefused(c) \/ SubmitSent(c) \/ SubmitAmbiguous(c)
       \/ c.kind = "reconcile" /\ QueryStarts(c)
  /\ UNCHANGED <<connected, awaiting, bookVars>>

--------------------------------------------------------------------------------
(***************************************************************************)
(* queryReconciliation(): a reconcile request, then one for the profit and *)
(* loss of each position, and a snapshot from both replies.                *)
(***************************************************************************)

\* The query failed; a connection that dropped starts the one recovery.
QueryFails(dropped) ==
  /\ IF io.recovering
     THEN io' = RecoverIO(io.job, io.attempt + 1) /\ UNCHANGED answer
     ELSE IF dropped /\ ~io.retried
     THEN io' = RecoverIO(io.job, 0) /\ UNCHANGED answer
     ELSE FinishJob(Failure)
  /\ UNCHANGED <<connected, commands, awaiting, session, bookVars>>

\* Exactly one position, no order, and the entry not yet adopted.
Adopts(view) ==
  /\ view.position > 0 /\ ~view.pending
  /\ "Entry" \in session.known /\ ~session.adopted
  /\ ~session.mapped

(***************************************************************************)
(* The snapshot fails if the position came or went between the replies, if *)
(* the position is nobody's, or if a close is pending: a close order has   *)
(* no client id to know it by.  A recovery that gets a snapshot ends; then *)
(* a reconcile command asks once more.                                     *)
(***************************************************************************)
QueryCompletes(pnlPosition) ==
  LET view == io.view
      adopts == Adopts(view)
      coherent == (view.position > 0) = (pnlPosition > 0)
      ok == /\ view.ok /\ coherent
            /\ view.position > 0 => session.mapped \/ adopts
  IN  /\ session' = IF coherent /\ adopts
                    THEN [ session EXCEPT !.adopted = TRUE, !.mapped = TRUE ]
                    ELSE session
      /\ IF ~io.recovering
         THEN /\ FinishJob(IF ok THEN Snapshot(view.position, view.pending)
                                 ELSE Failure)
              /\ UNCHANGED requests
         ELSE IF ~ok
         THEN /\ io' = RecoverIO(io.job, io.attempt + 1)
              /\ UNCHANGED <<answer, requests>>
         ELSE IF io.job.kind = "reconcile"
         THEN /\ io' = QueryIO(io.job, TRUE)
              /\ requests' = Append(requests, "reconcile")
              /\ UNCHANGED answer
         ELSE FinishJob(Failure) /\ UNCHANGED requests
      /\ UNCHANGED <<connected, commands, awaiting, bookVars, venue, linkVars>>

--------------------------------------------------------------------------------
(***************************************************************************)
(* Order events.  A fill names the position: once that is mapped, it must  *)
(* be of the close under way or, without one, of the entry.                *)
(***************************************************************************)
Identified(m) ==
  /\ m.leg \in session.known
  /\ m.kind = "fill" =>
       m.leg = IF session.mapped THEN session.closing ELSE "Entry"

\* Mutant: a fill of an adopted entry is applied.
Ignored_Never(m) == FALSE

Ignored(m) == m.kind = "fill" /\ m.leg = "Entry" /\ session.adopted

Accepted(m) ==
  /\ Identified(m)
  /\ m.kind = "fill" => Ignored(m) \/ m.cumulative > session.cumulative[m.leg]

HandleEvent(m) ==
  IF Ignored(m) THEN UNCHANGED <<session, bookVars>>
  ELSE LET sequence == session.sequence + 1 IN
    IF m.kind # "fill"
    THEN /\ session' = [ session EXCEPT
                           !.sequence = sequence,
                           !.accepted = IF m.kind = "accept"
                                        THEN @ \cup {m.leg} ELSE @ \ {m.leg} ]
         /\ HandleAcknowledgement(m.leg, m.kind = "accept", sequence)
    ELSE /\ session' = [ session EXCEPT
                           !.sequence = sequence,
                           !.mapped = TRUE,
                           !.accepted = @ \cup {m.leg},
                           !.cumulative[m.leg] = m.cumulative ]
         /\ HandleExecution(m.leg, m.cumulative, sequence,
                            m.leg \notin session.accepted)

\* The loop reads one message and looks for a command again.
LoopReads ==
  /\ io.mode = "loop" /\ commands = << >>
  /\ io' = [ Idle EXCEPT !.mode = "read" ]
  /\ UNCHANGED <<venueVars, connected, commands, awaiting, answer, session, bookVars>>

ReadTimesOut ==
  /\ io.mode = "read" /\ link /\ wire = << >>
  /\ io' = Idle
  /\ UNCHANGED <<venueVars, connected, commands, awaiting, answer, session, bookVars>>

Reading == io.mode \in { "read", "query" } /\ wire # << >>

ReceiveEvent ==
  /\ Reading /\ Head(wire).kind # "reply" /\ Accepted(Head(wire))
  /\ HandleEvent(Head(wire))
  /\ wire' = Tail(wire)
  /\ io' = IF io.mode = "read" THEN Idle ELSE io
  /\ UNCHANGED <<venue, linkVars, requests, connected, commands, awaiting, answer>>

Expected(m) == m.kind = "reply" /\ io.mode = "query" /\ m.to = io.stage

\* Mutant: the orders of the reply are not counted.
ViewOf_NoOrders(m) ==
  [ ready |-> TRUE, ok |-> ~m.closeHeld, position |-> m.position,
    pending |-> FALSE ]

\* Mutant: only orders of the entry count.
ViewOf_EntryOnly(m) ==
  [ ready |-> TRUE, ok |-> TRUE, position |-> m.position,
    pending |-> m.entryHeld ]

\* What the reconcile reply says; a close order is nobody's.
ViewOf(m) ==
  [ ready |-> TRUE, ok |-> ~m.closeHeld, position |-> m.position,
    pending |-> m.entryHeld \/ m.closeHeld ]

ReceiveReply ==
  /\ Reading /\ Expected(Head(wire))
  /\ wire' = Tail(wire)
  /\ LET m == Head(wire) IN
       IF io.stage = "reconcile"
       THEN /\ io' = [ io EXCEPT
                         !.stage = "pnl",
                         !.view = ViewOf(m) ]
            /\ requests' = Append(requests, "pnl")
            /\ UNCHANGED <<connected, commands, awaiting, answer, session,
                           bookVars, venue, linkVars>>
       ELSE QueryCompletes(m.position)

\* The replies to a query that failed are nobody's: no correlation matches.
Late(m) == IF m.kind = "reply" THEN [ m EXCEPT !.to = "late" ] ELSE m

QueryForgets(unread) ==
  /\ wire' = [ i \in DOMAIN unread |-> Late(unread[i]) ]
  /\ requests' = [ i \in DOMAIN requests |-> "late" ]
  /\ UNCHANGED <<venue, linkVars>>

\* What cannot be handled fails a query, and ends the session in its run loop.
ReadFails(unread) ==
  IF io.mode = "read"
  THEN SessionEnds
  ELSE QueryForgets(unread) /\ QueryFails(FALSE)

ReceiveUnexpected ==
  /\ Reading
  /\ LET m == Head(wire) IN
       IF m.kind = "reply" THEN ~Expected(m) ELSE ~Accepted(m)
  /\ ReadFails(Tail(wire))

\* A quote the market state does not accept; those it does change no order.
SpotRefused ==
  /\ io.mode \in { "read", "query" } /\ link
  /\ ReadFails(wire)

--------------------------------------------------------------------------------
\* Silence, a dropped connection, and recoverTransport().

\* A read returns what has arrived before it times out; the rest comes late.
QueryTimesOut ==
  /\ io.mode = "query" /\ link /\ wire = << >>
  /\ QueryForgets(wire)
  /\ QueryFails(FALSE)

QueryFindsLinkDown ==
  /\ io.mode = "query" /\ ~link
  /\ QueryFails(TRUE)
  /\ UNCHANGED venueVars

ReadFindsLinkDown ==
  /\ io.mode = "read" /\ ~link
  /\ io' = RecoverIO(None, 0)
  /\ UNCHANGED <<venueVars, connected, commands, awaiting, answer, session, bookVars>>

\* Mutant: one attempt too many.
AttemptsLeft_OneMore == io.attempt <= Attempts

AttemptsLeft == io.attempt < Attempts

Reconnect ==
  /\ io.mode = "recover" /\ AttemptsLeft
  /\ link' = TRUE
  /\ wire' = << >>
  /\ requests' = << "reconcile" >>
  /\ io' = [ io EXCEPT !.mode = "query" ]
  /\ UNCHANGED <<venue, drops, connected, commands, awaiting, answer,
                 session, bookVars>>

ReconnectFails ==
  /\ io.mode = "recover" /\ AttemptsLeft
  /\ link' = FALSE
  /\ wire' = << >>
  /\ requests' = << >>
  /\ io' = RecoverIO(io.job, io.attempt + 1)
  /\ UNCHANGED <<venue, drops, connected, commands, awaiting, answer,
                 session, bookVars>>

RecoveryFails ==
  /\ io.mode = "recover" /\ ~AttemptsLeft
  /\ IF io.job = None
     THEN SessionEnds
     ELSE /\ FinishJob(Failure)
          /\ UNCHANGED <<venueVars, connected, commands, awaiting, session, bookVars>>

SessionStep ==
  \/ TakeCommand \/ LoopReads \/ ReadTimesOut
  \/ ReceiveEvent \/ ReceiveReply \/ ReceiveUnexpected \/ SpotRefused
  \/ QueryTimesOut \/ QueryFindsLinkDown \/ ReadFindsLinkDown
  \/ Reconnect \/ ReconnectFails \/ RecoveryFails
================================================================================
