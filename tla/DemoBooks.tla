------------------------------- MODULE DemoBooks -------------------------------
(***************************************************************************)
(* What the engine believes about the commissioning orders, and how the    *)
(* two order callbacks of the session change it.  An event goes through    *)
(* BrokerGateway, which applies it to the order's lifecycle record and     *)
(* drops it if the record refuses; then through ExecutionEngine, which     *)
(* keeps the quantity still pending; then through the commissioning        *)
(* controller, which keeps the evidence of the leg and, for a fill,        *)
(* applies it to the portfolio mirror.                                     *)
(*                                                                         *)
(* The gateway's own keys and the session's acknowledgement keys hold a    *)
(* sequence number that is never used twice, so only fill keys can repeat. *)
(* Every event carries a sequence number; time stamps decide nothing.      *)
(***************************************************************************)
EXTENDS DemoVenue, LifecycleRecord

VARIABLES
  records,    \* the gateway's lifecycle record of each leg that has one
  fillKeys,   \* the fill keys its store has applied
  engine,     \* ExecutionEngine: legs with a context, and pending quantity
  evidence,   \* the controller's TrackedOrder of each leg
  mirror      \* BrokerPortfolioMirror

bookVars == <<records, fillKeys, engine, evidence, mirror>>

NoEvidence ==
  [ tracked |-> FALSE, acceptance |-> FALSE, filled |-> FALSE,
    rejected |-> FALSE, duplicate |-> FALSE, failure |-> FALSE ]

BooksInit ==
  /\ records = << >>
  /\ fillKeys = {}
  /\ engine = [ active |-> {}, pending |-> [ l \in Legs |-> 0 ] ]
  /\ evidence = [ l \in Legs |-> NoEvidence ]
  /\ mirror = [ provisional |-> 0, logical |-> 0, pending |-> FALSE,
                keys |-> {}, cumulative |-> [ l \in Legs |-> 0 ],
                sequence |-> [ l \in Legs |-> 0 ] ]

HasRecord(l) == l \in DOMAIN records

--------------------------------------------------------------------------------

\* Mutant: the quantity it had pending stays.
Inactive_Pending(e, l) == [ e EXCEPT !.active = @ \ {l} ]

\* ExecutionEngine forgets a leg: its context and what it had pending.
Inactive(e, l) ==
  [ active |-> e.active \ {l}, pending |-> [ e.pending EXCEPT ![l] = 0 ] ]

\* Acknowledgement callbacks: gateway, execution engine, controller.
HandleAcknowledgement(l, accepted, sequence) ==
  LET e == [ key |-> "fresh", ts |-> 0, seq |-> sequence,
             accepted |-> accepted, identified |-> TRUE ]
      applied == HasRecord(l) /\ AckResult(records[l], {}, e) = "Applied"
  IN  /\ records' = IF applied
                    THEN [ records EXCEPT ![l] = AckRecord(records[l], e) ]
                    ELSE records
      /\ engine' = IF applied /\ ~accepted /\ l \in engine.active
                   THEN Inactive(engine, l) ELSE engine
      /\ evidence' = IF applied /\ evidence[l].tracked
                     THEN [ evidence EXCEPT ![l].acceptance = accepted,
                                            ![l].rejected = ~accepted,
                                            ![l].failure = ~accepted ]
                     ELSE evidence
      /\ UNCHANGED <<fillKeys, mirror>>

--------------------------------------------------------------------------------
(***************************************************************************)
(* The mirror.  An entry's fills open a provisional position under the     *)
(* order's own id; a reconciliation replaces all positions by the one the  *)
(* venue reports, under its logical id, and closes reduce that one.        *)
(***************************************************************************)
MirrorFlat ==
  mirror.provisional = 0 /\ mirror.logical = 0 /\ ~mirror.pending

MirrorTotal == mirror.provisional + mirror.logical

\* Mutant: the positions the fills opened stay beside the reconciled one.
MirrorReconciled_Beside(position, pending) ==
  [ mirror EXCEPT !.logical = position, !.pending = pending ]

\* applyReconciliation() of a complete and matched snapshot.
MirrorReconciled(position, pending) ==
  [ mirror EXCEPT !.provisional = 0, !.logical = position, !.pending = pending ]

MirrorResult(l, cumulative, sequence) ==
  LET delta == cumulative - mirror.cumulative[l] IN
    IF <<l, cumulative>> \in mirror.keys THEN "Duplicate"
    ELSE IF sequence <= mirror.sequence[l] \/ delta <= 0 THEN "InvalidEvent"
    ELSE IF l # "Entry" /\ delta > mirror.logical THEN "InvalidTransition"
    ELSE "Applied"

MirrorExecuted(l, cumulative, sequence) ==
  LET delta == cumulative - mirror.cumulative[l] IN
    [ mirror EXCEPT
        !.provisional = IF l = "Entry" THEN @ + delta ELSE @,
        !.logical = IF l = "Entry" THEN @ ELSE @ - delta,
        !.keys = @ \cup { <<l, cumulative>> },
        !.cumulative[l] = cumulative, !.sequence[l] = sequence ]

\* What the controller makes of the mirror's verdict on a fill.
Witnessed(ev, verdict, complete, implied) ==
  IF verdict = "Applied"
  THEN [ ev EXCEPT !.filled = complete, !.acceptance = @ \/ implied ]
  ELSE IF verdict = "Duplicate" THEN [ ev EXCEPT !.duplicate = TRUE ]
  ELSE [ ev EXCEPT !.failure = TRUE ]

\* Execution callbacks: gateway, execution engine, controller with the mirror.
HandleExecution(l, cumulative, sequence, direct) ==
  LET e == [ key |-> <<l, cumulative>>, ts |-> 0, seq |-> sequence,
             cumulative |-> cumulative,
             remaining |-> IF HasRecord(l)
                           THEN records[l].requested - cumulative ELSE 0,
             conforms |-> TRUE ]
      applied == HasRecord(l) /\ FillResult(records[l], fillKeys, e) = "Applied"
      implied == direct \/ records[l].state = "Submitted"
      tracked == applied /\ evidence[l].tracked
      verdict == MirrorResult(l, cumulative, sequence)
  IN  /\ records' = IF applied
                    THEN [ records EXCEPT ![l] = FillRecord(records[l], e) ]
                    ELSE records
      /\ fillKeys' = IF applied THEN fillKeys \cup { e.key } ELSE fillKeys
      /\ engine' = IF ~applied \/ l \notin engine.active THEN engine
                   ELSE IF e.remaining = 0 THEN Inactive(engine, l)
                   ELSE [ engine EXCEPT !.pending[l] = e.remaining ]
      /\ evidence' = IF ~tracked THEN evidence
                     ELSE [ evidence EXCEPT ![l] =
                              Witnessed(@, verdict, e.remaining = 0, implied) ]
      /\ mirror' = IF tracked /\ verdict = "Applied"
                   THEN MirrorExecuted(l, cumulative, sequence) ELSE mirror
================================================================================
