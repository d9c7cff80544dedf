------------------------------- MODULE DemoVenue -------------------------------
(***************************************************************************)
(* The demo venue and the connection to it, as the session in src/ uses    *)
(* them.  The venue is external: it accepts, rejects and fills orders as   *)
(* it likes, drops what is left of an order, and answers requests.  Its    *)
(* events and answers reach the session over one connection, in order,     *)
(* unless EventsMayLag lets an answer overtake an event that was under     *)
(* way.  A connection that drops loses all that is under way on it.        *)
(***************************************************************************)
EXTENDS Integers, Sequences

CONSTANTS
  Qty,           \* units of the minimum volume the entry asks for
  EventsMayLag,  \* may an answer overtake an order event?
  MaxDrops       \* bound on the times the connection drops by itself

ASSUME QtyAssumption == Qty \in Nat \ {0}
ASSUME LagAssumption == EventsMayLag \in BOOLEAN
ASSUME DropsAssumption == MaxDrops \in Nat

VARIABLES
  venue,     \* what the venue holds of the order of each leg
  link,      \* is the connection up?
  drops,     \* how often it dropped by itself
  wire,      \* messages from the venue the session has not read
  requests   \* requests the venue has not answered

linkVars == <<link, drops>>
venueVars == <<venue, linkVars, wire, requests>>

Legs == { "Entry", "Close", "Residual" }

VenueOrder ==
  [ state : { "absent", "new", "working", "closed" },
    asked : 0 .. Qty, filled : 0 .. Qty ]

\* A request the session no longer waits for is a late one.
RequestKinds == { "reconcile", "pnl", "late" }

Message ==
  [ kind : { "accept", "reject" }, leg : Legs ]
    \cup [ kind : { "fill" }, leg : Legs, cumulative : 1 .. Qty ]
    \cup [ kind : { "reply" }, to : RequestKinds, position : 0 .. Qty,
           entryHeld : BOOLEAN, closeHeld : BOOLEAN ]

\* The open volume of the one position the legs open and close.
Exposure ==
  venue["Entry"].filled - venue["Close"].filled - venue["Residual"].filled

VenueInit ==
  /\ venue = [ l \in Legs |-> [ state |-> "absent", asked |-> 0, filled |-> 0 ] ]
  /\ link = TRUE
  /\ drops = 0
  /\ wire = << >>
  /\ requests = << >>

\* Only a connection that is up carries what the venue has to say.
Emit(m) == wire' = IF link THEN Append(wire, m) ELSE wire

New(l) == venue[l].state = "new"
Held(l) == venue[l].state \in { "new", "working" }

VenueAccept(l) ==
  /\ New(l)
  /\ venue' = [ venue EXCEPT ![l].state = "working" ]
  /\ Emit([ kind |-> "accept", leg |-> l ])
  /\ UNCHANGED <<linkVars, requests>>

VenueReject(l) ==
  /\ New(l)
  /\ venue' = [ venue EXCEPT ![l].state = "closed" ]
  /\ Emit([ kind |-> "reject", leg |-> l ])
  /\ UNCHANGED <<linkVars, requests>>

(***************************************************************************)
(* A market order may be filled without having been accepted first.  The   *)
(* venue closes no more of a position than there is.                       *)
(***************************************************************************)
VenueFill(l, n) ==
  LET cumulative == venue[l].filled + n IN
    /\ Held(l)
    /\ cumulative <= venue[l].asked
    /\ l # "Entry" => n <= Exposure
    /\ venue' = [ venue EXCEPT
                    ![l].filled = cumulative,
                    ![l].state = IF cumulative = venue[l].asked
                                 THEN "closed" ELSE "working" ]
    /\ Emit([ kind |-> "fill", leg |-> l, cumulative |-> cumulative ])
    /\ UNCHANGED <<linkVars, requests>>

\* The rest of an order is canceled or expires; the session ignores the event.
VenueDropsRest(l) ==
  /\ venue[l].state = "working"
  /\ venue' = [ venue EXCEPT ![l].state = "closed" ]
  /\ UNCHANGED <<linkVars, wire, requests>>

VenueReplies ==
  /\ link /\ requests # << >>
  /\ Emit([ kind |-> "reply", to |-> Head(requests), position |-> Exposure,
            entryHeld |-> Held("Entry"),
            closeHeld |-> Held("Close") \/ Held("Residual") ])
  /\ requests' = Tail(requests)
  /\ UNCHANGED <<venue, linkVars>>

\* An order the venue has not touched may be lost with the connection.
LinkDrops ==
  /\ link /\ drops < MaxDrops
  /\ link' = FALSE
  /\ drops' = drops + 1
  /\ wire' = << >>
  /\ requests' = << >>
  /\ \E lost \in SUBSET { l \in Legs : New(l) } :
       venue' = [ l \in Legs |-> IF l \in lost
                                 THEN [ venue[l] EXCEPT !.state = "closed" ]
                                 ELSE venue[l] ]

ReplyOvertakes ==
  /\ EventsMayLag
  /\ \E i \in 1 .. Len(wire) - 1 :
       /\ wire[i].kind # "reply" /\ wire[i + 1].kind = "reply"
       /\ wire' = [ wire EXCEPT ![i] = wire[i + 1], ![i + 1] = wire[i] ]
  /\ UNCHANGED <<venue, linkVars, requests>>

VenueStep ==
  \/ \E l \in Legs : \/ VenueAccept(l)
                     \/ VenueReject(l)
                     \/ \E n \in 1 .. Qty : VenueFill(l, n)
                     \/ VenueDropsRest(l)
  \/ VenueReplies
  \/ LinkDrops
  \/ ReplyOvertakes
================================================================================
