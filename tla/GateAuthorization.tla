--------------------------- MODULE GateAuthorization ---------------------------
(***************************************************************************)
(* How gate 6 and gate 7 come by an access token.  Gate 6 always sends the *)
(* user through the browser and stores the token it gets; gate 7 takes the *)
(* stored one, refreshes it, or goes through the browser too.  The browser *)
(* comes back to a listener on the loopback interface, where               *)
(* CTraderOAuthCorrelationGuard lets one callback through: the one that    *)
(* carries the state of this very authorisation, in time.                  *)
(*                                                                         *)
(* Browser tabs outlive the program: what an earlier launch opened may     *)
(* call back into the listener of a later one, and be reloaded.            *)
(***************************************************************************)
EXTENDS Naturals, Sequences

CONSTANTS
  MaxGateLaunches,  \* bound: launches of either gate
  MaxCodes          \* bound: authorisation codes the provider issues

ASSUME AuthorizationAssumption ==
  MaxGateLaunches \in Nat /\ MaxCodes \in Nat

VARIABLES
  gate,         \* which gate runs
  authStep,     \* where it is
  gateLaunch,   \* how often a gate was launched: the entropy of its state
  keychain,     \* the stored token: "none", "usable" or "expired"
  guard,        \* CTraderOAuthCorrelationGuard
  tooLate,      \* the lifetime of the correlation has passed
  tabs,         \* the states of the authorisation pages ever opened
  granted,      \* callbacks open browser tabs may send, again and again
  accepted,     \* the callback being read
  exchanged     \* history: the codes sent to the token endpoint

authVars == <<gate, authStep, gateLaunch, keychain, guard, tooLate, tabs,
              granted, accepted, exchanged>>

NoState == 0
NoCode == 0
NoCallback == [ state |-> NoState, code |-> NoCode ]

--------------------------------------------------------------------------------
(***************************************************************************)
(* CTraderOAuthCorrelationGuard.                                           *)
(***************************************************************************)

Unarmed == [ phase |-> "Unarmed", state |-> NoState, decision |-> "Unarmed" ]

Ended(decision) ==
  [ phase |-> "Terminal", state |-> NoState, decision |-> decision ]

\* arm() draws a new state for every authorisation.
FreshState == gateLaunch

\* armWithEntropy(): a second call ends an armed guard.
Armed(g, state) ==
  IF g.phase = "Unarmed"
  THEN [ phase |-> "Armed", state |-> state, decision |-> "Armed" ]
  ELSE Ended("AlreadyTerminal")

\* stateForAuthorizationRequest()
StateForAuthorizationRequest(g) ==
  IF g.phase = "Armed" THEN g.state ELSE NoState

\* parseQuery(): one code and one state, both with a value, and no error.
ParsedQuery(callback) == callback.code # NoCode /\ callback.state # NoState

\* Mutant: the state of the callback is not compared.
Consumed_AnyState(g, callback, late) ==
  IF g.phase = "Armed" /\ ~late /\ ParsedQuery(callback)
  THEN Ended("CorrelationMatched")
  ELSE Ended("Rejected")

\* consume(): one callback, whatever it is, ends the guard.
Consumed(g, callback, late) ==
  IF g.phase = "Terminal" THEN Ended("AlreadyTerminal")
  ELSE IF g.phase = "Armed" /\ ~late /\ ParsedQuery(callback)
          /\ callback.state = g.state
  THEN Ended("CorrelationMatched")
  ELSE Ended("Rejected")

ExpireIfDue(g, late) ==
  IF g.phase = "Armed" /\ ~late THEN g
  ELSE IF g.phase = "Terminal" THEN Ended("AlreadyTerminal")
  ELSE Ended("Rejected")

Cancel(g) ==
  IF g.phase = "Terminal" THEN Ended("AlreadyTerminal") ELSE Ended("Cancelled")

--------------------------------------------------------------------------------

AuthInit ==
  /\ gate = "none" /\ authStep = "down" /\ gateLaunch = 0
  /\ keychain \in { "none", "usable", "expired" }
  /\ guard = Unarmed /\ tooLate = FALSE
  /\ tabs = {} /\ granted = {} /\ accepted = NoCallback /\ exchanged = <<>>

\* fail(): the process ends.
Fail(g) ==
  /\ authStep' = "down" /\ guard' = g /\ accepted' = NoCallback

LaunchGate ==
  /\ authStep = "down" /\ gateLaunch < MaxGateLaunches
  /\ gateLaunch' = gateLaunch + 1
  /\ \/ gate' = "gate6" /\ authStep' = "authorize"
     \/ gate' = "gate7" /\ authStep' = "stored"
  /\ guard' = Unarmed /\ tooLate' = FALSE /\ accepted' = NoCallback
  /\ UNCHANGED <<keychain, tabs, granted, exchanged>>

\* Gate 7: a usable token is used, one that can be refreshed is refreshed
\* once.  What the refresh returns is not stored.  A token that is not there,
\* cannot be read or parsed, or has nothing to refresh it with is left for the
\* browser; a missing secret or a failed refresh ends the launch.
ReadStoredToken ==
  /\ authStep = "stored"
  /\ \/ keychain # "none" /\ authStep' = "ready"
     \/ authStep' \in { "authorize", "down" }
  /\ UNCHANGED <<gate, gateLaunch, keychain, guard, tooLate, tabs, granted,
                 accepted, exchanged>>

\* The listener is bound, the guard armed, the browser opened on a URL with
\* its state.  The user may grant what is asked, at any time from now on.
OpenBrowser ==
  /\ authStep = "authorize"
  /\ \/ guard' = Armed(guard, FreshState) /\ authStep' = "listening"
        /\ tabs' = tabs \cup { StateForAuthorizationRequest(guard') }
        /\ UNCHANGED accepted
     \/ /\ \E g \in { guard, Cancel(Armed(guard, FreshState)) } : Fail(g)
        /\ UNCHANGED tabs
  /\ UNCHANGED <<gate, gateLaunch, keychain, tooLate, granted, exchanged>>

\* The provider and the browser (external).
Codes == { c.code : c \in granted }

UserGrants(state) ==
  /\ \E code \in (1 .. MaxCodes) \ Codes :
       granted' = granted \cup { [ state |-> state, code |-> code ] }
  /\ UNCHANGED <<gate, authStep, gateLaunch, keychain, guard, tooLate, tabs,
                 accepted, exchanged>>

TimePasses ==
  /\ authStep \in { "listening", "reading" } /\ ~tooLate /\ tooLate' = TRUE
  /\ UNCHANGED <<gate, authStep, gateLaunch, keychain, guard, tabs, granted,
                 accepted, exchanged>>

TokenExpires ==
  /\ keychain = "usable" /\ authStep = "down" /\ keychain' = "expired"
  /\ UNCHANGED <<gate, authStep, gateLaunch, guard, tooLate, tabs, granted,
                 accepted, exchanged>>

\* accept(): any local connection will do, also one that is no callback.
AcceptConnection(callback) ==
  /\ authStep = "listening" /\ ~tooLate
  /\ authStep' = "reading" /\ accepted' = callback
  /\ UNCHANGED <<gate, gateLaunch, keychain, guard, tooLate, tabs, granted, exchanged>>

\* The time is up, or poll() or accept() fails before.
ListenerEnds ==
  /\ authStep = "listening"
  /\ Fail(IF tooLate THEN ExpireIfDue(guard, tooLate) ELSE Cancel(guard))
  /\ UNCHANGED <<gate, gateLaunch, keychain, tooLate, tabs, granted, exchanged>>

\* The request is not complete in time, or no HTTP request.
ReadFails ==
  /\ authStep = "reading" /\ Fail(Cancel(guard))
  /\ UNCHANGED <<gate, gateLaunch, keychain, tooLate, tabs, granted, exchanged>>

ConsumeCallback ==
  /\ authStep = "reading"
  /\ LET g == Consumed(guard, accepted, tooLate)
     IN \/ /\ g.decision = "CorrelationMatched"
           /\ guard' = g /\ authStep' = "exchanging" /\ UNCHANGED accepted
        \/ g.decision # "CorrelationMatched" /\ Fail(g)
  /\ UNCHANGED <<gate, gateLaunch, keychain, tooLate, tabs, granted, exchanged>>

\* The code goes out once, whatever becomes of it.
Sent ==
  exchanged' = Append(exchanged, [ state |-> accepted.state, code |-> accepted.code,
                                   launch |-> gateLaunch ])

\* Gate 6 checks the lifetime of the token and stores it before it goes on.
ExchangeAndStore ==
  /\ authStep = "exchanging" /\ gate = "gate6" /\ Sent
  /\ \/ keychain' = "usable" /\ authStep' = "ready" /\ accepted' = NoCallback
        /\ UNCHANGED guard
     \/ UNCHANGED keychain /\ Fail(guard)
  /\ UNCHANGED <<gate, gateLaunch, tooLate, tabs, granted>>

\* Gate 7 uses it and does not store it.
ExchangeForUse ==
  /\ authStep = "exchanging" /\ gate = "gate7" /\ Sent
  /\ \/ authStep' = "ready" /\ accepted' = NoCallback /\ UNCHANGED guard
     \/ Fail(guard)
  /\ UNCHANGED <<gate, gateLaunch, keychain, tooLate, tabs, granted>>

\* The gate does its work with the token and ends.
GateEnds ==
  /\ authStep = "ready" /\ Fail(guard)
  /\ UNCHANGED <<gate, gateLaunch, keychain, tooLate, tabs, granted, exchanged>>

AuthNext ==
  \/ LaunchGate \/ ReadStoredToken \/ OpenBrowser
  \/ \E state \in tabs : UserGrants(state)
  \/ TimePasses \/ TokenExpires
  \/ \E callback \in granted \cup { NoCallback } : AcceptConnection(callback)
  \/ ListenerEnds \/ ReadFails \/ ConsumeCallback
  \/ ExchangeAndStore \/ ExchangeForUse \/ GateEnds

AuthSpec == AuthInit /\ [][AuthNext]_authVars

--------------------------------------------------------------------------------

Callback == [ state : 1 .. MaxGateLaunches, code : 1 .. MaxCodes ]

AuthTypeOK ==
  /\ gate \in { "none", "gate6", "gate7" }
  /\ authStep \in { "down", "authorize", "stored", "listening", "reading",
                    "exchanging", "ready" }
  /\ gateLaunch \in 0 .. MaxGateLaunches
  /\ keychain \in { "none", "usable", "expired" }
  /\ guard.phase \in { "Unarmed", "Armed", "Terminal" }
  /\ guard.state \in 0 .. MaxGateLaunches
  /\ tooLate \in BOOLEAN
  /\ tabs \subseteq 1 .. MaxGateLaunches /\ granted \subseteq Callback
  /\ accepted \in Callback \cup { NoCallback }

(***************************************************************************)
(* An authorisation code reaches the token endpoint at most once, over all *)
(* launches, and only in the launch it was granted for.                    *)
(***************************************************************************)
CodeUsedOnce ==
  \A i \in 1 .. Len(exchanged) :
    /\ exchanged[i].state = exchanged[i].launch
    /\ \A j \in 1 .. Len(exchanged) :
         exchanged[i].code = exchanged[j].code => i = j
================================================================================
