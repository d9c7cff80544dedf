-------------------------- MODULE Gates_proofs --------------------------
(***************************************************************************)
(* What the gates let through: an authorisation code once, in the launch   *)
(* it was granted for; to one account, which the human confirmed by its    *)
(* title; and a quote of the one account that may be asked for it.         *)
(***************************************************************************)
EXTENDS GateAuthorization, DemoAccountGate, QuoteGate, FiniteSetTheorems,
        SequenceTheorems, WellFoundedInduction, TLAPS

--------------------------------------------------------------------------------
(***************************************************************************)
(* An authorisation code is used once, for any number of launches, codes   *)
(* and callbacks: the codes granted differ from one another, a launch      *)
(* sends at most one, and it is one granted to that launch.                *)
(***************************************************************************)

Guards == [ phase : { "Unarmed", "Armed", "Terminal" },
            state : 0 .. MaxGateLaunches,
            decision : { "Unarmed", "Armed", "AlreadyTerminal", "Rejected",
                         "CorrelationMatched", "Cancelled" } ]

Exchange == [ state : 1 .. MaxGateLaunches, code : 1 .. MaxCodes,
              launch : 1 .. MaxGateLaunches ]

\* What is where, as far as the argument needs it.
AuthTypes ==
  /\ gateLaunch \in 0 .. MaxGateLaunches
  /\ authStep # "down" => gateLaunch > 0
  /\ guard \in Guards
  /\ granted \subseteq Callback
  /\ accepted \in granted \cup { NoCallback }
  /\ exchanged \in Seq(Exchange)

\* The provider never issues a code again.
CodesDiffer == \A c, d \in granted : c.code = d.code => c = d

\* Only launches so far have opened pages.
TabsOfLaunches == tabs \subseteq 1 .. gateLaunch

\* The guard is armed while the listener waits, with the state of this launch.
ArmedForThisLaunch ==
  /\ authStep \in { "stored", "authorize" } => guard.phase = "Unarmed"
  /\ guard.phase = "Armed" => /\ authStep \in { "listening", "reading" }
                              /\ guard.state = gateLaunch

\* What passed the guard was granted to this launch.
MatchedIsOurs ==
  authStep = "exchanging" => accepted \in granted /\ accepted.state = gateLaunch

\* What was sent was granted, to the launch that sent it.
SentWasGranted ==
  \A i \in 1 .. Len(exchanged) :
    /\ exchanged[i].state = exchanged[i].launch
    /\ exchanged[i].launch <= gateLaunch
    /\ [ state |-> exchanged[i].state, code |-> exchanged[i].code ] \in granted

\* A launch that can still send a code has sent none.
Unsent == { "authorize", "stored", "listening", "reading", "exchanging" }

OnePerLaunch ==
  /\ \A i, j \in 1 .. Len(exchanged) :
       exchanged[i].launch = exchanged[j].launch => i = j
  /\ authStep \in Unsent =>
       \A i \in 1 .. Len(exchanged) : exchanged[i].launch # gateLaunch

AuthInv ==
  /\ AuthTypes /\ CodesDiffer /\ TabsOfLaunches /\ ArmedForThisLaunch
  /\ MatchedIsOurs /\ SentWasGranted /\ OnePerLaunch

--------------------------------------------------------------------------------

\* Nothing was granted or sent before the first launch.
LEMMA AuthInvInit ==
  ASSUME AuthInit PROVE AuthInv
<1>1. exchanged \in Seq(Exchange) /\ Len(exchanged) = 0
  BY EmptySeq DEF AuthInit
<1>2. AuthTypes
  BY <1>1, AuthorizationAssumption DEF AuthInit, AuthTypes, Guards, Unarmed, NoState
<1> QED
  BY <1>1, <1>2
     DEF AuthInit, AuthInv, CodesDiffer, TabsOfLaunches, ArmedForThisLaunch,
         MatchedIsOurs, SentWasGranted, OnePerLaunch, Unarmed

\* A code that matched is sent: the sequence grows by an exchange of this launch.
LEMMA SentIsOurs ==
  ASSUME AuthInv, authStep = "exchanging", Sent
  PROVE  /\ exchanged' \in Seq(Exchange)
         /\ Len(exchanged') = Len(exchanged) + 1
         /\ \A i \in 1 .. Len(exchanged) : exchanged'[i] = exchanged[i]
         /\ exchanged'[Len(exchanged) + 1] =
              [ state |-> gateLaunch, code |-> accepted.code, launch |-> gateLaunch ]
         /\ [ state |-> gateLaunch, code |-> accepted.code ] \in granted
<1> DEFINE e == [ state |-> accepted.state, code |-> accepted.code,
                  launch |-> gateLaunch ]
<1>1. accepted \in granted /\ accepted.state = gateLaunch /\ accepted \in Callback
  BY DEF AuthInv, AuthTypes, MatchedIsOurs
<1>2. gateLaunch \in 1 .. MaxGateLaunches
  BY AuthorizationAssumption DEF AuthInv, AuthTypes
<1>3. e \in Exchange
  BY <1>1, <1>2 DEF Exchange, Callback
<1>4. exchanged \in Seq(Exchange)
  BY DEF AuthInv, AuthTypes
<1>5. exchanged' = Append(exchanged, e)
  BY DEF Sent
<1>6. accepted = [ state |-> gateLaunch, code |-> accepted.code ]
  BY <1>1 DEF Callback
<1>7. e = [ state |-> gateLaunch, code |-> accepted.code, launch |-> gateLaunch ]
  BY <1>1
<1> HIDE DEF e
<1>8. /\ exchanged' \in Seq(Exchange)
      /\ Len(exchanged') = Len(exchanged) + 1
      /\ \A i \in 1 .. Len(exchanged) : exchanged'[i] = exchanged[i]
      /\ exchanged'[Len(exchanged) + 1] = e
  BY <1>3, <1>4, <1>5, AppendProperties
<1> QED  BY <1>1, <1>6, <1>7, <1>8

\* After a code was sent the launch is done with codes: what is left to check
\* of a step that sends one.
LEMMA SendingKeepsOrder ==
  ASSUME AuthInv, authStep = "exchanging", Sent, authStep' \in { "ready", "down" },
         UNCHANGED <<gateLaunch, granted>>
  PROVE  exchanged' \in Seq(Exchange) /\ SentWasGranted' /\ OnePerLaunch'
<1>1. Len(exchanged) \in Nat /\ gateLaunch \in Nat
  BY AuthorizationAssumption, LenProperties DEF AuthInv, AuthTypes
<1>2. \A i \in 1 .. Len(exchanged) : exchanged[i].launch # gateLaunch
  BY DEF AuthInv, OnePerLaunch, Unsent
<1>3. SentWasGranted'
  BY SentIsOurs, <1>1 DEF AuthInv, SentWasGranted
<1>4. OnePerLaunch'
  <2>1. /\ Len(exchanged') = Len(exchanged) + 1
        /\ \A i \in 1 .. Len(exchanged) : exchanged'[i] = exchanged[i]
        /\ exchanged'[Len(exchanged) + 1].launch = gateLaunch
    BY SentIsOurs
  <2>2. \A i \in 1 .. Len(exchanged') : i \in 1 .. Len(exchanged) \/ i = Len(exchanged) + 1
    BY <1>1, <2>1
  <2>3. \A i, j \in 1 .. Len(exchanged) :
          exchanged[i].launch = exchanged[j].launch => i = j
    BY DEF AuthInv, OnePerLaunch
  <2>4. ASSUME NEW i \in 1 .. Len(exchanged'), NEW j \in 1 .. Len(exchanged'),
               exchanged'[i].launch = exchanged'[j].launch
        PROVE  i = j
    BY <1>2, <2>1, <2>2, <2>3, <2>4
  <2> QED  BY <2>4 DEF OnePerLaunch, Unsent
<1> QED  BY SentIsOurs, <1>3, <1>4

\* Every step keeps the invariant.
LEMMA AuthInvNext ==
  ASSUME AuthInv, [AuthNext]_authVars PROVE AuthInv'
<1> USE AuthorizationAssumption DEF AuthInv
<1>0. /\ gateLaunch \in Nat /\ Unarmed \in Guards
      /\ \A d \in { "AlreadyTerminal", "Rejected", "CorrelationMatched", "Cancelled" } :
           Ended(d) \in Guards /\ Ended(d).phase = "Terminal"
  BY DEF AuthTypes, Guards, Unarmed, Ended, NoState
<1>1. CASE LaunchGate
  <2>1. AuthTypes'
    BY <1>0, <1>1 DEF LaunchGate, AuthTypes
  <2>2. \A i \in 1 .. Len(exchanged) :
          exchanged[i].launch \in Nat /\ exchanged[i].launch # gateLaunch + 1
    <3> SUFFICES ASSUME NEW i \in 1 .. Len(exchanged)
                 PROVE  /\ exchanged[i].launch \in Nat
                        /\ exchanged[i].launch # gateLaunch + 1
      OBVIOUS
    <3>1. exchanged[i] \in Exchange
      BY ElementOfSeq DEF AuthTypes
    <3>2. exchanged[i].launch \in 1 .. MaxGateLaunches
      BY <3>1 DEF Exchange
    <3>3. exchanged[i].launch <= gateLaunch
      BY DEF SentWasGranted
    <3> QED  BY <1>0, <3>2, <3>3
  <2>3. TabsOfLaunches'
    BY <1>0, <1>1 DEF LaunchGate, TabsOfLaunches
  <2>4. SentWasGranted'
    BY <1>0, <1>1, <2>2 DEF LaunchGate, SentWasGranted
  <2>5. OnePerLaunch'
    BY <1>1, <2>2 DEF LaunchGate, OnePerLaunch
  <2>6. CodesDiffer' /\ ArmedForThisLaunch' /\ MatchedIsOurs'
    BY <1>0, <1>1
       DEF LaunchGate, CodesDiffer, ArmedForThisLaunch, MatchedIsOurs, Unarmed
  <2> QED  BY <2>1, <2>3, <2>4, <2>5, <2>6
<1>2. CASE ReadStoredToken
  BY <1>2 DEF ReadStoredToken, AuthTypes, CodesDiffer, TabsOfLaunches,
              ArmedForThisLaunch, MatchedIsOurs, SentWasGranted, OnePerLaunch, Unsent
<1>3. CASE OpenBrowser
  <2> USE DEF OpenBrowser
  <2>1. CodesDiffer' /\ SentWasGranted' /\ gateLaunch' = gateLaunch
        /\ gateLaunch \in 1 .. MaxGateLaunches
    BY <1>3 DEF CodesDiffer, SentWasGranted, AuthTypes
  <2>2. CASE /\ guard' = Armed(guard, FreshState) /\ authStep' = "listening"
             /\ tabs' = tabs \cup { StateForAuthorizationRequest(guard') }
             /\ UNCHANGED accepted
    <3>1. guard' = [ phase |-> "Armed", state |-> gateLaunch, decision |-> "Armed" ]
      BY <1>3, <2>2 DEF Armed, FreshState, ArmedForThisLaunch
    <3>2. guard' \in Guards /\ tabs' = tabs \cup { gateLaunch }
      BY <2>1, <2>2, <3>1 DEF Guards, StateForAuthorizationRequest
    <3>3. AuthTypes'
      BY <1>3, <2>1, <2>2, <3>2 DEF AuthTypes
    <3>4. TabsOfLaunches'
      BY <1>0, <2>1, <3>2 DEF TabsOfLaunches
    <3>5. ArmedForThisLaunch' /\ MatchedIsOurs' /\ OnePerLaunch'
      BY <1>3, <2>2, <3>1 DEF ArmedForThisLaunch, MatchedIsOurs, OnePerLaunch, Unsent
    <3> QED  BY <2>1, <3>3, <3>4, <3>5
  <2>3. CASE /\ \E g \in { guard, Cancel(Armed(guard, FreshState)) } : Fail(g)
             /\ UNCHANGED tabs
    <3>1. guard.phase = "Unarmed" /\ guard \in Guards
      BY <1>3 DEF ArmedForThisLaunch, AuthTypes
    <3>2. guard' \in Guards /\ guard'.phase # "Armed" /\ authStep' = "down"
          /\ accepted' = NoCallback
      BY <1>0, <2>3, <3>1 DEF Fail, Cancel
    <3>3. AuthTypes' /\ TabsOfLaunches' /\ ArmedForThisLaunch' /\ MatchedIsOurs'
      BY <1>3, <2>3, <3>2 DEF AuthTypes, TabsOfLaunches, ArmedForThisLaunch, MatchedIsOurs
    <3>4. OnePerLaunch'
      BY <1>3, <3>2 DEF OnePerLaunch, Unsent
    <3> QED  BY <2>1, <3>3, <3>4
  <2> QED  BY <1>3, <2>2, <2>3
<1>4. ASSUME NEW state \in tabs, UserGrants(state) PROVE AuthInv'
  <2>1. PICK code \in (1 .. MaxCodes) \ Codes :
          granted' = granted \cup { [ state |-> state, code |-> code ] }
    BY <1>4 DEF UserGrants
  <2>2. state \in 1 .. MaxGateLaunches
    BY DEF AuthTypes, TabsOfLaunches
  <2>3. AuthTypes' /\ TabsOfLaunches'
    BY <1>4, <2>1, <2>2 DEF UserGrants, AuthTypes, TabsOfLaunches, Callback
  <2>4. CodesDiffer'
    BY <2>1 DEF CodesDiffer, Codes
  <2>5. ArmedForThisLaunch' /\ MatchedIsOurs'
    BY <1>4, <2>1 DEF UserGrants, ArmedForThisLaunch, MatchedIsOurs
  <2>6. SentWasGranted' /\ OnePerLaunch'
    BY <1>4, <2>1 DEF UserGrants, SentWasGranted, OnePerLaunch
  <2> QED  BY <2>3, <2>4, <2>5, <2>6
<1>5. CASE TimePasses \/ TokenExpires
  BY <1>5 DEF TimePasses, TokenExpires, AuthTypes, CodesDiffer, TabsOfLaunches,
              ArmedForThisLaunch, MatchedIsOurs, SentWasGranted, OnePerLaunch
<1>6. ASSUME NEW callback \in granted \cup { NoCallback }, AcceptConnection(callback)
      PROVE  AuthInv'
  BY <1>6 DEF AcceptConnection, AuthTypes, CodesDiffer, TabsOfLaunches,
              ArmedForThisLaunch, MatchedIsOurs, SentWasGranted, OnePerLaunch, Unsent
<1>7. CASE ListenerEnds \/ ReadFails \/ GateEnds
  <2>1. guard' \in Guards /\ guard'.phase # "Armed"
    BY <1>0, <1>7 DEF ListenerEnds, ReadFails, GateEnds, Fail, ExpireIfDue,
                      Cancel, AuthTypes, ArmedForThisLaunch
  <2>2. /\ authStep' = "down" /\ accepted' = NoCallback
        /\ UNCHANGED <<gateLaunch, tabs, granted, exchanged>>
    BY <1>7 DEF ListenerEnds, ReadFails, GateEnds, Fail
  <2> QED
    BY <2>1, <2>2
       DEF AuthTypes, CodesDiffer, TabsOfLaunches, ArmedForThisLaunch,
           MatchedIsOurs, SentWasGranted, OnePerLaunch, Unsent
<1>8. CASE ConsumeCallback
  <2> DEFINE g == Consumed(guard, accepted, tooLate)
  <2>1. g \in Guards /\ g.phase = "Terminal"
    BY <1>0 DEF Consumed
  <2>2. g.decision = "CorrelationMatched" =>
          accepted \in granted /\ accepted.state = gateLaunch
    BY DEF Consumed, Ended, ParsedQuery, AuthTypes, ArmedForThisLaunch, NoCallback
  <2>3. authStep = "reading" /\ UNCHANGED <<gateLaunch, tabs, granted, exchanged>>
    BY <1>8 DEF ConsumeCallback
  <2>4. /\ guard' = g
        /\ \/ /\ g.decision = "CorrelationMatched" /\ authStep' = "exchanging"
              /\ UNCHANGED accepted
           \/ authStep' = "down" /\ accepted' = NoCallback
    BY <1>8 DEF ConsumeCallback, Fail
  <2> HIDE DEF g
  <2>5. AuthTypes' /\ MatchedIsOurs'
    BY <2>1, <2>2, <2>3, <2>4 DEF AuthTypes, MatchedIsOurs
  <2>6. CodesDiffer' /\ TabsOfLaunches' /\ ArmedForThisLaunch' /\ SentWasGranted'
    BY <2>1, <2>3, <2>4 DEF CodesDiffer, TabsOfLaunches, ArmedForThisLaunch, SentWasGranted
  <2>7. OnePerLaunch'
    BY <2>3, <2>4 DEF OnePerLaunch, Unsent
  <2> QED  BY <2>5, <2>6, <2>7
<1>9. CASE ExchangeAndStore \/ ExchangeForUse
  <2>1. /\ authStep = "exchanging" /\ Sent /\ UNCHANGED <<gateLaunch, tabs, granted, guard>>
        /\ authStep' \in { "ready", "down" } /\ accepted' = NoCallback
    BY <1>9 DEF ExchangeAndStore, ExchangeForUse, Fail
  <2>2. exchanged' \in Seq(Exchange) /\ SentWasGranted' /\ OnePerLaunch'
    BY <2>1, SendingKeepsOrder
  <2>3. AuthTypes' /\ MatchedIsOurs'
    BY <2>1, <2>2 DEF AuthTypes, MatchedIsOurs
  <2>4. CodesDiffer' /\ TabsOfLaunches' /\ ArmedForThisLaunch'
    BY <2>1 DEF CodesDiffer, TabsOfLaunches, ArmedForThisLaunch
  <2> QED  BY <2>2, <2>3, <2>4
<1>10. CASE UNCHANGED authVars
  BY <1>10 DEF authVars, AuthTypes, CodesDiffer, TabsOfLaunches,
               ArmedForThisLaunch, MatchedIsOurs, SentWasGranted, OnePerLaunch
<1> QED  BY <1>1, <1>2, <1>3, <1>4, <1>5, <1>6, <1>7, <1>8, <1>9, <1>10 DEF AuthNext

\* AuthSpec keeps AuthInv.
THEOREM AuthSafe == AuthSpec => []AuthInv
<1>1. AuthInit => AuthInv
  BY AuthInvInit
<1>2. AuthInv /\ [AuthNext]_authVars => AuthInv'
  BY AuthInvNext
<1> QED  BY <1>1, <1>2, PTL DEF AuthSpec

\* Two exchanges of one code are one: the code names the callback, the callback
\* its launch, and the launch sent one code.
LEMMA InvUsesCodeOnce ==
  ASSUME AuthInv PROVE CodeUsedOnce
<1> SUFFICES ASSUME NEW i \in 1 .. Len(exchanged)
             PROVE  /\ exchanged[i].state = exchanged[i].launch
                    /\ \A j \in 1 .. Len(exchanged) :
                         exchanged[i].code = exchanged[j].code => i = j
  BY DEF CodeUsedOnce
<1>1. ASSUME NEW j \in 1 .. Len(exchanged), exchanged[i].code = exchanged[j].code
      PROVE  exchanged[i].state = exchanged[j].state
  BY <1>1 DEF AuthInv, SentWasGranted, CodesDiffer
<1> QED  BY <1>1 DEF AuthInv, SentWasGranted, OnePerLaunch

\* A code is used once, in the launch it was granted for.
THEOREM CodeIsUsedOnce == AuthSpec => []CodeUsedOnce
<1>1. AuthInv => CodeUsedOnce
  BY InvUsesCodeOnce
<1> QED  BY <1>1, AuthSafe, PTL

--------------------------------------------------------------------------------
(***************************************************************************)
(* Gate 6: no account is authenticated but the one that was approved, for  *)
(* any accounts and titles, and whatever changes between the two lists.    *)
(* The argument follows the title: it is one of those shown, it stays the  *)
(* approved one, and exactly one account of the second list carries it.    *)
(***************************************************************************)

\* How many requests went out, and what the proof object is at each step.
Asked6Before ==
  [ connectA |-> 0, applicationA |-> 0, accountsA |-> 1, checkpoint |-> 2,
    connectB |-> 2, applicationB |-> 2, accountsB |-> 3, account |-> 4 ]

Phase6At ==
  [ connectA |-> "Gate6AReady", applicationA |-> "Gate6AReady",
    accountsA |-> "Gate6AReady", checkpoint |-> "AwaitingWade",
    connectB |-> "Gate6BReady", applicationB |-> "Gate6BReady",
    accountsB |-> "Gate6BReady", account |-> "AccountAuthReady" ]

Listed6Before ==
  [ connectA |-> 0, applicationA |-> 0, accountsA |-> 0, checkpoint |-> 1,
    connectB |-> 1, applicationB |-> 1, accountsB |-> 1, account |-> 2 ]

Requests6 ==
  [ type : { "application", "accounts", "account" },
    account : { a.id : a \in GateAccounts } \cup { NoAccount } ]

Proofs6 ==
  [ phase : { "Gate6AReady", "AwaitingWade", "Gate6BReady", "AccountAuthReady",
              "Complete", "Terminal" },
    candidates : SUBSET Titles, approved : Titles \cup { NoTitle },
    account : { a.id : a \in GateAccounts } \cup { NoAccount } ]

Gate6Types ==
  /\ step6 \in Steps6 \cup { "exit0", "exit1" } /\ awaiting6 \in BOOLEAN
  /\ proof6 \in Proofs6 /\ confirmed \in Titles \cup { NoTitle }
  /\ asked6 \in Seq(Requests6) /\ Len(asked6) <= 5
  /\ listed6 \in Seq(SUBSET GateAccounts) /\ Len(listed6) <= 2

Gate6InStep ==
  step6 \in Steps6 =>
    /\ Len(asked6) = Asked6Before[step6] + (IF awaiting6 THEN 1 ELSE 0)
    /\ Len(listed6) = Listed6Before[step6] /\ proof6.phase = Phase6At[step6]
    /\ awaiting6 => step6 \notin { "connectA", "checkpoint", "connectB" }

ShownTitles == { a.title : a \in DemoAccounts(listed6[1]) }

TitleWasShown ==
  /\ step6 = "checkpoint" => proof6.candidates = ShownTitles
  /\ step6 \in { "connectB", "applicationB", "accountsB", "account" } =>
       proof6.approved = confirmed /\ confirmed \in ShownTitles

\* The one account of the second list with the title that was confirmed.
IsApproved(id) ==
  \E a \in DemoAccounts(listed6[2]) :
    /\ a.id = id /\ a.title = confirmed
    /\ \A b \in DemoAccounts(listed6[2]) : b.title = a.title => b = a

AccountIsApproved == step6 = "account" => IsApproved(proof6.account)

\* An account is authenticated last.
AuthenticationIsLast ==
  /\ step6 \in Steps6 /\ (step6 = "account" => ~awaiting6) => AuthRequests6 = {}
  /\ step6 = "account" /\ awaiting6 => AuthRequests6 # {}

Gate6Inv ==
  /\ Gate6Types /\ Gate6InStep /\ TitleWasShown /\ AccountIsApproved
  /\ AuthenticationIsLast /\ OnlyTheApprovedAccount

\* What an empty proof object is, and one that ends.
LEMMA EmptyProofs6 ==
  ASSUME NEW p \in Proofs6,
         NEW phase \in { "Gate6AReady", "Gate6BReady", "Complete", "Terminal" }
  PROVE  /\ EmptyProof6(phase) \in Proofs6 /\ EmptyProof6(phase).phase = phase
         /\ Finish6(p) \in Proofs6 /\ Finish6(p).phase = "Terminal"
         /\ Cancel6(p) \in Proofs6 /\ Terminal6(Cancel6(p))
         /\ Cancel6(p).phase = "Complete" <=> p.phase = "Complete"
BY DEF EmptyProof6, Finish6, Cancel6, Terminal6, Proofs6

\* The program ends without success: whatever was asked stays as it was.
LEMMA Exit6Keeps ==
  ASSUME Gate6Inv, proof6' \in Proofs6, NEW code \in { "exit0", "exit1" }, Exit6(code),
         code = "exit0" => AuthRequests6 # {}
  PROVE  Gate6Inv'
<1> USE DEF Exit6, Gate6Inv
<1>1. Gate6Types'
  BY DEF Gate6Types
<1>2. Gate6InStep' /\ TitleWasShown' /\ AccountIsApproved' /\ AuthenticationIsLast'
  BY DEF Gate6InStep, TitleWasShown, AccountIsApproved, AuthenticationIsLast, Steps6
<1>3. AuthRequests6' = AuthRequests6
  BY DEF AuthRequests6
<1>4. OnlyTheApprovedAccount'
  BY <1>3 DEF OnlyTheApprovedAccount
<1> QED  BY <1>1, <1>2, <1>4

\* A step that sends nothing and ends nothing.
LEMMA Moving6Keeps ==
  ASSUME Gate6Inv, UNCHANGED asked6, ~awaiting6', step6' \in Steps6,
         Gate6Types', Gate6InStep', TitleWasShown', AccountIsApproved',
         AuthRequests6 = {}
  PROVE  Gate6Inv'
<1>1. AuthRequests6' = {}
  BY DEF AuthRequests6
<1>2. AuthenticationIsLast' /\ OnlyTheApprovedAccount'
  BY <1>1 DEF AuthenticationIsLast, OnlyTheApprovedAccount, Steps6
<1> QED  BY <1>2 DEF Gate6Inv

\* Nothing has been asked when the program starts.
LEMMA Gate6Begins == Gate6Init => Gate6Inv
<1> SUFFICES ASSUME Gate6Init PROVE Gate6Inv
  OBVIOUS
<1>1. AuthRequests6 = {}
  BY DEF Gate6Init, AuthRequests6
<1>2. Gate6Types
  <2>1. proof6 \in Proofs6
    BY DEF Gate6Init, Proofs6, EmptyProof6
  <2>2. /\ asked6 \in Seq(Requests6) /\ Len(asked6) = 0
        /\ listed6 \in Seq(SUBSET GateAccounts) /\ Len(listed6) = 0
    BY DEF Gate6Init
  <2>3. awaiting6 \in BOOLEAN
    BY DEF Gate6Init
  <2> QED  BY <2>1, <2>2, <2>3 DEF Gate6Init, Gate6Types, Steps6
<1>3. Gate6InStep
  BY DEF Gate6Init, Gate6InStep, EmptyProof6, Asked6Before, Listed6Before, Phase6At
<1> QED  BY <1>1, <1>2, <1>3
         DEF Gate6Init, Gate6Inv, TitleWasShown, AccountIsApproved,
             AuthenticationIsLast, OnlyTheApprovedAccount

\* A connection is made, or the program ends.
LEMMA Connecting6Keeps == ASSUME Gate6Inv, ConnectDemo6 PROVE Gate6Inv'
<1> USE DEF ConnectDemo6
<1>1. CASE /\ step6' = Following6[step6]
           /\ UNCHANGED <<awaiting6, proof6, confirmed, asked6, listed6>>
  <2>1. /\ \/ step6 = "connectA" /\ step6' = "applicationA"
           \/ step6 = "connectB" /\ step6' = "applicationB"
        /\ ~awaiting6 /\ step6 \in Steps6 /\ step6' \in Steps6
    BY <1>1 DEF Following6, Gate6Inv, Gate6InStep, Steps6, Gate6Types
  <2>2. Gate6Types'
    BY <1>1, <2>1 DEF Gate6Inv, Gate6Types
  <2>4. Gate6InStep'
    BY <1>1, <2>1 DEF Gate6Inv, Gate6InStep, Asked6Before, Listed6Before, Phase6At
  <2>3. TitleWasShown' /\ AccountIsApproved' /\ AuthRequests6 = {}
    BY <1>1, <2>1
    DEF Gate6Inv, TitleWasShown, ShownTitles, AccountIsApproved, AuthenticationIsLast
  <2> QED  BY <1>1, <2>1, <2>2, <2>3, <2>4, Moving6Keeps
<1>2. CASE /\ proof6' = IF step6 = "connectB" THEN Cancel6(proof6) ELSE proof6
           /\ Exit6("exit1")
  <2>1. proof6' \in Proofs6
    BY <1>2, EmptyProofs6 DEF Gate6Inv, Gate6Types
  <2> QED  BY <1>2, <2>1, Exit6Keeps
<1> QED  BY <1>1, <1>2

\* A failure to send, no answer, or a person who cancels: the program ends.
LEMMA Ending6Keeps ==
  ASSUME Gate6Inv, proof6' = Cancel6(proof6), Exit6("exit1") PROVE Gate6Inv'
<1>1. proof6' \in Proofs6
  BY EmptyProofs6 DEF Gate6Inv, Gate6Types
<1> QED  BY <1>1, Exit6Keeps

\* A request goes out: the last is for the account that was approved.
LEMMA Asking6Keeps ==
  ASSUME Gate6Inv, ~awaiting6, step6 \in Steps6 \ { "connectA", "connectB", "checkpoint" },
         asked6' = Append(asked6, Request6(step6)), awaiting6' = TRUE,
         UNCHANGED <<step6, proof6, confirmed, listed6>>
  PROVE  Gate6Inv'
<1>1. PICK r \in Requests6 :
        /\ r = Request6(step6)
        /\ r.type = "account" <=> step6 = "account"
        /\ step6 = "account" => r.account = proof6.account
  <2>1. Request6(step6) \in Requests6
    BY DEF Request6, Requests6, Gate6Inv, Gate6Types, Proofs6, Steps6
  <2> QED  BY <2>1 DEF Request6, Steps6
<1>2. /\ asked6 \in Seq(Requests6) /\ asked6' = Append(asked6, r)
      /\ AuthRequests6 = {}
  BY <1>1 DEF Gate6Inv, Gate6Types, AuthenticationIsLast
<1>3. /\ asked6' \in Seq(Requests6) /\ Len(asked6') = Len(asked6) + 1
      /\ Len(asked6) \in Nat /\ asked6'[Len(asked6) + 1] = r
      /\ \A i \in 1 .. Len(asked6) : asked6'[i] = asked6[i]
  BY <1>2, AppendProperties, LenProperties
<1>4. Gate6InStep'
  BY <1>3 DEF Gate6Inv, Gate6InStep, Asked6Before, Listed6Before, Phase6At, Steps6
<1>5. Gate6Types'
  <2>1. Len(asked6') <= 5 /\ awaiting6' \in BOOLEAN
    BY <1>3, <1>4 DEF Gate6InStep, Asked6Before, Steps6
  <2> QED  BY <1>3, <2>1 DEF Gate6Inv, Gate6Types
<1>6. TitleWasShown' /\ AccountIsApproved'
  BY DEF Gate6Inv, TitleWasShown, ShownTitles, AccountIsApproved, IsApproved
<1>7. \A i \in AuthRequests6' : i = Len(asked6') /\ asked6'[i] = r /\ r.type = "account"
  BY <1>2, <1>3 DEF AuthRequests6
<1>8. AuthenticationIsLast'
  <2>1. step6 # "account" => AuthRequests6' = {}
    BY <1>1, <1>7
  <2>2. step6 = "account" => Len(asked6') \in AuthRequests6'
    BY <1>1, <1>3 DEF AuthRequests6
  <2> QED  BY <2>1, <2>2 DEF AuthenticationIsLast
<1>9. OnlyTheApprovedAccount'
  <2>1. step6' # "exit0"
    BY DEF Steps6
  <2>2. ASSUME NEW i \in AuthRequests6'
        PROVE  /\ i = Len(asked6') /\ Len(listed6') = 2
               /\ LET current == DemoAccounts(listed6'[2])
                      named == { a \in current : a.id = asked6'[i].account }
                  IN \E a \in named :
                       /\ a.title = confirmed'
                       /\ confirmed' \in { b.title : b \in DemoAccounts(listed6'[1]) }
                       /\ \A b \in current : b.title = a.title => b = a
    <3>1. step6 = "account" /\ asked6'[i].account = proof6.account
      BY <1>1, <1>7, <2>2
    <3>2. Len(listed6) = 2 /\ IsApproved(proof6.account) /\ confirmed \in ShownTitles
      BY <3>1
      DEF Gate6Inv, Gate6InStep, Listed6Before, Steps6, AccountIsApproved, TitleWasShown
    <3> QED  BY <1>7, <2>2, <3>1, <3>2 DEF IsApproved, ShownTitles
  <2> QED  BY <2>1, <2>2 DEF OnlyTheApprovedAccount
<1> QED  BY <1>4, <1>5, <1>6, <1>8, <1>9 DEF Gate6Inv

\* The application is authenticated.
LEMMA Application6Keeps == ASSUME Gate6Inv, AcceptApplication6 PROVE Gate6Inv'
<1>1. /\ \/ step6 = "applicationA" /\ step6' = "accountsA"
         \/ step6 = "applicationB" /\ step6' = "accountsB"
      /\ awaiting6 /\ awaiting6' = FALSE
      /\ UNCHANGED <<proof6, confirmed, asked6, listed6>>
  BY DEF AcceptApplication6, Following6
<1>2. step6 \in Steps6 /\ step6' \in Steps6
  BY <1>1 DEF Steps6
<1>3. Gate6Types'
  BY <1>1, <1>2 DEF Gate6Inv, Gate6Types
<1>4. Gate6InStep'
  BY <1>1, <1>2 DEF Gate6Inv, Gate6InStep, Asked6Before, Listed6Before, Phase6At
<1>5. TitleWasShown' /\ AccountIsApproved' /\ AuthRequests6 = {}
  BY <1>1, <1>2
  DEF Gate6Inv, TitleWasShown, ShownTitles, AccountIsApproved, AuthenticationIsLast
<1> QED  BY <1>1, <1>2, <1>3, <1>4, <1>5, Moving6Keeps

\* The titles of the first list are shown: they are what can be approved.
LEMMA DiscoverA6Keeps ==
  ASSUME Gate6Inv, NEW answer \in Answers6, DiscoverA(answer) PROVE Gate6Inv'
<1> DEFINE demo == DemoAccounts(answer.accounts)
           titles == { a.title : a \in demo }
<1>1. /\ awaiting6 /\ step6 = "accountsA" /\ proof6' = AcceptGate6A(proof6, answer)
      /\ proof6.phase = "Gate6AReady" /\ proof6 \in Proofs6 /\ Len(listed6) = 0
      /\ step6 \in Steps6 /\ listed6 \in Seq(SUBSET GateAccounts)
      /\ answer.accounts \in SUBSET GateAccounts
  BY DEF DiscoverA, Gate6Inv, Gate6InStep, Gate6Types, Phase6At, Listed6Before, Steps6,
         Answers6
<1>2. \/ proof6' = [ proof6 EXCEPT !.phase = "AwaitingWade", !.candidates = titles ]
      \/ proof6' = Finish6(proof6)
  BY <1>1 DEF AcceptGate6A, Terminal6
<1>3. proof6' \in Proofs6 /\ (proof6'.phase = "AwaitingWade" => proof6'.candidates = titles)
  <2>1. titles \subseteq Titles
    BY <1>1 DEF Titles, DemoAccounts
  <2> HIDE DEF titles
  <2> QED  BY <1>1, <1>2, <2>1, EmptyProofs6 DEF Proofs6
<1>4. CASE proof6'.phase # "AwaitingWade" /\ Exit6("exit1")
  BY <1>3, <1>4, Exit6Keeps
<1>5. CASE /\ proof6'.phase = "AwaitingWade"
           /\ step6' = "checkpoint" /\ awaiting6' = FALSE
           /\ listed6' = Append(listed6, answer.accounts)
           /\ UNCHANGED <<confirmed, asked6>>
  <2>1. /\ listed6' \in Seq(SUBSET GateAccounts) /\ Len(listed6') = 1
        /\ listed6'[1] = answer.accounts
    BY <1>1, <1>5, AppendProperties
  <2>2. Gate6InStep'
    BY <1>1, <1>5, <2>1
    DEF Gate6Inv, Gate6InStep, Asked6Before, Listed6Before, Phase6At
  <2>3. Gate6Types' /\ step6' \in Steps6
    <3>1. awaiting6' \in BOOLEAN /\ step6' \in Steps6
      BY <1>5 DEF Steps6
    <3> QED  BY <1>1, <1>3, <1>5, <2>1, <3>1 DEF Gate6Inv, Gate6Types
  <2>4. TitleWasShown' /\ AccountIsApproved'
    BY <1>3, <1>5, <2>1 DEF TitleWasShown, ShownTitles, AccountIsApproved
  <2>5. AuthRequests6 = {}
    BY <1>1 DEF Gate6Inv, AuthenticationIsLast
  <2> QED  BY <1>5, <2>2, <2>3, <2>4, <2>5, Moving6Keeps
<1> QED  BY <1>4, <1>5 DEF DiscoverA

\* Wade's answer counts if its title was shown.
LEMMA Checkpoint6Keeps ==
  ASSUME Gate6Inv, NEW title \in Titles, Checkpoint(title) PROVE Gate6Inv'
<1>1. /\ step6 = "checkpoint" /\ step6 \in Steps6 /\ ~awaiting6
      /\ proof6.phase = "AwaitingWade" /\ proof6 \in Proofs6
      /\ proof6.candidates = ShownTitles /\ AuthRequests6 = {}
      /\ proof6' = ConfirmWadeSelection(proof6, title)
  BY DEF Checkpoint, Gate6Inv, Gate6InStep, Gate6Types, Phase6At, Steps6, TitleWasShown,
         AuthenticationIsLast
<1>2. \/ /\ title \in ShownTitles
         /\ proof6' = [ EmptyProof6("Gate6BReady") EXCEPT !.approved = title ]
      \/ proof6' = Finish6(proof6)
  BY <1>1 DEF ConfirmWadeSelection, Terminal6
<1>3. /\ proof6' \in Proofs6
      /\ proof6'.phase = "Gate6BReady" =>
           title \in ShownTitles /\ proof6'.approved = title
  <2>1. EmptyProof6("Gate6BReady") \in Proofs6
    BY <1>1, EmptyProofs6
  <2> HIDE DEF EmptyProof6
  <2> QED  BY <1>1, <1>2, <2>1, EmptyProofs6 DEF Proofs6
<1>4. CASE proof6'.phase # "Gate6BReady" /\ Exit6("exit1")
  BY <1>3, <1>4, Exit6Keeps
<1>5. CASE /\ proof6'.phase = "Gate6BReady" /\ step6' = "connectB"
           /\ confirmed' = title /\ UNCHANGED <<awaiting6, asked6, listed6>>
  <2>1. Gate6InStep'
    BY <1>1, <1>5 DEF Gate6Inv, Gate6InStep, Asked6Before, Listed6Before, Phase6At
  <2>2. Gate6Types' /\ step6' \in Steps6
    BY <1>3, <1>5 DEF Gate6Inv, Gate6Types, Steps6
  <2>3. TitleWasShown' /\ AccountIsApproved'
    BY <1>3, <1>5 DEF TitleWasShown, ShownTitles, AccountIsApproved
  <2> QED  BY <1>1, <1>5, <2>1, <2>2, <2>3, Moving6Keeps
<1> QED  BY <1>4, <1>5 DEF Checkpoint

\* Of the second list one account carries the title that was confirmed.
LEMMA DiscoverB6Keeps ==
  ASSUME Gate6Inv, NEW answer \in Answers6, DiscoverB(answer) PROVE Gate6Inv'
<1> DEFINE demo == DemoAccounts(answer.accounts)
           named == { a \in demo : a.title = proof6.approved }
           id == (CHOOSE a \in named : TRUE).id
<1>1. /\ awaiting6 /\ step6 = "accountsB" /\ proof6' = AcceptGate6B(proof6, answer)
      /\ proof6.phase = "Gate6BReady" /\ proof6 \in Proofs6 /\ Len(listed6) = 1
      /\ step6 \in Steps6 /\ listed6 \in Seq(SUBSET GateAccounts)
      /\ answer.accounts \in SUBSET GateAccounts
      /\ proof6.approved = confirmed /\ confirmed \in ShownTitles
  BY DEF DiscoverB, Gate6Inv, Gate6InStep, Gate6Types, Phase6At, Listed6Before, Steps6,
         Answers6, TitleWasShown
<1>2. \/ /\ Cardinality(named) = 1
         /\ proof6' = [ proof6 EXCEPT !.phase = "AccountAuthReady", !.account = id ]
      \/ proof6' = Finish6(proof6)
  BY <1>1 DEF AcceptGate6B, Terminal6
<1>3. ASSUME Cardinality(named) = 1
      PROVE  \E a \in named : id = a.id /\ \A b \in named : b = a
  <2>1. IsFiniteSet(named)
    BY <1>1, GateAccountsAssumption, FS_Subset DEF DemoAccounts
  <2> HIDE DEF named
  <2>2. PICK a : named = { a }
    BY <1>3, <2>1, FS_Singleton
  <2> QED  BY <2>2
<1>4. /\ proof6' \in Proofs6
      /\ proof6'.phase = "AccountAuthReady" =>
           /\ proof6'.account = id /\ proof6'.approved = proof6.approved
           /\ Cardinality(named) = 1
  <2>1. Cardinality(named) = 1 => id \in { a.id : a \in GateAccounts }
    BY <1>1, <1>3 DEF DemoAccounts
  <2> HIDE DEF id, named
  <2> QED  BY <1>1, <1>2, <2>1, EmptyProofs6 DEF Proofs6
<1>5. CASE proof6'.phase # "AccountAuthReady" /\ Exit6("exit1")
  BY <1>4, <1>5, Exit6Keeps
<1>6. CASE /\ proof6'.phase = "AccountAuthReady"
           /\ step6' = "account" /\ awaiting6' = FALSE
           /\ listed6' = Append(listed6, answer.accounts)
           /\ UNCHANGED <<confirmed, asked6>>
  <2>1. /\ listed6' \in Seq(SUBSET GateAccounts) /\ Len(listed6') = 2
        /\ listed6'[1] = listed6[1] /\ listed6'[2] = answer.accounts
    <3> DEFINE S == SUBSET GateAccounts
               x == answer.accounts
    <3>1. listed6 \in Seq(S) /\ x \in S /\ listed6' = Append(listed6, x)
      BY <1>1, <1>6
    <3> HIDE DEF S, x
    <3>2. /\ listed6' \in Seq(S) /\ Len(listed6') = Len(listed6) + 1
          /\ \A i \in 1 .. Len(listed6) : listed6'[i] = listed6[i]
          /\ listed6'[Len(listed6) + 1] = x
      BY <3>1, AppendProperties
    <3> QED  BY <1>1, <3>2 DEF S, x
  <2>2. Gate6InStep'
    BY <1>1, <1>6, <2>1
    DEF Gate6Inv, Gate6InStep, Asked6Before, Listed6Before, Phase6At
  <2>3. Gate6Types' /\ step6' \in Steps6
    <3>1. awaiting6' \in BOOLEAN /\ step6' \in Steps6
      BY <1>6 DEF Steps6
    <3> QED  BY <1>1, <1>4, <1>6, <2>1, <3>1 DEF Gate6Inv, Gate6Types
  <2>4. TitleWasShown'
    BY <1>1, <1>4, <1>6, <2>1 DEF TitleWasShown, ShownTitles
  <2>5. AccountIsApproved'
    <3>1. PICK a \in named : id = a.id /\ \A b \in named : b = a
      BY <1>3, <1>4, <1>6
    <3>2. /\ a \in DemoAccounts(listed6'[2]) /\ a.id = proof6'.account
          /\ a.title = confirmed'
      BY <1>1, <1>4, <1>6, <2>1, <3>1
    <3>3. ASSUME NEW b \in DemoAccounts(listed6'[2]), b.title = a.title PROVE b = a
      <4>1. b \in named
        BY <1>1, <2>1, <3>1, <3>3
      <4> QED  BY <3>1, <4>1
    <3> QED  BY <3>2, <3>3 DEF AccountIsApproved, IsApproved
  <2>6. AuthRequests6 = {}
    BY <1>1 DEF Gate6Inv, AuthenticationIsLast
  <2> QED  BY <1>6, <2>2, <2>3, <2>4, <2>5, <2>6, Moving6Keeps
<1> QED  BY <1>5, <1>6 DEF DiscoverB

\* The program ends with the authentication, and only that may be a success.
LEMMA Authenticate6Keeps ==
  ASSUME Gate6Inv, NEW id, AuthenticateAccount6(id) PROVE Gate6Inv'
<1> DEFINE judged == AcceptAccountAuthentication6(proof6, id)
           code == IF proof6'.phase = "Complete" THEN "exit0" ELSE "exit1"
<1>1. judged \in Proofs6
  BY EmptyProofs6 DEF AcceptAccountAuthentication6, Gate6Inv, Gate6Types
<1>2. proof6' \in Proofs6
  <2> HIDE DEF judged
  <2>1. Cancel6(judged) \in Proofs6
    BY <1>1, EmptyProofs6
  <2> QED  BY <2>1 DEF AuthenticateAccount6, judged
<1>3. Exit6(code) /\ code \in { "exit0", "exit1" }
  BY DEF AuthenticateAccount6
<1>4. AuthRequests6 # {}
  BY DEF AuthenticateAccount6, Gate6Inv, AuthenticationIsLast
<1> HIDE DEF code
<1> QED  BY <1>2, <1>3, <1>4, Exit6Keeps

\* Every step of gate 6 keeps the invariant.
LEMMA Gate6Keeps == Gate6Inv /\ [Gate6Next]_gate6Vars => Gate6Inv'
<1> SUFFICES ASSUME Gate6Inv, [Gate6Next]_gate6Vars PROVE Gate6Inv'
  OBVIOUS
<1>1. CASE ConnectDemo6
  BY <1>1, Connecting6Keeps
<1>2. CASE Ask6
  BY <1>2, Asking6Keeps, Ending6Keeps DEF Ask6
<1>3. CASE NoAnswer6 \/ CheckpointCancelled
  BY <1>3, Ending6Keeps DEF NoAnswer6, CheckpointCancelled
<1>4. CASE AcceptApplication6
  BY <1>4, Application6Keeps
<1>5. CASE \E answer \in Answers6 : DiscoverA(answer) \/ DiscoverB(answer)
  BY <1>5, DiscoverA6Keeps, DiscoverB6Keeps
<1>6. CASE \E title \in Titles : Checkpoint(title)
  BY <1>6, Checkpoint6Keeps
<1>7. CASE \E id \in { a.id : a \in GateAccounts } : AuthenticateAccount6(id)
  BY <1>7, Authenticate6Keeps
<1>8. CASE UNCHANGED gate6Vars
  BY <1>8
  DEF gate6Vars, Gate6Inv, Gate6Types, Gate6InStep, TitleWasShown, ShownTitles,
      AccountIsApproved, IsApproved, AuthenticationIsLast, OnlyTheApprovedAccount,
      AuthRequests6
<1> QED  BY <1>1, <1>2, <1>3, <1>4, <1>5, <1>6, <1>7, <1>8 DEF Gate6Next

\* Gate 6 keeps the invariant in every run.
LEMMA Gate6Safe == Gate6Spec => []Gate6Inv
BY Gate6Begins, Gate6Keeps, PTL DEF Gate6Spec

(***************************************************************************)
(* The account that is authenticated is the one demo account that carries  *)
(* the title Wade has confirmed, and nothing else is a success.            *)
(***************************************************************************)
THEOREM ApprovedAccountOnly == Gate6Spec => []OnlyTheApprovedAccount
<1>1. Gate6Inv => OnlyTheApprovedAccount
  BY DEF Gate6Inv
<1> QED  BY <1>1, Gate6Safe, PTL

--------------------------------------------------------------------------------
(***************************************************************************)
(* Gate 7: the prices.  A recursive function is what its definition says   *)
(* once one such function exists; it is put together from its beginnings,  *)
(* and a least counterexample takes the place of an induction.             *)
(***************************************************************************)

\* A set of numbers that is not empty has a lowest one.
LEMMA Lowest ==
  ASSUME NEW T, T \subseteq Nat, T # {}
  PROVE  \E x \in T : \A y \in T : x <= y
<1> DEFINE R == { p \in Nat \X Nat : p[1] < p[2] }
<1>1. IsWellFoundedOn(R, Nat)
  BY NatLessThanWellFounded, Zenon DEF OpToRel
<1>2. PICK x \in T : \A y \in T : <<y, x>> \notin R
  <2> HIDE DEF R
  <2> QED  BY <1>1, WFMin
<1>3. ASSUME NEW y \in T PROVE x <= y
  <2>1. x \in Nat /\ y \in Nat /\ ~ (y < x)
    BY <1>2
  <2> QED  BY <2>1
<1> QED  BY <1>3

\* The first powers, up to the k-th.
Powers(k) ==
  { f \in [ 0 .. k -> Nat \ {0} ] :
      \A n \in 0 .. k : f[n] = IF n = 0 THEN 1 ELSE 10 * f[n - 1] }

\* There are some of every length.
LEMMA PowersExist == \A k \in Nat : Powers(k) # {}
<1> DEFINE bad == { k \in Nat : Powers(k) = {} }
<1> SUFFICES ASSUME bad # {} PROVE FALSE
  OBVIOUS
<1>1. PICK k \in bad : \A j \in bad : k <= j
  <2>1. bad \subseteq Nat
    OBVIOUS
  <2> HIDE DEF bad
  <2> QED  BY <2>1, Lowest
<1>2. CASE k = 0
  <2>1. [ n \in 0 .. 0 |-> 1 ] \in Powers(0)
    BY DEF Powers
  <2> QED  BY <1>2, <2>1
<1>3. CASE k # 0
  <2>1. k \in Nat /\ k - 1 \in Nat /\ k - 1 \notin bad
    BY <1>1, <1>3
  <2>2. PICK f : f \in Powers(k - 1)
    BY <2>1
  <2> DEFINE g == [ n \in 0 .. k |-> IF n = k THEN 10 * f[k - 1] ELSE f[n] ]
  <2>3. /\ f \in [ 0 .. k - 1 -> Nat \ {0} ]
        /\ \A n \in 0 .. k - 1 : f[n] = IF n = 0 THEN 1 ELSE 10 * f[n - 1]
    BY <2>2 DEF Powers
  <2>4. ASSUME NEW n \in 0 .. k
        PROVE  g[n] \in Nat \ {0} /\ g[n] = IF n = 0 THEN 1 ELSE 10 * g[n - 1]
    <3>1. CASE n = k
      <4>1. k - 1 \in 0 .. k - 1 /\ k - 1 # k /\ k - 1 \in 0 .. k
        BY <1>3, <2>1
      <4>2. f[k - 1] \in Nat \ {0}
        BY <2>3, <4>1
      <4>3. g[k] = 10 * f[k - 1] /\ g[k - 1] = f[k - 1]
        BY <2>1, <4>1
      <4> QED  BY <1>3, <3>1, <4>2, <4>3
    <3>2. CASE n # k
      <4>1. n \in 0 .. k - 1 /\ g[n] = f[n]
        BY <2>1, <3>2
      <4>2. n # 0 => n - 1 \in 0 .. k /\ n - 1 # k /\ g[n - 1] = f[n - 1]
        BY <2>1, <4>1
      <4> HIDE DEF g
      <4> QED  BY <2>3, <4>1, <4>2
    <3> QED  BY <3>1, <3>2
  <2>5. g \in [ 0 .. k -> Nat \ {0} ]
    <3> HIDE DEF g
    <3>1. g = [ n \in 0 .. k |-> g[n] ]
      BY DEF g
    <3> QED  BY <2>4, <3>1
  <2> HIDE DEF g
  <2>6. g \in Powers(k)
    BY <2>4, <2>5 DEF Powers
  <2> QED  BY <1>1, <2>6
<1> QED  BY <1>2, <1>3

\* Two beginnings agree where both are defined.
LEMMA PowersAgree ==
  ASSUME NEW j \in Nat, NEW k \in Nat, NEW f \in Powers(j), NEW g \in Powers(k)
  PROVE  \A n \in 0 .. j : n \in 0 .. k => f[n] = g[n]
<1> DEFINE bad == { n \in 0 .. j : n \in 0 .. k /\ f[n] # g[n] }
<1> SUFFICES ASSUME bad # {} PROVE FALSE
  OBVIOUS
<1>1. PICK n \in bad : \A m \in bad : n <= m
  <2>1. bad \subseteq Nat
    OBVIOUS
  <2> HIDE DEF bad
  <2> QED  BY <2>1, Lowest
<1>2. n \in 0 .. j /\ n \in 0 .. k /\ f[n] # g[n]
  OBVIOUS
<1>3. /\ f[n] = IF n = 0 THEN 1 ELSE 10 * f[n - 1]
      /\ g[n] = IF n = 0 THEN 1 ELSE 10 * g[n - 1]
  BY <1>2 DEF Powers
<1>4. n # 0 => n - 1 \in 0 .. j /\ n - 1 \in 0 .. k /\ n - 1 \notin bad
  BY <1>1, <1>2
<1>5. n # 0 => f[n - 1] = g[n - 1]
  BY <1>4
<1> QED  BY <1>2, <1>3, <1>5

\* So the powers of ten satisfy their equation, and are positive.
LEMMA Power10Positive == \A n \in Nat : Power10[n] \in Nat \ {0}
<1> DEFINE start(n) == CHOOSE f : f \in Powers(n)
           F == [ n \in Nat |-> start(n)[n] ]
<1>1. ASSUME NEW n \in Nat PROVE start(n) \in Powers(n)
  BY PowersExist
<1>2. ASSUME NEW n \in Nat
      PROVE  F[n] \in Nat \ {0} /\ F[n] = IF n = 0 THEN 1 ELSE 10 * F[n - 1]
  <2>1. /\ start(n)[n] \in Nat \ {0}
        /\ start(n)[n] = IF n = 0 THEN 1 ELSE 10 * start(n)[n - 1]
    <3> HIDE DEF start
    <3>1. start(n) \in Powers(n) /\ n \in 0 .. n
      BY <1>1
    <3> QED  BY <3>1 DEF Powers
  <2>2. n # 0 => n - 1 \in Nat /\ start(n)[n - 1] = start(n - 1)[n - 1]
    <3>1. n # 0 => n - 1 \in Nat /\ n - 1 \in 0 .. n /\ n - 1 \in 0 .. n - 1
      OBVIOUS
    <3> HIDE DEF start
    <3> QED  BY <1>1, <3>1, PowersAgree
  <2> HIDE DEF start
  <2> QED  BY <2>1, <2>2
<1>3. F = [ n \in Nat |-> IF n = 0 THEN 1 ELSE 10 * F[n - 1] ]
  <2>1. F = [ n \in Nat |-> F[n] ]
    OBVIOUS
  <2> HIDE DEF F
  <2> QED  BY <1>2, <2>1
<1>4. Power10 = [ n \in Nat |-> IF n = 0 THEN 1 ELSE 10 * Power10[n - 1] ]
  <2> HIDE DEF F
  <2> QED  BY <1>3, Zenon DEF Power10
<1> DEFINE bad == { n \in Nat : Power10[n] \notin Nat \ {0} }
<1> SUFFICES ASSUME bad # {} PROVE FALSE
  OBVIOUS
<1>5. PICK n \in bad : \A m \in bad : n <= m
  <2>1. bad \subseteq Nat
    OBVIOUS
  <2> HIDE DEF bad
  <2> QED  BY <2>1, Lowest
<1>6. n \in Nat /\ Power10[n] = IF n = 0 THEN 1 ELSE 10 * Power10[n - 1]
  BY <1>4
<1>7. n # 0 => n - 1 \in Nat /\ n - 1 \notin bad
  BY <1>5, <1>6
<1>8. n # 0 => Power10[n - 1] \in Nat \ {0}
  BY <1>7
<1>9. Power10[n] \in Nat \ {0}
  BY <1>6, <1>8
<1> QED  BY <1>5, <1>9

\* A price that is normalised is a number of units, or none.
LEMMA NormalizedPrices ==
  ASSUME NEW raw \in Nat, NEW digits \in Nat
  PROVE  LET price == NormalizeSpotPrice(raw, digits)
         IN price \in Int /\ (price # Unrepresentable => 0 <= price)
<1> DEFINE factor == Power10[IF digits > 5 THEN digits - 5 ELSE 5 - digits]
<1>1. factor \in Nat /\ factor > 0
  <2>1. (IF digits > 5 THEN digits - 5 ELSE 5 - digits) \in Nat
    OBVIOUS
  <2> QED  BY <2>1, Power10Positive
<1> HIDE DEF factor
<1>2. raw * factor \in Nat /\ raw \div factor \in Nat
  BY <1>1
<1>3. NormalizeSpotPrice(raw, digits) \in
        { Unrepresentable, raw * factor, raw \div factor, raw \div factor + 1 }
  <2>1. (raw \div factor) + 0 = raw \div factor
    BY <1>2
  <2> HIDE DEF Unrepresentable
  <2> QED  BY <2>1 DEF NormalizeSpotPrice, NormalizeSignedScale5, factor
<1> QED  BY <1>2, <1>3 DEF Unrepresentable

\* A time stamp that is proven is close to the receipt.
LEMMA ProvenTimes ==
  ASSUME NEW raw \in RawTimes, TimestampProven(raw)
  PROVE  TheOne(PlausibleTimes(raw)) \in ReceiptTime - MaxAge .. ReceiptTime + MaxFuture
<1> DEFINE units == { u \in TimeUnits : raw * u \in PlausibleTimes(raw) }
<1>1. units # {}
  <2>1. Cardinality(units) = 1
    BY DEF TimestampProven, Unambiguous
  <2> HIDE DEF units
  <2> QED  BY <2>1, FS_EmptySet
<1>2. PlausibleTimes(raw) # {}
  BY <1>1
<1>3. raw \in Int /\ TimeUnits \subseteq Nat /\ ReceiptTime \in Nat
      /\ MaxAge \in Nat /\ MaxFuture \in Nat
  BY QuoteGateAssumption DEF NotGiven
<1>4. \A t \in PlausibleTimes(raw) :
        t \in ReceiptTime - MaxAge .. ReceiptTime + MaxFuture
  BY <1>3 DEF PlausibleTimes
<1> QED  BY <1>2, <1>4 DEF TheOne

\* If exactly one candidate is there, it is the one.
LEMMA OneCandidate ==
  ASSUME NEW S, IsFiniteSet(S), NEW T \in SUBSET S, Unambiguous(T)
  PROVE  TheOne(T) \in T /\ T = { TheOne(T) }
<1>1. PICK x : T = { x }
  BY FS_Subset, FS_Singleton DEF Unambiguous
<1> QED  BY <1>1 DEF TheOne

--------------------------------------------------------------------------------
(***************************************************************************)
(* Gate 7: one account, one symbol, one quote.  Every question is asked in *)
(* its turn, and for the account that was the only candidate of the list.  *)
(***************************************************************************)
Phase7At ==
  [ connect |-> "AccountList", application |-> "AccountList",
    accounts |-> "AccountList", account |-> "AccountAuthentication",
    symbols |-> "SymbolsList", full |-> "FullSymbol",
    subscription |-> "Subscription", spot |-> "Spot" ]

Asked7Before ==
  [ connect |-> 0, application |-> 0, accounts |-> 1, account |-> 2, symbols |-> 3,
    full |-> 4, subscription |-> 5, spot |-> 6 ]

Questions == DOMAIN Asked7Before
Requests7 == [ type : Questions, account : Ids(ListedAccounts) \cup { None },
               symbol : Ids(ListedSymbols) \cup { None } ]

Proofs7 ==
  [ phase : { "AccountList", "AccountAuthentication", "SymbolsList", "FullSymbol",
              "Subscription", "Spot", "Complete", "Terminal" },
    account : Ids(ListedAccounts) \cup { None }, symbol : Ids(ListedSymbols) \cup { None },
    digits : 0 .. MaxScale, quote : [ bid : Int, ask : Int, time : Int ] ]

Gate7Types ==
  /\ step7 \in Questions \cup { "exit0", "exit1" } /\ awaiting7 \in BOOLEAN
  /\ asked7 \in Seq(Requests7) /\ listed7 \in SUBSET ListedAccounts
  /\ proof7 \in Proofs7

\* A proof object that ends is as empty as a new one.
LEMMA EmptyProofs7 ==
  ASSUME NEW phase \in { "AccountList", "Complete", "Terminal" }
  PROVE  EmptyProof7(phase) \in Proofs7 /\ EmptyProof7(phase).phase = phase
<1>1. 0 \in 0 .. MaxScale
  BY QuoteGateAssumption
<1> QED  BY <1>1 DEF EmptyProof7, Proofs7, NoQuote, None

Gate7InStep ==
  /\ step7 \in Questions =>
       /\ Len(asked7) = Asked7Before[step7] + (IF awaiting7 THEN 1 ELSE 0)
       /\ proof7.phase = Phase7At[step7]
       /\ awaiting7 => step7 \notin { "connect", "spot" }
  /\ awaiting7 => step7 \in Questions
  /\ step7 = "exit0" <=> proof7.phase = "Complete"

QuestionsInTurn ==
  \A i \in 1 .. Len(asked7) :
    /\ asked7[i].type = AskingSteps[i]
    /\ asked7[i].account # None => Ids(Eligible(listed7)) = { asked7[i].account }

\* From its authentication on the account is the only candidate.
AccountIsTheOne ==
  step7 \in { "account", "symbols", "full", "subscription", "spot" } =>
    Ids(Eligible(listed7)) = { proof7.account }

NobodyAskedFor ==
  step7 \in { "connect", "application", "accounts" } =>
    \A i \in 1 .. Len(asked7) : asked7[i].account = None

\* What is subscribed is what the proof object waits for, of a symbol with
\* digits.
SubscribedIsProven ==
  /\ step7 = "spot" \/ (step7 = "subscription" /\ awaiting7) =>
       asked7[6].account = proof7.account /\ asked7[6].symbol = proof7.symbol
  /\ step7 \in { "subscription", "spot" } => proof7.digits \in 0 .. MaxScale

QuoteIsProven ==
  proof7.phase = "Complete" =>
    LET quote == proof7.quote
        subscribed == asked7[Len(asked7)]
    IN /\ Len(asked7) = Len(AskingSteps)
       /\ lastSpot.account = subscribed.account
       /\ lastSpot.symbol = subscribed.symbol
       /\ NotGiven \notin { lastSpot.bid, lastSpot.ask, lastSpot.time }
       /\ 0 <= quote.bid /\ quote.bid <= quote.ask
       /\ quote.time \in ReceiptTime - MaxAge .. ReceiptTime + MaxFuture

Gate7Inv ==
  /\ Gate7Types /\ Gate7InStep /\ QuestionsInTurn /\ AccountIsTheOne
  /\ NobodyAskedFor /\ SubscribedIsProven /\ QuoteIsProven

\* The invariant is what the property asks for, and more.
LEMMA Gate7Proves == Gate7Inv => QuoteProvesOneDemoAccount
BY DEF Gate7Inv, Gate7InStep, QuestionsInTurn, QuoteIsProven, QuoteProvesOneDemoAccount

\* Nothing has been asked when the program starts.
LEMMA Gate7Begins == Gate7Init => Gate7Inv
<1> SUFFICES ASSUME Gate7Init PROVE Gate7Inv
  OBVIOUS
<1>1. /\ asked7 = << >> /\ step7 = "connect" /\ listed7 = {} /\ proof7.phase = "AccountList"
      /\ proof7.account = None /\ proof7.symbol = None /\ awaiting7 = FALSE
  BY DEF Gate7Init, EmptyProof7
<1>2. asked7 \in Seq(Requests7) /\ Len(asked7) = 0
  BY <1>1
<1>3. Gate7Types
  <2>1. awaiting7 \in BOOLEAN
    BY <1>1
  <2> QED  BY <1>1, <1>2, <2>1, EmptyProofs7
           DEF Gate7Init, Gate7Types, Questions, Asked7Before
<1>4. Gate7InStep
  BY <1>1, <1>2 DEF Gate7InStep, Questions, Asked7Before, Phase7At
<1>5. QuestionsInTurn /\ AccountIsTheOne /\ NobodyAskedFor /\ SubscribedIsProven
  BY <1>1, <1>2
  DEF QuestionsInTurn, AccountIsTheOne, NobodyAskedFor, SubscribedIsProven
<1>6. QuoteIsProven
  BY <1>1 DEF QuoteIsProven
<1> QED  BY <1>3, <1>4, <1>5, <1>6 DEF Gate7Inv

\* The program ends without a quote.
LEMMA Exit7Keeps ==
  ASSUME Gate7Inv, step7 \in Questions, step7' = "exit1", awaiting7' = FALSE,
         UNCHANGED <<asked7, listed7>>, proof7'.phase # "Complete", proof7' \in Proofs7
  PROVE  Gate7Inv'
<1> USE DEF Gate7Inv
<1>1. Gate7Types'
  <2>1. awaiting7' \in BOOLEAN
    OBVIOUS
  <2> QED  BY <2>1 DEF Gate7Types
<1>2. Gate7InStep' /\ AccountIsTheOne' /\ NobodyAskedFor' /\ SubscribedIsProven'
  BY DEF Gate7InStep, AccountIsTheOne, NobodyAskedFor, SubscribedIsProven, Questions,
         Asked7Before
<1>3. QuestionsInTurn' /\ QuoteIsProven'
  BY DEF QuestionsInTurn, QuoteIsProven
<1> QED  BY <1>1, <1>2, <1>3

\* The same with the proof object as it was, or ended.
LEMMA Leaving7Keeps ==
  ASSUME Gate7Inv, step7 \in Questions, step7' = "exit1", awaiting7' = FALSE,
         UNCHANGED <<asked7, listed7>>, proof7' = proof7 \/ proof7' = Finish7(proof7)
  PROVE  Gate7Inv'
<1>1. proof7.phase # "Complete"
  BY DEF Gate7Inv, Gate7InStep, Questions, Asked7Before, Phase7At
<1>2. proof7'.phase # "Complete"
  BY <1>1, EmptyProofs7 DEF Finish7
<1>3. proof7' \in Proofs7
  BY EmptyProofs7 DEF Gate7Inv, Gate7Types, Finish7
<1> QED  BY <1>2, <1>3, Exit7Keeps

\* An answer is taken, and the next question is due.
Proceeds(phase, next) ==
  /\ step7' = next /\ next \in Questions
  /\ Asked7Before[next] = Asked7Before[step7] + 1
  /\ proof7'.phase = phase /\ Phase7At[next] = phase
  /\ UNCHANGED <<asked7, lastSpot>> /\ awaiting7' = FALSE

\* What it has to show for it is enough.
LEMMA Proceeding7Keeps ==
  ASSUME Gate7Inv, awaiting7, NEW phase, NEW next, step7 \in Questions,
         Proceeds(phase, next), listed7' \in SUBSET ListedAccounts,
         proof7' \in Proofs7, QuestionsInTurn', AccountIsTheOne', NobodyAskedFor', SubscribedIsProven'
  PROVE  Gate7Inv'
<1> USE DEF Gate7Inv, Proceeds
<1>1. Gate7Types'
  <2>1. awaiting7' \in BOOLEAN
    OBVIOUS
  <2> QED  BY <2>1 DEF Gate7Types
<1>2. phase # "Complete" /\ next # "exit0"
  BY DEF Phase7At, Questions, Asked7Before
<1>3. next = "spot" => ~awaiting7'
  OBVIOUS
<1>4. Gate7InStep' /\ QuoteIsProven'
  BY <1>2 DEF Gate7InStep, QuoteIsProven
<1> QED  BY <1>1, <1>4

\* A question goes out in its turn, for the account that was found.
LEMMA Asking7Keeps == ASSUME Gate7Inv, Ask7 PROVE Gate7Inv'
<1>1. /\ ~awaiting7 /\ UNCHANGED proof7 /\ step7 \in Questions
      /\ step7 \in { "application", "accounts", "account", "symbols", "full",
                     "subscription" }
  <2>1. PICK i \in DOMAIN AskingSteps : AskingSteps[i] = step7
    BY DEF Ask7
  <2>2. i \in 1 .. 6
    BY DEF AskingSteps
  <2> QED  BY <2>1, <2>2 DEF Ask7, AskingSteps, Questions, Asked7Before
<1>2. CASE Exit7("exit1")
  BY <1>1, <1>2, Leaving7Keeps DEF Exit7
<1>3. CASE /\ asked7' = Append(asked7, Request7(step7)) /\ awaiting7' = TRUE
           /\ UNCHANGED <<step7, listed7, lastSpot>>
  <2>1. PICK r \in Requests7 : r = Request7(step7)
    <3> DEFINE a == IF step7 \in { "application", "accounts" } THEN None
                    ELSE proof7.account
               s == IF step7 \in { "full", "subscription" } THEN proof7.symbol ELSE None
    <3>1. /\ a \in Ids(ListedAccounts) \cup { None }
          /\ s \in Ids(ListedSymbols) \cup { None }
      BY DEF Gate7Inv, Gate7Types, Proofs7
    <3>2. Request7(step7) = [ type |-> step7, account |-> a, symbol |-> s ]
      BY DEF Request7
    <3> HIDE DEF a, s
    <3> QED  BY <1>1, <3>1, <3>2 DEF Requests7
  <2>2. /\ r.type = step7
        /\ step7 \in { "application", "accounts" } => r.account = None
        /\ step7 \notin { "application", "accounts" } => r.account = proof7.account
        /\ step7 = "subscription" => r.symbol = proof7.symbol
    BY <2>1 DEF Request7
  <2>3. /\ asked7' \in Seq(Requests7) /\ Len(asked7') = Len(asked7) + 1
        /\ Len(asked7) \in Nat /\ asked7'[Len(asked7) + 1] = r
        /\ \A i \in 1 .. Len(asked7) : asked7'[i] = asked7[i]
    BY <1>3, <2>1, AppendProperties, LenProperties DEF Gate7Inv, Gate7Types
  <2>4. Len(asked7) = Asked7Before[step7] /\ AskingSteps[Len(asked7) + 1] = step7
    <3>1. Asked7Before[step7] \in Nat /\ AskingSteps[Asked7Before[step7] + 1] = step7
      BY <1>1 DEF Asked7Before, AskingSteps
    <3>2. Len(asked7) = Asked7Before[step7] + 0
      BY <1>1 DEF Gate7Inv, Gate7InStep
    <3> QED  BY <3>1, <3>2
  <2>5. Gate7Types'
    <3>1. awaiting7' \in BOOLEAN
      BY <1>3
    <3> QED  BY <1>1, <1>3, <2>3, <3>1 DEF Gate7Inv, Gate7Types
  <2>6. Gate7InStep'
    BY <1>1, <1>3, <2>3, <2>4 DEF Gate7Inv, Gate7InStep
  <2>7. QuestionsInTurn'
    <3>1. ASSUME NEW i \in 1 .. Len(asked7')
          PROVE  /\ asked7'[i].type = AskingSteps[i]
                 /\ asked7'[i].account # None =>
                      Ids(Eligible(listed7)) = { asked7'[i].account }
      <4>1. CASE i \in 1 .. Len(asked7)
        BY <2>3, <4>1 DEF Gate7Inv, QuestionsInTurn
      <4>2. CASE i = Len(asked7) + 1
        BY <1>1, <2>2, <2>3, <2>4, <4>2 DEF Gate7Inv, AccountIsTheOne
      <4> QED  BY <2>3, <4>1, <4>2
    <3> QED  BY <1>3, <3>1 DEF QuestionsInTurn
  <2>8. AccountIsTheOne'
    BY <1>1, <1>3 DEF Gate7Inv, AccountIsTheOne
  <2>9. NobodyAskedFor'
    <3>1. ASSUME step7 \in { "application", "accounts" }, NEW i \in 1 .. Len(asked7')
          PROVE  asked7'[i].account = None
      <4>1. i \in 1 .. Len(asked7) \/ i = Len(asked7) + 1
        BY <2>3
      <4> QED  BY <2>2, <2>3, <3>1, <4>1 DEF Gate7Inv, NobodyAskedFor
    <3> QED  BY <1>1, <1>3, <3>1 DEF NobodyAskedFor
  <2>10. SubscribedIsProven'
    <3>1. step7 = "subscription" => Len(asked7) = 5
      BY <2>4 DEF Asked7Before
    <3> QED  BY <1>1, <1>3, <2>2, <2>3, <3>1 DEF Gate7Inv, SubscribedIsProven
  <2>11. QuoteIsProven'
    <3>1. proof7.phase # "Complete"
      BY <1>1 DEF Gate7Inv, Gate7InStep
    <3> QED  BY <1>1, <3>1 DEF QuoteIsProven
  <2> QED  BY <2>5, <2>6, <2>7, <2>8, <2>9, <2>10, <2>11 DEF Gate7Inv
<1> QED  BY <1>2, <1>3 DEF Ask7

\* The account list has one candidate, which every later question is for.
LEMMA Discovering7Keeps ==
  ASSUME Gate7Inv, NEW frame \in Frames,
         NEW answer \in [ accounts : SUBSET ListedAccounts, owned : BOOLEAN,
                          scope : BOOLEAN ],
         DiscoverAccounts(frame, answer)
  PROVE  Gate7Inv'
<1> DEFINE judged == AcceptAccountList(proof7, answer)
           candidates == Eligible(answer.accounts)
<1>1. /\ step7 = "accounts" /\ step7 \in Questions /\ awaiting7 /\ proof7' = judged
      /\ awaiting7' = FALSE /\ UNCHANGED <<asked7, lastSpot>>
      /\ \/ judged.phase = "AccountAuthentication" /\ step7' = "account"
         \/ judged.phase # "AccountAuthentication" /\ step7' = "exit1"
      /\ listed7' = IF step7' = "account" THEN answer.accounts ELSE listed7
  BY DEF DiscoverAccounts, Judge, Continue7, Questions, Asked7Before
<1>2. /\ proof7.phase = "AccountList" /\ ~Terminal7(proof7)
      /\ \A i \in 1 .. Len(asked7) : asked7[i].account = None
      /\ proof7 \in Proofs7
  BY <1>1
  DEF Gate7Inv, Gate7InStep, Phase7At, Terminal7, NobodyAskedFor, Gate7Types
<1>3. \/ /\ Unambiguous(candidates)
         /\ judged = [ proof7 EXCEPT !.phase = "AccountAuthentication",
                                     !.account = TheOne(candidates).id ]
      \/ judged = Finish7(proof7)
  BY <1>2 DEF AcceptAccountList
<1>4. CASE step7' = "exit1"
  <2>1. judged = Finish7(proof7)
    <3> HIDE DEF judged
    <3> QED  BY <1>1, <1>2, <1>3, <1>4 DEF Proofs7
  <2> QED  BY <1>1, <1>4, <2>1, Leaving7Keeps
<1>5. CASE step7' = "account"
  <2>1. /\ Unambiguous(candidates) /\ listed7' = answer.accounts
        /\ judged = [ proof7 EXCEPT !.phase = "AccountAuthentication",
                                    !.account = TheOne(candidates).id ]
    BY <1>1, <1>3, <1>5 DEF Finish7, EmptyProof7
  <2>2. /\ candidates \in SUBSET ListedAccounts /\ answer.accounts \in SUBSET ListedAccounts
        /\ IsFiniteSet(ListedAccounts)
    BY QuoteGateAssumption DEF Eligible
  <2>3. TheOne(candidates) \in candidates /\ candidates = { TheOne(candidates) }
    <3> HIDE DEF candidates
    <3> QED  BY <2>1, <2>2, OneCandidate
  <2>4. Ids(candidates) = { TheOne(candidates).id }
           /\ TheOne(candidates).id \in Ids(ListedAccounts)
    <3> HIDE DEF candidates
    <3> QED  BY <2>2, <2>3 DEF Ids
  <2>5. /\ judged \in Proofs7 /\ judged.account = TheOne(candidates).id
        /\ judged.phase = "AccountAuthentication"
    <3> HIDE DEF candidates, judged
    <3> QED  BY <1>2, <2>1, <2>4 DEF Proofs7
  <2>6. QuestionsInTurn'
    BY <1>1, <1>2 DEF Gate7Inv, QuestionsInTurn
  <2>7. AccountIsTheOne' /\ NobodyAskedFor' /\ SubscribedIsProven'
    BY <1>1, <1>5, <2>1, <2>4, <2>5 DEF AccountIsTheOne, NobodyAskedFor, SubscribedIsProven
  <2>8. Proceeds("AccountAuthentication", "account")
    BY <1>1, <1>5, <2>5 DEF Proceeds, Questions, Asked7Before, Phase7At
  <2> QED  BY <1>1, <2>1, <2>2, <2>5, <2>6, <2>7, <2>8, Proceeding7Keeps
<1> QED  BY <1>1, <1>4, <1>5

\* Any other answer is for the account that was found, or it ends the program.
LEMMA Answered7Keeps ==
  ASSUME Gate7Inv, NEW frame, NEW judged, NEW phase, NEW next,
         step7 \in Questions \ { "accounts" }, Judge(frame, judged, phase, next),
         UNCHANGED listed7, next \in Questions, next # "account",
         Asked7Before[next] = Asked7Before[step7] + 1, Phase7At[next] = phase,
         judged \in Proofs7, judged = Finish7(proof7) \/ judged.account = proof7.account,
         next = "spot" /\ judged # Finish7(proof7) => judged.symbol = proof7.symbol,
         judged # Finish7(proof7) => judged.phase = phase
  PROVE  Gate7Inv'
<1>1. /\ awaiting7 /\ proof7' = judged /\ awaiting7' = FALSE
      /\ UNCHANGED <<asked7, lastSpot, listed7>>
      /\ \/ judged.phase = phase /\ step7' = next
         \/ judged.phase # phase /\ step7' = "exit1"
  BY DEF Judge, Continue7
<1>2. phase # "Terminal" /\ phase # "Complete"
  BY DEF Phase7At, Questions, Asked7Before
<1>3. CASE step7' = "exit1" /\ judged.phase # phase
  BY <1>1, <1>3, Leaving7Keeps
<1>4. CASE step7' = next /\ judged.phase = phase
  <2>1. judged # Finish7(proof7)
    BY <1>2, <1>4, EmptyProofs7 DEF Finish7
  <2>2. Proceeds(phase, next)
    BY <1>1, <1>4 DEF Proceeds
  <2>3. QuestionsInTurn' /\ listed7' \in SUBSET ListedAccounts
    BY <1>1 DEF Gate7Inv, QuestionsInTurn, Gate7Types
  <2>4. next \in { "account", "symbols", "full", "subscription", "spot" } =>
          step7 \in { "account", "symbols", "full", "subscription" }
    BY DEF Questions, Asked7Before
  <2>5. AccountIsTheOne'
    BY <1>1, <1>4, <2>1, <2>4 DEF Gate7Inv, AccountIsTheOne
  <2>6. NobodyAskedFor'
    <3>1. next \in { "connect", "application", "accounts" } =>
            step7 \in { "connect", "application" }
      BY DEF Questions, Asked7Before
    <3> QED  BY <1>1, <1>4, <3>1 DEF Gate7Inv, NobodyAskedFor
  <2>7. SubscribedIsProven'
    <3>1. next = "spot" => step7 = "subscription"
      BY DEF Questions, Asked7Before
    <3>2. judged.digits \in 0 .. MaxScale
      BY DEF Proofs7
    <3> QED  BY <1>1, <1>4, <2>1, <3>1, <3>2 DEF Gate7Inv, SubscribedIsProven
  <2> QED  BY <1>1, <2>2, <2>3, <2>5, <2>6, <2>7, Proceeding7Keeps
<1> QED  BY <1>1, <1>3, <1>4

\* What the answers make of the proof object.
LEMMA AnsweredProofs7 ==
  ASSUME Gate7Inv, step7 \in Questions
  PROVE  /\ proof7 \in Proofs7 /\ ~Terminal7(proof7) /\ proof7.phase = Phase7At[step7]
         /\ Finish7(proof7) \in Proofs7
<1>1. proof7 \in Proofs7 /\ proof7.phase = Phase7At[step7]
  BY DEF Gate7Inv, Gate7Types, Gate7InStep
<1>2. ~Terminal7(proof7)
  BY <1>1 DEF Terminal7, Phase7At, Questions, Asked7Before
<1> QED  BY <1>1, <1>2, EmptyProofs7 DEF Finish7

\* The application and the account are authenticated.
LEMMA Authenticating7Keeps ==
  ASSUME Gate7Inv, NEW frame,
         \/ ApplicationAuthenticated(frame)
         \/ \E id \in Ids(ListedAccounts) : AuthenticateAccount(frame, id)
  PROVE  Gate7Inv'
<1>1. CASE ApplicationAuthenticated(frame)
  <2>1. /\ step7 = "application" /\ step7 \in Questions /\ "accounts" \in Questions
        /\ Asked7Before["accounts"] = Asked7Before[step7] + 1
        /\ Phase7At["accounts"] = "AccountList" /\ Phase7At[step7] = "AccountList"
    BY <1>1 DEF ApplicationAuthenticated, Questions, Asked7Before, Phase7At
  <2> QED  BY <1>1, <2>1, AnsweredProofs7, Answered7Keeps DEF ApplicationAuthenticated
<1>2. ASSUME NEW id \in Ids(ListedAccounts), AuthenticateAccount(frame, id)
      PROVE  Gate7Inv'
  <2> DEFINE judged == AcceptAccountAuthentication(proof7, id)
  <2>1. /\ step7 = "account" /\ step7 \in Questions /\ "symbols" \in Questions
        /\ Asked7Before["symbols"] = Asked7Before[step7] + 1
        /\ Phase7At["symbols"] = "SymbolsList"
        /\ Judge(frame, judged, "SymbolsList", "symbols") /\ UNCHANGED listed7
    BY <1>2 DEF AuthenticateAccount, Questions, Asked7Before, Phase7At
  <2>2. proof7 \in Proofs7 /\ Finish7(proof7) \in Proofs7
    BY <2>1, AnsweredProofs7
  <2>3. judged = Finish7(proof7) \/ judged = [ proof7 EXCEPT !.phase = "SymbolsList" ]
    BY DEF AcceptAccountAuthentication
  <2>4. /\ judged \in Proofs7
        /\ judged = Finish7(proof7) \/ judged.account = proof7.account
        /\ judged # Finish7(proof7) => judged.phase = "SymbolsList"
    <3> HIDE DEF judged
    <3> QED  BY <2>2, <2>3 DEF Proofs7
  <2> HIDE DEF judged
  <2> QED  BY <2>1, <2>4, Answered7Keeps
<1> QED  BY <1>1, <1>2

\* The symbols list has one gold, which is then asked for.
LEMMA Symbols7Keep ==
  ASSUME Gate7Inv, NEW frame, NEW account \in Ids(ListedAccounts),
         NEW symbols \in SUBSET ListedSymbols, RequestSymbols(frame, account, symbols)
  PROVE  Gate7Inv'
<1> DEFINE judged == AcceptSymbolsList(proof7, account, symbols)
           candidates == Canonical(symbols)
<1>1. /\ step7 = "symbols" /\ step7 \in Questions /\ "full" \in Questions
      /\ Asked7Before["full"] = Asked7Before[step7] + 1 /\ Phase7At["full"] = "FullSymbol"
      /\ Judge(frame, judged, "FullSymbol", "full") /\ UNCHANGED listed7
  BY DEF RequestSymbols, Questions, Asked7Before, Phase7At
<1>2. proof7 \in Proofs7 /\ Finish7(proof7) \in Proofs7 /\ ~Terminal7(proof7)
  BY <1>1, AnsweredProofs7
<1>3. \/ judged = Finish7(proof7)
      \/ /\ Unambiguous(candidates)
         /\ judged = [ proof7 EXCEPT !.phase = "FullSymbol",
                                     !.symbol = TheOne(candidates).id ]
  BY <1>2 DEF AcceptSymbolsList
<1>4. Unambiguous(candidates) => TheOne(candidates).id \in Ids(ListedSymbols)
  <2>1. candidates \in SUBSET ListedSymbols /\ IsFiniteSet(ListedSymbols)
    BY QuoteGateAssumption DEF Canonical
  <2> HIDE DEF candidates
  <2>2. Unambiguous(candidates) => TheOne(candidates) \in candidates
    BY <2>1, OneCandidate
  <2> QED  BY <2>1, <2>2 DEF Ids
<1>5. /\ judged \in Proofs7
      /\ judged = Finish7(proof7) \/ judged.account = proof7.account
      /\ judged # Finish7(proof7) => judged.phase = "FullSymbol"
  <2> HIDE DEF judged, candidates
  <2> QED  BY <1>2, <1>3, <1>4 DEF Proofs7
<1> HIDE DEF judged
<1> QED  BY <1>1, <1>5, Answered7Keeps

\* Its digits are within the scale of a price.
LEMMA FullSymbol7Keeps ==
  ASSUME Gate7Inv, NEW frame, NEW account \in Ids(ListedAccounts),
         NEW symbols \in SUBSET FullSymbols, RequestFullSymbol(frame, account, symbols)
  PROVE  Gate7Inv'
<1> DEFINE judged == AcceptFullSymbol(proof7, account, symbols)
           digits == TheOne({ s \in symbols : s.id = proof7.symbol }).digits
<1>1. /\ step7 = "full" /\ step7 \in Questions /\ "subscription" \in Questions
      /\ Asked7Before["subscription"] = Asked7Before[step7] + 1
      /\ Phase7At["subscription"] = "Subscription"
      /\ Judge(frame, judged, "Subscription", "subscription") /\ UNCHANGED listed7
  BY DEF RequestFullSymbol, Questions, Asked7Before, Phase7At
<1>2. proof7 \in Proofs7 /\ Finish7(proof7) \in Proofs7 /\ ~Terminal7(proof7)
  BY <1>1, AnsweredProofs7
<1>3. \/ judged = Finish7(proof7)
      \/ /\ digits \in 0 .. MaxScale
         /\ judged = [ proof7 EXCEPT !.phase = "Subscription", !.digits = digits ]
  BY <1>2 DEF AcceptFullSymbol
<1>4. /\ judged \in Proofs7
      /\ judged = Finish7(proof7) \/ judged.account = proof7.account
      /\ judged # Finish7(proof7) => judged.phase = "Subscription"
  <2> HIDE DEF judged, digits
  <2> QED  BY <1>2, <1>3 DEF Proofs7
<1> HIDE DEF judged
<1> QED  BY <1>1, <1>4, Answered7Keeps

\* What is subscribed is what was asked for.
LEMMA Subscribing7Keeps ==
  ASSUME Gate7Inv, NEW frame, NEW account \in Ids(ListedAccounts),
         SubscribeToSpot(frame, account)
  PROVE  Gate7Inv'
<1> DEFINE judged == AcceptSubscription(proof7, account, proof7.symbol)
<1>1. /\ step7 = "subscription" /\ step7 \in Questions /\ "spot" \in Questions
      /\ Asked7Before["spot"] = Asked7Before[step7] + 1 /\ Phase7At["spot"] = "Spot"
      /\ Judge(frame, judged, "Spot", "spot") /\ UNCHANGED listed7
  BY DEF SubscribeToSpot, Questions, Asked7Before, Phase7At
<1>2. proof7 \in Proofs7 /\ Finish7(proof7) \in Proofs7 /\ ~Terminal7(proof7)
  BY <1>1, AnsweredProofs7
<1>3. judged = Finish7(proof7) \/ judged = [ proof7 EXCEPT !.phase = "Spot" ]
  BY <1>2 DEF AcceptSubscription
<1>4. /\ judged \in Proofs7
      /\ judged = Finish7(proof7) \/ judged.account = proof7.account
      /\ judged # Finish7(proof7) => judged.phase = "Spot" /\ judged.symbol = proof7.symbol
  <2> HIDE DEF judged
  <2> QED  BY <1>2, <1>3 DEF Proofs7
<1> HIDE DEF judged
<1> QED  BY <1>1, <1>4, Answered7Keeps

\* What a spot makes of the proof object: nothing, its end, or a quote.
LEMMA AcceptedSpots7 ==
  ASSUME Gate7Inv, step7 = "spot", NEW spot \in Spots
  PROVE  \/ AcceptSpot(proof7, spot) \in { proof7, Finish7(proof7) }
         \/ \E quote \in [ bid : Int, ask : Int, time : Int ] :
              /\ AcceptSpot(proof7, spot) = [ EmptyProof7("Complete") EXCEPT !.quote = quote ]
              /\ NotGiven \notin { spot.bid, spot.ask, spot.time }
              /\ 0 <= quote.bid /\ quote.bid <= quote.ask
              /\ quote.time \in ReceiptTime - MaxAge .. ReceiptTime + MaxFuture
<1> DEFINE bid == NormalizeSpotPrice(spot.bid, proof7.digits)
           ask == NormalizeSpotPrice(spot.ask, proof7.digits)
           time == TheOne(PlausibleTimes(spot.time))
           quote == [ bid |-> bid, ask |-> ask, time |-> time ]
           judged == AcceptSpot(proof7, spot)
<1>1. \/ judged = proof7
      \/ judged = Finish7(proof7)
      \/ /\ NotGiven \notin { spot.bid, spot.ask } /\ spot.time # NotGiven
         /\ TimestampProven(spot.time)
         /\ ~(bid > ask) /\ Unrepresentable \notin { bid, ask }
         /\ judged = [ EmptyProof7("Complete") EXCEPT !.quote = quote ]
  BY DEF AcceptSpot
<1>2. ASSUME NotGiven \notin { spot.bid, spot.ask }, Unrepresentable \notin { bid, ask },
             ~(bid > ask)
      PROVE  bid \in Int /\ ask \in Int /\ 0 <= bid /\ bid <= ask
  <2>1. spot.bid \in Nat /\ spot.ask \in Nat
    BY <1>2, QuoteGateAssumption DEF Spots
  <2>2. proof7.digits \in Nat
    BY QuoteGateAssumption DEF Gate7Inv, SubscribedIsProven
  <2>3. /\ bid \in Int /\ (bid # Unrepresentable => 0 <= bid)
        /\ ask \in Int /\ (ask # Unrepresentable => 0 <= ask)
    <3>1. bid \in Int /\ (bid # Unrepresentable => 0 <= bid)
      BY <2>1, <2>2, NormalizedPrices
    <3>2. ask \in Int /\ (ask # Unrepresentable => 0 <= ask)
      BY <2>1, <2>2, NormalizedPrices
    <3> QED  BY <3>1, <3>2
  <2> HIDE DEF bid, ask
  <2> QED  BY <1>2, <2>3
<1>3. ASSUME TimestampProven(spot.time)
      PROVE  time \in ReceiptTime - MaxAge .. ReceiptTime + MaxFuture /\ time \in Int
  <2>1. spot.time \in RawTimes
    BY DEF Spots
  <2>2. time \in ReceiptTime - MaxAge .. ReceiptTime + MaxFuture
    BY <1>3, <2>1, ProvenTimes
  <2> HIDE DEF time
  <2> QED  BY <2>2, QuoteGateAssumption
<1> HIDE DEF bid, ask, time, judged
<1>4. CASE judged \in { proof7, Finish7(proof7) }
  BY <1>4 DEF judged
<1>5. CASE /\ NotGiven \notin { spot.bid, spot.ask } /\ spot.time # NotGiven
           /\ TimestampProven(spot.time)
           /\ ~(bid > ask) /\ Unrepresentable \notin { bid, ask }
           /\ judged = [ EmptyProof7("Complete") EXCEPT !.quote = quote ]
  <2>1. quote \in [ bid : Int, ask : Int, time : Int ]
    BY <1>2, <1>3, <1>5
  <2>2. /\ NotGiven \notin { spot.bid, spot.ask, spot.time }
        /\ 0 <= quote.bid /\ quote.bid <= quote.ask
        /\ quote.time \in ReceiptTime - MaxAge .. ReceiptTime + MaxFuture
    BY <1>2, <1>3, <1>5
  <2> HIDE DEF quote
  <2> QED  BY <1>5, <2>1, <2>2 DEF judged
<1> QED  BY <1>1, <1>4, <1>5

\* A quote is taken from a spot of what was subscribed.
LEMMA ReceivingSpot7Keeps ==
  ASSUME Gate7Inv, NEW spot \in Spots, ReceiveSpot(spot)
  PROVE  Gate7Inv'
<1>1. /\ step7 = "spot" /\ step7 \in Questions /\ ~awaiting7
      /\ UNCHANGED <<awaiting7, asked7, listed7>> /\ proof7 \in Proofs7
      /\ proof7.phase = "Spot" /\ Len(asked7) = 6 /\ Len(AskingSteps) = 6
      /\ asked7[6].account = proof7.account /\ asked7[6].symbol = proof7.symbol
  <2>1. step7 = "spot" /\ UNCHANGED <<awaiting7, asked7, listed7>>
    BY DEF ReceiveSpot
  <2>2. step7 \in Questions /\ Asked7Before[step7] = 6 /\ Phase7At[step7] = "Spot"
    BY <2>1 DEF Questions, Asked7Before, Phase7At
  <2>3. ~awaiting7 /\ proof7.phase = "Spot"
    BY <2>1, <2>2 DEF Gate7Inv, Gate7InStep
  <2>4. Len(asked7) = Asked7Before[step7] + 0
    BY <2>2, <2>3 DEF Gate7Inv, Gate7InStep
  <2>5. Len(AskingSteps) = 6
    BY DEF AskingSteps
  <2> QED  BY <2>1, <2>2, <2>3, <2>4, <2>5 DEF Gate7Inv, Gate7Types, SubscribedIsProven
<1>2. awaiting7' = FALSE
  <2>1. awaiting7 \in BOOLEAN
    BY DEF Gate7Inv, Gate7Types
  <2> QED  BY <1>1, <2>1
<1>3. CASE Foreign(spot)
  <2>1. step7' = "exit1" /\ proof7' = proof7
    BY <1>3 DEF ReceiveSpot
  <2> QED  BY <1>1, <1>2, <2>1, Leaving7Keeps
<1>4. ASSUME ~Foreign(spot), proof7' = Finish7(proof7)
      PROVE  Gate7Inv'
  <2>1. proof7'.phase = "Terminal"
    BY <1>4, EmptyProofs7 DEF Finish7
  <2>2. step7' = "exit1"
    BY <1>4, <2>1 DEF ReceiveSpot
  <2> QED  BY <1>1, <1>2, <1>4, <2>2, Leaving7Keeps
<1>5. ASSUME ~Foreign(spot), proof7' = proof7
      PROVE  Gate7Inv'
  <2>1. step7' = "spot" /\ UNCHANGED lastSpot
    BY <1>1, <1>5 DEF ReceiveSpot
  <2>2. /\ UNCHANGED <<step7, awaiting7, proof7, asked7, listed7, lastSpot>>
    BY <1>1, <1>5, <2>1
  <2> QED  BY <2>2 DEF Gate7Inv, Gate7Types, Gate7InStep, QuestionsInTurn,
         AccountIsTheOne, NobodyAskedFor, SubscribedIsProven, QuoteIsProven
<1>6. ASSUME ~Foreign(spot), NEW quote \in [ bid : Int, ask : Int, time : Int ],
             proof7' = [ EmptyProof7("Complete") EXCEPT !.quote = quote ],
             NotGiven \notin { spot.bid, spot.ask, spot.time },
             0 <= quote.bid, quote.bid <= quote.ask,
             quote.time \in ReceiptTime - MaxAge .. ReceiptTime + MaxFuture
      PROVE  Gate7Inv'
  <2>1. proof7' \in Proofs7 /\ proof7'.phase = "Complete" /\ proof7'.quote = quote
    <3>1. EmptyProof7("Complete") \in Proofs7 /\ EmptyProof7("Complete").phase = "Complete"
      BY EmptyProofs7
    <3> QED  BY <1>6, <3>1 DEF Proofs7
  <2>2. step7' = "exit0" /\ lastSpot' = spot
    BY <1>6, <2>1 DEF ReceiveSpot
  <2>3. spot.account = asked7[6].account /\ spot.symbol = asked7[6].symbol
    BY <1>1, <1>6 DEF Foreign
  <2>4. step7' \notin Questions
    BY <2>2 DEF Questions, Asked7Before
  <2>5. Gate7Types'
    <3>1. awaiting7' \in BOOLEAN
      BY <1>2
    <3> QED  BY <1>1, <2>1, <2>2, <3>1 DEF Gate7Inv, Gate7Types
  <2>6. Gate7InStep' /\ QuestionsInTurn'
    BY <1>1, <2>1, <2>2, <2>4 DEF Gate7Inv, Gate7InStep, QuestionsInTurn
  <2>7. AccountIsTheOne' /\ NobodyAskedFor' /\ SubscribedIsProven'
    BY <2>2 DEF AccountIsTheOne, NobodyAskedFor, SubscribedIsProven
  <2>8. QuoteIsProven'
    BY <1>1, <1>6, <2>1, <2>2, <2>3 DEF QuoteIsProven
  <2> QED  BY <2>5, <2>6, <2>7, <2>8 DEF Gate7Inv
<1>7. ~Foreign(spot) => proof7' = AcceptSpot(proof7, spot)
  BY DEF ReceiveSpot
<1> QED  BY <1>1, <1>3, <1>4, <1>5, <1>6, <1>7, AcceptedSpots7

\* Every step keeps it.
LEMMA Gate7Keeps == Gate7Inv /\ [Gate7Next]_gate7Vars => Gate7Inv'
<1> SUFFICES ASSUME Gate7Inv, [Gate7Next]_gate7Vars PROVE Gate7Inv'
  OBVIOUS
<1>1. CASE ConnectDemo7
  <2>1. step7 = "connect" /\ UNCHANGED proof7 /\ step7 \in Questions /\ ~awaiting7
    BY <1>1 DEF ConnectDemo7, Questions, Asked7Before, Gate7Inv, Gate7InStep
  <2>2. CASE Exit7("exit1")
    BY <2>1, <2>2, Leaving7Keeps DEF Exit7
  <2>3. CASE Continue7("application") /\ UNCHANGED <<asked7, listed7, lastSpot>>
    <3>1. /\ step7' = "application" /\ awaiting7' = FALSE
          /\ UNCHANGED <<proof7, asked7, listed7, lastSpot>>
      BY <2>1, <2>3 DEF Continue7
    <3>2. /\ Asked7Before["application"] = 0 /\ Asked7Before["connect"] = 0
          /\ Phase7At["application"] = "AccountList" /\ Phase7At["connect"] = "AccountList"
          /\ "application" \in Questions
      BY DEF Asked7Before, Phase7At, Questions
    <3>3. Gate7Types'
      <4>1. awaiting7' \in BOOLEAN
        BY <3>1
      <4> QED  BY <3>1, <3>2, <4>1 DEF Gate7Inv, Gate7Types
    <3>4. Gate7InStep'
      BY <2>1, <3>1, <3>2 DEF Gate7Inv, Gate7InStep
    <3>5. QuestionsInTurn' /\ AccountIsTheOne' /\ NobodyAskedFor' /\ SubscribedIsProven'
      BY <2>1, <3>1 DEF Gate7Inv, QuestionsInTurn, AccountIsTheOne, NobodyAskedFor,
                        SubscribedIsProven
    <3>6. QuoteIsProven'
      BY <2>1, <3>1, <3>2 DEF Gate7Inv, Gate7InStep, QuoteIsProven
    <3> QED  BY <3>3, <3>4, <3>5, <3>6 DEF Gate7Inv
  <2> QED  BY <1>1, <2>2, <2>3 DEF ConnectDemo7
<1>2. CASE Ask7
  BY <1>2, Asking7Keeps
<1>3. ASSUME \/ NoAnswer7
             \/ \E frame \in Frames : Refuse(frame)
      PROVE  Gate7Inv'
  <2>1. (awaiting7 \/ step7 = "spot") /\ UNCHANGED proof7 /\ Exit7("exit1")
    BY <1>3 DEF NoAnswer7, Refuse
  <2>2. step7 \in Questions
    BY <2>1 DEF Gate7Inv, Gate7InStep, Questions, Asked7Before
  <2> QED  BY <2>1, <2>2, Leaving7Keeps DEF Exit7
<1>4. ASSUME NEW frame \in Frames, ApplicationAuthenticated(frame)
      PROVE  Gate7Inv'
  BY <1>4, Authenticating7Keeps
<1>5. ASSUME NEW frame \in Frames,
             NEW received \in [ accounts : SUBSET ListedAccounts, owned : BOOLEAN,
                                scope : BOOLEAN ], DiscoverAccounts(frame, received)
      PROVE  Gate7Inv'
  BY <1>5, Discovering7Keeps
<1>6. ASSUME NEW frame \in Frames, NEW account \in Ids(ListedAccounts),
             \/ AuthenticateAccount(frame, account)
             \/ SubscribeToSpot(frame, account)
             \/ \E symbols \in SUBSET ListedSymbols :
                  RequestSymbols(frame, account, symbols)
             \/ \E symbols \in SUBSET FullSymbols :
                  RequestFullSymbol(frame, account, symbols)
      PROVE  Gate7Inv'
  BY <1>6, Authenticating7Keeps, Subscribing7Keeps, Symbols7Keep, FullSymbol7Keeps
<1>7. ASSUME NEW spot \in Spots, ReceiveSpot(spot)
      PROVE  Gate7Inv'
  BY <1>7, ReceivingSpot7Keeps
<1>8. CASE UNCHANGED gate7Vars
  BY <1>8 DEF gate7Vars, Gate7Inv, Gate7Types, Gate7InStep, QuestionsInTurn,
              AccountIsTheOne, NobodyAskedFor, SubscribedIsProven, QuoteIsProven
<1> QED  BY <1>1, <1>2, <1>3, <1>4, <1>5, <1>6, <1>7, <1>8 DEF Gate7Next

\* The program asks every question in its turn and for the one account only,
\* and it succeeds exactly with a fresh two-sided quote of what it subscribed.
THEOREM QuoteOfOneAccount == Gate7Spec => []QuoteProvesOneDemoAccount
<1>1. Gate7Spec => []Gate7Inv
  BY Gate7Begins, Gate7Keeps, PTL DEF Gate7Spec
<1> QED  BY <1>1, Gate7Proves, PTL
================================================================================
