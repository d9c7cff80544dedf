---------------------------- MODULE DemoAccountGate ----------------------------
(***************************************************************************)
(* Gate 6: the read-only proof that the token reaches exactly one demo     *)
(* account a person has approved.  The account list is asked for twice, on *)
(* two connections: once to show the broker titles of the demo accounts to *)
(* Wade, and again, after his answer, to find the account he approved.     *)
(* Between the two the accounts of the token may have changed.             *)
(*                                                                         *)
(* The program is one thread (runCTraderGate6ProofImpl); what it does not  *)
(* know is what the provider and Wade answer, so these are inputs.         *)
(***************************************************************************)
EXTENDS Naturals, Sequences, FiniteSets

CONSTANTS
  GateAccounts,   \* records a provider may list: [id, live, title], where live
                  \* is "live", "demo" or, if it is not said, "unknown"
  UnsafeTitles    \* titles isSafeBrokerTitle() refuses

ASSUME GateAccountsAssumption == IsFiniteSet(GateAccounts)

VARIABLES
  step6,       \* where runCTraderGate6ProofImpl() is
  awaiting6,   \* a request has been sent, its answer has not been taken
  proof6,      \* CTraderGate6AccountProof
  confirmed,   \* history: the title Wade has confirmed
  asked6,      \* history: the requests sent
  listed6      \* history: the account lists accepted

gate6Vars == <<step6, awaiting6, proof6, confirmed, asked6, listed6>>

NoTitle == "none"
NoAccount == 0
Absent == "absent"
Titles == { a.title : a \in GateAccounts }

\* CTraderGate6AccountProof: all that clearAll() wipes, and the phase.
EmptyProof6(phase) ==
  [ phase |-> phase, candidates |-> {}, approved |-> NoTitle,
    account |-> NoAccount ]

Gate6Init ==
  /\ step6 = "connectA" /\ awaiting6 = FALSE
  /\ proof6 = EmptyProof6("Gate6AReady")
  /\ confirmed = NoTitle /\ asked6 = <<>> /\ listed6 = <<>>

Terminal6(p) == p.phase \in { "Terminal", "Complete" }

\* finish() and cancel(); a proof that has ended stays as it is.
Finish6(p) == EmptyProof6("Terminal")
Cancel6(p) == IF Terminal6(p) THEN p ELSE Finish6(p)

--------------------------------------------------------------------------------
(***************************************************************************)
(* The proof object.  accounts is the list of one answer; owned and scope  *)
(* say whether the answer carries this token and the trading scope.        *)
(***************************************************************************)

Evidence6(answer) == answer.owned /\ answer.scope

DemoAccounts(accounts) ==
  { a \in accounts : a.live = "demo" /\ a.title # Absent }

AcceptGate6A(p, answer) ==
  LET demo == DemoAccounts(answer.accounts)
      titles == { a.title : a \in demo }
  IN IF Terminal6(p) THEN p
     ELSE IF /\ p.phase = "Gate6AReady" /\ Evidence6(answer)
             /\ demo # {} /\ titles \cap UnsafeTitles = {}
             /\ \A a \in demo : a.id > 0
             /\ Cardinality(demo) = Cardinality(titles)
     THEN [ p EXCEPT !.phase = "AwaitingWade", !.candidates = titles ]
     ELSE Finish6(p)

\* Mutant: a title that was not shown is taken as well.
ConfirmWadeSelection_Unlisted(p, title) ==
  IF p.phase = "AwaitingWade"
  THEN [ EmptyProof6("Gate6BReady") EXCEPT !.approved = title ]
  ELSE p

ConfirmWadeSelection(p, title) ==
  IF Terminal6(p) THEN p
  ELSE IF p.phase = "AwaitingWade" /\ title \in p.candidates
  THEN [ EmptyProof6("Gate6BReady") EXCEPT !.approved = title ]
  ELSE Finish6(p)

AcceptGate6B(p, answer) ==
  LET demo == DemoAccounts(answer.accounts)
      named == { a \in demo : a.title = p.approved }
  IN IF Terminal6(p) THEN p
     ELSE IF /\ p.phase = "Gate6BReady" /\ p.approved # NoTitle
             /\ Evidence6(answer)
             /\ \A a \in demo : a.title \notin UnsafeTitles
             /\ \A a \in named : a.id > 0
             /\ Cardinality(named) = 1
     THEN [ p EXCEPT !.phase = "AccountAuthReady",
                     !.account = (CHOOSE a \in named : TRUE).id ]
     ELSE Finish6(p)

AcceptAccountAuthentication6(p, id) ==
  IF Terminal6(p) THEN p
  ELSE IF p.phase = "AccountAuthReady" /\ id > 0 /\ id = p.account
  THEN EmptyProof6("Complete")
  ELSE Finish6(p)

--------------------------------------------------------------------------------
(***************************************************************************)
(* The runtime.                                                            *)
(***************************************************************************)

Exit6(code) ==
  /\ step6' = code /\ awaiting6' = FALSE
  /\ UNCHANGED <<confirmed, asked6, listed6>>

Steps6 ==
  { "connectA", "applicationA", "accountsA", "checkpoint", "connectB",
    "applicationB", "accountsB", "account" }

Following6 ==
  [ connectA |-> "applicationA", applicationA |-> "accountsA",
    connectB |-> "applicationB", applicationB |-> "accountsB" ]

\* connectDemo() and the local failures before it; no proof exists in A yet,
\* in B it is cancelled.
ConnectDemo6 ==
  /\ step6 \in { "connectA", "connectB" }
  /\ \/ /\ step6' = Following6[step6]
        /\ UNCHANGED <<awaiting6, proof6, confirmed, asked6, listed6>>
     \/ /\ proof6' = IF step6 = "connectB" THEN Cancel6(proof6) ELSE proof6
        /\ Exit6("exit1")

\* What each step sends, and for which account.
Request6(s) ==
  [ type |-> CASE s \in { "applicationA", "applicationB" } -> "application"
               [] s \in { "accountsA", "accountsB" } -> "accounts"
               [] s = "account" -> "account",
    account |-> IF s = "account" THEN proof6.account ELSE NoAccount ]

Ask6 ==
  /\ ~awaiting6 /\ step6 \in Steps6 \ { "connectA", "connectB", "checkpoint" }
  /\ \/ /\ asked6' = Append(asked6, Request6(step6)) /\ awaiting6' = TRUE
        /\ UNCHANGED <<step6, proof6, confirmed, listed6>>
     \/ proof6' = Cancel6(proof6) /\ Exit6("exit1")

\* receiveExpected(): an answer to the last request is taken, a heartbeat is
\* passed over.  Anything else, an error or the deadline fails the step.
NoAnswer6 ==
  /\ awaiting6
  /\ proof6' = Cancel6(proof6) /\ Exit6("exit1")

AcceptApplication6 ==
  /\ awaiting6 /\ step6 \in { "applicationA", "applicationB" }
  /\ step6' = Following6[step6] /\ awaiting6' = FALSE
  /\ UNCHANGED <<proof6, confirmed, asked6, listed6>>

DiscoverA(answer) ==
  /\ awaiting6 /\ step6 = "accountsA"
  /\ proof6' = AcceptGate6A(proof6, answer)
  /\ \/ /\ proof6'.phase = "AwaitingWade"
        /\ step6' = "checkpoint" /\ awaiting6' = FALSE
        /\ listed6' = Append(listed6, answer.accounts)
        /\ UNCHANGED <<confirmed, asked6>>
     \/ proof6'.phase # "AwaitingWade" /\ Exit6("exit1")

\* Wade enters CONFIRM and a title, CANCEL, or something else.
Checkpoint(title) ==
  /\ step6 = "checkpoint"
  /\ proof6' = ConfirmWadeSelection(proof6, title)
  /\ \/ /\ proof6'.phase = "Gate6BReady" /\ step6' = "connectB"
        /\ confirmed' = title /\ UNCHANGED <<awaiting6, asked6, listed6>>
     \/ proof6'.phase # "Gate6BReady" /\ Exit6("exit1")

\* CANCEL, no prefix, or a token that has aged while Wade was thinking.
CheckpointCancelled ==
  /\ step6 = "checkpoint"
  /\ proof6' = Cancel6(proof6) /\ Exit6("exit1")

DiscoverB(answer) ==
  /\ awaiting6 /\ step6 = "accountsB"
  /\ proof6' = AcceptGate6B(proof6, answer)
  /\ \/ /\ proof6'.phase = "AccountAuthReady"
        /\ step6' = "account" /\ awaiting6' = FALSE
        /\ listed6' = Append(listed6, answer.accounts)
        /\ UNCHANGED <<confirmed, asked6>>
     \/ proof6'.phase # "AccountAuthReady" /\ Exit6("exit1")

AuthenticateAccount6(id) ==
  /\ awaiting6 /\ step6 = "account"
  /\ proof6' = Cancel6(AcceptAccountAuthentication6(proof6, id))
  /\ Exit6(IF proof6'.phase = "Complete" THEN "exit0" ELSE "exit1")

Answers6 ==
  [ accounts : SUBSET GateAccounts, owned : BOOLEAN, scope : BOOLEAN ]

Gate6Next ==
  \/ ConnectDemo6 \/ Ask6 \/ NoAnswer6 \/ AcceptApplication6
  \/ \E answer \in Answers6 : DiscoverA(answer) \/ DiscoverB(answer)
  \/ \E title \in Titles : Checkpoint(title)
  \/ CheckpointCancelled
  \/ \E id \in { a.id : a \in GateAccounts } : AuthenticateAccount6(id)

Gate6Spec == Gate6Init /\ [][Gate6Next]_gate6Vars

--------------------------------------------------------------------------------

Gate6TypeOK ==
  /\ step6 \in Steps6 \cup { "exit0", "exit1" }
  /\ awaiting6 \in BOOLEAN
  /\ proof6 \in
       [ phase : { "Gate6AReady", "AwaitingWade", "Gate6BReady",
                   "AccountAuthReady", "Complete", "Terminal" },
         candidates : SUBSET Titles, approved : Titles \cup { NoTitle },
         account : { a.id : a \in GateAccounts } \cup { NoAccount } ]
  /\ confirmed \in Titles \cup { NoTitle }
  /\ Len(asked6) <= 5 /\ Len(listed6) <= 2

AuthRequests6 == { i \in 1 .. Len(asked6) : asked6[i].type = "account" }

(***************************************************************************)
(* No account is authenticated but the one demo account that carries, on   *)
(* the connection it is authenticated on, the title Wade has confirmed,    *)
(* and success is reported only after exactly that one authentication.     *)
(* The lists of the two connections may differ: an account that has become *)
(* live, or ambiguous, since Wade's answer is not used.                    *)
(***************************************************************************)
OnlyTheApprovedAccount ==
  /\ \A i \in AuthRequests6 :
       /\ i = Len(asked6) /\ Len(listed6) = 2
       /\ LET current == DemoAccounts(listed6[2])
              named == { a \in current : a.id = asked6[i].account }
          IN \E a \in named :
               /\ a.title = confirmed
               /\ confirmed \in { b.title : b \in DemoAccounts(listed6[1]) }
               /\ \A b \in current : b.title = a.title => b = a
  /\ step6 = "exit0" => AuthRequests6 # {}
================================================================================
