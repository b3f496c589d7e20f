----------------------------- MODULE Onboarding -----------------------------
(***************************************************************************)
(* BankingFacade.onboardCustomer: open, deposit, activate, announce, and   *)
(* the compensation when the deposit or the activation fails.  Each step   *)
(* is a transaction of its own; the facade keeps its progress in memory.   *)
(* Publishing never fails (the bus logs what its observers throw), so it   *)
(* is no step.                                                             *)
(***************************************************************************)
EXTENDS Till

CONSTANTS
  Jobs,         \* onboarding requests
  AccountOf,    \* [Jobs -> Accounts]: the id the database gives to each
  Applications  \* what customers apply with: type, product, currency, initial

ASSUME OnboardingAssumption ==
  /\ AccountOf \in [Jobs -> Accounts]
  /\ \A i, j \in Jobs : AccountOf[i] = AccountOf[j] => i = j
  /\ Applications \subseteq [type : AccountTypes, currency : STRING,
                             product : STRING, initial : Nat]
  /\ {<<"DEP", j>> : j \in Jobs} \cup {<<"REV", j>> : j \in Jobs} \subseteq References

VARIABLES
  job        \* each onboarding: pc, the application, depositReference

Steps == {"idle", "depositing", "activating", "welcoming", "compensating",
          "refunding", "closing"}
Ends  == {"welcomed", "unsure", "refused", "orphaned", "closed", "leftOpen",
          "stuck", "dead"}

OnboardingTypeOK ==
  \A j \in Jobs :
    \/ job[j] \in [pc : {"idle", "refused"}]
    \/ job[j] \in [pc : Steps \cup Ends, application : Applications,
                   deposit : References \cup {NoRef}]

OnboardingInit ==
  job = [j \in Jobs |-> [pc |-> "idle"]]

Opening(j)  == <<"DEP", j>>
Refund(j)   == <<"REV", j>>
Initial(j)  == job[j].application.initial
Goes(j, pc) == job' = [job EXCEPT ![j].pc = pc]

\* AccountsService.open.  An application without money goes on to activation.
Open(j) ==
  /\ job[j].pc = "idle"
  /\ \E application \in Applications :
       LET settings == Blueprint(application)
           Saved(pc) ==
             /\ rows' = [rows EXCEPT ![AccountOf[j]] =
                  [status |-> "PENDING", balance |-> 0, limit |-> settings.limit,
                   currency |-> application.currency]]
             /\ job' = [job EXCEPT ![j] = [pc |-> pc, application |-> application,
                                           deposit |-> NoRef]]
           Refused == UNCHANGED rows /\ Goes(j, "refused")
       IN  \/ /\ Opens(application) /\ UNCHANGED faults
              /\ Saved(IF application.initial > 0 THEN "depositing" ELSE "activating")
           \/ ~Opens(application) /\ Refused /\ UNCHANGED faults
           \/ Opens(application) /\ Fault /\ (Refused \/ Saved("orphaned"))
  /\ UNCHANGED entries

\* The ledger's deposit; its reference is known only if the answer arrives.
Deposit(j) ==
  LET lines == {Line(Opening(j), AccountOf[j], Initial(j), "DEPOSIT")} IN
  /\ job[j].pc = "depositing"
  /\ \/ /\ Credits(AccountOf[j], Initial(j)) /\ Commits(lines)
        /\ \/ /\ UNCHANGED faults
              /\ job' = [job EXCEPT ![j].pc = "activating", ![j].deposit = Opening(j)]
           \/ Fault /\ Goes(j, "compensating")
     \/ /\ Goes(j, "compensating") /\ UNCHANGED <<rows, entries>>
        /\ \/ ~Credits(AccountOf[j], Initial(j)) /\ UNCHANGED faults
           \/ Fault

\* A status change of AccountsService: saved, refused, or in doubt.
Changes(a, action) == May(a, action) /\ SetStatus(a, action)

Activate(j) ==
  /\ job[j].pc = "activating"
  /\ \/ Changes(AccountOf[j], "activate") /\ UNCHANGED faults /\ Goes(j, "welcoming")
     \/ Changes(AccountOf[j], "activate") /\ Fault /\ Goes(j, "compensating")
     \/ /\ Goes(j, "compensating") /\ UNCHANGED rows
        /\ \/ ~May(AccountOf[j], "activate") /\ UNCHANGED faults
           \/ Fault
  /\ UNCHANGED entries

\* The event is published and the account read once more.
Welcome(j) ==
  /\ job[j].pc = "welcoming"
  /\ \/ Goes(j, "welcomed") /\ UNCHANGED faults
     \/ Fault /\ Goes(j, "unsure")
  /\ UNCHANGED <<rows, entries>>

\* Slip: the compensation closes without giving the deposit back.
CompensateCloseOnly(j) ==
  /\ job[j].pc = "compensating" /\ Goes(j, "closing")
  /\ UNCHANGED till

\* The compensation reverses the deposit it knows of.  reverse() refuses when
\* someone reversed it first, and then nothing is closed.
Compensate(j) ==
  /\ job[j].pc = "compensating"
  /\ Goes(j, IF job[j].deposit = NoRef THEN "closing"
             ELSE IF Reversible(job[j].deposit) THEN "refunding" ELSE "stuck")
  /\ UNCHANGED till

\* Under the row lock the money must still be there.
GiveBack(j) ==
  LET lines == ReversalLines(Refund(j), job[j].deposit) IN
  /\ job[j].pc = "refunding"
  /\ \/ Covers(lines) /\ Commits(lines) /\ UNCHANGED faults /\ Goes(j, "closing")
     \/ Covers(lines) /\ Commits(lines) /\ Fault /\ Goes(j, "stuck")
     \/ /\ Goes(j, "stuck") /\ UNCHANGED <<rows, entries>>
        /\ \/ ~Covers(lines) /\ UNCHANGED faults
           \/ Fault

\* Whatever the close throws is dropped; the first error goes to the caller.
Close(j) ==
  /\ job[j].pc = "closing"
  /\ \/ Changes(AccountOf[j], "close") /\ UNCHANGED faults /\ Goes(j, "closed")
     \/ Changes(AccountOf[j], "close") /\ Fault /\ Goes(j, "leftOpen")
     \/ /\ Goes(j, "leftOpen") /\ UNCHANGED rows
        /\ \/ ~May(AccountOf[j], "close") /\ UNCHANGED faults
           \/ Fault
  /\ UNCHANGED entries

\* The pod of this request dies; nothing else remembers how far it came.
Abandon(j) ==
  /\ job[j].pc \in Steps \ {"idle"} /\ Fault /\ Goes(j, "dead")
  /\ UNCHANGED <<rows, entries>>

OnboardingNext ==
  \E j \in Jobs : Open(j) \/ Deposit(j) \/ Activate(j) \/ Welcome(j) \/ Compensate(j)
                  \/ GiveBack(j) \/ Close(j) \/ Abandon(j)

OnboardingIdle == \A j \in Jobs : job[j].pc \in Ends

-----------------------------------------------------------------------------

\* What onboardCustomer promises its caller.  The account of a customer
\* who is welcomed was activated and has the whole deposit paid in; one who is rolled back has a
\* closed account, and the deposit the facade knew of was given back, once;
\* one who is refused has no account.  Clerks, customers and reversals act on
\* the account between the facade's steps.
OnboardedOrUndone ==
  \A j \in Jobs :
    /\ job[j].pc \in {"welcoming", "welcomed", "unsure"} =>
         /\ rows[AccountOf[j]].status # "PENDING"
         /\ Initial(j) > 0 => Moved(AccountOf[j], EntriesOf(Opening(j))) = Initial(j)
    /\ job[j].pc = "closed" =>
         /\ rows[AccountOf[j]].status = "CLOSED"
         /\ job[j].deposit # NoRef =>
              /\ IsReversed(job[j].deposit)
    /\ job[j].pc = "refused" => rows[AccountOf[j]] = Absent
=============================================================================
