------------------------------- MODULE Branch -------------------------------
(***************************************************************************)
(* A bank branch at work: the transaction desk (Commands), the onboarding  *)
(* facade (Onboarding) and clerks who change account statuses, all on one  *)
(* ledger.  The desk is screened by the fraud rules of FraudRules.         *)
(***************************************************************************)
EXTENDS Commands, Onboarding, FraudRules

CONSTANTS
  OpeningRows,   \* [Accounts -> Row]: the accounts there are at the start
  RuleTexts,     \* the fraud rules operators may configure, as tokens
  MaxClerk       \* bound: status changes by clerks in a run

ASSUME BranchAssumption ==
  /\ OpeningRows \in [Accounts -> Row] /\ MaxClerk \in Nat
  /\ \A j \in Jobs : OpeningRows[AccountOf[j]] = Absent
  /\ Jobs \cap (Commands \cup Undos) = {}
  /\ \A rule \in RuleTexts : rule \in Seq({rule[i] : i \in DOMAIN rule})

VARIABLE clerk   \* status changes so far

vars == <<till, desk, job, clerk>>

TypeOK ==
  /\ rows \in [Accounts -> Row] /\ entries \subseteq Entry
  /\ faults \in 0 .. MaxFaults /\ clerk \in 0 .. MaxClerk
  /\ DeskTypeOK /\ OnboardingTypeOK

Init ==
  /\ rows = OpeningRows /\ entries = {} /\ faults = 0 /\ clerk = 0
  /\ DeskInit /\ OnboardingInit

\* PATCH accounts/:id/status
Clerk ==
  /\ clerk < MaxClerk /\ clerk' = clerk + 1
  /\ \E a \in Accounts, action \in StatusActions :
       May(a, action) /\ SetStatus(a, action)
  /\ UNCHANGED <<entries, faults, desk, job>>

\* Everybody is served; requests that nobody sends any more are no deadlock.
Done == DeskIdle /\ OnboardingIdle /\ UNCHANGED vars

Next ==
  \/ DeskNext /\ UNCHANGED <<job, clerk>>
  \/ OnboardingNext /\ UNCHANGED <<desk, clerk>>
  \/ Clerk
  \/ Done

Spec == Init /\ [][Next]_vars

-----------------------------------------------------------------------------

\* What the desk tells its clients is what the ledger holds, whichever pod
\* answered, evicted or died, and whoever reversed what in the meantime.  A
\* reference that was handed out has all its lines in the ledger; a command
\* that failed and is known to have failed has none; one marked UNDONE has
\* every line taken back.
DeskTellsTruth ==
  \A c \in Commands : command[c].pc # "idle" =>
    /\ command[c].ref # NoRef => EntriesOf(command[c].ref) = LinesOf(c)
    /\ command[c].pc = "failed" => EntriesOf(RefOf(c)) = {}
    /\ command[c].status = "UNDONE" => command[c].ref # NoRef /\ IsReversed(command[c].ref)

\* The rules FRAUD_RULES holds unless it is set.
IsFraud(call) ==
  \/ call.amount > 5000000 /\ call.channel = "mobile"
  \/ call.hour < 5 /\ call.amount > 1000000

\* The engine runs at least those rules.
ASSUME FraudAssumption == \A call \in Calls : IsFraud(call) => Suspicious(call)

\* A transfer the default fraud rules name never moves money, not even when it
\* is retried through another pod; every transfer that did moved its amount
\* from one account to another of the same currency, at the price of its
\* channel, and its fee went nowhere else.
TransfersScreened ==
  \A c \in Commands :
    command[c].pc # "idle" /\ command[c].call.kind = "transfer" /\ EntriesOf(RefOf(c)) # {} =>
      LET call == command[c].call  lines == EntriesOf(RefOf(c)) IN
      /\ ~IsFraud(call)
      /\ call.from # call.to
      /\ rows[call.from].currency = rows[call.to].currency
      /\ Moved(call.to, lines) = call.amount
      /\ Moved(call.from, lines) =
           -call.amount - BaseFee - (IF call.channel = "branch" THEN BranchExtra ELSE 0)

ParserFollowsGrammar == \A rule \in RuleTexts : FollowsGrammar(rule)

\* The engine parses its rules when the pod starts, before any command is run.
\* Its parser accepts exactly the rules of the grammar in its head comment and
\* builds the one tree the grammar gives them: AND binds tighter than OR, both
\* group to the left, NOT reaches one operand.
RulesFollowGrammar ==
  (\A c \in Commands : command[c].pc = "idle") => ParserFollowsGrammar
=============================================================================
