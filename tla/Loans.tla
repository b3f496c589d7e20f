------------------------------- MODULE Loans -------------------------------
(***************************************************************************)
(* Loan drafts and their submission in one API process (modules/loans):    *)
(* the drafts with their undo stacks in memory, and LoansService.submit,   *)
(* which awaits the account, the desks and the database while drafts are   *)
(* edited, undone and submitted again.                                     *)
(*                                                                         *)
(* A draft's fields come from request bodies.  The body becomes an         *)
(* instance of LoanDraftDto, whose class fields exist whether the body     *)
(* names them or not (compilation target ES2022): those it does not name   *)
(* are undefined.  Amounts are in thousands of rupees; a blank name counts *)
(* as undefined.                                                           *)
(***************************************************************************)
EXTENDS Naturals, Sequences

CONSTANTS
  Drafts, Submits,   \* draft ids; calls of submit
  Bodies,            \* request bodies: functions from some Fields to values
  Undefined, Personal, \* a field without value; the default purpose
  Existing,          \* the account ids that exist
  Score, Defaulted,  \* the bureau: per applicant a score; who has defaults
  Restricted,        \* the purposes that compliance does not decide
  Instalment(_, _),  \* monthlyInstalmentMinor of an amount and a term
  MaxChanges, MaxFaults \* bounds: undo steps of a draft; failures in a run

Fields == {"applicantName", "accountId", "amountMinor", "termMonths", "purpose",
           "monthlyIncomeMinor", "collateralDescription", "collateralValueMinor"}

\* LoanDraftDto takes whole positive amounts only (@IsInt, @IsPositive), and the
\* default purpose is one ("personal").
ASSUME LoansAssumption ==
  /\ \A b \in Bodies : \A n \in {"amountMinor", "monthlyIncomeMinor"} \cap DOMAIN b :
       b[n] \in (Nat \ {0}) \cup {Undefined}
  /\ Personal # Undefined

VARIABLES
  live,      \* drafts in the caretaker
  values,    \* per draft: its fields
  history,   \* per draft: its mementos, the oldest first
  lost,      \* drafts that died with a process
  submit,    \* per call of submit: its progress
  loans,     \* rows of loan_applications, each with the call that saved it
  published, \* calls whose loan.decided event reached the bus
  faults     \* failures so far

drafts == <<live, values, history, lost>>
vars == <<drafts, submit, loans, published, faults>>

Idle == [step |-> "idle"]
Active == {"account", "credit", "affordability", "compliance", "save", "saved"}
Ended == {"done", "failed", "dead"}
Fault == faults < MaxFaults /\ faults' = faults + 1

\* ValidationPipe with transform: the body as an instance of LoanDraftDto.
Dto(body) == [n \in Fields |-> IF n \in DOMAIN body THEN body[n] ELSE Undefined]

OrElse(value, default) == IF value = Undefined THEN default ELSE value

Init ==
  /\ live = {} /\ lost = {}
  /\ values = [d \in Drafts |-> Dto(<<>>)]
  /\ history = [d \in Drafts |-> <<>>]
  /\ submit = [s \in Submits |-> Idle]
  /\ loans = {} /\ published = {}
  /\ faults = 0

-----------------------------------------------------------------------------
(* Drafts: the handlers run without interruption. *)

\* The draft as it was after each change, the current fields last.
Versions(d) == Append(history[d], values[d])
IsNew(d) == d \notin live \cup lost /\ \A s \in Submits :
              submit[s] # Idle => submit[s].draft # d

\* LoanDraftCaretaker.remove.
Drop(ds) ==
  /\ live' = live \ ds
  /\ values' = [d \in Drafts |-> IF d \in ds THEN Dto(<<>>) ELSE values[d]]
  /\ history' = [d \in Drafts |-> IF d \in ds THEN <<>> ELSE history[d]]

CreateDraft(d, body) ==
  /\ IsNew(d)
  /\ live' = live \cup {d}
  /\ values' = [values EXCEPT ![d] = Dto(body)]
  /\ UNCHANGED <<history, lost, submit, loans, published, faults>>

\* LoanDraft.update: {...fields, ...changes}.
Spread(fields, changes) ==
  [n \in Fields |-> IF n \in DOMAIN changes THEN changes[n] ELSE fields[n]]

\* Slip: the snapshot is taken after the change.
SlipSavesLate(d, body) ==
  /\ d \in live /\ Len(history[d]) < MaxChanges
  /\ values' = [values EXCEPT ![d] = Spread(@, Dto(body))]
  /\ history' = [history EXCEPT ![d] = Append(@, values'[d])]
  /\ UNCHANGED <<live, lost, submit, loans, published, faults>>

UpdateDraft(d, body) ==
  /\ d \in live /\ Len(history[d]) < MaxChanges
  /\ history' = [history EXCEPT ![d] = Append(@, values[d])]
  /\ values' = [values EXCEPT ![d] = Spread(@, Dto(body))]
  /\ UNCHANGED <<live, lost, submit, loans, published, faults>>

UndoDraft(d) ==
  /\ d \in live /\ history[d] # <<>>
  /\ values' = [values EXCEPT ![d] = history[d][Len(history[d])]]
  /\ history' = [history EXCEPT ![d] = SubSeq(@, 1, Len(@) - 1)]
  /\ UNCHANGED <<live, lost, submit, loans, published, faults>>

-----------------------------------------------------------------------------
(* Submission *)

\* LoanApplicationBuilder: what build() accepts, and what it returns.
HasCollateral(f) ==
  f["collateralDescription"] # Undefined /\ f["collateralValueMinor"] # Undefined

Builds(f) ==
  /\ \A n \in {"applicantName", "accountId", "amountMinor", "monthlyIncomeMinor"} :
       f[n] # Undefined
  /\ f["amountMinor"] > 0 /\ f["monthlyIncomeMinor"] > 0
  /\ OrElse(f["termMonths"], 12) \in 3..84
  /\ f["amountMinor"] > 2000 =>
       HasCollateral(f) /\ 2 * f["collateralValueMinor"] >= f["amountMinor"]

\* Slip: the default term is checked but not passed on.
ApplicationUndefaulted(f) ==
  [applicant |-> f["applicantName"], account |-> f["accountId"],
   amount |-> f["amountMinor"], income |-> f["monthlyIncomeMinor"],
   term |-> f["termMonths"], purpose |-> OrElse(f["purpose"], Personal)]

Application(f) ==
  [applicant |-> f["applicantName"], account |-> f["accountId"],
   amount |-> f["amountMinor"], income |-> f["monthlyIncomeMinor"],
   term |-> OrElse(f["termMonths"], 12), purpose |-> OrElse(f["purpose"], Personal)]

\* The calls that had returned a decision when this one began (history).
Answered == {s \in Submits : submit[s].step = "done"}

Submit(s, d) ==
  /\ submit[s] = Idle /\ ~IsNew(d)
  /\ submit' = [submit EXCEPT ![s] =
       IF d \in live /\ Builds(values[d])
         THEN [step |-> "account", draft |-> d, earlier |-> Answered,
               app |-> Application(values[d]), borderline |-> FALSE,
               status |-> "MANUAL_REVIEW"]
         ELSE [step |-> "failed", draft |-> d]]
  /\ UNCHANGED <<drafts, loans, published, faults>>

\* A call goes on, with some of its locals changed.
Goes(s, step, status, borderline) ==
  submit' = [submit EXCEPT ![s].step = step, ![s].status = status,
                           ![s].borderline = borderline]
Fails(s) == submit' = [submit EXCEPT ![s] = [step |-> "failed", draft |-> @.draft]]
At(s, step) == submit[s].step = step

FindAccount(s) ==
  /\ At(s, "account")
  /\ IF submit[s].app.account \in Existing
       THEN submit' = [submit EXCEPT ![s].step = "credit"] ELSE Fails(s)
  /\ UNCHANGED <<drafts, loans, published, faults>>

\* The desks' findings.
CreditRejects(app) == app.applicant \in Defaulted \/ Score[app.applicant] < 600
IsBorderline(app) == ~CreditRejects(app) /\ Score[app.applicant] < 680
Unaffordable(app) == 5 * Instalment(app.amount, app.term) > 2 * app.income
NeedsOfficer(app) == app.purpose \in Restricted \/ app.amount > 5000

\* LoanApprovalMediator.notify, one action per desk.
CreditReview(s) ==
  /\ At(s, "credit")
  /\ LET app == submit[s].app
     IN  IF CreditRejects(app) THEN Goes(s, "save", "REJECTED", FALSE)
         ELSE Goes(s, "affordability", submit[s].status, IsBorderline(app))
  /\ UNCHANGED <<drafts, loans, published, faults>>

AffordabilityReview(s) ==
  /\ At(s, "affordability")
  /\ IF Unaffordable(submit[s].app) THEN Goes(s, "save", "REJECTED", submit[s].borderline)
     ELSE Goes(s, "compliance", submit[s].status, submit[s].borderline)
  /\ UNCHANGED <<drafts, loans, published, faults>>

\* Slip: compliance decides alone.
SlipForgetsBorderline(s) ==
  /\ At(s, "compliance")
  /\ Goes(s, "save", IF NeedsOfficer(submit[s].app) THEN "MANUAL_REVIEW" ELSE "APPROVED",
          submit[s].borderline)
  /\ UNCHANGED <<drafts, loans, published, faults>>

ComplianceReview(s) ==
  /\ At(s, "compliance")
  /\ Goes(s, "save",
          IF NeedsOfficer(submit[s].app) \/ submit[s].borderline
            THEN "MANUAL_REVIEW" ELSE "APPROVED",
          submit[s].borderline)
  /\ UNCHANGED <<drafts, loans, published, faults>>

Inserted(s) ==
  loans' = loans \cup {[by |-> s, draft |-> submit[s].draft, app |-> submit[s].app,
                        status |-> submit[s].status]}

Save(s) ==
  /\ At(s, "save")
  /\ Inserted(s)
  /\ submit' = [submit EXCEPT ![s].step = "saved"]
  /\ UNCHANGED <<drafts, published, faults>>

\* Slip: a failed save is only logged.
SlipSavesQuietly(s) ==
  /\ At(s, "save") /\ Fault
  /\ submit' = [submit EXCEPT ![s].step = "saved"]
  /\ UNCHANGED <<drafts, loans, published>>

\* The look-up or the insert throws; the row may have been written all the same.
DatabaseFails(s) ==
  /\ submit[s].step \in {"account", "save"} /\ Fault
  /\ \/ UNCHANGED loans
     \/ At(s, "save") /\ Inserted(s)
  /\ Fails(s)
  /\ UNCHANGED <<drafts, published>>

\* Slip: the draft stays.
SlipKeepsDraft(s) ==
  /\ At(s, "saved")
  /\ published' = published \cup {s}
  /\ submit' = [submit EXCEPT ![s].step = "done"]
  /\ UNCHANGED <<drafts, loans, faults>>

\* After the save: drafts.remove and the event, without an await between them.
Finish(s) ==
  /\ At(s, "saved")
  /\ Drop({submit[s].draft})
  /\ published' = published \cup {s}
  /\ submit' = [submit EXCEPT ![s].step = "done"]
  /\ UNCHANGED <<lost, loans, faults>>

\* The process dies with its drafts; another one starts.
Restart ==
  /\ Fault
  /\ lost' = lost \cup live /\ Drop(live)
  /\ submit' = [s \in Submits |->
                  IF submit[s].step \in Active THEN [step |-> "dead", draft |-> submit[s].draft]
                  ELSE submit[s]]
  /\ UNCHANGED <<loans, published>>

Advance(s) ==
  \/ FindAccount(s) \/ CreditReview(s) \/ AffordabilityReview(s)
  \/ ComplianceReview(s) \/ Save(s) \/ Finish(s)

Next ==
  \/ \E d \in Drafts, b \in Bodies : CreateDraft(d, b) \/ UpdateDraft(d, b)
  \/ \E d \in Drafts : UndoDraft(d)
  \/ \E s \in Submits, d \in Drafts : Submit(s, d)
  \/ \E s \in Submits : Advance(s) \/ DatabaseFails(s)
  \/ Restart

Spec == Init /\ [][Next]_vars

-----------------------------------------------------------------------------
Statuses == {"APPROVED", "REJECTED", "MANUAL_REVIEW"}
\* What a field can hold.
Held(n) == {Undefined} \cup {b[n] : b \in {c \in Bodies : n \in DOMAIN c}}
IsForm(f) == DOMAIN f = Fields /\ \A n \in Fields : f[n] \in Held(n)
IsApplication(app) ==
  /\ app.applicant \in Held("applicantName") \ {Undefined}
  /\ app.account \in Held("accountId") \ {Undefined}
  /\ app.amount \in Nat \ {0} /\ app.income \in Nat \ {0}
  /\ app.term \in 3..84 /\ app.purpose # Undefined

TypeOK ==
  /\ live \subseteq Drafts /\ lost \subseteq Drafts
  /\ \A d \in Drafts : \A i \in DOMAIN Versions(d) : IsForm(Versions(d)[i])
  /\ \A s \in Submits : submit[s] # Idle =>
       /\ submit[s].step \in Active \cup Ended /\ submit[s].draft \in Drafts
       /\ submit[s].step \in Active => IsApplication(submit[s].app)
  /\ \A r \in loans : r.by \in Submits /\ r.status \in Statuses /\ IsApplication(r.app)
  /\ published \subseteq Submits

\* An edit adds one version after the shown one and an undo returns to exactly
\* the version before it, also while the draft is being submitted; nothing else
\* touches a draft's versions.
UndoStepsBack ==
  [][\A d \in live \cap live' :
       LET was == Versions(d)  is == Versions(d)'
       IN  is = was \/ is = Append(was, values'[d]) \/ was = Append(is, values[d])]_vars

\* A draft the applicant has started stays until a loan was decided from it: a
\* refused or failed submission leaves it as it is, to be corrected or sent
\* again.  Only a dying process takes its drafts along.
DraftsEndInLoans ==
  \A d \in Drafts : ~IsNew(d) /\ d \notin live \cup lost =>
    \E r \in loans : r.draft = d

\* Once a submission has answered with a decision, no later submission of the
\* draft gets another one.  (Two that overlap may both decide.)
DecidedForGood ==
  \A r \in loans, s \in Submits :
    s # r.by /\ submit[s].step \in {"save", "saved", "done"} /\ submit[s].draft = r.draft
      => r.by \notin submit[s].earlier

\* Every announced decision is in the database.
AnnouncedIsSaved == \A s \in published : \E r \in loans : r.by = s

\* The rules of the three desks, as one table.
Verdict(app) ==
  IF CreditRejects(app) \/ Unaffordable(app) THEN "REJECTED"
  ELSE IF IsBorderline(app) \/ NeedsOfficer(app) THEN "MANUAL_REVIEW"
  ELSE "APPROVED"

\* However the desks and other requests interleave, a loan has the status that the
\* rules give to its own application.
DecisionFollowsRules == \A r \in loans : r.status = Verdict(r.app)
=============================================================================
