---------------------------- MODULE LoansProofs ----------------------------
(***************************************************************************)
(* Loan drafts and decisions, for any number of drafts and submissions in  *)
(* any order: no draft gets lost, every decision follows the rules, is     *)
(* saved before it is announced, and is not taken a second time.           *)
(***************************************************************************)
EXTENDS Loans, SequenceTheorems, TLAPS

\* What the variables hold, in full.
FieldValues == UNION {Held(n) : n \in Fields}
Form == {f \in [Fields -> FieldValues] : \A n \in Fields : f[n] \in Held(n)}
Applications ==
  [applicant : Held("applicantName") \ {Undefined},
   account : Held("accountId") \ {Undefined},
   amount : Nat \ {0}, income : Nat \ {0}, term : 3..84,
   purpose : (Held("purpose") \cup {Personal}) \ {Undefined}]
Reviews ==
  [step : Active \cup {"done"}, draft : Drafts, earlier : SUBSET Submits,
   app : Applications, borderline : BOOLEAN, status : Statuses]
Broken == [step : {"failed", "dead"}, draft : Drafts]

DraftShapes ==
  /\ live \subseteq Drafts /\ lost \subseteq Drafts
  /\ values \in [Drafts -> Form] /\ history \in [Drafts -> Seq(Form)]
CallShapes == submit \in [Submits -> {Idle} \cup Reviews \cup Broken]
RowShapes ==
  /\ loans \subseteq [by : Submits, draft : Drafts, app : Applications, status : Statuses]
  /\ published \subseteq Submits
Shapes == DraftShapes /\ CallShapes /\ RowShapes

-----------------------------------------------------------------------------
(* Drafts *)

\* The body of a request gives every field a value it can hold.
LEMMA DtoForm == ASSUME NEW b \in Bodies PROVE Dto(b) \in Form
<1>1. \A n \in Fields : Dto(b)[n] \in Held(n)
  BY DEF Dto, Held
<1>2. Dto(b) \in [Fields -> FieldValues]
  <2>1. \A n \in Fields : Held(n) \subseteq FieldValues
    BY DEF FieldValues
  <2> QED
    BY <1>1, <2>1 DEF Dto
<1> QED
  BY <1>1, <1>2 DEF Form

\* A draft without any field.
LEMMA EmptyForm == Dto(<<>>) \in Form
<1>1. \A n \in Fields : Dto(<<>>)[n] \in Held(n)
  BY DEF Dto, Held, Fields
<1>2. Dto(<<>>) \in [Fields -> FieldValues]
  <2>1. \A n \in Fields : Held(n) \subseteq FieldValues
    BY DEF FieldValues
  <2> QED
    BY <1>1, <2>1 DEF Dto
<1> QED
  BY <1>1, <1>2 DEF Form

\* An edit replaces every field.
LEMMA SpreadForm ==
  ASSUME NEW f \in Form, NEW b \in Bodies
  PROVE  Spread(f, Dto(b)) = Dto(b)
BY DEF Spread, Dto

\* What LoanDraftCaretaker.remove leaves of the drafts.
LEMMA DropForms ==
  ASSUME DraftShapes, NEW ds, Drop(ds)
  PROVE  /\ live' \subseteq Drafts
         /\ values' \in [Drafts -> Form] /\ history' \in [Drafts -> Seq(Form)]
<1>1. \A d \in Drafts : values'[d] \in Form /\ history'[d] \in Seq(Form)
  BY EmptyForm DEF DraftShapes, Drop
<1> QED
  BY <1>1 DEF DraftShapes, Drop

\* The handlers that take a body touch one draft, and nothing else.
LEMMA DraftHandlers ==
  ASSUME DraftShapes, NEW d \in Drafts, NEW b \in Bodies,
         CreateDraft(d, b) \/ UpdateDraft(d, b)
  PROVE  /\ DraftShapes' /\ live \subseteq live' /\ live' \subseteq live \cup {d}
         /\ d \notin live => IsNew(d)
         /\ UNCHANGED <<lost, submit, loans, published, faults>>
<1>1. CASE CreateDraft(d, b)
  BY <1>1, DtoForm DEF DraftShapes, CreateDraft
<1>2. CASE UpdateDraft(d, b)
  <2>1. values' = [values EXCEPT ![d] = Dto(b)]
    BY <1>2, SpreadForm DEF UpdateDraft, DraftShapes
  <2>2. values' \in [Drafts -> Form]
    BY <2>1, DtoForm DEF DraftShapes
  <2>3. Append(history[d], values[d]) \in Seq(Form)
    BY DEF DraftShapes
  <2>4. history' \in [Drafts -> Seq(Form)]
    BY <1>2, <2>3 DEF DraftShapes, UpdateDraft
  <2> QED
    BY <1>2, <2>2, <2>4 DEF DraftShapes, UpdateDraft
<1> QED
  BY <1>1, <1>2

\* An undo takes the last memento off.
LEMMA UndoShapes == ASSUME DraftShapes, NEW d \in Drafts, UndoDraft(d) PROVE DraftShapes'
<1>1. history[d] \in Seq(Form) /\ history[d] # <<>>
  BY DEF DraftShapes, UndoDraft
<1>2. Len(history[d]) \in Nat \ {0} /\ Len(history[d]) \in DOMAIN history[d]
  BY <1>1
<1>3. history[d][Len(history[d])] \in Form
  BY <1>1, <1>2
<1>4. SubSeq(history[d], 1, Len(history[d]) - 1) \in Seq(Form)
  BY <1>1, <1>2
<1> QED
  BY <1>3, <1>4 DEF DraftShapes, UndoDraft

-----------------------------------------------------------------------------
(* Submissions *)

\* What the builder returns for a draft it accepts.
LEMMA ApplicationOf ==
  ASSUME NEW f \in Form, Builds(f) PROVE Application(f) \in Applications
<1>1. \A n \in Fields : f[n] \in Held(n)
  BY DEF Form
<1>2. f["applicantName"] \in Held("applicantName") \ {Undefined}
      /\ f["accountId"] \in Held("accountId") \ {Undefined}
  BY <1>1 DEF Fields, Builds
<1>3. \A n \in {"amountMinor", "monthlyIncomeMinor"} : f[n] \in Nat \ {0}
  BY <1>1, LoansAssumption DEF Fields, Builds, Held
<1>4. OrElse(f["termMonths"], 12) \in 3..84
  BY DEF Builds
<1>5. OrElse(f["purpose"], Personal) \in (Held("purpose") \cup {Personal}) \ {Undefined}
  BY <1>1, LoansAssumption DEF Fields, OrElse
<1> QED
  BY <1>2, <1>3, <1>4, <1>5 DEF Application, Applications

\* A call under way has all its locals.
LEMMA Reviewing ==
  ASSUME CallShapes, NEW s \in Submits, submit[s].step \in Active
  PROVE  submit[s] \in Reviews
BY DEF CallShapes, Idle, Broken, Active

\* The record of a call that goes on.
Onward(s, next, result, line) ==
  [step |-> next, draft |-> submit[s].draft, earlier |-> submit[s].earlier,
   app |-> submit[s].app, borderline |-> line, status |-> result]

\* Call s moves to that record and the others stay.
LEMMA MovesTo ==
  ASSUME CallShapes, NEW s \in Submits, submit[s] \in Reviews,
         NEW next \in Active \cup {"done"}, NEW result \in Statuses, NEW line \in BOOLEAN,
         submit' = [submit EXCEPT ![s] = Onward(s, next, result, line)]
  PROVE  /\ CallShapes' /\ submit'[s] \in Reviews
         /\ submit'[s] = Onward(s, next, result, line)
         /\ \A q \in Submits \ {s} : submit'[q] = submit[q]
<1> DEFINE out == Onward(s, next, result, line)
<1>1. out \in Reviews
  BY DEF Onward, Reviews
<1> HIDE DEF out
<1>2. submit' = [submit EXCEPT ![s] = out]
  BY DEF out
<1>3. CallShapes' /\ submit'[s] = out /\ \A q \in Submits \ {s} : submit'[q] = submit[q]
  BY <1>1, <1>2 DEF CallShapes
<1> QED
  BY <1>1, <1>3 DEF out

\* Goes does so.
LEMMA GoesTo ==
  ASSUME CallShapes, NEW s \in Submits, submit[s] \in Reviews,
         NEW next \in Active \cup {"done"}, NEW result \in Statuses, NEW line \in BOOLEAN,
         Goes(s, next, result, line)
  PROVE  submit' = [submit EXCEPT ![s] = Onward(s, next, result, line)]
<1> DEFINE f1 == [submit EXCEPT ![s].step = next]
           f2 == [f1 EXCEPT ![s].status = result]
           f3 == [f2 EXCEPT ![s].borderline = line]
           c == submit[s]
           r1 == Onward(s, next, c.status, c.borderline)
           r2 == Onward(s, next, result, c.borderline)
           r3 == Onward(s, next, result, line)
<1>1. s \in DOMAIN submit /\ c \in Reviews
  BY DEF CallShapes
<1>2. [c EXCEPT !.step = next] = r1
  BY <1>1 DEF Reviews, Onward
<1>3. [r1 EXCEPT !.status = result] = r2 /\ [r2 EXCEPT !.borderline = line] = r3
  BY DEF Onward
<1> HIDE DEF r1, r2, r3
<1>4. f1 = [submit EXCEPT ![s] = r1]
  BY <1>1, <1>2
<1>5. f2 = [submit EXCEPT ![s] = r2]
  BY <1>1, <1>3, <1>4
<1>6. f3 = [submit EXCEPT ![s] = r3]
  BY <1>1, <1>3, <1>5
<1>7. submit' = f3
  BY DEF Goes
<1> QED
  BY <1>6, <1>7 DEF r3

\* And so does a step that leaves the other locals alone.
LEMMA StepTo ==
  ASSUME CallShapes, NEW s \in Submits, submit[s] \in Reviews,
         NEW next \in Active \cup {"done"}, submit' = [submit EXCEPT ![s].step = next]
  PROVE  submit' = [submit EXCEPT
                      ![s] = Onward(s, next, submit[s].status, submit[s].borderline)]
<1>1. [submit[s] EXCEPT !.step = next]
        = Onward(s, next, submit[s].status, submit[s].borderline)
  BY DEF Reviews, Onward
<1>2. submit' = [submit EXCEPT ![s] = [submit[s] EXCEPT !.step = next]]
  OBVIOUS
<1> QED
  BY <1>1, <1>2

\* A call that fails keeps its draft only.
LEMMA FailsTo ==
  ASSUME CallShapes, NEW s \in Submits, submit[s] \in Reviews, Fails(s)
  PROVE  /\ CallShapes' /\ submit'[s] = [step |-> "failed", draft |-> submit[s].draft]
         /\ \A q \in Submits \ {s} : submit'[q] = submit[q]
<1> DEFINE out == [step |-> "failed", draft |-> submit[s].draft]
<1>1. out \in Broken
  BY DEF Reviews, Broken
<1>2. submit' = [submit EXCEPT ![s] = out]
  BY DEF Fails
<1> HIDE DEF out
<1>3. CallShapes' /\ submit'[s] = out /\ \A q \in Submits \ {s} : submit'[q] = submit[q]
  BY <1>1, <1>2 DEF CallShapes
<1> QED
  BY <1>3 DEF out

\* What the desks have found so far when a call has come to a step.
Decided(c) ==
  /\ c.step \in {"affordability", "compliance"} =>
       ~CreditRejects(c.app) /\ (c.borderline <=> IsBorderline(c.app))
  /\ c.step = "compliance" => ~Unaffordable(c.app)
  /\ c.step \in {"save", "saved"} => c.status = Verdict(c.app)

\* A call's step ends it, or takes it on with the same draft, application and
\* earlier decisions, and with what the desks have found.
Stepped(s) ==
  /\ CallShapes' /\ submit[s] \in Reviews /\ submit[s].step \in Active
  /\ \A q \in Submits \ {s} : submit'[q] = submit[q]
  /\ \/ submit'[s] = [step |-> "failed", draft |-> submit[s].draft]
     \/ /\ submit'[s] \in Reviews /\ submit'[s].draft = submit[s].draft
        /\ submit'[s].app = submit[s].app /\ submit'[s].earlier = submit[s].earlier
        /\ Decided(submit[s]) => Decided(submit'[s])

\* Where a step leads in each case.
LEMMA SteppedTo ==
  ASSUME CallShapes, NEW s \in Submits, submit[s] \in Reviews, submit[s].step \in Active,
         NEW next \in Active \cup {"done"}, NEW result \in Statuses, NEW line \in BOOLEAN,
         submit' = [submit EXCEPT ![s] = Onward(s, next, result, line)],
         Decided(submit[s]) => Decided(Onward(s, next, result, line))
  PROVE  Stepped(s) /\ submit'[s] = Onward(s, next, result, line)
<1> DEFINE out == Onward(s, next, result, line)
<1>1. /\ CallShapes' /\ out \in Reviews /\ submit'[s] = out
      /\ \A q \in Submits \ {s} : submit'[q] = submit[q]
  BY MovesTo
<1>2. /\ out.draft = submit[s].draft /\ out.app = submit[s].app
      /\ out.earlier = submit[s].earlier
  BY DEF Onward
<1> HIDE DEF out
<1>3. Stepped(s) /\ submit'[s] = out
  BY <1>1, <1>2 DEF Stepped, out
<1> QED
  BY <1>3 DEF out

LEMMA FailedTo ==
  ASSUME CallShapes, NEW s \in Submits, submit[s] \in Reviews, submit[s].step \in Active,
         Fails(s)
  PROVE  Stepped(s) /\ submit'[s].step = "failed"
<1>1. /\ CallShapes' /\ submit'[s] = [step |-> "failed", draft |-> submit[s].draft]
      /\ \A q \in Submits \ {s} : submit'[q] = submit[q]
  BY FailsTo
<1> QED
  BY <1>1 DEF Stepped

\* The look-up and the three desks.
LEMMA DeskSteps ==
  ASSUME CallShapes, NEW s \in Submits,
         \/ FindAccount(s) \/ CreditReview(s) \/ AffordabilityReview(s)
         \/ ComplianceReview(s)
  PROVE  Stepped(s) /\ submit'[s].step \notin {"saved", "done"}
<1> DEFINE c == submit[s]
<1>1. c \in Reviews /\ c.step \in Active
  BY Reviewing DEF FindAccount, CreditReview, AffordabilityReview, ComplianceReview,
     At, Active
<1>2. c.status \in Statuses /\ c.borderline \in BOOLEAN
  BY <1>1 DEF Reviews
<1>3. {"REJECTED", "MANUAL_REVIEW", "APPROVED"} \subseteq Statuses
  BY DEF Statuses
<1>4. {"credit", "affordability", "compliance", "save"} \subseteq Active
  BY DEF Active
<1>5. ASSUME NEW next \in {"credit", "affordability", "compliance", "save"},
             NEW result \in Statuses, NEW line \in BOOLEAN,
             submit' = [submit EXCEPT ![s] = Onward(s, next, result, line)],
             Decided(c) => Decided(Onward(s, next, result, line))
      PROVE  Stepped(s) /\ submit'[s].step \notin {"saved", "done"}
  <2>1. Stepped(s) /\ submit'[s] = Onward(s, next, result, line)
    BY <1>1, <1>4, <1>5, SteppedTo
  <2> QED
    BY <1>5, <2>1 DEF Onward
<1>6. CASE FindAccount(s)
  <2>1. CASE c.app.account \in Existing
    <3>1. submit' = [submit EXCEPT ![s].step = "credit"]
      BY <1>6, <2>1 DEF FindAccount
    <3>2. submit' = [submit EXCEPT ![s] = Onward(s, "credit", c.status, c.borderline)]
      BY <1>1, <1>4, <3>1, StepTo
    <3>3. Decided(Onward(s, "credit", c.status, c.borderline))
      BY DEF Decided, Onward
    <3> QED
      BY <1>2, <1>5, <3>2, <3>3
  <2>2. CASE c.app.account \notin Existing
    <3>1. Fails(s)
      BY <1>6, <2>2 DEF FindAccount
    <3> QED
      BY <1>1, <3>1, FailedTo
  <2> QED
    BY <2>1, <2>2
<1>7. CASE CreditReview(s)
  <2>1. CASE CreditRejects(c.app)
    <3> DEFINE line == FALSE
    <3>1. Goes(s, "save", "REJECTED", line) /\ line \in BOOLEAN
      BY <1>7, <2>1 DEF CreditReview
    <3>2. Decided(Onward(s, "save", "REJECTED", line))
      BY <2>1 DEF Decided, Onward, Verdict
    <3> HIDE DEF line
    <3>3. submit' = [submit EXCEPT ![s] = Onward(s, "save", "REJECTED", line)]
      BY <1>1, <1>3, <1>4, <3>1, GoesTo
    <3> QED
      BY <1>3, <1>5, <3>1, <3>2, <3>3
  <2>2. CASE ~CreditRejects(c.app)
    <3> DEFINE line == IsBorderline(c.app)
    <3>1. Goes(s, "affordability", c.status, line) /\ line \in BOOLEAN
      BY <1>7, <2>2 DEF CreditReview, IsBorderline
    <3>2. line <=> IsBorderline(c.app)
      OBVIOUS
    <3> HIDE DEF line
    <3>3. Decided(Onward(s, "affordability", c.status, line))
      BY <2>2, <3>2 DEF Decided, Onward
    <3>4. submit' = [submit EXCEPT ![s] = Onward(s, "affordability", c.status, line)]
      BY <1>1, <1>2, <1>4, <3>1, GoesTo
    <3> QED
      BY <1>2, <1>5, <3>1, <3>3, <3>4
  <2> QED
    BY <2>1, <2>2
<1>8. CASE AffordabilityReview(s)
  <2>1. At(s, "affordability")
    BY <1>8 DEF AffordabilityReview
  <2>2. CASE Unaffordable(c.app)
    <3>1. Goes(s, "save", "REJECTED", c.borderline)
      BY <1>8, <2>2 DEF AffordabilityReview
    <3>2. Decided(Onward(s, "save", "REJECTED", c.borderline))
      BY <2>2 DEF Decided, Onward, Verdict
    <3>3. submit' = [submit EXCEPT ![s] = Onward(s, "save", "REJECTED", c.borderline)]
      BY <1>1, <1>2, <1>3, <1>4, <3>1, GoesTo
    <3> QED
      BY <1>2, <1>3, <1>5, <3>2, <3>3
  <2>3. CASE ~Unaffordable(c.app)
    <3>1. Goes(s, "compliance", c.status, c.borderline)
      BY <1>8, <2>3 DEF AffordabilityReview
    <3>2. Decided(c) => Decided(Onward(s, "compliance", c.status, c.borderline))
      BY <2>1, <2>3 DEF Decided, Onward, At
    <3>3. submit' = [submit EXCEPT ![s] = Onward(s, "compliance", c.status, c.borderline)]
      BY <1>1, <1>2, <1>4, <3>1, GoesTo
    <3> QED
      BY <1>2, <1>5, <3>2, <3>3
  <2> QED
    BY <2>2, <2>3
<1>9. CASE ComplianceReview(s)
  <2> DEFINE result == IF NeedsOfficer(c.app) \/ c.borderline
                         THEN "MANUAL_REVIEW" ELSE "APPROVED"
  <2>1. At(s, "compliance") /\ Goes(s, "save", result, c.borderline) /\ result \in Statuses
    BY <1>9, <1>3 DEF ComplianceReview
  <2>2. Decided(c) => result = Verdict(c.app)
    BY <2>1 DEF Decided, Verdict, At
  <2> HIDE DEF result
  <2>3. Decided(c) => Decided(Onward(s, "save", result, c.borderline))
    BY <2>2 DEF Decided, Onward
  <2>4. submit' = [submit EXCEPT ![s] = Onward(s, "save", result, c.borderline)]
    BY <1>1, <1>2, <1>4, <2>1, GoesTo
  <2> QED
    BY <1>2, <1>5, <2>1, <2>3, <2>4
<1> QED
  BY <1>6, <1>7, <1>8, <1>9

\* The insert, which may or may not be reported as failed.
LEMMA RowInserted ==
  ASSUME Shapes, NEW s \in Submits, submit[s] \in Reviews, Inserted(s)
  PROVE  /\ loans' \subseteq [by : Submits, draft : Drafts, app : Applications,
                             status : Statuses]
         /\ \E r \in loans' : r.by = s /\ r.draft = submit[s].draft
         /\ loans \subseteq loans'
         /\ \A r \in loans' \ loans : /\ r.by = s /\ r.draft = submit[s].draft
                                     /\ r.app = submit[s].app
                                     /\ r.status = submit[s].status
<1> DEFINE row == [by |-> s, draft |-> submit[s].draft, app |-> submit[s].app,
                   status |-> submit[s].status]
<1>1. row \in [by : Submits, draft : Drafts, app : Applications, status : Statuses]
  BY DEF Reviews
<1>2. loans' = loans \cup {row}
  BY DEF Inserted
<1>3. /\ row.by = s /\ row.draft = submit[s].draft /\ row.app = submit[s].app
      /\ row.status = submit[s].status
  OBVIOUS
<1> HIDE DEF row
<1> QED
  BY <1>1, <1>2, <1>3 DEF Shapes, RowShapes

LEMMA SaveStep ==
  ASSUME Shapes, NEW s \in Submits, Save(s)
  PROVE  Stepped(s) /\ submit[s].step = "save" /\ submit'[s].step = "saved" /\ Inserted(s)
<1> DEFINE c == submit[s]
<1>1. c \in Reviews /\ c.step \in Active /\ c.step = "save"
  BY Reviewing DEF Save, At, Active, Shapes
<1>2. c.status \in Statuses /\ c.borderline \in BOOLEAN
  BY <1>1 DEF Reviews
<1>3. submit' = [submit EXCEPT ![s].step = "saved"] /\ "saved" \in Active
  BY DEF Save, Active
<1>4. submit' = [submit EXCEPT ![s] = Onward(s, "saved", c.status, c.borderline)]
  BY <1>1, <1>3, StepTo DEF Shapes
<1>5. Decided(c) => Decided(Onward(s, "saved", c.status, c.borderline))
  BY <1>1 DEF Decided, Onward
<1>6. Stepped(s) /\ submit'[s] = Onward(s, "saved", c.status, c.borderline)
  BY <1>1, <1>2, <1>3, <1>4, <1>5, SteppedTo DEF Shapes
<1> QED
  BY <1>1, <1>6 DEF Onward, Save

LEMMA FinishStep ==
  ASSUME Shapes, NEW s \in Submits, Finish(s)
  PROVE  Stepped(s) /\ submit[s].step = "saved" /\ submit'[s].step = "done"
<1> DEFINE c == submit[s]
<1>1. c \in Reviews /\ c.step \in Active /\ c.step = "saved"
  BY Reviewing DEF Finish, At, Active, Shapes
<1>2. c.status \in Statuses /\ c.borderline \in BOOLEAN
  BY <1>1 DEF Reviews
<1>3. submit' = [submit EXCEPT ![s].step = "done"]
  BY DEF Finish
<1>4. submit' = [submit EXCEPT ![s] = Onward(s, "done", c.status, c.borderline)]
  BY <1>1, <1>3, StepTo DEF Shapes
<1>5. Decided(Onward(s, "done", c.status, c.borderline))
  BY DEF Decided, Onward
<1>6. Stepped(s) /\ submit'[s] = Onward(s, "done", c.status, c.borderline)
  BY <1>1, <1>2, <1>4, <1>5, SteppedTo DEF Shapes
<1> QED
  BY <1>1, <1>6 DEF Onward

LEMMA FaultStep ==
  ASSUME Shapes, NEW s \in Submits, DatabaseFails(s)
  PROVE  /\ Stepped(s) /\ submit'[s].step = "failed"
         /\ loans' = loans \/ (submit[s].step = "save" /\ Inserted(s))
<1>1. submit[s] \in Reviews /\ submit[s].step \in Active
  BY Reviewing DEF DatabaseFails, Active, Shapes
<1>2. Fails(s) /\ (UNCHANGED loans \/ (At(s, "save") /\ Inserted(s)))
  BY DEF DatabaseFails
<1>3. Stepped(s) /\ submit'[s].step = "failed"
  BY <1>1, <1>2, FailedTo DEF Shapes
<1> QED
  BY <1>2, <1>3 DEF At

\* A call that begins.
LEMMA SubmitStep ==
  ASSUME Shapes, NEW s \in Submits, NEW d \in Drafts, Submit(s, d)
  PROVE  /\ CallShapes' /\ submit[s] = Idle /\ ~IsNew(d) /\ submit'[s].draft = d
         /\ \A q \in Submits \ {s} : submit'[q] = submit[q]
         /\ \/ submit'[s] = [step |-> "failed", draft |-> d]
            \/ /\ submit'[s] \in Reviews /\ submit'[s].step = "account"
               /\ submit'[s].earlier = Answered /\ d \in live
<1> DEFINE long == [step |-> "account", draft |-> d, earlier |-> Answered,
                    app |-> Application(values[d]), borderline |-> FALSE,
                    status |-> "MANUAL_REVIEW"]
           short == [step |-> "failed", draft |-> d]
<1>1. short \in Broken /\ short.draft = d
  BY DEF Broken
<1>2. CASE d \in live /\ Builds(values[d])
  <2>1. Application(values[d]) \in Applications
    BY <1>2, ApplicationOf DEF Shapes, DraftShapes
  <2>2. Answered \in SUBSET Submits
    BY DEF Answered
  <2>3. long \in Reviews
    BY <2>1, <2>2 DEF Reviews, Active, Statuses
  <2>4. submit' = [submit EXCEPT ![s] = long]
    BY <1>2 DEF Submit
  <2>5. long.draft = d /\ long.step = "account" /\ long.earlier = Answered
    OBVIOUS
  <2> HIDE DEF long, short
  <2>6. CallShapes' /\ submit'[s] = long /\ \A q \in Submits \ {s} : submit'[q] = submit[q]
    BY <2>3, <2>4 DEF Shapes, CallShapes
  <2> QED
    BY <1>2, <2>3, <2>5, <2>6 DEF Submit
<1>3. CASE ~(d \in live /\ Builds(values[d]))
  <2>1. submit' = [submit EXCEPT ![s] = short]
    BY <1>3 DEF Submit
  <2> HIDE DEF short
  <2>2. CallShapes' /\ submit'[s] = short /\ \A q \in Submits \ {s} : submit'[q] = submit[q]
    BY <1>1, <2>1 DEF Shapes, CallShapes
  <2> QED
    BY <1>1, <2>2 DEF Submit, short
<1> QED
  BY <1>2, <1>3

\* The calls that a dying process leaves.
LEMMA RestartStep ==
  ASSUME Shapes, Restart
  PROVE  /\ CallShapes'
         /\ \A s \in Submits :
              /\ submit[s].step \in Active =>
                   /\ submit'[s].step = "dead" /\ submit'[s].draft = submit[s].draft
                   /\ submit[s] # Idle /\ submit'[s] # Idle
              /\ submit[s].step \notin Active => submit'[s] = submit[s]
<1>1. submit' = [s \in Submits |->
                   IF submit[s].step \in Active
                     THEN [step |-> "dead", draft |-> submit[s].draft] ELSE submit[s]]
  BY DEF Restart
<1>2. ASSUME NEW s \in Submits, submit[s].step \in Active
      PROVE  [step |-> "dead", draft |-> submit[s].draft] \in Broken
  <2>1. submit[s] \in Reviews
    BY <1>2, Reviewing DEF Shapes
  <2> QED
    BY <2>1 DEF Reviews, Broken
<1>3. \A s \in Submits : submit'[s] \in {Idle} \cup Reviews \cup Broken
  BY <1>1, <1>2 DEF Shapes, CallShapes
<1>4. ASSUME NEW s \in Submits, submit[s].step \in Active
      PROVE  /\ submit'[s].step = "dead" /\ submit'[s].draft = submit[s].draft
             /\ submit[s] # Idle /\ submit'[s] # Idle
  <2>1. submit'[s] = [step |-> "dead", draft |-> submit[s].draft]
    BY <1>1, <1>4
  <2>2. submit[s].step # "idle"
    BY <1>4 DEF Active
  <2> QED
    BY <2>1, <2>2 DEF Idle
<1>5. \A s \in Submits : submit[s].step \notin Active => submit'[s] = submit[s]
  BY <1>1
<1> QED
  BY <1>1, <1>3, <1>4, <1>5 DEF CallShapes

-----------------------------------------------------------------------------
(* What every step keeps *)

\* A call's decision is saved before the call has ended, its draft is gone after that,
\* the decisions that came before the call were about other drafts, and its findings
\* are those of the rules.
CallInv(s) ==
  /\ submit[s].step \in {"saved", "done"} =>
       \E r \in loans : r.by = s /\ r.draft = submit[s].draft
  /\ submit[s].step = "done" => submit[s].draft \notin live
  /\ submit[s].step \in Active \cup {"done"} => \A q \in submit[s].earlier :
       submit[q].step = "done" /\ submit[q].draft # submit[s].draft
  /\ submit[s].step \in Active => Decided(submit[s])

\* A loan is its call's, of the draft the call was given, with the status of the rules.
RowInv(r) ==
  /\ submit[r.by] # Idle /\ submit[r.by].draft = r.draft
  /\ r.status = Verdict(r.app)

Announced == \A s \in published : submit[s].step = "done"

LoansInv ==
  /\ Shapes /\ DraftsEndInLoans /\ Announced
  /\ \A s \in Submits : CallInv(s)
  /\ \A r \in loans : RowInv(r)

\* Steps of others: rows stay, and so do ended calls and the absence of their drafts.
LEMMA CallFrame ==
  ASSUME CallShapes, NEW s \in Submits, CallInv(s), submit'[s] = submit[s],
         loans \subseteq loans', submit[s].step = "done" => submit[s].draft \notin live',
         \A q \in Submits : submit[q].step = "done" => submit'[q] = submit[q]
  PROVE  CallInv(s)'
<1>1. ASSUME submit[s].step \in Active \cup {"done"}, NEW q \in submit[s].earlier
      PROVE  submit'[q].step = "done" /\ submit'[q].draft # submit[s].draft
  <2>1. submit[s] \in Reviews
    BY <1>1 DEF CallShapes, Idle, Broken, Active
  <2>2. q \in Submits
    BY <1>1, <2>1 DEF Reviews
  <2> QED
    BY <1>1, <2>2 DEF CallInv
<1>2. \A q \in submit[s].earlier : submit[s].step \in Active \cup {"done"} =>
        submit'[q].step = "done" /\ submit'[q].draft # submit[s].draft
  BY <1>1
<1> QED
  BY <1>2 DEF CallInv

LEMMA RowFrame ==
  ASSUME RowShapes, NEW r \in loans, RowInv(r), submit'[r.by] # Idle,
         submit'[r.by].draft = submit[r.by].draft
  PROVE  RowInv(r)'
BY DEF RowInv

\* A step of one call, in full.  Of the steps only the last one changes the drafts.
LEMMA SteppedInv ==
  ASSUME LoansInv, NEW s \in Submits, Stepped(s), UNCHANGED lost,
         DraftShapes', RowShapes', live' = live \ {submit[s].draft} \/ live' = live,
         loans' = loans \/ (submit[s].step = "save" /\ Inserted(s)),
         submit'[s].step = "saved" => submit[s].step = "save" /\ Inserted(s),
         IF submit'[s].step = "done"
           THEN submit[s].step = "saved" /\ live' = live \ {submit[s].draft}
           ELSE live' = live,
         published' = published
           \/ (submit'[s].step = "done" /\ published' = published \cup {s})
  PROVE  LoansInv'
<1> DEFINE c == submit[s]
<1>1. c \in Reviews /\ c.step \in Active /\ CallInv(s)
  BY DEF Stepped, LoansInv
<1>2. c.draft \in Drafts /\ c # Idle /\ c.step # "done" /\ submit'[s].draft = c.draft
  BY <1>1 DEF Stepped, Reviews, Idle, Active
<1>3. loans \subseteq loans'
  BY <1>1, RowInserted DEF LoansInv
<1>4. submit'[s] # Idle
  <2>1. CASE submit'[s] = [step |-> "failed", draft |-> c.draft]
    BY <2>1 DEF Idle
  <2>2. CASE submit'[s] \in Reviews
    BY <2>2 DEF Reviews, Idle, Active
  <2> QED
    BY <2>1, <2>2 DEF Stepped
<1>5. \A q \in Submits \ {s} : submit'[q] = submit[q]
  BY DEF Stepped
<1>6. ASSUME NEW q \in Submits PROVE CallInv(q)'
  <2>1. CASE q # s
    <3>1. submit[q].step = "done" => submit[q].draft \notin live'
      BY DEF LoansInv, CallInv
    <3>2. \A x \in Submits : submit[x].step = "done" => submit'[x] = submit[x]
      BY <1>2, <1>5
    <3> QED
      BY <1>3, <1>5, <2>1, <3>1, <3>2, CallFrame DEF LoansInv, Shapes
  <2>2. CASE q = s
    <3>1. CASE submit'[s] = [step |-> "failed", draft |-> c.draft]
      BY <2>2, <3>1 DEF CallInv, Active
    <3>2. CASE submit'[s] \in Reviews /\ submit'[s].earlier = c.earlier
               /\ (Decided(c) => Decided(submit'[s]))
      <4>1. submit'[s].step \in {"saved", "done"} =>
              \E r \in loans' : r.by = s /\ r.draft = submit'[s].draft
        BY <1>1, <1>2, <1>3, RowInserted DEF CallInv, LoansInv
      <4>2. submit'[s].step = "done" => submit'[s].draft \notin live'
        BY <1>2
      <4>3. \A x \in submit'[s].earlier :
              submit'[x].step = "done" /\ submit'[x].draft # submit'[s].draft
        BY <1>1, <1>2, <1>5, <3>2 DEF CallInv, Reviews
      <4> QED
        BY <1>1, <2>2, <3>2, <4>1, <4>2, <4>3 DEF CallInv
    <3> QED
      BY <3>1, <3>2 DEF Stepped
  <2> QED
    BY <2>1, <2>2
<1>7. ASSUME NEW r \in loans' PROVE RowInv(r)'
  <2>1. CASE r \in loans
    <3>1. RowInv(r) /\ r.by \in Submits
      BY <2>1 DEF LoansInv, Shapes, RowShapes
    <3>2. submit'[r.by] # Idle /\ submit'[r.by].draft = submit[r.by].draft
      BY <1>2, <1>4, <1>5, <3>1 DEF RowInv
    <3> QED
      BY <2>1, <3>1, <3>2, RowFrame DEF LoansInv, Shapes
  <2>2. CASE r \notin loans
    <3>1. /\ c.step = "save" /\ r.by = s /\ r.draft = c.draft /\ r.app = c.app
          /\ r.status = c.status
      BY <1>1, <2>2, RowInserted DEF LoansInv
    <3>2. r.status = Verdict(r.app)
      BY <1>1, <3>1 DEF CallInv, Decided
    <3> QED
      BY <1>2, <1>4, <3>1, <3>2 DEF RowInv
  <2> QED
    BY <2>1, <2>2
<1>8. DraftsEndInLoans'
  <2> SUFFICES ASSUME NEW d \in Drafts, ~IsNew(d)', d \notin live' \cup lost'
               PROVE  \E r \in loans' : r.draft = d
    BY DEF DraftsEndInLoans
  <2>1. ~IsNew(d)
    BY <1>2, <1>4, <1>5 DEF IsNew
  <2>2. CASE d \in live
    BY <1>1, <1>3, <2>2 DEF CallInv
  <2>3. CASE d \notin live
    BY <1>3, <2>1, <2>3 DEF LoansInv, DraftsEndInLoans
  <2> QED
    BY <2>2, <2>3
<1>9. Announced'
  BY <1>2, <1>5 DEF LoansInv, Announced, Shapes, RowShapes
<1> QED
  BY <1>6, <1>7, <1>8, <1>9 DEF LoansInv, Shapes, Stepped

\* Every step keeps the invariant.
LEMMA LoansNext == ASSUME LoansInv, [Next]_vars PROVE LoansInv'
<1>1. ASSUME NEW d \in Drafts, NEW b \in Bodies,
             CreateDraft(d, b) \/ UpdateDraft(d, b)
      PROVE  LoansInv'
  <2>1. /\ DraftShapes' /\ live \subseteq live' /\ live' \subseteq live \cup {d}
        /\ d \notin live => IsNew(d)
        /\ UNCHANGED <<lost, submit, loans, published, faults>>
    BY <1>1, DraftHandlers DEF LoansInv, Shapes
  <2>2. ASSUME NEW s \in Submits PROVE CallInv(s)'
    <3>1. submit[s].step = "done" => submit[s].draft \notin live'
      <4>1. submit[s].step = "done" => submit[s].draft \notin live /\ submit[s] # Idle
        BY DEF LoansInv, CallInv, Idle
      <4> QED
        BY <2>1, <4>1 DEF IsNew
    <3> QED
      BY <2>1, <3>1, CallFrame DEF LoansInv, Shapes
  <2>3. \A r \in loans' : RowInv(r)'
    BY <2>1 DEF LoansInv, RowInv
  <2>4. DraftsEndInLoans'
    BY <2>1 DEF LoansInv, DraftsEndInLoans, IsNew
  <2> QED
    BY <2>1, <2>2, <2>3, <2>4 DEF LoansInv, Shapes, CallShapes, RowShapes, Announced
<1>2. ASSUME NEW d \in Drafts, UndoDraft(d) PROVE LoansInv'
  <2>1. /\ DraftShapes' /\ live' = live
        /\ UNCHANGED <<lost, submit, loans, published, faults>>
    BY <1>2, UndoShapes DEF LoansInv, Shapes, UndoDraft
  <2>2. \A s \in Submits : CallInv(s)'
    BY <2>1 DEF LoansInv, CallInv
  <2>3. \A r \in loans' : RowInv(r)'
    BY <2>1 DEF LoansInv, RowInv
  <2>4. DraftsEndInLoans'
    BY <2>1 DEF LoansInv, DraftsEndInLoans, IsNew
  <2> QED
    BY <2>1, <2>2, <2>3, <2>4 DEF LoansInv, Shapes, CallShapes, RowShapes, Announced
<1>3. ASSUME NEW s \in Submits, NEW d \in Drafts, Submit(s, d) PROVE LoansInv'
  <2>1. /\ CallShapes' /\ submit[s] = Idle /\ ~IsNew(d) /\ submit'[s].draft = d
        /\ \A q \in Submits \ {s} : submit'[q] = submit[q]
        /\ \/ submit'[s] = [step |-> "failed", draft |-> d]
           \/ /\ submit'[s] \in Reviews /\ submit'[s].step = "account"
              /\ submit'[s].earlier = Answered /\ d \in live
    BY <1>3, SubmitStep DEF LoansInv
  <2>2. UNCHANGED <<live, values, history, lost, loans, published, faults>>
    BY <1>3 DEF Submit, drafts
  <2>3. submit[s].step \notin Active \cup {"done"}
    BY <2>1 DEF Idle, Active
  <2>4. ASSUME NEW q \in Submits PROVE CallInv(q)'
    <3>1. CASE q # s
      <4>1. \A x \in Submits : submit[x].step = "done" => submit'[x] = submit[x]
        BY <2>1, <2>3
      <4> QED
        BY <2>1, <2>2, <3>1, <4>1, CallFrame DEF LoansInv, CallInv, Shapes
    <3>2. CASE q = s
      <4>1. CASE submit'[s] = [step |-> "failed", draft |-> d]
        BY <3>2, <4>1 DEF CallInv, Active
      <4>2. CASE submit'[s].step = "account" /\ submit'[s].earlier = Answered /\ d \in live
        <5>1. \A x \in Answered : submit'[x].step = "done" /\ submit'[x].draft # d
          BY <2>1, <2>3, <4>2 DEF Answered, LoansInv, CallInv
        <5>2. Decided(submit'[s])
          BY <4>2 DEF Decided
        <5> QED
          BY <2>1, <3>2, <4>2, <5>1, <5>2 DEF CallInv
      <4> QED
        BY <2>1, <4>1, <4>2
    <3> QED
      BY <3>1, <3>2
  <2>5. submit'[s] # Idle
    BY <2>1 DEF Idle, Reviews
  <2>6. ASSUME NEW r \in loans' PROVE RowInv(r)'
    <3>1. r.by \in Submits /\ RowInv(r) /\ r \in loans
      BY <2>2, <2>6 DEF LoansInv, Shapes, RowShapes
    <3> QED
      BY <2>1, <3>1 DEF RowInv
  <2>7. DraftsEndInLoans'
    BY <2>1, <2>2 DEF LoansInv, DraftsEndInLoans, IsNew
  <2>8. Announced'
    BY <2>1, <2>2, <2>3 DEF LoansInv, Announced, Shapes, RowShapes
  <2> QED
    BY <2>1, <2>2, <2>4, <2>6, <2>7, <2>8 DEF LoansInv, Shapes, DraftShapes, RowShapes
<1>4. ASSUME NEW s \in Submits,
             \/ FindAccount(s) \/ CreditReview(s) \/ AffordabilityReview(s)
             \/ ComplianceReview(s)
      PROVE  LoansInv'
  <2>1. Stepped(s) /\ submit'[s].step \notin {"saved", "done"}
    BY <1>4, DeskSteps DEF LoansInv, Shapes
  <2>2. UNCHANGED <<live, values, history, lost, loans, published>>
    BY <1>4 DEF FindAccount, CreditReview, AffordabilityReview, ComplianceReview, drafts
  <2>3. DraftShapes' /\ RowShapes'
    BY <2>2 DEF LoansInv, Shapes, DraftShapes, RowShapes
  <2> QED
    BY <2>1, <2>2, <2>3, SteppedInv
<1>5. ASSUME NEW s \in Submits, Save(s) PROVE LoansInv'
  <2>1. /\ Stepped(s) /\ submit[s].step = "save" /\ submit'[s].step = "saved"
        /\ Inserted(s)
    BY <1>5, SaveStep DEF LoansInv
  <2>2. UNCHANGED <<live, values, history, lost, published>>
    BY <1>5 DEF Save, drafts
  <2>3. DraftShapes' /\ RowShapes'
    BY <2>1, <2>2, RowInserted DEF LoansInv, Shapes, DraftShapes, RowShapes, Stepped
  <2> QED
    BY <2>1, <2>2, <2>3, SteppedInv
<1>6. ASSUME NEW s \in Submits, DatabaseFails(s) PROVE LoansInv'
  <2>1. /\ Stepped(s) /\ submit'[s].step = "failed"
        /\ loans' = loans \/ (submit[s].step = "save" /\ Inserted(s))
    BY <1>6, FaultStep DEF LoansInv
  <2>2. UNCHANGED <<live, values, history, lost, published>>
    BY <1>6 DEF DatabaseFails, drafts
  <2>3. DraftShapes' /\ RowShapes'
    BY <2>1, <2>2, RowInserted DEF LoansInv, Shapes, DraftShapes, RowShapes, Stepped
  <2> QED
    BY <2>1, <2>2, <2>3, SteppedInv
<1>7. ASSUME NEW s \in Submits, Finish(s) PROVE LoansInv'
  <2>1. Stepped(s) /\ submit[s].step = "saved" /\ submit'[s].step = "done"
    BY <1>7, FinishStep DEF LoansInv
  <2>2. /\ Drop({submit[s].draft}) /\ UNCHANGED <<lost, loans>>
        /\ published' = published \cup {s}
    BY <1>7 DEF Finish
  <2>3. DraftShapes' /\ RowShapes'
    BY <2>2, DropForms DEF LoansInv, Shapes, DraftShapes, RowShapes
  <2>4. live' = live \ {submit[s].draft}
    BY <2>2 DEF Drop
  <2> QED
    BY <2>1, <2>2, <2>3, <2>4, SteppedInv
<1>8. ASSUME Restart PROVE LoansInv'
  <2>1. /\ CallShapes'
        /\ \A s \in Submits :
             /\ submit[s].step \in Active =>
                  /\ submit'[s].step = "dead" /\ submit'[s].draft = submit[s].draft
                  /\ submit[s] # Idle /\ submit'[s] # Idle
             /\ submit[s].step \notin Active => submit'[s] = submit[s]
    BY <1>8, RestartStep DEF LoansInv
  <2>2. lost' = lost \cup live /\ Drop(live) /\ UNCHANGED <<loans, published>>
    BY <1>8 DEF Restart
  <2>3. DraftShapes' /\ RowShapes' /\ live' = {}
    BY <2>2, DropForms DEF LoansInv, Shapes, DraftShapes, RowShapes, Drop
  <2>4. ASSUME NEW s \in Submits PROVE CallInv(s)'
    <3>1. CASE submit[s].step \in Active
      <4>1. submit'[s].step = "dead"
        BY <2>1, <3>1
      <4> QED
        BY <4>1 DEF CallInv, Active
    <3>2. CASE submit[s].step \notin Active
      <4>1. \A x \in Submits : submit[x].step = "done" => submit'[x] = submit[x]
        BY <2>1 DEF Active
      <4> QED
        BY <2>1, <2>2, <2>3, <3>2, <4>1, CallFrame DEF LoansInv, Shapes
    <3> QED
      BY <3>1, <3>2
  <2>5. \A s \in Submits : submit[s] # Idle =>
          submit'[s] # Idle /\ submit'[s].draft = submit[s].draft
    BY <2>1
  <2>6. ASSUME NEW r \in loans' PROVE RowInv(r)'
    <3>1. r.by \in Submits /\ RowInv(r) /\ r \in loans
      BY <2>2, <2>6 DEF LoansInv, Shapes, RowShapes
    <3> QED
      BY <2>5, <3>1 DEF RowInv
  <2>7. \A s \in Submits : submit'[s] # Idle =>
          submit[s] # Idle /\ submit'[s].draft = submit[s].draft
    BY <2>1
  <2>8. DraftsEndInLoans'
    BY <2>2, <2>3, <2>7 DEF LoansInv, DraftsEndInLoans, IsNew
  <2>9. Announced'
    BY <2>1, <2>2 DEF LoansInv, Announced, Shapes, RowShapes, Active
  <2> QED
    BY <2>1, <2>3, <2>4, <2>6, <2>8, <2>9 DEF LoansInv, Shapes
<1>9. CASE UNCHANGED vars
  BY <1>9 DEF vars, drafts, LoansInv, Shapes, DraftShapes, CallShapes, RowShapes,
     DraftsEndInLoans, IsNew, Announced, CallInv, RowInv
<1> QED
  BY <1>1, <1>2, <1>3, <1>4, <1>5, <1>6, <1>7, <1>8, <1>9 DEF Next, Advance

LEMMA LoansInit == ASSUME Init PROVE LoansInv
<1>1. DraftShapes
  BY EmptyForm DEF Init, DraftShapes
<1>2. CallShapes /\ RowShapes
  BY DEF Init, CallShapes, RowShapes
<1>3. \A s \in Submits : submit[s] = Idle
  BY DEF Init
<1>4. \A s \in Submits : CallInv(s)
  BY <1>3 DEF CallInv, Idle, Active
<1>5. DraftsEndInLoans
  BY <1>3 DEF Init, DraftsEndInLoans, IsNew
<1> QED
  BY <1>1, <1>2, <1>4, <1>5 DEF Init, LoansInv, Shapes, Announced

LEMMA LoansAlways == Spec => []LoansInv
BY LoansInit, LoansNext, PTL DEF Spec

\* The shapes imply the type invariant of the runs.
LEMMA ShapesTyped == ASSUME Shapes PROVE TypeOK
<1>1. \A f \in Form : IsForm(f)
  BY DEF Form, IsForm
<1>2. \A app \in Applications : IsApplication(app)
  BY DEF Applications, IsApplication
<1>3. ASSUME NEW d \in Drafts, NEW i \in DOMAIN Versions(d)
      PROVE  IsForm(Versions(d)[i])
  <2>1. history[d] \in Seq(Form) /\ values[d] \in Form
    BY DEF Shapes, DraftShapes
  <2>2. Versions(d) \in Seq(Form)
    BY <2>1 DEF Versions
  <2>3. Versions(d)[i] \in Form
    BY <1>3, <2>2
  <2> QED
    BY <1>1, <2>3
<1>4. ASSUME NEW s \in Submits, submit[s] # Idle
      PROVE  /\ submit[s].step \in Active \cup Ended /\ submit[s].draft \in Drafts
             /\ submit[s].step \in Active => IsApplication(submit[s].app)
  <2>1. submit[s] \in Reviews \cup Broken
    BY <1>4 DEF Shapes, CallShapes
  <2>2. submit[s].step \in Active \cup Ended /\ submit[s].draft \in Drafts
    BY <2>1 DEF Reviews, Broken, Ended
  <2>3. submit[s].step \in Active => submit[s].app \in Applications
    BY Reviewing DEF Shapes, Reviews
  <2> QED
    BY <1>2, <2>2, <2>3
<1>5. \A r \in loans : r.by \in Submits /\ r.status \in Statuses /\ IsApplication(r.app)
  BY <1>2 DEF Shapes, RowShapes
<1> QED
  BY <1>3, <1>4, <1>5 DEF Shapes, DraftShapes, RowShapes, TypeOK

-----------------------------------------------------------------------------
(* Versions of a draft *)

\* What an edit and an undo do to the versions of the draft, and the others to none.
LEMMA EditVersions ==
  ASSUME DraftShapes, NEW d \in Drafts, NEW e \in Drafts, NEW b \in Bodies, UpdateDraft(e, b)
  PROVE  Versions(d)' = Versions(d) \/ Versions(d)' = Append(Versions(d), values'[d])
<1>1. CASE e = d
  BY <1>1 DEF DraftShapes, UpdateDraft, Versions
<1>2. CASE e # d
  BY <1>2 DEF DraftShapes, UpdateDraft, Versions
<1> QED
  BY <1>1, <1>2

LEMMA UndoVersions ==
  ASSUME DraftShapes, NEW d \in Drafts, NEW e \in Drafts, UndoDraft(e)
  PROVE  Versions(d)' = Versions(d) \/ Versions(d) = Append(Versions(d)', values[d])
<1>1. CASE e = d
  <2> DEFINE h == history[d]  n == Len(h)
  <2>1. h \in Seq(Form) /\ h # <<>> /\ n \in Nat \ {0}
    BY <1>1 DEF DraftShapes, UndoDraft
  <2>2. values'[d] = h[n] /\ history'[d] = SubSeq(h, 1, n - 1)
    BY <1>1 DEF DraftShapes, UndoDraft
  <2>3. Append(SubSeq(h, 1, n - 1), h[n]) = h
    <3> HIDE DEF h
    <3>1. h[n] \in Form
      BY <2>1
    <3>2. SubSeq(h, 1, n - 1) \in Seq(Form) /\ Len(SubSeq(h, 1, n - 1)) = n - 1
      BY <2>1
    <3>3. Len(Append(SubSeq(h, 1, n - 1), h[n])) = n
      BY <2>1, <3>1, <3>2
    <3>4. ASSUME NEW i \in 1..n
          PROVE  Append(SubSeq(h, 1, n - 1), h[n])[i] = h[i]
      <4>1. CASE i = n
        BY <2>1, <3>1, <3>2, <4>1
      <4>2. CASE i # n
        BY <2>1, <3>1, <3>2, <4>2
      <4> QED
        BY <4>1, <4>2
    <3>5. Append(SubSeq(h, 1, n - 1), h[n]) \in Seq(Form)
      BY <3>1, <3>2
    <3> QED
      BY <2>1, <3>3, <3>4, <3>5, SeqEqual
  <2> QED
    BY <2>2, <2>3 DEF Versions
<1>2. CASE e # d
  BY <1>2 DEF DraftShapes, UndoDraft, Versions
<1> QED
  BY <1>1, <1>2

\* The other steps.
LEMMA OtherVersions ==
  ASSUME DraftShapes, NEW d \in live \cap live',
         \/ UNCHANGED <<values, history>>
         \/ \E e \in Drafts, b \in Bodies : CreateDraft(e, b)
         \/ \E ds : Drop(ds)
  PROVE  Versions(d)' = Versions(d)
<1>1. d \in Drafts
  BY DEF DraftShapes
<1>2. CASE UNCHANGED <<values, history>>
  BY <1>2 DEF Versions
<1>3. ASSUME NEW e \in Drafts, NEW b \in Bodies, CreateDraft(e, b)
      PROVE  Versions(d)' = Versions(d)
  <2>1. e # d
    BY <1>3 DEF CreateDraft, IsNew
  <2> QED
    BY <1>1, <1>3, <2>1 DEF DraftShapes, CreateDraft, Versions
<1>4. ASSUME NEW ds, Drop(ds) PROVE Versions(d)' = Versions(d)
  <2>1. d \notin ds
    BY <1>4 DEF Drop
  <2> QED
    BY <1>1, <1>4, <2>1 DEF Drop, Versions
<1> QED
  BY <1>2, <1>3, <1>4

LEMMA VersionsStep ==
  ASSUME LoansInv, Next, NEW d \in live \cap live'
  PROVE  \/ Versions(d)' = Versions(d)
         \/ Versions(d)' = Append(Versions(d), values'[d])
         \/ Versions(d) = Append(Versions(d)', values[d])
<1>1. d \in Drafts /\ DraftShapes
  BY DEF LoansInv, Shapes, DraftShapes
<1>2. CASE \E e \in Drafts, b \in Bodies : CreateDraft(e, b)
  BY <1>1, <1>2, OtherVersions
<1>3. CASE \E e \in Drafts, b \in Bodies : UpdateDraft(e, b)
  BY <1>1, <1>3, EditVersions
<1>4. CASE \E e \in Drafts : UndoDraft(e)
  BY <1>1, <1>4, UndoVersions
<1>5. CASE \E s \in Submits, e \in Drafts : Submit(s, e)
  BY <1>1, <1>5, OtherVersions DEF Submit, drafts
<1>6. ASSUME NEW s \in Submits, Advance(s) \/ DatabaseFails(s)
      PROVE  Versions(d)' = Versions(d)
  <2>1. UNCHANGED drafts \/ \E ds : Drop(ds)
    BY <1>6 DEF Advance, DatabaseFails, FindAccount, CreditReview, AffordabilityReview,
       ComplianceReview, Save, Finish
  <2> QED
    BY <1>1, <2>1, OtherVersions DEF drafts
<1>7. CASE Restart
  BY <1>1, <1>7, OtherVersions DEF Restart
<1> QED
  BY <1>2, <1>3, <1>4, <1>5, <1>6, <1>7 DEF Next

-----------------------------------------------------------------------------
(* The theorems *)

\* The state of LoansService, of its drafts and of loan_applications always has the
\* types of the code: every draft and every memento holds values of request bodies, and
\* no application passes the builder without an applicant, an account, a positive
\* amount and income, and a term of 3 to 84 months.
THEOREM LoansTyped == Spec => []TypeOK
<1>1. LoansInv => TypeOK
  BY ShapesTyped DEF LoansInv
<1> QED
  BY <1>1, LoansAlways, PTL

\* Whatever fails and however calls overlap, a started draft is in the caretaker,
\* died with the process or was decided.
THEOREM DraftsNeverVanish == Spec => []DraftsEndInLoans
<1>1. LoansInv => DraftsEndInLoans
  BY DEF LoansInv
<1> QED
  BY <1>1, LoansAlways, PTL

\* A draft of which a decision has been answered is never decided by a later submit.
THEOREM NoSecondDecision == Spec => []DecidedForGood
<1>1. ASSUME LoansInv PROVE DecidedForGood
  <2> SUFFICES ASSUME NEW r \in loans, NEW s \in Submits,
                      submit[s].step \in {"save", "saved", "done"},
                      submit[s].draft = r.draft, r.by \in submit[s].earlier
               PROVE  FALSE
    BY DEF DecidedForGood
  <2>1. CallInv(s) /\ RowInv(r)
    BY <1>1 DEF LoansInv
  <2> QED
    BY <2>1 DEF CallInv, RowInv, Active
<1> QED
  BY <1>1, LoansAlways, PTL

\* The event loan.decided is published only for a row that is in loan_applications.
THEOREM AnnouncedAfterSave == Spec => []AnnouncedIsSaved
<1>1. ASSUME LoansInv PROVE AnnouncedIsSaved
  <2> SUFFICES ASSUME NEW s \in published PROVE \E r \in loans : r.by = s
    BY DEF AnnouncedIsSaved
  <2>1. s \in Submits /\ submit[s].step = "done"
    BY <1>1 DEF LoansInv, Shapes, RowShapes, Announced
  <2> QED
    BY <1>1, <2>1 DEF LoansInv, CallInv
<1> QED
  BY <1>1, LoansAlways, PTL

\* The mediator's desks, one after the other with other requests between them, decide
\* every application as the table of their rules does.
THEOREM DesksFollowRules == Spec => []DecisionFollowsRules
<1>1. LoansInv => DecisionFollowsRules
  BY DEF LoansInv, RowInv, DecisionFollowsRules
<1> QED
  BY <1>1, LoansAlways, PTL

\* An undo gives back exactly the version before the last edit, and nothing but edits
\* and undos changes the versions of a draft that stays.
THEOREM UndoIsExact == Spec => UndoStepsBack
<1> DEFINE A == \A d \in live \cap live' :
                  LET was == Versions(d)  is == Versions(d)'
                  IN  is = was \/ is = Append(was, values'[d]) \/ was = Append(is, values[d])
<1>1. ASSUME LoansInv, [Next]_vars PROVE [A]_vars
  <2>1. CASE Next
    BY <1>1, <2>1, VersionsStep
  <2>2. CASE UNCHANGED vars
    BY <2>2
  <2> QED
    BY <1>1, <2>1, <2>2
<1> HIDE DEF A
<1>2. Spec => [][A]_vars
  BY <1>1, LoansAlways, PTL DEF Spec
<1> QED
  BY <1>2 DEF A, UndoStepsBack
============================================================================
