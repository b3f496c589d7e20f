------------------------------ MODULE EndOfDay ------------------------------
(***************************************************************************)
(* The batch jobs: the template method EndOfDayJob.run and its two jobs    *)
(* (operations/jobs.ts).  Nothing keeps two runs of a job apart, on one    *)
(* pod or on two, and nothing remembers that a job ran.                    *)
(***************************************************************************)
EXTENDS Book

CONSTANTS
  Runs,          \* POST operations/jobs/:name/run requests
  InactiveFor    \* how long an account may rest before it is dormant

JobNames == {"interest-posting", "dormancy-review"}

VARIABLE run   \* each run: pc, name, the loaded balances, and the report

JobTypeOK ==
  \A r \in Runs :
    \/ run[r] \in [pc : {"idle", "failed"}]
    \/ /\ run[r].pc \in {"looping", "reported", "dead"}
       /\ run[r].name \in JobNames
       /\ run[r].loaded \in [DOMAIN run[r].loaded -> Nat]
       /\ DOMAIN run[r].loaded \subseteq Accounts
       /\ {run[r].todo, run[r].affected, run[r].failed} \subseteq SUBSET DOMAIN run[r].loaded

JobInit == run = [r \in Runs |-> [pc |-> "idle"]]

Eligible(name) ==
  {a \in Accounts : /\ rows[a].status = "ACTIVE"
                    /\ name = "interest-posting" =>
                         rows[a].type \in {"SAVINGS", "FIXED_DEPOSIT"}}

\* loadAccounts: the whole batch with its balances, read once.
Load(r) ==
  /\ run[r].pc = "idle"
  /\ \/ /\ UNCHANGED faults
        /\ \E name \in JobNames :
             run' = [run EXCEPT ![r] =
               [pc |-> "looping", name |-> name, todo |-> Eligible(name),
                loaded |-> [a \in Eligible(name) |-> rows[a].balance],
                affected |-> {}, failed |-> {}]]
     \/ Fault /\ run' = [run EXCEPT ![r] = [pc |-> "failed"]]
  /\ UNCHANGED <<rows, book, now>>

Profit(r, a) == MonthlyInterest(rows[a].type, run[r].loaded[a], rows[a].rate)

Turn(r, a) == run[r].pc = "looping" /\ a \in run[r].todo

\* Slip: the first account that fails ends the batch.
FailsTheBatch(r, a) ==
  run' = [run EXCEPT ![r].todo = {}, ![r].failed = @ \cup {a}]

Affected(r, a) == run' = [run EXCEPT ![r].todo = @ \ {a}, ![r].affected = @ \cup {a}]
Failed(r, a)   == run' = [run EXCEPT ![r].todo = @ \ {a}, ![r].failed = @ \cup {a}]
Skipped(r, a)  == run' = [run EXCEPT ![r].todo = @ \ {a}]

\* processAccount of the interest job: profit on the balance that was loaded,
\* paid in by the ledger if the account still takes deposits.
PayInterest(r, a) ==
  /\ Turn(r, a) /\ run[r].name = "interest-posting" /\ Profit(r, a) > 0
  /\ \/ /\ CanDeposit(rows[a].status) /\ Posts(r, a, Profit(r, a))
        /\ \/ Affected(r, a) /\ UNCHANGED faults
           \/ Failed(r, a) /\ Fault
     \/ /\ Failed(r, a) /\ UNCHANGED <<rows, book>>
        /\ \/ ~CanDeposit(rows[a].status) /\ UNCHANGED faults
           \/ Fault
  /\ UNCHANGED now

NoProfit(r, a) ==
  /\ Turn(r, a) /\ run[r].name = "interest-posting" /\ Profit(r, a) <= 0
  /\ Skipped(r, a) /\ UNCHANGED bookVars

\* processAccount of the review: the newest entry, or the opening of the
\* account (tick 0), against the cutoff.
LastSeen(a) == Max({0} \cup {e.stamp : e \in OfAccount(a)})

Review(r, a) ==
  /\ Turn(r, a) /\ run[r].name = "dormancy-review"
  /\ \/ LastSeen(a) < now - InactiveFor /\ Affected(r, a) /\ UNCHANGED faults
     \/ LastSeen(a) >= now - InactiveFor /\ Skipped(r, a) /\ UNCHANGED faults
     \/ Fault /\ Failed(r, a)
  /\ UNCHANGED <<rows, book, now>>

Report(r) ==
  /\ run[r].pc = "looping" /\ run[r].todo = {}
  /\ run' = [run EXCEPT ![r].pc = "reported"]
  /\ UNCHANGED bookVars

\* The pod dies in the middle of the batch.
Die(r) ==
  /\ run[r].pc = "looping" /\ Fault
  /\ run' = [run EXCEPT ![r].pc = "dead"]
  /\ UNCHANGED <<rows, book, now>>

JobNext ==
  \E r \in Runs : Load(r) \/ Report(r) \/ Die(r)
                  \/ \E a \in Accounts : PayInterest(r, a) \/ NoProfit(r, a) \/ Review(r, a)

-----------------------------------------------------------------------------

\* One bad account does not stop the batch, and none is paid twice by a run.  A
\* run that reports has paid every account it loaded the month's profit on the
\* balance it loaded, once, or has listed it among the failures; an account
\* listed as paid was paid.  A failure may hide a posting whose answer was
\* lost; nobody else gets money from the run.  Deposits, withdrawals and status
\* changes happen while it loops.
EveryAccountDealtWith ==
  \A r \in Runs : run[r].pc \in {"looping", "reported", "dead"} =>
    LET paid(a) == {e \in book : e.writer = r /\ e.account = a}
        earns(a) == run[r].name = "interest-posting" /\
                    ~IsProfit(0, rows[a].type, run[r].loaded[a], rows[a].rate)
    IN  /\ \A a \in DOMAIN run[r].loaded :
             /\ Cardinality(paid(a)) <= 1
             /\ \A e \in paid(a) : earns(a) /\
                  IsProfit(e.amount, rows[a].type, run[r].loaded[a], rows[a].rate)
             /\ run[r].pc = "reported" /\ earns(a) =>
                  \/ a \in run[r].affected /\ paid(a) # {}
                  \/ a \in run[r].failed
        /\ \A e \in book : e.writer = r => e.account \in DOMAIN run[r].loaded
=============================================================================
