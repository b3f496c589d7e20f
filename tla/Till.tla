-------------------------------- MODULE Till --------------------------------
(***************************************************************************)
(* The ledger as the services above it see it.  LedgerRefinesBank shows    *)
(* that a call of LedgerService takes effect at one instant, or not at     *)
(* all, so a call is one step here.  The exception is a reversal: it looks *)
(* for an earlier reversal before it locks anything, and commits later.    *)
(* A status change is one step too; what its two reads and its late save   *)
(* can do is the subject of Ledger.                                        *)
(***************************************************************************)
EXTENDS AccountState, Products, FiniteSets, FiniteSetsExt

CONSTANTS
  Accounts,      \* account ids
  References,    \* <<prefix, id>>: what ReferenceNumberGenerator hands out
  MaxFaults      \* bound: database errors and lost answers in a run

NoRef == <<"none", "none">>

ASSUME TillAssumption == MaxFaults \in Nat /\ NoRef \notin References

VARIABLES
  rows,     \* the committed account row of each id
  entries,  \* the committed ledger entries
  faults    \* database errors so far

till == <<rows, entries, faults>>

\* The row of an id that no account has been given yet.
Absent == [status |-> "ABSENT", balance |-> 0, limit |-> 0, currency |-> "PKR"]
Row    == [status : Statuses \cup {"ABSENT"}, balance : Nat, limit : Nat,
           currency : Currencies]

LineTypes == {"DEPOSIT", "WITHDRAWAL", "TRANSFER_OUT", "FEE", "TRANSFER_IN"}

\* A REVERSAL entry names the line it takes back: of is its original's
\* reference, while an ordinary entry is of itself.
Entry == [ref : References, of : References, account : Accounts,
          amount : Int, line : LineTypes]

Line(ref, account, amount, type) ==
  [ref |-> ref, of |-> ref, account |-> account, amount |-> amount, line |-> type]

EntriesOf(ref) == {x \in entries : x.ref = ref}
ReversalsOf(ref) == {x \in entries : x.of = ref /\ x.ref # ref}

Moved(a, lines) ==
  MapThenSumSet(LAMBDA x : x.amount, {x \in lines : x.account = a})

WithdrawnToday(a) ==
  -Moved(a, {x \in entries : x.line \in {"WITHDRAWAL", "TRANSFER_OUT"} /\ x.ref = x.of})

\* The validation chain for a credit and for a debit.
Credits(a, amount) ==
  rows[a].status # "ABSENT" /\ amount > 0 /\ CanDeposit(rows[a].status)

Debits(a, amount) ==
  /\ rows[a].status # "ABSENT" /\ amount > 0 /\ CanWithdraw(rows[a].status)
  /\ rows[a].balance >= amount
  /\ WithdrawnToday(a) + amount <= rows[a].limit

\* One ledger transaction: balances and entries together.
Commits(lines) ==
  /\ rows' = [a \in Accounts |-> [rows[a] EXCEPT !.balance = @ + Moved(a, lines)]]
  /\ entries' = entries \cup lines

\* What reverse() asks before its row locks, and under them.
Reversible(of) == EntriesOf(of) # {} /\ ReversalsOf(of) = {}

ReversalLines(ref, of) ==
  {[x EXCEPT !.ref = ref, !.of = of, !.amount = -x.amount] : x \in EntriesOf(of)}

Covers(lines) == \A a \in Accounts : rows[a].balance + Moved(a, lines) >= 0

\* Every line of the transaction ref has an opposite entry.
IsReversed(ref) ==
  \A x \in EntriesOf(ref) :
    \E y \in ReversalsOf(ref) :
      y.account = x.account /\ y.line = x.line /\ y.amount = -x.amount

SetStatus(a, action) ==
  rows' = [rows EXCEPT ![a].status = StatusAfter[action]]

May(a, action) ==
  rows[a].status # "ABSENT" /\ IsLegal(rows[a].status, action, rows[a].balance)

\* A statement fails, or takes effect and its answer is lost.
Fault == faults < MaxFaults /\ faults' = faults + 1
=============================================================================
