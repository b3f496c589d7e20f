-------------------------------- MODULE Book --------------------------------
(***************************************************************************)
(* The ledger as batch jobs and readers see it: account rows, and entries  *)
(* with the time stamps and ids by which they are read.  created_at is the *)
(* time the transaction began, in microseconds; a transaction that waited  *)
(* for a row lock commits later, so entries do not appear in the order of  *)
(* their stamps.  Ids are random.                                          *)
(***************************************************************************)
EXTENDS AccountState, Interest, FiniteSets, FiniteSetsExt

CONSTANTS
  Accounts,
  Ids,          \* the ids entries may get, integers for their order; a bound:
                \* when none is left, nothing is posted any more
  Writers,      \* who writes entries: the job runs, and the customers
  OpeningRows,  \* [Accounts -> Row] at the start
  OpeningBooks, \* the ledgers to start from
  FirstTick,    \* the time at the start
  LastTick,     \* bound: the clock stops
  Lag,          \* bound: the longest a transaction waits for its lock
  Crowd,        \* bound: entries of one account in a millisecond
  Micros,       \* clock ticks in a millisecond
  MaxFaults     \* bound: database errors and lost answers

VARIABLES rows, book, now, faults

bookVars == <<rows, book, now, faults>>

Types == {"SAVINGS", "CURRENT", "FIXED_DEPOSIT"}
Row == [status : Statuses, type : Types, rate : Nat, balance : Nat]

\* nth counts commits; the database does not store it.
Entry == [id : Ids, account : Accounts, stamp : Nat, amount : Int, after : Int,
          writer : Writers, nth : Nat]

\* A balance is what its account's first entry found and its entries moved.
Explained(balance, entries) ==
  \A f \in entries : (\A e \in entries : f.nth <= e.nth) =>
    balance = f.after - f.amount + MapThenSumSet(LAMBDA e : e.amount, entries)

\* The id is the primary key of an entry; a balance changes with an entry only.
ASSUME BookAssumption ==
  /\ Ids \subseteq Nat /\ IsFiniteSet(Ids) /\ MaxFaults \in Nat /\ Lag \in Nat
  /\ FirstTick \in Nat /\ LastTick \in Nat /\ Lag <= FirstTick /\ FirstTick <= LastTick
  /\ Micros \in Nat \ {0} /\ Crowd \in Nat
  /\ OpeningRows \in [Accounts -> Row]
  /\ \A b \in OpeningBooks :
       /\ b \subseteq Entry /\ IsFiniteSet(b)
       /\ \A d, e \in b : d.id = e.id => d = e
       /\ \A e \in b : e.nth < Cardinality(b)
       /\ \A a \in Accounts : Explained(OpeningRows[a].balance, {e \in b : e.account = a})

OfAccount(a) == {e \in book : e.account = a}

Millisecond(stamp) == stamp \div Micros

BookInit ==
  rows = OpeningRows /\ book \in OpeningBooks /\ now = FirstTick /\ faults = 0

\* A random id decides only between entries of one account and stamp, and
\* there a new one comes before or after those there are.
FreshIds(a, stamp) ==
  LET free == Ids \ {e.id : e \in book}
  IN  IF free = {} THEN {}
      ELSE {Max(free)} \cup {Min(free) : e \in {e \in OfAccount(a) : e.stamp = stamp}}

\* Slip: nobody asks whether the money is there.
PostsUnchecked(w, a, amount) ==
  /\ rows' = [rows EXCEPT ![a].balance = @ + amount]
  /\ \E stamp \in now - Lag .. now : \E id \in FreshIds(a, stamp) :
       book' = book \cup {[id |-> id, account |-> a, stamp |-> stamp,
                            amount |-> amount, after |-> rows[a].balance + amount,
                            writer |-> w, nth |-> Cardinality(book)]}

\* A transaction that moves amount on account a commits.  It began at some
\* stamp up to now.
Posts(w, a, amount) ==
  /\ rows[a].balance + amount >= 0
  /\ rows' = [rows EXCEPT ![a].balance = @ + amount]
  /\ \E stamp \in now - Lag .. now : \E id \in FreshIds(a, stamp) :
       /\ Cardinality({e \in OfAccount(a) :
                         Millisecond(e.stamp) = Millisecond(stamp)}) < Crowd
       /\ book' = book \cup {[id |-> id, account |-> a, stamp |-> stamp,
                              amount |-> amount, after |-> rows[a].balance + amount,
                              writer |-> w, nth |-> Cardinality(book)]}

Fault == faults < MaxFaults /\ faults' = faults + 1
=============================================================================
