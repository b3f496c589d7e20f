--------------------------- MODULE NightlyProofs ---------------------------
(***************************************************************************)
(* A night of batch jobs and readers, for any number of each and any       *)
(* accounts: a run of the interest job pays each account it loaded its     *)
(* month's profit once or says that it failed, and a reader who goes page  *)
(* by page misses nothing that was there when it began.                    *)
(***************************************************************************)
EXTENDS Nightly, Sums, TLAPS

-----------------------------------------------------------------------------
(* Numbers *)

\* So Max and Min give a number of the set.
LEMMA MaxMin ==
  ASSUME NEW S \in SUBSET Nat, IsFiniteSet(S), S # {}
  PROVE  Max(S) \in S /\ Min(S) \in S
<1>1. \E x \in S : \A y \in S : x >= y
  <2>1. PICK m \in S : \A x \in S : x <= m
    BY GreatestNat
  <2>2. \A x \in S : m >= x
    BY <2>1
  <2> QED
    BY <2>2
<1>2. \E x \in S : \A y \in S : x =< y
  BY LeastNat
<1> QED
  BY <1>1, <1>2 DEF Max, Min

\* Whole division rounds down.
LEMMA Floor ==
  ASSUME NEW year \in Nat
  PROVE  LET n == year \div YearOfMonths
         IN  n \in Nat /\ n * YearOfMonths <= year /\ year < (n + 1) * YearOfMonths
BY DEF YearOfMonths

\* A year's interest, as the rules of the products say it.
Year(type, balance, rate) ==
  IF type = "CURRENT" THEN 0
  ELSE balance * rate
       + (IF type = "SAVINGS" /\ balance > Slab THEN (balance - Slab) * Bonus ELSE 0)

LEMMA YearNat ==
  ASSUME NEW type, NEW balance \in Nat, NEW rate \in Nat
  PROVE  Year(type, balance, rate) \in Nat
<1>1. \A x, y \in Nat : x * y \in Nat
  OBVIOUS
<1>2. balance * rate \in Nat
  BY <1>1
<1>3. balance > Slab => (balance - Slab) * Bonus \in Nat
  <2>1. balance > Slab => balance - Slab \in Nat
    BY InterestAssumption
  <2> QED
    BY <1>1, <2>1, InterestAssumption
<1> QED
  BY <1>2, <1>3 DEF Year

\* The strategies compute the rounded twelfth of it.
LEMMA MonthOfYear ==
  ASSUME NEW type \in Types, NEW balance \in Nat, NEW rate \in Nat
  PROVE  MonthlyInterest(type, balance, rate) = Year(type, balance, rate) \div YearOfMonths
<1>1. CASE type = "CURRENT"
  BY <1>1 DEF MonthlyInterest, NoInterest, Year, YearOfMonths
<1>2. CASE type = "FIXED_DEPOSIT"
  <2>1. balance * rate \in Nat
    OBVIOUS
  <2>2. Year(type, balance, rate) = balance * rate
    BY <1>2, <2>1 DEF Year
  <2> QED
    BY <1>2, <2>2 DEF MonthlyInterest, CompoundMonthly
<1>3. CASE type = "SAVINGS"
  <2>1. Lesser(balance, Slab) * rate + Excess(balance, Slab) * (rate + Bonus)
          = Year(type, balance, rate)
    <3>1. CASE balance > Slab
      <4>1. Lesser(balance, Slab) = Slab /\ Excess(balance, Slab) = balance - Slab
        BY <3>1, InterestAssumption DEF Lesser, Excess
      <4>2. ASSUME NEW b \in Int, NEW s \in Int, NEW r \in Int, NEW x \in Int
            PROVE  s * r + (b - s) * (r + x) = b * r + (b - s) * x
        OBVIOUS
      <4>3. Slab * rate + (balance - Slab) * (rate + Bonus)
              = balance * rate + (balance - Slab) * Bonus
        BY <4>2, InterestAssumption
      <4> QED
        BY <1>3, <3>1, <4>1, <4>3 DEF Year
    <3>2. CASE ~(balance > Slab)
      <4>1. Lesser(balance, Slab) = balance /\ Excess(balance, Slab) = 0
        BY <3>2, InterestAssumption DEF Lesser, Excess
      <4>2. balance * rate \in Nat /\ 0 * (rate + Bonus) = 0
        BY InterestAssumption
      <4>3. balance * rate + 0 * (rate + Bonus) = balance * rate + 0
        BY <4>2
      <4> QED
        BY <1>3, <3>2, <4>1, <4>3 DEF Year
    <3> QED
      BY <3>1, <3>2
  <2> QED
    BY <1>3, <2>1 DEF MonthlyInterest, Tiered
<1> QED
  BY <1>1, <1>2, <1>3 DEF Types

\* So they pay what IsProfit says, and nothing exactly when a month earns nothing.
LEMMA ProfitIs ==
  ASSUME NEW type \in Types, NEW balance \in Nat, NEW rate \in Nat
  PROVE  LET n == MonthlyInterest(type, balance, rate)
         IN  /\ n \in Nat /\ IsProfit(n, type, balance, rate)
             /\ n > 0 <=> ~IsProfit(0, type, balance, rate)
<1> DEFINE n == MonthlyInterest(type, balance, rate)
           year == Year(type, balance, rate)
<1>1. year \in Nat /\ n = year \div YearOfMonths
  BY YearNat, MonthOfYear
<1>2. \A k : IsProfit(k, type, balance, rate) <=>
               k * YearOfMonths <= year /\ year < (k + 1) * YearOfMonths
  BY DEF IsProfit, Year
<1> HIDE DEF n, year
<1>3. n \in Nat /\ n * YearOfMonths <= year /\ year < (n + 1) * YearOfMonths
  BY <1>1, Floor
<1>4. n > 0 <=> ~(0 * YearOfMonths <= year /\ year < (0 + 1) * YearOfMonths)
  BY <1>1, <1>3 DEF YearOfMonths
<1> QED
  BY <1>2, <1>3, <1>4 DEF n

-----------------------------------------------------------------------------
(* The book *)

\* An entry has its id to itself, and an account keeps its type and rate.
BookInv ==
  /\ rows \in [Accounts -> Row]
  /\ \A a \in Accounts : /\ rows[a].type = OpeningRows[a].type
                         /\ rows[a].rate = OpeningRows[a].rate
  /\ book \subseteq Entry /\ IsFiniteSet(book)
  /\ \A d, e \in book : d.id = e.id => d = e
  /\ now \in FirstTick .. LastTick /\ faults \in 0 .. MaxFaults

\* A new entry gets an id that no entry has.
LEMMA FreshId ==
  ASSUME NEW a, NEW stamp, NEW id \in FreshIds(a, stamp)
  PROVE  id \in Ids /\ \A e \in book : e.id # id
<1> DEFINE free == Ids \ {e.id : e \in book}
<1>1. free \in SUBSET Nat /\ IsFiniteSet(free)
  BY BookAssumption, FS_Difference
<1>2. free # {}
  BY DEF FreshIds
<1>3. id \in {Max(free), Min(free)}
  BY <1>2 DEF FreshIds
<1>4. Max(free) \in free /\ Min(free) \in free
  BY <1>1, <1>2, MaxMin
<1> QED
  BY <1>3, <1>4

\* A row whose balance or status alone changes.
LEMMA RowChanges ==
  ASSUME BookInv, NEW a \in Accounts,
         \/ \E b \in Nat : rows' = [rows EXCEPT ![a].balance = b]
         \/ \E s \in Statuses : rows' = [rows EXCEPT ![a].status = s]
  PROVE  /\ rows' \in [Accounts -> Row]
         /\ \A c \in Accounts : /\ rows'[c].type = OpeningRows[c].type
                                /\ rows'[c].rate = OpeningRows[c].rate
<1> DEFINE row == rows[a]
<1>1. row \in Row /\ row.type = OpeningRows[a].type /\ row.rate = OpeningRows[a].rate
  BY DEF BookInv
<1>2. \E new \in Row : /\ rows' = [rows EXCEPT ![a] = new]
                       /\ new.type = row.type /\ new.rate = row.rate
  <2>1. ASSUME NEW b \in Nat, rows' = [rows EXCEPT ![a].balance = b]
        PROVE  \E new \in Row : /\ rows' = [rows EXCEPT ![a] = new]
                                /\ new.type = row.type /\ new.rate = row.rate
    <3> DEFINE new == [status |-> row.status, type |-> row.type, rate |-> row.rate,
                       balance |-> b]
    <3>1. [row EXCEPT !.balance = b] = new /\ new \in Row
      BY <1>1 DEF Row
    <3>2. rows' = [rows EXCEPT ![a] = [row EXCEPT !.balance = b]]
      BY <2>1
    <3>3. new.type = row.type /\ new.rate = row.rate
      OBVIOUS
    <3> HIDE DEF new, row
    <3> QED
      BY <3>1, <3>2, <3>3
  <2>2. ASSUME NEW s \in Statuses, rows' = [rows EXCEPT ![a].status = s]
        PROVE  \E new \in Row : /\ rows' = [rows EXCEPT ![a] = new]
                                /\ new.type = row.type /\ new.rate = row.rate
    <3> DEFINE new == [status |-> s, type |-> row.type, rate |-> row.rate,
                       balance |-> row.balance]
    <3>1. [row EXCEPT !.status = s] = new /\ new \in Row
      BY <1>1 DEF Row
    <3>2. rows' = [rows EXCEPT ![a] = [row EXCEPT !.status = s]]
      BY <2>2
    <3>3. new.type = row.type /\ new.rate = row.rate
      OBVIOUS
    <3> HIDE DEF new, row
    <3> QED
      BY <3>1, <3>2, <3>3
  <2> QED
    BY <2>1, <2>2
<1>3. PICK new \in Row : /\ rows' = [rows EXCEPT ![a] = new]
                         /\ new.type = row.type /\ new.rate = row.rate
  BY <1>2
<1> HIDE DEF row
<1> QED
  BY <1>1, <1>3 DEF BookInv

\* A posting adds one entry, with an id of its own.
LEMMA PostsOne ==
  ASSUME BookInv, NEW w \in Writers, NEW a \in Accounts, NEW amount \in Int,
         Posts(w, a, amount)
  PROVE  /\ rows' \in [Accounts -> Row]
         /\ \A c \in Accounts : /\ rows'[c].type = OpeningRows[c].type
                                /\ rows'[c].rate = OpeningRows[c].rate
         /\ \E e \in Entry :
              /\ book' = book \cup {e} /\ \A d \in book : d.id # e.id
              /\ e.writer = w /\ e.account = a /\ e.amount = amount
<1>1. rows[a].balance \in Nat
  BY DEF BookInv, Row
<1>2. /\ rows' = [rows EXCEPT ![a].balance = rows[a].balance + amount]
      /\ rows[a].balance + amount \in Nat
  BY <1>1 DEF Posts
<1>3. PICK stamp \in now - Lag .. now : \E id \in FreshIds(a, stamp) :
        book' = book \cup {[id |-> id, account |-> a, stamp |-> stamp,
                            amount |-> amount, after |-> rows[a].balance + amount,
                            writer |-> w, nth |-> Cardinality(book)]}
  BY DEF Posts
<1>4. PICK id \in FreshIds(a, stamp) :
        book' = book \cup {[id |-> id, account |-> a, stamp |-> stamp,
                            amount |-> amount, after |-> rows[a].balance + amount,
                            writer |-> w, nth |-> Cardinality(book)]}
  BY <1>3
<1> DEFINE e == [id |-> id, account |-> a, stamp |-> stamp,
                 amount |-> amount, after |-> rows[a].balance + amount,
                 writer |-> w, nth |-> Cardinality(book)]
<1>5. stamp \in Nat
  BY BookAssumption DEF BookInv
<1>6. Cardinality(book) \in Nat
  BY FS_CardinalityType DEF BookInv
<1>7. id \in Ids /\ \A d \in book : d.id # id
  BY FreshId
<1>8. e \in Entry
  BY <1>2, <1>5, <1>6, <1>7 DEF Entry
<1>9. \E f \in Entry : /\ book' = book \cup {f} /\ \A d \in book : d.id # f.id
                       /\ f.writer = w /\ f.account = a /\ f.amount = amount
  <2>1. /\ e.id = id /\ e.writer = w /\ e.account = a /\ e.amount = amount
        /\ book' = book \cup {e}
    BY <1>4
  <2> HIDE DEF e
  <2> QED
    BY <1>7, <1>8, <2>1
<1> QED
  BY <1>2, <1>9, RowChanges

\* What every step makes of the book: nothing, or one entry more.
LEMMA BookKept ==
  ASSUME BookInv, rows' \in [Accounts -> Row],
         \A c \in Accounts : /\ rows'[c].type = OpeningRows[c].type
                            /\ rows'[c].rate = OpeningRows[c].rate,
         \/ book' = book
         \/ \E e \in Entry : book' = book \cup {e} /\ \A d \in book : d.id # e.id,
         now' = now \/ (now < LastTick /\ now' = now + 1), faults' = faults \/ Fault
  PROVE  BookInv'
<1>1. now' \in FirstTick .. LastTick /\ faults' \in 0 .. MaxFaults
  BY BookAssumption DEF BookInv, Fault
<1>2. CASE book' = book
  BY <1>1, <1>2 DEF BookInv
<1>3. ASSUME NEW e \in Entry, book' = book \cup {e}, \A d \in book : d.id # e.id
      PROVE  BookInv'
  <2>1. IsFiniteSet(book')
    BY <1>3, FS_AddElement DEF BookInv
  <2> QED
    BY <1>1, <1>3, <2>1 DEF BookInv
<1> QED
  BY <1>2, <1>3

-----------------------------------------------------------------------------
(* The jobs *)

Balances == UNION {[D -> Nat] : D \in SUBSET Accounts}

\* A run that has loaded its batch.
Loop == [pc : {"looping", "reported", "dead"}, name : JobNames, todo : SUBSET Accounts,
         loaded : Balances, affected : SUBSET Accounts, failed : SUBSET Accounts]

RunShape == run \in [Runs -> [pc : {"idle", "failed"}] \cup Loop]

Earns(w, a) ==
  w.name = "interest-posting" /\
  ~IsProfit(0, OpeningRows[a].type, w.loaded[a], OpeningRows[a].rate)

\* What run r, which stands at w, has made of ledger b so far: only accounts it
\* is done with got money, at most once and the right amount, and each of them
\* that earns is among the paid or the failed.
DealtWith(r, w, b) ==
  /\ w.todo \subseteq DOMAIN w.loaded /\ w.affected \subseteq DOMAIN w.loaded
  /\ w.failed \subseteq DOMAIN w.loaded
  /\ \A e \in b : e.writer = r =>
       /\ e.account \in DOMAIN w.loaded \ w.todo /\ Earns(w, e.account)
       /\ IsProfit(e.amount, OpeningRows[e.account].type, w.loaded[e.account],
                   OpeningRows[e.account].rate)
  /\ \A d, e \in b : d.writer = r /\ e.writer = r /\ d.account = e.account => d = e
  /\ \A a \in DOMAIN w.loaded \ w.todo : Earns(w, a) =>
       \/ a \in w.affected /\ \E e \in b : e.writer = r /\ e.account = a
       \/ a \in w.failed
  /\ w.pc = "reported" => w.todo = {}

RunInv(r, w, b) ==
  /\ w.pc \in {"idle", "failed"} => \A e \in b : e.writer # r
  /\ w.pc \in {"looping", "reported", "dead"} => DealtWith(r, w, b)

JobInv == RunShape /\ \A r \in Runs : RunInv(r, run[r], book)

\* A step of anybody else leaves what a run did as it was.
LEMMA NotMine ==
  ASSUME NEW r, NEW w, NEW b, NEW e, RunInv(r, w, b), e.writer # r
  PROVE  RunInv(r, w, b \cup {e})
<1>1. CASE w.pc \in {"idle", "failed"}
  BY <1>1 DEF RunInv
<1>2. CASE w.pc \in {"looping", "reported", "dead"}
  <2>1. DealtWith(r, w, b)
    BY <1>2 DEF RunInv
  <2>2. DealtWith(r, w, b \cup {e})
    BY <2>1 DEF DealtWith
  <2> QED
    BY <1>2, <2>2 DEF RunInv
<1> QED
  BY <1>1, <1>2 DEF RunInv

\* A run goes on to the next account, having paid this one ...
LEMMA PaidAndDone ==
  ASSUME NEW r, NEW w, NEW v, NEW b, NEW e, NEW a \in w.todo, DealtWith(r, w, b),
         v.name = w.name, v.loaded = w.loaded, v.pc = "looping", v.todo = w.todo \ {a},
         \/ v.affected = w.affected \cup {a} /\ v.failed = w.failed
         \/ v.affected = w.affected /\ v.failed = w.failed \cup {a},
         e.writer = r, e.account = a, Earns(w, a),
         IsProfit(e.amount, OpeningRows[a].type, w.loaded[a], OpeningRows[a].rate)
  PROVE  RunInv(r, v, b \cup {e})
<1>1. \A c : Earns(v, c) <=> Earns(w, c)
  BY DEF Earns
<1>2. a \in DOMAIN w.loaded /\ \A d \in b : d.writer = r => d.account # a
  BY DEF DealtWith
<1>3. \A d \in b \cup {e} : d.writer = r =>
        /\ d.account \in DOMAIN v.loaded \ v.todo /\ Earns(v, d.account)
        /\ IsProfit(d.amount, OpeningRows[d.account].type, v.loaded[d.account],
                    OpeningRows[d.account].rate)
  BY <1>1, <1>2 DEF DealtWith
<1>4. \A d, f \in b \cup {e} :
        d.writer = r /\ f.writer = r /\ d.account = f.account => d = f
  BY <1>2 DEF DealtWith
<1>5. ASSUME NEW c \in DOMAIN v.loaded \ v.todo, Earns(v, c)
      PROVE  \/ c \in v.affected /\ \E d \in b \cup {e} : d.writer = r /\ d.account = c
             \/ c \in v.failed
  <2>1. CASE c = a
    BY <2>1
  <2>2. CASE c # a
    <3>1. c \in DOMAIN w.loaded \ w.todo /\ Earns(w, c)
      BY <1>1, <1>5, <2>2
    <3> QED
      BY <3>1 DEF DealtWith
  <2> QED
    BY <2>1, <2>2
<1>6. /\ v.todo \subseteq DOMAIN v.loaded /\ v.affected \subseteq DOMAIN v.loaded
      /\ v.failed \subseteq DOMAIN v.loaded
  BY <1>2 DEF DealtWith
<1>7. DealtWith(r, v, b \cup {e})
  BY <1>3, <1>4, <1>5, <1>6 DEF DealtWith
<1> QED
  BY <1>7 DEF RunInv

\* ... or not, because it failed or earns nothing.
LEMMA LeftAndDone ==
  ASSUME NEW r, NEW w, NEW v, NEW b, NEW a \in w.todo, DealtWith(r, w, b),
         v.name = w.name, v.loaded = w.loaded, v.pc = "looping", v.todo = w.todo \ {a},
         \/ v.affected = w.affected \cup {a} /\ v.failed = w.failed
         \/ v.affected = w.affected /\ v.failed = w.failed \cup {a}
         \/ v.affected = w.affected /\ v.failed = w.failed,
         Earns(w, a) => a \in v.failed
  PROVE  RunInv(r, v, b)
<1>1. \A c : Earns(v, c) <=> Earns(w, c)
  BY DEF Earns
<1>2. a \in DOMAIN w.loaded /\ \A d \in b : d.writer = r => d.account # a
  BY DEF DealtWith
<1>3. \A d \in b : d.writer = r =>
        /\ d.account \in DOMAIN v.loaded \ v.todo /\ Earns(v, d.account)
        /\ IsProfit(d.amount, OpeningRows[d.account].type, v.loaded[d.account],
                    OpeningRows[d.account].rate)
  BY <1>1, <1>2 DEF DealtWith
<1>4. \A d, f \in b : d.writer = r /\ f.writer = r /\ d.account = f.account => d = f
  BY DEF DealtWith
<1>5. ASSUME NEW c \in DOMAIN v.loaded \ v.todo, Earns(v, c)
      PROVE  \/ c \in v.affected /\ \E d \in b : d.writer = r /\ d.account = c
             \/ c \in v.failed
  <2>1. CASE c = a
    BY <1>1, <1>5, <2>1
  <2>2. CASE c # a
    <3>1. c \in DOMAIN w.loaded \ w.todo /\ Earns(w, c)
      BY <1>1, <1>5, <2>2
    <3> QED
      BY <3>1 DEF DealtWith
  <2> QED
    BY <2>1, <2>2
<1>6. /\ v.todo \subseteq DOMAIN v.loaded /\ v.affected \subseteq DOMAIN v.loaded
      /\ v.failed \subseteq DOMAIN v.loaded
  BY <1>2 DEF DealtWith
<1>7. DealtWith(r, v, b)
  BY <1>3, <1>4, <1>5, <1>6 DEF DealtWith
<1> QED
  BY <1>7 DEF RunInv

\* One run is put to a new place, and the ledger to what that run made of it;
\* the others stay where they are.
LEMMA PutRun ==
  ASSUME JobInv, NEW r \in Runs, NEW v \in [pc : {"idle", "failed"}] \cup Loop,
         run' = [run EXCEPT ![r] = v], RunInv(r, v, book'),
         book' = book \/ \E e \in Entry : book' = book \cup {e} /\ e.writer = r
  PROVE  JobInv'
<1>1. RunShape'
  BY DEF JobInv, RunShape
<1>2. ASSUME NEW q \in Runs PROVE RunInv(q, run[q], book)'
  <2>1. CASE q = r
    <3>1. run'[q] = v
      BY <2>1 DEF JobInv, RunShape
    <3> QED
      BY <2>1, <3>1
  <2>2. CASE q # r
    <3>1. run'[q] = run[q] /\ RunInv(q, run[q], book)
      BY <2>2 DEF JobInv, RunShape
    <3>2. RunInv(q, run[q], book')
      <4>1. CASE book' = book
        BY <3>1, <4>1
      <4>2. CASE \E e \in Entry : book' = book \cup {e} /\ e.writer = r
        BY <2>2, <3>1, <4>2, NotMine
      <4> QED
        BY <4>1, <4>2
    <3> QED
      BY <3>1, <3>2
  <2> QED
    BY <2>1, <2>2
<1> QED
  BY <1>1, <1>2 DEF JobInv

LEMMA RunsKept ==
  ASSUME JobInv, run' = run,
         book' = book \/ \E e \in Entry : book' = book \cup {e} /\ e.writer \notin Runs
  PROVE  JobInv'
<1>1. ASSUME NEW q \in Runs PROVE RunInv(q, run[q], book)'
  <2>1. RunInv(q, run[q], book)
    BY DEF JobInv
  <2>2. RunInv(q, run[q], book')
    <3>1. CASE book' = book
      BY <2>1, <3>1
    <3>2. CASE \E e \in Entry : book' = book \cup {e} /\ e.writer \notin Runs
      BY <2>1, <3>2, NotMine
    <3> QED
      BY <3>1, <3>2
  <2> QED
    BY <2>2
<1>2. RunShape'
  BY DEF JobInv, RunShape
<1> QED
  BY <1>1, <1>2 DEF JobInv

\* Where the updates of Affected, Failed and Skipped, of a report and of a death
\* leave a run.
Stands(v, w, pc, todo, affected, failed) ==
  /\ v \in Loop /\ v.pc = pc /\ v.name = w.name /\ v.loaded = w.loaded
  /\ v.todo = todo /\ v.affected = affected /\ v.failed = failed

LEMMA Looping ==
  ASSUME RunShape, NEW r \in Runs, run[r].pc = "looping"
  PROVE  run[r] \in Loop
BY DEF RunShape

LEMMA GoesAffected ==
  ASSUME RunShape, NEW r \in Runs, run[r].pc = "looping", NEW a \in Accounts,
         Affected(r, a)
  PROVE  \E v : /\ run' = [run EXCEPT ![r] = v]
                /\ Stands(v, run[r], "looping", run[r].todo \ {a},
                          run[r].affected \cup {a}, run[r].failed)
<1> DEFINE w == run[r]  T == w.todo \ {a}  A == w.affected \cup {a}
           v1 == [pc |-> w.pc, name |-> w.name, todo |-> T, loaded |-> w.loaded,
                  affected |-> w.affected, failed |-> w.failed]
           v2 == [pc |-> w.pc, name |-> w.name, todo |-> T, loaded |-> w.loaded,
                  affected |-> A, failed |-> w.failed]
           f1 == [run EXCEPT ![r] = v1]
<1>1. w \in Loop
  BY Looping
<1>2. [w EXCEPT !.todo = T] = v1 /\ [v1 EXCEPT !.affected = A] = v2
  <2> HIDE DEF T, A
  <2>1. [w EXCEPT !.todo = T] = v1
    BY <1>1 DEF Loop
  <2>2. [v1 EXCEPT !.affected = A] = v2
    OBVIOUS
  <2> QED
    BY <2>1, <2>2
<1>3. v2 \in Loop /\ Stands(v2, w, "looping", T, A, w.failed)
  BY <1>1 DEF Loop, Stands
<1>4. v1.affected = w.affected
  OBVIOUS
<1> HIDE DEF v1, v2, T, A
<1>5. [run EXCEPT ![r].todo = T] = f1
  BY <1>2
<1>6. [f1 EXCEPT ![r].affected = A] = [run EXCEPT ![r] = v2]
  BY <1>2
<1>7. run' = [run EXCEPT ![r].todo = T, ![r].affected = A]
  BY DEF Affected, T, A
<1>8. run' = [run EXCEPT ![r] = v2]
  BY <1>5, <1>6, <1>7
<1> HIDE DEF f1
<1> QED
  BY <1>3, <1>8 DEF T, A

LEMMA GoesFailed ==
  ASSUME RunShape, NEW r \in Runs, run[r].pc = "looping", NEW a \in Accounts,
         Failed(r, a)
  PROVE  \E v : /\ run' = [run EXCEPT ![r] = v]
                /\ Stands(v, run[r], "looping", run[r].todo \ {a},
                          run[r].affected, run[r].failed \cup {a})
<1> DEFINE w == run[r]  T == w.todo \ {a}  F == w.failed \cup {a}
           v1 == [pc |-> w.pc, name |-> w.name, todo |-> T, loaded |-> w.loaded,
                  affected |-> w.affected, failed |-> w.failed]
           v2 == [pc |-> w.pc, name |-> w.name, todo |-> T, loaded |-> w.loaded,
                  affected |-> w.affected, failed |-> F]
           f1 == [run EXCEPT ![r] = v1]
<1>1. w \in Loop
  BY Looping
<1>2. [w EXCEPT !.todo = T] = v1 /\ [v1 EXCEPT !.failed = F] = v2
  <2> HIDE DEF T, F
  <2>1. [w EXCEPT !.todo = T] = v1
    BY <1>1 DEF Loop
  <2>2. [v1 EXCEPT !.failed = F] = v2
    OBVIOUS
  <2> QED
    BY <2>1, <2>2
<1>3. v2 \in Loop /\ Stands(v2, w, "looping", T, w.affected, F)
  BY <1>1 DEF Loop, Stands
<1> HIDE DEF v1, v2, T, F
<1>5. [run EXCEPT ![r].todo = T] = f1
  BY <1>2
<1>6. [f1 EXCEPT ![r].failed = F] = [run EXCEPT ![r] = v2]
  BY <1>2
<1>7. run' = [run EXCEPT ![r].todo = T, ![r].failed = F]
  BY DEF Failed, T, F
<1>8. run' = [run EXCEPT ![r] = v2]
  BY <1>5, <1>6, <1>7
<1> HIDE DEF f1
<1> QED
  BY <1>3, <1>8 DEF T, F

LEMMA GoesSkipped ==
  ASSUME RunShape, NEW r \in Runs, run[r].pc = "looping", NEW a \in Accounts,
         Skipped(r, a)
  PROVE  \E v : /\ run' = [run EXCEPT ![r] = v]
                /\ Stands(v, run[r], "looping", run[r].todo \ {a},
                          run[r].affected, run[r].failed)
<1> DEFINE w == run[r]  T == w.todo \ {a}
           v == [pc |-> w.pc, name |-> w.name, todo |-> T, loaded |-> w.loaded,
                 affected |-> w.affected, failed |-> w.failed]
<1>1. w \in Loop
  BY Looping
<1>2. [w EXCEPT !.todo = T] = v
  BY <1>1 DEF Loop
<1>3. Stands(v, w, "looping", T, w.affected, w.failed)
  BY <1>1 DEF Loop, Stands
<1> HIDE DEF v, T
<1>4. run' = [run EXCEPT ![r].todo = T]
  BY DEF Skipped, T
<1>5. run' = [run EXCEPT ![r] = v]
  BY <1>2, <1>4
<1> QED
  BY <1>3, <1>5 DEF T

LEMMA GoesPc ==
  ASSUME RunShape, NEW r \in Runs, run[r].pc = "looping", NEW pc \in {"reported", "dead"},
         run' = [run EXCEPT ![r].pc = pc]
  PROVE  \E v : /\ run' = [run EXCEPT ![r] = v]
                /\ Stands(v, run[r], pc, run[r].todo, run[r].affected, run[r].failed)
<1> DEFINE w == run[r]
           v == [pc |-> pc, name |-> w.name, todo |-> w.todo, loaded |-> w.loaded,
                 affected |-> w.affected, failed |-> w.failed]
<1>1. w \in Loop
  BY Looping
<1>2. [w EXCEPT !.pc = pc] = v
  BY <1>1 DEF Loop
<1>3. Stands(v, w, pc, w.todo, w.affected, w.failed)
  BY <1>1 DEF Loop, Stands
<1> HIDE DEF v
<1>4. run' = [run EXCEPT ![r] = v]
  BY <1>2
<1> QED
  BY <1>3, <1>4

\* A job's batch is loaded: nobody is paid or listed yet.
LEMMA LoadKeeps ==
  ASSUME BookInv, JobInv, NEW r \in Runs, Load(r)
  PROVE  JobInv'
<1>1. run[r].pc = "idle" /\ book' = book
  BY DEF Load
<1>2. \A e \in book : e.writer # r
  BY <1>1 DEF JobInv, RunInv
<1>3. ASSUME NEW name \in JobNames,
             run' = [run EXCEPT ![r] =
               [pc |-> "looping", name |-> name, todo |-> Eligible(name),
                loaded |-> [a \in Eligible(name) |-> rows[a].balance],
                affected |-> {}, failed |-> {}]]
      PROVE  JobInv'
  <2> DEFINE all == Eligible(name)
             loaded == [a \in all |-> rows[a].balance]
             v == [pc |-> "looping", name |-> name, todo |-> all, loaded |-> loaded,
                   affected |-> {}, failed |-> {}]
  <2>1. all \in SUBSET Accounts
    BY DEF Eligible
  <2>2. \A a \in Accounts : rows[a].balance \in Nat
    BY DEF BookInv, Row
  <2> HIDE DEF all
  <2>3. loaded \in [all -> Nat] /\ DOMAIN loaded = all
    BY <2>1, <2>2
  <2>4. loaded \in Balances
    BY <2>1, <2>3 DEF Balances
  <2> HIDE DEF loaded
  <2>5. v \in Loop
    BY <2>1, <2>4 DEF Loop
  <2>6. DealtWith(r, v, book)
    BY <1>2, <2>3 DEF DealtWith
  <2>7. RunInv(r, v, book')
    BY <1>1, <2>6 DEF RunInv
  <2>8. run' = [run EXCEPT ![r] = v]
    BY <1>3 DEF all, loaded
  <2> HIDE DEF v
  <2> QED
    BY <1>1, <2>5, <2>7, <2>8, PutRun
<1>4. ASSUME run' = [run EXCEPT ![r] = [pc |-> "failed"]]
      PROVE  JobInv'
  <2> DEFINE v == [pc |-> "failed"]
  <2>1. v \in [pc : {"idle", "failed"}] /\ RunInv(r, v, book')
    BY <1>1, <1>2 DEF RunInv
  <2>2. run' = [run EXCEPT ![r] = v]
    BY <1>4
  <2> HIDE DEF v
  <2> QED
    BY <1>1, <2>1, <2>2, PutRun
<1> QED
  BY <1>3, <1>4 DEF Load

\* What a run has to pay an account.
LEMMA ProfitOf ==
  ASSUME BookInv, RunShape, NEW r \in Runs, NEW a \in Accounts, Turn(r, a),
         a \in DOMAIN run[r].loaded, run[r].name = "interest-posting"
  PROVE  /\ Profit(r, a) \in Nat
         /\ IsProfit(Profit(r, a), OpeningRows[a].type, run[r].loaded[a], OpeningRows[a].rate)
         /\ Profit(r, a) > 0 <=> Earns(run[r], a)
<1>1. run[r] \in Loop
  BY Looping DEF Turn
<1>2. run[r].loaded[a] \in Nat
  <2>1. run[r].loaded \in Balances
    BY <1>1 DEF Loop
  <2> QED
    BY <2>1 DEF Balances
<1>3. /\ rows[a].type \in Types /\ rows[a].rate \in Nat
      /\ rows[a].type = OpeningRows[a].type /\ rows[a].rate = OpeningRows[a].rate
  BY DEF BookInv, Row
<1> DEFINE n == MonthlyInterest(rows[a].type, run[r].loaded[a], rows[a].rate)
<1>4. /\ n \in Nat
      /\ IsProfit(n, rows[a].type, run[r].loaded[a], rows[a].rate)
      /\ n > 0 <=> ~IsProfit(0, rows[a].type, run[r].loaded[a], rows[a].rate)
  BY <1>2, <1>3, ProfitIs
<1> HIDE DEF n
<1> QED
  BY <1>3, <1>4 DEF Profit, Earns, n

\* The invariants outlive every step of a job.
LEMMA TurnOf ==
  ASSUME JobInv, NEW r \in Runs, NEW a, Turn(r, a)
  PROVE  /\ run[r].pc = "looping" /\ run[r] \in Loop /\ a \in run[r].todo
         /\ a \in Accounts /\ a \in DOMAIN run[r].loaded /\ DealtWith(r, run[r], book)
<1>1. run[r].pc = "looping" /\ a \in run[r].todo /\ run[r] \in Loop
  BY Looping DEF JobInv, Turn
<1>2. DealtWith(r, run[r], book)
  BY <1>1 DEF JobInv, RunInv
<1> QED
  BY <1>1, <1>2 DEF DealtWith, Loop

\* A posting of the job pays what the account earns.
LEMMA PayKeeps ==
  ASSUME BookInv, JobInv, NEW r \in Runs, NEW a \in Accounts, PayInterest(r, a)
  PROVE  JobInv' /\ BookInv'
<1> DEFINE w == run[r]
<1>1. /\ w.pc = "looping" /\ w \in Loop /\ a \in w.todo
      /\ a \in DOMAIN w.loaded /\ DealtWith(r, w, book)
  BY TurnOf DEF PayInterest
<1>2. Turn(r, a) /\ w.name = "interest-posting" /\ Profit(r, a) > 0 /\ RunShape
  BY DEF PayInterest, JobInv
<1>3. /\ Profit(r, a) \in Nat /\ Earns(w, a)
      /\ IsProfit(Profit(r, a), OpeningRows[a].type, w.loaded[a], OpeningRows[a].rate)
  BY <1>1, <1>2, ProfitOf
<1>4. faults' = faults \/ Fault
  BY DEF PayInterest
<1>5. now' = now
  BY DEF PayInterest
<1>6. ASSUME Affected(r, a) \/ Failed(r, a)
      PROVE  \E v : /\ run' = [run EXCEPT ![r] = v]
                    /\ v \in Loop /\ v.pc = "looping" /\ v.name = w.name
                    /\ v.loaded = w.loaded /\ v.todo = w.todo \ {a}
                    /\ \/ v.affected = w.affected \cup {a} /\ v.failed = w.failed
                       \/ v.affected = w.affected /\ v.failed = w.failed \cup {a}
                    /\ Failed(r, a) => \/ Affected(r, a) \/ a \in v.failed
  <2>1. CASE Affected(r, a)
    <3>1. PICK v : /\ run' = [run EXCEPT ![r] = v]
                   /\ Stands(v, w, "looping", w.todo \ {a}, w.affected \cup {a}, w.failed)
      BY <1>1, <1>2, <2>1, GoesAffected
    <3> QED
      BY <2>1, <3>1 DEF Stands
  <2>2. CASE Failed(r, a)
    <3>1. PICK v : /\ run' = [run EXCEPT ![r] = v]
                   /\ Stands(v, w, "looping", w.todo \ {a}, w.affected, w.failed \cup {a})
      BY <1>1, <1>2, <2>2, GoesFailed
    <3> QED
      BY <3>1 DEF Stands
  <2> QED
    BY <1>6, <2>1, <2>2
<1>7. CASE Posts(r, a, Profit(r, a)) /\ (Affected(r, a) \/ Failed(r, a))
  <2>1. r \in Writers /\ Profit(r, a) \in Int
    BY <1>3, NightlyAssumption
  <2>2. /\ rows' \in [Accounts -> Row]
        /\ \A c \in Accounts : /\ rows'[c].type = OpeningRows[c].type
                               /\ rows'[c].rate = OpeningRows[c].rate
        /\ \E e \in Entry :
             /\ book' = book \cup {e} /\ \A d \in book : d.id # e.id
             /\ e.writer = r /\ e.account = a /\ e.amount = Profit(r, a)
    BY <1>7, <2>1, PostsOne
  <2>3. PICK e \in Entry :
             /\ book' = book \cup {e} /\ \A d \in book : d.id # e.id
             /\ e.writer = r /\ e.account = a /\ e.amount = Profit(r, a)
    BY <2>2
  <2>4. BookInv'
    BY <1>4, <1>5, <2>2, <2>3, BookKept
  <2>5. PICK v : /\ run' = [run EXCEPT ![r] = v]
                 /\ v \in Loop /\ v.pc = "looping" /\ v.name = w.name
                 /\ v.loaded = w.loaded /\ v.todo = w.todo \ {a}
                 /\ \/ v.affected = w.affected \cup {a} /\ v.failed = w.failed
                    \/ v.affected = w.affected /\ v.failed = w.failed \cup {a}
    BY <1>6, <1>7
  <2>6. IsProfit(e.amount, OpeningRows[a].type, w.loaded[a], OpeningRows[a].rate)
    BY <1>3, <2>3
  <2> HIDE DEF w
  <2>7. RunInv(r, v, book \cup {e})
    BY <1>1, <1>3, <2>3, <2>5, <2>6, PaidAndDone
  <2>8. RunInv(r, v, book')
    BY <2>3, <2>7
  <2>9. JobInv'
    BY <2>3, <2>5, <2>8, PutRun
  <2> QED
    BY <2>4, <2>9
<1>8. CASE Failed(r, a) /\ UNCHANGED <<rows, book>>
  <2>1. BookInv'
    <3>1. /\ rows' \in [Accounts -> Row] /\ book' = book
          /\ \A c \in Accounts : /\ rows'[c].type = OpeningRows[c].type
                                 /\ rows'[c].rate = OpeningRows[c].rate
      BY <1>8 DEF BookInv
    <3> QED
      BY <1>4, <1>5, <3>1, BookKept
  <2>2. PICK v : /\ run' = [run EXCEPT ![r] = v]
                 /\ Stands(v, w, "looping", w.todo \ {a}, w.affected, w.failed \cup {a})
    BY <1>1, <1>2, <1>8, GoesFailed
  <2>3. /\ v \in Loop /\ v.pc = "looping" /\ v.name = w.name
        /\ v.loaded = w.loaded /\ v.todo = w.todo \ {a}
        /\ v.affected = w.affected /\ v.failed = w.failed \cup {a} /\ a \in v.failed
    BY <2>2 DEF Stands
  <2> HIDE DEF w
  <2>4. RunInv(r, v, book)
    BY <1>1, <2>3, LeftAndDone
  <2>5. JobInv'
    BY <1>8, <2>2, <2>3, <2>4, PutRun
  <2> QED
    BY <2>1, <2>5
<1> QED
  BY <1>7, <1>8 DEF PayInterest

\* The other turns leave the book alone.
LEMMA SameBook ==
  ASSUME BookInv, rows' = rows, book' = book, now' = now, faults' = faults \/ Fault
  PROVE  BookInv'
<1>1. /\ rows' \in [Accounts -> Row] /\ book' = book
      /\ \A c \in Accounts : /\ rows'[c].type = OpeningRows[c].type
                             /\ rows'[c].rate = OpeningRows[c].rate
  BY DEF BookInv
<1> QED
  BY <1>1, BookKept

LEMMA SkipKeeps ==
  ASSUME BookInv, JobInv, NEW r \in Runs, NEW a \in Accounts, NoProfit(r, a)
  PROVE  JobInv' /\ BookInv'
<1> DEFINE w == run[r]
<1>1. /\ w.pc = "looping" /\ w \in Loop /\ a \in w.todo
      /\ a \in DOMAIN w.loaded /\ DealtWith(r, w, book)
  BY TurnOf DEF NoProfit
<1>2. /\ Turn(r, a) /\ w.name = "interest-posting" /\ Profit(r, a) <= 0 /\ RunShape
      /\ Skipped(r, a) /\ UNCHANGED bookVars
  BY DEF NoProfit, JobInv
<1>3. ~Earns(w, a)
  <2>1. Profit(r, a) \in Nat /\ (Profit(r, a) > 0 <=> Earns(w, a))
    BY <1>1, <1>2, ProfitOf
  <2>2. ~(Profit(r, a) > 0)
    BY <1>2, <2>1
  <2> QED
    BY <2>1, <2>2
<1>4. PICK v : /\ run' = [run EXCEPT ![r] = v]
               /\ Stands(v, w, "looping", w.todo \ {a}, w.affected, w.failed)
  BY <1>1, <1>2, GoesSkipped
<1>5. /\ v \in Loop /\ v.pc = "looping" /\ v.name = w.name
      /\ v.loaded = w.loaded /\ v.todo = w.todo \ {a}
      /\ v.affected = w.affected /\ v.failed = w.failed
  BY <1>4 DEF Stands
<1>6. book' = book /\ rows' = rows /\ now' = now /\ faults' = faults
  BY <1>2 DEF bookVars
<1>7. BookInv'
  BY <1>6, SameBook
<1> HIDE DEF w
<1>8. RunInv(r, v, book)
  BY <1>1, <1>3, <1>5, LeftAndDone
<1>9. JobInv'
  BY <1>4, <1>5, <1>6, <1>8, PutRun
<1> QED
  BY <1>7, <1>9

LEMMA ReviewKeeps ==
  ASSUME BookInv, JobInv, NEW r \in Runs, NEW a \in Accounts, Review(r, a)
  PROVE  JobInv' /\ BookInv'
<1> DEFINE w == run[r]
<1>1. /\ w.pc = "looping" /\ w \in Loop /\ a \in w.todo
      /\ a \in DOMAIN w.loaded /\ DealtWith(r, w, book)
  BY TurnOf DEF Review
<1>2. ~Earns(w, a) /\ RunShape
  BY DEF Review, Earns, JobInv
<1>3. book' = book /\ rows' = rows /\ now' = now /\ (faults' = faults \/ Fault)
  BY DEF Review
<1>4. BookInv'
  BY <1>3, SameBook
<1>5. PICK v : /\ run' = [run EXCEPT ![r] = v]
               /\ \/ Stands(v, w, "looping", w.todo \ {a}, w.affected \cup {a}, w.failed)
                  \/ Stands(v, w, "looping", w.todo \ {a}, w.affected, w.failed \cup {a})
                  \/ Stands(v, w, "looping", w.todo \ {a}, w.affected, w.failed)
  <2>1. Affected(r, a) \/ Failed(r, a) \/ Skipped(r, a)
    BY DEF Review
  <2> QED
    BY <1>1, <1>2, <2>1, GoesAffected, GoesFailed, GoesSkipped
<1>6. /\ v \in Loop /\ v.pc = "looping" /\ v.name = w.name
      /\ v.loaded = w.loaded /\ v.todo = w.todo \ {a}
      /\ \/ v.affected = w.affected \cup {a} /\ v.failed = w.failed
         \/ v.affected = w.affected /\ v.failed = w.failed \cup {a}
         \/ v.affected = w.affected /\ v.failed = w.failed
  BY <1>5 DEF Stands
<1> HIDE DEF w
<1>7. RunInv(r, v, book)
  BY <1>1, <1>2, <1>6, LeftAndDone
<1>8. JobInv'
  BY <1>3, <1>5, <1>6, <1>7, PutRun
<1> QED
  BY <1>4, <1>8

\* A run that ends or dies has dealt with what it had dealt with.
LEMMA StopKeeps ==
  ASSUME BookInv, JobInv, NEW r \in Runs, Report(r) \/ Die(r)
  PROVE  JobInv' /\ BookInv'
<1> DEFINE w == run[r]
<1>1. w.pc = "looping" /\ RunShape /\ DealtWith(r, w, book)
  BY DEF Report, Die, JobInv, RunInv
<1>2. book' = book /\ rows' = rows /\ now' = now /\ (faults' = faults \/ Fault)
  BY DEF Report, Die, bookVars
<1>3. BookInv'
  BY <1>2, SameBook
<1>4. PICK pc \in {"reported", "dead"} :
        run' = [run EXCEPT ![r].pc = pc] /\ (pc = "reported" => w.todo = {})
  BY DEF Report, Die
<1>5. PICK v : /\ run' = [run EXCEPT ![r] = v]
               /\ Stands(v, w, pc, w.todo, w.affected, w.failed)
  BY <1>1, <1>4, GoesPc
<1>6. /\ v \in Loop /\ v.pc = pc /\ v.name = w.name
      /\ v.loaded = w.loaded /\ v.todo = w.todo
      /\ v.affected = w.affected /\ v.failed = w.failed
  BY <1>5 DEF Stands
<1> HIDE DEF w
<1>7. DealtWith(r, v, book)
  BY <1>1, <1>4, <1>6 DEF DealtWith, Earns
<1>8. RunInv(r, v, book)
  BY <1>4, <1>6, <1>7 DEF RunInv
<1>9. JobInv'
  BY <1>2, <1>5, <1>6, <1>8, PutRun
<1> QED
  BY <1>3, <1>9

LEMMA JobsKeep ==
  ASSUME BookInv, JobInv, JobNext
  PROVE  JobInv' /\ BookInv'
<1> SUFFICES ASSUME NEW r \in Runs,
                    \/ Load(r) \/ Report(r) \/ Die(r)
                    \/ \E a \in Accounts : PayInterest(r, a) \/ NoProfit(r, a) \/ Review(r, a)
             PROVE  JobInv' /\ BookInv'
  BY DEF JobNext
<1>1. CASE Load(r)
  <2>1. book' = book /\ rows' = rows /\ now' = now /\ (faults' = faults \/ Fault)
    BY <1>1 DEF Load
  <2> QED
    BY <1>1, <2>1, LoadKeeps, SameBook
<1>2. CASE Report(r) \/ Die(r)
  BY <1>2, StopKeeps
<1>3. CASE \E a \in Accounts : PayInterest(r, a) \/ NoProfit(r, a) \/ Review(r, a)
  BY <1>3, PayKeeps, SkipKeeps, ReviewKeeps
<1> QED
  BY <1>1, <1>2, <1>3

-----------------------------------------------------------------------------
(* Pages *)

\* Entries with ids of their own stand in one order.
LEMMA Order ==
  ASSUME NEW S \in SUBSET Entry, \A d, e \in S : d.id = e.id => d = e
  PROVE  /\ \A d, e \in S : d = e \/ Before(d, e) \/ Before(e, d)
         /\ \A d, e \in S : ~(Before(d, e) /\ Before(e, d))
         /\ \A d, e, f \in S : Before(d, e) /\ Before(e, f) => Before(d, f)
<1>1. \A e \in S : e.stamp \in Nat /\ e.id \in Nat
  BY BookAssumption DEF Entry
<1>2. \A d, e \in S : d = e \/ Before(d, e) \/ Before(e, d)
  BY <1>1 DEF Before
<1>3. \A d, e \in S : ~(Before(d, e) /\ Before(e, d))
  BY <1>1 DEF Before
<1>4. \A d, e, f \in S : Before(d, e) /\ Before(e, f) => Before(d, f)
  BY <1>1 DEF Before
<1> QED
  BY <1>2, <1>3, <1>4

\* So there is a first ...
LEMMA SomeFirst ==
  ASSUME NEW S \in SUBSET Entry, \A d, e \in S : d.id = e.id => d = e, S # {}
  PROVE  \E m \in S : \A d \in S : d = m \/ Before(m, d)
<1> DEFINE stamps == {e.stamp : e \in S}
<1>1. \A e \in S : e.stamp \in Nat /\ e.id \in Nat
  BY BookAssumption DEF Entry
<1>2. PICK t \in stamps : \A u \in stamps : t <= u
  <2>1. stamps \in SUBSET Nat /\ stamps # {}
    BY <1>1
  <2> HIDE DEF stamps
  <2> QED
    BY <2>1, LeastNat
<1> DEFINE ids == {e.id : e \in {e \in S : e.stamp = t}}
<1>3. PICK i \in ids : \A j \in ids : i <= j
  <2>1. ids \in SUBSET Nat /\ ids # {}
    BY <1>1, <1>2
  <2> HIDE DEF ids
  <2> QED
    BY <2>1, LeastNat
<1>4. PICK m \in S : m.stamp = t /\ m.id = i
  BY <1>3
<1>5. ASSUME NEW d \in S PROVE d = m \/ Before(m, d)
  <2>1. t <= d.stamp /\ (d.stamp = t => i <= d.id)
    BY <1>2, <1>3
  <2> QED
    BY <1>1, <1>4, <2>1 DEF Before
<1> QED
  BY <1>5

\* ... and, if there are not infinitely many, a last.
LEMMA SomeLast ==
  ASSUME NEW S \in SUBSET Entry, \A d, e \in S : d.id = e.id => d = e, S # {},
         IsFiniteSet(S)
  PROVE  \E m \in S : \A d \in S : d = m \/ Before(d, m)
<1> DEFINE stamps == {e.stamp : e \in S}
<1>1. \A e \in S : e.stamp \in Nat /\ e.id \in Nat
  BY BookAssumption DEF Entry
<1>2. PICK t \in stamps : \A u \in stamps : u <= t
  <2>1. stamps \in SUBSET Nat /\ stamps # {}
    BY <1>1
  <2>2. IsFiniteSet(stamps)
    <3> DEFINE f == [e \in S |-> e.stamp]
    <3>1. DOMAIN f = S /\ stamps = {f[x] : x \in S}
      OBVIOUS
    <3> HIDE DEF f, stamps
    <3> QED
      BY <3>1, FiniteImage
  <2> HIDE DEF stamps
  <2> QED
    BY <2>1, <2>2, GreatestNat
<1> DEFINE at == {e \in S : e.stamp = t}
           ids == {e.id : e \in at}
<1>3. PICK i \in ids : \A j \in ids : j <= i
  <2>1. ids \in SUBSET Nat /\ ids # {}
    BY <1>1, <1>2
  <2>2. IsFiniteSet(at)
    BY FS_Subset
  <2>3. IsFiniteSet(ids)
    <3> DEFINE f == [e \in at |-> e.id]
    <3>1. DOMAIN f = at /\ ids = {f[x] : x \in at}
      OBVIOUS
    <3> HIDE DEF f, ids, at
    <3> QED
      BY <2>2, <3>1, FiniteImage
  <2> HIDE DEF ids
  <2> QED
    BY <2>1, <2>3, GreatestNat
<1>4. PICK m \in S : m.stamp = t /\ m.id = i
  BY <1>3
<1>5. ASSUME NEW d \in S PROVE d = m \/ Before(d, m)
  <2>1. d.stamp <= t /\ (d.stamp = t => d.id <= i)
    BY <1>2, <1>3
  <2> QED
    BY <1>1, <1>4, <2>1 DEF Before
<1> QED
  BY <1>5

\* What lies behind a cursor, and the page that is read of it.
LEMMA PageFacts ==
  ASSUME BookInv, NEW s
  PROVE  /\ PageOf(s) \in SUBSET Behind(s) /\ Behind(s) \in SUBSET Entry
         /\ \A d, e \in Behind(s) : d.id = e.id => d = e
         /\ IsFiniteSet(Behind(s)) /\ IsFiniteSet(PageOf(s))
         /\ PageOf(s) # {} => FirstOf(PageOf(s)) \in PageOf(s)
         /\ PageOf(s) # {} =>
              /\ LastOf(PageOf(s)) \in PageOf(s)
              /\ \A d \in PageOf(s) : d = LastOf(PageOf(s)) \/ Before(d, LastOf(PageOf(s)))
<1>1. PageOf(s) \in SUBSET Behind(s) /\ Behind(s) \in SUBSET book
  BY DEF PageOf, Behind, OfAccount
<1>2. /\ Behind(s) \in SUBSET Entry /\ \A d, e \in Behind(s) : d.id = e.id => d = e
      /\ IsFiniteSet(book)
  BY <1>1 DEF BookInv
<1>3. IsFiniteSet(Behind(s)) /\ IsFiniteSet(PageOf(s))
  BY <1>1, <1>2, FS_Subset
<1> DEFINE page == PageOf(s)
<1>4. /\ page \in SUBSET Entry /\ \A d, e \in page : d.id = e.id => d = e
      /\ IsFiniteSet(page)
  BY <1>1, <1>2, <1>3
<1> HIDE DEF page
<1>5. page # {} => FirstOf(page) \in page
  <2> SUFFICES ASSUME page # {} PROVE FirstOf(page) \in page
    OBVIOUS
  <2>1. \E m \in page : \A d \in page : d = m \/ Before(m, d)
    BY <1>4, SomeFirst
  <2> QED
    BY <2>1 DEF FirstOf
<1>6. page # {} => /\ LastOf(page) \in page
                   /\ \A d \in page : d = LastOf(page) \/ Before(d, LastOf(page))
  <2> SUFFICES ASSUME page # {}
               PROVE  /\ LastOf(page) \in page
                      /\ \A d \in page : d = LastOf(page) \/ Before(d, LastOf(page))
    OBVIOUS
  <2>1. \E m \in page : \A d \in page : d = m \/ Before(d, m)
    BY <1>4, SomeLast
  <2> QED
    BY <2>1 DEF LastOf
<1> QED
  BY <1>1, <1>2, <1>3, <1>5, <1>6 DEF page

\* An entry behind the cursor that the page does not reach: the page is full,
\* and the entry lies behind the page's last one.
LEMMA FullPage ==
  ASSUME BookInv, NEW s, NEW e \in Behind(s) \ PageOf(s)
  PROVE  /\ ~(Cardinality(PageOf(s)) < PageSize) /\ PageOf(s) # {}
         /\ Before(LastOf(PageOf(s)), e)
<1> DEFINE B == Behind(s)  page == PageOf(s)
           ahead(d) == {c \in B : Before(c, d)}
<1>1. /\ page \in SUBSET B /\ B \in SUBSET Entry /\ IsFiniteSet(B) /\ IsFiniteSet(page)
      /\ \A d, f \in B : d.id = f.id => d = f
  BY PageFacts
<1>2. page = {d \in B : Cardinality(ahead(d)) < PageSize}
  BY DEF PageOf
<1>3. \A d \in B : IsFiniteSet(ahead(d)) /\ Cardinality(ahead(d)) \in Nat
  BY <1>1, FS_Subset, FS_CardinalityType
<1>4. /\ \A d, f \in B : d = f \/ Before(d, f) \/ Before(f, d)
      /\ \A d, f, g \in B : Before(d, f) /\ Before(f, g) => Before(d, g)
  BY <1>1, Order
<1>5. ~(Cardinality(page) < PageSize)
  <2> DEFINE rest == B \ page
  <2>1. /\ rest \in SUBSET Entry /\ rest # {}
        /\ \A d, f \in rest : d.id = f.id => d = f
    BY <1>1
  <2>2. PICK m \in rest : \A d \in rest : d = m \/ Before(m, d)
    BY <2>1, SomeFirst
  <2>3. m \in B /\ \A d, f \in B : ~(Before(d, f) /\ Before(f, d))
    BY <1>1, <2>2, Order
  <2>4. ~Before(m, m)
    BY <2>3
  <2>5. ahead(m) \subseteq page
    <3> SUFFICES ASSUME NEW c \in ahead(m), c \notin page PROVE FALSE
      OBVIOUS
    <3>1. c \in rest /\ Before(c, m)
      OBVIOUS
    <3>2. c # m /\ ~Before(m, c)
      BY <2>3, <2>4, <3>1
    <3> QED
      BY <2>2, <3>1, <3>2
  <2>6. ~(Cardinality(ahead(m)) < PageSize)
    BY <1>2, <2>2
  <2>7. Cardinality(ahead(m)) <= Cardinality(page) /\ Cardinality(page) \in Nat
    BY <1>1, <2>5, FS_Subset, FS_CardinalityType
  <2>8. Cardinality(ahead(m)) \in Nat /\ PageSize \in Nat
    BY <1>3, <2>3, HistoryAssumption
  <2> HIDE DEF ahead
  <2> QED
    BY <2>6, <2>7, <2>8
<1>6. page # {}
  <2>1. Cardinality({}) = 0 /\ PageSize \in Nat /\ PageSize # 0
    BY FS_EmptySet, HistoryAssumption
  <2> HIDE DEF page
  <2> QED
    BY <1>5, <2>1
<1> DEFINE last == LastOf(page)
<1>7. last \in page
  BY <1>6, PageFacts
<1> HIDE DEF last
<1>8. Before(last, e)
  <2>1. last \in B /\ e \in B /\ e # last
    BY <1>1, <1>7
  <2>2. ~Before(e, last)
    <3> SUFFICES ASSUME Before(e, last) PROVE FALSE
      OBVIOUS
    <3>1. ahead(e) \subseteq ahead(last)
      BY <1>4, <2>1
    <3>2. Cardinality(ahead(e)) <= Cardinality(ahead(last))
      BY <1>3, <2>1, <3>1, FS_Subset
    <3>3. Cardinality(ahead(last)) < PageSize /\ ~(Cardinality(ahead(e)) < PageSize)
      BY <1>2, <1>7, <2>1
    <3>4. /\ Cardinality(ahead(e)) \in Nat /\ Cardinality(ahead(last)) \in Nat
          /\ PageSize \in Nat
      BY <1>3, <2>1, HistoryAssumption
    <3> HIDE DEF ahead
    <3> QED
      BY <3>2, <3>3, <3>4
  <2> QED
    BY <1>4, <2>1, <2>2
<1> QED
  BY <1>5, <1>6, <1>8 DEF last

\* The cursor stands at the page's last entry or a little before it.
LEMMA CursorBefore ==
  ASSUME BookInv, NEW s, PageOf(s) # {}
  PROVE  /\ CursorAt(PageOf(s)) \in [stamp : Nat, id : Ids]
         /\ \A e \in Behind(s) : Before(LastOf(PageOf(s)), e) => Before(CursorAt(PageOf(s)), e)
<1> DEFINE last == LastOf(PageOf(s))  t == last.stamp
<1>1. last \in Entry
  BY PageFacts
<1>2. t \in Nat /\ last.id \in Ids /\ last.id \in Nat
  BY <1>1, BookAssumption DEF Entry
<1>3. Micros * Millisecond(t) \in Nat /\ Micros * Millisecond(t) <= t
  <2>1. ASSUME NEW x \in Nat, NEW m \in Nat \ {0}
        PROVE  x \div m \in Nat /\ m * (x \div m) <= x /\ m * (x \div m) \in Nat
    OBVIOUS
  <2> QED
    BY <1>2, <2>1, BookAssumption DEF Millisecond
<1> DEFINE cursor == CursorAt(PageOf(s))
<1>4. cursor = [stamp |-> Micros * Millisecond(t), id |-> last.id]
  BY DEF CursorAt
<1> DEFINE c == Micros * Millisecond(t)
<1>5. cursor.stamp = c /\ cursor.id = last.id /\ cursor = [stamp |-> c, id |-> last.id]
  BY <1>4
<1> HIDE DEF c, cursor, last
<1>6. cursor \in [stamp : Nat, id : Ids]
  <2>1. c \in Nat
    BY <1>3 DEF c
  <2> QED
    BY <1>2, <1>5, <2>1
<1>7. ASSUME NEW e \in Behind(s), Before(last, e) PROVE Before(cursor, e)
  <2>1. e.stamp \in Nat /\ e.id \in Nat
    <3>1. e \in Entry
      BY PageFacts
    <3> QED
      BY <3>1, BookAssumption DEF Entry
  <2>2. c \in Nat /\ c <= t
    BY <1>3 DEF c
  <2> QED
    BY <1>2, <1>5, <1>7, <2>1, <2>2 DEF Before
<1> QED
  BY <1>6, <1>7 DEF cursor, last

-----------------------------------------------------------------------------
(* The readers *)

Cursors == {NoCursor} \cup [stamp : Nat, id : Ids]

\* A request that has begun to read.
Reading == [pc : {"reading", "read", "failed"}, account : Accounts, balance : Nat,
            cursor : Cursors, lines : [Ids -> 0 .. 2], first : Ids \cup {0},
            committed : SUBSET Entry]

ReaderShape == reader \in [Readers -> [pc : {"idle"}] \cup Reading]

\* Whatever was there when it began is either handed out or still ahead.
AheadOrOut(w, b) ==
  w.pc # "idle" =>
    /\ w.committed \subseteq b
    /\ \A e \in w.committed :
         /\ e.account = w.account
         /\ w.pc = "reading" => w.lines[e.id] > 0 \/ Before(w.cursor, e)
         /\ w.pc = "read" => w.lines[e.id] > 0

ReaderInv == ReaderShape /\ \A s \in Readers : AheadOrOut(reader[s], book)

\* One request is put to a new place.
LEMMA PutReader ==
  ASSUME ReaderInv, NEW s \in Readers, NEW v \in [pc : {"idle"}] \cup Reading,
         reader' = [reader EXCEPT ![s] = v], AheadOrOut(v, book), book' = book
  PROVE  ReaderInv'
<1>1. ReaderShape'
  BY DEF ReaderInv, ReaderShape
<1>2. ASSUME NEW q \in Readers PROVE AheadOrOut(reader'[q], book')
  <2>1. CASE q = s
    <3>1. reader'[q] = v
      BY <2>1 DEF ReaderInv, ReaderShape
    <3> QED
      BY <3>1
  <2>2. CASE q # s
    <3>1. reader'[q] = reader[q] /\ AheadOrOut(reader[q], book)
      BY <2>2 DEF ReaderInv, ReaderShape
    <3> QED
      BY <3>1
  <2> QED
    BY <2>1, <2>2
<1> QED
  BY <1>1, <1>2 DEF ReaderInv

\* Entries that are added do not disturb the readers.
LEMMA ReadersKept ==
  ASSUME ReaderInv, reader' = reader, book \subseteq book'
  PROVE  ReaderInv'
BY DEF ReaderInv, ReaderShape, AheadOrOut

LEMMA BeginKeeps ==
  ASSUME BookInv, ReaderInv, NEW s \in Readers, BeginReading(s)
  PROVE  ReaderInv'
<1>1. PICK a \in Accounts :
        reader' = [reader EXCEPT ![s] =
          [pc |-> "reading", account |-> a, balance |-> rows[a].balance,
           cursor |-> NoCursor, lines |-> [i \in Ids |-> 0], first |-> 0,
           committed |-> OfAccount(a)]]
  BY DEF BeginReading
<1> DEFINE none == [i \in Ids |-> 0]  balance == rows[a].balance
           there == OfAccount(a)
           v == [pc |-> "reading", account |-> a, balance |-> balance,
                 cursor |-> NoCursor, lines |-> none, first |-> 0, committed |-> there]
<1>2. balance \in Nat /\ none \in [Ids -> 0 .. 2] /\ NoCursor \in Cursors
  BY DEF BookInv, Row, Cursors
<1>3. there \in SUBSET Entry /\ there \subseteq book /\ \A e \in there : e.account = a
  BY DEF OfAccount, BookInv
<1>4. \A e \in there : Before(NoCursor, e)
  <2>1. \A e \in there : e.stamp \in Nat
    BY <1>3 DEF Entry
  <2> QED
    BY <2>1 DEF Before, NoCursor
<1> HIDE DEF none, balance, there
<1>5. v \in Reading
  BY <1>2, <1>3 DEF Reading
<1>6. AheadOrOut(v, book)
  BY <1>3, <1>4 DEF AheadOrOut
<1>7. reader' = [reader EXCEPT ![s] = v] /\ book' = book
  BY <1>1 DEF BeginReading, bookVars, none, balance, there
<1> HIDE DEF v
<1> QED
  BY <1>5, <1>6, <1>7, PutReader

LEMMA FailKeeps ==
  ASSUME ReaderInv, NEW s \in Readers, ReadFails(s)
  PROVE  ReaderInv'
<1> DEFINE w == reader[s]
           v == [pc |-> "failed", account |-> w.account, balance |-> w.balance,
                 cursor |-> w.cursor, lines |-> w.lines, first |-> w.first,
                 committed |-> w.committed]
<1>1. w.pc = "reading" /\ w \in Reading /\ AheadOrOut(w, book) /\ book' = book
  BY DEF ReadFails, ReaderInv, ReaderShape
<1>2. [w EXCEPT !.pc = "failed"] = v /\ v \in Reading
  BY <1>1 DEF Reading
<1>3. AheadOrOut(v, book)
  BY <1>1 DEF AheadOrOut
<1> HIDE DEF v
<1>4. reader' = [reader EXCEPT ![s] = v]
  BY <1>2 DEF ReadFails
<1> QED
  BY <1>1, <1>2, <1>3, <1>4, PutReader

\* What reading a page makes of a request.
SetPage(s, lines, first, cursor, pc) ==
  reader' = [reader EXCEPT ![s].lines = lines, ![s].first = first,
                           ![s].cursor = cursor, ![s].pc = pc]

LEMMA PageRead ==
  ASSUME ReaderInv, NEW s \in Readers, NEW lines, NEW first, NEW cursor, NEW pc,
         reader[s].pc = "reading", SetPage(s, lines, first, cursor, pc)
  PROVE  reader' = [reader EXCEPT ![s] =
           [pc |-> pc, account |-> reader[s].account, balance |-> reader[s].balance,
            cursor |-> cursor, lines |-> lines, first |-> first,
            committed |-> reader[s].committed]]
<1> DEFINE w == reader[s]
           at(p, c, l, f) == [pc |-> p, account |-> w.account, balance |-> w.balance,
                              cursor |-> c, lines |-> l, first |-> f,
                              committed |-> w.committed]
           v1 == at(w.pc, w.cursor, lines, w.first)
           v2 == at(w.pc, w.cursor, lines, first)
           v3 == at(w.pc, cursor, lines, first)
           v4 == at(pc, cursor, lines, first)
           f1 == [reader EXCEPT ![s] = v1]
           f2 == [reader EXCEPT ![s] = v2]
           f3 == [reader EXCEPT ![s] = v3]
<1>1. w \in Reading /\ reader \in [Readers -> [pc : {"idle"}] \cup Reading]
  BY DEF ReaderInv, ReaderShape
<1>2. [w EXCEPT !.lines = lines] = v1
  BY <1>1 DEF Reading
<1>3. [v1 EXCEPT !.first = first] = v2
  OBVIOUS
<1>4. [v2 EXCEPT !.cursor = cursor] = v3
  OBVIOUS
<1>5. [v3 EXCEPT !.pc = pc] = v4
  OBVIOUS
<1> HIDE DEF v1, v2, v3, v4, w
<1>6. [reader EXCEPT ![s].lines = lines] = f1
  BY <1>2 DEF w
<1>7. [f1 EXCEPT ![s].first = first] = f2
  BY <1>1, <1>3
<1>8. [f2 EXCEPT ![s].cursor = cursor] = f3
  BY <1>1, <1>4
<1>9. [f3 EXCEPT ![s].pc = pc] = [reader EXCEPT ![s] = v4]
  BY <1>1, <1>5
<1>10. reader' = [reader EXCEPT ![s] = v4]
  <2> HIDE DEF f1, f2, f3
  <2> QED
    BY <1>6, <1>7, <1>8, <1>9 DEF SetPage
<1> QED
  BY <1>10 DEF v4, w

\* A page hands out what it holds; what it does not reach is still ahead.
LEMMA PageKeeps ==
  ASSUME BookInv, ReaderInv, NEW s \in Readers, ReadPage(s)
  PROVE  ReaderInv'
<1> DEFINE w == reader[s]  page == PageOf(s)
           lines == [i \in Ids |-> IF \E e \in page : e.id = i
                                   THEN Lesser(2, w.lines[i] + 1) ELSE w.lines[i]]
           first == IF w.first = 0 /\ page # {} THEN FirstOf(page).id ELSE w.first
           cursor == IF page # {} THEN CursorAt(page) ELSE w.cursor
           pc == IF Cardinality(page) < PageSize THEN "read" ELSE w.pc
           v == [pc |-> pc, account |-> w.account, balance |-> w.balance,
                 cursor |-> cursor, lines |-> lines, first |-> first,
                 committed |-> w.committed]
<1>1. /\ w.pc = "reading" /\ w \in Reading /\ AheadOrOut(w, book) /\ book' = book
      /\ reader \in [Readers -> [pc : {"idle"}] \cup Reading]
  BY DEF ReadPage, ReaderInv, ReaderShape, bookVars
<1>2. SetPage(s, lines, first, cursor, pc)
  BY DEF ReadPage, SetPage
<1>3. \A i \in Ids : w.lines[i] \in 0 .. 2
  BY <1>1 DEF Reading
<1>4. lines \in [Ids -> 0 .. 2] /\ \A i \in Ids : w.lines[i] > 0 => lines[i] > 0
  <2>1. \A n \in 0 .. 2 : Lesser(2, n + 1) \in 1 .. 2
    BY DEF Lesser
  <2> HIDE DEF w, page
  <2> QED
    BY <1>3, <2>1
<1>5. \A e \in page : e.id \in Ids /\ lines[e.id] > 0
  <2>1. \A n \in 0 .. 2 : Lesser(2, n + 1) \in 1 .. 2
    BY DEF Lesser
  <2>2. \A e \in page : e.id \in Ids
    BY PageFacts DEF Entry
  <2> HIDE DEF w, page
  <2> QED
    BY <1>3, <2>1, <2>2
<1>6. first \in Ids \cup {0}
  <2>1. w.first \in Ids \cup {0}
    BY <1>1 DEF Reading
  <2>2. page # {} => FirstOf(page).id \in Ids
    BY <1>5, PageFacts
  <2> HIDE DEF w, page
  <2> QED
    BY <2>1, <2>2
<1>7. cursor \in Cursors
  <2>1. w.cursor \in Cursors
    BY <1>1 DEF Reading
  <2>2. page # {} => CursorAt(page) \in [stamp : Nat, id : Ids]
    BY CursorBefore
  <2> HIDE DEF w, page
  <2> QED
    BY <2>1, <2>2 DEF Cursors
<1>8. pc \in {"reading", "read"}
  BY <1>1
<1>9. ASSUME NEW e \in w.committed
      PROVE  /\ pc = "reading" => lines[e.id] > 0 \/ Before(cursor, e)
             /\ pc = "read" => lines[e.id] > 0
  <2>1. /\ e.account = w.account /\ e \in book
        /\ w.lines[e.id] > 0 \/ Before(w.cursor, e)
    BY <1>1 DEF AheadOrOut
  <2>2. e.id \in Ids
    BY <2>1 DEF BookInv, Entry
  <2>3. CASE w.lines[e.id] > 0
    BY <1>4, <2>2, <2>3
  <2>4. CASE e \in page
    BY <1>5, <2>4
  <2>5. CASE Before(w.cursor, e) /\ e \notin page
    <3>1. e \in Behind(s)
      BY <2>1, <2>5 DEF Behind, OfAccount
    <3>2. /\ ~(Cardinality(page) < PageSize) /\ page # {} /\ Before(LastOf(page), e)
      BY <2>5, <3>1, FullPage
    <3>3. Before(CursorAt(page), e)
      BY <3>1, <3>2, CursorBefore
    <3> HIDE DEF page, lines
    <3> QED
      BY <1>1, <3>2, <3>3
  <2> QED
    BY <2>1, <2>3, <2>4, <2>5
<1> HIDE DEF lines, first, cursor, pc, page
<1>10. v \in Reading
  <2>1. /\ w.account \in Accounts /\ w.balance \in Nat /\ w.committed \in SUBSET Entry
    BY <1>1 DEF Reading
  <2> QED
    BY <1>4, <1>6, <1>7, <1>8, <2>1 DEF Reading
<1>11. AheadOrOut(v, book)
  BY <1>1, <1>9 DEF AheadOrOut
<1>12. reader' = [reader EXCEPT ![s] = v]
  BY <1>1, <1>2, PageRead
<1> HIDE DEF v
<1> QED
  BY <1>1, <1>10, <1>11, <1>12, PutReader

-----------------------------------------------------------------------------
(* The night *)

NightlyInv ==
  BookInv /\ JobInv /\ ReaderInv /\ moves \in 0 .. MaxMoves

LEMMA NightBegins ==
  ASSUME Init
  PROVE  NightlyInv
<1>1. /\ rows = OpeningRows /\ book \in OpeningBooks /\ now = FirstTick /\ faults = 0
      /\ run = [r \in Runs |-> [pc |-> "idle"]]
      /\ reader = [s \in Readers |-> [pc |-> "idle"]] /\ moves = 0
  BY DEF Init, BookInit, JobInit, ReaderInit
<1>2. BookInv
  <2>1. rows \in [Accounts -> Row] /\ FirstTick \in FirstTick .. LastTick
    BY <1>1, BookAssumption
  <2>2. faults \in 0 .. MaxFaults
    BY <1>1, BookAssumption
  <2>3. /\ book \subseteq Entry /\ IsFiniteSet(book)
        /\ \A d, e \in book : d.id = e.id => d = e
    BY <1>1, BookAssumption
  <2> QED
    BY <1>1, <2>1, <2>2, <2>3 DEF BookInv
<1>3. JobInv
  <2>1. \A e \in book : e.writer \notin Runs
    BY <1>1, NightlyAssumption
  <2>2. \A r \in Runs : run[r].pc = "idle"
    BY <1>1
  <2>3. \A r \in Runs : RunInv(r, run[r], book)
    BY <2>1, <2>2 DEF RunInv
  <2>4. RunShape
    BY <1>1 DEF RunShape
  <2> QED
    BY <2>3, <2>4 DEF JobInv
<1>4. ReaderInv
  BY <1>1 DEF ReaderInv, ReaderShape, AheadOrOut
<1> QED
  BY <1>1, <1>2, <1>3, <1>4, NightlyAssumption DEF NightlyInv

\* A job only adds entries to what the readers see.
LEMMA JobsAdd ==
  ASSUME BookInv, JobNext
  PROVE  book \subseteq book'
<1> SUFFICES ASSUME NEW r \in Runs,
                    \/ Load(r) \/ Report(r) \/ Die(r)
                    \/ \E a \in Accounts : PayInterest(r, a) \/ NoProfit(r, a) \/ Review(r, a)
             PROVE  book \subseteq book'
  BY DEF JobNext
<1>1. CASE Load(r) \/ Report(r) \/ Die(r)
  BY <1>1 DEF Load, Report, Die, bookVars
<1>2. ASSUME NEW a \in Accounts, PayInterest(r, a) PROVE book \subseteq book'
  BY <1>2 DEF PayInterest, Posts
<1>3. ASSUME NEW a \in Accounts, NoProfit(r, a) \/ Review(r, a)
      PROVE  book \subseteq book'
  BY <1>3 DEF NoProfit, Review, bookVars
<1> QED
  BY <1>1, <1>2, <1>3

LEMMA NightGoesOn ==
  ASSUME NightlyInv, [Next]_vars
  PROVE  NightlyInv'
<1> USE DEF NightlyInv
<1>1. CASE JobNext /\ UNCHANGED <<reader, moves>>
  BY <1>1, JobsKeep, JobsAdd, ReadersKept
<1>2. CASE ReaderNext /\ UNCHANGED <<run, moves>>
  <2>1. book' = book /\ rows' = rows /\ now' = now /\ (faults' = faults \/ Fault)
    BY <1>2 DEF ReaderNext, BeginReading, ReadPage, ReadFails, bookVars
  <2>2. BookInv'
    BY <2>1, SameBook
  <2>3. JobInv'
    BY <1>2, <2>1, RunsKept
  <2>4. ReaderInv'
    BY <1>2, BeginKeeps, PageKeeps, FailKeeps DEF ReaderNext
  <2> QED
    BY <1>2, <2>2, <2>3, <2>4
<1>3. CASE Tick
  <2>1. /\ rows' \in [Accounts -> Row] /\ book' = book
        /\ \A c \in Accounts : /\ rows'[c].type = OpeningRows[c].type
                               /\ rows'[c].rate = OpeningRows[c].rate
    BY <1>3 DEF Tick, BookInv
  <2>2. BookInv'
    BY <1>3, <2>1, BookKept DEF Tick
  <2>3. JobInv' /\ ReaderInv'
    BY <1>3, RunsKept, ReadersKept DEF Tick
  <2> QED
    BY <1>3, <2>2, <2>3 DEF Tick
<1>4. ASSUME NEW a \in Accounts, NEW amount \in Moves, Move(a, amount)
      PROVE  NightlyInv'
  <2>1. Posts(Customers, a, amount) /\ Customers \in Writers /\ amount \in Int
    BY <1>4, NightlyAssumption DEF Move
  <2>2. /\ rows' \in [Accounts -> Row]
        /\ \A c \in Accounts : /\ rows'[c].type = OpeningRows[c].type
                               /\ rows'[c].rate = OpeningRows[c].rate
        /\ \E e \in Entry :
             /\ book' = book \cup {e} /\ \A d \in book : d.id # e.id
             /\ e.writer = Customers /\ e.account = a /\ e.amount = amount
    BY <2>1, PostsOne
  <2>3. BookInv'
    BY <1>4, <2>2, BookKept DEF Move
  <2>4. JobInv'
    BY <1>4, <2>2, RunsKept, NightlyAssumption DEF Move
  <2>5. ReaderInv'
    BY <1>4, <2>2, ReadersKept DEF Move
  <2>6. moves' \in 0 .. MaxMoves
    BY <1>4, NightlyAssumption DEF Move
  <2> QED
    BY <2>3, <2>4, <2>5, <2>6
<1>5. ASSUME NEW a \in Accounts, NEW action \in StatusActions, ChangeStatus(a, action)
      PROVE  NightlyInv'
  <2>1. StatusAfter[action] \in Statuses
    BY DEF StatusAfter, Statuses, StatusActions
  <2>2. rows' = [rows EXCEPT ![a].status = StatusAfter[action]]
    BY <1>5 DEF ChangeStatus
  <2>3. /\ rows' \in [Accounts -> Row]
        /\ \A c \in Accounts : /\ rows'[c].type = OpeningRows[c].type
                               /\ rows'[c].rate = OpeningRows[c].rate
    BY <2>1, <2>2, RowChanges
  <2>4. BookInv'
    BY <1>5, <2>3, BookKept DEF ChangeStatus
  <2>5. JobInv' /\ ReaderInv'
    BY <1>5, RunsKept, ReadersKept DEF ChangeStatus
  <2>6. moves' \in 0 .. MaxMoves
    BY <1>5, NightlyAssumption DEF ChangeStatus
  <2> QED
    BY <2>4, <2>5, <2>6
<1>6. CASE Done \/ UNCHANGED vars
  <2>1. /\ rows' = rows /\ book' = book /\ now' = now /\ faults' = faults
        /\ run' = run /\ reader' = reader /\ moves' = moves
    BY <1>6 DEF Done, vars, bookVars
  <2> QED
    BY <2>1, SameBook, RunsKept, ReadersKept
<1> QED
  BY <1>1, <1>2, <1>3, <1>4, <1>5, <1>6 DEF Next

LEMMA NightStays == Spec => []NightlyInv
<1>1. Init => NightlyInv
  BY NightBegins
<1>2. NightlyInv /\ [Next]_vars => NightlyInv'
  BY NightGoesOn
<1> QED
  BY <1>1, <1>2, PTL DEF Spec

LEMMA NightTypes ==
  ASSUME NightlyInv
  PROVE  TypeOK
<1>1. ASSUME NEW r \in Runs
      PROVE  \/ run[r] \in [pc : {"idle", "failed"}]
             \/ /\ run[r].pc \in {"looping", "reported", "dead"}
                /\ run[r].name \in JobNames
                /\ run[r].loaded \in [DOMAIN run[r].loaded -> Nat]
                /\ DOMAIN run[r].loaded \subseteq Accounts
                /\ {run[r].todo, run[r].affected, run[r].failed}
                     \subseteq SUBSET DOMAIN run[r].loaded
  <2>1. run[r] \in [pc : {"idle", "failed"}] \cup Loop /\ RunInv(r, run[r], book)
    BY DEF NightlyInv, JobInv, RunShape
  <2>2. CASE run[r] \in Loop
    <3> DEFINE w == run[r]
    <3>1. w.pc \in {"looping", "reported", "dead"} /\ w.name \in JobNames
      BY <2>2 DEF Loop
    <3>2. w.loaded \in Balances
      BY <2>2 DEF Loop
    <3>3. PICK D \in SUBSET Accounts : w.loaded \in [D -> Nat]
      BY <3>2 DEF Balances
    <3>4. w.loaded \in [DOMAIN w.loaded -> Nat] /\ DOMAIN w.loaded \subseteq Accounts
      BY <3>3
    <3>5. {w.todo, w.affected, w.failed} \subseteq SUBSET DOMAIN w.loaded
      BY <2>1, <3>1 DEF RunInv, DealtWith
    <3> HIDE DEF w
    <3> QED
      BY <3>1, <3>4, <3>5 DEF w
  <2> QED
    BY <2>1, <2>2
<1>2. ASSUME NEW s \in Readers
      PROVE  \/ reader[s].pc = "idle"
             \/ /\ reader[s].pc \in {"reading", "read", "failed"}
                /\ reader[s].account \in Accounts /\ reader[s].balance \in Nat
                /\ reader[s].cursor \in {NoCursor} \cup [stamp : Nat, id : Ids]
                /\ reader[s].lines \in [Ids -> 0 .. 2]
                /\ reader[s].first \in Ids \cup {0}
                /\ reader[s].committed \subseteq book
  <2>1. reader[s] \in [pc : {"idle"}] \cup Reading /\ AheadOrOut(reader[s], book)
    BY DEF NightlyInv, ReaderInv, ReaderShape
  <2>2. CASE reader[s] \in Reading
    <3> DEFINE w == reader[s]
    <3>1. /\ w.pc \in {"reading", "read", "failed"} /\ w.account \in Accounts
          /\ w.balance \in Nat /\ w.cursor \in Cursors /\ w.lines \in [Ids -> 0 .. 2]
          /\ w.first \in Ids \cup {0}
      BY <2>2 DEF Reading
    <3>2. w.committed \subseteq book
      BY <2>1, <3>1 DEF AheadOrOut
    <3> HIDE DEF w
    <3> QED
      BY <3>1, <3>2 DEF w, Cursors
  <2> QED
    BY <2>1, <2>2
<1>3. rows \in [Accounts -> Row] /\ book \subseteq Entry /\ faults \in 0 .. MaxFaults
  BY DEF NightlyInv, BookInv
<1>4. now \in 0 .. LastTick /\ moves \in 0 .. MaxMoves
  BY BookAssumption DEF NightlyInv, BookInv
<1>5. JobTypeOK
  BY <1>1 DEF JobTypeOK
<1>6. ReaderTypeOK
  BY <1>2 DEF ReaderTypeOK
<1> QED
  BY <1>3, <1>4, <1>5, <1>6 DEF TypeOK

\* Whatever jobs, readers and customers do, every variable keeps its type: no
\* balance goes below zero and no run lists an account it did not load.
THEOREM NightlyTyped == Spec => []TypeOK
<1>1. NightlyInv => TypeOK
  BY NightTypes
<1> QED
  BY <1>1, NightStays, PTL

\* EndOfDayJob.run: a run that reports has paid every account it loaded its
\* month's profit, once, or has listed it among the failures.
THEOREM BatchDealsWithAll == Spec => []EveryAccountDealtWith
<1>1. ASSUME NightlyInv PROVE EveryAccountDealtWith
  <2> SUFFICES ASSUME NEW r \in Runs, run[r].pc \in {"looping", "reported", "dead"}
               PROVE  LET paid(a) == {e \in book : e.writer = r /\ e.account = a}
                          earns(a) == run[r].name = "interest-posting" /\
                            ~IsProfit(0, rows[a].type, run[r].loaded[a], rows[a].rate)
                      IN  /\ \A a \in DOMAIN run[r].loaded :
                               /\ Cardinality(paid(a)) <= 1
                               /\ \A e \in paid(a) : earns(a) /\
                                    IsProfit(e.amount, rows[a].type, run[r].loaded[a],
                                             rows[a].rate)
                               /\ run[r].pc = "reported" /\ earns(a) =>
                                    \/ a \in run[r].affected /\ paid(a) # {}
                                    \/ a \in run[r].failed
                          /\ \A e \in book : e.writer = r => e.account \in DOMAIN run[r].loaded
    BY DEF EveryAccountDealtWith
  <2> DEFINE paid(a) == {e \in book : e.writer = r /\ e.account = a}
             earns(a) == run[r].name = "interest-posting" /\
                         ~IsProfit(0, rows[a].type, run[r].loaded[a], rows[a].rate)
  <2>1. DealtWith(r, run[r], book) /\ IsFiniteSet(book)
    BY <1>1 DEF NightlyInv, JobInv, RunInv, BookInv
  <2>2. DOMAIN run[r].loaded \subseteq Accounts
    <3>1. run[r] \in Loop
      BY <1>1 DEF NightlyInv, JobInv, RunShape
    <3>2. run[r].loaded \in Balances
      BY <3>1 DEF Loop
    <3> QED
      BY <3>2 DEF Balances
  <2>3. \A a \in Accounts : rows[a].type = OpeningRows[a].type /\ rows[a].rate = OpeningRows[a].rate
    BY <1>1 DEF NightlyInv, BookInv
  <2>4. \A a \in DOMAIN run[r].loaded : earns(a) <=> Earns(run[r], a)
    BY <2>2, <2>3 DEF Earns
  <2>5. ASSUME NEW a \in DOMAIN run[r].loaded PROVE Cardinality(paid(a)) <= 1
    <3>1. \A d, e \in paid(a) : d = e
      BY <2>1 DEF DealtWith
    <3>2. CASE paid(a) = {}
      BY <3>2, FS_EmptySet
    <3>3. CASE paid(a) # {}
      <4>1. PICK e : e \in paid(a)
        BY <3>3
      <4>2. paid(a) = {e}
        BY <3>1, <4>1
      <4>3. Cardinality({e}) = 1
        BY FS_Singleton
      <4> QED
        BY <4>2, <4>3
    <3> QED
      BY <3>2, <3>3
  <2>6. ASSUME NEW a \in DOMAIN run[r].loaded, NEW e \in paid(a)
        PROVE  earns(a) /\
               IsProfit(e.amount, rows[a].type, run[r].loaded[a], rows[a].rate)
    <3>1. Earns(run[r], a)
      BY <2>1 DEF DealtWith
    <3>2. IsProfit(e.amount, OpeningRows[a].type, run[r].loaded[a], OpeningRows[a].rate)
      BY <2>1 DEF DealtWith
    <3> QED
      BY <2>2, <2>3, <2>4, <3>1, <3>2
  <2>7. ASSUME NEW a \in DOMAIN run[r].loaded, run[r].pc = "reported", earns(a)
        PROVE  \/ a \in run[r].affected /\ paid(a) # {}
               \/ a \in run[r].failed
    <3>1. Earns(run[r], a) /\ a \in DOMAIN run[r].loaded \ run[r].todo
      BY <2>1, <2>4, <2>7 DEF DealtWith
    <3>2. \/ a \in run[r].affected /\ \E e \in book : e.writer = r /\ e.account = a
          \/ a \in run[r].failed
      BY <2>1, <3>1 DEF DealtWith
    <3> QED
      BY <3>2
  <2>8. \A e \in book : e.writer = r => e.account \in DOMAIN run[r].loaded
    BY <2>1 DEF DealtWith
  <2> HIDE DEF paid, earns
  <2>9. /\ \A a \in DOMAIN run[r].loaded :
             /\ Cardinality(paid(a)) <= 1
             /\ \A e \in paid(a) : earns(a) /\
                  IsProfit(e.amount, rows[a].type, run[r].loaded[a], rows[a].rate)
             /\ run[r].pc = "reported" /\ earns(a) =>
                  \/ a \in run[r].affected /\ paid(a) # {}
                  \/ a \in run[r].failed
        /\ \A e \in book : e.writer = r => e.account \in DOMAIN run[r].loaded
    BY <2>5, <2>6, <2>7, <2>8
  <2> QED
    BY <2>9 DEF paid, earns
<1> QED
  BY <1>1, NightStays, PTL

\* LedgerHistoryIterator: what was committed when a reader began is handed out
\* by the time it has read everything, wherever the pages end and although the
\* cursor forgets the fraction of a millisecond.
THEOREM ReadersMissNothing == Spec => []NothingSkipped
<1>1. ASSUME NightlyInv PROVE NothingSkipped
  <2> SUFFICES ASSUME NEW s \in Readers, reader[s].pc = "read"
               PROVE  reader[s].committed \subseteq HandedOut(s)
    BY DEF NothingSkipped
  <2>1. AheadOrOut(reader[s], book)
    BY <1>1 DEF NightlyInv, ReaderInv
  <2> QED
    BY <2>1 DEF AheadOrOut, HandedOut
<1> QED
  BY <1>1, NightStays, PTL

-----------------------------------------------------------------------------
(* The statements *)

AmountOf == [e \in Entry |-> e.amount]

\* The fold adds the amounts up.
LEMMA SumTotal ==
  ASSUME NEW S \in SUBSET Entry, IsFiniteSet(S)
  PROVE  MapThenSumSet(LAMBDA e : e.amount, S) = Total(AmountOf, S)
<1> DEFINE P(f) == f = [s \in SUBSET S |-> IF s = {} THEN 0
                                           ELSE One(s).amount + f[s \ {One(s)}]]
           iter == CHOOSE f : P(f)
<1>1. MapThenSumSet(LAMBDA e : e.amount, S) = iter[S]
  BY DEF MapThenSumSet, MapThenFoldSet, One
<1>2. ASSUME NEW f PROVE P(f) <=> Adds(f, AmountOf, S)
  <2> DEFINE h == [s \in SUBSET S |-> IF s = {} THEN 0
                                      ELSE One(s).amount + f[s \ {One(s)}]]
             k == [s \in SUBSET S |-> IF s = {} THEN 0
                                      ELSE AmountOf[One(s)] + f[s \ {One(s)}]]
  <2>1. ASSUME NEW s \in SUBSET S, s # {} PROVE AmountOf[One(s)] = One(s).amount
    <3>1. One(s) \in Entry
      BY <2>1, OneIn
    <3> QED
      BY <3>1 DEF AmountOf
  <2>2. h = k
    BY <2>1
  <2>3. P(f) <=> f = h
    OBVIOUS
  <2>4. Adds(f, AmountOf, S) <=> f = k
    BY DEF Adds
  <2> HIDE DEF h, k, P
  <2> QED
    BY <2>2, <2>3, <2>4
<1> HIDE DEF P
<1>3. PICK f : Adds(f, AmountOf, S)
  BY AddsExists
<1>4. P(f)
  BY <1>2, <1>3
<1>5. P(iter)
  BY <1>4
<1> HIDE DEF iter
<1>6. Adds(iter, AmountOf, S)
  BY <1>2, <1>5
<1>7. iter[S] = Total(AmountOf, S)
  BY <1>6, TotalAdds
<1> QED
  BY <1>1, <1>7

\* Each line of a statement counts as often as it is handed out.
TimesOf(n) == [e \in Entry |-> n[e.id] * e.amount]

LEMMA LinesTotal ==
  ASSUME NEW n, NEW S \in SUBSET Entry, IsFiniteSet(S)
  PROVE  MapThenSumSet(LAMBDA e : n[e.id] * e.amount, S) = Total(TimesOf(n), S)
<1> DEFINE g == TimesOf(n)
           P(f) == f = [s \in SUBSET S |-> IF s = {} THEN 0
                          ELSE n[One(s).id] * One(s).amount + f[s \ {One(s)}]]
           iter == CHOOSE f : P(f)
<1>1. MapThenSumSet(LAMBDA e : n[e.id] * e.amount, S) = iter[S]
  BY DEF MapThenSumSet, MapThenFoldSet, One
<1>2. ASSUME NEW f PROVE P(f) <=> Adds(f, g, S)
  <2> DEFINE h == [s \in SUBSET S |-> IF s = {} THEN 0
                     ELSE n[One(s).id] * One(s).amount + f[s \ {One(s)}]]
             k == [s \in SUBSET S |-> IF s = {} THEN 0
                     ELSE g[One(s)] + f[s \ {One(s)}]]
  <2>1. ASSUME NEW s \in SUBSET S, s # {} PROVE g[One(s)] = n[One(s).id] * One(s).amount
    <3>1. One(s) \in Entry
      BY <2>1, OneIn
    <3> QED
      BY <3>1 DEF TimesOf
  <2> HIDE DEF g
  <2>2. h = k
    BY <2>1
  <2>3. P(f) <=> f = h
    OBVIOUS
  <2>4. Adds(f, g, S) <=> f = k
    BY DEF Adds
  <2> HIDE DEF h, k, P
  <2> QED
    BY <2>2, <2>3, <2>4
<1> HIDE DEF P, g
<1>3. PICK f : Adds(f, g, S)
  BY AddsExists
<1>4. P(f)
  BY <1>2, <1>3
<1>5. P(iter)
  BY <1>4
<1> HIDE DEF iter
<1>6. Adds(iter, g, S)
  BY <1>2, <1>5
<1>7. iter[S] = Total(g, S)
  BY <1>6, TotalAdds
<1> QED
  BY <1>1, <1>7 DEF g

LEMMA AmountsInt ==
  ASSUME NEW S \in SUBSET Entry, IsFiniteSet(S)
  PROVE  /\ \A e \in S : AmountOf[e] = e.amount /\ AmountOf[e] \in Int
         /\ Total(AmountOf, S) \in Int
<1>1. \A e \in S : AmountOf[e] = e.amount /\ AmountOf[e] \in Int
  BY DEF AmountOf, Entry
<1> QED
  BY <1>1, TotalInt

CreditsOf(n, C) == MapThenSumSet(LAMBDA e : n[e.id] * e.amount, {e \in C : e.amount > 0})
DebitsOf(n, C)  == MapThenSumSet(LAMBDA e : n[e.id] * e.amount, {e \in C : e.amount < 0})

\* Handed out once each, the lines of a statement move what its entries did.
LEMMA LinesOnce ==
  ASSUME NEW n, NEW C \in SUBSET Entry, IsFiniteSet(C), \A e \in C : n[e.id] = 1
  PROVE  /\ CreditsOf(n, C) + DebitsOf(n, C) = Total(AmountOf, C)
         /\ CreditsOf(n, C) \in Int /\ DebitsOf(n, C) \in Int
<1> DEFINE up == {e \in C : e.amount > 0}  down == {e \in C : e.amount < 0}
           flat == {e \in C : e.amount = 0}
<1>1. /\ IsFiniteSet(up) /\ IsFiniteSet(down) /\ IsFiniteSet(flat)
      /\ IsFiniteSet(up \cup down)
  BY FS_Subset
<1>2. C = (up \cup down) \cup flat
  BY DEF Entry
<1>3. \A e \in C : e.amount \in Int /\ AmountOf[e] = e.amount /\ TimesOf(n)[e] = AmountOf[e]
  <2> SUFFICES ASSUME NEW e \in C
               PROVE  e.amount \in Int /\ AmountOf[e] = e.amount /\ TimesOf(n)[e] = AmountOf[e]
    OBVIOUS
  <2>1. e.amount \in Int /\ AmountOf[e] = e.amount
    BY DEF AmountOf, Entry
  <2>2. TimesOf(n)[e] = n[e.id] * e.amount /\ n[e.id] = 1
    BY DEF TimesOf
  <2> QED
    BY <2>1, <2>2
<1>4. /\ up \cap down = {} /\ (up \cup down) \cap flat = {}
      /\ up \subseteq C /\ down \subseteq C /\ flat \subseteq C
  BY <1>3
<1>5. \A e \in flat : AmountOf[e] = 0
  BY <1>3
<1>6. Total(AmountOf, flat) = 0
  BY <1>1, <1>5, TotalZero
<1> HIDE DEF up, down, flat
<1>7. /\ MapThenSumSet(LAMBDA e : n[e.id] * e.amount, up) = Total(TimesOf(n), up)
      /\ MapThenSumSet(LAMBDA e : n[e.id] * e.amount, down) = Total(TimesOf(n), down)
  <2>1. up \in SUBSET Entry /\ down \in SUBSET Entry
    BY <1>4
  <2> QED
    BY <1>1, <2>1, LinesTotal
<1>8. /\ Total(TimesOf(n), up) = Total(AmountOf, up)
      /\ Total(TimesOf(n), down) = Total(AmountOf, down)
  <2>1. /\ \A x \in up : TimesOf(n)[x] \in Int /\ TimesOf(n)[x] = AmountOf[x]
        /\ \A x \in down : TimesOf(n)[x] \in Int /\ TimesOf(n)[x] = AmountOf[x]
    BY <1>3, <1>4
  <2> QED
    BY <1>1, <2>1, TotalSame
<1>9. Total(AmountOf, up \cup down) = Total(AmountOf, up) + Total(AmountOf, down)
  <2>1. \A x \in up \cup down : AmountOf[x] \in Int
    BY <1>3, <1>4
  <2> QED
    BY <1>1, <1>4, <2>1, TotalUnion
<1>10. Total(AmountOf, C) = Total(AmountOf, up \cup down) + Total(AmountOf, flat)
  <2>1. \A x \in (up \cup down) \cup flat : AmountOf[x] \in Int
    BY <1>2, <1>3
  <2>2. Total(AmountOf, (up \cup down) \cup flat)
          = Total(AmountOf, up \cup down) + Total(AmountOf, flat)
    BY <1>1, <1>4, <2>1, TotalUnion
  <2> QED
    BY <1>2, <2>2
<1>11. Total(AmountOf, up) \in Int /\ Total(AmountOf, down) \in Int
  <2>1. up \in SUBSET Entry /\ down \in SUBSET Entry
    BY <1>4
  <2> QED
    BY <1>1, <2>1, AmountsInt
<1>12. Total(AmountOf, C) = Total(AmountOf, up) + Total(AmountOf, down)
  BY <1>6, <1>9, <1>10, <1>11
<1>13. CreditsOf(n, C) = Total(AmountOf, up) /\ DebitsOf(n, C) = Total(AmountOf, down)
  BY <1>7, <1>8 DEF CreditsOf, DebitsOf, up, down
<1> QED
  BY <1>11, <1>12, <1>13

\* What Explained says, by Total.
Balanced(balance, S) ==
  \A f \in S : (\A e \in S : f.nth <= e.nth) =>
    balance = f.after - f.amount + Total(AmountOf, S)

LEMMA ExplainedBalanced ==
  ASSUME NEW S \in SUBSET Entry, IsFiniteSet(S), NEW balance
  PROVE  Explained(balance, S) <=> Balanced(balance, S)
<1>1. MapThenSumSet(LAMBDA e : e.amount, S) = Total(AmountOf, S)
  BY SumTotal
<1> QED
  BY <1>1 DEF Explained, Balanced

\* An entry more accounts for the balance it leaves.
LEMMA BalancedMore ==
  ASSUME NEW S \in SUBSET Entry, IsFiniteSet(S), NEW balance \in Int, Balanced(balance, S),
         NEW e \in Entry, e \notin S, e.after = balance + e.amount,
         \A d \in S : d.nth < e.nth
  PROVE  Balanced(balance + e.amount, S \cup {e})
<1> DEFINE more == S \cup {e}
<1>1. more \in SUBSET Entry /\ IsFiniteSet(more) /\ e.amount \in Int
  BY FS_AddElement DEF Entry
<1>2. \A f \in more : f.after \in Int /\ f.amount \in Int /\ f.nth \in Nat
  BY <1>1 DEF Entry
<1>3. /\ Total(AmountOf, more) = e.amount + Total(AmountOf, S)
      /\ Total(AmountOf, S) \in Int
  <2>1. \A x \in more : AmountOf[x] \in Int
    BY <1>1, AmountsInt
  <2>2. Total(AmountOf, more) = AmountOf[e] + Total(AmountOf, more \ {e})
    BY <1>1, <2>1, TotalWithout
  <2>3. more \ {e} = S /\ AmountOf[e] = e.amount
    BY DEF AmountOf
  <2> HIDE DEF more
  <2> QED
    BY <2>2, <2>3, AmountsInt
<1>4. ASSUME NEW f \in more, \A d \in more : f.nth <= d.nth
      PROVE  balance + e.amount = f.after - f.amount + Total(AmountOf, more)
  <2>1. CASE S = {}
    <3>1. f = e /\ Total(AmountOf, S) = 0
      BY <2>1, TotalNone
    <3> HIDE DEF more
    <3> QED
      BY <1>1, <1>3, <3>1
  <2>2. CASE S # {}
    <3>1. f \in S
      BY <1>2, <1>4, <2>2
    <3>2. \A d \in S : f.nth <= d.nth
      BY <1>4
    <3>3. balance = f.after - f.amount + Total(AmountOf, S)
      BY <3>1, <3>2 DEF Balanced
    <3> HIDE DEF more
    <3> QED
      BY <1>1, <1>2, <1>3, <1>4, <3>3
  <2> QED
    BY <2>1, <2>2
<1> QED
  BY <1>4 DEF Balanced

\* While its account rests, the balance a request read is the one there is.
Resting(w, b, rs) ==
  w.pc # "idle" /\ {e \in b : e.account = w.account} = w.committed
    => rs[w.account].balance = w.balance

\* What is handed out is of its account, and what came first comes before all
\* that was there at the beginning.
FromTheFirst(w, b) ==
  w.pc # "idle" =>
    /\ \A i \in Ids : w.lines[i] > 0 => \E e \in b : e.id = i /\ e.account = w.account
    /\ w.first = 0 => w.cursor = NoCursor /\ \A i \in Ids : w.lines[i] = 0
    /\ w.first # 0 => \E f \in b : /\ f.id = w.first /\ f.account = w.account
                                   /\ \A e \in w.committed : e = f \/ Before(f, e)

StatementInv ==
  /\ \A e \in book : e.nth < Cardinality(book)
  /\ \A a \in Accounts : Balanced(rows[a].balance, OfAccount(a))
  /\ \A s \in Readers : /\ Resting(reader[s], book, rows)
                        /\ FromTheFirst(reader[s], book)

\* A posting moves the balance by the amount of its entry.
LEMMA PostsEntry ==
  ASSUME BookInv, NEW w \in Writers, NEW a \in Accounts, NEW amount \in Int,
         Posts(w, a, amount)
  PROVE  /\ \A c \in Accounts : rows'[c].balance = IF c = a THEN rows[a].balance + amount
                                                   ELSE rows[c].balance
         /\ \E e \in Entry :
              /\ book' = book \cup {e} /\ \A d \in book : d.id # e.id
              /\ e.account = a /\ e.amount = amount
              /\ e.after = rows[a].balance + amount /\ e.nth = Cardinality(book)
<1>1. rows[a].balance \in Nat /\ rows[a] \in Row /\ rows \in [Accounts -> Row]
  BY DEF BookInv, Row
<1> DEFINE new == rows[a].balance + amount
<1>2. rows' = [rows EXCEPT ![a].balance = new] /\ new \in Int
  BY <1>1 DEF Posts
<1>3. \A c \in Accounts : rows'[c].balance = IF c = a THEN new ELSE rows[c].balance
  <2>1. rows' = [rows EXCEPT ![a] = [rows[a] EXCEPT !.balance = new]]
    BY <1>2
  <2>2. [rows[a] EXCEPT !.balance = new].balance = new
    BY <1>1 DEF Row
  <2> HIDE DEF new
  <2> QED
    BY <1>1, <2>1, <2>2
<1>4. PICK stamp \in now - Lag .. now : \E id \in FreshIds(a, stamp) :
        book' = book \cup {[id |-> id, account |-> a, stamp |-> stamp,
                            amount |-> amount, after |-> new,
                            writer |-> w, nth |-> Cardinality(book)]}
  BY DEF Posts
<1>5. PICK id \in FreshIds(a, stamp) :
        book' = book \cup {[id |-> id, account |-> a, stamp |-> stamp,
                            amount |-> amount, after |-> new,
                            writer |-> w, nth |-> Cardinality(book)]}
  BY <1>4
<1> DEFINE n == Cardinality(book)
           e == [id |-> id, account |-> a, stamp |-> stamp, amount |-> amount,
                 after |-> new, writer |-> w, nth |-> n]
<1>6. stamp \in Nat
  BY BookAssumption DEF BookInv
<1>7. n \in Nat
  BY FS_CardinalityType DEF BookInv
<1>8. id \in Ids /\ \A d \in book : d.id # id
  BY FreshId
<1> HIDE DEF new, n
<1>9. e \in Entry
  BY <1>2, <1>6, <1>7, <1>8 DEF Entry
<1>10. /\ e.id = id /\ e.account = a /\ e.amount = amount /\ e.after = new /\ e.nth = n
       /\ book' = book \cup {e}
  BY <1>5 DEF n
<1> HIDE DEF e
<1> QED
  BY <1>3, <1>8, <1>9, <1>10 DEF new, n

\* An entry more leaves the requests as they are: its account does not rest.
LEMMA EntryKeeps ==
  ASSUME BookInv, ReaderInv, StatementInv, reader' = reader,
         NEW a \in Accounts, NEW e \in Entry, book' = book \cup {e},
         \A d \in book : d.id # e.id, e.account = a,
         e.after = rows[a].balance + e.amount, e.nth = Cardinality(book),
         \A c \in Accounts : rows'[c].balance = IF c = a THEN rows[a].balance + e.amount
                                                ELSE rows[c].balance
  PROVE  StatementInv'
<1>1. e \notin book
  OBVIOUS
<1>2. /\ book \in SUBSET Entry /\ IsFiniteSet(book) /\ rows \in [Accounts -> Row]
      /\ Cardinality(book) \in Nat
  BY FS_CardinalityType DEF BookInv
<1>3. \A d \in book' : d.nth < Cardinality(book')
  <2>1. Cardinality(book') = Cardinality(book) + 1
    BY <1>1, <1>2, FS_AddElement
  <2>2. \A d \in book : d.nth < Cardinality(book) /\ d.nth \in Nat
    BY <1>2 DEF StatementInv, Entry
  <2> QED
    BY <1>2, <2>1, <2>2
<1>4. ASSUME NEW c \in Accounts PROVE Balanced(rows[c].balance, OfAccount(c))'
  <2>1. Balanced(rows[c].balance, OfAccount(c))
    BY DEF StatementInv
  <2>2. CASE c # a
    <3>1. OfAccount(c)' = OfAccount(c) /\ rows'[c].balance = rows[c].balance
      BY <2>2 DEF OfAccount
    <3> QED
      BY <2>1, <3>1 DEF Balanced
  <2>3. CASE c = a
    <3> DEFINE S == OfAccount(a)
    <3>1. S \in SUBSET Entry /\ IsFiniteSet(S) /\ e \notin S
      BY <1>1, <1>2, FS_Subset DEF OfAccount
    <3>2. \A d \in S : d.nth < e.nth
      BY DEF OfAccount, StatementInv
    <3>3. rows[a].balance \in Int
      BY <1>2 DEF Row
    <3> HIDE DEF S
    <3>4. Balanced(rows[a].balance + e.amount, S \cup {e})
      BY <2>1, <2>3, <3>1, <3>2, <3>3, BalancedMore DEF S
    <3>5. OfAccount(a)' = S \cup {e} /\ rows'[a].balance = rows[a].balance + e.amount
      BY DEF OfAccount, S
    <3> QED
      BY <2>3, <3>4, <3>5 DEF Balanced
  <2> QED
    BY <2>2, <2>3
<1>5. ASSUME NEW s \in Readers
      PROVE  Resting(reader[s], book', rows') /\ FromTheFirst(reader[s], book')
  <2> DEFINE w == reader[s]
  <2>1. /\ Resting(w, book, rows) /\ FromTheFirst(w, book)
        /\ w.pc # "idle" => w.committed \subseteq book /\ w.account \in Accounts
    BY DEF StatementInv, ReaderInv, ReaderShape, AheadOrOut, Reading
  <2> HIDE DEF w
  <2>2. FromTheFirst(w, book')
    BY <2>1 DEF FromTheFirst
  <2>3. Resting(w, book', rows')
    <3>1. CASE w.account = a
      <4>1. w.pc # "idle" => e \in {d \in book' : d.account = w.account} \ w.committed
        BY <1>1, <2>1, <3>1
      <4> QED
        BY <4>1 DEF Resting
    <3>2. CASE w.account # a
      <4>1. {d \in book' : d.account = w.account} = {d \in book : d.account = w.account}
        BY <3>2
      <4> QED
        BY <2>1, <3>2, <4>1 DEF Resting
    <3> QED
      BY <3>1, <3>2
  <2> QED
    BY <2>2, <2>3 DEF w
<1>6. \A s \in Readers : Resting(reader[s], book, rows)' /\ FromTheFirst(reader[s], book)'
  BY <1>5 DEF Resting, FromTheFirst
<1> QED
  BY <1>3, <1>4, <1>6 DEF StatementInv

LEMMA RestKeeps ==
  ASSUME ReaderInv, StatementInv, reader' = reader, book' = book,
         \A c \in Accounts : rows'[c].balance = rows[c].balance
  PROVE  StatementInv'
<1>1. \A s \in Readers : reader[s].pc # "idle" => reader[s].account \in Accounts
  BY DEF ReaderInv, ReaderShape, Reading
<1>2. \A s \in Readers : Resting(reader[s], book, rows)' /\ FromTheFirst(reader[s], book)'
  BY <1>1 DEF StatementInv, Resting, FromTheFirst
<1>3. \A c \in Accounts : Balanced(rows[c].balance, OfAccount(c))'
  BY DEF StatementInv, Balanced, OfAccount
<1> QED
  BY <1>2, <1>3 DEF StatementInv

\* One request is put to a new place.
LEMMA PutStatement ==
  ASSUME ReaderInv, StatementInv, NEW s \in Readers, NEW v,
         reader' = [reader EXCEPT ![s] = v], book' = book, rows' = rows,
         Resting(v, book, rows), FromTheFirst(v, book)
  PROVE  StatementInv'
<1>1. ASSUME NEW q \in Readers
      PROVE  Resting(reader'[q], book', rows') /\ FromTheFirst(reader'[q], book')
  <2>1. CASE q = s
    <3>1. reader'[q] = v
      BY <2>1 DEF ReaderInv, ReaderShape
    <3> QED
      BY <3>1
  <2>2. CASE q # s
    <3>1. reader'[q] = reader[q]
      BY <2>2 DEF ReaderInv, ReaderShape
    <3> QED
      BY <3>1 DEF StatementInv
  <2> QED
    BY <2>1, <2>2
<1>2. \A q \in Readers : Resting(reader[q], book, rows)' /\ FromTheFirst(reader[q], book)'
  BY <1>1 DEF Resting, FromTheFirst
<1>3. \A c \in Accounts : Balanced(rows[c].balance, OfAccount(c))'
  BY DEF StatementInv, Balanced, OfAccount
<1> QED
  BY <1>2, <1>3 DEF StatementInv

LEMMA StatementBegins ==
  ASSUME ReaderInv, StatementInv, NEW s \in Readers, BeginReading(s)
  PROVE  StatementInv'
<1>1. PICK a \in Accounts :
        reader' = [reader EXCEPT ![s] =
          [pc |-> "reading", account |-> a, balance |-> rows[a].balance,
           cursor |-> NoCursor, lines |-> [i \in Ids |-> 0], first |-> 0,
           committed |-> OfAccount(a)]]
  BY DEF BeginReading
<1> DEFINE v == [pc |-> "reading", account |-> a, balance |-> rows[a].balance,
                 cursor |-> NoCursor, lines |-> [i \in Ids |-> 0], first |-> 0,
                 committed |-> OfAccount(a)]
<1>2. /\ v.account = a /\ v.balance = rows[a].balance /\ v.cursor = NoCursor
      /\ v.first = 0 /\ \A i \in Ids : v.lines[i] = 0
  OBVIOUS
<1>3. reader' = [reader EXCEPT ![s] = v] /\ book' = book /\ rows' = rows
  BY <1>1 DEF BeginReading, bookVars
<1> HIDE DEF v
<1>4. Resting(v, book, rows) /\ FromTheFirst(v, book)
  BY <1>2 DEF Resting, FromTheFirst
<1> QED
  BY <1>3, <1>4, PutStatement

LEMMA StatementFails ==
  ASSUME ReaderInv, StatementInv, NEW s \in Readers, ReadFails(s)
  PROVE  StatementInv'
<1> DEFINE w == reader[s]
           v == [pc |-> "failed", account |-> w.account, balance |-> w.balance,
                 cursor |-> w.cursor, lines |-> w.lines, first |-> w.first,
                 committed |-> w.committed]
<1>1. /\ w.pc = "reading" /\ w \in Reading /\ book' = book /\ rows' = rows
      /\ Resting(w, book, rows) /\ FromTheFirst(w, book)
  BY DEF ReadFails, ReaderInv, ReaderShape, StatementInv
<1>2. [w EXCEPT !.pc = "failed"] = v
  BY <1>1 DEF Reading
<1>3. /\ v.account = w.account /\ v.balance = w.balance /\ v.cursor = w.cursor
      /\ v.lines = w.lines /\ v.first = w.first /\ v.committed = w.committed
  OBVIOUS
<1> HIDE DEF v
<1>4. reader' = [reader EXCEPT ![s] = v]
  BY <1>2 DEF ReadFails
<1> HIDE DEF w
<1>5. Resting(v, book, rows) /\ FromTheFirst(v, book)
  BY <1>1, <1>3 DEF Resting, FromTheFirst
<1> QED
  BY <1>1, <1>4, <1>5, PutStatement

\* The page's first entry comes before all that lies behind the cursor.
LEMMA FirstOfPage ==
  ASSUME BookInv, NEW s, PageOf(s) # {}
  PROVE  /\ FirstOf(PageOf(s)) \in PageOf(s)
         /\ \A e \in Behind(s) : e = FirstOf(PageOf(s)) \/ Before(FirstOf(PageOf(s)), e)
<1> DEFINE page == PageOf(s)  first == FirstOf(page)  last == LastOf(page)
<1>1. /\ page \in SUBSET Behind(s) /\ Behind(s) \in SUBSET Entry
      /\ \A d, e \in Behind(s) : d.id = e.id => d = e
      /\ first \in page /\ last \in page
  BY PageFacts
<1>2. \A d \in page : d = first \/ Before(first, d)
  <2> HIDE DEF page
  <2>1. page \in SUBSET Entry /\ \A d, e \in page : d.id = e.id => d = e
    BY <1>1
  <2>2. \E m \in page : \A d \in page : d = m \/ Before(m, d)
    BY <1>1, <2>1, SomeFirst
  <2> QED
    BY <2>2 DEF FirstOf
<1>3. ASSUME NEW e \in Behind(s) PROVE e = first \/ Before(first, e)
  <2>1. CASE e \in page
    BY <1>2, <2>1
  <2>2. CASE e \notin page
    <3>1. Before(last, e)
      BY <2>2, FullPage
    <3>2. last = first \/ Before(first, last)
      BY <1>1, <1>2
    <3>3. \A c, d, f \in Behind(s) : Before(c, d) /\ Before(d, f) => Before(c, f)
      BY <1>1, Order
    <3>4. first \in Behind(s) /\ last \in Behind(s)
      BY <1>1
    <3> HIDE DEF first, last
    <3> QED
      BY <3>1, <3>2, <3>3, <3>4
  <2> QED
    BY <2>1, <2>2
<1> QED
  BY <1>1, <1>3

LEMMA StatementReads ==
  ASSUME BookInv, ReaderInv, StatementInv, NEW s \in Readers, ReadPage(s)
  PROVE  StatementInv'
<1> DEFINE w == reader[s]  page == PageOf(s)
           lines == [i \in Ids |-> IF \E e \in page : e.id = i
                                   THEN Lesser(2, w.lines[i] + 1) ELSE w.lines[i]]
           first == IF w.first = 0 /\ page # {} THEN FirstOf(page).id ELSE w.first
           cursor == IF page # {} THEN CursorAt(page) ELSE w.cursor
           pc == IF Cardinality(page) < PageSize THEN "read" ELSE w.pc
           v == [pc |-> pc, account |-> w.account, balance |-> w.balance,
                 cursor |-> cursor, lines |-> lines, first |-> first,
                 committed |-> w.committed]
<1>1. /\ w.pc = "reading" /\ w \in Reading /\ AheadOrOut(w, book)
      /\ book' = book /\ rows' = rows
      /\ Resting(w, book, rows) /\ FromTheFirst(w, book)
  BY DEF ReadPage, ReaderInv, ReaderShape, bookVars, StatementInv
<1>2. SetPage(s, lines, first, cursor, pc)
  BY DEF ReadPage, SetPage
<1>3. /\ page \in SUBSET Behind(s) /\ Behind(s) \in SUBSET Entry
      /\ page # {} => FirstOf(page) \in page
  BY PageFacts
<1>4. \A e \in page : e \in book /\ e.account = w.account
  BY <1>3 DEF Behind, OfAccount
<1>5. /\ \A i \in Ids : lines[i] = IF \E e \in page : e.id = i
                                  THEN Lesser(2, w.lines[i] + 1) ELSE w.lines[i]
      /\ v.lines = lines /\ v.first = first /\ v.cursor = cursor /\ v.account = w.account
      /\ v.balance = w.balance /\ v.committed = w.committed
  OBVIOUS
<1>6. ASSUME NEW i \in Ids, lines[i] > 0
      PROVE  \E e \in book : e.id = i /\ e.account = w.account
  <2> HIDE DEF w, page
  <2>1. CASE \E e \in page : e.id = i
    BY <1>4, <2>1
  <2>2. CASE ~\E e \in page : e.id = i
    <3>1. w.lines[i] > 0
      BY <1>6, <2>2
    <3> QED
      BY <1>1, <3>1 DEF FromTheFirst
  <2> QED
    BY <2>1, <2>2
<1>7. ASSUME first = 0 PROVE cursor = NoCursor /\ \A i \in Ids : lines[i] = 0
  <2>1. w.first = 0 /\ page = {}
    <3>1. CASE w.first = 0 /\ page # {}
      <4>1. first = FirstOf(page).id /\ FirstOf(page).id \in Ids
        BY <1>3, <3>1 DEF Entry
      <4> QED
        BY <1>7, <4>1, HistoryAssumption
    <3> QED
      BY <1>7, <3>1
  <2> HIDE DEF w, page
  <2> QED
    BY <1>1, <2>1 DEF FromTheFirst
<1>8. ASSUME first # 0
      PROVE  \E f \in book : /\ f.id = first /\ f.account = w.account
                             /\ \A e \in w.committed : e = f \/ Before(f, e)
  <2>1. CASE w.first = 0
    <3>1. page # {} /\ first = FirstOf(page).id
      BY <1>8, <2>1
    <3>2. /\ FirstOf(page) \in page
          /\ \A e \in Behind(s) : e = FirstOf(page) \/ Before(FirstOf(page), e)
      BY <3>1, FirstOfPage
    <3>3. w.cursor = NoCursor
      BY <1>1, <2>1 DEF FromTheFirst
    <3>4. ASSUME NEW e \in w.committed PROVE e \in Behind(s)
      <4>1. e \in book /\ e.account = w.account
        BY <1>1, <3>4 DEF AheadOrOut
      <4>2. e.stamp \in Nat
        BY <4>1 DEF BookInv, Entry
      <4>3. Before(NoCursor, e)
        BY <4>2 DEF Before, NoCursor
      <4> QED
        BY <3>3, <4>1, <4>3 DEF Behind, OfAccount
    <3> DEFINE f == FirstOf(page)
    <3>5. f \in book /\ f.account = w.account /\ f.id = first
      BY <1>4, <3>1, <3>2
    <3>6. \A e \in w.committed : e = f \/ Before(f, e)
      BY <3>2, <3>4
    <3> HIDE DEF f, first, w
    <3> QED
      BY <3>5, <3>6
  <2>2. CASE w.first # 0
    <3>1. first = w.first
      BY <2>2
    <3> HIDE DEF first, w
    <3> QED
      BY <1>1, <2>2, <3>1 DEF FromTheFirst
  <2> QED
    BY <2>1, <2>2
<1> HIDE DEF lines, first, cursor, pc, page, w
<1>9. reader' = [reader EXCEPT ![s] = v]
  BY <1>1, <1>2, PageRead DEF w
<1> HIDE DEF v
<1>10. Resting(v, book, rows)
  BY <1>1, <1>5 DEF Resting
<1>11. FromTheFirst(v, book)
  BY <1>5, <1>6, <1>7, <1>8 DEF FromTheFirst
<1> QED
  BY <1>1, <1>9, <1>10, <1>11, PutStatement

LEMMA StatementsGoOn ==
  ASSUME NightlyInv, StatementInv, [Next]_vars
  PROVE  StatementInv'
<1> USE DEF NightlyInv
<1>1. ASSUME NEW w \in Writers, NEW a \in Accounts, NEW amount \in Int,
             Posts(w, a, amount), reader' = reader
      PROVE  StatementInv'
  <2>1. /\ \A c \in Accounts : rows'[c].balance = IF c = a THEN rows[a].balance + amount
                                                  ELSE rows[c].balance
        /\ \E e \in Entry :
             /\ book' = book \cup {e} /\ \A d \in book : d.id # e.id
             /\ e.account = a /\ e.amount = amount
             /\ e.after = rows[a].balance + amount /\ e.nth = Cardinality(book)
    BY <1>1, PostsEntry
  <2>2. PICK e \in Entry :
             /\ book' = book \cup {e} /\ \A d \in book : d.id # e.id
             /\ e.account = a /\ e.amount = amount
             /\ e.after = rows[a].balance + amount /\ e.nth = Cardinality(book)
    BY <2>1
  <2>3. /\ e.after = rows[a].balance + e.amount
        /\ \A c \in Accounts : rows'[c].balance = IF c = a THEN rows[a].balance + e.amount
                                                  ELSE rows[c].balance
    BY <2>1, <2>2
  <2> QED
    BY <1>1, <2>2, <2>3, EntryKeeps
<1>2. ASSUME rows' = rows, book' = book, reader' = reader PROVE StatementInv'
  BY <1>2, RestKeeps
<1>3. CASE JobNext /\ UNCHANGED <<reader, moves>>
  <2>1. PICK r \in Runs :
          \/ Load(r) \/ Report(r) \/ Die(r)
          \/ \E a \in Accounts : PayInterest(r, a) \/ NoProfit(r, a) \/ Review(r, a)
    BY <1>3 DEF JobNext
  <2>2. CASE Load(r) \/ Report(r) \/ Die(r)
    BY <1>2, <1>3, <2>2 DEF Load, Report, Die, bookVars
  <2>3. ASSUME NEW a \in Accounts, NoProfit(r, a) \/ Review(r, a) PROVE StatementInv'
    BY <1>2, <1>3, <2>3 DEF NoProfit, Review, bookVars
  <2>4. ASSUME NEW a \in Accounts, PayInterest(r, a) PROVE StatementInv'
    <3>1. CASE UNCHANGED <<rows, book>>
      BY <1>2, <1>3, <3>1
    <3>2. CASE Posts(r, a, Profit(r, a))
      <4>1. Turn(r, a) /\ run[r].name = "interest-posting" /\ RunShape
        BY <2>4 DEF PayInterest, JobInv
      <4>2. a \in DOMAIN run[r].loaded
        BY <4>1, TurnOf
      <4>3. Profit(r, a) \in Int /\ r \in Writers
        BY <4>1, <4>2, ProfitOf, NightlyAssumption
      <4> QED
        BY <1>1, <1>3, <3>2, <4>3
    <3> QED
      BY <2>4, <3>1, <3>2 DEF PayInterest
  <2> QED
    BY <2>1, <2>2, <2>3, <2>4
<1>4. CASE ReaderNext /\ UNCHANGED <<run, moves>>
  BY <1>4, StatementBegins, StatementReads, StatementFails DEF ReaderNext
<1>5. CASE Tick
  BY <1>2, <1>5 DEF Tick
<1>6. ASSUME NEW a \in Accounts, NEW amount \in Moves, Move(a, amount) PROVE StatementInv'
  <2>1. /\ Posts(Customers, a, amount) /\ Customers \in Writers /\ amount \in Int
        /\ reader' = reader
    BY <1>6, NightlyAssumption DEF Move
  <2> QED
    BY <1>1, <2>1
<1>7. ASSUME NEW a \in Accounts, NEW action \in StatusActions, ChangeStatus(a, action)
      PROVE  StatementInv'
  <2> DEFINE status == StatusAfter[action]
  <2>1. /\ rows' = [rows EXCEPT ![a].status = status]
        /\ book' = book /\ reader' = reader
    BY <1>7 DEF ChangeStatus
  <2>2. \A c \in Accounts : rows'[c].balance = rows[c].balance
    <3>1. rows[a] \in Row /\ rows \in [Accounts -> Row]
      BY DEF BookInv
    <3>2. [rows[a] EXCEPT !.status = status].balance = rows[a].balance
      BY <3>1 DEF Row
    <3>3. rows' = [rows EXCEPT ![a] = [rows[a] EXCEPT !.status = status]]
      BY <2>1
    <3> HIDE DEF status
    <3> QED
      BY <3>1, <3>2, <3>3
  <2> QED
    BY <2>1, <2>2, RestKeeps
<1>8. CASE Done \/ UNCHANGED vars
  BY <1>2, <1>8 DEF Done, vars, bookVars
<1> QED
  BY <1>3, <1>4, <1>5, <1>6, <1>7, <1>8 DEF Next

LEMMA StatementsStart ==
  ASSUME Init
  PROVE  StatementInv
<1>1. /\ rows = OpeningRows /\ book \in OpeningBooks
      /\ reader = [s \in Readers |-> [pc |-> "idle"]]
  BY DEF Init, BookInit, ReaderInit
<1>2. /\ \A e \in book : e.nth < Cardinality(book)
      /\ \A a \in Accounts : Explained(OpeningRows[a].balance, {e \in book : e.account = a})
  BY <1>1, BookAssumption
<1>3. ASSUME NEW a \in Accounts PROVE Balanced(rows[a].balance, OfAccount(a))
  <2>1. Explained(rows[a].balance, OfAccount(a))
    BY <1>1, <1>2 DEF OfAccount
  <2>2. OfAccount(a) \in SUBSET Entry /\ IsFiniteSet(OfAccount(a))
    BY <1>1, BookAssumption, FS_Subset DEF OfAccount
  <2> QED
    BY <2>1, <2>2, ExplainedBalanced
<1>4. \A s \in Readers : Resting(reader[s], book, rows) /\ FromTheFirst(reader[s], book)
  BY <1>1 DEF Resting, FromTheFirst
<1> QED
  BY <1>2, <1>3, <1>4 DEF StatementInv

\* What the invariants say of a request that has read everything about an
\* account that rests, each entry once and in the order of their commits.
LEMMA Reconciled ==
  ASSUME NightlyInv, StatementInv, NEW s \in Readers, reader[s].pc = "read",
         OfAccount(reader[s].account) = reader[s].committed,
         \A e \in reader[s].committed : reader[s].lines[e.id] <= 1,
         \A d, e \in reader[s].committed : d.nth < e.nth => d.stamp < e.stamp
  PROVE  OpeningOf(s) + Credits(s) + Debits(s) = ClosingOf(s)
<1> DEFINE w == reader[s]  C == w.committed  n == w.lines
<1>1. /\ w \in Reading /\ AheadOrOut(w, book) /\ FromTheFirst(w, book)
      /\ Resting(w, book, rows)
  BY DEF NightlyInv, ReaderInv, ReaderShape, StatementInv
<1>2. /\ book \in SUBSET Entry /\ IsFiniteSet(book)
      /\ \A d, e \in book : d.id = e.id => d = e
  BY DEF NightlyInv, BookInv
<1>3. C \in SUBSET Entry /\ C \subseteq book /\ IsFiniteSet(C) /\ w.account \in Accounts
  BY <1>1, <1>2, FS_Subset DEF AheadOrOut, Reading
<1>4. C = {e \in book : e.account = w.account}
  BY DEF OfAccount
<1>5. \A e \in C : n[e.id] = 1 /\ n[e.id] > 0
  <2>1. \A e \in C : n[e.id] \in 0 .. 2 /\ n[e.id] > 0 /\ n[e.id] <= 1
    BY <1>1, <1>3 DEF AheadOrOut, Reading, Entry
  <2> HIDE DEF n, C
  <2> QED
    BY <2>1
<1>6. HandedOut(s) = C
  <2>1. ASSUME NEW e \in book, n[e.id] > 0 PROVE e \in C
    <3>1. e.id \in Ids
      BY <1>2 DEF Entry
    <3>2. PICK d \in book : d.id = e.id /\ d.account = w.account
      BY <1>1, <2>1, <3>1 DEF FromTheFirst
    <3> QED
      BY <1>2, <1>4, <3>2
  <2> QED
    BY <1>3, <1>5, <2>1 DEF HandedOut
<1>7. w.balance = rows[w.account].balance /\ w.balance \in Nat
  BY <1>1, <1>4 DEF Resting, Reading
<1>8. /\ Credits(s) + Debits(s) = Total(AmountOf, C)
      /\ Credits(s) \in Int /\ Debits(s) \in Int
  <2>1. Credits(s) = CreditsOf(n, C) /\ Debits(s) = DebitsOf(n, C)
    BY <1>6 DEF Credits, Debits, CreditsOf, DebitsOf
  <2> HIDE DEF n, C
  <2> QED
    BY <1>3, <1>5, <2>1, LinesOnce
<1>9. Total(AmountOf, C) \in Int
  BY <1>3, AmountsInt
<1>10. CASE w.first = 0
  <2>1. C = {}
    <3>1. \A e \in C : n[e.id] = 0
      BY <1>1, <1>3, <1>10 DEF FromTheFirst, Entry
    <3> HIDE DEF n, C
    <3> QED
      BY <1>5, <3>1
  <2>2. Total(AmountOf, C) = 0
    BY <2>1, TotalNone
  <2>3. OpeningOf(s) = w.balance /\ ClosingOf(s) = w.balance
    BY <1>10 DEF OpeningOf, ClosingOf
  <2> QED
    BY <1>7, <1>8, <2>2, <2>3
<1>11. CASE w.first # 0
  <2>1. PICK f \in book : /\ f.id = w.first /\ f.account = w.account
                          /\ \A e \in C : e = f \/ Before(f, e)
    BY <1>1, <1>11 DEF FromTheFirst
  <2>2. f \in C /\ f.after \in Int /\ f.amount \in Int
    BY <1>2, <1>4, <2>1 DEF Entry
  <2>3. OpeningOf(s) = f.after - f.amount
    <3>1. (CHOOSE e \in C : e.id = w.first) = f
      BY <1>2, <1>3, <2>1, <2>2
    <3> QED
      BY <1>6, <1>11, <3>1 DEF OpeningOf
  <2>4. ASSUME NEW e \in C PROVE f.nth <= e.nth
    <3>1. f.nth \in Nat /\ e.nth \in Nat /\ f.stamp \in Nat /\ e.stamp \in Nat
      BY <1>3, <2>2, <2>4 DEF Entry
    <3>2. e.nth < f.nth => e.stamp < f.stamp
      BY <2>2, <2>4
    <3>3. e = f \/ Before(f, e)
      BY <2>1, <2>4
    <3> QED
      BY <3>1, <3>2, <3>3 DEF Before
  <2>5. Balanced(rows[w.account].balance, C)
    BY <1>3 DEF StatementInv
  <2>6. w.balance = f.after - f.amount + Total(AmountOf, C)
    BY <1>7, <2>2, <2>4, <2>5 DEF Balanced
  <2>7. ClosingOf(s) = w.balance
    BY DEF ClosingOf
  <2> QED
    BY <1>8, <1>9, <2>2, <2>3, <2>6, <2>7
<1> QED
  BY <1>10, <1>11

\* The statement of an account that rests adds up, for any accounts, entries
\* and page size: the opening balance it prints, the credits and the debits give
\* the closing balance, where no entry came twice and the time stamps are in the
\* order of the commits.
THEOREM StatementsReconcile == Spec => []QuietStatementsReconcile
<1>1. Init => StatementInv
  BY StatementsStart
<1>2. NightlyInv /\ StatementInv /\ [Next]_vars => StatementInv'
  BY StatementsGoOn
<1>3. NightlyInv /\ StatementInv => QuietStatementsReconcile
  BY Reconciled DEF QuietStatementsReconcile
<1> QED
  BY <1>1, <1>2, <1>3, NightStays, PTL DEF Spec
=============================================================================
