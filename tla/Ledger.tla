------------------------------- MODULE Ledger -------------------------------
(***************************************************************************)
(* Concurrent requests on the ledger of transactions/ledger.service.ts and *)
(* on the account rows it shares with accounts/accounts.service.ts.        *)
(*                                                                         *)
(* A request runs one call.  A ledger call (deposit, withdraw, transfer,   *)
(* reverse) is one READ COMMITTED transaction: it locks the rows it moves  *)
(* money on one at a time in id order (SELECT ... FOR UPDATE), keeps the   *)
(* entities it read under the lock, validates, posts, commits, and only    *)
(* then publishes.  A status call is the unlocked find / modify / save of  *)
(* AccountsService.changeStatus; TypeORM's save reloads the row and writes *)
(* every column in which the entity differs from it.                       *)
(*                                                                         *)
(* A request's identity stands for the unique reference its transaction    *)
(* takes from ReferenceNumberGenerator; Accounts are account ids, naturals *)
(* because only their sort order matters.                                  *)
(***************************************************************************)
EXTENDS AccountState, Sequences, FiniteSets, SequencesExt

CONSTANTS
  Requests,        \* concurrent API requests; each one is also its reference
  Accounts,        \* the account ids a request may name
  Opened,          \* the accounts that exist
  Currency,        \* [Accounts -> currency]
  Limit,           \* [Accounts -> daily withdrawal limit]
  OpeningStatus,   \* [Accounts -> {"PENDING", "ACTIVE"}]
  OpeningBalance,  \* [Accounts -> Nat], paid in by one deposit before Init
  OpeningRef,      \* the reference of those first deposits
  Amounts, Fees,   \* the amounts and fees a client may ask for
  Roles,           \* [Requests -> SUBSET Ops]: the calls each request may make
  Nobody,          \* the holder of a row lock nobody holds
  LastDay,         \* bound: midnights that pass in a run
  MayCrash         \* whether API pods may die

Ops == {"deposit", "withdraw", "transfer", "reverse", "status"}

ASSUME LedgerAssumption ==
  /\ Accounts \subseteq Nat /\ Opened \subseteq Accounts
  /\ Limit \in [Accounts -> Nat]
  /\ OpeningStatus \in [Accounts -> {"PENDING", "ACTIVE"}]
  /\ OpeningBalance \in [Accounts -> Nat]
  /\ Amounts \subseteq Nat /\ Fees \subseteq Nat
  /\ Roles \in [Requests -> SUBSET Ops]
  /\ Nobody \notin Requests /\ OpeningRef \notin Requests
  /\ LastDay \in Nat /\ MayCrash \in BOOLEAN

VARIABLES
  row,        \* committed account rows
  entries,    \* committed ledger entries of each account, in insertion order
  lock,       \* holder of each row lock
  pc, call,   \* per request: progress and the call it runs
  began,      \* per request: the day its transaction started (created_at)
  toLock,     \* per request: rows still to lock
  copy,       \* per request: the account entities it holds in memory
  todo,       \* per request: postings still to write
  drafts,     \* per request: entries inserted but not committed
  dirty,      \* per request: columns save() found changed
  events,     \* per request: events to publish after commit
  published,  \* events handed to the event bus
  today       \* the wall-clock day

tables  == <<row, entries>>
outside == <<published, today>>
vars == <<row, entries, lock, pc, call, began, toLock, copy, todo, drafts,
          dirty, events, published, today>>

-----------------------------------------------------------------------------
(* Types *)

EntryTypes == {"DEPOSIT", "WITHDRAWAL", "TRANSFER_OUT", "TRANSFER_IN", "FEE",
               "REVERSAL"}
References == Requests \cup {OpeningRef}

Row   == [status : Statuses, balance : Int]
Entry == [ref : References, of : References, amount : Int, type : EntryTypes,
          after : Int, day : Nat]
\* One pending call of post(); line keeps the order of postings of one call.
Posting == [account : Accounts, line : Nat, amount : Int, type : EntryTypes]
Event   == [type : {"deposited", "withdrawn", "transferred", "reversed",
                    "status"},
            key : Accounts, line : Nat, ref : Requests]

DepositCalls  == [op : {"deposit"},  to : Accounts, amount : Amounts]
WithdrawCalls == [op : {"withdraw"}, from : Accounts, amount : Amounts]
TransferCalls == [op : {"transfer"}, from : Accounts, to : Accounts,
                  amount : Amounts, fee : Fees]
ReverseCalls  == [op : {"reverse"},  of : Requests]
StatusCalls   == [op : {"status"},   account : Accounts, action : StatusActions]
Calls == DepositCalls \cup WithdrawCalls \cup TransferCalls
           \cup ReverseCalls \cup StatusCalls
NoCall == [op |-> "none"]

\* "crashed" died before its commit, "lost" after it with events unpublished.
Running == {"locking", "posting", "saving", "updating", "publishing"}
Ended   == {"done", "refused", "crashed", "lost"}
Pcs     == {"idle"} \cup Running \cup Ended
Blank   == [a \in Accounts |-> [status |-> "PENDING", balance |-> 0]]
NoDraft == [a \in Accounts |-> <<>>]

-----------------------------------------------------------------------------
(* The validation chain, in chain order; a refused handler throws. *)

\* Slip: the limit is compared with what was withdrawn before this request.
ValidatesBehind(operation, amount, account, withdrawnToday, limit) ==
  /\ amount > 0
  /\ IF operation = "DEPOSIT" THEN CanDeposit(account.status)
                              ELSE CanWithdraw(account.status)
  /\ operation = "WITHDRAWAL" => account.balance >= amount /\ withdrawnToday <= limit

Validates(operation, amount, account, withdrawnToday, limit) ==
  /\ amount > 0
  /\ IF operation = "DEPOSIT" THEN CanDeposit(account.status)
                              ELSE CanWithdraw(account.status)
  /\ operation = "WITHDRAWAL" => account.balance >= amount
  /\ operation = "WITHDRAWAL" => withdrawnToday + amount <= limit

CountsToLimit(e, day) == e.type \in {"WITHDRAWAL", "TRANSFER_OUT"} /\ e.day >= day

\* Committed withdrawals and transfers of a since midnight.
WithdrawnToday(a) ==
  FoldLeft(LAMBDA sum, e : IF CountsToLimit(e, today) THEN sum - e.amount ELSE sum,
           0, entries[a])

\* What the ledger call of p checks once it holds all its rows.
Accepts(p) ==
  LET c == call[p]
      debits(a, amount) == Validates("WITHDRAWAL", amount, copy[p][a],
                                     WithdrawnToday(a), Limit[a])
      credits(a, amount) == Validates("DEPOSIT", amount, copy[p][a], 0, Limit[a])
  IN  CASE c.op = "deposit"  -> credits(c.to, c.amount)
        [] c.op = "withdraw" -> debits(c.from, c.amount)
        [] c.op = "transfer" -> /\ Currency[c.from] = Currency[c.to]
                                /\ debits(c.from, c.amount + c.fee)
                                /\ credits(c.to, c.amount)
        [] OTHER -> TRUE

-----------------------------------------------------------------------------
(* What a call will post and publish. *)

\* Committed entries carrying the reference ref, as <<account, position>>.
Positions(ref) ==
  UNION {{<<a, i>> : i \in {j \in DOMAIN entries[a] : entries[a][j].ref = ref}} :
         a \in Accounts}

AlreadyReversed(ref) ==
  \E a \in Accounts : \E i \in DOMAIN entries[a] :
    entries[a][i].type = "REVERSAL" /\ entries[a][i].of = ref

Posted(a, line, amount, type) ==
  [account |-> a, line |-> line, amount |-> amount, type |-> type]

Postings(c) ==
  CASE c.op = "deposit"  -> {Posted(c.to, 1, c.amount, "DEPOSIT")}
    [] c.op = "withdraw" -> {Posted(c.from, 1, -c.amount, "WITHDRAWAL")}
    [] c.op = "transfer" ->
         {Posted(c.from, 1, -c.amount, "TRANSFER_OUT"),
          Posted(c.to, 3, c.amount, "TRANSFER_IN")}
           \cup (IF c.fee > 0 THEN {Posted(c.from, 2, -c.fee, "FEE")} ELSE {})
    [] c.op = "reverse"  ->
         {Posted(x[1], x[2], -entries[x[1]][x[2]].amount, "REVERSAL") :
            x \in Positions(c.of)}
    [] OTHER -> {}

Announced(p, type, key, line) ==
  [type |-> type, key |-> key, line |-> line, ref |-> p]

\* The Kafka key is the payload's accountId, or fromAccountId for a transfer.
EventsOf(p, c) ==
  CASE c.op = "deposit"  -> {Announced(p, "deposited", c.to, 1)}
    [] c.op = "withdraw" -> {Announced(p, "withdrawn", c.from, 1)}
    [] c.op = "transfer" -> {Announced(p, "transferred", c.from, 1)}
    [] c.op = "reverse"  -> {Announced(p, "reversed", x[1], x[2]) :
                               x \in Positions(c.of)}
    [] OTHER -> {Announced(p, "status", c.account, 1)}

-----------------------------------------------------------------------------
Init ==
  /\ row = [a \in Accounts |-> [status  |-> OpeningStatus[a],
                                balance |-> OpeningBalance[a]]]
  /\ entries = [a \in Accounts |->
       IF OpeningBalance[a] = 0 THEN <<>>
       ELSE <<[ref |-> OpeningRef, of |-> OpeningRef,
               amount |-> OpeningBalance[a], type |-> "DEPOSIT",
               after |-> OpeningBalance[a], day |-> 0]>>]
  /\ lock = [a \in Accounts |-> Nobody]
  /\ pc = [p \in Requests |-> "idle"]
  /\ call = [p \in Requests |-> NoCall]
  /\ began = [p \in Requests |-> 0]
  /\ toLock = [p \in Requests |-> {}]
  /\ copy = [p \in Requests |-> Blank]
  /\ todo = [p \in Requests |-> {}]
  /\ drafts = [p \in Requests |-> NoDraft]
  /\ dirty = [p \in Requests |-> {}]
  /\ events = [p \in Requests |-> {}]
  /\ published = {}
  /\ today = 0

\* The end of p's transaction or handler: locks go, its memory is dropped.
Leave(p, end) ==
  /\ pc' = [pc EXCEPT ![p] = end]
  /\ lock' = [a \in Accounts |-> IF lock[a] = p THEN Nobody ELSE lock[a]]
  /\ toLock' = [toLock EXCEPT ![p] = {}]
  /\ copy' = [copy EXCEPT ![p] = Blank]
  /\ todo' = [todo EXCEPT ![p] = {}]
  /\ drafts' = [drafts EXCEPT ![p] = NoDraft]
  /\ dirty' = [dirty EXCEPT ![p] = {}]

\* ROLLBACK: nothing the transaction wrote is seen by anybody.
Rollback(p, end) ==
  /\ Leave(p, end)
  /\ events' = [events EXCEPT ![p] = {}]
  /\ UNCHANGED <<tables, call, began, outside>>

\* The call is refused before any statement or lock.
Turned(p, c) ==
  /\ pc' = [pc EXCEPT ![p] = "refused"]
  /\ call' = [call EXCEPT ![p] = c]
  /\ UNCHANGED <<tables, lock, began, toLock, copy, todo, drafts, dirty, events, outside>>

-----------------------------------------------------------------------------
(* Ledger calls *)

\* BEGIN, and for a reversal its two unlocked reads: has the reference been
\* reversed, and which entries carry it.  (Reading both at once loses no
\* outcome: entries of a reference appear together, and before its reversal.)
Refuses(c) ==
  \/ c.op = "transfer" /\ c.from = c.to
  \/ c.op = "reverse" /\ (AlreadyReversed(c.of) \/ Positions(c.of) = {})

BeginLedger(p, c) ==
  /\ pc[p] = "idle" /\ c.op \in Roles[p] \ {"status"}
  /\ IF Refuses(c) THEN Turned(p, c)
     ELSE /\ pc' = [pc EXCEPT ![p] = "locking"]
          /\ call' = [call EXCEPT ![p] = c]
          /\ began' = [began EXCEPT ![p] = today]
          /\ todo' = [todo EXCEPT ![p] = Postings(c)]
          /\ toLock' = [toLock EXCEPT ![p] = {t.account : t \in Postings(c)}]
          /\ events' = [events EXCEPT ![p] = EventsOf(p, c)]
          /\ UNCHANGED <<tables, lock, copy, drafts, dirty, outside>>

\* Slip: rows are locked in the order the call names them.
IsNextUnsorted(p, a) == a \in toLock[p]

\* Rows are locked in id order.
IsNext(p, a) == a \in toLock[p] /\ \A b \in toLock[p] : a <= b

\* Slip: statements do not wait for a row lock.
IsFreeAlways(a) == TRUE

IsFree(a) == lock[a] = Nobody

\* SELECT ... FOR UPDATE: waits for the lock, then reads the committed row.
LockAccount(p, a) ==
  /\ pc[p] = "locking" /\ IsNext(p, a) /\ a \in Opened
  /\ IsFree(a)
  /\ lock' = [lock EXCEPT ![a] = p]
  /\ copy' = [copy EXCEPT ![p][a] = row[a]]
  /\ toLock' = [toLock EXCEPT ![p] = @ \ {a}]
  /\ UNCHANGED <<tables, pc, call, began, todo, drafts, dirty, events, outside>>

AccountNotFound(p, a) ==
  /\ pc[p] = "locking" /\ IsNext(p, a) /\ a \notin Opened
  /\ Rollback(p, "refused")

Validate(p) ==
  /\ pc[p] = "locking" /\ toLock[p] = {}
  /\ IF Accepts(p)
     THEN /\ pc' = [pc EXCEPT ![p] = "posting"]
          /\ UNCHANGED <<tables, lock, call, began, toLock, copy, todo, drafts, dirty, events, outside>>
     ELSE Rollback(p, "refused")

\* A transfer posts its lines in order; the entries of a reversal come back
\* ordered by a created_at they all share, that is, in any order.
IsNextPosting(p, t) ==
  /\ t \in todo[p]
  /\ call[p].op # "reverse" => \A u \in todo[p] : t.line <= u.line

\* Slip: the reversal trusts that the money is still there.
OverdrawsUnchecked(p, t) == FALSE

\* Only a reversal checks the balance before each posting.
Overdraws(p, t) ==
  call[p].op = "reverse" /\ copy[p][t.account].balance + t.amount < 0

\* Slip: an entry loses what it refers to.
EntryForNobody(p, t) ==
  [ref |-> p, of |-> Nobody, amount |-> t.amount, type |-> t.type,
   after |-> copy[p][t.account].balance + t.amount, day |-> began[p]]

EntryFor(p, t) ==
  [ref |-> p, of |-> IF call[p].op = "reverse" THEN call[p].of ELSE p,
   amount |-> t.amount, type |-> t.type,
   after |-> copy[p][t.account].balance + t.amount, day |-> began[p]]

Post(p, t) ==
  /\ pc[p] = "posting" /\ IsNextPosting(p, t) /\ ~Overdraws(p, t)
  /\ copy' = [copy EXCEPT ![p][t.account].balance = @ + t.amount]
  /\ drafts' = [drafts EXCEPT ![p][t.account] = Append(@, EntryFor(p, t))]
  /\ todo' = [todo EXCEPT ![p] = @ \ {t}]
  /\ UNCHANGED <<tables, lock, pc, call, began, toLock, dirty, events, outside>>

RefuseReversal(p, t) ==
  /\ pc[p] = "posting" /\ IsNextPosting(p, t) /\ Overdraws(p, t)
  /\ Rollback(p, "refused")

\* Slip: a failing posting is swallowed and the rest is committed.
IsCompletePartly(p) == pc[p] = "posting"

IsComplete(p) == pc[p] = "posting" /\ todo[p] = {}

\* COMMIT: the balances written by save() and the inserted entries become
\* visible together, and the row locks are released.
Commit(p) ==
  /\ IsComplete(p)
  /\ row' = [a \in Accounts |->
               IF lock[a] = p THEN [row[a] EXCEPT !.balance = copy[p][a].balance]
                              ELSE row[a]]
  /\ entries' = [a \in Accounts |-> entries[a] \o drafts[p][a]]
  /\ Leave(p, "publishing")
  /\ UNCHANGED <<call, began, events, outside>>

\* Slip: events go out inside the transaction.
MayPublishEarly(p) == pc[p] \in {"posting", "publishing"}

MayPublish(p) == pc[p] = "publishing"

\* Slip: the handler forgets which event is its last.
IsLastEventLate(p, e) == events[p] = {}

IsLastEvent(p, e) == events[p] = {e}

Publish(p, e) ==
  /\ MayPublish(p) /\ e \in events[p]
  /\ published' = published \cup {e}
  /\ events' = [events EXCEPT ![p] = @ \ {e}]
  /\ pc' = IF IsLastEvent(p, e) THEN [pc EXCEPT ![p] = "done"] ELSE pc
  /\ UNCHANGED <<tables, lock, call, began, toLock, copy, todo, drafts, dirty, today>>

-----------------------------------------------------------------------------
(* AccountsService.changeStatus *)

\* findById without a lock, then the state object accepts or refuses.
FindForStatus(p, c) ==
  /\ pc[p] = "idle" /\ c.op \in Roles[p] \cap {"status"}
  /\ IF c.account \in Opened
        /\ IsLegal(row[c.account].status, c.action, row[c.account].balance)
     THEN /\ pc' = [pc EXCEPT ![p] = "saving"]
          /\ call' = [call EXCEPT ![p] = c]
          /\ copy' = [copy EXCEPT ![p][c.account] =
                        [row[c.account] EXCEPT !.status = StatusAfter[c.action]]]
          /\ events' = [events EXCEPT ![p] = EventsOf(p, c)]
          /\ UNCHANGED <<tables, lock, began, toLock, todo, drafts, dirty, outside>>
     ELSE Turned(p, c)

\* save() reloads the row, still unlocked, and compares column by column.
ReloadForSave(p) ==
  /\ pc[p] = "saving"
  /\ LET a == call[p].account
     IN  dirty' = [dirty EXCEPT ![p] =
           {col \in {"status", "balance"} : copy[p][a][col] # row[a][col]}]
  /\ pc' = [pc EXCEPT ![p] = "updating"]
  /\ UNCHANGED <<tables, lock, call, began, toLock, copy, todo, drafts, events, outside>>

\* UPDATE of the changed columns; it waits for a transaction holding the row.
UpdateRow(p) ==
  /\ pc[p] = "updating"
  /\ LET a == call[p].account
         written(col) == IF col \in dirty[p] THEN copy[p][a][col] ELSE row[a][col]
     IN  /\ dirty[p] # {} => IsFree(a)
         /\ row' = [row EXCEPT ![a] = [status  |-> written("status"),
                                       balance |-> written("balance")]]
  /\ Leave(p, "publishing")
  /\ UNCHANGED <<entries, call, began, events, outside>>

-----------------------------------------------------------------------------
(* The environment *)

Crash(p) ==
  /\ MayCrash /\ pc[p] \in Running
  /\ Rollback(p, IF pc[p] = "publishing" THEN "lost" ELSE "crashed")

Midnight ==
  /\ today < LastDay
  /\ today' = today + 1
  /\ UNCHANGED <<tables, lock, pc, call, began, toLock, copy, todo, drafts, dirty, events, published>>

Finished == (\A p \in Requests : pc[p] \in Ended) /\ UNCHANGED vars

-----------------------------------------------------------------------------
Begin(p) == \E c \in Calls : BeginLedger(p, c) \/ FindForStatus(p, c)

\* What a request does once it is running.
Advance(p) ==
  \/ \E a \in Accounts : LockAccount(p, a) \/ AccountNotFound(p, a)
  \/ Validate(p)
  \/ \E t \in todo[p] : Post(p, t) \/ RefuseReversal(p, t)
  \/ Commit(p)
  \/ \E e \in events[p] : Publish(p, e)
  \/ ReloadForSave(p)
  \/ UpdateRow(p)

Next ==
  \/ \E p \in Requests : Begin(p) \/ Advance(p) \/ Crash(p)
  \/ Midnight
  \/ Finished

Spec == Init /\ [][Next]_vars

\* Node.js runs every started handler; Postgres grants a released row lock to
\* a waiter.  Clients need not send a request and pods need not crash.
FairSpec == Spec /\ \A p \in Requests : WF_vars(Advance(p))
-----------------------------------------------------------------------------
(* Properties *)

TypeOK ==
  /\ row \in [Accounts -> Row]
  /\ entries \in [Accounts -> Seq(Entry)]
  /\ lock \in [Accounts -> Requests \cup {Nobody}]
  /\ pc \in [Requests -> Pcs]
  /\ call \in [Requests -> Calls \cup {NoCall}]
  /\ began \in [Requests -> Nat]
  /\ toLock \in [Requests -> SUBSET Accounts]
  /\ copy \in [Requests -> [Accounts -> Row]]
  /\ todo \in [Requests -> SUBSET Posting]
  /\ drafts \in [Requests -> [Accounts -> Seq(Entry)]]
  /\ dirty \in [Requests -> SUBSET {"status", "balance"}]
  /\ events \in [Requests -> SUBSET Event]
  /\ published \subseteq Event
  /\ today \in Nat

\* Each entry's balanceAfter continues from the one before it.
Chain(start, lines) ==
  \A i \in DOMAIN lines :
    lines[i].after = lines[i].amount
                       + (IF i = 1 THEN start ELSE lines[i - 1].after)

Closing(start, lines) ==
  IF lines = <<>> THEN start ELSE lines[Len(lines)].after

\* Balances are never edited silently (ledger-entry.entity.ts): the history
\* of an account is an unbroken chain of running balances from zero to the
\* balance in its row.
BalanceExplained ==
  \A a \in Accounts :
    Chain(0, entries[a]) /\ row[a].balance = Closing(0, entries[a])

\* No posting, not even one later rolled back, takes a balance below zero:
\* the CHECK (balance_minor >= 0) of the schema never has to fire.
NeverOverdrawn ==
  \A a \in Accounts :
    row[a].balance >= 0 /\ \A p \in Requests : copy[p][a].balance >= 0

\* The sorted lock order: a request only ever waits for a row after all the
\* rows it holds, so no cycle of requests waits for one another.
LocksOrdered ==
  \A p \in Requests, a \in Accounts, b \in Accounts :
    lock[a] = p /\ b \in toLock[p] => a < b

\* The lines of the entries carrying ref, as multisets keyed by position.
Lines(ref) ==
  {[account |-> x[1], line |-> x[2],
    amount |-> entries[x[1]][x[2]].amount, type |-> entries[x[1]][x[2]].type] :
     x \in Positions(ref)}

HasLine(ref, account, amount, type) ==
  \E x \in Lines(ref) : x.account = account /\ x.amount = amount /\ x.type = type

\* A transaction is in the ledger whole or not at all: a transfer that left
\* one account arrived in the other, its fee with it, and a reversal has one
\* opposite line for each line of what it reverses.
WholeTransactions ==
  \A p \in Requests :
    Positions(p) # {} =>
      LET c == call[p]
      IN  IF c.op = "reverse"
          THEN /\ Cardinality(Positions(p)) = Cardinality(Positions(c.of))
               /\ \A x \in Lines(c.of) : HasLine(p, x.account, -x.amount, "REVERSAL")
          ELSE /\ Cardinality(Positions(p)) = Cardinality(Postings(c))
               /\ \A t \in Postings(c) : HasLine(p, t.account, t.amount, t.type)

\* What the daily-limit check counts never exceeds the limit, however many
\* withdrawals and transfers of the account run at once.
LimitHeld ==
  \A a \in Accounts :
    FoldLeft(LAMBDA sum, e :
               IF e.type \in {"WITHDRAWAL", "TRANSFER_OUT"} /\ e.day >= today
               THEN sum - e.amount ELSE sum, 0, entries[a]) <= Limit[a]

\* Events are published after the commit they report: an event on the bus has
\* its entry in the ledger (a status event has no entry).
NoPhantomEvents ==
  \A e \in published :
    e.type # "status" => \E x \in Positions(e.ref) : x[1] = e.key

\* A freeze or close cannot slip between the check of a debit and its commit:
\* a withdrawal or transfer is committed only while its account is ACTIVE.
DebitsNeedActive ==
  [][\A a \in Accounts : \A i \in DOMAIN entries'[a] \ DOMAIN entries[a] :
       entries'[a][i].type \in {"WITHDRAWAL", "TRANSFER_OUT"}
         => CanWithdraw(row[a].status)]_<<row, entries>>

\* Every request that starts comes to an end: no lock wait lasts for ever.
EveryRequestEnds == \A p \in Requests : pc[p] \in Running ~> pc[p] \in Ended

\* Unless its pod dies, a committed transaction gets all its events published.
EveryCommitIsAnnounced ==
  \A p \in Requests :
    pc[p] = "publishing" ~> pc[p] = "lost" \/ (pc[p] = "done" /\ events[p] = {})

-----------------------------------------------------------------------------
(* What the documents say and the code does not keep *)

\* "A transaction can only be reversed once" (knowledge/03).
ReversedOnce ==
  \A p, q \in Requests :
    /\ p # q /\ Positions(p) # {} /\ Positions(q) # {}
    /\ call[p].op = "reverse" /\ call[q].op = "reverse"
    => call[p].of # call[q].of
=============================================================================
