---------------------------- MODULE LedgerProofs ----------------------------
(***************************************************************************)
(* The ledger, for every set of requests, accounts, amounts, fees and      *)
(* limits: locks are taken in order, no balance is overdrawn, no debit     *)
(* meets an account that is not active, transactions are there whole,      *)
(* events have their entries, daily limits hold, and, where nobody changes *)
(* the status of accounts, every balance is explained by the entries of    *)
(* its account and the ledger implements the atomic Bank.                  *)
(***************************************************************************)
EXTENDS LedgerRefinesBank, Sums, TLAPS

-----------------------------------------------------------------------------
(* Type correctness *)

\* The rows, memory and events a call is about are those of its own type.
LEMMA PostingsType ==
  ASSUME TypeOK, NEW c \in Calls
  PROVE  Postings(c) \subseteq Posting
<1>1. CASE c \in DepositCalls
  BY <1>1, LedgerAssumption
     DEF DepositCalls, Postings, Posted, Posting, EntryTypes
<1>2. CASE c \in WithdrawCalls
  BY <1>2, LedgerAssumption
     DEF WithdrawCalls, Postings, Posted, Posting, EntryTypes
<1>3. CASE c \in TransferCalls
  BY <1>3, LedgerAssumption
     DEF TransferCalls, Postings, Posted, Posting, EntryTypes
<1>4. CASE c \in ReverseCalls
  <2>1. ASSUME NEW x \in Positions(c.of)
        PROVE  Posted(x[1], x[2], -entries[x[1]][x[2]].amount, "REVERSAL") \in Posting
    <3>0. PICK a \in Accounts : \E i \in DOMAIN entries[a] : x = <<a, i>>
      BY <2>1 DEF Positions
    <3>1. PICK i \in DOMAIN entries[a] : x = <<a, i>>
      BY <3>0
    <3>2. i \in Nat /\ entries[a][i] \in Entry
      BY <3>1 DEF TypeOK
    <3>. QED BY <3>1, <3>2 DEF Posted, Posting, EntryTypes, Entry
  <2>2. Postings(c) = {Posted(x[1], x[2], -entries[x[1]][x[2]].amount, "REVERSAL") :
                         x \in Positions(c.of)}
    BY <1>4 DEF ReverseCalls, Postings
  <2>. QED BY <2>1, <2>2
<1>5. CASE c \in StatusCalls
  BY <1>5 DEF StatusCalls, Postings
<1>. QED BY <1>1, <1>2, <1>3, <1>4, <1>5 DEF Calls

LEMMA EventsType ==
  ASSUME TypeOK, NEW p \in Requests, NEW c \in Calls
  PROVE  EventsOf(p, c) \subseteq Event
<1>1. CASE c \in DepositCalls
  BY <1>1 DEF DepositCalls, EventsOf, Announced, Event
<1>2. CASE c \in WithdrawCalls
  BY <1>2 DEF WithdrawCalls, EventsOf, Announced, Event
<1>3. CASE c \in TransferCalls
  BY <1>3 DEF TransferCalls, EventsOf, Announced, Event
<1>4. CASE c \in ReverseCalls
  <2>1. ASSUME NEW x \in Positions(c.of)
        PROVE  Announced(p, "reversed", x[1], x[2]) \in Event
    <3>0. PICK a \in Accounts : \E i \in DOMAIN entries[a] : x = <<a, i>>
      BY <2>1 DEF Positions
    <3>1. PICK i \in DOMAIN entries[a] : x = <<a, i>>
      BY <3>0
    <3>2. i \in Nat
      BY <3>1 DEF TypeOK
    <3>. QED BY <3>1, <3>2 DEF Announced, Event
  <2>2. EventsOf(p, c) = {Announced(p, "reversed", x[1], x[2]) : x \in Positions(c.of)}
    BY <1>4 DEF ReverseCalls, EventsOf
  <2>. QED BY <2>1, <2>2
<1>5. CASE c \in StatusCalls
  BY <1>5 DEF StatusCalls, EventsOf, Announced, Event
<1>. QED BY <1>1, <1>2, <1>3, <1>4, <1>5 DEF Calls

\* The op of a call names its shape.
LEMMA CallShape ==
  ASSUME NEW c \in Calls \cup {NoCall}
  PROVE  /\ c.op = "deposit" <=> c \in DepositCalls
         /\ c.op = "withdraw" <=> c \in WithdrawCalls
         /\ c.op = "transfer" <=> c \in TransferCalls
         /\ c.op = "reverse" <=> c \in ReverseCalls
         /\ c.op = "status" <=> c \in StatusCalls
<1>1. \A x \in DepositCalls : x.op = "deposit"
  BY DEF DepositCalls
<1>2. \A x \in WithdrawCalls : x.op = "withdraw"
  BY DEF WithdrawCalls
<1>3. \A x \in TransferCalls : x.op = "transfer"
  BY DEF TransferCalls
<1>4. \A x \in ReverseCalls : x.op = "reverse"
  BY DEF ReverseCalls
<1>5. \A x \in StatusCalls : x.op = "status"
  BY DEF StatusCalls
<1>6. NoCall.op = "none"
  BY DEF NoCall
<1>. QED BY <1>1, <1>2, <1>3, <1>4, <1>5, <1>6 DEF Calls

LEMMA InitType == Init => TypeOK
<1>. SUFFICES ASSUME Init PROVE TypeOK
  OBVIOUS
<1>1. row \in [Accounts -> Row]
  BY LedgerAssumption DEF Init, Row, Statuses
<1>2. entries \in [Accounts -> Seq(Entry)]
  <2>1. ASSUME NEW a \in Accounts PROVE entries[a] \in Seq(Entry)
    <3>. DEFINE first == [ref |-> OpeningRef, of |-> OpeningRef,
                          amount |-> OpeningBalance[a], type |-> "DEPOSIT",
                          after |-> OpeningBalance[a], day |-> 0]
    <3>1. OpeningBalance[a] \in Int
      BY LedgerAssumption
    <3>2. first \in Entry
      BY <3>1 DEF Entry, References, EntryTypes
    <3>3. <<first>> \in Seq(Entry)
      BY <3>2
    <3>4. entries[a] = IF OpeningBalance[a] = 0 THEN <<>> ELSE <<first>>
      BY DEF Init
    <3>. QED BY <3>3, <3>4
  <2>. QED BY <2>1 DEF Init
<1>3. Blank \in [Accounts -> Row]
  BY DEF Blank, Row, Statuses
<1>4. NoDraft \in [Accounts -> Seq(Entry)]
  BY DEF NoDraft
<1>. QED BY <1>1, <1>2, <1>3, <1>4 DEF Init, TypeOK, Pcs

\* What every ended or rolled back request leaves behind is well typed.
LEMMA LeaveType ==
  ASSUME TypeOK, NEW p \in Requests, NEW end \in Pcs, Leave(p, end)
  PROVE  /\ lock' \in [Accounts -> Requests \cup {Nobody}]
         /\ pc' \in [Requests -> Pcs]
         /\ toLock' \in [Requests -> SUBSET Accounts]
         /\ copy' \in [Requests -> [Accounts -> Row]]
         /\ todo' \in [Requests -> SUBSET Posting]
         /\ drafts' \in [Requests -> [Accounts -> Seq(Entry)]]
         /\ dirty' \in [Requests -> SUBSET {"status", "balance"}]
<1>1. Blank \in [Accounts -> Row]
  BY DEF Blank, Row, Statuses
<1>2. NoDraft \in [Accounts -> Seq(Entry)]
  BY DEF NoDraft
<1>. QED BY <1>1, <1>2 DEF Leave, TypeOK

LEMMA RollbackType ==
  ASSUME TypeOK, NEW p \in Requests, NEW end \in Pcs, Rollback(p, end)
  PROVE  TypeOK'
  BY LeaveType DEF Rollback, TypeOK, tables, outside

LEMMA TurnedType ==
  ASSUME TypeOK, NEW p \in Requests, NEW c \in Calls, Turned(p, c)
  PROVE  TypeOK'
  BY DEF Turned, TypeOK, tables, outside, Pcs, Ended

LEMMA BeginLedgerType ==
  ASSUME TypeOK, NEW p \in Requests, NEW c \in Calls, BeginLedger(p, c)
  PROVE  TypeOK'
<1>1. CASE Refuses(c)
  BY <1>1, TurnedType DEF BeginLedger
<1>2. CASE ~Refuses(c)
  <2>1. Postings(c) \in SUBSET Posting /\ EventsOf(p, c) \in SUBSET Event
    BY PostingsType, EventsType
  <2>2. {t.account : t \in Postings(c)} \in SUBSET Accounts
    BY <2>1 DEF Posting
  <2>3. /\ pc' = [pc EXCEPT ![p] = "locking"]
        /\ call' = [call EXCEPT ![p] = c]
        /\ began' = [began EXCEPT ![p] = today]
        /\ todo' = [todo EXCEPT ![p] = Postings(c)]
        /\ toLock' = [toLock EXCEPT ![p] = {t.account : t \in Postings(c)}]
        /\ events' = [events EXCEPT ![p] = EventsOf(p, c)]
        /\ UNCHANGED <<row, entries, lock, copy, drafts, dirty, published, today>>
    BY <1>2 DEF BeginLedger, tables, outside
  <2>4. "locking" \in Pcs
    BY DEF Pcs, Running
  <2>. QED BY <2>1, <2>2, <2>3, <2>4 DEF TypeOK
<1>. QED BY <1>1, <1>2

LEMMA EntryForType ==
  ASSUME TypeOK, NEW p \in Requests, NEW t \in todo[p]
  PROVE  EntryFor(p, t) \in Entry
<1>1. t \in Posting /\ t.account \in Accounts /\ t.amount \in Int
  BY DEF TypeOK, Posting
<1>2. copy[p][t.account] \in Row /\ copy[p][t.account].balance \in Int
  BY <1>1 DEF TypeOK, Row
<1>3. call[p].op = "reverse" => call[p].of \in References
  BY CallShape DEF TypeOK, ReverseCalls, References
<1>. QED BY <1>1, <1>2, <1>3 DEF EntryFor, Entry, References, Posting, TypeOK

LEMMA PostType ==
  ASSUME TypeOK, NEW p \in Requests, NEW t \in todo[p], Post(p, t)
  PROVE  TypeOK'
<1>1. t \in Posting /\ t.account \in Accounts /\ t.amount \in Int
  BY DEF TypeOK, Posting
<1>2. copy[p][t.account] \in Row /\ copy[p][t.account].balance \in Int
  BY <1>1 DEF TypeOK, Row
<1>3. EntryFor(p, t) \in Entry
  BY EntryForType
<1>4. copy' \in [Requests -> [Accounts -> Row]]
  <2>1. [copy[p][t.account] EXCEPT !.balance = @ + t.amount] \in Row
    BY <1>1, <1>2 DEF Row
  <2>. QED BY <1>1, <2>1 DEF Post, TypeOK
<1>5. drafts' \in [Requests -> [Accounts -> Seq(Entry)]]
  BY <1>1, <1>3 DEF Post, TypeOK
<1>. QED BY <1>4, <1>5 DEF Post, TypeOK, tables, outside

LEMMA CommitType ==
  ASSUME TypeOK, NEW p \in Requests, Commit(p)
  PROVE  TypeOK'
<1>1. row' \in [Accounts -> Row]
  <2>1. ASSUME NEW a \in Accounts
        PROVE  /\ row[a] \in Row
               /\ [row[a] EXCEPT !.balance = copy[p][a].balance] \in Row
    <3>1. row[a] \in Row /\ copy[p][a] \in Row
      BY DEF TypeOK
    <3>. QED BY <3>1 DEF Row
  <2>. QED BY <2>1 DEF Commit
<1>2. entries' \in [Accounts -> Seq(Entry)]
  BY DEF Commit, TypeOK
<1>. QED BY <1>1, <1>2, LeaveType DEF Commit, TypeOK, outside, Pcs, Running

LEMMA PublishType ==
  ASSUME TypeOK, NEW p \in Requests, NEW e \in events[p], Publish(p, e)
  PROVE  TypeOK'
  BY DEF Publish, TypeOK, tables, Pcs, Ended

LEMMA FindForStatusType ==
  ASSUME TypeOK, NEW p \in Requests, NEW c \in Calls, FindForStatus(p, c)
  PROVE  TypeOK'
<1>1. CASE /\ c.account \in Opened
           /\ IsLegal(row[c.account].status, c.action, row[c.account].balance)
  <2>. DEFINE changed == [row[c.account] EXCEPT !.status = StatusAfter[c.action]]
  <2>1. c.account \in Accounts /\ c.action \in StatusActions
    BY CallShape DEF FindForStatus, StatusCalls
  <2>2. StatusAfter[c.action] \in Statuses
    BY <2>1 DEF StatusActions, StatusAfter, Statuses
  <2>3. changed \in Row
    <3>1. row[c.account] \in Row
      BY <2>1 DEF TypeOK
    <3>. QED BY <3>1, <2>2 DEF Row
  <2>4. EventsOf(p, c) \in SUBSET Event
    BY EventsType
  <2>5. /\ pc' = [pc EXCEPT ![p] = "saving"]
        /\ call' = [call EXCEPT ![p] = c]
        /\ copy' = [copy EXCEPT ![p][c.account] = changed]
        /\ events' = [events EXCEPT ![p] = EventsOf(p, c)]
        /\ UNCHANGED <<row, entries, lock, began, toLock, todo, drafts, dirty,
                       published, today>>
    BY <1>1 DEF FindForStatus, tables, outside
  <2>6. "saving" \in Pcs
    BY DEF Pcs, Running
  <2>7. copy' \in [Requests -> [Accounts -> Row]]
    BY <2>1, <2>3, <2>5 DEF TypeOK
  <2>. QED BY <2>4, <2>5, <2>6, <2>7 DEF TypeOK
<1>2. CASE ~(/\ c.account \in Opened
             /\ IsLegal(row[c.account].status, c.action, row[c.account].balance))
  BY <1>2, TurnedType DEF FindForStatus
<1>. QED BY <1>1, <1>2

LEMMA UpdateRowType ==
  ASSUME TypeOK, NEW p \in Requests, UpdateRow(p)
  PROVE  TypeOK'
<1>. DEFINE a == call[p].account
            written(col) == IF col \in dirty[p] THEN copy[p][a][col] ELSE row[a][col]
<1>1. row' \in [Accounts -> Row]
  <2>1. row' = [row EXCEPT ![a] = [status |-> written("status"),
                                   balance |-> written("balance")]]
    BY DEF UpdateRow
  <2>2. CASE a \in Accounts
    <3>1. row[a] \in Row /\ copy[p][a] \in Row
      BY <2>2 DEF TypeOK
    <3>2. [status |-> written("status"), balance |-> written("balance")] \in Row
      BY <3>1 DEF Row
    <3>. QED BY <2>1, <2>2, <3>2 DEF TypeOK
  <2>3. CASE a \notin Accounts
    BY <2>1, <2>3 DEF TypeOK
  <2>. QED BY <2>2, <2>3
<1>. QED BY <1>1, LeaveType DEF UpdateRow, TypeOK, outside, Pcs, Running

LEMMA NextType == TypeOK /\ [Next]_vars => TypeOK'
<1>. SUFFICES ASSUME TypeOK, [Next]_vars PROVE TypeOK'
  OBVIOUS
<1>1. ASSUME NEW p \in Requests, Begin(p) PROVE TypeOK'
  BY <1>1, BeginLedgerType, FindForStatusType DEF Begin
<1>2. ASSUME NEW p \in Requests, Advance(p) PROVE TypeOK'
  <2>1. ASSUME NEW a \in Accounts, LockAccount(p, a) PROVE TypeOK'
    BY <2>1 DEF LockAccount, TypeOK, tables, outside
  <2>2. ASSUME NEW a \in Accounts, AccountNotFound(p, a) PROVE TypeOK'
    BY <2>2, RollbackType DEF AccountNotFound, Pcs, Ended
  <2>3. CASE Validate(p)
    <3>1. CASE Accepts(p)
      BY <2>3, <3>1 DEF Validate, TypeOK, tables, outside, Pcs, Running
    <3>2. CASE ~Accepts(p)
      BY <2>3, <3>2, RollbackType DEF Validate, Pcs, Ended
    <3>. QED BY <3>1, <3>2
  <2>4. ASSUME NEW t \in todo[p], Post(p, t) PROVE TypeOK'
    BY <2>4, PostType
  <2>5. ASSUME NEW t \in todo[p], RefuseReversal(p, t) PROVE TypeOK'
    BY <2>5, RollbackType DEF RefuseReversal, Pcs, Ended
  <2>6. CASE Commit(p)
    BY <2>6, CommitType
  <2>7. ASSUME NEW e \in events[p], Publish(p, e) PROVE TypeOK'
    BY <2>7, PublishType
  <2>8. CASE ReloadForSave(p)
    BY <2>8 DEF ReloadForSave, TypeOK, tables, outside, Pcs, Running
  <2>9. CASE UpdateRow(p)
    BY <2>9, UpdateRowType
  <2>. QED BY <1>2, <2>1, <2>2, <2>3, <2>4, <2>5, <2>6, <2>7, <2>8, <2>9 DEF Advance
<1>3. ASSUME NEW p \in Requests, Crash(p) PROVE TypeOK'
  BY <1>3, RollbackType DEF Crash, Pcs, Ended
<1>4. CASE Midnight
  BY <1>4 DEF Midnight, TypeOK, tables
<1>5. CASE Finished \/ UNCHANGED vars
  BY <1>5 DEF Finished, TypeOK, vars
<1>. QED BY <1>1, <1>2, <1>3, <1>4, <1>5 DEF Next

\* The state keeps its shape: rows, entries, locks and every request's memory
\* stay in their types.
THEOREM TypeCorrect == Spec => []TypeOK
  BY InitType, NextType, PTL DEF Spec

-----------------------------------------------------------------------------
(* Lock order *)

\* Row locks live exactly as long as a ledger transaction.
LocksInTransaction ==
  \A p \in Requests :
    /\ \A a \in Accounts : lock[a] = p => pc[p] \in {"locking", "posting"}
    /\ toLock[p] # {} => pc[p] = "locking"

LockInv == LocksInTransaction /\ LocksOrdered

LEMMA LeaveLocks ==
  ASSUME TypeOK, LockInv, NEW p \in Requests, NEW end, Leave(p, end)
  PROVE  LockInv'
<1>1. /\ \A a \in Accounts : lock'[a] = IF lock[a] = p THEN Nobody ELSE lock[a]
      /\ \A q \in Requests : toLock'[q] = IF q = p THEN {} ELSE toLock[q]
      /\ \A q \in Requests : q # p => pc'[q] = pc[q]
  BY DEF Leave, TypeOK
<1>2. LocksInTransaction'
  <2>1. ASSUME NEW q \in Requests, NEW a \in Accounts, lock'[a] = q
        PROVE  pc'[q] \in {"locking", "posting"}
    <3>1. q # p /\ lock[a] = q
      BY <1>1, <2>1, LedgerAssumption
    <3>. QED BY <1>1, <3>1 DEF LockInv, LocksInTransaction
  <2>2. ASSUME NEW q \in Requests, toLock'[q] # {}
        PROVE  pc'[q] = "locking"
    BY <1>1, <2>2 DEF LockInv, LocksInTransaction
  <2>. QED BY <2>1, <2>2 DEF LocksInTransaction
<1>3. LocksOrdered'
  <2>1. ASSUME NEW q \in Requests, NEW a \in Accounts, NEW b \in Accounts,
               lock'[a] = q, b \in toLock'[q]
        PROVE  a < b
    <3>1. lock[a] = q /\ b \in toLock[q]
      BY <1>1, <2>1, LedgerAssumption
    <3>. QED BY <3>1 DEF LockInv, LocksOrdered
  <2>. QED BY <2>1 DEF LocksOrdered
<1>. QED BY <1>2, <1>3 DEF LockInv

LEMMA NextLocks == TypeOK /\ LockInv /\ [Next]_vars => LockInv'
<1>. SUFFICES ASSUME TypeOK, LockInv, [Next]_vars PROVE LockInv'
  OBVIOUS
<1>1. ASSUME NEW p \in Requests, NEW c \in Calls, BeginLedger(p, c)
      PROVE  LockInv'
  \* An idle request holds no lock, so any set of rows comes after them.
  <2>1. UNCHANGED lock /\ \A a \in Accounts : lock[a] # p
    BY <1>1 DEF BeginLedger, Turned, LockInv, LocksInTransaction
  <2>2. \A q \in Requests \ {p} : pc'[q] = pc[q] /\ toLock'[q] = toLock[q]
    BY <1>1 DEF BeginLedger, Turned, TypeOK
  <2>3. toLock'[p] # {} => pc'[p] = "locking"
    <3>1. CASE Refuses(c)
      BY <1>1, <3>1 DEF BeginLedger, Turned, LockInv, LocksInTransaction
    <3>2. CASE ~Refuses(c)
      BY <1>1, <3>2 DEF BeginLedger, TypeOK
    <3>. QED BY <3>1, <3>2
  <2>. QED BY <2>1, <2>2, <2>3 DEF LockInv, LocksInTransaction, LocksOrdered
<1>2. ASSUME NEW p \in Requests, NEW c \in Calls, FindForStatus(p, c)
      PROVE  LockInv'
  <2>1. UNCHANGED <<lock, toLock>> /\ \A a \in Accounts : lock[a] # p
    BY <1>2 DEF FindForStatus, Turned, LockInv, LocksInTransaction
  <2>2. \A q \in Requests \ {p} : pc'[q] = pc[q]
    BY <1>2 DEF FindForStatus, Turned, TypeOK
  <2>3. toLock[p] = {}
    BY <1>2 DEF FindForStatus, LockInv, LocksInTransaction
  <2>. QED BY <2>1, <2>2, <2>3 DEF LockInv, LocksInTransaction, LocksOrdered
<1>3. ASSUME NEW p \in Requests, NEW a \in Accounts, LockAccount(p, a)
      PROVE  LockInv'
  \* The row taken is the least one still wanted.
  <2>1. /\ lock' = [lock EXCEPT ![a] = p]
        /\ toLock' = [toLock EXCEPT ![p] = toLock[p] \ {a}]
        /\ pc' = pc /\ pc[p] = "locking"
    BY <1>3 DEF LockAccount
  <2>2. \A b \in toLock[p] : a <= b
    BY <1>3 DEF LockAccount, IsNext
  <2>3. LocksInTransaction'
    BY <2>1 DEF LockInv, LocksInTransaction, TypeOK
  <2>4. ASSUME NEW q \in Requests, NEW h \in Accounts, NEW b \in Accounts,
               lock'[h] = q, b \in toLock'[q]
        PROVE  h < b
    <3>0. a \in Nat /\ b \in Nat /\ h \in Nat
      BY LedgerAssumption
    <3>1. CASE h = a
      <4>1. q = p /\ b \in toLock[p] /\ b # a
        BY <2>1, <2>4, <3>1 DEF TypeOK
      <4>. QED BY <4>1, <2>2, <3>0, <3>1
    <3>2. CASE h # a
      <4>1. lock[h] = q /\ b \in toLock[q]
        BY <2>1, <2>4, <3>2 DEF TypeOK
      <4>. QED BY <4>1 DEF LockInv, LocksOrdered
    <3>. QED BY <3>1, <3>2
  <2>. QED BY <2>3, <2>4 DEF LockInv, LocksOrdered
<1>4. ASSUME NEW p \in Requests, NEW end, Rollback(p, end) PROVE LockInv'
  BY <1>4, LeaveLocks DEF Rollback
<1>5. ASSUME NEW p \in Requests, Validate(p) PROVE LockInv'
  <2>1. CASE Accepts(p)
    <3>1. /\ UNCHANGED <<lock, toLock>> /\ toLock[p] = {}
          /\ pc' = [pc EXCEPT ![p] = "posting"]
      BY <1>5, <2>1 DEF Validate
    <3>. QED BY <3>1 DEF LockInv, LocksInTransaction, LocksOrdered, TypeOK
  <2>2. CASE ~Accepts(p)
    BY <1>5, <2>2, <1>4 DEF Validate
  <2>. QED BY <2>1, <2>2
<1>6. ASSUME NEW p \in Requests, NEW t \in todo[p], Post(p, t) PROVE LockInv'
  BY <1>6 DEF Post, LockInv, LocksInTransaction, LocksOrdered
<1>7. ASSUME NEW p \in Requests, Commit(p) \/ UpdateRow(p) PROVE LockInv'
  BY <1>7, LeaveLocks DEF Commit, UpdateRow
<1>8. ASSUME NEW p \in Requests, NEW e \in events[p], Publish(p, e)
      PROVE  LockInv'
  <2>1. /\ UNCHANGED <<lock, toLock>> /\ pc[p] = "publishing"
        /\ \A q \in Requests \ {p} : pc'[q] = pc[q]
    BY <1>8 DEF Publish, MayPublish, TypeOK
  <2>. QED BY <2>1 DEF LockInv, LocksInTransaction, LocksOrdered
<1>9. ASSUME NEW p \in Requests, ReloadForSave(p) PROVE LockInv'
  <2>1. /\ UNCHANGED <<lock, toLock>> /\ pc[p] = "saving"
        /\ \A q \in Requests \ {p} : pc'[q] = pc[q]
    BY <1>9 DEF ReloadForSave, TypeOK
  <2>. QED BY <2>1 DEF LockInv, LocksInTransaction, LocksOrdered
<1>10. CASE Midnight \/ Finished \/ UNCHANGED vars
  BY <1>10 DEF Midnight, Finished, vars, LockInv, LocksInTransaction, LocksOrdered
<1>. QED
  BY <1>1, <1>2, <1>3, <1>4, <1>5, <1>6, <1>7, <1>8, <1>9, <1>10
     DEF Next, Begin, Advance, AccountNotFound, RefuseReversal, Crash

\* The sorted lock order of transfer() and reverse() holds for any number of
\* requests and rows, so no cycle of transactions waits for each other.
THEOREM LockOrder == Spec => []LocksOrdered
<1>1. Init => LockInv
  BY LedgerAssumption DEF Init, LockInv, LocksInTransaction, LocksOrdered
<1>. QED BY <1>1, NextLocks, TypeCorrect, PTL DEF Spec, LockInv

-----------------------------------------------------------------------------
(* No overdraft *)

Moving(p) == pc[p] \in {"locking", "posting"}

\* A ledger call has left to post only lines of its own.
Planned(p) ==
  Moving(p) =>
    /\ call[p].op \in {"deposit", "withdraw", "transfer", "reverse"}
    /\ call[p].op # "reverse" => todo[p] \subseteq Postings(call[p])
    /\ call[p].op = "transfer" => call[p].from # call[p].to

\* What the chain has checked stays covered by the entity until it is posted.
Funded(p) ==
  pc[p] = "posting" =>
    /\ call[p].op = "withdraw" /\ todo[p] # {} =>
         copy[p][call[p].from].balance >= call[p].amount
    /\ call[p].op = "transfer" =>
         \A t \in todo[p] :
           /\ t.type = "TRANSFER_OUT" =>
                copy[p][call[p].from].balance >= call[p].amount + call[p].fee
           /\ t.type = "FEE" => copy[p][call[p].from].balance >= call[p].fee

FundsInv == NeverOverdrawn /\ \A p \in Requests : Planned(p) /\ Funded(p)

\* A request whose own state does not change keeps its part of FundsInv.
LEMMA FundsFrame ==
  ASSUME NEW q, Planned(q), Funded(q),
         pc'[q] = pc[q], call'[q] = call[q], todo'[q] = todo[q], copy'[q] = copy[q]
  PROVE  Planned(q)' /\ Funded(q)'
<1>1. Planned(q)'
  <2>1. SUFFICES ASSUME Moving(q)', call'[q].op # "reverse"
                 PROVE  todo'[q] \subseteq Postings(call[q])'
    BY DEF Planned, Moving
  <2>2. call[q].op # "reverse" /\ Moving(q)
    BY <2>1 DEF Moving
  <2>3. Postings(call[q])' = Postings(call[q])
    BY <2>2 DEF Postings
  <2>. QED BY <2>2, <2>3 DEF Planned
<1>2. Funded(q)'
  BY DEF Funded
<1>. QED BY <1>1, <1>2

LEMMA FundsLeave ==
  ASSUME TypeOK, FundsInv, NEW p \in Requests, NEW end, Leave(p, end),
         end \notin {"locking", "posting"}, UNCHANGED call,
         \A a \in Accounts : row'[a].balance >= 0
  PROVE  FundsInv'
<1>1. /\ pc'[p] = end
      /\ copy'[p] = Blank
      /\ \A q \in Requests \ {p} : /\ pc'[q] = pc[q] /\ todo'[q] = todo[q]
                                   /\ copy'[q] = copy[q] /\ call'[q] = call[q]
  BY DEF Leave, TypeOK
<1>2. NeverOverdrawn'
  <2>1. ASSUME NEW a \in Accounts, NEW q \in Requests
        PROVE  copy'[q][a].balance >= 0
    BY <1>1 DEF FundsInv, NeverOverdrawn, Blank
  <2>. QED BY <2>1 DEF NeverOverdrawn
<1>3. Planned(p)' /\ Funded(p)'
  BY <1>1 DEF Planned, Funded, Moving
<1>4. ASSUME NEW q \in Requests \ {p} PROVE Planned(q)' /\ Funded(q)'
  BY <1>1, <1>4, FundsFrame DEF FundsInv
<1>. QED BY <1>2, <1>3, <1>4 DEF FundsInv

LEMMA FundsRollback ==
  ASSUME TypeOK, FundsInv, NEW p \in Requests, NEW end, Rollback(p, end),
         end \notin {"locking", "posting"}
  PROVE  FundsInv'
<1>1. \A a \in Accounts : row'[a].balance >= 0
  BY DEF Rollback, tables, FundsInv, NeverOverdrawn
<1>. QED BY <1>1, FundsLeave DEF Rollback

\* A call refused at once runs nothing.
LEMMA FundsTurned ==
  ASSUME TypeOK, FundsInv, NEW p \in Requests, NEW c, Turned(p, c)
  PROVE  FundsInv'
<1>1. /\ UNCHANGED <<row, copy>>
      /\ pc'[p] = "refused"
      /\ \A q \in Requests \ {p} : /\ pc'[q] = pc[q] /\ todo'[q] = todo[q]
                                   /\ copy'[q] = copy[q] /\ call'[q] = call[q]
  BY DEF Turned, tables, TypeOK
<1>2. Planned(p)' /\ Funded(p)'
  BY <1>1 DEF Planned, Funded, Moving
<1>3. ASSUME NEW q \in Requests \ {p} PROVE Planned(q)' /\ Funded(q)'
  BY <1>1, <1>3, FundsFrame DEF FundsInv
<1>. QED BY <1>1, <1>2, <1>3 DEF FundsInv, NeverOverdrawn

LEMMA FundsBegin ==
  ASSUME TypeOK, FundsInv, NEW p \in Requests, NEW c \in Calls, BeginLedger(p, c)
  PROVE  FundsInv'
<1>1. CASE Refuses(c)
  BY <1>1, FundsTurned DEF BeginLedger
<1>2. CASE ~Refuses(c)
  <2>1. /\ UNCHANGED <<row, copy>>
        /\ pc'[p] = "locking" /\ call'[p] = c /\ todo'[p] = Postings(c)
        /\ \A q \in Requests \ {p} : /\ pc'[q] = pc[q] /\ todo'[q] = todo[q]
                                     /\ copy'[q] = copy[q] /\ call'[q] = call[q]
    BY <1>2 DEF BeginLedger, tables, TypeOK
  <2>2. c.op \in {"deposit", "withdraw", "transfer", "reverse"}
    BY LedgerAssumption DEF BeginLedger, Ops
  <2>3. c.op = "transfer" => c.from # c.to
    BY <1>2 DEF Refuses
  <2>4. Planned(p)'
    <3>1. c.op # "reverse" => Postings(c)' = Postings(c)
      BY DEF Postings
    <3>. QED BY <2>1, <2>2, <2>3, <3>1 DEF Planned
  <2>5. Funded(p)'
    BY <2>1 DEF Funded
  <2>6. ASSUME NEW q \in Requests \ {p} PROVE Planned(q)' /\ Funded(q)'
    BY <2>1, <2>6, FundsFrame DEF FundsInv
  <2>. QED BY <2>1, <2>4, <2>5, <2>6 DEF FundsInv, NeverOverdrawn
<1>. QED BY <1>1, <1>2

LEMMA FundsFind ==
  ASSUME TypeOK, FundsInv, NEW p \in Requests, NEW c \in Calls, FindForStatus(p, c)
  PROVE  FundsInv'
<1>. DEFINE a == c.account
            accepted == a \in Opened /\ IsLegal(row[a].status, c.action, row[a].balance)
            changed == [row[a] EXCEPT !.status = StatusAfter[c.action]]
<1>1. CASE ~accepted
  BY <1>1, FundsTurned DEF FindForStatus
<1>2. CASE accepted
  <2>1. /\ UNCHANGED row
        /\ pc' = [pc EXCEPT ![p] = "saving"]
        /\ call' = [call EXCEPT ![p] = c]
        /\ copy' = [copy EXCEPT ![p][a] = changed]
        /\ UNCHANGED todo
    BY <1>2 DEF FindForStatus, tables
  <2>2. a \in Accounts
    BY CallShape DEF FindForStatus, StatusCalls
  <2>3. changed.balance = row[a].balance
    BY <2>2 DEF TypeOK, Row
  <2>4. ASSUME NEW b \in Accounts, NEW q \in Requests
        PROVE  copy'[q][b].balance >= 0
    BY <2>1, <2>2, <2>3 DEF TypeOK, FundsInv, NeverOverdrawn
  <2>5. Planned(p)' /\ Funded(p)'
    BY <2>1 DEF TypeOK, Planned, Funded, Moving
  <2>6. ASSUME NEW q \in Requests \ {p} PROVE Planned(q)' /\ Funded(q)'
    <3>1. pc'[q] = pc[q] /\ todo'[q] = todo[q] /\ copy'[q] = copy[q] /\ call'[q] = call[q]
      BY <2>1, <2>6 DEF TypeOK
    <3>. QED BY <3>1, FundsFrame DEF FundsInv
  <2>. QED BY <2>1, <2>4, <2>5, <2>6 DEF FundsInv, NeverOverdrawn
<1>. QED BY <1>1, <1>2

LEMMA FundsLock ==
  ASSUME TypeOK, FundsInv, NEW p \in Requests, NEW a \in Accounts, LockAccount(p, a)
  PROVE  FundsInv'
<1>1. /\ UNCHANGED <<row, pc, call, todo>> /\ pc[p] = "locking"
      /\ copy' = [copy EXCEPT ![p][a] = row[a]]
  BY DEF LockAccount, tables
<1>2. ASSUME NEW b \in Accounts, NEW q \in Requests
      PROVE  copy'[q][b].balance >= 0
  BY <1>1 DEF TypeOK, FundsInv, NeverOverdrawn
<1>3. Planned(p)'
  <2>1. call[p].op # "reverse" => Postings(call[p])' = Postings(call[p])
    BY <1>1 DEF Postings
  <2>. QED BY <1>1, <2>1 DEF Planned, Moving, FundsInv
<1>4. Funded(p)'
  BY <1>1 DEF Funded
<1>5. ASSUME NEW q \in Requests \ {p} PROVE Planned(q)' /\ Funded(q)'
  <2>1. copy'[q] = copy[q]
    BY <1>1, <1>5 DEF TypeOK
  <2>. QED BY <1>1, <2>1, FundsFrame DEF FundsInv
<1>. QED BY <1>1, <1>2, <1>3, <1>4, <1>5 DEF FundsInv, NeverOverdrawn

LEMMA FundsValidate ==
  ASSUME TypeOK, FundsInv, NEW p \in Requests, Validate(p)
  PROVE  FundsInv'
<1>. DEFINE c == call[p]
<1>1. CASE ~Accepts(p)
  BY <1>1, FundsRollback DEF Validate
<1>2. CASE Accepts(p)
  <2>1. /\ UNCHANGED <<row, copy, call, todo>>
        /\ pc[p] = "locking" /\ pc' = [pc EXCEPT ![p] = "posting"]
    BY <1>2 DEF Validate, tables
  <2>2. Planned(p)'
    <3>1. c.op # "reverse" => Postings(c)' = Postings(c)
      BY <2>1 DEF Postings
    <3>. QED BY <2>1, <3>1 DEF Planned, Moving, FundsInv, TypeOK
  <2>3. c.op = "withdraw" => copy[p][c.from].balance >= c.amount
    BY <1>2 DEF Accepts, Validates
  <2>4. c.op = "transfer" => /\ copy[p][c.from].balance >= c.amount + c.fee
                             /\ copy[p][c.from].balance >= c.fee
    <3>1. SUFFICES ASSUME c.op = "transfer"
                   PROVE  /\ copy[p][c.from].balance >= c.amount + c.fee
                          /\ copy[p][c.from].balance >= c.fee
      OBVIOUS
    <3>2. /\ Validates("WITHDRAWAL", c.amount + c.fee, copy[p][c.from],
                       WithdrawnToday(c.from), Limit[c.from])
          /\ Validates("DEPOSIT", c.amount, copy[p][c.to], 0, Limit[c.to])
      BY <1>2, <3>1 DEF Accepts
    <3>3. copy[p][c.from].balance >= c.amount + c.fee /\ c.amount > 0
      BY <3>2 DEF Validates
    <3>4. c \in Calls \cup {NoCall} /\ copy[p] \in [Accounts -> Row]
      BY DEF TypeOK
    <3>5. c.from \in Accounts /\ c.amount \in Nat /\ c.fee \in Nat
      BY <3>1, <3>4, CallShape, LedgerAssumption DEF TransferCalls
    <3>6. copy[p][c.from].balance \in Int
      BY <3>4, <3>5 DEF Row
    <3>. QED BY <3>3, <3>5, <3>6
  <2>5. Funded(p)'
    BY <2>1, <2>3, <2>4 DEF Funded
  <2>6. ASSUME NEW q \in Requests \ {p} PROVE Planned(q)' /\ Funded(q)'
    BY <2>1, <2>6, FundsFrame DEF FundsInv, TypeOK
  <2>. QED BY <2>1, <2>2, <2>5, <2>6 DEF FundsInv, NeverOverdrawn
<1>. QED BY <1>1, <1>2

LEMMA FundsPost ==
  ASSUME TypeOK, FundsInv, NEW p \in Requests, NEW t \in todo[p], Post(p, t)
  PROVE  FundsInv'
<1>. DEFINE c == call[p]
            a == t.account
            old == copy[p][a].balance
            new == old + t.amount
<1>1. /\ UNCHANGED <<row, pc, call>> /\ pc[p] = "posting"
      /\ copy' = [copy EXCEPT ![p][a].balance = new]
      /\ todo' = [todo EXCEPT ![p] = todo[p] \ {t}]
  BY DEF Post, tables
<1>2. /\ a \in Accounts /\ t.amount \in Int /\ t.line \in Nat
      /\ copy[p][a] \in Row /\ old \in Int /\ old >= 0
  BY DEF TypeOK, Posting, Row, FundsInv, NeverOverdrawn
<1>3. /\ copy'[p][a].balance = new
      /\ \A b \in Accounts \ {a} : copy'[p][b] = copy[p][b]
  BY <1>1, <1>2 DEF TypeOK, Row
<1>4. Planned(p) /\ Funded(p) /\ Moving(p)
  BY <1>1 DEF FundsInv, Moving
<1>5. c \in Calls \cup {NoCall}
  BY DEF TypeOK
<1>6. c.op \in {"deposit", "withdraw", "transfer", "reverse"}
  BY <1>4 DEF Planned
<1>7. new >= 0 /\ Funded(p)'
  <2>1. CASE c.op = "deposit"
    <3>1. t = Posted(c.to, 1, c.amount, "DEPOSIT") /\ c.amount \in Nat
      BY <1>4, <1>5, <2>1, CallShape, LedgerAssumption
         DEF Planned, Postings, DepositCalls
    <3>. QED BY <3>1, <1>1, <1>2, <2>1 DEF Posted, Funded
  <2>2. CASE c.op = "withdraw"
    <3>1. todo[p] = {t} /\ t = Posted(c.from, 1, -c.amount, "WITHDRAWAL")
      BY <1>4, <2>2 DEF Planned, Postings
    <3>2. c.amount \in Nat /\ old >= c.amount
      BY <1>1, <1>4, <1>5, <2>2, <3>1, CallShape, LedgerAssumption
         DEF Funded, Posted, WithdrawCalls
    <3>3. todo'[p] = {}
      BY <1>1, <3>1 DEF TypeOK
    <3>. QED BY <1>1, <1>2, <2>2, <3>1, <3>2, <3>3 DEF Posted, Funded
  <2>3. CASE c.op = "transfer"
    <3>. DEFINE out == Posted(c.from, 1, -c.amount, "TRANSFER_OUT")
                fee == Posted(c.from, 2, -c.fee, "FEE")
                in  == Posted(c.to, 3, c.amount, "TRANSFER_IN")
    <3>1. /\ c.from \in Accounts /\ c.to \in Accounts /\ c.from # c.to
          /\ c.amount \in Nat /\ c.fee \in Nat
      BY <1>4, <1>5, <2>3, CallShape, LedgerAssumption DEF TransferCalls, Planned
    <3>2. todo[p] \subseteq {out, fee, in}
      BY <1>4, <2>3 DEF Planned, Postings
    <3>3. \A u \in todo[p] : t.line <= u.line
      BY <2>3 DEF Post, IsNextPosting
    <3>4. todo'[p] = todo[p] \ {t}
      BY <1>1 DEF TypeOK
    <3>5. CASE t = out
      <4>1. old >= c.amount + c.fee
        BY <1>1, <1>4, <2>3, <3>5 DEF Funded, Posted
      <4>2. out \notin todo'[p]
        BY <3>4, <3>5
      <4>3. copy'[p][c.from].balance >= c.fee /\ new >= 0
        BY <1>2, <1>3, <3>1, <3>5, <4>1 DEF Posted
      <4>4. \A u \in todo'[p] : u.type # "TRANSFER_OUT"
        BY <3>2, <3>4, <4>2 DEF Posted
      <4>. QED BY <1>1, <2>3, <4>3, <4>4 DEF Funded
    <3>6. CASE t = fee
      <4>1. old >= c.fee
        BY <1>1, <1>4, <2>3, <3>6 DEF Funded, Posted
      <4>2. todo'[p] \subseteq {in}
        BY <3>2, <3>3, <3>4, <3>6 DEF Posted
      <4>. QED BY <1>1, <1>2, <2>3, <3>1, <3>6, <4>1, <4>2 DEF Funded, Posted
    <3>7. CASE t = in
      <4>1. todo'[p] = {}
        BY <3>2, <3>3, <3>4, <3>7 DEF Posted
      <4>. QED BY <1>1, <1>2, <2>3, <3>1, <3>7, <4>1 DEF Funded, Posted
    <3>. QED BY <3>2, <3>5, <3>6, <3>7
  <2>4. CASE c.op = "reverse"
    BY <1>1, <1>2, <2>4 DEF Post, Overdraws, Funded
  <2>. QED BY <1>6, <2>1, <2>2, <2>3, <2>4
<1>8. Planned(p)'
  <2>1. c.op # "reverse" => Postings(c)' = Postings(c)
    BY <1>1 DEF Postings
  <2>2. todo'[p] \subseteq todo[p]
    BY <1>1 DEF TypeOK
  <2>. QED BY <1>1, <1>4, <2>1, <2>2 DEF Planned, Moving
<1>9. ASSUME NEW b \in Accounts, NEW q \in Requests
      PROVE  copy'[q][b].balance >= 0
  BY <1>1, <1>2, <1>3, <1>7 DEF TypeOK, FundsInv, NeverOverdrawn
<1>10. ASSUME NEW q \in Requests \ {p} PROVE Planned(q)' /\ Funded(q)'
  <2>1. copy'[q] = copy[q] /\ todo'[q] = todo[q]
    BY <1>1, <1>10 DEF TypeOK
  <2>. QED BY <1>1, <2>1, FundsFrame DEF FundsInv
<1>. QED BY <1>1, <1>7, <1>8, <1>9, <1>10 DEF FundsInv, NeverOverdrawn

LEMMA FundsSave ==
  ASSUME TypeOK, FundsInv, NEW p \in Requests, Commit(p) \/ UpdateRow(p)
  PROVE  FundsInv'
<1>1. ASSUME Commit(p), NEW a \in Accounts PROVE row'[a].balance >= 0
  <2>1. row[a] \in Row /\ copy[p][a] \in Row
    BY DEF TypeOK
  <2>2. row'[a].balance \in {row[a].balance, copy[p][a].balance}
    BY <1>1, <2>1 DEF Commit, Row
  <2>. QED BY <2>2 DEF FundsInv, NeverOverdrawn
<1>2. ASSUME UpdateRow(p), NEW a \in Accounts PROVE row'[a].balance >= 0
  <2>1. row'[a].balance \in {row[a].balance, copy[p][a].balance}
    BY <1>2 DEF UpdateRow, TypeOK
  <2>. QED BY <2>1 DEF FundsInv, NeverOverdrawn
<1>. QED BY <1>1, <1>2, FundsLeave DEF Commit, UpdateRow

LEMMA NextFunds == TypeOK /\ FundsInv /\ [Next]_vars => FundsInv'
<1>. SUFFICES ASSUME TypeOK, FundsInv, [Next]_vars PROVE FundsInv'
  OBVIOUS
<1>1. ASSUME NEW p \in Requests, Begin(p) PROVE FundsInv'
  BY <1>1, FundsBegin, FundsFind DEF Begin
<1>2. ASSUME NEW p \in Requests, Advance(p) PROVE FundsInv'
  <2>1. ASSUME NEW a \in Accounts, AccountNotFound(p, a) PROVE FundsInv'
    BY <2>1, FundsRollback DEF AccountNotFound
  <2>2. ASSUME NEW t \in todo[p], RefuseReversal(p, t) PROVE FundsInv'
    BY <2>2, FundsRollback DEF RefuseReversal
  <2>3. ASSUME NEW e \in events[p], Publish(p, e) PROVE FundsInv'
    <3>1. /\ UNCHANGED <<row, copy, call, todo>>
          /\ pc[p] = "publishing" /\ pc'[p] \in {"publishing", "done"}
          /\ \A q \in Requests \ {p} : pc'[q] = pc[q]
      BY <2>3 DEF Publish, MayPublish, tables, TypeOK
    <3>2. Planned(p)' /\ Funded(p)'
      BY <3>1 DEF Planned, Funded, Moving
    <3>3. ASSUME NEW q \in Requests \ {p} PROVE Planned(q)' /\ Funded(q)'
      BY <3>1, <3>3, FundsFrame DEF FundsInv
    <3>. QED BY <3>1, <3>2, <3>3 DEF FundsInv, NeverOverdrawn
  <2>4. CASE ReloadForSave(p)
    <3>1. /\ UNCHANGED <<row, copy, call, todo>>
          /\ pc' = [pc EXCEPT ![p] = "updating"]
      BY <2>4 DEF ReloadForSave, tables
    <3>2. Planned(p)' /\ Funded(p)'
      BY <3>1 DEF Planned, Funded, Moving, TypeOK
    <3>3. ASSUME NEW q \in Requests \ {p} PROVE Planned(q)' /\ Funded(q)'
      BY <3>1, <3>3, FundsFrame DEF FundsInv, TypeOK
    <3>. QED BY <3>1, <3>2, <3>3 DEF FundsInv, NeverOverdrawn
  <2>. QED BY <1>2, <2>1, <2>2, <2>3, <2>4, FundsLock, FundsValidate, FundsPost,
              FundsSave DEF Advance
<1>3. ASSUME NEW p \in Requests, Crash(p) PROVE FundsInv'
  BY <1>3, FundsRollback DEF Crash
<1>4. CASE Midnight \/ Finished \/ UNCHANGED vars
  <2>1. UNCHANGED <<row, copy, pc, call, todo>>
    BY <1>4 DEF Midnight, Finished, vars, tables
  <2>2. ASSUME NEW q \in Requests PROVE Planned(q)' /\ Funded(q)'
    BY <2>1, <2>2, FundsFrame DEF FundsInv
  <2>. QED BY <2>1, <2>2 DEF FundsInv, NeverOverdrawn
<1>. QED BY <1>1, <1>2, <1>3, <1>4 DEF Next

\* No interleaving of deposits, withdrawals, transfers, reversals and status
\* changes, and no crash, takes a balance below zero: the validation chain and
\* the balance check of reverse() leave the schema's CHECK nothing to refuse.
THEOREM NoOverdraft == Spec => []NeverOverdrawn
<1>1. Init => FundsInv
  BY LedgerAssumption DEF Init, FundsInv, NeverOverdrawn, Blank, Planned, Funded, Moving
<1>. QED BY <1>1, NextFunds, TypeCorrect, PTL DEF Spec, FundsInv

-----------------------------------------------------------------------------
(* Debits and the status of the account *)

DebitTypes == {"WITHDRAWAL", "TRANSFER_OUT"}

\* Whatever p has left to post is on a row it has locked or will lock.
Covered(p) ==
  Moving(p) => \A t \in todo[p] : lock[t.account] = p \/ t.account \in toLock[p]

\* The status p read of a row it has locked is the row's status; it drafts
\* entries of locked rows only, and debits only what may be debited.
Held(p) ==
  /\ \A a \in Accounts : lock[a] = p => copy[p][a].status = row[a].status
  /\ \A a \in Accounts : lock[a] # p => drafts[p][a] = <<>>
  /\ Covered(p)
  /\ Moving(p) /\ call[p].op = "reverse" => \A t \in todo[p] : t.type = "REVERSAL"
  /\ pc[p] = "posting" =>
       \A t \in todo[p] :
         t.type \in DebitTypes => CanWithdraw(copy[p][t.account].status)
  /\ \A a \in Accounts : \A i \in DOMAIN drafts[p][a] :
       drafts[p][a][i].type \in DebitTypes => CanWithdraw(copy[p][a].status)

HeldInv == \A p \in Requests : Held(p)

\* A status call waits for the row lock unless it changes nothing.
LEMMA StatusUnderLock ==
  ASSUME TypeOK, [Next]_vars, NEW a \in Accounts, lock[a] # Nobody
  PROVE  row'[a].status = row[a].status
<1>1. ASSUME NEW p \in Requests, Commit(p) PROVE row'[a].status = row[a].status
  BY <1>1 DEF Commit, TypeOK, Row
<1>2. ASSUME NEW p \in Requests, UpdateRow(p) PROVE row'[a].status = row[a].status
  <2>1. CASE a = call[p].account
    <3>1. dirty[p] = {}
      BY <1>2, <2>1 DEF UpdateRow, IsFree
    <3>. QED BY <1>2, <2>1, <3>1 DEF UpdateRow, TypeOK
  <2>2. CASE a # call[p].account
    BY <1>2, <2>2 DEF UpdateRow, TypeOK
  <2>. QED BY <2>1, <2>2
<1>3. ASSUME ~\E p \in Requests : Commit(p) \/ UpdateRow(p) PROVE row' = row
  <2>1. ASSUME NEW p \in Requests, Begin(p) PROVE row' = row
    BY <2>1 DEF Begin, BeginLedger, FindForStatus, Turned, tables
  <2>2. ASSUME NEW p \in Requests, Advance(p) PROVE row' = row
    BY <1>3, <2>2 DEF Advance, LockAccount, AccountNotFound, Validate, Post, RefuseReversal,
                      Publish, ReloadForSave, Rollback, tables
  <2>3. ASSUME NEW p \in Requests, Crash(p) PROVE row' = row
    BY <2>3 DEF Crash, Rollback, tables
  <2>4. CASE Midnight \/ Finished \/ UNCHANGED vars
    BY <2>4 DEF Midnight, Finished, vars, tables
  <2>. QED BY <2>1, <2>2, <2>3, <2>4 DEF Next
<1>. QED BY <1>1, <1>2, <1>3

\* A request that does nothing keeps its part of HeldInv.
LEMMA HeldFrame ==
  ASSUME TypeOK, [Next]_vars, NEW q \in Requests, Held(q),
         pc'[q] = pc[q], call'[q] = call[q], todo'[q] = todo[q], toLock'[q] = toLock[q],
         drafts'[q] = drafts[q], copy'[q] = copy[q],
         \A a \in Accounts : lock[a] = q <=> lock'[a] = q
  PROVE  Held(q)'
<1>1. \A a \in Accounts : lock'[a] = q => copy'[q][a].status = row'[a].status
  <2>1. \A a \in Accounts : lock[a] = q => row'[a].status = row[a].status
    BY StatusUnderLock, LedgerAssumption
  <2>. QED BY <2>1 DEF Held
<1>2. Covered(q)'
  <2>1. \A t \in todo[q] : t.account \in Accounts
    BY DEF TypeOK, Posting
  <2>. QED BY <2>1 DEF Held, Covered, Moving
<1>. QED BY <1>1, <1>2 DEF Held, Moving

\* A request that ends or rolls back holds nothing any more.
LEMMA HeldLeave ==
  ASSUME TypeOK, HeldInv, [Next]_vars, NEW p \in Requests, NEW end, Leave(p, end),
         end \notin {"locking", "posting"}, UNCHANGED call
  PROVE  HeldInv'
<1>1. /\ pc'[p] = end /\ drafts'[p] = NoDraft
      /\ \A a \in Accounts : lock'[a] = IF lock[a] = p THEN Nobody ELSE lock[a]
      /\ \A q \in Requests \ {p} :
           /\ pc'[q] = pc[q] /\ todo'[q] = todo[q] /\ toLock'[q] = toLock[q]
           /\ drafts'[q] = drafts[q] /\ copy'[q] = copy[q] /\ call'[q] = call[q]
  BY DEF Leave, TypeOK
<1>2. Held(p)'
  <2>1. \A a \in Accounts : lock'[a] # p /\ drafts'[p][a] = <<>>
    BY <1>1, LedgerAssumption DEF NoDraft
  <2>. QED BY <1>1, <2>1 DEF Held, Covered, Moving
<1>3. ASSUME NEW q \in Requests \ {p} PROVE Held(q)'
  <2>1. \A a \in Accounts : lock[a] = q <=> lock'[a] = q
    BY <1>1, LedgerAssumption
  <2>2. Held(q)
    BY DEF HeldInv
  <2>. QED BY <1>1, <2>1, <2>2, HeldFrame
<1>. QED BY <1>2, <1>3 DEF HeldInv

LEMMA HeldRollback ==
  ASSUME TypeOK, HeldInv, [Next]_vars, NEW p \in Requests, NEW end, Rollback(p, end),
         end \notin {"locking", "posting"}
  PROVE  HeldInv'
  BY HeldLeave DEF Rollback

\* Before its first lock a request holds nothing, and it plans to lock the
\* row of every line.
LEMMA HeldBegin ==
  ASSUME TypeOK, LockInv, HeldInv, [Next]_vars, NEW p \in Requests, Begin(p)
  PROVE  HeldInv'
<1>1. /\ UNCHANGED <<lock, drafts>> /\ pc[p] = "idle"
      /\ \A q \in Requests \ {p} :
           /\ pc'[q] = pc[q] /\ todo'[q] = todo[q] /\ toLock'[q] = toLock[q]
           /\ copy'[q] = copy[q] /\ call'[q] = call[q]
  BY DEF Begin, BeginLedger, FindForStatus, Turned, TypeOK
<1>2. \A a \in Accounts : lock[a] # p /\ drafts[p][a] = <<>>
  BY <1>1 DEF LockInv, LocksInTransaction, HeldInv, Held
<1>3. Moving(p)' => /\ \A t \in todo'[p] : t.account \in toLock'[p]
                    /\ call'[p].op = "reverse" => \A t \in todo'[p] : t.type = "REVERSAL"
                    /\ pc'[p] # "posting"
  <2>1. PICK c \in Calls : BeginLedger(p, c) \/ FindForStatus(p, c)
    BY DEF Begin
  <2>2. CASE FindForStatus(p, c)
    BY <2>2 DEF FindForStatus, Turned, Moving, TypeOK
  <2>3. CASE BeginLedger(p, c) /\ Refuses(c)
    BY <2>3 DEF BeginLedger, Turned, Moving, TypeOK
  <2>4. CASE BeginLedger(p, c) /\ ~Refuses(c)
    <3>1. /\ pc'[p] = "locking" /\ call'[p] = c /\ todo'[p] = Postings(c)
          /\ toLock'[p] = {t.account : t \in Postings(c)}
      BY <2>4 DEF BeginLedger, TypeOK
    <3>2. c.op = "reverse" => \A t \in Postings(c) : t.type = "REVERSAL"
      BY DEF Postings, Posted
    <3>. QED BY <3>1, <3>2
  <2>. QED BY <2>1, <2>2, <2>3, <2>4
<1>4. Held(p)'
  BY <1>1, <1>2, <1>3 DEF Held, Covered, Moving
<1>5. ASSUME NEW q \in Requests \ {p} PROVE Held(q)'
  <2>1. Held(q)
    BY DEF HeldInv
  <2>. QED BY <1>1, <2>1, HeldFrame
<1>. QED BY <1>4, <1>5 DEF HeldInv

LEMMA HeldLock ==
  ASSUME TypeOK, HeldInv, [Next]_vars, NEW p \in Requests, NEW a \in Accounts,
         LockAccount(p, a)
  PROVE  HeldInv'
<1>1. /\ UNCHANGED <<row, pc, call, todo, drafts>>
      /\ lock[a] = Nobody /\ pc[p] = "locking" /\ Nobody \notin Requests
      /\ lock' = [lock EXCEPT ![a] = p]
      /\ copy' = [copy EXCEPT ![p][a] = row[a]]
      /\ toLock' = [toLock EXCEPT ![p] = toLock[p] \ {a}]
  BY LedgerAssumption DEF LockAccount, IsFree, tables
<1>2. /\ lock'[a] = p /\ copy'[p][a] = row[a] /\ toLock'[p] = toLock[p] \ {a}
      /\ \A b \in Accounts \ {a} : lock'[b] = lock[b] /\ copy'[p][b] = copy[p][b]
  BY <1>1 DEF TypeOK
<1>3. Held(p) /\ drafts[p][a] = <<>>
  BY <1>1 DEF HeldInv, Held
<1>4. Covered(p)'
  <2>1. \A t \in todo[p] : t.account \in Accounts
    BY DEF TypeOK, Posting
  <2>. QED BY <1>1, <1>2, <1>3, <2>1 DEF Held, Covered, Moving
<1>5. /\ \A b \in Accounts : lock'[b] = p => copy'[p][b].status = row'[b].status
      /\ \A b \in Accounts : lock'[b] # p => drafts'[p][b] = <<>>
  BY <1>1, <1>2, <1>3 DEF Held
<1>6. \A b \in Accounts : \A i \in DOMAIN drafts'[p][b] :
        drafts'[p][b][i].type \in DebitTypes => CanWithdraw(copy'[p][b].status)
  BY <1>1, <1>2, <1>3 DEF Held
<1>7. Held(p)'
  BY <1>1, <1>3, <1>4, <1>5, <1>6 DEF Held, Moving
<1>8. ASSUME NEW q \in Requests \ {p} PROVE Held(q)'
  <2>1. /\ Held(q) /\ \A b \in Accounts : lock[b] = q <=> lock'[b] = q
        /\ copy'[q] = copy[q] /\ toLock'[q] = toLock[q]
    BY <1>1, <1>2 DEF HeldInv, TypeOK
  <2>. QED BY <1>1, <2>1, HeldFrame
<1>. QED BY <1>7, <1>8 DEF HeldInv

\* The chain lets a debit pass only on the status read under the lock.
LEMMA HeldValidate ==
  ASSUME TypeOK, FundsInv, HeldInv, [Next]_vars, NEW p \in Requests, Validate(p)
  PROVE  HeldInv'
<1>. DEFINE c == call[p]
<1>1. CASE ~Accepts(p)
  BY <1>1, HeldRollback DEF Validate
<1>2. CASE Accepts(p)
  <2>1. /\ UNCHANGED <<row, lock, call, todo, toLock, copy, drafts>>
        /\ pc[p] = "locking" /\ pc' = [pc EXCEPT ![p] = "posting"]
    BY <1>2 DEF Validate, tables
  <2>2. ASSUME NEW t \in todo[p], t.type \in DebitTypes
        PROVE  CanWithdraw(copy[p][t.account].status)
    <3>1. Planned(p) /\ Moving(p) /\ Held(p)
      BY <2>1 DEF FundsInv, HeldInv, Moving
    <3>2. c.op # "reverse" /\ t \in Postings(c)
      BY <2>2, <3>1 DEF Planned, Held, DebitTypes
    <3>3. c.op \in {"deposit", "withdraw", "transfer"}
      BY <3>1, <3>2 DEF Planned
    <3>4. c.op = "deposit" => t.type = "DEPOSIT"
      BY <3>2 DEF Postings, Posted
    <3>5. c.op = "withdraw" => t.account = c.from
      BY <3>2 DEF Postings, Posted
    <3>6. c.op = "transfer" => t.account = c.from
      BY <2>2, <3>2 DEF Postings, Posted, DebitTypes
    <3>7. c.op \in {"withdraw", "transfer"} => CanWithdraw(copy[p][c.from].status)
      BY <1>2 DEF Accepts, Validates
    <3>. QED BY <2>2, <3>3, <3>4, <3>5, <3>6, <3>7 DEF DebitTypes
  <2>3. Held(p) /\ Moving(p)
    BY <2>1 DEF HeldInv, Moving
  <2>4. Held(p)'
    BY <2>1, <2>2, <2>3 DEF Held, Covered, Moving
  <2>5. ASSUME NEW q \in Requests \ {p} PROVE Held(q)'
    <3>1. Held(q) /\ pc'[q] = pc[q]
      BY <2>1 DEF HeldInv, TypeOK
    <3>. QED BY <2>1, <3>1, HeldFrame
  <2>. QED BY <2>4, <2>5 DEF HeldInv
<1>. QED BY <1>1, <1>2

LEMMA HeldPost ==
  ASSUME TypeOK, LockInv, HeldInv, [Next]_vars, NEW p \in Requests, NEW t \in todo[p],
         Post(p, t)
  PROVE  HeldInv'
<1>. DEFINE a == t.account
            e == EntryFor(p, t)
<1>1. /\ UNCHANGED <<row, lock, pc, call, toLock>> /\ pc[p] = "posting"
      /\ copy' = [copy EXCEPT ![p][a].balance = @ + t.amount]
      /\ drafts' = [drafts EXCEPT ![p][a] = Append(@, e)]
      /\ todo' = [todo EXCEPT ![p] = @ \ {t}]
  BY DEF Post, tables
<1>2. a \in Accounts /\ copy[p][a] \in Row /\ drafts[p][a] \in Seq(Entry) /\ e \in Entry
  BY EntryForType DEF TypeOK, Posting
<1>3. /\ drafts'[p][a] = Append(drafts[p][a], e)
      /\ \A b \in Accounts \ {a} : drafts'[p][b] = drafts[p][b]
      /\ \A b \in Accounts : copy'[p][b].status = copy[p][b].status
      /\ todo'[p] = todo[p] \ {t}
  BY <1>1, <1>2 DEF TypeOK, Row
<1>4. Held(p) /\ lock[a] = p
  <2>1. toLock[p] = {}
    BY <1>1 DEF LockInv, LocksInTransaction
  <2>. QED BY <1>1, <2>1 DEF HeldInv, Held, Covered, Moving
<1>5. e.type \in DebitTypes => CanWithdraw(copy[p][a].status)
  BY <1>1, <1>4 DEF Held, EntryFor
<1>6. ASSUME NEW i \in DOMAIN drafts'[p][a], drafts'[p][a][i].type \in DebitTypes
      PROVE  CanWithdraw(copy'[p][a].status)
  <2>1. \/ i \in DOMAIN drafts[p][a] /\ drafts'[p][a][i] = drafts[p][a][i]
        \/ drafts'[p][a][i] = e
    BY <1>2, <1>3
  <2>. QED BY <1>2, <1>3, <1>4, <1>5, <1>6, <2>1 DEF Held
<1>7. \A b \in Accounts : \A i \in DOMAIN drafts'[p][b] :
        drafts'[p][b][i].type \in DebitTypes => CanWithdraw(copy'[p][b].status)
  BY <1>3, <1>4, <1>6 DEF Held
<1>8. /\ \A b \in Accounts : lock'[b] = p => copy'[p][b].status = row'[b].status
      /\ \A b \in Accounts : lock'[b] # p => drafts'[p][b] = <<>>
      /\ \A u \in todo'[p] :
           u.type \in DebitTypes => CanWithdraw(copy'[p][u.account].status)
  <2>1. \A u \in todo[p] : u.account \in Accounts
    BY DEF TypeOK, Posting
  <2>. QED BY <1>1, <1>3, <1>4, <2>1 DEF Held
<1>9. Held(p)'
  <2>1. Covered(p)'
    BY <1>1, <1>3, <1>4 DEF Held, Covered, Moving
  <2>2. Moving(p)' /\ call'[p].op = "reverse" => \A u \in todo'[p] : u.type = "REVERSAL"
    BY <1>1, <1>3, <1>4 DEF Held, Moving
  <2>. QED BY <1>7, <1>8, <2>1, <2>2 DEF Held
<1>10. ASSUME NEW q \in Requests \ {p} PROVE Held(q)'
  <2>1. Held(q) /\ copy'[q] = copy[q] /\ drafts'[q] = drafts[q] /\ todo'[q] = todo[q]
    BY <1>1 DEF HeldInv, TypeOK
  <2>. QED BY <1>1, <2>1, HeldFrame
<1>. QED BY <1>9, <1>10 DEF HeldInv

\* Steps of a request that is not moving, or that stay where they are.
LEMMA HeldStill ==
  ASSUME TypeOK, HeldInv, [Next]_vars, UNCHANGED <<lock, call, todo, toLock, copy, drafts>>,
         \A q \in Requests : pc'[q] = pc[q] \/ ~Moving(q)'
  PROVE  HeldInv'
<1>1. ASSUME NEW q \in Requests PROVE Held(q)'
  <2>1. Held(q)
    BY DEF HeldInv
  <2>2. CASE pc'[q] = pc[q]
    BY <2>1, <2>2, HeldFrame
  <2>3. CASE ~Moving(q)'
    <3>1. \A a \in Accounts : lock'[a] = q => copy'[q][a].status = row'[a].status
      <4>1. \A a \in Accounts : lock[a] = q => row'[a].status = row[a].status
        BY StatusUnderLock, LedgerAssumption
      <4>. QED BY <2>1, <4>1 DEF Held
    <3>. QED BY <2>1, <2>3, <3>1 DEF Held, Covered, Moving
  <2>. QED BY <1>1, <2>2, <2>3
<1>. QED BY <1>1 DEF HeldInv

LEMMA NextHeld ==
  TypeOK /\ LockInv /\ FundsInv /\ HeldInv /\ [Next]_vars => HeldInv'
<1>. SUFFICES ASSUME TypeOK, LockInv, FundsInv, HeldInv, [Next]_vars PROVE HeldInv'
  OBVIOUS
<1>1. ASSUME NEW p \in Requests, Advance(p) PROVE HeldInv'
  <2>1. ASSUME NEW a \in Accounts, AccountNotFound(p, a) PROVE HeldInv'
    BY <2>1, HeldRollback DEF AccountNotFound
  <2>2. ASSUME NEW t \in todo[p], RefuseReversal(p, t) PROVE HeldInv'
    BY <2>2, HeldRollback DEF RefuseReversal
  <2>3. CASE Commit(p) \/ UpdateRow(p)
    BY <2>3, HeldLeave DEF Commit, UpdateRow
  <2>4. ASSUME NEW e \in events[p], Publish(p, e) PROVE HeldInv'
    <3>1. /\ UNCHANGED <<lock, call, todo, toLock, copy, drafts>>
          /\ \A q \in Requests : pc'[q] = pc[q] \/ pc'[q] = "done"
      BY <2>4 DEF Publish, TypeOK
    <3>. QED BY <3>1, HeldStill DEF Moving
  <2>5. CASE ReloadForSave(p)
    <3>1. /\ UNCHANGED <<lock, call, todo, toLock, copy, drafts>>
          /\ \A q \in Requests : pc'[q] = pc[q] \/ pc'[q] = "updating"
      BY <2>5 DEF ReloadForSave, TypeOK
    <3>. QED BY <3>1, HeldStill DEF Moving
  <2>. QED BY <1>1, <2>1, <2>2, <2>3, <2>4, <2>5, HeldLock, HeldValidate, HeldPost
           DEF Advance
<1>2. ASSUME NEW p \in Requests, Crash(p) PROVE HeldInv'
  BY <1>2, HeldRollback DEF Crash
<1>3. CASE Midnight \/ Finished \/ UNCHANGED vars
  <2>1. UNCHANGED <<lock, pc, call, todo, toLock, copy, drafts>>
    BY <1>3 DEF Midnight, Finished, vars
  <2>. QED BY <2>1, HeldStill
<1>. QED BY <1>1, <1>2, <1>3, HeldBegin DEF Next

LEMMA InitHeld == Init => HeldInv
<1>. SUFFICES ASSUME Init, NEW p \in Requests PROVE Held(p)
  BY DEF HeldInv
<1>1. pc[p] = "idle" /\ \A a \in Accounts : lock[a] # p /\ drafts[p][a] = <<>>
  BY LedgerAssumption DEF Init, NoDraft
<1>. QED BY <1>1 DEF Held, Covered, Moving

\* What a commit appends stands after what there was.
LEMMA ConcatEntries ==
  ASSUME NEW old \in Seq(Entry), NEW new \in Seq(Entry)
  PROVE  /\ Len(old) \in Nat /\ Len(new) \in Nat
         /\ DOMAIN old = 1 .. Len(old) /\ DOMAIN new = 1 .. Len(new)
         /\ DOMAIN (old \o new) = 1 .. Len(old) + Len(new)
         /\ \A i \in 1 .. Len(old) : (old \o new)[i] = old[i]
         /\ \A i \in 1 .. Len(new) : (old \o new)[Len(old) + i] = new[i]
  OBVIOUS

LEMMA BeyondOld ==
  ASSUME NEW m \in Nat, NEW n \in Nat, NEW i \in 1 .. m + n, i \notin 1 .. m
  PROVE  i - m \in 1 .. n /\ i = m + (i - m)
  OBVIOUS

\* A line of a history that grew is an old one or a new one.
LEMMA InEither ==
  ASSUME NEW old \in Seq(Entry), NEW new \in Seq(Entry), NEW i \in DOMAIN (old \o new)
  PROVE  \/ i \in DOMAIN old /\ (old \o new)[i] = old[i]
         \/ \E j \in DOMAIN new : (old \o new)[i] = new[j]
<1>. DEFINE m == Len(old)  n == Len(new)  both == old \o new
<1>1. /\ m \in Nat /\ n \in Nat /\ DOMAIN old = 1 .. m /\ DOMAIN new = 1 .. n
      /\ \A k \in 1 .. m : both[k] = old[k]
      /\ \A k \in 1 .. n : both[m + k] = new[k]
  BY ConcatEntries
<1>2. i \in 1 .. m + n
  BY ConcatEntries
<1>. HIDE DEF m, n, both
<1>3. CASE i \in 1 .. m
  BY <1>1, <1>3 DEF both
<1>4. CASE i \notin 1 .. m
  <2>. DEFINE j == i - m
  <2>1. j \in 1 .. n /\ i = m + j
    BY <1>1, <1>2, <1>4, BeyondOld
  <2>. HIDE DEF j
  <2>2. both[i] = new[j] /\ j \in DOMAIN new
    BY <1>1, <2>1
  <2>. QED BY <2>2 DEF both
<1>. QED BY <1>3, <1>4

\* Entries are written by commits alone, each request its drafts.
LEMMA EntriesStep ==
  ASSUME [Next]_vars
  PROVE  \/ UNCHANGED entries
         \/ \E p \in Requests : Commit(p)
<1>1. ASSUME NEW p \in Requests, Begin(p) PROVE UNCHANGED entries
  BY <1>1 DEF Begin, BeginLedger, FindForStatus, Turned, tables
<1>2. ASSUME NEW p \in Requests, Advance(p) PROVE UNCHANGED entries \/ Commit(p)
  BY <1>2 DEF Advance, LockAccount, AccountNotFound, Validate, Post, RefuseReversal,
              Publish, ReloadForSave, UpdateRow, Rollback, tables
<1>3. ASSUME NEW p \in Requests, Crash(p) PROVE UNCHANGED entries
  BY <1>3 DEF Crash, Rollback, tables
<1>4. CASE Midnight \/ Finished \/ UNCHANGED vars
  BY <1>4 DEF Midnight, Finished, vars, tables
<1>. QED BY <1>1, <1>2, <1>3, <1>4 DEF Next

\* No freeze or close slips between the check of a debit and its commit:
\* whatever status changes and ledger calls run at once, a withdrawal or
\* transfer is committed only while the account it debits is ACTIVE.
THEOREM DebitsOnlyActive == Spec => DebitsNeedActive
<1>1. ASSUME TypeOK, HeldInv, [Next]_vars
      PROVE  [\A a \in Accounts : \A i \in DOMAIN entries'[a] \ DOMAIN entries[a] :
                entries'[a][i].type \in {"WITHDRAWAL", "TRANSFER_OUT"}
                  => CanWithdraw(row[a].status)]_<<row, entries>>
  <2>. SUFFICES ASSUME NEW p \in Requests, Commit(p), NEW a \in Accounts,
                       NEW i \in DOMAIN entries'[a] \ DOMAIN entries[a],
                       entries'[a][i].type \in DebitTypes
                PROVE  CanWithdraw(row[a].status)
    BY <1>1, EntriesStep DEF DebitTypes
  <2>1. entries[a] \in Seq(Entry) /\ drafts[p][a] \in Seq(Entry)
        /\ entries'[a] = entries[a] \o drafts[p][a]
    BY <1>1 DEF TypeOK, Commit
  <2>2. PICK k \in DOMAIN drafts[p][a] : entries'[a][i] = drafts[p][a][k]
    <3>. DEFINE old == entries[a]
                new == drafts[p][a]
                k == i - Len(old)
    <3>1. /\ Len(old) \in Nat /\ Len(new) \in Nat
          /\ DOMAIN old = 1 .. Len(old) /\ DOMAIN new = 1 .. Len(new)
          /\ DOMAIN (old \o new) = 1 .. Len(old) + Len(new)
          /\ \A j \in 1 .. Len(new) : (old \o new)[Len(old) + j] = new[j]
      BY <2>1, ConcatEntries
    <3>2. i \in 1 .. Len(old) + Len(new) /\ i \notin 1 .. Len(old)
      BY <2>1, <3>1
    <3>3. k \in 1 .. Len(new) /\ i = Len(old) + k
      BY <3>1, <3>2, BeyondOld
    <3>. HIDE DEF k
    <3>4. entries'[a][i] = new[k] /\ k \in DOMAIN new
      BY <2>1, <3>1, <3>3
    <3>. QED BY <3>4
  <2>3. Held(p)
    BY <1>1 DEF HeldInv
  <2>4. CanWithdraw(copy[p][a].status)
    BY <2>2, <2>3 DEF Held
  <2>5. lock[a] = p
    BY <2>1, <2>2, <2>3 DEF Held
  <2>. QED BY <2>3, <2>4, <2>5 DEF Held
<1>2. Init => LockInv
  BY LedgerAssumption DEF Init, LockInv, LocksInTransaction, LocksOrdered
<1>3. Init => FundsInv
  BY LedgerAssumption DEF Init, FundsInv, NeverOverdrawn, Blank, Planned, Funded, Moving
<1>. QED BY <1>1, <1>2, <1>3, NextLocks, NextFunds, NextHeld, InitHeld, TypeCorrect, PTL
         DEF Spec, DebitsNeedActive

-----------------------------------------------------------------------------
(* Chains of running balances *)

LEMMA ChainAppend ==
  ASSUME NEW start \in Int, NEW lines \in Seq(Entry), NEW e \in Entry,
         Chain(start, lines), e.after = Closing(start, lines) + e.amount
  PROVE  /\ Chain(start, Append(lines, e))
         /\ Closing(start, Append(lines, e)) = e.after
<1>. DEFINE longer == Append(lines, e)
<1>1. /\ Len(lines) \in Nat /\ Len(longer) = Len(lines) + 1
      /\ DOMAIN longer = 1 .. Len(lines) + 1 /\ DOMAIN lines = 1 .. Len(lines)
      /\ longer[Len(lines) + 1] = e
      /\ \A i \in 1 .. Len(lines) : longer[i] = lines[i]
  OBVIOUS
<1>2. lines = <<>> <=> Len(lines) = 0
  OBVIOUS
<1>3. ASSUME NEW i \in DOMAIN longer
      PROVE  longer[i].after =
               longer[i].amount + (IF i = 1 THEN start ELSE longer[i - 1].after)
  <2>1. CASE i \in 1 .. Len(lines)
    <3>1. i = 1 \/ i - 1 \in 1 .. Len(lines)
      BY <2>1
    <3>. QED BY <2>1, <3>1, <1>1 DEF Chain
  <2>2. CASE i = Len(lines) + 1
    <3>1. CASE Len(lines) = 0
      <4>1. i = 1 /\ longer[i] = e /\ e.amount \in Int
        BY <1>1, <2>2, <3>1 DEF Entry
      <4>2. e.after = start + e.amount
        BY <1>2, <3>1 DEF Closing
      <4>. QED BY <4>1, <4>2
    <3>2. CASE Len(lines) # 0
      <4>1. Len(lines) \in 1 .. Len(lines) /\ i - 1 = Len(lines) /\ i # 1
        BY <1>1, <2>2, <3>2
      <4>2. e.after = lines[Len(lines)].after + e.amount
        BY <1>2, <3>2 DEF Closing
      <4>3. longer[i] = e /\ longer[i - 1] = lines[Len(lines)]
        BY <1>1, <2>2, <4>1
      <4>4. lines[Len(lines)] \in Entry
        BY <4>1
      <4>5. lines[Len(lines)].after \in Int /\ e.amount \in Int
        BY <4>4 DEF Entry
      <4>. QED BY <4>1, <4>2, <4>3, <4>5
    <3>. QED BY <3>1, <3>2
  <2>. QED BY <1>1, <2>1, <2>2
<1>4. longer # <<>> /\ longer[Len(longer)] = e
  BY <1>1
<1>. QED BY <1>3, <1>4 DEF Chain, Closing

LEMMA ChainConcat ==
  ASSUME NEW start \in Int, NEW old \in Seq(Entry), NEW new \in Seq(Entry),
         Chain(start, old), Chain(Closing(start, old), new)
  PROVE  /\ Chain(start, old \o new)
         /\ Closing(start, old \o new) = Closing(Closing(start, old), new)
<1>. DEFINE both == old \o new
            n == Len(old)
<1>1. /\ n \in Nat /\ Len(new) \in Nat
      /\ both \in Seq(Entry) /\ Len(both) = n + Len(new)
      /\ DOMAIN both = 1 .. n + Len(new) /\ DOMAIN old = 1 .. n
      /\ DOMAIN new = 1 .. Len(new)
      /\ \A i \in 1 .. n : both[i] = old[i]
      /\ \A i \in 1 .. Len(new) : both[n + i] = new[i]
  OBVIOUS
<1>2. /\ old = <<>> <=> n = 0
      /\ new = <<>> <=> Len(new) = 0
      /\ both = <<>> <=> n + Len(new) = 0
  BY <1>1
<1>3. ASSUME NEW i \in DOMAIN both
      PROVE  both[i].after =
               both[i].amount + (IF i = 1 THEN start ELSE both[i - 1].after)
  <2>1. CASE i \in 1 .. n
    <3>1. i = 1 \/ i - 1 \in 1 .. n
      BY <2>1
    <3>. QED BY <2>1, <3>1, <1>1 DEF Chain
  <2>2. CASE i \notin 1 .. n
    <3>. DEFINE j == i - n
    <3>1. j \in 1 .. Len(new) /\ i = n + j
      BY <1>1, <2>2
    <3>2. new[j].after =
            new[j].amount + (IF j = 1 THEN Closing(start, old) ELSE new[j - 1].after)
      BY <1>1, <3>1 DEF Chain
    <3>3. both[i] = new[j]
      BY <1>1, <3>1
    <3>4. CASE j = 1
      <4>1. (IF i = 1 THEN start ELSE both[i - 1].after) = Closing(start, old)
        BY <1>1, <1>2, <3>1, <3>4 DEF Closing
      <4>. QED BY <3>2, <3>3, <3>4, <4>1
    <3>5. CASE j # 1
      <4>1. j - 1 \in 1 .. Len(new) /\ i - 1 = n + (j - 1) /\ i # 1
        BY <1>1, <3>1, <3>5
      <4>2. both[i - 1] = new[j - 1]
        BY <1>1, <4>1
      <4>. QED BY <3>2, <3>3, <3>5, <4>1, <4>2
    <3>. QED BY <3>4, <3>5
  <2>. QED BY <2>1, <2>2
<1>4. Closing(start, both) = Closing(Closing(start, old), new)
  <2>1. CASE Len(new) = 0
    <3>1. new = <<>> /\ both = old
      BY <1>2, <2>1
    <3>. QED BY <3>1 DEF Closing
  <2>2. CASE Len(new) # 0
    <3>1. Len(new) \in 1 .. Len(new) /\ both # <<>> /\ new # <<>>
      BY <1>1, <1>2, <2>2
    <3>2. both[Len(both)] = new[Len(new)]
      BY <1>1, <3>1
    <3>. QED BY <3>1, <3>2 DEF Closing
  <2>. QED BY <2>1, <2>2
<1>. QED BY <1>3, <1>4 DEF Chain

-----------------------------------------------------------------------------
(* The invariant *)

NoStatusCalls == \A p \in Requests : "status" \notin Roles[p]

\* The entity of a row p has locked continues the row by p's drafts, and p
\* drafts entries of no other row.
Continues(p, a) ==
  /\ lock[a] # p => drafts[p][a] = <<>>
  /\ lock[a] = p => /\ Chain(row[a].balance, drafts[p][a])
                    /\ copy[p][a].balance = Closing(row[a].balance, drafts[p][a])

InOrder(p) ==
  /\ pc[p] \notin {"saving", "updating"}
  /\ \A a \in Accounts : Continues(p, a)
  /\ Covered(p)

BooksInv == BalanceExplained /\ \A p \in Requests : InOrder(p)

\* A request that does nothing keeps its part while the others do not touch
\* the rows it holds.
LEMMA BooksFrame ==
  ASSUME TypeOK, NEW q \in Requests, InOrder(q),
         pc'[q] = pc[q], todo'[q] = todo[q], toLock'[q] = toLock[q],
         drafts'[q] = drafts[q],
         \A a \in Accounts : lock[a] = q <=> lock'[a] = q,
         \A a \in Accounts : lock[a] = q => /\ row'[a].balance = row[a].balance
                                           /\ copy'[q][a] = copy[q][a]
  PROVE  InOrder(q)'
<1>1. ASSUME NEW a \in Accounts PROVE Continues(q, a)'
  <2>1. Continues(q, a)
    BY DEF InOrder
  <2>. QED BY <2>1 DEF Continues, Chain, Closing
<1>2. \A t \in todo[q] : t.account \in Accounts
  BY DEF TypeOK, Posting
<1>3. Covered(q)'
  BY <1>2 DEF InOrder, Covered, Moving
<1>. QED BY <1>1, <1>3 DEF InOrder

LEMMA BooksRollback ==
  ASSUME TypeOK, BooksInv, NEW p \in Requests, NEW end, Rollback(p, end),
         end \notin {"locking", "posting", "saving", "updating"}
  PROVE  BooksInv'
<1>1. /\ UNCHANGED <<row, entries>>
      /\ pc'[p] = end /\ drafts'[p] = NoDraft
      /\ \A a \in Accounts : lock'[a] = IF lock[a] = p THEN Nobody ELSE lock[a]
      /\ \A q \in Requests \ {p} :
           /\ pc'[q] = pc[q] /\ todo'[q] = todo[q] /\ toLock'[q] = toLock[q]
           /\ drafts'[q] = drafts[q] /\ copy'[q] = copy[q]
  BY DEF Rollback, Leave, tables, TypeOK
<1>2. BalanceExplained'
  BY <1>1 DEF BooksInv, BalanceExplained, Chain, Closing
<1>3. InOrder(p)'
  <2>1. \A a \in Accounts : lock'[a] # p /\ drafts'[p][a] = <<>>
    BY <1>1, LedgerAssumption DEF NoDraft
  <2>. QED BY <1>1, <2>1 DEF InOrder, Continues, Covered, Moving
<1>4. ASSUME NEW q \in Requests \ {p} PROVE InOrder(q)'
  <2>1. \A a \in Accounts : lock[a] = q <=> lock'[a] = q
    BY <1>1, LedgerAssumption
  <2>. QED BY <1>1, <1>4, <2>1, BooksFrame DEF BooksInv
<1>. QED BY <1>2, <1>3, <1>4 DEF BooksInv

LEMMA BooksBegin ==
  ASSUME TypeOK, LockInv, BooksInv, NEW p \in Requests, NEW c \in Calls,
         BeginLedger(p, c)
  PROVE  BooksInv'
<1>1. /\ UNCHANGED <<row, entries, lock, copy, drafts>>
      /\ \A q \in Requests \ {p} :
           pc'[q] = pc[q] /\ todo'[q] = todo[q] /\ toLock'[q] = toLock[q]
  BY DEF BeginLedger, Turned, tables, TypeOK
<1>2. BalanceExplained'
  BY <1>1 DEF BooksInv, BalanceExplained, Chain, Closing
<1>3. InOrder(p)'
  <2>1. ASSUME NEW a \in Accounts PROVE Continues(p, a)'
    BY <1>1 DEF BooksInv, InOrder, Continues, Chain, Closing
  <2>2. pc'[p] \in {"locking", "refused"} /\ Covered(p)'
    <3>1. CASE Refuses(c)
      BY <3>1 DEF BeginLedger, Turned, Covered, Moving, TypeOK
    <3>2. CASE ~Refuses(c)
      <4>1. /\ pc'[p] = "locking" /\ todo'[p] = Postings(c)
            /\ toLock'[p] = {t.account : t \in Postings(c)}
        BY <3>2 DEF BeginLedger, TypeOK
      <4>. QED BY <4>1 DEF Covered
    <3>. QED BY <3>1, <3>2
  <2>. QED BY <2>1, <2>2 DEF InOrder
<1>4. ASSUME NEW q \in Requests \ {p} PROVE InOrder(q)'
  BY <1>1, <1>4, BooksFrame DEF BooksInv
<1>. QED BY <1>2, <1>3, <1>4 DEF BooksInv

LEMMA BooksLock ==
  ASSUME TypeOK, BooksInv, NEW p \in Requests, NEW a \in Accounts, LockAccount(p, a)
  PROVE  BooksInv'
<1>1. /\ UNCHANGED <<row, entries, pc, todo, drafts>>
      /\ lock[a] = Nobody
      /\ lock' = [lock EXCEPT ![a] = p]
      /\ copy' = [copy EXCEPT ![p][a] = row[a]]
      /\ toLock' = [toLock EXCEPT ![p] = toLock[p] \ {a}]
  BY DEF LockAccount, IsFree, tables
<1>2. Nobody \notin Requests
  BY LedgerAssumption
<1>3. BalanceExplained'
  BY <1>1 DEF BooksInv, BalanceExplained, Chain, Closing
<1>4. InOrder(p)'
  <2>1. ASSUME NEW b \in Accounts PROVE Continues(p, b)'
    <3>1. CASE b = a
      <4>1. drafts[p][a] = <<>>
        BY <1>1, <1>2 DEF BooksInv, InOrder, Continues
      <4>2. lock'[a] = p /\ copy'[p][a] = row[a]
        BY <1>1 DEF TypeOK
      <4>. QED BY <1>1, <3>1, <4>1, <4>2 DEF Continues, Chain, Closing
    <3>2. CASE b # a
      <4>1. lock'[b] = lock[b] /\ copy'[p][b] = copy[p][b]
        BY <1>1, <3>2 DEF TypeOK
      <4>2. Continues(p, b)
        BY DEF BooksInv, InOrder
      <4>. QED BY <1>1, <4>1, <4>2 DEF Continues, Chain, Closing
    <3>. QED BY <3>1, <3>2
  <2>2. Covered(p)'
    <3>1. \A t \in todo[p] : t.account \in Accounts
      BY DEF TypeOK, Posting
    <3>2. /\ toLock'[p] = toLock[p] \ {a}
          /\ \A b \in Accounts : lock'[b] = IF b = a THEN p ELSE lock[b]
      BY <1>1 DEF TypeOK
    <3>3. Covered(p)
      BY DEF BooksInv, InOrder
    <3>. QED BY <1>1, <3>1, <3>2, <3>3 DEF Covered, Moving
  <2>. QED BY <1>1, <2>1, <2>2 DEF InOrder, BooksInv
<1>5. ASSUME NEW q \in Requests \ {p} PROVE InOrder(q)'
  <2>1. /\ \A b \in Accounts : lock[b] = q <=> lock'[b] = q
        /\ copy'[q] = copy[q] /\ toLock'[q] = toLock[q]
    BY <1>1, <1>2, <1>5 DEF TypeOK
  <2>. QED BY <1>1, <1>5, <2>1, BooksFrame DEF BooksInv
<1>. QED BY <1>3, <1>4, <1>5 DEF BooksInv

LEMMA BooksPost ==
  ASSUME TypeOK, LockInv, BooksInv, NEW p \in Requests, NEW t \in todo[p], Post(p, t)
  PROVE  BooksInv'
<1>. DEFINE a == t.account
            start == row[a].balance
            lines == drafts[p][a]
            e == EntryFor(p, t)
<1>1. /\ UNCHANGED <<row, entries, lock, pc, toLock>> /\ pc[p] = "posting"
      /\ copy' = [copy EXCEPT ![p][a].balance = @ + t.amount]
      /\ drafts' = [drafts EXCEPT ![p][a] = Append(@, e)]
      /\ todo' = [todo EXCEPT ![p] = @ \ {t}]
  BY DEF Post, tables
<1>2. BalanceExplained'
  BY <1>1 DEF BooksInv, BalanceExplained, Chain, Closing
<1>3. /\ a \in Accounts /\ t.amount \in Int
      /\ copy[p][a] \in Row /\ lines \in Seq(Entry) /\ start \in Int
  BY DEF TypeOK, Posting, Row
<1>4. InOrder(p)
  BY DEF BooksInv
<1>5. lock[a] = p
  <2>1. toLock[p] = {}
    BY <1>1 DEF LockInv, LocksInTransaction
  <2>. QED BY <1>1, <1>4, <2>1 DEF InOrder, Covered, Moving
<1>6. /\ copy'[p][a].balance = copy[p][a].balance + t.amount
      /\ drafts'[p][a] = Append(lines, e)
      /\ \A b \in Accounts \ {a} : copy'[p][b] = copy[p][b] /\ drafts'[p][b] = drafts[p][b]
  BY <1>1, <1>3 DEF TypeOK, Row
<1>7. e \in Entry /\ e.amount = t.amount /\ e.after = copy[p][a].balance + t.amount
  <2>1. e \in Entry
    BY EntryForType
  <2>. QED BY <2>1 DEF EntryFor
<1>8. Continues(p, a)'
  <2>1. Chain(start, lines) /\ copy[p][a].balance = Closing(start, lines)
    BY <1>3, <1>4, <1>5 DEF InOrder, Continues
  <2>2. Chain(start, Append(lines, e)) /\ Closing(start, Append(lines, e)) = e.after
    BY <1>3, <1>7, <2>1, ChainAppend
  <2>3. /\ row'[a].balance = start /\ lock'[a] = p
        /\ drafts'[p][a] = Append(lines, e) /\ copy'[p][a].balance = e.after
    BY <1>1, <1>5, <1>6, <1>7
  <2>4. Chain(row'[a].balance, drafts'[p][a])
        /\ copy'[p][a].balance = Closing(row'[a].balance, drafts'[p][a])
    BY <2>2, <2>3
  <2>. QED BY <2>3, <2>4 DEF Continues, Chain, Closing
<1>9. ASSUME NEW b \in Accounts \ {a} PROVE Continues(p, b)'
  <2>1. Continues(p, b)
    BY <1>4 DEF InOrder
  <2>. QED BY <1>1, <1>6, <2>1 DEF Continues, Chain, Closing
<1>10. Covered(p)'
  <2>1. todo'[p] \subseteq todo[p]
    BY <1>1 DEF TypeOK
  <2>. QED BY <1>1, <1>4, <2>1 DEF InOrder, Covered, Moving
<1>11. InOrder(p)'
  BY <1>1, <1>4, <1>8, <1>9, <1>10 DEF InOrder
<1>12. ASSUME NEW q \in Requests \ {p} PROVE InOrder(q)'
  <2>1. copy'[q] = copy[q] /\ drafts'[q] = drafts[q] /\ todo'[q] = todo[q]
    BY <1>1, <1>12 DEF TypeOK
  <2>. QED BY <1>1, <1>12, <2>1, BooksFrame DEF BooksInv
<1>. QED BY <1>2, <1>11, <1>12 DEF BooksInv

LEMMA BooksCommit ==
  ASSUME TypeOK, BooksInv, NEW p \in Requests, Commit(p)
  PROVE  BooksInv'
<1>1. /\ \A a \in Accounts :
           /\ lock[a] # p => row'[a] = row[a]
           /\ lock[a] = p => row'[a].balance = copy[p][a].balance
           /\ entries'[a] = entries[a] \o drafts[p][a]
           /\ lock'[a] = IF lock[a] = p THEN Nobody ELSE lock[a]
      /\ pc'[p] = "publishing" /\ drafts'[p] = NoDraft
      /\ \A q \in Requests \ {p} :
           /\ pc'[q] = pc[q] /\ todo'[q] = todo[q] /\ toLock'[q] = toLock[q]
           /\ drafts'[q] = drafts[q] /\ copy'[q] = copy[q]
  BY DEF Commit, Leave, TypeOK, Row
<1>2. ASSUME NEW a \in Accounts
      PROVE  Chain(0, entries'[a]) /\ row'[a].balance = Closing(0, entries'[a])
  <2>1. Chain(0, entries[a]) /\ row[a].balance = Closing(0, entries[a])
    BY DEF BooksInv, BalanceExplained
  <2>2. entries[a] \in Seq(Entry) /\ drafts[p][a] \in Seq(Entry)
    BY DEF TypeOK
  <2>3. Continues(p, a)
    BY DEF BooksInv, InOrder
  <2>4. CASE lock[a] = p
    <3>1. /\ Chain(Closing(0, entries[a]), drafts[p][a])
          /\ copy[p][a].balance = Closing(Closing(0, entries[a]), drafts[p][a])
      BY <2>1, <2>3, <2>4 DEF Continues
    <3>2. /\ Chain(0, entries[a] \o drafts[p][a])
          /\ Closing(0, entries[a] \o drafts[p][a])
               = Closing(Closing(0, entries[a]), drafts[p][a])
      BY <2>1, <2>2, <3>1, ChainConcat
    <3>3. entries'[a] = entries[a] \o drafts[p][a] /\ row'[a].balance = copy[p][a].balance
      BY <1>1, <2>4
    <3>. QED BY <3>1, <3>2, <3>3
  <2>5. CASE lock[a] # p
    <3>1. entries'[a] = entries[a]
      <4>1. drafts[p][a] = <<>> /\ entries'[a] = entries[a] \o <<>>
        BY <1>1, <2>3, <2>5 DEF Continues
      <4>2. entries[a] \o <<>> = entries[a]
        BY <2>2
      <4>. QED BY <4>1, <4>2
    <3>. QED BY <1>1, <2>1, <2>5, <3>1
  <2>. QED BY <2>4, <2>5
<1>3. BalanceExplained'
  BY <1>2 DEF BalanceExplained, Chain, Closing
<1>4. InOrder(p)'
  <2>1. \A a \in Accounts : lock'[a] # p /\ drafts'[p][a] = <<>>
    BY <1>1, LedgerAssumption DEF NoDraft
  <2>. QED BY <1>1, <2>1 DEF InOrder, Continues, Covered, Moving
<1>5. ASSUME NEW q \in Requests \ {p} PROVE InOrder(q)'
  <2>1. ASSUME NEW a \in Accounts
        PROVE  /\ lock[a] = q <=> lock'[a] = q
               /\ lock[a] = q => row'[a].balance = row[a].balance /\ copy'[q][a] = copy[q][a]
    BY <1>1, LedgerAssumption
  <2>2. /\ pc'[q] = pc[q] /\ todo'[q] = todo[q] /\ toLock'[q] = toLock[q]
        /\ drafts'[q] = drafts[q] /\ InOrder(q)
    BY <1>1 DEF BooksInv
  <2>. QED BY <2>1, <2>2, BooksFrame
<1>. QED BY <1>3, <1>4, <1>5 DEF BooksInv

\* Steps that only move a request along.
LEMMA BooksStutter ==
  ASSUME TypeOK, BooksInv, NEW p \in Requests,
         UNCHANGED <<row, entries, lock, copy, toLock, todo, drafts>>,
         \A q \in Requests \ {p} : pc'[q] = pc[q],
         \/ pc'[p] = pc[p]
         \/ pc[p] = "locking" /\ pc'[p] = "posting"
         \/ pc'[p] \in {"publishing", "done"}
  PROVE  BooksInv'
<1>1. BalanceExplained'
  BY DEF BooksInv, BalanceExplained, Chain, Closing
<1>2. ASSUME NEW q \in Requests PROVE InOrder(q)'
  <2>1. CASE pc'[q] = pc[q]
    BY <2>1, BooksFrame DEF BooksInv
  <2>2. CASE pc'[q] # pc[q]
    <3>1. ASSUME NEW a \in Accounts PROVE Continues(q, a)'
      BY DEF BooksInv, InOrder, Continues, Chain, Closing
    <3>2. pc'[q] \notin {"saving", "updating"} /\ Covered(q)'
      BY <2>2 DEF BooksInv, InOrder, Covered, Moving
    <3>. QED BY <3>1, <3>2 DEF InOrder
  <2>. QED BY <2>1, <2>2
<1>. QED BY <1>1, <1>2 DEF BooksInv

LEMMA NextBooks ==
  ASSUME NoStatusCalls, TypeOK, LockInv, BooksInv, [Next]_vars
  PROVE  BooksInv'
<1>1. ASSUME NEW p \in Requests, Begin(p) PROVE BooksInv'
  BY <1>1, BooksBegin DEF Begin, FindForStatus, NoStatusCalls
<1>2. ASSUME NEW p \in Requests, Advance(p) PROVE BooksInv'
  <2>1. ASSUME NEW a \in Accounts, AccountNotFound(p, a) PROVE BooksInv'
    BY <2>1, BooksRollback DEF AccountNotFound
  <2>2. CASE Validate(p)
    <3>1. CASE Accepts(p)
      <4>1. /\ UNCHANGED <<row, entries, lock, copy, toLock, todo, drafts>>
            /\ pc[p] = "locking" /\ pc' = [pc EXCEPT ![p] = "posting"]
        BY <2>2, <3>1 DEF Validate, tables
      <4>. QED BY <4>1, BooksStutter DEF TypeOK
    <3>2. CASE ~Accepts(p)
      BY <2>2, <3>2, BooksRollback DEF Validate
    <3>. QED BY <3>1, <3>2
  <2>3. ASSUME NEW t \in todo[p], RefuseReversal(p, t) PROVE BooksInv'
    BY <2>3, BooksRollback DEF RefuseReversal
  <2>4. ASSUME NEW e \in events[p], Publish(p, e) PROVE BooksInv'
    <3>1. /\ UNCHANGED <<row, entries, lock, copy, toLock, todo, drafts>>
          /\ pc'[p] \in {"publishing", "done"}
          /\ \A q \in Requests \ {p} : pc'[q] = pc[q]
      BY <2>4 DEF Publish, MayPublish, tables, TypeOK
    <3>. QED BY <3>1, BooksStutter
  <2>5. ~ReloadForSave(p) /\ ~UpdateRow(p)
    BY DEF ReloadForSave, UpdateRow, BooksInv, InOrder
  <2>. QED BY <1>2, <2>1, <2>2, <2>3, <2>4, <2>5, BooksLock, BooksPost, BooksCommit
           DEF Advance
<1>3. ASSUME NEW p \in Requests, Crash(p) PROVE BooksInv'
  BY <1>3, BooksRollback DEF Crash
<1>4. CASE Midnight \/ Finished \/ UNCHANGED vars
  <2>1. UNCHANGED <<row, entries, lock, pc, copy, toLock, todo, drafts>>
    BY <1>4 DEF Midnight, Finished, vars, tables
  <2>2. ASSUME NEW q \in Requests PROVE InOrder(q)'
    BY <2>1, BooksFrame DEF BooksInv
  <2>. QED BY <2>1, <2>2 DEF BooksInv, BalanceExplained, Chain, Closing
<1>. QED BY <1>1, <1>2, <1>3, <1>4 DEF Next

LEMMA InitBooks == Init => BooksInv
<1>. SUFFICES ASSUME Init PROVE BooksInv
  OBVIOUS
<1>1. ASSUME NEW a \in Accounts
      PROVE  Chain(0, entries[a]) /\ row[a].balance = Closing(0, entries[a])
  <2>1. row[a].balance = OpeningBalance[a] /\ OpeningBalance[a] \in Nat
    BY LedgerAssumption DEF Init
  <2>2. CASE OpeningBalance[a] = 0
    <3>1. entries[a] = <<>>
      BY <2>2 DEF Init
    <3>. QED BY <2>1, <2>2, <3>1 DEF Chain, Closing
  <2>3. CASE OpeningBalance[a] # 0
    <3>. DEFINE first == [ref |-> OpeningRef, of |-> OpeningRef,
                          amount |-> OpeningBalance[a], type |-> "DEPOSIT",
                          after |-> OpeningBalance[a], day |-> 0]
    <3>1. entries[a] = <<first>>
      BY <2>3 DEF Init
    <3>2. DOMAIN <<first>> = {1} /\ Len(<<first>>) = 1 /\ <<first>> # <<>>
      OBVIOUS
    <3>. QED BY <2>1, <3>1, <3>2 DEF Chain, Closing
  <2>. QED BY <2>2, <2>3
<1>2. ASSUME NEW p \in Requests PROVE InOrder(p)
  <2>1. pc[p] = "idle" /\ \A a \in Accounts : lock[a] # p /\ drafts[p][a] = <<>>
    BY LedgerAssumption DEF Init, NoDraft
  <2>. QED BY <2>1 DEF InOrder, Continues, Covered, Moving
<1>. QED BY <1>1, <1>2 DEF BooksInv, BalanceExplained

\* "Balances are never edited silently" (ledger-entry.entity.ts) holds of the
\* ledger service for any number of concurrent deposits, withdrawals,
\* transfers, reversals and crashes, as long as no status is changed.
THEOREM BalancesExplained ==
  ASSUME NoStatusCalls
  PROVE  Spec => []BalanceExplained
<1>1. Init => LockInv
  BY LedgerAssumption DEF Init, LockInv, LocksInTransaction, LocksOrdered
<1>2. TypeOK /\ TypeOK' /\ LockInv /\ BooksInv /\ [Next]_vars => BooksInv'
  BY NextBooks
<1>. QED BY <1>1, <1>2, InitBooks, NextLocks, TypeCorrect, PTL DEF Spec, BooksInv
-----------------------------------------------------------------------------
(* Whole transactions *)

\* Where p has drafted an entry, as <<account, position among the drafts>>.
DraftPositions(p) ==
  {x \in Accounts \X Nat : x[2] \in DOMAIN drafts[p][x[1]]}

Writes(e, t) == e.amount = t.amount /\ e.type = t.type

Drafted(p, t) ==
  \E i \in DOMAIN drafts[p][t.account] : Writes(drafts[p][t.account][i], t)

Entered(p, t) ==
  \E x \in Positions(p) : x[1] = t.account /\ Writes(entries[x[1]][x[2]], t)

\* While a call moves money, every posting it owes is either still to do or
\* drafted, and there are as many drafts as postings done.
Owed(p) ==
  /\ IsFiniteSet(todo[p]) /\ IsFiniteSet(DraftPositions(p))
  /\ Cardinality(DraftPositions(p)) + Cardinality(todo[p])
       = Cardinality(Postings(call[p]))
  /\ \A t \in Postings(call[p]) : t \in todo[p] \/ Drafted(p, t)

\* What p has committed is one entry for each of its postings.
Settled(p) ==
  /\ pc[p] \in {"publishing", "done", "lost"}
  /\ Cardinality(Positions(p)) = Cardinality(Postings(call[p]))
  /\ \A t \in Postings(call[p]) : Entered(p, t)

\* A reversal that runs or has committed found what it reverses.
Referred(p) ==
  (Moving(p) \/ Positions(p) # {}) /\ call[p].op = "reverse" =>
    call[p].of \in Requests /\ Positions(call[p].of) # {}

Whole(p) ==
  /\ IsFiniteSet(Positions(p))
  /\ \A a \in Accounts : \A i \in DOMAIN drafts[p][a] : drafts[p][a][i].ref = p
  /\ pc[p] # "posting" => \A a \in Accounts : drafts[p][a] = <<>>
  /\ Referred(p)
  /\ Moving(p) => Owed(p)
  /\ Positions(p) # {} => Settled(p)

WholeInv == \A p \in Requests : Whole(p)

LEMMA PositionsAre ==
  /\ \A ref, x : x \in Positions(ref) <=>
       \E a \in Accounts : \E i \in DOMAIN entries[a] :
         x = <<a, i>> /\ entries[a][i].ref = ref
  /\ \A ref, x : x \in Positions(ref)' <=>
       \E a \in Accounts : \E i \in DOMAIN entries'[a] :
         x = <<a, i>> /\ entries'[a][i].ref = ref
<1>1. ASSUME NEW ref, NEW x
      PROVE  x \in Positions(ref) <=>
               \E a \in Accounts : \E i \in DOMAIN entries[a] :
                 x = <<a, i>> /\ entries[a][i].ref = ref
  BY DEF Positions
<1>2. ASSUME NEW ref, NEW x
      PROVE  x \in Positions(ref)' <=>
               \E a \in Accounts : \E i \in DOMAIN entries'[a] :
                 x = <<a, i>> /\ entries'[a][i].ref = ref
  BY DEF Positions
<1>. QED BY <1>1, <1>2

\* An entry of the longer sequence is an old one at its place or a new one
\* behind the old ones.
LEMMA ConcatParts ==
  ASSUME NEW old \in Seq(Entry), NEW new \in Seq(Entry)
  PROVE  /\ Len(old) \in Nat
         /\ \A i \in DOMAIN old : i \in DOMAIN (old \o new) /\ (old \o new)[i] = old[i]
         /\ \A k \in DOMAIN new : /\ k \in Nat /\ Len(old) + k \in DOMAIN (old \o new)
                                  /\ (old \o new)[Len(old) + k] = new[k]
         /\ \A i \in DOMAIN (old \o new) :
              i \in DOMAIN old \/ \E k \in DOMAIN new : i = Len(old) + k
<1>. DEFINE m == Len(old)
            n == Len(new)
<1>1. /\ m \in Nat /\ n \in Nat
      /\ DOMAIN old = 1 .. m /\ DOMAIN new = 1 .. n
      /\ DOMAIN (old \o new) = 1 .. m + n
      /\ \A i \in 1 .. m : (old \o new)[i] = old[i]
      /\ \A i \in 1 .. n : (old \o new)[m + i] = new[i]
  BY ConcatEntries
<1>. HIDE DEF m, n
<1>2. \A i \in 1 .. m : i \in 1 .. m + n
  BY <1>1
<1>3. \A k \in 1 .. n : k \in Nat /\ m + k \in 1 .. m + n
  BY <1>1
<1>4. ASSUME NEW i \in 1 .. m + n, i \notin 1 .. m
      PROVE  \E k \in 1 .. n : i = m + k
  BY <1>1, <1>4, BeyondOld
<1>5. \A i \in DOMAIN old : i \in DOMAIN (old \o new) /\ (old \o new)[i] = old[i]
  BY <1>1, <1>2
<1>6. \A k \in DOMAIN new : /\ k \in Nat /\ m + k \in DOMAIN (old \o new)
                            /\ (old \o new)[m + k] = new[k]
  BY <1>1, <1>3
<1>7. \A i \in DOMAIN (old \o new) : i \in DOMAIN old \/ \E k \in DOMAIN new : i = m + k
  BY <1>1, <1>4
<1>. QED BY <1>1, <1>5, <1>6, <1>7 DEF m

\* What a commit does to the entries of one account.
LEMMA CommitEntries ==
  ASSUME TypeOK, NEW p \in Requests, Commit(p), NEW a \in Accounts
  PROVE  /\ Len(entries[a]) \in Nat
         /\ \A i \in DOMAIN entries[a] :
              i \in DOMAIN entries'[a] /\ entries'[a][i] = entries[a][i]
         /\ \A k \in DOMAIN drafts[p][a] :
              /\ k \in Nat /\ Len(entries[a]) + k \in DOMAIN entries'[a]
              /\ entries'[a][Len(entries[a]) + k] = drafts[p][a][k]
         /\ \A i \in DOMAIN entries'[a] :
              i \in DOMAIN entries[a] \/ \E k \in DOMAIN drafts[p][a] : i = Len(entries[a]) + k
<1>. DEFINE old == entries[a]
            new == drafts[p][a]
            both == old \o new
<1>1. old \in Seq(Entry) /\ new \in Seq(Entry) /\ entries'[a] = both
  BY DEF TypeOK, Commit
<1>. HIDE DEF old, new
<1>2. /\ Len(old) \in Nat
      /\ \A i \in DOMAIN old : i \in DOMAIN both /\ both[i] = old[i]
      /\ \A k \in DOMAIN new : /\ k \in Nat /\ Len(old) + k \in DOMAIN both
                               /\ both[Len(old) + k] = new[k]
      /\ \A i \in DOMAIN both :
           i \in DOMAIN old \/ \E k \in DOMAIN new : i = Len(old) + k
  BY <1>1, ConcatParts
<1>. HIDE DEF both
<1>3. /\ Len(old) \in Nat
      /\ \A i \in DOMAIN old : i \in DOMAIN entries'[a] /\ entries'[a][i] = old[i]
      /\ \A k \in DOMAIN new : /\ k \in Nat /\ Len(old) + k \in DOMAIN entries'[a]
                               /\ entries'[a][Len(old) + k] = new[k]
      /\ \A i \in DOMAIN entries'[a] :
           i \in DOMAIN old \/ \E k \in DOMAIN new : i = Len(old) + k
  BY <1>1, <1>2
<1>. QED BY <1>3 DEF old, new

\* Committed entries stay where they are, and no other request adds one with
\* the reference r.
LEMMA PositionsKept ==
  ASSUME TypeOK, WholeInv, [Next]_vars, NEW r \in Requests, ~Commit(r)
  PROVE  /\ Positions(r)' = Positions(r)
         /\ \A x \in Positions(r) : entries'[x[1]][x[2]] = entries[x[1]][x[2]]
<1>1. CASE UNCHANGED entries
  BY <1>1 DEF Positions
<1>2. ASSUME NEW p \in Requests \ {r}, Commit(p)
      PROVE  /\ Positions(r)' = Positions(r)
             /\ \A x \in Positions(r) : entries'[x[1]][x[2]] = entries[x[1]][x[2]]
  <2>1. ASSUME NEW a \in Accounts
        PROVE  /\ \A i \in DOMAIN entries[a] :
                    i \in DOMAIN entries'[a] /\ entries'[a][i] = entries[a][i]
               /\ \A i \in DOMAIN entries'[a] :
                    i \notin DOMAIN entries[a] => entries'[a][i].ref = p
    <3>1. \A i \in DOMAIN entries[a] :
            i \in DOMAIN entries'[a] /\ entries'[a][i] = entries[a][i]
      BY <1>2, CommitEntries
    <3>2. ASSUME NEW i \in DOMAIN entries'[a], i \notin DOMAIN entries[a]
          PROVE  entries'[a][i].ref = p
      <4>1. PICK k \in DOMAIN drafts[p][a] : i = Len(entries[a]) + k
        BY <1>2, <3>2, CommitEntries
      <4>2. entries'[a][i] = drafts[p][a][k]
        BY <1>2, <4>1, CommitEntries
      <4>3. drafts[p][a][k].ref = p
        BY DEF WholeInv, Whole
      <4>. QED BY <4>2, <4>3
    <3>. QED BY <3>1, <3>2
  <2>2. \A x : x \in Positions(r)' <=> x \in Positions(r)
    BY <2>1, PositionsAre
  <2>3. \A x \in Positions(r) : entries'[x[1]][x[2]] = entries[x[1]][x[2]]
    BY <2>1, PositionsAre
  <2>. QED BY <2>2, <2>3
<1>. QED BY <1>1, <1>2, EntriesStep

\* A commit puts each draft behind the entries its account has.
LEMMA CommitPositions ==
  ASSUME TypeOK, WholeInv, NEW p \in Requests, Commit(p)
  PROVE  /\ \A y \in DraftPositions(p) :
              /\ <<y[1], Len(entries[y[1]]) + y[2]>> \in Positions(p)'
              /\ entries'[y[1]][Len(entries[y[1]]) + y[2]] = drafts[p][y[1]][y[2]]
         /\ IsFiniteSet(Positions(p)')
         /\ Cardinality(Positions(p)') = Cardinality(DraftPositions(p))
<1>. DEFINE Behind(y) == <<y[1], Len(entries[y[1]]) + y[2]>>
            f == [y \in DraftPositions(p) |-> Behind(y)]
<1>1. Whole(p) /\ pc[p] = "posting" /\ Positions(p) = {} /\ IsFiniteSet(DraftPositions(p))
  BY DEF WholeInv, Whole, Settled, Owed, Moving, Commit, IsComplete
<1>2. ASSUME NEW a \in Accounts
      PROVE  /\ Len(entries[a]) \in Nat
             /\ \A k \in DOMAIN drafts[p][a] :
                  /\ k \in Nat /\ Len(entries[a]) + k \in DOMAIN entries'[a]
                  /\ entries'[a][Len(entries[a]) + k] = drafts[p][a][k]
             /\ \A i \in DOMAIN entries'[a] :
                  \/ i \in DOMAIN entries[a] /\ entries'[a][i] = entries[a][i]
                  \/ \E k \in DOMAIN drafts[p][a] : i = Len(entries[a]) + k
  BY CommitEntries
<1>3. ASSUME NEW y \in DraftPositions(p)
      PROVE  /\ y[1] \in Accounts /\ y[2] \in DOMAIN drafts[p][y[1]]
             /\ y = <<y[1], y[2]>>
             /\ Behind(y) \in Positions(p)'
             /\ entries'[y[1]][Len(entries[y[1]]) + y[2]] = drafts[p][y[1]][y[2]]
  <2>1. y[1] \in Accounts /\ y[2] \in DOMAIN drafts[p][y[1]] /\ y = <<y[1], y[2]>>
    BY DEF DraftPositions
  <2>2. /\ Len(entries[y[1]]) + y[2] \in DOMAIN entries'[y[1]]
        /\ entries'[y[1]][Len(entries[y[1]]) + y[2]] = drafts[p][y[1]][y[2]]
    BY <1>2, <2>1
  <2>3. drafts[p][y[1]][y[2]].ref = p
    BY <1>1, <2>1 DEF Whole
  <2>. QED BY <2>1, <2>2, <2>3, PositionsAre
<1>4. ASSUME NEW x \in Positions(p)' PROVE \E y \in DraftPositions(p) : x = Behind(y)
  <2>0. PICK a \in Accounts : \E i \in DOMAIN entries'[a] :
          x = <<a, i>> /\ entries'[a][i].ref = p
    BY <1>4, PositionsAre
  <2>1. PICK i \in DOMAIN entries'[a] : x = <<a, i>> /\ entries'[a][i].ref = p
    BY <2>0
  <2>2. ~(i \in DOMAIN entries[a] /\ entries'[a][i] = entries[a][i])
    BY <1>1, <2>1, PositionsAre
  <2>3. PICK k \in DOMAIN drafts[p][a] : i = Len(entries[a]) + k
    BY <1>2, <2>1, <2>2
  <2>4. <<a, k>> \in DraftPositions(p)
    BY <1>2, <2>3 DEF DraftPositions
  <2>. QED BY <2>1, <2>3, <2>4
<1>5. ASSUME NEW y \in DraftPositions(p), NEW z \in DraftPositions(p), Behind(y) = Behind(z)
      PROVE  y = z
  <2>1. y[1] = z[1] /\ Len(entries[y[1]]) + y[2] = Len(entries[y[1]]) + z[2]
    BY <1>5
  <2>2. y[2] \in Nat /\ z[2] \in Nat /\ Len(entries[y[1]]) \in Nat
    BY <1>2, <1>3
  <2>3. y[2] = z[2]
    BY <2>1, <2>2
  <2>. QED BY <1>3, <2>1, <2>3
<1>. HIDE DEF Behind
<1>6. f \in Bijection(DraftPositions(p), Positions(p)')
  BY <1>3, <1>4, <1>5 DEF Bijection, Injection, Surjection, IsInjective
<1>7. ExistsBijection(DraftPositions(p), Positions(p)')
  BY <1>6 DEF ExistsBijection
<1>8. IsFiniteSet(Positions(p)') /\ Cardinality(Positions(p)') = Cardinality(DraftPositions(p))
  BY <1>1, <1>7, FS_Bijection
<1>. QED BY <1>3, <1>8 DEF Behind

\* What carries a committed reference is not about to commit.
LEMMA CommittedRests ==
  ASSUME WholeInv, NEW r \in Requests, Positions(r) # {}
  PROVE  ~Commit(r)
<1>1. pc[r] # "posting"
  BY DEF WholeInv, Whole, Settled
<1>. QED BY <1>1 DEF Commit, IsComplete

\* What a reversal posts is settled before it begins, for the entries it
\* reverses are committed; what other calls post is settled by their inputs.
LEMMA PostingsKept ==
  ASSUME TypeOK, WholeInv, [Next]_vars, NEW p \in Requests, call'[p] = call[p],
         Moving(p) \/ Positions(p) # {}
  PROVE  Postings(call[p])' = Postings(call[p])
<1>. DEFINE c == call[p]
<1>1. CASE c.op # "reverse"
  BY <1>1 DEF Postings
<1>2. CASE c.op = "reverse"
  <2>0. Referred(p)
    BY DEF WholeInv, Whole
  <2>1. c.of \in Requests /\ Positions(c.of) # {}
    BY <1>2, <2>0 DEF Referred
  <2>2. ~Commit(c.of)
    BY <2>1, CommittedRests
  <2>3. /\ Positions(c.of)' = Positions(c.of)
        /\ \A x \in Positions(c.of) : entries'[x[1]][x[2]] = entries[x[1]][x[2]]
    BY <2>1, <2>2, PositionsKept
  <2>4. /\ Postings(c) = {Posted(x[1], x[2], -entries[x[1]][x[2]].amount, "REVERSAL") :
                            x \in Positions(c.of)}
        /\ Postings(c)' = {Posted(x[1], x[2], -entries'[x[1]][x[2]].amount, "REVERSAL") :
                            x \in Positions(c.of)'}
    BY <1>2 DEF Postings, Posted
  <2>. QED BY <2>3, <2>4
<1>. QED BY <1>1, <1>2

\* The postings of p and the state p is in, as they were.
LEMMA WholeFrame ==
  ASSUME TypeOK, WholeInv, [Next]_vars, NEW p \in Requests, ~Commit(p),
         call'[p] = call[p], drafts'[p] = drafts[p],
         Moving(p)' => Moving(p) /\ todo'[p] = todo[p],
         pc[p] = "posting" => pc'[p] = "posting",
         pc[p] \in {"publishing", "done", "lost"} => pc'[p] \in {"publishing", "done", "lost"}
  PROVE  Whole(p)'
<1>1. Whole(p)
  BY DEF WholeInv
<1>2. /\ Positions(p)' = Positions(p)
      /\ \A x \in Positions(p) : entries'[x[1]][x[2]] = entries[x[1]][x[2]]
  BY PositionsKept
<1>3. DraftPositions(p)' = DraftPositions(p)
  BY DEF DraftPositions
<1>4. Referred(p)'
  <2>1. SUFFICES ASSUME (Moving(p) \/ Positions(p) # {})', call'[p].op = "reverse"
                 PROVE  call'[p].of \in Requests /\ Positions(call[p].of)' # {}
    BY DEF Referred
  <2>2. call[p].of \in Requests /\ Positions(call[p].of) # {}
    BY <1>1, <1>2, <2>1 DEF Whole, Referred
  <2>3. ~Commit(call[p].of)
    BY <2>2, CommittedRests
  <2>4. Positions(call[p].of)' = Positions(call[p].of)
    BY <2>2, <2>3, PositionsKept
  <2>. QED BY <2>2, <2>4
<1>5. Moving(p)' => Owed(p)'
  <2>1. SUFFICES ASSUME Moving(p), todo'[p] = todo[p] PROVE Owed(p)'
    OBVIOUS
  <2>2. Postings(call[p])' = Postings(call[p])
    BY <2>1, PostingsKept
  <2>. QED BY <1>1, <1>3, <2>1, <2>2 DEF Whole, Owed, Drafted
<1>6. (Positions(p) # {})' => Settled(p)'
  <2>1. SUFFICES ASSUME Positions(p) # {} PROVE Settled(p)'
    BY <1>2
  <2>2. Postings(call[p])' = Postings(call[p])
    BY <2>1, PostingsKept
  <2>. QED BY <1>1, <1>2, <2>1, <2>2 DEF Whole, Settled, Entered
<1>. QED BY <1>1, <1>2, <1>4, <1>5, <1>6 DEF Whole

\* A request that moves no money and has drafted nothing.
LEMMA WholeRest ==
  ASSUME TypeOK, WholeInv, [Next]_vars, NEW p \in Requests, ~Commit(p),
         ~Moving(p)', \A a \in Accounts : drafts'[p][a] = <<>>, Positions(p) = {}
  PROVE  Whole(p)'
<1>1. Positions(p)' = {}
  BY PositionsKept
<1>2. IsFiniteSet({})
  BY FS_EmptySet
<1>. QED BY <1>1, <1>2 DEF Whole, Referred, Moving
\* The steps of one request leave the others as they are.
LEMMA WholeOthers ==
  ASSUME TypeOK, WholeInv, [Next]_vars, NEW p \in Requests, Whole(p)',
         \A q \in Requests \ {p} : /\ pc'[q] = pc[q] /\ call'[q] = call[q]
                                   /\ todo'[q] = todo[q] /\ drafts'[q] = drafts[q]
  PROVE  WholeInv'
<1>1. ASSUME NEW q \in Requests \ {p} PROVE Whole(q)'
  <2>1. ~Commit(q)
    BY DEF Commit, IsComplete, Leave, TypeOK
  <2>. QED BY <2>1, WholeFrame DEF Moving
<1>. QED BY <1>1 DEF WholeInv

LEMMA WholeRollback ==
  ASSUME TypeOK, WholeInv, [Next]_vars, NEW p \in Requests, NEW end, Rollback(p, end),
         \/ pc[p] \notin {"publishing", "done", "lost"} /\ end \in {"refused", "crashed"}
         \/ pc[p] = "publishing" /\ end = "lost"
  PROVE  WholeInv'
<1>1. /\ pc'[p] = end /\ drafts'[p] = NoDraft /\ UNCHANGED call
      /\ \A q \in Requests \ {p} :
           pc'[q] = pc[q] /\ todo'[q] = todo[q] /\ drafts'[q] = drafts[q]
  BY DEF Rollback, Leave, TypeOK
<1>2. ~Commit(p) /\ ~Moving(p)' /\ \A a \in Accounts : drafts'[p][a] = <<>>
  BY <1>1 DEF Commit, Leave, TypeOK, Moving, NoDraft
<1>3. Whole(p)'
  <2>1. CASE Positions(p) = {}
    BY <1>2, <2>1, WholeRest
  <2>2. CASE Positions(p) # {}
    <3>1. pc[p] = "publishing" /\ pc'[p] = "lost" /\ \A a \in Accounts : drafts[p][a] = <<>>
      BY <1>1, <2>2 DEF WholeInv, Whole, Settled
    <3>2. drafts'[p] = drafts[p]
      BY <1>1, <3>1 DEF TypeOK, NoDraft
    <3>. QED BY <1>1, <1>2, <3>1, <3>2, WholeFrame
  <2>. QED BY <2>1, <2>2
<1>. QED BY <1>1, <1>3, WholeOthers

\* A reversal posts one line for each entry it reverses.
LEMMA PostingsFinite ==
  ASSUME TypeOK, WholeInv, NEW c \in Calls
  PROVE  /\ IsFiniteSet(Postings(c))
         /\ c.op = "reverse" => Cardinality(Postings(c)) = Cardinality(Positions(c.of))
<1>1. CASE c.op = "reverse"
  <2>. DEFINE Opposite(x) == Posted(x[1], x[2], -entries[x[1]][x[2]].amount, "REVERSAL")
              f == [x \in Positions(c.of) |-> Opposite(x)]
  <2>1. Postings(c) = {Opposite(x) : x \in Positions(c.of)}
    BY <1>1 DEF Postings
  <2>2. ASSUME NEW x \in Positions(c.of), NEW y \in Positions(c.of), Opposite(x) = Opposite(y)
        PROVE  x = y
    <3>1. x[1] = y[1] /\ x[2] = y[2]
      BY <2>2 DEF Posted
    <3>2. x = <<x[1], x[2]>> /\ y = <<y[1], y[2]>>
      BY PositionsAre
    <3>. QED BY <3>1, <3>2
  <2>. HIDE DEF Opposite
  <2>3. f \in Bijection(Positions(c.of), Postings(c))
    BY <2>1, <2>2 DEF Bijection, Injection, Surjection, IsInjective
  <2>4. ExistsBijection(Positions(c.of), Postings(c))
    BY <2>3 DEF ExistsBijection
  <2>5. IsFiniteSet(Positions(c.of))
    BY <1>1, CallShape DEF ReverseCalls, WholeInv, Whole
  <2>. QED BY <2>4, <2>5, FS_Bijection
<1>2. CASE c.op = "transfer"
  <2>. DEFINE out == Posted(c.from, 1, -c.amount, "TRANSFER_OUT")
              in  == Posted(c.to, 3, c.amount, "TRANSFER_IN")
              fee == Posted(c.from, 2, -c.fee, "FEE")
  <2>1. Postings(c) \in SUBSET {out, in, fee}
    BY <1>2 DEF Postings
  <2>. HIDE DEF out, in, fee
  <2>2. IsFiniteSet({out})
    BY FS_Singleton
  <2>3. IsFiniteSet({out} \cup {in})
    BY <2>2, FS_AddElement
  <2>4. IsFiniteSet(({out} \cup {in}) \cup {fee})
    BY <2>3, FS_AddElement
  <2>5. Postings(c) \in SUBSET (({out} \cup {in}) \cup {fee})
    BY <2>1
  <2>. QED BY <1>2, <2>4, <2>5, FS_Subset
<1>3. CASE c.op \in {"deposit", "withdraw", "status"}
  <2>1. \/ Postings(c) = {}
        \/ \E t : Postings(c) = {t}
    BY <1>3 DEF Postings
  <2>. QED BY <1>3, <2>1, FS_EmptySet, FS_Singleton
<1>. QED BY <1>1, <1>2, <1>3, CallShape DEF Calls

LEMMA WholeBegin ==
  ASSUME TypeOK, WholeInv, [Next]_vars, NEW p \in Requests, NEW c \in Calls,
         BeginLedger(p, c) \/ FindForStatus(p, c)
  PROVE  WholeInv'
<1>1. /\ pc[p] = "idle" /\ UNCHANGED <<entries, drafts>>
      /\ \A q \in Requests \ {p} :
           pc'[q] = pc[q] /\ call'[q] = call[q] /\ todo'[q] = todo[q]
  BY DEF BeginLedger, FindForStatus, Turned, tables, TypeOK
<1>2. /\ ~Commit(p) /\ Positions(p) = {} /\ \A a \in Accounts : drafts'[p][a] = <<>>
  BY <1>1 DEF WholeInv, Whole, Settled, Commit, IsComplete
<1>3. CASE ~Moving(p)'
  BY <1>1, <1>2, <1>3, WholeRest, WholeOthers
<1>4. CASE Moving(p)'
  <2>1. BeginLedger(p, c) /\ ~Refuses(c)
    BY <1>4 DEF BeginLedger, FindForStatus, Turned, Moving, TypeOK
  <2>2. /\ pc'[p] = "locking" /\ call'[p] = c /\ todo'[p] = Postings(c)
    BY <2>1 DEF BeginLedger, TypeOK
  <2>3. \A ref : Positions(ref)' = Positions(ref)
    BY <1>1 DEF Positions
  <2>4. Postings(c)' = Postings(c)
    BY <1>1, <2>3 DEF Postings
  <2>5. Referred(p)'
    <3>1. c.op = "reverse" => c.of \in Requests /\ Positions(c.of) # {}
      BY <2>1, CallShape DEF Refuses, ReverseCalls
    <3>. QED BY <2>2, <2>3, <3>1 DEF Referred
  <2>6. Owed(p)'
    <3>1. DraftPositions(p)' = {}
      BY <1>2 DEF DraftPositions
    <3>2. IsFiniteSet(Postings(c)) /\ Cardinality(Postings(c)) \in Nat
      BY PostingsFinite, FS_CardinalityType
    <3>3. IsFiniteSet({}) /\ Cardinality({}) = 0
      BY FS_EmptySet
    <3>. QED BY <2>2, <2>4, <3>1, <3>2, <3>3 DEF Owed
  <2>7. Whole(p)'
    <3>1. IsFiniteSet(Positions(p)') /\ Positions(p)' = {}
      BY <1>2, <2>3, FS_EmptySet
    <3>2. \A a \in Accounts : \A i \in DOMAIN drafts'[p][a] : drafts'[p][a][i].ref = p
      BY <1>2
    <3>. QED BY <1>2, <2>5, <2>6, <3>1, <3>2 DEF Whole
  <2>. QED BY <1>1, <2>7, WholeOthers
<1>. QED BY <1>3, <1>4

LEMMA WholePost ==
  ASSUME TypeOK, WholeInv, [Next]_vars, NEW p \in Requests, NEW t \in todo[p], Post(p, t)
  PROVE  WholeInv'
<1>. DEFINE a == t.account
            lines == drafts[p][a]
            e == EntryFor(p, t)
            new == <<a, Len(lines) + 1>>
<1>1. /\ UNCHANGED <<entries, call>> /\ pc[p] = "posting" /\ pc' = pc
      /\ drafts' = [drafts EXCEPT ![p][a] = Append(@, e)]
      /\ todo' = [todo EXCEPT ![p] = @ \ {t}]
  BY DEF Post, tables
<1>2. a \in Accounts /\ lines \in Seq(Entry) /\ e \in Entry
  BY EntryForType DEF TypeOK, Posting
<1>3. /\ drafts'[p][a] = Append(lines, e) /\ todo'[p] = todo[p] \ {t}
      /\ \A b \in Accounts \ {a} : drafts'[p][b] = drafts[p][b]
  BY <1>1, <1>2 DEF TypeOK
<1>4. /\ Len(lines) \in Nat /\ Len(lines) + 1 \notin DOMAIN lines
      /\ DOMAIN Append(lines, e) = DOMAIN lines \cup {Len(lines) + 1}
      /\ Append(lines, e)[Len(lines) + 1] = e
      /\ \A i \in DOMAIN lines : Append(lines, e)[i] = lines[i]
  <2>. HIDE DEF lines, e
  <2>1. /\ Len(lines) \in Nat /\ DOMAIN lines = 1 .. Len(lines)
        /\ DOMAIN Append(lines, e) = 1 .. Len(lines) + 1
    BY <1>2
  <2>2. /\ Append(lines, e)[Len(lines) + 1] = e
        /\ \A i \in 1 .. Len(lines) : Append(lines, e)[i] = lines[i]
    BY <1>2
  <2>3. \A n \in Nat : n + 1 \notin 1 .. n /\ 1 .. n + 1 = (1 .. n) \cup {n + 1}
    OBVIOUS
  <2>. QED BY <2>1, <2>2, <2>3
<1>5. Whole(p) /\ Owed(p) /\ Positions(p) = {}
  BY <1>1 DEF WholeInv, Whole, Settled, Moving
<1>6. e.ref = p /\ Writes(e, t)
  BY DEF EntryFor, Writes
<1>. HIDE DEF e, lines
<1>7. DraftPositions(p)' = DraftPositions(p) \cup {new} /\ new \notin DraftPositions(p)
  <2>1. new \in Accounts \X Nat /\ new[1] = a /\ new[2] = Len(lines) + 1
    BY <1>2, <1>4
  <2>2. ASSUME NEW x \in Accounts \X Nat
        PROVE  x[2] \in DOMAIN drafts'[p][x[1]]
                 <=> x[2] \in DOMAIN drafts[p][x[1]] \/ x = new
    <3>1. x = <<x[1], x[2]>> /\ x[1] \in Accounts
      OBVIOUS
    <3>2. CASE x[1] = a
      <4>1. x = new <=> x[2] = Len(lines) + 1
        BY <3>1, <3>2
      <4>. QED BY <1>3, <1>4, <3>2, <4>1 DEF lines
    <3>3. CASE x[1] # a
      BY <1>3, <2>1, <3>1, <3>3
    <3>. QED BY <3>2, <3>3
  <2>. HIDE DEF new
  <2>. QED BY <1>4, <2>1, <2>2 DEF DraftPositions, lines
<1>8. ASSUME NEW b \in Accounts, NEW i \in DOMAIN drafts[p][b]
      PROVE  i \in DOMAIN drafts'[p][b] /\ drafts'[p][b][i] = drafts[p][b][i]
  BY <1>3, <1>4 DEF lines
<1>9. ASSUME NEW b \in Accounts, NEW i \in DOMAIN drafts'[p][b]
      PROVE  drafts'[p][b][i].ref = p
  <2>1. CASE b = a
    <3>1. i = Len(lines) + 1 \/ i \in DOMAIN lines
      BY <1>3, <1>4, <1>9, <2>1
    <3>2. ASSUME i \in DOMAIN lines PROVE lines[i].ref = p
      BY <1>2, <1>5, <3>2 DEF lines, Whole
    <3>. QED BY <1>3, <1>4, <1>6, <2>1, <3>1, <3>2
  <2>2. CASE b # a
    BY <1>3, <1>5, <1>9, <2>2 DEF Whole
  <2>. QED BY <2>1, <2>2
<1>10. Positions(p)' = Positions(p) /\ Postings(call[p])' = Postings(call[p])
  BY <1>1, PostingsKept DEF Moving, Positions
<1>11. Owed(p)'
  <2>1. /\ IsFiniteSet(todo[p]) /\ IsFiniteSet(DraftPositions(p))
        /\ Cardinality(todo[p]) \in Nat /\ Cardinality(DraftPositions(p)) \in Nat
    BY <1>5, FS_CardinalityType DEF Owed
  <2>2. IsFiniteSet(todo'[p]) /\ Cardinality(todo'[p]) = Cardinality(todo[p]) - 1
    BY <1>3, <2>1, FS_RemoveElement
  <2>3. /\ IsFiniteSet(DraftPositions(p)')
        /\ Cardinality(DraftPositions(p)') = Cardinality(DraftPositions(p)) + 1
    <3>. HIDE DEF new
    <3>1. /\ IsFiniteSet(DraftPositions(p) \cup {new})
          /\ Cardinality(DraftPositions(p) \cup {new}) = Cardinality(DraftPositions(p)) + 1
      BY <1>7, <2>1, FS_AddElement
    <3>. QED BY <1>7, <3>1
  <2>4. Cardinality(DraftPositions(p)') + Cardinality(todo'[p])
          = Cardinality(DraftPositions(p)) + Cardinality(todo[p])
    BY <2>1, <2>2, <2>3
  <2>5. ASSUME NEW u \in Postings(call[p]) PROVE u \in todo'[p] \/ Drafted(p, u)'
    <3>1. CASE u = t
      <4>1. Len(lines) + 1 \in DOMAIN drafts'[p][a] /\ drafts'[p][a][Len(lines) + 1] = e
        BY <1>3, <1>4
      <4>. QED BY <1>6, <3>1, <4>1 DEF Drafted
    <3>2. CASE u # t /\ u \in todo[p]
      BY <1>3, <3>2
    <3>3. CASE u \notin todo[p]
      <4>1. Drafted(p, u)
        BY <1>5, <3>3 DEF Owed
      <4>2. u.account \in Accounts
        <5>1. CASE call[p] \in Calls
          BY <5>1, PostingsType DEF Posting
        <5>2. CASE call[p] = NoCall
          BY <5>2 DEF Postings, NoCall
        <5>. QED BY <5>1, <5>2 DEF TypeOK
      <4>. QED BY <1>8, <4>1, <4>2 DEF Drafted
    <3>. QED BY <3>1, <3>2, <3>3
  <2>. QED BY <1>1, <1>5, <1>10, <2>2, <2>3, <2>4, <2>5 DEF Owed
<1>12. Referred(p)'
  <2>1. \A ref : Positions(ref)' = Positions(ref)
    BY <1>1 DEF Positions
  <2>. QED BY <1>1, <1>5, <2>1 DEF Whole, Referred, Moving
<1>13. Whole(p)'
  BY <1>1, <1>5, <1>9, <1>10, <1>11, <1>12 DEF Whole
<1>14. \A q \in Requests \ {p} : todo'[q] = todo[q] /\ drafts'[q] = drafts[q]
  BY <1>1 DEF TypeOK
<1>. QED BY <1>1, <1>13, <1>14, WholeOthers
\* At the commit nothing is left to post, so every posting has its entry.
LEMMA WholeCommit ==
  ASSUME TypeOK, WholeInv, [Next]_vars, NEW p \in Requests, Commit(p)
  PROVE  WholeInv' /\ Settled(p)'
<1>. DEFINE c == call[p]
<1>1. /\ pc[p] = "posting" /\ todo[p] = {} /\ UNCHANGED call
      /\ pc'[p] = "publishing" /\ drafts'[p] = NoDraft
      /\ \A q \in Requests \ {p} :
           pc'[q] = pc[q] /\ todo'[q] = todo[q] /\ drafts'[q] = drafts[q]
  BY DEF Commit, IsComplete, Leave, TypeOK
<1>2. Whole(p) /\ Owed(p)
  BY <1>1 DEF WholeInv, Whole, Moving
<1>3. Postings(c)' = Postings(c)
  BY <1>1, PostingsKept DEF Moving
<1>4. Settled(p)'
  <2>1. Cardinality(Positions(p)') = Cardinality(Postings(c))
    <3>1. Cardinality(DraftPositions(p)) \in Nat /\ Cardinality(todo[p]) = 0
      BY <1>1, <1>2, FS_CardinalityType, FS_EmptySet DEF Owed
    <3>2. Cardinality(DraftPositions(p)) = Cardinality(Postings(c))
      BY <1>2, <3>1 DEF Owed
    <3>. QED BY <3>2, CommitPositions
  <2>2. ASSUME NEW t \in Postings(c) PROVE Entered(p, t)'
    <3>1. Drafted(p, t)
      BY <1>1, <1>2 DEF Owed
    <3>2. PICK i \in DOMAIN drafts[p][t.account] : Writes(drafts[p][t.account][i], t)
      BY <3>1 DEF Drafted
    <3>3. t.account \in Accounts
      <4>1. CASE c \in Calls
        BY <4>1, PostingsType DEF Posting
      <4>2. CASE c = NoCall
        BY <4>2 DEF Postings, NoCall
      <4>. QED BY <4>1, <4>2 DEF TypeOK
    <3>. DEFINE y == <<t.account, i>>
                x == <<t.account, Len(entries[t.account]) + i>>
    <3>4. y \in DraftPositions(p) /\ y[1] = t.account /\ y[2] = i
      <4>1. drafts[p][t.account] \in Seq(Entry)
        BY <3>3 DEF TypeOK
      <4>2. i \in Nat
        BY <3>2, <4>1
      <4>. QED BY <3>2, <3>3, <4>2 DEF DraftPositions
    <3>5. x \in Positions(p)' /\ entries'[x[1]][x[2]] = drafts[p][t.account][i]
      BY <3>4, CommitPositions
    <3>6. Writes(entries'[x[1]][x[2]], t) /\ x[1] = t.account
      BY <3>2, <3>5
    <3>. QED BY <3>5, <3>6 DEF Entered, Writes
  <2>. QED BY <1>1, <1>3, <2>1, <2>2 DEF Settled
<1>5. Referred(p)'
  <2>1. SUFFICES ASSUME c.op = "reverse"
                 PROVE  c.of \in Requests /\ Positions(call[p].of)' # {}
    BY <1>1 DEF Referred
  <2>2. c.of \in Requests /\ Positions(c.of) # {}
    BY <1>1, <1>2, <2>1 DEF Whole, Referred, Moving
  <2>3. ~Commit(c.of)
    BY <2>2, CommittedRests
  <2>4. Positions(c.of)' = Positions(c.of)
    <3>. HIDE DEF c
    <3>1. \A r \in Requests : ~Commit(r) => Positions(r)' = Positions(r)
      BY PositionsKept
    <3>. QED BY <1>1, <2>2, <2>3, <3>1 DEF c
  <2>. QED BY <2>2, <2>4
<1>6. Whole(p)'
  <2>1. IsFiniteSet(Positions(p)')
    BY CommitPositions
  <2>2. \A a \in Accounts : drafts'[p][a] = <<>>
    BY <1>1 DEF NoDraft
  <2>3. \A a \in Accounts : \A i \in DOMAIN drafts'[p][a] : drafts'[p][a][i].ref = p
    BY <2>2
  <2>4. ~Moving(p)'
    BY <1>1 DEF Moving
  <2>. QED BY <1>4, <1>5, <2>1, <2>2, <2>3, <2>4 DEF Whole
<1>. QED BY <1>1, <1>4, <1>6, WholeOthers

LEMMA NextWhole == TypeOK /\ WholeInv /\ [Next]_vars => WholeInv'
<1>. SUFFICES ASSUME TypeOK, WholeInv, [Next]_vars PROVE WholeInv'
  OBVIOUS
<1>1. ASSUME NEW p \in Requests, Begin(p) PROVE WholeInv'
  BY <1>1, WholeBegin DEF Begin
<1>2. ASSUME NEW p \in Requests, Advance(p) PROVE WholeInv'
  \* A step that only moves p along, or keeps its postings.
  <2>0. ASSUME UNCHANGED <<call, todo, drafts>>,
               \A q \in Requests \ {p} : pc'[q] = pc[q],
               \/ pc'[p] = pc[p]
               \/ pc[p] = "locking" /\ pc'[p] = "posting"
               \/ pc[p] = "publishing" /\ pc'[p] = "done"
               \/ pc[p] = "saving" /\ pc'[p] = "updating"
        PROVE  WholeInv'
    <3>1. ~Commit(p)
      BY <2>0 DEF Commit, IsComplete, Leave, TypeOK
    <3>2. Whole(p)'
      BY <2>0, <3>1, WholeFrame DEF Moving
    <3>. QED BY <2>0, <3>2, WholeOthers
  <2>1. ASSUME NEW a \in Accounts, LockAccount(p, a) PROVE WholeInv'
    BY <2>0, <2>1 DEF LockAccount
  <2>2. ASSUME NEW a \in Accounts, AccountNotFound(p, a) PROVE WholeInv'
    BY <2>2, WholeRollback DEF AccountNotFound
  <2>3. CASE Validate(p)
    <3>1. CASE Accepts(p)
      BY <2>0, <2>3, <3>1 DEF Validate, TypeOK
    <3>2. CASE ~Accepts(p)
      BY <2>3, <3>2, WholeRollback DEF Validate
    <3>. QED BY <3>1, <3>2
  <2>4. ASSUME NEW t \in todo[p], Post(p, t) PROVE WholeInv'
    BY <2>4, WholePost
  <2>5. ASSUME NEW t \in todo[p], RefuseReversal(p, t) PROVE WholeInv'
    BY <2>5, WholeRollback DEF RefuseReversal
  <2>6. CASE Commit(p)
    BY <2>6, WholeCommit
  <2>7. ASSUME NEW e \in events[p], Publish(p, e) PROVE WholeInv'
    BY <2>0, <2>7 DEF Publish, MayPublish, TypeOK
  <2>8. CASE ReloadForSave(p)
    BY <2>0, <2>8 DEF ReloadForSave, TypeOK
  <2>9. CASE UpdateRow(p)
    <3>1. /\ pc[p] = "updating" /\ pc'[p] = "publishing" /\ drafts'[p] = NoDraft
          /\ UNCHANGED call
          /\ \A q \in Requests \ {p} :
               pc'[q] = pc[q] /\ todo'[q] = todo[q] /\ drafts'[q] = drafts[q]
      BY <2>9 DEF UpdateRow, Leave, TypeOK
    <3>2. ~Commit(p) /\ Positions(p) = {} /\ ~Moving(p)'
          /\ \A a \in Accounts : drafts'[p][a] = <<>>
      BY <3>1 DEF WholeInv, Whole, Settled, Commit, IsComplete, Moving, NoDraft
    <3>3. Whole(p)'
      BY <3>2, WholeRest
    <3>. QED BY <3>1, <3>3, WholeOthers
  <2>. QED BY <1>2, <2>1, <2>2, <2>3, <2>4, <2>5, <2>6, <2>7, <2>8, <2>9 DEF Advance
<1>3. ASSUME NEW p \in Requests, Crash(p) PROVE WholeInv'
  BY <1>3, WholeRollback DEF Crash, Running
<1>4. CASE Midnight \/ Finished \/ UNCHANGED vars
  <2>1. UNCHANGED <<pc, call, todo, drafts, entries>>
    BY <1>4 DEF Midnight, Finished, vars, tables
  <2>2. ASSUME NEW p \in Requests PROVE Whole(p)'
    <3>1. ~Commit(p)
      BY <2>1 DEF Commit, IsComplete, Leave, TypeOK
    <3>. QED BY <2>1, <3>1, WholeFrame DEF Moving
  <2>. QED BY <2>2 DEF WholeInv
<1>. QED BY <1>1, <1>2, <1>3, <1>4 DEF Next

LEMMA InitWhole == Init => WholeInv
<1>. SUFFICES ASSUME Init, NEW p \in Requests PROVE Whole(p)
  BY DEF WholeInv
<1>1. pc[p] = "idle" /\ \A a \in Accounts : drafts[p][a] = <<>>
  BY DEF Init, NoDraft
<1>2. Positions(p) = {}
  <2>1. ASSUME NEW a \in Accounts, NEW i \in DOMAIN entries[a]
        PROVE  entries[a][i].ref # p
    <3>. DEFINE first == [ref |-> OpeningRef, of |-> OpeningRef,
                          amount |-> OpeningBalance[a], type |-> "DEPOSIT",
                          after |-> OpeningBalance[a], day |-> 0]
    <3>1. entries[a] = <<first>> \/ entries[a] = <<>>
      BY DEF Init
    <3>2. entries[a][i] = first
      BY <2>1, <3>1
    <3>. QED BY <3>2, LedgerAssumption
  <2>. QED BY <2>1, PositionsAre
<1>3. IsFiniteSet({})
  BY FS_EmptySet
<1>. QED BY <1>1, <1>2, <1>3 DEF Whole, Referred, Moving

\* A posting and its entry, a line of a reversal and the line it undoes.
LEMMA WholeShown == TypeOK /\ WholeInv => WholeTransactions
<1>. SUFFICES ASSUME TypeOK, WholeInv, NEW p \in Requests, Positions(p) # {}
              PROVE  LET c == call[p]
                     IN  IF c.op = "reverse"
                         THEN /\ Cardinality(Positions(p)) = Cardinality(Positions(c.of))
                              /\ \A x \in Lines(c.of) :
                                   HasLine(p, x.account, -x.amount, "REVERSAL")
                         ELSE /\ Cardinality(Positions(p)) = Cardinality(Postings(c))
                              /\ \A t \in Postings(c) : HasLine(p, t.account, t.amount, t.type)
  BY DEF WholeTransactions
<1>. DEFINE c == call[p]
<1>1. Settled(p) /\ Referred(p)
  BY DEF WholeInv, Whole
<1>2. c \in Calls
  <2>1. CASE c = NoCall
    <3>1. Postings(c) = {}
      BY <2>1 DEF Postings, NoCall
    <3>2. Cardinality(Positions(p)) = 0
      BY <1>1, <3>1, FS_EmptySet DEF Settled
    <3>. QED BY <3>2, FS_EmptySet DEF WholeInv, Whole
  <2>. QED BY <2>1 DEF TypeOK
<1>3. ASSUME NEW t \in Postings(c) PROVE HasLine(p, t.account, t.amount, t.type)
  <2>1. PICK x \in Positions(p) : x[1] = t.account /\ Writes(entries[x[1]][x[2]], t)
    BY <1>1 DEF Settled, Entered
  <2>. DEFINE line == [account |-> x[1], line |-> x[2],
                       amount |-> entries[x[1]][x[2]].amount,
                       type |-> entries[x[1]][x[2]].type]
  <2>2. line \in Lines(p)
    BY DEF Lines
  <2>3. line.account = t.account /\ line.amount = t.amount /\ line.type = t.type
    BY <2>1 DEF Writes
  <2>. QED BY <2>2, <2>3 DEF HasLine
<1>4. CASE c.op = "reverse"
  <2>1. ASSUME NEW x \in Lines(c.of) PROVE HasLine(p, x.account, -x.amount, "REVERSAL")
    <3>1. PICK y \in Positions(c.of) :
            x = [account |-> y[1], line |-> y[2],
                 amount |-> entries[y[1]][y[2]].amount, type |-> entries[y[1]][y[2]].type]
      BY <2>1 DEF Lines
    <3>. DEFINE t == Posted(y[1], y[2], -entries[y[1]][y[2]].amount, "REVERSAL")
    <3>2. t \in Postings(c)
      BY <1>4 DEF Postings
    <3>3. HasLine(p, t.account, t.amount, t.type)
      BY <1>3, <3>2
    <3>. QED BY <3>1, <3>3 DEF Posted
  <2>. QED BY <1>1, <1>2, <1>4, <2>1, PostingsFinite DEF Settled
<1>5. CASE c.op # "reverse"
  BY <1>1, <1>3, <1>5 DEF Settled
<1>. QED BY <1>4, <1>5

\* A transaction is in the ledger whole or not at all, for any number of
\* requests at once and wherever pods die: the postings of a committed call all
\* have their entries and there are no others, and a reversal has one opposite
\* line for each line of what it reverses.
THEOREM TransactionsWhole == Spec => []WholeTransactions
  BY InitWhole, NextWhole, WholeShown, TypeCorrect, PTL DEF Spec
-----------------------------------------------------------------------------
(* Events and entries *)

\* The events of a call are keyed on the accounts it posts to, and leave
\* after the commit.
Backed(p) ==
  /\ \A e \in events[p] : e.ref = p
  /\ Moving(p) =>
       \A e \in events[p] : \E t \in Postings(call[p]) : t.account = e.key
  /\ pc[p] \in {"saving", "updating"} => \A e \in events[p] : e.type = "status"
  /\ pc[p] = "publishing" =>
       \A e \in events[p] : e.type # "status" => \E x \in Positions(p) : x[1] = e.key

EventsInv == NoPhantomEvents /\ \A p \in Requests : Backed(p)

LEMMA PositionsGrow ==
  ASSUME TypeOK, WholeInv, [Next]_vars, NEW r \in Requests
  PROVE  Positions(r) \subseteq Positions(r)'
<1>1. CASE Commit(r)
  BY <1>1 DEF WholeInv, Whole, Settled, Commit, IsComplete
<1>2. CASE ~Commit(r)
  BY <1>2, PositionsKept
<1>. QED BY <1>1, <1>2

\* Events handed to the bus before stay backed.
LEMMA PublishedStay ==
  ASSUME TypeOK, WholeInv, NoPhantomEvents, [Next]_vars
  PROVE  \A e \in published :
           e.type # "status" => \E x \in Positions(e.ref)' : x[1] = e.key
<1>. SUFFICES ASSUME NEW e \in published, e.type # "status"
              PROVE  \E x \in Positions(e.ref)' : x[1] = e.key
  OBVIOUS
<1>1. e.ref \in Requests
  BY DEF TypeOK, Event
<1>2. \A r \in Requests : Positions(r) \subseteq Positions(r)'
  BY PositionsGrow
<1>. QED BY <1>1, <1>2 DEF NoPhantomEvents

\* A request that keeps its place keeps what its events report.
LEMMA BackedFrame ==
  ASSUME TypeOK, WholeInv, [Next]_vars, NEW q \in Requests, Backed(q),
         pc'[q] = pc[q] \/ (pc[q] = "locking" /\ pc'[q] = "posting")
           \/ (pc[q] = "saving" /\ pc'[q] = "updating") \/ pc'[q] = "done",
         call'[q] = call[q], events'[q] \subseteq events[q]
  PROVE  Backed(q)'
<1>1. Moving(q)' =>
        \A e \in events'[q] : \E t \in Postings(call[q])' : t.account = e.key
  <2>1. SUFFICES ASSUME Moving(q)'
                 PROVE  \A e \in events'[q] : \E t \in Postings(call[q])' : t.account = e.key
    OBVIOUS
  <2>2. Moving(q)
    BY <2>1 DEF Moving
  <2>3. Postings(call[q])' = Postings(call[q])
    BY <2>2, PostingsKept
  <2>. QED BY <2>2, <2>3 DEF Backed
<1>2. pc'[q] = "publishing" =>
        \A e \in events'[q] : e.type # "status" => \E x \in Positions(q)' : x[1] = e.key
  BY PositionsGrow DEF Backed
<1>3. \A e \in events'[q] : e.ref = q
  BY DEF Backed
<1>4. pc'[q] \in {"saving", "updating"} => \A e \in events'[q] : e.type = "status"
  BY DEF Backed
<1>. QED BY <1>1, <1>2, <1>3, <1>4 DEF Backed

LEMMA BackedOthers ==
  ASSUME TypeOK, WholeInv, EventsInv, [Next]_vars, NEW p \in Requests, Backed(p)',
         UNCHANGED published,
         \A q \in Requests \ {p} :
           pc'[q] = pc[q] /\ call'[q] = call[q] /\ events'[q] = events[q]
  PROVE  EventsInv'
<1>1. ASSUME NEW q \in Requests \ {p} PROVE Backed(q)'
  BY BackedFrame DEF EventsInv
<1>2. NoPhantomEvents'
  BY PublishedStay DEF EventsInv, NoPhantomEvents
<1>. QED BY <1>1, <1>2 DEF EventsInv

LEMMA BackedRollback ==
  ASSUME TypeOK, WholeInv, EventsInv, [Next]_vars, NEW p \in Requests, NEW end,
         Rollback(p, end)
  PROVE  EventsInv'
<1>1. /\ events'[p] = {} /\ UNCHANGED <<call, published>>
      /\ \A q \in Requests \ {p} : pc'[q] = pc[q] /\ events'[q] = events[q]
  BY DEF Rollback, Leave, outside, TypeOK
<1>2. Backed(p)'
  BY <1>1 DEF Backed
<1>. QED BY <1>1, <1>2, BackedOthers

LEMMA BackedBegin ==
  ASSUME TypeOK, WholeInv, EventsInv, [Next]_vars, NEW p \in Requests, NEW c \in Calls,
         BeginLedger(p, c) \/ FindForStatus(p, c)
  PROVE  EventsInv'
<1>1. /\ UNCHANGED <<entries, published>>
      /\ \A q \in Requests \ {p} :
           pc'[q] = pc[q] /\ call'[q] = call[q] /\ events'[q] = events[q]
  BY DEF BeginLedger, FindForStatus, Turned, tables, outside, TypeOK
<1>2. \A e \in EventsOf(p, c) : e.ref = p
  BY DEF EventsOf, Announced
<1>3. CASE pc'[p] = "refused"
  <2>1. events'[p] = events[p]
    BY <1>3 DEF BeginLedger, FindForStatus, Turned, TypeOK
  <2>2. Backed(p)'
    BY <1>3, <2>1 DEF EventsInv, Backed, Moving
  <2>. QED BY <1>1, <2>2, BackedOthers
<1>4. CASE pc'[p] = "locking"
  <2>1. BeginLedger(p, c) /\ ~Refuses(c)
    BY <1>4 DEF BeginLedger, FindForStatus, Turned, TypeOK
  <2>2. call'[p] = c /\ events'[p] = EventsOf(p, c)
    BY <2>1 DEF BeginLedger, TypeOK
  <2>3. Postings(c)' = Postings(c)
    BY <1>1 DEF Postings, Positions
  <2>4. c.op \in {"deposit", "withdraw", "transfer", "reverse"}
    BY <2>1, LedgerAssumption DEF BeginLedger, Ops
  <2>5. ASSUME NEW e \in EventsOf(p, c) PROVE \E t \in Postings(c) : t.account = e.key
    <3>1. CASE c.op # "reverse"
      <4>1. e.key = (IF c.op = "deposit" THEN c.to ELSE c.from)
        BY <2>4, <2>5, <3>1 DEF EventsOf, Announced
      <4>2. CASE c.op = "deposit"
        <5>1. Posted(c.to, 1, c.amount, "DEPOSIT") \in Postings(c)
          BY <4>2 DEF Postings
        <5>. QED BY <4>1, <4>2, <5>1 DEF Posted
      <4>3. CASE c.op = "withdraw"
        <5>1. Posted(c.from, 1, -c.amount, "WITHDRAWAL") \in Postings(c)
          BY <4>3 DEF Postings
        <5>. QED BY <4>1, <4>3, <5>1 DEF Posted
      <4>4. CASE c.op = "transfer"
        <5>1. Posted(c.from, 1, -c.amount, "TRANSFER_OUT") \in Postings(c)
          BY <4>4 DEF Postings
        <5>. QED BY <4>1, <4>4, <5>1 DEF Posted
      <4>. QED BY <2>4, <3>1, <4>2, <4>3, <4>4
    <3>2. CASE c.op = "reverse"
      <4>1. PICK x \in Positions(c.of) : e.key = x[1]
        BY <2>5, <3>2 DEF EventsOf, Announced
      <4>2. Posted(x[1], x[2], -entries[x[1]][x[2]].amount, "REVERSAL") \in Postings(c)
        BY <3>2 DEF Postings
      <4>. QED BY <4>1, <4>2 DEF Posted
    <3>. QED BY <3>1, <3>2
  <2>6. Backed(p)'
    BY <1>2, <1>4, <2>2, <2>3, <2>5 DEF Backed
  <2>. QED BY <1>1, <2>6, BackedOthers
<1>5. CASE pc'[p] = "saving"
  <2>1. events'[p] = EventsOf(p, c) /\ c.op = "status"
    BY <1>5 DEF BeginLedger, FindForStatus, Turned, TypeOK
  <2>2. \A e \in EventsOf(p, c) : e.type = "status"
    BY <2>1 DEF EventsOf, Announced
  <2>3. Backed(p)'
    BY <1>2, <1>5, <2>1, <2>2 DEF Backed, Moving
  <2>. QED BY <1>1, <2>3, BackedOthers
<1>6. pc'[p] \in {"refused", "locking", "saving"}
  BY DEF BeginLedger, FindForStatus, Turned, TypeOK
<1>. QED BY <1>3, <1>4, <1>5, <1>6

LEMMA NextBacked == TypeOK /\ WholeInv /\ EventsInv /\ [Next]_vars => EventsInv'
<1>. SUFFICES ASSUME TypeOK, WholeInv, EventsInv, [Next]_vars PROVE EventsInv'
  OBVIOUS
<1>1. ASSUME NEW p \in Requests, Begin(p) PROVE EventsInv'
  BY <1>1, BackedBegin DEF Begin
<1>2. ASSUME NEW p \in Requests, Advance(p) PROVE EventsInv'
  \* A step that only moves p along.
  <2>0. ASSUME UNCHANGED <<call, events, published>>,
               \A q \in Requests \ {p} : pc'[q] = pc[q],
               \/ pc'[p] = pc[p]
               \/ pc[p] = "locking" /\ pc'[p] = "posting"
               \/ pc[p] = "saving" /\ pc'[p] = "updating"
        PROVE  EventsInv'
    <3>1. Backed(p)'
      BY <2>0, BackedFrame DEF EventsInv
    <3>. QED BY <2>0, <3>1, BackedOthers
  <2>1. ASSUME NEW a \in Accounts, LockAccount(p, a) PROVE EventsInv'
    BY <2>0, <2>1 DEF LockAccount, outside
  <2>2. ASSUME NEW a \in Accounts, AccountNotFound(p, a) PROVE EventsInv'
    BY <2>2, BackedRollback DEF AccountNotFound
  <2>3. CASE Validate(p)
    <3>1. CASE Accepts(p)
      BY <2>0, <2>3, <3>1 DEF Validate, outside, TypeOK
    <3>2. CASE ~Accepts(p)
      BY <2>3, <3>2, BackedRollback DEF Validate
    <3>. QED BY <3>1, <3>2
  <2>4. ASSUME NEW t \in todo[p], Post(p, t) PROVE EventsInv'
    BY <2>0, <2>4 DEF Post, outside
  <2>5. ASSUME NEW t \in todo[p], RefuseReversal(p, t) PROVE EventsInv'
    BY <2>5, BackedRollback DEF RefuseReversal
  <2>6. CASE Commit(p)
    <3>1. /\ UNCHANGED <<call, events, published>> /\ pc[p] = "posting"
          /\ pc'[p] = "publishing"
          /\ \A q \in Requests \ {p} : pc'[q] = pc[q]
      BY <2>6 DEF Commit, IsComplete, Leave, outside, TypeOK
    <3>2. ASSUME NEW e \in events[p] PROVE \E x \in Positions(p)' : x[1] = e.key
      <4>1. PICK t \in Postings(call[p]) : t.account = e.key
        BY <3>1 DEF EventsInv, Backed, Moving
      <4>2. Postings(call[p])' = Postings(call[p])
        BY <3>1, PostingsKept DEF Moving
      <4>3. Entered(p, t)'
        BY <2>6, <4>2, WholeCommit DEF Settled
      <4>. QED BY <4>1, <4>3 DEF Entered
    <3>3. Backed(p)'
      BY <3>1, <3>2 DEF EventsInv, Backed, Moving
    <3>. QED BY <3>1, <3>3, BackedOthers
  <2>7. ASSUME NEW e \in events[p], Publish(p, e) PROVE EventsInv'
    <3>1. /\ UNCHANGED call /\ published' = published \cup {e} /\ pc[p] = "publishing"
          /\ pc'[p] \in {"publishing", "done"} /\ events'[p] = events[p] \ {e}
          /\ \A q \in Requests \ {p} : pc'[q] = pc[q] /\ events'[q] = events[q]
      BY <2>7 DEF Publish, MayPublish, TypeOK
    <3>2. e.type # "status" => \E x \in Positions(e.ref)' : x[1] = e.key
      <4>1. e.ref = p /\ (e.type # "status" => \E x \in Positions(p) : x[1] = e.key)
        BY <3>1 DEF EventsInv, Backed
      <4>. QED BY <4>1, PositionsGrow
    <3>3. NoPhantomEvents'
      BY <3>1, <3>2, PublishedStay DEF EventsInv, NoPhantomEvents
    <3>4. ASSUME NEW q \in Requests PROVE Backed(q)'
      BY <3>1, BackedFrame DEF EventsInv
    <3>. QED BY <3>3, <3>4 DEF EventsInv
  <2>8. CASE ReloadForSave(p)
    BY <2>0, <2>8 DEF ReloadForSave, outside, TypeOK
  <2>9. CASE UpdateRow(p)
    <3>1. /\ UNCHANGED <<call, events, published>> /\ pc[p] = "updating"
          /\ pc'[p] = "publishing"
          /\ \A q \in Requests \ {p} : pc'[q] = pc[q]
      BY <2>9 DEF UpdateRow, Leave, outside, TypeOK
    <3>2. Backed(p)'
      BY <3>1 DEF EventsInv, Backed, Moving
    <3>. QED BY <3>1, <3>2, BackedOthers
  <2>. QED BY <1>2, <2>1, <2>2, <2>3, <2>4, <2>5, <2>6, <2>7, <2>8, <2>9 DEF Advance
<1>3. ASSUME NEW p \in Requests, Crash(p) PROVE EventsInv'
  BY <1>3, BackedRollback DEF Crash
<1>4. CASE Midnight \/ Finished \/ UNCHANGED vars
  <2>1. UNCHANGED <<pc, call, events, published>>
    BY <1>4 DEF Midnight, Finished, vars
  <2>2. ASSUME NEW q \in Requests PROVE Backed(q)'
    BY <2>1, BackedFrame DEF EventsInv
  <2>3. NoPhantomEvents'
    BY <2>1, PublishedStay DEF EventsInv, NoPhantomEvents
  <2>. QED BY <2>2, <2>3 DEF EventsInv
<1>. QED BY <1>1, <1>2, <1>3, <1>4 DEF Next

\* Events are published after the commit they report, whatever crashes and
\* interleavings come: an event on the bus has its entry in the ledger.
THEOREM EventsHaveEntries == Spec => []NoPhantomEvents
<1>1. Init => EventsInv
  BY DEF Init, EventsInv, NoPhantomEvents, Backed, Moving
<1>. QED BY <1>1, InitWhole, NextWhole, NextBacked, TypeCorrect, PTL DEF Spec, EventsInv

-----------------------------------------------------------------------------
(* The daily limit *)

\* What a history comes to when each entry e counts w[e].
Weighed(w, lines) == [i \in DOMAIN lines |-> w[lines[i]]]

Tally(w, lines) == Total(Weighed(w, lines), DOMAIN lines)

Weight(w) == \A e \in Entry : w[e] \in Int

LEMMA WeighedInt ==
  ASSUME NEW w, Weight(w), NEW lines \in Seq(Entry)
  PROVE  /\ DOMAIN lines = 1 .. Len(lines) /\ IsFiniteSet(DOMAIN lines) /\ DOMAIN lines \in SUBSET Nat
         /\ \A i \in DOMAIN lines : Weighed(w, lines)[i] = w[lines[i]] /\ w[lines[i]] \in Int
<1>1. DOMAIN lines = 1 .. Len(lines) /\ Len(lines) \in Nat
  OBVIOUS
<1>2. IsFiniteSet(1 .. Len(lines))
  BY <1>1, FS_Interval
<1>3. \A i \in DOMAIN lines : lines[i] \in Entry
  OBVIOUS
<1>. QED BY <1>1, <1>2, <1>3 DEF Weighed, Weight

LEMMA TallyInt ==
  ASSUME NEW w, Weight(w), NEW lines \in Seq(Entry)
  PROVE  Tally(w, lines) \in Int
<1>1. \A i \in DOMAIN lines : Weighed(w, lines)[i] \in Int
  BY WeighedInt
<1>. QED BY <1>1, WeighedInt, TotalInt DEF Tally

LEMMA TallyNone == \A w : Tally(w, <<>>) = 0
<1>1. DOMAIN <<>> = {}
  OBVIOUS
<1>. QED BY <1>1, TotalNone DEF Tally

\* What counts nothing.
LEMMA TallyZero ==
  ASSUME NEW w, Weight(w), NEW lines \in Seq(Entry), \A i \in DOMAIN lines : w[lines[i]] = 0
  PROVE  Tally(w, lines) = 0
<1>1. \A i \in DOMAIN lines : Weighed(w, lines)[i] = 0
  BY WeighedInt
<1>. QED BY <1>1, WeighedInt, TotalZero DEF Tally

LEMMA TallyLess ==
  ASSUME NEW v, Weight(v), NEW w, Weight(w), NEW lines \in Seq(Entry),
         \A i \in DOMAIN lines : v[lines[i]] <= w[lines[i]]
  PROVE  Tally(v, lines) <= Tally(w, lines)
<1>1. \A i \in DOMAIN lines : /\ Weighed(v, lines)[i] \in Int /\ Weighed(w, lines)[i] \in Int
                              /\ Weighed(v, lines)[i] <= Weighed(w, lines)[i]
  BY WeighedInt
<1>. QED BY <1>1, WeighedInt, TotalLess DEF Tally

\* The community modules fold over a history from its last entry to its first.
Latest(s) == CHOOSE x \in s : \A y \in s : x >= y

LEMMA LatestIn ==
  ASSUME NEW w, Weight(w), NEW lines \in Seq(Entry), NEW s \in SUBSET DOMAIN lines, s # {}
  PROVE  /\ Latest(s) \in s /\ IsFiniteSet(s)
         /\ Total(Weighed(w, lines), s)
              = w[lines[Latest(s)]] + Total(Weighed(w, lines), s \ {Latest(s)})
         /\ Total(Weighed(w, lines), s \ {Latest(s)}) \in Int
<1>. DEFINE g == Weighed(w, lines)
<1>1. s \in SUBSET Nat /\ IsFiniteSet(s) /\ IsFiniteSet(s \ {Latest(s)})
  BY WeighedInt, FS_Subset
<1>2. PICK m \in s : \A x \in s : x <= m
  BY <1>1, GreatestNat
<1>3. m \in s /\ \A y \in s : m >= y
  BY <1>1, <1>2
<1>4. Latest(s) \in s
  BY <1>3 DEF Latest
<1>5. \A i \in s : g[i] \in Int /\ g[i] = w[lines[i]]
  BY WeighedInt
<1>. HIDE DEF g
<1>6. Total(g, s) = g[Latest(s)] + Total(g, s \ {Latest(s)})
  BY <1>1, <1>4, <1>5, TotalWithout
<1>7. Total(g, s \ {Latest(s)}) \in Int
  BY <1>1, <1>5, TotalInt
<1>. QED BY <1>1, <1>4, <1>5, <1>6, <1>7 DEF g

\* A function that adds entry by entry adds up the tally.
LEMMA TallyFollows ==
  ASSUME NEW w, Weight(w), NEW lines \in Seq(Entry), NEW f, f[{}] = 0,
         \A s \in SUBSET DOMAIN lines :
           s # {} /\ f[s \ {Latest(s)}] \in Int
             => f[s] = w[lines[Latest(s)]] + f[s \ {Latest(s)}]
  PROVE  f[DOMAIN lines] = Tally(w, lines)
<1>. DEFINE S == DOMAIN lines
            g == Weighed(w, lines)
            bad == {s \in SUBSET S : f[s] # Total(g, s)}
<1>1. bad = {}
  <2>. SUFFICES ASSUME bad # {} PROVE FALSE
    OBVIOUS
  <2>1. PICK s \in bad : \A t \in bad : Cardinality(s) <= Cardinality(t)
    <3>1. \A t \in bad : IsFiniteSet(t)
      BY WeighedInt, FS_Subset
    <3>. HIDE DEF bad
    <3>. QED BY <3>1, SmallestSet
  <2>2. s \in SUBSET S /\ f[s] # Total(g, s)
    OBVIOUS
  <2>3. s # {}
    BY <2>2, TotalNone
  <2>. DEFINE t == s \ {Latest(s)}
  <2>4. /\ Latest(s) \in s /\ IsFiniteSet(s)
        /\ Total(g, s) = w[lines[Latest(s)]] + Total(g, t)
        /\ Total(g, t) \in Int
    <3>. HIDE DEF bad
    <3>. QED BY <2>2, <2>3, LatestIn
  <2>5. t \in SUBSET S /\ Cardinality(t) = Cardinality(s) - 1 /\ Cardinality(s) \in Nat
    BY <2>2, <2>4, FS_RemoveElement, FS_CardinalityType
  <2>6. t \notin bad
    <3>. HIDE DEF bad, t
    <3>. QED BY <2>1, <2>5
  <2>7. f[t] = Total(g, t)
    <3>. HIDE DEF t
    <3>. QED BY <2>5, <2>6
  <2>8. f[s] = w[lines[Latest(s)]] + f[t]
    BY <2>2, <2>3, <2>4, <2>7
  <2>. QED BY <2>2, <2>4, <2>7, <2>8
<1>2. f[S] = Total(g, S)
  BY <1>1
<1>. QED BY <1>2 DEF Tally

\* What is written behind a history is counted with it.
LEMMA TallyConcat ==
  ASSUME NEW w, Weight(w), NEW old \in Seq(Entry), NEW new \in Seq(Entry)
  PROVE  Tally(w, old \o new) = Tally(w, old) + Tally(w, new)
<1>. DEFINE both == old \o new
            g == Weighed(w, both)
            A == DOMAIN old  N == DOMAIN new
            b == [i \in N |-> Len(old) + i]
            C == {b[i] : i \in N}
<1>1. both \in Seq(Entry)
  OBVIOUS
<1>2. /\ Len(old) \in Nat /\ Len(new) \in Nat /\ A = 1 .. Len(old) /\ N = 1 .. Len(new)
      /\ DOMAIN both = 1 .. Len(old) + Len(new)
      /\ \A i \in A : both[i] = old[i]
      /\ \A i \in N : both[Len(old) + i] = new[i]
  BY ConcatEntries
<1>3. \A i \in N : b[i] = Len(old) + i
  OBVIOUS
<1>4. C = Len(old) + 1 .. Len(old) + Len(new)
  <2>1. ASSUME NEW x \in Len(old) + 1 .. Len(old) + Len(new) PROVE x \in C
    <3>1. x - Len(old) \in N /\ x = Len(old) + (x - Len(old))
      BY <1>2, <2>1
    <3>2. x = b[x - Len(old)]
      BY <1>3, <3>1
    <3>. HIDE DEF b
    <3>. QED BY <3>1, <3>2
  <2>2. ASSUME NEW i \in N PROVE b[i] \in Len(old) + 1 .. Len(old) + Len(new)
    BY <1>2, <1>3
  <2>. QED BY <2>1, <2>2
<1>5. DOMAIN both = A \cup C /\ A \cap C = {}
  BY <1>2, <1>4
<1>. HIDE DEF b, both
<1>6. /\ IsFiniteSet(A) /\ IsFiniteSet(N) /\ IsFiniteSet(DOMAIN both)
      /\ \A i \in DOMAIN both : g[i] = w[both[i]] /\ g[i] \in Int
      /\ \A i \in A : Weighed(w, old)[i] = w[old[i]]
      /\ \A i \in N : Weighed(w, new)[i] = w[new[i]]
  BY <1>1, WeighedInt
<1>. HIDE DEF g
<1>7. Total(g, A) = Tally(w, old)
  <2>1. \A i \in A : g[i] \in Int /\ g[i] = Weighed(w, old)[i]
    BY <1>2, <1>5, <1>6
  <2>. QED BY <1>6, <2>1, TotalSame DEF Tally
<1>8. Total(g, C) = Tally(w, new)
  <2>. DEFINE h == Weighed(w, new)
  <2>1. \A i \in N : h[i] \in Int /\ g[b[i]] = h[i]
    <3>1. ASSUME NEW i \in N PROVE b[i] \in DOMAIN both /\ both[b[i]] = new[i]
      <4>1. b[i] \in C
        OBVIOUS
      <4>. QED BY <1>2, <1>3, <1>5, <4>1
    <3>. QED BY <1>6, <3>1
  <2>2. \A x, y \in N : b[x] = b[y] => x = y
    BY <1>2, <1>3
  <2>3. DOMAIN b = N
    BY DEF b
  <2>. HIDE DEF N, h, b, g, both
  <2>4. \A i \in N : g[b[i]] \in Int
    BY <2>1
  <2>5. IsFiniteSet(N)
    BY <1>6
  <2>6. Total(g, {b[i] : i \in N}) = Total(h, N)
    BY <2>1, <2>2, <2>3, <2>4, <2>5, TotalRenamed
  <2>. QED BY <2>6 DEF Tally, N, h, b
<1>9. Total(g, A \cup C) = Total(g, A) + Total(g, C)
  <2>1. IsFiniteSet(C)
    BY <1>5, <1>6, FS_Subset
  <2>2. \A x \in A \cup C : g[x] \in Int
    BY <1>5, <1>6
  <2>. HIDE DEF A, C
  <2>. QED BY <1>5, <1>6, <2>1, <2>2, TotalUnion
<1>10. Total(g, DOMAIN both) = Tally(w, old) + Tally(w, new)
  BY <1>5, <1>7, <1>8, <1>9
<1>. QED BY <1>10 DEF Tally, g, both

LEMMA TallyAppend ==
  ASSUME NEW w, Weight(w), NEW lines \in Seq(Entry), NEW e \in Entry
  PROVE  Tally(w, Append(lines, e)) = Tally(w, lines) + w[e]
<1>1. Append(lines, e) = lines \o <<e>> /\ <<e>> \in Seq(Entry)
  OBVIOUS
<1>2. Tally(w, <<e>>) = w[e]
  <2>. DEFINE g == Weighed(w, <<e>>)
  <2>1. DOMAIN <<e>> = {1} /\ <<e>>[1] = e
    OBVIOUS
  <2>2. g[1] = w[e] /\ g[1] \in Int
    <3>1. \A i \in DOMAIN <<e>> : g[i] = w[<<e>>[i]] /\ w[<<e>>[i]] \in Int
      BY <1>1, WeighedInt
    <3>2. 1 \in DOMAIN <<e>>
      BY <2>1
    <3>3. g[1] = w[<<e>>[1]] /\ w[<<e>>[1]] \in Int
      BY <3>1, <3>2
    <3>. QED BY <2>1, <3>3
  <2>. HIDE DEF g
  <2>3. Total(g, {1}) = g[1]
    BY <2>2, TotalSingle
  <2>. QED BY <2>1, <2>2, <2>3 DEF Tally, g
<1>. QED BY <1>1, <1>2, TallyConcat

\* What an entry counts towards the limit since a day, and what a history does.
Counts(e, day) == IF CountsToLimit(e, day) THEN -e.amount ELSE 0

CountsSince(day) == [e \in Entry |-> Counts(e, day)]

SpentOf(lines, day) == Tally(CountsSince(day), lines)

LEMMA CountsWeigh ==
  ASSUME NEW day
  PROVE  Weight(CountsSince(day)) /\ \A e \in Entry : CountsSince(day)[e] = Counts(e, day)
BY DEF Weight, CountsSince, Counts, Entry

\* The fold over a history adds up what its entries count.
LEMMA SpentFold ==
  ASSUME NEW lines \in Seq(Entry), NEW day \in Nat
  PROVE  FoldLeft(LAMBDA sum, e : IF CountsToLimit(e, day) THEN sum - e.amount ELSE sum, 0, lines)
           = SpentOf(lines, day)
<1>. DEFINE S == DOMAIN lines
            w == CountsSince(day)
            more(sum, i) == IF CountsToLimit(lines[i], day) THEN sum - lines[i].amount ELSE sum
            P(f) == f = [s \in SUBSET S |-> IF s = {} THEN 0 ELSE more(f[s \ {Latest(s)}], Latest(s))]
            iter == CHOOSE f : P(f)
            F == [s \in SUBSET S |-> Total(Weighed(w, lines), s)]
<1>1. FoldLeft(LAMBDA sum, e : IF CountsToLimit(e, day) THEN sum - e.amount ELSE sum, 0, lines)
        = iter[S]
  BY DEF FoldLeft, MapThenFoldSet, Max, Latest
<1>2. Weight(w) /\ \A i \in S : lines[i] \in Entry
  BY CountsWeigh
<1>3. ASSUME NEW i \in S, NEW sum \in Int PROVE more(sum, i) = w[lines[i]] + sum
  <2>1. w[lines[i]] = Counts(lines[i], day) /\ lines[i] \in Entry
    BY <1>2, CountsWeigh
  <2>. HIDE DEF w, S
  <2>. QED BY <2>1 DEF Counts, Entry
<1>. HIDE DEF more, w
<1>4. ASSUME NEW s \in SUBSET S
      PROVE  F[s] = IF s = {} THEN 0 ELSE more(F[s \ {Latest(s)}], Latest(s))
  <2>1. CASE s = {}
    BY <2>1, TotalNone
  <2>2. CASE s # {}
    <3>1. s \ {Latest(s)} \in SUBSET S
      OBVIOUS
    <3>2. /\ Latest(s) \in s /\ IsFiniteSet(s)
          /\ Total(Weighed(w, lines), s)
               = w[lines[Latest(s)]] + Total(Weighed(w, lines), s \ {Latest(s)})
          /\ Total(Weighed(w, lines), s \ {Latest(s)}) \in Int
      <4>1. Weight(w) /\ s \in SUBSET DOMAIN lines
        BY <1>2
      <4>. HIDE DEF F, P, iter, S
      <4>. QED BY <2>2, <4>1, LatestIn
    <3>3. /\ Latest(s) \in S /\ F[s \ {Latest(s)}] \in Int
          /\ F[s] = w[lines[Latest(s)]] + F[s \ {Latest(s)}]
      BY <3>1, <3>2
    <3>. HIDE DEF F, S
    <3>. QED BY <1>3, <2>2, <3>3
  <2>. QED BY <2>1, <2>2
<1>5. P(F)
  BY <1>4
<1>. HIDE DEF F
<1>6. P(iter)
  <2>. HIDE DEF P
  <2>. QED BY <1>5
<1>7. \A s \in SUBSET S :
        iter[s] = IF s = {} THEN 0 ELSE more(iter[s \ {Latest(s)}], Latest(s))
  <2>. HIDE DEF iter
  <2>. QED BY <1>6
<1>. HIDE DEF iter, P
<1>8. iter[S] = Tally(w, lines)
  <2>1. iter[{}] = 0
    BY <1>7
  <2>2. ASSUME NEW s \in SUBSET S, s # {}, iter[s \ {Latest(s)}] \in Int
        PROVE  iter[s] = w[lines[Latest(s)]] + iter[s \ {Latest(s)}]
    <3>1. Latest(s) \in S
      BY <1>2, <2>2, LatestIn
    <3>. QED BY <1>3, <1>7, <2>2, <3>1
  <2>. QED BY <1>2, <2>1, <2>2, TallyFollows
<1>. QED BY <1>1, <1>8 DEF SpentOf, w

LEMMA SpentInt ==
  ASSUME NEW lines \in Seq(Entry), NEW day \in Nat
  PROVE  SpentOf(lines, day) \in Int
BY CountsWeigh, TallyInt DEF SpentOf

LEMMA SpentNone == \A day : SpentOf(<<>>, day) = 0
  BY TallyNone DEF SpentOf

LEMMA SpentConcat ==
  ASSUME NEW old \in Seq(Entry), NEW new \in Seq(Entry), NEW day \in Nat
  PROVE  SpentOf(old \o new, day) = SpentOf(old, day) + SpentOf(new, day)
BY CountsWeigh, TallyConcat DEF SpentOf

LEMMA SpentAppend ==
  ASSUME NEW lines \in Seq(Entry), NEW e \in Entry, NEW day \in Nat
  PROVE  SpentOf(Append(lines, e), day) = SpentOf(lines, day) + Counts(e, day)
BY CountsWeigh, TallyAppend DEF SpentOf

\* A debit takes money away.
TakesMoney(e) == e.type \in DebitTypes => e.amount <= 0

\* What counted on a day counts no more on a later one.
LEMMA SpentLater ==
  ASSUME NEW lines \in Seq(Entry), \A i \in DOMAIN lines : TakesMoney(lines[i]),
         NEW day \in Nat, NEW later \in Nat, day <= later
  PROVE  SpentOf(lines, later) <= SpentOf(lines, day)
<1>1. ASSUME NEW i \in DOMAIN lines
      PROVE  Counts(lines[i], later) <= Counts(lines[i], day)
  <2>1. lines[i] \in Entry /\ TakesMoney(lines[i])
    OBVIOUS
  <2>. QED BY <2>1 DEF Entry, Counts, CountsToLimit, TakesMoney, DebitTypes
<1>2. \A i \in DOMAIN lines : CountsSince(later)[lines[i]] <= CountsSince(day)[lines[i]]
  BY <1>1, CountsWeigh
<1>. QED BY <1>2, CountsWeigh, TallyLess DEF SpentOf

\* What the ledger counts on an account, with what p has drafted there.
Counted(p, a) == SpentOf(entries[a], today) + SpentOf(drafts[p][a], today)

\* What p has drafted fits below the limit, and once validated so does the
\* debit it still has to write.
Limited(p) ==
  /\ \A a \in Accounts : /\ \A i \in DOMAIN drafts[p][a] : TakesMoney(drafts[p][a][i])
                         /\ Counted(p, a) <= Limit[a]
  /\ pc[p] = "posting" => \A t \in todo[p] :
       t.type \in DebitTypes => Counted(p, t.account) - t.amount <= Limit[t.account]

LimitInv ==
  /\ \A a \in Accounts : /\ \A i \in DOMAIN entries[a] : TakesMoney(entries[a][i])
                         /\ SpentOf(entries[a], today) <= Limit[a]
  /\ \A p \in Requests : Limited(p)

LEMMA CountedInt ==
  ASSUME TypeOK, NEW p \in Requests, NEW a \in Accounts
  PROVE  /\ SpentOf(entries[a], today) \in Int /\ SpentOf(drafts[p][a], today) \in Int
         /\ Counted(p, a) \in Int /\ Limit[a] \in Nat
<1>1. entries[a] \in Seq(Entry) /\ drafts[p][a] \in Seq(Entry) /\ today \in Nat
  BY DEF TypeOK
<1>2. SpentOf(entries[a], today) \in Int /\ SpentOf(drafts[p][a], today) \in Int
  BY <1>1, SpentInt
<1>. QED BY <1>2, LedgerAssumption DEF Counted

\* A call debits one account, once, by the amount it was asked for.
LEMMA OneDebit ==
  ASSUME TypeOK, NEW p \in Requests, Moving(p), Planned(p), Held(p),
         NEW t \in todo[p], t.type \in DebitTypes
  PROVE  /\ call[p] \in WithdrawCalls \/ call[p] \in TransferCalls
         /\ t.account = call[p].from /\ t.account \in Accounts
         /\ t.amount = -call[p].amount /\ call[p].amount \in Nat
         /\ \A u \in todo[p] : u.type \in DebitTypes => u = t
<1>. DEFINE c == call[p]
<1>1. c.op # "reverse" /\ todo[p] \subseteq Postings(c) /\ c \in Calls \cup {NoCall}
  BY DEF Planned, Held, DebitTypes, TypeOK
<1>2. c.op \in {"deposit", "withdraw", "transfer"}
  BY <1>1 DEF Planned
<1>3. c.op # "deposit"
  BY <1>1 DEF Postings, Posted, DebitTypes
<1>4. CASE c.op = "withdraw"
  <2>1. c \in WithdrawCalls
    BY <1>1, <1>4, CallShape
  <2>2. todo[p] \subseteq {Posted(c.from, 1, -c.amount, "WITHDRAWAL")}
    BY <1>1, <1>4 DEF Postings
  <2>3. c.from \in Accounts /\ c.amount \in Nat
    BY <2>1, LedgerAssumption DEF WithdrawCalls
  <2>4. \A u \in todo[p] : u.account = c.from /\ u.amount = -c.amount
    BY <2>2 DEF Posted
  <2>5. \A u \in todo[p] : u = t
    BY <2>2
  <2>. QED BY <2>1, <2>3, <2>4, <2>5
<1>5. CASE c.op = "transfer"
  <2>1. c \in TransferCalls
    BY <1>1, <1>5, CallShape
  <2>2. \A u \in todo[p] : u.type \in DebitTypes =>
          u = Posted(c.from, 1, -c.amount, "TRANSFER_OUT")
    BY <1>1, <1>5 DEF Postings, Posted, DebitTypes
  <2>3. c.from \in Accounts /\ c.amount \in Nat
    BY <2>1, LedgerAssumption DEF TransferCalls
  <2>4. \A u \in todo[p] : u.type \in DebitTypes => u.account = c.from /\ u.amount = -c.amount
    BY <2>2 DEF Posted
  <2>5. \A u \in todo[p] : u.type \in DebitTypes => u = t
    BY <2>2
  <2>. QED BY <2>1, <2>3, <2>4, <2>5
<1>. QED BY <1>2, <1>3, <1>4, <1>5

\* Requests that draft nothing leave the count as it is, and so do those that roll back.
LEMMA LimitStill ==
  ASSUME TypeOK, LimitInv, UNCHANGED <<entries, today>>,
         \A q \in Requests :
           /\ drafts'[q] = drafts[q] \/ drafts'[q] = NoDraft
           /\ pc'[q] = "posting" =>
                pc[q] = "posting" /\ todo'[q] = todo[q] /\ drafts'[q] = drafts[q]
  PROVE  LimitInv'
<1>1. ASSUME NEW q \in Requests PROVE Limited(q)'
  <2>1. Limited(q)
    BY DEF LimitInv
  <2>2. CASE drafts'[q] = drafts[q]
    BY <2>1, <2>2 DEF Limited, Counted
  <2>3. CASE drafts'[q] = NoDraft
    <3>1. \A a \in Accounts : drafts'[q][a] = <<>>
      BY <2>3 DEF NoDraft
    <3>2. \A a \in Accounts : Counted(q, a)' <= Limit[a]
      <4>1. ASSUME NEW a \in Accounts PROVE Counted(q, a)' <= Limit[a]
        <5>1. SpentOf(drafts'[q][a], today') = 0
          BY <3>1, SpentNone
        <5>2. SpentOf(entries'[a], today') <= Limit[a]
          BY DEF LimitInv
        <5>3. SpentOf(entries'[a], today') \in Int /\ Limit[a] \in Nat
          BY CountedInt
        <5>. QED BY <5>1, <5>2, <5>3 DEF Counted
      <4>. QED BY <4>1
    <3>3. pc'[q] = "posting" => drafts'[q] = drafts[q] /\ pc[q] = "posting" /\ todo'[q] = todo[q]
      OBVIOUS
    <3>4. pc'[q] = "posting" => \A t \in todo'[q] :
            t.type \in DebitTypes => Counted(q, t.account)' - t.amount <= Limit[t.account]
      BY <2>1, <3>3 DEF Limited, Counted
    <3>. QED BY <3>1, <3>2, <3>4 DEF Limited
  <2>. QED BY <2>2, <2>3
<1>. QED BY <1>1 DEF LimitInv

LEMMA LimitLeave ==
  ASSUME TypeOK, LimitInv, UNCHANGED <<entries, today>>, NEW p \in Requests, NEW end,
         end # "posting", Leave(p, end)
  PROVE  LimitInv'
<1>1. /\ drafts'[p] = NoDraft /\ pc'[p] = end
      /\ \A q \in Requests \ {p} :
           pc'[q] = pc[q] /\ drafts'[q] = drafts[q] /\ todo'[q] = todo[q]
  BY DEF Leave, TypeOK
<1>2. \A q \in Requests :
        /\ drafts'[q] = drafts[q] \/ drafts'[q] = NoDraft
        /\ pc'[q] = "posting" =>
             pc[q] = "posting" /\ todo'[q] = todo[q] /\ drafts'[q] = drafts[q]
  BY <1>1
<1>. QED BY <1>2, LimitStill

LEMMA LimitRollback ==
  ASSUME TypeOK, LimitInv, NEW p \in Requests, NEW end, end # "posting", Rollback(p, end)
  PROVE  LimitInv'
BY LimitLeave DEF Rollback, tables, outside

\* A debit is validated against what the ledger counts, under the row lock.
LEMMA LimitValidate ==
  ASSUME TypeOK, FundsInv, HeldInv, WholeInv, LimitInv, NEW p \in Requests, Validate(p)
  PROVE  LimitInv'
<1>. DEFINE c == call[p]
<1>1. CASE ~Accepts(p)
  BY <1>1, LimitRollback DEF Validate
<1>2. CASE Accepts(p)
  <2>1. /\ UNCHANGED <<entries, today, drafts, todo>>
        /\ pc[p] = "locking" /\ pc' = [pc EXCEPT ![p] = "posting"]
    BY <1>2 DEF Validate, tables, outside
  <2>2. \A a \in Accounts : drafts[p][a] = <<>>
    BY <2>1 DEF WholeInv, Whole
  <2>3. Moving(p) /\ Planned(p) /\ Held(p) /\ Limited(p)
    BY <2>1 DEF Moving, FundsInv, HeldInv, LimitInv
  <2>4. ASSUME NEW t \in todo[p], t.type \in DebitTypes
        PROVE  Counted(p, t.account) - t.amount <= Limit[t.account]
    <3>1. /\ c \in WithdrawCalls \/ c \in TransferCalls
          /\ t.account = c.from /\ c.from \in Accounts
          /\ t.amount = -c.amount /\ c.amount \in Nat
      BY <2>3, <2>4, OneDebit
    <3>2. WithdrawnToday(c.from) + c.amount <= Limit[c.from]
      <4>1. entries[c.from] \in Seq(Entry) /\ today \in Nat
        BY <3>1 DEF TypeOK
      <4>2. WithdrawnToday(c.from) \in Int
        BY <4>1, SpentFold, SpentInt DEF WithdrawnToday
      <4>3. CASE c \in WithdrawCalls
        BY <1>2, <4>3 DEF Accepts, Validates, WithdrawCalls
      <4>4. CASE c \in TransferCalls
        <5>1. WithdrawnToday(c.from) + (c.amount + c.fee) <= Limit[c.from]
          BY <1>2, <4>4 DEF Accepts, Validates, TransferCalls
        <5>2. c.fee \in Nat /\ Limit[c.from] \in Nat
          BY <3>1, <4>4, LedgerAssumption DEF TransferCalls
        <5>. QED BY <3>1, <4>2, <5>1, <5>2
      <4>. QED BY <3>1, <4>3, <4>4
    <3>3. Counted(p, c.from) = WithdrawnToday(c.from) /\ WithdrawnToday(c.from) \in Int
      <4>1. entries[c.from] \in Seq(Entry) /\ today \in Nat
        BY <3>1 DEF TypeOK
      <4>2. WithdrawnToday(c.from) = SpentOf(entries[c.from], today)
        BY <4>1, SpentFold DEF WithdrawnToday
      <4>3. SpentOf(drafts[p][c.from], today) = 0
        BY <2>2, <3>1, SpentNone
      <4>4. SpentOf(entries[c.from], today) \in Int
        BY <4>1, SpentInt
      <4>. QED BY <4>2, <4>3, <4>4 DEF Counted
    <3>4. Limit[c.from] \in Nat
      BY <3>1, LedgerAssumption
    <3>5. Counted(p, c.from) + c.amount <= Limit[c.from]
      BY <3>2, <3>3
    <3>6. Counted(p, c.from) - t.amount <= Limit[c.from]
      BY <3>1, <3>3, <3>4, <3>5
    <3>. QED BY <3>1, <3>6
  <2>5. Limited(p)'
    <3>1. \A a \in Accounts : Counted(p, a)' = Counted(p, a)
      BY <2>1 DEF Counted
    <3>2. \A t \in todo[p] : t.account \in Accounts
      BY DEF TypeOK, Posting
    <3>. QED BY <2>1, <2>3, <2>4, <3>1, <3>2 DEF Limited
  <2>6. ASSUME NEW q \in Requests \ {p} PROVE Limited(q)'
    <3>1. Limited(q) /\ pc'[q] = pc[q]
      BY <2>1 DEF LimitInv, TypeOK
    <3>. QED BY <2>1, <3>1 DEF Limited, Counted
  <2>. QED BY <2>1, <2>5, <2>6 DEF LimitInv
<1>. QED BY <1>1, <1>2

\* A draft counts what its posting was to take.
LEMMA LimitPost ==
  ASSUME TypeOK, FundsInv, HeldInv, LimitInv, NEW p \in Requests, NEW t \in todo[p],
         Post(p, t)
  PROVE  LimitInv'
<1>. DEFINE a == t.account
            e == EntryFor(p, t)
<1>1. /\ UNCHANGED <<entries, today, pc, call>> /\ pc[p] = "posting"
      /\ drafts' = [drafts EXCEPT ![p][a] = Append(@, e)]
      /\ todo' = [todo EXCEPT ![p] = @ \ {t}]
  BY DEF Post, tables, outside
<1>2. a \in Accounts /\ drafts[p][a] \in Seq(Entry) /\ e \in Entry /\ today \in Nat
      /\ t.amount \in Int
  BY EntryForType DEF TypeOK, Posting
<1>3. /\ drafts'[p][a] = Append(drafts[p][a], e)
      /\ \A b \in Accounts \ {a} : drafts'[p][b] = drafts[p][b]
      /\ todo'[p] = todo[p] \ {t}
      /\ \A q \in Requests \ {p} : drafts'[q] = drafts[q] /\ todo'[q] = todo[q]
  BY <1>1, <1>2 DEF TypeOK
<1>4. Moving(p) /\ Planned(p) /\ Held(p) /\ Limited(p)
  BY <1>1 DEF Moving, FundsInv, HeldInv, LimitInv
<1>5. e.type = t.type /\ e.amount = t.amount
  BY DEF EntryFor
<1>6. t.type \in DebitTypes =>
        /\ t.amount <= 0 /\ \A u \in todo[p] : u.type \in DebitTypes => u = t
  <2>1. ASSUME t.type \in DebitTypes
        PROVE  /\ t.amount = -call[p].amount /\ call[p].amount \in Nat
               /\ \A u \in todo[p] : u.type \in DebitTypes => u = t
    BY <1>4, <2>1, OneDebit
  <2>. QED BY <2>1
<1>7. /\ Counted(p, a)' = Counted(p, a) + Counts(e, today)
      /\ \A b \in Accounts \ {a} : Counted(p, b)' = Counted(p, b)
  <2>1. SpentOf(drafts'[p][a], today) = SpentOf(drafts[p][a], today) + Counts(e, today)
    BY <1>2, <1>3, SpentAppend
  <2>2. Counts(e, today) \in Int
    BY <1>2 DEF Counts, Entry
  <2>3. SpentOf(entries[a], today) \in Int /\ SpentOf(drafts[p][a], today) \in Int
    BY <1>2, CountedInt
  <2>4. UNCHANGED <<entries, today>>
    BY <1>1
  <2>. HIDE DEF e, a
  <2>. QED BY <1>3, <2>1, <2>2, <2>3, <2>4 DEF Counted
<1>8. Counts(e, today) = 0 \/ (t.type \in DebitTypes /\ Counts(e, today) = -t.amount)
  BY <1>5 DEF Counts, CountsToLimit, DebitTypes
<1>9. \A b \in Accounts : Counted(p, b) \in Int /\ Limit[b] \in Nat
  BY CountedInt
<1>. HIDE DEF e
<1>10. ASSUME t.type \in DebitTypes
       PROVE  Counted(p, a)' <= Limit[a] /\ \A u \in todo'[p] : u.type \notin DebitTypes
  <2>1. Counted(p, a) - t.amount <= Limit[a] /\ Counted(p, a) <= Limit[a]
    BY <1>1, <1>2, <1>4, <1>10 DEF Limited
  <2>2. Counted(p, a)' <= Limit[a]
    <3>. HIDE DEF a
    <3>. QED BY <1>2, <1>7, <1>8, <1>9, <2>1
  <2>. QED BY <1>3, <1>6, <1>10, <2>2
<1>11. ASSUME t.type \notin DebitTypes
       PROVE  \A b \in Accounts : Counted(p, b)' = Counted(p, b)
  <2>1. Counts(e, today) = 0
    BY <1>8, <1>11
  <2>2. Counted(p, a)' = Counted(p, a)
    <3>. HIDE DEF a
    <3>. QED BY <1>2, <1>7, <1>9, <2>1
  <2>. QED BY <1>7, <2>2
<1>12. Limited(p)'
  <2>1. ASSUME NEW b \in Accounts PROVE Counted(p, b)' <= Limit[b]
    <3>1. Counted(p, b) <= Limit[b]
      BY <1>4 DEF Limited
    <3>. QED BY <1>7, <1>10, <1>11, <3>1
  <2>2. ASSUME NEW b \in Accounts, NEW i \in DOMAIN drafts'[p][b]
        PROVE  TakesMoney(drafts'[p][b][i])
    <3>1. CASE b # a
      BY <1>3, <1>4, <3>1 DEF Limited
    <3>2. CASE b = a
      <4>1. \/ i \in DOMAIN drafts[p][a] /\ drafts'[p][a][i] = drafts[p][a][i]
            \/ drafts'[p][a][i] = e
        BY <1>2, <1>3, <3>2
      <4>. QED BY <1>2, <1>4, <1>5, <1>6, <3>2, <4>1 DEF Limited, TakesMoney
    <3>. QED BY <3>1, <3>2
  <2>3. ASSUME NEW u \in todo'[p], u.type \in DebitTypes
        PROVE  Counted(p, u.account)' - u.amount <= Limit[u.account]
    <3>1. u \in todo[p] /\ u.account \in Accounts
      BY <1>3 DEF TypeOK, Posting
    <3>2. t.type \notin DebitTypes
      BY <1>10, <2>3
    <3>3. Counted(p, u.account) - u.amount <= Limit[u.account]
      BY <1>1, <1>4, <2>3, <3>1 DEF Limited
    <3>. QED BY <1>11, <3>1, <3>2, <3>3
  <2>4. Limit' = Limit
    OBVIOUS
  <2>. QED BY <2>1, <2>2, <2>3 DEF Limited
<1>13. ASSUME NEW q \in Requests \ {p} PROVE Limited(q)'
  <2>1. Limited(q)
    BY DEF LimitInv
  <2>. QED BY <1>1, <1>3, <2>1 DEF Limited, Counted
<1>. QED BY <1>1, <1>12, <1>13 DEF LimitInv

\* A commit moves what was drafted into the ledger; nobody else holds those rows.
LEMMA LimitCommit ==
  ASSUME TypeOK, LockInv, HeldInv, LimitInv, NEW p \in Requests, Commit(p)
  PROVE  LimitInv'
<1>1. /\ entries' = [a \in Accounts |-> entries[a] \o drafts[p][a]]
      /\ UNCHANGED today /\ pc'[p] = "publishing" /\ drafts'[p] = NoDraft
      /\ \A q \in Requests \ {p} :
           pc'[q] = pc[q] /\ drafts'[q] = drafts[q] /\ todo'[q] = todo[q]
  BY DEF Commit, Leave, outside, TypeOK
<1>2. Held(p) /\ Limited(p)
  BY DEF HeldInv, LimitInv
<1>3. ASSUME NEW a \in Accounts
      PROVE  /\ SpentOf(entries'[a], today') = Counted(p, a)
             /\ \A i \in DOMAIN entries'[a] : TakesMoney(entries'[a][i])
  <2>1. /\ entries'[a] = entries[a] \o drafts[p][a] /\ today \in Nat
        /\ entries[a] \in Seq(Entry) /\ drafts[p][a] \in Seq(Entry)
    BY <1>1 DEF TypeOK
  <2>2. SpentOf(entries'[a], today) = Counted(p, a)
    BY <2>1, SpentConcat DEF Counted
  <2>3. ASSUME NEW i \in DOMAIN entries'[a] PROVE TakesMoney(entries'[a][i])
    <3>1. \/ i \in DOMAIN entries[a] /\ entries'[a][i] = entries[a][i]
          \/ \E j \in DOMAIN drafts[p][a] : entries'[a][i] = drafts[p][a][j]
      <4>. DEFINE old == entries[a]  new == drafts[p][a]  both == entries'[a]
      <4>1. old \in Seq(Entry) /\ new \in Seq(Entry) /\ both = old \o new /\ i \in DOMAIN both
        BY <2>1
      <4>. HIDE DEF old, new, both
      <4>2. i \in DOMAIN (old \o new)
        BY <4>1
      <4>3. \/ i \in DOMAIN old /\ both[i] = old[i]
            \/ \E j \in DOMAIN new : both[i] = new[j]
        BY <4>1, <4>2, InEither, Zenon
      <4>. QED BY <4>3 DEF old, new, both
    <3>. QED BY <1>2, <3>1 DEF Limited, LimitInv
  <2>. QED BY <1>1, <2>2, <2>3
<1>4. \A a \in Accounts : SpentOf(entries'[a], today') <= Limit[a]
  BY <1>2, <1>3 DEF Limited
<1>5. \A a \in Accounts : SpentOf(entries'[a], today') \in Int /\ Limit[a] \in Nat
  BY <1>3, CountedInt
<1>6. ASSUME NEW q \in Requests, NEW a \in Accounts, drafts'[q][a] = <<>>
      PROVE  Counted(q, a)' <= Limit[a]
  <2>1. SpentOf(drafts'[q][a], today') = 0
    BY <1>6, SpentNone
  <2>. QED BY <1>4, <1>5, <2>1 DEF Counted
<1>7. Limited(p)'
  <2>1. \A a \in Accounts : drafts'[p][a] = <<>>
    BY <1>1 DEF NoDraft
  <2>. QED BY <1>1, <1>6, <2>1 DEF Limited
<1>8. ASSUME NEW q \in Requests \ {p} PROVE Limited(q)'
  <2>1. Limited(q) /\ Held(q) /\ drafts'[q] = drafts[q] /\ pc'[q] = pc[q] /\ todo'[q] = todo[q]
    BY <1>1 DEF LimitInv, HeldInv
  <2>2. ASSUME NEW a \in Accounts, lock[a] = q
        PROVE  Counted(q, a)' = Counted(q, a)
    <3>1. drafts[p][a] = <<>>
      BY <1>2, <2>2 DEF Held
    <3>2. entries'[a] = entries[a]
      <4>1. entries[a] \in Seq(Entry) /\ entries'[a] = entries[a] \o <<>>
        BY <1>1, <3>1 DEF TypeOK
      <4>. QED BY <4>1
    <3>. QED BY <1>1, <2>1, <3>2 DEF Counted
  <2>3. ASSUME NEW a \in Accounts PROVE Counted(q, a)' <= Limit[a]
    <3>1. CASE lock[a] = q
      BY <2>1, <2>2, <3>1 DEF Limited
    <3>2. CASE lock[a] # q
      BY <1>6, <2>1, <3>2 DEF Held
    <3>. QED BY <3>1, <3>2
  <2>4. ASSUME pc'[q] = "posting", NEW t \in todo'[q], t.type \in DebitTypes
        PROVE  Counted(q, t.account)' - t.amount <= Limit[t.account]
    <3>1. t \in todo[q] /\ pc[q] = "posting" /\ t.account \in Accounts
      BY <2>1, <2>4 DEF TypeOK, Posting
    <3>2. toLock[q] = {}
      BY <3>1 DEF LockInv, LocksInTransaction
    <3>3. lock[t.account] = q
      BY <2>1, <3>1, <3>2 DEF Held, Covered, Moving
    <3>4. Counted(q, t.account)' = Counted(q, t.account)
      BY <2>2, <3>1, <3>3
    <3>. QED BY <2>1, <2>4, <3>1, <3>4 DEF Limited
  <2>. QED BY <2>1, <2>3, <2>4 DEF Limited
<1>. QED BY <1>3, <1>4, <1>7, <1>8 DEF LimitInv

\* At midnight the count falls.
LEMMA LimitMidnight ==
  ASSUME TypeOK, LimitInv, Midnight
  PROVE  LimitInv'
<1>1. /\ UNCHANGED <<entries, drafts, pc, todo>>
      /\ today \in Nat /\ today' \in Nat /\ today <= today'
  BY DEF Midnight, tables, TypeOK
<1>2. ASSUME NEW lines \in Seq(Entry), \A i \in DOMAIN lines : TakesMoney(lines[i])
      PROVE  /\ SpentOf(lines, today') <= SpentOf(lines, today)
             /\ SpentOf(lines, today') \in Int /\ SpentOf(lines, today) \in Int
  BY <1>1, <1>2, SpentLater, SpentInt
<1>3. ASSUME NEW a \in Accounts
      PROVE  /\ SpentOf(entries[a], today') <= SpentOf(entries[a], today)
             /\ SpentOf(entries[a], today') \in Int /\ SpentOf(entries[a], today) \in Int
             /\ SpentOf(entries[a], today) <= Limit[a] /\ Limit[a] \in Nat
  <2>1. entries[a] \in Seq(Entry) /\ \A i \in DOMAIN entries[a] : TakesMoney(entries[a][i])
    BY DEF TypeOK, LimitInv
  <2>. QED BY <1>2, <2>1, LedgerAssumption DEF LimitInv
<1>4. ASSUME NEW q \in Requests, NEW a \in Accounts
      PROVE  /\ Counted(q, a)' <= Counted(q, a)
             /\ Counted(q, a)' \in Int /\ Counted(q, a) \in Int /\ Limit[a] \in Nat
  <2>1. drafts[q][a] \in Seq(Entry) /\ \A i \in DOMAIN drafts[q][a] : TakesMoney(drafts[q][a][i])
    BY DEF TypeOK, LimitInv, Limited
  <2>2. /\ SpentOf(drafts[q][a], today') <= SpentOf(drafts[q][a], today)
        /\ SpentOf(drafts[q][a], today') \in Int /\ SpentOf(drafts[q][a], today) \in Int
    BY <1>2, <2>1
  <2>3. entries'[a] = entries[a] /\ drafts'[q][a] = drafts[q][a]
    BY <1>1
  <2>4. /\ Counted(q, a)' = SpentOf(entries[a], today') + SpentOf(drafts[q][a], today')
        /\ Counted(q, a) = SpentOf(entries[a], today) + SpentOf(drafts[q][a], today)
    BY <2>3 DEF Counted
  <2>. QED BY <1>3, <2>2, <2>4
<1>5. ASSUME NEW q \in Requests PROVE Limited(q)'
  <2>1. Limited(q)
    BY DEF LimitInv
  <2>2. ASSUME NEW a \in Accounts PROVE Counted(q, a)' <= Limit[a]
    <3>1. Counted(q, a) <= Limit[a]
      BY <2>1 DEF Limited
    <3>. QED BY <1>4, <3>1
  <2>3. ASSUME pc[q] = "posting", NEW t \in todo[q], t.type \in DebitTypes
        PROVE  Counted(q, t.account)' - t.amount <= Limit[t.account]
    <3>1. t.account \in Accounts /\ t.amount \in Int
      BY DEF TypeOK, Posting
    <3>2. Counted(q, t.account) - t.amount <= Limit[t.account]
      BY <2>1, <2>3 DEF Limited
    <3>3. /\ Counted(q, t.account)' <= Counted(q, t.account)
          /\ Counted(q, t.account)' \in Int /\ Counted(q, t.account) \in Int
          /\ Limit[t.account] \in Nat
      BY <1>4, <3>1
    <3>. QED BY <3>1, <3>2, <3>3
  <2>. QED BY <1>1, <2>1, <2>2, <2>3 DEF Limited
<1>6. \A a \in Accounts : SpentOf(entries'[a], today') <= Limit[a]
  <2>1. ASSUME NEW a \in Accounts PROVE SpentOf(entries'[a], today') <= Limit[a]
    <3>1. entries'[a] = entries[a]
      BY <1>1
    <3>2. SpentOf(entries[a], today') <= Limit[a]
      BY <1>3
    <3>. QED BY <3>1, <3>2
  <2>. QED BY <2>1
<1>. QED BY <1>1, <1>5, <1>6 DEF LimitInv

LEMMA NextLimit ==
  TypeOK /\ LockInv /\ FundsInv /\ HeldInv /\ WholeInv /\ LimitInv /\ [Next]_vars => LimitInv'
<1>. SUFFICES ASSUME TypeOK, LockInv, FundsInv, HeldInv, WholeInv, LimitInv, [Next]_vars
              PROVE  LimitInv'
  OBVIOUS
\* A step of a request that starts, waits or has committed.
<1>1. ASSUME UNCHANGED <<entries, today, drafts>>,
             \A q \in Requests :
               pc'[q] = "posting" => pc[q] = "posting" /\ todo'[q] = todo[q]
      PROVE  LimitInv'
  BY <1>1, LimitStill
<1>2. ASSUME NEW p \in Requests, Begin(p) PROVE LimitInv'
  <2>1. /\ UNCHANGED <<entries, today, drafts>>
        /\ \A q \in Requests :
             pc'[q] = "posting" => pc[q] = "posting" /\ todo'[q] = todo[q]
    BY <1>2 DEF Begin, BeginLedger, FindForStatus, Turned, tables, outside, TypeOK
  <2>. QED BY <1>1, <2>1
<1>3. ASSUME NEW p \in Requests, Advance(p) PROVE LimitInv'
  <2>1. ASSUME NEW a \in Accounts, LockAccount(p, a) PROVE LimitInv'
    BY <1>1, <2>1 DEF LockAccount, tables, outside
  <2>2. ASSUME NEW a \in Accounts, AccountNotFound(p, a) PROVE LimitInv'
    BY <2>2, LimitRollback DEF AccountNotFound
  <2>3. ASSUME NEW t \in todo[p], RefuseReversal(p, t) PROVE LimitInv'
    BY <2>3, LimitRollback DEF RefuseReversal
  <2>4. ASSUME NEW e \in events[p], Publish(p, e) PROVE LimitInv'
    <3>1. /\ UNCHANGED <<entries, today, drafts, todo>>
          /\ \A q \in Requests : pc'[q] = pc[q] \/ pc'[q] = "done"
      BY <2>4 DEF Publish, tables, TypeOK
    <3>. QED BY <1>1, <3>1
  <2>5. CASE ReloadForSave(p)
    <3>1. /\ UNCHANGED <<entries, today, drafts, todo>>
          /\ \A q \in Requests : pc'[q] = pc[q] \/ pc'[q] = "updating"
      BY <2>5 DEF ReloadForSave, tables, outside, TypeOK
    <3>. QED BY <1>1, <3>1
  <2>6. CASE UpdateRow(p)
    BY <2>6, LimitLeave DEF UpdateRow, outside
  <2>. QED BY <1>3, <2>1, <2>2, <2>3, <2>4, <2>5, <2>6,
              LimitValidate, LimitPost, LimitCommit DEF Advance
<1>4. ASSUME NEW p \in Requests, Crash(p) PROVE LimitInv'
  BY <1>4, LimitRollback DEF Crash
<1>5. CASE Finished \/ UNCHANGED vars
  <2>1. UNCHANGED <<entries, today, drafts, pc, todo>>
    BY <1>5 DEF Finished, vars
  <2>. QED BY <1>1, <2>1
<1>. QED BY <1>2, <1>3, <1>4, <1>5, LimitMidnight DEF Next

\* An opening balance is a deposit, which does not count.
LEMMA InitLimit == Init => LimitInv
<1>. SUFFICES ASSUME Init PROVE LimitInv
  OBVIOUS
<1>1. TypeOK /\ today = 0
  BY InitType DEF Init
<1>2. ASSUME NEW a \in Accounts
      PROVE  /\ \A i \in DOMAIN entries[a] : TakesMoney(entries[a][i])
             /\ SpentOf(entries[a], today) = 0
  <2>1. entries[a] \in Seq(Entry)
    BY <1>1 DEF TypeOK
  <2>2. \A i \in DOMAIN entries[a] : entries[a][i].type = "DEPOSIT"
    <3>. DEFINE e == [ref |-> OpeningRef, of |-> OpeningRef, amount |-> OpeningBalance[a],
                      type |-> "DEPOSIT", after |-> OpeningBalance[a], day |-> 0]
    <3>1. entries[a] = <<>> \/ entries[a] = <<e>>
      BY DEF Init
    <3>2. e.type = "DEPOSIT"
      OBVIOUS
    <3>. HIDE DEF e
    <3>. QED BY <3>1, <3>2
  <2>3. \A i \in DOMAIN entries[a] : Counts(entries[a][i], today) = 0
    BY <2>2 DEF Counts, CountsToLimit
  <2>4. SpentOf(entries[a], today) = 0
    <3>1. entries[a] = <<>> \/ \E e \in Entry : entries[a] = Append(<<>>, e)
      BY <2>1 DEF Init
    <3>2. ASSUME NEW e \in Entry, entries[a] = Append(<<>>, e)
          PROVE  SpentOf(entries[a], today) = 0
      <4>1. entries[a][1] = e /\ 1 \in DOMAIN entries[a]
        BY <3>2
      <4>2. Counts(e, today) = 0
        BY <2>3, <4>1
      <4>3. <<>> \in Seq(Entry) /\ SpentOf(<<>>, today) = 0
        BY SpentNone
      <4>4. today \in Nat
        BY <1>1
      <4>5. SpentOf(Append(<<>>, e), today) = SpentOf(<<>>, today) + Counts(e, today)
        BY <4>3, <4>4, SpentAppend
      <4>. QED BY <3>2, <4>2, <4>3, <4>5
    <3>. QED BY <3>1, <3>2, SpentNone
  <2>. QED BY <2>2, <2>4 DEF TakesMoney, DebitTypes
<1>3. ASSUME NEW p \in Requests PROVE Limited(p)
  <2>1. pc[p] = "idle" /\ \A a \in Accounts : drafts[p][a] = <<>>
    BY DEF Init, NoDraft
  <2>2. \A a \in Accounts : SpentOf(drafts[p][a], today) = 0
    BY <2>1, SpentNone
  <2>3. ASSUME NEW a \in Accounts
        PROVE  /\ \A i \in DOMAIN drafts[p][a] : TakesMoney(drafts[p][a][i])
               /\ Counted(p, a) <= Limit[a]
    <3>1. drafts[p][a] = <<>> /\ SpentOf(drafts[p][a], today) = 0
      BY <2>1, <2>2
    <3>2. DOMAIN drafts[p][a] = {}
      BY <3>1
    <3>3. Counted(p, a) = 0 + 0
      BY <1>2, <3>1 DEF Counted
    <3>4. Limit[a] \in Nat
      BY LedgerAssumption
    <3>. QED BY <3>2, <3>3, <3>4
  <2>4. pc[p] # "posting"
    BY <2>1
  <2>. QED BY <2>3, <2>4 DEF Limited
<1>4. ASSUME NEW a \in Accounts
      PROVE  /\ \A i \in DOMAIN entries[a] : TakesMoney(entries[a][i])
             /\ SpentOf(entries[a], today) <= Limit[a]
  <2>1. Limit[a] \in Nat
    BY LedgerAssumption
  <2>. QED BY <1>2, <2>1
<1>. QED BY <1>3, <1>4 DEF LimitInv

\* The daily limit holds however many withdrawals and transfers of an account
\* run at once, across midnights, rollbacks and crashes: what the check counts
\* since midnight never exceeds the limit of the account.
THEOREM DailyLimit == Spec => []LimitHeld
<1>1. TypeOK /\ LimitInv => LimitHeld
  <2>. SUFFICES ASSUME TypeOK, LimitInv, NEW a \in Accounts
                PROVE  FoldLeft(LAMBDA sum, e :
                         IF e.type \in {"WITHDRAWAL", "TRANSFER_OUT"} /\ e.day >= today
                         THEN sum - e.amount ELSE sum, 0, entries[a]) <= Limit[a]
    BY DEF LimitHeld
  <2>1. entries[a] \in Seq(Entry) /\ today \in Nat
    BY DEF TypeOK
  <2>2. SpentOf(entries[a], today) <= Limit[a]
    BY DEF LimitInv
  <2>. QED BY <2>1, <2>2, SpentFold DEF CountsToLimit
<1>2. Init => LockInv
  BY LedgerAssumption DEF Init, LockInv, LocksInTransaction, LocksOrdered
<1>3. Init => FundsInv
  BY LedgerAssumption DEF Init, FundsInv, NeverOverdrawn, Blank, Planned, Funded, Moving
<1>. QED BY <1>1, <1>2, <1>3, InitHeld, InitWhole, InitLimit,
            TypeCorrect, NextLocks, NextFunds, NextHeld, NextWhole, NextLimit, PTL DEF Spec

-----------------------------------------------------------------------------
(* Balances as sums *)

\* What the entries of a history moved.
AmountIn == [e \in Entry |-> e.amount]

Moved(lines) == Tally(AmountIn, lines)

LEMMA AmountInWeigh == Weight(AmountIn) /\ \A e \in Entry : AmountIn[e] = e.amount
BY DEF Weight, AmountIn, Entry

\* The first n entries of a history.
First(lines, n) == SubSeq(lines, 1, n)

LEMMA FirstGrows ==
  ASSUME NEW lines \in Seq(Entry), NEW n \in 1 .. Len(lines)
  PROVE  /\ First(lines, n - 1) \in Seq(Entry) /\ Len(First(lines, n - 1)) = n - 1
         /\ First(lines, n) = Append(First(lines, n - 1), lines[n])
         /\ \A i \in 1 .. n - 1 : First(lines, n - 1)[i] = lines[i]
<1>1. n - 1 \in Nat /\ n \in Nat /\ n \in 1 .. n /\ \A i \in 1 .. n : lines[i] \in Entry
  OBVIOUS
<1>2. /\ First(lines, n - 1) \in Seq(Entry) /\ Len(First(lines, n - 1)) = n - 1
      /\ \A i \in 1 .. n - 1 : First(lines, n - 1)[i] = lines[i]
  BY <1>1 DEF First
<1>3. /\ First(lines, n) \in Seq(Entry) /\ Len(First(lines, n)) = n
      /\ \A i \in 1 .. n : First(lines, n)[i] = lines[i]
  BY <1>1 DEF First
<1>. DEFINE longer == Append(First(lines, n - 1), lines[n])
<1>4. /\ longer \in Seq(Entry) /\ Len(longer) = n
      /\ \A i \in 1 .. n : longer[i] = lines[i]
  <2>1. lines[n] \in Entry /\ n = (n - 1) + 1
    BY <1>1
  <2>. HIDE DEF First
  <2>2. longer \in Seq(Entry) /\ Len(longer) = n /\ longer[n] = lines[n]
    BY <1>1, <1>2, <2>1
  <2>3. \A i \in 1 .. n - 1 : longer[i] = First(lines, n - 1)[i]
    BY <1>1, <1>2, <2>1
  <2>4. \A i \in 1 .. n : i \in 1 .. n - 1 \/ i = n
    BY <1>1
  <2>. QED BY <1>2, <2>2, <2>3, <2>4
<1>5. First(lines, n) = longer
  <2>. HIDE DEF longer
  <2>. QED BY <1>3, <1>4
<1>. QED BY <1>2, <1>5

\* An unbroken chain of running balances that starts at zero ends at the sum of
\* what its entries moved.
LEMMA ChainTelescopes ==
  ASSUME NEW lines \in Seq(Entry), Chain(0, lines)
  PROVE  Closing(0, lines) = Moved(lines)
<1>. DEFINE AddsUp(n) == Closing(0, First(lines, n)) = Moved(First(lines, n))
            bad == {n \in 0 .. Len(lines) : ~AddsUp(n)}
<1>1. AddsUp(0)
  <2>1. First(lines, 0) = <<>>
    BY DEF First
  <2>. QED BY <2>1, TallyNone DEF Closing, Moved
<1>2. ASSUME NEW n \in 1 .. Len(lines), AddsUp(n - 1) PROVE AddsUp(n)
  <2>. DEFINE before == First(lines, n - 1)
  <2>1. /\ before \in Seq(Entry) /\ Len(before) = n - 1
        /\ First(lines, n) = Append(before, lines[n])
        /\ \A i \in 1 .. n - 1 : before[i] = lines[i]
    BY FirstGrows
  <2>2. lines[n] \in Entry /\ n \in DOMAIN lines
    OBVIOUS
  <2>3. lines[n].amount \in Int
    BY <2>2 DEF Entry
  <2>4. lines[n].after = lines[n].amount + (IF n = 1 THEN 0 ELSE lines[n - 1].after)
    BY <2>2 DEF Chain
  <2>. HIDE DEF before
  <2>5. Closing(0, before) = IF n = 1 THEN 0 ELSE lines[n - 1].after
    <3>1. CASE n = 1
      BY <2>1, <3>1 DEF Closing
    <3>2. CASE n # 1
      <4>1. n - 1 \in 1 .. n - 1 /\ before # <<>>
        BY <2>1, <3>2
      <4>. QED BY <2>1, <3>2, <4>1 DEF Closing
    <3>. QED BY <3>1, <3>2
  <2>6. Closing(0, First(lines, n)) = lines[n].after
    BY <2>1, <2>2 DEF Closing
  <2>7. Moved(First(lines, n)) = Moved(before) + lines[n].amount
    BY <2>1, <2>2, AmountInWeigh, TallyAppend DEF Moved
  <2>8. Moved(before) = Closing(0, before) /\ Moved(before) \in Int
    BY <1>2, <2>1, AmountInWeigh, TallyInt DEF before, Moved
  <2>. QED BY <2>3, <2>4, <2>5, <2>6, <2>7, <2>8
<1>. HIDE DEF AddsUp
<1>3. bad = {}
  <2>. SUFFICES ASSUME bad # {} PROVE FALSE
    OBVIOUS
  <2>1. PICK n \in bad : \A m \in bad : n <= m
    <3>1. bad \in SUBSET Nat
      OBVIOUS
    <3>. HIDE DEF bad
    <3>. QED BY <3>1, LeastNat
  <2>2. n \in 1 .. Len(lines)
    BY <1>1
  <2>3. n - 1 \notin bad
    <3>. HIDE DEF bad
    <3>. QED BY <2>1, <2>2
  <2>. QED BY <1>2, <2>2, <2>3
<1>4. Len(lines) \in Nat /\ First(lines, Len(lines)) = lines
  BY DEF First
<1>5. AddsUp(Len(lines))
  BY <1>3, <1>4
<1>. QED BY <1>4, <1>5 DEF AddsUp

\* The balance in the row of an account is the sum of the signed amounts of
\* all its committed entries: reconciling the account against its history
\* finds no difference, however requests interleave and crash.
THEOREM BalancesAreSums ==
  ASSUME NoStatusCalls
  PROVE  Spec => [](\A a \in Accounts : row[a].balance = Moved(entries[a]))
<1>1. TypeOK /\ BalanceExplained => \A a \in Accounts : row[a].balance = Moved(entries[a])
  BY ChainTelescopes DEF TypeOK, BalanceExplained
<1>. QED BY <1>1, BalancesExplained, TypeCorrect, PTL

-----------------------------------------------------------------------------
(* The ledger implements the Bank *)

\* One request at most may reverse.
SingleReverser ==
  \A p, q \in Requests : "reverse" \in Roles[p] /\ "reverse" \in Roles[q] => p = q

\* What the entries of a reference moved.
AmountOf(ref) == [e \in Entry |-> IF e.ref = ref THEN e.amount ELSE 0]

LEMMA AmountsWeigh ==
  ASSUME NEW ref
  PROVE  /\ Weight(AmountOf(ref))
         /\ \A e \in Entry : AmountOf(ref)[e] = IF e.ref = ref THEN e.amount ELSE 0
BY DEF Weight, AmountOf, Entry

\* The effect of a reference on an account adds up what its entries moved.
LEMMA EffectFold ==
  ASSUME NEW lines \in Seq(Entry), NEW ref
  PROVE  Effect(ref, lines) = Tally(AmountOf(ref), lines)
<1>. DEFINE S == DOMAIN lines
            w == AmountOf(ref)
            more(sum, i) == IF lines[i].ref = ref THEN sum + lines[i].amount ELSE sum
            P(f) == f = [s \in SUBSET S |-> IF s = {} THEN 0 ELSE more(f[s \ {Latest(s)}], Latest(s))]
            iter == CHOOSE f : P(f)
            F == [s \in SUBSET S |-> Total(Weighed(w, lines), s)]
<1>1. Effect(ref, lines) = iter[S]
  BY DEF Effect, FoldLeft, MapThenFoldSet, Max, Latest
<1>2. Weight(w) /\ \A i \in S : lines[i] \in Entry
  BY AmountsWeigh
<1>3. ASSUME NEW i \in S, NEW sum \in Int PROVE more(sum, i) = w[lines[i]] + sum
  <2>1. /\ w[lines[i]] = IF lines[i].ref = ref THEN lines[i].amount ELSE 0
        /\ lines[i] \in Entry
    BY <1>2, AmountsWeigh
  <2>. HIDE DEF w, S
  <2>. QED BY <2>1 DEF Entry
<1>. HIDE DEF more, w
<1>4. ASSUME NEW s \in SUBSET S
      PROVE  F[s] = IF s = {} THEN 0 ELSE more(F[s \ {Latest(s)}], Latest(s))
  <2>1. CASE s = {}
    BY <2>1, TotalNone
  <2>2. CASE s # {}
    <3>1. s \ {Latest(s)} \in SUBSET S
      OBVIOUS
    <3>2. /\ Latest(s) \in s /\ IsFiniteSet(s)
          /\ Total(Weighed(w, lines), s)
               = w[lines[Latest(s)]] + Total(Weighed(w, lines), s \ {Latest(s)})
          /\ Total(Weighed(w, lines), s \ {Latest(s)}) \in Int
      <4>1. Weight(w) /\ s \in SUBSET DOMAIN lines
        BY <1>2
      <4>. HIDE DEF F, P, iter, S
      <4>. QED BY <2>2, <4>1, LatestIn
    <3>3. /\ Latest(s) \in S /\ F[s \ {Latest(s)}] \in Int
          /\ F[s] = w[lines[Latest(s)]] + F[s \ {Latest(s)}]
      BY <3>1, <3>2
    <3>. HIDE DEF F, S
    <3>. QED BY <1>3, <2>2, <3>3
  <2>. QED BY <2>1, <2>2
<1>5. P(F)
  BY <1>4
<1>. HIDE DEF F
<1>6. P(iter)
  <2>. HIDE DEF P
  <2>. QED BY <1>5
<1>7. \A s \in SUBSET S :
        iter[s] = IF s = {} THEN 0 ELSE more(iter[s \ {Latest(s)}], Latest(s))
  <2>. HIDE DEF iter
  <2>. QED BY <1>6
<1>. HIDE DEF iter, P
<1>8. iter[S] = Tally(w, lines)
  <2>1. iter[{}] = 0
    BY <1>7
  <2>2. ASSUME NEW s \in SUBSET S, s # {}, iter[s \ {Latest(s)}] \in Int
        PROVE  iter[s] = w[lines[Latest(s)]] + iter[s \ {Latest(s)}]
    <3>1. Latest(s) \in S
      BY <1>2, <2>2, LatestIn
    <3>. QED BY <1>3, <1>7, <2>2, <3>1
  <2>. QED BY <1>2, <2>1, <2>2, TallyFollows
<1>. QED BY <1>1, <1>8 DEF w

\* What the Bank sees of the histories, as tallies.
Shown ==
  /\ spentBar = [a \in Accounts |-> SpentOf(entries[a], today)]
  /\ effectBar = [p \in Requests |-> [a \in Accounts |-> Tally(AmountOf(p), entries[a])]]

LEMMA HistoriesShown == TypeOK => Shown
<1>. SUFFICES ASSUME TypeOK PROVE Shown
  OBVIOUS
<1>1. ASSUME NEW a \in Accounts
      PROVE  /\ WithdrawnToday(a) = SpentOf(entries[a], today)
             /\ \A p \in Requests : Effect(p, entries[a]) = Tally(AmountOf(p), entries[a])
  <2>1. entries[a] \in Seq(Entry) /\ today \in Nat
    BY DEF TypeOK
  <2>. QED BY <2>1, SpentFold, EffectFold DEF WithdrawnToday
<1>. QED BY <1>1 DEF Shown, spentBar, effectBar

\* What a posting is to move on an account, and what it is to count there.
MovesOn(a) == [t \in Posting |-> IF t.account = a THEN t.amount ELSE 0]

SpendsOn(a) ==
  [t \in Posting |-> IF t.account = a /\ t.type \in DebitTypes THEN -t.amount ELSE 0]

LEMMA PostingsWeigh ==
  ASSUME NEW a, NEW t \in Posting
  PROVE  /\ MovesOn(a)[t] = IF t.account = a THEN t.amount ELSE 0
         /\ SpendsOn(a)[t] = IF t.account = a /\ t.type \in DebitTypes THEN -t.amount ELSE 0
         /\ MovesOn(a)[t] \in Int /\ SpendsOn(a)[t] \in Int
BY DEF MovesOn, SpendsOn, Posting

\* What a call does to every balance and to what counts to every limit.
Delta(c)  == [a \in Accounts |-> Total(MovesOn(a), Postings(c))]
Spends(c) == [a \in Accounts |-> Total(SpendsOn(a), Postings(c))]

\* What the commit of p adds to what has been spent today.
Counting(p) == [a \in Accounts |-> IF Overnight(p) THEN 0 ELSE Spends(call[p])[a]]


\* What p has drafted, counted since the day it began, and what it has left to
\* post come to what it is to do.
Accounted(p) ==
  \A a \in Accounts :
    /\ Tally(AmountOf(p), drafts[p][a]) + Total(MovesOn(a), todo[p]) = Delta(call[p])[a]
    /\ SpentOf(drafts[p][a], began[p]) + Total(SpendsOn(a), todo[p]) = Spends(call[p])[a]

\* The rows p has locked exist, and its entities of them are ahead of them by
\* what it has drafted.
Ahead(p) ==
  \A a \in Accounts : lock[a] = p =>
    /\ a \in Opened
    /\ copy[p][a].balance = row[a].balance + Tally(AmountOf(p), drafts[p][a])

\* The drafts of p say when it began, whether it reverses, and what.
Marked(p) ==
  \A a \in Accounts : \A i \in DOMAIN drafts[p][a] :
    /\ drafts[p][a][i].type = "REVERSAL" <=> call[p].op = "reverse"
    /\ call[p].op = "reverse" => drafts[p][a][i].of = call[p].of
    /\ drafts[p][a][i].day = began[p]

\* What the chain has checked is still so.
MayPay(p, a, due) ==
  /\ a \in Opened /\ lock[a] = p /\ CanWithdraw(OpeningStatus[a])
  /\ SpentOf(entries[a], today) + due <= Limit[a]

MayGet(a) == a \in Opened /\ CanDeposit(OpeningStatus[a])

Checked(p) ==
  LET c == call[p]
  IN  pc[p] = "posting" =>
        /\ c.op \in {"deposit", "withdraw", "transfer"} => c.amount # 0
        /\ c.op = "deposit" => MayGet(c.to)
        /\ c.op = "withdraw" => MayPay(p, c.from, c.amount)
        /\ c.op = "transfer" => /\ Currency[c.from] = Currency[c.to]
                                /\ MayPay(p, c.from, c.amount + c.fee) /\ MayGet(c.to)

Ready(p) ==
  /\ pc[p] \notin {"saving", "updating"}
  /\ pc[p] # "idle" => call[p] \in Calls /\ call[p].op \in Roles[p]
  /\ began[p] <= today
  /\ Moving(p) => Accounted(p)
  /\ Ahead(p) /\ Marked(p) /\ Checked(p)

\* With no status calls, statuses are those of the opening; no entry is of a day
\* to come, and only a reversal has written a reversal.
AtomicInv ==
  /\ \A a \in Accounts : row[a].status = OpeningStatus[a]
  /\ \A a \in Accounts : \A i \in DOMAIN entries[a] :
       entries[a][i].type = "REVERSAL" =>
         entries[a][i].ref \in Requests /\ call[entries[a][i].ref].op = "reverse"
  /\ \A a \in Accounts : \A i \in DOMAIN entries[a] : entries[a][i].day <= today
  /\ \A p \in Requests : Ready(p)

LEMMA InitAtomic == Init => AtomicInv
<1>. SUFFICES ASSUME Init PROVE AtomicInv
  OBVIOUS
<1>1. ASSUME NEW a \in Accounts, NEW i \in DOMAIN entries[a]
      PROVE  entries[a][i].type = "DEPOSIT" /\ entries[a][i].day = 0
  <2>. DEFINE e == [ref |-> OpeningRef, of |-> OpeningRef, amount |-> OpeningBalance[a],
                    type |-> "DEPOSIT", after |-> OpeningBalance[a], day |-> 0]
  <2>1. entries[a] = <<>> \/ entries[a] = <<e>>
    BY DEF Init
  <2>2. e.type = "DEPOSIT" /\ e.day = 0
    OBVIOUS
  <2>. HIDE DEF e
  <2>. QED BY <2>1, <2>2
<1>2. ASSUME NEW p \in Requests PROVE Ready(p)
  <2>1. /\ pc[p] = "idle" /\ began[p] = 0 /\ today = 0
        /\ \A a \in Accounts : lock[a] # p /\ drafts[p][a] = <<>>
    BY LedgerAssumption DEF Init, NoDraft
  <2>. QED BY <2>1 DEF Ready, Moving, Ahead, Marked, Checked
<1>. QED BY <1>1, <1>2 DEF Init, AtomicInv

\* Rows and entries change in commits and status updates alone.
LEMMA TablesStep ==
  ASSUME [Next]_vars, \A q \in Requests : pc[q] # "updating"
  PROVE  \/ UNCHANGED tables
         \/ \E q \in Requests : Commit(q)
<1>1. ASSUME NEW q \in Requests, Begin(q) PROVE UNCHANGED tables
  BY <1>1 DEF Begin, BeginLedger, FindForStatus, Turned, tables
<1>2. ASSUME NEW q \in Requests, Advance(q) PROVE UNCHANGED tables \/ Commit(q)
  BY <1>2 DEF Advance, LockAccount, AccountNotFound, Validate, Post, RefuseReversal,
              Publish, ReloadForSave, UpdateRow, Rollback, tables
<1>3. ASSUME NEW q \in Requests, Crash(q) PROVE UNCHANGED tables
  BY <1>3 DEF Crash, Rollback, tables
<1>4. CASE Midnight \/ Finished \/ UNCHANGED vars
  BY <1>4 DEF Midnight, Finished, vars, tables
<1>. QED BY <1>1, <1>2, <1>3, <1>4 DEF Next

\* The row and the history of a row p has locked wait for p.
LEMMA LockedWaits ==
  ASSUME TypeOK, HeldInv, AtomicInv, [Next]_vars, NEW p \in Requests, ~Commit(p),
         NEW a \in Accounts, lock[a] = p
  PROVE  row'[a] = row[a] /\ entries'[a] = entries[a]
<1>1. \A q \in Requests : pc[q] # "updating"
  BY DEF AtomicInv, Ready
<1>2. CASE UNCHANGED tables
  BY <1>2 DEF tables
<1>3. ASSUME NEW q \in Requests, Commit(q)
      PROVE  row'[a] = row[a] /\ entries'[a] = entries[a]
  <2>1. q # p /\ drafts[q][a] = <<>> /\ entries[a] \in Seq(Entry)
    BY <1>3 DEF HeldInv, Held, TypeOK
  <2>2. row'[a] = row[a] /\ entries'[a] = entries[a] \o drafts[q][a]
    BY <1>3, <2>1 DEF Commit
  <2>3. entries[a] \o <<>> = entries[a]
    BY <2>1
  <2>. QED BY <2>1, <2>2, <2>3
<1>. QED BY <1>1, <1>2, <1>3, TablesStep

\* What a running call is to do does not change.
LEMMA DeltaKept ==
  ASSUME TypeOK, WholeInv, [Next]_vars, NEW p \in Requests, call'[p] = call[p], Moving(p)
  PROVE  Delta(call[p])' = Delta(call[p]) /\ Spends(call[p])' = Spends(call[p])
<1>1. Postings(call[p])' = Postings(call[p])
  BY PostingsKept
<1>. QED BY <1>1 DEF Delta, Spends

\* A request that does nothing stays ready.
LEMMA ReadyFrame ==
  ASSUME TypeOK, HeldInv, WholeInv, AtomicInv, [Next]_vars, NEW p \in Requests, ~Commit(p),
         pc'[p] = pc[p], call'[p] = call[p], began'[p] = began[p], todo'[p] = todo[p],
         drafts'[p] = drafts[p], copy'[p] = copy[p], UNCHANGED today,
         \A a \in Accounts : lock[a] = p <=> lock'[a] = p
  PROVE  Ready(p)'
<1>1. Ready(p)
  BY DEF AtomicInv
<1>2. \A a \in Accounts : lock[a] = p => row'[a] = row[a] /\ entries'[a] = entries[a]
  BY LockedWaits
<1>3. Moving(p)' => Accounted(p)'
  <2>1. SUFFICES ASSUME Moving(p) PROVE Accounted(p)'
    BY DEF Moving
  <2>2. Delta(call[p])' = Delta(call[p]) /\ Spends(call[p])' = Spends(call[p])
    BY <2>1, DeltaKept
  <2>3. Accounted(p)
    BY <1>1, <2>1 DEF Ready
  <2>. QED BY <2>2, <2>3 DEF Accounted
<1>4. Ahead(p)'
  BY <1>1, <1>2 DEF Ready, Ahead
<1>5. Marked(p)'
  BY <1>1 DEF Ready, Marked
<1>6. Checked(p)'
  <2>1. SUFFICES ASSUME pc[p] = "posting" PROVE Checked(p)'
    BY DEF Checked
  <2>2. Checked(p) /\ call[p] \in Calls
    BY <1>1, <2>1 DEF Ready
  <2>3. ASSUME NEW a \in Accounts, NEW due, MayPay(p, a, due) PROVE MayPay(p, a, due)'
    BY <1>2, <2>3 DEF MayPay
  <2>4. /\ call[p].op = "withdraw" => call[p].from \in Accounts
        /\ call[p].op = "transfer" => call[p].from \in Accounts
    BY <2>2, CallShape DEF WithdrawCalls, TransferCalls
  <2>5. \A a : MayGet(a)' = MayGet(a)
    BY DEF MayGet
  <2>. HIDE DEF MayGet, MayPay
  <2>. QED BY <2>1, <2>2, <2>3, <2>4, <2>5 DEF Checked
<1>. QED BY <1>1, <1>3, <1>4, <1>5, <1>6 DEF Ready

\* So does one that has not begun to move money, or has ended.
LEMMA ReadyIdle ==
  ASSUME NEW p \in Requests, Ready(p), began'[p] = began[p], UNCHANGED today,
         pc'[p] \in {"refused", "crashed", "publishing", "done", "lost"},
         call'[p] \in Calls, call'[p].op \in Roles[p],
         \A a \in Accounts : lock'[a] # p /\ drafts'[p][a] = <<>>
  PROVE  Ready(p)'
<1>1. Ahead(p)' /\ Marked(p)' /\ Checked(p)' /\ ~Moving(p)'
  BY DEF Ahead, Marked, Checked, Moving
<1>. QED BY <1>1 DEF Ready

\* The steps of one request leave the others ready.
LEMMA AtomicOthers ==
  ASSUME TypeOK, HeldInv, WholeInv, AtomicInv, [Next]_vars, NEW p \in Requests, Ready(p)',
         UNCHANGED <<tables, today>>, pc[p] # "idle" => call'[p] = call[p],
         \A q \in Requests \ {p} :
           /\ pc'[q] = pc[q] /\ call'[q] = call[q] /\ began'[q] = began[q]
           /\ todo'[q] = todo[q] /\ drafts'[q] = drafts[q] /\ copy'[q] = copy[q]
           /\ \A a \in Accounts : lock[a] = q <=> lock'[a] = q
  PROVE  AtomicInv'
<1>1. ASSUME NEW q \in Requests \ {p} PROVE Ready(q)'
  <2>1. ~Commit(q)
    BY DEF Commit, IsComplete, Leave, TypeOK
  <2>. QED BY <2>1, ReadyFrame
<1>2. ASSUME NEW a \in Accounts, NEW i \in DOMAIN entries[a], entries[a][i].type = "REVERSAL"
      PROVE  entries[a][i].ref \in Requests /\ call'[entries[a][i].ref].op = "reverse"
  <2>. DEFINE r == entries[a][i].ref
  <2>1. r \in Requests /\ call[r].op = "reverse"
    BY <1>2 DEF AtomicInv
  <2>2. <<a, i>> \in Positions(r)
    BY <1>2, PositionsAre
  <2>3. pc[r] # "idle"
    BY <2>1, <2>2 DEF WholeInv, Whole, Settled
  <2>4. call'[r] = call[r]
    BY <2>1, <2>3
  <2>. QED BY <2>1, <2>4
<1>. QED BY <1>1, <1>2 DEF AtomicInv, tables

LEMMA AtomicRollback ==
  ASSUME TypeOK, HeldInv, WholeInv, AtomicInv, [Next]_vars, NEW p \in Requests, NEW end,
         Rollback(p, end), pc[p] # "idle", end \in {"refused", "crashed", "lost"}
  PROVE  AtomicInv'
<1>1. /\ pc'[p] = end /\ drafts'[p] = NoDraft
      /\ UNCHANGED <<tables, call, began, today>>
      /\ \A a \in Accounts : lock'[a] = IF lock[a] = p THEN Nobody ELSE lock[a]
      /\ \A q \in Requests \ {p} :
           /\ pc'[q] = pc[q] /\ todo'[q] = todo[q] /\ drafts'[q] = drafts[q]
           /\ copy'[q] = copy[q]
  BY DEF Rollback, Leave, outside, TypeOK
<1>2. \A a \in Accounts : lock'[a] # p /\ drafts'[p][a] = <<>>
  BY <1>1, LedgerAssumption DEF NoDraft
<1>3. Ready(p)'
  BY <1>1, <1>2, ReadyIdle DEF AtomicInv, Ready
<1>4. ASSUME NEW q \in Requests \ {p}
      PROVE  \A a \in Accounts : lock[a] = q <=> lock'[a] = q
  BY <1>1, LedgerAssumption
<1>. QED BY <1>1, <1>3, <1>4, AtomicOthers

LEMMA AtomicBegin ==
  ASSUME NoStatusCalls, TypeOK, LockInv, HeldInv, WholeInv, AtomicInv, [Next]_vars,
         NEW p \in Requests, NEW c \in Calls, BeginLedger(p, c) \/ FindForStatus(p, c)
  PROVE  AtomicInv'
<1>1. BeginLedger(p, c)
  BY DEF FindForStatus, NoStatusCalls
<1>2. /\ pc[p] = "idle" /\ UNCHANGED <<tables, lock, copy, drafts, today>>
      /\ call'[p] = c /\ c.op \in Roles[p]
      /\ \A q \in Requests \ {p} :
           /\ pc'[q] = pc[q] /\ call'[q] = call[q] /\ began'[q] = began[q]
           /\ todo'[q] = todo[q]
  BY <1>1 DEF BeginLedger, Turned, outside, TypeOK
<1>3. Ready(p) /\ today \in Nat
  BY DEF AtomicInv, TypeOK
<1>4. \A a \in Accounts : lock'[a] # p /\ drafts'[p][a] = <<>>
  BY <1>2 DEF LockInv, LocksInTransaction, WholeInv, Whole
<1>5. CASE Refuses(c)
  <2>1. pc'[p] = "refused" /\ began'[p] = began[p]
    BY <1>1, <1>5 DEF BeginLedger, Turned, TypeOK
  <2>2. Ready(p)'
    BY <1>2, <1>3, <1>4, <2>1, ReadyIdle
  <2>. QED BY <1>2, <2>2, AtomicOthers
<1>6. CASE ~Refuses(c)
  <2>1. pc'[p] = "locking" /\ began'[p] = today /\ todo'[p] = Postings(c)
    BY <1>1, <1>6 DEF BeginLedger, TypeOK
  <2>2. Postings(c)' = Postings(c)
    BY <1>2 DEF Postings, Positions, tables
  <2>3. Accounted(p)'
    <3>1. ASSUME NEW a \in Accounts
          PROVE  /\ Tally(AmountOf(p), drafts'[p][a]) = 0 /\ SpentOf(drafts'[p][a], began'[p]) = 0
                 /\ Total(MovesOn(a), Postings(c)) \in Int /\ Total(SpendsOn(a), Postings(c)) \in Int
      <4>1. IsFiniteSet(Postings(c)) /\ Postings(c) \subseteq Posting
        BY PostingsFinite, PostingsType
      <4>2. \A t \in Postings(c) : MovesOn(a)[t] \in Int /\ SpendsOn(a)[t] \in Int
        BY <4>1, PostingsWeigh
      <4>. QED BY <1>4, <4>1, <4>2, TallyNone, SpentNone, TotalInt
    <3>2. /\ Delta(call[p])' = [a \in Accounts |-> Total(MovesOn(a), Postings(c))]
          /\ Spends(call[p])' = [a \in Accounts |-> Total(SpendsOn(a), Postings(c))]
      BY <1>2, <2>2 DEF Delta, Spends
    <3>. QED BY <2>1, <3>1, <3>2 DEF Accounted
  <2>4. Ready(p)'
    BY <1>2, <1>3, <1>4, <2>1, <2>3 DEF Ready, Ahead, Marked, Checked
  <2>. QED BY <1>2, <2>4, AtomicOthers
<1>. QED BY <1>5, <1>6

LEMMA AtomicLock ==
  ASSUME TypeOK, HeldInv, WholeInv, AtomicInv, [Next]_vars, NEW p \in Requests,
         NEW a \in Accounts, LockAccount(p, a)
  PROVE  AtomicInv'
<1>1. /\ UNCHANGED <<tables, pc, call, began, todo, drafts, today>>
      /\ pc[p] = "locking" /\ a \in Opened /\ lock[a] = Nobody
      /\ lock' = [lock EXCEPT ![a] = p] /\ copy' = [copy EXCEPT ![p][a] = row[a]]
  BY DEF LockAccount, outside, IsFree
<1>2. /\ lock'[a] = p /\ \A b \in Accounts \ {a} : lock'[b] = lock[b]
      /\ copy'[p][a] = row[a] /\ \A b \in Accounts \ {a} : copy'[p][b] = copy[p][b]
      /\ \A q \in Requests \ {p} : copy'[q] = copy[q]
  BY <1>1 DEF TypeOK
<1>3. Ready(p) /\ drafts[p][a] = <<>> /\ row[a].balance \in Int
  BY <1>1 DEF AtomicInv, WholeInv, Whole, TypeOK, Row
<1>4. Ahead(p)'
  <2>1. Tally(AmountOf(p), drafts[p][a]) = 0
    BY <1>3, TallyNone
  <2>2. copy'[p][a].balance = row[a].balance + Tally(AmountOf(p), drafts[p][a])
    BY <1>2, <1>3, <2>1
  <2>. QED BY <1>1, <1>2, <1>3, <2>2 DEF Ready, Ahead, tables
<1>5. Moving(p)' => Accounted(p)'
  <2>1. Moving(p) /\ Accounted(p)
    BY <1>1, <1>3 DEF Moving, Ready
  <2>2. Delta(call[p])' = Delta(call[p]) /\ Spends(call[p])' = Spends(call[p])
    BY <1>1, <2>1, DeltaKept
  <2>. QED BY <1>1, <2>1, <2>2 DEF Accounted
<1>6. Ready(p)'
  BY <1>1, <1>3, <1>4, <1>5 DEF Ready, Marked, Checked
<1>7. \A q \in Requests \ {p} : \A b \in Accounts : lock[b] = q <=> lock'[b] = q
  BY <1>1, <1>2, LedgerAssumption
<1>. QED BY <1>1, <1>2, <1>6, <1>7, AtomicOthers

\* Every row a validated call will post to is locked by it.
LEMMA AllLocked ==
  ASSUME TypeOK, HeldInv, WholeInv, NEW p \in Requests, pc[p] = "locking", toLock[p] = {},
         NEW t \in Postings(call[p])
  PROVE  t \in todo[p] /\ lock[t.account] = p
<1>1. Whole(p) /\ Held(p) /\ Moving(p) /\ pc[p] # "posting"
  BY DEF WholeInv, HeldInv, Moving
<1>2. call[p] \in Calls
  <2>1. Postings(NoCall) = {}
    BY DEF Postings, NoCall
  <2>. QED BY <2>1 DEF TypeOK
<1>3. t.account \in Accounts
  BY <1>2, PostingsType DEF Posting
<1>4. ~Drafted(p, t)
  BY <1>1, <1>3 DEF Whole, Drafted
<1>5. t \in todo[p]
  BY <1>1, <1>4 DEF Whole, Owed
<1>. QED BY <1>1, <1>5 DEF Held, Covered

\* What the chain accepts may be paid and received.
LEMMA ChainChecks ==
  ASSUME TypeOK, HeldInv, WholeInv, AtomicInv, NEW p \in Requests,
         pc[p] = "locking", toLock[p] = {}, Accepts(p), UNCHANGED <<lock, entries, call, today>>
  PROVE  Checked(p)'
<1>. DEFINE c == call[p]
<1>1. Ready(p) /\ Held(p) /\ c \in Calls
  BY DEF AtomicInv, HeldInv, Ready
<1>2. ASSUME NEW a \in Accounts, lock[a] = p
      PROVE  a \in Opened /\ copy[p][a].status = OpeningStatus[a]
  BY <1>1, <1>2 DEF AtomicInv, Ready, Ahead, Held
<1>3. ASSUME NEW a \in Accounts, NEW due \in Nat, lock[a] = p,
             Validates("WITHDRAWAL", due, copy[p][a], WithdrawnToday(a), Limit[a])
      PROVE  MayPay(p, a, due)'
  <2>1. WithdrawnToday(a) = SpentOf(entries[a], today)
    <3>1. entries[a] \in Seq(Entry) /\ today \in Nat
      BY DEF TypeOK
    <3>. QED BY <3>1, SpentFold DEF WithdrawnToday
  <2>2. CanWithdraw(copy[p][a].status) /\ WithdrawnToday(a) + due <= Limit[a]
    BY <1>3 DEF Validates
  <2>. QED BY <1>2, <1>3, <2>1, <2>2 DEF MayPay
<1>4. ASSUME NEW a \in Accounts, NEW x \in Nat, lock[a] = p,
             Validates("DEPOSIT", x, copy[p][a], 0, Limit[a])
      PROVE  MayGet(a)
  <2>1. CanDeposit(copy[p][a].status)
    BY <1>4 DEF Validates
  <2>2. a \in Opened /\ copy[p][a].status = OpeningStatus[a]
    BY <1>2, <1>4
  <2>. QED BY <2>1, <2>2 DEF MayGet
<1>5. CASE c.op = "deposit"
  <2>1. c.to \in Accounts /\ c.amount \in Nat
    <3>1. c \in DepositCalls
      BY <1>1, <1>5, CallShape
    <3>. HIDE DEF c
    <3>. QED BY <3>1, LedgerAssumption DEF DepositCalls
  <2>2. lock[c.to] = p
    <3>1. Posted(c.to, 1, c.amount, "DEPOSIT") \in Postings(c)
      BY <1>5 DEF Postings
    <3>. QED BY <3>1, AllLocked DEF Posted
  <2>3. Validates("DEPOSIT", c.amount, copy[p][c.to], 0, Limit[c.to])
    BY <1>5 DEF Accepts
  <2>4. MayGet(c.to) /\ c.amount # 0
    BY <1>4, <2>1, <2>2, <2>3 DEF Validates
  <2>. QED BY <1>5, <2>4 DEF Checked, MayGet
<1>6. CASE c.op = "withdraw"
  <2>1. c.from \in Accounts /\ c.amount \in Nat
    BY <1>1, <1>6, CallShape, LedgerAssumption DEF WithdrawCalls
  <2>2. lock[c.from] = p
    <3>1. Posted(c.from, 1, -c.amount, "WITHDRAWAL") \in Postings(c)
      BY <1>6 DEF Postings
    <3>. QED BY <3>1, AllLocked DEF Posted
  <2>3. Validates("WITHDRAWAL", c.amount, copy[p][c.from], WithdrawnToday(c.from), Limit[c.from])
    BY <1>6 DEF Accepts
  <2>4. MayPay(p, c.from, c.amount)' /\ c.amount # 0
    BY <1>3, <2>1, <2>2, <2>3 DEF Validates
  <2>. QED BY <1>6, <2>4 DEF Checked
<1>7. CASE c.op = "transfer"
  <2>1. c.from \in Accounts /\ c.to \in Accounts /\ c.amount \in Nat /\ c.fee \in Nat
    BY <1>1, <1>7, CallShape, LedgerAssumption DEF TransferCalls
  <2>2. lock[c.from] = p /\ lock[c.to] = p
    <3>1. /\ Posted(c.from, 1, -c.amount, "TRANSFER_OUT") \in Postings(c)
          /\ Posted(c.to, 3, c.amount, "TRANSFER_IN") \in Postings(c)
      BY <1>7 DEF Postings
    <3>2. \A t \in Postings(c) : lock[t.account] = p
      BY AllLocked
    <3>. QED BY <3>1, <3>2 DEF Posted
  <2>3. /\ Currency[c.from] = Currency[c.to]
        /\ Validates("WITHDRAWAL", c.amount + c.fee, copy[p][c.from],
                     WithdrawnToday(c.from), Limit[c.from])
        /\ Validates("DEPOSIT", c.amount, copy[p][c.to], 0, Limit[c.to])
    BY <1>7 DEF Accepts
  <2>4. MayPay(p, c.from, c.amount + c.fee)' /\ MayGet(c.to) /\ c.amount # 0
    <3>1. c.amount + c.fee \in Nat
      BY <2>1
    <3>. QED BY <1>3, <1>4, <2>1, <2>2, <2>3, <3>1 DEF Validates
  <2>. QED BY <1>7, <2>3, <2>4 DEF Checked, MayGet
<1>8. CASE c.op \notin {"deposit", "withdraw", "transfer"}
  BY <1>8 DEF Checked
<1>. QED BY <1>5, <1>6, <1>7, <1>8

LEMMA AtomicValidate ==
  ASSUME TypeOK, HeldInv, WholeInv, AtomicInv, [Next]_vars, NEW p \in Requests, Validate(p)
  PROVE  AtomicInv'
<1>1. pc[p] = "locking" /\ toLock[p] = {}
  BY DEF Validate
<1>2. CASE ~Accepts(p)
  BY <1>1, <1>2, AtomicRollback DEF Validate
<1>3. CASE Accepts(p)
  <2>1. /\ UNCHANGED <<tables, lock, call, began, todo, drafts, copy, today>>
        /\ pc' = [pc EXCEPT ![p] = "posting"]
    BY <1>3 DEF Validate, outside
  <2>2. Ready(p)
    BY DEF AtomicInv
  <2>3. Accounted(p)'
    <3>1. Moving(p) /\ Accounted(p)
      BY <1>1, <2>2 DEF Moving, Ready
    <3>2. Delta(call[p])' = Delta(call[p]) /\ Spends(call[p])' = Spends(call[p])
      BY <2>1, <3>1, DeltaKept
    <3>. QED BY <2>1, <3>1, <3>2 DEF Accounted
  <2>4. Checked(p)'
    BY <1>1, <1>3, <2>1, ChainChecks DEF tables
  <2>5. pc'[p] = "posting" /\ \A q \in Requests \ {p} : pc'[q] = pc[q]
    BY <2>1 DEF TypeOK
  <2>6. Ready(p)'
    BY <1>1, <2>1, <2>2, <2>3, <2>4, <2>5 DEF Ready, Ahead, Marked, tables
  <2>. QED BY <1>1, <2>1, <2>5, <2>6, AtomicOthers
<1>. QED BY <1>2, <1>3

\* What a posting was to move and to count, its draft moves and counts.
LEMMA PostWeighs ==
  ASSUME TypeOK, NEW p \in Requests, NEW t \in todo[p]
  PROVE  LET e == EntryFor(p, t)
         IN  /\ e \in Entry /\ t \in Posting
             /\ AmountOf(p)[e] = MovesOn(t.account)[t]
             /\ Counts(e, began[p]) = SpendsOn(t.account)[t]
             /\ \A b \in Accounts \ {t.account} : MovesOn(b)[t] = 0 /\ SpendsOn(b)[t] = 0
             /\ MovesOn(t.account)[t] = t.amount /\ t.amount \in Int
<1>. DEFINE e == EntryFor(p, t)
<1>1. e \in Entry /\ t \in Posting /\ t.amount \in Int
  BY EntryForType DEF TypeOK, Posting
<1>2. e.ref = p /\ e.amount = t.amount /\ e.type = t.type /\ e.day = began[p] /\ began[p] \in Nat
  BY DEF EntryFor, TypeOK
<1>. HIDE DEF e
<1>3. AmountOf(p)[e] = t.amount
  BY <1>1, <1>2, AmountsWeigh
<1>4. MovesOn(t.account)[t] = t.amount
  BY <1>1, PostingsWeigh
<1>5. SpendsOn(t.account)[t] = IF t.type \in DebitTypes THEN -t.amount ELSE 0
  BY <1>1, PostingsWeigh
<1>6. Counts(e, began[p]) = IF t.type \in DebitTypes THEN -t.amount ELSE 0
  BY <1>2 DEF Counts, CountsToLimit, DebitTypes
<1>7. \A b \in Accounts \ {t.account} : MovesOn(b)[t] = 0 /\ SpendsOn(b)[t] = 0
  BY <1>1, PostingsWeigh
<1>. QED BY <1>1, <1>3, <1>4, <1>5, <1>6, <1>7 DEF e

LEMMA AtomicPost ==
  ASSUME TypeOK, FundsInv, HeldInv, WholeInv, AtomicInv, [Next]_vars, NEW p \in Requests,
         NEW t \in todo[p], Post(p, t)
  PROVE  AtomicInv'
<1>. DEFINE a == t.account
            lines == drafts[p][a]
            e == EntryFor(p, t)
<1>1. /\ UNCHANGED <<tables, lock, pc, call, began, today>> /\ pc[p] = "posting"
      /\ copy' = [copy EXCEPT ![p][a].balance = @ + t.amount]
      /\ drafts' = [drafts EXCEPT ![p][a] = Append(@, e)]
      /\ todo' = [todo EXCEPT ![p] = @ \ {t}]
  BY DEF Post, outside
<1>2. /\ Ready(p) /\ Held(p) /\ Planned(p) /\ Whole(p) /\ Moving(p)
      /\ began[p] <= today /\ began[p] \in Nat
  BY <1>1 DEF AtomicInv, Ready, HeldInv, FundsInv, WholeInv, Moving, TypeOK
<1>3. /\ a \in Accounts /\ lines \in Seq(Entry) /\ e \in Entry /\ t.amount \in Int
      /\ todo[p] \subseteq Posting /\ IsFiniteSet(todo[p])
  BY <1>2, EntryForType DEF TypeOK, Posting, Whole, Owed
<1>4. /\ drafts'[p][a] = Append(lines, e) /\ todo'[p] = todo[p] \ {t}
      /\ \A b \in Accounts \ {a} : drafts'[p][b] = drafts[p][b]
  BY <1>1, <1>3 DEF TypeOK
<1>5. /\ copy'[p][a].balance = copy[p][a].balance + t.amount
      /\ \A b \in Accounts \ {a} : copy'[p][b] = copy[p][b]
  BY <1>1, <1>3 DEF TypeOK, Row
<1>6. \A q \in Requests \ {p} : drafts'[q] = drafts[q] /\ todo'[q] = todo[q] /\ copy'[q] = copy[q]
  BY <1>1 DEF TypeOK
<1>7. /\ AmountOf(p)[e] = MovesOn(a)[t] /\ Counts(e, began[p]) = SpendsOn(a)[t]
      /\ \A b \in Accounts \ {a} : MovesOn(b)[t] = 0 /\ SpendsOn(b)[t] = 0
      /\ MovesOn(a)[t] = t.amount
  BY <1>2, PostWeighs
<1>8. /\ e.type = t.type /\ e.day = began[p]
      /\ call[p].op = "reverse" => e.of = call[p].of
  BY DEF EntryFor
<1>. HIDE DEF e, a, lines
<1>9. ASSUME NEW b \in Accounts
      PROVE  /\ Tally(AmountOf(p), drafts'[p][b])
                  = Tally(AmountOf(p), drafts[p][b]) + MovesOn(b)[t]
             /\ SpentOf(drafts'[p][b], began[p]) = SpentOf(drafts[p][b], began[p]) + SpendsOn(b)[t]
             /\ Tally(AmountOf(p), drafts[p][b]) \in Int /\ SpentOf(drafts[p][b], began[p]) \in Int
  <2>1. drafts[p][b] \in Seq(Entry)
    BY DEF TypeOK
  <2>2. Tally(AmountOf(p), drafts[p][b]) \in Int /\ SpentOf(drafts[p][b], began[p]) \in Int
    BY <1>2, <2>1, AmountsWeigh, TallyInt, SpentInt
  <2>3. CASE b = a
    <3>1. Tally(AmountOf(p), Append(lines, e)) = Tally(AmountOf(p), lines) + AmountOf(p)[e]
      BY <1>3, AmountsWeigh, TallyAppend
    <3>2. SpentOf(Append(lines, e), began[p]) = SpentOf(lines, began[p]) + Counts(e, began[p])
      BY <1>2, <1>3, SpentAppend
    <3>. QED BY <1>4, <1>7, <2>2, <2>3, <3>1, <3>2 DEF lines
  <2>4. CASE b # a
    BY <1>4, <1>7, <2>2, <2>4
  <2>. QED BY <2>2, <2>3, <2>4
<1>10. ASSUME NEW b \in Accounts
       PROVE  /\ Total(MovesOn(b), todo[p]) = MovesOn(b)[t] + Total(MovesOn(b), todo'[p])
              /\ Total(SpendsOn(b), todo[p]) = SpendsOn(b)[t] + Total(SpendsOn(b), todo'[p])
              /\ MovesOn(b)[t] \in Int /\ SpendsOn(b)[t] \in Int
              /\ Total(MovesOn(b), todo'[p]) \in Int /\ Total(SpendsOn(b), todo'[p]) \in Int
  <2>1. \A u \in todo[p] : MovesOn(b)[u] \in Int /\ SpendsOn(b)[u] \in Int
    BY <1>3, PostingsWeigh
  <2>2. IsFiniteSet(todo'[p]) /\ todo'[p] \subseteq todo[p]
    BY <1>3, <1>4, FS_RemoveElement
  <2>3. \A u \in todo'[p] : MovesOn(b)[u] \in Int /\ SpendsOn(b)[u] \in Int
    BY <2>1, <2>2
  <2>4. Total(MovesOn(b), todo'[p]) \in Int /\ Total(SpendsOn(b), todo'[p]) \in Int
    BY <2>2, <2>3, TotalInt
  <2>5. /\ Total(MovesOn(b), todo[p]) = MovesOn(b)[t] + Total(MovesOn(b), todo[p] \ {t})
        /\ Total(SpendsOn(b), todo[p]) = SpendsOn(b)[t] + Total(SpendsOn(b), todo[p] \ {t})
    BY <1>3, <2>1, TotalWithout
  <2>. QED BY <1>4, <2>1, <2>4, <2>5
<1>11. Accounted(p)'
  <2>1. Delta(call[p])' = Delta(call[p]) /\ Spends(call[p])' = Spends(call[p])
    BY <1>1, <1>2, DeltaKept
  <2>2. Accounted(p)
    BY <1>2 DEF Ready
  <2>3. ASSUME NEW b \in Accounts
        PROVE  /\ Tally(AmountOf(p), drafts'[p][b]) + Total(MovesOn(b), todo'[p]) = Delta(call[p])[b]
               /\ SpentOf(drafts'[p][b], began[p]) + Total(SpendsOn(b), todo'[p]) = Spends(call[p])[b]
    <3>1. /\ Tally(AmountOf(p), drafts[p][b]) + Total(MovesOn(b), todo[p]) = Delta(call[p])[b]
          /\ SpentOf(drafts[p][b], began[p]) + Total(SpendsOn(b), todo[p]) = Spends(call[p])[b]
      BY <2>2 DEF Accounted
    <3>. QED BY <1>9, <1>10, <3>1
  <2>. QED BY <1>1, <2>1, <2>3 DEF Accounted
<1>12. Ahead(p)'
  <2>1. ASSUME NEW b \in Accounts, lock[b] = p
        PROVE  /\ b \in Opened
               /\ copy'[p][b].balance = row[b].balance + Tally(AmountOf(p), drafts'[p][b])
    <3>1. /\ b \in Opened
          /\ copy[p][b].balance = row[b].balance + Tally(AmountOf(p), drafts[p][b])
      BY <1>2, <2>1 DEF Ready, Ahead
    <3>2. row[b].balance \in Int
      BY DEF TypeOK, Row
    <3>3. copy'[p][b].balance = copy[p][b].balance + MovesOn(b)[t]
      <4>1. copy[p][b].balance \in Int
        BY DEF TypeOK, Row
      <4>. QED BY <1>5, <1>7, <4>1
    <3>. QED BY <1>9, <1>10, <3>1, <3>2, <3>3
  <2>. QED BY <1>1, <2>1 DEF Ahead, tables
<1>13. Marked(p)'
  <2>1. t.type = "REVERSAL" <=> call[p].op = "reverse"
    <3>1. CASE call[p].op = "reverse"
      BY <1>2, <3>1 DEF Held
    <3>2. CASE call[p].op # "reverse"
      <4>1. t \in Postings(call[p]) /\ call[p].op \in {"deposit", "withdraw", "transfer"}
        BY <1>2, <3>2 DEF Planned
      <4>. QED BY <3>2, <4>1 DEF Postings, Posted
    <3>. QED BY <3>1, <3>2
  <2>2. ASSUME NEW b \in Accounts, NEW i \in DOMAIN drafts'[p][b]
        PROVE  \/ i \in DOMAIN drafts[p][b] /\ drafts'[p][b][i] = drafts[p][b][i]
               \/ drafts'[p][b][i] = e
    <3>1. CASE b = a
      <4>1. i \in DOMAIN Append(lines, e)
        BY <1>4, <2>2, <3>1
      <4>2. \/ i \in DOMAIN lines /\ Append(lines, e)[i] = lines[i]
            \/ Append(lines, e)[i] = e
        BY <1>3, <4>1
      <4>. QED BY <1>4, <3>1, <4>2 DEF lines
    <3>2. CASE b # a
      BY <1>4, <2>2, <3>2
    <3>. QED BY <3>1, <3>2
  <2>3. Marked(p)
    BY <1>2 DEF Ready
  <2>. QED BY <1>1, <1>8, <2>1, <2>2, <2>3 DEF Marked
<1>14. Checked(p)'
  <2>1. Checked(p)
    BY <1>2 DEF Ready
  <2>. QED BY <1>1, <2>1 DEF Checked, MayPay, MayGet, tables
<1>15. Ready(p)'
  BY <1>1, <1>2, <1>11, <1>12, <1>13, <1>14 DEF Ready
<1>. QED BY <1>1, <1>6, <1>15, AtomicOthers

LEMMA AtomicCommit ==
  ASSUME TypeOK, HeldInv, WholeInv, AtomicInv, [Next]_vars, NEW p \in Requests, Commit(p)
  PROVE  AtomicInv'
<1>1. /\ pc[p] = "posting" /\ pc'[p] = "publishing" /\ drafts'[p] = NoDraft
      /\ UNCHANGED <<call, began, today>>
      /\ \A a \in Accounts : /\ lock'[a] = IF lock[a] = p THEN Nobody ELSE lock[a]
                             /\ row'[a].status = row[a].status
                             /\ entries'[a] = entries[a] \o drafts[p][a]
      /\ \A q \in Requests \ {p} :
           /\ pc'[q] = pc[q] /\ todo'[q] = todo[q] /\ drafts'[q] = drafts[q]
           /\ copy'[q] = copy[q]
  BY DEF Commit, IsComplete, Leave, outside, TypeOK, Row
<1>2. Ready(p) /\ Whole(p)
  BY DEF AtomicInv, WholeInv
<1>3. Ready(p)'
  <2>1. \A a \in Accounts : lock'[a] # p /\ drafts'[p][a] = <<>>
    BY <1>1, LedgerAssumption DEF NoDraft
  <2>. QED BY <1>1, <1>2, <2>1, ReadyIdle DEF Ready
<1>4. ASSUME NEW q \in Requests \ {p} PROVE Ready(q)'
  <2>1. ~Commit(q)
    BY <1>1 DEF Commit, IsComplete, Leave, TypeOK
  <2>2. \A a \in Accounts : lock[a] = q <=> lock'[a] = q
    BY <1>1, LedgerAssumption
  <2>. QED BY <1>1, <2>1, <2>2, ReadyFrame
<1>5. ASSUME NEW a \in Accounts, NEW i \in DOMAIN entries'[a]
      PROVE  \/ i \in DOMAIN entries[a] /\ entries'[a][i] = entries[a][i]
             \/ \E j \in DOMAIN drafts[p][a] : entries'[a][i] = drafts[p][a][j]
  <2>. DEFINE old == entries[a]  new == drafts[p][a]  both == entries'[a]
  <2>1. old \in Seq(Entry) /\ new \in Seq(Entry) /\ both = old \o new /\ i \in DOMAIN both
    BY <1>1 DEF TypeOK
  <2>. HIDE DEF old, new, both
  <2>2. i \in DOMAIN (old \o new)
    BY <2>1
  <2>3. \/ i \in DOMAIN old /\ both[i] = old[i]
        \/ \E j \in DOMAIN new : both[i] = new[j]
    BY <2>1, <2>2, InEither, Zenon
  <2>. QED BY <2>3 DEF old, new, both
<1>6. ASSUME NEW a \in Accounts, NEW i \in DOMAIN entries'[a]
      PROVE  /\ entries'[a][i].type = "REVERSAL" =>
                  entries'[a][i].ref \in Requests /\ call[entries'[a][i].ref].op = "reverse"
             /\ entries'[a][i].day <= today
  <2>1. CASE i \in DOMAIN entries[a] /\ entries'[a][i] = entries[a][i]
    BY <2>1 DEF AtomicInv
  <2>2. ASSUME NEW j \in DOMAIN drafts[p][a], entries'[a][i] = drafts[p][a][j]
        PROVE  /\ entries'[a][i].type = "REVERSAL" =>
                    entries'[a][i].ref \in Requests /\ call[entries'[a][i].ref].op = "reverse"
               /\ entries'[a][i].day <= today
    BY <1>2, <2>2 DEF Ready, Marked, Whole
  <2>. QED BY <1>5, <2>1, <2>2
<1>7. \A a \in Accounts : row'[a].status = OpeningStatus[a]
  BY <1>1 DEF AtomicInv
<1>. QED BY <1>1, <1>3, <1>4, <1>6, <1>7 DEF AtomicInv

\* At midnight what the chain has checked becomes easier, and nothing else that a
\* request relies on depends on the day.
LEMMA AtomicMidnight ==
  ASSUME TypeOK, LimitInv, AtomicInv, Midnight
  PROVE  AtomicInv'
<1>1. /\ UNCHANGED <<tables, lock, pc, call, began, todo, drafts, copy>>
      /\ today \in Nat /\ today' = today + 1
  BY DEF Midnight, TypeOK
<1>2. ASSUME NEW p \in Requests, NEW a \in Accounts, NEW due \in Nat, MayPay(p, a, due)
      PROVE  MayPay(p, a, due)'
  <2>1. /\ entries[a] \in Seq(Entry) /\ entries'[a] = entries[a]
        /\ \A i \in DOMAIN entries[a] : TakesMoney(entries[a][i])
    BY <1>1 DEF TypeOK, LimitInv, tables
  <2>2. today' \in Nat /\ today <= today'
    BY <1>1
  <2>3. SpentOf(entries[a], today') <= SpentOf(entries[a], today)
    BY <1>1, <2>1, <2>2, SpentLater
  <2>4. /\ SpentOf(entries[a], today') \in Int /\ SpentOf(entries[a], today) \in Int
        /\ Limit[a] \in Nat
    BY <1>1, <2>1, <2>2, SpentInt, LedgerAssumption
  <2>5. SpentOf(entries[a], today) + due <= Limit[a]
    BY <1>2 DEF MayPay
  <2>6. SpentOf(entries'[a], today') + due <= Limit[a]
    BY <2>1, <2>3, <2>4, <2>5
  <2>. QED BY <1>1, <1>2, <2>6 DEF MayPay
<1>3. ASSUME NEW p \in Requests PROVE Ready(p)'
  <2>1. Ready(p) /\ began[p] \in Nat
    BY DEF AtomicInv, TypeOK
  <2>2. Moving(p)' => Accounted(p)'
    <3>1. Postings(call[p])' = Postings(call[p])
      BY <1>1 DEF Postings, Positions, tables
    <3>2. Delta(call[p])' = Delta(call[p]) /\ Spends(call[p])' = Spends(call[p])
      BY <3>1 DEF Delta, Spends
    <3>. QED BY <1>1, <2>1, <3>2 DEF Ready, Moving, Accounted
  <2>3. Ahead(p)' /\ Marked(p)'
    BY <1>1, <2>1 DEF Ready, Ahead, Marked, tables
  <2>4. Checked(p)'
    <3>1. SUFFICES ASSUME pc[p] = "posting" PROVE Checked(p)'
      BY <1>1 DEF Checked
    <3>2. Checked(p) /\ call[p] \in Calls
      BY <2>1, <3>1 DEF Ready
    <3>3. /\ call[p].op = "withdraw" => call[p].from \in Accounts /\ call[p].amount \in Nat
          /\ call[p].op = "transfer" =>
               call[p].from \in Accounts /\ call[p].amount + call[p].fee \in Nat
      <4>1. call[p].op = "withdraw" => call[p].from \in Accounts /\ call[p].amount \in Nat
        BY <3>2, CallShape, LedgerAssumption DEF WithdrawCalls
      <4>2. call[p].op = "transfer" =>
              call[p].from \in Accounts /\ call[p].amount \in Nat /\ call[p].fee \in Nat
        BY <3>2, CallShape, LedgerAssumption DEF TransferCalls
      <4>. QED BY <4>1, <4>2
    <3>4. \A a : MayGet(a)' = MayGet(a)
      BY DEF MayGet
    <3>. HIDE DEF MayGet, MayPay
    <3>. QED BY <1>1, <1>2, <3>1, <3>2, <3>3, <3>4 DEF Checked
  <2>. QED BY <1>1, <2>1, <2>2, <2>3, <2>4 DEF Ready
<1>4. \A a \in Accounts : \A i \in DOMAIN entries[a] : entries[a][i].day <= today'
  <2>1. ASSUME NEW a \in Accounts, NEW i \in DOMAIN entries[a] PROVE entries[a][i].day <= today'
    <3>1. entries[a][i].day <= today /\ entries[a][i].day \in Nat
      <4>1. entries[a][i] \in Entry
        BY DEF TypeOK
      <4>. QED BY <4>1 DEF AtomicInv, Entry
    <3>. QED BY <1>1, <3>1
  <2>. QED BY <2>1
<1>. QED BY <1>1, <1>3, <1>4 DEF AtomicInv, tables

LEMMA NextAtomic ==
  ASSUME NoStatusCalls, TypeOK, LockInv, FundsInv, HeldInv, WholeInv, LimitInv, AtomicInv,
         [Next]_vars
  PROVE  AtomicInv'
<1>1. ASSUME NEW p \in Requests, Begin(p) PROVE AtomicInv'
  BY <1>1, AtomicBegin DEF Begin
<1>2. ASSUME NEW p \in Requests, Advance(p) PROVE AtomicInv'
  <2>1. ASSUME NEW a \in Accounts, LockAccount(p, a) PROVE AtomicInv'
    BY <2>1, AtomicLock
  <2>2. ASSUME NEW a \in Accounts, AccountNotFound(p, a) PROVE AtomicInv'
    BY <2>2, AtomicRollback DEF AccountNotFound
  <2>3. ASSUME NEW t \in todo[p], Post(p, t) PROVE AtomicInv'
    BY <2>3, AtomicPost
  <2>4. ASSUME NEW t \in todo[p], RefuseReversal(p, t) PROVE AtomicInv'
    BY <2>4, AtomicRollback DEF RefuseReversal
  <2>5. ASSUME NEW e \in events[p], Publish(p, e) PROVE AtomicInv'
    <3>1. /\ UNCHANGED <<tables, call, began, todo, drafts, copy, lock, today>>
          /\ pc[p] = "publishing" /\ pc'[p] \in {"publishing", "done"}
          /\ \A q \in Requests \ {p} : pc'[q] = pc[q]
      BY <2>5 DEF Publish, MayPublish, TypeOK
    <3>2. /\ \A a \in Accounts : lock'[a] # p /\ drafts'[p][a] = <<>>
          /\ Ready(p)
      BY <3>1 DEF LockInv, LocksInTransaction, WholeInv, Whole, AtomicInv
    <3>3. Ready(p)'
      BY <3>1, <3>2, ReadyIdle DEF Ready
    <3>. QED BY <3>1, <3>3, AtomicOthers
  <2>6. ~ReloadForSave(p) /\ ~UpdateRow(p)
    BY DEF ReloadForSave, UpdateRow, Leave, AtomicInv, Ready, TypeOK
  <2>. QED BY <1>2, <2>1, <2>2, <2>3, <2>4, <2>5, <2>6, AtomicValidate, AtomicCommit DEF Advance
<1>3. ASSUME NEW p \in Requests, Crash(p) PROVE AtomicInv'
  BY <1>3, AtomicRollback DEF Crash, Running
<1>4. CASE Midnight
  BY <1>4, AtomicMidnight
<1>5. CASE Finished \/ UNCHANGED vars
  <2>1. UNCHANGED <<tables, lock, pc, call, began, todo, drafts, copy, today>>
    BY <1>5 DEF Finished, vars, tables
  <2>2. ASSUME NEW p \in Requests PROVE Ready(p)'
    <3>1. ~Commit(p)
      BY <2>1 DEF Commit, IsComplete, Leave, TypeOK
    <3>. QED BY <2>1, <3>1, ReadyFrame
  <2>. QED BY <2>1, <2>2 DEF AtomicInv, tables
<1>. QED BY <1>1, <1>2, <1>3, <1>4, <1>5 DEF Next

\* What a call does to the balances, call by call.
LEMMA DepositDelta ==
  ASSUME TypeOK, NEW c \in DepositCalls
  PROVE  /\ Delta(c) = [b \in Accounts |-> IF b = c.to THEN c.amount ELSE 0]
         /\ Spends(c) = [b \in Accounts |-> 0]
<1>. DEFINE t == Posted(c.to, 1, c.amount, "DEPOSIT")
<1>1. Postings(c) = {t} /\ t \in Posting /\ c.amount \in Nat
  BY PostingsType, LedgerAssumption DEF Postings, DepositCalls, Calls
<1>2. t.account = c.to /\ t.amount = c.amount /\ t.type = "DEPOSIT"
  BY DEF Posted
<1>. HIDE DEF t
<1>3. ASSUME NEW b \in Accounts
      PROVE  /\ Total(MovesOn(b), {t}) = IF b = c.to THEN c.amount ELSE 0
             /\ Total(SpendsOn(b), {t}) = 0
  <2>1. /\ MovesOn(b)[t] = IF b = c.to THEN c.amount ELSE 0
        /\ SpendsOn(b)[t] = 0
        /\ MovesOn(b)[t] \in Int /\ SpendsOn(b)[t] \in Int
    BY <1>1, <1>2, PostingsWeigh DEF DebitTypes
  <2>. QED BY <2>1, TotalSingle
<1>. QED BY <1>1, <1>3 DEF Delta, Spends

LEMMA WithdrawDelta ==
  ASSUME TypeOK, NEW c \in WithdrawCalls
  PROVE  /\ Delta(c) = [b \in Accounts |-> IF b = c.from THEN -c.amount ELSE 0]
         /\ Spends(c) = [b \in Accounts |-> IF b = c.from THEN c.amount ELSE 0]
<1>. DEFINE t == Posted(c.from, 1, -c.amount, "WITHDRAWAL")
<1>1. Postings(c) = {t} /\ t \in Posting /\ c.amount \in Nat
  BY PostingsType, LedgerAssumption DEF Postings, WithdrawCalls, Calls
<1>2. t.account = c.from /\ t.amount = -c.amount /\ t.type = "WITHDRAWAL"
  BY DEF Posted
<1>. HIDE DEF t
<1>3. ASSUME NEW b \in Accounts
      PROVE  /\ Total(MovesOn(b), {t}) = IF b = c.from THEN -c.amount ELSE 0
             /\ Total(SpendsOn(b), {t}) = IF b = c.from THEN c.amount ELSE 0
  <2>1. /\ MovesOn(b)[t] = IF b = c.from THEN -c.amount ELSE 0
        /\ SpendsOn(b)[t] = IF b = c.from THEN c.amount ELSE 0
        /\ MovesOn(b)[t] \in Int /\ SpendsOn(b)[t] \in Int
    BY <1>1, <1>2, PostingsWeigh DEF DebitTypes
  <2>. QED BY <2>1, TotalSingle
<1>. QED BY <1>1, <1>3 DEF Delta, Spends

LEMMA TransferDelta ==
  ASSUME TypeOK, NEW c \in TransferCalls, c.from # c.to
  PROVE  /\ Delta(c) = [b \in Accounts |-> CASE b = c.from -> -(c.amount + c.fee)
                                             [] b = c.to -> c.amount
                                             [] OTHER -> 0]
         /\ Spends(c) = [b \in Accounts |-> IF b = c.from THEN c.amount ELSE 0]
<1>. DEFINE out == Posted(c.from, 1, -c.amount, "TRANSFER_OUT")
            in  == Posted(c.to, 3, c.amount, "TRANSFER_IN")
            fee == Posted(c.from, 2, -c.fee, "FEE")
            fees == IF c.fee > 0 THEN {fee} ELSE {}
<1>1. /\ Postings(c) = ({out} \cup {in}) \cup fees /\ c.amount \in Nat /\ c.fee \in Nat
      /\ Postings(c) \subseteq Posting
  BY PostingsType, LedgerAssumption DEF Postings, TransferCalls, Calls
<1>2. /\ out.account = c.from /\ out.amount = -c.amount /\ out.type = "TRANSFER_OUT"
      /\ in.account = c.to /\ in.amount = c.amount /\ in.type = "TRANSFER_IN"
      /\ fee.account = c.from /\ fee.amount = -c.fee /\ fee.type = "FEE"
  BY DEF Posted
<1>. HIDE DEF out, in, fee
<1>3. /\ out \in Posting /\ in \in Posting /\ {out} \cap {in} = {}
      /\ ({out} \cup {in}) \cap fees = {}
  BY <1>1, <1>2
<1>4. IsFiniteSet({out}) /\ IsFiniteSet({in}) /\ IsFiniteSet(fees) /\ IsFiniteSet({out} \cup {in})
  BY FS_Singleton, FS_EmptySet, FS_Union
<1>5. ASSUME NEW g, \A t \in Posting : g[t] \in Int
      PROVE  Total(g, Postings(c)) = (g[out] + g[in]) + Total(g, fees)
  <2>1. \A t \in ({out} \cup {in}) \cup fees : g[t] \in Int
    BY <1>1, <1>5
  <2>2. Total(g, {out} \cup {in}) = Total(g, {out}) + Total(g, {in})
    BY <1>3, <1>4, <2>1, TotalUnion
  <2>3. Total(g, ({out} \cup {in}) \cup fees) = Total(g, {out} \cup {in}) + Total(g, fees)
    BY <1>3, <1>4, <2>1, TotalUnion
  <2>4. Total(g, {out}) = g[out] /\ Total(g, {in}) = g[in]
    BY <2>1, TotalSingle
  <2>. QED BY <1>1, <2>2, <2>3, <2>4
<1>6. ASSUME NEW b \in Accounts
      PROVE  /\ Total(MovesOn(b), fees) = IF b = c.from THEN -c.fee ELSE 0
             /\ Total(SpendsOn(b), fees) = 0
  <2>1. CASE c.fee > 0
    <3>1. fee \in Posting
      BY <1>1, <2>1
    <3>2. /\ MovesOn(b)[fee] = IF b = c.from THEN -c.fee ELSE 0
          /\ SpendsOn(b)[fee] = 0 /\ MovesOn(b)[fee] \in Int
      BY <1>2, <3>1, PostingsWeigh DEF DebitTypes
    <3>. QED BY <2>1, <3>2, TotalSingle
  <2>2. CASE ~(c.fee > 0)
    <3>1. c.fee = 0 /\ fees = {}
      BY <1>1, <2>2
    <3>. HIDE DEF fees
    <3>. QED BY <3>1, TotalNone
  <2>. QED BY <2>1, <2>2
<1>7. ASSUME NEW b \in Accounts
      PROVE  /\ Total(MovesOn(b), Postings(c)) = CASE b = c.from -> -(c.amount + c.fee)
                                                   [] b = c.to -> c.amount
                                                   [] OTHER -> 0
             /\ Total(SpendsOn(b), Postings(c)) = IF b = c.from THEN c.amount ELSE 0
  <2>1. /\ MovesOn(b)[out] = IF b = c.from THEN -c.amount ELSE 0
        /\ MovesOn(b)[in] = IF b = c.to THEN c.amount ELSE 0
        /\ SpendsOn(b)[out] = IF b = c.from THEN c.amount ELSE 0
        /\ SpendsOn(b)[in] = 0
    BY <1>1, <1>2, <1>3, PostingsWeigh DEF DebitTypes
  <2>2. \A t \in Posting : MovesOn(b)[t] \in Int /\ SpendsOn(b)[t] \in Int
    BY PostingsWeigh
  <2>3. Total(MovesOn(b), Postings(c)) = (MovesOn(b)[out] + MovesOn(b)[in]) + Total(MovesOn(b), fees)
    BY <1>5, <2>2
  <2>4. Total(SpendsOn(b), Postings(c)) = (SpendsOn(b)[out] + SpendsOn(b)[in]) + Total(SpendsOn(b), fees)
    BY <1>5, <2>2
  <2>. HIDE DEF fees
  <2>. QED BY <1>1, <1>6, <2>1, <2>3, <2>4
<1>. QED BY <1>7 DEF Delta, Spends

\* A reversal takes back what its reference did.
LEMMA ReverseDelta ==
  ASSUME TypeOK, WholeInv, NEW c \in ReverseCalls
  PROVE  /\ Delta(c) = [b \in Accounts |-> -Tally(AmountOf(c.of), entries[b])]
         /\ Spends(c) = [b \in Accounts |-> 0]
<1>. DEFINE q == c.of
            P == Postings(c)
            Opposite(x) == Posted(x[1], x[2], -entries[x[1]][x[2]].amount, "REVERSAL")
<1>1. /\ P = {Opposite(x) : x \in Positions(q)} /\ P \subseteq Posting /\ IsFiniteSet(P)
      /\ c \in Calls
  BY PostingsType, PostingsFinite DEF Postings, ReverseCalls, Calls
<1>2. ASSUME NEW b \in Accounts PROVE Total(SpendsOn(b), P) = 0
  <2>1. ASSUME NEW t \in P PROVE SpendsOn(b)[t] = 0
    <3>1. t.type = "REVERSAL"
      BY <1>1 DEF Posted
    <3>. QED BY <1>1, <3>1, PostingsWeigh DEF DebitTypes
  <2>. HIDE DEF P
  <2>. QED BY <1>1, <2>1, TotalZero
<1>3. ASSUME NEW b \in Accounts
      PROVE  Total(MovesOn(b), P) = -Tally(AmountOf(q), entries[b])
  <2>. DEFINE lines == entries[b]
              D == DOMAIN lines
              I == {i \in D : lines[i].ref = q}
              g == Weighed(AmountOf(q), lines)
              h == [i \in I |-> -lines[i].amount]
              n == [i \in I |-> Opposite(<<b, i>>)]
              T == {n[i] : i \in I}
              m == MovesOn(b)
  <2>1. lines \in Seq(Entry) /\ \A i \in D : lines[i] \in Entry
    BY DEF TypeOK
  <2>2. /\ IsFiniteSet(D)
        /\ \A i \in D : /\ g[i] = (IF lines[i].ref = q THEN lines[i].amount ELSE 0)
                        /\ g[i] \in Int
    <3>1. \A i \in D : AmountOf(q)[lines[i]] = IF lines[i].ref = q THEN lines[i].amount ELSE 0
      BY <2>1, AmountsWeigh
    <3>2. /\ IsFiniteSet(D)
          /\ \A i \in D : g[i] = AmountOf(q)[lines[i]] /\ AmountOf(q)[lines[i]] \in Int
      <4>1. Weight(AmountOf(q))
        BY AmountsWeigh
      <4>. HIDE DEF lines, I, h, n, T, m
      <4>. QED BY <2>1, <4>1, WeighedInt
    <3>. HIDE DEF g, D
    <3>. QED BY <3>1, <3>2
  <2>3. \A i \in I : i \in D /\ h[i] = -g[i] /\ g[i] \in Int
    BY <2>2
  <2>4. \A i \in I : <<b, i>> \in Positions(q) /\ n[i] = Posted(b, i, -lines[i].amount, "REVERSAL")
    BY PositionsAre
  <2>5. T \subseteq P /\ \A t \in P \ T : t.account # b
    <3>1. T \subseteq P
      BY <1>1, <2>4
    <3>2. ASSUME NEW t \in P, t.account = b PROVE t \in T
      <4>1. PICK x \in Positions(q) : t = Opposite(x)
        BY <1>1
      <4>2. x[1] = b
        BY <3>2, <4>1 DEF Posted
      <4>3. x = <<x[1], x[2]>> /\ x[2] \in DOMAIN entries[x[1]] /\ entries[x[1]][x[2]].ref = q
        BY PositionsAre
      <4>4. x[2] \in I /\ x = <<b, x[2]>>
        BY <4>2, <4>3
      <4>5. n[x[2]] = t
        BY <4>1, <4>4
      <4>. QED BY <4>4, <4>5
    <3>. QED BY <3>1, <3>2
  <2>6. \A t \in P : m[t] \in Int /\ m[t] = IF t.account = b THEN t.amount ELSE 0
    BY <1>1, PostingsWeigh
  <2>7. \A i \in I : h[i] \in Int /\ m[n[i]] = h[i]
    <3>1. ASSUME NEW i \in I PROVE h[i] \in Int /\ m[n[i]] = h[i]
      <4>1. n[i] \in P /\ n[i].account = b /\ n[i].amount = -lines[i].amount
        BY <2>4, <2>5 DEF Posted
      <4>2. m[n[i]] = -lines[i].amount /\ m[n[i]] \in Int
        BY <2>6, <4>1
      <4>. QED BY <4>2
    <3>. QED BY <3>1
  <2>8. \A i, j \in I : n[i] = n[j] => i = j
    BY <2>4 DEF Posted
  <2>9. IsFiniteSet(I) /\ IsFiniteSet(D \ I) /\ DOMAIN n = I /\ I \cup (D \ I) = D
    BY <2>2, FS_Subset
  <2>10. IsFiniteSet(T) /\ IsFiniteSet(P \ T) /\ T \cup (P \ T) = P
    <3>. HIDE DEF T, P
    <3>. QED BY <1>1, <2>5, FS_Subset
  <2>11. \A i \in D \ I : g[i] = 0
    BY <2>2
  <2>12. \A t \in P \ T : m[t] = 0
    BY <2>5, <2>6
  <2>. HIDE DEF lines, D, I, g, h, n, m, P, q
  <2>13. Total(m, T) = Total(h, I)
    BY <2>7, <2>8, <2>9, TotalRenamed
  <2>. HIDE DEF T
  <2>14. Total(m, P) = Total(m, T) + Total(m, P \ T) /\ Total(m, P \ T) = 0
    <3>1. T \cap (P \ T) = {}
      OBVIOUS
    <3>2. \A t \in T \cup (P \ T) : m[t] \in Int
      BY <2>6, <2>10
    <3>3. Total(m, T \cup (P \ T)) = Total(m, T) + Total(m, P \ T)
      BY <2>10, <3>1, <3>2, TotalUnion
    <3>4. Total(m, P \ T) = 0
      BY <2>10, <2>12, TotalZero
    <3>. QED BY <2>10, <3>3, <3>4
  <2>15. Total(g, D) = Total(g, I) + Total(g, D \ I) /\ Total(g, D \ I) = 0
    <3>1. I \cap (D \ I) = {}
      OBVIOUS
    <3>2. \A i \in I \cup (D \ I) : g[i] \in Int
      BY <2>2, <2>9
    <3>3. Total(g, I \cup (D \ I)) = Total(g, I) + Total(g, D \ I)
      BY <2>9, <3>1, <3>2, TotalUnion
    <3>4. Total(g, D \ I) = 0
      BY <2>9, <2>11, TotalZero
    <3>. QED BY <2>9, <3>3, <3>4
  <2>16. Total(h, I) = -Total(g, I) /\ Total(g, I) \in Int
    <3>1. Total(h, I) = -Total(g, I)
      BY <2>3, <2>9, TotalOpposite
    <3>2. Total(g, I) \in Int
      BY <2>3, <2>9, TotalInt
    <3>. QED BY <3>1, <3>2
  <2>17. Total(m, P) = -Total(g, D)
    BY <2>13, <2>14, <2>15, <2>16
  <2>. QED BY <2>17 DEF Tally, m, g, D, lines
<1>. QED BY <1>2, <1>3 DEF Delta, Spends

\* The opening histories: at most one deposit, of a reference of its own.
LEMMA InitBank == Init /\ TypeOK /\ Shown => B!Init
<1>. SUFFICES ASSUME Init, TypeOK, Shown PROVE B!Init
  OBVIOUS
<1>1. ASSUME NEW a \in Accounts, NEW i \in DOMAIN entries[a]
      PROVE  entries[a][i].type = "DEPOSIT" /\ entries[a][i].ref = OpeningRef
  <2>. DEFINE e == [ref |-> OpeningRef, of |-> OpeningRef, amount |-> OpeningBalance[a],
                    type |-> "DEPOSIT", after |-> OpeningBalance[a], day |-> 0]
  <2>1. entries[a] = <<>> \/ entries[a] = <<e>>
    BY DEF Init
  <2>2. e.type = "DEPOSIT" /\ e.ref = OpeningRef
    OBVIOUS
  <2>. HIDE DEF e
  <2>. QED BY <2>1, <2>2
<1>2. balanceBar = OpeningBalance
  BY LedgerAssumption DEF Init, balanceBar
<1>3. ASSUME NEW a \in Accounts
      PROVE  /\ SpentOf(entries[a], today) = 0
             /\ \A p \in Requests : Tally(AmountOf(p), entries[a]) = 0
  <2>1. entries[a] \in Seq(Entry) /\ \A i \in DOMAIN entries[a] : entries[a][i] \in Entry
    BY DEF TypeOK
  <2>2. \A i \in DOMAIN entries[a] : CountsSince(today)[entries[a][i]] = 0
    BY <1>1, <2>1 DEF CountsSince, Counts, CountsToLimit
  <2>3. ASSUME NEW p \in Requests PROVE Tally(AmountOf(p), entries[a]) = 0
    <3>1. \A i \in DOMAIN entries[a] : AmountOf(p)[entries[a][i]] = 0
      BY <1>1, <2>1, AmountsWeigh, LedgerAssumption
    <3>. QED BY <2>1, <3>1, AmountsWeigh, TallyZero
  <2>4. Weight(CountsSince(today))
    BY CountsWeigh DEF TypeOK
  <2>. QED BY <2>1, <2>2, <2>3, <2>4, TallyZero DEF SpentOf
<1>4. spentBar = [a \in Accounts |-> 0]
  BY <1>3 DEF Shown
<1>5. effectBar = [p \in Requests |-> [a \in Accounts |-> 0]]
  BY <1>3 DEF Shown
<1>6. outcomeBar = [p \in Requests |-> "pending"]
  BY DEF Init, outcomeBar, Outcome
<1>7. reversedBar = {}
  BY <1>1 DEF reversedBar, AlreadyReversed
<1>8. overnightBar = {}
  BY DEF Init, overnightBar, Overnight
<1>. QED BY <1>2, <1>4, <1>5, <1>6, <1>7, <1>8 DEF B!Init

\* A step that changes no table shows in the Bank by what has become of the
\* requests alone.
LEMMA TablesShown ==
  ASSUME Shown, Shown', UNCHANGED <<tables, today>>
  PROVE  /\ balanceBar' = balanceBar /\ spentBar' = spentBar /\ effectBar' = effectBar
         /\ reversedBar' = reversedBar
<1>1. row' = row /\ entries' = entries /\ today' = today
  BY DEF tables
<1>2. balanceBar' = balanceBar /\ reversedBar' = reversedBar
  BY <1>1 DEF balanceBar, reversedBar, AlreadyReversed
<1>3. spentBar' = spentBar /\ effectBar' = effectBar
  BY <1>1 DEF Shown
<1>. QED BY <1>2, <1>3

LEMMA BankStutters ==
  ASSUME Shown, Shown', UNCHANGED <<tables, today>>,
         \A q \in Requests : Outcome(q)' = Outcome(q) /\ (Overnight(q)' <=> Overnight(q))
  PROVE  UNCHANGED B!vars
<1>1. outcomeBar' = outcomeBar /\ overnightBar' = overnightBar
  BY DEF outcomeBar, overnightBar
<1>. QED BY <1>1, TablesShown DEF B!vars

LEMMA BankRefuses ==
  ASSUME TypeOK, Shown, Shown', UNCHANGED <<tables, began, today>>, NEW p \in Requests,
         pc[p] \in {"idle", "locking", "posting"}, pc'[p] \in {"refused", "crashed"},
         \A q \in Requests \ {p} : pc'[q] = pc[q]
  PROVE  B!Refuse(p)
<1>1. Outcome(p) = "pending" /\ Outcome(p)' = "refused"
  BY DEF Outcome
<1>2. \A q \in Requests \ {p} : Outcome(q)' = Outcome(q)
  BY DEF Outcome
<1>3. outcomeBar[p] = "pending" /\ outcomeBar' = [outcomeBar EXCEPT ![p] = "refused"]
  BY <1>1, <1>2 DEF outcomeBar
<1>4. overnightBar' = overnightBar \ {p}
  BY DEF overnightBar, Overnight
<1>. QED BY <1>3, <1>4, TablesShown DEF B!Refuse

\* A commit takes effect at once, and does what its call is to do.
LEMMA BankTakes ==
  ASSUME TypeOK, NeverOverdrawn', HeldInv, WholeInv, AtomicInv, Shown, Shown',
         NEW p \in Requests, Commit(p)
  PROVE  /\ B!Takes(p, Delta(call[p]))
         /\ spentBar' = [a \in Accounts |-> spentBar[a] + Counting(p)[a]]
<1>. DEFINE does(a) == Delta(call[p])[a]
            counts(a) == Spends(call[p])[a]
            adds(a) == IF Overnight(p) THEN 0 ELSE counts(a)
<1>1. /\ pc[p] = "posting" /\ todo[p] = {} /\ Moving(p) /\ pc' = [pc EXCEPT ![p] = "publishing"]
      /\ today' = today /\ today \in Nat /\ began' = began /\ began[p] \in Nat
      /\ \A a \in Accounts :
           /\ entries'[a] = entries[a] \o drafts[p][a]
           /\ entries[a] \in Seq(Entry) /\ drafts[p][a] \in Seq(Entry)
           /\ row'[a].balance = IF lock[a] = p THEN copy[p][a].balance ELSE row[a].balance
  BY DEF Commit, IsComplete, Leave, Moving, outside, TypeOK, Row
<1>2. Ready(p) /\ Held(p) /\ Whole(p) /\ Accounted(p) /\ Positions(p) = {}
  BY <1>1 DEF AtomicInv, HeldInv, WholeInv, Ready, Whole, Settled
<1>3. ASSUME NEW a \in Accounts
      PROVE  /\ Tally(AmountOf(p), drafts[p][a]) = does(a) /\ does(a) \in Int
             /\ SpentOf(drafts[p][a], began[p]) = counts(a) /\ counts(a) \in Int
  <2>1. /\ Tally(AmountOf(p), drafts[p][a]) + Total(MovesOn(a), todo[p]) = does(a)
        /\ SpentOf(drafts[p][a], began[p]) + Total(SpendsOn(a), todo[p]) = counts(a)
    BY <1>2 DEF Accounted
  <2>2. Total(MovesOn(a), todo[p]) = 0 /\ Total(SpendsOn(a), todo[p]) = 0
    BY <1>1, TotalNone
  <2>3. Tally(AmountOf(p), drafts[p][a]) \in Int /\ SpentOf(drafts[p][a], began[p]) \in Int
    BY <1>1, AmountsWeigh, TallyInt, SpentInt
  <2>. QED BY <2>1, <2>2, <2>3
<1>4. DOMAIN Delta(call[p]) = Accounts /\ Delta(call[p]) = [a \in Accounts |-> does(a)]
  BY DEF Delta
<1>. HIDE DEF does, counts
\* What is dated with an earlier day counts no more.
<1>5. ASSUME NEW a \in Accounts
      PROVE  SpentOf(drafts[p][a], today) = adds(a) /\ adds(a) \in Int
  <2>1. CASE began[p] < today
    <3>1. \A i \in DOMAIN drafts[p][a] : drafts[p][a][i] \in Entry /\ drafts[p][a][i].day = began[p]
      <4>1. \A i \in DOMAIN drafts[p][a] : drafts[p][a][i] \in Entry
        BY DEF TypeOK
      <4>. QED BY <1>2, <4>1 DEF Ready, Marked
    <3>2. \A i \in DOMAIN drafts[p][a] : Counts(drafts[p][a][i], today) = 0
      BY <1>1, <2>1, <3>1 DEF Counts, CountsToLimit
    <3>3. \A i \in DOMAIN drafts[p][a] : CountsSince(today)[drafts[p][a][i]] = 0
      BY <3>1, <3>2, CountsWeigh
    <3>4. Overnight(p)
      BY <1>1, <2>1 DEF Overnight
    <3>5. adds(a) = 0
      BY <3>4
    <3>6. Weight(CountsSince(today)) /\ drafts[p][a] \in Seq(Entry)
      BY <1>1, CountsWeigh
    <3>7. SpentOf(drafts[p][a], today) = 0
      BY <3>3, <3>6, TallyZero DEF SpentOf
    <3>. QED BY <3>5, <3>7
  <2>2. CASE ~(began[p] < today)
    <3>1. began[p] = today
      BY <1>1, <1>2, <2>2 DEF Ready
    <3>2. ~Overnight(p)
      BY <2>2 DEF Overnight
    <3>. QED BY <1>3, <3>1, <3>2
  <2>. QED BY <2>1, <2>2
<1>. HIDE DEF adds
<1>6. ASSUME NEW a \in Accounts PROVE row'[a].balance = row[a].balance + does(a)
  <2>1. CASE lock[a] = p
    <3>1. copy[p][a].balance = row[a].balance + Tally(AmountOf(p), drafts[p][a])
      BY <1>2, <2>1 DEF Ready, Ahead
    <3>. QED BY <1>1, <1>3, <2>1, <3>1
  <2>2. CASE lock[a] # p
    <3>1. drafts[p][a] = <<>> /\ row[a].balance \in Int
      BY <1>2, <2>2 DEF Held, TypeOK, Row
    <3>2. does(a) = 0
      BY <1>3, <3>1, TallyNone
    <3>3. row'[a].balance = row[a].balance
      BY <1>1, <2>2
    <3>. QED BY <3>1, <3>2, <3>3
  <2>. QED BY <2>1, <2>2
<1>7. balanceBar' = [a \in Accounts |-> balanceBar[a] + Delta(call[p])[a]]
  BY <1>6 DEF balanceBar, does
<1>8. \A a \in Accounts : balanceBar'[a] >= 0
  BY DEF NeverOverdrawn, balanceBar
<1>9. ASSUME NEW a \in Accounts
      PROVE  /\ SpentOf(entries'[a], today') = SpentOf(entries[a], today) + adds(a)
             /\ \A q \in Requests : Tally(AmountOf(q), entries'[a])
                  = IF q = p THEN does(a) ELSE Tally(AmountOf(q), entries[a])
  <2>1. SpentOf(entries'[a], today') = SpentOf(entries[a], today) + adds(a)
    <3>1. SpentOf(entries[a] \o drafts[p][a], today)
            = SpentOf(entries[a], today) + SpentOf(drafts[p][a], today)
      BY <1>1, SpentConcat
    <3>. QED BY <1>1, <1>5, <3>1
  <2>2. ASSUME NEW q \in Requests
        PROVE  Tally(AmountOf(q), entries'[a])
                 = IF q = p THEN does(a) ELSE Tally(AmountOf(q), entries[a])
    <3>1. /\ Tally(AmountOf(q), entries'[a])
               = Tally(AmountOf(q), entries[a]) + Tally(AmountOf(q), drafts[p][a])
          /\ Tally(AmountOf(q), entries[a]) \in Int /\ Tally(AmountOf(q), drafts[p][a]) \in Int
      <4>1. Tally(AmountOf(q), entries[a] \o drafts[p][a])
              = Tally(AmountOf(q), entries[a]) + Tally(AmountOf(q), drafts[p][a])
        BY <1>1, AmountsWeigh, TallyConcat
      <4>2. Tally(AmountOf(q), entries[a]) \in Int /\ Tally(AmountOf(q), drafts[p][a]) \in Int
        BY <1>1, AmountsWeigh, TallyInt
      <4>3. entries'[a] = entries[a] \o drafts[p][a]
        BY <1>1
      <4>. QED BY <4>1, <4>2, <4>3, Zenon
    <3>2. CASE q = p
      <4>1. \A i \in DOMAIN entries[a] : entries[a][i] \in Entry /\ entries[a][i].ref # p
        <5>1. \A i \in DOMAIN entries[a] : entries[a][i] \in Entry
          BY DEF TypeOK
        <5>2. \A i \in DOMAIN entries[a] : entries[a][i].ref = p => <<a, i>> \in Positions(p)
          BY PositionsAre
        <5>. QED BY <1>2, <5>1, <5>2
      <4>2. \A i \in DOMAIN entries[a] : AmountOf(p)[entries[a][i]] = 0
        BY <4>1, AmountsWeigh
      <4>3. Tally(AmountOf(p), entries[a]) = 0
        BY <1>1, <4>2, AmountsWeigh, TallyZero
      <4>4. Tally(AmountOf(p), drafts[p][a]) = does(a) /\ does(a) \in Int
        BY <1>3
      <4>5. Tally(AmountOf(p), entries'[a])
              = Tally(AmountOf(p), entries[a]) + Tally(AmountOf(p), drafts[p][a])
        BY <3>1, <3>2
      <4>6. Tally(AmountOf(p), entries'[a]) = does(a)
        BY <4>3, <4>4, <4>5
      <4>. QED BY <3>2, <4>6
    <3>3. CASE q # p
      <4>1. \A i \in DOMAIN drafts[p][a] : drafts[p][a][i] \in Entry /\ drafts[p][a][i].ref = p
        <5>1. \A i \in DOMAIN drafts[p][a] : drafts[p][a][i] \in Entry
          BY DEF TypeOK
        <5>. QED BY <1>2, <5>1 DEF Whole
      <4>2. \A i \in DOMAIN drafts[p][a] : AmountOf(q)[drafts[p][a][i]] = 0
        BY <3>3, <4>1, AmountsWeigh
      <4>3. Tally(AmountOf(q), drafts[p][a]) = 0
        BY <1>1, <4>2, AmountsWeigh, TallyZero
      <4>. QED BY <3>1, <3>3, <4>3
    <3>. QED BY <3>2, <3>3
  <2>. QED BY <2>1, <2>2
<1>10. spentBar' = [a \in Accounts |-> spentBar[a] + Counting(p)[a]]
  BY <1>9 DEF Shown, Counting, adds, counts
<1>11. effectBar' = [effectBar EXCEPT ![p] = Delta(call[p])]
  <2>1. effectBar' = [q \in Requests |-> [a \in Accounts |->
          IF q = p THEN does(a) ELSE Tally(AmountOf(q), entries[a])]]
    BY <1>9 DEF Shown
  <2>2. effectBar = [q \in Requests |-> [a \in Accounts |-> Tally(AmountOf(q), entries[a])]]
    BY DEF Shown
  <2>3. \A q \in Requests : effectBar'[q] = IF q = p THEN Delta(call[p]) ELSE effectBar[q]
    BY <1>4, <2>1, <2>2
  <2>. QED BY <2>1, <2>2, <2>3
<1>12. /\ outcomeBar[p] = "pending"
       /\ outcomeBar' = [outcomeBar EXCEPT ![p] = "done"]
  <2>1. pc'[p] = "publishing" /\ \A q \in Requests \ {p} : pc'[q] = pc[q]
    BY <1>1 DEF TypeOK
  <2>2. Outcome(p) = "pending" /\ Outcome(p)' = "done"
    BY <1>1, <2>1 DEF Outcome
  <2>3. \A q \in Requests \ {p} : Outcome(q)' = Outcome(q)
    BY <2>1 DEF Outcome
  <2>. QED BY <2>2, <2>3 DEF outcomeBar
<1>13. overnightBar' = overnightBar \ {p}
  <2>1. pc'[p] = "publishing" /\ \A q \in Requests \ {p} : pc'[q] = pc[q]
    BY <1>1 DEF TypeOK
  <2>. QED BY <1>1, <2>1 DEF overnightBar, Overnight
<1>. QED BY <1>7, <1>8, <1>10, <1>11, <1>12, <1>13 DEF B!Takes

\* What a commit adds to an account is a draft of it.
LEMMA CommitAdds ==
  ASSUME TypeOK, NEW p \in Requests, Commit(p), NEW a \in Accounts, NEW i \in DOMAIN entries'[a]
  PROVE  \/ i \in DOMAIN entries[a] /\ entries'[a][i] = entries[a][i]
         \/ \E k \in DOMAIN drafts[p][a] : entries'[a][i] = drafts[p][a][k]
<1>1. CASE i \in DOMAIN entries[a]
  BY <1>1, CommitEntries
<1>2. CASE i \notin DOMAIN entries[a]
  <2>1. PICK k \in DOMAIN drafts[p][a] : i = Len(entries[a]) + k
    BY <1>2, CommitEntries
  <2>2. entries'[a][i] = drafts[p][a][k]
    BY <2>1, CommitEntries
  <2>. QED BY <2>2
<1>. QED BY <1>1, <1>2

\* Deposits, withdrawals and transfers take nothing back.
LEMMA NothingReversed ==
  ASSUME TypeOK, AtomicInv, NEW p \in Requests, Commit(p), call[p].op # "reverse"
  PROVE  reversedBar' = reversedBar
<1>1. Marked(p)
  BY DEF AtomicInv, Ready
<1>2. ASSUME NEW q \in Requests, AlreadyReversed(q) PROVE AlreadyReversed(q)'
  <2>1. PICK a \in Accounts : \E i \in DOMAIN entries[a] :
          entries[a][i].type = "REVERSAL" /\ entries[a][i].of = q
    BY <1>2 DEF AlreadyReversed
  <2>2. PICK i \in DOMAIN entries[a] : entries[a][i].type = "REVERSAL" /\ entries[a][i].of = q
    BY <2>1
  <2>3. i \in DOMAIN entries'[a] /\ entries'[a][i] = entries[a][i]
    BY CommitEntries
  <2>. QED BY <2>2, <2>3 DEF AlreadyReversed
<1>3. ASSUME NEW q \in Requests, AlreadyReversed(q)' PROVE AlreadyReversed(q)
  <2>1. PICK a \in Accounts : \E i \in DOMAIN entries'[a] :
          entries'[a][i].type = "REVERSAL" /\ entries'[a][i].of = q
    BY <1>3 DEF AlreadyReversed
  <2>2. PICK i \in DOMAIN entries'[a] : entries'[a][i].type = "REVERSAL" /\ entries'[a][i].of = q
    BY <2>1
  <2>3. i \in DOMAIN entries[a] /\ entries'[a][i] = entries[a][i]
    BY <1>1, <2>2, CommitAdds DEF Marked
  <2>. QED BY <2>2, <2>3 DEF AlreadyReversed
<1>. QED BY <1>2, <1>3 DEF reversedBar

\* With one reverser, a reversal is the first, and takes back its reference
\* alone.
LEMMA OneReversed ==
  ASSUME SingleReverser, TypeOK, WholeInv, AtomicInv, NEW p \in Requests, Commit(p),
         call[p].op = "reverse"
  PROVE  LET q == call[p].of
         IN  /\ q \in Requests \ reversedBar /\ outcomeBar[q] = "done"
             /\ reversedBar' = reversedBar \cup {q}
<1>. DEFINE q == call[p].of
<1>1. /\ pc[p] = "posting" /\ todo[p] = {} /\ Moving(p)
      /\ Whole(p) /\ Ready(p) /\ Marked(p) /\ call[p].op \in Roles[p]
  BY DEF Commit, IsComplete, Moving, AtomicInv, WholeInv, Ready
<1>2. q \in Requests /\ Positions(q) # {}
  BY <1>1 DEF Whole, Referred
<1>3. outcomeBar[q] = "done"
  <2>1. Settled(q)
    BY <1>2 DEF WholeInv, Whole
  <2>. QED BY <1>2, <2>1 DEF Settled, outcomeBar, Outcome
<1>4. ASSUME NEW a \in Accounts, NEW i \in DOMAIN entries[a] PROVE entries[a][i].type # "REVERSAL"
  <2>1. SUFFICES ASSUME entries[a][i].type = "REVERSAL" PROVE FALSE
    OBVIOUS
  <2>. DEFINE r == entries[a][i].ref
  <2>2. r \in Requests /\ call[r].op = "reverse"
    BY <2>1 DEF AtomicInv
  <2>3. Positions(r) # {}
    BY PositionsAre
  <2>4. pc[r] \in {"publishing", "done", "lost"} /\ Ready(r)
    BY <2>2, <2>3 DEF WholeInv, Whole, Settled, AtomicInv
  <2>5. "reverse" \in Roles[r] /\ "reverse" \in Roles[p]
    BY <1>1, <2>2, <2>4 DEF Ready
  <2>6. r = p
    BY <2>2, <2>5 DEF SingleReverser
  <2>. QED BY <1>1, <2>4, <2>6
<1>5. reversedBar = {}
  BY <1>4 DEF reversedBar, AlreadyReversed
<1>6. ASSUME NEW r \in Requests, r = q PROVE AlreadyReversed(r)'
  <2>1. PICK t \in Postings(call[p]) : TRUE
    <3>1. PICK x \in Positions(q) : TRUE
      BY <1>2
    <3>2. Postings(call[p]) = {Posted(y[1], y[2], -entries[y[1]][y[2]].amount, "REVERSAL") :
                                 y \in Positions(q)}
      BY DEF Postings
    <3>. QED BY <3>1, <3>2
  <2>2. PICK k \in DOMAIN drafts[p][t.account] : TRUE
    BY <1>1, <2>1 DEF Whole, Owed, Drafted
  <2>3. t.account \in Accounts
    <3>1. call[p] \in Calls
      BY <1>1 DEF Ready
    <3>. QED BY <2>1, <3>1, PostingsType DEF Posting
  <2>4. drafts[p][t.account][k].type = "REVERSAL" /\ drafts[p][t.account][k].of = q
    BY <1>1, <2>2, <2>3 DEF Marked
  <2>5. PICK i \in DOMAIN entries'[t.account] : entries'[t.account][i] = drafts[p][t.account][k]
    BY <2>2, <2>3, CommitEntries
  <2>. QED BY <1>6, <2>3, <2>4, <2>5 DEF AlreadyReversed
<1>7. ASSUME NEW r \in Requests, AlreadyReversed(r)' PROVE r = q
  <2>1. PICK a \in Accounts : \E i \in DOMAIN entries'[a] :
          entries'[a][i].type = "REVERSAL" /\ entries'[a][i].of = r
    BY <1>7 DEF AlreadyReversed
  <2>2. PICK i \in DOMAIN entries'[a] : entries'[a][i].type = "REVERSAL" /\ entries'[a][i].of = r
    BY <2>1
  <2>3. PICK k \in DOMAIN drafts[p][a] : entries'[a][i] = drafts[p][a][k]
    BY <1>4, <2>2, CommitAdds
  <2>. QED BY <1>1, <2>2, <2>3 DEF Marked
<1>8. reversedBar' = {q}
  BY <1>2, <1>6, <1>7 DEF reversedBar
<1>. QED BY <1>2, <1>3, <1>5, <1>8

\* Each commit is a step of the Bank.
LEMMA CommitIsAtomic ==
  ASSUME SingleReverser, TypeOK, NeverOverdrawn', FundsInv, HeldInv, WholeInv, AtomicInv,
         Shown, Shown', NEW p \in Requests, Commit(p)
  PROVE  B!Next
<1>. DEFINE c == call[p]
<1>1. /\ pc[p] = "posting" /\ Ready(p) /\ Checked(p) /\ Planned(p) /\ Moving(p)
      /\ c \in Calls /\ c.op \in Roles[p]
  BY DEF Commit, IsComplete, AtomicInv, Ready, FundsInv, Moving
<1>2. /\ B!Takes(p, Delta(c))
      /\ spentBar' = [a \in Accounts |-> spentBar[a] + Counting(p)[a]]
  BY BankTakes
<1>3. ASSUME NEW a \in Accounts
      PROVE  spentBar[a] = SpentOf(entries[a], today) /\ spentBar[a] \in Int
  BY <1>1, SpentInt DEF Shown, TypeOK
<1>4. /\ spentBar = [a \in Accounts |-> spentBar[a]]
      /\ p \in overnightBar <=> Overnight(p)
      /\ \A a \in Accounts : Counting(p)[a] = IF p \in overnightBar THEN 0 ELSE Spends(c)[a]
  BY DEF spentBar, overnightBar, Counting
<1>. HIDE DEF c
<1>5. CASE c.op = "deposit"
  <2>1. c \in DepositCalls /\ c.to \in Opened /\ CanDeposit(OpeningStatus[c.to])
        /\ c.amount \in Amounts \ {0}
    BY <1>1, <1>5, CallShape DEF Checked, MayGet, DepositCalls, c
  <2>2. /\ Delta(c) = [b \in Accounts |-> IF b = c.to THEN c.amount ELSE 0]
        /\ Spends(c) = [b \in Accounts |-> 0]
    BY <2>1, DepositDelta
  <2>3. spentBar' = spentBar
    BY <1>2, <1>3, <1>4, <2>2
  <2>4. reversedBar' = reversedBar
    BY <1>5, NothingReversed DEF c
  <2>5. B!CanDeposit(OpeningStatus[c.to])
    BY <2>1 DEF CanDeposit, B!CanDeposit
  <2>6. B!Deposit(p)
    BY <1>1, <1>2, <1>5, <2>1, <2>2, <2>3, <2>4, <2>5 DEF B!Deposit
  <2>. QED BY <2>6 DEF B!Next
<1>6. CASE c.op = "withdraw"
  <2>1. /\ c \in WithdrawCalls /\ c.from \in Accounts /\ c.amount \in Nat
        /\ c.amount \in Amounts \ {0} /\ MayPay(p, c.from, c.amount)
    BY <1>1, <1>6, CallShape, LedgerAssumption DEF Checked, WithdrawCalls, c
  <2>2. /\ Delta(c) = [b \in Accounts |-> IF b = c.from THEN -c.amount ELSE 0]
        /\ Spends(c) = [b \in Accounts |-> IF b = c.from THEN c.amount ELSE 0]
    BY <2>1, WithdrawDelta
  <2>3. B!Spends(p, c.from, c.amount)
    BY <1>2, <1>3, <1>4, <2>1, <2>2 DEF B!Spends
  <2>4. reversedBar' = reversedBar
    BY <1>6, NothingReversed DEF c
  <2>5. /\ B!CanWithdraw(OpeningStatus[c.from]) /\ c.from \in Opened
        /\ spentBar[c.from] + c.amount <= Limit[c.from]
    BY <1>3, <2>1 DEF MayPay, CanWithdraw, B!CanWithdraw
  <2>6. B!Withdraw(p)
    BY <1>1, <1>2, <1>6, <2>1, <2>2, <2>3, <2>4, <2>5 DEF B!Withdraw
  <2>. QED BY <2>6 DEF B!Next
<1>7. CASE c.op = "transfer"
  <2>1. /\ c \in TransferCalls /\ c.from \in Accounts /\ c.amount \in Nat /\ c.fee \in Nat
        /\ c.amount \in Amounts \ {0} /\ c.fee \in Fees
        /\ Currency[c.from] = Currency[c.to] /\ c.from # c.to
        /\ MayPay(p, c.from, c.amount + c.fee) /\ MayGet(c.to)
    BY <1>1, <1>7, CallShape, LedgerAssumption DEF Checked, Planned, TransferCalls, c
  <2>2. /\ Delta(c) = [b \in Accounts |-> CASE b = c.from -> -(c.amount + c.fee)
                                            [] b = c.to -> c.amount
                                            [] OTHER -> 0]
        /\ Spends(c) = [b \in Accounts |-> IF b = c.from THEN c.amount ELSE 0]
    BY <2>1, TransferDelta
  <2>3. B!Spends(p, c.from, c.amount)
    BY <1>2, <1>3, <1>4, <2>1, <2>2 DEF B!Spends
  <2>4. reversedBar' = reversedBar
    BY <1>7, NothingReversed DEF c
  <2>5. /\ B!CanWithdraw(OpeningStatus[c.from]) /\ c.from \in Opened
        /\ spentBar[c.from] + c.amount + c.fee <= Limit[c.from]
    <3>1. /\ CanWithdraw(OpeningStatus[c.from]) /\ c.from \in Opened
          /\ SpentOf(entries[c.from], today) + (c.amount + c.fee) <= Limit[c.from]
      BY <2>1 DEF MayPay
    <3>2. /\ spentBar[c.from] = SpentOf(entries[c.from], today) /\ spentBar[c.from] \in Int
          /\ Limit[c.from] \in Nat
      BY <1>3, <2>1, LedgerAssumption
    <3>3. spentBar[c.from] + c.amount + c.fee <= Limit[c.from]
      BY <2>1, <3>1, <3>2
    <3>. QED BY <3>1, <3>3 DEF CanWithdraw, B!CanWithdraw
  <2>6. B!CanDeposit(OpeningStatus[c.to]) /\ c.to \in Opened
    BY <2>1 DEF MayGet, CanDeposit, B!CanDeposit
  <2>7. B!Transfer(p)
    <3>1. B!Takes(p, [b \in Accounts |-> CASE b = c.from -> -(c.amount + c.fee)
                                           [] b = c.to -> c.amount
                                           [] OTHER -> 0])
      BY <1>2, <2>2
    <3>2. "transfer" \in Roles[p]
      BY <1>1, <1>7
    <3>. HIDE DEF c
    <3>. QED BY <2>1, <2>3, <2>4, <2>5, <2>6, <3>1, <3>2 DEF B!Transfer
  <2>. QED BY <2>7 DEF B!Next
<1>8. CASE c.op = "reverse"
  <2>. DEFINE q == c.of
  <2>1. c \in ReverseCalls
    BY <1>1, <1>8, CallShape
  <2>2. /\ Delta(c) = [b \in Accounts |-> -Tally(AmountOf(q), entries[b])]
        /\ Spends(c) = [b \in Accounts |-> 0]
    BY <2>1, ReverseDelta
  <2>3. spentBar' = spentBar
    BY <1>2, <1>3, <1>4, <2>2
  <2>4. /\ q \in Requests \ reversedBar /\ outcomeBar[q] = "done"
        /\ reversedBar' = reversedBar \cup {q}
    BY <1>8, OneReversed DEF c
  <2>5. Delta(c) = [b \in Accounts |-> -effectBar[q][b]]
    BY <2>2, <2>4 DEF Shown
  <2>. HIDE DEF q
  <2>6. B!Reverse(p)
    BY <1>1, <1>2, <1>8, <2>3, <2>4, <2>5 DEF B!Reverse
  <2>. QED BY <2>6 DEF B!Next
<1>9. c.op \in {"deposit", "withdraw", "transfer", "reverse"}
  BY <1>1 DEF Planned, c
<1>. QED BY <1>5, <1>6, <1>7, <1>8, <1>9

\* At midnight the Bank's counting starts again: no entry is of the new day yet.
LEMMA MidnightShown ==
  ASSUME TypeOK, AtomicInv, Shown, Shown', Midnight
  PROVE  B!Midnight
<1>1. /\ row' = row /\ entries' = entries /\ pc' = pc /\ began' = began
      /\ today \in Nat /\ today' = today + 1
  BY DEF Midnight, tables, TypeOK
<1>2. ASSUME NEW a \in Accounts PROVE SpentOf(entries'[a], today') = 0
  <2>1. entries[a] \in Seq(Entry) /\ \A i \in DOMAIN entries[a] : entries[a][i] \in Entry
    BY DEF TypeOK
  <2>2. \A i \in DOMAIN entries[a] : Counts(entries[a][i], today') = 0
    <3>1. ASSUME NEW i \in DOMAIN entries[a] PROVE Counts(entries[a][i], today') = 0
      <4>1. entries[a][i].day <= today /\ entries[a][i].day \in Nat
        BY <2>1 DEF AtomicInv, Entry
      <4>. QED BY <1>1, <4>1 DEF Counts, CountsToLimit
    <3>. QED BY <3>1
  <2>3. \A i \in DOMAIN entries[a] : CountsSince(today')[entries[a][i]] = 0
    BY <2>1, <2>2, CountsWeigh
  <2>. QED BY <1>1, <2>1, <2>3, CountsWeigh, TallyZero DEF SpentOf
<1>3. spentBar' = [a \in Accounts |-> 0] /\ effectBar' = effectBar
  BY <1>1, <1>2 DEF Shown
<1>4. balanceBar' = balanceBar /\ outcomeBar' = outcomeBar /\ reversedBar' = reversedBar
  BY <1>1 DEF balanceBar, outcomeBar, Outcome, reversedBar, AlreadyReversed
<1>5. overnightBar \subseteq overnightBar'
  <2>1. \A p \in Requests : began[p] \in Nat
    BY DEF TypeOK
  <2>. QED BY <1>1, <2>1 DEF overnightBar, Overnight
<1>6. overnightBar' \in SUBSET {p \in Requests : outcomeBar[p] = "pending"}
  BY <1>1 DEF overnightBar, Overnight, outcomeBar, Outcome
<1>. QED BY <1>3, <1>4, <1>5, <1>6 DEF B!Midnight

\* Every step of the ledger is a step of the Bank or none.
LEMMA NextBank ==
  ASSUME NoStatusCalls, SingleReverser,
         TypeOK, NeverOverdrawn', FundsInv, HeldInv, WholeInv, AtomicInv, Shown, Shown',
         [Next]_vars
  PROVE  B!Next \/ UNCHANGED B!vars
<1>1. \A p \in Requests : pc[p] \notin {"saving", "updating"}
  BY DEF AtomicInv, Ready
<1>2. ASSUME NEW p \in Requests, Rollback(p, "refused") \/ Rollback(p, "crashed"),
             pc[p] \in {"locking", "posting"}
      PROVE  B!Next
  <2>1. /\ UNCHANGED <<tables, began, today>> /\ pc'[p] \in {"refused", "crashed"}
        /\ \A q \in Requests \ {p} : pc'[q] = pc[q]
    BY <1>2 DEF Rollback, Leave, outside, TypeOK
  <2>2. B!Refuse(p)
    BY <1>2, <2>1, BankRefuses
  <2>. QED BY <2>2 DEF B!Next
<1>3. ASSUME NEW p \in Requests, NEW c \in Calls, BeginLedger(p, c)
      PROVE  B!Next \/ UNCHANGED B!vars
  <2>1. /\ pc[p] = "idle" /\ UNCHANGED <<tables, today>> /\ today \in Nat
        /\ \/ pc'[p] = "refused" /\ UNCHANGED began
           \/ pc'[p] = "locking" /\ began'[p] = today
        /\ \A q \in Requests \ {p} : pc'[q] = pc[q] /\ began'[q] = began[q]
    BY <1>3 DEF BeginLedger, Turned, outside, TypeOK
  <2>2. CASE pc'[p] = "refused"
    <3>1. B!Refuse(p)
      BY <2>1, <2>2, BankRefuses
    <3>. QED BY <3>1 DEF B!Next
  <2>3. CASE pc'[p] = "locking"
    <3>1. \A q \in Requests : Outcome(q)' = Outcome(q) /\ (Overnight(q)' <=> Overnight(q))
      BY <2>1, <2>3 DEF Outcome, Overnight
    <3>. QED BY <2>1, <3>1, BankStutters
  <2>. QED BY <2>1, <2>2, <2>3
<1>4. ASSUME NEW p \in Requests, Advance(p)
      PROVE  B!Next \/ UNCHANGED B!vars
  <2>1. ASSUME NEW a \in Accounts, LockAccount(p, a) PROVE UNCHANGED B!vars
    <3>1. /\ UNCHANGED <<tables, today>>
          /\ \A q \in Requests : Outcome(q)' = Outcome(q) /\ (Overnight(q)' <=> Overnight(q))
      BY <2>1 DEF LockAccount, outside, Outcome, Overnight
    <3>. QED BY <3>1, BankStutters
  <2>2. ASSUME NEW a \in Accounts, AccountNotFound(p, a) PROVE B!Next
    BY <1>2, <2>2 DEF AccountNotFound
  <2>3. CASE Validate(p)
    <3>1. CASE ~Accepts(p)
      BY <1>2, <2>3, <3>1 DEF Validate
    <3>2. CASE Accepts(p)
      <4>1. /\ UNCHANGED <<tables, began, today>> /\ pc[p] = "locking" /\ pc'[p] = "posting"
            /\ \A q \in Requests \ {p} : pc'[q] = pc[q]
        BY <2>3, <3>2 DEF Validate, outside, TypeOK
      <4>2. \A q \in Requests : Outcome(q)' = Outcome(q) /\ (Overnight(q)' <=> Overnight(q))
        BY <4>1 DEF Outcome, Overnight
      <4>. QED BY <4>1, <4>2, BankStutters
    <3>. QED BY <3>1, <3>2
  <2>4. ASSUME NEW t \in todo[p], Post(p, t) PROVE UNCHANGED B!vars
    <3>1. /\ UNCHANGED <<tables, today>>
          /\ \A q \in Requests : Outcome(q)' = Outcome(q) /\ (Overnight(q)' <=> Overnight(q))
      BY <2>4 DEF Post, outside, Outcome, Overnight
    <3>. QED BY <3>1, BankStutters
  <2>5. ASSUME NEW t \in todo[p], RefuseReversal(p, t) PROVE B!Next
    BY <1>2, <2>5 DEF RefuseReversal
  <2>6. ASSUME NEW e \in events[p], Publish(p, e) PROVE UNCHANGED B!vars
    <3>1. /\ UNCHANGED <<tables, began, today>> /\ pc[p] = "publishing"
          /\ pc'[p] \in {"publishing", "done"} /\ \A q \in Requests \ {p} : pc'[q] = pc[q]
      BY <2>6 DEF Publish, MayPublish, TypeOK
    <3>2. \A q \in Requests : Outcome(q)' = Outcome(q) /\ (Overnight(q)' <=> Overnight(q))
      BY <3>1 DEF Outcome, Overnight
    <3>. QED BY <3>1, <3>2, BankStutters
  <2>7. ~ReloadForSave(p) /\ ~UpdateRow(p)
    BY <1>1 DEF ReloadForSave, UpdateRow
  <2>. QED BY <1>4, <2>1, <2>2, <2>3, <2>4, <2>5, <2>6, <2>7, CommitIsAtomic DEF Advance
<1>5. ASSUME NEW p \in Requests, Crash(p)
      PROVE  B!Next \/ UNCHANGED B!vars
  <2>1. CASE pc[p] = "publishing"
    <3>1. /\ UNCHANGED <<tables, began, today>> /\ pc'[p] = "lost"
          /\ \A q \in Requests \ {p} : pc'[q] = pc[q]
      BY <1>5, <2>1 DEF Crash, Rollback, Leave, outside, TypeOK
    <3>2. \A q \in Requests : Outcome(q)' = Outcome(q) /\ (Overnight(q)' <=> Overnight(q))
      BY <2>1, <3>1 DEF Outcome, Overnight
    <3>. QED BY <3>1, <3>2, BankStutters
  <2>2. CASE pc[p] # "publishing"
    <3>1. pc[p] \in {"locking", "posting"} /\ Rollback(p, "crashed")
      BY <1>1, <1>5, <2>2 DEF Crash, Running
    <3>. QED BY <1>2, <3>1
  <2>. QED BY <2>1, <2>2
<1>6. CASE Finished \/ UNCHANGED vars
  <2>1. /\ UNCHANGED <<tables, today>>
        /\ \A q \in Requests : Outcome(q)' = Outcome(q) /\ (Overnight(q)' <=> Overnight(q))
    BY <1>6 DEF Finished, vars, tables, Outcome, Overnight
  <2>. QED BY <2>1, BankStutters
<1>7. ASSUME Midnight PROVE B!Next
  BY <1>7, MidnightShown DEF B!Next
<1>8. ASSUME NEW p \in Requests, Begin(p)
      PROVE  B!Next \/ UNCHANGED B!vars
  BY <1>3, <1>8 DEF Begin, FindForStatus, NoStatusCalls
<1>. QED BY <1>4, <1>5, <1>6, <1>7, <1>8 DEF Next

\* While no status calls run and one request at most reverses, the locking ledger
\* of ledger.service.ts implements the Bank: lock waits, rollbacks, crashes and
\* midnights interleave deposits, withdrawals, transfers and a reversal as if each
\* took effect in one step, whole, at its commit.
THEOREM LedgerImplementsBank ==
  ASSUME NoStatusCalls, SingleReverser
  PROVE  Spec => LedgerIsAtomic
<1>1. /\ TypeOK /\ LockInv /\ FundsInv /\ HeldInv /\ WholeInv /\ LimitInv /\ AtomicInv
      /\ [Next]_vars
      => AtomicInv'
  BY NextAtomic
<1>2. FundsInv => NeverOverdrawn
  BY DEF FundsInv
<1>3. /\ TypeOK /\ NeverOverdrawn' /\ FundsInv /\ HeldInv /\ WholeInv /\ AtomicInv
      /\ Shown /\ Shown' /\ [Next]_vars
      => [B!Next]_(B!vars)
  BY NextBank
<1>4. Init => LockInv
  BY LedgerAssumption DEF Init, LockInv, LocksInTransaction, LocksOrdered
<1>5. Init => FundsInv
  BY LedgerAssumption DEF Init, FundsInv, NeverOverdrawn, Blank, Planned, Funded, Moving
<1>. QED BY <1>1, <1>2, <1>3, <1>4, <1>5, InitHeld, InitWhole, InitLimit, InitAtomic, InitBank,
            HistoriesShown, TypeCorrect, NextLocks, NextFunds, NextHeld, NextWhole, NextLimit,
            PTL DEF Spec, LedgerIsAtomic, B!Spec
=============================================================================
