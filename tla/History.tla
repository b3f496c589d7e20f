------------------------------ MODULE History -------------------------------
(***************************************************************************)
(* Reading an account's entries page by page: LedgerHistoryIterator and    *)
(* its Postgres fetcher, and the statement made of what it hands out       *)
(* (statements.controller.ts, statement.bridge.ts).                        *)
(*                                                                         *)
(* A driver Date keeps milliseconds, so the cursor is older than the entry *)
(* it was taken from whenever that has a fraction of a millisecond.        *)
(***************************************************************************)
EXTENDS Book

CONSTANTS
  Readers,    \* statement and export requests
  PageSize

\* The id 0 stands for no entry.
ASSUME HistoryAssumption == PageSize \in Nat \ {0} /\ 0 \notin Ids

VARIABLE reader  \* each request: pc, account, balance, cursor, lines, committed

NoCursor == [stamp |-> -1, id |-> -1]

\* lines counts how often each entry was handed out, up to twice; committed
\* (not kept by the code) are the entries there were when the reading began.
ReaderTypeOK ==
  \A s \in Readers :
    \/ reader[s].pc = "idle"
    \/ /\ reader[s].pc \in {"reading", "read", "failed"}
       /\ reader[s].account \in Accounts /\ reader[s].balance \in Nat
       /\ reader[s].cursor \in {NoCursor} \cup [stamp : Nat, id : Ids]
       /\ reader[s].lines \in [Ids -> 0 .. 2]
       /\ reader[s].first \in Ids \cup {0}
       /\ reader[s].committed \subseteq book

ReaderInit == reader = [s \in Readers |-> [pc |-> "idle"]]

\* The account row is read before the first page.
BeginReading(s) ==
  /\ reader[s].pc = "idle"
  /\ \E a \in Accounts :
       reader' = [reader EXCEPT ![s] =
         [pc |-> "reading", account |-> a, balance |-> rows[a].balance,
          cursor |-> NoCursor, lines |-> [i \in Ids |-> 0], first |-> 0,
          committed |-> OfAccount(a)]]
  /\ UNCHANGED bookVars

\* (created_at, id) in the order of the query.
Before(x, y) == x.stamp < y.stamp \/ (x.stamp = y.stamp /\ x.id < y.id)

\* Slip: only the time stamps are compared.
BehindStamp(s) ==
  {e \in OfAccount(reader[s].account) : e.stamp > reader[s].cursor.stamp}

Behind(s) == {e \in OfAccount(reader[s].account) : Before(reader[s].cursor, e)}

\* fetchPage: the first PageSize entries behind the cursor.
PageOf(s) ==
  {e \in Behind(s) : Cardinality({d \in Behind(s) : Before(d, e)}) < PageSize}

FirstOf(page) == CHOOSE e \in page : \A d \in page : d = e \/ Before(e, d)
LastOf(page)  == CHOOSE e \in page : \A d \in page : d = e \/ Before(d, e)

\* Slip: the cursor is taken from the first entry of the page.
CursorAtFirst(page) ==
  [stamp |-> Micros * Millisecond(FirstOf(page).stamp), id |-> FirstOf(page).id]

\* Where the last entry stands, to the millisecond.
CursorAt(page) ==
  [stamp |-> Micros * Millisecond(LastOf(page).stamp), id |-> LastOf(page).id]

\* loadNextPage; a short page is the last one.
ReadPage(s) ==
  LET page == PageOf(s) IN
  /\ reader[s].pc = "reading"
  /\ reader' = [reader EXCEPT
       ![s].lines = [i \in Ids |->
          IF \E e \in page : e.id = i THEN Lesser(2, @[i] + 1) ELSE @[i]],
       ![s].first  = IF @ = 0 /\ page # {} THEN FirstOf(page).id ELSE @,
       ![s].cursor = IF page # {} THEN CursorAt(page) ELSE @,
       ![s].pc     = IF Cardinality(page) < PageSize THEN "read" ELSE @]
  /\ UNCHANGED bookVars

ReadFails(s) ==
  /\ reader[s].pc = "reading" /\ Fault
  /\ reader' = [reader EXCEPT ![s].pc = "failed"]
  /\ UNCHANGED <<rows, book, now>>

ReaderNext == \E s \in Readers : BeginReading(s) \/ ReadPage(s) \/ ReadFails(s)

-----------------------------------------------------------------------------
(* The detailed statement *)

HandedOut(s) == {e \in book : reader[s].lines[e.id] > 0}

\* Slip: the balance after the first line is taken for the one before it.
OpeningAfterFirst(s) ==
  IF reader[s].first = 0 THEN reader[s].balance
  ELSE (CHOOSE e \in HandedOut(s) : e.id = reader[s].first).after

\* Before the first line, or the current balance when there is none.
OpeningOf(s) ==
  IF reader[s].first = 0 THEN reader[s].balance
  ELSE LET e == CHOOSE e \in HandedOut(s) : e.id = reader[s].first
       IN  e.after - e.amount

Credits(s) == MapThenSumSet(LAMBDA e : reader[s].lines[e.id] * e.amount,
                            {e \in HandedOut(s) : e.amount > 0})
Debits(s)  == MapThenSumSet(LAMBDA e : reader[s].lines[e.id] * e.amount,
                            {e \in HandedOut(s) : e.amount < 0})
ClosingOf(s) == reader[s].balance

-----------------------------------------------------------------------------

\* Whatever was committed when a reader began is handed out by the time it has
\* read everything, whatever commits meanwhile and wherever the pages end.
NothingSkipped ==
  \A s \in Readers : reader[s].pc = "read" => reader[s].committed \subseteq HandedOut(s)

\* A statement taken while its account rests adds up: opening balance, credits
\* and debits give the closing balance.  It holds where the entries are handed
\* out once each and their transactions began in the order they committed.
QuietStatementsReconcile ==
  \A s \in Readers :
    /\ reader[s].pc = "read"
    /\ OfAccount(reader[s].account) = reader[s].committed
    /\ \A e \in reader[s].committed : reader[s].lines[e.id] <= 1
    /\ \A d, e \in reader[s].committed : d.nth < e.nth => d.stamp < e.stamp
    => OpeningOf(s) + Credits(s) + Debits(s) = ClosingOf(s)

\* The fetcher's contract: "Fetch the next page strictly AFTER the given
\* cursor".  So no entry is handed out twice; the code does.
NoEntryTwice ==
  \A s \in Readers : reader[s].pc # "idle" => \A i \in Ids : reader[s].lines[i] <= 1

\* Every reading comes to its last page, however often writers add entries, as
\* long as an account gets fewer entries in a millisecond than fill a page.
ReadingEnds ==
  \A s \in Readers : reader[s].pc = "reading" ~> reader[s].pc \in {"read", "failed"}
=============================================================================
