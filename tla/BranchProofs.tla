---------------------------- MODULE BranchProofs ----------------------------
(***************************************************************************)
(* A branch at work, for any number of accounts, commands, undo requests,  *)
(* onboardings, pods, faults and crashes: what the desk tells its clients  *)
(* is what the ledger holds, a transfer the fraud rules name moves no      *)
(* money, and a customer is onboarded wholly or undone.  And the parser of *)
(* those rules follows their grammar, for every rule.                      *)
(***************************************************************************)
EXTENDS Branch, Sums, TLAPS

-----------------------------------------------------------------------------
(* What lines move *)

AmountOf == [x \in Entry |-> x.amount]

Lines(a, lines) == {x \in lines : x.account = a}

\* Moved adds the amounts of an account's lines.
LEMMA MovedTotal ==
  ASSUME NEW a, NEW lines \in SUBSET Entry, IsFiniteSet(lines)
  PROVE  Moved(a, lines) = Total(AmountOf, Lines(a, lines))
<1> DEFINE S == Lines(a, lines)
           P(f) == f = [s \in SUBSET S |-> IF s = {} THEN 0
                                           ELSE One(s).amount + f[s \ {One(s)}]]
           iter == CHOOSE f : P(f)
<1>1. Moved(a, lines) = iter[S]
  BY DEF Moved, MapThenSumSet, MapThenFoldSet, Lines, One
<1>2. S \in SUBSET Entry /\ IsFiniteSet(S)
  BY FS_Subset DEF Lines
<1>3. ASSUME NEW f PROVE P(f) <=> Adds(f, AmountOf, S)
  <2> DEFINE h == [s \in SUBSET S |-> IF s = {} THEN 0
                                      ELSE One(s).amount + f[s \ {One(s)}]]
             k == [s \in SUBSET S |-> IF s = {} THEN 0
                                      ELSE AmountOf[One(s)] + f[s \ {One(s)}]]
  <2>1. ASSUME NEW s \in SUBSET S, s # {} PROVE AmountOf[One(s)] = One(s).amount
    <3>1. One(s) \in Entry
      BY <1>2, <2>1, OneIn
    <3> QED
      BY <3>1 DEF AmountOf
  <2>2. h = k
    BY <2>1
  <2>3. P(f) <=> f = h
    OBVIOUS
  <2>4. Adds(f, AmountOf, S) <=> f = k
    BY DEF Adds
  <2> HIDE DEF h, k, P
  <2> QED
    BY <2>2, <2>3, <2>4
<1> HIDE DEF S, P
<1>4. PICK f : Adds(f, AmountOf, S)
  BY <1>2, AddsExists
<1>5. P(f)
  BY <1>3, <1>4
<1>6. P(iter)
  BY <1>5
<1> HIDE DEF iter
<1>7. Adds(iter, AmountOf, S)
  BY <1>3, <1>6
<1>8. iter[S] = Total(AmountOf, S)
  BY <1>2, <1>7, TotalAdds
<1> QED
  BY <1>1, <1>8 DEF S

LEMMA MovedNone ==
  ASSUME NEW a, NEW lines \in SUBSET Entry, IsFiniteSet(lines), Lines(a, lines) = {}
  PROVE  Moved(a, lines) = 0
BY MovedTotal, TotalNone

LEMMA MovedInt ==
  ASSUME NEW a, NEW lines \in SUBSET Entry, IsFiniteSet(lines)
  PROVE  Moved(a, lines) \in Int
<1>1. Lines(a, lines) \in SUBSET Entry /\ IsFiniteSet(Lines(a, lines))
  BY FS_Subset DEF Lines
<1>2. \A x \in Entry : AmountOf[x] \in Int
  BY DEF AmountOf, Entry
<1>3. Total(AmountOf, Lines(a, lines)) \in Int
  BY <1>1, <1>2, TotalInt
<1> QED
  BY <1>3, MovedTotal

\* Each line adds its amount to its own account's, and to no other.
LEMMA MovedMore ==
  ASSUME NEW a, NEW lines \in SUBSET Entry, IsFiniteSet(lines), NEW x \in Entry, x \notin lines
  PROVE  Moved(a, lines \cup {x}) =
           Moved(a, lines) + (IF x.account = a THEN x.amount ELSE 0)
<1> DEFINE more == lines \cup {x}
<1>1. more \in SUBSET Entry /\ IsFiniteSet(more)
  BY FS_AddElement
<1>2. Moved(a, more) = Total(AmountOf, Lines(a, more))
      /\ Moved(a, lines) = Total(AmountOf, Lines(a, lines))
      /\ Moved(a, lines) \in Int
  BY <1>1, MovedTotal, MovedInt
<1>3. CASE x.account = a
  <2>1. x \in Lines(a, more) /\ Lines(a, more) \ {x} = Lines(a, lines)
    BY <1>3 DEF Lines
  <2>2. /\ IsFiniteSet(Lines(a, more)) /\ \A z \in Lines(a, more) : AmountOf[z] \in Int
        /\ AmountOf[x] = x.amount /\ x.amount \in Int
    <3>1. Lines(a, more) \in SUBSET Entry /\ IsFiniteSet(Lines(a, more))
      BY <1>1, FS_Subset DEF Lines
    <3>2. \A z \in Entry : AmountOf[z] = z.amount /\ z.amount \in Int
      BY DEF AmountOf, Entry
    <3> HIDE DEF more
    <3> QED
      BY <3>1, <3>2
  <2> HIDE DEF more
  <2>3. Total(AmountOf, Lines(a, more)) = AmountOf[x] + Total(AmountOf, Lines(a, more) \ {x})
    BY <2>1, <2>2, TotalWithout
  <2>4. Moved(a, more) = x.amount + Moved(a, lines)
    BY <1>2, <2>1, <2>2, <2>3
  <2>5. Moved(a, more) = Moved(a, lines) + x.amount
    BY <1>2, <2>2, <2>4
  <2> QED
    BY <1>3, <2>5 DEF more
<1>4. CASE x.account # a
  <2>1. Lines(a, more) = Lines(a, lines)
    BY <1>4 DEF Lines
  <2> HIDE DEF more
  <2> QED
    BY <1>2, <1>4, <2>1 DEF more
<1> QED
  BY <1>3, <1>4

-----------------------------------------------------------------------------
(* What holds between the steps *)

Of(lines, ref) == {x \in lines : x.ref = ref}

\* IsReversed, of a transaction that is there.
TakenBack(lines, ref) ==
  /\ Of(lines, ref) # {}
  /\ \A x \in Of(lines, ref) :
       \E y \in lines : /\ y.of = ref /\ y.ref # ref /\ y.account = x.account
                        /\ y.line = x.line /\ y.amount = -x.amount

TillInv ==
  /\ rows \in [Accounts -> Row] /\ entries \subseteq Entry /\ IsFiniteSet(entries)
  /\ faults \in 0 .. MaxFaults
  /\ \A x \in entries : rows[x.account].status # "ABSENT"

RefFor(c, call) == <<Prefix[call.kind], c>>

\* LinesOf, for a call that is given.
LinesFor(c, call) ==
  LET ref == RefFor(c, call)
  IN  CASE call.kind = "deposit"  -> {Line(ref, call.to, call.amount, "DEPOSIT")}
        [] call.kind = "withdraw" -> {Line(ref, call.from, -call.amount, "WITHDRAWAL")}
        [] call.kind = "transfer" ->
             {Line(ref, call.from, -call.amount, "TRANSFER_OUT"),
              Line(ref, call.to, call.amount, "TRANSFER_IN")}
             \cup {Line(ref, call.from, -fee, "FEE") : fee \in {FeeOf(call)} \ {0}}

\* A transfer that committed was not suspicious, and its accounts are there.
Cleared(call, table) ==
  call.kind = "transfer" =>
    /\ ~Suspicious(call) /\ call.from # call.to
    /\ table[call.from].status # "ABSENT" /\ table[call.to].status # "ABSENT"
    /\ table[call.from].currency = table[call.to].currency

\* Command c stands at w when the ledger is lines and the account rows are table.
CommandOk(c, w, lines, table) ==
  /\ w.pc = "idle" => \A k \in Kinds : Of(lines, <<Prefix[k], c>>) = {}
  /\ w.pc # "idle" =>
       /\ w.pc \in {"running", "failed"} => Of(lines, RefFor(c, w.call)) = {}
       /\ w.pc \in {"answering", "done"} => Of(lines, RefFor(c, w.call)) # {}
       /\ Of(lines, RefFor(c, w.call)) # {} =>
            Of(lines, RefFor(c, w.call)) = LinesFor(c, w.call) /\ Cleared(w.call, table)
       /\ w.ref # NoRef => w.ref = RefFor(c, w.call) /\ w.pc = "done"
       /\ w.status = "UNDONE" => w.ref # NoRef /\ TakenBack(lines, w.ref)

\* Undo request u stands at w when the commands stand as in cmds.
UndoOk(u, w, lines, cmds) ==
  /\ w.pc \in {"idle", "reversing", "refused"} => Of(lines, <<"REV", u>>) = {}
  /\ w.pc \in {"reversing", "reversed"} =>
       /\ Of(lines, w.ref) # {}
       /\ w.command # NoCommand => cmds[w.command].pc # "idle" /\ cmds[w.command].ref = w.ref
  /\ w.pc = "reversed" => TakenBack(lines, w.ref)

\* Onboarding j stands at w.
JobOk(j, w, lines, table) ==
  LET paid == Of(lines, Opening(j))
      a == AccountOf[j]
      line == Line(Opening(j), a, w.application.initial, "DEPOSIT")
  IN  /\ w.pc \in {"idle", "refused"} => table[a] = Absent
      /\ w.pc \in {"idle", "refused", "depositing"} => paid = {}
      /\ w.pc \notin {"closing", "closed", "leftOpen", "stuck", "dead"} =>
           Of(lines, Refund(j)) = {}
      /\ w.pc \notin {"idle", "refused"} =>
           /\ table[a].status # "ABSENT"
           /\ w.deposit # NoRef => w.deposit = Opening(j) /\ paid = {line}
           /\ w.pc \in {"activating", "welcoming", "welcomed", "unsure"}
                /\ w.application.initial > 0 => paid = {line}
           /\ w.pc = "refunding" => w.deposit # NoRef
      /\ w.pc \in {"welcoming", "welcomed", "unsure"} => table[a].status # "PENDING"
      /\ w.pc \in {"closing", "closed"} /\ w.deposit # NoRef => TakenBack(lines, w.deposit)
      /\ w.pc = "closed" => table[a].status = "CLOSED"

Histories == UNION {[1 .. n -> Commands] : n \in 0 .. MaxHistory}

\* A command a pod remembers has been sent.
HistoryInv ==
  /\ history \in [Pods -> Histories]
  /\ \A p \in Pods : \A i \in 1 .. Len(history[p]) : command[history[p][i]].pc # "idle"

Sent == [pc : AtDesk, pod : Pods, call : Calls, status : RecordStatuses,
         ref : References \cup {NoRef}]

Asked == [pc : AtUndo, pod : Pods, command : Commands \cup {NoCommand},
          ref : References \cup {NoRef}]

Begun == [pc : (Steps \cup Ends) \ {"idle", "refused"}, application : Applications,
          deposit : References \cup {NoRef}]

Shapes ==
  /\ command \in [Commands -> [pc : {"idle"}] \cup Sent]
  /\ undoing \in [Undos -> [pc : {"idle"}] \cup Asked]
  /\ job \in [Jobs -> [pc : {"idle", "refused"}] \cup Begun]
  /\ crashes \in 0 .. MaxCrashes /\ clerk \in 0 .. MaxClerk

BranchInv ==
  /\ TillInv /\ Shapes /\ HistoryInv
  /\ \A c \in Commands : CommandOk(c, command[c], entries, rows)
  /\ \A u \in Undos : UndoOk(u, undoing[u], entries, command)
  /\ \A j \in Jobs : JobOk(j, job[j], entries, rows)

-----------------------------------------------------------------------------
(* What a step of somebody else leaves as it was *)

\* The ledger stays or gets lines of a transaction it did not have.
Grows(lines, more, ref) ==
  \/ more = lines
  \/ /\ Of(lines, ref) = {}
     /\ \E new : more = lines \cup new /\ \A x \in new : x.ref = ref

\* A row that is there stays there, in its currency; one that is not given yet
\* stays so, and no status is taken back.
There(row, new) ==
  row.status # "ABSENT" => new.status # "ABSENT" /\ new.currency = row.currency

Later(row, new) ==
  /\ There(row, new)
  /\ row = Absent => new = Absent
  /\ row.status # "PENDING" => new.status # "PENDING"
  /\ row.status = "CLOSED" => new.status = "CLOSED"

LEMMA OfKept ==
  ASSUME NEW lines, NEW more, NEW ref, NEW q, Grows(lines, more, ref),
         q # ref \/ Of(lines, q) # {}
  PROVE  lines \subseteq more /\ Of(more, q) = Of(lines, q)
BY DEF Grows, Of

LEMMA TakenBackKept ==
  ASSUME NEW lines, NEW more, NEW ref, NEW q, Grows(lines, more, ref), TakenBack(lines, q)
  PROVE  TakenBack(more, q)
<1>1. lines \subseteq more /\ Of(more, q) = Of(lines, q) /\ Of(lines, q) # {}
  BY OfKept DEF TakenBack
<1> QED
  BY <1>1 DEF TakenBack

LEMMA CommandKept ==
  ASSUME NEW c, NEW w \in [pc : {"idle"}] \cup Sent, NEW lines, NEW more, NEW ref,
         NEW table, NEW new,
         CommandOk(c, w, lines, table), Grows(lines, more, ref),
         \A k \in Kinds : ref # <<Prefix[k], c>>,
         \A a \in Accounts : There(table[a], new[a])
  PROVE  CommandOk(c, w, more, new)
<1>1. \A k \in Kinds : Of(more, <<Prefix[k], c>>) = Of(lines, <<Prefix[k], c>>)
  BY OfKept
<1>2. CASE w.pc = "idle"
  BY <1>1, <1>2 DEF CommandOk
<1>3. CASE w.pc # "idle"
  <2>1. /\ w.call.kind \in Kinds /\ w.call.from \in Accounts /\ w.call.to \in Accounts
    <3>1. w.call \in Call
      BY <1>3, CommandsAssumption DEF Sent
    <3> QED
      BY <3>1 DEF Call
  <2>2. Of(more, RefFor(c, w.call)) = Of(lines, RefFor(c, w.call))
    BY <1>1, <2>1 DEF RefFor
  <2>3. Cleared(w.call, table) => Cleared(w.call, new)
    BY <2>1 DEF Cleared, There
  <2>4. TakenBack(lines, w.ref) => TakenBack(more, w.ref)
    BY TakenBackKept
  <2> QED
    BY <1>3, <2>2, <2>3, <2>4 DEF CommandOk
<1> QED
  BY <1>2, <1>3

LEMMA UndoKept ==
  ASSUME NEW u, NEW w \in [pc : {"idle"}] \cup Asked, NEW lines \in SUBSET Entry, NEW more,
         NEW ref, NEW cmds, NEW new,
         UndoOk(u, w, lines, cmds), Grows(lines, more, ref), ref # <<"REV", u>>,
         \A c \in Commands : cmds[c].pc # "idle" /\ cmds[c].ref # NoRef =>
                               new[c].pc # "idle" /\ new[c].ref = cmds[c].ref
  PROVE  UndoOk(u, w, more, new)
<1>1. Of(more, <<"REV", u>>) = Of(lines, <<"REV", u>>)
  BY OfKept
<1>2. Of(lines, w.ref) # {} => Of(more, w.ref) # {} /\ w.ref # NoRef
  <2>1. Of(lines, w.ref) # {} => Of(more, w.ref) # {}
    BY OfKept
  <2>2. Of(lines, w.ref) # {} => w.ref # NoRef
    BY TillAssumption DEF Of, Entry
  <2> QED
    BY <2>1, <2>2
<1>3. TakenBack(lines, w.ref) => TakenBack(more, w.ref)
  BY TakenBackKept
<1>4. ASSUME w.pc \in {"reversing", "reversed"}, w.command # NoCommand
      PROVE  new[w.command].pc # "idle" /\ new[w.command].ref = w.ref
  <2>1. w.command \in Commands
    BY <1>4 DEF Asked
  <2>2. cmds[w.command].pc # "idle" /\ cmds[w.command].ref = w.ref /\ w.ref # NoRef
    BY <1>2, <1>4 DEF UndoOk
  <2> QED
    BY <2>1, <2>2
<1> QED
  BY <1>1, <1>2, <1>3, <1>4 DEF UndoOk

LEMMA JobKept ==
  ASSUME NEW j, NEW w, NEW lines, NEW more, NEW ref, NEW table, NEW new,
         JobOk(j, w, lines, table), Grows(lines, more, ref),
         ref # Opening(j), ref # Refund(j), Later(table[AccountOf[j]], new[AccountOf[j]])
  PROVE  JobOk(j, w, more, new)
<1>1. Of(more, Opening(j)) = Of(lines, Opening(j)) /\ Of(more, Refund(j)) = Of(lines, Refund(j))
  BY OfKept
<1>2. TakenBack(lines, w.deposit) => TakenBack(more, w.deposit)
  BY TakenBackKept
<1>3. /\ table[AccountOf[j]].status # "ABSENT" => new[AccountOf[j]].status # "ABSENT"
      /\ table[AccountOf[j]] = Absent => new[AccountOf[j]] = Absent
      /\ table[AccountOf[j]].status # "PENDING" => new[AccountOf[j]].status # "PENDING"
      /\ table[AccountOf[j]].status = "CLOSED" => new[AccountOf[j]].status = "CLOSED"
  BY DEF Later, There
<1> HIDE DEF Opening, Refund
<1> QED
  BY <1>1, <1>2, <1>3 DEF JobOk

\* The references of different requests are different.
LEMMA RefsApart ==
  /\ \A c, d \in Commands, k, l \in Kinds :
       <<Prefix[k], c>> = <<Prefix[l], d>> => c = d /\ k = l
  /\ \A c \in Commands, u \in Undos, k \in Kinds : <<Prefix[k], c>> # <<"REV", u>>
  /\ \A c \in Commands, j \in Jobs, k \in Kinds :
       <<Prefix[k], c>> # Opening(j) /\ <<Prefix[k], c>> # Refund(j)
  /\ \A u \in Undos, j \in Jobs : <<"REV", u>> # Opening(j) /\ <<"REV", u>> # Refund(j)
  /\ \A i, j \in Jobs : Opening(i) # Refund(j)
  /\ \A i, j \in Jobs : Opening(i) = Opening(j) \/ Refund(i) = Refund(j) => i = j
<1>1. Prefix["deposit"] = "DEP" /\ Prefix["withdraw"] = "WDL" /\ Prefix["transfer"] = "TRF"
  BY DEF Prefix
<1> QED
  BY <1>1, BranchAssumption DEF Kinds, Opening, Refund

-----------------------------------------------------------------------------
(* The rows and the ledger *)

\* A transaction of which no account falls below zero keeps the till in order.
LEMMA CommitKeeps ==
  ASSUME TillInv, NEW lines \in SUBSET Entry, IsFiniteSet(lines), Commits(lines),
         Covers(lines), \A x \in lines : rows[x.account].status # "ABSENT",
         faults' = faults \/ Fault
  PROVE  TillInv' /\ \A a \in Accounts : Later(rows[a], rows'[a])
<1>1. ASSUME NEW a \in Accounts
      PROVE  /\ rows'[a] \in Row /\ rows'[a].status = rows[a].status
             /\ rows'[a].currency = rows[a].currency
             /\ rows[a] = Absent => rows'[a] = Absent
  <2> DEFINE row == rows[a]  m == Moved(a, lines)
             new == [status |-> row.status, balance |-> row.balance + m,
                     limit |-> row.limit, currency |-> row.currency]
  <2>1. row \in Row
    BY DEF TillInv
  <2>2. m \in Int /\ row.balance + m >= 0 /\ row.balance \in Nat
    BY <2>1, MovedInt DEF Covers, Row
  <2>3. rows'[a] = [row EXCEPT !.balance = row.balance + m]
    BY DEF Commits
  <2>4. row = [status |-> row.status, balance |-> row.balance,
               limit |-> row.limit, currency |-> row.currency]
    BY <2>1 DEF Row
  <2>5. row = Absent => m = 0
    <3> SUFFICES ASSUME row = Absent PROVE m = 0
      OBVIOUS
    <3>1. row.status = "ABSENT"
      BY DEF Absent
    <3>2. Lines(a, lines) = {}
      BY <3>1 DEF Lines
    <3> QED
      BY <3>2, MovedNone
  <2> HIDE DEF m, row
  <2>6. rows'[a] = new
    BY <2>3, <2>4
  <2>7. new \in Row
    BY <2>1, <2>2 DEF Row
  <2>8. row = Absent => new = row
    BY <2>2, <2>4, <2>5
  <2> QED
    BY <2>6, <2>7, <2>8 DEF row
<1>2. rows' \in [Accounts -> Row]
  <2>1. rows' = [a \in Accounts |-> rows'[a]]
    BY DEF Commits
  <2> QED
    BY <1>1, <2>1
<1>3. entries' \subseteq Entry /\ IsFiniteSet(entries')
  BY FS_Union DEF Commits, TillInv
<1>4. faults' \in 0 .. MaxFaults
  BY TillAssumption DEF TillInv, Fault
<1>5. \A x \in entries' : rows'[x.account].status # "ABSENT"
  <2>1. \A x \in entries' : x.account \in Accounts /\ rows[x.account].status # "ABSENT"
    BY DEF Commits, TillInv, Entry
  <2> QED
    BY <1>1, <2>1
<1>6. \A a \in Accounts : Later(rows[a], rows'[a])
  BY <1>1 DEF Later, There
<1> QED
  BY <1>2, <1>3, <1>4, <1>5, <1>6 DEF TillInv

\* A status change takes an account that is there one step on.
LEMMA StatusKeeps ==
  ASSUME TillInv, NEW a \in Accounts, NEW action \in StatusActions,
         May(a, action), SetStatus(a, action), entries' = entries,
         faults' = faults \/ Fault
  PROVE  /\ TillInv' /\ \A b \in Accounts : Later(rows[b], rows'[b])
         /\ rows'[a].status = StatusAfter[action]
<1> DEFINE row == rows[a]  s == StatusAfter[action]
           new == [status |-> s, balance |-> row.balance, limit |-> row.limit,
                   currency |-> row.currency]
<1>1. row \in Row /\ row.status # "ABSENT"
  BY DEF TillInv, May
<1>2. s \in Statuses \ {"PENDING"} /\ (row.status # "CLOSED")
  BY DEF StatusAfter, Statuses, StatusActions, May, IsLegal
<1> HIDE DEF s
<1>3. [row EXCEPT !.status = s] = new /\ new \in Row
  BY <1>1, <1>2 DEF Row
<1>4. rows' = [rows EXCEPT ![a] = [row EXCEPT !.status = s]]
  BY DEF SetStatus, s
<1>5. new.status = s /\ new.currency = row.currency
  OBVIOUS
<1> HIDE DEF new
<1>6. /\ rows' = [rows EXCEPT ![a] = new] /\ rows' \in [Accounts -> Row] /\ rows'[a] = new
      /\ \A b \in Accounts \ {a} : rows'[b] = rows[b]
  BY <1>3, <1>4 DEF TillInv
<1>7. s # "ABSENT"
  BY <1>2 DEF Statuses
<1>8. Later(row, new)
  <2>1. row # Absent
    BY <1>1 DEF Absent
  <2> QED
    BY <1>1, <1>2, <1>5, <1>7, <2>1 DEF Later, There
<1>9. \A b \in Accounts : Later(rows[b], rows'[b])
  BY <1>6, <1>8 DEF Later, There
<1>10. \A x \in entries' : rows'[x.account].status # "ABSENT"
  BY <1>9 DEF Later, There, TillInv, Entry
<1>11. faults' \in 0 .. MaxFaults
  BY TillAssumption DEF TillInv, Fault
<1> QED
  BY <1>5, <1>6, <1>9, <1>10, <1>11 DEF TillInv, s

\* Or nothing happens but a fault.
LEMMA RestKeeps ==
  ASSUME TillInv, rows' = rows, entries' = entries, faults' = faults \/ Fault
  PROVE  TillInv' /\ \A a \in Accounts : Later(rows[a], rows'[a])
<1>1. faults' \in 0 .. MaxFaults
  BY TillAssumption DEF TillInv, Fault
<1> QED
  BY <1>1 DEF TillInv, Later, There

\* The references of requests are references, so none is NoRef.
LEMMA RefsAreReferences ==
  /\ \A c \in Commands, k \in Kinds : <<Prefix[k], c>> \in References
  /\ \A u \in Undos : <<"REV", u>> \in References
  /\ \A j \in Jobs : Opening(j) \in References /\ Refund(j) \in References
  /\ NoRef \notin References
BY CommandsAssumption, OnboardingAssumption, TillAssumption DEF Opening, Refund

\* What has to be shown of a step: what it adds to the ledger, and that whoever
\* moves or gets lines stands right afterwards.
LEMMA Together ==
  ASSUME BranchInv, TillInv', Shapes', HistoryInv', NEW ref,
         Grows(entries, entries', ref),
         \A a \in Accounts : There(rows[a], rows'[a]),
         \A c \in Commands :
           \/ command'[c] = command[c] /\ \A k \in Kinds : ref # <<Prefix[k], c>>
           \/ CommandOk(c, command'[c], entries', rows'),
         \A c \in Commands : command[c].pc # "idle" /\ command[c].ref # NoRef =>
                               command'[c].pc # "idle" /\ command'[c].ref = command[c].ref,
         \A u \in Undos :
           \/ undoing'[u] = undoing[u] /\ ref # <<"REV", u>>
           \/ UndoOk(u, undoing'[u], entries', command'),
         \A j \in Jobs :
           \/ /\ job'[j] = job[j] /\ ref # Opening(j) /\ ref # Refund(j)
              /\ Later(rows[AccountOf[j]], rows'[AccountOf[j]])
           \/ JobOk(j, job'[j], entries', rows')
  PROVE  BranchInv'
<1>1. ASSUME NEW c \in Commands PROVE CommandOk(c, command'[c], entries', rows')
  <2>1. CASE command'[c] = command[c] /\ \A k \in Kinds : ref # <<Prefix[k], c>>
    <3>1. /\ command[c] \in [pc : {"idle"}] \cup Sent
          /\ CommandOk(c, command[c], entries, rows)
      BY DEF BranchInv, Shapes
    <3>2. CommandOk(c, command[c], entries', rows')
      BY <2>1, <3>1, CommandKept
    <3> QED
      BY <2>1, <3>2
  <2> QED
    BY <2>1
<1>2. ASSUME NEW u \in Undos PROVE UndoOk(u, undoing'[u], entries', command')
  <2>1. CASE undoing'[u] = undoing[u] /\ ref # <<"REV", u>>
    <3>1. /\ undoing[u] \in [pc : {"idle"}] \cup Asked /\ entries \in SUBSET Entry
          /\ UndoOk(u, undoing[u], entries, command)
      BY DEF BranchInv, Shapes, TillInv
    <3>2. UndoOk(u, undoing[u], entries', command')
      BY <2>1, <3>1, UndoKept
    <3> QED
      BY <2>1, <3>2
  <2> QED
    BY <2>1
<1>3. ASSUME NEW j \in Jobs PROVE JobOk(j, job'[j], entries', rows')
  <2>1. CASE /\ job'[j] = job[j] /\ ref # Opening(j) /\ ref # Refund(j)
             /\ Later(rows[AccountOf[j]], rows'[AccountOf[j]])
    <3>1. JobOk(j, job[j], entries, rows)
      BY DEF BranchInv
    <3>2. JobOk(j, job[j], entries', rows')
      BY <2>1, <3>1, JobKept
    <3> QED
      BY <2>1, <3>2
  <2> QED
    BY <2>1
<1> QED
  BY <1>1, <1>2, <1>3 DEF BranchInv

\* A step of the desk leaves the onboardings alone, and the ledger gets lines of
\* ref at most.
LEMMA DeskTogether ==
  ASSUME BranchInv, TillInv', Shapes', HistoryInv', NEW ref,
         Grows(entries, entries', ref), job' = job,
         \A a \in Accounts : Later(rows[a], rows'[a]),
         \A j \in Jobs : ref # Opening(j) /\ ref # Refund(j),
         \A c \in Commands :
           \/ command'[c] = command[c] /\ \A k \in Kinds : ref # <<Prefix[k], c>>
           \/ CommandOk(c, command'[c], entries', rows'),
         \A c \in Commands : command[c].pc # "idle" /\ command[c].ref # NoRef =>
                               command'[c].pc # "idle" /\ command'[c].ref = command[c].ref,
         \A u \in Undos :
           \/ undoing'[u] = undoing[u] /\ ref # <<"REV", u>>
           \/ UndoOk(u, undoing'[u], entries', command')
  PROVE  BranchInv'
<1>1. \A a \in Accounts : There(rows[a], rows'[a])
  BY DEF Later
<1>2. \A j \in Jobs : /\ job'[j] = job[j] /\ ref # Opening(j) /\ ref # Refund(j)
                      /\ Later(rows[AccountOf[j]], rows'[AccountOf[j]])
  BY OnboardingAssumption
<1> QED
  BY <1>1, <1>2, Together

\* A step of onboarding j leaves the desk alone.
LEMMA JobTogether ==
  ASSUME BranchInv, TillInv', NEW j \in Jobs, NEW ref \in {Opening(j), Refund(j)},
         Grows(entries, entries', ref), UNCHANGED desk, clerk' = clerk,
         job' \in [Jobs -> [pc : {"idle", "refused"}] \cup Begun],
         \A i \in Jobs \ {j} : job'[i] = job[i],
         \A a \in Accounts : There(rows[a], rows'[a]),
         \A a \in Accounts : a # AccountOf[j] => Later(rows[a], rows'[a]),
         JobOk(j, job'[j], entries', rows')
  PROVE  BranchInv'
<1>1. command' = command /\ history' = history /\ undoing' = undoing /\ crashes' = crashes
  BY DEF desk
<1>2. Shapes' /\ HistoryInv'
  BY <1>1 DEF BranchInv, Shapes, HistoryInv
<1>3. \A c \in Commands : command'[c] = command[c] /\ \A k \in Kinds : ref # <<Prefix[k], c>>
  BY <1>1, RefsApart
<1>4. \A u \in Undos : undoing'[u] = undoing[u] /\ ref # <<"REV", u>>
  BY <1>1, RefsApart
<1>5. \A i \in Jobs \ {j} : /\ job'[i] = job[i] /\ ref # Opening(i) /\ ref # Refund(i)
                            /\ Later(rows[AccountOf[i]], rows'[AccountOf[i]])
  BY RefsApart, OnboardingAssumption
<1>6. \A i \in Jobs :
           \/ /\ job'[i] = job[i] /\ ref # Opening(i) /\ ref # Refund(i)
              /\ Later(rows[AccountOf[i]], rows'[AccountOf[i]])
           \/ JobOk(i, job'[i], entries', rows')
  BY <1>5
<1> QED
  BY <1>1, <1>2, <1>3, <1>4, <1>6, Together

-----------------------------------------------------------------------------
(* Where requests are put *)

LEMMA Put ==
  ASSUME NEW D, NEW T, NEW f \in [D -> T], NEW d \in D, NEW v \in T,
         NEW h, h = [f EXCEPT ![d] = v]
  PROVE  h \in [D -> T] /\ h[d] = v /\ \A e \in D \ {d} : h[e] = f[e]
OBVIOUS

SetRef(c, pc, ref) == command' = [command EXCEPT ![c].pc = pc, ![c].ref = ref]

LEMMA CommandTo ==
  ASSUME Shapes, NEW c \in Commands, command[c].pc # "idle", NEW pc \in AtDesk,
         NEW status \in RecordStatuses, To(c, pc, status)
  PROVE  /\ command' \in [Commands -> [pc : {"idle"}] \cup Sent]
         /\ command'[c].pc = pc /\ command'[c].status = status
         /\ command'[c].call = command[c].call /\ command'[c].ref = command[c].ref
         /\ \A d \in Commands \ {c} : command'[d] = command[d]
<1> DEFINE w == command[c]
           v1 == [pc |-> pc, pod |-> w.pod, call |-> w.call, status |-> w.status,
                  ref |-> w.ref]
           v2 == [pc |-> pc, pod |-> w.pod, call |-> w.call, status |-> status,
                  ref |-> w.ref]
           f1 == [command EXCEPT ![c] = v1]
<1>1. w \in Sent /\ command \in [Commands -> [pc : {"idle"}] \cup Sent]
  BY DEF Shapes
<1>2. [w EXCEPT !.pc = pc] = v1
  BY <1>1 DEF Sent
<1>3. [v1 EXCEPT !.status = status] = v2
  OBVIOUS
<1>4. v2 \in Sent /\ v2.pc = pc /\ v2.status = status /\ v2.call = w.call /\ v2.ref = w.ref
  BY <1>1 DEF Sent
<1> HIDE DEF v1, v2
<1>5. [command EXCEPT ![c].pc = pc] = f1
  BY <1>2
<1>6. [f1 EXCEPT ![c].status = status] = [command EXCEPT ![c] = v2]
  BY <1>1, <1>3
<1>7. command' = [command EXCEPT ![c] = v2]
  BY <1>5, <1>6 DEF To
<1>8. v2 \in [pc : {"idle"}] \cup Sent
  BY <1>4
<1> HIDE DEF w, f1
<1>9. /\ command' \in [Commands -> [pc : {"idle"}] \cup Sent] /\ command'[c] = v2
      /\ \A d \in Commands \ {c} : command'[d] = command[d]
  BY <1>1, <1>7, <1>8, Put
<1> QED
  BY <1>4, <1>9 DEF w

LEMMA RefTo ==
  ASSUME Shapes, NEW c \in Commands, command[c].pc # "idle", NEW pc \in AtDesk,
         NEW ref \in References, SetRef(c, pc, ref)
  PROVE  /\ command' \in [Commands -> [pc : {"idle"}] \cup Sent]
         /\ command'[c].pc = pc /\ command'[c].ref = ref
         /\ command'[c].call = command[c].call /\ command'[c].status = command[c].status
         /\ \A d \in Commands \ {c} : command'[d] = command[d]
<1> DEFINE w == command[c]
           v1 == [pc |-> pc, pod |-> w.pod, call |-> w.call, status |-> w.status,
                  ref |-> w.ref]
           v2 == [pc |-> pc, pod |-> w.pod, call |-> w.call, status |-> w.status,
                  ref |-> ref]
           f1 == [command EXCEPT ![c] = v1]
<1>1. w \in Sent /\ command \in [Commands -> [pc : {"idle"}] \cup Sent]
  BY DEF Shapes
<1>2. [w EXCEPT !.pc = pc] = v1
  BY <1>1 DEF Sent
<1>3. [v1 EXCEPT !.ref = ref] = v2
  OBVIOUS
<1>4. v2 \in Sent /\ v2.pc = pc /\ v2.ref = ref /\ v2.call = w.call /\ v2.status = w.status
  BY <1>1 DEF Sent
<1> HIDE DEF v1, v2
<1>5. [command EXCEPT ![c].pc = pc] = f1
  BY <1>2
<1>6. [f1 EXCEPT ![c].ref = ref] = [command EXCEPT ![c] = v2]
  BY <1>1, <1>3
<1>7. command' = [command EXCEPT ![c] = v2]
  BY <1>5, <1>6 DEF SetRef
<1>8. v2 \in [pc : {"idle"}] \cup Sent
  BY <1>4
<1> HIDE DEF w, f1
<1>9. /\ command' \in [Commands -> [pc : {"idle"}] \cup Sent] /\ command'[c] = v2
      /\ \A d \in Commands \ {c} : command'[d] = command[d]
  BY <1>1, <1>7, <1>8, Put
<1> QED
  BY <1>4, <1>9 DEF w

LEMMA StatusTo ==
  ASSUME Shapes, NEW c \in Commands, command[c].pc # "idle", NEW status \in RecordStatuses,
         command' = [command EXCEPT ![c].status = status]
  PROVE  /\ command' \in [Commands -> [pc : {"idle"}] \cup Sent]
         /\ command'[c].pc = command[c].pc /\ command'[c].status = status
         /\ command'[c].call = command[c].call /\ command'[c].ref = command[c].ref
         /\ \A d \in Commands \ {c} : command'[d] = command[d]
<1> DEFINE w == command[c]
           v == [pc |-> w.pc, pod |-> w.pod, call |-> w.call, status |-> status,
                 ref |-> w.ref]
<1>1. w \in Sent /\ command \in [Commands -> [pc : {"idle"}] \cup Sent]
  BY DEF Shapes
<1>2. [w EXCEPT !.status = status] = v
  BY <1>1 DEF Sent
<1>3. v \in Sent /\ v.pc = w.pc /\ v.status = status /\ v.call = w.call /\ v.ref = w.ref
  BY <1>1 DEF Sent
<1> HIDE DEF v
<1>4. command' = [command EXCEPT ![c] = v]
  BY <1>2
<1>5. v \in [pc : {"idle"}] \cup Sent
  BY <1>3
<1> HIDE DEF w
<1>6. /\ command' \in [Commands -> [pc : {"idle"}] \cup Sent] /\ command'[c] = v
      /\ \A d \in Commands \ {c} : command'[d] = command[d]
  BY <1>1, <1>4, <1>5, Put
<1> QED
  BY <1>3, <1>6 DEF w

LEMMA UndoTo ==
  ASSUME Shapes, NEW u \in Undos, undoing[u].pc # "idle", NEW pc \in AtUndo, Becomes(u, pc)
  PROVE  /\ undoing' \in [Undos -> [pc : {"idle"}] \cup Asked]
         /\ undoing'[u].pc = pc /\ undoing'[u].command = undoing[u].command
         /\ undoing'[u].ref = undoing[u].ref
         /\ \A v \in Undos \ {u} : undoing'[v] = undoing[v]
<1> DEFINE w == undoing[u]
           v == [pc |-> pc, pod |-> w.pod, command |-> w.command, ref |-> w.ref]
<1>1. w \in Asked /\ undoing \in [Undos -> [pc : {"idle"}] \cup Asked]
  BY DEF Shapes
<1>2. [w EXCEPT !.pc = pc] = v
  BY <1>1 DEF Asked
<1>3. v \in Asked /\ v.pc = pc /\ v.command = w.command /\ v.ref = w.ref
  BY <1>1 DEF Asked
<1> HIDE DEF v
<1>4. undoing' = [undoing EXCEPT ![u] = v]
  BY <1>2 DEF Becomes
<1>5. v \in [pc : {"idle"}] \cup Asked
  BY <1>3
<1> HIDE DEF w
<1>6. /\ undoing' \in [Undos -> [pc : {"idle"}] \cup Asked] /\ undoing'[u] = v
      /\ \A x \in Undos \ {u} : undoing'[x] = undoing[x]
  BY <1>1, <1>4, <1>5, Put
<1> QED
  BY <1>3, <1>6 DEF w

Onward == (Steps \cup Ends) \ {"idle", "refused"}

LEMMA JobTo ==
  ASSUME Shapes, NEW j \in Jobs, job[j].pc \notin {"idle", "refused"}, NEW pc \in Onward,
         Goes(j, pc)
  PROVE  /\ job' \in [Jobs -> [pc : {"idle", "refused"}] \cup Begun]
         /\ job'[j].pc = pc /\ job'[j].application = job[j].application
         /\ job'[j].deposit = job[j].deposit
         /\ \A i \in Jobs \ {j} : job'[i] = job[i]
<1> DEFINE w == job[j]
           v == [pc |-> pc, application |-> w.application, deposit |-> w.deposit]
<1>1. w \in Begun /\ job \in [Jobs -> [pc : {"idle", "refused"}] \cup Begun]
  BY DEF Shapes
<1>2. [w EXCEPT !.pc = pc] = v
  BY <1>1 DEF Begun
<1>3. v \in Begun /\ v.pc = pc /\ v.application = w.application /\ v.deposit = w.deposit
  BY <1>1 DEF Begun, Onward
<1> HIDE DEF v
<1>4. job' = [job EXCEPT ![j] = v]
  BY <1>2 DEF Goes
<1>5. v \in [pc : {"idle", "refused"}] \cup Begun
  BY <1>3
<1> HIDE DEF w
<1>6. /\ job' \in [Jobs -> [pc : {"idle", "refused"}] \cup Begun] /\ job'[j] = v
      /\ \A i \in Jobs \ {j} : job'[i] = job[i]
  BY <1>1, <1>4, <1>5, Put
<1> QED
  BY <1>3, <1>6 DEF w

SetDeposit(j, ref) == job' = [job EXCEPT ![j].pc = "activating", ![j].deposit = ref]

LEMMA DepositTo ==
  ASSUME Shapes, NEW j \in Jobs, job[j].pc \notin {"idle", "refused"}, NEW ref \in References,
         SetDeposit(j, ref)
  PROVE  /\ job' \in [Jobs -> [pc : {"idle", "refused"}] \cup Begun]
         /\ job'[j].pc = "activating" /\ job'[j].application = job[j].application
         /\ job'[j].deposit = ref
         /\ \A i \in Jobs \ {j} : job'[i] = job[i]
<1> DEFINE w == job[j]  pc == "activating"
           v1 == [pc |-> pc, application |-> w.application, deposit |-> w.deposit]
           v2 == [pc |-> pc, application |-> w.application, deposit |-> ref]
           f1 == [job EXCEPT ![j] = v1]
<1>1. w \in Begun /\ job \in [Jobs -> [pc : {"idle", "refused"}] \cup Begun]
  BY DEF Shapes
<1>2. [w EXCEPT !.pc = pc] = v1
  BY <1>1 DEF Begun
<1>3. [v1 EXCEPT !.deposit = ref] = v2
  OBVIOUS
<1>4. v2 \in Begun /\ v2.pc = pc /\ v2.application = w.application /\ v2.deposit = ref
  BY <1>1 DEF Begun, Steps, Ends
<1>5. job' = [job EXCEPT ![j].pc = pc, ![j].deposit = ref]
  BY DEF SetDeposit
<1> HIDE DEF v1, v2, pc
<1>6. [job EXCEPT ![j].pc = pc] = f1
  BY <1>2
<1>7. [f1 EXCEPT ![j].deposit = ref] = [job EXCEPT ![j] = v2]
  BY <1>1, <1>3
<1>8. job' = [job EXCEPT ![j] = v2]
  BY <1>5, <1>6, <1>7
<1>9. v2 \in [pc : {"idle", "refused"}] \cup Begun
  BY <1>4
<1> HIDE DEF w, f1
<1>10. /\ job' \in [Jobs -> [pc : {"idle", "refused"}] \cup Begun] /\ job'[j] = v2
       /\ \A i \in Jobs \ {j} : job'[i] = job[i]
  BY <1>1, <1>8, <1>9, Put
<1> QED
  BY <1>4, <1>10 DEF w, pc

-----------------------------------------------------------------------------
(* The lines of a command *)

LEMMA LineIs ==
  ASSUME NEW ref \in References, NEW a \in Accounts, NEW n \in Int, NEW type \in LineTypes
  PROVE  /\ Line(ref, a, n, type) \in Entry /\ Line(ref, a, n, type).ref = ref
         /\ Line(ref, a, n, type).account = a /\ Line(ref, a, n, type).amount = n
         /\ Line(ref, a, n, type).line = type /\ Line(ref, a, n, type).of = ref
BY DEF Line, Entry

LEMMA MovedByOne ==
  ASSUME NEW a, NEW x \in Entry
  PROVE  Moved(a, {x}) = (IF x.account = a THEN x.amount ELSE 0) /\ IsFiniteSet({x})
<1> DEFINE none == {}  k == IF x.account = a THEN x.amount ELSE 0
<1>1. none \in SUBSET Entry /\ IsFiniteSet(none) /\ x \notin none
  BY FS_EmptySet
<1>2. Moved(a, none) = 0
  BY <1>1, MovedNone DEF Lines
<1>3. none \cup {x} = {x} /\ k \in Int
  BY DEF Entry
<1> HIDE DEF none
<1>4. Moved(a, none \cup {x}) = Moved(a, none) + k
  BY <1>1, MovedMore
<1> HIDE DEF k
<1>5. Moved(a, {x}) = k
  BY <1>2, <1>3, <1>4
<1>6. IsFiniteSet({x})
  BY FS_Singleton
<1> QED
  BY <1>5, <1>6 DEF k

LEMMA CallIs ==
  ASSUME NEW call \in Calls
  PROVE  /\ call.kind \in Kinds /\ call.from \in Accounts /\ call.to \in Accounts
         /\ call.amount \in Nat /\ FeeOf(call) \in Nat
<1>1. call \in Call
  BY CommandsAssumption
<1>2. FeeOf(call) \in Nat
  BY CommandsAssumption DEF FeeOf
<1> QED
  BY <1>1, <1>2 DEF Call

\* A transfer moves its amount, and its fee from the sender.
LEMMA TransferMoves ==
  ASSUME NEW c \in Commands, NEW call \in Calls, call.kind = "transfer", call.from # call.to
  PROVE  /\ LinesFor(c, call) \in SUBSET Entry /\ IsFiniteSet(LinesFor(c, call))
         /\ LinesFor(c, call) # {}
         /\ \A x \in LinesFor(c, call) : /\ x.ref = RefFor(c, call)
                                         /\ x.account \in {call.from, call.to}
         /\ \A a \in Accounts : Moved(a, LinesFor(c, call)) =
              IF a = call.from THEN -call.amount - FeeOf(call)
              ELSE IF a = call.to THEN call.amount ELSE 0
<1> DEFINE ref == RefFor(c, call)  fee == FeeOf(call)
           out == Line(ref, call.from, -call.amount, "TRANSFER_OUT")
           in == Line(ref, call.to, call.amount, "TRANSFER_IN")
           charge == Line(ref, call.from, -fee, "FEE")
           both == {out} \cup {in}
           all == both \cup {charge}
<1>1. ref \in References
  BY RefsAreReferences, CallIs DEF RefFor
<1>2. /\ call.from \in Accounts /\ call.to \in Accounts /\ call.amount \in Nat
      /\ fee \in Nat /\ -call.amount \in Int /\ -fee \in Int
      /\ {"TRANSFER_OUT", "TRANSFER_IN", "FEE"} \subseteq LineTypes
  BY CallIs DEF LineTypes
<1>3. LinesFor(c, call) = {out, in} \cup {Line(ref, call.from, -f, "FEE") : f \in {fee} \ {0}}
  BY DEF LinesFor
<1>4. (fee = 0 => LinesFor(c, call) = both) /\ (fee # 0 => LinesFor(c, call) = all)
  <2>1. fee = 0 => {Line(ref, call.from, -f, "FEE") : f \in {fee} \ {0}} = {}
    OBVIOUS
  <2>2. fee # 0 => {Line(ref, call.from, -f, "FEE") : f \in {fee} \ {0}} = {charge}
    OBVIOUS
  <2> HIDE DEF out, in, charge, fee
  <2> QED
    BY <1>3, <2>1, <2>2
<1> HIDE DEF ref, fee
<1>5. /\ out \in Entry /\ out.ref = ref /\ out.account = call.from
      /\ out.amount = -call.amount /\ out.line = "TRANSFER_OUT"
  BY <1>1, <1>2, LineIs
<1>6. /\ in \in Entry /\ in.ref = ref /\ in.account = call.to
      /\ in.amount = call.amount /\ in.line = "TRANSFER_IN"
  BY <1>1, <1>2, LineIs
<1>7. /\ charge \in Entry /\ charge.ref = ref /\ charge.account = call.from
      /\ charge.amount = -fee /\ charge.line = "FEE"
  BY <1>1, <1>2, LineIs
<1> HIDE DEF out, in, charge
<1>8. in \notin {out} /\ charge \notin both
  BY <1>5, <1>6, <1>7
<1>9. /\ {out} \in SUBSET Entry /\ IsFiniteSet({out}) /\ both \in SUBSET Entry
      /\ IsFiniteSet(both) /\ IsFiniteSet(all) /\ all \in SUBSET Entry
  BY <1>5, <1>6, <1>7, FS_Singleton, FS_AddElement
<1>10. ASSUME NEW a \in Accounts
       PROVE  Moved(a, LinesFor(c, call)) =
                IF a = call.from THEN -call.amount - fee
                ELSE IF a = call.to THEN call.amount ELSE 0
  <2>1. Moved(a, {out}) = IF call.from = a THEN -call.amount ELSE 0
    BY <1>5, MovedByOne
  <2>2. Moved(a, both) = Moved(a, {out}) + (IF call.to = a THEN call.amount ELSE 0)
    BY <1>6, <1>8, <1>9, MovedMore
  <2>3. Moved(a, all) = Moved(a, both) + (IF call.from = a THEN -fee ELSE 0)
    <3> HIDE DEF both
    <3> QED
      BY <1>7, <1>8, <1>9, MovedMore
  <2> HIDE DEF both, all
  <2>4. Moved(a, both) = IF a = call.from THEN -call.amount
                         ELSE IF a = call.to THEN call.amount ELSE 0
    BY <1>2, <2>1, <2>2
  <2>5. CASE fee = 0
    BY <1>2, <1>4, <2>4, <2>5
  <2>6. CASE fee # 0
    <3>1. Moved(a, all) = IF a = call.from THEN -call.amount - fee
                          ELSE IF a = call.to THEN call.amount ELSE 0
      BY <1>2, <2>3, <2>4
    <3> QED
      BY <1>4, <2>6, <3>1
  <2> QED
    BY <2>5, <2>6
<1>11. LinesFor(c, call) \in {both, all}
  BY <1>4
<1>12. \A x \in all : x.ref = ref /\ x.account \in {call.from, call.to}
  BY <1>5, <1>6, <1>7
<1>13. both # {} /\ all # {} /\ both \subseteq all
  OBVIOUS
<1> HIDE DEF both, all
<1>14. /\ LinesFor(c, call) \in SUBSET Entry /\ IsFiniteSet(LinesFor(c, call))
       /\ LinesFor(c, call) # {}
       /\ \A x \in LinesFor(c, call) : x.ref = ref /\ x.account \in {call.from, call.to}
  BY <1>9, <1>11, <1>12, <1>13
<1> QED
  BY <1>10, <1>14 DEF ref, fee

\* The lines of a call the ledger accepts: on accounts that are there, and no
\* balance goes below zero.
LEMMA AcceptedLines ==
  ASSUME TillInv, NEW c \in Commands, NEW call \in Calls, LedgerAccepts(call)
  PROVE  /\ LinesFor(c, call) \in SUBSET Entry /\ IsFiniteSet(LinesFor(c, call))
         /\ LinesFor(c, call) # {}
         /\ \A x \in LinesFor(c, call) : /\ x.ref = RefFor(c, call)
                                         /\ rows[x.account].status # "ABSENT"
         /\ Covers(LinesFor(c, call))
<1>1. \A a \in Accounts : rows[a].balance \in Nat
  BY DEF TillInv, Row
<1>2. /\ call.from \in Accounts /\ call.to \in Accounts /\ call.amount \in Nat
      /\ FeeOf(call) \in Nat /\ -call.amount \in Int /\ call.kind \in Kinds
      /\ {"DEPOSIT", "WITHDRAWAL"} \subseteq LineTypes
  BY CallIs DEF LineTypes
<1>3. RefFor(c, call) \in References
  BY <1>2, RefsAreReferences DEF RefFor
<1>4. CASE call.kind = "deposit"
  <2> DEFINE x == Line(RefFor(c, call), call.to, call.amount, "DEPOSIT")
  <2>1. LinesFor(c, call) = {x}
    BY <1>4 DEF LinesFor
  <2>2. x \in Entry /\ x.ref = RefFor(c, call) /\ x.account = call.to /\ x.amount = call.amount
    BY <1>2, <1>3, LineIs
  <2>3. rows[call.to].status # "ABSENT"
    BY <1>4 DEF LedgerAccepts, Credits
  <2> HIDE DEF x
  <2>4. ASSUME NEW a \in Accounts PROVE rows[a].balance + Moved(a, {x}) >= 0
    <3>1. Moved(a, {x}) \in Nat
      BY <1>2, <2>2, MovedByOne
    <3> QED
      BY <1>1, <3>1
  <2>5. Covers({x})
    BY <2>4 DEF Covers
  <2>6. IsFiniteSet({x})
    BY FS_Singleton
  <2> QED
    BY <2>1, <2>2, <2>3, <2>5, <2>6
<1>5. CASE call.kind = "withdraw"
  <2> DEFINE x == Line(RefFor(c, call), call.from, -call.amount, "WITHDRAWAL")
  <2>1. LinesFor(c, call) = {x}
    BY <1>5 DEF LinesFor
  <2>2. x \in Entry /\ x.ref = RefFor(c, call) /\ x.account = call.from /\ x.amount = -call.amount
    BY <1>2, <1>3, LineIs
  <2>3. rows[call.from].status # "ABSENT" /\ rows[call.from].balance >= call.amount
    BY <1>5 DEF LedgerAccepts, Debits
  <2> HIDE DEF x
  <2>4. ASSUME NEW a \in Accounts PROVE rows[a].balance + Moved(a, {x}) >= 0
    <3>1. Moved(a, {x}) = IF call.from = a THEN -call.amount ELSE 0
      BY <2>2, MovedByOne
    <3> QED
      BY <1>1, <1>2, <2>3, <3>1
  <2>5. Covers({x})
    BY <2>4 DEF Covers
  <2>6. IsFiniteSet({x})
    BY FS_Singleton
  <2> QED
    BY <2>1, <2>2, <2>3, <2>5, <2>6
<1>6. CASE call.kind = "transfer"
  <2>1. /\ call.from # call.to
        /\ rows[call.from].status # "ABSENT" /\ rows[call.to].status # "ABSENT"
        /\ rows[call.from].balance >= call.amount + FeeOf(call)
    BY <1>6 DEF LedgerAccepts, Debits, Credits
  <2> DEFINE lines == LinesFor(c, call)
  <2>2. /\ lines \in SUBSET Entry /\ IsFiniteSet(lines) /\ lines # {}
        /\ \A x \in lines : x.ref = RefFor(c, call) /\ x.account \in {call.from, call.to}
        /\ \A a \in Accounts : Moved(a, lines) =
              IF a = call.from THEN -call.amount - FeeOf(call)
              ELSE IF a = call.to THEN call.amount ELSE 0
    BY <1>6, <2>1, TransferMoves
  <2> HIDE DEF lines
  <2>3. ASSUME NEW a \in Accounts PROVE rows[a].balance + Moved(a, lines) >= 0
    BY <1>1, <1>2, <2>1, <2>2
  <2>4. Covers(lines)
    BY <2>3 DEF Covers
  <2> QED
    BY <2>1, <2>2, <2>4 DEF lines
<1> QED
  BY <1>2, <1>4, <1>5, <1>6 DEF Kinds

-----------------------------------------------------------------------------
(* The desk *)

\* The desk may also take a step that does not touch the ledger.
LEMMA DeskRests ==
  ASSUME BranchInv, rows' = rows, entries' = entries, faults' = faults \/ Fault,
         job' = job, Shapes', HistoryInv',
         \A c \in Commands :
           command'[c] = command[c] \/ CommandOk(c, command'[c], entries, rows),
         \A c \in Commands : command[c].pc # "idle" /\ command[c].ref # NoRef =>
                               command'[c].pc # "idle" /\ command'[c].ref = command[c].ref,
         \A u \in Undos :
           undoing'[u] = undoing[u] \/ UndoOk(u, undoing'[u], entries, command')
  PROVE  BranchInv'
<1>1. TillInv' /\ \A a \in Accounts : Later(rows[a], rows'[a])
  BY RestKeeps DEF BranchInv
<1>2. Grows(entries, entries', NoRef)
  BY DEF Grows
<1>3. /\ \A c \in Commands : \A k \in Kinds : NoRef # <<Prefix[k], c>>
      /\ \A u \in Undos : NoRef # <<"REV", u>>
      /\ \A j \in Jobs : NoRef # Opening(j) /\ NoRef # Refund(j)
  BY RefsAreReferences
<1>4. \A c \in Commands :
           \/ command'[c] = command[c] /\ \A k \in Kinds : NoRef # <<Prefix[k], c>>
           \/ CommandOk(c, command'[c], entries', rows')
  BY <1>3
<1>5. \A u \in Undos :
           \/ undoing'[u] = undoing[u] /\ NoRef # <<"REV", u>>
           \/ UndoOk(u, undoing'[u], entries', command')
  BY <1>3
<1> HIDE DEF NoRef
<1> QED
  BY <1>1, <1>2, <1>3, <1>4, <1>5, DeskTogether

\* What a pod remembers after one more command.
LEMMA Remembers ==
  ASSUME HistoryInv, NEW p \in Pods, NEW c \in Commands
  PROVE  /\ Remember(p, c) \in Histories
         /\ \A i \in 1 .. Len(Remember(p, c)) :
              \/ Remember(p, c)[i] = c
              \/ \E k \in 1 .. Len(history[p]) : Remember(p, c)[i] = history[p][k]
<1> DEFINE h == history[p]  longer == Append(h, c)
<1>1. PICK n \in 0 .. MaxHistory : h \in [1 .. n -> Commands]
  BY DEF HistoryInv, Histories
<1>2. n \in Nat /\ MaxHistory \in Nat /\ MaxHistory # 0
  BY CommandsAssumption
<1> HIDE DEF h
<1>3. h \in Seq(Commands) /\ Len(h) = n
  BY <1>1, <1>2
<1>4. /\ longer \in Seq(Commands) /\ Len(longer) = n + 1 /\ longer[n + 1] = c
      /\ \A i \in 1 .. n : longer[i] = h[i]
  BY <1>2, <1>3
<1> HIDE DEF longer
<1>5. CASE n + 1 > MaxHistory
  <2> DEFINE t == Tail(longer)
  <2>1. n = MaxHistory /\ n # 0
    BY <1>2, <1>5
  <2>2. t \in Seq(Commands) /\ Len(t) = n /\ \A i \in 1 .. n : t[i] = longer[i + 1]
    BY <1>2, <1>4, <2>1
  <2> HIDE DEF t
  <2>3. t \in [1 .. n -> Commands]
    BY <2>2
  <2>4. t \in Histories
    BY <2>3 DEF Histories
  <2>5. \A i \in 1 .. n : t[i] = c \/ \E k \in 1 .. n : t[i] = h[k]
    <3> SUFFICES ASSUME NEW i \in 1 .. n PROVE t[i] = c \/ \E k \in 1 .. n : t[i] = h[k]
      OBVIOUS
    <3>1. CASE i = n
      BY <1>4, <2>2, <3>1
    <3>2. CASE i # n
      <4>1. i + 1 \in 1 .. n
        BY <1>2, <3>2
      <4> QED
        BY <1>4, <2>2, <4>1
    <3> QED
      BY <3>1, <3>2
  <2>6. Remember(p, c) = t
    BY <1>4, <1>5 DEF Remember, longer, t, h
  <2> QED
    BY <1>3, <2>2, <2>4, <2>5, <2>6 DEF h
<1>6. CASE ~(n + 1 > MaxHistory)
  <2>1. Remember(p, c) = longer
    BY <1>4, <1>6 DEF Remember, longer, h
  <2>2. n + 1 \in 0 .. MaxHistory /\ longer \in [1 .. n + 1 -> Commands]
    BY <1>2, <1>4, <1>6
  <2>3. longer \in Histories
    BY <2>2 DEF Histories
  <2>4. \A i \in 1 .. n + 1 : i = n + 1 \/ i \in 1 .. n
    BY <1>2
  <2> QED
    BY <1>3, <1>4, <2>1, <2>3, <2>4 DEF h
<1> QED
  BY <1>5, <1>6

\* The history stays in order as long as no command goes back to idle.
LEMMA HistoryRests ==
  ASSUME HistoryInv, history' = history,
         \A c \in Commands : command[c].pc # "idle" => command'[c].pc # "idle"
  PROVE  HistoryInv'
<1>1. ASSUME NEW p \in Pods, NEW i \in 1 .. Len(history[p])
      PROVE  command'[history[p][i]].pc # "idle"
  <2>1. PICK n \in 0 .. MaxHistory : history[p] \in [1 .. n -> Commands]
    BY DEF HistoryInv, Histories
  <2>2. n \in Nat
    BY CommandsAssumption
  <2>3. Len(history[p]) = n
    BY <2>1, <2>2
  <2>4. history[p][i] \in Commands
    BY <1>1, <2>1, <2>3
  <2>5. command[history[p][i]].pc # "idle"
    BY DEF HistoryInv
  <2> QED
    BY <2>4, <2>5
<1> QED
  BY <1>1 DEF HistoryInv

LEMMA RunKeeps ==
  ASSUME BranchInv, job' = job, clerk' = clerk, NEW c \in Commands, Run(c)
  PROVE  BranchInv'
<1>1. PICK p \in Pods, call \in Calls :
        /\ command' = [command EXCEPT ![c] =
             [pc |-> "running", pod |-> p, call |-> call,
              status |-> "EXECUTED", ref |-> NoRef]]
        /\ history' = [history EXCEPT ![p] = Remember(p, c)]
  BY DEF Run
<1> DEFINE new == [pc |-> "running", pod |-> p, call |-> call,
                   status |-> "EXECUTED", ref |-> NoRef]
<1>2. /\ command[c].pc = "idle" /\ undoing' = undoing /\ crashes' = crashes
      /\ rows' = rows /\ entries' = entries /\ faults' = faults
  BY DEF Run, till
<1>3. Shapes /\ HistoryInv /\ CommandOk(c, command[c], entries, rows)
  BY DEF BranchInv
<1>4. /\ new \in Sent /\ new.pc = "running" /\ new.call = call /\ new.ref = NoRef
      /\ new.status = "EXECUTED"
  BY DEF Sent, AtDesk, RecordStatuses
<1> HIDE DEF new
<1>5. /\ command' \in [Commands -> [pc : {"idle"}] \cup Sent] /\ command'[c] = new
      /\ \A d \in Commands \ {c} : command'[d] = command[d]
  <2>1. command \in [Commands -> [pc : {"idle"}] \cup Sent]
    BY <1>3 DEF Shapes
  <2>2. command' = [command EXCEPT ![c] = new] /\ new \in [pc : {"idle"}] \cup Sent
    BY <1>1, <1>4 DEF new
  <2> QED
    BY <2>1, <2>2, Put
<1>6. Shapes'
  BY <1>2, <1>3, <1>5 DEF Shapes
<1>7. CommandOk(c, new, entries, rows)
  <2>1. Of(entries, RefFor(c, call)) = {}
    BY <1>2, <1>3, CallIs DEF CommandOk, RefFor
  <2> QED
    BY <1>4, <2>1 DEF CommandOk
<1>8. \A d \in Commands : command[d].pc # "idle" => command'[d].pc # "idle"
  BY <1>2, <1>5
<1>9. HistoryInv'
  <2>1. /\ Remember(p, c) \in Histories /\ history \in [Pods -> Histories]
        /\ \A i \in 1 .. Len(Remember(p, c)) :
             \/ Remember(p, c)[i] = c
             \/ \E k \in 1 .. Len(history[p]) : Remember(p, c)[i] = history[p][k]
    BY <1>3, Remembers DEF HistoryInv
  <2> DEFINE longer == Remember(p, c)
  <2> HIDE DEF longer
  <2>2. /\ history' \in [Pods -> Histories] /\ history'[p] = longer
        /\ \A q \in Pods \ {p} : history'[q] = history[q]
    BY <1>1, <2>1 DEF longer
  <2>3. \A q \in Pods : \A i \in 1 .. Len(history[q]) : command'[history[q][i]].pc # "idle"
    <3> DEFINE same == UNCHANGED history
    <3>1. ASSUME NEW q \in Pods, NEW i \in 1 .. Len(history[q])
          PROVE  command'[history[q][i]].pc # "idle"
      <4>1. PICK n \in 0 .. MaxHistory : history[q] \in [1 .. n -> Commands]
        BY <2>1 DEF Histories
      <4>2. n \in Nat
        BY CommandsAssumption
      <4>3. Len(history[q]) = n
        BY <4>1, <4>2
      <4>4. history[q][i] \in Commands
        BY <3>1, <4>1, <4>3
      <4>5. command[history[q][i]].pc # "idle"
        BY <1>3 DEF HistoryInv
      <4> QED
        BY <1>8, <4>4, <4>5
    <3> QED
      BY <3>1
  <2>4. command'[c].pc # "idle"
    BY <1>4, <1>5
  <2>5. ASSUME NEW q \in Pods, NEW i \in 1 .. Len(history'[q])
        PROVE  command'[history'[q][i]].pc # "idle"
    <3>1. CASE q = p
      <4>1. \/ longer[i] = c
            \/ \E k \in 1 .. Len(history[p]) : longer[i] = history[p][k]
        BY <2>1, <2>2, <2>5, <3>1 DEF longer
      <4> QED
        BY <2>2, <2>3, <2>4, <3>1, <4>1
    <3>2. CASE q # p
      BY <2>2, <2>3, <2>5, <3>2
    <3> QED
      BY <3>1, <3>2
  <2> QED
    BY <2>2, <2>5 DEF HistoryInv
<1>10. \A d \in Commands :
         command'[d] = command[d] \/ CommandOk(d, command'[d], entries, rows)
  BY <1>5, <1>7
<1>11. \A d \in Commands : command[d].pc # "idle" /\ command[d].ref # NoRef =>
                             command'[d].pc # "idle" /\ command'[d].ref = command[d].ref
  BY <1>2, <1>5
<1> QED
  BY <1>2, <1>6, <1>9, <1>10, <1>11, DeskRests

\* The ledger commits the lines of a command that was accepted, all at once.
LEMMA ExecuteKeeps ==
  ASSUME BranchInv, job' = job, clerk' = clerk, NEW c \in Commands, Execute(c)
  PROVE  BranchInv'
<1> DEFINE w == command[c]  call == w.call  ref == RefFor(c, call)
           lines == LinesFor(c, call)
<1>1. /\ w.pc = "running" /\ Accepted(call) /\ history' = history /\ undoing' = undoing
      /\ crashes' = crashes /\ (faults' = faults \/ Fault)
  BY DEF Execute
<1>2. Commits(lines)
  BY DEF Execute, LinesOf, LinesFor, RefOf, RefFor
<1>3. /\ TillInv /\ Shapes /\ HistoryInv /\ CommandOk(c, w, entries, rows)
      /\ w \in Sent /\ call \in Calls
  BY <1>1 DEF BranchInv, Shapes, Sent
<1>4. LedgerAccepts(call) /\ Screened(call)
  BY <1>1 DEF Accepted
<1> HIDE DEF call
<1>5. /\ lines \in SUBSET Entry /\ IsFiniteSet(lines) /\ lines # {}
      /\ \A x \in lines : x.ref = ref /\ rows[x.account].status # "ABSENT"
      /\ Covers(lines)
  BY <1>3, <1>4, AcceptedLines
<1> HIDE DEF lines, ref
<1>6. TillInv' /\ \A a \in Accounts : Later(rows[a], rows'[a])
  BY <1>1, <1>2, <1>3, <1>5, CommitKeeps
<1>7. Of(entries, ref) = {}
  BY <1>1, <1>3 DEF CommandOk, ref, call
<1>8. Grows(entries, entries', ref) /\ Of(entries', ref) = lines
  BY <1>2, <1>5, <1>7 DEF Commits, Grows, Of
<1>9. /\ command' \in [Commands -> [pc : {"idle"}] \cup Sent]
      /\ command'[c].pc \in {"answering", "unsure"}
      /\ command'[c].status \in {"EXECUTED", "FAILED"}
      /\ command'[c].call = call /\ command'[c].ref = w.ref
      /\ \A d \in Commands \ {c} : command'[d] = command[d]
  <2>1. \/ To(c, "answering", "EXECUTED")
        \/ To(c, "unsure", "FAILED")
    BY DEF Execute
  <2>2. {"answering", "unsure"} \subseteq AtDesk /\ {"EXECUTED", "FAILED"} \subseteq RecordStatuses
    BY DEF AtDesk, RecordStatuses
  <2>3. command[c].pc # "idle"
    BY <1>1
  <2> QED
    BY <1>3, <2>1, <2>2, <2>3, CommandTo DEF call
<1>10. Cleared(call, rows')
  <2>1. /\ call.kind = "transfer" =>
             /\ ~Suspicious(call) /\ call.from # call.to
             /\ rows[call.from].status # "ABSENT" /\ rows[call.to].status # "ABSENT"
             /\ rows[call.from].currency = rows[call.to].currency
        /\ call.from \in Accounts /\ call.to \in Accounts
    BY <1>3, <1>4, CallIs DEF LedgerAccepts, Screened, Debits, Credits
  <2> QED
    BY <1>6, <2>1 DEF Cleared, Later, There
<1>11. w.ref = NoRef
  BY <1>1, <1>3 DEF CommandOk
<1>12. CommandOk(c, command'[c], entries', rows')
  <2>1. Of(entries', RefFor(c, command'[c].call)) = LinesFor(c, command'[c].call)
    BY <1>8, <1>9 DEF ref, lines
  <2>2. Of(entries', RefFor(c, command'[c].call)) # {}
    BY <1>5, <1>8, <1>9 DEF ref
  <2> QED
    BY <1>9, <1>10, <1>11, <2>1, <2>2 DEF CommandOk
<1>13. \A k \in Kinds, d \in Commands \ {c} : ref # <<Prefix[k], d>>
  BY <1>3, RefsApart, CallIs DEF ref, RefFor
<1>14. /\ \A j \in Jobs : ref # Opening(j) /\ ref # Refund(j)
       /\ \A u \in Undos : ref # <<"REV", u>>
  BY <1>3, RefsApart, CallIs DEF ref, RefFor
<1>15. Shapes'
  BY <1>1, <1>3, <1>9 DEF Shapes
<1>16. \A d \in Commands : command[d].pc # "idle" => command'[d].pc # "idle"
  BY <1>9
<1>17. HistoryInv'
  BY <1>1, <1>3, <1>16, HistoryRests
<1>18. \A d \in Commands :
           \/ command'[d] = command[d] /\ \A k \in Kinds : ref # <<Prefix[k], d>>
           \/ CommandOk(d, command'[d], entries', rows')
  BY <1>9, <1>12, <1>13
<1>19. \A d \in Commands : command[d].pc # "idle" /\ command[d].ref # NoRef =>
                             command'[d].pc # "idle" /\ command'[d].ref = command[d].ref
  BY <1>9, <1>11
<1> HIDE DEF w
<1> QED
  BY <1>1, <1>6, <1>8, <1>14, <1>15, <1>17, <1>18, <1>19, DeskTogether

LEMMA RefuseKeeps ==
  ASSUME BranchInv, job' = job, clerk' = clerk, NEW c \in Commands, Refuse(c)
  PROVE  BranchInv'
<1> DEFINE w == command[c]
<1>1. /\ w.pc = "running" /\ To(c, "failed", "FAILED") /\ history' = history
      /\ undoing' = undoing /\ crashes' = crashes /\ rows' = rows /\ entries' = entries
      /\ faults' = faults \/ Fault
  BY DEF Refuse
<1>2. Shapes /\ HistoryInv /\ CommandOk(c, w, entries, rows)
  BY DEF BranchInv
<1>3. /\ command' \in [Commands -> [pc : {"idle"}] \cup Sent]
      /\ command'[c].pc = "failed" /\ command'[c].status = "FAILED"
      /\ command'[c].call = w.call /\ command'[c].ref = w.ref
      /\ \A d \in Commands \ {c} : command'[d] = command[d]
  <2>1. "failed" \in AtDesk /\ "FAILED" \in RecordStatuses /\ command[c].pc # "idle"
    BY <1>1 DEF AtDesk, RecordStatuses
  <2> QED
    BY <1>1, <1>2, <2>1, CommandTo
<1>4. CommandOk(c, command'[c], entries, rows)
  BY <1>1, <1>2, <1>3 DEF CommandOk
<1>5. w.ref = NoRef
  BY <1>1, <1>2 DEF CommandOk
<1>6. Shapes'
  BY <1>1, <1>2, <1>3 DEF Shapes
<1>7. \A d \in Commands : command[d].pc # "idle" => command'[d].pc # "idle"
  BY <1>3
<1>8. HistoryInv'
  BY <1>1, <1>2, <1>7, HistoryRests
<1>9. \A d \in Commands :
         command'[d] = command[d] \/ CommandOk(d, command'[d], entries, rows)
  BY <1>3, <1>4
<1>10. \A d \in Commands : command[d].pc # "idle" /\ command[d].ref # NoRef =>
                             command'[d].pc # "idle" /\ command'[d].ref = command[d].ref
  BY <1>3, <1>5
<1> QED
  BY <1>1, <1>6, <1>8, <1>9, <1>10, DeskRests

LEMMA AnswerKeeps ==
  ASSUME BranchInv, job' = job, clerk' = clerk, NEW c \in Commands, Answer(c)
  PROVE  BranchInv'
<1> DEFINE w == command[c]  ref == RefFor(c, w.call)
<1>1. /\ w.pc = "answering" /\ SetRef(c, "done", ref) /\ history' = history
      /\ undoing' = undoing /\ crashes' = crashes /\ rows' = rows /\ entries' = entries
      /\ faults' = faults
  BY DEF Answer, SetRef, RefOf, RefFor, till
<1>2. Shapes /\ HistoryInv /\ CommandOk(c, w, entries, rows) /\ w.call \in Calls
  BY <1>1 DEF BranchInv, Shapes, Sent
<1>3. ref \in References /\ ref # NoRef
  BY <1>2, CallIs, RefsAreReferences DEF RefFor
<1> HIDE DEF ref
<1>4. /\ command' \in [Commands -> [pc : {"idle"}] \cup Sent]
      /\ command'[c].pc = "done" /\ command'[c].ref = ref
      /\ command'[c].call = w.call /\ command'[c].status = w.status
      /\ \A d \in Commands \ {c} : command'[d] = command[d]
  <2>1. "done" \in AtDesk /\ command[c].pc # "idle"
    BY <1>1 DEF AtDesk
  <2> QED
    BY <1>1, <1>2, <1>3, <2>1, RefTo
<1>5. w.ref = NoRef
  BY <1>1, <1>2 DEF CommandOk
<1>6. CommandOk(c, command'[c], entries, rows)
  BY <1>1, <1>2, <1>4, <1>5 DEF CommandOk, ref
<1>7. Shapes'
  BY <1>1, <1>2, <1>4 DEF Shapes
<1>8. \A d \in Commands : command[d].pc # "idle" => command'[d].pc # "idle"
  BY <1>4
<1>9. HistoryInv'
  BY <1>1, <1>2, <1>8, HistoryRests
<1>10. \A d \in Commands :
         command'[d] = command[d] \/ CommandOk(d, command'[d], entries, rows)
  BY <1>4, <1>6
<1>11. \A d \in Commands : command[d].pc # "idle" /\ command[d].ref # NoRef =>
                             command'[d].pc # "idle" /\ command'[d].ref = command[d].ref
  BY <1>4, <1>5
<1> QED
  BY <1>1, <1>7, <1>9, <1>10, <1>11, DeskRests

\* A step of an undo request that leaves the ledger and the commands alone.
LEMMA RequestRests ==
  ASSUME BranchInv, job' = job, clerk' = clerk, command' = command, history' = history,
         crashes' = crashes, rows' = rows, entries' = entries, faults' = faults \/ Fault,
         NEW u \in Undos,
         undoing' \in [Undos -> [pc : {"idle"}] \cup Asked],
         \A v \in Undos \ {u} : undoing'[v] = undoing[v],
         UndoOk(u, undoing'[u], entries, command)
  PROVE  BranchInv'
<1>1. Shapes' /\ HistoryInv'
  BY DEF BranchInv, Shapes, HistoryInv
<1>2. \A v \in Undos :
         undoing'[v] = undoing[v] \/ UndoOk(v, undoing'[v], entries, command')
  OBVIOUS
<1> QED
  BY <1>1, <1>2, DeskRests

LEMMA UndoKeeps ==
  ASSUME BranchInv, job' = job, clerk' = clerk, NEW u \in Undos, Undo(u)
  PROVE  BranchInv'
<1>1. PICK p \in Pods, c \in Commands :
        undoing' = [undoing EXCEPT ![u] =
          [pc |-> IF Undoable(p, c) /\ Reversible(command[c].ref)
                  THEN "reversing" ELSE "refused",
           pod |-> p, command |-> c,
           ref |-> IF Undoable(p, c) THEN command[c].ref ELSE NoRef]]
  BY DEF Undo
<1> DEFINE new == [pc |-> IF Undoable(p, c) /\ Reversible(command[c].ref)
                          THEN "reversing" ELSE "refused",
                   pod |-> p, command |-> c,
                   ref |-> IF Undoable(p, c) THEN command[c].ref ELSE NoRef]
<1>2. /\ undoing[u].pc = "idle" /\ command' = command /\ history' = history
      /\ crashes' = crashes /\ rows' = rows /\ entries' = entries /\ faults' = faults
  BY DEF Undo, till
<1>3. Shapes /\ HistoryInv /\ Of(entries, <<"REV", u>>) = {}
  BY <1>2 DEF BranchInv, UndoOk
<1>4. Undoable(p, c) => command[c].pc # "idle" /\ command[c].ref \in References \cup {NoRef}
  <2>1. Undoable(p, c) => command[c].pc # "idle"
    BY <1>3 DEF Undoable, HistoryInv
  <2> QED
    BY <1>3, <2>1 DEF Shapes, Sent
<1>5. new \in Asked
  BY <1>4 DEF Asked, AtUndo
<1>6. /\ new.pc \in {"reversing", "refused"}
      /\ new.pc = "reversing" =>
           /\ Undoable(p, c) /\ new.command = c /\ new.ref = command[c].ref
           /\ Of(entries, new.ref) # {}
  BY DEF Reversible, EntriesOf, Of
<1> HIDE DEF new
<1>7. UndoOk(u, new, entries, command)
  BY <1>3, <1>4, <1>6 DEF UndoOk
<1>8. /\ undoing' \in [Undos -> [pc : {"idle"}] \cup Asked] /\ undoing'[u] = new
      /\ \A v \in Undos \ {u} : undoing'[v] = undoing[v]
  <2>1. undoing \in [Undos -> [pc : {"idle"}] \cup Asked]
    BY <1>3 DEF Shapes
  <2>2. undoing' = [undoing EXCEPT ![u] = new] /\ new \in [pc : {"idle"}] \cup Asked
    BY <1>1, <1>5 DEF new
  <2> QED
    BY <2>1, <2>2, Put
<1> QED
  BY <1>2, <1>7, <1>8, RequestRests

LEMMA ReverseKeeps ==
  ASSUME BranchInv, job' = job, clerk' = clerk, NEW u \in Undos, Reverse(u)
  PROVE  BranchInv'
<1>1. PICK p \in Pods, ref \in {x.ref : x \in entries} :
        undoing' = [undoing EXCEPT ![u] =
          [pc |-> IF Reversible(ref) THEN "reversing" ELSE "refused",
           pod |-> p, command |-> NoCommand, ref |-> ref]]
  BY DEF Reverse
<1> DEFINE new == [pc |-> IF Reversible(ref) THEN "reversing" ELSE "refused",
                   pod |-> p, command |-> NoCommand, ref |-> ref]
<1>2. /\ undoing[u].pc = "idle" /\ command' = command /\ history' = history
      /\ crashes' = crashes /\ rows' = rows /\ entries' = entries /\ faults' = faults
  BY DEF Reverse, till
<1>3. Shapes /\ TillInv /\ Of(entries, <<"REV", u>>) = {}
  BY <1>2 DEF BranchInv, UndoOk
<1>4. ref \in References
  BY <1>3 DEF TillInv, Entry
<1>5. new \in Asked
  BY <1>4 DEF Asked, AtUndo
<1>6. /\ new.pc \in {"reversing", "refused"} /\ new.command = NoCommand
      /\ new.pc = "reversing" => Of(entries, new.ref) # {}
  BY DEF Reversible, EntriesOf, Of
<1> HIDE DEF new
<1>7. UndoOk(u, new, entries, command)
  BY <1>3, <1>6 DEF UndoOk
<1>8. /\ undoing' \in [Undos -> [pc : {"idle"}] \cup Asked] /\ undoing'[u] = new
      /\ \A v \in Undos \ {u} : undoing'[v] = undoing[v]
  <2>1. undoing \in [Undos -> [pc : {"idle"}] \cup Asked]
    BY <1>3 DEF Shapes
  <2>2. undoing' = [undoing EXCEPT ![u] = new] /\ new \in [pc : {"idle"}] \cup Asked
    BY <1>1, <1>5 DEF new
  <2> QED
    BY <2>1, <2>2, Put
<1> QED
  BY <1>2, <1>7, <1>8, RequestRests

LEMMA RefuseReversalKeeps ==
  ASSUME BranchInv, job' = job, clerk' = clerk, NEW u \in Undos, RefuseReversal(u)
  PROVE  BranchInv'
<1>1. /\ undoing[u].pc = "reversing" /\ Becomes(u, "refused") /\ command' = command
      /\ history' = history /\ crashes' = crashes /\ rows' = rows /\ entries' = entries
      /\ faults' = faults \/ Fault
  BY DEF RefuseReversal
<1>2. Shapes /\ Of(entries, <<"REV", u>>) = {}
  BY <1>1 DEF BranchInv, UndoOk
<1>3. /\ undoing' \in [Undos -> [pc : {"idle"}] \cup Asked]
      /\ undoing'[u].pc = "refused"
      /\ \A v \in Undos \ {u} : undoing'[v] = undoing[v]
  <2>1. "refused" \in AtUndo /\ undoing[u].pc # "idle"
    BY <1>1 DEF AtUndo
  <2> QED
    BY <1>1, <1>2, <2>1, UndoTo
<1>4. UndoOk(u, undoing'[u], entries, command)
  BY <1>2, <1>3 DEF UndoOk
<1> QED
  BY <1>1, <1>3, <1>4, RequestRests

Opposite(x, ref, of) == [x EXCEPT !.ref = ref, !.of = of, !.amount = -x.amount]

LEMMA OppositeIs ==
  ASSUME NEW x \in Entry, NEW ref \in References, NEW of \in References
  PROVE  LET y == Opposite(x, ref, of)
         IN  /\ y \in Entry /\ y.ref = ref /\ y.of = of /\ y.account = x.account
             /\ y.line = x.line /\ y.amount = -x.amount
<1> DEFINE n == -x.amount
           v1 == [ref |-> ref, of |-> x.of, account |-> x.account,
                  amount |-> x.amount, line |-> x.line]
           v2 == [ref |-> ref, of |-> of, account |-> x.account,
                  amount |-> x.amount, line |-> x.line]
           v3 == [ref |-> ref, of |-> of, account |-> x.account,
                  amount |-> n, line |-> x.line]
<1>1. n \in Int
  BY DEF Entry
<1> HIDE DEF n
<1>2. [x EXCEPT !.ref = ref] = v1
  BY DEF Entry
<1>3. [v1 EXCEPT !.of = of] = v2
  OBVIOUS
<1>4. [v2 EXCEPT !.amount = n] = v3
  OBVIOUS
<1>5. v3 \in Entry /\ v3.ref = ref /\ v3.of = of /\ v3.account = x.account
      /\ v3.line = x.line /\ v3.amount = n
  BY <1>1 DEF Entry
<1>6. Opposite(x, ref, of) = [x EXCEPT !.ref = ref, !.of = of, !.amount = n]
  BY DEF Opposite, n
<1> HIDE DEF v1, v2, v3
<1>7. Opposite(x, ref, of) = v3
  BY <1>2, <1>3, <1>4, <1>6
<1> QED
  BY <1>5, <1>7 DEF n

\* The lines of a reversal: on accounts that are there, one against each line of
\* the transaction it takes back.
LEMMA ReversalIs ==
  ASSUME TillInv, NEW ref \in References, NEW of
  PROVE  /\ ReversalLines(ref, of) \in SUBSET Entry /\ IsFiniteSet(ReversalLines(ref, of))
         /\ \A y \in ReversalLines(ref, of) :
              y.ref = ref /\ rows[y.account].status # "ABSENT"
         /\ \A x \in Of(entries, of) :
              \E y \in ReversalLines(ref, of) :
                y.of = of /\ y.account = x.account /\ y.line = x.line /\ y.amount = -x.amount
<1> DEFINE S == Of(entries, of)  f == [x \in S |-> Opposite(x, ref, of)]
           lines == {f[x] : x \in S}
<1>1. /\ S \in SUBSET Entry /\ IsFiniteSet(S)
      /\ \A x \in S : x.ref = of /\ rows[x.account].status # "ABSENT"
  BY FS_Subset DEF TillInv, Of
<1>2. \A x \in S : of \in References
  BY <1>1 DEF Entry
<1>3. ReversalLines(ref, of) = {Opposite(x, ref, of) : x \in S}
  BY DEF ReversalLines, Opposite, EntriesOf, Of
<1> HIDE DEF S
<1>4. DOMAIN f = S /\ \A x \in S : f[x] = Opposite(x, ref, of)
  OBVIOUS
<1> HIDE DEF f
<1>5. IsFiniteSet(lines)
  BY <1>1, <1>4, FiniteImage
<1>6. ReversalLines(ref, of) = lines
  BY <1>3, <1>4
<1>7. ASSUME NEW x \in S
      PROVE  /\ f[x] \in Entry /\ f[x].ref = ref /\ rows[f[x].account].status # "ABSENT"
             /\ f[x].of = of /\ f[x].account = x.account /\ f[x].line = x.line
             /\ f[x].amount = -x.amount
  BY <1>1, <1>2, <1>4, <1>7, OppositeIs
<1>8. \A y \in lines : y \in Entry /\ y.ref = ref /\ rows[y.account].status # "ABSENT"
  BY <1>7
<1>9. \A x \in S : \E y \in lines :
        y.of = of /\ y.account = x.account /\ y.line = x.line /\ y.amount = -x.amount
  BY <1>7
<1> HIDE DEF lines
<1> QED
  BY <1>5, <1>6, <1>8, <1>9 DEF S

\* Once they are committed, the transaction is taken back.
LEMMA ReversalTakesBack ==
  ASSUME TillInv, NEW ref \in References, NEW of, Of(entries, ref) = {},
         Of(entries, of) # {}, entries' = entries \cup ReversalLines(ref, of)
  PROVE  Grows(entries, entries', ref) /\ TakenBack(entries', of)
<1>1. /\ \A y \in ReversalLines(ref, of) : y.ref = ref
      /\ \A x \in Of(entries, of) :
           \E y \in ReversalLines(ref, of) :
             y.of = of /\ y.account = x.account /\ y.line = x.line /\ y.amount = -x.amount
  BY ReversalIs
<1>2. ref # of
  OBVIOUS
<1>3. Grows(entries, entries', ref)
  BY <1>1 DEF Grows
<1>4. Of(entries', of) = Of(entries, of)
  BY <1>3, OfKept
<1> QED
  BY <1>1, <1>2, <1>3, <1>4 DEF TakenBack

LEMMA CommitReversalKeeps ==
  ASSUME BranchInv, job' = job, clerk' = clerk, NEW u \in Undos, CommitReversal(u)
  PROVE  BranchInv'
<1> DEFINE ref == <<"REV", u>>  of == undoing[u].ref  lines == ReversalLines(ref, of)
<1>1. /\ undoing[u].pc = "reversing" /\ Covers(lines) /\ Commits(lines)
      /\ command' = command /\ history' = history /\ crashes' = crashes
      /\ faults' = faults \/ Fault
      /\ Becomes(u, "reversed") \/ Becomes(u, "unsure")
  BY DEF CommitReversal
<1>2. /\ TillInv /\ Shapes /\ HistoryInv /\ UndoOk(u, undoing[u], entries, command)
      /\ ref \in References
  BY RefsAreReferences DEF BranchInv
<1>3. Of(entries, ref) = {} /\ Of(entries, of) # {}
  BY <1>1, <1>2 DEF UndoOk
<1>4. /\ lines \in SUBSET Entry /\ IsFiniteSet(lines)
      /\ \A y \in lines : rows[y.account].status # "ABSENT"
  BY <1>2, ReversalIs
<1>5. entries' = entries \cup lines
  BY <1>1 DEF Commits
<1>6. Grows(entries, entries', ref) /\ TakenBack(entries', of)
  BY <1>2, <1>3, <1>5, ReversalTakesBack
<1> HIDE DEF lines
<1>7. TillInv' /\ \A a \in Accounts : Later(rows[a], rows'[a])
  BY <1>1, <1>2, <1>4, CommitKeeps
<1>8. /\ undoing' \in [Undos -> [pc : {"idle"}] \cup Asked]
      /\ undoing'[u].pc \in {"reversed", "unsure"}
      /\ undoing'[u].command = undoing[u].command /\ undoing'[u].ref = of
      /\ \A v \in Undos \ {u} : undoing'[v] = undoing[v]
  <2>1. {"reversed", "unsure"} \subseteq AtUndo /\ undoing[u].pc # "idle"
    BY <1>1 DEF AtUndo
  <2> QED
    BY <1>1, <1>2, <2>1, UndoTo
<1>9. UndoOk(u, undoing'[u], entries', command')
  <2>1. Of(entries', of) # {}
    BY <1>6 DEF TakenBack
  <2> QED
    BY <1>1, <1>2, <1>6, <1>8, <2>1 DEF UndoOk
<1>10. Shapes' /\ HistoryInv'
  BY <1>1, <1>2, <1>8 DEF Shapes, HistoryInv
<1>11. /\ \A c \in Commands, k \in Kinds : ref # <<Prefix[k], c>>
       /\ \A j \in Jobs : ref # Opening(j) /\ ref # Refund(j)
       /\ \A v \in Undos \ {u} : ref # <<"REV", v>>
  BY RefsApart
<1> HIDE DEF ref, of
<1>12. \A v \in Undos :
         \/ undoing'[v] = undoing[v] /\ ref # <<"REV", v>>
         \/ UndoOk(v, undoing'[v], entries', command')
  BY <1>8, <1>9, <1>11
<1>13. \A c \in Commands :
         \/ command'[c] = command[c] /\ \A k \in Kinds : ref # <<Prefix[k], c>>
         \/ CommandOk(c, command'[c], entries', rows')
  BY <1>1, <1>11
<1>14. \A c \in Commands : command[c].pc # "idle" /\ command[c].ref # NoRef =>
                             command'[c].pc # "idle" /\ command'[c].ref = command[c].ref
  BY <1>1
<1>15. \A j \in Jobs : ref # Opening(j) /\ ref # Refund(j)
  BY <1>11
<1> QED
  BY <1>6, <1>7, <1>10, <1>12, <1>13, <1>14, <1>15, DeskTogether

\* The record is marked when the lines have been taken back, not before.
LEMMA FinishUndoKeeps ==
  ASSUME BranchInv, job' = job, clerk' = clerk, NEW u \in Undos, FinishUndo(u)
  PROVE  BranchInv'
<1> DEFINE c == undoing[u].command
<1>1. /\ undoing[u].pc = "reversed" /\ Becomes(u, "done") /\ history' = history
      /\ crashes' = crashes /\ rows' = rows /\ entries' = entries /\ faults' = faults
      /\ IF c = NoCommand THEN command' = command
         ELSE command' = [command EXCEPT ![c].status = "UNDONE"]
  BY DEF FinishUndo, till
<1>2. /\ TillInv /\ Shapes /\ HistoryInv /\ UndoOk(u, undoing[u], entries, command)
      /\ undoing[u] \in Asked
  BY <1>1 DEF BranchInv, Shapes
<1>3. /\ undoing' \in [Undos -> [pc : {"idle"}] \cup Asked] /\ undoing'[u].pc = "done"
      /\ \A v \in Undos \ {u} : undoing'[v] = undoing[v]
  <2>1. "done" \in AtUndo /\ undoing[u].pc # "idle"
    BY <1>1 DEF AtUndo
  <2> QED
    BY <1>1, <1>2, <2>1, UndoTo
<1>4. UndoOk(u, undoing'[u], entries, command')
  BY <1>3 DEF UndoOk
<1>5. \A v \in Undos :
         undoing'[v] = undoing[v] \/ UndoOk(v, undoing'[v], entries, command')
  BY <1>3, <1>4
<1>6. CASE c = NoCommand
  <2>1. command' = command
    BY <1>1, <1>6
  <2>2. Shapes' /\ HistoryInv'
    BY <1>1, <1>2, <1>3, <2>1 DEF Shapes, HistoryInv
  <2> HIDE DEF c
  <2> QED
    BY <1>1, <1>5, <2>1, <2>2, DeskRests
<1>7. CASE c # NoCommand
  <2> DEFINE w == command[c]
  <2>1. /\ c \in Commands /\ w.pc # "idle" /\ w.ref = undoing[u].ref
        /\ TakenBack(entries, w.ref) /\ Of(entries, w.ref) # {}
    BY <1>1, <1>2, <1>7 DEF UndoOk, Asked
  <2>2. w.ref # NoRef
    BY <1>2, <2>1, TillAssumption DEF Of, TillInv, Entry
  <2>3. command' = [command EXCEPT ![c].status = "UNDONE"] /\ "UNDONE" \in RecordStatuses
    BY <1>1, <1>7 DEF RecordStatuses
  <2>4. CommandOk(c, w, entries, rows)
    BY <2>1 DEF BranchInv
  <2> HIDE DEF c
  <2>5. /\ command' \in [Commands -> [pc : {"idle"}] \cup Sent]
        /\ command'[c].pc = w.pc /\ command'[c].status = "UNDONE"
        /\ command'[c].call = w.call /\ command'[c].ref = w.ref
        /\ \A d \in Commands \ {c} : command'[d] = command[d]
    BY <1>2, <2>1, <2>3, StatusTo
  <2>6. CommandOk(c, command'[c], entries, rows)
    BY <2>1, <2>2, <2>4, <2>5 DEF CommandOk
  <2>7. Shapes'
    BY <1>1, <1>2, <1>3, <2>5 DEF Shapes
  <2>8. \A d \in Commands : command[d].pc # "idle" => command'[d].pc # "idle"
    BY <2>1, <2>5
  <2>9. HistoryInv'
    BY <1>1, <1>2, <2>8, HistoryRests
  <2>10. \A d \in Commands :
           command'[d] = command[d] \/ CommandOk(d, command'[d], entries, rows)
    BY <2>5, <2>6
  <2>11. \A d \in Commands : command[d].pc # "idle" /\ command[d].ref # NoRef =>
                               command'[d].pc # "idle" /\ command'[d].ref = command[d].ref
    BY <2>1, <2>5
  <2> QED
    BY <1>1, <1>5, <2>7, <2>9, <2>10, <2>11, DeskRests
<1> QED
  BY <1>6, <1>7

\* A pod dies with what it was running; what was told to clients is not touched.
LEMMA CrashKeeps ==
  ASSUME BranchInv, job' = job, clerk' = clerk, NEW p \in Pods, Crash(p)
  PROVE  BranchInv'
<1>1. /\ crashes < MaxCrashes /\ crashes' = crashes + 1
      /\ history' = [history EXCEPT ![p] = <<>>]
      /\ rows' = rows /\ entries' = entries /\ faults' = faults
  BY DEF Crash, till
<1>2. Shapes /\ HistoryInv
  BY DEF BranchInv
<1>3. ASSUME NEW c \in Commands, command'[c] # command[c]
      PROVE  /\ command[c].pc \in {"running", "answering"} /\ command'[c] \in Sent
             /\ command'[c].pc = "dead" /\ command'[c].call = command[c].call
             /\ command'[c].status = command[c].status /\ command'[c].ref = command[c].ref
  <2> DEFINE w == command[c]
             v == [pc |-> "dead", pod |-> w.pod, call |-> w.call, status |-> w.status,
                   ref |-> w.ref]
  <2>1. w.pc \in {"running", "answering"} /\ command'[c] = [w EXCEPT !.pc = "dead"]
    BY <1>3 DEF Crash
  <2>2. w \in Sent
    BY <1>2, <2>1 DEF Shapes
  <2>3. [w EXCEPT !.pc = "dead"] = v /\ v \in Sent
    BY <2>2 DEF Sent, AtDesk
  <2> QED
    BY <2>1, <2>3
<1>4. ASSUME NEW u \in Undos, undoing'[u] # undoing[u]
      PROVE  /\ undoing[u].pc \in {"reversing", "reversed"} /\ undoing'[u] \in Asked
             /\ undoing'[u].pc = "dead"
  <2> DEFINE w == undoing[u]
             v == [pc |-> "dead", pod |-> w.pod, command |-> w.command, ref |-> w.ref]
  <2>1. w.pc \in {"reversing", "reversed"} /\ undoing'[u] = [w EXCEPT !.pc = "dead"]
    BY <1>4 DEF Crash
  <2>2. w \in Asked
    BY <1>2, <2>1 DEF Shapes
  <2>3. [w EXCEPT !.pc = "dead"] = v /\ v \in Asked
    BY <2>2 DEF Asked, AtUndo
  <2> QED
    BY <2>1, <2>3
<1>5. command' \in [Commands -> [pc : {"idle"}] \cup Sent]
  <2>1. command' = [c \in Commands |-> command'[c]]
    BY DEF Crash
  <2>2. \A c \in Commands : command'[c] \in [pc : {"idle"}] \cup Sent
    BY <1>2, <1>3 DEF Shapes
  <2> QED
    BY <2>1, <2>2
<1>6. undoing' \in [Undos -> [pc : {"idle"}] \cup Asked]
  <2>1. undoing' = [u \in Undos |-> undoing'[u]]
    BY DEF Crash
  <2>2. \A u \in Undos : undoing'[u] \in [pc : {"idle"}] \cup Asked
    BY <1>2, <1>4 DEF Shapes
  <2> QED
    BY <2>1, <2>2
<1>7. Shapes'
  <2>1. crashes' \in 0 .. MaxCrashes
    BY <1>1, <1>2, CommandsAssumption DEF Shapes
  <2> QED
    BY <1>2, <1>5, <1>6, <2>1 DEF Shapes
<1>8. ASSUME NEW c \in Commands, command'[c] # command[c]
      PROVE  command[c].ref = NoRef /\ CommandOk(c, command'[c], entries, rows)
  <2>1. CommandOk(c, command[c], entries, rows)
    BY DEF BranchInv
  <2> QED
    BY <1>3, <1>8, <2>1 DEF CommandOk
<1>9. \A u \in Undos :
        undoing'[u] = undoing[u] \/ UndoOk(u, undoing'[u], entries, command')
  BY <1>4 DEF UndoOk
<1>10. \A c \in Commands :
         command'[c] = command[c] \/ CommandOk(c, command'[c], entries, rows)
  BY <1>8
<1>11. \A c \in Commands : command[c].pc # "idle" /\ command[c].ref # NoRef =>
                             command'[c].pc # "idle" /\ command'[c].ref = command[c].ref
  BY <1>8
<1>12. \A c \in Commands : command[c].pc # "idle" => command'[c].pc # "idle"
  BY <1>3
<1>13. HistoryInv'
  <2>1. <<>> \in Histories
    <3>1. 0 \in 0 .. MaxHistory /\ <<>> \in [1 .. 0 -> Commands]
      BY CommandsAssumption
    <3> QED
      BY <3>1 DEF Histories
  <2>2. /\ history' \in [Pods -> Histories] /\ history'[p] = <<>>
        /\ \A q \in Pods \ {p} : history'[q] = history[q]
    BY <1>1, <1>2, <2>1 DEF HistoryInv
  <2>3. ASSUME NEW q \in Pods, NEW i \in 1 .. Len(history'[q])
        PROVE  command'[history'[q][i]].pc # "idle"
    <3>1. q # p
      BY <2>2, <2>3
    <3>2. history'[q] = history[q] /\ i \in 1 .. Len(history[q])
      BY <2>2, <2>3, <3>1
    <3>3. PICK n \in 0 .. MaxHistory : history[q] \in [1 .. n -> Commands]
      BY <1>2 DEF HistoryInv, Histories
    <3>4. n \in Nat
      BY CommandsAssumption
    <3>5. Len(history[q]) = n
      BY <3>3, <3>4
    <3>6. history[q][i] \in Commands /\ command[history[q][i]].pc # "idle"
      BY <1>2, <3>2, <3>3, <3>5 DEF HistoryInv
    <3> QED
      BY <1>12, <3>2, <3>6
  <2> QED
    BY <2>2, <2>3 DEF HistoryInv
<1> QED
  BY <1>1, <1>7, <1>9, <1>10, <1>11, <1>13, DeskRests

LEMMA DeskKeeps ==
  ASSUME BranchInv, DeskNext, UNCHANGED <<job, clerk>>
  PROVE  BranchInv'
<1>1. ASSUME NEW c \in Commands, Run(c) \/ Execute(c) \/ Refuse(c) \/ Answer(c)
      PROVE  BranchInv'
  BY <1>1, RunKeeps, ExecuteKeeps, RefuseKeeps, AnswerKeeps
<1>2. ASSUME NEW u \in Undos, \/ Undo(u) \/ Reverse(u) \/ CommitReversal(u)
                              \/ RefuseReversal(u) \/ FinishUndo(u)
      PROVE  BranchInv'
  BY <1>2, UndoKeeps, ReverseKeeps, CommitReversalKeeps, RefuseReversalKeeps, FinishUndoKeeps
<1>3. ASSUME NEW p \in Pods, Crash(p) PROVE BranchInv'
  BY <1>3, CrashKeeps
<1> QED
  BY <1>1, <1>2, <1>3 DEF DeskNext

-----------------------------------------------------------------------------
(* Onboarding *)

\* A step of onboarding j that moves no money and changes no account.
LEMMA JobRests ==
  ASSUME BranchInv, UNCHANGED desk, clerk' = clerk, rows' = rows, entries' = entries,
         faults' = faults \/ Fault, NEW j \in Jobs,
         job' \in [Jobs -> [pc : {"idle", "refused"}] \cup Begun],
         \A i \in Jobs \ {j} : job'[i] = job[i],
         JobOk(j, job'[j], entries, rows)
  PROVE  BranchInv'
<1>1. TillInv' /\ \A a \in Accounts : Later(rows[a], rows'[a])
  BY RestKeeps DEF BranchInv
<1>2. \A a \in Accounts : There(rows[a], rows'[a])
  BY <1>1 DEF Later
<1> DEFINE ref == Opening(j)
<1>3. Grows(entries, entries', ref) /\ ref \in {Opening(j), Refund(j)}
  BY DEF Grows
<1>4. JobOk(j, job'[j], entries', rows')
  OBVIOUS
<1> HIDE DEF ref
<1> QED
  BY <1>1, <1>2, <1>3, <1>4, JobTogether

\* One that changes the status of its account.
LEMMA JobChanges ==
  ASSUME BranchInv, UNCHANGED desk, clerk' = clerk, entries' = entries,
         faults' = faults \/ Fault, NEW j \in Jobs, NEW action \in StatusActions,
         Changes(AccountOf[j], action),
         job' \in [Jobs -> [pc : {"idle", "refused"}] \cup Begun],
         \A i \in Jobs \ {j} : job'[i] = job[i],
         (/\ Later(rows[AccountOf[j]], rows'[AccountOf[j]])
          /\ rows'[AccountOf[j]].status = StatusAfter[action])
           => JobOk(j, job'[j], entries, rows')
  PROVE  BranchInv'
<1> DEFINE a == AccountOf[j]
<1>1. a \in Accounts /\ May(a, action) /\ SetStatus(a, action) /\ TillInv
  BY OnboardingAssumption DEF Changes, BranchInv
<1>2. /\ TillInv' /\ \A b \in Accounts : Later(rows[b], rows'[b])
      /\ rows'[a].status = StatusAfter[action]
  <2> HIDE DEF a
  <2> QED
    BY <1>1, StatusKeeps
<1>3. \A b \in Accounts : There(rows[b], rows'[b])
  BY <1>2 DEF Later
<1> DEFINE ref == Opening(j)
<1>4. Grows(entries, entries', ref) /\ ref \in {Opening(j), Refund(j)}
  BY DEF Grows
<1>5. JobOk(j, job'[j], entries', rows')
  BY <1>1, <1>2
<1> HIDE DEF ref, a
<1> QED
  BY <1>2, <1>3, <1>4, <1>5, JobTogether

\* Or one that commits lines under one of its references.
LEMMA JobCommits ==
  ASSUME BranchInv, UNCHANGED desk, clerk' = clerk, faults' = faults \/ Fault,
         NEW j \in Jobs, NEW ref \in {Opening(j), Refund(j)},
         NEW lines \in SUBSET Entry, IsFiniteSet(lines), Commits(lines), Covers(lines),
         \A x \in lines : x.ref = ref /\ rows[x.account].status # "ABSENT",
         Of(entries, ref) = {},
         job' \in [Jobs -> [pc : {"idle", "refused"}] \cup Begun],
         \A i \in Jobs \ {j} : job'[i] = job[i],
         (\A a \in Accounts : Later(rows[a], rows'[a])) => JobOk(j, job'[j], entries', rows')
  PROVE  BranchInv'
<1>1. TillInv' /\ \A a \in Accounts : Later(rows[a], rows'[a])
  BY CommitKeeps DEF BranchInv
<1>2. \A a \in Accounts : There(rows[a], rows'[a])
  BY <1>1 DEF Later
<1>3. Grows(entries, entries', ref)
  BY DEF Commits, Grows
<1> QED
  BY <1>1, <1>2, <1>3, JobTogether

\* What an account is opened with.
LEMMA ReLimited ==
  ASSUME NEW type, NEW limit, NEW rate, NEW minimum, NEW n, NEW m
  PROVE  /\ Settings(type, limit, rate, minimum).limit = limit
         /\ [Settings(type, limit, rate, minimum) EXCEPT !.limit = n, !.minimum = m].limit = n
         /\ [Settings(type, limit, rate, minimum) EXCEPT !.limit = n, !.rate = m].limit = n
<1> DEFINE s == Settings(type, limit, rate, minimum)
           r == [type |-> type, limit |-> n, rate |-> rate, minimum |-> minimum]
<1>1. s.limit = limit
  BY DEF Settings
<1>2. [s EXCEPT !.limit = n] = r
  BY DEF Settings
<1>3. [r EXCEPT !.minimum = m].limit = n /\ [r EXCEPT !.rate = m].limit = n
  OBVIOUS
<1> HIDE DEF r
<1>4. /\ [s EXCEPT !.limit = n, !.minimum = m] = [r EXCEPT !.minimum = m]
      /\ [s EXCEPT !.limit = n, !.rate = m] = [r EXCEPT !.rate = m]
  BY <1>2
<1> HIDE DEF s
<1> QED
  BY <1>1, <1>3, <1>4 DEF s

LEMMA BlueprintIs ==
  ASSUME NEW application \in Applications, Opens(application)
  PROVE  Blueprint(application).limit \in Nat /\ application.currency \in Currencies
<1>1. application.type \in AccountTypes
  BY OnboardingAssumption
<1>2. \A t \in AccountTypes : TypeDefaults[t].limit \in Nat
  BY ReLimited, SMT DEF AccountTypes, TypeDefaults
<1>3. \A p \in DOMAIN Catalog : Catalog[p].limit \in Nat
  <2> DEFINE student == [BasicSaver EXCEPT !.limit = 2000000, !.minimum = 0]
             freelancer == [BasicSaver EXCEPT !.limit = 20000000, !.rate = 925]
             business == Settings("CURRENT", 100000000, 0, 2500000)
             term == Settings("FIXED_DEPOSIT", 0, 1200, 5000000)
  <2>1. BasicSaver.limit \in Nat
    BY ReLimited, SMT DEF BasicSaver
  <2>2. student.limit \in Nat
    BY ReLimited, SMT DEF BasicSaver
  <2>3. freelancer.limit \in Nat
    BY ReLimited, SMT DEF BasicSaver
  <2>4. business.limit \in Nat
    BY ReLimited, SMT
  <2>5. term.limit \in Nat
    BY ReLimited, SMT
  <2>6. Catalog = [BASIC_SAVER |-> BasicSaver, STUDENT_SAVER |-> student,
                   FREELANCER_SAVER |-> freelancer, BUSINESS_CURRENT |-> business,
                   TERM_DEPOSIT_1Y |-> term]
    BY SMT DEF Catalog
  <2> HIDE DEF student, freelancer, business, term
  <2> QED
    BY <2>1, <2>2, <2>3, <2>4, <2>5, <2>6
<1> QED
  BY <1>1, <1>2, <1>3 DEF Opens, Blueprint

LEMMA OpenKeeps ==
  ASSUME BranchInv, UNCHANGED desk, clerk' = clerk, NEW j \in Jobs, Open(j)
  PROVE  BranchInv'
<1> DEFINE a == AccountOf[j]
           row(app) == [status |-> "PENDING", balance |-> 0,
                        limit |-> Blueprint(app).limit, currency |-> app.currency]
           at(pc, app) == [pc |-> pc, application |-> app, deposit |-> NoRef]
           Saved(pc, app) == /\ rows' = [rows EXCEPT ![a] = row(app)]
                             /\ job' = [job EXCEPT ![j] = at(pc, app)]
<1>1. PICK app \in Applications :
        \/ Opens(app) /\ UNCHANGED faults
             /\ Saved(IF app.initial > 0 THEN "depositing" ELSE "activating", app)
        \/ ~Opens(app) /\ UNCHANGED rows /\ Goes(j, "refused") /\ UNCHANGED faults
        \/ Opens(app) /\ Fault
             /\ ((UNCHANGED rows /\ Goes(j, "refused")) \/ Saved("orphaned", app))
  BY DEF Open
<1>2. /\ job[j].pc = "idle" /\ entries' = entries /\ (faults' = faults \/ Fault)
      /\ TillInv /\ Shapes /\ JobOk(j, job[j], entries, rows) /\ a \in Accounts
  BY <1>1, OnboardingAssumption DEF Open, BranchInv
<1>3. rows[a] = Absent /\ Of(entries, Opening(j)) = {} /\ Of(entries, Refund(j)) = {}
  BY <1>2 DEF JobOk
<1>4. job[j] = [pc |-> "idle"] /\ job \in [Jobs -> [pc : {"idle", "refused"}] \cup Begun]
  BY <1>2 DEF Shapes, Begun
<1>5. CASE UNCHANGED rows /\ Goes(j, "refused")
  <2> DEFINE new == [pc |-> "refused"]
  <2> DEFINE old == [pc |-> "idle"]
  <2>1. job' = [job EXCEPT ![j] = new]
    <3>1. [old EXCEPT !.pc = "refused"] = new
      OBVIOUS
    <3>2. job[j] = old
      BY <1>4
    <3> HIDE DEF old, new
    <3>3. [job EXCEPT ![j].pc = "refused"] = [job EXCEPT ![j] = new]
      BY <3>1, <3>2
    <3> QED
      BY <1>5, <3>3 DEF Goes
  <2>2. new \in [pc : {"idle", "refused"}] \cup Begun /\ new.pc = "refused"
    OBVIOUS
  <2> HIDE DEF new
  <2>3. /\ job' \in [Jobs -> [pc : {"idle", "refused"}] \cup Begun] /\ job'[j] = new
        /\ \A i \in Jobs \ {j} : job'[i] = job[i]
    BY <1>4, <2>1, <2>2, Put
  <2>4. JobOk(j, job'[j], entries, rows)
    BY <1>3, <2>2, <2>3 DEF JobOk
  <2> QED
    BY <1>2, <1>5, <2>3, <2>4, JobRests
<1>6. ASSUME NEW pc \in {"depositing", "activating", "orphaned"}, Saved(pc, app), Opens(app),
             pc = "activating" => ~(app.initial > 0)
      PROVE  BranchInv'
  <2> DEFINE new == row(app)  w == at(pc, app)
  <2>1. new \in Row /\ new.status = "PENDING" /\ new # Absent
    BY <1>6, BlueprintIs DEF Row, Statuses, Absent
  <2>2. w \in Begun /\ w.pc = pc /\ w.application = app /\ w.deposit = NoRef
    BY DEF Begun, Steps, Ends
  <2>3. rows' = [rows EXCEPT ![a] = new] /\ job' = [job EXCEPT ![j] = w]
    BY <1>6
  <2> HIDE DEF new, w, a
  <2>4. /\ rows' \in [Accounts -> Row] /\ rows'[a] = new
        /\ \A b \in Accounts \ {a} : rows'[b] = rows[b]
    BY <1>2, <2>1, <2>3 DEF TillInv
  <2>5. /\ job' \in [Jobs -> [pc : {"idle", "refused"}] \cup Begun] /\ job'[j] = w
        /\ \A i \in Jobs \ {j} : job'[i] = job[i]
    <3>1. w \in [pc : {"idle", "refused"}] \cup Begun
      BY <2>2
    <3> QED
      BY <1>4, <2>3, <3>1, Put
  <2>6. TillInv'
    <3>1. \A x \in entries' : rows'[x.account].status # "ABSENT"
      BY <1>2, <2>1, <2>4 DEF TillInv, Entry
    <3>2. faults' \in 0 .. MaxFaults
      BY <1>2, TillAssumption DEF TillInv, Fault
    <3> QED
      BY <1>2, <2>4, <3>1, <3>2 DEF TillInv
  <2>7. \A b \in Accounts : There(rows[b], rows'[b])
    BY <1>3, <2>4 DEF There, Absent, a
  <2>8. \A b \in Accounts : b # AccountOf[j] => Later(rows[b], rows'[b])
    BY <2>4 DEF Later, There, a
  <2>9. JobOk(j, job'[j], entries', rows')
    <3>1. rows'[AccountOf[j]].status = "PENDING"
      BY <2>1, <2>4 DEF a
    <3>2. w.pc = "activating" => ~(w.application.initial > 0)
      BY <1>6, <2>2
    <3>3. w.pc \in {"depositing", "activating", "orphaned"} /\ w.deposit = NoRef
      BY <2>2
    <3> QED
      BY <1>2, <1>3, <2>5, <3>1, <3>2, <3>3 DEF JobOk
  <2> DEFINE ref == Opening(j)
  <2>10. Grows(entries, entries', ref) /\ ref \in {Opening(j), Refund(j)}
    BY <1>2 DEF Grows
  <2> HIDE DEF ref
  <2> QED
    BY <2>5, <2>6, <2>7, <2>8, <2>9, <2>10, JobTogether
<1> HIDE DEF Saved
<1>7. \/ UNCHANGED rows /\ Goes(j, "refused")
      \/ \E pc \in {"depositing", "activating", "orphaned"} :
           Saved(pc, app) /\ Opens(app) /\ (pc = "activating" => ~(app.initial > 0))
  BY <1>1
<1> QED
  BY <1>5, <1>6, <1>7

\* Nothing but the end of the request.
LEMMA JobEnds ==
  ASSUME BranchInv, UNCHANGED desk, clerk' = clerk, rows' = rows, entries' = entries,
         faults' = faults \/ Fault, NEW j \in Jobs, job[j].pc \notin {"idle", "refused"},
         NEW pc \in Onward, Goes(j, pc),
         NEW w, w = job'[j],
         (/\ w.pc = pc /\ w.application = job[j].application /\ w.deposit = job[j].deposit)
           => JobOk(j, w, entries, rows)
  PROVE  BranchInv'
<1>1. Shapes
  BY DEF BranchInv
<1>2. /\ job' \in [Jobs -> [pc : {"idle", "refused"}] \cup Begun]
      /\ job'[j].pc = pc /\ job'[j].application = job[j].application
      /\ job'[j].deposit = job[j].deposit
      /\ \A i \in Jobs \ {j} : job'[i] = job[i]
  BY <1>1, JobTo
<1>3. JobOk(j, job'[j], entries, rows)
  BY <1>2
<1> QED
  BY <1>2, <1>3, JobRests

LEMMA DepositKeeps ==
  ASSUME BranchInv, UNCHANGED desk, clerk' = clerk, NEW j \in Jobs, Deposit(j)
  PROVE  BranchInv'
<1> DEFINE a == AccountOf[j]  w == job[j]  n == Initial(j)
           x == Line(Opening(j), a, n, "DEPOSIT")
<1>1. /\ w.pc = "depositing" /\ TillInv /\ Shapes /\ JobOk(j, w, entries, rows)
      /\ a \in Accounts
  BY OnboardingAssumption DEF Deposit, BranchInv
<1>2. w \in Begun /\ n \in Nat /\ n = w.application.initial
  <2>1. w \in Begun
    BY <1>1 DEF Shapes
  <2> QED
    BY <2>1, OnboardingAssumption DEF Begun, Initial
<1>3. /\ Of(entries, Opening(j)) = {} /\ Of(entries, Refund(j)) = {}
      /\ rows[a].status # "ABSENT" /\ w.deposit = NoRef
  BY <1>1 DEF JobOk
<1>4. CASE Credits(a, n) /\ Commits({x})
            /\ \/ UNCHANGED faults /\ SetDeposit(j, Opening(j))
               \/ Fault /\ Goes(j, "compensating")
  <2> DEFINE lines == {x}  ref == Opening(j)
  <2>1. x \in Entry /\ x.ref = ref /\ x.account = a /\ x.amount = n
    <3>1. ref \in References /\ "DEPOSIT" \in LineTypes /\ n \in Int
      BY <1>2, RefsAreReferences DEF LineTypes
    <3> HIDE DEF a, n
    <3> QED
      BY <1>1, <3>1, LineIs
  <2>2. x = Line(Opening(j), a, w.application.initial, "DEPOSIT")
    BY <1>2
  <2> HIDE DEF x
  <2>3. lines \in SUBSET Entry /\ IsFiniteSet(lines)
        /\ \A y \in lines : y.ref = ref /\ rows[y.account].status # "ABSENT"
    BY <1>3, <2>1, FS_Singleton
  <2>4. Covers(lines)
    <3>1. ASSUME NEW b \in Accounts PROVE rows[b].balance + Moved(b, {x}) >= 0
      <4>1. Moved(b, {x}) \in Nat
        BY <1>2, <2>1, MovedByOne
      <4>2. rows[b].balance \in Nat
        BY <1>1 DEF TillInv, Row
      <4> QED
        BY <4>1, <4>2
    <3> QED
      BY <3>1 DEF Covers
  <2>5. Of(entries', ref) = lines /\ Of(entries', Refund(j)) = {}
    <3>1. entries' = entries \cup lines
      BY <1>4 DEF Commits
    <3>2. Opening(j) # Refund(j)
      BY RefsApart
    <3> HIDE DEF lines
    <3> QED
      BY <1>3, <2>3, <3>1, <3>2 DEF Of
  <2>6. /\ job' \in [Jobs -> [pc : {"idle", "refused"}] \cup Begun]
        /\ job'[j].application = w.application
        /\ \/ job'[j].pc = "activating" /\ job'[j].deposit = ref
           \/ job'[j].pc = "compensating" /\ job'[j].deposit = NoRef
        /\ \A i \in Jobs \ {j} : job'[i] = job[i]
    <3>1. job[j].pc \notin {"idle", "refused"} /\ ref \in References
          /\ "compensating" \in Onward
      BY <1>1, RefsAreReferences DEF Onward, Steps, Ends
    <3>2. CASE SetDeposit(j, ref)
      <4> HIDE DEF ref
      <4> QED
        BY <1>1, <3>1, <3>2, DepositTo
    <3>3. CASE Goes(j, "compensating")
      BY <1>1, <1>3, <3>1, <3>3, JobTo
    <3> QED
      BY <1>4, <3>2, <3>3
  <2>7. (\A b \in Accounts : Later(rows[b], rows'[b])) => JobOk(j, job'[j], entries', rows')
    <3> SUFFICES ASSUME \A b \in Accounts : Later(rows[b], rows'[b])
                 PROVE  JobOk(j, job'[j], entries', rows')
      OBVIOUS
    <3>1. rows'[a].status # "ABSENT"
      BY <1>1, <1>3 DEF Later, There
    <3> HIDE DEF x
    <3> QED
      BY <2>2, <2>5, <2>6, <3>1 DEF JobOk
  <2>8. faults' = faults \/ Fault
    BY <1>4
  <2>9. ref \in {Opening(j), Refund(j)} /\ Of(entries, ref) = {}
    BY <1>3
  <2>10. Commits(lines)
    BY <1>4 DEF x
  <2> HIDE DEF lines, ref
  <2> QED
    BY <2>3, <2>4, <2>6, <2>7, <2>8, <2>9, <2>10, JobCommits
<1>5. CASE Goes(j, "compensating") /\ rows' = rows /\ entries' = entries
            /\ (faults' = faults \/ Fault)
  <2>1. "compensating" \in Onward /\ w.pc \notin {"idle", "refused"}
    BY <1>1 DEF Onward, Steps, Ends
  <2> DEFINE v == job'[j]
  <2>2. v.pc = "compensating" /\ v.deposit = w.deposit => JobOk(j, v, entries, rows)
    BY <1>3 DEF JobOk
  <2> HIDE DEF v
  <2> QED
    BY <1>5, <2>1, <2>2, JobEnds DEF v
<1>6. \/ Credits(a, n) /\ Commits({x})
           /\ \/ UNCHANGED faults /\ SetDeposit(j, Opening(j))
              \/ Fault /\ Goes(j, "compensating")
      \/ Goes(j, "compensating") /\ rows' = rows /\ entries' = entries
           /\ (faults' = faults \/ Fault)
  BY DEF Deposit, SetDeposit
<1> QED
  BY <1>4, <1>5, <1>6

LEMMA ActivateKeeps ==
  ASSUME BranchInv, UNCHANGED desk, clerk' = clerk, NEW j \in Jobs, Activate(j)
  PROVE  BranchInv'
<1> DEFINE a == AccountOf[j]  w == job[j]  v == job'[j]
<1>1. /\ w.pc = "activating" /\ Shapes /\ JobOk(j, w, entries, rows) /\ entries' = entries
      /\ {"welcoming", "compensating"} \subseteq Onward /\ w.pc \notin {"idle", "refused"}
  BY DEF Activate, BranchInv, Onward, Steps, Ends
<1>2. CASE Changes(a, "activate") /\ (faults' = faults \/ Fault)
           /\ (Goes(j, "welcoming") \/ Goes(j, "compensating"))
  <2>1. /\ job' \in [Jobs -> [pc : {"idle", "refused"}] \cup Begun]
        /\ v.pc \in {"welcoming", "compensating"} /\ v.application = w.application
        /\ v.deposit = w.deposit
        /\ \A i \in Jobs \ {j} : job'[i] = job[i]
    BY <1>1, <1>2, JobTo
  <2>2. "activate" \in StatusActions /\ StatusAfter["activate"] = "ACTIVE"
    BY DEF StatusActions, StatusAfter
  <2>3. rows'[a].status = "ACTIVE" => JobOk(j, v, entries, rows')
    <3> HIDE DEF v
    <3> QED
      BY <1>1, <2>1 DEF JobOk
  <2> QED
    BY <1>1, <1>2, <2>1, <2>2, <2>3, JobChanges
<1>3. CASE Goes(j, "compensating") /\ rows' = rows /\ (faults' = faults \/ Fault)
  <2>1. /\ v.pc = "compensating" /\ v.deposit = w.deposit /\ v.application = w.application
          => JobOk(j, v, entries, rows)
    BY <1>1 DEF JobOk
  <2> HIDE DEF v
  <2> QED
    BY <1>1, <1>3, <2>1, JobEnds DEF v
<1> QED
  BY <1>2, <1>3 DEF Activate

LEMMA WelcomeKeeps ==
  ASSUME BranchInv, UNCHANGED desk, clerk' = clerk, NEW j \in Jobs, Welcome(j)
  PROVE  BranchInv'
<1> DEFINE w == job[j]  v == job'[j]
<1>1. /\ w.pc = "welcoming" /\ JobOk(j, w, entries, rows) /\ entries' = entries
      /\ rows' = rows /\ (faults' = faults \/ Fault)
      /\ {"welcomed", "unsure"} \subseteq Onward /\ w.pc \notin {"idle", "refused"}
      /\ Goes(j, "welcomed") \/ Goes(j, "unsure")
  BY DEF Welcome, BranchInv, Onward, Steps, Ends
<1> HIDE DEF v
<1>2. (/\ v.pc \in {"welcomed", "unsure"} /\ v.deposit = w.deposit
       /\ v.application = w.application)
        => JobOk(j, v, entries, rows)
  BY <1>1 DEF JobOk
<1> QED
  BY <1>1, <1>2, JobEnds DEF v

LEMMA CompensateKeeps ==
  ASSUME BranchInv, UNCHANGED desk, clerk' = clerk, NEW j \in Jobs, Compensate(j)
  PROVE  BranchInv'
<1> DEFINE w == job[j]  v == job'[j]
           pc == IF w.deposit = NoRef THEN "closing"
                 ELSE IF Reversible(w.deposit) THEN "refunding" ELSE "stuck"
<1>1. /\ w.pc = "compensating" /\ JobOk(j, w, entries, rows) /\ entries' = entries
      /\ rows' = rows /\ faults' = faults /\ Goes(j, pc)
      /\ w.pc \notin {"idle", "refused"}
  BY DEF Compensate, BranchInv, till
<1>2. /\ pc \in {"closing", "refunding", "stuck"}
      /\ pc = "closing" => w.deposit = NoRef
      /\ pc = "refunding" => w.deposit # NoRef
  OBVIOUS
<1> HIDE DEF pc
<1>3. pc \in Onward
  BY <1>2 DEF Onward, Steps, Ends
<1>4. /\ v.pc = pc /\ v.deposit = w.deposit /\ v.application = w.application
        => JobOk(j, v, entries, rows)
  BY <1>1, <1>2 DEF JobOk
<1> HIDE DEF v
<1> QED
  BY <1>1, <1>3, <1>4, JobEnds DEF v

LEMMA GiveBackKeeps ==
  ASSUME BranchInv, UNCHANGED desk, clerk' = clerk, NEW j \in Jobs, GiveBack(j)
  PROVE  BranchInv'
<1> DEFINE a == AccountOf[j]  w == job[j]  v == job'[j]  ref == Refund(j)
           lines == ReversalLines(ref, w.deposit)
<1>1. /\ w.pc = "refunding" /\ TillInv /\ Shapes /\ JobOk(j, w, entries, rows)
      /\ {"closing", "stuck"} \subseteq Onward /\ w.pc \notin {"idle", "refused"}
      /\ a \in Accounts /\ ref \in References
  BY OnboardingAssumption, RefsAreReferences DEF GiveBack, BranchInv, Onward, Steps, Ends
<1>2. /\ w.deposit = Opening(j) /\ Of(entries, Opening(j)) # {}
      /\ Of(entries, ref) = {} /\ rows[a].status # "ABSENT"
  BY <1>1 DEF JobOk
<1>3. CASE Covers(lines) /\ Commits(lines) /\ (faults' = faults \/ Fault)
           /\ (Goes(j, "closing") \/ Goes(j, "stuck"))
  <2>1. /\ lines \in SUBSET Entry /\ IsFiniteSet(lines)
        /\ \A y \in lines : y.ref = ref /\ rows[y.account].status # "ABSENT"
    <3> HIDE DEF ref
    <3> QED
      BY <1>1, ReversalIs
  <2>2. entries' = entries \cup lines
    BY <1>3 DEF Commits
  <2>3. Grows(entries, entries', ref) /\ TakenBack(entries', w.deposit)
    <3> HIDE DEF ref
    <3> QED
      BY <1>1, <1>2, <2>2, ReversalTakesBack
  <2>4. Of(entries', Opening(j)) = Of(entries, Opening(j))
    <3> HIDE DEF ref, lines
    <3> QED
      BY <1>2, <2>3, OfKept
  <2> HIDE DEF lines
  <2>5. /\ job' \in [Jobs -> [pc : {"idle", "refused"}] \cup Begun]
        /\ v.pc \in {"closing", "stuck"} /\ v.application = w.application
        /\ v.deposit = w.deposit
        /\ \A i \in Jobs \ {j} : job'[i] = job[i]
    BY <1>1, <1>3, JobTo
  <2>6. (\A b \in Accounts : Later(rows[b], rows'[b])) => JobOk(j, v, entries', rows')
    <3> SUFFICES ASSUME \A b \in Accounts : Later(rows[b], rows'[b])
                 PROVE  JobOk(j, v, entries', rows')
      OBVIOUS
    <3>1. rows'[a].status # "ABSENT"
      BY <1>1, <1>2 DEF Later, There
    <3> HIDE DEF v, ref
    <3> QED
      BY <1>1, <2>3, <2>4, <2>5, <3>1 DEF JobOk
  <2>7. ref \in {Opening(j), Refund(j)}
    OBVIOUS
  <2> HIDE DEF ref
  <2> QED
    BY <1>2, <1>3, <2>1, <2>5, <2>6, <2>7, JobCommits
<1>4. CASE Goes(j, "stuck") /\ rows' = rows /\ entries' = entries
           /\ (faults' = faults \/ Fault)
  <2>1. /\ v.pc = "stuck" /\ v.deposit = w.deposit /\ v.application = w.application
          => JobOk(j, v, entries, rows)
    BY <1>1 DEF JobOk
  <2> HIDE DEF v
  <2> QED
    BY <1>1, <1>4, <2>1, JobEnds DEF v
<1>5. \/ Covers(lines) /\ Commits(lines) /\ (faults' = faults \/ Fault)
           /\ (Goes(j, "closing") \/ Goes(j, "stuck"))
      \/ Goes(j, "stuck") /\ rows' = rows /\ entries' = entries
           /\ (faults' = faults \/ Fault)
  BY DEF GiveBack
<1> QED
  BY <1>3, <1>4, <1>5

LEMMA CloseKeeps ==
  ASSUME BranchInv, UNCHANGED desk, clerk' = clerk, NEW j \in Jobs, Close(j)
  PROVE  BranchInv'
<1> DEFINE a == AccountOf[j]  w == job[j]  v == job'[j]
<1>1. /\ w.pc = "closing" /\ Shapes /\ JobOk(j, w, entries, rows) /\ entries' = entries
      /\ {"closed", "leftOpen"} \subseteq Onward /\ w.pc \notin {"idle", "refused"}
  BY DEF Close, BranchInv, Onward, Steps, Ends
<1>2. CASE Changes(a, "close") /\ (faults' = faults \/ Fault)
           /\ (Goes(j, "closed") \/ Goes(j, "leftOpen"))
  <2>1. /\ job' \in [Jobs -> [pc : {"idle", "refused"}] \cup Begun]
        /\ v.pc \in {"closed", "leftOpen"} /\ v.application = w.application
        /\ v.deposit = w.deposit
        /\ \A i \in Jobs \ {j} : job'[i] = job[i]
    BY <1>1, <1>2, JobTo
  <2>2. "close" \in StatusActions /\ StatusAfter["close"] = "CLOSED"
    BY DEF StatusActions, StatusAfter
  <2>3. rows'[a].status = "CLOSED" => JobOk(j, v, entries, rows')
    <3> HIDE DEF v
    <3> QED
      BY <1>1, <2>1 DEF JobOk
  <2> QED
    BY <1>1, <1>2, <2>1, <2>2, <2>3, JobChanges
<1>3. CASE Goes(j, "leftOpen") /\ rows' = rows /\ (faults' = faults \/ Fault)
  <2>1. /\ v.pc = "leftOpen" /\ v.deposit = w.deposit /\ v.application = w.application
          => JobOk(j, v, entries, rows)
    BY <1>1 DEF JobOk
  <2> HIDE DEF v
  <2> QED
    BY <1>1, <1>3, <2>1, JobEnds DEF v
<1> QED
  BY <1>2, <1>3 DEF Close

LEMMA AbandonKeeps ==
  ASSUME BranchInv, UNCHANGED desk, clerk' = clerk, NEW j \in Jobs, Abandon(j)
  PROVE  BranchInv'
<1> DEFINE w == job[j]  v == job'[j]
<1>1. /\ w.pc \in Steps \ {"idle"} /\ JobOk(j, w, entries, rows) /\ entries' = entries
      /\ rows' = rows /\ Fault /\ Goes(j, "dead")
  BY DEF Abandon, BranchInv
<1>2. "dead" \in Onward /\ w.pc \notin {"idle", "refused"}
  BY <1>1 DEF Onward, Steps, Ends
<1>3. /\ v.pc = "dead" /\ v.deposit = w.deposit /\ v.application = w.application
        => JobOk(j, v, entries, rows)
  BY <1>1, <1>2 DEF JobOk
<1> HIDE DEF v
<1> QED
  BY <1>1, <1>2, <1>3, JobEnds DEF v

LEMMA OnboardingKeeps ==
  ASSUME BranchInv, OnboardingNext, UNCHANGED <<desk, clerk>>
  PROVE  BranchInv'
<1>1. ASSUME NEW j \in Jobs,
             \/ Open(j) \/ Deposit(j) \/ Activate(j) \/ Welcome(j) \/ Compensate(j)
             \/ GiveBack(j) \/ Close(j) \/ Abandon(j)
      PROVE  BranchInv'
  <2>1. UNCHANGED desk /\ clerk' = clerk
    OBVIOUS
  <2> QED
    BY <1>1, <2>1, OpenKeeps, DepositKeeps, ActivateKeeps, WelcomeKeeps, CompensateKeeps,
       GiveBackKeeps, CloseKeeps, AbandonKeeps
<1> QED
  BY <1>1 DEF OnboardingNext

-----------------------------------------------------------------------------
(* Every step *)

LEMMA BranchStarts == Init => BranchInv
<1> SUFFICES ASSUME Init PROVE BranchInv
  OBVIOUS
<1>1. /\ rows = OpeningRows /\ entries = {} /\ faults = 0 /\ clerk = 0 /\ crashes = 0
      /\ command = [c \in Commands |-> [pc |-> "idle"]]
      /\ history = [p \in Pods |-> <<>>]
      /\ undoing = [u \in Undos |-> [pc |-> "idle"]]
      /\ job = [j \in Jobs |-> [pc |-> "idle"]]
  BY DEF Init, DeskInit, OnboardingInit
<1>2. TillInv
  BY <1>1, TillAssumption, BranchAssumption, FS_EmptySet DEF TillInv
<1>3. Shapes
  BY <1>1, CommandsAssumption, BranchAssumption DEF Shapes
<1>4. HistoryInv
  <2>1. 0 \in 0 .. MaxHistory /\ <<>> \in [1 .. 0 -> Commands]
    BY CommandsAssumption
  <2>2. <<>> \in Histories
    BY <2>1 DEF Histories
  <2> QED
    BY <1>1, <2>2 DEF HistoryInv
<1>5. \A c \in Commands : CommandOk(c, command[c], entries, rows)
  BY <1>1 DEF CommandOk, Of
<1>6. \A u \in Undos : UndoOk(u, undoing[u], entries, command)
  BY <1>1 DEF UndoOk, Of
<1>7. \A j \in Jobs : JobOk(j, job[j], entries, rows)
  <2> SUFFICES ASSUME NEW j \in Jobs PROVE JobOk(j, job[j], entries, rows)
    OBVIOUS
  <2> DEFINE w == job[j]
  <2>1. w.pc = "idle" /\ rows[AccountOf[j]] = Absent
    BY <1>1, BranchAssumption
  <2>2. Of(entries, Opening(j)) = {} /\ Of(entries, Refund(j)) = {}
    BY <1>1 DEF Of
  <2> HIDE DEF w
  <2>3. JobOk(j, w, entries, rows)
    BY <2>1, <2>2 DEF JobOk
  <2> QED
    BY <2>3 DEF w
<1> QED
  BY <1>2, <1>3, <1>4, <1>5, <1>6, <1>7 DEF BranchInv

LEMMA ClerkKeeps ==
  ASSUME BranchInv, Clerk
  PROVE  BranchInv'
<1>1. PICK a \in Accounts, action \in StatusActions : May(a, action) /\ SetStatus(a, action)
  BY DEF Clerk
<1>2. /\ clerk < MaxClerk /\ clerk' = clerk + 1 /\ entries' = entries /\ faults' = faults
      /\ command' = command /\ history' = history /\ undoing' = undoing
      /\ crashes' = crashes /\ job' = job
  BY DEF Clerk, desk
<1>3. TillInv /\ Shapes /\ HistoryInv
  BY DEF BranchInv
<1>4. TillInv' /\ \A b \in Accounts : Later(rows[b], rows'[b])
  BY <1>1, <1>2, <1>3, StatusKeeps
<1>5. Shapes' /\ HistoryInv'
  <2>1. clerk' \in 0 .. MaxClerk
    BY <1>2, <1>3, BranchAssumption DEF Shapes
  <2> QED
    BY <1>2, <1>3, <2>1 DEF Shapes, HistoryInv
<1>6. Grows(entries, entries', NoRef)
  BY <1>2 DEF Grows
<1>7. /\ \A c \in Commands : \A k \in Kinds : NoRef # <<Prefix[k], c>>
      /\ \A u \in Undos : NoRef # <<"REV", u>>
      /\ \A j \in Jobs : NoRef # Opening(j) /\ NoRef # Refund(j)
  BY RefsAreReferences
<1> HIDE DEF NoRef
<1> QED
  BY <1>2, <1>4, <1>5, <1>6, <1>7, DeskTogether

LEMMA BranchSteps == BranchInv /\ [Next]_vars => BranchInv'
<1> SUFFICES ASSUME BranchInv, [Next]_vars PROVE BranchInv'
  OBVIOUS
<1>1. CASE DeskNext /\ UNCHANGED <<job, clerk>>
  BY <1>1, DeskKeeps
<1>2. CASE OnboardingNext /\ UNCHANGED <<desk, clerk>>
  BY <1>2, OnboardingKeeps
<1>3. CASE Clerk
  BY <1>3, ClerkKeeps
<1>4. CASE UNCHANGED vars
  BY <1>4 DEF vars, till, desk, BranchInv, TillInv, Shapes, HistoryInv
<1> QED
  BY <1>1, <1>2, <1>3, <1>4 DEF Next, Done

LEMMA BranchAlways == Spec => []BranchInv
<1> QED
  BY BranchStarts, BranchSteps, PTL DEF Spec

-----------------------------------------------------------------------------
(* What follows *)

\* Rows, entries, commands, histories, undo requests and onboardings keep their
\* shape; no row's balance is ever negative, and no pod remembers more than
\* MaxHistory commands.
THEOREM BranchTyped == Spec => []TypeOK
<1>1. BranchInv => TypeOK
  <2> SUFFICES ASSUME BranchInv PROVE TypeOK
    OBVIOUS
  <2>1. /\ rows \in [Accounts -> Row] /\ entries \subseteq Entry
        /\ faults \in 0 .. MaxFaults /\ clerk \in 0 .. MaxClerk
    BY DEF BranchInv, TillInv, Shapes
  <2>2. DeskTypeOK
    BY DEF BranchInv, Shapes, HistoryInv, Histories, Sent, Asked, DeskTypeOK
  <2>3. OnboardingTypeOK
    BY DEF BranchInv, Shapes, Begun, OnboardingTypeOK
  <2> QED
    BY <2>1, <2>2, <2>3 DEF TypeOK
<1> QED
  BY <1>1, BranchAlways, PTL

LEMMA TakenBackIs ==
  ASSUME NEW ref, TakenBack(entries, ref)
  PROVE  IsReversed(ref)
BY DEF TakenBack, IsReversed, Of, EntriesOf, ReversalsOf

\* What the desk tells its clients is what the ledger holds: a reference that
\* was handed out has all its lines, a command known to have failed has none, and
\* one marked UNDONE has every line taken back.
THEOREM DeskNeverLies == Spec => []DeskTellsTruth
<1>1. BranchInv => DeskTellsTruth
  <2> SUFFICES ASSUME BranchInv, NEW c \in Commands, command[c].pc # "idle"
               PROVE  /\ command[c].ref # NoRef => EntriesOf(command[c].ref) = LinesOf(c)
                      /\ command[c].pc = "failed" => EntriesOf(RefOf(c)) = {}
                      /\ command[c].status = "UNDONE" =>
                           command[c].ref # NoRef /\ IsReversed(command[c].ref)
    BY DEF DeskTellsTruth
  <2> DEFINE w == command[c]
  <2>1. CommandOk(c, w, entries, rows)
    BY DEF BranchInv
  <2>2. /\ LinesOf(c) = LinesFor(c, w.call) /\ RefOf(c) = RefFor(c, w.call)
        /\ \A ref : EntriesOf(ref) = Of(entries, ref)
    BY DEF LinesOf, LinesFor, RefOf, RefFor, EntriesOf, Of
  <2>3. w.status = "UNDONE" => IsReversed(w.ref)
    BY <2>1, TakenBackIs DEF CommandOk
  <2> HIDE DEF w
  <2> QED
    BY <2>1, <2>2, <2>3 DEF CommandOk, w
<1> QED
  BY <1>1, BranchAlways, PTL

\* A transfer the fraud rules name moves no money; every other one that did moved
\* its amount between two accounts of a currency, and its fee from the sender.
THEOREM ScreenedTransfers == Spec => []TransfersScreened
<1>1. BranchInv => TransfersScreened
  <2> SUFFICES ASSUME BranchInv, NEW c \in Commands, command[c].pc # "idle",
                      command[c].call.kind = "transfer", EntriesOf(RefOf(c)) # {}
               PROVE  LET call == command[c].call  lines == EntriesOf(RefOf(c)) IN
                      /\ ~IsFraud(call)
                      /\ call.from # call.to
                      /\ rows[call.from].currency = rows[call.to].currency
                      /\ Moved(call.to, lines) = call.amount
                      /\ Moved(call.from, lines) =
                           -call.amount - BaseFee
                             - (IF call.channel = "branch" THEN BranchExtra ELSE 0)
    BY DEF TransfersScreened
  <2> DEFINE call == command[c].call  lines == EntriesOf(RefOf(c))
             extra == IF call.channel = "branch" THEN BranchExtra ELSE 0
  <2>1. CommandOk(c, command[c], entries, rows) /\ call \in Calls
    BY DEF BranchInv, Shapes, Sent
  <2>2. lines = Of(entries, RefFor(c, call)) /\ lines # {}
    BY DEF RefOf, RefFor, EntriesOf, Of
  <2>3. lines = LinesFor(c, call) /\ Cleared(call, rows)
    BY <2>1, <2>2 DEF CommandOk
  <2>4. /\ call.from \in Accounts /\ call.to \in Accounts /\ call.amount \in Nat
        /\ FeeOf(call) = BaseFee + extra /\ BaseFee \in Nat /\ extra \in Nat
    BY <2>1, CallIs, CommandsAssumption DEF FeeOf
  <2>5. ~Suspicious(call) /\ call.from # call.to
        /\ rows[call.from].currency = rows[call.to].currency /\ call.kind = "transfer"
    BY <2>3 DEF Cleared
  <2>6. ~IsFraud(call)
    BY <2>1, <2>5, FraudAssumption
  <2> HIDE DEF call, lines, extra
  <2>7. \A a \in Accounts : Moved(a, LinesFor(c, call)) =
          IF a = call.from THEN -call.amount - FeeOf(call)
          ELSE IF a = call.to THEN call.amount ELSE 0
    BY <2>1, <2>5, TransferMoves
  <2>8. Moved(call.to, lines) = call.amount
    BY <2>3, <2>4, <2>5, <2>7
  <2>9. Moved(call.from, lines) = -call.amount - FeeOf(call)
    BY <2>3, <2>4, <2>7
  <2>10. Moved(call.from, lines) = -call.amount - BaseFee - extra
    BY <2>4, <2>9
  <2> QED
    BY <2>5, <2>6, <2>8, <2>10 DEF call, lines, extra
<1> QED
  BY <1>1, BranchAlways, PTL

\* A customer who is welcomed has an activated account with the whole deposit; one
\* who is rolled back has a closed one, and the deposit was given back; one who
\* is refused has none.
THEOREM OnboardedWhole == Spec => []OnboardedOrUndone
<1>1. BranchInv => OnboardedOrUndone
  <2> SUFFICES ASSUME BranchInv, NEW j \in Jobs
               PROVE  /\ job[j].pc \in {"welcoming", "welcomed", "unsure"} =>
                           /\ rows[AccountOf[j]].status # "PENDING"
                           /\ Initial(j) > 0 =>
                                Moved(AccountOf[j], EntriesOf(Opening(j))) = Initial(j)
                      /\ job[j].pc = "closed" =>
                           /\ rows[AccountOf[j]].status = "CLOSED"
                           /\ job[j].deposit # NoRef => IsReversed(job[j].deposit)
                      /\ job[j].pc = "refused" => rows[AccountOf[j]] = Absent
    BY DEF OnboardedOrUndone
  <2> DEFINE w == job[j]  a == AccountOf[j]  n == Initial(j)
             x == Line(Opening(j), a, n, "DEPOSIT")
  <2>1. JobOk(j, w, entries, rows) /\ a \in Accounts
    BY OnboardingAssumption DEF BranchInv
  <2>2. ASSUME w.pc \in {"welcoming", "welcomed", "unsure"}
        PROVE  /\ rows[a].status # "PENDING"
               /\ n > 0 => Moved(a, EntriesOf(Opening(j))) = n
    <3>1. n \in Nat
      <4>1. w \in Begun
        BY <2>2 DEF BranchInv, Shapes
      <4> QED
        BY <4>1, OnboardingAssumption DEF Begun, Initial
    <3>2. /\ rows[a].status # "PENDING"
          /\ n > 0 => Of(entries, Opening(j)) = {x}
      BY <2>1, <2>2 DEF JobOk, Initial
    <3>3. x \in Entry /\ x.account = a /\ x.amount = n
      <4>1. Opening(j) \in References /\ "DEPOSIT" \in LineTypes /\ n \in Int
        BY <3>1, RefsAreReferences DEF LineTypes
      <4> HIDE DEF a, n
      <4> QED
        BY <2>1, <4>1, LineIs
    <3> HIDE DEF x, a, n
    <3>4. Moved(a, {x}) = n
      BY <3>3, MovedByOne
    <3>5. EntriesOf(Opening(j)) = Of(entries, Opening(j))
      BY DEF EntriesOf, Of
    <3> QED
      BY <3>2, <3>4, <3>5
  <2>3. w.pc = "closed" => /\ rows[a].status = "CLOSED"
                           /\ w.deposit # NoRef => IsReversed(w.deposit)
    BY <2>1, TakenBackIs DEF JobOk
  <2>4. w.pc = "refused" => rows[a] = Absent
    BY <2>1 DEF JobOk
  <2> QED
    BY <2>2, <2>3, <2>4
<1> QED
  BY <1>1, BranchAlways, PTL

-----------------------------------------------------------------------------
(* The fraud rules: climbing over tokens and positions *)

\* What holds of 0 and is handed on up to n holds of every number up to n.
LEMMA Climb ==
  ASSUME NEW n \in Nat, NEW S, 0 \in S,
         \A k \in 0 .. n - 1 : k \in S => k + 1 \in S
  PROVE  \A k \in 0 .. n : k \in S
<1> DEFINE U == {k \in 0 .. n : k \notin S}
<1> SUFFICES ASSUME U # {} PROVE FALSE
  OBVIOUS
<1>1. PICK m \in U : \A k \in U : m <= k
  <2>1. U \in SUBSET Nat
    OBVIOUS
  <2> HIDE DEF U
  <2> QED
    BY <2>1, LeastNat
<1>2. m \in 1 .. n
  BY <1>1
<1>3. m - 1 \in 0 .. n - 1 /\ m - 1 \notin U
  BY <1>1, <1>2
<1>4. m - 1 \in S
  BY <1>3
<1>5. (m - 1) + 1 \in S
  BY <1>3, <1>4
<1> QED
  BY <1>1, <1>2, <1>5

Methods == {"not", "and", "or"}

LEMMA KindInside ==
  ASSUME NEW rule, Len(rule) \in Nat, NEW i \in Int, Kind(rule, i) # "end"
  PROVE  i <= Len(rule)
  BY DEF Kind

\* A result is an error, or a tree and a position beyond i and no further
\* than behind the last token.
Ahead(r, i, n) ==
  r = SyntaxError \/ (r.next \in i + 1 .. n + 1 /\ r = Parsed(r.tree, r.next))

AllAhead(r, i, n) == \A m \in Methods : Ahead(r[m], i, n)

LEMMA AheadError ==
  ASSUME NEW r, NEW i \in Nat, NEW n \in Nat, Ahead(r, i, n)
  PROVE  IF IsError(r) THEN r = SyntaxError
         ELSE r.next \in i + 1 .. n + 1 /\ r = Parsed(r.tree, r.next)
  BY DEF Ahead, IsError, SyntaxError

LEMMA AheadParsed ==
  ASSUME NEW t, NEW i \in Nat, NEW n \in Nat, NEW e \in i + 1 .. n + 1
  PROVE  Ahead(Parsed(t, e), i, n) /\ ~IsError(Parsed(t, e))
         /\ Parsed(t, e).tree = t /\ Parsed(t, e).next = e
  BY DEF Ahead, Parsed, IsError

LEMMA AheadSyntaxError ==
  ASSUME NEW i, NEW n
  PROVE  Ahead(SyntaxError, i, n) /\ IsError(SyntaxError)
  BY DEF Ahead, IsError, SyntaxError

LEMMA ComparisonAhead ==
  ASSUME NEW rule, Len(rule) \in Nat, NEW i \in Positions(rule)
  PROVE  /\ Ahead(Comparison(rule, i), i, Len(rule))
         /\ ~IsError(Comparison(rule, i)) => Comparison(rule, i).next = i + 3
<1>1. i \in Nat /\ i + 2 \in Int
  BY DEF Positions
<1>2. CASE Kind(rule, i) = "ident" /\ Kind(rule, i + 1) = "op"
           /\ Kind(rule, i + 2) \in ValueKinds
  <2>1. Kind(rule, i + 2) # "end"
    BY <1>2 DEF ValueKinds
  <2>2. i + 2 <= Len(rule)
    BY <1>1, <2>1, KindInside
  <2>3. i + 3 \in i + 1 .. Len(rule) + 1
    BY <1>1, <2>2
  <2> DEFINE t == <<"compare", rule[i][2], rule[i + 1][2], rule[i + 2]>>
  <2>4. Comparison(rule, i) = Parsed(t, i + 3)
    BY <1>2 DEF Comparison
  <2> HIDE DEF t
  <2>5. /\ Ahead(Parsed(t, i + 3), i, Len(rule))
        /\ Parsed(t, i + 3).next = i + 3
    BY <1>1, <2>3, AheadParsed
  <2> QED
    BY <2>4, <2>5
<1>3. CASE ~(Kind(rule, i) = "ident" /\ Kind(rule, i + 1) = "op"
             /\ Kind(rule, i + 2) \in ValueKinds)
  <2>1. Comparison(rule, i) = SyntaxError
    BY <1>3 DEF Comparison
  <2> QED
    BY <2>1, AheadSyntaxError
<1> QED
  BY <1>2, <1>3

-----------------------------------------------------------------------------
(* The loops *)

Turns(left, rule, parse, word, operand, first) ==
  /\ left[0] = first
  /\ \A k \in 1 .. Len(rule) : left[k] = Turn(rule, parse, word, operand, left[k - 1])

\* There is a function of the turns, and the loop returns its last value.
LEMMA LoopTurns ==
  ASSUME NEW rule, Len(rule) \in Nat, NEW parse, NEW word, NEW operand, NEW first
  PROVE  \E left : /\ Turns(left, rule, parse, word, operand, first)
                   /\ Loop(rule, parse, word, operand, first) = left[Len(rule)]
<1> DEFINE T(x) == Turn(rule, parse, word, operand, x)
           Upto(f, n) == f = [k \in 0 .. n |-> IF k = 0 THEN first ELSE T(f[k - 1])]
           S == {n \in Nat : \E f : Upto(f, n)}
           left == CHOOSE f : Upto(f, Len(rule))
<1> HIDE DEF T
<1>1. 0 \in S
  <2>1. Upto([k \in 0 .. 0 |-> first], 0)
    OBVIOUS
  <2> QED
    BY <2>1
<1>2. ASSUME NEW n \in 0 .. Len(rule) - 1, n \in S PROVE n + 1 \in S
  <2>1. PICK f : Upto(f, n)
    BY <1>2
  <2> DEFINE g == [k \in 0 .. n + 1 |-> IF k = n + 1 THEN T(f[n]) ELSE f[k]]
  <2>2. g[n] = f[n] /\ \A k \in 1 .. n : g[k - 1] = f[k - 1]
    OBVIOUS
  <2>3. \A k \in 0 .. n : f[k] = IF k = 0 THEN first ELSE T(f[k - 1])
    BY <2>1
  <2>4. ASSUME NEW k \in 0 .. n + 1
        PROVE  g[k] = IF k = 0 THEN first ELSE T(g[k - 1])
    <3>1. CASE k = n + 1
      BY <2>2, <3>1
    <3>2. CASE k = 0
      BY <2>3, <3>2
    <3>3. CASE k \in 1 .. n
      <4>1. g[k] = f[k] /\ f[k] = T(f[k - 1]) /\ g[k - 1] = f[k - 1]
        BY <2>2, <2>3, <3>3
      <4> QED
        BY <3>3, <4>1
    <3> QED
      BY <3>1, <3>2, <3>3
  <2>5. DOMAIN g = 0 .. n + 1 /\ g = [k \in 0 .. n + 1 |-> g[k]]
    OBVIOUS
  <2> HIDE DEF g
  <2>6. Upto(g, n + 1)
    BY <2>4, <2>5
  <2> QED
    BY <2>6
<1>3. Len(rule) \in S
  <2> HIDE DEF S
  <2>1. \A k \in 0 .. Len(rule) : k \in S
    BY <1>1, <1>2, Climb
  <2> QED
    BY <2>1
<1>4. Upto(left, Len(rule))
  BY <1>3
<1>5. Loop(rule, parse, word, operand, first) = left[Len(rule)]
  BY DEF Loop, T
<1> HIDE DEF left
<1>6. Turns(left, rule, parse, word, operand, first)
  BY <1>4 DEF Turns, T
<1> QED
  BY <1>5, <1>6

\* A turn looks only at positions beyond where it is, and stays ahead.
LEMMA TurnAgrees ==
  ASSUME NEW rule, Len(rule) \in Nat, NEW f, NEW g, NEW i \in Positions(rule),
         NEW word \in {"and", "or"}, NEW operand \in Methods, NEW x,
         Ahead(x, i, Len(rule)),
         \A j \in Positions(rule) : j > i => f[j] = g[j] /\ AllAhead(f[j], j, Len(rule))
  PROVE  /\ Turn(rule, f, word, operand, x) = Turn(rule, g, word, operand, x)
         /\ Ahead(Turn(rule, f, word, operand, x), i, Len(rule))
<1>1. CASE IsError(x) \/ Kind(rule, x.next) # word
  BY <1>1 DEF Turn
<1>2. CASE ~(IsError(x) \/ Kind(rule, x.next) # word)
  <2>1. i \in Nat /\ x.next \in i + 1 .. Len(rule) + 1
    BY <1>2, AheadError DEF Positions
  <2>2. Kind(rule, x.next) # "end"
    BY <1>2
  <2>3. x.next <= Len(rule)
    BY <2>1, <2>2, KindInside
  <2> DEFINE j == x.next + 1
  <2>4. j \in Positions(rule) /\ j > i /\ j \in Nat
    BY <2>1, <2>3 DEF Positions
  <2>5. f[j] = g[j] /\ Ahead(f[j][operand], j, Len(rule))
    BY <2>4 DEF AllAhead
  <2> DEFINE r == f[j][operand]
  <2>6. Turn(rule, f, word, operand, x)
          = IF IsError(r) THEN SyntaxError
            ELSE Parsed(<<word, x.tree, r.tree>>, r.next)
    BY <1>2 DEF Turn
  <2>7. Turn(rule, g, word, operand, x)
          = IF IsError(r) THEN SyntaxError
            ELSE Parsed(<<word, x.tree, r.tree>>, r.next)
    BY <1>2, <2>5 DEF Turn
  <2>8. ~IsError(r) => r.next \in i + 1 .. Len(rule) + 1
    <3>1. ~IsError(r) => r.next \in j + 1 .. Len(rule) + 1
      BY <2>4, <2>5, AheadError
    <3> QED
      BY <2>1, <2>4, <3>1
  <2> HIDE DEF j, r
  <2>9. Ahead(IF IsError(r) THEN SyntaxError
              ELSE Parsed(<<word, x.tree, r.tree>>, r.next), i, Len(rule))
    BY <2>1, <2>8, AheadParsed, AheadSyntaxError
  <2> QED
    BY <2>6, <2>7, <2>9
<1> QED
  BY <1>1, <1>2

LEMMA LoopAgrees ==
  ASSUME NEW rule, Len(rule) \in Nat, NEW f, NEW g, NEW i \in Positions(rule),
         NEW word \in {"and", "or"}, NEW operand \in Methods, NEW first,
         Ahead(first, i, Len(rule)),
         \A j \in Positions(rule) : j > i => f[j] = g[j] /\ AllAhead(f[j], j, Len(rule))
  PROVE  /\ Loop(rule, f, word, operand, first) = Loop(rule, g, word, operand, first)
         /\ Ahead(Loop(rule, f, word, operand, first), i, Len(rule))
<1>1. PICK a : /\ Turns(a, rule, f, word, operand, first)
               /\ Loop(rule, f, word, operand, first) = a[Len(rule)]
  BY LoopTurns
<1>2. PICK b : /\ Turns(b, rule, g, word, operand, first)
               /\ Loop(rule, g, word, operand, first) = b[Len(rule)]
  BY LoopTurns
<1> DEFINE S == {k \in 0 .. Len(rule) : a[k] = b[k] /\ Ahead(a[k], i, Len(rule))}
<1>3. 0 \in S
  BY <1>1, <1>2 DEF Turns
<1>4. ASSUME NEW k \in 0 .. Len(rule) - 1, k \in S PROVE k + 1 \in S
  <2>1. k + 1 \in 1 .. Len(rule) /\ (k + 1) - 1 = k
    OBVIOUS
  <2>2. a[k + 1] = Turn(rule, f, word, operand, a[k])
    BY <1>1, <2>1 DEF Turns
  <2>3. b[k + 1] = Turn(rule, g, word, operand, b[k])
    BY <1>2, <2>1 DEF Turns
  <2>4. a[k] = b[k] /\ Ahead(a[k], i, Len(rule))
    BY <1>4
  <2>5. /\ Turn(rule, f, word, operand, a[k]) = Turn(rule, g, word, operand, a[k])
        /\ Ahead(Turn(rule, f, word, operand, a[k]), i, Len(rule))
    BY <2>4, TurnAgrees
  <2> QED
    BY <2>1, <2>2, <2>3, <2>4, <2>5
<1>5. Len(rule) \in S
  <2> HIDE DEF S
  <2>1. \A k \in 0 .. Len(rule) : k \in S
    BY <1>3, <1>4, Climb
  <2> QED
    BY <2>1
<1> QED
  BY <1>1, <1>2, <1>5

-----------------------------------------------------------------------------
(* The parser is a function *)

NegationOf(rule, f, i)    == ParseNot(rule, f, i)
ConjunctionOf(rule, f, i) == Loop(rule, f, "and", "not", NegationOf(rule, f, i))
DisjunctionOf(rule, f, i) == Loop(rule, f, "or", "and", ConjunctionOf(rule, f, i))

LEMMA ParseAtParts ==
  ASSUME NEW rule, NEW f, NEW i
  PROVE  /\ ParseAt(rule, f, i) = [not |-> NegationOf(rule, f, i),
                                   and |-> ConjunctionOf(rule, f, i),
                                   or  |-> DisjunctionOf(rule, f, i)]
         /\ ParseAt(rule, f, i)["not"] = NegationOf(rule, f, i)
         /\ ParseAt(rule, f, i)["and"] = ConjunctionOf(rule, f, i)
         /\ ParseAt(rule, f, i)["or"] = DisjunctionOf(rule, f, i)
  BY DEF ParseAt, NegationOf, ConjunctionOf, DisjunctionOf

LEMMA NotAgrees ==
  ASSUME NEW rule, Len(rule) \in Nat, NEW f, NEW g, NEW i \in Positions(rule),
         \A j \in Positions(rule) : j > i => f[j] = g[j] /\ AllAhead(f[j], j, Len(rule))
  PROVE  /\ ParseNot(rule, f, i) = ParseNot(rule, g, i)
         /\ Ahead(ParseNot(rule, f, i), i, Len(rule))
<1>1. i \in Nat /\ i \in Int
  BY DEF Positions
<1>2. ASSUME Kind(rule, i) # "end"
      PROVE  /\ i <= Len(rule) /\ i + 1 \in Positions(rule) /\ f[i + 1] = g[i + 1]
             /\ AllAhead(f[i + 1], i + 1, Len(rule))
  <2>1. i <= Len(rule)
    BY <1>1, <1>2, KindInside
  <2>2. i + 1 \in Positions(rule) /\ i + 1 > i
    BY <1>1, <2>1 DEF Positions
  <2> QED
    BY <2>1, <2>2
<1>3. CASE Kind(rule, i) = "not"
  <2> DEFINE inner == f[i + 1].not
  <2>1. /\ f[i + 1] = g[i + 1] /\ i + 1 \in Nat
        /\ Ahead(inner, i + 1, Len(rule))
    BY <1>1, <1>2, <1>3 DEF AllAhead, Methods
  <2>2. /\ ParseNot(rule, f, i) = IF IsError(inner) THEN SyntaxError
                                  ELSE Parsed(<<"not", inner.tree>>, inner.next)
        /\ ParseNot(rule, g, i) = IF IsError(inner) THEN SyntaxError
                                  ELSE Parsed(<<"not", inner.tree>>, inner.next)
    BY <1>3, <2>1 DEF ParseNot
  <2>3. ~IsError(inner) => inner.next \in i + 1 .. Len(rule) + 1
    <3>1. ~IsError(inner) => inner.next \in (i + 1) + 1 .. Len(rule) + 1
      BY <2>1, AheadError
    <3> QED
      BY <1>1, <3>1
  <2> HIDE DEF inner
  <2> QED
    BY <1>1, <2>2, <2>3, AheadParsed, AheadSyntaxError
<1>4. CASE Kind(rule, i) = "lparen"
  <2> DEFINE inner == f[i + 1].or
  <2>1. /\ f[i + 1] = g[i + 1] /\ i + 1 \in Nat
        /\ Ahead(inner, i + 1, Len(rule))
    BY <1>1, <1>2, <1>4 DEF AllAhead, Methods
  <2>2. /\ ParseNot(rule, f, i)
             = IF ~IsError(inner) /\ Kind(rule, inner.next) = "rparen"
               THEN Parsed(inner.tree, inner.next + 1) ELSE SyntaxError
        /\ ParseNot(rule, g, i)
             = IF ~IsError(inner) /\ Kind(rule, inner.next) = "rparen"
               THEN Parsed(inner.tree, inner.next + 1) ELSE SyntaxError
    BY <1>4, <2>1 DEF ParseNot, ParsePrimary
  <2>3. ~IsError(inner) /\ Kind(rule, inner.next) = "rparen"
          => inner.next + 1 \in i + 1 .. Len(rule) + 1
    <3> SUFFICES ASSUME ~IsError(inner), Kind(rule, inner.next) = "rparen"
                 PROVE  inner.next + 1 \in i + 1 .. Len(rule) + 1
      OBVIOUS
    <3>1. inner.next \in (i + 1) + 1 .. Len(rule) + 1
      BY <2>1, AheadError
    <3>2. Kind(rule, inner.next) # "end" /\ inner.next \in Int
      BY <3>1
    <3>3. inner.next <= Len(rule)
      BY <3>2, KindInside
    <3> QED
      BY <1>1, <3>1, <3>3
  <2> HIDE DEF inner
  <2> QED
    BY <1>1, <2>2, <2>3, AheadParsed, AheadSyntaxError
<1>5. CASE Kind(rule, i) # "not" /\ Kind(rule, i) # "lparen"
  <2>1. /\ ParseNot(rule, f, i) = Comparison(rule, i)
        /\ ParseNot(rule, g, i) = Comparison(rule, i)
    BY <1>5 DEF ParseNot, ParsePrimary
  <2> QED
    BY <2>1, ComparisonAhead
<1> QED
  BY <1>3, <1>4, <1>5

\* What the methods return at a position depends on what they return beyond it.
LEMMA ParseAtAgrees ==
  ASSUME NEW rule, Len(rule) \in Nat, NEW f, NEW g, NEW i \in Positions(rule),
         \A j \in Positions(rule) : j > i => f[j] = g[j] /\ AllAhead(f[j], j, Len(rule))
  PROVE  /\ ParseAt(rule, f, i) = ParseAt(rule, g, i)
         /\ AllAhead(ParseAt(rule, f, i), i, Len(rule))
<1>1. /\ NegationOf(rule, f, i) = NegationOf(rule, g, i)
      /\ Ahead(NegationOf(rule, f, i), i, Len(rule))
  BY NotAgrees DEF NegationOf
<1>2. /\ ConjunctionOf(rule, f, i) = ConjunctionOf(rule, g, i)
      /\ Ahead(ConjunctionOf(rule, f, i), i, Len(rule))
  <2>1. "and" \in {"and", "or"} /\ "not" \in Methods
    BY DEF Methods
  <2>2. /\ Loop(rule, f, "and", "not", NegationOf(rule, f, i))
             = Loop(rule, g, "and", "not", NegationOf(rule, f, i))
        /\ Ahead(Loop(rule, f, "and", "not", NegationOf(rule, f, i)), i, Len(rule))
    BY <1>1, <2>1, LoopAgrees
  <2> QED
    BY <1>1, <2>2 DEF ConjunctionOf
<1>3. /\ DisjunctionOf(rule, f, i) = DisjunctionOf(rule, g, i)
      /\ Ahead(DisjunctionOf(rule, f, i), i, Len(rule))
  <2>1. "or" \in {"and", "or"} /\ "and" \in Methods
    BY DEF Methods
  <2>2. /\ Loop(rule, f, "or", "and", ConjunctionOf(rule, f, i))
             = Loop(rule, g, "or", "and", ConjunctionOf(rule, f, i))
        /\ Ahead(Loop(rule, f, "or", "and", ConjunctionOf(rule, f, i)), i, Len(rule))
    BY <1>2, <2>1, LoopAgrees
  <2> QED
    BY <1>2, <2>2 DEF DisjunctionOf
<1> QED
  BY <1>1, <1>2, <1>3, ParseAtParts DEF AllAhead, Methods

IsParse(f, rule) == f = [i \in Positions(rule) |-> ParseAt(rule, f, i)]

\* The last n positions are parsed.
Known(f, rule, n) ==
  \A i \in Positions(rule) : i > Len(rule) + 1 - n =>
    f[i] = ParseAt(rule, f, i) /\ AllAhead(f[i], i, Len(rule))

LEMMA ParseExists ==
  ASSUME NEW rule, Len(rule) \in Nat
  PROVE  \E f : IsParse(f, rule)
<1> DEFINE N == Len(rule)
           S == {n \in Nat : \E f : f = [i \in Positions(rule) |-> f[i]] /\ Known(f, rule, n)}
<1>1. 0 \in S
  <2> DEFINE f == [i \in Positions(rule) |-> 0]
  <2>1. f = [i \in Positions(rule) |-> f[i]]
    OBVIOUS
  <2> HIDE DEF f
  <2>2. Known(f, rule, 0)
    BY DEF Known, Positions
  <2> QED
    BY <2>1, <2>2
<1>2. ASSUME NEW n \in 0 .. (N + 1) - 1, n \in S PROVE n + 1 \in S
  <2>1. PICK f : Known(f, rule, n)
    BY <1>2
  <2> DEFINE p == N + 1 - n
             g == [i \in Positions(rule) |-> IF i = p THEN ParseAt(rule, f, p) ELSE f[i]]
  <2>2. p \in Positions(rule) /\ p \in Nat
    BY DEF Positions
  <2>3. \A j \in Positions(rule) : j > p => f[j] = g[j] /\ AllAhead(f[j], j, N)
    BY <2>1, <2>2 DEF Known, Positions
  <2>4. ASSUME NEW i \in Positions(rule), i > N + 1 - (n + 1)
        PROVE  g[i] = ParseAt(rule, g, i) /\ AllAhead(g[i], i, N)
    <3>1. i \in Nat /\ (i = p \/ i > p)
      BY <2>4 DEF Positions
    <3>2. \A j \in Positions(rule) : j > i => f[j] = g[j] /\ AllAhead(f[j], j, N)
      <4> SUFFICES ASSUME NEW j \in Positions(rule), j > i
                   PROVE  f[j] = g[j] /\ AllAhead(f[j], j, N)
        OBVIOUS
      <4>1. j > p
        BY <2>2, <3>1 DEF Positions
      <4> QED
        BY <2>3, <4>1
    <3> HIDE DEF g
    <3>3. ParseAt(rule, f, i) = ParseAt(rule, g, i) /\ AllAhead(ParseAt(rule, f, i), i, N)
      BY <3>2, ParseAtAgrees
    <3> USE DEF g
    <3>4. g[i] = ParseAt(rule, f, i)
      <4>1. CASE i = p
        BY <4>1
      <4>2. CASE i > p
        <5>1. i # p
          BY <2>2, <3>1, <4>2
        <5>2. g[i] = f[i]
          BY <5>1
        <5>3. f[i] = ParseAt(rule, f, i)
          BY <2>1, <4>2 DEF Known
        <5> QED
          BY <5>2, <5>3
      <4> QED
        BY <3>1, <4>1, <4>2
    <3> QED
      BY <3>3, <3>4
  <2>5. g = [i \in Positions(rule) |-> g[i]]
    OBVIOUS
  <2> HIDE DEF g
  <2>6. Known(g, rule, n + 1)
    BY <2>4 DEF Known
  <2> QED
    BY <2>5, <2>6
<1>3. N + 1 \in S
  <2> HIDE DEF S
  <2>1. \A k \in 0 .. N + 1 : k \in S
    BY <1>1, <1>2, Climb
  <2> QED
    BY <2>1
<1>4. PICK f : f = [i \in Positions(rule) |-> f[i]] /\ Known(f, rule, N + 1)
  BY <1>3
<1>5. \A i \in Positions(rule) : f[i] = ParseAt(rule, f, i)
  BY <1>4 DEF Known, Positions
<1> QED
  BY <1>4, <1>5 DEF IsParse

LEMMA ParseAhead ==
  ASSUME NEW rule, Len(rule) \in Nat, NEW f, IsParse(f, rule)
  PROVE  \A i \in Positions(rule) :
           f[i] = ParseAt(rule, f, i) /\ AllAhead(f[i], i, Len(rule))
<1> DEFINE N == Len(rule)
           S == {n \in Nat : Known(f, rule, n)}
<1>1. \A i \in Positions(rule) : f[i] = ParseAt(rule, f, i)
  BY DEF IsParse
<1>2. 0 \in S
  BY DEF Known, Positions
<1>3. ASSUME NEW n \in 0 .. (N + 1) - 1, n \in S PROVE n + 1 \in S
  <2>1. Known(f, rule, n)
    BY <1>3
  <2>2. ASSUME NEW i \in Positions(rule), i > N + 1 - (n + 1)
        PROVE  AllAhead(f[i], i, N)
    <3>1. \A j \in Positions(rule) : j > i => f[j] = f[j] /\ AllAhead(f[j], j, N)
      BY <2>1, <2>2 DEF Known, Positions
    <3>2. AllAhead(ParseAt(rule, f, i), i, N)
      BY <3>1, ParseAtAgrees
    <3> QED
      BY <1>1, <3>2
  <2>3. Known(f, rule, n + 1)
    BY <1>1, <2>2 DEF Known
  <2> QED
    BY <2>3
<1>4. N + 1 \in S
  <2> HIDE DEF S
  <2>1. \A k \in 0 .. N + 1 : k \in S
    BY <1>2, <1>3, Climb
  <2> QED
    BY <2>1
<1> QED
  BY <1>4 DEF Known, Positions

\* Whole is what such a function says of parseOr at the first token.
LEMMA WholeParses ==
  ASSUME NEW rule, Len(rule) \in Nat
  PROVE  \E f : IsParse(f, rule) /\ Whole(rule) = f[1]["or"]
<1> DEFINE f == CHOOSE x : IsParse(x, rule)
<1>1. IsParse(f, rule)
  BY ParseExists
<1>2. Whole(rule) = f[1]["or"]
  BY DEF Whole, IsParse
<1> QED
  BY <1>1, <1>2

-----------------------------------------------------------------------------
(* The grammar is a function *)

Ands(rule, g, i, j) ==
  NotTrees(rule, g, i, j) \cup ChainTrees(rule, g, "and", "and", "not", i, j)
Ors(rule, g, i, j) ==
  Ands(rule, g, i, j) \cup ChainTrees(rule, g, "or", "or", "and", i, j)

LEMMA TreesAtParts ==
  ASSUME NEW rule, NEW g, NEW i, NEW j
  PROVE  /\ TreesAt(rule, g, i, j) = [not |-> NotTrees(rule, g, i, j),
                                      and |-> Ands(rule, g, i, j),
                                      or  |-> Ors(rule, g, i, j)]
         /\ TreesAt(rule, g, i, j)["not"] = NotTrees(rule, g, i, j)
         /\ TreesAt(rule, g, i, j)["and"] = Ands(rule, g, i, j)
         /\ TreesAt(rule, g, i, j)["or"] = Ors(rule, g, i, j)
  BY DEF TreesAt, Ands, Ors

LEMMA JoinedIn ==
  ASSUME NEW word, NEW lefts, NEW rights, NEW t
  PROVE  t \in Joined(word, lefts, rights)
           <=> \E l \in lefts : \E r \in rights : t = <<word, l, r>>
  BY DEF Joined

LEMMA ChainIn ==
  ASSUME NEW rule, NEW g, NEW word, NEW chain, NEW operand, NEW i, NEW j, NEW t
  PROVE  t \in ChainTrees(rule, g, word, chain, operand, i, j)
           <=> \E k \in i .. j :
                 /\ Kind(rule, k) = word
                 /\ t \in Joined(word, g[<<i, k - 1>>][chain], g[<<k + 1, j>>][operand])
  BY DEF ChainTrees

Size(s) == s[2] - s[1]

\* The spans a span is made of are spans, and shorter.
LEMMA SpanParts ==
  ASSUME NEW rule, Len(rule) \in Nat, NEW i \in 1 .. Len(rule) + 1, NEW j \in 0 .. Len(rule)
  PROVE  /\ <<i, j>> \in Spans(rule) /\ Size(<<i, j>>) = j - i /\ j - i \in Int
         /\ i <= Len(rule) => <<i + 1, j>> \in Spans(rule) /\ Size(<<i + 1, j>>) < j - i
         /\ i < j => <<i + 1, j - 1>> \in Spans(rule) /\ Size(<<i + 1, j - 1>>) < j - i
         /\ \A k \in i .. j : /\ <<i, k - 1>> \in Spans(rule) /\ Size(<<i, k - 1>>) < j - i
                              /\ <<k + 1, j>> \in Spans(rule) /\ Size(<<k + 1, j>>) < j - i
  BY DEF Spans, Size

LEMMA ChainAgrees ==
  ASSUME NEW rule, Len(rule) \in Nat, NEW g, NEW h,
         NEW i \in 1 .. Len(rule) + 1, NEW j \in 0 .. Len(rule),
         NEW word, NEW chain, NEW operand,
         \A s \in Spans(rule) : Size(s) < j - i => g[s] = h[s]
  PROVE  ChainTrees(rule, g, word, chain, operand, i, j)
           = ChainTrees(rule, h, word, chain, operand, i, j)
<1>1. \A k \in i .. j : g[<<i, k - 1>>] = h[<<i, k - 1>>] /\ g[<<k + 1, j>>] = h[<<k + 1, j>>]
  BY SpanParts
<1>2. \A k \in i .. j :
        Joined(word, g[<<i, k - 1>>][chain], g[<<k + 1, j>>][operand])
          = Joined(word, h[<<i, k - 1>>][chain], h[<<k + 1, j>>][operand])
  BY <1>1
<1>3. ASSUME NEW t
      PROVE  t \in ChainTrees(rule, g, word, chain, operand, i, j)
               <=> t \in ChainTrees(rule, h, word, chain, operand, i, j)
  <2>1. t \in ChainTrees(rule, g, word, chain, operand, i, j)
          <=> \E k \in i .. j :
                /\ Kind(rule, k) = word
                /\ t \in Joined(word, g[<<i, k - 1>>][chain], g[<<k + 1, j>>][operand])
    BY DEF ChainTrees
  <2>2. t \in ChainTrees(rule, h, word, chain, operand, i, j)
          <=> \E k \in i .. j :
                /\ Kind(rule, k) = word
                /\ t \in Joined(word, h[<<i, k - 1>>][chain], h[<<k + 1, j>>][operand])
    BY DEF ChainTrees
  <2> QED
    BY <1>2, <2>1, <2>2
<1> QED
  BY <1>3

LEMMA TreesAtAgrees ==
  ASSUME NEW rule, Len(rule) \in Nat, NEW g, NEW h,
         NEW i \in 1 .. Len(rule) + 1, NEW j \in 0 .. Len(rule),
         \A s \in Spans(rule) : Size(s) < j - i => g[s] = h[s]
  PROVE  TreesAt(rule, g, i, j) = TreesAt(rule, h, i, j)
<1>1. Kind(rule, i) = "not" => g[<<i + 1, j>>] = h[<<i + 1, j>>]
  <2> SUFFICES ASSUME Kind(rule, i) = "not" PROVE g[<<i + 1, j>>] = h[<<i + 1, j>>]
    OBVIOUS
  <2>1. i <= Len(rule)
    BY KindInside
  <2> QED
    BY <2>1, SpanParts
<1>2. i < j => g[<<i + 1, j - 1>>] = h[<<i + 1, j - 1>>]
  BY SpanParts
<1>3. PrimaryTrees(rule, g, i, j) = PrimaryTrees(rule, h, i, j)
  BY <1>2 DEF PrimaryTrees
<1>4. NotTrees(rule, g, i, j) = NotTrees(rule, h, i, j)
  BY <1>1, <1>3 DEF NotTrees
<1>5. Ands(rule, g, i, j) = Ands(rule, h, i, j)
  <2>1. ChainTrees(rule, g, "and", "and", "not", i, j)
          = ChainTrees(rule, h, "and", "and", "not", i, j)
    BY ChainAgrees
  <2> QED
    BY <1>4, <2>1 DEF Ands
<1>6. Ors(rule, g, i, j) = Ors(rule, h, i, j)
  <2>1. ChainTrees(rule, g, "or", "or", "and", i, j)
          = ChainTrees(rule, h, "or", "or", "and", i, j)
    BY ChainAgrees
  <2> QED
    BY <1>5, <2>1 DEF Ors
<1> QED
  BY <1>4, <1>5, <1>6, TreesAtParts

IsTrees(g, rule) == g = [s \in Spans(rule) |-> TreesAt(rule, g, s[1], s[2])]

\* Every span of less than n tokens, counted from the emptiest, is derived.
Derives(g, rule, n) ==
  \A s \in Spans(rule) : Size(s) + Len(rule) + 1 < n => g[s] = TreesAt(rule, g, s[1], s[2])

LEMMA TreesExist ==
  ASSUME NEW rule, Len(rule) \in Nat
  PROVE  \E g : IsTrees(g, rule)
<1> DEFINE N == Len(rule)
           M == 2 * N + 1
           S == {n \in Nat : \E g : g = [s \in Spans(rule) |-> g[s]] /\ Derives(g, rule, n)}
<1>0. \A s \in Spans(rule) : /\ s[1] \in 1 .. N + 1 /\ s[2] \in 0 .. N
                             /\ Size(s) + N + 1 \in 0 .. 2 * N /\ Size(s) = s[2] - s[1]
  BY DEF Spans, Size
<1>1. 0 \in S
  <2> DEFINE g == [s \in Spans(rule) |-> 0]
  <2>1. g = [s \in Spans(rule) |-> g[s]]
    OBVIOUS
  <2> HIDE DEF g
  <2>2. Derives(g, rule, 0)
    BY <1>0 DEF Derives
  <2> QED
    BY <2>1, <2>2
<1>2. ASSUME NEW n \in 0 .. M - 1, n \in S PROVE n + 1 \in S
  <2>1. PICK g : Derives(g, rule, n)
    BY <1>2
  <2> DEFINE h == [s \in Spans(rule) |->
                     IF Size(s) + N + 1 = n THEN TreesAt(rule, g, s[1], s[2]) ELSE g[s]]
  <2>2. \A s \in Spans(rule) : Size(s) + N + 1 < n => g[s] = h[s]
    BY <1>0
  <2>3. ASSUME NEW s \in Spans(rule), Size(s) + N + 1 < n + 1
        PROVE  h[s] = TreesAt(rule, h, s[1], s[2])
    <3>1. Size(s) \in Int /\ (Size(s) + N + 1 = n \/ Size(s) + N + 1 < n)
      BY <1>0, <2>3
    <3>2. \A r \in Spans(rule) : Size(r) < s[2] - s[1] => g[r] = h[r]
      <4> SUFFICES ASSUME NEW r \in Spans(rule), Size(r) < s[2] - s[1] PROVE g[r] = h[r]
        OBVIOUS
      <4>1. Size(r) \in Int /\ Size(r) < Size(s)
        BY <1>0
      <4>2. Size(r) + N + 1 < n
        BY <3>1, <4>1
      <4> QED
        BY <2>2, <4>2
    <3> HIDE DEF h
    <3>3. TreesAt(rule, g, s[1], s[2]) = TreesAt(rule, h, s[1], s[2])
      BY <1>0, <3>2, TreesAtAgrees
    <3> USE DEF h
    <3>4. h[s] = TreesAt(rule, g, s[1], s[2])
      <4>1. CASE Size(s) + N + 1 = n
        BY <4>1
      <4>2. CASE Size(s) + N + 1 < n
        <5>1. g[s] = TreesAt(rule, g, s[1], s[2])
          BY <2>1, <4>2 DEF Derives
        <5>2. g[s] = h[s]
          BY <2>2, <4>2
        <5> HIDE DEF h
        <5> QED
          BY <5>1, <5>2
      <4> QED
        BY <3>1, <4>1, <4>2
    <3> HIDE DEF h
    <3> QED
      BY <3>3, <3>4
  <2>4. h = [s \in Spans(rule) |-> h[s]]
    OBVIOUS
  <2> HIDE DEF h
  <2>5. Derives(h, rule, n + 1)
    BY <2>3 DEF Derives
  <2> QED
    BY <2>4, <2>5
<1>3. M \in S
  <2> HIDE DEF S
  <2>1. M \in Nat
    OBVIOUS
  <2> HIDE DEF M
  <2>2. \A k \in 0 .. M : k \in S
    BY <1>1, <1>2, <2>1, Climb
  <2> QED
    BY <2>1, <2>2
<1>4. PICK g : g = [s \in Spans(rule) |-> g[s]] /\ Derives(g, rule, M)
  BY <1>3
<1>5. \A s \in Spans(rule) : g[s] = TreesAt(rule, g, s[1], s[2])
  <2>1. \A s \in Spans(rule) : Size(s) + Len(rule) + 1 < M
    BY <1>0
  <2> QED
    BY <1>4, <2>1 DEF Derives
<1> QED
  BY <1>4, <1>5 DEF IsTrees

LEMMA DerivedTrees ==
  ASSUME NEW rule, Len(rule) \in Nat
  PROVE  \E g : IsTrees(g, rule) /\ Derived(rule) = g[<<1, Len(rule)>>]["or"]
<1> DEFINE g == CHOOSE x : IsTrees(x, rule)
<1>1. IsTrees(g, rule)
  BY TreesExist
<1>2. Derived(rule) = g[<<1, Len(rule)>>]["or"]
  BY DEF Derived, IsTrees
<1> QED
  BY <1>1, <1>2

\* What the grammar gives the spans, in the words of its comment.
LEMMA TreesOf ==
  ASSUME NEW rule, Len(rule) \in Nat, NEW g, IsTrees(g, rule),
         NEW i \in 1 .. Len(rule) + 1, NEW j \in 0 .. Len(rule)
  PROVE  /\ g[<<i, j>>]["not"] = NotTrees(rule, g, i, j)
         /\ g[<<i, j>>]["and"] = g[<<i, j>>]["not"]
                                   \cup ChainTrees(rule, g, "and", "and", "not", i, j)
         /\ g[<<i, j>>]["or"] = g[<<i, j>>]["and"]
                                   \cup ChainTrees(rule, g, "or", "or", "and", i, j)
<1>1. <<i, j>> \in Spans(rule)
  BY SpanParts
<1>2. g[<<i, j>>] = TreesAt(rule, g, i, j)
  BY <1>1 DEF IsTrees
<1> QED
  BY <1>2, TreesAtParts DEF Ands, Ors

-----------------------------------------------------------------------------
(* Soundness: a tree the parser builds is one of the grammar *)

Level(word, operand) ==
  (word = "and" /\ operand = "not") \/ (word = "or" /\ operand = "and")

LEMMA ChainStep ==
  ASSUME NEW rule, Len(rule) \in Nat, NEW g, IsTrees(g, rule),
         NEW i \in 1 .. Len(rule) + 1, NEW j \in 0 .. Len(rule),
         NEW word, NEW operand, Level(word, operand)
  PROVE  g[<<i, j>>][word]
           = g[<<i, j>>][operand] \cup ChainTrees(rule, g, word, word, operand, i, j)
  BY TreesOf DEF Level

LEMMA ChainJoin ==
  ASSUME NEW rule, Len(rule) \in Nat, NEW g, IsTrees(g, rule),
         NEW i \in 1 .. Len(rule) + 1, NEW j \in 0 .. Len(rule),
         NEW word, NEW operand, Level(word, operand),
         NEW k \in i .. j, Kind(rule, k) = word,
         NEW l \in g[<<i, k - 1>>][word], NEW r \in g[<<k + 1, j>>][operand]
  PROVE  <<word, l, r>> \in g[<<i, j>>][word]
<1> DEFINE t == <<word, l, r>>
<1>1. t \in Joined(word, g[<<i, k - 1>>][word], g[<<k + 1, j>>][operand])
  BY JoinedIn
<1> HIDE DEF t
<1>2. t \in ChainTrees(rule, g, word, word, operand, i, j)
  BY <1>1, ChainIn
<1>3. t \in g[<<i, j>>][word]
  BY <1>2, ChainStep
<1> QED
  BY <1>3 DEF t

Splits(rule, g, word, operand, i, j, t, k) ==
  /\ Kind(rule, k) = word
  /\ \E l \in g[<<i, k - 1>>][word] :
       \E r \in g[<<k + 1, j>>][operand] : t = <<word, l, r>>

\* A tree of a chain is that of an operand, or splits at the last word.
LEMMA ChainSplit ==
  ASSUME NEW rule, Len(rule) \in Nat, NEW g, IsTrees(g, rule),
         NEW i \in 1 .. Len(rule) + 1, NEW j \in 0 .. Len(rule),
         NEW word, NEW operand, Level(word, operand),
         NEW t \in g[<<i, j>>][word], t \notin g[<<i, j>>][operand]
  PROVE  \E k \in i .. j : Splits(rule, g, word, operand, i, j, t, k)
<1>1. t \in ChainTrees(rule, g, word, word, operand, i, j)
  BY ChainStep
<1> DEFINE At(k) == /\ Kind(rule, k) = word
                    /\ t \in Joined(word, g[<<i, k - 1>>][word], g[<<k + 1, j>>][operand])
<1>2. \E k \in i .. j : At(k)
  <2>1. t \in ChainTrees(rule, g, word, word, operand, i, j) <=> \E k \in i .. j : At(k)
    BY DEF ChainTrees
  <2> HIDE DEF At
  <2> QED
    BY <1>1, <2>1
<1> HIDE DEF At
<1>3. PICK k \in i .. j : At(k)
  BY <1>2
<1>4. \E l \in g[<<i, k - 1>>][word] :
        \E r \in g[<<k + 1, j>>][operand] : t = <<word, l, r>>
  BY <1>3, JoinedIn DEF At
<1> QED
  BY <1>3, <1>4 DEF Splits, At

\* r is an error or its tree is one of the grammar's for what it took.
Sound(g, r, i, m) == ~IsError(r) => r.tree \in g[<<i, r.next - 1>>][m]

LEMMA LoopSound ==
  ASSUME NEW rule, Len(rule) \in Nat, NEW f, NEW g, IsTrees(g, rule),
         NEW i \in Positions(rule), NEW word, NEW operand, Level(word, operand), NEW first,
         Ahead(first, i, Len(rule)), Sound(g, first, i, operand),
         \A j \in Positions(rule) : j > i =>
           AllAhead(f[j], j, Len(rule)) /\ Sound(g, f[j][operand], j, operand)
  PROVE  Sound(g, Loop(rule, f, word, operand, first), i, word)
<1>0. i \in Nat /\ i \in 1 .. Len(rule) + 1 /\ word \in {"and", "or"} /\ operand \in Methods
  BY DEF Positions, Level, Methods
<1>1. PICK a : /\ Turns(a, rule, f, word, operand, first)
               /\ Loop(rule, f, word, operand, first) = a[Len(rule)]
  BY LoopTurns
<1> DEFINE S == {k \in 0 .. Len(rule) :
                   Ahead(a[k], i, Len(rule)) /\ Sound(g, a[k], i, word)}
<1>2. 0 \in S
  <2>1. a[0] = first
    BY <1>1 DEF Turns
  <2>2. ~IsError(first) => first.next - 1 \in 0 .. Len(rule)
    BY <1>0, AheadError
  <2>3. Sound(g, first, i, word)
    BY <1>0, <2>2, ChainStep DEF Sound
  <2> QED
    BY <2>1, <2>3
<1>3. ASSUME NEW k \in 0 .. Len(rule) - 1, k \in S PROVE k + 1 \in S
  <2> DEFINE x == a[k]  q == x.next  r == f[q + 1][operand]
  <2>1. k + 1 \in 1 .. Len(rule) /\ (k + 1) - 1 = k
    OBVIOUS
  <2>2. a[k + 1] = Turn(rule, f, word, operand, x)
    BY <1>1, <2>1 DEF Turns
  <2>3. Ahead(x, i, Len(rule)) /\ Sound(g, x, i, word)
    BY <1>3
  <2>4. Ahead(Turn(rule, f, word, operand, x), i, Len(rule))
    BY <1>0, <2>3, TurnAgrees
  <2>5. Sound(g, Turn(rule, f, word, operand, x), i, word)
    <3>1. CASE IsError(x) \/ Kind(rule, q) # word
      <4>1. Turn(rule, f, word, operand, x) = x
        BY <3>1 DEF Turn
      <4> QED
        BY <2>3, <4>1
    <3>2. CASE ~(IsError(x) \/ Kind(rule, q) # word)
      <4>1. q \in i + 1 .. Len(rule) + 1 /\ x.tree \in g[<<i, q - 1>>][word]
        BY <1>0, <2>3, <3>2, AheadError DEF Sound
      <4>2. Kind(rule, q) # "end"
        BY <1>0, <3>2
      <4>3. q <= Len(rule)
        BY <4>1, <4>2, KindInside
      <4>4. q + 1 \in Positions(rule) /\ q + 1 > i /\ q + 1 \in Nat
        BY <1>0, <4>1, <4>3 DEF Positions
      <4>5. Ahead(r, q + 1, Len(rule)) /\ Sound(g, r, q + 1, operand)
        BY <1>0, <4>4 DEF AllAhead
      <4>6. Turn(rule, f, word, operand, x)
              = IF IsError(r) THEN SyntaxError ELSE Parsed(<<word, x.tree, r.tree>>, r.next)
        BY <3>2 DEF Turn
      <4>7. CASE IsError(r)
        BY <4>6, <4>7, AheadSyntaxError DEF Sound
      <4>8. CASE ~IsError(r)
        <5> DEFINE e == r.next
        <5>1. e \in (q + 1) + 1 .. Len(rule) + 1 /\ r.tree \in g[<<q + 1, e - 1>>][operand]
          BY <4>4, <4>5, <4>8, AheadError DEF Sound
        <5>4. Turn(rule, f, word, operand, x) = Parsed(<<word, x.tree, r.tree>>, e)
          BY <4>6, <4>8
        <5> HIDE DEF x, q, r, e
        <5>2. e - 1 \in 0 .. Len(rule) /\ q \in i .. e - 1
          BY <1>0, <4>1, <5>1
        <5>3. <<word, x.tree, r.tree>> \in g[<<i, e - 1>>][word]
          <6> DEFINE j == e - 1
          <6>1. Kind(rule, q) = word
            BY <3>2
          <6>2. /\ j \in 0 .. Len(rule) /\ q \in i .. j
                /\ x.tree \in g[<<i, q - 1>>][word]
                /\ r.tree \in g[<<q + 1, j>>][operand]
            BY <4>1, <5>1, <5>2
          <6> HIDE DEF j
          <6>3. <<word, x.tree, r.tree>> \in g[<<i, j>>][word]
            BY <1>0, <6>1, <6>2, ChainJoin
          <6> QED
            BY <6>3 DEF j
        <5> QED
          BY <5>3, <5>4 DEF Sound, Parsed
      <4> QED
        BY <4>7, <4>8
    <3> QED
      BY <3>1, <3>2
  <2> QED
    BY <2>1, <2>2, <2>4, <2>5
<1>4. Len(rule) \in S
  <2> HIDE DEF S
  <2>1. \A k \in 0 .. Len(rule) : k \in S
    BY <1>2, <1>3, Climb
  <2> QED
    BY <2>1
<1> QED
  BY <1>1, <1>4

LEMMA NotSound ==
  ASSUME NEW rule, Len(rule) \in Nat, NEW f, NEW g, IsTrees(g, rule),
         NEW i \in Positions(rule),
         \A j \in Positions(rule) : j > i =>
           AllAhead(f[j], j, Len(rule)) /\ \A m \in Methods : Sound(g, f[j][m], j, m)
  PROVE  Sound(g, ParseNot(rule, f, i), i, "not")
<1>0. i \in Nat /\ i \in 1 .. Len(rule) + 1
  BY DEF Positions
<1>1. ASSUME Kind(rule, i) # "end", NEW m \in Methods
      PROVE  /\ i + 1 \in Nat /\ Ahead(f[i + 1][m], i + 1, Len(rule))
             /\ Sound(g, f[i + 1][m], i + 1, m)
  <2>1. i + 1 \in Positions(rule) /\ i + 1 > i /\ i + 1 \in Nat
    BY <1>0, <1>1, KindInside DEF Positions
  <2> QED
    BY <2>1 DEF AllAhead
<1>2. CASE Kind(rule, i) = "not"
  <2> DEFINE inner == f[i + 1].not  e == inner.next
  <2>1. i + 1 \in Nat /\ Ahead(inner, i + 1, Len(rule)) /\ Sound(g, inner, i + 1, "not")
    BY <1>1, <1>2 DEF Methods
  <2>2. ParseNot(rule, f, i) = IF IsError(inner) THEN SyntaxError
                               ELSE Parsed(<<"not", inner.tree>>, e)
    BY <1>2 DEF ParseNot
  <2>3. CASE IsError(inner)
    BY <2>2, <2>3, AheadSyntaxError DEF Sound
  <2>4. CASE ~IsError(inner)
    <3>1. e \in (i + 1) + 1 .. Len(rule) + 1 /\ inner.tree \in g[<<i + 1, e - 1>>].not
      BY <2>1, <2>4, AheadError DEF Sound
    <3>2. e - 1 \in 0 .. Len(rule)
      BY <1>0, <3>1
    <3>3. <<"not", inner.tree>> \in NotTrees(rule, g, i, e - 1)
      BY <1>2, <3>1 DEF NotTrees
    <3>4. <<"not", inner.tree>> \in g[<<i, e - 1>>]["not"]
      BY <1>0, <3>2, <3>3, TreesOf
    <3> QED
      BY <2>2, <2>4, <3>4 DEF Sound, Parsed
  <2> QED
    BY <2>3, <2>4
<1>3. CASE Kind(rule, i) = "lparen"
  <2> DEFINE inner == f[i + 1].or  e == inner.next
  <2>1. i + 1 \in Nat /\ Ahead(inner, i + 1, Len(rule)) /\ Sound(g, inner, i + 1, "or")
    BY <1>1, <1>3 DEF Methods
  <2>2. ParseNot(rule, f, i) = IF ~IsError(inner) /\ Kind(rule, e) = "rparen"
                               THEN Parsed(inner.tree, e + 1) ELSE SyntaxError
    BY <1>3 DEF ParseNot, ParsePrimary
  <2>3. CASE ~(~IsError(inner) /\ Kind(rule, e) = "rparen")
    BY <2>2, <2>3, AheadSyntaxError DEF Sound
  <2>4. CASE ~IsError(inner) /\ Kind(rule, e) = "rparen"
    <3>1. e \in (i + 1) + 1 .. Len(rule) + 1 /\ inner.tree \in g[<<i + 1, e - 1>>].or
      BY <2>1, <2>4, AheadError DEF Sound
    <3>2. e <= Len(rule)
      <4>1. Kind(rule, e) # "end" /\ e \in Int
        BY <2>4, <3>1
      <4> QED
        BY <4>1, KindInside
    <3>3. e \in 0 .. Len(rule) /\ i < e
      BY <1>0, <3>1, <3>2
    <3>4. inner.tree \in PrimaryTrees(rule, g, i, e)
      BY <1>3, <2>4, <3>1, <3>3 DEF PrimaryTrees
    <3>5. inner.tree \in g[<<i, e>>]["not"]
      <4>1. inner.tree \in NotTrees(rule, g, i, e)
        BY <3>4 DEF NotTrees
      <4> HIDE DEF inner, e
      <4> QED
        BY <1>0, <3>3, <4>1, TreesOf
    <3>6. (e + 1) - 1 = e
      BY <3>3
    <3> QED
      BY <2>2, <2>4, <3>5, <3>6 DEF Sound, Parsed
  <2> QED
    BY <2>3, <2>4
<1>4. CASE Kind(rule, i) # "not" /\ Kind(rule, i) # "lparen"
  <2> DEFINE r == Comparison(rule, i)
  <2>1. ParseNot(rule, f, i) = r
    BY <1>4 DEF ParseNot, ParsePrimary
  <2>2. ASSUME ~IsError(r) PROVE r.tree \in g[<<i, r.next - 1>>]["not"]
    <3>1. r.next = i + 3 /\ r.next \in i + 1 .. Len(rule) + 1
      BY <1>0, <2>2, ComparisonAhead, AheadError
    <3>2. r.next - 1 = i + 2 /\ i + 2 \in 0 .. Len(rule)
      BY <1>0, <3>1
    <3>3. r.tree \in PrimaryTrees(rule, g, i, i + 2)
      BY <2>2 DEF PrimaryTrees
    <3>4. r.tree \in g[<<i, i + 2>>]["not"]
      <4>1. r.tree \in NotTrees(rule, g, i, i + 2)
        BY <3>3 DEF NotTrees
      <4> QED
        BY <1>0, <3>2, <4>1, TreesOf
    <3> QED
      BY <3>2, <3>4
  <2> QED
    BY <2>1, <2>2 DEF Sound
<1> QED
  BY <1>2, <1>3, <1>4

LEMMA ParserSound ==
  ASSUME NEW rule, Len(rule) \in Nat, NEW f, IsParse(f, rule), NEW g, IsTrees(g, rule)
  PROVE  \A i \in Positions(rule) : \A m \in Methods : Sound(g, f[i][m], i, m)
<1> DEFINE N == Len(rule)
           Good(i) == \A m \in Methods : Sound(g, f[i][m], i, m)
           S == {n \in Nat : \A i \in Positions(rule) : i > N + 1 - n => Good(i)}
<1>1. 0 \in S
  BY DEF Positions
<1>2. ASSUME NEW n \in 0 .. (N + 1) - 1, n \in S PROVE n + 1 \in S
  <2>1. ASSUME NEW i \in Positions(rule), i > N + 1 - (n + 1) PROVE Good(i)
    <3>1. \A j \in Positions(rule) : j > i =>
            AllAhead(f[j], j, Len(rule)) /\ \A m \in Methods : Sound(g, f[j][m], j, m)
      <4>1. \A j \in Positions(rule) : j > i => Good(j)
        BY <1>2, <2>1 DEF Positions
      <4> QED
        BY <4>1, ParseAhead
    <3>2. /\ f[i] = ParseAt(rule, f, i) /\ AllAhead(f[i], i, N)
          /\ Ahead(f[i]["not"], i, N) /\ Ahead(f[i]["and"], i, N)
      BY ParseAhead DEF AllAhead, Methods
    <3>3. /\ f[i]["not"] = ParseNot(rule, f, i)
          /\ f[i]["and"] = Loop(rule, f, "and", "not", f[i]["not"])
          /\ f[i]["or"] = Loop(rule, f, "or", "and", f[i]["and"])
      BY <3>2, ParseAtParts DEF NegationOf, ConjunctionOf, DisjunctionOf
    <3>4. Sound(g, f[i]["not"], i, "not")
      BY <3>1, <3>3, NotSound
    <3>5. Sound(g, f[i]["and"], i, "and")
      <4>1. Level("and", "not") /\ "not" \in Methods
        BY DEF Level, Methods
      <4>2. Sound(g, Loop(rule, f, "and", "not", f[i]["not"]), i, "and")
        BY <3>1, <3>2, <3>4, <4>1, LoopSound
      <4> QED
        BY <3>3, <4>2
    <3>6. Sound(g, f[i]["or"], i, "or")
      <4>1. Level("or", "and") /\ "and" \in Methods
        BY DEF Level, Methods
      <4>2. Sound(g, Loop(rule, f, "or", "and", f[i]["and"]), i, "or")
        BY <3>1, <3>2, <3>5, <4>1, LoopSound
      <4> QED
        BY <3>3, <4>2
    <3> QED
      BY <3>4, <3>5, <3>6 DEF Methods
  <2> HIDE DEF Good
  <2> QED
    BY <2>1
<1>3. N + 1 \in S
  <2> HIDE DEF S
  <2>1. \A k \in 0 .. N + 1 : k \in S
    BY <1>1, <1>2, Climb
  <2> QED
    BY <2>1
<1> QED
  BY <1>3 DEF Positions

-----------------------------------------------------------------------------
(* Completeness: a tree of the grammar is the one the parser builds *)

\* What stops a method where it should stop: no word follows that it takes.
MayEnd(rule, m, e) ==
  /\ m \in {"and", "or"} => Kind(rule, e) # "and"
  /\ m = "or" => Kind(rule, e) # "or"

Found(rule, f, g, m, i, j) ==
  \A t \in g[<<i, j>>][m] :
    /\ i <= j /\ t # SyntaxError.tree
    /\ MayEnd(rule, m, j + 1) => f[i][m] = Parsed(t, j + 1)

\* The loop comes by every tree of its chain.
Reached(rule, f, g, word, operand, i, j) ==
  \A t \in g[<<i, j>>][word] : MayEnd(rule, operand, j + 1) =>
    \A left : Turns(left, rule, f, word, operand, f[i][operand]) =>
      \E k \in 0 .. j - i : left[k] = Parsed(t, j + 1)

LEMMA LoopStops ==
  ASSUME NEW rule, Len(rule) \in Nat, NEW f, NEW word, NEW operand, NEW first,
         NEW left, Turns(left, rule, f, word, operand, first),
         NEW k \in 0 .. Len(rule), Kind(rule, left[k].next) # word
  PROVE  left[Len(rule)] = left[k]
<1> DEFINE n == Len(rule) - k
           S == {d \in 0 .. n : left[k + d] = left[k]}
<1>1. n \in Nat /\ 0 \in S /\ k + n = Len(rule)
  OBVIOUS
<1>2. ASSUME NEW d \in 0 .. n - 1, d \in S PROVE d + 1 \in S
  <2>1. /\ d + 1 \in 0 .. n /\ k + (d + 1) \in 1 .. Len(rule)
        /\ (k + (d + 1)) - 1 = k + d
    OBVIOUS
  <2>2. left[k + (d + 1)] = Turn(rule, f, word, operand, left[k + d])
    BY <2>1 DEF Turns
  <2>3. left[k + d] = left[k]
    BY <1>2
  <2>4. Turn(rule, f, word, operand, left[k]) = left[k]
    BY DEF Turn
  <2> QED
    BY <2>1, <2>2, <2>3, <2>4
<1>3. n \in S
  <2> HIDE DEF n, S
  <2>1. \A d \in 0 .. n : d \in S
    BY <1>1, <1>2, Climb
  <2> QED
    BY <1>1, <2>1
<1> QED
  BY <1>1, <1>3

LEMMA ChainReached ==
  ASSUME NEW rule, Len(rule) \in Nat, NEW f, NEW g, IsTrees(g, rule),
         NEW i \in 1 .. Len(rule) + 1, NEW j \in 0 .. Len(rule),
         NEW word, NEW operand, Level(word, operand),
         Found(rule, f, g, operand, i, j),
         \A k \in i .. j : /\ Reached(rule, f, g, word, operand, i, k - 1)
                           /\ Found(rule, f, g, operand, k + 1, j)
  PROVE  /\ Reached(rule, f, g, word, operand, i, j)
         /\ \A t \in g[<<i, j>>][word] : i <= j /\ t # SyntaxError.tree
<1> SUFFICES ASSUME NEW t \in g[<<i, j>>][word]
             PROVE  /\ i <= j /\ t # SyntaxError.tree
                    /\ MayEnd(rule, operand, j + 1) => \A left :
                         Turns(left, rule, f, word, operand, f[i][operand]) =>
                           \E k \in 0 .. j - i : left[k] = Parsed(t, j + 1)
  BY DEF Reached
<1>1. CASE t \in g[<<i, j>>][operand]
  <2>1. i <= j /\ t # SyntaxError.tree
    BY <1>1 DEF Found
  <2>2. ASSUME MayEnd(rule, operand, j + 1), NEW left,
               Turns(left, rule, f, word, operand, f[i][operand])
        PROVE  \E k \in 0 .. j - i : left[k] = Parsed(t, j + 1)
    <3>1. left[0] = Parsed(t, j + 1)
      BY <1>1, <2>2 DEF Found, Turns
    <3>2. 0 \in 0 .. j - i
      BY <2>1
    <3> QED
      BY <3>1, <3>2
  <2> QED
    BY <2>1, <2>2
<1>2. CASE t \notin g[<<i, j>>][operand]
  <2>1. PICK k \in i .. j :
          /\ Kind(rule, k) = word
          /\ \E l \in g[<<i, k - 1>>][word] :
               \E r \in g[<<k + 1, j>>][operand] : t = <<word, l, r>>
    <3>1. \E k \in i .. j : Splits(rule, g, word, operand, i, j, t, k)
      BY <1>2, ChainSplit
    <3> QED
      BY <3>1 DEF Splits
  <2>2. PICK l \in g[<<i, k - 1>>][word] :
          \E r \in g[<<k + 1, j>>][operand] : t = <<word, l, r>>
    BY <2>1
  <2>3. PICK r \in g[<<k + 1, j>>][operand] : t = <<word, l, r>>
    BY <2>2
  <2>4. i <= j
    OBVIOUS
  <2>5. t # SyntaxError.tree
    BY <2>3 DEF Level, SyntaxError
  <2>6. ASSUME MayEnd(rule, operand, j + 1), NEW left,
               Turns(left, rule, f, word, operand, f[i][operand])
        PROVE  \E n \in 0 .. j - i : left[n] = Parsed(t, j + 1)
    <3>1. (k - 1) + 1 = k /\ MayEnd(rule, operand, k)
      BY <2>1 DEF MayEnd, Level
    <3>2. PICK n \in 0 .. (k - 1) - i : left[n] = Parsed(l, k)
      BY <2>6, <3>1 DEF Reached
    <3>3. /\ n + 1 \in 0 .. j - i /\ n + 1 \in 1 .. Len(rule) /\ (n + 1) - 1 = n
          /\ k # 0
      BY <3>2
    <3>4. left[n + 1] = Turn(rule, f, word, operand, Parsed(l, k))
      BY <2>6, <3>2, <3>3 DEF Turns
    <3>5. f[k + 1][operand] = Parsed(r, j + 1)
      BY <2>6 DEF Found
    <3>6. ~IsError(Parsed(l, k)) /\ ~IsError(Parsed(r, j + 1))
      BY <3>3 DEF IsError, Parsed
    <3>7. Turn(rule, f, word, operand, Parsed(l, k)) = Parsed(<<word, l, r>>, j + 1)
      <4>1. /\ Parsed(l, k).next = k /\ Parsed(l, k).tree = l
            /\ Parsed(r, j + 1).next = j + 1 /\ Parsed(r, j + 1).tree = r
        BY DEF Parsed
      <4> QED
        BY <2>1, <3>5, <3>6, <4>1 DEF Turn
    <3> QED
      BY <2>3, <3>3, <3>4, <3>7
  <2> QED
    BY <2>4, <2>5, <2>6
<1> QED
  BY <1>1, <1>2

LEMMA ChainFound ==
  ASSUME NEW rule, Len(rule) \in Nat, NEW f,
         NEW g, NEW i \in 1 .. Len(rule) + 1, NEW j \in 0 .. Len(rule),
         NEW word, NEW operand, Level(word, operand),
         f[i][word] = Loop(rule, f, word, operand, f[i][operand]),
         Reached(rule, f, g, word, operand, i, j),
         \A t \in g[<<i, j>>][word] : i <= j /\ t # SyntaxError.tree
  PROVE  Found(rule, f, g, word, i, j)
<1> SUFFICES ASSUME NEW t \in g[<<i, j>>][word], MayEnd(rule, word, j + 1)
             PROVE  f[i][word] = Parsed(t, j + 1)
  BY DEF Found
<1>1. MayEnd(rule, operand, j + 1) /\ Kind(rule, j + 1) # word
  BY DEF MayEnd, Level
<1>2. PICK left : /\ Turns(left, rule, f, word, operand, f[i][operand])
                  /\ Loop(rule, f, word, operand, f[i][operand]) = left[Len(rule)]
  BY LoopTurns
<1>3. PICK k \in 0 .. j - i : left[k] = Parsed(t, j + 1)
  BY <1>1, <1>2 DEF Reached
<1>4. k \in 0 .. Len(rule) /\ Kind(rule, left[k].next) # word
  BY <1>1, <1>3 DEF Parsed
<1>5. left[Len(rule)] = left[k]
  BY <1>2, <1>4, LoopStops
<1> QED
  BY <1>2, <1>3, <1>5

LEMMA NotFound ==
  ASSUME NEW rule, Len(rule) \in Nat, NEW f, NEW g, IsTrees(g, rule),
         NEW i \in 1 .. Len(rule) + 1, NEW j \in 0 .. Len(rule),
         f[i]["not"] = ParseNot(rule, f, i),
         i <= Len(rule) => Found(rule, f, g, "not", i + 1, j),
         i < j => Found(rule, f, g, "or", i + 1, j - 1)
  PROVE  Found(rule, f, g, "not", i, j)
<1> SUFFICES ASSUME NEW t \in NotTrees(rule, g, i, j)
             PROVE  /\ i <= j /\ t # SyntaxError.tree
                    /\ ParseNot(rule, f, i) = Parsed(t, j + 1)
  BY TreesOf DEF Found
<1>0. i \in Int /\ i \in Nat /\ i \in Positions(rule)
  BY DEF Positions
<1>1. CASE Kind(rule, i) = "not" /\ t \in {<<"not", u>> : u \in g[<<i + 1, j>>].not}
  <2>1. PICK u \in g[<<i + 1, j>>]["not"] : t = <<"not", u>>
    BY <1>1
  <2>2. i <= Len(rule)
    BY <1>0, <1>1, KindInside
  <2>3. MayEnd(rule, "not", j + 1)
    BY DEF MayEnd
  <2>4. i + 1 <= j /\ f[i + 1]["not"] = Parsed(u, j + 1)
    BY <2>2, <2>3 DEF Found
  <2>5. ParseNot(rule, f, i) = Parsed(<<"not", u>>, j + 1)
    <3>1. ~IsError(Parsed(u, j + 1)) /\ Parsed(u, j + 1).tree = u
          /\ Parsed(u, j + 1).next = j + 1
      BY DEF IsError, Parsed
    <3> QED
      BY <1>1, <2>4, <3>1 DEF ParseNot
  <2>6. t # SyntaxError.tree
    BY <2>1 DEF SyntaxError
  <2> QED
    BY <2>1, <2>4, <2>5, <2>6
<1>2. CASE j = i + 2 /\ ~IsError(Comparison(rule, i)) /\ t = Comparison(rule, i).tree
  <2> DEFINE r == Comparison(rule, i)
  <2>1. /\ Kind(rule, i) = "ident"
        /\ r = Parsed(<<"compare", rule[i][2], rule[i + 1][2], rule[i + 2]>>, i + 3)
    BY <1>2, AheadSyntaxError DEF Comparison
  <2>2. ParseNot(rule, f, i) = r
    BY <2>1 DEF ParseNot, ParsePrimary
  <2>3. t = <<"compare", rule[i][2], rule[i + 1][2], rule[i + 2]>>
    BY <1>2, <2>1 DEF Parsed
  <2>4. t # SyntaxError.tree
    BY <2>3 DEF SyntaxError
  <2>5. j + 1 = i + 3 /\ i <= j
    BY <1>2
  <2> QED
    BY <2>1, <2>2, <2>3, <2>4, <2>5
<1>3. CASE /\ i < j /\ Kind(rule, i) = "lparen" /\ Kind(rule, j) = "rparen"
           /\ t \in g[<<i + 1, j - 1>>].or
  <2>1. MayEnd(rule, "or", j) /\ (j - 1) + 1 = j
    BY <1>3 DEF MayEnd
  <2>2. t \in g[<<i + 1, j - 1>>]["or"]
    BY <1>3
  <2>3. t # SyntaxError.tree /\ f[i + 1]["or"] = Parsed(t, j)
    BY <1>3, <2>1, <2>2 DEF Found
  <2>4. ~IsError(Parsed(t, j)) /\ Parsed(t, j).tree = t /\ Parsed(t, j).next = j
    BY <1>3 DEF IsError, Parsed
  <2>5. ParseNot(rule, f, i) = Parsed(t, j + 1)
    BY <1>3, <2>3, <2>4 DEF ParseNot, ParsePrimary
  <2> QED
    BY <1>3, <2>3, <2>5
<1> QED
  BY <1>1, <1>2, <1>3 DEF NotTrees, PrimaryTrees

SpanFound(rule, f, g, s) ==
  /\ \A m \in Methods : Found(rule, f, g, m, s[1], s[2])
  /\ Reached(rule, f, g, "and", "not", s[1], s[2])
  /\ Reached(rule, f, g, "or", "and", s[1], s[2])

LEMMA SpanStep ==
  ASSUME NEW rule, Len(rule) \in Nat, NEW f, IsParse(f, rule), NEW g, IsTrees(g, rule),
         NEW i \in 1 .. Len(rule) + 1, NEW j \in 0 .. Len(rule),
         \A s \in Spans(rule) : Size(s) < j - i => SpanFound(rule, f, g, s)
  PROVE  SpanFound(rule, f, g, <<i, j>>)
<1>1. i \in Positions(rule) /\ f[i] = ParseAt(rule, f, i)
  BY ParseAhead DEF Positions
<1>2. /\ f[i]["not"] = ParseNot(rule, f, i)
      /\ f[i]["and"] = Loop(rule, f, "and", "not", f[i]["not"])
      /\ f[i]["or"] = Loop(rule, f, "or", "and", f[i]["and"])
  BY <1>1, ParseAtParts DEF NegationOf, ConjunctionOf, DisjunctionOf
<1>3. Found(rule, f, g, "not", i, j)
  <2>1. i <= Len(rule) => Found(rule, f, g, "not", i + 1, j)
    <3> SUFFICES ASSUME i <= Len(rule) PROVE Found(rule, f, g, "not", i + 1, j)
      OBVIOUS
    <3>1. SpanFound(rule, f, g, <<i + 1, j>>)
      BY SpanParts
    <3> QED
      BY <3>1 DEF SpanFound, Methods
  <2>2. i < j => Found(rule, f, g, "or", i + 1, j - 1)
    <3> SUFFICES ASSUME i < j PROVE Found(rule, f, g, "or", i + 1, j - 1)
      OBVIOUS
    <3>1. SpanFound(rule, f, g, <<i + 1, j - 1>>)
      BY SpanParts
    <3> QED
      BY <3>1 DEF SpanFound, Methods
  <2> QED
    BY <1>2, <2>1, <2>2, NotFound
<1>4. \A k \in i .. j : /\ SpanFound(rule, f, g, <<i, k - 1>>)
                        /\ SpanFound(rule, f, g, <<k + 1, j>>)
  BY SpanParts
<1>5. /\ Reached(rule, f, g, "and", "not", i, j)
      /\ Found(rule, f, g, "and", i, j)
  <2>1. Level("and", "not")
    BY DEF Level
  <2>2. \A k \in i .. j : /\ Reached(rule, f, g, "and", "not", i, k - 1)
                          /\ Found(rule, f, g, "not", k + 1, j)
    BY <1>4 DEF SpanFound, Methods
  <2>3. /\ Reached(rule, f, g, "and", "not", i, j)
        /\ \A t \in g[<<i, j>>]["and"] : i <= j /\ t # SyntaxError.tree
    BY <1>3, <2>1, <2>2, ChainReached
  <2> QED
    BY <1>2, <2>1, <2>3, ChainFound
<1>6. /\ Reached(rule, f, g, "or", "and", i, j)
      /\ Found(rule, f, g, "or", i, j)
  <2>1. Level("or", "and")
    BY DEF Level
  <2>2. \A k \in i .. j : /\ Reached(rule, f, g, "or", "and", i, k - 1)
                          /\ Found(rule, f, g, "and", k + 1, j)
    BY <1>4 DEF SpanFound, Methods
  <2>3. /\ Reached(rule, f, g, "or", "and", i, j)
        /\ \A t \in g[<<i, j>>]["or"] : i <= j /\ t # SyntaxError.tree
    BY <1>5, <2>1, <2>2, ChainReached
  <2> QED
    BY <1>2, <2>1, <2>3, ChainFound
<1> QED
  BY <1>3, <1>5, <1>6 DEF SpanFound, Methods

LEMMA ParserComplete ==
  ASSUME NEW rule, Len(rule) \in Nat, NEW f, IsParse(f, rule), NEW g, IsTrees(g, rule)
  PROVE  \A s \in Spans(rule) : SpanFound(rule, f, g, s)
<1> DEFINE N == Len(rule)
           M == 2 * N + 1
           S == {n \in Nat : \A s \in Spans(rule) :
                               Size(s) + N + 1 < n => SpanFound(rule, f, g, s)}
<1>1. \A s \in Spans(rule) : /\ s[1] \in 1 .. N + 1 /\ s[2] \in 0 .. N /\ s = <<s[1], s[2]>>
                             /\ Size(s) + N + 1 \in 0 .. 2 * N /\ Size(s) = s[2] - s[1]
  BY DEF Spans, Size
<1>2. 0 \in S
  BY <1>1
<1>3. ASSUME NEW n \in 0 .. M - 1, n \in S PROVE n + 1 \in S
  <2>1. ASSUME NEW s \in Spans(rule), Size(s) + N + 1 < n + 1
        PROVE  SpanFound(rule, f, g, s)
    <3>1. \A r \in Spans(rule) : Size(r) < s[2] - s[1] => SpanFound(rule, f, g, r)
      <4> SUFFICES ASSUME NEW r \in Spans(rule), Size(r) < s[2] - s[1]
                   PROVE  SpanFound(rule, f, g, r)
        OBVIOUS
      <4>1. Size(r) \in Int /\ Size(s) \in Int /\ Size(r) < Size(s)
        BY <1>1
      <4>2. Size(r) + N + 1 < n
        BY <2>1, <4>1
      <4> QED
        BY <1>3, <4>2
    <3>2. s[1] \in 1 .. N + 1 /\ s[2] \in 0 .. N /\ s = <<s[1], s[2]>>
      BY <1>1
    <3>3. SpanFound(rule, f, g, <<s[1], s[2]>>)
      BY <3>1, <3>2, SpanStep
    <3> QED
      BY <3>2, <3>3
  <2> QED
    BY <2>1
<1>4. M \in S
  <2> HIDE DEF S
  <2>1. M \in Nat
    OBVIOUS
  <2> HIDE DEF M
  <2>2. \A k \in 0 .. M : k \in S
    BY <1>2, <1>3, <2>1, Climb
  <2> QED
    BY <2>1, <2>2
<1>5. \A s \in Spans(rule) : Size(s) + N + 1 < M
  BY <1>1
<1> HIDE DEF M
<1> QED
  BY <1>4, <1>5



\* The fraud rule parser is correct: whatever tokens a rule is made of, it builds
\* the one tree the grammar in its head comment gives the rule, and throws when
\* there is none; the grammar never gives two.
THEOREM ParserCorrect ==
  ASSUME NEW Tokens, NEW rule \in Seq(Tokens)
  PROVE  FollowsGrammar(rule)
<1> DEFINE N == Len(rule)  whole == Whole(rule)  none == SyntaxError.tree
<1>0. Len(rule) \in Nat /\ (Len(rule) # 0 => rule # <<>>)
  OBVIOUS
<1>1. PICK f : IsParse(f, rule) /\ whole = f[1]["or"]
  BY <1>0, WholeParses
<1>2. PICK g : IsTrees(g, rule) /\ Derived(rule) = g[<<1, N>>]["or"]
  BY <1>0, DerivedTrees
<1>3. /\ 1 \in Positions(rule) /\ 1 \in Nat /\ N + 1 # 0 /\ (N + 1) - 1 = N
      /\ "or" \in Methods /\ <<1, N>> \in Spans(rule)
  BY <1>0 DEF Positions, Methods, Spans
<1>4. MayEnd(rule, "or", N + 1)
  BY <1>0 DEF MayEnd, Kind
<1>5. \A t \in Derived(rule) :
        1 <= N /\ t # none /\ whole = Parsed(t, N + 1)
  <2>1. SpanFound(rule, f, g, <<1, N>>)
    BY <1>0, <1>1, <1>2, <1>3, ParserComplete
  <2>2. Found(rule, f, g, "or", 1, N)
    BY <1>3, <2>1 DEF SpanFound
  <2> QED
    BY <1>1, <1>2, <1>4, <2>2 DEF Found
<1>6. whole.next = N + 1 => whole.tree \in Derived(rule)
  <2>1. Sound(g, f[1]["or"], 1, "or")
    BY <1>0, <1>1, <1>2, <1>3, ParserSound
  <2>2. Sound(g, whole, 1, "or")
    BY <1>1, <2>1
  <2> HIDE DEF whole
  <2> QED
    BY <1>2, <1>3, <2>2 DEF Sound, IsError
<1>7. Parse(rule) = IF rule # <<>> /\ whole.next = N + 1 THEN whole.tree ELSE none
  BY DEF Parse
<1>8. \A t \in Derived(rule) : rule # <<>> /\ whole.next = N + 1 /\ whole.tree = t
  BY <1>0, <1>5 DEF Parsed
<1> HIDE DEF whole, none
<1>9. CASE Derived(rule) = {}
  <2>1. Parse(rule) = none
    BY <1>6, <1>7, <1>9
  <2> QED
    BY <1>9, <2>1 DEF FollowsGrammar, none
<1>10. CASE Derived(rule) # {}
  <2>1. PICK t \in Derived(rule) : TRUE
    BY <1>10
  <2>2. Parse(rule) = whole.tree /\ whole.tree = t /\ t # none
    BY <1>5, <1>7, <1>8
  <2>3. Derived(rule) = {whole.tree}
    BY <1>8, <2>2
  <2> QED
    BY <2>2, <2>3 DEF FollowsGrammar, none
<1> QED
  BY <1>9, <1>10

\* So the parser of a branch follows the grammar, whatever rules operators configure.
THEOREM RulesParsed == Spec => []RulesFollowGrammar
<1>1. ParserFollowsGrammar
  <2> SUFFICES ASSUME NEW rule \in RuleTexts PROVE FollowsGrammar(rule)
    BY DEF ParserFollowsGrammar
  <2>1. rule \in Seq({rule[i] : i \in DOMAIN rule})
    BY BranchAssumption
  <2> QED
    BY <2>1, ParserCorrect
<1>2. RulesFollowGrammar
  BY <1>1 DEF RulesFollowGrammar
<1> QED
  BY <1>2, PTL
=============================================================================
