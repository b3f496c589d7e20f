-------------------------- MODULE LedgerRefinesBank --------------------------
(***************************************************************************)
(* The locking ledger seen as the atomic Bank: a request takes effect when *)
(* its transaction commits.                                                *)
(***************************************************************************)
EXTENDS Ledger

\* The sum of the entries of ref in a sequence of entries.
Effect(ref, lines) ==
  FoldLeft(LAMBDA sum, e : IF e.ref = ref THEN sum + e.amount ELSE sum, 0, lines)

Outcome(p) ==
  CASE pc[p] \in {"publishing", "done", "lost"} -> "done"
    [] pc[p] \in {"refused", "crashed"} -> "refused"
    [] OTHER -> "pending"

\* p is in a transaction that began before today.
Overnight(p) == pc[p] \in {"locking", "posting"} /\ began[p] < today

balanceBar  == [a \in Accounts |-> row[a].balance]
spentBar    == [a \in Accounts |-> WithdrawnToday(a)]
effectBar   == [p \in Requests |-> [a \in Accounts |-> Effect(p, entries[a])]]
outcomeBar  == [p \in Requests |-> Outcome(p)]
reversedBar == {p \in Requests : AlreadyReversed(p)}
overnightBar == {p \in Requests : Overnight(p)}

B == INSTANCE Bank WITH balance <- balanceBar, spent <- spentBar, effect <- effectBar,
                        outcome <- outcomeBar, reversed <- reversedBar,
                        overnight <- overnightBar

\* Every behaviour of the ledger is one of the atomic Bank: deposits,
\* withdrawals, transfers and one reversal at a time interleave as if each
\* committed in a single step, whatever the lock waits, midnights
\* and crashes.
LedgerIsAtomic == B!Spec
=============================================================================
