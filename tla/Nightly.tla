------------------------------ MODULE Nightly -------------------------------
(***************************************************************************)
(* A night: batch jobs (EndOfDay), readers (History), and customers and    *)
(* clerks who go on using the accounts, over one book.                     *)
(***************************************************************************)
EXTENDS EndOfDay, History

CONSTANTS
  Customers,   \* the writer that stands for all of them
  Moves,       \* signed amounts customers move
  MaxMoves     \* bound: their transactions and the clerks' changes in a run

ASSUME NightlyAssumption ==
  /\ Writers = Runs \cup {Customers} /\ Customers \notin Runs
  /\ \A b \in OpeningBooks : \A e \in b : e.writer = Customers
  /\ Moves \subseteq Int /\ MaxMoves \in Nat
  /\ Crowd < PageSize

VARIABLE moves

vars == <<bookVars, run, reader, moves>>

TypeOK ==
  /\ rows \in [Accounts -> Row] /\ book \subseteq Entry
  /\ now \in 0 .. LastTick /\ faults \in 0 .. MaxFaults /\ moves \in 0 .. MaxMoves
  /\ JobTypeOK /\ ReaderTypeOK

Init == BookInit /\ JobInit /\ ReaderInit /\ moves = 0

Tick ==
  /\ now < LastTick /\ now' = now + 1
  /\ UNCHANGED <<rows, book, faults, run, reader, moves>>

\* A deposit or a withdrawal through the ledger.
Move(a, amount) ==
  /\ moves < MaxMoves /\ moves' = moves + 1
  /\ IF amount > 0 THEN CanDeposit(rows[a].status) ELSE CanWithdraw(rows[a].status)
  /\ Posts(Customers, a, amount)
  /\ UNCHANGED <<now, faults, run, reader>>

ChangeStatus(a, action) ==
  /\ moves < MaxMoves /\ moves' = moves + 1
  /\ IsLegal(rows[a].status, action, rows[a].balance)
  /\ rows' = [rows EXCEPT ![a].status = StatusAfter[action]]
  /\ UNCHANGED <<book, now, faults, run, reader>>

\* The night is over, or everybody is served.
Done ==
  /\ \/ now = LastTick
     \/ /\ \A r \in Runs : run[r].pc \in {"failed", "reported", "dead"}
        /\ \A s \in Readers : reader[s].pc \in {"read", "failed"}
  /\ UNCHANGED vars

Next ==
  \/ JobNext /\ UNCHANGED <<reader, moves>>
  \/ ReaderNext /\ UNCHANGED <<run, moves>>
  \/ Tick
  \/ \E a \in Accounts : \/ \E amount \in Moves : Move(a, amount)
                         \/ \E action \in StatusActions : ChangeStatus(a, action)
  \/ Done

Spec ==
  /\ Init /\ [][Next]_vars
  /\ \A s \in Readers : WF_vars(ReadPage(s) /\ UNCHANGED <<run, moves>>)
=============================================================================
