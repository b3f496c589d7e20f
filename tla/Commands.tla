------------------------------ MODULE Commands ------------------------------
(***************************************************************************)
(* The transaction desk: the command invoker of                            *)
(* transactions/commands/bank.commands.ts, with its history in the memory  *)
(* of each pod, and the transfer pipeline of money-transfer.decorators.ts  *)
(* as transactions.module.ts wires it: audit(fraud(fee(ledger))).          *)
(*                                                                         *)
(* A command is remembered before it runs, so its record says EXECUTED     *)
(* while the ledger is still working; other requests see it meanwhile.     *)
(***************************************************************************)
EXTENDS Till, Sequences

CONSTANTS
  Pods,            \* API instances, each with an invoker of its own
  Commands,        \* commands the clients send
  Undos,           \* undo and reverse requests the clients send
  Calls,           \* the calls a command may carry (see Call)
  MaxHistory,      \* MAX_HISTORY of an invoker
  BaseFee,         \* INTERNAL_TRANSFER_FEE_MINOR
  BranchExtra,     \* what a branch transfer costs more
  Suspicious(_),   \* the verdict of FraudRuleEngine on a call
  MaxCrashes       \* bound: pods that die in a run

Kinds    == {"deposit", "withdraw", "transfer"}
Channels == {"web", "mobile", "branch"}
Call == [kind : Kinds, from : Accounts, to : Accounts, amount : Nat,
         channel : Channels, hour : 0 .. 23]

NoCommand == "none"
Prefix == [deposit |-> "DEP", withdraw |-> "WDL", transfer |-> "TRF"]

ASSUME CommandsAssumption ==
  /\ Calls \subseteq Call /\ Calls # {}
  /\ MaxHistory \in Nat \ {0} /\ BaseFee \in Nat /\ BranchExtra \in Nat
  /\ MaxCrashes \in Nat
  /\ {<<Prefix[k], c>> : k \in Kinds, c \in Commands} \subseteq References
  /\ {<<"REV", u>> : u \in Undos} \subseteq References
  /\ NoCommand \notin Commands

VARIABLES
  command,   \* each command: its progress and its CommandRecord
  history,   \* the commands each invoker remembers, oldest first
  undoing,   \* each undo or reverse request
  crashes    \* pods that died so far

desk == <<command, history, undoing, crashes>>

AtDesk    == {"running", "answering", "done", "failed", "unsure", "dead"}
AtUndo    == {"reversing", "reversed", "done", "refused", "unsure", "dead"}
RecordStatuses == {"EXECUTED", "FAILED", "UNDONE"}

DeskTypeOK ==
  /\ \A c \in Commands :
       \/ command[c].pc = "idle"
       \/ command[c] \in [pc : AtDesk, pod : Pods, call : Calls,
                          status : RecordStatuses, ref : References \cup {NoRef}]
  /\ history \in [Pods -> UNION {[1 .. n -> Commands] : n \in 0 .. MaxHistory}]
  /\ \A u \in Undos :
       \/ undoing[u].pc = "idle"
       \/ undoing[u] \in [pc : AtUndo, pod : Pods, command : Commands \cup {NoCommand},
                          ref : References \cup {NoRef}]
  /\ crashes \in 0 .. MaxCrashes

DeskInit ==
  /\ command = [c \in Commands |-> [pc |-> "idle"]]
  /\ history = [p \in Pods |-> <<>>]
  /\ undoing = [u \in Undos |-> [pc |-> "idle"]]
  /\ crashes = 0

-----------------------------------------------------------------------------
(* What a command asks of the ledger *)

FeeOf(call) ==
  BaseFee + (IF call.channel = "branch" THEN BranchExtra ELSE 0)

RefOf(c) == <<Prefix[command[c].call.kind], c>>

LinesOf(c) ==
  LET call == command[c].call  ref == RefOf(c)
  IN  CASE call.kind = "deposit"  -> {Line(ref, call.to, call.amount, "DEPOSIT")}
        [] call.kind = "withdraw" -> {Line(ref, call.from, -call.amount, "WITHDRAWAL")}
        [] call.kind = "transfer" ->
             {Line(ref, call.from, -call.amount, "TRANSFER_OUT"),
              Line(ref, call.to, call.amount, "TRANSFER_IN")}
             \cup {Line(ref, call.from, -fee, "FEE") : fee \in {FeeOf(call)} \ {0}}

\* Slip: only the app is screened.
ScreenedOnMobile(call) ==
  call.kind = "transfer" /\ call.channel = "mobile" => ~Suspicious(call)

\* Fraud rules see the amount, not the fee that the layer below adds.
Screened(call) == call.kind = "transfer" => ~Suspicious(call)

LedgerAccepts(call) ==
  CASE call.kind = "deposit"  -> Credits(call.to, call.amount)
    [] call.kind = "withdraw" -> Debits(call.from, call.amount)
    [] call.kind = "transfer" ->
         /\ call.from # call.to
         /\ rows[call.from].currency = rows[call.to].currency
         /\ Debits(call.from, call.amount + FeeOf(call))
         /\ Credits(call.to, call.amount)

Accepted(call) == Screened(call) /\ LedgerAccepts(call)

-----------------------------------------------------------------------------
(* CommandInvoker.run *)

\* Slip: the oldest stays.
RememberAll(p, c) == Append(history[p], c)

\* The newest is added, and the oldest leaves when there are too many.
Remember(p, c) ==
  LET longer == Append(history[p], c)
  IN  IF Len(longer) > MaxHistory THEN Tail(longer) ELSE longer

Run(c) ==
  /\ command[c].pc = "idle"
  /\ \E p \in Pods, call \in Calls :
       /\ command' = [command EXCEPT ![c] =
            [pc |-> "running", pod |-> p, call |-> call,
             status |-> "EXECUTED", ref |-> NoRef]]
       /\ history' = [history EXCEPT ![p] = Remember(p, c)]
  /\ UNCHANGED <<undoing, crashes, till>>

To(c, pc, status) ==
  command' = [command EXCEPT ![c].pc = pc, ![c].status = status]

\* The ledger commits.  Losing the answer looks like a failure to the invoker.
Execute(c) ==
  /\ command[c].pc = "running" /\ Accepted(command[c].call)
  /\ Commits(LinesOf(c))
  /\ \/ To(c, "answering", "EXECUTED") /\ UNCHANGED faults
     \/ Fault /\ To(c, "unsure", "FAILED")
  /\ UNCHANGED <<history, undoing, crashes>>

\* Screening, the ledger or the database refuses: nothing is committed.
Refuse(c) ==
  /\ command[c].pc = "running"
  /\ \/ ~Accepted(command[c].call) /\ UNCHANGED faults
     \/ Fault
  /\ To(c, "failed", "FAILED")
  /\ UNCHANGED <<history, undoing, crashes, rows, entries>>

Answer(c) ==
  /\ command[c].pc = "answering"
  /\ command' = [command EXCEPT ![c].pc = "done", ![c].ref = RefOf(c)]
  /\ UNCHANGED <<history, undoing, crashes, till>>

-----------------------------------------------------------------------------
(* CommandInvoker.undo, and POST :reference/reverse *)

Undoable(p, c) ==
  /\ \E i \in 1 .. Len(history[p]) : history[p][i] = c
  /\ command[c].status = "EXECUTED" /\ command[c].ref # NoRef

\* Slip: the record is marked before the ledger has reversed anything.
UndoMarksFirst(u) ==
  /\ undoing[u].pc = "idle"
  /\ \E p \in Pods, c \in Commands :
       /\ Undoable(p, c) /\ Reversible(command[c].ref)
       /\ undoing' = [undoing EXCEPT ![u] = [pc |-> "reversing", pod |-> p,
                        command |-> c, ref |-> command[c].ref]]
       /\ command' = [command EXCEPT ![c].status = "UNDONE"]
  /\ UNCHANGED <<history, crashes, till>>

\* undo() on pod p: the record is checked there, then reverse() looks for an
\* earlier reversal.
Undo(u) ==
  /\ undoing[u].pc = "idle"
  /\ \E p \in Pods, c \in Commands :
       undoing' = [undoing EXCEPT ![u] =
         [pc |-> IF Undoable(p, c) /\ Reversible(command[c].ref)
                 THEN "reversing" ELSE "refused",
          pod |-> p, command |-> c,
          ref |-> IF Undoable(p, c) THEN command[c].ref ELSE NoRef]]
  /\ UNCHANGED <<command, history, crashes, till>>

\* reverse() called for a reference, from any pod.
Reverse(u) ==
  /\ undoing[u].pc = "idle"
  /\ \E p \in Pods, ref \in {x.ref : x \in entries} :
       undoing' = [undoing EXCEPT ![u] =
         [pc |-> IF Reversible(ref) THEN "reversing" ELSE "refused",
          pod |-> p, command |-> NoCommand, ref |-> ref]]
  /\ UNCHANGED <<command, history, crashes, till>>

Becomes(u, pc) == undoing' = [undoing EXCEPT ![u].pc = pc]

CommitReversal(u) ==
  LET lines == ReversalLines(<<"REV", u>>, undoing[u].ref) IN
  /\ undoing[u].pc = "reversing" /\ Covers(lines)
  /\ Commits(lines)
  /\ \/ Becomes(u, "reversed") /\ UNCHANGED faults
     \/ Fault /\ Becomes(u, "unsure")
  /\ UNCHANGED <<command, history, crashes>>

RefuseReversal(u) ==
  /\ undoing[u].pc = "reversing"
  /\ \/ ~Covers(ReversalLines(<<"REV", u>>, undoing[u].ref)) /\ UNCHANGED faults
     \/ Fault
  /\ Becomes(u, "refused")
  /\ UNCHANGED <<command, history, crashes, rows, entries>>

\* The record is marked only now; a plain reverse has no record to mark.
FinishUndo(u) ==
  /\ undoing[u].pc = "reversed"
  /\ Becomes(u, "done")
  /\ IF undoing[u].command = NoCommand THEN UNCHANGED command
     ELSE command' = [command EXCEPT ![undoing[u].command].status = "UNDONE"]
  /\ UNCHANGED <<history, crashes, till>>

\* A pod dies: its history and whatever it was running are gone, and a
\* transaction that did not commit is rolled back.
Crash(p) ==
  /\ crashes < MaxCrashes /\ crashes' = crashes + 1
  /\ history' = [history EXCEPT ![p] = <<>>]
  /\ command' = [c \in Commands |->
       IF command[c].pc \in {"running", "answering"} /\ command[c].pod = p
       THEN [command[c] EXCEPT !.pc = "dead"] ELSE command[c]]
  /\ undoing' = [u \in Undos |->
       IF undoing[u].pc \in {"reversing", "reversed"} /\ undoing[u].pod = p
       THEN [undoing[u] EXCEPT !.pc = "dead"] ELSE undoing[u]]
  /\ UNCHANGED till

DeskNext ==
  \/ \E c \in Commands : Run(c) \/ Execute(c) \/ Refuse(c) \/ Answer(c)
  \/ \E u \in Undos : Undo(u) \/ Reverse(u) \/ CommitReversal(u)
                      \/ RefuseReversal(u) \/ FinishUndo(u)
  \/ \E p \in Pods : Crash(p)

DeskIdle ==
  /\ \A c \in Commands : command[c].pc \notin {"running", "answering"}
  /\ \A u \in Undos : undoing[u].pc \notin {"reversing", "reversed"}
=============================================================================
