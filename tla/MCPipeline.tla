----------------------------- MODULE MCPipeline -----------------------------
(* A small instance of the event pipeline for TLC. *)
EXTENDS EventPipeline, TLC

CONSTANTS opened, deposited, poison

\* One account's events: its status change and its deposit go to two topics; a
\* poison message shares the partition of the deposit.
SomeEvents == {opened, deposited, poison}
GoodEvents == {opened, deposited}
TypeOfEvent == [e \in SomeEvents |->
                  IF e = opened THEN "account.opened" ELSE "transaction.deposited"]

SomeKeys == {"account", "other"}
KeyOfEvent == [e \in SomeEvents |-> IF e = poison THEN "other" ELSE "account"]
SlotOfKey == [k \in SomeKeys |-> 1]
=============================================================================
