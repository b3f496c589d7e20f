---------------------------- MODULE AccountState ----------------------------
(***************************************************************************)
(* The account life cycle of accounts/domain/account-state.ts: which       *)
(* movements of money each status allows and which transitions are legal.  *)
(* A pure table: the modules that change accounts EXTEND it.               *)
(***************************************************************************)
EXTENDS Integers

Statuses == {"PENDING", "ACTIVE", "FROZEN", "CLOSED"}

CanDeposit(status)  == status \in {"PENDING", "ACTIVE", "FROZEN"}
CanWithdraw(status) == status = "ACTIVE"

StatusActions == {"activate", "freeze", "unfreeze", "close"}

\* Closing is legal from every open status, and only at balance zero.
IsLegal(status, action, balance) ==
  \/ action = "activate" /\ status = "PENDING"
  \/ action = "freeze"   /\ status = "ACTIVE"
  \/ action = "unfreeze" /\ status = "FROZEN"
  \/ action = "close"    /\ status # "CLOSED" /\ balance = 0

StatusAfter == [activate |-> "ACTIVE", freeze |-> "FROZEN",
                unfreeze |-> "ACTIVE", close  |-> "CLOSED"]
=============================================================================
