----------------------------- MODULE MCNightly ------------------------------
(***************************************************************************)
(* Two accounts, their first entries, and three clock ticks.  The slab is  *)
(* small so that TLC's integers hold a year's interest.                    *)
(***************************************************************************)
EXTENDS Nightly

CONSTANTS r1, r2, s1, people

Two == {"s", "f"}
Amounts == {-1200}
IdsOf == 1 .. 3 \cup 11 .. 14 \cup 21 .. 25

Rows ==
  [a \in Two |->
     IF a = "s" THEN [status |-> "ACTIVE", type |-> "SAVINGS", rate |-> 850, balance |-> 1200]
                ELSE [status |-> "ACTIVE", type |-> "FIXED_DEPOSIT", rate |-> 1200, balance |-> 500]]

Old(id, account, stamp, amount, after, nth) ==
  [id |-> id, account |-> account, stamp |-> stamp, amount |-> amount,
   after |-> after, writer |-> people, nth |-> nth]

\* Three entries of the saver: apart; the last two of one transaction, with
\* ids against their order; the second one committed after the third.
Beginnings ==
  {{Old(14, "f", 0, 500, 500, 0), Old(11, "s", 0, 1000, 1000, 1)} \cup late :
     late \in {{Old(12, "s", 2, 300, 1300, 2), Old(13, "s", 3, -100, 1200, 3)},
               {Old(13, "s", 2, 300, 1300, 2), Old(12, "s", 2, -100, 1200, 3)},
               {Old(12, "s", 2, 300, 1300, 2), Old(13, "s", 1, -100, 1200, 3)}}}
=============================================================================
