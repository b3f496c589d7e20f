------------------------------ MODULE MCLedger ------------------------------
(* Small instances of the ledger for TLC. *)
EXTENDS LedgerRefinesBank

CONSTANTS r1, r2, r3

Money == {"deposit", "withdraw", "transfer"}

\* r1 and r2 move money, r3 reverses what they did.
OneReverser == (r1 :> Money) @@ (r2 :> Money) @@ (r3 :> {"reverse"})

\* There r1 and r2 may make the same calls, so swapping them changes nothing.
Movers == Permutations({r1, r2})

\* r1 moves money while r2 and r3 reverse it or change statuses.
MoversAndClerks ==
  (r1 :> Money) @@ (r2 :> {"reverse", "status"}) @@ (r3 :> {"withdraw", "status"})

\* One deposit and two operators who may both reverse it.
TwoReversers ==
  (r1 :> {"deposit"}) @@ (r2 :> {"reverse"}) @@ (r3 :> {"reverse"})

\* A customer's withdrawal beside one status change.
CustomerAndClerk == (r1 :> {"withdraw"}) @@ (r2 :> {"status"})

\* Requests that hold one row while they wait for another.
Crossing ==
  (r1 :> {"transfer"}) @@ (r2 :> {"transfer"}) @@ (r3 :> {"reverse", "transfer"})

\* Account 3 holds another currency and is not activated yet; account 4 does
\* not exist.
Two == {1, 2}
Three == {1, 2, 3}
Four == {1, 2, 3, 4}
CurrencyOf == [a \in Four |-> IF a = 3 THEN "USD" ELSE "PKR"]
StatusOf == [a \in Four |-> IF a = 3 THEN "PENDING" ELSE "ACTIVE"]
BalanceOf == <<4, 0, 0, 0>>
LimitOf == [a \in Four |-> 3]

CurrencyOfTwo == [a \in Two |-> CurrencyOf[a]]
StatusOfTwo == [a \in Two |-> StatusOf[a]]
BalanceOfTwo == [a \in Two |-> BalanceOf[a]]
LimitOfTwo == [a \in Two |-> LimitOf[a]]
CurrencyOfThree == [a \in Three |-> CurrencyOf[a]]
StatusOfThree == [a \in Three |-> StatusOf[a]]
BalanceOfThree == [a \in Three |-> BalanceOf[a]]
LimitOfThree == [a \in Three |-> LimitOf[a]]
=============================================================================
