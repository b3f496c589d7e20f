-------------------------------- MODULE Bank --------------------------------
(***************************************************************************)
(* What the ledger promises its callers: each request takes effect at most *)
(* once and at one instant, on the balances of that instant; an overdraft, *)
(* a crossed daily limit, a second reversal or a half-made transfer cannot *)
(* be observed.  There are no locks, entries, reads or crashes here.       *)
(*                                                                         *)
(* The limit is that of a calendar day.  A request that was under way when *)
(* the day changed is weighed against what the new day has spent, but      *)
(* never counts as spent itself: its entries carry the day it began.       *)
(***************************************************************************)
EXTENDS AccountState

CONSTANTS Requests, Accounts, Opened, Currency, Limit, OpeningStatus,
          OpeningBalance, Amounts, Fees, Roles

VARIABLES
  balance,   \* balance of each account
  spent,     \* withdrawn and transferred out today, per account
  effect,    \* what each request did to each balance
  outcome,   \* "pending", "done" or "refused", per request
  reversed,  \* requests whose effect has been taken back
  overnight  \* pending requests that began on an earlier day

vars == <<balance, spent, effect, outcome, reversed, overnight>>

Init ==
  /\ balance = OpeningBalance
  /\ spent = [a \in Accounts |-> 0]
  /\ effect = [p \in Requests |-> [a \in Accounts |-> 0]]
  /\ outcome = [p \in Requests |-> "pending"]
  /\ reversed = {}
  /\ overnight = {}

\* p changes every balance by delta, at once.
Takes(p, delta) ==
  /\ outcome[p] = "pending"
  /\ balance' = [a \in Accounts |-> balance[a] + delta[a]]
  /\ \A a \in Accounts : balance'[a] >= 0
  /\ effect' = [effect EXCEPT ![p] = delta]
  /\ outcome' = [outcome EXCEPT ![p] = "done"]
  /\ overnight' = overnight \ {p}

\* x counts as spent on a today, unless p began before.
Spends(p, a, x) ==
  spent' = IF p \in overnight THEN spent ELSE [spent EXCEPT ![a] = @ + x]

Deposit(p) ==
  /\ "deposit" \in Roles[p]
  /\ \E a \in Opened, x \in Amounts \ {0} :
       /\ CanDeposit(OpeningStatus[a])
       /\ Takes(p, [b \in Accounts |-> IF b = a THEN x ELSE 0])
  /\ UNCHANGED <<spent, reversed>>

Withdraw(p) ==
  /\ "withdraw" \in Roles[p]
  /\ \E a \in Opened, x \in Amounts \ {0} :
       /\ CanWithdraw(OpeningStatus[a]) /\ spent[a] + x <= Limit[a]
       /\ Takes(p, [b \in Accounts |-> IF b = a THEN -x ELSE 0])
       /\ Spends(p, a, x)
  /\ UNCHANGED reversed

\* The fee leaves the bank's customers: it is credited to no account.
Transfer(p) ==
  /\ "transfer" \in Roles[p]
  /\ \E a, b \in Opened, x \in Amounts \ {0}, fee \in Fees :
       /\ a # b /\ Currency[a] = Currency[b]
       /\ CanWithdraw(OpeningStatus[a]) /\ CanDeposit(OpeningStatus[b])
       /\ spent[a] + x + fee <= Limit[a]
       /\ Takes(p, [c \in Accounts |-> CASE c = a -> -(x + fee)
                                         [] c = b -> x
                                         [] OTHER -> 0])
       /\ Spends(p, a, x)
  /\ UNCHANGED reversed

Reverse(p) ==
  /\ "reverse" \in Roles[p]
  /\ \E q \in Requests \ reversed :
       /\ outcome[q] = "done"
       /\ Takes(p, [a \in Accounts |-> -effect[q][a]])
       /\ reversed' = reversed \cup {q}
  /\ UNCHANGED spent

Refuse(p) ==
  /\ outcome[p] = "pending"
  /\ outcome' = [outcome EXCEPT ![p] = "refused"]
  /\ overnight' = overnight \ {p}
  /\ UNCHANGED <<balance, spent, effect, reversed>>

\* Counting starts again; some requests are under way.
Midnight ==
  /\ spent' = [a \in Accounts |-> 0]
  /\ overnight \subseteq overnight'
  /\ overnight' \in SUBSET {p \in Requests : outcome[p] = "pending"}
  /\ UNCHANGED <<balance, effect, outcome, reversed>>

Next ==
  \/ \E p \in Requests :
       Deposit(p) \/ Withdraw(p) \/ Transfer(p) \/ Reverse(p) \/ Refuse(p)
  \/ Midnight

Spec == Init /\ [][Next]_vars
=============================================================================
