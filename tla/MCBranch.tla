------------------------------ MODULE MCBranch ------------------------------
(***************************************************************************)
(* A small branch: one open account and one to be onboarded, two pods, the *)
(* amounts of the default fraud rules and of the product catalogue.        *)
(***************************************************************************)
EXTENDS Branch, TLC

CONSTANTS p1, p2, c1, c2, u1, j1

Engine == INSTANCE FraudEngine

Word(kind)   == <<kind, kind>>
More(name, n) == <<<<"ident", name>>, <<"op", ">">>, <<"number", n>>>>
Less(name, n) == <<<<"ident", name>>, <<"op", "<">>, <<"number", n>>>>
Is(name, word) == <<<<"ident", name>>, <<"op", "==">>, <<"string", word>>>>

DefaultRules ==
  <<More("amount", 5000000) \o <<Word("and")>> \o Is("channel", "mobile"),
    Less("hour", 5) \o <<Word("and")>> \o More("amount", 1000000)>>

EngineVerdict(call) ==
  Engine!Evaluate(DefaultRules,
    [amount  |-> <<"number", call.amount>>,
     channel |-> <<"string", call.channel>>,
     hour    |-> <<"number", call.hour>>])

Two == {"a", "b"}
Refs == {"DEP", "WDL", "TRF", "REV"} \X ({c1, c2} \cup {u1} \cup {j1})
NewAccount == [j \in {j1} |-> "b"]
Rows == [a \in Two |-> IF a = "b" THEN Absent ELSE
          [status |-> "ACTIVE", balance |-> 9000000, limit |-> 50000000, currency |-> "PKR"]]

\* A saver at the minimum and one below it, a student with no money and
\* in dollars, a product of another type, a currency nobody supports.
Form(product, currency, initial) ==
  [type |-> "SAVINGS", product |-> product, currency |-> currency, initial |-> initial]

Forms ==
  {Form(NoProduct, "PKR", 100000), Form(NoProduct, "PKR", 99999),
   Form("STUDENT_SAVER", "USD", 0), Form("BUSINESS_CURRENT", "PKR", 2500000),
   Form(NoProduct, "XXX", 100000)}

Ask(kind, from, to, amount, channel, hour) ==
  [kind |-> kind, from |-> from, to |-> to, amount |-> amount,
   channel |-> channel, hour |-> hour]

DeskCalls ==
  {Ask("deposit", "b", "b", 100000, "web", 12),
   Ask("withdraw", "b", "b", 100000, "web", 12),
   Ask("transfer", "a", "b", 5000001, "mobile", 12),
   Ask("transfer", "a", "b", 5000001, "branch", 12),
   Ask("transfer", "a", "b", 1000001, "web", 4)}

\* Rules over these pieces, up to five of them, the empty rule included.
Pieces == {More("amount", 5), Is("channel", "mobile"), <<<<"op", ">">>>>,
           <<Word("and")>>, <<Word("or")>>, <<Word("not")>>,
           <<Word("lparen")>>, <<Word("rparen")>>}
RECURSIVE Texts(_)
Texts(n) == IF n = 0 THEN {<<>>}
            ELSE Texts(n - 1) \cup {p \o t : p \in Pieces, t \in Texts(n - 1)}

FewPieces == Texts(5)

Symmetric == Permutations({p1, p2}) \cup Permutations({c1, c2})
=============================================================================
