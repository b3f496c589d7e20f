----------------------------- MODULE FraudEngine -----------------------------
(***************************************************************************)
(* The engine that asks every configured rule (fraud/fraud-rule.engine.ts) *)
(* and the interpret methods of the tree a rule was parsed to.  A context  *)
(* maps variables to values.                                               *)
(***************************************************************************)
EXTENDS FraudRules

Numeric(value) == value[1] \in {"number", "bool"}
NumberOf(value) == IF value[1] = "bool" THEN (IF value[2] THEN 1 ELSE 0) ELSE value[2]

\* Unknown data never triggers a comparison, and NaN compares with nothing.
Compares(actual, operator, value) ==
  CASE operator = "==" -> actual = value
    [] operator = "!=" -> actual # value
    [] operator \in {">", ">=", "<", "<="} ->
         /\ Numeric(actual) /\ Numeric(value)
         /\ LET a == NumberOf(actual)  b == NumberOf(value)
            IN  \/ operator = ">"  /\ a > b
                \/ operator = ">=" /\ a >= b
                \/ operator = "<"  /\ a < b
                \/ operator = "<=" /\ a <= b

RECURSIVE Interpret(_, _)
Interpret(tree, context) ==
  CASE tree[1] = "and" -> Interpret(tree[2], context) /\ Interpret(tree[3], context)
    [] tree[1] = "or"  -> Interpret(tree[2], context) \/ Interpret(tree[3], context)
    [] tree[1] = "not" -> ~Interpret(tree[2], context)
    [] tree[1] = "compare" ->
         tree[2] \in DOMAIN context /\ Compares(context[tree[2]], tree[3], tree[4])

\* FraudRuleEngine.evaluate: any rule is enough.
Evaluate(rules, context) ==
  \E i \in DOMAIN rules : Interpret(Parse(rules[i]), context)
=============================================================================
