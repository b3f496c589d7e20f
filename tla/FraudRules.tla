----------------------------- MODULE FraudRules -----------------------------
(***************************************************************************)
(* The rule language of fraud/fraud-rule.interpreter.ts: its recursive     *)
(* descent parser, and the grammar it is written for.                      *)
(*                                                                         *)
(* A rule is a sequence of tokens; cutting text into tokens is left out.   *)
(* A token is <<kind, text>>; values carry their type, <<"number", 5>> or  *)
(* <<"string", "mobile">>, because === compares that too.  Strings are     *)
(* words, whose Number() is NaN.                                           *)
(*                                                                         *)
(* The methods of the parser call each other only further to the right,    *)
(* so they are one recursive function on positions: parse[i] holds what    *)
(* parseNot, parseAnd and parseOr return when they are called at i.        *)
(***************************************************************************)
EXTENDS Integers, Sequences

ValueKinds == {"number", "string", "bool"}

Kind(rule, i) == IF i <= Len(rule) THEN rule[i][1] ELSE "end"

\* What a parse gives back: the tree, and the position behind it.
SyntaxError      == [tree |-> <<"error">>, next |-> 0]
Parsed(tree, n)  == [tree |-> tree, next |-> n]
IsError(p)       == p.next = 0

\* comparison := IDENTIFIER OPERATOR value
Comparison(rule, i) ==
  IF Kind(rule, i) = "ident" /\ Kind(rule, i + 1) = "op"
     /\ Kind(rule, i + 2) \in ValueKinds
  THEN Parsed(<<"compare", rule[i][2], rule[i + 1][2], rule[i + 2]>>, i + 3)
  ELSE SyntaxError

Positions(rule) == 1 .. Len(rule) + 1

\* Slip: the closing parenthesis is not asked for.
PrimaryUnclosed(rule, parse, i) ==
  IF Kind(rule, i) = "lparen" THEN parse[i + 1].or ELSE Comparison(rule, i)

ParsePrimary(rule, parse, i) ==
  IF Kind(rule, i) # "lparen" THEN Comparison(rule, i)
  ELSE LET inner == parse[i + 1].or
       IN  IF ~IsError(inner) /\ Kind(rule, inner.next) = "rparen"
           THEN Parsed(inner.tree, inner.next + 1) ELSE SyntaxError

ParseNot(rule, parse, i) ==
  IF Kind(rule, i) # "not" THEN ParsePrimary(rule, parse, i)
  ELSE LET inner == parse[i + 1].not
       IN  IF IsError(inner) THEN SyntaxError
           ELSE Parsed(<<"not", inner.tree>>, inner.next)

\* One turn of a loop that runs while the next token is word.
Turn(rule, parse, word, operand, left) ==
  IF IsError(left) \/ Kind(rule, left.next) # word THEN left
  ELSE LET right == parse[left.next + 1][operand]
       IN  IF IsError(right) THEN SyntaxError
           ELSE Parsed(<<word, left.tree, right.tree>>, right.next)

\* The loops of parseAnd and parseOr: left after k turns; every turn takes
\* tokens, so there are no more turns than tokens.
Loop(rule, parse, word, operand, first) ==
  LET left[k \in 0 .. Len(rule)] ==
        IF k = 0 THEN first ELSE Turn(rule, parse, word, operand, left[k - 1])
  IN  left[Len(rule)]

ParseAt(rule, parse, i) ==
  LET negation    == ParseNot(rule, parse, i)
      conjunction == Loop(rule, parse, "and", "not", negation)
  IN  [not |-> negation, and |-> conjunction,
       or  |-> Loop(rule, parse, "or", "and", conjunction)]

\* What parseOr makes of the whole rule.
Whole(rule) ==
  LET parse[i \in Positions(rule)] == ParseAt(rule, parse, i) IN parse[1].or

\* Nothing may be left over.
Parse(rule) ==
  LET whole == Whole(rule)
  IN  IF rule # <<>> /\ whole.next = Len(rule) + 1 THEN whole.tree ELSE SyntaxError.tree

-----------------------------------------------------------------------------
(* The grammar of the comment at the head of the source: the trees that    *)
(* rule[i], ..., rule[j] derive to, for each of its spans <<i, j>>.        *)

Spans(rule) == (1 .. Len(rule) + 1) \X (0 .. Len(rule))

\* primary := "(" expression ")" | comparison
PrimaryTrees(rule, trees, i, j) ==
  (IF j = i + 2 /\ ~IsError(Comparison(rule, i)) THEN {Comparison(rule, i).tree} ELSE {})
  \cup (IF i < j /\ Kind(rule, i) = "lparen" /\ Kind(rule, j) = "rparen"
        THEN trees[<<i + 1, j - 1>>].or ELSE {})

\* notExpr := "NOT" notExpr | primary
NotTrees(rule, trees, i, j) ==
  (IF Kind(rule, i) = "not" THEN {<<"not", t>> : t \in trees[<<i + 1, j>>].not} ELSE {})
  \cup PrimaryTrees(rule, trees, i, j)

Joined(word, lefts, rights) == {<<word, l, r>> : l \in lefts, r \in rights}

\* chain := operand (word operand)*, grouped to the left
ChainTrees(rule, trees, word, chain, operand, i, j) ==
  UNION {Joined(word, trees[<<i, k - 1>>][chain], trees[<<k + 1, j>>][operand]) :
           k \in {n \in i .. j : Kind(rule, n) = word}}

TreesAt(rule, trees, i, j) ==
  LET nots == NotTrees(rule, trees, i, j)
      ands == nots \cup ChainTrees(rule, trees, "and", "and", "not", i, j)
  IN  [not |-> nots, and |-> ands,
       or  |-> ands \cup ChainTrees(rule, trees, "or", "or", "and", i, j)]

Derived(rule) ==
  LET trees[s \in Spans(rule)] == TreesAt(rule, trees, s[1], s[2])
  IN  trees[<<1, Len(rule)>>].or

\* The parser builds the one tree the grammar gives a rule, and refuses
\* exactly the rules the grammar gives none.
FollowsGrammar(rule) ==
  Derived(rule) = IF Parse(rule) = SyntaxError.tree THEN {} ELSE {Parse(rule)}
=============================================================================
