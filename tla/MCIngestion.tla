---------------------------- MODULE MCIngestion -----------------------------
(***************************************************************************)
(* Two pods that start together, two requests on the second, two files.    *)
(***************************************************************************)
EXTENDS Ingestion

CONSTANTS b1, b2, q1, q2

Homes == [w \in {b1, b2, q1, q2} |-> IF w = b1 THEN "one" ELSE "two"]
Documents == <<"accounts.md", "loans.md">>
=============================================================================
