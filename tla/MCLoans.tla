------------------------------ MODULE MCLoans ------------------------------
(* A small instance of the loan drafts for TLC. *)
EXTENDS Loans, TLC

CONSTANTS ali, shaky, defaulter,  \* applicants
          acc, missing,           \* accounts, the second does not exist
          crypto, house           \* a restricted purpose; a collateral

Form(name, account, amount, income) ==
  [applicantName |-> name, accountId |-> account, amountMinor |-> amount,
   monthlyIncomeMinor |-> income]
Secured(value) == [collateralDescription |-> house, collateralValueMinor |-> value]
Purpose(p) == [purpose |-> p]

\* One body for each outcome of the desks, one the builder refuses, one with an
\* unknown account.
Forms == {Form(ali, acc, 1000, 240),                          \* approved
          Form(ali, acc, 1000, 230),                          \* unaffordable
          Form(shaky, acc, 1000, 240),                        \* borderline
          Form(defaulter, acc, 1000, 240),                    \* rejected
          Form(ali, missing, 1000, 240),                      \* no account
          Form(ali, acc, 6000, 9000) @@ Secured(3000),        \* for an officer
          Form(ali, acc, 3000, 9000) @@ Secured(1499),        \* too little collateral
          Form(ali, acc, 1000, 240) @@ Purpose(crypto)}       \* restricted

Scores == [n \in {ali, shaky, defaulter} |-> IF n = shaky THEN 679 ELSE 680]

SubmitSymmetry == Permutations(Submits)

\* The amortised instalment at 20% a year, rounded to thousands.
InstalmentTable(amount, term) ==
  CASE amount = 1000 -> 93 [] amount = 3000 -> 278
    [] amount = 6000 -> 556
=============================================================================
