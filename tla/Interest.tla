------------------------------ MODULE Interest ------------------------------
(***************************************************************************)
(* The interest strategies of accounts/domain/interest.strategy.ts.  Rates *)
(* are hundredths of a percent a year.  For the rates the catalogue hands  *)
(* out (8.5, 9.25, 12) the floating-point results are the exact floors.    *)
(***************************************************************************)
EXTENDS Integers

CONSTANTS
  Slab,    \* SLAB_MINOR: the balance above which the bonus is earned
  Bonus    \* BONUS_PERCENT

ASSUME InterestAssumption == Slab \in Nat /\ Bonus \in Nat

YearOfMonths == 120000   \* twelve months, in hundredths of a percent

Lesser(a, b) == IF a < b THEN a ELSE b
Excess(a, b) == IF a > b THEN a - b ELSE 0

NoInterest(balance, rate) == 0

Tiered(balance, rate) ==
  (Lesser(balance, Slab) * rate + Excess(balance, Slab) * (rate + Bonus)) \div YearOfMonths

\* One month of compounding is the flat rate: (1 + r/12)^1 - 1.
CompoundMonthly(balance, rate) == (balance * rate) \div YearOfMonths

\* Slip: the bonus is paid on the whole balance.
BonusOnEverything(type, balance, rate) ==
  CASE type = "CURRENT"       -> NoInterest(balance, rate)
    [] type = "SAVINGS"       ->
         (balance * (IF balance > Slab THEN rate + Bonus ELSE rate)) \div YearOfMonths
    [] type = "FIXED_DEPOSIT" -> CompoundMonthly(balance, rate)

\* InterestCalculator: the strategy goes by the type of the account.
MonthlyInterest(type, balance, rate) ==
  CASE type = "CURRENT"       -> NoInterest(balance, rate)
    [] type = "SAVINGS"       -> Tiered(balance, rate)
    [] type = "FIXED_DEPOSIT" -> CompoundMonthly(balance, rate)

-----------------------------------------------------------------------------

\* What a month's profit is, said without a strategy: the greatest whole number
\* of minor units that twelve equal months of it stay within the year's rate,
\* with the bonus on the part above the slab for savings alone.
IsProfit(n, type, balance, rate) ==
  LET year == IF type = "CURRENT" THEN 0
              ELSE balance * rate
                   + (IF type = "SAVINGS" /\ balance > Slab THEN (balance - Slab) * Bonus ELSE 0)
  IN  n * YearOfMonths <= year /\ year < (n + 1) * YearOfMonths
=============================================================================
