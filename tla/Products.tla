------------------------------ MODULE Products ------------------------------
(***************************************************************************)
(* What an account is opened with: the creators of                         *)
(* accounts/domain/account.factory.ts and the catalogue of                 *)
(* accounts/domain/account-product.prototype.ts.  Amounts are minor units, *)
(* rates hundredths of a percent.  Names, features and perks of a product  *)
(* decide nothing and are left out.                                        *)
(***************************************************************************)
EXTENDS Integers

AccountTypes == {"SAVINGS", "CURRENT", "FIXED_DEPOSIT"}
Currencies   == {"PKR", "USD", "EUR", "GBP", "AED", "SAR"}

Settings(type, limit, rate, minimum) ==
  [type |-> type, limit |-> limit, rate |-> rate, minimum |-> minimum]

\* createBlueprint of each creator.
TypeDefaults ==
  [SAVINGS       |-> Settings("SAVINGS", 5000000, 850, 100000),
   CURRENT       |-> Settings("CURRENT", 50000000, 0, 0),
   FIXED_DEPOSIT |-> Settings("FIXED_DEPOSIT", 0, 1200, 5000000)]

BasicSaver == Settings("SAVINGS", 5000000, 850, 100000)

\* A clone differs from its prototype in what it overrides, and only there.
Catalog ==
  [BASIC_SAVER      |-> BasicSaver,
   STUDENT_SAVER    |-> [BasicSaver EXCEPT !.limit = 2000000, !.minimum = 0],
   FREELANCER_SAVER |-> [BasicSaver EXCEPT !.limit = 20000000, !.rate = 925],
   BUSINESS_CURRENT |-> Settings("CURRENT", 100000000, 0, 2500000),
   TERM_DEPOSIT_1Y  |-> Settings("FIXED_DEPOSIT", 0, 1200, 5000000)]

NoProduct == "none"

\* A product's settings replace the defaults of its type.
Blueprint(input) ==
  IF input.product = NoProduct THEN TypeDefaults[input.type]
                               ELSE Catalog[input.product]

\* The checks of AccountsService.open and AccountCreator.open.
Opens(input) ==
  /\ input.currency \in Currencies
  /\ input.product # NoProduct =>
       input.product \in DOMAIN Catalog /\ Catalog[input.product].type = input.type
  /\ input.initial >= Blueprint(input).minimum
=============================================================================
