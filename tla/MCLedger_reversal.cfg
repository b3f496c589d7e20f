CONSTANTS
  r1 = r1
  r2 = r2
  r3 = r3
  Requests = {r1, r2, r3}
  Nobody = Nobody
  OpeningRef = OpeningRef
  Accounts <- Two
  Opened <- Two
  Currency <- CurrencyOfTwo
  Limit <- LimitOfTwo
  OpeningStatus <- StatusOfTwo
  OpeningBalance <- BalanceOfTwo
  Amounts = {2}
  Fees = {0}
  Roles <- TwoReversers
  LastDay = 0
  MayCrash = FALSE
SPECIFICATION Spec
INVARIANT ReversedOnce
