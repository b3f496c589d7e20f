CONSTANTS
  r1 = r1
  r2 = r2
  r3 = r3
  Requests = {r1, r2, r3}
  Nobody = Nobody
  OpeningRef = OpeningRef
  Accounts <- Two
  Opened <- Two
  Currency <- CurrencyOfTwo
  Limit <- LimitOfTwo
  OpeningStatus <- StatusOfTwo
  OpeningBalance <- BalanceOfTwo
  Amounts = {0, 2}
  Fees = {0, 1}
  Roles <- OneReverser
  LastDay = 1
  MayCrash = TRUE
SPECIFICATION Spec
SYMMETRY Movers
INVARIANTS TypeOK BalanceExplained WholeTransactions
PROPERTY LedgerIsAtomic
