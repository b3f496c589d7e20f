CONSTANTS
  r1 = r1
  r2 = r2
  r3 = r3
  Requests = {r1, r2, r3}
  Nobody = Nobody
  OpeningRef = OpeningRef
  Accounts <- Three
  Opened <- Three
  Currency <- CurrencyOfThree
  Limit <- LimitOfThree
  OpeningStatus <- StatusOfThree
  OpeningBalance <- BalanceOfThree
  Amounts = {2}
  Fees = {1}
  Roles <- MoversAndClerks
  LastDay = 1
  MayCrash = TRUE
SPECIFICATION Spec
INVARIANTS NeverOverdrawn LimitHeld NoPhantomEvents
PROPERTY DebitsNeedActive
