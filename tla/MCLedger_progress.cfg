CONSTANTS
  r1 = r1
  r2 = r2
  r3 = r3
  Requests = {r1, r2, r3}
  Nobody = Nobody
  OpeningRef = OpeningRef
  Accounts <- Three
  Opened <- Two
  Currency <- CurrencyOfThree
  Limit <- LimitOfThree
  OpeningStatus <- StatusOfThree
  OpeningBalance <- BalanceOfThree
  Amounts = {2}
  Fees = {1}
  Roles <- Crossing
  LastDay = 0
  MayCrash = TRUE
SPECIFICATION FairSpec
INVARIANT LocksOrdered
PROPERTIES EveryRequestEnds EveryCommitIsAnnounced
