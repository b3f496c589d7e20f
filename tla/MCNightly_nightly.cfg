SPECIFICATION Spec
CONSTANTS
  r1 = r1
  r2 = r2
  s1 = s1
  people = people
  Runs = {r1}
  Readers = {s1}
  Customers = people
  Writers = {r1, people}
  Accounts <- Two
  OpeningRows <- Rows
  OpeningBooks <- Beginnings
  Ids <- IdsOf
  FirstTick = 3
  LastTick = 4
  Lag = 1
  Micros = 2
  Crowd = 2
  PageSize = 3
  Slab = 1000
  Bonus = 150
  InactiveFor = 1
  Moves <- Amounts
  MaxMoves = 2
  MaxFaults = 1
INVARIANTS
  TypeOK
  EveryAccountDealtWith
  NothingSkipped
  QuietStatementsReconcile
PROPERTIES
  ReadingEnds
CHECK_DEADLOCK TRUE
