SPECIFICATION Spec
CONSTANTS
  b1 = b1
  b2 = b2
  q1 = q1
  q2 = q2
  Boots = {b1, b2}
  Requests = {q1, q2}
  PodOf <- Homes
  Files <- Documents
  MaxAttempts = 2
  MaxFaults = 2
  MaxCrashes = 1
  Nobody = Nobody
INVARIANTS
  TypeOK
  SourcesOnce
  IngestedStaysWhole
CHECK_DEADLOCK TRUE
