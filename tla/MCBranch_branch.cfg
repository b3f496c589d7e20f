SPECIFICATION Spec
CONSTANTS
  p1 = p1
  p2 = p2
  c1 = c1
  c2 = c2
  u1 = u1
  j1 = j1
  Pods = {p1, p2}
  Commands = {c1, c2}
  Undos = {u1}
  Jobs = {j1}
  Accounts <- Two
  References <- Refs
  AccountOf <- NewAccount
  Applications <- Forms
  OpeningRows <- Rows
  RuleTexts <- FewPieces
  Calls <- DeskCalls
  Suspicious <- EngineVerdict
  MaxHistory = 1
  BaseFee = 500
  BranchExtra = 10000
  MaxFaults = 1
  MaxCrashes = 1
  MaxClerk = 1
SYMMETRY Symmetric
INVARIANTS
  TypeOK
  DeskTellsTruth
  TransfersScreened
  OnboardedOrUndone
  RulesFollowGrammar
CHECK_DEADLOCK TRUE
