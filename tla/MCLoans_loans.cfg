SPECIFICATION Spec
CONSTANTS
  Drafts = {d1}
  Submits = {s1, s2}
  Bodies <- Forms
  Undefined = Undefined
  Personal = Personal
  ali = ali
  shaky = shaky
  defaulter = defaulter
  acc = acc
  missing = missing
  crypto = crypto
  house = house
  Existing = {acc}
  Score <- Scores
  Defaulted = {defaulter}
  Restricted = {crypto}
  Instalment <- InstalmentTable
  MaxChanges = 2
  MaxFaults = 1
SYMMETRY SubmitSymmetry
CHECK_DEADLOCK FALSE
INVARIANTS TypeOK DraftsEndInLoans DecidedForGood AnnouncedIsSaved DecisionFollowsRules
PROPERTY UndoStepsBack
