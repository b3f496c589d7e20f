SPECIFICATION FairSpec
CONSTANTS
  Pods = {p1}
  Workers = {w1, w2}
  NoWorker = NoWorker
  opened = opened
  deposited = deposited
  poison = poison
  Events <- SomeEvents
  Valid <- GoodEvents
  Type <- TypeOfEvent
  Keys <- SomeKeys
  Key <- KeyOfEvent
  Slot <- SlotOfKey
  MaxFaults = 3
INVARIANTS TypeOK HandledInOrder NothingSkipped DeadLettersExplained
PROPERTY EveryMessageHandled
