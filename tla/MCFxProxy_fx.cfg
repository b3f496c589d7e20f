SPECIFICATION Spec
CONSTANTS
  Callers = {c1, c2, c3, c4}
  NoEntry = NoEntry
  usd = usd
  xyz = xyz
  Pairs <- SomePairs
  Quoted <- QuotedPairs
  Minute = 2
  Ttl = 2
  MaxCalls = 2
  LastTick = 4
SYMMETRY CallerSymmetry
CHECK_DEADLOCK FALSE
INVARIANTS TypeOK WindowHeld RefusedOnlyWhenFull FreshAnswers
PROPERTY CacheMovesForward
