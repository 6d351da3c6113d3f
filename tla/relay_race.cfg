CONSTANTS
  i1 = i1  i2 = i2  NoId = NoId
  Ids = {i1, i2}
  Removals = {i2}
  Oversized = {}
  Rank <- Age
  Relays = {r1, r2}
  BatchSize = 2
  UnhealthyAttempts = 1  UnhealthyAge = 0
  BackoffBase = 1  BackoffCap = 1
  ResendAfter = 1  ResendCap = 1
  CountCap = 1  MaxCrashes = 0
SPECIFICATION Spec
INVARIANTS PublishedWasStored OrderUnlessRefused RemovalStaysArmed
PROPERTY AnswerIsFinal
SYMMETRY RelaySymmetry
