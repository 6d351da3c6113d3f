CONSTANTS
  i1 = i1  i2 = i2  NoId = NoId
  Ids = {i1, i2}
  Removals = {i2}
  Oversized = {i1}
  Rank <- Age
  Relays = {r1}
  BatchSize = 1
  UnhealthyAttempts = 2  UnhealthyAge = 1
  BackoffBase = 1  BackoffCap = 1
  ResendAfter = 1  ResendCap = 1
  CountCap = 2  MaxCrashes = 1
SPECIFICATION Spec
PROPERTIES RemovalIsAcknowledged EveryRowLeaves HealthRecovers
