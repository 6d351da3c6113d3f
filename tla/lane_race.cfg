CONSTANTS
  c1 = c1  c2 = c2  c3 = c3  c4 = c4  k1 = k1
  Commands = {c1, c2, c3}
  Keys = {k1}
  Contents = {v1, v2}
  Workers = {w1, w2}
  KeyOf <- Racing
  NoStatus = NoStatus  Poison = Poison
  MaxAttempts = 2  BatchSize = 1
  Lossy = {c1}
  Lease = 1  FirstRetry = 1  MaxRetry = 1
  MaxAbandons = 0
SPECIFICATION Spec
CHECK_DEADLOCK FALSE
SYMMETRY LaneSymmetry
INVARIANTS TypeOK OneTerminalReport FactsReplaySource EveryFactHasItsReport PreservedIsBacked
