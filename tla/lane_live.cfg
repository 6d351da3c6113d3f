CONSTANTS
  c1 = c1  c2 = c2  c3 = c3  c4 = c4  k1 = k1
  Commands = {c1, c2, c3, c4}
  Keys = {k1}
  Contents = {v1}
  Workers = {w1}
  KeyOf <- Mixed
  NoStatus = NoStatus  Poison = Poison
  MaxAttempts = 2  BatchSize = 2
  Lossy = {c1, c4}
  Lease = 1  FirstRetry = 1  MaxRetry = 1
  MaxAbandons = 1
SPECIFICATION Spec
CHECK_DEADLOCK FALSE
PROPERTIES KeepsPromise EveryCaptureEnds
