SPECIFICATION CastSpec
CONSTANTS
  r1 = r1
  r2 = r2
  w1 = w1
  w2 = w2
  s1 = s1
  s2 = s2
  add = add
  remove = remove
  None = None
  Posts <- ThreePosts
  Runs <- TwoRuns
  Runners = {w1, w2}
  Scanners = {s1}
  Ops = {add, remove}
  ActionOf <- Asks
  TargetOf <- FirstPost
  PageSize = 1
  PageCap = 2
  RequestCap = 3
  MaxSaves = 3
  MaxCrashes = 1
CHECK_DEADLOCK FALSE
CONSTRAINT InCast
PROPERTIES RemovalHasEvidence SnapshotIsTruthful QuietRunResolvesWrites ScanCoversItsWindow
