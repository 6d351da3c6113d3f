SPECIFICATION CastSpec
CONSTANTS
  r1 = r1
  r2 = r2
  w1 = w1
  w2 = w2
  s1 = s1
  s2 = s2
  add = add
  remove = remove
  None = None
  Posts <- TwoPosts
  Runs <- OneRun
  Runners = {w1, w2}
  Scanners = {}
  Ops = {}
  ActionOf <- Asks
  TargetOf <- FirstPost
  PageSize = 2
  PageCap = 1
  RequestCap = 1
  MaxSaves = 2
  MaxCrashes = 0
CHECK_DEADLOCK FALSE
PROPERTY AuthorityIsFrozen
