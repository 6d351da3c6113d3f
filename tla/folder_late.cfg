SPECIFICATION Spec
CONSTANTS
  r1 = r1
  r2 = r2
  r3 = r3
  Posts = {p1, p2}
  Runs = {r1}
  Runners = {w1, w2}
  None = None
  PageSize = 1
  MaxAdds = 2
  MaxCrashes = 0
CHECK_DEADLOCK FALSE
INVARIANT AuthorityTellsMembers
