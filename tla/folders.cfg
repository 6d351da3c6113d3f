SPECIFICATION Spec
CONSTANTS
  r1 = r1
  r2 = r2
  r3 = r3
  Posts = {p1, p2}
  Runs = {r1, r2, r3}
  Runners = {w1, w2}
  None = None
  PageSize = 1
  MaxAdds = 2
  MaxCrashes = 1
CHECK_DEADLOCK FALSE
VIEW Read
CONSTRAINT OneByOne
SYMMETRY Symmetry
INVARIANT HistoryTellsMembership
PROPERTIES UntouchedIsTruthful
