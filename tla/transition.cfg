SPECIFICATION Spec
CONSTANTS
  p1 = p1
  p2 = p2
  None = None
  Operators = {o1, o2}
  Posts = {p1, p2}
  Texts <- Words
  Dates <- Days
  Says <- Edited
  Source <- TwoFiles
  Evidence = {e1}
  MaxSnapshots = 1
  MaxReports = 2
  MaxDecisions = 2
CHECK_DEADLOCK FALSE
CONSTRAINT ImportsFirst
SYMMETRY Symmetry
INVARIANTS ImportHoldsItsSource OfficialPostStands ShadowAccountsForAll ReviewableIsApproved
