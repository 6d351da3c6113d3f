SPECIFICATION Spec
CONSTANTS
  p1 = p1
  p2 = p2
  None = None
  Operators = {o1}
  Posts = {p1, p2}
  Texts <- Words
  Dates <- Days
  Says <- Edited
  Source <- TwoFiles
  Evidence = {e1}
  MaxSnapshots = 2
  MaxReports = 1
  MaxDecisions = 2
CHECK_DEADLOCK FALSE
INVARIANT ReviewableIsAuthoritative
