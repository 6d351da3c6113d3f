CONSTANTS
  Ledgers = {l1}
  Callers = {p, q, r}
  NoCaller = NoCaller
  Costs = {1, 2, 3}
  Cap = 2
  Window = 2
  MaxTime = 3
SYMMETRY CallerSymmetry
SPECIFICATION BudgetSpec
INVARIANTS CallsStayUnderCap WindowsAreDisjoint
PROPERTIES RefusedOnlyWhenFull
