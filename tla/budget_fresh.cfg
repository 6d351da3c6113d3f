CONSTANTS
  Ledgers = {l1}
  Callers = {p, q}
  NoCaller = NoCaller
  Costs = {1}
  Cap = 2
  Window = 2
  MaxTime = 1
SYMMETRY CallerSymmetry
SPECIFICATION BudgetSpec
PROPERTIES FreshWindowStartsNow
