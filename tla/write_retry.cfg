SPECIFICATION Spec
CONSTANTS
  k1 = k1
  k2 = k2
  k3 = k3
  n1 = n1
  n2 = n2
  Keys = {k1, k2, k3}
  Consents = {n1, n2}
  None = None
  Callers = {c1, c2}
  Requests <- OneRequest
  Cap = 2
  MaxCrashes = 0
PROPERTY InProgressIsTrue
