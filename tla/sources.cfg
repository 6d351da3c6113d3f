SPECIFICATION Spec
CONSTANTS
  a = a
  b = b
  u = u
  v = v
  Posts = {p1}
  Contents = {a, b}
  Links = {u, v}
  UrlsOf <- Urls
  UrlFor <- Normalized
  Observers = {o1, o2}
  Checkers = {k1, k2}
  Copies = {1, 2}
  None = None
  MaxEdits = 3
CHECK_DEADLOCK FALSE
SYMMETRY TaskSymmetry
INVARIANTS FactsTellTheLife OneCommandPerArticle TakedownHasEvidence ConsumedIsLinkedOnce
