SPECIFICATION Spec
CONSTANTS
  a = a
  b = b
  u = u
  v = v
  Posts = {p1}
  Contents = {a, b}
  Links = {u, v}
  UrlsOf <- Urls
  UrlFor <- Normalized
  Observers = {o1}
  Checkers = {}
  Copies = {}
  None = None
  MaxEdits = 2
CHECK_DEADLOCK FALSE
INVARIANT ObservedIsPublished
