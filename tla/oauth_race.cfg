SPECIFICATION Spec
CONSTANTS
  Sessions = {p, q}
  ReadIntents = {r1, r2}
  WriteIntents = {w1}
  None = None
  MaxTokens = 3
  MaxInserts = 3
CHECK_DEADLOCK FALSE
CONSTRAINT OneByOne
SYMMETRY Symmetry
INVARIANTS OneGrantPerIntent AuthorityReplacedAll
PROPERTIES NoFalseRevocation
