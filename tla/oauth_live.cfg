SPECIFICATION FairSpec
CONSTANTS
  Sessions = {p, q}
  ReadIntents = {r1}
  WriteIntents = {w1}
  None = None
  MaxTokens = 1
  MaxInserts = 2
CHECK_DEADLOCK FALSE
INVARIANTS TypeOK OneGrantPerIntent AuthorityReplacedAll
PROPERTIES NoFalseRevocation EveryFlowEnds
