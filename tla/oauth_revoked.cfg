SPECIFICATION Spec
CONSTANTS
  Sessions = {p}
  ReadIntents = {r1, r2}
  WriteIntents = {}
  None = None
  MaxTokens = 2
  MaxInserts = 2
CHECK_DEADLOCK FALSE
PROPERTY RevocationScrubs
