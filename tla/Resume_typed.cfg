SPECIFICATION MCSpec
CONSTANTS
  Ids <- MixedIds
  HexText <- SomeHex
  Process = {p}
  Modes = {"append"}
  Beside = {}
  BatchSize = 1
  None = None
  Group <- NoGroup
  Stamp <- NoGroup
  InsertSize = 1
  Outputs = {}
INVARIANTS
  NothingBehind
