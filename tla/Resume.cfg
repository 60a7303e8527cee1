SPECIFICATION MCSpec
CONSTANTS
  Ids <- ObjectIds
  HexText <- AllHex
  Process = {p, q}
  Modes = {"append", "upsert", "truncate"}
  Beside = {"append", "upsert"}
  BatchSize = 2
  None = None
  Group <- MCGroup
  Stamp <- MCStamp
  InsertSize = 1
  Outputs = {"out", "merge", "rebuild"}
SYMMETRY Symmetry
INVARIANTS
  TypeOK
  NothingBehind
  NothingAhead
  OnePerGroup
PROPERTIES
  DoneIsComplete
  OneRowPerGroup
