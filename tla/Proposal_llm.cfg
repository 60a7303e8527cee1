SPECIFICATION ProposalSpec
CONSTANTS
  f1 = f1
  f2 = f2
  sub = sub
  id = id
  name = name
  Nothing = Nothing
  Field <- MCField
  Column <- MCColumn
  IdColumn = id
  Collections <- MCCollections
  MaxEdits = 0
INVARIANTS
  DraftReadable
