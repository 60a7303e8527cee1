SPECIFICATION MCSpec
CONSTANTS
  a = a
  b = b
  c = c
  outside = outside
  typo = typo
  Elsewhere = elsewhere
  Table <- MCDeclared
  TablePlace <- MCPlace
  Schemas <- MCSchemas
  Declared <- MCDeclared
  External <- MCExternal
  Name <- MCName
  Place <- MCPlace
  Mappings <- MCMappings
  hospitals = hospitals
  bookings = bookings
  None = None
  Entity <- MCEntity
  Rank <- MCRank
  Parents <- MCParents
  Derived <- MCEntity
  Key = {k1, k2}
  MaxRows = 2
  Limit = 2
  MaxId = 3
  f1 = f1
  f2 = f2
  sub = sub
  id = id
  name = name
  Nothing = Nothing
  Field <- MCField
  Column <- MCColumn
  IdColumn = id
  Collections <- MCCollections
  MaxEdits = 2
CHECK_DEADLOCK FALSE
INVARIANTS
  ParentsFirst
  EachOnce
  RefusedIffCyclic
  ForeignKeysHold
  AnswersTable
  CachesBounded
  NothingLost
