SPECIFICATION Spec
CONSTANTS
  h1 = h1
  h2 = h2
  b1 = b1
  n1 = n1
  n2 = n2
  None = None
  Absent = Absent
  Table <- MCTable
  Entity <- MCEntity
  Order <- MCOrder
  Writes <- MCWrites
  Doc <- MCDoc
  Filed <- MCFiled
  Namespace <- MCNamespace
  Default = n1
  Targets <- MCTargets
  Sources <- MCSources
  Seeds <- MCSeeds
  MaxRuns = 2
INVARIANTS
  NothingLeft
  PassedIsLoadable
  NoFalseAlarm
  OwnRowsReferred
PROPERTY
  RealUntouched
