SPECIFICATION MCSpec
CONSTANTS
  r1 = r1
  r2 = r2
  None = None
  Empty = Empty
  Raw = Raw
  Bad = Bad
  Ref <- MCRef
  Mappings <- AllMappings
  Lookups <- MCLookups
  Datasets <- MCDatasets
  BatchSize = 1
  MaxViolations = 2
  SampleSize = 1
  Default = Default
  Changes <- SampleDocs
  MaxDrifts = 1
INVARIANTS
  FailuresForeseen
  DropsAnnounced
  CountsMatch
  AcceptedIsComplete
  SampleClean
  SampleFinds
  NoSilentNull
CHECK_DEADLOCK FALSE
