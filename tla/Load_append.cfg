SPECIFICATION Spec
CONSTANTS
  None = None
  Target <- OneTable
  hospitals = hospitals
  bookings = bookings
  Entity <- MCEntity
  Rank <- MCRank
  Identity <- IdentityMissing
  Reference <- Referring
  Strategy <- IntBoth
  Lookups <- LookupsSkip
  SkipsNoIdentity <- SkipBookings
  ForeignKeys <- NoForeignKeys
  Deletable = {hospitals}
  Commands <- AppendsAndSubsets
  Namespace = {"ns"}
  BatchSize = 2
  MaxDoc = 3
  MaxKills = 1
INVARIANTS
  TypeOK
  NoGap
  LoadedOnce
  ReferencesResolve
  RunComplete
