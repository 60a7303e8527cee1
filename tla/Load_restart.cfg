SPECIFICATION FairSpec
CONSTANTS
  None = None
  Target <- OwnTables
  hospitals = hospitals
  bookings = bookings
  Entity <- MCEntity
  Rank <- MCRank
  Identity <- IdentityId
  Reference <- Referring
  Strategy <- NumberAndKeep
  Lookups <- LookupsSkip
  SkipsNoIdentity <- NoSkip
  ForeignKeys <- BookingsHaveForeignKey
  Deletable = {hospitals}
  Commands <- WholeRuns
  Namespace = {"ns"}
  BatchSize = 2
  MaxDoc = 2
  MaxKills = 1
INVARIANTS
  RunInvariant
  RowsMapped
  RowsCounted
PROPERTIES
  ImplementsMigration
  EventuallySettled
