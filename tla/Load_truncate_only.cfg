SPECIFICATION Spec
CONSTANTS
  None = None
  Target <- OwnTables
  hospitals = hospitals
  bookings = bookings
  Entity <- MCEntity
  Rank <- MCRank
  Identity <- IdentityId
  Reference <- Referring
  Strategy <- IntBoth
  Lookups <- LookupsSkip
  SkipsNoIdentity <- NoSkip
  ForeignKeys <- BookingsHaveForeignKey
  Deletable = {}
  Commands <- TruncateOnly
  Namespace = {"ns"}
  BatchSize = 2
  MaxDoc = 2
  MaxKills = 1
INVARIANTS
  LoadedOnce
