SPECIFICATION Spec
CONSTANTS
  None = None
  Target <- OwnTables
  hospitals = hospitals
  bookings = bookings
  Entity <- MCEntity
  Rank <- MCRank
  Identity <- IdentityOther
  Reference <- Referring
  Strategy <- UuidBoth
  Lookups <- LookupsSkip
  SkipsNoIdentity <- NoSkip
  ForeignKeys <- BookingsHaveForeignKey
  Deletable = {}
  Commands <- Appends
  Namespace = {"ns"}
  BatchSize = 2
  MaxDoc = 2
  MaxKills = 1
PROPERTIES
  RefusedForCause
