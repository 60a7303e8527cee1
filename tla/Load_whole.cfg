SPECIFICATION Spec
CONSTANTS
  None = None
  Target <- OwnTables
  hospitals = hospitals
  bookings = bookings
  Entity <- MCEntity
  Rank <- MCRank
  Identity <- IdentityFatal
  Reference <- ReferringTwice
  Strategy <- UuidBoth
  Lookups <- LookupsMixed
  SkipsNoIdentity <- NoSkip
  ForeignKeys <- BookingsHaveForeignKey
  Deletable = {}
  Commands <- WholeOrRefused
  Namespace = {"ns1", "ns2"}
  BatchSize = 2
  MaxDoc = 3
  MaxKills = 1
INVARIANTS
  OneNamespace
  DanglingForReal
PROPERTIES
  RefusedForCause
  FailedForCause
  Progress
