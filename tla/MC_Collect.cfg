\* Three operations, two mishaps of any kind.
CONSTANTS
  Places <- MCPlaces
  StatsType <- MCStatsType
  Target <- MCTarget
  Nid <- MCNid
  Hosts <- MCHosts
  MaxOps = 3
  MaxMishaps = 2
SPECIFICATION FairSpec
INVARIANTS TypeOK StandingAreReported NoOpCountedTwice
PROPERTIES CountsComeToBePublished
