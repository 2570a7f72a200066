SPECIFICATION FairSpec

CONSTANTS
  s1 = s1
  s2 = s2
  s3 = s3
  Noop = Noop
  Servers <- ThreeServers
  MaxTerm = 1
  MaxProduced = 2
  MaxStops = 0
  MaxKills = 1
  MaxSnapshots = 1
  SegEnts = 2
  Trailing = 1

INVARIANTS
  CompactedInSnapshot

PROPERTIES
  FollowersCatchUp

CHECK_DEADLOCK FALSE
