SPECIFICATION Spec

CONSTANTS
  s1 = s1
  s2 = s2
  s3 = s3
  Noop = Noop
  Servers <- ThreeServers
  MaxTerm = 2
  MaxProduced = 2
  MaxStops = 1
  MaxKills = 0
  MaxSnapshots = 0
  SegEnts = 2
  Trailing = 1

SYMMETRY AnyOrder

CONSTRAINT ClosedAfterAnswer

INVARIANTS
  TypeOK
  FirstLivesAgree
  AckedEverywhere
  AppliedInOrder

PROPERTIES
  ImplementsReplicatedLog

CHECK_DEADLOCK FALSE
