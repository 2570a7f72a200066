SPECIFICATION Spec

CONSTANTS
  s1 = s1
  s2 = s2
  s3 = s3
  Noop = Noop
  Servers <- ThreeServers
  MaxTerm = 1
  MaxProduced = 2
  MaxStops = 1
  MaxKills = 0
  MaxSnapshots = 0
  SegEnts = 2
  Trailing = 1

SYMMETRY AnyOrder

INVARIANTS
  UserLogsAgree

CHECK_DEADLOCK FALSE
