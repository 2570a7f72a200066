SPECIFICATION Spec

CONSTANTS
  s1 = s1
  s2 = s2
  s3 = s3
  Noop = Noop
  Servers <- ThreeServers
  MaxTerm = 4
  MaxProduced = 2
  MaxStops = 0
  MaxKills = 0
  MaxSnapshots = 0
  SegEnts = 2
  Trailing = 1

SYMMETRY AnyOrder

CONSTRAINT ShownThenForgotten

INVARIANTS
  FirstLivesAlwaysAgree

CHECK_DEADLOCK FALSE
