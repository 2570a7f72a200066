SPECIFICATION FairSpec

CONSTANTS
  c1 = c1
  c2 = c2
  s1 = s1
  s2 = s2
  s3 = s3
  NoConn = NoConn
  NoSubConn = NoSubConn
  NoCall = NoCall
  NoServer = NoServer
  Conns <- TwoConns
  Servers <- TwoServers
  MaxPicks = 3
  MaxChanges = 2

INVARIANTS
  TypeOK
  SettledRouting
  RoundRobin

PROPERTIES
  ProduceFindsLeader
  LastDialledResolved

CHECK_DEADLOCK FALSE
