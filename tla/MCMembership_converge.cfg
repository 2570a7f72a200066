SPECIFICATION FairSpec

CONSTANTS
  n1 = n1
  n2 = n2
  n3 = n3
  a1 = a1
  a2 = a2
  a3 = a3
  NoServer = NoServer
  Idle = Idle
  Servers <- ThreeServers
  Addrs <- ThreeAddrs
  Bootstrap = n1
  FirstAddr = a1
  MaxChanges = 4
  MaxElections = 1

INVARIANTS
  TypeOK
  Converged

PROPERTIES
  MembersSettle

CHECK_DEADLOCK FALSE
