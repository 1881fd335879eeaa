SPECIFICATION FairSpec
CONSTANTS
  n1 = n1
  n2 = n2
  n3 = n3
  l1 = l1
  l2 = l2
  l3 = l3
  l4 = l4
  NoNode = NoNode
  NoLease = NoLease
  Node <- Pair
  Lease <- Leases3
  Faults <- AllFaults
  MaxFaults = 2
INVARIANTS TypeOK LeaderHoldsKey
PROPERTIES
  StaleServiceStops
  Failover
  SettlesOnOne
