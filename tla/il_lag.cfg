SPECIFICATION FairSpec
CONSTANTS
  l1 = l1  l2 = l2  l3 = l3  ep = ep
  Leases = {l1, l2}
  NoLease = NoLease
  Endpoints = {ep}
  EndpointOf <- OneEndpoint
  Est <- Demand
  Prio <- Urgency
  Evictable <- Nobody
  Shared <- Everybody
  Cap <- One
  MaxCrashes = 1
  Env <- LagAndDelete
INVARIANTS
  AdmittedWorkFits
PROPERTIES
  LeasesEnd
  WaitersAreServed
CHECK_DEADLOCK FALSE
