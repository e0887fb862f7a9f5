SPECIFICATION LeasingSpec
CONSTANTS
  l1 = l1  l2 = l2  l3 = l3  ep = ep
  Leases = {l1, l2, l3}
  NoLease = NoLease
  Endpoints = {ep}
  EndpointOf <- OneEndpoint
  Est <- Demand
  Prio <- Urgency
  Evictable <- But3
  Shared <- But1
  Cap <- Two
  MaxCrashes = 0
  Env <- NoLag
INVARIANTS
  LeasingTypeOK
  LedgerBalances
  AdmittedWorkFits
CHECK_DEADLOCK FALSE
