SPECIFICATION Spec
CONSTANTS
  Sources = {s1}
  Holders = {ingest, h1}
  LeaseIds <- AnyLeaseId
  Visibilities = {public}
  MaxRecords = 6
  Programs = {p1, p2}
  Peers = {a}
  DeviceOf <- OneDevice
  Requests = {q1, q2}
  Ingest = ingest
  None = None
  Capacity = 1
  Runtime = 1
  LeaseTime = 1
  ChallengeTtl = 1
  HandoffTime = 1
  MaxTime = 2
INVARIANTS
  
  CapacityHolds
SYMMETRY Interchangeable
