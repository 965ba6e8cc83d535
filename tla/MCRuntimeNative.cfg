SPECIFICATION Spec
CONSTANTS
  Sources = {s1}
  Holders = {ingest, h1, h2}
  LeaseIds <- AnyLeaseId
  Visibilities = {public}
  MaxRecords = 16
  Programs = {p1}
  Peers = {a}
  DeviceOf <- OneDevice
  Requests = {q1}
  Ingest = ingest
  None = None
  Capacity = 1
  Runtime = 2
  LeaseTime = 2
  ChallengeTtl = 1
  HandoffTime = 1
  MaxTime = 3
INVARIANTS
  StopIsAlwaysPossible
  HandoffIsFenced
  HandoffCanFinish
