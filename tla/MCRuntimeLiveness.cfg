SPECIFICATION LiveSpec
CONSTANTS
  Sources = {s1}
  Holders = {ingest, h1}
  LeaseIds <- AnyLeaseId
  Visibilities = {public}
  MaxRecords = 9
  Programs = {p1}
  Peers = {a, b}
  DeviceOf <- OneDevice
  Requests = {q1}
  Ingest = ingest
  None = None
  Capacity = 1
  Runtime = 1
  LeaseTime = 1
  ChallengeTtl = 1
  HandoffTime = 1
  MaxTime = 2
INVARIANTS
  PublishersArePresent
PROPERTIES
  TransactionsSettle
  ExpiredProgramsStop
