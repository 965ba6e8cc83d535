SPECIFICATION Spec
CONSTANTS
  Holders = {1, 2}
  Roles = {packager, gateway}
  CandidateLists <- TwoStandbys
  SignalSets <- WriterOrBrowser
  Voters = 1
  LeaseEpoch = 2
  LeaseTtl = 2
  Grace = 1
  RecoveryDeadline = 2
  MaxOutbox = 2
  MaxTime = 3
  MaxFence = 4
  MaxSequence = 3
SYMMETRY EitherRole
INVARIANTS
  OwnSnapshotsRestore
PROPERTIES
  ImplementsFencing
