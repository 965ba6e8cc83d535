SPECIFICATION Spec
CONSTANTS
  Peers = {1, 2, 3, 4}
  PrincipalOf <- MCPrincipalOf
  Creator = 1
  Agents = {1, 2, 3, 4}
  OwnerOf <- MCOwnerOf
  Enrolled = {3}
  PeerLimit <- MCPeerLimit
  Fitness = {100, 390}
  DefaultFitness = 160
  DefaultPeers = 20
  MinParticipants = 2
  ShardMinParticipants = 3
  MaxStandbys = 2
  MaxAgentsPerPrincipal = 1
  LeaseTime = 2
  TakeoverTtl = 1
  EnrollTtl = 1
  MaxTime = 3
  MaxRoute = 7
  MaxRevision = 2
  Plans <- MCPlans
INVARIANTS
  RouteIsEntitled
  OnePrimaryPerRoute
  FederationReaches
  SettledAgentsAreRecognised
  AppliedPlansAreCurrent
PROPERTIES
  FailoverAsks
CHECK_DEADLOCK FALSE
