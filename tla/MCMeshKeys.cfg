SPECIFICATION Spec
CONSTANTS
  Clients = {1, 2, 3}
  Plans <- MCPlans
INVARIANTS
  
  DepartedAreShutOut
  AgentKeyIsHeld
PROPERTIES
  EventuallyProtected
CHECK_DEADLOCK FALSE
