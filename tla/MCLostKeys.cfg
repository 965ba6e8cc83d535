SPECIFICATION Spec
CONSTANTS
  Clients = {1, 2, 3}
  Plans <- MCRoutePlans
INVARIANT
  KeyLossIsRecovered
CHECK_DEADLOCK FALSE
