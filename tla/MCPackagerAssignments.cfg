SPECIFICATION Spec
CONSTANTS
  Packagers = {a, b}
  a = a  g1 = g1  g2 = g2
  Programs = {g1, g2}
  None = None
  LeaseTime = 2
  DrainTime = 1
  MaxAssignments = 2
  MaxQueue = 2
  Plans <- MCPlans
INVARIANTS
  OneWriter
  EncodersFit
CHECK_DEADLOCK FALSE
PROPERTIES
  GhostsEnd
  StoppedProgramsFallSilent
