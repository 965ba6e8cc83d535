SPECIFICATION Spec
CONSTANTS
  Sources = {s1}
  Holders = {h1}
  LeaseIds = {i1, i2}
  Visibilities = {public}
  MaxRecords = 7
  MaxTime = 1
  MaxLease = 1
  Lag = 1
SYMMETRY Symmetry
INVARIANTS
  WritersAreExclusive
PROPERTIES
  ImplementsFencing
  SupersededWriterStaysFenced
  StoppedIsFinal
CHECK_DEADLOCK FALSE
