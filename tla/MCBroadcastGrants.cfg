SPECIFICATION Spec
CONSTANTS
  GrantIds = {g1, g2}
  Subjects = {a, b}
  Programs = {p1}
  Epochs = {1}
  Kids = {k1, k2}
  Requests = {r1, r2}
  Idle = Idle
  SubjectLimit = 1
  ProgramLimit = 2
  TenantLimit = 2
  Ttl = 2
  Retention = 1
  MaxTime = 2
  MaxUses = 2
SYMMETRY Symmetry
INVARIANTS
  SingleUseIsSpentOnce
  QuotasHold
PROPERTIES
  RevokedEpochIsFinal
  DeadGrantsStayDead
