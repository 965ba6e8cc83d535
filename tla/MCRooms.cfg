SPECIFICATION Spec
CONSTANTS
  c1 = c1  c2 = c2  c3 = c3  c4 = c4  c5 = c5  c6 = c6
  u1 = u1  u2 = u2  u3 = u3  m = m  l = l
  r1 = r1  k1 = k1  k2 = k2
  None = None
  Conns = {c1, c2, c3, c4, c5, c6}
  UserOf <- MCUserOf
  Machines = {m}
  Legacy = {l}
  PlainRooms = {r1}
  ChildRooms = {k1, k2}
  MaxParticipants = 3
  ChildCapacity = 2
  MaxEntriesPerOwner = 1
  TicketTtl = 1
  BindTtl = 1
  SetTtl = 2
  GrantTtl = 1
  UndoTime = 1
  IdleTtl = 1
  MaxTime = 2
  Plans <- MCPlans
INVARIANTS
  GrantedEntryFits
  OneRoomPerFamily
  BreakoutsEndWithTheirSet
  RemovalIsDriven
  MembersCanRefresh
