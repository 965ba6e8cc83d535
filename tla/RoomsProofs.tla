----------------------------- MODULE RoomsProofs -----------------------------
(***************************************************************************)
(* Proofs about rooms, tickets, breakout sets and moderation, for any      *)
(* number of connections, users, rooms and breakout rooms, every capacity  *)
(* and every time limit.                                                   *)
(***************************************************************************)
EXTENDS Rooms, FiniteSetTheorems, WellFoundedInduction, TLAPS

-----------------------------------------------------------------------------
(***************************************************************************)
(* The invariant                                                           *)
(***************************************************************************)

\* A peer of a room is an open connection to that room.
Seated == \A r \in RoomIds : \A c \in rooms[r].peers : conn[c].st = "open" /\ conn[c].room = r

\* A ticket names a room that exists or a child id in use, and only people
\* hold tickets of a breakout set.
Placed ==
  \A c \in Conns :
    /\ conn[c].room \in PlainRooms \cup retired \cup {None}
    /\ conn[c].st # "none" => conn[c].room # None
    /\ conn[c].set # {} => ~Machine(c)

DisjointSets ==
  \A p, q \in PlainRooms : p # q => sets[p].children \cap sets[q].children = {}

\* Breakout rooms belong to an open set, and their members to that set.
Breakouts ==
  \A r \in RoomIds :
    /\ rooms[r].kind = "breakout" => \E p \in PlainRooms : r \in sets[p].children
    /\ \A p \in PlainRooms : r \in sets[p].children =>
         /\ \A c \in rooms[r].peers : conn[c].set = sets[p].children
         /\ rooms[r] # Vacant => rooms[r].kind = "breakout" /\ rooms[r].mode = "room"

\* A ticket never outlives the refresh grant that waits for its socket.
Refreshable ==
  \A c \in Conns :
    /\ conn[c].st = "ticket" => ice[c].st = "unbound" /\ conn[c].expires <= ice[c].bindBy
    /\ Live(c) => ice[c].st = "bound"

LiveFor(gs, k, t) == {g \in gs : g.child = k /\ g.expires > t}

\* At time t a user has one live grant at most.
OneEach(gs, t) ==
  \A g, h \in gs : g.expires > t /\ h.expires > t /\ g.user = h.user => g = h

\* Members and promised places of a breakout room fit it.
Seats ==
  \A p \in PlainRooms :
    /\ OneEach(sets[p].grants, now)
    /\ \A k \in sets[p].children :
         Cardinality(LiveFor(sets[p].grants, k, now)) + Cardinality(rooms[k].peers) <= ChildCapacity

\* The inductive invariant.
IInv ==
  /\ TypeOK /\ Seated /\ Placed /\ DisjointSets /\ Breakouts /\ Refreshable /\ Seats
  /\ OneRoomPerFamily /\ RemovalIsDriven

-----------------------------------------------------------------------------
(***************************************************************************)
(* Facts about the state                                                   *)
(***************************************************************************)
LEMMA VacantType == Vacant \in Room /\ Vacant.peers = {} /\ Vacant.hands = {}
                    /\ Vacant.pending = NoRemove /\ Vacant.kind = "room" /\ Vacant.mode = "none"
  BY DEF Vacant, Room, NoRemove, Removal, Policies

LEMMA NoConnType == NoConn \in Connection /\ NoConn.st = "none" /\ NoConn.room = None
                    /\ NoConn.set = {}
  BY DEF NoConn, Connection

LEMMA NoSetType == NoSet \in BreakoutSet /\ NoSet.children = {} /\ NoSet.grants = {}
  BY DEF NoSet, BreakoutSet

LEMMA PeersFinite ==
  ASSUME NEW S \in SUBSET Conns
  PROVE  IsFiniteSet(S) /\ Cardinality(S) \in Nat
  BY ConnAssumption, FS_Subset, FS_CardinalityType

LEMMA UsersFinite == IsFiniteSet(Users)
  <1> DEFINE f == [c \in Conns |-> UserOf[c]]
  <1>1. f \in Surjection(Conns, Users)
    BY ConnAssumption DEF Surjection, Users
  <1> QED
    BY <1>1, ConnAssumption, FS_Surjection

\* One live grant per user: as many as there are users, at most.
LEMMA LiveFinite ==
  ASSUME NEW gs \in SUBSET Grant, NEW t, OneEach(gs, t), NEW k
  PROVE  IsFiniteSet(LiveFor(gs, k, t)) /\ Cardinality(LiveFor(gs, k, t)) \in Nat
  <1> DEFINE S == LiveFor(gs, k, t)
             f == [g \in S |-> g.user]
  <1>1. f \in [S -> Users]
    BY DEF LiveFor, Grant
  <1>2. \A g, h \in S : f[g] = f[h] => g = h
    BY DEF OneEach, LiveFor
  <1>3. f \in Injection(S, Users)
    <2> HIDE DEF S
    <2>1. DOMAIN f = S
      OBVIOUS
    <2> HIDE DEF f
    <2> QED
      BY <1>1, <1>2, <2>1 DEF Injection, IsInjective
  <1> HIDE DEF S
  <1>4. IsFiniteSet(S)
    BY <1>3, UsersFinite, FS_Injection
  <1> QED
    BY <1>4, FS_CardinalityType DEF S

\* Fewer places are promised and fewer members are there: it still fits.
LEMMA FewerSeats ==
  ASSUME NEW S, NEW T, NEW A, NEW B, S \subseteq T, A \subseteq B,
         IsFiniteSet(T), IsFiniteSet(B),
         Cardinality(T) + Cardinality(B) <= ChildCapacity
  PROVE  Cardinality(S) + Cardinality(A) <= ChildCapacity
  <1>1. Cardinality(S) <= Cardinality(T) /\ Cardinality(A) <= Cardinality(B)
        /\ IsFiniteSet(S) /\ IsFiniteSet(A)
    BY FS_Subset
  <1>2. Cardinality(S) \in Nat /\ Cardinality(A) \in Nat /\ Cardinality(T) \in Nat
        /\ Cardinality(B) \in Nat
    BY <1>1, FS_CardinalityType
  <1>3. ChildCapacity \in Nat
    BY CapacityAssumption
  <1> QED
    BY <1>1, <1>2, <1>3

LEMMA Typed ==
  ASSUME IInv
  PROVE  /\ now \in Nat /\ now \in 0..MaxTime /\ MaxTime \in Nat
         /\ conn \in [Conns -> Connection] /\ ice \in [Conns -> IceGrant]
         /\ rooms \in [RoomIds -> Room] /\ sets \in [PlainRooms -> BreakoutSet]
         /\ retired \subseteq ChildRooms /\ timers \in [RoomIds -> Nat]
         /\ dir \in [PlainRooms -> Entry]
         /\ PlainRooms \subseteq RoomIds /\ ChildRooms \subseteq RoomIds
         /\ \A p \in PlainRooms : sets[p].children \subseteq retired
  BY TimeAssumption DEF IInv, TypeOK, RoomIds

\* Where a connection that is not gone has its place.
LEMMA Place ==
  ASSUME IInv, NEW c \in Conns, conn[c].st # "none"
  PROVE  conn[c] \in Connection /\ conn[c].room \in RoomIds /\ rooms[conn[c].room] \in Room
  <1>1. conn[c] \in Connection /\ conn[c].room # None
    BY Typed DEF IInv, Placed
  <1>2. conn[c].room \in RoomIds
    BY <1>1 DEF Connection
  <1> QED
    BY <1>1, <1>2, Typed

LEMMA MemberPlace ==
  ASSUME IInv, NEW c \in Conns, Member(c)
  PROVE  /\ conn[c].room \in RoomIds /\ rooms[conn[c].room] \in Room
         /\ c \in rooms[conn[c].room].peers /\ rooms[conn[c].room] # Vacant
         /\ rooms[conn[c].room].mode # "none"
  <1>1. conn[c].st = "open" /\ c \in rooms[conn[c].room].peers
    BY DEF Member
  <1>2. conn[c].room \in RoomIds /\ rooms[conn[c].room] \in Room
    BY <1>1, Place
  <1>3. rooms[conn[c].room] # Vacant
    BY <1>1, VacantType
  <1> QED
    BY <1>1, <1>2, <1>3 DEF IInv, TypeOK

LEMMA ParentFacts ==
  ASSUME IInv, NEW r, Reserved(r)
  PROVE  /\ ParentOf(r) \in PlainRooms /\ r \in sets[ParentOf(r)].children
         /\ r \in ChildRooms /\ r \notin PlainRooms
         /\ \A p \in PlainRooms : r \in sets[p].children => p = ParentOf(r)
  <1>1. ParentOf(r) \in PlainRooms /\ r \in sets[ParentOf(r)].children
    BY DEF Reserved, ParentOf
  <1>2. r \in ChildRooms /\ r \notin PlainRooms
    BY <1>1, Typed, RoomAssumption
  <1> QED
    BY <1>1, <1>2 DEF IInv, DisjointSets

-----------------------------------------------------------------------------
(***************************************************************************)
(* Moderation: a room changes, its members do not                          *)
(***************************************************************************)
LEMMA RuleKeeps ==
  ASSUME IInv, NEW c \in Conns, Member(c), NEW room \in Room, Rule(c, room),
         room.peers = rooms[conn[c].room].peers,
         room.kind = rooms[conn[c].room].kind, room.mode = rooms[conn[c].room].mode,
         room.hands \subseteq room.peers,
         timers' \in [RoomIds -> Nat],
         \A r \in RoomIds : r # conn[c].room => timers'[r] = timers[r],
         room.pending # NoRemove =>
           /\ {room.pending.target, room.pending.actor} \subseteq room.peers
           /\ timers'[conn[c].room] = room.pending.expires
  PROVE  IInv'
  <1> DEFINE r0 == conn[c].room
  <1>1. /\ r0 \in RoomIds /\ c \in rooms[r0].peers /\ rooms[r0] # Vacant
        /\ rooms[r0].mode # "none"
    BY MemberPlace
  <1>2. /\ rooms' = [rooms EXCEPT ![r0] = room] /\ now' = now /\ conn' = conn /\ ice' = ice
        /\ sets' = sets /\ retired' = retired /\ dir' = dir /\ plan' = plan
    BY DEF Rule
  <1>3. /\ rooms' \in [RoomIds -> Room] /\ rooms'[r0] = room
        /\ \A r \in RoomIds : r # r0 => rooms'[r] = rooms[r]
    BY <1>1, <1>2, Typed
  <1>4. room # Vacant
    BY <1>1, VacantType
  <1>5. \A r \in RoomIds : /\ rooms'[r].peers = rooms[r].peers /\ rooms'[r].kind = rooms[r].kind
                           /\ rooms'[r].mode = rooms[r].mode
                           /\ rooms'[r] = Vacant <=> rooms[r] = Vacant
    BY <1>1, <1>3, <1>4
  <1> HIDE DEF r0
  <1>6. TypeOK'
    <2>1. \A r \in RoomIds :
            /\ (rooms'[r].mode = "none") <=> (rooms'[r] = Vacant)
            /\ rooms'[r].hands \subseteq rooms'[r].peers
            /\ (rooms'[r].peers = {}) => (rooms'[r] = Vacant)
      BY <1>1, <1>3, <1>4, <1>5 DEF IInv, TypeOK
    <2> QED
      BY <1>2, <1>3, <2>1 DEF IInv, TypeOK
  <1>7. Seated' /\ Placed' /\ DisjointSets'
    BY <1>2, <1>5 DEF IInv, Seated, Placed, DisjointSets, Machine
  <1>8. Breakouts'
    BY <1>2, <1>5 DEF IInv, Breakouts
  <1>9. Refreshable'
    <2>1. \A d \in Conns : Live(d)' => Live(d)
      <3> SUFFICES ASSUME NEW d \in Conns, Live(d)' PROVE Live(d)
        OBVIOUS
      <3>1. conn[d].st = "open" /\ d \in rooms'[conn[d].room].peers /\ conn[d].sock = "open"
        BY <1>2 DEF Live, Member
      <3>2. conn[d].room \in RoomIds
        BY <3>1, Place
      <3> QED
        BY <1>5, <3>1, <3>2 DEF Live, Member
    <2> QED
      BY <1>2, <2>1 DEF IInv, Refreshable
  <1>10. Seats'
    <2>1. \A p \in PlainRooms : sets[p].children \subseteq RoomIds
      BY Typed
    <2> QED
      BY <1>2, <1>5, <2>1 DEF IInv, Seats
  <1>11. OneRoomPerFamily'
    <2>1. \A p \in PlainRooms : {p} \cup sets[p].children \subseteq RoomIds
      BY Typed
    <2> QED
      BY <1>2, <1>5, <2>1 DEF IInv, OneRoomPerFamily
  <1>12. RemovalIsDriven'
    BY <1>3 DEF IInv, RemovalIsDriven, r0
  <1> QED
    BY <1>6, <1>7, <1>8, <1>9, <1>10, <1>11, <1>12 DEF IInv

\* A rule that leaves the pending removal alone.
LEMMA RuleAlone ==
  ASSUME IInv, NEW c \in Conns, Member(c), NEW room \in Room, Rule(c, room), timers' = timers,
         room.peers = rooms[conn[c].room].peers,
         room.kind = rooms[conn[c].room].kind, room.mode = rooms[conn[c].room].mode,
         room.pending = rooms[conn[c].room].pending, room.hands \subseteq room.peers
  PROVE  IInv'
  <1> DEFINE old == rooms[conn[c].room]
  <1>1. conn[c].room \in RoomIds
    BY MemberPlace
  <1>2. old.pending # NoRemove => /\ {old.pending.target, old.pending.actor} \subseteq old.peers
                                  /\ timers[conn[c].room] = old.pending.expires
    BY <1>1 DEF IInv, RemovalIsDriven
  <1> QED
    BY <1>2, Typed, RuleKeeps

LEMMA OldRoom ==
  ASSUME IInv, NEW c \in Conns, Member(c)
  PROVE  LET old == rooms[conn[c].room]
         IN /\ old \in Room /\ c \in old.peers /\ old.peers \subseteq Conns
            /\ old.hands \subseteq old.peers
  <1>1. rooms[conn[c].room] \in Room /\ conn[c].room \in RoomIds /\ c \in rooms[conn[c].room].peers
    BY MemberPlace
  <1> QED
    BY <1>1 DEF IInv, TypeOK, Room

LEMMA SetHandKeeps == ASSUME IInv, NEW c \in Conns, SetHand(c) PROVE IInv'
  <1> DEFINE old == rooms[conn[c].room]
             h == IF c \in old.hands THEN old.hands \ {c} ELSE old.hands \cup {c}
             room == [old EXCEPT !.hands = h]
  <1>1. Member(c)
    BY DEF SetHand, Moderated
  <1>2. old \in Room /\ c \in old.peers /\ old.peers \subseteq Conns /\ old.hands \subseteq old.peers
    BY <1>1, OldRoom
  <1>3. h \subseteq old.peers
    BY <1>2
  <1>4. Rule(c, room) /\ timers' = timers
    <2>1. room = [old EXCEPT !.hands = IF c \in @ THEN @ \ {c} ELSE @ \cup {c}]
      BY <1>2 DEF Room
    <2> QED
      BY <2>1 DEF SetHand
  <1> HIDE DEF h
  <1>5. /\ room \in Room /\ room.peers = old.peers /\ room.kind = old.kind
        /\ room.mode = old.mode /\ room.pending = old.pending /\ room.hands = h
    BY <1>2, <1>3 DEF Room
  <1> HIDE DEF room
  <1> QED
    BY <1>1, <1>3, <1>4, <1>5, RuleAlone

LEMMA ClearHandKeeps ==
  ASSUME IInv, NEW c \in Conns, NEW d \in Conns, ClearHand(c, d) PROVE IInv'
  <1> DEFINE old == rooms[conn[c].room]
             h == old.hands \ {d}
             room == [old EXCEPT !.hands = h]
  <1>1. Member(c)
    BY DEF ClearHand
  <1>2. old \in Room /\ old.peers \subseteq Conns /\ old.hands \subseteq old.peers
    BY <1>1, OldRoom
  <1>3. h \subseteq old.peers
    BY <1>2
  <1>4. Rule(c, room) /\ timers' = timers
    <2>1. room = [old EXCEPT !.hands = @ \ {d}]
      BY <1>2 DEF Room
    <2> QED
      BY <2>1 DEF ClearHand
  <1> HIDE DEF h
  <1>5. /\ room \in Room /\ room.peers = old.peers /\ room.kind = old.kind
        /\ room.mode = old.mode /\ room.pending = old.pending /\ room.hands = h
    BY <1>2, <1>3 DEF Room
  <1> HIDE DEF room
  <1> QED
    BY <1>1, <1>3, <1>4, <1>5, RuleAlone

LEMMA AssignPresenterKeeps ==
  ASSUME IInv, NEW c \in Conns, NEW d \in Conns, AssignPresenter(c, d) PROVE IInv'
  <1> DEFINE old == rooms[conn[c].room]
             room == [old EXCEPT !.presenter = d]
  <1>1. Member(c) /\ Rule(c, room) /\ timers' = timers
    BY DEF AssignPresenter, Moderated
  <1>2. old \in Room /\ old.hands \subseteq old.peers
    BY <1>1, OldRoom
  <1>3. /\ room \in Room /\ room.peers = old.peers /\ room.kind = old.kind
        /\ room.mode = old.mode /\ room.pending = old.pending /\ room.hands = old.hands
    BY <1>2 DEF Room
  <1> HIDE DEF room
  <1> QED
    BY <1>1, <1>2, <1>3, RuleAlone

LEMMA SetPolicyKeeps ==
  ASSUME IInv, NEW c \in Conns, NEW p \in Policies, NEW board \in BOOLEAN, SetPolicy(c, p, board)
  PROVE  IInv'
  <1> DEFINE old == rooms[conn[c].room]
             room == IF board THEN [old EXCEPT !.board = p] ELSE [old EXCEPT !.diagram = p]
  <1>1. Member(c) /\ Rule(c, room) /\ timers' = timers
    BY DEF SetPolicy, Moderated
  <1>2. old \in Room /\ old.hands \subseteq old.peers
    BY <1>1, OldRoom
  <1>3. /\ room \in Room /\ room.peers = old.peers /\ room.kind = old.kind
        /\ room.mode = old.mode /\ room.pending = old.pending /\ room.hands = old.hands
    BY <1>2 DEF Room
  <1> HIDE DEF room
  <1> QED
    BY <1>1, <1>2, <1>3, RuleAlone

LEMMA AuthorizeRemoveKeeps ==
  ASSUME IInv, NEW c \in Conns, NEW d \in Conns, AuthorizeRemove(c, d) PROVE IInv'
  <1> DEFINE old == rooms[conn[c].room]
             due == now + UndoTime
             pend == [target |-> d, actor |-> c, expires |-> due]
             room == [old EXCEPT !.pending = pend]
  <1>1. /\ Member(c) /\ Rule(c, room) /\ d \in old.peers
        /\ timers' = [timers EXCEPT ![conn[c].room] = due]
    BY DEF AuthorizeRemove, Moderated
  <1>2. old \in Room /\ old.hands \subseteq old.peers /\ c \in old.peers
    BY <1>1, OldRoom
  <1>3. due \in Nat
    BY Typed, TimeAssumption
  <1>4. pend \in Removal /\ pend.target = d /\ pend.actor = c /\ pend.expires = due
    BY <1>3 DEF Removal
  <1>5. conn[c].room \in RoomIds
    BY <1>1, MemberPlace
  <1>6. /\ timers' \in [RoomIds -> Nat] /\ timers'[conn[c].room] = due
        /\ \A r \in RoomIds : r # conn[c].room => timers'[r] = timers[r]
    BY <1>1, <1>3, <1>5, Typed
  <1> HIDE DEF pend, due
  <1>7. /\ room \in Room /\ room.peers = old.peers /\ room.kind = old.kind
        /\ room.mode = old.mode /\ room.pending = pend /\ room.hands = old.hands
    BY <1>2, <1>4 DEF Room
  <1> HIDE DEF room
  <1> QED
    BY <1>1, <1>2, <1>4, <1>6, <1>7, RuleKeeps

LEMMA CancelRemoveKeeps == ASSUME IInv, NEW c \in Conns, CancelRemove(c) PROVE IInv'
  <1> DEFINE old == rooms[conn[c].room]
             room == [old EXCEPT !.pending = NoRemove]
  <1>1. /\ Member(c) /\ Rule(c, room)
        /\ timers' = [timers EXCEPT ![conn[c].room] = 0]
    BY DEF CancelRemove
  <1>2. old \in Room /\ old.hands \subseteq old.peers
    BY <1>1, OldRoom
  <1>3. NoRemove \in Removal
    BY DEF NoRemove, Removal
  <1>4. /\ timers' \in [RoomIds -> Nat]
        /\ \A r \in RoomIds : r # conn[c].room => timers'[r] = timers[r]
    BY <1>1, MemberPlace, Typed
  <1>5. /\ room \in Room /\ room.peers = old.peers /\ room.kind = old.kind
        /\ room.mode = old.mode /\ room.pending = NoRemove /\ room.hands = old.hands
    BY <1>2, <1>3 DEF Room
  <1> HIDE DEF room
  <1> QED
    BY <1>1, <1>2, <1>4, <1>5, RuleKeeps

\* executeDueRemove: a timer that fires finds its removal due, or none.
LEMMA RemoveTimerKeeps == ASSUME IInv, NEW r \in RoomIds, RemoveTimer(r) PROVE IInv'
  <1> DEFINE pend == rooms[r].pending
             due == pend # NoRemove /\ pend.expires <= now
             room == [rooms[r] EXCEPT !.pending = NoRemove]
             k == [conn[pend.target] EXCEPT !.sock = "closing"]
  <1>w. /\ timers' = [timers EXCEPT ![r] = 0]
        /\ rooms' = IF due THEN [rooms EXCEPT ![r].pending = NoRemove] ELSE rooms
        /\ conn' = IF due THEN [conn EXCEPT ![pend.target].sock = "closing"] ELSE conn
        /\ now' = now /\ ice' = ice /\ sets' = sets /\ retired' = retired /\ dir' = dir
        /\ plan' = plan
    BY DEF RemoveTimer
  <1>1. rooms[r] \in Room /\ pend \in Removal /\ NoRemove \in Removal
    BY Typed DEF Room, NoRemove, Removal
  <1>2. pend # NoRemove => /\ pend.target \in rooms[r].peers
                           /\ timers[r] = pend.expires
    BY DEF IInv, RemovalIsDriven
  <1>3. pend # NoRemove => due
    BY <1>2 DEF RemoveTimer
  <1>4. /\ rooms' \in [RoomIds -> Room] /\ rooms'[r].pending = NoRemove
        /\ \A q \in RoomIds : q # r => rooms'[q] = rooms[q]
        /\ rooms'[r].peers = rooms[r].peers /\ rooms'[r].kind = rooms[r].kind
        /\ rooms'[r].mode = rooms[r].mode /\ rooms'[r].hands = rooms[r].hands
        /\ rooms[r].peers = {} => rooms'[r] = rooms[r]
    <2>1. CASE due
      <3>1. rooms' = [rooms EXCEPT ![r] = room]
        BY <1>w, <2>1, Typed
      <3>2. /\ room \in Room /\ room.pending = NoRemove /\ room.peers = rooms[r].peers
            /\ room.kind = rooms[r].kind /\ room.mode = rooms[r].mode /\ room.hands = rooms[r].hands
        BY <1>1 DEF Room
      <3> HIDE DEF room
      <3>3. rooms' \in [RoomIds -> Room] /\ rooms'[r] = room
            /\ \A q \in RoomIds : q # r => rooms'[q] = rooms[q]
        BY <3>1, <3>2, Typed
      <3> QED
        BY <1>2, <2>1, <3>2, <3>3
    <2>2. CASE ~due
      BY <1>w, <1>3, <2>2, Typed
    <2> QED
      BY <2>1, <2>2
  <1>5. /\ conn' \in [Conns -> Connection]
        /\ \A c \in Conns : /\ conn'[c].st = conn[c].st /\ conn'[c].room = conn[c].room
                            /\ conn'[c].set = conn[c].set /\ conn'[c].expires = conn[c].expires
                            /\ conn'[c].sock = "open" => conn[c].sock = "open"
    <2>1. CASE due
      <3>1. pend.target \in Conns
        BY <1>1, <1>2, <2>1 DEF Room
      <3>2. conn[pend.target] \in Connection
        BY <3>1, Typed
      <3>3. k \in Connection /\ k.st = conn[pend.target].st /\ k.room = conn[pend.target].room
            /\ k.set = conn[pend.target].set /\ k.expires = conn[pend.target].expires
            /\ k.sock = "closing"
        BY <3>2 DEF Connection
      <3>4. conn' = [conn EXCEPT ![pend.target] = k]
        BY <1>w, <2>1, <3>1, Typed
      <3> HIDE DEF k, pend
      <3> QED
        BY <3>1, <3>3, <3>4, Typed
    <2>2. CASE ~due
      BY <1>w, <2>2, Typed
    <2> QED
      BY <2>1, <2>2
  <1>6. timers' \in [RoomIds -> Nat] /\ \A q \in RoomIds : q # r => timers'[q] = timers[q]
    BY <1>w, Typed
  <1>7. \A q \in RoomIds : /\ rooms'[q].peers = rooms[q].peers /\ rooms'[q].kind = rooms[q].kind
                           /\ rooms'[q].mode = rooms[q].mode /\ rooms'[q].hands = rooms[q].hands
    BY <1>4
  <1>8. \A q \in RoomIds : rooms'[q] = Vacant <=> rooms[q] = Vacant
    <2>1. \A q \in RoomIds : rooms[q].peers = {} <=> rooms[q] = Vacant
      BY VacantType DEF IInv, TypeOK
    <2> QED
      BY <1>4, <1>7, <2>1, VacantType
  <1> HIDE DEF pend, due
  <1>9. TypeOK'
    <2>1. \A q \in RoomIds :
            /\ (rooms'[q].mode = "none") <=> (rooms'[q] = Vacant)
            /\ rooms'[q].hands \subseteq rooms'[q].peers
            /\ (rooms'[q].peers = {}) => (rooms'[q] = Vacant)
      BY <1>7, <1>8 DEF IInv, TypeOK
    <2> QED
      BY <1>w, <1>4, <1>5, <1>6, <2>1 DEF IInv, TypeOK
  <1>p. \A q \in RoomIds : rooms[q].peers \subseteq Conns
    BY Typed DEF Room
  <1>10. Seated' /\ Placed' /\ DisjointSets'
    BY <1>w, <1>p, <1>5, <1>7 DEF IInv, Seated, Placed, DisjointSets, Machine
  <1>11. Breakouts'
    BY <1>w, <1>p, <1>5, <1>7, <1>8 DEF IInv, Breakouts
  <1>12. Refreshable'
    <2>1. \A d \in Conns : Live(d)' => Live(d)
      <3> SUFFICES ASSUME NEW d \in Conns, Live(d)' PROVE Live(d)
        OBVIOUS
      <3>1. conn[d].st = "open" /\ d \in rooms'[conn[d].room].peers /\ conn[d].sock = "open"
        BY <1>5 DEF Live, Member
      <3>2. conn[d].room \in RoomIds
        BY <3>1, Place
      <3> QED
        BY <1>7, <3>1, <3>2 DEF Live, Member
    <2> QED
      BY <1>w, <1>5, <2>1 DEF IInv, Refreshable
  <1>13. Seats' /\ OneRoomPerFamily'
    <2>1. \A p \in PlainRooms : {p} \cup sets[p].children \subseteq RoomIds
      BY Typed
    <2>2. Seats'
      BY <1>w, <1>7, <2>1 DEF IInv, Seats
    <2>3. OneRoomPerFamily'
      BY <1>w, <1>7, <2>1 DEF IInv, OneRoomPerFamily
    <2> QED
      BY <2>2, <2>3
  <1>14. RemovalIsDriven'
    BY <1>4, <1>6 DEF IInv, RemovalIsDriven
  <1> QED
    BY <1>9, <1>10, <1>11, <1>12, <1>13, <1>14 DEF IInv

-----------------------------------------------------------------------------
(***************************************************************************)
(* Grants and the clock: places are promised, nobody moves                 *)
(***************************************************************************)
LEMMA GrantsKeep ==
  ASSUME IInv, sets' \in [PlainRooms -> BreakoutSet], now' \in 0..MaxTime, Seats',
         UNCHANGED <<conn, ice, rooms, retired, timers, dir, plan>>,
         \A p \in PlainRooms :
           /\ sets'[p].children = sets[p].children
           /\ \A g \in sets'[p].grants : g.child \in sets'[p].children /\ g.expires <= sets'[p].expires
  PROVE  IInv'
  <1>1. TypeOK'
    BY DEF IInv, TypeOK
  <1>2. Seated' /\ Placed' /\ DisjointSets'
    BY DEF IInv, Seated, Placed, DisjointSets, Machine
  <1>3. Breakouts'
    BY DEF IInv, Breakouts
  <1>4. Refreshable'
    BY DEF IInv, Refreshable, Live, Member
  <1>5. OneRoomPerFamily' /\ RemovalIsDriven'
    BY DEF IInv, OneRoomPerFamily, RemovalIsDriven
  <1> QED
    BY <1>1, <1>2, <1>3, <1>4, <1>5 DEF IInv

\* What IInv says of the set of one parent.
LEMMA SetFacts ==
  ASSUME IInv, NEW p \in PlainRooms
  PROVE  /\ sets[p] \in BreakoutSet /\ sets[p].grants \in SUBSET Grant /\ sets[p].expires \in Nat
         /\ sets[p].children \subseteq ChildRooms
         /\ \A g \in sets[p].grants : g.child \in sets[p].children /\ g.expires <= sets[p].expires
         /\ OneEach(sets[p].grants, now)
         /\ \A k \in sets[p].children :
              /\ Cardinality(LiveFor(sets[p].grants, k, now)) + Cardinality(rooms[k].peers) <= ChildCapacity
              /\ IsFiniteSet(LiveFor(sets[p].grants, k, now))
              /\ Cardinality(LiveFor(sets[p].grants, k, now)) \in Nat
              /\ rooms[k].peers \subseteq Conns /\ IsFiniteSet(rooms[k].peers)
              /\ Cardinality(rooms[k].peers) \in Nat
  <1>1. sets[p] \in BreakoutSet
    BY Typed
  <1>2. sets[p].grants \in SUBSET Grant /\ sets[p].expires \in Nat
        /\ sets[p].children \subseteq ChildRooms
    BY <1>1 DEF BreakoutSet
  <1>3. OneEach(sets[p].grants, now)
    BY DEF IInv, Seats
  <1>4. \A k \in sets[p].children : rooms[k].peers \subseteq Conns
    BY <1>2, Typed DEF Room
  <1> QED
    BY <1>1, <1>2, <1>3, <1>4, LiveFinite, PeersFinite DEF IInv, Seats, TypeOK

\* The grants of one set become gs.
LEMMA OneSetKeeps ==
  ASSUME IInv, NEW p \in PlainRooms, NEW gs \in SUBSET Grant,
         sets' = [sets EXCEPT ![p].grants = gs],
         UNCHANGED <<now, conn, ice, rooms, retired, timers, dir, plan>>,
         \A g \in gs : g.child \in sets[p].children /\ g.expires <= sets[p].expires,
         OneEach(gs, now),
         \A k \in sets[p].children :
           Cardinality(LiveFor(gs, k, now)) + Cardinality(rooms[k].peers) <= ChildCapacity
  PROVE  IInv'
  <1> DEFINE n == [sets[p] EXCEPT !.grants = gs]
  <1>1. sets' = [sets EXCEPT ![p] = n]
    BY Typed
  <1>2. n \in BreakoutSet /\ n.grants = gs /\ n.children = sets[p].children
        /\ n.expires = sets[p].expires
    BY Typed DEF BreakoutSet
  <1> HIDE DEF n
  <1>3. /\ sets' \in [PlainRooms -> BreakoutSet] /\ sets'[p] = n
        /\ \A q \in PlainRooms : q # p => sets'[q] = sets[q]
    BY <1>1, <1>2, Typed
  <1>4. Seats'
    BY <1>2, <1>3 DEF IInv, Seats
  <1>5. \A q \in PlainRooms :
          /\ sets'[q].children = sets[q].children
          /\ \A g \in sets'[q].grants : g.child \in sets'[q].children /\ g.expires <= sets'[q].expires
    BY <1>2, <1>3, SetFacts
  <1>6. now' \in 0..MaxTime
    BY Typed
  <1> QED
    BY <1>3, <1>4, <1>5, <1>6, GrantsKeep

\* A new grant is live and ends with its set.
LEMMA NewGrant ==
  ASSUME IInv, NEW p \in PlainRooms, sets[p].expires > now
  PROVE  GrantExpiry(p) \in Nat /\ GrantExpiry(p) <= sets[p].expires /\ GrantExpiry(p) > now
  <1>1. sets[p].expires \in Nat /\ now \in Nat
    BY SetFacts, Typed
  <1>2. GrantTtl \in Nat \ {0}
    BY TimeAssumption
  <1> QED
    BY <1>1, <1>2 DEF GrantExpiry

\* assign and assignVoluntary: one place more is promised where one was free.
LEMMA AssignedKeeps ==
  ASSUME IInv, NEW p \in PlainRooms, sets[p].expires > now, NEW u \in Users,
         NEW k \in sets[p].children,
         sets' = [sets EXCEPT ![p].grants = Assigned(sets[p].grants, p, u, k)],
         UNCHANGED <<now, conn, ice, rooms, retired, timers, dir, plan>>
  PROVE  IInv'
  <1> DEFINE gs == sets[p].grants
             rest == {g \in gs : ~(g.user = u /\ g.expires > now)}
             new == [child |-> k, user |-> u, expires |-> GrantExpiry(p)]
             full == Waiting(rest, k) + Cardinality(rooms[k].peers) >= ChildCapacity
  <1>1. /\ gs \in SUBSET Grant /\ sets[p].children \subseteq ChildRooms
        /\ \A g \in gs : g.child \in sets[p].children /\ g.expires <= sets[p].expires
        /\ OneEach(gs, now)
        /\ \A x \in sets[p].children :
             /\ Cardinality(LiveFor(gs, x, now)) + Cardinality(rooms[x].peers) <= ChildCapacity
             /\ IsFiniteSet(LiveFor(gs, x, now)) /\ IsFiniteSet(rooms[x].peers)
             /\ Cardinality(rooms[x].peers) \in Nat
    BY SetFacts
  <1>2. Assigned(gs, p, u, k) = IF full THEN rest ELSE rest \cup {new}
    BY DEF Assigned
  <1>3. /\ rest \in SUBSET Grant /\ rest \subseteq gs
        /\ OneEach(rest, now) /\ \A x : LiveFor(rest, x, now) \subseteq LiveFor(gs, x, now)
    BY <1>1 DEF OneEach, LiveFor
  <1>4. \A x \in sets[p].children :
          Cardinality(LiveFor(rest, x, now)) + Cardinality(rooms[x].peers) <= ChildCapacity
    BY <1>1, <1>3, FewerSeats
  <1>5. \A g \in rest : g.expires > now => g.user # u
    OBVIOUS
  <1> HIDE DEF gs
  <1>6. CASE full
    <2> HIDE DEF rest, full
    <2>1. sets' = [sets EXCEPT ![p].grants = rest]
      BY <1>2, <1>6 DEF gs
    <2> QED
      BY <1>1, <1>3, <1>4, <2>1, OneSetKeeps
  <1>7. CASE ~full
    <2> DEFINE all == rest \cup {new}
    <2>1. sets' = [sets EXCEPT ![p].grants = all]
      BY <1>2, <1>7 DEF gs
    <2>2. new \in Grant /\ new.child = k /\ new.user = u /\ new.expires <= sets[p].expires
      BY <1>1, NewGrant DEF Grant
    <2>w. Waiting(rest, k) = Cardinality(LiveFor(rest, k, now))
      BY DEF Waiting, LiveFor
    <2> HIDE DEF new, rest
    <2>3. all \in SUBSET Grant /\ \A g \in all : g.child \in sets[p].children
                                                 /\ g.expires <= sets[p].expires
      BY <1>1, <1>3, <2>2
    <2>4. OneEach(all, now)
      BY <1>3, <1>5, <2>2 DEF OneEach
    <2>5. \A x \in sets[p].children :
            Cardinality(LiveFor(all, x, now)) + Cardinality(rooms[x].peers) <= ChildCapacity
      <3> SUFFICES ASSUME NEW x \in sets[p].children
                   PROVE  Cardinality(LiveFor(all, x, now)) + Cardinality(rooms[x].peers) <= ChildCapacity
        OBVIOUS
      <3>1. CASE x # k
        <4>1. LiveFor(all, x, now) = LiveFor(rest, x, now)
          BY <2>2, <3>1 DEF LiveFor
        <4> QED
          BY <1>4, <4>1
      <3>2. CASE x = k
        <4> DEFINE S == LiveFor(rest, k, now)
        <4>1. LiveFor(all, k, now) \subseteq S \cup {new}
          BY DEF LiveFor
        <4>2. IsFiniteSet(S)
          BY <1>3, LiveFinite
        <4>3. Cardinality(S) + Cardinality(rooms[k].peers) < ChildCapacity
          BY <1>7, <2>w, <4>2, <1>1, FS_CardinalityType, CapacityAssumption
        <4> HIDE DEF S, all
        <4>4. IsFiniteSet(S \cup {new}) /\ Cardinality(S \cup {new}) <= Cardinality(S) + 1
              /\ Cardinality(S) \in Nat /\ Cardinality(S \cup {new}) \in Nat
          <5>1. Cardinality(S) \in Nat
            BY <4>2, FS_CardinalityType
          <5>2. /\ IsFiniteSet(S \cup {new})
                /\ Cardinality(S \cup {new}) = IF new \in S THEN Cardinality(S) ELSE Cardinality(S) + 1
            BY <4>2, FS_AddElement
          <5> HIDE DEF S
          <5> QED
            BY <5>1, <5>2
        <4>5. Cardinality(S \cup {new}) + Cardinality(rooms[k].peers) <= ChildCapacity
          BY <1>1, <4>3, <4>4, CapacityAssumption
        <4>6. Cardinality(LiveFor(all, k, now)) + Cardinality(rooms[k].peers) <= ChildCapacity
          BY <1>1, <4>1, <4>4, <4>5, FewerSeats
        <4> QED
          BY <3>2, <4>6
      <3> QED
        BY <3>1, <3>2
    <2> HIDE DEF all
    <2> QED
      BY <2>1, <2>3, <2>4, <2>5, OneSetKeeps
  <1> QED
    BY <1>6, <1>7

LEMMA UserType == \A c \in Conns : UserOf[c] \in Users
  BY DEF Users

LEMMA AssignKeeps ==
  ASSUME IInv, NEW c \in Conns, NEW d \in Conns, NEW k \in ChildRooms, Assign(c, d, k) PROVE IInv'
  BY AssignedKeeps, UserType DEF Assign, InParent

LEMMA ChooseKeeps ==
  ASSUME IInv, NEW c \in Conns, NEW k \in ChildRooms, Choose(c, k) PROVE IInv'
  BY AssignedKeeps, UserType DEF Choose, InParent

LEMMA RevokeGrantKeeps ==
  ASSUME IInv, NEW c \in Conns, NEW g, RevokeGrant(c, g) PROVE IInv'
  <1> DEFINE p == conn[c].room
             gs == sets[p].grants \ {g}
  <1>1. /\ p \in PlainRooms /\ sets' = [sets EXCEPT ![p].grants = gs]
        /\ UNCHANGED <<now, conn, ice, rooms, retired, timers, dir, plan>>
    BY DEF RevokeGrant
  <1>2. /\ sets[p].grants \in SUBSET Grant
        /\ \A h \in sets[p].grants : h.child \in sets[p].children /\ h.expires <= sets[p].expires
        /\ OneEach(sets[p].grants, now)
        /\ \A x \in sets[p].children :
             /\ Cardinality(LiveFor(sets[p].grants, x, now)) + Cardinality(rooms[x].peers) <= ChildCapacity
             /\ IsFiniteSet(LiveFor(sets[p].grants, x, now)) /\ IsFiniteSet(rooms[x].peers)
    BY <1>1, SetFacts
  <1>3. gs \in SUBSET Grant /\ OneEach(gs, now)
        /\ \A x : LiveFor(gs, x, now) \subseteq LiveFor(sets[p].grants, x, now)
    BY <1>2 DEF OneEach, LiveFor
  <1>4. \A x \in sets[p].children :
          Cardinality(LiveFor(gs, x, now)) + Cardinality(rooms[x].peers) <= ChildCapacity
    BY <1>2, <1>3, FewerSeats
  <1>5. \A h \in gs : h.child \in sets[p].children /\ h.expires <= sets[p].expires
    BY <1>2
  <1> HIDE DEF gs
  <1> QED
    BY <1>1, <1>3, <1>4, <1>5, OneSetKeeps

LEMMA TickKeeps == ASSUME IInv, Tick PROVE IInv'
  <1>1. /\ now' = now + 1 /\ now < MaxTime
        /\ sets' = [p \in PlainRooms |-> [sets[p] EXCEPT !.grants = {g \in @ : g.expires > now'}]]
        /\ UNCHANGED <<conn, ice, rooms, retired, timers, dir, plan>>
    BY DEF Tick
  <1>2. now' \in 0..MaxTime /\ now' > now
    BY <1>1, Typed
  <1>3. ASSUME NEW p \in PlainRooms
        PROVE  /\ sets'[p] \in BreakoutSet /\ sets'[p].children = sets[p].children
               /\ sets'[p].expires = sets[p].expires
               /\ sets'[p].grants = {g \in sets[p].grants : g.expires > now'}
    <2> DEFINE gs == {g \in sets[p].grants : g.expires > now'}
    <2>1. sets[p] \in BreakoutSet /\ gs \in SUBSET Grant
      BY SetFacts
    <2>2. sets'[p] = [sets[p] EXCEPT !.grants = gs]
      BY <1>1, <2>1 DEF BreakoutSet
    <2> HIDE DEF gs
    <2> QED
      BY <2>1, <2>2 DEF BreakoutSet, gs
  <1>4. sets' \in [PlainRooms -> BreakoutSet]
    BY <1>1, <1>3
  <1>5. Seats'
    <2> SUFFICES ASSUME NEW p \in PlainRooms
                 PROVE  /\ OneEach(sets'[p].grants, now')
                        /\ \A k \in sets[p].children :
                             Cardinality(LiveFor(sets'[p].grants, k, now')) + Cardinality(rooms[k].peers)
                               <= ChildCapacity
      BY <1>1, <1>3 DEF Seats
    <2>1. /\ OneEach(sets[p].grants, now) /\ sets[p].grants \in SUBSET Grant
          /\ \A x \in sets[p].children :
               /\ Cardinality(LiveFor(sets[p].grants, x, now)) + Cardinality(rooms[x].peers) <= ChildCapacity
               /\ IsFiniteSet(LiveFor(sets[p].grants, x, now)) /\ IsFiniteSet(rooms[x].peers)
      BY SetFacts
    <2>2. \A g \in sets[p].grants : g.expires \in Nat
      BY <2>1 DEF Grant
    <2>3. \A g \in sets'[p].grants : g \in sets[p].grants /\ (g.expires > now' => g.expires > now)
      BY <1>2, <1>3, <2>2, Typed
    <2>4. OneEach(sets'[p].grants, now')
      BY <2>1, <2>3 DEF OneEach
    <2>5. \A x : LiveFor(sets'[p].grants, x, now') \subseteq LiveFor(sets[p].grants, x, now)
      BY <2>3 DEF LiveFor
    <2> QED
      BY <2>1, <2>4, <2>5, FewerSeats
  <1>6. \A p \in PlainRooms : \A g \in sets'[p].grants :
          g.child \in sets'[p].children /\ g.expires <= sets'[p].expires
    BY <1>3, SetFacts
  <1> QED
    BY <1>1, <1>2, <1>3, <1>4, <1>5, <1>6, GrantsKeep

-----------------------------------------------------------------------------
(***************************************************************************)
(* Connections change, rooms do not                                        *)
(***************************************************************************)

\* Connection c, which is in no room, becomes k, and its refresh grant i.
LEMMA ConnKeeps ==
  ASSUME IInv, NEW c \in Conns, NEW k \in Connection, NEW i \in IceGrant,
         \A r \in RoomIds : c \notin rooms[r].peers,
         conn' = [conn EXCEPT ![c] = k], ice' = [ice EXCEPT ![c] = i],
         UNCHANGED <<now, rooms, sets, retired, timers, dir, plan>>,
         k.room \in PlainRooms \cup retired \cup {None},
         k.st # "none" => k.room # None,
         k.set # {} => ~Machine(c),
         k.st = "ticket" => i.st = "unbound" /\ k.expires <= i.bindBy
  PROVE  IInv'
  <1>1. /\ conn' \in [Conns -> Connection] /\ ice' \in [Conns -> IceGrant]
        /\ conn'[c] = k /\ ice'[c] = i
        /\ \A d \in Conns : d # c => conn'[d] = conn[d] /\ ice'[d] = ice[d]
    BY Typed
  <1>2. TypeOK'
    BY <1>1 DEF IInv, TypeOK
  <1>p. \A r \in RoomIds : rooms[r].peers \subseteq Conns \ {c}
    BY Typed DEF Room
  <1>3. Seated' /\ Placed' /\ DisjointSets'
    BY <1>1, <1>p DEF IInv, Seated, Placed, DisjointSets, Machine
  <1>4. Breakouts'
    BY <1>1, <1>p DEF IInv, Breakouts
  <1>5. Refreshable'
    <2>1. ~Live(c)'
      <3>1. Live(c)' => k.st = "open" /\ c \in rooms[k.room].peers
        BY <1>1 DEF Live, Member
      <3>2. k.st = "open" => k.room \in RoomIds
        BY DEF Connection
      <3> QED
        BY <3>1, <3>2
    <2> QED
      BY <1>1, <2>1 DEF IInv, Refreshable, Live, Member
  <1>6. Seats' /\ OneRoomPerFamily' /\ RemovalIsDriven'
    BY DEF IInv, Seats, OneRoomPerFamily, RemovalIsDriven
  <1> QED
    BY <1>2, <1>3, <1>4, <1>5, <1>6 DEF IInv

LEMMA NotSeated ==
  ASSUME IInv, NEW c \in Conns, conn[c].st # "open"
  PROVE  \A r \in RoomIds : c \notin rooms[r].peers
  BY DEF IInv, Seated

LEMMA IssueSessionKeeps ==
  ASSUME IInv, NEW c \in Conns, NEW r \in RoomIds, NEW m \in {"room", "pair"}, IssueSession(c, r, m)
  PROVE  IInv'
  <1> DEFINE s == IF Reserved(r) THEN sets[ParentOf(r)].children ELSE {}
             e == now + TicketTtl
             b == now + BindTtl
             k == [st |-> "ticket", room |-> r, mode |-> m, set |-> s, expires |-> e, sock |-> "open"]
             i == [st |-> "unbound", bindBy |-> b]
  <1>1. /\ conn' = [conn EXCEPT ![c] = k] /\ ice' = [ice EXCEPT ![c] = i]
        /\ UNCHANGED <<now, rooms, sets, retired, timers, dir, plan>>
        /\ r \in PlainRooms \cup retired /\ conn[c] = NoConn
        /\ Reserved(r) => ~Machine(c)
    BY DEF IssueSession
  <1>2. e \in Nat /\ b \in Nat /\ e <= b
    <2>1. now \in Nat /\ TicketTtl \in Nat /\ BindTtl \in Nat /\ TicketTtl <= BindTtl
      BY Typed, TimeAssumption
    <2> QED
      BY <2>1
  <1>3. s \in SUBSET ChildRooms /\ (s # {} => Reserved(r))
    BY ParentFacts, SetFacts
  <1> HIDE DEF s, e, b
  <1>4. /\ k \in Connection /\ k.st = "ticket" /\ k.room = r /\ k.set = s /\ k.expires = e
        /\ i \in IceGrant /\ i.st = "unbound" /\ i.bindBy = b
    BY <1>2, <1>3 DEF Connection, IceGrant
  <1>5. r # None
    BY RoomAssumption
  <1>6. \A q \in RoomIds : c \notin rooms[q].peers
    BY <1>1, NoConnType, NotSeated
  <1> HIDE DEF k, i
  <1> QED
    BY <1>1, <1>2, <1>3, <1>4, <1>5, <1>6, ConnKeeps

LEMMA BurnTicketKeeps == ASSUME IInv, NEW c \in Conns, BurnTicket(c) PROVE IInv'
  <1>1. /\ conn' = [conn EXCEPT ![c] = NoConn] /\ conn[c].st = "ticket"
        /\ UNCHANGED <<now, ice, rooms, sets, retired, timers, dir, plan>>
    BY DEF BurnTicket
  <1>2. ice' = [ice EXCEPT ![c] = ice[c]] /\ ice[c] \in IceGrant
    BY <1>1, Typed
  <1>3. \A q \in RoomIds : c \notin rooms[q].peers
    BY <1>1, NotSeated
  <1> QED
    BY <1>1, <1>2, <1>3, NoConnType, ConnKeeps

LEMMA SocketClosesKeeps == ASSUME IInv, NEW c \in Conns, SocketCloses(c) PROVE IInv'
  <1> DEFINE k == [conn[c] EXCEPT !.sock = "closing"]
  <1>1. /\ conn' = [conn EXCEPT ![c] = k] /\ conn[c].st = "open"
        /\ UNCHANGED <<now, ice, rooms, sets, retired, timers, dir, plan>>
    BY Typed DEF SocketCloses
  <1>2. /\ k \in Connection /\ k.st = conn[c].st /\ k.room = conn[c].room /\ k.set = conn[c].set
        /\ k.expires = conn[c].expires /\ k.sock = "closing"
    BY Typed DEF Connection
  <1> HIDE DEF k
  <1>3. /\ conn' \in [Conns -> Connection] /\ conn'[c].sock # "open"
        /\ \A d \in Conns : d # c => conn'[d] = conn[d]
        /\ \A d \in Conns : /\ conn'[d].st = conn[d].st /\ conn'[d].room = conn[d].room
                            /\ conn'[d].set = conn[d].set /\ conn'[d].expires = conn[d].expires
    BY <1>1, <1>2, Typed
  <1>4. TypeOK'
    BY <1>1, <1>3 DEF IInv, TypeOK
  <1>p. \A r \in RoomIds : rooms[r].peers \subseteq Conns
    BY Typed DEF Room
  <1>5. Seated' /\ Placed' /\ DisjointSets'
    BY <1>1, <1>3, <1>p DEF IInv, Seated, Placed, DisjointSets, Machine
  <1>6. Breakouts'
    BY <1>1, <1>3, <1>p DEF IInv, Breakouts
  <1>7. Refreshable'
    BY <1>1, <1>3 DEF IInv, Refreshable, Live, Member
  <1>8. Seats' /\ OneRoomPerFamily' /\ RemovalIsDriven'
    BY <1>1 DEF IInv, Seats, OneRoomPerFamily, RemovalIsDriven
  <1> QED
    BY <1>4, <1>5, <1>6, <1>7, <1>8 DEF IInv

LEMMA RedeemDeadKeeps == ASSUME IInv, NEW c \in Conns, RedeemDead(c) PROVE IInv'
  <1>1. /\ ice' = [ice EXCEPT ![c] = NoIce] /\ ice[c].st = "bound" /\ ~Live(c)
        /\ UNCHANGED <<now, conn, rooms, sets, retired, timers, dir, plan>>
    BY DEF RedeemDead
  <1>2. ice' \in [Conns -> IceGrant] /\ \A d \in Conns : d # c => ice'[d] = ice[d]
    <2>1. NoIce \in IceGrant
      BY DEF NoIce, IceGrant
    <2> QED
      BY <1>1, <2>1, Typed
  <1>3. TypeOK'
    BY <1>1, <1>2 DEF IInv, TypeOK
  <1>4. Seated' /\ Placed' /\ DisjointSets' /\ Breakouts'
    BY <1>1 DEF IInv, Seated, Placed, DisjointSets, Breakouts, Machine
  <1>5. Refreshable'
    <2>1. conn[c].st # "ticket"
      BY <1>1 DEF IInv, Refreshable
    <2> QED
      BY <1>1, <1>2, <2>1 DEF IInv, Refreshable, Live, Member
  <1>6. Seats' /\ OneRoomPerFamily' /\ RemovalIsDriven'
    BY <1>1 DEF IInv, Seats, OneRoomPerFamily, RemovalIsDriven
  <1> QED
    BY <1>3, <1>4, <1>5, <1>6 DEF IInv

LEMMA CreateEntryKeeps ==
  ASSUME IInv, NEW u \in Users, NEW r \in PlainRooms, CreateEntry(u, r) PROVE IInv'
  <1> DEFINE e == [owner |-> u, updated |-> now]
  <1>1. /\ dir' = [dir EXCEPT ![r] = e]
        /\ UNCHANGED <<now, conn, ice, rooms, sets, retired, timers, plan>>
    BY DEF CreateEntry
  <1>2. e \in Entry
    BY Typed DEF Entry
  <1> HIDE DEF e
  <1>3. TypeOK'
    BY <1>1, <1>2 DEF IInv, TypeOK
  <1>4. Seated' /\ Placed' /\ DisjointSets' /\ Breakouts'
    BY <1>1 DEF IInv, Seated, Placed, DisjointSets, Breakouts, Machine
  <1>5. Refreshable'
    BY <1>1 DEF IInv, Refreshable, Live, Member
  <1>6. Seats' /\ OneRoomPerFamily' /\ RemovalIsDriven'
    BY <1>1 DEF IInv, Seats, OneRoomPerFamily, RemovalIsDriven
  <1> QED
    BY <1>3, <1>4, <1>5, <1>6 DEF IInv

-----------------------------------------------------------------------------
(***************************************************************************)
(* Leaving                                                                 *)
(***************************************************************************)

\* What a room is once c has left it.
LEMMA LeftRoom ==
  ASSUME IInv, NEW c \in Conns, Member(c), NEW room \in Left(c)
  PROVE  LET old == rooms[conn[c].room]
         IN /\ room \in Room /\ room.peers = old.peers \ {c} /\ room.hands \subseteq room.peers
            /\ room.peers = {} => room = Vacant
            /\ room # Vacant => room.kind = old.kind /\ room.mode = old.mode
            /\ room.pending # NoRemove =>
                 /\ room.pending = old.pending
                 /\ c \notin {old.pending.target, old.pending.actor}
  <1> DEFINE old == rooms[conn[c].room]
             ps == old.peers \ {c}
             hs == old.hands \ {c}
             pend == WithoutPending(old, c)
             rest == [old EXCEPT !.peers = ps, !.hands = hs, !.pending = pend]
  <1>1. old \in Room /\ old.peers \subseteq Conns /\ old.hands \subseteq old.peers
    BY OldRoom
  <1>2. rest = [old EXCEPT !.peers = @ \ {c}, !.hands = @ \ {c}, !.pending = WithoutPending(old, c)]
    BY <1>1 DEF Room
  <1>3. room \in IF rest.peers = {} THEN {Vacant} ELSE {[rest EXCEPT !.presenter = d] : d \in Fallback(rest)}
    BY <1>2 DEF Left
  <1>4. /\ pend \in Removal
        /\ pend # NoRemove => pend = old.pending /\ c \notin {old.pending.target, old.pending.actor}
    <2>1. old.pending \in Removal /\ NoRemove \in Removal
      BY <1>1 DEF Room, NoRemove, Removal
    <2> QED
      BY <2>1 DEF WithoutPending
  <1>5. ps \subseteq Conns /\ hs \subseteq Conns /\ hs \subseteq ps
    BY <1>1
  <1>6. ps = old.peers \ {c}
    OBVIOUS
  <1> HIDE DEF ps, hs, pend
  <1>7. /\ rest \in Room /\ rest.peers = ps /\ rest.hands = hs /\ rest.pending = pend
        /\ rest.kind = old.kind /\ rest.mode = old.mode
    BY <1>1, <1>4, <1>5 DEF Room
  <1> HIDE DEF rest, old
  <1>8. CASE ps = {}
    <2>1. room = Vacant
      BY <1>3, <1>7, <1>8
    <2> QED
      BY <1>6, <1>8, <2>1, VacantType DEF old
  <1>9. CASE ps # {}
    <2>1. PICK d \in Fallback(rest) : room = [rest EXCEPT !.presenter = d]
      BY <1>3, <1>7, <1>9
    <2>2. d \in Conns \cup {None}
      BY <1>5, <1>7, <2>1 DEF Fallback
    <2>3. /\ room \in Room /\ room.peers = ps /\ room.hands = hs /\ room.pending = pend
          /\ room.kind = old.kind /\ room.mode = old.mode
      BY <1>7, <2>1, <2>2 DEF Room
    <2> QED
      BY <1>4, <1>5, <1>6, <1>9, <2>3 DEF old
  <1> QED
    BY <1>8, <1>9

LEMMA TouchedType ==
  ASSUME IInv, NEW r
  PROVE  Touched(r) \in [PlainRooms -> Entry]
  <1>1. CASE Registered(r)
    <2> DEFINE e == [dir[r] EXCEPT !.updated = now]
    <2>1. r \in PlainRooms /\ dir[r] \in Entry
      BY <1>1, Typed DEF Registered
    <2>2. e \in Entry
      BY <2>1, Typed DEF Entry
    <2>3. Touched(r) = [dir EXCEPT ![r] = e]
      BY <1>1, <2>1, Typed DEF Touched
    <2> HIDE DEF e
    <2> QED
      BY <2>1, <2>2, <2>3, Typed
  <1>2. CASE ~Registered(r)
    BY <1>2, Typed DEF Touched
  <1> QED
    BY <1>1, <1>2

LEMMA LeaveKeeps == ASSUME IInv, NEW c \in Conns, Leave(c) PROVE IInv'
  <1> DEFINE r0 == conn[c].room
             old == rooms[r0]
  <1>1. PICK room \in IF Member(c) THEN Left(c) ELSE {old} :
          /\ rooms' = [rooms EXCEPT ![r0] = room]
          /\ timers' = IF room.pending = NoRemove THEN [timers EXCEPT ![r0] = 0] ELSE timers
    BY DEF Leave
  <1>2. /\ conn[c].st = "open" /\ ice' = [ice EXCEPT ![c] = NoIce] /\ conn' = [conn EXCEPT ![c] = NoConn]
        /\ dir' = Touched(r0) /\ UNCHANGED <<now, sets, retired, plan>>
    BY DEF Leave
  <1>3. r0 \in RoomIds /\ old \in Room
    BY <1>2, Place
  <1>4. /\ old.peers = {} <=> old = Vacant
        /\ old.mode = "none" <=> old = Vacant
        /\ old.hands \subseteq old.peers
    BY <1>3, VacantType DEF IInv, TypeOK
  <1>5. /\ room \in Room /\ room.peers = old.peers \ {c} /\ room.hands \subseteq room.peers
        /\ room.peers = {} => room = Vacant
        /\ room # Vacant => room.kind = old.kind /\ room.mode = old.mode /\ old # Vacant
        /\ room.pending # NoRemove =>
             room.pending = old.pending /\ (c \in old.peers => c \notin {old.pending.target, old.pending.actor})
    <2>1. CASE Member(c)
      <3>1. room \in Left(c)
        BY <1>1, <2>1
      <3>2. old # Vacant
        BY <2>1, MemberPlace
      <3> QED
        BY <2>1, <3>1, <3>2, LeftRoom
    <2>2. CASE ~Member(c)
      <3>1. room = old /\ c \notin old.peers
        BY <1>1, <1>2, <2>2 DEF Member
      <3> QED
        BY <1>3, <1>4, <3>1
    <2> QED
      BY <2>1, <2>2
  <1> HIDE DEF old
  <1>6. /\ rooms' \in [RoomIds -> Room] /\ rooms'[r0] = room
        /\ \A r \in RoomIds : r # r0 => rooms'[r] = rooms[r]
    BY <1>1, <1>3, <1>5, Typed
  <1>7. /\ conn' \in [Conns -> Connection] /\ ice' \in [Conns -> IceGrant] /\ conn'[c] = NoConn
        /\ \A d \in Conns : d # c => conn'[d] = conn[d] /\ ice'[d] = ice[d]
    <2>1. NoIce \in IceGrant
      BY DEF NoIce, IceGrant
    <2> QED
      BY <1>2, <2>1, NoConnType, Typed
  <1>8. /\ timers' \in [RoomIds -> Nat] /\ \A r \in RoomIds : r # r0 => timers'[r] = timers[r]
        /\ room.pending # NoRemove => timers'[r0] = timers[r0]
    BY <1>1, <1>3, Typed
  <1>9. \A r \in RoomIds : rooms'[r].peers \subseteq rooms[r].peers \ {c} /\ rooms'[r].peers \subseteq Conns
    <2>1. \A r \in RoomIds : r # r0 => c \notin rooms[r].peers
      BY DEF IInv, Seated
    <2>2. \A r \in RoomIds : rooms[r].peers \subseteq Conns
      BY Typed DEF Room
    <2> QED
      BY <1>5, <1>6, <2>1, <2>2 DEF old
  <1> HIDE DEF r0
  <1>10. TypeOK'
    <2>1. \A r \in RoomIds :
            /\ (rooms'[r].mode = "none") <=> (rooms'[r] = Vacant)
            /\ rooms'[r].hands \subseteq rooms'[r].peers
            /\ (rooms'[r].peers = {}) => (rooms'[r] = Vacant)
      <3>1. (room.mode = "none") <=> (room = Vacant)
        BY <1>4, <1>5, VacantType
      <3> QED
        BY <1>5, <1>6, <3>1 DEF IInv, TypeOK
    <2>2. dir' \in [PlainRooms -> Entry]
      BY <1>2, TouchedType
    <2> QED
      BY <1>2, <1>6, <1>7, <1>8, <2>1, <2>2 DEF IInv, TypeOK
  <1>11. Seated' /\ Placed' /\ DisjointSets'
    <2>1. Seated'
      BY <1>7, <1>9 DEF IInv, Seated
    <2>2. Placed'
      BY <1>2, <1>7, NoConnType DEF IInv, Placed, Machine
    <2> QED
      BY <1>2, <2>1, <2>2 DEF IInv, DisjointSets
  <1>12. Breakouts'
    <2>1. \A r \in RoomIds : rooms'[r] # Vacant =>
            rooms'[r].kind = rooms[r].kind /\ rooms'[r].mode = rooms[r].mode /\ rooms[r] # Vacant
      BY <1>5, <1>6 DEF old
    <2>2. \A r \in RoomIds : rooms'[r].kind = "breakout" => rooms[r].kind = "breakout"
      BY <2>1, VacantType
    <2> QED
      BY <1>2, <1>7, <1>9, <2>1, <2>2 DEF IInv, Breakouts
  <1>13. Refreshable'
    <2>1. \A d \in Conns : Live(d)' => Live(d) /\ d # c
      <3> SUFFICES ASSUME NEW d \in Conns, Live(d)' PROVE Live(d) /\ d # c
        OBVIOUS
      <3>1. d # c
        BY <1>7, NoConnType DEF Live, Member
      <3>2. conn[d].st = "open" /\ d \in rooms'[conn[d].room].peers /\ conn[d].sock = "open"
        BY <1>7, <3>1 DEF Live, Member
      <3>3. conn[d].room \in RoomIds
        BY <3>2, Place
      <3> QED
        BY <1>9, <3>1, <3>2, <3>3 DEF Live, Member
    <2> QED
      BY <1>7, <2>1, NoConnType DEF IInv, Refreshable
  <1>14. Seats'
    <2>1. \A p \in PlainRooms : \A k \in sets[p].children :
            Cardinality(LiveFor(sets[p].grants, k, now)) + Cardinality(rooms'[k].peers) <= ChildCapacity
      <3> SUFFICES ASSUME NEW p \in PlainRooms, NEW k \in sets[p].children
                   PROVE  Cardinality(LiveFor(sets[p].grants, k, now)) + Cardinality(rooms'[k].peers)
                            <= ChildCapacity
        OBVIOUS
      <3>1. k \in RoomIds
        BY Typed
      <3>2. rooms'[k].peers \subseteq rooms[k].peers
        BY <1>9, <3>1
      <3> QED
        BY <3>2, SetFacts, FewerSeats
    <2> QED
      BY <1>2, <2>1 DEF IInv, Seats
  <1>15. OneRoomPerFamily'
    <2>1. \A p \in PlainRooms : {p} \cup sets[p].children \subseteq RoomIds
      BY Typed
    <2> QED
      BY <1>2, <1>9, <2>1 DEF IInv, OneRoomPerFamily
  <1>16. RemovalIsDriven'
    <2> SUFFICES ASSUME NEW r \in RoomIds, rooms'[r].pending # NoRemove
                 PROVE  /\ {rooms'[r].pending.target, rooms'[r].pending.actor} \subseteq rooms'[r].peers
                        /\ timers'[r] = rooms'[r].pending.expires
      BY DEF RemovalIsDriven
    <2>1. CASE r # r0
      BY <1>6, <1>8, <2>1 DEF IInv, RemovalIsDriven
    <2>2. CASE r = r0
      <3>1. /\ {old.pending.target, old.pending.actor} \subseteq old.peers
            /\ timers[r0] = old.pending.expires
        BY <1>3, <1>5, <1>6, <2>2 DEF IInv, RemovalIsDriven, old
      <3> QED
        BY <1>5, <1>6, <1>8, <2>2, <3>1
    <2> QED
      BY <2>1, <2>2
  <1> QED
    BY <1>10, <1>11, <1>12, <1>13, <1>14, <1>15, <1>16 DEF IInv

-----------------------------------------------------------------------------
(***************************************************************************)
(* Sets open and end; the heartbeat; restarts                              *)
(***************************************************************************)
LEMMA OpenSetKeeps ==
  ASSUME IInv, NEW c \in Conns, NEW kids \in SUBSET ChildRooms, OpenSet(c, kids) PROVE IInv'
  <1> DEFINE p == conn[c].room
             n == [children |-> kids, expires |-> now + SetTtl, grants |-> {}]
  <1>1. /\ p \in PlainRooms /\ kids \cap retired = {} /\ sets[p] = NoSet
        /\ sets' = [sets EXCEPT ![p] = n] /\ retired' = retired \cup kids
        /\ UNCHANGED <<now, conn, ice, rooms, timers, dir, plan>>
    BY DEF OpenSet
  <1>2. n \in BreakoutSet /\ n.children = kids /\ n.grants = {}
    <2>1. now + SetTtl \in Nat
      BY Typed, TimeAssumption
    <2> QED
      BY <2>1 DEF BreakoutSet
  <1> HIDE DEF n, p
  <1>3. /\ sets' \in [PlainRooms -> BreakoutSet] /\ sets'[p] = n
        /\ \A q \in PlainRooms : q # p => sets'[q] = sets[q]
    BY <1>1, <1>2, Typed
  <1>4. \A k \in kids : k \in RoomIds /\ rooms[k] = Vacant
    <2> SUFFICES ASSUME NEW k \in kids PROVE k \in RoomIds /\ rooms[k] = Vacant
      OBVIOUS
    <2>1. k \in RoomIds /\ k \notin PlainRooms /\ k \notin retired /\ k # None
      BY <1>1, RoomAssumption DEF RoomIds
    <2>2. \A d \in Conns : conn[d].room # k
      BY <2>1 DEF IInv, Placed
    <2>3. rooms[k].peers \subseteq Conns
      BY <2>1, Typed DEF Room
    <2>4. rooms[k].peers = {}
      BY <2>1, <2>2, <2>3 DEF IInv, Seated
    <2> QED
      BY <2>1, <2>4 DEF IInv, TypeOK
  <1>5. \A q \in PlainRooms : sets[q].children \cap kids = {}
    BY <1>1, Typed
  <1>6. TypeOK'
    <2>1. \A q \in PlainRooms :
            /\ sets'[q].children \subseteq retired'
            /\ \A g \in sets'[q].grants : g.child \in sets'[q].children /\ g.expires <= sets'[q].expires
      BY <1>1, <1>2, <1>3 DEF IInv, TypeOK
    <2>2. retired' \subseteq ChildRooms
      BY <1>1, Typed
    <2> QED
      BY <1>1, <1>3, <2>1, <2>2 DEF IInv, TypeOK
  <1>7. Seated' /\ Placed' /\ DisjointSets'
    <2>1. Seated' /\ Placed'
      BY <1>1 DEF IInv, Seated, Placed, Machine
    <2>2. DisjointSets'
      BY <1>1, <1>2, <1>3, <1>5 DEF IInv, DisjointSets
    <2> QED
      BY <2>1, <2>2
  <1>8. Breakouts'
    <2>1. \A q \in PlainRooms : \A r \in sets[q].children : r \in sets'[q].children
      BY <1>1, <1>3, NoSetType
    <2> QED
      BY <1>1, <1>2, <1>3, <1>4, <2>1, VacantType DEF IInv, Breakouts
  <1>9. Refreshable'
    BY <1>1 DEF IInv, Refreshable, Live, Member
  <1>10. Seats'
    <2> SUFFICES ASSUME NEW q \in PlainRooms
                 PROVE  /\ OneEach(sets'[q].grants, now)
                        /\ \A k \in sets'[q].children :
                             Cardinality(LiveFor(sets'[q].grants, k, now)) + Cardinality(rooms[k].peers)
                               <= ChildCapacity
      BY <1>1 DEF Seats
    <2>1. CASE q # p
      BY <1>3, <2>1 DEF IInv, Seats
    <2>2. CASE q = p
      <3>1. sets'[q].grants = {} /\ sets'[q].children = kids
        BY <1>2, <1>3, <2>2
      <3>2. \A k \in kids : LiveFor({}, k, now) = {} /\ rooms[k].peers = {}
        BY <1>4, VacantType DEF LiveFor
      <3>3. Cardinality({}) = 0
        BY FS_EmptySet
      <3>4. OneEach({}, now)
        BY DEF OneEach
      <3>5. \A k \in kids : Cardinality(LiveFor({}, k, now)) + Cardinality(rooms[k].peers) = 0 + 0
        BY <3>2, <3>3
      <3>6. 0 + 0 <= ChildCapacity
        BY CapacityAssumption
      <3>7. \A k \in kids : Cardinality(LiveFor({}, k, now)) + Cardinality(rooms[k].peers) <= ChildCapacity
        BY <3>5, <3>6
      <3> QED
        BY <3>1, <3>4, <3>7
    <2> QED
      BY <2>1, <2>2
  <1>11. OneRoomPerFamily'
    <2> SUFFICES ASSUME NEW q \in PlainRooms, NEW a \in {q} \cup sets'[q].children,
                        NEW b \in {q} \cup sets'[q].children,
                        NEW x \in rooms[a].peers, NEW y \in rooms[b].peers, UserOf[x] = UserOf[y]
                 PROVE  a = b
      BY <1>1 DEF OneRoomPerFamily
    <2>1. CASE q # p
      BY <1>3, <2>1 DEF IInv, OneRoomPerFamily
    <2>2. CASE q = p
      <3>1. a \notin kids /\ b \notin kids
        BY <1>4, VacantType
      <3> QED
        BY <1>2, <1>3, <2>2, <3>1
    <2> QED
      BY <2>1, <2>2
  <1>12. RemovalIsDriven'
    BY <1>1 DEF IInv, RemovalIsDriven
  <1> QED
    BY <1>6, <1>7, <1>8, <1>9, <1>10, <1>11, <1>12 DEF IInv

LEMMA PruneKeeps == ASSUME IInv, Prune PROVE IInv'
  <1> DEFINE Ended(r) == \E p \in DueSets : r \in sets[p].children
             Old(c) == conn[c].st = "ticket" /\ conn[c].expires < now
  <1>1. /\ rooms' = [r \in RoomIds |-> IF Ended(r) THEN Vacant ELSE rooms[r]]
        /\ sets' = [p \in PlainRooms |-> IF p \in DueSets THEN NoSet ELSE sets[p]]
        /\ dir' = [r \in PlainRooms |-> IF r \in IdleEntries THEN NoEntry ELSE dir[r]]
        /\ conn' = [c \in Conns |-> IF Old(c) THEN NoConn ELSE conn[c]]
        /\ ice' = [c \in Conns |-> IF StaleIce(c) THEN NoIce ELSE ice[c]]
        /\ UNCHANGED <<now, retired, timers, plan>>
    BY DEF Prune, Evicted
  <1>2. \A p \in PlainRooms : /\ p \in DueSets => sets'[p] = NoSet
                              /\ p \notin DueSets => sets'[p] = sets[p]
    BY <1>1
  <1>3. \A r \in RoomIds : /\ Ended(r) => rooms'[r] = Vacant
                           /\ ~Ended(r) => rooms'[r] = rooms[r]
    BY <1>1
  <1>4. \A c \in Conns : /\ Old(c) => conn'[c] = NoConn
                         /\ ~Old(c) => conn'[c] = conn[c]
    BY <1>1
  <1>5. \A c \in Conns : /\ StaleIce(c) => ice'[c] = NoIce
                         /\ ~StaleIce(c) => ice'[c] = ice[c]
    BY <1>1
  <1>d. DueSets \subseteq PlainRooms
    BY DEF DueSets
  <1>6. \A r \in RoomIds : \A c \in rooms'[r].peers :
          /\ ~Ended(r) /\ c \in rooms[r].peers /\ c \in Conns /\ conn'[c] = conn[c]
          /\ conn[c].st = "open" /\ conn[c].room = r
    <2> SUFFICES ASSUME NEW r \in RoomIds, NEW c \in rooms'[r].peers
                 PROVE  /\ ~Ended(r) /\ c \in rooms[r].peers /\ c \in Conns /\ conn'[c] = conn[c]
                        /\ conn[c].st = "open" /\ conn[c].room = r
      OBVIOUS
    <2>1. ~Ended(r) /\ c \in rooms[r].peers
      BY <1>3, VacantType
    <2>2. c \in Conns
      BY <2>1, Typed DEF Room
    <2>3. conn[c].st = "open" /\ conn[c].room = r
      BY <2>1 DEF IInv, Seated
    <2> QED
      BY <1>4, <2>1, <2>2, <2>3
  <1>7. \A p \in PlainRooms : \A r \in sets[p].children :
          r \in RoomIds /\ (p \in DueSets <=> Ended(r))
    <2> SUFFICES ASSUME NEW p \in PlainRooms, NEW r \in sets[p].children
                 PROVE  r \in RoomIds /\ (p \in DueSets <=> Ended(r))
      OBVIOUS
    <2>1. r \in RoomIds
      BY Typed
    <2>2. \A q \in PlainRooms : r \in sets[q].children => q = p
      BY DEF IInv, DisjointSets
    <2> QED
      BY <1>d, <2>1, <2>2
  <1>8. \A p \in PlainRooms : ~Ended(p)
    <2>1. \A q \in PlainRooms : sets[q].children \cap PlainRooms = {}
      BY Typed, RoomAssumption
    <2> QED
      BY <1>d, <2>1
  <1> HIDE DEF Ended
  <1>9. TypeOK'
    <2>1. rooms' \in [RoomIds -> Room]
      BY <1>1, VacantType, Typed
    <2>2. conn' \in [Conns -> Connection] /\ ice' \in [Conns -> IceGrant]
      <3>1. NoIce \in IceGrant
        BY DEF NoIce, IceGrant
      <3> QED
        BY <1>1, <3>1, NoConnType, Typed
    <2>3. sets' \in [PlainRooms -> BreakoutSet]
      BY <1>1, NoSetType, Typed
    <2>4. dir' \in [PlainRooms -> Entry]
      <3>1. NoEntry \in Entry
        BY DEF NoEntry, Entry
      <3> QED
        BY <1>1, <3>1, Typed
    <2>5. \A r \in RoomIds :
            /\ (rooms'[r].mode = "none") <=> (rooms'[r] = Vacant)
            /\ rooms'[r].hands \subseteq rooms'[r].peers
            /\ (rooms'[r].peers = {}) => (rooms'[r] = Vacant)
      BY <1>3, VacantType DEF IInv, TypeOK
    <2>6. \A p \in PlainRooms :
            /\ sets'[p].children \subseteq retired
            /\ \A g \in sets'[p].grants : g.child \in sets'[p].children /\ g.expires <= sets'[p].expires
      BY <1>2, NoSetType DEF IInv, TypeOK
    <2> QED
      BY <1>1, <2>1, <2>2, <2>3, <2>4, <2>5, <2>6 DEF IInv, TypeOK
  <1>10. Seated' /\ Placed' /\ DisjointSets'
    <2>1. Seated'
      BY <1>6 DEF Seated
    <2>2. Placed'
      BY <1>1, <1>4, NoConnType DEF IInv, Placed, Machine
    <2>3. DisjointSets'
      BY <1>2, NoSetType DEF IInv, DisjointSets
    <2> QED
      BY <2>1, <2>2, <2>3
  <1>11. Breakouts'
    <2> SUFFICES ASSUME NEW r \in RoomIds
                 PROVE  /\ rooms'[r].kind = "breakout" => \E p \in PlainRooms : r \in sets'[p].children
                        /\ \A p \in PlainRooms : r \in sets'[p].children =>
                             /\ \A c \in rooms'[r].peers : conn'[c].set = sets'[p].children
                             /\ rooms'[r] # Vacant => rooms'[r].kind = "breakout" /\ rooms'[r].mode = "room"
      BY DEF Breakouts
    <2>1. CASE Ended(r)
      <3>1. rooms'[r] = Vacant
        BY <1>3, <2>1
      <3> QED
        BY <3>1, VacantType
    <2>2. CASE ~Ended(r)
      <3>1. rooms'[r] = rooms[r]
        BY <1>3, <2>2
      <3>2. \A p \in PlainRooms : r \in sets[p].children => sets'[p] = sets[p]
        BY <1>2, <1>7, <2>2
      <3>3. \A p \in PlainRooms : r \in sets'[p].children => r \in sets[p].children
        BY <1>2, NoSetType
      <3>4. \A c \in rooms[r].peers : conn'[c] = conn[c]
        BY <1>6, <3>1
      <3> QED
        BY <3>1, <3>2, <3>3, <3>4 DEF IInv, Breakouts
    <2> QED
      BY <2>1, <2>2
  <1>12. Refreshable'
    <2> SUFFICES ASSUME NEW c \in Conns
                 PROVE  /\ conn'[c].st = "ticket" => ice'[c].st = "unbound" /\ conn'[c].expires <= ice'[c].bindBy
                        /\ Live(c)' => ice'[c].st = "bound"
      BY DEF Refreshable
    <2>1. conn[c] \in Connection /\ ice[c] \in IceGrant /\ now \in Nat
      BY Typed
    <2>2. ASSUME conn'[c].st = "ticket" PROVE ice'[c].st = "unbound" /\ conn'[c].expires <= ice'[c].bindBy
      <3>1. conn'[c] = conn[c] /\ conn[c].st = "ticket" /\ ~(conn[c].expires < now)
        BY <1>4, <2>2, NoConnType
      <3>2. ice[c].st = "unbound" /\ conn[c].expires <= ice[c].bindBy
        BY <3>1 DEF IInv, Refreshable
      <3>3. conn[c].expires \in Nat /\ ice[c].bindBy \in Nat
        BY <2>1 DEF Connection, IceGrant
      <3>4. ~(ice[c].bindBy < now)
        BY <2>1, <3>1, <3>2, <3>3
      <3>5. ~StaleIce(c)
        BY <3>2, <3>4 DEF StaleIce
      <3> QED
        BY <1>5, <3>1, <3>2, <3>5
    <2>3. ASSUME Live(c)' PROVE ice'[c].st = "bound"
      <3>1. conn'[c].st = "open" /\ c \in rooms'[conn'[c].room].peers /\ conn'[c].sock = "open"
        BY <2>3 DEF Live, Member
      <3>2. conn'[c] = conn[c]
        BY <1>4, <3>1, NoConnType
      <3>3. conn[c].room \in RoomIds
        BY <3>1, <3>2, Place
      <3>4. c \in rooms[conn[c].room].peers
        BY <1>6, <3>1, <3>2, <3>3
      <3>5. ice[c].st = "bound"
        BY <3>1, <3>2, <3>4 DEF IInv, Refreshable, Live, Member
      <3>6. rooms' = Evicted
        BY DEF Prune
      <3>7. ~StaleIce(c)
        BY <3>1, <3>2, <3>5, <3>6 DEF StaleIce
      <3> QED
        BY <1>5, <3>5, <3>7
    <2> QED
      BY <2>2, <2>3
  <1>13. Seats'
    <2> SUFFICES ASSUME NEW p \in PlainRooms
                 PROVE  /\ OneEach(sets'[p].grants, now)
                        /\ \A k \in sets'[p].children :
                             Cardinality(LiveFor(sets'[p].grants, k, now)) + Cardinality(rooms'[k].peers)
                               <= ChildCapacity
      BY <1>1 DEF Seats
    <2>1. CASE p \in DueSets
      <3>1. sets'[p].children = {} /\ sets'[p].grants = {}
        BY <1>2, <2>1, NoSetType
      <3> QED
        BY <3>1 DEF OneEach
    <2>2. CASE p \notin DueSets
      <3>1. \A k \in sets[p].children : rooms'[k] = rooms[k]
        BY <1>3, <1>7, <2>2
      <3> QED
        BY <1>2, <2>2, <3>1 DEF IInv, Seats
    <2> QED
      BY <2>1, <2>2
  <1>14. OneRoomPerFamily'
    <2> SUFFICES ASSUME NEW q \in PlainRooms, NEW a \in {q} \cup sets'[q].children,
                        NEW b \in {q} \cup sets'[q].children,
                        NEW x \in rooms'[a].peers, NEW y \in rooms'[b].peers, UserOf[x] = UserOf[y]
                 PROVE  a = b
      BY DEF OneRoomPerFamily
    <2>1. a \in {q} \cup sets[q].children /\ b \in {q} \cup sets[q].children
      BY <1>2, NoSetType
    <2>2. a \in RoomIds /\ b \in RoomIds
      BY <2>1, Typed
    <2>3. x \in rooms[a].peers /\ y \in rooms[b].peers
      BY <1>6, <2>2
    <2> QED
      BY <2>1, <2>3 DEF IInv, OneRoomPerFamily
  <1>15. RemovalIsDriven'
    BY <1>1, <1>3, VacantType DEF IInv, RemovalIsDriven
  <1> QED
    BY <1>9, <1>10, <1>11, <1>12, <1>13, <1>14, <1>15 DEF IInv

LEMMA EmptyServer ==
  ASSUME conn = [c \in Conns |-> NoConn], ice = [c \in Conns |-> NoIce],
         rooms = [r \in RoomIds |-> Vacant], sets = [p \in PlainRooms |-> NoSet],
         timers = [r \in RoomIds |-> 0],
         now \in 0..MaxTime, retired \subseteq ChildRooms, dir \in [PlainRooms -> Entry], plan \in Plans
  PROVE  IInv
  <1>1. TypeOK
    <2>1. NoIce \in IceGrant
      BY DEF NoIce, IceGrant
    <2>2. \A p \in PlainRooms : sets[p].children \subseteq retired /\ sets[p].grants = {}
      BY NoSetType
    <2>3. \A r \in RoomIds : rooms[r] = Vacant
      OBVIOUS
    <2>4. rooms \in [RoomIds -> Room] /\ conn \in [Conns -> Connection] /\ ice \in [Conns -> IceGrant]
          /\ sets \in [PlainRooms -> BreakoutSet] /\ timers \in [RoomIds -> Nat]
      BY <2>1, VacantType, NoConnType, NoSetType
    <2> QED
      BY <2>2, <2>3, <2>4, VacantType DEF TypeOK
  <1>2. Seated /\ Placed /\ DisjointSets
    BY VacantType, NoConnType, NoSetType DEF Seated, Placed, DisjointSets
  <1>3. Breakouts
    BY VacantType, NoSetType DEF Breakouts
  <1>4. Refreshable
    BY NoConnType DEF Refreshable, Live, Member
  <1>5. Seats
    BY NoSetType DEF Seats, OneEach
  <1>6. OneRoomPerFamily
    BY VacantType, NoSetType DEF OneRoomPerFamily
  <1>7. RemovalIsDriven
    BY VacantType DEF RemovalIsDriven
  <1> QED
    BY <1>1, <1>2, <1>3, <1>4, <1>5, <1>6, <1>7 DEF IInv

LEMMA InitEstablishes == ASSUME Init PROVE IInv
  <1>1. NoEntry \in Entry
    BY DEF NoEntry, Entry
  <1>2. 0 \in 0..MaxTime
    BY TimeAssumption
  <1> QED
    BY <1>1, <1>2, EmptyServer DEF Init

LEMMA RestartKeeps == ASSUME IInv, Restart PROVE IInv'
  <1>1. /\ conn' = [c \in Conns |-> NoConn] /\ ice' = [c \in Conns |-> NoIce]
        /\ rooms' = [r \in RoomIds |-> Vacant] /\ sets' = [p \in PlainRooms |-> NoSet]
        /\ timers' = [r \in RoomIds |-> 0] /\ now' = now /\ retired' = retired /\ plan' = plan
    BY DEF Restart
  <1>2. dir' \in [PlainRooms -> Entry]
    <2>1. \A r \in PlainRooms : [dir[r] EXCEPT !.updated = now] \in Entry
      <3>1. \A r \in PlainRooms : dir[r] \in Entry
        BY Typed
      <3>2. now \in Nat
        BY Typed
      <3> QED
        BY <3>1, <3>2 DEF Entry
    <2>2. NoEntry \in Entry
      BY DEF NoEntry, Entry
    <2> QED
      BY <2>1, <2>2 DEF Restart
  <1>3. now' \in 0..MaxTime /\ retired' \subseteq ChildRooms /\ plan' \in Plans
    BY <1>1 DEF IInv, TypeOK
  <1>4. TypeOK'
    <2>1. NoIce \in IceGrant
      BY DEF NoIce, IceGrant
    <2>2. \A p \in PlainRooms : sets'[p].children \subseteq retired' /\ sets'[p].grants = {}
      BY <1>1, NoSetType
    <2>3. \A r \in RoomIds : rooms'[r] = Vacant
      BY <1>1
    <2>4. rooms' \in [RoomIds -> Room] /\ conn' \in [Conns -> Connection] /\ ice' \in [Conns -> IceGrant]
          /\ sets' \in [PlainRooms -> BreakoutSet] /\ timers' \in [RoomIds -> Nat]
      BY <1>1, <2>1, VacantType, NoConnType, NoSetType
    <2> QED
      BY <1>2, <1>3, <2>2, <2>3, <2>4, VacantType DEF TypeOK
  <1>5. Seated' /\ Placed' /\ DisjointSets'
    BY <1>1, VacantType, NoConnType, NoSetType DEF Seated, Placed, DisjointSets
  <1>6. Breakouts'
    BY <1>1, VacantType, NoSetType DEF Breakouts
  <1>7. Refreshable'
    BY <1>1, NoConnType DEF Refreshable, Live, Member
  <1>8. Seats'
    BY <1>1, NoSetType DEF Seats, OneEach
  <1>9. OneRoomPerFamily'
    BY <1>1, VacantType, NoSetType DEF OneRoomPerFamily
  <1>10. RemovalIsDriven'
    BY <1>1, VacantType DEF RemovalIsDriven
  <1> QED
    BY <1>4, <1>5, <1>6, <1>7, <1>8, <1>9, <1>10 DEF IInv

-----------------------------------------------------------------------------
(***************************************************************************)
(* Joining                                                                 *)
(***************************************************************************)

\* What a join does to the grants: at most the live grants of this user for
\* this room go, and after a granted entry they are gone.
LEMMA JoinGrants ==
  ASSUME IInv, NEW c \in Conns, conn[c].st = "ticket",
         sets' = IF MayEnter(c) /\ Reserved(conn[c].room) THEN Consumed(c) ELSE sets
  PROVE  /\ sets' \in [PlainRooms -> BreakoutSet]
         /\ \A p \in PlainRooms :
              /\ sets'[p].children = sets[p].children /\ sets'[p].expires = sets[p].expires
              /\ sets'[p].grants \subseteq sets[p].grants
         /\ MayEnter(c) /\ Reserved(conn[c].room) =>
              \A g \in sets'[ParentOf(conn[c].room)].grants :
                ~(g.expires > now /\ g.child = conn[c].room /\ g.user = UserOf[c])
  <1> DEFINE r0 == conn[c].room
             p0 == ParentOf(r0)
             gs == {g \in sets[p0].grants : ~(g.expires > now /\ g.child = r0 /\ g.user = UserOf[c])}
             n == [sets[p0] EXCEPT !.grants = gs]
  <1>1. CASE MayEnter(c) /\ Reserved(r0)
    <2>1. p0 \in PlainRooms
      BY <1>1, ParentFacts
    <2>2. sets[p0] \in BreakoutSet /\ gs \in SUBSET Grant /\ gs \subseteq sets[p0].grants
      BY <2>1, SetFacts
    <2>3. sets' = [sets EXCEPT ![p0] = n]
      BY <1>1, <2>1, <2>2, Typed DEF Consumed, BreakoutSet
    <2>4. \A g \in gs : ~(g.expires > now /\ g.child = r0 /\ g.user = UserOf[c])
      OBVIOUS
    <2> HIDE DEF gs
    <2>5. n \in BreakoutSet /\ n.grants = gs /\ n.children = sets[p0].children
          /\ n.expires = sets[p0].expires
      BY <2>2 DEF BreakoutSet
    <2> HIDE DEF n, p0, r0
    <2>6. /\ sets' \in [PlainRooms -> BreakoutSet] /\ sets'[p0] = n
          /\ \A q \in PlainRooms : q # p0 => sets'[q] = sets[q]
      BY <2>1, <2>3, <2>5, Typed
    <2> QED
      BY <2>2, <2>4, <2>5, <2>6 DEF p0, r0
  <1>2. CASE ~(MayEnter(c) /\ Reserved(r0))
    BY <1>2, Typed
  <1> QED
    BY <1>1, <1>2

\* Fewer grants are no problem where nobody enters.
LEMMA FewerGrants ==
  ASSUME IInv, NEW p \in PlainRooms, NEW gs, gs \subseteq sets[p].grants
  PROVE  /\ OneEach(gs, now)
         /\ \A k : LiveFor(gs, k, now) \subseteq LiveFor(sets[p].grants, k, now)
         /\ \A k \in sets[p].children :
              Cardinality(LiveFor(gs, k, now)) + Cardinality(rooms[k].peers) <= ChildCapacity
         /\ \A g \in gs : g.child \in sets[p].children /\ g.expires <= sets[p].expires
  <1>1. OneEach(gs, now)
    BY SetFacts DEF OneEach
  <1>2. \A k : LiveFor(gs, k, now) \subseteq LiveFor(sets[p].grants, k, now)
    BY DEF LiveFor
  <1>3. \A k \in sets[p].children :
          Cardinality(LiveFor(gs, k, now)) + Cardinality(rooms[k].peers) <= ChildCapacity
    BY <1>2, SetFacts, FewerSeats
  <1> QED
    BY <1>1, <1>2, <1>3, SetFacts

\* A join that is refused.
LEMMA RefusedKeeps ==
  ASSUME IInv, NEW c \in Conns, Connect(c), ~(MayEnter(c) /\ Fits(c)) PROVE IInv'
  <1>1. /\ conn[c].st = "ticket" /\ conn' = [conn EXCEPT ![c] = NoConn]
        /\ UNCHANGED <<now, rooms, ice, dir, retired, timers, plan>>
        /\ sets' = IF MayEnter(c) /\ Reserved(conn[c].room) THEN Consumed(c) ELSE sets
    BY DEF Connect
  <1>2. /\ sets' \in [PlainRooms -> BreakoutSet]
        /\ \A p \in PlainRooms :
             /\ sets'[p].children = sets[p].children /\ sets'[p].expires = sets[p].expires
             /\ sets'[p].grants \subseteq sets[p].grants
    BY <1>1, JoinGrants
  <1>3. /\ conn' \in [Conns -> Connection] /\ conn'[c] = NoConn
        /\ \A d \in Conns : d # c => conn'[d] = conn[d]
    BY <1>1, NoConnType, Typed
  <1>4. \A r \in RoomIds : rooms[r].peers \subseteq Conns \ {c}
    BY <1>1, NotSeated, Typed DEF Room
  <1>5. TypeOK'
    <2>1. \A p \in PlainRooms :
            /\ sets'[p].children \subseteq retired
            /\ \A g \in sets'[p].grants : g.child \in sets'[p].children /\ g.expires <= sets'[p].expires
      BY <1>2, FewerGrants, Typed
    <2> QED
      BY <1>1, <1>2, <1>3, <2>1 DEF IInv, TypeOK
  <1>6. Seated' /\ Placed' /\ DisjointSets'
    <2>1. Seated'
      BY <1>1, <1>3, <1>4 DEF IInv, Seated
    <2>2. Placed'
      BY <1>1, <1>3, NoConnType DEF IInv, Placed, Machine
    <2> QED
      BY <1>2, <2>1, <2>2 DEF IInv, DisjointSets
  <1>7. Breakouts'
    BY <1>1, <1>2, <1>3, <1>4 DEF IInv, Breakouts
  <1>8. Refreshable'
    <2>1. ~Live(c)' /\ conn'[c].st # "ticket"
      BY <1>3, NoConnType DEF Live, Member
    <2> QED
      BY <1>1, <1>3, <2>1 DEF IInv, Refreshable, Live, Member
  <1>9. Seats'
    BY <1>1, <1>2, FewerGrants DEF Seats
  <1>10. OneRoomPerFamily' /\ RemovalIsDriven'
    BY <1>1, <1>2 DEF IInv, OneRoomPerFamily, RemovalIsDriven
  <1> QED
    BY <1>5, <1>6, <1>7, <1>8, <1>9, <1>10 DEF IInv

\* The room that c has entered.
LEMMA EnteredRoom ==
  ASSUME IInv, NEW c \in Conns, conn[c].st = "ticket", MayEnter(c), Fits(c)
  PROVE  LET t == conn[c]
             old == rooms[t.room]
             new == Entered(c)
         IN /\ new \in Room /\ new.peers = old.peers \cup {c} /\ new.hands = old.hands
            /\ new.pending = old.pending
            /\ new.mode # "none"
            /\ Reserved(t.room) => new.kind = "breakout" /\ new.mode = "room"
            /\ new.kind = "breakout" => Reserved(t.room)
  <1> DEFINE t == conn[c]
             old == rooms[t.room]
             who == IF Reserved(t.room) THEN rooms[ParentOf(t.room)].creator
                    ELSE IF Registered(t.room) THEN dir[t.room].owner ELSE UserOf[c]
             kind == IF Reserved(t.room) THEN "breakout" ELSE "room"
             fresh == [Vacant EXCEPT !.mode = t.mode, !.kind = kind, !.creator = who]
             room == IF old = Vacant THEN fresh ELSE old
             ps == room.peers \cup {c}
             pr == IF room.presenter = None /\ ~Machine(c) /\ IsOwner(c, room) THEN c ELSE room.presenter
             new == [room EXCEPT !.peers = ps, !.presenter = pr]
  <1>1. t \in Connection /\ t.room \in RoomIds /\ old \in Room
    BY Place
  <1>2. t.mode \in {"room", "pair"}
    BY <1>1 DEF Connection
  <1>3. who \in Users \cup {None}
    <2>1. CASE Reserved(t.room)
      <3>1. ParentOf(t.room) \in RoomIds
        BY <2>1, ParentFacts, Typed
      <3> QED
        BY <2>1, <3>1, Typed DEF Room
    <2>2. CASE ~Reserved(t.room) /\ Registered(t.room)
      <3>1. dir[t.room] \in Entry
        BY <2>2, Typed DEF Registered
      <3> QED
        BY <2>2, <3>1 DEF Entry
    <2>3. CASE ~Reserved(t.room) /\ ~Registered(t.room)
      BY <2>3, UserType
    <2> QED
      BY <2>1, <2>2, <2>3
  <1>4. kind \in {"room", "breakout"} /\ (kind = "breakout" <=> Reserved(t.room))
    OBVIOUS
  <1>e. Entered(c) = new
    <2>1. fresh \in Room
      <3> HIDE DEF who, kind, t
      <3> QED
        BY <1>2, <1>3, <1>4, VacantType DEF Room
    <2>2. room \in Room
      BY <1>1, <2>1
    <2>3. Entered(c) = [room EXCEPT !.peers = @ \cup {c},
                          !.presenter = IF @ = None /\ ~Machine(c) /\ IsOwner(c, room) THEN c ELSE @]
      BY DEF Entered
    <2> HIDE DEF room
    <2> QED
      BY <2>2, <2>3 DEF Room
  <1> HIDE DEF who, kind, t
  <1>5. /\ fresh \in Room /\ fresh.peers = {} /\ fresh.hands = {} /\ fresh.pending = NoRemove
        /\ fresh.mode = t.mode /\ fresh.kind = kind
    BY <1>2, <1>3, <1>4, VacantType DEF Room
  <1> HIDE DEF fresh
  <1>6. old # Vacant => /\ old.mode # "none" /\ old.mode = t.mode
                        /\ (old.kind = "breakout") <=> Reserved(t.room)
    BY <1>1 DEF Fits, IInv, TypeOK, t
  <1>7. Reserved(t.room) => t.mode = "room"
    BY DEF MayEnter, t
  <1>8. /\ room \in Room /\ room.peers = old.peers /\ room.hands = old.hands
        /\ room.pending = old.pending /\ room.mode = t.mode
        /\ (room.kind = "breakout") <=> Reserved(t.room)
    <2>1. CASE old = Vacant
      BY <1>4, <1>5, <2>1, VacantType
    <2>2. CASE old # Vacant
      BY <1>1, <1>6, <2>2
    <2> QED
      BY <2>1, <2>2
  <1> HIDE DEF old, room
  <1>9. ps \in SUBSET Conns /\ pr \in Conns \cup {None}
    BY <1>8 DEF Room
  <1>10. ps = room.peers \cup {c}
    OBVIOUS
  <1> HIDE DEF ps, pr
  <1>11. /\ new \in Room /\ new.peers = ps /\ new.hands = room.hands
         /\ new.pending = room.pending /\ new.mode = room.mode /\ new.kind = room.kind
    BY <1>8, <1>9 DEF Room
  <1> HIDE DEF new
  <1>12. /\ new.peers = old.peers \cup {c} /\ new.mode = t.mode
         /\ (new.kind = "breakout") <=> Reserved(t.room)
    BY <1>8, <1>10, <1>11
  <1>13. t.mode # "none"
    BY <1>2
  <1> QED
    BY <1>e, <1>7, <1>8, <1>11, <1>12, <1>13 DEF t, old

\* The rooms of a family that a peer of r0 could also be in are those the
\* join looks at.
LEMMA FamilyFacts ==
  ASSUME IInv, NEW p \in PlainRooms, NEW r \in {p} \cup sets[p].children, sets[p].children # {}
  PROVE  Family(r) = {p} \cup sets[p].children
  <1>1. CASE Reserved(r)
    <2>1. r \in sets[p].children
      BY <1>1, ParentFacts
    <2>2. ParentOf(r) = p
      BY <1>1, <2>1, ParentFacts
    <2> QED
      BY <1>1, <2>2 DEF Family
  <1>2. CASE ~Reserved(r)
    <2>1. r = p
      BY <1>2 DEF Reserved
    <2> QED
      BY <1>2, <2>1 DEF Family
  <1> QED
    BY <1>1, <1>2

\* One member more for one grant less.
LEMMA OneForOne ==
  ASSUME NEW S, NEW g \in S, NEW P, NEW c, IsFiniteSet(S), IsFiniteSet(P), NEW T, T \subseteq S \ {g},
         Cardinality(S) + Cardinality(P) <= ChildCapacity
  PROVE  Cardinality(T) + Cardinality(P \cup {c}) <= ChildCapacity
  <1>1. IsFiniteSet(S \ {g}) /\ Cardinality(S \ {g}) = Cardinality(S) - 1
    BY FS_RemoveElement
  <1>2. IsFiniteSet(P \cup {c}) /\ Cardinality(P \cup {c}) = IF c \in P THEN Cardinality(P) ELSE Cardinality(P) + 1
    BY FS_AddElement
  <1>3. Cardinality(S) \in Nat /\ Cardinality(P) \in Nat /\ ChildCapacity \in Nat
    BY FS_CardinalityType, CapacityAssumption
  <1>4. Cardinality(S \ {g}) + Cardinality(P \cup {c}) <= ChildCapacity
    BY <1>1, <1>2, <1>3
  <1> QED
    BY <1>1, <1>2, <1>4, FewerSeats

\* A join that succeeds.
LEMMA EntryKeeps ==
  ASSUME IInv, NEW c \in Conns, Connect(c), MayEnter(c), Fits(c) PROVE IInv'
  <1> DEFINE r0 == conn[c].room
             old == rooms[r0]
             new == Entered(c)
             k == [conn[c] EXCEPT !.st = "open", !.expires = 0]
             i == IF ice[c].st = "unbound" THEN [st |-> "bound", bindBy |-> 0] ELSE ice[c]
  <1>1. /\ conn[c].st = "ticket"
        /\ rooms' = [rooms EXCEPT ![r0] = new]
        /\ conn' = [conn EXCEPT ![c] = k]
        /\ ice' = [ice EXCEPT ![c] = i]
        /\ dir' = Touched(r0) /\ UNCHANGED <<now, retired, timers, plan>>
        /\ sets' = IF MayEnter(c) /\ Reserved(r0) THEN Consumed(c) ELSE sets
    <2>1. conn[c] \in Connection /\ ice[c] \in IceGrant
      BY Typed
    <2>2. /\ conn' = [conn EXCEPT ![c].st = "open", ![c].expires = 0]
          /\ ice' = [ice EXCEPT ![c] = IF @.st = "unbound" THEN [st |-> "bound", bindBy |-> 0] ELSE @]
      BY DEF Connect
    <2>3. conn' = [conn EXCEPT ![c] = k]
      BY <2>1, <2>2, Typed DEF Connection
    <2>4. ice' = [ice EXCEPT ![c] = i]
      BY <2>1, <2>2, Typed
    <2> QED
      BY <2>3, <2>4 DEF Connect
  <1>2. conn[c] \in Connection /\ r0 \in RoomIds /\ old \in Room
    BY <1>1, Place
  <1>3. /\ new \in Room /\ new.peers = old.peers \cup {c} /\ new.hands = old.hands
        /\ new.pending = old.pending /\ new.mode # "none"
        /\ Reserved(r0) => new.kind = "breakout" /\ new.mode = "room"
        /\ new.kind = "breakout" => Reserved(r0)
    BY <1>1, EnteredRoom
  <1>4. /\ k \in Connection /\ k.st = "open" /\ k.room = r0 /\ k.set = conn[c].set
    BY <1>2 DEF Connection
  <1>5. i \in IceGrant /\ i.st = "bound"
    <2>1. ice[c].st = "unbound"
      BY <1>1 DEF IInv, Refreshable
    <2> QED
      BY <2>1 DEF IceGrant
  <1>6. /\ sets' \in [PlainRooms -> BreakoutSet]
        /\ \A p \in PlainRooms :
             /\ sets'[p].children = sets[p].children /\ sets'[p].expires = sets[p].expires
             /\ sets'[p].grants \subseteq sets[p].grants
        /\ Reserved(r0) =>
             \A g \in sets'[ParentOf(r0)].grants :
               ~(g.expires > now /\ g.child = r0 /\ g.user = UserOf[c])
    BY <1>1, JoinGrants
  <1> HIDE DEF new, k, i
  <1>7. /\ rooms' \in [RoomIds -> Room] /\ rooms'[r0] = new
        /\ \A r \in RoomIds : r # r0 => rooms'[r] = rooms[r]
    BY <1>1, <1>2, <1>3, Typed
  <1>8. /\ conn' \in [Conns -> Connection] /\ ice' \in [Conns -> IceGrant] /\ conn'[c] = k /\ ice'[c] = i
        /\ \A d \in Conns : d # c => conn'[d] = conn[d] /\ ice'[d] = ice[d]
    BY <1>1, <1>4, <1>5, Typed
  <1>9. /\ \A r \in RoomIds : rooms[r].peers \subseteq Conns \ {c}
    BY <1>1, NotSeated, Typed DEF Room
  <1>10. \A p \in PlainRooms : {p} \cup sets[p].children \subseteq RoomIds
    BY Typed
  <1> HIDE DEF r0, old
  <1>11. TypeOK'
    <2>1. \A p \in PlainRooms :
            /\ sets'[p].children \subseteq retired
            /\ \A g \in sets'[p].grants : g.child \in sets'[p].children /\ g.expires <= sets'[p].expires
      BY <1>6, FewerGrants, Typed
    <2>2. \A r \in RoomIds :
            /\ (rooms'[r].mode = "none") <=> (rooms'[r] = Vacant)
            /\ rooms'[r].hands \subseteq rooms'[r].peers
            /\ (rooms'[r].peers = {}) => (rooms'[r] = Vacant)
      <3>1. new.mode # "none" /\ new # Vacant /\ new.peers # {}
        BY <1>3, VacantType
      <3>2. old.hands \subseteq old.peers
        BY <1>2 DEF IInv, TypeOK, old
      <3> QED
        BY <1>3, <1>7, <3>1, <3>2 DEF IInv, TypeOK
    <2>3. dir' \in [PlainRooms -> Entry]
      BY <1>1, TouchedType
    <2> QED
      BY <1>1, <1>6, <1>7, <1>8, <2>1, <2>2, <2>3 DEF IInv, TypeOK
  <1>12. Seated' /\ Placed' /\ DisjointSets'
    <2>1. Seated'
      BY <1>3, <1>4, <1>7, <1>8, <1>9 DEF IInv, Seated, old
    <2>2. Placed'
      <3>1. r0 \in PlainRooms \cup retired \cup {None} /\ r0 # None /\ (conn[c].set # {} => ~Machine(c))
        BY <1>1 DEF IInv, Placed, r0
      <3> QED
        BY <1>1, <1>4, <1>8, <3>1 DEF IInv, Placed, Machine
    <2> QED
      BY <1>6, <2>1, <2>2 DEF IInv, DisjointSets
  <1>13. Breakouts'
    <2> SUFFICES ASSUME NEW r \in RoomIds
                 PROVE  /\ rooms'[r].kind = "breakout" => \E p \in PlainRooms : r \in sets[p].children
                        /\ \A p \in PlainRooms : r \in sets[p].children =>
                             /\ \A d \in rooms'[r].peers : conn'[d].set = sets[p].children
                             /\ rooms'[r] # Vacant => rooms'[r].kind = "breakout" /\ rooms'[r].mode = "room"
      BY <1>6 DEF Breakouts
    <2>1. CASE r # r0
      BY <1>7, <1>8, <1>9, <2>1 DEF IInv, Breakouts
    <2>2. CASE r = r0
      <3>1. rooms'[r].kind = "breakout" => \E p \in PlainRooms : r \in sets[p].children
        BY <1>3, <1>7, <2>2 DEF Reserved
      <3>2. ASSUME NEW p \in PlainRooms, r \in sets[p].children
            PROVE  /\ \A d \in rooms'[r].peers : conn'[d].set = sets[p].children
                   /\ rooms'[r] # Vacant => rooms'[r].kind = "breakout" /\ rooms'[r].mode = "room"
        <4>1. Reserved(r0)
          BY <2>2, <3>2 DEF Reserved
        <4>2. p = ParentOf(r0)
          BY <2>2, <3>2, <4>1, ParentFacts
        <4>3. conn[c].set = sets[p].children
          BY <4>1, <4>2 DEF MayEnter, r0
        <4>4. \A d \in old.peers : conn[d].set = sets[p].children
          BY <1>2, <2>2, <3>2 DEF IInv, Breakouts, old
        <4>5. old.peers \subseteq Conns \ {c}
          BY <1>2, <1>9 DEF old
        <4> QED
          BY <1>3, <1>4, <1>7, <1>8, <2>2, <4>1, <4>3, <4>4, <4>5
      <3> QED
        BY <3>1, <3>2
    <2> QED
      BY <2>1, <2>2
  <1>14. Refreshable'
    <2> SUFFICES ASSUME NEW d \in Conns, d # c
                 PROVE  /\ conn[d].st = "ticket" => ice[d].st = "unbound" /\ conn[d].expires <= ice[d].bindBy
                        /\ Live(d)' => ice[d].st = "bound"
      BY <1>4, <1>5, <1>8 DEF Refreshable
    <2>1. Live(d)' => Live(d)
      <3> SUFFICES ASSUME Live(d)' PROVE Live(d)
        OBVIOUS
      <3>1. conn[d].st = "open" /\ d \in rooms'[conn[d].room].peers /\ conn[d].sock = "open"
        BY <1>8 DEF Live, Member
      <3>2. conn[d].room \in RoomIds
        BY <3>1, Place
      <3>3. d \in rooms[conn[d].room].peers
        BY <1>3, <1>7, <3>1, <3>2 DEF old
      <3> QED
        BY <3>1, <3>3 DEF Live, Member
    <2> QED
      BY <2>1 DEF IInv, Refreshable
  <1>15. Seats'
    <2> SUFFICES ASSUME NEW p \in PlainRooms
                 PROVE  /\ OneEach(sets'[p].grants, now)
                        /\ \A x \in sets[p].children :
                             Cardinality(LiveFor(sets'[p].grants, x, now)) + Cardinality(rooms'[x].peers)
                               <= ChildCapacity
      BY <1>1, <1>6 DEF Seats
    <2>1. OneEach(sets'[p].grants, now)
      BY <1>6, FewerGrants
    <2>2. ASSUME NEW x \in sets[p].children
          PROVE  Cardinality(LiveFor(sets'[p].grants, x, now)) + Cardinality(rooms'[x].peers) <= ChildCapacity
      <3>1. CASE x # r0
        <4>1. rooms'[x] = rooms[x]
          BY <1>7, <1>10, <3>1
        <4> QED
          BY <1>6, <4>1, FewerGrants
      <3>2. CASE x = r0
        <4> DEFINE S == LiveFor(sets[p].grants, r0, now)
                   T == LiveFor(sets'[p].grants, r0, now)
        <4>1. Reserved(r0)
          BY <2>2, <3>2 DEF Reserved
        <4>2. p = ParentOf(r0)
          BY <2>2, <3>2, <4>1, ParentFacts
        <4>3. PICK g \in LiveGrants(p) : g.child = r0 /\ g.user = UserOf[c]
          BY <4>1, <4>2 DEF MayEnter, HasLiveGrant, r0
        <4>4. g \in S
          BY <4>3 DEF LiveGrants, LiveFor
        <4>5. g \notin T /\ T \subseteq S
          BY <1>6, <4>1, <4>2, <4>3 DEF LiveFor
        <4>6. /\ IsFiniteSet(S) /\ IsFiniteSet(old.peers)
              /\ Cardinality(S) + Cardinality(old.peers) <= ChildCapacity
          BY <2>2, <3>2, SetFacts DEF old
        <4> HIDE DEF S, T
        <4>7. T \subseteq S \ {g}
          BY <4>5
        <4>8. Cardinality(T) + Cardinality(old.peers \cup {c}) <= ChildCapacity
          BY <4>4, <4>6, <4>7, OneForOne
        <4> QED
          BY <1>3, <1>7, <3>2, <4>8 DEF T
      <3> QED
        BY <3>1, <3>2
    <2> QED
      BY <2>1, <2>2
  <1>16. OneRoomPerFamily'
    <2>1. ASSUME NEW p \in PlainRooms, NEW q \in {p} \cup sets[p].children, r0 \in {p} \cup sets[p].children,
                 q # r0, NEW d \in rooms[q].peers
          PROVE  UserOf[d] # UserOf[c]
      <3>1. sets[p].children # {}
        BY <2>1
      <3>2. Family(r0) = {p} \cup sets[p].children
        BY <2>1, <3>1, FamilyFacts
      <3>3. AloneInFamily(UserOf[c], r0)
        BY DEF MayEnter, r0
      <3> QED
        BY <2>1, <3>2, <3>3 DEF AloneInFamily
    <2> SUFFICES ASSUME NEW p \in PlainRooms, NEW a \in {p} \cup sets[p].children,
                        NEW b \in {p} \cup sets[p].children,
                        NEW x \in rooms'[a].peers, NEW y \in rooms'[b].peers, UserOf[x] = UserOf[y], a # b
                 PROVE  FALSE
      BY <1>6 DEF OneRoomPerFamily
    <2>2. /\ x \in rooms[a].peers \/ (x = c /\ a = r0)
          /\ y \in rooms[b].peers \/ (y = c /\ b = r0)
      BY <1>3, <1>7, <1>10 DEF old
    <2>3. ~(x \in rooms[a].peers /\ y \in rooms[b].peers)
      BY DEF IInv, OneRoomPerFamily
    <2> QED
      BY <2>1, <2>2, <2>3
  <1>17. RemovalIsDriven'
    <2> SUFFICES ASSUME NEW r \in RoomIds, rooms'[r].pending # NoRemove
                 PROVE  /\ {rooms'[r].pending.target, rooms'[r].pending.actor} \subseteq rooms'[r].peers
                        /\ timers[r] = rooms'[r].pending.expires
      BY <1>1 DEF RemovalIsDriven
    <2>1. rooms'[r].pending = rooms[r].pending /\ rooms[r].peers \subseteq rooms'[r].peers
      BY <1>3, <1>7 DEF old
    <2> QED
      BY <2>1 DEF IInv, RemovalIsDriven
  <1> QED
    BY <1>11, <1>12, <1>13, <1>14, <1>15, <1>16, <1>17 DEF IInv

LEMMA ConnectKeeps == ASSUME IInv, NEW c \in Conns, Connect(c) PROVE IInv'
  BY EntryKeeps, RefusedKeeps

-----------------------------------------------------------------------------
(***************************************************************************)
(* assignBalanced: many places are promised in one step                    *)
(***************************************************************************)
LEMMA LeastNatural ==
  ASSUME NEW T \in SUBSET Nat, T # {}
  PROVE  \E n \in T : \A m \in T : n <= m
  <1>1. PICK n \in T : \A m \in T : ~(<<m, n>> \in OpToRel(<, Nat))
    BY NatLessThanWellFounded, WFMin
  <1>2. \A m \in T : ~(m < n)
    BY <1>1 DEF OpToRel
  <1> QED
    BY <1>2

LEMMA GreatestIndex ==
  ASSUME NEW N \in Nat, NEW T \in SUBSET (1..N), T # {}
  PROVE  \E n \in T : \A m \in T : m <= n
  <1> DEFINE U == {x \in 0..N : N - x \in T}
  <1>1. U \in SUBSET Nat
    OBVIOUS
  <1>2. U # {}
    <2>1. PICK m \in T : TRUE
      OBVIOUS
    <2>2. N - m \in 0..N /\ N - (N - m) = m
      BY <2>1
    <2> QED
      BY <2>1, <2>2
  <1>3. PICK n \in U : \A m \in U : n <= m
    BY <1>1, <1>2, LeastNatural
  <1>4. N - n \in T /\ n \in 0..N
    BY <1>3
  <1>5. \A m \in T : m <= N - n
    <2> SUFFICES ASSUME NEW m \in T PROVE m <= N - n
      OBVIOUS
    <2>1. m \in 1..N /\ N - m \in 0..N /\ N - (N - m) = m
      OBVIOUS
    <2>2. n <= N - m
      BY <1>3, <2>1
    <2> QED
      BY <1>4, <2>1, <2>2
  <1> QED
    BY <1>4, <1>5

LEMMA OrderFacts ==
  ASSUME NEW S, IsFiniteSet(S), NEW s \in SetToSeqs(S)
  PROVE  /\ Len(s) \in Nat /\ DOMAIN s = 1..Len(s)
         /\ \A i \in 1..Len(s) : s[i] \in S
  <1> DEFINE n == Cardinality(S)
  <1>1. n \in Nat
    BY FS_CardinalityType
  <1>2. s \in [1..n -> S]
    BY DEF SetToSeqs
  <1> HIDE DEF n
  <1>3. s \in Seq(S)
    BY <1>1, <1>2
  <1>4. Len(s) = n
    BY <1>1, <1>2, <1>3
  <1> QED
    BY <1>1, <1>2, <1>4

\* What the deal needs of its inputs: the peers in order, the children in
\* order, and grants without a live one of those peers.
Deal(p, base, ps, ks, to) ==
  /\ p \in PlainRooms /\ sets[p].expires > now
  /\ base \subseteq sets[p].grants
  /\ Len(ps) \in Nat /\ DOMAIN ps = 1..Len(ps) /\ Len(ks) \in Nat
  /\ \A i \in 1..Len(ps) : ps[i] \in Conns /\ to[i] \in 0..Len(ks)
  /\ \A n \in 1..Len(ks) : ks[n] \in sets[p].children
  /\ \A g \in base : g.expires > now => \A i \in 1..Len(ps) : g.user # UserOf[ps[i]]

Turn(p, ps, ks, to, j) == [child |-> ks[to[j]], user |-> UserOf[ps[j]], expires |-> GrantExpiry(p)]

\* The turns among the first i whose grant is still there.
Kept(ps, to, i) ==
  {x \in 1..i : to[x] # 0 /\ \A y \in (x + 1)..i : to[y] # 0 => UserOf[ps[y]] # UserOf[ps[x]]}

LEMMA TurnFacts ==
  ASSUME IInv, NEW p, NEW base, NEW ps, NEW ks, NEW to, Deal(p, base, ps, ks, to),
         NEW j \in 1..Len(ps), to[j] # 0
  PROVE  LET t == Turn(p, ps, ks, to, j)
         IN /\ t \in Grant /\ t.child = ks[to[j]] /\ t.child \in sets[p].children
            /\ t.user = UserOf[ps[j]] /\ t.expires <= sets[p].expires
  <1>1. to[j] \in 1..Len(ks)
    BY DEF Deal
  <1>2. ks[to[j]] \in sets[p].children /\ ps[j] \in Conns /\ p \in PlainRooms /\ sets[p].expires > now
    BY <1>1 DEF Deal
  <1>3. ks[to[j]] \in ChildRooms /\ UserOf[ps[j]] \in Users
    BY <1>2, SetFacts, UserType
  <1>4. GrantExpiry(p) \in Nat /\ GrantExpiry(p) <= sets[p].expires
    BY <1>2, NewGrant
  <1> QED
    BY <1>2, <1>3, <1>4 DEF Turn, Grant

LEMMA DealtFacts ==
  ASSUME IInv, NEW p, NEW base, NEW ps, NEW ks, NEW to, Deal(p, base, ps, ks, to),
         NEW i \in 0..Len(ps)
  PROVE  LET G == Dealt(base, p, ps, ks, to, i)
         IN /\ G = base \cup {Turn(p, ps, ks, to, j) : j \in Kept(ps, to, i)}
            /\ G \in SUBSET Grant /\ OneEach(G, now)
            /\ \A g \in G : g.child \in sets[p].children /\ g.expires <= sets[p].expires
  <1> DEFINE G == Dealt(base, p, ps, ks, to, i)
             K == Kept(ps, to, i)
  <1>1. G = base \cup {Turn(p, ps, ks, to, j) : j \in K}
    BY DEF Dealt, Turn, Kept
  <1>2. Len(ps) \in Nat /\ i \in Nat /\ i <= Len(ps) /\ p \in PlainRooms /\ base \subseteq sets[p].grants
    BY DEF Deal
  <1>3. \A j \in K : j \in 1..Len(ps) /\ j \in 1..i /\ to[j] # 0
    BY <1>2 DEF Kept
  <1>4. \A j \in K : LET t == Turn(p, ps, ks, to, j)
                     IN /\ t \in Grant /\ t.child \in sets[p].children
                        /\ t.user = UserOf[ps[j]] /\ t.expires <= sets[p].expires
    BY <1>3, TurnFacts
  <1>5. \A g \in base : g \in Grant /\ g.child \in sets[p].children /\ g.expires <= sets[p].expires
    BY <1>2, SetFacts
  <1>6. \A x, y \in K : UserOf[ps[x]] = UserOf[ps[y]] => x = y
    <2> SUFFICES ASSUME NEW x \in K, NEW y \in K, UserOf[ps[x]] = UserOf[ps[y]], x # y PROVE FALSE
      OBVIOUS
    <2>1. x \in 1..i /\ y \in 1..i /\ to[x] # 0 /\ to[y] # 0
      BY <1>3
    <2>2. CASE x < y
      <3>1. y \in (x + 1)..i
        BY <1>2, <2>1, <2>2
      <3> QED
        BY <2>1, <3>1 DEF Kept
    <2>3. CASE y < x
      <3>1. x \in (y + 1)..i
        BY <1>2, <2>1, <2>3
      <3> QED
        BY <2>1, <3>1 DEF Kept
    <2> QED
      BY <1>2, <2>1, <2>2, <2>3
  <1>7. \A g \in base : g.expires > now => \A j \in K : g.user # UserOf[ps[j]]
    BY <1>3 DEF Deal
  <1>8. OneEach(base, now)
    BY <1>2, FewerGrants
  <1> HIDE DEF G, K
  <1>9. OneEach(G, now)
    <2> SUFFICES ASSUME NEW g \in G, NEW h \in G, g.expires > now, h.expires > now, g.user = h.user
                 PROVE  g = h
      BY DEF OneEach
    <2>1. CASE g \in base /\ h \in base
      BY <1>8, <2>1 DEF OneEach
    <2>2. CASE g \notin base \/ h \notin base
      <3>1. /\ g \in base \/ \E j \in K : g = Turn(p, ps, ks, to, j)
            /\ h \in base \/ \E j \in K : h = Turn(p, ps, ks, to, j)
        BY <1>1
      <3> QED
        BY <1>4, <1>6, <1>7, <2>2, <3>1
    <2> QED
      BY <2>1, <2>2
  <1>10. G \in SUBSET Grant /\ \A g \in G : g.child \in sets[p].children /\ g.expires <= sets[p].expires
    BY <1>1, <1>4, <1>5
  <1> QED
    BY <1>1, <1>9, <1>10 DEF G, K

\* Whoever gets a place gets one that was free of members and of the others'
\* promises.
LEMMA BalancedFacts ==
  ASSUME NEW base, NEW p, NEW ps, NEW ks, NEW to, Balanced(base, p, ps, ks, to),
         NEW j \in DOMAIN ps, to[j] # 0
  PROVE  LET others == {g \in Dealt(base, p, ps, ks, to, j - 1) : g.user # UserOf[ps[j]]}
         IN Waiting(others, ks[to[j]]) + Cardinality(rooms[ks[to[j]]].peers) < ChildCapacity
  BY DEF Balanced

LEMMA AssignBalancedKeeps == ASSUME IInv, NEW c \in Conns, AssignBalanced(c) PROVE IInv'
  <1> DEFINE p == conn[c].room
             E == {d \in rooms[p].peers \ {c} : ~Machine(d)}
             base == {g \in sets[p].grants : ~(g.expires > now /\ \E d \in E : UserOf[d] = g.user)}
  <1>1. PICK ps \in SetToSeqs(E), ks \in SetToSeqs(sets[p].children) :
          \E to \in [DOMAIN ps -> 0..Len(ks)] :
            /\ Balanced(base, p, ps, ks, to)
            /\ sets' = [sets EXCEPT ![p].grants = Dealt(base, p, ps, ks, to, Len(ps))]
    BY DEF AssignBalanced
  <1>2. PICK to \in [DOMAIN ps -> 0..Len(ks)] :
          /\ Balanced(base, p, ps, ks, to)
          /\ sets' = [sets EXCEPT ![p].grants = Dealt(base, p, ps, ks, to, Len(ps))]
    BY <1>1
  <1>3. /\ p \in PlainRooms /\ sets[p].expires > now
        /\ UNCHANGED <<now, conn, ice, rooms, retired, timers, dir, plan>>
    BY DEF AssignBalanced, InParent
  <1>4. E \subseteq Conns /\ IsFiniteSet(E) /\ IsFiniteSet(sets[p].children)
    <2>1. E \subseteq Conns
      BY <1>3, Typed DEF Room
    <2>2. sets[p].children \subseteq ChildRooms
      BY <1>3, SetFacts
    <2> QED
      BY <2>1, <2>2, PeersFinite, RoomAssumption, FS_Subset
  <1>5. /\ Len(ps) \in Nat /\ DOMAIN ps = 1..Len(ps) /\ \A i \in 1..Len(ps) : ps[i] \in E
        /\ Len(ks) \in Nat /\ \A n \in 1..Len(ks) : ks[n] \in sets[p].children
    <2> HIDE DEF E
    <2> QED
      BY <1>1, <1>4, OrderFacts
  <1>6. base \subseteq sets[p].grants /\ \A g \in base : g.expires > now => \A d \in E : g.user # UserOf[d]
    OBVIOUS
  <1> HIDE DEF E, base, p
  <1>7. Deal(p, base, ps, ks, to)
    BY <1>2, <1>3, <1>4, <1>5, <1>6 DEF Deal
  <1> DEFINE N == Len(ps)
             G == Dealt(base, p, ps, ks, to, N)
  <1>8. /\ G = base \cup {Turn(p, ps, ks, to, j) : j \in Kept(ps, to, N)}
        /\ G \in SUBSET Grant /\ OneEach(G, now)
        /\ \A g \in G : g.child \in sets[p].children /\ g.expires <= sets[p].expires
    <2>1. N \in 0..Len(ps)
      BY <1>5
    <2> QED
      BY <1>7, <2>1, DealtFacts
  <1> HIDE DEF G
  <1>9. ASSUME NEW k \in sets[p].children
        PROVE  Cardinality(LiveFor(G, k, now)) + Cardinality(rooms[k].peers) <= ChildCapacity
    <2> DEFINE J == {j \in 1..N : to[j] # 0 /\ ks[to[j]] = k}
    <2>1. \A j \in Kept(ps, to, N) : j \in 1..N /\ to[j] # 0
      BY DEF Kept
    <2>2. \A j \in Kept(ps, to, N) :
            Turn(p, ps, ks, to, j).child = ks[to[j]] /\ Turn(p, ps, ks, to, j).user = UserOf[ps[j]]
      BY <1>7, <2>1, TurnFacts
    <2>3. /\ IsFiniteSet(rooms[k].peers) /\ Cardinality(rooms[k].peers) \in Nat
          /\ IsFiniteSet(LiveFor(sets[p].grants, k, now))
          /\ Cardinality(LiveFor(sets[p].grants, k, now)) + Cardinality(rooms[k].peers) <= ChildCapacity
      BY <1>3, <1>9, SetFacts
    <2>4. CASE J = {}
      <3>1. LiveFor(G, k, now) \subseteq LiveFor(sets[p].grants, k, now)
        BY <1>6, <1>8, <2>1, <2>2, <2>4 DEF LiveFor
      <3> QED
        BY <2>3, <3>1, FewerSeats
    <2>5. CASE J # {}
      <3>1. PICK j \in J : \A m \in J : m <= j
        BY <1>5, <2>5, GreatestIndex
      <3>2. j \in 1..N /\ to[j] # 0 /\ ks[to[j]] = k /\ j \in DOMAIN ps
        BY <1>5, <3>1
      <3> DEFINE H == Dealt(base, p, ps, ks, to, j - 1)
                 others == {g \in H : g.user # UserOf[ps[j]]}
                 S == LiveFor(others, k, now)
                 new == Turn(p, ps, ks, to, j)
      <3>3. /\ H = base \cup {Turn(p, ps, ks, to, x) : x \in Kept(ps, to, j - 1)}
            /\ H \in SUBSET Grant /\ OneEach(H, now)
        <4>1. j - 1 \in 0..Len(ps)
          BY <1>5, <3>2
        <4> QED
          BY <1>7, <4>1, DealtFacts
      <3>4. Waiting(others, k) + Cardinality(rooms[k].peers) < ChildCapacity
        BY <1>2, <3>2, BalancedFacts
      <3>5. Waiting(others, k) = Cardinality(S)
        BY DEF Waiting, LiveFor
      <3> HIDE DEF H
      <3>6. others \in SUBSET Grant /\ OneEach(others, now)
        BY <3>3 DEF OneEach
      <3>7. IsFiniteSet(S) /\ Cardinality(S) \in Nat
        <4> HIDE DEF others
        <4> QED
          BY <3>6, LiveFinite
      <3>8. LiveFor(G, k, now) \subseteq S \cup {new}
        <4> SUFFICES ASSUME NEW g \in LiveFor(G, k, now), g # new PROVE g \in S
          OBVIOUS
        <4>1. g \in G /\ g.child = k /\ g.expires > now
          BY DEF LiveFor
        <4>2. CASE g \in base
          <5>1. g.user # UserOf[ps[j]]
            BY <1>5, <1>6, <3>2, <4>1, <4>2
          <5> QED
            BY <3>3, <4>1, <4>2, <5>1 DEF LiveFor
        <4>3. CASE g \notin base
          <5>1. PICK x \in Kept(ps, to, N) : g = Turn(p, ps, ks, to, x)
            BY <1>8, <4>1, <4>3
          <5>2. x \in 1..N /\ to[x] # 0 /\ ks[to[x]] = k /\ g.user = UserOf[ps[x]]
            BY <2>1, <2>2, <4>1, <5>1
          <5>3. x <= j /\ x # j
            BY <3>1, <5>1, <5>2
          <5>4. x \in 1..(j - 1) /\ j \in (x + 1)..N /\ \A y \in (x + 1)..(j - 1) : y \in (x + 1)..N
            BY <1>5, <3>2, <5>2, <5>3
          <5>5. x \in Kept(ps, to, j - 1)
            BY <5>1, <5>2, <5>4 DEF Kept
          <5>6. UserOf[ps[j]] # UserOf[ps[x]]
            BY <3>2, <5>1, <5>4 DEF Kept
          <5>7. g \in H
            BY <3>3, <5>1, <5>5
          <5> QED
            BY <4>1, <5>2, <5>6, <5>7 DEF LiveFor
        <4> QED
          BY <4>2, <4>3
      <3> HIDE DEF S, new
      <3>9. IsFiniteSet(S \cup {new}) /\ Cardinality(S \cup {new}) = IF new \in S THEN Cardinality(S) ELSE Cardinality(S) + 1
        BY <3>7, FS_AddElement
      <3>10. Cardinality(S \cup {new}) + Cardinality(rooms[k].peers) <= ChildCapacity
        <4>1. Cardinality(S) + Cardinality(rooms[k].peers) < ChildCapacity /\ ChildCapacity \in Nat
          BY <3>4, <3>5, CapacityAssumption
        <4> QED
          BY <2>3, <3>7, <3>9, <4>1
      <3> QED
        BY <2>3, <3>8, <3>9, <3>10, FewerSeats
    <2> QED
      BY <2>4, <2>5
  <1>10. sets' = [sets EXCEPT ![p].grants = G]
    BY <1>2 DEF G, p
  <1> QED
    BY <1>3, <1>8, <1>9, <1>10, OneSetKeeps

-----------------------------------------------------------------------------
(***************************************************************************)
(* The theorems                                                            *)
(***************************************************************************)
LEMMA NextKeeps == ASSUME IInv, [Next]_vars PROVE IInv'
  <1>1. CASE Tick \/ Prune \/ Restart
    BY <1>1, TickKeeps, PruneKeeps, RestartKeeps
  <1>2. ASSUME NEW r \in RoomIds, RemoveTimer(r) PROVE IInv'
    BY <1>2, RemoveTimerKeeps
  <1>3. ASSUME NEW u \in Users, NEW r \in PlainRooms, CreateEntry(u, r) PROVE IInv'
    BY <1>3, CreateEntryKeeps
  <1>4. ASSUME NEW c \in Conns, NEW r \in RoomIds, NEW m \in {"room", "pair"}, IssueSession(c, r, m)
        PROVE  IInv'
    BY <1>4, IssueSessionKeeps
  <1>5. ASSUME NEW c \in Conns,
               \/ Connect(c) \/ BurnTicket(c) \/ Leave(c) \/ SocketCloses(c) \/ RedeemDead(c)
        PROVE  IInv'
    BY <1>5, ConnectKeeps, BurnTicketKeeps, LeaveKeeps, SocketClosesKeeps, RedeemDeadKeeps
  <1>6. ASSUME NEW c \in Conns, NEW kids \in SUBSET ChildRooms, OpenSet(c, kids) PROVE IInv'
    BY <1>6, OpenSetKeeps
  <1>7. ASSUME NEW c \in Conns, NEW d \in Conns, NEW k \in ChildRooms, Assign(c, d, k) \/ Choose(c, k)
        PROVE  IInv'
    BY <1>7, AssignKeeps, ChooseKeeps
  <1>8. ASSUME NEW c \in Conns, AssignBalanced(c) PROVE IInv'
    BY <1>8, AssignBalancedKeeps
  <1>9. ASSUME NEW c \in Conns, NEW p \in PlainRooms, NEW g \in sets[p].grants, RevokeGrant(c, g)
        PROVE  IInv'
    BY <1>9, RevokeGrantKeeps
  <1>10. ASSUME NEW c \in Conns, SetHand(c) \/ CancelRemove(c) PROVE IInv'
    BY <1>10, SetHandKeeps, CancelRemoveKeeps
  <1>11. ASSUME NEW c \in Conns, NEW d \in Conns,
                ClearHand(c, d) \/ AuthorizeRemove(c, d) \/ AssignPresenter(c, d)
         PROVE  IInv'
    BY <1>11, ClearHandKeeps, AuthorizeRemoveKeeps, AssignPresenterKeeps
  <1>12. ASSUME NEW c \in Conns, NEW p \in Policies, NEW board \in BOOLEAN, SetPolicy(c, p, board)
         PROVE  IInv'
    BY <1>12, SetPolicyKeeps
  <1>13. CASE UNCHANGED vars
    <2>1. TypeOK'
      BY <1>13 DEF IInv, TypeOK, vars
    <2>2. Seated' /\ Placed' /\ DisjointSets' /\ Breakouts'
      BY <1>13 DEF IInv, Seated, Placed, DisjointSets, Breakouts, Machine, vars
    <2>3. Refreshable'
      BY <1>13 DEF IInv, Refreshable, Live, Member, vars
    <2>4. Seats' /\ OneRoomPerFamily' /\ RemovalIsDriven'
      BY <1>13 DEF IInv, Seats, OneRoomPerFamily, RemovalIsDriven, vars
    <2> QED
      BY <2>1, <2>2, <2>3, <2>4 DEF IInv
  <1> QED
    BY <1>1, <1>2, <1>3, <1>4, <1>5, <1>6, <1>7, <1>8, <1>9, <1>10, <1>11, <1>12, <1>13 DEF Next

\* IInv holds in every reachable state: rooms, tickets, grants and sets stay
\* consistent through every interleaving of joins, departures, removals,
\* heartbeats and restarts.
THEOREM RoomsInvariant == Spec => []IInv
  <1>1. Init => IInv
    BY InitEstablishes
  <1>2. IInv /\ [Next]_vars => IInv'
    BY NextKeeps
  <1> QED
    BY <1>1, <1>2, PTL DEF Spec

\* The state has its types; hands are raised by members only, and a room
\* without members is not kept (RoomRegistry.leave).
THEOREM RoomsTypes == Spec => []TypeOK
  <1>1. IInv => TypeOK
    BY DEF IInv
  <1> QED
    BY <1>1, RoomsInvariant, PTL

\* While a member's socket is open, its refresh grant is bound: the prune of
\* the heartbeat never takes it.
THEOREM CredentialsRefresh == Spec => []MembersCanRefresh
  <1>1. IInv => MembersCanRefresh
    BY DEF IInv, Refreshable, MembersCanRefresh
  <1> QED
    BY <1>1, RoomsInvariant, PTL

\* A pending removal has its actor and its target in the room and its timer
\* running, whoever leaves and whatever is undone.
THEOREM RemovalsAreDriven == Spec => []RemovalIsDriven
  <1>1. IInv => RemovalIsDriven
    BY DEF IInv
  <1> QED
    BY <1>1, RoomsInvariant, PTL

\* A user on one device is in one room of a breakout family at most.
THEOREM OneRoomEach == Spec => []OneRoomPerFamily
  <1>1. IInv => OneRoomPerFamily
    BY DEF IInv
  <1> QED
    BY <1>1, RoomsInvariant, PTL

\* A breakout room has members only while its set is open, and all of them
\* were admitted to that set.
THEOREM BreakoutsEnd == Spec => []BreakoutsEndWithTheirSet
  <1>1. ASSUME IInv PROVE BreakoutsEndWithTheirSet
    <2> SUFFICES ASSUME NEW r \in RoomIds
                 PROVE  /\ rooms[r].kind = "breakout" => Reserved(r)
                        /\ Reserved(r) => \A c \in rooms[r].peers : conn[c].set = sets[ParentOf(r)].children
      BY DEF BreakoutsEndWithTheirSet
    <2>1. rooms[r].kind = "breakout" => Reserved(r)
      BY <1>1 DEF IInv, Breakouts, Reserved
    <2>2. ASSUME Reserved(r) PROVE \A c \in rooms[r].peers : conn[c].set = sets[ParentOf(r)].children
      BY <1>1, <2>2, ParentFacts DEF IInv, Breakouts
    <2> QED
      BY <2>1, <2>2
  <1> QED
    BY <1>1, RoomsInvariant, PTL

\* Whoever holds a breakout grant passes the checks that follow its
\* consumption: mode, machine clients and capacity never refuse the join.
THEOREM GrantsAreNotWasted == Spec => []GrantedEntryFits
  <1>1. ASSUME IInv PROVE GrantedEntryFits
    <2> SUFFICES ASSUME NEW c \in Conns, conn[c].st = "ticket", Reserved(conn[c].room), MayEnter(c)
                 PROVE  Fits(c)
      BY DEF GrantedEntryFits
    <2> DEFINE t == conn[c]
               r == t.room
               p == ParentOf(r)
               room == rooms[r]
    <2>1. /\ p \in PlainRooms /\ r \in sets[p].children /\ r \in RoomIds /\ room.peers \subseteq Conns
      BY <1>1, ParentFacts, SetFacts, Place
    <2>2. t.mode = "room" /\ t.set = sets[p].children
      BY DEF MayEnter
    <2>3. \A d \in room.peers : conn[d].set = sets[p].children
      BY <1>1, <2>1 DEF IInv, Breakouts
    <2>4. ~Machine(c) /\ \A d \in room.peers : ~Machine(d)
      <3>1. sets[p].children # {}
        BY <2>1
      <3> QED
        BY <1>1, <2>1, <2>2, <2>3, <3>1 DEF IInv, Placed
    <2>5. room # Vacant => room.mode = "room" /\ room.kind = "breakout"
      BY <1>1, <2>1 DEF IInv, Breakouts
    <2>6. Cardinality(room.peers) < Capacity(r, t.mode)
      <3> DEFINE S == LiveFor(sets[p].grants, r, now)
      <3>1. PICK g \in LiveGrants(p) : g.child = r
        BY DEF MayEnter, HasLiveGrant
      <3>2. g \in S
        BY <3>1 DEF LiveGrants, LiveFor
      <3>3. /\ IsFiniteSet(S) /\ Cardinality(S) \in Nat /\ Cardinality(room.peers) \in Nat
            /\ Cardinality(S) + Cardinality(room.peers) <= ChildCapacity
        BY <1>1, <2>1, SetFacts
      <3>4. Capacity(r, t.mode) = ChildCapacity /\ ChildCapacity \in Nat
        BY CapacityAssumption DEF Capacity
      <3> HIDE DEF S, room
      <3>5. Cardinality(S) # 0
        BY <3>2, <3>3, FS_EmptySet
      <3> QED
        BY <3>3, <3>4, <3>5
    <2> QED
      BY <2>2, <2>4, <2>5, <2>6 DEF Fits, Machine
  <1> QED
    BY <1>1, RoomsInvariant, PTL
=============================================================================
