------------------------------- MODULE Rooms -------------------------------
(***************************************************************************)
(* Rooms as the server keeps them: one-time session tickets                *)
(* (session-tickets.js), grants to refresh TURN credentials                *)
(* (ice-refresh-grants.js), the room registry (room-registry.js) with      *)
(* breakout sets (breakout-set.js) and moderation (room-moderation.js),    *)
(* the room directory (room-directory.js), and the handlers of server.js   *)
(* that drive them.                                                        *)
(*                                                                         *)
(* A connection is one session: a ticket, the socket opened with it, and   *)
(* the peer it becomes.  A user is a principal on one device.  Child room  *)
(* ids are random, so a child id is never used for a second set, and the   *)
(* set of children identifies the set.  Rate limits only refuse requests   *)
(* and are left out, as is the moderation audit, which nothing reads.      *)
(***************************************************************************)
EXTENDS Integers, FiniteSets, SequencesExt

CONSTANTS
  Conns,          \* connections, a bound on concurrent sessions
  UserOf,         \* the user of each connection
  Machines,       \* users admitted through the machine endpoint
  Legacy,         \* users whose client lacks machineReceiveVersion 1
  PlainRooms,     \* room ids chosen by people or by the directory
  ChildRooms,     \* the pool of random ids for breakout rooms
  MaxParticipants, ChildCapacity, MaxEntriesPerOwner,
  TicketTtl, BindTtl, SetTtl, GrantTtl, UndoTime, IdleTtl,
  MaxTime,        \* bound on the clock
  Plans,          \* who connects and what is attempted, one choice per behaviour
  None

Users == {UserOf[c] : c \in Conns}
RoomIds == PlainRooms \cup ChildRooms
Policies == {"open", "presenter-only"}
Features == {"breakout", "remove", "hand", "policy", "pair", "directory", "close"}

ASSUME ConnAssumption ==
  /\ IsFiniteSet(Conns) /\ UserOf \in [Conns -> Users] /\ None \notin Conns
  /\ Machines \cap Legacy = {}
\* A random id is not one that people or the directory chose.
ASSUME RoomAssumption ==
  /\ PlainRooms \cap ChildRooms = {} /\ None \notin RoomIds
  /\ IsFiniteSet(ChildRooms)
ASSUME CapacityAssumption == MaxParticipants \in Nat \ {0, 1} /\ ChildCapacity \in Nat \ {0, 1}
ASSUME TimeAssumption ==
  /\ {TicketTtl, BindTtl, SetTtl, GrantTtl, UndoTime, IdleTtl, MaxTime} \subseteq Nat \ {0}
  /\ TicketTtl <= BindTtl
ASSUME PlanAssumption == \A p \in Plans : 
  p.conns \subseteq Conns /\ p.kids \subseteq ChildRooms /\ p.may \subseteq Features

VARIABLES
  now,      \* the wall clock
  conn,     \* per connection: its ticket or its socket
  ice,      \* per connection: its grant to refresh TURN credentials
  rooms,    \* RoomRegistry.#rooms
  sets,     \* BreakoutRegistry.#sets, by parent room
  retired,  \* child ids used so far
  timers,   \* pendingRemoveTimers of server.js, by room: when they fire
  dir,      \* RoomDirectory.#entries and its store (write-through)
  plan

vars == <<now, conn, ice, rooms, sets, retired, timers, dir, plan>>

NoConn == [st |-> "none", room |-> None, mode |-> "room", set |-> {}, expires |-> 0, sock |-> "open"]
NoIce == [st |-> "none", bindBy |-> 0]
NoRemove == [target |-> None, actor |-> None, expires |-> 0]
Vacant == [mode |-> "none", kind |-> "room", creator |-> None, peers |-> {}, presenter |-> None,
           pending |-> NoRemove, hands |-> {}, board |-> "open", diagram |-> "open"]
NoSet == [children |-> {}, expires |-> 0, grants |-> {}]
NoEntry == [owner |-> None, updated |-> 0]

Connection == [st : {"none", "ticket", "open"}, room : RoomIds \cup {None}, mode : {"room", "pair"},
               set : SUBSET ChildRooms, expires : Nat, sock : {"open", "closing"}]
IceGrant == [st : {"none", "unbound", "bound"}, bindBy : Nat]
Removal == [target : Conns \cup {None}, actor : Conns \cup {None}, expires : Nat]
Room == [mode : {"none", "room", "pair"}, kind : {"room", "breakout"}, creator : Users \cup {None},
         peers : SUBSET Conns, presenter : Conns \cup {None}, pending : Removal,
         hands : SUBSET Conns, board : Policies, diagram : Policies]
Grant == [child : ChildRooms, user : Users, expires : Nat]
BreakoutSet == [children : SUBSET ChildRooms, expires : Nat, grants : SUBSET Grant]
Entry == [owner : Users \cup {None}, updated : Nat]

-----------------------------------------------------------------------------
(* Lookups *)

Machine(c) == UserOf[c] \in Machines

\* peerRole
IsOwner(c, room) == UserOf[c] = room.creator

\* BreakoutRegistry.parentOf and reserved
Reserved(r) == \E p \in PlainRooms : r \in sets[p].children
ParentOf(r) == CHOOSE p \in PlainRooms : r \in sets[p].children

Capacity(r, mode) ==
  IF Reserved(r) THEN ChildCapacity ELSE IF mode = "pair" THEN 2 ELSE MaxParticipants

\* liveGrant: grants that are consumed or over are ignored everywhere and not kept here
LiveGrants(p) == {g \in sets[p].grants : g.expires > now}

\* hasLiveGrant
HasLiveGrant(r, u) == Reserved(r) /\ \E g \in LiveGrants(ParentOf(r)) : g.child = r /\ g.user = u

Waiting(gs, r) == Cardinality({g \in gs : g.child = r /\ g.expires > now})

\* Faulty: the family is the parent and the room itself, without the other children.
FaultyFamily(r) == IF Reserved(r) THEN {ParentOf(r), r} ELSE {r}

\* The rooms in which a user may be in one at most: #breakoutFamily
Family(r) ==
  IF Reserved(r) THEN {ParentOf(r)} \cup sets[ParentOf(r)].children
  ELSE IF r \in PlainRooms /\ sets[r].children # {} THEN {r} \cup sets[r].children
  ELSE {r}

\* #assertSingleMembership
AloneInFamily(u, r) ==
  \A q \in Family(r) \ {r} : \A d \in rooms[q].peers : UserOf[d] # u

Member(c) == conn[c].st = "open" /\ c \in rooms[conn[c].room].peers

\* the liveness closure given to IceRefreshGrantStore.bind
Live(c) == Member(c) /\ conn[c].sock = "open"

Registered(r) == r \in PlainRooms /\ dir[r] # NoEntry

May(f) == f \in plan.may

-----------------------------------------------------------------------------
TypeOK ==
  /\ now \in 0..MaxTime
  /\ conn \in [Conns -> Connection]
  /\ ice \in [Conns -> IceGrant]
  /\ rooms \in [RoomIds -> Room]
  /\ \A r \in RoomIds :
       /\ (rooms[r].mode = "none") <=> (rooms[r] = Vacant)
       /\ rooms[r].hands \subseteq rooms[r].peers
       /\ (rooms[r].peers = {}) => (rooms[r] = Vacant)
  /\ sets \in [PlainRooms -> BreakoutSet]
  /\ \A p \in PlainRooms :
       /\ sets[p].children \subseteq retired
       /\ \A g \in sets[p].grants : g.child \in sets[p].children /\ g.expires <= sets[p].expires
  /\ retired \subseteq ChildRooms
  /\ timers \in [RoomIds -> Nat]
  /\ dir \in [PlainRooms -> Entry]
  /\ plan \in Plans

Init ==
  /\ now = 0
  /\ conn = [c \in Conns |-> NoConn]
  /\ ice = [c \in Conns |-> NoIce]
  /\ rooms = [r \in RoomIds |-> Vacant]
  /\ sets = [p \in PlainRooms |-> NoSet]
  /\ retired = {}
  /\ timers = [r \in RoomIds |-> 0]
  /\ dir = [p \in PlainRooms |-> NoEntry]
  /\ plan \in Plans

-----------------------------------------------------------------------------
(* Admission *)

\* POST /api/sessions and /api/machine/sessions: a ticket, and a refresh grant that
\* waits for the ticket's socket.
IssueSession(c, r, m) ==
  /\ c \in plan.conns /\ conn[c] = NoConn /\ ice[c] = NoIce
  /\ m = "pair" => May("pair")
  /\ r \in PlainRooms \cup retired     \* nobody knows a child id before its set is open
  /\ Reserved(r) => m = "room" /\ ~Machine(c) /\ HasLiveGrant(r, UserOf[c])
  /\ conn' = [conn EXCEPT ![c] =
       [st |-> "ticket", room |-> r, mode |-> m,
        set |-> IF Reserved(r) THEN sets[ParentOf(r)].children ELSE {},
        expires |-> now + TicketTtl, sock |-> "open"]]
  /\ ice' = [ice EXCEPT ![c] = [st |-> "unbound", bindBy |-> now + BindTtl]]
  /\ UNCHANGED <<now, rooms, sets, retired, timers, dir, plan>>

\* The grants left when c's ticket for a reserved room is consumed
Consumed(c) ==
  LET p == ParentOf(conn[c].room) IN
  [sets EXCEPT ![p].grants = {g \in @ : ~(g.expires > now /\ g.child = conn[c].room
                                          /\ g.user = UserOf[c])}]

\* The first part of RoomRegistry.join: up to and including the consumption of the grant
MayEnter(c) ==
  LET t == conn[c] IN
  IF Reserved(t.room)
  THEN /\ t.mode = "room"
       /\ AloneInFamily(UserOf[c], t.room)
       /\ t.set = sets[ParentOf(t.room)].children
       /\ sets[ParentOf(t.room)].expires > now
       /\ HasLiveGrant(t.room, UserOf[c])
  ELSE /\ t.set = {}
       /\ AloneInFamily(UserOf[c], t.room)

\* The second part: mode, machine clients and capacity
Fits(c) ==
  LET t == conn[c]
      room == rooms[t.room]
  IN  /\ ~(t.mode = "pair" /\ Machine(c))
      /\ room # Vacant =>
           /\ room.mode = t.mode
           /\ room.kind = "breakout" <=> Reserved(t.room)
           /\ Machine(c) => \A d \in room.peers : UserOf[d] \notin Legacy
           /\ UserOf[c] \in Legacy => \A d \in room.peers : ~Machine(d)
           /\ t.mode = "pair" => \A d \in room.peers : UserOf[d] # UserOf[c]
           /\ Cardinality(room.peers) < Capacity(t.room, t.mode)

\* The room once c is in it
Entered(c) ==
  LET t == conn[c]
      old == rooms[t.room]
      fresh == [Vacant EXCEPT
        !.mode = t.mode,
        !.kind = IF Reserved(t.room) THEN "breakout" ELSE "room",
        !.creator = IF Reserved(t.room) THEN rooms[ParentOf(t.room)].creator
                    ELSE IF Registered(t.room) THEN dir[t.room].owner ELSE UserOf[c]]
      room == IF old = Vacant THEN fresh ELSE old
  IN  [room EXCEPT
        !.peers = @ \cup {c},
        !.presenter = IF @ = None /\ ~Machine(c) /\ IsOwner(c, room) THEN c ELSE @]

\* RoomDirectory.touch
Touched(r) ==
  IF Registered(r) THEN [dir EXCEPT ![r].updated = now] ELSE dir

\* The upgrade handler consumes the ticket, the connection handler joins.  An entry made
\* for this join has no peers and the join's own mode and capacity, so it is not refused.
Connect(c) ==
  /\ conn[c].st = "ticket" /\ conn[c].expires >= now
  /\ sets' = IF MayEnter(c) /\ Reserved(conn[c].room) THEN Consumed(c) ELSE sets
  /\ IF MayEnter(c) /\ Fits(c)
     THEN /\ rooms' = [rooms EXCEPT ![conn[c].room] = Entered(c)]
          /\ conn' = [conn EXCEPT ![c].st = "open", ![c].expires = 0]
          /\ ice' = [ice EXCEPT ![c] = IF @.st = "unbound" THEN [st |-> "bound", bindBy |-> 0] ELSE @]
          /\ dir' = Touched(conn[c].room)
     ELSE /\ conn' = [conn EXCEPT ![c] = NoConn]
          /\ UNCHANGED <<rooms, ice, dir>>
  /\ UNCHANGED <<now, retired, timers, plan>>

\* SessionTicketStore.consume of a ticket that is too old or comes from another origin
BurnTicket(c) ==
  /\ conn[c].st = "ticket"
  /\ conn' = [conn EXCEPT ![c] = NoConn]
  /\ UNCHANGED <<now, ice, rooms, sets, retired, timers, dir, plan>>

-----------------------------------------------------------------------------
(* Leaving *)

\* Faulty: a removal outlives the owner who asked for it.
FaultyWithoutPending(room, c) == IF c = room.pending.target THEN NoRemove ELSE room.pending

\* clearPendingRemove
WithoutPending(room, c) ==
  IF c \in {room.pending.target, room.pending.actor} THEN NoRemove ELSE room.pending

\* fallbackPresenter: the first owner in the order of joining; any order is allowed here
Fallback(room) ==
  IF room.presenter \in room.peers /\ ~Machine(room.presenter) THEN {room.presenter}
  ELSE LET owners == {d \in room.peers : IsOwner(d, room) /\ ~Machine(d)}
       IN  IF owners = {} THEN {None} ELSE owners

\* RoomRegistry.leave
Left(c) ==
  LET room == rooms[conn[c].room]
      rest == [room EXCEPT !.peers = @ \ {c}, !.hands = @ \ {c}, !.pending = WithoutPending(room, c)]
  IN  IF rest.peers = {} THEN {Vacant}
      ELSE {[rest EXCEPT !.presenter = d] : d \in Fallback(rest)}

\* leave() of the connection handler: the message "leave", or the socket's close or error.
\* An evicted peer is in no room any more, and leaving changes none.
Leave(c) ==
  /\ conn[c].st = "open"
  /\ \E room \in IF Member(c) THEN Left(c) ELSE {rooms[conn[c].room]} :
       /\ rooms' = [rooms EXCEPT ![conn[c].room] = room]
       /\ timers' = IF room.pending = NoRemove THEN [timers EXCEPT ![conn[c].room] = 0] ELSE timers
  /\ ice' = [ice EXCEPT ![c] = NoIce]
  /\ conn' = [conn EXCEPT ![c] = NoConn]
  /\ dir' = Touched(conn[c].room)
  /\ UNCHANGED <<now, sets, retired, plan>>

\* The socket begins to close for another reason; its close event comes later.
SocketCloses(c) ==
  /\ May("close") /\ conn[c].st = "open" /\ conn[c].sock = "open"
  /\ conn' = [conn EXCEPT ![c].sock = "closing"]
  /\ UNCHANGED <<now, ice, rooms, sets, retired, timers, dir, plan>>

\* IceRefreshGrantStore.redeem by a connection that is no longer live deletes the grant.
RedeemDead(c) ==
  /\ ice[c].st = "bound" /\ ~Live(c)
  /\ ice' = [ice EXCEPT ![c] = NoIce]
  /\ UNCHANGED <<now, conn, rooms, sets, retired, timers, dir, plan>>

-----------------------------------------------------------------------------
(* Breakout sets *)

\* openSet, called through RoomRegistry.openBreakouts
OpenSet(c, kids) ==
  LET r == conn[c].room IN
  /\ May("breakout") /\ Member(c) /\ kids # {} /\ kids \subseteq plan.kids \ retired
  /\ rooms[r].mode = "room" /\ rooms[r].kind = "room" /\ IsOwner(c, rooms[r])
  /\ r \in PlainRooms /\ sets[r] = NoSet
  /\ sets' = [sets EXCEPT ![r] = [children |-> kids, expires |-> now + SetTtl, grants |-> {}]]
  /\ retired' = retired \cup kids
  /\ UNCHANGED <<now, conn, ice, rooms, timers, dir, plan>>

GrantExpiry(p) == IF now + GrantTtl < sets[p].expires THEN now + GrantTtl ELSE sets[p].expires

\* Faulty: places promised by other grants are not counted.
FaultyAssigned(gs, p, u, k) ==
  IF Cardinality(rooms[k].peers) >= ChildCapacity THEN gs
  ELSE {g \in gs : g.user # u} \cup {[child |-> k, user |-> u, expires |-> GrantExpiry(p)]}

\* The grants after assigning user u to child k: an earlier live grant of the user goes
\* first, also when the child then turns out to be full.
Assigned(gs, p, u, k) ==
  LET rest == {g \in gs : ~(g.user = u /\ g.expires > now)} IN
  IF Waiting(rest, k) + Cardinality(rooms[k].peers) >= ChildCapacity THEN rest
  ELSE rest \cup {[child |-> k, user |-> u, expires |-> GrantExpiry(p)]}

\* c is in the parent room of a set that still assigns places
InParent(c) ==
  LET r == conn[c].room IN
  May("breakout") /\ Member(c) /\ r \in PlainRooms /\ sets[r] # NoSet /\ sets[r].expires > now

\* assignBreakout, by the owner
Assign(c, d, k) ==
  LET r == conn[c].room IN
  /\ InParent(c) /\ IsOwner(c, rooms[r])
  /\ d \in rooms[r].peers /\ ~Machine(d)
  /\ k \in sets[r].children
  /\ sets' = [sets EXCEPT ![r].grants = Assigned(@, r, UserOf[d], k)]
  /\ UNCHANGED <<now, conn, ice, rooms, retired, timers, dir, plan>>

\* chooseBreakout: assignVoluntary by the member itself
Choose(c, k) ==
  LET r == conn[c].room IN
  /\ InParent(c) /\ ~Machine(c) /\ k \in sets[r].children
  /\ sets' = [sets EXCEPT ![r].grants = Assigned(@, r, UserOf[c], k)]
  /\ UNCHANGED <<now, conn, ice, rooms, retired, timers, dir, plan>>

\* assignBalanced: peers in the order ps, children in the order ks (random ids decide both).
\* to[i] is the place in ks of the child the i-th peer is assigned to, 0 for none.
\* The grants once the first i peers have had their turn: a user's last one counts.
Dealt(base, p, ps, ks, to, i) ==
  base \cup {[child |-> ks[to[j]], user |-> UserOf[ps[j]], expires |-> GrantExpiry(p)] :
               j \in {x \in 1..i : /\ to[x] # 0
                                  /\ \A y \in (x + 1)..i : to[y] # 0 => UserOf[ps[y]] # UserOf[ps[x]]}}

\* Each peer gets the next child with a free place, and the first who gets none ends it.
Balanced(base, p, ps, ks, to) ==
  \A i \in DOMAIN ps :
    LET n == Len(ks)
        next == IF i = 1 THEN 0 ELSE to[i - 1] % n
        At(attempt) == ((next + attempt) % n) + 1
        others == {g \in Dealt(base, p, ps, ks, to, i - 1) : g.user # UserOf[ps[i]]}
        free == {a \in 0..(n - 1) :
                   Waiting(others, ks[At(a)]) + Cardinality(rooms[ks[At(a)]].peers) < ChildCapacity}
    IN  IF free = {} \/ (i > 1 /\ to[i - 1] = 0) THEN to[i] = 0
        ELSE \E a \in free : (\A b \in free : a <= b) /\ to[i] = At(a)

AssignBalanced(c) ==
  LET r == conn[c].room IN
  /\ InParent(c) /\ IsOwner(c, rooms[r])
  /\ LET eligible == {d \in rooms[r].peers \ {c} : ~Machine(d)}
         base == {g \in sets[r].grants :
                    ~(g.expires > now /\ \E d \in eligible : UserOf[d] = g.user)}
     IN  \E ps \in SetToSeqs(eligible), ks \in SetToSeqs(sets[r].children) :
           \E to \in [DOMAIN ps -> 0..Len(ks)] :
             /\ Balanced(base, r, ps, ks, to)
             /\ sets' = [sets EXCEPT ![r].grants = Dealt(base, r, ps, ks, to, Len(ps))]
  /\ UNCHANGED <<now, conn, ice, rooms, retired, timers, dir, plan>>

RevokeGrant(c, g) ==
  LET r == conn[c].room IN
  /\ Member(c) /\ r \in PlainRooms /\ IsOwner(c, rooms[r])
  /\ g \in LiveGrants(r)
  /\ sets' = [sets EXCEPT ![r].grants = @ \ {g}]
  /\ UNCHANGED <<now, conn, ice, rooms, retired, timers, dir, plan>>

-----------------------------------------------------------------------------
(* Moderation *)

Moderated(c) == Member(c) /\ rooms[conn[c].room].mode # "pair" /\ ~Machine(c)

Rule(c, room) ==
  /\ rooms' = [rooms EXCEPT ![conn[c].room] = room]
  /\ UNCHANGED <<now, conn, ice, sets, retired, dir, plan>>

\* applyHand
SetHand(c) ==
  LET room == rooms[conn[c].room] IN
  /\ May("hand") /\ Moderated(c)
  /\ Rule(c, [room EXCEPT !.hands = IF c \in @ THEN @ \ {c} ELSE @ \cup {c}])
  /\ UNCHANGED timers

\* clearHand
ClearHand(c, d) ==
  LET room == rooms[conn[c].room] IN
  /\ Member(c) /\ IsOwner(c, room) /\ d \in room.hands
  /\ Rule(c, [room EXCEPT !.hands = @ \ {d}])
  /\ UNCHANGED timers

\* authorizeRemove and the timer the handler starts
AuthorizeRemove(c, d) ==
  LET room == rooms[conn[c].room] IN
  /\ May("remove") /\ Moderated(c) /\ IsOwner(c, room) /\ d # c /\ d \in room.peers
  /\ room.pending = NoRemove
  /\ Rule(c, [room EXCEPT !.pending = [target |-> d, actor |-> c, expires |-> now + UndoTime]])
  /\ timers' = [timers EXCEPT ![conn[c].room] = now + UndoTime]

\* cancelRemove
CancelRemove(c) ==
  LET room == rooms[conn[c].room] IN
  /\ Member(c) /\ IsOwner(c, room) /\ room.pending # NoRemove
  /\ Rule(c, [room EXCEPT !.pending = NoRemove])
  /\ timers' = [timers EXCEPT ![conn[c].room] = 0]

\* executeDueRemove: the target's socket is closed; it leaves when the close event comes
RemoveTimer(r) ==
  LET pending == rooms[r].pending
      due == pending # NoRemove /\ pending.expires <= now
  IN  /\ timers[r] # 0 /\ timers[r] <= now
      /\ timers' = [timers EXCEPT ![r] = 0]
      /\ rooms' = IF due THEN [rooms EXCEPT ![r].pending = NoRemove] ELSE rooms
      /\ conn' = IF due THEN [conn EXCEPT ![pending.target].sock = "closing"] ELSE conn
      /\ UNCHANGED <<now, ice, sets, retired, dir, plan>>

\* assignPresenter
AssignPresenter(c, d) ==
  LET room == rooms[conn[c].room] IN
  /\ May("policy") /\ Moderated(c) /\ IsOwner(c, room) /\ d \in room.peers /\ ~Machine(d)
  /\ Rule(c, [room EXCEPT !.presenter = d])
  /\ UNCHANGED timers

\* setWhiteboardPolicy and setDiagramPolicy
SetPolicy(c, p, board) ==
  LET room == rooms[conn[c].room] IN
  /\ May("policy") /\ Moderated(c)
  /\ IsOwner(c, room) \/ room.presenter = c
  /\ Rule(c, IF board THEN [room EXCEPT !.board = p] ELSE [room EXCEPT !.diagram = p])
  /\ UNCHANGED timers

-----------------------------------------------------------------------------
(* The directory, the heartbeat and restarts *)

\* RoomDirectory.create with a fresh id from the server
CreateEntry(u, r) ==
  /\ May("directory") /\ u \notin Machines /\ dir[r] = NoEntry
  /\ Cardinality({q \in PlainRooms : dir[q].owner = u}) < MaxEntriesPerOwner
  /\ rooms[r] = Vacant /\ \A c \in Conns : conn[c].room # r
  /\ dir' = [dir EXCEPT ![r] = [owner |-> u, updated |-> now]]
  /\ UNCHANGED <<now, conn, ice, rooms, sets, retired, timers, plan>>

DueSets == {p \in PlainRooms : sets[p] # NoSet /\ sets[p].expires <= now}

\* Faulty: the members of a closed set stay in their rooms.
FaultyEvicted == rooms

\* closeBreakouts for every set that is due: the peers are dropped, their sockets stay open
Evicted == [r \in RoomIds |-> IF \E p \in DueSets : r \in sets[p].children THEN Vacant ELSE rooms[r]]

\* RoomDirectory.prune
IdleEntries == {r \in PlainRooms : dir[r] # NoEntry /\ Evicted[r].peers = {} /\ now - dir[r].updated >= IdleTtl}

\* Faulty: a refresh grant is dropped at the end of its time, not after it.
FaultyStaleIce(c) == ice[c].st # "none" /\ ice[c].bindBy <= now /\ conn[c].st # "open"

\* IceRefreshGrantStore.prune, after the registry's
StaleIce(c) ==
  \/ ice[c].st = "bound" /\ ~(conn[c].st = "open" /\ conn[c].sock = "open" /\ c \in Evicted[conn[c].room].peers)
  \/ ice[c].st = "unbound" /\ ice[c].bindBy < now

\* The heartbeat of server.js
Prune ==
  /\ rooms' = Evicted
  /\ sets' = [p \in PlainRooms |-> IF p \in DueSets THEN NoSet ELSE sets[p]]
  /\ dir' = [r \in PlainRooms |-> IF r \in IdleEntries THEN NoEntry ELSE dir[r]]
  /\ conn' = [c \in Conns |-> IF conn[c].st = "ticket" /\ conn[c].expires < now THEN NoConn ELSE conn[c]]
  /\ ice' = [c \in Conns |-> IF StaleIce(c) THEN NoIce ELSE ice[c]]
  /\ UNCHANGED <<now, retired, timers, plan>>

\* The process ends and starts again: only the directory survives, and its idle clock restarts.
Restart ==
  /\ May("directory")
  /\ conn' = [c \in Conns |-> NoConn]
  /\ ice' = [c \in Conns |-> NoIce]
  /\ rooms' = [r \in RoomIds |-> Vacant]
  /\ sets' = [p \in PlainRooms |-> NoSet]
  /\ timers' = [r \in RoomIds |-> 0]
  /\ dir' = [r \in PlainRooms |-> IF dir[r] = NoEntry THEN NoEntry ELSE [dir[r] EXCEPT !.updated = now]]
  /\ UNCHANGED <<now, retired, plan>>

Tick ==
  /\ now < MaxTime
  /\ now' = now + 1
  /\ sets' = [p \in PlainRooms |-> [sets[p] EXCEPT !.grants = {g \in @ : g.expires > now'}]]
  /\ UNCHANGED <<conn, ice, rooms, retired, timers, dir, plan>>

Next ==
  \/ Tick \/ Prune \/ Restart
  \/ \E r \in RoomIds : RemoveTimer(r)
  \/ \E u \in Users, r \in PlainRooms : CreateEntry(u, r)
  \/ \E c \in Conns :
       \/ \E r \in RoomIds, m \in {"room", "pair"} : IssueSession(c, r, m)
       \/ Connect(c) \/ BurnTicket(c) \/ Leave(c) \/ SocketCloses(c) \/ RedeemDead(c)
       \/ \E kids \in SUBSET ChildRooms : OpenSet(c, kids)
       \/ \E d \in Conns, k \in ChildRooms : Assign(c, d, k)
       \/ \E k \in ChildRooms : Choose(c, k)
       \/ AssignBalanced(c)
       \/ \E p \in PlainRooms : \E g \in sets[p].grants : RevokeGrant(c, g)
       \/ SetHand(c) \/ CancelRemove(c)
       \/ \E d \in Conns : ClearHand(c, d) \/ AuthorizeRemove(c, d) \/ AssignPresenter(c, d)
       \/ \E p \in Policies, board \in BOOLEAN : SetPolicy(c, p, board)

Spec == Init /\ [][Next]_vars

-----------------------------------------------------------------------------
(* Properties *)

\* join consumes a breakout grant before it checks mode and capacity (room-registry.js:246):
\* whoever holds a grant passes those checks, so no grant is spent on a refusal.
GrantedEntryFits ==
  \A c \in Conns : conn[c].st = "ticket" /\ Reserved(conn[c].room) /\ MayEnter(c) => Fits(c)

\* A user on one device is in one room of a breakout family at most, although the rooms are
\* joined with tickets issued before the family existed.
OneRoomPerFamily ==
  \A p \in PlainRooms : \A q, r \in {p} \cup sets[p].children :
    \A c \in rooms[q].peers, d \in rooms[r].peers : UserOf[c] = UserOf[d] => q = r

\* A breakout room has members only while its set is open, and a member of a breakout room
\* never shares it with one that was admitted without a grant of that set.
BreakoutsEndWithTheirSet ==
  \A r \in RoomIds :
    /\ rooms[r].kind = "breakout" => Reserved(r)
    /\ Reserved(r) => \A c \in rooms[r].peers : conn[c].set = sets[ParentOf(r)].children

\* A pending removal can be undone or carried out: both its actor and its target are in the
\* room, and the timer that carries it out is running.
RemovalIsDriven ==
  \A r \in RoomIds : rooms[r].pending # NoRemove =>
    /\ {rooms[r].pending.target, rooms[r].pending.actor} \subseteq rooms[r].peers
    /\ timers[r] = rooms[r].pending.expires

\* While a member's socket is open its TURN credentials can be refreshed: no prune takes the
\* grant between the ticket's issue and the join.
MembersCanRefresh == \A c \in Conns : Live(c) => ice[c].st = "bound"

=============================================================================
