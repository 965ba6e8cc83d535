--------------------------- MODULE MeshKeysProofs ---------------------------
(***************************************************************************)
(* Proofs about MeshKeys: whatever the clients and the plan, members end   *)
(* up with each other's overlay keys, those that left hold none in use,    *)
(* and the shared key of the agent path is in use only while its receivers *)
(* hold it.                                                                *)
(***************************************************************************)
EXTENDS MeshKeys, FiniteSetTheorems, TLAPS

(* The inductive invariant *)

\* Received keys are few, so there is always an unused one
Few == \A c, d \in Clients : IsFiniteSet(cl[c].rcv[d])

\* A client outside the room: nothing is sent to it by the server and it does nothing.  What it knew of
\* the overlay keys stays.
Blank(p) ==
  /\ p.peers = {} /\ p.applied = {} /\ p.m = 0 /\ p.r = 0 /\ p.key = 0 /\ ~p.making /\ ~p.stable /\ ~p.routed
  /\ p.imports = None /\ p.out = [d \in Clients |-> NoOut] /\ p.agent = NoAgentKey
Absent == \A c \in Clients : ~Joined(c) =>
  inbox[c] = <<>> /\ outbox[c] = <<>> /\ Blank(cl[c]) /\ \A d \in Clients : link[c][d] = <<>>

\* Nobody knows a client that has never been in the room
Unknown(c, d) ==
  /\ c \notin cl[d].peers /\ c \notin cl[d].agent.acked
  /\ \A x \in ToSet(inbox[d]) :
       (x.kind \in {"peer-joined", "marker"} => x.from # c) /\ (x.kind = "welcome" => c \notin x.peers)
  /\ \A x \in ToSet(outbox[d]) : x.kind = "marker" => x.to # c
Known == \A c, d \in Clients : ~Ever(c) => Unknown(c, d)

\* The room as a client is told of it, message by message; due: a topology follows the change
RoomView == [members : SUBSET Clients, m : Nat, r : Nat, due : BOOLEAN]
View(rm) == [members |-> rm.members, m |-> rm.m, r |-> rm.r, due |-> FALSE]
Start(c) == [members |-> {c}, m |-> 0, r |-> 0, due |-> FALSE]

\* A change of the members, b the view after it
Changes(a, b, members) == ~a.due /\ b.due /\ b.members = members /\ b.m > a.m /\ b.r > a.r
\* The message x takes the view of c from a to b
Moves(c, x, a, b) ==
  \/ x.kind = "welcome" /\ a = Start(c) /\ c \notin x.peers /\ Changes(a, b, x.peers \cup {c})
  \/ x.kind = "peer-joined" /\ x.from # c /\ Changes(a, b, a.members \cup {x.from})
  \/ x.kind = "peer-left" /\ x.from \in a.members /\ x.from # c /\ Changes(a, b, a.members \ {x.from})
  \/ /\ x.kind = "topology" /\ x.peers = a.members /\ x.m = a.m /\ x.r >= a.r
     /\ b = [a EXCEPT !.r = x.r, !.due = FALSE]
  \/ x.kind = "agent-state" /\ ~a.due /\ b = a
  \/ x.kind = "overlay-key" /\ ~a.due /\ b = a /\ x.m = a.m /\ x.from \in a.members \ {c}
  \/ x.kind = "marker" /\ ~a.due /\ b = a /\ x.from \in a.members \ {c}

\* The messages in box take the view of c from a to z
Follows(c, box, v, a, z) ==
  /\ v \in [1..(Len(box) + 1) -> RoomView] /\ v[1] = a /\ v[Len(box) + 1] = z
  /\ \A i \in 1..Len(box) : Moves(c, box[i], v[i], v[i + 1])
  /\ \A i \in 1..(Len(box) + 1) : v[i].m <= z.m
Leads(c, box, a, z) == \E v \in [1..(Len(box) + 1) -> RoomView] : Follows(c, box, v, a, z)

\* What the client c has made of the view a
Seen(c, p, a) ==
  /\ c \in a.members /\ p.peers = a.members \ {c}
  /\ a.due => p.m < a.m /\ p.r < a.r
  /\ ~a.due => p.m = a.m /\ p.r <= a.r /\ p.applied = p.peers /\ (p.m > 0 => p.stable)
Views == \A c \in Clients : Joined(c) =>
  \E a \in RoomView : Seen(c, cl[c], a) /\ Leads(c, inbox[c], a, View(room))
Started == room.members # {} => room.m > 0

\* A client that has seen a topology has a key or is making one
HasKey(p) == (p.making => p.key = 0) /\ (p.m > 0 /\ ~p.making => p.key # 0)
Ready == \A c \in Clients : HasKey(cl[c])

\* Who left with the key in use has not been noticed, or the topology without it not been applied
LeftMessage(d) == [kind |-> "peer-left", from |-> d]
ShutOut(c, d) ==
  Joined(c) /\ ~Joined(d) /\ cl[c].key # 0 /\ cl[c].key = cl[d].ring[c]
  => d \in cl[c].peers \cup cl[c].applied \/ LeftMessage(d) \in ToSet(inbox[c])
Shut == \A c, d \in Clients : ShutOut(c, d)

\* Messages of a client as it sends them and as they arrive
KeyOut(k) == [kind |-> "overlay-key", k |-> k, to |-> 0]
MarkerTo(d) == [kind |-> "marker", k |-> 0, to |-> d]
KeyFrom(c, k, m) == [kind |-> "overlay-key", from |-> c, k |-> k, m |-> m]
MarkerFrom(c) == [kind |-> "marker", from |-> c]

\* Where the message x stands in box; the last one of the messages S there is x; none of S is there
Places(box, x) == {i \in 1..Len(box) : box[i] = x}
Ends(box, S, x) == \E i \in 1..Len(box) : box[i] = x /\ \A j \in (i + 1)..Len(box) : box[j] \notin S
Without(box, S) == \A i \in 1..Len(box) : box[i] \notin S

\* A request to rebuild a connection is sent once, by the side that has already done so
MarkerSent(c, d) == Places(outbox[c], MarkerTo(d)) # {}
MarkerArrived(c, d) == Places(inbox[d], MarkerFrom(c)) # {}
OneMarker(c, d) ==
  /\ MarkerSent(c, d) \/ MarkerArrived(c, d) => cl[c].pc[d] = cl[d].pc[c] + 1
  /\ ~(MarkerSent(c, d) /\ MarkerArrived(c, d))
  /\ \A i, j \in Places(outbox[c], MarkerTo(d)) : i = j
  /\ \A i, j \in Places(inbox[d], MarkerFrom(c)) : i = j
Marked == \A c, d \in Clients : Members(c, d) => OneMarker(c, d)

\* Messages of y that bear on the key x has of it
Concerning(x) == {KeyOut(k) : k \in Nat} \cup {MarkerTo(x)}
About(y) == {KeyFrom(y, k, m) : k \in Nat, m \in Nat} \cup {MarkerFrom(y)}

\* The present key of y is on its way to x, or there, or y is about to be asked for it
Announced(x, y) == Ends(outbox[y], Concerning(x), KeyOut(cl[y].key))
Arriving(x, y) == Without(outbox[y], Concerning(x)) /\ Ends(inbox[x], About(y), KeyFrom(y, cl[y].key, room.m))
Arrived(x, y) ==
  /\ Without(outbox[y], Concerning(x)) /\ Without(inbox[x], About(y)) /\ cl[x].m = room.m
  /\ cl[x].imports[y] = cl[y].key \/ (cl[x].imports[y] = 0 /\ cl[x].ring[y] = cl[y].key)
Asked(x, y) == MarkerSent(x, y) \/ MarkerArrived(x, y)
Fed(x, y) == Members(x, y) /\ cl[y].m = room.m /\ cl[y].key # 0 =>
  Announced(x, y) \/ Arriving(x, y) \/ Arrived(x, y) \/ Asked(x, y)
AllFed == \A x, y \in Clients : Fed(x, y)

\* Without a budget for them no connection is rebuilt
Unreset == plan.resets = 0 =>
  /\ left.resets = 0
  /\ \A c \in Clients :
       /\ \A x \in ToSet(inbox[c]) : x.kind # "marker"
       /\ \A x \in ToSet(outbox[c]) : x.kind # "marker"

\* The shared key belongs to an epoch its owner has reached and was told to peers
AgentKey(p) ==
  /\ p.agent.told \subseteq p.peers
  /\ p.agent.n = 0 => ~p.agent.active /\ p.agent.acked = {}
  /\ p.agent.n # 0 => p.agent.m > 0 /\ p.agent.m <= p.m /\ p.agent.e <= p.e
AgentKeys == \A c \in Clients : AgentKey(cl[c])
\* Packets about shared keys carry one; those with the present one are of its epochs
PacketsOfKey(a, ks) == \A k \in ks :
  /\ k.kind \in {"agent-key", "agent-ack"} => k.n # 0
  /\ k.kind = "agent-key" /\ k.n = a.n => k.m = a.m /\ k.e = a.e
Packets == \A c, d \in Clients : PacketsOfKey(cl[c].agent, ToSet(link[c][d]))

\* Who has acknowledged it, or is about to, holds it until a later epoch
Vouched(a, d, ks) == d \in a.acked \/ \E k \in ks : k.kind = "agent-ack" /\ k.n = a.n /\ a.n # 0
HoldsKey(a, q, keys) ==
  /\ q.m >= a.m /\ q.e >= a.e
  /\ plan.resets = 0 /\ q.stable /\ q.m = a.m /\ q.e = a.e => a.n \in keys
Held(c, d) == Vouched(cl[c].agent, d, ToSet(link[d][c])) /\ Joined(d) => HoldsKey(cl[c].agent, cl[d], cl[d].rcv[c])
AllHeld == \A c, d \in Clients : Held(c, d)

\* All that d will ever know of the membership is later than the epoch x
Newer(d, x) ==
  /\ room.m > x /\ (cl[d].m = 0 \/ cl[d].m > x)
  /\ \A y \in ToSet(inbox[d]) : y.kind = "topology" => y.m > x
\* A peer that has not acknowledged the key in use came later
Later(c, d) ==
  cl[c].agent.active /\ d \in cl[c].peers \ cl[c].agent.acked /\ Joined(d) => Newer(d, cl[c].agent.m)
AllLater == \A c, d \in Clients : Later(c, d)
\* A client that is announced is newer than what is known before
JoinMessage(d) == [kind |-> "peer-joined", from |-> d]
Newcomer(c, d) == \A i \in 1..Len(inbox[c]) : inbox[c][i] = JoinMessage(d) /\ Joined(d) =>
  Newer(d, cl[c].m) /\ \A j \in 1..(i - 1) : inbox[c][j].kind = "topology" => Newer(d, inbox[c][j].m)
Newcomers == \A c, d \in Clients : Newcomer(c, d)

IInv ==
  /\ TypeOK /\ Few /\ Absent /\ Known /\ Views /\ Started /\ Ready /\ Shut /\ Marked /\ AllFed
  /\ Unreset /\ AgentKeys /\ Packets /\ AllHeld /\ AllLater /\ Newcomers

-----------------------------------------------------------------------------
(* Sequences of messages *)

LEMMA EmptySet ==
  /\ ToSet(<<>>) = {} /\ Len(<<>>) = 0
  /\ \A x : ToSet(<<x>>) = {x}
BY DEF ToSet

LEMMA TailShorter ==
  ASSUME NEW S, NEW s \in Seq(S), s # <<>>
  PROVE  Tail(s) # s
<1> DEFINE t == Tail(s)
<1>1. Len(t) = Len(s) - 1 /\ Len(s) \in Nat OBVIOUS
<1> HIDE DEF t
<1>2. t # s BY <1>1
<1> QED BY <1>2 DEF t

LEMMA NothingIn ==
  ASSUME NEW S, NEW s \in Seq(S), ToSet(s) = {}
  PROVE  s = <<>>
<1>1. \A i \in 1..Len(s) : s[i] \in ToSet(s) BY DEF ToSet
<1>2. ~(1 \in 1..Len(s)) BY <1>1
<1>3. Len(s) = 0 BY <1>2
<1> QED BY <1>3

LEMMA ToSetConcat ==
  ASSUME NEW S, NEW s \in Seq(S), NEW t \in Seq(S)
  PROVE  ToSet(s \o t) = ToSet(s) \cup ToSet(t)
<1>1. s \o t \in Seq(S) /\ Len(s \o t) = Len(s) + Len(t) OBVIOUS
<1>2. ASSUME NEW x \in ToSet(s \o t) PROVE x \in ToSet(s) \cup ToSet(t)
  <2>1. PICK i \in DOMAIN (s \o t) : (s \o t)[i] = x BY <1>2 DEF ToSet
  <2>2. CASE i <= Len(s) BY <2>1, <2>2, <1>1 DEF ToSet
  <2>3. CASE i > Len(s)
    <3>1. i - Len(s) \in DOMAIN t /\ x = t[i - Len(s)] BY <2>1, <2>3, <1>1
    <3> QED BY <3>1 DEF ToSet
  <2> QED BY <2>1, <2>2, <2>3, <1>1
<1>3. ASSUME NEW x \in ToSet(s) PROVE x \in ToSet(s \o t)
  <2>1. PICK i \in DOMAIN s : s[i] = x BY <1>3 DEF ToSet
  <2>2. i \in DOMAIN (s \o t) /\ (s \o t)[i] = x BY <2>1, <1>1
  <2> QED BY <2>2 DEF ToSet
<1>4. ASSUME NEW x \in ToSet(t) PROVE x \in ToSet(s \o t)
  <2>1. PICK i \in DOMAIN t : t[i] = x BY <1>4 DEF ToSet
  <2>2. i + Len(s) \in DOMAIN (s \o t) /\ (s \o t)[i + Len(s)] = x BY <2>1, <1>1
  <2> QED BY <2>2 DEF ToSet
<1> QED BY <1>2, <1>3, <1>4

LEMMA ToSetAppend ==
  ASSUME NEW S, NEW s \in Seq(S), NEW x \in S
  PROVE  ToSet(Append(s, x)) = ToSet(s) \cup {x}
<1>1. <<x>> \in Seq(S) /\ Append(s, x) = s \o <<x>> OBVIOUS
<1>2. ToSet(s \o <<x>>) = ToSet(s) \cup ToSet(<<x>>) BY <1>1, ToSetConcat
<1>3. ToSet(<<x>>) = {x} BY EmptySet
<1> QED BY <1>1, <1>2, <1>3

LEMMA ToSetTail ==
  ASSUME NEW S, NEW s \in Seq(S), s # <<>>
  PROVE  /\ ToSet(Tail(s)) \subseteq ToSet(s) /\ Head(s) \in ToSet(s) /\ Head(s) \in S
         /\ Tail(s) \in Seq(S)
         /\ \A x \in ToSet(s) : x = Head(s) \/ x \in ToSet(Tail(s))
<1>1. Tail(s) \in Seq(S) /\ Len(Tail(s)) = Len(s) - 1 /\ Len(s) > 0 /\ Head(s) = s[1] OBVIOUS
<1>2. \A i \in DOMAIN Tail(s) : Tail(s)[i] = s[i + 1] /\ i + 1 \in DOMAIN s BY <1>1
<1>3. 1 \in DOMAIN s BY <1>1
<1>4. \A i \in DOMAIN s : i = 1 \/ (i - 1 \in DOMAIN Tail(s) /\ Tail(s)[i - 1] = s[i]) BY <1>1
<1>5. ToSet(Tail(s)) \subseteq ToSet(s) BY <1>2 DEF ToSet
<1>6. Head(s) \in ToSet(s) /\ Head(s) \in S BY <1>1, <1>3 DEF ToSet
<1>7. ASSUME NEW x \in ToSet(s) PROVE x = Head(s) \/ x \in ToSet(Tail(s))
  <2>1. PICK i \in DOMAIN s : s[i] = x BY <1>7 DEF ToSet
  <2> QED BY <2>1, <1>4, <1>1 DEF ToSet
<1> QED BY <1>1, <1>5, <1>6, <1>7

LEMMA FiniteImage ==
  ASSUME NEW S, IsFiniteSet(S), NEW f
  PROVE  IsFiniteSet({f[x] : x \in S})
<1> DEFINE T == {f[x] : x \in S}
           g == [x \in S |-> f[x]]
<1>1. g \in [S -> T] /\ \A y \in T : \E x \in S : g[x] = y OBVIOUS
<1>2. g \in Surjection(S, T) BY <1>1 DEF Surjection
<1> QED BY <1>2, FS_Surjection

LEMMA ToSetType ==
  ASSUME NEW S, NEW s \in Seq(S)
  PROVE  ToSet(s) \subseteq S /\ IsFiniteSet(ToSet(s))
<1>1. ToSet(s) \subseteq S BY DEF ToSet
<1>2. ToSet(s) = {s[i] : i \in 1..Len(s)} BY DEF ToSet
<1>3. IsFiniteSet(1..Len(s)) BY FS_Interval
<1>4. IsFiniteSet({s[i] : i \in 1..Len(s)})
  <2> DEFINE f == [i \in 1..Len(s) |-> s[i]]
  <2>1. {s[i] : i \in 1..Len(s)} = {f[i] : i \in 1..Len(s)} OBVIOUS
  <2> HIDE DEF f
  <2> QED BY <2>1, <1>3, FiniteImage
<1> QED BY <1>1, <1>2, <1>4

LEMMA PlacesAppend ==
  ASSUME NEW S, NEW s \in Seq(S), NEW x \in S, NEW y
  PROVE  Places(Append(s, x), y) = Places(s, y) \cup (IF x = y THEN {Len(s) + 1} ELSE {})
BY DEF Places

LEMMA PlacesTail ==
  ASSUME NEW S, NEW s \in Seq(S), s # <<>>, NEW y
  PROVE  /\ \A i \in Places(Tail(s), y) : i + 1 \in Places(s, y) /\ i + 1 # 1
         /\ Head(s) = y => 1 \in Places(s, y)
         /\ Head(s) # y => (Places(Tail(s), y) = {} => Places(s, y) = {})
<1>1. Tail(s) \in Seq(S) /\ Len(Tail(s)) = Len(s) - 1 /\ Len(s) > 0 /\ Head(s) = s[1] OBVIOUS
<1>2. \A i \in 1..Len(Tail(s)) : Tail(s)[i] = s[i + 1] /\ i + 1 \in 1..Len(s) /\ i + 1 # 1 BY <1>1
<1>3. \A i \in 1..Len(s) : i = 1 \/ (i - 1 \in 1..Len(Tail(s)) /\ Tail(s)[i - 1] = s[i]) BY <1>1
<1>4. \A i \in Places(Tail(s), y) : i + 1 \in Places(s, y) /\ i + 1 # 1 BY <1>2 DEF Places
<1>5. Head(s) = y => 1 \in Places(s, y) BY <1>1 DEF Places
<1>6. ASSUME Head(s) # y, Places(Tail(s), y) = {}, NEW i \in Places(s, y) PROVE FALSE
  <2>1. i \in 1..Len(s) /\ s[i] = y BY <1>6 DEF Places
  <2>2. i - 1 \in Places(Tail(s), y) BY <2>1, <1>6, <1>1, <1>3 DEF Places
  <2> QED BY <2>2, <1>6
<1> QED BY <1>4, <1>5, <1>6

LEMMA PlacesIn ==
  ASSUME NEW S, NEW s \in Seq(S), NEW y
  PROVE  Places(s, y) # {} <=> y \in ToSet(s)
BY DEF Places, ToSet

LEMMA EndsAppend ==
  ASSUME NEW S, NEW s \in Seq(S), NEW x \in S, NEW T, NEW y
  PROVE  /\ Ends(Append(s, x), T, x)
         /\ x \notin T /\ Ends(s, T, y) => Ends(Append(s, x), T, y)
         /\ x \notin T /\ Without(s, T) => Without(Append(s, x), T)
<1>1. Append(s, x) \in Seq(S) /\ Len(Append(s, x)) = Len(s) + 1 /\ Append(s, x)[Len(s) + 1] = x OBVIOUS
<1>2. \A i \in 1..Len(s) : Append(s, x)[i] = s[i] OBVIOUS
<1>3. Ends(Append(s, x), T, x) BY <1>1 DEF Ends
<1>4. ASSUME x \notin T, Ends(s, T, y) PROVE Ends(Append(s, x), T, y)
  <2>1. PICK i \in 1..Len(s) : s[i] = y /\ \A j \in (i + 1)..Len(s) : s[j] \notin T BY <1>4 DEF Ends
  <2>2. \A j \in (i + 1)..(Len(s) + 1) : Append(s, x)[j] \notin T BY <2>1, <1>1, <1>2, <1>4
  <2> QED BY <2>1, <2>2, <1>1, <1>2 DEF Ends
<1> QED BY <1>1, <1>2, <1>3, <1>4 DEF Without

LEMMA EndsTail ==
  ASSUME NEW S, NEW s \in Seq(S), s # <<>>, NEW T, NEW y
  PROVE  /\ Ends(s, T, y) => Ends(Tail(s), T, y) \/ (Head(s) = y /\ Without(Tail(s), T))
         /\ Without(s, T) => Without(Tail(s), T) /\ Head(s) \notin T
<1>1. Tail(s) \in Seq(S) /\ Len(Tail(s)) = Len(s) - 1 /\ Len(s) > 0 /\ Head(s) = s[1] OBVIOUS
<1>2. \A i \in 1..Len(Tail(s)) : Tail(s)[i] = s[i + 1] /\ i + 1 \in 1..Len(s) BY <1>1
<1>3. \A i \in 1..Len(s) : i = 1 \/ (i - 1 \in 1..Len(Tail(s)) /\ Tail(s)[i - 1] = s[i]) BY <1>1
<1>4. ASSUME Ends(s, T, y) PROVE Ends(Tail(s), T, y) \/ (Head(s) = y /\ Without(Tail(s), T))
  <2>1. PICK i \in 1..Len(s) : s[i] = y /\ \A j \in (i + 1)..Len(s) : s[j] \notin T BY <1>4 DEF Ends
  <2>2. CASE i = 1 BY <2>1, <2>2, <1>1, <1>2 DEF Without
  <2>3. CASE i # 1
    <3>1. i - 1 \in 1..Len(Tail(s)) /\ Tail(s)[i - 1] = y BY <2>1, <2>3, <1>3
    <3>2. \A j \in ((i - 1) + 1)..Len(Tail(s)) : Tail(s)[j] \notin T BY <2>1, <1>1, <1>2
    <3> QED BY <3>1, <3>2 DEF Ends
  <2> QED BY <2>2, <2>3
<1> QED BY <1>1, <1>2, <1>4 DEF Without

LEMMA AppendFirst ==
  ASSUME NEW S, NEW u \in Seq(S), NEW x \in S, NEW t \in Seq(S)
  PROVE  u \o (<<x>> \o t) = Append(u, x) \o t
<1> DEFINE a == u \o (<<x>> \o t)
           b == Append(u, x) \o t
<1>1. Len(<<x>> \o t) = 1 + Len(t) /\ <<x>> \o t \in Seq(S) /\ Append(u, x) \in Seq(S) /\ Len(Append(u, x)) = Len(u) + 1
  OBVIOUS
<1>2. a \in Seq(S) /\ b \in Seq(S) /\ Len(a) = Len(u) + 1 + Len(t) /\ Len(b) = Len(u) + 1 + Len(t) BY <1>1
<1>3. ASSUME NEW i \in 1..(Len(u) + 1 + Len(t)) PROVE a[i] = b[i]
  <2>1. CASE i <= Len(u) BY <2>1, <1>1
  <2>2. CASE i = Len(u) + 1 BY <2>2, <1>1
  <2>3. CASE i > Len(u) + 1
    <3>1. b[i] = t[i - (Len(u) + 1)] BY <2>3, <1>1
    <3>2. a[i] = (<<x>> \o t)[i - Len(u)] BY <2>3, <1>1
    <3>3. (<<x>> \o t)[i - Len(u)] = t[(i - Len(u)) - 1] BY <2>3
    <3> QED BY <3>1, <3>2, <3>3
  <2> QED BY <2>1, <2>2, <2>3
<1> HIDE DEF a, b
<1>4. a = b BY <1>2, <1>3
<1> QED BY <1>4 DEF a, b

\* A generated key is one nobody uses.
LEMMA UnusedFacts ==
  ASSUME NEW used, IsFiniteSet(used)
  PROVE  Unused(used) \in Nat \ {0} /\ Unused(used) \notin used
<1> DEFINE n == Cardinality(used)
<1>1. n \in Nat BY FS_CardinalityType
<1>2. \E i \in 1..(n + 1) : i \notin used
  <2> SUFFICES ASSUME 1..(n + 1) \subseteq used PROVE FALSE OBVIOUS
  <2>1. Cardinality(1..(n + 1)) = n + 1 BY <1>1, FS_Interval
  <2>2. Cardinality(1..(n + 1)) <= n BY FS_Subset
  <2> QED BY <2>1, <2>2, <1>1
<1> QED BY <1>1, <1>2 DEF Unused

-----------------------------------------------------------------------------
(* The view of the room that the messages under way lead to *)

LEMMA LeadsEmpty ==
  ASSUME NEW c, NEW a \in RoomView, NEW z \in RoomView
  PROVE  /\ Leads(c, <<>>, a, a)
         /\ Leads(c, <<>>, a, z) => a = z
<1>1. Len(<<>>) = 0 /\ 1..0 = {} /\ 1..(0 + 1) = {1} OBVIOUS
<1>2. a.m \in Nat BY DEF RoomView
<1>3. Leads(c, <<>>, a, a)
  <2> DEFINE v == [i \in 1..(Len(<<>>) + 1) |-> a]
  <2>1. v \in [1..(Len(<<>>) + 1) -> RoomView] OBVIOUS
  <2>2. Follows(c, <<>>, v, a, a) BY <1>1, <1>2, <2>1 DEF Follows
  <2> QED BY <2>1, <2>2 DEF Leads
<1>4. Leads(c, <<>>, a, z) => a = z BY <1>1 DEF Leads, Follows
<1> QED BY <1>3, <1>4

LEMMA LeadsAppend ==
  ASSUME NEW c, NEW S, NEW box \in Seq(S), NEW x \in S, NEW a \in RoomView, NEW y \in RoomView, NEW z \in RoomView,
         Leads(c, box, a, y), Moves(c, x, y, z), y.m <= z.m
  PROVE  Leads(c, Append(box, x), a, z)
<1> DEFINE n == Len(box)
           b == Append(box, x)
<1>1. n \in Nat /\ Len(b) = n + 1 /\ b[n + 1] = x /\ \A i \in 1..n : b[i] = box[i] OBVIOUS
<1>2. PICK v \in [1..(n + 1) -> RoomView] : Follows(c, box, v, a, y) BY DEF Leads
<1> DEFINE w == [i \in 1..(n + 2) |-> IF i = n + 2 THEN z ELSE v[i]]
<1>3. w \in [1..(n + 2) -> RoomView] /\ w[n + 2] = z /\ \A i \in 1..(n + 1) : w[i] = v[i] BY <1>1, <1>2
<1>4. v[1] = a /\ v[n + 1] = y /\ \A i \in 1..n : Moves(c, box[i], v[i], v[i + 1]) BY <1>2 DEF Follows
<1>5. \A i \in 1..(n + 1) : v[i].m <= y.m BY <1>2 DEF Follows
<1> HIDE DEF n, b, w
<1>6. \A i \in 1..(n + 1) : Moves(c, b[i], w[i], w[i + 1])
  <2> TAKE i \in 1..(n + 1)
  <2>1. CASE i = n + 1
    <3>1. b[i] = x /\ w[i] = y /\ w[i + 1] = z BY <2>1, <1>1, <1>3, <1>4
    <3> QED BY <3>1
  <2>2. CASE i \in 1..n
    <3>1. b[i] = box[i] /\ w[i] = v[i] /\ w[i + 1] = v[i + 1] BY <2>2, <1>1, <1>3
    <3> QED BY <3>1, <2>2, <1>4
  <2> QED BY <2>1, <2>2, <1>1
<1>7. \A i \in 1..(n + 2) : w[i].m <= z.m
  <2> TAKE i \in 1..(n + 2)
  <2>1. \A u \in RoomView : u.m \in Nat BY DEF RoomView
  <2>2. CASE i = n + 2 BY <2>1, <2>2, <1>3
  <2>3. CASE i \in 1..(n + 1)
    <3>1. w[i] = v[i] /\ v[i].m <= y.m /\ v[i] \in RoomView BY <2>3, <1>3, <1>5
    <3>2. v[i].m \in Nat /\ y.m \in Nat /\ z.m \in Nat BY <3>1, <2>1
    <3> QED BY <3>1, <3>2
  <2> QED BY <2>2, <2>3, <1>1
<1>8. Len(b) + 1 = n + 2 BY <1>1
<1>9. w[1] = a BY <1>1, <1>3, <1>4
<1>10. Follows(c, b, w, a, z) BY <1>1, <1>3, <1>6, <1>7, <1>8, <1>9 DEF Follows
<1>11. Leads(c, b, a, z) BY <1>3, <1>8, <1>10 DEF Leads
<1> QED BY <1>11 DEF b

LEMMA LeadsTail ==
  ASSUME NEW c, NEW S, NEW box \in Seq(S), box # <<>>, NEW a \in RoomView, NEW z \in RoomView,
         Leads(c, box, a, z)
  PROVE  \E b \in RoomView : Moves(c, Head(box), a, b) /\ Leads(c, Tail(box), b, z)
<1> DEFINE n == Len(box)
           t == Tail(box)
<1>1. n \in Nat /\ n > 0 /\ Head(box) = box[1] /\ Len(t) = n - 1 /\ \A i \in 1..(n - 1) : t[i] = box[i + 1] OBVIOUS
<1>2. PICK v \in [1..(n + 1) -> RoomView] : Follows(c, box, v, a, z) BY DEF Leads
<1>3. v[1] = a /\ v[n + 1] = z /\ \A i \in 1..n : Moves(c, box[i], v[i], v[i + 1]) BY <1>2 DEF Follows
<1>4. \A i \in 1..(n + 1) : v[i].m <= z.m BY <1>2 DEF Follows
<1> DEFINE w == [i \in 1..n |-> v[i + 1]]
<1>5. w \in [1..n -> RoomView] /\ \A i \in 1..n : w[i] = v[i + 1] BY <1>1, <1>2
<1> HIDE DEF n, t, w
<1>6. v[2] \in RoomView /\ w[1] = v[2] /\ w[n] = z BY <1>1, <1>2, <1>3, <1>5
<1>7. Moves(c, box[1], a, v[2]) BY <1>1, <1>3
<1>8. \A i \in 1..(n - 1) : Moves(c, t[i], w[i], w[i + 1])
  <2> TAKE i \in 1..(n - 1)
  <2>1. t[i] = box[i + 1] /\ w[i] = v[i + 1] /\ w[i + 1] = v[(i + 1) + 1] /\ i + 1 \in 1..n BY <1>1, <1>5
  <2> QED BY <2>1, <1>3
<1>9. \A i \in 1..n : w[i].m <= z.m BY <1>1, <1>4, <1>5
<1>10. Len(t) + 1 = n BY <1>1
<1>11. Follows(c, t, w, v[2], z) BY <1>1, <1>5, <1>6, <1>8, <1>9, <1>10 DEF Follows
<1>12. Leads(c, t, v[2], z) BY <1>5, <1>10, <1>11 DEF Leads
<1> QED BY <1>1, <1>6, <1>7, <1>12 DEF t

\* Nothing under way is ahead of the room.
LEMMA LeadsBound ==
  ASSUME NEW c, NEW S, NEW box \in Seq(S), NEW a \in RoomView, NEW z \in RoomView, Leads(c, box, a, z)
  PROVE  a.m <= z.m /\ \A x \in ToSet(box) : x.kind = "topology" => x.m <= z.m
<1> DEFINE n == Len(box)
<1>1. n \in Nat OBVIOUS
<1>2. PICK v \in [1..(n + 1) -> RoomView] : Follows(c, box, v, a, z) BY DEF Leads
<1>3. v[1] = a /\ \A i \in 1..n : Moves(c, box[i], v[i], v[i + 1]) BY <1>2 DEF Follows
<1>4. \A i \in 1..(n + 1) : v[i].m <= z.m BY <1>2 DEF Follows
<1>5. a.m <= z.m BY <1>1, <1>3, <1>4
<1>6. ASSUME NEW x \in ToSet(box), x.kind = "topology" PROVE x.m <= z.m
  <2>1. PICK i \in 1..n : box[i] = x BY <1>6 DEF ToSet
  <2>2. Moves(c, x, v[i], v[i + 1]) BY <1>3, <2>1
  <2>3. x.m = v[i].m BY <2>2, <1>6 DEF Moves
  <2> QED BY <2>3, <2>1, <1>1, <1>4
<1> QED BY <1>5, <1>6

-----------------------------------------------------------------------------
(* New keys *)

LEMMA Triple ==
  ASSUME NEW x, NEW y, NEW z
  PROVE  IsFiniteSet({x}) /\ IsFiniteSet({x, y}) /\ IsFiniteSet({x, y, z})
<1>1. IsFiniteSet({}) BY FS_EmptySet
<1>2. IsFiniteSet({} \cup {x}) BY <1>1, FS_AddElement
<1>3. IsFiniteSet(({} \cup {x}) \cup {y}) BY <1>2, FS_AddElement
<1>4. IsFiniteSet((({} \cup {x}) \cup {y}) \cup {z}) BY <1>3, FS_AddElement
<1>5. {} \cup {x} = {x} /\ ({} \cup {x}) \cup {y} = {x, y} /\ (({} \cup {x}) \cup {y}) \cup {z} = {x, y, z} OBVIOUS
<1> QED BY <1>2, <1>3, <1>4, <1>5

\* The types of the state of one client and of the channels and boxes between two
LEMMA Types ==
  ASSUME TypeOK, NEW c \in Clients, NEW d \in Clients
  PROVE  /\ cl[c] \in Client /\ inbox[c] \in Seq(ServerMessage) /\ outbox[c] \in Seq(ClientMessage)
         /\ link[c][d] \in Seq(Envelope)
         /\ ToSet(inbox[c]) \subseteq ServerMessage /\ ToSet(outbox[c]) \subseteq ClientMessage
         /\ ToSet(link[c][d]) \subseteq Envelope
         /\ IsFiniteSet(ToSet(inbox[c])) /\ IsFiniteSet(ToSet(outbox[c])) /\ IsFiniteSet(ToSet(link[c][d]))
<1>1. cl[c] \in Client BY DEF TypeOK
<1>2. inbox[c] \in Seq(ServerMessage) BY DEF TypeOK
<1>3. outbox[c] \in Seq(ClientMessage) BY DEF TypeOK
<1>4. link[c][d] \in Seq(Envelope) BY DEF TypeOK
<1> QED BY <1>1, <1>2, <1>3, <1>4, ToSetType

LEMMA KeysAboutFinite ==
  ASSUME TypeOK, Few, NEW c \in Clients, NEW d \in Clients
  PROVE  IsFiniteSet(KeysAbout(c, d) \cup cl[d].rcv[c])
<1> DEFINE K == ToSet(link[c][d]) \cup ToSet(link[d][c])
           f == [k \in K |-> k.n]
<1>1. IsFiniteSet(K) BY Types, FS_Union
<1>2. {k.n : k \in K} = {f[k] : k \in K} OBVIOUS
<1>3. IsFiniteSet({k.n : k \in K})
  <2> HIDE DEF K, f
  <2> QED BY <1>1, <1>2, FiniteImage
<1>4. IsFiniteSet({cl[c].snd[d], cl[c].out[d].n, cl[c].agent.n}) BY Triple
<1>5. IsFiniteSet(KeysAbout(c, d)) BY <1>3, <1>4, FS_Union DEF KeysAbout
<1>6. IsFiniteSet(cl[d].rcv[c]) BY DEF Few
<1> QED BY <1>5, <1>6, FS_Union

LEMMA NewKeyFacts ==
  ASSUME TypeOK, Few, NEW c \in Clients, NEW d \in Clients
  PROVE  NewKey(c, d) \in Nat \ {0}
BY KeysAboutFinite, UnusedFacts DEF NewKey

\* The union of finite sets, one per client, is finite.
LEMMA PerClient ==
  ASSUME NEW f, \A d \in Clients : IsFiniteSet(f[d])
  PROVE  IsFiniteSet(UNION {f[d] : d \in Clients})
<1>1. IsFiniteSet({f[d] : d \in Clients}) BY ClientAssumption, FiniteImage
<1>2. \A T \in {f[d] : d \in Clients} : IsFiniteSet(T) OBVIOUS
<1> QED BY <1>1, <1>2, FS_UNION

\* A new shared key is on no channel.
LEMMA NewAgentKeyFacts ==
  ASSUME TypeOK, Few, NEW c \in Clients, NEW p
  PROVE  /\ NewAgentKey(c, p) \in Nat \ {0}
         /\ \A d \in Clients : \A k \in ToSet(link[c][d]) \cup ToSet(link[d][c]) : k.n # NewAgentKey(c, p)
         /\ NewAgentKey(c, p) # cl[c].agent.n
<1> DEFINE F(d) == KeysAbout(c, d) \cup cl[d].rcv[c] \cup {p.out[d].n}
           f == [d \in Clients |-> F(d)]
           U == UNION {F(d) : d \in Clients}
<1>1. ASSUME NEW d \in Clients PROVE IsFiniteSet(F(d))
  <2>1. IsFiniteSet(KeysAbout(c, d) \cup cl[d].rcv[c]) BY KeysAboutFinite
  <2> QED BY <2>1, FS_AddElement
<1>2. IsFiniteSet(U)
  <2>1. \A d \in Clients : IsFiniteSet(f[d]) BY <1>1
  <2>2. U = UNION {f[d] : d \in Clients} OBVIOUS
  <2> HIDE DEF U, f, F
  <2> QED BY <2>1, <2>2, PerClient
<1>3. NewAgentKey(c, p) = Unused(U) BY DEF NewAgentKey
<1>4. NewAgentKey(c, p) \in Nat \ {0} /\ NewAgentKey(c, p) \notin U
  <2> HIDE DEF U
  <2> QED BY <1>2, <1>3, UnusedFacts
<1>5. ASSUME NEW d \in Clients PROVE KeysAbout(c, d) \subseteq U OBVIOUS
<1>6. ASSUME NEW d \in Clients
      PROVE  cl[c].agent.n \in KeysAbout(c, d) /\ \A k \in ToSet(link[c][d]) \cup ToSet(link[d][c]) : k.n \in KeysAbout(c, d)
  BY DEF KeysAbout
<1> HIDE DEF U
<1> QED BY <1>4, <1>5, <1>6

\* A new overlay key is one that no other client holds.
LEMMA NewOverlayKeyFacts ==
  ASSUME TypeOK, NEW c \in Clients
  PROVE  NewOverlayKey(c) \in Nat \ {0} /\ \A d \in Clients : NewOverlayKey(c) # cl[d].ring[c]
<1> DEFINE I(d) == {x \in ToSet(inbox[d]) : x.kind = "overlay-key" /\ x.from = c}
           F(d) == {cl[d].ring[c], cl[d].imports[c]}
                   \cup {k.k : k \in I(d)}
                   \cup {k.k : k \in ToSet(outbox[c])}
                   \cup {k.by : k \in ToSet(link[c][d])} \cup {k.for : k \in ToSet(link[d][c])}
           f == [d \in Clients |-> F(d)]
           U == UNION {F(d) : d \in Clients}
<1>1. ASSUME NEW d \in Clients PROVE IsFiniteSet(F(d))
  <2> DEFINE g == [k \in I(d) |-> k.k]
             h == [k \in ToSet(outbox[c]) |-> k.k]
             b == [k \in ToSet(link[c][d]) |-> k.by]
             e == [k \in ToSet(link[d][c]) |-> k.for]
  <2>1. IsFiniteSet(I(d)) BY Types, FS_Subset
  <2>2. {k.k : k \in I(d)} = {g[k] : k \in I(d)} OBVIOUS
  <2>3. {k.k : k \in ToSet(outbox[c])} = {h[k] : k \in ToSet(outbox[c])} OBVIOUS
  <2>4. {k.by : k \in ToSet(link[c][d])} = {b[k] : k \in ToSet(link[c][d])} OBVIOUS
  <2>5. {k.for : k \in ToSet(link[d][c])} = {e[k] : k \in ToSet(link[d][c])} OBVIOUS
  <2>6. IsFiniteSet({g[k] : k \in I(d)})
    <3> HIDE DEF I, g
    <3> QED BY <2>1, FiniteImage
  <2>7. IsFiniteSet({h[k] : k \in ToSet(outbox[c])}) BY Types, FiniteImage
  <2>8. IsFiniteSet({b[k] : k \in ToSet(link[c][d])}) BY Types, FiniteImage
  <2>9. IsFiniteSet({e[k] : k \in ToSet(link[d][c])}) BY Types, FiniteImage
  <2>10. IsFiniteSet({cl[d].ring[c], cl[d].imports[c]}) BY Triple
  <2> DEFINE A == {cl[d].ring[c], cl[d].imports[c]}
             B == {k.k : k \in I(d)}
             C == {k.k : k \in ToSet(outbox[c])}
             D == {k.by : k \in ToSet(link[c][d])}
             E == {k.for : k \in ToSet(link[d][c])}
  <2>11. IsFiniteSet(A) /\ IsFiniteSet(B) /\ IsFiniteSet(C) /\ IsFiniteSet(D) /\ IsFiniteSet(E)
    BY <2>2, <2>3, <2>4, <2>5, <2>6, <2>7, <2>8, <2>9, <2>10
  <2>12. F(d) = (((A \cup B) \cup C) \cup D) \cup E
    <3> HIDE DEF I
    <3> QED BY Zenon
  <2> HIDE DEF A, B, C, D, E, F
  <2>13. IsFiniteSet(A \cup B) BY <2>11, FS_Union
  <2>14. IsFiniteSet((A \cup B) \cup C) BY <2>11, <2>13, FS_Union
  <2>15. IsFiniteSet(((A \cup B) \cup C) \cup D) BY <2>11, <2>14, FS_Union
  <2> QED BY <2>11, <2>12, <2>15, FS_Union
<1>2. IsFiniteSet(U)
  <2>1. \A d \in Clients : IsFiniteSet(f[d]) BY <1>1
  <2>2. U = UNION {f[d] : d \in Clients} OBVIOUS
  <2> HIDE DEF U, f, F
  <2> QED BY <2>1, <2>2, PerClient
<1>3. NewOverlayKey(c) = Unused(U) BY DEF NewOverlayKey
<1>4. NewOverlayKey(c) \in Nat \ {0} /\ NewOverlayKey(c) \notin U
  <2> HIDE DEF U
  <2> QED BY <1>2, <1>3, UnusedFacts
<1>5. \A d \in Clients : cl[d].ring[c] \in U OBVIOUS
<1> HIDE DEF U
<1> QED BY <1>4, <1>5

-----------------------------------------------------------------------------
(* What the operations on a client leave alone *)

\* Nothing of the membership and of the overlay keys changes, but for peers and stability
SameEpochs(p, q) == q.m = p.m /\ q.e = p.e /\ q.r = p.r /\ q.applied = p.applied
SamePair(p, q) == q.key = p.key /\ q.making = p.making
SameRing(p, q) == q.ring = p.ring /\ q.imports = p.imports
SameMesh(p, q) == q.peers = p.peers /\ q.pc = p.pc /\ SameEpochs(p, q) /\ SamePair(p, q) /\ SameRing(p, q)
NoKeys(p) == p.agent = NoAgentKey /\ p.rcv = [d \in Clients |-> {}]
SameKeys(p, q) == q.agent = p.agent /\ q.rcv = p.rcv

LEMMA Blanks ==
  /\ NoOut \in [n : Nat, m : Nat] /\ None \in [Clients -> Nat] /\ None \in [Clients -> Nat]
  /\ [d \in Clients |-> NoOut] \in [Clients -> [n : Nat, m : Nat]]
  /\ [d \in Clients |-> {}] \in [Clients -> SUBSET Nat]
  /\ NoAgentKey \in [n : Nat, m : Nat, e : Nat, acked : SUBSET Clients, told : SUBSET Clients, active : BOOLEAN]
BY DEF NoOut, None, NoAgentKey

LEMMA FieldTypes ==
  ASSUME NEW p \in Client
  PROVE  /\ p.peers \in SUBSET Clients /\ p.m \in Nat /\ p.e \in Nat /\ p.stable \in BOOLEAN
         /\ p.applied \in SUBSET Clients /\ p.key \in Nat /\ p.making \in BOOLEAN
         /\ p.ring \in [Clients -> Nat] /\ p.imports \in [Clients -> Nat]
         /\ p.out \in [Clients -> [n : Nat, m : Nat]] /\ p.snd \in [Clients -> Nat] /\ p.rcv \in [Clients -> SUBSET Nat]
         /\ p.agent \in [n : Nat, m : Nat, e : Nat, acked : SUBSET Clients, told : SUBSET Clients, active : BOOLEAN]
         /\ p.pc \in [Clients -> Nat] /\ p.r \in Nat /\ p.age \in Nat /\ p.routed \in BOOLEAN
BY DEF Client

LEMMA ProvisionedFacts ==
  ASSUME TypeOK, Few, NEW c \in Clients, NEW p \in Client, NEW D
  PROVE  LET q == Provisioned(c, p, D)
         IN  q \in Client /\ SameMesh(p, q) /\ q.stable = p.stable /\ SameKeys(p, q)
<1> DEFINE P == Provisionable(c, p, D)
           o == [d \in Clients |-> IF d \in P THEN [n |-> NewKey(c, d), m |-> p.m] ELSE p.out[d]]
           q == [p EXCEPT !.out = o]
<1>1. o \in [Clients -> [n : Nat, m : Nat]]
  <2>1. p.m \in Nat /\ p.out \in [Clients -> [n : Nat, m : Nat]] BY FieldTypes
  <2> HIDE DEF P
  <2> QED BY <2>1, NewKeyFacts
<1>2. Provisioned(c, p, D) = q BY DEF Provisioned
<1> HIDE DEF o
<1>3. q \in Client BY <1>1 DEF Client
<1>4. SameMesh(p, q) /\ q.stable = p.stable /\ SameKeys(p, q)
  BY DEF Client, SameMesh, SameEpochs, SamePair, SameRing, SameKeys
<1> QED BY <1>2, <1>3, <1>4

\* What the shared key of p is replaced by
NewAgent(c, p) == [NoAgentKey EXCEPT !.n = NewAgentKey(c, p), !.m = p.m, !.e = p.e]
LEMMA AgentProvisionedFacts ==
  ASSUME TypeOK, Few, NEW c \in Clients, NEW p \in Client
  PROVE  LET q == AgentProvisioned(c, p)
         IN  /\ q \in Client /\ SameMesh(p, q) /\ q.stable = p.stable /\ q.rcv = p.rcv
             /\ q.agent = p.agent \/ (q.agent = NewAgent(c, p) /\ p.m > 0)
<1> DEFINE q == AgentProvisioned(c, p)
<1>1. CASE q = p BY <1>1 DEF SameMesh, SameEpochs, SamePair, SameRing
<1>2. CASE q # p
  <2>1. q = [p EXCEPT !.agent = NewAgent(c, p)] /\ p.m > 0 BY <1>2 DEF AgentProvisioned, NewAgent
  <2>2. NewAgentKey(c, p) \in Nat BY NewAgentKeyFacts
  <2>3. p.m \in Nat /\ p.e \in Nat BY FieldTypes
  <2>4. NewAgent(c, p) \in [n : Nat, m : Nat, e : Nat, acked : SUBSET Clients, told : SUBSET Clients, active : BOOLEAN]
    BY <2>2, <2>3 DEF NewAgent, NoAgentKey
  <2>5. q \in Client BY <2>1, <2>4 DEF Client
  <2>6. SameMesh(p, q) /\ q.stable = p.stable /\ q.rcv = p.rcv /\ q.agent = NewAgent(c, p)
    BY <2>1 DEF Client, SameMesh, SameEpochs, SamePair, SameRing
  <2> QED BY <2>1, <2>5, <2>6
<1> QED BY <1>1, <1>2

LEMMA ClearFacts ==
  ASSUME NEW p \in Client
  PROVE  LET q == ClearAllMediaKeys(p)
         IN  q \in Client /\ SameMesh(p, q) /\ q.stable = p.stable /\ NoKeys(q)
<1>1. ClearAllMediaKeys(p) \in Client BY Blanks DEF ClearAllMediaKeys, Client
<1>2. LET q == ClearAllMediaKeys(p) IN SameMesh(p, q) /\ q.stable = p.stable /\ NoKeys(q)
  BY DEF ClearAllMediaKeys, Client, SameMesh, SameEpochs, SamePair, SameRing, NoKeys
<1> QED BY <1>1, <1>2

LEMMA RotateMediaFacts ==
  ASSUME TypeOK, Few, NEW c \in Clients, NEW p \in Client
  PROVE  LET q == RotateMediaKeys(c, p)
         IN  q \in Client /\ SameMesh(p, q) /\ q.stable = TRUE /\ NoKeys(q)
<1> DEFINE a == ClearAllMediaKeys(p)
           b == [a EXCEPT !.stable = TRUE]
<1>1. a \in Client /\ SameMesh(p, a) /\ NoKeys(a) BY ClearFacts
<1> HIDE DEF a
<1>2. b \in Client BY <1>1 DEF Client
<1>3. SameMesh(a, b) /\ b.stable = TRUE /\ SameKeys(a, b)
  BY <1>1 DEF Client, SameMesh, SameEpochs, SamePair, SameRing, SameKeys
<1> HIDE DEF b
<1>4. LET q == Provisioned(c, b, Clients) IN q \in Client /\ SameMesh(b, q) /\ q.stable = b.stable /\ SameKeys(b, q)
  BY <1>2, ProvisionedFacts
<1>5. RotateMediaKeys(c, p) = Provisioned(c, b, Clients) BY DEF RotateMediaKeys, a, b
<1> QED BY <1>1, <1>3, <1>4, <1>5 DEF SameMesh, SameEpochs, SamePair, SameRing, SameKeys, NoKeys

LEMMA AddPeersFacts ==
  ASSUME NEW p \in Client, NEW D \in SUBSET Clients
  PROVE  LET q == AddPeers(p, D)
         IN  /\ q \in Client /\ q.peers = p.peers \cup D /\ (q.stable => p.stable) /\ q.pc = p.pc
             /\ SameEpochs(p, q) /\ SamePair(p, q) /\ SameRing(p, q) /\ SameKeys(p, q)
<1>1. AddPeers(p, D) \in Client BY DEF AddPeers, Client
<1>2. LET q == AddPeers(p, D)
      IN  /\ q.peers = p.peers \cup D /\ (q.stable => p.stable) /\ q.pc = p.pc
          /\ SameEpochs(p, q) /\ SamePair(p, q) /\ SameRing(p, q) /\ SameKeys(p, q)
  BY DEF AddPeers, Client, SameEpochs, SamePair, SameRing, SameKeys
<1> QED BY <1>1, <1>2

LEMMA RemovePeerFacts ==
  ASSUME NEW p \in Client, NEW d \in Clients
  PROVE  LET q == RemovePeer(p, d)
         IN  /\ q \in Client /\ q.peers = p.peers \ {d} /\ q.stable = FALSE /\ q.pc = p.pc
             /\ SameEpochs(p, q) /\ SamePair(p, q) /\ NoKeys(q)
             /\ \A y \in Clients \ {d} : q.ring[y] = p.ring[y] /\ q.imports[y] = p.imports[y]
<1> DEFINE a == [p EXCEPT !.peers = @ \ {d}, !.stable = FALSE, !.ring[d] = 0, !.imports[d] = 0]
<1>1. a \in Client BY DEF Client
<1>2. /\ a.peers = p.peers \ {d} /\ a.stable = FALSE /\ a.pc = p.pc
      /\ SameEpochs(p, a) /\ SamePair(p, a)
      /\ \A y \in Clients \ {d} : a.ring[y] = p.ring[y] /\ a.imports[y] = p.imports[y]
  BY DEF Client, SameEpochs, SamePair
<1>3. RemovePeer(p, d) = ClearAllMediaKeys(a) BY DEF RemovePeer
<1> HIDE DEF a
<1>4. LET q == ClearAllMediaKeys(a) IN q \in Client /\ SameMesh(a, q) /\ q.stable = a.stable /\ NoKeys(q)
  BY <1>1, ClearFacts
<1> QED BY <1>2, <1>3, <1>4 DEF SameMesh, SameEpochs, SamePair, SameRing

LEMMA RotateOverlayFacts ==
  ASSUME NEW p \in Client
  PROVE  LET q == RotateOverlayKey(p)
         IN  /\ q \in Client /\ q.peers = p.peers /\ q.pc = p.pc /\ q.stable = p.stable
             /\ SameEpochs(p, q) /\ SameKeys(p, q) /\ q.key = 0 /\ q.making
<1>1. RotateOverlayKey(p) \in Client BY Blanks DEF RotateOverlayKey, Client
<1>2. LET q == RotateOverlayKey(p)
      IN  /\ q.peers = p.peers /\ q.pc = p.pc /\ q.stable = p.stable
          /\ SameEpochs(p, q) /\ SameKeys(p, q) /\ q.key = 0 /\ q.making
  BY DEF RotateOverlayKey, Client, SameEpochs, SameKeys
<1> QED BY <1>1, <1>2

\* Noting who was told changes nothing else.
SameAgent(a, b) == b.n = a.n /\ b.m = a.m /\ b.e = a.e /\ b.acked = a.acked /\ b.active = a.active
LEMMA ToldFacts ==
  ASSUME NEW c \in Clients, NEW p \in Client
  PROVE  LET q == Told(c, p)
         IN  /\ q \in Client /\ SameMesh(p, q) /\ q.stable = p.stable /\ q.rcv = p.rcv
             /\ SameAgent(p.agent, q.agent) /\ q.agent.told \subseteq p.agent.told \cup p.peers
<1> DEFINE q == Told(c, p)
           T == {d \in p.peers : p.ring[d] # 0}
<1>1. CASE q = p BY <1>1 DEF SameMesh, SameEpochs, SamePair, SameRing, SameAgent
<1>2. CASE q # p
  <2>1. q = [p EXCEPT !.agent.told = T] BY <1>2 DEF Told
  <2>2. T \in SUBSET Clients BY FieldTypes
  <2> HIDE DEF q, T
  <2>3. q \in Client BY <2>1, <2>2 DEF Client
  <2>4. SameMesh(p, q) /\ q.stable = p.stable /\ q.rcv = p.rcv
    BY <2>1 DEF Client, SameMesh, SameEpochs, SamePair, SameRing
  <2>5. SameAgent(p.agent, q.agent) /\ q.agent.told = T BY <2>1 DEF Client, SameAgent
  <2>6. T \subseteq p.peers BY DEF T
  <2> QED BY <2>3, <2>4, <2>5, <2>6 DEF q
<1> QED BY <1>1, <1>2

-----------------------------------------------------------------------------
(* Steps of one client: the shared key and the channels *)

\* The shared key of c stays, goes or is replaced by one that is on no channel
DropsAgent(a) == a.n = 0 /\ a.acked = {} /\ ~a.active
StartsAgent(c, q) ==
  /\ q.agent.n # 0 /\ q.agent.n # cl[c].agent.n /\ q.agent.m = q.m /\ q.agent.e = q.e /\ q.m > 0
  /\ q.agent.acked = {} /\ ~q.agent.active
  /\ \A d \in Clients : \A k \in ToSet(link[c][d]) \cup ToSet(link[d][c]) : k.n # q.agent.n
AgentStep(c, q) ==
  /\ q.agent.told \subseteq q.peers
  /\ SameAgent(cl[c].agent, q.agent) \/ DropsAgent(q.agent) \/ StartsAgent(c, q)

\* Packets are lost or added by c, those with the shared key of its epochs
Carries(k, a) == k.kind = "media-key" \/ (k.kind = "agent-key" /\ k.n = a.n /\ k.n # 0 /\ k.m = a.m /\ k.e = a.e)
NewLinks(c, q) ==
  /\ link' \in [Clients -> [Clients -> Seq(Envelope)]]
  /\ \A a, b \in Clients : \A k \in ToSet(link'[a][b]) :
       k \in ToSet(link[a][b]) \/ (a = c /\ Carries(k, q.agent))

\* Channels that lose packets only
Shrunk(links) ==
  /\ links \in [Clients -> [Clients -> Seq(Envelope)]]
  /\ \A a, b \in Clients : ToSet(links[a][b]) \subseteq ToSet(link[a][b])

Kinds == {"media-key", "media-ack", "agent-key", "agent-ack"}
LEMMA SendToFacts ==
  ASSUME NEW c \in Clients, NEW d \in Clients, NEW p \in Client, NEW n \in Nat,
         NEW kind \in Kinds
  PROVE  /\ SendTo(c, d, p, kind, n) \in Seq(Envelope)
         /\ \A k \in ToSet(SendTo(c, d, p, kind, n)) : k.kind = kind /\ k.n = n /\ k.m = p.m /\ k.e = p.e
<1> DEFINE k == Packet(kind, n, c, d, p)
           s == SendTo(c, d, p, kind, n)
<1>1. p.m \in Nat /\ p.e \in Nat /\ p.key \in Nat /\ p.ring[d] \in Nat BY FieldTypes
<1>2. k \in Envelope BY <1>1 DEF Packet, Envelope, Kinds
<1>3. k.kind = kind /\ k.n = n /\ k.m = p.m /\ k.e = p.e BY DEF Packet
<1> HIDE DEF k
<1>4. s = <<>> \/ s = <<k>> BY DEF SendTo, k
<1>5. <<>> \in Seq(Envelope) /\ <<k>> \in Seq(Envelope) BY <1>2
<1>6. ToSet(<<>>) = {} /\ ToSet(<<k>>) = {k} BY EmptySet
<1> HIDE DEF s
<1>7. s \in Seq(Envelope) BY <1>4, <1>5
<1>8. ToSet(s) \subseteq {k} BY <1>4, <1>6
<1>9. \A x \in ToSet(s) : x = k BY <1>8
<1> QED BY <1>3, <1>7, <1>9 DEF s

\* The same about one packet.
LEMMA SentPacket ==
  ASSUME NEW c \in Clients, NEW d \in Clients, NEW p \in Client, NEW n \in Nat,
         NEW kind \in Kinds, NEW s, s = SendTo(c, d, p, kind, n), NEW k \in ToSet(s)
  PROVE  k.kind = kind /\ k.n = n /\ k.m = p.m /\ k.e = p.e
BY SendToFacts

LEMMA BecomeFacts ==
  ASSUME TypeOK, NEW c \in Clients, NEW p \in Client, AgentStep(c, p), NEW links, Shrunk(links), Become(c, p, links)
  PROVE  \E q \in Client :
           /\ cl' = [cl EXCEPT ![c] = q] /\ SameMesh(p, q) /\ q.stable = p.stable /\ q.rcv = p.rcv
           /\ AgentStep(c, q) /\ NewLinks(c, q)
<1> DEFINE q == Told(c, p)
<1>1. /\ q \in Client /\ SameMesh(p, q) /\ q.stable = p.stable /\ q.rcv = p.rcv
      /\ SameAgent(p.agent, q.agent) /\ q.agent.told \subseteq p.agent.told \cup p.peers
  BY ToldFacts
<1>2. cl' = [cl EXCEPT ![c] = q] BY DEF Become
<1> HIDE DEF q
<1>3. AgentStep(c, q)
  <2>1. p.agent.told \subseteq p.peers BY DEF AgentStep
  <2>2. q.agent.told \subseteq q.peers BY <1>1, <2>1 DEF SameMesh
  <2>3. CASE SameAgent(cl[c].agent, p.agent)
    BY <2>2, <2>3, <1>1 DEF AgentStep, SameAgent
  <2>4. CASE DropsAgent(p.agent)
    BY <2>2, <2>4, <1>1 DEF AgentStep, SameAgent, DropsAgent
  <2>5. CASE StartsAgent(c, p)
    BY <2>2, <2>5, <1>1 DEF AgentStep, SameAgent, StartsAgent, SameMesh, SameEpochs
  <2> QED BY <2>3, <2>4, <2>5 DEF AgentStep
<1> DEFINE M(d) == IF p.out[d] \notin {NoOut, cl[c].out[d]} THEN SendTo(c, d, p, "media-key", p.out[d].n) ELSE <<>>
           A(d) == IF p.agent.n \notin {0, cl[c].agent.n} /\ d \in p.peers
                   THEN SendTo(c, d, p, "agent-key", p.agent.n) ELSE <<>>
<1>4. link' = [links EXCEPT ![c] = [d \in Clients |-> @[d] \o M(d) \o A(d)]] BY DEF Become, Send
<1>5. ASSUME NEW d \in Clients
      PROVE  M(d) \in Seq(Envelope) /\ \A k \in ToSet(M(d)) : k.kind = "media-key"
  <2>1. p.out[d].n \in Nat BY FieldTypes
  <2>2. ToSet(<<>>) = {} BY EmptySet
  <2>3. CASE M(d) = <<>>
    <3> HIDE DEF M
    <3> QED BY <2>2, <2>3
  <2>4. CASE M(d) = SendTo(c, d, p, "media-key", p.out[d].n)
    <3> HIDE DEF M
    <3>1. "media-key" \in Kinds BY DEF Kinds
    <3>2. M(d) \in Seq(Envelope) BY <2>1, <2>4, <3>1, SendToFacts
    <3>3. ASSUME NEW k \in ToSet(M(d)) PROVE k.kind = "media-key" BY <2>1, <2>4, <3>1, <3>3, SendToFacts
    <3> QED BY <3>2, <3>3
  <2> QED BY <2>3, <2>4
<1>6. ASSUME NEW d \in Clients
      PROVE  A(d) \in Seq(Envelope) /\ \A k \in ToSet(A(d)) : Carries(k, q.agent)
  <2>1. p.agent.n \in Nat BY FieldTypes
  <2>2. ToSet(<<>>) = {} BY EmptySet
  <2>3. CASE A(d) = <<>>
    <3> HIDE DEF A
    <3> QED BY <2>2, <2>3
  <2>4. CASE A(d) # <<>>
    <3>1. A(d) = SendTo(c, d, p, "agent-key", p.agent.n) /\ p.agent.n # 0 /\ p.agent.n # cl[c].agent.n BY <2>4
    <3>2. StartsAgent(c, p) BY <3>1 DEF AgentStep, SameAgent, DropsAgent
    <3>3. p.agent.m = p.m /\ p.agent.e = p.e /\ p.agent.n # 0 BY <3>1, <3>2 DEF StartsAgent
    <3> HIDE DEF A
    <3> DEFINE s == SendTo(c, d, p, "agent-key", p.agent.n)
    <3>4. s \in Seq(Envelope) /\ \A k \in ToSet(s) : k.kind = "agent-key" /\ k.n = p.agent.n /\ k.m = p.m /\ k.e = p.e
      <4>1. "agent-key" \in Kinds BY DEF Kinds
      <4>2. s \in Seq(Envelope) BY <2>1, <4>1, SendToFacts
      <4>3. ASSUME NEW k \in ToSet(s) PROVE k.kind = "agent-key" /\ k.n = p.agent.n /\ k.m = p.m /\ k.e = p.e
        BY <2>1, <4>1, <4>3, SendToFacts
      <4> QED BY <4>2, <4>3
    <3>5. A(d) = s BY <3>1
    <3> HIDE DEF s
    <3> QED BY <3>3, <3>4, <3>5, <1>1 DEF Carries, SameAgent
  <2> QED BY <2>3, <2>4
<1> HIDE DEF M, A
<1>7. \A d \in Clients : links[c][d] \in Seq(Envelope) BY DEF Shrunk
<1>8. \A d \in Clients : (links[c][d] \o M(d)) \o A(d) \in Seq(Envelope) BY <1>5, <1>6, <1>7
<1>9. link' \in [Clients -> [Clients -> Seq(Envelope)]]
  <2>1. links \in [Clients -> [Clients -> Seq(Envelope)]] BY DEF Shrunk
  <2> QED BY <1>4, <1>8, <2>1
<1>10. ASSUME NEW a \in Clients, NEW b \in Clients, NEW k \in ToSet(link'[a][b])
       PROVE  k \in ToSet(link[a][b]) \/ (a = c /\ Carries(k, q.agent))
  <2>1. ToSet(links[a][b]) \subseteq ToSet(link[a][b]) BY DEF Shrunk
  <2>2. CASE a # c
    <3>1. link'[a][b] = links[a][b] BY <2>2, <1>4 DEF Shrunk
    <3> QED BY <3>1, <2>1, <1>10
  <2>3. CASE a = c
    <3>1. link'[a][b] = (links[a][b] \o M(b)) \o A(b) BY <2>3, <1>4 DEF Shrunk
    <3>2. links[a][b] \in Seq(Envelope) /\ links[a][b] \o M(b) \in Seq(Envelope) BY <1>5, <1>7, <2>3
    <3>3. ToSet(link'[a][b]) = ToSet(links[a][b] \o M(b)) \cup ToSet(A(b)) BY <3>1, <3>2, <1>6, ToSetConcat, ZenonT(60)
    <3>4. ToSet(links[a][b] \o M(b)) = ToSet(links[a][b]) \cup ToSet(M(b)) BY <3>2, <1>5, ToSetConcat
    <3>5. CASE k \in ToSet(links[a][b]) BY <3>5, <2>1
    <3>6. CASE k \in ToSet(M(b)) BY <3>6, <1>5, <2>3 DEF Carries
    <3>7. CASE k \in ToSet(A(b)) BY <3>7, <1>6, <2>3
    <3> QED BY <1>10, <3>3, <3>4, <3>5, <3>6, <3>7
  <2> QED BY <2>2, <2>3
<1>11. NewLinks(c, q) BY <1>9, <1>10 DEF NewLinks
<1> QED BY <1>1, <1>2, <1>3, <1>11

\* Channels with nothing cut, and with one direction or both cut.
LEMMA ShrunkFacts ==
  ASSUME TypeOK, NEW c \in Clients, NEW d \in Clients
  PROVE  Shrunk(link) /\ Shrunk(Cut(c, d)) /\ Shrunk([Cut(c, d) EXCEPT ![d][c] = <<>>])
<1>1. link \in [Clients -> [Clients -> Seq(Envelope)]] /\ <<>> \in Seq(Envelope) BY DEF TypeOK
<1>2. ToSet(<<>>) = {} BY EmptySet
<1>3. Shrunk(link) BY <1>1 DEF Shrunk
<1>4. Cut(c, d) \in [Clients -> [Clients -> Seq(Envelope)]] BY <1>1 DEF Cut
<1>5. \A a, b \in Clients : Cut(c, d)[a][b] = link[a][b] \/ Cut(c, d)[a][b] = <<>> BY <1>1 DEF Cut
<1>6. Shrunk(Cut(c, d)) BY <1>2, <1>4, <1>5 DEF Shrunk
<1> DEFINE l == [Cut(c, d) EXCEPT ![d][c] = <<>>]
<1>7. l \in [Clients -> [Clients -> Seq(Envelope)]] BY <1>1, <1>4
<1>8. \A a, b \in Clients : l[a][b] = Cut(c, d)[a][b] \/ l[a][b] = <<>> BY <1>4
<1>9. \A a, b \in Clients : l[a][b] = link[a][b] \/ l[a][b] = <<>> BY <1>5, <1>8
<1> HIDE DEF l
<1>10. Shrunk(l) BY <1>2, <1>7, <1>9 DEF Shrunk
<1> QED BY <1>3, <1>6, <1>10 DEF l

\* The shared key after provisioning, for clients that keep or drop the one they have.
LEMMA ProvisionStep ==
  ASSUME TypeOK, Few, NEW c \in Clients, NEW p \in Client, AgentStep(c, p)
  PROVE  AgentStep(c, AgentProvisioned(c, p))
<1> DEFINE q == AgentProvisioned(c, p)
<1>1. q \in Client /\ SameMesh(p, q) /\ (q.agent = p.agent \/ (q.agent = NewAgent(c, p) /\ p.m > 0))
  BY AgentProvisionedFacts
<1> HIDE DEF q
<1>2. CASE q.agent = p.agent
  BY <1>1, <1>2 DEF AgentStep, StartsAgent, SameMesh, SameEpochs, q
<1>3. CASE q.agent = NewAgent(c, p) /\ p.m > 0
  <2>1. /\ q.agent.n = NewAgentKey(c, p) /\ q.agent.m = p.m /\ q.agent.e = p.e /\ q.agent.acked = {}
        /\ q.agent.told = {} /\ ~q.agent.active
    BY <1>3 DEF NewAgent, NoAgentKey
  <2>2. q.m = p.m /\ q.e = p.e BY <1>1 DEF SameMesh, SameEpochs
  <2>3. StartsAgent(c, q) BY <2>1, <2>2, <1>3, NewAgentKeyFacts DEF StartsAgent
  <2> QED BY <2>1, <2>3 DEF AgentStep, q
<1> QED BY <1>1, <1>2, <1>3

-----------------------------------------------------------------------------
(* Steps of one client: each part of the invariant *)

\* The member c becomes q; the others and their boxes stay as they are
Frame(c, q) ==
  /\ Joined(c) /\ room' = room /\ plan' = plan /\ q \in Client /\ cl' = [cl EXCEPT ![c] = q]
  /\ inbox' \in [Clients -> Seq(ServerMessage)] /\ outbox' \in [Clients -> Seq(ClientMessage)]
  /\ \A d \in Clients \ {c} : inbox'[d] = inbox[d] /\ outbox'[d] = outbox[d]
\* A message is taken from the inbox, or none
Takes(c) == inbox[c] # <<>> /\ inbox'[c] = Tail(inbox[c])
Reads(c) == inbox'[c] = inbox[c] \/ Takes(c)
\* A key goes out, or nothing
Announces(c, q) == outbox'[c] = Append(outbox[c], KeyOut(q.key))
Writes(c, q) == outbox'[c] = outbox[c] \/ Announces(c, q)

LEMMA FrameFacts ==
  ASSUME TypeOK, NEW c \in Clients, NEW q, Frame(c, q)
  PROVE  /\ cl'[c] = q /\ \A d \in Clients \ {c} : cl'[d] = cl[d]
         /\ \A d \in Clients : Joined(d)' <=> Joined(d)
         /\ \A d, e \in Clients : Members(d, e)' <=> Members(d, e)
         /\ cl' \in [Clients -> Client] /\ Joined(c)
         /\ \A d \in Clients : Ever(d) => Ever(d)'
         /\ \A d \in Clients : Ever(d)' => Ever(d)
<1>1. cl \in [Clients -> Client] BY DEF TypeOK
<1>2. cl'[c] = q /\ (\A d \in Clients \ {c} : cl'[d] = cl[d]) /\ cl' \in [Clients -> Client] BY <1>1 DEF Frame
<1>3. \A d \in Clients : Joined(d)' <=> Joined(d) BY DEF Frame, Joined
<1>4. \A d, e \in Clients : Members(d, e)' <=> Members(d, e) BY <1>3 DEF Members
<1>5. ASSUME NEW d \in Clients PROVE Ever(d)' <=> Ever(d)
  <2>1. CASE d = c BY <2>1, <1>3 DEF Frame, Ever
  <2>2. CASE d # c BY <2>2, <1>2, <1>3 DEF Ever
  <2> QED BY <2>1, <2>2
<1>6. Joined(c) BY DEF Frame
<1> QED BY <1>2, <1>3, <1>4, <1>5, <1>6

LEMMA ReadsFacts ==
  ASSUME TypeOK, NEW c \in Clients, Reads(c)
  PROVE  ToSet(inbox'[c]) \subseteq ToSet(inbox[c])
BY Types, ToSetTail DEF Reads, Takes

LEMMA WritesFacts ==
  ASSUME TypeOK, NEW c \in Clients, NEW q \in Client, Writes(c, q)
  PROVE  /\ \A x \in ToSet(outbox'[c]) : x \in ToSet(outbox[c]) \/ x = KeyOut(q.key)
         /\ \A d \in Clients : Places(outbox'[c], MarkerTo(d)) = Places(outbox[c], MarkerTo(d))
<1>1. q.key \in Nat BY FieldTypes
<1>2. KeyOut(q.key) \in ClientMessage BY <1>1 DEF KeyOut, ClientMessage
<1>3. outbox[c] \in Seq(ClientMessage) BY Types
<1>4. ASSUME NEW d \in Clients PROVE KeyOut(q.key) # MarkerTo(d) BY DEF KeyOut, MarkerTo
<1>5. CASE outbox'[c] = outbox[c] BY <1>5
<1>6. CASE Announces(c, q)
  <2>1. outbox'[c] = Append(outbox[c], KeyOut(q.key)) BY <1>6 DEF Announces
  <2>2. ToSet(outbox'[c]) = ToSet(outbox[c]) \cup {KeyOut(q.key)} BY <2>1, <1>2, <1>3, ToSetAppend
  <2>3. ASSUME NEW d \in Clients PROVE Places(outbox'[c], MarkerTo(d)) = Places(outbox[c], MarkerTo(d))
    <3> DEFINE x == KeyOut(q.key)
               y == MarkerTo(d)
    <3>1. x # y BY <1>4
    <3>2. outbox'[c] = Append(outbox[c], x) /\ x \in ClientMessage BY <2>1, <1>2
    <3> HIDE DEF x, y
    <3>3. Places(Append(outbox[c], x), y) = Places(outbox[c], y) \cup (IF x = y THEN {Len(outbox[c]) + 1} ELSE {})
      BY <3>2, <1>3, PlacesAppend
    <3> QED BY <3>1, <3>2, <3>3 DEF y
  <2> QED BY <2>2, <2>3
<1> QED BY <1>5, <1>6 DEF Writes

LEMMA TypesStep ==
  ASSUME TypeOK, NEW c \in Clients, NEW q, Frame(c, q),
         link' \in [Clients -> [Clients -> Seq(Envelope)]], left' \in [routes : Nat, resets : Nat]
  PROVE  TypeOK'
<1>1. room' = room /\ plan' = plan /\ inbox' \in [Clients -> Seq(ServerMessage)] /\ outbox' \in [Clients -> Seq(ClientMessage)]
  BY DEF Frame
<1>2. cl' \in [Clients -> Client] BY FrameFacts
<1> QED BY <1>1, <1>2 DEF TypeOK

LEMMA FewStep ==
  ASSUME TypeOK, Few, NEW c \in Clients, NEW q, Frame(c, q), \A d \in Clients : IsFiniteSet(q.rcv[d])
  PROVE  Few'
BY FrameFacts DEF Few

\* Packets of c are added, others may be lost.
LEMMA AbsentStep ==
  ASSUME TypeOK, TypeOK', Absent, NEW c \in Clients, NEW q, Frame(c, q),
         \A a \in Clients \ {c} : ~Joined(a) => \A b \in Clients : ToSet(link'[a][b]) \subseteq ToSet(link[a][b])
  PROVE  Absent'
<1> SUFFICES ASSUME NEW a \in Clients, ~Joined(a)'
             PROVE  /\ inbox'[a] = <<>> /\ outbox'[a] = <<>> /\ Blank(cl'[a])
                    /\ \A d \in Clients : link'[a][d] = <<>>
  BY DEF Absent, Blank
<1>1. ~Joined(a) /\ a # c BY FrameFacts
<1>2. inbox[a] = <<>> /\ outbox[a] = <<>> /\ Blank(cl[a]) /\ \A d \in Clients : link[a][d] = <<>>
  BY <1>1 DEF Absent
<1>3. inbox'[a] = inbox[a] /\ outbox'[a] = outbox[a] BY <1>1 DEF Frame
<1>4. cl'[a] = cl[a] BY <1>1, FrameFacts
<1>5. ASSUME NEW d \in Clients PROVE link'[a][d] = <<>>
  <2>1. link'[a][d] \in Seq(Envelope) BY DEF TypeOK
  <2>2. ToSet(link'[a][d]) = {} BY <1>1, <1>2, EmptySet
  <2> QED BY <2>1, <2>2, NothingIn
<1> QED BY <1>2, <1>3, <1>4, <1>5

LEMMA KnownStep ==
  ASSUME TypeOK, Known, NEW c \in Clients, NEW q, Frame(c, q), Reads(c),
         \A e \in q.peers : e \in cl[c].peers \/ Ever(e),
         \A e \in q.agent.acked : e \in cl[c].agent.acked \/ Ever(e),
         \A x \in ToSet(outbox'[c]) : x.kind = "marker" => x \in ToSet(outbox[c]) \/ Ever(x.to)
  PROVE  Known'
<1> SUFFICES ASSUME NEW e \in Clients, NEW d \in Clients, ~Ever(e)' PROVE Unknown(e, d)'
  BY DEF Known
<1>1. ~Ever(e) BY FrameFacts
<1>2. Unknown(e, d) BY <1>1 DEF Known
<1>3. CASE d # c
  <2>1. cl'[d] = cl[d] /\ inbox'[d] = inbox[d] /\ outbox'[d] = outbox[d] BY <1>3, FrameFacts DEF Frame
  <2> QED BY <2>1, <1>2 DEF Unknown
<1>4. CASE d = c
  <2>1. cl'[d] = q BY <1>4, FrameFacts
  <2>2. ToSet(inbox'[d]) \subseteq ToSet(inbox[d]) BY <1>4, ReadsFacts
  <2>3. e \notin q.peers /\ e \notin q.agent.acked BY <1>1, <1>2, <1>4 DEF Unknown
  <2>4. \A x \in ToSet(outbox'[d]) : x.kind = "marker" => x.to # e BY <1>1, <1>2, <1>4 DEF Unknown
  <2>5. \A x \in ToSet(inbox'[d]) :
          (x.kind \in {"peer-joined", "marker"} => x.from # e) /\ (x.kind = "welcome" => e \notin x.peers)
    BY <2>2, <1>2 DEF Unknown
  <2> QED BY <2>1, <2>3, <2>4, <2>5 DEF Unknown
<1> QED BY <1>3, <1>4

LEMMA ViewsStep ==
  ASSUME TypeOK, Views, NEW c \in Clients, NEW q, Frame(c, q), NEW a \in RoomView,
         Seen(c, q, a), Leads(c, inbox'[c], a, View(room))
  PROVE  Views'
<1> SUFFICES ASSUME NEW d \in Clients, Joined(d)'
             PROVE  \E b \in RoomView : Seen(d, cl'[d], b) /\ Leads(d, inbox'[d], b, View(room'))
  BY DEF Views, Seen, Leads, Follows, Moves, Changes, Start, View, RoomView
<1>1. View(room') = View(room) BY DEF Frame
<1>2. CASE d = c BY <1>1, <1>2, FrameFacts
<1>3. CASE d # c
  <2>1. cl'[d] = cl[d] /\ inbox'[d] = inbox[d] /\ Joined(d) BY <1>3, FrameFacts DEF Frame
  <2> QED BY <2>1, <1>1 DEF Views
<1> QED BY <1>2, <1>3

LEMMA ReadyStep ==
  ASSUME TypeOK, Ready, NEW c \in Clients, NEW q, Frame(c, q), HasKey(q)
  PROVE  Ready'
<1> SUFFICES ASSUME NEW d \in Clients PROVE HasKey(cl'[d]) BY DEF Ready, HasKey
<1> QED BY FrameFacts DEF Ready

LEMMA ShutStep ==
  ASSUME TypeOK, Shut, NEW c \in Clients, NEW q, Frame(c, q),
         \A d \in Clients : ~Joined(d) /\ q.key # 0 /\ q.key = cl[d].ring[c]
           => d \in q.peers \cup q.applied \/ LeftMessage(d) \in ToSet(inbox'[c])
  PROVE  Shut'
<1> SUFFICES ASSUME NEW x \in Clients, NEW d \in Clients PROVE ShutOut(x, d)' BY DEF Shut
<1>1. CASE d = c BY <1>1, FrameFacts DEF ShutOut
<1>2. CASE d # c /\ x = c
  <2>1. cl'[d] = cl[d] /\ cl'[x] = q /\ (Joined(d)' <=> Joined(d)) BY <1>2, FrameFacts
  <2> QED BY <2>1, <1>2 DEF ShutOut, LeftMessage
<1>3. CASE d # c /\ x # c
  <2>1. /\ cl'[d] = cl[d] /\ cl'[x] = cl[x] /\ (Joined(d)' <=> Joined(d)) /\ (Joined(x)' <=> Joined(x))
        /\ inbox'[x] = inbox[x]
    BY <1>3, FrameFacts DEF Frame
  <2> QED BY <2>1 DEF ShutOut, Shut, LeftMessage
<1> QED BY <1>1, <1>2, <1>3

\* A step of c leaves the request of x to y as it is, as far as it is under way.
LEMMA OneMarkerStep ==
  ASSUME TypeOK, NEW c \in Clients, NEW q \in Client, Frame(c, q), Reads(c),
         NEW x \in Clients, NEW y \in Clients, OneMarker(x, y),
         cl'[x].pc[y] = cl[x].pc[y], cl'[y].pc[x] = cl[y].pc[x],
         Places(outbox'[x], MarkerTo(y)) = Places(outbox[x], MarkerTo(y))
  PROVE  OneMarker(x, y)'
<1> DEFINE t == MarkerTo(y)
           f == MarkerFrom(x)
<1>1. CASE inbox'[y] = inbox[y]
  <2>1. Places(inbox'[y], f) = Places(inbox[y], f) BY <1>1
  <2> QED BY <2>1 DEF OneMarker, MarkerSent, MarkerArrived, MarkerTo, MarkerFrom, Places
<1>2. CASE inbox'[y] # inbox[y]
  <2>1. y = c /\ Takes(c) BY <1>2 DEF Frame, Reads
  <2>2. inbox[y] \in Seq(ServerMessage) /\ inbox[y] # <<>> /\ inbox'[y] = Tail(inbox[y]) BY <2>1, Types DEF Takes
  <2> HIDE DEF f
  <2>3. \A i \in Places(inbox'[y], f) : i + 1 \in Places(inbox[y], f) BY <2>2, PlacesTail
  <2>4. \A i \in Places(inbox'[y], f) : i \in Int BY DEF Places
  <2> USE DEF f
  <2>5. MarkerArrived(x, y)' => MarkerArrived(x, y) BY <2>3 DEF MarkerArrived, MarkerFrom, Places
  <2>6. MarkerSent(x, y)' <=> MarkerSent(x, y) BY DEF MarkerSent, MarkerTo, Places
  <2>7. \A i, j \in Places(inbox'[y], MarkerFrom(x)) : i = j
    <3> TAKE i, j \in Places(inbox'[y], MarkerFrom(x))
    <3>1. i + 1 = j + 1 BY <2>3 DEF OneMarker
    <3> QED BY <3>1, <2>4
  <2>8. \A i, j \in Places(outbox'[x], MarkerTo(y)) : i = j BY DEF OneMarker
  <2> QED BY <2>5, <2>6, <2>7, <2>8 DEF OneMarker, MarkerTo, MarkerFrom, Places
<1> QED BY <1>1, <1>2

LEMMA MarkedStep ==
  ASSUME TypeOK, Marked, NEW c \in Clients, NEW q \in Client, Frame(c, q), Reads(c), Writes(c, q), q.pc = cl[c].pc
  PROVE  Marked'
<1> SUFFICES ASSUME NEW x \in Clients, NEW y \in Clients, Members(x, y)' PROVE OneMarker(x, y)' BY DEF Marked
<1> DEFINE t == MarkerTo(y)
<1>1. Members(x, y) BY FrameFacts
<1>2. OneMarker(x, y) BY <1>1 DEF Marked
<1>3. cl'[x].pc = cl[x].pc /\ cl'[y].pc = cl[y].pc BY FrameFacts
<1>4. Places(outbox'[x], t) = Places(outbox[x], t)
  <2>1. CASE x = c BY <2>1, WritesFacts
  <2>2. CASE x # c BY <2>2 DEF Frame
  <2> QED BY <2>1, <2>2
<1> QED BY <1>2, <1>3, <1>4, OneMarkerStep

LEMMA UnresetStep ==
  ASSUME TypeOK, Unreset, NEW c \in Clients, NEW q \in Client, Frame(c, q), Reads(c), Writes(c, q), left' = left
  PROVE  Unreset'
<1>1. ToSet(inbox'[c]) \subseteq ToSet(inbox[c]) BY ReadsFacts
<1>2. \A x \in ToSet(outbox'[c]) : x \in ToSet(outbox[c]) \/ x = KeyOut(q.key) BY WritesFacts
<1>3. KeyOut(q.key).kind # "marker" BY DEF KeyOut
<1>4. plan' = plan /\ \A d \in Clients \ {c} : inbox'[d] = inbox[d] /\ outbox'[d] = outbox[d] BY DEF Frame
<1> SUFFICES ASSUME plan.resets = 0, NEW d \in Clients
             PROVE  /\ left.resets = 0
                    /\ \A x \in ToSet(inbox'[d]) : x.kind # "marker"
                    /\ \A x \in ToSet(outbox'[d]) : x.kind # "marker"
  BY <1>4 DEF Unreset
<1>5. /\ left.resets = 0
      /\ \A e \in Clients : \A x \in ToSet(inbox[e]) : x.kind # "marker"
      /\ \A e \in Clients : \A x \in ToSet(outbox[e]) : x.kind # "marker"
  BY DEF Unreset
<1>6. CASE d = c BY <1>1, <1>2, <1>3, <1>5, <1>6
<1>7. CASE d # c BY <1>4, <1>5, <1>7
<1> QED BY <1>6, <1>7

LEMMA AgentKeysStep ==
  ASSUME TypeOK, AgentKeys, NEW c \in Clients, NEW q, Frame(c, q), AgentStep(c, q), q.m >= cl[c].m, q.e >= cl[c].e
  PROVE  AgentKeys'
<1> SUFFICES ASSUME NEW d \in Clients PROVE AgentKey(cl'[d]) BY DEF AgentKeys, AgentKey
<1>1. CASE d # c BY <1>1, FrameFacts DEF AgentKeys
<1>2. CASE d = c
  <2>1. AgentKey(cl[c]) BY DEF AgentKeys
  <2>2. cl'[d] = q /\ q \in Client /\ cl[c] \in Client BY <1>2, FrameFacts, Types DEF Frame
  <2>3. /\ q.m \in Nat /\ q.e \in Nat /\ cl[c].m \in Nat /\ cl[c].e \in Nat
        /\ cl[c].agent.m \in Nat /\ cl[c].agent.e \in Nat
    BY <2>2, FieldTypes
  <2>4. CASE SameAgent(cl[c].agent, q.agent)
    BY <2>1, <2>2, <2>3, <2>4 DEF AgentKey, AgentStep, SameAgent
  <2>5. CASE DropsAgent(q.agent) BY <2>2, <2>5 DEF AgentKey, AgentStep, DropsAgent
  <2>6. CASE StartsAgent(c, q) BY <2>2, <2>3, <2>6 DEF AgentKey, AgentStep, StartsAgent
  <2> QED BY <2>4, <2>5, <2>6 DEF AgentStep
<1> QED BY <1>1, <1>2

LEMMA PacketsStep ==
  ASSUME TypeOK, Packets, NEW c \in Clients, NEW q, Frame(c, q), AgentStep(c, q), NewLinks(c, q)
  PROVE  Packets'
<1> SUFFICES ASSUME NEW a \in Clients, NEW d \in Clients, NEW k \in ToSet(link'[a][d])
             PROVE  /\ k.kind \in {"agent-key", "agent-ack"} => k.n # 0
                    /\ k.kind = "agent-key" /\ k.n = cl'[a].agent.n => k.m = cl'[a].agent.m /\ k.e = cl'[a].agent.e
  BY DEF Packets, PacketsOfKey
<1>1. k \in ToSet(link[a][d]) \/ (a = c /\ Carries(k, q.agent)) BY DEF NewLinks
<1>2. CASE a = c /\ Carries(k, q.agent) BY <1>2, FrameFacts DEF Carries
<1>3. CASE k \in ToSet(link[a][d]) /\ a # c BY <1>3, FrameFacts DEF Packets, PacketsOfKey
<1>4. CASE k \in ToSet(link[a][d]) /\ a = c
  <2>1. cl'[a] = q BY <1>4, FrameFacts
  <2>2. k.kind \in {"agent-key", "agent-ack"} => k.n # 0 BY <1>4 DEF Packets, PacketsOfKey
  <2>3. CASE SameAgent(cl[c].agent, q.agent) BY <2>1, <2>3, <1>4 DEF Packets, PacketsOfKey, SameAgent
  <2>4. CASE DropsAgent(q.agent) BY <2>1, <2>2, <2>4 DEF DropsAgent
  <2>5. CASE StartsAgent(c, q) BY <2>1, <2>2, <2>5, <1>4 DEF StartsAgent
  <2> QED BY <2>3, <2>4, <2>5 DEF AgentStep
<1> QED BY <1>1, <1>2, <1>3, <1>4

\* A later epoch, or the same one with the keys received in it
KeepsReceived(p, q) ==
  /\ q.m >= p.m /\ q.e >= p.e
  /\ plan.resets = 0 /\ q.stable /\ q.m = p.m /\ q.e = p.e /\ p.m > 0 => p.stable /\ q.rcv = p.rcv

LEMMA HeldStep ==
  ASSUME TypeOK, AgentKeys, AllHeld, NEW c \in Clients, NEW q, Frame(c, q), AgentStep(c, q), NewLinks(c, q),
         KeepsReceived(cl[c], q)
  PROVE  AllHeld'
<1> SUFFICES ASSUME NEW a \in Clients, NEW d \in Clients, Vouched(cl'[a].agent, d, ToSet(link'[d][a])), Joined(d)'
             PROVE  HoldsKey(cl'[a].agent, cl'[d], cl'[d].rcv[a])
  <2>1. plan' = plan BY DEF Frame
  <2> QED BY <2>1 DEF AllHeld, Held, Vouched, HoldsKey
<1>1. Joined(d) BY FrameFacts
<1>2. SameAgent(cl[a].agent, cl'[a].agent) /\ Vouched(cl[a].agent, d, ToSet(link[d][a]))
  <2>1. \A k \in ToSet(link'[d][a]) : k.kind = "agent-ack" => k \in ToSet(link[d][a]) BY DEF NewLinks, Carries
  <2>2. CASE a # c
    <3>1. cl'[a] = cl[a] BY <2>2, FrameFacts
    <3> QED BY <3>1, <2>1 DEF Vouched, SameAgent
  <2>3. CASE a = c
    <3>1. cl'[a] = q BY <2>3, FrameFacts
    <3>2. CASE SameAgent(cl[c].agent, q.agent) BY <3>1, <3>2, <2>1, <2>3 DEF Vouched, SameAgent
    <3>3. CASE DropsAgent(q.agent) BY <3>1, <3>3 DEF DropsAgent, Vouched
    <3>4. CASE StartsAgent(c, q) BY <3>1, <3>4, <2>1, <2>3 DEF StartsAgent, Vouched
    <3> QED BY <3>2, <3>3, <3>4 DEF AgentStep
  <2> QED BY <2>2, <2>3
<1>3. HoldsKey(cl[a].agent, cl[d], cl[d].rcv[a]) BY <1>1, <1>2 DEF AllHeld, Held
<1>4. CASE d # c
  <2>1. cl'[d] = cl[d] BY <1>4, FrameFacts
  <2> QED BY <2>1, <1>1, <1>2, <1>3 DEF HoldsKey, SameAgent
<1>5. CASE d = c
  <2> DEFINE p == cl[c]
             g == cl[a].agent
  <2>1. cl'[d] = q BY <1>5, FrameFacts
  <2>2. g.m > 0
    <3>1. g.n # 0 BY <1>2 DEF AgentKeys, AgentKey, Vouched
    <3> QED BY <3>1 DEF AgentKeys, AgentKey
  <2>3. q.m \in Nat /\ q.e \in Nat /\ p.m \in Nat /\ p.e \in Nat /\ g.m \in Nat /\ g.e \in Nat
    BY FieldTypes, Types DEF Frame
  <2>4. q.m >= p.m /\ q.e >= p.e /\ p.m >= g.m /\ p.e >= g.e BY <1>3, <1>5 DEF KeepsReceived, HoldsKey
  <2>5. q.m >= g.m /\ q.e >= g.e BY <2>3, <2>4
  <2>6. ASSUME plan.resets = 0, q.stable, q.m = g.m, q.e = g.e PROVE g.n \in q.rcv[a]
    <3>1. q.m = p.m /\ q.e = p.e /\ p.m > 0 BY <2>2, <2>3, <2>4, <2>6
    <3>2. p.stable /\ q.rcv = p.rcv BY <3>1, <2>6 DEF KeepsReceived
    <3>3. p.m = g.m /\ p.e = g.e BY <3>1, <2>6
    <3> QED BY <3>2, <3>3, <2>6, <1>3, <1>5 DEF HoldsKey
  <2> QED BY <2>1, <2>5, <2>6, <1>1, <1>2 DEF HoldsKey, SameAgent
<1> QED BY <1>4, <1>5

\* The epoch of c is its old one or that of the topology it has taken
Epoch(c, q) == q.m = cl[c].m \/ (Takes(c) /\ Head(inbox[c]).kind = "topology" /\ q.m = Head(inbox[c]).m)

LEMMA NewerStep ==
  ASSUME TypeOK, NEW c \in Clients, NEW q, Frame(c, q), Reads(c), Epoch(c, q), NEW d \in Clients, NEW x, Newer(d, x)
  PROVE  Newer(d, x)'
<1>1. room' = room BY DEF Frame
<1>2. CASE d # c
  <2>1. cl'[d] = cl[d] /\ inbox'[d] = inbox[d] BY <1>2, FrameFacts DEF Frame
  <2> QED BY <2>1, <1>1 DEF Newer
<1>3. CASE d = c
  <2>1. cl'[d] = q BY <1>3, FrameFacts
  <2>2. ToSet(inbox'[d]) \subseteq ToSet(inbox[d]) BY <1>3, ReadsFacts
  <2>3. q.m = 0 \/ q.m > x
    <3>1. CASE q.m = cl[c].m BY <3>1, <1>3 DEF Newer
    <3>2. CASE Takes(c) /\ Head(inbox[c]).kind = "topology" /\ q.m = Head(inbox[c]).m
      <4>1. Head(inbox[c]) \in ToSet(inbox[c]) BY <3>2, Types, ToSetTail DEF Takes
      <4> QED BY <4>1, <3>2, <1>3 DEF Newer
    <3> QED BY <3>1, <3>2 DEF Epoch
  <2> QED BY <2>1, <2>2, <2>3, <1>1 DEF Newer
<1> QED BY <1>2, <1>3

LEMMA LaterStep ==
  ASSUME TypeOK, AllLater, NEW c \in Clients, NEW q, Frame(c, q), Reads(c), Epoch(c, q), AgentStep(c, q),
         \A d \in Clients : d \in q.peers \ cl[c].peers /\ Joined(d) /\ cl[c].agent.active => Newer(d, cl[c].agent.m)
  PROVE  AllLater'
<1> SUFFICES ASSUME NEW a \in Clients, NEW d \in Clients,
                    cl'[a].agent.active, d \in cl'[a].peers \ cl'[a].agent.acked, Joined(d)',
                    NEW x, x = cl'[a].agent.m
             PROVE  Newer(d, x)'
  BY DEF AllLater, Later, Newer
<1>1. Joined(d) BY FrameFacts
<1>2. Newer(d, x)
  <2>1. CASE a # c
    <3>1. cl'[a] = cl[a] BY <2>1, FrameFacts
    <3> QED BY <3>1, <1>1 DEF AllLater, Later
  <2>2. CASE a = c
    <3>1. cl'[a] = q BY <2>2, FrameFacts
    <3>2. SameAgent(cl[c].agent, q.agent) BY <3>1 DEF AgentStep, DropsAgent, StartsAgent
    <3>3. cl[c].agent.active /\ d \notin cl[c].agent.acked /\ q.agent.m = cl[c].agent.m BY <3>1, <3>2 DEF SameAgent
    <3>4. CASE d \in cl[c].peers BY <3>1, <3>3, <3>4, <1>1 DEF AllLater, Later
    <3>5. CASE d \notin cl[c].peers BY <3>1, <3>3, <3>5, <1>1
    <3> QED BY <3>4, <3>5
  <2> QED BY <2>1, <2>2
<1> QED BY <1>2, NewerStep

LEMMA NewcomerStep ==
  ASSUME TypeOK, Newcomers, NEW c \in Clients, NEW q, Frame(c, q), Reads(c), Epoch(c, q)
  PROVE  Newcomers'
<1> SUFFICES ASSUME NEW a \in Clients, NEW d \in Clients, NEW i \in 1..Len(inbox'[a]),
                    inbox'[a][i] = JoinMessage(d), Joined(d)', NEW x,
                    x = cl'[a].m \/ \E j \in 1..(i - 1) : inbox'[a][j].kind = "topology" /\ x = inbox'[a][j].m
             PROVE  Newer(d, x)'
  BY DEF Newcomers, Newcomer, Newer, JoinMessage
<1>1. Joined(d) BY FrameFacts
<1>2. Newer(d, x)
  <2>1. CASE inbox'[a] = inbox[a] /\ cl'[a].m = cl[a].m BY <2>1, <1>1 DEF Newcomers, Newcomer
  <2>2. CASE ~(inbox'[a] = inbox[a] /\ cl'[a].m = cl[a].m)
    <3>1. a = c /\ cl'[a] = q BY <2>2, FrameFacts DEF Frame
    <3>2. Takes(c) BY <2>2, <3>1 DEF Reads, Epoch
    <3> DEFINE s == inbox[c]
    <3>3. s \in Seq(ServerMessage) /\ s # <<>> /\ inbox'[a] = Tail(s) BY <3>1, <3>2, Types DEF Takes
    <3> HIDE DEF s
    <3>4. Len(Tail(s)) = Len(s) - 1 /\ Len(s) \in Nat /\ Head(s) = s[1] /\ \A j \in 1..Len(Tail(s)) : Tail(s)[j] = s[j + 1]
      BY <3>3
    <3>5. i + 1 \in 1..Len(s) /\ s[i + 1] = JoinMessage(d) /\ i \in Nat BY <3>3, <3>4
    <3>6. /\ Newer(d, cl[c].m)
          /\ \A j \in 1..((i + 1) - 1) : s[j].kind = "topology" => Newer(d, s[j].m)
      BY <3>5, <1>1 DEF Newcomers, Newcomer, s
    <3>7. CASE x = cl'[a].m
      <4>1. CASE q.m = cl[c].m BY <4>1, <3>1, <3>6, <3>7
      <4>2. CASE Head(s).kind = "topology" /\ q.m = Head(s).m
        <5>1. 1 \in 1..((i + 1) - 1) BY <3>3
        <5> QED BY <5>1, <4>2, <3>1, <3>4, <3>6, <3>7
      <4> QED BY <4>1, <4>2 DEF Epoch, s
    <3>8. CASE \E j \in 1..(i - 1) : inbox'[a][j].kind = "topology" /\ x = inbox'[a][j].m
      <4>1. PICK j \in 1..(i - 1) : inbox'[a][j].kind = "topology" /\ x = inbox'[a][j].m BY <3>8
      <4>2. inbox'[a][j] = s[j + 1] /\ j + 1 \in 1..((i + 1) - 1) BY <3>3, <3>4, <3>5
      <4> QED BY <4>1, <4>2, <3>6
    <3> QED BY <3>7, <3>8
  <2> QED BY <2>1, <2>2
<1> QED BY <1>2, NewerStep

\* What c has of the key of y: it is being imported or in use
Has(p, y, k) == p.m = room.m /\ (p.imports[y] = k \/ (p.imports[y] = 0 /\ p.ring[y] = k))
\* c takes up the present key of y, and keeps it while y says nothing new
Hears(c, q, y) ==
  /\ Takes(c) /\ Head(inbox[c]) = KeyFrom(y, cl[y].key, room.m) => Has(q, y, cl[y].key)
  /\ Has(cl[c], y, cl[y].key) /\ (Takes(c) => Head(inbox[c]) \notin About(y)) => Has(q, y, cl[y].key)
\* c has no present key, announces it last or says nothing, asked or not
KeepsWord(c, q) ==
  \/ q.m # room.m \/ q.key = 0
  \/ \E s \in Seq(ClientMessage) : outbox'[c] = Append(s, KeyOut(q.key))
  \/ /\ q.m = cl[c].m /\ q.key = cl[c].key /\ outbox'[c] = outbox[c]
     /\ \A x \in Clients : Takes(c) /\ Members(x, c) => Head(inbox[c]) # MarkerFrom(x)

LEMMA FedReader ==
  ASSUME TypeOK, AllFed, NEW c \in Clients, NEW q, Frame(c, q), Reads(c), NEW y \in Clients, Members(c, y),
         Asked(c, y) => Asked(c, y)', Hears(c, q, y)
  PROVE  Fed(c, y)'
<1> SUFFICES ASSUME cl'[y].m = room.m, cl'[y].key # 0
             PROVE  (Announced(c, y) \/ Arriving(c, y) \/ Arrived(c, y) \/ Asked(c, y))'
  BY DEF Fed, Frame
<1>1. cl'[y] = cl[y] /\ outbox'[y] = outbox[y] /\ y # c /\ cl'[c] = q /\ room' = room
  BY FrameFacts DEF Frame, Members
<1>2. Announced(c, y) \/ Arriving(c, y) \/ Arrived(c, y) \/ Asked(c, y) BY <1>1 DEF AllFed, Fed
<1> DEFINE k == KeyFrom(y, cl[y].key, room.m)
           S == About(y)
           W == Without(outbox[y], Concerning(c))
<1>3. /\ Arriving(c, y) <=> W /\ Ends(inbox[c], S, k)
      /\ Arriving(c, y)' <=> W /\ Ends(inbox'[c], S, k)
      /\ Arrived(c, y) <=> W /\ Without(inbox[c], S) /\ Has(cl[c], y, cl[y].key)
      /\ Arrived(c, y)' <=> W /\ Without(inbox'[c], S) /\ Has(q, y, cl[y].key)
  BY <1>1 DEF Arriving, Arrived, Has, Concerning, About, KeyFrom, KeyOut, MarkerTo, MarkerFrom, Without, Ends
<1>4. k \in S
  <2>1. cl[y].key \in Nat /\ room.m \in Nat BY Types, FieldTypes DEF TypeOK
  <2> QED BY <2>1 DEF About
<1>5. CASE Announced(c, y)
  <2>1. Announced(c, y)' BY <1>1, <1>5 DEF Announced, Concerning, KeyOut, MarkerTo, Ends
  <2> QED BY <2>1
<1>6. CASE Asked(c, y) BY <1>6
<1> HIDE DEF k, S, W
<1>7. CASE inbox'[c] = inbox[c] /\ ~Takes(c)
  <2>1. CASE Arriving(c, y) BY <2>1, <1>3, <1>7
  <2>2. CASE Arrived(c, y)
    <3>1. Has(q, y, cl[y].key) BY <2>2, <1>3, <1>7 DEF Hears
    <3> QED BY <3>1, <2>2, <1>3, <1>7
  <2> QED BY <2>1, <2>2, <1>2, <1>5, <1>6
<1>8. CASE Takes(c)
  <2> DEFINE s == inbox[c]
  <2>1. s \in Seq(ServerMessage) /\ s # <<>> /\ inbox'[c] = Tail(s) BY <1>8, Types DEF Takes
  <2> HIDE DEF s
  <2>2. CASE Arriving(c, y)
    <3>1. W /\ Ends(s, S, k) BY <2>2, <1>3 DEF s
    <3>2. Ends(Tail(s), S, k) \/ (Head(s) = k /\ Without(Tail(s), S)) BY <3>1, <2>1, EndsTail
    <3>3. Head(s) = k => Has(q, y, cl[y].key) BY <1>8 DEF Hears, k, s
    <3> QED BY <3>1, <3>2, <3>3, <2>1, <1>3
  <2>3. CASE Arrived(c, y)
    <3>1. W /\ Without(s, S) /\ Has(cl[c], y, cl[y].key) BY <2>3, <1>3 DEF s
    <3>2. Without(Tail(s), S) /\ Head(s) \notin S BY <3>1, <2>1, EndsTail
    <3>3. Has(q, y, cl[y].key) BY <3>1, <3>2 DEF Hears, S, s
    <3> QED BY <3>1, <3>2, <3>3, <2>1, <1>3
  <2> QED BY <2>2, <2>3, <1>2, <1>5, <1>6
<1> QED BY <1>7, <1>8 DEF Reads

LEMMA FedWriter ==
  ASSUME TypeOK, AllFed, NEW c \in Clients, NEW q, Frame(c, q), Reads(c), NEW x \in Clients, Members(x, c), KeepsWord(c, q)
  PROVE  Fed(x, c)'
<1> SUFFICES ASSUME q.m = room.m, q.key # 0
             PROVE  (Announced(x, c) \/ Arriving(x, c) \/ Arrived(x, c) \/ Asked(x, c))'
  BY FrameFacts DEF Fed, Frame
<1>1. cl'[x] = cl[x] /\ outbox'[x] = outbox[x] /\ inbox'[x] = inbox[x] /\ x # c /\ cl'[c] = q /\ room' = room
  BY FrameFacts DEF Frame, Members
<1>2. CASE \E s \in Seq(ClientMessage) : outbox'[c] = Append(s, KeyOut(q.key))
  <2>1. PICK s \in Seq(ClientMessage) : outbox'[c] = Append(s, KeyOut(q.key)) BY <1>2
  <2>2. q.key \in Nat BY FieldTypes DEF Frame
  <2>3. KeyOut(q.key) \in ClientMessage BY <2>2 DEF KeyOut, ClientMessage
  <2>4. Ends(outbox'[c], Concerning(x), KeyOut(q.key)) BY <2>1, <2>3, EndsAppend
  <2>5. Announced(x, c)' BY <2>4, <1>1 DEF Announced, Concerning, KeyOut, MarkerTo, Ends
  <2> QED BY <2>5
<1>3. CASE /\ q.m = cl[c].m /\ q.key = cl[c].key /\ outbox'[c] = outbox[c]
           /\ Takes(c) => Head(inbox[c]) # MarkerFrom(x)
  <2>1. Announced(x, c) \/ Arriving(x, c) \/ Arrived(x, c) \/ Asked(x, c) BY <1>3 DEF AllFed, Fed
  <2>2. CASE Announced(x, c)
    <3>1. Announced(x, c)' BY <2>2, <1>1, <1>3 DEF Announced, Concerning, KeyOut, MarkerTo, Ends
    <3> QED BY <3>1
  <2>3. CASE Arriving(x, c)
    <3>1. Arriving(x, c)'
      BY <2>3, <1>1, <1>3, SMTT(30) DEF Arriving, Concerning, About, KeyFrom, KeyOut, MarkerTo, MarkerFrom, Without, Ends
    <3> QED BY <3>1
  <2>4. CASE Arrived(x, c)
    <3>1. Arrived(x, c)'
      BY <2>4, <1>1, <1>3 DEF Arrived, Concerning, About, KeyFrom, KeyOut, MarkerTo, MarkerFrom, Without
    <3> QED BY <3>1
  <2>5. CASE Asked(x, c)
    <3>1. CASE MarkerSent(x, c)
      <4>1. MarkerSent(x, c)' BY <3>1, <1>1 DEF MarkerSent, MarkerTo, Places
      <4> QED BY <4>1 DEF Asked
    <3>2. CASE MarkerArrived(x, c)
      <4> DEFINE s == inbox[c]
                 f == MarkerFrom(x)
      <4>1. Places(s, f) # {} BY <3>2 DEF MarkerArrived
      <4>2. s \in Seq(ServerMessage) BY Types
      <4>3. Takes(c) => Head(s) # f BY <1>3
      <4>4. Places(inbox'[c], f) # {}
        <5> HIDE DEF s, f
        <5>1. CASE inbox'[c] = s BY <5>1, <4>1
        <5>2. CASE Takes(c)
          <6>1. s # <<>> /\ inbox'[c] = Tail(s) /\ Head(s) # f BY <5>2, <4>3 DEF Takes, s
          <6> QED BY <6>1, <4>1, <4>2, PlacesTail
        <5> QED BY <5>1, <5>2 DEF Reads, s
      <4>5. MarkerArrived(x, c)' BY <4>4 DEF MarkerArrived, MarkerFrom, Places
      <4> QED BY <4>5 DEF Asked
    <3> QED BY <3>1, <3>2, <2>5 DEF Asked
  <2> QED BY <2>1, <2>2, <2>3, <2>4, <2>5
<1> QED BY <1>2, <1>3 DEF KeepsWord

LEMMA FedStep ==
  ASSUME TypeOK, AllFed, NEW c \in Clients, NEW q, Frame(c, q), Reads(c), KeepsWord(c, q),
         \A y \in Clients : Members(c, y) => Hears(c, q, y) \/ MarkerSent(c, y)',
         \A y \in Clients : MarkerSent(c, y) => MarkerSent(c, y)'
  PROVE  AllFed'
<1> SUFFICES ASSUME NEW x \in Clients, NEW y \in Clients, Members(x, y)' PROVE Fed(x, y)' BY DEF AllFed, Fed
<1>1. Members(x, y) /\ x # y BY FrameFacts DEF Members
<1>2. CASE x = c
  <2>1. inbox'[y] = inbox[y] BY <1>1, <1>2 DEF Frame
  <2>2. MarkerArrived(x, y) => MarkerArrived(x, y)' BY <2>1 DEF MarkerArrived, MarkerFrom, Places
  <2>3. Asked(c, y) => Asked(c, y)' BY <2>2, <1>2 DEF Asked
  <2>4. MarkerSent(c, y)' => Fed(c, y)' BY DEF Fed, Asked
  <2> QED BY <2>3, <2>4, <1>1, <1>2, FedReader
<1>3. CASE y = c BY <1>1, <1>3, FedWriter
<1>4. CASE x # c /\ y # c
  <2>1. /\ cl'[x] = cl[x] /\ cl'[y] = cl[y] /\ inbox'[x] = inbox[x] /\ inbox'[y] = inbox[y]
        /\ outbox'[x] = outbox[x] /\ outbox'[y] = outbox[y] /\ room' = room
    BY <1>4, FrameFacts DEF Frame
  <2>2. Fed(x, y) BY DEF AllFed
  <2>3. Announced(x, y) => Announced(x, y)' BY <2>1 DEF Announced, Concerning, KeyOut, MarkerTo, Ends
  <2>4. Arriving(x, y) => Arriving(x, y)'
    BY <2>1 DEF Arriving, Concerning, About, KeyFrom, KeyOut, MarkerTo, MarkerFrom, Without, Ends
  <2>5. Arrived(x, y) => Arrived(x, y)'
    BY <2>1 DEF Arrived, Concerning, About, KeyFrom, KeyOut, MarkerTo, MarkerFrom, Without
  <2>6. Asked(x, y) => Asked(x, y)'
    BY <2>1 DEF Asked, MarkerSent, MarkerArrived, MarkerTo, MarkerFrom, Places
  <2> QED BY <2>1, <2>2, <2>3, <2>4, <2>5, <2>6, <1>1 DEF Fed
<1> QED BY <1>2, <1>3, <1>4

-----------------------------------------------------------------------------
(* Steps of one client that rebuild no connection *)

\* c sees a view of the room that the messages under way lead from
Looks(c, q) == \E a \in RoomView : Seen(c, q, a) /\ Leads(c, inbox'[c], a, View(room))
\* Whoever left with the key of c is in q's books, or its departure under way
Guards(c, q) == \A d \in Clients : ~Joined(d) /\ q.key # 0 /\ q.key = cl[d].ring[c]
  => d \in q.peers \cup q.applied \/ LeftMessage(d) \in ToSet(inbox'[c])
\* New peers have been in the room and came after the shared key
Greets(c, q) == \A d \in q.peers \ cl[c].peers :
  Ever(d) /\ (Joined(d) /\ cl[c].agent.active => Newer(d, cl[c].agent.m))

\* All that concerns the membership, and then the overlay keys
RoomStep(c, q) ==
  Frame(c, q) /\ Reads(c) /\ Epoch(c, q) /\ Looks(c, q) /\ HasKey(q) /\ Guards(c, q) /\ Greets(c, q)
MeshStep(c, q) ==
  /\ RoomStep(c, q) /\ KeepsWord(c, q)
  /\ \A y \in Clients : Members(c, y) => Hears(c, q, y)
PlainStep(c, q) == MeshStep(c, q) /\ Writes(c, q) /\ left' = left /\ q.pc = cl[c].pc
\* All that concerns the shared key
KeyStep(c, q) ==
  /\ AgentStep(c, q) /\ NewLinks(c, q) /\ KeepsReceived(cl[c], q)
  /\ \A d \in Clients : IsFiniteSet(q.rcv[d])

MeshParts == TypeOK /\ Few /\ Absent /\ Known /\ Views /\ Started /\ Ready /\ Shut /\ Marked /\ AllFed /\ Unreset
KeyParts == AgentKeys /\ Packets /\ AllHeld /\ AllLater /\ Newcomers
LEMMA Parts ==
  IInv <=> MeshParts /\ KeyParts
BY DEF IInv, MeshParts, KeyParts

LEMMA RoomStepFacts ==
  ASSUME MeshParts, NEW c \in Clients, NEW q, RoomStep(c, q)
  PROVE  Views' /\ Started' /\ Ready' /\ Shut'
<1> USE DEF MeshParts
<1>1. Views'
  <2>1. PICK a \in RoomView : Seen(c, q, a) /\ Leads(c, inbox'[c], a, View(room)) BY DEF RoomStep, Looks
  <2> QED BY <2>1, ViewsStep DEF RoomStep
<1>2. Started' BY DEF RoomStep, Frame, Started
<1>3. Ready' BY ReadyStep DEF RoomStep
<1>4. Shut' BY ShutStep DEF RoomStep, Guards
<1> QED BY <1>1, <1>2, <1>3, <1>4

LEMMA KeyStepFacts ==
  ASSUME MeshParts, KeyParts, NEW c \in Clients, NEW q, RoomStep(c, q), KeyStep(c, q), left' \in [routes : Nat, resets : Nat]
  PROVE  TypeOK' /\ Few' /\ Absent' /\ KeyParts'
<1> USE DEF MeshParts, KeyParts
<1>1. TypeOK' BY TypesStep DEF RoomStep, KeyStep, NewLinks
<1>2. Few' BY FewStep DEF RoomStep, KeyStep
<1>3. Absent'
  <2>1. \A a \in Clients \ {c} : \A b \in Clients : ToSet(link'[a][b]) \subseteq ToSet(link[a][b])
    BY DEF KeyStep, NewLinks
  <2> QED BY <2>1, <1>1, AbsentStep DEF RoomStep
<1>4. AgentKeys' BY AgentKeysStep DEF RoomStep, KeyStep, KeepsReceived
<1>5. Packets' BY PacketsStep DEF RoomStep, KeyStep
<1>6. AllHeld' BY HeldStep DEF RoomStep, KeyStep
<1>7. AllLater'
  <2>1. \A d \in Clients : d \in q.peers \ cl[c].peers /\ Joined(d) /\ cl[c].agent.active => Newer(d, cl[c].agent.m)
    BY DEF RoomStep, Greets
  <2> QED BY <2>1, LaterStep DEF RoomStep, KeyStep
<1>8. Newcomers' BY NewcomerStep DEF RoomStep
<1> QED BY <1>1, <1>2, <1>3, <1>4, <1>5, <1>6, <1>7, <1>8

LEMMA PlainMarks ==
  ASSUME MeshParts, NEW c \in Clients, NEW q, PlainStep(c, q)
  PROVE  Marked' /\ AllFed' /\ Unreset'
<1> USE DEF MeshParts
<1>1. q \in Client BY DEF PlainStep, MeshStep, RoomStep, Frame
<1>2. Marked' BY <1>1, MarkedStep DEF PlainStep, MeshStep, RoomStep
<1>3. Unreset' BY <1>1, UnresetStep DEF PlainStep, MeshStep, RoomStep
<1>4. \A y \in Clients : MarkerSent(c, y) => MarkerSent(c, y)'
  <2>1. \A d \in Clients : Places(outbox'[c], MarkerTo(d)) = Places(outbox[c], MarkerTo(d))
    BY <1>1, WritesFacts DEF PlainStep
  <2> QED BY <2>1 DEF MarkerSent, MarkerTo, Places
<1>5. AllFed' BY <1>4, FedStep DEF PlainStep, MeshStep, RoomStep
<1> QED BY <1>2, <1>3, <1>5

LEMMA PlainStepInvariant ==
  ASSUME IInv, NEW c \in Clients, NEW q, PlainStep(c, q), KeyStep(c, q)
  PROVE  IInv'
<1>1. MeshParts /\ KeyParts BY Parts
<1>2. TypeOK /\ left' = left /\ MeshStep(c, q) /\ RoomStep(c, q) BY <1>1 DEF MeshParts, PlainStep, MeshStep, RoomStep
<1>3. left' \in [routes : Nat, resets : Nat] BY <1>2 DEF TypeOK
<1>4. TypeOK' /\ Few' /\ Absent' /\ KeyParts' BY <1>1, <1>2, <1>3, KeyStepFacts
<1>5. Views' /\ Started' /\ Ready' /\ Shut' BY <1>1, <1>2, RoomStepFacts
<1>6. Marked' /\ AllFed' /\ Unreset' BY <1>1, PlainMarks
<1>7. Known'
  <2>1. \A e \in q.peers : e \in cl[c].peers \/ Ever(e) BY <1>2 DEF MeshStep, RoomStep, Greets
  <2>2. \A e \in q.agent.acked : e \in cl[c].agent.acked \/ Ever(e)
    BY DEF KeyStep, AgentStep, SameAgent, DropsAgent, StartsAgent
  <2>3. \A x \in ToSet(outbox'[c]) : x.kind = "marker" => x \in ToSet(outbox[c]) \/ Ever(x.to)
    <3>1. \A x \in ToSet(outbox'[c]) : x \in ToSet(outbox[c]) \/ x = KeyOut(q.key)
      BY <1>2, WritesFacts DEF PlainStep, MeshStep, RoomStep, Frame
    <3>2. KeyOut(q.key).kind # "marker" BY DEF KeyOut
    <3> QED BY <3>1, <3>2
  <2> QED BY <2>1, <2>2, <2>3, <1>1, <1>2, KnownStep DEF MeshParts, MeshStep, RoomStep
<1>8. MeshParts' BY <1>4, <1>5, <1>6, <1>7 DEF MeshParts
<1>9. KeyParts' BY <1>4
<1> QED BY <1>8, <1>9, Parts, PTL

\* Steps that leave membership and overlay keys alone
LEMMA SameMeshStep ==
  ASSUME MeshParts, NEW c \in Clients, NEW q, Frame(c, q), SameMesh(cl[c], q), q.stable = cl[c].stable,
         inbox'[c] = inbox[c], Writes(c, q)
  PROVE  MeshStep(c, q)
<1> USE DEF MeshParts, SameMesh, SameEpochs, SamePair, SameRing
<1>1. Reads(c) /\ Epoch(c, q) BY DEF Reads, Epoch
<1>2. Joined(c) BY DEF Frame
<1>3. Looks(c, q)
  <2>1. PICK a \in RoomView : Seen(c, cl[c], a) /\ Leads(c, inbox[c], a, View(room)) BY <1>2 DEF Views
  <2>2. Seen(c, q, a) BY <2>1 DEF Seen
  <2> QED BY <2>1, <2>2 DEF Looks
<1>4. HasKey(q) BY DEF Ready, HasKey
<1>5. Guards(c, q) BY <1>2 DEF Shut, ShutOut, Guards
<1>6. Greets(c, q) BY DEF Greets
<1>7. ~Takes(c)
  <2>1. inbox[c] \in Seq(ServerMessage) BY Types
  <2>2. inbox[c] # <<>> => Tail(inbox[c]) # inbox[c] BY <2>1, TailShorter
  <2> QED BY <2>2 DEF Takes
<1>8. KeepsWord(c, q)
  <2>1. outbox[c] \in Seq(ClientMessage) BY Types
  <2> QED BY <2>1, <1>7 DEF KeepsWord, Writes, Announces
<1>9. \A y \in Clients : Members(c, y) => Hears(c, q, y) BY <1>7 DEF Hears, Has
<1> QED BY <1>1, <1>3, <1>4, <1>5, <1>6, <1>8, <1>9 DEF MeshStep, RoomStep

-----------------------------------------------------------------------------
(* Steps without a message from the server *)

Pops(c) == inbox[c] # <<>> /\ inbox' = [inbox EXCEPT ![c] = Tail(@)]

LEMMA FrameFrom ==
  ASSUME TypeOK, NEW c \in Clients, NEW q \in Client, Joined(c), room' = room, plan' = plan,
         cl' = [cl EXCEPT ![c] = q], inbox' = inbox \/ Pops(c),
         outbox' = outbox \/ \E ms \in Seq(ClientMessage) : Tell(c, ms)
  PROVE  Frame(c, q) /\ Reads(c)
<1>1. inbox \in [Clients -> Seq(ServerMessage)] /\ outbox \in [Clients -> Seq(ClientMessage)] BY DEF TypeOK
<1>2. /\ inbox' \in [Clients -> Seq(ServerMessage)] /\ Reads(c)
      /\ \A d \in Clients \ {c} : inbox'[d] = inbox[d]
  <2>1. CASE inbox' = inbox BY <2>1, <1>1 DEF Reads
  <2>2. CASE Pops(c)
    <3>1. Tail(inbox[c]) \in Seq(ServerMessage) BY <2>2, <1>1, ToSetTail DEF Pops
    <3> QED BY <3>1, <2>2, <1>1 DEF Reads, Takes, Pops
  <2> QED BY <2>1, <2>2
<1>3. /\ outbox' \in [Clients -> Seq(ClientMessage)]
      /\ \A d \in Clients \ {c} : outbox'[d] = outbox[d]
  <2>1. CASE outbox' = outbox BY <2>1, <1>1
  <2>2. CASE \E ms \in Seq(ClientMessage) : Tell(c, ms)
    <3>1. PICK ms \in Seq(ClientMessage) : Tell(c, ms) BY <2>2
    <3>2. outbox[c] \o ms \in Seq(ClientMessage) BY <1>1
    <3> QED BY <3>1, <3>2, <1>1 DEF Tell
  <2> QED BY <2>1, <2>2
<1> QED BY <1>2, <1>3 DEF Frame

LEMMA TellFacts ==
  ASSUME TypeOK, NEW c \in Clients, NEW p \in Client, NEW q, q.key = p.key, Tell(c, Announcement(p))
  PROVE  /\ \E ms \in Seq(ClientMessage) : Tell(c, ms)
         /\ Writes(c, q) /\ (q.key # 0 => Announces(c, q))
<1>1. outbox \in [Clients -> Seq(ClientMessage)] /\ outbox[c] \in Seq(ClientMessage) BY DEF TypeOK
<1>2. outbox'[c] = outbox[c] \o Announcement(p) BY <1>1 DEF Tell
<1>3. CASE p.key = 0
  <2>1. Announcement(p) = <<>> BY <1>3 DEF Announcement
  <2>2. <<>> \in Seq(ClientMessage) /\ outbox[c] \o <<>> = outbox[c] BY <1>1
  <2> QED BY <2>1, <2>2, <1>2, <1>3 DEF Writes
<1>4. CASE p.key # 0
  <2>1. Announcement(p) = <<KeyOut(p.key)>> BY <1>4 DEF Announcement, KeyOut
  <2>2. p.key \in Nat BY FieldTypes
  <2>3. KeyOut(p.key) \in ClientMessage BY <2>2 DEF KeyOut, ClientMessage
  <2>4. <<KeyOut(p.key)>> \in Seq(ClientMessage) /\ outbox[c] \o <<KeyOut(p.key)>> = Append(outbox[c], KeyOut(p.key))
    BY <2>3, <1>1
  <2> QED BY <2>1, <2>4, <1>2 DEF Writes, Announces
<1> QED BY <1>3, <1>4

LEMMA SameKeyStep ==
  ASSUME MeshParts, KeyParts, NEW c \in Clients, NEW q, SameMesh(cl[c], q), q.stable = cl[c].stable, q.rcv = cl[c].rcv,
         SameAgent(cl[c].agent, q.agent), q.agent.told \subseteq q.peers, NewLinks(c, q)
  PROVE  KeyStep(c, q)
<1>1. AgentStep(c, q) BY DEF AgentStep
<1>2. cl[c].m \in Nat /\ cl[c].e \in Nat BY Types, FieldTypes DEF MeshParts
<1>3. KeepsReceived(cl[c], q) BY <1>2 DEF KeepsReceived, SameMesh, SameEpochs
<1>4. \A d \in Clients : IsFiniteSet(q.rcv[d]) BY DEF MeshParts, Few
<1> QED BY <1>1, <1>3, <1>4 DEF KeyStep

\* The same packets.
LEMMA SameLinks ==
  ASSUME TypeOK, NEW c \in Clients, NEW q, link' = link
  PROVE  NewLinks(c, q)
BY DEF TypeOK, NewLinks

\* The present client is one it may become.
LEMMA StayFacts ==
  ASSUME MeshParts, KeyParts, NEW c \in Clients
  PROVE  /\ cl[c] \in Client /\ SameMesh(cl[c], cl[c]) /\ SameAgent(cl[c].agent, cl[c].agent)
         /\ cl[c].agent.told \subseteq cl[c].peers /\ AgentStep(c, cl[c])
<1>1. cl[c] \in Client BY Types DEF MeshParts
<1>2. cl[c].agent.told \subseteq cl[c].peers BY DEF KeyParts, AgentKeys, AgentKey
<1> QED BY <1>1, <1>2 DEF SameMesh, SameEpochs, SamePair, SameRing, SameAgent, AgentStep

LEMMA LeaseExpiresStep ==
  ASSUME IInv, NEW c \in Clients, LeaseExpires(c)
  PROVE  IInv'
<1> DEFINE q == [cl[c] EXCEPT !.routed = FALSE]
<1>1. MeshParts /\ KeyParts BY Parts
<1> USE DEF MeshParts, LeaseExpires
<1>2. cl[c] \in Client /\ cl \in [Clients -> Client] BY <1>1, Types DEF TypeOK
<1>3. Joined(c) BY <1>1 DEF Absent, Blank
<1>4. q \in Client BY <1>2 DEF Client
<1>5. cl' = [cl EXCEPT ![c] = q] BY <1>2
<1>6. SameMesh(cl[c], q) /\ q.stable = cl[c].stable /\ q.rcv = cl[c].rcv /\ q.agent = cl[c].agent
  BY <1>2 DEF SameMesh, SameEpochs, SamePair, SameRing, Client
<1> HIDE DEF q
<1>7. Frame(c, q) BY <1>1, <1>3, <1>4, <1>5, FrameFrom
<1>8. Writes(c, q) BY DEF Writes
<1>9. MeshStep(c, q) BY <1>1, <1>6, <1>7, <1>8, SameMeshStep
<1>10. PlainStep(c, q) BY <1>6, <1>8, <1>9 DEF PlainStep, SameMesh
<1>11. KeyStep(c, q)
  <2>1. NewLinks(c, q) BY <1>1, SameLinks
  <2>2. SameAgent(cl[c].agent, q.agent) /\ q.agent.told \subseteq q.peers BY <1>1, <1>6, StayFacts DEF SameAgent, SameMesh
  <2> QED BY <2>1, <2>2, <1>1, <1>6, SameKeyStep
<1> QED BY <1>10, <1>11, PlainStepInvariant

LEMMA RetryMediaKeyStep ==
  ASSUME IInv, NEW c \in Clients, NEW d \in Clients, RetryMediaKey(c, d)
  PROVE  IInv'
<1> DEFINE q == cl[c]
           s == SendTo(c, d, q, "media-key", q.out[d].n)
<1>1. MeshParts /\ KeyParts BY Parts
<1> USE DEF MeshParts
<1>2. q \in Client /\ cl \in [Clients -> Client] BY <1>1, Types DEF TypeOK
<1>3. Joined(c) BY <1>1 DEF Absent, Blank, RetryMediaKey
<1>4. cl' = [cl EXCEPT ![c] = q] /\ left' = left /\ outbox' = outbox /\ inbox' = inbox /\ room' = room /\ plan' = plan
  BY <1>2 DEF RetryMediaKey
<1>5. link' = [link EXCEPT ![c][d] = @ \o s] BY DEF RetryMediaKey
<1> HIDE DEF q
<1>6. SameMesh(cl[c], q) /\ q = cl[c] BY <1>1, StayFacts DEF q
<1>7. Frame(c, q) BY <1>1, <1>2, <1>3, <1>4, FrameFrom
<1>8. Writes(c, q) BY <1>4 DEF Writes
<1>9. MeshStep(c, q) BY <1>1, <1>4, <1>6, <1>7, <1>8, SameMeshStep
<1>10. PlainStep(c, q) BY <1>4, <1>6, <1>8, <1>9 DEF PlainStep
<1>11. NewLinks(c, q)
  <2>1. q.out[d].n \in Nat BY <1>2, FieldTypes
  <2>2. "media-key" \in Kinds BY DEF Kinds
  <2>3. s \in Seq(Envelope) BY <1>2, <2>1, <2>2, SendToFacts
  <2>4. ASSUME NEW k \in ToSet(s) PROVE k.kind = "media-key"
    <3>1. s = SendTo(c, d, q, "media-key", q.out[d].n) OBVIOUS
    <3> HIDE DEF s
    <3> QED BY <1>2, <2>1, <2>2, <2>4, <3>1, SentPacket
  <2> HIDE DEF s
  <2>5. link \in [Clients -> [Clients -> Seq(Envelope)]] /\ link[c][d] \o s \in Seq(Envelope) BY <1>1, <2>3 DEF TypeOK
  <2>6. link' \in [Clients -> [Clients -> Seq(Envelope)]] BY <2>5, <1>5
  <2>7. ToSet(link[c][d] \o s) = ToSet(link[c][d]) \cup ToSet(s) BY <2>3, <2>5, ToSetConcat
  <2>8. ASSUME NEW a \in Clients, NEW b \in Clients, NEW k \in ToSet(link'[a][b])
        PROVE  k \in ToSet(link[a][b]) \/ (a = c /\ Carries(k, q.agent))
    <3>1. CASE a = c /\ b = d
      <4>1. link'[a][b] = link[a][b] \o s BY <3>1, <2>5, <1>5
      <4> QED BY <4>1, <3>1, <2>4, <2>7, <2>8 DEF Carries
    <3>2. CASE ~(a = c /\ b = d)
      <4>1. link'[a][b] = link[a][b] BY <3>2, <2>5, <1>5
      <4> QED BY <4>1, <2>8
    <3> QED BY <3>1, <3>2
  <2> QED BY <2>6, <2>8 DEF NewLinks
<1>12. KeyStep(c, q) BY <1>1, <1>6, <1>11, SameKeyStep, StayFacts
<1> QED BY <1>10, <1>12, PlainStepInvariant

LEMMA RetryAgentKeyStep ==
  ASSUME IInv, NEW c \in Clients, RetryAgentKey(c)
  PROVE  IInv'
<1> DEFINE p == cl[c]
           a == p.agent
           to == {d \in p.peers \ a.acked : p.key # 0 /\ p.ring[d] # 0 /\ Up(c, d)}
           q == [p EXCEPT !.agent.told = @ \cup to]
           S(d) == IF d \in to THEN SendTo(c, d, p, "agent-key", a.n) ELSE <<>>
<1>1. MeshParts /\ KeyParts BY Parts
<1>2. p \in Client /\ cl \in [Clients -> Client] BY <1>1, Types DEF MeshParts, TypeOK
<1>3. /\ a.n # 0 /\ a.m = p.m /\ a.e = p.e
      /\ link' = [link EXCEPT ![c] = [d \in Clients |-> @[d] \o S(d)]]
      /\ cl' = [cl EXCEPT ![c].agent.told = @ \cup to]
      /\ room' = room /\ inbox' = inbox /\ outbox' = outbox /\ left' = left /\ plan' = plan
  BY DEF RetryAgentKey
<1>4. Joined(c)
  <2>1. p.agent # NoAgentKey BY <1>3 DEF NoAgentKey
  <2> QED BY <2>1, <1>1 DEF MeshParts, Absent, Blank
<1>5. cl' = [cl EXCEPT ![c] = q]
  <2> HIDE DEF to
  <2> QED BY <1>2, <1>3
<1>6. to \in SUBSET Clients /\ to \subseteq p.peers BY <1>2, FieldTypes
<1>7. \A d \in Clients : S(d) = <<>> \/ S(d) = SendTo(c, d, p, "agent-key", a.n) OBVIOUS
<1> HIDE DEF to
<1>8. q \in Client BY <1>2, <1>6 DEF Client
<1>9. /\ SameMesh(p, q) /\ q.stable = p.stable /\ q.rcv = p.rcv
      /\ SameAgent(a, q.agent) /\ q.agent.told = a.told \cup to
  BY <1>2 DEF SameMesh, SameEpochs, SamePair, SameRing, SameAgent, Client
<1> HIDE DEF q, S
<1>10. Frame(c, q) BY <1>1, <1>3, <1>4, <1>5, <1>8, FrameFrom DEF MeshParts
<1>11. Writes(c, q) BY <1>3 DEF Writes
<1>12. MeshStep(c, q) BY <1>1, <1>3, <1>9, <1>10, <1>11, SameMeshStep
<1>13. PlainStep(c, q) BY <1>3, <1>9, <1>11, <1>12 DEF PlainStep, SameMesh
<1>14. ASSUME NEW d \in Clients PROVE S(d) \in Seq(Envelope) /\ \A k \in ToSet(S(d)) : Carries(k, q.agent)
  <2>1. a.n \in Nat BY <1>2, FieldTypes
  <2>2. "agent-key" \in Kinds BY DEF Kinds
  <2>3. ToSet(<<>>) = {} BY EmptySet
  <2>4. CASE S(d) = <<>> BY <2>3, <2>4
  <2>5. CASE S(d) = SendTo(c, d, p, "agent-key", a.n)
    <3> DEFINE s == S(d)
    <3>1. s \in Seq(Envelope) BY <1>2, <2>1, <2>2, <2>5, SendToFacts
    <3>2. ASSUME NEW k \in ToSet(s) PROVE Carries(k, q.agent)
      <4> HIDE DEF s
      <4>1. s = SendTo(c, d, p, "agent-key", a.n) BY <2>5 DEF s
      <4>2. k.kind = "agent-key" /\ k.n = a.n /\ k.m = p.m /\ k.e = p.e BY <1>2, <2>1, <2>2, <3>2, <4>1, SentPacket
      <4> QED BY <4>2, <1>3, <1>9 DEF Carries, SameAgent
    <3> QED BY <3>1, <3>2
  <2> QED BY <1>7, <2>4, <2>5
<1>15. NewLinks(c, q)
  <2>1. link \in [Clients -> [Clients -> Seq(Envelope)]] BY <1>1 DEF MeshParts, TypeOK
  <2>2. \A d \in Clients : link[c][d] \o S(d) \in Seq(Envelope) BY <2>1, <1>14
  <2>3. link' \in [Clients -> [Clients -> Seq(Envelope)]] BY <2>1, <2>2, <1>3
  <2>4. ASSUME NEW x \in Clients, NEW y \in Clients, NEW k \in ToSet(link'[x][y])
        PROVE  k \in ToSet(link[x][y]) \/ (x = c /\ Carries(k, q.agent))
    <3>1. CASE x = c
      <4>1. link'[x][y] = link[x][y] \o S(y) /\ link[x][y] \in Seq(Envelope) BY <3>1, <2>1, <1>3
      <4>2. ToSet(link[x][y] \o S(y)) = ToSet(link[x][y]) \cup ToSet(S(y)) BY <4>1, <1>14, ToSetConcat
      <4> QED BY <4>1, <4>2, <3>1, <2>4, <1>14
    <3>2. CASE x # c
      <4>1. link'[x][y] = link[x][y] BY <3>2, <2>1, <1>3
      <4> QED BY <4>1, <2>4
    <3> QED BY <3>1, <3>2
  <2> QED BY <2>3, <2>4 DEF NewLinks
<1>16. KeyStep(c, q)
  <2>1. q.agent.told \subseteq q.peers BY <1>1, <1>6, <1>9, StayFacts DEF SameMesh
  <2> QED BY <2>1, <1>1, <1>9, <1>15, SameKeyStep
<1> QED BY <1>13, <1>16, PlainStepInvariant

\* A step after which c sends keys: what it becomes, up to the note of who was told.
LEMMA BecomeKeyStep ==
  ASSUME MeshParts, NEW c \in Clients, NEW p \in Client, NEW q \in Client,
         SameMesh(p, q), q.stable = p.stable, q.rcv = p.rcv, AgentStep(c, q), NewLinks(c, q),
         KeepsReceived(cl[c], p), \A d \in Clients : IsFiniteSet(p.rcv[d])
  PROVE  KeyStep(c, q)
BY DEF KeyStep, KeepsReceived, SameMesh, SameEpochs

LEMMA RecoveryStep ==
  ASSUME IInv, NEW c \in Clients, Recovery(c)
  PROVE  IInv'
<1> DEFINE o == cl[c]
           p == Provisioned(c, o, Clients)
<1>1. MeshParts /\ KeyParts BY Parts
<1>2. o \in Client BY <1>1, Types DEF MeshParts
<1>3. /\ o.peers # {} /\ Become(c, p, link) /\ Tell(c, Announcement(o))
      /\ room' = room /\ inbox' = inbox /\ left' = left /\ plan' = plan
  BY DEF Recovery
<1>4. Joined(c) BY <1>1, <1>3 DEF MeshParts, Absent, Blank
<1>5. p \in Client /\ SameMesh(o, p) /\ p.stable = o.stable /\ SameKeys(o, p)
  BY <1>1, <1>2, ProvisionedFacts DEF MeshParts
<1> HIDE DEF p
<1>6. AgentStep(c, p) BY <1>1, <1>5, StayFacts DEF AgentStep, SameMesh, SameKeys
<1>7. Shrunk(link) BY <1>1, ShrunkFacts DEF MeshParts
<1>8. PICK q \in Client :
        /\ cl' = [cl EXCEPT ![c] = q] /\ SameMesh(p, q) /\ q.stable = p.stable /\ q.rcv = p.rcv
        /\ AgentStep(c, q) /\ NewLinks(c, q)
  BY <1>1, <1>3, <1>5, <1>6, <1>7, BecomeFacts DEF MeshParts
<1>9. SameMesh(o, q) /\ q.stable = o.stable /\ q.key = o.key
  BY <1>5, <1>8 DEF SameMesh, SameEpochs, SamePair, SameRing
<1>10. (\E ms \in Seq(ClientMessage) : Tell(c, ms)) /\ Writes(c, q)
  BY <1>1, <1>2, <1>3, <1>9, TellFacts DEF MeshParts
<1>11. Frame(c, q) BY <1>1, <1>3, <1>4, <1>8, <1>10, FrameFrom DEF MeshParts
<1>12. MeshStep(c, q) BY <1>1, <1>3, <1>9, <1>10, <1>11, SameMeshStep
<1>13. PlainStep(c, q) BY <1>3, <1>9, <1>10, <1>12 DEF PlainStep, SameMesh
<1>14. KeyStep(c, q)
  <2>1. o.m \in Nat /\ o.e \in Nat BY <1>2, FieldTypes
  <2>2. KeepsReceived(o, p) BY <2>1, <1>5 DEF KeepsReceived, SameMesh, SameEpochs, SameKeys
  <2>3. \A d \in Clients : IsFiniteSet(p.rcv[d]) BY <1>1, <1>5 DEF MeshParts, Few, SameKeys
  <2> QED BY <2>2, <2>3, <1>1, <1>5, <1>8, BecomeKeyStep
<1> QED BY <1>13, <1>14, PlainStepInvariant

\* A step of c by itself that keeps its epochs and peers.
LEMMA StillRoom ==
  ASSUME MeshParts, NEW c \in Clients, NEW q, Frame(c, q), q.peers = cl[c].peers, q.stable = cl[c].stable,
         SameEpochs(cl[c], q), inbox'[c] = inbox[c], HasKey(q), Guards(c, q)
  PROVE  RoomStep(c, q) /\ ~Takes(c)
<1>1. Reads(c) /\ Epoch(c, q) BY DEF Reads, Epoch, SameEpochs
<1>2. Joined(c) BY DEF Frame
<1>3. Looks(c, q)
  <2>1. PICK a \in RoomView : Seen(c, cl[c], a) /\ Leads(c, inbox[c], a, View(room)) BY <1>2 DEF MeshParts, Views
  <2>2. Seen(c, q, a) BY <2>1 DEF Seen, SameEpochs
  <2> QED BY <2>1, <2>2 DEF Looks
<1>4. Greets(c, q) BY DEF Greets
<1>5. ~Takes(c)
  <2>1. inbox[c] \in Seq(ServerMessage) BY Types DEF MeshParts
  <2>2. inbox[c] # <<>> => Tail(inbox[c]) # inbox[c] BY <2>1, TailShorter
  <2> QED BY <2>2 DEF Takes
<1> QED BY <1>1, <1>3, <1>4, <1>5 DEF RoomStep

LEMMA StillStep ==
  ASSUME MeshParts, NEW c \in Clients, NEW q, Frame(c, q), q.peers = cl[c].peers, q.stable = cl[c].stable,
         SameEpochs(cl[c], q), inbox'[c] = inbox[c], HasKey(q), Guards(c, q), KeepsWord(c, q),
         \A y \in Clients : Has(cl[c], y, cl[y].key) => Has(q, y, cl[y].key)
  PROVE  MeshStep(c, q)
<1>1. RoomStep(c, q) /\ ~Takes(c) BY StillRoom
<1>2. \A y \in Clients : Members(c, y) => Hears(c, q, y) BY <1>1 DEF Hears
<1> QED BY <1>1, <1>2 DEF MeshStep

LEMMA OverlayKeyMadeStep ==
  ASSUME IInv, NEW c \in Clients, OverlayKeyMade(c)
  PROVE  IInv'
<1> DEFINE o == cl[c]
           k == NewOverlayKey(c)
           q == [o EXCEPT !.making = FALSE, !.key = k]
<1>1. MeshParts /\ KeyParts BY Parts
<1>2. o \in Client /\ cl \in [Clients -> Client] BY <1>1, Types DEF MeshParts, TypeOK
<1>3. k \in Nat \ {0} /\ \A d \in Clients : k # cl[d].ring[c] BY <1>1, NewOverlayKeyFacts DEF MeshParts
<1>4. /\ o.making /\ cl' = [cl EXCEPT ![c].making = FALSE, ![c].key = k] /\ Tell(c, <<KeyOut(k)>>)
      /\ room' = room /\ inbox' = inbox /\ link' = link /\ left' = left /\ plan' = plan
  BY DEF OverlayKeyMade, KeyOut
<1> HIDE DEF k
<1>5. Joined(c) BY <1>1, <1>4 DEF MeshParts, Absent, Blank
<1>6. q \in Client BY <1>2, <1>3 DEF Client
<1>7. cl' = [cl EXCEPT ![c] = q] BY <1>2, <1>4
<1>8. /\ q.peers = o.peers /\ q.pc = o.pc /\ q.stable = o.stable /\ SameEpochs(o, q) /\ SameRing(o, q) /\ SameKeys(o, q)
      /\ q.key = k /\ ~q.making
  BY <1>2 DEF SameEpochs, SameRing, SameKeys, Client
<1> HIDE DEF q
<1>9. KeyOut(k) \in ClientMessage BY <1>3 DEF KeyOut, ClientMessage
<1>10. <<KeyOut(k)>> \in Seq(ClientMessage) BY <1>9
<1>11. Frame(c, q) BY <1>1, <1>4, <1>5, <1>6, <1>7, <1>10, FrameFrom DEF MeshParts
<1>12. outbox[c] \in Seq(ClientMessage) /\ outbox'[c] = Append(outbox[c], KeyOut(k))
  <2>1. outbox \in [Clients -> Seq(ClientMessage)] BY <1>1 DEF MeshParts, TypeOK
  <2>2. outbox'[c] = outbox[c] \o <<KeyOut(k)>> BY <2>1, <1>4 DEF Tell
  <2> QED BY <2>1, <2>2, <1>9
<1>13. Writes(c, q) /\ KeepsWord(c, q) BY <1>8, <1>12 DEF Writes, Announces, KeepsWord
<1>14. HasKey(q) BY <1>3, <1>8 DEF HasKey
<1>15. Guards(c, q) BY <1>3, <1>8 DEF Guards
<1>16. \A y \in Clients : Has(o, y, cl[y].key) => Has(q, y, cl[y].key) BY <1>8 DEF Has, SameEpochs, SameRing
<1>17. MeshStep(c, q) BY <1>1, <1>4, <1>8, <1>11, <1>13, <1>14, <1>15, <1>16, StillStep
<1>18. PlainStep(c, q) BY <1>4, <1>8, <1>13, <1>17 DEF PlainStep
<1>19. KeyStep(c, q)
  <2>1. AgentStep(c, q) BY <1>1, <1>8, StayFacts DEF AgentStep, SameKeys
  <2>2. NewLinks(c, q) BY <1>1, <1>4, SameLinks DEF MeshParts
  <2>3. o.m \in Nat /\ o.e \in Nat BY <1>2, FieldTypes
  <2>4. KeepsReceived(o, q) BY <2>3, <1>8 DEF KeepsReceived, SameEpochs, SameKeys
  <2>5. \A d \in Clients : IsFiniteSet(q.rcv[d]) BY <1>1, <1>8 DEF MeshParts, Few, SameKeys
  <2> QED BY <2>1, <2>2, <2>4, <2>5 DEF KeyStep
<1> QED BY <1>18, <1>19, PlainStepInvariant

LEMMA ImportOverlayKeyStep ==
  ASSUME IInv, NEW c \in Clients, NEW d \in Clients, ImportOverlayKey(c, d)
  PROVE  IInv'
<1> DEFINE o == cl[c]
           b == [o EXCEPT !.ring[d] = o.imports[d], !.imports[d] = 0]
           p == Provisioned(c, b, {d})
<1>1. MeshParts /\ KeyParts BY Parts
<1>2. o \in Client /\ o.imports \in [Clients -> Nat] BY <1>1, Types, FieldTypes DEF MeshParts
<1>3. /\ o.imports[d] # 0 /\ Become(c, p, link)
      /\ room' = room /\ inbox' = inbox /\ outbox' = outbox /\ left' = left /\ plan' = plan
  BY DEF ImportOverlayKey
<1>4. Joined(c)
  <2>1. o.imports # None BY <1>3 DEF None
  <2> QED BY <2>1, <1>1 DEF MeshParts, Absent, Blank
<1>5. b \in Client BY <1>2 DEF Client
<1>6. /\ b.peers = o.peers /\ b.pc = o.pc /\ b.stable = o.stable /\ SameEpochs(o, b) /\ SamePair(o, b) /\ SameKeys(o, b)
      /\ b.ring[d] = o.imports[d] /\ b.imports[d] = 0
      /\ \A y \in Clients \ {d} : b.ring[y] = o.ring[y] /\ b.imports[y] = o.imports[y]
  BY <1>2 DEF SameEpochs, SamePair, SameKeys, Client
<1> HIDE DEF b
<1>7. p \in Client /\ SameMesh(b, p) /\ p.stable = b.stable /\ SameKeys(b, p)
  BY <1>1, <1>5, ProvisionedFacts DEF MeshParts
<1> HIDE DEF p
<1>8. AgentStep(c, p) BY <1>1, <1>6, <1>7, StayFacts DEF AgentStep, SameMesh, SameKeys
<1>9. Shrunk(link) BY <1>1, ShrunkFacts DEF MeshParts
<1>10. PICK q \in Client :
         /\ cl' = [cl EXCEPT ![c] = q] /\ SameMesh(p, q) /\ q.stable = p.stable /\ q.rcv = p.rcv
         /\ AgentStep(c, q) /\ NewLinks(c, q)
  BY <1>1, <1>3, <1>7, <1>8, <1>9, BecomeFacts DEF MeshParts
<1>11. /\ q.peers = o.peers /\ q.pc = o.pc /\ q.stable = o.stable /\ SameEpochs(o, q) /\ SamePair(o, q)
       /\ q.ring = b.ring /\ q.imports = b.imports
  BY <1>6, <1>7, <1>10 DEF SameMesh, SameEpochs, SamePair, SameRing
<1>12. Frame(c, q) BY <1>1, <1>3, <1>4, <1>10, FrameFrom DEF MeshParts
<1>13. Writes(c, q) BY <1>3 DEF Writes
<1>14. KeepsWord(c, q)
  <2>1. inbox[c] \in Seq(ServerMessage) BY <1>1, Types DEF MeshParts
  <2>2. ~Takes(c) BY <2>1, <1>3, TailShorter DEF Takes
  <2> QED BY <2>2, <1>3, <1>11 DEF KeepsWord, SameEpochs, SamePair
<1>15. HasKey(q) BY <1>1, <1>11 DEF MeshParts, Ready, HasKey, SameEpochs, SamePair
<1>16. Guards(c, q) BY <1>1, <1>3, <1>4, <1>11 DEF MeshParts, Shut, ShutOut, Guards, SameEpochs, SamePair
<1>17. \A y \in Clients : Has(o, y, cl[y].key) => Has(q, y, cl[y].key) BY <1>3, <1>6, <1>11 DEF Has, SameEpochs
<1>18. MeshStep(c, q) BY <1>1, <1>3, <1>11, <1>12, <1>14, <1>15, <1>16, <1>17, StillStep
<1>19. PlainStep(c, q) BY <1>3, <1>11, <1>13, <1>18 DEF PlainStep
<1>20. KeyStep(c, q)
  <2>1. o.m \in Nat /\ o.e \in Nat BY <1>2, FieldTypes
  <2>2. KeepsReceived(o, p) BY <2>1, <1>6, <1>7 DEF KeepsReceived, SameMesh, SameEpochs, SameKeys
  <2>3. \A y \in Clients : IsFiniteSet(p.rcv[y]) BY <1>1, <1>6, <1>7 DEF MeshParts, Few, SameKeys
  <2> QED BY <2>2, <2>3, <1>1, <1>7, <1>10, BecomeKeyStep
<1> QED BY <1>19, <1>20, PlainStepInvariant

-----------------------------------------------------------------------------
(* Messages from the server *)

\* What the message that is taken does to the view of c.
LEMMA MessageFacts ==
  ASSUME MeshParts, NEW c \in Clients, Pops(c), room' = room
  PROVE  /\ Joined(c) /\ Takes(c) /\ Head(inbox[c]) \in ServerMessage /\ Head(inbox[c]) \in ToSet(inbox[c])
         /\ \A x \in ToSet(inbox[c]) : x = Head(inbox[c]) \/ x \in ToSet(inbox'[c])
         /\ \E a, b \in RoomView :
              /\ Seen(c, cl[c], a) /\ Moves(c, Head(inbox[c]), a, b) /\ Leads(c, inbox'[c], b, View(room))
              /\ b.m <= room.m
<1> USE DEF MeshParts
<1>1. inbox \in [Clients -> Seq(ServerMessage)] /\ inbox[c] \in Seq(ServerMessage) /\ inbox[c] # <<>> BY DEF TypeOK, Pops
<1>2. inbox'[c] = Tail(inbox[c]) BY <1>1 DEF Pops
<1>3. Joined(c) BY <1>1 DEF Absent
<1>4. /\ Head(inbox[c]) \in ServerMessage /\ Head(inbox[c]) \in ToSet(inbox[c]) /\ Tail(inbox[c]) \in Seq(ServerMessage)
      /\ \A x \in ToSet(inbox[c]) : x = Head(inbox[c]) \/ x \in ToSet(inbox'[c])
  BY <1>1, <1>2, ToSetTail
<1>5. View(room) \in RoomView /\ View(room).m = room.m BY DEF TypeOK, View, RoomView
<1>6. PICK a \in RoomView : Seen(c, cl[c], a) /\ Leads(c, inbox[c], a, View(room)) BY <1>3 DEF Views
<1>7. PICK b \in RoomView : Moves(c, Head(inbox[c]), a, b) /\ Leads(c, Tail(inbox[c]), b, View(room))
  BY <1>1, <1>5, <1>6, LeadsTail
<1>8. b.m <= room.m BY <1>4, <1>5, <1>7, LeadsBound
<1> QED BY <1>1, <1>2, <1>3, <1>4, <1>6, <1>7, <1>8 DEF Takes

\* The books of c do not lose anybody by a message that is no departure.
LEMMA GuardsKept ==
  ASSUME MeshParts, NEW c \in Clients, Pops(c), room' = room, NEW q, q.key = cl[c].key,
         cl[c].peers \cup cl[c].applied \subseteq q.peers \cup q.applied, Head(inbox[c]).kind # "peer-left"
  PROVE  Guards(c, q)
<1> SUFFICES ASSUME NEW d \in Clients, ~Joined(d), q.key # 0, q.key = cl[d].ring[c]
             PROVE  d \in q.peers \cup q.applied \/ LeftMessage(d) \in ToSet(inbox'[c])
  BY DEF Guards
<1>1. Joined(c) /\ \A x \in ToSet(inbox[c]) : x = Head(inbox[c]) \/ x \in ToSet(inbox'[c]) BY MessageFacts
<1>2. d \in cl[c].peers \cup cl[c].applied \/ LeftMessage(d) \in ToSet(inbox[c])
  BY <1>1 DEF MeshParts, Shut, ShutOut
<1>3. LeftMessage(d).kind = "peer-left" BY DEF LeftMessage
<1> QED BY <1>1, <1>2, <1>3

\* A message that is no overlay key or request, and leaves keys and epoch alone, changes nothing about them.
LEMMA HearsSame ==
  ASSUME NEW c \in Clients, NEW q, NEW y \in Clients, Head(inbox[c]).kind # "overlay-key",
         Has(cl[c], y, cl[y].key) => Has(q, y, cl[y].key)
  PROVE  Hears(c, q, y)
<1>1. KeyFrom(y, cl[y].key, room.m).kind = "overlay-key" BY DEF KeyFrom
<1> QED BY <1>1 DEF Hears

LEMMA SilentWord ==
  ASSUME NEW c \in Clients, NEW q, q.m = cl[c].m, q.key = cl[c].key, outbox'[c] = outbox[c],
         Head(inbox[c]).kind # "marker"
  PROVE  KeepsWord(c, q)
<1>1. \A x \in Clients : MarkerFrom(x).kind = "marker" BY DEF MarkerFrom
<1> QED BY <1>1 DEF KeepsWord

LEMMA NewerLess ==
  ASSUME TypeOK, NEW d \in Clients, NEW x \in Nat, NEW y \in Nat, y <= x, Newer(d, x)
  PROVE  Newer(d, y)
<1>1. room.m \in Nat /\ cl[d].m \in Nat BY Types, FieldTypes DEF TypeOK
<1>2. ASSUME NEW t \in ToSet(inbox[d]), t.kind = "topology" PROVE t.m > y
  <2>1. t \in ServerMessage BY Types
  <2>2. t.m \in Nat BY <2>1, <1>2 DEF ServerMessage
  <2>3. t.m > x BY <1>2 DEF Newer
  <2> QED BY <2>2, <2>3
<1> QED BY <1>1, <1>2 DEF Newer

\* welcome and peer-joined: what they have in common.
LEMMA GreetingMesh ==
  ASSUME MeshParts, KeyParts, NEW c \in Clients, NEW D \in SUBSET Clients, Pops(c), room' = room, NEW q, Frame(c, q),
         Head(inbox[c]).kind \in {"welcome", "peer-joined"},
         q.peers = cl[c].peers \cup D, q.pc = cl[c].pc, SameEpochs(cl[c], q), SamePair(cl[c], q), SameRing(cl[c], q),
         NEW a \in RoomView, NEW b \in RoomView, Seen(c, cl[c], a), Changes(a, b, a.members \cup D), c \notin D,
         Leads(c, inbox'[c], b, View(room)),
         \A d \in D : Ever(d) /\ (Joined(d) /\ cl[c].agent.active => Newer(d, cl[c].agent.m)),
         KeepsWord(c, q)
  PROVE  MeshStep(c, q)
<1>1. Joined(c) /\ Takes(c) BY MessageFacts
<1>2. Reads(c) /\ Epoch(c, q) BY <1>1 DEF Reads, Epoch, SameEpochs
<1>3. Seen(c, q, b)
  <2>1. a.m \in Nat /\ b.m \in Nat /\ a.r \in Nat /\ b.r \in Nat BY DEF RoomView
  <2>2. q.m \in Nat /\ q.r \in Nat BY FieldTypes DEF Frame
  <2>3. q.m = a.m /\ q.r <= a.r BY DEF Seen, Changes, SameEpochs
  <2>4. q.m < b.m /\ q.r < b.r /\ b.due BY <2>1, <2>2, <2>3 DEF Changes
  <2>5. c \in b.members /\ q.peers = b.members \ {c} BY DEF Seen, Changes
  <2> QED BY <2>4, <2>5 DEF Seen
<1>4. Looks(c, q) BY <1>3 DEF Looks
<1>5. HasKey(q) BY DEF MeshParts, Ready, HasKey, SameEpochs, SamePair
<1>6. Guards(c, q) BY GuardsKept DEF SameEpochs, SamePair
<1>7. Greets(c, q) BY DEF Greets
<1>8. \A y \in Clients : Members(c, y) => Hears(c, q, y) BY HearsSame DEF Has, SameEpochs, SameRing
<1> QED BY <1>2, <1>4, <1>5, <1>6, <1>7, <1>8 DEF MeshStep, RoomStep

LEMMA WelcomeStep ==
  ASSUME IInv, NEW c \in Clients, Pops(c), room' = room, left' = left, plan' = plan,
         Head(inbox[c]).kind = "welcome", Welcome(c, Head(inbox[c]))
  PROVE  IInv'
<1> DEFINE o == cl[c]
           m == Head(inbox[c])
           p == AddPeers(o, m.peers)
<1>1. MeshParts /\ KeyParts BY Parts
<1>2. o \in Client BY <1>1, Types DEF MeshParts
<1>3. Joined(c) /\ Takes(c) /\ m \in ServerMessage /\ m \in ToSet(inbox[c]) BY <1>1, MessageFacts
<1>4. PICK a, b \in RoomView :
        Seen(c, o, a) /\ Moves(c, m, a, b) /\ Leads(c, inbox'[c], b, View(room)) /\ b.m <= room.m
  BY <1>1, MessageFacts
<1>5. a = Start(c) /\ c \notin m.peers /\ Changes(a, b, m.peers \cup {c}) BY <1>4 DEF Moves
<1>6. m.peers \in SUBSET Clients BY <1>3 DEF ServerMessage
<1>7. /\ p \in Client /\ p.peers = o.peers \cup m.peers /\ (p.stable => o.stable) /\ p.pc = o.pc
      /\ SameEpochs(o, p) /\ SamePair(o, p) /\ SameRing(o, p) /\ SameKeys(o, p)
  BY <1>2, <1>6, AddPeersFacts
<1>8. Become(c, p, link) /\ outbox' = outbox BY DEF Welcome
<1> HIDE DEF p
<1>9. AgentStep(c, p) BY <1>1, <1>7, StayFacts DEF AgentStep, SameKeys
<1>10. Shrunk(link) BY <1>1, ShrunkFacts DEF MeshParts
<1>11. PICK q \in Client :
         /\ cl' = [cl EXCEPT ![c] = q] /\ SameMesh(p, q) /\ q.stable = p.stable /\ q.rcv = p.rcv
         /\ AgentStep(c, q) /\ NewLinks(c, q)
  BY <1>1, <1>7, <1>8, <1>9, <1>10, BecomeFacts DEF MeshParts
<1>12. q.peers = o.peers \cup m.peers /\ q.pc = o.pc /\ SameEpochs(o, q) /\ SamePair(o, q) /\ SameRing(o, q)
  BY <1>7, <1>11 DEF SameMesh, SameEpochs, SamePair, SameRing
<1>13. Frame(c, q) BY <1>1, <1>3, <1>8, <1>11, FrameFrom DEF MeshParts
<1>14. Changes(a, b, a.members \cup m.peers)
  <2>1. m.peers \cup {c} = a.members \cup m.peers BY <1>5 DEF Start
  <2> QED BY <2>1, <1>5
<1>15. KeepsWord(c, q) BY <1>8, <1>12, SilentWord DEF SameEpochs, SamePair
<1>16. ASSUME NEW d \in m.peers PROVE Ever(d) /\ (Joined(d) /\ o.agent.active => Newer(d, o.agent.m))
  <2>1. Ever(d) BY <1>1, <1>3, <1>6, <1>16 DEF MeshParts, Known, Unknown
  <2>2. ~o.agent.active
    <3>1. o.m = 0 BY <1>4, <1>5 DEF Seen, Start
    <3>2. AgentKey(o) BY <1>1 DEF KeyParts, AgentKeys
    <3>3. o.agent.m \in Nat BY <1>2, FieldTypes
    <3> QED BY <3>1, <3>2, <3>3 DEF AgentKey
  <2> QED BY <2>1, <2>2
<1>17. MeshStep(c, q)
  BY <1>1, <1>4, <1>5, <1>6, <1>12, <1>13, <1>14, <1>15, <1>16, GreetingMesh
<1>18. PlainStep(c, q) BY <1>8, <1>12, <1>17 DEF PlainStep, Writes
<1>19. KeyStep(c, q)
  <2>1. o.m \in Nat /\ o.e \in Nat BY <1>2, FieldTypes
  <2>2. KeepsReceived(o, p) BY <2>1, <1>7 DEF KeepsReceived, SameEpochs, SameKeys
  <2>3. \A y \in Clients : IsFiniteSet(p.rcv[y]) BY <1>1, <1>7 DEF MeshParts, Few, SameKeys
  <2> QED BY <2>2, <2>3, <1>1, <1>7, <1>11, BecomeKeyStep
<1> QED BY <1>18, <1>19, PlainStepInvariant

LEMMA PeerJoinedStep ==
  ASSUME IInv, NEW c \in Clients, Pops(c), room' = room, left' = left, plan' = plan,
         Head(inbox[c]).kind = "peer-joined", PeerJoined(c, Head(inbox[c]))
  PROVE  IInv'
<1> DEFINE o == cl[c]
           m == Head(inbox[c])
           d == m.from
           p == AddPeers(o, {d})
<1>1. MeshParts /\ KeyParts BY Parts
<1>2. o \in Client BY <1>1, Types DEF MeshParts
<1>3. Joined(c) /\ Takes(c) /\ m \in ServerMessage /\ m \in ToSet(inbox[c]) BY <1>1, MessageFacts
<1>4. PICK a, b \in RoomView :
        Seen(c, o, a) /\ Moves(c, m, a, b) /\ Leads(c, inbox'[c], b, View(room)) /\ b.m <= room.m
  BY <1>1, MessageFacts
<1>5. d # c /\ Changes(a, b, a.members \cup {d}) BY <1>4 DEF Moves
<1>6. d \in Clients /\ m = JoinMessage(d) BY <1>3 DEF ServerMessage, JoinMessage
<1>7. /\ p \in Client /\ p.peers = o.peers \cup {d} /\ (p.stable => o.stable) /\ p.pc = o.pc
      /\ SameEpochs(o, p) /\ SamePair(o, p) /\ SameRing(o, p) /\ SameKeys(o, p)
  BY <1>2, <1>6, AddPeersFacts
<1>8. Become(c, p, link) /\ Tell(c, Announcement(o)) BY DEF PeerJoined
<1> HIDE DEF p
<1>9. AgentStep(c, p) BY <1>1, <1>7, StayFacts DEF AgentStep, SameKeys
<1>10. Shrunk(link) BY <1>1, ShrunkFacts DEF MeshParts
<1>11. PICK q \in Client :
         /\ cl' = [cl EXCEPT ![c] = q] /\ SameMesh(p, q) /\ q.stable = p.stable /\ q.rcv = p.rcv
         /\ AgentStep(c, q) /\ NewLinks(c, q)
  BY <1>1, <1>7, <1>8, <1>9, <1>10, BecomeFacts DEF MeshParts
<1>12. q.peers = o.peers \cup {d} /\ q.pc = o.pc /\ SameEpochs(o, q) /\ SamePair(o, q) /\ SameRing(o, q)
  BY <1>7, <1>11 DEF SameMesh, SameEpochs, SamePair, SameRing
<1>13. (\E ms \in Seq(ClientMessage) : Tell(c, ms)) /\ Writes(c, q) /\ (q.key # 0 => Announces(c, q))
  BY <1>1, <1>2, <1>8, <1>12, TellFacts DEF MeshParts, SamePair
<1>14. Frame(c, q) BY <1>1, <1>3, <1>11, <1>13, FrameFrom DEF MeshParts
<1>15. KeepsWord(c, q)
  <2>1. outbox[c] \in Seq(ClientMessage) BY <1>1, Types DEF MeshParts
  <2> QED BY <2>1, <1>13 DEF KeepsWord, Announces
<1>16. Ever(d) /\ (Joined(d) /\ o.agent.active => Newer(d, o.agent.m))
  <2>1. Ever(d) BY <1>1, <1>3, <1>6 DEF MeshParts, Known, Unknown
  <2>2. ASSUME Joined(d), o.agent.active PROVE Newer(d, o.agent.m)
    <3>1. inbox[c] \in Seq(ServerMessage) /\ inbox[c] # <<>> BY <1>1, <1>3, Types DEF MeshParts, Takes
    <3>2. 1 \in 1..Len(inbox[c]) /\ inbox[c][1] = m BY <3>1
    <3>3. Newcomer(c, d) BY <1>1, <1>6 DEF KeyParts, Newcomers
    <3>4. Newer(d, o.m) BY <3>2, <3>3, <1>6, <2>2 DEF Newcomer
    <3>5. AgentKey(o) BY <1>1 DEF KeyParts, AgentKeys
    <3>6. o.agent.m \in Nat /\ o.m \in Nat BY <1>2, FieldTypes
    <3>7. o.agent.m <= o.m BY <3>5, <2>2 DEF AgentKey
    <3> QED BY <3>4, <3>6, <3>7, <1>1, <1>6, NewerLess DEF MeshParts
  <2> QED BY <2>1, <2>2
<1>17. MeshStep(c, q)
  <2>1. c \notin {d} /\ {d} \in SUBSET Clients BY <1>5, <1>6
  <2> QED BY <2>1, <1>1, <1>4, <1>5, <1>12, <1>14, <1>15, <1>16, GreetingMesh
<1>18. PlainStep(c, q) BY <1>12, <1>13, <1>17 DEF PlainStep
<1>19. KeyStep(c, q)
  <2>1. o.m \in Nat /\ o.e \in Nat BY <1>2, FieldTypes
  <2>2. KeepsReceived(o, p) BY <2>1, <1>7 DEF KeepsReceived, SameEpochs, SameKeys
  <2>3. \A y \in Clients : IsFiniteSet(p.rcv[y]) BY <1>1, <1>7 DEF MeshParts, Few, SameKeys
  <2> QED BY <2>2, <2>3, <1>1, <1>7, <1>11, BecomeKeyStep
<1> QED BY <1>18, <1>19, PlainStepInvariant

LEMMA PeerLeftStep ==
  ASSUME IInv, NEW c \in Clients, Pops(c), room' = room, left' = left, plan' = plan,
         Head(inbox[c]).kind = "peer-left", PeerLeft(c, Head(inbox[c]))
  PROVE  IInv'
<1> DEFINE o == cl[c]
           m == Head(inbox[c])
           d == m.from
           p == RemovePeer(o, d)
<1>1. MeshParts /\ KeyParts BY Parts
<1>2. o \in Client BY <1>1, Types DEF MeshParts
<1>3. /\ Joined(c) /\ Takes(c) /\ m \in ServerMessage
      /\ \A x \in ToSet(inbox[c]) : x = m \/ x \in ToSet(inbox'[c])
  BY <1>1, MessageFacts
<1>4. PICK a, b \in RoomView :
        Seen(c, o, a) /\ Moves(c, m, a, b) /\ Leads(c, inbox'[c], b, View(room)) /\ b.m <= room.m
  BY <1>1, MessageFacts
<1>5. d # c /\ d \in a.members /\ Changes(a, b, a.members \ {d}) BY <1>4 DEF Moves
<1>6. d \in Clients /\ m = LeftMessage(d) BY <1>3 DEF ServerMessage, LeftMessage
<1>7. /\ p \in Client /\ p.peers = o.peers \ {d} /\ p.stable = FALSE /\ p.pc = o.pc
      /\ SameEpochs(o, p) /\ SamePair(o, p) /\ NoKeys(p)
      /\ \A y \in Clients \ {d} : p.ring[y] = o.ring[y] /\ p.imports[y] = o.imports[y]
  BY <1>2, <1>6, RemovePeerFacts
<1>8. Become(c, p, Cut(c, d)) /\ outbox' = outbox BY DEF PeerLeft
<1> HIDE DEF p
<1>9. AgentStep(c, p) BY <1>7 DEF AgentStep, NoKeys, NoAgentKey, DropsAgent
<1>10. Shrunk(Cut(c, d)) BY <1>1, <1>6, ShrunkFacts DEF MeshParts
<1>11. PICK q \in Client :
         /\ cl' = [cl EXCEPT ![c] = q] /\ SameMesh(p, q) /\ q.stable = p.stable /\ q.rcv = p.rcv
         /\ AgentStep(c, q) /\ NewLinks(c, q)
  BY <1>1, <1>7, <1>8, <1>9, <1>10, BecomeFacts DEF MeshParts
<1>12. /\ q.peers = o.peers \ {d} /\ q.pc = o.pc /\ SameEpochs(o, q) /\ SamePair(o, q)
       /\ \A y \in Clients \ {d} : q.ring[y] = o.ring[y] /\ q.imports[y] = o.imports[y]
  BY <1>7, <1>11 DEF SameMesh, SameEpochs, SamePair, SameRing
<1>13. Frame(c, q) BY <1>1, <1>3, <1>8, <1>11, FrameFrom DEF MeshParts
<1>14. Reads(c) /\ Epoch(c, q) BY <1>3, <1>12 DEF Reads, Epoch, SameEpochs
<1>15. o.m = a.m /\ o.r <= a.r /\ o.applied = o.peers /\ o.peers = a.members \ {c} /\ c \in a.members
  BY <1>4, <1>5 DEF Seen, Changes
<1>16. a.m \in Nat /\ b.m \in Nat /\ a.r \in Nat /\ b.r \in Nat /\ o.r \in Nat /\ room.m \in Nat
  BY <1>1, <1>2, FieldTypes DEF RoomView, MeshParts, TypeOK
<1>17. o.m < b.m /\ o.m < room.m /\ o.r < b.r BY <1>4, <1>5, <1>15, <1>16 DEF Changes
<1>18. Looks(c, q)
  <2>1. Seen(c, q, b) BY <1>5, <1>12, <1>15, <1>17 DEF Seen, Changes, SameEpochs
  <2> QED BY <2>1, <1>4 DEF Looks
<1>19. HasKey(q) BY <1>1, <1>12 DEF MeshParts, Ready, HasKey, SameEpochs, SamePair
<1>20. Guards(c, q)
  <2> SUFFICES ASSUME NEW x \in Clients, ~Joined(x), q.key # 0, q.key = cl[x].ring[c]
               PROVE  x \in q.peers \cup q.applied \/ LeftMessage(x) \in ToSet(inbox'[c])
    BY DEF Guards
  <2>1. x \in o.peers \cup o.applied \/ LeftMessage(x) \in ToSet(inbox[c])
    BY <1>1, <1>3, <1>12 DEF MeshParts, Shut, ShutOut, SamePair
  <2>2. q.applied = o.peers /\ d \in o.peers BY <1>5, <1>12, <1>15 DEF SameEpochs
  <2>3. CASE x \in o.peers \cup o.applied BY <2>2, <2>3, <1>15
  <2>4. CASE LeftMessage(x) \in ToSet(inbox[c])
    <3>1. CASE LeftMessage(x) \in ToSet(inbox'[c]) BY <3>1
    <3>2. CASE LeftMessage(x) = m
      <4>1. x = d BY <3>2, <1>6 DEF LeftMessage
      <4> QED BY <4>1, <2>2
    <3> QED BY <3>1, <3>2, <2>4, <1>3
  <2> QED BY <2>1, <2>3, <2>4
<1>21. Greets(c, q) BY <1>12 DEF Greets
<1>22. KeepsWord(c, q) BY <1>8, <1>12, SilentWord DEF SameEpochs, SamePair
<1>23. \A y \in Clients : Members(c, y) => Hears(c, q, y)
  <2>1. \A y \in Clients : ~Has(o, y, cl[y].key) BY <1>16, <1>17, <1>2, FieldTypes DEF Has
  <2> QED BY <2>1, HearsSame
<1>24. MeshStep(c, q) BY <1>13, <1>14, <1>18, <1>19, <1>20, <1>21, <1>22, <1>23 DEF MeshStep, RoomStep
<1>25. PlainStep(c, q) BY <1>8, <1>12, <1>24 DEF PlainStep, Writes
<1>26. KeyStep(c, q)
  <2>1. o.m \in Nat /\ o.e \in Nat BY <1>2, FieldTypes
  <2>2. KeepsReceived(o, p) BY <2>1, <1>7 DEF KeepsReceived, SameEpochs
  <2>3. \A y \in Clients : IsFiniteSet(p.rcv[y]) BY <1>7, FS_EmptySet DEF NoKeys
  <2> QED BY <2>2, <2>3, <1>1, <1>7, <1>11, BecomeKeyStep
<1> QED BY <1>25, <1>26, PlainStepInvariant

\* A message that changes neither membership nor pair, and after which c is stable if it was.
LEMMA QuietMesh ==
  ASSUME MeshParts, NEW c \in Clients, Pops(c), room' = room, NEW q, Frame(c, q),
         Head(inbox[c]).kind \in {"agent-state", "overlay-key", "marker"},
         q.peers = cl[c].peers, q.m = cl[c].m, q.r = cl[c].r, q.applied = cl[c].applied,
         SamePair(cl[c], q), cl[c].stable => q.stable,
         KeepsWord(c, q), \A y \in Clients : Members(c, y) => Hears(c, q, y)
  PROVE  MeshStep(c, q)
<1>1. Joined(c) /\ Takes(c) BY MessageFacts
<1>2. Reads(c) /\ Epoch(c, q) BY <1>1 DEF Reads, Epoch
<1>3. PICK a, b \in RoomView :
        Seen(c, cl[c], a) /\ Moves(c, Head(inbox[c]), a, b) /\ Leads(c, inbox'[c], b, View(room))
  BY MessageFacts
<1>4. a = b /\ ~a.due BY <1>3 DEF Moves
<1>5. Looks(c, q)
  <2>1. Seen(c, q, b) BY <1>3, <1>4 DEF Seen
  <2> QED BY <2>1, <1>3 DEF Looks
<1>6. HasKey(q) BY DEF MeshParts, Ready, HasKey, SamePair
<1>7. Guards(c, q) BY GuardsKept DEF SamePair
<1>8. Greets(c, q) BY DEF Greets
<1> QED BY <1>2, <1>5, <1>6, <1>7, <1>8 DEF MeshStep, RoomStep

LEMMA AgentStateStep ==
  ASSUME IInv, NEW c \in Clients, Pops(c), room' = room, left' = left, plan' = plan,
         Head(inbox[c]).kind = "agent-state", ApplyMediaAgentState(c, Head(inbox[c]))
  PROVE  IInv'
<1> DEFINE o == cl[c]
           m == Head(inbox[c])
           p == [o EXCEPT !.e = m.e]
           w == IF p.stable THEN RotateMediaKeys(c, p) ELSE ClearAllMediaKeys(p)
           u == IF m.e = o.e THEN p ELSE w
           v == AgentProvisioned(c, u)
<1>1. MeshParts /\ KeyParts BY Parts
<1>2. o \in Client BY <1>1, Types DEF MeshParts
<1>3. Joined(c) /\ Takes(c) /\ m \in ServerMessage BY <1>1, MessageFacts
<1>4. m.e \in Nat /\ o.e \in Nat /\ o.m \in Nat BY <1>2, <1>3, FieldTypes DEF ServerMessage
<1>5. m.e >= o.e /\ Become(c, v, link) /\ outbox' = outbox
  <2>1. CASE m.e = o.e BY <2>1, <1>4 DEF ApplyMediaAgentState
  <2>2. CASE m.e # o.e BY <2>2, <1>4 DEF ApplyMediaAgentState
  <2> QED BY <2>1, <2>2
<1>6. p \in Client /\ p.stable = o.stable BY <1>2, <1>4 DEF Client
<1>7. /\ p.peers = o.peers /\ p.m = o.m /\ p.e = m.e /\ p.r = o.r /\ p.applied = o.applied /\ p.pc = o.pc
      /\ SamePair(o, p) /\ SameRing(o, p) /\ SameKeys(o, p)
  BY <1>2 DEF Client, SamePair, SameRing, SameKeys
<1> HIDE DEF p
<1>8. w \in Client /\ SameMesh(p, w) /\ NoKeys(w) /\ w.stable = p.stable
  <2>1. CASE p.stable
    <3>1. w = RotateMediaKeys(c, p) BY <2>1
    <3>2. w \in Client /\ SameMesh(p, w) /\ NoKeys(w) /\ w.stable = TRUE
      BY <3>1, <1>1, <1>6, RotateMediaFacts DEF MeshParts
    <3>3. p.stable = TRUE BY <2>1, <1>6, FieldTypes
    <3> QED BY <3>2, <3>3
  <2>2. CASE ~p.stable
    <3>1. w = ClearAllMediaKeys(p) BY <2>2
    <3> QED BY <3>1, <1>6, ClearFacts
  <2> QED BY <2>1, <2>2
<1> HIDE DEF w
<1>9. u \in Client /\ SameMesh(p, u) /\ u.stable = p.stable
  BY <1>6, <1>8 DEF SameMesh, SameEpochs, SamePair, SameRing
<1>10. AgentStep(c, u)
  <2>1. CASE m.e = o.e BY <2>1, <1>1, <1>7, StayFacts DEF AgentStep, SameKeys
  <2>2. CASE m.e # o.e BY <2>2, <1>8 DEF AgentStep, NoKeys, NoAgentKey, DropsAgent
  <2> QED BY <2>1, <2>2
<1>11. (m.e = o.e => u.rcv = o.rcv) /\ (u.rcv = o.rcv \/ u.rcv = [d \in Clients |-> {}])
  BY <1>7, <1>8 DEF SameKeys, NoKeys
<1> HIDE DEF u
<1>12. v \in Client /\ SameMesh(u, v) /\ v.stable = u.stable /\ v.rcv = u.rcv
  BY <1>1, <1>9, AgentProvisionedFacts DEF MeshParts
<1>13. AgentStep(c, v) BY <1>1, <1>9, <1>10, ProvisionStep DEF MeshParts
<1> HIDE DEF v
<1>14. Shrunk(link) BY <1>1, ShrunkFacts DEF MeshParts
<1>15. PICK q \in Client :
         /\ cl' = [cl EXCEPT ![c] = q] /\ SameMesh(v, q) /\ q.stable = v.stable /\ q.rcv = v.rcv
         /\ AgentStep(c, q) /\ NewLinks(c, q)
  BY <1>1, <1>5, <1>12, <1>13, <1>14, BecomeFacts DEF MeshParts
<1>16. /\ v.peers = o.peers /\ v.pc = o.pc /\ v.m = o.m /\ v.e = m.e /\ v.r = o.r /\ v.applied = o.applied
       /\ SamePair(o, v) /\ SameRing(o, v) /\ v.stable = o.stable
  BY <1>6, <1>7, <1>9, <1>12 DEF SameMesh, SameEpochs, SamePair, SameRing
<1>17. /\ q.peers = o.peers /\ q.pc = o.pc /\ q.m = o.m /\ q.e = m.e /\ q.r = o.r /\ q.applied = o.applied
       /\ SamePair(o, q) /\ SameRing(o, q) /\ q.stable = o.stable
  BY <1>15, <1>16 DEF SameMesh, SameEpochs, SamePair, SameRing
<1>18. Frame(c, q) BY <1>1, <1>3, <1>5, <1>15, FrameFrom DEF MeshParts
<1>19. KeepsWord(c, q) BY <1>5, <1>17, SilentWord DEF SamePair
<1>20. \A y \in Clients : Members(c, y) => Hears(c, q, y) BY <1>17, HearsSame DEF Has, SameRing
<1>21. MeshStep(c, q) BY <1>1, <1>17, <1>18, <1>19, <1>20, QuietMesh
<1>22. PlainStep(c, q) BY <1>5, <1>17, <1>21 DEF PlainStep, Writes
<1>23. KeyStep(c, q)
  <2>1. KeepsReceived(o, v) BY <1>4, <1>5, <1>11, <1>12, <1>16 DEF KeepsReceived
  <2>2. \A y \in Clients : IsFiniteSet(v.rcv[y])
    BY <1>1, <1>11, <1>12, FS_EmptySet DEF MeshParts, Few
  <2> QED BY <2>1, <2>2, <1>1, <1>12, <1>15, BecomeKeyStep
<1> QED BY <1>22, <1>23, PlainStepInvariant

LEMMA OverlayKeyStep ==
  ASSUME IInv, NEW c \in Clients, Pops(c), room' = room, left' = left, plan' = plan,
         Head(inbox[c]).kind = "overlay-key", AcceptOverlayKey(c, Head(inbox[c]))
  PROVE  IInv'
<1> DEFINE o == cl[c]
           m == Head(inbox[c])
           q == [o EXCEPT !.imports[m.from] = m.k]
<1>1. MeshParts /\ KeyParts BY Parts
<1>2. o \in Client /\ cl \in [Clients -> Client] BY <1>1, Types DEF MeshParts, TypeOK
<1>3. Joined(c) /\ Takes(c) /\ m \in ServerMessage BY <1>1, MessageFacts
<1>4. PICK a, b \in RoomView : Seen(c, o, a) /\ Moves(c, m, a, b) BY <1>1, MessageFacts
<1>5. m.from \in o.peers /\ m.m = o.m BY <1>4 DEF Moves, Seen
<1>6. m.from \in Clients /\ m.k \in Nat /\ m.m \in Nat /\ m = KeyFrom(m.from, m.k, m.m) BY <1>3 DEF ServerMessage, KeyFrom
<1>7. cl' = [cl EXCEPT ![c].imports[m.from] = m.k] /\ link' = link /\ outbox' = outbox
  BY <1>5 DEF AcceptOverlayKey, CurrentKey
<1>8. cl' = [cl EXCEPT ![c] = q] BY <1>2, <1>7
<1>9. q \in Client BY <1>2, <1>6 DEF Client
<1>10. /\ q.peers = o.peers /\ q.pc = o.pc /\ q.stable = o.stable /\ SameEpochs(o, q) /\ SamePair(o, q) /\ SameKeys(o, q)
       /\ q.ring = o.ring /\ q.imports[m.from] = m.k
       /\ \A y \in Clients \ {m.from} : q.imports[y] = o.imports[y]
  BY <1>2, <1>6 DEF SameEpochs, SamePair, SameKeys, Client
<1> HIDE DEF q
<1>11. Frame(c, q) BY <1>1, <1>3, <1>7, <1>8, <1>9, FrameFrom DEF MeshParts
<1>12. KeepsWord(c, q) BY <1>7, <1>10, SilentWord DEF SameEpochs, SamePair
<1>13. ASSUME NEW y \in Clients PROVE Hears(c, q, y)
  <2>1. CASE m = KeyFrom(y, cl[y].key, room.m)
    <3>1. y = m.from /\ m.k = cl[y].key /\ m.m = room.m BY <2>1 DEF KeyFrom
    <3>2. Has(q, y, cl[y].key) BY <3>1, <1>5, <1>10 DEF Has, SameEpochs
    <3> QED BY <3>2 DEF Hears
  <2>2. CASE m # KeyFrom(y, cl[y].key, room.m) /\ y # m.from
    BY <2>2, <1>10 DEF Hears, Has, SameEpochs
  <2>3. CASE m # KeyFrom(y, cl[y].key, room.m) /\ y = m.from
    <3>1. m \in About(y) BY <2>3, <1>6 DEF About
    <3> QED BY <3>1, <2>3, <1>3 DEF Hears
  <2> QED BY <2>1, <2>2, <2>3
<1>14. MeshStep(c, q) BY <1>1, <1>10, <1>11, <1>12, <1>13, QuietMesh DEF SameEpochs
<1>15. PlainStep(c, q) BY <1>7, <1>10, <1>14 DEF PlainStep, Writes
<1>16. KeyStep(c, q)
  <2>1. AgentStep(c, q) BY <1>1, <1>10, StayFacts DEF AgentStep, SameKeys
  <2>2. NewLinks(c, q) BY <1>1, <1>7, SameLinks DEF MeshParts
  <2>3. o.m \in Nat /\ o.e \in Nat BY <1>2, FieldTypes
  <2>4. KeepsReceived(o, q) BY <2>3, <1>10 DEF KeepsReceived, SameEpochs, SameKeys
  <2>5. \A y \in Clients : IsFiniteSet(q.rcv[y]) BY <1>1, <1>10 DEF MeshParts, Few, SameKeys
  <2> QED BY <2>1, <2>2, <2>4, <2>5 DEF KeyStep
<1> QED BY <1>15, <1>16, PlainStepInvariant

\* What a client knows when the next message is a topology: its peers are those of the topology, and
\* one of an epoch it knows finds it settled.
LEMMA TopologyFacts ==
  ASSUME MeshParts, NEW c \in Clients, Pops(c), room' = room, Head(inbox[c]).kind = "topology",
         NEW o, o = cl[c], NEW m, m = Head(inbox[c])
  PROVE  /\ Joined(c) /\ Takes(c) /\ o \in Client
         /\ m.m \in Nat /\ m.r \in Nat /\ m.m >= o.m /\ m.m <= room.m
         /\ ~Acceptable(c, m) => m.m = o.m
         /\ m.m = o.m => o.applied = o.peers /\ (o.m > 0 => o.stable) /\ o.r <= m.r
         /\ \A q : q.peers = o.peers /\ q.m = m.m /\ q.r \in Nat /\ q.r <= m.r /\ q.applied = q.peers /\ (q.m > 0 => q.stable)
                     => Looks(c, q)
<1>1. Joined(c) /\ Takes(c) /\ m \in ServerMessage BY MessageFacts
<1>2. o \in Client BY Types DEF MeshParts
<1>3. o.m \in Nat /\ o.r \in Nat BY <1>2, FieldTypes
<1>4. m.m \in Nat /\ m.r \in Nat BY <1>1 DEF ServerMessage
<1>5. PICK a, b \in RoomView :
        Seen(c, o, a) /\ Moves(c, m, a, b) /\ Leads(c, inbox'[c], b, View(room)) /\ b.m <= room.m
  BY MessageFacts
<1>6. /\ m.peers = a.members /\ m.m = a.m /\ m.r >= a.r
      /\ b.members = a.members /\ b.m = a.m /\ b.r = m.r /\ b.due = FALSE
  BY <1>5 DEF Moves, RoomView
<1>7. a.r \in Nat /\ a.m \in Nat BY DEF RoomView
<1>8. m.peers = o.peers \cup {c} BY <1>5, <1>6 DEF Seen
<1>9. m.m >= o.m /\ m.m <= room.m
  <2>1. CASE a.due BY <2>1, <1>3, <1>5, <1>6, <1>7 DEF Seen
  <2>2. CASE ~a.due BY <2>2, <1>3, <1>5, <1>6, <1>7 DEF Seen
  <2> QED BY <2>1, <2>2
<1>10. m.m = o.m => o.applied = o.peers /\ (o.m > 0 => o.stable) /\ o.r <= m.r
  <2>1. CASE a.due BY <2>1, <1>3, <1>5, <1>6, <1>7 DEF Seen
  <2>2. CASE ~a.due BY <2>2, <1>3, <1>4, <1>5, <1>6, <1>7 DEF Seen
  <2> QED BY <2>1, <2>2
<1>11. ~Acceptable(c, m) => m.m = o.m
  <2>1. CASE a.due
    <3>1. o.m < m.m /\ o.r < m.r BY <2>1, <1>3, <1>4, <1>5, <1>6, <1>7 DEF Seen
    <3> QED BY <3>1, <1>3, <1>4, <1>8 DEF Acceptable
  <2>2. CASE ~a.due BY <2>2, <1>5, <1>6 DEF Seen
  <2> QED BY <2>1, <2>2
<1>12. ASSUME NEW q, q.peers = o.peers, q.m = m.m, q.r \in Nat, q.r <= m.r, q.applied = q.peers, q.m > 0 => q.stable
       PROVE  Looks(c, q)
  <2>1. Seen(c, q, b) BY <1>5, <1>6, <1>12 DEF Seen
  <2> QED BY <2>1, <1>5 DEF Looks
<1> QED BY <1>1, <1>2, <1>4, <1>9, <1>10, <1>11, <1>12

\* What a client may become by a topology, for the membership and the overlay keys.
LEMMA TopologyMesh ==
  ASSUME MeshParts, NEW c \in Clients, Pops(c), room' = room, Head(inbox[c]).kind = "topology",
         NEW o, o = cl[c], NEW m, m = Head(inbox[c]), NEW q, Frame(c, q),
         q.peers = o.peers, q.m = m.m, q.r <= m.r, q.applied = q.peers, q.m > 0 => q.stable,
         HasKey(q), KeepsWord(c, q), Guards(c, q),
         \A y \in Clients : Has(o, y, cl[y].key) => Has(q, y, cl[y].key)
  PROVE  MeshStep(c, q)
<1>1. Takes(c) BY TopologyFacts
<1>2. q.r \in Nat BY FieldTypes DEF Frame
<1>3. Looks(c, q) BY <1>2, TopologyFacts
<1>4. Reads(c) /\ Epoch(c, q) BY <1>1 DEF Reads, Epoch
<1>5. Greets(c, q) BY DEF Greets
<1>6. \A y \in Clients : Hears(c, q, y) BY HearsSame
<1> QED BY <1>3, <1>4, <1>5, <1>6 DEF MeshStep, RoomStep

\* A topology that is not acceptable is one the client has applied.
LEMMA TopologyIgnored ==
  ASSUME IInv, NEW c \in Clients, Pops(c), room' = room, left' = left, plan' = plan,
         Head(inbox[c]).kind = "topology", NEW m, m = Head(inbox[c]),
         ~Acceptable(c, m), cl' = cl, link' = link, outbox' = outbox
  PROVE  IInv'
<1> DEFINE o == cl[c]
<1>1. MeshParts /\ KeyParts BY Parts
<1>2. cl' = [cl EXCEPT ![c] = o] BY <1>1 DEF MeshParts, TypeOK
<1>3. /\ Joined(c) /\ Takes(c) /\ o \in Client /\ m.m = o.m
      /\ o.applied = o.peers /\ (o.m > 0 => o.stable) /\ o.r <= m.r
  BY <1>1, TopologyFacts
<1> HIDE DEF o
<1>4. Frame(c, o) BY <1>1, <1>2, <1>3, FrameFrom DEF MeshParts
<1>5. HasKey(o) BY <1>1 DEF MeshParts, Ready, o
<1>6. KeepsWord(c, o) BY SilentWord DEF o
<1>7. Guards(c, o) BY <1>1, GuardsKept DEF o
<1>8. MeshStep(c, o) BY <1>1, <1>3, <1>4, <1>5, <1>6, <1>7, TopologyMesh DEF o
<1>9. PlainStep(c, o) BY <1>8 DEF PlainStep, Writes, o
<1>10. KeyStep(c, o) BY <1>1, StayFacts, SameKeyStep, SameLinks DEF o, MeshParts
<1> QED BY <1>9, <1>10, PlainStepInvariant

\* The members that are left rotate all their keys.
LEMMA TopologyRotates ==
  ASSUME IInv, NEW c \in Clients, Pops(c), room' = room, left' = left, plan' = plan,
         Head(inbox[c]).kind = "topology", NEW m, m = Head(inbox[c]), m.m # cl[c].m, link' = link, outbox' = outbox,
         NEW p, p = [cl[c] EXCEPT !.m = m.m, !.r = m.r, !.stable = TRUE, !.applied = cl[c].peers, !.age = 0, !.routed = TRUE],
         cl' = [cl EXCEPT ![c] = RotateOverlayKey(AgentProvisioned(c, RotateMediaKeys(c, p)))]
  PROVE  IInv'
<1> DEFINE o == cl[c]
           w == RotateMediaKeys(c, p)
           v == AgentProvisioned(c, w)
           q == RotateOverlayKey(v)
<1>1. MeshParts /\ KeyParts BY Parts
<1>2. Joined(c) /\ Takes(c) /\ o \in Client /\ m.m \in Nat /\ m.r \in Nat /\ m.m >= o.m /\ m.m <= room.m
  BY <1>1, TopologyFacts
<1>3. o.m \in Nat /\ o.e \in Nat /\ room.m \in Nat BY <1>1, <1>2, FieldTypes DEF MeshParts, TypeOK
<1>4. o.m < m.m /\ o.m < room.m BY <1>2, <1>3
<1>5. p \in Client BY <1>2 DEF Client
<1>6. p.peers = o.peers /\ p.m = m.m /\ p.r = m.r /\ p.e = o.e /\ p.applied = o.peers /\ p.pc = o.pc
  BY <1>2 DEF Client
<1>7. w \in Client /\ SameMesh(p, w) /\ w.stable = TRUE /\ NoKeys(w) BY <1>1, <1>5, RotateMediaFacts DEF MeshParts
<1> HIDE DEF w
<1>8. AgentStep(c, w) BY <1>7 DEF AgentStep, NoKeys, NoAgentKey, DropsAgent
<1>9. v \in Client /\ SameMesh(w, v) /\ v.stable = w.stable /\ v.rcv = w.rcv
  BY <1>1, <1>7, AgentProvisionedFacts DEF MeshParts
<1>10. AgentStep(c, v) BY <1>1, <1>7, <1>8, ProvisionStep DEF MeshParts
<1> HIDE DEF v
<1>11. /\ q \in Client /\ q.peers = v.peers /\ q.pc = v.pc /\ q.stable = v.stable
       /\ SameEpochs(v, q) /\ SameKeys(v, q) /\ q.key = 0 /\ q.making
  BY <1>9, RotateOverlayFacts
<1>12. cl' = [cl EXCEPT ![c] = q] BY DEF w, v
<1> HIDE DEF q
<1>13. /\ q.peers = o.peers /\ q.m = m.m /\ q.r = m.r /\ q.e = o.e /\ q.applied = o.peers /\ q.pc = o.pc
       /\ q.stable = TRUE /\ q.rcv = [d \in Clients |-> {}]
  BY <1>6, <1>7, <1>9, <1>11 DEF SameMesh, SameEpochs, SameKeys, NoKeys
<1> HIDE DEF o
<1>14. Frame(c, q) BY <1>1, <1>2, <1>11, <1>12, FrameFrom DEF MeshParts
<1>15. HasKey(q) /\ KeepsWord(c, q) /\ Guards(c, q) BY <1>11 DEF HasKey, KeepsWord, Guards
<1>16. MeshStep(c, q)
  <2>1. \A y \in Clients : ~Has(o, y, cl[y].key) BY <1>3, <1>4 DEF Has
  <2>2. q.r <= m.r BY <1>2, <1>13
  <2> QED BY <2>1, <2>2, <1>1, <1>13, <1>14, <1>15, TopologyMesh DEF o
<1>17. PlainStep(c, q) BY <1>13, <1>16 DEF PlainStep, Writes, o
<1>18. KeyStep(c, q)
  <2>1. AgentStep(c, q)
    <3>1. q.agent = v.agent /\ q.peers = v.peers /\ q.m = v.m /\ q.e = v.e BY <1>11 DEF SameEpochs, SameKeys
    <3> QED BY <3>1, <1>10 DEF AgentStep, StartsAgent
  <2>2. NewLinks(c, q) BY <1>1, SameLinks DEF MeshParts
  <2>3. KeepsReceived(o, q) BY <1>2, <1>3, <1>4, <1>13 DEF KeepsReceived
  <2>4. \A d \in Clients : IsFiniteSet(q.rcv[d]) BY <1>13, FS_EmptySet
  <2> QED BY <2>1, <2>2, <2>3, <2>4 DEF KeyStep, o
<1> QED BY <1>17, <1>18, PlainStepInvariant

\* The imports under way are dropped.
LEMMA ForgetFacts ==
  ASSUME NEW p \in Client
  PROVE  LET w == [p EXCEPT !.imports = None]
         IN  /\ w \in Client /\ w.peers = p.peers /\ SameEpochs(p, w) /\ w.pc = p.pc /\ w.stable = p.stable
             /\ SamePair(p, w) /\ SameKeys(p, w)
<1>1. None \in [Clients -> Nat] BY Blanks
<1> QED BY <1>1 DEF Client, SamePair, SameKeys, SameEpochs

\* Nobody is gone: the present key is told to whoever came.
LEMMA TopologyAnnounces ==
  ASSUME IInv, NEW c \in Clients, Pops(c), room' = room, left' = left, plan' = plan,
         Head(inbox[c]).kind = "topology", NEW m, m = Head(inbox[c]), m.m # cl[c].m, ~Departed(cl[c]), cl[c].key # 0,
         NEW p, p = [cl[c] EXCEPT !.m = m.m, !.r = m.r, !.stable = TRUE, !.applied = cl[c].peers, !.age = 0, !.routed = TRUE],
         Become(c, AgentProvisioned(c, [p EXCEPT !.imports = None]), link), Tell(c, Announcement(p))
  PROVE  IInv'
<1> DEFINE o == cl[c]
           w == [p EXCEPT !.imports = None]
           v == AgentProvisioned(c, w)
<1>1. MeshParts /\ KeyParts BY Parts
<1>2. Joined(c) /\ Takes(c) /\ o \in Client /\ m.m \in Nat /\ m.r \in Nat /\ m.m >= o.m /\ m.m <= room.m
  BY <1>1, TopologyFacts
<1>3. o.m \in Nat /\ o.e \in Nat /\ room.m \in Nat BY <1>1, <1>2, FieldTypes DEF MeshParts, TypeOK
<1>4. o.m < m.m /\ o.m < room.m BY <1>2, <1>3
<1>5. p \in Client BY <1>2 DEF Client
<1>6. /\ p.peers = o.peers /\ p.m = m.m /\ p.r = m.r /\ p.e = o.e /\ p.applied = o.peers /\ p.pc = o.pc
      /\ p.stable = TRUE /\ SamePair(o, p) /\ SameKeys(o, p)
  BY <1>2 DEF Client, SamePair, SameKeys
<1>7. /\ w \in Client /\ w.peers = p.peers /\ SameEpochs(p, w) /\ w.pc = p.pc /\ w.stable = p.stable
      /\ SamePair(p, w) /\ SameKeys(p, w)
  BY <1>5, ForgetFacts
<1> HIDE DEF w
<1>9. AgentStep(c, w) BY <1>1, <1>6, <1>7, StayFacts DEF AgentStep, SameKeys
<1>10. v \in Client /\ SameMesh(w, v) /\ v.stable = w.stable /\ v.rcv = w.rcv
  BY <1>1, <1>7, AgentProvisionedFacts DEF MeshParts
<1>11. AgentStep(c, v) BY <1>1, <1>7, <1>9, ProvisionStep DEF MeshParts
<1>12. Become(c, v, link) BY DEF w
<1> HIDE DEF v
<1>13. Shrunk(link) BY <1>1, ShrunkFacts DEF MeshParts
<1>14. PICK q \in Client :
         /\ cl' = [cl EXCEPT ![c] = q] /\ SameMesh(v, q) /\ q.stable = v.stable /\ q.rcv = v.rcv
         /\ AgentStep(c, q) /\ NewLinks(c, q)
  BY <1>1, <1>10, <1>11, <1>12, <1>13, BecomeFacts DEF MeshParts
<1>15. /\ v.m = m.m /\ v.e = o.e /\ v.rcv = o.rcv
       /\ q.peers = o.peers /\ q.m = m.m /\ q.r = m.r /\ q.e = o.e /\ q.applied = o.peers /\ q.pc = o.pc
       /\ q.stable = TRUE /\ q.key = o.key /\ q.making = o.making /\ q.key = p.key
  BY <1>6, <1>7, <1>10, <1>14 DEF SameMesh, SameEpochs, SamePair, SameKeys
<1> HIDE DEF o
<1>16. (\E ms \in Seq(ClientMessage) : Tell(c, ms)) /\ Writes(c, q) /\ (q.key # 0 => Announces(c, q))
  BY <1>1, <1>5, <1>15, TellFacts DEF MeshParts
<1>17. Frame(c, q) BY <1>1, <1>2, <1>14, <1>16, FrameFrom DEF MeshParts
<1>18. KeepsWord(c, q)
  <2>1. outbox[c] \in Seq(ClientMessage) BY <1>1, Types DEF MeshParts
  <2> QED BY <2>1, <1>16 DEF KeepsWord, Announces
<1>19. HasKey(q) BY <1>1, <1>15 DEF MeshParts, Ready, HasKey, o
<1>20. Guards(c, q)
  <2>1. o.applied \subseteq o.peers BY DEF Departed, o
  <2>2. q.key = cl[c].key /\ cl[c].peers \cup cl[c].applied \subseteq q.peers \cup q.applied BY <2>1, <1>15 DEF o
  <2> QED BY <2>2, <1>1, GuardsKept
<1>21. MeshStep(c, q)
  <2>1. \A y \in Clients : ~Has(o, y, cl[y].key) BY <1>3, <1>4 DEF Has
  <2>2. q.r <= m.r BY <1>2, <1>15
  <2> QED BY <2>1, <2>2, <1>1, <1>15, <1>17, <1>18, <1>19, <1>20, TopologyMesh DEF o
<1>22. PlainStep(c, q) BY <1>15, <1>16, <1>21 DEF PlainStep, o
<1>23. KeyStep(c, q)
  <2>1. KeepsReceived(o, v) BY <1>2, <1>3, <1>4, <1>15 DEF KeepsReceived
  <2>2. \A d \in Clients : IsFiniteSet(v.rcv[d]) BY <1>1, <1>15 DEF MeshParts, Few, o
  <2> QED BY <2>1, <2>2, <1>1, <1>10, <1>14, BecomeKeyStep DEF o
<1> QED BY <1>22, <1>23, PlainStepInvariant

\* The membership is the same: a lease is renewed or a relay has changed.
LEMMA TopologyRenewed ==
  ASSUME IInv, NEW c \in Clients, Pops(c), room' = room, left' = left, plan' = plan, outbox' = outbox,
         Head(inbox[c]).kind = "topology", NEW m, m = Head(inbox[c]), m.m = cl[c].m,
         NEW p, p = [cl[c] EXCEPT !.m = m.m, !.r = m.r, !.stable = TRUE, !.applied = cl[c].peers, !.age = 0, !.routed = TRUE],
         Become(c, AgentProvisioned(c, p), link)
  PROVE  IInv'
<1> DEFINE o == cl[c]
           v == AgentProvisioned(c, p)
<1>1. MeshParts /\ KeyParts BY Parts
<1>2. /\ Joined(c) /\ Takes(c) /\ o \in Client /\ m.m \in Nat /\ m.r \in Nat
      /\ o.applied = o.peers /\ (o.m > 0 => o.stable) /\ o.r <= m.r
  BY <1>1, TopologyFacts
<1>3. o.m \in Nat /\ o.e \in Nat BY <1>2, FieldTypes
<1>4. p \in Client BY <1>2 DEF Client
<1>5. /\ p.peers = o.peers /\ p.m = o.m /\ p.r = m.r /\ p.e = o.e /\ p.applied = o.peers /\ p.pc = o.pc
      /\ p.stable = TRUE /\ SamePair(o, p) /\ SameRing(o, p) /\ SameKeys(o, p)
  BY <1>2 DEF Client, SamePair, SameRing, SameKeys
<1>6. AgentStep(c, p) BY <1>1, <1>5, StayFacts DEF AgentStep, SameKeys
<1>7. v \in Client /\ SameMesh(p, v) /\ v.stable = p.stable /\ v.rcv = p.rcv
  BY <1>1, <1>4, AgentProvisionedFacts DEF MeshParts
<1>8. AgentStep(c, v) BY <1>1, <1>4, <1>6, ProvisionStep DEF MeshParts
<1> HIDE DEF v
<1>9. Become(c, v, link) BY DEF v
<1>10. Shrunk(link) BY <1>1, ShrunkFacts DEF MeshParts
<1>11. PICK q \in Client :
         /\ cl' = [cl EXCEPT ![c] = q] /\ SameMesh(v, q) /\ q.stable = v.stable /\ q.rcv = v.rcv
         /\ AgentStep(c, q) /\ NewLinks(c, q)
  BY <1>1, <1>7, <1>8, <1>9, <1>10, BecomeFacts DEF MeshParts
<1>12. /\ v.m = o.m /\ v.e = o.e /\ v.rcv = o.rcv
       /\ q.peers = o.peers /\ q.m = o.m /\ q.r = m.r /\ q.e = o.e /\ q.applied = o.peers /\ q.pc = o.pc
       /\ q.stable = TRUE /\ SamePair(o, q) /\ SameRing(o, q)
  BY <1>5, <1>7, <1>11 DEF SameMesh, SameEpochs, SamePair, SameRing, SameKeys
<1> HIDE DEF o
<1>13. Frame(c, q) BY <1>1, <1>2, <1>11, FrameFrom DEF MeshParts
<1>14. KeepsWord(c, q) BY <1>12, SilentWord DEF o, SamePair
<1>15. HasKey(q) BY <1>1, <1>12 DEF MeshParts, Ready, HasKey, SamePair, o
<1>16. Guards(c, q)
  <2>1. q.key = cl[c].key /\ cl[c].peers \cup cl[c].applied \subseteq q.peers \cup q.applied BY <1>2, <1>12 DEF o, SamePair
  <2> QED BY <2>1, <1>1, GuardsKept
<1>17. MeshStep(c, q)
  <2>1. \A y \in Clients : Has(o, y, cl[y].key) => Has(q, y, cl[y].key) BY <1>12 DEF Has, SameRing
  <2>2. q.r <= m.r /\ q.m = m.m BY <1>2, <1>12 DEF o
  <2> QED BY <2>1, <2>2, <1>1, <1>12, <1>13, <1>14, <1>15, <1>16, TopologyMesh DEF o
<1>18. PlainStep(c, q) BY <1>12, <1>17 DEF PlainStep, Writes, o
<1>19. KeyStep(c, q)
  <2>1. KeepsReceived(o, v) BY <1>2, <1>3, <1>12 DEF KeepsReceived
  <2>2. \A d \in Clients : IsFiniteSet(v.rcv[d]) BY <1>1, <1>12 DEF MeshParts, Few, o
  <2> QED BY <2>1, <2>2, <1>1, <1>7, <1>11, BecomeKeyStep DEF o
<1> QED BY <1>18, <1>19, PlainStepInvariant

LEMMA TopologyStep ==
  ASSUME IInv, NEW c \in Clients, Pops(c), room' = room, left' = left, plan' = plan,
         Head(inbox[c]).kind = "topology", ApplyTopology(c, Head(inbox[c]))
  PROVE  IInv'
<1> DEFINE m == Head(inbox[c])
           p == [cl[c] EXCEPT !.m = m.m, !.r = m.r, !.stable = TRUE, !.applied = cl[c].peers, !.age = 0, !.routed = TRUE]
<1>1. CASE ~Acceptable(c, m) /\ UNCHANGED <<cl, link, outbox>> BY <1>1, TopologyIgnored
<1>2. CASE /\ m.m # cl[c].m /\ cl' = [cl EXCEPT ![c] = RotateOverlayKey(AgentProvisioned(c, RotateMediaKeys(c, p)))]
           /\ UNCHANGED <<link, outbox>>
  BY <1>2, TopologyRotates
<1>3. CASE /\ m.m # cl[c].m /\ ~Departed(cl[c]) /\ cl[c].key # 0
           /\ Become(c, AgentProvisioned(c, [p EXCEPT !.imports = None]), link) /\ Tell(c, Announcement(p))
  BY <1>3, TopologyAnnounces
<1>4. CASE m.m = cl[c].m /\ Become(c, AgentProvisioned(c, p), link) /\ outbox' = outbox BY <1>4, TopologyRenewed
<1> QED BY <1>1, <1>2, <1>3, <1>4 DEF ApplyTopology

-----------------------------------------------------------------------------
(* Connections that are rebuilt *)

\* The peer is back at once and nobody else is concerned; the media keys and the peer's overlay key are gone.
Rebuilt(o, q, d) ==
  /\ q.peers = o.peers /\ q.stable = o.stable /\ SameEpochs(o, q) /\ SamePair(o, q)
  /\ q.pc = [o.pc EXCEPT ![d] = @ + 1]
  /\ \A y \in Clients \ {d} : q.ring[y] = o.ring[y] /\ q.imports[y] = o.imports[y]

LEMMA ReplacedFacts ==
  ASSUME NEW o \in Client, NEW d \in o.peers
  PROVE  LET p == AddPeers(RemovePeer([o EXCEPT !.pc[d] = @ + 1], d), {d})
         IN  /\ p \in Client /\ p.peers = o.peers /\ SameEpochs(o, p) /\ SamePair(o, p) /\ ~p.stable
             /\ p.pc = [o.pc EXCEPT ![d] = @ + 1] /\ NoKeys(p)
             /\ \A y \in Clients \ {d} : p.ring[y] = o.ring[y] /\ p.imports[y] = o.imports[y]
<1> DEFINE b == [o EXCEPT !.pc[d] = @ + 1]
           w == RemovePeer(b, d)
           p == AddPeers(w, {d})
<1>1. d \in Clients /\ {d} \in SUBSET Clients /\ o.pc \in [Clients -> Nat] BY FieldTypes
<1>2. [o.pc EXCEPT ![d] = @ + 1] \in [Clients -> Nat] BY <1>1
<1>3. b \in Client BY <1>2 DEF Client
<1>4. /\ b.peers = o.peers /\ SameEpochs(o, b) /\ SamePair(o, b)
      /\ b.ring = o.ring /\ b.imports = o.imports /\ b.pc = [o.pc EXCEPT ![d] = @ + 1]
  BY DEF Client, SameEpochs, SamePair
<1> HIDE DEF b
<1>5. /\ w \in Client /\ w.peers = b.peers \ {d} /\ w.stable = FALSE /\ w.pc = b.pc
      /\ SameEpochs(b, w) /\ SamePair(b, w) /\ NoKeys(w)
      /\ \A y \in Clients \ {d} : w.ring[y] = b.ring[y] /\ w.imports[y] = b.imports[y]
  BY <1>1, <1>3, RemovePeerFacts
<1> HIDE DEF w
<1>6. /\ p \in Client /\ p.peers = w.peers \cup {d} /\ (p.stable => w.stable) /\ p.pc = w.pc
      /\ SameEpochs(w, p) /\ SamePair(w, p) /\ SameRing(w, p) /\ SameKeys(w, p)
  BY <1>1, <1>5, AddPeersFacts
<1> HIDE DEF p
<1>7. p.peers = o.peers BY <1>4, <1>5, <1>6
<1>8. SameEpochs(o, p) BY <1>4, <1>5, <1>6 DEF SameEpochs
<1>9. SamePair(o, p) BY <1>4, <1>5, <1>6 DEF SamePair
<1>10. NoKeys(p) BY <1>5, <1>6 DEF NoKeys, SameKeys
<1>11. \A y \in Clients \ {d} : p.ring[y] = o.ring[y] /\ p.imports[y] = o.imports[y]
  BY <1>4, <1>5, <1>6 DEF SameRing
<1>12. ~p.stable /\ p.pc = [o.pc EXCEPT ![d] = @ + 1] BY <1>4, <1>5, <1>6
<1> QED BY <1>6, <1>7, <1>8, <1>9, <1>10, <1>11, <1>12 DEF b, w, p

LEMMA ResetFacts ==
  ASSUME MeshParts, KeyParts, NEW c \in Clients, NEW o, o = cl[c], NEW d \in o.peers, NEW links, Shrunk(links),
         NEW p, p = AddPeers(RemovePeer([o EXCEPT !.pc[d] = @ + 1], d), {d}),
         Become(c, IF o.stable THEN RotateMediaKeys(c, p) ELSE p, links), plan.resets # 0
  PROVE  \E q \in Client :
           cl' = [cl EXCEPT ![c] = q] /\ Rebuilt(o, q, d) /\ KeyStep(c, q) /\ p \in Client /\ q.key = p.key
<1> DEFINE v == IF o.stable THEN RotateMediaKeys(c, p) ELSE p
<1>1. o \in Client BY Types DEF MeshParts
<1>2. o.m \in Nat /\ o.e \in Nat /\ o.stable \in BOOLEAN BY <1>1, FieldTypes
<1>3. /\ p \in Client /\ p.peers = o.peers /\ SameEpochs(o, p) /\ SamePair(o, p) /\ ~p.stable
      /\ p.pc = [o.pc EXCEPT ![d] = @ + 1] /\ NoKeys(p)
      /\ \A y \in Clients \ {d} : p.ring[y] = o.ring[y] /\ p.imports[y] = o.imports[y]
  BY <1>1, ReplacedFacts
<1>4. p.stable \in BOOLEAN BY <1>3, FieldTypes
<1>5. v \in Client /\ SameMesh(p, v) /\ NoKeys(v) /\ v.stable = o.stable
  <2>1. CASE o.stable
    <3>1. v = RotateMediaKeys(c, p) /\ o.stable = TRUE BY <2>1, <1>2
    <3> QED BY <3>1, <1>3, RotateMediaFacts DEF MeshParts
  <2>2. CASE ~o.stable
    <3>1. v = p /\ v.stable = o.stable BY <2>2, <1>2, <1>3, <1>4
    <3> HIDE DEF v
    <3> QED BY <3>1, <1>3 DEF SameMesh, SameEpochs, SamePair, SameRing
  <2> QED BY <2>1, <2>2
<1>6. Become(c, v, links) OBVIOUS
<1> HIDE DEF v
<1>7. AgentStep(c, v) BY <1>5 DEF AgentStep, NoKeys, NoAgentKey, DropsAgent
<1>8. PICK q \in Client :
        /\ cl' = [cl EXCEPT ![c] = q] /\ SameMesh(v, q) /\ q.stable = v.stable /\ q.rcv = v.rcv
        /\ AgentStep(c, q) /\ NewLinks(c, q)
  BY <1>5, <1>6, <1>7, BecomeFacts DEF MeshParts
<1>9. SameMesh(p, q) /\ q.stable = o.stable BY <1>5, <1>8 DEF SameMesh, SameEpochs, SamePair, SameRing
<1>10. Rebuilt(o, q, d)
  <2>1. q.peers = o.peers /\ q.pc = [o.pc EXCEPT ![d] = @ + 1] BY <1>3, <1>9 DEF SameMesh
  <2>2. SameEpochs(o, q) /\ SamePair(o, q) BY <1>3, <1>9 DEF SameMesh, SameEpochs, SamePair
  <2>3. q.ring = p.ring /\ q.imports = p.imports BY <1>9 DEF SameMesh, SameRing
  <2>4. \A y \in Clients \ {d} : q.ring[y] = o.ring[y] /\ q.imports[y] = o.imports[y] BY <2>3, <1>3
  <2> QED BY <2>1, <2>2, <2>4, <1>9 DEF Rebuilt
<1>11. KeyStep(c, q)
  <2>1. KeepsReceived(o, v) BY <1>2, <1>3, <1>5 DEF KeepsReceived, SameMesh, SameEpochs
  <2>2. \A y \in Clients : IsFiniteSet(v.rcv[y]) BY <1>5, FS_EmptySet DEF NoKeys
  <2> QED BY <2>1, <2>2, <1>5, <1>8, BecomeKeyStep
<1>12. q.key = p.key BY <1>9 DEF SameMesh, SamePair
<1> QED BY <1>3, <1>8, <1>10, <1>11, <1>12

\* Who follows a request has no request under way to the same peer, and takes the only one of it.
LEMMA FollowStep ==
  ASSUME IInv, NEW c \in Clients, Pops(c), room' = room, left' = left, plan' = plan,
         Head(inbox[c]).kind = "marker", Follow(c, Head(inbox[c]))
  PROVE  IInv'
<1> DEFINE o == cl[c]
           m == Head(inbox[c])
           d == m.from
<1>1. MeshParts /\ KeyParts BY Parts
<1>2. o \in Client /\ cl \in [Clients -> Client] BY <1>1, Types DEF MeshParts, TypeOK
<1>3. Joined(c) /\ Takes(c) /\ m \in ServerMessage /\ m \in ToSet(inbox[c]) BY <1>1, MessageFacts
<1>4. PICK a, b \in RoomView : Seen(c, o, a) /\ Moves(c, m, a, b) BY <1>1, MessageFacts
<1>5. d \in Clients /\ m = MarkerFrom(d) BY <1>3 DEF ServerMessage, MarkerFrom
<1>6. d \in o.peers /\ d # c BY <1>4 DEF Moves, Seen
<1>7. inbox[c] \in Seq(ServerMessage) /\ inbox[c] # <<>> BY <1>1, <1>3, Types DEF MeshParts, Takes
<1>8. \A x \in Clients : m = MarkerFrom(x) => x = d BY <1>5 DEF MarkerFrom
<1>9. \A x \in Clients : Members(x, c) /\ m = MarkerFrom(x) => o.pc[d] # cl[d].pc[c]
  <2> SUFFICES ASSUME Members(d, c) PROVE o.pc[d] # cl[d].pc[c] BY <1>5, <1>8
  <2>1. OneMarker(d, c) BY <1>1, <1>5 DEF MeshParts, Marked
  <2>2. MarkerArrived(d, c) BY <1>3, <1>5, <1>7, PlacesIn DEF MarkerArrived
  <2>3. cl[d] \in Client BY <1>1, <1>5, Types DEF MeshParts
  <2>4. o.pc[d] \in Nat BY <1>2, <1>5, FieldTypes
  <2> QED BY <2>1, <2>2, <2>4 DEF OneMarker
<1>10. CASE Up(c, d)
  <2>1. cl' = cl /\ link' = link /\ outbox' = outbox BY <1>10 DEF Follow
  <2>2. cl' = [cl EXCEPT ![c] = o] BY <1>2, <2>1
  <2>3. Frame(c, o) BY <1>1, <1>2, <1>3, <2>1, <2>2, FrameFrom DEF MeshParts
  <2>4. KeepsWord(c, o)
    <3>1. \A x \in Clients : Members(x, c) => m # MarkerFrom(x) BY <1>9, <1>10 DEF Up
    <3> QED BY <3>1, <2>1 DEF KeepsWord
  <2>5. \A y \in Clients : Members(c, y) => Hears(c, o, y) BY HearsSame
  <2>6. SamePair(o, o) BY DEF SamePair
  <2>7. MeshStep(c, o) BY <2>3, <2>4, <2>5, <2>6, <1>1, QuietMesh
  <2>8. PlainStep(c, o) BY <2>1, <2>7 DEF PlainStep, Writes
  <2>9. KeyStep(c, o) BY <2>1, <1>1, StayFacts, SameKeyStep, SameLinks DEF MeshParts
  <2> QED BY <2>8, <2>9, PlainStepInvariant
<1>11. CASE ~Up(c, d)
  <2> DEFINE p == AddPeers(RemovePeer([o EXCEPT !.pc[d] = @ + 1], d), {d})
  <2>1. ResetPeerConnection(c, d, <<>>) BY <1>6, <1>11 DEF Follow
  <2>2. Become(c, IF o.stable THEN RotateMediaKeys(c, p) ELSE p, Cut(c, d)) /\ Tell(c, <<>> \o Announcement(p))
    BY <2>1 DEF ResetPeerConnection
  <2>3. Shrunk(Cut(c, d)) BY <1>1, <1>5, ShrunkFacts DEF MeshParts
  <2>4. plan.resets # 0 BY <1>1, <1>3, <1>5 DEF MeshParts, Unreset
  <2>5. p = AddPeers(RemovePeer([o EXCEPT !.pc[d] = @ + 1], d), {d}) OBVIOUS
  <2> HIDE DEF p
  <2>6. PICK q \in Client :
          cl' = [cl EXCEPT ![c] = q] /\ Rebuilt(o, q, d) /\ KeyStep(c, q) /\ p \in Client /\ q.key = p.key
    <3>1. o = cl[c] OBVIOUS
    <3> HIDE DEF o, d
    <3> QED BY <3>1, <1>1, <1>6, <2>2, <2>3, <2>4, <2>5, ResetFacts
  <2>7. cl' = [cl EXCEPT ![c] = q] /\ Rebuilt(o, q, d) /\ KeyStep(c, q) BY <2>6
  <2>8. q.key = p.key /\ q.m = o.m BY <2>6 DEF Rebuilt, SameEpochs
  <2>9. Tell(c, Announcement(p))
    <3>1. Announcement(p) \in Seq(ClientMessage)
      <4>1. p.key \in Nat BY <2>6, FieldTypes
      <4>2. [kind |-> "overlay-key", k |-> p.key, to |-> 0] \in ClientMessage BY <4>1 DEF ClientMessage
      <4> QED BY <4>2 DEF Announcement
    <3>2. <<>> \o Announcement(p) = Announcement(p) BY <3>1
    <3> QED BY <3>2, <2>2
  <2>10. (\E ms \in Seq(ClientMessage) : Tell(c, ms)) /\ Writes(c, q) /\ (q.key # 0 => Announces(c, q))
    BY <1>1, <2>6, <2>8, <2>9, TellFacts DEF MeshParts
  <2>11. Frame(c, q) /\ Reads(c) BY <1>1, <1>3, <2>7, <2>10, FrameFrom DEF MeshParts
  <2>12. KeepsWord(c, q)
    <3>1. outbox[c] \in Seq(ClientMessage) BY <1>1, Types DEF MeshParts
    <3> QED BY <3>1, <2>10 DEF KeepsWord, Announces
  <2>13. ASSUME NEW y \in Clients PROVE Hears(c, q, y)
    <3>1. CASE y = d
      <4>1. m \in About(d) BY <1>5 DEF About
      <4>2. m # KeyFrom(y, cl[y].key, room.m) BY <1>5 DEF KeyFrom, MarkerFrom
      <4> QED BY <3>1, <4>1, <4>2, <1>3 DEF Hears
    <3>2. CASE y # d
      <4>1. Has(o, y, cl[y].key) => Has(q, y, cl[y].key) BY <3>2, <2>7 DEF Has, Rebuilt, SameEpochs
      <4> QED BY <4>1, HearsSame
    <3> QED BY <3>1, <3>2
  <2>14. MeshStep(c, q)
    BY <2>7, <2>11, <2>12, <2>13, <1>1, QuietMesh DEF Rebuilt, SameEpochs
  <2>15. RoomStep(c, q) BY <2>14 DEF MeshStep
  <2>16. left' \in [routes : Nat, resets : Nat] BY <1>1 DEF MeshParts, TypeOK
  <2>17. Views' /\ Started' /\ Ready' /\ Shut' BY <1>1, <2>15, RoomStepFacts
  <2>18. TypeOK' /\ Few' /\ Absent' /\ KeyParts' BY <1>1, <2>7, <2>15, <2>16, KeyStepFacts
  <2>19. /\ \A x \in ToSet(outbox'[c]) : x \in ToSet(outbox[c]) \/ x = KeyOut(q.key)
         /\ \A x \in Clients : Places(outbox'[c], MarkerTo(x)) = Places(outbox[c], MarkerTo(x))
    BY <1>1, <2>10, WritesFacts DEF MeshParts
  <2>20. Known'
    <3>1. \A e \in q.peers : e \in cl[c].peers BY <2>7 DEF Rebuilt
    <3>2. \A e \in q.agent.acked : e \in cl[c].agent.acked
      BY <2>7 DEF KeyStep, AgentStep, SameAgent, DropsAgent, StartsAgent
    <3>3. KeyOut(q.key).kind # "marker" BY DEF KeyOut
    <3> QED BY <3>1, <3>2, <3>3, <2>11, <2>19, <1>1, KnownStep DEF MeshParts
  <2>21. Unreset' BY <2>4, <2>11 DEF Unreset, Frame
  <2>22. AllFed'
    <3>1. \A y \in Clients : MarkerSent(c, y) => MarkerSent(c, y)' BY <2>19 DEF MarkerSent, MarkerTo, Places
    <3> QED BY <3>1, <2>11, <2>12, <2>13, <1>1, FedStep DEF MeshParts
  <2>23. Marked'
    <3> SUFFICES ASSUME NEW x \in Clients, NEW y \in Clients, Members(x, y)' PROVE OneMarker(x, y)' BY DEF Marked
    <3>1. Members(x, y) /\ x # y BY <1>1, <2>11, FrameFacts DEF MeshParts, Members
    <3>2. OneMarker(x, y) BY <3>1, <1>1 DEF MeshParts, Marked
    <3>3. Places(outbox'[x], MarkerTo(y)) = Places(outbox[x], MarkerTo(y))
      <4>1. CASE x = c BY <4>1, <2>19
      <4>2. CASE x # c BY <4>2, <2>11 DEF Frame
      <4> QED BY <4>1, <4>2
    <3>4. cl'[c] = q /\ \A z \in Clients \ {c} : cl'[z] = cl[z] BY <1>1, <2>11, FrameFacts DEF MeshParts
    <3>5. CASE x = d /\ y = c
      <4>1. MarkerArrived(d, c) BY <1>3, <1>5, <1>7, PlacesIn DEF MarkerArrived
      <4>2. Places(outbox[d], MarkerTo(c)) = {} BY <4>1, <3>2, <3>5 DEF OneMarker, MarkerSent
      <4>3. Places(inbox'[c], MarkerFrom(d)) = {}
        <5> DEFINE f == MarkerFrom(d)
        <5>1. inbox'[c] = Tail(inbox[c]) BY <1>3 DEF Takes
        <5>2. m = f BY <1>5
        <5> HIDE DEF f
        <5>3. /\ \A i \in Places(inbox'[c], f) : i + 1 \in Places(inbox[c], f) /\ i + 1 # 1
              /\ 1 \in Places(inbox[c], f)
          BY <5>1, <5>2, <1>7, PlacesTail
        <5>4. \A i, j \in Places(inbox[c], f) : i = j BY <3>2, <3>5 DEF OneMarker, f
        <5> QED BY <5>3, <5>4 DEF f
      <4> QED BY <4>2, <4>3, <3>3, <3>5 DEF OneMarker, MarkerSent, MarkerArrived, MarkerTo, MarkerFrom, Places
    <3>6. CASE x = c /\ y = d
      <4>1. Members(d, c) BY <3>1, <3>6 DEF Members
      <4>2. OneMarker(d, c) BY <4>1, <1>1, <1>5 DEF MeshParts, Marked
      <4>3. MarkerArrived(d, c) BY <1>3, <1>5, <1>7, PlacesIn DEF MarkerArrived
      <4>4. o.pc[d] \in Nat /\ cl[d].pc[c] \in Nat
        BY <1>1, <1>2, <1>5, Types, FieldTypes DEF MeshParts
      <4>5. ~MarkerSent(c, d) /\ ~MarkerArrived(c, d) BY <4>2, <4>3, <4>4, <3>2, <3>6 DEF OneMarker
      <4>6. inbox'[d] = inbox[d] BY <2>11, <1>5, <1>6 DEF Frame
      <4> QED BY <4>5, <4>6, <3>3, <3>6 DEF OneMarker, MarkerSent, MarkerArrived, MarkerTo, MarkerFrom, Places
    <3>7. CASE ~(x = d /\ y = c) /\ ~(x = c /\ y = d)
      <4>1. o.pc \in [Clients -> Nat] /\ q.pc = [o.pc EXCEPT ![d] = @ + 1] BY <1>2, <2>7, FieldTypes DEF Rebuilt
      <4>2. \A z \in Clients \ {d} : q.pc[z] = o.pc[z] BY <4>1
      <4>3. cl'[x].pc[y] = cl[x].pc[y]
        <5>1. CASE x = c BY <5>1, <4>2, <3>4, <3>7
        <5>2. CASE x # c BY <5>2, <3>4
        <5> QED BY <5>1, <5>2
      <4>4. cl'[y].pc[x] = cl[y].pc[x]
        <5>1. CASE y = c BY <5>1, <4>2, <3>4, <3>7
        <5>2. CASE y # c BY <5>2, <3>4
        <5> QED BY <5>1, <5>2
      <4> QED BY <4>3, <4>4, <3>2, <3>3, <2>11, <1>1, OneMarkerStep DEF MeshParts
    <3> QED BY <3>5, <3>6, <3>7
  <2>24. MeshParts' BY <2>17, <2>18, <2>20, <2>21, <2>22, <2>23 DEF MeshParts
  <2>25. KeyParts' BY <2>18
  <2> QED BY <2>24, <2>25, Parts, PTL
<1> QED BY <1>10, <1>11

\* w is u and x; w is u, a request to d and the key k, if there is one
Adds(w, u, x) ==
  /\ w \in Seq(ClientMessage) /\ ToSet(w) = ToSet(u) \cup {x}
  /\ \A z : Places(w, z) = Places(u, z) \cup (IF x = z THEN {Len(u) + 1} ELSE {})
AddsMarker(w, u, d, k) ==
  /\ k = 0 \/ \E s \in Seq(ClientMessage) : w = Append(s, KeyOut(k))
  /\ \A x \in Clients : Places(w, MarkerTo(x)) = Places(u, MarkerTo(x)) \cup (IF x = d THEN {Len(u) + 1} ELSE {})
  /\ \A x \in ToSet(w) : x \in ToSet(u) \/ x = MarkerTo(d) \/ x = KeyOut(k)

LEMMA OneMore ==
  ASSUME NEW u \in Seq(ClientMessage), NEW x \in ClientMessage, NEW w, w = Append(u, x)
  PROVE  Adds(w, u, x)
<1>1. w \in Seq(ClientMessage) OBVIOUS
<1>2. ToSet(w) = ToSet(u) \cup {x} BY ToSetAppend
<1>3. \A z : Places(w, z) = Places(u, z) \cup (IF x = z THEN {Len(u) + 1} ELSE {}) BY PlacesAppend
<1> QED BY <1>1, <1>2, <1>3 DEF Adds

LEMMA MarkerOut ==
  ASSUME NEW u \in Seq(ClientMessage), NEW d \in Clients, NEW k \in Nat,
         NEW w, w = u \o (<<MarkerTo(d)>> \o (IF k = 0 THEN <<>> ELSE <<KeyOut(k)>>))
  PROVE  AddsMarker(w, u, d, k)
<1>1. PICK mk \in ClientMessage : mk = MarkerTo(d) BY DEF MarkerTo, ClientMessage
<1>2. PICK ky \in ClientMessage : ky = KeyOut(k) BY DEF KeyOut, ClientMessage
<1>3. \A x \in Clients : ky # MarkerTo(x) /\ (mk = MarkerTo(x) <=> x = d) BY <1>1, <1>2 DEF KeyOut, MarkerTo
<1> DEFINE s == Append(u, mk)
           t == <<ky>>
<1>4. s = Append(u, mk) /\ s \in Seq(ClientMessage) /\ t = <<ky>> /\ t \in Seq(ClientMessage) OBVIOUS
<1> HIDE DEF s, t
<1>5. Adds(s, u, mk) BY <1>4, OneMore
<1>6. /\ \A x \in Clients : Places(s, MarkerTo(x)) = Places(u, MarkerTo(x)) \cup (IF x = d THEN {Len(u) + 1} ELSE {})
      /\ \A x \in ToSet(s) : x \in ToSet(u) \/ x = MarkerTo(d)
  BY <1>1, <1>3, <1>5 DEF Adds
<1>7. CASE k = 0
  <2>1. w = s BY <1>1, <1>4, <1>7
  <2> QED BY <2>1, <1>6, <1>7 DEF AddsMarker
<1>8. CASE k # 0
  <2>1. w = u \o (<<mk>> \o t) BY <1>1, <1>2, <1>4, <1>8
  <2>2. u \o (<<mk>> \o t) = Append(u, mk) \o t BY <1>4, AppendFirst
  <2>3. w = s \o t BY <2>1, <2>2, <1>4
  <2>4. w = Append(s, ky) BY <1>4, <2>3, SMTT(30)
  <2>5. Adds(w, s, ky) BY <2>4, <1>4, OneMore
  <2>6. \A x \in Clients : Places(w, MarkerTo(x)) = Places(s, MarkerTo(x)) BY <2>5, <1>3 DEF Adds
  <2>7. \A x \in ToSet(w) : x \in ToSet(s) \/ x = KeyOut(k) BY <2>5, <1>2 DEF Adds
  <2>8. \E r \in Seq(ClientMessage) : w = Append(r, KeyOut(k)) BY <2>4, <1>2, <1>4
  <2> QED BY <2>6, <2>7, <2>8, <1>6 DEF AddsMarker
<1> QED BY <1>7, <1>8

\* Who asks a peer to follow has no request of it, since the channel is there.
LEMMA ResetStartsStep ==
  ASSUME IInv, NEW c \in Clients, NEW d \in Clients, ResetStarts(c, d)
  PROVE  IInv'
<1> DEFINE o == cl[c]
           mk == MarkerTo(d)
           p == AddPeers(RemovePeer([o EXCEPT !.pc[d] = @ + 1], d), {d})
<1>1. MeshParts /\ KeyParts BY Parts
<1>2. o \in Client /\ cl \in [Clients -> Client] /\ outbox[c] \in Seq(ClientMessage) /\ inbox[c] \in Seq(ServerMessage)
  BY <1>1, Types DEF MeshParts, TypeOK
<1>3. /\ left.resets > 0 /\ d \in o.peers /\ Up(c, d) /\ left' = [left EXCEPT !.resets = @ - 1]
      /\ room' = room /\ inbox' = inbox /\ plan' = plan
  BY DEF ResetStarts
<1>4. Joined(c) BY <1>1, <1>3 DEF MeshParts, Absent, Blank
<1>5. d # c
  <2>1. PICK a \in RoomView : Seen(c, o, a) BY <1>1, <1>4 DEF MeshParts, Views
  <2> QED BY <2>1, <1>3 DEF Seen
<1>6. plan.resets # 0 BY <1>1, <1>3 DEF MeshParts, Unreset
<1>7. Become(c, IF o.stable THEN RotateMediaKeys(c, p) ELSE p, [Cut(c, d) EXCEPT ![d][c] = <<>>])
  BY DEF ResetStarts, ResetPeerConnection
<1>8. Tell(c, <<mk>> \o Announcement(p)) BY DEF ResetStarts, ResetPeerConnection, MarkerTo
<1>9. Shrunk([Cut(c, d) EXCEPT ![d][c] = <<>>]) BY <1>1, ShrunkFacts DEF MeshParts
<1>10. p = AddPeers(RemovePeer([o EXCEPT !.pc[d] = @ + 1], d), {d}) /\ o = cl[c] OBVIOUS
<1> HIDE DEF p
<1>11. PICK q \in Client :
         cl' = [cl EXCEPT ![c] = q] /\ Rebuilt(o, q, d) /\ KeyStep(c, q) /\ p \in Client /\ q.key = p.key
  <2> HIDE DEF o
  <2> QED BY <1>1, <1>3, <1>6, <1>7, <1>9, <1>10, ResetFacts
<1>12. cl' = [cl EXCEPT ![c] = q] /\ Rebuilt(o, q, d) /\ KeyStep(c, q) BY <1>11
<1>13. q.key \in Nat /\ mk \in ClientMessage /\ (q.key # 0 => KeyOut(q.key) \in ClientMessage)
  <2>1. q.key \in Nat BY FieldTypes
  <2> QED BY <2>1 DEF ClientMessage, KeyOut, MarkerTo
<1>14. Announcement(p) = IF q.key = 0 THEN <<>> ELSE <<KeyOut(q.key)>> BY <1>11 DEF Announcement, KeyOut
<1>15. outbox'[c] = outbox[c] \o (<<mk>> \o (IF q.key = 0 THEN <<>> ELSE <<KeyOut(q.key)>>))
  <2>1. outbox \in [Clients -> Seq(ClientMessage)] BY <1>1 DEF MeshParts, TypeOK
  <2> QED BY <2>1, <1>8, <1>14 DEF Tell
<1>16. <<mk>> \o Announcement(p) \in Seq(ClientMessage)
  <2>1. Announcement(p) \in Seq(ClientMessage) BY <1>13, <1>14
  <2> HIDE DEF mk
  <2> QED BY <2>1, <1>13
<1>17. Frame(c, q) /\ Reads(c) BY <1>1, <1>3, <1>4, <1>8, <1>12, <1>16, FrameFrom DEF MeshParts
<1>18. PICK w : w = outbox'[c] OBVIOUS
<1>19. AddsMarker(w, outbox[c], d, q.key)
  <2>1. w = outbox[c] \o (<<MarkerTo(d)>> \o (IF q.key = 0 THEN <<>> ELSE <<KeyOut(q.key)>>)) BY <1>15, <1>18
  <2> HIDE DEF mk
  <2> QED BY <2>1, <1>2, <1>13, MarkerOut
<1>20. \A x \in Clients : Places(outbox'[c], MarkerTo(x)) =
         Places(outbox[c], MarkerTo(x)) \cup (IF x = d THEN {Len(outbox[c]) + 1} ELSE {})
  BY <1>18, <1>19 DEF AddsMarker
<1>21. \A x \in ToSet(outbox'[c]) : x \in ToSet(outbox[c]) \/ x = mk \/ x = KeyOut(q.key)
  BY <1>18, <1>19 DEF AddsMarker
<1> HIDE DEF mk
<1>22. KeepsWord(c, q) BY <1>18, <1>19 DEF KeepsWord, AddsMarker
<1>23. HasKey(q) BY <1>1, <1>12 DEF MeshParts, Ready, HasKey, Rebuilt, SameEpochs, SamePair
<1>24. Guards(c, q) BY <1>1, <1>3, <1>4, <1>12 DEF MeshParts, Shut, ShutOut, Guards, Rebuilt, SameEpochs, SamePair
<1>25. RoomStep(c, q) /\ ~Takes(c) BY <1>1, <1>3, <1>12, <1>17, <1>23, <1>24, StillRoom DEF Rebuilt
<1>26. left' \in [routes : Nat, resets : Nat]
  <2>1. left \in [routes : Nat, resets : Nat] BY <1>1 DEF MeshParts, TypeOK
  <2>2. left.resets - 1 \in Nat BY <2>1, <1>3
  <2> QED BY <2>1, <2>2, <1>3
<1>27. Views' /\ Started' /\ Ready' /\ Shut' BY <1>1, <1>25, RoomStepFacts
<1>28. TypeOK' /\ Few' /\ Absent' /\ KeyParts' BY <1>1, <1>12, <1>25, <1>26, KeyStepFacts
<1>29. Known'
  <2>1. \A e \in q.peers : e \in cl[c].peers BY <1>12 DEF Rebuilt
  <2>2. \A e \in q.agent.acked : e \in cl[c].agent.acked
    BY <1>12 DEF KeyStep, AgentStep, SameAgent, DropsAgent, StartsAgent
  <2>3. Ever(d) BY <1>1, <1>3 DEF MeshParts, Known, Unknown
  <2>4. KeyOut(q.key).kind # "marker" /\ mk.to = d BY DEF KeyOut, MarkerTo, mk
  <2> QED BY <2>1, <2>2, <2>3, <2>4, <1>1, <1>17, <1>21, KnownStep DEF MeshParts
<1>30. Unreset' BY <1>3, <1>6 DEF Unreset
<1>31. \A y \in Clients : MarkerSent(c, y) => MarkerSent(c, y)'
  BY <1>20 DEF MarkerSent, MarkerTo, Places
<1>32. MarkerSent(c, d)'
  <2>1. Places(outbox'[c], MarkerTo(d)) # {} BY <1>20
  <2> QED BY <2>1 DEF MarkerSent, MarkerTo, Places
<1>33. AllFed'
  <2>1. ASSUME NEW y \in Clients PROVE Hears(c, q, y) \/ MarkerSent(c, y)'
    <3>1. CASE y = d BY <3>1, <1>32
    <3>2. CASE y # d BY <3>2, <1>12, <1>25 DEF Hears, Has, Rebuilt, SameEpochs
    <3> QED BY <3>1, <3>2
  <2> QED BY <2>1, <1>1, <1>17, <1>22, <1>31, FedStep DEF MeshParts
<1>34. Marked'
  <2> SUFFICES ASSUME NEW x \in Clients, NEW y \in Clients, Members(x, y)' PROVE OneMarker(x, y)' BY DEF Marked
  <2>1. Members(x, y) BY <1>1, <1>17, FrameFacts DEF MeshParts
  <2>2. OneMarker(x, y) BY <2>1, <1>1 DEF MeshParts, Marked
  <2>3. cl'[c] = q /\ \A z \in Clients \ {c} : cl'[z] = cl[z] BY <1>1, <1>17, FrameFacts DEF MeshParts
  <2>4. o.pc \in [Clients -> Nat] /\ q.pc = [o.pc EXCEPT ![d] = @ + 1] BY <1>2, <1>12, FieldTypes DEF Rebuilt
  <2>5. o.pc[d] \in Nat /\ cl[d].pc[c] \in Nat /\ o.pc[d] = cl[d].pc[c]
    BY <2>4, <1>1, <1>3, Types, FieldTypes DEF MeshParts, Up
  <2>6. CASE x = c /\ y = d
    <3>1. ~MarkerSent(c, d) /\ ~MarkerArrived(c, d) BY <2>2, <2>5, <2>6 DEF OneMarker
    <3>2. Places(outbox'[c], MarkerTo(d)) = {Len(outbox[c]) + 1} BY <3>1, <1>20 DEF MarkerSent
    <3>3. Places(inbox'[d], MarkerFrom(c)) = {} BY <3>1, <1>3 DEF MarkerArrived
    <3>4. cl'[c].pc[d] = cl'[d].pc[c] + 1 BY <2>3, <2>4, <2>5, <1>5
    <3> QED BY <3>2, <3>3, <3>4, <2>6 DEF OneMarker, MarkerSent, MarkerArrived, MarkerTo, MarkerFrom, Places
  <2>7. CASE x = d /\ y = c
    <3>1. ~MarkerSent(d, c) /\ ~MarkerArrived(d, c) BY <2>2, <2>5, <2>7 DEF OneMarker
    <3>2. Places(outbox'[d], MarkerTo(c)) = {} BY <3>1, <1>5, <1>17 DEF MarkerSent, Frame
    <3>3. Places(inbox'[c], MarkerFrom(d)) = {} BY <3>1, <1>3 DEF MarkerArrived
    <3> QED BY <3>2, <3>3, <2>7 DEF OneMarker, MarkerSent, MarkerArrived, MarkerTo, MarkerFrom, Places
  <2>8. CASE ~(x = d /\ y = c) /\ ~(x = c /\ y = d)
    <3>1. \A z \in Clients \ {d} : q.pc[z] = o.pc[z] BY <2>4
    <3>2. cl'[x].pc[y] = cl[x].pc[y]
      <4>1. CASE x = c BY <4>1, <3>1, <2>3, <2>8
      <4>2. CASE x # c BY <4>2, <2>3
      <4> QED BY <4>1, <4>2
    <3>3. cl'[y].pc[x] = cl[y].pc[x]
      <4>1. CASE y = c BY <4>1, <3>1, <2>3, <2>8
      <4>2. CASE y # c BY <4>2, <2>3
      <4> QED BY <4>1, <4>2
    <3>4. Places(outbox'[x], MarkerTo(y)) = Places(outbox[x], MarkerTo(y))
      <4>1. CASE x = c BY <4>1, <1>20, <2>8
      <4>2. CASE x # c BY <4>2, <1>17 DEF Frame
      <4> QED BY <4>1, <4>2
    <3> QED BY <3>2, <3>3, <3>4, <2>2, <1>17, <1>1, OneMarkerStep DEF MeshParts
  <2> QED BY <2>6, <2>7, <2>8
<1>35. MeshParts' BY <1>27, <1>28, <1>29, <1>30, <1>33, <1>34 DEF MeshParts
<1>36. KeyParts' BY <1>28
<1> QED BY <1>35, <1>36, Parts, PTL

-----------------------------------------------------------------------------
(* Packets between clients *)

\* What a step without a rebuilt connection keeps of the invariant, whatever becomes of the shared key.
LEMMA PlainRest ==
  ASSUME IInv, NEW c \in Clients, NEW q, PlainStep(c, q), link' \in [Clients -> [Clients -> Seq(Envelope)]],
         \A a \in Clients \ {c} : ~Joined(a) => \A b \in Clients : ToSet(link'[a][b]) \subseteq ToSet(link[a][b]),
         \A d \in Clients : IsFiniteSet(q.rcv[d]),
         \A e \in q.agent.acked : e \in cl[c].agent.acked \/ Ever(e)
  PROVE  MeshParts' /\ Newcomers'
<1>1. MeshParts /\ KeyParts BY Parts
<1>2. TypeOK /\ left' = left /\ MeshStep(c, q) /\ RoomStep(c, q) BY <1>1 DEF MeshParts, PlainStep, MeshStep
<1>3. left' \in [routes : Nat, resets : Nat] BY <1>2 DEF TypeOK
<1>4. Frame(c, q) /\ Reads(c) /\ Epoch(c, q) BY <1>2 DEF RoomStep
<1>5. TypeOK' BY <1>2, <1>3, <1>4, TypesStep
<1>6. Few' BY <1>1, <1>4, FewStep DEF MeshParts
<1>7. Absent' BY <1>1, <1>4, <1>5, AbsentStep DEF MeshParts
<1>8. Views' /\ Started' /\ Ready' /\ Shut' BY <1>1, <1>2, RoomStepFacts
<1>9. Marked' /\ AllFed' /\ Unreset' BY <1>1, PlainMarks
<1>10. Known'
  <2>1. \A e \in q.peers : e \in cl[c].peers \/ Ever(e) BY <1>2 DEF RoomStep, Greets
  <2>2. \A x \in ToSet(outbox'[c]) : x.kind = "marker" => x \in ToSet(outbox[c]) \/ Ever(x.to)
    <3>1. \A x \in ToSet(outbox'[c]) : x \in ToSet(outbox[c]) \/ x = KeyOut(q.key)
      BY <1>2, <1>4, WritesFacts DEF PlainStep, Frame
    <3>2. KeyOut(q.key).kind # "marker" BY DEF KeyOut
    <3> QED BY <3>1, <3>2
  <2> QED BY <2>1, <2>2, <1>1, <1>4, KnownStep DEF MeshParts
<1>11. Newcomers' BY <1>1, <1>4, NewcomerStep DEF MeshParts, KeyParts
<1> QED BY <1>5, <1>6, <1>7, <1>8, <1>9, <1>10, <1>11 DEF MeshParts

\* The next packet of a channel is taken.
LEMMA TakenFacts ==
  ASSUME TypeOK, NEW c \in Clients, NEW d \in Clients, link[c][d] # <<>>,
         NEW taken, taken = [link EXCEPT ![c][d] = Tail(@)]
  PROVE  /\ Shrunk(taken) /\ Head(link[c][d]) \in Envelope /\ Head(link[c][d]) \in ToSet(link[c][d])
         /\ \A a, b \in Clients : ~(a = c /\ b = d) => taken[a][b] = link[a][b]
<1>1. link \in [Clients -> [Clients -> Seq(Envelope)]] BY DEF TypeOK
<1>2. link[c][d] \in Seq(Envelope) BY <1>1
<1>3. /\ ToSet(Tail(link[c][d])) \subseteq ToSet(link[c][d]) /\ Tail(link[c][d]) \in Seq(Envelope)
      /\ Head(link[c][d]) \in ToSet(link[c][d]) /\ Head(link[c][d]) \in Envelope
  BY <1>2, ToSetTail
<1>4. taken \in [Clients -> [Clients -> Seq(Envelope)]] BY <1>1, <1>3
<1>5. taken[c][d] = Tail(link[c][d]) BY <1>1
<1>6. \A a, b \in Clients : ~(a = c /\ b = d) => taken[a][b] = link[a][b] BY <1>1
<1>7. \A a, b \in Clients : ToSet(taken[a][b]) \subseteq ToSet(link[a][b]) BY <1>3, <1>5, <1>6
<1> QED BY <1>3, <1>4, <1>6, <1>7 DEF Shrunk

\* Packets are lost, and d may take note of an acknowledgement of its own key.
LEMMA LossStep ==
  ASSUME IInv, NEW d \in Clients, NEW q \in Client, Joined(d), cl' = [cl EXCEPT ![d] = q],
         SameMesh(cl[d], q), q.stable = cl[d].stable, SameKeys(cl[d], q), Shrunk(link'),
         UNCHANGED <<room, inbox, outbox, left, plan>>
  PROVE  IInv'
<1>1. MeshParts /\ KeyParts BY Parts
<1>2. Frame(d, q) BY <1>1, FrameFrom DEF MeshParts
<1>3. Writes(d, q) BY DEF Writes
<1>4. MeshStep(d, q) BY <1>1, <1>2, <1>3, SameMeshStep
<1>5. PlainStep(d, q) BY <1>3, <1>4 DEF PlainStep, SameMesh
<1>6. NewLinks(d, q) BY DEF NewLinks, Shrunk
<1>7. KeyStep(d, q)
  <2>1. SameAgent(cl[d].agent, q.agent) /\ q.agent.told \subseteq q.peers
    BY <1>1, StayFacts DEF SameAgent, SameKeys, SameMesh
  <2> QED BY <2>1, <1>1, <1>6, SameKeyStep DEF SameKeys
<1> QED BY <1>5, <1>7, PlainStepInvariant

\* Packets come from members.
LEMMA PacketFrom ==
  ASSUME MeshParts, NEW c \in Clients, NEW d \in Clients, link[c][d] # <<>>
  PROVE  Joined(c) /\ (c \in cl[d].peers => Joined(d) /\ c # d)
<1>1. Joined(c) BY DEF MeshParts, Absent
<1>2. ASSUME c \in cl[d].peers PROVE Joined(d) /\ c # d
  <2>1. Joined(d) BY <1>2 DEF MeshParts, Absent, Blank
  <2>2. PICK a \in RoomView : Seen(d, cl[d], a) BY <2>1 DEF MeshParts, Views
  <2> QED BY <1>2, <2>1, <2>2 DEF Seen
<1> QED BY <1>1, <1>2

\* A received key is kept with those the sender may still use.
LEMMA InstalledFacts ==
  ASSUME TypeOK, Few, NEW c \in Clients, NEW d \in Clients, NEW k \in Envelope, NEW o, o = cl[d]
  PROVE  LET q == Installed(d, c, k)
         IN  /\ q \in Client /\ SameMesh(o, q) /\ q.stable = o.stable /\ q.agent = o.agent
             /\ q.rcv[c] = (o.rcv[c] \cap KeysAbout(c, d)) \cup {k.n}
             /\ \A y \in Clients \ {c} : q.rcv[y] = o.rcv[y]
             /\ \A y \in Clients : IsFiniteSet(q.rcv[y])
<1> DEFINE R == (o.rcv[c] \cap KeysAbout(c, d)) \cup {k.n}
           q == [o EXCEPT !.rcv[c] = R]
<1>1. o \in Client /\ o.rcv \in [Clients -> SUBSET Nat] BY Types, FieldTypes
<1>2. k.n \in Nat BY DEF Envelope
<1>3. R \in SUBSET Nat BY <1>1, <1>2
<1>4. IsFiniteSet(R)
  <2>1. IsFiniteSet(o.rcv[c]) BY DEF Few
  <2>2. IsFiniteSet(o.rcv[c] \cap KeysAbout(c, d)) BY <2>1, FS_Subset
  <2> QED BY <2>2, FS_AddElement
<1>5. Installed(d, c, k) = q BY DEF Installed
<1>6. \A y \in Clients : IsFiniteSet(o.rcv[y]) BY DEF Few
<1> HIDE DEF R
<1>7. q \in Client BY <1>1, <1>3 DEF Client
<1>8. SameMesh(o, q) /\ q.stable = o.stable /\ q.agent = o.agent
  BY <1>1 DEF Client, SameMesh, SameEpochs, SamePair, SameRing
<1>9. q.rcv = [o.rcv EXCEPT ![c] = R] BY <1>1 DEF Client
<1> HIDE DEF q
<1>10. q.rcv[c] = R /\ \A y \in Clients \ {c} : q.rcv[y] = o.rcv[y] BY <1>1, <1>9
<1>11. \A y \in Clients : IsFiniteSet(q.rcv[y]) BY <1>4, <1>6, <1>10
<1> QED BY <1>5, <1>7, <1>8, <1>10, <1>11 DEF R

\* A packet is taken and answered.
Answers(c, d, x) ==
  /\ link' \in [Clients -> [Clients -> Seq(Envelope)]]
  /\ \A a, b \in Clients : \A k \in ToSet(link'[a][b]) : k \in ToSet(link[a][b]) \/ (a = d /\ b = c /\ k = x)
LEMMA AnswerFacts ==
  ASSUME TypeOK, NEW c \in Clients, NEW d \in Clients, NEW taken, Shrunk(taken), NEW x \in Envelope,
         link' = [taken EXCEPT ![d][c] = Append(@, x)]
  PROVE  Answers(c, d, x)
<1>1. taken \in [Clients -> [Clients -> Seq(Envelope)]] BY DEF Shrunk
<1>2. taken[d][c] \in Seq(Envelope) BY <1>1
<1>3. ToSet(Append(taken[d][c], x)) = ToSet(taken[d][c]) \cup {x} BY <1>2, ToSetAppend
<1>4. Append(taken[d][c], x) \in Seq(Envelope) BY <1>2
<1>5. link' \in [Clients -> [Clients -> Seq(Envelope)]] BY <1>1, <1>4
<1>6. link'[d][c] = Append(taken[d][c], x) BY <1>1
<1>7. \A a, b \in Clients : ~(a = d /\ b = c) => link'[a][b] = taken[a][b] BY <1>1
<1>8. ASSUME NEW a \in Clients, NEW b \in Clients, NEW k \in ToSet(link'[a][b])
      PROVE  k \in ToSet(link[a][b]) \/ (a = d /\ b = c /\ k = x)
  <2>1. ToSet(taken[a][b]) \subseteq ToSet(link[a][b]) BY DEF Shrunk
  <2>2. CASE a = d /\ b = c BY <2>1, <2>2, <1>3, <1>6, <1>8
  <2>3. CASE ~(a = d /\ b = c) BY <2>1, <2>3, <1>7, <1>8
  <2> QED BY <2>2, <2>3
<1> QED BY <1>5, <1>8 DEF Answers

\* d has the key of c and says so: if it is the shared one, it is of the epochs of d.
LEMMA InstallStep ==
  ASSUME IInv, NEW c \in Clients, NEW d \in Clients, link[c][d] # <<>>, NEW k, k = Head(link[c][d]),
         Installable(d, c, k), k.kind \in {"media-key", "agent-key"}, NEW x \in Envelope,
         x.kind = (IF k.kind = "media-key" THEN "media-ack" ELSE "agent-ack"), x.n = k.n, Answers(c, d, x),
         cl' = [cl EXCEPT ![d] = Installed(d, c, k)], UNCHANGED <<room, inbox, outbox, left, plan>>
  PROVE  IInv'
<1> DEFINE o == cl[d]
           q == Installed(d, c, k)
<1>1. MeshParts /\ KeyParts BY Parts
<1>2. TypeOK /\ Few /\ Packets /\ AllHeld BY <1>1 DEF MeshParts, KeyParts
<1>3. k \in Envelope /\ k \in ToSet(link[c][d]) BY <1>2, TakenFacts
<1>4. Joined(c) /\ Joined(d) /\ c # d /\ k.m = o.m /\ (k.kind = "agent-key" => k.e = o.e)
  BY <1>1, PacketFrom DEF Installable, Opens
<1>5. /\ q \in Client /\ SameMesh(o, q) /\ q.stable = o.stable /\ q.agent = o.agent
      /\ q.rcv[c] = (o.rcv[c] \cap KeysAbout(c, d)) \cup {k.n}
      /\ \A y \in Clients \ {c} : q.rcv[y] = o.rcv[y]
      /\ \A y \in Clients : IsFiniteSet(q.rcv[y])
  BY <1>2, <1>3, InstalledFacts
<1>6. cl' = [cl EXCEPT ![d] = q] /\ o = cl[d] OBVIOUS
<1> HIDE DEF o, q
<1>7. Frame(d, q) BY <1>2, <1>4, <1>5, <1>6, FrameFrom
<1>8. Writes(d, q) BY DEF Writes
<1>9. MeshStep(d, q) BY <1>1, <1>5, <1>6, <1>7, <1>8, SameMeshStep
<1>10. PlainStep(d, q) BY <1>5, <1>6, <1>8, <1>9 DEF PlainStep, SameMesh
<1>11. MeshParts' /\ Newcomers'
  <2>1. \A a \in Clients \ {d} : \A b \in Clients : ToSet(link'[a][b]) \subseteq ToSet(link[a][b]) BY DEF Answers
  <2>2. link' \in [Clients -> [Clients -> Seq(Envelope)]] BY DEF Answers
  <2>3. \A e \in q.agent.acked : e \in cl[d].agent.acked BY <1>5, <1>6
  <2> QED BY <2>1, <2>2, <2>3, <1>5, <1>10, PlainRest
<1>12. AgentStep(d, q) /\ q.m = o.m /\ q.e = o.e /\ q.peers = o.peers
  <2>1. o.agent.told \subseteq o.peers BY <1>1, <1>6, StayFacts
  <2> QED BY <2>1, <1>5, <1>6 DEF AgentStep, SameAgent, SameMesh, SameEpochs
<1>13. Reads(d) /\ Epoch(d, q) BY <1>9 DEF MeshStep, RoomStep
<1>14. AgentKeys'
  <2>1. o.m \in Nat /\ o.e \in Nat BY <1>2, <1>6, Types, FieldTypes
  <2>2. q.m >= cl[d].m /\ q.e >= cl[d].e BY <2>1, <1>6, <1>12
  <2> QED BY <2>2, <1>1, <1>2, <1>7, <1>12, AgentKeysStep DEF KeyParts
<1>15. AllLater' BY <1>1, <1>2, <1>6, <1>7, <1>12, <1>13, LaterStep DEF KeyParts
<1>16. \A a \in Clients : cl'[a].agent = cl[a].agent /\ (a # d => cl'[a] = cl[a]) BY <1>2, <1>5, <1>6, <1>7, FrameFacts
<1>17. Packets'
  <2> SUFFICES ASSUME NEW a \in Clients, NEW b \in Clients, NEW y \in ToSet(link'[a][b])
               PROVE  /\ y.kind \in {"agent-key", "agent-ack"} => y.n # 0
                      /\ y.kind = "agent-key" /\ y.n = cl'[a].agent.n => y.m = cl'[a].agent.m /\ y.e = cl'[a].agent.e
    BY DEF Packets, PacketsOfKey
  <2>1. CASE y \in ToSet(link[a][b]) BY <2>1, <1>2, <1>16 DEF Packets, PacketsOfKey
  <2>2. CASE y = x
    <3>1. k.kind = "agent-key" => k.n # 0 BY <1>2, <1>3 DEF Packets, PacketsOfKey
    <3> QED BY <2>2, <3>1
  <2> QED BY <2>1, <2>2 DEF Answers
<1>18. AllHeld'
  <2> SUFFICES ASSUME NEW a \in Clients, NEW b \in Clients, Vouched(cl'[a].agent, b, ToSet(link'[b][a])), Joined(b)'
               PROVE  HoldsKey(cl'[a].agent, cl'[b], cl'[b].rcv[a])
    BY DEF AllHeld, Held, Vouched, HoldsKey
  <2> DEFINE g == cl[a].agent
  <2>1. Joined(b) /\ cl'[a].agent = g BY <1>7, <1>2, <1>16, FrameFacts
  <2>2. cl'[b].m = cl[b].m /\ cl'[b].e = cl[b].e /\ cl'[b].stable = cl[b].stable
    <3>1. CASE b = d BY <3>1, <1>2, <1>5, <1>6, <1>7, <1>12, FrameFacts
    <3>2. CASE b # d BY <3>2, <1>16
    <3> QED BY <3>1, <3>2
  <2>3. CASE Vouched(g, b, ToSet(link[b][a]))
    <3>1. HoldsKey(g, cl[b], cl[b].rcv[a]) BY <2>1, <2>3, <1>2 DEF AllHeld, Held
    <3>2. g.n \in cl[b].rcv[a] => g.n \in cl'[b].rcv[a]
      <4>1. CASE b # d BY <4>1, <1>16
      <4>2. CASE b = d
        <5>1. cl'[b] = q BY <4>2, <1>2, <1>7, FrameFacts
        <5>2. g.n \in KeysAbout(a, b) BY DEF KeysAbout
        <5> QED BY <5>1, <5>2, <4>2, <1>5, <1>6
      <4> QED BY <4>1, <4>2
    <3> QED BY <3>1, <3>2, <2>1, <2>2 DEF HoldsKey
  <2>4. CASE ~Vouched(g, b, ToSet(link[b][a]))
    <3>1. PICK y \in ToSet(link'[b][a]) : y.kind = "agent-ack" /\ y.n = g.n /\ y \notin ToSet(link[b][a])
      BY <2>1, <2>4 DEF Vouched
    <3>2. b = d /\ a = c /\ y = x BY <3>1 DEF Answers
    <3>3. k.kind = "agent-key" /\ k.n = g.n BY <3>1, <3>2
    <3>4. k.m = g.m /\ k.e = g.e BY <3>2, <3>3, <1>2, <1>3 DEF Packets, PacketsOfKey
    <3>5. cl'[b] = q BY <3>2, <1>2, <1>7, FrameFacts
    <3>6. q.m = g.m /\ q.e = g.e /\ g.n \in q.rcv[a] BY <3>2, <3>3, <3>4, <1>4, <1>5, <1>12
    <3>7. g.m \in Nat /\ g.e \in Nat BY <1>2, Types, FieldTypes
    <3> QED BY <2>1, <3>5, <3>6, <3>7 DEF HoldsKey
  <2> QED BY <2>3, <2>4
<1>19. KeyParts' BY <1>11, <1>14, <1>15, <1>17, <1>18 DEF KeyParts
<1> QED BY <1>11, <1>19, Parts, PTL

\* The acknowledgement of the shared key changes who has it and whether it is used.
LEMMA AgentAckedFacts ==
  ASSUME NEW o \in Client, NEW c \in Clients
  PROVE  LET q == AgentAcked(o, c)
         IN  /\ q \in Client /\ SameMesh(o, q) /\ q.stable = o.stable /\ q.rcv = o.rcv
             /\ q.agent.n = o.agent.n /\ q.agent.m = o.agent.m /\ q.agent.e = o.agent.e /\ q.agent.told = o.agent.told
             /\ q.agent.acked = o.agent.acked \cup {c}
             /\ q.agent.active => o.agent.active \/ o.peers \subseteq q.agent.acked
<1> DEFINE g == [o.agent EXCEPT !.acked = @ \cup {c}, !.active = @ \/ o.peers \subseteq o.agent.acked \cup {c}]
           q == [o EXCEPT !.agent = g]
<1>1. o.agent \in [n : Nat, m : Nat, e : Nat, acked : SUBSET Clients, told : SUBSET Clients, active : BOOLEAN]
  BY FieldTypes
<1>2. g \in [n : Nat, m : Nat, e : Nat, acked : SUBSET Clients, told : SUBSET Clients, active : BOOLEAN] BY <1>1
<1>3. g.n = o.agent.n /\ g.m = o.agent.m /\ g.e = o.agent.e /\ g.told = o.agent.told /\ g.acked = o.agent.acked \cup {c}
  BY <1>1
<1>4. g.active => o.agent.active \/ o.peers \subseteq o.agent.acked \cup {c} BY <1>1, Zenon
<1>5. AgentAcked(o, c) = q BY DEF AgentAcked, Client
<1> HIDE DEF g
<1>6. q \in Client /\ q.agent = g BY <1>2 DEF Client
<1>7. SameMesh(o, q) /\ q.stable = o.stable /\ q.rcv = o.rcv BY DEF Client, SameMesh, SameEpochs, SamePair, SameRing
<1> HIDE DEF q
<1> QED BY <1>3, <1>4, <1>5, <1>6, <1>7

\* Whoever acknowledges the shared key holds it; once all peers have, it is used.
LEMMA AgentAckStep ==
  ASSUME IInv, NEW c \in Clients, NEW d \in Clients, link[c][d] # <<>>, NEW k, k = Head(link[c][d]),
         Installable(d, c, k), k.kind = "agent-ack", cl[d].agent.n = k.n, Shrunk(link'),
         cl' = [cl EXCEPT ![d] = AgentAcked(cl[d], c)], UNCHANGED <<room, inbox, outbox, left, plan>>
  PROVE  IInv'
<1> DEFINE o == cl[d]
           q == AgentAcked(o, c)
<1>1. MeshParts /\ KeyParts BY Parts
<1>2. TypeOK /\ Few /\ AgentKeys /\ Packets /\ AllHeld /\ AllLater BY <1>1 DEF MeshParts, KeyParts
<1>3. k \in Envelope /\ k \in ToSet(link[c][d]) BY <1>2, TakenFacts
<1>4. Joined(c) /\ Joined(d) /\ c # d BY <1>1, PacketFrom DEF Installable, Opens
<1>5. o.agent.n # 0 BY <1>2, <1>3 DEF Packets, PacketsOfKey
<1>6. o \in Client BY <1>2, Types
<1>7. /\ q \in Client /\ SameMesh(o, q) /\ q.stable = o.stable /\ q.rcv = o.rcv
      /\ q.agent.n = o.agent.n /\ q.agent.m = o.agent.m /\ q.agent.e = o.agent.e /\ q.agent.told = o.agent.told
      /\ q.agent.acked = o.agent.acked \cup {c}
      /\ q.agent.active => o.agent.active \/ o.peers \subseteq q.agent.acked
  BY <1>6, AgentAckedFacts
<1>8. cl' = [cl EXCEPT ![d] = q] /\ o = cl[d] OBVIOUS
<1> HIDE DEF o, q
<1>9. Frame(d, q) BY <1>2, <1>4, <1>7, <1>8, FrameFrom
<1>10. Writes(d, q) BY DEF Writes
<1>11. MeshStep(d, q) BY <1>1, <1>7, <1>8, <1>9, <1>10, SameMeshStep
<1>12. PlainStep(d, q) BY <1>7, <1>8, <1>10, <1>11 DEF PlainStep, SameMesh
<1>13. Reads(d) /\ Epoch(d, q) BY <1>11 DEF MeshStep, RoomStep
<1>14. link' \in [Clients -> [Clients -> Seq(Envelope)]] /\ \A a, b \in Clients : ToSet(link'[a][b]) \subseteq ToSet(link[a][b])
  BY DEF Shrunk
<1>15. MeshParts' /\ Newcomers'
  <2>1. \A e \in q.agent.acked : e \in cl[d].agent.acked \/ Ever(e) BY <1>4, <1>7, <1>8 DEF Ever
  <2>2. \A y \in Clients : IsFiniteSet(q.rcv[y]) BY <1>2, <1>7, <1>8 DEF Few
  <2> QED BY <2>1, <2>2, <1>12, <1>14, PlainRest
<1>16. /\ \A a \in Clients : cl'[a].agent.n = cl[a].agent.n /\ cl'[a].agent.m = cl[a].agent.m /\ cl'[a].agent.e = cl[a].agent.e
       /\ \A a \in Clients \ {d} : cl'[a] = cl[a]
       /\ \A a \in Clients : cl'[a].m = cl[a].m /\ cl'[a].e = cl[a].e /\ cl'[a].stable = cl[a].stable
       /\ \A a \in Clients : cl'[a].rcv = cl[a].rcv /\ cl'[a].peers = cl[a].peers
       /\ cl'[d] = q
  <2>1. cl'[d] = q /\ \A a \in Clients \ {d} : cl'[a] = cl[a] BY <1>2, <1>9, FrameFacts
  <2>2. q.m = o.m /\ q.e = o.e /\ q.peers = o.peers BY <1>7 DEF SameMesh, SameEpochs
  <2> QED BY <2>1, <2>2, <1>7, <1>8
<1>17. AgentKeys'
  <2> SUFFICES ASSUME NEW a \in Clients PROVE AgentKey(cl'[a]) BY DEF AgentKeys, AgentKey
  <2>1. CASE a # d BY <2>1, <1>2, <1>16 DEF AgentKeys
  <2>2. CASE a = d
    <3>1. AgentKey(o) BY <1>2, <1>8 DEF AgentKeys
    <3>2. q.m = o.m /\ q.e = o.e /\ q.peers = o.peers BY <1>7 DEF SameMesh, SameEpochs
    <3>3. AgentKey(q) BY <3>1, <3>2, <1>5, <1>7 DEF AgentKey
    <3> QED BY <2>2, <3>3, <1>16
  <2> QED BY <2>1, <2>2
<1>18. Packets'
  <2> SUFFICES ASSUME NEW a \in Clients, NEW b \in Clients, NEW y \in ToSet(link'[a][b])
               PROVE  /\ y.kind \in {"agent-key", "agent-ack"} => y.n # 0
                      /\ y.kind = "agent-key" /\ y.n = cl'[a].agent.n => y.m = cl'[a].agent.m /\ y.e = cl'[a].agent.e
    BY DEF Packets, PacketsOfKey
  <2>1. y \in ToSet(link[a][b]) BY <1>14
  <2> QED BY <2>1, <1>2, <1>16 DEF Packets, PacketsOfKey
<1>19. AllHeld'
  <2> SUFFICES ASSUME NEW a \in Clients, NEW b \in Clients, Vouched(cl'[a].agent, b, ToSet(link'[b][a])), Joined(b)'
               PROVE  HoldsKey(cl'[a].agent, cl'[b], cl'[b].rcv[a])
    BY DEF AllHeld, Held, Vouched, HoldsKey
  <2> DEFINE g == cl[a].agent
  <2>1. Joined(b) BY <1>2, <1>9, FrameFacts
  <2>2. Vouched(g, b, ToSet(link[b][a]))
    <3>1. CASE a = d /\ b = c BY <3>1, <1>3, <1>5, <1>8 DEF Vouched
    <3>2. CASE ~(a = d /\ b = c)
      <4>1. b \in cl'[a].agent.acked => b \in g.acked BY <3>2, <1>7, <1>8, <1>16
      <4> QED BY <4>1, <1>14, <1>16 DEF Vouched
    <3> QED BY <3>1, <3>2
  <2>3. HoldsKey(g, cl[b], cl[b].rcv[a]) BY <2>1, <2>2, <1>2 DEF AllHeld, Held
  <2> QED BY <2>3, <1>16 DEF HoldsKey
<1>20. AllLater'
  <2> SUFFICES ASSUME NEW a \in Clients, NEW b \in Clients,
                      cl'[a].agent.active, b \in cl'[a].peers \ cl'[a].agent.acked, Joined(b)',
                      NEW x, x = cl'[a].agent.m
               PROVE  Newer(b, x)'
    BY DEF AllLater, Later, Newer
  <2>1. Joined(b) BY <1>2, <1>9, FrameFacts
  <2>2. cl[a].agent.active /\ b \in cl[a].peers \ cl[a].agent.acked /\ x = cl[a].agent.m
    <3>1. CASE a # d BY <3>1, <1>16
    <3>2. CASE a = d BY <3>2, <1>7, <1>8, <1>16
    <3> QED BY <3>1, <3>2
  <2>3. Newer(b, x) BY <2>1, <2>2, <1>2 DEF AllLater, Later
  <2> QED BY <2>3, <1>2, <1>9, <1>13, NewerStep
<1>21. KeyParts' BY <1>15, <1>17, <1>18, <1>19, <1>20 DEF KeyParts
<1> QED BY <1>15, <1>21, Parts, PTL

\* A per-peer key is used from its acknowledgement on.
LEMMA ActivatedFacts ==
  ASSUME NEW o \in Client, NEW c \in Clients
  PROVE  LET q == Activated(o, c) IN q \in Client /\ SameMesh(o, q) /\ q.stable = o.stable /\ SameKeys(o, q)
<1>1. o.out[c].n \in Nat BY FieldTypes
<1>2. Activated(o, c) \in Client BY <1>1, Blanks DEF Activated, Client
<1>3. LET q == Activated(o, c) IN SameMesh(o, q) /\ q.stable = o.stable /\ SameKeys(o, q)
  BY DEF Activated, Client, SameMesh, SameEpochs, SamePair, SameRing, SameKeys
<1> QED BY <1>2, <1>3

LEMMA ReceiveStep ==
  ASSUME IInv, NEW d \in Clients, NEW c \in Clients, Receive(d, c)
  PROVE  IInv'
<1> DEFINE k == Head(link[c][d])
           ack == [kind |-> IF k.kind = "media-key" THEN "media-ack" ELSE "agent-ack", n |-> k.n, m |-> cl[d].m,
                   e |-> cl[d].e, by |-> cl[d].key, for |-> cl[d].ring[c]]
           taken == [link EXCEPT ![c][d] = Tail(@)]
<1>1. MeshParts /\ KeyParts BY Parts
<1>2. TypeOK BY <1>1 DEF MeshParts
<1>3. link[c][d] # <<>> /\ UNCHANGED <<room, inbox, outbox, left, plan>> BY DEF Receive
<1>4. Joined(c) /\ (c \in cl[d].peers => Joined(d) /\ c # d) BY <1>1, <1>3, PacketFrom
<1>5. Shrunk(taken) /\ k \in Envelope BY <1>2, <1>3, TakenFacts
<1>6. cl[c] \in Client /\ cl[d] \in Client BY <1>2, Types
<1>7. \A e \in Clients : SameMesh(cl[e], cl[e]) /\ SameKeys(cl[e], cl[e])
  BY DEF SameMesh, SameEpochs, SamePair, SameRing, SameKeys
<1>8. \A e \in Clients : cl = [cl EXCEPT ![e] = cl[e]] BY <1>2 DEF TypeOK
<1>9. CASE ~Installable(d, c, k)
  <2>1. link' = taken /\ cl' = cl BY <1>9 DEF Receive
  <2> HIDE DEF taken, k
  <2>2. cl' = [cl EXCEPT ![c] = cl[c]] BY <2>1, <1>8
  <2> QED BY <2>1, <2>2, <1>3, <1>4, <1>5, <1>6, <1>7, LossStep
<1>10. CASE Installable(d, c, k) /\ k.kind \in {"media-key", "agent-key"}
  <2>1. cl' = [cl EXCEPT ![d] = Installed(d, c, k)] /\ link' = [taken EXCEPT ![d][c] = Append(@, ack)]
    BY <1>10 DEF Receive
  <2>2. /\ cl[d].m \in Nat /\ cl[d].e \in Nat /\ cl[d].key \in Nat /\ cl[d].ring[c] \in Nat /\ k.n \in Nat
    BY <1>5, <1>6, FieldTypes DEF Envelope
  <2>3. ack \in Envelope BY <2>2 DEF Envelope
  <2>4. ack.kind = (IF k.kind = "media-key" THEN "media-ack" ELSE "agent-ack") /\ ack.n = k.n OBVIOUS
  <2>5. k = Head(link[c][d]) OBVIOUS
  <2> HIDE DEF ack, taken, k
  <2>6. Answers(c, d, ack) BY <2>1, <2>3, <1>2, <1>5, AnswerFacts
  <2> QED BY <2>1, <2>3, <2>4, <2>5, <2>6, <1>3, <1>10, InstallStep
<1>11. CASE Installable(d, c, k) /\ k.kind = "media-ack"
  <2>1. link' = taken /\ cl' = IF Acknowledges(cl[d], c, k) THEN [cl EXCEPT ![d] = Activated(cl[d], c)] ELSE cl
    BY <1>11 DEF Receive
  <2>2. Joined(d) BY <1>4, <1>11 DEF Installable, Opens
  <2> HIDE DEF taken, k
  <2>3. CASE Acknowledges(cl[d], c, k)
    <3> DEFINE q == Activated(cl[d], c)
    <3>1. q \in Client /\ SameMesh(cl[d], q) /\ q.stable = cl[d].stable /\ SameKeys(cl[d], q) BY <1>6, ActivatedFacts
    <3>2. cl' = [cl EXCEPT ![d] = q] BY <2>1, <2>3
    <3> HIDE DEF q
    <3> QED BY <3>1, <3>2, <2>1, <2>2, <1>3, <1>5, LossStep
  <2>4. CASE ~Acknowledges(cl[d], c, k)
    <3>1. cl' = [cl EXCEPT ![d] = cl[d]] BY <2>1, <2>4, <1>8
    <3> QED BY <3>1, <2>1, <2>2, <1>3, <1>5, <1>6, <1>7, LossStep
  <2> QED BY <2>3, <2>4
<1>12. CASE Installable(d, c, k) /\ k.kind = "agent-ack"
  <2>1. /\ link' = taken
        /\ cl' = IF cl[d].agent.n = k.n /\ cl[d].agent.e = k.e THEN [cl EXCEPT ![d] = AgentAcked(cl[d], c)] ELSE cl
    BY <1>12 DEF Receive
  <2>2. Joined(d) BY <1>4, <1>12 DEF Installable, Opens
  <2>3. k = Head(link[c][d]) OBVIOUS
  <2> HIDE DEF taken, k
  <2>4. CASE cl[d].agent.n = k.n /\ cl[d].agent.e = k.e
    <3>1. cl' = [cl EXCEPT ![d] = AgentAcked(cl[d], c)] BY <2>1, <2>4
    <3> QED BY <3>1, <2>1, <2>3, <2>4, <1>3, <1>5, <1>12, AgentAckStep
  <2>5. CASE ~(cl[d].agent.n = k.n /\ cl[d].agent.e = k.e)
    <3>1. cl' = [cl EXCEPT ![d] = cl[d]] BY <2>1, <2>5, <1>8
    <3> QED BY <3>1, <2>1, <2>2, <1>3, <1>5, <1>6, <1>7, LossStep
  <2> QED BY <2>4, <2>5
<1>13. Installable(d, c, k) =>
         k.kind \in {"media-key", "agent-key"} \/ k.kind = "media-ack" \/ k.kind = "agent-ack"
  BY DEF Receive
<1> QED BY <1>9, <1>10, <1>11, <1>12, <1>13

-----------------------------------------------------------------------------
(* Steps of the server *)

\* The server does nothing to a client but let its lease grow older.
Alike(p, q) == SameMesh(p, q) /\ q.stable = p.stable /\ SameKeys(p, q) /\ q.out = p.out /\ q.routed = p.routed

\* A new member has no keys and no packets yet.
LEMMA ServerKeys ==
  ASSUME IInv, link' = link, plan' = plan, \A d \in Clients : Alike(cl[d], cl'[d]),
         \A d \in Clients : Joined(d)' => Joined(d) \/ ~Ever(d)
  PROVE  Few' /\ Ready' /\ AgentKeys' /\ Packets' /\ AllHeld'
<1>1. MeshParts /\ KeyParts BY Parts
<1>2. \A d \in Clients :
        /\ cl'[d].agent = cl[d].agent /\ cl'[d].rcv = cl[d].rcv /\ cl'[d].m = cl[d].m /\ cl'[d].e = cl[d].e
        /\ cl'[d].stable = cl[d].stable /\ cl'[d].key = cl[d].key /\ cl'[d].making = cl[d].making /\ cl'[d].peers = cl[d].peers
  BY DEF Alike, SameMesh, SameEpochs, SamePair, SameKeys
<1>3. Few' BY <1>1, <1>2 DEF MeshParts, Few
<1>4. Ready' BY <1>1, <1>2 DEF MeshParts, Ready, HasKey
<1>5. AgentKeys' BY <1>1, <1>2 DEF KeyParts, AgentKeys, AgentKey
<1>6. Packets' BY <1>1, <1>2 DEF KeyParts, Packets, PacketsOfKey
<1>7. AllHeld'
  <2> SUFFICES ASSUME NEW a \in Clients, NEW b \in Clients, Vouched(cl'[a].agent, b, ToSet(link'[b][a])), Joined(b)'
               PROVE  HoldsKey(cl'[a].agent, cl'[b], cl'[b].rcv[a])
    BY DEF AllHeld, Held, Vouched, HoldsKey
  <2>1. Vouched(cl[a].agent, b, ToSet(link[b][a])) BY <1>2 DEF Vouched
  <2>2. Joined(b)
    <3>1. CASE ~Ever(b)
      <4>1. b \notin cl[a].agent.acked BY <3>1, <1>1 DEF MeshParts, Known, Unknown
      <4>2. link[b][a] = <<>> BY <3>1, <1>1 DEF Ever, MeshParts, Absent
      <4> QED BY <4>1, <4>2, <2>1, EmptySet DEF Vouched
    <3> QED BY <3>1
  <2>3. HoldsKey(cl[a].agent, cl[b], cl[b].rcv[a]) BY <2>1, <2>2, <1>1 DEF KeyParts, AllHeld, Held
  <2> QED BY <2>3, <1>2 DEF HoldsKey
<1> QED BY <1>3, <1>4, <1>5, <1>6, <1>7

LEMMA ConcatFacts ==
  ASSUME NEW S, NEW s \in Seq(S), NEW t \in Seq(S)
  PROVE  /\ s \o t \in Seq(S) /\ Len(s \o t) = Len(s) + Len(t) /\ Len(s) \in Nat /\ Len(t) \in Nat
         /\ \A i \in 1..Len(s) : (s \o t)[i] = s[i]
         /\ \A i \in (Len(s) + 1)..(Len(s) + Len(t)) : i - Len(s) \in 1..Len(t) /\ (s \o t)[i] = t[i - Len(s)]
OBVIOUS

LEMMA PlacesConcat ==
  ASSUME NEW S, NEW s \in Seq(S), NEW t \in Seq(S), NEW y, y \notin ToSet(t)
  PROVE  Places(s \o t, y) = Places(s, y)
<1>1. \A i \in 1..Len(t) : t[i] # y BY DEF ToSet
<1>2. ASSUME NEW i \in 1..Len(s \o t), (s \o t)[i] = y PROVE i \in 1..Len(s) /\ s[i] = y
  <2>1. i \in 1..Len(s) \/ i \in (Len(s) + 1)..(Len(s) + Len(t)) BY ConcatFacts
  <2> QED BY <2>1, <1>1, <1>2, ConcatFacts
<1>3. ASSUME NEW i \in 1..Len(s), s[i] = y PROVE i \in 1..Len(s \o t) /\ (s \o t)[i] = y
  BY <1>3, ConcatFacts
<1> QED BY <1>2, <1>3 DEF Places

LEMMA EndsConcat ==
  ASSUME NEW S, NEW s \in Seq(S), NEW t \in Seq(S), NEW T, NEW y, \A x \in ToSet(t) : x \notin T
  PROVE  /\ Ends(s, T, y) => Ends(s \o t, T, y)
         /\ Without(s, T) => Without(s \o t, T)
<1>1. \A i \in 1..Len(t) : t[i] \notin T BY DEF ToSet
<1>2. \A i \in 1..Len(s \o t) : i \in 1..Len(s) \/ i \in (Len(s) + 1)..(Len(s) + Len(t)) BY ConcatFacts
<1>3. ASSUME Ends(s, T, y) PROVE Ends(s \o t, T, y)
  <2>1. PICK i \in 1..Len(s) : s[i] = y /\ \A j \in (i + 1)..Len(s) : s[j] \notin T BY <1>3 DEF Ends
  <2>2. i \in 1..Len(s \o t) /\ (s \o t)[i] = y BY <2>1, ConcatFacts
  <2>3. ASSUME NEW j \in (i + 1)..Len(s \o t) PROVE (s \o t)[j] \notin T
    <3>1. j \in (i + 1)..Len(s) \/ j \in (Len(s) + 1)..(Len(s) + Len(t)) BY ConcatFacts
    <3>2. CASE j \in (i + 1)..Len(s) BY <3>2, <2>1, ConcatFacts
    <3>3. CASE j \in (Len(s) + 1)..(Len(s) + Len(t)) BY <3>3, <1>1, ConcatFacts
    <3> QED BY <3>1, <3>2, <3>3
  <2> QED BY <2>2, <2>3 DEF Ends
<1>4. ASSUME Without(s, T) PROVE Without(s \o t, T) BY <1>1, <1>2, <1>4, ConcatFacts DEF Without
<1> QED BY <1>3, <1>4

\* The server adds messages to the inbox of d.
Adding(d, s) == s \in Seq(ServerMessage) /\ inbox'[d] = inbox[d] \o s
LEMMA AddingFacts ==
  ASSUME TypeOK, NEW d \in Clients, NEW s, Adding(d, s)
  PROVE  ToSet(inbox'[d]) = ToSet(inbox[d]) \cup ToSet(s)
BY Types, ToSetConcat DEF Adding

LEMMA NewerGrow ==
  ASSUME TypeOK, NEW d \in Clients, NEW s, Adding(d, s), NEW x \in Nat, Newer(d, x), cl'[d].m = cl[d].m,
         room'.m \in Nat, room'.m >= room.m, \A y \in ToSet(s) : y.kind = "topology" => y.m = room'.m
  PROVE  Newer(d, x)'
<1>1. ToSet(inbox'[d]) = ToSet(inbox[d]) \cup ToSet(s) BY AddingFacts
<1>2. room.m \in Nat /\ room.m > x BY DEF Newer, TypeOK
<1>3. room'.m > x BY <1>2
<1> QED BY <1>1, <1>3 DEF Newer

LEMMA NewcomerGrow ==
  ASSUME TypeOK, NEW a \in Clients, NEW d \in Clients, NEW s, Adding(a, s), Newcomer(a, d), Joined(d),
         cl'[a].m = cl[a].m, JoinMessage(d) \notin ToSet(s), \A x \in Nat : Newer(d, x) => Newer(d, x)'
  PROVE  Newcomer(a, d)'
<1> DEFINE b == inbox[a]
<1>1. b \in Seq(ServerMessage) /\ s \in Seq(ServerMessage) /\ inbox'[a] = b \o s BY Types DEF Adding
<1>2. \A i \in 1..Len(b) : b[i] = JoinMessage(d) =>
        Newer(d, cl[a].m) /\ \A j \in 1..(i - 1) : b[j].kind = "topology" => Newer(d, b[j].m)
  BY DEF Newcomer
<1>3. cl[a].m \in Nat BY Types, FieldTypes
<1> HIDE DEF b
<1>4. \A j \in 1..Len(b) : b[j].kind = "topology" => b[j].m \in Nat
  <2>1. \A j \in 1..Len(b) : b[j] \in ServerMessage BY <1>1
  <2>2. \A y \in ServerMessage : y.kind = "topology" => y.m \in Nat BY DEF ServerMessage
  <2> QED BY <2>1, <2>2
<1> SUFFICES ASSUME NEW i \in 1..Len(inbox'[a]), inbox'[a][i] = JoinMessage(d), NEW x,
                    x = cl'[a].m \/ \E j \in 1..(i - 1) : inbox'[a][j].kind = "topology" /\ x = inbox'[a][j].m
             PROVE  Newer(d, x)'
  BY DEF Newcomer, Newer, JoinMessage
<1>5. i \in 1..Len(b) \/ i \in (Len(b) + 1)..(Len(b) + Len(s)) BY <1>1, ConcatFacts
<1>6. i \in 1..Len(b) /\ b[i] = JoinMessage(d)
  <2>1. CASE i \in (Len(b) + 1)..(Len(b) + Len(s))
    <3>1. i - Len(b) \in 1..Len(s) /\ s[i - Len(b)] = JoinMessage(d) BY <2>1, <1>1, ConcatFacts
    <3> QED BY <3>1 DEF ToSet
  <2>2. CASE i \in 1..Len(b) BY <2>2, <1>1, ConcatFacts
  <2> QED BY <2>1, <2>2, <1>5
<1>7. CASE x = cl'[a].m BY <1>2, <1>3, <1>6, <1>7
<1>8. CASE \E j \in 1..(i - 1) : inbox'[a][j].kind = "topology" /\ x = inbox'[a][j].m
  <2>1. PICK j \in 1..(i - 1) : inbox'[a][j].kind = "topology" /\ x = inbox'[a][j].m BY <1>8
  <2>2. Len(b) \in Nat BY <1>1
  <2>3. j \in 1..Len(b) BY <2>2, <1>6
  <2>4. inbox'[a][j] = b[j] BY <2>3, <1>1, ConcatFacts
  <2> QED BY <2>1, <2>3, <2>4, <1>2, <1>4, <1>6
<1> QED BY <1>7, <1>8

\* The server sends the messages ms, and the membership stays as it is.
ServerStep(ms) ==
  /\ TypeOK' /\ room'.members = room.members /\ room'.m = room.m /\ plan' = plan /\ link' = link
  /\ \A d \in Clients :
       /\ Alike(cl[d], cl'[d]) /\ Adding(d, ms[d]) /\ (~Joined(d) => ms[d] = <<>>)
       /\ ToSet(outbox'[d]) \subseteq ToSet(outbox[d])
       /\ \A x \in ToSet(ms[d]) :
            /\ x.kind \in {"topology", "agent-state", "overlay-key", "marker"}
            /\ (x.kind = "topology" => x.m = room.m) /\ (x.kind = "marker" => Ever(x.from))
  /\ \A d \in Clients : Joined(d) => \A a \in RoomView :
       Leads(d, inbox[d], a, View(room)) => Leads(d, inbox'[d], a, View(room'))

LEMMA ServerRest ==
  ASSUME IInv, NEW ms, ServerStep(ms)
  PROVE  /\ TypeOK' /\ Few' /\ Absent' /\ Known' /\ Views' /\ Started' /\ Ready' /\ Shut'
         /\ AgentKeys' /\ Packets' /\ AllHeld' /\ AllLater' /\ Newcomers'
<1>1. MeshParts /\ KeyParts /\ TypeOK /\ TypeOK' BY Parts DEF MeshParts, ServerStep
<1>2. \A d \in Clients : Adding(d, ms[d]) /\ (~Joined(d) => ms[d] = <<>>) /\ ToSet(outbox'[d]) \subseteq ToSet(outbox[d])
  BY DEF ServerStep
<1>3. \A d \in Clients : (Joined(d)' <=> Joined(d)) BY DEF ServerStep, Joined
<1>4. \A d \in Clients :
        /\ cl'[d].peers = cl[d].peers /\ cl'[d].applied = cl[d].applied /\ cl'[d].m = cl[d].m /\ cl'[d].r = cl[d].r
        /\ cl'[d].key = cl[d].key /\ cl'[d].making = cl[d].making /\ cl'[d].stable = cl[d].stable
        /\ cl'[d].ring = cl[d].ring /\ cl'[d].imports = cl[d].imports /\ cl'[d].agent = cl[d].agent
        /\ cl'[d].pc = cl[d].pc /\ cl'[d].out = cl[d].out /\ cl'[d].routed = cl[d].routed
  BY DEF ServerStep, Alike, SameMesh, SameEpochs, SamePair, SameRing, SameKeys
<1>5. \A d \in Clients : (Ever(d)' <=> Ever(d)) BY <1>3, <1>4 DEF Ever
<1>6. Few' /\ Ready' /\ AgentKeys' /\ Packets' /\ AllHeld' BY <1>3, ServerKeys DEF ServerStep
<1>7. \A d \in Clients : ToSet(inbox'[d]) = ToSet(inbox[d]) \cup ToSet(ms[d]) BY <1>1, <1>2, AddingFacts
<1>8. \A d \in Clients : \A x \in ToSet(ms[d]) :
        /\ x.kind \in {"topology", "agent-state", "overlay-key", "marker"}
        /\ (x.kind = "topology" => x.m = room.m) /\ (x.kind = "marker" => Ever(x.from))
  BY DEF ServerStep
<1>9. Absent'
  <2> SUFFICES ASSUME NEW d \in Clients, ~Joined(d)'
               PROVE  inbox'[d] = <<>> /\ outbox'[d] = <<>> /\ Blank(cl'[d]) /\ \A e \in Clients : link'[d][e] = <<>>
    BY DEF Absent, Blank
  <2>1. ~Joined(d) BY <1>3
  <2>2. inbox[d] = <<>> /\ outbox[d] = <<>> /\ Blank(cl[d]) /\ \A e \in Clients : link[d][e] = <<>>
    BY <2>1, <1>1 DEF MeshParts, Absent
  <2>3. ToSet(inbox'[d]) = {} /\ ToSet(outbox'[d]) = {} BY <2>1, <2>2, <1>2, <1>7, EmptySet
  <2>4. inbox'[d] \in Seq(ServerMessage) /\ outbox'[d] \in Seq(ClientMessage) BY <1>1 DEF TypeOK
  <2>5. inbox'[d] = <<>> /\ outbox'[d] = <<>> BY <2>3, <2>4, NothingIn
  <2>6. Blank(cl'[d]) BY <2>2, <1>4 DEF Blank
  <2> QED BY <2>2, <2>5, <2>6 DEF ServerStep
<1>10. Known'
  <2> SUFFICES ASSUME NEW c \in Clients, NEW d \in Clients, ~Ever(c)' PROVE Unknown(c, d)' BY DEF Known
  <2>1. ~Ever(c) BY <1>5
  <2>2. Unknown(c, d) BY <2>1, <1>1 DEF MeshParts, Known
  <2>3. c \notin cl'[d].peers /\ c \notin cl'[d].agent.acked BY <2>2, <1>4 DEF Unknown
  <2>4. ASSUME NEW x \in ToSet(inbox'[d])
        PROVE  (x.kind \in {"peer-joined", "marker"} => x.from # c) /\ (x.kind = "welcome" => c \notin x.peers)
    <3>1. CASE x \in ToSet(inbox[d]) BY <3>1, <2>2 DEF Unknown
    <3>2. CASE x \in ToSet(ms[d]) BY <3>2, <2>1, <1>8
    <3> QED BY <2>4, <3>1, <3>2, <1>7
  <2>5. \A x \in ToSet(outbox'[d]) : x.kind = "marker" => x.to # c BY <2>2, <1>2 DEF Unknown
  <2> QED BY <2>3, <2>4, <2>5 DEF Unknown
<1>11. Views'
  <2> SUFFICES ASSUME NEW d \in Clients, Joined(d)'
               PROVE  \E a \in RoomView : Seen(d, cl'[d], a) /\ Leads(d, inbox'[d], a, View(room'))
    BY DEF Views, Seen, Leads, Follows, Moves, Changes, Start, View, RoomView
  <2>1. PICK a \in RoomView : Seen(d, cl[d], a) /\ Leads(d, inbox[d], a, View(room)) BY <1>1, <1>3 DEF MeshParts, Views
  <2>2. Leads(d, inbox'[d], a, View(room')) BY <2>1, <1>3 DEF ServerStep
  <2>3. Seen(d, cl'[d], a) BY <2>1, <1>4 DEF Seen
  <2> QED BY <2>2, <2>3
<1>12. Started' BY <1>1 DEF ServerStep, MeshParts, Started
<1>13. Shut'
  <2> SUFFICES ASSUME NEW c \in Clients, NEW d \in Clients PROVE ShutOut(c, d)' BY DEF Shut
  <2>1. ShutOut(c, d) BY <1>1 DEF MeshParts, Shut
  <2> QED BY <2>1, <1>3, <1>4, <1>7 DEF ShutOut, LeftMessage
<1>14. ASSUME NEW d \in Clients, NEW x \in Nat, Newer(d, x) PROVE Newer(d, x)'
  <2>1. room'.m = room.m /\ room.m \in Nat /\ room'.m >= room.m BY <1>1 DEF ServerStep, TypeOK
  <2>2. \A y \in ToSet(ms[d]) : y.kind = "topology" => y.m = room'.m BY <2>1, <1>8
  <2> QED BY <2>1, <2>2, <1>1, <1>2, <1>4, <1>14, NewerGrow
<1>15. AllLater'
  <2> SUFFICES ASSUME NEW a \in Clients, NEW d \in Clients,
                      cl'[a].agent.active, d \in cl'[a].peers \ cl'[a].agent.acked, Joined(d)',
                      NEW x, x = cl'[a].agent.m
               PROVE  Newer(d, x)'
    BY DEF AllLater, Later, Newer
  <2>1. Newer(d, x) BY <1>1, <1>3, <1>4 DEF KeyParts, AllLater, Later
  <2>2. x \in Nat BY <1>1, <1>4, Types, FieldTypes, ZenonT(60)
  <2> QED BY <2>1, <2>2, <1>14
<1>16. Newcomers'
  <2> SUFFICES ASSUME NEW a \in Clients, NEW d \in Clients PROVE Newcomer(a, d)' BY DEF Newcomers
  <2>1. CASE Joined(d)
    <3>1. Newcomer(a, d) BY <1>1 DEF KeyParts, Newcomers
    <3>2. JoinMessage(d) \notin ToSet(ms[a]) BY <1>8 DEF JoinMessage
    <3>3. \A x \in Nat : Newer(d, x) => Newer(d, x)' BY <1>14
    <3>4. Adding(a, ms[a]) /\ cl'[a].m = cl[a].m BY <1>2, <1>4
    <3> QED BY <2>1, <3>1, <3>2, <3>3, <3>4, <1>1, NewcomerGrow
  <2>2. CASE ~Joined(d) BY <2>2, <1>3 DEF Newcomer
  <2> QED BY <2>1, <2>2
<1> QED BY <1>1, <1>6, <1>9, <1>10, <1>11, <1>12, <1>13, <1>15, <1>16

LEMMA ConcatTwo ==
  ASSUME NEW S, NEW s \in Seq(S), NEW x \in S, NEW y \in S
  PROVE  /\ <<x>> \in Seq(S) /\ <<x, y>> \in Seq(S) /\ Append(s, x) \in Seq(S)
         /\ s \o <<x>> = Append(s, x) /\ s \o <<x, y>> = Append(Append(s, x), y)
OBVIOUS

\* The messages of the server about the room as it is lead to it.
LEMMA LeadsNews ==
  ASSUME NEW d, NEW box \in Seq(ServerMessage), NEW a \in RoomView, NEW y \in RoomView, NEW rm,
         View(rm) \in RoomView, Leads(d, box, a, y), rm.members = y.members, rm.m = y.m, rm.r >= y.r,
         Topology(rm) \in ServerMessage, AgentState(rm) \in ServerMessage
  PROVE  /\ Leads(d, box \o <<Topology(rm), AgentState(rm)>>, a, View(rm))
         /\ rm.r = y.r /\ ~y.due => Leads(d, box \o <<AgentState(rm)>>, a, View(rm))
<1> DEFINE t == Topology(rm)
           s == AgentState(rm)
           z == View(rm)
<1>1. y.m \in Nat /\ z.m = y.m /\ ~z.due BY DEF RoomView, View
<1>2. Moves(d, t, y, z)
  <2>1. t.kind = "topology" /\ t.peers = y.members /\ t.m = y.m /\ t.r >= y.r BY DEF Topology
  <2>2. z = [y EXCEPT !.r = t.r, !.due = FALSE]
    <3> DEFINE e == [y EXCEPT !.r = t.r, !.due = FALSE]
    <3>1. t.r = z.r /\ z.r \in Nat /\ z.members = y.members /\ z.m = y.m /\ ~z.due BY DEF RoomView, View, Topology
    <3> HIDE DEF t, z
    <3>2. e \in RoomView /\ e.members = y.members /\ e.m = y.m /\ e.r = t.r /\ ~e.due BY <3>1 DEF RoomView
    <3>3. z \in RoomView BY DEF z
    <3> HIDE DEF e
    <3>4. e = z BY <3>1, <3>2, <3>3 DEF RoomView
    <3> QED BY <3>4 DEF e
  <2> QED BY <2>1, <2>2 DEF Moves
<1>3. Moves(d, s, z, z) BY <1>1 DEF Moves, AgentState
<1>4. rm.r = y.r /\ ~y.due => y = z BY DEF RoomView, View
<1>5. t \in ServerMessage /\ s \in ServerMessage /\ z \in RoomView OBVIOUS
<1> HIDE DEF t, s, z
<1>6. /\ Append(box, t) \in Seq(ServerMessage)
      /\ box \o <<s>> = Append(box, s) /\ box \o <<t, s>> = Append(Append(box, t), s)
  BY <1>5, ConcatTwo
<1>7. y.m <= z.m /\ z.m <= z.m BY <1>1
<1>8. Leads(d, Append(box, t), a, z) BY <1>2, <1>5, <1>7, LeadsAppend
<1>9. Leads(d, Append(Append(box, t), s), a, z) BY <1>3, <1>5, <1>6, <1>7, <1>8, LeadsAppend
<1>10. ASSUME y = z PROVE Leads(d, Append(box, s), a, z) BY <1>3, <1>5, <1>7, <1>10, LeadsAppend
<1> QED BY <1>4, <1>6, <1>9, <1>10 DEF t, s, z

\* No key and no request is among the messages.
LEMMA NewsStep ==
  ASSUME IInv, NEW ms, ServerStep(ms), outbox' = outbox, left'.resets = left.resets,
         \A d \in Clients : \A x \in ToSet(ms[d]) : x.kind \in {"topology", "agent-state"}
  PROVE  IInv'
<1>1. MeshParts /\ KeyParts /\ TypeOK BY Parts DEF MeshParts
<1>2. \A d \in Clients : Adding(d, ms[d]) BY DEF ServerStep
<1>3. \A d, e \in Clients : (Members(d, e)' <=> Members(d, e)) BY DEF ServerStep, Members, Joined
<1>4. \A d \in Clients :
        /\ cl'[d].m = cl[d].m /\ cl'[d].key = cl[d].key /\ cl'[d].pc = cl[d].pc
        /\ cl'[d].ring = cl[d].ring /\ cl'[d].imports = cl[d].imports
  BY DEF ServerStep, Alike, SameMesh, SameEpochs, SamePair, SameRing
<1>5. room'.m = room.m /\ plan' = plan BY DEF ServerStep
<1>6. \A x, y \in Clients : MarkerFrom(x) \notin ToSet(ms[y]) BY DEF MarkerFrom
<1>7. ASSUME NEW x \in Clients, NEW y \in Clients
      PROVE  Places(inbox'[y], MarkerFrom(x)) = Places(inbox[y], MarkerFrom(x))
  <2>1. inbox[y] \in Seq(ServerMessage) /\ ms[y] \in Seq(ServerMessage) /\ inbox'[y] = inbox[y] \o ms[y]
    BY <1>1, <1>2, Types DEF Adding
  <2> QED BY <2>1, <1>6, PlacesConcat
<1>8. Marked'
  <2> SUFFICES ASSUME NEW x \in Clients, NEW y \in Clients, Members(x, y)' PROVE OneMarker(x, y)' BY DEF Marked
  <2>1. OneMarker(x, y) BY <1>1, <1>3 DEF MeshParts, Marked
  <2>2. (MarkerSent(x, y)' <=> MarkerSent(x, y)) /\ (MarkerArrived(x, y)' <=> MarkerArrived(x, y))
    BY <1>7 DEF MarkerSent, MarkerArrived, MarkerTo, MarkerFrom, Places
  <2>3. /\ \A i, j \in Places(outbox'[x], MarkerTo(y)) : i = j
        /\ \A i, j \in Places(inbox'[y], MarkerFrom(x)) : i = j
    BY <2>1, <1>7 DEF OneMarker
  <2> QED BY <2>1, <2>2, <2>3, <1>4 DEF OneMarker, MarkerTo, MarkerFrom, Places
<1>9. AllFed'
  <2> SUFFICES ASSUME NEW x \in Clients, NEW y \in Clients, Members(x, y), cl[y].m = room.m, cl[y].key # 0
               PROVE  (Announced(x, y) \/ Arriving(x, y) \/ Arrived(x, y) \/ Asked(x, y))'
    BY <1>3, <1>4, <1>5 DEF AllFed, Fed
  <2>1. Announced(x, y) \/ Arriving(x, y) \/ Arrived(x, y) \/ Asked(x, y) BY <1>1 DEF MeshParts, AllFed, Fed
  <2> DEFINE S == About(y)
  <2>2. \A z \in ToSet(ms[x]) : z \notin S BY DEF About, KeyFrom, MarkerFrom
  <2>3. /\ \A k : Ends(inbox[x], S, k) => Ends(inbox'[x], S, k)
        /\ Without(inbox[x], S) => Without(inbox'[x], S)
    <3> HIDE DEF S
    <3> QED BY <2>2, <1>1, <1>2, Types, EndsConcat DEF Adding
  <2>4. Announced(x, y) => Announced(x, y)' BY <1>4 DEF Announced, Concerning, KeyOut, MarkerTo, Ends
  <2>5. Arriving(x, y) => Arriving(x, y)'
    <3> DEFINE k == KeyFrom(y, cl[y].key, room.m)
               W == Without(outbox[y], Concerning(x))
    <3>1. (Arriving(x, y) => W /\ Ends(inbox[x], S, k)) /\ (W /\ Ends(inbox'[x], S, k) => Arriving(x, y)')
      BY <1>4, <1>5 DEF Arriving, Concerning, About, KeyFrom, KeyOut, MarkerTo, MarkerFrom, Without, Ends
    <3> HIDE DEF k, W, S
    <3> QED BY <3>1, <2>3
  <2>6. Arrived(x, y) => Arrived(x, y)'
    BY <2>3, <1>4, <1>5 DEF Arrived, Concerning, About, KeyFrom, KeyOut, MarkerTo, MarkerFrom, Without
  <2>7. Asked(x, y) => Asked(x, y)' BY <1>7 DEF Asked, MarkerSent, MarkerArrived, MarkerTo, MarkerFrom, Places
  <2> QED BY <2>1, <2>4, <2>5, <2>6, <2>7
<1>10. Unreset'
  <2>1. \A d \in Clients : ToSet(inbox'[d]) = ToSet(inbox[d]) \cup ToSet(ms[d]) BY <1>1, <1>2, AddingFacts
  <2> QED BY <2>1, <1>1, <1>5 DEF MeshParts, Unreset
<1>11. MeshParts' /\ KeyParts' BY <1>8, <1>9, <1>10, ServerRest DEF MeshParts, KeyParts
<1> QED BY <1>11, Parts, PTL

\* All members are told of the room: of a new route, a renewed one, or its topology as well.
LEMMA BroadcastStep ==
  ASSUME IInv, room' \in [members : SUBSET Clients, m : Nat, r : Nat, e : Nat],
         room'.members = room.members, room'.m = room.m, room'.r >= room.r,
         left' \in [routes : Nat, resets : Nat], left'.resets = left.resets,
         cl' \in [Clients -> Client], \A d \in Clients : Alike(cl[d], cl'[d]),
         UNCHANGED <<plan, link, outbox>>, NEW s,
         s = <<Topology(room'), AgentState(room')>> \/ (s = <<AgentState(room')>> /\ room'.r = room.r),
         Broadcast([d \in Clients |-> s])
  PROVE  IInv'
<1> DEFINE ms == [d \in Clients |-> IF Joined(d) THEN s ELSE <<>>]
           t == Topology(room')
           g == AgentState(room')
<1>1. MeshParts /\ TypeOK BY Parts DEF MeshParts
<1>2. t \in ServerMessage /\ g \in ServerMessage BY DEF Topology, AgentState, ServerMessage
<1>3. t.kind = "topology" /\ t.m = room.m /\ g.kind = "agent-state" BY DEF Topology, AgentState
<1>4. s = <<t, g>> \/ s = <<g>> OBVIOUS
<1>5. s \in Seq(ServerMessage) /\ \A x \in ToSet(s) : x = t \/ x = g
  <2> HIDE DEF t, g
  <2>1. <<t, g>> \in Seq(ServerMessage) /\ <<g>> \in Seq(ServerMessage) BY <1>2
  <2>2. \A i \in 1..Len(s) : s[i] = t \/ s[i] = g BY <1>2, <1>4, SMTT(30)
  <2> QED BY <2>1, <2>2, <1>4, SMTT(30) DEF ToSet
<1>6. ASSUME NEW d \in Clients PROVE Adding(d, ms[d]) /\ ToSet(ms[d]) \subseteq ToSet(s)
  <2>1. inbox'[d] = IF Joined(d) THEN inbox[d] \o s ELSE <<>> BY DEF Broadcast, Joined
  <2>2. CASE Joined(d) BY <2>1, <2>2, <1>5 DEF Adding
  <2>3. CASE ~Joined(d)
    <3>1. inbox[d] = <<>> BY <2>3, <1>1 DEF MeshParts, Absent
    <3>2. inbox'[d] = <<>> /\ ms[d] = <<>> BY <2>1, <2>3
    <3>3. <<>> \in Seq(ServerMessage) /\ <<>> \o <<>> = <<>> OBVIOUS
    <3>4. ToSet(<<>>) = {} BY EmptySet
    <3> HIDE DEF ms
    <3> QED BY <3>1, <3>2, <3>3, <3>4 DEF Adding
  <2> QED BY <2>2, <2>3
<1>7. TypeOK'
  <2>1. \A d \in Clients : inbox'[d] \in Seq(ServerMessage)
    <3> TAKE d \in Clients
    <3>1. inbox[d] \in Seq(ServerMessage) /\ ms[d] \in Seq(ServerMessage) /\ inbox'[d] = inbox[d] \o ms[d]
      BY <1>1, <1>6, Types DEF Adding
    <3> HIDE DEF ms
    <3> QED BY <3>1
  <2>2. inbox' \in [Clients -> Seq(ServerMessage)] BY <2>1 DEF Broadcast
  <2> QED BY <2>2, <1>1 DEF TypeOK
<1>8. ASSUME NEW d \in Clients, NEW x \in ToSet(ms[d])
      PROVE  x.kind \in {"topology", "agent-state"} /\ (x.kind = "topology" => x.m = room.m)
  BY <1>3, <1>5, <1>6, <1>8
<1>9. ASSUME NEW d \in Clients, Joined(d), NEW a \in RoomView, Leads(d, inbox[d], a, View(room))
      PROVE  Leads(d, inbox'[d], a, View(room'))
  <2>1. View(room) \in RoomView /\ View(room') \in RoomView BY <1>1 DEF TypeOK, View, RoomView
  <2>2. inbox[d] \in Seq(ServerMessage) /\ inbox'[d] = inbox[d] \o s BY <1>1, <1>6, <1>9, Types DEF Adding
  <2> DEFINE y == View(room)
             rm == room'
  <2>3. rm.members = y.members /\ rm.m = y.m /\ rm.r >= y.r /\ ~y.due /\ y.r = room.r BY DEF View
  <2>4. /\ Leads(d, inbox[d], a, y) /\ y \in RoomView /\ View(rm) \in RoomView
        /\ Topology(rm) \in ServerMessage /\ AgentState(rm) \in ServerMessage
        /\ s = <<Topology(rm), AgentState(rm)>> \/ (s = <<AgentState(rm)>> /\ rm.r = y.r)
    BY <2>1, <2>3, <1>2, <1>9
  <2> HIDE DEF y, rm
  <2>5. Leads(d, inbox[d] \o s, a, View(rm)) BY <2>2, <2>3, <2>4, LeadsNews
  <2> QED BY <2>2, <2>5 DEF rm
<1>10. \A d \in Clients : ~Joined(d) => ms[d] = <<>> OBVIOUS
<1> HIDE DEF ms
<1>11. ServerStep(ms) BY <1>6, <1>7, <1>8, <1>9, <1>10 DEF ServerStep
<1> QED BY <1>8, <1>11, NewsStep

LEMMA SameAlike ==
  ASSUME cl' = cl
  PROVE  \A d \in Clients : Alike(cl[d], cl'[d])
BY DEF Alike, SameMesh, SameEpochs, SamePair, SameRing, SameKeys

LEMMA AgentRouteChangesStep ==
  ASSUME IInv, AgentRouteChanges
  PROVE  IInv'
<1>1. /\ TypeOK /\ room \in [members : SUBSET Clients, m : Nat, r : Nat, e : Nat]
      /\ left \in [routes : Nat, resets : Nat]
  BY DEF IInv, TypeOK
<1>2. room' = [room EXCEPT !.e = @ + 1] /\ left' = [left EXCEPT !.routes = @ - 1] /\ left.routes > 0
  BY DEF AgentRouteChanges
<1>3. /\ room' \in [members : SUBSET Clients, m : Nat, r : Nat, e : Nat]
      /\ room'.members = room.members /\ room'.m = room.m /\ room'.r = room.r /\ room'.r >= room.r
  BY <1>1, <1>2
<1>4. left' \in [routes : Nat, resets : Nat] /\ left'.resets = left.resets BY <1>1, <1>2
<1>5. cl' \in [Clients -> Client] /\ \A d \in Clients : Alike(cl[d], cl'[d])
  BY <1>1, SameAlike DEF TypeOK, AgentRouteChanges
<1>6. Broadcast([d \in Clients |-> <<AgentState(room')>>]) /\ UNCHANGED <<plan, link, outbox>> BY DEF AgentRouteChanges
<1> QED BY <1>3, <1>4, <1>5, <1>6, BroadcastStep

LEMMA AgentRenewalStep ==
  ASSUME IInv, AgentRenewal
  PROVE  IInv'
<1>1. TypeOK BY DEF IInv
<1>2. room' = room /\ left' = left /\ UNCHANGED <<plan, link, outbox>> BY DEF AgentRenewal
<1>3. room' \in [members : SUBSET Clients, m : Nat, r : Nat, e : Nat] /\ room'.r >= room.r BY <1>1, <1>2 DEF TypeOK
<1>4. left' \in [routes : Nat, resets : Nat] BY <1>1, <1>2 DEF TypeOK
<1>5. cl' \in [Clients -> Client] /\ \A d \in Clients : Alike(cl[d], cl'[d])
  BY <1>1, SameAlike DEF TypeOK, AgentRenewal
<1>6. Broadcast([d \in Clients |-> <<AgentState(room')>>]) BY <1>2 DEF AgentRenewal
<1> QED BY <1>2, <1>3, <1>4, <1>5, <1>6, BroadcastStep

LEMMA RelayChangesStep ==
  ASSUME IInv, RelayChanges
  PROVE  IInv'
<1>1. /\ TypeOK /\ room \in [members : SUBSET Clients, m : Nat, r : Nat, e : Nat]
      /\ left \in [routes : Nat, resets : Nat]
  BY DEF IInv, TypeOK
<1>2. room' = [room EXCEPT !.r = @ + 1] /\ left' = [left EXCEPT !.routes = @ - 1] /\ left.routes > 0
  BY DEF RelayChanges
<1>3. /\ room' \in [members : SUBSET Clients, m : Nat, r : Nat, e : Nat]
      /\ room'.members = room.members /\ room'.m = room.m /\ room'.r >= room.r
  BY <1>1, <1>2
<1>4. left' \in [routes : Nat, resets : Nat] /\ left'.resets = left.resets BY <1>1, <1>2
<1>5. cl' \in [Clients -> Client] /\ \A d \in Clients : Alike(cl[d], cl'[d])
  BY <1>1, SameAlike DEF TypeOK, RelayChanges
<1>6. Broadcast([d \in Clients |-> <<Topology(room'), AgentState(room')>>]) /\ UNCHANGED <<plan, link, outbox>>
  BY DEF RelayChanges
<1> QED BY <1>3, <1>4, <1>5, <1>6, BroadcastStep

LEMMA LeaseRenewalStep ==
  ASSUME IInv, LeaseRenewal
  PROVE  IInv'
<1>1. TypeOK BY DEF IInv
<1>2. room' = room /\ left' = left /\ UNCHANGED <<plan, link, outbox>> BY DEF LeaseRenewal
<1>3. room' \in [members : SUBSET Clients, m : Nat, r : Nat, e : Nat] /\ room'.r >= room.r BY <1>1, <1>2 DEF TypeOK
<1>4. left' \in [routes : Nat, resets : Nat] BY <1>1, <1>2 DEF TypeOK
<1> DEFINE older(d) == [cl[d] EXCEPT !.age = IF @ < LeaseRenewals THEN @ + 1 ELSE @]
<1>5. cl' = [d \in Clients |-> older(d)] BY DEF LeaseRenewal
<1>6. ASSUME NEW d \in Clients PROVE older(d) \in Client /\ Alike(cl[d], older(d))
  <2> DEFINE n == IF cl[d].age < LeaseRenewals THEN cl[d].age + 1 ELSE cl[d].age
  <2>1. cl[d] \in Client /\ cl[d].age \in Nat BY <1>1, Types, FieldTypes
  <2>2. n \in Nat BY <2>1
  <2>3. older(d) = [cl[d] EXCEPT !.age = n] BY <2>1 DEF Client
  <2> HIDE DEF n, older
  <2> QED BY <2>1, <2>2, <2>3 DEF Client, Alike, SameMesh, SameEpochs, SamePair, SameRing, SameKeys
<1> HIDE DEF older
<1>7. cl' \in [Clients -> Client] /\ \A d \in Clients : Alike(cl[d], cl'[d]) BY <1>5, <1>6
<1>8. Broadcast([d \in Clients |-> <<Topology(room'), AgentState(room')>>]) BY <1>2 DEF LeaseRenewal
<1> QED BY <1>2, <1>3, <1>4, <1>7, <1>8, BroadcastStep

\* What d gets of the message m of c
Relayed(c, m, d) ==
  IF d = c \/ ~Joined(d) THEN <<>>
  ELSE IF m.kind = "overlay-key" THEN <<KeyFrom(c, m.k, room.m)>>
  ELSE IF m.to = d THEN <<MarkerFrom(c)>> ELSE <<>>

LEMMA RelayedFacts ==
  ASSUME TypeOK, NEW c \in Clients, NEW m \in ClientMessage, NEW d \in Clients, NEW s, s = Relayed(c, m, d)
  PROVE  /\ s \in Seq(ServerMessage) /\ (~Joined(d) \/ d = c => s = <<>>)
         /\ \A x \in ToSet(s) : x.from = c /\ x.kind \in {"overlay-key", "marker"}
         /\ \/ s = <<>>
            \/ \E x \in ServerMessage : s = <<x>> /\ x.from = c /\ (x.kind = "marker" \/ (x.kind = "overlay-key" /\ x.m = room.m))
<1> DEFINE k == KeyFrom(c, m.k, room.m)
           f == MarkerFrom(c)
<1>1. m.k \in Nat /\ room.m \in Nat
  <2>1. m.k \in Nat BY DEF ClientMessage
  <2>2. room.m \in Nat BY DEF TypeOK
  <2> QED BY <2>1, <2>2
<1>2. k \in ServerMessage /\ f \in ServerMessage BY <1>1 DEF KeyFrom, MarkerFrom, ServerMessage
<1>3. k.from = c /\ k.kind = "overlay-key" /\ k.m = room.m /\ f.from = c /\ f.kind = "marker" BY DEF KeyFrom, MarkerFrom
<1>4. s = <<>> \/ s = <<k>> \/ s = <<f>> BY DEF Relayed
<1>5. ~Joined(d) \/ d = c => s = <<>> BY DEF Relayed
<1> HIDE DEF k, f
<1>6. <<>> \in Seq(ServerMessage) /\ <<k>> \in Seq(ServerMessage) /\ <<f>> \in Seq(ServerMessage) BY <1>2
<1>7. ToSet(<<>>) = {} /\ ToSet(<<k>>) = {k} /\ ToSet(<<f>>) = {f} BY EmptySet
<1> QED BY <1>2, <1>3, <1>4, <1>5, <1>6, <1>7

\* Keys and requests reach members that have been told of the sender.
LEMMA RelayServes ==
  ASSUME IInv, NEW c \in Clients, Relay(c)
  PROVE  ServerStep([d \in Clients |-> Relayed(c, Head(outbox[c]), d)])
<1> DEFINE m == Head(outbox[c])
           ms == [d \in Clients |-> Relayed(c, m, d)]
<1>1. MeshParts /\ TypeOK BY Parts DEF MeshParts
<1>2. outbox[c] # <<>> /\ outbox' = [outbox EXCEPT ![c] = Tail(@)] /\ UNCHANGED <<room, cl, link, left, plan>>
  BY DEF Relay
<1>3. Joined(c) BY <1>1, <1>2 DEF MeshParts, Absent
<1>4. m \in ClientMessage /\ Tail(outbox[c]) \in Seq(ClientMessage) /\ ToSet(Tail(outbox[c])) \subseteq ToSet(outbox[c])
  BY <1>1, <1>2, Types, ToSetTail
<1>5. inbox' = [d \in Clients |->
         IF d = c \/ ~Joined(d) THEN inbox[d]
         ELSE IF m.kind = "overlay-key" THEN Append(inbox[d], KeyFrom(c, m.k, room.m))
         ELSE IF m.to = d THEN Append(inbox[d], MarkerFrom(c)) ELSE inbox[d]]
  BY DEF Relay, KeyFrom, MarkerFrom
<1> HIDE DEF m
<1>6. ASSUME NEW d \in Clients
      PROVE  /\ Adding(d, ms[d]) /\ (~Joined(d) \/ d = c => ms[d] = <<>>)
             /\ \A x \in ToSet(ms[d]) : x.from = c /\ x.kind \in {"overlay-key", "marker"}
             /\ \/ ms[d] = <<>> /\ inbox'[d] = inbox[d]
                \/ \E x \in ServerMessage :
                     /\ inbox'[d] = Append(inbox[d], x) /\ x.from = c
                     /\ (x.kind = "marker" \/ (x.kind = "overlay-key" /\ x.m = room.m))
  <2> DEFINE s == Relayed(c, m, d)
             b == inbox[d]
  <2>1. ms[d] = s OBVIOUS
  <2>2. b \in Seq(ServerMessage) BY <1>1, Types
  <2>3. /\ s \in Seq(ServerMessage) /\ (~Joined(d) \/ d = c => s = <<>>)
        /\ \A x \in ToSet(s) : x.from = c /\ x.kind \in {"overlay-key", "marker"}
        /\ \/ s = <<>>
           \/ \E x \in ServerMessage : s = <<x>> /\ x.from = c /\ (x.kind = "marker" \/ (x.kind = "overlay-key" /\ x.m = room.m))
    BY <1>1, <1>4, RelayedFacts
  <2> DEFINE k == KeyFrom(c, m.k, room.m)
             f == MarkerFrom(c)
  <2>4. (s = <<>> /\ inbox'[d] = b) \/ (s = <<k>> /\ inbox'[d] = Append(b, k)) \/ (s = <<f>> /\ inbox'[d] = Append(b, f))
    BY <1>5 DEF Relayed
  <2> HIDE DEF s, b, ms, k, f
  <2>5. CASE s = <<>>
    <3>1. inbox'[d] = b BY <2>4, <2>5
    <3>2. b \o <<>> = b BY <2>2
    <3>3. inbox'[d] = b \o s BY <3>1, <3>2, <2>5
    <3> QED BY <3>1, <3>3, <2>1, <2>3, <2>5 DEF Adding, b
  <2>6. CASE s # <<>>
    <3>1. PICK x \in ServerMessage :
            s = <<x>> /\ x.from = c /\ (x.kind = "marker" \/ (x.kind = "overlay-key" /\ x.m = room.m))
      BY <2>3, <2>6
    <3>2. inbox'[d] = Append(b, x) BY <2>4, <3>1
    <3>3. b \o <<x>> = Append(b, x) BY <2>2
    <3> QED BY <3>1, <3>2, <3>3, <2>1, <2>3 DEF Adding, b
  <2> QED BY <2>5, <2>6
<1> HIDE DEF ms
<1>7. TypeOK'
  <2>1. \A d \in Clients : inbox'[d] \in Seq(ServerMessage)
    <3> TAKE d \in Clients
    <3>1. inbox[d] \in Seq(ServerMessage) /\ ms[d] \in Seq(ServerMessage) /\ inbox'[d] = inbox[d] \o ms[d]
      BY <1>1, <1>6, Types DEF Adding
    <3> QED BY <3>1
  <2>2. inbox' \in [Clients -> Seq(ServerMessage)] BY <2>1, <1>5
  <2>3. outbox \in [Clients -> Seq(ClientMessage)] BY <1>1 DEF TypeOK
  <2>4. outbox' \in [Clients -> Seq(ClientMessage)] BY <2>3, <1>2, <1>4
  <2> QED BY <2>2, <2>4, <1>1, <1>2 DEF TypeOK
<1>8. \A d \in Clients : ToSet(outbox'[d]) \subseteq ToSet(outbox[d])
  <2>1. outbox \in [Clients -> Seq(ClientMessage)] BY <1>1 DEF TypeOK
  <2> QED BY <2>1, <1>2, <1>4
<1>9. \A d \in Clients : Alike(cl[d], cl'[d]) BY <1>2, SameAlike
<1>10. ASSUME NEW d \in Clients, Joined(d), NEW a \in RoomView, Leads(d, inbox[d], a, View(room))
       PROVE  Leads(d, inbox'[d], a, View(room'))
  <2>1. View(room') = View(room) /\ View(room) \in RoomView BY <1>1, <1>2 DEF TypeOK, View, RoomView
  <2>2. CASE inbox'[d] = inbox[d] BY <2>1, <2>2, <1>10
  <2>3. CASE d # c /\ inbox'[d] # inbox[d]
    <3>1. PICK x \in ServerMessage :
            inbox'[d] = Append(inbox[d], x) /\ x.from = c /\ (x.kind = "marker" \/ (x.kind = "overlay-key" /\ x.m = room.m))
      BY <1>6, <2>3
    <3> DEFINE z == View(room)
    <3>2. ~z.due /\ z.m = room.m /\ z.members = room.members BY DEF View
    <3>3. c \in z.members \ {d} BY <2>3, <3>2, <1>3 DEF Joined
    <3>4. z.m <= z.m /\ z \in RoomView /\ Leads(d, inbox[d], a, z) BY <2>1, <3>2, <1>1, <1>10 DEF TypeOK
    <3> HIDE DEF z
    <3>5. Moves(d, x, z, z) BY <3>1, <3>2, <3>3 DEF Moves
    <3>6. inbox[d] \in Seq(ServerMessage) BY <1>1, Types
    <3>7. Leads(d, Append(inbox[d], x), a, z) BY <3>4, <3>5, <3>6, LeadsAppend
    <3> QED BY <2>1, <3>1, <3>7 DEF z
  <2>4. CASE d = c
    <3>1. ms[d] = <<>> /\ inbox'[d] = inbox[d] \o ms[d] BY <2>4, <1>6 DEF Adding
    <3>2. inbox[d] \in Seq(ServerMessage) BY <1>1, Types
    <3>3. inbox'[d] = inbox[d] BY <3>1, <3>2
    <3> QED BY <3>3, <2>1, <1>10
  <2> QED BY <2>2, <2>3, <2>4
<1>11. \A d \in Clients : \A x \in ToSet(ms[d]) :
         /\ x.kind \in {"topology", "agent-state", "overlay-key", "marker"}
         /\ (x.kind = "topology" => x.m = room.m) /\ (x.kind = "marker" => Ever(x.from))
  BY <1>3, <1>6 DEF Ever
<1>12. ServerStep(ms) BY <1>2, <1>6, <1>7, <1>8, <1>9, <1>10, <1>11 DEF ServerStep
<1> QED BY <1>12 DEF ms, m

\* Two kinds of messages leave a client.
LEMMA ClientKinds ==
  ASSUME NEW m \in ClientMessage
  PROVE  \/ \E k \in Nat : m = KeyOut(k) /\ m.kind = "overlay-key" /\ m.k = k
         \/ \E d \in Clients : m = MarkerTo(d) /\ m.kind = "marker" /\ m.to = d
BY DEF ClientMessage, KeyOut, MarkerTo

\* A key or a request that is relayed: the request is then there, the key the last one of its owner.
LEMMA RelayStep ==
  ASSUME IInv, NEW c \in Clients, Relay(c)
  PROVE  IInv'
<1> DEFINE m == Head(outbox[c])
           ms == [d \in Clients |-> Relayed(c, m, d)]
<1>1. MeshParts /\ KeyParts /\ TypeOK BY Parts DEF MeshParts
<1>2. ServerStep(ms) BY RelayServes
<1>3. /\ TypeOK' /\ Few' /\ Absent' /\ Known' /\ Views' /\ Started' /\ Ready' /\ Shut'
      /\ AgentKeys' /\ Packets' /\ AllHeld' /\ AllLater' /\ Newcomers'
  BY <1>2, ServerRest
<1>4. outbox[c] # <<>> /\ outbox' = [outbox EXCEPT ![c] = Tail(@)] /\ UNCHANGED <<room, cl, link, left, plan>>
  BY DEF Relay
<1>5. Joined(c) BY <1>1, <1>4 DEF MeshParts, Absent
<1>6. outbox[c] \in Seq(ClientMessage) /\ m \in ClientMessage /\ m \in ToSet(outbox[c]) BY <1>1, <1>4, Types, ToSetTail
<1>7. outbox'[c] = Tail(outbox[c]) /\ \A d \in Clients \ {c} : outbox'[d] = outbox[d] BY <1>1, <1>4 DEF TypeOK
<1>8. \A d \in Clients : inbox[d] \in Seq(ServerMessage) /\ Adding(d, ms[d]) BY <1>1, <1>2, Types DEF ServerStep
<1>9. \A d \in Clients : ms[d] = Relayed(c, m, d) OBVIOUS
<1> HIDE DEF ms, m
<1>10. \A d \in Clients : \A x \in ToSet(ms[d]) : x.from = c /\ x.kind \in {"overlay-key", "marker"}
  BY <1>1, <1>6, <1>9, RelayedFacts
<1>11. \A d, e \in Clients : (Members(d, e)' <=> Members(d, e)) BY <1>4 DEF Members, Joined
<1>12. ASSUME NEW x \in Clients, NEW y \in Clients, y # x, Joined(y), x = c
       PROVE  /\ m = MarkerTo(y) => ms[y] = <<MarkerFrom(x)>>
              /\ m # MarkerTo(y) => MarkerFrom(x) \notin ToSet(ms[y])
              /\ \A k \in Nat : m = KeyOut(k) => ms[y] = <<KeyFrom(x, k, room.m)>>
              /\ m \notin Concerning(y) => ms[y] = <<>>
  <2>1. m = MarkerTo(y) => ms[y] = <<MarkerFrom(x)>> BY <1>9, <1>12 DEF Relayed, MarkerTo
  <2>2. \A k \in Nat : m = KeyOut(k) => ms[y] = <<KeyFrom(x, k, room.m)>> BY <1>9, <1>12 DEF Relayed, KeyOut
  <2>3. (\E k \in Nat : m = KeyOut(k)) \/ (\E d \in Clients : m = MarkerTo(d) /\ m.kind = "marker" /\ m.to = d)
    BY <1>6, ClientKinds
  <2>4. m \notin Concerning(y) => ms[y] = <<>>
    BY <2>3, <1>9, <1>12 DEF Relayed, Concerning
  <2>5. ASSUME m # MarkerTo(y) PROVE MarkerFrom(x) \notin ToSet(ms[y])
    <3>1. CASE \E k \in Nat : m = KeyOut(k)
      <4>1. PICK k \in Nat : m = KeyOut(k) BY <3>1
      <4>2. ToSet(ms[y]) = {KeyFrom(x, k, room.m)} BY <4>1, <2>2, EmptySet
      <4> QED BY <4>2 DEF KeyFrom, MarkerFrom
    <3>2. CASE \E d \in Clients : m = MarkerTo(d) /\ m.kind = "marker" /\ m.to = d
      <4>1. ms[y] = <<>> BY <3>2, <2>5, <1>9, <1>12 DEF Relayed
      <4> QED BY <4>1, EmptySet
    <3> QED BY <3>1, <3>2, <2>3
  <2> QED BY <2>1, <2>2, <2>4, <2>5
<1>13. ASSUME NEW x \in Clients, NEW y \in Clients, x # c
       PROVE  /\ Places(inbox'[y], MarkerFrom(x)) = Places(inbox[y], MarkerFrom(x))
              /\ Places(outbox'[x], MarkerTo(y)) = Places(outbox[x], MarkerTo(y))
  <2>1. MarkerFrom(x) \notin ToSet(ms[y]) BY <1>10, <1>13 DEF MarkerFrom
  <2>2. inbox'[y] = inbox[y] \o ms[y] /\ ms[y] \in Seq(ServerMessage) BY <1>8 DEF Adding
  <2> QED BY <2>1, <2>2, <1>7, <1>8, <1>13, PlacesConcat
\* The requests of c itself
<1>14. ASSUME NEW y \in Clients, Members(c, y), NEW P, P = Places(outbox[c], MarkerTo(y)), NEW Q, Q = Places(outbox'[c], MarkerTo(y)),
              NEW A, A = Places(inbox[y], MarkerFrom(c)), NEW B, B = Places(inbox'[y], MarkerFrom(c))
       PROVE  /\ A \subseteq B /\ \A i \in Q : i + 1 \in P /\ i \in Int
              /\ m # MarkerTo(y) => B = A /\ (P # {} => Q # {})
              /\ m = MarkerTo(y) => P # {} /\ B # {} /\ (A = {} => \A i, j \in B : i = j) /\ ((\A i, j \in P : i = j) => Q = {})
  <2>1. y # c /\ Joined(y) BY <1>14 DEF Members
  <2>2. inbox'[y] = inbox[y] \o ms[y] /\ ms[y] \in Seq(ServerMessage) /\ inbox[y] \in Seq(ServerMessage) BY <1>8 DEF Adding
  <2> DEFINE u == outbox[c]
             t == MarkerTo(y)
             f == MarkerFrom(c)
             b == inbox[y]
  <2>3. u \in Seq(ClientMessage) /\ u # <<>> /\ outbox'[c] = Tail(u) /\ m = Head(u) BY <1>4, <1>6, <1>7 DEF m
  <2>4. P = Places(u, t) /\ Q = Places(Tail(u), t) /\ A = Places(b, f) /\ B = Places(b \o ms[y], f) BY <2>2, <2>3, <1>14
  <2>5. (m = t => ms[y] = <<f>>) /\ (m # t => f \notin ToSet(ms[y])) BY <2>1, <1>12
  <2>6. f \in ServerMessage BY DEF MarkerFrom, ServerMessage
  <2> HIDE DEF u, t, f, b
  <2>7. /\ \A i \in Q : i + 1 \in P /\ i + 1 # 1
        /\ m = t => 1 \in P
        /\ m # t => (Q = {} => P = {})
    BY <2>3, <2>4, PlacesTail
  <2>8. \A i \in Q : i \in Int BY <2>4 DEF Places
  <2>9. CASE m # t
    <3>1. B = A BY <2>2, <2>4, <2>5, <2>9, PlacesConcat DEF b
    <3> QED BY <3>1, <2>7, <2>8, <2>9 DEF t
  <2>10. CASE m = t
    <3>1. b \in Seq(ServerMessage) /\ b \o ms[y] = Append(b, f)
      <4>1. b \in Seq(ServerMessage) BY <2>2 DEF b
      <4>2. b \o <<f>> = Append(b, f) BY <4>1, <2>6, ConcatTwo
      <4> QED BY <4>1, <4>2, <2>5, <2>10
    <3>2. B = A \cup {Len(b) + 1} BY <3>1, <2>4, <2>6, PlacesAppend
    <3>3. (\A i, j \in P : i = j) => Q = {} BY <2>7, <2>10
    <3> QED BY <3>2, <3>3, <2>7, <2>8, <2>10 DEF t
  <2> QED BY <2>9, <2>10
<1>15. Marked'
  <2> SUFFICES ASSUME NEW x \in Clients, NEW y \in Clients, Members(x, y)' PROVE OneMarker(x, y)' BY DEF Marked
  <2>1. Members(x, y) BY <1>11
  <2>2. OneMarker(x, y) BY <2>1, <1>1 DEF MeshParts, Marked
  <2>3. CASE x # c
    <3>1. /\ Places(inbox'[y], MarkerFrom(x)) = Places(inbox[y], MarkerFrom(x))
          /\ Places(outbox'[x], MarkerTo(y)) = Places(outbox[x], MarkerTo(y))
      BY <2>3, <1>13
    <3>2. cl'[x].pc = cl[x].pc /\ cl'[y].pc = cl[y].pc BY <1>4
    <3> QED BY <3>1, <3>2, <2>2 DEF OneMarker, MarkerSent, MarkerArrived, MarkerTo, MarkerFrom, Places
  <2>4. CASE x = c
    <3> DEFINE P == Places(outbox[x], MarkerTo(y))
               Q == Places(outbox'[x], MarkerTo(y))
               A == Places(inbox[y], MarkerFrom(x))
               B == Places(inbox'[y], MarkerFrom(x))
    <3>1. /\ A \subseteq B /\ \A i \in Q : i + 1 \in P /\ i \in Int
          /\ m # MarkerTo(y) => B = A /\ (P # {} => Q # {})
          /\ m = MarkerTo(y) => P # {} /\ B # {} /\ (A = {} => \A i, j \in B : i = j) /\ ((\A i, j \in P : i = j) => Q = {})
      BY <2>1, <2>4, <1>14
    <3>2. /\ P # {} \/ A # {} => cl[x].pc[y] = cl[y].pc[x] + 1
          /\ ~(P # {} /\ A # {}) /\ (\A i, j \in P : i = j) /\ (\A i, j \in A : i = j)
      BY <2>2 DEF OneMarker, MarkerSent, MarkerArrived
    <3>3. /\ Q # {} \/ B # {} => P # {} \/ A # {}
          /\ ~(Q # {} /\ B # {}) /\ (\A i, j \in Q : i = j) /\ (\A i, j \in B : i = j)
      <4> HIDE DEF P, Q, A, B
      <4>1. \A i, j \in Q : i = j
        <5> TAKE i, j \in Q
        <5>1. i + 1 \in P /\ j + 1 \in P /\ i \in Int /\ j \in Int BY <3>1
        <5>2. i + 1 = j + 1 BY <5>1, <3>2
        <5> QED BY <5>1, <5>2
      <4>2. Q # {} => P # {} BY <3>1
      <4>3. CASE m # MarkerTo(y) BY <4>1, <4>2, <4>3, <3>1, <3>2
      <4>4. CASE m = MarkerTo(y) BY <4>1, <4>2, <4>4, <3>1, <3>2
      <4> QED BY <4>3, <4>4
    <3>4. Q # {} \/ B # {} => cl'[x].pc[y] = cl'[y].pc[x] + 1
      <4> HIDE DEF P, Q, A, B
      <4> QED BY <3>2, <3>3, <1>4
    <3> QED BY <3>3, <3>4 DEF OneMarker, MarkerSent, MarkerArrived, MarkerTo, MarkerFrom, Places
  <2> QED BY <2>3, <2>4
<1>16. Unreset'
  <2> SUFFICES ASSUME plan.resets = 0 PROVE Unreset' BY <1>4 DEF Unreset
  <2>1. /\ left.resets = 0
        /\ \A d \in Clients : \A x \in ToSet(inbox[d]) : x.kind # "marker"
        /\ \A d \in Clients : \A x \in ToSet(outbox[d]) : x.kind # "marker"
    BY <1>1 DEF MeshParts, Unreset
  <2>2. \A d \in Clients : ToSet(inbox'[d]) = ToSet(inbox[d]) \cup ToSet(ms[d]) BY <1>1, <1>8, AddingFacts
  <2>3. ASSUME NEW d \in Clients, NEW x \in ToSet(ms[d]) PROVE x.kind # "marker"
    <3>1. m.kind = "overlay-key" BY <2>1, <1>6, ClientKinds
    <3>2. ms[d] = <<>> \/ ms[d] = <<KeyFrom(c, m.k, room.m)>> BY <3>1, <1>9 DEF Relayed
    <3>3. ToSet(ms[d]) = {} \/ ToSet(ms[d]) = {KeyFrom(c, m.k, room.m)} BY <3>2, EmptySet
    <3> QED BY <2>3, <3>3 DEF KeyFrom
  <2>4. \A d \in Clients : \A x \in ToSet(outbox'[d]) : x.kind # "marker" BY <2>1, <1>2 DEF ServerStep
  <2> QED BY <2>1, <2>2, <2>3, <2>4, <1>4 DEF Unreset
<1>17. AllFed'
  <2> SUFFICES ASSUME NEW x \in Clients, NEW y \in Clients, Members(x, y), cl[y].m = room.m, cl[y].key # 0
               PROVE  (Announced(x, y) \/ Arriving(x, y) \/ Arrived(x, y) \/ Asked(x, y))'
    BY <1>4, <1>11 DEF AllFed, Fed
  <2>1. Announced(x, y) \/ Arriving(x, y) \/ Arrived(x, y) \/ Asked(x, y) BY <1>1 DEF MeshParts, AllFed, Fed
  <2> DEFINE S == About(y)
             C == Concerning(x)
             h == KeyOut(cl[y].key)
             k == KeyFrom(y, cl[y].key, room.m)
             b == inbox[x]
             u == outbox[y]
             M == cl[x].m = room.m /\ (cl[x].imports[y] = cl[y].key \/ (cl[x].imports[y] = 0 /\ cl[x].ring[y] = cl[y].key))
  <2>2. /\ Announced(x, y) => Ends(u, C, h)
        /\ Ends(outbox'[y], C, h) => Announced(x, y)'
    BY <1>4 DEF Announced, Concerning, KeyOut, MarkerTo, Ends
  <2>3. /\ Arriving(x, y) => Without(u, C) /\ Ends(b, S, k)
        /\ Without(outbox'[y], C) /\ Ends(inbox'[x], S, k) => Arriving(x, y)'
    <3>1. Arriving(x, y) => Without(u, C) /\ Ends(b, S, k) BY DEF Arriving
    <3>2. Without(outbox'[y], C) /\ Ends(inbox'[x], S, k) => Arriving(x, y)'
      <4>1. cl'[y].key = cl[y].key /\ room'.m = room.m BY <1>4
      <4> QED BY <4>1 DEF Arriving, Concerning, About, KeyFrom, KeyOut, MarkerTo, MarkerFrom, Without, Ends
    <3> QED BY <3>1, <3>2
  <2>4. /\ Arrived(x, y) => Without(u, C) /\ Without(b, S) /\ M
        /\ Without(outbox'[y], C) /\ Without(inbox'[x], S) /\ M => Arrived(x, y)'
    BY <1>4 DEF Arrived, Concerning, About, KeyFrom, KeyOut, MarkerTo, MarkerFrom, Without
  <2>5. Asked(x, y) => Asked(x, y)'
    <3>1. CASE x # c
      <4>1. /\ Places(inbox'[y], MarkerFrom(x)) = Places(inbox[y], MarkerFrom(x))
            /\ Places(outbox'[x], MarkerTo(y)) = Places(outbox[x], MarkerTo(y))
        BY <3>1, <1>13
      <4> QED BY <4>1 DEF Asked, MarkerSent, MarkerArrived, MarkerTo, MarkerFrom, Places
    <3>2. CASE x = c
      <4> DEFINE P == Places(outbox[x], MarkerTo(y))
                 Q == Places(outbox'[x], MarkerTo(y))
                 A == Places(inbox[y], MarkerFrom(x))
                 B == Places(inbox'[y], MarkerFrom(x))
      <4>1. /\ A \subseteq B
            /\ m # MarkerTo(y) => B = A /\ (P # {} => Q # {})
            /\ m = MarkerTo(y) => B # {}
        BY <3>2, <1>14
      <4>2. (Asked(x, y) => P # {} \/ A # {}) /\ (Q # {} \/ B # {} => Asked(x, y)')
        BY DEF Asked, MarkerSent, MarkerArrived, MarkerTo, MarkerFrom, Places
      <4> HIDE DEF P, Q, A, B
      <4> QED BY <4>1, <4>2
    <3> QED BY <3>1, <3>2
  <2>6. b \in Seq(ServerMessage) /\ ms[x] \in Seq(ServerMessage) /\ inbox'[x] = b \o ms[x] BY <1>8 DEF Adding
  <2>7. CASE y # c
    <3>1. \A z \in ToSet(ms[x]) : z \notin S BY <2>7, <1>10 DEF About, KeyFrom, MarkerFrom
    <3>2. outbox'[y] = u BY <2>7, <1>7
    <3> HIDE DEF S, C, h, k, b, u, M
    <3>3. /\ Ends(b, S, k) => Ends(inbox'[x], S, k)
          /\ Without(b, S) => Without(inbox'[x], S)
      BY <3>1, <2>6, EndsConcat
    <3> QED BY <3>2, <3>3, <2>1, <2>2, <2>3, <2>4, <2>5
  <2>8. CASE y = c
    <3>1. u \in Seq(ClientMessage) /\ u # <<>> /\ outbox'[y] = Tail(u) /\ m = Head(u) BY <2>8, <1>4, <1>6, <1>7 DEF m
    <3>2. (m = h => ms[x] = <<k>>) /\ (m \notin C => ms[x] = <<>>)
      <4>1. cl[y].key \in Nat BY <1>1, Types, FieldTypes
      <4>2. x # y /\ Joined(x) BY DEF Members
      <4> QED BY <4>1, <4>2, <2>8, <1>12
    <3>3. k \in ServerMessage
      <4>1. cl[y].key \in Nat BY <1>1, Types, FieldTypes
      <4>2. room.m \in Nat BY <1>1 DEF TypeOK
      <4> QED BY <4>1, <4>2 DEF KeyFrom, ServerMessage
    <3> HIDE DEF S, C, h, k, b, u, M
    <3>4. CASE Ends(u, C, h)
      <4>1. Ends(Tail(u), C, h) \/ (m = h /\ Without(Tail(u), C)) BY <3>1, <3>4, EndsTail
      <4>2. CASE m = h /\ Without(Tail(u), C)
        <5>1. inbox'[x] = Append(b, k)
          <6>1. b \o <<k>> = Append(b, k) BY <3>3, <2>6, ConcatTwo
          <6> QED BY <6>1, <4>2, <3>2, <2>6
        <5>2. Ends(inbox'[x], S, k) BY <5>1, <3>3, <2>6, EndsAppend, ZenonT(60)
        <5> QED BY <5>2, <4>2, <3>1, <2>3
      <4> QED BY <4>1, <4>2, <3>1, <2>2
    <3>5. CASE Without(u, C)
      <4>1. Without(Tail(u), C) /\ m \notin C BY <3>1, <3>5, EndsTail
      <4>2. ms[x] = <<>> BY <4>1, <3>2
      <4>3. inbox'[x] = b BY <4>2, <2>6
      <4> QED BY <4>1, <4>3, <3>1, <2>1, <2>2, <2>3, <2>4, <2>5, <3>4
    <3> QED BY <3>4, <3>5, <2>1, <2>2, <2>3, <2>4, <2>5
  <2> QED BY <2>7, <2>8
<1>18. MeshParts' /\ KeyParts' BY <1>3, <1>15, <1>16, <1>17 DEF MeshParts, KeyParts
<1> QED BY <1>18, Parts, PTL

-----------------------------------------------------------------------------
(* Changes of the membership *)

LEMMA ConcatThree ==
  ASSUME NEW s \in Seq(ServerMessage), NEW x \in ServerMessage, NEW y \in ServerMessage, NEW z \in ServerMessage
  PROVE  /\ <<x, y, z>> \in Seq(ServerMessage) /\ ToSet(<<x, y, z>>) = {x, y, z} /\ <<y, z>> \in Seq(ServerMessage)
         /\ s \o <<x, y, z>> = Append(s, x) \o <<y, z>>
<1>1. <<x, y, z>> \in Seq(ServerMessage) /\ <<y, z>> \in Seq(ServerMessage) OBVIOUS
<1>2. <<x>> \o <<y, z>> = <<x, y, z>>
  <2> DEFINE a == <<x>> \o <<y, z>>
             b == <<x, y, z>>
  <2>1. a \in Seq(ServerMessage) /\ Len(a) = 3 BY <1>1
  <2>2. a[1] = x /\ a[2] = y /\ a[3] = z OBVIOUS
  <2>3. b \in Seq(ServerMessage) /\ Len(b) = 3 /\ b[1] = x /\ b[2] = y /\ b[3] = z BY <1>1
  <2> HIDE DEF a, b
  <2>4. \A i \in 1..3 : a[i] = b[i] BY <2>2, <2>3
  <2>5. a = b BY <2>1, <2>3, <2>4
  <2> QED BY <2>5 DEF a, b
<1>3. s \o (<<x>> \o <<y, z>>) = Append(s, x) \o <<y, z>> BY <1>1, AppendFirst
<1>4. ToSet(<<x, y, z>>) = {x, y, z}
  <2> DEFINE t == <<x, y, z>>
  <2>1. Len(t) = 3 /\ t[1] = x /\ t[2] = y /\ t[3] = z /\ DOMAIN t = 1..3 OBVIOUS
  <2> HIDE DEF t
  <2>2. ToSet(t) = {t[1], t[2], t[3]} BY <2>1 DEF ToSet
  <2> QED BY <2>1, <2>2 DEF t
<1> QED BY <1>1, <1>2, <1>3, <1>4

\* The room before its topology is known
Awaited(rm) == [members |-> rm.members, m |-> rm.m, r |-> rm.r, due |-> TRUE]

LEMMA LeadsChange ==
  ASSUME NEW d, NEW box \in Seq(ServerMessage), NEW a \in RoomView, NEW y \in RoomView, NEW rm, NEW x \in ServerMessage,
         View(rm) \in RoomView, Leads(d, box, a, y), Moves(d, x, y, Awaited(rm)), y.m <= rm.m,
         Topology(rm) \in ServerMessage, AgentState(rm) \in ServerMessage
  PROVE  Leads(d, box \o <<x, Topology(rm), AgentState(rm)>>, a, View(rm))
<1> DEFINE w == Awaited(rm)
           t == Topology(rm)
           g == AgentState(rm)
<1>1. w \in RoomView /\ w.members = rm.members /\ w.m = rm.m /\ w.r = rm.r BY DEF RoomView, View, Awaited
<1>2. rm.r >= w.r BY <1>1 DEF RoomView
<1>3. t \in ServerMessage /\ g \in ServerMessage OBVIOUS
<1> HIDE DEF w, t, g
<1>4. Leads(d, Append(box, x), a, w)
  <2>1. Moves(d, x, y, w) /\ y.m <= w.m BY <1>1 DEF w
  <2> QED BY <2>1, <1>1, LeadsAppend
<1>5. Append(box, x) \in Seq(ServerMessage) OBVIOUS
<1>6. Leads(d, Append(box, x) \o <<t, g>>, a, View(rm)) BY <1>1, <1>2, <1>4, <1>5, LeadsNews DEF t, g
<1>7. box \o <<x, t, g>> = Append(box, x) \o <<t, g>> BY <1>3, ConcatThree, ZenonT(60)
<1> QED BY <1>6, <1>7 DEF t, g

\* Nobody is ahead of the room.
LEMMA EpochBound ==
  ASSUME MeshParts, NEW c \in Clients
  PROVE  cl[c].m <= room.m
<1>1. cl[c].m \in Nat /\ room.m \in Nat /\ View(room) \in RoomView BY Types, FieldTypes DEF MeshParts, TypeOK, View, RoomView
<1>2. CASE ~Joined(c) BY <1>1, <1>2 DEF MeshParts, Absent, Blank
<1>3. CASE Joined(c)
  <2>1. PICK a \in RoomView : Seen(c, cl[c], a) /\ Leads(c, inbox[c], a, View(room)) BY <1>3 DEF MeshParts, Views
  <2>2. inbox[c] \in Seq(ServerMessage) BY Types DEF MeshParts
  <2>3. a.m <= View(room).m BY <1>1, <2>1, <2>2, LeadsBound
  <2>4. a.m \in Nat /\ View(room).m = room.m BY DEF RoomView, View
  <2>5. cl[c].m <= a.m BY <1>1, <2>1, <2>4 DEF Seen, RoomView
  <2> QED BY <1>1, <2>3, <2>4, <2>5
<1> QED BY <1>2, <1>3

\* What a change of the membership to M sends, f first.
LEMMA ChangeFacts ==
  ASSUME MeshParts, NEW M \in SUBSET Clients, room' = Changed(M), NEW f, \A d \in Clients : f[d] \in ServerMessage,
         inbox' = [d \in Clients |-> IF d \in room'.members
                     THEN inbox[d] \o <<f[d], Topology(room'), AgentState(room')>> ELSE <<>>]
  PROVE  /\ room' \in [members : SUBSET Clients, m : Nat, r : Nat, e : Nat]
         /\ room'.members = M /\ room'.m = room.m + 1 /\ room'.r = room.r + 1 /\ View(room') \in RoomView
         /\ Topology(room') \in ServerMessage /\ AgentState(room') \in ServerMessage
         /\ inbox' \in [Clients -> Seq(ServerMessage)]
         /\ \A d \in Clients \ M : inbox'[d] = <<>>
         /\ \A d \in M :
              LET s == <<f[d], Topology(room'), AgentState(room')>>
              IN  Adding(d, s) /\ ToSet(s) = {f[d], Topology(room'), AgentState(room')}
<1>1. room \in [members : SUBSET Clients, m : Nat, r : Nat, e : Nat] BY DEF MeshParts, TypeOK
<1>2. room' = [members |-> M, m |-> room.m + 1, r |-> room.r + 1, e |-> room.e + 1] BY DEF Changed
<1>3. /\ room' \in [members : SUBSET Clients, m : Nat, r : Nat, e : Nat]
      /\ room'.members = M /\ room'.m = room.m + 1 /\ room'.r = room.r + 1
  BY <1>1, <1>2
<1>4. View(room') \in RoomView BY <1>3 DEF View, RoomView
<1> DEFINE t == Topology(room')
           g == AgentState(room')
<1>5. t \in ServerMessage /\ g \in ServerMessage BY <1>3 DEF Topology, AgentState, ServerMessage
<1>6. ASSUME NEW d \in Clients PROVE inbox[d] \in Seq(ServerMessage) BY Types DEF MeshParts
<1>7. inbox' = [d \in Clients |-> IF d \in M THEN inbox[d] \o <<f[d], t, g>> ELSE <<>>] BY <1>3
<1> HIDE DEF t, g
<1>8. ASSUME NEW d \in Clients
      PROVE  /\ <<f[d], t, g>> \in Seq(ServerMessage) /\ ToSet(<<f[d], t, g>>) = {f[d], t, g}
             /\ inbox[d] \o <<f[d], t, g>> \in Seq(ServerMessage)
  <2>1. f[d] \in ServerMessage OBVIOUS
  <2>2. <<f[d], t, g>> \in Seq(ServerMessage) /\ ToSet(<<f[d], t, g>>) = {f[d], t, g} BY <2>1, <1>5, <1>6, ConcatThree
  <2> QED BY <2>2, <1>6
<1>9. inbox' \in [Clients -> Seq(ServerMessage)]
  <2>1. <<>> \in Seq(ServerMessage) OBVIOUS
  <2>2. \A d \in Clients : inbox'[d] \in Seq(ServerMessage) BY <2>1, <1>7, <1>8
  <2> QED BY <2>2, <1>7
<1>10. \A d \in Clients \ M : inbox'[d] = <<>> BY <1>7
<1>11. ASSUME NEW d \in M PROVE Adding(d, <<f[d], t, g>>) /\ ToSet(<<f[d], t, g>>) = {f[d], t, g}
  BY <1>7, <1>8 DEF Adding
<1> QED BY <1>3, <1>4, <1>5, <1>9, <1>10, <1>11 DEF t, g

\* A newcomer is known to nobody and is told of all; the others learn of it in order.
LEMMA JoinStep ==
  ASSUME IInv, NEW c \in Clients, Join(c)
  PROVE  IInv'
<1> DEFINE M == room.members \cup {c}
           w == [kind |-> "welcome", peers |-> room.members]
           j == JoinMessage(c)
           f == [d \in Clients |-> IF d = c THEN w ELSE j]
           t == Topology(room')
           g == AgentState(room')
           S(d) == {f[d], t, g}
           s(d) == <<f[d], t, g>>
<1>1. MeshParts /\ KeyParts /\ TypeOK BY Parts DEF MeshParts
<1>2. ~Ever(c) /\ ~Joined(c) /\ room' = Changed(M) /\ UNCHANGED <<outbox, cl, link, left, plan>> BY DEF Join, Ever
<1>3. /\ inbox[c] = <<>> /\ outbox[c] = <<>> /\ (\A d \in Clients : link[c][d] = <<>>)
      /\ cl[c].peers = {} /\ cl[c].applied = {} /\ cl[c].m = 0 /\ cl[c].r = 0 /\ cl[c].key = 0
  BY <1>1, <1>2 DEF MeshParts, Absent, Blank
<1>4. \A d \in Clients : Unknown(c, d) BY <1>1, <1>2 DEF MeshParts, Known
<1>5. room.members \in SUBSET Clients /\ room.m \in Nat /\ room.r \in Nat /\ View(room) \in RoomView
  BY <1>1 DEF TypeOK, View, RoomView
<1>6. M \in SUBSET Clients BY <1>5
<1>7. \A d \in Clients : f[d] \in ServerMessage
  <2>1. w \in ServerMessage /\ j \in ServerMessage BY <1>5 DEF ServerMessage, JoinMessage
  <2> QED BY <2>1
<1>8. inbox' = [d \in Clients |-> IF d \in room'.members THEN inbox[d] \o <<f[d], t, g>> ELSE <<>>]
  BY DEF Join, Broadcast, JoinMessage
<1>9. f[c] = w /\ w.kind = "welcome" /\ w.peers = room.members /\ \A d \in Clients \ {c} : f[d] = j OBVIOUS
<1>10. j.kind = "peer-joined" /\ j.from = c /\ t.kind = "topology" /\ t.m = room'.m /\ g.kind = "agent-state"
  BY DEF JoinMessage, Topology, AgentState
<1> HIDE DEF M, f, w, j
<1>11. /\ room' \in [members : SUBSET Clients, m : Nat, r : Nat, e : Nat]
       /\ room'.members = M /\ room'.m = room.m + 1 /\ room'.r = room.r + 1 /\ View(room') \in RoomView
       /\ t \in ServerMessage /\ g \in ServerMessage
       /\ inbox' \in [Clients -> Seq(ServerMessage)]
       /\ (\A d \in Clients \ M : inbox'[d] = <<>>)
       /\ \A d \in M : Adding(d, s(d)) /\ ToSet(s(d)) = S(d)
  BY <1>1, <1>2, <1>6, <1>7, <1>8, ChangeFacts, ZenonT(60)
<1> HIDE DEF t, g, s
<1>12. \A d \in Clients : Joined(d)' <=> Joined(d) \/ d = c BY <1>11 DEF Joined, M
<1>13. \A d \in M : ToSet(inbox'[d]) = ToSet(inbox[d]) \cup S(d) BY <1>1, <1>6, <1>11, AddingFacts
<1>14. \A d \in Clients : Ever(d)' <=> Ever(d) \/ d = c BY <1>2, <1>12 DEF Ever
<1>15. \A d \in Clients : ~Joined(d) /\ d # c => inbox'[d] = <<>> BY <1>11, <1>12 DEF Joined
<1>16. \A d \in Clients : cl[d].m <= room.m /\ cl[d].m \in Nat BY <1>1, EpochBound, Types, FieldTypes
<1>17. TypeOK'
  BY <1>1, <1>2, <1>11 DEF TypeOK
<1>18. Few' /\ Ready' /\ AgentKeys' /\ Packets' /\ AllHeld'
  <2>1. \A d \in Clients : Joined(d)' => Joined(d) \/ ~Ever(d) BY <1>2, <1>12
  <2>2. \A d \in Clients : Alike(cl[d], cl'[d]) BY <1>2, SameAlike
  <2> QED BY <2>1, <2>2, <1>2, ServerKeys
<1>19. Absent'
  <2> SUFFICES ASSUME NEW d \in Clients, ~Joined(d)'
               PROVE  inbox'[d] = <<>> /\ outbox'[d] = <<>> /\ Blank(cl'[d]) /\ \A e \in Clients : link'[d][e] = <<>>
    BY DEF Absent, Blank
  <2>1. ~Joined(d) /\ d # c BY <1>12
  <2> QED BY <2>1, <1>1, <1>2, <1>15 DEF MeshParts, Absent
<1>20. Known'
  <2> SUFFICES ASSUME NEW e \in Clients, NEW d \in Clients, ~Ever(e)' PROVE Unknown(e, d)' BY DEF Known
  <2>1. ~Ever(e) /\ e # c BY <1>14
  <2>2. Unknown(e, d) BY <2>1, <1>1 DEF MeshParts, Known
  <2>3. e \notin cl'[d].peers /\ e \notin cl'[d].agent.acked /\ \A x \in ToSet(outbox'[d]) : x.kind = "marker" => x.to # e
    BY <2>2, <1>2 DEF Unknown
  <2>4. ASSUME NEW x \in ToSet(inbox'[d])
        PROVE  (x.kind \in {"peer-joined", "marker"} => x.from # e) /\ (x.kind = "welcome" => e \notin x.peers)
    <3>1. d \in M
      <4>1. ToSet(<<>>) = {} BY EmptySet
      <4> QED BY <4>1, <2>4, <1>11
    <3>2. CASE x \in ToSet(inbox[d]) BY <3>2, <2>2 DEF Unknown
    <3>3. CASE x \in S(d)
      <4>1. x = w \/ x = j \/ x = t \/ x = g BY <3>3, <1>9
      <4>2. e \notin room.members BY <2>1 DEF Ever, Joined
      <4> QED BY <4>1, <4>2, <2>1, <1>9, <1>10
    <3> QED BY <3>1, <3>2, <3>3, <2>4, <1>13
  <2> QED BY <2>3, <2>4 DEF Unknown
<1>21. ASSUME NEW d \in M, NEW a \in RoomView, NEW y \in RoomView, Leads(d, inbox[d], a, y),
              Moves(d, f[d], y, Awaited(room')), y.m <= room'.m
       PROVE  Leads(d, inbox'[d], a, View(room'))
  <2>1. inbox[d] \in Seq(ServerMessage) /\ inbox'[d] = inbox[d] \o s(d) /\ f[d] \in ServerMessage
    BY <1>1, <1>6, <1>7, <1>11, Types DEF Adding
  <2> DEFINE rm == room'
  <2>2. /\ View(rm) \in RoomView /\ Moves(d, f[d], y, Awaited(rm)) /\ y.m <= rm.m
        /\ Topology(rm) \in ServerMessage /\ AgentState(rm) \in ServerMessage /\ s(d) = <<f[d], Topology(rm), AgentState(rm)>>
    BY <1>11, <1>21 DEF t, g, s
  <2> HIDE DEF rm
  <2>3. Leads(d, inbox[d] \o s(d), a, View(rm)) BY <2>1, <2>2, <1>21, LeadsChange
  <2> QED BY <2>1, <2>3 DEF rm
<1>22. Views'
  <2> SUFFICES ASSUME NEW d \in Clients, Joined(d)'
               PROVE  \E a \in RoomView : Seen(d, cl'[d], a) /\ Leads(d, inbox'[d], a, View(room'))
    BY DEF Views, Seen, Leads, Follows, Moves, Changes, Start, View, RoomView
  <2>1. d \in M BY <1>11 DEF Joined
  <2> DEFINE z == Awaited(room')
  <2>2. z.members = M /\ z.m = room.m + 1 /\ z.r = room.r + 1 /\ z.due BY <1>11 DEF Awaited
  <2> HIDE DEF z
  <2>3. CASE d # c
    <3> DEFINE y == View(room)
    <3>1. Joined(d) BY <2>3, <1>12
    <3>2. PICK a \in RoomView : Seen(d, cl[d], a) /\ Leads(d, inbox[d], a, y) BY <3>1, <1>1 DEF MeshParts, Views
    <3>3. y.members = room.members /\ y.m = room.m /\ y.r = room.r /\ ~y.due /\ y \in RoomView BY <1>5 DEF View
    <3> HIDE DEF y
    <3>4. Changes(y, z, y.members \cup {j.from}) BY <2>2, <3>3, <1>5, <1>10 DEF Changes, M
    <3>5. Moves(d, f[d], y, z) BY <3>4, <2>3, <1>9, <1>10 DEF Moves
    <3>6. y.m <= room'.m BY <3>3, <1>5, <1>11
    <3>7. Leads(d, inbox'[d], a, View(room')) BY <2>1, <3>2, <3>3, <3>5, <3>6, <1>21 DEF z
    <3>8. Seen(d, cl'[d], a) BY <3>2, <1>2
    <3> QED BY <3>7, <3>8
  <2>4. CASE d = c
    <3> DEFINE a == Start(c)
    <3>1. a \in RoomView /\ a.members = {c} /\ a.m = 0 /\ a.r = 0 /\ ~a.due BY DEF Start, RoomView
    <3>2. a = Start(c) OBVIOUS
    <3> HIDE DEF a
    <3>3. Leads(d, inbox[d], a, a) BY <3>1, <2>4, <1>3, LeadsEmpty
    <3>4. Changes(a, z, w.peers \cup {c}) BY <2>2, <3>1, <1>5, <1>9 DEF Changes, M
    <3>5. c \notin w.peers BY <1>2, <1>9 DEF Joined
    <3>6. Moves(d, f[d], a, z) BY <3>2, <3>4, <3>5, <2>4, <1>9 DEF Moves
    <3>7. a.m <= room'.m BY <3>1, <1>11, <1>5
    <3>8. Leads(d, inbox'[d], a, View(room')) BY <2>1, <3>1, <3>3, <3>6, <3>7, <1>21 DEF z
    <3>9. Seen(d, cl'[d], a) BY <3>1, <2>4, <1>2, <1>3 DEF Seen
    <3> QED BY <3>1, <3>8, <3>9
  <2> QED BY <2>3, <2>4
<1>23. Started' BY <1>5, <1>11 DEF Started
<1>24. Shut'
  <2> SUFFICES ASSUME NEW x \in Clients, NEW d \in Clients PROVE ShutOut(x, d)' BY DEF Shut
  <2>1. CASE x = c BY <2>1, <1>2, <1>3 DEF ShutOut
  <2>2. CASE x # c
    <3>1. ShutOut(x, d) BY <1>1 DEF MeshParts, Shut
    <3>2. Joined(x)' => ToSet(inbox[x]) \subseteq ToSet(inbox'[x]) BY <1>11, <1>13 DEF Joined
    <3> QED BY <3>1, <3>2, <2>2, <1>2, <1>12 DEF ShutOut, LeftMessage
  <2> QED BY <2>1, <2>2
<1>25. Marked'
  <2> SUFFICES ASSUME NEW x \in Clients, NEW y \in Clients, Members(x, y)' PROVE OneMarker(x, y)' BY DEF Marked
  <2>1. Joined(x)' /\ Joined(y)' /\ x # y BY DEF Members
  <2>2. y \in M BY <2>1, <1>11 DEF Joined
  <2>3. inbox[y] \in Seq(ServerMessage) /\ outbox[x] \in Seq(ClientMessage) BY <1>1, Types
  <2>4. MarkerFrom(x) \notin ToSet(s(y))
    <3>1. f[y].kind \in {"welcome", "peer-joined"} BY <1>9, <1>10
    <3> QED BY <3>1, <2>2, <1>10, <1>11 DEF MarkerFrom
  <2>5. Places(inbox'[y], MarkerFrom(x)) = Places(inbox[y], MarkerFrom(x))
    <3>1. s(y) \in Seq(ServerMessage) /\ inbox'[y] = inbox[y] \o s(y) BY <2>2, <1>11 DEF Adding
    <3> QED BY <3>1, <2>3, <2>4, PlacesConcat
  <2>6. CASE x # c /\ y # c
    <3>1. Members(x, y) BY <2>1, <2>6, <1>12 DEF Members
    <3>2. OneMarker(x, y) BY <3>1, <1>1 DEF MeshParts, Marked
    <3> QED BY <3>2, <2>5, <1>2 DEF OneMarker, MarkerSent, MarkerArrived, MarkerTo, MarkerFrom, Places
  <2>7. CASE x = c \/ y = c
    <3>1. MarkerFrom(x) \notin ToSet(inbox[y])
      <4>1. CASE x = c BY <4>1, <1>4 DEF Unknown, MarkerFrom
      <4>2. CASE y = c BY <4>2, <1>3, EmptySet
      <4> QED BY <4>1, <4>2, <2>7
    <3>2. MarkerTo(y) \notin ToSet(outbox[x])
      <4>1. CASE x = c BY <4>1, <1>3, EmptySet
      <4>2. CASE y = c BY <4>2, <1>4 DEF Unknown, MarkerTo
      <4> QED BY <4>1, <4>2, <2>7
    <3>3. Places(inbox[y], MarkerFrom(x)) = {} /\ Places(outbox[x], MarkerTo(y)) = {} BY <3>1, <3>2, <2>3, PlacesIn
    <3>4. Places(inbox'[y], MarkerFrom(x)) = {} /\ Places(outbox'[x], MarkerTo(y)) = {} BY <3>3, <2>5, <1>2
    <3> QED BY <3>4 DEF OneMarker, MarkerSent, MarkerArrived, MarkerTo, MarkerFrom, Places
  <2> QED BY <2>6, <2>7
<1>26. AllFed'
  <2>1. \A y \in Clients : cl'[y].m # room'.m BY <1>2, <1>5, <1>11, <1>16
  <2> QED BY <2>1 DEF AllFed, Fed
<1>27. Unreset'
  <2> SUFFICES ASSUME plan.resets = 0, NEW d \in Clients
               PROVE  /\ left.resets = 0
                      /\ \A x \in ToSet(inbox'[d]) : x.kind # "marker"
                      /\ \A x \in ToSet(outbox'[d]) : x.kind # "marker"
    BY <1>2 DEF Unreset
  <2>1. /\ left.resets = 0
        /\ \A x \in ToSet(inbox[d]) : x.kind # "marker"
        /\ \A x \in ToSet(outbox[d]) : x.kind # "marker"
    BY <1>1 DEF MeshParts, Unreset
  <2>2. \A x \in ToSet(inbox'[d]) : x.kind # "marker"
    <3>1. CASE d \in M
      <4>1. f[d].kind \in {"welcome", "peer-joined"} BY <1>9, <1>10
      <4> QED BY <4>1, <3>1, <2>1, <1>10, <1>13
    <3>2. CASE d \notin M BY <3>2, <1>11, EmptySet
    <3> QED BY <3>1, <3>2
  <2> QED BY <2>1, <2>2, <1>2
\* What is known of those who were there before, and of c
<1>28. ASSUME NEW d \in Clients, NEW x \in Nat, Newer(d, x), Joined(d) PROVE Newer(d, x)'
  <2>1. d \in M /\ d # c BY <1>2, <1>28 DEF M, Joined
  <2>2. Adding(d, s(d)) BY <2>1, <1>11
  <2>3. \A y \in ToSet(s(d)) : y.kind = "topology" => y.m = room'.m BY <2>1, <1>9, <1>10, <1>11
  <2>4. cl'[d].m = cl[d].m /\ room'.m \in Nat /\ room'.m >= room.m BY <1>2, <1>5, <1>11
  <2> QED BY <2>2, <2>3, <2>4, <1>1, <1>28, NewerGrow
<1>29. ASSUME NEW x \in Nat, x <= room.m PROVE Newer(c, x)'
  <2>1. c \in M BY DEF M
  <2>2. ToSet(inbox'[c]) = {w, t, g} BY <2>1, <1>3, <1>9, <1>13, EmptySet
  <2>3. room'.m > x /\ cl'[c].m = 0 BY <1>2, <1>3, <1>5, <1>11, <1>29
  <2> QED BY <2>2, <2>3, <1>9, <1>10 DEF Newer
<1>30. AllLater'
  <2> SUFFICES ASSUME NEW a \in Clients, NEW d \in Clients,
                      cl'[a].agent.active, d \in cl'[a].peers \ cl'[a].agent.acked, Joined(d)',
                      NEW x, x = cl'[a].agent.m
               PROVE  Newer(d, x)'
    BY DEF AllLater, Later, Newer
  <2>1. d \in cl[a].peers /\ x = cl[a].agent.m /\ x \in Nat BY <1>1, <1>2, Types, FieldTypes
  <2>2. d # c BY <2>1, <1>4 DEF Unknown
  <2>3. Joined(d) BY <2>2, <1>12
  <2>4. Newer(d, x) BY <2>3, <1>1, <1>2 DEF KeyParts, AllLater, Later
  <2> QED BY <2>1, <2>3, <2>4, <1>28
<1>31. Newcomers'
  <2> SUFFICES ASSUME NEW a \in Clients, NEW d \in Clients PROVE Newcomer(a, d)' BY DEF Newcomers
  <2>1. CASE ~Joined(d)' BY <2>1 DEF Newcomer
  <2>2. CASE a \notin M
    <3>1. inbox'[a] = <<>> BY <2>2, <1>11
    <3> QED BY <3>1 DEF Newcomer
  <2>3. CASE a \in M /\ Joined(d)' /\ d # c
    <3>1. Joined(d) /\ Newcomer(a, d) BY <2>3, <1>1, <1>12 DEF KeyParts, Newcomers
    <3>2. JoinMessage(d) \notin ToSet(s(a))
      <4>1. ToSet(s(a)) = {f[a], t, g} BY <2>3, <1>11
      <4>2. JoinMessage(d) # j /\ JoinMessage(d).kind = "peer-joined" BY <2>3 DEF JoinMessage, j
      <4> QED BY <4>1, <4>2, <1>9, <1>10
    <3>3. \A x \in Nat : Newer(d, x) => Newer(d, x)' BY <3>1, <1>28
    <3>4. Adding(a, s(a)) /\ cl'[a].m = cl[a].m BY <2>3, <1>2, <1>11
    <3> QED BY <3>1, <3>2, <3>3, <3>4, <1>1, NewcomerGrow
  <2>4. CASE a \in M /\ d = c
    <3> SUFFICES ASSUME NEW i \in 1..Len(inbox'[a]), inbox'[a][i] = JoinMessage(c), NEW x,
                        x = cl'[a].m \/ \E k \in 1..(i - 1) : inbox'[a][k].kind = "topology" /\ x = inbox'[a][k].m
                 PROVE  Newer(c, x)'
      BY <2>4 DEF Newcomer, Newer, JoinMessage
    <3> DEFINE b == inbox[a]
    <3>1. b \in Seq(ServerMessage) /\ s(a) \in Seq(ServerMessage) /\ inbox'[a] = b \o s(a) BY <2>4, <1>1, <1>11, Types DEF Adding
    <3>2. \A y \in ToSet(b) : y # j BY <1>4, <1>10 DEF Unknown
    <3>3. Len(s(a)) = 3 /\ s(a)[1] = f[a] /\ s(a)[2] = t /\ s(a)[3] = g BY DEF s
    <3>4. Joined(a) \/ b = <<>> BY <2>4, <1>3, <1>11, <1>12 DEF Joined
    <3>5. \A y \in ToSet(b) : y.kind = "topology" => y.m <= room.m /\ y.m \in Nat
      <4>1. CASE b = <<>> BY <4>1, EmptySet
      <4>2. CASE Joined(a)
        <5>1. PICK v \in RoomView : Leads(a, b, v, View(room)) BY <4>2, <1>1 DEF MeshParts, Views
        <5>2. \A y \in ToSet(b) : y.kind = "topology" => y.m <= View(room).m BY <5>1, <3>1, <1>5, LeadsBound
        <5>3. View(room).m = room.m BY DEF View
        <5>4. ToSet(b) \subseteq ServerMessage BY <3>1, ToSetType
        <5>5. \A y \in ServerMessage : y.kind = "topology" => y.m \in Nat BY DEF ServerMessage
        <5> QED BY <5>2, <5>3, <5>4, <5>5
      <4> QED BY <3>4, <4>1, <4>2
    <3>6. JoinMessage(c) = j BY DEF j
    <3> HIDE DEF b
    <3>7. i = Len(b) + 1
      <4>1. i \in 1..Len(b) \/ i \in (Len(b) + 1)..(Len(b) + 3)
        <5>1. Len(inbox'[a]) = Len(b) + Len(s(a)) /\ Len(b) \in Nat BY <3>1, ConcatFacts
        <5>2. i \in 1..(Len(b) + 3) BY <5>1, <3>3
        <5> QED BY <5>1, <5>2
      <4>2. CASE i \in 1..Len(b)
        <5>1. b[i] = j BY <4>2, <3>1, <3>6, ConcatFacts
        <5> QED BY <5>1, <4>2, <3>1, <3>2 DEF ToSet
      <4>3. CASE i \in (Len(b) + 1)..(Len(b) + 3)
        <5>1. i - Len(b) \in 1..3 /\ s(a)[i - Len(b)] = j BY <4>3, <3>1, <3>3, <3>6, ConcatFacts
        <5>2. t # j /\ g # j BY <1>10
        <5>3. i - Len(b) = 1 BY <5>1, <5>2, <3>3
        <5> QED BY <5>3, <3>1
      <4> QED BY <4>1, <4>2, <4>3
    <3>8. x \in Nat /\ x <= room.m
      <4>1. CASE x = cl'[a].m BY <4>1, <1>2, <1>16
      <4>2. CASE \E k \in 1..(i - 1) : inbox'[a][k].kind = "topology" /\ x = inbox'[a][k].m
        <5>1. PICK k \in 1..(i - 1) : inbox'[a][k].kind = "topology" /\ x = inbox'[a][k].m BY <4>2
        <5>2. k \in 1..Len(b) BY <5>1, <3>1, <3>7
        <5>3. inbox'[a][k] = b[k] /\ b[k] \in ToSet(b) BY <5>2, <3>1, ConcatFacts DEF ToSet
        <5> QED BY <5>1, <5>3, <3>5
      <4> QED BY <4>1, <4>2
    <3> QED BY <3>8, <1>29
  <2> QED BY <2>1, <2>2, <2>3, <2>4
<1>32. MeshParts'
  BY <1>17, <1>18, <1>19, <1>20, <1>22, <1>23, <1>24, <1>25, <1>26, <1>27 DEF MeshParts
<1>33. KeyParts' BY <1>18, <1>30, <1>31 DEF KeyParts
<1> QED BY <1>32, <1>33, Parts, PTL

\* A client that leaves forgets everything but the overlay keys it knew and that it has been there.
LEMMA Gone ==
  ASSUME NEW c \in Clients, NEW g \in [Clients -> Nat]
  PROVE  LET q == [Fresh EXCEPT !.pc[c] = 1, !.ring = g] IN
         /\ q \in Client /\ Blank(q) /\ HasKey(q) /\ AgentKey(q)
         /\ q.ring = g /\ q.pc[c] = 1 /\ q.m = 0 /\ q.agent = NoAgentKey /\ q.rcv = [d \in Clients |-> {}]
<1> DEFINE q == [Fresh EXCEPT !.pc[c] = 1, !.ring = g]
<1>1. /\ q.peers = {} /\ q.m = 0 /\ q.e = 0 /\ q.stable = FALSE /\ q.applied = {} /\ q.key = 0 /\ q.making = FALSE
      /\ q.ring = g /\ q.imports = None /\ q.out = [d \in Clients |-> NoOut] /\ q.snd = None
      /\ q.rcv = [d \in Clients |-> {}] /\ q.agent = NoAgentKey /\ q.pc = [None EXCEPT ![c] = 1]
      /\ q.r = 0 /\ q.age = 0 /\ q.routed = FALSE
  BY DEF Fresh
<1>2. None \in [Clients -> Nat] /\ [d \in Clients |-> NoOut] \in [Clients -> [n : Nat, m : Nat]]
      /\ [d \in Clients |-> {}] \in [Clients -> SUBSET Nat]
  BY DEF None, NoOut
<1>3. q.pc \in [Clients -> Nat] /\ q.pc[c] = 1
  <2> DEFINE h == [None EXCEPT ![c] = 1]
  <2>1. h \in [Clients -> Nat] /\ h[c] = 1 BY <1>2
  <2> HIDE DEF h
  <2>2. q.pc = h BY <1>1 DEF h
  <2> HIDE DEF q
  <2> QED BY <2>1, <2>2
<1>4. NoAgentKey \in [n : Nat, m : Nat, e : Nat, acked : SUBSET Clients, told : SUBSET Clients, active : BOOLEAN]
  BY DEF NoAgentKey
<1>5. Fresh \in Client
  <2>1. {} \in SUBSET Clients /\ FALSE \in BOOLEAN /\ 0 \in Nat OBVIOUS
  <2> QED BY <2>1, <1>2, <1>4 DEF Fresh, Client
<1>6. q \in Client
  <2> DEFINE h == [Fresh EXCEPT !.pc[c] = 1]
  <2>1. h \in Client
    <3>1. Fresh.pc \in [Clients -> Nat] BY <1>5 DEF Client
    <3>2. [Fresh.pc EXCEPT ![c] = 1] \in [Clients -> Nat] BY <3>1
    <3> QED BY <1>5, <3>2 DEF Client
  <2>2. q = [h EXCEPT !.ring = g] OBVIOUS
  <2> HIDE DEF h, q
  <2> QED BY <2>1, <2>2 DEF Client
<1> HIDE DEF q
<1>7. Blank(q) /\ HasKey(q) BY <1>1 DEF Blank, HasKey
<1>8. AgentKey(q) BY <1>1 DEF AgentKey, NoAgentKey
<1> QED BY <1>1, <1>3, <1>6, <1>7, <1>8 DEF q

\* Who leaves takes its keys along: the others hear of it, then of the topology without it.
LEMMA LeaveStep ==
  ASSUME IInv, NEW c \in Clients, Leave(c)
  PROVE  IInv'
<1> DEFINE M == room.members \ {c}
           j == LeftMessage(c)
           f == [d \in Clients |-> j]
           q == [Fresh EXCEPT !.pc[c] = 1, !.ring = cl[c].ring]
           t == Topology(room')
           g == AgentState(room')
           S(d) == {f[d], t, g}
           s(d) == <<f[d], t, g>>
<1>1. MeshParts /\ KeyParts /\ TypeOK BY Parts DEF MeshParts
<1>2. Joined(c) /\ room' = Changed(M) /\ cl' = [cl EXCEPT ![c] = q] /\ outbox' = [outbox EXCEPT ![c] = <<>>]
      /\ left' = left /\ plan' = plan
  BY DEF Leave
<1>3. link' = [a \in Clients |-> [b \in Clients |-> IF c \in {a, b} THEN <<>> ELSE link[a][b]]] BY DEF Leave
<1>4. /\ q \in Client /\ Blank(q) /\ HasKey(q) /\ AgentKey(q)
      /\ q.ring = cl[c].ring /\ q.pc[c] = 1 /\ q.m = 0 /\ q.agent = NoAgentKey /\ q.rcv = [d \in Clients |-> {}]
  <2>1. cl[c].ring \in [Clients -> Nat] BY <1>1, Types, FieldTypes
  <2> QED BY <2>1, Gone
<1>5. room.members \in SUBSET Clients /\ room.m \in Nat /\ room.r \in Nat /\ View(room) \in RoomView /\ c \in room.members
  BY <1>1, <1>2 DEF TypeOK, View, RoomView, Joined
<1>6. M \in SUBSET Clients BY <1>5
<1>7. \A d \in Clients : f[d] \in ServerMessage
  <2>1. j \in ServerMessage BY DEF ServerMessage, LeftMessage
  <2> QED BY <2>1
<1>8. inbox' = [d \in Clients |-> IF d \in room'.members THEN inbox[d] \o <<f[d], t, g>> ELSE <<>>]
  BY DEF Leave, Broadcast, LeftMessage
<1>9. \A d \in Clients : f[d] = j OBVIOUS
<1>10. j.kind = "peer-left" /\ j.from = c /\ t.kind = "topology" /\ t.m = room'.m /\ g.kind = "agent-state"
  BY DEF LeftMessage, Topology, AgentState
<1>11. \A d \in Clients : cl'[d] = IF d = c THEN q ELSE cl[d] BY <1>1, <1>2 DEF TypeOK
<1> HIDE DEF M, f, j, q
<1>12. /\ room' \in [members : SUBSET Clients, m : Nat, r : Nat, e : Nat]
       /\ room'.members = M /\ room'.m = room.m + 1 /\ room'.r = room.r + 1 /\ View(room') \in RoomView
       /\ t \in ServerMessage /\ g \in ServerMessage
       /\ inbox' \in [Clients -> Seq(ServerMessage)]
       /\ (\A d \in Clients \ M : inbox'[d] = <<>>)
       /\ \A d \in M : Adding(d, s(d)) /\ ToSet(s(d)) = S(d)
  BY <1>1, <1>2, <1>6, <1>7, <1>8, ChangeFacts, ZenonT(60)
<1> HIDE DEF t, g, s
<1>13. \A d \in Clients : Joined(d)' <=> Joined(d) /\ d # c BY <1>12 DEF Joined, M
<1>14. \A d \in M : ToSet(inbox'[d]) = ToSet(inbox[d]) \cup S(d) BY <1>1, <1>6, <1>12, AddingFacts
<1>15. \A d \in Clients : ~Ever(d)' => ~Ever(d) /\ d # c
  <2> SUFFICES ASSUME NEW d \in Clients, ~Ever(d)' PROVE ~Ever(d) /\ d # c OBVIOUS
  <2>1. ~Joined(d)' /\ ~(cl'[d].pc[d] = 1) BY DEF Ever
  <2>2. d # c BY <2>1, <1>11, <1>4
  <2> QED BY <2>1, <2>2, <1>11, <1>13 DEF Ever
<1>16. inbox'[c] = <<>> /\ outbox'[c] = <<>> /\ (\A d \in Clients : link'[c][d] = <<>> /\ link'[d][c] = <<>>)
  <2>1. outbox'[c] = <<>> BY <1>1, <1>2 DEF TypeOK
  <2>2. inbox'[c] = <<>> BY <1>12 DEF M
  <2>3. \A d \in Clients : link'[c][d] = <<>> /\ link'[d][c] = <<>> BY <1>3
  <2> QED BY <2>1, <2>2, <2>3
<1>17. \A d \in Clients : d # c => cl'[d] = cl[d] /\ outbox'[d] = outbox[d] /\ \A e \in Clients \ {c} : link'[d][e] = link[d][e]
  <2>1. \A d \in Clients : d # c => outbox'[d] = outbox[d] BY <1>1, <1>2 DEF TypeOK
  <2>2. \A d \in Clients : d # c => \A e \in Clients \ {c} : link'[d][e] = link[d][e] BY <1>3
  <2> QED BY <2>1, <2>2, <1>11
<1>18. cl'[c] = q BY <1>11
<1>19. TypeOK'
  <2>1. cl' \in [Clients -> Client] BY <1>1, <1>2, <1>4 DEF TypeOK
  <2>2. outbox' \in [Clients -> Seq(ClientMessage)] BY <1>1, <1>2 DEF TypeOK
  <2>3. link' \in [Clients -> [Clients -> Seq(Envelope)]]
    <3>1. \A a, b \in Clients : link[a][b] \in Seq(Envelope) BY <1>1 DEF TypeOK
    <3>2. <<>> \in Seq(Envelope) OBVIOUS
    <3> QED BY <3>1, <3>2, <1>3
  <2>4. left' \in [routes : Nat, resets : Nat] /\ plan' \in Plans BY <1>1, <1>2 DEF TypeOK
  <2> QED BY <2>1, <2>2, <2>3, <2>4, <1>12 DEF TypeOK
<1>20. Few'
  <2> SUFFICES ASSUME NEW a \in Clients, NEW d \in Clients PROVE IsFiniteSet(cl'[a].rcv[d]) BY DEF Few
  <2>1. CASE a = c
    <3>1. cl'[a].rcv[d] = {} BY <2>1, <1>4, <1>18
    <3> QED BY <3>1, FS_EmptySet
  <2>2. CASE a # c BY <2>2, <1>1, <1>17 DEF MeshParts, Few
  <2> QED BY <2>1, <2>2
<1>21. Ready'
  <2> SUFFICES ASSUME NEW a \in Clients PROVE HasKey(cl'[a]) BY DEF Ready, HasKey
  <2>1. CASE a = c BY <2>1, <1>4, <1>18
  <2>2. CASE a # c BY <2>2, <1>1, <1>17 DEF MeshParts, Ready
  <2> QED BY <2>1, <2>2
<1>22. AgentKeys'
  <2> SUFFICES ASSUME NEW a \in Clients PROVE AgentKey(cl'[a]) BY DEF AgentKeys, AgentKey
  <2>1. CASE a = c BY <2>1, <1>4, <1>18
  <2>2. CASE a # c BY <2>2, <1>1, <1>17 DEF KeyParts, AgentKeys
  <2> QED BY <2>1, <2>2
<1>23. Packets'
  <2> SUFFICES ASSUME NEW a \in Clients, NEW d \in Clients PROVE PacketsOfKey(cl'[a].agent, ToSet(link'[a][d]))
    BY DEF Packets, PacketsOfKey
  <2>1. CASE a = c \/ d = c
    <3>1. ToSet(link'[a][d]) = {} BY <2>1, <1>16, EmptySet
    <3> QED BY <3>1 DEF PacketsOfKey
  <2>2. CASE a # c /\ d # c BY <2>2, <1>1, <1>17 DEF KeyParts, Packets
  <2> QED BY <2>1, <2>2
<1>24. AllHeld'
  <2> SUFFICES ASSUME NEW a \in Clients, NEW d \in Clients,
                      Vouched(cl'[a].agent, d, ToSet(link'[d][a])), Joined(d)'
               PROVE  HoldsKey(cl'[a].agent, cl'[d], cl'[d].rcv[a])
    BY <1>2 DEF AllHeld, Held, HoldsKey, Vouched
  <2>1. a # c
    <3>1. ~Vouched(NoAgentKey, d, ToSet(link'[d][a])) BY DEF Vouched, NoAgentKey
    <3> QED BY <3>1, <1>4, <1>18
  <2>2. d # c /\ Joined(d) BY <1>13
  <2>3. cl'[a] = cl[a] /\ cl'[d] = cl[d] /\ link'[d][a] = link[d][a] BY <2>1, <2>2, <1>17
  <2> QED BY <2>2, <2>3, <1>1 DEF KeyParts, AllHeld, Held
<1>25. Absent'
  <2> SUFFICES ASSUME NEW d \in Clients, ~Joined(d)'
               PROVE  inbox'[d] = <<>> /\ outbox'[d] = <<>> /\ Blank(cl'[d]) /\ \A e \in Clients : link'[d][e] = <<>>
    BY DEF Absent, Blank
  <2>1. CASE d = c BY <2>1, <1>4, <1>16, <1>18
  <2>2. CASE d # c
    <3>1. ~Joined(d) /\ inbox'[d] = <<>> BY <2>2, <1>12, <1>13 DEF Joined
    <3>2. outbox'[d] = <<>> /\ Blank(cl'[d]) /\ \A e \in Clients : link[d][e] = <<>>
      BY <3>1, <2>2, <1>1, <1>17 DEF MeshParts, Absent
    <3>3. \A e \in Clients : link'[d][e] = <<>> BY <3>2, <2>2, <1>16, <1>17
    <3> QED BY <3>1, <3>2, <3>3
  <2> QED BY <2>1, <2>2
<1>26. Known'
  <2> SUFFICES ASSUME NEW e \in Clients, NEW d \in Clients, ~Ever(e)' PROVE Unknown(e, d)' BY DEF Known
  <2>1. ~Ever(e) /\ e # c BY <1>15
  <2>2. Unknown(e, d) BY <2>1, <1>1 DEF MeshParts, Known
  <2>3. e \notin cl'[d].peers /\ e \notin cl'[d].agent.acked /\ \A x \in ToSet(outbox'[d]) : x.kind = "marker" => x.to # e
    <3>1. CASE d = c
      <4>1. cl'[d].peers = {} /\ cl'[d].agent.acked = {} BY <3>1, <1>4, <1>18 DEF Blank, NoAgentKey
      <4>2. ToSet(outbox'[d]) = {} BY <3>1, <1>16, EmptySet
      <4> QED BY <4>1, <4>2
    <3>2. CASE d # c BY <3>2, <2>2, <1>17 DEF Unknown
    <3> QED BY <3>1, <3>2
  <2>4. ASSUME NEW x \in ToSet(inbox'[d])
        PROVE  (x.kind \in {"peer-joined", "marker"} => x.from # e) /\ (x.kind = "welcome" => e \notin x.peers)
    <3>1. d \in M
      <4>1. ToSet(<<>>) = {} BY EmptySet
      <4> QED BY <4>1, <2>4, <1>12
    <3>2. CASE x \in ToSet(inbox[d]) BY <3>2, <2>2 DEF Unknown
    <3>3. CASE x \in S(d)
      <4>1. x = j \/ x = t \/ x = g BY <3>3, <1>9
      <4> QED BY <4>1, <1>10
    <3> QED BY <3>1, <3>2, <3>3, <2>4, <1>14
  <2> QED BY <2>3, <2>4 DEF Unknown
<1>27. Views'
  <2> SUFFICES ASSUME NEW d \in Clients, Joined(d)'
               PROVE  \E a \in RoomView : Seen(d, cl'[d], a) /\ Leads(d, inbox'[d], a, View(room'))
    BY DEF Views, Seen, Leads, Follows, Moves, Changes, Start, View, RoomView
  <2>1. d \in M /\ d # c /\ Joined(d) BY <1>12, <1>13 DEF Joined
  <2> DEFINE z == Awaited(room')
             y == View(room)
  <2>2. z.members = M /\ z.m = room.m + 1 /\ z.r = room.r + 1 /\ z.due BY <1>12 DEF Awaited
  <2>3. PICK a \in RoomView : Seen(d, cl[d], a) /\ Leads(d, inbox[d], a, y) BY <2>1, <1>1 DEF MeshParts, Views
  <2>4. y.members = room.members /\ y.m = room.m /\ y.r = room.r /\ ~y.due /\ y \in RoomView BY <1>5 DEF View
  <2>5. inbox[d] \in Seq(ServerMessage) /\ inbox'[d] = inbox[d] \o s(d) /\ f[d] \in ServerMessage
    BY <2>1, <1>1, <1>7, <1>12, Types DEF Adding
  <2> HIDE DEF z, y
  <2>6. Changes(y, z, y.members \ {j.from}) BY <2>2, <2>4, <1>5, <1>10 DEF Changes, M
  <2>7. Moves(d, f[d], y, z) BY <2>6, <2>4, <2>1, <1>5, <1>9, <1>10 DEF Moves
  <2>8. y.m <= room'.m BY <2>4, <1>5, <1>12
  <2> DEFINE rm == room'
  <2>9. /\ View(rm) \in RoomView /\ Moves(d, f[d], y, Awaited(rm)) /\ y.m <= rm.m
        /\ Topology(rm) \in ServerMessage /\ AgentState(rm) \in ServerMessage /\ s(d) = <<f[d], Topology(rm), AgentState(rm)>>
    BY <1>12, <2>7, <2>8 DEF t, g, s, z
  <2> HIDE DEF rm
  <2>10. Leads(d, inbox[d] \o s(d), a, View(rm)) BY <2>3, <2>4, <2>5, <2>9, LeadsChange
  <2>11. Leads(d, inbox'[d], a, View(room')) BY <2>5, <2>10 DEF rm
  <2>12. Seen(d, cl'[d], a) BY <2>1, <2>3, <1>17
  <2> QED BY <2>11, <2>12
<1>28. Started' BY <1>5, <1>12 DEF Started
<1>29. Shut'
  <2> SUFFICES ASSUME NEW x \in Clients, NEW d \in Clients, Joined(x)' PROVE ShutOut(x, d)' BY DEF Shut, ShutOut
  <2>1. x # c /\ x \in M /\ Joined(x) BY <1>12, <1>13 DEF Joined
  <2>2. ToSet(inbox'[x]) = ToSet(inbox[x]) \cup S(x) BY <2>1, <1>14
  <2>3. CASE d = c
    <3>1. LeftMessage(d) \in ToSet(inbox'[x]) BY <2>2, <2>3, <1>9 DEF j
    <3> QED BY <3>1 DEF ShutOut, LeftMessage
  <2>4. CASE d # c
    <3>1. ShutOut(x, d) BY <1>1 DEF MeshParts, Shut
    <3>2. cl'[x] = cl[x] /\ cl'[d] = cl[d] BY <2>1, <2>4, <1>17
    <3> QED BY <3>1, <3>2, <2>1, <2>2, <2>4, <1>13 DEF ShutOut, LeftMessage
  <2> QED BY <2>3, <2>4
<1>30. Marked'
  <2> SUFFICES ASSUME NEW x \in Clients, NEW y \in Clients, Members(x, y)' PROVE OneMarker(x, y)' BY DEF Marked
  <2>1. Joined(x)' /\ Joined(y)' /\ x # y BY DEF Members
  <2>2. y \in M /\ x # c /\ y # c /\ Members(x, y) BY <2>1, <1>12, <1>13 DEF Joined, Members
  <2>3. inbox[y] \in Seq(ServerMessage) BY <1>1, Types
  <2>4. MarkerFrom(x) \notin ToSet(s(y)) BY <2>2, <1>9, <1>10, <1>12 DEF MarkerFrom
  <2>5. Places(inbox'[y], MarkerFrom(x)) = Places(inbox[y], MarkerFrom(x))
    <3>1. s(y) \in Seq(ServerMessage) /\ inbox'[y] = inbox[y] \o s(y) BY <2>2, <1>12 DEF Adding
    <3> QED BY <3>1, <2>3, <2>4, PlacesConcat
  <2>6. OneMarker(x, y) BY <2>2, <1>1 DEF MeshParts, Marked
  <2>7. cl'[x] = cl[x] /\ cl'[y] = cl[y] /\ outbox'[x] = outbox[x] BY <2>2, <1>17
  <2> QED BY <2>5, <2>6, <2>7 DEF OneMarker, MarkerSent, MarkerArrived, MarkerTo, MarkerFrom, Places
<1>31. \A d \in Clients : cl'[d].m <= room.m /\ cl'[d].m \in Nat
  <2> SUFFICES ASSUME NEW d \in Clients PROVE cl'[d].m <= room.m /\ cl'[d].m \in Nat OBVIOUS
  <2>1. CASE d = c BY <2>1, <1>4, <1>5, <1>18
  <2>2. CASE d # c
    <3>1. cl[d].m <= room.m /\ cl[d].m \in Nat BY <1>1, EpochBound, Types, FieldTypes
    <3> QED BY <3>1, <2>2, <1>17
  <2> QED BY <2>1, <2>2
<1>32. AllFed'
  <2>1. \A y \in Clients : cl'[y].m # room'.m BY <1>5, <1>12, <1>31
  <2> QED BY <2>1 DEF AllFed, Fed
<1>33. Unreset'
  <2> SUFFICES ASSUME plan.resets = 0, NEW d \in Clients
               PROVE  /\ left.resets = 0
                      /\ \A x \in ToSet(inbox'[d]) : x.kind # "marker"
                      /\ \A x \in ToSet(outbox'[d]) : x.kind # "marker"
    BY <1>2 DEF Unreset
  <2>1. /\ left.resets = 0
        /\ \A x \in ToSet(inbox[d]) : x.kind # "marker"
        /\ \A x \in ToSet(outbox[d]) : x.kind # "marker"
    BY <1>1 DEF MeshParts, Unreset
  <2>2. \A x \in ToSet(inbox'[d]) : x.kind # "marker"
    <3>1. CASE d \in M BY <3>1, <2>1, <1>9, <1>10, <1>14
    <3>2. CASE d \notin M BY <3>2, <1>12, EmptySet
    <3> QED BY <3>1, <3>2
  <2>3. \A x \in ToSet(outbox'[d]) : x.kind # "marker"
    <3>1. CASE d = c BY <3>1, <1>16, EmptySet
    <3>2. CASE d # c BY <3>2, <2>1, <1>17
    <3> QED BY <3>1, <3>2
  <2> QED BY <2>1, <2>2, <2>3
\* What is known of those who stay
<1>34. ASSUME NEW d \in Clients, NEW x \in Nat, Newer(d, x), Joined(d), d # c PROVE Newer(d, x)'
  <2>1. d \in M BY <1>34 DEF M, Joined
  <2>2. Adding(d, s(d)) BY <2>1, <1>12
  <2>3. \A y \in ToSet(s(d)) : y.kind = "topology" => y.m = room'.m BY <2>1, <1>9, <1>10, <1>12
  <2>4. cl'[d].m = cl[d].m /\ room'.m \in Nat /\ room'.m >= room.m BY <1>5, <1>12, <1>17, <1>34
  <2> QED BY <2>2, <2>3, <2>4, <1>1, <1>34, NewerGrow
<1>35. AllLater'
  <2> SUFFICES ASSUME NEW a \in Clients, NEW d \in Clients,
                      cl'[a].agent.active, d \in cl'[a].peers \ cl'[a].agent.acked, Joined(d)',
                      NEW x, x = cl'[a].agent.m
               PROVE  Newer(d, x)'
    BY DEF AllLater, Later, Newer
  <2>1. a # c BY <1>4, <1>18 DEF NoAgentKey
  <2>2. cl'[a] = cl[a] BY <2>1, <1>17
  <2>3. x \in Nat BY <2>2, <1>1, Types, FieldTypes
  <2>4. Joined(d) /\ d # c BY <1>13
  <2>5. Newer(d, x) BY <2>2, <2>4, <1>1 DEF KeyParts, AllLater, Later
  <2> QED BY <2>3, <2>4, <2>5, <1>34
<1>36. Newcomers'
  <2> SUFFICES ASSUME NEW a \in Clients, NEW d \in Clients PROVE Newcomer(a, d)' BY DEF Newcomers
  <2>1. CASE ~Joined(d)' BY <2>1 DEF Newcomer
  <2>2. CASE a \notin M
    <3>1. inbox'[a] = <<>> BY <2>2, <1>12
    <3> QED BY <3>1 DEF Newcomer
  <2>3. CASE a \in M /\ Joined(d)'
    <3>1. Joined(d) /\ d # c /\ Newcomer(a, d) /\ a # c BY <2>3, <1>1, <1>13 DEF KeyParts, Newcomers, M
    <3>2. JoinMessage(d) \notin ToSet(s(a))
      <4>1. ToSet(s(a)) = {f[a], t, g} BY <2>3, <1>12
      <4>2. JoinMessage(d).kind = "peer-joined" BY DEF JoinMessage
      <4> QED BY <4>1, <4>2, <1>9, <1>10
    <3>3. \A x \in Nat : Newer(d, x) => Newer(d, x)' BY <3>1, <1>34
    <3>4. Adding(a, s(a)) /\ cl'[a].m = cl[a].m BY <3>1, <2>3, <1>12, <1>17
    <3> QED BY <3>1, <3>2, <3>3, <3>4, <1>1, NewcomerGrow
  <2> QED BY <2>1, <2>2, <2>3
<1>37. MeshParts'
  BY <1>19, <1>20, <1>21, <1>25, <1>26, <1>27, <1>28, <1>29, <1>30, <1>32, <1>33 DEF MeshParts
<1>38. KeyParts' BY <1>22, <1>23, <1>24, <1>35, <1>36 DEF KeyParts
<1> QED BY <1>37, <1>38, Parts, PTL

-----------------------------------------------------------------------------
(* The invariant and what follows from it *)

\* Nobody has been in the room.
LEMMA InitIInv ==
  ASSUME Init
  PROVE  IInv
<1>1. /\ plan \in Plans /\ room = [members |-> {}, m |-> 0, r |-> 0, e |-> 0]
      /\ inbox = [c \in Clients |-> <<>>] /\ outbox = [c \in Clients |-> <<>>]
      /\ cl = [c \in Clients |-> Fresh] /\ link = [c \in Clients |-> [d \in Clients |-> <<>>]]
      /\ left = [routes |-> plan.routes, resets |-> plan.resets]
  BY DEF Init
<1>2. ASSUME NEW c \in Clients
      PROVE  /\ cl[c] \in Client /\ Blank(cl[c]) /\ HasKey(cl[c]) /\ AgentKey(cl[c]) /\ cl[c].key = 0
             /\ cl[c].agent = NoAgentKey /\ cl[c].pc[c] = 0 /\ ~Joined(c)
             /\ \A d \in Clients : cl[c].rcv[d] = {}
  <2>1. cl[c] = Fresh BY <1>1
  <2>2. None \in [Clients -> Nat] /\ [d \in Clients |-> NoOut] \in [Clients -> [n : Nat, m : Nat]]
        /\ [d \in Clients |-> {}] \in [Clients -> SUBSET Nat] /\ None[c] = 0
    BY DEF None, NoOut
  <2>3. NoAgentKey \in [n : Nat, m : Nat, e : Nat, acked : SUBSET Clients, told : SUBSET Clients, active : BOOLEAN]
    BY DEF NoAgentKey
  <2>4. Fresh \in Client
    <3>1. {} \in SUBSET Clients /\ FALSE \in BOOLEAN /\ 0 \in Nat OBVIOUS
    <3> QED BY <3>1, <2>2, <2>3 DEF Fresh, Client
  <2>5. Blank(Fresh) /\ HasKey(Fresh) /\ AgentKey(Fresh) BY DEF Blank, HasKey, AgentKey, Fresh, NoAgentKey
  <2>6. Fresh.key = 0 /\ Fresh.agent = NoAgentKey /\ Fresh.pc[c] = 0 /\ \A d \in Clients : Fresh.rcv[d] = {}
    BY <2>2 DEF Fresh
  <2>7. ~Joined(c) BY <1>1 DEF Joined
  <2> QED BY <2>1, <2>4, <2>5, <2>6, <2>7
<1>3. ASSUME NEW c \in Clients, NEW d \in Clients
      PROVE  /\ inbox[c] = <<>> /\ outbox[c] = <<>> /\ link[c][d] = <<>>
             /\ ToSet(inbox[c]) = {} /\ ToSet(outbox[c]) = {} /\ ToSet(link[c][d]) = {} /\ Len(inbox[c]) = 0
  BY <1>1, EmptySet
<1>4. TypeOK
  <2>1. room \in [members : SUBSET Clients, m : Nat, r : Nat, e : Nat] BY <1>1
  <2>2. inbox \in [Clients -> Seq(ServerMessage)] /\ outbox \in [Clients -> Seq(ClientMessage)] BY <1>1
  <2>3. link \in [Clients -> [Clients -> Seq(Envelope)]] BY <1>1
  <2>4. cl \in [Clients -> Client] BY <1>1, <1>2
  <2>5. left \in [routes : Nat, resets : Nat] BY <1>1, PlanAssumption
  <2> QED BY <1>1, <2>1, <2>2, <2>3, <2>4, <2>5 DEF TypeOK
<1>5. Few BY <1>2, FS_EmptySet DEF Few
<1>6. Absent BY <1>2, <1>3 DEF Absent
<1>7. Known
  <2> SUFFICES ASSUME NEW c \in Clients, NEW d \in Clients PROVE Unknown(c, d) BY DEF Known
  <2>1. cl[d].peers = {} /\ cl[d].agent.acked = {} BY <1>2 DEF Blank, NoAgentKey
  <2> QED BY <2>1, <1>3 DEF Unknown
<1>8. Views /\ Started BY <1>1, <1>2 DEF Views, Started
<1>9. Ready BY <1>2 DEF Ready
<1>10. Shut BY <1>2 DEF Shut, ShutOut
<1>11. Marked BY <1>2 DEF Marked, Members
<1>12. AllFed BY <1>2 DEF AllFed, Fed, Members
<1>13. Unreset BY <1>1, <1>3 DEF Unreset
<1>14. AgentKeys BY <1>2 DEF AgentKeys
<1>15. Packets BY <1>3 DEF Packets, PacketsOfKey
<1>16. AllHeld /\ AllLater BY <1>2 DEF AllHeld, Held, AllLater, Later
<1>17. Newcomers BY <1>2 DEF Newcomers, Newcomer
<1> QED
  BY <1>4, <1>5, <1>6, <1>7, <1>8, <1>9, <1>10, <1>11, <1>12, <1>13, <1>14, <1>15, <1>16, <1>17 DEF IInv

\* The next message of the server, whatever it is.
LEMMA HandleStep ==
  ASSUME IInv, NEW c \in Clients, Handle(c)
  PROVE  IInv'
<1> DEFINE m == Head(inbox[c])
<1>1. Pops(c) /\ room' = room /\ left' = left /\ plan' = plan BY DEF Handle, Pops
<1>2. CASE m.kind = "welcome" /\ Welcome(c, m) BY <1>1, <1>2, WelcomeStep
<1>3. CASE m.kind = "peer-joined" /\ PeerJoined(c, m) BY <1>1, <1>3, PeerJoinedStep
<1>4. CASE m.kind = "peer-left" /\ PeerLeft(c, m) BY <1>1, <1>4, PeerLeftStep
<1>5. CASE m.kind = "topology" /\ ApplyTopology(c, m) BY <1>1, <1>5, TopologyStep
<1>6. CASE m.kind = "agent-state" /\ ApplyMediaAgentState(c, m) BY <1>1, <1>6, AgentStateStep
<1>7. CASE m.kind = "overlay-key" /\ AcceptOverlayKey(c, m) BY <1>1, <1>7, OverlayKeyStep
<1>8. CASE m.kind = "marker" /\ Follow(c, m) BY <1>1, <1>8, FollowStep
<1> QED BY <1>2, <1>3, <1>4, <1>5, <1>6, <1>7, <1>8 DEF Handle

\* Nothing happens in this module: the parts are about the variables alone.
LEMMA StutterStep ==
  ASSUME IInv, UNCHANGED vars
  PROVE  IInv'
<1>1. MeshParts /\ KeyParts BY Parts
<1>2. UNCHANGED <<room, inbox, outbox, cl, link, left, plan>> BY DEF vars
<1>3. TypeOK' /\ Few' /\ Started' BY <1>1, <1>2 DEF MeshParts, TypeOK, Few, Started
<1>4. Absent' BY <1>1, <1>2 DEF MeshParts, Absent, Blank, Joined
<1>5. Known' BY <1>1, <1>2 DEF MeshParts, Known, Ever, Joined, Unknown
<1>6. Views'
  <2> SUFFICES ASSUME NEW c \in Clients, Joined(c)'
               PROVE  \E a \in RoomView : Seen(c, cl'[c], a) /\ Leads(c, inbox'[c], a, View(room'))
    BY DEF Views, Seen, Leads, Follows, Moves, Changes, Start, View, RoomView
  <2>1. Joined(c) BY <1>2 DEF Joined
  <2> QED BY <2>1, <1>1, <1>2 DEF MeshParts, Views
<1>7. Ready' /\ Shut' BY <1>1, <1>2 DEF MeshParts, Ready, HasKey, Shut, ShutOut, LeftMessage, Joined
<1>8. Marked'
  <2> SUFFICES ASSUME NEW x \in Clients, NEW y \in Clients, Members(x, y)' PROVE OneMarker(x, y)' BY DEF Marked
  <2>1. Members(x, y) BY <1>2 DEF Members, Joined
  <2>2. OneMarker(x, y) BY <2>1, <1>1 DEF MeshParts, Marked
  <2> QED BY <2>2, <1>2 DEF OneMarker, MarkerSent, MarkerArrived, MarkerTo, MarkerFrom, Places
<1>9. AllFed'
  <2> SUFFICES ASSUME NEW x \in Clients, NEW y \in Clients, (Members(x, y) /\ cl[y].m = room.m /\ cl[y].key # 0)'
               PROVE  (Announced(x, y) \/ Arriving(x, y) \/ Arrived(x, y) \/ Asked(x, y))'
    BY DEF AllFed, Fed
  <2>1. Announced(x, y) \/ Arriving(x, y) \/ Arrived(x, y) \/ Asked(x, y)
    BY <1>1, <1>2 DEF MeshParts, AllFed, Fed, Members, Joined
  <2>2. Announced(x, y) => Announced(x, y)' BY <1>2 DEF Announced, Concerning, KeyOut, MarkerTo, Ends
  <2>3. Arriving(x, y) => Arriving(x, y)'
    BY <1>2 DEF Arriving, Concerning, About, KeyOut, KeyFrom, MarkerTo, MarkerFrom, Ends, Without
  <2>4. Arrived(x, y) => Arrived(x, y)' BY <1>2 DEF Arrived, Concerning, About, KeyOut, KeyFrom, MarkerTo, MarkerFrom, Without
  <2>5. Asked(x, y) => Asked(x, y)' BY <1>2 DEF Asked, MarkerSent, MarkerArrived, MarkerTo, MarkerFrom, Places
  <2> QED BY <2>1, <2>2, <2>3, <2>4, <2>5
<1>10. Unreset' BY <1>1, <1>2 DEF MeshParts, Unreset
<1>11. AgentKeys' /\ Packets' /\ AllHeld' /\ AllLater' /\ Newcomers'
  BY <1>1, <1>2 DEF KeyParts, AgentKeys, AgentKey, Packets, PacketsOfKey, AllHeld, Held, Vouched, HoldsKey, Joined,
     AllLater, Later, Newer, Newcomers, Newcomer, JoinMessage
<1>12. MeshParts' BY <1>3, <1>4, <1>5, <1>6, <1>7, <1>8, <1>9, <1>10 DEF MeshParts
<1>13. KeyParts' BY <1>11 DEF KeyParts
<1> QED BY <1>12, <1>13, Parts, PTL

\* Every step keeps the invariant.
LEMMA NextStep ==
  ASSUME IInv, [Next]_vars
  PROVE  IInv'
<1>1. CASE UNCHANGED vars BY <1>1, StutterStep
<1>2. CASE AgentRouteChanges BY <1>2, AgentRouteChangesStep
<1>3. CASE AgentRenewal BY <1>3, AgentRenewalStep
<1>4. CASE RelayChanges BY <1>4, RelayChangesStep
<1>5. CASE LeaseRenewal BY <1>5, LeaseRenewalStep
<1>6. ASSUME NEW c \in Clients, Join(c) PROVE IInv' BY <1>6, JoinStep
<1>7. ASSUME NEW c \in Clients, Leave(c) PROVE IInv' BY <1>7, LeaveStep
<1>8. ASSUME NEW c \in Clients, Steps(c) PROVE IInv'
  <2>1. CASE Handle(c) BY <2>1, HandleStep
  <2>2. CASE OverlayKeyMade(c) BY <2>2, OverlayKeyMadeStep
  <2>3. CASE Relay(c) BY <2>3, RelayStep
  <2>4. CASE LeaseExpires(c) BY <2>4, LeaseExpiresStep
  <2>5. ASSUME NEW d \in Clients, ImportOverlayKey(c, d) PROVE IInv' BY <2>5, ImportOverlayKeyStep
  <2>6. ASSUME NEW d \in Clients, Receive(c, d) PROVE IInv' BY <2>6, ReceiveStep
  <2> QED BY <1>8, <2>1, <2>2, <2>3, <2>4, <2>5, <2>6 DEF Steps
<1>9. ASSUME NEW c \in Clients, Timers(c) PROVE IInv'
  <2>1. CASE RetryAgentKey(c) BY <2>1, RetryAgentKeyStep
  <2>2. CASE Recovery(c) BY <2>2, RecoveryStep
  <2>3. ASSUME NEW d \in Clients, RetryMediaKey(c, d) PROVE IInv' BY <2>3, RetryMediaKeyStep
  <2> QED BY <1>9, <2>1, <2>2, <2>3 DEF Timers
<1>10. ASSUME NEW c \in Clients, NEW d \in Clients, ResetStarts(c, d) PROVE IInv' BY <1>10, ResetStartsStep
<1> QED BY <1>1, <1>2, <1>3, <1>4, <1>5, <1>6, <1>7, <1>8, <1>9, <1>10 DEF Next

\* The messages under way tell each client the room as it is, the keys under way are those in use, and
\* what a client knows of the shared key of another one is what that one has done with it.
THEOREM MeshInvariant == Spec => []IInv
<1>1. Init => IInv BY InitIInv
<1>2. IInv /\ [Next]_vars => IInv' BY NextStep
<1> QED BY <1>1, <1>2, PTL DEF Spec

\* The server's messages, the clients' states and the packets between them keep their types
\* (peer-mesh.service.ts: the fields of the mesh service and of a media key).
THEOREM MeshTypes == Spec => []TypeOK
<1>1. IInv => TypeOK BY DEF IInv
<1> QED BY <1>1, MeshInvariant, PTL

\* In a room where nothing is under way every member has the present overlay key of every other one:
\* rotateOverlayKey, applyTopology, resetPeerConnection and acceptOverlayKey lose none of them, in
\* whatever order messages, generated keys and imports come.
THEOREM KeysAgree == Spec => []OverlayKeysAgree
<1>1. ASSUME IInv PROVE OverlayKeysAgree
  <2> SUFFICES ASSUME Quiet, NEW c \in Clients, NEW d \in Clients, Members(c, d)
               PROVE  cl[c].ring[d] = cl[d].key /\ cl[d].key # 0
    BY DEF OverlayKeysAgree
  <2>1. MeshParts BY <1>1, Parts
  <2>2. inbox[c] = <<>> /\ outbox[d] = <<>> /\ inbox[d] = <<>> /\ ~cl[d].making /\ cl[c].imports = None
    BY DEF Quiet, Idle
  <2>3. cl[d].m = room.m
    <3>1. Joined(d) BY DEF Members
    <3>2. PICK a \in RoomView : Seen(d, cl[d], a) /\ Leads(d, <<>>, a, View(room)) BY <3>1, <2>1, <2>2 DEF MeshParts, Views
    <3>3. a = View(room)
      <4>1. Len(<<>>) = 0 BY EmptySet
      <4> QED BY <3>2, <4>1 DEF Leads, Follows
    <3> QED BY <3>2, <3>3 DEF Seen, View
  <2>4. room.m > 0 BY <2>1 DEF MeshParts, Started, Members, Joined
  <2>5. cl[d].key # 0 BY <2>1, <2>2, <2>3, <2>4 DEF MeshParts, Ready, HasKey
  <2>6. Fed(c, d) BY <2>1 DEF MeshParts, AllFed
  <2>7. Len(inbox[c]) = 0 /\ Len(outbox[d]) = 0 /\ Len(outbox[c]) = 0 /\ Len(inbox[d]) = 0
    <3>1. outbox[c] = <<>> BY DEF Quiet, Idle
    <3> QED BY <3>1, <2>2, EmptySet
  <2>8. ~Announced(c, d) BY <2>7 DEF Announced, Ends
  <2>9. ~Arriving(c, d) BY <2>7 DEF Arriving, Ends
  <2>10. ~Asked(c, d) BY <2>7 DEF Asked, MarkerSent, MarkerArrived, Places
  <2>11. Arrived(c, d) BY <2>3, <2>5, <2>6, <2>8, <2>9, <2>10 DEF Fed
  <2>12. cl[c].imports[d] = 0 BY <2>2 DEF None
  <2> QED BY <2>5, <2>11, <2>12 DEF Arrived
<1>2. IInv => OverlayKeysAgree BY <1>1
<1> QED BY <1>2, MeshInvariant, PTL

\* A member that has heard of a departure and applied the topology without the departed one uses
\* neither an overlay pair the departed one knows nor a shared key it was told (rotateOverlayKey in
\* applyTopology, clearAllMediaKeys in removePeer).
THEOREM DepartedShutOut == Spec => []DepartedAreShutOut
<1>1. ASSUME IInv PROVE DepartedAreShutOut
  <2> SUFFICES ASSUME NEW c \in Clients, NEW d \in Clients, Joined(c), ~Joined(d), d \notin cl[c].peers \cup cl[c].applied,
                      \A i \in DOMAIN inbox[c] : ~(inbox[c][i].kind = "peer-left" /\ inbox[c][i].from = d)
               PROVE  /\ cl[c].key = 0 \/ cl[c].key # cl[d].ring[c]
                      /\ cl[c].agent.active => d \notin cl[c].agent.told
    BY DEF DepartedAreShutOut
  <2>1. MeshParts /\ KeyParts BY <1>1, Parts
  <2>2. LeftMessage(d) \notin ToSet(inbox[c]) BY DEF LeftMessage, ToSet
  <2>3. cl[c].key = 0 \/ cl[c].key # cl[d].ring[c] BY <2>1, <2>2 DEF MeshParts, Shut, ShutOut
  <2>4. cl[c].agent.told \subseteq cl[c].peers BY <2>1 DEF KeyParts, AgentKeys, AgentKey
  <2> QED BY <2>3, <2>4
<1>2. IInv => DepartedAreShutOut BY <1>1
<1> QED BY <1>2, MeshInvariant, PTL

\* While no connection is rebuilt the shared key is in use only while each settled peer of its
\* membership and route holds it (provisionAgentMediaKey, activateAgentMediaKey): who acknowledged it
\* drops it with a later epoch, and who did not came with one.
THEOREM AgentKeysHeld == Spec => []AgentKeyIsHeld
<1>1. ASSUME IInv PROVE AgentKeyIsHeld
  <2> SUFFICES ASSUME plan.resets = 0, NEW c \in Clients, cl[c].agent.active, NEW d \in cl[c].peers, Joined(d),
                      cl[d].stable, cl[d].m = cl[c].agent.m, cl[d].e = cl[c].agent.e
               PROVE  cl[c].agent.n \in cl[d].rcv[c]
    BY DEF AgentKeyIsHeld
  <2>1. MeshParts /\ KeyParts /\ TypeOK BY <1>1, Parts DEF MeshParts
  <2>2. d \in Clients BY <2>1, Types, FieldTypes
  <2>3. CASE d \in cl[c].agent.acked
    <3>1. Held(c, d) BY <2>1, <2>2 DEF KeyParts, AllHeld
    <3>2. Vouched(cl[c].agent, d, ToSet(link[d][c])) BY <2>3 DEF Vouched
    <3> QED BY <3>1, <3>2 DEF Held, HoldsKey
  <2>4. CASE d \notin cl[c].agent.acked
    <3>1. Newer(d, cl[c].agent.m) BY <2>1, <2>2, <2>4 DEF KeyParts, AllLater, Later
    <3>2. cl[c].agent.m > 0 BY <2>1 DEF KeyParts, AgentKeys, AgentKey
    <3>3. cl[c].agent.m \in Nat BY <2>1, Types, FieldTypes
    <3> QED BY <3>1, <3>2, <3>3 DEF Newer
  <2> QED BY <2>3, <2>4
<1>2. IInv => AgentKeyIsHeld BY <1>1
<1> QED BY <1>2, MeshInvariant, PTL
=============================================================================
