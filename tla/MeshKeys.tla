------------------------------ MODULE MeshKeys ------------------------------
(***************************************************************************)
(* The keys that protect a room's media end to end: the browsers' part     *)
(* (peer-mesh.service.ts with opaque-data-overlay.ts) and the server's     *)
(* membership, route and key messages (server.js) that drive it.           *)
(*                                                                         *)
(* Every client has an overlay key pair, announced through the server.     *)
(* Two clients that hold each other's public keys talk over an encrypted   *)
(* data channel, and over it a publisher hands each peer the key of its    *)
(* media: one per peer for the direct path and one shared by all for the   *)
(* path over a media agent.  A key is used for sending once the receivers  *)
(* have acknowledged it.                                                   *)
(*                                                                         *)
(* A key is a number nobody else uses at the time.  The server's messages  *)
(* to a client arrive in order, as do the packets of a channel; between    *)
(* the two, and between clients, anything may come first.  A client        *)
(* publishes one track or none.  A packet stands for all its chunks.       *)
(* Timers are longer than an exchange: they run out when nothing is under  *)
(* way.  The first members of a plan meet one by one and client by client; *)
(* the plan's changes start in the room they have settled in.              *)
(***************************************************************************)
EXTENDS Integers, Sequences, FiniteSets, SequencesExt

CONSTANTS
  Clients,  \* they join in order
  Plans     \* what may happen, one choice per behaviour

ASSUME ClientAssumption == Clients \subseteq Nat \ {0} /\ IsFiniteSet(Clients)
ASSUME PlanAssumption == \A q \in Plans :
  /\ q.setup \in Nat /\ q.joins \in Nat           \* members that join a settled room, members there are
  /\ q.leaves \subseteq Clients                   \* who may leave
  /\ q.publishers \subseteq Clients               \* who publishes a track
  /\ q.routes \in Nat /\ q.resets \in Nat         \* changes of the agent route alone, connections rebuilt
  /\ q.agents \in BOOLEAN /\ q.relay \in BOOLEAN  \* media agents forward; browsers relay for each other

VARIABLES
  room,    \* the server: members and epochs
  inbox,   \* per client: messages from the server
  outbox,  \* per client: messages to the server
  cl,      \* per client: the mesh service
  link,    \* per pair: packets on the overlay channel or waiting for it
  left,    \* what is left of the plan's budgets
  plan

vars == <<room, inbox, outbox, cl, link, left, plan>>

\* What the server sends, what it is sent, and what a data channel carries
ServerMessage ==
  [kind : {"welcome"}, peers : SUBSET Clients]
  \cup [kind : {"peer-joined", "peer-left", "marker"}, from : Clients]
  \cup [kind : {"topology"}, peers : SUBSET Clients, m : Nat, r : Nat]
  \cup [kind : {"agent-state"}, m : Nat, e : Nat]
  \cup [kind : {"overlay-key"}, from : Clients, k : Nat, m : Nat]
ClientMessage == [kind : {"overlay-key"}, k : Nat, to : {0}] \cup [kind : {"marker"}, k : {0}, to : Clients]
Envelope == [kind : {"media-key", "media-ack", "agent-key", "agent-ack"},
             n : Nat, m : Nat, e : Nat, by : Nat, for : Nat]

\* The mesh service of a client: peers, epochs and the peers of the last topology; the overlay pair,
\* the peers' keys and those being imported; media keys per peer on their way, in use and received;
\* the shared key; how often each connection was rebuilt; the route and its lease
Client ==
  [peers : SUBSET Clients, m : Nat, e : Nat, stable : BOOLEAN, applied : SUBSET Clients,
   key : Nat, making : BOOLEAN, ring : [Clients -> Nat], imports : [Clients -> Nat],
   out : [Clients -> [n : Nat, m : Nat]], snd : [Clients -> Nat], rcv : [Clients -> SUBSET Nat],
   agent : [n : Nat, m : Nat, e : Nat, acked : SUBSET Clients, told : SUBSET Clients, active : BOOLEAN],
   pc : [Clients -> Nat], r : Nat, age : Nat, routed : BOOLEAN]

NoOut == [n |-> 0, m |-> 0]
NoAgentKey == [n |-> 0, m |-> 0, e |-> 0, acked |-> {}, told |-> {}, active |-> FALSE]
None == [p \in Clients |-> 0]

\* A client that has not been welcomed
Fresh ==
  [peers |-> {}, m |-> 0, e |-> 0, stable |-> FALSE, applied |-> {}, key |-> 0, making |-> FALSE,
   ring |-> None, imports |-> None, out |-> [p \in Clients |-> NoOut], snd |-> None,
   rcv |-> [p \in Clients |-> {}], agent |-> NoAgentKey, pc |-> None, r |-> 0, age |-> 0, routed |-> FALSE]

\* The channel is there while both sides have rebuilt it equally often
Up(c, d) == cl[c].pc[d] = cl[d].pc[c]

\* Nothing is left to do for c; nothing is under way
Idle(c) ==
  /\ inbox[c] = <<>> /\ outbox[c] = <<>> /\ ~cl[c].making /\ cl[c].imports = None
  /\ \A d \in Clients : Up(c, d) => link[d][c] = <<>>
Quiet == \A c \in Clients : Idle(c)

\* None of the plan's changes has happened: clients take turns, each with the server's messages first
Calm == room.m <= plan.setup /\ left = [routes |-> plan.routes, resets |-> plan.resets]
Turn(c) == Calm => \A d \in Clients : d < c => Idle(d)
\* The changes start in a room that has settled
Begins == Calm => Quiet /\ room.m = plan.setup

-----------------------------------------------------------------------------
(* Keys *)

\* A number that is not in use
Unused(used) == CHOOSE i \in 1..(Cardinality(used) + 1) : i \notin used

\* Media keys for d that c uses or that are under way
KeysAbout(c, d) ==
  {cl[c].snd[d], cl[c].out[d].n, cl[c].agent.n} \cup {k.n : k \in ToSet(link[c][d]) \cup ToSet(link[d][c])}
NewKey(c, d) == Unused(KeysAbout(c, d) \cup cl[d].rcv[c])
NewAgentKey(c, p) == Unused(UNION {KeysAbout(c, d) \cup cl[d].rcv[c] \cup {p.out[d].n} : d \in Clients})
\* Overlay keys of c that somebody holds or has used
NewOverlayKey(c) ==
  Unused(UNION {{cl[d].ring[c], cl[d].imports[c]}
                \cup {k.k : k \in {x \in ToSet(inbox[d]) : x.kind = "overlay-key" /\ x.from = c}}
                \cup {k.k : k \in ToSet(outbox[c])}
                \cup {k.by : k \in ToSet(link[c][d])} \cup {k.for : k \in ToSet(link[d][c])}
                : d \in Clients})

\* What a data channel carries: to whom the sender encrypts is part of it
Packet(kind, n, c, d, p) ==
  [kind |-> kind, n |-> n, m |-> p.m, e |-> p.e, by |-> p.key, for |-> p.ring[d]]
\* sendOverlayData: nothing is sent without both keys
SendTo(c, d, p, kind, n) == IF p.key = 0 \/ p.ring[d] = 0 THEN <<>> ELSE <<Packet(kind, n, c, d, p)>>

\* provisionMediaKey for the peers D: one key is on its way per epoch
Provisionable(c, p, D) ==
  {d \in D \cap p.peers :
     c \in plan.publishers /\ ~plan.relay /\ p.stable /\ p.m > 0 /\ p.ring[d] # 0 /\ (p.out[d] = NoOut \/ p.out[d].m # p.m)}
Provisioned(c, p, D) ==
  [p EXCEPT !.out = [d \in Clients |-> IF d \in Provisionable(c, p, D) THEN [n |-> NewKey(c, d), m |-> p.m] ELSE @[d]]]

\* provisionAgentMediaKey: once all peers can be told
AgentProvisioned(c, p) ==
  IF /\ c \in plan.publishers /\ plan.agents /\ ~plan.relay /\ p.peers # {} /\ p.stable /\ p.m > 0 /\ p.e > 0
     /\ \A d \in p.peers : p.ring[d] # 0
     /\ ~(p.agent.n # 0 /\ p.agent.m = p.m /\ p.agent.e = p.e)
  THEN [p EXCEPT !.agent = [NoAgentKey EXCEPT !.n = NewAgentKey(c, p), !.m = p.m, !.e = p.e]]
  ELSE p

\* Faulty: the agent key survives a change of the membership.
FaultyClearAllMediaKeys(p) ==
  [p EXCEPT !.out = [d \in Clients |-> NoOut], !.snd = None, !.rcv = [d \in Clients |-> {}]]
ClearAllMediaKeys(p) ==
  [p EXCEPT !.out = [d \in Clients |-> NoOut], !.snd = None, !.rcv = [d \in Clients |-> {}], !.agent = NoAgentKey]

RotateMediaKeys(c, p) == Provisioned(c, [ClearAllMediaKeys(p) EXCEPT !.stable = TRUE], Clients)

\* mediaE2eeState
Pending(p) ==
  \/ \E d \in Clients : p.out[d] # NoOut
  \/ p.agent.n # 0 /\ ~p.agent.active
  \/ \A d \in Clients : p.snd[d] = 0 /\ p.rcv[d] = {}

-----------------------------------------------------------------------------
(* Steps of a client: its new state, and what it sends on the way *)

\* Keys that are new in p go out to their receivers on the channels in links
Send(c, p, links) ==
  link' = [links EXCEPT ![c] = [d \in Clients |-> @[d]
    \o (IF p.out[d] \notin {NoOut, cl[c].out[d]} THEN SendTo(c, d, p, "media-key", p.out[d].n) ELSE <<>>)
    \o (IF p.agent.n \notin {0, cl[c].agent.n} /\ d \in p.peers THEN SendTo(c, d, p, "agent-key", p.agent.n) ELSE <<>>)]]
Told(c, p) ==
  IF p.agent.n \notin {0, cl[c].agent.n} /\ p.key # 0
  THEN [p EXCEPT !.agent.told = {d \in p.peers : p.ring[d] # 0}] ELSE p
Become(c, p, links) == cl' = [cl EXCEPT ![c] = Told(c, p)] /\ Send(c, p, links)

\* Faulty: a new overlay key is not announced.
FaultyAnnouncement(p) == <<>>
Announcement(p) == IF p.key = 0 THEN <<>> ELSE <<[kind |-> "overlay-key", k |-> p.key, to |-> 0]>>
Tell(c, ms) == outbox' = [outbox EXCEPT ![c] = @ \o ms]
Cut(c, d) == [link EXCEPT ![c][d] = <<>>]

\* addPeer; a client that is welcomed adds all at once
AddPeers(p, D) == [p EXCEPT !.peers = @ \cup D, !.stable = @ /\ p.m = 0]
\* removePeer
RemovePeer(p, d) ==
  ClearAllMediaKeys([p EXCEPT !.peers = @ \ {d}, !.stable = FALSE, !.ring[d] = 0, !.imports[d] = 0])

\* rotateOverlayKey: until the new pair is there nothing can be encrypted and all peer keys are gone
RotateOverlayKey(p) == [p EXCEPT !.key = 0, !.making = TRUE, !.ring = None, !.imports = None]

Welcome(c, m) ==
  /\ Become(c, AddPeers(cl[c], m.peers), link)
  /\ UNCHANGED outbox

PeerJoined(c, m) ==
  /\ Become(c, AddPeers(cl[c], {m.from}), link)
  /\ Tell(c, Announcement(cl[c]))

PeerLeft(c, m) ==
  /\ Become(c, RemovePeer(cl[c], m.from), Cut(c, m.from))
  /\ UNCHANGED outbox

\* validateTopologyState, for what can differ
Acceptable(c, m) == m.peers = cl[c].peers \cup {c} /\ m.m >= cl[c].m /\ m.r > cl[c].r

\* A peer of the last topology is gone
Departed(p) == p.applied \ p.peers # {}

\* applyTopology: members that are left rotate all keys, a newcomer is told the present one.  Keys
\* that are provisioned while the overlay key is replaced wait for their timer.
ApplyTopology(c, m) ==
  LET p == [cl[c] EXCEPT !.m = m.m, !.r = m.r, !.stable = TRUE, !.applied = cl[c].peers, !.age = 0, !.routed = TRUE]
  IN \/ /\ ~Acceptable(c, m)
        /\ UNCHANGED <<cl, link, outbox>>
     \/ /\ Acceptable(c, m) /\ m.m # cl[c].m /\ (Departed(cl[c]) \/ cl[c].key = 0)
        /\ cl' = [cl EXCEPT ![c] = RotateOverlayKey(AgentProvisioned(c, RotateMediaKeys(c, p)))]
        /\ UNCHANGED <<link, outbox>>
     \/ /\ Acceptable(c, m) /\ m.m # cl[c].m /\ ~Departed(cl[c]) /\ cl[c].key # 0
        /\ Become(c, AgentProvisioned(c, [p EXCEPT !.imports = None]), link)
        /\ Tell(c, Announcement(p))
     \/ /\ Acceptable(c, m) /\ m.m = cl[c].m
        /\ Become(c, AgentProvisioned(c, p), link)
        /\ UNCHANGED outbox

\* applyMediaAgentState with routeChanged: a new route rotates the media keys.  The state fits
\* the membership and is not older than the route: it comes right after the topology.
ApplyMediaAgentState(c, m) ==
  LET p == [cl[c] EXCEPT !.e = m.e]
  IN /\ UNCHANGED outbox
     /\ \/ /\ m.e = cl[c].e
           /\ Become(c, AgentProvisioned(c, p), link)
        \/ /\ m.e > cl[c].e
           /\ Become(c, AgentProvisioned(c, IF p.stable THEN RotateMediaKeys(c, p) ELSE ClearAllMediaKeys(p)), link)

\* acceptOverlayKey: keys of an older membership are dropped.  None is ahead of the client, whose
\* messages come in order.
CurrentKey(c, m) == m.from \in cl[c].peers /\ m.m = cl[c].m
AcceptOverlayKey(c, m) ==
  /\ cl' = IF CurrentKey(c, m) THEN [cl EXCEPT ![c].imports[m.from] = m.k] ELSE cl
  /\ UNCHANGED <<link, outbox>>

\* applyPeerOverlayKey, once the own pair is there; any change of epoch, pair or peer ends it before
ImportOverlayKey(c, d) ==
  /\ cl[c].imports[d] # 0 /\ ~cl[c].making /\ Turn(c)
  /\ Become(c, Provisioned(c, [cl[c] EXCEPT !.ring[d] = cl[c].imports[d], !.imports[d] = 0], {d}), link)
  /\ UNCHANGED <<room, inbox, outbox, left, plan>>

\* rotateOverlayKey: the pair has been generated
OverlayKeyMade(c) ==
  /\ cl[c].making /\ Turn(c)
  /\ cl' = [cl EXCEPT ![c].making = FALSE, ![c].key = NewOverlayKey(c)]
  /\ Tell(c, <<[kind |-> "overlay-key", k |-> NewOverlayKey(c), to |-> 0]>>)
  /\ UNCHANGED <<room, inbox, link, left, plan>>

\* resetPeerConnection: the peer is removed and added, a stable membership stays stable
ResetPeerConnection(c, d, markers) ==
  LET p == AddPeers(RemovePeer([cl[c] EXCEPT !.pc[d] = @ + 1], d), {d})
  IN /\ Become(c, IF cl[c].stable THEN RotateMediaKeys(c, p) ELSE p,
               IF markers = <<>> THEN Cut(c, d) ELSE [Cut(c, d) EXCEPT ![d][c] = <<>>])
     /\ Tell(c, markers \o Announcement(p))

\* A transport refused its role: the other side is asked to follow
ResetStarts(c, d) ==
  /\ left.resets > 0 /\ d \in cl[c].peers /\ Up(c, d) /\ Begins
  /\ ResetPeerConnection(c, d, <<[kind |-> "marker", k |-> 0, to |-> d]>>)
  /\ left' = [left EXCEPT !.resets = @ - 1]
  /\ UNCHANGED <<room, inbox, plan>>

Follow(c, m) ==
  IF m.from \in cl[c].peers /\ ~Up(c, m.from) THEN ResetPeerConnection(c, m.from, <<>>)
  ELSE UNCHANGED <<cl, link, outbox>>

\* The next message from the server
Handle(c) ==
  LET m == Head(inbox[c]) IN
  /\ inbox[c] # <<>> /\ Turn(c)
  /\ inbox' = [inbox EXCEPT ![c] = Tail(@)]
  /\ \/ m.kind = "welcome" /\ Welcome(c, m)
     \/ m.kind = "peer-joined" /\ PeerJoined(c, m)
     \/ m.kind = "peer-left" /\ PeerLeft(c, m)
     \/ m.kind = "topology" /\ ApplyTopology(c, m)
     \/ m.kind = "agent-state" /\ ApplyMediaAgentState(c, m)
     \/ m.kind = "overlay-key" /\ AcceptOverlayKey(c, m)
     \/ m.kind = "marker" /\ Follow(c, m)
  /\ UNCHANGED <<room, left, plan>>

-----------------------------------------------------------------------------
(* Packets between clients *)

\* OpaqueDataOverlay.receive and what each envelope asks for on top.  An envelope that comes before
\* the topology is settled is kept, but only until that topology, whose epoch is another one.
Opens(d, c, k) ==
  /\ c \in cl[d].peers /\ k.m = cl[d].m
  /\ k.by = cl[d].ring[c] /\ k.for = cl[d].key
  /\ cl[d].stable

\* Keys of the agent path belong to a route as well
Installable(d, c, k) == Opens(d, c, k) /\ (k.kind \in {"agent-key", "agent-ack"} => k.e = cl[d].e)

\* Of the keys a receiver keeps only those the sender may still use matter
Installed(d, c, k) == [cl[d] EXCEPT !.rcv[c] = (@ \cap KeysAbout(c, d)) \cup {k.n}]

Acknowledges(p, c, k) == p.out[c].n = k.n /\ p.out[c].m = k.m
Activated(p, c) == [p EXCEPT !.snd[c] = p.out[c].n, !.out[c] = NoOut]

\* Faulty: the key of the agent path is switched on by the first acknowledgement.
FaultyAgentAcked(p, c) ==
  [p EXCEPT !.agent.acked = @ \cup {c}, !.agent.active = TRUE]
\* The shared key is used once every peer has it
AgentAcked(p, c) ==
  [p EXCEPT !.agent.acked = @ \cup {c}, !.agent.active = @ \/ p.peers \subseteq p.agent.acked \cup {c}]

\* d takes the next packet of c
Receive(d, c) ==
  LET k == Head(link[c][d])
      ack == [kind |-> IF k.kind = "media-key" THEN "media-ack" ELSE "agent-ack", n |-> k.n, m |-> cl[d].m,
              e |-> cl[d].e, by |-> cl[d].key, for |-> cl[d].ring[c]]
      taken == [link EXCEPT ![c][d] = Tail(@)]
  IN
  /\ link[c][d] # <<>> /\ Up(c, d) /\ Turn(d) /\ (Calm => inbox[d] = <<>>)
  /\ \/ /\ ~Installable(d, c, k)
        /\ link' = taken /\ UNCHANGED cl
     \/ /\ Installable(d, c, k) /\ k.kind \in {"media-key", "agent-key"}
        /\ cl' = [cl EXCEPT ![d] = Installed(d, c, k)]
        /\ link' = [taken EXCEPT ![d][c] = Append(@, ack)]
     \/ /\ Installable(d, c, k) /\ k.kind = "media-ack"
        /\ cl' = IF Acknowledges(cl[d], c, k) THEN [cl EXCEPT ![d] = Activated(cl[d], c)] ELSE cl
        /\ link' = taken
     \/ /\ Installable(d, c, k) /\ k.kind = "agent-ack"
        /\ cl' = IF cl[d].agent.n = k.n /\ cl[d].agent.e = k.e THEN [cl EXCEPT ![d] = AgentAcked(cl[d], c)] ELSE cl
        /\ link' = taken
  /\ UNCHANGED <<room, inbox, outbox, left, plan>>

\* sendPendingMediaKey runs again
RetryMediaKey(c, d) ==
  /\ Quiet /\ cl[c].out[d] # NoOut /\ cl[c].out[d].m = cl[c].m /\ cl[c].stable /\ Up(c, d)
  /\ link' = [link EXCEPT ![c][d] = @ \o SendTo(c, d, cl[c], "media-key", cl[c].out[d].n)]
  /\ UNCHANGED <<room, inbox, outbox, cl, left, plan>>

\* sendAgentMediaKey runs again
RetryAgentKey(c) ==
  LET a == cl[c].agent
      to == {d \in cl[c].peers \ a.acked : cl[c].key # 0 /\ cl[c].ring[d] # 0 /\ Up(c, d)}
  IN
  /\ Quiet /\ a.n # 0 /\ ~a.active /\ a.m = cl[c].m /\ a.e = cl[c].e /\ cl[c].stable
  /\ link' = [link EXCEPT ![c] = [d \in Clients |-> @[d] \o (IF d \in to THEN SendTo(c, d, cl[c], "agent-key", a.n) ELSE <<>>)]]
  /\ cl' = [cl EXCEPT ![c].agent.told = @ \cup to]
  /\ UNCHANGED <<room, inbox, outbox, left, plan>>

\* e2eeRecoveryTimer
Recovers(p) == p.stable /\ Pending(p)
Recovery(c) ==
  /\ Quiet /\ ~plan.relay /\ cl[c].peers # {} /\ Recovers(cl[c])
  /\ Become(c, Provisioned(c, cl[c], Clients), link)
  /\ Tell(c, Announcement(cl[c]))
  /\ UNCHANGED <<room, inbox, left, plan>>

-----------------------------------------------------------------------------
(* The server *)

Topology(rm) == [kind |-> "topology", peers |-> rm.members, m |-> rm.m, r |-> rm.r]
AgentState(rm) == [kind |-> "agent-state", m |-> rm.m, e |-> rm.e]
\* broadcastTopology after a change of membership
Changed(members) == [members |-> members, m |-> room.m + 1, r |-> room.r + 1, e |-> room.e + 1]
Broadcast(ms) == inbox' = [c \in Clients |-> IF c \in room'.members THEN inbox[c] \o ms[c] ELSE <<>>]

Joined(c) == c \in room.members
Ever(c) == Joined(c) \/ cl[c].pc[c] = 1

\* connection: welcome, peer-joined, topology and agent state
Join(c) ==
  /\ ~Ever(c) /\ c <= plan.joins /\ \A d \in Clients : d < c => Ever(d)
  /\ c <= plan.setup => Quiet
  /\ c > plan.setup => Begins
  /\ room' = Changed(room.members \cup {c})
  /\ Broadcast([d \in Clients |->
       <<IF d = c THEN [kind |-> "welcome", peers |-> room.members] ELSE [kind |-> "peer-joined", from |-> c],
         Topology(room'), AgentState(room')>>])
  /\ UNCHANGED <<outbox, cl, link, left, plan>>

\* leave: the client is gone with the overlay keys it knows; its own counter marks that it has been there
Leave(c) ==
  /\ c \in plan.leaves /\ Joined(c) /\ room.members # {c} /\ Begins
  /\ room' = Changed(room.members \ {c})
  /\ Broadcast([d \in Clients |-> <<[kind |-> "peer-left", from |-> c], Topology(room'), AgentState(room')>>])
  /\ cl' = [cl EXCEPT ![c] = [Fresh EXCEPT !.pc[c] = 1, !.ring = cl[c].ring]]
  /\ outbox' = [outbox EXCEPT ![c] = <<>>]
  /\ link' = [a \in Clients |-> [b \in Clients |-> IF c \in {a, b} THEN <<>> ELSE link[a][b]]]
  /\ UNCHANGED <<left, plan>>

\* The agents elect anew: broadcastMediaAgentState alone
AgentRouteChanges ==
  /\ left.routes > 0 /\ ~plan.relay /\ room.members # {} /\ Begins
  /\ room' = [room EXCEPT !.e = @ + 1]
  /\ left' = [left EXCEPT !.routes = @ - 1]
  /\ Broadcast([d \in Clients |-> <<AgentState(room')>>])
  /\ UNCHANGED <<outbox, cl, link, plan>>

\* mediaAgentRenewal
AgentRenewal ==
  /\ plan.agents /\ Quiet /\ room.members # {}
  /\ room' = room
  /\ Broadcast([d \in Clients |-> <<AgentState(room)>>])
  /\ UNCHANGED <<outbox, cl, link, left, plan>>

\* A relay's health or consent changes: broadcastTopology without a change of membership
RelayChanges ==
  /\ left.routes > 0 /\ plan.relay /\ room.members # {} /\ Begins
  /\ room' = [room EXCEPT !.r = @ + 1]
  /\ left' = [left EXCEPT !.routes = @ - 1]
  /\ Broadcast([d \in Clients |-> <<Topology(room'), AgentState(room')>>])
  /\ UNCHANGED <<outbox, cl, link, plan>>

LeaseRenewals == 3   \* renewals sent within one lease

\* leaseRenewal: the same topology is sent again, a third of the lease later
LeaseRenewal ==
  /\ plan.relay /\ Quiet /\ room.members # {}
  /\ room' = room
  /\ cl' = [c \in Clients |-> [cl[c] EXCEPT !.age = IF @ < LeaseRenewals THEN @ + 1 ELSE @]]
  /\ Broadcast([d \in Clients |-> <<Topology(room), AgentState(room)>>])
  /\ UNCHANGED <<outbox, link, left, plan>>

\* The routes of a topology end with its lease
LeaseExpires(c) ==
  /\ cl[c].routed /\ cl[c].age = LeaseRenewals
  /\ cl' = [cl EXCEPT ![c].routed = FALSE]
  /\ UNCHANGED <<room, inbox, outbox, link, left, plan>>

\* overlay-key and signal are relayed; a key is stamped with the epoch of that moment
Relay(c) ==
  LET m == Head(outbox[c]) IN
  /\ outbox[c] # <<>> /\ Turn(c)
  /\ outbox' = [outbox EXCEPT ![c] = Tail(@)]
  /\ inbox' = [d \in Clients |->
       IF d = c \/ ~Joined(d) THEN inbox[d]
       ELSE IF m.kind = "overlay-key"
       THEN Append(inbox[d], [kind |-> "overlay-key", from |-> c, k |-> m.k, m |-> room.m])
       ELSE IF m.to = d THEN Append(inbox[d], [kind |-> "marker", from |-> c]) ELSE inbox[d]]
  /\ UNCHANGED <<room, cl, link, left, plan>>

-----------------------------------------------------------------------------
Init ==
  /\ plan \in Plans
  /\ room = [members |-> {}, m |-> 0, r |-> 0, e |-> 0]
  /\ inbox = [c \in Clients |-> <<>>] /\ outbox = [c \in Clients |-> <<>>]
  /\ cl = [c \in Clients |-> Fresh]
  /\ link = [c \in Clients |-> [d \in Clients |-> <<>>]]
  /\ left = [routes |-> plan.routes, resets |-> plan.resets]

Steps(c) ==
  \/ Handle(c) \/ OverlayKeyMade(c) \/ Relay(c) \/ LeaseExpires(c)
  \/ \E d \in Clients : ImportOverlayKey(c, d) \/ Receive(c, d)

Timers(c) == RetryAgentKey(c) \/ Recovery(c) \/ \E d \in Clients : RetryMediaKey(c, d)

Next ==
  \/ AgentRouteChanges \/ AgentRenewal \/ RelayChanges \/ LeaseRenewal
  \/ \E c \in Clients : Join(c) \/ Leave(c) \/ Steps(c) \/ Timers(c) \/ \E d \in Clients : ResetStarts(c, d)

\* Messages are handled; timers of each kind run out time and again
Fairness ==
  /\ WF_vars(AgentRenewal) /\ WF_vars(\E c \in Clients : Steps(c))
  /\ SF_vars(\E c \in Clients : Recovery(c))
  /\ SF_vars(\E c \in Clients : RetryAgentKey(c) \/ \E d \in Clients : RetryMediaKey(c, d))

Spec == Init /\ [][Next]_vars /\ Fairness
-----------------------------------------------------------------------------
(* Properties *)

\* Every variable keeps its type.
TypeOK ==
  /\ room \in [members : SUBSET Clients, m : Nat, r : Nat, e : Nat]
  /\ inbox \in [Clients -> Seq(ServerMessage)] /\ outbox \in [Clients -> Seq(ClientMessage)]
  /\ cl \in [Clients -> Client] /\ link \in [Clients -> [Clients -> Seq(Envelope)]]
  /\ left \in [routes : Nat, resets : Nat] /\ plan \in Plans

\* A member sends with a key its receiver holds, or one of the two is about to exchange keys again
Heard(c, d) ==
  cl[c].snd[d] = 0 \/ cl[c].snd[d] \in cl[d].rcv[c] \/ cl[c].out[d] # NoOut \/ Pending(cl[d])
Members(c, d) == Joined(c) /\ Joined(d) /\ c # d

\* The membership changes, and the route only with it, in a room of two or one that is left
Steady == plan.routes = 0 /\ ~plan.relay /\ (plan.joins = plan.setup \/ plan.joins <= 2)

\* A comment of the recovery timer promises it for changes of the route as well: "A media-key exchange
\* can be lost or invalidated by a key rotation ... so the handshake recovers instead of waiting".
KeyLossIsRecovered == Quiet => \A c, d \in Clients : Members(c, d) => Heard(c, d)

\* Overlay keys cross with membership changes, rotations and rebuilt connections; in the end each
\* member has the present key of every other one and none of an earlier membership stays.
OverlayKeysAgree ==
  Quiet => \A c, d \in Clients : Members(c, d) => cl[c].ring[d] = cl[d].key /\ cl[d].key # 0

\* A member that has heard of d's departure and applied the topology without it uses no key that d
\* has been told: neither the overlay pair (rotateOverlayKey) nor the shared key of the agent path
\* (clearAllMediaKeys).
DepartedAreShutOut == \A c, d \in Clients :
  /\ Joined(c) /\ ~Joined(d) /\ d \notin cl[c].peers \cup cl[c].applied
  /\ \A i \in DOMAIN inbox[c] : ~(inbox[c][i].kind = "peer-left" /\ inbox[c][i].from = d)
  => /\ cl[c].key = 0 \/ cl[c].key # cl[d].ring[c]
     /\ cl[c].agent.active => d \notin cl[c].agent.told

\* The shared key is in use only while every settled peer of the same membership and route holds it, though
\* each of them drops all keys at its own time (activateAgentMediaKey, the epochs of an agent key).
AgentKeyIsHeld == plan.resets = 0 => \A c \in Clients : cl[c].agent.active =>
  \A d \in cl[c].peers :
    Joined(d) /\ cl[d].stable /\ cl[d].m = cl[c].agent.m /\ cl[d].e = cl[c].agent.e => cl[c].agent.n \in cl[d].rcv[c]

\* Every publisher's media comes to be protected with a key its receiver holds, and stays so
Protected == \A c, d \in Clients : Members(c, d) /\ c \in plan.publishers =>
  /\ cl[c].snd[d] # 0 /\ cl[c].snd[d] \in cl[d].rcv[c]
  /\ plan.agents /\ plan.resets = 0 => cl[c].agent.active
\* In a steady room every exchange comes to its end: retries and the recovery timer replace whatever
\* a rotation has made void.
EventuallyProtected == Steady => <>[]Protected
=============================================================================
