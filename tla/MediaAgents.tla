---------------------------- MODULE MediaAgents ----------------------------
(***************************************************************************)
(* Blind media agents of one room: the registry the server keeps           *)
(* (media-agent-registry.js) with its election (media-agent-election.js),  *)
(* the enrollment of agents (media-agent-enrollment-store.js), the handlers *)
(* of server.js that drive them, and the leases a native agent holds        *)
(* (media-edge-agent: media_agent.go, signaling.go, protocol.go).           *)
(*                                                                         *)
(* Agent and peer ids are ordered as the code sorts them; 0 is the code's  *)
(* empty id.  A peer id is random, so it never joins twice.  A publisher   *)
(* has one single-layer publication.  The room is the only one an agent    *)
(* serves; its other rooms show as a capability that does not fit.  A      *)
(* signature that does not match is a connection that never authenticates. *)
(*                                                                         *)
(* Of the syncs that wait for an agent the last is kept: each replaces all *)
(* the agent holds, so applying them one after another ends there.         *)
(***************************************************************************)
EXTENDS Integers, FiniteSets, SequencesExt

CONSTANTS
  Peers, PrincipalOf,     \* peer ids and the principal of each
  Creator,                \* the principal that created the room
  Agents, OwnerOf,        \* agent ids and the principal each is bound to
  Enrolled,               \* agents that enroll themselves; the others are configured
  PeerLimit,              \* maxPeers as each agent is configured
  Fitness,                \* scores a fit agent may report
  DefaultFitness, DefaultPeers,   \* DEFAULT_CAPABILITY
  MinParticipants, ShardMinParticipants, MaxStandbys, MaxAgentsPerPrincipal,
  LeaseTime, TakeoverTtl, EnrollTtl,
  MaxTime, MaxRoute, MaxRevision, \* bounds on the clock and the counters
  Plans                   \* who takes part and what happens, one choice per behaviour

Features == {"fitness", "drain", "network", "crash", "enroll", "consent", "leave", "decline",
             "ready", "subscribe", "restart"}

ASSUME IdAssumption == Peers \subseteq Nat \ {0} /\ Agents \subseteq Nat \ {0} /\ IsFiniteSet(Agents)
ASSUME OwnerAssumption == /\ PrincipalOf \in [Peers -> {PrincipalOf[p] : p \in Peers}]
                          /\ OwnerOf \in [Agents -> {OwnerOf[a] : a \in Agents}]
                          /\ PeerLimit \in [Agents -> Nat \ {0}] /\ Enrolled \subseteq Agents
ASSUME ScoreAssumption ==
  Fitness \subseteq Nat \ {0} /\ DefaultFitness \in Nat \ {0} /\ DefaultPeers \in Nat
ASSUME SizeAssumption ==
  /\ {MinParticipants, ShardMinParticipants, MaxAgentsPerPrincipal} \subseteq Nat \ {0}
  /\ MaxStandbys \in 0..2 /\ LeaseTime > 1   \* the renewal period, one tick, is shorter than the lease
  /\ {LeaseTime, TakeoverTtl, EnrollTtl, MaxTime, MaxRoute, MaxRevision} \subseteq Nat \ {0}
ASSUME PlanAssumption == \A q \in Plans :
  /\ q.takers \subseteq q.peers /\ q.peers \subseteq Peers
  /\ q.weak \subseteq q.agents /\ q.agents \subseteq Agents /\ q.may \subseteq Features
  /\ q.time \in 0..MaxTime /\ q.routes \in 1..MaxRoute /\ q.autos \subseteq BOOLEAN

VARIABLES
  now,
  members, gone,  \* peers in the room, and peers that have left it
  epoch,          \* roomEpochs: the membership epoch
  store,          \* per agent: its row of the enrollment database
  agent,          \* per agent: its entry of MediaAgentRegistry.#agents
  consents,       \* #consents of the room, in the order of the map
  room,           \* #rooms entry of the room
  syncDue,        \* agentSyncTimer is armed
  box,            \* per agent: syncs under way to it
  up, held,       \* per native agent: its connection, and the lease it holds
  late,           \* per agent: a replaced socket whose close event is to come
  plan

vars == <<now, members, gone, epoch, store, agent, consents, room, syncDue, box, up, held, late, plan>>

Id == Agents \cup {0}
Row == [st : {"configured", "none", "pending", "registered", "revoked"}, expires : Nat]
Entry == [known : BOOLEAN, sock : BOOLEAN, seen : Nat, fitness : Nat, peers : Nat, draining : BOOLEAN]
Consent == [peer : Peers, agent : Agents, auto : BOOLEAN, creatorOwned : BOOLEAN]
Subscription == [sub : Peers, pub : Peers, enabled : BOOLEAN, rev : Nat, agent : Agents]
Pending == [agent : Id, peer : Peers \cup {0}, expires : Nat]
Route == [pub : Peers, source : Id, edges : SUBSET (Id \X Id)]
Lease == [route : Nat, membership : Nat, role : {"none", "primary", "standby"}, expires : Nat,
          peers : SUBSET Peers, mine : SUBSET Peers, links : SUBSET SUBSET Id, routes : SUBSET Route,
          plans : SUBSET Subscription, demands : SUBSET (Id \X Id \X Peers)]
\* assigned: the agent of each publisher; approved, declined: until when
Room == [live : BOOLEAN, membership : Nat, route : Nat, primary : Id, standbys : Seq(Agents),
         assigned : Seq(Peers \X Agents), lease : Nat, hadPrimary : BOOLEAN, pending : Pending,
         approved : [Agents -> Nat], declined : [Agents -> Nat],
         browserReady : SUBSET (Agents \X Peers), agentReady : SUBSET (Agents \X Peers),
         linkReady : SUBSET ((SUBSET Id) \X Agents),
         plans : SUBSET Subscription, applied : SUBSET Subscription, revision : Nat]

NoPending == [agent |-> 0, peer |-> 0, expires |-> 0]
NoLease == [route |-> 0, membership |-> 0, role |-> "none", expires |-> 0, peers |-> {}, mine |-> {},
            links |-> {}, routes |-> {}, plans |-> {}, demands |-> {}]
NoBox == [has |-> FALSE, lease |-> NoLease]
NoRoom == [live |-> FALSE, membership |-> 0, route |-> 0, primary |-> 0, standbys |-> <<>>,
           assigned |-> <<>>, lease |-> 0, hadPrimary |-> FALSE, pending |-> NoPending,
           approved |-> [a \in Agents |-> 0], declined |-> [a \in Agents |-> 0],
           browserReady |-> {}, agentReady |-> {}, linkReady |-> {},
           plans |-> {}, applied |-> {}, revision |-> 0]
\* registerDefinition
NewAgent == [known |-> TRUE, sock |-> FALSE, seen |-> 0, fitness |-> DefaultFitness,
             peers |-> DefaultPeers, draining |-> FALSE]
Unknown == [NewAgent EXCEPT !.known = FALSE]

May(f) == f \in plan.may

\* The elements of a set of numbers in ascending order
Ordered(S) ==
  CHOOSE q \in [1..Cardinality(S) -> S] : \A i, j \in DOMAIN q : i < j => q[i] < q[j]

\* The elements of a sequence that belong to T, in their order
Only(s, T) ==
  LET kept == {i \in DOMAIN s : s[i] \in T} IN [k \in 1..Cardinality(kept) |-> s[Ordered(kept)[k]]]

-----------------------------------------------------------------------------
(* The election: media-agent-election.js and the candidates of reconcile *)

CreatorPreference == 240
SwitchMargin == 200

Before(c, d) == c.score > d.score \/ (c.score = d.score /\ c.id < d.id)

\* rankMediaAgents: an agent that is draining or not fit has no finite score
Ranked(cands) ==
  LET fit == {c \in cands : c.fit}
  IN CHOOSE q \in [1..Cardinality(fit) -> fit] : \A i, j \in DOMAIN q : i < j => Before(q[i], q[j])

\* The consents for an agent, and the one its candidacy rests on
ConsentsFor(cons, a) == Only(cons, {c \in ToSet(cons) : c.agent = a})
DecidingConsent(cons, a) ==
  LET mine == ConsentsFor(cons, a) IN IF Last(mine).creatorOwned THEN Last(mine) ELSE Head(mine)

\* Faulty: a drained or disconnected agent counts as healthy while its lease runs.
FaultyHealthy(ags, a, mem) == ags[a].known /\ now - ags[a].seen <= LeaseTime
                              /\ Cardinality(mem) <= ags[a].peers

\* A connected agent that was heard of within the lease and takes so many peers
Healthy(ags, a, mem) ==
  /\ ags[a].known /\ ags[a].sock
  /\ now - ags[a].seen <= LeaseTime
  /\ Cardinality(mem) <= ags[a].peers

Candidates(cons, ags, mem) ==
  {LET c == DecidingConsent(cons, a)
   IN [id |-> a, owner |-> c.peer, auto |-> c.auto,
       fit |-> ~ags[a].draining /\ ags[a].fitness > 0,
       score |-> ags[a].fitness + (IF c.creatorOwned THEN CreatorPreference ELSE 0)]
     : a \in {b \in Agents : ConsentsFor(cons, b) # <<>> /\ Healthy(ags, b, mem)}}

Standbys(ranked, primary) ==
  LET others == Only([i \in DOMAIN ranked |-> ranked[i].id], Agents \ {primary})
  IN SubSeq(others, 1, IF Len(others) < MaxStandbys THEN Len(others) ELSE MaxStandbys)

\* Faulty: whoever is best takes the place, failover or not, without asking.
FaultyElection(ranked, current, failover, approved) ==
  LET best == IF ranked = <<>> THEN 0 ELSE ranked[1].id
  IN [primary |-> IF \E i \in DOMAIN ranked : ranked[i].id = current THEN current ELSE best, takeover |-> 0]

\* planMediaAgents: the best candidate takes an empty place, or the place of one it outdoes by the
\* margin; its owner is asked unless the place was never held
Election(ranked, current, failover, approved) ==
  LET holds == \E i \in DOMAIN ranked : ranked[i].id = current
      best == ranked[1]
      wanted == /\ ranked # <<>> /\ best.id # current
                /\ \A i \in DOMAIN ranked :
                     ranked[i].id = current => best.score >= ranked[i].score + SwitchMargin
      asks == (holds \/ failover) /\ ~best.auto /\ best.id \notin approved
  IN [primary |-> IF wanted /\ ~asks THEN best.id ELSE IF holds THEN current ELSE 0,
      takeover |-> IF wanted /\ asks THEN best.id ELSE 0]

-----------------------------------------------------------------------------
(* Routes *)

Forwarders(rm, mem) ==
  IF rm.primary = 0 THEN <<>>
  ELSE <<rm.primary>> \o (IF Cardinality(mem) >= ShardMinParticipants THEN rm.standbys ELSE <<>>)

\* publisherAssignments: the owner of the primary first, then the others in turn
Assignment(fwd, owner, mem) ==
  LET line == IF owner \in mem THEN <<owner>> \o Ordered(mem \ {owner}) ELSE Ordered(mem)
      n == Len(fwd)
      skipped == IF owner \in mem THEN 1 ELSE 0
      turn(i) == i - 1 - skipped + (IF n > 1 THEN 1 ELSE 0)
  IN IF fwd = <<>> THEN <<>>
     ELSE [i \in DOMAIN line |-> <<line[i], IF i <= skipped THEN fwd[1] ELSE fwd[1 + (turn(i) % n)]>>]

AgentOf(rm, p) ==
  LET hit == {i \in DOMAIN rm.assigned : rm.assigned[i][1] = p}
  IN IF hit = {} THEN 0 ELSE rm.assigned[CHOOSE i \in hit : TRUE][2]

InRoute(rm, a) == rm.primary = a \/ Contains(rm.standbys, a)

\* federationLinks: the primary with every other forwarder
Links(rm, mem) ==
  IF rm.primary = 0 THEN {} ELSE {{rm.primary, b} : b \in ToSet(Tail(Forwarders(rm, mem)))}

\* Faulty: every publisher's agent sends straight to the others.
FaultyEdges(rm, mem, p) ==
  LET source == AgentOf(rm, p)
      targets == {AgentOf(rm, q) : q \in mem \ {p}} \ {source, 0}
  IN {<<source, t>> : t \in targets}

\* federationRoutes: the edges over which a publisher reaches the agents of the others
Edges(rm, mem, p) ==
  LET source == AgentOf(rm, p)
      targets == {AgentOf(rm, q) : q \in mem \ {p}} \ {source, 0}
  IN IF source = 0 \/ targets = {} THEN {}
     ELSE IF source = rm.primary THEN {<<source, t>> : t \in targets}
     ELSE {<<source, rm.primary>>} \cup {<<rm.primary, t>> : t \in targets \ {rm.primary}}

\* federationPath and federationDemands: edges that enabled plans need
Demands(rm, mem) ==
  UNION {LET route == Edges(rm, mem, s.pub)
             path == {e \in route : e[2] = s.agent \/ (e[2] = rm.primary /\ e[1] # rm.primary
                                                       /\ <<rm.primary, s.agent>> \in route)}
         IN {<<e[1], e[2], s.pub>> : e \in IF AgentOf(rm, s.pub) = s.agent THEN {} ELSE path}
           : s \in {t \in rm.plans : t.enabled}}

\* roomLeases
RoomLease(rm, mem, a) ==
  IF ~InRoute(rm, a) THEN NoLease
  ELSE LET routes == {[pub |-> p, source |-> AgentOf(rm, p), edges |-> Edges(rm, mem, p)] : p \in mem}
       IN [route |-> rm.route, membership |-> rm.membership, expires |-> rm.lease,
           role |-> IF rm.primary = a THEN "primary" ELSE "standby",
           peers |-> mem, mine |-> {p \in mem : AgentOf(rm, p) = a},
           links |-> {l \in Links(rm, mem) : a \in l},
           routes |-> {r \in routes : r.edges # {} /\ (r.source = a
                                       \/ \E e \in r.edges : a \in {e[1], e[2]})},
           plans |-> {s \in rm.plans : s.agent = a},
           demands |-> {d \in Demands(rm, mem) : a \in {d[1], d[2]}}]

-----------------------------------------------------------------------------
(* reconcile *)

Lives(until) == IF until < now THEN 0 ELSE until

\* Faulty: a changed assignment keeps its route epoch.
FaultyRenewed(rm, mem) == rm

\* A route that changed starts without any readiness or plan
Renewed(rm, mem) ==
  [rm EXCEPT !.route = @ + 1, !.browserReady = {}, !.agentReady = {}, !.linkReady = {},
             !.plans = {}, !.applied = {}]

\* The room as reconcile finds it: what has run out is gone, and a room that is too small for an
\* agent forgets that it had one
Opened(rm, mem, ep) ==
  LET enough == Cardinality(mem) >= MinParticipants
  IN [(IF rm.live THEN rm ELSE [NoRoom EXCEPT !.live = TRUE, !.membership = ep]) EXCEPT
        !.approved = [a \in Agents |-> Lives(@[a])], !.declined = [a \in Agents |-> Lives(@[a])],
        !.pending = IF ~enough \/ @.expires < now THEN NoPending ELSE @,
        !.hadPrimary = @ /\ enough]

\* The takeover request that stands after an election
Asked(waiting, e, cands) ==
  IF e.takeover = 0 THEN IF waiting.agent = e.primary THEN NoPending ELSE waiting
  ELSE IF waiting.agent = e.takeover THEN waiting
  ELSE [agent |-> e.takeover, expires |-> now + TakeoverTtl,
        peer |-> (CHOOSE c \in cands : c.id = e.takeover).owner]

OwnerPeer(ranked, a) ==
  LET own == {i \in DOMAIN ranked : ranked[i].id = a}
  IN IF own = {} THEN 0 ELSE ranked[CHOOSE i \in own : TRUE].owner

Assigned(rm, owner, mem) == [rm EXCEPT !.assigned = Assignment(Forwarders(rm, mem), owner, mem)]

RenewedIfChanged(rm, new, mem) ==
  IF rm.route = 0 \/ <<rm.membership, rm.primary, rm.standbys, rm.assigned>>
                       # <<new.membership, new.primary, new.standbys, new.assigned>>
  THEN Renewed(new, mem) ELSE new

Elected(rm, e, cands, ranked, mem, ep) ==
  RenewedIfChanged(rm,
    Assigned([rm EXCEPT !.primary = e.primary, !.standbys = Standbys(ranked, e.primary), !.membership = ep,
                        !.pending = Asked(@, e, cands), !.hadPrimary = @ \/ e.primary # 0,
                        !.lease = now + LeaseTime],
             OwnerPeer(ranked, e.primary), mem), mem)

Voted(rm, cands, ranked, mem, ep) ==
  LET kept == \E c \in cands : c.id = rm.primary
  IN Elected(rm, Election(ranked, IF kept THEN rm.primary ELSE 0, rm.hadPrimary /\ ~kept,
                          {a \in Agents : rm.approved[a] # 0}), cands, ranked, mem, ep)

Nominated(rm, cands, mem, ep) ==
  Voted(rm, cands, Ranked({c \in cands : rm.declined[c.id] = 0}), mem, ep)

Reconciled(rm, cons, ags, mem, ep) ==
  Nominated(Opened(rm, mem, ep),
            IF Cardinality(mem) >= MinParticipants THEN Candidates(cons, ags, mem) ELSE {}, mem, ep)

-----------------------------------------------------------------------------
(* Messages to the agents *)

\* sendAgentSync: to every connected agent; what is sent on a dead connection is lost
SyncAgents(ags, rm, mem) ==
  /\ box' = [a \in Agents |->
               IF ags[a].known /\ ags[a].sock /\ up'[a] THEN [has |-> TRUE, lease |-> RoomLease(rm, mem, a)]
               ELSE IF up'[a] THEN box[a] ELSE NoBox]
  /\ syncDue' = FALSE

\* broadcastMediaAgentState
Broadcast(ags, cons, rm, mem, ep) ==
  /\ consents' = IF mem = {} THEN <<>> ELSE Only(cons, {c \in ToSet(cons) : c.peer \in mem})
  /\ room' = IF mem = {} THEN NoRoom ELSE Reconciled(rm, consents', ags, mem, ep)
  /\ room'.route <= plan.routes
  /\ SyncAgents(ags, room', mem)

\* For every room the agent is in or has a consent of
BroadcastFor(a, ags, cons) ==
  IF members # {} /\ (InRoute(room, a) \/ ConsentsFor(consents, a) # <<>>)
  THEN Broadcast(ags, cons, room, members, epoch)
  ELSE UNCHANGED <<room, consents, syncDue>> /\ box' = [box EXCEPT ![a] = IF up'[a] THEN @ ELSE NoBox]

-----------------------------------------------------------------------------
(* Members *)

Join(p) ==
  /\ p \in plan.peers \ (members \cup gone)
  /\ members' = members \cup {p} /\ epoch' = epoch + 1
  /\ UNCHANGED <<now, gone, store, agent, up, held, late, plan>>
  /\ Broadcast(agent, consents, room, members', epoch')

OfOthers(p) == Only(consents, {c \in ToSet(consents) : c.peer # p})

\* leavePeer
WithoutPeer(rm, p) ==
  [rm EXCEPT !.browserReady = {r \in @ : r[2] # p}, !.agentReady = {r \in @ : r[2] # p},
             !.plans = {s \in @ : p \notin {s.sub, s.pub}}, !.applied = {s \in @ : p \notin {s.sub, s.pub}},
             !.pending = IF @.peer = p THEN NoPending ELSE @]

Leave(p) ==
  /\ May("leave") /\ p \in members
  /\ members' = members \ {p} /\ gone' = gone \cup {p}
  /\ epoch' = IF members' = {} THEN 0 ELSE epoch + 1
  /\ UNCHANGED <<now, store, agent, up, held, late, plan>>
  /\ Broadcast(agent, OfOthers(p), WithoutPeer(room, p), members', epoch')

\* setConsentSet: replaces the peer's consents, all of agents its principal owns
SetConsent(p, as, auto) ==
  /\ p \in members
  /\ \A a \in as : a \in plan.agents /\ agent[a].known /\ OwnerOf[a] = PrincipalOf[p]
  /\ May("consent") \/ (as # {} /\ \A i \in DOMAIN consents : consents[i].peer # p)
  /\ auto \in plan.autos
  /\ UNCHANGED <<now, members, gone, epoch, store, agent, up, held, late, plan>>
  /\ Broadcast(agent,
       OfOthers(p)
         \o [i \in 1..Cardinality(as) |-> [peer |-> p, agent |-> Ordered(as)[i], auto |-> auto,
                                            creatorOwned |-> PrincipalOf[p] = Creator]],
       room, members, epoch)

\* respondToTakeover
RespondToTakeover(p, accepted) ==
  /\ room.pending.peer = p /\ p \in members /\ room.pending.expires >= now
  /\ ~accepted => May("decline")
  /\ UNCHANGED <<now, members, gone, epoch, store, agent, up, held, late, plan>>
  /\ LET a == room.pending.agent
         rm == [room EXCEPT !.pending = NoPending]
     IN Broadcast(agent, consents,
          IF accepted THEN [rm EXCEPT !.approved[a] = now + LeaseTime]
          ELSE [rm EXCEPT !.declined[a] = now + TakeoverTtl], members, epoch)

\* authorizePeerAgent, for the route the sender knows
Authorized(a, p, route) == room.live /\ room.route = route /\ room.lease >= now /\ AgentOf(room, p) = a

\* media-agent-peer-state
SetBrowserPeerState(p, a, connected) ==
  /\ May("ready") /\ p \in members /\ a \in plan.agents /\ Authorized(a, p, room.route)
  /\ UNCHANGED <<now, members, gone, epoch, store, agent, up, held, late, plan>>
  /\ Broadcast(agent, consents,
       [room EXCEPT !.browserReady = IF connected THEN @ \cup {<<a, p>>} ELSE @ \ {<<a, p>>}],
       members, epoch)

\* setSubscriptionIntent: a newer plan, not yet applied by the agent
SetSubscriptionIntent(s, p, enabled) ==
  /\ May("subscribe") /\ s \in plan.takers /\ {s, p} \subseteq members /\ s # p
  /\ AgentOf(room, s) # 0 /\ room.lease >= now /\ room.revision < MaxRevision
  /\ room' = [room EXCEPT
       !.revision = @ + 1,
       !.plans = {t \in @ : <<t.sub, t.pub>> # <<s, p>>} \cup
                   {[sub |-> s, pub |-> p, enabled |-> enabled, rev |-> room.revision + 1,
                     agent |-> AgentOf(room, s)]},
       !.applied = {t \in @ : <<t.sub, t.pub>> # <<s, p>>}]
  /\ syncDue' = TRUE
  /\ UNCHANGED <<now, members, gone, epoch, store, agent, consents, box, up, held, late, plan>>

SyncTimer ==
  /\ syncDue
  /\ UNCHANGED <<now, members, gone, epoch, store, agent, consents, room, up, held, late, plan>>
  /\ SyncAgents(agent, room, members)

\* revokeSubscriptions, for the plan of a machine that may no longer receive
Revoked(rm, s) ==
  [rm EXCEPT !.plans = (@ \ {s}) \cup {[s EXCEPT !.enabled = FALSE, !.rev = rm.revision + 1]},
             !.applied = {t \in @ : <<t.sub, t.pub>> # <<s.sub, s.pub>>}, !.revision = @ + 1]

RevokeSubscription(s) ==
  /\ s \in room.plans /\ s.enabled /\ room.revision < MaxRevision
  /\ room' = Revoked(room, s)
  /\ UNCHANGED <<now, members, gone, epoch, store, agent, consents, up, held, late, plan>>
  /\ SyncAgents(agent, room', members)

\* removePublisherSource, when a publication ends
RemovePublisherSource(p) ==
  /\ \E s \in room.plans : s.pub = p
  /\ room' = [room EXCEPT !.plans = {s \in @ : s.pub # p}, !.applied = {s \in @ : s.pub # p}]
  /\ UNCHANGED <<now, members, gone, epoch, store, agent, consents, up, held, late, plan>>
  /\ SyncAgents(agent, room', members)

-----------------------------------------------------------------------------
(* Enrollment *)

RowsOf(q, sts) == {a \in Agents : OwnerOf[a] = q /\ store[a].st \in sts
                                  /\ (store[a].st = "pending" => store[a].expires >= now)}

\* createEnrollment: a token for a random agent id
CreateEnrollment(a) ==
  /\ May("enroll") /\ a \in Enrolled \cap plan.agents /\ store[a].st = "none"
  /\ Cardinality(RowsOf(OwnerOf[a], {"pending", "registered"})) < MaxAgentsPerPrincipal
  /\ store' = [store EXCEPT ![a] = [st |-> "pending", expires |-> now + EnrollTtl]]
  /\ UNCHANGED <<now, members, gone, epoch, agent, consents, room, syncDue, box, up, held, late, plan>>

\* enroll, pendingEnrollment, completeEnrollment, registerDefinition
Enroll(a) ==
  /\ a \in plan.agents /\ store[a].st = "pending" /\ store[a].expires >= now /\ ~agent[a].known
  /\ Cardinality(RowsOf(OwnerOf[a], {"registered"})) < MaxAgentsPerPrincipal
  /\ store' = [store EXCEPT ![a].st = "registered"]
  /\ agent' = [agent EXCEPT ![a] = NewAgent]
  /\ UNCHANGED <<now, members, gone, epoch, consents, room, syncDue, box, up, held, late, plan>>

\* The registry's entry for an agent that starts from the database: definitions
Definition(a) == IF store[a].st \in {"configured", "registered"} THEN NewAgent ELSE Unknown

\* The server starts again: only the database survives
ServerRestart ==
  /\ May("restart")
  /\ members' = {} /\ gone' = gone \cup members /\ epoch' = 0
  /\ agent' = [a \in Agents |-> Definition(a)]
  /\ consents' = <<>> /\ room' = NoRoom /\ syncDue' = FALSE
  /\ box' = [a \in Agents |-> NoBox] /\ up' = [a \in Agents |-> FALSE]
  /\ late' = [a \in Agents |-> FALSE]
  /\ UNCHANGED <<now, store, held, plan>>

\* DELETE /api/media-agents: the store's row, the consents, the definition and the socket
Revoke(a) ==
  /\ May("enroll") /\ store[a].st = "registered"
  /\ store' = [store EXCEPT ![a].st = "revoked"]
  /\ agent' = [agent EXCEPT ![a] = Unknown]
  /\ up' = [up EXCEPT ![a] = FALSE]
  /\ UNCHANGED <<now, members, gone, epoch, held, late, plan>>
  /\ BroadcastFor(a, agent', Only(consents, {c \in ToSet(consents) : c.agent # a}))

-----------------------------------------------------------------------------
(* Connections of the agents *)

\* authenticate: a newer connection replaces the one the server still has
Authenticate(a) ==
  /\ a \in plan.agents /\ agent[a].known /\ ~up[a] /\ ~late[a]
  /\ up' = [up EXCEPT ![a] = TRUE]
  /\ late' = [late EXCEPT ![a] = agent[a].sock]
  /\ agent' = [agent EXCEPT ![a].sock = TRUE, ![a].seen = now, ![a].draining = FALSE]
  /\ UNCHANGED <<now, members, gone, epoch, store, held, plan>>
  /\ IF members # {} /\ (InRoute(room, a) \/ ConsentsFor(consents, a) # <<>>)
     THEN Broadcast(agent', consents, room, members, epoch)
     ELSE UNCHANGED <<room, consents>> /\ SyncAgents(agent', room, members)

\* The connection breaks; the server may learn of it much later
ConnectionLost(a) ==
  /\ May("network") /\ a \in plan.weak /\ up[a]
  /\ up' = [up EXCEPT ![a] = FALSE] /\ box' = [box EXCEPT ![a] = NoBox]
  /\ UNCHANGED <<now, members, gone, epoch, store, agent, consents, room, syncDue, held, late, plan>>

\* The process ends without a word and loses its lease
AgentCrash(a) ==
  /\ May("crash") /\ a \in plan.weak /\ (up[a] \/ held[a] # NoLease)
  /\ up' = [up EXCEPT ![a] = FALSE] /\ box' = [box EXCEPT ![a] = NoBox]
  /\ held' = [held EXCEPT ![a] = NoLease]
  /\ UNCHANGED <<now, members, gone, epoch, store, agent, consents, room, syncDue, late, plan>>

\* Faulty: the end of a replaced connection disconnects the new one.
FaultyDisconnected(a, ended) == [agent EXCEPT ![a].sock = FALSE, ![a].seen = 0, ![a].draining = FALSE]

\* disconnect: only the socket the agent is bound to takes it offline
Disconnected(a, ended) ==
  IF ended = "bound" THEN [agent EXCEPT ![a].sock = FALSE, ![a].seen = 0, ![a].draining = FALSE] ELSE agent

SocketCloses(a, ended) ==
  /\ CASE ended = "bound" -> agent[a].sock /\ ~up[a] /\ late' = late
       [] ended = "replaced" -> late[a] /\ late' = [late EXCEPT ![a] = FALSE]
  /\ agent' = Disconnected(a, ended)
  /\ UNCHANGED <<now, members, gone, epoch, store, up, held, plan>>
  /\ IF agent' = agent THEN UNCHANGED <<room, consents, syncDue, box>> ELSE BroadcastFor(a, agent', consents)

\* capability: sent on authentication and with every heartbeat
SetCapability(a, fitness) ==
  /\ up[a] /\ agent[a].sock
  /\ fitness = agent[a].fitness \/ (May("fitness") /\ a \in plan.weak /\ fitness \in Fitness \cup {0})
  /\ agent' = [agent EXCEPT ![a].fitness = fitness, ![a].peers = PeerLimit[a]]
  /\ agent' # agent
  /\ UNCHANGED <<now, members, gone, epoch, store, up, held, late, plan>>
  /\ BroadcastFor(a, agent', consents)

SetDraining(a, enabled) ==
  /\ May("drain") /\ a \in plan.weak /\ up[a] /\ agent[a].sock /\ agent[a].draining # enabled
  /\ agent' = [agent EXCEPT ![a].draining = enabled, ![a].seen = now]
  /\ UNCHANGED <<now, members, gone, epoch, store, up, held, late, plan>>
  /\ BroadcastFor(a, agent', consents)

\* heartbeats of the native agent: the leases it holds
Reported(a) == IF held[a].expires > now THEN held[a].route ELSE 0
Expected(a) == IF InRoute(room, a) THEN room.route ELSE 0

\* heartbeat: refused unless it names exactly the agent's rooms and their routes
Heartbeat(a) ==
  /\ up[a] /\ agent[a].sock /\ agent[a].seen # now
  /\ Reported(a) = Expected(a)
  /\ agent' = [agent EXCEPT ![a].seen = now]
  /\ UNCHANGED <<now, members, gone, epoch, store, consents, room, syncDue, box, up, held, late, plan>>

-----------------------------------------------------------------------------
(* The native agent *)

\* validateLease: each rule a lease of the server could break
ValidLease(a, l) ==
  l = NoLease \/
  /\ l.expires > now /\ Cardinality(l.peers) <= PeerLimit[a] /\ Cardinality(l.links) <= 2
  /\ \A s \in l.plans : /\ s.sub \in l.mine /\ s.pub \in l.peers /\ s.sub # s.pub
                        /\ s.pub \in l.mine \/ \E r \in l.routes : r.pub = s.pub
  /\ \A r \in l.routes :
       /\ r.pub \in l.peers /\ Cardinality(r.edges) <= 2
       /\ \A e \in r.edges : e[1] # e[2] /\ e[2] # r.source
       /\ \A e, f \in r.edges : e # f => e[2] # f[2]
       /\ \A e \in r.edges : e[1] = r.source \/ \E f \in r.edges : f = <<r.source, e[1]>>
       /\ \A e \in r.edges : a \in {e[1], e[2]} => {e[1], e[2]} \in l.links
  /\ \A d \in l.demands : /\ {d[1], d[2]} \in l.links /\ d[3] \in l.peers
                          /\ \E r \in l.routes : r.pub = d[3] /\ <<d[1], d[2]>> \in r.edges

\* applySync, updateLease; a lease that is not valid ends the connection
ApplySync(a) ==
  /\ box[a].has
  /\ box' = [box EXCEPT ![a] = NoBox]
  /\ LET l == box[a].lease IN
     IF ValidLease(a, l) THEN held' = [held EXCEPT ![a] = l] /\ up' = up
     ELSE up' = [up EXCEPT ![a] = FALSE] /\ held' = held
  /\ UNCHANGED <<now, members, gone, epoch, store, agent, consents, room, syncDue, late, plan>>

\* peer-state of the agent: a connection of its current lease came up or went down
SetAgentPeerState(a, p, connected) ==
  /\ May("ready") /\ up[a] /\ agent[a].sock /\ p \in members
  /\ held[a].expires > now /\ p \in held[a].mine
  /\ Authorized(a, p, held[a].route)
  /\ UNCHANGED <<now, members, gone, epoch, store, agent, up, held, late, plan>>
  /\ Broadcast(agent, consents,
       [room EXCEPT !.agentReady = IF connected THEN @ \cup {<<a, p>>} ELSE @ \ {<<a, p>>}],
       members, epoch)

\* federation-state of the agent, for a link of its lease
SetFederationState(a, l, connected) ==
  /\ May("ready") /\ up[a] /\ agent[a].sock /\ held[a].expires > now /\ l \in held[a].links
  /\ room.route = held[a].route /\ room.lease >= now /\ l \in Links(room, members)
  /\ UNCHANGED <<now, members, gone, epoch, store, agent, up, held, late, plan>>
  /\ Broadcast(agent, consents,
       [room EXCEPT !.linkReady = IF connected THEN @ \cup {<<l, a>>} ELSE @ \ {<<l, a>>}],
       members, epoch)

\* Faulty: the revision of a reported plan is not compared.
FaultyApplies(a, s) == \E t \in room.plans : <<t.sub, t.pub, t.agent>> = <<s.sub, s.pub, a>>

\* subscriptionPlan and the revision setAgentSubscriptionState asks for
Applies(a, s) == room.route = held[a].route /\ room.lease >= now /\ s \in room.plans

\* setAgentSubscriptionState: the agent forwards, or no longer forwards, a plan it was given
SetAgentSubscriptionState(a, s, ready) ==
  /\ up[a] /\ agent[a].sock /\ held[a].expires > now /\ s \in held[a].plans
  /\ ready => s.enabled
  /\ Applies(a, s)
  /\ room' = [room EXCEPT !.applied =
       {t \in @ : <<t.sub, t.pub>> # <<s.sub, s.pub>>} \cup (IF ready THEN {s} ELSE {})]
  /\ UNCHANGED <<now, members, gone, epoch, store, agent, consents, syncDue, box, up, held, late, plan>>

-----------------------------------------------------------------------------
\* The clock, in periods of the renewal timer, which is shorter than the lease: the room is
\* reconciled in every period.  An agent prunes leases every second.
Tick ==
  /\ now < plan.time /\ (members # {} => room.lease = now + LeaseTime)
  /\ now' = now + 1
  /\ held' = [a \in Agents |-> IF held[a].expires > now' THEN held[a] ELSE NoLease]
  /\ UNCHANGED <<members, gone, epoch, store, agent, consents, room, syncDue, box, up, late, plan>>

\* mediaAgentRenewal
Renew ==
  /\ members # {} /\ room.lease < now + LeaseTime
  /\ UNCHANGED <<now, members, gone, epoch, store, agent, up, held, late, plan>>
  /\ Broadcast(agent, consents, room, members, epoch)

Init ==
  /\ now = 0 /\ members = {} /\ gone = {} /\ epoch = 0
  /\ plan \in Plans
  /\ store = [a \in Agents |-> [st |-> IF a \in Enrolled THEN "none" ELSE "configured", expires |-> 0]]
  /\ agent = [a \in Agents |-> IF a \in Enrolled THEN Unknown ELSE NewAgent]
  /\ consents = <<>> /\ room = NoRoom /\ syncDue = FALSE
  /\ box = [a \in Agents |-> NoBox]
  /\ up = [a \in Agents |-> FALSE] /\ held = [a \in Agents |-> NoLease]
  /\ late = [a \in Agents |-> FALSE]

MemberNext ==
  \/ \E p \in Peers : Join(p) \/ Leave(p)
  \/ \E p \in Peers, as \in SUBSET Agents, auto \in BOOLEAN : SetConsent(p, as, auto)
  \/ \E p \in Peers, accepted \in BOOLEAN : RespondToTakeover(p, accepted)
  \/ \E p \in Peers, a \in Agents, connected \in BOOLEAN : SetBrowserPeerState(p, a, connected)
  \/ \E s, p \in Peers, enabled \in BOOLEAN : SetSubscriptionIntent(s, p, enabled)
  \/ \E s \in room.plans : RevokeSubscription(s)
  \/ \E p \in Peers : RemovePublisherSource(p)

AgentNext ==
  \/ \E a \in Agents : CreateEnrollment(a) \/ Enroll(a) \/ Revoke(a)
  \/ \E a \in Agents : Authenticate(a) \/ ConnectionLost(a) \/ AgentCrash(a) \/ Heartbeat(a) \/ ApplySync(a)
  \/ \E a \in Agents, ended \in {"bound", "replaced"} : SocketCloses(a, ended)
  \/ \E a \in Agents, f \in Fitness \cup {0, DefaultFitness} : SetCapability(a, f)
  \/ \E a \in Agents, enabled \in BOOLEAN : SetDraining(a, enabled)
  \/ \E a \in Agents, p \in Peers, connected \in BOOLEAN : SetAgentPeerState(a, p, connected)
  \/ \E a \in Agents, connected \in BOOLEAN : \E l \in held[a].links : SetFederationState(a, l, connected)
  \/ \E a \in Agents, ready \in BOOLEAN : \E s \in held[a].plans : SetAgentSubscriptionState(a, s, ready)

Next == MemberNext \/ AgentNext \/ SyncTimer \/ Tick \/ Renew \/ ServerRestart

Spec == Init /\ [][Next]_vars
-----------------------------------------------------------------------------
(* Properties *)

TypeOK ==
  /\ now \in Nat /\ epoch \in Nat /\ plan \in Plans
  /\ members \subseteq Peers /\ IsFiniteSet(members) /\ gone \subseteq Peers \ members
  /\ store \in [Agents -> Row] /\ agent \in [Agents -> Entry]
  /\ consents \in Seq(Consent) /\ room \in Room /\ syncDue \in BOOLEAN
  /\ box \in [Agents -> [has : BOOLEAN, lease : Lease]] /\ held \in [Agents -> Lease]
  /\ up \in [Agents -> BOOLEAN] /\ late \in [Agents -> BOOLEAN]

\* Whatever joins, leaves, consents, disconnects and revocations come between: an agent in the route
\* is connected, registered, fit, wanted by a member who owns it, heard of within the lease once the
\* period's renewal has run, and the room is large enough to need it.
RouteIsEntitled ==
  \A a \in Agents : InRoute(room, a) =>
    /\ agent[a].known /\ agent[a].sock /\ ~agent[a].draining /\ agent[a].fitness > 0
    /\ Cardinality(members) >= MinParticipants
    /\ \E i \in DOMAIN consents : consents[i].agent = a /\ OwnerOf[a] = PrincipalOf[consents[i].peer]
    /\ room.lease = now + LeaseTime => now - agent[a].seen <= LeaseTime

\* No member is ever served by two native agents as primary of one route, however late their syncs.
\* (A room that all have left and others opened starts its routes over, so that the old primary
\* may hold the number of a new route, for members who are gone.)
OnePrimaryPerRoute ==
  \A a, b \in Agents :
    a # b /\ held[a].role = "primary" /\ held[b].role = "primary" /\ held[a].route = held[b].route
    => held[a].peers \cap held[b].peers = {}

\* A primary serves every member, and what a member publishes reaches the agent of every other one
\* over links of the plan, in two hops at most and on one way only.
FederationReaches ==
  room.primary # 0 =>
    \A p \in members :
      LET es == Edges(room, members, p)  source == AgentOf(room, p)
      IN /\ Contains(Forwarders(room, members), source)
         /\ \A e \in es : {e[1], e[2]} \in Links(room, members)
         /\ \A e, f \in es : e[2] = f[2] => e = f
         /\ \A q \in members : LET t == AgentOf(room, q)
              IN t = source \/ <<source, t>> \in es \/ (<<source, room.primary>> \in es
                                                         /\ <<room.primary, t>> \in es)

\* Once its syncs have arrived, the heartbeat of a connected agent names what the server expects, so
\* that a living agent is never given up for silent: the lease it was sent has not run out either.
SettledAgentsAreRecognised ==
  \A a \in Agents : up[a] /\ ~box[a].has => agent[a].known /\ agent[a].sock /\ Reported(a) = Expected(a)

\* What counts as forwarded by the agent is the newest plan of that subscriber: a publisher never
\* gives up its direct path for a plan that was replaced, revoked or made for an earlier route.
AppliedPlansAreCurrent ==
  \A s \in room.applied : s \in room.plans /\ s.enabled /\ s.agent = AgentOf(room, s.sub)

\* After the primary was lost, however many elections ago, an agent takes its place only with its
\* owner's standing consent to automatic takeover or an approval that has not run out.
FailoverAsks ==
  [][room.hadPrimary /\ room'.primary \notin {0, room.primary}
     /\ (\A c \in Candidates(consents', agent', members') : c.id # room.primary)
     => \/ DecidingConsent(consents', room'.primary).auto
        \/ room.approved[room'.primary] >= now \/ room'.approved[room'.primary] > now]_vars

=============================================================================
