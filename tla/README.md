# A TLA+ model of the meeting server, its agents and its clients

The repository is a WebRTC meeting system: a Node.js server (`src/src/*.js`) that admits
members to rooms and relays their signals, browsers that build a mesh among themselves
(`src/frontend/src/app/webrtc`), media agents that forward encrypted media for larger
rooms (`src/media-edge-agent`), and an optional *broadcast* branch that publishes a
room's program to viewers outside it, through a browser's WHIP ingest or a native
packager (`src/native-broadcast-packager`). This directory models the control plane of
all five: who may be where, which process works for whom under which lease, who holds
which key, and what happens when messages, timers, failures and requests that await
something meet. Packets, codecs and presentation are not modelled.

The server is one Node.js process and a browser tab is one thread: within one of them the
interleavings that matter are those of `await`. A handler runs alone until it awaits, and
other handlers, timers and socket events run before it resumes. Every action below is the
code between two such points. Between processes anything may come first that the
connection between them does not order.

## 1. Inventory

| Part (source) | State | Operations | Hard part | What makes it correct |
|---|---|---|---|---|
| Program machine (`broadcast-program-machine.js`, `-model.js`, `-command.js`, `broadcast-transitions.js`) | one immutable snapshot: state, revision, broadcast and lease epoch, sources, writer leases, ledger of applied commands | 14 commands, renewal of leases | stale and repeated commands, concurrent handoffs, a bounded ledger | one writer per role, fences unique, old writers fenced, stopped is final |
| Writer fencing (`broadcast-writer-fencing.js`) | none (reads the snapshot) | authorise, renew | late writers | the contract `FencedWriters` |
| Grant authority (`broadcast-grant-authority.js`) | pending issues, records, keys, revoked epochs | issue, verify, consume, revoke, rotate, disable, prune | revocation during signing and verification | dead grants stay dead, single use, quotas |
| Runtime registry (`broadcast-runtime-registry.js`, with `-audience-registry.js`, `-program-lifetime.js`, `-program-capacity.js`) | one record per program, challenges, publisher transactions | about 25 requests, a maintenance timer | records replaced while a request awaits; ledger, capacity and time at their limits | no stale grant is delivered; a program can always be stopped |
| Gateway callback (`mediamtx-external-auth.js`, `server.js`) | none | authorise publish | a time read before an await | the program it admits is the granted one |
| Failover coordinator (`broadcast-failover-coordinator.js`) | standbys, leases, fence, outbox per program | configure, acquire, heartbeat, evaluate, acknowledge, restore | exceptions half-way, late heartbeats, restarts | as for fencing; restorable snapshots |
| Packager assignments (`native-packager-assignment.js`, `-control.js`, `-handoff.js`, `packager-capacity-ledger.js`; Go packager) | assignments, two indexes, control sockets; the packager's own assignment | prepare, start, stop, renew, acknowledge, expire, hand over | acknowledgements against deadlines, both ends giving up on their own | one writer, budgets hold, nothing stays behind |
| Rooms (`room-registry.js`, `session-tickets.js`, `breakout-set.js`, `room-moderation.js`, `room-directory.js`, `ice-refresh-grants.js`) | rooms, peers, tickets, breakout sets and grants, pending removals, directory entries | admit, join, leave, moderate, assign, choose, recall, prune | one-time tickets and grants against timers, owners leaving, rooms closing | grants are not spent in vain, one room per family, removals can end |
| Media agents (`media-agent-registry.js`, `-election.js`, `-enrollment-store.js`; Go agent) | agents, consents, routes, readiness, subscription plans; the agent's lease | enrol, connect, consent, elect, take over, renew, revoke | agents vanish between election and use; syncs come late | entitled agents, one primary per route, everyone is reached |
| Peer negotiation (`peer-connection-manager.ts`) | per pair: signalling state, tiers, four timers, a reset state | offer, answer, roll back, restart ICE, climb tiers, rebuild | glare, late answers, timers that leave the work to one another | both agree, and are connected in the end |
| Media keys (`peer-mesh.service.ts`, `opaque-data-overlay.ts`, `server.js`) | overlay pairs, ring of public keys, media and agent keys with acknowledgements | announce, import, provision, acknowledge, rotate, recover | three channels without a common order, imports that await | agreement, departed members shut out, protected in the end |
| Playback (`broadcast-playback-session-store.js`, `broadcast-hls-*.js`) | sessions, byte budgets | open, refresh, revoke | revocation against open streams | no session outlives its grant (planned) |
| Machine participants (`machine-session-leases.js`, `machine-chat-queue.js`, ...) | leases, a bounded queue | admit, renew, enqueue | limits, trust reload | lease bounds, order of messages (planned) |
| Trusted sources (`trusted-broadcast-source-*.js`) | grants, requests, consents | request, decide, revoke | consents against room membership | (planned) |
| Rest of the client, of the Go processes, infrastructure | | | WebRTC, FFmpeg, files, presentation | not modelled |

How they interact. `server.js` routes HTTP and WebSocket requests to the registries. A
session request answers with a one-time ticket and a grant to refresh TURN credentials;
the socket opened with it joins the room, and every join and leave raises the room's
membership epoch, sends a new topology to all members and has the media agents of the
room elected again. Members relay offers and answers through the server to each other
and announce overlay keys the same way; media keys go directly, over the encrypted
channel those make. Media agents and packagers hold a control socket each, over which the
server sends leases and commands and they heartbeats and statuses. The runtime registry
applies commands to the program machine (a pure function from snapshot to snapshot), asks
the grant authority for signatures, and revokes a program's epoch there when it stops. A
member leaving a room stops the programs that device publishes. MediaMTX calls back when
a WHIP ingest arrives. Timers renew routes, prune what is over (rooms and assignments
every 30 s, programs every 500 ms) and terminate silent sockets. The failover coordinator
has the same notion of fence, but only its metrics are wired into the server today.

`PROJECT.json` lists every component with its status, and under `hazards` each place
where the code is exposed to something a test hardly reaches, with the properties that
would catch it.

## 2. Modules

| Module | Models | Composed of |
|---|---|---|
| `ProgramReducer` | the program machine as operators on a snapshot: for each command its guard (`StartOK`) and its result (`Start`), the ledger, writer authorisation and renewal | |
| `BroadcastProgram` | one program and everything that may send it commands, with commands built from snapshots up to `Lag` revisions old | extends `ProgramReducer` |
| `FencedWriters` | the abstract contract of fencing: a counter, the writers, closed | implemented by `BroadcastProgram` and `BroadcastFailover` |
| `BroadcastGrants` | the grant authority, issue and verification split at their awaits | |
| `BroadcastRuntime` | the registry: programs, request slots with phases, room presence, the clock | extends `ProgramReducer`: each program's record holds a real machine |
| `BroadcastFailover` | the failover coordinator for one program | |
| `PackagerAssignments` | assignments, handoff coordinator, control sockets, and the packagers at their other end | server and Go process over two queues |
| `Rooms` | tickets, refresh grants, rooms, breakout sets, moderation, directory | |
| `MediaAgents` | enrolment, registry, election, routes, and the lease each agent holds | server and Go process over syncs |
| `PeerNegotiation` | two browsers negotiating one connection | two managers over two queues |
| `MeshKeys` | overlay, media and agent keys of up to three browsers | browsers and server over in-, out- and peer channels |
| `BroadcastProgramProofs`, `BroadcastGrantsProofs`, `BroadcastRuntimeProofs`, `BroadcastFailoverProofs`, `PackagerAssignmentsProofs`, `RoomsProofs`, `MediaAgentsProofs`, `MeshKeysProofs` | the theorems about the module of that name, see section 4 | each extends its module |
| `MC*` | constants and plans for model checking | |

Operators named `Faulty...` are deliberate mistakes next to the definition they could
replace. None is used by a specification: substituted for their neighbour they make the
property named in `PROJECT.json` fail, which shows that the property depends on the code.

Every module has its `TypeOK`; the runs list other properties, and of all modules but
`PeerNegotiation` the type invariant is proved.

### State and actions

*Program.* `machine` is the snapshot; null becomes `state = "none"`. Programs keep the
fields the reducer reads. `DoX(cmd)` is `applyBroadcastProgramCommand` for action X:
duplicate key, then revision and epoch checks, then the command's own guard, then the
ledger entry. An expected lease epoch is an input of the two commands that carry one.
`effects` holds the effects of the last command, `issued` every writer token ever handed
out (history), and writer events name any of these, so stale events occur.

*Grants.* `pendingIssues` and `records` are one function with a status per grant id.
`IssueBegin`/`SignSettle` and the two halves of a verification are separate actions; the
time a verification uses is the time its request arrived, as in the code. Requests the
policy refuses change nothing and are left out.

*Runtime.* `records[p]` holds the machine, the deadline, the latest observed time, the
resource, publisher, pending handoff, standby generation and stop reason; `requests[q]`
is one request at the point where it awaits, and its `bound` flag stands for the code's
comparison of record identities (`this.#records.get(key) !== current`). Handlers that
begin with `prune(now)` are guarded by "nothing to prune": the pruning itself is
`Prune`/`Observe`, which the timer may run at any moment, so handler = `Prune` followed
by the rest. The grant authority only signs or fails here: what it guarantees is the
subject of `BroadcastGrants`. Members are peers on devices: two tabs of one device are
two peers the registry cannot tell apart, as in the code. `Leave` is guarded by the stops
it makes being possible; `server.js` would catch the exception and let the peer go, and
`StopIsAlwaysPossible` shows there is none. The handoff coordinator's calls (complete,
cancel) may come at any time while a handoff is pending; the loop that makes them is in
`PackagerAssignments`.

*Failover.* `program` is the coordinator's entry. `#emit` throws when the outbox is full;
what was changed before the call stays changed, so `Emit` loses the event and leaves the
rest, and `EvaluateBlocked` is the one place where the exception comes before the
change. `Restart` restores the snapshot taken after the last operation: candidates are
not in it. Which snapshot a caller keeps is not part of the code; `restore` would accept
an older one, with its older fences. The device of a candidate and the failure type (but
for "browser") decide nothing and are left out.

*Packager assignments.* `assignments`, `byPackager` and `byProgram` are the registry's
three maps, `programs` the phase and writer the runtime keeps, `handoffs` the request that
waits for the old packager's stop. `up` and `down` are the two directions of the control
socket; `socket` is the server's end, `linked` the packager's, and the two learn of a
loss separately (`LinkLost`, `SocketLost`, `ReceiveClosed`). `Prepare`, `BeginHandoff`,
`CompleteHandoff`, `CancelHandoff`, `StopProgram`, `PublisherLeaves` and `Prune` are
handlers of the server; `Obey`, `Transition`, `SendHeartbeat`, `Expire` and `Overheat`
are the Go process. An assignment id stands for the epoch and fence it was made with.

*Rooms.* A connection goes from no ticket over `IssueSession` to `Connect`, which is the
upgrade and the whole of `join`; `BurnTicket` is a ticket consumed by a socket that is
refused. `MayEnter` and `Fits` are the two halves of `join`, before and after a grant is
consumed. `Leave` is the close handler with everything it ends, `Prune` the 30 s timer over
all registries, `RemoveTimer` the timer of a deferred removal. A closing socket
(`SocketCloses`) and its `Leave` are two steps, since a socket the server closes still
delivers messages until its close event.

*Media agents.* `Broadcast` is `broadcastMediaAgentState`, the tail of every handler that
changes anything the election reads: `Reconciled` computes the room's entry anew and
`SyncAgents` sends every connected agent its lease. `Opened`, `Voted`, `Elected`,
`Assigned` and `Renewed` are the parts of `reconcile` in its order; `Election` is
`planMediaAgents`. `held` is the lease an agent has applied, `box` what is on the way to
it, `late` the close event of a socket that was replaced. The enrolment database survives
`ServerRestart`, the registry does not.

*Negotiation.* `side[s]` is the managed peer with its control record; `busy` is the signal
the queue is working on and the await it has reached (`rollback`, `refresh`, `apply`,
`answer`/`restart`), so that the browser's events and the timers run in between. `event`
is the browser's negotiation-needed flag. `reset[s]` outlives the connection, as in the
code. The browser and ICE are external: `Looked`/`Noted` say when the browser fires the
event, `Reachable` when a pair of credentials and relays can connect.

*Keys.* `cl[c]` is the mesh service of a client, `inbox`/`outbox` its messages from and to
the server, `link[c][d]` the packets of the overlay channel. An overlay key is generated
and imported in two steps each (`making`, `imports`), as the code awaits. `agent` is the
shared key of the agent path with who was told and who acknowledged. `ResetStarts` is a
connection rebuilt by the negotiation, `AgentRenewal` the server's periodic agent state.

## 3. Runs

| Run | Instance | Shows |
|---|---|---|
| `broadcast_program` | 1 source, 1 holder, 2 lease ids, ledger of 7, lag 1; 392 k states | exclusive writers of the current generation (`WritersAreExclusive`); the program implements `FencedWriters`; a superseded writer is never authorised again; stopped is final |
| `broadcast_grants` | 2 grants, 2 subjects, 2 keys, 2 concurrent verifications | single use, quotas with signatures in flight, revoked epochs and dead grants across both awaits |
| `runtime_native` | 1 program, 2 packagers, 1 request, ledger of 16; 820 k states | the program can always be stopped; a handoff is fenced (late output of the old writer does not bring it back) and has the room to finish |
| `runtime_requests` | 2 programs, capacity 1, 2 requests, ledger of 6, one clock step; 696 k states | grants delivered after an await belong to the program as it is now; the limit on programs holds while requests await |
| `runtime_liveness` | 1 program, 2 tabs of one device, ledger of 9; 68 k states | every program that is on the air has a publisher in the room; transactions settle; expired programs stop |
| `failover` | 2 roles, 2 standbys (one loses its consent), outbox of 2, lease epoch 2, two fences beyond it; 254 k states | implements `FencedWriters` although events are lost and operations end half-way; its own snapshots restore |
| `rooms` | 7 situations of one room and two breakout rooms; 161 k states | a breakout grant that `join` consumes is never wasted on a refusal; one room per family; breakouts end with their set; a pending removal has its actor, its target and its timer; members can refresh TURN credentials |
| `media_agents` | 9 situations of up to 4 peers and 3 agents, one of them a room that all leave and others open again; 139 k states | routed agents are entitled; no member is served by two primaries of one route; media reach everybody in two hops; the server knows every connected agent whose syncs have arrived, and its heartbeats match; applied plans are current; failover asks the owner |
| `peer_negotiation` | 12 situations of one pair; 60 k states | answers meet their offers; at rest both sides agree; both are connected in the end |
| `mesh_keys` | 12 situations of up to 3 clients; 43 k states | overlay keys agree; departed members are shut out; the agent key in use is held by all; media is protected in the end |
| `packager_assignments` | 6 situations of 2 packagers and 1 or 2 programs; 96 k states | one writer per program; encoders fit the budget; ghosts end; packagers of stopped programs fall silent |
| `lost_keys` (violation) | one situation of `mesh_keys` | see section 5 |

**Situations.** The five modules at the end of the list have many kinds of event, and all
of them at once is far beyond TLC. Their constant `Plans` is a set of situations, each of
which says who takes part, which features are used and how often the environment
intervenes; a behaviour chooses one initially and keeps it. An action belongs to
the system (always enabled when the code is) or to the environment (limited by the plan):
losses, faults, changes by users, early timers. Every action takes place in some
situation, and the situations are chosen so that events of different kinds meet: a
removal and a closing socket, a failing primary and a declined takeover, a handoff and a
lost connection, a rotation and a departure.

**Bounds.** Each bound is a constant with a name or a field of a plan: `MaxTime`,
`MaxRecords` (the ledger, 256 in the code), `MaxLease`, `Lag`, `MaxUses`, `MaxFence`,
`MaxSequence`, `MaxOutbox` (256 in the code), `MaxRoute`, `MaxRevision`,
`MaxAssignments`, `MaxQueue`, and the `Ids` of `PeerNegotiation`, which only needs as many
numbers as are in use at a time. The keys of `MeshKeys` need no bound: a new one is the
least number not in use. Two or three clock steps separate "before", "at" and "after" the deadlines;
two request slots give every race between two awaits; a ledger of 16 is full after one
start, one handoff (for which the code reserves 8 entries, so that a smaller one could
not contain it) and some output changes; the capacity run needs one program more than
fits. The failover outbox is full after two events, which is what its run is about.
`Rooms` has rooms of three, breakouts of two, and all lifetimes at one or two ticks in
the order the code gives them. A room of three members and three agents is sharded
(`ShardMinParticipants`), which is the least for a federation of two hops. Two queued
control messages per direction, two assignments and three ticks (a lease is two) are the
least for a handoff during which the first lease ends. Symmetry is used for lease ids
and holders, grants, verifications, request slots and the failover roles, which nothing
compares but for equality, and in no liveness run.

Deadlock is checked except where the system may come to rest: `broadcast_program` (a
stopped program whose ledger is full accepts nothing more), and the runs of the four
modules whose environment has a budget: once it is used up, a room whose agents are
settled, a connected pair, a protected room and stopped assignments wait for nothing.

**Fairness.**
* `runtime_liveness` assumes weak fairness of `Prune` (the timer of `server.js:3003`,
  every 500 ms), of `TransactionTimeout` (the timer of `#publisherTransaction`) and of the
  synchronous continuations of a transaction. Nothing is assumed of signatures: they may
  never settle.
* `peer_negotiation`: signals are delivered and the browser goes on (weak). Timers are
  strongly fair: each has a bounded delay, so one that is armed again and again runs out
  even if another one does so first; credentials that are asked for again and again are
  had at last, without which no relay tier could be of use.
* `mesh_keys`: messages are handled (weak); the retry timers and the recovery timer run
  out (strong, since what they wait for may be void for a moment); the server renews the
  agent state. Retries are capped at 60 in the code and not in the model.
* `packager_assignments`: messages are read, both tickers run, time passes (weak). Reading
  the end of a connection is strongly fair: the packager waits a second before it
  reconnects, so it does not lose connections faster than the server reads of it. The
  packager's progress (`Transition`) is not assumed.

`EventuallyConnected` is stated for pairs that have a tier they can reach each other over;
`AnswersMeetTheirOffers` and `QuietMeansAgreed` for situations without early timers and
slow credentials, for the reasons in section 5; the properties of `MeshKeys` that a
rebuilt connection or a change of route alone can break say so in their definition.

## 4. Proofs

TLAPS proves, for every value of the constants allowed by the named assumptions:

* `BroadcastProgramProofs`: `TypeCorrect`, `ExclusiveWriters`, `UniqueFences`,
  `OrderedLedger` (invariants), `FencedForGood`, `StoppedForGood` (action properties) and
  `FencingImplemented` (refinement of `FencedWriters`). The inductive invariant `IInv` is
  the conjunction of the first four with `Unborn`: a snapshot without a program has no
  writers, no ledger and its first epochs. None of the four is inductive alone: that a
  handoff's fence is new needs every issued fence to be at most the lease epoch, that a
  writer is exclusive needs the ledger to reject the replay, and the refinement's initial
  state needs `Unborn`. The proof has one lemma per command on the reducer (types, how
  the epochs move, which writers remain) and one step per action.
* `BroadcastGrantsProofs`: `GrantTypes`, `BackedGrants`, `SingleUse` (invariants),
  `RevokedEpochs`, `DeadGrants` (action properties). The inductive invariant `GInv` adds
  that the active key is enabled, and how often a grant was used given its status. The
  argument: every action but issue and acceptance only lets a grant *fade* (`Fades`), and
  a grant that left "issued" is never used. `Quotas` (`QuotasHold`): the set of charged
  grants only shrinks but for an issue, which adds one grant to sets below their limits.
* `BroadcastFailoverProofs`: `FailoverTypes`, `SnapshotsRestore` (`OwnSnapshotsRestore`),
  `DistinctEvents` (no two events of the outbox share an id) and
  `FailoverImplementsFencing`. `IInv` says that the entry is `Sound`: it passes every check
  of `restore`, no lease was issued in the future, and event ids grow along the outbox up
  to the sequence. The first would be broken by a sequence that falls behind an event a
  full outbox kept, hence the third. `Best` needs a lemma of its own: every finite
  non-empty set of standbys has a best one.
* `BroadcastRuntimeProofs`: `StopsFit`, `HandoffsCanFinish`, `HandoffsAreFenced`,
  `GrantsAreCurrent`, `CapacityIsKept`, `PublishersStay`, `RuntimeTypes`. `IInv` says of
  every record (`GoodRecord`) how much of the ledger is left in each state, and of every
  request (`GoodRequest`) what it may rely on when it resumes: as long as it is bound to
  its record, the machine is in the state and generation it was started for; the peer of
  a transaction that was not aborted is present; and a WHIP token that could still publish
  meets no pending handoff. `CapacityHolds` counts the programs that run *or* have a
  transaction under way (`Taken`). The lemmas follow the machine: one per command about
  the entries it costs, one per way in which a record changes, then one per action.
* `PackagerAssignmentsProofs`: `WriterIsUnique` (`OneWriter`), `EncodersAreAdmitted`
  (`EncodersFit`), `AssignmentTypes`. `OneWriter` is about two Go processes, while the code
  that ensures it is the server's. `IInv` joins them: an assignment is `Reachable` while a
  packager works on it or a prepare command for it is under way; "stopped" is only said,
  and only believed, of one that is not reachable any more (`StoppedIsOver`); the index and
  a handoff name the last assignment of their program (`Latest`), and only that one can be
  reachable (`Superseded`). For the budget no packager's lease runs longer than the
  server's record (`Commands`, `Held`).
* `RoomsProofs`: `OneRoomEach`, `BreakoutsEnd`, `RemovalsAreDriven`, `CredentialsRefresh`,
  `GrantsAreNotWasted`, `RoomsTypes`. `IInv` adds that members and connections agree
  (`Seated`, `Placed`), that open sets share no child (`DisjointSets`), that a ticket ends
  no later than the time its refresh grant waits for (`Refreshable`), and that members and
  promised places of a breakout room fit it, where a user has one live grant at most
  (`Seats`). The last is what makes a granted entry fit; the work in it is
  `assignBalanced`, which deals grants to many users in one step.
* `MediaAgentsProofs`: `RoutesAreEntitled`, `PrimaryIsUnique`, `PublishersReachAll`,
  `AgentsAreRecognised`, `PlansAreCurrent`, `FailoverIsAsked` (action property),
  `AgentTypes`. `IInv` adds that a room exists exactly while it has members (`Open`), that
  consents are of members for their own agents (`Owned`), that every member is assigned to
  a forwarder (`Covers`), and three statements about leases held or under way: a primary's
  lease that names a member is of no later route than the room's, and if of the present one
  its holder is the primary (`Dated`); two such leases of one route share no peer
  (`Apart`); and what a connected agent will have when its syncs have arrived is what the
  server expects (`Synced`). `reconcile` is proved about once, as a relation between the
  room before and after it, and likewise the tail that sends the syncs; each action then
  needs only what it changes before it calls them.
* `MeshKeysProofs`: `KeysAgree` (`OverlayKeysAgree`), `DepartedShutOut`
  (`DepartedAreShutOut`), `AgentKeysHeld` (`AgentKeyIsHeld`), `MeshTypes`, `MeshInvariant`.
  They hold for any number of clients and any plan, with members that join, leave, publish
  and rebuild connections, although each client handles the server's messages at its own
  time. What makes them inductive is one idea: the messages under way are part of the
  state they will bring about. `Views` says that a client's inbox leads, message by
  message, from the room as the client has it (`Seen`) to the room as it is (`Leads`): each
  change of the members is followed by the topology with its epoch, and keys and markers
  come after the topology they belong to. For each pair of the present membership `Fed`
  says where the newest overlay key is: still to be relayed, with nothing behind it that
  would replace it (`Announced`); in the other's inbox, stamped with the present epoch
  (`Arriving`); imported or being so (`Arrived`); or about to be asked for by a marker
  (`Asked`), of which there is one at most, sent by the side that has rebuilt the
  connection once more often (`Marked`). For who is gone, `Shut`: a key in use that it
  knows is one whose owner has not applied the departure yet. For the shared key, `Held`
  says that who has acknowledged it, or whose acknowledgement is on the way, has it until
  a later epoch; and who was added as a peer after the key was activated has never known
  its epoch (`Later`), which needs that every join announced in an inbox is newer than the
  topologies before it (`Newcomer`). There is a lemma per handler and per
  action; those of a client go through what its steps respect (`RoomStep` for the membership
  and the overlay keys, `KeyStep` for the shared key), those of the server through
  `NewsStep`, for messages that change no member, and `ChangeFacts`.

**Assumptions.** Each is a named `ASSUME` of the module that declares the constants, and TLC
evaluates it in every run. They say that bounds and lifetimes are natural numbers, mostly
positive, that sets which are counted or ordered are finite, that a value standing for
"nothing" is none of the things, and what the code's configuration ensures: a session
ticket lives no longer than the time a refresh grant waits for its socket
(`TimeAssumption`), random ids of breakout rooms are not ids of other rooms
(`RoomAssumption`), the renewal period is shorter than the media agents' lease and there
are at most two standbys (`SizeAssumption`). Clients are finitely many (`ClientAssumption`).

**What the proofs changed.** The refinement mapping of the failover coordinator was right
for lease epoch 1 only; it now counts fences from `LeaseEpoch`, and the run uses epoch 2.
`OnePrimaryPerRoute` used to say that two leases as primary are never of the same route; a
room that is left by all and opened again starts its epochs over, which the situations of
the run had not contained. It is now about the members who are served, the situation is
part of the run, and section 5 describes what happens there. What
`SettledAgentsAreRecognised` needed (a connected agent is registered with the server) is
now part of it. The sorts and filters of `MediaAgents` (`Ordered`, `Only`) and the deal of
`assignBalanced` (`Balanced`, a condition on the whole deal instead of a fold) are stated
by what they return, since the prover sees nothing in `SelectSeq` and in recursive
definitions.

`DepartedAreShutOut` of `MeshKeys` used to be about everybody who is not among a member's
peers. The server relays a member's key to a client the member has not heard of yet, and if
that client leaves again at once, the key it knows stays in use until the two messages
about it are handled; no situation of the run contains that. The property is now about
clients outside the room of whose departure the member has heard. New keys of `MeshKeys` came from a constant set, which a
proof for all plans would have had to take as large enough; they are now the least number
not in use. Its messages have exact types, without which the prover cannot tell one
message from another.

**Only model-checked.** Liveness and everything about fairness, which is out of the
prover's reach: `TransactionsSettle`, `ExpiredProgramsStop`, `GhostsEnd`,
`StoppedProgramsFallSilent`, `EventuallyConnected`, `EventuallyProtected`. Not proved:
`QuietMeansAgreed` and `AnswersMeetTheirOffers` of `PeerNegotiation`. An invariant for them
has to describe every signal under way together with every await of both queues, for each
of the situations in which the two properties are claimed; the run enumerates these pairs
completely, for its plans. And what a finding refutes, `KeyLossIsRecovered`.

## 5. Findings and observations

**Finding** (`lost_keys`). `rotateMediaKeys` (`peer-mesh.service.ts:2346`) drops the keys
received from all peers as well, and nothing asks for them again. When a new agent route
reaches two publishers one after the other, the key the first has provisioned for it and
the second has acknowledged is dropped as the second handles the route. Both then count as
protected, so the recovery timer does nothing, and the second never decrypts the first's
media. The comment at lines 1698-1701 promises recovery after a key rotation.

The following is in the models and visible in their behaviours. None of it violates a
property of section 3, which are stated around it where needed.

*Broadcast.*
* `MediaMtxExternalAuthService.authorize` reads the time before it awaits the grant's
  verification (`mediamtx-external-auth.js:86`), and `markPublished` prunes with it. A
  program that observed a later time in between takes it for a clock rollback and stops
  as expired. `docs/broadcast-program-lifetime.md:66` describes the same fault, fixed on
  another path.
* `docs/broadcast-state-machine.md:90` says only `source-change` and `retry` change the
  broadcast epoch; `output-restart` and `visibility-change` change it too.
* `whipSessionCounts` (`broadcast-runtime-registry.js:1366`) recognises native programs by
  a `pkr_` writer, and `markPublished` gives WHIP ingests such a name too: a published
  ingest is never counted as active.
* `evaluate` of the failover coordinator (line 373) does not look at `stopped`; after a
  visible stop it promotes standbys and announces takeovers, which `authorizeWriter` then
  refuses. `acquire` replaces an expired writer at once, while
  `docs/broadcast-failover-and-disaster-recovery.md:25` speaks of a grace period. With a
  full outbox `#promote` installs a writer and then throws, so that no event announces it.

*Packagers.*
* Asking for a second program on a busy packager: `admit`
  (`native-packager-assignment.js:153`) does not look at the packager's active assignment,
  so `prepare` throws after the program was prepared, and the clean-up
  (`server.js:1094-1097`) fails the first program's running assignment
  (`PrepareConflict`). Its packager is neither told nor renewed.
* Only `OUTPUT_READY` marks a program ready again (`server.js:2891`): after
  `THERMAL_RECOVERED` or a reconnected medium it stays degraded.
* A status that crosses a stop is answered with a conflict, the server closes the socket,
  and the handoff that waits for the stop sees "failed" and cancels the program, unlike
  the comment at `server.js:2903-2905`.
* A publisher's leave stops its program and not its assignment, which ends with its lease
  (`StoppedProgramsFallSilent`).

*Rooms.*
* `assign` (`breakout-set.js:180`) drops the user's earlier live grant before it finds the
  child room full.
* Closing a set through the prune timer evicts its members from the registry and leaves
  their sockets open (`room-registry.js:226`, `server.js:2984`).

*Media agents.*
* When the last member leaves, `removeRoom` (`media-agent-registry.js:542`) deletes the
  room's state and `server.js:1929` its epochs; the next members find a room at route epoch
  0. An agent that has not read its empty sync then holds the primary's lease of, say,
  route 2 while another one gets route 2 of the same room id.
  `docs/current-architecture-uml.md:587` calls the route epoch monotone, and
  `docs/blind-media-edge-agent.md:78` says that a room route has one primary. No member is
  served by both: their leases name different peers (`OnePrimaryPerRoute`).
* A draining primary is replaced at once by any fit candidate, without asking
  (`media-agent-election.js:37-38`), unlike `docs/blind-media-edge-agent.md:82-84`.
* An approval survives the withdrawal and renewal of the consent within its lease. An agent
  that reconnects before its old socket's close is read keeps its old readiness.

*Negotiation.*
* While a remote restart waits for credentials the own side may create an offer, which
  the comment at `peer-connection-manager.ts:696` rules out.
* An answer that comes after its offer has timed out is applied to the offer's successor.
* An offer that cannot be created on a connected peer leaves `needsNegotiation` set and
  nothing armed that would look at it. The timer of a disconnection stays noted after it
  ran out (line 901), so that a second one does not arm it.

*Keys.*
* A lease renewal repeats its epochs and the clients refuse it
  (`topology-contract.ts:43`, `server.js:1937-1939`), so routes end with the first lease.
* `resetPeerConnection` drops the agent keys of other publishers, too.

## 6. Plan

Modelled: `ProgramReducer`, `BroadcastProgram`, `FencedWriters`, `BroadcastGrants`,
`BroadcastRuntime`, `BroadcastFailover`, `Rooms`, `MediaAgents`, `PeerNegotiation`,
`MeshKeys`, `PackagerAssignments`. Proved: all of them but `PeerNegotiation`.

To prove next: `QuietMeansAgreed` of `PeerNegotiation`, with an invariant over the signals
under way like `Views` and `Fed` of `MeshKeysProofs`: each description in a queue answers or
replaces the one its receiver will hold by then.

To model next: the client's path over media agents (`blind-media-agent.service.ts`: shadow,
switch, fall back) composed with the routes of `MediaAgents`; trusted sources and their
consents; playback sessions against revocation; machine leases and the chat queue; the
WHIP transport; the relay topology (`media-topology.js`) as a function checked against a
reference definition.

## 7. Not modelled

Presentation and players of the Angular client, whiteboard, files, chat and captions; FFmpeg
pipelines, packet forwarding and files of the Go processes; HTTP routing and
serialisation; cryptography (a signature verifies or does not, a key is a number);
rate limits, which only refuse; metrics, history and audits, which no decision reads; help
requests of breakout rooms and the stop of a publication by a moderator; protocol versions
4 and 5 of the packager; installers, infrastructure and vendored code. Parts that are
planned but not yet modelled are marked so in `PROJECT.json`.
