-------------------------- MODULE BroadcastRuntime --------------------------
(***************************************************************************)
(* The broadcast runtime of src/broadcast-runtime-registry.js: one record  *)
(* per program around the state machine of ProgramReducer, and the         *)
(* requests that await a viewer decision, a signature or a verification    *)
(* while programs start, are handed over, expire and stop.                 *)
(*                                                                         *)
(* A request runs through phases; a phase ends where the code awaits:      *)
(*   "deciding"   createPlaybackChallenge awaits the viewer decision       *)
(*   "challenge"  a one-time challenge is stored                           *)
(*   "reserved"   #publisherTransaction has reserved the program           *)
(*   "signing"    the grant authority signs                                *)
(*   "issued"     the grant is on record, its caller has not resumed       *)
(*   "late"       the caller was cancelled, the signature still runs       *)
(*   "delivered"  the client holds the token of a valid grant              *)
(*   "verifying"  the gateway verifies a publisher token                   *)
(*   "accepted"   the token was accepted, markPublished has not run        *)
(* bound tells whether the record object the request captured is still the *)
(* one in the map (the code compares object identities).                   *)
(*                                                                         *)
(* The grant authority is module BroadcastGrants; here it only signs or    *)
(* fails.  Policy revisions only grow with the epoch and are left out, and *)
(* so are identities other than the owner's peers.  The clock never steps  *)
(* back, but markPublished runs with a time read before an await.          *)
(***************************************************************************)
EXTENDS ProgramReducer, FiniteSets

CONSTANTS
  Programs, Peers,
  DeviceOf,      \* the device a peer of the owner connects from
  Requests,      \* request slots
  Ingest,        \* the holder name derived from a resource (WHIP, gateway)
  None,          \* no record, request, peer or handoff
  Capacity,      \* program limit of BroadcastProgramCapacity
  Runtime,       \* maxProgramRuntimeMs
  LeaseTime, ChallengeTtl, HandoffTime,
  MaxTime        \* bound on the clock

ASSUME RuntimeConstants ==
  /\ Capacity \in Nat \ {0} /\ Runtime \in Nat \ {0} /\ LeaseTime \in Nat \ {0}
  /\ ChallengeTtl \in Nat \ {0} /\ HandoffTime \in Nat \ {0} /\ MaxTime \in Nat \ {0}
  /\ IsFiniteSet(Programs)
  /\ DOMAIN DeviceOf = Peers
  /\ Ingest \in Holders
  /\ LeaseIds = Nat   \* a lease is named after its fence
  /\ None \notin Peers

VARIABLES records, requests, present, now

vars == <<records, requests, present, now>>

Inactive == {"draft", "stopped", "failed"}
Reasons == {"none", "OWNER_STOP", "PUBLISHER_LEFT", "HANDOFF_FAILED", "PROGRAM_RUNTIME_EXPIRED"}

PendingHandoff == [packager : Holders, peer : Peers, epoch : Positive, expiresAt : Nat]

\* lifetime is the absolute deadline, 0 before the first activation; observed
\* the latest time it saw; standby the generation of the standby plan.
Record == [machine : Machine, lifetime : Nat, observed : Nat, resource : Positive,
           publisher : Peers \cup {None}, handoff : PendingHandoff \cup {None},
           standby : Nat, reason : Reasons]

InFlight == {"deciding", "challenge", "reserved", "signing", "issued"}
Phases == InFlight \cup {"late", "delivered", "verifying", "accepted"}

Request == [kind : {"whip:create", "whip:update", "playback"}, phase : Phases,
            program : Programs, peer : Peers \cup {None}, epoch : Positive,
            resource : Positive, bound : {"current", "stale"},
            signal : {"open", "aborted"}, expiresAt : Nat, at : Nat]

ASSUME NoneAssumption == None \notin Record /\ None \notin Request /\ None \notin PendingHandoff

Lesser(a, b) == IF a < b THEN a ELSE b

Active(r) == r # None /\ r.machine.state \notin Inactive

Init ==
  /\ records = [p \in Programs |-> None]
  /\ requests = [q \in Requests |-> None]
  /\ present = Peers
  /\ now = 1

-----------------------------------------------------------------------------
(***************************************************************************)
(* Commands built from the current snapshot.  command() hashes the command *)
(* with the revision it expects, so every key is new.                      *)
(***************************************************************************)
Step(m, next) == RecordResult(next, [key |-> Len(m.appliedCommands) + 1])

Room(m, n) == Len(m.appliedCommands) + n <= MaxRecords

Created(v) ==
  LET m == InitialMachine(1, 1, v) IN Step(m, Create(m, v, "policy"))

Started(m, sources) ==
  LET c == Step(m, SourceChange(m, sources)) IN Step(c, Start(c))

WithWriter(m, role, holder, until) ==
  Step(m, Handoff(m, [role |-> role, leaseId |-> m.lease + 1, holderRef |-> holder,
                      fencingRevision |-> m.lease + 1, programEpoch |-> m.broadcast,
                      expiresAt |-> until]))

Advanced(m, to) == Step(m, Advance(m, to))

OnTheAir(m) == Advanced(Advanced(m, "publishing"), "live")

\* markPublished: both writers are named after the resource.
WhipLive(m, until) ==
  LET a == Advanced(m, "awaiting_consent")
      b == WithWriter(a, "packager-writer", Ingest, until)
  IN OnTheAir(WithWriter(b, "gateway-writer", Ingest, until))

\* #activateNativeOutput: the packager-writer is there already.
NativeLive(m, until) ==
  OnTheAir(WithWriter(Advanced(m, "awaiting_consent"), "gateway-writer", Ingest, until))

StoppedMachine(m) ==
  LET s == IF m.state = "stopped" THEN m ELSE Step(m, RequestStop(m, m.sourceIds))
  IN IF s.state = "stopped" THEN s ELSE Step(s, CleanupComplete(s))

CommandsToStop(m) ==
  CASE m.state = "stopped" -> 0
    [] m.state \in {"draft", "failed"} -> 1
    [] OTHER -> 2

\* Faulty: only the stop itself is reserved.
FaultyCleanupReserve == 1

\* assertCleanupCapacity
CleanupReserve == 2
CleanupRoom(m) == m.state \in Inactive \/ Room(m, CleanupReserve)

\* Faulty: one command too few is reserved.
FaultyHandoffReserve == 7

\* beginNativeHandoff: restart, successor, readiness and terminal cleanup.
HandoffReserve == 8

-----------------------------------------------------------------------------
(***************************************************************************)
(* What replacing records, revoking epochs and aborting transactions does  *)
(* to the requests.                                                        *)
(***************************************************************************)
Transacting(q) ==
  /\ requests[q] # None
  /\ requests[q].kind # "playback"
  /\ requests[q].phase \in {"reserved", "signing", "issued"}

TransactionsOf(S) == {q \in Requests : Transacting(q) /\ requests[q].program \in S}

\* Faulty: a reservation ends with the abort, before its caller is cleaned up.
FaultyOccupied ==
  {p \in Programs : Active(records[p])}
    \cup {requests[q].program : q \in {x \in Requests : Transacting(x) /\ requests[x].signal = "open"
                                                        /\ requests[x].phase = "reserved"}}

\* #occupiedProgramScopes
Occupied ==
  {p \in Programs : Active(records[p])}
    \cup {requests[q].program : q \in TransactionsOf(Programs)}

\* #assertProgramCapacity of an active candidate
CapacityAllows(p) == Cardinality(Occupied \cup {p}) <= Capacity

\* Requests after the records of S were replaced, the grants of the epochs E
\* revoked and the transactions A aborted.
After(S, E, A) ==
  [q \in Requests |->
     LET rq == requests[q]
     IN IF rq = None THEN None
        ELSE IF rq.phase \in {"delivered", "verifying"} /\ <<rq.program, rq.epoch>> \in E THEN None
        ELSE [rq EXCEPT !.bound = IF rq.program \in S /\ rq.phase \in InFlight THEN "stale" ELSE @,
                        !.signal = IF q \in A THEN "aborted" ELSE @]]

\* #synchronizeRecord revokes the previous generation.
RolledEpochs(p, m) ==
  IF m.broadcast = records[p].machine.broadcast THEN {}
  ELSE {<<p, records[p].machine.broadcast>>}

SynchronizeOK(p, m) == m.state \in Inactive \/ (CapacityAllows(p) /\ CleanupRoom(m))

Synchronized(r, m, t) ==
  LET active == m.state \notin Inactive
  IN [r EXCEPT !.machine = m,
               !.lifetime = IF active /\ @ = 0 THEN t + Runtime ELSE @,
               !.observed = IF active THEN t ELSE @,
               !.standby = IF m.state \in {"live", "degraded"} /\ @ = m.broadcast THEN @ ELSE 0]

SynchronizeRecord(p, r, m) ==
  /\ SynchronizeOK(p, m)
  /\ records' = [records EXCEPT ![p] = Synchronized(r, m, now)]
  /\ requests' = After({p}, RolledEpochs(p, m), {})
  /\ UNCHANGED <<present, now>>

\* Faulty: the pending handoff survives the stop.
FaultyStoppedRecord(r, reason) ==
  [r EXCEPT !.machine = StoppedMachine(r.machine), !.standby = 0,
            !.reason = IF r.machine.state = "stopped" THEN @ ELSE reason]

\* #stopRecord
StoppedRecord(r, reason) ==
  [r EXCEPT !.machine = StoppedMachine(r.machine), !.handoff = None, !.standby = 0,
            !.reason = IF r.machine.state = "stopped" THEN @ ELSE reason]

StoppedEpochs(S) == {<<p, records[p].machine.broadcast>> : p \in S}

Stoppable(S) == \A p \in S : Room(records[p].machine, CommandsToStop(records[p].machine))

-----------------------------------------------------------------------------
(***************************************************************************)
(* prune(t): programs past their deadline, or whose lifetime has already   *)
(* seen a later time, are stopped; expired challenges are dropped.         *)
(***************************************************************************)
RunOut(r, t) == Active(r) /\ (t < r.observed \/ t >= r.lifetime)

PrunedRecords(t) ==
  [p \in Programs |->
     IF RunOut(records[p], t) THEN StoppedRecord(records[p], "PROGRAM_RUNTIME_EXPIRED")
     ELSE IF Active(records[p]) THEN [records[p] EXCEPT !.observed = t]
     ELSE records[p]]

PrunedRequests(t) ==
  LET S == {p \in Programs : RunOut(records[p], t)}
      after == After(S, StoppedEpochs(S), TransactionsOf(S))
  IN [q \in Requests |->
        IF after[q] # None /\ after[q].phase = "challenge" /\ after[q].expiresAt <= t
        THEN None ELSE after[q]]

Prune ==
  /\ Stoppable({p \in Programs : RunOut(records[p], now)})
  /\ records' = PrunedRecords(now)
  /\ requests' = PrunedRequests(now)
  /\ UNCHANGED <<present, now>>

\* A handler that begins with prune() is taken when nothing is left to prune:
\* the maintenance timer may prune at any moment, so Prune is an action.
Pruned == records = PrunedRecords(now) /\ requests = PrunedRequests(now)

\* programLeaseDeadline: #currentRecord observes or stops one program.
Observe(p) ==
  /\ Active(records[p])
  /\ LET out == RunOut(records[p], now)
     IN /\ out => Stoppable({p})
        /\ records' = [records EXCEPT ![p] = PrunedRecords(now)[p]]
        /\ requests' = IF out THEN After({p}, StoppedEpochs({p}), TransactionsOf({p})) ELSE requests
  /\ UNCHANGED <<present, now>>

\* A handler that reads its record through #currentRecord is taken once the
\* record has been observed at this time and survived.
CurrentRecord(p) ==
  records[p] # None /\ (Active(records[p]) => records[p].observed = now /\ now < records[p].lifetime)

-----------------------------------------------------------------------------
(* Owner operations *)

CreateProgram(p, peer) ==
  /\ peer \in present
  /\ records[p] = None
  /\ \E v \in Visibilities :
       records' = [records EXCEPT ![p] =
         [machine |-> Created(v), lifetime |-> 0, observed |-> 0, resource |-> 1,
          publisher |-> None, handoff |-> None, standby |-> 0, reason |-> "none"]]
  /\ UNCHANGED <<requests, present, now>>

\* BroadcastAudienceRegistry.changeVisibility
VisibilityChanged(m, v) == Step(m, VisibilityChange(m, v))

ChangeVisibility(p) ==
  /\ records[p] # None
  /\ LET r == records[p]
     IN /\ r.machine.state \in Inactive
        /\ Room(r.machine, 1)
        /\ \E v \in Visibilities :
             records' = [records EXCEPT ![p].machine = VisibilityChanged(r.machine, v)]
        /\ requests' = After({p}, {<<p, r.machine.broadcast>>}, {})
  /\ UNCHANGED <<present, now>>

\* The transaction is aborted even when the ledger has no room for the stop.
StopProgram(p) ==
  /\ records[p] # None
  /\ IF Stoppable({p})
     THEN /\ records' = [records EXCEPT ![p] = StoppedRecord(records[p], "OWNER_STOP")]
          /\ requests' = After({p}, StoppedEpochs({p}), TransactionsOf({p}))
     ELSE /\ requests' = After({}, {}, TransactionsOf({p}))
          /\ UNCHANGED records
  /\ UNCHANGED <<present, now>>

Join(peer) == peer \notin present /\ present' = present \cup {peer}
              /\ UNCHANGED <<records, requests, now>>

\* Faulty: transactions that already run are left alone.
FaultyAbortedBy(peer, S) == TransactionsOf(S)

AbortedBy(peer, S) ==
  TransactionsOf(S) \cup {q \in TransactionsOf(Programs) : requests[q].peer = peer}

\* stopProgramsForMember, when a peer leaves the room
Leave(peer) ==
  LET S == {p \in Programs : /\ records[p] # None
                             /\ records[p].publisher # None
                             /\ DeviceOf[records[p].publisher] = DeviceOf[peer]
                             /\ records[p].machine.state # "stopped"}
      after == After(S, StoppedEpochs(S), AbortedBy(peer, S))
  IN /\ peer \in present
     /\ Stoppable(S)
     /\ present' = present \ {peer}
     /\ records' = [p \in Programs |-> IF p \in S THEN StoppedRecord(records[p], "PUBLISHER_LEFT")
                                       ELSE records[p]]
     /\ requests' = [q \in Requests |->
          IF after[q] # None /\ after[q].phase = "challenge" /\ after[q].peer = peer
          THEN None ELSE after[q]]
     /\ UNCHANGED now

-----------------------------------------------------------------------------
(* WHIP publishing: challenge, transaction, gateway callback *)

WhipSources == {<<s>> : s \in Sources}

Opened(kind, phase, p, peer, epoch, until) ==
  [kind |-> kind, phase |-> phase, program |-> p, peer |-> peer, epoch |-> epoch,
   resource |-> records[p].resource, bound |-> "current", signal |-> "open",
   expiresAt |-> until, at |-> 0]

ChallengeUntil(p) ==
  IF records[p].lifetime = 0 THEN now + ChallengeTtl
  ELSE Lesser(now + ChallengeTtl, records[p].lifetime)

\* The candidate of whip:create is recomputed at the commit: it is only used
\* while the record it was built from is the current one.
CreatePublisherChallenge(q, p, peer, kind) ==
  /\ requests[q] = None
  /\ peer \in present
  /\ records[p] # None
  /\ Pruned
  /\ LET m == records[p].machine
     IN IF kind = "whip:create"
        THEN /\ m.state = "draft"
             /\ Room(m, 2)
             /\ requests' = [requests EXCEPT ![q] =
                  Opened(kind, "challenge", p, peer, m.broadcast + 1, ChallengeUntil(p))]
        ELSE /\ m.state \in {"preparing", "publishing", "live", "degraded"}
             /\ requests' = [requests EXCEPT ![q] =
                  Opened(kind, "challenge", p, peer, m.broadcast, ChallengeUntil(p))]
  /\ UNCHANGED <<records, present, now>>

\* A challenge is used up whether or not the transaction may start.
AuthorizePublisher(q) ==
  /\ requests[q] # None
  /\ requests[q].kind # "playback" /\ requests[q].phase = "challenge"
  /\ Pruned
  /\ LET p == requests[q].program
     IN requests' = [requests EXCEPT ![q] =
          IF requests[q].bound = "current" /\ TransactionsOf({p}) = {} /\ CapacityAllows(p)
          THEN [@ EXCEPT !.phase = "reserved"] ELSE None]
  /\ UNCHANGED <<records, present, now>>

\* The microtask that calls the authority.
BeginIssue(q) ==
  /\ Transacting(q)
  /\ requests[q].phase = "reserved" /\ requests[q].signal = "open"
  /\ requests' = [requests EXCEPT ![q].phase = "signing"]
  /\ UNCHANGED <<records, present, now>>

\* The signature settles while its caller still waits.
SettleIssue(q, outcome) ==
  /\ requests[q] # None
  /\ requests[q].phase = "signing" /\ requests[q].signal = "open"
  /\ requests' = [requests EXCEPT ![q] =
       IF outcome = "signed" THEN [@ EXCEPT !.phase = "issued"] ELSE None]
  /\ UNCHANGED <<records, present, now>>

\* Faulty: the timer is cleared when the signature starts.
FaultyTransactionTimeout(q) ==
  /\ Transacting(q) /\ requests[q].phase = "reserved" /\ requests[q].signal = "open"
  /\ requests' = [requests EXCEPT ![q].signal = "aborted"]
  /\ UNCHANGED <<records, present, now>>

\* The timer of the transaction, started when it was reserved.
TransactionTimeout(q) ==
  /\ Transacting(q) /\ requests[q].signal = "open"
  /\ requests' = [requests EXCEPT ![q].signal = "aborted"]
  /\ UNCHANGED <<records, present, now>>

\* The cancelled caller leaves; a running signature is left behind.
RejectTransaction(q) ==
  /\ Transacting(q)
  /\ requests[q].phase \in {"reserved", "signing"} /\ requests[q].signal = "aborted"
  /\ requests' = [requests EXCEPT ![q] =
       IF requests[q].phase = "signing" THEN [@ EXCEPT !.phase = "late"] ELSE None]
  /\ UNCHANGED <<records, present, now>>

\* A late grant is revoked as soon as it is issued.
LateIssue(q) ==
  /\ requests[q] # None /\ requests[q].phase = "late"
  /\ requests' = [requests EXCEPT ![q] = None]
  /\ UNCHANGED <<records, present, now>>

\* What a client holds: a token; the request itself is over.
Delivered(rq) ==
  [rq EXCEPT !.phase = "delivered", !.bound = "stale", !.signal = "open", !.expiresAt = 0]

\* Faulty: the record is not compared again after the signature.
FaultyStillCurrent(q) == requests[q].signal = "open" /\ now < requests[q].expiresAt

StillCurrent(q) ==
  /\ requests[q].bound = "current"
  /\ requests[q].signal = "open"
  /\ now < requests[q].expiresAt

CommitPublisher(q, sources) ==
  /\ Transacting(q) /\ requests[q].phase = "issued"
  /\ Pruned
  /\ LET rq == requests[q]
         p == rq.program
         r == records[p]
         m == IF rq.kind = "whip:create" THEN Started(r.machine, sources) ELSE r.machine
         next == IF rq.kind = "whip:create" THEN Synchronized(r, m, now) ELSE r
     IN IF StillCurrent(q) /\ CapacityAllows(p) /\ (rq.kind = "whip:create" => SynchronizeOK(p, m))
        THEN /\ records' = [records EXCEPT ![p] = [next EXCEPT !.publisher = rq.peer]]
             /\ requests' = [After({p}, RolledEpochs(p, m), {}) EXCEPT ![q] = Delivered(rq)]
        ELSE /\ requests' = [requests EXCEPT ![q] = None]
             /\ UNCHANGED records
  /\ UNCHANGED <<present, now>>

\* MediaMtxExternalAuthService.authorize: the time is read before the await.
GatewayBegin(q) ==
  /\ requests[q] # None
  /\ requests[q].phase = "delivered" /\ requests[q].kind = "whip:create"
  /\ requests' = [requests EXCEPT ![q] = [@ EXCEPT !.phase = "verifying", !.at = now]]
  /\ UNCHANGED <<records, present, now>>

\* The single-use grant is consumed, or has run out.
GatewaySettle(q, outcome) ==
  /\ requests[q] # None /\ requests[q].phase = "verifying"
  /\ requests' = [requests EXCEPT ![q] =
       IF outcome = "signed" THEN [@ EXCEPT !.phase = "accepted"] ELSE None]
  /\ UNCHANGED <<records, present, now>>

\* A live program answers as it is, any other but a preparing one is refused.
Publishable(r, rq) == r.resource = rq.resource /\ r.machine.state = "preparing"

\* markPublished(resource, at), its prune included
MarkPublished(q) ==
  /\ requests[q] # None /\ requests[q].phase = "accepted"
  /\ LET rq == requests[q]
         p == rq.program
         pruned == PrunedRecords(rq.at)
         r == pruned[p]
         m == WhipLive(r.machine, Lesser(rq.at + LeaseTime, r.lifetime))
     IN /\ Stoppable({x \in Programs : RunOut(records[x], rq.at)})
        /\ records' = IF /\ Publishable(r, rq)
                         /\ Room(r.machine, 5) /\ FreshWriters(m, rq.at) /\ SynchronizeOK(p, m)
                      THEN [pruned EXCEPT ![p] = Synchronized(r, m, rq.at)]
                      ELSE pruned
        /\ requests' = [x \in Requests |->
             LET after == PrunedRequests(rq.at)[x]
             IN IF x = q THEN None
                ELSE IF after # None /\ after.program = p /\ records'[p] # pruned[p]
                        /\ after.phase \in InFlight
                THEN [after EXCEPT !.bound = "stale"] ELSE after]
  /\ UNCHANGED <<present, now>>

-----------------------------------------------------------------------------
(* Native publishing: a packager prepares, reports, renews, is handed over *)

Packagers == Holders \ {Ingest}

\* #installNativeWriter
InstallNativeWriter(p, r, m, packager, peer) ==
  LET deadline == IF r.lifetime = 0 THEN now + Runtime ELSE r.lifetime
  IN /\ CapacityAllows(p)
     /\ Room(m, 1)
     /\ SynchronizeRecord(p, [r EXCEPT !.handoff = None, !.publisher = peer, !.lifetime = deadline],
          WithWriter(m, "packager-writer", packager, Lesser(now + LeaseTime, deadline)))

\* prepareNativePublisher and prepareNativeSourceProgram (no sources)
PrepareNative(p, peer, packager) ==
  /\ peer \in present
  /\ records[p] # None
  /\ records[p].machine.state = "draft"
  /\ Room(records[p].machine, 3)
  /\ \E sources \in WhipSources \cup {<<>>} :
       InstallNativeWriter(p, records[p], Started(records[p].machine, sources), packager, peer)

\* #nativeOwned
NativeOwned(p, peer) ==
  CurrentRecord(p) /\ peer \in present /\ records[p].publisher = peer

\* The current, unexpired writer is a native packager (the coordinator needs
\* its assignment).
NativeWriters(p) ==
  {l \in Writers(records[p].machine, "packager-writer") : l.holderRef # Ingest /\ l.expiresAt > now}

BeginNativeHandoff(p, peer, packager) ==
  /\ NativeOwned(p, peer)
  /\ LET r == records[p]
         m == r.machine
         next == Step(m, OutputRestart(m))
     IN /\ r.handoff = None
        /\ m.state \in {"live", "degraded"}
        /\ Room(m, HandoffReserve)
        /\ \E l \in NativeWriters(p) : l.holderRef # packager
        /\ SynchronizeRecord(p,
             [r EXCEPT !.resource = @ + 1,
                       !.handoff = [packager |-> packager, peer |-> peer, epoch |-> next.broadcast,
                                    expiresAt |-> Lesser(now + HandoffTime, r.lifetime)]],
             next)

CompleteNativeHandoff(p) ==
  /\ records[p] # None /\ records[p].handoff # None
  /\ LET r == records[p]
         pending == r.handoff
     IN /\ NativeOwned(p, pending.peer)
        /\ now < pending.expiresAt
        /\ r.machine.state = "preparing"
        /\ r.machine.broadcast = pending.epoch
        /\ InstallNativeWriter(p, r, r.machine, pending.packager, pending.peer)

CancelNativeHandoff(p) ==
  /\ records[p] # None /\ records[p].handoff # None
  /\ Stoppable({p})
  /\ records' = [records EXCEPT ![p] = StoppedRecord(records[p], "HANDOFF_FAILED")]
  /\ requests' = After({p}, StoppedEpochs({p}), TransactionsOf({p}))
  /\ UNCHANGED <<present, now>>

\* #currentNativeOutput
CurrentNativeOutput(p) == CurrentRecord(p) /\ NativeWriters(p) # {}

MarkNativeOutputReady(p) ==
  /\ CurrentNativeOutput(p)
  /\ LET r == records[p]
         m == r.machine
         writer == CHOOSE l \in NativeWriters(p) : TRUE
     IN \/ /\ m.state = "degraded"
           /\ Room(m, 1) /\ FreshWriters(m, now)
           /\ SynchronizeRecord(p, r, Advanced(m, "live"))
        \/ /\ m.state = "preparing"
           /\ Room(m, 4)
           /\ LET next == NativeLive(m, Lesser(writer.expiresAt, now + LeaseTime))
              IN FreshWriters(next, now) /\ SynchronizeRecord(p, r, next)

MarkNativeOutputUnavailable(p) ==
  /\ CurrentNativeOutput(p)
  /\ records[p].machine.state \in {"publishing", "live"}
  /\ Room(records[p].machine, 1)
  /\ SynchronizeRecord(p, records[p], Advanced(records[p].machine, "degraded"))

RenewedUntil(p, d) == Lesser(now + d, records[p].lifetime)

RenewNativeOutput(p, d) ==
  /\ CurrentNativeOutput(p)
  /\ records[p].machine.state \notin NotRunning
  /\ SynchronizeRecord(p, records[p], Renew(records[p].machine, RenewedUntil(p, d)))

\* selectNativeStandbys stores a plan in a new record and nothing else.
SelectNativeStandbys(p, peer) ==
  /\ NativeOwned(p, peer)
  /\ records[p].machine.state \in {"live", "degraded"}
  /\ records[p].handoff = None
  /\ NativeWriters(p) # {}
  /\ records' = [records EXCEPT ![p].standby = records[p].machine.broadcast]
  /\ requests' = After({p}, {}, {})
  /\ UNCHANGED <<present, now>>

-----------------------------------------------------------------------------
(* Playback *)

\* createPlaybackChallenge up to the viewer decision
CreatePlaybackChallenge(q, p) ==
  /\ requests[q] = None
  /\ records[p] # None
  /\ Pruned
  /\ records[p].machine.state \in {"live", "degraded"}
  /\ requests' = [requests EXCEPT ![q] =
       Opened("playback", "deciding", p, None, records[p].machine.broadcast, ChallengeUntil(p))]
  /\ UNCHANGED <<records, present, now>>

\* The decision was taken on the state before the delay.
ViewerDecided(q) ==
  /\ requests[q] # None /\ requests[q].phase = "deciding"
  /\ requests' = [requests EXCEPT ![q].phase = "challenge"]
  /\ UNCHANGED <<records, present, now>>

AuthorizePlayback(q) ==
  /\ requests[q] # None
  /\ requests[q].kind = "playback" /\ requests[q].phase = "challenge"
  /\ Pruned
  /\ requests' = [requests EXCEPT ![q] =
       IF requests[q].bound = "current" THEN [@ EXCEPT !.phase = "signing"] ELSE None]
  /\ UNCHANGED <<records, present, now>>

\* authorizePlayback after the signature: deliver, or revoke the grant.
CommitPlayback(q) ==
  /\ requests[q] # None
  /\ requests[q].kind = "playback" /\ requests[q].phase = "issued"
  /\ Pruned
  /\ requests' = [requests EXCEPT ![q] = IF StillCurrent(q) THEN Delivered(requests[q]) ELSE None]
  /\ UNCHANGED <<records, present, now>>

\* The grant of a delivered token runs out.
GrantExpires(q) ==
  /\ requests[q] # None /\ requests[q].phase = "delivered"
  /\ requests' = [requests EXCEPT ![q] = None]
  /\ UNCHANGED <<records, present, now>>

Tick == now < MaxTime /\ now' = now + 1 /\ UNCHANGED <<records, requests, present>>

Outcomes == {"signed", "failed"}

Owner(p) ==
  \/ \E peer \in Peers : CreateProgram(p, peer)
  \/ ChangeVisibility(p)
  \/ StopProgram(p)

Native(p) ==
  \/ \E peer \in Peers, h \in Packagers :
       PrepareNative(p, peer, h) \/ BeginNativeHandoff(p, peer, h)
  \/ CompleteNativeHandoff(p)
  \/ CancelNativeHandoff(p)
  \/ MarkNativeOutputReady(p)
  \/ MarkNativeOutputUnavailable(p)
  \/ \E d \in 1..LeaseTime : RenewNativeOutput(p, d)
  \/ \E peer \in Peers : SelectNativeStandbys(p, peer)

Whip(q) ==
  \/ \E p \in Programs, peer \in Peers, kind \in {"whip:create", "whip:update"} :
       CreatePublisherChallenge(q, p, peer, kind)
  \/ AuthorizePublisher(q)
  \/ BeginIssue(q)
  \/ TransactionTimeout(q)
  \/ RejectTransaction(q)
  \/ LateIssue(q)
  \/ \E sources \in WhipSources : CommitPublisher(q, sources)
  \/ GatewayBegin(q)
  \/ \E o \in Outcomes : GatewaySettle(q, o)
  \/ MarkPublished(q)

Playback(q) ==
  \/ \E p \in Programs : CreatePlaybackChallenge(q, p)
  \/ ViewerDecided(q)
  \/ AuthorizePlayback(q)
  \/ CommitPlayback(q)

Next ==
  \/ \E p \in Programs : Owner(p) \/ Native(p) \/ Observe(p)
  \/ \E q \in Requests : \/ Whip(q) \/ Playback(q) \/ GrantExpires(q)
                         \/ \E o \in Outcomes : SettleIssue(q, o)
  \/ \E peer \in Peers : Join(peer) \/ Leave(peer)
  \/ Prune
  \/ Tick

Spec == Init /\ [][Next]_vars

\* The timer of each transaction fires, its microtasks run, and the server
\* prunes every 500 ms.  Nothing is assumed of the authority's signature.
Fairness ==
  /\ WF_vars(Prune)
  /\ \A q \in Requests :
       /\ WF_vars(BeginIssue(q))
       /\ WF_vars(TransactionTimeout(q))
       /\ WF_vars(RejectTransaction(q))
       /\ WF_vars(\E sources \in WhipSources : CommitPublisher(q, sources))

LiveSpec == Spec /\ Fairness

-----------------------------------------------------------------------------
(***************************************************************************)
(* Properties                                                              *)
(***************************************************************************)
Known == {p \in Programs : records[p] # None}

OnAir(r) == r.machine.state \in {"publishing", "live", "degraded"}

\* The records, the requests, the room and the clock have their types, and a
\* running program has a deadline (createPlaybackChallenge reads it unchecked).
TypeOK ==
  /\ records \in [Programs -> Record \cup {None}]
  /\ \A p \in Programs : Active(records[p]) => records[p].lifetime > 0
  /\ requests \in [Requests -> Request \cup {None}]
  /\ present \subseteq Peers
  /\ now \in 1..MaxTime

\* A running program can always be stopped and cleaned up: no sequence of
\* commands fills its ledger (assertCleanupCapacity keeps two entries free).
StopIsAlwaysPossible ==
  \A p \in Known : Active(records[p]) =>
    Room(records[p].machine, CommandsToStop(records[p].machine))

\* A handoff that has fenced the old writer can still install its successor
\* and go live, with room left to stop (the reserve of beginNativeHandoff):
\* five commands, then the two of the cleanup.
HandoffCanFinish ==
  \A p \in Known : records[p].handoff # None =>
    Room(records[p].machine, 5 + CleanupReserve)

\* While a handoff waits for the old packager's stop, nobody holds a writer
\* lease and the program waits in the generation the successor will write;
\* a stopped program has no handoff, and a standby plan is of the current
\* generation.
HandoffIsFenced ==
  \A p \in Known :
    LET r == records[p]
    IN /\ r.handoff # None =>
            /\ r.machine.state = "preparing"
            /\ r.machine.writerLeases = {}
            /\ r.machine.broadcast = r.handoff.epoch
       /\ r.standby # 0 => r.standby = r.machine.broadcast /\ OnAir(r)

\* A token a client holds is good for the program as it is now: the program
\* runs, in the generation the token names, and viewers only hold tokens of
\* a program that is live or degraded.  Whatever replaced the record while
\* the token was being signed, the grant was revoked or never delivered.
DeliveredGrantsAreCurrent ==
  \A q \in Requests :
    requests[q] # None /\ requests[q].phase \in {"delivered", "verifying"} =>
      LET r == records[requests[q].program]
      IN /\ Active(r)
         /\ requests[q].epoch = r.machine.broadcast
         /\ requests[q].kind = "playback" => r.machine.state \in {"live", "degraded"}

\* Programs that run or are being started never exceed the program limit,
\* although a start reserves its slot before an await and the programs of
\* other owners start meanwhile.
CapacityHolds ==
  Cardinality({p \in Programs : Active(records[p]) \/ \E q \in Requests :
                                  Transacting(q) /\ requests[q].program = p}) <= Capacity

\* The publisher of a running program is in the room: who leaves while the
\* authorisation is signed does not become the publisher afterwards.
PublishersArePresent ==
  \A p \in Known : Active(records[p]) => records[p].publisher \in present

\* Every transaction ends, also when the signature never settles: its
\* reservation is given back.
TransactionsSettle == \A q \in Requests : Transacting(q) ~> ~Transacting(q)

\* A program past its deadline is stopped, whatever its owner and its
\* packager do: the maintenance prune never fails on it.
ExpiredProgramsStop ==
  \A p \in Programs :
    (Active(records[p]) /\ now >= records[p].lifetime) ~> ~Active(records[p])
=============================================================================
