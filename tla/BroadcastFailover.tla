-------------------------- MODULE BroadcastFailover --------------------------
(***************************************************************************)
(* The failover coordinator of src/broadcast-failover-coordinator.js for   *)
(* one program: per writer role a list of standbys and at most one lease,  *)
(* a fencing revision shared by both roles, and an outbox of events that   *)
(* the caller acknowledges one by one, in any order.                       *)
(*                                                                         *)
(* Every operation is synchronous, and #emit throws when the outbox is     *)
(* full: what an operation changed before that call stays changed.         *)
(*                                                                         *)
(* Candidates are records without their device; consentUntil is 0 when     *)
(* decryptConsent is "none", ready means health "healthy" and              *)
(* quorumEligible.  lastFailureType and the failure counters are reported  *)
(* and never read, and are left out, as are requests that fail validation. *)
(***************************************************************************)
EXTENDS Integers, Sequences, FiniteSets, FiniteSetsExt, SequencesExt

CONSTANTS
  Holders,          \* writers, integers in the order of localeCompare
  Roles,            \* ROLES: nothing tells them apart but their failure type
  CandidateLists,   \* the standby lists callers configure
  SignalSets,       \* the sets of unavailable signals callers report
  Voters,           \* totalVotes of a heartbeat's quorum
  LeaseEpoch,       \* the fencing revision a program is registered with
  LeaseTtl, Grace, RecoveryDeadline,
  MaxOutbox,        \* MAX_OUTBOX
  MaxTime,          \* bound on the clock
  MaxFence,         \* bound on the fencing revision
  MaxSequence       \* bound on the event sequence

Signals == {"writer", "browserSource", "gateway", "host", "network", "provider"}
EventTypes == {"standbys-configured", "writer-acquired", "writer-fenced",
               "writer-takeover", "program-stopped"}

Candidate == [holder : Holders, priority : Nat, ready : BOOLEAN, consentUntil : Nat]

ASSUME FailoverConstants ==
  /\ Holders \subseteq Nat \ {0}
  /\ CandidateLists \subseteq SUBSET Candidate
  /\ \A list \in CandidateLists : IsFiniteSet(list)
  /\ IsFiniteSet(Roles)
  /\ SignalSets \subseteq SUBSET Signals
  /\ Voters \in Nat \ {0} /\ LeaseEpoch \in Nat \ {0} /\ LeaseTtl \in Nat \ {0}
  /\ Grace \in 0..LeaseTtl /\ RecoveryDeadline \in Nat /\ RecoveryDeadline > Grace
  /\ MaxOutbox \in Nat \ {0} /\ MaxTime \in Nat /\ MaxFence \in Nat /\ MaxSequence \in Nat

VARIABLES
  program,   \* the coordinator's entry for the program
  issued,    \* every writer token ever handed out (history)
  now

vars == <<program, issued, now>>

Lease == [holder : Holders, fencingRevision : Nat, issuedAt : Nat,
          lastHeartbeatAt : Nat, expiresAt : Nat]
NoLease == [holder |-> 0, fencingRevision |-> 0, issuedAt |-> 0,
            lastHeartbeatAt |-> 0, expiresAt |-> 0]
NoFailure == -1

\* leaseId is a digest of role, fencing revision and holder.
Tokens == [role : Roles, leaseId : Nat, holderRef : Holders, fencingRevision : Nat]
Token(r, lease) ==
  [role |-> r, leaseId |-> lease.fencingRevision, holderRef |-> lease.holder,
   fencingRevision |-> lease.fencingRevision]
Held(p, r) == p.active[r] # NoLease
HeldTokens(p) == {Token(r, p.active[r]) : r \in {q \in Roles : Held(p, q)}}

\* register
Init ==
  /\ program = [fencingRevision |-> LeaseEpoch, stopped |-> FALSE,
                outbox |-> <<>>, sequence |-> 0,
                candidates |-> [r \in Roles |-> {}],
                active |-> [r \in Roles |-> NoLease],
                failureSince |-> [r \in Roles |-> NoFailure]]
  /\ issued = {}
  /\ now = 0

-----------------------------------------------------------------------------
OutboxFull(p) == Len(p.outbox) >= MaxOutbox

\* Faulty: the outbox is not bounded.
FaultyEmit(p, type, r, fence) ==
  [p EXCEPT !.sequence = @ + 1,
            !.outbox = Append(@, [id |-> p.sequence + 1, type |-> type, role |-> r,
                                  fencingRevision |-> fence])]

\* #emit, without the exception: a full outbox loses the event.
Emit(p, type, r, fence) ==
  IF OutboxFull(p) THEN p
  ELSE [p EXCEPT !.sequence = @ + 1,
                 !.outbox = Append(@, [id |-> p.sequence + 1, type |-> type, role |-> r,
                                       fencingRevision |-> fence])]

\* deterministicCandidates
Standbys(p, r, excluded) ==
  {c \in p.candidates[r] :
     c.holder # excluded /\ c.ready /\ c.consentUntil > now}
Better(c, d) ==
  c.priority > d.priority \/ (c.priority = d.priority /\ c.holder <= d.holder)
Best(standbys) == CHOOSE c \in standbys : \A d \in standbys : Better(c, d)

\* #promote
Promote(p, r, c, type) ==
  LET fence == p.fencingRevision + 1
      lease == [holder |-> c.holder, fencingRevision |-> fence, issuedAt |-> now,
                lastHeartbeatAt |-> now, expiresAt |-> now + LeaseTtl]
  IN Emit([p EXCEPT !.fencingRevision = fence,
                    !.active[r] = lease,
                    !.failureSince[r] = NoFailure], type, r, fence)

\* Faulty: no fence is drawn.
FaultyStop(p, r) ==
  Emit([p EXCEPT !.stopped = TRUE, !.active = [q \in Roles |-> NoLease]],
       "program-stopped", r, p.fencingRevision)

\* #stop: both roles lose their writer.
Stop(p, r) ==
  Emit([p EXCEPT !.stopped = TRUE,
                 !.active = [q \in Roles |-> NoLease],
                 !.fencingRevision = @ + 1],
       "program-stopped", r, p.fencingRevision + 1)

\* The best standby takes over, or the program stops.
PromoteOrStop(p, r, excluded, type) ==
  LET standbys == Standbys(p, r, excluded)
  IN IF standbys = {} THEN Stop(p, r) ELSE Promote(p, r, Best(standbys), type)

\* authorizeWriter
Authorized(p, token, time) ==
  LET lease == p.active[token.role]
  IN /\ ~p.stopped
     /\ lease # NoLease /\ lease.expiresAt > time
     /\ token = Token(token.role, lease)

\* evaluate's choice between the writer's own failure and classifyBroadcastFailure:
\* of the failure types only "browser" changes what happens.
BrowserLost(down) == "browserSource" \in down /\ "writer" \notin down

\* state.failureSince ??= Math.min(now, active?.expiresAt || now)
FailureSince(p, r) ==
  IF p.failureSince[r] # NoFailure THEN p.failureSince[r]
  ELSE IF Held(p, r) THEN Min({now, p.active[r].expiresAt}) ELSE now

\* quorumHealthy
QuorumHealthy(votes) == votes >= Voters \div 2 + 1

-----------------------------------------------------------------------------
Apply(p) ==
  /\ p.fencingRevision <= MaxFence /\ p.sequence <= MaxSequence
  /\ program' = p
  /\ issued' = issued \cup HeldTokens(p)
  /\ UNCHANGED now

ConfigureCandidates(r, list) ==
  Apply(Emit([program EXCEPT !.candidates[r] = list], "standbys-configured", r, 0))

Acquire(r) ==
  /\ ~program.stopped
  /\ ~(Held(program, r) /\ program.active[r].expiresAt > now)
  /\ Apply(PromoteOrStop(program, r, program.active[r].holder, "writer-acquired"))

\* Only the exact current token renews its lease, even one that has expired.
Heartbeat(r, token, healthy, votes) ==
  /\ Held(program, r) /\ token = Token(r, program.active[r])
  /\ Apply(IF healthy /\ QuorumHealthy(votes)
           THEN [program EXCEPT !.active[r].lastHeartbeatAt = now,
                                !.active[r].expiresAt = now + LeaseTtl,
                                !.failureSince[r] = NoFailure]
           ELSE IF program.failureSince[r] = NoFailure
                THEN [program EXCEPT !.failureSince[r] = now]
                ELSE program)

\* evaluate returns early for a writer nothing is wrong with.
Suspicious(r, down) ==
  ~(Held(program, r) /\ program.active[r].expiresAt > now
    /\ down = {} /\ program.failureSince[r] = NoFailure)

Noted(r) == [program EXCEPT !.failureSince[r] = FailureSince(program, r)]

GraceOver(r) == now >= FailureSince(program, r) + Grace

EvaluateGrace(r, down) ==
  /\ Suspicious(r, down) /\ ~GraceOver(r)
  /\ Apply(Noted(r))

\* The writer-fenced event does not fit: the exception leaves the lease alone.
EvaluateBlocked(r, down) ==
  /\ Suspicious(r, down) /\ GraceOver(r)
  /\ Held(program, r) /\ OutboxFull(program)
  /\ Apply(Noted(r))

EvaluateFailover(r, down) ==
  /\ Suspicious(r, down) /\ GraceOver(r)
  /\ ~(Held(program, r) /\ OutboxFull(program))
  /\ LET old == program.active[r]
         noted == Noted(r)
         fenced == IF Held(program, r)
                   THEN [Emit(noted, "writer-fenced", r, old.fencingRevision)
                           EXCEPT !.active[r] = NoLease]
                   ELSE noted
     IN Apply(IF BrowserLost(down) \/ now > FailureSince(program, r) + RecoveryDeadline
              THEN Stop(fenced, r)
              ELSE PromoteOrStop(fenced, r, old.holder, "writer-takeover"))

\* The filter drops the event at place i and no other: ids are never reused.
Acknowledge(i) ==
  Apply([program EXCEPT !.outbox = RemoveAt(@, i)])

\* restore of the snapshot taken after the last operation: the standbys are
\* not part of it.
RestoredProgram(p) == [p EXCEPT !.candidates = [r \in Roles |-> {}]]

\* What restore demands of a snapshot.
Restorable(p) ==
  /\ Len(p.outbox) <= MaxOutbox
  /\ p.fencingRevision >= LeaseEpoch
  /\ \A r \in Roles :
       Held(p, r) =>
         /\ p.active[r].fencingRevision \in 1..p.fencingRevision
         /\ p.active[r].issuedAt <= p.active[r].lastHeartbeatAt
         /\ p.active[r].lastHeartbeatAt < p.active[r].expiresAt

Restart ==
  /\ Restorable(program)
  /\ Apply(RestoredProgram(program))

Tick == now < MaxTime /\ now' = now + 1 /\ UNCHANGED <<program, issued>>

Next ==
  \/ \E r \in Roles :
       \/ \E list \in CandidateLists : ConfigureCandidates(r, list)
       \/ Acquire(r)
       \/ \E token \in issued, healthy \in BOOLEAN, votes \in 0..Voters :
            Heartbeat(r, token, healthy, votes)
       \/ \E down \in SignalSets :
            \/ EvaluateGrace(r, down)
            \/ EvaluateBlocked(r, down)
            \/ EvaluateFailover(r, down)
  \/ \E i \in DOMAIN program.outbox : Acknowledge(i)
  \/ Restart
  \/ Tick

Spec == Init /\ [][Next]_vars

-----------------------------------------------------------------------------
(***************************************************************************)
(* Properties                                                              *)
(***************************************************************************)
Event == [id : Nat, type : EventTypes, role : Roles, fencingRevision : Nat]

Programs ==
  [fencingRevision : Nat, stopped : BOOLEAN, outbox : Seq(Event), sequence : Nat,
   candidates : [Roles -> CandidateLists \cup {{}}],
   active : [Roles -> Lease \cup {NoLease}],
   failureSince : [Roles -> Nat \cup {NoFailure}]]

\* The program's entry, the token history and the clock have their types.
TypeOK ==
  /\ program \in Programs
  /\ issued \subseteq Tokens
  /\ now \in Nat

\* The coordinator accepts every snapshot it takes itself: no operation leaves
\* a state that restore would refuse after a crash.
OwnSnapshotsRestore == Restorable(program)

\* The abstract contract: the writers are those authorizeWriter may accept.
\* Its counter starts at 1, the coordinator's at the registered lease epoch.
Writers(p) ==
  IF p.stopped THEN {}
  ELSE {[token EXCEPT !.fencingRevision = @ - LeaseEpoch + 1] : token \in HeldTokens(p)}
Fencing == INSTANCE FencedWriters
  WITH Role <- Roles, Id <- 1..MaxFence, Principal <- Holders,
       fence <- program.fencingRevision - LeaseEpoch + 1,
       writers <- Writers(program),
       closed <- program.stopped

\* The coordinator implements the fencing contract: no set of writers changes
\* without a new fence, not even when an operation fails half-way.
ImplementsFencing == Fencing!AbsSpec

=============================================================================
