----------------------- MODULE BroadcastFailoverProofs -----------------------
(***************************************************************************)
(* Proofs about the failover coordinator: its types, that restore accepts  *)
(* every state an operation leaves behind, and that it implements the      *)
(* fencing contract of FencedWriters for every lease epoch, every outbox   *)
(* bound and any number of holders and roles.                              *)
(*                                                                         *)
(* An operation is a chain of pure steps (note the failure, fence, emit,   *)
(* promote or stop) on the program's record.  Each step is shown to keep   *)
(* Sound, and what it does to the fence and to the active leases is stated *)
(* once, so that the actions follow from their steps.                      *)
(***************************************************************************)
EXTENDS BroadcastFailover, FiniteSetTheorems, WellFoundedInduction, TLAPS

-----------------------------------------------------------------------------
(***************************************************************************)
(* The best standby exists                                                 *)
(***************************************************************************)

\* Every set of naturals with an element has a least one.
LEMMA LeastNatural ==
  ASSUME NEW T \in SUBSET Nat, T # {}
  PROVE  \E n \in T : \A m \in T : n <= m
  <1>1. PICK n \in T : \A m \in T : ~(<<m, n>> \in OpToRel(<, Nat))
    BY NatLessThanWellFounded, WFMin
  <1>2. \A m \in T : ~(m < n)
    BY <1>1 DEF OpToRel
  <1> QED
    BY <1>2

\* deterministicCandidates orders the standbys totally: a finite list that is
\* not empty has a first element.
LEMMA BestExists ==
  ASSUME NEW standbys \in SUBSET Candidate, IsFiniteSet(standbys), standbys # {}
  PROVE  Best(standbys) \in standbys
  <1> DEFINE HasBest(S) == \E c \in S : \A d \in S : Better(c, d)
             Bad == {n \in Nat : \E S \in SUBSET standbys :
                       S # {} /\ IsFiniteSet(S) /\ Cardinality(S) = n /\ ~HasBest(S)}
  <1>1. \A c, d, e \in Candidate :
          /\ Better(c, d) \/ Better(d, c)
          /\ Better(c, d) /\ Better(d, e) => Better(c, e)
          /\ Better(c, c)
    <2>1. \A c \in Candidate : c.priority \in Nat /\ c.holder \in Nat
      BY FailoverConstants DEF Candidate
    <2> QED
      BY <2>1 DEF Better
  <1>2. ASSUME Bad # {} PROVE FALSE
    <2>1. Bad \in SUBSET Nat
      OBVIOUS
    <2>2. PICK n \in Bad : \A m \in Bad : n <= m
      BY <1>2, <2>1, LeastNatural
    <2>3. PICK S \in SUBSET standbys :
            S # {} /\ IsFiniteSet(S) /\ Cardinality(S) = n /\ ~HasBest(S)
      BY <2>2
    <2>4. PICK x \in S : TRUE
      BY <2>3
    <2> DEFINE R == S \ {x}
    <2>5. IsFiniteSet(R) /\ Cardinality(R) = n - 1 /\ Cardinality(R) \in Nat
      BY <2>3, <2>4, FS_RemoveElement, FS_CardinalityType
    <2>6. R \in SUBSET standbys
      BY <2>3
    <2>7. R = {} \/ HasBest(R)
      <3> SUFFICES ASSUME R # {}, ~HasBest(R) PROVE FALSE
        OBVIOUS
      <3>1. n - 1 \in Bad
        BY <2>5, <2>6
      <3> QED
        BY <3>1, <2>1, <2>2
    <2>8. CASE R = {}
      <3>1. S = {x}
        BY <2>4, <2>8
      <3>2. Better(x, x)
        BY <1>1, <2>3, <2>4
      <3>3. HasBest(S)
        BY <3>1, <3>2
      <3> QED
        BY <2>3, <3>3
    <2>9. CASE HasBest(R)
      <3>1. PICK c \in R : \A d \in R : Better(c, d)
        BY <2>9
      <3>2. c \in Candidate /\ x \in Candidate /\ R \subseteq Candidate /\ c \in S
        BY <2>3, <2>4, <3>1
      <3>3. CASE Better(c, x)
        <4>1. \A d \in S : Better(c, d)
          BY <3>1, <3>3
        <4> QED
          BY <4>1, <3>2, <2>3
      <3>4. CASE Better(x, c)
        <4>1. \A d \in S : Better(x, d)
          <5> SUFFICES ASSUME NEW d \in S PROVE Better(x, d)
            OBVIOUS
          <5>1. CASE d = x
            BY <5>1, <3>2, <1>1
          <5>2. CASE d # x
            BY <5>2, <3>1, <3>2, <3>4, <1>1
          <5> QED
            BY <5>1, <5>2
        <4> QED
          BY <4>1, <2>3, <2>4
      <3> QED
        BY <3>2, <3>3, <3>4, <1>1
    <2> QED
      BY <2>7, <2>8, <2>9
  <1>3. HasBest(standbys)
    <2>1. Cardinality(standbys) \in Nat
      BY FS_CardinalityType
    <2> SUFFICES ASSUME ~HasBest(standbys) PROVE FALSE
      OBVIOUS
    <2>2. Cardinality(standbys) \in Bad
      BY <2>1
    <2> QED
      BY <2>2, <1>2
  <1> QED
    BY <1>3 DEF Best

-----------------------------------------------------------------------------
(***************************************************************************)
(* What every step keeps                                                   *)
(***************************************************************************)

\* The events' ids grow along the outbox and were all drawn from the sequence.
OrderedOutbox(p) ==
  /\ \A i \in 1..Len(p.outbox) : p.outbox[i].id <= p.sequence
  /\ \A i, j \in 1..Len(p.outbox) : i < j => p.outbox[i].id < p.outbox[j].id

\* No lease was issued in the future.
IssuedBefore(p, time) == \A r \in Roles : p.active[r].issuedAt <= time

Sound(p, time) ==
  /\ p \in Programs
  /\ Restorable(p)
  /\ IssuedBefore(p, time)
  /\ OrderedOutbox(p)

\* The inductive invariant.
IInv == Sound(program, now) /\ issued \subseteq Tokens /\ now \in Nat

\* Everything but the outbox and the sequence is the same.
SameLeases(p, q) ==
  /\ q.fencingRevision = p.fencingRevision
  /\ q.stopped = p.stopped
  /\ q.candidates = p.candidates
  /\ q.active = p.active
  /\ q.failureSince = p.failureSince

\* A step that keeps the outbox and the sequence, and whose leases are sound.
LEMMA SoundLeases ==
  ASSUME NEW p, NEW q, NEW time \in Nat, Sound(p, time), q \in Programs,
         q.outbox = p.outbox, q.sequence = p.sequence,
         q.fencingRevision >= p.fencingRevision,
         \A r \in Roles :
           q.active[r] # NoLease =>
             \/ q.active[r] = p.active[r]
             \/ /\ q.active[r].fencingRevision \in 1..q.fencingRevision
                /\ q.active[r].issuedAt <= q.active[r].lastHeartbeatAt
                /\ q.active[r].lastHeartbeatAt < q.active[r].expiresAt
                /\ q.active[r].issuedAt <= time
  PROVE  Sound(q, time)
  <1>1. q.fencingRevision \in Nat /\ p.fencingRevision \in Nat /\ LeaseEpoch \in Nat
    BY FailoverConstants DEF Sound, Programs
  <1>2. \A r \in Roles : Held(q, r) =>
          /\ q.active[r].fencingRevision \in 1..q.fencingRevision
          /\ q.active[r].issuedAt <= q.active[r].lastHeartbeatAt
          /\ q.active[r].lastHeartbeatAt < q.active[r].expiresAt
    <2> SUFFICES ASSUME NEW r \in Roles, Held(q, r)
                 PROVE  /\ q.active[r].fencingRevision \in 1..q.fencingRevision
                        /\ q.active[r].issuedAt <= q.active[r].lastHeartbeatAt
                        /\ q.active[r].lastHeartbeatAt < q.active[r].expiresAt
      OBVIOUS
    <2>1. CASE q.active[r] = p.active[r]
      <3>1. Held(p, r)
        BY <2>1 DEF Held
      <3>2. p.active[r].fencingRevision \in 1..p.fencingRevision
        BY <3>1 DEF Sound, Restorable
      <3> QED
        BY <1>1, <2>1, <3>1, <3>2 DEF Sound, Restorable
    <2> QED
      BY <2>1 DEF Held
  <1>3. IssuedBefore(q, time)
    <2> SUFFICES ASSUME NEW r \in Roles PROVE q.active[r].issuedAt <= time
      BY DEF IssuedBefore
    <2>1. CASE q.active[r] = NoLease
      BY <2>1 DEF NoLease
    <2> QED
      BY <2>1 DEF Sound, IssuedBefore
  <1>4. q.fencingRevision >= LeaseEpoch
    BY <1>1 DEF Sound, Restorable
  <1> QED
    BY <1>2, <1>3, <1>4 DEF Sound, Restorable, OrderedOutbox

\* #emit appends within the bound, under a fresh id, and touches nothing else.
LEMMA EmitSound ==
  ASSUME NEW p, NEW time \in Nat, Sound(p, time),
         NEW type \in EventTypes, NEW r \in Roles, NEW fence \in Nat
  PROVE  /\ Sound(Emit(p, type, r, fence), time)
         /\ SameLeases(p, Emit(p, type, r, fence))
  <1> DEFINE q == Emit(p, type, r, fence)
             e == [id |-> p.sequence + 1, type |-> type, role |-> r,
                   fencingRevision |-> fence]
  <1>1. CASE OutboxFull(p)
    BY <1>1 DEF Emit, SameLeases
  <1>2. CASE ~OutboxFull(p)
    <2>1. p \in Programs /\ p.outbox \in Seq(Event) /\ p.sequence \in Nat
      BY DEF Sound, Programs
    <2>2. q = [p EXCEPT !.sequence = p.sequence + 1, !.outbox = Append(p.outbox, e)]
      BY <1>2, <2>1 DEF Emit, Programs
    <2>3. e \in Event
      BY <2>1 DEF Event
    <2>e. e.id = p.sequence + 1
      OBVIOUS
    <2> HIDE DEF e
    <2>4. Append(p.outbox, e) \in Seq(Event)
      BY <2>1, <2>3
    <2>5. q \in Programs /\ SameLeases(p, q)
          /\ q.outbox = Append(p.outbox, e) /\ q.sequence = p.sequence + 1
      <3>1. p.sequence + 1 \in Nat
        BY <2>1
      <3>2. q \in Programs
        BY <2>1, <2>2, <2>4, <3>1 DEF Programs
      <3>3. SameLeases(p, q)
        BY <2>1, <2>2 DEF Programs, SameLeases
      <3>4. q.outbox = Append(p.outbox, e) /\ q.sequence = p.sequence + 1
        BY <2>1, <2>2 DEF Programs
      <3> QED
        BY <3>2, <3>3, <3>4
    <2>6. /\ Len(q.outbox) = Len(p.outbox) + 1
          /\ \A i \in 1..Len(p.outbox) : q.outbox[i] = p.outbox[i]
          /\ q.outbox[Len(p.outbox) + 1] = e
      BY <2>1, <2>3, <2>5
    <2>7. Len(q.outbox) <= MaxOutbox
      BY <1>2, <2>1, <2>6, FailoverConstants DEF OutboxFull
    <2>8. OrderedOutbox(q)
      <3>1. \A i \in 1..Len(p.outbox) : p.outbox[i].id \in Nat /\ p.outbox[i].id <= p.sequence
        <4>1. \A i \in 1..Len(p.outbox) : p.outbox[i] \in Event
          BY <2>1
        <4> QED
          BY <4>1 DEF Sound, OrderedOutbox, Event
      <3>3. \A i, j \in 1..Len(p.outbox) : i < j => p.outbox[i].id < p.outbox[j].id
        BY DEF Sound, OrderedOutbox
      <3> DEFINE n == Len(p.outbox)
      <3> HIDE DEF q
      <3>4. n \in Nat /\ p.sequence \in Nat /\ Len(q.outbox) = n + 1 /\ q.sequence = p.sequence + 1
        BY <2>1, <2>5, <2>6
      <3>5. \A i \in 1..n : q.outbox[i].id = p.outbox[i].id
        BY <2>6
      <3>6. q.outbox[n + 1].id = p.sequence + 1
        BY <2>6, <2>e
      <3>7. \A i \in 1..n : p.outbox[i].id \in Nat /\ p.outbox[i].id <= p.sequence
        BY <3>1
      <3>8. \A i, j \in 1..n : i < j => p.outbox[i].id < p.outbox[j].id
        BY <3>3
      <3> HIDE DEF n
      <3>9. \A i \in 1..(n + 1) : i \in 1..n \/ i = n + 1
        BY <3>4
      <3>10. ASSUME NEW i \in 1..(n + 1) PROVE q.outbox[i].id <= q.sequence
        <4>1. CASE i \in 1..n
          <5>1. q.outbox[i].id \in Nat /\ q.outbox[i].id <= p.sequence
            BY <4>1, <3>5, <3>7
          <5> QED
            BY <5>1, <3>4
        <4>2. CASE i = n + 1
          BY <4>2, <3>4, <3>6
        <4> QED
          BY <4>1, <4>2, <3>9
      <3>11. ASSUME NEW i \in 1..(n + 1), NEW j \in 1..(n + 1), i < j
             PROVE  q.outbox[i].id < q.outbox[j].id
        <4>1. i \in 1..n
          BY <3>11, <3>4
        <4>2. CASE j \in 1..n
          BY <3>11, <4>1, <4>2, <3>5, <3>8
        <4>3. CASE j = n + 1
          <5>1. q.outbox[i].id \in Nat /\ q.outbox[i].id <= p.sequence
            BY <4>1, <3>5, <3>7
          <5>2. q.outbox[j].id = p.sequence + 1
            BY <4>3, <3>6
          <5> QED
            BY <5>1, <5>2, <3>4
        <4> QED
          BY <4>2, <4>3, <3>9
      <3> QED
        BY <3>4, <3>10, <3>11 DEF OrderedOutbox
    <2> HIDE DEF q
    <2>9. Restorable(q) /\ IssuedBefore(q, time)
      BY <2>5, <2>7 DEF Sound, Restorable, IssuedBefore, Held, SameLeases
    <2> QED
      BY <2>5, <2>8, <2>9 DEF Sound, q
  <1> QED
    BY <1>1, <1>2

\* Leases have natural fields, held or not.
LEMMA LeaseFields ==
  ASSUME NEW p \in Programs, NEW r \in Roles
  PROVE  /\ p.active[r] \in Lease \/ p.active[r] = NoLease
         /\ p.active[r].fencingRevision \in Nat /\ p.active[r].issuedAt \in Nat
         /\ p.active[r].lastHeartbeatAt \in Nat /\ p.active[r].expiresAt \in Nat
  <1>1. p.active[r] \in Lease \cup {NoLease}
    BY DEF Programs
  <1> QED
    BY <1>1 DEF Lease, NoLease

\* #promote draws the next fence for one role's new lease.
LEMMA PromoteSound ==
  ASSUME NEW p, now \in Nat, Sound(p, now), NEW r \in Roles, NEW c \in Candidate,
         NEW type \in EventTypes
  PROVE  LET q == Promote(p, r, c, type)
         IN /\ Sound(q, now)
            /\ q.fencingRevision = p.fencingRevision + 1
            /\ q.stopped = p.stopped
            /\ \A s \in Roles : s # r => q.active[s] = p.active[s]
            /\ q.active[r] \in Lease
            /\ q.active[r].fencingRevision = q.fencingRevision
  <1> DEFINE fence == p.fencingRevision + 1
             lease == [holder |-> c.holder, fencingRevision |-> fence, issuedAt |-> now,
                       lastHeartbeatAt |-> now, expiresAt |-> now + LeaseTtl]
             m == [p EXCEPT !.fencingRevision = fence, !.active[r] = lease,
                            !.failureSince[r] = NoFailure]
  <1>1. p \in Programs /\ p.fencingRevision \in Nat /\ fence \in Nat
    BY DEF Sound, Programs
  <1>2. lease \in Lease /\ lease.fencingRevision = fence /\ lease.issuedAt = now
        /\ lease.lastHeartbeatAt = now /\ lease.expiresAt = now + LeaseTtl
    <2>1. now + LeaseTtl \in Nat /\ c.holder \in Holders
      BY FailoverConstants DEF Candidate
    <2> QED
      BY <1>1, <2>1 DEF Lease
  <1> HIDE DEF lease
  <1>3. m \in Programs /\ m.fencingRevision = fence /\ m.stopped = p.stopped
        /\ m.outbox = p.outbox /\ m.sequence = p.sequence
    BY <1>1, <1>2 DEF Programs
  <1>4. m.active[r] = lease /\ \A s \in Roles : s # r => m.active[s] = p.active[s]
    BY <1>1 DEF Programs
  <1>5. Promote(p, r, c, type) = Emit(m, type, r, fence)
    BY DEF Promote, lease
  <1> HIDE DEF m
  <1>6. Sound(m, now)
    <2>1. fence >= p.fencingRevision /\ fence \in 1..fence /\ now < now + LeaseTtl
          /\ now <= now
      BY <1>1, FailoverConstants
    <2>2. \A s \in Roles : m.active[s] # NoLease =>
             \/ m.active[s] = p.active[s]
             \/ /\ m.active[s].fencingRevision \in 1..m.fencingRevision
                /\ m.active[s].issuedAt <= m.active[s].lastHeartbeatAt
                /\ m.active[s].lastHeartbeatAt < m.active[s].expiresAt
                /\ m.active[s].issuedAt <= now
      BY <1>2, <1>3, <1>4, <2>1
    <2> QED
      BY <1>3, <2>1, <2>2, SoundLeases
  <1>7. Sound(Emit(m, type, r, fence), now) /\ SameLeases(m, Emit(m, type, r, fence))
    BY <1>1, <1>6, EmitSound
  <1> QED
    BY <1>2, <1>3, <1>4, <1>5, <1>7 DEF SameLeases

\* #stop takes every role's writer and draws a fence.
LEMMA StopSound ==
  ASSUME NEW p, now \in Nat, Sound(p, now), NEW r \in Roles
  PROVE  /\ Sound(Stop(p, r), now)
         /\ Stop(p, r).fencingRevision = p.fencingRevision + 1
         /\ Stop(p, r).stopped = TRUE
  <1> DEFINE fence == p.fencingRevision + 1
             m == [p EXCEPT !.stopped = TRUE, !.active = [q \in Roles |-> NoLease],
                            !.fencingRevision = fence]
  <1>1. p \in Programs /\ p.fencingRevision \in Nat /\ fence \in Nat
    BY DEF Sound, Programs
  <1>2. m \in Programs /\ m.fencingRevision = fence /\ m.stopped = TRUE
        /\ m.outbox = p.outbox /\ m.sequence = p.sequence
        /\ \A s \in Roles : m.active[s] = NoLease
    BY <1>1 DEF Programs
  <1>3. Stop(p, r) = Emit(m, "program-stopped", r, fence)
    BY DEF Stop
  <1> HIDE DEF m
  <1>4. Sound(m, now)
    <2>1. fence >= p.fencingRevision
      BY <1>1
    <2> QED
      BY <1>2, <2>1, SoundLeases
  <1>5. "program-stopped" \in EventTypes
    BY DEF EventTypes
  <1> QED
    BY <1>1, <1>2, <1>3, <1>4, <1>5, EmitSound DEF SameLeases

\* A promotion picks a real candidate.
LEMMA BestStandby ==
  ASSUME NEW p \in Programs, NEW r \in Roles, NEW excluded, Standbys(p, r, excluded) # {}
  PROVE  Best(Standbys(p, r, excluded)) \in Candidate
  <1>1. p.candidates[r] \in CandidateLists \cup {{}}
    BY DEF Programs
  <1>2. Standbys(p, r, excluded) \subseteq p.candidates[r]
    BY DEF Standbys
  <1>3. p.candidates[r] \in CandidateLists
    BY <1>1, <1>2
  <1>4. IsFiniteSet(p.candidates[r]) /\ p.candidates[r] \subseteq Candidate
    BY <1>3, FailoverConstants
  <1>5. IsFiniteSet(Standbys(p, r, excluded))
    BY <1>2, <1>4, FS_Subset
  <1> QED
    BY <1>2, <1>4, <1>5, BestExists

\* What failing over does: the role gets a new writer under the next fence, or
\* the program stops under it.
TakenOver(p, q, r) ==
  /\ q.fencingRevision = p.fencingRevision + 1
  /\ \/ q.stopped = TRUE
     \/ /\ q.stopped = p.stopped
        /\ \A s \in Roles : s # r => q.active[s] = p.active[s]
        /\ q.active[r] \in Lease
        /\ q.active[r].fencingRevision = q.fencingRevision

LEMMA PromoteOrStopSound ==
  ASSUME NEW p, now \in Nat, Sound(p, now), NEW r \in Roles, NEW excluded,
         NEW type \in EventTypes
  PROVE  /\ Sound(PromoteOrStop(p, r, excluded, type), now)
         /\ TakenOver(p, PromoteOrStop(p, r, excluded, type), r)
  <1>1. CASE Standbys(p, r, excluded) = {}
    BY <1>1, StopSound DEF PromoteOrStop, TakenOver
  <1>2. CASE Standbys(p, r, excluded) # {}
    <2> DEFINE c == Best(Standbys(p, r, excluded))
    <2>1. c \in Candidate
      BY <1>2, BestStandby DEF Sound
    <2>2. PromoteOrStop(p, r, excluded, type) = Promote(p, r, c, type)
      BY <1>2 DEF PromoteOrStop
    <2> HIDE DEF c
    <2> QED
      BY <2>1, <2>2, PromoteSound DEF TakenOver
  <1> QED
    BY <1>1, <1>2

\* Every held writer keeps its place and its token.
SameWriters(p, q) ==
  /\ q.fencingRevision = p.fencingRevision
  /\ q.stopped = p.stopped
  /\ \A r \in Roles : /\ Held(q, r) <=> Held(p, r)
                      /\ q.active[r].holder = p.active[r].holder
                      /\ q.active[r].fencingRevision = p.active[r].fencingRevision

\* Noting a failure changes the time of the failure only.
LEMMA NotedSound ==
  ASSUME now \in Nat, Sound(program, now), NEW r \in Roles
  PROVE  /\ Sound(Noted(r), now)
         /\ Noted(r).active = program.active
         /\ Noted(r).fencingRevision = program.fencingRevision
         /\ Noted(r).stopped = program.stopped
  <1>1. program \in Programs
    BY DEF Sound
  <1>2. FailureSince(program, r) \in Nat
    <2>1. program.failureSince[r] \in Nat \cup {NoFailure}
      BY <1>1 DEF Programs
    <2>2. program.active[r].expiresAt \in Nat
      BY <1>1, LeaseFields
    <2>3. \A a, b \in Nat : Min({a, b}) \in Nat
      <3> SUFFICES ASSUME NEW a \in Nat, NEW b \in Nat PROVE Min({a, b}) \in {a, b}
        OBVIOUS
      <3>1. \E x \in {a, b} : \A y \in {a, b} : x <= y
        OBVIOUS
      <3> QED
        BY <3>1 DEF Min
    <2> QED
      BY <2>1, <2>2, <2>3 DEF FailureSince
  <1>3. Noted(r) \in Programs
    BY <1>1, <1>2 DEF Noted, Programs
  <1>4. /\ Noted(r).active = program.active
        /\ Noted(r).fencingRevision = program.fencingRevision
        /\ Noted(r).stopped = program.stopped
        /\ Noted(r).outbox = program.outbox
        /\ Noted(r).sequence = program.sequence
    BY <1>1 DEF Noted, Programs
  <1>5. program.fencingRevision >= program.fencingRevision
    BY <1>1 DEF Programs
  <1> QED
    BY <1>3, <1>4, <1>5, SoundLeases

\* configureCandidates, and a restart that forgets the standbys.
LEMMA CandidatesSound ==
  ASSUME NEW p, now \in Nat, Sound(p, now),
         NEW lists \in [Roles -> CandidateLists \cup {{}}]
  PROVE  LET q == [p EXCEPT !.candidates = lists]
         IN Sound(q, now) /\ SameWriters(p, q)
  <1> DEFINE q == [p EXCEPT !.candidates = lists]
  <1>1. p \in Programs
    BY DEF Sound
  <1>2. q \in Programs /\ q.active = p.active /\ q.fencingRevision = p.fencingRevision
        /\ q.stopped = p.stopped /\ q.outbox = p.outbox /\ q.sequence = p.sequence
    BY <1>1 DEF Programs
  <1>3. p.fencingRevision >= p.fencingRevision
    BY <1>1 DEF Programs
  <1> HIDE DEF q
  <1>4. Sound(q, now) /\ SameWriters(p, q)
    BY <1>2, <1>3, SoundLeases DEF SameWriters, Held
  <1> QED
    BY <1>4 DEF q

\* Dropping one event leaves the others in order.
LEMMA RemoveAtKeeps ==
  ASSUME NEW s \in Seq(Event), NEW i \in DOMAIN s
  PROVE  LET t == RemoveAt(s, i)
         IN /\ t \in Seq(Event) /\ Len(t) = Len(s) - 1
            /\ \A k \in 1..Len(t) : t[k] = IF k < i THEN s[k] ELSE s[k + 1]
  <1> DEFINE a == SubSeq(s, 1, i - 1)
             b == SubSeq(s, i + 1, Len(s))
  <1>1. i \in 1..Len(s) /\ Len(s) \in Nat
    OBVIOUS
  <1>2. a \in Seq(Event) /\ Len(a) = i - 1 /\ \A k \in 1..(i - 1) : a[k] = s[k]
    BY <1>1
  <1>3. b \in Seq(Event) /\ Len(b) = Len(s) - i
        /\ \A k \in 1..(Len(s) - i) : b[k] = s[i + k]
    BY <1>1
  <1> HIDE DEF a, b
  <1>4. a \o b \in Seq(Event) /\ Len(a \o b) = Len(s) - 1
    BY <1>1, <1>2, <1>3
  <1>5. \A k \in 1..(Len(s) - 1) : (a \o b)[k] = IF k < i THEN s[k] ELSE s[k + 1]
    <2> SUFFICES ASSUME NEW k \in 1..(Len(s) - 1)
                 PROVE  (a \o b)[k] = IF k < i THEN s[k] ELSE s[k + 1]
      OBVIOUS
    <2>1. CASE k < i
      BY <2>1, <1>1, <1>2, <1>3
    <2>2. CASE k >= i
      <3>1. (a \o b)[k] = b[k - (i - 1)]
        BY SMTT(60), <2>2, <1>1, <1>2, <1>3
      <3>2. k - (i - 1) \in 1..(Len(s) - i) /\ i + (k - (i - 1)) = k + 1
        BY <2>2, <1>1
      <3> QED
        BY SMTT(60), <2>2, <1>1, <1>3, <3>1, <3>2
    <2>3. k < i \/ k >= i
      BY <1>1
    <2> QED
      BY <2>1, <2>2, <2>3
  <1>6. RemoveAt(s, i) = a \o b
    BY DEF RemoveAt, a, b
  <1> QED
    BY <1>4, <1>5, <1>6

\* acknowledge
LEMMA AcknowledgeSound ==
  ASSUME NEW p, now \in Nat, Sound(p, now), NEW i \in DOMAIN p.outbox
  PROVE  LET q == [p EXCEPT !.outbox = RemoveAt(p.outbox, i)]
         IN Sound(q, now) /\ SameWriters(p, q)
  <1> DEFINE t == RemoveAt(p.outbox, i)
             q == [p EXCEPT !.outbox = t]
  <1>1. p \in Programs /\ p.outbox \in Seq(Event) /\ p.sequence \in Nat
    BY DEF Sound, Programs
  <1>2. t \in Seq(Event) /\ Len(t) = Len(p.outbox) - 1
        /\ \A k \in 1..Len(t) : t[k] = IF k < i THEN p.outbox[k] ELSE p.outbox[k + 1]
    BY <1>1, RemoveAtKeeps
  <1> HIDE DEF t
  <1>3. q \in Programs /\ q.active = p.active /\ q.fencingRevision = p.fencingRevision
        /\ q.stopped = p.stopped /\ q.outbox = t /\ q.sequence = p.sequence
    BY <1>1, <1>2 DEF Programs
  <1> HIDE DEF q
  <1>4. OrderedOutbox(q)
    <2>1. i \in 1..Len(p.outbox) /\ Len(p.outbox) \in Nat
      BY <1>1
    <2>2. \A k \in 1..Len(t) : t[k].id <= p.sequence
      <3> SUFFICES ASSUME NEW k \in 1..Len(t) PROVE t[k].id <= p.sequence
        OBVIOUS
      <3> DEFINE kk == IF k < i THEN k ELSE k + 1
      <3>1. kk \in 1..Len(p.outbox)
        BY <1>2, <2>1
      <3>2. t[k] = p.outbox[kk]
        BY <1>2
      <3> HIDE DEF kk
      <3> QED
        BY <3>1, <3>2 DEF Sound, OrderedOutbox
    <2>3. ASSUME NEW j \in 1..Len(t), NEW k \in 1..Len(t), j < k
          PROVE  t[j].id < t[k].id
      <3> DEFINE jj == IF j < i THEN j ELSE j + 1
                 kk == IF k < i THEN k ELSE k + 1
      <3>1. jj \in 1..Len(p.outbox) /\ kk \in 1..Len(p.outbox) /\ jj < kk
        BY <1>2, <2>1, <2>3
      <3>2. t[j] = p.outbox[jj] /\ t[k] = p.outbox[kk]
        BY <1>2
      <3> HIDE DEF jj, kk
      <3> QED
        BY <3>1, <3>2 DEF Sound, OrderedOutbox
    <2> QED
      BY <1>3, <2>2, <2>3 DEF OrderedOutbox
  <1>5. Len(q.outbox) <= MaxOutbox
    <2>1. Len(p.outbox) <= MaxOutbox /\ Len(p.outbox) \in Nat /\ MaxOutbox \in Nat
      BY <1>1, FailoverConstants DEF Sound, Restorable
    <2> QED
      BY <1>2, <1>3, <2>1
  <1>6. Restorable(q) /\ IssuedBefore(q, now) /\ SameWriters(p, q)
    BY <1>3, <1>5 DEF Sound, Restorable, IssuedBefore, Held, SameWriters
  <1> QED
    BY <1>3, <1>4, <1>6 DEF Sound, q, t

-----------------------------------------------------------------------------
(***************************************************************************)
(* The actions                                                             *)
(***************************************************************************)

\* What an operation does to the program: the writers stay, or one role is
\* taken over (or everything stopped) under the next fence.
Operation(p, q) == SameWriters(p, q) \/ \E r \in Roles : TakenOver(p, q, r)

LEMMA ConfigureSound ==
  ASSUME now \in Nat, Sound(program, now), NEW r \in Roles, NEW list \in CandidateLists,
         ConfigureCandidates(r, list)
  PROVE  Sound(program', now) /\ Operation(program, program')
  <1> DEFINE lists == [program.candidates EXCEPT ![r] = list]
             m == [program EXCEPT !.candidates = lists]
  <1>1. program \in Programs
    BY DEF Sound
  <1>2. lists \in [Roles -> CandidateLists \cup {{}}]
    BY <1>1 DEF Programs
  <1>3. Sound(m, now) /\ SameWriters(program, m)
    BY <1>2, CandidatesSound
  <1>4. [program EXCEPT !.candidates[r] = list] = m
    BY <1>1 DEF Programs
  <1>5. program' = Emit(m, "standbys-configured", r, 0)
    BY <1>4 DEF ConfigureCandidates, Apply
  <1>6. "standbys-configured" \in EventTypes /\ 0 \in Nat
    BY DEF EventTypes
  <1> HIDE DEF m
  <1>7. Sound(program', now) /\ SameLeases(m, program')
    BY <1>3, <1>5, <1>6, EmitSound
  <1> QED
    BY <1>3, <1>7 DEF Operation, SameWriters, SameLeases, Held

LEMMA AcquireSound ==
  ASSUME now \in Nat, Sound(program, now), NEW r \in Roles, Acquire(r)
  PROVE  Sound(program', now) /\ Operation(program, program')
  <1>1. "writer-acquired" \in EventTypes
    BY DEF EventTypes
  <1>2. program' = PromoteOrStop(program, r, program.active[r].holder, "writer-acquired")
    BY DEF Acquire, Apply
  <1> QED
    BY <1>1, <1>2, PromoteOrStopSound DEF Operation

LEMMA HeartbeatSound ==
  ASSUME now \in Nat, Sound(program, now), NEW r \in Roles, NEW token,
         NEW healthy \in BOOLEAN, NEW votes \in 0..Voters,
         Heartbeat(r, token, healthy, votes)
  PROVE  Sound(program', now) /\ Operation(program, program')
  <1>1. program \in Programs /\ program.active[r] # NoLease
    BY DEF Sound, Heartbeat, Held
  <1>2. program.fencingRevision >= program.fencingRevision
    BY <1>1 DEF Programs
  <1>3. CASE healthy /\ QuorumHealthy(votes)
    <2> DEFINE old == program.active[r]
               lease == [old EXCEPT !.lastHeartbeatAt = now, !.expiresAt = now + LeaseTtl]
    <2>1. program' = [program EXCEPT !.active[r] = lease, !.failureSince[r] = NoFailure]
      BY <1>1, <1>3 DEF Heartbeat, Apply, Programs
    <2>2. old \in Lease /\ now + LeaseTtl \in Nat /\ now < now + LeaseTtl
      BY <1>1, LeaseFields, FailoverConstants
    <2>3. /\ lease \in Lease /\ lease.holder = old.holder
          /\ lease.fencingRevision = old.fencingRevision /\ lease.issuedAt = old.issuedAt
          /\ lease.lastHeartbeatAt = now /\ lease.expiresAt = now + LeaseTtl
      BY <2>2 DEF Lease
    <2>4. old.fencingRevision \in 1..program.fencingRevision /\ old.issuedAt <= now
      BY <1>1 DEF Sound, Restorable, Held, IssuedBefore
    <2> HIDE DEF lease
    <2>5. program' \in Programs /\ program'.fencingRevision = program.fencingRevision
          /\ program'.stopped = program.stopped /\ program'.outbox = program.outbox
          /\ program'.sequence = program.sequence
      BY <1>1, <2>1, <2>3 DEF Programs
    <2>6. program'.active[r] = lease
          /\ \A s \in Roles : s # r => program'.active[s] = program.active[s]
      BY <1>1, <2>1 DEF Programs
    <2>7. Sound(program', now)
      <3>1. \A s \in Roles : program'.active[s] # NoLease =>
               \/ program'.active[s] = program.active[s]
               \/ /\ program'.active[s].fencingRevision \in 1..program'.fencingRevision
                  /\ program'.active[s].issuedAt <= program'.active[s].lastHeartbeatAt
                  /\ program'.active[s].lastHeartbeatAt < program'.active[s].expiresAt
                  /\ program'.active[s].issuedAt <= now
        BY <2>2, <2>3, <2>4, <2>5, <2>6
      <3> QED
        BY <1>2, <2>5, <3>1, SoundLeases
    <2>8. lease # NoLease
      <3>1. lease.fencingRevision # 0
        BY <2>3, <2>4
      <3> QED
        BY <3>1 DEF NoLease
    <2> QED
      BY <1>1, <2>3, <2>5, <2>6, <2>7, <2>8 DEF Operation, SameWriters, Held
  <1>4. CASE ~(healthy /\ QuorumHealthy(votes)) /\ program.failureSince[r] = NoFailure
    <2>1. program' = [program EXCEPT !.failureSince[r] = now]
      BY <1>4 DEF Heartbeat, Apply
    <2>2. program' \in Programs /\ program'.active = program.active
          /\ program'.fencingRevision = program.fencingRevision
          /\ program'.stopped = program.stopped /\ program'.outbox = program.outbox
          /\ program'.sequence = program.sequence
      BY <1>1, <2>1 DEF Programs
    <2>3. Sound(program', now)
      BY <1>2, <2>2, SoundLeases
    <2> QED
      BY <2>2, <2>3 DEF Operation, SameWriters, Held
  <1>5. CASE ~(healthy /\ QuorumHealthy(votes)) /\ program.failureSince[r] # NoFailure
    <2>1. program' = program
      BY <1>5 DEF Heartbeat, Apply
    <2> QED
      BY <2>1 DEF Operation, SameWriters
  <1> QED
    BY <1>3, <1>4, <1>5

LEMMA EvaluateSound ==
  ASSUME now \in Nat, Sound(program, now), NEW r \in Roles, NEW down,
         EvaluateGrace(r, down) \/ EvaluateBlocked(r, down) \/ EvaluateFailover(r, down)
  PROVE  Sound(program', now) /\ Operation(program, program')
  <1> DEFINE noted == Noted(r)
  <1>1. /\ Sound(noted, now) /\ noted.active = program.active
        /\ noted.fencingRevision = program.fencingRevision
        /\ noted.stopped = program.stopped
    BY NotedSound
  <1> HIDE DEF noted
  <1>2. CASE EvaluateGrace(r, down) \/ EvaluateBlocked(r, down)
    <2>1. program' = noted
      BY <1>2 DEF EvaluateGrace, EvaluateBlocked, Apply, noted
    <2> QED
      BY <1>1, <2>1 DEF Operation, SameWriters, Held
  <1>3. CASE EvaluateFailover(r, down)
    <2> DEFINE old == program.active[r]
               emitted == Emit(noted, "writer-fenced", r, old.fencingRevision)
               fenced == IF Held(program, r)
                         THEN [emitted EXCEPT !.active[r] = NoLease]
                         ELSE noted
    <2>1. /\ Sound(fenced, now)
          /\ fenced.fencingRevision = program.fencingRevision
          /\ fenced.stopped = program.stopped
          /\ \A s \in Roles : s # r => fenced.active[s] = program.active[s]
      <3>1. CASE Held(program, r)
        <4>1. "writer-fenced" \in EventTypes /\ old.fencingRevision \in Nat
          BY LeaseFields DEF EventTypes, Sound
        <4>2. Sound(emitted, now) /\ SameLeases(noted, emitted)
          BY <1>1, <4>1, EmitSound
        <4> HIDE DEF emitted
        <4>3. emitted \in Programs
          BY <4>2 DEF Sound
        <4>4. fenced = [emitted EXCEPT !.active[r] = NoLease]
          BY <3>1
        <4> HIDE DEF fenced
        <4>5. fenced \in Programs /\ fenced.outbox = emitted.outbox
              /\ fenced.sequence = emitted.sequence /\ fenced.stopped = emitted.stopped
              /\ fenced.fencingRevision = emitted.fencingRevision
          BY <4>3, <4>4 DEF Programs
        <4>6. fenced.active[r] = NoLease
              /\ \A s \in Roles : s # r => fenced.active[s] = emitted.active[s]
          BY <4>3, <4>4 DEF Programs
        <4>7. emitted.fencingRevision >= emitted.fencingRevision
          BY <4>3 DEF Programs
        <4>8. Sound(fenced, now)
          BY <4>2, <4>5, <4>6, <4>7, SoundLeases
        <4> QED
          BY <1>1, <4>2, <4>5, <4>6, <4>8 DEF SameLeases
      <3>2. CASE ~Held(program, r)
        BY <1>1, <3>2
      <3> QED
        BY <3>1, <3>2
    <2>2. \/ program' = Stop(fenced, r)
          \/ program' = PromoteOrStop(fenced, r, old.holder, "writer-takeover")
      BY <1>3 DEF EvaluateFailover, Apply, noted
    <2>3. "writer-takeover" \in EventTypes
      BY DEF EventTypes
    <2> HIDE DEF fenced
    <2>4. Sound(program', now) /\ TakenOver(fenced, program', r)
      <3>1. CASE program' = Stop(fenced, r)
        BY <2>1, <3>1, StopSound DEF TakenOver
      <3>2. CASE program' = PromoteOrStop(fenced, r, old.holder, "writer-takeover")
        BY <2>1, <2>3, <3>2, PromoteOrStopSound
      <3> QED
        BY <2>2, <3>1, <3>2
    <2>5. TakenOver(program, program', r)
      BY <2>1, <2>4 DEF TakenOver
    <2> QED
      BY <2>4, <2>5 DEF Operation
  <1> QED
    BY <1>2, <1>3

\* Every step of the coordinator keeps the program sound.
LEMMA StepSound ==
  ASSUME IInv, Next
  PROVE  /\ Sound(program', now')
         /\ now' \in Nat
         /\ Operation(program, program')
         /\ \/ program' = program /\ issued' = issued
            \/ /\ program'.fencingRevision <= MaxFence
               /\ issued' = issued \cup HeldTokens(program')
  <1>1. Sound(program, now) /\ now \in Nat /\ program \in Programs
    BY DEF IInv, Sound
  <1>2. CASE Tick
    <2>1. program' = program /\ issued' = issued /\ now' = now + 1
      BY <1>2 DEF Tick
    <2>2. IssuedBefore(program, now + 1)
      BY <1>1, LeaseFields DEF Sound, IssuedBefore
    <2>3. Sound(program', now')
      BY <1>1, <2>1, <2>2 DEF Sound
    <2>4. Operation(program, program')
      BY <2>1 DEF Operation, SameWriters
    <2> QED
      BY <1>1, <2>1, <2>3, <2>4
  <1>3. CASE Restart
    <2>1. program' = [program EXCEPT !.candidates = [r \in Roles |-> {}]]
      BY <1>3 DEF Restart, Apply, RestoredProgram
    <2>2. Sound(program', now) /\ SameWriters(program, program')
      BY <1>1, <2>1, CandidatesSound
    <2> QED
      BY <1>1, <1>3, <2>2 DEF Restart, Apply, Operation
  <1>4. CASE \E i \in DOMAIN program.outbox : Acknowledge(i)
    <2>1. PICK i \in DOMAIN program.outbox : Acknowledge(i)
      BY <1>4
    <2>2. program' = [program EXCEPT !.outbox = RemoveAt(program.outbox, i)]
      BY <2>1, <1>1 DEF Acknowledge, Apply, Programs
    <2>3. Sound(program', now) /\ SameWriters(program, program')
      BY <1>1, <2>2, AcknowledgeSound
    <2> QED
      BY <1>1, <2>1, <2>3 DEF Acknowledge, Apply, Operation
  <1>5. ASSUME NEW r \in Roles, NEW list \in CandidateLists, ConfigureCandidates(r, list)
        PROVE  Sound(program', now) /\ Operation(program, program')
    BY <1>1, <1>5, ConfigureSound
  <1>6. ASSUME NEW r \in Roles, Acquire(r)
        PROVE  Sound(program', now) /\ Operation(program, program')
    BY <1>1, <1>6, AcquireSound
  <1>7. ASSUME NEW r \in Roles, NEW token, NEW healthy \in BOOLEAN, NEW votes \in 0..Voters,
               Heartbeat(r, token, healthy, votes)
        PROVE  Sound(program', now) /\ Operation(program, program')
    BY <1>1, <1>7, HeartbeatSound
  <1>8. ASSUME NEW r \in Roles, NEW down,
               EvaluateGrace(r, down) \/ EvaluateBlocked(r, down) \/ EvaluateFailover(r, down)
        PROVE  Sound(program', now) /\ Operation(program, program')
    BY <1>1, <1>8, EvaluateSound
  <1>9. ASSUME ~Tick, ~Restart, ~\E i \in DOMAIN program.outbox : Acknowledge(i)
        PROVE  /\ program'.fencingRevision <= MaxFence
               /\ issued' = issued \cup HeldTokens(program')
               /\ now' = now
    <2> DEFINE Applied == /\ program'.fencingRevision <= MaxFence
                          /\ issued' = issued \cup HeldTokens(program')
                          /\ now' = now
    <2>1. ASSUME NEW p, Apply(p) PROVE Applied
      BY <2>1 DEF Apply
    <2> HIDE DEF Applied
    <2>2. ASSUME NEW r \in Roles, NEW list \in CandidateLists, ConfigureCandidates(r, list)
          PROVE  Applied
      BY <2>1, <2>2 DEF ConfigureCandidates
    <2>3. ASSUME NEW r \in Roles, Acquire(r) PROVE Applied
      BY <2>1, <2>3 DEF Acquire
    <2>4. ASSUME NEW r \in Roles, NEW token, NEW healthy, NEW votes,
                 Heartbeat(r, token, healthy, votes)
          PROVE  Applied
      BY <2>1, <2>4 DEF Heartbeat
    <2>5. ASSUME NEW r \in Roles, NEW down,
                 EvaluateGrace(r, down) \/ EvaluateBlocked(r, down) \/ EvaluateFailover(r, down)
          PROVE  Applied
      BY <2>1, <2>5 DEF EvaluateGrace, EvaluateBlocked, EvaluateFailover
    <2>6. Applied
      BY <1>9, <2>2, <2>3, <2>4, <2>5 DEF Next
    <2> QED
      BY <2>6 DEF Applied
  <1>10. ASSUME ~Tick, ~Restart, ~\E i \in DOMAIN program.outbox : Acknowledge(i)
         PROVE  Sound(program', now) /\ Operation(program, program')
    BY <1>5, <1>6, <1>7, <1>8, <1>10 DEF Next
  <1> QED
    BY <1>1, <1>2, <1>3, <1>4, <1>9, <1>10

-----------------------------------------------------------------------------
(***************************************************************************)
(* The theorems                                                            *)
(***************************************************************************)

\* A token is handed out for a lease of a configured holder only.
LEMMA HeldTokensTyped ==
  ASSUME NEW p \in Programs
  PROVE  HeldTokens(p) \subseteq Tokens
  <1> SUFFICES ASSUME NEW r \in Roles, Held(p, r)
               PROVE  Token(r, p.active[r]) \in Tokens
    BY DEF HeldTokens
  <1>1. p.active[r] \in Lease
    BY LeaseFields DEF Held
  <1> QED
    BY <1>1 DEF Token, Tokens, Lease

LEMMA InitSound == Init => IInv
  <1> SUFFICES ASSUME Init PROVE IInv
    OBVIOUS
  <1>1. program \in Programs
    <2>1. <<>> \in Seq(Event)
      OBVIOUS
    <2>2. LeaseEpoch \in Nat
      BY FailoverConstants
    <2> QED
      BY <2>1, <2>2 DEF Init, Programs, NoLease, NoFailure
  <1>2. /\ program.fencingRevision = LeaseEpoch /\ program.outbox = <<>>
        /\ \A r \in Roles : program.active[r] = NoLease
    BY DEF Init
  <1>3. now = 0 /\ issued = {}
    BY DEF Init
  <1>4. Len(program.outbox) = 0
    BY <1>2
  <1>5. Restorable(program)
    BY <1>2, <1>4, FailoverConstants DEF Restorable, Held
  <1>6. IssuedBefore(program, now) /\ OrderedOutbox(program)
    BY <1>2, <1>3, <1>4 DEF IssuedBefore, OrderedOutbox, NoLease
  <1> QED
    BY <1>1, <1>3, <1>5, <1>6 DEF IInv, Sound

LEMMA StepKeeps == IInv /\ [Next]_vars => IInv'
  <1> SUFFICES ASSUME IInv, [Next]_vars PROVE IInv'
    OBVIOUS
  <1>1. CASE Next
    <2>1. Sound(program', now') /\ now' \in Nat /\ program' \in Programs
      BY <1>1, StepSound DEF Sound
    <2>2. issued' \subseteq Tokens
      BY <1>1, <2>1, StepSound, HeldTokensTyped DEF IInv
    <2>3. Sound(program, now)'
      BY <2>1 DEF Sound, Restorable, IssuedBefore, OrderedOutbox, Held
    <2> QED
      BY <2>1, <2>2, <2>3 DEF IInv
  <1>2. CASE UNCHANGED vars
    BY <1>2 DEF vars, IInv, Sound, Restorable, IssuedBefore, OrderedOutbox, Held
  <1> QED
    BY <1>1, <1>2

\* The inductive invariant: every reachable program is sound at the current time.
THEOREM FailoverInvariant == Spec => []IInv
  BY InitSound, StepKeeps, PTL DEF Spec

\* The coordinator's entry keeps its types in every reachable state.
THEOREM FailoverTypes == Spec => []TypeOK
  <1>1. IInv => TypeOK
    BY DEF IInv, Sound, TypeOK
  <1> QED
    BY <1>1, FailoverInvariant, PTL

\* restore accepts every snapshot the coordinator takes of itself, for every
\* lease epoch, lease lifetime and outbox bound.
THEOREM SnapshotsRestore == Spec => []OwnSnapshotsRestore
  <1>1. IInv => OwnSnapshotsRestore
    BY DEF IInv, Sound, OwnSnapshotsRestore
  <1> QED
    BY <1>1, FailoverInvariant, PTL

\* No two events in the outbox share an id: an acknowledgement drops the event
\* it names and no other.
EventsAreDistinct ==
  \A i, j \in DOMAIN program.outbox : program.outbox[i].id = program.outbox[j].id => i = j

\* Events in the outbox are distinct, however many were acknowledged out of
\* order and however often the coordinator was restored.
THEOREM DistinctEvents == Spec => []EventsAreDistinct
  <1>1. IInv => EventsAreDistinct
    <2> SUFFICES ASSUME IInv, NEW i \in DOMAIN program.outbox, NEW j \in DOMAIN program.outbox,
                        program.outbox[i].id = program.outbox[j].id
                 PROVE  i = j
      BY DEF EventsAreDistinct
    <2>1. program.outbox \in Seq(Event)
      BY DEF IInv, Sound, Programs
    <2>2. i \in 1..Len(program.outbox) /\ j \in 1..Len(program.outbox)
      BY <2>1
    <2>3. program.outbox[i].id \in Nat /\ program.outbox[j].id \in Nat
      <3>1. program.outbox[i] \in Event /\ program.outbox[j] \in Event
        BY <2>1, <2>2
      <3> QED
        BY <3>1 DEF Event
    <2>4. ~(i < j) /\ ~(j < i)
      BY <2>2, <2>3 DEF IInv, Sound, OrderedOutbox
    <2> QED
      BY <2>2, <2>4
  <1> QED
    BY <1>1, FailoverInvariant, PTL

-----------------------------------------------------------------------------
\* The abstract writer of a held lease.
AbsToken(r, lease) ==
  [role |-> r, leaseId |-> lease.fencingRevision, holderRef |-> lease.holder,
   fencingRevision |-> lease.fencingRevision - LeaseEpoch + 1]

LEMMA WritersOf ==
  ASSUME NEW p, ~p.stopped
  PROVE  Writers(p) = {AbsToken(r, p.active[r]) : r \in {q \in Roles : Held(p, q)}}
  <1>1. \A r : [Token(r, p.active[r]) EXCEPT !.fencingRevision = @ - LeaseEpoch + 1]
               = AbsToken(r, p.active[r])
    BY DEF Token, AbsToken
  <1>2. Writers(p) = {[Token(r, p.active[r]) EXCEPT !.fencingRevision = @ - LeaseEpoch + 1]
                        : r \in {q \in Roles : Held(p, q)}}
    BY DEF Writers, HeldTokens
  <1> QED
    BY <1>1, <1>2

LEMMA SameWritersAbs ==
  ASSUME NEW p, NEW q, SameWriters(p, q), p.stopped \in BOOLEAN
  PROVE  Writers(q) = Writers(p)
  <1>1. CASE p.stopped
    BY <1>1 DEF Writers, SameWriters
  <1>2. CASE ~p.stopped
    <2>1. {r \in Roles : Held(p, r)} = {r \in Roles : Held(q, r)}
      BY DEF SameWriters
    <2>2. \A r \in Roles : AbsToken(r, p.active[r]) = AbsToken(r, q.active[r])
      BY DEF SameWriters, AbsToken
    <2>3. ~q.stopped
      BY <1>2 DEF SameWriters
    <2> QED
      BY <1>2, <2>1, <2>2, <2>3, WritersOf
  <1> QED
    BY <1>1, <1>2

LEMMA TakenOverAbs ==
  ASSUME NEW p \in Programs, NEW q \in Programs, NEW r \in Roles, TakenOver(p, q, r),
         ~q.stopped, q.active[r] # NoLease
  PROVE  /\ ~p.stopped
         /\ Writers(q) = {v \in Writers(p) : v.role # r} \cup {AbsToken(r, q.active[r])}
  <1>1. ~p.stopped /\ \A s \in Roles : s # r => q.active[s] = p.active[s]
    BY DEF TakenOver
  <1>2. Writers(p) = {AbsToken(s, p.active[s]) : s \in {x \in Roles : Held(p, x)}}
    BY <1>1, WritersOf
  <1>3. Writers(q) = {AbsToken(s, q.active[s]) : s \in {x \in Roles : Held(q, x)}}
    BY WritersOf
  <1>4. \A s, l : AbsToken(s, l).role = s
    BY DEF AbsToken
  <1> QED
    BY <1>1, <1>2, <1>3, <1>4 DEF Held

\* The coordinator implements the fencing contract: whatever fails half-way,
\* the writers change only under a new fence.
THEOREM FailoverImplementsFencing == Spec => ImplementsFencing
  <1>1. Init => Fencing!AbsInit
    <2> SUFFICES ASSUME Init PROVE Fencing!AbsInit
      OBVIOUS
    <2>1. /\ program.fencingRevision = LeaseEpoch /\ program.stopped = FALSE
          /\ \A r \in Roles : program.active[r] = NoLease
      BY DEF Init
    <2>2. Writers(program) = {}
      BY <2>1 DEF Writers, HeldTokens, Held
    <2>3. program.fencingRevision - LeaseEpoch + 1 = 1
      BY <2>1, FailoverConstants
    <2> QED
      BY <2>1, <2>2, <2>3 DEF Fencing!AbsInit
  <1>2. IInv /\ [Next]_vars => [Fencing!AbsNext]_(Fencing!absvars)
    <2> SUFFICES ASSUME IInv, [Next]_vars
                 PROVE  Fencing!AbsNext \/ UNCHANGED Fencing!absvars
      OBVIOUS
    <2>1. CASE UNCHANGED vars
      BY <2>1 DEF vars, Fencing!absvars, Writers, HeldTokens, Held, Token
    <2>2. CASE Next
      <3>1. program \in Programs /\ program' \in Programs /\ Operation(program, program')
        BY <2>2, StepSound DEF IInv, Sound
      <3>2. CASE SameWriters(program, program')
        <4>1. program.stopped \in BOOLEAN
          BY <3>1 DEF Programs
        <4>2. Writers(program') = Writers(program)
          BY <3>2, <4>1, SameWritersAbs
        <4> QED
          BY <3>2, <4>2 DEF Fencing!absvars, SameWriters
      <3>3. ASSUME NEW r \in Roles, TakenOver(program, program', r)
            PROVE  Fencing!AbsNext
        <4>1. /\ program.fencingRevision \in Nat /\ LeaseEpoch \in Nat
              /\ program.stopped \in BOOLEAN /\ program'.stopped \in BOOLEAN
          BY <3>1, FailoverConstants DEF Programs
        <4>2. program'.fencingRevision - LeaseEpoch + 1
              = (program.fencingRevision - LeaseEpoch + 1) + 1
          BY <3>3, <4>1 DEF TakenOver
        <4>3. CASE program'.stopped
          <5>1. Writers(program') = {}
            BY <4>3 DEF Writers
          <5> QED
            BY <4>1, <4>2, <4>3, <5>1 DEF Fencing!AbsNext, Fencing!Retire
        <4>4. CASE ~program'.stopped
          <5> DEFINE lease == program'.active[r]
          <5>1. lease \in Lease /\ lease.fencingRevision = program.fencingRevision + 1
            BY <3>3, <4>4 DEF TakenOver
          <5>2. lease # NoLease
            <6>1. lease.fencingRevision # 0
              BY <4>1, <5>1
            <6> QED
              BY <6>1 DEF NoLease
          <5>3. ~program.stopped
                /\ Writers(program') =
                     {v \in Writers(program) : v.role # r} \cup {AbsToken(r, lease)}
            BY <3>1, <3>3, <4>4, <5>2, TakenOverAbs
          <5>4. lease.fencingRevision \in 1..MaxFence /\ lease.holder \in Holders
            <6>1. program' # program
              BY <3>3, <4>1 DEF TakenOver
            <6>2. program'.fencingRevision <= MaxFence
              BY <2>2, <6>1, StepSound
            <6>3. lease.fencingRevision <= MaxFence
              BY <3>3, <5>1, <6>2 DEF TakenOver
            <6> QED
              BY <4>1, <5>1, <6>3, FailoverConstants DEF Lease
          <5>5. AbsToken(r, lease)
                = [role |-> r, leaseId |-> lease.fencingRevision, holderRef |-> lease.holder,
                   fencingRevision |-> (program.fencingRevision - LeaseEpoch + 1) + 1]
            BY <4>1, <5>1 DEF AbsToken
          <5>6. program'.stopped = program.stopped
            BY <4>1, <4>4, <5>3
          <5> QED
            BY <4>2, <5>3, <5>4, <5>5, <5>6 DEF Fencing!AbsNext, Fencing!Grant
        <4> QED
          BY <4>3, <4>4
      <3> QED
        BY <3>1, <3>2, <3>3 DEF Operation
    <2> QED
      BY <2>1, <2>2
  <1> QED
    BY <1>1, <1>2, FailoverInvariant, PTL DEF Spec, ImplementsFencing, Fencing!AbsSpec

=============================================================================
