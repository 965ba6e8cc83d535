--------------------------- MODULE ProgramReducer ---------------------------
(***************************************************************************)
(* The broadcast program state machine of src/broadcast-program-machine.js *)
(* as a pure reducer: every operator takes a machine snapshot and returns  *)
(* the next one.  A command that the code refuses (it throws) is modelled  *)
(* by the falsity of the command's ...OK operator; the snapshot is then    *)
(* unchanged.  Operators whose name starts with Faulty are seeded faults,  *)
(* used only to show that the properties notice them.                      *)
(*                                                                         *)
(* Abstractions: contract fields that no guard reads are left out (title,  *)
(* lease.revision, the constant scope), reason codes and the policy hash   *)
(* are left out, and a command fingerprint is left out because a used      *)
(* idempotency key never changes the snapshot, whatever the fingerprint.   *)
(* The three room epochs are left out: no caller changes them.  The clock  *)
(* does not step back, so createdAt, updatedAt and acquiredAt, and the     *)
(* checks that they are ordered, are left out.                             *)
(***************************************************************************)
EXTENDS Integers, Sequences

CONSTANTS
  Sources,       \* program source ids
  Holders,       \* writer principals (packagers), holderRef
  LeaseIds,      \* writer lease ids
  Visibilities,  \* program visibilities
  MaxRecords     \* MAX_BROADCAST_IDEMPOTENCY_RECORDS (256 in the code)

ASSUME MaxRecordsAssumption == MaxRecords \in Nat \ {0}

\* positiveInteger
Positive == Nat \ {0}

Roles == {"packager-writer", "gateway-writer"}

States == {"draft", "preparing", "awaiting_consent", "publishing", "live",
           "degraded", "stopping", "stopped", "failed"}

\* The snapshot before "create": program is null.
NoProgram == "none"

\* viewerPolicyId is set at creation or never.
PolicyRef == {"none", "policy"}

WriterLease == [role : Roles, leaseId : LeaseIds, holderRef : Holders,
                fencingRevision : Positive, programEpoch : Positive, expiresAt : Nat]

\* What a writer presents: the part of a lease that identifies the fence.
Token(lease) == [role |-> lease.role, leaseId |-> lease.leaseId,
                 holderRef |-> lease.holderRef,
                 fencingRevision |-> lease.fencingRevision]

Tokens == [role : Roles, leaseId : LeaseIds, holderRef : Holders,
           fencingRevision : Positive]

Machine == [broadcast : Positive, lease : Positive, state : States \cup {NoProgram},
            revision : Nat, sourceIds : Seq(Sources),
            visibility : Visibilities, viewerPolicyId : PolicyRef,
            writerLeases : SUBSET WriterLease,
            appliedCommands : Seq([key : Nat, appliedRevision : Nat])]

-----------------------------------------------------------------------------
(***************************************************************************)
(* The transition table of broadcast-transitions.js; a same-state update   *)
(* is always allowed.                                                      *)
(***************************************************************************)
Transitions ==
  [draft            |-> {"preparing", "stopped"},
   preparing        |-> {"awaiting_consent", "publishing", "stopping", "failed"},
   awaiting_consent |-> {"publishing", "stopping", "failed"},
   publishing       |-> {"live", "degraded", "stopping", "failed"},
   live             |-> {"degraded", "stopping", "failed"},
   degraded         |-> {"live", "publishing", "stopping", "failed"},
   stopping         |-> {"stopped", "failed"},
   failed           |-> {"preparing", "stopped"},
   stopped          |-> {}]

\* assertBroadcastTransition
MayUpdate(m, to) == to = m.state \/ to \in Transitions[m.state]

\* updateProgram: the next revision in the given state.
UpdateProgram(m, to) ==
  [m EXCEPT !.state = to, !.revision = @ + 1]

\* Faulty: the new generation keeps the old writers.
FaultyRollProgramEpoch(m, to) ==
  [m EXCEPT !.state = to, !.revision = @ + 1, !.broadcast = @ + 1, !.lease = @ + 1]

\* rollProgramEpoch: a new program generation, all writers fenced.
RollProgramEpoch(m, to) ==
  [m EXCEPT !.state = to, !.revision = @ + 1,
            !.broadcast = @ + 1, !.lease = @ + 1, !.writerLeases = {}]

\* activeWriter of a role; the code keeps at most one per role.
Writers(m, role) == {l \in m.writerLeases : l.role = role}

\* assertFreshWriters
FreshWriters(m, now) ==
  \A role \in Roles : \E l \in Writers(m, role) : l.expiresAt > now

NotRunning == {"stopping", "stopped", "failed"}

-----------------------------------------------------------------------------
(***************************************************************************)
(* The envelope of every command: idempotency, revision and epoch checks,  *)
(* and the bounded ledger.  cmd carries what its author read: revision and *)
(* broadcast epoch.  Idempotency keys are only compared for equality, so   *)
(* the n-th distinct key is called n.                                      *)
(***************************************************************************)
InitialMachine(broadcast, lease, visibility) ==
  [broadcast |-> broadcast, lease |-> lease, state |-> NoProgram,
   revision |-> 0, sourceIds |-> <<>>, visibility |-> visibility,
   viewerPolicyId |-> "none", writerLeases |-> {},
   appliedCommands |-> <<>>]

KeyUsed(m, key) ==
  \E i \in 1..Len(m.appliedCommands) : m.appliedCommands[i].key = key

LedgerFree(m) == Len(m.appliedCommands) < MaxRecords

\* duplicateResult found nothing, and recordResult will find room.
Fresh(m, cmd) == ~KeyUsed(m, cmd.key) /\ LedgerFree(m)

\* assertCurrent
Current(m, cmd) ==
  /\ m.state # NoProgram
  /\ cmd.revision = m.revision
  /\ cmd.broadcast = m.broadcast

Accepts(m, cmd) == Fresh(m, cmd) /\ Current(m, cmd)

\* recordResult
RecordResult(next, cmd) ==
  [next EXCEPT !.appliedCommands =
     Append(@, [key |-> cmd.key, appliedRevision |-> next.revision])]

-----------------------------------------------------------------------------
(***************************************************************************)
(* One pair of operators per command: when it is accepted, and the next    *)
(* snapshot (before recordResult).                                         *)
(***************************************************************************)
CreateOK(m) == m.state = NoProgram
Create(m, visibility, viewerPolicyId) ==
  [m EXCEPT !.state = "draft", !.revision = 1, !.visibility = visibility,
            !.viewerPolicyId = viewerPolicyId]

StartOK(m) == m.state = "draft"
Start(m) == UpdateProgram(m, "preparing")

AdvanceTargets == {"awaiting_consent", "publishing", "live", "degraded"}

AdvanceOK(m, to, now) ==
  \/ to = m.state
  \/ /\ to \in {"publishing", "live"} => FreshWriters(m, now)
     /\ MayUpdate(m, to)
Advance(m, to) == IF to = m.state THEN m ELSE UpdateProgram(m, to)

\* Faulty: a stopped program accepts new sources.
FaultySourceChangeOK(m) == m.state \notin {"stopping", "failed"}

SourceChangeOK(m) == m.state \notin NotRunning
SourceChange(m, sourceIds) ==
  IF sourceIds = m.sourceIds THEN m
  ELSE [RollProgramEpoch(m, IF m.state = "draft" THEN "draft" ELSE "preparing")
          EXCEPT !.sourceIds = sourceIds]

\* expected is the command's expectedLeaseEpoch.
OutputRestartOK(m, expected) ==
  m.state \in {"live", "degraded"} /\ expected = m.lease
OutputRestart(m) == RollProgramEpoch(m, "preparing")

HandoffOK(m, expected, lease, now) ==
  /\ m.state \notin NotRunning
  /\ expected = m.lease
  /\ lease.programEpoch = m.broadcast
  /\ lease.expiresAt > now
  /\ lease.fencingRevision = m.lease + 1
  /\ \A l \in m.writerLeases : l.leaseId # lease.leaseId
Handoff(m, lease) ==
  UpdateProgram([m EXCEPT !.lease = lease.fencingRevision,
                          !.writerLeases = (@ \ Writers(m, lease.role)) \cup {lease}],
                m.state)

\* requestStop, shared by stop, revoke and the lifecycle stop triggers.
\* sources is the source list after the stop; only revoke changes it.
StopTarget(m) ==
  IF m.state \in {"draft", "failed"} THEN "stopped"
  ELSE IF m.state \in {"stopping", "stopped"} THEN m.state ELSE "stopping"

RequestStopChanges(m, sources) ==
  m.state # "stopped" /\ (m.state # "stopping" \/ sources # m.sourceIds)
RequestStopOK(m, sources) ==
  RequestStopChanges(m, sources) => MayUpdate(m, StopTarget(m))
RequestStop(m, sources) ==
  IF RequestStopChanges(m, sources)
  THEN [UpdateProgram(m, StopTarget(m)) EXCEPT !.sourceIds = sources]
  ELSE m

\* applyRevoke: a revoked source leaves the list, a revoked consent does not.
\* Source lists have no repetition (normalizeSourceIds).
WithoutSource(m, source) ==
  LET s == m.sourceIds
      at == {i \in 1..Len(s) : s[i] = source}
  IN IF at = {} THEN s
     ELSE LET i == CHOOSE k \in at : TRUE
          IN SubSeq(s, 1, i - 1) \o SubSeq(s, i + 1, Len(s))

FailOK(m) ==
  m.state = "failed" \/ (m.state # "draft" /\ MayUpdate(m, "failed"))
Fail(m) == IF m.state = "failed" THEN m ELSE UpdateProgram(m, "failed")

RetryOK(m) == m.state = "failed"
Retry(m) == RollProgramEpoch(m, "preparing")

\* assertCurrentLease: the event must name the lease now held in its role.
CurrentLease(m, event) ==
  \E l \in Writers(m, event.role) :
     /\ l.leaseId = event.leaseId
     /\ l.fencingRevision = event.fencingRevision
\* Faulty: the lease epoch stays behind when a writer is lost.
FaultyWithoutWriter(m, role) == [m EXCEPT !.writerLeases = @ \ Writers(m, role)]
WithoutWriter(m, role) ==
  [m EXCEPT !.lease = @ + 1, !.writerLeases = @ \ Writers(m, role)]

ProcessAbortOK(m, event) ==
  /\ CurrentLease(m, event)
  /\ m.state \notin {"stopped", "draft"}
  /\ m.state = "failed" \/ MayUpdate(m, "failed")
ProcessAbort(m, event) ==
  IF m.state = "failed" THEN WithoutWriter(m, event.role)
  ELSE UpdateProgram(WithoutWriter(m, event.role), "failed")

LeaseLostTarget(m) ==
  IF m.state \in {"publishing", "live"} THEN "degraded" ELSE m.state
LeaseLostOK(m, event) ==
  /\ CurrentLease(m, event)
  /\ m.state # "stopped"
  /\ MayUpdate(m, LeaseLostTarget(m))
LeaseLost(m, event) ==
  UpdateProgram(WithoutWriter(m, event.role), LeaseLostTarget(m))

CleanupCompleteOK(m) ==
  m.state = "stopped" \/ (m.state \in {"stopping", "failed"} /\ MayUpdate(m, "stopped"))
CleanupComplete(m) ==
  IF m.state = "stopped" THEN m
  ELSE UpdateProgram([m EXCEPT !.lease = @ + 1, !.writerLeases = {}], "stopped")

VisibilityChangeOK(m) == m.viewerPolicyId # "none"
VisibilityChange(m, visibility) ==
  [RollProgramEpoch(m, m.state) EXCEPT !.visibility = visibility]

-----------------------------------------------------------------------------
\* renewBroadcastWriterLeases: only the current, unexpired packager renews,
\* and it renews every lease of the snapshot; nothing is recorded.
RenewOK(m, holderRef, fencingRevision, now) ==
  /\ m.state \notin NotRunning
  /\ \E l \in Writers(m, "packager-writer") :
       /\ l.holderRef = holderRef
       /\ l.fencingRevision = fencingRevision
       /\ l.expiresAt > now
Renew(m, expiresAt) ==
  [m EXCEPT !.writerLeases = {[l EXCEPT !.expiresAt = expiresAt] : l \in @}]

\* authorizeBroadcastWriterCommand: may this token perform this action, for
\* a command that carries the writer's view of revision and epochs?
ActionStates ==
  [prepare     |-> {"preparing", "awaiting_consent"},
   publish     |-> {"publishing", "live", "degraded"},
   reconfigure |-> {"preparing", "publishing", "live", "degraded"},
   drain       |-> {"degraded", "stopping", "failed"},
   stop        |-> {"degraded", "stopping", "failed"},
   probe       |-> {"preparing", "awaiting_consent", "publishing", "live",
                    "degraded", "stopping", "failed"}]

WriterActions == DOMAIN ActionStates

\* Faulty: the fencing revision of the token is not compared.
FaultyAuthorizedWriter(m, cmd, token, action, now) ==
  /\ m.state \in ActionStates[action]
  /\ \E l \in Writers(m, token.role) :
       /\ l.leaseId = token.leaseId
       /\ l.holderRef = token.holderRef
       /\ l.expiresAt > now

AuthorizedWriter(m, cmd, token, action, now) ==
  /\ m.state # NoProgram
  /\ cmd.revision = m.revision
  /\ cmd.broadcast = m.broadcast
  /\ cmd.lease = m.lease
  /\ m.state # "stopped"
  /\ m.state \in ActionStates[action]
  /\ \E l \in Writers(m, token.role) : Token(l) = token /\ l.expiresAt > now
=============================================================================
