-------------------------- MODULE BroadcastProgram --------------------------
(***************************************************************************)
(* One broadcast program driven by commands that arrive late, twice or out *)
(* of order.  A command carries what its author read from some earlier     *)
(* snapshot; writers report events about leases they once held.  The       *)
(* reducer itself is module ProgramReducer.                                *)
(*                                                                         *)
(* issued is a history variable: every writer token a handoff ever         *)
(* installed.  effects is the effect list of the last command.             *)
(***************************************************************************)
EXTENDS ProgramReducer

CONSTANTS
  MaxTime,    \* bound on the clock
  MaxLease,   \* longest writer lease, in clock units (120 s in the code)
  Lag         \* how many revisions or epochs behind a command may be

ASSUME ClockAssumption == MaxTime \in Nat /\ MaxLease \in Nat \ {0}
ASSUME LagAssumption == Lag \in Nat

VARIABLES machine, effects, issued, now

vars == <<machine, effects, issued, now>>

EffectTypes ==
  {"prepare-program", "program-state-changed", "fence-previous-writers",
   "cleanup-previous-program-epoch", "revoke-program-grants",
   "prepare-output-generation", "writer-handoff", "stop-delivery",
   "cleanup-program-sources", "fence-writer", "request-writer-handoff",
   "cleanup-complete", "reconfigure-delivery-visibility"}

\* The snapshots an author of a command may have read, and the keys it may use.
Commands ==
  [key : {k \in (Len(machine.appliedCommands) + 1 - Lag)..(Len(machine.appliedCommands) + 1) :
            k >= 1},
   revision : (machine.revision - Lag)..machine.revision,
   broadcast : (machine.broadcast - Lag)..machine.broadcast]

ExpectedLeaseEpochs == (machine.lease - Lag)..machine.lease

SourceLists == {<<>>} \cup {<<s>> : s \in Sources}
                \cup {<<p[1], p[2]>> : p \in {q \in Sources \X Sources : q[1] # q[2]}}

Init ==
  /\ \E v \in Visibilities : machine = InitialMachine(1, 1, v)
  /\ effects = {}
  /\ issued = {}
  /\ now = 0

-----------------------------------------------------------------------------
\* recordResult and the returned effects; a no-op returns none.
Commit(cmd, next, types) ==
  /\ machine' = RecordResult(next, cmd)
  /\ effects' = types
  /\ UNCHANGED <<issued, now>>

\* What requestStop returns: nothing when it changed nothing.
StopEffects(sources) ==
  IF RequestStopChanges(machine, sources)
  THEN {"revoke-program-grants", "stop-delivery", "cleanup-program-sources"}
  ELSE {}

DoCreate(cmd) ==
  /\ Fresh(machine, cmd)
  /\ CreateOK(machine)
  /\ \E v \in Visibilities, p \in PolicyRef :
       Commit(cmd, Create(machine, v, p), {})

DoStart(cmd) ==
  /\ Accepts(machine, cmd)
  /\ StartOK(machine)
  /\ Commit(cmd, Start(machine), {"prepare-program"})

DoAdvance(cmd) ==
  /\ Accepts(machine, cmd)
  /\ \E to \in AdvanceTargets :
       /\ AdvanceOK(machine, to, now)
       /\ Commit(cmd, Advance(machine, to),
                 IF to = machine.state THEN {} ELSE {"program-state-changed"})

DoSourceChange(cmd) ==
  /\ Accepts(machine, cmd)
  /\ SourceChangeOK(machine)
  /\ \E list \in SourceLists :
       Commit(cmd, SourceChange(machine, list),
              IF list = machine.sourceIds THEN {}
              ELSE {"fence-previous-writers", "cleanup-previous-program-epoch",
                    "prepare-program"})

DoOutputRestart(cmd) ==
  /\ Accepts(machine, cmd)
  /\ \E expected \in ExpectedLeaseEpochs : OutputRestartOK(machine, expected)
  /\ Commit(cmd, OutputRestart(machine),
            {"fence-previous-writers", "revoke-program-grants",
             "prepare-output-generation"})

\* The proposer takes fence and epoch from the snapshot it read.
ProposedLeases ==
  [role : Roles, leaseId : LeaseIds, holderRef : Holders,
   fencingRevision : (machine.lease + 1 - Lag)..(machine.lease + 1),
   programEpoch : (machine.broadcast - Lag)..machine.broadcast,
   expiresAt : now..(now + MaxLease)]

DoHandoff(cmd) ==
  /\ Accepts(machine, cmd)
  /\ \E lease \in ProposedLeases, expected \in ExpectedLeaseEpochs :
       /\ HandoffOK(machine, expected, lease, now)
       /\ machine' = RecordResult(Handoff(machine, lease), cmd)
       /\ effects' = {"writer-handoff"}
       /\ issued' = issued \cup {Token(lease)}
       /\ UNCHANGED now

\* stop, the lifecycle stop triggers and a consent revocation
DoStop(cmd) ==
  /\ Accepts(machine, cmd)
  /\ RequestStopOK(machine, machine.sourceIds)
  /\ Commit(cmd, RequestStop(machine, machine.sourceIds), StopEffects(machine.sourceIds))

DoRevokeSource(cmd) ==
  /\ Accepts(machine, cmd)
  /\ \E source \in Sources :
       LET rest == WithoutSource(machine, source)
       IN /\ RequestStopOK(machine, rest)
          /\ Commit(cmd, RequestStop(machine, rest), StopEffects(rest))

DoFail(cmd) ==
  /\ Accepts(machine, cmd)
  /\ FailOK(machine)
  /\ Commit(cmd, Fail(machine),
            IF machine.state = "failed" THEN {}
            ELSE {"revoke-program-grants", "cleanup-program-sources"})

DoRetry(cmd) ==
  /\ Accepts(machine, cmd)
  /\ RetryOK(machine)
  /\ Commit(cmd, Retry(machine),
            {"fence-previous-writers", "cleanup-previous-program-epoch",
             "prepare-program"})

\* Writer events name a token its writer once received.
DoProcessAbort(cmd) ==
  /\ Accepts(machine, cmd)
  /\ \E event \in issued :
       /\ ProcessAbortOK(machine, event)
       /\ Commit(cmd, ProcessAbort(machine, event),
                 {"fence-writer", "revoke-program-grants", "cleanup-program-sources"})

DoLeaseLost(cmd) ==
  /\ Accepts(machine, cmd)
  /\ \E event \in issued :
       /\ LeaseLostOK(machine, event)
       /\ Commit(cmd, LeaseLost(machine, event),
                 {"fence-writer"} \cup
                 (IF machine.state \in {"stopping", "failed"} THEN {}
                  ELSE {"request-writer-handoff"}))

DoCleanupComplete(cmd) ==
  /\ Accepts(machine, cmd)
  /\ CleanupCompleteOK(machine)
  /\ Commit(cmd, CleanupComplete(machine),
            IF machine.state = "stopped" THEN {} ELSE {"cleanup-complete"})

DoVisibilityChange(cmd) ==
  /\ Accepts(machine, cmd)
  /\ VisibilityChangeOK(machine)
  /\ \E v \in Visibilities :
       Commit(cmd, VisibilityChange(machine, v),
              {"fence-previous-writers", "revoke-program-grants",
               "reconfigure-delivery-visibility"})

\* duplicateResult: a replayed command answers with no effects.
DoDuplicate(cmd) ==
  /\ KeyUsed(machine, cmd.key)
  /\ effects' = {}
  /\ UNCHANGED <<machine, issued, now>>

DoRenew ==
  /\ \E event \in issued, d \in 1..MaxLease :
       /\ RenewOK(machine, event.holderRef, event.fencingRevision, now)
       /\ machine' = Renew(machine, now + d)
  /\ UNCHANGED <<effects, issued, now>>

Tick == now < MaxTime /\ now' = now + 1 /\ UNCHANGED <<machine, effects, issued>>

Command(cmd) ==
  \/ DoCreate(cmd)
  \/ DoStart(cmd)
  \/ DoAdvance(cmd)
  \/ DoSourceChange(cmd)
  \/ DoOutputRestart(cmd)
  \/ DoHandoff(cmd)
  \/ DoStop(cmd)
  \/ DoRevokeSource(cmd)
  \/ DoFail(cmd)
  \/ DoRetry(cmd)
  \/ DoProcessAbort(cmd)
  \/ DoLeaseLost(cmd)
  \/ DoCleanupComplete(cmd)
  \/ DoVisibilityChange(cmd)
  \/ DoDuplicate(cmd)

Next == (\E cmd \in Commands : Command(cmd)) \/ DoRenew \/ Tick

Spec == Init /\ [][Next]_vars

-----------------------------------------------------------------------------
(***************************************************************************)
(* Properties                                                              *)
(***************************************************************************)
HeldTokens(m) == {Token(l) : l \in m.writerLeases}

\* A writer's best case: a command that carries the current snapshot.
CurrentCommand(m) ==
  [revision |-> m.revision, broadcast |-> m.broadcast, lease |-> m.lease]

MayWrite(m, token, time) ==
  \E action \in WriterActions :
     AuthorizedWriter(m, CurrentCommand(m), token, action, time)

OnAir(m) == m.state \in {"publishing", "live"}

\* The machine, the effects, the token history and the clock have their types.
TypeOK ==
  /\ machine \in Machine
  /\ effects \subseteq EffectTypes
  /\ issued \subseteq Tokens
  /\ now \in Nat

\* At most one writer per role, and its lease belongs to the current program
\* generation and to a fence that was really issued: what
\* validateBroadcastProgramMachine rejects is never reached by a command.
WritersAreExclusive ==
  /\ \A k, l \in machine.writerLeases : k.role = l.role => k = l
  /\ \A k, l \in machine.writerLeases : k.leaseId = l.leaseId => k = l
  /\ \A l \in machine.writerLeases :
       /\ l.programEpoch = machine.broadcast
       /\ l.fencingRevision <= machine.lease
       /\ Token(l) \in issued

\* Two handoffs never hand out the same fencing revision, whatever lease ids
\* and holders come back: of two handoffs prepared from one snapshot at most
\* one is applied (fencingRevision = epochs.lease + 1 in applyHandoff).
FencesIssuedOnce ==
  \A s, t \in issued :
     /\ s.fencingRevision = t.fencingRevision => s = t
     /\ s.fencingRevision <= machine.lease

\* A ledger without repeated keys whose revisions grow up to rev.
Ordered(led, rev) ==
  /\ Len(led) <= MaxRecords
  /\ \A i, j \in 1..Len(led) :
       i < j => /\ led[i].key # led[j].key
                /\ led[i].appliedRevision <= led[j].appliedRevision
  /\ \A i \in 1..Len(led) : led[i].appliedRevision <= rev

\* The idempotency ledger never holds a key twice, its revisions are those of
\* accepted commands in the order of acceptance, and it never outgrows its bound.
LedgerIsOrdered == Ordered(machine.appliedCommands, machine.revision)

\* A writer that lost its lease (replaced, lost, fenced by a new generation or
\* cleaned up) is never authorised again, not even after the same lease id and
\* holder come back with a new fence.
SupersededWriterStaysFenced ==
  [][\A t \in issued : t \notin HeldTokens(machine) => ~MayWrite(machine', t, now')]_vars

\* stopped is final: no command leaves it, installs a writer or lets one write.
StoppedIsFinal ==
  [][machine.state = "stopped" =>
       /\ machine'.state = "stopped"
       /\ HeldTokens(machine') \subseteq HeldTokens(machine)
       /\ \A t \in issued : ~MayWrite(machine', t, now')]_vars

\* The fencing contract this program implements: the lease epoch is the
\* counter, the tokens of the snapshot are the writers, stopped is closed.
Fencing == INSTANCE FencedWriters
  WITH Role <- Roles, Id <- LeaseIds, Principal <- Holders,
       fence <- machine.lease, writers <- HeldTokens(machine),
       closed <- machine.state = "stopped"

\* Every command of the program machine is a step of the fencing contract: a
\* writer set never changes without a new lease epoch, a takeover always gets
\* the next fence, and a stopped program admits no writer.
ImplementsFencing == Fencing!AbsSpec

=============================================================================
