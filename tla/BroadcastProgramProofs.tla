----------------------- MODULE BroadcastProgramProofs -----------------------
(***************************************************************************)
(* Proofs about BroadcastProgram, for every set of sources, holders and    *)
(* lease ids, every ledger bound and every staleness of the commands.      *)
(*                                                                         *)
(* The argument has three layers.  Each command of the reducer, when the   *)
(* code accepts it, either keeps the writers and the lease epoch or drops  *)
(* writers under the next lease epoch (Evolves); a handoff is the only     *)
(* operation that installs one.  So a step of the specification is of one  *)
(* of four kinds (StepKinds).  The invariant is proved once per kind.      *)
(***************************************************************************)
EXTENDS BroadcastProgram, SequenceTheorems, TLAPS

-----------------------------------------------------------------------------
(* What an accepted command other than a handoff does to a snapshot. *)

KeepsWriters(m, n) ==
  /\ n.lease = m.lease
  /\ n.writerLeases = m.writerLeases
  /\ n.broadcast = m.broadcast

RetiresWriters(m, n) ==
  /\ n.lease = m.lease + 1
  /\ n.writerLeases \subseteq m.writerLeases
  /\ \/ n.broadcast = m.broadcast
     \/ n.broadcast = m.broadcast + 1 /\ n.writerLeases = {}

Evolves(m, n) ==
  /\ n \in Machine
  /\ n.state # NoProgram
  /\ n.revision >= m.revision
  /\ m.state = "stopped" => n.state = "stopped"
  /\ n.appliedCommands = m.appliedCommands
  /\ KeepsWriters(m, n) \/ RetiresWriters(m, n)

\* updateProgram keeps the writers and stays inside Machine.
LEMMA UpdateEvolves ==
  ASSUME NEW m \in Machine, NEW to \in States,
         m.state = "stopped" => to = "stopped"
  PROVE  Evolves(m, UpdateProgram(m, to))
  <1>1. m.revision + 1 \in Nat /\ m.revision + 1 >= m.revision
    BY DEF Machine
  <1>2. UpdateProgram(m, to) \in Machine
    BY <1>1 DEF Machine, UpdateProgram
  <1>3. to # NoProgram
    BY DEF States, NoProgram
  <1> QED
    BY <1>1, <1>2, <1>3 DEF Machine, UpdateProgram, Evolves, KeepsWriters

\* rollProgramEpoch drops every writer under the next lease epoch.
LEMMA RollEvolves ==
  ASSUME NEW m \in Machine, NEW to \in States,
         m.state = "stopped" => to = "stopped"
  PROVE  Evolves(m, RollProgramEpoch(m, to))
  <1>1. /\ m.revision + 1 \in Nat /\ m.revision + 1 >= m.revision
        /\ m.broadcast + 1 \in Positive
        /\ m.lease + 1 \in Positive
    BY DEF Machine, Positive
  <1>2. RollProgramEpoch(m, to) \in Machine
    BY <1>1 DEF Machine, RollProgramEpoch
  <1>3. to # NoProgram
    BY DEF States, NoProgram
  <1> QED
    BY <1>1, <1>2, <1>3 DEF Machine, RollProgramEpoch, Evolves, RetiresWriters

\* A no-op command leaves the snapshot as it is.
LEMMA SameEvolves ==
  ASSUME NEW m \in Machine, m.state # NoProgram
  PROVE  Evolves(m, m)
  BY DEF Machine, Evolves, KeepsWriters

\* Changing a field that no fence depends on preserves Evolves.
LEMMA SourcesEvolve ==
  ASSUME NEW m \in Machine, NEW n, Evolves(m, n), NEW s \in Seq(Sources)
  PROVE  Evolves(m, [n EXCEPT !.sourceIds = s])
  BY DEF Machine, Evolves, KeepsWriters, RetiresWriters

LEMMA VisibilityEvolves ==
  ASSUME NEW m \in Machine, NEW n, Evolves(m, n), NEW v \in Visibilities
  PROVE  Evolves(m, [n EXCEPT !.visibility = v])
  BY DEF Machine, Evolves, KeepsWriters, RetiresWriters

\* Losing one writer moves the lease epoch and nothing else.
LEMMA WithoutWriterFacts ==
  ASSUME NEW m \in Machine, NEW role
  PROVE  LET n == WithoutWriter(m, role)
         IN /\ n \in Machine
            /\ n.state = m.state
            /\ n.revision = m.revision
            /\ n.appliedCommands = m.appliedCommands
            /\ RetiresWriters(m, n)
  <1>1. m.lease + 1 \in Positive
    BY DEF Machine, Positive
  <1>2. m.writerLeases \ Writers(m, role) \in SUBSET WriterLease
    BY DEF Machine
  <1> QED
    BY <1>1, <1>2 DEF Machine, WithoutWriter, RetiresWriters

\* An update after the loss of a writer.
LEMMA UpdateAfterRetire ==
  ASSUME NEW m \in Machine, NEW n \in Machine, NEW to \in States,
         RetiresWriters(m, n), n.revision = m.revision,
         n.appliedCommands = m.appliedCommands,
         m.state = "stopped" => to = "stopped"
  PROVE  Evolves(m, UpdateProgram(n, to))
  <1>1. n.revision + 1 \in Nat /\ n.revision + 1 >= m.revision
    BY DEF Machine
  <1>2. UpdateProgram(n, to) \in Machine
    BY <1>1 DEF Machine, UpdateProgram
  <1>3. to # NoProgram
    BY DEF States, NoProgram
  <1> QED
    BY <1>1, <1>2, <1>3 DEF Machine, UpdateProgram, Evolves, RetiresWriters

-----------------------------------------------------------------------------
(* The commands, one lemma each. *)

LEMMA CreateStep ==
  ASSUME NEW m \in Machine, CreateOK(m), m.revision = 0,
         NEW v \in Visibilities, NEW p \in PolicyRef
  PROVE  Evolves(m, Create(m, v, p))
  <1>1. Create(m, v, p) \in Machine
    BY DEF Machine, Create, States
  <1>2. "draft" # NoProgram /\ "stopped" # NoProgram
    BY DEF NoProgram
  <1> QED
    BY <1>1, <1>2 DEF Machine, Create, CreateOK, Evolves, KeepsWriters

LEMMA StartStep ==
  ASSUME NEW m \in Machine, StartOK(m)
  PROVE  Evolves(m, Start(m))
  BY UpdateEvolves DEF Start, StartOK, States

LEMMA AdvanceStep ==
  ASSUME NEW m \in Machine, m.state # NoProgram, NEW to \in AdvanceTargets, NEW t,
         AdvanceOK(m, to, t)
  PROVE  Evolves(m, Advance(m, to))
  <1>1. to \in States
    BY DEF AdvanceTargets, States
  <1>2. CASE to = m.state
    BY <1>2, SameEvolves DEF Advance
  <1>3. CASE to # m.state
    <2>1. m.state # "stopped"
      BY <1>3 DEF AdvanceOK, MayUpdate, Transitions
    <2> QED
      BY <1>1, <1>3, <2>1, UpdateEvolves DEF Advance
  <1> QED
    BY <1>2, <1>3

LEMMA SourceChangeStep ==
  ASSUME NEW m \in Machine, m.state # NoProgram, SourceChangeOK(m),
         NEW list \in Seq(Sources)
  PROVE  Evolves(m, SourceChange(m, list))
  <1> DEFINE to == IF m.state = "draft" THEN "draft" ELSE "preparing"
  <1>1. to \in States /\ m.state # "stopped"
    BY DEF States, SourceChangeOK, NotRunning
  <1>2. Evolves(m, RollProgramEpoch(m, to))
    BY <1>1, RollEvolves
  <1>3. Evolves(m, [RollProgramEpoch(m, to) EXCEPT !.sourceIds = list])
    BY <1>2, SourcesEvolve
  <1> QED
    BY <1>3, SameEvolves DEF SourceChange

LEMMA OutputRestartStep ==
  ASSUME NEW m \in Machine, NEW expected, OutputRestartOK(m, expected)
  PROVE  Evolves(m, OutputRestart(m))
  BY RollEvolves DEF OutputRestart, OutputRestartOK, States

\* Removing a source leaves a list of sources.
LEMMA WithoutSourceType ==
  ASSUME NEW m \in Machine, NEW source
  PROVE  WithoutSource(m, source) \in Seq(Sources)
  <1> DEFINE s == m.sourceIds
             at == {i \in 1..Len(s) : s[i] = source}
  <1>0. s \in Seq(Sources)
    BY DEF Machine
  <1>1. CASE at = {}
    BY <1>0, <1>1 DEF WithoutSource
  <1>2. CASE at # {}
    <2> DEFINE i == CHOOSE k \in at : TRUE
    <2>1. i \in 1..Len(s)
      BY <1>2
    <2>2. /\ SubSeq(s, 1, i - 1) \in Seq(Sources)
          /\ SubSeq(s, i + 1, Len(s)) \in Seq(Sources)
      <3> HIDE DEF i, s
      <3>1. i - 1 \in Int /\ i + 1 \in Int /\ Len(s) \in Nat
        BY <1>0, <2>1
      <3>2. \A k \in 1..Len(s) : s[k] \in Sources
        BY <1>0, ElementOfSeq
      <3>3. 1..(i - 1) \subseteq 1..Len(s) /\ (i + 1)..Len(s) \subseteq 1..Len(s)
        BY <2>1, <3>1
      <3> QED
        BY <3>1, <3>2, <3>3, SubSeqProperties
    <2>3. SubSeq(s, 1, i - 1) \o SubSeq(s, i + 1, Len(s)) \in Seq(Sources)
      BY <2>2
    <2> QED
      BY <1>2, <2>3 DEF WithoutSource
  <1> QED
    BY <1>1, <1>2

LEMMA RequestStopStep ==
  ASSUME NEW m \in Machine, m.state # NoProgram, NEW list \in Seq(Sources)
  PROVE  Evolves(m, RequestStop(m, list))
  <1>1. CASE RequestStopChanges(m, list)
    <2>1. StopTarget(m) \in States
      BY DEF StopTarget, States, Machine
    <2>2. m.state # "stopped"
      BY <1>1 DEF RequestStopChanges
    <2>3. Evolves(m, UpdateProgram(m, StopTarget(m)))
      BY <2>1, <2>2, UpdateEvolves
    <2> QED
      BY <1>1, <2>3, SourcesEvolve DEF RequestStop
  <1>2. CASE ~RequestStopChanges(m, list)
    BY <1>2, SameEvolves DEF RequestStop
  <1> QED
    BY <1>1, <1>2

LEMMA FailStep ==
  ASSUME NEW m \in Machine, m.state # NoProgram, FailOK(m)
  PROVE  Evolves(m, Fail(m))
  <1>2. m.state # "stopped"
    BY DEF FailOK, MayUpdate, Transitions
  <1> QED
    BY <1>2, UpdateEvolves, SameEvolves DEF Fail, States

LEMMA RetryStep ==
  ASSUME NEW m \in Machine, RetryOK(m)
  PROVE  Evolves(m, Retry(m))
  BY RollEvolves DEF Retry, RetryOK, States

LEMMA ProcessAbortStep ==
  ASSUME NEW m \in Machine, m.state # NoProgram, NEW event, ProcessAbortOK(m, event)
  PROVE  Evolves(m, ProcessAbort(m, event))
  <1> DEFINE n == WithoutWriter(m, event.role)
  <1>1. m.state # "stopped" /\ "failed" \in States
    BY DEF ProcessAbortOK, States
  <1>2. /\ n \in Machine /\ n.state = m.state /\ n.revision = m.revision
        /\ n.appliedCommands = m.appliedCommands /\ RetiresWriters(m, n)
    BY WithoutWriterFacts
  <1>3. Evolves(m, UpdateProgram(n, "failed"))
    BY <1>1, <1>2, UpdateAfterRetire
  <1>4. Evolves(m, n)
    <2>1. n.revision >= m.revision
      BY <1>2 DEF Machine
    <2> QED
      BY <1>1, <1>2, <2>1 DEF Evolves
  <1> QED
    BY <1>3, <1>4 DEF ProcessAbort

LEMMA LeaseLostStep ==
  ASSUME NEW m \in Machine, m.state # NoProgram, NEW event, LeaseLostOK(m, event)
  PROVE  Evolves(m, LeaseLost(m, event))
  <1> DEFINE n == WithoutWriter(m, event.role)
  <1>1. m.state # "stopped" /\ LeaseLostTarget(m) \in States
    BY DEF LeaseLostOK, LeaseLostTarget, States, Machine
  <1>2. /\ n \in Machine /\ n.revision = m.revision
        /\ n.appliedCommands = m.appliedCommands /\ RetiresWriters(m, n)
    BY WithoutWriterFacts
  <1> QED
    BY <1>1, <1>2, UpdateAfterRetire DEF LeaseLost

LEMMA CleanupCompleteStep ==
  ASSUME NEW m \in Machine, m.state # NoProgram, CleanupCompleteOK(m)
  PROVE  Evolves(m, CleanupComplete(m))
  <1> DEFINE n == [m EXCEPT !.lease = @ + 1, !.writerLeases = {}]
  <1>1. m.lease + 1 \in Positive
    BY DEF Machine, Positive
  <1>2. /\ n \in Machine /\ n.revision = m.revision
        /\ n.appliedCommands = m.appliedCommands /\ RetiresWriters(m, n)
    BY <1>1 DEF Machine, RetiresWriters
  <1>3. "stopped" \in States
    BY DEF States
  <1>4. Evolves(m, UpdateProgram(n, "stopped"))
    BY <1>2, <1>3, UpdateAfterRetire
  <1> QED
    BY <1>4, SameEvolves DEF CleanupComplete

LEMMA VisibilityChangeStep ==
  ASSUME NEW m \in Machine, m.state # NoProgram, NEW v \in Visibilities
  PROVE  Evolves(m, VisibilityChange(m, v))
  <1>1. m.state \in States
    BY DEF Machine
  <1>2. Evolves(m, RollProgramEpoch(m, m.state))
    BY <1>1, RollEvolves
  <1> QED
    BY <1>2, VisibilityEvolves DEF VisibilityChange

-----------------------------------------------------------------------------
(* The four kinds of steps. *)

\* Before "create" there is nothing to fence and nothing recorded.
Unborn ==
  machine.state = NoProgram =>
    machine.revision = 0 /\ machine.appliedCommands = <<>> /\ machine.writerLeases = {}

CommandStep ==
  \E cmd \in Commands, n \in Machine :
     /\ Fresh(machine, cmd)
     /\ Evolves(machine, n)
     /\ machine' = RecordResult(n, cmd)
     /\ effects' \subseteq EffectTypes
     /\ issued' = issued /\ now' = now

HandoffStep ==
  \E cmd \in Commands, lease \in ProposedLeases, expected \in ExpectedLeaseEpochs :
     /\ Accepts(machine, cmd)
     /\ HandoffOK(machine, expected, lease, now)
     /\ machine' = RecordResult(Handoff(machine, lease), cmd)
     /\ effects' = {"writer-handoff"}
     /\ issued' = issued \cup {Token(lease)}
     /\ now' = now

RenewStep ==
  /\ machine.state # NoProgram
  /\ \E e \in Nat : machine' = Renew(machine, e)
  /\ issued' = issued /\ effects' = effects /\ now' = now

QuietStep ==
  /\ machine' = machine /\ issued' = issued
  /\ effects' \subseteq EffectTypes
  /\ now' \in Nat

LEMMA SourceListType == \A list \in SourceLists : list \in Seq(Sources)
  <1> SUFFICES ASSUME NEW list \in SourceLists
               PROVE  list \in Seq(Sources)
    OBVIOUS
  <1>1. CASE list = <<>>
    BY <1>1
  <1>2. CASE \E s \in Sources : list = <<s>>
    BY <1>2
  <1>3. CASE \E q \in Sources \X Sources : list = <<q[1], q[2]>>
    BY <1>3
  <1> QED
    BY <1>1, <1>2, <1>3 DEF SourceLists

LEMMA StepKinds ==
  ASSUME TypeOK, Unborn, Next
  PROVE  CommandStep \/ HandoffStep \/ RenewStep \/ QuietStep
  <1> USE DEF Accepts, Current
  <1>0. machine \in Machine /\ effects \subseteq EffectTypes /\ now \in Nat
    BY DEF TypeOK
  <1>c. ASSUME NEW cmd \in Commands, NEW n, NEW types \in SUBSET EffectTypes,
               Fresh(machine, cmd), Evolves(machine, n), Commit(cmd, n, types)
        PROVE  CommandStep
    <2>1. n \in Machine
      BY <1>c DEF Evolves
    <2> QED
      BY <1>c, <2>1 DEF Commit, CommandStep
  <1>1. ASSUME NEW cmd \in Commands, Command(cmd)
        PROVE  CommandStep \/ HandoffStep \/ QuietStep
    <2>1. CASE DoCreate(cmd)
      <3>1. machine.revision = 0
        BY <2>1 DEF DoCreate, CreateOK, Unborn
      <3>2. PICK v \in Visibilities, p \in PolicyRef : Commit(cmd, Create(machine, v, p), {})
        BY <2>1 DEF DoCreate
      <3>3. Evolves(machine, Create(machine, v, p))
        BY <1>0, <2>1, <3>1, CreateStep DEF DoCreate
      <3> QED
        BY <1>c, <2>1, <3>2, <3>3 DEF DoCreate
    <2>2. CASE DoStart(cmd)
      <3>1. Evolves(machine, Start(machine))
        BY <1>0, <2>2, StartStep DEF DoStart
      <3> QED
        BY <1>c, <2>2, <3>1 DEF DoStart, EffectTypes
    <2>3. CASE DoAdvance(cmd)
      <3>1. PICK to \in AdvanceTargets :
              /\ AdvanceOK(machine, to, now)
              /\ Commit(cmd, Advance(machine, to),
                        IF to = machine.state THEN {} ELSE {"program-state-changed"})
        BY <2>3 DEF DoAdvance
      <3>2. Evolves(machine, Advance(machine, to))
        BY <1>0, <2>3, <3>1, AdvanceStep DEF DoAdvance
      <3> QED
        BY <1>c, <2>3, <3>1, <3>2 DEF DoAdvance, EffectTypes
    <2>4. CASE DoSourceChange(cmd)
      <3> DEFINE eff(list) == IF list = machine.sourceIds THEN {}
                              ELSE {"fence-previous-writers", "cleanup-previous-program-epoch",
                                    "prepare-program"}
      <3>1. PICK list \in SourceLists : Commit(cmd, SourceChange(machine, list), eff(list))
        BY <2>4 DEF DoSourceChange
      <3>2. Evolves(machine, SourceChange(machine, list))
        BY <1>0, <2>4, SourceChangeStep, SourceListType DEF DoSourceChange
      <3>3. eff(list) \in SUBSET EffectTypes
        BY DEF EffectTypes
      <3> QED
        BY <1>c, <2>4, <3>1, <3>2, <3>3 DEF DoSourceChange
    <2>5. CASE DoOutputRestart(cmd)
      <3>1. Evolves(machine, OutputRestart(machine))
        BY <1>0, <2>5, OutputRestartStep DEF DoOutputRestart
      <3> QED
        BY <1>c, <2>5, <3>1 DEF DoOutputRestart, EffectTypes
    <2>6. CASE DoHandoff(cmd)
      BY <2>6 DEF DoHandoff, HandoffStep
    <2>7. CASE DoStop(cmd)
      <3>1. Evolves(machine, RequestStop(machine, machine.sourceIds))
        BY <1>0, <2>7, RequestStopStep DEF DoStop, Machine
      <3>2. StopEffects(machine.sourceIds) \in SUBSET EffectTypes
        BY DEF StopEffects, EffectTypes
      <3> QED
        BY <1>c, <2>7, <3>1, <3>2 DEF DoStop
    <2>8. CASE DoRevokeSource(cmd)
      <3>1. PICK source \in Sources :
              Commit(cmd, RequestStop(machine, WithoutSource(machine, source)),
                     StopEffects(WithoutSource(machine, source)))
        BY <2>8 DEF DoRevokeSource
      <3>2. Evolves(machine, RequestStop(machine, WithoutSource(machine, source)))
        BY <1>0, <2>8, RequestStopStep, WithoutSourceType DEF DoRevokeSource
      <3>3. StopEffects(WithoutSource(machine, source)) \in SUBSET EffectTypes
        BY DEF StopEffects, EffectTypes
      <3> QED
        BY <1>c, <2>8, <3>1, <3>2, <3>3 DEF DoRevokeSource
    <2>9. CASE DoFail(cmd)
      <3>1. Evolves(machine, Fail(machine))
        BY <1>0, <2>9, FailStep DEF DoFail
      <3> QED
        BY <1>c, <2>9, <3>1 DEF DoFail, EffectTypes
    <2>10. CASE DoRetry(cmd)
      <3>1. Evolves(machine, Retry(machine))
        BY <1>0, <2>10, RetryStep DEF DoRetry
      <3> QED
        BY <1>c, <2>10, <3>1 DEF DoRetry, EffectTypes
    <2>11. CASE DoProcessAbort(cmd)
      <3> DEFINE eff == {"fence-writer", "revoke-program-grants", "cleanup-program-sources"}
      <3>1. PICK event \in issued : /\ ProcessAbortOK(machine, event)
                                    /\ Commit(cmd, ProcessAbort(machine, event), eff)
        BY <2>11 DEF DoProcessAbort
      <3>2. Evolves(machine, ProcessAbort(machine, event))
        BY <1>0, <2>11, <3>1, ProcessAbortStep DEF DoProcessAbort
      <3>3. eff \in SUBSET EffectTypes
        BY DEF EffectTypes
      <3> QED
        BY <1>c, <2>11, <3>1, <3>2, <3>3 DEF DoProcessAbort
    <2>12. CASE DoLeaseLost(cmd)
      <3> DEFINE eff == {"fence-writer"} \cup
                        (IF machine.state \in {"stopping", "failed"} THEN {}
                         ELSE {"request-writer-handoff"})
      <3>1. PICK event \in issued : /\ LeaseLostOK(machine, event)
                                    /\ Commit(cmd, LeaseLost(machine, event), eff)
        BY <2>12 DEF DoLeaseLost
      <3>2. Evolves(machine, LeaseLost(machine, event))
        BY <1>0, <2>12, <3>1, LeaseLostStep DEF DoLeaseLost
      <3>3. eff \in SUBSET EffectTypes
        BY DEF EffectTypes
      <3> QED
        BY <1>c, <2>12, <3>1, <3>2, <3>3 DEF DoLeaseLost
    <2>13. CASE DoCleanupComplete(cmd)
      <3>1. Evolves(machine, CleanupComplete(machine))
        BY <1>0, <2>13, CleanupCompleteStep DEF DoCleanupComplete
      <3> QED
        BY <1>c, <2>13, <3>1 DEF DoCleanupComplete, EffectTypes
    <2>14. CASE DoVisibilityChange(cmd)
      <3> DEFINE eff == {"fence-previous-writers", "revoke-program-grants",
                         "reconfigure-delivery-visibility"}
      <3>1. PICK v \in Visibilities : Commit(cmd, VisibilityChange(machine, v), eff)
        BY <2>14 DEF DoVisibilityChange
      <3>2. Evolves(machine, VisibilityChange(machine, v))
        BY <1>0, <2>14, VisibilityChangeStep DEF DoVisibilityChange
      <3>3. eff \in SUBSET EffectTypes
        BY DEF EffectTypes
      <3> QED
        BY <1>c, <2>14, <3>1, <3>2, <3>3 DEF DoVisibilityChange
    <2>15. CASE DoDuplicate(cmd)
      BY <1>0, <2>15 DEF DoDuplicate, QuietStep
    <2> QED
      BY <1>1, <2>1, <2>2, <2>3, <2>4, <2>5, <2>6, <2>7, <2>8, <2>9, <2>10, <2>11,
         <2>12, <2>13, <2>14, <2>15 DEF Command
  <1>2. CASE DoRenew
    <2>1. PICK event \in issued, d \in 1..MaxLease :
            /\ RenewOK(machine, event.holderRef, event.fencingRevision, now)
            /\ machine' = Renew(machine, now + d)
      BY <1>2 DEF DoRenew
    <2>2. now + d \in Nat
      BY <1>0
    <2>3. machine.state # NoProgram
      BY <2>1 DEF RenewOK, Unborn, Writers
    <2> QED
      BY <1>2, <2>1, <2>2, <2>3 DEF DoRenew, RenewStep
  <1>3. CASE Tick
    BY <1>0, <1>3 DEF Tick, QuietStep
  <1> QED
    BY <1>1, <1>2, <1>3 DEF Next

-----------------------------------------------------------------------------
(* The inductive invariant.  WritersAreExclusive needs the bound on fences *)
(* (a new fence is larger than every old one) and Unborn needs nothing;    *)
(* the ledger needs that revisions grow.                                   *)

IInv ==
  /\ TypeOK
  /\ Unborn
  /\ FencesIssuedOnce
  /\ WritersAreExclusive
  /\ LedgerIsOrdered

LEMMA RecordFacts ==
  ASSUME NEW n \in Machine, NEW cmd, cmd.key \in Nat
  PROVE  LET r == RecordResult(n, cmd)
         IN /\ r \in Machine
            /\ r.state = n.state /\ r.revision = n.revision
            /\ r.lease = n.lease /\ r.broadcast = n.broadcast
            /\ r.writerLeases = n.writerLeases
            /\ r.appliedCommands =
                 Append(n.appliedCommands, [key |-> cmd.key, appliedRevision |-> n.revision])
  <1>1. [key |-> cmd.key, appliedRevision |-> n.revision] \in [key : Nat, appliedRevision : Nat]
    BY DEF Machine
  <1>2. Append(n.appliedCommands, [key |-> cmd.key, appliedRevision |-> n.revision])
          \in Seq([key : Nat, appliedRevision : Nat])
    BY <1>1 DEF Machine
  <1> QED
    BY <1>2 DEF Machine, RecordResult

LEMMA KeyType == ASSUME TypeOK, NEW cmd \in Commands PROVE cmd.key \in Nat
  <1>1. machine.appliedCommands \in Seq([key : Nat, appliedRevision : Nat])
    BY DEF TypeOK, Machine
  <1>2. Len(machine.appliedCommands) \in Nat
    BY <1>1
  <1> QED
    BY <1>2, LagAssumption DEF Commands

\* What a handoff does to the snapshot.
LEMMA HandoffFacts ==
  ASSUME NEW m \in Machine, NEW lease \in WriterLease, m.state # NoProgram,
         lease.fencingRevision = m.lease + 1
  PROVE  LET n == Handoff(m, lease)
         IN /\ n \in Machine
            /\ n.state = m.state /\ n.revision = m.revision + 1
            /\ n.lease = m.lease + 1 /\ n.broadcast = m.broadcast
            /\ n.writerLeases = (m.writerLeases \ Writers(m, lease.role)) \cup {lease}
            /\ n.appliedCommands = m.appliedCommands
  <1>1. m.revision + 1 \in Nat
    BY DEF Machine
  <1>2. (m.writerLeases \ Writers(m, lease.role)) \cup {lease} \in SUBSET WriterLease
    BY DEF Machine
  <1>3. lease.fencingRevision \in Positive
    BY DEF WriterLease
  <1> QED
    BY <1>1, <1>2, <1>3 DEF Machine, UpdateProgram, Handoff

LEMMA RenewFacts ==
  ASSUME NEW m \in Machine, NEW e \in Nat
  PROVE  LET n == Renew(m, e)
         IN /\ n \in Machine
            /\ n.state = m.state /\ n.revision = m.revision
            /\ n.lease = m.lease /\ n.broadcast = m.broadcast
            /\ n.writerLeases = {[l EXCEPT !.expiresAt = e] : l \in m.writerLeases}
            /\ n.appliedCommands = m.appliedCommands
  <1>1. {[l EXCEPT !.expiresAt = e] : l \in m.writerLeases} \in SUBSET WriterLease
    BY DEF Machine, WriterLease
  <1> QED
    BY <1>1 DEF Machine, Renew

LEMMA ProposalType ==
  ASSUME TypeOK, NEW expected, NEW lease \in ProposedLeases, HandoffOK(machine, expected, lease, now)
  PROVE  lease \in WriterLease
  <1>1. machine.lease + 1 \in Positive /\ machine.broadcast \in Positive /\ now \in Nat
    BY DEF TypeOK, Machine, Positive
  <1>2. /\ lease.fencingRevision = machine.lease + 1
        /\ lease.programEpoch = machine.broadcast
    BY DEF HandoffOK
  <1>3. lease.expiresAt \in Nat
    BY <1>1, ClockAssumption DEF ProposedLeases
  <1> QED
    BY <1>1, <1>2, <1>3 DEF ProposedLeases, WriterLease

\* Appending the record of an accepted command keeps the ledger in order.
LEMMA LedgerAppend ==
  ASSUME NEW m \in Machine, NEW cmd, NEW rev \in Nat, cmd.key \in Nat,
         Fresh(m, cmd), rev >= m.revision, Ordered(m.appliedCommands, m.revision)
  PROVE  Ordered(Append(m.appliedCommands, [key |-> cmd.key, appliedRevision |-> rev]), rev)
  <1> DEFINE led == m.appliedCommands
             rec == [key |-> cmd.key, appliedRevision |-> rev]
             r == Append(led, rec)
  <1> USE DEF Ordered
  <1>0. led \in Seq([key : Nat, appliedRevision : Nat]) /\ m.revision \in Nat
    BY DEF Machine
  <1>1. Len(led) \in Nat /\ Len(led) < MaxRecords
    BY <1>0 DEF Fresh, LedgerFree
  <1>2. /\ Len(r) = Len(led) + 1
        /\ \A i \in 1..Len(led) : r[i] = led[i]
        /\ r[Len(led) + 1] = rec
    BY <1>0
  <1>3. \A i \in 1..Len(led) : led[i].key # cmd.key
    BY DEF Fresh, KeyUsed
  <1> HIDE DEF r
  <1>4. \A i \in 1..Len(led) : led[i].appliedRevision \in Nat /\ led[i].appliedRevision <= rev
    <2> SUFFICES ASSUME NEW i \in 1..Len(led)
                 PROVE  led[i].appliedRevision \in Nat /\ led[i].appliedRevision <= rev
      OBVIOUS
    <2>1. led[i] \in [key : Nat, appliedRevision : Nat]
      BY <1>0, ElementOfSeq
    <2>2. led[i].appliedRevision <= m.revision
      OBVIOUS
    <2> QED
      BY <1>0, <2>1, <2>2
  <1>5. \A i \in 1..Len(r) : i \in 1..Len(led) \/ i = Len(led) + 1
    BY <1>1, <1>2
  <1>6. \A i \in 1..Len(r) : r[i].appliedRevision <= rev
    <2> HIDE DEF led
    <2> QED
      BY <1>2, <1>4, <1>5
  <1>7. ASSUME NEW i \in 1..Len(r), NEW j \in 1..Len(r), i < j
        PROVE  r[i].key # r[j].key /\ r[i].appliedRevision <= r[j].appliedRevision
    <2>1. i \in 1..Len(led)
      BY <1>1, <1>2, <1>7
    <2>2. CASE j \in 1..Len(led)
      <3>1. led[i].key # led[j].key /\ led[i].appliedRevision <= led[j].appliedRevision
        BY <1>7, <2>1, <2>2
      <3> QED
        BY <1>2, <2>1, <2>2, <3>1
    <2>3. CASE j = Len(led) + 1
      <3>1. r[j].key = cmd.key /\ r[j].appliedRevision = rev
        BY <1>2, <2>3
      <3>2. r[i].key # cmd.key
        BY <1>2, <1>3, <2>1
      <3> QED
        BY <1>6, <3>1, <3>2
    <2> QED
      BY <1>5, <2>2, <2>3
  <1>8. Len(r) <= MaxRecords
    BY <1>1, <1>2, MaxRecordsAssumption
  <1> QED
    BY <1>6, <1>7, <1>8 DEF r

\* A command that installs no writer preserves the invariant.
LEMMA CommandStepInv == ASSUME IInv, CommandStep PROVE IInv'
  <1>1. PICK cmd \in Commands, n \in Machine :
          /\ Fresh(machine, cmd)
          /\ Evolves(machine, n)
          /\ machine' = RecordResult(n, cmd)
          /\ effects' \subseteq EffectTypes
          /\ issued' = issued /\ now' = now
    BY DEF CommandStep
  <1>2. machine \in Machine /\ cmd.key \in Nat
    BY KeyType DEF IInv, TypeOK
  <1>3. /\ machine' \in Machine
        /\ machine'.state = n.state /\ machine'.revision = n.revision
        /\ machine'.lease = n.lease /\ machine'.broadcast = n.broadcast
        /\ machine'.writerLeases = n.writerLeases
        /\ machine'.appliedCommands =
             Append(n.appliedCommands, [key |-> cmd.key, appliedRevision |-> n.revision])
    BY <1>1, <1>2, RecordFacts
  <1>4. /\ n.lease >= machine.lease
        /\ n.writerLeases \subseteq machine.writerLeases
        /\ n.writerLeases = {} \/ n.broadcast = machine.broadcast
    BY <1>1, <1>2 DEF Evolves, KeepsWriters, RetiresWriters, Machine, Positive
  <1>5. TypeOK'
    BY <1>1, <1>3 DEF IInv, TypeOK
  <1>6. Unborn'
    BY <1>1, <1>3 DEF Unborn, Evolves
  <1>7. FencesIssuedOnce'
    <2>1. \A t \in issued : t.fencingRevision \in Nat
      BY DEF IInv, TypeOK, Tokens, Positive
    <2>2. machine.lease \in Nat /\ n.lease \in Nat
      BY <1>2 DEF Machine, Positive
    <2> QED
      BY <1>1, <1>3, <1>4, <2>1, <2>2 DEF IInv, FencesIssuedOnce
  <1>8. WritersAreExclusive'
    <2>1. \A l \in machine.writerLeases : l.fencingRevision \in Nat
      BY <1>2 DEF Machine, WriterLease, Positive
    <2>2. machine.lease \in Nat /\ n.lease \in Nat
      BY <1>2 DEF Machine, Positive
    <2> QED
      BY <1>1, <1>3, <1>4, <2>1, <2>2 DEF IInv, WritersAreExclusive
  <1>9. LedgerIsOrdered'
    <2>1. n.revision \in Nat /\ n.revision >= machine.revision
          /\ n.appliedCommands = machine.appliedCommands
      BY <1>1 DEF Evolves, Machine
    <2>2. Ordered(machine.appliedCommands, machine.revision)
      BY DEF IInv, LedgerIsOrdered
    <2> QED
      BY <1>1, <1>2, <1>3, <2>1, <2>2, LedgerAppend DEF LedgerIsOrdered
  <1> QED
    BY <1>5, <1>6, <1>7, <1>8, <1>9 DEF IInv

\* A handoff installs one writer under the next fence.
LEMMA HandoffStepInv == ASSUME IInv, HandoffStep PROVE IInv'
  <1>1. PICK cmd \in Commands, lease \in ProposedLeases, expected \in ExpectedLeaseEpochs :
          /\ Accepts(machine, cmd)
          /\ HandoffOK(machine, expected, lease, now)
          /\ machine' = RecordResult(Handoff(machine, lease), cmd)
          /\ effects' = {"writer-handoff"}
          /\ issued' = issued \cup {Token(lease)}
          /\ now' = now
    BY DEF HandoffStep
  <1> DEFINE n == Handoff(machine, lease)
  <1>2. machine \in Machine /\ cmd.key \in Nat
    BY KeyType DEF IInv, TypeOK
  <1>3. lease \in WriterLease
    BY <1>1, ProposalType DEF IInv
  <1>4. /\ machine.state # NoProgram
        /\ lease.fencingRevision = machine.lease + 1
        /\ lease.programEpoch = machine.broadcast
        /\ \A l \in machine.writerLeases : l.leaseId # lease.leaseId
    BY <1>1 DEF Accepts, Current, HandoffOK
  <1>5. /\ n \in Machine
        /\ n.state = machine.state /\ n.revision = machine.revision + 1
        /\ n.lease = machine.lease + 1 /\ n.broadcast = machine.broadcast
        /\ n.writerLeases = (machine.writerLeases \ Writers(machine, lease.role)) \cup {lease}
        /\ n.appliedCommands = machine.appliedCommands
    BY <1>2, <1>3, <1>4, HandoffFacts
  <1> HIDE DEF n
  <1>6. /\ machine' \in Machine
        /\ machine'.state = n.state /\ machine'.revision = n.revision
        /\ machine'.lease = n.lease /\ machine'.broadcast = n.broadcast
        /\ machine'.writerLeases = n.writerLeases
        /\ machine'.appliedCommands =
             Append(n.appliedCommands, [key |-> cmd.key, appliedRevision |-> n.revision])
    BY <1>1, <1>2, <1>5, RecordFacts DEF n
  <1>7. Token(lease) \in Tokens
    BY <1>3 DEF Token, Tokens, WriterLease
  <1>8. machine.lease \in Nat
    BY <1>2 DEF Machine, Positive
  <1>9. TypeOK'
    BY <1>1, <1>6, <1>7 DEF IInv, TypeOK, EffectTypes
  <1>10. Unborn'
    BY <1>4, <1>5, <1>6 DEF Unborn
  <1>11. FencesIssuedOnce'
    <2>1. \A t \in issued : t.fencingRevision \in Nat /\ t.fencingRevision <= machine.lease
      BY DEF IInv, TypeOK, Tokens, Positive, FencesIssuedOnce
    <2>2. Token(lease).fencingRevision = machine.lease + 1
      BY <1>4 DEF Token
    <2>3. \A t \in issued' : t.fencingRevision <= machine'.lease
      BY <1>1, <1>5, <1>6, <1>8, <2>1, <2>2
    <2>4. \A s, t \in issued' : s.fencingRevision = t.fencingRevision => s = t
      BY <1>1, <1>8, <2>1, <2>2 DEF IInv, FencesIssuedOnce
    <2> QED
      BY <2>3, <2>4 DEF FencesIssuedOnce
  <1>12. WritersAreExclusive'
    <2>1. \A l \in machine.writerLeases :
             l.fencingRevision \in Nat /\ l.fencingRevision <= machine.lease
      BY <1>2 DEF IInv, WritersAreExclusive, Machine, WriterLease, Positive
    <2>2. \A l \in machine'.writerLeases :
             l = lease \/ (l \in machine.writerLeases /\ l.role # lease.role)
      BY <1>5, <1>6 DEF Writers
    <2>3. \A l \in machine'.writerLeases :
             /\ l.programEpoch = machine'.broadcast
             /\ Token(l) \in issued'
      BY <1>1, <1>4, <1>5, <1>6, <2>2 DEF IInv, WritersAreExclusive
    <2>4. \A l \in machine'.writerLeases : l.fencingRevision <= machine'.lease
      BY <1>4, <1>5, <1>6, <1>8, <2>1, <2>2
    <2>5. \A k, l \in machine'.writerLeases :
             (k.role = l.role => k = l) /\ (k.leaseId = l.leaseId => k = l)
      BY <1>4, <2>2 DEF IInv, WritersAreExclusive
    <2> QED
      BY <2>3, <2>4, <2>5 DEF WritersAreExclusive
  <1>13. LedgerIsOrdered'
    <2>1. n.revision \in Nat /\ n.revision >= machine.revision
      BY <1>2, <1>5 DEF Machine
    <2>2. Ordered(machine.appliedCommands, machine.revision) /\ Fresh(machine, cmd)
      BY <1>1 DEF IInv, LedgerIsOrdered, Accepts
    <2> QED
      BY <1>2, <1>5, <1>6, <2>1, <2>2, LedgerAppend DEF LedgerIsOrdered
  <1> QED
    BY <1>9, <1>10, <1>11, <1>12, <1>13 DEF IInv

\* A renewal changes expiry times and nothing a fence depends on.
LEMMA RenewTokens ==
  ASSUME NEW m \in Machine, NEW e \in Nat
  PROVE  \A k \in Renew(m, e).writerLeases :
           \E l \in m.writerLeases : /\ k = [l EXCEPT !.expiresAt = e]
                                     /\ Token(k) = Token(l)
                                     /\ k.programEpoch = l.programEpoch
                                     /\ k.fencingRevision = l.fencingRevision
                                     /\ k.role = l.role /\ k.leaseId = l.leaseId
  <1>1. \A l \in m.writerLeases : l \in WriterLease
    BY DEF Machine
  <1>2. \A l \in WriterLease : LET k == [l EXCEPT !.expiresAt = e]
                               IN /\ Token(k) = Token(l)
                                  /\ k.programEpoch = l.programEpoch
                                  /\ k.fencingRevision = l.fencingRevision
                                  /\ k.role = l.role /\ k.leaseId = l.leaseId
    BY DEF WriterLease, Token
  <1>3. Renew(m, e).writerLeases = {[l EXCEPT !.expiresAt = e] : l \in m.writerLeases}
    BY RenewFacts
  <1>4. ASSUME NEW k \in Renew(m, e).writerLeases
        PROVE  \E l \in m.writerLeases : k = [l EXCEPT !.expiresAt = e]
    BY <1>3
  <1>5. ASSUME NEW k \in Renew(m, e).writerLeases
        PROVE  \E l \in m.writerLeases : /\ k = [l EXCEPT !.expiresAt = e]
                                         /\ Token(k) = Token(l)
                                         /\ k.programEpoch = l.programEpoch
                                         /\ k.fencingRevision = l.fencingRevision
                                         /\ k.role = l.role /\ k.leaseId = l.leaseId
    <2>1. PICK l \in m.writerLeases : k = [l EXCEPT !.expiresAt = e]
      BY <1>4
    <2>2. l \in WriterLease
      BY <1>1
    <2> QED
      BY <1>2, <2>1, <2>2
  <1> QED
    BY <1>5

LEMMA RenewStepInv == ASSUME IInv, RenewStep PROVE IInv'
  <1>1. PICK e \in Nat : machine' = Renew(machine, e)
    BY DEF RenewStep
  <1>2. machine \in Machine
    BY DEF IInv, TypeOK
  <1>3. /\ machine' \in Machine
        /\ machine'.state = machine.state /\ machine'.revision = machine.revision
        /\ machine'.lease = machine.lease /\ machine'.broadcast = machine.broadcast
        /\ machine'.appliedCommands = machine.appliedCommands
    BY <1>1, <1>2, RenewFacts
  <1>4. \A k \in machine'.writerLeases :
           \E l \in machine.writerLeases : /\ k = [l EXCEPT !.expiresAt = e]
                                           /\ Token(k) = Token(l)
                                           /\ k.programEpoch = l.programEpoch
                                           /\ k.fencingRevision = l.fencingRevision
                                           /\ k.role = l.role /\ k.leaseId = l.leaseId
    BY <1>1, <1>2, RenewTokens
  <1>5. TypeOK'
    BY <1>3 DEF IInv, TypeOK, RenewStep
  <1>6. Unborn'
    BY <1>3 DEF Unborn, RenewStep
  <1>7. FencesIssuedOnce'
    BY <1>3 DEF IInv, FencesIssuedOnce, RenewStep
  <1>8. WritersAreExclusive'
    BY <1>3, <1>4 DEF IInv, WritersAreExclusive, RenewStep
  <1>9. LedgerIsOrdered'
    BY <1>3 DEF IInv, LedgerIsOrdered
  <1> QED
    BY <1>5, <1>6, <1>7, <1>8, <1>9 DEF IInv

LEMMA QuietStepInv == ASSUME IInv, QuietStep PROVE IInv'
  <1>1. TypeOK'
    BY DEF IInv, TypeOK, QuietStep
  <1> QED
    BY <1>1 DEF IInv, QuietStep, Unborn, FencesIssuedOnce, WritersAreExclusive, LedgerIsOrdered

LEMMA InitInv == Init => IInv
  <1> SUFFICES ASSUME Init PROVE IInv
    OBVIOUS
  <1>1. PICK v \in Visibilities : machine = InitialMachine(1, 1, v)
    BY DEF Init
  <1>2. InitialMachine(1, 1, v) \in Machine
    BY DEF InitialMachine, Machine, Positive, PolicyRef
  <1>3. /\ machine.appliedCommands = <<>> /\ machine.revision = 0
        /\ machine.writerLeases = {} /\ issued = {}
    BY <1>1 DEF InitialMachine, Init
  <1>4. TypeOK
    BY <1>1, <1>2 DEF TypeOK, Init
  <1>5. LedgerIsOrdered
    BY <1>3, MaxRecordsAssumption DEF LedgerIsOrdered, Ordered
  <1> QED
    BY <1>3, <1>4, <1>5 DEF IInv, Unborn, FencesIssuedOnce, WritersAreExclusive

LEMMA NextInv == IInv /\ [Next]_vars => IInv'
  <1> SUFFICES ASSUME IInv, [Next]_vars PROVE IInv'
    OBVIOUS
  <1>1. CASE Next
    BY <1>1, StepKinds, CommandStepInv, HandoffStepInv, RenewStepInv, QuietStepInv DEF IInv
  <1>2. CASE UNCHANGED vars
    BY <1>2 DEF vars, IInv, TypeOK, Unborn, FencesIssuedOnce, WritersAreExclusive, LedgerIsOrdered
  <1> QED
    BY <1>1, <1>2

-----------------------------------------------------------------------------
\* The inductive invariant holds in every reachable state.
THEOREM InvariantHolds == Spec => []IInv
  BY InitInv, NextInv, PTL DEF Spec

\* Type correctness of the program machine.
THEOREM TypeCorrect == Spec => []TypeOK
  <1>1. IInv => TypeOK
    BY DEF IInv
  <1> QED
    BY <1>1, InvariantHolds, PTL

\* At most one writer per role and lease id, each of the current generation.
THEOREM ExclusiveWriters == Spec => []WritersAreExclusive
  <1>1. IInv => WritersAreExclusive
    BY DEF IInv
  <1> QED
    BY <1>1, InvariantHolds, PTL

\* No fencing revision is ever issued twice.
THEOREM UniqueFences == Spec => []FencesIssuedOnce
  <1>1. IInv => FencesIssuedOnce
    BY DEF IInv
  <1> QED
    BY <1>1, InvariantHolds, PTL

\* The idempotency ledger stays free of repeated keys, ordered and bounded.
THEOREM OrderedLedger == Spec => []LedgerIsOrdered
  <1>1. IInv => LedgerIsOrdered
    BY DEF IInv
  <1> QED
    BY <1>1, InvariantHolds, PTL

-----------------------------------------------------------------------------
(* Tokens: who may hold a writer lease after a step. *)

LEMMA CommandTokens ==
  ASSUME IInv, CommandStep
  PROVE  /\ machine' \in Machine
         /\ machine.state = "stopped" => machine'.state = "stopped"
         /\ issued' = issued
         /\ \/ /\ machine'.lease = machine.lease
               /\ HeldTokens(machine') = HeldTokens(machine)
            \/ /\ machine'.lease = machine.lease + 1
               /\ HeldTokens(machine') \subseteq HeldTokens(machine)
  <1>1. PICK cmd \in Commands, n \in Machine :
          /\ Evolves(machine, n)
          /\ machine' = RecordResult(n, cmd)
          /\ issued' = issued
    BY DEF CommandStep
  <1>2. cmd.key \in Nat
    BY KeyType DEF IInv
  <1>3. /\ machine' \in Machine /\ machine'.state = n.state
        /\ machine'.lease = n.lease /\ machine'.writerLeases = n.writerLeases
    BY <1>1, <1>2, RecordFacts
  <1>4. CASE KeepsWriters(machine, n)
    BY <1>1, <1>3, <1>4 DEF KeepsWriters, HeldTokens, Evolves
  <1>5. CASE RetiresWriters(machine, n)
    BY <1>1, <1>3, <1>5 DEF RetiresWriters, HeldTokens, Evolves
  <1> QED
    BY <1>1, <1>4, <1>5 DEF Evolves

LEMMA HandoffTokens ==
  ASSUME IInv, HandoffStep
  PROVE  /\ machine' \in Machine
         /\ machine.state # "stopped" /\ machine'.state = machine.state
         /\ machine'.lease = machine.lease + 1
         /\ \E r \in Roles, i \in LeaseIds, p \in Holders :
              HeldTokens(machine') =
                {v \in HeldTokens(machine) : v.role # r} \cup
                {[role |-> r, leaseId |-> i, holderRef |-> p,
                  fencingRevision |-> machine.lease + 1]}
  <1>1. PICK cmd \in Commands, lease \in ProposedLeases, expected \in ExpectedLeaseEpochs :
          /\ Accepts(machine, cmd)
          /\ HandoffOK(machine, expected, lease, now)
          /\ machine' = RecordResult(Handoff(machine, lease), cmd)
    BY DEF HandoffStep
  <1>2. machine \in Machine /\ cmd.key \in Nat /\ lease \in WriterLease
    BY <1>1, KeyType, ProposalType DEF IInv, TypeOK
  <1>3. /\ machine.state # NoProgram
        /\ machine.state # "stopped"
        /\ lease.fencingRevision = machine.lease + 1
    BY <1>1 DEF Accepts, Current, HandoffOK, NotRunning
  <1> DEFINE n == Handoff(machine, lease)
  <1>4. /\ n \in Machine /\ n.state = machine.state /\ n.lease = machine.lease + 1
        /\ n.writerLeases = (machine.writerLeases \ Writers(machine, lease.role)) \cup {lease}
    BY <1>2, <1>3, HandoffFacts
  <1> HIDE DEF n
  <1>5. /\ machine' \in Machine /\ machine'.state = n.state /\ machine'.lease = n.lease
        /\ machine'.writerLeases = n.writerLeases
    BY <1>1, <1>2, <1>4, RecordFacts DEF n
  <1>6. /\ lease.role \in Roles /\ lease.leaseId \in LeaseIds /\ lease.holderRef \in Holders
    BY <1>2 DEF WriterLease
  <1>7. Token(lease) = [role |-> lease.role, leaseId |-> lease.leaseId,
                        holderRef |-> lease.holderRef, fencingRevision |-> machine.lease + 1]
    BY <1>3 DEF Token
  <1>8. HeldTokens(machine') =
          {v \in HeldTokens(machine) : v.role # lease.role} \cup {Token(lease)}
    <2>1. \A l : Token(l).role = l.role
      BY DEF Token
    <2>2. machine'.writerLeases = {l \in machine.writerLeases : l.role # lease.role} \cup {lease}
      BY <1>4, <1>5 DEF Writers
    <2> QED
      BY <2>1, <2>2 DEF HeldTokens
  <1> QED
    BY <1>3, <1>4, <1>5, <1>6, <1>7, <1>8

LEMMA RenewHeld ==
  ASSUME IInv, RenewStep
  PROVE  /\ machine'.state = machine.state /\ machine'.lease = machine.lease
         /\ HeldTokens(machine') = HeldTokens(machine)
  <1>1. PICK e \in Nat : machine' = Renew(machine, e)
    BY DEF RenewStep
  <1>2. machine \in Machine
    BY DEF IInv, TypeOK
  <1>3. /\ machine'.state = machine.state /\ machine'.lease = machine.lease
        /\ machine'.writerLeases = {[l EXCEPT !.expiresAt = e] : l \in machine.writerLeases}
    BY <1>1, <1>2, RenewFacts
  <1>4. \A l \in machine.writerLeases : Token([l EXCEPT !.expiresAt = e]) = Token(l)
    BY <1>2 DEF Machine, WriterLease, Token
  <1>5. ASSUME NEW t \in HeldTokens(machine') PROVE t \in HeldTokens(machine)
    <2>1. PICK k \in machine'.writerLeases : t = Token(k)
      BY <1>5 DEF HeldTokens
    <2>2. PICK l \in machine.writerLeases : k = [l EXCEPT !.expiresAt = e]
      BY <1>3, <2>1
    <2> QED
      BY <1>4, <2>1, <2>2 DEF HeldTokens
  <1>6. ASSUME NEW t \in HeldTokens(machine) PROVE t \in HeldTokens(machine')
    <2>1. PICK l \in machine.writerLeases : t = Token(l)
      BY <1>6 DEF HeldTokens
    <2>2. [l EXCEPT !.expiresAt = e] \in machine'.writerLeases
      BY <1>3, <2>1
    <2>3. t = Token([l EXCEPT !.expiresAt = e])
      BY <1>4, <2>1
    <2> QED
      BY <2>2, <2>3 DEF HeldTokens
  <1> QED
    BY <1>3, <1>5, <1>6

\* Only a holder of a current lease may write, and never in a stopped program.
LEMMA MayWriteHeld ==
  ASSUME NEW m, NEW t, NEW time, MayWrite(m, t, time)
  PROVE  t \in HeldTokens(m) /\ m.state # "stopped"
  BY DEF MayWrite, AuthorizedWriter, Writers, HeldTokens

\* A token that is not held is never held again.
LEMMA NeverReinstated ==
  ASSUME IInv, Next, NEW t \in issued, t \notin HeldTokens(machine)
  PROVE  t \notin HeldTokens(machine')
  <1>1. TypeOK /\ Unborn
    BY DEF IInv
  <1>2. CASE CommandStep
    BY <1>2, CommandTokens
  <1>3. CASE HandoffStep
    <2>1. PICK r \in Roles, i \in LeaseIds, p \in Holders :
              HeldTokens(machine') =
                {v \in HeldTokens(machine) : v.role # r} \cup
                {[role |-> r, leaseId |-> i, holderRef |-> p,
                  fencingRevision |-> machine.lease + 1]}
      BY <1>3, HandoffTokens
    <2>2. t.fencingRevision <= machine.lease
      BY DEF IInv, FencesIssuedOnce
    <2>3. t.fencingRevision \in Nat /\ machine.lease \in Nat
      BY <1>1 DEF TypeOK, Tokens, Machine, Positive
    <2>4. t.fencingRevision # machine.lease + 1
      BY <2>2, <2>3
    <2> QED
      BY <2>1, <2>4
  <1>4. CASE RenewStep
    BY <1>4, RenewHeld
  <1>5. CASE QuietStep
    BY <1>5 DEF QuietStep
  <1> QED
    BY <1>1, <1>2, <1>3, <1>4, <1>5, StepKinds

\* A writer that lost its lease is never authorised again.
THEOREM FencedForGood == Spec => SupersededWriterStaysFenced
  <1> DEFINE A == \A t \in issued :
                     t \notin HeldTokens(machine) => ~MayWrite(machine', t, now')
  <1>1. IInv /\ [Next]_vars => [A]_vars
    <2> SUFFICES ASSUME IInv, Next PROVE A
      BY DEF vars
    <2> QED
      BY NeverReinstated, MayWriteHeld
  <1> QED
    BY <1>1, InvariantHolds, PTL DEF Spec, SupersededWriterStaysFenced

\* A stopped program stays stopped and without new or acting writers.
THEOREM StoppedForGood == Spec => StoppedIsFinal
  <1> DEFINE A == machine.state = "stopped" =>
                    /\ machine'.state = "stopped"
                    /\ HeldTokens(machine') \subseteq HeldTokens(machine)
                    /\ \A t \in issued : ~MayWrite(machine', t, now')
  <1>1. IInv /\ [Next]_vars => [A]_vars
    <2> SUFFICES ASSUME IInv, Next, machine.state = "stopped"
                 PROVE  /\ machine'.state = "stopped"
                        /\ HeldTokens(machine') \subseteq HeldTokens(machine)
      BY MayWriteHeld DEF vars
    <2>1. CASE CommandStep
      BY <2>1, CommandTokens
    <2>2. CASE HandoffStep
      BY <2>2, HandoffTokens
    <2>3. CASE RenewStep
      BY <2>3, RenewHeld
    <2>4. CASE QuietStep
      BY <2>4 DEF QuietStep
    <2> QED
      BY <2>1, <2>2, <2>3, <2>4, StepKinds DEF IInv
  <1> QED
    BY <1>1, InvariantHolds, PTL DEF Spec, StoppedIsFinal

\* The program machine implements the fencing contract.
THEOREM FencingImplemented == Spec => ImplementsFencing
  <1>1. Init => Fencing!AbsInit
    <2> SUFFICES ASSUME Init PROVE Fencing!AbsInit
      OBVIOUS
    <2>1. PICK v \in Visibilities : machine = InitialMachine(1, 1, v)
      BY DEF Init
    <2>2. machine.lease = 1 /\ machine.writerLeases = {} /\ machine.state = NoProgram
      BY <2>1 DEF InitialMachine
    <2>3. HeldTokens(machine) = {}
      BY <2>2 DEF HeldTokens
    <2>4. (machine.state = "stopped") = FALSE
      BY <2>2 DEF NoProgram
    <2> QED
      BY <2>2, <2>3, <2>4 DEF Fencing!AbsInit
  <1>2. IInv /\ [Next]_vars => [Fencing!AbsNext]_(Fencing!absvars)
    <2> SUFFICES ASSUME IInv, [Next]_vars
                 PROVE  Fencing!AbsNext \/ UNCHANGED Fencing!absvars
      OBVIOUS
    <2>1. CASE CommandStep
      <3>1. CASE /\ machine'.lease = machine.lease
                 /\ HeldTokens(machine') = HeldTokens(machine)
        <4>1. CASE (machine.state = "stopped") <=> (machine'.state = "stopped")
          BY <3>1, <4>1 DEF Fencing!absvars
        <4>2. CASE machine.state # "stopped" /\ machine'.state = "stopped"
          BY <3>1, <4>2 DEF Fencing!AbsNext, Fencing!Close
        <4> QED
          BY <2>1, <4>1, <4>2, CommandTokens
      <3>2. CASE /\ machine'.lease = machine.lease + 1
                 /\ HeldTokens(machine') \subseteq HeldTokens(machine)
        BY <2>1, <3>2, CommandTokens DEF Fencing!AbsNext, Fencing!Retire
      <3> QED
        BY <2>1, <3>1, <3>2, CommandTokens
    <2>2. CASE HandoffStep
      BY <2>2, HandoffTokens DEF Fencing!AbsNext, Fencing!Grant
    <2>3. CASE RenewStep
      BY <2>3, RenewHeld DEF Fencing!absvars
    <2>4. CASE QuietStep
      BY <2>4 DEF QuietStep, Fencing!absvars
    <2>5. CASE UNCHANGED vars
      BY <2>5 DEF vars, Fencing!absvars
    <2> QED
      BY <2>1, <2>2, <2>3, <2>4, <2>5, StepKinds DEF IInv
  <1> QED
    BY <1>1, <1>2, InvariantHolds, PTL DEF Spec, ImplementsFencing, Fencing!AbsSpec

=============================================================================
