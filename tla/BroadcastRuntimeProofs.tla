----------------------- MODULE BroadcastRuntimeProofs -----------------------
(***************************************************************************)
(* Proofs about the broadcast runtime, for any number of programs, peers   *)
(* and requests, every ledger bound and every deadline.                    *)
(*                                                                         *)
(* The invariant speaks of one record and of one request at a time         *)
(* (GoodRecord, GoodRequest).  An operation replaces records; what a       *)
(* replacement must respect for the requests that survive it is Succeeds,  *)
(* and RequestSurvives shows once that respecting it is enough.            *)
(***************************************************************************)
EXTENDS BroadcastRuntime, FiniteSetTheorems, SequenceTheorems, TLAPS

-----------------------------------------------------------------------------
(***************************************************************************)
(* The commands the runtime sends: what they do to the machine             *)
(***************************************************************************)
Commands == [key : Nat, appliedRevision : Nat]

\* m and n differ in their ledger, revision, lease and visibility at most.
SameProgram(m, n) ==
  /\ n.state = m.state
  /\ n.broadcast = m.broadcast
  /\ n.sourceIds = m.sourceIds

Applied(m) == Len(m.appliedCommands)

\* One command adds one entry to the ledger and changes nothing else.
LEMMA StepFacts ==
  ASSUME NEW m \in Machine, NEW n \in Machine, n.appliedCommands = m.appliedCommands
  PROVE  /\ Step(m, n) \in Machine
         /\ SameProgram(n, Step(m, n))
         /\ Step(m, n).writerLeases = n.writerLeases
         /\ Step(m, n).lease = n.lease
         /\ Applied(Step(m, n)) = Applied(m) + 1
  <1> DEFINE e == [key |-> Len(m.appliedCommands) + 1, appliedRevision |-> n.revision]
  <1>1. m.appliedCommands \in Seq(Commands) /\ n.revision \in Nat
        /\ Len(m.appliedCommands) + 1 \in Nat
    BY DEF Machine, Commands
  <1>2. e \in Commands
    BY <1>1 DEF Commands
  <1>3. Step(m, n) = [n EXCEPT !.appliedCommands = Append(n.appliedCommands, e)]
    BY DEF Step, RecordResult, Machine
  <1> HIDE DEF e
  <1>4. Append(n.appliedCommands, e) \in Seq(Commands)
        /\ Len(Append(n.appliedCommands, e)) = Len(m.appliedCommands) + 1
    BY <1>1, <1>2
  <1> QED
    BY <1>3, <1>4 DEF Machine, Commands, SameProgram, Applied

LEMMA AppliedType == ASSUME NEW m \in Machine PROVE Applied(m) \in Nat
  BY DEF Machine, Applied

LEMMA UpdateFacts ==
  ASSUME NEW m \in Machine, NEW to \in States
  PROVE  /\ UpdateProgram(m, to) \in Machine
         /\ UpdateProgram(m, to).state = to
         /\ UpdateProgram(m, to).broadcast = m.broadcast
         /\ UpdateProgram(m, to).sourceIds = m.sourceIds
         /\ UpdateProgram(m, to).lease = m.lease
         /\ UpdateProgram(m, to).writerLeases = m.writerLeases
         /\ UpdateProgram(m, to).appliedCommands = m.appliedCommands
  <1>1. m.revision + 1 \in Nat
    BY DEF Machine
  <1> QED
    BY <1>1 DEF Machine, UpdateProgram

LEMMA RollFacts ==
  ASSUME NEW m \in Machine, NEW to \in States
  PROVE  /\ RollProgramEpoch(m, to) \in Machine
         /\ RollProgramEpoch(m, to).state = to
         /\ RollProgramEpoch(m, to).broadcast = m.broadcast + 1
         /\ RollProgramEpoch(m, to).sourceIds = m.sourceIds
         /\ RollProgramEpoch(m, to).writerLeases = {}
         /\ RollProgramEpoch(m, to).appliedCommands = m.appliedCommands
  <1>1. m.revision + 1 \in Nat /\ m.broadcast + 1 \in Positive /\ m.lease + 1 \in Positive
    BY DEF Machine, Positive
  <1> QED
    BY <1>1 DEF Machine, RollProgramEpoch

\* create makes a draft without sources.
LEMMA CreatedFacts ==
  ASSUME NEW v \in Visibilities
  PROVE  /\ Created(v) \in Machine
         /\ Created(v).state = "draft"
         /\ Created(v).sourceIds = <<>> /\ Created(v).writerLeases = {}
  <1> DEFINE m == InitialMachine(1, 1, v)
             n == Create(m, v, "policy")
  <1>1. <<>> \in Seq(Sources) /\ <<>> \in Seq(Commands)
    OBVIOUS
  <1>2. m \in Machine
    BY <1>1 DEF InitialMachine, Machine, Positive, Commands, PolicyRef
  <1>3. n \in Machine /\ n.appliedCommands = m.appliedCommands /\ n.state = "draft"
        /\ n.sourceIds = <<>> /\ n.writerLeases = {}
    BY <1>2 DEF Create, Machine, States, PolicyRef, InitialMachine
  <1>4. Created(v) = Step(m, n)
    BY DEF Created
  <1> HIDE DEF m, n
  <1> QED
    BY <1>2, <1>3, <1>4, StepFacts DEF SameProgram

\* A source change and a start leave a draft preparing, in the next
\* generation when the sources changed.
LEMMA StartedFacts ==
  ASSUME NEW m \in Machine, m.state = "draft", NEW sources \in Seq(Sources)
  PROVE  /\ Started(m, sources) \in Machine
         /\ Started(m, sources).state = "preparing"
         /\ Started(m, sources).broadcast = IF sources = m.sourceIds THEN m.broadcast
                                            ELSE m.broadcast + 1
  <1> DEFINE n == SourceChange(m, sources)
             c == Step(m, n)
  <1>1. "draft" \in States /\ "preparing" \in States
    BY DEF States
  <1>2. /\ n \in Machine /\ n.appliedCommands = m.appliedCommands /\ n.state = "draft"
        /\ n.broadcast = IF sources = m.sourceIds THEN m.broadcast ELSE m.broadcast + 1
    <2>1. CASE sources = m.sourceIds
      BY <2>1 DEF SourceChange
    <2>2. CASE sources # m.sourceIds
      <3> DEFINE k == RollProgramEpoch(m, "draft")
      <3>1. k \in Machine /\ k.state = "draft" /\ k.broadcast = m.broadcast + 1
            /\ k.appliedCommands = m.appliedCommands
        BY <1>1, RollFacts
      <3>2. n = [k EXCEPT !.sourceIds = sources]
        BY <2>2 DEF SourceChange
      <3> HIDE DEF k, n
      <3> QED
        BY <2>2, <3>1, <3>2 DEF Machine
    <2> QED
      BY <2>1, <2>2
  <1> HIDE DEF n
  <1>3. c \in Machine /\ c.broadcast = n.broadcast
    BY <1>2, StepFacts DEF SameProgram
  <1>4. Started(m, sources) = Step(c, UpdateProgram(c, "preparing"))
    BY DEF Started, Start, n
  <1> HIDE DEF c
  <1>5. UpdateProgram(c, "preparing") \in Machine
        /\ UpdateProgram(c, "preparing").state = "preparing"
        /\ UpdateProgram(c, "preparing").broadcast = c.broadcast
        /\ UpdateProgram(c, "preparing").appliedCommands = c.appliedCommands
    BY <1>1, <1>3, UpdateFacts
  <1> QED
    BY <1>2, <1>3, <1>4, <1>5, StepFacts DEF SameProgram

\* A handoff installs a writer and changes nothing else of the program.
LEMMA WithWriterFacts ==
  ASSUME NEW m \in Machine, m.state \in States, NEW role \in Roles, NEW holder \in Holders,
         NEW until \in Nat
  PROVE  /\ WithWriter(m, role, holder, until) \in Machine
         /\ SameProgram(m, WithWriter(m, role, holder, until))
  <1> DEFINE l == [role |-> role, leaseId |-> m.lease + 1, holderRef |-> holder,
                   fencingRevision |-> m.lease + 1, programEpoch |-> m.broadcast,
                   expiresAt |-> until]
             k == [m EXCEPT !.lease = l.fencingRevision,
                            !.writerLeases = (@ \ Writers(m, l.role)) \cup {l}]
  <1>1. m.lease + 1 \in Positive /\ m.lease + 1 \in LeaseIds /\ m.broadcast \in Positive
    BY RuntimeConstants DEF Machine, Positive
  <1>2. l \in WriterLease /\ l.fencingRevision = m.lease + 1
    BY <1>1 DEF WriterLease
  <1>3. k = [m EXCEPT !.lease = l.fencingRevision,
                      !.writerLeases = (m.writerLeases \ Writers(m, l.role)) \cup {l}]
    BY DEF Machine
  <1>w. WithWriter(m, role, holder, until) = Step(m, UpdateProgram(k, m.state))
    BY DEF WithWriter, Handoff
  <1> HIDE DEF l
  <1>4. k \in Machine /\ SameProgram(m, k) /\ k.appliedCommands = m.appliedCommands
    <2>1. (m.writerLeases \ Writers(m, l.role)) \cup {l} \in SUBSET WriterLease
      BY <1>2 DEF Machine
    <2> QED
      BY <1>1, <1>2, <1>3, <2>1 DEF Machine, SameProgram
  <1> HIDE DEF k
  <1>5. /\ UpdateProgram(k, m.state) \in Machine
        /\ SameProgram(m, UpdateProgram(k, m.state))
        /\ UpdateProgram(k, m.state).appliedCommands = m.appliedCommands
    BY <1>4, UpdateFacts DEF SameProgram
  <1> QED
    BY <1>w, <1>5, StepFacts DEF SameProgram

\* advance changes the state only.
LEMMA AdvancedFacts ==
  ASSUME NEW m \in Machine, NEW to \in States
  PROVE  /\ Advanced(m, to) \in Machine
         /\ Advanced(m, to).state = to
         /\ Advanced(m, to).broadcast = m.broadcast
  <1>1. /\ Advance(m, to) \in Machine /\ Advance(m, to).state = to
        /\ Advance(m, to).broadcast = m.broadcast
        /\ Advance(m, to).appliedCommands = m.appliedCommands
    BY UpdateFacts DEF Advance
  <1> QED
    BY <1>1, StepFacts DEF Advanced, SameProgram

LEMMA OnTheAirFacts ==
  ASSUME NEW m \in Machine
  PROVE  /\ OnTheAir(m) \in Machine
         /\ OnTheAir(m).state = "live"
         /\ OnTheAir(m).broadcast = m.broadcast
  <1>1. "publishing" \in States /\ "live" \in States
    BY DEF States
  <1> QED
    BY <1>1, AdvancedFacts DEF OnTheAir

LEMMA WhipLiveFacts ==
  ASSUME NEW m \in Machine, NEW until \in Nat
  PROVE  /\ WhipLive(m, until) \in Machine
         /\ WhipLive(m, until).state = "live"
         /\ WhipLive(m, until).broadcast = m.broadcast
  <1> DEFINE a == Advanced(m, "awaiting_consent")
             b == WithWriter(a, "packager-writer", Ingest, until)
             c == WithWriter(b, "gateway-writer", Ingest, until)
  <1>1. "awaiting_consent" \in States /\ "packager-writer" \in Roles
        /\ "gateway-writer" \in Roles /\ Ingest \in Holders
    BY RuntimeConstants DEF States, Roles
  <1>2. a \in Machine /\ a.state \in States /\ a.broadcast = m.broadcast
    BY <1>1, AdvancedFacts
  <1> HIDE DEF a
  <1>3. b \in Machine /\ b.state \in States /\ b.broadcast = m.broadcast
    BY <1>1, <1>2, WithWriterFacts DEF SameProgram
  <1>w. WhipLive(m, until) = OnTheAir(c)
    BY DEF WhipLive, a
  <1> HIDE DEF b
  <1>4. c \in Machine /\ c.broadcast = m.broadcast
    BY <1>1, <1>3, WithWriterFacts DEF SameProgram
  <1> HIDE DEF c
  <1> QED
    BY <1>w, <1>4, OnTheAirFacts

LEMMA NativeLiveFacts ==
  ASSUME NEW m \in Machine, NEW until \in Nat
  PROVE  /\ NativeLive(m, until) \in Machine
         /\ NativeLive(m, until).state = "live"
         /\ NativeLive(m, until).broadcast = m.broadcast
  <1> DEFINE a == Advanced(m, "awaiting_consent")
             c == WithWriter(a, "gateway-writer", Ingest, until)
  <1>1. "awaiting_consent" \in States /\ "gateway-writer" \in Roles /\ Ingest \in Holders
    BY RuntimeConstants DEF States, Roles
  <1>2. a \in Machine /\ a.state \in States /\ a.broadcast = m.broadcast
    BY <1>1, AdvancedFacts
  <1>w. NativeLive(m, until) = OnTheAir(c)
    BY DEF NativeLive
  <1> HIDE DEF a
  <1>4. c \in Machine /\ c.broadcast = m.broadcast
    BY <1>1, <1>2, WithWriterFacts DEF SameProgram
  <1> HIDE DEF c
  <1> QED
    BY <1>w, <1>4, OnTheAirFacts

\* A restart for a handoff fences every writer in a new generation.
LEMMA RestartFacts ==
  ASSUME NEW m \in Machine
  PROVE  LET n == Step(m, OutputRestart(m))
         IN /\ n \in Machine /\ n.state = "preparing" /\ n.broadcast = m.broadcast + 1
            /\ n.writerLeases = {} /\ Applied(n) = Applied(m) + 1
  <1>1. "preparing" \in States
    BY DEF States
  <1>2. /\ OutputRestart(m) \in Machine /\ OutputRestart(m).state = "preparing"
        /\ OutputRestart(m).broadcast = m.broadcast + 1
        /\ OutputRestart(m).writerLeases = {}
        /\ OutputRestart(m).appliedCommands = m.appliedCommands
    BY <1>1, RollFacts DEF OutputRestart
  <1> QED
    BY <1>2, StepFacts DEF SameProgram

\* Stopping ends in "stopped", from every state, in the same generation.
LEMMA StoppedFacts ==
  ASSUME NEW m \in Machine, m.state \in States
  PROVE  /\ StoppedMachine(m) \in Machine
         /\ StoppedMachine(m).state = "stopped"
         /\ StoppedMachine(m).broadcast = m.broadcast
  <1> DEFINE n == RequestStop(m, m.sourceIds)
             s == IF m.state = "stopped" THEN m ELSE Step(m, n)
  <1>1. StopTarget(m) \in States /\ "stopped" \in States
    BY DEF StopTarget, States
  <1>2. n \in Machine /\ n.broadcast = m.broadcast /\ n.appliedCommands = m.appliedCommands
    <2>1. CASE RequestStopChanges(m, m.sourceIds)
      <3> DEFINE k == UpdateProgram(m, StopTarget(m))
      <3>1. k \in Machine /\ k.broadcast = m.broadcast /\ k.appliedCommands = m.appliedCommands
        BY <1>1, UpdateFacts
      <3>2. n = [k EXCEPT !.sourceIds = m.sourceIds]
        BY <2>1 DEF RequestStop
      <3> HIDE DEF k, n
      <3> QED
        BY <3>1, <3>2 DEF Machine
    <2>2. CASE ~RequestStopChanges(m, m.sourceIds)
      BY <2>2 DEF RequestStop
    <2> QED
      BY <2>1, <2>2
  <1>w. StoppedMachine(m) = IF s.state = "stopped" THEN s ELSE Step(s, CleanupComplete(s))
    BY DEF StoppedMachine
  <1> HIDE DEF n
  <1>3. s \in Machine /\ s.broadcast = m.broadcast
    BY <1>2, StepFacts DEF SameProgram
  <1> HIDE DEF s
  <1>4. CASE s.state = "stopped"
    BY <1>w, <1>3, <1>4
  <1>5. CASE s.state # "stopped"
    <2> DEFINE k == [s EXCEPT !.lease = s.lease + 1, !.writerLeases = {}]
    <2>1. s.lease + 1 \in Positive
      BY <1>3 DEF Machine, Positive
    <2>2. k \in Machine /\ k.broadcast = s.broadcast /\ k.appliedCommands = s.appliedCommands
      BY <1>3, <2>1 DEF Machine
    <2>3. CleanupComplete(s) = UpdateProgram(k, "stopped")
      BY <1>3, <1>5 DEF CleanupComplete, Machine
    <2> HIDE DEF k
    <2>4. /\ CleanupComplete(s) \in Machine /\ CleanupComplete(s).state = "stopped"
          /\ CleanupComplete(s).broadcast = s.broadcast
          /\ CleanupComplete(s).appliedCommands = s.appliedCommands
      <3>1. /\ UpdateProgram(k, "stopped") \in Machine
            /\ UpdateProgram(k, "stopped").state = "stopped"
            /\ UpdateProgram(k, "stopped").broadcast = k.broadcast
            /\ UpdateProgram(k, "stopped").appliedCommands = k.appliedCommands
        BY <1>1, <2>2, UpdateFacts
      <3> QED
        BY <2>2, <2>3, <3>1
    <2> QED
      BY <1>w, <1>3, <1>5, <2>4, StepFacts DEF SameProgram
  <1> QED
    BY <1>4, <1>5

\* Renewing touches the leases only.
LEMMA RenewedFacts ==
  ASSUME NEW m \in Machine, NEW until \in Nat
  PROVE  /\ Renew(m, until) \in Machine
         /\ SameProgram(m, Renew(m, until))
         /\ Renew(m, until).appliedCommands = m.appliedCommands
  <1> DEFINE ls == {[l EXCEPT !.expiresAt = until] : l \in m.writerLeases}
  <1>1. ls \in SUBSET WriterLease
    BY DEF Machine, WriterLease
  <1>2. Renew(m, until) = [m EXCEPT !.writerLeases = ls]
    BY DEF Renew, Machine
  <1> HIDE DEF ls
  <1> QED
    BY <1>1, <1>2 DEF Machine, SameProgram

\* A change of visibility starts a new generation in the same state.
LEMMA VisibilityFacts ==
  ASSUME NEW m \in Machine, m.state \in States, NEW v \in Visibilities
  PROVE  /\ VisibilityChanged(m, v) \in Machine
         /\ VisibilityChanged(m, v).state = m.state
         /\ VisibilityChanged(m, v).sourceIds = m.sourceIds
         /\ VisibilityChanged(m, v).writerLeases = {}
  <1> DEFINE k == RollProgramEpoch(m, m.state)
             n == [k EXCEPT !.visibility = v]
  <1>1. k \in Machine /\ k.state = m.state /\ k.sourceIds = m.sourceIds
        /\ k.appliedCommands = m.appliedCommands /\ k.writerLeases = {}
    BY RollFacts
  <1> HIDE DEF k
  <1>2. n \in Machine /\ n.state = m.state /\ n.sourceIds = m.sourceIds
        /\ n.appliedCommands = m.appliedCommands /\ n.writerLeases = {}
    BY <1>1 DEF Machine
  <1>3. VisibilityChanged(m, v) = Step(m, n)
    BY DEF VisibilityChanged, VisibilityChange, k
  <1> HIDE DEF n
  <1> QED
    BY <1>2, <1>3, StepFacts DEF SameProgram

-----------------------------------------------------------------------------
(***************************************************************************)
(* The invariant                                                           *)
(***************************************************************************)

\* A record is good in a room where the peers of here are present: it can be
\* stopped, its publisher is there, a pending handoff is fenced and can be
\* finished, and a draft has neither sources nor writers yet.
GoodRecord(r, here) ==
  /\ r.machine.state \in States
  /\ Active(r) => /\ r.lifetime > 0
                  /\ Room(r.machine, CleanupReserve)
                  /\ r.publisher \in here
  /\ r.handoff # None => /\ r.machine.state = "preparing"
                         /\ r.machine.writerLeases = {}
                         /\ r.machine.broadcast = r.handoff.epoch
                         /\ Room(r.machine, 5 + CleanupReserve)
  /\ r.standby # 0 => /\ r.standby = r.machine.broadcast
                      /\ r.machine.state \in {"live", "degraded"}
  /\ r.machine.state = "draft" => r.machine.sourceIds = <<>> /\ r.machine.writerLeases = {}

\* What a request that is bound to the current record may rely on.
BoundFits(rq, m) ==
  /\ rq.kind = "whip:create" => m.state = "draft" /\ rq.epoch = m.broadcast + 1
  /\ rq.kind = "whip:update" => m.state \notin Inactive /\ rq.epoch = m.broadcast
  /\ rq.kind = "playback" => m.state \in {"live", "degraded"} /\ rq.epoch = m.broadcast

\* What a token in a client's hands is good for.
TokenFits(rq, m) ==
  /\ m.state \notin Inactive
  /\ rq.epoch = m.broadcast
  /\ rq.kind = "playback" => m.state \in {"live", "degraded"}

\* A request is good for the record of its program.
GoodRequest(rq, r, here) ==
  /\ r # None
  /\ rq.phase \in InFlight /\ rq.bound = "current" => BoundFits(rq, r.machine)
  /\ rq.phase \in {"delivered", "verifying"} => TokenFits(rq, r.machine)
  /\ rq.kind # "playback" /\ rq.phase \in InFlight /\ rq.signal = "open" => rq.peer \in here
  /\ rq.resource <= r.resource
  /\ rq.phase = "deciding" => rq.kind = "playback"
  /\ rq.phase \in {"verifying", "accepted"} => rq.kind = "whip:create"
  /\ rq.kind = "whip:create" /\ rq.phase \in {"delivered", "verifying", "accepted"}
       => r.handoff = None \/ rq.resource < r.resource

InTransaction(rq) ==
  /\ rq # None
  /\ rq.kind # "playback"
  /\ rq.phase \in {"reserved", "signing", "issued"}

\* The programs that run or are being started.
Taken(recs, reqs) ==
  {p \in Programs : \/ Active(recs[p])
                    \/ \E q \in Requests : InTransaction(reqs[q]) /\ reqs[q].program = p}

RuntimeState(recs, reqs, here, t) ==
  /\ recs \in [Programs -> Record \cup {None}]
  /\ reqs \in [Requests -> Request \cup {None}]
  /\ here \in SUBSET Peers
  /\ t \in 1..MaxTime

Good(recs, reqs, here) ==
  /\ \A p \in Programs : recs[p] # None => GoodRecord(recs[p], here)
  /\ \A q \in Requests : reqs[q] # None => GoodRequest(reqs[q], recs[reqs[q].program], here)

Inv(recs, reqs, here, t) ==
  /\ RuntimeState(recs, reqs, here, t)
  /\ Good(recs, reqs, here)
  /\ Cardinality(Taken(recs, reqs)) <= Capacity

\* The inductive invariant.
IInv == Inv(records, requests, present, now)

LEMMA RecordType ==
  ASSUME NEW recs \in [Programs -> Record \cup {None}], NEW p \in Programs, recs[p] # None
  PROVE  /\ recs[p] \in Record /\ recs[p].machine \in Machine
         /\ recs[p].lifetime \in Nat /\ recs[p].observed \in Nat
         /\ recs[p].resource \in Positive
  <1>1. recs[p] \in Record
    OBVIOUS
  <1> QED
    BY <1>1 DEF Record

LEMMA RequestType ==
  ASSUME NEW reqs \in [Requests -> Request \cup {None}], NEW q \in Requests, reqs[q] # None
  PROVE  /\ reqs[q] \in Request /\ reqs[q].program \in Programs
         /\ reqs[q].phase \in Phases /\ reqs[q].resource \in Positive
         /\ reqs[q].expiresAt \in Nat /\ reqs[q].at \in Nat
         /\ reqs[q].bound \in {"current", "stale"} /\ reqs[q].signal \in {"open", "aborted"}
         /\ reqs[q].kind \in {"whip:create", "whip:update", "playback"}
  <1>1. reqs[q] \in Request
    OBVIOUS
  <1> QED
    BY <1>1 DEF Request

-----------------------------------------------------------------------------
(***************************************************************************)
(* Replacing records                                                       *)
(***************************************************************************)

\* What the requests of a program rely on, whatever its record.
Succeeds(r, n) ==
  /\ r # None /\ n # None
  /\ n.resource >= r.resource
  /\ n.handoff # None => r.handoff # None \/ n.resource > r.resource

\* A token that was good for r is good for n.
KeepsTokens(r, n) ==
  /\ n.machine.broadcast = r.machine.broadcast
  /\ r.machine.state \notin Inactive => n.machine.state \notin Inactive
  /\ r.machine.state \in {"live", "degraded"} => n.machine.state \in {"live", "degraded"}

\* The record is the same object: at most the time it was observed changed.
SameObject(r, n) ==
  /\ r # None <=> n # None
  /\ n # None => /\ n.machine = r.machine
                 /\ n.resource = r.resource
                 /\ n.handoff = r.handoff

\* The same request, possibly aborted or bound to a record that was replaced.
SameRequest(rq, a) ==
  /\ rq # None
  /\ a.kind = rq.kind /\ a.phase = rq.phase /\ a.program = rq.program
  /\ a.peer = rq.peer /\ a.epoch = rq.epoch /\ a.resource = rq.resource
  /\ a.bound = rq.bound \/ a.bound = "stale"
  /\ a.signal = rq.signal \/ a.signal = "aborted"

\* A request that survives a replacement is still good.
LEMMA RequestSurvives ==
  ASSUME NEW rq \in Request, NEW a \in Request, NEW r \in Record, NEW n \in Record, NEW here,
         GoodRequest(rq, r, here), SameRequest(rq, a),
         \/ SameObject(r, n)
         \/ /\ Succeeds(r, n)
            /\ a.phase \in InFlight => a.bound = "stale"
            /\ a.phase \in {"delivered", "verifying"} => KeepsTokens(r, n)
  PROVE  GoodRequest(a, n, here)
  <1>1. r # None /\ n # None
    BY NoneAssumption
  <1>2. a.resource \in Nat /\ r.resource \in Nat /\ n.resource \in Nat
    BY DEF Request, Record, Positive
  <1>3. CASE SameObject(r, n)
    BY <1>1, <1>3 DEF SameObject, GoodRequest, SameRequest, BoundFits, TokenFits
  <1>4. CASE /\ Succeeds(r, n)
             /\ a.phase \in InFlight => a.bound = "stale"
             /\ a.phase \in {"delivered", "verifying"} => KeepsTokens(r, n)
    <2>1. a.phase \in {"delivered", "verifying"} => TokenFits(a, n.machine)
      BY <1>4 DEF GoodRequest, SameRequest, TokenFits, KeepsTokens
    <2>2. a.phase \in InFlight /\ a.bound = "current" => BoundFits(a, n.machine)
      BY <1>4
    <2>3. a.kind # "playback" /\ a.phase \in InFlight /\ a.signal = "open" => a.peer \in here
      BY DEF GoodRequest, SameRequest
    <2>4. a.resource <= n.resource
          /\ (a.kind = "whip:create" /\ a.phase \in {"delivered", "verifying", "accepted"}
                => n.handoff = None \/ a.resource < n.resource)
      BY <1>2, <1>4 DEF Succeeds, GoodRequest, SameRequest
    <2>5. /\ a.phase = "deciding" => a.kind = "playback"
          /\ a.phase \in {"verifying", "accepted"} => a.kind = "whip:create"
      BY DEF GoodRequest, SameRequest
    <2> QED
      BY <1>1, <2>1, <2>2, <2>3, <2>4, <2>5 DEF GoodRequest
  <1> QED
    BY <1>3, <1>4

\* After the records of S were replaced and the requests adjusted, every
\* request left is good, and no program outside S was added.
LEMMA Replaced ==
  ASSUME NEW recs0, NEW reqs0, NEW here, NEW t, RuntimeState(recs0, reqs0, here, t),
         Good(recs0, reqs0, here), NEW S \in SUBSET Programs,
         NEW recs \in [Programs -> Record \cup {None}],
         NEW reqs \in [Requests -> Request \cup {None}],
         \A p \in Programs \ S : SameObject(recs0[p], recs[p]),
         \A p \in S : Succeeds(recs0[p], recs[p]),
         \A q \in Requests : reqs[q] # None =>
            /\ SameRequest(reqs0[q], reqs[q])
            /\ reqs[q].program \in S =>
                 /\ reqs[q].phase \in InFlight => reqs[q].bound = "stale"
                 /\ reqs[q].phase \in {"delivered", "verifying"} =>
                      KeepsTokens(recs0[reqs[q].program], recs[reqs[q].program])
  PROVE  /\ \A q \in Requests : reqs[q] # None =>
              GoodRequest(reqs[q], recs[reqs[q].program], here)
         /\ Taken(recs, reqs) \subseteq Taken(recs0, reqs0) \cup {p \in S : Active(recs[p])}
  <1>0. recs0 \in [Programs -> Record \cup {None}] /\ reqs0 \in [Requests -> Request \cup {None}]
    BY DEF RuntimeState
  <1>1. ASSUME NEW q \in Requests, reqs[q] # None
        PROVE  GoodRequest(reqs[q], recs[reqs[q].program], here)
    <2> DEFINE a == reqs[q]
               rq == reqs0[q]
               p == a.program
    <2>1. SameRequest(rq, a)
      BY <1>1
    <2>2. rq # None /\ rq.program = p
      BY <2>1 DEF SameRequest
    <2>3. rq \in Request /\ a \in Request /\ p \in Programs
      BY <1>0, <1>1, <2>2, RequestType
    <2>4. GoodRequest(rq, recs0[p], here)
      BY <2>2, <2>3 DEF Good
    <2>5. recs0[p] # None
      BY <2>4 DEF GoodRequest
    <2>6. recs[p] # None
      BY <2>3, <2>5 DEF SameObject, Succeeds
    <2>7. recs0[p] \in Record /\ recs[p] \in Record
      BY <1>0, <2>3, <2>5, <2>6
    <2>8. \/ SameObject(recs0[p], recs[p])
          \/ /\ Succeeds(recs0[p], recs[p])
             /\ a.phase \in InFlight => a.bound = "stale"
             /\ a.phase \in {"delivered", "verifying"} => KeepsTokens(recs0[p], recs[p])
      BY <1>1, <2>3
    <2> HIDE DEF a, rq, p
    <2>9. GoodRequest(a, recs[p], here)
      BY <2>1, <2>3, <2>4, <2>7, <2>8, RequestSurvives
    <2> QED
      BY <2>9 DEF a, p
  <1>2. ASSUME NEW p \in Taken(recs, reqs), ~(p \in S /\ Active(recs[p]))
        PROVE  p \in Taken(recs0, reqs0)
    <2>0. p \in Programs
      BY DEF Taken
    <2>1. CASE Active(recs[p])
      <3>1. SameObject(recs0[p], recs[p])
        BY <1>2, <2>0, <2>1
      <3>2. Active(recs0[p])
        BY <2>1, <3>1 DEF SameObject, Active
      <3> QED
        BY <2>0, <3>2 DEF Taken
    <2>2. CASE ~Active(recs[p])
      <3>1. PICK q \in Requests : InTransaction(reqs[q]) /\ reqs[q].program = p
        BY <2>2 DEF Taken
      <3>2. SameRequest(reqs0[q], reqs[q])
        BY <3>1 DEF InTransaction
      <3>3. InTransaction(reqs0[q]) /\ reqs0[q].program = p
        BY <3>1, <3>2 DEF SameRequest, InTransaction
      <3> QED
        BY <2>0, <3>3 DEF Taken
    <2> QED
      BY <2>1, <2>2
  <1> QED
    BY <1>1, <1>2

\* The request stands for a token of a revoked epoch.
Revoked(rq, E) == rq.phase \in {"delivered", "verifying"} /\ <<rq.program, rq.epoch>> \in E

\* What After does to one request.
LEMMA AfterFacts ==
  ASSUME requests \in [Requests -> Request \cup {None}], NEW S, NEW E, NEW A,
         NEW q \in Requests, After(S, E, A)[q] # None
  PROVE  LET a == After(S, E, A)[q]
             rq == requests[q]
         IN /\ a \in Request
            /\ SameRequest(rq, a)
            /\ a.expiresAt = rq.expiresAt
            /\ rq.program \in S /\ rq.phase \in InFlight => a.bound = "stale"
            /\ q \in A => a.signal = "aborted"
            /\ ~Revoked(rq, E)
  <1> DEFINE rq == requests[q]
             b == IF rq.program \in S /\ rq.phase \in InFlight THEN "stale" ELSE rq.bound
             s == IF q \in A THEN "aborted" ELSE rq.signal
             gone == rq.phase \in {"delivered", "verifying"} /\ <<rq.program, rq.epoch>> \in E
  <1>1. After(S, E, A)[q] = IF rq = None THEN None ELSE IF gone THEN None
                            ELSE [rq EXCEPT !.bound = IF rq.program \in S /\ rq.phase \in InFlight
                                                      THEN "stale" ELSE @,
                                            !.signal = IF q \in A THEN "aborted" ELSE @]
    BY DEF After
  <1>2. rq # None /\ ~gone
    BY <1>1
  <1>3. rq \in Request
    BY <1>2
  <1>4. After(S, E, A)[q] = [rq EXCEPT !.bound = b, !.signal = s]
    BY <1>1, <1>2, <1>3 DEF Request
  <1>5. b \in {"current", "stale"} /\ s \in {"open", "aborted"}
    BY <1>3 DEF Request
  <1>6. (rq.program \in S /\ rq.phase \in InFlight => b = "stale") /\ (q \in A => s = "aborted")
        /\ (b = rq.bound \/ b = "stale") /\ (s = rq.signal \/ s = "aborted")
    OBVIOUS
  <1> HIDE DEF b, s
  <1>7. LET a == [rq EXCEPT !.bound = b, !.signal = s]
        IN /\ a \in Request /\ a.bound = b /\ a.signal = s
           /\ a.kind = rq.kind /\ a.phase = rq.phase /\ a.program = rq.program
           /\ a.peer = rq.peer /\ a.epoch = rq.epoch /\ a.resource = rq.resource
           /\ a.expiresAt = rq.expiresAt
    BY <1>3, <1>5 DEF Request
  <1> QED
    BY <1>2, <1>4, <1>6, <1>7 DEF SameRequest, Revoked

\* The programs taken are finitely many.
LEMMA TakenFinite ==
  ASSUME NEW recs, NEW reqs
  PROVE  IsFiniteSet(Taken(recs, reqs)) /\ Cardinality(Taken(recs, reqs)) \in Nat
  <1>1. Taken(recs, reqs) \subseteq Programs
    BY DEF Taken
  <1> QED
    BY <1>1, RuntimeConstants, FS_Subset, FS_CardinalityType

LEMMA TakenShrinks ==
  ASSUME NEW recs0, NEW reqs0, NEW recs, NEW reqs,
         Taken(recs, reqs) \subseteq Taken(recs0, reqs0),
         Cardinality(Taken(recs0, reqs0)) <= Capacity
  PROVE  Cardinality(Taken(recs, reqs)) <= Capacity
  <1>1. Cardinality(Taken(recs, reqs)) <= Cardinality(Taken(recs0, reqs0))
    BY TakenFinite, FS_Subset
  <1> QED
    BY <1>1, TakenFinite, RuntimeConstants

\* #occupiedProgramScopes counts exactly the programs taken.
LEMMA OccupiedIsTaken ==
  ASSUME IInv
  PROVE  Occupied = Taken(records, requests)
  <1>1. requests \in [Requests -> Request \cup {None}]
    BY DEF IInv, Inv, RuntimeState
  <1>2. \A q \in Requests : Transacting(q) <=> InTransaction(requests[q])
    BY DEF Transacting, InTransaction
  <1>3. \A q \in Requests : Transacting(q) => requests[q].program \in Programs
    BY <1>1, RequestType DEF Transacting
  <1> QED
    BY <1>2, <1>3 DEF Occupied, TransactionsOf, Taken

LEMMA TakenGrows ==
  ASSUME IInv, NEW p \in Programs, CapacityAllows(p), NEW recs, NEW reqs,
         Taken(recs, reqs) \subseteq Taken(records, requests) \cup {p}
  PROVE  Cardinality(Taken(recs, reqs)) <= Capacity
  <1>1. IsFiniteSet(Taken(records, requests) \cup {p})
    <2>1. Taken(records, requests) \cup {p} \subseteq Programs
      BY DEF Taken
    <2> QED
      BY <2>1, RuntimeConstants, FS_Subset
  <1>2. Cardinality(Taken(recs, reqs)) <= Cardinality(Taken(records, requests) \cup {p})
    BY <1>1, FS_Subset
  <1>3. Cardinality(Taken(records, requests) \cup {p}) <= Capacity
    BY OccupiedIsTaken DEF CapacityAllows
  <1> QED
    BY <1>1, <1>2, <1>3, TakenFinite, FS_CardinalityType, RuntimeConstants

-----------------------------------------------------------------------------
(***************************************************************************)
(* Steps of one request, steps of one record                               *)
(***************************************************************************)

\* Only request q changes, and it reserves no program.
LEMMA OneRequest ==
  ASSUME NEW recs, NEW reqs, NEW here, NEW t, Inv(recs, reqs, here, t),
         NEW q \in Requests, NEW a,
         \/ a = None
         \/ /\ a \in Request
            /\ GoodRequest(a, recs[a.program], here)
            /\ InTransaction(a) => InTransaction(reqs[q]) /\ reqs[q].program = a.program
  PROVE  Inv(recs, [reqs EXCEPT ![q] = a], here, t)
  <1> DEFINE after == [reqs EXCEPT ![q] = a]
  <1>1. reqs \in [Requests -> Request \cup {None}]
    BY DEF Inv, RuntimeState
  <1>2. after \in [Requests -> Request \cup {None}]
        /\ after[q] = a /\ \A x \in Requests : x # q => after[x] = reqs[x]
    BY <1>1
  <1> HIDE DEF after
  <1>3. RuntimeState(recs, after, here, t)
    BY <1>2 DEF Inv, RuntimeState
  <1>4. Good(recs, after, here)
    BY <1>2 DEF Inv, Good
  <1>5. Taken(recs, after) \subseteq Taken(recs, reqs)
    BY <1>2 DEF Taken, InTransaction
  <1>6. Cardinality(Taken(recs, after)) <= Capacity
    BY <1>5, TakenShrinks DEF Inv
  <1> QED
    BY <1>3, <1>4, <1>6 DEF Inv, after

\* Records are replaced and no program is started.
LEMMA ReplacedInv ==
  ASSUME IInv, NEW S \in SUBSET Programs,
         NEW recs \in [Programs -> Record \cup {None}],
         NEW reqs \in [Requests -> Request \cup {None}],
         \A p \in Programs \ S : SameObject(records[p], recs[p]),
         \A p \in S : Succeeds(records[p], recs[p]),
         \A q \in Requests : reqs[q] # None =>
            /\ SameRequest(requests[q], reqs[q])
            /\ reqs[q].program \in S =>
                 /\ reqs[q].phase \in InFlight => reqs[q].bound = "stale"
                 /\ reqs[q].phase \in {"delivered", "verifying"} =>
                      KeepsTokens(records[reqs[q].program], recs[reqs[q].program]),
         \A p \in Programs : recs[p] # None => GoodRecord(recs[p], present),
         \A p \in S : Active(recs[p]) => Active(records[p])
  PROVE  Inv(recs, reqs, present, now)
  <1>1. RuntimeState(records, requests, present, now) /\ Good(records, requests, present)
    BY DEF IInv, Inv
  <1>2. /\ \A q \in Requests : reqs[q] # None =>
             GoodRequest(reqs[q], recs[reqs[q].program], present)
        /\ Taken(recs, reqs) \subseteq Taken(records, requests) \cup {p \in S : Active(recs[p])}
    BY <1>1, Replaced
  <1>3. Taken(recs, reqs) \subseteq Taken(records, requests)
    BY <1>2 DEF Taken
  <1>4. Cardinality(Taken(recs, reqs)) <= Capacity
    BY <1>3, TakenShrinks DEF IInv, Inv
  <1> QED
    BY <1>1, <1>2, <1>4 DEF Inv, RuntimeState, Good

\* The record of one program is replaced and epochs are revoked.
LEMMA OneRecord ==
  ASSUME IInv, NEW p \in Programs, records[p] # None, NEW n \in Record, NEW E, NEW A,
         GoodRecord(n, present), Succeeds(records[p], n),
         <<p, records[p].machine.broadcast>> \in E \/ KeepsTokens(records[p], n),
         Active(n) => Active(records[p]) \/ CapacityAllows(p)
  PROVE  Inv([records EXCEPT ![p] = n], After({p}, E, A), present, now)
  <1> DEFINE recs == [records EXCEPT ![p] = n]
             S == {p}
             reqs == After(S, E, A)
  <1>s. S \in SUBSET Programs /\ p \in S /\ \A x : x \in S <=> x = p
    OBVIOUS
  <1>r. Inv(recs, reqs, present, now) => Inv([records EXCEPT ![p] = n], After({p}, E, A), present, now)
    OBVIOUS
  <1> HIDE DEF S
  <1>0. RuntimeState(records, requests, present, now) /\ Good(records, requests, present)
        /\ records \in [Programs -> Record \cup {None}]
        /\ requests \in [Requests -> Request \cup {None}]
    BY DEF IInv, Inv, RuntimeState
  <1>1. recs \in [Programs -> Record \cup {None}] /\ recs[p] = n
        /\ \A x \in Programs : x # p => recs[x] = records[x]
    BY <1>0
  <1>2. reqs \in [Requests -> Request \cup {None}]
    <2>1. \A q \in Requests : reqs[q] # None => reqs[q] \in Request
      BY <1>0, AfterFacts
    <2> QED
      BY <2>1 DEF After
  <1>3. \A q \in Requests : reqs[q] # None =>
            /\ SameRequest(requests[q], reqs[q])
            /\ reqs[q].program \in S =>
                 /\ reqs[q].phase \in InFlight => reqs[q].bound = "stale"
                 /\ reqs[q].phase \in {"delivered", "verifying"} =>
                      KeepsTokens(records[reqs[q].program], recs[reqs[q].program])
    <2> SUFFICES ASSUME NEW q \in Requests, reqs[q] # None
                 PROVE  /\ SameRequest(requests[q], reqs[q])
                        /\ reqs[q].program = p =>
                             /\ reqs[q].phase \in InFlight => reqs[q].bound = "stale"
                             /\ reqs[q].phase \in {"delivered", "verifying"} =>
                                  KeepsTokens(records[p], n)
      BY <1>1, <1>s
    <2>1. /\ SameRequest(requests[q], reqs[q])
          /\ requests[q].program \in S /\ requests[q].phase \in InFlight => reqs[q].bound = "stale"
          /\ ~Revoked(requests[q], E)
      BY <1>0, AfterFacts
    <2> HIDE DEF reqs
    <2>2. requests[q] # None /\ reqs[q].program = requests[q].program
          /\ reqs[q].phase = requests[q].phase
      BY <2>1 DEF SameRequest
    <2>3. ASSUME reqs[q].program = p, reqs[q].phase \in {"delivered", "verifying"}
          PROVE  KeepsTokens(records[p], n)
      <3>1. GoodRequest(requests[q], records[p], present)
        BY <1>0, <2>2, <2>3 DEF Good
      <3>2. requests[q].epoch = records[p].machine.broadcast
        BY <2>2, <2>3, <3>1 DEF GoodRequest, TokenFits
      <3> QED
        BY <2>1, <2>2, <2>3, <3>2 DEF Revoked
    <2> QED
      BY <1>s, <2>1, <2>2, <2>3
  <1>4. \A x \in Programs : recs[x] # None => GoodRecord(recs[x], present)
    BY <1>0, <1>1 DEF Good
  <1>5. /\ \A x \in Programs \ S : SameObject(records[x], recs[x])
        /\ \A x \in S : Succeeds(records[x], recs[x])
    BY <1>1, <1>s DEF SameObject
  <1> HIDE DEF reqs, recs
  <1>6. CASE Active(n) => Active(records[p])
    <2>1. \A x \in S : Active(recs[x]) => Active(records[x])
      BY <1>1, <1>s, <1>6
    <2>2. Inv(recs, reqs, present, now)
      BY <1>1, <1>s, <1>2, <1>3, <1>4, <1>5, <2>1, ReplacedInv
    <2> QED
      BY <1>r, <2>2
  <1>7. CASE CapacityAllows(p)
    <2>1. /\ \A q \in Requests : reqs[q] # None =>
               GoodRequest(reqs[q], recs[reqs[q].program], present)
          /\ Taken(recs, reqs) \subseteq Taken(records, requests) \cup {x \in S : Active(recs[x])}
      BY <1>0, <1>1, <1>s, <1>2, <1>3, <1>5, Replaced
    <2>2. Taken(recs, reqs) \subseteq Taken(records, requests) \cup {p}
      BY <1>s, <2>1
    <2>3. Cardinality(Taken(recs, reqs)) <= Capacity
      BY <1>7, <2>2, TakenGrows
    <2>4. Inv(recs, reqs, present, now)
      BY <1>0, <1>1, <1>2, <1>4, <2>1, <2>3 DEF Inv, RuntimeState, Good
    <2> QED
      BY <1>r, <2>4
  <1> QED
    BY <1>6, <1>7

\* #synchronizeRecord: the guard it checks is the reserve the invariant asks for.
LEMMA SynchronizedFacts ==
  ASSUME NEW r \in Record, NEW m \in Machine, NEW t \in Nat
  PROVE  LET n == Synchronized(r, m, t)
         IN /\ n \in Record
            /\ n.machine = m /\ n.handoff = r.handoff /\ n.publisher = r.publisher
            /\ n.resource = r.resource
            /\ m.state \notin Inactive => n.lifetime > 0
            /\ n.standby # 0 => n.standby = m.broadcast /\ m.state \in {"live", "degraded"}
  <1> DEFINE active == m.state \notin Inactive
             life == IF active /\ r.lifetime = 0 THEN t + Runtime ELSE r.lifetime
             seen == IF active THEN t ELSE r.observed
             plan == IF m.state \in {"live", "degraded"} /\ r.standby = m.broadcast
                     THEN r.standby ELSE 0
  <1>1. Synchronized(r, m, t) = [r EXCEPT !.machine = m, !.lifetime = life, !.observed = seen,
                                          !.standby = plan]
    BY DEF Synchronized, Record
  <1>2. r.lifetime \in Nat /\ r.observed \in Nat /\ r.standby \in Nat /\ Runtime \in Nat \ {0}
    BY RuntimeConstants DEF Record
  <1>3. life \in Nat /\ seen \in Nat /\ plan \in Nat /\ (active => life > 0)
        /\ (plan # 0 => plan = m.broadcast /\ m.state \in {"live", "degraded"})
    BY <1>2
  <1> HIDE DEF life, seen, plan
  <1>4. LET n == [r EXCEPT !.machine = m, !.lifetime = life, !.observed = seen, !.standby = plan]
        IN /\ n \in Record /\ n.machine = m /\ n.handoff = r.handoff
           /\ n.publisher = r.publisher /\ n.resource = r.resource
           /\ n.lifetime = life /\ n.standby = plan
    BY <1>3 DEF Record
  <1> QED
    BY <1>1, <1>3, <1>4

LEMMA SynchronizeInv ==
  ASSUME IInv, NEW p \in Programs, records[p] # None, NEW r \in Record, NEW m \in Machine,
         SynchronizeRecord(p, r, m),
         m.state \in States, m.state # "draft",
         m.state \notin Inactive => r.publisher \in present,
         Succeeds(records[p], r),
         r.handoff # None => /\ m.state = "preparing" /\ m.writerLeases = {}
                             /\ m.broadcast = r.handoff.epoch
                             /\ Room(m, 5 + CleanupReserve),
         m.broadcast = records[p].machine.broadcast =>
           /\ Active(records[p]) => m.state \notin Inactive
           /\ records[p].machine.state \in {"live", "degraded"} => m.state \in {"live", "degraded"}
  PROVE  Inv(records', requests', present', now')
  <1> DEFINE n == Synchronized(r, m, now)
             E == RolledEpochs(p, m)
  <1>0. now \in Nat
    BY DEF IInv, Inv, RuntimeState
  <1>1. /\ n \in Record
        /\ n.machine = m /\ n.handoff = r.handoff /\ n.publisher = r.publisher
        /\ n.resource = r.resource
        /\ m.state \notin Inactive => n.lifetime > 0
        /\ n.standby # 0 => n.standby = m.broadcast /\ m.state \in {"live", "degraded"}
    BY <1>0, SynchronizedFacts
  <1>w. /\ records' = [records EXCEPT ![p] = n] /\ requests' = After({p}, E, {})
        /\ present' = present /\ now' = now
        /\ m.state \in Inactive \/ (CapacityAllows(p) /\ CleanupRoom(m))
    BY DEF SynchronizeRecord, SynchronizeOK
  <1> HIDE DEF n
  <1>2. n # None /\ (Active(n) <=> m.state \notin Inactive)
    BY <1>1, NoneAssumption DEF Active
  <1>3. GoodRecord(n, present)
    <2>1. Active(n) => Room(m, CleanupReserve)
      BY <1>w, <1>2 DEF CleanupRoom
    <2> QED
      BY <1>1, <1>2, <2>1 DEF GoodRecord
  <1>4. Succeeds(records[p], n)
    BY <1>1, <1>2 DEF Succeeds
  <1>5. <<p, records[p].machine.broadcast>> \in E \/ KeepsTokens(records[p], n)
    BY <1>1 DEF RolledEpochs, KeepsTokens, Active
  <1>6. Active(n) => CapacityAllows(p)
    BY <1>2, <1>w
  <1> HIDE DEF E
  <1>7. Inv([records EXCEPT ![p] = n], After({p}, E, {}), present, now)
    BY <1>1, <1>3, <1>4, <1>5, <1>6, OneRecord
  <1> QED
    BY <1>7, <1>w

-----------------------------------------------------------------------------
(***************************************************************************)
(* Stopping and pruning                                                    *)
(***************************************************************************)

\* #stopRecord ends every promise: no handoff, no plan, no tokens.
LEMMA StoppedRecordFacts ==
  ASSUME NEW r \in Record, NEW here, GoodRecord(r, here), NEW reason \in Reasons
  PROVE  LET n == StoppedRecord(r, reason)
         IN /\ n \in Record
            /\ ~Active(n)
            /\ GoodRecord(n, here)
            /\ Succeeds(r, n)
  <1> DEFINE m == StoppedMachine(r.machine)
             why == IF r.machine.state = "stopped" THEN r.reason ELSE reason
             n == [r EXCEPT !.machine = m, !.handoff = None, !.standby = 0, !.reason = why]
  <1>1. r.machine \in Machine /\ r.machine.state \in States /\ r.resource \in Nat
        /\ r.reason \in Reasons
    BY DEF Record, GoodRecord, Positive
  <1>2. m \in Machine /\ m.state = "stopped"
    BY <1>1, StoppedFacts
  <1>3. StoppedRecord(r, reason) = n
    BY DEF StoppedRecord, Record
  <1>4. why \in Reasons
    BY <1>1
  <1> HIDE DEF m, why
  <1>5. n \in Record /\ n.machine = m /\ n.handoff = None /\ n.standby = 0
        /\ n.resource = r.resource
    BY <1>2, <1>4 DEF Record
  <1> HIDE DEF n
  <1>6. r # None /\ n # None
    BY <1>5, NoneAssumption
  <1>7. ~Active(n)
    BY <1>2, <1>5 DEF Active, Inactive
  <1>8. "stopped" \in States
    BY DEF States
  <1>9. GoodRecord(n, here)
    BY <1>2, <1>5, <1>7, <1>8 DEF GoodRecord
  <1>10. Succeeds(r, n)
    BY <1>1, <1>5, <1>6 DEF Succeeds
  <1> QED
    BY <1>3, <1>5, <1>7, <1>9, <1>10

\* One record is stopped, its epoch revoked.
LEMMA StopOne ==
  ASSUME IInv, NEW p \in Programs, records[p] # None, NEW reason \in Reasons, NEW A
  PROVE  Inv([records EXCEPT ![p] = StoppedRecord(records[p], reason)],
             After({p}, StoppedEpochs({p}), A), present, now)
  <1> DEFINE n == StoppedRecord(records[p], reason)
             E == StoppedEpochs({p})
  <1>1. records[p] \in Record /\ GoodRecord(records[p], present)
    BY DEF IInv, Inv, RuntimeState, Good
  <1>2. n \in Record /\ ~Active(n) /\ GoodRecord(n, present) /\ Succeeds(records[p], n)
    BY <1>1, StoppedRecordFacts
  <1>3. <<p, records[p].machine.broadcast>> \in E
    BY DEF StoppedEpochs
  <1> HIDE DEF n, E
  <1>4. Inv([records EXCEPT ![p] = n], After({p}, E, A), present, now)
    BY <1>2, <1>3, OneRecord
  <1> QED
    BY <1>4 DEF n, E

\* What prune at time t does to records and requests.
LEMMA PrunedFacts ==
  ASSUME IInv, NEW t \in Nat
  PROVE  LET S == {p \in Programs : RunOut(records[p], t)}
             recs == PrunedRecords(t)
             reqs == PrunedRequests(t)
         IN /\ recs \in [Programs -> Record \cup {None}]
            /\ reqs \in [Requests -> Request \cup {None}]
            /\ \A p \in Programs \ S : SameObject(records[p], recs[p])
            /\ \A p \in S : Succeeds(records[p], recs[p]) /\ ~Active(recs[p])
            /\ \A p \in Programs : recs[p] # None => GoodRecord(recs[p], present)
            /\ \A q \in Requests : reqs[q] # None =>
                 /\ SameRequest(requests[q], reqs[q])
                 /\ reqs[q].program \in S =>
                      /\ reqs[q].phase \in InFlight => reqs[q].bound = "stale"
                      /\ reqs[q].phase \notin {"delivered", "verifying"}
  <1> DEFINE S == {p \in Programs : RunOut(records[p], t)}
             recs == PrunedRecords(t)
             reqs == PrunedRequests(t)
             E == StoppedEpochs(S)
             A == TransactionsOf(S)
  <1>0. /\ records \in [Programs -> Record \cup {None}]
        /\ requests \in [Requests -> Request \cup {None}]
        /\ Good(records, requests, present)
    BY DEF IInv, Inv, RuntimeState
  <1>1. \A p \in S : records[p] # None /\ records[p] \in Record /\ p \in Programs
                     /\ GoodRecord(records[p], present)
    BY <1>0 DEF RunOut, Active, Good
  <1>2. "PROGRAM_RUNTIME_EXPIRED" \in Reasons
    BY DEF Reasons
  <1>3. ASSUME NEW p \in S
        PROVE  /\ recs[p] \in Record /\ Succeeds(records[p], recs[p]) /\ ~Active(recs[p])
               /\ GoodRecord(recs[p], present)
    <2>1. recs[p] = StoppedRecord(records[p], "PROGRAM_RUNTIME_EXPIRED")
      BY <1>3 DEF PrunedRecords
    <2> QED
      BY <1>1, <1>2, <1>3, <2>1, StoppedRecordFacts
  <1>4. ASSUME NEW p \in Programs \ S
        PROVE  /\ recs[p] \in Record \cup {None} /\ SameObject(records[p], recs[p])
               /\ recs[p] # None => GoodRecord(recs[p], present)
    <2>1. CASE ~Active(records[p])
      <3>1. recs[p] = records[p]
        BY <1>4, <2>1 DEF PrunedRecords
      <3> QED
        BY <1>0, <3>1 DEF SameObject, Good
    <2>2. CASE Active(records[p])
      <3> DEFINE r == records[p]
                 n == [r EXCEPT !.observed = t]
      <3>1. recs[p] = n
        BY <1>4, <2>2 DEF PrunedRecords
      <3>2. r \in Record /\ r # None /\ GoodRecord(r, present)
        BY <1>0, <2>2 DEF Active, Good
      <3>3. /\ n \in Record /\ n.machine = r.machine /\ n.resource = r.resource
            /\ n.handoff = r.handoff /\ n.lifetime = r.lifetime /\ n.publisher = r.publisher
            /\ n.standby = r.standby
        BY <3>2 DEF Record
      <3> HIDE DEF n, recs
      <3>4. n # None
        BY <3>3, NoneAssumption
      <3>5. GoodRecord(n, present)
        BY <3>2, <3>3, <3>4 DEF GoodRecord, Active
      <3> QED
        BY <3>1, <3>2, <3>3, <3>4, <3>5 DEF SameObject
    <2> QED
      BY <2>1, <2>2
  <1>5. recs \in [Programs -> Record \cup {None}]
    <2>1. \A p \in Programs : recs[p] \in Record \cup {None}
      BY <1>3, <1>4
    <2> QED
      BY <2>1 DEF PrunedRecords
  <1>6. ASSUME NEW q \in Requests, reqs[q] # None
        PROVE  /\ reqs[q] \in Request
               /\ SameRequest(requests[q], reqs[q])
               /\ reqs[q].program \in S =>
                    /\ reqs[q].phase \in InFlight => reqs[q].bound = "stale"
                    /\ reqs[q].phase \notin {"delivered", "verifying"}
    <2> DEFINE a == After(S, E, A)[q]
    <2>1. a # None /\ reqs[q] = a
      BY <1>6 DEF PrunedRequests
    <2>2. /\ a \in Request /\ SameRequest(requests[q], a)
          /\ requests[q].program \in S /\ requests[q].phase \in InFlight => a.bound = "stale"
          /\ ~Revoked(requests[q], E)
      <3> HIDE DEF S, E, A
      <3> QED
        BY <1>0, <2>1, AfterFacts
    <2> HIDE DEF a, reqs
    <2>3. requests[q] # None /\ a.program = requests[q].program /\ a.phase = requests[q].phase
      BY <2>2 DEF SameRequest
    <2>4. ASSUME a.program \in S, a.phase \in {"delivered", "verifying"} PROVE FALSE
      <3>1. GoodRequest(requests[q], records[a.program], present)
        BY <1>0, <2>3 DEF Good
      <3>2. requests[q].epoch = records[a.program].machine.broadcast
        BY <2>3, <2>4, <3>1 DEF GoodRequest, TokenFits
      <3>3. <<requests[q].program, requests[q].epoch>> \in E
        BY <2>3, <2>4, <3>2 DEF StoppedEpochs
      <3> QED
        BY <2>2, <2>3, <2>4, <3>3 DEF Revoked
    <2> QED
      BY <2>1, <2>2, <2>3, <2>4
  <1>7. reqs \in [Requests -> Request \cup {None}]
    <2>1. \A q \in Requests : reqs[q] \in Request \cup {None}
      BY <1>6
    <2> QED
      BY <2>1 DEF PrunedRequests
  <1> QED
    BY <1>3, <1>4, <1>5, <1>6, <1>7

LEMMA PruneInv == ASSUME IInv, Prune PROVE Inv(records', requests', present', now')
  <1> DEFINE S == {p \in Programs : RunOut(records[p], now)}
  <1>0. now \in Nat
    BY DEF IInv, Inv, RuntimeState
  <1>1. records' = PrunedRecords(now) /\ requests' = PrunedRequests(now)
        /\ present' = present /\ now' = now
    BY DEF Prune
  <1>2. S \in SUBSET Programs
    OBVIOUS
  <1>3. /\ records' \in [Programs -> Record \cup {None}]
        /\ requests' \in [Requests -> Request \cup {None}]
        /\ \A p \in Programs \ S : SameObject(records[p], records'[p])
        /\ \A p \in S : Succeeds(records[p], records'[p]) /\ ~Active(records'[p])
        /\ \A p \in Programs : records'[p] # None => GoodRecord(records'[p], present)
        /\ \A q \in Requests : requests'[q] # None =>
             /\ SameRequest(requests[q], requests'[q])
             /\ requests'[q].program \in S =>
                  /\ requests'[q].phase \in InFlight => requests'[q].bound = "stale"
                  /\ requests'[q].phase \notin {"delivered", "verifying"}
    BY <1>0, <1>1, PrunedFacts
  <1> HIDE DEF S
  <1>4. Inv(records', requests', present, now)
    BY <1>2, <1>3, ReplacedInv
  <1> QED
    BY <1>1, <1>4

LEMMA ObserveInv ==
  ASSUME IInv, NEW p \in Programs, Observe(p)
  PROVE  Inv(records', requests', present', now')
  <1>0. now \in Nat /\ records[p] # None
        /\ records \in [Programs -> Record \cup {None}]
        /\ requests \in [Requests -> Request \cup {None}]
    BY DEF IInv, Inv, RuntimeState, Observe, Active
  <1>1. /\ records' = [records EXCEPT ![p] = PrunedRecords(now)[p]]
        /\ requests' = IF RunOut(records[p], now)
                       THEN After({p}, StoppedEpochs({p}), TransactionsOf({p})) ELSE requests
        /\ present' = present /\ now' = now
    BY DEF Observe
  <1>2. CASE RunOut(records[p], now)
    <2>1. PrunedRecords(now)[p] = StoppedRecord(records[p], "PROGRAM_RUNTIME_EXPIRED")
      BY <1>2 DEF PrunedRecords
    <2>2. "PROGRAM_RUNTIME_EXPIRED" \in Reasons
      BY DEF Reasons
    <2> QED
      BY <1>0, <1>1, <1>2, <2>1, <2>2, StopOne
  <1>3. CASE ~RunOut(records[p], now)
    <2> DEFINE n == PrunedRecords(now)[p]
    <2>1. n \in Record \cup {None} /\ SameObject(records[p], n)
          /\ (n # None => GoodRecord(n, present))
      BY <1>0, <1>3, PrunedFacts
    <2> HIDE DEF n
    <2>2. /\ records' \in [Programs -> Record \cup {None}] /\ records'[p] = n
          /\ \A x \in Programs : x # p => records'[x] = records[x]
      BY <1>0, <1>1, <2>1 DEF n
    <2>3. requests' = requests
      BY <1>1, <1>3
    <2>4. \A x \in Programs : SameObject(records[x], records'[x])
      BY <2>1, <2>2 DEF SameObject
    <2>5. \A x \in Programs : records'[x] # None => GoodRecord(records'[x], present)
      BY <2>1, <2>2 DEF IInv, Inv, Good
    <2>6. \A q \in Requests : requests'[q] # None => SameRequest(requests[q], requests'[q])
      BY <2>3 DEF SameRequest
    <2>7. {} \in SUBSET Programs
      OBVIOUS
    <2>8. Inv(records', requests', present, now)
      BY <1>0, <2>2, <2>3, <2>4, <2>5, <2>6, <2>7, ReplacedInv
    <2> QED
      BY <1>1, <2>8
  <1> QED
    BY <1>2, <1>3

-----------------------------------------------------------------------------
(***************************************************************************)
(* Owner operations, joining and leaving                                   *)
(***************************************************************************)
LEMMA Typed ==
  ASSUME IInv
  PROVE  /\ records \in [Programs -> Record \cup {None}]
         /\ requests \in [Requests -> Request \cup {None}]
         /\ present \in SUBSET Peers
         /\ now \in Nat /\ now >= 1
         /\ \A p \in Programs : records[p] # None => GoodRecord(records[p], present)
         /\ \A q \in Requests : requests[q] # None =>
              GoodRequest(requests[q], records[requests[q].program], present)
  BY DEF IInv, Inv, RuntimeState, Good

LEMMA CreateProgramInv ==
  ASSUME IInv, NEW p \in Programs, NEW peer \in Peers, CreateProgram(p, peer)
  PROVE  Inv(records', requests', present', now')
  <1>0. records \in [Programs -> Record \cup {None}]
        /\ requests \in [Requests -> Request \cup {None}] /\ records[p] = None
    BY Typed DEF CreateProgram
  <1>1. PICK v \in Visibilities :
          records' = [records EXCEPT ![p] =
            [machine |-> Created(v), lifetime |-> 0, observed |-> 0, resource |-> 1,
             publisher |-> None, handoff |-> None, standby |-> 0, reason |-> "none"]]
    BY DEF CreateProgram
  <1> DEFINE m == Created(v)
             n == [machine |-> m, lifetime |-> 0, observed |-> 0, resource |-> 1,
                   publisher |-> None, handoff |-> None, standby |-> 0, reason |-> "none"]
  <1>2. m \in Machine /\ m.state = "draft" /\ m.sourceIds = <<>> /\ m.writerLeases = {}
    BY CreatedFacts
  <1>w. records' = [records EXCEPT ![p] = n]
    BY <1>1
  <1> HIDE DEF m
  <1>3. n \in Record /\ n.machine = m /\ n.handoff = None /\ n.standby = 0
    BY <1>2 DEF Record, Positive, Reasons
  <1> HIDE DEF n
  <1>4. /\ records' \in [Programs -> Record \cup {None}] /\ records'[p] = n
        /\ \A x \in Programs : x # p => records'[x] = records[x]
    BY <1>0, <1>w, <1>3
  <1>5. requests' = requests /\ present' = present /\ now' = now
    BY DEF CreateProgram
  <1>6. ~Active(n) /\ ~Active(records[p])
    BY <1>0, <1>2, <1>3 DEF Active, Inactive
  <1>7. GoodRecord(n, present)
    BY <1>2, <1>3, <1>6 DEF GoodRecord, States
  <1>8. Good(records', requests, present)
    <2>1. \A q \in Requests : requests[q] # None => requests[q].program # p
      BY <1>0, Typed DEF GoodRequest
    <2>2. \A q \in Requests : requests[q] # None => requests[q].program \in Programs
      BY <1>0, RequestType
    <2> QED
      BY <1>4, <1>7, <2>1, <2>2, Typed DEF Good
  <1>9. Taken(records', requests) \subseteq Taken(records, requests)
    BY <1>4, <1>6 DEF Taken
  <1>10. Cardinality(Taken(records', requests)) <= Capacity
    BY <1>9, TakenShrinks DEF IInv, Inv
  <1> QED
    BY <1>4, <1>5, <1>8, <1>10 DEF IInv, Inv, RuntimeState

LEMMA ChangeVisibilityInv ==
  ASSUME IInv, NEW p \in Programs, ChangeVisibility(p)
  PROVE  Inv(records', requests', present', now')
  <1> DEFINE r == records[p]
             E == {<<p, r.machine.broadcast>>}
  <1>0. records[p] # None /\ r \in Record /\ GoodRecord(r, present)
        /\ r.machine.state \in Inactive
    BY Typed DEF ChangeVisibility
  <1>1. PICK v \in Visibilities :
          records' = [records EXCEPT ![p].machine = VisibilityChanged(records[p].machine, v)]
    BY DEF ChangeVisibility
  <1> DEFINE m == VisibilityChanged(r.machine, v)
             n == [r EXCEPT !.machine = m]
  <1>2. records' = [records EXCEPT ![p] = n] /\ requests' = After({p}, E, {})
        /\ present' = present /\ now' = now
    BY <1>1, Typed DEF ChangeVisibility
  <1>3. m \in Machine /\ m.state = r.machine.state /\ m.sourceIds = r.machine.sourceIds
        /\ m.writerLeases = {}
    <2>1. r.machine \in Machine /\ r.machine.state \in States
      BY <1>0 DEF Record, GoodRecord
    <2> QED
      BY <2>1, VisibilityFacts
  <1> HIDE DEF m
  <1>4. /\ n \in Record /\ n.machine = m /\ n.resource = r.resource /\ n.handoff = r.handoff
        /\ n.standby = r.standby
    BY <1>0, <1>3 DEF Record
  <1>5. n # None /\ r.resource \in Nat
    BY <1>0, <1>4, NoneAssumption DEF Record, Positive
  <1>6. r.handoff = None /\ r.standby = 0
    BY <1>0 DEF GoodRecord, Inactive
  <1> HIDE DEF n
  <1>7. ~Active(n) /\ GoodRecord(n, present)
    BY <1>0, <1>3, <1>4, <1>6 DEF GoodRecord, Active
  <1>8. Succeeds(records[p], n)
    BY <1>0, <1>4, <1>5 DEF Succeeds
  <1>9. <<p, records[p].machine.broadcast>> \in E
    OBVIOUS
  <1> HIDE DEF E
  <1>10. Inv([records EXCEPT ![p] = n], After({p}, E, {}), present, now)
    BY <1>0, <1>4, <1>7, <1>8, <1>9, OneRecord
  <1> QED
    BY <1>2, <1>10

LEMMA StopProgramInv ==
  ASSUME IInv, NEW p \in Programs, StopProgram(p)
  PROVE  Inv(records', requests', present', now')
  <1>0. records[p] # None /\ present' = present /\ now' = now
    BY DEF StopProgram
  <1>1. CASE Stoppable({p})
    <2>1. "OWNER_STOP" \in Reasons
      BY DEF Reasons
    <2>2. /\ records' = [records EXCEPT ![p] = StoppedRecord(records[p], "OWNER_STOP")]
          /\ requests' = After({p}, StoppedEpochs({p}), TransactionsOf({p}))
      BY <1>1 DEF StopProgram
    <2> QED
      BY <1>0, <2>1, <2>2, StopOne
  <1>2. CASE ~Stoppable({p})
    <2> DEFINE S == {}
               A == TransactionsOf({p})
    <2>1. records' = records /\ requests' = After(S, {}, A)
      BY <1>2 DEF StopProgram
    <2> HIDE DEF A
    <2>2. \A q \in Requests : requests'[q] # None =>
            requests'[q] \in Request /\ SameRequest(requests[q], requests'[q])
      BY <2>1, Typed, AfterFacts
    <2>3. requests' \in [Requests -> Request \cup {None}]
      BY <2>1, <2>2 DEF After
    <2>4. \A x \in Programs : SameObject(records[x], records'[x])
      BY <2>1 DEF SameObject
    <2>5. Inv(records', requests', present, now)
      BY <2>1, <2>2, <2>3, <2>4, Typed, ReplacedInv
    <2> QED
      BY <1>0, <2>5
  <1> QED
    BY <1>1, <1>2

LEMMA JoinInv ==
  ASSUME IInv, NEW peer \in Peers, Join(peer)
  PROVE  Inv(records', requests', present', now')
  <1>1. present' = present \cup {peer} /\ records' = records /\ requests' = requests
        /\ now' = now
    BY DEF Join
  <1>2. \A p \in Programs : records[p] # None => GoodRecord(records[p], present \cup {peer})
    BY Typed DEF GoodRecord
  <1>3. \A q \in Requests : requests[q] # None =>
          GoodRequest(requests[q], records[requests[q].program], present \cup {peer})
    BY Typed DEF GoodRequest
  <1> QED
    BY <1>1, <1>2, <1>3 DEF IInv, Inv, RuntimeState, Good

\* A peer that leaves takes its programs, its challenges and its transactions
\* with it: nothing that can still make it a publisher remains.
LEMMA LeaveInv ==
  ASSUME IInv, NEW peer \in Peers, Leave(peer)
  PROVE  Inv(records', requests', present', now')
  <1> DEFINE S == {p \in Programs : /\ records[p] # None
                                    /\ records[p].publisher # None
                                    /\ DeviceOf[records[p].publisher] = DeviceOf[peer]
                                    /\ records[p].machine.state # "stopped"}
             E == StoppedEpochs(S)
             A == AbortedBy(peer, S)
             after == After(S, E, A)
             here == present \ {peer}
  <1>0. /\ records \in [Programs -> Record \cup {None}]
        /\ requests \in [Requests -> Request \cup {None}]
        /\ Good(records, requests, present)
        /\ RuntimeState(records, requests, present, now)
    BY DEF IInv, Inv, RuntimeState
  <1>1. /\ present' = here /\ now' = now
        /\ records' = [p \in Programs |->
             IF p \in S THEN StoppedRecord(records[p], "PUBLISHER_LEFT") ELSE records[p]]
        /\ requests' = [q \in Requests |->
             IF after[q] # None /\ after[q].phase = "challenge" /\ after[q].peer = peer
             THEN None ELSE after[q]]
    BY DEF Leave
  <1>2. "PUBLISHER_LEFT" \in Reasons
    BY DEF Reasons
  <1>3. ASSUME NEW p \in S
        PROVE  /\ records'[p] \in Record /\ ~Active(records'[p])
               /\ GoodRecord(records'[p], here) /\ Succeeds(records[p], records'[p])
    <2>1. records[p] \in Record /\ GoodRecord(records[p], present) /\ p \in Programs
      BY <1>0 DEF Good
    <2>2. records'[p] = StoppedRecord(records[p], "PUBLISHER_LEFT")
      BY <1>1, <2>1
    <2>3. /\ records'[p] \in Record /\ ~Active(records'[p])
          /\ GoodRecord(records'[p], present) /\ Succeeds(records[p], records'[p])
      BY <1>2, <2>1, <2>2, StoppedRecordFacts
    <2> QED
      BY <2>3 DEF GoodRecord
  <1>4. ASSUME NEW p \in Programs \ S
        PROVE  /\ records'[p] = records[p]
               /\ records[p] # None => GoodRecord(records[p], here)
    <2>1. records'[p] = records[p]
      BY <1>1
    <2>2. ASSUME Active(records[p]) PROVE records[p].publisher # peer
      <3> SUFFICES ASSUME records[p].publisher = peer PROVE FALSE
        OBVIOUS
      <3>1. records[p] # None /\ peer # None /\ records[p].machine.state # "stopped"
        BY <2>2, RuntimeConstants DEF Active, Inactive
      <3> QED
        BY <3>1
    <2>3. records[p] # None => GoodRecord(records[p], present)
      BY <1>0 DEF Good
    <2> QED
      BY <2>1, <2>2, <2>3 DEF GoodRecord
  <1>5. records' \in [Programs -> Record \cup {None}]
    <2>1. \A p \in Programs : records'[p] \in Record \cup {None}
      BY <1>0, <1>3, <1>4
    <2> QED
      BY <1>1, <2>1
  <1>6. ASSUME NEW q \in Requests, requests'[q] # None
        PROVE  /\ requests'[q] \in Request
               /\ SameRequest(requests[q], requests'[q])
               /\ requests'[q].program \in S =>
                    /\ requests'[q].phase \in InFlight => requests'[q].bound = "stale"
                    /\ requests'[q].phase \notin {"delivered", "verifying"}
               /\ requests'[q].kind # "playback" /\ requests'[q].phase \in InFlight
                  /\ requests'[q].signal = "open" => requests'[q].peer # peer
    <2> DEFINE a == after[q]
    <2>1. a # None /\ requests'[q] = a /\ ~(a.phase = "challenge" /\ a.peer = peer)
      BY <1>1, <1>6
    <2>2. /\ a \in Request /\ SameRequest(requests[q], a)
          /\ requests[q].program \in S /\ requests[q].phase \in InFlight => a.bound = "stale"
          /\ q \in A => a.signal = "aborted"
          /\ ~Revoked(requests[q], E)
      <3> HIDE DEF S, E, A
      <3> QED
        BY <1>0, <2>1, AfterFacts
    <2>3. /\ requests[q] # None /\ a.program = requests[q].program
          /\ a.phase = requests[q].phase /\ a.kind = requests[q].kind
          /\ a.peer = requests[q].peer
      BY <2>2 DEF SameRequest
    <2>4. ASSUME a.program \in S, a.phase \in {"delivered", "verifying"} PROVE FALSE
      <3>1. GoodRequest(requests[q], records[a.program], present)
        BY <1>0, <2>3 DEF Good
      <3>2. requests[q].epoch = records[a.program].machine.broadcast
        BY <2>3, <2>4, <3>1 DEF GoodRequest, TokenFits
      <3>3. <<requests[q].program, requests[q].epoch>> \in E
        BY <2>3, <2>4, <3>2 DEF StoppedEpochs
      <3> QED
        BY <2>2, <2>3, <2>4, <3>3 DEF Revoked
    <2>5. ASSUME a.kind # "playback", a.phase \in InFlight, a.signal = "open", a.peer = peer
          PROVE  FALSE
      <3>1. a.phase # "deciding"
        <4>1. GoodRequest(requests[q], records[requests[q].program], present)
          BY <1>0, <2>3 DEF Good
        <4> QED
          BY <4>1, <2>3, <2>5 DEF GoodRequest
      <3>2. a.phase \in {"reserved", "signing", "issued"}
        BY <2>1, <2>5, <3>1 DEF InFlight
      <3>3. Transacting(q)
        BY <2>3, <2>5, <3>2 DEF Transacting
      <3>4. requests[q].program \in Programs
        BY <1>0, <2>3, RequestType
      <3>5. q \in A
        BY <2>3, <2>5, <3>3, <3>4 DEF AbortedBy, TransactionsOf
      <3> QED
        BY <2>2, <2>5, <3>5
    <2> QED
      BY <2>1, <2>2, <2>3, <2>4, <2>5
  <1>s. S \in SUBSET Programs
    OBVIOUS
  <1> HIDE DEF S, E, A, after
  <1>7. requests' \in [Requests -> Request \cup {None}]
    <2>1. \A q \in Requests : requests'[q] \in Request \cup {None}
      BY <1>6
    <2> QED
      BY <1>1, <2>1
  <1>8. \A p \in Programs \ S : SameObject(records[p], records'[p])
    BY <1>4 DEF SameObject
  <1>9. /\ \A q \in Requests : requests'[q] # None =>
             GoodRequest(requests'[q], records'[requests'[q].program], present)
        /\ Taken(records', requests') \subseteq
             Taken(records, requests) \cup {p \in S : Active(records'[p])}
    <2>1. \A q \in Requests : requests'[q] # None =>
            /\ SameRequest(requests[q], requests'[q])
            /\ requests'[q].program \in S =>
                 /\ requests'[q].phase \in InFlight => requests'[q].bound = "stale"
                 /\ requests'[q].phase \in {"delivered", "verifying"} =>
                      KeepsTokens(records[requests'[q].program], records'[requests'[q].program])
      BY <1>6
    <2>2. \A p \in S : Succeeds(records[p], records'[p])
      BY <1>3
    <2> QED
      BY <1>0, <1>s, <1>5, <1>7, <1>8, <2>1, <2>2, Replaced
  <1>10. \A q \in Requests : requests'[q] # None =>
           GoodRequest(requests'[q], records'[requests'[q].program], here)
    BY <1>6, <1>9 DEF GoodRequest
  <1>11. \A p \in Programs : records'[p] # None => GoodRecord(records'[p], here)
    BY <1>3, <1>4
  <1>12. Taken(records', requests') \subseteq Taken(records, requests)
    BY <1>3, <1>9
  <1>13. Cardinality(Taken(records', requests')) <= Capacity
    BY <1>12, TakenShrinks DEF IInv, Inv
  <1>14. RuntimeState(records', requests', here, now)
    BY <1>0, <1>5, <1>7 DEF RuntimeState
  <1> QED
    BY <1>1, <1>10, <1>11, <1>13, <1>14 DEF Inv, Good

-----------------------------------------------------------------------------
(***************************************************************************)
(* The requests                                                            *)
(***************************************************************************)

\* A request that moves to another phase keeps its other fields.
LEMMA Moved ==
  ASSUME NEW rq \in Request, NEW phase \in Phases
  PROVE  LET a == [rq EXCEPT !.phase = phase]
         IN /\ a \in Request /\ a.phase = phase
            /\ a.kind = rq.kind /\ a.program = rq.program /\ a.peer = rq.peer
            /\ a.epoch = rq.epoch /\ a.resource = rq.resource /\ a.bound = rq.bound
            /\ a.signal = rq.signal
  BY DEF Request

\* A stored challenge: bound to the record it was opened for.
LEMMA OpenedFacts ==
  ASSUME IInv, NEW p \in Programs, records[p] # None, NEW peer \in Peers \cup {None},
         NEW kind \in {"whip:create", "whip:update", "playback"},
         NEW phase \in {"challenge", "deciding"}, phase = "deciding" => kind = "playback",
         NEW epoch \in Positive, kind # "playback" => peer \in present
  PROVE  LET a == Opened(kind, phase, p, peer, epoch, ChallengeUntil(p))
         IN /\ a \in Request /\ ~InTransaction(a) /\ a.program = p
            /\ BoundFits(a, records[p].machine) => GoodRequest(a, records[p], present)
            /\ a.kind = kind /\ a.epoch = epoch
  <1> DEFINE a == Opened(kind, phase, p, peer, epoch, ChallengeUntil(p))
  <1>1. /\ records[p].resource \in Positive /\ records[p].lifetime \in Nat /\ now \in Nat
        /\ ChallengeTtl \in Nat
    BY Typed, RecordType, RuntimeConstants
  <1>2. ChallengeUntil(p) \in Nat
    BY <1>1 DEF ChallengeUntil, Lesser
  <1>3. phase \in Phases /\ phase \in InFlight
    BY DEF Phases, InFlight
  <1>4. /\ a \in Request /\ a.kind = kind /\ a.phase = phase /\ a.program = p /\ a.peer = peer
        /\ a.epoch = epoch /\ a.resource = records[p].resource /\ a.signal = "open"
    BY <1>1, <1>2, <1>3 DEF Opened, Request
  <1> HIDE DEF a
  <1>5. a.resource <= records[p].resource
    BY <1>1, <1>4 DEF Positive
  <1>6. ~InTransaction(a)
    BY <1>4 DEF InTransaction
  <1>7. BoundFits(a, records[p].machine) => GoodRequest(a, records[p], present)
    BY <1>4, <1>5 DEF GoodRequest
  <1> QED
    BY <1>4, <1>6, <1>7 DEF a

LEMMA CreatePublisherChallengeInv ==
  ASSUME IInv, NEW q \in Requests, NEW p \in Programs, NEW peer \in Peers,
         NEW kind \in {"whip:create", "whip:update"}, CreatePublisherChallenge(q, p, peer, kind)
  PROVE  Inv(records', requests', present', now')
  <1> DEFINE m == records[p].machine
             epoch == IF kind = "whip:create" THEN m.broadcast + 1 ELSE m.broadcast
             a == Opened(kind, "challenge", p, peer, epoch, ChallengeUntil(p))
  <1>1. /\ records[p] # None /\ peer \in present
        /\ IF kind = "whip:create" THEN m.state = "draft"
           ELSE m.state \in {"preparing", "publishing", "live", "degraded"}
        /\ requests' = [requests EXCEPT ![q] = a]
        /\ records' = records /\ present' = present /\ now' = now
    BY DEF CreatePublisherChallenge
  <1>2. epoch \in Positive
    <2>1. m.broadcast \in Positive
      BY <1>1, Typed, RecordType DEF Machine
    <2> QED
      BY <2>1 DEF Positive
  <1>e. (kind = "whip:create" => epoch = m.broadcast + 1)
        /\ (kind # "whip:create" => epoch = m.broadcast)
    OBVIOUS
  <1> HIDE DEF epoch
  <1>3. /\ a \in Request /\ ~InTransaction(a) /\ a.program = p
        /\ BoundFits(a, m) => GoodRequest(a, records[p], present)
        /\ a.kind = kind /\ a.epoch = epoch
    BY <1>1, <1>2, OpenedFacts
  <1> HIDE DEF a
  <1>4. BoundFits(a, m)
    BY <1>1, <1>e, <1>3 DEF BoundFits, Inactive
  <1>5. Inv(records, [requests EXCEPT ![q] = a], present, now)
    BY <1>3, <1>4, OneRequest DEF IInv
  <1> QED
    BY <1>1, <1>5

LEMMA CreatePlaybackChallengeInv ==
  ASSUME IInv, NEW q \in Requests, NEW p \in Programs, CreatePlaybackChallenge(q, p)
  PROVE  Inv(records', requests', present', now')
  <1> DEFINE m == records[p].machine
             a == Opened("playback", "deciding", p, None, m.broadcast, ChallengeUntil(p))
  <1>1. /\ records[p] # None /\ m.state \in {"live", "degraded"}
        /\ requests' = [requests EXCEPT ![q] = a]
        /\ records' = records /\ present' = present /\ now' = now
    BY DEF CreatePlaybackChallenge
  <1>2. m.broadcast \in Positive
    BY <1>1, Typed, RecordType DEF Machine
  <1>3. /\ a \in Request /\ ~InTransaction(a) /\ a.program = p
        /\ BoundFits(a, m) => GoodRequest(a, records[p], present)
        /\ a.kind = "playback" /\ a.epoch = m.broadcast
    BY <1>1, <1>2, OpenedFacts
  <1> HIDE DEF a
  <1>4. BoundFits(a, m)
    BY <1>1, <1>3 DEF BoundFits
  <1>5. Inv(records, [requests EXCEPT ![q] = a], present, now)
    BY <1>3, <1>4, OneRequest DEF IInv
  <1> QED
    BY <1>1, <1>5

\* A request in flight moves on inside its transaction, or ends.
LEMMA InFlightMove ==
  ASSUME IInv, NEW q \in Requests, requests[q] # None, requests[q].phase \in InFlight,
         NEW phase \in Phases \ {"delivered", "verifying", "accepted", "deciding"},
         \/ requests[q].kind = "playback"
         \/ phase \notin {"reserved", "signing", "issued"}
         \/ requests[q].phase \in {"reserved", "signing", "issued"}
  PROVE  Inv(records, [requests EXCEPT ![q] = [requests[q] EXCEPT !.phase = phase]],
             present, now)
  <1> DEFINE rq == requests[q]
             a == [rq EXCEPT !.phase = phase]
  <1>1. rq \in Request /\ GoodRequest(rq, records[rq.program], present)
    BY Typed
  <1>2. /\ a \in Request /\ a.phase = phase
        /\ a.kind = rq.kind /\ a.program = rq.program /\ a.peer = rq.peer
        /\ a.epoch = rq.epoch /\ a.resource = rq.resource /\ a.bound = rq.bound
        /\ a.signal = rq.signal
    BY <1>1, Moved
  <1> HIDE DEF a
  <1>3. GoodRequest(a, records[a.program], present)
    BY <1>1, <1>2 DEF GoodRequest, BoundFits
  <1>4. InTransaction(a) => InTransaction(rq)
    BY <1>2 DEF InTransaction
  <1>5. Inv(records, [requests EXCEPT ![q] = a], present, now)
    BY <1>2, <1>3, <1>4, OneRequest DEF IInv
  <1> QED
    BY <1>5 DEF a

\* A request that ends leaves the rest as it is.
LEMMA RequestEnds ==
  ASSUME IInv, NEW q \in Requests
  PROVE  Inv(records, [requests EXCEPT ![q] = None], present, now)
  BY OneRequest DEF IInv

\* The only step that reserves a program, and it checks the capacity first.
LEMMA AuthorizePublisherInv ==
  ASSUME IInv, NEW q \in Requests, AuthorizePublisher(q)
  PROVE  Inv(records', requests', present', now')
  <1> DEFINE rq == requests[q]
             p == rq.program
             a == [rq EXCEPT !.phase = "reserved"]
  <1>1. /\ rq # None /\ rq.kind # "playback" /\ rq.phase = "challenge"
        /\ records' = records /\ present' = present /\ now' = now
    BY DEF AuthorizePublisher
  <1>2. \/ requests' = [requests EXCEPT ![q] = None]
        \/ CapacityAllows(p) /\ requests' = [requests EXCEPT ![q] = a]
    BY Typed DEF AuthorizePublisher
  <1>3. CASE requests' = [requests EXCEPT ![q] = None]
    BY <1>1, <1>3, RequestEnds
  <1>4. CASE CapacityAllows(p) /\ requests' = [requests EXCEPT ![q] = a]
    <2>0. "reserved" \in Phases
      BY DEF Phases, InFlight
    <2>1. rq \in Request /\ p \in Programs /\ GoodRequest(rq, records[p], present)
      BY <1>1, Typed, RequestType
    <2>2. /\ a \in Request /\ a.phase = "reserved"
          /\ a.kind = rq.kind /\ a.program = rq.program /\ a.peer = rq.peer
          /\ a.epoch = rq.epoch /\ a.resource = rq.resource /\ a.bound = rq.bound
          /\ a.signal = rq.signal
      BY <2>0, <2>1, Moved
    <2> HIDE DEF a
    <2>3. GoodRequest(a, records[a.program], present)
      BY <1>1, <2>1, <2>2 DEF GoodRequest, BoundFits, InFlight
    <2>4. requests' \in [Requests -> Request \cup {None}] /\ requests'[q] = a
          /\ \A x \in Requests : x # q => requests'[x] = requests[x]
      BY <1>4, <2>2, Typed
    <2>5. Good(records, requests', present)
      BY <2>3, <2>4, Typed DEF Good
    <2>6. Taken(records, requests') \subseteq Taken(records, requests) \cup {p}
      BY <2>2, <2>4 DEF Taken, InTransaction
    <2>7. Cardinality(Taken(records, requests')) <= Capacity
      BY <1>4, <2>1, <2>6, TakenGrows
    <2>8. RuntimeState(records, requests', present, now)
      BY <2>4 DEF IInv, Inv, RuntimeState
    <2> QED
      BY <1>1, <2>5, <2>7, <2>8 DEF Inv
  <1> QED
    BY <1>2, <1>3, <1>4

LEMMA TransactionMoves ==
  ASSUME IInv, NEW q \in Requests,
         \/ BeginIssue(q) \/ TransactionTimeout(q) \/ RejectTransaction(q) \/ LateIssue(q)
         \/ \E o \in Outcomes : SettleIssue(q, o)
  PROVE  Inv(records', requests', present', now')
  <1> DEFINE rq == requests[q]
  <1>0. records' = records /\ present' = present /\ now' = now /\ rq # None
    BY DEF BeginIssue, TransactionTimeout, RejectTransaction, LateIssue, SettleIssue, Transacting
  <1>p. "signing" \in Phases /\ "issued" \in Phases /\ "late" \in Phases
        /\ "signing" \in InFlight /\ "reserved" \in InFlight
    BY DEF Phases, InFlight
  <1>1. CASE BeginIssue(q)
    <2>1. requests' = [requests EXCEPT ![q] = [rq EXCEPT !.phase = "signing"]]
          /\ rq.phase = "reserved"
      BY <1>1, Typed DEF BeginIssue
    <2> QED
      BY <1>0, <1>p, <2>1, InFlightMove
  <1>2. CASE TransactionTimeout(q)
    <2> DEFINE a == [rq EXCEPT !.signal = "aborted"]
    <2>1. requests' = [requests EXCEPT ![q] = a]
      BY <1>2, Typed DEF TransactionTimeout
    <2>2. rq \in Request /\ GoodRequest(rq, records[rq.program], present)
      BY <1>0, Typed
    <2>3. /\ a \in Request /\ a.phase = rq.phase
          /\ a.kind = rq.kind /\ a.program = rq.program /\ a.peer = rq.peer
          /\ a.epoch = rq.epoch /\ a.resource = rq.resource /\ a.bound = rq.bound
          /\ a.signal = "aborted"
      BY <2>2 DEF Request
    <2> HIDE DEF a
    <2>4. GoodRequest(a, records[a.program], present)
      BY <2>2, <2>3 DEF GoodRequest, BoundFits, TokenFits
    <2>5. InTransaction(a) => InTransaction(rq)
      BY <1>0, <2>3 DEF InTransaction
    <2>6. Inv(records, [requests EXCEPT ![q] = a], present, now)
      BY <2>3, <2>4, <2>5, OneRequest DEF IInv
    <2> QED
      BY <1>0, <2>1, <2>6
  <1>3. CASE RejectTransaction(q)
    <2>1. \/ requests' = [requests EXCEPT ![q] = [rq EXCEPT !.phase = "late"]]
             /\ rq.phase = "signing"
          \/ requests' = [requests EXCEPT ![q] = None]
      BY <1>3, Typed DEF RejectTransaction
    <2> QED
      BY <1>0, <1>p, <2>1, InFlightMove, RequestEnds
  <1>4. CASE LateIssue(q)
    BY <1>0, <1>4, RequestEnds DEF LateIssue
  <1>5. CASE \E o \in Outcomes : SettleIssue(q, o)
    <2>1. \/ requests' = [requests EXCEPT ![q] = [rq EXCEPT !.phase = "issued"]]
             /\ rq.phase = "signing"
          \/ requests' = [requests EXCEPT ![q] = None]
      BY <1>5, Typed DEF SettleIssue
    <2> QED
      BY <1>0, <1>p, <2>1, InFlightMove, RequestEnds
  <1> QED
    BY <1>1, <1>2, <1>3, <1>4, <1>5

\* A token reaches its client.
LEMMA DeliveredFacts ==
  ASSUME NEW rq \in Request
  PROVE  LET a == Delivered(rq)
         IN /\ a \in Request /\ a.phase = "delivered"
            /\ a.kind = rq.kind /\ a.program = rq.program
            /\ a.epoch = rq.epoch /\ a.resource = rq.resource
  <1>1. "delivered" \in Phases
    BY DEF Phases
  <1> QED
    BY <1>1 DEF Delivered, Request

LEMMA PlaybackMoves ==
  ASSUME IInv, NEW q \in Requests,
         ViewerDecided(q) \/ AuthorizePlayback(q) \/ CommitPlayback(q) \/ GrantExpires(q)
  PROVE  Inv(records', requests', present', now')
  <1> DEFINE rq == requests[q]
  <1>0. records' = records /\ present' = present /\ now' = now /\ rq # None
    BY DEF ViewerDecided, AuthorizePlayback, CommitPlayback, GrantExpires
  <1>t. rq \in Request /\ GoodRequest(rq, records[rq.program], present)
    BY <1>0, Typed
  <1>p. "signing" \in Phases /\ "challenge" \in Phases /\ "deciding" \in InFlight
        /\ "challenge" \in InFlight /\ "issued" \in InFlight
    BY DEF Phases, InFlight
  <1>1. CASE ViewerDecided(q)
    <2>1. requests' = [requests EXCEPT ![q] = [rq EXCEPT !.phase = "challenge"]]
          /\ rq.phase = "deciding"
      BY <1>1, Typed DEF ViewerDecided
    <2> QED
      BY <1>0, <1>p, <2>1, InFlightMove
  <1>2. CASE AuthorizePlayback(q)
    <2>1. rq.kind = "playback" /\ rq.phase = "challenge"
      BY <1>2 DEF AuthorizePlayback
    <2>2. \/ requests' = [requests EXCEPT ![q] = [rq EXCEPT !.phase = "signing"]]
          \/ requests' = [requests EXCEPT ![q] = None]
      BY <1>2, Typed DEF AuthorizePlayback
    <2> QED
      BY <1>0, <1>p, <2>1, <2>2, InFlightMove, RequestEnds
  <1>3. CASE CommitPlayback(q)
    <2>1. rq.kind = "playback" /\ rq.phase = "issued"
      BY <1>3 DEF CommitPlayback
    <2>2. \/ requests' = [requests EXCEPT ![q] = Delivered(rq)] /\ StillCurrent(q)
          \/ requests' = [requests EXCEPT ![q] = None]
      BY <1>3, Typed DEF CommitPlayback
    <2>3. CASE requests' = [requests EXCEPT ![q] = Delivered(rq)] /\ StillCurrent(q)
      <3> DEFINE a == Delivered(rq)
      <3>1. /\ a \in Request /\ a.phase = "delivered" /\ a.kind = rq.kind
            /\ a.program = rq.program /\ a.epoch = rq.epoch /\ a.resource = rq.resource
        BY <1>t, DeliveredFacts
      <3> HIDE DEF a
      <3>2. BoundFits(rq, records[rq.program].machine)
        BY <1>t, <1>p, <2>1, <2>3 DEF StillCurrent, GoodRequest
      <3>3. TokenFits(a, records[rq.program].machine)
        BY <2>1, <3>1, <3>2 DEF BoundFits, TokenFits, Inactive
      <3>4. GoodRequest(a, records[a.program], present) /\ ~InTransaction(a)
        BY <1>t, <2>1, <3>1, <3>3 DEF GoodRequest, InFlight, InTransaction
      <3>5. Inv(records, [requests EXCEPT ![q] = a], present, now)
        BY <3>1, <3>4, OneRequest DEF IInv
      <3> QED
        BY <1>0, <2>3, <3>5 DEF a
    <2> QED
      BY <1>0, <2>2, <2>3, RequestEnds
  <1>4. CASE GrantExpires(q)
    BY <1>0, <1>4, RequestEnds DEF GrantExpires
  <1> QED
    BY <1>1, <1>2, <1>3, <1>4

LEMMA GatewayMoves ==
  ASSUME IInv, NEW q \in Requests, GatewayBegin(q) \/ \E o \in Outcomes : GatewaySettle(q, o)
  PROVE  Inv(records', requests', present', now')
  <1> DEFINE rq == requests[q]
  <1>0. records' = records /\ present' = present /\ now' = now /\ rq # None
    BY DEF GatewayBegin, GatewaySettle
  <1>t. rq \in Request /\ GoodRequest(rq, records[rq.program], present) /\ now \in Nat
    BY <1>0, Typed
  <1>p. "verifying" \in Phases /\ "accepted" \in Phases
        /\ "verifying" \notin InFlight /\ "accepted" \notin InFlight
    BY DEF Phases, InFlight
  <1>1. CASE GatewayBegin(q)
    <2> DEFINE a == [rq EXCEPT !.phase = "verifying", !.at = now]
    <2>1. requests' = [requests EXCEPT ![q] = a]
          /\ rq.phase = "delivered" /\ rq.kind = "whip:create"
      BY <1>1, Typed DEF GatewayBegin
    <2>2. /\ a \in Request /\ a.phase = "verifying" /\ a.kind = rq.kind
          /\ a.program = rq.program /\ a.epoch = rq.epoch /\ a.resource = rq.resource
      BY <1>t, <1>p DEF Request
    <2> HIDE DEF a
    <2>3. GoodRequest(a, records[a.program], present) /\ ~InTransaction(a)
      BY <1>t, <1>p, <2>1, <2>2 DEF GoodRequest, TokenFits, InTransaction
    <2>4. Inv(records, [requests EXCEPT ![q] = a], present, now)
      BY <2>2, <2>3, OneRequest DEF IInv
    <2> QED
      BY <1>0, <2>1, <2>4
  <1>2. CASE \E o \in Outcomes : GatewaySettle(q, o)
    <2> DEFINE a == [rq EXCEPT !.phase = "accepted"]
    <2>1. rq.phase = "verifying"
          /\ (requests' = [requests EXCEPT ![q] = a] \/ requests' = [requests EXCEPT ![q] = None])
      BY <1>2, Typed DEF GatewaySettle
    <2>2. /\ a \in Request /\ a.phase = "accepted"
          /\ a.kind = rq.kind /\ a.program = rq.program /\ a.resource = rq.resource
      BY <1>t, <1>p, Moved
    <2> HIDE DEF a
    <2>3. GoodRequest(a, records[a.program], present) /\ ~InTransaction(a)
      BY <1>t, <1>p, <2>1, <2>2 DEF GoodRequest, InTransaction
    <2>4. Inv(records, [requests EXCEPT ![q] = a], present, now)
      BY <2>2, <2>3, OneRequest DEF IInv
    <2> QED
      BY <1>0, <2>1, <2>4, RequestEnds
  <1> QED
    BY <1>1, <1>2

\* #publisherTransaction's commit: the record the transaction started from is
\* still the current one, so the token is good and its peer is present.
LEMMA CommitPublisherInv ==
  ASSUME IInv, NEW q \in Requests, NEW sources \in WhipSources, CommitPublisher(q, sources)
  PROVE  Inv(records', requests', present', now')
  <1> DEFINE rq == requests[q]
             p == rq.program
             r == records[p]
             m == IF rq.kind = "whip:create" THEN Started(r.machine, sources) ELSE r.machine
             next == IF rq.kind = "whip:create" THEN Synchronized(r, m, now) ELSE r
             n == [next EXCEPT !.publisher = rq.peer]
             E == RolledEpochs(p, m)
             ok == StillCurrent(q) /\ CapacityAllows(p)
                   /\ (rq.kind = "whip:create" => SynchronizeOK(p, m))
  <1>0. rq # None /\ rq.kind # "playback" /\ rq.phase = "issued"
        /\ present' = present /\ now' = now
    BY DEF CommitPublisher, Transacting
  <1>1. CASE ~ok
    <2>1. requests' = [requests EXCEPT ![q] = None] /\ records' = records
      BY <1>1 DEF CommitPublisher
    <2> QED
      BY <1>0, <2>1, RequestEnds
  <1>2. CASE ok
    <2>w. /\ records' = [records EXCEPT ![p] = n]
          /\ requests' = [After({p}, E, {}) EXCEPT ![q] = Delivered(rq)]
      BY <1>2 DEF CommitPublisher
    <2>1. rq \in Request /\ p \in Programs /\ GoodRequest(rq, r, present)
      BY <1>0, Typed, RequestType
    <2>2. r # None /\ r \in Record /\ GoodRecord(r, present) /\ r.machine \in Machine
      <3>1. r # None
        BY <2>1 DEF GoodRequest
      <3> QED
        BY <2>1, <3>1, Typed, RecordType
    <2>3. BoundFits(rq, r.machine) /\ rq.peer \in present /\ rq.resource <= r.resource
      BY <1>0, <1>2, <2>1 DEF GoodRequest, StillCurrent, InFlight
    <2>4. rq.kind \in {"whip:create", "whip:update"}
      BY <1>0, <2>1 DEF Request
    <2>5. /\ m \in Machine /\ m.state \in States /\ m.state \notin Inactive /\ rq.epoch = m.broadcast
          /\ <<p, r.machine.broadcast>> \in E \/ m = r.machine
          /\ rq.kind = "whip:create" => m.state = "preparing" /\ r.handoff = None
      <3>1. CASE rq.kind = "whip:create"
        <4>1. r.machine.state = "draft" /\ rq.epoch = r.machine.broadcast + 1
          BY <2>3, <3>1 DEF BoundFits
        <4>2. r.machine.sourceIds = <<>> /\ r.handoff = None
          BY <2>2, <4>1 DEF GoodRecord
        <4>3. sources \in Seq(Sources) /\ sources # <<>>
          <5>1. PICK s \in Sources : sources = <<s>>
            BY DEF WhipSources
          <5>2. <<s>> \in Seq(Sources)
            OBVIOUS
          <5>3. Len(<<s>>) = 1 /\ Len(<<>>) = 0
            OBVIOUS
          <5> QED
            BY <5>1, <5>2, <5>3
        <4>4. /\ m \in Machine /\ m.state = "preparing"
              /\ m.broadcast = r.machine.broadcast + 1
          BY <2>2, <3>1, <4>1, <4>2, <4>3, StartedFacts
        <4>5. r.machine.broadcast \in Nat
          BY <2>2 DEF Machine, Positive
        <4>6. "preparing" \in States /\ "preparing" \notin Inactive
          BY DEF States, Inactive
        <4> HIDE DEF m
        <4>7. <<p, r.machine.broadcast>> \in E
          BY <4>4, <4>5 DEF RolledEpochs
        <4> QED
          BY <4>1, <4>2, <4>4, <4>6, <4>7
      <3>2. CASE rq.kind = "whip:update"
        <4>1. m = r.machine
          BY <3>2
        <4>2. m.state \notin Inactive /\ rq.epoch = m.broadcast
          BY <2>3, <3>2, <4>1 DEF BoundFits
        <4>3. m.state \in States
          BY <2>2, <4>1 DEF GoodRecord
        <4> QED
          BY <2>2, <3>2, <4>1, <4>2, <4>3
      <3> QED
        BY <2>4, <3>1, <3>2
    <2>6. /\ next \in Record /\ next.machine = m /\ next.handoff = r.handoff
          /\ next.resource = r.resource /\ next.lifetime > 0
          /\ next.standby # 0 => next.standby = m.broadcast /\ m.state \in {"live", "degraded"}
      <3> HIDE DEF m
      <3>1. CASE rq.kind = "whip:create"
        <4>1. next = Synchronized(r, m, now)
          BY <3>1
        <4>2. now \in Nat
          BY Typed
        <4>3. m \in Machine /\ m.state \notin Inactive
          BY <2>5
        <4> HIDE DEF next, r
        <4>4. LET k == Synchronized(r, m, now)
              IN /\ k \in Record /\ k.machine = m /\ k.handoff = r.handoff
                 /\ k.resource = r.resource
                 /\ m.state \notin Inactive => k.lifetime > 0
                 /\ k.standby # 0 => k.standby = m.broadcast /\ m.state \in {"live", "degraded"}
          BY <2>2, <4>2, <4>3, SynchronizedFacts
        <4> QED
          BY <4>1, <4>3, <4>4
      <3>2. CASE rq.kind # "whip:create"
        <4>1. next = r /\ m = r.machine
          BY <3>2 DEF m
        <4>2. Active(r)
          BY <2>2, <2>5, <4>1 DEF Active
        <4> QED
          BY <2>2, <4>1, <4>2 DEF GoodRecord
      <3> QED
        BY <3>1, <3>2
    <2>7. Room(m, CleanupReserve)
      <3>1. CASE rq.kind = "whip:create"
        BY <1>2, <2>5, <3>1 DEF SynchronizeOK, CleanupRoom
      <3>2. CASE rq.kind # "whip:create"
        <4>1. m = r.machine /\ Active(r)
          BY <2>2, <2>5, <3>2 DEF Active
        <4> QED
          BY <2>2, <4>1 DEF GoodRecord
      <3> QED
        BY <3>1, <3>2
    <2>8. r.handoff # None => m = r.machine
      BY <2>4, <2>5
    <2> HIDE DEF m, next
    <2>9. /\ n \in Record /\ n.machine = m /\ n.handoff = r.handoff /\ n.resource = r.resource
          /\ n.lifetime = next.lifetime /\ n.standby = next.standby /\ n.publisher = rq.peer
      BY <2>1, <2>6 DEF Record, Request
    <2> HIDE DEF n
    <2>10. n # None /\ Active(n)
      BY <2>5, <2>9, NoneAssumption DEF Active
    <2>11. GoodRecord(n, present)
      <3>1. m.state # "draft"
        BY <2>5 DEF Inactive
      <3>2. r.handoff # None =>
              /\ r.machine.state = "preparing" /\ r.machine.writerLeases = {}
              /\ r.machine.broadcast = r.handoff.epoch /\ Room(r.machine, 5 + CleanupReserve)
        BY <2>2 DEF GoodRecord
      <3> QED
        BY <2>3, <2>5, <2>6, <2>7, <2>8, <2>9, <2>10, <3>1, <3>2 DEF GoodRecord
    <2>12. Succeeds(r, n)
      <3>1. r.resource \in Nat
        BY <2>2 DEF Record, Positive
      <3> QED
        BY <2>2, <2>9, <2>10, <3>1 DEF Succeeds
    <2>13. <<p, r.machine.broadcast>> \in E \/ KeepsTokens(r, n)
      BY <2>5, <2>9 DEF KeepsTokens
    <2>14. CapacityAllows(p)
      BY <1>2
    <2> HIDE DEF E
    <2>15. Inv([records EXCEPT ![p] = n], After({p}, E, {}), present, now)
      BY <2>1, <2>2, <2>9, <2>11, <2>12, <2>13, <2>14, OneRecord
    <2> DEFINE a == Delivered(rq)
    <2>16. /\ a \in Request /\ a.phase = "delivered" /\ a.kind = rq.kind
           /\ a.program = p /\ a.epoch = rq.epoch /\ a.resource = rq.resource
      BY <2>1, DeliveredFacts
    <2> HIDE DEF a
    <2>17. TokenFits(a, n.machine)
      BY <1>0, <2>5, <2>9, <2>16 DEF TokenFits
    <2>18. GoodRequest(a, n, present) /\ ~InTransaction(a)
      BY <2>3, <2>5, <2>9, <2>10, <2>16, <2>17 DEF GoodRequest, InFlight, InTransaction
    <2>19. [records EXCEPT ![p] = n][a.program] = n
      BY <2>1, <2>16, Typed
    <2>20. Inv([records EXCEPT ![p] = n], [After({p}, E, {}) EXCEPT ![q] = a], present, now)
      BY <2>15, <2>16, <2>18, <2>19, OneRequest
    <2> QED
      BY <1>0, <2>w, <2>20 DEF a
  <1> QED
    BY <1>1, <1>2

\* markPublished prunes at the time its caller read, then brings the program
\* on the air: a preparing record of the resource the token names has no
\* pending handoff, because a handoff moves to the next resource.
LEMMA MarkPublishedInv ==
  ASSUME IInv, NEW q \in Requests, MarkPublished(q)
  PROVE  Inv(records', requests', present', now')
  <1> DEFINE rq == requests[q]
             p == rq.program
             t == rq.at
             S == {x \in Programs : RunOut(records[x], t)}
             pruned == PrunedRecords(t)
             left == PrunedRequests(t)
             r == pruned[p]
             m == WhipLive(r.machine, Lesser(t + LeaseTime, r.lifetime))
             n == Synchronized(r, m, t)
             ok == /\ Publishable(r, rq) /\ Room(r.machine, 5) /\ FreshWriters(m, t)
                   /\ SynchronizeOK(p, m)
  <1>0. rq # None /\ rq.phase = "accepted" /\ present' = present /\ now' = now
    BY DEF MarkPublished
  <1>1. rq \in Request /\ p \in Programs /\ t \in Nat /\ rq.resource \in Positive
        /\ GoodRequest(rq, records[p], present)
    BY <1>0, Typed, RequestType
  <1>w. /\ records' = IF ok THEN [pruned EXCEPT ![p] = n] ELSE pruned
        /\ requests' = [x \in Requests |->
             LET after == left[x]
             IN IF x = q THEN None
                ELSE IF after # None /\ after.program = p /\ records'[p] # pruned[p]
                        /\ after.phase \in InFlight
                THEN [after EXCEPT !.bound = "stale"] ELSE after]
    BY DEF MarkPublished
  <1>s. S \in SUBSET Programs
    OBVIOUS
  <1>2. /\ pruned \in [Programs -> Record \cup {None}]
        /\ left \in [Requests -> Request \cup {None}]
        /\ \A x \in Programs \ S : SameObject(records[x], pruned[x])
        /\ \A x \in S : Succeeds(records[x], pruned[x]) /\ ~Active(pruned[x])
        /\ \A x \in Programs : pruned[x] # None => GoodRecord(pruned[x], present)
        /\ \A x \in Requests : left[x] # None =>
             /\ SameRequest(requests[x], left[x])
             /\ left[x].program \in S =>
                  /\ left[x].phase \in InFlight => left[x].bound = "stale"
                  /\ left[x].phase \notin {"delivered", "verifying"}
    BY <1>1, PrunedFacts
  <1> HIDE DEF S, pruned, left
  <1>3. ASSUME NEW x \in Requests, requests'[x] # None
        PROVE  /\ requests'[x] \in Request /\ left[x] # None
               /\ SameRequest(requests[x], requests'[x])
               /\ requests'[x].program = left[x].program /\ requests'[x].phase = left[x].phase
               /\ requests'[x].bound = left[x].bound \/ requests'[x].bound = "stale"
               /\ requests'[x].program = p /\ requests'[x].phase \in InFlight
                  /\ records'[p] # pruned[p] => requests'[x].bound = "stale"
    <2> DEFINE after == left[x]
               b == [after EXCEPT !.bound = "stale"]
    <2>1. /\ requests'[x] = b \/ requests'[x] = after
          /\ after # None
          /\ after.program = p /\ records'[p] # pruned[p] /\ after.phase \in InFlight =>
               requests'[x] = b
      BY <1>w, <1>3, <1>2, NoneAssumption
    <2>2. after \in Request /\ SameRequest(requests[x], after)
      BY <1>2, <2>1
    <2>3. /\ b \in Request /\ b.bound = "stale" /\ b.program = after.program
          /\ b.phase = after.phase /\ b.kind = after.kind /\ b.peer = after.peer
          /\ b.epoch = after.epoch /\ b.resource = after.resource /\ b.signal = after.signal
      BY <2>2 DEF Request
    <2> HIDE DEF after, b
    <2>4. SameRequest(requests[x], b)
      BY <2>2, <2>3 DEF SameRequest
    <2> QED
      BY <2>1, <2>2, <2>3, <2>4 DEF after
  <1>4. requests' \in [Requests -> Request \cup {None}]
    <2>1. \A x \in Requests : requests'[x] \in Request \cup {None}
      BY <1>3
    <2> QED
      BY <1>w, <2>1
  <1>5. CASE ~ok
    <2>1. records' = pruned
      BY <1>5, <1>w
    <2>2. \A x \in Requests : requests'[x] # None =>
            /\ SameRequest(requests[x], requests'[x])
            /\ requests'[x].program \in S =>
                 /\ requests'[x].phase \in InFlight => requests'[x].bound = "stale"
                 /\ requests'[x].phase \notin {"delivered", "verifying"}
      BY <1>2, <1>3
    <2>3. Inv(records', requests', present, now)
      BY <1>s, <1>2, <1>4, <2>1, <2>2, ReplacedInv
    <2> QED
      BY <1>0, <2>3
  <1>6. CASE ok
    <2>1. r.resource = rq.resource /\ r.machine.state = "preparing"
      BY <1>6 DEF Publishable
    <2>2. records[p] # None /\ r # None
      <3>1. records[p] # None
        BY <1>1 DEF GoodRequest
      <3> QED
        BY <1>1, <1>2, <3>1 DEF SameObject, Succeeds
    <2>3. r \in Record /\ GoodRecord(r, present) /\ r.machine \in Machine
          /\ r.lifetime \in Nat /\ r.resource \in Nat
      BY <1>1, <1>2, <2>2, RecordType DEF Positive
    <2>4. Active(r)
      BY <2>1, <2>2 DEF Active, Inactive
    <2>5. p \notin S
      BY <1>2, <2>4
    <2>6. /\ records[p].machine = r.machine /\ records[p].resource = r.resource
          /\ records[p].handoff = r.handoff
      BY <1>1, <1>2, <2>2, <2>5 DEF SameObject
    <2>7. r.handoff = None
      <3>1. rq.kind = "whip:create"
        BY <1>0, <1>1 DEF GoodRequest
      <3>2. records[p].handoff = None \/ rq.resource < records[p].resource
        BY <1>0, <1>1, <3>1 DEF GoodRequest
      <3> QED
        BY <2>1, <2>3, <2>6, <3>2
    <2>8. /\ m \in Machine /\ m.state = "live" /\ m.broadcast = r.machine.broadcast
      <3> DEFINE until == Lesser(t + LeaseTime, r.lifetime)
      <3>1. until \in Nat
        BY <1>1, <2>3, RuntimeConstants DEF Lesser
      <3> HIDE DEF until
      <3>2. m = WhipLive(r.machine, until)
        BY DEF until
      <3> HIDE DEF m, r
      <3> QED
        BY <2>3, <3>1, <3>2, WhipLiveFacts
    <2>9. "live" \notin Inactive /\ "live" \in States
      BY DEF Inactive, States
    <2>10. Room(m, CleanupReserve)
      BY <1>6, <2>8, <2>9 DEF SynchronizeOK, CleanupRoom
    <2>v. records' = [pruned EXCEPT ![p] = n]
      BY <1>6, <1>w
    <2> HIDE DEF m, r
    <2>11. /\ n \in Record /\ n.machine = m /\ n.handoff = r.handoff
           /\ n.publisher = r.publisher /\ n.resource = r.resource
           /\ m.state \notin Inactive => n.lifetime > 0
           /\ n.standby # 0 => n.standby = m.broadcast /\ m.state \in {"live", "degraded"}
      BY <1>1, <2>3, <2>8, SynchronizedFacts
    <2> HIDE DEF n
    <2>12. n # None /\ Active(n)
      BY <2>8, <2>9, <2>11, NoneAssumption DEF Active
    <2>13. GoodRecord(n, present)
      <3>1. r.publisher \in present
        BY <2>3, <2>4 DEF GoodRecord
      <3> QED
        BY <2>7, <2>8, <2>9, <2>10, <2>11, <2>12, <3>1 DEF GoodRecord
    <2>14. Succeeds(records[p], n) /\ KeepsTokens(records[p], n)
      <3>1. Succeeds(records[p], n)
        BY <2>2, <2>3, <2>6, <2>7, <2>11, <2>12 DEF Succeeds
      <3>2. KeepsTokens(records[p], n)
        BY <2>6, <2>8, <2>9, <2>11 DEF KeepsTokens
      <3> QED
        BY <3>1, <3>2
    <2>15. n # r
      BY <2>1, <2>8, <2>11
    <2>16. /\ records' \in [Programs -> Record \cup {None}] /\ records'[p] = n
           /\ \A x \in Programs : x # p => records'[x] = pruned[x]
      BY <1>1, <1>2, <2>v, <2>11
    <2>17. records'[p] # pruned[p]
      BY <2>15, <2>16 DEF r
    <2> DEFINE T == S \cup {p}
    <2>18. /\ T \in SUBSET Programs
           /\ \A x \in T : x = p \/ (x \in S /\ x # p)
           /\ \A x \in Programs \ T : x \notin S /\ x # p
      BY <1>1, <1>s, <2>5
    <2> HIDE DEF T
    <2>19. /\ \A x \in Programs \ T : SameObject(records[x], records'[x])
           /\ \A x \in T : Succeeds(records[x], records'[x])
      BY <1>2, <1>s, <2>14, <2>16, <2>18
    <2>20. \A x \in Programs : records'[x] # None => GoodRecord(records'[x], present)
      BY <1>2, <2>13, <2>16
    <2>21. \A x \in T : Active(records'[x]) => Active(records[x])
      <3>1. Active(records[p])
        BY <2>2, <2>4, <2>6 DEF Active
      <3> QED
        BY <1>2, <1>s, <2>16, <2>18, <3>1
    <2>22. ASSUME NEW x \in Requests, requests'[x] # None
           PROVE  /\ SameRequest(requests[x], requests'[x])
                  /\ requests'[x].program \in T =>
                       /\ requests'[x].phase \in InFlight => requests'[x].bound = "stale"
                       /\ requests'[x].phase \in {"delivered", "verifying"} =>
                            KeepsTokens(records[requests'[x].program],
                                        records'[requests'[x].program])
      <3>1. CASE requests'[x].program = p
        BY <1>3, <2>14, <2>16, <2>17, <2>22, <3>1
      <3>2. CASE requests'[x].program # p
        BY <1>2, <1>3, <2>18, <2>22, <3>2
      <3> QED
        BY <3>1, <3>2
    <2>23. Inv(records', requests', present, now)
      BY <1>4, <2>16, <2>18, <2>19, <2>20, <2>21, <2>22, ReplacedInv
    <2> QED
      BY <1>0, <2>23
  <1> QED
    BY <1>5, <1>6

-----------------------------------------------------------------------------
(***************************************************************************)
(* Native publishing                                                       *)
(***************************************************************************)

\* #installNativeWriter: the pending handoff is over, its peer publishes.
LEMMA InstallInv ==
  ASSUME IInv, NEW p \in Programs, records[p] # None, NEW m \in Machine,
         m.state = "preparing", NEW packager \in Holders, NEW peer \in present,
         InstallNativeWriter(p, records[p], m, packager, peer),
         m.broadcast = records[p].machine.broadcast =>
           records[p].machine.state \notin {"live", "degraded"}
  PROVE  Inv(records', requests', present', now')
  <1> DEFINE r == records[p]
             deadline == IF r.lifetime = 0 THEN now + Runtime ELSE r.lifetime
             until == Lesser(now + LeaseTime, deadline)
             k == [r EXCEPT !.handoff = None, !.publisher = peer, !.lifetime = deadline]
             n == WithWriter(m, "packager-writer", packager, until)
  <1>1. r \in Record /\ r.lifetime \in Nat /\ r.resource \in Nat
    BY Typed, RecordType DEF Positive
  <1>2. deadline \in Nat /\ until \in Nat
    <2>1. deadline \in Nat
      BY <1>1, Typed, RuntimeConstants
    <2> HIDE DEF deadline
    <2> QED
      BY <2>1, Typed, RuntimeConstants DEF Lesser
  <1>3. SynchronizeRecord(p, k, n)
    BY DEF InstallNativeWriter
  <1> HIDE DEF deadline, until
  <1>p. peer \in Peers
    BY Typed
  <1>4. k \in Record /\ k.handoff = None /\ k.publisher = peer /\ k.resource = r.resource
    BY <1>1, <1>2, <1>p DEF Record
  <1>5. "packager-writer" \in Roles /\ "preparing" \in States /\ "preparing" \notin Inactive
    BY DEF Roles, States, Inactive
  <1>6. n \in Machine /\ n.state = "preparing" /\ n.broadcast = m.broadcast
    BY <1>2, <1>5, WithWriterFacts DEF SameProgram
  <1> HIDE DEF n, k
  <1>7. k # None
    BY <1>4, NoneAssumption
  <1>8. Succeeds(r, k)
    BY <1>1, <1>4, <1>7 DEF Succeeds
  <1> QED
    BY <1>3, <1>4, <1>5, <1>6, <1>8, SynchronizeInv

LEMMA PrepareNativeInv ==
  ASSUME IInv, NEW p \in Programs, NEW peer \in Peers, NEW packager \in Packagers,
         PrepareNative(p, peer, packager)
  PROVE  Inv(records', requests', present', now')
  <1> DEFINE r == records[p]
  <1>1. PICK sources \in WhipSources \cup {<<>>} :
          InstallNativeWriter(p, r, Started(r.machine, sources), packager, peer)
    BY DEF PrepareNative
  <1>2. r # None /\ r.machine.state = "draft" /\ peer \in present
    BY DEF PrepareNative
  <1>3. r.machine \in Machine
    BY <1>2, Typed, RecordType
  <1>4. sources \in Seq(Sources)
    <2>1. CASE sources \in WhipSources
      <3>1. PICK s \in Sources : sources = <<s>>
        BY <2>1 DEF WhipSources
      <3>2. <<s>> \in Seq(Sources)
        OBVIOUS
      <3> QED
        BY <3>1, <3>2
    <2>2. CASE sources = <<>>
      BY <2>2
    <2> QED
      BY <2>1, <2>2
  <1> DEFINE m == Started(r.machine, sources)
  <1>5. m \in Machine /\ m.state = "preparing"
    BY <1>2, <1>3, <1>4, StartedFacts
  <1>6. packager \in Holders
    BY DEF Packagers
  <1> HIDE DEF m
  <1>7. InstallNativeWriter(p, r, m, packager, peer)
    BY <1>1 DEF m
  <1> QED
    BY <1>2, <1>5, <1>6, <1>7, InstallInv

LEMMA CompleteNativeHandoffInv ==
  ASSUME IInv, NEW p \in Programs, CompleteNativeHandoff(p)
  PROVE  Inv(records', requests', present', now')
  <1> DEFINE r == records[p]
  <1>1. /\ r # None /\ r.handoff # None /\ r.handoff.peer \in present
        /\ r.machine.state = "preparing"
        /\ InstallNativeWriter(p, r, r.machine, r.handoff.packager, r.handoff.peer)
    BY DEF CompleteNativeHandoff, NativeOwned
  <1>2. r \in Record /\ r.machine \in Machine
    BY <1>1, Typed, RecordType
  <1>3. r.handoff \in PendingHandoff
    BY <1>1, <1>2 DEF Record
  <1>4. r.handoff.packager \in Holders
    BY <1>3 DEF PendingHandoff
  <1> QED
    BY <1>1, <1>2, <1>4, InstallInv

\* beginNativeHandoff: the next generation has no writer, the next resource
\* no token, and the ledger has room for the rest of the handoff.
LEMMA BeginNativeHandoffInv ==
  ASSUME IInv, NEW p \in Programs, NEW peer \in Peers, NEW packager \in Packagers,
         BeginNativeHandoff(p, peer, packager)
  PROVE  Inv(records', requests', present', now')
  <1> DEFINE r == records[p]
             m == r.machine
             n == Step(m, OutputRestart(m))
             until == Lesser(now + HandoffTime, r.lifetime)
             pending == [packager |-> packager, peer |-> peer, epoch |-> n.broadcast,
                         expiresAt |-> until]
             k == [r EXCEPT !.resource = r.resource + 1, !.handoff = pending]
  <1>1. /\ r # None /\ peer \in present /\ r.publisher = peer
        /\ Room(m, HandoffReserve)
    BY DEF BeginNativeHandoff, NativeOwned, CurrentRecord
  <1>2. r \in Record /\ m \in Machine /\ r.lifetime \in Nat /\ r.resource \in Positive
    BY <1>1, Typed, RecordType
  <1>3. until \in Nat
    BY <1>2, Typed, RuntimeConstants DEF Lesser
  <1>4. SynchronizeRecord(p, k, n)
    <2>1. k = [r EXCEPT !.resource = @ + 1,
                        !.handoff = [packager |-> packager, peer |-> peer, epoch |-> n.broadcast,
                                     expiresAt |-> until]]
      BY <1>2 DEF Record
    <2> QED
      BY <2>1 DEF BeginNativeHandoff
  <1>5. /\ n \in Machine /\ n.state = "preparing" /\ n.broadcast = m.broadcast + 1
        /\ n.writerLeases = {} /\ Applied(n) = Applied(m) + 1
    BY <1>2, RestartFacts
  <1> HIDE DEF n, until
  <1>6. n.broadcast \in Positive /\ m.broadcast \in Positive
    BY <1>2, <1>5 DEF Machine
  <1>7. pending \in PendingHandoff /\ pending.epoch = n.broadcast
    BY <1>3, <1>6 DEF PendingHandoff, Packagers
  <1>8. r.resource + 1 \in Positive /\ r.resource + 1 > r.resource
    BY <1>2 DEF Positive
  <1> HIDE DEF pending
  <1>9. /\ k \in Record /\ k.handoff = pending /\ k.resource = r.resource + 1
        /\ k.publisher = r.publisher
    BY <1>2, <1>7, <1>8 DEF Record
  <1>10. Room(n, 5 + CleanupReserve)
    <2>1. Applied(m) \in Nat /\ MaxRecords \in Nat
      BY <1>2, AppliedType, MaxRecordsAssumption
    <2> QED
      BY <1>1, <1>5, <2>1 DEF Room, Applied, HandoffReserve, CleanupReserve
  <1> HIDE DEF k
  <1>11. k # None /\ k.resource >= r.resource
    <2>1. r.resource \in Nat
      BY <1>2 DEF Positive
    <2> QED
      BY <1>8, <1>9, <2>1, NoneAssumption
  <1>12. Succeeds(r, k)
    BY <1>1, <1>8, <1>9, <1>11 DEF Succeeds
  <1>13. "preparing" \in States
    BY DEF States
  <1>14. n.broadcast # m.broadcast
    BY <1>5, <1>6 DEF Positive
  <1> QED
    BY <1>1, <1>4, <1>5, <1>7, <1>9, <1>10, <1>12, <1>13, <1>14, SynchronizeInv

LEMMA CancelNativeHandoffInv ==
  ASSUME IInv, NEW p \in Programs, CancelNativeHandoff(p)
  PROVE  Inv(records', requests', present', now')
  <1>1. /\ records[p] # None /\ present' = present /\ now' = now
        /\ records' = [records EXCEPT ![p] = StoppedRecord(records[p], "HANDOFF_FAILED")]
        /\ requests' = After({p}, StoppedEpochs({p}), TransactionsOf({p}))
    BY DEF CancelNativeHandoff
  <1>2. "HANDOFF_FAILED" \in Reasons
    BY DEF Reasons
  <1> QED
    BY <1>1, <1>2, StopOne

\* A program with a native writer has no pending handoff: the restart of a
\* handoff fenced every writer.
LEMMA NativeOutput ==
  ASSUME IInv, NEW p \in Programs, records[p] # None, NativeWriters(p) # {}
  PROVE  records[p].handoff = None
  <1>1. records[p].machine.writerLeases # {}
    BY DEF NativeWriters, Writers
  <1>2. GoodRecord(records[p], present)
    BY Typed
  <1> QED
    BY <1>1, <1>2 DEF GoodRecord

\* A report of the current native output keeps the generation and the record.
LEMMA OutputStep ==
  ASSUME IInv, NEW p \in Programs, CurrentNativeOutput(p), NEW m \in Machine,
         m.state \in States, m.state # "draft",
         m.broadcast = records[p].machine.broadcast,
         records[p].machine.state \notin Inactive, m.state \notin Inactive,
         records[p].machine.state \in {"live", "degraded"} => m.state \in {"live", "degraded"},
         SynchronizeRecord(p, records[p], m)
  PROVE  Inv(records', requests', present', now')
  <1> DEFINE r == records[p]
  <1>1. r # None /\ NativeWriters(p) # {}
    BY DEF CurrentNativeOutput, CurrentRecord
  <1>2. r.handoff = None
    BY <1>1, NativeOutput
  <1>3. r \in Record /\ GoodRecord(r, present) /\ r.resource \in Nat
    BY <1>1, Typed, RecordType DEF Positive
  <1>4. Active(r)
    BY <1>1 DEF Active
  <1>5. r.publisher \in present
    BY <1>3, <1>4 DEF GoodRecord
  <1>6. Succeeds(r, r)
    BY <1>1, <1>2, <1>3 DEF Succeeds
  <1> QED
    BY <1>1, <1>2, <1>3, <1>5, <1>6, SynchronizeInv

LEMMA MarkNativeOutputReadyInv ==
  ASSUME IInv, NEW p \in Programs, MarkNativeOutputReady(p)
  PROVE  Inv(records', requests', present', now')
  <1> DEFINE r == records[p]
             m == r.machine
             writer == CHOOSE l \in NativeWriters(p) : TRUE
             until == Lesser(writer.expiresAt, now + LeaseTime)
  <1>1. CurrentNativeOutput(p)
    BY DEF MarkNativeOutputReady
  <1>2. r # None /\ NativeWriters(p) # {} /\ m \in Machine
    <2>1. r # None /\ NativeWriters(p) # {}
      BY <1>1 DEF CurrentNativeOutput, CurrentRecord
    <2> QED
      BY <2>1, Typed, RecordType
  <1>3. "live" \in States /\ "live" \notin Inactive /\ "degraded" \notin Inactive
        /\ "preparing" \notin Inactive
    BY DEF States, Inactive
  <1>4. CASE m.state = "degraded" /\ SynchronizeRecord(p, r, Advanced(m, "live"))
    <2> DEFINE n == Advanced(m, "live")
    <2>1. n \in Machine /\ n.state = "live" /\ n.broadcast = m.broadcast
      BY <1>2, <1>3, AdvancedFacts
    <2> HIDE DEF n
    <2>2. SynchronizeRecord(p, r, n)
      BY <1>4 DEF n
    <2> QED
      BY <1>1, <1>3, <1>4, <2>1, <2>2, OutputStep
  <1>5. CASE m.state = "preparing" /\ SynchronizeRecord(p, r, NativeLive(m, until))
    <2>1. until \in Nat
      <3>1. writer \in NativeWriters(p)
        BY <1>2
      <3>2. writer \in m.writerLeases
        BY <3>1 DEF NativeWriters, Writers
      <3>3. writer.expiresAt \in Nat
        BY <1>2, <3>2 DEF Machine, WriterLease
      <3> HIDE DEF writer
      <3> QED
        BY <3>3, Typed, RuntimeConstants DEF Lesser
    <2> HIDE DEF until
    <2> DEFINE n == NativeLive(m, until)
    <2>2. n \in Machine /\ n.state = "live" /\ n.broadcast = m.broadcast
      BY <1>2, <2>1, NativeLiveFacts
    <2> HIDE DEF n
    <2>3. SynchronizeRecord(p, r, n)
      BY <1>5 DEF n
    <2> QED
      BY <1>1, <1>3, <1>5, <2>2, <2>3, OutputStep
  <1> QED
    BY <1>4, <1>5 DEF MarkNativeOutputReady

LEMMA MarkNativeOutputUnavailableInv ==
  ASSUME IInv, NEW p \in Programs, MarkNativeOutputUnavailable(p)
  PROVE  Inv(records', requests', present', now')
  <1> DEFINE m == records[p].machine
             n == Advanced(m, "degraded")
  <1>1. /\ CurrentNativeOutput(p) /\ m.state \in {"publishing", "live"}
        /\ SynchronizeRecord(p, records[p], n)
    BY DEF MarkNativeOutputUnavailable
  <1>2. m \in Machine
    BY <1>1, Typed, RecordType DEF CurrentNativeOutput, CurrentRecord
  <1>3. "degraded" \in States /\ "degraded" \notin Inactive /\ m.state \notin Inactive
    BY <1>1 DEF States, Inactive
  <1>4. n \in Machine /\ n.state = "degraded" /\ n.broadcast = m.broadcast
    BY <1>2, <1>3, AdvancedFacts
  <1> HIDE DEF n
  <1> QED
    BY <1>1, <1>3, <1>4, OutputStep

LEMMA RenewNativeOutputInv ==
  ASSUME IInv, NEW p \in Programs, NEW d \in 1..LeaseTime, RenewNativeOutput(p, d)
  PROVE  Inv(records', requests', present', now')
  <1> DEFINE r == records[p]
             m == r.machine
             until == RenewedUntil(p, d)
             n == Renew(m, until)
  <1>1. CurrentNativeOutput(p) /\ m.state \notin NotRunning /\ SynchronizeRecord(p, r, n)
    BY DEF RenewNativeOutput
  <1>2. r # None /\ m \in Machine /\ r.lifetime \in Nat
    BY <1>1, Typed, RecordType DEF CurrentNativeOutput, CurrentRecord
  <1>3. until \in Nat
    BY <1>2, Typed, RuntimeConstants DEF RenewedUntil, Lesser
  <1> HIDE DEF until
  <1>4. n \in Machine /\ n.state = m.state /\ n.broadcast = m.broadcast
    BY <1>2, <1>3, RenewedFacts DEF SameProgram
  <1>5. m.state \in States
    BY <1>2, Typed DEF GoodRecord
  <1>6. m.state # "draft"
    <2>1. m.writerLeases # {}
      BY <1>1 DEF CurrentNativeOutput, NativeWriters, Writers
    <2> QED
      BY <1>2, <2>1, Typed DEF GoodRecord
  <1>7. m.state \notin Inactive
    BY <1>1, <1>6 DEF NotRunning, Inactive
  <1> HIDE DEF n
  <1> QED
    BY <1>1, <1>4, <1>5, <1>6, <1>7, OutputStep

\* selectNativeStandbys changes the plan only.
LEMMA SelectNativeStandbysInv ==
  ASSUME IInv, NEW p \in Programs, NEW peer \in Peers, SelectNativeStandbys(p, peer)
  PROVE  Inv(records', requests', present', now')
  <1> DEFINE r == records[p]
             n == [r EXCEPT !.standby = r.machine.broadcast]
             E == {}
             A == {}
  <1>1. /\ r # None /\ r.machine.state \in {"live", "degraded"} /\ r.handoff = None
        /\ records' = [records EXCEPT ![p].standby = r.machine.broadcast]
        /\ requests' = After({p}, E, A) /\ present' = present /\ now' = now
    BY DEF SelectNativeStandbys, NativeOwned, CurrentRecord
  <1>2. r \in Record /\ r.machine \in Machine /\ r.resource \in Nat /\ GoodRecord(r, present)
    BY <1>1, Typed, RecordType DEF Positive
  <1>3. records' = [records EXCEPT ![p] = n]
    BY <1>1, Typed
  <1>4. r.machine.broadcast \in Nat
    BY <1>2 DEF Machine, Positive
  <1>5. /\ n \in Record /\ n.machine = r.machine /\ n.resource = r.resource
        /\ n.handoff = r.handoff /\ n.lifetime = r.lifetime /\ n.publisher = r.publisher
        /\ n.standby = r.machine.broadcast
    BY <1>2, <1>4 DEF Record
  <1> HIDE DEF n, E, A
  <1>6. n # None
    BY <1>5, NoneAssumption
  <1>7. GoodRecord(n, present)
    BY <1>1, <1>2, <1>5, <1>6 DEF GoodRecord, Active
  <1>8. Succeeds(r, n) /\ KeepsTokens(r, n) /\ (Active(n) => Active(r))
    BY <1>1, <1>2, <1>5, <1>6 DEF Succeeds, KeepsTokens, Active
  <1>9. Inv([records EXCEPT ![p] = n], After({p}, E, A), present, now)
    BY <1>1, <1>5, <1>7, <1>8, OneRecord
  <1> QED
    BY <1>1, <1>3, <1>9

-----------------------------------------------------------------------------
(***************************************************************************)
(* The invariant holds                                                     *)
(***************************************************************************)
LEMMA TickInv == ASSUME IInv, Tick PROVE Inv(records', requests', present', now')
  <1>1. now' \in 1..MaxTime
    BY RuntimeConstants DEF Tick, IInv, Inv, RuntimeState
  <1>2. records' = records /\ requests' = requests /\ present' = present
    BY DEF Tick
  <1> QED
    BY <1>1, <1>2 DEF IInv, Inv, RuntimeState

LEMMA OwnerInv ==
  ASSUME IInv, NEW p \in Programs, Owner(p)
  PROVE  Inv(records', requests', present', now')
  BY CreateProgramInv, ChangeVisibilityInv, StopProgramInv DEF Owner

LEMMA NativeInv ==
  ASSUME IInv, NEW p \in Programs, Native(p)
  PROVE  Inv(records', requests', present', now')
  BY PrepareNativeInv, BeginNativeHandoffInv, CompleteNativeHandoffInv, CancelNativeHandoffInv,
     MarkNativeOutputReadyInv, MarkNativeOutputUnavailableInv, RenewNativeOutputInv,
     SelectNativeStandbysInv
     DEF Native

LEMMA RequestInv ==
  ASSUME IInv, NEW q \in Requests,
         Whip(q) \/ Playback(q) \/ GrantExpires(q) \/ \E o \in Outcomes : SettleIssue(q, o)
  PROVE  Inv(records', requests', present', now')
  <1>1. CASE Whip(q)
    BY <1>1, CreatePublisherChallengeInv, AuthorizePublisherInv, TransactionMoves,
       CommitPublisherInv, GatewayMoves, MarkPublishedInv
       DEF Whip
  <1>2. CASE Playback(q)
    BY <1>2, CreatePlaybackChallengeInv, PlaybackMoves DEF Playback
  <1>3. CASE GrantExpires(q)
    BY <1>3, PlaybackMoves
  <1>4. CASE \E o \in Outcomes : SettleIssue(q, o)
    BY <1>4, TransactionMoves
  <1> QED
    BY <1>1, <1>2, <1>3, <1>4

LEMMA StepKeeps == IInv /\ [Next]_vars => IInv'
  <1> SUFFICES ASSUME IInv, [Next]_vars PROVE IInv'
    OBVIOUS
  <1>1. CASE Next
    <2>1. Inv(records', requests', present', now')
      BY <1>1, OwnerInv, NativeInv, ObserveInv, RequestInv, JoinInv, LeaveInv, PruneInv, TickInv
         DEF Next
    <2> QED
      BY <2>1 DEF IInv
  <1>2. CASE UNCHANGED vars
    <2>1. records' = records /\ requests' = requests /\ present' = present /\ now' = now
      BY <1>2 DEF vars
    <2> QED
      BY <2>1 DEF IInv
  <1> QED
    BY <1>1, <1>2

LEMMA InitKeeps == Init => IInv
  <1> SUFFICES ASSUME Init PROVE Inv(records, requests, present, now)
    BY DEF IInv
  <1>1. /\ records \in [Programs -> Record \cup {None}] /\ \A p \in Programs : records[p] = None
        /\ requests \in [Requests -> Request \cup {None}] /\ \A q \in Requests : requests[q] = None
        /\ present = Peers /\ now = 1
    BY DEF Init
  <1>2. RuntimeState(records, requests, present, now)
    BY <1>1, RuntimeConstants DEF RuntimeState
  <1>3. Good(records, requests, present)
    BY <1>1 DEF Good
  <1>4. Taken(records, requests) = {}
    BY <1>1 DEF Taken, Active, InTransaction
  <1>5. Cardinality(Taken(records, requests)) <= Capacity
    BY <1>4, FS_EmptySet, RuntimeConstants
  <1> QED
    BY <1>2, <1>3, <1>5 DEF Inv

\* In every reachable state every record and every request is good, and the
\* programs that run or are being started fit the capacity.
THEOREM RuntimeInvariant == Spec => []IInv
  BY InitKeeps, StepKeeps, PTL DEF Spec

-----------------------------------------------------------------------------
(***************************************************************************)
(* What follows                                                            *)
(***************************************************************************)

\* TypeOK: the types, and every running program has a deadline.
THEOREM RuntimeTypes == Spec => []TypeOK
  <1>1. IInv => TypeOK
    <2> SUFFICES ASSUME IInv PROVE TypeOK
      OBVIOUS
    <2>1. RuntimeState(records, requests, present, now)
      BY DEF IInv, Inv
    <2>2. \A p \in Programs : Active(records[p]) => records[p].lifetime > 0
      BY Typed DEF GoodRecord, Active
    <2> QED
      BY <2>1, <2>2 DEF TypeOK, RuntimeState
  <1> QED
    BY <1>1, RuntimeInvariant, PTL

\* StopIsAlwaysPossible: the ledger of a running program always has room for
\* the commands of #stopRecord.
THEOREM StopsFit == Spec => []StopIsAlwaysPossible
  <1>1. IInv => StopIsAlwaysPossible
    <2> SUFFICES ASSUME IInv, NEW p \in Programs, records[p] # None, Active(records[p])
                 PROVE  Room(records[p].machine, CommandsToStop(records[p].machine))
      BY DEF StopIsAlwaysPossible, Known
    <2> DEFINE m == records[p].machine
    <2>1. Room(m, CleanupReserve)
      BY Typed DEF GoodRecord
    <2>2. Applied(m) \in Nat /\ MaxRecords \in Nat
      BY Typed, RecordType, AppliedType, MaxRecordsAssumption
    <2>3. CommandsToStop(m) \in {0, 1, 2}
      BY DEF CommandsToStop
    <2> HIDE DEF m
    <2>4. Room(m, CommandsToStop(m))
      BY <2>1, <2>2, <2>3 DEF Room, Applied, CleanupReserve
    <2> QED
      BY <2>4 DEF m
  <1> QED
    BY <1>1, RuntimeInvariant, PTL

\* HandoffCanFinish: the reserve beginNativeHandoff asks for is enough for
\* the five commands of the handoff and the two of a stop.
THEOREM HandoffsCanFinish == Spec => []HandoffCanFinish
  <1>1. IInv => HandoffCanFinish
    BY Typed DEF HandoffCanFinish, Known, GoodRecord
  <1> QED
    BY <1>1, RuntimeInvariant, PTL

\* HandoffIsFenced: no writer lease exists while a handoff is pending.
THEOREM HandoffsAreFenced == Spec => []HandoffIsFenced
  <1>1. IInv => HandoffIsFenced
    <2> SUFFICES ASSUME IInv, NEW p \in Programs, records[p] # None
                 PROVE  LET r == records[p]
                        IN /\ r.handoff # None =>
                                /\ r.machine.state = "preparing"
                                /\ r.machine.writerLeases = {}
                                /\ r.machine.broadcast = r.handoff.epoch
                           /\ r.standby # 0 => r.standby = r.machine.broadcast /\ OnAir(r)
      BY DEF HandoffIsFenced, Known
    <2>1. GoodRecord(records[p], present)
      BY Typed
    <2> QED
      BY <2>1 DEF GoodRecord, OnAir
  <1> QED
    BY <1>1, RuntimeInvariant, PTL

\* DeliveredGrantsAreCurrent: whatever happens during a signature, a token a
\* client holds names the generation its program is in.
THEOREM GrantsAreCurrent == Spec => []DeliveredGrantsAreCurrent
  <1>1. IInv => DeliveredGrantsAreCurrent
    <2> SUFFICES ASSUME IInv, NEW q \in Requests, requests[q] # None,
                        requests[q].phase \in {"delivered", "verifying"}
                 PROVE  LET r == records[requests[q].program]
                        IN /\ Active(r)
                           /\ requests[q].epoch = r.machine.broadcast
                           /\ requests[q].kind = "playback" => r.machine.state \in {"live", "degraded"}
      BY DEF DeliveredGrantsAreCurrent
    <2>1. GoodRequest(requests[q], records[requests[q].program], present)
      BY Typed
    <2> QED
      BY <2>1 DEF GoodRequest, TokenFits, Active
  <1> QED
    BY <1>1, RuntimeInvariant, PTL

\* CapacityHolds: the program limit is kept across every await.
THEOREM CapacityIsKept == Spec => []CapacityHolds
  <1>1. IInv => CapacityHolds
    <2> SUFFICES ASSUME IInv PROVE CapacityHolds
      OBVIOUS
    <2>1. \A q \in Requests : Transacting(q) <=> InTransaction(requests[q])
      BY DEF Transacting, InTransaction
    <2>2. {p \in Programs : Active(records[p]) \/ \E q \in Requests :
                              Transacting(q) /\ requests[q].program = p}
          = Taken(records, requests)
      BY <2>1 DEF Taken
    <2> QED
      BY <2>2 DEF CapacityHolds, IInv, Inv
  <1> QED
    BY <1>1, RuntimeInvariant, PTL

\* PublishersArePresent: the publisher of a running program is in the room.
THEOREM PublishersStay == Spec => []PublishersArePresent
  <1>1. IInv => PublishersArePresent
    BY Typed DEF PublishersArePresent, Known, GoodRecord
  <1> QED
    BY <1>1, RuntimeInvariant, PTL
=============================================================================
