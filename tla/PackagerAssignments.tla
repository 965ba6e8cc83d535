------------------------ MODULE PackagerAssignments ------------------------
(***************************************************************************)
(* NativePackagerAssignmentRegistry, the handoff coordinator, the control  *)
(* socket of the server and the Go packager at its other end.  The server  *)
(* hands a program to a packager as a leased assignment; heartbeats renew  *)
(* the lease, statuses move the assignment on, and both sides end it on    *)
(* their own when the lease runs out or the connection breaks.             *)
(*                                                                         *)
(* An assignment is its index: it stands for the assignment id and for the *)
(* program epoch and fence it was prepared with, which are never reused    *)
(* (BroadcastProgram).  Of the broadcast runtime (BroadcastRuntime) a      *)
(* program keeps its phase and its packager writer.  The clock counts the  *)
(* 30 s of the prune timer; the deletion of ended records after an hour is *)
(* beyond it, and a message is not read so late (30 s) that its age alone  *)
(* has it refused.  Resource budgets count assignments.  Source programs   *)
(* (protocol 4 and 5), SDP signals and captions are left out.              *)
(***************************************************************************)
EXTENDS Naturals, Sequences, FiniteSets

CONSTANTS
  Packagers, Programs,
  None,            \* no assignment at an agent, no handoff
  LeaseTime,       \* ASSIGNMENT_LEASE_MS
  DrainTime,       \* time an expired assignment has to report its stop
  MaxAssignments, MaxQueue,   \* bounds of the model
  Plans            \* the deployment and what may happen in it, one choice per behaviour

\* What a plan limits: broken connections, disturbances of the media at a
\* packager, handoffs and stops by the owner, steps of the clock
Events == {"loss", "media", "owner", "tick"}

ASSUME AssignmentConstants ==
  /\ LeaseTime \in Nat \ {0} /\ DrainTime \in Nat \ {0}
  /\ MaxAssignments \in Nat /\ MaxQueue \in Nat \ {0}

\* slots: assignments the resource budget admits at once
Plan == [loss : Nat, media : Nat, owner : Nat, tick : Nat, slots : Nat \ {0},
         programs : SUBSET Programs, packagers : SUBSET Packagers]
ASSUME PlanAssumption == Plans \subseteq Plan

VARIABLES
  assignments,            \* server: the records, by assignment
  byPackager, byProgram,  \* server: the indexes, 0 for no entry
  programs,               \* server: phase and packager writer of a program
  handoffs,               \* server: the handoff request under way for a program
  socket,                 \* server: control socket of a packager
  agent,                  \* packager: the assignment it works on
  linked,                 \* packager: its connection is up
  up, down,               \* what is under way to the server, to the packager
  plan,                   \* the plan, with what is left of it
  now

registry == <<assignments, byPackager, byProgram>>
server == <<registry, programs, handoffs, socket>>
vars == <<server, agent, linked, up, down, plan, now>>

Renewable == {"preparing", "ready", "starting", "running", "degraded"}
ActiveStates == Renewable \cup {"draining"}
States == ActiveStates \cup {"stopped", "failed"}
AgentStates == {"ready", "starting", "running", "degraded", "failed"}
Phases == {"draft", "preparing", "live", "degraded", "handoff", "stopped"}

\* expiredAt: when prune set the reason code LEASE_EXPIRED, 0 before
Assignment == [packager : Packagers, program : Programs, state : States,
               expiresAt : Nat, expiredAt : Nat]
Work == [id : Nat \ {0}, state : AgentStates, expiresAt : Nat]
HandoffRequest == [previous : Nat \ {0}, to : Packagers]
ASSUME NoneAssumption == None \notin Work \cup HandoffRequest

Heartbeat == [kind |-> "heartbeat"]
Closed == [kind |-> "closed"]
Status(id, state, ready) ==
  [kind |-> "status", id |-> id, state |-> state, ready |-> ready]

PrepareCommand(id, until) == [kind |-> "prepare", id |-> id, expiresAt |-> until]
RenewCommand(id, until) == [kind |-> "renew", id |-> id, expiresAt |-> until]
StopCommand(id) == [kind |-> "stop", id |-> id]
Goodbye == [kind |-> "error"]

Message == [kind : {"heartbeat", "closed"}]
             \cup [kind : {"status"}, id : Nat \ {0}, state : States, ready : BOOLEAN]
Command == [kind : {"prepare", "renew"}, id : Nat \ {0}, expiresAt : Nat]
             \cup [kind : {"stop"}, id : Nat \ {0}] \cup [kind : {"error"}]

Init ==
  /\ assignments = <<>>
  /\ byPackager = [p \in Packagers |-> 0] /\ byProgram = [g \in Programs |-> 0]
  /\ programs = [g \in Programs |-> [phase |-> "draft", writer |-> 0]]
  /\ handoffs = [g \in Programs |-> None]
  /\ socket = [p \in Packagers |-> "none"]
  /\ agent = [p \in Packagers |-> None] /\ linked = [p \in Packagers |-> FALSE]
  /\ up = [p \in Packagers |-> <<>>] /\ down = [p \in Packagers |-> <<>>]
  /\ plan \in Plans /\ now = 0

-----------------------------------------------------------------------------
(* The registry *)

Ids == DOMAIN assignments
Active(id) == id \in Ids /\ assignments[id].state \in ActiveStates
Busy(p) == Active(byPackager[p])

\* candidate(): the socket is registered.  The ping timer drops silent ones,
\* and the capability follows the authentication at once.
Online(p) == socket[p] # "none"

\* Faulty: an assignment that failed gives its resources back at once.
FaultyOccupied == {id \in Ids : Active(id)}

\* #occupiedResources: a failed packager may go on until its lease ends.
Occupied ==
  {id \in Ids : Active(id) \/ (assignments[id].state = "failed" /\ assignments[id].expiresAt > now)}

\* #assertResources, without the assignment to be replaced
Admissible(replaced) == Cardinality(Occupied \ replaced) < plan.slots

\* #releaseIndexes
ReleaseIndexes(ids) ==
  /\ byPackager' = [p \in Packagers |-> IF byPackager[p] \in ids THEN 0 ELSE byPackager[p]]
  /\ byProgram' = [g \in Programs |-> IF byProgram[g] \in ids THEN 0 ELSE byProgram[g]]

Moved(id, state) == [assignments EXCEPT ![id].state = state]

Spend(event) == plan[event] > 0 /\ plan' = [plan EXCEPT ![event] = @ - 1]

\* failPackager
FailPackager(p) ==
  IF Busy(p)
  THEN assignments' = Moved(byPackager[p], "failed") /\ ReleaseIndexes({byPackager[p]})
  ELSE UNCHANGED registry

StopPrograms(gs) ==
  programs' = [g \in Programs |->
                 IF g \in gs THEN [phase |-> "stopped", writer |-> 0] ELSE programs[g]]

Served(p) == IF Busy(p) THEN {assignments[byPackager[p]].program} ELSE {}

\* safeSend: only an open socket takes a message.
Sent(queues, p, msg) ==
  [queues EXCEPT ![p] = IF socket[p] = "open" THEN Append(@, msg) ELSE @]

-----------------------------------------------------------------------------
(* Requests of the owner *)

\* prepare() and the delivery of its command.  When that fails the packager is
\* failed and the program stopped: the new record is failed and unindexed.
Assign(g, p) ==
  LET id == Len(assignments) + 1
      delivered == socket[p] = "open"
      entry == IF delivered THEN id ELSE 0
  IN /\ id <= MaxAssignments
     /\ assignments' = Append(assignments,
          [packager |-> p, program |-> g, state |-> IF delivered THEN "preparing" ELSE "failed",
           expiresAt |-> now + LeaseTime, expiredAt |-> 0])
     /\ byPackager' = [byPackager EXCEPT ![p] = entry]
     /\ byProgram' = [byProgram EXCEPT ![g] = entry]
     /\ programs' = [programs EXCEPT ![g] =
          [phase |-> IF delivered THEN "preparing" ELSE "stopped", writer |-> entry]]
     /\ down' = Sent(down, p, PrepareCommand(id, now + LeaseTime))

\* POST native-assignments on a free packager
Prepare(g, p) ==
  /\ programs[g].phase = "draft" /\ Online(p) /\ Admissible({})
  /\ ~Busy(p)
  /\ Assign(g, p)
  /\ UNCHANGED <<handoffs, socket, agent, linked, up, plan, now>>

\* The same on a packager that has an assignment: admit() does not look, so the
\* program is prepared first; prepare() then refuses, and the handler answers
\* like any failed delivery, with failPackager and stopProgram.
PrepareConflict(g, p) ==
  /\ programs[g].phase = "draft" /\ Online(p) /\ Admissible({})
  /\ Busy(p)
  /\ assignments' = Moved(byPackager[p], "failed") /\ ReleaseIndexes({byPackager[p]})
  /\ StopPrograms({g})
  /\ UNCHANGED <<handoffs, socket, agent, linked, up, down, plan, now>>

\* stop()
Drained(ids) ==
  [id \in Ids |-> IF id \in ids /\ assignments[id].state \in Renewable
                  THEN Moved(id, "draining")[id] ELSE assignments[id]]

StopSent(id) ==
  IF Active(id) /\ assignments[id].state # "draining"
  THEN Sent(down, assignments[id].packager, StopCommand(id)) ELSE down

\* DELETE program, the program's deadline, DELETE assignment and the withdrawal
\* of the room consent: the assignment drains and the program stops.
StopProgram(g) ==
  /\ programs[g].phase # "stopped"
  /\ assignments' = Drained({byProgram[g]})
  /\ down' = StopSent(byProgram[g])
  /\ StopPrograms({g})
  /\ Spend("owner")
  /\ UNCHANGED <<byPackager, byProgram, handoffs, socket, agent, linked, up, now>>

\* stopProgramsForMember: the publisher leaves; its assignment is not told.
PublisherLeaves(g) ==
  /\ programs[g].phase \notin {"draft", "stopped"}
  /\ StopPrograms({g})
  /\ Spend("owner")
  /\ UNCHANGED <<registry, handoffs, socket, agent, linked, up, down, now>>

-----------------------------------------------------------------------------
(* handoffNativePackager *)

\* Up to the first delay: the runtime takes the writer away, the assignment
\* drains; an undelivered stop cancels the handoff and with it the program.
BeginHandoff(g, to) ==
  LET previous == byProgram[g]
      from == assignments[previous].packager
  IN /\ handoffs[g] = None
     /\ previous # 0 /\ assignments[previous].state \in {"running", "degraded"}
     /\ assignments[previous].expiresAt > now
     /\ programs[g].writer = previous
     /\ to # from /\ ~Busy(to) /\ Online(to) /\ Admissible({previous})
     /\ assignments' = Moved(previous, "draining")
     /\ down' = Sent(down, from, StopCommand(previous))
     /\ programs' = [programs EXCEPT ![g] =
          [phase |-> IF socket[from] = "open" THEN "handoff" ELSE "stopped", writer |-> 0]]
     /\ handoffs' = [handoffs EXCEPT ![g] =
          IF socket[from] = "open" THEN [previous |-> previous, to |-> to] ELSE None]
     /\ Spend("owner")
     /\ UNCHANGED <<byPackager, byProgram, socket, agent, linked, up, now>>

\* Faulty: a writer that failed is as good as one that stopped.
FaultyHandoffStopStatus(id) ==
  IF assignments[id].state \in {"stopped", "failed"} THEN "stopped" ELSE "waiting"

HandoffStopStatus(id) ==
  CASE assignments[id].state = "stopped" -> "stopped"
    [] assignments[id].state = "failed"  -> "failed"
    [] OTHER                             -> "waiting"

CompleteHandoff(g) ==
  /\ handoffs[g] # None
  /\ LET h == handoffs[g]
     IN /\ HandoffStopStatus(h.previous) = "stopped"
        /\ programs[g].phase = "handoff"
        /\ assignments[h.previous].expiresAt > now
        /\ ~Busy(h.to) /\ Online(h.to) /\ Admissible({h.previous})
        /\ Assign(g, h.to)
  /\ handoffs' = [handoffs EXCEPT ![g] = None]
  /\ UNCHANGED <<socket, agent, linked, up, plan, now>>

\* The old writer failed, the new one was refused, the 12 s are over (less than
\* a step of the clock, so at any time) or the client went away.
CancelHandoff(g) ==
  /\ handoffs[g] # None
  /\ StopPrograms({g} \cap {x \in Programs : programs[x].phase = "handoff"})
  /\ handoffs' = [handoffs EXCEPT ![g] = None]
  /\ UNCHANGED <<registry, socket, agent, linked, up, down, plan, now>>

-----------------------------------------------------------------------------
(* The control socket and the prune timer *)

\* A message that throws is answered with an error and the socket is closed.
Reject(p) ==
  /\ socket' = [socket EXCEPT ![p] = "closing"]
  /\ down' = Sent(down, p, Goodbye)

\* Faulty: a stopped program does not keep its assignment from being renewed.
FaultyRenews(p) ==
  LET id == byPackager[p]
  IN id # 0 /\ assignments[id].state \in Renewable /\ assignments[id].expiresAt > now

\* renew(), with the program's deadline: none once it is stopped or rolled on.
Renews(p) ==
  LET id == byPackager[p]
  IN /\ id # 0 /\ assignments[id].state \in Renewable /\ assignments[id].expiresAt > now
     /\ programs[assignments[id].program].writer = id

ReceiveHeartbeat(p) ==
  /\ socket[p] # "none" /\ up[p] # <<>> /\ Head(up[p]).kind = "heartbeat"
  /\ up' = [up EXCEPT ![p] = Tail(@)]
  /\ IF Renews(p)
     THEN LET id == byPackager[p]
          IN /\ assignments' = [assignments EXCEPT ![id].expiresAt = now + LeaseTime]
             /\ down' = Sent(down, p, RenewCommand(id, now + LeaseTime))
     ELSE UNCHANGED <<assignments, down>>
  /\ UNCHANGED <<byPackager, byProgram, programs, handoffs, socket, agent, linked, plan, now>>

\* The reported states each state admits.
Allowed ==
  [preparing |-> {"ready", "failed"},
   ready     |-> {"ready", "starting", "draining", "failed"},
   starting  |-> {"starting", "running", "degraded", "draining", "failed"},
   running   |-> {"running", "degraded", "draining", "failed"},
   degraded  |-> {"running", "degraded", "draining", "failed"},
   draining  |-> {"draining", "stopped", "failed"},
   stopped   |-> {"stopped"},
   failed    |-> {"failed"}]

\* acknowledge()
Acknowledged(p, m) ==
  LET r == assignments[m.id]
  IN /\ r.packager = p
     /\ r.expiresAt > now \/ m.state \in {"stopped", "failed"}
     /\ m.state \in Allowed[r.state]

\* markNativeOutputReady and markNativeOutputUnavailable
OutputReady(g) == [programs EXCEPT ![g].phase = "live"]
OutputUnavailable(g) ==
  [programs EXCEPT ![g].phase = IF @ = "live" THEN "degraded" ELSE @]

ReceiveStatus(p) ==
  /\ socket[p] # "none" /\ up[p] # <<>> /\ Head(up[p]).kind = "status"
  /\ up' = [up EXCEPT ![p] = Tail(@)]
  /\ LET m == Head(up[p])
         g == assignments[m.id].program
         writer == programs[g].writer = m.id
         ready == m.state = "running" /\ m.ready
         lost == m.state \in {"degraded", "stopped", "failed"} /\ assignments[m.id].expiresAt > now
     IN IF Acknowledged(p, m)
        THEN /\ assignments' = Moved(m.id, m.state)
             /\ IF m.state \in ActiveStates THEN UNCHANGED <<byPackager, byProgram>>
                                            ELSE ReleaseIndexes({m.id})
             /\ programs' = CASE writer /\ ready -> OutputReady(g)
                              [] writer /\ lost  -> OutputUnavailable(g)
                              [] OTHER           -> programs
             /\ IF ready /\ ~writer THEN Reject(p) ELSE UNCHANGED <<socket, down>>
        ELSE Reject(p) /\ UNCHANGED <<registry, programs>>
  /\ UNCHANGED <<handoffs, agent, linked, plan, now>>

\* The close handler of a registered socket: disconnect, failPackager, and the
\* program of the assignment is stopped.
Disconnected(p) ==
  /\ socket' = [socket EXCEPT ![p] = "none"]
  /\ up' = [up EXCEPT ![p] = <<>>]
  /\ FailPackager(p)
  /\ StopPrograms(Served(p))
  /\ UNCHANGED <<handoffs, agent, linked, now>>

ReceiveClosed(p) ==
  /\ socket[p] # "none" /\ up[p] # <<>> /\ Head(up[p]).kind = "closed"
  /\ Disconnected(p)
  /\ UNCHANGED <<down, plan>>

\* The server gives the connection up (ping timeout, a broken transport, a
\* revoked packager) before the packager knows of it.
SocketLost(p) ==
  /\ socket[p] # "none" /\ linked[p]
  /\ Disconnected(p)
  /\ down' = [down EXCEPT ![p] = Append(@, Goodbye)]
  /\ Spend("loss")

\* prune(): an expired assignment drains, is told so, and its program stops; if
\* it has not answered DrainTime later it is failed.
Prune ==
  LET expired == {id \in Ids : Active(id) /\ assignments[id].expiresAt <= now}
      told == {id \in expired : assignments[id].expiredAt > 0}
      given == {id \in told : assignments[id].expiredAt + DrainTime <= now}
      fresh == expired \ told
  IN /\ fresh \cup given # {}
     /\ assignments' = [id \in Ids |->
          CASE id \in fresh -> [Moved(id, "draining")[id] EXCEPT !.expiredAt = now]
            [] id \in given -> Moved(id, "failed")[id]
            [] OTHER        -> assignments[id]]
     /\ ReleaseIndexes(given)
     /\ StopPrograms({assignments[id].program : id \in fresh})
     /\ down' = [p \in Packagers |->
          IF byPackager[p] \in fresh THEN Sent(down, p, StopCommand(byPackager[p]))[p] ELSE down[p]]
     /\ UNCHANGED <<handoffs, socket, agent, linked, up, plan, now>>

-----------------------------------------------------------------------------
(* The packager *)

\* c.send; what a broken connection carried is lost.
Report(p, msgs) ==
  up' = [up EXCEPT ![p] = IF socket[p] = "none" THEN @ ELSE @ \o msgs]

CanReport(p) == linked[p] /\ Len(up[p]) < MaxQueue

\* authenticate: a new connection takes the place of one the server still has.
Authenticate(p) ==
  /\ p \in plan.packagers /\ ~linked[p]
  /\ linked' = [linked EXCEPT ![p] = TRUE]
  /\ socket' = [socket EXCEPT ![p] = "open"]
  /\ up' = [up EXCEPT ![p] = <<>>] /\ down' = [down EXCEPT ![p] = <<>>]
  /\ UNCHANGED <<registry, programs, handoffs, agent, plan, now>>

\* The connection ends, and with it the packager's work (closeAssignmentMedia).
EndConnection(p) ==
  /\ linked' = [linked EXCEPT ![p] = FALSE]
  /\ agent' = [agent EXCEPT ![p] = None]
  /\ down' = [down EXCEPT ![p] = <<>>]

\* Faulty: a renewal or stop of an assignment it does not have is no error.
FaultyStale(p, m) ==
  CASE m.kind = "prepare" -> agent[p] # None \/ m.expiresAt <= now
    [] m.kind = "error"   -> TRUE
    [] OTHER              -> FALSE

\* A command the packager takes for an error: prepare while it has another
\* assignment or after its lease, stop or renew of one it does not have.
Stale(p, m) ==
  CASE m.kind = "prepare" -> agent[p] # None \/ m.expiresAt <= now
    [] m.kind = "stop"    -> agent[p] = None \/ agent[p].id # m.id
    [] m.kind = "renew"   -> \/ m.expiresAt <= now
                             \/ agent[p] = None \/ agent[p].id # m.id \/ agent[p].expiresAt <= now
    [] OTHER              -> TRUE

\* prepareAssignment, stopAssignment, renewAssignment
Obey(p) ==
  /\ linked[p] /\ down[p] # <<>>
  /\ LET m == Head(down[p])
     IN IF Stale(p, m)
        THEN EndConnection(p) /\ Report(p, <<Closed>>)
        ELSE /\ down' = [down EXCEPT ![p] = Tail(@)]
             /\ UNCHANGED linked
             /\ \/ /\ m.kind = "prepare"
                   /\ agent' = [agent EXCEPT ![p] =
                        [id |-> m.id, state |-> "ready", expiresAt |-> m.expiresAt]]
                   /\ Report(p, <<Status(m.id, "ready", FALSE)>>)
                \/ /\ m.kind = "stop"
                   /\ agent' = [agent EXCEPT ![p] = None]
                   /\ Report(p, <<Status(m.id, "stopped", FALSE)>>)
                \/ /\ m.kind = "renew"
                   /\ agent' = [agent EXCEPT ![p] =
                        IF @ = None THEN @ ELSE [@ EXCEPT !.expiresAt = m.expiresAt]]
                   /\ UNCHANGED up
  /\ UNCHANGED <<server, plan, now>>

\* transitionAssignment: media connects, output appears, pipeline or connection
\* degrade, recover or fail.  A failed assignment stays with the packager.
Transition(p, to, ready) ==
  /\ CanReport(p) /\ agent[p] # None
  /\ LET from == agent[p].state
         id == agent[p].id
     IN /\ to \in [ready |-> {"starting", "running", "failed"},
                   starting |-> {"running", "degraded", "failed"},
                   running |-> {"degraded", "failed"},
                   degraded |-> {"running", "failed"}, failed |-> {}][from]
        /\ ready => to = "running"
        /\ to = "running" /\ ~ready => from = "degraded"
        /\ agent' = [agent EXCEPT ![p].state = to]
        /\ Report(p, IF from = "ready" /\ to = "running"
                     THEN <<Status(id, "starting", FALSE), Status(id, to, ready)>>
                     ELSE <<Status(id, to, ready)>>)
        /\ IF to \in {"degraded", "failed"} THEN Spend("media") ELSE UNCHANGED plan
  /\ UNCHANGED <<server, linked, down, now>>

\* The ticker: expireAssignment, or the thermal limit of reconcileLocalHealth.
GiveUp(p) ==
  /\ CanReport(p) /\ agent[p] # None
  /\ agent' = [agent EXCEPT ![p] = None]
  /\ Report(p, <<Status(agent[p].id, "failed", FALSE)>>)
  /\ UNCHANGED <<server, linked, down, now>>

Expire(p) == GiveUp(p) /\ agent[p].expiresAt <= now /\ UNCHANGED plan
Overheat(p) == GiveUp(p) /\ agent[p].expiresAt > now /\ Spend("media")

\* Every 15 s; the answer to the last one has come.  An idle packager's does
\* nothing at the server, so it is only sent while the server has an assignment.
SendHeartbeat(p) ==
  /\ CanReport(p) /\ socket[p] # "none" /\ byPackager[p] # 0
  /\ \A i \in DOMAIN up[p] : up[p][i].kind # "heartbeat"
  /\ \A i \in DOMAIN down[p] : down[p][i].kind # "renew"
  /\ Report(p, <<Heartbeat>>)
  /\ UNCHANGED <<server, agent, linked, down, plan, now>>

\* The connection breaks at the packager's end; what it had sent may be lost.
LinkLost(p) ==
  /\ linked[p]
  /\ EndConnection(p)
  /\ \E kept \in {<<>>, up[p]} :
       up' = [up EXCEPT ![p] = IF socket[p] = "none" THEN <<>> ELSE Append(kept, Closed)]
  /\ Spend("loss")
  /\ UNCHANGED <<server, now>>

Tick == Spend("tick") /\ now' = now + 1 /\ UNCHANGED <<server, agent, linked, up, down>>

\* The last moment of the behaviour's clock
Horizon == now + plan["tick"]

-----------------------------------------------------------------------------
Owner(g) ==
  \/ \E p \in Packagers : Prepare(g, p) \/ PrepareConflict(g, p) \/ BeginHandoff(g, p)
  \/ StopProgram(g) \/ PublisherLeaves(g)
  \/ CompleteHandoff(g) \/ CancelHandoff(g)

Socket(p) == ReceiveHeartbeat(p) \/ ReceiveStatus(p) \/ ReceiveClosed(p)

Agent(p) ==
  \/ Authenticate(p) \/ Obey(p) \/ SendHeartbeat(p)
  \/ \E to \in AgentStates, ready \in BOOLEAN : Transition(p, to, ready)
  \/ Expire(p) \/ Overheat(p)

Next ==
  \/ \E g \in plan.programs : Owner(g)
  \/ \E p \in Packagers : Socket(p) \/ SocketLost(p) \/ Agent(p) \/ LinkLost(p)
  \/ Prune
  \/ Tick

\* Messages are read, the packager's ticker runs, the server prunes, time goes
\* on.  A packager waits a second before it reconnects: again and again faster
\* than the server reads the end of the old connection it is not.
Fairness ==
  /\ WF_vars(Prune) /\ WF_vars(Tick)
  /\ \A p \in Packagers :
       /\ WF_vars(Socket(p)) /\ SF_vars(ReceiveClosed(p))
       /\ WF_vars(Obey(p)) /\ WF_vars(Expire(p)) /\ WF_vars(SendHeartbeat(p))

Spec == Init /\ [][Next]_vars /\ Fairness

-----------------------------------------------------------------------------
TypeOK ==
  /\ assignments \in Seq(Assignment)
  /\ byPackager \in [Packagers -> {0} \cup Ids] /\ byProgram \in [Programs -> {0} \cup Ids]
  /\ programs \in [Programs -> [phase : Phases, writer : {0} \cup Ids]]
  /\ handoffs \in [Programs -> HandoffRequest \cup {None}]
  /\ socket \in [Packagers -> {"none", "open", "closing"}] /\ linked \in [Packagers -> BOOLEAN]
  /\ agent \in [Packagers -> Work \cup {None}]
  /\ up \in [Packagers -> Seq(Message)] /\ down \in [Packagers -> Seq(Command)]
  /\ plan \in Plan /\ now \in Nat

Holds(p, id) == agent[p] # None /\ agent[p].id = id
Ghost(id) == Active(id) /\ \A p \in Packagers : ~Holds(p, id)

\* Two packagers never work for the same program, however stop, acknowledgement,
\* failure, lost connection and handoff interleave: the successor is only
\* installed when the packager itself has said that it stopped.
OneWriter ==
  \A p, q \in Packagers :
    agent[p] # None /\ agent[q] # None
      /\ assignments[agent[p].id].program = assignments[agent[q].id].program => p = q

\* The packagers that still encode under an unexpired lease fit the resource
\* budget, those the server has already given up as failed included.
EncodersFit ==
  Cardinality({p \in Packagers : agent[p] # None /\ agent[p].expiresAt > now}) <= plan.slots

\* An assignment no packager works on (a lost prepare, a connection replaced
\* before its end was read) does not stay active: the next renewal or stop makes
\* the packager end its connection, or the lease runs out.  The clock is bounded,
\* so one that is not renewed any more may lack the time to run out.
GhostsEnd ==
  \A id \in 1..MaxAssignments :
    Ghost(id) ~> \/ ~Ghost(id)
                 \/ /\ \/ assignments[id].state = "draining"
                       \/ programs[assignments[id].program].writer # id
                    /\ \/ assignments[id].expiresAt + DrainTime > Horizon
                       \/ assignments[id].expiredAt + DrainTime > Horizon

\* Once a program is stopped its packager stops too, also when nobody tells it
\* (the publisher left, the stop was lost): its lease is not renewed any more.
\* The clock is bounded: the stop must leave time for the lease to run out.
StoppedProgramsFallSilent ==
  \A p \in Packagers, id \in 1..MaxAssignments :
    (/\ Holds(p, id) /\ now + LeaseTime <= Horizon
     /\ programs[assignments[id].program].phase = "stopped")
    ~> ~Holds(p, id)
=============================================================================
