---------------------- MODULE PackagerAssignmentsProofs ----------------------
(***************************************************************************)
(* Proofs about native packager assignments, for any number of packagers,  *)
(* programs, assignments, events and resource slots.                       *)
(***************************************************************************)
EXTENDS PackagerAssignments, FiniteSetTheorems, TLAPS

-----------------------------------------------------------------------------
(***************************************************************************)
(* The invariant                                                           *)
(***************************************************************************)
Prepares(q, id) == \E i \in DOMAIN q : q[i].kind = "prepare" /\ q[i].id = id

\* A packager works on the assignment, or will when it reads its commands.
Reachable(id) == \E p \in Packagers : Holds(p, id) \/ Prepares(down[p], id)

\* A command does not promise more than the server's record, and prepare goes
\* to the packager it names.
Sound(records, p, m) ==
  /\ m.kind \in {"prepare", "renew"} =>
       m.id \in DOMAIN records /\ m.expiresAt <= records[m.id].expiresAt
  /\ m.kind = "prepare" => records[m.id].packager = p

Commands ==
  \A p \in Packagers :
    /\ \A i \in DOMAIN down[p] : Sound(assignments, p, down[p][i])
    /\ \A i, j \in DOMAIN down[p] :
         /\ down[p][i].kind = "prepare" /\ down[p][j].kind = "prepare"
         /\ down[p][i].id = down[p][j].id
         => i = j

\* What a packager works on is its own, ends with the server's lease at the
\* latest, and is not to be prepared again.
Held ==
  \A p \in Packagers : agent[p] # None =>
    /\ agent[p].id \in Ids
    /\ assignments[agent[p].id].packager = p
    /\ agent[p].expiresAt <= assignments[agent[p].id].expiresAt
    /\ ~Prepares(down[p], agent[p].id)

Reported == \A p \in Packagers : \A i \in DOMAIN up[p] : up[p][i].kind = "status" => up[p][i].id \in Ids

\* "stopped" is only said, and only believed, of an assignment that is over.
StoppedIsOver ==
  /\ \A p \in Packagers : \A i \in DOMAIN up[p] :
       up[p][i].kind = "status" /\ up[p][i].state = "stopped" => ~Reachable(up[p][i].id)
  /\ \A id \in Ids : assignments[id].state = "stopped" => ~Reachable(id)

Last(g, id) == assignments[id].program = g /\ \A j \in Ids : assignments[j].program = g => j <= id

\* The index and a handoff name the last assignment of their program.
Latest ==
  \A g \in Programs :
    /\ byProgram[g] # 0 => Last(g, byProgram[g])
    /\ handoffs[g] # None => handoffs[g].previous \in Ids /\ Last(g, handoffs[g].previous)
    /\ programs[g].phase = "draft" =>
         handoffs[g] = None /\ \A id \in Ids : assignments[id].program # g

\* Only the last assignment of a program can be at work.
Superseded ==
  \A i, j \in Ids : i < j /\ assignments[i].program = assignments[j].program => ~Reachable(i)

Leases == \A id \in Ids : assignments[id].expiresAt <= now + LeaseTime

Budget == Cardinality(Occupied) <= plan.slots

\* The inductive invariant.
IInv ==
  /\ TypeOK /\ Commands /\ Held /\ Reported /\ StoppedIsOver
  /\ Latest /\ Superseded /\ Leases /\ Budget

-----------------------------------------------------------------------------
(***************************************************************************)
(* Queues                                                                  *)
(***************************************************************************)
LEMMA QueueAppend ==
  ASSUME NEW S, NEW q \in Seq(S), NEW m \in S
  PROVE  /\ Append(q, m) \in Seq(S) /\ DOMAIN Append(q, m) = DOMAIN q \cup {Len(q) + 1}
         /\ Len(q) + 1 \notin DOMAIN q /\ Append(q, m)[Len(q) + 1] = m
         /\ \A i \in DOMAIN q : Append(q, m)[i] = q[i]
  <1>1. DOMAIN q = 1..Len(q) /\ Len(q) \in Nat
    OBVIOUS
  <1>2. DOMAIN Append(q, m) = 1..(Len(q) + 1) /\ Append(q, m) \in Seq(S)
    OBVIOUS
  <1>3. Append(q, m)[Len(q) + 1] = m /\ \A i \in 1..Len(q) : Append(q, m)[i] = q[i]
    OBVIOUS
  <1> QED
    BY <1>1, <1>2, <1>3

LEMMA QueueTail ==
  ASSUME NEW S, NEW q \in Seq(S), q # <<>>
  PROVE  /\ Tail(q) \in Seq(S) /\ Head(q) = q[1] /\ 1 \in DOMAIN q /\ Head(q) \in S
         /\ \A i \in DOMAIN Tail(q) : i + 1 \in DOMAIN q /\ i + 1 # 1 /\ Tail(q)[i] = q[i + 1]
  <1>1. DOMAIN q = 1..Len(q) /\ Len(q) \in Nat /\ Len(q) # 0
    OBVIOUS
  <1>2. Tail(q) \in Seq(S) /\ Len(Tail(q)) = Len(q) - 1
    OBVIOUS
  <1>3. DOMAIN Tail(q) = 1..(Len(q) - 1) /\ \A i \in 1..(Len(q) - 1) : Tail(q)[i] = q[i + 1]
    BY <1>1, <1>2
  <1> QED
    BY <1>1, <1>2, <1>3

LEMMA QueueConcat ==
  ASSUME NEW S, NEW q \in Seq(S), NEW r \in Seq(S)
  PROVE  /\ q \o r \in Seq(S)
         /\ \A i \in DOMAIN (q \o r) : (\E j \in DOMAIN q : (q \o r)[i] = q[j])
                                    \/ (\E j \in DOMAIN r : (q \o r)[i] = r[j])
  <1>1. q \o r \in Seq(S) /\ Len(q \o r) = Len(q) + Len(r)
    OBVIOUS
  <1>2. DOMAIN q = 1..Len(q) /\ DOMAIN r = 1..Len(r) /\ Len(q) \in Nat /\ Len(r) \in Nat
    OBVIOUS
  <1>3. DOMAIN (q \o r) = 1..(Len(q) + Len(r))
    BY <1>1, <1>2
  <1>4. ASSUME NEW i \in 1..(Len(q) + Len(r))
        PROVE  (\E j \in DOMAIN q : (q \o r)[i] = q[j]) \/ (\E j \in DOMAIN r : (q \o r)[i] = r[j])
    <2>1. CASE i <= Len(q)
      <3>1. i \in DOMAIN q /\ (q \o r)[i] = q[i]
        BY <1>2, <2>1
      <3> QED
        BY <3>1
    <2>2. CASE ~(i <= Len(q))
      <3>1. i - Len(q) \in DOMAIN r /\ (q \o r)[i] = r[i - Len(q)]
        BY <1>2, <2>2
      <3> QED
        BY <3>1
    <2> QED
      BY <2>1, <2>2
  <1> QED
    BY <1>1, <1>3, <1>4

\* A command queue loses its head, is emptied, or gets a command that
\* prepares nothing.
Quiet(p) ==
  \/ down'[p] = down[p]
  \/ down'[p] = <<>>
  \/ down[p] # <<>> /\ down'[p] = Tail(down[p])
  \/ \E m \in Command : m.kind # "prepare" /\ Sound(assignments', p, m) /\ down'[p] = Append(down[p], m)

LEMMA Typed ==
  ASSUME IInv
  PROVE  /\ assignments \in Seq(Assignment) /\ Len(assignments) \in Nat
         /\ Ids = 1..Len(assignments) /\ \A id \in Ids : assignments[id] \in Assignment
         /\ byPackager \in [Packagers -> {0} \cup Ids] /\ byProgram \in [Programs -> {0} \cup Ids]
         /\ programs \in [Programs -> [phase : Phases, writer : {0} \cup Ids]]
         /\ handoffs \in [Programs -> HandoffRequest \cup {None}]
         /\ socket \in [Packagers -> {"none", "open", "closing"}]
         /\ linked \in [Packagers -> BOOLEAN]
         /\ agent \in [Packagers -> Work \cup {None}]
         /\ up \in [Packagers -> Seq(Message)] /\ down \in [Packagers -> Seq(Command)]
         /\ plan \in Plan /\ now \in Nat
  <1>1. assignments \in Seq(Assignment)
    BY DEF IInv, TypeOK
  <1>2. Len(assignments) \in Nat /\ Ids = 1..Len(assignments) /\ \A id \in Ids : assignments[id] \in Assignment
    BY <1>1 DEF Ids
  <1> QED
    BY <1>1, <1>2 DEF IInv, TypeOK

\* In a quiet queue the commands are old or prepare nothing.
LEMMA QuietFacts ==
  ASSUME IInv, NEW p \in Packagers, Quiet(p)
  PROVE  /\ down'[p] \in Seq(Command)
         /\ \A i \in DOMAIN down'[p] :
              \/ \E j \in DOMAIN down[p] : down'[p][i] = down[p][j]
              \/ down'[p][i].kind # "prepare" /\ Sound(assignments', p, down'[p][i])
         /\ \A id : Prepares(down'[p], id) => Prepares(down[p], id)
         /\ \A i, j \in DOMAIN down'[p] :
              /\ down'[p][i].kind = "prepare" /\ down'[p][j].kind = "prepare"
              /\ down'[p][i].id = down'[p][j].id
              => i = j
  <1>1. down[p] \in Seq(Command)
    BY Typed
  <1>2. \A i, j \in DOMAIN down[p] :
          /\ down[p][i].kind = "prepare" /\ down[p][j].kind = "prepare"
          /\ down[p][i].id = down[p][j].id
          => i = j
    BY DEF IInv, Commands
  <1>3. CASE down'[p] = down[p]
    BY <1>1, <1>2, <1>3
  <1>4. CASE down'[p] = <<>>
    <2>1. DOMAIN (<< >>) = {}
      OBVIOUS
    <2> QED
      BY <1>4, <2>1 DEF Prepares
  <1>5. CASE down[p] # <<>> /\ down'[p] = Tail(down[p])
    <2> DEFINE q == down[p]
               t == Tail(q)
    <2>1. /\ t \in Seq(Command)
          /\ \A i \in DOMAIN t : i + 1 \in DOMAIN q /\ t[i] = q[i + 1]
      BY <1>1, <1>5, QueueTail
    <2>2. \A i \in DOMAIN t : i \in Nat
      BY <2>1
    <2> HIDE DEF q, t
    <2>3. \A i, j \in DOMAIN t :
            t[i].kind = "prepare" /\ t[j].kind = "prepare" /\ t[i].id = t[j].id => i + 1 = j + 1
      BY <1>2, <2>1 DEF q
    <2>4. \A i, j \in DOMAIN t :
            t[i].kind = "prepare" /\ t[j].kind = "prepare" /\ t[i].id = t[j].id => i = j
      BY <2>2, <2>3
    <2>5. \A id : Prepares(t, id) => Prepares(q, id)
      BY <2>1 DEF Prepares
    <2> QED
      BY <1>5, <2>1, <2>4, <2>5 DEF q, t
  <1>6. CASE \E m \in Command : m.kind # "prepare" /\ Sound(assignments', p, m) /\ down'[p] = Append(down[p], m)
    <2>1. PICK m \in Command : m.kind # "prepare" /\ Sound(assignments', p, m) /\ down'[p] = Append(down[p], m)
      BY <1>6
    <2> DEFINE q == down[p]
               t == Append(q, m)
               n == Len(q) + 1
    <2>2. /\ t \in Seq(Command) /\ DOMAIN t = DOMAIN q \cup {n} /\ t[n] = m
          /\ \A i \in DOMAIN q : t[i] = q[i]
      BY <1>1, QueueAppend
    <2> HIDE DEF q, t, n
    <2>3. \A i, j \in DOMAIN t :
            t[i].kind = "prepare" /\ t[j].kind = "prepare" /\ t[i].id = t[j].id => i = j
      BY <1>2, <2>1, <2>2 DEF q
    <2>4. \A id : Prepares(t, id) => Prepares(q, id)
      BY <2>1, <2>2 DEF Prepares
    <2>5. \A i \in DOMAIN t : (\E j \in DOMAIN q : t[i] = q[j]) \/ t[i] = m
      BY <2>2
    <2>6. down'[p] = t
      BY <2>1 DEF t, q
    <2> QED
      BY <2>1, <2>2, <2>3, <2>4, <2>5, <2>6 DEF q
  <1> QED
    BY <1>3, <1>4, <1>5, <1>6 DEF Quiet

-----------------------------------------------------------------------------
(***************************************************************************)
(* Steps that create no assignment                                         *)
(***************************************************************************)

\* The records keep their packager and program, leases are only extended,
\* what is over stays over, and "stopped" is set when nobody is at work.
Onward ==
  /\ assignments' \in Seq(Assignment) /\ Len(assignments') = Len(assignments)
  /\ now' \in Nat /\ now <= now'
  /\ \A id \in Ids :
       LET r == assignments[id]
           s == assignments'[id]
       IN /\ s.packager = r.packager /\ s.program = r.program
          /\ r.expiresAt <= s.expiresAt /\ s.expiresAt <= now' + LeaseTime
          /\ s.state \in ActiveStates => r.state \in ActiveStates
          /\ s.state = "failed" => \/ r.state \in ActiveStates
                                   \/ r.state = "failed" /\ s.expiresAt = r.expiresAt
          /\ s.state = "stopped" => r.state = "stopped" \/ ~Reachable(id)

LEMMA OccupiedFinite ==
  ASSUME IInv
  PROVE  IsFiniteSet(Occupied) /\ Cardinality(Occupied) \in Nat /\ Occupied \subseteq Ids
  <1>1. Occupied \subseteq 1..Len(assignments) /\ Len(assignments) \in Nat
    BY Typed DEF Occupied
  <1>2. IsFiniteSet(1..Len(assignments))
    BY <1>1, FS_Interval
  <1> QED
    BY <1>1, <1>2, FS_Subset, FS_CardinalityType, Typed

LEMMA OnwardFacts ==
  ASSUME IInv, Onward
  PROVE  /\ Ids' = Ids /\ Leases' /\ Occupied' \subseteq Occupied
         /\ \A id \in Ids : assignments'[id] \in Assignment
  <1>1. Ids' = Ids
    BY Typed DEF Onward, Ids
  <1>2. Leases'
    BY <1>1 DEF Onward, Leases
  <1>3. \A id \in Ids : assignments'[id] \in Assignment /\ assignments[id] \in Assignment
    BY <1>1, Typed DEF Onward, Ids
  <1>4. ASSUME NEW id \in Ids, id \in Occupied' PROVE id \in Occupied
    <2> DEFINE r == assignments[id]
               s == assignments'[id]
    <2>1. r.expiresAt \in Nat /\ s.expiresAt \in Nat /\ now \in Nat /\ now' \in Nat /\ now <= now'
      BY <1>3, Typed DEF Assignment, Onward
    <2>2. s.state \in ActiveStates \/ (s.state = "failed" /\ s.expiresAt > now')
      BY <1>1, <1>4 DEF Occupied, Active
    <2>3. CASE r.state \in ActiveStates
      BY <2>3 DEF Occupied, Active
    <2>4. CASE r.state \notin ActiveStates
      <3>1. r.state = "failed" /\ s.expiresAt = r.expiresAt /\ s.expiresAt > now'
        BY <2>2, <2>4 DEF Onward
      <3>2. r.expiresAt > now
        BY <2>1, <3>1
      <3> QED
        BY <3>1, <3>2 DEF Occupied
    <2> QED
      BY <2>3, <2>4
  <1>5. Occupied' \subseteq Ids
    BY <1>1 DEF Occupied
  <1> QED
    BY <1>1, <1>2, <1>3, <1>4, <1>5

\* The wires: nothing new is prepared, and nobody new can start to work.
LEMMA WireCore ==
  ASSUME IInv, Onward, \A p \in Packagers : Quiet(p),
         \A id : Reachable(id)' => Reachable(id),
         \A p \in Packagers : \A i \in DOMAIN up'[p] : up'[p][i].kind = "status" =>
           \/ \E j \in DOMAIN up[p] : up'[p][i] = up[p][j]
           \/ /\ up'[p][i].id \in Ids
              /\ \A id \in Ids : up'[p][i].id = id /\ up'[p][i].state = "stopped" => ~Reachable(id)'
  PROVE  Commands' /\ Reported' /\ StoppedIsOver' /\ Superseded'
  <1>1. Ids' = Ids
    BY OnwardFacts
  <1>2. \A p \in Packagers :
         /\ \A i \in DOMAIN down'[p] :
              \/ \E j \in DOMAIN down[p] : down'[p][i] = down[p][j]
              \/ down'[p][i].kind # "prepare" /\ Sound(assignments', p, down'[p][i])
         /\ \A id : Prepares(down'[p], id) => Prepares(down[p], id)
         /\ \A i, j \in DOMAIN down'[p] :
              /\ down'[p][i].kind = "prepare" /\ down'[p][j].kind = "prepare"
              /\ down'[p][i].id = down'[p][j].id
              => i = j
    BY QuietFacts
  <1>4. Commands'
    <2>1. ASSUME NEW p \in Packagers, NEW m \in Command, Sound(assignments, p, m) PROVE Sound(assignments', p, m)
      <3>1. \A id \in Ids : /\ assignments[id].expiresAt \in Nat /\ assignments'[id].expiresAt \in Nat
                            /\ assignments[id].expiresAt <= assignments'[id].expiresAt
                            /\ assignments'[id].packager = assignments[id].packager
        BY OnwardFacts, Typed DEF Onward, Assignment
      <3>2. m.kind \in {"prepare", "renew"} => m.expiresAt \in Nat
        BY DEF Command
      <3>3. DOMAIN assignments' = Ids /\ DOMAIN assignments = Ids
        BY <1>1 DEF Ids
      <3> QED
        BY <2>1, <3>1, <3>2, <3>3 DEF Sound
    <2>2. \A p \in Packagers : \A j \in DOMAIN down[p] : down[p][j] \in Command /\ Sound(assignments, p, down[p][j])
      BY Typed DEF IInv, Commands
    <2>3. \A p \in Packagers : \A i \in DOMAIN down'[p] : Sound(assignments', p, down'[p][i])
      BY <1>2, <2>1, <2>2
    <2> QED
      BY <1>2, <2>3 DEF Commands
  <1>6. Reported'
    BY <1>1 DEF IInv, Reported
  <1>7. StoppedIsOver'
    <2>1. \A p \in Packagers : \A i \in DOMAIN up'[p] : \A id \in Ids :
            up'[p][i].kind = "status" /\ up'[p][i].state = "stopped" /\ up'[p][i].id = id => ~Reachable(id)'
      <3>1. \A p \in Packagers : \A j \in DOMAIN up[p] : \A id \in Ids :
              up[p][j].kind = "status" /\ up[p][j].state = "stopped" /\ up[p][j].id = id => ~Reachable(id)
        BY DEF IInv, StoppedIsOver
      <3> QED
        BY <3>1
    <2>2. \A id \in Ids : assignments'[id].state = "stopped" => ~Reachable(id)'
      BY DEF Onward, IInv, StoppedIsOver
    <2>3. \A p \in Packagers : \A i \in DOMAIN up'[p] : up'[p][i].kind = "status" => up'[p][i].id \in Ids
      BY <1>1, <1>6 DEF Reported
    <2> QED
      BY <1>1, <2>1, <2>2, <2>3 DEF StoppedIsOver
  <1>8. Superseded'
    BY <1>1 DEF Onward, IInv, Superseded
  <1> QED
    BY <1>4, <1>6, <1>7, <1>8

\* Nobody starts to work.
LEMMA WireKeeps ==
  ASSUME IInv, Onward, \A p \in Packagers : Quiet(p),
         agent' \in [Packagers -> Work \cup {None}],
         \A p \in Packagers : agent'[p] # None =>
           /\ agent[p] # None /\ agent'[p].id = agent[p].id
           /\ agent'[p].expiresAt <= assignments'[agent[p].id].expiresAt,
         \A p \in Packagers : \A i \in DOMAIN up'[p] : up'[p][i].kind = "status" =>
           \/ \E j \in DOMAIN up[p] : up'[p][i] = up[p][j]
           \/ /\ up'[p][i].id \in Ids
              /\ \A id \in Ids : up'[p][i].id = id /\ up'[p][i].state = "stopped" => ~Reachable(id)'
  PROVE  Commands' /\ Held' /\ Reported' /\ StoppedIsOver' /\ Superseded'
  <1>1. Ids' = Ids
    BY OnwardFacts
  <1>2. \A p \in Packagers :
         /\ \A i \in DOMAIN down'[p] :
              \/ \E j \in DOMAIN down[p] : down'[p][i] = down[p][j]
              \/ down'[p][i].kind # "prepare" /\ Sound(assignments', p, down'[p][i])
         /\ \A id : Prepares(down'[p], id) => Prepares(down[p], id)
         /\ \A i, j \in DOMAIN down'[p] :
              /\ down'[p][i].kind = "prepare" /\ down'[p][j].kind = "prepare"
              /\ down'[p][i].id = down'[p][j].id
              => i = j
    BY QuietFacts
  <1>3. \A id : Reachable(id)' => Reachable(id)
    BY <1>2 DEF Reachable, Holds
  <1>4. Commands' /\ Reported' /\ StoppedIsOver' /\ Superseded'
    BY <1>3, WireCore
  <1>5. Held'
    <2> SUFFICES ASSUME NEW p \in Packagers, agent'[p] # None
                 PROVE  /\ agent'[p].id \in Ids /\ assignments'[agent'[p].id].packager = p
                        /\ agent'[p].expiresAt <= assignments'[agent'[p].id].expiresAt
                        /\ ~Prepares(down'[p], agent'[p].id)
      BY <1>1 DEF Held
    <2>1. /\ agent[p].id \in Ids /\ assignments[agent[p].id].packager = p
          /\ ~Prepares(down[p], agent[p].id)
      BY DEF IInv, Held
    <2> QED
      BY <1>2, <2>1 DEF Onward
  <1> QED
    BY <1>4, <1>5

\* The server's indexes: entries go, a handoff takes the last assignment.
LEMMA IndexKeeps ==
  ASSUME IInv, Onward, plan'.slots = plan.slots,
         \A g \in Programs :
           /\ byProgram'[g] \in {0, byProgram[g]}
           /\ \/ handoffs'[g] \in {None, handoffs[g]}
              \/ /\ byProgram[g] # 0 /\ handoffs'[g].previous = byProgram[g]
                 /\ programs'[g].phase # "draft"
           /\ programs'[g].phase = "draft" => programs[g].phase = "draft"
  PROVE  Latest' /\ Leases' /\ Budget'
  <1>1. Ids' = Ids /\ Leases' /\ Occupied' \subseteq Occupied
    BY OnwardFacts
  <1>2. \A g \in Programs, id \in Ids : Last(g, id) => Last(g, id)'
    BY <1>1 DEF Last, Onward
  <1>3. \A g \in Programs : byProgram[g] \in {0} \cup Ids
    BY Typed
  <1>4. Latest'
    <2> SUFFICES ASSUME NEW g \in Programs
                 PROVE  /\ \A id : byProgram'[g] = id /\ id # 0 => Last(g, id)'
                        /\ \A id : handoffs'[g] # None /\ id = handoffs'[g].previous => id \in Ids /\ Last(g, id)'
                        /\ programs'[g].phase = "draft" =>
                             handoffs'[g] = None /\ \A id \in Ids : assignments'[id].program # g
      BY <1>1 DEF Latest
    <2>1. \A id : byProgram'[g] = id /\ id # 0 => Last(g, id)'
      BY <1>2, <1>3 DEF IInv, Latest
    <2>2. \A id : handoffs'[g] # None /\ id = handoffs'[g].previous => id \in Ids /\ Last(g, id)'
      <3>1. \A id : handoffs[g] # None /\ id = handoffs[g].previous => id \in Ids /\ Last(g, id)
        BY DEF IInv, Latest
      <3>2. byProgram[g] # 0 => byProgram[g] \in Ids /\ Last(g, byProgram[g])
        BY <1>3 DEF IInv, Latest
      <3> QED
        BY <1>2, <3>1, <3>2
    <2>3. programs'[g].phase = "draft" =>
            handoffs'[g] = None /\ \A id \in Ids : assignments'[id].program # g
      BY DEF Onward, IInv, Latest
    <2> QED
      BY <2>1, <2>2, <2>3
  <1>5. Budget'
    <2>1. IsFiniteSet(Occupied) /\ Cardinality(Occupied) \in Nat
      BY OccupiedFinite
    <2>2. Cardinality(Occupied') <= Cardinality(Occupied) /\ IsFiniteSet(Occupied')
      BY <1>1, <2>1, FS_Subset
    <2>3. Cardinality(Occupied') \in Nat /\ plan.slots \in Nat
      BY <2>2, FS_CardinalityType, Typed DEF Plan
    <2>4. Cardinality(Occupied) <= plan.slots
      BY DEF IInv, Budget
    <2>5. Cardinality(Occupied') <= plan'.slots
      BY <2>1, <2>2, <2>3, <2>4
    <2> QED
      BY <2>5 DEF Budget
  <1> QED
    BY <1>1, <1>4, <1>5

\* What a step that creates no assignment does to each part.
QuietWires == down' \in [Packagers -> Seq(Command)] /\ \A p \in Packagers : Quiet(p)

QuietAgents ==
  /\ agent' \in [Packagers -> Work \cup {None}]
  /\ \A p \in Packagers : agent'[p] # None =>
       /\ agent[p] # None /\ agent'[p].id = agent[p].id
       /\ agent'[p].expiresAt <= assignments'[agent[p].id].expiresAt

QuietReports ==
  /\ up' \in [Packagers -> Seq(Message)]
  /\ \A p \in Packagers : \A i \in DOMAIN up'[p] : up'[p][i].kind = "status" =>
       \/ \E j \in DOMAIN up[p] : up'[p][i] = up[p][j]
       \/ /\ up'[p][i].id \in Ids
          /\ \A id \in Ids : up'[p][i].id = id /\ up'[p][i].state = "stopped" => ~Reachable(id)'

QuietIndexes ==
  /\ byPackager' \in [Packagers -> {0} \cup Ids] /\ byProgram' \in [Programs -> {0} \cup Ids]
  /\ \A g \in Programs : byProgram'[g] \in {0, byProgram[g]}

QuietPrograms ==
  /\ programs' \in [Programs -> [phase : Phases, writer : {0} \cup Ids]]
  /\ \A g \in Programs : programs'[g].phase = "draft" => programs[g].phase = "draft"

QuietHandoffs ==
  /\ handoffs' \in [Programs -> HandoffRequest \cup {None}]
  /\ \A g \in Programs : \/ handoffs'[g] \in {None, handoffs[g]}
                         \/ /\ byProgram[g] # 0 /\ handoffs'[g].previous = byProgram[g]
                            /\ programs'[g].phase # "draft"

QuietLinks ==
  /\ socket' \in [Packagers -> {"none", "open", "closing"}]
  /\ linked' \in [Packagers -> BOOLEAN]
  /\ plan' \in Plan /\ plan'.slots = plan.slots

LEMMA StepKeeps ==
  ASSUME IInv, Onward, QuietWires, QuietAgents, QuietReports, QuietIndexes, QuietPrograms,
         QuietHandoffs, QuietLinks
  PROVE  IInv'
  <1>1. Commands' /\ Held' /\ Reported' /\ StoppedIsOver' /\ Superseded'
    BY WireKeeps DEF QuietWires, QuietAgents, QuietReports
  <1>2. Latest' /\ Leases' /\ Budget'
    BY IndexKeeps DEF QuietIndexes, QuietPrograms, QuietHandoffs, QuietLinks
  <1>3. TypeOK'
    <2>1. Ids' = Ids
      BY OnwardFacts
    <2> QED
      BY <2>1 DEF TypeOK, Onward, QuietWires, QuietAgents, QuietReports, QuietIndexes, QuietPrograms,
                  QuietHandoffs, QuietLinks
  <1> QED
    BY <1>1, <1>2, <1>3 DEF IInv

LEMMA Unchanged ==
  ASSUME IInv
  PROVE  /\ UNCHANGED <<assignments, now>> => Onward
         /\ UNCHANGED down => QuietWires
         /\ Onward /\ UNCHANGED agent => QuietAgents
         /\ UNCHANGED up => QuietReports
         /\ UNCHANGED <<byPackager, byProgram>> => QuietIndexes
         /\ UNCHANGED programs => QuietPrograms
         /\ UNCHANGED handoffs => QuietHandoffs
         /\ UNCHANGED <<socket, linked, plan>> => QuietLinks
  <1>r. \A id \in Ids : /\ assignments[id].expiresAt \in Nat
                        /\ assignments[id].state \in States
    BY Typed DEF Assignment
  <1>1. UNCHANGED <<assignments, now>> => Onward
    BY <1>r, Typed DEF Onward, IInv, Leases, States, ActiveStates
  <1>2. UNCHANGED down => QuietWires
    BY Typed DEF QuietWires, Quiet
  <1>3. Onward /\ UNCHANGED agent => QuietAgents
    <2> SUFFICES ASSUME Onward, UNCHANGED agent, NEW p \in Packagers, agent[p] # None
                 PROVE  agent[p].expiresAt <= assignments'[agent[p].id].expiresAt
      BY Typed DEF QuietAgents
    <2>1. agent[p] \in Work /\ agent[p].id \in Ids /\ agent[p].expiresAt <= assignments[agent[p].id].expiresAt
      BY Typed DEF IInv, Held
    <2>2. agent[p].expiresAt \in Nat /\ assignments'[agent[p].id].expiresAt \in Nat
      BY <2>1, OnwardFacts DEF Work, Assignment
    <2> QED
      BY <1>r, <2>1, <2>2 DEF Onward
  <1>4. UNCHANGED up => QuietReports
    BY Typed DEF QuietReports
  <1>5. UNCHANGED <<byPackager, byProgram>> => QuietIndexes
    BY Typed DEF QuietIndexes
  <1>6. UNCHANGED programs => QuietPrograms
    BY Typed DEF QuietPrograms
  <1>7. UNCHANGED handoffs => QuietHandoffs
    BY Typed DEF QuietHandoffs
  <1>8. UNCHANGED <<socket, linked, plan>> => QuietLinks
    BY Typed DEF QuietLinks
  <1> QED
    BY <1>1, <1>2, <1>3, <1>4, <1>5, <1>6, <1>7, <1>8

LEMMA MovedOnward ==
  ASSUME IInv, NEW id \in Ids, NEW st \in States, assignments' = Moved(id, st), now' = now,
         st \in ActiveStates => assignments[id].state \in ActiveStates,
         st = "failed" => assignments[id].state \in ActiveStates \cup {"failed"},
         st = "stopped" => assignments[id].state = "stopped" \/ ~Reachable(id)
  PROVE  Onward
  <1> DEFINE r == assignments[id]
             s == [r EXCEPT !.state = st]
  <1>1. r \in Assignment
    BY Typed
  <1>2. assignments' = [assignments EXCEPT ![id] = s]
    BY <1>1, Typed DEF Moved, Assignment
  <1>3. /\ s \in Assignment /\ s.packager = r.packager /\ s.program = r.program
        /\ s.expiresAt = r.expiresAt /\ s.state = st
    BY <1>1 DEF Assignment
  <1>4. id \in 1..Len(assignments) /\ assignments \in Seq(Assignment)
    BY Typed
  <1> HIDE DEF s
  <1>5. assignments' \in Seq(Assignment) /\ Len(assignments') = Len(assignments)
    BY <1>2, <1>3, <1>4
  <1>6. assignments'[id] = s /\ \A j \in Ids : j # id => assignments'[j] = assignments[j]
    BY <1>2, <1>4, Typed
  <1>7. \A j \in Ids : /\ assignments[j].expiresAt \in Nat /\ assignments[j].state \in States
                       /\ assignments[j].expiresAt <= now + LeaseTime
    BY Typed DEF Assignment, IInv, Leases
  <1>8. now \in Nat /\ now <= now
    BY Typed
  <1> QED
    BY <1>3, <1>5, <1>6, <1>7, <1>8 DEF Onward, States

LEMMA SpendFacts ==
  ASSUME IInv, NEW e \in Events, Spend(e)
  PROVE  plan' \in Plan /\ plan'.slots = plan.slots
  <1>1. plan \in Plan /\ plan[e] \in Nat /\ plan[e] > 0
    BY Typed DEF Spend, Plan, Events
  <1> DEFINE n == plan[e] - 1
  <1>2. n \in Nat
    BY <1>1
  <1>3. plan' = [plan EXCEPT ![e] = n]
    BY <1>1 DEF Spend
  <1> HIDE DEF n
  <1> QED
    BY <1>1, <1>2, <1>3 DEF Plan, Events

LEMMA SpendQuiet ==
  ASSUME IInv, NEW e \in Events, Spend(e), UNCHANGED <<socket, linked>>
  PROVE  QuietLinks
  BY SpendFacts, Typed DEF QuietLinks

LEMMA StopQuiet ==
  ASSUME IInv, NEW gs, StopPrograms(gs)
  PROVE  QuietPrograms
  <1>1. [phase |-> "stopped", writer |-> 0] \in [phase : Phases, writer : {0} \cup Ids]
    BY DEF Phases
  <1> QED
    BY <1>1, Typed DEF StopPrograms, QuietPrograms

LEMMA ReleaseQuiet ==
  ASSUME IInv, NEW ids, ReleaseIndexes(ids)
  PROVE  QuietIndexes
  BY Typed DEF ReleaseIndexes, QuietIndexes

\* A command that prepares nothing is sent.
LEMMA SentQuiet ==
  ASSUME IInv, NEW p \in Packagers, NEW m \in Command, m.kind # "prepare",
         Sound(assignments', p, m), down' = Sent(down, p, m)
  PROVE  QuietWires
  <1>1. down[p] \in Seq(Command)
    BY Typed
  <1>2. Append(down[p], m) \in Seq(Command)
    BY <1>1, QueueAppend
  <1>3. down' = [down EXCEPT ![p] = IF socket[p] = "open" THEN Append(down[p], m) ELSE down[p]]
    BY Typed DEF Sent
  <1>4. down' \in [Packagers -> Seq(Command)]
    BY <1>1, <1>2, <1>3, Typed
  <1>5. down'[p] = down[p] \/ down'[p] = Append(down[p], m)
    BY <1>3, Typed
  <1>6. \A q \in Packagers : q # p => down'[q] = down[q]
    BY <1>3, Typed
  <1> QED
    BY <1>4, <1>5, <1>6 DEF QuietWires, Quiet

LEMMA StopCommandFacts ==
  ASSUME NEW id \in Nat \ {0}, NEW records, NEW p
  PROVE  /\ StopCommand(id) \in Command /\ StopCommand(id).kind = "stop"
         /\ Sound(records, p, StopCommand(id))
  BY DEF StopCommand, Command, Sound

LEMMA GoodbyeFacts ==
  ASSUME NEW records, NEW p
  PROVE  Goodbye \in Command /\ Goodbye.kind = "error" /\ Sound(records, p, Goodbye)
  BY DEF Goodbye, Command, Sound

LEMMA BusyFacts ==
  ASSUME IInv, NEW p \in Packagers, Busy(p)
  PROVE  byPackager[p] \in Ids /\ assignments[byPackager[p]].state \in ActiveStates
         /\ assignments[byPackager[p]] \in Assignment
  BY Typed DEF Busy, Active

LEMMA FailQuiet ==
  ASSUME IInv, NEW p \in Packagers, FailPackager(p), now' = now
  PROVE  Onward /\ QuietIndexes
  <1>1. CASE Busy(p)
    <2>1. byPackager[p] \in Ids /\ assignments[byPackager[p]].state \in ActiveStates
      BY <1>1, BusyFacts
    <2>2. assignments' = Moved(byPackager[p], "failed") /\ ReleaseIndexes({byPackager[p]})
      BY <1>1 DEF FailPackager
    <2>3. "failed" \in States /\ "failed" \notin ActiveStates
      BY DEF States, ActiveStates, Renewable
    <2> QED
      BY <2>1, <2>2, <2>3, MovedOnward, ReleaseQuiet
  <1>2. CASE ~Busy(p)
    BY <1>2, Unchanged DEF FailPackager, registry
  <1> QED
    BY <1>1, <1>2

LEMMA FunctionOnward ==
  ASSUME IInv, assignments' \in [Ids -> Assignment], now' = now,
         \A id \in Ids :
           LET r == assignments[id]
               s == assignments'[id]
           IN /\ s.packager = r.packager /\ s.program = r.program /\ s.expiresAt = r.expiresAt
              /\ \/ s.state = r.state
                 \/ r.state \in ActiveStates /\ s.state \in ActiveStates \cup {"failed"}
  PROVE  Onward
  <1>1. Ids = 1..Len(assignments) /\ Len(assignments) \in Nat
    BY Typed
  <1>2. assignments' \in Seq(Assignment) /\ Len(assignments') = Len(assignments)
    BY <1>1
  <1>3. \A j \in Ids : /\ assignments[j].expiresAt \in Nat /\ assignments[j].state \in States
                       /\ assignments[j].expiresAt <= now + LeaseTime
    BY Typed DEF Assignment, IInv, Leases
  <1>4. now \in Nat /\ now <= now
    BY Typed
  <1>5. "failed" \notin ActiveStates /\ "stopped" \notin ActiveStates
    BY DEF ActiveStates, Renewable
  <1> QED
    BY <1>2, <1>3, <1>4, <1>5 DEF Onward, States

LEMMA DrainedOnward ==
  ASSUME IInv, NEW ids, assignments' = Drained(ids), now' = now
  PROVE  Onward
  <1>1. ASSUME NEW id \in Ids
        PROVE  LET r == assignments[id]
                   s == assignments'[id]
               IN /\ s \in Assignment
                  /\ s.packager = r.packager /\ s.program = r.program /\ s.expiresAt = r.expiresAt
                  /\ \/ s.state = r.state
                     \/ r.state \in ActiveStates /\ s.state \in ActiveStates \cup {"failed"}
    <2> DEFINE r == assignments[id]
    <2>1. r \in Assignment
      BY Typed
    <2>2. Moved(id, "draining")[id] = [r EXCEPT !.state = "draining"]
      BY Typed DEF Moved, Ids
    <2>3. CASE id \in ids /\ r.state \in Renewable
      <3>1. assignments'[id] = [r EXCEPT !.state = "draining"]
        BY <2>2, <2>3 DEF Drained
      <3> QED
        BY <2>1, <2>3, <3>1 DEF Assignment, States, ActiveStates
    <2>4. CASE ~(id \in ids /\ r.state \in Renewable)
      <3>1. assignments'[id] = r
        BY <2>4 DEF Drained
      <3> QED
        BY <2>1, <3>1
    <2> QED
      BY <2>3, <2>4
  <1>2. assignments' \in [Ids -> Assignment]
    BY <1>1 DEF Drained
  <1> QED
    BY <1>1, <1>2, FunctionOnward

LEMMA IdType ==
  ASSUME IInv
  PROVE  /\ \A id \in Ids : id \in Nat \ {0}
         /\ 0 \notin Ids
         /\ \A id \in Ids : /\ assignments[id].packager \in Packagers
                            /\ assignments[id].program \in Programs
                            /\ assignments[id].state \in States
                            /\ assignments[id].expiresAt \in Nat
  <1>1. Len(assignments) \in Nat /\ Ids = 1..Len(assignments)
    BY Typed
  <1>2. \A id \in Ids : id \in Nat \ {0}
    BY <1>1
  <1>3. \A id \in Ids : assignments[id] \in Assignment
    BY Typed
  <1> QED
    BY <1>2, <1>3 DEF Assignment

-----------------------------------------------------------------------------
(***************************************************************************)
(* Requests of the owner                                                   *)
(***************************************************************************)
LEMMA PrepareConflictKeeps ==
  ASSUME IInv, NEW g \in Programs, NEW p \in Packagers, PrepareConflict(g, p) PROVE IInv'
  <1>1. /\ Busy(p) /\ assignments' = Moved(byPackager[p], "failed")
        /\ ReleaseIndexes({byPackager[p]}) /\ StopPrograms({g})
        /\ UNCHANGED <<handoffs, socket, agent, linked, up, down, plan, now>>
    BY DEF PrepareConflict
  <1>2. Onward /\ QuietIndexes
    BY <1>1, FailQuiet DEF FailPackager
  <1> QED
    BY <1>1, <1>2, Unchanged, StopQuiet, StepKeeps

LEMMA StopProgramKeeps == ASSUME IInv, NEW g \in Programs, StopProgram(g) PROVE IInv'
  <1> DEFINE id == byProgram[g]
  <1>1. /\ assignments' = Drained({id}) /\ down' = StopSent(id) /\ StopPrograms({g}) /\ Spend("owner")
        /\ UNCHANGED <<byPackager, byProgram, handoffs, socket, agent, linked, up, now>>
    BY DEF StopProgram
  <1>2. Onward
    BY <1>1, DrainedOnward
  <1>3. QuietWires
    <2>1. CASE Active(id) /\ assignments[id].state # "draining"
      <3>1. id \in Ids /\ down' = Sent(down, assignments[id].packager, StopCommand(id))
        BY <1>1, <2>1 DEF StopSent, Active
      <3>2. id \in Nat \ {0} /\ assignments[id].packager \in Packagers
        BY <3>1, IdType
      <3>3. /\ StopCommand(id) \in Command /\ StopCommand(id).kind # "prepare"
            /\ Sound(assignments', assignments[id].packager, StopCommand(id))
        BY <3>2, StopCommandFacts
      <3> QED
        BY <3>1, <3>2, <3>3, SentQuiet
    <2>2. CASE ~(Active(id) /\ assignments[id].state # "draining")
      BY <1>1, <2>2, Unchanged DEF StopSent
    <2> QED
      BY <2>1, <2>2
  <1>4. QuietLinks
    BY <1>1, SpendQuiet DEF Events
  <1> QED
    BY <1>1, <1>2, <1>3, <1>4, Unchanged, StopQuiet, StepKeeps

LEMMA PublisherLeavesKeeps == ASSUME IInv, NEW g \in Programs, PublisherLeaves(g) PROVE IInv'
  <1>1. /\ StopPrograms({g}) /\ Spend("owner")
        /\ UNCHANGED <<assignments, byPackager, byProgram, handoffs, socket, agent, linked, up, down, now>>
    BY DEF PublisherLeaves, registry
  <1>2. QuietLinks
    BY <1>1, SpendQuiet DEF Events
  <1> QED
    BY <1>1, <1>2, Unchanged, StopQuiet, StepKeeps

LEMMA CancelHandoffKeeps == ASSUME IInv, NEW g \in Programs, CancelHandoff(g) PROVE IInv'
  <1>1. /\ StopPrograms({g} \cap {x \in Programs : programs[x].phase = "handoff"})
        /\ handoffs' = [handoffs EXCEPT ![g] = None]
        /\ UNCHANGED <<assignments, byPackager, byProgram, socket, agent, linked, up, down, plan, now>>
    BY DEF CancelHandoff, registry
  <1>2. QuietHandoffs
    BY <1>1, Typed DEF QuietHandoffs
  <1> QED
    BY <1>1, <1>2, Unchanged, StopQuiet, StepKeeps

LEMMA BeginHandoffKeeps ==
  ASSUME IInv, NEW g \in Programs, NEW to \in Packagers, BeginHandoff(g, to) PROVE IInv'
  <1> DEFINE id == byProgram[g]
             from == assignments[id].packager
             h == IF socket[from] = "open" THEN [previous |-> id, to |-> to] ELSE None
             n == [phase |-> IF socket[from] = "open" THEN "handoff" ELSE "stopped", writer |-> 0]
  <1>1. /\ id # 0 /\ assignments[id].state \in {"running", "degraded"}
        /\ assignments' = Moved(id, "draining") /\ down' = Sent(down, from, StopCommand(id))
        /\ programs' = [programs EXCEPT ![g] = n] /\ handoffs' = [handoffs EXCEPT ![g] = h]
        /\ Spend("owner")
        /\ UNCHANGED <<byPackager, byProgram, socket, agent, linked, up, now>>
    BY DEF BeginHandoff
  <1>2. id \in Ids /\ id \in Nat \ {0} /\ from \in Packagers
    BY <1>1, Typed, IdType
  <1>3. Onward
    <2>1. /\ "draining" \in States /\ assignments[id].state \in ActiveStates
      BY <1>1 DEF States, ActiveStates, Renewable
    <2> QED
      BY <1>1, <1>2, <2>1, MovedOnward
  <1>4. QuietWires
    <2>1. /\ StopCommand(id) \in Command /\ StopCommand(id).kind # "prepare"
          /\ Sound(assignments', from, StopCommand(id))
      BY <1>2, StopCommandFacts
    <2> QED
      BY <1>1, <1>2, <2>1, SentQuiet
  <1>5. QuietPrograms
    <2>1. n \in [phase : Phases, writer : {0} \cup Ids] /\ n.phase # "draft"
      BY DEF Phases
    <2> HIDE DEF n
    <2> QED
      BY <1>1, <2>1, Typed DEF QuietPrograms
  <1>6. QuietHandoffs
    <2>1. h = None \/ (h \in HandoffRequest /\ h.previous = id)
      BY <1>2 DEF HandoffRequest
    <2>2. programs'[g].phase # "draft"
      <3>1. n.phase # "draft"
        OBVIOUS
      <3> QED
        BY <1>1, <3>1, Typed
    <2> HIDE DEF h, n, id
    <2>3. handoffs' \in [Programs -> HandoffRequest \cup {None}]
      BY <1>1, <2>1, Typed
    <2>4. handoffs'[g] = h /\ \A x \in Programs : x # g => handoffs'[x] = handoffs[x]
      BY <1>1, Typed
    <2> QED
      BY <1>1, <2>1, <2>2, <2>3, <2>4 DEF QuietHandoffs, id
  <1>7. QuietLinks
    BY <1>1, SpendQuiet DEF Events
  <1> QED
    BY <1>1, <1>3, <1>4, <1>5, <1>6, <1>7, Unchanged, StepKeeps

\* A new assignment, for a program none of whose assignments is at work.
LEMMA AssignKeeps ==
  ASSUME IInv, NEW g \in Programs, NEW p \in Packagers, Assign(g, p),
         UNCHANGED <<socket, agent, linked, up, plan, now>>,
         Cardinality(Occupied) < plan.slots,
         \A id \in Ids : assignments[id].program = g => ~Reachable(id),
         handoffs' = [handoffs EXCEPT ![g] = None]
  PROVE  IInv'
  <1> DEFINE n == Len(assignments) + 1
             open == socket[p] = "open"
             entry == IF open THEN n ELSE 0
             until == now + LeaseTime
             new == [packager |-> p, program |-> g, state |-> IF open THEN "preparing" ELSE "failed",
                     expiresAt |-> until, expiredAt |-> 0]
             prog == [phase |-> IF open THEN "preparing" ELSE "stopped", writer |-> entry]
             m == PrepareCommand(n, until)
  <1>1. /\ assignments' = Append(assignments, new)
        /\ byPackager' = [byPackager EXCEPT ![p] = entry]
        /\ byProgram' = [byProgram EXCEPT ![g] = entry]
        /\ programs' = [programs EXCEPT ![g] = prog]
        /\ down' = Sent(down, p, m)
    BY DEF Assign
  <1>2. until \in Nat /\ now \in Nat /\ until <= now + LeaseTime
    <2>1. now \in Nat /\ LeaseTime \in Nat
      BY Typed, AssignmentConstants
    <2> QED
      BY <2>1
  <1>3. /\ new \in Assignment /\ new.packager = p /\ new.program = g /\ new.expiresAt = until
        /\ new.state # "stopped"
    BY <1>2 DEF Assignment, States, ActiveStates, Renewable
  <1>4. n \in Nat \ {0} /\ n \notin Ids /\ \A id \in Ids : id < n /\ id \in Nat
    BY Typed
  <1> HIDE DEF new, until
  <1>5. /\ assignments' \in Seq(Assignment) /\ Ids' = Ids \cup {n} /\ assignments'[n] = new
        /\ \A id \in Ids : assignments'[id] = assignments[id]
    BY <1>1, <1>3, Typed, QueueAppend DEF Ids
  <1>6. prog \in [phase : Phases, writer : {0} \cup Ids'] /\ prog.phase # "draft"
    BY <1>5 DEF Phases
  <1> HIDE DEF prog
  <1>7. m \in Command /\ m.kind = "prepare" /\ m.id = n /\ m.expiresAt = until
    BY <1>2, <1>4 DEF PrepareCommand, Command
  <1>8. entry \in {0} \cup Ids'
    BY <1>5
  <1> HIDE DEF m, n
  <1>9. /\ down' \in [Packagers -> Seq(Command)]
        /\ down'[p] = down[p] \/ down'[p] = Append(down[p], m)
        /\ \A q \in Packagers : q # p => down'[q] = down[q]
    <2>1. down[p] \in Seq(Command)
      BY Typed
    <2>2. Append(down[p], m) \in Seq(Command)
      BY <1>7, <2>1, QueueAppend
    <2>3. down' = [down EXCEPT ![p] = IF open THEN Append(down[p], m) ELSE down[p]]
      BY <1>1, Typed DEF Sent
    <2> QED
      BY <2>1, <2>2, <2>3, Typed
  <1> HIDE DEF open
  <1>10. TypeOK'
    <2>1. byPackager' \in [Packagers -> {0} \cup Ids'] /\ byProgram' \in [Programs -> {0} \cup Ids']
      <3> HIDE DEF entry
      <3> QED
        BY <1>1, <1>5, <1>8, Typed
    <2>2. programs' \in [Programs -> [phase : Phases, writer : {0} \cup Ids']]
      <3>1. \A x \in Programs : programs[x] \in [phase : Phases, writer : {0} \cup Ids']
        <4>1. \A x \in Programs : programs[x] \in [phase : Phases, writer : {0} \cup Ids]
          BY Typed
        <4> QED
          BY <1>5, <4>1
      <3> QED
        BY <1>1, <1>6, <3>1, Typed
    <2>3. handoffs' \in [Programs -> HandoffRequest \cup {None}]
      BY Typed
    <2> QED
      BY <1>5, <1>9, <2>1, <2>2, <2>3, Typed DEF TypeOK
  <1>11. \A q \in Packagers : \A i \in DOMAIN down[q] : down[q][i].kind = "prepare" => down[q][i].id \in Ids
    BY DEF IInv, Commands, Sound, Ids
  <1>12. \A q \in Packagers : \A id \in Ids : Prepares(down'[q], id) => Prepares(down[q], id)
    <2>1. \A id \in Ids : Prepares(Append(down[p], m), id) => Prepares(down[p], id)
      <3> DEFINE s == down[p]
                 t == Append(s, m)
                 l == Len(s) + 1
      <3>1. DOMAIN t = DOMAIN s \cup {l} /\ t[l] = m /\ \A i \in DOMAIN s : t[i] = s[i]
        BY <1>7, Typed, QueueAppend
      <3> HIDE DEF s, t, l
      <3>2. \A id \in Ids : Prepares(t, id) => Prepares(s, id)
        BY <1>4, <1>7, <3>1 DEF Prepares
      <3> QED
        BY <3>2 DEF s, t
    <2> QED
      BY <1>9, <2>1
  <1>13. \A id \in Ids : Reachable(id)' => Reachable(id)
    BY <1>12 DEF Reachable, Holds
  <1>14. Commands'
    <2>1. ASSUME NEW q \in Packagers, NEW x \in Command, Sound(assignments, q, x)
          PROVE  Sound(assignments', q, x)
      BY <1>5, <2>1 DEF Sound, Ids
    <2>2. Sound(assignments', p, m)
      <3>1. n \in DOMAIN assignments' /\ until <= until
        BY <1>2, <1>5 DEF Ids
      <3> QED
        BY <1>3, <1>5, <1>7, <3>1 DEF Sound
    <2>3. ASSUME NEW q \in Packagers
          PROVE  /\ \A i \in DOMAIN down[q] : Sound(assignments', q, down[q][i])
                 /\ \A i, j \in DOMAIN down[q] :
                      down[q][i].kind = "prepare" /\ down[q][j].kind = "prepare" /\ down[q][i].id = down[q][j].id => i = j
      <3>1. \A i \in DOMAIN down[q] : down[q][i] \in Command /\ Sound(assignments, q, down[q][i])
        BY Typed DEF IInv, Commands
      <3> QED
        BY <2>1, <3>1 DEF IInv, Commands
    <2>4. CASE down'[p] = down[p]
      <3>1. \A q \in Packagers : down'[q] = down[q]
        BY <1>9, <2>4
      <3> QED
        BY <2>3, <3>1 DEF Commands
    <2>5. CASE down'[p] = Append(down[p], m)
      <3> DEFINE s == down[p]
                 t == Append(s, m)
                 l == Len(s) + 1
      <3>1. DOMAIN t = DOMAIN s \cup {l} /\ t[l] = m /\ \A i \in DOMAIN s : t[i] = s[i]
        BY <1>7, Typed, QueueAppend
      <3>2. /\ \A i \in DOMAIN s : Sound(assignments', p, s[i])
            /\ \A i, j \in DOMAIN s : s[i].kind = "prepare" /\ s[j].kind = "prepare" /\ s[i].id = s[j].id => i = j
            /\ \A i \in DOMAIN s : s[i].kind = "prepare" => s[i].id \in Ids
        BY <1>11, <2>3
      <3>3. down'[p] = t
        BY <2>5
      <3> HIDE DEF s, t, l
      <3>4. \A i \in DOMAIN t : Sound(assignments', p, t[i])
        BY <2>2, <3>1, <3>2
      <3>5. \A i, j \in DOMAIN t : t[i].kind = "prepare" /\ t[j].kind = "prepare" /\ t[i].id = t[j].id => i = j
        BY <1>4, <1>7, <3>1, <3>2
      <3> QED
        BY <1>9, <2>3, <3>3, <3>4, <3>5 DEF Commands
    <2> QED
      BY <1>9, <2>4, <2>5
  <1>15. Held'
    BY <1>5, <1>12 DEF IInv, Held
  <1>16. Reported' /\ StoppedIsOver'
    <2>1. Reported'
      BY <1>5 DEF IInv, Reported
    <2>2. \A q \in Packagers : \A i \in DOMAIN up[q] : \A id \in Ids :
            up[q][i].kind = "status" /\ up[q][i].state = "stopped" /\ up[q][i].id = id => ~Reachable(id)'
      BY <1>13 DEF IInv, StoppedIsOver
    <2>3. \A q \in Packagers : \A i \in DOMAIN up[q] : up[q][i].kind = "status" => up[q][i].id \in Ids
      BY DEF IInv, Reported
    <2>4. \A id \in Ids' : assignments'[id].state = "stopped" => id \in Ids /\ ~Reachable(id)'
      BY <1>3, <1>5, <1>13 DEF IInv, StoppedIsOver
    <2> QED
      BY <2>1, <2>2, <2>3, <2>4 DEF StoppedIsOver
  <1>17. Latest'
    <2> SUFFICES ASSUME NEW x \in Programs
                 PROVE  /\ \A id : byProgram'[x] = id /\ id # 0 => Last(x, id)'
                        /\ \A id : handoffs'[x] # None /\ id = handoffs'[x].previous => id \in Ids' /\ Last(x, id)'
                        /\ programs'[x].phase = "draft" =>
                             handoffs'[x] = None /\ \A id \in Ids' : assignments'[id].program # x
      BY DEF Latest
    <2>1. CASE x = g
      <3>1. handoffs'[x] = None /\ byProgram'[x] = entry /\ programs'[x] = prog
        BY <1>1, <2>1, Typed
      <3>2. \A j \in Ids' : j <= n
        BY <1>4, <1>5
      <3>3. \A id : id = n => Last(g, id)'
        BY <1>3, <1>5, <3>2 DEF Last
      <3>4. \A id : byProgram'[x] = id /\ id # 0 => id = n
        BY <3>1
      <3>5. \A id : byProgram'[x] = id /\ id # 0 => Last(g, id)'
        BY <3>3, <3>4
      <3> QED
        BY <1>6, <2>1, <3>1, <3>5
    <2>2. CASE x # g
      <3>1. handoffs'[x] = handoffs[x] /\ byProgram'[x] = byProgram[x] /\ programs'[x] = programs[x]
        BY <1>1, <2>2, Typed
      <3>2. \A id \in Ids : Last(x, id) => Last(x, id)'
        BY <1>3, <1>5, <2>2 DEF Last
      <3>3. byProgram[x] \in {0} \cup Ids
        BY Typed
      <3> QED
        BY <1>3, <1>5, <2>2, <3>1, <3>2, <3>3 DEF IInv, Latest
    <2> QED
      BY <2>1, <2>2
  <1>18. Superseded'
    <2> SUFFICES ASSUME NEW i \in Ids', NEW j \in Ids', i < j,
                        assignments'[i].program = assignments'[j].program
                 PROVE  ~Reachable(i)'
      BY DEF Superseded
    <2>1. i \in Ids
      BY <1>4, <1>5
    <2>2. ~Reachable(i)
      <3>1. CASE j \in Ids
        BY <1>5, <2>1, <3>1 DEF IInv, Superseded
      <3>2. CASE j = n
        BY <1>3, <1>5, <2>1, <3>2
      <3> QED
        BY <1>5, <3>1, <3>2
    <2> QED
      BY <1>13, <2>1, <2>2
  <1>19. Leases'
    BY <1>2, <1>3, <1>5 DEF IInv, Leases
  <1>20. Budget'
    <2>1. Occupied' \subseteq Occupied \cup {n}
      BY <1>5 DEF Occupied, Active
    <2>2. IsFiniteSet(Occupied) /\ Cardinality(Occupied) \in Nat
      BY OccupiedFinite
    <2>3. IsFiniteSet(Occupied \cup {n})
          /\ Cardinality(Occupied \cup {n}) = IF n \in Occupied THEN Cardinality(Occupied) ELSE Cardinality(Occupied) + 1
      BY <2>2, FS_AddElement
    <2>4. Cardinality(Occupied') <= Cardinality(Occupied \cup {n}) /\ IsFiniteSet(Occupied')
      BY <2>1, <2>3, FS_Subset
    <2>5. plan.slots \in Nat /\ Cardinality(Occupied') \in Nat
      BY <2>4, FS_CardinalityType, Typed DEF Plan
    <2>6. Cardinality(Occupied') <= plan.slots
      BY <2>2, <2>3, <2>4, <2>5
    <2> QED
      BY <2>6 DEF Budget
  <1> QED
    BY <1>10, <1>14, <1>15, <1>16, <1>17, <1>18, <1>19, <1>20 DEF IInv

LEMMA PrepareKeeps ==
  ASSUME IInv, NEW g \in Programs, NEW p \in Packagers, Prepare(g, p) PROVE IInv'
  <1>1. /\ programs[g].phase = "draft" /\ Admissible({}) /\ Assign(g, p)
        /\ UNCHANGED <<handoffs, socket, agent, linked, up, plan, now>>
    BY DEF Prepare
  <1>2. handoffs[g] = None /\ \A id \in Ids : assignments[id].program # g
    BY <1>1 DEF IInv, Latest
  <1>3. handoffs' = [handoffs EXCEPT ![g] = None]
    BY <1>1, <1>2, Typed
  <1>4. Cardinality(Occupied) < plan.slots
    <2>1. Occupied \ {} = Occupied
      OBVIOUS
    <2> QED
      BY <1>1, <2>1 DEF Admissible
  <1> QED
    BY <1>1, <1>2, <1>3, <1>4, AssignKeeps

LEMMA CompleteHandoffKeeps == ASSUME IInv, NEW g \in Programs, CompleteHandoff(g) PROVE IInv'
  <1> DEFINE h == handoffs[g]
  <1>1. /\ h # None /\ HandoffStopStatus(h.previous) = "stopped" /\ Admissible({h.previous})
        /\ Assign(g, h.to) /\ handoffs' = [handoffs EXCEPT ![g] = None]
        /\ UNCHANGED <<socket, agent, linked, up, plan, now>>
    BY DEF CompleteHandoff
  <1>2. h \in HandoffRequest /\ h.to \in Packagers
    BY <1>1, Typed DEF HandoffRequest
  <1>3. h.previous \in Ids /\ Last(g, h.previous)
    BY <1>1 DEF IInv, Latest
  <1>4. assignments[h.previous].state = "stopped"
    BY <1>1 DEF HandoffStopStatus
  <1>5. ~Reachable(h.previous)
    BY <1>3, <1>4 DEF IInv, StoppedIsOver
  <1>6. \A id \in Ids : assignments[id].program = g => ~Reachable(id)
    <2> SUFFICES ASSUME NEW id \in Ids, assignments[id].program = g PROVE ~Reachable(id)
      OBVIOUS
    <2>1. id <= h.previous /\ assignments[h.previous].program = g /\ id \in Nat /\ h.previous \in Nat
      BY <1>3, IdType DEF Last
    <2>2. CASE id < h.previous
      BY <1>3, <2>1, <2>2 DEF IInv, Superseded
    <2>3. CASE id = h.previous
      BY <1>5, <2>3
    <2> QED
      BY <2>1, <2>2, <2>3
  <1>7. Cardinality(Occupied) < plan.slots
    <2>1. h.previous \notin Occupied
      BY <1>4 DEF Occupied, Active, ActiveStates, Renewable
    <2>2. Occupied \ {h.previous} = Occupied
      BY <2>1
    <2> QED
      BY <1>1, <2>2 DEF Admissible
  <1> QED
    BY <1>1, <1>2, <1>6, <1>7, AssignKeeps

-----------------------------------------------------------------------------
(***************************************************************************)
(* The control socket and the prune timer                                  *)
(***************************************************************************)

\* What is under way from p becomes q.
LEMMA ReportsQuiet ==
  ASSUME IInv, NEW p \in Packagers, NEW q \in Seq(Message), up' = [up EXCEPT ![p] = q],
         \A i \in DOMAIN q : q[i].kind = "status" =>
           \/ \E j \in DOMAIN up[p] : q[i] = up[p][j]
           \/ q[i].id \in Ids /\ \A id \in Ids : q[i].id = id /\ q[i].state = "stopped" => ~Reachable(id)'
  PROVE  QuietReports
  <1>1. up' \in [Packagers -> Seq(Message)] /\ up'[p] = q /\ \A r \in Packagers : r # p => up'[r] = up[r]
    BY Typed
  <1> QED
    BY <1>1 DEF QuietReports

\* Nothing new is under way from p.
LEMMA OldReports ==
  ASSUME IInv, NEW p \in Packagers, NEW q \in Seq(Message), up' = [up EXCEPT ![p] = q],
         \A i \in DOMAIN q : q[i].kind = "status" => \E j \in DOMAIN up[p] : q[i] = up[p][j]
  PROVE  QuietReports
  <1>1. up' \in [Packagers -> Seq(Message)] /\ up'[p] = q /\ \A r \in Packagers : r # p => up'[r] = up[r]
    BY Typed
  <1> QED
    BY <1>1 DEF QuietReports

LEMMA TailQuiet ==
  ASSUME IInv, NEW p \in Packagers, up[p] # <<>>, up' = [up EXCEPT ![p] = Tail(@)]
  PROVE  /\ QuietReports /\ Head(up[p]) \in Message
         /\ \E j \in DOMAIN up[p] : Head(up[p]) = up[p][j]
  <1> DEFINE q == Tail(up[p])
  <1>1. up[p] \in Seq(Message) /\ up' = [up EXCEPT ![p] = q]
    BY Typed
  <1>2. /\ q \in Seq(Message) /\ \A i \in DOMAIN q : i + 1 \in DOMAIN up[p] /\ q[i] = up[p][i + 1]
        /\ Head(up[p]) = up[p][1] /\ 1 \in DOMAIN up[p] /\ Head(up[p]) \in Message
    BY <1>1, QueueTail
  <1> HIDE DEF q
  <1>3. \A i \in DOMAIN q : q[i].kind = "status" => \E j \in DOMAIN up[p] : q[i] = up[p][j]
    BY <1>2
  <1>a. q \in Seq(Message)
    BY <1>2
  <1>4. QuietReports
    BY <1>1, <1>3, <1>a, OldReports
  <1> QED
    BY <1>2, <1>4

LEMMA ReceiveHeartbeatKeeps == ASSUME IInv, NEW p \in Packagers, ReceiveHeartbeat(p) PROVE IInv'
  <1> DEFINE id == byPackager[p]
             until == now + LeaseTime
  <1>1. /\ up[p] # <<>> /\ up' = [up EXCEPT ![p] = Tail(@)]
        /\ UNCHANGED <<byPackager, byProgram, programs, handoffs, socket, agent, linked, plan, now>>
    BY DEF ReceiveHeartbeat
  <1>2. QuietReports
    BY <1>1, TailQuiet
  <1>3. CASE Renews(p)
    <2> DEFINE r == assignments[id]
               s == [r EXCEPT !.expiresAt = until]
               m == RenewCommand(id, until)
    <2>1. /\ id # 0 /\ r.state \in Renewable
          /\ assignments' = [assignments EXCEPT ![id].expiresAt = until] /\ down' = Sent(down, p, m)
      BY <1>3 DEF ReceiveHeartbeat, Renews
    <2>2. id \in Ids /\ id \in Nat \ {0} /\ r \in Assignment
      BY <2>1, Typed, IdType
    <2>3. until \in Nat /\ until <= now + LeaseTime /\ now \in Nat /\ now <= now
      <3>1. now \in Nat /\ LeaseTime \in Nat
        BY Typed, AssignmentConstants
      <3> QED
        BY <3>1
    <2>4. assignments' = [assignments EXCEPT ![id] = s]
      BY <2>1, <2>2, Typed DEF Assignment
    <2>5. r.expiresAt <= until
      BY <2>2 DEF IInv, Leases
    <2> HIDE DEF until
    <2>6. /\ s \in Assignment /\ s.packager = r.packager /\ s.program = r.program
          /\ s.expiresAt = until /\ s.state = r.state
      BY <2>2, <2>3 DEF Assignment
    <2>7. id \in 1..Len(assignments) /\ assignments \in Seq(Assignment)
      BY <2>2, Typed
    <2> HIDE DEF s, id
    <2>8. assignments' \in Seq(Assignment) /\ Len(assignments') = Len(assignments)
      BY <2>4, <2>6, <2>7
    <2>9. assignments'[id] = s /\ \A j \in Ids : j # id => assignments'[j] = assignments[j]
      BY <2>4, <2>7, Typed
    <2>10. Onward
      <3>1. \A j \in Ids : /\ assignments[j].expiresAt \in Nat /\ assignments[j].state \in States
                           /\ assignments[j].expiresAt <= now + LeaseTime
        BY Typed DEF Assignment, IInv, Leases
      <3>2. r.state \in ActiveStates /\ r.state \notin {"failed", "stopped"}
        BY <2>1 DEF ActiveStates, Renewable, id
      <3> QED
        BY <1>1, <2>3, <2>5, <2>6, <2>8, <2>9, <3>1, <3>2 DEF Onward, States
    <2>11. m \in Command /\ m.kind = "renew" /\ m.id = id /\ m.expiresAt = until
      BY <2>2, <2>3 DEF Command, RenewCommand
    <2>12. Sound(assignments', p, m)
      <3>1. id \in DOMAIN assignments' /\ until <= until
        BY <2>2, <2>3, <2>10, OnwardFacts DEF Ids
      <3> QED
        BY <2>6, <2>9, <2>11, <3>1 DEF Sound
    <2>13. QuietWires
      <3> HIDE DEF m
      <3>1. down' = Sent(down, p, m)
        BY <2>1 DEF m
      <3> QED
        BY <2>11, <2>12, <3>1, SentQuiet
    <2> QED
      BY <1>1, <1>2, <2>10, <2>13, Unchanged, StepKeeps
  <1>4. CASE ~Renews(p)
    <2>1. UNCHANGED <<assignments, down>>
      BY <1>4 DEF ReceiveHeartbeat
    <2> QED
      BY <1>1, <1>2, <2>1, Unchanged, StepKeeps
  <1> QED
    BY <1>3, <1>4

LEMMA RejectQuiet ==
  ASSUME IInv, NEW p \in Packagers, Reject(p), UNCHANGED <<linked, plan>>
  PROVE  QuietLinks /\ QuietWires
  <1>1. QuietLinks
    BY Typed DEF Reject, QuietLinks
  <1>2. QuietWires
    BY GoodbyeFacts, SentQuiet DEF Reject
  <1> QED
    BY <1>1, <1>2

LEMMA PhaseQuiet ==
  ASSUME IInv, NEW g \in Programs, NEW ph \in Phases \ {"draft"},
         programs' = [programs EXCEPT ![g].phase = ph]
  PROVE  QuietPrograms
  <1> DEFINE n == [programs[g] EXCEPT !.phase = ph]
  <1>1. programs[g] \in [phase : Phases, writer : {0} \cup Ids]
    BY Typed
  <1>2. n \in [phase : Phases, writer : {0} \cup Ids] /\ n.phase = ph
    BY <1>1
  <1>3. programs' = [programs EXCEPT ![g] = n]
    BY Typed
  <1> HIDE DEF n
  <1> QED
    BY ZenonT(60), <1>2, <1>3, Typed DEF QuietPrograms

\* acknowledge() moves a record on, and believes in "stopped" what is over.
LEMMA AllowedFacts ==
  ASSUME NEW r \in States, NEW st \in Allowed[r]
  PROVE  /\ st \in States
         /\ st \in ActiveStates => r \in ActiveStates
         /\ st = "failed" => r \in ActiveStates \cup {"failed"}
  BY DEF Allowed, States, ActiveStates, Renewable

LEMMA ReceiveStatusKeeps == ASSUME IInv, NEW p \in Packagers, ReceiveStatus(p) PROVE IInv'
  <1> DEFINE m == Head(up[p])
             g == assignments[m.id].program
             writer == programs[g].writer = m.id
             ready == m.state = "running" /\ m.ready
             lost == m.state \in {"degraded", "stopped", "failed"} /\ assignments[m.id].expiresAt > now
  <1>1. /\ up[p] # <<>> /\ m.kind = "status" /\ up' = [up EXCEPT ![p] = Tail(@)]
        /\ UNCHANGED <<handoffs, agent, linked, plan, now>>
    BY DEF ReceiveStatus
  <1>2. QuietReports /\ m \in Message /\ \E j \in DOMAIN up[p] : m = up[p][j]
    BY <1>1, TailQuiet
  <1>3. m.id \in Ids /\ (m.state = "stopped" => ~Reachable(m.id))
    BY <1>1, <1>2 DEF IInv, Reported, StoppedIsOver
  <1>4. g \in Programs /\ assignments[m.id].state \in States
    BY <1>3, IdType
  <1>5. CASE Acknowledged(p, m)
    <2>1. /\ assignments' = Moved(m.id, m.state)
          /\ IF m.state \in ActiveStates THEN UNCHANGED <<byPackager, byProgram>> ELSE ReleaseIndexes({m.id})
          /\ programs' = CASE writer /\ ready -> OutputReady(g)
                           [] writer /\ lost  -> OutputUnavailable(g)
                           [] OTHER           -> programs
          /\ IF ready /\ ~writer THEN Reject(p) ELSE UNCHANGED <<socket, down>>
      BY <1>5 DEF ReceiveStatus
    <2>2. m.state \in Allowed[assignments[m.id].state]
      BY <1>5 DEF Acknowledged
    <2>3. /\ m.state \in States
          /\ m.state \in ActiveStates => assignments[m.id].state \in ActiveStates
          /\ m.state = "failed" => assignments[m.id].state \in ActiveStates \cup {"failed"}
      BY <1>4, <2>2, AllowedFacts
    <2> HIDE DEF m, g
    <2>4. Onward
      BY <1>1, <1>3, <2>1, <2>3, MovedOnward
    <2>5. QuietIndexes
      BY <2>1, ReleaseQuiet, Unchanged
    <2>6. QuietPrograms
      <3>1. CASE programs' = OutputReady(g)
        <4>1. "live" \in Phases \ {"draft"}
          BY DEF Phases
        <4> QED
          BY <1>4, <3>1, <4>1, PhaseQuiet DEF OutputReady
      <3>2. CASE programs' = OutputUnavailable(g)
        <4> DEFINE ph == IF programs[g].phase = "live" THEN "degraded" ELSE programs[g].phase
        <4>1. programs' = [programs EXCEPT ![g].phase = ph]
          BY <3>2 DEF OutputUnavailable
        <4>2. CASE programs[g].phase = "draft"
          <5>1. ph = programs[g].phase
            BY <4>2
          <5>2. programs' = programs
            BY <1>4, <4>1, <5>1, Typed
          <5> QED
            BY <5>2, Unchanged
        <4>3. CASE programs[g].phase # "draft"
          <5>1. ph \in Phases \ {"draft"}
            BY <1>4, <4>3, Typed DEF Phases
          <5> HIDE DEF ph
          <5> QED
            BY <1>4, <4>1, <5>1, PhaseQuiet
        <4> QED
          BY <4>2, <4>3
      <3>3. CASE programs' = programs
        BY <3>3, Unchanged
      <3> HIDE DEF writer, ready, lost
      <3> QED
        BY <2>1, <3>1, <3>2, <3>3
    <2>7. QuietLinks /\ QuietWires
      <3>1. CASE Reject(p)
        BY <1>1, <3>1, RejectQuiet
      <3>2. CASE UNCHANGED <<socket, down>>
        BY <1>1, <3>2, Unchanged
      <3> QED
        BY <2>1, <3>1, <3>2
    <2> QED
      BY <1>1, <1>2, <2>4, <2>5, <2>6, <2>7, Unchanged, StepKeeps
  <1>6. CASE ~Acknowledged(p, m)
    <2>1. Reject(p) /\ UNCHANGED <<assignments, byPackager, byProgram, programs>>
      BY <1>6 DEF ReceiveStatus, registry
    <2>2. QuietLinks /\ QuietWires
      BY <1>1, <2>1, RejectQuiet
    <2> QED
      BY <1>1, <1>2, <2>1, <2>2, Unchanged, StepKeeps
  <1> QED
    BY <1>5, <1>6

LEMMA EmptyQueue == <<>> \in Seq(Message) /\ <<>> \in Seq(Command) /\ DOMAIN (<< >>) = {}
  OBVIOUS

LEMMA DisconnectedQuiet ==
  ASSUME IInv, NEW p \in Packagers, Disconnected(p)
  PROVE  /\ Onward /\ QuietIndexes /\ QuietPrograms /\ QuietReports /\ QuietHandoffs /\ QuietAgents
         /\ socket' \in [Packagers -> {"none", "open", "closing"}] /\ linked' = linked
  <1>1. /\ socket' = [socket EXCEPT ![p] = "none"] /\ up' = [up EXCEPT ![p] = <<>>]
        /\ FailPackager(p) /\ StopPrograms(Served(p)) /\ UNCHANGED <<handoffs, agent, linked, now>>
    BY DEF Disconnected
  <1>2. Onward /\ QuietIndexes
    BY <1>1, FailQuiet
  <1>3. QuietReports
    BY <1>1, EmptyQueue, ReportsQuiet
  <1>4. socket' \in [Packagers -> {"none", "open", "closing"}]
    BY <1>1, Typed
  <1> QED
    BY <1>1, <1>2, <1>3, <1>4, StopQuiet, Unchanged

LEMMA ReceiveClosedKeeps == ASSUME IInv, NEW p \in Packagers, ReceiveClosed(p) PROVE IInv'
  <1>1. Disconnected(p) /\ UNCHANGED <<down, plan>>
    BY DEF ReceiveClosed
  <1>2. /\ Onward /\ QuietIndexes /\ QuietPrograms /\ QuietReports /\ QuietHandoffs /\ QuietAgents
        /\ socket' \in [Packagers -> {"none", "open", "closing"}] /\ linked' = linked
    BY <1>1, DisconnectedQuiet
  <1>3. QuietLinks
    BY <1>1, <1>2, Typed DEF QuietLinks
  <1> QED
    BY <1>1, <1>2, <1>3, Unchanged, StepKeeps

LEMMA SocketLostKeeps == ASSUME IInv, NEW p \in Packagers, SocketLost(p) PROVE IInv'
  <1>1. Disconnected(p) /\ down' = [down EXCEPT ![p] = Append(down[p], Goodbye)] /\ Spend("loss")
    BY Typed DEF SocketLost
  <1>2. /\ Onward /\ QuietIndexes /\ QuietPrograms /\ QuietReports /\ QuietHandoffs /\ QuietAgents
        /\ socket' \in [Packagers -> {"none", "open", "closing"}] /\ linked' = linked
    BY <1>1, DisconnectedQuiet
  <1>3. QuietLinks
    BY <1>1, <1>2, SpendFacts, Typed DEF QuietLinks, Events
  <1>4. QuietWires
    <2>1. Goodbye \in Command /\ Goodbye.kind # "prepare" /\ Sound(assignments', p, Goodbye)
      BY GoodbyeFacts
    <2>2. Append(down[p], Goodbye) \in Seq(Command)
      BY <2>1, Typed, QueueAppend
    <2>3. down' \in [Packagers -> Seq(Command)]
      BY <1>1, <2>2, Typed
    <2>4. /\ down'[p] = Append(down[p], Goodbye)
          /\ \A q \in Packagers : q # p => down'[q] = down[q]
      BY <1>1, Typed
    <2> QED
      BY <2>1, <2>3, <2>4 DEF QuietWires, Quiet
  <1> QED
    BY <1>2, <1>3, <1>4, StepKeeps

LEMMA PruneKeeps == ASSUME IInv, Prune PROVE IInv'
  <1> DEFINE expired == {id \in Ids : Active(id) /\ assignments[id].expiresAt <= now}
             told == {id \in expired : assignments[id].expiredAt > 0}
             given == {id \in told : assignments[id].expiredAt + DrainTime <= now}
             fresh == expired \ told
  <1>1. /\ assignments' = [id \in Ids |->
             CASE id \in fresh -> [Moved(id, "draining")[id] EXCEPT !.expiredAt = now]
               [] id \in given -> Moved(id, "failed")[id]
               [] OTHER        -> assignments[id]]
        /\ ReleaseIndexes(given)
        /\ StopPrograms({assignments[id].program : id \in fresh})
        /\ down' = [p \in Packagers |->
             IF byPackager[p] \in fresh THEN Sent(down, p, StopCommand(byPackager[p]))[p] ELSE down[p]]
        /\ UNCHANGED <<handoffs, socket, agent, linked, up, plan, now>>
    BY DEF Prune
  <1>2. fresh \subseteq Ids /\ given \subseteq Ids /\ fresh \cap given = {}
        /\ \A id \in fresh \cup given : assignments[id].state \in ActiveStates
    BY DEF Active
  <1> HIDE DEF fresh, given
  <1>3. ASSUME NEW id \in Ids
        PROVE  LET r == assignments[id]
                   s == assignments'[id]
               IN /\ s \in Assignment
                  /\ s.packager = r.packager /\ s.program = r.program /\ s.expiresAt = r.expiresAt
                  /\ \/ s.state = r.state
                     \/ r.state \in ActiveStates /\ s.state \in ActiveStates \cup {"failed"}
    <2> DEFINE r == assignments[id]
    <2>1. r \in Assignment /\ now \in Nat
      BY Typed
    <2>2. \A st : Moved(id, st)[id] = [r EXCEPT !.state = st]
      BY Typed DEF Moved, Ids
    <2>3. CASE id \in fresh
      <3>1. assignments'[id] = [[r EXCEPT !.state = "draining"] EXCEPT !.expiredAt = now]
        BY <1>1, <1>2, <2>2, <2>3
      <3> QED
        BY <1>2, <2>1, <2>3, <3>1 DEF Assignment, States, ActiveStates
    <2>4. CASE id \in given
      <3>1. assignments'[id] = [r EXCEPT !.state = "failed"]
        BY <1>1, <1>2, <2>2, <2>4
      <3> QED
        BY <1>2, <2>1, <2>4, <3>1 DEF Assignment, States, ActiveStates
    <2>5. CASE id \notin fresh /\ id \notin given
      <3>1. assignments'[id] = r
        BY <1>1, <2>5
      <3> QED
        BY <2>1, <3>1
    <2> QED
      BY <2>3, <2>4, <2>5
  <1>4. assignments' \in [Ids -> Assignment]
    BY <1>1, <1>3
  <1>5. Onward
    BY <1>1, <1>3, <1>4, FunctionOnward
  <1>6. QuietWires
    <2>1. ASSUME NEW p \in Packagers PROVE Quiet(p) /\ down'[p] \in Seq(Command)
      <3>1. CASE byPackager[p] \in fresh
        <4> DEFINE m == StopCommand(byPackager[p])
        <4>1. m \in Command /\ m.kind # "prepare" /\ Sound(assignments', p, m)
          <5>1. byPackager[p] \in Nat \ {0}
            BY <1>2, <3>1, IdType
          <5> QED
            BY <5>1, StopCommandFacts
        <4>2. down'[p] = down[p] \/ down'[p] = Append(down[p], m)
          BY <1>1, <3>1, Typed DEF Sent
        <4> HIDE DEF m
        <4>3. Quiet(p)
          BY <4>1, <4>2 DEF Quiet
        <4> QED
          BY <4>3, QuietFacts
      <3>2. CASE byPackager[p] \notin fresh
        BY <1>1, <3>2, Typed DEF Quiet
      <3> QED
        BY <3>1, <3>2
    <2>2. down' \in [Packagers -> Seq(Command)]
      BY <1>1, <2>1
    <2> QED
      BY <2>1, <2>2 DEF QuietWires
  <1> QED
    BY <1>1, <1>5, <1>6, ReleaseQuiet, StopQuiet, Unchanged, StepKeeps

-----------------------------------------------------------------------------
(***************************************************************************)
(* The packager                                                            *)
(***************************************************************************)
LEMMA AuthenticateKeeps == ASSUME IInv, NEW p \in Packagers, Authenticate(p) PROVE IInv'
  <1>1. /\ linked' = [linked EXCEPT ![p] = TRUE] /\ socket' = [socket EXCEPT ![p] = "open"]
        /\ up' = [up EXCEPT ![p] = <<>>] /\ down' = [down EXCEPT ![p] = <<>>]
        /\ UNCHANGED <<assignments, byPackager, byProgram, programs, handoffs, agent, plan, now>>
    BY DEF Authenticate, registry
  <1>2. QuietReports
    BY <1>1, EmptyQueue, ReportsQuiet
  <1>3. QuietWires
    BY <1>1, EmptyQueue, Typed DEF QuietWires, Quiet
  <1>4. QuietLinks
    BY <1>1, Typed DEF QuietLinks
  <1> QED
    BY <1>1, <1>2, <1>3, <1>4, Unchanged, StepKeeps

\* A packager lets go of its work.
LEMMA NoneQuiet ==
  ASSUME IInv, Onward, NEW p \in Packagers, agent' = [agent EXCEPT ![p] = None]
  PROVE  QuietAgents
  <1>1. /\ agent' \in [Packagers -> Work \cup {None}] /\ agent'[p] = None
        /\ \A q \in Packagers : q # p => agent'[q] = agent[q]
    BY Typed
  <1>2. \A q \in Packagers : agent[q] # None => agent[q].expiresAt <= assignments'[agent[q].id].expiresAt
    <2> SUFFICES ASSUME NEW q \in Packagers, agent[q] # None
                 PROVE  agent[q].expiresAt <= assignments'[agent[q].id].expiresAt
      OBVIOUS
    <2>1. agent[q] \in Work /\ agent[q].id \in Ids /\ agent[q].expiresAt <= assignments[agent[q].id].expiresAt
      BY Typed DEF IInv, Held
    <2>2. agent[q].expiresAt \in Nat /\ assignments'[agent[q].id].expiresAt \in Nat
          /\ assignments[agent[q].id].expiresAt \in Nat
      BY <2>1, OnwardFacts, IdType DEF Work, Assignment
    <2> QED
      BY <2>1, <2>2 DEF Onward
  <1> QED
    BY <1>1, <1>2 DEF QuietAgents

\* A report is added: no status, or one of an assignment that may be "stopped"
\* only when it is over.
LEMMA ReportQuiet ==
  ASSUME IInv, NEW p \in Packagers, NEW msgs \in Seq(Message), Report(p, msgs),
         \A i \in DOMAIN msgs : msgs[i].kind = "status" =>
           msgs[i].id \in Ids /\ \A id \in Ids : msgs[i].id = id /\ msgs[i].state = "stopped" => ~Reachable(id)'
  PROVE  QuietReports
  <1> DEFINE q == IF socket[p] = "none" THEN up[p] ELSE up[p] \o msgs
  <1>1. up' = [up EXCEPT ![p] = q] /\ up[p] \in Seq(Message)
    BY Typed DEF Report
  <1>2. /\ up[p] \o msgs \in Seq(Message)
        /\ \A i \in DOMAIN (up[p] \o msgs) : \/ \E j \in DOMAIN up[p] : (up[p] \o msgs)[i] = up[p][j]
                                             \/ \E j \in DOMAIN msgs : (up[p] \o msgs)[i] = msgs[j]
    BY <1>1, QueueConcat
  <1>3. q \in Seq(Message)
    BY <1>1, <1>2
  <1>4. \A i \in DOMAIN q : \/ \E j \in DOMAIN up[p] : q[i] = up[p][j]
                            \/ \E j \in DOMAIN msgs : q[i] = msgs[j]
    BY <1>2
  <1> HIDE DEF q
  <1>5. \A i \in DOMAIN q : q[i].kind = "status" =>
          \/ \E j \in DOMAIN up[p] : q[i] = up[p][j]
          \/ q[i].id \in Ids /\ \A id \in Ids : q[i].id = id /\ q[i].state = "stopped" => ~Reachable(id)'
    BY <1>4
  <1> QED
    BY ZenonT(60), <1>1, <1>3, <1>5, ReportsQuiet

\* One message that says nothing about a stop.
LEMMA PlainReport ==
  ASSUME NEW m \in Message
  PROVE  /\ <<m>> \in Seq(Message) /\ DOMAIN (<<m>>) = {1} /\ (<<m>>)[1] = m
  OBVIOUS

LEMMA StatusType ==
  ASSUME NEW id \in Nat \ {0}, NEW st \in States, NEW ready \in BOOLEAN
  PROVE  /\ Status(id, st, ready) \in Message /\ Status(id, st, ready).kind = "status"
         /\ Status(id, st, ready).id = id /\ Status(id, st, ready).state = st
  BY DEF Status, Message

LEMMA BareType == Closed \in Message /\ Closed.kind # "status" /\ Heartbeat \in Message /\ Heartbeat.kind # "status"
  BY DEF Closed, Heartbeat, Message

LEMMA EndQuiet ==
  ASSUME IInv, Onward, NEW p \in Packagers, EndConnection(p), UNCHANGED socket,
         plan' \in Plan, plan'.slots = plan.slots
  PROVE  QuietLinks /\ QuietAgents /\ QuietWires
  <1>1. /\ linked' = [linked EXCEPT ![p] = FALSE] /\ agent' = [agent EXCEPT ![p] = None]
        /\ down' = [down EXCEPT ![p] = <<>>]
    BY DEF EndConnection
  <1>2. QuietWires
    BY <1>1, EmptyQueue, Typed DEF QuietWires, Quiet
  <1>3. QuietLinks
    BY <1>1, Typed DEF QuietLinks
  <1> QED
    BY <1>1, <1>2, <1>3, NoneQuiet

LEMMA ServerSame ==
  ASSUME IInv, UNCHANGED <<server, now>>
  PROVE  /\ Onward /\ QuietIndexes /\ QuietPrograms /\ QuietHandoffs
         /\ UNCHANGED <<assignments, byPackager, byProgram, programs, handoffs, socket, now>>
  <1>1. UNCHANGED <<assignments, byPackager, byProgram, programs, handoffs, socket, now>>
    BY DEF server, registry
  <1> QED
    BY <1>1, Unchanged

\* Once p has let go, and with no prepare under way to it, nobody can work on
\* an assignment that names p.
LEMMA Released ==
  ASSUME IInv, NEW p \in Packagers, NEW id \in Ids, assignments[id].packager = p,
         agent'[p] = None, \A q \in Packagers : q # p => agent'[q] = agent[q] /\ down'[q] = down[q],
         ~Prepares(down'[p], id)
  PROVE  ~Reachable(id)'
  <1> SUFFICES ASSUME NEW q \in Packagers, Holds(q, id)' \/ Prepares(down'[q], id) PROVE FALSE
    BY DEF Reachable
  <1>1. q # p
    BY DEF Holds
  <1>2. Holds(q, id) \/ Prepares(down[q], id)
    BY <1>1 DEF Holds
  <1>3. CASE Holds(q, id)
    BY <1>1, <1>3 DEF Holds, IInv, Held
  <1>4. CASE Prepares(down[q], id)
    BY <1>1, <1>4 DEF Prepares, IInv, Commands, Sound
  <1> QED
    BY <1>2, <1>3, <1>4

LEMMA ObeyKeeps == ASSUME IInv, NEW p \in Packagers, Obey(p) PROVE IInv'
  <1> DEFINE m == Head(down[p])
             q == Tail(down[p])
  <1>1. down[p] # <<>> /\ UNCHANGED <<server, now>> /\ plan' = plan
    BY DEF Obey
  <1>2. /\ Onward /\ QuietIndexes /\ QuietPrograms /\ QuietHandoffs
        /\ UNCHANGED <<assignments, byPackager, byProgram, programs, handoffs, socket, now>>
    BY <1>1, ServerSame
  <1>3. /\ m \in Command /\ q \in Seq(Command) /\ 1 \in DOMAIN down[p] /\ m = down[p][1]
        /\ \A i \in DOMAIN q : i + 1 \in DOMAIN down[p] /\ i + 1 # 1 /\ q[i] = down[p][i + 1]
    BY <1>1, Typed, QueueTail
  <1>4. plan' \in Plan /\ plan'.slots = plan.slots
    BY <1>1, Typed
  <1>5. CASE Stale(p, m)
    <2>1. EndConnection(p) /\ Report(p, <<Closed>>)
      BY <1>5 DEF Obey
    <2>2. QuietLinks /\ QuietAgents /\ QuietWires
      BY <1>2, <1>4, <2>1, EndQuiet
    <2>3. QuietReports
      <3>1. <<Closed>> \in Seq(Message) /\ DOMAIN (<<Closed>>) = {1} /\ (<<Closed>>)[1].kind # "status"
        BY BareType, PlainReport
      <3> QED
        BY <2>1, <3>1, ReportQuiet
    <2> QED
      BY <1>2, <2>2, <2>3, StepKeeps
  <1>6. CASE ~Stale(p, m)
    <2>1. down' = [down EXCEPT ![p] = q] /\ linked' = linked
      BY <1>6, Typed DEF Obey
    <2>2. /\ down' \in [Packagers -> Seq(Command)] /\ down'[p] = q
          /\ \A r \in Packagers : r # p => down'[r] = down[r]
      BY <1>3, <2>1, Typed
    <2>3. QuietWires
      BY <1>1, <2>2 DEF QuietWires, Quiet
    <2>4. QuietLinks
      BY <1>1, <1>2, <2>1, Unchanged
    <2>5. \A id : Prepares(q, id) => Prepares(down[p], id)
      BY <1>3 DEF Prepares
    <2>6. m.kind \in {"prepare", "stop", "renew"}
      BY <1>6 DEF Obey
    <2>7. CASE m.kind = "prepare"
      <3> DEFINE w == [id |-> m.id, state |-> "ready", expiresAt |-> m.expiresAt]
      <3>1. agent' = [agent EXCEPT ![p] = w] /\ Report(p, <<Status(m.id, "ready", FALSE)>>)
        BY <1>6, <2>7 DEF Obey
      <3>2. m.id \in Nat \ {0} /\ m.expiresAt \in Nat
        BY <1>3, <2>7 DEF Command
      <3>3. Sound(assignments, p, m)
        BY <1>3 DEF IInv, Commands
      <3>4. m.id \in Ids /\ m.expiresAt <= assignments[m.id].expiresAt /\ assignments[m.id].packager = p
        BY <2>7, <3>3 DEF Sound, Ids
      <3>5. w \in Work /\ w.id = m.id /\ w.expiresAt = m.expiresAt
        BY <3>2 DEF Work, AgentStates
      <3>6. ~Prepares(q, m.id)
        <4>1. \A i \in DOMAIN q : q[i].kind = "prepare" => q[i].id # m.id
          BY <1>3, <2>7 DEF IInv, Commands
        <4> QED
          BY <4>1 DEF Prepares
      <3>7. Prepares(down[p], m.id)
        BY <1>3, <2>7 DEF Prepares
      <3> HIDE DEF w, m, q
      <3>8. /\ agent' \in [Packagers -> Work \cup {None}] /\ agent'[p] = w
            /\ \A r \in Packagers : r # p => agent'[r] = agent[r]
        BY <3>1, <3>5, Typed
      <3>9. \A id : Reachable(id)' => Reachable(id)
        <4> SUFFICES ASSUME NEW id, NEW r \in Packagers, Holds(r, id)' \/ Prepares(down'[r], id)
                     PROVE  Holds(r, id) \/ Prepares(down[r], id)
          BY DEF Reachable
        <4>1. CASE r # p
          BY <2>2, <3>8, <4>1 DEF Holds
        <4>2. CASE r = p
          BY <2>2, <2>5, <3>5, <3>7, <3>8, <4>2 DEF Holds
        <4> QED
          BY <4>1, <4>2
      <3>10. QuietReports
        <4> DEFINE s == Status(m.id, "ready", FALSE)
        <4>a. "ready" \in States /\ FALSE \in BOOLEAN
          BY DEF States, ActiveStates, Renewable
        <4>b. s \in Message /\ s.id = m.id /\ s.state = "ready"
          BY <3>2, <4>a, StatusType
        <4>1. s \in Message /\ s.id \in Ids /\ s.state # "stopped"
          BY <3>4, <4>b
        <4> HIDE DEF s
        <4>2. <<s>> \in Seq(Message) /\ DOMAIN (<<s>>) = {1} /\ (<<s>>)[1] = s
          BY <4>1, PlainReport
        <4>3. Report(p, <<s>>)
          BY <3>1 DEF s
        <4> QED
          BY <4>1, <4>2, <4>3, ReportQuiet
      <3>11. Held'
        <4> SUFFICES ASSUME NEW r \in Packagers, agent'[r] # None
                     PROVE  /\ agent'[r].id \in Ids /\ assignments[agent'[r].id].packager = r
                            /\ agent'[r].expiresAt <= assignments[agent'[r].id].expiresAt
                            /\ ~Prepares(down'[r], agent'[r].id)
          BY <1>2 DEF Held, Ids
        <4>1. CASE r # p
          BY <2>2, <3>8, <4>1 DEF IInv, Held
        <4>2. CASE r = p
          BY <2>2, <3>4, <3>5, <3>6, <3>8, <4>2
        <4> QED
          BY <4>1, <4>2
      <3>12. Commands' /\ Reported' /\ StoppedIsOver' /\ Superseded'
        BY <1>2, <2>3, <3>9, <3>10, WireCore DEF QuietWires, QuietReports
      <3>13. Latest' /\ Leases' /\ Budget'
        BY <1>2, <2>4, IndexKeeps DEF QuietIndexes, QuietPrograms, QuietHandoffs, QuietLinks
      <3>14. TypeOK'
        <4>1. Ids' = Ids
          BY <1>2 DEF Ids
        <4> QED
          BY <1>2, <2>3, <2>4, <3>8, <3>10, <4>1
          DEF TypeOK, Onward, QuietWires, QuietReports, QuietIndexes, QuietPrograms, QuietHandoffs, QuietLinks
      <3> QED
        BY <3>11, <3>12, <3>13, <3>14 DEF IInv
    <2>8. CASE m.kind = "stop"
      <3>1. agent' = [agent EXCEPT ![p] = None] /\ Report(p, <<Status(m.id, "stopped", FALSE)>>)
        BY <1>6, <2>8 DEF Obey
      <3>2. agent[p] # None /\ agent[p].id = m.id
        BY <1>6, <2>8 DEF Stale
      <3>3. m.id \in Ids /\ assignments[m.id].packager = p /\ ~Prepares(down[p], m.id)
        BY <3>2 DEF IInv, Held
      <3>4. m.id \in Nat \ {0}
        BY <3>3, IdType
      <3>5. agent'[p] = None /\ \A r \in Packagers : r # p => agent'[r] = agent[r]
        BY <3>1, Typed
      <3>6. \A id \in Ids : id = m.id => ~Reachable(id)'
        BY <2>2, <2>5, <3>3, <3>5, Released
      <3>7. QuietReports
        <4> DEFINE s == Status(m.id, "stopped", FALSE)
        <4>1. s \in Message /\ s.id = m.id
          BY <3>4, StatusType DEF States
        <4> HIDE DEF s
        <4>2. <<s>> \in Seq(Message) /\ DOMAIN (<<s>>) = {1} /\ (<<s>>)[1] = s
          BY <4>1, PlainReport
        <4>3. Report(p, <<s>>)
          BY <3>1 DEF s
        <4>4. \A i \in DOMAIN (<<s>>) : (<<s>>)[i].id \in Ids
                 /\ \A id \in Ids : (<<s>>)[i].id = id => ~Reachable(id)'
          BY <3>3, <3>6, <4>1, <4>2
        <4> QED
          BY <4>2, <4>3, <4>4, ReportQuiet
      <3> QED
        BY <1>2, <2>3, <2>4, <3>1, <3>7, NoneQuiet, StepKeeps
    <2>9. CASE m.kind = "renew"
      <3> DEFINE w == [agent[p] EXCEPT !.expiresAt = m.expiresAt]
      <3>1. agent[p] # None /\ agent[p].id = m.id
        BY <1>6, <2>9 DEF Stale
      <3>2. agent' = [agent EXCEPT ![p] = w] /\ up' = up
        BY <1>6, <2>9, <3>1, Typed DEF Obey
      <3>3. agent[p] \in Work /\ m.expiresAt \in Nat
        BY <1>3, <2>9, <3>1, Typed DEF Command
      <3>4. w \in Work /\ w.id = m.id /\ w.expiresAt = m.expiresAt
        BY <3>1, <3>3 DEF Work
      <3>5. m.expiresAt <= assignments[m.id].expiresAt
        BY <1>3, <2>9 DEF IInv, Commands, Sound
      <3> HIDE DEF w, m
      <3>6. /\ agent' \in [Packagers -> Work \cup {None}] /\ agent'[p] = w
            /\ \A r \in Packagers : r # p => agent'[r] = agent[r]
        BY <3>2, <3>4, Typed
      <3>7. QuietAgents
        <4>1. \A r \in Packagers : agent[r] # None => agent[r].expiresAt <= assignments[agent[r].id].expiresAt
          BY DEF IInv, Held
        <4> QED
          BY <1>2, <3>1, <3>4, <3>5, <3>6, <4>1 DEF QuietAgents
      <3> QED
        BY <1>2, <2>3, <2>4, <3>2, <3>7, Unchanged, StepKeeps
    <2> QED
      BY <2>6, <2>7, <2>8, <2>9
  <1> QED
    BY <1>5, <1>6

LEMMA WorkFacts ==
  ASSUME IInv, NEW p \in Packagers, agent[p] # None
  PROVE  agent[p] \in Work /\ agent[p].id \in Ids /\ agent[p].id \in Nat \ {0}
  BY Typed, IdType DEF IInv, Held

LEMMA TransitionKeeps ==
  ASSUME IInv, NEW p \in Packagers, NEW to \in AgentStates, NEW ready \in BOOLEAN, Transition(p, to, ready)
  PROVE  IInv'
  <1> DEFINE id == agent[p].id
             w == [agent[p] EXCEPT !.state = to]
             msgs == IF agent[p].state = "ready" /\ to = "running"
                     THEN <<Status(id, "starting", FALSE), Status(id, to, ready)>>
                     ELSE <<Status(id, to, ready)>>
  <1>1. /\ agent[p] # None /\ agent' = [agent EXCEPT ![p].state = to] /\ Report(p, msgs)
        /\ UNCHANGED <<server, now>> /\ linked' = linked /\ down' = down
        /\ Spend("media") \/ plan' = plan
    BY DEF Transition
  <1>2. /\ Onward /\ QuietIndexes /\ QuietPrograms /\ QuietHandoffs
        /\ UNCHANGED <<assignments, byPackager, byProgram, programs, handoffs, socket, now>>
    BY <1>1, ServerSame
  <1>3. agent[p] \in Work /\ id \in Ids /\ id \in Nat \ {0}
    BY <1>1, WorkFacts
  <1>4. QuietLinks
    <2>1. CASE Spend("media")
      BY <1>1, <1>2, <2>1, SpendQuiet DEF Events
    <2>2. CASE plan' = plan
      BY <1>1, <1>2, <2>2, Unchanged
    <2> QED
      BY <1>1, <2>1, <2>2
  <1>5. QuietAgents
    <2>1. agent' = [agent EXCEPT ![p] = w]
      BY <1>1, Typed
    <2>2. w \in Work /\ w.id = agent[p].id /\ w.expiresAt = agent[p].expiresAt
      BY <1>3 DEF Work
    <2> HIDE DEF w
    <2>3. /\ agent' \in [Packagers -> Work \cup {None}] /\ agent'[p] = w
          /\ \A r \in Packagers : r # p => agent'[r] = agent[r]
      BY <2>1, <2>2, Typed
    <2>4. \A r \in Packagers : agent[r] # None => agent[r].expiresAt <= assignments[agent[r].id].expiresAt
      BY DEF IInv, Held
    <2> QED
      BY <1>1, <1>2, <2>2, <2>3, <2>4 DEF QuietAgents
  <1>6. QuietReports
    <2> DEFINE a == Status(id, "starting", FALSE)
               b == Status(id, to, ready)
    <2>1. /\ a \in Message /\ a.id \in Ids /\ a.state # "stopped"
          /\ b \in Message /\ b.id \in Ids /\ b.state # "stopped"
      <3>1. to \in States /\ "starting" \in States /\ to # "stopped"
        BY DEF AgentStates, States, ActiveStates, Renewable
      <3>4. id \in Nat \ {0} /\ FALSE \in BOOLEAN /\ ready \in BOOLEAN
        BY <1>3
      <3> HIDE DEF msgs, w, id
      <3>2. a \in Message /\ a.id = id /\ a.state = "starting"
        BY <3>1, <3>4, StatusType
      <3>3. b \in Message /\ b.id = id /\ b.state = to
        BY <3>1, <3>4, StatusType
      <3> HIDE DEF a, b
      <3> QED
        BY <1>3, <3>1, <3>2, <3>3
    <2> HIDE DEF a, b
    <2>2. <<b>> \in Seq(Message) /\ \A i \in DOMAIN (<<b>>) : (<<b>>)[i] = b
      BY <2>1, PlainReport
    <2>3. <<a, b>> \in Seq(Message) /\ \A i \in DOMAIN (<<a, b>>) : (<<a, b>>)[i] \in {a, b}
      BY <2>1
    <2>4. msgs = <<b>> \/ msgs = <<a, b>>
      BY DEF a, b
    <2>5. msgs \in Seq(Message) /\ \A i \in DOMAIN msgs : msgs[i].id \in Ids /\ msgs[i].state # "stopped"
      BY <2>1, <2>2, <2>3, <2>4
    <2> HIDE DEF msgs
    <2> QED
      BY <1>1, <2>5, ReportQuiet
  <1> QED
    BY <1>1, <1>2, <1>4, <1>5, <1>6, Unchanged, StepKeeps

LEMMA GiveUpKeeps ==
  ASSUME IInv, NEW p \in Packagers, GiveUp(p), plan' = plan \/ Spend("media") PROVE IInv'
  <1>1. /\ agent[p] # None /\ agent' = [agent EXCEPT ![p] = None]
        /\ Report(p, <<Status(agent[p].id, "failed", FALSE)>>)
        /\ UNCHANGED <<server, now>> /\ linked' = linked /\ down' = down
    BY DEF GiveUp
  <1>2. /\ Onward /\ QuietIndexes /\ QuietPrograms /\ QuietHandoffs
        /\ UNCHANGED <<assignments, byPackager, byProgram, programs, handoffs, socket, now>>
    BY <1>1, ServerSame
  <1>3. agent[p].id \in Ids /\ agent[p].id \in Nat \ {0}
    BY <1>1, WorkFacts
  <1>4. QuietLinks
    <2>1. CASE Spend("media")
      BY <1>1, <1>2, <2>1, SpendQuiet DEF Events
    <2>2. CASE plan' = plan
      BY <1>1, <1>2, <2>2, Unchanged
    <2> QED
      BY <2>1, <2>2
  <1>5. QuietReports
    <2> DEFINE b == Status(agent[p].id, "failed", FALSE)
    <2>1. b \in Message /\ b.id \in Ids /\ b.state # "stopped"
      <3>1. "failed" \in States
        BY DEF States
      <3>2. b \in Message /\ b.id = agent[p].id /\ b.state = "failed"
        BY ZenonT(60), <1>3, <3>1, StatusType
      <3> HIDE DEF b
      <3> QED
        BY <1>3, <3>2
    <2>2. Report(p, <<b>>)
      BY <1>1
    <2> HIDE DEF b
    <2>3. <<b>> \in Seq(Message) /\ \A i \in DOMAIN (<<b>>) : (<<b>>)[i] = b
      BY <2>1, PlainReport
    <2>4. \A i \in DOMAIN (<<b>>) : (<<b>>)[i].id \in Ids /\ (<<b>>)[i].state # "stopped"
      BY <2>1, <2>3
    <2> QED
      BY <2>2, <2>3, <2>4, ReportQuiet
  <1> QED
    BY <1>1, <1>2, <1>4, <1>5, NoneQuiet, Unchanged, StepKeeps

LEMMA SendHeartbeatKeeps == ASSUME IInv, NEW p \in Packagers, SendHeartbeat(p) PROVE IInv'
  <1>1. /\ Report(p, <<Heartbeat>>) /\ UNCHANGED <<server, now>>
        /\ UNCHANGED <<agent, linked, down, plan>>
    BY DEF SendHeartbeat
  <1>2. /\ Onward /\ QuietIndexes /\ QuietPrograms /\ QuietHandoffs /\ UNCHANGED socket
    BY <1>1, ServerSame
  <1>3. QuietReports
    <2>1. <<Heartbeat>> \in Seq(Message) /\ DOMAIN (<<Heartbeat>>) = {1} /\ (<<Heartbeat>>)[1].kind # "status"
      BY BareType, PlainReport
    <2> QED
      BY <1>1, <2>1, ReportQuiet
  <1> QED
    BY <1>1, <1>2, <1>3, Unchanged, StepKeeps

LEMMA LinkLostKeeps == ASSUME IInv, NEW p \in Packagers, LinkLost(p) PROVE IInv'
  <1>1. EndConnection(p) /\ Spend("loss") /\ UNCHANGED <<server, now>>
    BY DEF LinkLost
  <1>2. /\ Onward /\ QuietIndexes /\ QuietPrograms /\ QuietHandoffs /\ UNCHANGED socket
    BY <1>1, ServerSame
  <1>3. plan' \in Plan /\ plan'.slots = plan.slots
    BY <1>1, SpendFacts DEF Events
  <1>4. QuietReports
    <2>1. PICK kept \in {<<>>, up[p]} :
            up' = [up EXCEPT ![p] = IF socket[p] = "none" THEN <<>> ELSE Append(kept, Closed)]
      BY DEF LinkLost
    <2>2. kept \in Seq(Message) /\ \A i \in DOMAIN kept : \E j \in DOMAIN up[p] : kept[i] = up[p][j]
      <3>1. CASE kept = <<>>
        BY <3>1, EmptyQueue
      <3>2. CASE kept = up[p]
        BY <3>2, Typed
      <3> QED
        BY <2>1, <3>1, <3>2
    <2> DEFINE t == Append(kept, Closed)
               n == Len(kept) + 1
    <2>3. /\ t \in Seq(Message) /\ DOMAIN t = DOMAIN kept \cup {n} /\ t[n] = Closed
          /\ \A i \in DOMAIN kept : t[i] = kept[i]
      BY <2>2, BareType, QueueAppend
    <2> HIDE DEF t, n
    <2>4. \A i \in DOMAIN t : t[i].kind = "status" => \E j \in DOMAIN up[p] : t[i] = up[p][j]
      BY <2>2, <2>3, BareType
    <2>5. CASE socket[p] = "none"
      <3>1. up' = [up EXCEPT ![p] = <<>>]
        BY <2>1, <2>5
      <3> QED
        BY <3>1, EmptyQueue, ReportsQuiet
    <2>6. CASE socket[p] # "none"
      <3>1. up' = [up EXCEPT ![p] = t]
        BY <2>1, <2>6 DEF t
      <3> QED
        BY <2>3, <2>4, <3>1, OldReports
    <2> QED
      BY <2>5, <2>6
  <1> QED
    BY <1>1, <1>2, <1>3, <1>4, EndQuiet, StepKeeps

LEMMA TickKeeps == ASSUME IInv, Tick PROVE IInv'
  <1>1. /\ Spend("tick") /\ now' = now + 1
        /\ UNCHANGED <<assignments, byPackager, byProgram, programs, handoffs, socket>>
        /\ UNCHANGED <<agent, linked, up, down>>
    BY DEF Tick, server, registry
  <1>2. Onward
    <2>1. \A id \in Ids : /\ assignments[id].expiresAt \in Nat /\ assignments[id].state \in States
                          /\ assignments[id].expiresAt <= now + LeaseTime
      BY Typed DEF Assignment, IInv, Leases
    <2>2. now \in Nat /\ LeaseTime \in Nat
      BY Typed, AssignmentConstants
    <2>3. now' \in Nat /\ now <= now' /\ \A id \in Ids :
            assignments[id].expiresAt <= now' + LeaseTime /\ assignments[id].expiresAt <= assignments[id].expiresAt
      BY <1>1, <2>1, <2>2
    <2> QED
      BY <1>1, <2>1, <2>3, Typed DEF Onward, States
  <1>3. QuietLinks
    BY <1>1, SpendQuiet DEF Events
  <1> QED
    BY <1>1, <1>2, <1>3, Unchanged, StepKeeps

-----------------------------------------------------------------------------
(***************************************************************************)
(* The theorems                                                            *)
(***************************************************************************)
LEMMA InitEstablishes == ASSUME Init PROVE IInv
  <1>1. Ids = {}
    BY EmptyQueue DEF Init, Ids
  <1>2. assignments = <<>> /\ <<>> \in Seq(Assignment)
    BY DEF Init
  <1>3. plan \in Plan /\ now = 0 /\ now \in Nat
    BY PlanAssumption DEF Init
  <1>4. TypeOK
    <2>1. /\ byPackager \in [Packagers -> {0} \cup Ids] /\ byProgram \in [Programs -> {0} \cup Ids]
          /\ socket \in [Packagers -> {"none", "open", "closing"}] /\ linked \in [Packagers -> BOOLEAN]
          /\ handoffs \in [Programs -> HandoffRequest \cup {None}]
          /\ agent \in [Packagers -> Work \cup {None}]
      BY DEF Init
    <2>2. programs \in [Programs -> [phase : Phases, writer : {0} \cup Ids]]
      BY DEF Init, Phases
    <2>3. up \in [Packagers -> Seq(Message)] /\ down \in [Packagers -> Seq(Command)]
      BY EmptyQueue DEF Init
    <2> QED
      BY <1>2, <1>3, <2>1, <2>2, <2>3 DEF TypeOK
  <1>5. \A p \in Packagers : agent[p] = None /\ DOMAIN up[p] = {} /\ DOMAIN down[p] = {}
    BY EmptyQueue DEF Init
  <1>6. Commands /\ Held /\ Reported
    BY <1>5 DEF Commands, Held, Reported
  <1>7. StoppedIsOver /\ Superseded /\ Leases
    BY <1>1, <1>5 DEF StoppedIsOver, Superseded, Leases
  <1>8. Latest
    <2>1. \A g \in Programs : byProgram[g] = 0 /\ handoffs[g] = None
      BY DEF Init
    <2> QED
      BY <1>1, <2>1 DEF Latest
  <1>9. Budget
    <2>1. Occupied = {}
      BY <1>1 DEF Occupied
    <2>2. Cardinality({}) = 0 /\ plan.slots \in Nat
      BY <1>3, FS_EmptySet DEF Plan
    <2> QED
      BY <2>1, <2>2 DEF Budget
  <1> QED
    BY <1>4, <1>6, <1>7, <1>8, <1>9 DEF IInv

LEMMA NextKeeps == ASSUME IInv, [Next]_vars PROVE IInv'
  <1>1. ASSUME NEW g \in plan.programs, Owner(g) PROVE IInv'
    <2>1. g \in Programs
      BY Typed DEF Plan
    <2>2. CASE \E p \in Packagers : Prepare(g, p) \/ PrepareConflict(g, p) \/ BeginHandoff(g, p)
      BY <2>1, <2>2, PrepareKeeps, PrepareConflictKeeps, BeginHandoffKeeps
    <2>3. CASE StopProgram(g) \/ PublisherLeaves(g)
      BY <2>1, <2>3, StopProgramKeeps, PublisherLeavesKeeps
    <2>4. CASE CompleteHandoff(g) \/ CancelHandoff(g)
      BY <2>1, <2>4, CompleteHandoffKeeps, CancelHandoffKeeps
    <2> QED
      BY <1>1, <2>2, <2>3, <2>4 DEF Owner
  <1>2. ASSUME NEW p \in Packagers, Socket(p) \/ SocketLost(p) \/ LinkLost(p) PROVE IInv'
    BY <1>2, ReceiveHeartbeatKeeps, ReceiveStatusKeeps, ReceiveClosedKeeps, SocketLostKeeps, LinkLostKeeps
    DEF Socket
  <1>3. ASSUME NEW p \in Packagers, Agent(p) PROVE IInv'
    <2>1. CASE Authenticate(p) \/ Obey(p) \/ SendHeartbeat(p)
      BY <2>1, AuthenticateKeeps, ObeyKeeps, SendHeartbeatKeeps
    <2>2. CASE \E to \in AgentStates, ready \in BOOLEAN : Transition(p, to, ready)
      BY <2>2, TransitionKeeps
    <2>3. CASE Expire(p) \/ Overheat(p)
      BY <2>3, GiveUpKeeps DEF Expire, Overheat
    <2> QED
      BY <1>3, <2>1, <2>2, <2>3 DEF Agent
  <1>4. CASE UNCHANGED vars
    <2>1. UNCHANGED <<server, now>> /\ UNCHANGED <<agent, linked, up, down, plan>>
      BY <1>4 DEF vars
    <2>2. /\ Onward /\ QuietIndexes /\ QuietPrograms /\ QuietHandoffs /\ UNCHANGED socket
      BY <2>1, ServerSame
    <2> QED
      BY <2>1, <2>2, Unchanged, StepKeeps
  <1> QED
    BY <1>1, <1>2, <1>3, <1>4, PruneKeeps, TickKeeps DEF Next

\* The inductive invariant holds in every reachable state, whatever the
\* packagers, programs, leases, bounds and events.
THEOREM AssignmentsInvariant == Spec => []IInv
  BY InitEstablishes, NextKeeps, PTL DEF Spec

\* Every variable keeps its type: the indexes name records, a packager works
\* on an assignment or on none, and what is under way is a message.
THEOREM AssignmentTypes == Spec => []TypeOK
  <1>1. IInv => TypeOK
    BY DEF IInv
  <1> QED
    BY <1>1, AssignmentsInvariant, PTL

\* Two packagers never work for the same program (handoffNativePackager,
\* handoffStopStatus, prepareAssignment and stopAssignment): only the last
\* assignment of a program can be at work, because its predecessor's
\* packager had let go of it when it reported "stopped".
THEOREM WriterIsUnique == Spec => []OneWriter
  <1>1. ASSUME IInv PROVE OneWriter
    <2> SUFFICES ASSUME NEW p \in Packagers, NEW q \in Packagers, agent[p] # None, agent[q] # None,
                        assignments[agent[p].id].program = assignments[agent[q].id].program
                 PROVE  p = q
      BY DEF OneWriter
    <2> DEFINE i == agent[p].id
               j == agent[q].id
    <2>1. /\ i \in Ids /\ j \in Ids /\ i \in Nat /\ j \in Nat
          /\ assignments[i].packager = p /\ assignments[j].packager = q
      BY <1>1, WorkFacts DEF IInv, Held
    <2>2. Reachable(i) /\ Reachable(j)
      BY DEF Reachable, Holds
    <2> HIDE DEF i, j
    <2>3. assignments[i].program = assignments[j].program
      BY DEF i, j
    <2>4. ~(i < j) /\ ~(j < i)
      BY <1>1, <2>1, <2>2, <2>3 DEF IInv, Superseded
    <2>5. i = j
      BY <2>1, <2>4
    <2> QED
      BY <2>1, <2>5
  <1> QED
    BY <1>1, AssignmentsInvariant, PTL

\* The packagers that encode under an unexpired lease fit the resource budget
\* (#assertResources, #occupiedResources): each of them works on a record of
\* its own that is active, or failed with a lease that runs at least as long.
THEOREM EncodersAreAdmitted == Spec => []EncodersFit
  <1>1. ASSUME IInv PROVE EncodersFit
    <2> DEFINE encoders == {p \in Packagers : agent[p] # None /\ agent[p].expiresAt > now}
               f == [p \in encoders |-> agent[p].id]
    <2>1. ASSUME NEW p \in encoders PROVE agent[p].id \in Occupied /\ assignments[agent[p].id].packager = p
      <3> DEFINE id == agent[p].id
                 r == assignments[id]
      <3>1. p \in Packagers /\ agent[p] # None /\ agent[p].expiresAt > now /\ agent[p] \in Work
        BY <1>1, WorkFacts
      <3>2. id \in Ids /\ r.packager = p /\ agent[p].expiresAt <= r.expiresAt
        BY <1>1, <3>1 DEF IInv, Held
      <3>3. r.state \in States /\ r.expiresAt \in Nat /\ agent[p].expiresAt \in Nat /\ now \in Nat
        BY <1>1, <3>1, <3>2, Typed DEF Assignment, Work
      <3>4. r.expiresAt > now
        BY <3>1, <3>2, <3>3
      <3>5. Reachable(id)
        BY <3>1 DEF Reachable, Holds
      <3>6. r.state # "stopped"
        BY <1>1, <3>2, <3>5 DEF IInv, StoppedIsOver
      <3>7. r.state \in ActiveStates \/ r.state = "failed"
        BY <3>3, <3>6 DEF States
      <3> QED
        BY <3>2, <3>4, <3>7 DEF Occupied, Active
    <2>2. f \in Injection(encoders, Occupied)
      <3>1. f \in [encoders -> Occupied]
        BY <2>1
      <3>2. \A p, q \in encoders : f[p] = f[q] => p = q
        BY <2>1
      <3> QED
        BY <3>1, <3>2 DEF Injection, IsInjective
    <2>3. IsFiniteSet(Occupied) /\ Cardinality(Occupied) \in Nat
      BY <1>1, OccupiedFinite
    <2>4. IsFiniteSet(encoders) /\ Cardinality(encoders) <= Cardinality(Occupied)
      BY <2>2, <2>3, FS_Injection
    <2>5. Cardinality(encoders) \in Nat
      BY <2>4, FS_CardinalityType
    <2>6. plan.slots \in Nat
      BY <1>1, Typed DEF Plan
    <2>7. Cardinality(Occupied) <= plan.slots
      BY <1>1 DEF IInv, Budget
    <2> HIDE DEF encoders
    <2>8. Cardinality(encoders) <= plan.slots
      BY <2>3, <2>4, <2>5, <2>6, <2>7
    <2> QED
      BY <2>8 DEF EncodersFit, encoders
  <1> QED
    BY <1>1, AssignmentsInvariant, PTL
=============================================================================
