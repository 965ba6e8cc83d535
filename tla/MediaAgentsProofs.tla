------------------------- MODULE MediaAgentsProofs -------------------------
(***************************************************************************)
(* Proofs about the media agents of a room, for any number of agents,      *)
(* peers, consents, routes and syncs under way.                            *)
(***************************************************************************)
EXTENDS MediaAgents, FiniteSetTheorems, TLAPS

-----------------------------------------------------------------------------
(***************************************************************************)
(* The invariant                                                           *)
(***************************************************************************)
\* The room is open while somebody is in it; then its lease is of this period
\* or the last one.
Open ==
  /\ members = {} => room = NoRoom
  /\ members # {} => room.live /\ room.route > 0 /\ room.lease \in {now + LeaseTime - 1, now + LeaseTime}

\* Consents are of members, for agents they own.
Owned ==
  \A i \in DOMAIN consents :
    consents[i].peer \in members /\ OwnerOf[consents[i].agent] = PrincipalOf[consents[i].peer]

Covers(rm, mem) ==
  rm.primary # 0 => \A p \in mem : Contains(Forwarders(rm, mem), AgentOf(rm, p))

\* The plans of the room are for the agents their subscribers are assigned to.
Planned == \A s \in room.plans : s.agent = AgentOf(room, s.sub)

\* The syncs an agent holds or has under way
LeasesOf(a) == {held[a], box[a].lease}

\* A lease as primary that names a member is of the room as it is now, and
\* for its present route only the primary has one.
Dated ==
  \A a \in Agents : \A l \in LeasesOf(a) :
    /\ l.peers \subseteq members \cup gone
    /\ l.role = "primary" /\ l.peers \cap members # {} =>
         l.route <= room.route /\ (l.route = room.route => room.primary = a)

Apart ==
  \A a, b \in Agents : \A l \in LeasesOf(a), k \in LeasesOf(b) :
    a # b /\ l.role = "primary" /\ k.role = "primary" /\ l.route = k.route => l.peers \cap k.peers = {}

\* What a connected agent will hold when its sync has arrived
Settled(a) == IF box[a].has THEN box[a].lease ELSE held[a]

Synced ==
  \A a \in Agents : up[a] =>
    /\ agent[a].known /\ agent[a].sock
    /\ IF InRoute(room, a)
       THEN Settled(a).route = room.route /\ Settled(a).expires = room.lease
       ELSE Settled(a) = NoLease

\* The inductive invariant.
IInv ==
  /\ TypeOK /\ Open /\ Owned /\ RouteIsEntitled /\ Covers(room, members)
  /\ Planned /\ AppliedPlansAreCurrent /\ Dated /\ Apart /\ Synced

-----------------------------------------------------------------------------
(***************************************************************************)
(* Orders                                                                  *)
(***************************************************************************)

\* A finite set has an enumeration in the order of any strict total order R:
\* the elements below an element count its place.
LEMMA Enumeration ==
  ASSUME NEW F, IsFiniteSet(F), NEW R,
         \A c \in F : <<c, c>> \notin R,
         \A c, d \in F : c # d => <<c, d>> \in R \/ <<d, c>> \in R,
         \A c, d, e \in F : <<c, d>> \in R /\ <<d, e>> \in R => <<c, e>> \in R
  PROVE  \E q \in [1..Cardinality(F) -> F] :
           \A i, j \in 1..Cardinality(F) : i < j => <<q[i], q[j]>> \in R
  <1> DEFINE n == Cardinality(F)
             Below(c) == {d \in F : <<d, c>> \in R}
             place == [c \in F |-> Cardinality(Below(c)) + 1]
  <1>1. n \in Nat
    BY FS_CardinalityType
  <1>2. ASSUME NEW c \in F
        PROVE  IsFiniteSet(Below(c)) /\ Cardinality(Below(c)) \in Nat /\ Cardinality(Below(c)) + 1 \in 1..n
    <2>1. Below(c) \in SUBSET (F \ {c})
      OBVIOUS
    <2>2. IsFiniteSet(F \ {c}) /\ Cardinality(F \ {c}) = n - 1
      BY FS_RemoveElement
    <2> HIDE DEF Below, n
    <2>3. IsFiniteSet(Below(c)) /\ Cardinality(Below(c)) <= n - 1
      BY <2>1, <2>2, FS_Subset
    <2>4. Cardinality(Below(c)) \in Nat
      BY <2>3, FS_CardinalityType
    <2> QED
      BY <1>1, <2>3, <2>4
  <1>3. place \in [F -> 1..n]
    BY <1>2
  <1>4. ASSUME NEW c \in F, NEW d \in F, <<c, d>> \in R PROVE place[c] < place[d]
    <2>1. Below(c) \subseteq Below(d) /\ c \in Below(d) /\ c \notin Below(c)
      BY <1>4
    <2>2. Below(c) # Below(d)
      BY <2>1
    <2>3. Cardinality(Below(c)) <= Cardinality(Below(d)) /\ Cardinality(Below(c)) # Cardinality(Below(d))
      BY <1>2, <2>1, <2>2, FS_Subset
    <2>4. place[c] = Cardinality(Below(c)) + 1 /\ place[d] = Cardinality(Below(d)) + 1
      OBVIOUS
    <2>5. Cardinality(Below(c)) \in Nat /\ Cardinality(Below(d)) \in Nat
      BY <1>2
    <2> HIDE DEF place, Below
    <2> QED
      BY <2>3, <2>4, <2>5
  <1> HIDE DEF place, n
  <1>5. place \in Injection(F, 1..n)
    <2>1. ASSUME NEW c \in F, NEW d \in F, place[c] = place[d] PROVE c = d
      <3>1. place[c] \in Nat
        BY <1>3, <1>1
      <3>2. ~(place[c] < place[d]) /\ ~(place[d] < place[c])
        BY <2>1, <3>1
      <3>3. <<c, d>> \notin R /\ <<d, c>> \notin R
        BY <1>4, <3>2
      <3> QED
        BY <3>3
    <2> QED
      BY <1>3, <2>1 DEF Injection, IsInjective
  <1>6. IsFiniteSet(1..n) /\ Cardinality(1..n) = n
    BY <1>1, FS_Interval
  <1>7. place \in Surjection(F, 1..n)
    BY <1>5, <1>6, FS_Injection DEF n
  <1>8. \A k \in 1..n : \E c \in F : place[c] = k
    BY <1>7 DEF Surjection
  <1> DEFINE q == [k \in 1..n |-> CHOOSE c \in F : place[c] = k]
  <1>9. q \in [1..n -> F] /\ \A k \in 1..n : place[q[k]] = k
    BY <1>8
  <1> HIDE DEF q
  <1>10. ASSUME NEW i \in 1..n, NEW j \in 1..n, i < j PROVE <<q[i], q[j]>> \in R
    <2>1. q[i] \in F /\ q[j] \in F /\ place[q[i]] = i /\ place[q[j]] = j
      BY <1>9
    <2>2. q[i] # q[j] /\ ~(j < i)
      BY <1>1, <1>10, <2>1
    <2>3. <<q[j], q[i]>> \notin R
      BY <1>4, <2>1, <2>2
    <2> QED
      BY <2>1, <2>2, <2>3
  <1> QED
    BY <1>9, <1>10 DEF n

\* An enumeration without repetition of as many elements as there are has all.
LEMMA AllListed ==
  ASSUME NEW F, IsFiniteSet(F), NEW q \in [1..Cardinality(F) -> F],
         \A i, j \in 1..Cardinality(F) : i < j => q[i] # q[j]
  PROVE  /\ Cardinality(F) \in Nat /\ q \in Seq(F) /\ Len(q) = Cardinality(F)
         /\ DOMAIN q = 1..Len(q)
         /\ \A x \in F : \E i \in DOMAIN q : q[i] = x
  <1> DEFINE n == Cardinality(F)
  <1>1. n \in Nat
    BY FS_CardinalityType
  <1>2. IsFiniteSet(1..n) /\ Cardinality(1..n) = n
    BY <1>1, FS_Interval
  <1>3. q \in Injection(1..n, F)
    <2>1. ASSUME NEW i \in 1..n, NEW j \in 1..n, q[i] = q[j] PROVE i = j
      <3>1. ~(i < j) /\ ~(j < i)
        BY <2>1
      <3> QED
        BY <1>1, <3>1
    <2> QED
      BY <2>1 DEF Injection, IsInjective
  <1>4. q \in Surjection(1..n, F)
    BY <1>2, <1>3, FS_Injection
  <1>5. \A x \in F : \E i \in 1..n : q[i] = x
    BY <1>4 DEF Surjection
  <1> QED
    BY <1>1, <1>5

LEMMA OrderedFacts ==
  ASSUME NEW S, S \subseteq Nat, IsFiniteSet(S)
  PROVE  /\ Cardinality(S) \in Nat /\ Ordered(S) \in Seq(S) /\ Len(Ordered(S)) = Cardinality(S)
         /\ DOMAIN Ordered(S) = 1..Cardinality(S)
         /\ \A i, j \in DOMAIN Ordered(S) : i < j => Ordered(S)[i] < Ordered(S)[j]
         /\ \A x \in S : \E i \in DOMAIN Ordered(S) : Ordered(S)[i] = x
  <1> DEFINE R == {e \in S \X S : e[1] < e[2]}
             Sorted(q) == \A i, j \in DOMAIN q : i < j => q[i] < q[j]
  <1>1. \A c, d \in S : <<c, d>> \in R <=> c < d
    OBVIOUS
  <1> HIDE DEF R
  <1>2. \A c \in S : <<c, c>> \notin R
    BY <1>1
  <1>3. \A c, d \in S : c # d => <<c, d>> \in R \/ <<d, c>> \in R
    BY <1>1
  <1>4. \A c, d, e \in S : <<c, d>> \in R /\ <<d, e>> \in R => <<c, e>> \in R
    BY <1>1
  <1>5. PICK q \in [1..Cardinality(S) -> S] : \A i, j \in 1..Cardinality(S) : i < j => <<q[i], q[j]>> \in R
    BY <1>2, <1>3, <1>4, Enumeration
  <1>6. \E r \in [1..Cardinality(S) -> S] : Sorted(r)
    BY <1>1, <1>5
  <1>7. Ordered(S) \in [1..Cardinality(S) -> S] /\ Sorted(Ordered(S))
    BY <1>6 DEF Ordered
  <1> DEFINE o == Ordered(S)
  <1>8. o \in [1..Cardinality(S) -> S] /\ \A i, j \in 1..Cardinality(S) : i < j => o[i] < o[j]
    BY <1>7
  <1> HIDE DEF o
  <1>9. \A i, j \in 1..Cardinality(S) : i < j => o[i] # o[j]
    <2>1. \A i \in 1..Cardinality(S) : o[i] \in Nat
      BY <1>8
    <2>2. \A x, y \in Nat : x < y => x # y
      OBVIOUS
    <2> QED
      BY <1>8, <2>1, <2>2
  <1>10. /\ Cardinality(S) \in Nat /\ o \in Seq(S) /\ Len(o) = Cardinality(S)
         /\ \A x \in S : \E i \in DOMAIN o : o[i] = x
    BY ZenonT(60), <1>8, <1>9, AllListed
  <1> QED
    BY <1>8, <1>10 DEF o

LEMMA OnlyFacts ==
  ASSUME NEW X, NEW s \in Seq(X), NEW T
  PROVE  /\ Only(s, T) \in Seq(X \cap T)
         /\ \A k \in DOMAIN Only(s, T) : \E i \in DOMAIN s : Only(s, T)[k] = s[i]
         /\ \A i \in DOMAIN s : s[i] \in T => \E k \in DOMAIN Only(s, T) : Only(s, T)[k] = s[i]
  <1> DEFINE kept == {i \in DOMAIN s : s[i] \in T}
             o == Ordered(kept)
             r == [k \in 1..Cardinality(kept) |-> s[o[k]]]
  <1>1. kept \subseteq Nat /\ IsFiniteSet(kept)
    <2>1. kept \subseteq 1..Len(s) /\ Len(s) \in Nat
      OBVIOUS
    <2>2. IsFiniteSet(1..Len(s))
      BY <2>1, FS_Interval
    <2> QED
      BY <2>1, <2>2, FS_Subset
  <1>2. /\ Cardinality(kept) \in Nat /\ DOMAIN o = 1..Cardinality(kept)
        /\ \A k \in DOMAIN o : o[k] \in kept
        /\ \A x \in kept : \E i \in DOMAIN o : o[i] = x
    <2> HIDE DEF kept
    <2>1. /\ Cardinality(kept) \in Nat /\ o \in Seq(kept) /\ DOMAIN o = 1..Cardinality(kept)
          /\ \A x \in kept : \E i \in DOMAIN o : o[i] = x
      BY <1>1, OrderedFacts
    <2> HIDE DEF o
    <2> QED
      BY <2>1
  <1>3. \A i \in kept : i \in DOMAIN s /\ s[i] \in X \cap T
    OBVIOUS
  <1>4. \A i \in DOMAIN s : s[i] \in T => i \in kept
    OBVIOUS
  <1>5. Only(s, T) = r
    BY DEF Only
  <1> HIDE DEF kept, o
  <1>6. r \in Seq(X \cap T) /\ DOMAIN r = 1..Cardinality(kept) /\ \A k \in DOMAIN r : r[k] = s[o[k]]
    BY <1>2, <1>3
  <1> HIDE DEF r
  <1>7. \A k \in DOMAIN r : \E i \in DOMAIN s : r[k] = s[i]
    BY <1>2, <1>3, <1>6
  <1>8. \A i \in DOMAIN s : s[i] \in T => \E k \in DOMAIN r : r[k] = s[i]
    BY <1>2, <1>4, <1>6
  <1> QED
    BY <1>5, <1>6, <1>7, <1>8

-----------------------------------------------------------------------------
(***************************************************************************)
(* The election                                                            *)
(***************************************************************************)
Candidate == [id : Agents, owner : Peers, auto : BOOLEAN, fit : BOOLEAN, score : Nat]

LEMMA ConsentsForFacts ==
  ASSUME NEW cons \in Seq(Consent), NEW a \in Agents, ConsentsFor(cons, a) # <<>>
  PROVE  /\ DecidingConsent(cons, a) \in Consent
         /\ \E i \in DOMAIN cons : cons[i].agent = a
  <1> DEFINE T == {c \in ToSet(cons) : c.agent = a}
             mine == ConsentsFor(cons, a)
  <1>1. mine = Only(cons, T)
    BY DEF ConsentsFor
  <1>3. \A x \in T : x.agent = a
    OBVIOUS
  <1> HIDE DEF T, mine
  <1>2. mine \in Seq(Consent \cap T) /\ \A k \in DOMAIN mine : \E i \in DOMAIN cons : mine[k] = cons[i]
    <2>1. /\ Only(cons, T) \in Seq(Consent \cap T)
          /\ \A k \in DOMAIN Only(cons, T) : \E i \in DOMAIN cons : Only(cons, T)[k] = cons[i]
      BY OnlyFacts
    <2> QED
      BY <1>1, <2>1
  <1>4. mine # <<>>
    BY DEF mine
  <1>5. Len(mine) \in Nat /\ Len(mine) > 0 /\ 1 \in DOMAIN mine /\ Len(mine) \in DOMAIN mine
    BY <1>2, <1>4
  <1>6. mine[1] \in Consent \cap T /\ mine[Len(mine)] \in Consent /\ Head(mine) = mine[1]
    BY <1>2, <1>4, <1>5
  <1>7. DecidingConsent(cons, a) \in Consent
    BY <1>6 DEF DecidingConsent, mine, Last
  <1>8. \E i \in DOMAIN cons : mine[1] = cons[i]
    BY <1>2, <1>5
  <1> QED
    BY <1>3, <1>6, <1>7, <1>8

LEMMA CandidatesFacts ==
  ASSUME NEW cons \in Seq(Consent), NEW ags \in [Agents -> Entry], NEW mem
  PROVE  /\ Candidates(cons, ags, mem) \in SUBSET Candidate
         /\ \A c \in Candidates(cons, ags, mem) :
              /\ ConsentsFor(cons, c.id) # <<>> /\ Healthy(ags, c.id, mem)
              /\ c.fit <=> ~ags[c.id].draining /\ ags[c.id].fitness > 0
              /\ c.auto = DecidingConsent(cons, c.id).auto
         /\ \A c, d \in Candidates(cons, ags, mem) : c.id = d.id => c = d
  <1> DEFINE D(a) == DecidingConsent(cons, a)
             E(a) == [id |-> a, owner |-> D(a).peer, auto |-> D(a).auto,
                      fit |-> ~ags[a].draining /\ ags[a].fitness > 0,
                      score |-> ags[a].fitness + (IF D(a).creatorOwned THEN CreatorPreference ELSE 0)]
             A == {b \in Agents : ConsentsFor(cons, b) # <<>> /\ Healthy(ags, b, mem)}
  <1>1. Candidates(cons, ags, mem) = {E(a) : a \in A}
    BY DEF Candidates
  <1>2. ASSUME NEW a \in A
        PROVE  /\ E(a) \in Candidate /\ E(a).id = a /\ E(a).auto = D(a).auto
               /\ E(a).fit <=> ~ags[a].draining /\ ags[a].fitness > 0
    <2>1. a \in Agents /\ ConsentsFor(cons, a) # <<>>
      OBVIOUS
    <2>2. D(a) \in Consent
      BY <2>1, ConsentsForFacts
    <2> HIDE DEF D
    <2>3. D(a).peer \in Peers /\ D(a).auto \in BOOLEAN /\ D(a).creatorOwned \in BOOLEAN
      BY <2>2 DEF Consent
    <2>4. ags[a].draining \in BOOLEAN /\ ags[a].fitness \in Nat
      BY <2>1 DEF Entry
    <2>5. ags[a].fitness + (IF D(a).creatorOwned THEN CreatorPreference ELSE 0) \in Nat
      BY <2>4 DEF CreatorPreference
    <2>6. (~ags[a].draining /\ ags[a].fitness > 0) \in BOOLEAN
      OBVIOUS
    <2> QED
      BY <2>1, <2>3, <2>5, <2>6 DEF Candidate
  <1> HIDE DEF E, D
  <1>3. ASSUME NEW c \in Candidates(cons, ags, mem)
        PROVE  \E a \in A : c = E(a)
    BY <1>1
  <1>4. \A c \in Candidates(cons, ags, mem) : c.id \in A /\ c = E(c.id)
    BY <1>2, <1>3
  <1>5. \A c \in Candidates(cons, ags, mem) : c \in Candidate
    BY <1>2, <1>4
  <1>6. \A c \in Candidates(cons, ags, mem) :
          (c.fit <=> ~ags[c.id].draining /\ ags[c.id].fitness > 0) /\ c.auto = D(c.id).auto
    BY <1>2, <1>4
  <1> QED
    BY <1>4, <1>5, <1>6 DEF D

\* The ranking lists the fit candidates, and no others.
LEMMA RankedFacts ==
  ASSUME NEW C \in SUBSET Candidate, \A c, d \in C : c.id = d.id => c = d
  PROVE  /\ Ranked(C) \in Seq({c \in C : c.fit})
         /\ \A c \in C : c.fit => \E i \in DOMAIN Ranked(C) : Ranked(C)[i] = c
  <1> DEFINE F == {c \in C : c.fit}
             R == {e \in F \X F : Before(e[1], e[2])}
             Sorted(q) == \A i, j \in DOMAIN q : i < j => Before(q[i], q[j])
             q == Ranked(C)
  <1>1. \A c \in F : c \in C /\ c.score \in Nat /\ c.id \in Nat /\ c.id \in Agents
    BY IdAssumption DEF Candidate
  <1>2. IsFiniteSet(F)
    <2> DEFINE f == [c \in F |-> c.id]
    <2>1. f \in [F -> Agents] /\ \A c, d \in F : f[c] = f[d] => c = d
      BY <1>1
    <2>2. f \in Injection(F, Agents)
      BY <2>1 DEF Injection, IsInjective
    <2> QED
      BY <2>2, IdAssumption, FS_Injection
  <1>3. \A c, d \in F : <<c, d>> \in R <=> Before(c, d)
    OBVIOUS
  <1>a. q = CHOOSE r \in [1..Cardinality(F) -> F] : Sorted(r)
    BY DEF Ranked
  <1> HIDE DEF F, R, q
  <1>4. \A c \in F : <<c, c>> \notin R
    BY <1>1, <1>3 DEF Before
  <1>5. \A c, d \in F : c # d => <<c, d>> \in R \/ <<d, c>> \in R
    <2>1. ASSUME NEW c \in F, NEW d \in F, c # d PROVE Before(c, d) \/ Before(d, c)
      <3>1. c.id # d.id
        BY <1>1, <2>1
      <3>2. c.score \in Nat /\ d.score \in Nat /\ c.id \in Nat /\ d.id \in Nat
        BY <1>1
      <3> QED
        BY <3>1, <3>2 DEF Before
    <2> QED
      BY <1>3, <2>1
  <1>6. \A c, d, e \in F : <<c, d>> \in R /\ <<d, e>> \in R => <<c, e>> \in R
    <2>1. ASSUME NEW c \in F, NEW d \in F, NEW e \in F, Before(c, d), Before(d, e) PROVE Before(c, e)
      <3>1. /\ c.score \in Nat /\ d.score \in Nat /\ e.score \in Nat
            /\ c.id \in Nat /\ d.id \in Nat /\ e.id \in Nat
        BY <1>1
      <3> QED
        BY <2>1, <3>1 DEF Before
    <2> QED
      BY <1>3, <2>1
  <1>7. PICK r \in [1..Cardinality(F) -> F] : \A i, j \in 1..Cardinality(F) : i < j => <<r[i], r[j]>> \in R
    BY <1>2, <1>4, <1>5, <1>6, Enumeration
  <1>8. \E t \in [1..Cardinality(F) -> F] : Sorted(t)
    BY <1>3, <1>7
  <1>9. q \in [1..Cardinality(F) -> F] /\ Sorted(q)
    BY <1>8, <1>a
  <1>10. \A i, j \in 1..Cardinality(F) : i < j => q[i] # q[j]
    BY <1>3, <1>4, <1>9
  <1>11. q \in Seq(F) /\ \A x \in F : \E i \in DOMAIN q : q[i] = x
    BY ZenonT(60), <1>2, <1>9, <1>10, AllListed
  <1>12. \A c \in C : c.fit => c \in F
    BY DEF F
  <1> QED
    BY <1>11, <1>12 DEF q, F

LEMMA StandbysFacts ==
  ASSUME NEW ranked \in Seq(Candidate), NEW primary
  PROVE  /\ Standbys(ranked, primary) \in Seq(Agents)
         /\ \A k \in DOMAIN Standbys(ranked, primary) :
              /\ Standbys(ranked, primary)[k] # primary
              /\ \E i \in DOMAIN ranked : Standbys(ranked, primary)[k] = ranked[i].id
  <1> DEFINE ids == [i \in DOMAIN ranked |-> ranked[i].id]
             T == Agents \ {primary}
             others == Only(ids, T)
             m == IF Len(others) < MaxStandbys THEN Len(others) ELSE MaxStandbys
  <1>1. \A i \in DOMAIN ranked : ranked[i].id \in Agents
    <2>1. \A i \in DOMAIN ranked : ranked[i] \in Candidate
      OBVIOUS
    <2> QED
      BY <2>1 DEF Candidate
  <1>2. ids \in Seq(Agents) /\ DOMAIN ids = DOMAIN ranked
    BY <1>1
  <1>3. \A i \in DOMAIN ids : ids[i] = ranked[i].id
    OBVIOUS
  <1>4. Standbys(ranked, primary) = SubSeq(others, 1, m)
    BY DEF Standbys
  <1>a. \A x \in T : x # primary
    OBVIOUS
  <1> HIDE DEF ids, T
  <1>5. /\ Only(ids, T) \in Seq(Agents \cap T)
        /\ \A k \in DOMAIN Only(ids, T) : \E i \in DOMAIN ids : Only(ids, T)[k] = ids[i]
    BY <1>2, OnlyFacts
  <1> HIDE DEF others
  <1>b. /\ others \in Seq(Agents \cap T)
        /\ \A k \in DOMAIN others : \E i \in DOMAIN ids : others[k] = ids[i]
    BY <1>5 DEF others
  <1>6. others \in Seq(Agents) /\ \A k \in DOMAIN others : others[k] # primary
    BY <1>a, <1>b
  <1>7. Len(others) \in Nat /\ DOMAIN others = 1..Len(others)
    BY <1>6
  <1>8. m \in Nat /\ m <= Len(others)
    BY <1>7, SizeAssumption
  <1> HIDE DEF m
  <1>9. /\ SubSeq(others, 1, m) \in Seq(Agents) /\ DOMAIN SubSeq(others, 1, m) = 1..m
        /\ \A k \in 1..m : SubSeq(others, 1, m)[k] = others[k] /\ k \in DOMAIN others
    BY <1>6, <1>7, <1>8
  <1> DEFINE t == SubSeq(others, 1, m)
  <1> HIDE DEF t
  <1>10. t \in Seq(Agents) /\ \A k \in DOMAIN t : k \in DOMAIN others /\ t[k] = others[k]
    BY <1>9 DEF t
  <1>11. \A k \in DOMAIN t : t[k] # primary /\ \E i \in DOMAIN ranked : t[k] = ranked[i].id
    BY <1>2, <1>3, <1>b, <1>6, <1>10
  <1> QED
    BY <1>4, <1>10, <1>11 DEF t

-----------------------------------------------------------------------------
(***************************************************************************)
(* Routes                                                                  *)
(***************************************************************************)
LEMMA Remainder ==
  ASSUME NEW x \in Nat, NEW n \in Nat, n > 0
  PROVE  x % n \in Nat /\ x % n < n
  OBVIOUS

\* Every member has its place in the assignment, with a forwarder.
LEMMA AssignmentFacts ==
  ASSUME NEW mem, mem \subseteq Peers, IsFiniteSet(mem), NEW fwd \in Seq(Agents), NEW owner
  PROVE  /\ Assignment(fwd, owner, mem) \in Seq(Peers \X Agents)
         /\ \A i \in DOMAIN Assignment(fwd, owner, mem) :
              \E j \in DOMAIN fwd : Assignment(fwd, owner, mem)[i][2] = fwd[j]
         /\ fwd # <<>> => \A p \in mem : \E i \in DOMAIN Assignment(fwd, owner, mem) :
                                           Assignment(fwd, owner, mem)[i][1] = p
  <1> DEFINE rest == mem \ {owner}
             line == IF owner \in mem THEN <<owner>> \o Ordered(rest) ELSE Ordered(mem)
             n == Len(fwd)
             skipped == IF owner \in mem THEN 1 ELSE 0
             turn(i) == i - 1 - skipped + (IF n > 1 THEN 1 ELSE 0)
             A == [i \in DOMAIN line |-> <<line[i], IF i <= skipped THEN fwd[1] ELSE fwd[1 + (turn(i) % n)]>>]
  <1>1. Assignment(fwd, owner, mem) = IF fwd = <<>> THEN <<>> ELSE A
    BY DEF Assignment
  <1>2. CASE fwd = <<>>
    BY <1>1, <1>2
  <1>3. CASE fwd # <<>>
    <2>1. line \in Seq(Peers) /\ \A p \in mem : \E i \in DOMAIN line : line[i] = p
      <3>1. mem \subseteq Nat /\ rest \subseteq mem /\ IsFiniteSet(rest)
        BY IdAssumption, FS_Subset
      <3> HIDE DEF rest
      <3>2. /\ Ordered(rest) \in Seq(rest) /\ \A x \in rest : \E i \in DOMAIN Ordered(rest) : Ordered(rest)[i] = x
            /\ Ordered(mem) \in Seq(mem) /\ \A x \in mem : \E i \in DOMAIN Ordered(mem) : Ordered(mem)[i] = x
        BY <3>1, OrderedFacts
      <3>3. CASE owner \notin mem
        BY <3>2, <3>3
      <3>4. CASE owner \in mem
        <4> DEFINE o == Ordered(rest)
                   l == <<owner>> \o o
        <4>2. o \in Seq(rest) /\ \A x \in rest : \E i \in DOMAIN o : o[i] = x
          BY <3>2
        <4> HIDE DEF o
        <4>a. rest \subseteq Peers /\ owner \in Peers
          BY <3>1, <3>4
        <4>1. o \in Seq(Peers) /\ owner \in Peers
          BY <4>2, <4>a
        <4>3. l \in Seq(Peers) /\ Len(l) = Len(o) + 1 /\ Len(o) \in Nat
          BY <4>1
        <4>4. l[1] = owner /\ 1 \in DOMAIN l
          BY <4>1, <4>3
        <4>5. \A i \in DOMAIN o : i + 1 \in DOMAIN l /\ l[i + 1] = o[i]
          BY <4>1, <4>3
        <4>6. line = l
          BY <3>4 DEF o
        <4>7. \A p \in mem : p = owner \/ p \in rest
          BY DEF rest
        <4> HIDE DEF l
        <4> QED
          BY <4>2, <4>3, <4>4, <4>5, <4>6, <4>7
      <3> QED
        BY <3>3, <3>4
    <2> HIDE DEF line
    <2>2. n \in Nat /\ n > 0 /\ DOMAIN fwd = 1..n
      BY <1>3
    <2>3. ASSUME NEW i \in DOMAIN line, ~(i <= skipped) PROVE 1 + (turn(i) % n) \in DOMAIN fwd
      <3>1. i \in Nat /\ i >= 1
        BY <2>1
      <3>2. turn(i) \in Nat
        BY <2>2, <2>3, <3>1
      <3> HIDE DEF turn, n
      <3>3. turn(i) % n \in Nat /\ turn(i) % n < n
        BY <2>2, <3>2, Remainder
      <3> QED
        BY <2>2, <3>3
    <2>4. \A i \in DOMAIN line : A[i][1] = line[i] /\ \E j \in DOMAIN fwd : A[i][2] = fwd[j]
      <3> HIDE DEF turn, n, skipped
      <3>1. 1 \in DOMAIN fwd
        BY <2>2
      <3> QED
        BY <2>3, <3>1
    <2>5. \A i \in DOMAIN line : A[i] = <<A[i][1], A[i][2]>>
      OBVIOUS
    <2>6. DOMAIN A = DOMAIN line /\ DOMAIN line = 1..Len(line) /\ Len(line) \in Nat
      BY <2>1
    <2>7. A = [i \in 1..Len(line) |-> A[i]]
      BY <2>6
    <2> HIDE DEF A
    <2>8. \A i \in DOMAIN line : A[i] \in Peers \X Agents
      <3>1. ASSUME NEW i \in DOMAIN line PROVE A[i] \in Peers \X Agents
        <4> DEFINE x == A[i][1]
                   y == A[i][2]
        <4>1. x \in Peers
          BY <2>1, <2>4
        <4>2. y \in Agents
          BY <2>4
        <4>3. A[i] = <<x, y>>
          BY <2>5
        <4> HIDE DEF x, y
        <4>4. <<x, y>> \in Peers \X Agents
          BY <4>1, <4>2
        <4> QED
          BY <4>3, <4>4
      <3> QED
        BY <3>1
    <2>9. A \in Seq(Peers \X Agents)
      BY <2>6, <2>7, <2>8
    <2> QED
      BY <1>1, <1>3, <2>1, <2>4, <2>6, <2>9
  <1> QED
    BY <1>2, <1>3

LEMMA AgentOfFacts ==
  ASSUME NEW rm, rm.assigned \in Seq(Peers \X Agents), NEW p
  PROVE  /\ AgentOf(rm, p) \in Id
         /\ (\E i \in DOMAIN rm.assigned : rm.assigned[i][1] = p) =>
              \E i \in DOMAIN rm.assigned : AgentOf(rm, p) = rm.assigned[i][2]
  <1> DEFINE hit == {i \in DOMAIN rm.assigned : rm.assigned[i][1] = p}
  <1>1. CASE hit = {}
    BY <1>1 DEF AgentOf, Id
  <1>2. CASE hit # {}
    <2> DEFINE i == CHOOSE i \in hit : TRUE
    <2>1. i \in hit
      BY <1>2
    <2>2. AgentOf(rm, p) = rm.assigned[i][2]
      BY <1>2 DEF AgentOf
    <2> HIDE DEF i
    <2>3. i \in DOMAIN rm.assigned
      BY <2>1
    <2>4. rm.assigned[i] \in Peers \X Agents
      BY <2>3
    <2>5. rm.assigned[i][2] \in Agents
      BY <2>4
    <2> QED
      BY <2>2, <2>3, <2>5 DEF Id
  <1> QED
    BY <1>1, <1>2

LEMMA ForwardersFacts ==
  ASSUME NEW rm \in Room, NEW mem
  PROVE  /\ Forwarders(rm, mem) \in Seq(Agents)
         /\ rm.primary # 0 =>
              /\ Forwarders(rm, mem) # <<>> /\ Tail(Forwarders(rm, mem)) \in Seq(Agents)
              /\ \A a : Contains(Forwarders(rm, mem), a) =>
                   a = rm.primary \/ a \in ToSet(Tail(Forwarders(rm, mem)))
  <1>1. rm.primary \in Id /\ rm.standbys \in Seq(Agents)
    BY DEF Room
  <1>2. CASE rm.primary = 0
    BY <1>2 DEF Forwarders
  <1>3. CASE rm.primary # 0
    <2> DEFINE tail == IF Cardinality(mem) >= ShardMinParticipants THEN rm.standbys ELSE <<>>
               f == <<rm.primary>> \o tail
    <2>1. Forwarders(rm, mem) = f
      BY <1>3 DEF Forwarders
    <2>2. tail \in Seq(Agents) /\ rm.primary \in Agents
      BY <1>1, <1>3 DEF Id
    <2> HIDE DEF tail
    <2>3. f \in Seq(Agents) /\ Len(f) = Len(tail) + 1 /\ f[1] = rm.primary /\ f # <<>>
      BY <2>2
    <2>4. Tail(f) \in Seq(Agents) /\ Len(Tail(f)) = Len(tail)
      BY <2>3, <2>2
    <2>5. DOMAIN Tail(f) = 1..Len(tail) /\ \A i \in 1..Len(tail) : Tail(f)[i] = f[i + 1]
      BY <2>3, <2>4
    <2> HIDE DEF f
    <2>6. ASSUME NEW i \in 1..Len(f) PROVE f[i] = rm.primary \/ f[i] \in ToSet(Tail(f))
      <3>1. CASE i = 1
        BY <2>3, <3>1
      <3>2. CASE i # 1
        <4>1. i - 1 \in 1..Len(tail) /\ (i - 1) + 1 = i
          BY <2>2, <2>3, <3>2
        <4> QED
          BY <2>5, <4>1 DEF ToSet
      <3> QED
        BY <3>1, <3>2
    <2> QED
      BY <2>1, <2>3, <2>4, <2>6 DEF Contains
  <1> QED
    BY <1>2, <1>3

LEMMA LinksFacts ==
  ASSUME NEW rm \in Room, NEW mem
  PROVE  Links(rm, mem) \in SUBSET (SUBSET Id)
  <1>1. CASE rm.primary = 0
    BY <1>1 DEF Links
  <1>2. CASE rm.primary # 0
    <2> DEFINE tail == Tail(Forwarders(rm, mem))
    <2>1. tail \in Seq(Agents) /\ rm.primary \in Id
      BY <1>2, ForwardersFacts DEF Room
    <2>2. Links(rm, mem) = {{rm.primary, b} : b \in ToSet(tail)}
      BY <1>2 DEF Links
    <2> HIDE DEF tail
    <2>3. \A b \in ToSet(tail) : b \in Id
      BY <2>1 DEF ToSet, Id
    <2> QED
      BY <2>1, <2>2, <2>3
  <1> QED
    BY <1>1, <1>2

LEMMA EdgesFacts ==
  ASSUME NEW rm \in Room, NEW mem, NEW p
  PROVE  Edges(rm, mem, p) \in SUBSET (Id \X Id)
  <1> DEFINE source == AgentOf(rm, p)
             targets == {AgentOf(rm, q) : q \in mem \ {p}} \ {source, 0}
             E == Edges(rm, mem, p)
  <1>1. rm.assigned \in Seq(Peers \X Agents) /\ rm.primary \in Id
    BY DEF Room
  <1>2. source \in Id
    BY <1>1, AgentOfFacts
  <1>3. targets \subseteq Id
    BY <1>1, AgentOfFacts
  <1>4. E = IF source = 0 \/ targets = {} THEN {}
            ELSE IF source = rm.primary THEN {<<source, t>> : t \in targets}
            ELSE {<<source, rm.primary>>} \cup {<<rm.primary, t>> : t \in targets \ {rm.primary}}
    BY DEF Edges
  <1> HIDE DEF source, targets, E
  <1> QED
    BY <1>1, <1>2, <1>3, <1>4 DEF E

LEMMA DemandsFacts ==
  ASSUME NEW rm \in Room, NEW mem
  PROVE  Demands(rm, mem) \in SUBSET (Id \X Id \X Peers)
  <1> DEFINE path(s) == {e \in Edges(rm, mem, s.pub) :
                           e[2] = s.agent \/ (e[2] = rm.primary /\ e[1] # rm.primary
                                              /\ <<rm.primary, s.agent>> \in Edges(rm, mem, s.pub))}
             D(s) == {<<e[1], e[2], s.pub>> : e \in IF AgentOf(rm, s.pub) = s.agent THEN {} ELSE path(s)}
             P == {t \in rm.plans : t.enabled}
  <1>1. Demands(rm, mem) = UNION {D(s) : s \in P}
    BY DEF Demands
  <1>2. \A s \in P : s.pub \in Peers
    <2>1. rm.plans \subseteq Subscription
      BY DEF Room
    <2> QED
      BY <2>1 DEF Subscription
  <1>3. ASSUME NEW s \in P PROVE D(s) \subseteq Id \X Id \X Peers
    <2>1. path(s) \subseteq Id \X Id
      BY EdgesFacts
    <2>2. s.pub \in Peers
      BY <1>2
    <2> HIDE DEF path
    <2>3. ASSUME NEW e \in path(s) PROVE <<e[1], e[2], s.pub>> \in Id \X Id \X Peers
      <3>1. e[1] \in Id /\ e[2] \in Id
        BY <2>1
      <3> QED
        BY <2>2, <3>1
    <2> QED
      BY <2>3
  <1> HIDE DEF D, P
  <1> QED
    BY <1>1, <1>3

\* What a sync tells an agent of its room.
LEMMA RoomLeaseFacts ==
  ASSUME NEW rm \in Room, NEW mem \in SUBSET Peers, NEW a \in Agents
  PROVE  /\ RoomLease(rm, mem, a) \in Lease
         /\ ~InRoute(rm, a) => RoomLease(rm, mem, a) = NoLease
         /\ InRoute(rm, a) => /\ RoomLease(rm, mem, a).route = rm.route
                              /\ RoomLease(rm, mem, a).expires = rm.lease
                              /\ RoomLease(rm, mem, a).peers = mem
                              /\ RoomLease(rm, mem, a).role = "primary" => rm.primary = a
  <1>1. CASE ~InRoute(rm, a)
    BY <1>1 DEF RoomLease, NoLease, Lease
  <1>2. CASE InRoute(rm, a)
    <2> DEFINE R(p) == [pub |-> p, source |-> AgentOf(rm, p), edges |-> Edges(rm, mem, p)]
               routes == {R(p) : p \in mem}
               role == IF rm.primary = a THEN "primary" ELSE "standby"
               mine == {p \in mem : AgentOf(rm, p) = a}
               links == {l \in Links(rm, mem) : a \in l}
               rs == {r \in routes : r.edges # {} /\ (r.source = a \/ \E e \in r.edges : a \in {e[1], e[2]})}
               plans == {s \in rm.plans : s.agent = a}
               demands == {d \in Demands(rm, mem) : a \in {d[1], d[2]}}
               L == [route |-> rm.route, membership |-> rm.membership, expires |-> rm.lease,
                     role |-> role, peers |-> mem, mine |-> mine, links |-> links, routes |-> rs,
                     plans |-> plans, demands |-> demands]
    <2>1. RoomLease(rm, mem, a) = L
      BY <1>2 DEF RoomLease
    <2>2. /\ rm.route \in Nat /\ rm.membership \in Nat /\ rm.lease \in Nat
          /\ rm.assigned \in Seq(Peers \X Agents) /\ rm.plans \subseteq Subscription
      BY DEF Room
    <2>3. ASSUME NEW p \in mem PROVE R(p) \in Route
      <3>1. AgentOf(rm, p) \in Id
        BY <2>2, AgentOfFacts
      <3>2. Edges(rm, mem, p) \in SUBSET (Id \X Id)
        BY EdgesFacts
      <3>3. p \in Peers
        OBVIOUS
      <3> QED
        BY <3>1, <3>2, <3>3 DEF Route
    <2>4. rs \in SUBSET Route
      <3> HIDE DEF R
      <3> QED
        BY <2>3
    <2>5. links \in SUBSET (SUBSET Id)
      BY LinksFacts
    <2>6. demands \in SUBSET (Id \X Id \X Peers)
      BY DemandsFacts
    <2>7. plans \in SUBSET Subscription
      BY <2>2
    <2>8. mine \in SUBSET Peers
      OBVIOUS
    <2>9. role \in {"none", "primary", "standby"} /\ (role = "primary" => rm.primary = a)
      OBVIOUS
    <2> HIDE DEF routes, role, mine, links, rs, plans, demands
    <2>10. L \in Lease
      BY <2>2, <2>4, <2>5, <2>6, <2>7, <2>8, <2>9 DEF Lease
    <2> QED
      BY <1>2, <2>1, <2>9, <2>10
  <1> QED
    BY <1>1, <1>2

\* A room whose members are all assigned to forwarders connects them.
LEMMA CoveredIsReached ==
  ASSUME NEW rm \in Room, NEW mem, Covers(rm, mem), rm.primary # 0, NEW p \in mem
  PROVE  /\ Contains(Forwarders(rm, mem), AgentOf(rm, p))
         /\ \A e \in Edges(rm, mem, p) : {e[1], e[2]} \in Links(rm, mem)
         /\ \A e, f \in Edges(rm, mem, p) : e[2] = f[2] => e = f
         /\ \A q \in mem :
              \/ AgentOf(rm, q) = AgentOf(rm, p)
              \/ <<AgentOf(rm, p), AgentOf(rm, q)>> \in Edges(rm, mem, p)
              \/ /\ <<AgentOf(rm, p), rm.primary>> \in Edges(rm, mem, p)
                 /\ <<rm.primary, AgentOf(rm, q)>> \in Edges(rm, mem, p)
  <1> DEFINE source == AgentOf(rm, p)
             targets == {AgentOf(rm, q) : q \in mem \ {p}} \ {source, 0}
             E == Edges(rm, mem, p)
             tail == ToSet(Tail(Forwarders(rm, mem)))
  <1>1. E = IF source = 0 \/ targets = {} THEN {}
            ELSE IF source = rm.primary THEN {<<source, t>> : t \in targets}
            ELSE {<<source, rm.primary>>} \cup {<<rm.primary, t>> : t \in targets \ {rm.primary}}
    BY DEF Edges
  <1>2. \A q \in mem : AgentOf(rm, q) = rm.primary \/ AgentOf(rm, q) \in tail
    BY ForwardersFacts DEF Covers
  <1>3. Links(rm, mem) = {{rm.primary, b} : b \in tail}
    BY DEF Links
  <1>4. Contains(Forwarders(rm, mem), source)
    BY DEF Covers
  <1>5. 0 \notin tail /\ rm.primary # 0
    <2>1. Tail(Forwarders(rm, mem)) \in Seq(Agents)
      BY ForwardersFacts
    <2> QED
      BY <2>1, IdAssumption DEF ToSet
  <1>6. source \in {rm.primary} \cup tail /\ targets \subseteq {rm.primary} \cup tail /\ source \notin targets
    BY <1>2
  <1>7. \A q \in mem : AgentOf(rm, q) = source \/ AgentOf(rm, q) \in targets
    BY <1>2, <1>5
  <1>8. source # 0
    BY <1>5, <1>6
  <1> HIDE DEF source, targets, E, tail
  <1>9. \A e \in E : {e[1], e[2]} \in {{rm.primary, b} : b \in tail}
    <2>1. CASE source = rm.primary
      <3>1. ASSUME NEW t \in targets PROVE {source, t} \in {{rm.primary, b} : b \in tail}
        BY <1>6, <2>1
      <3>2. \A e \in E : \E t \in targets : e = <<source, t>>
        BY <1>1, <2>1
      <3> QED
        BY <3>1, <3>2
    <2>2. CASE source # rm.primary
      <3>1. {source, rm.primary} \in {{rm.primary, b} : b \in tail}
        <4>1. source \in tail /\ {source, rm.primary} = {rm.primary, source}
          BY <1>6, <2>2
        <4> QED
          BY <4>1
      <3>2. ASSUME NEW t \in targets \ {rm.primary} PROVE {rm.primary, t} \in {{rm.primary, b} : b \in tail}
        BY <1>6
      <3>3. \A e \in E : e = <<source, rm.primary>> \/ \E t \in targets \ {rm.primary} : e = <<rm.primary, t>>
        BY <1>1, <2>2
      <3> QED
        BY <3>1, <3>2, <3>3
    <2> QED
      BY <2>1, <2>2
  <1>10. \A e, f \in E : e[2] = f[2] => e = f
    BY <1>1
  <1>11. ASSUME NEW q \in mem
         PROVE  \/ AgentOf(rm, q) = source \/ <<source, AgentOf(rm, q)>> \in E
                \/ <<source, rm.primary>> \in E /\ <<rm.primary, AgentOf(rm, q)>> \in E
    BY <1>1, <1>7, <1>8
  <1> QED
    BY <1>3, <1>4, <1>9, <1>10, <1>11 DEF source, E

-----------------------------------------------------------------------------
(***************************************************************************)
(* What reconcile leaves                                                   *)
(***************************************************************************)
LEMMA ElectionFacts ==
  ASSUME NEW ranked \in Seq(Candidate), NEW current, NEW failover \in BOOLEAN, NEW approved
  PROVE  LET e == Election(ranked, current, failover, approved)
         IN /\ e.primary \in Id /\ e.takeover \in Id
            /\ e.primary # 0 => \E i \in DOMAIN ranked : ranked[i].id = e.primary
            /\ e.takeover # 0 => \E i \in DOMAIN ranked : ranked[i].id = e.takeover
            /\ failover /\ e.primary # 0 /\ e.primary # current =>
                 \E i \in DOMAIN ranked : ranked[i].id = e.primary
                                          /\ (ranked[i].auto \/ e.primary \in approved)
  <1> DEFINE holds == \E i \in DOMAIN ranked : ranked[i].id = current
             best == ranked[1]
             wanted == /\ ranked # <<>> /\ best.id # current
                       /\ \A i \in DOMAIN ranked :
                            ranked[i].id = current => best.score >= ranked[i].score + SwitchMargin
             asks == (holds \/ failover) /\ ~best.auto /\ best.id \notin approved
             e == Election(ranked, current, failover, approved)
  <1>1. /\ e.primary = IF wanted /\ ~asks THEN best.id ELSE IF holds THEN current ELSE 0
        /\ e.takeover = IF wanted /\ asks THEN best.id ELSE 0
    BY DEF Election
  <1>2. wanted => 1 \in DOMAIN ranked
    OBVIOUS
  <1>3. \A i \in DOMAIN ranked : ranked[i].id \in Agents
    <2>1. \A i \in DOMAIN ranked : ranked[i] \in Candidate
      OBVIOUS
    <2> QED
      BY <2>1 DEF Candidate
  <1>4. wanted => best.id \in Agents /\ \E i \in DOMAIN ranked : i = 1 /\ ranked[i].id = best.id
    BY <1>2, <1>3
  <1>5. holds => current \in Agents
    BY <1>3
  <1>6. wanted /\ ~asks /\ failover => best.auto \/ best.id \in approved
    OBVIOUS
  <1>7. \A x \in Agents : x \in Id
    BY DEF Id
  <1>8. 0 \in Id
    BY DEF Id
  <1> HIDE DEF wanted, asks, e
  <1>9. e.primary \in Id /\ e.takeover \in Id
    BY <1>1, <1>4, <1>5, <1>7, <1>8
  <1>10. e.primary # 0 => \E i \in DOMAIN ranked : ranked[i].id = e.primary
    BY <1>1, <1>4
  <1>11. e.takeover # 0 => \E i \in DOMAIN ranked : ranked[i].id = e.takeover
    BY <1>1, <1>4
  <1>12. failover /\ e.primary # 0 /\ e.primary # current =>
           \E i \in DOMAIN ranked : ranked[i].id = e.primary /\ (ranked[i].auto \/ e.primary \in approved)
    BY <1>1, <1>2, <1>6
  <1> QED
    BY <1>9, <1>10, <1>11, <1>12 DEF e

LEMMA AskedFacts ==
  ASSUME NEW waiting \in Pending, NEW e, e.takeover \in Id, NEW C \in SUBSET Candidate, now \in Nat,
         e.takeover # 0 => \E c \in C : c.id = e.takeover
  PROVE  Asked(waiting, e, C) \in Pending
  <1>1. NoPending \in Pending
    BY DEF NoPending, Pending, Id
  <1>2. CASE e.takeover = 0 \/ waiting.agent = e.takeover
    BY <1>1, <1>2 DEF Asked
  <1>3. CASE e.takeover # 0 /\ waiting.agent # e.takeover
    <2> DEFINE c == CHOOSE c \in C : c.id = e.takeover
    <2>1. c \in C
      BY <1>3
    <2>2. Asked(waiting, e, C) = [agent |-> e.takeover, expires |-> now + TakeoverTtl, peer |-> c.owner]
      BY <1>3 DEF Asked
    <2> HIDE DEF c
    <2>3. c.owner \in Peers
      BY <2>1 DEF Candidate
    <2>4. now + TakeoverTtl \in Nat
      BY SizeAssumption
    <2> QED
      BY <2>2, <2>3, <2>4 DEF Pending
  <1> QED
    BY <1>2, <1>3

LEMMA NoRoomType == NoRoom \in Room
  <1>1. [a \in Agents |-> 0] \in [Agents -> Nat]
    OBVIOUS
  <1>2. NoPending \in Pending
    BY DEF NoPending, Pending, Id
  <1>3. <<>> \in Seq(Agents) /\ <<>> \in Seq(Peers \X Agents)
    OBVIOUS
  <1> QED
    BY <1>1, <1>2, <1>3 DEF NoRoom, Room, Id

LEMMA OpenedFacts ==
  ASSUME NEW rm \in Room, NEW mem, NEW ep \in Nat, now \in Nat
  PROVE  LET o == Opened(rm, mem, ep)
         IN /\ o \in Room /\ o.live
            /\ rm.live => /\ o.route = rm.route /\ o.primary = rm.primary /\ o.assigned = rm.assigned
                          /\ o.plans = rm.plans /\ o.applied = rm.applied
                          /\ o.hadPrimary = (rm.hadPrimary /\ Cardinality(mem) >= MinParticipants)
                          /\ \A a \in Agents : o.approved[a] = Lives(rm.approved[a])
            /\ ~rm.live => o.route = 0 /\ o.plans = {} /\ o.applied = {} /\ o.assigned = <<>>
  <1> DEFINE base == IF rm.live THEN rm ELSE [NoRoom EXCEPT !.live = TRUE, !.membership = ep]
             enough == Cardinality(mem) >= MinParticipants
             approved == [a \in Agents |-> Lives(base.approved[a])]
             declined == [a \in Agents |-> Lives(base.declined[a])]
             pending == IF ~enough \/ base.pending.expires < now THEN NoPending ELSE base.pending
             hadPrimary == base.hadPrimary /\ enough
             o == Opened(rm, mem, ep)
  <1>1. o = [base EXCEPT !.approved = approved, !.declined = declined, !.pending = pending,
                         !.hadPrimary = hadPrimary]
    BY DEF Opened
  <1>2. base \in Room /\ base.live
    BY NoRoomType DEF Room
  <1>3. rm.live => base = rm
    OBVIOUS
  <1>4. ~rm.live => base.route = 0 /\ base.plans = {} /\ base.applied = {} /\ base.assigned = <<>>
    BY DEF NoRoom
  <1> HIDE DEF base
  <1>5. approved \in [Agents -> Nat] /\ declined \in [Agents -> Nat]
    <2>1. base.approved \in [Agents -> Nat] /\ base.declined \in [Agents -> Nat]
      BY <1>2 DEF Room
    <2>2. \A n \in Nat : Lives(n) \in Nat
      BY DEF Lives
    <2> QED
      BY <2>1, <2>2
  <1>6. pending \in Pending
    <2>1. base.pending \in Pending
      BY <1>2 DEF Room
    <2> QED
      BY <2>1 DEF NoPending, Pending, Id
  <1>7. hadPrimary \in BOOLEAN
    OBVIOUS
  <1>8. \A a \in Agents : approved[a] = Lives(base.approved[a])
    OBVIOUS
  <1>9. hadPrimary = (base.hadPrimary /\ enough)
    OBVIOUS
  <1> HIDE DEF approved, declined, pending, hadPrimary, enough, o
  <1>10. o \in Room
    BY <1>1, <1>2, <1>5, <1>6, <1>7 DEF Room
  <1>11. /\ o.live = base.live /\ o.route = base.route /\ o.primary = base.primary
         /\ o.assigned = base.assigned /\ o.plans = base.plans /\ o.applied = base.applied
         /\ o.hadPrimary = hadPrimary /\ o.approved = approved
    BY <1>1, <1>2 DEF Room
  <1> QED
    BY <1>2, <1>3, <1>4, <1>8, <1>9, <1>10, <1>11 DEF o, enough

\* Plans belong to the agents their subscribers are assigned to, and what is
\* applied is planned.
PlansFit(rm) ==
  /\ \A s \in rm.plans : s.agent = AgentOf(rm, s.sub)
  /\ \A s \in rm.applied : s \in rm.plans /\ s.enabled

\* An agent the room may have in its route.
Entitled(cons, ags, mem, a) ==
  /\ ags[a].known /\ ags[a].sock /\ ~ags[a].draining /\ ags[a].fitness > 0
  /\ Cardinality(mem) >= MinParticipants /\ ConsentsFor(cons, a) # <<>>
  /\ now - ags[a].seen <= LeaseTime

LEMMA ElectedFacts ==
  ASSUME NEW rm \in Room, NEW e, e.primary \in Id, e.takeover \in Id, NEW C \in SUBSET Candidate,
         NEW ranked \in Seq(C), NEW mem \in SUBSET Peers, IsFiniteSet(mem), NEW ep \in Nat, now \in Nat,
         e.takeover # 0 => \E c \in C : c.id = e.takeover,
         e.primary # 0 => \E i \in DOMAIN ranked : ranked[i].id = e.primary
  PROVE  LET r == Elected(rm, e, C, ranked, mem, ep)
         IN /\ r \in Room /\ r.live = rm.live /\ r.lease = now + LeaseTime /\ r.route > 0
            /\ r.route >= rm.route
            /\ r.route = rm.route => r.primary = rm.primary
            /\ PlansFit(rm) => PlansFit(r)
            /\ r.primary = e.primary /\ r.approved = rm.approved
            /\ \A a \in Agents : InRoute(r, a) => \E i \in DOMAIN ranked : ranked[i].id = a
            /\ Covers(r, mem)
  <1> DEFINE pend == Asked(rm.pending, e, C)
             had == rm.hadPrimary \/ e.primary # 0
             stand == Standbys(ranked, e.primary)
             base == [rm EXCEPT !.primary = e.primary, !.standbys = stand, !.membership = ep,
                                !.pending = pend, !.hadPrimary = had, !.lease = now + LeaseTime]
             own == OwnerPeer(ranked, e.primary)
             line == Assignment(Forwarders(base, mem), own, mem)
             new == [base EXCEPT !.assigned = line]
             r == Elected(rm, e, C, ranked, mem, ep)
             changed == rm.route = 0 \/ <<rm.membership, rm.primary, rm.standbys, rm.assigned>>
                                          # <<new.membership, new.primary, new.standbys, new.assigned>>
  <1>1. r = IF changed THEN Renewed(new, mem) ELSE new
    BY DEF Elected, Assigned, RenewedIfChanged
  <1>2. ranked \in Seq(Candidate)
    OBVIOUS
  <1>3. /\ stand \in Seq(Agents)
        /\ \A k \in DOMAIN stand : \E i \in DOMAIN ranked : stand[k] = ranked[i].id
    BY <1>2, StandbysFacts
  <1>4. rm.pending \in Pending /\ rm.route \in Nat
    BY DEF Room
  <1>5. pend \in Pending
    BY <1>4, AskedFacts
  <1>6. had \in BOOLEAN /\ now + LeaseTime \in Nat
    BY SizeAssumption
  <1> HIDE DEF pend, had, stand, own
  <1>7. base \in Room
    BY <1>3, <1>5, <1>6 DEF Room
  <1>8. /\ base.live = rm.live /\ base.primary = e.primary /\ base.standbys = stand /\ base.route = rm.route
        /\ base.lease = now + LeaseTime /\ base.plans = rm.plans /\ base.applied = rm.applied
        /\ base.approved = rm.approved
    BY DEF Room
  <1> HIDE DEF base
  <1>9. Forwarders(base, mem) \in Seq(Agents)
    BY <1>7, ForwardersFacts
  <1>10. /\ line \in Seq(Peers \X Agents)
         /\ \A i \in DOMAIN line : \E j \in DOMAIN Forwarders(base, mem) : line[i][2] = Forwarders(base, mem)[j]
         /\ Forwarders(base, mem) # <<>> => \A p \in mem : \E i \in DOMAIN line : line[i][1] = p
    BY <1>9, AssignmentFacts
  <1> HIDE DEF line
  <1>11. new \in Room
    BY <1>7, <1>10 DEF Room
  <1>12. /\ new.live = base.live /\ new.primary = base.primary /\ new.standbys = base.standbys
         /\ new.route = base.route /\ new.lease = base.lease /\ new.plans = base.plans
         /\ new.applied = base.applied /\ new.approved = base.approved /\ new.assigned = line
    BY <1>7 DEF Room
  <1>13. ~changed => rm.route # 0 /\ rm.primary = new.primary /\ rm.assigned = new.assigned
    BY DEF changed
  <1> HIDE DEF new, changed
  <1> DEFINE w == Renewed(new, mem)
  <1>a. new.route + 1 \in Nat
    BY <1>4, <1>8, <1>12
  <1>14. w \in Room
    <2> DEFINE n == new.route + 1
    <2>1. w = [new EXCEPT !.route = n, !.browserReady = {}, !.agentReady = {}, !.linkReady = {},
                          !.plans = {}, !.applied = {}]
      BY DEF Renewed
    <2>2. n \in Nat
      BY <1>a
    <2> HIDE DEF n, w
    <2> QED
      BY <1>11, <2>1, <2>2 DEF Room
  <1>15. /\ w.live = new.live /\ w.primary = new.primary /\ w.standbys = new.standbys
         /\ w.route = new.route + 1 /\ w.lease = new.lease /\ w.plans = {} /\ w.applied = {}
         /\ w.approved = new.approved /\ w.assigned = new.assigned
    BY <1>11 DEF Room, Renewed
  <1>16. r = IF changed THEN w ELSE new
    BY <1>1
  <1> HIDE DEF w, r
  <1>17. /\ r \in Room /\ r.live = rm.live /\ r.lease = now + LeaseTime /\ r.primary = e.primary
         /\ r.approved = rm.approved /\ r.standbys = stand /\ r.assigned = line
    BY <1>8, <1>11, <1>12, <1>14, <1>15, <1>16
  <1>18. r.route > 0 /\ r.route >= rm.route /\ (r.route = rm.route => r.primary = rm.primary)
    <2>1. CASE changed
      BY <1>4, <1>8, <1>12, <1>15, <1>16, <2>1
    <2>2. CASE ~changed
      BY <1>4, <1>8, <1>12, <1>13, <1>16, <2>2
    <2> QED
      BY <2>1, <2>2
  <1>19. PlansFit(rm) => PlansFit(r)
    <2>1. CASE changed
      BY <1>15, <1>16, <2>1 DEF PlansFit
    <2>2. CASE ~changed
      <3>1. r.plans = rm.plans /\ r.applied = rm.applied /\ r.assigned = rm.assigned
        BY <1>8, <1>12, <1>13, <1>16, <2>2
      <3>2. \A p : AgentOf(r, p) = AgentOf(rm, p)
        BY <3>1 DEF AgentOf
      <3> QED
        BY <3>1, <3>2 DEF PlansFit
    <2> QED
      BY <2>1, <2>2
  <1>20. ASSUME NEW a \in Agents, InRoute(r, a) PROVE \E i \in DOMAIN ranked : ranked[i].id = a
    <2>1. a # 0
      BY IdAssumption
    <2>2. CASE r.primary = a
      BY <1>17, <2>1, <2>2
    <2>3. CASE Contains(r.standbys, a)
      <3>1. PICK k \in DOMAIN stand : stand[k] = a
        BY <1>3, <1>17, <2>3 DEF Contains
      <3> QED
        BY <1>3, <3>1
    <2> QED
      BY <1>20, <2>2, <2>3 DEF InRoute
  <1>21. Covers(r, mem)
    <2> SUFFICES ASSUME r.primary # 0, NEW p \in mem
                 PROVE  Contains(Forwarders(r, mem), AgentOf(r, p))
      BY DEF Covers
    <2>1. Forwarders(r, mem) = Forwarders(base, mem)
      BY <1>8, <1>17 DEF Forwarders
    <2>2. Forwarders(r, mem) # <<>> /\ Forwarders(r, mem) \in Seq(Agents)
      BY <1>17, ForwardersFacts
    <2>3. PICK i \in DOMAIN r.assigned : r.assigned[i][1] = p
      BY <1>10, <1>17, <2>1, <2>2
    <2>4. r.assigned \in Seq(Peers \X Agents)
      BY <1>10, <1>17
    <2>5. PICK k \in DOMAIN r.assigned : AgentOf(r, p) = r.assigned[k][2]
      BY <2>3, <2>4, AgentOfFacts
    <2>6. PICK j \in DOMAIN Forwarders(r, mem) : AgentOf(r, p) = Forwarders(r, mem)[j]
      BY <1>10, <1>17, <2>1, <2>5
    <2> QED
      BY <2>2, <2>6 DEF Contains
  <1> QED
    BY <1>17, <1>18, <1>19, <1>20, <1>21 DEF r

LEMMA ReconciledFacts ==
  ASSUME NEW rm \in Room, NEW cons \in Seq(Consent), NEW ags \in [Agents -> Entry],
         NEW mem \in SUBSET Peers, IsFiniteSet(mem), NEW ep \in Nat, now \in Nat
  PROVE  LET r == Reconciled(rm, cons, ags, mem, ep)
         IN /\ r \in Room /\ r.live /\ r.lease = now + LeaseTime /\ r.route > 0
            /\ rm.live => r.route >= rm.route /\ (r.route = rm.route => r.primary = rm.primary)
            /\ (rm.live => PlansFit(rm)) => PlansFit(r)
            /\ \A a \in Agents : InRoute(r, a) => Entitled(cons, ags, mem, a)
            /\ Covers(r, mem)
            /\ rm.live /\ rm.hadPrimary /\ r.primary # 0 /\ r.primary # rm.primary
               /\ (\A c \in Candidates(cons, ags, mem) : c.id # rm.primary)
               => \/ DecidingConsent(cons, r.primary).auto
                  \/ Lives(rm.approved[r.primary]) # 0 /\ r.approved[r.primary] = Lives(rm.approved[r.primary])
  <1> DEFINE enough == Cardinality(mem) >= MinParticipants
             all == Candidates(cons, ags, mem)
             C == IF enough THEN all ELSE {}
             o == Opened(rm, mem, ep)
             N == {c \in C : o.declined[c.id] = 0}
             ranked == Ranked(N)
             kept == \E c \in C : c.id = o.primary
             current == IF kept THEN o.primary ELSE 0
             failover == o.hadPrimary /\ ~kept
             approved == {a \in Agents : o.approved[a] # 0}
             e == Election(ranked, current, failover, approved)
             r == Reconciled(rm, cons, ags, mem, ep)
  <1>1. r = Elected(o, e, C, ranked, mem, ep)
    BY DEF Reconciled, Nominated, Voted
  <1>2. /\ all \in SUBSET Candidate
        /\ \A c \in all :
              /\ ConsentsFor(cons, c.id) # <<>> /\ Healthy(ags, c.id, mem)
              /\ c.fit <=> ~ags[c.id].draining /\ ags[c.id].fitness > 0
              /\ c.auto = DecidingConsent(cons, c.id).auto
        /\ \A c, d \in all : c.id = d.id => c = d
    BY CandidatesFacts
  <1>3. /\ o \in Room /\ o.live
        /\ rm.live => /\ o.route = rm.route /\ o.primary = rm.primary /\ o.assigned = rm.assigned
                      /\ o.plans = rm.plans /\ o.applied = rm.applied
                      /\ o.hadPrimary = (rm.hadPrimary /\ enough)
                      /\ \A a \in Agents : o.approved[a] = Lives(rm.approved[a])
        /\ ~rm.live => o.route = 0 /\ o.plans = {} /\ o.applied = {} /\ o.assigned = <<>>
    BY OpenedFacts
  <1>a. C \subseteq all /\ (C # {} => enough) /\ (enough => C = all)
    OBVIOUS
  <1>b. o.hadPrimary \in BOOLEAN
    BY <1>3 DEF Room
  <1> HIDE DEF o, all, enough, C
  <1>4. N \in SUBSET Candidate /\ N \subseteq C /\ \A c, d \in N : c.id = d.id => c = d
    BY <1>2, <1>a
  <1> HIDE DEF N
  <1>5. ranked \in Seq({c \in N : c.fit})
    BY <1>4, RankedFacts
  <1> HIDE DEF ranked
  <1>6. ranked \in Seq(Candidate) /\ ranked \in Seq(C)
    BY <1>4, <1>5
  <1>7. \A i \in DOMAIN ranked : ranked[i] \in C /\ ranked[i] \in all /\ ranked[i].fit
    BY <1>4, <1>5, <1>a
  <1>c. failover \in BOOLEAN
    BY <1>b
  <1>d. failover = (o.hadPrimary /\ ~kept)
    OBVIOUS
  <1>k. kept <=> \E c \in C : c.id = o.primary
    OBVIOUS
  <1>l. ~kept => current = 0
    OBVIOUS
  <1>m. \A a \in approved : a \in Agents /\ o.approved[a] # 0
    OBVIOUS
  <1> HIDE DEF current, failover, approved, kept
  <1>8. /\ e.primary \in Id /\ e.takeover \in Id
        /\ e.primary # 0 => \E i \in DOMAIN ranked : ranked[i].id = e.primary
        /\ e.takeover # 0 => \E i \in DOMAIN ranked : ranked[i].id = e.takeover
        /\ failover /\ e.primary # 0 /\ e.primary # current =>
             \E i \in DOMAIN ranked : ranked[i].id = e.primary
                                      /\ (ranked[i].auto \/ e.primary \in approved)
    BY <1>6, <1>c, ElectionFacts
  <1> HIDE DEF e
  <1>9. e.takeover # 0 => \E c \in C : c.id = e.takeover
    BY <1>7, <1>8
  <1>e. C \in SUBSET Candidate
    BY <1>2, <1>a
  <1>10. /\ r \in Room /\ r.live = o.live /\ r.lease = now + LeaseTime /\ r.route > 0
         /\ r.route >= o.route
         /\ r.route = o.route => r.primary = o.primary
         /\ PlansFit(o) => PlansFit(r)
         /\ r.primary = e.primary /\ r.approved = o.approved
         /\ \A a \in Agents : InRoute(r, a) => \E i \in DOMAIN ranked : ranked[i].id = a
         /\ Covers(r, mem)
    <2>1. o \in Room /\ e.primary \in Id /\ e.takeover \in Id
      BY <1>3, <1>8
    <2>2. e.primary # 0 => \E i \in DOMAIN ranked : ranked[i].id = e.primary
      BY <1>8
    <2> HIDE DEF r
    <2> QED
      BY SMTT(60), <1>1, <1>6, <1>9, <1>e, <2>1, <2>2, ElectedFacts
  <1> HIDE DEF r
  <1>11. (rm.live => PlansFit(rm)) => PlansFit(o)
    <2>1. CASE ~rm.live
      BY <1>3, <2>1 DEF PlansFit
    <2>2. CASE rm.live
      <3>a. o.assigned = rm.assigned
        BY <1>3, <2>2
      <3>1. \A p : AgentOf(o, p) = AgentOf(rm, p)
        BY <3>a DEF AgentOf
      <3> QED
        BY <1>3, <2>2, <3>1 DEF PlansFit
    <2> QED
      BY <2>1, <2>2
  <1>12. ASSUME NEW a \in Agents, InRoute(r, a) PROVE Entitled(cons, ags, mem, a)
    <2>1. PICK i \in DOMAIN ranked : ranked[i].id = a
      BY <1>10, <1>12
    <2>2. ranked[i] \in C /\ ranked[i] \in all /\ ranked[i].fit
      BY <1>7
    <2>3. enough
      BY <1>a, <2>2
    <2> QED
      BY <1>2, <2>1, <2>2, <2>3 DEF Entitled, Healthy, enough
  <1>13. ASSUME rm.live, rm.hadPrimary, r.primary # 0, r.primary # rm.primary, \A c \in all : c.id # rm.primary
         PROVE  \/ DecidingConsent(cons, r.primary).auto
                \/ Lives(rm.approved[r.primary]) # 0 /\ r.approved[r.primary] = Lives(rm.approved[r.primary])
    <2>1. ~kept /\ o.primary = rm.primary
      BY <1>3, <1>13, <1>a, <1>k
    <2>2. e.primary # 0
      BY <1>10, <1>13
    <2>3. PICK k \in DOMAIN ranked : ranked[k].id = e.primary
      BY <1>8, <2>2
    <2>4. enough
      BY <1>7, <1>a, <2>3
    <2>5. o.hadPrimary /\ failover /\ e.primary # current
      BY <1>3, <1>13, <1>d, <1>l, <2>1, <2>2, <2>4
    <2>6. PICK i \in DOMAIN ranked : ranked[i].id = e.primary /\ (ranked[i].auto \/ e.primary \in approved)
      BY <1>8, <2>2, <2>5
    <2>7. CASE ranked[i].auto
      <3>1. ranked[i] \in all
        BY <1>7
      <3>2. ranked[i].auto = DecidingConsent(cons, ranked[i].id).auto
        BY <1>2, <3>1
      <3> QED
        BY <1>10, <2>6, <2>7, <3>2
    <2>8. CASE e.primary \in approved
      <3>1. r.primary \in Agents /\ o.approved[r.primary] # 0
        BY <1>10, <1>m, <2>8
      <3>2. o.approved[r.primary] = Lives(rm.approved[r.primary])
        BY <1>3, <1>13, <3>1
      <3> QED
        BY <1>10, <3>1, <3>2
    <2> QED
      BY <2>6, <2>7, <2>8
  <1> QED
    BY <1>3, <1>10, <1>11, <1>12, <1>13 DEF r, all

-----------------------------------------------------------------------------
(***************************************************************************)
(* Steps                                                                   *)
(***************************************************************************)
\* The parts of the invariant about the room, and those about its syncs.
Rooming ==
  /\ TypeOK /\ Open /\ Owned /\ RouteIsEntitled /\ Covers(room, members)
  /\ Planned /\ AppliedPlansAreCurrent

Traffic == Dated /\ Apart /\ Synced

LEMMA InvariantParts == IInv <=> Rooming /\ Traffic
  BY DEF IInv, Rooming, Traffic

LEMMA NoLeaseFacts == NoLease \in Lease /\ NoLease.peers = {} /\ NoLease.expires = 0 /\ NoLease.route = 0
  BY DEF NoLease, Lease

LEMMA NoRouteInNoRoom == \A a \in Agents : ~InRoute(NoRoom, a)
  BY IdAssumption DEF InRoute, NoRoom, Contains

\* Members come and go, a peer never twice; a new route belongs to one primary.
Onward ==
  /\ members \cup gone \subseteq members' \cup gone'
  /\ members' \cap (members \cup gone) \subseteq members
  /\ members # {} /\ members' # {} =>
       room'.route >= room.route /\ (room'.route = room.route => room'.primary = room.primary)

LEMMA SyncKeeps ==
  ASSUME IInv, Onward, room' \in Room, held' = held, members' \in SUBSET Peers,
         up' \in [Agents -> BOOLEAN],
         \A a \in Agents : up'[a] => agent'[a].known /\ agent'[a].sock,
         SyncAgents(agent', room', members')
  PROVE  /\ Traffic' /\ syncDue' = FALSE
         /\ box' \in [Agents -> [has : BOOLEAN, lease : Lease]]
  <1> DEFINE L(a) == RoomLease(room', members', a)
             B(a) == IF agent'[a].known /\ agent'[a].sock /\ up'[a] THEN [has |-> TRUE, lease |-> L(a)]
                     ELSE IF up'[a] THEN box[a] ELSE NoBox
  <1>1. box' = [a \in Agents |-> B(a)] /\ syncDue' = FALSE
    BY DEF SyncAgents
  <1>2. ASSUME NEW a \in Agents
        PROVE  /\ L(a) \in Lease
               /\ ~InRoute(room', a) => L(a) = NoLease
               /\ InRoute(room', a) => /\ L(a).route = room'.route /\ L(a).expires = room'.lease
                                       /\ L(a).peers = members'
                                       /\ L(a).role = "primary" => room'.primary = a
    BY RoomLeaseFacts
  <1> HIDE DEF L
  <1>3. box \in [Agents -> [has : BOOLEAN, lease : Lease]] /\ held \in [Agents -> Lease]
    BY DEF IInv, TypeOK
  <1>4. \A a \in Agents : B(a) = IF up'[a] THEN [has |-> TRUE, lease |-> L(a)] ELSE NoBox
    OBVIOUS
  <1> HIDE DEF B
  <1>5. \A a \in Agents : B(a) \in [has : BOOLEAN, lease : Lease]
    <2>1. ASSUME NEW a \in Agents PROVE [has |-> TRUE, lease |-> L(a)] \in [has : BOOLEAN, lease : Lease]
      BY <1>2
    <2>2. NoBox \in [has : BOOLEAN, lease : Lease]
      BY NoLeaseFacts DEF NoBox
    <2> QED
      BY <1>4, <2>1, <2>2
  <1>6. box' \in [Agents -> [has : BOOLEAN, lease : Lease]]
    BY <1>1, <1>5
  <1>7. \A a \in Agents : box'[a] = B(a)
    BY <1>1
  <1>8. \A a \in Agents : box'[a].lease = IF up'[a] THEN L(a) ELSE NoLease
    BY <1>4, <1>7 DEF NoBox
  <1>9. Synced'
    <2>1. ASSUME NEW a \in Agents, up'[a]
          PROVE  IF InRoute(room', a)
                 THEN Settled(a)'.route = room'.route /\ Settled(a)'.expires = room'.lease
                 ELSE Settled(a)' = NoLease
      <3>1. box'[a].has /\ box'[a].lease = L(a)
        BY <1>4, <1>7, <1>8, <2>1
      <3>2. Settled(a)' = L(a)
        BY <3>1 DEF Settled
      <3> QED
        BY <1>2, <3>2
    <2> QED
      BY <2>1 DEF Synced, InRoute
  <1>10. ASSUME NEW a \in Agents, NEW l \in LeasesOf(a)
         PROVE  /\ l.peers \subseteq members' \cup gone'
                /\ l.role = "primary" /\ l.peers \cap members' # {} =>
                     l.route <= room'.route /\ (l.route = room'.route => room'.primary = a)
    <2>1. /\ l.peers \subseteq members \cup gone
          /\ l.role = "primary" /\ l.peers \cap members # {} =>
               l.route <= room.route /\ (l.route = room.route => room.primary = a)
      BY DEF IInv, Dated
    <2>2. l.route \in Nat /\ room.route \in Nat /\ room'.route \in Nat
      <3>1. l \in Lease /\ room \in Room
        BY <1>3 DEF LeasesOf, IInv, TypeOK
      <3> QED
        BY <3>1 DEF Lease, Room
    <2>3. l.peers \subseteq members' \cup gone'
      BY <2>1 DEF Onward
    <2>4. ASSUME l.role = "primary", NEW x \in l.peers \cap members'
          PROVE  l.route <= room'.route /\ (l.route = room'.route => room'.primary = a)
      <3>1. x \in members
        BY <2>1 DEF Onward
      <3>2. l.route <= room.route /\ (l.route = room.route => room.primary = a)
        BY <2>1, <2>4, <3>1
      <3>3. room'.route >= room.route /\ (room'.route = room.route => room'.primary = room.primary)
        BY <3>1, <2>4 DEF Onward
      <3> QED
        BY <2>2, <3>2, <3>3
    <2> QED
      BY <2>3, <2>4
  <1>11. ASSUME NEW a \in Agents, NEW l \in LeasesOf(a)'
         PROVE  l \in LeasesOf(a) \/ l = NoLease
                \/ (l.peers = members' /\ l.route = room'.route /\ (l.role = "primary" => room'.primary = a))
    <2>1. l = held[a] \/ l = L(a) \/ l = NoLease
      BY <1>8 DEF LeasesOf
    <2>2. CASE l = L(a)
      BY <1>2, <2>2
    <2> QED
      BY <2>1, <2>2 DEF LeasesOf
  <1>12. ASSUME NEW a \in Agents, NEW l \in LeasesOf(a)'
         PROVE  /\ l.peers \subseteq members' \cup gone'
                /\ l.role = "primary" /\ l.peers \cap members' # {} =>
                     l.route <= room'.route /\ (l.route = room'.route => room'.primary = a)
    <2>1. CASE l \in LeasesOf(a)
      BY <1>10, <2>1
    <2>2. CASE l = NoLease
      BY <2>2, NoLeaseFacts
    <2>3. CASE l.peers = members' /\ l.route = room'.route /\ (l.role = "primary" => room'.primary = a)
      <3>1. room'.route \in Nat
        BY DEF Room
      <3> QED
        BY <2>3, <3>1
    <2> QED
      BY <1>11, <2>1, <2>2, <2>3
  <1>13. Dated'
    <2>1. Dated' <=> \A a \in Agents : \A l \in LeasesOf(a)' :
            /\ l.peers \subseteq members' \cup gone'
            /\ l.role = "primary" /\ l.peers \cap members' # {} =>
                 l.route <= room'.route /\ (l.route = room'.route => room'.primary = a)
      BY DEF Dated, LeasesOf
    <2> QED
      BY <1>12, <2>1
  <1>14. ASSUME NEW a \in Agents, NEW b \in Agents, NEW l \in LeasesOf(a)', NEW k \in LeasesOf(b)',
                a # b, l.role = "primary", k.role = "primary", l.route = k.route
         PROVE  l.peers \cap k.peers = {}
    <2>1. CASE l \in LeasesOf(a) /\ k \in LeasesOf(b)
      BY <1>14, <2>1 DEF IInv, Apart
    <2>2. CASE l = NoLease \/ k = NoLease
      BY <2>2, NoLeaseFacts
    <2>3. CASE l.peers = members' /\ l.route = room'.route /\ room'.primary = a
      BY <1>12, <1>14, <2>3
    <2>4. CASE k.peers = members' /\ k.route = room'.route /\ room'.primary = b
      BY <1>12, <1>14, <2>4
    <2> QED
      BY <1>11, <1>14, <2>1, <2>2, <2>3, <2>4
  <1>15. Apart'
    <2>1. Apart' <=> \A a, b \in Agents : \A l \in LeasesOf(a)', k \in LeasesOf(b)' :
            a # b /\ l.role = "primary" /\ k.role = "primary" /\ l.route = k.route => l.peers \cap k.peers = {}
      BY DEF Apart, LeasesOf
    <2> QED
      BY <1>14, <2>1
  <1> QED
    BY <1>1, <1>6, <1>9, <1>13, <1>15 DEF Traffic

\* The variables apart from the room, its members, its consents and the syncs
\* keep their types, and what is connected is known to be.
Kept ==
  /\ now' = now /\ plan' = plan /\ held' = held /\ epoch' \in Nat
  /\ store' \in [Agents -> Row] /\ agent' \in [Agents -> Entry]
  /\ up' \in [Agents -> BOOLEAN] /\ late' \in [Agents -> BOOLEAN]
  /\ \A a \in Agents : up'[a] => agent'[a].known /\ agent'[a].sock

\* The room that reconcile is given: nothing of its route has changed yet.
Given(rm) ==
  /\ rm \in Room /\ rm.live = room.live /\ rm.route = room.route /\ rm.primary = room.primary
  /\ rm.hadPrimary = room.hadPrimary
  /\ \A b \in Agents : rm.approved[b] = room.approved[b] \/ rm.approved[b] > now
  /\ rm.live => PlansFit(rm)

\* What FailoverAsks says of one step.
FailoverStep ==
  room.hadPrimary /\ room'.primary \notin {0, room.primary}
  /\ (\A c \in Candidates(consents', agent', members') : c.id # room.primary)
  => \/ DecidingConsent(consents', room'.primary).auto
     \/ room.approved[room'.primary] >= now \/ room'.approved[room'.primary] > now

LEMMA RoomFits ==
  ASSUME IInv
  PROVE  /\ Given(room) /\ PlansFit(room) /\ (members # {} => room.live)
         /\ (members = {} => room = NoRoom)
  BY DEF IInv, Given, PlansFit, Planned, AppliedPlansAreCurrent, Open, TypeOK

LEMMA BroadcastKeeps ==
  ASSUME IInv, Kept,
         members' \in SUBSET Peers, IsFiniteSet(members'), gone' \subseteq Peers \ members',
         members \cup gone \subseteq members' \cup gone', members' \cap (members \cup gone) \subseteq members,
         NEW cons \in Seq(Consent), NEW rm, Given(rm),
         \A i \in DOMAIN cons : OwnerOf[cons[i].agent] = PrincipalOf[cons[i].peer],
         Broadcast(agent', cons, rm, members', epoch')
  PROVE  IInv' /\ FailoverStep
  <1> DEFINE T == {c \in ToSet(cons) : c.peer \in members'}
             r == Reconciled(rm, consents', agent', members', epoch')
  <1>1. /\ consents' = IF members' = {} THEN <<>> ELSE Only(cons, T)
        /\ room' = IF members' = {} THEN NoRoom ELSE r
        /\ SyncAgents(agent', room', members')
    BY DEF Broadcast
  <1>a. \A c \in T : c.peer \in members'
    OBVIOUS
  <1> HIDE DEF T
  <1>2. /\ consents' \in Seq(Consent)
        /\ \A k \in DOMAIN consents' : /\ consents'[k].peer \in members'
                                       /\ OwnerOf[consents'[k].agent] = PrincipalOf[consents'[k].peer]
    <2>1. CASE members' = {}
      BY <1>1, <2>1
    <2>2. CASE members' # {}
      <3>1. /\ Only(cons, T) \in Seq(Consent \cap T)
            /\ \A k \in DOMAIN Only(cons, T) : \E i \in DOMAIN cons : Only(cons, T)[k] = cons[i]
        BY OnlyFacts
      <3>2. /\ consents' \in Seq(Consent \cap T)
            /\ \A k \in DOMAIN consents' : \E i \in DOMAIN cons : consents'[k] = cons[i]
        BY <1>1, <2>2, <3>1
      <3>3. \A k \in DOMAIN consents' : consents'[k] \in T
        BY <3>2
      <3>4. consents' \in Seq(Consent)
        BY <3>2
      <3> QED
        BY <1>a, <3>2, <3>3, <3>4
    <2> QED
      BY <2>1, <2>2
  <1>3. now \in Nat /\ epoch' \in Nat /\ agent' \in [Agents -> Entry] /\ now' = now
    BY DEF IInv, TypeOK, Kept
  <1>4. rm \in Room /\ rm.live = room.live /\ rm.route = room.route /\ rm.primary = room.primary
    BY DEF Given
  <1>5. /\ r \in Room /\ r.live /\ r.lease = now + LeaseTime /\ r.route > 0
        /\ rm.live => r.route >= rm.route /\ (r.route = rm.route => r.primary = rm.primary)
        /\ (rm.live => PlansFit(rm)) => PlansFit(r)
        /\ \A a \in Agents : InRoute(r, a) => Entitled(consents', agent', members', a)
        /\ Covers(r, members')
    BY <1>2, <1>3, <1>4, ReconciledFacts
  <1>b. rm.live /\ rm.hadPrimary /\ r.primary # 0 /\ r.primary # rm.primary
        /\ (\A c \in Candidates(consents', agent', members') : c.id # rm.primary)
        => \/ DecidingConsent(consents', r.primary).auto
           \/ Lives(rm.approved[r.primary]) # 0 /\ r.approved[r.primary] = Lives(rm.approved[r.primary])
    BY <1>2, <1>3, <1>4, ReconciledFacts
  <1> HIDE DEF r
  <1>6. /\ room' \in Room /\ PlansFit(room') /\ Covers(room', members')
        /\ \A a \in Agents : InRoute(room', a) => Entitled(consents', agent', members', a)
    <2>1. CASE members' = {}
      <3>1. NoRoom.plans = {} /\ NoRoom.applied = {} /\ NoRoom.primary = 0
        BY DEF NoRoom
      <3> QED
        BY <1>1, <2>1, <3>1, NoRoomType, NoRouteInNoRoom DEF PlansFit, Covers
    <2>2. CASE members' # {}
      BY <1>1, <1>5, <2>2 DEF Given
    <2> QED
      BY <2>1, <2>2
  <1>7. Onward
    <2>1. ASSUME members # {}, members' # {}
          PROVE  room'.route >= room.route /\ (room'.route = room.route => room'.primary = room.primary)
      BY <1>1, <1>4, <1>5, <2>1, RoomFits
    <2> QED
      BY <2>1 DEF Onward
  <1>8. Traffic' /\ syncDue' = FALSE /\ box' \in [Agents -> [has : BOOLEAN, lease : Lease]]
    BY <1>1, <1>6, <1>7, SyncKeeps DEF Kept
  <1>9. TypeOK'
    <2>1. held' \in [Agents -> Lease] /\ plan' \in Plans
      BY DEF IInv, TypeOK, Kept
    <2>2. /\ now' \in Nat /\ epoch' \in Nat /\ store' \in [Agents -> Row] /\ agent' \in [Agents -> Entry]
          /\ up' \in [Agents -> BOOLEAN] /\ late' \in [Agents -> BOOLEAN] /\ syncDue' \in BOOLEAN
      BY <1>3, <1>8 DEF Kept
    <2> QED
      BY <1>2, <1>6, <1>8, <2>1, <2>2 DEF TypeOK
  <1>10. Open'
    <2>1. now + LeaseTime = now' + LeaseTime
      BY <1>3
    <2> QED
      BY <1>1, <1>5, <2>1 DEF Open
  <1>11. Owned'
    BY <1>2 DEF Owned
  <1>12. RouteIsEntitled'
    <2>1. ASSUME NEW a \in Agents, InRoute(room', a)
          PROVE  /\ agent'[a].known /\ agent'[a].sock /\ ~agent'[a].draining /\ agent'[a].fitness > 0
                 /\ Cardinality(members') >= MinParticipants
                 /\ \E i \in DOMAIN consents' : consents'[i].agent = a
                                                /\ OwnerOf[a] = PrincipalOf[consents'[i].peer]
                 /\ now' - agent'[a].seen <= LeaseTime
      <3>1. Entitled(consents', agent', members', a)
        BY <1>6, <2>1
      <3>2. \E i \in DOMAIN consents' : consents'[i].agent = a
        BY <1>2, <3>1, ConsentsForFacts DEF Entitled
      <3> QED
        BY <1>2, <1>3, <3>1, <3>2 DEF Entitled
    <2> QED
      BY <2>1 DEF RouteIsEntitled, InRoute
  <1>13. Covers(room, members)'
    BY <1>6 DEF Covers, Forwarders, AgentOf
  <1>14. Planned' /\ AppliedPlansAreCurrent'
    BY <1>6 DEF Planned, AppliedPlansAreCurrent, PlansFit, AgentOf
  <1>15. FailoverStep
    <2> SUFFICES ASSUME room.hadPrimary, room'.primary \notin {0, room.primary},
                        \A c \in Candidates(consents', agent', members') : c.id # room.primary,
                        ~DecidingConsent(consents', room'.primary).auto
                 PROVE  room.approved[room'.primary] >= now \/ room'.approved[room'.primary] > now
      BY DEF FailoverStep
    <2>1. members' # {} /\ room' = r
      <3>1. NoRoom.primary = 0
        BY DEF NoRoom
      <3> QED
        BY <1>1, <3>1
    <2>2. members # {} /\ rm.live
      <3>1. ~NoRoom.hadPrimary
        BY DEF NoRoom
      <3> QED
        BY <1>4, <3>1, RoomFits
    <2> DEFINE x == r.primary
    <2>3. Lives(rm.approved[x]) # 0 /\ r.approved[x] = Lives(rm.approved[x])
      BY <1>4, <1>b, <2>1, <2>2 DEF Given
    <2>4. x \in Agents /\ room.approved[x] \in Nat /\ rm.approved[x] \in Nat
      <3>1. x \in Id /\ x # 0
        BY <1>5, <2>1 DEF Room
      <3>2. x \in Agents /\ room \in Room
        BY <3>1 DEF Id, IInv, TypeOK
      <3> HIDE DEF x
      <3> QED
        BY <1>4, <3>2 DEF Room
    <2>5. rm.approved[x] = room.approved[x] \/ rm.approved[x] > now
      BY <2>4 DEF Given
    <2> HIDE DEF x
    <2>6. rm.approved[x] >= now /\ Lives(rm.approved[x]) = rm.approved[x]
      BY <1>3, <2>3, <2>4 DEF Lives
    <2>7. room.approved[x] >= now \/ r.approved[x] > now
      BY <2>3, <2>5, <2>6
    <2> QED
      BY <2>1, <2>7 DEF x
  <1> QED
    BY <1>8, <1>9, <1>10, <1>11, <1>12, <1>13, <1>14, <1>15, InvariantParts DEF IInv, Traffic

\* A step that leaves the route as it is.
LEMMA SameRouteKeeps ==
  ASSUME IInv, UNCHANGED <<now, members, gone, epoch, consents, plan>>,
         store' \in [Agents -> Row], agent' \in [Agents -> Entry],
         up' \in [Agents -> BOOLEAN], late' \in [Agents -> BOOLEAN], held' \in [Agents -> Lease],
         box' \in [Agents -> [has : BOOLEAN, lease : Lease]], syncDue' \in BOOLEAN,
         room' \in Room, members = {} => room' = room, PlansFit(room'),
         room'.live = room.live, room'.route = room.route, room'.primary = room.primary,
         room'.standbys = room.standbys, room'.assigned = room.assigned, room'.lease = room.lease,
         \A a \in Agents : InRoute(room, a) =>
           /\ agent'[a].known /\ agent'[a].sock /\ ~agent'[a].draining /\ agent'[a].fitness > 0
           /\ agent'[a].seen \in {agent[a].seen, now}
  PROVE  Rooming'
  <1>1. TypeOK'
    BY DEF IInv, TypeOK
  <1>2. Open'
    BY RoomFits DEF IInv, Open
  <1>3. Owned'
    BY DEF IInv, Owned
  <1>4. \A a \in Agents : InRoute(room', a) <=> InRoute(room, a)
    BY DEF InRoute
  <1>5. RouteIsEntitled'
    <2>1. ASSUME NEW a \in Agents, InRoute(room', a)
          PROVE  /\ agent'[a].known /\ agent'[a].sock /\ ~agent'[a].draining /\ agent'[a].fitness > 0
                 /\ Cardinality(members') >= MinParticipants
                 /\ \E i \in DOMAIN consents' : consents'[i].agent = a
                                                /\ OwnerOf[a] = PrincipalOf[consents'[i].peer]
                 /\ room'.lease = now' + LeaseTime => now' - agent'[a].seen <= LeaseTime
      <3>1. InRoute(room, a)
        BY <1>4, <2>1
      <3>2. /\ Cardinality(members) >= MinParticipants
            /\ \E i \in DOMAIN consents : consents[i].agent = a /\ OwnerOf[a] = PrincipalOf[consents[i].peer]
            /\ room.lease = now + LeaseTime => now - agent[a].seen <= LeaseTime
        BY <3>1 DEF IInv, RouteIsEntitled
      <3>3. now \in Nat /\ LeaseTime \in Nat
        BY SizeAssumption DEF IInv, TypeOK
      <3>4. now - now <= LeaseTime
        BY <3>3
      <3> QED
        BY <3>1, <3>2, <3>4
    <2> QED
      BY <2>1 DEF RouteIsEntitled, InRoute
  <1>6. Covers(room, members)'
    <2>1. Forwarders(room', members') = Forwarders(room, members)
      BY DEF Forwarders
    <2>2. \A p : AgentOf(room', p) = AgentOf(room, p)
      BY DEF AgentOf
    <2>3. Covers(room', members')
      BY <2>1, <2>2 DEF IInv, Covers
    <2> QED
      BY <2>3 DEF Covers, Forwarders, AgentOf
  <1>7. Planned' /\ AppliedPlansAreCurrent'
    BY DEF Planned, AppliedPlansAreCurrent, PlansFit, AgentOf
  <1> QED
    BY <1>1, <1>2, <1>3, <1>5, <1>6, <1>7 DEF Rooming

\* A step that sends nothing: leases are moved or dropped.
LEMMA QuietKeeps ==
  ASSUME IInv, UNCHANGED <<members, gone>>, room'.route = room.route, room'.primary = room.primary,
         \A a \in Agents : held'[a] \in LeasesOf(a) \cup {NoLease} /\ box'[a].lease \in LeasesOf(a) \cup {NoLease}
  PROVE  Dated' /\ Apart'
  <1>1. ASSUME NEW a \in Agents, NEW l \in LeasesOf(a)' PROVE l \in LeasesOf(a) \/ l = NoLease
    BY DEF LeasesOf
  <1>2. ASSUME NEW a \in Agents, NEW l \in LeasesOf(a)'
        PROVE  /\ l.peers \subseteq members' \cup gone'
               /\ l.role = "primary" /\ l.peers \cap members' # {} =>
                    l.route <= room'.route /\ (l.route = room'.route => room'.primary = a)
    <2>1. CASE l \in LeasesOf(a)
      BY <2>1 DEF IInv, Dated
    <2>2. CASE l = NoLease
      BY <2>2, NoLeaseFacts
    <2> QED
      BY <1>1, <2>1, <2>2
  <1>3. Dated' <=> \A a \in Agents : \A l \in LeasesOf(a)' :
          /\ l.peers \subseteq members' \cup gone'
          /\ l.role = "primary" /\ l.peers \cap members' # {} =>
               l.route <= room'.route /\ (l.route = room'.route => room'.primary = a)
    BY DEF Dated, LeasesOf
  <1>4. ASSUME NEW a \in Agents, NEW b \in Agents, NEW l \in LeasesOf(a)', NEW k \in LeasesOf(b)',
               a # b, l.role = "primary", k.role = "primary", l.route = k.route
        PROVE  l.peers \cap k.peers = {}
    <2>1. CASE l \in LeasesOf(a) /\ k \in LeasesOf(b)
      BY <1>4, <2>1 DEF IInv, Apart
    <2>2. CASE l = NoLease \/ k = NoLease
      BY <2>2, NoLeaseFacts
    <2> QED
      BY <1>1, <2>1, <2>2
  <1>5. Apart' <=> \A a, b \in Agents : \A l \in LeasesOf(a)', k \in LeasesOf(b)' :
          a # b /\ l.role = "primary" /\ k.role = "primary" /\ l.route = k.route => l.peers \cap k.peers = {}
    BY DEF Apart, LeasesOf
  <1> QED
    BY <1>2, <1>3, <1>4, <1>5

LEMMA BroadcastForKeeps ==
  ASSUME IInv, Kept, UNCHANGED <<members, gone, epoch>>, NEW a \in Agents,
         \A b \in Agents \ {a} : agent'[b] = agent[b] /\ up'[b] = up[b],
         up'[a] => up[a], NEW cons \in Seq(Consent),
         \A i \in DOMAIN cons : OwnerOf[cons[i].agent] = PrincipalOf[cons[i].peer],
         BroadcastFor(a, agent', cons)
  PROVE  IInv' /\ FailoverStep
  <1> DEFINE here == members # {} /\ (InRoute(room, a) \/ ConsentsFor(consents, a) # <<>>)
  <1>1. IF here THEN Broadcast(agent', cons, room, members, epoch)
        ELSE UNCHANGED <<room, consents, syncDue>> /\ box' = [box EXCEPT ![a] = IF up'[a] THEN @ ELSE NoBox]
    BY DEF BroadcastFor
  <1>2. CASE here
    <2>1. Broadcast(agent', cons, room, members', epoch')
      BY <1>1, <1>2
    <2>2. /\ members' \in SUBSET Peers /\ IsFiniteSet(members') /\ gone' \subseteq Peers \ members'
          /\ members \cup gone \subseteq members' \cup gone' /\ members' \cap (members \cup gone) \subseteq members
      BY DEF IInv, TypeOK
    <2>3. Given(room)
      BY RoomFits
    <2> QED
      BY <2>1, <2>2, <2>3, BroadcastKeeps
  <1>3. CASE ~here
    <2>1. UNCHANGED <<room, consents, syncDue>> /\ box' = [box EXCEPT ![a] = IF up'[a] THEN @ ELSE NoBox]
      BY <1>1, <1>3
    <2>2. ~InRoute(room, a)
      BY <1>3, RoomFits, NoRouteInNoRoom
    <2> HIDE DEF here
    <2>3. /\ box \in [Agents -> [has : BOOLEAN, lease : Lease]] /\ held \in [Agents -> Lease]
          /\ syncDue \in BOOLEAN /\ room \in Room
      BY DEF IInv, TypeOK
    <2>4. NoBox \in [has : BOOLEAN, lease : Lease] /\ NoBox.lease = NoLease
      BY NoLeaseFacts DEF NoBox
    <2>5. /\ box' \in [Agents -> [has : BOOLEAN, lease : Lease]]
          /\ \A b \in Agents : box'[b] = IF b # a \/ up'[a] THEN box[b] ELSE NoBox
      BY <2>1, <2>3, <2>4
    <2>6. Rooming'
      <3>1. ASSUME NEW b \in Agents, InRoute(room, b)
            PROVE  /\ agent'[b].known /\ agent'[b].sock /\ ~agent'[b].draining /\ agent'[b].fitness > 0
                   /\ agent'[b].seen \in {agent[b].seen, now}
        <4>1. agent'[b] = agent[b]
          BY <2>2, <3>1
        <4> QED
          BY <3>1, <4>1 DEF IInv, RouteIsEntitled
      <3>2. /\ store' \in [Agents -> Row] /\ agent' \in [Agents -> Entry]
            /\ up' \in [Agents -> BOOLEAN] /\ late' \in [Agents -> BOOLEAN] /\ held' \in [Agents -> Lease]
            /\ now' = now /\ plan' = plan
        BY <2>3 DEF Kept
      <3> QED
        BY <2>1, <2>3, <2>5, <3>1, <3>2, RoomFits, SameRouteKeeps
    <2>7. Dated' /\ Apart'
      <3>1. \A b \in Agents : held'[b] \in LeasesOf(b) \cup {NoLease} /\ box'[b].lease \in LeasesOf(b) \cup {NoLease}
        BY <2>4, <2>5 DEF LeasesOf, Kept
      <3> QED
        BY <2>1, <3>1, QuietKeeps
    <2>8. Synced'
      <3>1. ASSUME NEW b \in Agents, up'[b] PROVE up[b] /\ box'[b] = box[b] /\ held'[b] = held[b]
        BY <2>5, <3>1 DEF Kept
      <3>2. ASSUME NEW b \in Agents, up'[b]
            PROVE  IF InRoute(room', b)
                   THEN Settled(b)'.route = room'.route /\ Settled(b)'.expires = room'.lease
                   ELSE Settled(b)' = NoLease
        <4>1. up[b] /\ Settled(b)' = Settled(b)
          BY <3>1, <3>2 DEF Settled
        <4> QED
          BY <2>1, <4>1 DEF IInv, Synced
      <3> QED
        BY <3>2 DEF Synced, Kept, InRoute
    <2> QED
      BY <2>1, <2>6, <2>7, <2>8, InvariantParts DEF IInv, Rooming, FailoverStep
  <1> QED
    BY <1>2, <1>3

LEMMA OwnedConsents ==
  ASSUME IInv, NEW T
  PROVE  /\ Only(consents, T) \in Seq(Consent) /\ consents \in Seq(Consent)
         /\ \A i \in DOMAIN consents : OwnerOf[consents[i].agent] = PrincipalOf[consents[i].peer]
         /\ \A i \in DOMAIN Only(consents, T) :
              OwnerOf[Only(consents, T)[i].agent] = PrincipalOf[Only(consents, T)[i].peer]
  <1>1. consents \in Seq(Consent)
    BY DEF IInv, TypeOK
  <1> DEFINE o == Only(consents, T)
  <1>2. /\ o \in Seq(Consent \cap T) /\ \A k \in DOMAIN o : \E i \in DOMAIN consents : o[k] = consents[i]
    BY <1>1, OnlyFacts
  <1>3. \A i \in DOMAIN consents : OwnerOf[consents[i].agent] = PrincipalOf[consents[i].peer]
    BY DEF IInv, Owned
  <1> HIDE DEF o
  <1>4. o \in Seq(Consent) /\ \A i \in DOMAIN o : OwnerOf[o[i].agent] = PrincipalOf[o[i].peer]
    BY <1>2, <1>3
  <1> QED
    BY <1>1, <1>3, <1>4 DEF o

\* A step of the room alone, the members staying: what the server knows of the
\* agents is as it was.
LEMMA StayBroadcastKeeps ==
  ASSUME IInv, UNCHANGED <<now, members, gone, epoch, store, agent, up, held, late, plan>>,
         NEW cons \in Seq(Consent), NEW rm, Given(rm),
         \A i \in DOMAIN cons : OwnerOf[cons[i].agent] = PrincipalOf[cons[i].peer],
         Broadcast(agent, cons, rm, members, epoch)
  PROVE  IInv' /\ FailoverStep
  <1>1. Kept
    BY DEF Kept, IInv, TypeOK, Synced
  <1>2. /\ members' \in SUBSET Peers /\ IsFiniteSet(members') /\ gone' \subseteq Peers \ members'
        /\ members \cup gone \subseteq members' \cup gone' /\ members' \cap (members \cup gone) \subseteq members
    BY DEF IInv, TypeOK
  <1>3. Broadcast(agent', cons, rm, members', epoch')
    OBVIOUS
  <1> QED
    BY <1>1, <1>2, <1>3, BroadcastKeeps

-----------------------------------------------------------------------------
(* Members *)

LEMMA JoinKeeps ==
  ASSUME IInv, NEW p \in Peers, Join(p)
  PROVE  IInv' /\ FailoverStep
  <1>1. Kept
    <2>1. epoch + 1 \in Nat
      BY DEF IInv, TypeOK
    <2> QED
      BY <2>1 DEF Kept, IInv, TypeOK, Synced, Join
  <1>2. p \notin members \cup gone /\ members' = members \cup {p} /\ gone' = gone
    BY DEF Join
  <1>3. members \in SUBSET Peers /\ IsFiniteSet(members) /\ gone \subseteq Peers \ members
    BY DEF IInv, TypeOK
  <1>4. IsFiniteSet(members')
    BY <1>2, <1>3, FS_AddElement
  <1>5. /\ members' \in SUBSET Peers /\ gone' \subseteq Peers \ members'
        /\ members \cup gone \subseteq members' \cup gone' /\ members' \cap (members \cup gone) \subseteq members
    BY <1>2, <1>3
  <1>6. Broadcast(agent', consents, room, members', epoch')
    BY DEF Join
  <1>7. /\ consents \in Seq(Consent)
        /\ \A i \in DOMAIN consents : OwnerOf[consents[i].agent] = PrincipalOf[consents[i].peer]
    BY OwnedConsents
  <1> QED
    BY <1>1, <1>4, <1>5, <1>6, <1>7, RoomFits, BroadcastKeeps

LEMMA WithoutPeerFacts ==
  ASSUME IInv, NEW p
  PROVE  Given(WithoutPeer(room, p))
  <1> DEFINE w == WithoutPeer(room, p)
             b == {x \in room.browserReady : x[2] # p}
             g == {x \in room.agentReady : x[2] # p}
             ps == {s \in room.plans : p \notin {s.sub, s.pub}}
             as == {s \in room.applied : p \notin {s.sub, s.pub}}
             pend == IF room.pending.peer = p THEN NoPending ELSE room.pending
  <1>1. w = [room EXCEPT !.browserReady = b, !.agentReady = g, !.plans = ps, !.applied = as, !.pending = pend]
    BY DEF WithoutPeer
  <1>2. room \in Room
    BY DEF IInv, TypeOK
  <1>3. /\ b \in SUBSET (Agents \X Peers) /\ g \in SUBSET (Agents \X Peers)
        /\ ps \in SUBSET Subscription /\ as \in SUBSET Subscription
    BY <1>2 DEF Room
  <1>4. pend \in Pending
    <2>1. room.pending \in Pending
      BY <1>2 DEF Room
    <2> QED
      BY <2>1 DEF NoPending, Pending, Id
  <1>5. PlansFit(room)
    BY RoomFits
  <1>6. ps \subseteq room.plans /\ \A s \in as : s \in ps /\ s.enabled
    BY <1>5 DEF PlansFit
  <1> HIDE DEF b, g, ps, as, pend, w
  <1>7. w \in Room
    BY <1>1, <1>2, <1>3, <1>4 DEF Room
  <1>8. /\ w.live = room.live /\ w.route = room.route /\ w.primary = room.primary /\ w.plans = ps
        /\ w.applied = as /\ w.assigned = room.assigned
        /\ w.hadPrimary = room.hadPrimary /\ w.approved = room.approved
    BY <1>1, <1>2 DEF Room
  <1>9. \A q : AgentOf(w, q) = AgentOf(room, q)
    BY <1>8 DEF AgentOf
  <1>10. PlansFit(w)
    BY <1>5, <1>6, <1>8, <1>9 DEF PlansFit
  <1> QED
    BY <1>7, <1>8, <1>10 DEF Given, w

LEMMA LeaveKeeps ==
  ASSUME IInv, NEW p \in Peers, Leave(p)
  PROVE  IInv' /\ FailoverStep
  <1>1. Kept
    <2>1. epoch' \in Nat
      <3>1. epoch + 1 \in Nat /\ 0 \in Nat
        BY DEF IInv, TypeOK
      <3> QED
        BY <3>1 DEF Leave
    <2> QED
      BY <2>1 DEF Kept, IInv, TypeOK, Synced, Leave
  <1>2. p \in members /\ members' = members \ {p} /\ gone' = gone \cup {p}
    BY DEF Leave
  <1>3. members \in SUBSET Peers /\ IsFiniteSet(members) /\ gone \subseteq Peers \ members
    BY DEF IInv, TypeOK
  <1>4. IsFiniteSet(members')
    BY <1>2, <1>3, FS_Subset
  <1>5. /\ members' \in SUBSET Peers /\ gone' \subseteq Peers \ members'
        /\ members \cup gone \subseteq members' \cup gone' /\ members' \cap (members \cup gone) \subseteq members
    BY <1>2, <1>3
  <1>6. Broadcast(agent', OfOthers(p), WithoutPeer(room, p), members', epoch')
    BY DEF Leave
  <1>7. /\ OfOthers(p) \in Seq(Consent)
        /\ \A i \in DOMAIN OfOthers(p) : OwnerOf[OfOthers(p)[i].agent] = PrincipalOf[OfOthers(p)[i].peer]
    BY OwnedConsents DEF OfOthers
  <1>8. Given(WithoutPeer(room, p))
    BY WithoutPeerFacts
  <1> QED
    BY <1>1, <1>4, <1>5, <1>6, <1>7, <1>8, BroadcastKeeps

LEMMA Elements ==
  ASSUME NEW X, NEW s \in Seq(X)
  PROVE  \A i \in DOMAIN s : s[i] \in X
  OBVIOUS

LEMMA SetConsentKeeps ==
  ASSUME IInv, NEW p \in Peers, NEW S \in SUBSET Agents, NEW auto \in BOOLEAN, SetConsent(p, S, auto)
  PROVE  IInv' /\ FailoverStep
  <1> DEFINE c(i) == [peer |-> p, agent |-> Ordered(S)[i], auto |-> auto, creatorOwned |-> PrincipalOf[p] = Creator]
             n == Cardinality(S)
             new == [i \in 1..n |-> c(i)]
             old == OfOthers(p)
             cons == old \o new
  <1>1. /\ UNCHANGED <<now, members, gone, epoch, store, agent, up, held, late, plan>>
        /\ Broadcast(agent, cons, room, members, epoch)
        /\ \A a \in S : OwnerOf[a] = PrincipalOf[p]
    BY DEF SetConsent
  <1>2. old \in Seq(Consent) /\ \A i \in DOMAIN old : OwnerOf[old[i].agent] = PrincipalOf[old[i].peer]
    BY OwnedConsents DEF OfOthers
  <1>3. S \subseteq Nat /\ IsFiniteSet(S)
    BY IdAssumption, FS_Subset
  <1>4. n \in Nat /\ \A i \in 1..n : Ordered(S)[i] \in S
    <2>1. n \in Nat /\ Ordered(S) \in Seq(S) /\ DOMAIN Ordered(S) = 1..n
      BY <1>3, OrderedFacts
    <2> QED
      BY <2>1, Elements
  <1> HIDE DEF n, old
  <1>5. ASSUME NEW i \in 1..n
        PROVE  c(i) \in Consent /\ OwnerOf[c(i).agent] = PrincipalOf[c(i).peer]
    <2>1. Ordered(S)[i] \in Agents /\ OwnerOf[Ordered(S)[i]] = PrincipalOf[p]
      BY <1>1, <1>4
    <2>2. (PrincipalOf[p] = Creator) \in BOOLEAN
      OBVIOUS
    <2> QED
      BY <2>1, <2>2 DEF Consent
  <1> HIDE DEF c
  <1>6. new \in Seq(Consent) /\ DOMAIN new = 1..n /\ \A i \in 1..n : new[i] = c(i)
    BY <1>4, <1>5
  <1>7. Len(new) = n
    BY <1>4, <1>6
  <1> HIDE DEF new
  <1>8. cons \in Seq(Consent) /\ Len(cons) = Len(old) + n /\ Len(old) \in Nat /\ DOMAIN cons = 1..(Len(old) + n)
    BY SMTT(60), <1>2, <1>4, <1>6, <1>7
  <1>9. \A i \in DOMAIN cons : (i \in DOMAIN old /\ cons[i] = old[i]) \/ \E k \in 1..n : cons[i] = new[k]
    <2>1. ASSUME NEW i \in DOMAIN cons, i > Len(old) PROVE i - Len(old) \in 1..n /\ cons[i] = new[i - Len(old)]
      BY <1>2, <1>4, <1>6, <1>7, <1>8, <2>1
    <2>2. ASSUME NEW i \in DOMAIN cons, ~(i > Len(old)) PROVE i \in DOMAIN old /\ cons[i] = old[i]
      BY <1>2, <1>4, <1>6, <1>7, <1>8, <2>2
    <2> QED
      BY <2>1, <2>2
  <1> HIDE DEF cons
  <1>10. \A i \in DOMAIN cons : OwnerOf[cons[i].agent] = PrincipalOf[cons[i].peer]
    BY <1>2, <1>5, <1>6, <1>9
  <1> QED
    BY <1>1, <1>8, <1>10, RoomFits, StayBroadcastKeeps

\* The room after an answer to a takeover request
Answered(accepted) ==
  LET a == room.pending.agent
      rm == [room EXCEPT !.pending = NoPending]
  IN IF accepted THEN [rm EXCEPT !.approved[a] = now + LeaseTime]
     ELSE [rm EXCEPT !.declined[a] = now + TakeoverTtl]

LEMMA AnsweredFacts ==
  ASSUME IInv, NEW accepted \in BOOLEAN
  PROVE  Given(Answered(accepted))
  <1> DEFINE a == room.pending.agent
             rm == [room EXCEPT !.pending = NoPending]
             ok == [room.approved EXCEPT ![a] = now + LeaseTime]
             no == [room.declined EXCEPT ![a] = now + TakeoverTtl]
             w == Answered(accepted)
  <1>1. room \in Room /\ now \in Nat /\ NoPending \in Pending
    BY DEF IInv, TypeOK, NoPending, Pending, Id
  <1>2. now + LeaseTime \in Nat /\ now + LeaseTime > now /\ now + TakeoverTtl \in Nat
    BY <1>1, SizeAssumption
  <1>3. rm \in Room /\ rm.approved = room.approved /\ rm.declined = room.declined
    BY <1>1 DEF Room
  <1>4. w = IF accepted THEN [rm EXCEPT !.approved = ok] ELSE [rm EXCEPT !.declined = no]
    BY <1>3 DEF Answered
  <1>5. room.approved \in [Agents -> Nat] /\ room.declined \in [Agents -> Nat]
    BY <1>1 DEF Room
  <1>6. ok \in [Agents -> Nat] /\ no \in [Agents -> Nat]
    BY <1>2, <1>5
  <1>7. \A b \in Agents : ok[b] = room.approved[b] \/ ok[b] > now
    BY <1>2, <1>5
  <1>8. /\ rm.live = room.live /\ rm.route = room.route /\ rm.primary = room.primary /\ rm.plans = room.plans
        /\ rm.applied = room.applied /\ rm.assigned = room.assigned /\ rm.hadPrimary = room.hadPrimary
    BY <1>1 DEF Room
  <1> HIDE DEF rm, ok, no, w
  <1>9. w \in Room
    BY <1>3, <1>4, <1>6 DEF Room
  <1>10. /\ w.live = rm.live /\ w.route = rm.route /\ w.primary = rm.primary /\ w.plans = rm.plans
         /\ w.applied = rm.applied /\ w.assigned = rm.assigned /\ w.hadPrimary = rm.hadPrimary
         /\ w.approved = IF accepted THEN ok ELSE rm.approved
    BY <1>3, <1>4 DEF Room
  <1>11. PlansFit(w)
    <2>1. \A q : AgentOf(w, q) = AgentOf(room, q)
      BY <1>8, <1>10 DEF AgentOf
    <2> QED
      BY <1>8, <1>10, <2>1, RoomFits DEF PlansFit
  <1> QED
    BY <1>3, <1>7, <1>8, <1>9, <1>10, <1>11 DEF Given, w

LEMMA RespondToTakeoverKeeps ==
  ASSUME IInv, NEW p \in Peers, NEW accepted \in BOOLEAN, RespondToTakeover(p, accepted)
  PROVE  IInv' /\ FailoverStep
  <1>1. /\ UNCHANGED <<now, members, gone, epoch, store, agent, up, held, late, plan>>
        /\ Broadcast(agent, consents, Answered(accepted), members, epoch)
    BY DEF RespondToTakeover, Answered
  <1> QED
    BY <1>1, AnsweredFacts, OwnedConsents, StayBroadcastKeeps

\* Readiness is no part of the route.
LEMMA ReadyIsGiven ==
  ASSUME IInv, NEW B \in SUBSET (Agents \X Peers), NEW L \in SUBSET ((SUBSET Id) \X Agents)
  PROVE  /\ Given([room EXCEPT !.browserReady = B]) /\ Given([room EXCEPT !.agentReady = B])
         /\ Given([room EXCEPT !.linkReady = L])
  <1>1. room \in Room
    BY DEF IInv, TypeOK
  <1>2. ASSUME NEW w \in Room, w.live = room.live, w.route = room.route, w.primary = room.primary,
               w.plans = room.plans, w.applied = room.applied, w.assigned = room.assigned,
               w.hadPrimary = room.hadPrimary, w.approved = room.approved
        PROVE  Given(w)
    <2>1. \A q : AgentOf(w, q) = AgentOf(room, q)
      BY <1>2 DEF AgentOf
    <2> QED
      BY <1>2, <2>1, RoomFits DEF Given, PlansFit
  <1>3. Given([room EXCEPT !.browserReady = B])
    <2> DEFINE w == [room EXCEPT !.browserReady = B]
    <2>1. /\ w \in Room /\ w.live = room.live /\ w.route = room.route /\ w.primary = room.primary
          /\ w.plans = room.plans /\ w.applied = room.applied /\ w.assigned = room.assigned
          /\ w.hadPrimary = room.hadPrimary /\ w.approved = room.approved
      BY <1>1 DEF Room
    <2> HIDE DEF w
    <2>2. Given(w)
      BY <1>2, <2>1
    <2> QED
      BY <2>2 DEF w
  <1>4. Given([room EXCEPT !.agentReady = B])
    <2> DEFINE w == [room EXCEPT !.agentReady = B]
    <2>1. /\ w \in Room /\ w.live = room.live /\ w.route = room.route /\ w.primary = room.primary
          /\ w.plans = room.plans /\ w.applied = room.applied /\ w.assigned = room.assigned
          /\ w.hadPrimary = room.hadPrimary /\ w.approved = room.approved
      BY <1>1 DEF Room
    <2> HIDE DEF w
    <2>2. Given(w)
      BY <1>2, <2>1
    <2> QED
      BY <2>2 DEF w
  <1>5. Given([room EXCEPT !.linkReady = L])
    <2> DEFINE w == [room EXCEPT !.linkReady = L]
    <2>1. /\ w \in Room /\ w.live = room.live /\ w.route = room.route /\ w.primary = room.primary
          /\ w.plans = room.plans /\ w.applied = room.applied /\ w.assigned = room.assigned
          /\ w.hadPrimary = room.hadPrimary /\ w.approved = room.approved
      BY <1>1 DEF Room
    <2> HIDE DEF w
    <2>2. Given(w)
      BY <1>2, <2>1
    <2> QED
      BY <2>2 DEF w
  <1> QED
    BY <1>3, <1>4, <1>5

LEMMA SetBrowserPeerStateKeeps ==
  ASSUME IInv, NEW p \in Peers, NEW a \in Agents, NEW connected \in BOOLEAN, SetBrowserPeerState(p, a, connected)
  PROVE  IInv' /\ FailoverStep
  <1> DEFINE B == IF connected THEN room.browserReady \cup {<<a, p>>} ELSE room.browserReady \ {<<a, p>>}
  <1>1. /\ UNCHANGED <<now, members, gone, epoch, store, agent, up, held, late, plan>>
        /\ Broadcast(agent, consents, [room EXCEPT !.browserReady = B], members, epoch)
    BY DEF SetBrowserPeerState
  <1>2. B \in SUBSET (Agents \X Peers)
    BY DEF IInv, TypeOK, Room
  <1> HIDE DEF B
  <1>3. Given([room EXCEPT !.browserReady = B])
    BY <1>2, ReadyIsGiven
  <1> QED
    BY <1>1, <1>3, OwnedConsents, StayBroadcastKeeps

\* A step of the plans alone, which the server does not broadcast
Replanned ==
  /\ room' \in Room /\ PlansFit(room') /\ members # {}
  /\ room'.live = room.live /\ room'.route = room.route /\ room'.primary = room.primary
  /\ room'.standbys = room.standbys /\ room'.assigned = room.assigned /\ room'.lease = room.lease

LEMMA ReplannedRooming ==
  ASSUME IInv, Replanned, UNCHANGED <<now, members, gone, epoch, store, agent, consents, up, held, late, plan>>,
         box' \in [Agents -> [has : BOOLEAN, lease : Lease]], syncDue' \in BOOLEAN
  PROVE  Rooming'
  <1>1. /\ store' \in [Agents -> Row] /\ agent' \in [Agents -> Entry] /\ up' \in [Agents -> BOOLEAN]
        /\ late' \in [Agents -> BOOLEAN] /\ held' \in [Agents -> Lease]
    BY DEF IInv, TypeOK
  <1>2. \A a \in Agents : InRoute(room, a) =>
          /\ agent'[a].known /\ agent'[a].sock /\ ~agent'[a].draining /\ agent'[a].fitness > 0
          /\ agent'[a].seen \in {agent[a].seen, now}
    BY DEF IInv, RouteIsEntitled
  <1> QED
    BY <1>1, <1>2, SameRouteKeeps DEF Replanned

\* ... with the syncs sent at once,
LEMMA ReplannedSynced ==
  ASSUME IInv, Replanned, UNCHANGED <<now, members, gone, epoch, store, agent, consents, up, held, late, plan>>,
         SyncAgents(agent, room', members)
  PROVE  IInv' /\ FailoverStep
  <1>1. Onward
    <2>1. room.route \in Nat /\ room'.route = room.route
      BY DEF IInv, TypeOK, Room, Replanned
    <2> QED
      BY <2>1 DEF Onward, Replanned
  <1>2. SyncAgents(agent', room', members') /\ held' = held
    OBVIOUS
  <1>3. /\ room' \in Room /\ members' \in SUBSET Peers /\ up' \in [Agents -> BOOLEAN]
        /\ \A a \in Agents : up'[a] => agent'[a].known /\ agent'[a].sock
    BY DEF IInv, TypeOK, Synced, Replanned
  <1>4. Traffic' /\ syncDue' = FALSE /\ box' \in [Agents -> [has : BOOLEAN, lease : Lease]]
    BY <1>1, <1>2, <1>3, SyncKeeps
  <1>5. Rooming'
    BY <1>4, ReplannedRooming
  <1> QED
    BY <1>4, <1>5, InvariantParts DEF IInv, Rooming, Traffic, FailoverStep, Replanned

\* ... and without any.
LEMMA ReplannedQuiet ==
  ASSUME IInv, Replanned, UNCHANGED <<now, members, gone, epoch, store, agent, consents, up, held, late, plan>>,
         box' = box, syncDue' \in BOOLEAN
  PROVE  IInv' /\ FailoverStep
  <1>1. Rooming'
    BY ReplannedRooming DEF IInv, TypeOK
  <1>2. Dated' /\ Apart'
    <2>1. \A a \in Agents : held'[a] \in LeasesOf(a) \cup {NoLease} /\ box'[a].lease \in LeasesOf(a) \cup {NoLease}
      BY DEF LeasesOf
    <2> QED
      BY <2>1, QuietKeeps DEF Replanned
  <1>3. Synced'
    <2>1. \A a \in Agents : InRoute(room', a) <=> InRoute(room, a)
      BY DEF InRoute, Replanned
    <2>2. \A a \in Agents : Settled(a)' = Settled(a)
      BY DEF Settled
    <2>3. Synced' <=> \A a \in Agents : up'[a] =>
            /\ agent'[a].known /\ agent'[a].sock
            /\ IF InRoute(room', a)
               THEN Settled(a)'.route = room'.route /\ Settled(a)'.expires = room'.lease
               ELSE Settled(a)' = NoLease
      BY DEF Synced, InRoute
    <2> QED
      BY <2>1, <2>2, <2>3 DEF IInv, Synced, Replanned
  <1> QED
    BY <1>1, <1>2, <1>3, InvariantParts DEF IInv, Rooming, FailoverStep, Replanned

\* Changed plans fit when the assignment is the same.
LEMMA Replans ==
  ASSUME IInv, members # {}, NEW P \in SUBSET Subscription, NEW A \in SUBSET Subscription, NEW n \in Nat,
         \A s \in P : s.agent = AgentOf(room, s.sub), \A s \in A : s \in P /\ s.enabled,
         room' = [room EXCEPT !.revision = n, !.plans = P, !.applied = A]
  PROVE  Replanned
  <1>1. room \in Room
    BY DEF IInv, TypeOK
  <1>2. room' \in Room
    BY <1>1 DEF Room
  <1>3. /\ room'.live = room.live /\ room'.route = room.route /\ room'.primary = room.primary
        /\ room'.standbys = room.standbys /\ room'.assigned = room.assigned /\ room'.lease = room.lease
        /\ room'.plans = P /\ room'.applied = A
    BY <1>1 DEF Room
  <1>4. \A p : AgentOf(room', p) = AgentOf(room, p)
    BY <1>3 DEF AgentOf
  <1> QED
    BY <1>2, <1>3, <1>4 DEF Replanned, PlansFit

LEMMA PlansTypes ==
  ASSUME IInv
  PROVE  /\ room \in Room /\ room.plans \in SUBSET Subscription /\ room.applied \in SUBSET Subscription
         /\ room.revision \in Nat /\ room.revision + 1 \in Nat
         /\ room = [room EXCEPT !.revision = room.revision] /\ room = [room EXCEPT !.plans = room.plans]
         /\ room.plans # {} => members # {}
  <1>1. room \in Room
    BY DEF IInv, TypeOK
  <1>2. NoRoom.plans = {}
    BY DEF NoRoom
  <1>3. room.revision \in Nat
    BY <1>1 DEF Room
  <1>4. room.revision + 1 \in Nat
    BY <1>3
  <1> QED
    BY <1>1, <1>2, <1>3, <1>4, RoomFits DEF Room

LEMMA SetSubscriptionIntentKeeps ==
  ASSUME IInv, NEW s \in Peers, NEW p \in Peers, NEW enabled \in BOOLEAN, SetSubscriptionIntent(s, p, enabled)
  PROVE  IInv' /\ FailoverStep
  <1> DEFINE n == room.revision + 1
             new == [sub |-> s, pub |-> p, enabled |-> enabled, rev |-> n, agent |-> AgentOf(room, s)]
             P == {t \in room.plans : <<t.sub, t.pub>> # <<s, p>>} \cup {new}
             A == {t \in room.applied : <<t.sub, t.pub>> # <<s, p>>}
  <1>1. /\ room' = [room EXCEPT !.revision = n, !.plans = P, !.applied = A]
        /\ UNCHANGED <<now, members, gone, epoch, store, agent, consents, box, up, held, late, plan>>
        /\ syncDue' = TRUE /\ members # {} /\ AgentOf(room, s) # 0
    BY DEF SetSubscriptionIntent
  <1>2. AgentOf(room, s) \in Agents
    <2>1. room.assigned \in Seq(Peers \X Agents)
      BY DEF IInv, TypeOK, Room
    <2> QED
      BY <1>1, <2>1, AgentOfFacts DEF Id
  <1>3. new \in Subscription /\ new.agent = AgentOf(room, new.sub)
    BY <1>2, PlansTypes DEF Subscription
  <1> HIDE DEF new
  <1>4. P \in SUBSET Subscription /\ A \in SUBSET Subscription /\ n \in Nat
    BY <1>3, PlansTypes
  <1>5. \A t \in P : t.agent = AgentOf(room, t.sub)
    BY <1>3, RoomFits DEF PlansFit
  <1>6. \A t \in A : t \in P /\ t.enabled
    BY RoomFits DEF PlansFit
  <1> HIDE DEF P, A, n
  <1>7. Replanned
    BY <1>1, <1>4, <1>5, <1>6, Replans
  <1> QED
    BY <1>1, <1>7, ReplannedQuiet

LEMMA SyncTimerKeeps ==
  ASSUME IInv, SyncTimer
  PROVE  IInv' /\ FailoverStep
  <1>1. /\ UNCHANGED <<now, members, gone, epoch, store, agent, consents, room, up, held, late, plan>>
        /\ SyncAgents(agent, room, members)
    BY DEF SyncTimer
  <1>2. /\ Onward /\ room' \in Room /\ members' \in SUBSET Peers /\ up' \in [Agents -> BOOLEAN]
        /\ \A a \in Agents : up'[a] => agent'[a].known /\ agent'[a].sock
    <2>1. room.route \in Nat
      BY DEF IInv, TypeOK, Room
    <2> QED
      BY <1>1, <2>1 DEF IInv, TypeOK, Synced, Onward
  <1>3. SyncAgents(agent', room', members') /\ held' = held
    BY <1>1
  <1>4. Traffic' /\ syncDue' = FALSE /\ box' \in [Agents -> [has : BOOLEAN, lease : Lease]]
    BY <1>2, <1>3, SyncKeeps
  <1>5. Rooming'
    <2>1. /\ store' \in [Agents -> Row] /\ agent' \in [Agents -> Entry] /\ up' \in [Agents -> BOOLEAN]
          /\ late' \in [Agents -> BOOLEAN] /\ held' \in [Agents -> Lease]
      BY <1>1 DEF IInv, TypeOK
    <2>2. \A a \in Agents : InRoute(room, a) =>
            /\ agent'[a].known /\ agent'[a].sock /\ ~agent'[a].draining /\ agent'[a].fitness > 0
            /\ agent'[a].seen \in {agent[a].seen, now}
      BY <1>1 DEF IInv, RouteIsEntitled
    <2>3. PlansFit(room') /\ syncDue' \in BOOLEAN
      BY <1>1, <1>4, RoomFits
    <2> QED
      BY <1>1, <1>2, <1>4, <2>1, <2>2, <2>3, SameRouteKeeps
  <1> QED
    BY <1>1, <1>4, <1>5, InvariantParts DEF IInv, Rooming, Traffic, FailoverStep

LEMMA RevokeSubscriptionKeeps ==
  ASSUME IInv, NEW s \in room.plans, RevokeSubscription(s)
  PROVE  IInv' /\ FailoverStep
  <1> DEFINE n == room.revision + 1
             new == [s EXCEPT !.enabled = FALSE, !.rev = n]
             P == (room.plans \ {s}) \cup {new}
             A == {t \in room.applied : <<t.sub, t.pub>> # <<s.sub, s.pub>>}
  <1>1. /\ room' = [room EXCEPT !.plans = P, !.applied = A, !.revision = n]
        /\ UNCHANGED <<now, members, gone, epoch, store, agent, consents, up, held, late, plan>>
        /\ SyncAgents(agent, room', members)
    BY PlansTypes DEF RevokeSubscription, Revoked, Room
  <1>2. s \in Subscription /\ n \in Nat /\ members # {}
    BY PlansTypes
  <1>3. new \in Subscription /\ new.sub = s.sub /\ new.agent = s.agent
    BY <1>2 DEF Subscription
  <1> HIDE DEF new
  <1>4. P \in SUBSET Subscription /\ A \in SUBSET Subscription
    BY <1>3, PlansTypes
  <1>5. \A t \in P : t.agent = AgentOf(room, t.sub)
    BY <1>3, RoomFits DEF PlansFit
  <1>6. \A t \in A : t \in P /\ t.enabled
    BY RoomFits DEF PlansFit
  <1>7. room' = [room EXCEPT !.revision = n, !.plans = P, !.applied = A]
    BY <1>1, PlansTypes DEF Room
  <1> HIDE DEF P, A, n
  <1>8. Replanned
    BY <1>2, <1>4, <1>5, <1>6, <1>7, Replans
  <1> QED
    BY <1>1, <1>8, ReplannedSynced

LEMMA RemovePublisherSourceKeeps ==
  ASSUME IInv, NEW p \in Peers, RemovePublisherSource(p)
  PROVE  IInv' /\ FailoverStep
  <1> DEFINE P == {s \in room.plans : s.pub # p}
             A == {s \in room.applied : s.pub # p}
  <1>1. /\ room' = [room EXCEPT !.plans = P, !.applied = A]
        /\ UNCHANGED <<now, members, gone, epoch, store, agent, consents, up, held, late, plan>>
        /\ SyncAgents(agent, room', members) /\ room.plans # {}
    BY DEF RemovePublisherSource
  <1>2. P \in SUBSET Subscription /\ A \in SUBSET Subscription /\ room.revision \in Nat /\ members # {}
    BY <1>1, PlansTypes
  <1>3. \A t \in P : t.agent = AgentOf(room, t.sub)
    BY RoomFits DEF PlansFit
  <1>4. \A t \in A : t \in P /\ t.enabled
    BY RoomFits DEF PlansFit
  <1> HIDE DEF P, A
  <1>5. room' = [room EXCEPT !.revision = room.revision, !.plans = P, !.applied = A]
    BY <1>1, PlansTypes DEF Room
  <1>6. Replanned
    BY <1>2, <1>3, <1>4, <1>5, Replans
  <1> QED
    BY <1>1, <1>6, ReplannedSynced

-----------------------------------------------------------------------------
(* Agents *)

LEMMA EntryTypes ==
  ASSUME IInv
  PROVE  /\ NewAgent \in Entry /\ Unknown \in Entry /\ NoBox \in [has : BOOLEAN, lease : Lease]
         /\ NoBox.lease = NoLease /\ ~NoBox.has
         /\ now \in Nat /\ now + EnrollTtl \in Nat
         /\ store \in [Agents -> Row] /\ agent \in [Agents -> Entry] /\ up \in [Agents -> BOOLEAN]
         /\ late \in [Agents -> BOOLEAN] /\ held \in [Agents -> Lease] /\ syncDue \in BOOLEAN
         /\ box \in [Agents -> [has : BOOLEAN, lease : Lease]] /\ room \in Room
         /\ \A a \in Agents : ~InRoute(room, a) \/ (agent[a].known /\ agent[a].sock)
         /\ \A a \in Agents : up[a] => agent[a].known /\ agent[a].sock
  <1>1. NewAgent \in Entry /\ Unknown \in Entry
    <2>1. NewAgent \in Entry
      BY ScoreAssumption DEF NewAgent, Entry
    <2> QED
      BY <2>1 DEF Unknown, Entry
  <1>2. NoBox \in [has : BOOLEAN, lease : Lease] /\ NoBox.lease = NoLease /\ ~NoBox.has
    BY NoLeaseFacts DEF NoBox
  <1>3. now \in Nat /\ now + EnrollTtl \in Nat
    BY SizeAssumption DEF IInv, TypeOK
  <1> QED
    BY <1>1, <1>2, <1>3 DEF IInv, TypeOK, RouteIsEntitled, Synced

\* A step of one agent that leaves the room and what is sent to the others.
LEMMA AgentStepKeeps ==
  ASSUME IInv, UNCHANGED <<now, members, gone, epoch, consents, room, syncDue, plan>>, NEW a \in Agents,
         store' \in [Agents -> Row], agent' \in [Agents -> Entry], up' \in [Agents -> BOOLEAN],
         late' \in [Agents -> BOOLEAN], held' \in [Agents -> Lease],
         box' \in [Agents -> [has : BOOLEAN, lease : Lease]],
         \A b \in Agents \ {a} : /\ agent'[b] = agent[b] /\ up'[b] = up[b]
                                 /\ held'[b] = held[b] /\ box'[b] = box[b],
         InRoute(room, a) => /\ agent'[a].known /\ agent'[a].sock /\ ~agent'[a].draining
                             /\ agent'[a].fitness > 0 /\ agent'[a].seen \in {agent[a].seen, now},
         held'[a] \in LeasesOf(a) \cup {NoLease}, box'[a].lease \in LeasesOf(a) \cup {NoLease},
         up'[a] => up[a] /\ agent'[a].known /\ agent'[a].sock /\ Settled(a)' = Settled(a)
  PROVE  IInv' /\ FailoverStep
  <1>1. ASSUME NEW b \in Agents, InRoute(room, b)
        PROVE  /\ agent'[b].known /\ agent'[b].sock /\ ~agent'[b].draining /\ agent'[b].fitness > 0
               /\ agent'[b].seen \in {agent[b].seen, now}
    <2>1. CASE b = a
      BY <1>1, <2>1
    <2>2. CASE b # a
      BY <1>1, <2>2 DEF IInv, RouteIsEntitled
    <2> QED
      BY <2>1, <2>2
  <1>2. Rooming'
    <2>1. room' \in Room /\ PlansFit(room') /\ syncDue' \in BOOLEAN
      BY EntryTypes, RoomFits
    <2> QED
      BY <1>1, <2>1, SameRouteKeeps
  <1>3. Dated' /\ Apart'
    <2>1. \A b \in Agents : held'[b] \in LeasesOf(b) \cup {NoLease} /\ box'[b].lease \in LeasesOf(b) \cup {NoLease}
      BY DEF LeasesOf
    <2> QED
      BY <2>1, QuietKeeps
  <1>4. Synced'
    <2>1. ASSUME NEW b \in Agents, up'[b]
          PROVE  up[b] /\ agent'[b].known /\ agent'[b].sock /\ Settled(b)' = Settled(b)
      <3>1. CASE b = a
        BY <2>1, <3>1
      <3>2. CASE b # a
        BY <2>1, <3>2, EntryTypes DEF Settled
      <3> QED
        BY <3>1, <3>2
    <2>2. Synced' <=> \A b \in Agents : up'[b] =>
            /\ agent'[b].known /\ agent'[b].sock
            /\ IF InRoute(room', b)
               THEN Settled(b)'.route = room'.route /\ Settled(b)'.expires = room'.lease
               ELSE Settled(b)' = NoLease
      BY DEF Synced, InRoute
    <2> QED
      BY <2>1, <2>2 DEF IInv, Synced
  <1> QED
    BY <1>2, <1>3, <1>4, InvariantParts DEF IInv, Rooming, FailoverStep

LEMMA CreateEnrollmentKeeps ==
  ASSUME IInv, NEW a \in Agents, CreateEnrollment(a)
  PROVE  IInv' /\ FailoverStep
  <1>1. /\ store' = [store EXCEPT ![a] = [st |-> "pending", expires |-> now + EnrollTtl]]
        /\ UNCHANGED <<now, members, gone, epoch, agent, consents, room, syncDue, box, up, held, late, plan>>
    BY DEF CreateEnrollment
  <1>2. [st |-> "pending", expires |-> now + EnrollTtl] \in Row
    BY EntryTypes DEF Row
  <1>3. store' \in [Agents -> Row]
    BY <1>1, <1>2, EntryTypes
  <1>4. Settled(a)' = Settled(a) /\ held'[a] \in LeasesOf(a) /\ box'[a].lease \in LeasesOf(a)
    BY <1>1 DEF Settled, LeasesOf
  <1>5. InRoute(room, a) => /\ agent'[a].known /\ agent'[a].sock /\ ~agent'[a].draining
                            /\ agent'[a].fitness > 0 /\ agent'[a].seen \in {agent[a].seen, now}
    BY <1>1 DEF IInv, RouteIsEntitled
  <1> QED
    BY <1>1, <1>3, <1>4, <1>5, EntryTypes, AgentStepKeeps

LEMMA EnrollKeeps ==
  ASSUME IInv, NEW a \in Agents, Enroll(a)
  PROVE  IInv' /\ FailoverStep
  <1>1. /\ store' = [store EXCEPT ![a].st = "registered"] /\ agent' = [agent EXCEPT ![a] = NewAgent]
        /\ UNCHANGED <<now, members, gone, epoch, consents, room, syncDue, box, up, held, late, plan>>
        /\ ~agent[a].known
    BY DEF Enroll
  <1>2. ~up[a] /\ ~InRoute(room, a)
    BY <1>1, EntryTypes
  <1>3. store' \in [Agents -> Row]
    BY <1>1, EntryTypes DEF Row
  <1>4. agent' \in [Agents -> Entry] /\ \A b \in Agents \ {a} : agent'[b] = agent[b]
    BY <1>1, EntryTypes
  <1>5. held'[a] \in LeasesOf(a) /\ box'[a].lease \in LeasesOf(a)
    BY <1>1 DEF LeasesOf
  <1> QED
    BY <1>1, <1>2, <1>3, <1>4, <1>5, EntryTypes, AgentStepKeeps

LEMMA ServerRestartKeeps ==
  ASSUME IInv, ServerRestart
  PROVE  IInv' /\ FailoverStep
  <1>1. /\ members' = {} /\ gone' = gone \cup members /\ epoch' = 0
        /\ agent' = [a \in Agents |-> Definition(a)] /\ consents' = <<>> /\ room' = NoRoom
        /\ syncDue' = FALSE /\ box' = [a \in Agents |-> NoBox] /\ up' = [a \in Agents |-> FALSE]
        /\ late' = [a \in Agents |-> FALSE] /\ UNCHANGED <<now, store, held, plan>>
    BY DEF ServerRestart
  <1>2. \A a \in Agents : Definition(a) \in Entry
    BY EntryTypes DEF Definition
  <1>3. TypeOK'
    <2>1. agent' \in [Agents -> Entry]
      BY <1>1, <1>2
    <2>2. /\ box' \in [Agents -> [has : BOOLEAN, lease : Lease]] /\ up' \in [Agents -> BOOLEAN]
          /\ late' \in [Agents -> BOOLEAN]
      BY <1>1, EntryTypes
    <2>3. IsFiniteSet(members') /\ members' \subseteq Peers /\ gone' \subseteq Peers \ members'
      BY <1>1, FS_EmptySet DEF IInv, TypeOK
    <2>a. <<>> \in Seq(Consent)
      OBVIOUS
    <2>4. consents' \in Seq(Consent) /\ epoch' \in Nat /\ syncDue' \in BOOLEAN /\ room' \in Room
      BY <1>1, <2>a, NoRoomType
    <2>5. now' \in Nat /\ plan' \in Plans /\ store' \in [Agents -> Row] /\ held' \in [Agents -> Lease]
      BY <1>1 DEF IInv, TypeOK
    <2> QED
      BY <2>1, <2>2, <2>3, <2>4, <2>5 DEF TypeOK
  <1>4. NoRoom.plans = {} /\ NoRoom.applied = {} /\ NoRoom.primary = 0
    BY DEF NoRoom
  <1>5. \A a \in Agents : ~InRoute(room', a)
    BY <1>1, NoRouteInNoRoom
  <1>6. Open' /\ Owned'
    BY <1>1 DEF Open, Owned
  <1>7. RouteIsEntitled'
    BY <1>5 DEF RouteIsEntitled, InRoute
  <1>8. Covers(room, members)' /\ Planned' /\ AppliedPlansAreCurrent'
    BY <1>1, <1>4 DEF Covers, Planned, AppliedPlansAreCurrent
  <1>9. ASSUME NEW a \in Agents, NEW l \in LeasesOf(a)' PROVE l \in LeasesOf(a) \/ l = NoLease
    BY <1>1, EntryTypes DEF LeasesOf
  <1>10. Dated'
    <2>1. \A a \in Agents : \A l \in LeasesOf(a)' : l.peers \subseteq members' \cup gone'
      BY <1>1, <1>9, NoLeaseFacts DEF IInv, Dated
    <2> QED
      BY <1>1, <2>1 DEF Dated, LeasesOf
  <1>11. Apart'
    <2>1. ASSUME NEW a \in Agents, NEW b \in Agents, NEW l \in LeasesOf(a)', NEW k \in LeasesOf(b)',
                 a # b, l.role = "primary", k.role = "primary", l.route = k.route
          PROVE  l.peers \cap k.peers = {}
      <3>1. CASE l \in LeasesOf(a) /\ k \in LeasesOf(b)
        BY <2>1, <3>1 DEF IInv, Apart
      <3>2. CASE l = NoLease \/ k = NoLease
        BY <3>2, NoLeaseFacts
      <3> QED
        BY <1>9, <3>1, <3>2
    <2> QED
      BY <2>1 DEF Apart, LeasesOf
  <1>12. Synced'
    BY <1>1 DEF Synced
  <1> QED
    BY <1>1, <1>3, <1>4, <1>6, <1>7, <1>8, <1>10, <1>11, <1>12 DEF IInv, FailoverStep

LEMMA RevokeKeeps ==
  ASSUME IInv, NEW a \in Agents, Revoke(a)
  PROVE  IInv' /\ FailoverStep
  <1> DEFINE T == {c \in ToSet(consents) : c.agent # a}
  <1>1. /\ store' = [store EXCEPT ![a].st = "revoked"] /\ agent' = [agent EXCEPT ![a] = Unknown]
        /\ up' = [up EXCEPT ![a] = FALSE] /\ UNCHANGED <<now, members, gone, epoch, held, late, plan>>
        /\ BroadcastFor(a, agent', Only(consents, T))
    BY DEF Revoke
  <1> HIDE DEF T
  <1>2. store' \in [Agents -> Row]
    BY <1>1, EntryTypes DEF Row
  <1>3. agent' \in [Agents -> Entry] /\ \A b \in Agents \ {a} : agent'[b] = agent[b] /\ up'[b] = up[b]
    BY <1>1, EntryTypes
  <1>4. up' \in [Agents -> BOOLEAN] /\ ~up'[a]
    BY <1>1, EntryTypes
  <1>5. Kept
    BY <1>1, <1>2, <1>3, <1>4, EntryTypes DEF Kept, IInv, TypeOK
  <1>6. /\ Only(consents, T) \in Seq(Consent)
        /\ \A i \in DOMAIN Only(consents, T) :
             OwnerOf[Only(consents, T)[i].agent] = PrincipalOf[Only(consents, T)[i].peer]
    BY OwnedConsents
  <1> QED
    BY <1>1, <1>3, <1>4, <1>5, <1>6, BroadcastForKeeps

LEMMA EntryStep ==
  ASSUME IInv, NEW a \in Agents, NEW e, agent[a] \in Entry => e \in Entry, agent' = [agent EXCEPT ![a] = e]
  PROVE  /\ agent' \in [Agents -> Entry] /\ agent'[a] = e /\ agent[a] \in Entry
         /\ \A b \in Agents \ {a} : agent'[b] = agent[b]
  BY EntryTypes

LEMMA AuthenticateKeeps ==
  ASSUME IInv, NEW a \in Agents, Authenticate(a)
  PROVE  IInv' /\ FailoverStep
  <1> DEFINE here == members # {} /\ (InRoute(room, a) \/ ConsentsFor(consents, a) # <<>>)
  <1>1. /\ up' = [up EXCEPT ![a] = TRUE] /\ late' = [late EXCEPT ![a] = agent[a].sock]
        /\ agent' = [agent EXCEPT ![a].sock = TRUE, ![a].seen = now, ![a].draining = FALSE]
        /\ UNCHANGED <<now, members, gone, epoch, store, held, plan>> /\ agent[a].known
        /\ IF here THEN Broadcast(agent', consents, room, members, epoch)
           ELSE UNCHANGED <<room, consents>> /\ SyncAgents(agent', room, members)
    BY DEF Authenticate
  <1>2. agent' \in [Agents -> Entry] /\ up' \in [Agents -> BOOLEAN]
    <2> DEFINE e == [agent[a] EXCEPT !.sock = TRUE, !.seen = now, !.draining = FALSE]
    <2>1. agent' = [agent EXCEPT ![a] = e]
      BY <1>1, EntryTypes
    <2>2. agent[a] \in Entry => e \in Entry
      BY EntryTypes DEF Entry
    <2> HIDE DEF e
    <2> QED
      BY <1>1, <2>1, <2>2, EntryStep, EntryTypes
  <1>3. late' \in [Agents -> BOOLEAN]
    <2>1. agent[a].sock \in BOOLEAN
      BY EntryTypes DEF Entry
    <2> QED
      BY <1>1, <2>1, EntryTypes
  <1>4. agent'[a].known /\ agent'[a].sock /\ \A b \in Agents \ {a} : agent'[b] = agent[b] /\ up'[b] = up[b]
    <2>1. agent'[a] = [agent[a] EXCEPT !.sock = TRUE, !.seen = now, !.draining = FALSE] /\ agent[a] \in Entry
      BY <1>1, EntryTypes
    <2>2. agent'[a].known = agent[a].known /\ agent'[a].sock
      BY <2>1 DEF Entry
    <2>3. \A b \in Agents \ {a} : agent'[b] = agent[b] /\ up'[b] = up[b]
      BY <1>1, EntryTypes
    <2> QED
      BY <1>1, <2>2, <2>3
  <1>5. \A b \in Agents : up'[b] => agent'[b].known /\ agent'[b].sock
    BY <1>4, EntryTypes
  <1>6. Kept
    BY <1>1, <1>2, <1>3, <1>5, EntryTypes DEF Kept, IInv, TypeOK
  <1>7. /\ members' \in SUBSET Peers /\ IsFiniteSet(members') /\ gone' \subseteq Peers \ members'
        /\ members \cup gone \subseteq members' \cup gone' /\ members' \cap (members \cup gone) \subseteq members
    BY <1>1 DEF IInv, TypeOK
  <1>8. CASE here
    <2>1. Broadcast(agent', consents, room, members', epoch')
      BY <1>1, <1>8
    <2> QED
      BY <1>6, <1>7, <2>1, RoomFits, OwnedConsents, BroadcastKeeps
  <1>9. CASE ~here
    <2>1. UNCHANGED <<room, consents>> /\ SyncAgents(agent', room', members')
      BY <1>1, <1>9
    <2>2. ~InRoute(room, a)
      BY <1>9, RoomFits, NoRouteInNoRoom
    <2>3. Onward /\ room' \in Room
      <3>1. room.route \in Nat
        BY EntryTypes DEF Room
      <3> QED
        BY <1>1, <2>1, <3>1, EntryTypes DEF Onward
    <2>4. Traffic' /\ syncDue' = FALSE /\ box' \in [Agents -> [has : BOOLEAN, lease : Lease]]
      BY <1>1, <1>2, <1>5, <1>7, <2>1, <2>3, SyncKeeps
    <2>5. Rooming'
      <3>1. \A b \in Agents : InRoute(room, b) =>
              /\ agent'[b].known /\ agent'[b].sock /\ ~agent'[b].draining /\ agent'[b].fitness > 0
              /\ agent'[b].seen \in {agent[b].seen, now}
        BY <1>4, <2>2 DEF IInv, RouteIsEntitled
      <3>2. store' \in [Agents -> Row] /\ held' \in [Agents -> Lease] /\ PlansFit(room') /\ syncDue' \in BOOLEAN
        BY <1>1, <2>1, <2>4, EntryTypes, RoomFits
      <3> QED
        BY <1>1, <1>2, <1>3, <2>1, <2>3, <2>4, <3>1, <3>2, SameRouteKeeps
    <2> QED
      BY <2>1, <2>4, <2>5, InvariantParts DEF IInv, Rooming, Traffic, FailoverStep
  <1> QED
    BY <1>8, <1>9

LEMMA ConnectionLostKeeps ==
  ASSUME IInv, NEW a \in Agents, ConnectionLost(a)
  PROVE  IInv' /\ FailoverStep
  <1>1. /\ up' = [up EXCEPT ![a] = FALSE] /\ box' = [box EXCEPT ![a] = NoBox]
        /\ UNCHANGED <<now, members, gone, epoch, store, agent, consents, room, syncDue, held, late, plan>>
    BY DEF ConnectionLost
  <1>2. /\ up' \in [Agents -> BOOLEAN] /\ ~up'[a] /\ box' \in [Agents -> [has : BOOLEAN, lease : Lease]]
        /\ box'[a] = NoBox /\ \A b \in Agents \ {a} : up'[b] = up[b] /\ box'[b] = box[b]
    BY <1>1, EntryTypes
  <1>3. held'[a] \in LeasesOf(a) /\ box'[a].lease = NoLease
    BY <1>1, <1>2, EntryTypes DEF LeasesOf
  <1>4. InRoute(room, a) => /\ agent'[a].known /\ agent'[a].sock /\ ~agent'[a].draining
                            /\ agent'[a].fitness > 0 /\ agent'[a].seen \in {agent[a].seen, now}
    BY <1>1 DEF IInv, RouteIsEntitled
  <1> QED
    BY <1>1, <1>2, <1>3, <1>4, EntryTypes, AgentStepKeeps

LEMMA AgentCrashKeeps ==
  ASSUME IInv, NEW a \in Agents, AgentCrash(a)
  PROVE  IInv' /\ FailoverStep
  <1>1. /\ up' = [up EXCEPT ![a] = FALSE] /\ box' = [box EXCEPT ![a] = NoBox]
        /\ held' = [held EXCEPT ![a] = NoLease]
        /\ UNCHANGED <<now, members, gone, epoch, store, agent, consents, room, syncDue, late, plan>>
    BY DEF AgentCrash
  <1>2. /\ up' \in [Agents -> BOOLEAN] /\ ~up'[a] /\ box' \in [Agents -> [has : BOOLEAN, lease : Lease]]
        /\ box'[a] = NoBox /\ \A b \in Agents \ {a} : up'[b] = up[b] /\ box'[b] = box[b]
    BY <1>1, EntryTypes
  <1>3. held' \in [Agents -> Lease] /\ held'[a] = NoLease /\ \A b \in Agents \ {a} : held'[b] = held[b]
    BY <1>1, EntryTypes, NoLeaseFacts
  <1>4. box'[a].lease = NoLease
    BY <1>2, EntryTypes
  <1>5. InRoute(room, a) => /\ agent'[a].known /\ agent'[a].sock /\ ~agent'[a].draining
                            /\ agent'[a].fitness > 0 /\ agent'[a].seen \in {agent[a].seen, now}
    BY <1>1 DEF IInv, RouteIsEntitled
  <1> QED
    BY <1>1, <1>2, <1>3, <1>4, <1>5, EntryTypes, AgentStepKeeps

LEMMA SocketClosesKeeps ==
  ASSUME IInv, NEW a \in Agents, NEW ended \in {"bound", "replaced"}, SocketCloses(a, ended)
  PROVE  IInv' /\ FailoverStep
  <1>1. /\ UNCHANGED <<now, members, gone, epoch, store, up, held, plan>>
        /\ agent' = Disconnected(a, ended)
        /\ IF agent' = agent THEN UNCHANGED <<room, consents, syncDue, box>>
           ELSE BroadcastFor(a, agent', consents)
    BY DEF SocketCloses
  <1>2. late' \in [Agents -> BOOLEAN] /\ (ended = "bound" => ~up[a])
    <2>1. CASE ended = "bound"
      BY <2>1, EntryTypes DEF SocketCloses
    <2>2. CASE ended = "replaced"
      BY <2>2, EntryTypes DEF SocketCloses
    <2> QED
      BY <2>1, <2>2
  <1>3. CASE agent' = agent
    <2>1. Settled(a)' = Settled(a) /\ held'[a] \in LeasesOf(a) /\ box'[a].lease \in LeasesOf(a)
      BY <1>1, <1>3 DEF Settled, LeasesOf
    <2>2. InRoute(room, a) => /\ agent'[a].known /\ agent'[a].sock /\ ~agent'[a].draining
                              /\ agent'[a].fitness > 0 /\ agent'[a].seen \in {agent[a].seen, now}
      BY <1>3 DEF IInv, RouteIsEntitled
    <2> QED
      BY <1>1, <1>2, <1>3, <2>1, <2>2, EntryTypes, AgentStepKeeps
  <1>4. CASE agent' # agent
    <2>1. /\ ended = "bound" /\ BroadcastFor(a, agent', consents)
          /\ agent' = [agent EXCEPT ![a].sock = FALSE, ![a].seen = 0, ![a].draining = FALSE]
      BY <1>1, <1>4 DEF Disconnected
    <2>2. agent' \in [Agents -> Entry]
      <3> DEFINE e == [agent[a] EXCEPT !.sock = FALSE, !.seen = 0, !.draining = FALSE]
      <3>1. agent' = [agent EXCEPT ![a] = e]
        BY <2>1, EntryTypes
      <3>2. agent[a] \in Entry => e \in Entry
        BY DEF Entry
      <3> HIDE DEF e
      <3> QED
        BY <3>1, <3>2, EntryStep
    <2>3. \A b \in Agents \ {a} : agent'[b] = agent[b] /\ up'[b] = up[b]
      BY <1>1, <2>1, EntryTypes
    <2>4. \A b \in Agents : up'[b] => agent'[b].known /\ agent'[b].sock
      BY <1>1, <1>2, <2>1, <2>3, EntryTypes
    <2>5. Kept
      BY <1>1, <1>2, <2>2, <2>4, EntryTypes DEF Kept, IInv, TypeOK
    <2> QED
      BY <1>1, <2>1, <2>3, <2>5, OwnedConsents, BroadcastForKeeps
  <1> QED
    BY <1>3, <1>4

\* What an agent says of itself is broadcast where it matters.
LEMMA ReportKeeps ==
  ASSUME IInv, NEW a \in Agents, up[a], agent' \in [Agents -> Entry],
         UNCHANGED <<now, members, gone, epoch, store, up, held, late, plan>>,
         agent'[a].known = agent[a].known, agent'[a].sock = agent[a].sock,
         \A b \in Agents \ {a} : agent'[b] = agent[b],
         BroadcastFor(a, agent', consents)
  PROVE  IInv' /\ FailoverStep
  <1>1. \A b \in Agents : up'[b] => agent'[b].known /\ agent'[b].sock
    BY EntryTypes
  <1>2. Kept
    BY <1>1, EntryTypes DEF Kept, IInv, TypeOK
  <1> QED
    BY <1>2, OwnedConsents, BroadcastForKeeps

LEMMA SetCapabilityKeeps ==
  ASSUME IInv, NEW a \in Agents, NEW f \in Fitness \cup {0, DefaultFitness}, SetCapability(a, f)
  PROVE  IInv' /\ FailoverStep
  <1>1. /\ agent' = [agent EXCEPT ![a].fitness = f, ![a].peers = PeerLimit[a]] /\ up[a]
        /\ UNCHANGED <<now, members, gone, epoch, store, up, held, late, plan>>
        /\ BroadcastFor(a, agent', consents)
    BY DEF SetCapability
  <1>2. f \in Nat /\ PeerLimit[a] \in Nat
    BY ScoreAssumption, OwnerAssumption
  <1>3. agent[a] \in Entry /\ agent'[a] = [agent[a] EXCEPT !.fitness = f, !.peers = PeerLimit[a]]
        /\ \A b \in Agents \ {a} : agent'[b] = agent[b]
    BY <1>1, EntryTypes
  <1>4. agent'[a].known = agent[a].known /\ agent'[a].sock = agent[a].sock
    BY <1>3 DEF Entry
  <1>5. agent' \in [Agents -> Entry]
    BY <1>1, <1>2, EntryTypes DEF Entry
  <1> QED
    BY <1>1, <1>3, <1>4, <1>5, ReportKeeps

LEMMA SetDrainingKeeps ==
  ASSUME IInv, NEW a \in Agents, NEW enabled \in BOOLEAN, SetDraining(a, enabled)
  PROVE  IInv' /\ FailoverStep
  <1>1. /\ agent' = [agent EXCEPT ![a].draining = enabled, ![a].seen = now] /\ up[a]
        /\ UNCHANGED <<now, members, gone, epoch, store, up, held, late, plan>>
        /\ BroadcastFor(a, agent', consents)
    BY DEF SetDraining
  <1>3. agent[a] \in Entry /\ agent'[a] = [agent[a] EXCEPT !.draining = enabled, !.seen = now]
        /\ \A b \in Agents \ {a} : agent'[b] = agent[b]
    BY <1>1, EntryTypes
  <1>4. agent'[a].known = agent[a].known /\ agent'[a].sock = agent[a].sock
    BY <1>3 DEF Entry
  <1>5. agent' \in [Agents -> Entry]
    <2> DEFINE e == [agent[a] EXCEPT !.draining = enabled, !.seen = now]
    <2>1. agent' = [agent EXCEPT ![a] = e]
      BY <1>1, EntryTypes
    <2>2. agent[a] \in Entry => e \in Entry
      BY EntryTypes DEF Entry
    <2> HIDE DEF e
    <2> QED
      BY <2>1, <2>2, EntryStep
  <1> QED
    BY <1>1, <1>3, <1>4, <1>5, ReportKeeps

LEMMA HeartbeatKeeps ==
  ASSUME IInv, NEW a \in Agents, Heartbeat(a)
  PROVE  IInv' /\ FailoverStep
  <1>1. /\ agent' = [agent EXCEPT ![a].seen = now]
        /\ UNCHANGED <<now, members, gone, epoch, store, consents, room, syncDue, box, up, held, late, plan>>
    BY DEF Heartbeat
  <1>2. agent' \in [Agents -> Entry] /\ \A b \in Agents \ {a} : agent'[b] = agent[b]
    BY SMTT(60), <1>1, EntryTypes DEF Entry
  <1>3. agent[a] \in Entry /\ agent'[a] = [agent[a] EXCEPT !.seen = now]
    BY <1>1, EntryTypes
  <1>4. /\ agent'[a].known = agent[a].known /\ agent'[a].sock = agent[a].sock /\ agent'[a].seen = now
        /\ agent'[a].draining = agent[a].draining /\ agent'[a].fitness = agent[a].fitness
    BY <1>3 DEF Entry
  <1>5. Settled(a)' = Settled(a) /\ held'[a] \in LeasesOf(a) /\ box'[a].lease \in LeasesOf(a)
    BY <1>1 DEF Settled, LeasesOf
  <1>6. InRoute(room, a) => /\ agent'[a].known /\ agent'[a].sock /\ ~agent'[a].draining
                            /\ agent'[a].fitness > 0 /\ agent'[a].seen \in {agent[a].seen, now}
    BY <1>4 DEF IInv, RouteIsEntitled
  <1> QED
    BY <1>1, <1>2, <1>4, <1>5, <1>6, EntryTypes, AgentStepKeeps

LEMMA ApplySyncKeeps ==
  ASSUME IInv, NEW a \in Agents, ApplySync(a)
  PROVE  IInv' /\ FailoverStep
  <1> DEFINE l == box[a].lease
  <1>1. /\ box' = [box EXCEPT ![a] = NoBox] /\ box[a].has
        /\ IF ValidLease(a, l) THEN held' = [held EXCEPT ![a] = l] /\ up' = up
           ELSE up' = [up EXCEPT ![a] = FALSE] /\ held' = held
        /\ UNCHANGED <<now, members, gone, epoch, store, agent, consents, room, syncDue, late, plan>>
    BY DEF ApplySync
  <1>2. /\ box' \in [Agents -> [has : BOOLEAN, lease : Lease]] /\ box'[a] = NoBox
        /\ \A b \in Agents \ {a} : box'[b] = box[b]
    BY <1>1, EntryTypes
  <1>3. l \in Lease /\ l \in LeasesOf(a) /\ box'[a].lease = NoLease /\ ~box'[a].has
    BY <1>2, EntryTypes DEF LeasesOf
  <1>4. InRoute(room, a) => /\ agent'[a].known /\ agent'[a].sock /\ ~agent'[a].draining
                            /\ agent'[a].fitness > 0 /\ agent'[a].seen \in {agent[a].seen, now}
    BY <1>1 DEF IInv, RouteIsEntitled
  <1>5. CASE ValidLease(a, l)
    <2>1. held' = [held EXCEPT ![a] = l] /\ up' = up
      BY <1>1, <1>5
    <2>2. held' \in [Agents -> Lease] /\ held'[a] = l /\ \A b \in Agents \ {a} : held'[b] = held[b]
      BY <1>3, <2>1, EntryTypes
    <2>3. Settled(a)' = Settled(a)
      BY <1>1, <1>3, <2>2 DEF Settled
    <2> QED
      BY <1>1, <1>2, <1>3, <1>4, <2>1, <2>2, <2>3, EntryTypes, AgentStepKeeps
  <1>6. CASE ~ValidLease(a, l)
    <2>1. up' = [up EXCEPT ![a] = FALSE] /\ held' = held
      BY <1>1, <1>6
    <2>2. up' \in [Agents -> BOOLEAN] /\ ~up'[a] /\ \A b \in Agents \ {a} : up'[b] = up[b]
      BY <2>1, EntryTypes
    <2>3. held'[a] \in LeasesOf(a)
      BY <2>1 DEF LeasesOf
    <2> QED
      BY <1>1, <1>2, <1>3, <1>4, <2>1, <2>2, <2>3, EntryTypes, AgentStepKeeps
  <1> QED
    BY <1>5, <1>6

LEMMA SetAgentPeerStateKeeps ==
  ASSUME IInv, NEW a \in Agents, NEW p \in Peers, NEW connected \in BOOLEAN, SetAgentPeerState(a, p, connected)
  PROVE  IInv' /\ FailoverStep
  <1> DEFINE B == IF connected THEN room.agentReady \cup {<<a, p>>} ELSE room.agentReady \ {<<a, p>>}
  <1>1. /\ UNCHANGED <<now, members, gone, epoch, store, agent, up, held, late, plan>>
        /\ Broadcast(agent, consents, [room EXCEPT !.agentReady = B], members, epoch)
    BY DEF SetAgentPeerState
  <1>2. B \in SUBSET (Agents \X Peers)
    BY DEF IInv, TypeOK, Room
  <1> HIDE DEF B
  <1>3. Given([room EXCEPT !.agentReady = B])
    BY <1>2, ReadyIsGiven
  <1> QED
    BY <1>1, <1>3, OwnedConsents, StayBroadcastKeeps

LEMMA SetFederationStateKeeps ==
  ASSUME IInv, NEW a \in Agents, NEW connected \in BOOLEAN, NEW l \in held[a].links,
         SetFederationState(a, l, connected)
  PROVE  IInv' /\ FailoverStep
  <1> DEFINE B == IF connected THEN room.linkReady \cup {<<l, a>>} ELSE room.linkReady \ {<<l, a>>}
  <1>1. /\ UNCHANGED <<now, members, gone, epoch, store, agent, up, held, late, plan>>
        /\ Broadcast(agent, consents, [room EXCEPT !.linkReady = B], members, epoch)
    BY DEF SetFederationState
  <1>2. l \in SUBSET Id
    <2>1. held[a] \in Lease
      BY EntryTypes
    <2> QED
      BY <2>1 DEF Lease
  <1>3. B \in SUBSET ((SUBSET Id) \X Agents)
    BY <1>2 DEF IInv, TypeOK, Room
  <1> HIDE DEF B
  <1>4. Given([room EXCEPT !.linkReady = B])
    BY <1>3, ReadyIsGiven
  <1> QED
    BY <1>1, <1>4, OwnedConsents, StayBroadcastKeeps

LEMMA SetAgentSubscriptionStateKeeps ==
  ASSUME IInv, NEW a \in Agents, NEW ready \in BOOLEAN, NEW s \in held[a].plans,
         SetAgentSubscriptionState(a, s, ready)
  PROVE  IInv' /\ FailoverStep
  <1> DEFINE A == {t \in room.applied : <<t.sub, t.pub>> # <<s.sub, s.pub>>} \cup (IF ready THEN {s} ELSE {})
  <1>1. /\ room' = [room EXCEPT !.applied = A]
        /\ UNCHANGED <<now, members, gone, epoch, store, agent, consents, syncDue, box, up, held, late, plan>>
        /\ s \in room.plans /\ (ready => s.enabled)
    BY DEF SetAgentSubscriptionState, Applies
  <1>2. members # {} /\ A \in SUBSET Subscription
    BY <1>1, PlansTypes
  <1>3. \A t \in A : t \in room.plans /\ t.enabled
    BY <1>1, RoomFits DEF PlansFit
  <1>4. \A t \in room.plans : t.agent = AgentOf(room, t.sub)
    BY RoomFits DEF PlansFit
  <1> HIDE DEF A
  <1>5. room' = [room EXCEPT !.revision = room.revision, !.plans = room.plans, !.applied = A]
    BY <1>1, PlansTypes DEF Room
  <1>6. Replanned
    BY <1>2, <1>3, <1>4, <1>5, PlansTypes, Replans
  <1> QED
    BY <1>1, <1>6, EntryTypes, ReplannedQuiet

-----------------------------------------------------------------------------
(* The clock *)

LEMMA TickKeeps ==
  ASSUME IInv, Tick
  PROVE  IInv' /\ FailoverStep
  <1>1. /\ now' = now + 1 /\ (members # {} => room.lease = now + LeaseTime)
        /\ held' = [a \in Agents |-> IF held[a].expires > now' THEN held[a] ELSE NoLease]
        /\ UNCHANGED <<members, gone, epoch, store, agent, consents, room, syncDue, box, up, late, plan>>
    BY DEF Tick
  <1>2. now \in Nat /\ now' \in Nat /\ LeaseTime \in Nat /\ LeaseTime > 1
    BY <1>1, EntryTypes, SizeAssumption
  <1>3. /\ held' \in [Agents -> Lease]
        /\ \A a \in Agents : held'[a] = IF held[a].expires > now' THEN held[a] ELSE NoLease
    BY <1>1, EntryTypes, NoLeaseFacts
  <1>4. TypeOK'
    BY <1>1, <1>2, <1>3 DEF IInv, TypeOK
  <1>5. Open'
    <2>1. now + LeaseTime = now' + LeaseTime - 1
      BY <1>1, <1>2
    <2> QED
      BY <1>1, <2>1 DEF IInv, Open
  <1>6. Owned' /\ Planned' /\ AppliedPlansAreCurrent'
    BY <1>1 DEF IInv, Owned, Planned, AppliedPlansAreCurrent, AgentOf
  <1>7. Covers(room, members)'
    BY <1>1 DEF IInv, Covers, Forwarders, AgentOf
  <1>8. \A a \in Agents : InRoute(room, a) => members # {}
    BY RoomFits, NoRouteInNoRoom
  <1>9. RouteIsEntitled'
    <2>1. ASSUME NEW a \in Agents, InRoute(room', a)
          PROVE  /\ agent'[a].known /\ agent'[a].sock /\ ~agent'[a].draining /\ agent'[a].fitness > 0
                 /\ Cardinality(members') >= MinParticipants
                 /\ \E i \in DOMAIN consents' : consents'[i].agent = a
                                                /\ OwnerOf[a] = PrincipalOf[consents'[i].peer]
                 /\ room'.lease # now' + LeaseTime
      <3>1. InRoute(room, a) /\ members # {}
        BY <1>1, <1>8, <2>1
      <3>2. now + LeaseTime # now' + LeaseTime
        BY <1>1, <1>2
      <3>3. room'.lease = now + LeaseTime
        BY <1>1, <3>1
      <3> QED
        BY <1>1, <3>1, <3>2, <3>3 DEF IInv, RouteIsEntitled
    <2> QED
      BY <2>1 DEF RouteIsEntitled, InRoute
  <1>10. Dated' /\ Apart'
    <2>1. \A a \in Agents : held'[a] \in LeasesOf(a) \cup {NoLease} /\ box'[a].lease \in LeasesOf(a) \cup {NoLease}
      BY <1>1, <1>3 DEF LeasesOf
    <2> QED
      BY <1>1, <2>1, QuietKeeps
  <1>11. Synced'
    <2>1. ASSUME NEW a \in Agents, up[a]
          PROVE  Settled(a)' = Settled(a)
      <3>1. CASE box[a].has
        BY <1>1, <3>1 DEF Settled
      <3>2. CASE ~box[a].has
        <4>1. /\ Settled(a) = held[a] /\ Settled(a)' = held'[a]
              /\ IF InRoute(room, a) THEN held[a].expires = room.lease ELSE held[a] = NoLease
          BY <1>1, <2>1, <3>2 DEF IInv, Synced, Settled
        <4>2. CASE InRoute(room, a)
          <5>1. held[a].expires = now + LeaseTime
            BY <1>1, <1>8, <4>1, <4>2
          <5>2. held[a].expires > now'
            BY <1>1, <1>2, <5>1
          <5> QED
            BY <1>3, <4>1, <5>2
        <4>3. CASE ~InRoute(room, a)
          BY <1>3, <4>1, <4>3
        <4> QED
          BY <4>2, <4>3
      <3> QED
        BY <3>1, <3>2
    <2>2. Synced' <=> \A b \in Agents : up'[b] =>
            /\ agent'[b].known /\ agent'[b].sock
            /\ IF InRoute(room', b)
               THEN Settled(b)'.route = room'.route /\ Settled(b)'.expires = room'.lease
               ELSE Settled(b)' = NoLease
      BY DEF Synced, InRoute
    <2> QED
      BY <1>1, <2>1, <2>2 DEF IInv, Synced
  <1> QED
    BY <1>1, <1>4, <1>5, <1>6, <1>7, <1>9, <1>10, <1>11 DEF IInv, FailoverStep

LEMMA RenewKeeps ==
  ASSUME IInv, Renew
  PROVE  IInv' /\ FailoverStep
  BY RoomFits, OwnedConsents, StayBroadcastKeeps DEF Renew

-----------------------------------------------------------------------------
(***************************************************************************)
(* Theorems                                                                *)
(***************************************************************************)
LEMMA InitInvariant == Init => IInv
  <1> SUFFICES ASSUME Init PROVE IInv
    OBVIOUS
  <1>1. /\ now = 0 /\ members = {} /\ gone = {} /\ epoch = 0 /\ plan \in Plans
        /\ store = [a \in Agents |-> [st |-> IF a \in Enrolled THEN "none" ELSE "configured", expires |-> 0]]
        /\ agent = [a \in Agents |-> IF a \in Enrolled THEN Unknown ELSE NewAgent]
        /\ consents = <<>> /\ room = NoRoom /\ syncDue = FALSE /\ box = [a \in Agents |-> NoBox]
        /\ up = [a \in Agents |-> FALSE] /\ held = [a \in Agents |-> NoLease]
        /\ late = [a \in Agents |-> FALSE]
    BY DEF Init
  <1>2. TypeOK
    <2>1. NewAgent \in Entry
      BY ScoreAssumption DEF NewAgent, Entry
    <2>2. Unknown \in Entry
      BY <2>1 DEF Unknown, Entry
    <2>3. agent \in [Agents -> Entry]
      BY <1>1, <2>1, <2>2
    <2>4. store \in [Agents -> Row]
      BY <1>1 DEF Row
    <2>5. NoBox \in [has : BOOLEAN, lease : Lease]
      BY NoLeaseFacts DEF NoBox
    <2>6. box \in [Agents -> [has : BOOLEAN, lease : Lease]] /\ held \in [Agents -> Lease]
      BY <1>1, <2>5, NoLeaseFacts
    <2>7. up \in [Agents -> BOOLEAN] /\ late \in [Agents -> BOOLEAN]
      BY <1>1
    <2>8. <<>> \in Seq(Consent)
      OBVIOUS
    <2>9. consents \in Seq(Consent) /\ room \in Room /\ IsFiniteSet(members)
      BY <1>1, <2>8, NoRoomType, FS_EmptySet
    <2> QED
      BY <1>1, <2>3, <2>4, <2>6, <2>7, <2>9 DEF TypeOK
  <1>3. NoRoom.plans = {} /\ NoRoom.applied = {} /\ NoRoom.primary = 0
    BY DEF NoRoom
  <1>4. Open /\ Owned
    BY <1>1 DEF Open, Owned
  <1>5. RouteIsEntitled
    BY <1>1, NoRouteInNoRoom DEF RouteIsEntitled
  <1>6. Covers(room, members) /\ Planned /\ AppliedPlansAreCurrent
    BY <1>1, <1>3 DEF Covers, Planned, AppliedPlansAreCurrent
  <1>7. \A a \in Agents : \A l \in LeasesOf(a) : l = NoLease
    BY <1>1 DEF LeasesOf, NoBox
  <1>8. Dated
    BY <1>7, NoLeaseFacts DEF Dated
  <1>9. Apart
    <2>1. ASSUME NEW a \in Agents, NEW b \in Agents, NEW l \in LeasesOf(a), NEW k \in LeasesOf(b)
          PROVE  l.peers \cap k.peers = {}
      <3>1. l = NoLease
        BY <1>7
      <3> QED
        BY <3>1, NoLeaseFacts
    <2> QED
      BY <2>1 DEF Apart
  <1>10. Synced
    BY <1>1 DEF Synced
  <1> QED
    BY <1>2, <1>4, <1>5, <1>6, <1>8, <1>9, <1>10 DEF IInv

LEMMA StutterKeeps == IInv /\ UNCHANGED vars => IInv'
  <1> SUFFICES ASSUME IInv, UNCHANGED vars PROVE IInv'
    OBVIOUS
  <1>1. UNCHANGED <<now, members, gone, epoch, store, agent, consents, room, syncDue, box, up, held, late, plan>>
    BY DEF vars
  <1>2. TypeOK' /\ Open' /\ Owned'
    BY <1>1 DEF IInv, TypeOK, Open, Owned
  <1>3. RouteIsEntitled'
    BY <1>1 DEF IInv, RouteIsEntitled, InRoute
  <1>a. Covers(room, members)'
    BY <1>1 DEF IInv, Covers, Forwarders, AgentOf
  <1>b. Planned' /\ AppliedPlansAreCurrent'
    BY <1>1 DEF IInv, Planned, AppliedPlansAreCurrent, AgentOf
  <1>4. Dated' /\ Apart' /\ Synced'
    BY <1>1 DEF IInv, Dated, Apart, Synced, Settled, LeasesOf, InRoute
  <1> QED
    BY <1>2, <1>3, <1>a, <1>b, <1>4 DEF IInv

LEMMA NextInvariant == IInv /\ [Next]_vars => IInv' /\ (FailoverStep \/ UNCHANGED vars)
  <1> SUFFICES ASSUME IInv, [Next]_vars PROVE IInv' /\ (FailoverStep \/ UNCHANGED vars)
    OBVIOUS
  <1>1. CASE MemberNext
    BY <1>1, JoinKeeps, LeaveKeeps, SetConsentKeeps, RespondToTakeoverKeeps, SetBrowserPeerStateKeeps,
       SetSubscriptionIntentKeeps, RevokeSubscriptionKeeps, RemovePublisherSourceKeeps DEF MemberNext
  <1>2. CASE AgentNext
    BY <1>2, CreateEnrollmentKeeps, EnrollKeeps, RevokeKeeps, AuthenticateKeeps, ConnectionLostKeeps,
       AgentCrashKeeps, HeartbeatKeeps, ApplySyncKeeps, SocketClosesKeeps, SetCapabilityKeeps,
       SetDrainingKeeps, SetAgentPeerStateKeeps, SetFederationStateKeeps,
       SetAgentSubscriptionStateKeeps DEF AgentNext
  <1>3. CASE SyncTimer \/ Tick \/ Renew \/ ServerRestart
    BY <1>3, SyncTimerKeeps, TickKeeps, RenewKeeps, ServerRestartKeeps
  <1>4. CASE UNCHANGED vars
    BY <1>4, StutterKeeps
  <1> QED
    BY <1>1, <1>2, <1>3, <1>4 DEF Next

\* The inductive invariant holds for any agents, peers, owners, limits and
\* plans of what may happen.
THEOREM AgentsInvariant == Spec => []IInv
  BY InitInvariant, NextInvariant, PTL DEF Spec

\* The registry, the room and the leases of the native agents keep their types.
THEOREM AgentTypes == Spec => []TypeOK
  <1>1. IInv => TypeOK
    BY DEF IInv
  <1> QED
    BY <1>1, AgentsInvariant, PTL

\* Every agent in the route is connected, registered, fit, consented to by a
\* member who owns it and heard of within the lease.
THEOREM RoutesAreEntitled == Spec => []RouteIsEntitled
  <1>1. IInv => RouteIsEntitled
    BY DEF IInv
  <1> QED
    BY <1>1, AgentsInvariant, PTL

\* No member is served by two native agents as primary of one route.
THEOREM PrimaryIsUnique == Spec => []OnePrimaryPerRoute
  <1>1. IInv => OnePrimaryPerRoute
    BY DEF IInv, Apart, LeasesOf, OnePrimaryPerRoute
  <1> QED
    BY <1>1, AgentsInvariant, PTL

\* What a member publishes reaches the agent of every other member.
THEOREM PublishersReachAll == Spec => []FederationReaches
  <1>1. IInv => FederationReaches
    <2> SUFFICES ASSUME IInv PROVE FederationReaches
      OBVIOUS
    <2>1. room \in Room /\ Covers(room, members)
      BY DEF IInv, TypeOK
    <2> QED
      BY <2>1, CoveredIsReached DEF FederationReaches
  <1> QED
    BY <1>1, AgentsInvariant, PTL

\* The heartbeat of a connected agent whose syncs have arrived is accepted.
THEOREM AgentsAreRecognised == Spec => []SettledAgentsAreRecognised
  <1>1. IInv => SettledAgentsAreRecognised
    <2> SUFFICES ASSUME IInv, NEW a \in Agents, up[a], ~box[a].has
                 PROVE  agent[a].known /\ agent[a].sock /\ Reported(a) = Expected(a)
      BY DEF SettledAgentsAreRecognised
    <2>1. /\ agent[a].known /\ agent[a].sock
          /\ IF InRoute(room, a) THEN held[a].route = room.route /\ held[a].expires = room.lease
             ELSE held[a] = NoLease
      BY DEF IInv, Synced, Settled
    <2>2. now \in Nat /\ LeaseTime \in Nat /\ LeaseTime > 1
      BY EntryTypes, SizeAssumption
    <2>3. CASE InRoute(room, a)
      <3>1. room.lease \in {now + LeaseTime - 1, now + LeaseTime}
        BY <2>3, RoomFits, NoRouteInNoRoom DEF IInv, Open
      <3>2. held[a].expires > now
        BY <2>1, <2>2, <2>3, <3>1
      <3> QED
        BY <2>1, <2>3, <3>2 DEF Reported, Expected
    <2>4. CASE ~InRoute(room, a)
      <3>1. ~(held[a].expires > now)
        BY <2>1, <2>2, <2>4, NoLeaseFacts
      <3> QED
        BY <2>1, <2>4, <3>1 DEF Reported, Expected
    <2> QED
      BY <2>3, <2>4, <2>1
  <1> QED
    BY <1>1, AgentsInvariant, PTL

\* What counts as forwarded is the newest plan of the subscriber.
THEOREM PlansAreCurrent == Spec => []AppliedPlansAreCurrent
  <1>1. IInv => AppliedPlansAreCurrent
    BY DEF IInv
  <1> QED
    BY <1>1, AgentsInvariant, PTL
\* After the loss of a primary an agent takes its place only with its owner's
\* consent to automatic takeover or an approval that has not run out.
THEOREM FailoverIsAsked == Spec => FailoverAsks
  <1>1. IInv /\ [Next]_vars => [FailoverStep]_vars
    BY NextInvariant
  <1>2. FailoverAsks <=> [][FailoverStep]_vars
    BY PTL DEF FailoverAsks, FailoverStep
  <1> QED
    BY <1>1, <1>2, AgentsInvariant, PTL DEF Spec
=============================================================================
