----------------------- MODULE BroadcastGrantsProofs -----------------------
(***************************************************************************)
(* Proofs about BroadcastGrants, for any number of grants, programs, keys  *)
(* and concurrent verifications.                                           *)
(***************************************************************************)
EXTENDS BroadcastGrants, FiniteSetTheorems, TLAPS

\* The active key is enabled, and no unissued or spent single-use grant is
\* acceptable: with the two invariants the runs check, this is inductive.
ActiveKeyEnabled == keys[activeKid] = "enabled"

UsesMatchStatus ==
  \A g \in GrantIds :
    /\ grants[g].status \in Unissued => uses[g] = 0
    /\ grants[g].singleUse = "yes" =>
         uses[g] = 0 \/ (uses[g] = 1 /\ grants[g].status \notin {"issued"} \cup Unissued)

GInv == TypeOK /\ ActiveKeyEnabled /\ IssuedGrantsAreBacked /\ UsesMatchStatus

\* How a grant may change when nothing is issued or accepted: it keeps its
\* bindings, and its status stays, is cancelled, or leaves "issued" for good.
Fades(old, new) ==
  /\ new \in Grant
  /\ new.program = old.program /\ new.epoch = old.epoch
  /\ new.kid = old.kid /\ new.singleUse = old.singleUse
  /\ \/ new.status = old.status
     \/ old.status \in {"pending", "cancelled"} /\ new.status \in {"cancelled", "refused"}
     \/ old.status \in Recorded /\ new.status \in {"consumed", "revoked", "expired", "gone"}

LEMMA TransitionFades ==
  ASSUME NEW grant \in Grant, NEW to \in {"consumed", "revoked", "expired"}
  PROVE  /\ Fades(grant, Transition(grant, to))
         /\ Fades(grant, grant)
         /\ Transition(grant, to).status # "issued"
  BY DEF Transition, Grant, Statuses, Unissued, Recorded, Fades

LEMMA PruneFades ==
  ASSUME TypeOK, NEW g \in GrantIds
  PROVE  Fades(grants[g], PruneGrant(grants[g]))
  <1>1. grants[g] \in Grant
    BY DEF TypeOK
  <1> QED
    BY <1>1 DEF PruneGrant, Transition, Grant, Statuses, Unissued, Recorded, Fades

\* What fading grants preserve when no epoch is revoked and no key changes.
LEMMA FadingKeepsBacking ==
  ASSUME IssuedGrantsAreBacked, NEW g \in GrantIds, Fades(grants[g], grants'[g]),
         revokedEpochs' = revokedEpochs, keys' = keys, activeKid' = activeKid
  PROVE  grants'[g].status = "issued" =>
           /\ <<grants'[g].program, grants'[g].epoch>> \notin revokedEpochs'
           /\ grants'[g].kid = activeKid'
           /\ keys'[activeKid'] = "enabled"
  BY DEF Fades, IssuedGrantsAreBacked, Recorded

LEMMA FadingKeepsUses ==
  ASSUME UsesMatchStatus, NEW g \in GrantIds, Fades(grants[g], grants'[g]), uses'[g] = uses[g]
  PROVE  /\ grants'[g].status \in Unissued => uses'[g] = 0
         /\ grants'[g].singleUse = "yes" =>
              uses'[g] = 0 \/ (uses'[g] = 1 /\ grants'[g].status \notin {"issued"} \cup Unissued)
  BY DEF Fades, UsesMatchStatus, Recorded, Unissued

\* Steps in which every grant fades, nothing is accepted and no key changes.
LEMMA QuietFading ==
  ASSUME GInv, grants' \in [GrantIds -> Grant],
         \A g \in GrantIds : Fades(grants[g], grants'[g]),
         UNCHANGED <<keys, activeKid, revokedEpochs, verifying, uses>>, now' \in Nat
  PROVE  GInv'
  <1>1. TypeOK'
    BY DEF GInv, TypeOK
  <1>2. IssuedGrantsAreBacked'
    BY FadingKeepsBacking DEF GInv, IssuedGrantsAreBacked
  <1>3. UsesMatchStatus'
    BY FadingKeepsUses DEF GInv, UsesMatchStatus
  <1> QED
    BY <1>1, <1>2, <1>3 DEF GInv, ActiveKeyEnabled

LEMMA IssueInv ==
  ASSUME GInv, NEW g \in GrantIds, NEW s \in Subjects, NEW p \in Programs, NEW e \in Epochs,
         NEW u \in {"yes", "no"}, NEW life \in 1..Ttl, IssueBegin(g, s, p, e, u, life)
  PROVE  GInv'
  <1> DEFINE new == [status |-> "pending", subject |-> s, program |-> p, epoch |-> e,
                     kid |-> activeKid, singleUse |-> u, expiresAt |-> now + life]
  <1>0. TypeOK /\ uses \in [GrantIds -> Nat] /\ uses' = uses
    BY DEF GInv, TypeOK, IssueBegin
  <1>1. now + life \in Nat
    BY <1>0, GrantConstants DEF TypeOK
  <1>2. new \in Grant
    BY <1>0, <1>1 DEF Grant, Statuses, Unissued, TypeOK
  <1>3. \A h \in GrantIds : Fades(grants[h], PruneGrant(grants[h]))
    BY <1>0, PruneFades
  <1>4. /\ grants' = [h \in GrantIds |-> IF h = g THEN new ELSE PruneGrant(grants[h])]
        /\ new.status = "pending" /\ uses[g] = 0
    BY DEF IssueBegin, Pruned, GInv, UsesMatchStatus, Unissued
  <1>5. grants' \in [GrantIds -> Grant]
    BY <1>2, <1>3, <1>4 DEF Fades
  <1> HIDE DEF new
  <1>6. \A h \in GrantIds \ {g} : Fades(grants[h], grants'[h])
    BY <1>3, <1>4
  <1>7. grants'[g] = new
    BY <1>4
  <1>8. UNCHANGED <<keys, activeKid, revokedEpochs, verifying, uses, now>>
    BY DEF IssueBegin
  <1>9. TypeOK'
    BY <1>0, <1>5, <1>8 DEF TypeOK
  <1>10. IssuedGrantsAreBacked'
    BY <1>4, <1>6, <1>7, <1>8, FadingKeepsBacking DEF GInv, IssuedGrantsAreBacked
  <1>11. UsesMatchStatus'
    BY <1>4, <1>6, <1>7, <1>8, FadingKeepsUses DEF GInv, UsesMatchStatus
  <1> QED
    BY <1>8, <1>9, <1>10, <1>11 DEF GInv, ActiveKeyEnabled

LEMMA SettleInv ==
  ASSUME GInv, NEW g \in GrantIds, NEW o \in Outcomes, SignSettle(g, o)
  PROVE  GInv'
  <1>0. /\ TypeOK /\ grants[g] \in Grant
        /\ UNCHANGED <<keys, activeKid, revokedEpochs, verifying, uses, now>>
    BY DEF GInv, TypeOK, SignSettle
  <1>1. CASE o = "signed" /\ StillWanted(g)
    <2>1. grants' = [grants EXCEPT ![g].status = "issued"]
      BY <1>1 DEF SignSettle
    <2>2. TypeOK'
      BY <1>0, <2>1 DEF TypeOK, Grant, Statuses, Recorded
    <2>3. IssuedGrantsAreBacked'
      BY <1>0, <1>1, <2>1 DEF GInv, TypeOK, IssuedGrantsAreBacked, StillWanted, Grant
    <2>4. UsesMatchStatus'
      BY <1>0, <2>1 DEF GInv, TypeOK, UsesMatchStatus, SignSettle, Unissued, Grant
    <2> QED
      BY <1>0, <2>2, <2>3, <2>4 DEF GInv, ActiveKeyEnabled
  <1>2. CASE ~(o = "signed" /\ StillWanted(g))
    <2>1. grants' = [grants EXCEPT ![g].status = "refused"]
      BY <1>2 DEF SignSettle
    <2>2. \A h \in GrantIds : Fades(grants[h], grants'[h])
      BY SMTT(60), <1>0, <2>1 DEF TypeOK, SignSettle, Fades, Grant, Statuses, Unissued
    <2>3. grants' \in [GrantIds -> Grant]
      BY <1>0, <2>1 DEF TypeOK, Grant, Statuses, Unissued
    <2> QED
      BY <1>0, <2>2, <2>3, QuietFading DEF TypeOK
  <1> QED
    BY <1>1, <1>2

LEMMA BearerSettleInv ==
  ASSUME GInv, NEW r \in Requests, BearerSettle(r)
  PROVE  GInv'
  <1> DEFINE g == verifying[r].grant
  <1>0. /\ TypeOK /\ verifying[r] \in Verification /\ g \in GrantIds /\ grants[g] \in Grant
        /\ UNCHANGED <<keys, activeKid, revokedEpochs, now>>
    BY DEF GInv, TypeOK, BearerSettle, Verification
  <1>1. verifying' \in [Requests -> Verification \cup {Idle}]
    BY <1>0 DEF TypeOK, BearerSettle
  <1>2. CASE ~Usable(verifying[r])
    <2>1. grants' = grants /\ uses' = uses
      BY <1>2 DEF BearerSettle
    <2> QED
      BY <1>0, <1>1, <2>1 DEF GInv, TypeOK, ActiveKeyEnabled, IssuedGrantsAreBacked, UsesMatchStatus
  <1>3. CASE Usable(verifying[r])
    <2>1. /\ uses' = [uses EXCEPT ![g] = @ + 1]
          /\ grants' = IF grants[g].singleUse = "yes"
                       THEN [grants EXCEPT ![g] = Transition(@, "consumed")] ELSE grants
      BY <1>3 DEF BearerSettle
    <2>2. grants[g].status = "issued"
      BY <1>3 DEF Usable
    <2>3. \A h \in GrantIds : Fades(grants[h], grants'[h])
      BY <1>0, <2>1, TransitionFades DEF TypeOK
    <2>4. grants' \in [GrantIds -> Grant]
      BY <1>0, <2>1, TransitionFades DEF TypeOK, Fades
    <2>5. TypeOK'
      BY <1>0, <1>1, <2>1, <2>4 DEF TypeOK
    <2>6. IssuedGrantsAreBacked'
      BY <1>0, <2>3, FadingKeepsBacking DEF GInv, IssuedGrantsAreBacked
    <2>7. UsesMatchStatus'
      <3> SUFFICES ASSUME NEW h \in GrantIds
                   PROVE  /\ grants'[h].status \in Unissued => uses'[h] = 0
                          /\ grants'[h].singleUse = "yes" =>
                               uses'[h] = 0 \/ (uses'[h] = 1 /\ grants'[h].status \notin {"issued"} \cup Unissued)
        BY DEF UsesMatchStatus
      <3>1. CASE h # g
        <4>1. uses'[h] = uses[h]
          BY <1>0, <2>1, <3>1 DEF TypeOK
        <4> QED
          BY <2>3, <4>1, FadingKeepsUses DEF GInv
      <3>2. CASE h = g /\ grants[g].singleUse = "yes"
        <4>1. grants'[g] = Transition(grants[g], "consumed")
          BY <1>0, <2>1, <3>2 DEF TypeOK
        <4>2. grants'[g].status = "consumed"
          BY <1>0, <2>2, <4>1 DEF Transition, Grant
        <4>3. uses[g] = 0
          BY <1>0, <2>2, <3>2 DEF GInv, UsesMatchStatus
        <4>4. uses'[g] = 1
          BY <1>0, <2>1, <4>3 DEF TypeOK
        <4> QED
          BY <3>2, <4>2, <4>4 DEF Unissued
      <3>3. CASE h = g /\ grants[g].singleUse # "yes"
        BY <1>0, <2>1, <2>2, <3>3 DEF Unissued
      <3> QED
        BY <3>1, <3>2, <3>3
    <2> QED
      BY <1>0, <2>5, <2>6, <2>7 DEF GInv, ActiveKeyEnabled
  <1> QED
    BY <1>2, <1>3

LEMMA RevokeGrantInv ==
  ASSUME GInv, NEW g \in GrantIds, RevokeGrant(g)
  PROVE  GInv'
  <1>0. TypeOK /\ grants[g] \in Grant
    BY DEF GInv, TypeOK
  <1>1. \A h \in GrantIds : Fades(grants[h], grants'[h])
    <2>1. CASE grants[g].status = "pending"
      <3>1. grants' = [grants EXCEPT ![g].status = "cancelled"]
        BY <1>0, <2>1 DEF RevokeGrant, TypeOK
      <3> QED
        BY <1>0, <2>1, <3>1 DEF TypeOK, Fades, Grant, Statuses, Unissued
    <2>2. CASE grants[g].status # "pending"
      <3>1. grants' = [grants EXCEPT ![g] = Transition(grants[g], "revoked")]
        BY <2>2 DEF RevokeGrant
      <3> QED
        BY <1>0, <3>1, TransitionFades DEF TypeOK
    <2> QED
      BY <2>1, <2>2
  <1>2. grants' \in [GrantIds -> Grant]
    BY <1>0, <1>1 DEF RevokeGrant, TypeOK, Fades
  <1> QED
    BY <1>0, <1>1, <1>2, QuietFading DEF RevokeGrant, TypeOK

\* Revocation by epoch, rotation and disabling change what a grant must be
\* backed by, and revoke every grant that would lose its backing.
LEMMA RevokeEpochInv ==
  ASSUME GInv, NEW p \in Programs, NEW e \in Epochs, RevokeProgramEpoch(p, e)
  PROVE  GInv'
  <1>0. /\ TypeOK /\ \A g \in GrantIds : grants[g] \in Grant
        /\ UNCHANGED <<keys, activeKid, verifying, uses, now>>
        /\ revokedEpochs' = revokedEpochs \cup {<<p, e>>}
    BY DEF GInv, TypeOK, RevokeProgramEpoch
  <1>1. \A g \in GrantIds : grants'[g] =
          IF grants[g].program = p /\ grants[g].epoch = e
          THEN Transition(grants[g], "revoked") ELSE grants[g]
    BY DEF RevokeProgramEpoch
  <1>2. \A g \in GrantIds : Fades(grants[g], grants'[g])
    BY <1>0, <1>1, TransitionFades
  <1>3. grants' \in [GrantIds -> Grant]
    BY <1>2 DEF RevokeProgramEpoch, Fades
  <1>4. TypeOK'
    BY <1>0, <1>3 DEF TypeOK
  <1>5. IssuedGrantsAreBacked'
    <2> SUFFICES ASSUME NEW g \in GrantIds, grants'[g].status = "issued"
                 PROVE  /\ <<grants'[g].program, grants'[g].epoch>> \notin revokedEpochs'
                        /\ grants'[g].kid = activeKid'
                        /\ keys'[activeKid'] = "enabled"
      BY DEF IssuedGrantsAreBacked
    <2>1. ~(grants[g].program = p /\ grants[g].epoch = e)
      BY <1>0, <1>1, TransitionFades
    <2> QED
      BY <1>0, <1>1, <2>1 DEF GInv, IssuedGrantsAreBacked
  <1>6. UsesMatchStatus'
    BY <1>0, <1>2, FadingKeepsUses DEF GInv, UsesMatchStatus
  <1> QED
    BY <1>0, <1>4, <1>5, <1>6 DEF GInv, ActiveKeyEnabled

LEMMA RotateInv ==
  ASSUME GInv, NEW k \in Kids, RotateSigningKey(k)
  PROVE  GInv'
  <1>0. /\ TypeOK /\ \A g \in GrantIds : grants[g] \in Grant
        /\ UNCHANGED <<revokedEpochs, verifying, uses, now>>
        /\ activeKid' = k /\ keys' = [keys EXCEPT ![k] = "enabled"]
        /\ \A g \in GrantIds : grants'[g] = Transition(grants[g], "revoked")
    BY DEF GInv, TypeOK, RotateSigningKey
  <1>1. \A g \in GrantIds : Fades(grants[g], grants'[g]) /\ grants'[g].status # "issued"
    BY <1>0, TransitionFades
  <1>2. grants' \in [GrantIds -> Grant]
    BY <1>1 DEF RotateSigningKey, Fades
  <1>3. TypeOK' /\ ActiveKeyEnabled'
    BY <1>0, <1>2 DEF TypeOK, ActiveKeyEnabled
  <1>4. IssuedGrantsAreBacked'
    BY <1>1 DEF IssuedGrantsAreBacked
  <1>5. UsesMatchStatus'
    BY <1>0, <1>1, FadingKeepsUses DEF GInv, UsesMatchStatus
  <1> QED
    BY <1>3, <1>4, <1>5 DEF GInv

LEMMA DisableInv ==
  ASSUME GInv, NEW k \in Kids, DisableSigningKey(k)
  PROVE  GInv'
  <1>0. /\ TypeOK /\ \A g \in GrantIds : grants[g] \in Grant
        /\ UNCHANGED <<activeKid, revokedEpochs, verifying, uses, now>>
        /\ k # activeKid /\ keys' = [keys EXCEPT ![k] = "disabled"]
        /\ \A g \in GrantIds : grants'[g] =
             IF grants[g].kid = k THEN Transition(grants[g], "revoked") ELSE grants[g]
    BY DEF GInv, TypeOK, DisableSigningKey
  <1>1. \A g \in GrantIds : Fades(grants[g], grants'[g])
    BY <1>0, TransitionFades
  <1>2. grants' \in [GrantIds -> Grant]
    BY <1>1 DEF DisableSigningKey, Fades
  <1>3. TypeOK' /\ ActiveKeyEnabled'
    BY <1>0, <1>2 DEF GInv, TypeOK, ActiveKeyEnabled
  <1>4. keys'[activeKid'] = keys[activeKid]
    BY <1>0 DEF TypeOK
  <1>5. IssuedGrantsAreBacked'
    BY <1>0, <1>1, <1>4 DEF GInv, IssuedGrantsAreBacked, Fades, Recorded
  <1>6. UsesMatchStatus'
    BY <1>0, <1>1, FadingKeepsUses DEF GInv, UsesMatchStatus
  <1> QED
    BY <1>3, <1>5, <1>6 DEF GInv

LEMMA InitInv == Init => GInv
  <1> SUFFICES ASSUME Init PROVE GInv
    OBVIOUS
  <1>1. Blank \in Grant /\ Blank.status = "unused"
    BY GrantConstants DEF Blank, Grant, Statuses, Unissued
  <1>2. \A g \in GrantIds : grants[g] = Blank /\ uses[g] = 0
    BY DEF Init
  <1>3. grants \in [GrantIds -> Grant]
    BY <1>1 DEF Init
  <1>4. /\ activeKid \in Kids /\ keys[activeKid] = "enabled"
        /\ keys \in [Kids -> {"absent", "enabled", "disabled"}]
    BY DEF Init
  <1>5. /\ revokedEpochs = {} /\ now = 0
        /\ uses \in [GrantIds -> Nat]
        /\ verifying \in [Requests -> Verification \cup {Idle}]
    BY DEF Init
  <1>6. TypeOK
    BY <1>3, <1>4, <1>5 DEF TypeOK
  <1>7. IssuedGrantsAreBacked /\ UsesMatchStatus
    BY <1>1, <1>2 DEF IssuedGrantsAreBacked, UsesMatchStatus
  <1> QED
    BY <1>4, <1>6, <1>7 DEF GInv, ActiveKeyEnabled

LEMMA NextInv == GInv /\ [Next]_vars => GInv'
  <1> SUFFICES ASSUME GInv, [Next]_vars PROVE GInv'
    OBVIOUS
  <1>1. CASE Issue
    BY <1>1, IssueInv DEF Issue
  <1>2. ASSUME NEW g \in GrantIds, NEW o \in Outcomes, SignSettle(g, o) PROVE GInv'
    BY <1>2, SettleInv
  <1>3. ASSUME NEW r \in Requests, NEW g \in GrantIds, BearerBegin(r, g) PROVE GInv'
    <2>1. [grant |-> g, kid |-> grants[g].kid, at |-> now] \in Verification
      BY DEF GInv, TypeOK, Verification, Grant
    <2>2. verifying' \in [Requests -> Verification \cup {Idle}]
      BY <1>3, <2>1 DEF BearerBegin, GInv, TypeOK
    <2> QED
      BY <1>3, <2>2 DEF BearerBegin, GInv, TypeOK, ActiveKeyEnabled, IssuedGrantsAreBacked, UsesMatchStatus
  <1>4. ASSUME NEW r \in Requests, BearerSettle(r) PROVE GInv'
    BY <1>4, BearerSettleInv
  <1>5. CASE Revoke
    BY <1>5, RevokeGrantInv, RevokeEpochInv DEF Revoke
  <1>6. ASSUME NEW k \in Kids, RotateSigningKey(k) \/ DisableSigningKey(k) PROVE GInv'
    BY <1>6, RotateInv, DisableInv
  <1>7. CASE Prune
    <2>1. \A g \in GrantIds : Fades(grants[g], grants'[g])
      BY <1>7, PruneFades DEF Prune, Pruned, GInv
    <2>2. grants' \in [GrantIds -> Grant]
      BY <1>7, <2>1 DEF Prune, Pruned, Fades
    <2> QED
      BY <1>7, <2>1, <2>2, QuietFading DEF Prune, GInv, TypeOK
  <1>8. CASE Tick
    BY <1>8 DEF Tick, GInv, TypeOK, ActiveKeyEnabled, IssuedGrantsAreBacked, UsesMatchStatus
  <1>9. CASE UNCHANGED vars
    BY <1>9 DEF vars, GInv, TypeOK, ActiveKeyEnabled, IssuedGrantsAreBacked, UsesMatchStatus
  <1> QED
    BY <1>1, <1>2, <1>3, <1>4, <1>5, <1>6, <1>7, <1>8, <1>9 DEF Next

\* The inductive invariant of the grant authority holds in every reachable state.
THEOREM GrantInvariant == Spec => []GInv
  BY InitInv, NextInv, PTL DEF Spec

\* Every grant, key and verification keeps its type.
THEOREM GrantTypes == Spec => []TypeOK
  <1>1. GInv => TypeOK
    BY DEF GInv
  <1> QED
    BY <1>1, GrantInvariant, PTL

\* However signatures, revocations and key rotations interleave, a grant on
\* record as issued belongs to a live epoch and to the active key.
THEOREM BackedGrants == Spec => []IssuedGrantsAreBacked
  <1>1. GInv => IssuedGrantsAreBacked
    BY DEF GInv
  <1> QED
    BY <1>1, GrantInvariant, PTL

\* A single-use grant is accepted at most once by any number of concurrent
\* verifications.
THEOREM SingleUse == Spec => []SingleUseIsSpentOnce
  <1>1. GInv => SingleUseIsSpentOnce
    BY DEF GInv, UsesMatchStatus, SingleUseIsSpentOnce
  <1> QED
    BY <1>1, GrantInvariant, PTL

\* What a step does to the acceptances of a grant: only BearerSettle of a
\* usable grant adds one.
LEMMA OnlyUsableGrantsAreAccepted ==
  ASSUME GInv, [Next]_vars, NEW g \in GrantIds, uses'[g] # uses[g]
  PROVE  /\ grants[g].status = "issued"
         /\ <<grants[g].program, grants[g].epoch>> \notin revokedEpochs
  <1>1. PICK r \in Requests : BearerSettle(r)
    BY DEF Next, vars, Issue, IssueBegin, SignSettle, BearerBegin, Revoke, RevokeGrant,
           RevokeProgramEpoch, RotateSigningKey, DisableSigningKey, Prune, Tick
  <1>2. Usable(verifying[r]) /\ verifying[r].grant = g
    BY <1>1 DEF BearerSettle, GInv, TypeOK
  <1> QED
    BY <1>2 DEF Usable

\* No grant of a revoked program epoch is accepted, whatever was in flight
\* when the epoch was revoked.
THEOREM RevokedEpochs == Spec => RevokedEpochIsFinal
  <1>1. ASSUME GInv, [Next]_vars, NEW g \in GrantIds, uses'[g] > uses[g]
        PROVE  <<grants[g].program, grants[g].epoch>> \notin revokedEpochs
    <2>1. uses'[g] # uses[g]
      BY <1>1 DEF GInv, TypeOK
    <2> QED
      BY <1>1, <2>1, OnlyUsableGrantsAreAccepted
  <1>2. GInv /\ [Next]_vars =>
          [\A g \in GrantIds :
             uses'[g] > uses[g] => <<grants[g].program, grants[g].epoch>> \notin revokedEpochs]_vars
    BY <1>1
  <1> QED
    BY <1>2, GrantInvariant, PTL DEF Spec, RevokedEpochIsFinal

\* Every step but IssueBegin and a successful SignSettle only lets grants fade.
LEMMA StatusesFade ==
  ASSUME GInv, [Next]_vars, NEW g \in GrantIds, grants[g].status \notin {"unused", "pending", "issued"}
  PROVE  grants'[g].status \notin {"unused", "pending", "issued"}
  <1>0. TypeOK /\ grants[g] \in Grant
    BY DEF GInv, TypeOK
  <1>1. SUFFICES Fades(grants[g], grants'[g])
    BY <1>0 DEF Fades, Grant, Statuses, Unissued, Recorded
  <1>2. Fades(grants[g], grants[g])
    BY <1>0, TransitionFades
  <1>3. CASE Issue
    <2>1. PICK h \in GrantIds, s \in Subjects, p \in Programs, e \in Epochs, u \in {"yes", "no"},
            life \in 1..Ttl : IssueBegin(h, s, p, e, u, life)
      BY <1>3 DEF Issue
    <2>2. grants'[g] = PruneGrant(grants[g])
      BY <2>1 DEF IssueBegin, Pruned
    <2> QED
      BY <1>0, <2>2, PruneFades
  <1>4. ASSUME NEW h \in GrantIds, NEW o \in Outcomes, SignSettle(h, o)
        PROVE  Fades(grants[g], grants'[g])
    <2>1. CASE h # g
      BY <1>0, <1>2, <1>4, <2>1 DEF SignSettle, TypeOK
    <2>2. CASE h = g
      <3>1. grants[g].status = "cancelled" /\ ~StillWanted(g)
        BY <1>4, <2>2 DEF SignSettle, StillWanted
      <3>2. grants' = [grants EXCEPT ![g].status = "refused"]
        BY <1>4, <2>2, <3>1 DEF SignSettle
      <3> QED
        BY <1>0, <3>1, <3>2 DEF TypeOK, Fades, Grant, Statuses, Unissued
    <2> QED
      BY <2>1, <2>2
  <1>5. ASSUME NEW r \in Requests, BearerSettle(r)
        PROVE  Fades(grants[g], grants'[g])
    <2>1. grants' = grants \/ (verifying[r].grant \in GrantIds /\
            grants' = [grants EXCEPT ![verifying[r].grant] =
                         Transition(grants[verifying[r].grant], "consumed")])
      BY <1>0, <1>5 DEF BearerSettle, TypeOK, Verification
    <2> QED
      BY <1>0, <1>2, <2>1, TransitionFades DEF TypeOK
  <1>6. ASSUME NEW h \in GrantIds, RevokeGrant(h)
        PROVE  Fades(grants[g], grants'[g])
    <2>1. grants'[g] = grants[g] \/ grants'[g] = Transition(grants[g], "revoked")
      BY <1>0, <1>6 DEF RevokeGrant, TypeOK
    <2> QED
      BY <1>0, <1>2, <2>1, TransitionFades
  <1>7. ASSUME NEW p \in Programs, NEW e \in Epochs, RevokeProgramEpoch(p, e)
        PROVE  Fades(grants[g], grants'[g])
    BY <1>0, <1>2, <1>7, TransitionFades DEF RevokeProgramEpoch
  <1>8. ASSUME NEW k \in Kids, RotateSigningKey(k) \/ DisableSigningKey(k)
        PROVE  Fades(grants[g], grants'[g])
    BY <1>0, <1>2, <1>8, TransitionFades DEF RotateSigningKey, DisableSigningKey
  <1>9. CASE Prune
    BY <1>0, <1>9, PruneFades DEF Prune, Pruned
  <1>10. ASSUME UNCHANGED grants
         PROVE  Fades(grants[g], grants'[g])
    BY <1>2, <1>10
  <1> QED
    BY <1>3, <1>4, <1>5, <1>6, <1>7, <1>8, <1>9, <1>10 DEF Next, Revoke, BearerBegin, Tick, vars

\* A grant that was cancelled, refused, consumed, revoked, expired or pruned
\* never becomes acceptable again and is never accepted.
THEOREM DeadGrants == Spec => DeadGrantsStayDead
  <1>1. ASSUME GInv, [Next]_vars, NEW g \in GrantIds,
               grants[g].status \notin {"unused", "pending", "issued"}
        PROVE  /\ grants'[g].status \notin {"unused", "pending", "issued"}
               /\ uses'[g] = uses[g]
    BY <1>1, StatusesFade, OnlyUsableGrantsAreAccepted
  <1>2. GInv /\ [Next]_vars =>
          [\A g \in GrantIds :
             grants[g].status \notin {"unused", "pending", "issued"} =>
               /\ grants'[g].status \notin {"unused", "pending", "issued"}
               /\ uses'[g] = uses[g]]_vars
    BY <1>1
  <1> QED
    BY <1>2, GrantInvariant, PTL DEF Spec, DeadGrantsStayDead

-----------------------------------------------------------------------------
(***************************************************************************)
(* Quotas.  The charged grants are finite in number however many ids there *)
(* are, no step but IssueBegin charges a grant that was not charged, and   *)
(* none moves a charge to another subject or program.                      *)
(***************************************************************************)
QuotaInv == GInv /\ IsFiniteSet(Charged) /\ QuotasHold

\* A grant that keeps its owner and is charged only if it was before
KeepsCharge(old, new) ==
  /\ new.subject = old.subject /\ new.program = old.program /\ new.expiresAt = old.expiresAt
  /\ new.status \in {"pending", "cancelled"} => old.status \in {"pending", "cancelled"}
  /\ new.status = "issued" => old.status \in {"pending", "cancelled", "issued"}

LEMMA TransitionKeepsCharge ==
  ASSUME NEW grant \in Grant, NEW to \in {"consumed", "revoked", "expired"}
  PROVE  KeepsCharge(grant, grant) /\ KeepsCharge(grant, Transition(grant, to))
  BY DEF KeepsCharge, Transition, Grant

LEMMA PruneKeepsCharge ==
  ASSUME NEW grant \in Grant
  PROVE  KeepsCharge(grant, PruneGrant(grant))
  BY DEF KeepsCharge, PruneGrant, Transition, Grant

\* #assertQuota counts the signatures in flight, so a signature that settles
\* or a record that ends never adds a charge.
LEMMA OnlyIssueCharges ==
  ASSUME GInv, [Next]_vars, ~Issue, NEW g \in GrantIds
  PROVE  KeepsCharge(grants[g], grants'[g])
  <1>0. TypeOK /\ grants[g] \in Grant
    BY DEF GInv, TypeOK
  <1>1. KeepsCharge(grants[g], grants[g])
    BY <1>0, TransitionKeepsCharge
  <1>2. ASSUME NEW h \in GrantIds, NEW o \in Outcomes, SignSettle(h, o)
        PROVE  KeepsCharge(grants[g], grants'[g])
    <2>1. CASE h # g
      BY <1>0, <1>1, <1>2, <2>1 DEF SignSettle, TypeOK
    <2>2. CASE h = g
      <3>1. PICK st \in {"issued", "refused"} : grants' = [grants EXCEPT ![g].status = st]
        BY <1>2, <2>2 DEF SignSettle
      <3> QED
        BY <1>0, <1>2, <2>2, <3>1 DEF SignSettle, TypeOK, KeepsCharge, Grant
    <2> QED
      BY <2>1, <2>2
  <1>3. ASSUME NEW r \in Requests, BearerSettle(r)
        PROVE  KeepsCharge(grants[g], grants'[g])
    <2>1. grants' = grants \/ (verifying[r].grant \in GrantIds /\
            grants' = [grants EXCEPT ![verifying[r].grant] =
                         Transition(grants[verifying[r].grant], "consumed")])
      BY <1>0, <1>3 DEF BearerSettle, TypeOK, Verification
    <2> QED
      BY <1>0, <1>1, <2>1, TransitionKeepsCharge DEF TypeOK
  <1>4. ASSUME NEW h \in GrantIds, RevokeGrant(h)
        PROVE  KeepsCharge(grants[g], grants'[g])
    <2>1. CASE h # g
      BY <1>0, <1>1, <1>4, <2>1 DEF RevokeGrant, TypeOK
    <2>2. CASE h = g /\ grants[g].status = "pending"
      <3>1. grants'[g] = [grants[g] EXCEPT !.status = "cancelled"]
        BY <1>0, <1>4, <2>2 DEF RevokeGrant, TypeOK
      <3> QED
        BY <1>0, <2>2, <3>1 DEF KeepsCharge, Grant
    <2>3. CASE h = g /\ grants[g].status # "pending"
      BY <1>0, <1>4, <2>3, TransitionKeepsCharge DEF RevokeGrant, TypeOK
    <2> QED
      BY <2>1, <2>2, <2>3
  <1>5. ASSUME NEW p \in Programs, NEW e \in Epochs, RevokeProgramEpoch(p, e)
        PROVE  KeepsCharge(grants[g], grants'[g])
    BY <1>0, <1>1, <1>5, TransitionKeepsCharge DEF RevokeProgramEpoch
  <1>6. ASSUME NEW k \in Kids, RotateSigningKey(k) \/ DisableSigningKey(k)
        PROVE  KeepsCharge(grants[g], grants'[g])
    BY <1>0, <1>1, <1>6, TransitionKeepsCharge DEF RotateSigningKey, DisableSigningKey
  <1>7. CASE Prune
    BY <1>0, <1>7, PruneKeepsCharge DEF Prune, Pruned
  <1>8. ASSUME UNCHANGED grants
        PROVE  KeepsCharge(grants[g], grants'[g])
    BY <1>1, <1>8
  <1> QED
    BY <1>2, <1>3, <1>4, <1>5, <1>6, <1>7, <1>8 DEF Next, Revoke, BearerBegin, Tick, vars

\* Fewer charges are within the quotas too.
LEMMA FewerChargesHold ==
  ASSUME QuotaInv, GInv', now <= now', \A g \in GrantIds : KeepsCharge(grants[g], grants'[g])
  PROVE  QuotaInv'
  <1>0. /\ now \in Nat /\ now' \in Nat
        /\ \A g \in GrantIds : grants[g].expiresAt \in Nat
    BY DEF QuotaInv, GInv, TypeOK, Grant
  <1>1. Charged' \subseteq Charged
    BY <1>0 DEF Charged, KeepsCharge
  <1>2. IsFiniteSet(Charged) /\ QuotasHold
    BY DEF QuotaInv
  <1>3. IsFiniteSet(Charged') /\ Cardinality(Charged') <= Cardinality(Charged)
    BY <1>1, <1>2, FS_Subset
  <1>4. ASSUME NEW T, T \in SUBSET Charged
        PROVE  IsFiniteSet(T) /\ Cardinality(T) \in Nat
    BY <1>2, <1>4, FS_Subset, FS_CardinalityType
  <1>5. ASSUME NEW s \in Subjects
        PROVE  Cardinality(ChargedTo(s)') <= SubjectLimit
    <2>1. ChargedTo(s)' \subseteq ChargedTo(s) /\ ChargedTo(s) \subseteq Charged
      BY <1>1 DEF ChargedTo, Charged, KeepsCharge
    <2>2. Cardinality(ChargedTo(s)') <= Cardinality(ChargedTo(s))
      BY <1>4, <2>1, FS_Subset
    <2>3. Cardinality(ChargedTo(s)') \in Nat /\ Cardinality(ChargedTo(s)) \in Nat
      BY <1>4, <2>1
    <2> QED
      BY <1>2, <2>2, <2>3, GrantConstants DEF QuotasHold
  <1>6. ASSUME NEW p \in Programs
        PROVE  Cardinality(ChargedFor(p)') <= ProgramLimit
    <2>1. ChargedFor(p)' \subseteq ChargedFor(p) /\ ChargedFor(p) \subseteq Charged
      BY <1>1 DEF ChargedFor, Charged, KeepsCharge
    <2>2. Cardinality(ChargedFor(p)') <= Cardinality(ChargedFor(p))
      BY <1>4, <2>1, FS_Subset
    <2>3. Cardinality(ChargedFor(p)') \in Nat /\ Cardinality(ChargedFor(p)) \in Nat
      BY <1>4, <2>1
    <2> QED
      BY <1>2, <2>2, <2>3, GrantConstants DEF QuotasHold
  <1>7. Cardinality(Charged') <= TenantLimit
    BY <1>1, <1>2, <1>3, <1>4, GrantConstants DEF QuotasHold
  <1> QED
    BY <1>3, <1>5, <1>6, <1>7 DEF QuotaInv, QuotasHold

\* What an issue charges is one grant, to one subject and one program that
\* #assertQuota found below their limits.
LEMMA IssueKeepsQuotas ==
  ASSUME QuotaInv, GInv', NEW g \in GrantIds, NEW s \in Subjects, NEW p \in Programs, NEW e \in Epochs,
         NEW u \in {"yes", "no"}, NEW life \in 1..Ttl, IssueBegin(g, s, p, e, u, life)
  PROVE  QuotaInv'
  <1>0. /\ now \in Nat /\ now' = now
        /\ \A h \in GrantIds : grants[h] \in Grant /\ grants[h].expiresAt \in Nat
        /\ IsFiniteSet(Charged) /\ QuotasHold /\ QuotaFree(s, p)
    BY DEF QuotaInv, GInv, TypeOK, Grant, IssueBegin
  <1>1. \A h \in GrantIds \ {g} : KeepsCharge(grants[h], grants'[h])
    BY <1>0, PruneKeepsCharge DEF IssueBegin, Pruned
  <1>2. /\ Charged' \subseteq Charged \cup {g}
        /\ grants'[g].subject = s /\ grants'[g].program = p
    BY <1>0, <1>1 DEF Charged, KeepsCharge, IssueBegin, Pruned
  <1>3. ASSUME NEW old \in SUBSET Charged, NEW new \in SUBSET (old \cup {g}), NEW limit \in Nat,
               Cardinality(old) < limit \/ (Cardinality(old) <= limit /\ g \notin new)
        PROVE  IsFiniteSet(new) /\ Cardinality(new) <= limit
    <2>1. IsFiniteSet(old) /\ Cardinality(old) \in Nat
      BY <1>0, FS_Subset, FS_CardinalityType
    <2>2. /\ IsFiniteSet(old \cup {g})
          /\ Cardinality(old \cup {g}) <= Cardinality(old) + 1
          /\ Cardinality(old \cup {g}) \in Nat
      <3>1. /\ IsFiniteSet(old \cup {g})
            /\ Cardinality(old \cup {g}) = IF g \in old THEN Cardinality(old) ELSE Cardinality(old) + 1
        BY <2>1, FS_AddElement
      <3> QED
        BY <2>1, <3>1
    <2>3. IsFiniteSet(new) /\ Cardinality(new) <= Cardinality(old \cup {g}) /\ Cardinality(new) \in Nat
      BY <2>2, FS_Subset, FS_CardinalityType
    <2>4. CASE Cardinality(old) < limit
      BY <2>1, <2>2, <2>3, <2>4
    <2>5. CASE Cardinality(old) <= limit /\ g \notin new
      <3>1. new \in SUBSET old
        BY <2>5
      <3>2. Cardinality(new) <= Cardinality(old)
        BY <2>1, <3>1, FS_Subset
      <3> QED
        BY <2>1, <2>3, <2>5, <3>2
    <2> QED
      BY <1>3, <2>4, <2>5
  <1>4. IsFiniteSet(Charged') /\ Cardinality(Charged') <= TenantLimit
    BY <1>0, <1>2, <1>3, GrantConstants DEF QuotaFree
  <1>5. ASSUME NEW t \in Subjects
        PROVE  Cardinality(ChargedTo(t)') <= SubjectLimit
    <2>1. ChargedTo(t) \in SUBSET Charged /\ ChargedTo(t)' \in SUBSET (ChargedTo(t) \cup {g})
      BY <1>1, <1>2 DEF ChargedTo, Charged, KeepsCharge
    <2>2. t # s => g \notin ChargedTo(t)'
      BY <1>2 DEF ChargedTo
    <2>3. Cardinality(ChargedTo(t)) <= SubjectLimit /\ (t = s => Cardinality(ChargedTo(t)) < SubjectLimit)
      BY <1>0 DEF QuotasHold, QuotaFree
    <2> QED
      BY <1>3, <2>1, <2>2, <2>3, GrantConstants
  <1>6. ASSUME NEW q \in Programs
        PROVE  Cardinality(ChargedFor(q)') <= ProgramLimit
    <2>1. ChargedFor(q) \in SUBSET Charged /\ ChargedFor(q)' \in SUBSET (ChargedFor(q) \cup {g})
      BY <1>1, <1>2 DEF ChargedFor, Charged, KeepsCharge
    <2>2. q # p => g \notin ChargedFor(q)'
      BY <1>2 DEF ChargedFor
    <2>3. Cardinality(ChargedFor(q)) <= ProgramLimit /\ (q = p => Cardinality(ChargedFor(q)) < ProgramLimit)
      BY <1>0 DEF QuotasHold, QuotaFree
    <2> QED
      BY <1>3, <2>1, <2>2, <2>3, GrantConstants
  <1> QED
    BY <1>4, <1>5, <1>6 DEF QuotaInv, QuotasHold

\* Active grants and signatures in flight together never exceed the quota of
\* a subject, a program or the tenant (#assertQuota before the await).
THEOREM Quotas == Spec => []QuotasHold
  <1>1. Init => QuotaInv
    <2> SUFFICES ASSUME Init PROVE QuotaInv
      OBVIOUS
    <2>1. Charged = {}
      BY DEF Init, Blank, Charged
    <2>2. (\A s \in Subjects : ChargedTo(s) = {}) /\ \A p \in Programs : ChargedFor(p) = {}
      BY <2>1 DEF ChargedTo, ChargedFor
    <2>3. IsFiniteSet({}) /\ Cardinality({}) = 0
      BY FS_EmptySet
    <2> QED
      BY SMTT(60), <2>1, <2>2, <2>3, InitInv, GrantConstants DEF QuotaInv, QuotasHold
  <1>2. QuotaInv /\ [Next]_vars => QuotaInv'
    <2> SUFFICES ASSUME QuotaInv, [Next]_vars PROVE QuotaInv'
      OBVIOUS
    <2>1. GInv'
      BY NextInv DEF QuotaInv
    <2>2. CASE Issue
      BY <2>1, <2>2, IssueKeepsQuotas DEF Issue
    <2>3. CASE ~Issue
      <3>1. \A g \in GrantIds : KeepsCharge(grants[g], grants'[g])
        BY <2>3, OnlyIssueCharges DEF QuotaInv
      <3>2. now <= now'
        BY <2>3 DEF Next, vars, SignSettle, BearerBegin, BearerSettle, Revoke, RevokeGrant, RevokeProgramEpoch,
                    RotateSigningKey, DisableSigningKey, Prune, Tick, QuotaInv, GInv, TypeOK
      <3> QED
        BY <2>1, <3>1, <3>2, FewerChargesHold
    <2> QED
      BY <2>2, <2>3
  <1>3. QuotaInv => QuotasHold
    BY DEF QuotaInv
  <1> QED
    BY <1>1, <1>2, <1>3, PTL DEF Spec

=============================================================================
