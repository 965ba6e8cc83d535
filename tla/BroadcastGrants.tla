--------------------------- MODULE BroadcastGrants ---------------------------
(***************************************************************************)
(* The grant authority of src/broadcast-grant-authority.js.  Issuing a     *)
(* grant awaits a signature and accepting one awaits its verification;     *)
(* between the two halves of either, grants and program epochs may be      *)
(* revoked, signing keys rotated and disabled, and time passes.            *)
(*                                                                         *)
(* The two maps of the code (pendingIssues, records) are one function from *)
(* grant ids to grants; the status tells in which map a grant is:          *)
(*   "unused"                 the id was never drawn                       *)
(*   "pending", "cancelled"   in pendingIssues                             *)
(*   "refused"                the signature settled without a record       *)
(*   "issued", "consumed", "revoked", "expired"   in records               *)
(*   "gone"                   the record was pruned after its retention    *)
(* A bearer token exists for every grant that ever was "issued".  Requests *)
(* that fail the policy, device-proof or scope checks change nothing but   *)
(* what Prune does, and are left out.  uses counts acceptances (a history  *)
(* variable).                                                              *)
(***************************************************************************)
EXTENDS Integers, FiniteSets

CONSTANTS
  GrantIds, Subjects, Programs,
  Epochs,        \* program epochs, a set of positive integers
  Kids,          \* signing key ids
  Requests,      \* concurrent bearer verifications
  Idle,          \* no verification in flight
  SubjectLimit, ProgramLimit, TenantLimit,
  Ttl, Retention,
  MaxTime,       \* bound on the clock
  MaxUses        \* bound on acceptances of a reusable grant

ASSUME GrantConstants ==
  /\ SubjectLimit \in Nat \ {0} /\ ProgramLimit \in Nat \ {0} /\ TenantLimit \in Nat \ {0}
  /\ Ttl \in Nat \ {0} /\ Retention \in Nat /\ MaxTime \in Nat /\ MaxUses \in Nat \ {0}
  /\ GrantIds # {} /\ Subjects # {} /\ Programs # {} /\ Epochs # {} /\ Kids # {}

VARIABLES grants, keys, activeKid, revokedEpochs, verifying, uses, now

vars == <<grants, keys, activeKid, revokedEpochs, verifying, uses, now>>

Unissued == {"unused", "pending", "cancelled", "refused"}
Recorded == {"issued", "consumed", "revoked", "expired"}
Statuses == Unissued \cup Recorded \cup {"gone"}

Grant == [status : Statuses, subject : Subjects, program : Programs,
          epoch : Epochs, kid : Kids, singleUse : {"yes", "no"}, expiresAt : Nat]

\* An id that was never drawn; its other fields are not read.
Blank == [status |-> "unused", subject |-> CHOOSE s \in Subjects : TRUE,
          program |-> CHOOSE p \in Programs : TRUE, epoch |-> CHOOSE e \in Epochs : TRUE,
          kid |-> CHOOSE k \in Kids : TRUE, singleUse |-> "no", expiresAt |-> 0]

\* A verification in flight remembers the grant its token names, the key it
\* verifies with and the time its request arrived.
Verification == [grant : GrantIds, kid : Kids, at : Nat]

ASSUME IdleAssumption == Idle \notin Verification

Init ==
  /\ grants = [g \in GrantIds |-> Blank]
  /\ \E kid \in Kids :
       /\ activeKid = kid
       /\ keys = [k \in Kids |-> IF k = kid THEN "enabled" ELSE "absent"]
  /\ revokedEpochs = {}
  /\ verifying = [r \in Requests |-> Idle]
  /\ uses = [g \in GrantIds |-> 0]
  /\ now = 0

-----------------------------------------------------------------------------
\* #transition: only an issued grant changes status.
Transition(grant, to) ==
  IF grant.status = "issued" THEN [grant EXCEPT !.status = to] ELSE grant

\* prune: expired grants are marked, and dropped after the retention time.
PruneGrant(grant) ==
  LET marked == IF grant.expiresAt <= now THEN Transition(grant, "expired") ELSE grant
  IN IF grant.status \in Recorded /\ grant.expiresAt + Retention <= now
     THEN [marked EXCEPT !.status = "gone"] ELSE marked
Pruned == [g \in GrantIds |-> PruneGrant(grants[g])]

\* What counts against a quota: active grants, and every signature that has
\* not settled, cancelled or not.
Charged ==
  {g \in GrantIds : \/ grants[g].status \in {"pending", "cancelled"}
                    \/ grants[g].status = "issued" /\ grants[g].expiresAt > now}
ChargedTo(subject) == {g \in Charged : grants[g].subject = subject}
ChargedFor(program) == {g \in Charged : grants[g].program = program}

\* Faulty: signatures in flight are not counted.
FaultyQuotaFree(subject, program) ==
  LET active == {g \in GrantIds : grants[g].status = "issued" /\ grants[g].expiresAt > now}
  IN /\ Cardinality({g \in active : grants[g].subject = subject}) < SubjectLimit
     /\ Cardinality({g \in active : grants[g].program = program}) < ProgramLimit
     /\ Cardinality(active) < TenantLimit

\* #assertQuota
QuotaFree(subject, program) ==
  /\ Cardinality(ChargedTo(subject)) < SubjectLimit
  /\ Cardinality(ChargedFor(program)) < ProgramLimit
  /\ Cardinality(Charged) < TenantLimit

\* #issueAuthorized up to the signature.
IssueBegin(g, subject, program, epoch, singleUse, life) ==
  /\ grants[g].status = "unused"
  /\ <<program, epoch>> \notin revokedEpochs
  /\ QuotaFree(subject, program)
  /\ grants' = [Pruned EXCEPT ![g] =
       [status |-> "pending", subject |-> subject, program |-> program, epoch |-> epoch,
        kid |-> activeKid, singleUse |-> singleUse, expiresAt |-> now + life]]
  /\ UNCHANGED <<keys, activeKid, revokedEpochs, verifying, uses, now>>

\* Faulty: a cancelled issue is recorded all the same.
FaultyStillWanted(g) ==
  /\ <<grants[g].program, grants[g].epoch>> \notin revokedEpochs
  /\ keys[grants[g].kid] = "enabled" /\ activeKid = grants[g].kid

\* The checks after the signature.
StillWanted(g) ==
  /\ <<grants[g].program, grants[g].epoch>> \notin revokedEpochs
  /\ grants[g].status # "cancelled"
  /\ keys[grants[g].kid] = "enabled"
  /\ activeKid = grants[g].kid

\* The signature settles: the grant is recorded, or the issue is refused.
\* Either way the reservation is released (finally).
SignSettle(g, outcome) ==
  /\ grants[g].status \in {"pending", "cancelled"}
  /\ grants' = [grants EXCEPT ![g].status =
       IF outcome = "signed" /\ StillWanted(g) THEN "issued" ELSE "refused"]
  /\ UNCHANGED <<keys, activeKid, revokedEpochs, verifying, uses, now>>

Outcomes == {"signed", "failed"}

-----------------------------------------------------------------------------
\* authorizeBearer up to the verification of the signature.
BearerBegin(r, g) ==
  /\ verifying[r] = Idle
  /\ grants[g].status \notin Unissued
  /\ keys[grants[g].kid] = "enabled"
  /\ verifying' = [verifying EXCEPT ![r] = [grant |-> g, kid |-> grants[g].kid, at |-> now]]
  /\ UNCHANGED <<grants, keys, activeKid, revokedEpochs, uses, now>>

\* Faulty: the record is not looked at again after the verification.
FaultyUsable(v) == grants[v.grant].expiresAt > v.at

\* The record as it is after the verification.
Usable(v) ==
  LET grant == grants[v.grant]
  IN /\ grant.status = "issued"
     /\ <<grant.program, grant.epoch>> \notin revokedEpochs
     /\ grant.expiresAt > v.at
     /\ grant.kid = v.kid

\* Faulty: an accepted single-use grant is not consumed.
FaultyBearerSettle(r) ==
  /\ verifying[r] # Idle
  /\ IF Usable(verifying[r])
     THEN uses[verifying[r].grant] < MaxUses
          /\ uses' = [uses EXCEPT ![verifying[r].grant] = @ + 1]
     ELSE UNCHANGED uses
  /\ verifying' = [verifying EXCEPT ![r] = Idle]
  /\ UNCHANGED <<grants, keys, activeKid, revokedEpochs, now>>

\* The verification settles: the grant is accepted and, if it is single-use,
\* consumed in the same step, or the request is refused.
BearerSettle(r) ==
  /\ verifying[r] # Idle
  /\ LET g == verifying[r].grant
     IN IF Usable(verifying[r])
        THEN /\ uses[g] < MaxUses
             /\ uses' = [uses EXCEPT ![g] = @ + 1]
             /\ grants' = IF grants[g].singleUse = "yes"
                          THEN [grants EXCEPT ![g] = Transition(@, "consumed")] ELSE grants
        ELSE UNCHANGED <<uses, grants>>
  /\ verifying' = [verifying EXCEPT ![r] = Idle]
  /\ UNCHANGED <<keys, activeKid, revokedEpochs, now>>

-----------------------------------------------------------------------------
RevokeGrant(g) ==
  /\ grants[g].status \in {"pending"} \cup Recorded
  /\ grants' = [grants EXCEPT ![g] =
       IF @.status = "pending" THEN [@ EXCEPT !.status = "cancelled"]
       ELSE Transition(@, "revoked")]
  /\ UNCHANGED <<keys, activeKid, revokedEpochs, verifying, uses, now>>

RevokeProgramEpoch(program, epoch) ==
  /\ revokedEpochs' = revokedEpochs \cup {<<program, epoch>>}
  /\ grants' = [g \in GrantIds |->
       IF grants[g].program = program /\ grants[g].epoch = epoch
       THEN Transition(grants[g], "revoked") ELSE grants[g]]
  /\ UNCHANGED <<keys, activeKid, verifying, uses, now>>

\* A new key becomes the active one and every grant is revoked.
RotateSigningKey(kid) ==
  /\ keys[kid] = "absent"
  /\ keys' = [keys EXCEPT ![kid] = "enabled"]
  /\ activeKid' = kid
  /\ grants' = [g \in GrantIds |-> Transition(grants[g], "revoked")]
  /\ UNCHANGED <<revokedEpochs, verifying, uses, now>>

DisableSigningKey(kid) ==
  /\ keys[kid] # "absent" /\ kid # activeKid
  /\ keys' = [keys EXCEPT ![kid] = "disabled"]
  /\ grants' = [g \in GrantIds |->
       IF grants[g].kid = kid THEN Transition(grants[g], "revoked") ELSE grants[g]]
  /\ UNCHANGED <<activeKid, revokedEpochs, verifying, uses, now>>

Prune == grants' = Pruned /\ UNCHANGED <<keys, activeKid, revokedEpochs, verifying, uses, now>>

Tick == now < MaxTime /\ now' = now + 1
        /\ UNCHANGED <<grants, keys, activeKid, revokedEpochs, verifying, uses>>

\* The lifetime is Ttl, or what is left of the identity when that is less.
Issue == \E g \in GrantIds, s \in Subjects, p \in Programs, e \in Epochs, u \in {"yes", "no"},
            life \in 1..Ttl : IssueBegin(g, s, p, e, u, life)
Revoke == (\E g \in GrantIds : RevokeGrant(g))
          \/ (\E p \in Programs, e \in Epochs : RevokeProgramEpoch(p, e))

Next ==
  \/ Issue
  \/ \E g \in GrantIds, o \in Outcomes : SignSettle(g, o)
  \/ \E r \in Requests, g \in GrantIds : BearerBegin(r, g)
  \/ \E r \in Requests : BearerSettle(r)
  \/ Revoke
  \/ \E k \in Kids : RotateSigningKey(k) \/ DisableSigningKey(k)
  \/ Prune
  \/ Tick

Spec == Init /\ [][Next]_vars

-----------------------------------------------------------------------------
\* Grants, keys, epochs and verifications have their types.
TypeOK ==
  /\ grants \in [GrantIds -> Grant]
  /\ keys \in [Kids -> {"absent", "enabled", "disabled"}]
  /\ activeKid \in Kids
  /\ revokedEpochs \subseteq Programs \X Epochs
  /\ verifying \in [Requests -> Verification \cup {Idle}]
  /\ uses \in [GrantIds -> Nat]
  /\ now \in Nat

\* A grant on record as issued belongs to a program epoch that is not revoked
\* and was signed by the active, enabled key, although both may have changed
\* while its signature was pending.
IssuedGrantsAreBacked ==
  \A g \in GrantIds : grants[g].status = "issued" =>
    /\ <<grants[g].program, grants[g].epoch>> \notin revokedEpochs
    /\ grants[g].kid = activeKid
    /\ keys[activeKid] = "enabled"

\* A single-use grant is accepted at most once, even by two verifications that
\* run at the same time.
SingleUseIsSpentOnce ==
  \A g \in GrantIds : grants[g].singleUse = "yes" /\ grants[g].status # "unused" =>
    /\ uses[g] <= 1
    /\ uses[g] = 1 => grants[g].status \notin {"issued"} \cup Unissued

\* Active grants and signatures in flight together never exceed a quota: a
\* burst of requests cannot pass the check before the first one is recorded.
QuotasHold ==
  /\ \A s \in Subjects : Cardinality(ChargedTo(s)) <= SubjectLimit
  /\ \A p \in Programs : Cardinality(ChargedFor(p)) <= ProgramLimit
  /\ Cardinality(Charged) <= TenantLimit

\* A grant that was cancelled, refused, consumed, revoked, expired or pruned
\* never becomes acceptable again and is not accepted by a verification that
\* was already running.
DeadGrantsStayDead ==
  [][\A g \in GrantIds :
       grants[g].status \notin {"unused", "pending", "issued"} =>
         /\ grants'[g].status \notin {"unused", "pending", "issued"}
         /\ uses'[g] = uses[g]]_vars

\* No grant of a revoked program epoch is ever accepted, whatever was in
\* flight when the epoch was revoked.
RevokedEpochIsFinal ==
  [][\A g \in GrantIds :
       uses'[g] > uses[g] => <<grants[g].program, grants[g].epoch>> \notin revokedEpochs]_vars

=============================================================================
