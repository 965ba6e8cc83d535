-------------------------- MODULE PeerNegotiation --------------------------
(***************************************************************************)
(* Two members of a room build and keep one connection: the browsers'      *)
(* PeerConnectionManager (peer-connection-manager.ts) on both sides of the *)
(* relayed signaling.  Offers that cross, answers that come late, ICE      *)
(* tiers and restarts, and connections that are rebuilt after the          *)
(* transport refused its DTLS role.                                        *)
(*                                                                         *)
(* Side 1 has the lower peer id: it is impolite and owns the base          *)
(* channels.  The server relays what a side sends in order.  Of a          *)
(* description the model keeps the pc it comes from, its number, its ICE   *)
(* credentials and how many local changes it covers; trickled candidates   *)
(* are part of what Reachable asks for.  The browser's own rules (when it  *)
(* fires negotiationneeded, what an answer to a restart carries) follow    *)
(* the use the code makes of them.                                         *)
(*                                                                         *)
(* Every timer is longer than an exchange: one runs out when nothing else  *)
(* is under way, or early, as often as the plan allows.                    *)
(***************************************************************************)
EXTENDS Integers, Sequences, SequencesExt

CONSTANTS
  Ids,    \* enough numbers for the connections, descriptions and credentials in use at a time
  Plans   \* what may happen, one choice per behaviour

Sides == {1, 2}
Other(s) == 3 - s
\* Faulty: nobody yields.
FaultyPolite(s) == FALSE
Polite(s) == s > Other(s)

Faults == {"role", "refused", "create", "drop"}

ASSUME IdAssumption == Ids \subseteq Nat \ {0}
ASSUME PlanAssumption == \A q \in Plans :
  /\ q.tiers \in 0..2 /\ q.reach \in 0..3   \* relay tiers there are, and the tier the path needs
  /\ q.changes \in [Sides -> Nat] /\ q.early \in Nat /\ q.refresh \in BOOLEAN
  /\ q.fault \in Faults \cup {"none"} /\ q.faults \in Nat

VARIABLES
  side,   \* per side: the ManagedPeer and its NegotiationControl
  reset,  \* per side: PeerResetState
  chan,   \* per side: signals under way to it
  early, faults, plan

vars == <<side, reset, chan, early, faults, plan>>

NoOffer == [kind |-> "none", gen |-> 0, n |-> 0, ice |-> 0, v |-> 0]
Marker == [NoOffer EXCEPT !.kind = "marker"]
Idle == [step |-> "idle", msg |-> NoOffer]

\* The browser finds something to negotiate
Needed(p) == p.restart \/ p.want # p.agreed
\* It looks again whenever an exchange is over
Looked(p) == [p EXCEPT !.event = IF Needed(p) THEN "due" ELSE "none"]
\* and when something changes; an event that is due or has been fired is not repeated
Noted(p) == [p EXCEPT !.event = IF @ = "none" THEN "due" ELSE @]

\* A new connection, description or set of credentials differs from all that are in use
InUse(field) == {side[s].offer[field] : s \in Sides} \cup {side[s].busy.msg[field] : s \in Sides}
                \cup UNION {{m[field] : m \in ToSet(chan[s])} : s \in Sides}
Unused(used) == CHOOSE i \in Ids \ used : \A j \in Ids \ used : i <= j
NewGen == Unused(InUse("gen") \cup UNION {{side[s].gen, side[s].remGen} : s \in Sides})
NewNumber == Unused(InUse("n") \cup {side[s].timer : s \in Sides})
NewIce == Unused(InUse("ice") \cup UNION {{side[s].loc, side[s].rem} : s \in Sides})

-----------------------------------------------------------------------------
(* Timers and ICE tiers of one side *)

\* nextFallback
HasNext(p) == p.tier < plan.tiers
ScheduleFallback(p) == [p EXCEPT !.fallback = IF HasNext(p) THEN "tier" ELSE "none"]
ArmRecovery(p) == [p EXCEPT !.recovery = @ \/ p.conn # "connected"]
ArmIfLast(p) == IF HasNext(p) THEN p ELSE ArmRecovery(p)

\* Faulty: an exchange under way does not keep a restart back.
FaultySettled(p) == p.sig = "stable"

\* signalingSettled
Settled(p) == p.sig = "stable" /\ ~p.making

RestartIce(p) == Noted([p EXCEPT !.restart = TRUE, !.pending = FALSE])
RestartIceWhenSettled(p) ==
  IF p.conflict THEN p ELSE IF Settled(p) THEN RestartIce(p) ELSE [p EXCEPT !.pending = TRUE]
FlushPendingIceRestart(p) == IF p.pending /\ Settled(p) THEN RestartIce(p) ELSE p
\* The polite side restarts at once, the other one gives it time
RestartIceCoordinated(s, p) == IF Polite(s) THEN RestartIceWhenSettled(p) ELSE [p EXCEPT !.deferred = TRUE]

\* activateTier up to the answer of the credential service; applyTier; without fresh credentials
NextTier(p) == [p EXCEPT !.fallback = "none", !.tier = @ + 1, !.restarted = TRUE]
ApplyTier(s, p, restarts) ==
  ArmIfLast(ScheduleFallback(IF restarts THEN RestartIceCoordinated(s, p) ELSE p))
WithoutCredentials(p) == ArmRecovery(ScheduleFallback(p))
ActivateTier(s, p, restarts, fresh) ==
  IF fresh THEN ApplyTier(s, NextTier(p), restarts) ELSE WithoutCredentials(NextTier(p))

\* activateNextTier, past its debounce; the last tier is restarted once its cooldown is over
ActivateNextTier(s, p, fresh, cooled) ==
  IF HasNext(p) THEN ActivateTier(s, p, TRUE, fresh)
  ELSE ArmRecovery(IF cooled /\ fresh THEN RestartIceCoordinated(s, [p EXCEPT !.restarted = TRUE])
                   ELSE [p EXCEPT !.restarted = @ \/ cooled])

-----------------------------------------------------------------------------
(* Connections and negotiation *)

\* add: side 1 creates the channels, so it has something to negotiate; tracks are added again
NewPeer(s, gen, want) ==
  ArmIfLast(ScheduleFallback(
    [gen |-> gen, sig |-> "stable", making |-> FALSE, needs |-> FALSE, busy |-> Idle,
     offer |-> NoOffer, timer |-> 0, event |-> IF want > 0 THEN "due" ELSE "none",
     restart |-> FALSE, pending |-> FALSE, deferred |-> FALSE, conflict |-> FALSE,
     loc |-> 0, rem |-> 0, remGen |-> 0, gathered |-> 0, want |-> want, agreed |-> 0, heard |-> 0,
     tier |-> 0, fallback |-> "none", recovery |-> FALSE, restarted |-> FALSE, conn |-> "new"]))

Negotiate(p) ==
  IF p.making \/ p.sig # "stable" THEN [p EXCEPT !.needs = TRUE]
  ELSE IF p.conflict THEN [p EXCEPT !.needs = FALSE]
  ELSE [(IF p.pending THEN RestartIce(p) ELSE p) EXCEPT !.needs = FALSE, !.making = TRUE]
NegotiateIfNeeded(p) == IF p.needs /\ p.sig = "stable" THEN Negotiate(p) ELSE p

Send(s, ms) == chan' = [chan EXCEPT ![Other(s)] = @ \o ms]
Rest(s) == [chan EXCEPT ![s] = Tail(@)]
Become(s, p) == side' = [side EXCEPT ![s] = p]
\* A connection the browser no longer has checks again once its credentials change
Rechecked(p, fresh) == [p EXCEPT !.conn = IF fresh /\ @ # "connected" THEN "new" ELSE @]

\* initiatePeerReset: the marker goes out first; at most once per cooldown
ResetPeer(s) ==
  /\ Become(s, NewPeer(s, NewGen, side[s].want))
  /\ reset' = [reset EXCEPT ![s] = [cooling |-> TRUE, awaiting |-> TRUE]]

Conflicted(p) == [p EXCEPT !.conflict = TRUE, !.needs = FALSE, !.timer = 0, !.deferred = FALSE, !.pending = FALSE]

\* handleDtlsConflict
HandleDtlsConflict(s, taken) ==
  \/ /\ ~reset[s].cooling
     /\ ResetPeer(s)
     /\ chan' = [taken EXCEPT ![Other(s)] = Append(@, Marker)]
  \/ /\ reset[s].cooling
     /\ Become(s, ArmRecovery([Conflicted(side[s]) EXCEPT
          !.busy = Idle, !.making = FALSE, !.sig = IF @ = "have-remote-offer" THEN "stable" ELSE @]))
     /\ chan' = taken /\ UNCHANGED reset

Fault(f) == plan.fault = f /\ faults < plan.faults /\ faults' = faults + 1

\* The user adds or removes a track
Change(s) ==
  /\ side[s].want < plan.changes[s] + (IF s = 1 THEN 1 ELSE 0)
  /\ Become(s, Noted([side[s] EXCEPT !.want = @ + 1]))
  /\ UNCHANGED <<reset, chan, early, faults, plan>>

\* negotiationneeded: fired in a stable state between two operations of the browser
NegotiationNeeded(s) ==
  /\ side[s].event = "due" /\ Settled(side[s]) /\ side[s].busy.step \in {"idle", "refresh"}
  /\ Become(s, Negotiate([side[s] EXCEPT !.event = "fired"]))
  /\ UNCHANGED <<reset, chan, early, faults, plan>>

\* negotiate, once its offer is created: the offer is sent and its timer armed
OfferCreated(s) ==
  /\ side[s].making
  /\ LET o == [kind |-> "offer", gen |-> side[s].gen, n |-> NewNumber, v |-> side[s].want,
               ice |-> IF side[s].restart \/ side[s].loc = 0 THEN NewIce ELSE side[s].loc]
     IN /\ Become(s, [side[s] EXCEPT !.making = FALSE, !.sig = "have-local-offer", !.offer = o, !.timer = o.n])
        /\ Send(s, <<o>>)
  /\ UNCHANGED <<reset, early, faults, plan>>

\* or is not created
CreateOfferFails(s) ==
  /\ side[s].making
  /\ UNCHANGED <<early, plan>>
  /\ \/ Fault("create") /\ Become(s, [side[s] EXCEPT !.making = FALSE, !.needs = TRUE]) /\ UNCHANGED <<reset, chan>>
     \/ Fault("role") /\ side[s].loc # 0 /\ HandleDtlsConflict(s, chan)

RolledBack(p) == Looked([p EXCEPT !.sig = "stable", !.offer = NoOffer, !.timer = 0])

\* Remaining work before the remote offer is applied: noteRemoteIceRestart.  While a peer is not
\* connected a tier step that is due soon is pulled forward.
NoteRemoteIceRestart(s, p, m, pull, fresh) ==
  LET q == [p EXCEPT !.deferred = FALSE, !.busy = [step |-> "apply", msg |-> m]]
      waits == [q EXCEPT !.busy.step = IF plan.refresh THEN "refresh" ELSE "apply"]
  IN IF p.rem \in {0, m.ice} THEN [q EXCEPT !.deferred = p.deferred]
     ELSE IF p.conn # "connected" /\ HasNext(p) /\ pull THEN ActivateTier(s, waits, FALSE, fresh)
     ELSE IF p.conn # "connected" /\ p.tier > 0 THEN waits ELSE q

\* A signal is taken when those before it are done with; an event that is due comes first
Takes(s, kind) ==
  /\ chan[s] # <<>> /\ Head(chan[s]).kind = kind /\ side[s].busy = Idle /\ ~reset[s].awaiting
  /\ ~(side[s].event = "due" /\ Settled(side[s]))

\* applySignal for an offer: ignored, or applied after the own offer is rolled back
AcceptOffer(s, pull, fresh) ==
  /\ Takes(s, "offer")
  /\ fresh \/ plan.refresh
  /\ chan' = Rest(s)
  /\ LET p == side[s]  m == Head(chan[s])
     IN IF Settled(p) THEN Become(s, NoteRemoteIceRestart(s, p, m, pull, fresh))
        ELSE IF Polite(s)
        THEN Become(s, [p EXCEPT !.needs = TRUE, !.busy = [step |-> "rollback", msg |-> m]])
        ELSE Become(s, p)
  /\ UNCHANGED <<reset, early, faults, plan>>

\* rollbackLocalOffer waits for an offer that is being created
RollbackLocalOffer(s, pull, fresh) ==
  /\ side[s].busy.step = "rollback" /\ ~side[s].making
  /\ fresh \/ plan.refresh
  /\ Become(s, NoteRemoteIceRestart(s, IF side[s].sig = "have-local-offer" THEN RolledBack(side[s])
                                        ELSE [side[s] EXCEPT !.timer = 0], side[s].busy.msg, pull, fresh))
  /\ UNCHANGED <<reset, chan, early, faults, plan>>

\* The credentials have come, or the answer must not wait for them any longer
Refreshed(s) ==
  /\ side[s].busy.step = "refresh"
  /\ Become(s, [side[s] EXCEPT !.busy.step = "apply"])
  /\ UNCHANGED <<reset, chan, early, faults, plan>>

\* A transport does not take descriptions of a second connection of the other side
Foreign(p, m) == p.remGen \notin {0, m.gen}

SetRemoteOffer(s) ==
  LET p == side[s]  m == p.busy.msg IN
  /\ p.busy.step = "apply" /\ ~p.making
  /\ \/ /\ ~Foreign(p, m)
        /\ Become(s, [p EXCEPT !.sig = "have-remote-offer", !.offer = NoOffer, !.remGen = m.gen, !.heard = m.v,
                               !.busy.step = IF m.ice = p.rem THEN "answer" ELSE "restart", !.rem = m.ice])
        /\ UNCHANGED <<reset, chan, faults>>
     \/ /\ Fault("refused")
        /\ Become(s, NegotiateIfNeeded([p EXCEPT !.busy = Idle]))
        /\ UNCHANGED <<reset, chan>>
     \/ Foreign(p, m) /\ HandleDtlsConflict(s, chan) /\ UNCHANGED faults
  /\ UNCHANGED <<early, plan>>

\* setLocalAnswer: an answer to a restart carries new credentials, gathered with the current servers
Answered(p, ice) ==
  Looked(Rechecked([p EXCEPT !.sig = "stable", !.busy = Idle, !.loc = ice, !.restart = @ /\ ice = p.loc,
                             !.gathered = IF ice = p.loc THEN @ ELSE p.tier], ice # p.loc))
AfterExchange(p) == NegotiateIfNeeded(FlushPendingIceRestart(p))

SetLocalAnswer(s) ==
  LET p == side[s]
      ice == IF p.busy.step = "restart" \/ p.loc = 0 THEN NewIce ELSE p.loc
  IN
  /\ p.busy.step \in {"answer", "restart"}
  /\ \/ /\ Become(s, AfterExchange(Answered(p, ice)))
        /\ Send(s, <<[kind |-> "answer", gen |-> p.gen, n |-> p.busy.msg.n, ice |-> ice, v |-> p.agreed]>>)
        /\ UNCHANGED <<reset, faults>>
     \/ Fault("role") /\ HandleDtlsConflict(s, chan)
  /\ UNCHANGED <<early, plan>>

\* An answer is of use only while an offer waits for one
WantsAnswer(p) == p.sig = "have-local-offer"

\* An answer ends the exchange of whatever offer is outstanding
TakenAnswer(p, m) ==
  LET fresh == p.offer.ice # p.loc
  IN Looked(Rechecked([p EXCEPT
       !.sig = "stable", !.offer = NoOffer, !.timer = 0, !.rem = m.ice, !.remGen = m.gen,
       !.agreed = p.offer.v, !.loc = p.offer.ice, !.restart = @ /\ ~fresh,
       !.gathered = IF fresh THEN p.tier ELSE @], fresh \/ m.ice # p.rem))

AcceptAnswer(s) ==
  /\ Takes(s, "answer")
  /\ LET p == side[s]  m == Head(chan[s])
     IN \/ /\ ~WantsAnswer(p)
           /\ chan' = Rest(s) /\ UNCHANGED <<side, reset>>
        \/ /\ WantsAnswer(p) /\ ~Foreign(p, m)
           /\ Become(s, AfterExchange(TakenAnswer(p, m)))
           /\ chan' = Rest(s) /\ UNCHANGED reset
        \/ WantsAnswer(p) /\ Foreign(p, m) /\ HandleDtlsConflict(s, Rest(s))
  /\ UNCHANGED <<early, faults, plan>>

-----------------------------------------------------------------------------
(* Resets *)

\* While it waits for the other side's marker a side drops what comes before it
DropAwaitingReset(s) ==
  /\ reset[s].awaiting /\ chan[s] # <<>> /\ Head(chan[s]).kind # "marker"
  /\ chan' = Rest(s)
  /\ UNCHANGED <<side, reset, early, faults, plan>>

\* acceptPeerReset does not queue: what waits before the marker belongs to the replaced connection
AcceptPeerReset(s, k) ==
  /\ k \in DOMAIN chan[s] /\ chan[s][k].kind = "marker"
  /\ \A j \in 1..(k - 1) : chan[s][j].kind # "marker"
  /\ \/ /\ reset[s].awaiting /\ k = 1
        /\ reset' = [reset EXCEPT ![s].awaiting = FALSE]
        /\ chan' = Rest(s) /\ UNCHANGED side
     \/ /\ ~reset[s].awaiting /\ reset[s].cooling
        /\ chan' = [chan EXCEPT ![s] = SubSeq(@, 1, k - 1) \o SubSeq(@, k + 1, Len(@))]
        /\ UNCHANGED <<side, reset>>
     \/ /\ ~reset[s].awaiting /\ ~reset[s].cooling
        /\ Become(s, NewPeer(s, NewGen, side[s].want))
        /\ reset' = [reset EXCEPT ![s].cooling = TRUE]
        /\ chan' = [chan EXCEPT ![s] = SubSeq(@, k + 1, Len(@)),
                                ![Other(s)] = Append(@, Marker)]
  /\ UNCHANGED <<early, faults, plan>>

-----------------------------------------------------------------------------
(* The ICE agents *)

Matched == /\ side[1].loc # 0 /\ side[2].loc # 0
           /\ side[1].rem = side[2].loc /\ side[2].rem = side[1].loc
\* One side's relay is enough for both
Reachable == Matched /\ \E s \in Sides : side[s].gathered >= plan.reach

\* Signals or operations of the browser are under way; an ICE agent gives up later than those end
Signalling(s) ==
  \/ chan[s] # <<>> \/ side[s].busy # Idle \/ side[s].making
  \/ side[s].event = "due" /\ Settled(side[s])
Exchanging == \E s \in Sides : Signalling(s)

\* handleConnectionState: connected
IceConnects(s) ==
  /\ side[s].conn # "connected" /\ Reachable
  /\ Become(s, [side[s] EXCEPT !.conn = "connected", !.fallback = "none", !.deferred = FALSE, !.recovery = FALSE])
  /\ UNCHANGED <<reset, chan, early, faults, plan>>

\* failed; within a second of a restart the event is not acted on
IceFails(s, fresh, cooled, debounced) ==
  /\ side[s].conn \in {"new", "disconnected"} /\ side[s].rem # 0 /\ side[s].loc # 0
  /\ ~Reachable /\ ~Exchanging
  /\ fresh \/ plan.refresh
  /\ debounced => side[s].conn = "new" /\ side[s].restarted
  /\ LET p == [side[s] EXCEPT !.conn = "failed"]
     IN Become(s, IF debounced THEN p ELSE ActivateNextTier(s, p, fresh, cooled))
  /\ UNCHANGED <<reset, chan, early, faults, plan>>

\* disconnected: the path is lost, or the other side's credentials have changed
IceDisconnects(s) ==
  /\ side[s].conn = "connected" /\ ~Reachable /\ ~Exchanging
  /\ Become(s, [side[s] EXCEPT !.conn = "disconnected", !.fallback = IF @ = "none" THEN "disconnected" ELSE @])
  /\ UNCHANGED <<reset, chan, early, faults, plan>>

\* The network changes: what both sides have gathered leads nowhere any more
NetworkChanges ==
  /\ Fault("drop") /\ Reachable
  /\ side' = [s \in Sides |-> [side[s] EXCEPT !.gathered = -1]]
  /\ UNCHANGED <<reset, chan, early, plan>>

-----------------------------------------------------------------------------
(* Timers *)

Quiet == \A s \in Sides :
  /\ ~Signalling(s)
  /\ side[s].conn = "connected" <=> Reachable
  /\ ~Reachable => side[s].conn = "failed" \/ 0 \in {side[s].loc, side[s].rem}

RunsOut == IF Quiet THEN early' = early ELSE early < plan.early /\ early' = early + 1

\* An offer its timer still belongs to is rolled back and made again
Expired(p, n) == IF p.sig = "have-local-offer" /\ p.offer.n = n THEN Negotiate(RolledBack(p)) ELSE p

\* The offer timer runs in the signal queue
OfferTimeout(s) ==
  /\ side[s].timer # 0 /\ side[s].busy = Idle
  /\ RunsOut
  /\ Become(s, Expired([side[s] EXCEPT !.timer = 0], side[s].timer))
  /\ UNCHANGED <<reset, chan, faults, plan>>

TierTimer(s, fresh) ==
  /\ side[s].fallback = "tier"
  /\ fresh \/ plan.refresh
  /\ RunsOut
  /\ Become(s, ActivateTier(s, side[s], TRUE, fresh))
  /\ UNCHANGED <<reset, chan, faults, plan>>

\* The timer of a disconnection stays noted after it has run out
DisconnectTimer(s, fresh, cooled) ==
  /\ side[s].fallback = "disconnected"
  /\ fresh \/ plan.refresh
  /\ RunsOut
  /\ Become(s, ActivateNextTier(s, [side[s] EXCEPT !.fallback = "spent"], fresh, cooled))
  /\ UNCHANGED <<reset, chan, faults, plan>>

DeferredRestart(s) ==
  /\ side[s].deferred
  /\ RunsOut
  /\ LET p == [side[s] EXCEPT !.deferred = FALSE]
     IN Become(s, IF p.conn = "connected" THEN p ELSE RestartIceWhenSettled(p))
  /\ UNCHANGED <<reset, chan, faults, plan>>

\* Faulty: recovery that has to wait does not arm its timer again.
FaultyRecovered(s, p, fresh) ==
  IF p.conn = "connected" \/ HasNext(p) THEN p
  ELSE IF ~Settled(p) \/ ~fresh THEN p
  ELSE ArmRecovery(RestartIceCoordinated(s, [p EXCEPT !.restarted = TRUE]))

\* recover, for a transport that is not broken
Recovered(s, p, fresh) ==
  IF p.conn = "connected" \/ HasNext(p) THEN p
  ELSE IF ~Settled(p) \/ ~fresh THEN ArmRecovery(p)
  ELSE ArmRecovery(RestartIceCoordinated(s, [p EXCEPT !.restarted = TRUE]))

RecoveryTimer(s, fresh) ==
  /\ side[s].recovery
  /\ fresh \/ plan.refresh
  /\ RunsOut
  /\ LET p == [side[s] EXCEPT !.recovery = FALSE]
     IN \/ /\ ~p.conflict \/ p.conn = "connected"
           /\ Become(s, Recovered(s, p, fresh)) /\ UNCHANGED <<reset, chan>>
        \/ /\ p.conflict /\ p.conn # "connected" /\ reset[s].cooling
           /\ Become(s, ArmRecovery(p)) /\ UNCHANGED <<reset, chan>>
        \/ /\ p.conflict /\ p.conn # "connected" /\ ~reset[s].cooling
           /\ ResetPeer(s) /\ Send(s, <<Marker>>)
  /\ UNCHANGED <<faults, plan>>

AckTimeout(s) ==
  /\ reset[s].awaiting
  /\ RunsOut
  /\ reset' = [reset EXCEPT ![s].awaiting = FALSE]
  /\ UNCHANGED <<side, chan, faults, plan>>

CooldownEnds(s) ==
  /\ reset[s].cooling /\ ~reset[s].awaiting
  /\ RunsOut
  /\ reset' = [reset EXCEPT ![s].cooling = FALSE]
  /\ UNCHANGED <<side, chan, faults, plan>>

-----------------------------------------------------------------------------
Init ==
  /\ plan \in Plans
  /\ side = [s \in Sides |-> NewPeer(s, s, IF s = 1 THEN 1 ELSE 0)]
  /\ reset = [s \in Sides |-> [cooling |-> FALSE, awaiting |-> FALSE]]
  /\ chan = [s \in Sides |-> <<>>]
  /\ early = 0 /\ faults = 0

\* What a side does with signals and events
Steps(s) ==
  \/ NegotiationNeeded(s) \/ OfferCreated(s) \/ CreateOfferFails(s)
  \/ \E pull, fresh \in BOOLEAN : AcceptOffer(s, pull, fresh) \/ RollbackLocalOffer(s, pull, fresh)
  \/ Refreshed(s) \/ SetRemoteOffer(s) \/ SetLocalAnswer(s) \/ AcceptAnswer(s)
  \/ DropAwaitingReset(s) \/ \E k \in DOMAIN chan[s] : AcceptPeerReset(s, k)
  \/ IceConnects(s) \/ IceDisconnects(s)
  \/ \E fresh, cooled, debounced \in BOOLEAN : IceFails(s, fresh, cooled, debounced)

FallbackTimer(s) ==
  \E fresh, cooled \in BOOLEAN : TierTimer(s, fresh) \/ DisconnectTimer(s, fresh, cooled)

Next == NetworkChanges \/ \E s \in Sides :
  \/ Change(s) \/ Steps(s) \/ FallbackTimer(s) \/ OfferTimeout(s) \/ DeferredRestart(s)
  \/ \E fresh \in BOOLEAN : RecoveryTimer(s, fresh)
  \/ AckTimeout(s) \/ CooldownEnds(s)

\* Signals are delivered and the browser works on.  A timer that is armed runs out even if others do
\* so before it, as its delay is bounded; credentials that are asked for time and again are had at last.
Fairness == \A s \in Sides :
  /\ WF_vars(Steps(s)) /\ SF_vars(FallbackTimer(s) \/ OfferTimeout(s) \/ DeferredRestart(s))
  /\ SF_vars(RecoveryTimer(s, TRUE)) /\ SF_vars(AckTimeout(s) \/ CooldownEnds(s))

Spec == Init /\ [][Next]_vars /\ Fairness
-----------------------------------------------------------------------------
(* Properties *)

TypeOK ==
  /\ \A s \in Sides :
       /\ side[s].sig \in {"stable", "have-local-offer", "have-remote-offer"}
       /\ side[s].busy.step \in {"idle", "rollback", "refresh", "apply", "answer", "restart"}
       /\ side[s].conn \in {"new", "connected", "disconnected", "failed"}
       /\ side[s].fallback \in {"none", "tier", "disconnected", "spent"}
       /\ side[s].tier \in 0..plan.tiers /\ side[s].gen \in Ids
       /\ \A b \in {side[s].making, side[s].needs, side[s].restart, side[s].pending, side[s].deferred,
                    side[s].conflict, side[s].recovery, side[s].restarted} : b \in BOOLEAN
  /\ reset \in [Sides -> [cooling : BOOLEAN, awaiting : BOOLEAN]]
  /\ early \in 0..plan.early

\* An answer is applied to the offer it answers.  It takes a timer that ran out before the answer
\* came, or an offer made while another was being applied, to confuse the two.
AnswersMeetTheirOffers ==
  [][\A s \in Sides : plan.early = 0 /\ ~plan.refresh /\ side[s].gen = side'[s].gen
       /\ side[s].sig = "have-local-offer" /\ side'[s].sig = "stable" /\ side'[s].rem # side[s].rem
       => Head(chan[s]).n = side[s].offer.n]_vars

\* When all signals have arrived both sides hold each other's credentials and tracks.
QuietMeansAgreed ==
  Quiet /\ plan.early = 0 /\ ~plan.refresh /\ plan.fault \in {"none", "drop"} /\ side[1].rem # 0
  => Matched /\ \A s \in Sides : side[s].sig = "stable" /\ side[Other(s)].heard = side[s].want

\* Whatever crosses, runs out early, is refused or rebuilt: two members that can reach each other
\* over a tier they have are connected in the end, and stay so.
EventuallyConnected ==
  plan.reach <= plan.tiers => <>[](\A s \in Sides : side[s].conn = "connected")
=============================================================================
