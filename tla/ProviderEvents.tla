--------------------------- MODULE ProviderEvents ---------------------------
(***************************************************************************)
(* Provider webhooks of one provider leg: ingestion, binding of provider   *)
(* references, ordered claims and the follow-up each claimed event commits *)
(* (src/src/persistence/memory.rs, src/src/call_service/execution.rs).     *)
(*                                                                         *)
(* The call is seen from its provider leg: the phase of the call, the      *)
(* state and generation of the leg, the replacement or transfer under way, *)
(* whether the other leg is connected.  CallAggregate has it in full.      *)
(* A provider call is the pair of the binding generation and the role it   *)
(* was dialed for.  A repeated event digest changes nothing, so ingestion  *)
(* of a duplicate is no step.                                              *)
(***************************************************************************)
EXTENDS Naturals, Sequences

CONSTANTS
    InitialKind,         \* LegKind of the leg: "telnyx" or "other"
    EventKind,           \* kinds of events the provider sends
    ClientState,         \* what their client_state decodes to
    MaxGeneration,       \* bound: binding generations of the leg
    MaxAttempt,          \* bound: generations of the transfer deadline
    MaxFence,            \* bound: incarnations of the worker
    MaxEvents            \* bound: events received

ASSUME KindAssumption ==
    /\ InitialKind \in {"telnyx", "other"}
    /\ EventKind \subseteq {"progress", "bridged", "hangup", "failed", "other"}
    /\ ClientState \subseteq {"dial", "transfer", "foreign"}
ASSUME EventBoundAssumption ==
    /\ MaxGeneration \in Nat \ {0} /\ MaxAttempt \in Nat
    /\ MaxFence \in Nat \ {0} /\ MaxEvents \in Nat

VARIABLES
    call,                \* the phase of the call
    leg,                 \* LegState of the provider leg
    kind,                \* its LegKind
    peer,                \* the other leg: "setup", "connected", "ending", "done"
    generation,          \* the leg's binding generation
    cursor,              \* its highest reserved generation
    pending,             \* pending generation of a replacement, 0 is none
    pendingKind,         \* LegKind of that replacement
    attempt,             \* generation of the transfer deadline
    attached,            \* generations with a bound or owned media connection
    dialed,              \* provider calls that exist
    refs,                \* external_references, the provider calls bound
    linked,              \* generations with a ConnectProviderDestination effect
    transfers,           \* <<generation, attempt>> of ExecuteTransfer effects
    submitting,          \* those of them that are not reconciled
    events,              \* provider_events in the order of receipt_sequence
    fence, lease         \* of the worker, and of the call's assignment

callVars == <<call, leg, kind, peer, generation, cursor, pending, pendingKind,
              attempt, attached>>
dialVars == <<dialed, refs, linked, transfers, submitting>>
vars == <<callVars, dialVars, events, fence, lease>>

Generation == 1 .. MaxGeneration
Role == {"media", "destination"}
ProviderCall == Generation \X Role
Done == {"ended", "failed"}
Served == {"signaling", "connected", "held", "ending"}

\* ProviderEventEnvelope; by is the claimant's fence (0: the claim expired)
\* and completion how a reconciled event was completed.
Event == [source : ProviderCall, kind : EventKind, client : ClientState,
          attempt : 0 .. MaxAttempt,
          status : {"waiting", "ready", "claimed", "applied"},
          by : 0 .. MaxFence,
          completion : {"none", "command", "acknowledged"}]

Unfinished(e) == e.status \in {"ready", "claimed"}

Init ==
    /\ kind = InitialKind
    /\ call = IF InitialKind = "telnyx" THEN "connecting" ELSE "active"
    /\ leg = IF InitialKind = "telnyx" THEN "pending" ELSE "connected"
    /\ peer = IF InitialKind = "telnyx" THEN "setup" ELSE "connected"
    /\ attached = IF InitialKind = "telnyx" THEN {} ELSE {1}
    /\ generation = 1 /\ cursor = 1
    /\ pending = 0 /\ pendingKind = "other" /\ attempt = 0
    /\ dialed = {} /\ refs = {} /\ linked = {} /\ transfers = {}
    /\ submitting = {}
    /\ events = <<>>
    /\ fence = 1 /\ lease = 1

-----------------------------------------------------------------------------
(***************************************************************************)
(* The call.  Every command retires the connections of generations that    *)
(* are neither current on a served leg nor pending.                        *)
(***************************************************************************)
EnsureCallWorker == lease = fence /\ call # "terminal"

Retire(S) == {g \in S : \/ g = generation' /\ leg' \in Served
                        \/ g = pending'}

\* begin_ending_internal, when the legs are in the states l and p.
BeginEnding(l, p) ==
    /\ call' = "ending"
    /\ leg' = IF l \in Done THEN l ELSE "ending"
    /\ peer' = IF p = "done" THEN p ELSE "ending"
    /\ pending' = 0
    /\ UNCHANGED <<kind, generation, cursor, pendingKind, attempt>>

ValidLegTransition ==
    ({"pending"} \X {"signaling", "ending", "failed"})
    \cup ({"signaling"} \X {"connected", "ending", "failed"})
    \cup ({"connected", "held"} \X {"ending", "ended", "failed"})
    \cup ({"ending"} \X Done)

\* set_leg_state: an unchanged state is an ignored command.
SetLegState(s) ==
    \/ s = leg /\ UNCHANGED callVars
    \/ /\ <<leg, s>> \in ValidLegTransition
       /\ call = "ending" => leg = "ending"
       /\ IF s \in {"signaling", "connected"}
          THEN /\ leg' = s
               /\ call' = IF s = "connected" /\ call = "connecting" /\ peer = "connected"
                          THEN "active" ELSE call
               /\ UNCHANGED <<kind, peer, generation, cursor, pending,
                              pendingKind, attempt>>
          ELSE IF call # "ending" THEN BeginEnding(s, peer)
          ELSE /\ leg' = s
               /\ call' = IF peer = "done" THEN "terminal" ELSE call
               /\ UNCHANGED <<kind, peer, generation, cursor, pending,
                              pendingKind, attempt>>
       /\ attached' = Retire(attached)

\* finish_transfer and finish_leg_replacement; a rejection keeps the held leg.
FinishTransfer ==
    /\ call = "transferring" /\ pending = 0
    /\ call' = "active"
    /\ UNCHANGED <<leg, kind, peer, generation, cursor, pending, pendingKind,
                   attempt, attached>>

RejectReplacement ==
    /\ call = "transferring" /\ pending # 0
    /\ call' = "active" /\ leg' = "connected" /\ pending' = 0
    /\ UNCHANGED <<kind, peer, generation, cursor, pendingKind, attempt>>
    /\ attached' = Retire(attached)

PromoteReplacement ==
    /\ call = "transferring" /\ pending # 0
    /\ generation \in attached
    /\ call' = "active" /\ leg' = "connected" /\ pending' = 0
    /\ generation' = pending /\ kind' = pendingKind
    /\ UNCHANGED <<peer, cursor, pendingKind, attempt>>
    /\ attached' = Retire(attached \cup {pending})

-----------------------------------------------------------------------------
(***************************************************************************)
(* What the rest of the system does to the call.                           *)
(***************************************************************************)
PeerConnects ==
    /\ EnsureCallWorker
    /\ call = "connecting" /\ peer = "setup"
    /\ peer' = "connected"
    /\ call' = IF leg = "connected" THEN "active" ELSE call
    /\ UNCHANGED <<leg, kind, generation, cursor, pending, pendingKind,
                   attempt, attached>>

\* A hangup, a failed effect, a lost peer, a deadline or a restart.
CallEnds ==
    /\ EnsureCallWorker
    /\ call # "ending"
    /\ \E p \in {peer, "done"} : BeginEnding(leg, p)
    /\ attached' = Retire(attached)

\* The media connection of the leg reports its end.
ConnectionEnds ==
    /\ EnsureCallWorker
    /\ generation \in attached
    /\ \E s \in Done : SetLegState(s) /\ leg # s

PeerEnds ==
    /\ EnsureCallWorker
    /\ call = "ending" /\ peer = "ending"
    /\ peer' = "done"
    /\ call' = IF leg \in Done THEN "terminal" ELSE call
    /\ UNCHANGED <<leg, kind, generation, cursor, pending, pendingKind,
                   attempt, attached>>

EndingDeadlineElapses ==
    /\ EnsureCallWorker
    /\ call = "ending"
    /\ call' = "terminal" /\ peer' = "done"
    /\ leg' = IF leg \in Done THEN leg ELSE "failed"
    /\ attached' = {}
    /\ UNCHANGED <<kind, generation, cursor, pending, pendingKind, attempt>>

\* arm_deadline_internal refuses the generation after the last.
CanArm == attempt < MaxAttempt

\* begin_transfer of the provider leg, and the dispatch of ExecuteTransfer.
BeginTransfer ==
    /\ EnsureCallWorker
    /\ call = "active" /\ kind = "telnyx" /\ CanArm
    /\ call' = "transferring" /\ attempt' = attempt + 1
    /\ transfers' = transfers \cup {<<generation, attempt + 1>>}
    /\ submitting' = submitting \cup {<<generation, attempt + 1>>}
    /\ UNCHANGED <<leg, kind, peer, generation, cursor, pending, pendingKind,
                   attached, dialed, refs, linked>>

\* ExecuteTransfer is reconciled once: the provider took the request, and the
\* callback will settle the attempt, or the submission failed, timed out or
\* could not be made, and its follow-up rejects the transfer it was made for.
\* A submission that timed out may have reached the provider all the same.
TransferSubmitted(t) ==
    /\ t \in submitting /\ lease = fence
    /\ submitting' = submitting \ {t}
    /\ UNCHANGED <<callVars, dialed, refs, linked, transfers>>

TransferNotSubmitted(t) ==
    /\ t \in submitting /\ lease = fence
    /\ submitting' = submitting \ {t}
    /\ IF t[2] = attempt /\ call = "transferring" THEN FinishTransfer
       ELSE UNCHANGED callVars
    /\ UNCHANGED <<dialed, refs, linked, transfers>>

BeginReplacement(k) ==
    /\ EnsureCallWorker
    /\ call = "active" /\ leg = "connected"
    /\ CanArm /\ cursor < MaxGeneration
    /\ call' = "transferring" /\ leg' = "held" /\ attempt' = attempt + 1
    /\ cursor' = cursor + 1 /\ pending' = cursor + 1 /\ pendingKind' = k
    /\ UNCHANGED <<kind, peer, generation, attached>>

\* The follow-up of StartLegReplacement for an endpoint that is no provider.
ReplacementConnects ==
    /\ EnsureCallWorker /\ pendingKind = "other" /\ PromoteReplacement

ReplacementTimesOut == EnsureCallWorker /\ RejectReplacement

\* The SIP media connection of the provider consumes its attachment.
AttachMedia(g) ==
    /\ EnsureCallWorker
    /\ <<g, "media">> \in dialed /\ g \notin attached
    /\ \/ /\ g = generation /\ call = "connecting"
          /\ leg \in {"pending", "signaling"}
          /\ leg' = "signaling"
       \/ g = pending /\ leg' = leg
    /\ attached' = attached \cup {g}
    /\ UNCHANGED <<call, kind, peer, generation, cursor, pending, pendingKind,
                   attempt>>

-----------------------------------------------------------------------------
(***************************************************************************)
(* Dialing, and storing the references of what was dialed.                 *)
(***************************************************************************)
DialMedia(g) ==
    /\ <<g, "media">> \notin dialed
    /\ \/ /\ g = generation /\ kind = "telnyx"
          /\ call = "connecting" /\ leg \in {"pending", "signaling"}
       \/ g = pending /\ pendingKind = "telnyx"
    /\ dialed' = dialed \cup {<<g, "media">>}
    /\ UNCHANGED <<callVars, refs, linked, transfers, submitting>>

DialDestination(g) ==
    /\ <<g, "destination">> \notin dialed
    /\ \/ g \in linked /\ call # "terminal"
       \/ g = pending /\ g \in attached /\ <<g, "media">> \in dialed
    /\ dialed' = dialed \cup {<<g, "destination">>}
    /\ UNCHANGED <<callVars, refs, linked, transfers, submitting>>

\* store_external_reference_in_state for the roles R of a generation, with
\* bind_provider_reference_in_state, which releases the waiting events.
StoreReferences(g, R) ==
    LET new == {g} \X R
    IN  /\ EnsureCallWorker
        /\ new \subseteq dialed \ refs
        /\ refs' = refs \cup new
        /\ events' = [i \in DOMAIN events |->
                         IF events[i].source \in new /\ events[i].status = "waiting"
                         THEN [events[i] EXCEPT !.status = "ready"] ELSE events[i]]
        /\ UNCHANGED <<dialed, transfers, submitting, fence, lease>>

\* The result of StartLeg; a call that left connecting keeps only the reference.
MediaStarted ==
    /\ generation = 1
    /\ StoreReferences(1, {"media"})
    /\ IF call = "connecting" /\ leg \in {"pending", "signaling"}
       THEN /\ leg' = "signaling" /\ linked' = linked \cup {1}
            /\ UNCHANGED <<call, kind, peer, generation, cursor, pending,
                           pendingKind, attempt, attached>>
       ELSE UNCHANGED <<callVars, linked>>

\* The result of ConnectProviderDestination.
DestinationConnected ==
    /\ generation = 1
    /\ StoreReferences(1, {"destination"})
    /\ UNCHANGED <<callVars, linked>>

\* The result of StartLegReplacement: both calls were dialed, or the
\* attempt is rejected (or found cancelled) with its media call dialed.
ReplacementStarted(g) ==
    /\ g > 1
    /\ StoreReferences(g, Role)
    /\ UNCHANGED <<callVars, linked>>

ReplacementNotStarted(g) ==
    /\ g > 1
    /\ StoreReferences(g, {"media"})
    /\ IF pending = g THEN RejectReplacement ELSE UNCHANGED callVars
    /\ UNCHANGED linked

-----------------------------------------------------------------------------
(***************************************************************************)
(* Ingestion, claims and restart.                                          *)
(***************************************************************************)
IngestProviderEvent(p, k, c, n) ==
    /\ Len(events) < MaxEvents
    /\ p \in dialed
    /\ k = "bridged" => {p[1]} \X Role \subseteq dialed
    /\ IF c = "transfer" THEN p[2] = "media" /\ <<p[1], n>> \in transfers
       ELSE n = 0
    /\ events' = Append(events,
                    [source |-> p, kind |-> k, client |-> c, attempt |-> n,
                     status |-> IF p \in refs THEN "ready" ELSE "waiting",
                     by |-> 0, completion |-> "none"])
    /\ UNCHANGED <<callVars, dialVars, fence, lease>>

\* Fault: receipt order is kept by the sort of one batch only.
ClaimableInAnyOrder(i) ==
    /\ \/ events[i].status = "ready"
       \/ events[i].status = "claimed" /\ events[i].by = 0
    /\ lease = fence
    /\ events[i].kind = "bridged" => generation \in attached

\* provider_event_claimable.
ProviderEventClaimable(i) ==
    /\ \/ events[i].status = "ready"
       \/ events[i].status = "claimed" /\ events[i].by = 0
    /\ lease = fence
    /\ events[i].kind = "bridged" => generation \in attached
    /\ \A j \in 1 .. i - 1 :
          events[j].source = events[i].source => events[j].status = "applied"

ClaimProviderEvent(i) ==
    /\ ProviderEventClaimable(i)
    /\ events' = [events EXCEPT ![i].status = "claimed", ![i].by = fence]
    /\ UNCHANGED <<callVars, dialVars, fence, lease>>

ClaimLapses(i) ==
    /\ events[i].status = "claimed" /\ events[i].by # 0
    /\ events' = [events EXCEPT ![i].by = 0]
    /\ UNCHANGED <<callVars, dialVars, fence, lease>>

RegisterWorker ==
    /\ fence < MaxFence
    /\ fence' = fence + 1
    /\ UNCHANGED <<callVars, dialVars, events, lease>>

\* assignment_requires_catalog_continuity, with has_unfinished_provider_events.
RequiresContinuity ==
    call # "terminal" \/ \E i \in DOMAIN events : Unfinished(events[i])

\* claim_restart_calls.
ClaimRestartCall ==
    /\ lease < fence
    /\ RequiresContinuity
    /\ lease' = fence
    /\ events' = [i \in DOMAIN events |-> [events[i] EXCEPT !.by = 0]]
    /\ UNCHANGED <<callVars, dialVars, fence>>

-----------------------------------------------------------------------------
(***************************************************************************)
(* Reconciliation.  The read of the call, the follow-up built from it and  *)
(* the commit at the version read are one step: a conflict repeats them.   *)
(* An error leaves the event claimed until its claim lapses.               *)
(***************************************************************************)
IsCurrent(e) == e.source[1] = generation
IsPending(e) == e.source[1] = pending

TransferCallback(e) ==
    /\ e.source[2] = "media" /\ call = "transferring"
    /\ e.kind \in {"bridged", "failed"}

\* Fault: any transfer correlation of the leg settles a transfer.
CorrelatedToLeg(e) == e.client = "transfer"

\* correlated_provider_transfer_result.
Correlated(e) == e.client = "transfer" /\ e.attempt = attempt

\* telnyx_lifecycle_client_state_matches.
ClientMatches(e) ==
    e.client = "dial" \/ (e.client = "transfer" /\ e.source[2] = "media")

\* Fault: call.answered of the destination is taken for the connection.
ReportsOnAnswer(e) ==
    CASE e.kind = "failed" -> "failed"
      [] e.kind = "hangup" ->
            IF leg \in {"connected", "held", "ending"} THEN "ended" ELSE "failed"
      [] e.kind \in {"bridged", "progress"} ->
            IF leg \in {"connected", "held", "ending"} THEN leg ELSE "connected"
      [] OTHER -> leg

\* classify_provider_lifecycle and the leg state build_provider_follow_up
\* reports for it.
Reports(e) ==
    CASE e.kind = "failed" -> "failed"
      [] e.kind = "hangup" ->
            IF leg \in {"connected", "held", "ending"} THEN "ended" ELSE "failed"
      [] e.kind = "bridged" ->
            IF leg \in {"connected", "held", "ending"} THEN leg ELSE "connected"
      [] e.kind = "progress" -> IF leg = "pending" THEN "signaling" ELSE leg
      [] OTHER -> leg

\* The follow-up of an event of the current generation.
CurrentFollowUp(e) ==
    IF TransferCallback(e) THEN Correlated(e) /\ FinishTransfer
    ELSE /\ ClientMatches(e)
         /\ e.kind = "bridged" => generation \in attached
         /\ e.kind = "progress" => leg # "failed"
         /\ Reports(e) # "pending"
         /\ SetLegState(Reports(e))

\* Fault: only the destination's end rejects the attempt.
PendingEndsWithDestination(e) ==
    e.kind \in {"failed", "hangup"} /\ e.source[2] = "destination"

PendingEnds(e) == e.kind \in {"failed", "hangup"}

PendingConnects(e) == e.kind = "bridged" /\ e.source[2] = "destination"

\* build_pending_telnyx_replacement_follow_up.
PendingFollowUp(e) ==
    /\ e.client = "dial"
    /\ \/ PendingEnds(e) /\ RejectReplacement
       \/ PendingConnects(e) /\ pending \in attached /\ PromoteReplacement

\* ensure_stale_or_terminal_provider_ack, for an event without a follow-up.
Acknowledged(e) ==
    \/ call = "terminal"
    \/ ~IsCurrent(e) /\ ~IsPending(e)
    \/ IsPending(e) /\ (e.client # "dial" \/ ~(PendingEnds(e) \/ PendingConnects(e)))

Complete(i, how) ==
    /\ events[i].status = "claimed" /\ events[i].by = fence
    /\ lease = fence
    /\ events' = [events EXCEPT ![i].status = "applied", ![i].completion = how]
    /\ UNCHANGED <<dialVars, fence, lease>>

ReconcileProviderEvent(i) ==
    \/ Complete(i, "acknowledged") /\ Acknowledged(events[i]) /\ UNCHANGED callVars
    \/ /\ Complete(i, "command")
       /\ call # "terminal"
       /\ \/ IsCurrent(events[i]) /\ CurrentFollowUp(events[i])
          \/ IsPending(events[i]) /\ PendingFollowUp(events[i])

CallMoves ==
    /\ \/ PeerConnects \/ CallEnds \/ ConnectionEnds \/ PeerEnds
       \/ EndingDeadlineElapses
       \/ \E k \in {"telnyx", "other"} : BeginReplacement(k)
       \/ ReplacementConnects \/ ReplacementTimesOut
       \/ \E g \in Generation : AttachMedia(g)
    /\ UNCHANGED <<dialVars, events, fence, lease>>

Dials ==
    \/ \E g \in Generation :
        /\ DialMedia(g) \/ DialDestination(g)
        /\ UNCHANGED <<events, fence, lease>>
    \/ BeginTransfer /\ UNCHANGED <<events, fence, lease>>
    \/ \E t \in submitting :
        /\ TransferSubmitted(t) \/ TransferNotSubmitted(t)
        /\ UNCHANGED <<events, fence, lease>>
    \/ MediaStarted \/ DestinationConnected
    \/ \E g \in Generation : ReplacementStarted(g) \/ ReplacementNotStarted(g)

Next ==
    \/ CallMoves \/ Dials
    \/ RegisterWorker \/ ClaimRestartCall
    \/ \E p \in ProviderCall, k \in EventKind, c \in ClientState, n \in 0 .. MaxAttempt :
          IngestProviderEvent(p, k, c, n)
    \/ \E i \in DOMAIN events :
          ClaimProviderEvent(i) \/ ClaimLapses(i) \/ ReconcileProviderEvent(i)

Spec == Init /\ [][Next]_vars

\* The supervisor polls for claims and executes what it holds, a claim it
\* does not finish lapses, and a restarted worker takes its calls over.
Fairness ==
    /\ WF_vars(ClaimRestartCall)
    /\ \A i \in 1 .. MaxEvents :
          /\ WF_vars(i \in DOMAIN events /\ ClaimProviderEvent(i))
          /\ SF_vars(i \in DOMAIN events /\ ReconcileProviderEvent(i))

FairSpec == Spec /\ Fairness

-----------------------------------------------------------------------------
TypeOK ==
    /\ call \in {"connecting", "active", "transferring", "ending", "terminal"}
    /\ leg \in {"pending", "signaling", "connected", "held", "ending", "ended", "failed"}
    /\ kind \in {"telnyx", "other"} /\ pendingKind \in {"telnyx", "other"}
    /\ peer \in {"setup", "connected", "ending", "done"}
    /\ generation \in Generation /\ cursor \in Generation
    /\ pending \in 0 .. MaxGeneration /\ attempt \in 0 .. MaxAttempt
    /\ attached \subseteq Generation /\ linked \subseteq Generation
    /\ dialed \subseteq ProviderCall /\ refs \subseteq ProviderCall
    /\ transfers \subseteq Generation \X (1 .. MaxAttempt)
    /\ submitting \subseteq transfers
    /\ events \in Seq(Event) /\ Len(events) <= MaxEvents
    /\ fence \in 1 .. MaxFence /\ lease \in 1 .. MaxFence

\* The events of one provider call take effect in the order they were
\* received, over batches, lapsed claims and incarnations, also when they came
\* before the provider call was known: one that is claimed or applied has only
\* applied predecessors (provider_event_claimable).
EventsInOrder ==
    \A i \in DOMAIN events : \A j \in 1 .. i - 1 :
        /\ events[j].source = events[i].source
        /\ events[i].status \in {"claimed", "applied"}
        => events[j].status = "applied"

\* A provider leg talks only with the media connection of its current
\* generation attached and a call.bridged of that generation applied, the
\* destination's when the leg came by a replacement: neither SIP signaling,
\* an answer, nor a late event of another generation connects it.
ProviderLegIsProven ==
    kind = "telnyx" /\ leg \in {"connected", "held"} =>
        /\ generation \in attached
        /\ \E i \in DOMAIN events :
              /\ events[i].completion = "command" /\ events[i].kind = "bridged"
              /\ events[i].source \in {generation} \X
                    (IF generation = 1 THEN Role ELSE {"destination"})

\* After the end of either provider call of a generation was applied, the leg
\* never talks on that generation: a replacement whose media call hung up is
\* not promoted by a later call.bridged of its destination.
ProviderEndIsFinal ==
    \A i \in DOMAIN events :
        /\ events[i].status = "applied" /\ events[i].kind = "hangup"
        /\ events[i].client = "dial" /\ events[i].source[1] = generation
        => leg \notin {"pending", "signaling", "connected", "held"}

\* A provider transfer returns the call to active only by the callback of the
\* attempt under way or by the failed submission of that attempt: a callback
\* that arrives late, or a submission that fails late, of an earlier attempt
\* cannot settle the next one (correlated_provider_transfer_result,
\* finish_transfer).
TransfersNeedTheirCallback ==
    [][call = "transferring" /\ pending = 0 /\ call' = "active" =>
         \/ /\ <<generation, attempt>> \in submitting \ submitting'
            /\ events' = events
         \/ \E i \in DOMAIN events :
               /\ events[i].status = "claimed" /\ events'[i].status = "applied"
               /\ events[i].client = "transfer" /\ events[i].attempt = attempt
               /\ events[i].source = <<generation, "media">>]_vars
=============================================================================
