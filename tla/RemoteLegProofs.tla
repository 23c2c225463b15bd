------------------------- MODULE RemoteLegProofs -------------------------
(***************************************************************************)
(* Machine-checked proofs about the destination legs that somebody else    *)
(* places for Bridgefu: a provider, whose webhooks report on the leg, and  *)
(* the gateway of a private egress.  For any kinds of events and client    *)
(* states, any targets and any bounds.                                     *)
(***************************************************************************)
EXTENDS ProviderEvents, PrivateEgress, TLAPS


-----------------------------------------------------------------------------
(***************************************************************************)
(* The inductive invariant.                                                *)
(***************************************************************************)
CallType ==
    /\ call \in {"connecting", "active", "transferring", "ending", "terminal"}
    /\ leg \in {"pending", "signaling", "connected", "held", "ending", "ended", "failed"}
    /\ kind \in {"telnyx", "other"} /\ pendingKind \in {"telnyx", "other"}
    /\ peer \in {"setup", "connected", "ending", "done"}
    /\ generation \in Generation /\ cursor \in Generation
    /\ pending \in 0 .. MaxGeneration /\ attempt \in 0 .. MaxAttempt
    /\ attached \subseteq Generation

DialType ==
    /\ linked \subseteq Generation
    /\ dialed \subseteq ProviderCall /\ refs \subseteq ProviderCall
    /\ transfers \subseteq Generation \X (1 .. MaxAttempt)
    /\ submitting \subseteq transfers

EventType ==
    /\ events \in Seq(Event) /\ Len(events) <= MaxEvents
    /\ fence \in 1 .. MaxFence /\ lease \in 1 .. MaxFence

\* How the phase of the call, the leg and the generations go together.
Phases ==
    /\ generation <= cursor
    /\ pending # 0 => /\ call = "transferring" /\ leg = "held"
                      /\ generation < pending /\ pending <= cursor
    /\ call = "terminal" => leg \in Done
    /\ leg \in {"pending", "signaling"} => generation = 1

\* A provider call was dialed for a generation that was reserved, so the next
\* reserved generation has no event yet.
DialsAreReserved ==
    /\ \A p \in dialed : p[1] <= cursor
    /\ \A g \in linked : g = 1
    /\ \A i \in DOMAIN events : events[i].source \in dialed

\* Only an applied event was completed.
CompletionsAreApplied ==
    \A i \in DOMAIN events : events[i].completion # "none" => events[i].status = "applied"

\* No end of the pending generation was applied: it would have rejected the
\* replacement.
PendingIsAlive ==
    \A i \in DOMAIN events :
        /\ events[i].status = "applied" /\ events[i].kind = "hangup"
        /\ events[i].client = "dial"
        => events[i].source[1] # pending

\* No submission is of a later attempt, and one of the transfer under way is of
\* the leg's generation.
SubmissionsFollow ==
    \A t \in submitting :
        /\ t[2] <= attempt
        /\ t[2] = attempt /\ call = "transferring" /\ pending = 0 => t[1] = generation

IInv ==
    /\ CallType /\ DialType /\ EventType
    /\ Phases /\ DialsAreReserved /\ CompletionsAreApplied /\ PendingIsAlive
    /\ EventsInOrder /\ ProviderLegIsProven /\ ProviderEndIsFinal
    /\ SubmissionsFollow

-----------------------------------------------------------------------------
(***************************************************************************)
(* What set_leg_state does.                                                *)
(***************************************************************************)
LegStep(s) ==
    \/ s = leg /\ UNCHANGED callVars
    \/ /\ leg' = s
       /\ attached' = Retire(attached)
       /\ UNCHANGED <<kind, generation, cursor, pendingKind, attempt>>
       /\ \/ /\ s \in {"signaling", "connected"} /\ leg \in {"pending", "signaling"}
             /\ UNCHANGED <<peer, pending>>
             /\ call' = call \/ (call = "connecting" /\ call' = "active")
          \/ /\ s \in {"ending", "ended", "failed"} /\ call # "ending" /\ call' = "ending"
             /\ peer' \in {peer, "ending"} /\ pending' = 0
          \/ /\ s \in Done /\ leg = "ending" /\ call = "ending"
             /\ call' \in {"ending", "terminal"} /\ UNCHANGED <<peer, pending>>

\* The transitions of a leg, as a relation.
LEMMA LegTransitions ==
    ASSUME NEW a, NEW b, <<a, b>> \in ValidLegTransition
    PROVE  \/ a = "pending" /\ b \in {"signaling", "ending", "failed"}
           \/ a = "signaling" /\ b \in {"connected", "ending", "failed"}
           \/ a \in {"connected", "held"} /\ b \in {"ending", "ended", "failed"}
           \/ a = "ending" /\ b \in Done
  BY DEF ValidLegTransition

\* set_leg_state keeps the leg, advances a leg in setup, ends the call, or
\* settles the leg of an ending call.
LEMMA SetLegStateStep ==
    ASSUME NEW s, SetLegState(s)
    PROVE  LegStep(s)
  <1>1. CASE s = leg /\ UNCHANGED callVars
    BY <1>1 DEF LegStep
  <1>2. CASE ~(s = leg /\ UNCHANGED callVars)
    <2>1. /\ <<leg, s>> \in ValidLegTransition
          /\ call = "ending" => leg = "ending"
          /\ attached' = Retire(attached)
      BY <1>2 DEF SetLegState
    <2>2. \/ leg = "pending" /\ s \in {"signaling", "ending", "failed"}
          \/ leg = "signaling" /\ s \in {"connected", "ending", "failed"}
          \/ leg \in {"connected", "held"} /\ s \in {"ending", "ended", "failed"}
          \/ leg = "ending" /\ s \in Done
      BY <2>1, LegTransitions
    <2>3. CASE s \in {"signaling", "connected"}
      <3>1. /\ leg' = s
            /\ call' = IF s = "connected" /\ call = "connecting" /\ peer = "connected"
                       THEN "active" ELSE call
            /\ UNCHANGED <<kind, peer, generation, cursor, pending, pendingKind, attempt>>
        BY <1>2, <2>3 DEF SetLegState
      <3> QED
        BY <2>1, <2>2, <2>3, <3>1 DEF LegStep, Done
    <2>4. CASE s \notin {"signaling", "connected"} /\ call # "ending"
      <3>1. BeginEnding(s, peer)
        BY <1>2, <2>4 DEF SetLegState
      <3> QED
        BY <2>1, <2>2, <2>4, <3>1 DEF LegStep, BeginEnding, Done
    <2>5. CASE s \notin {"signaling", "connected"} /\ call = "ending"
      <3>1. /\ leg' = s
            /\ call' = IF peer = "done" THEN "terminal" ELSE call
            /\ UNCHANGED <<kind, peer, generation, cursor, pending, pendingKind, attempt>>
        BY <1>2, <2>5 DEF SetLegState
      <3> QED
        BY <2>1, <2>2, <2>5, <3>1 DEF LegStep, Done
    <2> QED
      BY <2>3, <2>4, <2>5
  <1> QED
    BY <1>1, <1>2

\* Retiring connections only removes them, and never the current one of a
\* served leg.
LEMMA RetireKeeps ==
    ASSUME NEW S
    PROVE  /\ Retire(S) \subseteq S
           /\ generation' \in S /\ leg' \in Served => generation' \in Retire(S)
  BY DEF Retire

-----------------------------------------------------------------------------
(***************************************************************************)
(* What a step does to the call.                                           *)
(***************************************************************************)
SignalingStarts ==
    /\ call = "connecting" /\ leg \in {"pending", "signaling"} /\ leg' = "signaling"
    /\ UNCHANGED <<call, kind, peer, generation, cursor, pending, pendingKind,
                   attempt, attached>>

\* The steps that complete no event.
PlainStep ==
    \/ UNCHANGED callVars
    \/ PeerConnects \/ CallEnds \/ PeerEnds \/ EndingDeadlineElapses
    \/ \E k \in {"telnyx", "other"} : BeginReplacement(k)
    \/ BeginTransfer
    \/ \E t \in submitting : TransferNotSubmitted(t) /\ UNCHANGED events
    \/ \E g \in Generation : AttachMedia(g)
    \/ SignalingStarts
    \/ RejectReplacement
    \/ pendingKind = "other" /\ PromoteReplacement
    \/ \E s \in Done : LegStep(s)

CallStep ==
    \/ PlainStep
    \/ FinishTransfer \/ PromoteReplacement
    \/ \E s : LegStep(s)

\* A failed submission finishes its transfer or leaves the call alone.
LEMMA NotSubmittedStep ==
    ASSUME NEW t, TransferNotSubmitted(t)
    PROVE  \/ UNCHANGED callVars
           \/ t[2] = attempt /\ FinishTransfer
  BY DEF TransferNotSubmitted

\* Completing an event takes one of these steps of the call.
LEMMA ReconcileStep ==
    ASSUME NEW i, ReconcileProviderEvent(i)
    PROVE  \/ UNCHANGED callVars
           \/ FinishTransfer \/ RejectReplacement \/ PromoteReplacement
           \/ \E s : LegStep(s)
  <1> DEFINE e == events[i]
  <1>1. CASE IsCurrent(e) /\ CurrentFollowUp(e)
    <2>1. FinishTransfer \/ SetLegState(Reports(e))
      BY <1>1 DEF CurrentFollowUp
    <2> QED
      BY <2>1, SetLegStateStep
  <1>2. CASE IsPending(e) /\ PendingFollowUp(e)
    BY <1>2 DEF PendingFollowUp
  <1> QED
    BY <1>1, <1>2 DEF ReconcileProviderEvent

\* Every step completes an event or is plain.
LEMMA StepOfCall ==
    ASSUME [Next]_vars
    PROVE  PlainStep \/ \E i \in DOMAIN events : ReconcileProviderEvent(i)
  <1>1. CASE UNCHANGED vars
    BY <1>1 DEF PlainStep, vars
  <1>2. CASE CallMoves
    <2>1. CASE ConnectionEnds
      <3>1. \E s \in Done : SetLegState(s)
        BY <2>1 DEF ConnectionEnds
      <3> QED
        BY <3>1, SetLegStateStep DEF PlainStep
    <2>2. CASE ReplacementConnects
      BY <2>2 DEF ReplacementConnects, PlainStep
    <2>3. CASE ReplacementTimesOut
      BY <2>3 DEF ReplacementTimesOut, PlainStep
    <2> QED
      BY <1>2, <2>1, <2>2, <2>3 DEF CallMoves, PlainStep
  <1>3. CASE Dials
    <2>1. CASE \E g \in Generation : DialMedia(g) \/ DialDestination(g)
      BY <2>1 DEF DialMedia, DialDestination, PlainStep
    <2>2. CASE MediaStarted
      BY <2>2 DEF MediaStarted, PlainStep, SignalingStarts
    <2>3. CASE DestinationConnected
      BY <2>3 DEF DestinationConnected, PlainStep
    <2>4. CASE \E g \in Generation : ReplacementStarted(g) \/ ReplacementNotStarted(g)
      BY <2>4 DEF ReplacementStarted, ReplacementNotStarted, PlainStep
    <2>5. CASE \E t \in submitting : /\ TransferSubmitted(t) \/ TransferNotSubmitted(t)
                                     /\ UNCHANGED <<events, fence, lease>>
      BY <2>5 DEF TransferSubmitted, PlainStep
    <2> QED
      BY <1>3, <2>1, <2>2, <2>3, <2>4, <2>5 DEF Dials, PlainStep
  <1>4. CASE RegisterWorker \/ ClaimRestartCall
    BY <1>4 DEF RegisterWorker, ClaimRestartCall, PlainStep
  <1>5. CASE \E p \in ProviderCall, k \in EventKind, c \in ClientState, n \in 0 .. MaxAttempt :
                IngestProviderEvent(p, k, c, n)
    BY <1>5 DEF IngestProviderEvent, PlainStep
  <1>6. CASE \E i \in DOMAIN events : ClaimProviderEvent(i) \/ ClaimLapses(i)
    BY <1>6 DEF ClaimProviderEvent, ClaimLapses, PlainStep
  <1>7. CASE \E i \in DOMAIN events : ReconcileProviderEvent(i)
    BY <1>7
  <1> QED
    BY <1>1, <1>2, <1>3, <1>4, <1>5, <1>6, <1>7 DEF Next

\* Every step takes one of the steps of CallStep.
LEMMA AnyStepOfCall ==
    ASSUME [Next]_vars
    PROVE  CallStep
  BY StepOfCall, ReconcileStep DEF CallStep, PlainStep

\* The steps of the call, with a failed submission by what it does.
LEMMA CallSteps ==
    ASSUME CallStep
    PROVE  \/ UNCHANGED callVars
           \/ PeerConnects \/ CallEnds \/ PeerEnds \/ EndingDeadlineElapses
           \/ \E k \in {"telnyx", "other"} : BeginReplacement(k)
           \/ BeginTransfer \/ FinishTransfer
           \/ \E g \in Generation : AttachMedia(g)
           \/ SignalingStarts \/ RejectReplacement \/ PromoteReplacement
           \/ \E s : LegStep(s)
  BY NotSubmittedStep DEF CallStep, PlainStep

\* A step of the call keeps the types and how the phases go together.
LEMMA CallStepKeepsPhases ==
    ASSUME CallType, Phases, CallStep
    PROVE  CallType' /\ Phases' /\ cursor <= cursor'
  <1> USE EventBoundAssumption DEF Generation
  <1>1. CASE UNCHANGED callVars
    BY <1>1 DEF callVars, CallType, Phases
  <1>2. CASE PeerConnects
    BY <1>2 DEF PeerConnects, CallType, Phases, Done
  <1>3. CASE CallEnds
    <2>1. attached' \subseteq attached
      BY <1>3, RetireKeeps DEF CallEnds
    <2>2. attached' \subseteq Generation
      BY <2>1 DEF CallType
    <2>3. CallType'
      BY <1>3, <2>2 DEF CallEnds, BeginEnding, CallType
    <2>4. Phases' /\ cursor <= cursor'
      BY <1>3 DEF CallEnds, BeginEnding, CallType, Phases, Done
    <2> QED
      BY <2>3, <2>4
  <1>4. CASE PeerEnds
    BY <1>4 DEF PeerEnds, CallType, Phases, Done
  <1>5. CASE EndingDeadlineElapses
    BY <1>5 DEF EndingDeadlineElapses, CallType, Phases, Done
  <1>6. CASE \E k \in {"telnyx", "other"} : BeginReplacement(k)
    BY <1>6 DEF BeginReplacement, CanArm, CallType, Phases, Done
  <1>7. CASE BeginTransfer
    BY <1>7 DEF BeginTransfer, CanArm, CallType, Phases, Done
  <1>8. CASE \E g \in Generation : AttachMedia(g)
    BY <1>8 DEF AttachMedia, CallType, Phases, Done
  <1>9. CASE SignalingStarts
    BY <1>9 DEF SignalingStarts, CallType, Phases, Done
  <1>10. CASE FinishTransfer
    BY <1>10 DEF FinishTransfer, CallType, Phases, Done
  <1>11. CASE RejectReplacement
    <2>1. attached' \subseteq attached
      BY <1>11, RetireKeeps DEF RejectReplacement
    <2>2. attached' \subseteq Generation
      BY <2>1 DEF CallType
    <2>3. CallType'
      BY <1>11, <2>2 DEF RejectReplacement, CallType
    <2>4. Phases' /\ cursor <= cursor'
      BY <1>11 DEF RejectReplacement, CallType, Phases, Done
    <2> QED
      BY <2>3, <2>4
  <1>12. CASE PromoteReplacement
    <2>1. attached' \subseteq attached \cup {pending}
      BY <1>12, RetireKeeps DEF PromoteReplacement
    <2>2. pending \in Generation
      BY <1>12 DEF PromoteReplacement, CallType
    <2>3. attached' \subseteq Generation
      BY <2>1, <2>2 DEF CallType
    <2>4. CallType'
      BY <1>12, <2>3, <2>2 DEF PromoteReplacement, CallType
    <2>5. Phases' /\ cursor <= cursor'
      BY <1>12, <2>2 DEF PromoteReplacement, CallType, Phases, Done
    <2> QED
      BY <2>4, <2>5
  <1>13. CASE \E s : LegStep(s) /\ ~UNCHANGED callVars
    <2>1. PICK s : LegStep(s) /\ ~UNCHANGED callVars
      BY <1>13
    <2>2. attached' \subseteq attached
      BY <2>1, RetireKeeps DEF LegStep
    <2>3. CallType'
      BY <2>1, <2>2 DEF LegStep, CallType, Done
    <2>4. Phases' /\ cursor <= cursor'
      BY <2>1 DEF LegStep, CallType, Phases, Done
    <2> QED
      BY <2>3, <2>4
  <1> QED
    BY <1>1, <1>2, <1>3, <1>4, <1>5, <1>6, <1>7, <1>8, <1>9, <1>10, <1>11, <1>12,
       <1>13, CallSteps

-----------------------------------------------------------------------------
(***************************************************************************)
(* What a step does to the events.                                         *)
(***************************************************************************)
\* Events keep their identity, and an applied event stays as it is.
EventsKept ==
    /\ DOMAIN events \subseteq DOMAIN events'
    /\ \A i \in DOMAIN events :
        /\ events'[i].source = events[i].source /\ events'[i].kind = events[i].kind
        /\ events'[i].client = events[i].client
        /\ events'[i].attempt = events[i].attempt
        /\ events[i].status = "applied" =>
              events'[i].status = "applied" /\ events'[i].completion = events[i].completion

\* No event is completed by the step.
NothingApplied ==
    \A i \in DOMAIN events' :
        /\ events'[i].status = "applied" => i \in DOMAIN events /\ events[i].status = "applied"
        /\ events'[i].completion # "none" =>
              i \in DOMAIN events /\ events'[i].completion = events[i].completion

\* An event is claimed or applied after the step only if it was before, or if
\* it could be claimed.
Advances ==
    \A i \in DOMAIN events' :
        events'[i].status \in {"claimed", "applied"} =>
            /\ i \in DOMAIN events
            /\ events[i].status \in {"claimed", "applied"} \/ ProviderEventClaimable(i)

\* New events come from dialed calls.
SourcesDialed ==
    \A i \in DOMAIN events' : i \in DOMAIN events \/ events'[i].source \in dialed

EventStep == EventType' /\ EventsKept /\ Advances /\ SourcesDialed

\* Storing references releases waiting events.
LEMMA StoreStep ==
    ASSUME EventType, CompletionsAreApplied, NEW g, NEW R, StoreReferences(g, R)
    PROVE  EventStep /\ NothingApplied /\ UNCHANGED dialed
  <1> DEFINE new == {g} \X R
             released(i) == events[i].source \in new /\ events[i].status = "waiting"
  <1>1. /\ events' = [i \in DOMAIN events |->
                        IF released(i) THEN [events[i] EXCEPT !.status = "ready"] ELSE events[i]]
        /\ UNCHANGED <<dialed, fence, lease>>
    BY DEF StoreReferences
  <1>2. events \in Seq(Event) /\ Len(events) \in Nat /\ DOMAIN events = 1 .. Len(events)
    BY DEF EventType
  <1>3. \A i \in DOMAIN events : events[i] \in Event
    BY <1>2
  <1> HIDE DEF released
  <1>4. DOMAIN events' = DOMAIN events
    BY <1>1
  <1>5. \A i \in DOMAIN events :
            /\ events'[i] \in Event
            /\ events'[i].source = events[i].source /\ events'[i].kind = events[i].kind
            /\ events'[i].client = events[i].client
            /\ events'[i].attempt = events[i].attempt
            /\ events'[i].completion = events[i].completion
            /\ events'[i].status = events[i].status
                 \/ (events[i].status = "waiting" /\ events'[i].status = "ready")
    BY <1>1, <1>3 DEF Event, released
  <1>6. events' \in Seq(Event) /\ Len(events') = Len(events)
    <2>1. events' = [i \in 1 .. Len(events) |-> events'[i]]
      BY <1>1, <1>2
    <2> QED
      BY <1>2, <1>4, <1>5, <2>1
  <1>7. EventType'
    BY <1>1, <1>6 DEF EventType
  <1> QED
    BY <1>1, <1>4, <1>5, <1>7
       DEF EventStep, EventsKept, Advances, SourcesDialed, NothingApplied

\* Ingestion appends an event that is neither claimed nor applied.
LEMMA IngestStep ==
    ASSUME EventType, NEW p \in ProviderCall, NEW k \in EventKind, NEW c \in ClientState,
           NEW n \in 0 .. MaxAttempt, IngestProviderEvent(p, k, c, n)
    PROVE  EventStep /\ NothingApplied /\ UNCHANGED dialed
  <1> DEFINE e == [source |-> p, kind |-> k, client |-> c, attempt |-> n,
                   status |-> IF p \in refs THEN "ready" ELSE "waiting",
                   by |-> 0, completion |-> "none"]
  <1>1. /\ events' = Append(events, e) /\ Len(events) < MaxEvents /\ p \in dialed
        /\ UNCHANGED <<dialed, fence, lease>>
    BY DEF IngestProviderEvent, dialVars
  <1>2. events \in Seq(Event) /\ Len(events) \in Nat
    BY DEF EventType
  <1>3. /\ e \in Event /\ e.status \in {"ready", "waiting"} /\ e.source = p
        /\ e.completion = "none"
    BY EventBoundAssumption DEF Event
  <1> HIDE DEF e
  <1>4. /\ events' \in Seq(Event) /\ Len(events') = Len(events) + 1
        /\ DOMAIN events' = 1 .. Len(events) + 1 /\ DOMAIN events = 1 .. Len(events)
        /\ \A i \in DOMAIN events : events'[i] = events[i]
        /\ events'[Len(events) + 1] = e
    BY <1>1, <1>2, <1>3
  <1>5. EventType'
    BY <1>1, <1>2, <1>4, EventBoundAssumption DEF EventType
  <1>6. \A i \in DOMAIN events' : i \in DOMAIN events \/ i = Len(events) + 1
    BY <1>2, <1>4
  <1> QED
    BY <1>1, <1>3, <1>4, <1>5, <1>6
       DEF EventStep, EventsKept, Advances, SourcesDialed, NothingApplied

\* Claiming needs a claimable event; a claim that lapses changes only itself.
LEMMA ClaimStep ==
    ASSUME EventType, CompletionsAreApplied, NEW i \in DOMAIN events,
           ClaimProviderEvent(i) \/ ClaimLapses(i)
    PROVE  EventStep /\ NothingApplied /\ UNCHANGED dialed
  <1>1. events \in Seq(Event) /\ Len(events) \in Nat /\ DOMAIN events = 1 .. Len(events)
    BY DEF EventType
  <1>2. events[i] \in Event
    BY <1>1
  <1>0. fence \in 0 .. MaxFence
    BY EventBoundAssumption DEF EventType
  <1>3. CASE ClaimProviderEvent(i)
    <2> DEFINE e == [events[i] EXCEPT !.status = "claimed", !.by = fence]
    <2>1. /\ events' = [events EXCEPT ![i] = e] /\ UNCHANGED <<dialed, fence, lease>>
          /\ ProviderEventClaimable(i)
      BY <1>1, <1>3 DEF ClaimProviderEvent, dialVars
    <2>2. /\ e \in Event /\ e.status = "claimed" /\ e.completion = events[i].completion
          /\ e.source = events[i].source /\ e.kind = events[i].kind
          /\ e.client = events[i].client /\ e.attempt = events[i].attempt
      BY <1>0, <1>2 DEF Event
    <2>3. events[i].status # "applied"
      BY <2>1 DEF ProviderEventClaimable
    <2> HIDE DEF e
    <2>4. /\ events' \in Seq(Event) /\ Len(events') = Len(events)
          /\ DOMAIN events' = DOMAIN events /\ events'[i] = e
          /\ \A j \in DOMAIN events : j # i => events'[j] = events[j]
      BY <1>1, <2>1, <2>2
    <2>5. EventType'
      BY <2>1, <2>4 DEF EventType
    <2> QED
      BY <2>1, <2>2, <2>3, <2>4, <2>5
         DEF EventStep, EventsKept, Advances, SourcesDialed, NothingApplied
  <1>4. CASE ClaimLapses(i)
    <2> DEFINE e == [events[i] EXCEPT !.by = 0]
    <2>1. events' = [events EXCEPT ![i] = e] /\ UNCHANGED <<dialed, fence, lease>>
      BY <1>1, <1>4 DEF ClaimLapses, dialVars
    <2>2. /\ e \in Event /\ e.status = events[i].status /\ e.completion = events[i].completion
          /\ e.source = events[i].source /\ e.kind = events[i].kind
          /\ e.client = events[i].client /\ e.attempt = events[i].attempt
      BY <1>2, EventBoundAssumption DEF Event
    <2> HIDE DEF e
    <2>4. /\ events' \in Seq(Event) /\ Len(events') = Len(events)
          /\ DOMAIN events' = DOMAIN events /\ events'[i] = e
          /\ \A j \in DOMAIN events : j # i => events'[j] = events[j]
      BY <1>1, <2>1, <2>2
    <2>5. EventType'
      BY <2>1, <2>4 DEF EventType
    <2> QED
      BY <2>1, <2>2, <2>4, <2>5
         DEF EventStep, EventsKept, Advances, SourcesDialed, NothingApplied
  <1> QED
    BY <1>3, <1>4

\* A takeover gives the claims back.
LEMMA RestartStep ==
    ASSUME EventType, ClaimRestartCall
    PROVE  EventStep /\ NothingApplied /\ UNCHANGED dialed
  <1>1. /\ events' = [i \in DOMAIN events |-> [events[i] EXCEPT !.by = 0]]
        /\ lease' = fence /\ UNCHANGED <<dialed, fence>>
    BY DEF ClaimRestartCall, dialVars
  <1>2. events \in Seq(Event) /\ Len(events) \in Nat /\ DOMAIN events = 1 .. Len(events)
    BY DEF EventType
  <1>3. \A i \in DOMAIN events : events[i] \in Event
    BY <1>2
  <1>4. DOMAIN events' = DOMAIN events
    BY <1>1
  <1>5. \A i \in DOMAIN events :
            /\ events'[i] \in Event
            /\ events'[i].source = events[i].source /\ events'[i].kind = events[i].kind
            /\ events'[i].client = events[i].client
            /\ events'[i].attempt = events[i].attempt
            /\ events'[i].completion = events[i].completion
            /\ events'[i].status = events[i].status
    BY <1>1, <1>3, EventBoundAssumption DEF Event
  <1>6. events' \in Seq(Event) /\ Len(events') = Len(events)
    <2>1. events' = [i \in 1 .. Len(events) |-> events'[i]]
      BY <1>1, <1>2
    <2> QED
      BY <1>2, <1>4, <1>5, <2>1
  <1>7. EventType'
    BY <1>1, <1>6 DEF EventType
  <1> QED
    BY <1>1, <1>4, <1>5, <1>7
       DEF EventStep, EventsKept, Advances, SourcesDialed, NothingApplied

\* Completing event i applies it and no other.
LEMMA CompleteStep ==
    ASSUME EventType, NEW i \in DOMAIN events, NEW how \in {"command", "acknowledged"},
           Complete(i, how)
    PROVE  /\ EventStep /\ UNCHANGED dialed
           /\ events[i].status = "claimed"
           /\ events'[i].status = "applied" /\ events'[i].completion = how
           /\ DOMAIN events' = DOMAIN events
           /\ \A j \in DOMAIN events : j # i => events'[j] = events[j]
  <1>1. events \in Seq(Event) /\ Len(events) \in Nat /\ DOMAIN events = 1 .. Len(events)
    BY DEF EventType
  <1>2. events[i] \in Event
    BY <1>1
  <1> DEFINE e == [events[i] EXCEPT !.status = "applied", !.completion = how]
  <1>3. /\ events' = [events EXCEPT ![i] = e] /\ UNCHANGED <<dialed, fence, lease>>
        /\ events[i].status = "claimed"
    BY <1>1 DEF Complete, dialVars
  <1>4. /\ e \in Event /\ e.status = "applied" /\ e.completion = how
        /\ e.source = events[i].source /\ e.kind = events[i].kind
        /\ e.client = events[i].client /\ e.attempt = events[i].attempt
    BY <1>2 DEF Event
  <1> HIDE DEF e
  <1>5. /\ events' \in Seq(Event) /\ Len(events') = Len(events)
        /\ DOMAIN events' = DOMAIN events /\ events'[i] = e
        /\ \A j \in DOMAIN events : j # i => events'[j] = events[j]
    BY <1>1, <1>3, <1>4
  <1>6. EventType'
    BY <1>3, <1>5 DEF EventType
  <1> QED
    BY <1>3, <1>4, <1>5, <1>6
       DEF EventStep, EventsKept, Advances, SourcesDialed

\* Every step is an event step, and one that completes no event applies none.
LEMMA StepOfEvents ==
    ASSUME EventType, CompletionsAreApplied, [Next]_vars
    PROVE  /\ EventStep
           /\ NothingApplied \/ \E i \in DOMAIN events : ReconcileProviderEvent(i)
  <1>1. ASSUME UNCHANGED <<events, fence, lease>>
        PROVE  EventStep /\ NothingApplied
    BY <1>1 DEF EventStep, EventType, EventsKept, Advances, SourcesDialed, NothingApplied
  <1>2. CASE UNCHANGED vars
    BY <1>1, <1>2 DEF vars
  <1>3. CASE CallMoves
    BY <1>1, <1>3 DEF CallMoves
  <1>4. CASE Dials
    <2>1. CASE UNCHANGED <<events, fence, lease>>
      BY <1>1, <2>1
    <2>2. CASE MediaStarted
      BY <2>2, StoreStep DEF MediaStarted
    <2>3. CASE DestinationConnected
      BY <2>3, StoreStep DEF DestinationConnected
    <2>4. CASE \E g \in Generation : ReplacementStarted(g) \/ ReplacementNotStarted(g)
      BY <2>4, StoreStep DEF ReplacementStarted, ReplacementNotStarted
    <2> QED
      BY <1>4, <2>1, <2>2, <2>3, <2>4 DEF Dials
  <1>5. CASE RegisterWorker
    <2>1. UNCHANGED <<events, lease>> /\ fence' \in 1 .. MaxFence
      BY <1>5, EventBoundAssumption DEF RegisterWorker, EventType
    <2> QED
      BY <2>1 DEF EventStep, EventType, EventsKept, Advances, SourcesDialed, NothingApplied
  <1>6. CASE ClaimRestartCall
    BY <1>6, RestartStep
  <1>7. CASE \E p \in ProviderCall, k \in EventKind, c \in ClientState, n \in 0 .. MaxAttempt :
                IngestProviderEvent(p, k, c, n)
    BY <1>7, IngestStep
  <1>8. CASE \E i \in DOMAIN events : ClaimProviderEvent(i) \/ ClaimLapses(i)
    BY <1>8, ClaimStep
  <1>9. CASE \E i \in DOMAIN events : ReconcileProviderEvent(i)
    <2>1. PICK i \in DOMAIN events : ReconcileProviderEvent(i)
      BY <1>9
    <2>2. \E how \in {"command", "acknowledged"} : Complete(i, how)
      BY <2>1 DEF ReconcileProviderEvent
    <2> QED
      BY <2>1, <2>2, CompleteStep
  <1> QED
    BY <1>2, <1>3, <1>4, <1>5, <1>6, <1>7, <1>8, <1>9 DEF Next

\* The order of receipt is kept: an event becomes claimed only after its
\* predecessors were applied, and applied events stay applied.
LEMMA StepKeepsOrder ==
    ASSUME EventType, EventsInOrder, EventStep
    PROVE  EventsInOrder'
  <1> SUFFICES ASSUME NEW i \in DOMAIN events', NEW j \in 1 .. i - 1,
                      events'[j].source = events'[i].source,
                      events'[i].status \in {"claimed", "applied"}
               PROVE  events'[j].status = "applied"
    BY DEF EventsInOrder
  <1>1. /\ i \in DOMAIN events
        /\ events[i].status \in {"claimed", "applied"} \/ ProviderEventClaimable(i)
    BY DEF EventStep, Advances
  <1>2. j \in DOMAIN events
    BY <1>1 DEF EventType
  <1>3. events[j].source = events[i].source
    BY <1>1, <1>2 DEF EventStep, EventsKept
  <1>4. events[j].status = "applied"
    BY <1>1, <1>3 DEF EventsInOrder, ProviderEventClaimable
  <1> QED
    BY <1>2, <1>4 DEF EventStep, EventsKept

\* What a step dials, links and stores stays within the types, and dialed
\* provider calls stay dialed, for reserved generations.
LEMMA StepKeepsDials ==
    ASSUME CallType, DialType, EventType, Phases, DialsAreReserved, EventStep,
           CompletionsAreApplied, cursor <= cursor', CallType', [Next]_vars
    PROVE  DialType' /\ DialsAreReserved'
  <1>1. ASSUME dialed \subseteq dialed', \A p \in dialed' \ dialed : p[1] <= cursor',
               linked' \subseteq linked \cup {1}
        PROVE  DialsAreReserved'
    <2>1. \A p \in dialed' : p[1] <= cursor'
      <3> SUFFICES ASSUME NEW p \in dialed, p[1] <= cursor
                   PROVE  p[1] <= cursor'
        BY <1>1 DEF DialsAreReserved
      <3>1. p[1] \in Generation
        BY DEF DialType, ProviderCall
      <3> QED
        BY <3>1, EventBoundAssumption DEF CallType, Generation
    <2>2. \A i \in DOMAIN events' : events'[i].source \in dialed'
      BY <1>1 DEF DialsAreReserved, EventStep, EventsKept, SourcesDialed
    <2> QED
      BY <1>1, <2>1, <2>2 DEF DialsAreReserved
  <1>2. CASE UNCHANGED dialVars
    BY <1>1, <1>2 DEF dialVars, DialType
  <1>3. CASE \E g \in Generation : DialMedia(g) \/ DialDestination(g)
    <2>1. PICK g \in Generation : DialMedia(g) \/ DialDestination(g)
      BY <1>3
    <2>2. PICK r \in Role : dialed' = dialed \cup {<<g, r>>} /\ UNCHANGED <<callVars, refs, linked, transfers, submitting>>
      BY <2>1 DEF DialMedia, DialDestination, Role
    <2>3. g <= cursor
      <3>1. CASE g = generation \/ (pending # 0 /\ g = pending)
        BY <3>1 DEF Phases, CallType, Generation
      <3>2. CASE g \in linked
        BY <3>2, EventBoundAssumption DEF DialsAreReserved, CallType, Generation
      <3> QED
        BY <2>1, <3>1, <3>2, EventBoundAssumption DEF DialMedia, DialDestination, Generation
    <2>4. UNCHANGED cursor
      BY <2>2 DEF callVars
    <2>5. DialType'
      BY <2>2 DEF DialType, ProviderCall
    <2> QED
      BY <1>1, <2>2, <2>3, <2>4, <2>5
  <1>4. CASE BeginTransfer
    <2>1. /\ transfers' = transfers \cup {<<generation, attempt + 1>>}
          /\ submitting' = submitting \cup {<<generation, attempt + 1>>}
          /\ UNCHANGED <<dialed, refs, linked>>
      BY <1>4 DEF BeginTransfer
    <2>2. generation \in Generation /\ attempt + 1 \in 1 .. MaxAttempt
      BY <1>4, EventBoundAssumption DEF BeginTransfer, CanArm, CallType
    <2>3. DialType'
      BY <2>1, <2>2 DEF DialType
    <2> QED
      BY <1>1, <2>1, <2>3
  <1>5. ASSUME NEW g \in Generation, NEW R \in SUBSET Role, StoreReferences(g, R),
               linked' \subseteq linked \cup {1}
        PROVE  DialType' /\ DialsAreReserved'
    <2>1. refs' = refs \cup ({g} \X R) /\ UNCHANGED <<dialed, transfers, submitting>>
      BY <1>5 DEF StoreReferences
    <2>2. {g} \X R \subseteq ProviderCall
      BY DEF ProviderCall
    <2>3. linked' \subseteq Generation
      BY <1>5, EventBoundAssumption DEF DialType, Generation
    <2>4. DialType'
      BY <2>1, <2>2, <2>3 DEF DialType
    <2> QED
      BY <1>1, <1>5, <2>1, <2>4
  <1>6. CASE MediaStarted \/ DestinationConnected
    <2>1. \E R \in SUBSET Role : StoreReferences(1, R)
      BY <1>6 DEF MediaStarted, DestinationConnected, Role
    <2>2. linked' \subseteq linked \cup {1}
      BY <1>6 DEF MediaStarted, DestinationConnected
    <2>3. 1 \in Generation
      BY EventBoundAssumption DEF Generation
    <2> QED
      BY <1>5, <2>1, <2>2, <2>3
  <1>7. CASE \E g \in Generation : ReplacementStarted(g) \/ ReplacementNotStarted(g)
    <2>1. \E g \in Generation, R \in SUBSET Role : StoreReferences(g, R)
      BY <1>7 DEF ReplacementStarted, ReplacementNotStarted, Role
    <2>2. linked' \subseteq linked \cup {1}
      BY <1>7 DEF ReplacementStarted, ReplacementNotStarted
    <2> QED
      BY <1>5, <2>1, <2>2
  <1>8. CASE \E i \in DOMAIN events : ReconcileProviderEvent(i)
    BY <1>2, <1>8 DEF ReconcileProviderEvent, Complete
  <1>9. CASE \E i \in DOMAIN events : ClaimProviderEvent(i) \/ ClaimLapses(i)
    BY <1>2, <1>9 DEF ClaimProviderEvent, ClaimLapses
  <1>10. CASE UNCHANGED vars \/ CallMoves \/ RegisterWorker \/ ClaimRestartCall
    BY <1>2, <1>10 DEF vars, CallMoves, RegisterWorker, ClaimRestartCall
  <1>11. CASE \E p \in ProviderCall, k \in EventKind, c \in ClientState, n \in 0 .. MaxAttempt :
                 IngestProviderEvent(p, k, c, n)
    BY <1>2, <1>11 DEF IngestProviderEvent
  <1>13. CASE \E t \in submitting : TransferSubmitted(t) \/ TransferNotSubmitted(t)
    BY <1>1, <1>13 DEF TransferSubmitted, TransferNotSubmitted, DialType
  <1>12. CASE Dials
    BY <1>3, <1>4, <1>6, <1>7, <1>12, <1>13 DEF Dials
  <1> QED
    BY <1>8, <1>9, <1>10, <1>11, <1>12 DEF Next

-----------------------------------------------------------------------------
(***************************************************************************)
(* The end of a provider call is final.                                    *)
(***************************************************************************)
Live == {"pending", "signaling", "connected", "held"}
EndApplied(e) == e.status = "applied" /\ e.kind = "hangup" /\ e.client = "dial"
Finished(g) == g # pending /\ (g = generation => leg \notin Live)

\* The ends that were applied have finished their generation.
EndsAreFinished == \A i \in DOMAIN events : EndApplied(events[i]) => Finished(events[i].source[1])

\* The two invariants about ends, as one.
LEMMA EndsAreFinishedMeans ==
    EndsAreFinished <=> PendingIsAlive /\ ProviderEndIsFinal
  BY DEF EndsAreFinished, EndApplied, Finished, Live, PendingIsAlive, ProviderEndIsFinal

\* No step revives a finished generation.
LEMMA FinishedStays ==
    ASSUME CallType, Phases, CallStep, NEW g \in Generation, g <= cursor, Finished(g)
    PROVE  Finished(g)'
  <1> USE EventBoundAssumption DEF Generation
  <1>1. CASE UNCHANGED callVars
    BY <1>1 DEF callVars, Finished
  <1>2. CASE PeerConnects
    BY <1>2 DEF PeerConnects, Finished
  <1>3. CASE CallEnds
    BY <1>3 DEF CallEnds, BeginEnding, Finished, Done, Live
  <1>4. CASE PeerEnds
    BY <1>4 DEF PeerEnds, Finished
  <1>5. CASE EndingDeadlineElapses
    BY <1>5 DEF EndingDeadlineElapses, Finished, Done, Live
  <1>6. CASE \E k \in {"telnyx", "other"} : BeginReplacement(k)
    BY <1>6 DEF BeginReplacement, Finished, Live, CallType
  <1>7. CASE BeginTransfer
    BY <1>7 DEF BeginTransfer, Finished
  <1>8. CASE \E h \in Generation : AttachMedia(h)
    BY <1>8 DEF AttachMedia, Finished, Live
  <1>9. CASE SignalingStarts
    BY <1>9 DEF SignalingStarts, Finished, Live
  <1>10. CASE FinishTransfer
    BY <1>10 DEF FinishTransfer, Finished
  <1>11. CASE RejectReplacement
    BY <1>11 DEF RejectReplacement, Finished, Live, Phases
  <1>12. CASE PromoteReplacement
    BY <1>12 DEF PromoteReplacement, Finished
  <1>13. CASE \E s : LegStep(s) /\ ~UNCHANGED callVars
    BY <1>13 DEF LegStep, Finished, Live, Done
  <1> QED
    BY <1>1, <1>2, <1>3, <1>4, <1>5, <1>6, <1>7, <1>8, <1>9, <1>10, <1>11, <1>12,
       <1>13, CallSteps

\* The end of a provider call finishes its generation when it is applied.
LEMMA EndFinishes ==
    ASSUME CallType, Phases, NEW i \in DOMAIN events, ReconcileProviderEvent(i),
           events[i].kind = "hangup", events[i].client = "dial",
           NEW g \in Generation, g = events[i].source[1]
    PROVE  Finished(g)'
  <1> USE EventBoundAssumption DEF Generation
  <1> DEFINE e == events[i]
  <1>1. CASE Acknowledged(e) /\ UNCHANGED callVars
    BY <1>1 DEF Acknowledged, callVars, IsCurrent, IsPending, PendingEnds, PendingConnects,
                Phases, Finished, Live, Done
  <1>2. CASE IsCurrent(e) /\ CurrentFollowUp(e)
    <2>1. g = generation
      BY <1>2 DEF IsCurrent
    <2>2. Reports(e) \in Done /\ SetLegState(Reports(e))
      BY <1>2 DEF CurrentFollowUp, TransferCallback, Reports, Done
    <2>3. \E s \in Done : LegStep(s)
      BY <2>2, SetLegStateStep
    <2> QED
      BY <2>1, <2>3 DEF LegStep, callVars, Finished, Live, Done, Phases, CallType
  <1>3. CASE IsPending(e) /\ PendingFollowUp(e)
    <2>1. g = pending /\ RejectReplacement
      BY <1>3 DEF IsPending, PendingFollowUp, PendingConnects
    <2> QED
      BY <2>1 DEF RejectReplacement, Finished, Phases, CallType
  <1> QED
    BY <1>1, <1>2, <1>3 DEF ReconcileProviderEvent

\* Every step keeps the applied ends final and completed events applied.
LEMMA StepKeepsEnds ==
    ASSUME IInv, [Next]_vars
    PROVE  CompletionsAreApplied' /\ PendingIsAlive' /\ ProviderEndIsFinal'
  <1>1. /\ CallType /\ Phases /\ CallStep /\ EventType /\ EventStep
        /\ NothingApplied \/ \E i \in DOMAIN events : ReconcileProviderEvent(i)
    BY StepOfEvents, AnyStepOfCall DEF IInv
  <1>2. EndsAreFinished
    BY EndsAreFinishedMeans DEF IInv
  <1>3. \A i \in DOMAIN events : events[i].source[1] \in Generation /\ events[i].source[1] <= cursor
    BY DEF IInv, DialsAreReserved, DialType, ProviderCall
  <1>4. ASSUME NEW i \in DOMAIN events', EndApplied(events'[i]),
               i \in DOMAIN events, EndApplied(events[i])
        PROVE  Finished(events[i].source[1])'
    <2>1. PICK g : g = events[i].source[1]
      OBVIOUS
    <2>2. g \in Generation /\ g <= cursor /\ Finished(g)
      BY <1>2, <1>3, <1>4, <2>1 DEF EndsAreFinished
    <2>3. Finished(g)'
      BY <1>1, <2>2, FinishedStays
    <2>4. events'[i].source[1] = g
      BY <1>1, <1>4, <2>1 DEF EventStep, EventsKept
    <2> QED
      BY <2>3, <2>4 DEF Finished
  <1>5. CASE NothingApplied
    <2>1. EndsAreFinished'
      <3> SUFFICES ASSUME NEW i \in DOMAIN events', EndApplied(events'[i])
                   PROVE  Finished(events[i].source[1])'
        BY DEF EndsAreFinished, EndApplied
      <3>1. i \in DOMAIN events /\ EndApplied(events[i])
        BY <1>1, <1>5 DEF NothingApplied, EventStep, EventsKept, EndApplied
      <3> QED
        BY <1>4, <3>1
    <2>2. CompletionsAreApplied'
      BY <1>1, <1>5 DEF IInv, CompletionsAreApplied, NothingApplied, EventStep, EventsKept
    <2> QED
      BY <2>1, <2>2, EndsAreFinishedMeans, PTL
  <1>6. CASE \E i \in DOMAIN events : ReconcileProviderEvent(i)
    <2>1. PICK i \in DOMAIN events : ReconcileProviderEvent(i)
      BY <1>6
    <2>2. \E how \in {"command", "acknowledged"} : Complete(i, how)
      BY <2>1 DEF ReconcileProviderEvent
    <2>3. /\ events'[i].status = "applied" /\ DOMAIN events' = DOMAIN events
          /\ \A j \in DOMAIN events : j # i => events'[j] = events[j]
      BY <1>1, <2>2, CompleteStep
    <2>4. EndsAreFinished'
      <3> SUFFICES ASSUME NEW j \in DOMAIN events', EndApplied(events'[j])
                   PROVE  Finished(events[j].source[1])'
        BY DEF EndsAreFinished, EndApplied
      <3>1. CASE j # i
        BY <1>4, <2>3, <3>1
      <3>2. CASE j = i
        <4>1. PICK g : g = events[i].source[1]
          OBVIOUS
        <4>2. events[i].kind = "hangup" /\ events[i].client = "dial" /\ events'[i].source[1] = g
          BY <1>1, <3>2, <4>1 DEF EndApplied, EventStep, EventsKept
        <4>3. Finished(g)'
          BY <1>1, <1>3, <2>1, <4>1, <4>2, EndFinishes
        <4> QED
          BY <3>2, <4>2, <4>3 DEF Finished
      <3> QED
        BY <3>1, <3>2
    <2>5. CompletionsAreApplied'
      BY <2>3 DEF IInv, CompletionsAreApplied
    <2> QED
      BY <2>4, <2>5, EndsAreFinishedMeans, PTL
  <1> QED
    BY <1>1, <1>5, <1>6

-----------------------------------------------------------------------------
(***************************************************************************)
(* A provider leg that talks was proven by a call.bridged.                 *)
(***************************************************************************)
Talks == kind = "telnyx" /\ leg \in {"connected", "held"}
Proves(e, g) ==
    /\ e.completion = "command" /\ e.kind = "bridged"
    /\ e.source \in {g} \X (IF g = 1 THEN Role ELSE {"destination"})
Proven(g) == \E i \in DOMAIN events : Proves(events[i], g)

\* The invariant in terms of these definitions.
LEMMA ProvenMeans ==
    ProviderLegIsProven <=> (Talks => generation \in attached /\ Proven(generation))
  BY DEF ProviderLegIsProven, Talks, Proven, Proves

\* A proof is never lost.
LEMMA ProvenStays ==
    ASSUME CompletionsAreApplied, EventStep, NEW g, Proven(g)
    PROVE  Proven(g)'
  <1>1. PICK i \in DOMAIN events : Proves(events[i], g)
    BY DEF Proven
  <1>2. events[i].status = "applied"
    BY <1>1 DEF Proves, CompletionsAreApplied
  <1>3. i \in DOMAIN events' /\ Proves(events'[i], g)
    BY <1>1, <1>2 DEF EventStep, EventsKept, Proves
  <1> QED
    BY <1>3 DEF Proven, Proves

\* The leg talked before, and its connection stays.
TalkGoesOn == Talks /\ UNCHANGED generation /\ (generation \in attached => generation \in attached')

\* No plain step makes a provider leg talk.
LEMMA PlainStepsProveNothing ==
    ASSUME CallType, Phases, PlainStep, Talks'
    PROVE  TalkGoesOn
  <1> USE DEF Talks, TalkGoesOn
  <1>1. CASE UNCHANGED callVars
    BY <1>1 DEF callVars
  <1>2. CASE PeerConnects
    BY <1>2 DEF PeerConnects
  <1>3. CASE CallEnds
    BY <1>3 DEF CallEnds, BeginEnding, Done
  <1>4. CASE PeerEnds
    BY <1>4 DEF PeerEnds
  <1>5. CASE EndingDeadlineElapses
    BY <1>5 DEF EndingDeadlineElapses, Done
  <1>6. CASE \E k \in {"telnyx", "other"} : BeginReplacement(k)
    BY <1>6 DEF BeginReplacement
  <1>7. CASE BeginTransfer
    BY <1>7 DEF BeginTransfer
  <1>8. CASE \E h \in Generation : AttachMedia(h)
    BY <1>8 DEF AttachMedia
  <1>9. CASE SignalingStarts
    BY <1>9 DEF SignalingStarts
  <1>10. CASE RejectReplacement
    <2>1. generation \in attached => generation \in attached'
      BY <1>10, RetireKeeps DEF RejectReplacement, Served
    <2> QED
      BY <1>10, <2>1 DEF RejectReplacement, Phases
  <1>11. CASE pendingKind = "other" /\ PromoteReplacement
    BY <1>11 DEF PromoteReplacement
  <1>12. CASE \E s \in Done : LegStep(s)
    BY <1>12 DEF LegStep, Done, callVars
  <1>13. CASE \E t \in submitting : TransferNotSubmitted(t)
    BY <1>1, <1>13, NotSubmittedStep DEF FinishTransfer
  <1> QED
    BY <1>1, <1>2, <1>3, <1>4, <1>5, <1>6, <1>7, <1>8, <1>9, <1>10, <1>11, <1>12, <1>13
       DEF PlainStep

\* An event that makes a provider leg talk is a call.bridged of the right
\* provider call, with the media connection attached.
LEMMA EventsProve ==
    ASSUME CallType, Phases, NEW i \in DOMAIN events, ReconcileProviderEvent(i),
           events[i].source \in ProviderCall, Talks'
    PROVE  \/ TalkGoesOn
           \/ /\ Complete(i, "command") /\ events[i].kind = "bridged"
              /\ events[i].source \in {generation'} \X
                    (IF generation' = 1 THEN Role ELSE {"destination"})
              /\ generation' \in attached'
  <1> USE EventBoundAssumption DEF Generation
  <1> DEFINE e == events[i]
  <1>1. CASE UNCHANGED callVars
    BY <1>1 DEF callVars, Talks, TalkGoesOn
  <1>2. CASE Complete(i, "command") /\ IsCurrent(e) /\ CurrentFollowUp(e) /\ ~UNCHANGED callVars
    <2>1. CASE FinishTransfer
      BY <2>1 DEF FinishTransfer, Talks, TalkGoesOn
    <2>2. CASE ~FinishTransfer
      <3>1. /\ SetLegState(Reports(e))
            /\ e.kind = "bridged" => generation \in attached
        BY <1>2, <2>2 DEF CurrentFollowUp
      <3>2. LegStep(Reports(e))
        BY <3>1, SetLegStateStep
      <3>3. /\ leg' = "connected" /\ Reports(e) = "connected" /\ leg \in {"pending", "signaling"}
            /\ attached' = Retire(attached) /\ UNCHANGED <<generation>>
        BY <1>2, <3>2 DEF LegStep, Talks, Done
      <3>4. e.kind = "bridged"
        BY <3>3 DEF Reports
      <3>5. generation = 1 /\ e.source \in {1} \X Role
        BY <1>2, <3>3 DEF Phases, IsCurrent, ProviderCall
      <3>6. generation' \in attached'
        BY <3>1, <3>3, <3>4, RetireKeeps DEF Served
      <3> QED
        BY <1>2, <3>3, <3>4, <3>5, <3>6
    <2> QED
      BY <2>1, <2>2
  <1>3. CASE Complete(i, "command") /\ IsPending(e) /\ PendingFollowUp(e)
    <2>1. CASE RejectReplacement
      <3>1. generation \in attached => generation \in attached'
        BY <2>1, RetireKeeps DEF RejectReplacement, Served
      <3> QED
        BY <2>1, <3>1 DEF RejectReplacement, Phases, Talks, TalkGoesOn
    <2>2. CASE PromoteReplacement /\ PendingConnects(e)
      <3>1. generation' = pending /\ pending # 1 /\ leg' = "connected"
        BY <2>2 DEF PromoteReplacement, Phases, CallType
      <3>2. e.kind = "bridged" /\ e.source \in {pending} \X {"destination"}
        BY <1>3, <2>2 DEF PendingConnects, IsPending, ProviderCall
      <3>3. generation' \in attached'
        BY <2>2, <3>1, RetireKeeps DEF PromoteReplacement, Served
      <3> QED
        BY <1>3, <3>1, <3>2, <3>3
    <2> QED
      BY <1>3, <2>1, <2>2 DEF PendingFollowUp
  <1> QED
    BY <1>1, <1>2, <1>3 DEF ReconcileProviderEvent

\* Every step keeps talking provider legs proven.
LEMMA StepKeepsProven ==
    ASSUME IInv, [Next]_vars
    PROVE  ProviderLegIsProven'
  <1>1. CallType /\ Phases /\ EventType /\ EventStep /\ CompletionsAreApplied
    BY StepOfEvents DEF IInv
  <1>2. SUFFICES ASSUME Talks'
                 PROVE  (generation \in attached /\ Proven(generation))'
    BY ProvenMeans, PTL
  <1>3. CASE TalkGoesOn
    <2>1. generation \in attached /\ Proven(generation)
      BY <1>3, ProvenMeans DEF IInv, TalkGoesOn
    <2>2. PICK g : g = generation
      OBVIOUS
    <2>3. Proven(g)'
      BY <1>1, <2>1, <2>2, ProvenStays
    <2>4. g = generation'
      BY <1>3, <2>2 DEF TalkGoesOn
    <2>5. Proven(generation)'
      BY <2>3, <2>4 DEF Proven
    <2> QED
      BY <1>3, <2>1, <2>5 DEF TalkGoesOn
  <1>4. CASE ~TalkGoesOn
    <2>1. PICK i \in DOMAIN events : ReconcileProviderEvent(i)
      BY <1>1, <1>2, <1>4, StepOfCall, PlainStepsProveNothing
    <2>2. events[i].source \in ProviderCall
      BY DEF IInv, DialsAreReserved, DialType
    <2>3. /\ Complete(i, "command") /\ events[i].kind = "bridged"
          /\ events[i].source \in {generation'} \X
                (IF generation' = 1 THEN Role ELSE {"destination"})
          /\ generation' \in attached'
      BY <1>1, <1>2, <1>4, <2>1, <2>2, EventsProve
    <2>4. /\ events'[i].completion = "command" /\ i \in DOMAIN events'
          /\ events'[i].kind = "bridged" /\ events'[i].source = events[i].source
      BY <1>1, <2>3, CompleteStep DEF EventStep, EventsKept
    <2> QED
      BY <2>3, <2>4 DEF Proven, Proves
  <1> QED
    BY <1>3, <1>4

\* A step submits only the attempt it begins.
LEMMA StepSubmits ==
    ASSUME [Next]_vars
    PROVE  submitting' \subseteq submitting \/ BeginTransfer
  <1>1. CASE UNCHANGED submitting
    BY <1>1
  <1>2. CASE UNCHANGED vars
    BY <1>1, <1>2 DEF vars, dialVars
  <1>3. CASE Dials
    <2>1. CASE \E g \in Generation : DialMedia(g) \/ DialDestination(g)
      BY <2>1 DEF DialMedia, DialDestination
    <2>2. CASE \E t \in submitting : TransferSubmitted(t) \/ TransferNotSubmitted(t)
      BY <2>2 DEF TransferSubmitted, TransferNotSubmitted
    <2>3. CASE MediaStarted \/ DestinationConnected
      BY <2>3 DEF MediaStarted, DestinationConnected, StoreReferences
    <2>4. CASE \E g \in Generation : ReplacementStarted(g) \/ ReplacementNotStarted(g)
      BY <2>4 DEF ReplacementStarted, ReplacementNotStarted, StoreReferences
    <2> QED
      BY <1>3, <2>1, <2>2, <2>3, <2>4 DEF Dials
  <1>4. CASE CallMoves \/ RegisterWorker \/ ClaimRestartCall
    BY <1>1, <1>4 DEF CallMoves, RegisterWorker, ClaimRestartCall, dialVars
  <1>5. CASE \E p \in ProviderCall, k \in EventKind, c \in ClientState, n \in 0 .. MaxAttempt :
                IngestProviderEvent(p, k, c, n)
    BY <1>1, <1>5 DEF IngestProviderEvent, dialVars
  <1>6. CASE \E i \in DOMAIN events :
                ClaimProviderEvent(i) \/ ClaimLapses(i) \/ ReconcileProviderEvent(i)
    BY <1>1, <1>6 DEF ClaimProviderEvent, ClaimLapses, ReconcileProviderEvent, Complete, dialVars
  <1> QED
    BY <1>2, <1>3, <1>4, <1>5, <1>6 DEF Next

\* The attempts never step back, and a transfer that is under way without a
\* replacement after a step either was before, for the same generation, or is
\* a new attempt.
LEMMA StepOfAttempt ==
    ASSUME CallType, Phases, CallStep
    PROVE  /\ attempt' \in Nat /\ attempt <= attempt'
           /\ call' = "transferring" /\ pending' = 0 =>
                 \/ attempt < attempt'
                 \/ call = "transferring" /\ pending = 0 /\ generation' = generation
  <1> USE EventBoundAssumption DEF CallType
  <1>1. CASE UNCHANGED callVars
    BY <1>1 DEF callVars
  <1>2. CASE PeerConnects \/ CallEnds \/ PeerEnds \/ EndingDeadlineElapses
    BY <1>2 DEF PeerConnects, CallEnds, BeginEnding, PeerEnds, EndingDeadlineElapses
  <1>3. CASE BeginTransfer \/ \E k \in {"telnyx", "other"} : BeginReplacement(k)
    BY <1>3 DEF BeginTransfer, BeginReplacement
  <1>4. CASE FinishTransfer \/ RejectReplacement \/ PromoteReplacement
    BY <1>4 DEF FinishTransfer, RejectReplacement, PromoteReplacement
  <1>5. CASE SignalingStarts \/ \E g \in Generation : AttachMedia(g)
    <2>1. UNCHANGED <<call, pending, generation, attempt>>
      BY <1>5 DEF SignalingStarts, AttachMedia, callVars
    <2> QED
      BY <2>1
  <1>6. CASE \E s : LegStep(s) /\ ~UNCHANGED callVars
    BY <1>6 DEF LegStep, Phases, Done
  <1> QED
    BY <1>1, <1>2, <1>3, <1>4, <1>5, <1>6, CallSteps

\* Submissions keep following the attempts.
LEMMA StepKeepsSubmissions ==
    ASSUME IInv, [Next]_vars
    PROVE  SubmissionsFollow'
  <1>1. CallType /\ Phases /\ CallStep /\ DialType
    BY AnyStepOfCall DEF IInv
  <1> SUFFICES ASSUME NEW t \in submitting'
               PROVE  /\ t[2] <= attempt'
                      /\ t[2] = attempt' /\ call' = "transferring" /\ pending' = 0
                           => t[1] = generation'
    BY DEF SubmissionsFollow
  <1>2. CASE t \in submitting
    <2>1. t[2] \in Nat /\ attempt \in Nat
      BY <1>1, <1>2, EventBoundAssumption DEF DialType, CallType
    <2>2. /\ t[2] <= attempt
          /\ t[2] = attempt /\ call = "transferring" /\ pending = 0 => t[1] = generation
      BY <1>2 DEF IInv, SubmissionsFollow
    <2> QED
      BY <1>1, <2>1, <2>2, StepOfAttempt
  <1>3. CASE t \notin submitting
    <2>1. BeginTransfer
      BY <1>3, StepSubmits
    <2>2. t = <<generation, attempt + 1>> /\ attempt' = attempt + 1 /\ generation' = generation
      BY <1>3, <2>1 DEF BeginTransfer
    <2> QED
      BY <1>1, <2>2, EventBoundAssumption DEF CallType
  <1> QED
    BY <1>2, <1>3

-----------------------------------------------------------------------------
(***************************************************************************)
(* The theorems.                                                           *)
(***************************************************************************)

\* IInv is an invariant of the specification.
THEOREM Invariance == Spec => []IInv
  <1>1. Init => IInv
    <2> SUFFICES ASSUME Init PROVE IInv
      OBVIOUS
    <2> USE EventBoundAssumption, KindAssumption DEF Init
    <2>1. CallType
      BY DEF CallType, Generation
    <2>2. DialType /\ EventType
      BY DEF DialType, EventType
    <2>3. Phases
      BY DEF Phases, Done
    <2>4. /\ DialsAreReserved /\ CompletionsAreApplied /\ PendingIsAlive
          /\ EventsInOrder /\ ProviderEndIsFinal
      BY DEF DialsAreReserved, CompletionsAreApplied, PendingIsAlive,
             EventsInOrder, ProviderEndIsFinal
    <2>5. ProviderLegIsProven /\ SubmissionsFollow
      BY DEF ProviderLegIsProven, SubmissionsFollow
    <2> QED
      BY <2>1, <2>2, <2>3, <2>4, <2>5 DEF IInv
  <1>2. IInv /\ [Next]_vars => IInv'
    <2> SUFFICES ASSUME IInv, [Next]_vars PROVE IInv'
      OBVIOUS
    <2>1. CallType' /\ Phases' /\ cursor <= cursor'
      BY AnyStepOfCall, CallStepKeepsPhases DEF IInv
    <2>2. EventStep
      BY StepOfEvents DEF IInv
    <2>3. DialType' /\ DialsAreReserved'
      BY <2>1, <2>2, StepKeepsDials DEF IInv
    <2>4. EventsInOrder'
      BY <2>2, StepKeepsOrder DEF IInv
    <2>5. CompletionsAreApplied' /\ PendingIsAlive' /\ ProviderEndIsFinal'
      BY StepKeepsEnds
    <2>6. ProviderLegIsProven'
      BY StepKeepsProven
    <2>7. SubmissionsFollow'
      BY StepKeepsSubmissions
    <2> QED
      BY <2>1, <2>2, <2>3, <2>4, <2>5, <2>6, <2>7 DEF IInv, EventStep
  <1> QED
    BY <1>1, <1>2, PTL DEF Spec

\* The variables keep their types.
THEOREM TypeCorrect == Spec => []TypeOK
  <1>1. IInv => TypeOK
    BY DEF IInv, CallType, DialType, EventType, TypeOK
  <1> QED
    BY <1>1, Invariance, PTL

\* Events of one provider call take effect in the order of receipt.
THEOREM OrderCorrect == Spec => []EventsInOrder
  <1>1. IInv => EventsInOrder
    BY DEF IInv
  <1> QED
    BY <1>1, Invariance, PTL

\* A provider leg talks only when a call.bridged of its generation proved it.
THEOREM ProvenCorrect == Spec => []ProviderLegIsProven
  <1>1. IInv => ProviderLegIsProven
    BY DEF IInv
  <1> QED
    BY <1>1, Invariance, PTL

\* The applied end of a provider call is final for its generation.
THEOREM EndCorrect == Spec => []ProviderEndIsFinal
  <1>1. IInv => ProviderEndIsFinal
    BY DEF IInv
  <1> QED
    BY <1>1, Invariance, PTL

\* What is in submission belongs to the attempt under way or to an earlier one.
LEMMA SubmissionOfAttempt ==
    ASSUME IInv, NEW t \in submitting, t[2] = attempt, call = "transferring", pending = 0
    PROVE  t = <<generation, attempt>>
  BY DEF IInv, SubmissionsFollow, DialType

\* Only the callback or the failed submission of the attempt under way
\* finishes a provider transfer.
THEOREM TransferCorrect == Spec => TransfersNeedTheirCallback
  <1> DEFINE Settles == \E i \in DOMAIN events :
                     /\ events[i].status = "claimed" /\ events'[i].status = "applied"
                     /\ events[i].client = "transfer" /\ events[i].attempt = attempt
                     /\ events[i].source = <<generation, "media">>
             Fails == <<generation, attempt>> \in submitting \ submitting' /\ events' = events
  <1>1. ASSUME IInv, [Next]_vars
        PROVE  [call = "transferring" /\ pending = 0 /\ call' = "active" => Fails \/ Settles]_vars
    <2> SUFFICES ASSUME call = "transferring", pending = 0, call' = "active", ~Fails
                 PROVE  Settles
      OBVIOUS
    <2>1. ~PlainStep
      <3>1. ~\E t \in submitting : TransferNotSubmitted(t) /\ UNCHANGED events
        BY <1>1, SubmissionOfAttempt DEF TransferNotSubmitted, callVars
      <3> QED
        BY <3>1 DEF PlainStep, callVars, PeerConnects, CallEnds, BeginEnding, PeerEnds,
             EndingDeadlineElapses, BeginReplacement, BeginTransfer, AttachMedia,
             SignalingStarts, RejectReplacement, PromoteReplacement, LegStep, Done
    <2>2. PICK i \in DOMAIN events : ReconcileProviderEvent(i)
      BY <1>1, <2>1, StepOfCall
    <2>3. ~UNCHANGED callVars /\ ~RejectReplacement /\ ~PromoteReplacement /\ ~(\E s : LegStep(s))
      BY DEF callVars, RejectReplacement, PromoteReplacement, LegStep
    <2>4. Complete(i, "command") /\ IsCurrent(events[i]) /\ CurrentFollowUp(events[i])
      BY <2>2, <2>3 DEF ReconcileProviderEvent, PendingFollowUp
    <2>5. TransferCallback(events[i]) /\ Correlated(events[i])
      BY <2>3, <2>4, SetLegStateStep DEF CurrentFollowUp
    <2>6. events[i].status = "claimed" /\ events'[i].status = "applied"
      BY <1>1, <2>4, CompleteStep DEF IInv
    <2>7. events[i].source = <<generation, "media">>
      <3>1. events[i].source \in ProviderCall
        BY <1>1 DEF IInv, DialsAreReserved, DialType
      <3> QED
        BY <2>4, <2>5, <3>1 DEF IsCurrent, TransferCallback, ProviderCall
    <2> QED
      BY <2>5, <2>6, <2>7 DEF Correlated
  <1> QED
    BY <1>1, Invariance, PTL DEF Spec, TransfersNeedTheirCallback

-----------------------------------------------------------------------------
(***************************************************************************)
(* Private egress.  The types of its variables.                            *)
(***************************************************************************)
Notice == [kind : {"progress", "ended"}, acked : BOOLEAN, sender : BOOLEAN]
Cell == {"absent", "empty", "prepared", "active", "ended"}

StoreType ==
    /\ epoch \in Nat
    /\ route \in [Target -> Route]
    /\ claim \in [Command -> Claim]
    /\ journal \in [Target -> Seq(Notice)]
ServiceType ==
    /\ draining \in BOOLEAN
    /\ task \in [Command -> Task]
    /\ cell \in [Target -> Cell]
    /\ permit \in [Target -> {"none", "task", "record"}]
    /\ proxy \in [Target -> {"none", "prepared", "active", "stale"}]
    /\ news \in [Target -> {"none", "hungup", "silent", "told", "lost"}]
SessionType ==
    /\ source \in {"up", "retired", "ending", "ended"}
    /\ ending \subseteq Target /\ late \subseteq Target
    /\ spent \in BOOLEAN /\ skipped \subseteq Target
NetworkType ==
    /\ mail \subseteq Command \X Nat \X {1, 2}
    /\ replies \subseteq Command \X {"ok", "no"}
    /\ acks \subseteq Target \X Nat
WorkerType ==
    /\ worker \in [Target -> {"idle", "preparing", "prepared", "activating", "up", "over"}]
    /\ sends \in [Target -> Nat]
    /\ reserved \in [Target -> {"none", "reserved", "bound"}]
    /\ heard \in [Target -> Nat]
    /\ faults \in Nat

\* Every variable of the private egress keeps to its type.
EgressTypeOK == StoreType /\ ServiceType /\ SessionType /\ NetworkType /\ WorkerType

-----------------------------------------------------------------------------
(***************************************************************************)
(* The inductive invariant of the private egress, target by target.        *)
(***************************************************************************)
\* Where the command op of target t stands; its transition is the proxy's
\* (Working) until it is durably complete.
Stage(t, op) == task[<<t, op>>].pc
Working == {"handling", "handled", "failed"}
Busy == Working \cup {"committed"}

\* A permit belongs to the Prepare under way, or to the record it filled.
PermitInv(t) ==
    /\ permit[t] = "task" <=> Stage(t, "prepare") \in Busy
    /\ permit[t] = "record" <=> cell[t] \in {"prepared", "active"}

\* A native leg stands for a Prepare that is not refused and has not failed.
NativeInv(t) ==
    /\ claim[<<t, "prepare">>].response \in {"none", "no"} => proxy[t] = "none"
    /\ Stage(t, "prepare") \in Busy \cup {"claimed", "answer"}
         => claim[<<t, "prepare">>].response = "flight"
    /\ Stage(t, "prepare") \in {"claimed", "handling", "failed"} => proxy[t] = "none"
    /\ Stage(t, "prepare") = "answer" /\ task[<<t, "prepare">>].result = "no"
         => proxy[t] = "none"

\* A native leg without a record is the one a Prepare under way has staged, one
\* that slipped past the end of the source, or one that end had no time for.
CellInv(t) ==
    /\ Stage(t, "prepare") \in Busy => cell[t] = "empty" \/ (cell[t] = "absent" /\ t \in late)
    /\ cell[t] \in {"absent", "empty"} /\ proxy[t] # "none"
         => Stage(t, "prepare") \in {"handled", "committed"} \/ t \in late \cup skipped

\* Once a source route fails, a target that is not late has no Prepare under
\* way, its durable route is over, and its cell is gone or is about to go.
SourceInv ==
    /\ source # "up" => mail = {}
    /\ source \in {"up", "retired"} => late = {} /\ skipped = {}
    /\ source = "ended" => ending = {}
EndInv(t) ==
    source \in {"ending", "ended"} /\ t \notin late =>
        /\ ~InFlight(t)
        /\ LiveRoute(t) => draining
        /\ t \notin ending => cell[t] = "absent"

\* While the source is up the transition of a working command is its own, and
\* starts from the state the cell has.
WorkInv(t) ==
    source = "up" => \A op \in Op : Stage(t, op) \in Working =>
        /\ route[t].pending = op
        /\ route[t].state = DurableState(cell[t])
        /\ cell[t] \in Expected(op)

\* A transition that is complete and not yet in the cell: nothing else is
\* claimed, and only a hangup may have come in between.
CommitInv(t) ==
    source = "up" =>
        /\ \A op \in Op \ {"data"} : Stage(t, op) = "committed" => route[t].pending = "none"
        /\ Stage(t, "prepare") = "committed" => route[t].state = "prepared"
        /\ Stage(t, "activate") = "committed" =>
             \/ route[t].state = "active" /\ cell[t] = "prepared"
             \/ route[t].state = "ended" /\ cell[t] = "ended"
             \/ route[t].state = "ended" /\ cell[t] = "prepared" /\ news[t] = "lost"
        /\ Stage(t, "abort") = "committed" => route[t].state = "ended" /\ cell[t] = "prepared"
        /\ Stage(t, "end") = "committed" =>
             route[t].state = "ended" /\ cell[t] \in {"prepared", "active"}
        /\ \A op, other \in Op \ {"data"} :
             Stage(t, op) = "committed" /\ Stage(t, other) = "committed" => op = other

\* The cell is behind the store only between the two halves of a transition.
LocalInv(t) ==
    source = "up" /\ ~draining =>
        \/ route[t].state = DurableState(cell[t])
        \/ news[t] = "lost"
        \/ \E op \in Op \ {"data"} : Stage(t, op) = "committed"

TargetInv(t) ==
    /\ PermitInv(t) /\ NativeInv(t) /\ CellInv(t) /\ EndInv(t)
    /\ WorkInv(t) /\ CommitInv(t) /\ LocalInv(t)

EgressInv == EgressTypeOK /\ SourceInv /\ \A t \in Target : TargetInv(t)

-----------------------------------------------------------------------------
(***************************************************************************)
(* Types.                                                                  *)
(***************************************************************************)
\* A command is a target and an operation.
LEMMA CommandFacts ==
    /\ \A t \in Target, op \in Op : <<t, op>> \in Command
    /\ \A c \in Command : c[1] \in Target /\ c[2] \in Op /\ c = <<c[1], c[2]>>
  BY DEF Command

\* The phases of a task.
Stages == {"none", "arrived", "claimed", "handling", "handled", "failed", "committed",
           "answer", "done"}

\* The result and the digest of a task, by its type.
LEMMA TaskFacts ==
    ASSUME task \in [Command -> Task], NEW c \in Command
    PROVE  task[c].result \in {"ok", "no"} /\ task[c].digest \in Nat
  BY DEF Task

\* Moves keeps the type of the tasks.
LEMMA MovesType ==
    ASSUME task \in [Command -> Task], NEW c \in Command, NEW p \in Stages, Moves(c, p)
    PROVE  task' \in [Command -> Task]
  BY DEF Task, Moves, Stages

\* So does Results.
LEMMA ResultsType ==
    ASSUME task \in [Command -> Task], NEW c \in Command, NEW p \in Stages,
           NEW r \in {"ok", "no"}, Results(c, p, r)
    PROVE  task' \in [Command -> Task]
  BY DEF Task, Results, Stages

\* A durable claim has a digest and a response.
LEMMA ClaimFacts ==
    ASSUME claim \in [Command -> Claim], NEW c \in Command
    PROVE  claim[c].digest \in Nat /\ claim[c].response \in {"none", "flight", "ok", "no"}
  BY DEF Claim

\* Aborting or completing a transition keeps the type of the durable routes.
LEMMA RouteType ==
    ASSUME route \in [Target -> Route], NEW t \in Target
    PROVE  /\ AbortRoute(t) => route' \in [Target -> Route]
           /\ \A s \in State : CompleteRoute(t, s) => route' \in [Target -> Route]
  BY DEF Route, AbortRoute, CompleteRoute

\* Where an operation leads.
LEMMA LeadsFacts ==
    ASSUME NEW op \in Op
    PROVE  /\ Leads(op) \in {"prepared", "active", "ended"} /\ Leads(op) \in State
           /\ Leads(op) \in Cell
  BY DEF Leads, Op, State, Cell

\* A worker's step keeps the types.
LEMMA WorkerTypes ==
    ASSUME EgressTypeOK, NEW t \in Target, WorkerStep(t)
    PROVE  EgressTypeOK'
  <1>1. StoreType /\ ServiceType /\ SessionType /\ NetworkType /\ WorkerType
    BY DEF EgressTypeOK
  <1>2. StoreType' /\ ServiceType' /\ SessionType'
    <2>1. UNCHANGED <<durable, gateway, session>>
      BY DEF WorkerStep, StartPrepare, PrepareAnswered, PrepareUnanswered, StartActivate,
             ActivateAnswered, SendData, Finish
    <2>2. /\ UNCHANGED <<epoch, route, claim, journal, draining, task, cell, permit, proxy, news>>
          /\ UNCHANGED <<source, ending, late, spent, skipped>>
      BY <2>1 DEF durable, gateway, session
    <2> QED
      BY <1>1, <2>2 DEF StoreType, ServiceType, SessionType
  <1>3. ASSUME NEW op \in Op, NEW d \in Nat, Sends(<<t, op>>, d)
        PROVE  mail' \subseteq Command \X Nat \X {1, 2} /\ faults' \in Nat
    <2>1. <<<<t, op>>, d, 1>> \in Command \X Nat \X {1, 2}
      BY CommandFacts
    <2>2. <<<<t, op>>, d, 2>> \in Command \X Nat \X {1, 2}
      BY CommandFacts
    <2> QED
      BY <1>1, <1>3, <2>1, <2>2 DEF Sends, Send, SendTwice, Fault, NetworkType, WorkerType
  <1>4. CASE StartPrepare(t)
    <2>1. sends'[t] \in Nat
      BY <1>1, <1>4 DEF StartPrepare, WorkerType
    <2>2. "prepare" \in Op
      BY DEF Op
    <2>3. mail' \subseteq Command \X Nat \X {1, 2} /\ faults' \in Nat
      BY <1>3, <1>4, <2>1, <2>2 DEF StartPrepare
    <2> QED
      BY <1>1, <1>2, <1>4, <2>3 DEF StartPrepare, EgressTypeOK, NetworkType, WorkerType
  <1>5. CASE PrepareAnswered(t) \/ PrepareUnanswered(t) \/ ActivateAnswered(t)
    BY <1>1, <1>2, <1>5
       DEF PrepareAnswered, PrepareUnanswered, ActivateAnswered, Answered, WorkerMoves, Release,
           EgressTypeOK, NetworkType, WorkerType, network
  <1>6. CASE StartActivate(t) \/ SendData(t)
    <2>1. "activate" \in Op /\ "data" \in Op
      BY DEF Op
    <2>2. mail' \subseteq Command \X Nat \X {1, 2} /\ faults' \in Nat
      BY <1>3, <1>6, <2>1 DEF StartActivate, SendData
    <2> QED
      BY <1>1, <1>2, <1>6, <2>2
         DEF StartActivate, SendData, WorkerMoves, EgressTypeOK, NetworkType, WorkerType, workers
  <1>7. ASSUME NEW op \in {"abort", "end"}, Finish(t, op)
        PROVE  EgressTypeOK'
    <2>1. op \in Op
      BY DEF Op
    <2>2. mail' \subseteq Command \X Nat \X {1, 2} /\ faults' \in Nat
      BY <1>3, <1>7, <2>1 DEF Finish
    <2> QED
      BY <1>1, <1>2, <1>7, <2>2
         DEF Finish, WorkerMoves, Release, EgressTypeOK, NetworkType, WorkerType
  <1> QED
    BY <1>4, <1>5, <1>6, <1>7 DEF WorkerStep

\* Only some variables of the service change: the rest keeps its type.
LEMMA RestTypes ==
    ASSUME EgressTypeOK, StoreType', ServiceType', UNCHANGED <<session, workers>>,
           faults' \in Nat, NetworkType'
    PROVE  EgressTypeOK'
  BY DEF EgressTypeOK, SessionType, WorkerType, session, workers

\* What is sent back is an answer.
LEMMA ReplyTypes ==
    ASSUME EgressTypeOK, NEW c \in Command, NEW r \in {"ok", "no"}, Reply(c, r)
    PROVE  replies' \subseteq Command \X {"ok", "no"}
  BY DEF EgressTypeOK, NetworkType, Reply

\* A step of the command service keeps the types.
LEMMA ServiceTypes ==
    ASSUME EgressTypeOK, NEW c \in Command, ServiceStep(c)
    PROVE  EgressTypeOK'
  <1>1. StoreType /\ ServiceType /\ SessionType /\ NetworkType /\ WorkerType
    BY DEF EgressTypeOK
  <1>2. c[1] \in Target /\ c[2] \in Op
    BY CommandFacts
  <1>3. ASSUME NEW m \in mail, Arrive(c, m)
        PROVE  EgressTypeOK'
    <2>1. m[2] \in Nat
      BY <1>1 DEF NetworkType
    <2>2. task' \in [Command -> Task]
      <3>1. task' = task \/ task' = [task EXCEPT ![c] = [Idle EXCEPT !.pc = "arrived", !.digest = m[2]]]
        BY <1>3 DEF Arrive
      <3>2. [Idle EXCEPT !.pc = "arrived", !.digest = m[2]] \in Task
        BY <2>1 DEF Task, Idle
      <3> QED
        BY <1>1, <3>1, <3>2 DEF ServiceType
    <2>3. replies' \subseteq Command \X {"ok", "no"}
      <3>1. task[c].result \in {"ok", "no"}
        BY <1>1, TaskFacts DEF ServiceType
      <3>2. replies' = replies \/ \E r \in {"ok", "no"} : Reply(c, r)
        BY <1>3, <3>1 DEF Arrive
      <3> QED
        BY <1>1, <3>2, ReplyTypes DEF NetworkType
    <2>4. StoreType' /\ ServiceType' /\ NetworkType'
      BY <1>1, <1>3, <2>2, <2>3 DEF Arrive, StoreType, ServiceType, NetworkType, durable
    <2> QED
      BY <1>1, <1>3, <2>4, RestTypes DEF Arrive, WorkerType
  <1>4. ASSUME ClaimCommand(c)
        PROVE  EgressTypeOK'
    <2>1. task[c].digest \in Nat /\ claim[c].response \in {"none", "flight", "ok", "no"}
      BY <1>1, TaskFacts, ClaimFacts DEF ServiceType, StoreType
    <2>2. task' \in [Command -> Task] /\ claim' \in [Command -> Claim] /\ draining' \in BOOLEAN
      <3>1. CASE ~ClaimTaken(c)
        <4>1. claim' \in [Command -> Claim]
          <5>1. claim' = [claim EXCEPT ![c] = [digest |-> task[c].digest, response |-> "flight"]]
            BY <1>4, <3>1 DEF ClaimCommand
          <5> QED
            BY <1>1, <2>1, <5>1 DEF StoreType, Claim
        <4>2. task' \in [Command -> Task]
          <5>1. Moves(c, "claimed") \/ task' = [task EXCEPT ![c] = Idle]
            BY <1>4, <3>1 DEF ClaimCommand
          <5>2. CASE Moves(c, "claimed")
            BY <1>1, <5>2, MovesType DEF ServiceType, Stages
          <5>3. CASE task' = [task EXCEPT ![c] = Idle]
            BY <1>1, <5>3 DEF ServiceType, Task, Idle
          <5> QED
            BY <5>1, <5>2, <5>3
        <4>3. draining' = draining
          BY <1>4, <3>1 DEF ClaimCommand
        <4> QED
          BY <1>1, <4>1, <4>2, <4>3 DEF ServiceType
      <3>2. CASE ClaimTaken(c)
        <4>1. claim' = claim
          BY <1>4, <3>2 DEF ClaimCommand
        <4>2. task' \in [Command -> Task]
          <5>1. \/ \E r \in {"ok", "no"} : Results(c, "done", r)
                \/ task' = [task EXCEPT ![c] = Idle]
            BY <1>4, <3>2 DEF ClaimCommand
          <5>2. ASSUME NEW r \in {"ok", "no"}, Results(c, "done", r)
                PROVE  task' \in [Command -> Task]
            BY <1>1, <5>2, ResultsType DEF ServiceType, Stages
          <5>3. CASE task' = [task EXCEPT ![c] = Idle]
            BY <1>1, <5>3 DEF ServiceType, Task, Idle
          <5> QED
            BY <5>1, <5>2, <5>3
        <4>3. draining' = draining \/ draining' = TRUE
          BY <1>4, <3>2 DEF ClaimCommand
        <4> QED
          BY <1>1, <4>1, <4>2, <4>3 DEF ServiceType, StoreType
      <3> QED
        BY <3>1, <3>2
    <2>3. replies' \subseteq Command \X {"ok", "no"}
      <3>1. replies' = replies \/ \E r \in {"ok", "no"} : Reply(c, r)
        BY <1>4, <2>1 DEF ClaimCommand
      <3> QED
        BY <1>1, <3>1, ReplyTypes DEF NetworkType
    <2>4. faults' \in Nat
      BY <1>1, <1>4 DEF ClaimCommand, Fault, WorkerType
    <2>5. StoreType' /\ ServiceType' /\ NetworkType'
      BY <1>1, <1>4, <2>2, <2>3 DEF ClaimCommand, StoreType, ServiceType, NetworkType
    <2> QED
      BY <1>4, <2>4, <2>5, RestTypes DEF ClaimCommand
  <1>5. ASSUME Begin(c)
        PROVE  EgressTypeOK'
    <2>1. route' \in [Target -> Route]
      <3>1. route' = route \/ route' = [route EXCEPT ![c[1]].pending = c[2]]
        BY <1>5 DEF Begin
      <3> QED
        BY <1>1, <1>2, <3>1 DEF StoreType, Route
    <2>2. task' \in [Command -> Task]
      <3>1. \/ Results(c, "answer", "no")
            \/ task' = [task EXCEPT ![c].pc = "handling", ![c].result = "no"]
        BY <1>5 DEF Begin
      <3>2. CASE Results(c, "answer", "no")
        BY <1>1, <3>2, ResultsType DEF ServiceType, Stages
      <3>3. CASE task' = [task EXCEPT ![c].pc = "handling", ![c].result = "no"]
        <4>1. task[c] \in Task /\ task \in [Command -> Task]
          BY <1>1 DEF ServiceType
        <4>2. [task[c] EXCEPT !.pc = "handling", !.result = "no"] \in Task
          BY <4>1 DEF Task
        <4>3. task' = [task EXCEPT ![c] = [task[c] EXCEPT !.pc = "handling", !.result = "no"]]
          BY <3>3, <4>1
        <4> QED
          BY <4>1, <4>2, <4>3
      <3> QED
        BY <3>1, <3>2, <3>3
    <2>3. cell' \in [Target -> Cell] /\ permit' \in [Target -> {"none", "task", "record"}]
      BY <1>1, <1>2, <1>5 DEF Begin, ServiceType, Cell
    <2>4. faults' \in Nat
      BY <1>1, <1>5 DEF Begin, Fault, WorkerType
    <2>5. StoreType' /\ ServiceType' /\ NetworkType'
      BY <1>1, <1>5, <2>1, <2>2, <2>3 DEF Begin, StoreType, ServiceType, NetworkType, network
    <2> QED
      BY <1>5, <2>4, <2>5, RestTypes DEF Begin
  <1>6. ASSUME AfterFailure(c)
        PROVE  EgressTypeOK'
    <2>1. route' \in [Target -> Route]
      <3>1. route' = route \/ AbortRoute(c[1])
        BY <1>6 DEF AfterFailure
      <3> QED
        BY <1>1, <1>2, <3>1, RouteType DEF StoreType
    <2>2. task' \in [Command -> Task]
      BY <1>1, <1>6, ResultsType DEF AfterFailure, ServiceType, Stages
    <2>3. cell' \in [Target -> Cell] /\ permit' \in [Target -> {"none", "task", "record"}]
      BY <1>1, <1>2, <1>6 DEF AfterFailure, ServiceType, Cell, Without, Freed
    <2>4. faults' \in Nat /\ draining' \in BOOLEAN
      <3>1. draining' = draining \/ draining' = TRUE
        BY <1>6 DEF AfterFailure
      <3>2. faults' = faults \/ faults' = faults + 1
        BY <1>6 DEF AfterFailure, Fault
      <3>3. draining' \in BOOLEAN
        BY <1>1, <3>1 DEF ServiceType
      <3>4. faults' \in Nat
        BY <1>1, <3>2 DEF WorkerType
      <3> QED
        BY <3>3, <3>4
    <2>5. StoreType' /\ ServiceType' /\ NetworkType'
      BY <1>1, <1>6, <2>1, <2>2, <2>3, <2>4
         DEF AfterFailure, StoreType, ServiceType, NetworkType, network
    <2> QED
      BY <1>6, <2>4, <2>5, RestTypes DEF AfterFailure
  <1>7. ASSUME Commit(c)
        PROVE  EgressTypeOK'
    <2>1. route' \in [Target -> Route]
      <3>1. route' = route \/ CompleteRoute(c[1], Leads(c[2]))
        BY <1>7 DEF Commit
      <3> QED
        BY <1>1, <1>2, <3>1, RouteType, LeadsFacts DEF StoreType
    <2>2. task' \in [Command -> Task]
      <3>1. Moves(c, "committed") \/ Results(c, "answer", "no")
        BY <1>7 DEF Commit
      <3> QED
        BY <1>1, <3>1, MovesType, ResultsType DEF ServiceType, Stages
    <2>3. cell' \in [Target -> Cell] /\ permit' \in [Target -> {"none", "task", "record"}]
      BY <1>1, <1>2, <1>7 DEF Commit, ServiceType, Cell, Without, Freed
    <2>4. /\ proxy' \in [Target -> {"none", "prepared", "active", "stale"}]
          /\ news' \in [Target -> {"none", "hungup", "silent", "told", "lost"}]
      BY <1>1, <1>2, <1>7 DEF Commit, ServiceType, CleanedUp
    <2>5. faults' \in Nat /\ draining' \in BOOLEAN
      <3>1. draining' = draining \/ draining' = TRUE
        BY <1>7 DEF Commit
      <3>2. faults' = faults \/ faults' = faults + 1
        BY <1>7 DEF Commit, Fault
      <3>3. draining' \in BOOLEAN
        BY <1>1, <3>1 DEF ServiceType
      <3>4. faults' \in Nat
        BY <1>1, <3>2 DEF WorkerType
      <3> QED
        BY <3>3, <3>4
    <2>6. StoreType' /\ ServiceType' /\ NetworkType'
      BY <1>1, <1>7, <2>1, <2>2, <2>3, <2>4, <2>5
         DEF Commit, StoreType, ServiceType, NetworkType, network
    <2> QED
      BY <1>7, <2>5, <2>6, RestTypes DEF Commit
  <1>8. ASSUME Settle(c)
        PROVE  EgressTypeOK'
    <2>1. task' \in [Command -> Task]
      <3>1. Results(c, "answer", "ok") \/ Results(c, "answer", "no")
        BY <1>8 DEF Settle
      <3> QED
        BY <1>1, <3>1, MovesType, ResultsType DEF ServiceType, Stages
    <2>2. cell' \in [Target -> Cell] /\ permit' \in [Target -> {"none", "task", "record"}]
      BY <1>1, <1>2, <1>8, LeadsFacts DEF Settle, ServiceType, Freed
    <2>3. draining' \in BOOLEAN
      BY <1>1, <1>8 DEF Settle, ServiceType
    <2>4. StoreType' /\ ServiceType' /\ NetworkType'
      BY <1>1, <1>8, <2>1, <2>2, <2>3
         DEF Settle, StoreType, ServiceType, NetworkType, network, durable
    <2> QED
      BY <1>1, <1>8, <2>4, RestTypes DEF Settle, WorkerType
  <1>9. ASSUME AnswerCommand(c)
        PROVE  EgressTypeOK'
    <2>1. task[c].result \in {"ok", "no"}
      BY <1>1, TaskFacts DEF ServiceType
    <2>2. task' \in [Command -> Task] /\ claim' \in [Command -> Claim]
      <3>1. Moves(c, "done") \/ Results(c, "done", "no")
        BY <1>9 DEF AnswerCommand
      <3>2. claim' = claim \/ claim' = [claim EXCEPT ![c].response = task[c].result]
        BY <1>9 DEF AnswerCommand
      <3>3. task' \in [Command -> Task]
        BY <1>1, <3>1, MovesType, ResultsType DEF ServiceType, Stages
      <3>4. claim' \in [Command -> Claim]
        BY <1>1, <2>1, <3>2 DEF StoreType, Claim
      <3> QED
        BY <3>3, <3>4
    <2>3. replies' \subseteq Command \X {"ok", "no"}
      BY <1>9, <2>1, ReplyTypes DEF AnswerCommand
    <2>4. draining' \in BOOLEAN /\ faults' \in Nat
      <3>1. draining' = draining \/ draining' = TRUE
        BY <1>9 DEF AnswerCommand
      <3>2. faults' = faults \/ faults' = faults + 1
        BY <1>9 DEF AnswerCommand, Fault
      <3>3. draining' \in BOOLEAN
        BY <1>1, <3>1 DEF ServiceType
      <3>4. faults' \in Nat
        BY <1>1, <3>2 DEF WorkerType
      <3> QED
        BY <3>3, <3>4
    <2>5. StoreType' /\ ServiceType' /\ NetworkType'
      BY <1>1, <1>9, <2>2, <2>3, <2>4 DEF AnswerCommand, StoreType, ServiceType, NetworkType
    <2> QED
      BY <1>9, <2>4, <2>5, RestTypes DEF AnswerCommand
  <1> QED
    BY <1>3, <1>4, <1>5, <1>6, <1>7, <1>8, <1>9 DEF ServiceStep

\* So does a step of the proxy.
LEMMA HandlerTypes ==
    ASSUME EgressTypeOK, NEW t \in Target, HandlerStep(t)
    PROVE  EgressTypeOK'
  <1>1. StoreType /\ ServiceType /\ SessionType /\ NetworkType /\ WorkerType
    BY DEF EgressTypeOK
  <1>2. \A op \in Op : <<t, op>> \in Command
    BY CommandFacts
  <1>3. CASE HandlePrepare(t)
    <2>1. task' \in [Command -> Task]
      <3>1. Moves(<<t, "prepare">>, "handled") \/ Moves(<<t, "prepare">>, "failed")
        BY <1>3 DEF HandlePrepare
      <3> QED
        BY <1>1, <1>2, <3>1, MovesType, ResultsType DEF ServiceType, Stages, Op
    <2>2. /\ proxy' \in [Target -> {"none", "prepared", "active", "stale"}]
          /\ reserved' \in [Target -> {"none", "reserved", "bound"}]
      BY <1>1, <1>3 DEF HandlePrepare, ServiceType, WorkerType
    <2> QED
      BY <1>1, <1>3, <2>1, <2>2
         DEF HandlePrepare, EgressTypeOK, StoreType, ServiceType, SessionType, NetworkType,
             WorkerType, durable, session, network
  <1>4. CASE HandleActivate(t)
    <2>1. task' \in [Command -> Task]
      <3>1. Moves(<<t, "activate">>, "handled") \/ Moves(<<t, "activate">>, "failed")
        BY <1>4 DEF HandleActivate
      <3> QED
        BY <1>1, <1>2, <3>1, MovesType, ResultsType DEF ServiceType, Stages, Op
    <2>2. proxy' \in [Target -> {"none", "prepared", "active", "stale"}]
      BY <1>1, <1>4 DEF HandleActivate, ServiceType
    <2>3. faults' \in Nat
      BY <1>1, <1>4 DEF HandleActivate, Fault, WorkerType
    <2>4. StoreType' /\ ServiceType' /\ NetworkType'
      BY <1>1, <1>4, <2>1, <2>2
         DEF HandleActivate, StoreType, ServiceType, NetworkType, durable, network
    <2> QED
      BY <1>4, <2>3, <2>4, RestTypes DEF HandleActivate
  <1>5. CASE HandleData(t)
    <2>1. task' \in [Command -> Task]
      <3>1. Moves(<<t, "data">>, "handled") \/ Moves(<<t, "data">>, "failed")
        BY <1>5 DEF HandleData
      <3> QED
        BY <1>1, <1>2, <3>1, MovesType, ResultsType DEF ServiceType, Stages, Op
    <2>2. StoreType' /\ ServiceType' /\ NetworkType'
      BY <1>1, <1>5, <2>1
         DEF HandleData, StoreType, ServiceType, NetworkType, durable, network
    <2> QED
      BY <1>1, <1>5, <2>2, RestTypes DEF HandleData, WorkerType
  <1>6. ASSUME NEW op \in {"abort", "end"}, HandleFinish(t, op)
        PROVE  EgressTypeOK'
    <2>1. task' \in [Command -> Task]
      <3>1. Moves(<<t, op>>, "handled") \/ Moves(<<t, op>>, "failed")
        BY <1>6 DEF HandleFinish
      <3> QED
        BY <1>1, <1>2, <3>1, MovesType, ResultsType DEF ServiceType, Stages, Op
    <2>2. /\ proxy' \in [Target -> {"none", "prepared", "active", "stale"}]
          /\ news' \in [Target -> {"none", "hungup", "silent", "told", "lost"}]
      BY <1>1, <1>6 DEF HandleFinish, ServiceType
    <2>3. StoreType' /\ ServiceType' /\ NetworkType'
      BY <1>1, <1>6, <2>1, <2>2
         DEF HandleFinish, StoreType, ServiceType, NetworkType, durable, network
    <2> QED
      BY <1>1, <1>6, <2>3, RestTypes DEF HandleFinish, WorkerType
  <1> QED
    BY <1>3, <1>4, <1>5, <1>6 DEF HandlerStep

\* Appending to a journal and acknowledging an entry of it keep its type.
LEMMA JournalTypes ==
    ASSUME journal \in [Target -> Seq(Notice)], NEW t \in Target
    PROVE  /\ \A k \in {"progress", "ended"}, s \in BOOLEAN :
                Appended(t, k, s) => journal' \in [Target -> Seq(Notice)]
           /\ \A i \in DOMAIN journal[t] :
                [journal EXCEPT ![t][i].acked = TRUE] \in [Target -> Seq(Notice)]
  <1>1. journal[t] \in Seq(Notice)
    OBVIOUS
  <1>2. ASSUME NEW k \in {"progress", "ended"}, NEW s \in BOOLEAN, Appended(t, k, s)
        PROVE  journal' \in [Target -> Seq(Notice)]
    <2>1. [kind |-> k, acked |-> FALSE, sender |-> s] \in Notice
      BY DEF Notice
    <2>2. Append(journal[t], [kind |-> k, acked |-> FALSE, sender |-> s]) \in Seq(Notice)
      BY <1>1, <2>1
    <2> QED
      BY <1>2, <2>2 DEF Appended
  <1>3. ASSUME NEW i \in DOMAIN journal[t]
        PROVE  [journal EXCEPT ![t][i].acked = TRUE] \in [Target -> Seq(Notice)]
    <2> DEFINE e == [journal[t][i] EXCEPT !.acked = TRUE]
    <2>1. i \in 1 .. Len(journal[t]) /\ journal[t][i] \in Notice
      BY <1>1, <1>3
    <2>2. e \in Notice
      BY <2>1 DEF Notice
    <2>3. [journal[t] EXCEPT ![i] = e] \in Seq(Notice)
      BY <1>1, <2>1, <2>2
    <2>4. [journal EXCEPT ![t][i].acked = TRUE] = [journal EXCEPT ![t] = [journal[t] EXCEPT ![i] = e]]
      OBVIOUS
    <2> QED
      BY <2>3, <2>4
  <1> QED
    BY <1>2, <1>3

\* The pump and the delivery keep the types.
LEMMA PumpTypes ==
    ASSUME EgressTypeOK, NEW t \in Target,
           DeliveryStep(t) \/ Progress(t) \/ Hangup(t) \/ Publish(t) \/ GiveUp(t)
    PROVE  EgressTypeOK'
  <1>1. StoreType /\ ServiceType /\ SessionType /\ NetworkType /\ WorkerType
    BY DEF EgressTypeOK
  <1>2. CASE Progress(t)
    <2>1. journal' \in [Target -> Seq(Notice)]
      BY <1>1, <1>2, JournalTypes DEF Progress, StoreType
    <2>2. StoreType' /\ ServiceType' /\ NetworkType'
      BY <1>1, <1>2, <2>1
         DEF Progress, StoreType, ServiceType, NetworkType, gateway, network
    <2> QED
      BY <1>1, <1>2, <2>2, RestTypes DEF Progress, WorkerType
  <1>3. CASE Hangup(t) \/ GiveUp(t)
    <2>1. news' \in [Target -> {"none", "hungup", "silent", "told", "lost"}]
      BY <1>1, <1>3 DEF Hangup, GiveUp, ServiceType
    <2>2. StoreType' /\ ServiceType' /\ NetworkType'
      BY <1>1, <1>3, <2>1
         DEF Hangup, GiveUp, StoreType, ServiceType, NetworkType, durable, network
    <2>3. UNCHANGED <<session, workers, faults>>
      BY <1>3 DEF Hangup, GiveUp
    <2> QED
      BY <1>1, <2>2, <2>3, RestTypes DEF WorkerType
  <1>4. CASE Publish(t)
    <2>1. journal' \in [Target -> Seq(Notice)]
      <3>1. \E s \in BOOLEAN : Appended(t, "ended", s)
        BY <1>4 DEF Publish
      <3> QED
        BY <1>1, <3>1, JournalTypes DEF StoreType
    <2>2. route' \in [Target -> Route]
      <3>1. route' = [route EXCEPT ![t].state = "ended"]
        BY <1>4 DEF Publish
      <3> QED
        BY <1>1, <3>1 DEF StoreType, Route, State
    <2>3. /\ news' \in [Target -> {"none", "hungup", "silent", "told", "lost"}]
          /\ cell' \in [Target -> Cell] /\ permit' \in [Target -> {"none", "task", "record"}]
      BY <1>1, <1>4 DEF Publish, ServiceType, Cell, Freed
    <2>4. faults' \in Nat
      <3>1. faults' = faults \/ faults' = faults + 1
        BY <1>4 DEF Publish, Fault
      <3> QED
        BY <1>1, <3>1 DEF WorkerType
    <2>5. StoreType' /\ ServiceType' /\ NetworkType'
      BY <1>1, <1>4, <2>1, <2>2, <2>3
         DEF Publish, StoreType, ServiceType, NetworkType, network
    <2> QED
      BY <1>4, <2>4, <2>5, RestTypes DEF Publish
  <1>5. CASE Deliver(t)
    <2>1. PICK i \in Unacked(t) :
            /\ heard' = [heard EXCEPT ![t] = IF i = @ + 1 THEN i ELSE @]
            /\ acks' = acks \cup {<<t, i>>}
            /\ worker' = IF journal[t][i].kind = "ended" THEN [worker EXCEPT ![t] = "over"]
                         ELSE worker
      BY <1>5 DEF Deliver
    <2>2. i \in Nat
      <3>1. journal[t] \in Seq(Notice) /\ i \in DOMAIN journal[t]
        BY <1>1, <2>1 DEF StoreType, Unacked
      <3> QED
        BY <3>1
    <2>3. NetworkType'
      BY <1>1, <1>5, <2>1, <2>2 DEF Deliver, NetworkType
    <2>4. WorkerType'
      BY <1>1, <1>5, <2>1, <2>2 DEF Deliver, WorkerType
    <2> QED
      BY <1>1, <1>5, <2>3, <2>4
         DEF Deliver, EgressTypeOK, StoreType, ServiceType, SessionType, durable, gateway, session
  <1>6. ASSUME NEW i \in DOMAIN journal[t], AckArrives(t, i)
        PROVE  EgressTypeOK'
    <2>1. journal' \in [Target -> Seq(Notice)]
      <3>1. journal' = [journal EXCEPT ![t][i].acked = TRUE]
        BY <1>6 DEF AckArrives
      <3> HIDE DEF StoreType
      <3>2. journal \in [Target -> Seq(Notice)]
        BY <1>1 DEF StoreType
      <3>3. [journal EXCEPT ![t][i].acked = TRUE] \in [Target -> Seq(Notice)]
        BY <3>2, JournalTypes
      <3> QED
        BY <3>1, <3>3
    <2>2. proxy' \in [Target -> {"none", "prepared", "active", "stale"}]
      <3>1. proxy' = proxy \/ proxy' = [proxy EXCEPT ![t] = "none"]
        BY <1>6 DEF AckArrives, RetireTerminal
      <3> QED
        BY <1>1, <3>1 DEF ServiceType
    <2>3. StoreType' /\ ServiceType' /\ NetworkType'
      BY <1>1, <1>6, <2>1, <2>2 DEF AckArrives, StoreType, ServiceType, NetworkType
    <2> QED
      BY <1>1, <1>6, <2>3, RestTypes DEF AckArrives, WorkerType
  <1> QED
    BY <1>2, <1>3, <1>4, <1>5, <1>6 DEF DeliveryStep

\* The end of a source, a drain, a crash and a recovery keep the types.
LEMMA EndTypes ==
    ASSUME EgressTypeOK,
           \/ RetireSource \/ FailSource \/ DeadlinePasses \/ SourceEnded \/ Drain \/ Crash
           \/ \E t \in Target : EndTarget(t) \/ Recover(t)
    PROVE  EgressTypeOK'
  <1>1. StoreType /\ ServiceType /\ SessionType /\ NetworkType /\ WorkerType
    BY DEF EgressTypeOK
  <1>2. \A r \in BOOLEAN : Failed(r) \in [Target -> Route]
    BY <1>1 DEF StoreType, Failed, Route, State
  <1>3. CASE RetireSource
    BY <1>1, <1>3
       DEF RetireSource, EgressTypeOK, StoreType, ServiceType, SessionType, NetworkType,
           WorkerType, durable, gateway, workers
  <1>4. CASE FailSource
    <2>1. route' \in [Target -> Route]
      BY <1>1, <1>2, <1>4 DEF FailSource, StoreType
    <2>2. /\ source' = "ending" /\ late' \subseteq Target /\ ending' \subseteq Target
          /\ spent' \in BOOLEAN /\ skipped' \subseteq Target
      BY <1>1, <1>4 DEF FailSource, SessionType
    <2>3. draining' = draining \/ draining' = TRUE
      BY <1>4 DEF FailSource
    <2>4. faults' \in Nat
      <3>1. faults' = faults \/ faults' = faults + 1
        BY <1>4 DEF FailSource, Fault
      <3> QED
        BY <1>1, <3>1 DEF WorkerType
    <2>5. draining' \in BOOLEAN
      BY <1>1, <2>3 DEF ServiceType
    <2>6. StoreType' /\ ServiceType' /\ NetworkType'
      BY <1>1, <1>4, <2>1, <2>5
         DEF FailSource, StoreType, ServiceType, NetworkType, network
    <2>7. SessionType'
      BY <2>2 DEF SessionType
    <2>8. WorkerType'
      BY <1>1, <1>4, <2>4 DEF FailSource, WorkerType, workers
    <2> QED
      BY <2>6, <2>7, <2>8 DEF EgressTypeOK
  <1>10. CASE DeadlinePasses
    <2>1. faults' \in Nat
      BY <1>1, <1>10 DEF DeadlinePasses, Fault, WorkerType
    <2>2. StoreType' /\ ServiceType' /\ NetworkType'
      BY <1>1, <1>10
         DEF DeadlinePasses, StoreType, ServiceType, NetworkType, durable, gateway, network
    <2>3. SessionType' /\ WorkerType'
      BY <1>1, <1>10, <2>1 DEF DeadlinePasses, SessionType, WorkerType, workers
    <2> QED
      BY <2>2, <2>3 DEF EgressTypeOK
  <1>5. CASE SourceEnded
    BY <1>1, <1>5
       DEF SourceEnded, EgressTypeOK, StoreType, ServiceType, SessionType, NetworkType,
           WorkerType, durable, gateway, network, workers
  <1>6. CASE Drain
    <2>1. ServiceType'
      BY <1>1, <1>6 DEF Drain, ServiceType, Cell
    <2>2. StoreType' /\ NetworkType'
      BY <1>1, <1>6 DEF Drain, StoreType, NetworkType, durable, network
    <2> QED
      BY <1>1, <1>6, <2>1, <2>2, RestTypes DEF Drain, WorkerType
  <1>7. CASE Crash
    <2>1. claim' \in [Command -> Claim]
      BY <1>1, <1>7 DEF Crash, InterruptedClaims, StoreType, Claim
    <2>2. StoreType'
      <3>1. route' = Failed(TRUE) /\ epoch' = epoch + 1 /\ journal' = journal
        BY <1>7 DEF Crash
      <3>2. Failed(TRUE) \in [Target -> Route]
        BY <1>2
      <3>3. epoch' \in Nat
        BY <1>1, <3>1 DEF StoreType
      <3> QED
        BY <1>1, <2>1, <3>1, <3>2, <3>3 DEF StoreType
    <2>3. ServiceType'
      BY <1>7 DEF Crash, ServiceType, Cell, Task, Idle
    <2>4. SessionType' /\ NetworkType'
      BY <1>7 DEF Crash, SessionType, NetworkType
    <2>5. WorkerType'
      BY <1>1, <1>7 DEF Crash, WorkerType, workers
    <2> QED
      BY <2>2, <2>3, <2>4, <2>5 DEF EgressTypeOK
  <1>8. ASSUME NEW t \in Target, EndTarget(t)
        PROVE  EgressTypeOK'
    <2>1. /\ proxy' \in [Target -> {"none", "prepared", "active", "stale"}]
          /\ news' \in [Target -> {"none", "hungup", "silent", "told", "lost"}]
          /\ cell' \in [Target -> Cell] /\ permit' \in [Target -> {"none", "task", "record"}]
      BY <1>1, <1>8 DEF EndTarget, ServiceType, Cell, Freed
    <2>2. /\ late' \subseteq Target /\ ending' \subseteq Target /\ source' = source
          /\ spent' \in BOOLEAN /\ skipped' \subseteq Target
      BY <1>1, <1>8 DEF EndTarget, SessionType
    <2>3. faults' \in Nat
      BY <1>1, <1>8 DEF EndTarget, WorkerType
    <2>4. StoreType' /\ ServiceType' /\ NetworkType'
      BY <1>1, <1>8, <2>1
         DEF EndTarget, StoreType, ServiceType, NetworkType, durable, network
    <2>5. SessionType' /\ WorkerType'
      BY <1>1, <1>8, <2>2, <2>3 DEF EndTarget, SessionType, WorkerType, workers
    <2> QED
      BY <2>4, <2>5 DEF EgressTypeOK
  <1>9. ASSUME NEW t \in Target, Recover(t)
        PROVE  EgressTypeOK'
    <2>1. route' \in [Target -> Route]
      BY <1>1, <1>9 DEF Recover, StoreType, Route
    <2>2. StoreType' /\ ServiceType' /\ NetworkType'
      BY <1>1, <1>9, <2>1
         DEF Recover, StoreType, ServiceType, NetworkType, gateway, network
    <2> QED
      BY <1>1, <1>9, <2>2, RestTypes DEF Recover, WorkerType
  <1> QED
    BY <1>3, <1>4, <1>5, <1>6, <1>7, <1>8, <1>9, <1>10

\* Every step keeps the types.
LEMMA EgressTypes == EgressTypeOK /\ [EgressNext]_egressVars => EgressTypeOK'
  <1> SUFFICES ASSUME EgressTypeOK, [EgressNext]_egressVars
               PROVE  EgressTypeOK'
    OBVIOUS
  <1>1. CASE UNCHANGED egressVars
    BY <1>1 DEF egressVars, durable, gateway, session, network, workers, EgressTypeOK, StoreType,
                ServiceType, SessionType, NetworkType, WorkerType
  <1> QED
    BY <1>1, ServiceTypes, HandlerTypes, PumpTypes, WorkerTypes, EndTypes DEF EgressNext

-----------------------------------------------------------------------------
(***************************************************************************)
(* A step moves one target.  The others keep what the invariant looks at.  *)
(***************************************************************************)
Untouched(t) ==
    /\ route'[t].state = route[t].state /\ route'[t].pending = route[t].pending
    /\ cell'[t] = cell[t] /\ permit'[t] = permit[t]
    /\ proxy'[t] = proxy[t] /\ news'[t] = news[t]
    /\ \A op \in Op : task'[<<t, op>>] = task[<<t, op>>]
    /\ claim'[<<t, "prepare">>] = claim[<<t, "prepare">>]
Around(t) ==
    /\ source' = source /\ (draining => draining')
    /\ t \in late' <=> t \in late
    /\ t \in skipped' <=> t \in skipped
    /\ t \in ending' <=> t \in ending

\* A target that is not touched keeps its invariant.
LEMMA Aside ==
    ASSUME NEW t \in Target, TargetInv(t), Untouched(t), Around(t)
    PROVE  TargetInv(t)'
  <1>1. \A op \in Op : Stage(t, op)' = Stage(t, op)
    BY DEF Stage, Untouched
  <1>2. "prepare" \in Op /\ "activate" \in Op /\ "abort" \in Op /\ "end" \in Op
    BY DEF Op
  <1>3. PermitInv(t)'
    BY <1>1, <1>2 DEF TargetInv, PermitInv, Untouched
  <1>4. NativeInv(t)'
    BY <1>1, <1>2 DEF TargetInv, NativeInv, Untouched
  <1>5. CellInv(t)'
    BY <1>1, <1>2 DEF TargetInv, CellInv, Untouched, Around
  <1>6. EndInv(t)'
    <2>1. InFlight(t)' = InFlight(t) /\ LiveRoute(t)' = LiveRoute(t)
      BY <1>2 DEF InFlight, LiveRoute, Untouched
    <2> QED
      BY <2>1, Zenon DEF TargetInv, EndInv, Untouched, Around
  <1>7. WorkInv(t)'
    BY <1>1 DEF TargetInv, WorkInv, Untouched, Around
  <1>8. CommitInv(t)'
    BY <1>1, <1>2 DEF TargetInv, CommitInv, Untouched, Around
  <1>9. LocalInv(t)'
    <2>1. DurableState(cell[t])' = DurableState(cell[t])
      BY DEF Untouched, DurableState
    <2>2. \A op \in Op \ {"data"} : Stage(t, op)' = Stage(t, op)
      BY <1>1
    <2> QED
      BY <2>1, <2>2, Zenon DEF TargetInv, LocalInv, Untouched, Around
  <1> QED
    BY <1>3, <1>4, <1>5, <1>6, <1>7, <1>8, <1>9 DEF TargetInv

\* What Moves and Results do to the stages of a target's commands.
LEMMA StageFacts ==
    ASSUME task \in [Command -> Task], NEW t \in Target, NEW op \in Op,
           NEW p, Moves(<<t, op>>, p) \/ \E r \in {"ok", "no"} : Results(<<t, op>>, p, r)
    PROVE  /\ \A o \in Op : Stage(t, o)' = IF o = op THEN p ELSE Stage(t, o)
           /\ \A o \in Op : o # op => task'[<<t, o>>] = task[<<t, o>>]
           /\ \A s \in Target, o \in Op : s # t => task'[<<s, o>>] = task[<<s, o>>]
  <1>1. \A s \in Target, o \in Op : <<s, o>> \in Command
    BY CommandFacts
  <1>2. task'[<<t, op>>].pc = p
    BY <1>1 DEF Moves, Results, Task
  <1>3. \A s \in Target, o \in Op : <<s, o>> # <<t, op>> => task'[<<s, o>>] = task[<<s, o>>]
    BY <1>1 DEF Moves, Results
  <1>4. \A o \in Op : o # op => task'[<<t, o>>] = task[<<t, o>>]
    BY <1>3
  <1>5. \A o \in Op : Stage(t, o)' = IF o = op THEN p ELSE Stage(t, o)
    BY <1>2, <1>4 DEF Stage
  <1> QED
    BY <1>3, <1>4, <1>5

\* The result of a task, after Moves and after Results.
LEMMA ResultFacts ==
    ASSUME task \in [Command -> Task], NEW c \in Command, NEW p
    PROVE  /\ Moves(c, p) => task'[c].result = task[c].result
           /\ \A r \in {"ok", "no"} : Results(c, p, r) => task'[c].result = r
  BY DEF Moves, Results, Task

\* The native leg, when the Prepare is not what moves.
LEMMA NativeKept ==
    ASSUME NEW t \in Target, NativeInv(t), Stage(t, "prepare")' = Stage(t, "prepare"),
           task'[<<t, "prepare">>].result = task[<<t, "prepare">>].result,
           claim'[<<t, "prepare">>].response = claim[<<t, "prepare">>].response,
           proxy[t] = "none" => proxy'[t] = "none"
    PROVE  NativeInv(t)'
  BY DEF NativeInv

\* The record, the cell, the permit, the leg and the news of a target stay.
Steady(t) ==
    /\ route'[t].state = route[t].state /\ route'[t].pending = route[t].pending
    /\ cell'[t] = cell[t] /\ permit'[t] = permit[t]
    /\ proxy'[t] = proxy[t] /\ news'[t] = news[t]

\* What a command that is not busy may do without disturbing its target.
LEMMA QuietMove ==
    ASSUME NEW t \in Target, NEW op \in Op, NEW q, TargetInv(t), Around(t), Steady(t),
           \A o \in Op : Stage(t, o)' = IF o = op THEN q ELSE Stage(t, o),
           Stage(t, op) \notin Busy, q \notin Busy,
           source \in {"ending", "ended"} /\ op = "prepare"
             => q \in {"none", "answer", "done"} \/ InFlight(t)
    PROVE  /\ PermitInv(t)' /\ CellInv(t)' /\ EndInv(t)'
           /\ WorkInv(t)' /\ CommitInv(t)' /\ LocalInv(t)'
  <1>1. "prepare" \in Op /\ "activate" \in Op /\ "abort" \in Op /\ "end" \in Op
    BY DEF Op
  <1>2. \A o \in Op : Stage(t, o)' \in Busy => Stage(t, o)' = Stage(t, o)
    OBVIOUS
  <1>3. \A o \in Op : Stage(t, o) \in Busy => Stage(t, o)' = Stage(t, o)
    OBVIOUS
  <1>4. PermitInv(t)'
    BY <1>1, <1>2, <1>3 DEF TargetInv, PermitInv, Steady
  <1>5. CellInv(t)'
    BY <1>1, <1>2, <1>3 DEF TargetInv, CellInv, Steady, Around, Busy, Working
  <1>6. EndInv(t)'
    <2>1. LiveRoute(t)' = LiveRoute(t)
      BY DEF LiveRoute, Steady
    <2>2. source \in {"ending", "ended"} /\ t \notin late => ~InFlight(t)'
      <3>1. InFlight(t)' <=> Stage(t, "prepare")' \notin {"none", "answer", "done"}
        BY DEF InFlight, Stage
      <3>2. InFlight(t) <=> Stage(t, "prepare") \notin {"none", "answer", "done"}
        BY DEF InFlight, Stage
      <3> QED
        BY <1>1, <3>1, <3>2 DEF TargetInv, EndInv
    <2> QED
      BY <2>1, <2>2, Zenon DEF TargetInv, EndInv, Steady, Around
  <1>7. WorkInv(t)'
    BY <1>2 DEF TargetInv, WorkInv, Steady, Around, Busy
  <1>8. CommitInv(t)'
    <2>1. \A o \in Op : Stage(t, o)' = "committed" => Stage(t, o) = "committed"
      BY <1>2 DEF Busy
    <2> QED
      BY <1>1, <2>1 DEF TargetInv, CommitInv, Steady, Around
  <1>9. LocalInv(t)'
    <2>1. DurableState(cell[t])' = DurableState(cell[t])
      BY DEF Steady, DurableState
    <2>2. \A o \in Op \ {"data"} : Stage(t, o) = "committed" => Stage(t, o)' = "committed"
      BY <1>3 DEF Busy
    <2> QED
      BY <2>1, <2>2, Zenon DEF TargetInv, LocalInv, Steady, Around
  <1> QED
    BY <1>4, <1>5, <1>6, <1>7, <1>8, <1>9

\* What the proxy may do with the transition of a working command.
LEMMA WorkMove ==
    ASSUME NEW t \in Target, NEW op \in Op, NEW q \in {"handled", "failed"},
           TargetInv(t), Around(t),
           route'[t] = route[t], cell'[t] = cell[t], permit'[t] = permit[t],
           \A o \in Op : Stage(t, o)' = IF o = op THEN q ELSE Stage(t, o),
           Stage(t, op) = "handling"
    PROVE  /\ PermitInv(t)' /\ EndInv(t)' /\ WorkInv(t)'
           /\ news'[t] = news[t] \/ op \in {"abort", "end"} => CommitInv(t)' /\ LocalInv(t)'
           /\ (proxy[t] = "none" => proxy'[t] = "none") => CellInv(t)'
  <1>1. "prepare" \in Op /\ "activate" \in Op /\ "abort" \in Op /\ "end" \in Op
    BY DEF Op
  <1>2. \A o \in Op : Stage(t, o)' \in Working <=> Stage(t, o) \in Working
    BY DEF Working
  <1>3. \A o \in Op : Stage(t, o)' = "committed" <=> Stage(t, o) = "committed"
    OBVIOUS
  <1>4. PermitInv(t)'
    BY <1>1, <1>2, <1>3 DEF TargetInv, PermitInv, Busy
  <1>5. EndInv(t)'
    <2>1. LiveRoute(t)' = LiveRoute(t)
      BY DEF LiveRoute
    <2>2. InFlight(t)' = InFlight(t)
      <3>1. InFlight(t)' <=> Stage(t, "prepare")' \notin {"none", "answer", "done"}
        BY DEF InFlight, Stage
      <3>2. InFlight(t) <=> Stage(t, "prepare") \notin {"none", "answer", "done"}
        BY DEF InFlight, Stage
      <3>3. Stage(t, "prepare")' = Stage(t, "prepare") \/ (Stage(t, "prepare") = "handling"
                /\ Stage(t, "prepare")' \in {"handled", "failed"})
        BY <1>1
      <3>4. InFlight(t)' <=> InFlight(t)
        BY <3>1, <3>2, <3>3
      <3> QED
        BY <3>4, Zenon DEF InFlight
    <2> QED
      BY <2>1, <2>2, Zenon DEF TargetInv, EndInv, Around
  <1>6. WorkInv(t)'
    BY <1>2 DEF TargetInv, WorkInv, Around
  <1>7. source = "up" => route[t].pending = op /\ route[t].state = DurableState(cell[t])
    BY DEF TargetInv, WorkInv, Working
  <1>8. source = "up" /\ op \in {"abort", "end"} => Stage(t, "activate") # "committed"
    BY <1>1, <1>7 DEF TargetInv, CommitInv
  <1>9. ASSUME news'[t] = news[t] \/ op \in {"abort", "end"}
        PROVE  CommitInv(t)'
    BY <1>1, <1>3, <1>8, <1>9 DEF TargetInv, CommitInv, Around
  <1>10. ASSUME news'[t] = news[t] \/ op \in {"abort", "end"}
         PROVE  LocalInv(t)'
    <2>1. DurableState(cell[t])' = DurableState(cell[t])
      BY DEF DurableState
    <2> QED
      BY <1>7, <2>1 DEF LocalInv, Around
  <1>11. ASSUME proxy[t] = "none" => proxy'[t] = "none"
         PROVE  CellInv(t)'
    <2>1. \/ Stage(t, "prepare")' = Stage(t, "prepare")
          \/ Stage(t, "prepare") = "handling" /\ Stage(t, "prepare")' \in {"handled", "failed"}
      BY <1>1
    <2>2. Stage(t, "prepare")' \in Busy <=> Stage(t, "prepare") \in Busy
      BY <2>1 DEF Busy, Working
    <2>3. Stage(t, "prepare") = "handling" => proxy[t] = "none"
      BY DEF TargetInv, NativeInv
    <2> QED
      BY <1>11, <2>1, <2>2, <2>3 DEF TargetInv, CellInv, Around
  <1> QED
    BY <1>4, <1>5, <1>6, <1>9, <1>10, <1>11

\* A step of the command service leaves the other targets alone.
LEMMA ServiceAside ==
    ASSUME EgressTypeOK, NEW t \in Target, NEW op \in Op, ServiceStep(<<t, op>>),
           NEW s \in Target, s # t
    PROVE  Untouched(s) /\ Around(s)
  <1>1. StoreType /\ ServiceType
    BY DEF EgressTypeOK
  <1>2. /\ \A o \in Op : <<s, o>> \in Command /\ <<s, o>> # <<t, op>>
        /\ <<t, op>> \in Command /\ <<s, "prepare">> \in Command /\ <<s, "prepare">> # <<t, op>>
    BY CommandFacts DEF Op
  <1>3. Around(s)
    <2>1. UNCHANGED session /\ (draining' = draining \/ draining' = TRUE)
      BY DEF ServiceStep, Arrive, ClaimCommand, Begin, AfterFailure, Commit, Settle, AnswerCommand
    <2> QED
      BY <2>1 DEF Around, session
  <1>4. \A o \in Op : task'[<<s, o>>] = task[<<s, o>>]
    <2>1. \/ task' = task \/ \E e : task' = [task EXCEPT ![<<t, op>>] = e]
          \/ \E p : Moves(<<t, op>>, p) \/ \E r \in {"ok", "no"} : Results(<<t, op>>, p, r)
          \/ task' = [task EXCEPT ![<<t, op>>].pc = "handling", ![<<t, op>>].result = "no"]
      <3>1. ASSUME NEW m \in mail, Arrive(<<t, op>>, m)
            PROVE  task' = task \/ \E e : task' = [task EXCEPT ![<<t, op>>] = e]
        BY <3>1 DEF Arrive
      <3>2. ASSUME ClaimCommand(<<t, op>>)
            PROVE  \/ task' = [task EXCEPT ![<<t, op>>] = Idle]
                   \/ Moves(<<t, op>>, "claimed")
                   \/ \E r \in {"ok", "no"} : Results(<<t, op>>, "done", r)
        BY <3>2 DEF ClaimCommand
      <3>3. ASSUME Begin(<<t, op>>)
            PROVE  \/ Results(<<t, op>>, "answer", "no")
                   \/ task' = [task EXCEPT ![<<t, op>>].pc = "handling", ![<<t, op>>].result = "no"]
        BY <3>3 DEF Begin
      <3>4. ASSUME AfterFailure(<<t, op>>) \/ Commit(<<t, op>>) \/ Settle(<<t, op>>)
            PROVE  \/ Moves(<<t, op>>, "committed")
                   \/ \E r \in {"ok", "no"} : Results(<<t, op>>, "answer", r)
        BY <3>4 DEF AfterFailure, Commit, Settle
      <3>5. ASSUME AnswerCommand(<<t, op>>)
            PROVE  Moves(<<t, op>>, "done") \/ Results(<<t, op>>, "done", "no")
        BY <3>5 DEF AnswerCommand
      <3> QED
        BY <3>1, <3>2, <3>3, <3>4, <3>5 DEF ServiceStep
    <2>2. task \in [Command -> Task]
      BY <1>1 DEF ServiceType
    <2>3. ASSUME NEW e, task' = [task EXCEPT ![<<t, op>>] = e]
          PROVE  \A o \in Op : task'[<<s, o>>] = task[<<s, o>>]
      BY <1>2, <2>2, <2>3
    <2>4. ASSUME NEW p, Moves(<<t, op>>, p) \/ \E r \in {"ok", "no"} : Results(<<t, op>>, p, r)
          PROVE  \A o \in Op : task'[<<s, o>>] = task[<<s, o>>]
      BY <2>2, <2>4, StageFacts
    <2>5. ASSUME task' = [task EXCEPT ![<<t, op>>].pc = "handling", ![<<t, op>>].result = "no"]
          PROVE  \A o \in Op : task'[<<s, o>>] = task[<<s, o>>]
      BY <1>2, <2>2, <2>5
    <2> QED
      BY <2>1, <2>3, <2>4, <2>5
  <1>5. claim'[<<s, "prepare">>] = claim[<<s, "prepare">>]
    <2>1. claim' = claim \/ (\E e : claim' = [claim EXCEPT ![<<t, op>>] = e])
            \/ claim' = [claim EXCEPT ![<<t, op>>].response = task[<<t, op>>].result]
      BY DEF ServiceStep, Arrive, ClaimCommand, Begin, AfterFailure, Commit, Settle, AnswerCommand,
             durable
    <2> QED
      BY <1>1, <1>2, <2>1 DEF StoreType
  <1>6. route'[s] = route[s]
    <2>1. \/ route' = route \/ route' = [route EXCEPT ![t].pending = op]
          \/ AbortRoute(t) \/ CompleteRoute(t, Leads(op))
      BY DEF ServiceStep, Arrive, ClaimCommand, Begin, AfterFailure, Commit, Settle, AnswerCommand,
             durable
    <2> QED
      BY <1>1, <2>1 DEF StoreType, AbortRoute, CompleteRoute
  <1>7. cell'[s] = cell[s]
    <2>1. cell' = cell \/ (\E e : cell' = [cell EXCEPT ![t] = e]) \/ cell' = Without(t)
      BY DEF ServiceStep, Arrive, ClaimCommand, Begin, AfterFailure, Commit, Settle, AnswerCommand
    <2> QED
      BY <1>1, <2>1 DEF ServiceType, Without
  <1>8. permit'[s] = permit[s]
    <2>1. permit' = permit \/ (\E e : permit' = [permit EXCEPT ![t] = e]) \/ permit' = Freed(t)
      BY DEF ServiceStep, Arrive, ClaimCommand, Begin, AfterFailure, Commit, Settle, AnswerCommand
    <2> QED
      BY <1>1, <2>1 DEF ServiceType, Freed
  <1>9. proxy'[s] = proxy[s] /\ news'[s] = news[s]
    <2>1. /\ proxy' = proxy \/ proxy' = CleanedUp(t)
          /\ news' = news \/ news' = [news EXCEPT ![t] = "none"]
      BY DEF ServiceStep, Arrive, ClaimCommand, Begin, AfterFailure, Commit, Settle, AnswerCommand
    <2> QED
      BY <1>1, <2>1 DEF ServiceType, CleanedUp
  <1> QED
    BY <1>3, <1>4, <1>5, <1>6, <1>7, <1>8, <1>9 DEF Untouched

\* An arriving message.
LEMMA ArriveStep ==
    ASSUME EgressInv, NEW t \in Target, NEW op \in Op, NEW m \in mail, Arrive(<<t, op>>, m)
    PROVE  TargetInv(t)'
  <1>1. ServiceType /\ TargetInv(t)
    BY DEF EgressInv, EgressTypeOK
  <1>2. source = "up" /\ Around(t) /\ Steady(t)
        /\ claim'[<<t, "prepare">>] = claim[<<t, "prepare">>]
    BY DEF Arrive, Around, Steady, session, durable
  <1>3. "prepare" \in Op /\ <<t, op>> \in Command /\ \A o \in Op : <<t, o>> \in Command
    BY CommandFacts DEF Op
  <1>4. CASE task' = task
    <2>1. Untouched(t)
      BY <1>2, <1>4 DEF Untouched, Steady
    <2> QED
      BY <1>1, <1>2, <2>1, Aside
  <1>5. CASE /\ task[<<t, op>>].pc \in {"none", "done"}
             /\ task' = [task EXCEPT ![<<t, op>>] = [Idle EXCEPT !.pc = "arrived", !.digest = m[2]]]
    <2>1. \A o \in Op : Stage(t, o)' = IF o = op THEN "arrived" ELSE Stage(t, o)
      BY <1>1, <1>3, <1>5 DEF ServiceType, Stage, Idle
    <2>2. \A o \in Op : o # op => task'[<<t, o>>] = task[<<t, o>>]
      BY <1>1, <1>3, <1>5 DEF ServiceType
    <2>3. Stage(t, op) \notin Busy /\ "arrived" \notin Busy
      BY <1>5 DEF Stage, Busy, Working
    <2>4. /\ PermitInv(t)' /\ CellInv(t)' /\ EndInv(t)'
          /\ WorkInv(t)' /\ CommitInv(t)' /\ LocalInv(t)'
      BY <1>1, <1>2, <2>1, <2>3, QuietMove
    <2>5. NativeInv(t)'
      <3>1. CASE op = "prepare"
        <4>1. Stage(t, "prepare")' = "arrived"
          BY <1>3, <2>1, <3>1
        <4> QED
          BY <1>1, <1>2, <4>1 DEF TargetInv, NativeInv, Steady, Busy, Working
      <3>2. CASE op # "prepare"
        BY <1>1, <1>2, <1>3, <2>1, <2>2, <3>2, NativeKept DEF TargetInv, Steady
      <3> QED
        BY <3>1, <3>2
    <2> QED
      BY <2>4, <2>5 DEF TargetInv
  <1> QED
    BY <1>4, <1>5 DEF Arrive

\* The durable claim of a command.
LEMMA ClaimCommandStep ==
    ASSUME EgressInv, NEW t \in Target, NEW op \in Op, ClaimCommand(<<t, op>>)
    PROVE  TargetInv(t)'
  <1>1. ServiceType /\ StoreType /\ TargetInv(t)
    BY DEF EgressInv, EgressTypeOK
  <1>2. Around(t) /\ Steady(t)
    BY DEF ClaimCommand, Around, Steady, session
  <1>3. /\ "prepare" \in Op /\ <<t, op>> \in Command
        /\ \A o \in Op : <<t, o>> \in Command
    BY CommandFacts DEF Op
  <1>4. PICK q \in {"claimed", "none", "done"} :
          /\ \A o \in Op : Stage(t, o)' = IF o = op THEN q ELSE Stage(t, o)
          /\ \A o \in Op : o # op => task'[<<t, o>>] = task[<<t, o>>]
          /\ q = "claimed" => ~ClaimTaken(<<t, op>>)
    <2>1. CASE Moves(<<t, op>>, "claimed") /\ ~ClaimTaken(<<t, op>>)
      BY <1>1, <2>1, StageFacts DEF ServiceType
    <2>2. CASE \E r \in {"ok", "no"} : Results(<<t, op>>, "done", r)
      <3>1. /\ \A o \in Op : Stage(t, o)' = IF o = op THEN "done" ELSE Stage(t, o)
            /\ \A o \in Op : o # op => task'[<<t, o>>] = task[<<t, o>>]
        BY <1>1, <2>2, StageFacts DEF ServiceType
      <3> QED
        BY <3>1
    <2>3. CASE task' = [task EXCEPT ![<<t, op>>] = Idle]
      <3>1. \A o \in Op : Stage(t, o)' = IF o = op THEN "none" ELSE Stage(t, o)
        BY <1>1, <1>3, <2>3 DEF ServiceType, Stage, Idle
      <3>2. \A o \in Op : o # op => task'[<<t, o>>] = task[<<t, o>>]
        BY <1>1, <1>3, <2>3 DEF ServiceType
      <3> QED
        BY <3>1, <3>2
    <2> QED
      BY <2>1, <2>2, <2>3 DEF ClaimCommand
  <1>5. Stage(t, op) = "arrived"
    BY DEF ClaimCommand, Stage
  <1>6. /\ PermitInv(t)' /\ CellInv(t)' /\ EndInv(t)'
        /\ WorkInv(t)' /\ CommitInv(t)' /\ LocalInv(t)'
    <2>1. Stage(t, op) \notin Busy /\ q \notin Busy
      BY <1>4, <1>5 DEF Busy, Working
    <2>2. op = "prepare" => q \in {"none", "answer", "done"} \/ InFlight(t)
      BY <1>5 DEF InFlight, Stage
    <2> QED
      BY <1>1, <1>2, <1>4, <2>1, <2>2, QuietMove
  <1>7. NativeInv(t)'
    <2>1. CASE op = "prepare"
      <3>1. Stage(t, "prepare")' = q
        BY <1>3, <1>4, <2>1
      <3>2. /\ claim'[<<t, "prepare">>].response = claim[<<t, "prepare">>].response
                 \/ claim'[<<t, "prepare">>].response = "flight"
            /\ ~ClaimTaken(<<t, "prepare">>) => claim'[<<t, "prepare">>].response = "flight"
        BY <1>1, <1>3, <2>1 DEF ClaimCommand, StoreType, Claim
      <3>3. ~ClaimTaken(<<t, "prepare">>) => proxy[t] = "none"
        BY <1>1 DEF TargetInv, NativeInv, ClaimTaken
      <3> QED
        BY <1>1, <1>2, <1>4, <2>1, <3>1, <3>2, <3>3
           DEF TargetInv, NativeInv, Steady, Busy, Working
    <2>2. CASE op # "prepare"
      <3>1. claim'[<<t, "prepare">>] = claim[<<t, "prepare">>]
        BY <1>1, <1>3, <2>2 DEF ClaimCommand, StoreType
      <3> QED
        BY <1>1, <1>2, <1>3, <1>4, <2>2, <3>1, NativeKept DEF TargetInv, Steady
    <2> QED
      BY <2>1, <2>2
  <1> QED
    BY <1>6, <1>7 DEF TargetInv

\* A transition that can be claimed: nothing is committed and not yet settled.
LEMMA NothingCommitted ==
    ASSUME NEW t \in Target, NEW op \in Op, CellInv(t), CommitInv(t), SourceInv, source = "up",
           cell[t] \in Expected(op), Claimable(t, DurableState(cell[t]))
    PROVE  \A o \in Op \ {"data"} : Stage(t, o) # "committed"
  <1>1. route[t].state = DurableState(cell[t]) /\ route[t].pending = "none" /\ late = {}
    BY DEF Claimable, SourceInv
  <1>2. cell[t] \in {"absent", "empty", "prepared", "active"}
    BY DEF Expected, Op
  <1>3. Stage(t, "prepare") # "committed"
    BY <1>1 DEF CellInv, CommitInv, DurableState, Busy
  <1>4. Stage(t, "activate") # "committed"
    BY <1>1, <1>2 DEF CommitInv, DurableState
  <1>5. Stage(t, "abort") # "committed" /\ Stage(t, "end") # "committed"
    BY <1>1, <1>2 DEF CommitInv, DurableState
  <1> QED
    BY <1>3, <1>4, <1>5 DEF Op

\* Claiming a transition, with or without the answer of the store.
LEMMA ClaimedTransition ==
    ASSUME NEW t \in Target, NEW op \in Op, NEW q \in {"answer", "handling"},
           TargetInv(t), SourceInv, Around(t), route[t] \in Route,
           cell[t] \in Expected(op), Claimable(t, DurableState(cell[t])),
           route'[t] = [route[t] EXCEPT !.pending = op],
           cell'[t] = IF q = "handling" /\ op = "prepare" THEN "empty" ELSE cell[t],
           Stage(t, op) = "claimed",
           \A o \in Op : Stage(t, o)' = IF o = op THEN q ELSE Stage(t, o)
    PROVE  EndInv(t)' /\ WorkInv(t)' /\ CommitInv(t)' /\ LocalInv(t)'
  <1>1. "prepare" \in Op /\ "activate" \in Op /\ "abort" \in Op /\ "end" \in Op
    BY DEF Op
  <1>2. /\ route'[t].pending = op /\ route'[t].state = route[t].state
        /\ route[t].state = DurableState(cell[t]) /\ route[t].pending = "none" /\ op # "none"
    BY DEF Claimable, Route, Op
  <1>3. DurableState(cell[t])' = DurableState(cell[t])
    BY DEF DurableState, Expected
  <1>4. EndInv(t)'
    <2>1. CASE op = "prepare"
      <3>1. InFlight(t)
        BY <2>1 DEF InFlight, Stage
      <3> QED
        BY <3>1 DEF TargetInv, EndInv, Around
    <2>2. CASE op # "prepare"
      <3>1. cell[t] \in {"prepared", "active"} /\ cell'[t] = cell[t]
        BY <2>2 DEF Expected, Op
      <3>2. LiveRoute(t)
        BY <1>2, <3>1 DEF LiveRoute, DurableState
      <3>3. Stage(t, "prepare")' = Stage(t, "prepare")
        BY <1>1, <2>2
      <3>4. InFlight(t)' => InFlight(t)
        BY <3>3 DEF InFlight, Stage
      <3> QED
        BY <3>1, <3>2, <3>4 DEF TargetInv, EndInv, Around
    <2> QED
      BY <2>1, <2>2
  <1>5. source = "up" => \A o \in Op \ {"data"} : Stage(t, o)' # "committed"
    BY NothingCommitted DEF TargetInv
  <1>6. WorkInv(t)'
    <2> SUFFICES ASSUME source = "up", NEW o \in Op, Stage(t, o)' \in Working
                 PROVE  /\ route'[t].pending = o
                        /\ route'[t].state = DurableState(cell'[t])
                        /\ cell'[t] \in Expected(o)
      BY DEF WorkInv, Around
    <2>1. o = op
      <3>1. ASSUME o # op
            PROVE  FALSE
        <4>1. Stage(t, o) \in Working
          BY <3>1
        <4>2. route[t].pending = o
          BY <4>1 DEF TargetInv, WorkInv
        <4> QED
          BY <1>2, <4>2 DEF Op
      <3> QED
        BY <3>1
    <2>2. DurableState(cell'[t]) = DurableState(cell[t])
      BY <1>3
    <2>3. cell'[t] \in Expected(op)
      BY DEF Expected
    <2> QED
      BY <1>2, <2>1, <2>2, <2>3
  <1>7. CommitInv(t)'
    BY <1>1, <1>5 DEF CommitInv, Around
  <1>8. LocalInv(t)'
    BY <1>2, <1>3 DEF LocalInv
  <1> QED
    BY <1>4, <1>6, <1>7, <1>8

\* execute_once up to the proxy.
LEMMA BeginStep ==
    ASSUME EgressInv, NEW t \in Target, NEW op \in Op, Begin(<<t, op>>)
    PROVE  TargetInv(t)'
  <1>1. ServiceType /\ StoreType /\ TargetInv(t) /\ SourceInv
    BY DEF EgressInv, EgressTypeOK
  <1>2. Around(t) /\ proxy' = proxy /\ news' = news /\ claim' = claim /\ Stage(t, op) = "claimed"
    BY DEF Begin, Around, session, Stage
  <1>3. /\ "prepare" \in Op /\ <<t, op>> \in Command
        /\ task \in [Command -> Task] /\ route[t] \in Route
    BY <1>1, CommandFacts DEF Op, ServiceType, StoreType
  <1>4. ASSUME Results(<<t, op>>, "answer", "no")
        PROVE  /\ \A o \in Op : Stage(t, o)' = IF o = op THEN "answer" ELSE Stage(t, o)
               /\ NativeInv(t)'
    <2>1. /\ \A o \in Op : Stage(t, o)' = IF o = op THEN "answer" ELSE Stage(t, o)
          /\ \A o \in Op : o # op => task'[<<t, o>>] = task[<<t, o>>]
      BY <1>3, <1>4, StageFacts
    <2>2. CASE op = "prepare"
      <3>1. Stage(t, "prepare")' = "answer" /\ Stage(t, "prepare") = "claimed"
        BY <1>2, <1>3, <2>1, <2>2
      <3>2. proxy'[t] = "none" /\ claim'[<<t, "prepare">>].response = "flight"
        BY <1>1, <1>2, <3>1 DEF TargetInv, NativeInv
      <3> QED
        BY <2>1, <3>2 DEF NativeInv
    <2>3. CASE op # "prepare"
      BY <1>1, <1>2, <1>3, <2>1, <2>3, NativeKept DEF TargetInv
    <2> QED
      BY <2>1, <2>2, <2>3
  <1>5. CASE Results(<<t, op>>, "answer", "no") /\ UNCHANGED <<route, cell, permit>>
    <2>1. Steady(t)
      BY <1>2, <1>5 DEF Steady
    <2>2. Stage(t, op) \notin Busy /\ "answer" \notin Busy
      BY <1>2 DEF Busy, Working
    <2> QED
      BY <1>1, <1>2, <1>4, <1>5, <2>1, <2>2, QuietMove DEF TargetInv
  <1>6. CASE /\ cell[t] \in Expected(op) /\ Claimable(t, DurableState(cell[t]))
             /\ route' = [route EXCEPT ![t].pending = op]
             /\ Results(<<t, op>>, "answer", "no") /\ UNCHANGED <<cell, permit>>
    <2>1. route'[t] = [route[t] EXCEPT !.pending = op]
      BY <1>1, <1>6 DEF StoreType
    <2>2. EndInv(t)' /\ WorkInv(t)' /\ CommitInv(t)' /\ LocalInv(t)'
      BY <1>1, <1>2, <1>3, <1>4, <1>6, <2>1, ClaimedTransition
    <2>3. /\ Stage(t, "prepare")' \in Busy <=> Stage(t, "prepare") \in Busy
          /\ Stage(t, "prepare")' \in Busy => Stage(t, "prepare")' = Stage(t, "prepare")
          /\ Stage(t, "prepare") \in Busy => Stage(t, "prepare")' = Stage(t, "prepare")
      BY <1>2, <1>3, <1>4, <1>6 DEF Busy, Working
    <2>4. PermitInv(t)'
      BY <1>1, <1>6, <2>3 DEF TargetInv, PermitInv
    <2>5. CellInv(t)'
      BY <1>1, <1>2, <1>6, <2>3 DEF TargetInv, CellInv, Around, Busy, Working
    <2> QED
      BY <1>4, <1>6, <2>2, <2>4, <2>5 DEF TargetInv
  <1>7. CASE /\ cell[t] \in Expected(op) /\ Claimable(t, DurableState(cell[t]))
             /\ route' = [route EXCEPT ![t].pending = op]
             /\ cell' = IF op = "prepare" THEN [cell EXCEPT ![t] = "empty"] ELSE cell
             /\ permit' = IF op = "prepare" THEN [permit EXCEPT ![t] = "task"] ELSE permit
             /\ task' = [task EXCEPT ![<<t, op>>].pc = "handling", ![<<t, op>>].result = "no"]
    <2>1. /\ route'[t] = [route[t] EXCEPT !.pending = op]
          /\ cell'[t] = IF op = "prepare" THEN "empty" ELSE cell[t]
          /\ permit'[t] = IF op = "prepare" THEN "task" ELSE permit[t]
      BY <1>1, <1>7 DEF StoreType, ServiceType
    <2>2. /\ \A o \in Op : Stage(t, o)' = IF o = op THEN "handling" ELSE Stage(t, o)
          /\ \A o \in Op : o # op => task'[<<t, o>>] = task[<<t, o>>]
      <3>1. Results(<<t, op>>, "handling", "no")
        BY <1>7 DEF Results
      <3> QED
        BY <1>3, <3>1, StageFacts
    <2>3. EndInv(t)' /\ WorkInv(t)' /\ CommitInv(t)' /\ LocalInv(t)'
      BY <1>1, <1>2, <1>3, <1>7, <2>1, <2>2, ClaimedTransition
    <2>4. CASE op = "prepare"
      <3>1. Stage(t, "prepare")' = "handling" /\ Stage(t, "prepare") = "claimed"
        BY <1>2, <1>3, <2>2, <2>4
      <3>2. proxy'[t] = "none" /\ claim'[<<t, "prepare">>].response = "flight"
        BY <1>1, <1>2, <3>1 DEF TargetInv, NativeInv
      <3>3. PermitInv(t)' /\ NativeInv(t)' /\ CellInv(t)'
        BY <2>1, <2>4, <3>1, <3>2 DEF PermitInv, NativeInv, CellInv, Busy, Working
      <3> QED
        BY <2>3, <3>3 DEF TargetInv
    <2>5. CASE op # "prepare"
      <3>1. Stage(t, "prepare")' = Stage(t, "prepare")
        BY <1>3, <2>2, <2>5
      <3>2. NativeInv(t)'
        BY <1>1, <1>2, <1>3, <2>2, <2>5, <3>1, NativeKept DEF TargetInv
      <3>3. PermitInv(t)' /\ CellInv(t)'
        BY <1>1, <1>2, <2>1, <2>5, <3>1 DEF TargetInv, PermitInv, CellInv, Around
      <3> QED
        BY <2>3, <3>2, <3>3 DEF TargetInv
    <2> QED
      BY <2>4, <2>5
  <1> QED
    BY <1>5, <1>6, <1>7 DEF Begin

\* A working command that gives its transition up: the cell keeps its state.
LEMMA GivesUp ==
    ASSUME NEW t \in Target, NEW op \in Op, TargetInv(t), Around(t), Stage(t, op) \in Working,
           \A o \in Op : Stage(t, o)' = IF o = op THEN "answer" ELSE Stage(t, o),
           DurableState(cell[t])' = DurableState(cell[t]),
           op # "prepare" => cell'[t] = cell[t],
           draining' \/ (/\ route'[t].state = route[t].state
                         /\ LiveRoute(t)' => LiveRoute(t))
    PROVE  EndInv(t)' /\ WorkInv(t)' /\ CommitInv(t)' /\ LocalInv(t)'
  <1>1. "prepare" \in Op /\ "activate" \in Op /\ "abort" \in Op /\ "end" \in Op
    BY DEF Op
  <1>2. source = "up" =>
          /\ route[t].pending = op /\ op # "none" /\ route[t].state = DurableState(cell[t])
          /\ \A o \in Op \ {"data"} : Stage(t, o) # "committed"
    BY DEF TargetInv, WorkInv, CommitInv, Op
  <1>3. EndInv(t)'
    <2>1. CASE op = "prepare"
      <3>1. InFlight(t)
        BY <2>1 DEF InFlight, Stage, Working
      <3> QED
        BY <3>1 DEF TargetInv, EndInv, Around
    <2>2. CASE op # "prepare"
      <3>1. Stage(t, "prepare")' = Stage(t, "prepare")
        BY <1>1, <2>2
      <3>2. InFlight(t)' => InFlight(t)
        BY <3>1 DEF InFlight, Stage
      <3> QED
        BY <2>2, <3>2 DEF TargetInv, EndInv, Around
    <2> QED
      BY <2>1, <2>2
  <1>4. WorkInv(t)'
    <2> SUFFICES ASSUME source = "up", NEW o \in Op, Stage(t, o)' \in Working
                 PROVE  FALSE
      BY DEF WorkInv, Around
    <2>1. o # op
      BY DEF Working
    <2>2. Stage(t, o) \in Working
      BY <2>1
    <2>3. route[t].pending = o
      BY <2>2 DEF TargetInv, WorkInv
    <2> QED
      BY <1>2, <2>1, <2>3
  <1>5. source = "up" => \A o \in Op \ {"data"} : Stage(t, o)' # "committed"
    BY <1>2
  <1>6. CommitInv(t)'
    BY <1>1, <1>5 DEF CommitInv, Around
  <1>7. LocalInv(t)'
    BY <1>2 DEF LocalInv, Around
  <1> QED
    BY <1>3, <1>4, <1>6, <1>7

\* A Prepare that gives up: its permit and its cell are free, nothing is staged.
LEMMA PrepareGivesUp ==
    ASSUME NEW t \in Target, TargetInv(t), Around(t), Stage(t, "prepare") \in Working,
           Stage(t, "prepare")' = "answer", permit'[t] = "none", proxy'[t] = "none",
           claim' = claim, cell'[t] \in {"absent", "empty"}
    PROVE  PermitInv(t)' /\ NativeInv(t)' /\ CellInv(t)'
  <1>1. claim[<<t, "prepare">>].response = "flight"
    BY DEF TargetInv, NativeInv, Busy
  <1> QED
    BY <1>1 DEF PermitInv, NativeInv, CellInv, Busy, Working

\* Another operation keeps permit, native leg and cell of its target.
LEMMA OtherKeeps ==
    ASSUME NEW t \in Target, TargetInv(t), Around(t), claim' = claim,
           task'[<<t, "prepare">>] = task[<<t, "prepare">>],
           permit'[t] = permit[t], cell'[t] = cell[t], proxy[t] = "none" => proxy'[t] = "none"
    PROVE  PermitInv(t)' /\ NativeInv(t)' /\ CellInv(t)'
  <1>1. Stage(t, "prepare")' = Stage(t, "prepare")
    BY DEF Stage
  <1>2. NativeInv(t)'
    BY <1>1, NativeKept DEF TargetInv
  <1> QED
    BY <1>1, <1>2 DEF TargetInv, PermitInv, CellInv, Around

\* What the cell of a Prepare is.
LEMMA PrepareCell ==
    ASSUME NEW t \in Target, cell \in [Target -> Cell], CellInv(t), Stage(t, "prepare") \in Busy
    PROVE  cell[t] \in {"absent", "empty"} /\ Without(t)[t] = "absent"
  BY DEF CellInv, Without

\* execute_once after a failure of the proxy.
LEMMA AfterFailureStep ==
    ASSUME EgressInv, NEW t \in Target, NEW op \in Op, AfterFailure(<<t, op>>)
    PROVE  TargetInv(t)'
  <1>1. ServiceType /\ StoreType /\ TargetInv(t)
    BY DEF EgressInv, EgressTypeOK
  <1>2. Around(t) /\ proxy' = proxy /\ news' = news /\ claim' = claim /\ Stage(t, op) = "failed"
    BY DEF AfterFailure, Around, session, Stage
  <1>3. "prepare" \in Op /\ task \in [Command -> Task] /\ cell \in [Target -> Cell]
    BY <1>1 DEF Op, ServiceType
  <1>4. /\ \A o \in Op : Stage(t, o)' = IF o = op THEN "answer" ELSE Stage(t, o)
        /\ \A o \in Op : o # op => task'[<<t, o>>] = task[<<t, o>>]
    BY <1>3, StageFacts DEF AfterFailure
  <1>5. Stage(t, op) \in Working
    BY <1>2 DEF Working
  <1>6. route'[t].state = route[t].state /\ (LiveRoute(t)' => LiveRoute(t))
    <2>1. route' = route \/ route' = [route EXCEPT ![t].pending = "none"]
      BY DEF AfterFailure, AbortRoute
    <2>2. /\ route'[t].state = route[t].state
          /\ route'[t].pending = route[t].pending \/ route'[t].pending = "none"
      BY <1>1, <2>1 DEF StoreType, Route
    <2> QED
      BY <2>2 DEF LiveRoute
  <1>7. CASE op = "prepare"
    <2>1. Stage(t, "prepare")' = "answer" /\ Stage(t, "prepare") = "failed"
      BY <1>2, <1>3, <1>4, <1>7
    <2>2. cell[t] \in {"absent", "empty"} /\ Without(t)[t] = "absent"
      BY <1>1, <1>3, <1>5, <1>7, PrepareCell DEF TargetInv, Busy
    <2>3. permit'[t] = "none" /\ (cell'[t] = cell[t] \/ cell'[t] = "absent")
      BY <1>1, <1>7, <2>2 DEF AfterFailure, Freed, ServiceType
    <2>4. proxy'[t] = "none"
      BY <1>1, <1>2, <2>1 DEF TargetInv, NativeInv
    <2>5. PermitInv(t)' /\ NativeInv(t)' /\ CellInv(t)'
      BY <1>1, <1>2, <1>5, <1>7, <2>1, <2>2, <2>3, <2>4, PrepareGivesUp
    <2>6. DurableState(cell[t])' = DurableState(cell[t])
      BY <2>2, <2>3 DEF DurableState
    <2>7. EndInv(t)' /\ WorkInv(t)' /\ CommitInv(t)' /\ LocalInv(t)'
      BY <1>1, <1>2, <1>4, <1>5, <1>6, <1>7, <2>6, GivesUp
    <2> QED
      BY <2>5, <2>7 DEF TargetInv
  <1>8. CASE op # "prepare"
    <2>1. cell' = cell /\ permit' = permit /\ task'[<<t, "prepare">>] = task[<<t, "prepare">>]
      BY <1>3, <1>4, <1>8 DEF AfterFailure
    <2>2. PermitInv(t)' /\ NativeInv(t)' /\ CellInv(t)'
      BY <1>1, <1>2, <2>1, OtherKeeps
    <2>3. DurableState(cell[t])' = DurableState(cell[t])
      BY <2>1 DEF DurableState
    <2>4. EndInv(t)' /\ WorkInv(t)' /\ CommitInv(t)' /\ LocalInv(t)'
      BY <1>1, <1>2, <1>4, <1>5, <1>6, <2>1, <2>3, GivesUp
    <2> QED
      BY <2>2, <2>4 DEF TargetInv
  <1> QED
    BY <1>7, <1>8

\* complete_route_transition is answered.
LEMMA CommitSucceeds ==
    ASSUME EgressInv, NEW t \in Target, NEW op \in Op, task[<<t, op>>].pc = "handled",
           route[t].pending = op, CompleteRoute(t, Leads(op)), Moves(<<t, op>>, "committed"),
           UNCHANGED <<session, claim, draining, cell, permit, proxy, news>>
    PROVE  TargetInv(t)'
  <1>1. ServiceType /\ StoreType /\ TargetInv(t) /\ SourceInv
    BY DEF EgressInv, EgressTypeOK
  <1>2. Around(t) /\ Stage(t, op) = "handled" /\ op # "none"
    BY DEF Around, session, Stage, Op
  <1>3. /\ "prepare" \in Op /\ "activate" \in Op /\ "abort" \in Op /\ "end" \in Op
        /\ task \in [Command -> Task]
    BY <1>1 DEF Op, ServiceType
  <1>4. /\ \A o \in Op : Stage(t, o)' = IF o = op THEN "committed" ELSE Stage(t, o)
        /\ \A o \in Op : o # op => task'[<<t, o>>] = task[<<t, o>>]
    BY <1>3, StageFacts
  <1>5. route'[t].pending = "none" /\ route'[t].state = Leads(op)
    BY <1>1 DEF CompleteRoute, StoreType, Route
  <1>6. source = "up" =>
          /\ cell[t] \in Expected(op) /\ \A o \in Op \ {"data"} : Stage(t, o) # "committed"
    BY <1>1, <1>2 DEF TargetInv, WorkInv, CommitInv, Working
  <1>7. LiveRoute(t)
    BY <1>2 DEF LiveRoute
  <1>8. PermitInv(t)' /\ NativeInv(t)' /\ CellInv(t)' /\ EndInv(t)'
    <2>1. CASE op = "prepare"
      <3>1. Stage(t, "prepare")' = "committed" /\ Stage(t, "prepare") = "handled"
        BY <1>2, <1>3, <1>4, <2>1
      <3>2. InFlight(t)
        BY <3>1 DEF InFlight, Stage
      <3>3. claim[<<t, "prepare">>].response = "flight"
        BY <1>1, <3>1 DEF TargetInv, NativeInv, Busy, Working
      <3>4. PermitInv(t)' /\ NativeInv(t)'
        BY <1>1, <3>1, <3>3 DEF TargetInv, PermitInv, NativeInv, Busy, Working
      <3>5. CellInv(t)' /\ EndInv(t)'
        BY <1>1, <1>2, <3>1, <3>2 DEF TargetInv, CellInv, EndInv, Around, Busy, Working
      <3> QED
        BY <3>4, <3>5
    <2>2. CASE op # "prepare"
      <3>1. task'[<<t, "prepare">>] = task[<<t, "prepare">>]
        BY <1>3, <1>4, <2>2
      <3>2. InFlight(t)' => InFlight(t)
        BY <3>1 DEF InFlight
      <3>3. EndInv(t)'
        BY <1>1, <1>2, <1>7, <3>2 DEF TargetInv, EndInv, Around
      <3> QED
        BY <1>1, <1>2, <3>1, <3>3, OtherKeeps
    <2> QED
      BY <2>1, <2>2
  <1>9. WorkInv(t)'
    <2> SUFFICES ASSUME source = "up", NEW o \in Op, Stage(t, o)' \in Working
                 PROVE  FALSE
      BY <1>2 DEF WorkInv, Around
    <2>1. o # op
      BY <1>4 DEF Working
    <2>2. Stage(t, o) \in Working
      BY <1>4, <2>1
    <2>3. route[t].pending = o
      BY <1>1, <2>2 DEF TargetInv, WorkInv
    <2> QED
      BY <2>1, <2>3
  <1>10. CommitInv(t)'
    <2> SUFFICES ASSUME source = "up"
                 PROVE  CommitInv(t)'
      BY <1>2 DEF CommitInv, Around
    <2>1. \A o \in Op \ {"data"} : Stage(t, o)' = "committed" => o = op
      BY <1>4, <1>6
    <2>2. CASE op = "prepare"
      BY <1>3, <1>5, <2>1, <2>2 DEF CommitInv, Leads
    <2>3. CASE op = "activate"
      BY <1>3, <1>5, <1>6, <2>1, <2>3 DEF CommitInv, Leads, Expected
    <2>4. CASE op = "abort"
      BY <1>3, <1>5, <1>6, <2>1, <2>4 DEF CommitInv, Leads, Expected
    <2>5. CASE op = "end"
      BY <1>3, <1>5, <1>6, <2>1, <2>5 DEF CommitInv, Leads, Expected
    <2>6. CASE op = "data"
      BY <1>3, <2>1, <2>6 DEF CommitInv
    <2> QED
      BY <2>2, <2>3, <2>4, <2>5, <2>6 DEF Op
  <1>11. LocalInv(t)'
    <2> SUFFICES ASSUME source = "up"
                 PROVE  LocalInv(t)'
      BY <1>2 DEF LocalInv, Around
    <2>1. CASE op = "data"
      <3>1. cell'[t] = "active" /\ route'[t].state = "active"
        BY <1>5, <1>6, <2>1 DEF Leads, Expected
      <3> QED
        BY <3>1 DEF LocalInv, DurableState
    <2>2. CASE op # "data"
      BY <1>4, <2>2 DEF LocalInv
    <2> QED
      BY <2>1, <2>2
  <1> QED
    BY <1>8, <1>9, <1>10, <1>11 DEF TargetInv

\* complete_route_transition, and the cleanup when it fails.
LEMMA CommitStep ==
    ASSUME EgressInv, NEW t \in Target, NEW op \in Op, Commit(<<t, op>>)
    PROVE  TargetInv(t)'
  <1>1. ServiceType /\ StoreType /\ TargetInv(t)
    BY DEF EgressInv, EgressTypeOK
  <1>2. Stage(t, op) = "handled" /\ claim' = claim /\ UNCHANGED session
    BY DEF Commit, Stage
  <1>3. "prepare" \in Op /\ task \in [Command -> Task] /\ cell \in [Target -> Cell]
    BY <1>1 DEF Op, ServiceType
  <1>4. CASE /\ Owns(<<t, op>>) /\ CompleteRoute(t, Leads(op)) /\ Moves(<<t, op>>, "committed")
             /\ UNCHANGED <<draining, cell, permit, proxy, news, faults>>
    BY <1>2, <1>4, CommitSucceeds DEF Owns, Stage
  <1>5. CASE /\ draining' = TRUE /\ proxy' = CleanedUp(t)
             /\ cell' = IF op = "prepare" THEN Without(t) ELSE cell
             /\ permit' = IF op = "prepare" THEN Freed(t) ELSE permit
             /\ Results(<<t, op>>, "answer", "no")
    <2>1. Around(t) /\ proxy'[t] = "none" /\ Stage(t, op) \in Working
      BY <1>1, <1>2, <1>5 DEF Around, session, CleanedUp, ServiceType, Working
    <2>2. /\ \A o \in Op : Stage(t, o)' = IF o = op THEN "answer" ELSE Stage(t, o)
          /\ \A o \in Op : o # op => task'[<<t, o>>] = task[<<t, o>>]
      BY <1>3, <1>5, StageFacts
    <2>3. CASE op = "prepare"
      <3>1. Stage(t, "prepare")' = "answer" /\ Stage(t, "prepare") \in Working
        BY <1>3, <2>1, <2>2, <2>3
      <3>2. cell[t] \in {"absent", "empty"} /\ Without(t)[t] = "absent"
        BY <1>1, <1>3, <3>1, PrepareCell DEF TargetInv, Busy
      <3>3. permit'[t] = "none" /\ cell'[t] = "absent"
        BY <1>1, <1>5, <2>3, <3>2 DEF Freed, ServiceType
      <3>4. PermitInv(t)' /\ NativeInv(t)' /\ CellInv(t)'
        BY <1>1, <1>2, <2>1, <3>1, <3>3, PrepareGivesUp
      <3>5. DurableState(cell[t])' = DurableState(cell[t])
        BY <3>2, <3>3 DEF DurableState
      <3>6. EndInv(t)' /\ WorkInv(t)' /\ CommitInv(t)' /\ LocalInv(t)'
        BY <1>1, <1>5, <2>1, <2>2, <2>3, <3>5, GivesUp
      <3> QED
        BY <3>4, <3>6 DEF TargetInv
    <2>4. CASE op # "prepare"
      <3>1. cell' = cell /\ permit' = permit /\ task'[<<t, "prepare">>] = task[<<t, "prepare">>]
        BY <1>3, <1>5, <2>2, <2>4
      <3>2. PermitInv(t)' /\ NativeInv(t)' /\ CellInv(t)'
        BY <1>1, <1>2, <2>1, <3>1, OtherKeeps
      <3>3. DurableState(cell[t])' = DurableState(cell[t])
        BY <3>1 DEF DurableState
      <3>4. EndInv(t)' /\ WorkInv(t)' /\ CommitInv(t)' /\ LocalInv(t)'
        BY <1>1, <1>5, <2>1, <2>2, <3>1, <3>3, GivesUp
      <3> QED
        BY <3>2, <3>4 DEF TargetInv
    <2> QED
      BY <2>3, <2>4
  <1> QED
    BY <1>4, <1>5 DEF Commit

\* The second half of a transition.
LEMMA SettleStep ==
    ASSUME EgressInv, NEW t \in Target, NEW op \in Op, Settle(<<t, op>>)
    PROVE  TargetInv(t)'
  <1>1. ServiceType /\ StoreType /\ TargetInv(t) /\ SourceInv
    BY DEF EgressInv, EgressTypeOK
  <1>2. /\ Stage(t, op) = "committed" /\ Around(t)
        /\ route' = route /\ claim' = claim /\ proxy' = proxy /\ news' = news
    BY DEF Settle, Stage, Around, session, durable
  <1>3. /\ "prepare" \in Op /\ "activate" \in Op /\ "abort" \in Op /\ "end" \in Op
        /\ task \in [Command -> Task] /\ <<t, op>> \in Command
    BY <1>1, CommandFacts DEF Op, ServiceType
  <1>4. /\ \A o \in Op : Stage(t, o)' = IF o = op THEN "answer" ELSE Stage(t, o)
        /\ \A o \in Op : o # op => task'[<<t, o>>] = task[<<t, o>>]
    <2>1. \E r \in {"ok", "no"} : Results(<<t, op>>, "answer", r)
      BY DEF Settle
    <2> QED
      BY <1>3, <2>1, StageFacts
  <1>5. LiveRoute(t)' = LiveRoute(t)
    BY <1>2 DEF LiveRoute
  <1>6. \A o \in Op : /\ Stage(t, o)' = "committed" => o # op /\ Stage(t, o) = "committed"
                      /\ Stage(t, o)' \in Working => o # op /\ Stage(t, o) \in Working
    BY <1>4 DEF Working
  <1>7. source = "up" /\ op # "data" =>
          /\ \A o \in Op \ {"data"} : Stage(t, o)' # "committed"
          /\ \A o \in Op : Stage(t, o)' \notin Working
    <2> SUFFICES ASSUME source = "up", op # "data"
                 PROVE  /\ \A o \in Op \ {"data"} : Stage(t, o)' # "committed"
                        /\ \A o \in Op : Stage(t, o)' \notin Working
      OBVIOUS
    <2>1. \A o \in Op \ {"data"} : Stage(t, o)' # "committed"
      BY <1>1, <1>2, <1>6 DEF TargetInv, CommitInv
    <2>2. route[t].pending = "none"
      BY <1>1, <1>2 DEF TargetInv, CommitInv
    <2>3. \A o \in Op : Stage(t, o) \notin Working
      BY <1>1, <2>2 DEF TargetInv, WorkInv, Op
    <2> QED
      BY <1>6, <2>1, <2>3
  <1>8. CASE op = "prepare"
    <2>1. Stage(t, "prepare")' = "answer" /\ Stage(t, "prepare") = "committed"
      BY <1>2, <1>3, <1>4, <1>8
    <2>2. cell[t] = "empty" \/ (cell[t] = "absent" /\ t \in late)
      BY <1>1, <2>1 DEF TargetInv, CellInv, Busy
    <2>3. InFlight(t)
      BY <2>1 DEF InFlight, Stage
    <2>4. /\ cell'[t] = IF cell[t] = "absent" THEN "absent" ELSE "prepared"
          /\ permit'[t] = IF cell[t] = "absent" THEN "none" ELSE "record"
          /\ Results(<<t, "prepare">>, "answer", "ok")
      BY <1>1, <1>8, <2>2 DEF Settle, Settled, Leads, Freed, ServiceType
    <2>5. task'[<<t, "prepare">>].result = "ok"
      BY <1>3, <1>8, <2>4, ResultFacts
    <2>6. PermitInv(t)'
      BY <2>1, <2>2, <2>4 DEF PermitInv, Busy, Working
    <2>7. NativeInv(t)'
      <3>1. claim[<<t, "prepare">>].response = "flight"
        BY <1>1, <2>1 DEF TargetInv, NativeInv, Busy
      <3> QED
        BY <1>2, <2>1, <2>5, <3>1 DEF NativeInv, Busy, Working
    <2>8. CellInv(t)'
      BY <1>2, <2>1, <2>2, <2>4 DEF CellInv, Around, Busy, Working
    <2>9. EndInv(t)'
      BY <1>1, <1>2, <2>3 DEF TargetInv, EndInv, Around
    <2>10. WorkInv(t)' /\ CommitInv(t)'
      BY <1>2, <1>3, <1>7, <1>8 DEF WorkInv, CommitInv, Around
    <2>11. LocalInv(t)'
      <3>1. source = "up" => cell'[t] = "prepared" /\ route'[t].state = "prepared"
        BY <1>1, <1>2, <2>1, <2>2, <2>4 DEF SourceInv, TargetInv, CommitInv
      <3> QED
        BY <1>2, <3>1 DEF LocalInv, Around, DurableState
    <2> QED
      BY <2>6, <2>7, <2>8, <2>9, <2>10, <2>11 DEF TargetInv
  <1>9. CASE op # "prepare" /\ draining' = TRUE /\ UNCHANGED <<cell, permit>>
    <2>1. task'[<<t, "prepare">>] = task[<<t, "prepare">>]
      BY <1>3, <1>4, <1>9
    <2>2. PermitInv(t)' /\ NativeInv(t)' /\ CellInv(t)'
      BY <1>1, <1>2, <1>9, <2>1, OtherKeeps
    <2>3. InFlight(t)' => InFlight(t)
      BY <2>1 DEF InFlight
    <2>4. EndInv(t)'
      BY <1>1, <1>2, <1>5, <1>9, <2>3 DEF TargetInv, EndInv, Around
    <2>5. WorkInv(t)'
      BY <1>1, <1>2, <1>6, <1>9 DEF TargetInv, WorkInv, Around
    <2>6. CommitInv(t)'
      BY <1>1, <1>2, <1>3, <1>6, <1>9 DEF TargetInv, CommitInv, Around
    <2>7. LocalInv(t)'
      BY <1>9 DEF LocalInv
    <2> QED
      BY <2>2, <2>4, <2>5, <2>6, <2>7 DEF TargetInv
  <1>10. CASE /\ op # "prepare" /\ cell[t] \in Expected(op)
              /\ cell' = [cell EXCEPT ![t] = Leads(op)]
              /\ permit' = IF Leads(op) = "ended" THEN Freed(t) ELSE [permit EXCEPT ![t] = "record"]
    <2>1. task'[<<t, "prepare">>] = task[<<t, "prepare">>]
      BY <1>3, <1>4, <1>10
    <2>2. /\ cell'[t] = Leads(op)
          /\ permit'[t] = IF Leads(op) = "ended" THEN "none" ELSE "record"
          /\ cell[t] \in {"prepared", "active"} /\ Leads(op) \in {"active", "ended"}
      BY <1>1, <1>10 DEF ServiceType, Freed, Expected, Leads, Op
    <2>3. permit[t] = "record"
      BY <1>1, <2>2 DEF TargetInv, PermitInv
    <2>4. Stage(t, "prepare")' = Stage(t, "prepare") /\ Stage(t, "prepare") \notin Busy
      BY <1>1, <2>1, <2>3 DEF TargetInv, PermitInv, Stage
    <2>5. PermitInv(t)' /\ CellInv(t)'
      BY <2>2, <2>4 DEF PermitInv, CellInv
    <2>6. NativeInv(t)'
      BY <1>1, <1>2, <2>1, <2>4, NativeKept DEF TargetInv
    <2>7. EndInv(t)'
      <3>1. InFlight(t)' => InFlight(t)
        BY <2>1 DEF InFlight
      <3> QED
        BY <1>1, <1>2, <1>5, <2>2, <3>1 DEF TargetInv, EndInv, Around
    <2>8. CASE op = "data"
      <3>1. cell'[t] = cell[t]
        BY <1>10, <2>2, <2>8 DEF Leads, Expected
      <3>2. WorkInv(t)'
        BY <1>1, <1>2, <1>6, <3>1 DEF TargetInv, WorkInv, Around
      <3>3. CommitInv(t)'
        BY <1>1, <1>2, <1>3, <1>6, <3>1 DEF TargetInv, CommitInv, Around
      <3>4. LocalInv(t)'
        <4>1. \A o \in Op \ {"data"} : Stage(t, o)' = Stage(t, o)
          BY <1>4, <2>8
        <4> QED
          BY <1>1, <1>2, <3>1, <4>1 DEF TargetInv, LocalInv, Around
      <3> QED
        BY <2>5, <2>6, <2>7, <3>2, <3>3, <3>4 DEF TargetInv
    <2>9. CASE op # "data"
      <3>1. WorkInv(t)' /\ CommitInv(t)'
        BY <1>2, <1>3, <1>7, <2>9 DEF WorkInv, CommitInv, Around
      <3>2. LocalInv(t)'
        <4> SUFFICES ASSUME source = "up"
                     PROVE  LocalInv(t)'
          BY <1>2 DEF LocalInv, Around
        <4>1. CASE op = "activate"
          <5>1. cell'[t] = "active" /\ cell[t] = "prepared"
            BY <1>10, <2>2, <4>1 DEF Leads, Expected
          <5>2. route'[t].state = "active" \/ news'[t] = "lost"
            BY <1>1, <1>2, <4>1, <5>1 DEF TargetInv, CommitInv
          <5> QED
            BY <5>1, <5>2 DEF LocalInv, DurableState
        <4>2. CASE op \in {"abort", "end"}
          <5>1. cell'[t] = "ended" /\ route'[t].state = "ended"
            BY <1>1, <1>2, <2>2, <4>2 DEF TargetInv, CommitInv, Leads
          <5> QED
            BY <5>1 DEF LocalInv, DurableState
        <4> QED
          BY <1>10, <2>9, <4>1, <4>2 DEF Op
      <3> QED
        BY <2>5, <2>6, <2>7, <3>1, <3>2 DEF TargetInv
    <2> QED
      BY <2>8, <2>9
  <1>11. op # "prepare" /\ Settled(<<t, op>>) => cell[t] \in Expected(op) /\ cell[t] # "absent"
    BY DEF Settled, Expected, Op
  <1> QED
    BY <1>8, <1>9, <1>10, <1>11 DEF Settle

\* complete_command and the answer.
LEMMA AnswerStep ==
    ASSUME EgressInv, NEW t \in Target, NEW op \in Op, AnswerCommand(<<t, op>>)
    PROVE  TargetInv(t)'
  <1>1. ServiceType /\ StoreType /\ TargetInv(t)
    BY DEF EgressInv, EgressTypeOK
  <1>2. Around(t) /\ Steady(t) /\ Stage(t, op) = "answer"
    BY DEF AnswerCommand, Around, Steady, session, Stage
  <1>3. /\ "prepare" \in Op /\ task \in [Command -> Task]
        /\ <<t, op>> \in Command /\ <<t, "prepare">> \in Command
    BY <1>1, CommandFacts DEF Op, ServiceType
  <1>4. /\ \A o \in Op : Stage(t, o)' = IF o = op THEN "done" ELSE Stage(t, o)
        /\ \A o \in Op : o # op => task'[<<t, o>>] = task[<<t, o>>]
    <2>1. Moves(<<t, op>>, "done") \/ \E r \in {"ok", "no"} : Results(<<t, op>>, "done", r)
      BY DEF AnswerCommand
    <2> QED
      BY <1>3, <2>1, StageFacts
  <1>5. /\ PermitInv(t)' /\ CellInv(t)' /\ EndInv(t)'
        /\ WorkInv(t)' /\ CommitInv(t)' /\ LocalInv(t)'
    <2>1. Stage(t, op) \notin Busy /\ "done" \notin Busy
      BY <1>2 DEF Busy, Working
    <2> QED
      BY <1>1, <1>2, <1>4, <2>1, QuietMove
  <1>6. NativeInv(t)'
    <2>1. claim' = claim \/ claim' = [claim EXCEPT ![<<t, op>>].response = task[<<t, op>>].result]
      BY DEF AnswerCommand
    <2>2. CASE op = "prepare"
      <3>1. Stage(t, "prepare")' = "done" /\ Stage(t, "prepare") = "answer"
        BY <1>2, <1>3, <1>4, <2>2
      <3>2. /\ claim[<<t, "prepare">>].response = "flight"
            /\ task[<<t, "prepare">>].result = "no" => proxy[t] = "none"
        BY <1>1, <3>1 DEF TargetInv, NativeInv
      <3>3. task[<<t, "prepare">>].result \in {"ok", "no"}
        BY <1>3, TaskFacts
      <3>4. \/ claim'[<<t, "prepare">>].response = "flight"
            \/ claim'[<<t, "prepare">>].response = task[<<t, "prepare">>].result
        BY <1>1, <1>3, <2>1, <2>2, <3>2 DEF StoreType, Claim
      <3> QED
        BY <1>2, <3>1, <3>2, <3>3, <3>4 DEF NativeInv, Steady, Busy, Working
    <2>3. CASE op # "prepare"
      <3>1. claim'[<<t, "prepare">>] = claim[<<t, "prepare">>]
        BY <1>1, <1>3, <2>1, <2>3 DEF StoreType
      <3> QED
        BY <1>1, <1>2, <1>3, <1>4, <2>3, <3>1, NativeKept DEF TargetInv, Steady
    <2> QED
      BY <2>2, <2>3
  <1> QED
    BY <1>5, <1>6 DEF TargetInv

\* A step of the proxy.
LEMMA HandlerKeeps ==
    ASSUME EgressInv, NEW t \in Target, HandlerStep(t), NEW s \in Target
    PROVE  TargetInv(s)'
  <1>1. ServiceType /\ StoreType /\ TargetInv(s) /\ TargetInv(t)
    BY DEF EgressInv, EgressTypeOK
  <1>2. /\ UNCHANGED <<session, draining, cell, permit, route, claim>>
        /\ Around(s)
    BY DEF HandlerStep, HandlePrepare, HandleActivate, HandleData, HandleFinish, Around, session,
           durable
  <1>3. /\ "prepare" \in Op /\ task \in [Command -> Task]
    BY <1>1 DEF Op, ServiceType
  <1>4. PICK op \in Op, q \in {"handled", "failed"} :
          /\ task[<<t, op>>].pc = "handling" /\ Moves(<<t, op>>, q)
          /\ news' = news \/ (op \in {"abort", "end"} /\ news' = [news EXCEPT ![t] = "none"])
          /\ \/ proxy' = proxy
             \/ op # "prepare" /\ \E p : proxy' = [proxy EXCEPT ![t] = p]
                              /\ (proxy[t] = "none" => p = "none")
             \/ op = "prepare" /\ q = "handled" /\ proxy' = [proxy EXCEPT ![t] = "prepared"]
    <2>1. CASE HandlePrepare(t)
      BY <2>1 DEF HandlePrepare, Op
    <2>2. CASE HandleActivate(t)
      <3>1. \/ Moves(<<t, "activate">>, "handled") \/ Moves(<<t, "activate">>, "failed")
        BY <2>2 DEF HandleActivate
      <3>2. \/ proxy' = proxy
            \/ \E p : proxy' = [proxy EXCEPT ![t] = p] /\ (proxy[t] = "none" => p = "none")
        BY <2>2 DEF HandleActivate
      <3> QED
        BY <2>2, <3>1, <3>2 DEF HandleActivate, Op
    <2>3. CASE HandleData(t)
      BY <2>3 DEF HandleData, Op
    <2>4. ASSUME NEW o \in {"abort", "end"}, HandleFinish(t, o)
          PROVE  \E q \in {"handled", "failed"} :
                   /\ task[<<t, o>>].pc = "handling" /\ Moves(<<t, o>>, q)
                   /\ news' = [news EXCEPT ![t] = "none"] /\ proxy' = [proxy EXCEPT ![t] = "none"]
      BY <2>4 DEF HandleFinish
    <2>5. CASE \E o \in {"abort", "end"} : HandleFinish(t, o)
      <3>1. PICK o \in {"abort", "end"} : HandleFinish(t, o)
        BY <2>5
      <3>2. PICK q \in {"handled", "failed"} :
              /\ task[<<t, o>>].pc = "handling" /\ Moves(<<t, o>>, q)
              /\ news' = [news EXCEPT ![t] = "none"] /\ proxy' = [proxy EXCEPT ![t] = "none"]
        BY <2>4, <3>1
      <3>3. o \in Op /\ o # "prepare"
        BY DEF Op
      <3> QED
        BY <3>2, <3>3
    <2> QED
      BY <2>1, <2>2, <2>3, <2>5 DEF HandlerStep
  <1>5. /\ \A o \in Op : Stage(t, o)' = IF o = op THEN q ELSE Stage(t, o)
        /\ \A o \in Op : o # op => task'[<<t, o>>] = task[<<t, o>>]
        /\ \A e \in Target, o \in Op : e # t => task'[<<e, o>>] = task[<<e, o>>]
    BY <1>3, <1>4, StageFacts
  <1>6. CASE s # t
    <2>1. proxy'[s] = proxy[s] /\ news'[s] = news[s]
      BY <1>1, <1>4, <1>6 DEF ServiceType
    <2>2. Untouched(s)
      BY <1>2, <1>5, <1>6, <2>1 DEF Untouched
    <2> QED
      BY <1>1, <1>2, <2>2, Aside
  <1>7. CASE s = t
    <2>1. Stage(t, op) = "handling" /\ Around(t)
      BY <1>2, <1>4, <1>7 DEF Stage
    <2>2. news'[t] = news[t] \/ op \in {"abort", "end"}
      BY <1>4
    <2>3. /\ PermitInv(t)' /\ EndInv(t)' /\ WorkInv(t)' /\ CommitInv(t)' /\ LocalInv(t)'
          /\ (proxy[t] = "none" => proxy'[t] = "none") => CellInv(t)'
      BY <1>1, <1>2, <1>5, <2>1, <2>2, WorkMove
    <2>4. CASE op # "prepare"
      <3>1. proxy[t] = "none" => proxy'[t] = "none"
        BY <1>1, <1>4, <2>4 DEF ServiceType
      <3>2. NativeInv(t)'
        BY <1>1, <1>2, <1>3, <1>5, <2>4, <3>1, NativeKept DEF TargetInv
      <3> QED
        BY <1>7, <2>3, <3>1, <3>2 DEF TargetInv
    <2>5. CASE op = "prepare"
      <3>1. Stage(t, "prepare") = "handling" /\ Stage(t, "prepare")' = q
        BY <1>3, <1>5, <2>1, <2>5
      <3>2. proxy[t] = "none" /\ claim[<<t, "prepare">>].response = "flight"
        BY <1>1, <3>1 DEF TargetInv, NativeInv, Busy, Working
      <3>3. proxy'[t] = "none" \/ q = "handled"
        BY <1>4, <2>5, <3>2
      <3>4. NativeInv(t)'
        BY <1>2, <1>4, <3>1, <3>2, <3>3 DEF NativeInv, Busy, Working
      <3>5. CellInv(t)'
        BY <1>1, <1>2, <1>4, <2>1, <3>1, <3>3 DEF TargetInv, CellInv, Around, Busy, Working
      <3> QED
        BY <1>7, <2>3, <3>4, <3>5 DEF TargetInv
    <2> QED
      BY <2>4, <2>5
  <1> QED
    BY <1>6, <1>7

\* A step of the command service.
LEMMA ServiceKeeps ==
    ASSUME EgressInv, NEW c \in Command, ServiceStep(c), NEW s \in Target
    PROVE  TargetInv(s)'
  <1>1. PICK t \in Target, op \in Op : c = <<t, op>>
    BY CommandFacts
  <1>2. ServiceStep(<<t, op>>)
    BY <1>1
  <1>3. CASE s # t
    <2>1. Untouched(s) /\ Around(s)
      BY <1>2, <1>3, ServiceAside DEF EgressInv
    <2> QED
      BY <2>1, Aside DEF EgressInv
  <1>4. CASE s = t
    <2>1. TargetInv(t)'
      BY <1>2, ArriveStep, ClaimCommandStep, BeginStep, AfterFailureStep, CommitStep, SettleStep,
         AnswerStep DEF ServiceStep
    <2> QED
      BY <1>4, <2>1
  <1> QED
    BY <1>3, <1>4

\* Steps that touch nothing the invariant of a target looks at.
LEMMA StandsStill ==
    ASSUME NEW s \in Target, TargetInv(s), UNCHANGED <<claim, gateway, session>>,
           route'[s].state = route[s].state, route'[s].pending = route[s].pending
    PROVE  TargetInv(s)'
  <1>1. Untouched(s) /\ Around(s)
    BY DEF Untouched, Around, gateway, session
  <1> QED
    BY <1>1, Aside

\* News that is not that of a lost answer may change.
LEMMA NewsMove ==
    ASSUME EgressInv, NEW t \in Target, Hangup(t) \/ GiveUp(t), NEW s \in Target
    PROVE  TargetInv(s)'
  <1>1. ServiceType /\ TargetInv(s)
    BY DEF EgressInv, EgressTypeOK
  <1>2. UNCHANGED <<route, claim, cell, permit, proxy, task, draining, source, ending, late, skipped>>
    BY DEF Hangup, GiveUp, durable, session
  <1>3. news'[s] # news[s] => news[s] # "lost"
    BY <1>1 DEF Hangup, GiveUp, ServiceType
  <1>4. \A op \in Op : Stage(s, op)' = Stage(s, op)
    BY <1>2 DEF Stage
  <1>5. PermitInv(s)' /\ NativeInv(s)' /\ CellInv(s)' /\ WorkInv(s)'
    BY <1>1, <1>2 DEF TargetInv, PermitInv, NativeInv, CellInv, WorkInv, Stage
  <1>6. EndInv(s)'
    BY <1>1, <1>2 DEF TargetInv, EndInv, InFlight, LiveRoute
  <1>7. CommitInv(s)'
    BY <1>1, <1>2, <1>3 DEF TargetInv, CommitInv, Stage
  <1>8. LocalInv(s)'
    BY <1>1, <1>2, <1>3 DEF TargetInv, LocalInv, Stage
  <1> QED
    BY <1>5, <1>6, <1>7, <1>8 DEF TargetInv

\* An acknowledgement retires the native leg.
LEMMA AckMove ==
    ASSUME EgressInv, NEW t \in Target, NEW i \in DOMAIN journal[t], AckArrives(t, i),
           NEW s \in Target
    PROVE  TargetInv(s)'
  <1>1. ServiceType /\ TargetInv(s)
    BY DEF EgressInv, EgressTypeOK
  <1>2. UNCHANGED <<route, claim, cell, permit, news, task, draining, source, ending, late, skipped>>
    BY DEF AckArrives, session
  <1>3. proxy'[s] = proxy[s] \/ proxy'[s] = "none"
    <2>1. proxy' = proxy \/ proxy' = [proxy EXCEPT ![t] = "none"]
      BY DEF AckArrives, RetireTerminal
    <2> QED
      BY <1>1, <2>1 DEF ServiceType
  <1>4. PermitInv(s)' /\ WorkInv(s)' /\ CommitInv(s)' /\ LocalInv(s)'
    BY <1>1, <1>2 DEF TargetInv, PermitInv, WorkInv, CommitInv, LocalInv, Stage
  <1>5. NativeInv(s)' /\ CellInv(s)'
    BY <1>1, <1>2, <1>3 DEF TargetInv, NativeInv, CellInv, Stage
  <1>6. EndInv(s)'
    BY <1>1, <1>2 DEF TargetInv, EndInv, InFlight, LiveRoute
  <1> QED
    BY <1>4, <1>5, <1>6 DEF TargetInv

\* A hangup is journaled.
LEMMA PublishKeeps ==
    ASSUME EgressInv, NEW t \in Target, Publish(t), NEW s \in Target
    PROVE  TargetInv(s)'
  <1>1. ServiceType /\ StoreType /\ SourceInv /\ TargetInv(s) /\ TargetInv(t)
    BY DEF EgressInv, EgressTypeOK
  <1>2. /\ UNCHANGED <<claim, proxy, task, draining, source, ending, late, skipped>> /\ source = "up"
        /\ route' = [route EXCEPT ![t].state = "ended"]
        /\ cell[t] \in {"prepared", "active"} /\ StateAppendable(t)
    BY DEF Publish, session
  <1>3. CASE s # t
    <2>1. /\ route'[s] = route[s] /\ cell'[s] = cell[s] /\ permit'[s] = permit[s]
          /\ news'[s] = news[s]
      BY <1>1, <1>2, <1>3 DEF Publish, Freed, ServiceType, StoreType
    <2>2. Untouched(s) /\ Around(s)
      BY <1>2, <2>1 DEF Untouched, Around
    <2> QED
      BY <1>1, <2>2, Aside
  <1>4. CASE s = t
    <2>1. route'[t].state = "ended" /\ route'[t].pending = "none" /\ route[t].pending = "none"
          /\ route[t].state \in {"prepared", "active"}
      BY <1>1, <1>2 DEF StoreType, Route, StateAppendable
    <2>2. \/ cell'[t] = "ended" /\ permit'[t] = "none"
          \/ cell'[t] = cell[t] /\ permit'[t] = permit[t] /\ news'[t] = "lost"
      BY <1>1 DEF Publish, Freed, ServiceType
    <2>3. permit[t] = "record" /\ Stage(t, "prepare") \notin Busy
      BY <1>1, <1>2 DEF TargetInv, PermitInv
    <2>4. \A op \in Op : Stage(t, op)' = Stage(t, op)
      BY <1>2 DEF Stage
    <2>5. "prepare" \in Op /\ "activate" \in Op /\ "abort" \in Op /\ "end" \in Op
      BY DEF Op
    <2>6. PermitInv(t)' /\ CellInv(t)'
      BY <1>2, <2>2, <2>3, <2>4, <2>5 DEF PermitInv, CellInv
    <2>7. NativeInv(t)' /\ EndInv(t)'
      BY <1>1, <1>2 DEF TargetInv, NativeInv, EndInv, Stage
    <2>8. \A op \in Op : Stage(t, op) \notin Working
      BY <1>1, <1>2, <2>1 DEF TargetInv, WorkInv, Op
    <2>9. WorkInv(t)'
      BY <2>4, <2>8 DEF WorkInv
    <2>10. /\ Stage(t, "prepare") # "committed"
           /\ Stage(t, "abort") # "committed" /\ Stage(t, "end") # "committed"
           /\ Stage(t, "activate") = "committed" => cell[t] = "prepared"
      BY <1>1, <1>2, <2>1, <2>3 DEF TargetInv, CommitInv, Busy
    <2>11. CommitInv(t)'
      <3>1. \A op \in Op \ {"data"} : Stage(t, op)' = "committed" => op = "activate"
        BY <2>4, <2>10 DEF Op
      <3> QED
        BY <2>1, <2>2, <2>4, <2>5, <2>10, <3>1 DEF CommitInv
    <2>12. LocalInv(t)'
      BY <2>1, <2>2 DEF LocalInv, DurableState
    <2> QED
      BY <1>4, <2>6, <2>7, <2>9, <2>11, <2>12 DEF TargetInv
  <1> QED
    BY <1>3, <1>4

\* The source route is retired, fails at the store, and is over.
LEMMA SourceKeeps ==
    ASSUME EgressInv, RetireSource \/ FailSource \/ DeadlinePasses \/ SourceEnded, NEW s \in Target
    PROVE  TargetInv(s)'
  <1>1. ServiceType /\ StoreType /\ SourceInv /\ TargetInv(s)
    BY DEF EgressInv, EgressTypeOK
  <1>2. UNCHANGED <<claim, task, cell, permit, proxy, news>>
    BY DEF RetireSource, FailSource, DeadlinePasses, SourceEnded, durable, gateway
  <1>3. PermitInv(s)' /\ NativeInv(s)'
    BY <1>1, <1>2 DEF TargetInv, PermitInv, NativeInv, Stage
  <1>4. source' # "up"
    BY DEF RetireSource, FailSource, DeadlinePasses, SourceEnded
  <1>5. WorkInv(s)' /\ CommitInv(s)' /\ LocalInv(s)'
    BY <1>4 DEF WorkInv, CommitInv, LocalInv
  <1>6. CASE RetireSource
    <2>1. source' = "retired" /\ late' = late /\ skipped' = skipped
      BY <1>6 DEF RetireSource
    <2>2. EndInv(s)' /\ CellInv(s)'
      BY <1>1, <1>2, <2>1 DEF EndInv, TargetInv, CellInv, Stage
    <2> QED
      BY <1>3, <1>5, <2>2 DEF TargetInv
  <1>7. CASE FailSource
    <2>1. /\ source' = "ending" /\ source = "retired"
          /\ late' = {t \in Target : InFlight(t)} /\ skipped' = skipped
      BY <1>7 DEF FailSource
    <2>2. late = {} /\ skipped = {}
      BY <1>1, <2>1 DEF SourceInv
    <2>3. Stage(s, "prepare") \in {"handled", "committed"} => InFlight(s)
      BY DEF InFlight, Stage
    <2>4. CellInv(s)'
      BY <1>1, <1>2, <2>1, <2>2, <2>3 DEF TargetInv, CellInv, Stage
    <2>5. InFlight(s)' => InFlight(s)
      BY <1>2 DEF InFlight
    <2>6. s \notin ending' => cell'[s] = "absent"
      BY <1>2, <1>7 DEF FailSource
    <2>7. LiveRoute(s)' => draining'
      <3>1. CASE draining' = TRUE
        BY <3>1
      <3>2. CASE route' = Failed(FALSE)
        <4>1. ~LiveRoute(s)'
          BY <1>1, <3>2 DEF StoreType, Failed, LiveRoute, Route
        <4> QED
          BY <4>1
      <3> QED
        BY <1>7, <3>1, <3>2 DEF FailSource
    <2>8. EndInv(s)'
      BY <2>1, <2>5, <2>6, <2>7 DEF EndInv
    <2> QED
      BY <1>3, <1>5, <2>4, <2>8 DEF TargetInv
  <1>8. CASE SourceEnded \/ DeadlinePasses
    <2>1. /\ UNCHANGED <<late, skipped, ending, route, draining>>
          /\ source = "ending" /\ source' \in {"ending", "ended"}
      BY <1>8 DEF SourceEnded, DeadlinePasses, durable, gateway
    <2>2. CellInv(s)'
      BY <1>1, <1>2, <2>1 DEF TargetInv, CellInv, Stage
    <2>3. EndInv(s)'
      BY <1>1, <1>2, <2>1 DEF TargetInv, EndInv, InFlight, LiveRoute
    <2> QED
      BY <1>3, <1>5, <2>2, <2>3 DEF TargetInv
  <1> QED
    BY <1>6, <1>7, <1>8

\* end_source_until ends one route.
LEMMA EndTargetKeeps ==
    ASSUME EgressInv, NEW t \in Target, EndTarget(t), NEW s \in Target
    PROVE  TargetInv(s)'
  <1>1. ServiceType /\ SourceInv /\ TargetInv(s) /\ TargetInv(t)
    BY DEF EgressInv, EgressTypeOK
  <1>2. /\ UNCHANGED <<route, claim, task, draining, source>> /\ source = "ending"
        /\ late' = late /\ (skipped' = skipped \/ skipped' = skipped \cup {t})
        /\ ending' = ending \ {t}
    BY DEF EndTarget, durable
  <1>3. CASE s # t
    <2>1. /\ cell'[s] = cell[s] /\ permit'[s] = permit[s] /\ proxy'[s] = proxy[s]
          /\ news'[s] = news[s]
      BY <1>1, <1>3 DEF EndTarget, Freed, ServiceType
    <2>2. Untouched(s) /\ Around(s)
      BY <1>2, <1>3, <2>1 DEF Untouched, Around
    <2> QED
      BY <1>1, <2>2, Aside
  <1>4. CASE s = t
    <2>1. /\ cell'[t] = "absent"
          /\ permit'[t] = IF permit[t] = "record" THEN "none" ELSE permit[t]
      BY <1>1 DEF EndTarget, Freed, ServiceType
    <2>2. \/ proxy'[t] = "none"
          \/ proxy'[t] = proxy[t] /\ t \in skipped'
          \/ proxy'[t] = proxy[t] /\ cell[t] = "empty"
      BY <1>1 DEF EndTarget, NeedsEnd, ServiceType
    <2>3. \A op \in Op : Stage(t, op)' = Stage(t, op)
      BY <1>2 DEF Stage
    <2>4. "prepare" \in Op
      BY DEF Op
    <2>5. PermitInv(t)'
      BY <1>1, <2>1, <2>3, <2>4 DEF TargetInv, PermitInv
    <2>6. NativeInv(t)'
      BY <1>1, <1>2, <2>2, <2>3, <2>4, NativeKept DEF TargetInv
    <2>7. t \notin late => ~InFlight(t)
      BY <1>1, <1>2 DEF TargetInv, EndInv
    <2>8. Stage(t, "prepare") \in Busy => InFlight(t)
      BY DEF InFlight, Stage, Busy, Working
    <2>9. CellInv(t)'
      BY <1>1, <1>2, <2>1, <2>2, <2>3, <2>4, <2>7, <2>8 DEF TargetInv, CellInv
    <2>10. EndInv(t)'
      <3>1. InFlight(t)' = InFlight(t) /\ LiveRoute(t)' = LiveRoute(t)
        BY <1>2 DEF InFlight, LiveRoute
      <3>2. t \in late => t \in late'
        BY <1>2
      <3> QED
        BY <1>1, <1>2, <2>1, <3>1, <3>2 DEF TargetInv, EndInv
    <2>11. WorkInv(t)' /\ CommitInv(t)' /\ LocalInv(t)'
      BY <1>2 DEF WorkInv, CommitInv, LocalInv
    <2> QED
      BY <1>4, <2>5, <2>6, <2>9, <2>10, <2>11 DEF TargetInv
  <1> QED
    BY <1>3, <1>4

\* The drain of the service, and a crash with the epoch that follows it.
LEMMA StopsKeep ==
    ASSUME EgressInv, Drain \/ Crash, NEW s \in Target
    PROVE  TargetInv(s)'
  <1>1. ServiceType /\ StoreType /\ SourceInv /\ TargetInv(s)
    BY DEF EgressInv, EgressTypeOK
  <1>2. source' = "ended"
    BY DEF Drain, Crash, session
  <1>3. WorkInv(s)' /\ CommitInv(s)' /\ LocalInv(s)'
    BY <1>2 DEF WorkInv, CommitInv, LocalInv
  <1>4. <<s, "prepare">> \in Command
    BY CommandFacts DEF Op
  <1>5. proxy'[s] = "none" /\ cell'[s] = "absent"
    BY DEF Drain, Crash
  <1>6. CASE Drain
    <2>1. /\ UNCHANGED <<route, claim, task, late, skipped>> /\ source = "ended" /\ draining' = TRUE
          /\ permit'[s] = IF permit[s] = "record" THEN "none" ELSE permit[s]
      BY <1>6 DEF Drain, durable, session
    <2>2. Stage(s, "prepare")' = Stage(s, "prepare") /\ (InFlight(s)' => InFlight(s))
      BY <2>1 DEF Stage, InFlight
    <2>3. PermitInv(s)'
      BY <1>1, <1>5, <2>1, <2>2 DEF TargetInv, PermitInv
    <2>4. NativeInv(s)'
      BY <1>1, <1>5, <2>1, <2>2, NativeKept DEF TargetInv
    <2>5. s \notin late => ~InFlight(s)
      BY <1>1, <2>1 DEF TargetInv, EndInv
    <2>6. Stage(s, "prepare") \in Busy => InFlight(s)
      BY DEF InFlight, Stage, Busy, Working
    <2>7. CellInv(s)'
      BY <1>5, <2>1, <2>2, <2>5, <2>6 DEF CellInv
    <2>8. EndInv(s)'
      BY <1>5, <2>1, <2>2, <2>5 DEF EndInv
    <2> QED
      BY <1>3, <2>3, <2>4, <2>7, <2>8 DEF TargetInv
  <1>7. CASE Crash
    <2>1. route' = Failed(TRUE) /\ permit'[s] = "none" /\ task' = [c \in Command |-> Idle]
      BY <1>7 DEF Crash
    <2>2. Stage(s, "prepare")' = "none" /\ ~InFlight(s)'
      BY <1>4, <2>1 DEF Stage, InFlight, Idle
    <2>3. ~LiveRoute(s)'
      BY <1>1, <2>1 DEF StoreType, Failed, LiveRoute, Route
    <2>4. PermitInv(s)' /\ NativeInv(s)' /\ CellInv(s)'
      BY <1>5, <2>1, <2>2 DEF PermitInv, NativeInv, CellInv, Busy, Working
    <2>5. EndInv(s)'
      BY <1>5, <2>2, <2>3 DEF EndInv
    <2> QED
      BY <1>3, <2>4, <2>5 DEF TargetInv
  <1> QED
    BY <1>6, <1>7

\* The invariant of the source.
LEMMA SourceStep ==
    ASSUME EgressInv, [EgressNext]_egressVars
    PROVE  SourceInv'
  <1>1. SourceInv
    BY DEF EgressInv
  <1>2. ASSUME NEW c \in Command, ServiceStep(c)
        PROVE  SourceInv'
    <2>1. UNCHANGED session /\ (mail' = mail \/ source = "up")
      BY <1>2 DEF ServiceStep, Arrive, ClaimCommand, Begin, AfterFailure, Commit, Settle,
                  AnswerCommand, network
    <2> QED
      BY <1>1, <2>1 DEF SourceInv, session
  <1>3. ASSUME NEW t \in Target, HandlerStep(t) \/ DeliveryStep(t) \/ Progress(t) \/ Hangup(t)
                                 \/ Publish(t) \/ GiveUp(t) \/ Recover(t)
        PROVE  SourceInv'
    <2>1. UNCHANGED <<session, mail>>
      BY <1>3 DEF HandlerStep, HandlePrepare, HandleActivate, HandleData, HandleFinish,
                  DeliveryStep, Deliver, AckArrives, Progress, Hangup, Publish, GiveUp, Recover,
                  network
    <2> QED
      BY <1>1, <2>1 DEF SourceInv, session
  <1>4. ASSUME NEW t \in Target, WorkerStep(t)
        PROVE  SourceInv'
    <2>1. UNCHANGED session /\ (mail' = mail \/ source = "up")
      BY <1>4 DEF WorkerStep, StartPrepare, PrepareAnswered, PrepareUnanswered, StartActivate,
                  ActivateAnswered, SendData, Finish, Sends, network
    <2> QED
      BY <1>1, <2>1 DEF SourceInv, session
  <1>5. ASSUME NEW t \in Target, EndTarget(t)
        PROVE  SourceInv'
    BY <1>1, <1>5 DEF EndTarget, SourceInv, network
  <1>6. CASE RetireSource \/ FailSource \/ DeadlinePasses \/ SourceEnded \/ Drain \/ Crash
    BY <1>1, <1>6 DEF RetireSource, FailSource, DeadlinePasses, SourceEnded, Drain, Crash, SourceInv, session,
                      network
  <1>7. CASE UNCHANGED egressVars
    BY <1>1, <1>7 DEF egressVars, session, network, SourceInv
  <1> QED
    BY <1>2, <1>3, <1>4, <1>5, <1>6, <1>7 DEF EgressNext

\* The invariant of a target.
LEMMA TargetStep ==
    ASSUME EgressInv, [EgressNext]_egressVars, NEW s \in Target
    PROVE  TargetInv(s)'
  <1>1. StoreType /\ TargetInv(s)
    BY DEF EgressInv, EgressTypeOK
  <1>2. ASSUME NEW t \in Target, DeliveryStep(t) \/ Progress(t)
        PROVE  TargetInv(s)'
    <2>1. CASE Deliver(t) \/ Progress(t)
      <3>1. UNCHANGED <<claim, gateway, session, route>>
        BY <2>1 DEF Deliver, Progress, durable
      <3> QED
        BY <1>1, <3>1, StandsStill
    <2> QED
      BY <1>2, <2>1, AckMove DEF DeliveryStep
  <1>3. ASSUME NEW t \in Target, WorkerStep(t)
        PROVE  TargetInv(s)'
    <2>1. UNCHANGED <<durable, gateway, session>>
      BY <1>3 DEF WorkerStep, StartPrepare, PrepareAnswered, PrepareUnanswered, StartActivate,
                  ActivateAnswered, SendData, Finish
    <2> QED
      BY <1>1, <2>1, StandsStill DEF durable
  <1>4. ASSUME NEW t \in Target, Recover(t)
        PROVE  TargetInv(s)'
    <2>1. UNCHANGED <<claim, gateway, session>> /\ route' = [route EXCEPT ![t].recovery = FALSE]
      BY <1>4 DEF Recover
    <2>2. route'[s].state = route[s].state /\ route'[s].pending = route[s].pending
      BY <1>1, <2>1 DEF StoreType, Route
    <2> QED
      BY <1>1, <2>1, <2>2, StandsStill
  <1>5. CASE UNCHANGED egressVars
    <2>1. UNCHANGED <<claim, gateway, session, route>>
      BY <1>5 DEF egressVars, durable
    <2> QED
      BY <1>1, <2>1, StandsStill
  <1> QED
    BY <1>2, <1>3, <1>4, <1>5, ServiceKeeps, HandlerKeeps, NewsMove, PublishKeeps, EndTargetKeeps,
       SourceKeeps, StopsKeep DEF EgressNext

-----------------------------------------------------------------------------
(***************************************************************************)
(* The theorems about the private egress.                                  *)
(***************************************************************************)
\* The gateway starts with nothing.
LEMMA EgressStart == EgressInit => EgressInv
  <1> SUFFICES ASSUME EgressInit
               PROVE  EgressInv
    OBVIOUS
  <1>1. EgressTypeOK
    <2>1. StoreType
      BY DEF EgressInit, StoreType, NoRoute, Route, State, Claim
    <2>2. ServiceType
      BY DEF EgressInit, ServiceType, Task, Idle, Cell
    <2> QED
      BY <2>1, <2>2 DEF EgressInit, EgressTypeOK, SessionType, NetworkType, WorkerType
  <1>2. SourceInv
    BY DEF EgressInit, SourceInv
  <1>3. ASSUME NEW t \in Target
        PROVE  TargetInv(t)
    <2>1. /\ \A op \in Op : Stage(t, op) = "none"
          /\ "prepare" \in Op /\ "activate" \in Op /\ "abort" \in Op /\ "end" \in Op
      <3>1. \A op \in Op : <<t, op>> \in Command
        BY CommandFacts
      <3> QED
        BY <3>1 DEF EgressInit, Stage, Idle, Op
    <2>2. PermitInv(t) /\ NativeInv(t) /\ CellInv(t)
      BY <2>1 DEF EgressInit, PermitInv, NativeInv, CellInv, Busy, Working
    <2>3. EndInv(t) /\ WorkInv(t) /\ CommitInv(t)
      BY <2>1 DEF EgressInit, EndInv, WorkInv, CommitInv, Working
    <2>4. LocalInv(t)
      BY DEF EgressInit, LocalInv, NoRoute, DurableState
    <2> QED
      BY <2>2, <2>3, <2>4 DEF TargetInv
  <1> QED
    BY <1>1, <1>2, <1>3 DEF EgressInv

\* The invariant of the private egress holds in every behaviour, for any set of
\* targets and any number of faults, sends and epochs.
THEOREM EgressInvariance == EgressSpec => []EgressInv
  <1>1. EgressInv /\ [EgressNext]_egressVars => EgressInv'
    <2> SUFFICES ASSUME EgressInv, [EgressNext]_egressVars
                 PROVE  EgressInv'
      OBVIOUS
    <2>1. EgressTypeOK'
      BY EgressTypes DEF EgressInv
    <2> QED
      BY <2>1, SourceStep, TargetStep DEF EgressInv
  <1> QED
    BY <1>1, EgressStart, PTL DEF EgressSpec

\* Every variable of the gateway's service, its store, its messages and its
\* workers keeps to its type.
THEOREM EgressTypeCorrect == EgressSpec => []EgressTypeOK
  <1>1. EgressInv => EgressTypeOK
    BY DEF EgressInv
  <1> QED
    BY <1>1, EgressInvariance, PTL

\* A source route that ends, and a Prepare that is durably refused, leave no
\* native leg, no record, no permit and no live durable route behind, but for
\* the legs of an end that ran out of its deadline and of a Prepare it met
\* (end_source_until, execute_once).
THEOREM NothingLeftCorrect == EgressSpec => []NothingIsLeftBehind
  <1>1. EgressInv => NothingIsLeftBehind
    <2> SUFFICES ASSUME EgressInv
                 PROVE  NothingIsLeftBehind
      OBVIOUS
    <2>1. ServiceType /\ SourceInv /\ \A t \in Target : TargetInv(t)
      BY DEF EgressInv, EgressTypeOK
    <2>2. RefusedPreparesLeaveNothing
      BY <2>1 DEF RefusedPreparesLeaveNothing, TargetInv, NativeInv
    <2>3. ASSUME source = "ended", NEW t \in Target \ late, Quiet(t)
          PROVE  /\ cell[t] = "absent" /\ permit[t] = "none"
                 /\ LiveRoute(t) => draining
                 /\ proxy[t] = "none" \/ t \in skipped
      <3>1. ~InFlight(t) /\ (LiveRoute(t) => draining) /\ cell[t] = "absent"
        BY <2>1, <2>3 DEF SourceInv, TargetInv, EndInv
      <3>2. Stage(t, "prepare") \in {"none", "answer", "done"}
        BY <3>1 DEF InFlight, Stage
      <3>3. Stage(t, "prepare") \notin Busy
        BY <3>2 DEF Busy, Working
      <3>4. proxy[t] = "none" \/ t \in skipped
        BY <2>1, <3>1, <3>2 DEF TargetInv, CellInv
      <3>5. permit[t] \in {"none", "task", "record"}
        BY <2>1 DEF ServiceType
      <3>6. permit[t] = "none"
        BY <2>1, <3>1, <3>3, <3>5 DEF TargetInv, PermitInv
      <3> QED
        BY <3>1, <3>4, <3>6
    <2> QED
      BY <2>2, <2>3 DEF NothingIsLeftBehind, EndedSourcesLeaveNothing
  <1> QED
    BY <1>1, EgressInvariance, PTL

\* The local record of a target, its durable route and the permit it holds agree
\* whenever no command is between the two halves of a transition
\* (execute_once, publish_private_egress_lifecycle).
THEOREM RoutesAccountedCorrect == EgressSpec => []RoutesAreAccountedFor
  <1>1. EgressInv => RoutesAreAccountedFor
    <2> SUFFICES ASSUME EgressInv
                 PROVE  RoutesAreAccountedFor
      OBVIOUS
    <2>1. ServiceType /\ \A t \in Target : TargetInv(t)
      BY DEF EgressInv, EgressTypeOK
    <2>2. ASSUME NEW t \in Target, Quiet(t)
          PROVE  \A op \in Op : Stage(t, op) \notin Busy
      BY <2>2 DEF Quiet, Stage, Busy, Working
    <2>3. ASSUME ~draining, source = "up", NEW t \in Target, Quiet(t)
          PROVE  route[t].state = DurableState(cell[t]) \/ news[t] = "lost"
      <3>1. \A op \in Op : Stage(t, op) # "committed"
        BY <2>2, <2>3 DEF Busy
      <3> QED
        BY <2>1, <2>3, <3>1 DEF TargetInv, LocalInv
    <2>4. ASSUME NEW t \in Target, Quiet(t)
          PROVE  permit[t] # "none" <=> cell[t] \in {"prepared", "active"}
      <3>1. Stage(t, "prepare") \notin Busy
        BY <2>2, <2>4 DEF Op
      <3>2. permit[t] \in {"none", "task", "record"}
        BY <2>1 DEF ServiceType
      <3> QED
        BY <2>1, <3>1, <3>2 DEF TargetInv, PermitInv
    <2> QED
      BY <2>3, <2>4 DEF RoutesAreAccountedFor, LocalMatchesDurable, CapacityIsReturned
  <1> QED
    BY <1>1, EgressInvariance, PTL
=============================================================================
