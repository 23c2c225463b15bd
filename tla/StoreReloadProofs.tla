------------------------- MODULE StoreReloadProofs -------------------------
(***************************************************************************)
(* For any legs, signaling semantics, connections, clock readings and      *)
(* bounds: the call aggregate's own properties (first part); the           *)
(* connection tables agree with the aggregate, what the transactions leave *)
(* in the rows loads again and decides alike, and every transaction can be *)
(* written back (second part).                                             *)
(*                                                                         *)
(* Every transaction is a step of CallBindings, so TablesAgree is proved   *)
(* about BNext.  The aggregate's invariant (IInv) carries over, since a    *)
(* transaction makes at most one step of it.  The load needs what the rows *)
(* remember of connections that are no longer bound (HInv), and the        *)
(* write-back needs in addition that no operation takes a row away         *)
(* (Persists).                                                             *)
(***************************************************************************)
EXTENDS StoreReload, TLAPS

-----------------------------------------------------------------------------
(***************************************************************************)
(* What Named extracts from the intents of a decision.                     *)
(***************************************************************************)

\* Named distributes over union.
LEMMA NamedUnion ==
    ASSUME NEW A, NEW B, NEW names
    PROVE  Named(A \cup B, names) = Named(A, names) \cup Named(B, names)
  BY DEF Named

\* Named distributes over the union of three sets of intents.
LEMMA NamedUnion3 ==
    ASSUME NEW A, NEW B, NEW C, NEW names
    PROVE  Named(A \cup B \cup C, names)
             = Named(A, names) \cup Named(B, names) \cup Named(C, names)
  <1>1. Named((A \cup B) \cup C, names) = Named(A \cup B, names) \cup Named(C, names)
    BY NamedUnion
  <1>2. Named(A \cup B, names) = Named(A, names) \cup Named(B, names)
    BY NamedUnion
  <1> QED
    BY <1>1, <1>2

\* Named distributes over the union of four sets of intents.
LEMMA NamedUnion4 ==
    ASSUME NEW A, NEW B, NEW C, NEW D, NEW names
    PROVE  Named(A \cup B \cup C \cup D, names)
             = Named(A, names) \cup Named(B, names) \cup Named(C, names)
                 \cup Named(D, names)
  <1>1. Named((A \cup B \cup C) \cup D, names)
          = Named(A \cup B \cup C, names) \cup Named(D, names)
    BY NamedUnion
  <1>2. Named(A \cup B \cup C, names)
          = Named(A, names) \cup Named(B, names) \cup Named(C, names)
    BY NamedUnion3
  <1> QED
    BY <1>1, <1>2

\* Named of no intent.
LEMMA NamedEmpty ==
    ASSUME NEW names
    PROVE  Named({}, names) = {}
  BY DEF Named

\* The fields of an intent.
LEMMA IntentFields ==
    ASSUME NEW e, NEW t, NEW g
    PROVE  /\ Intent(e, t, g).effect = e
           /\ Intent(e, t, g).target = t
           /\ Intent(e, t, g).generation = g
  BY DEF Intent

\* Named of one intent of a wanted kind.
LEMMA NamedHit ==
    ASSUME NEW e, NEW t, NEW g, NEW names, e \in names
    PROVE  Named({Intent(e, t, g)}, names) = {<<t, g>>}
  <1>1. {x \in {Intent(e, t, g)} : x.effect \in names} = {Intent(e, t, g)}
    BY IntentFields
  <1> QED
    BY <1>1, IntentFields DEF Named

\* Named of one intent of another kind.
LEMMA NamedMiss ==
    ASSUME NEW e, NEW t, NEW g, NEW names, e \notin names
    PROVE  Named({Intent(e, t, g)}, names) = {}
  <1>1. {x \in {Intent(e, t, g)} : x.effect \in names} = {}
    BY IntentFields
  <1> QED
    BY <1>1, NamedEmpty DEF Named

\* Cancelling a set of deadlines names their armed generations.
LEMMA NamedCancels ==
    ASSUME NEW K, NEW names
    PROVE  Named(Cancels(K), names)
             = IF "CancelDeadline" \in names
               THEN {<<k, deadline[k]>> : k \in {x \in K : due[x] # 0}}
               ELSE {}
  <1>1. ASSUME "CancelDeadline" \in names
        PROVE  Named(Cancels(K), names)
                 = {<<k, deadline[k]>> : k \in {x \in K : due[x] # 0}}
    <2>1. {x \in Cancels(K) : x.effect \in names} = Cancels(K)
      BY <1>1, IntentFields DEF Cancels
    <2>2. {<<e.target, e.generation>> : e \in Cancels(K)}
            = {<<k, deadline[k]>> : k \in {x \in K : due[x] # 0}}
      <3>1. ASSUME NEW k \in {x \in K : due[x] # 0}
            PROVE  <<k, deadline[k]>>
                     \in {<<e.target, e.generation>> : e \in Cancels(K)}
        <4>1. Intent("CancelDeadline", k, deadline[k]) \in Cancels(K)
          BY DEF Cancels
        <4> QED
          BY <4>1, IntentFields
      <3>2. ASSUME NEW e \in Cancels(K)
            PROVE  <<e.target, e.generation>>
                     \in {<<k, deadline[k]>> : k \in {x \in K : due[x] # 0}}
        <4>1. PICK k \in {x \in K : due[x] # 0} :
                  e = Intent("CancelDeadline", k, deadline[k])
          BY DEF Cancels
        <4> QED
          BY <4>1, IntentFields
      <3> QED
        BY <3>1, <3>2
    <2> QED
      BY <2>1, <2>2 DEF Named
  <1>2. ASSUME "CancelDeadline" \notin names
        PROVE  Named(Cancels(K), names) = {}
    <2>1. {x \in Cancels(K) : x.effect \in names} = {}
      BY <1>2, IntentFields DEF Cancels
    <2> QED
      BY <2>1 DEF Named
  <1> QED
    BY <1>1, <1>2

\* Stopping a set of legs names their current bindings.
LEMMA NamedStops ==
    ASSUME NEW L, NEW names
    PROVE  Named({Intent("StopLeg", l, binding[l]) : l \in L}, names)
             = IF "StopLeg" \in names
               THEN {<<l, binding[l]>> : l \in L} ELSE {}
  <1> DEFINE S == {Intent("StopLeg", l, binding[l]) : l \in L}
  <1>1. ASSUME "StopLeg" \in names
        PROVE  Named(S, names) = {<<l, binding[l]>> : l \in L}
    <2>1. {x \in S : x.effect \in names} = S
      BY <1>1, IntentFields
    <2>2. {<<e.target, e.generation>> : e \in S} = {<<l, binding[l]>> : l \in L}
      <3>1. ASSUME NEW l \in L
            PROVE  <<l, binding[l]>> \in {<<e.target, e.generation>> : e \in S}
        <4>1. Intent("StopLeg", l, binding[l]) \in S
          OBVIOUS
        <4> QED
          BY <4>1, IntentFields
      <3>2. ASSUME NEW e \in S
            PROVE  <<e.target, e.generation>> \in {<<l, binding[l]>> : l \in L}
        <4>1. PICK l \in L : e = Intent("StopLeg", l, binding[l])
          OBVIOUS
        <4> QED
          BY <4>1, IntentFields
      <3> QED
        BY <3>1, <3>2
    <2> QED
      BY <2>1, <2>2 DEF Named
  <1>2. ASSUME "StopLeg" \notin names
        PROVE  Named(S, names) = {}
    <2>1. {x \in S : x.effect \in names} = {}
      BY <1>2, IntentFields
    <2> QED
      BY <2>1 DEF Named
  <1> QED
    BY <1>1, <1>2

\* Aborting the replacements R names their pending bindings.
LEMMA NamedAborts ==
    ASSUME NEW R, NEW names
    PROVE  Named({Intent("AbortLegReplacement", r.leg, r.pending) : r \in R},
                 names)
             = IF "AbortLegReplacement" \in names
               THEN {<<r.leg, r.pending>> : r \in R} ELSE {}
  <1> DEFINE S == {Intent("AbortLegReplacement", r.leg, r.pending) : r \in R}
  <1>1. ASSUME "AbortLegReplacement" \in names
        PROVE  Named(S, names) = {<<r.leg, r.pending>> : r \in R}
    <2>1. {x \in S : x.effect \in names} = S
      BY <1>1, IntentFields
    <2>2. {<<e.target, e.generation>> : e \in S}
            = {<<r.leg, r.pending>> : r \in R}
      <3>1. ASSUME NEW r \in R
            PROVE  <<r.leg, r.pending>>
                     \in {<<e.target, e.generation>> : e \in S}
        <4>1. Intent("AbortLegReplacement", r.leg, r.pending) \in S
          OBVIOUS
        <4> QED
          BY <4>1, IntentFields
      <3>2. ASSUME NEW e \in S
            PROVE  <<e.target, e.generation>> \in {<<r.leg, r.pending>> : r \in R}
        <4>1. PICK r \in R : e = Intent("AbortLegReplacement", r.leg, r.pending)
          OBVIOUS
        <4> QED
          BY <4>1, IntentFields
      <3> QED
        BY <3>1, <3>2
    <2> QED
      BY <2>1, <2>2 DEF Named
  <1>2. ASSUME "AbortLegReplacement" \notin names
        PROVE  Named(S, names) = {}
    <2>1. {x \in S : x.effect \in names} = {}
      BY <1>2, IntentFields
    <2> QED
      BY <2>1 DEF Named
  <1> QED
    BY <1>1, <1>2

\* Intents of different kinds are different.
LEMMA IntentDistinct ==
    ASSUME NEW e1, NEW t1, NEW g1, NEW e2, NEW t2, NEW g2, e1 # e2
    PROVE  Intent(e1, t1, g1) # Intent(e2, t2, g2)
  BY IntentFields

\* Cancelling and scheduling deadlines touches neither routes nor the bridge.
LEMMA DeadlineIntents ==
    ASSUME NEW K, NEW k
    PROVE  /\ Named(Cancels(K), StartEffects) = {}
           /\ Named(Cancels(K), StopEffects) = {}
           /\ Named(Cancels(K), {"ScheduleDeadline"}) = {}
           /\ Bridge \notin Cancels(K) /\ Unbridge \notin Cancels(K)
           /\ Named(Schedules(k), StartEffects) = {}
           /\ Named(Schedules(k), StopEffects) = {}
           /\ Named(Schedules(k), {"CancelDeadline"}) = {}
           /\ Named(Schedules(k), {"ScheduleDeadline"}) = {<<k, deadline[k] + 1>>}
           /\ Bridge \notin Schedules(k) /\ Unbridge \notin Schedules(k)
  <1>1. /\ Named(Cancels(K), StartEffects) = {}
        /\ Named(Cancels(K), StopEffects) = {}
        /\ Named(Cancels(K), {"ScheduleDeadline"}) = {}
    BY NamedCancels DEF StartEffects, StopEffects
  <1>2. Bridge \notin Cancels(K) /\ Unbridge \notin Cancels(K)
    BY IntentDistinct DEF Bridge, Unbridge, Cancels
  <1>3. /\ Named(Schedules(k), StartEffects) = {}
        /\ Named(Schedules(k), StopEffects) = {}
        /\ Named(Schedules(k), {"CancelDeadline"}) = {}
    BY NamedMiss DEF Schedules, StartEffects, StopEffects
  <1>4. Named(Schedules(k), {"ScheduleDeadline"}) = {<<k, deadline[k] + 1>>}
    BY NamedHit DEF Schedules
  <1>5. Bridge \notin Schedules(k) /\ Unbridge \notin Schedules(k)
    BY IntentDistinct DEF Bridge, Unbridge, Schedules
  <1> QED
    BY <1>1, <1>2, <1>3, <1>4, <1>5

\* Bridging and unbridging touches neither routes nor timers.
LEMMA BridgeIntents ==
    /\ Named({Bridge}, StartEffects) = {}
    /\ Named({Bridge}, StopEffects) = {}
    /\ Named({Bridge}, {"CancelDeadline"}) = {}
    /\ Named({Bridge}, {"ScheduleDeadline"}) = {}
    /\ Named({Unbridge}, StartEffects) = {}
    /\ Named({Unbridge}, StopEffects) = {}
    /\ Named({Unbridge}, {"CancelDeadline"}) = {}
    /\ Named({Unbridge}, {"ScheduleDeadline"}) = {}
    /\ Bridge # Unbridge
  <1>1. /\ Named({Bridge}, StartEffects) = {}
        /\ Named({Bridge}, StopEffects) = {}
        /\ Named({Bridge}, {"CancelDeadline"}) = {}
        /\ Named({Bridge}, {"ScheduleDeadline"}) = {}
    BY NamedMiss DEF Bridge, StartEffects, StopEffects
  <1>2. /\ Named({Unbridge}, StartEffects) = {}
        /\ Named({Unbridge}, StopEffects) = {}
        /\ Named({Unbridge}, {"CancelDeadline"}) = {}
        /\ Named({Unbridge}, {"ScheduleDeadline"}) = {}
    BY NamedMiss DEF Unbridge, StartEffects, StopEffects
  <1>3. Bridge # Unbridge
    BY IntentDistinct DEF Bridge, Unbridge
  <1> QED
    BY <1>1, <1>2, <1>3

\* Starting one route.
LEMMA StartIntent ==
    ASSUME NEW e \in StartEffects, NEW t, NEW g
    PROVE  /\ Named({Intent(e, t, g)}, StartEffects) = {<<t, g>>}
           /\ Named({Intent(e, t, g)}, StopEffects) = {}
           /\ Named({Intent(e, t, g)}, {"CancelDeadline"}) = {}
           /\ Named({Intent(e, t, g)}, {"ScheduleDeadline"}) = {}
           /\ Intent(e, t, g) # Bridge /\ Intent(e, t, g) # Unbridge
  <1>1. Named({Intent(e, t, g)}, StartEffects) = {<<t, g>>}
    BY NamedHit
  <1>2. e \notin StopEffects /\ e # "CancelDeadline" /\ e # "ScheduleDeadline"
        /\ e # "BridgeMedia" /\ e # "UnbridgeMedia"
    BY DEF StartEffects, StopEffects
  <1>3. /\ Named({Intent(e, t, g)}, StopEffects) = {}
        /\ Named({Intent(e, t, g)}, {"CancelDeadline"}) = {}
        /\ Named({Intent(e, t, g)}, {"ScheduleDeadline"}) = {}
    BY <1>2, NamedMiss
  <1>4. Intent(e, t, g) # Bridge /\ Intent(e, t, g) # Unbridge
    BY <1>2, IntentDistinct DEF Bridge, Unbridge
  <1> QED
    BY <1>1, <1>3, <1>4

\* Stopping one route.
LEMMA StopIntent ==
    ASSUME NEW e \in StopEffects, NEW t, NEW g
    PROVE  /\ Named({Intent(e, t, g)}, StartEffects) = {}
           /\ Named({Intent(e, t, g)}, StopEffects) = {<<t, g>>}
           /\ Named({Intent(e, t, g)}, {"CancelDeadline"}) = {}
           /\ Named({Intent(e, t, g)}, {"ScheduleDeadline"}) = {}
           /\ Intent(e, t, g) # Bridge /\ Intent(e, t, g) # Unbridge
  <1>1. Named({Intent(e, t, g)}, StopEffects) = {<<t, g>>}
    BY NamedHit
  <1>2. e \notin StartEffects /\ e # "CancelDeadline" /\ e # "ScheduleDeadline"
        /\ e # "BridgeMedia" /\ e # "UnbridgeMedia"
    BY DEF StartEffects, StopEffects
  <1>3. /\ Named({Intent(e, t, g)}, StartEffects) = {}
        /\ Named({Intent(e, t, g)}, {"CancelDeadline"}) = {}
        /\ Named({Intent(e, t, g)}, {"ScheduleDeadline"}) = {}
    BY <1>2, NamedMiss
  <1>4. Intent(e, t, g) # Bridge /\ Intent(e, t, g) # Unbridge
    BY <1>2, IntentDistinct DEF Bridge, Unbridge
  <1> QED
    BY <1>1, <1>3, <1>4

-----------------------------------------------------------------------------
(***************************************************************************)
(* The executor's timers.                                                  *)
(***************************************************************************)

\* Arming a deadline replaces its timer.
LEMMA TimersArmed ==
    ASSUME NEW k \in DeadlineKind, NEW t, t # 0,
           TypeOK, TimersMatchDeadlines,
           deadline' = [deadline EXCEPT ![k] = @ + 1],
           due' = Armed(k, t),
           timers' = (timers \ {<<x, deadline[x]>> :
                                   x \in {y \in {k} : due[y] # 0}})
                       \cup {<<k, deadline[k] + 1>>}
    PROVE  TimersMatchDeadlines'
  BY DEF TypeOK, TimersMatchDeadlines, Armed

\* Disarming deadlines removes their timers.
LEMMA TimersDisarmed ==
    ASSUME NEW K, TypeOK, TimersMatchDeadlines,
           deadline' = deadline,
           due' = Disarmed(K),
           timers' = timers \ {<<x, deadline[x]>> :
                                  x \in {y \in K : due[y] # 0}}
    PROVE  TimersMatchDeadlines'
  BY DEF TypeOK, TimersMatchDeadlines, Disarmed

-----------------------------------------------------------------------------
(***************************************************************************)
(* One lemma per action: the inductive invariant is preserved.             *)
(***************************************************************************)

\* What decide contributes to every step.
LEMMA DecideFacts ==
    ASSUME NEW at, TypeOK, Decide(at)
    PROVE  version' \in 0 .. MaxVersion /\ updatedAt' \in Time /\ Validate'
  BY BoundAssumption DEF TypeOK, Decide

\* A decision without intents leaves the executor alone.
LEMMA EmitNothing ==
    ASSUME TypeOK, Emit({}, {}, {})
    PROVE  /\ bridged' = bridged /\ routes' = routes /\ timers' = timers
           /\ started' = started /\ stopped' = stopped
  BY NamedEmpty DEF TypeOK, Emit

Leaving == {"ending", "ended", "failed"}

\* A step that only moves legs between states that are not part of the
\* teardown, and emits nothing the executor acts on.
LEMMA QuietStep ==
    ASSUME IInv, NEW at, Decide(at),
           legState' \in [Leg -> LegState],
           \A l \in Leg : legState'[l] \in Leaving <=> legState[l] \in Leaving,
           UNCHANGED <<callState, kind, binding, cursor, deadline, due, outcome,
                       replacement, bridged, routes, timers, started, stopped>>
    PROVE  IInv'
  <1>1. TypeOK'
    BY DecideFacts DEF IInv, TypeOK
  <1>2. Validate'
    BY DecideFacts DEF IInv
  <1>3. OneReplacement' /\ BridgeMatchesCall' /\ TimersMatchDeadlines'
        /\ PhasesAreBounded'
    BY DEF IInv, OneReplacement, BridgeMatchesCall, TimersMatchDeadlines,
           PhasesAreBounded
  <1>4. RoutesMatchLegs'
    BY DEF IInv, RoutesMatchLegs, Leaving
  <1>5. GenerationsAreReserved'
    BY DEF IInv, GenerationsAreReserved, Cursor
  <1>6. LiveRoutesNotStopped'
    BY DEF IInv, LiveRoutesNotStopped, Leaving
  <1> QED
    BY <1>1, <1>2, <1>3, <1>4, <1>5, <1>6 DEF IInv

\* SetLegState to a state that neither completes the setup nor ends the leg.
LEMMA LegAdvancesStep ==
    ASSUME IInv, NEW l \in Leg, NEW g, NEW st \in LegState, NEW at,
           LegAdvances(l, g, st, at)
    PROVE  IInv'
  <1>1. legState[l] \notin Leaving /\ st \notin Leaving
    BY DEF LegAdvances, ReportAccepted, ValidLegTransition, Leaving
  <1>2. legState' \in [Leg -> LegState]
        /\ \A m \in Leg : legState'[m] \in Leaving <=> legState[m] \in Leaving
    BY <1>1 DEF LegAdvances, Reported, IInv, TypeOK
  <1>3. UNCHANGED <<bridged, routes, timers, started, stopped>>
    BY EmitNothing DEF LegAdvances, IInv
  <1> QED
    BY <1>2, <1>3, QuietStep DEF LegAdvances

\* Provider media events only move an outbound leg to signaling.
LEMMA ProviderMediaStep ==
    ASSUME IInv, NEW l \in Leg, NEW g, NEW at,
           ProviderMediaStarted(l, g, at) \/ ProviderMediaAttached(l, g, at)
    PROVE  IInv'
  <1>1. UNCHANGED <<callState, kind, binding, cursor, deadline, due, outcome,
                    replacement>> /\ Decide(at)
    BY DEF ProviderMediaStarted, ProviderMediaAttached
  <1>2. UNCHANGED <<bridged, routes, timers, started, stopped>>
    <2>1. ASSUME Emit({Intent("ConnectProviderDestination", l, g)}, {}, {})
          PROVE  UNCHANGED <<bridged, routes, timers, started, stopped>>
      <3> DEFINE E == {Intent("ConnectProviderDestination", l, g)}
      <3>1. Named(E, StartEffects) = {} /\ Named(E, StopEffects) = {}
            /\ Named(E, {"CancelDeadline"}) = {}
            /\ Named(E, {"ScheduleDeadline"}) = {}
        BY NamedMiss DEF StartEffects, StopEffects
      <3>2. Bridge \notin E /\ Unbridge \notin E
        BY IntentDistinct DEF Bridge, Unbridge
      <3> QED
        BY <2>1, <3>1, <3>2 DEF Emit, IInv, TypeOK
    <2> QED
      BY <2>1, EmitNothing
         DEF ProviderMediaStarted, ProviderMediaAttached, IInv
  <1>3. legState' = ProviderSignaling(l) \/ legState' = legState
    BY DEF ProviderMediaStarted, ProviderMediaAttached
  <1>4. legState' \in [Leg -> LegState]
        /\ \A m \in Leg : legState'[m] \in Leaving <=> legState[m] \in Leaving
    BY <1>3 DEF ProviderSignaling, IInv, TypeOK, LegState, Leaving
  <1> QED
    BY <1>1, <1>2, <1>4, QuietStep

\* StartConnecting starts or awaits the first binding of both legs and arms
\* the setup deadline.
LEMMA StartConnectingStep ==
    ASSUME IInv, NEW at \in Time, NEW t \in Time, StartConnecting(at, t)
    PROVE  IInv'
  <1> DEFINE B == {Intent(IF Initiator[l] = "remote" THEN "AwaitLegAttachment"
                          ELSE "StartLeg", l, binding[l]) : l \in Leg}
             E == B \cup Cancels({"setup"}) \cup Schedules("setup")
  <1>1. Named(B, StartEffects) = {<<l, binding[l]>> : l \in Leg}
    <2>1. {x \in B : x.effect \in StartEffects} = B
      BY IntentFields DEF StartEffects
    <2>2. ASSUME NEW l \in Leg
          PROVE  <<l, binding[l]>> \in {<<e.target, e.generation>> : e \in B}
      <3>1. PICK e \in B : e.target = l /\ e.generation = binding[l]
        <4> DEFINE e == Intent(IF Initiator[l] = "remote"
                               THEN "AwaitLegAttachment"
                               ELSE "StartLeg", l, binding[l])
        <4>1. e \in B
          OBVIOUS
        <4> QED
          BY <4>1, IntentFields
      <3> QED
        BY <3>1
    <2>3. ASSUME NEW e \in B
          PROVE  <<e.target, e.generation>> \in {<<l, binding[l]>> : l \in Leg}
      <3>1. PICK l \in Leg : e = Intent(IF Initiator[l] = "remote"
                                        THEN "AwaitLegAttachment"
                                        ELSE "StartLeg", l, binding[l])
        OBVIOUS
      <3> QED
        BY <3>1, IntentFields
    <2> QED
      BY <2>1, <2>2, <2>3 DEF Named
  <1>2. \A x \in B : x.effect \in StartEffects
    BY IntentFields DEF StartEffects
  <1>3. Named(B, StopEffects) = {} /\ Named(B, {"CancelDeadline"}) = {}
        /\ Named(B, {"ScheduleDeadline"}) = {}
    BY <1>2 DEF Named, StartEffects, StopEffects
  <1>4. Bridge \notin B /\ Unbridge \notin B
    BY <1>2, IntentFields DEF Bridge, Unbridge, StartEffects
  <1>5. /\ Named(E, StartEffects) = {<<l, binding[l]>> : l \in Leg}
        /\ Named(E, StopEffects) = {}
        /\ Named(E, {"ScheduleDeadline"}) = {<<"setup", deadline["setup"] + 1>>}
        /\ Named(E, {"CancelDeadline"})
             = {<<x, deadline[x]>> : x \in {y \in {"setup"} : due[y] # 0}}
    <2> HIDE DEF B
    <2>1. ASSUME NEW n
          PROVE  Named(E, n) = Named(B, n) \cup Named(Cancels({"setup"}), n)
                                 \cup Named(Schedules("setup"), n)
      BY NamedUnion3
    <2>2. Named(Cancels({"setup"}), {"CancelDeadline"})
             = {<<x, deadline[x]>> : x \in {y \in {"setup"} : due[y] # 0}}
      BY NamedCancels
    <2> HIDE DEF E
    <2> QED
      BY <2>1, <2>2, <1>1, <1>3, DeadlineIntents
  <1>6. Bridge \notin E /\ Unbridge \notin E
    BY <1>4, DeadlineIntents
  <1>7. /\ bridged' = bridged
        /\ routes' = routes \cup {<<l, binding[l]>> : l \in Leg}
        /\ timers' = (timers \ {<<x, deadline[x]>> :
                                   x \in {y \in {"setup"} : due[y] # 0}})
                       \cup {<<"setup", deadline["setup"] + 1>>}
        /\ started' = started \cup {<<l, binding[l]>> : l \in Leg}
        /\ stopped' = stopped
    BY <1>5, <1>6 DEF StartConnecting, Emit, IInv, TypeOK
  <1>8. t # 0
    BY BoundAssumption DEF StartConnecting, Future
  <1>9. Validate' /\ version' \in 0 .. MaxVersion /\ updatedAt' \in Time
    BY DecideFacts DEF StartConnecting, IInv
  <1>10. TypeOK'
    BY <1>7, <1>9, BoundAssumption
       DEF StartConnecting, IInv, TypeOK, CallState, LegState, DeadlineKind,
           Future, CanArm, Armed
  <1>11. OneReplacement' /\ BridgeMatchesCall' /\ PhasesAreBounded'
    BY <1>7, <1>8 DEF StartConnecting, IInv, TypeOK, OneReplacement,
                      BridgeMatchesCall, PhasesAreBounded, Armed, DeadlineKind
  <1>12. TimersMatchDeadlines'
    BY <1>7, <1>8, TimersArmed DEF StartConnecting, IInv, DeadlineKind
  <1>13. RoutesMatchLegs'
    <2>1. replacement = {} /\ replacement' = {}
      BY DEF StartConnecting, IInv, Validate, ValidReplacement
    <2>2. routes = {} /\ \A l \in Leg : legState'[l] \notin Leaving
      BY <2>1 DEF StartConnecting, IInv, Validate, ValidLegs, RoutesMatchLegs,
                  Leaving
    <2> QED
      BY <1>7, <2>1, <2>2 DEF StartConnecting, RoutesMatchLegs, Leaving
  <1>14. GenerationsAreReserved'
    BY <1>7 DEF StartConnecting, IInv, TypeOK, GenerationsAreReserved, Cursor,
                Generation
  <1>15. LiveRoutesNotStopped'
    <2>1. \A l \in Leg : legState[l] \notin Leaving
      BY DEF StartConnecting, IInv, Validate, ValidLegs, Leaving
    <2> QED
      BY <1>7, <2>1 DEF StartConnecting, IInv, LiveRoutesNotStopped, Leaving
  <1> QED
    BY <1>9, <1>10, <1>11, <1>12, <1>13, <1>14, <1>15 DEF IInv

\* The leg that completes the setup bridges the call and cancels its deadline.
LEMMA LegConnectsCallStep ==
    ASSUME IInv, NEW l \in Leg, NEW g, NEW at, LegConnectsCall(l, g, at)
    PROVE  IInv'
  <1> DEFINE E == {Bridge} \cup Cancels({"setup"})
  <1>1. /\ Named(E, StartEffects) = {} /\ Named(E, StopEffects) = {}
        /\ Named(E, {"ScheduleDeadline"}) = {}
        /\ Named(E, {"CancelDeadline"})
             = {<<x, deadline[x]>> : x \in {y \in {"setup"} : due[y] # 0}}
    <2>1. ASSUME NEW n
          PROVE  Named(E, n) = Named({Bridge}, n) \cup Named(Cancels({"setup"}), n)
      BY NamedUnion
    <2>2. Named(Cancels({"setup"}), {"CancelDeadline"})
             = {<<x, deadline[x]>> : x \in {y \in {"setup"} : due[y] # 0}}
      BY NamedCancels
    <2> HIDE DEF E
    <2> QED
      BY <2>1, <2>2, BridgeIntents, DeadlineIntents
  <1>2. Bridge \in E /\ Unbridge \notin E
    BY BridgeIntents, DeadlineIntents
  <1>3. /\ bridged' = TRUE /\ routes' = routes
        /\ timers' = timers \ {<<x, deadline[x]>> :
                                  x \in {y \in {"setup"} : due[y] # 0}}
        /\ started' = started /\ stopped' = stopped
    BY <1>1, <1>2 DEF LegConnectsCall, Emit, IInv, TypeOK
  <1>4. Validate' /\ version' \in 0 .. MaxVersion /\ updatedAt' \in Time
    BY DecideFacts DEF LegConnectsCall, IInv
  <1>5. legState[l] \notin Leaving /\ callState = "connecting" /\ replacement = {}
    BY DEF LegConnectsCall, ReportAccepted, ValidLegTransition, Leaving, IInv,
           Validate, ValidReplacement
  <1>6. TypeOK'
    BY <1>3, <1>4 DEF LegConnectsCall, IInv, TypeOK, CallState, LegState,
                      DeadlineKind, Disarmed, Reported
  <1>7. OneReplacement' /\ BridgeMatchesCall' /\ PhasesAreBounded'
    BY <1>3 DEF LegConnectsCall, IInv, OneReplacement, BridgeMatchesCall,
                PhasesAreBounded
  <1>8. TimersMatchDeadlines'
    BY <1>3, TimersDisarmed DEF LegConnectsCall, IInv
  <1>9. \A m \in Leg : legState'[m] \in Leaving <=> legState[m] \in Leaving
    BY <1>5 DEF LegConnectsCall, Reported, IInv, TypeOK, Leaving
  <1>10. RoutesMatchLegs'
    BY <1>3, <1>5, <1>9 DEF LegConnectsCall, IInv, RoutesMatchLegs, Leaving
  <1>11. GenerationsAreReserved'
    BY <1>3 DEF LegConnectsCall, IInv, GenerationsAreReserved, Cursor
  <1>12. LiveRoutesNotStopped'
    BY <1>3, <1>9 DEF LegConnectsCall, IInv, LiveRoutesNotStopped, Leaving
  <1> QED
    BY <1>4, <1>6, <1>7, <1>8, <1>10, <1>11, <1>12 DEF IInv

\* ArmDeadline replaces one timer.
LEMMA ArmDeadlineStep ==
    ASSUME IInv, NEW k \in DeadlineKind, NEW t \in Time, NEW at \in Time,
           ArmDeadline(k, t, at)
    PROVE  IInv'
  <1> DEFINE E == Cancels({k}) \cup Schedules(k)
  <1>1. /\ Named(E, StartEffects) = {} /\ Named(E, StopEffects) = {}
        /\ Named(E, {"ScheduleDeadline"}) = {<<k, deadline[k] + 1>>}
        /\ Named(E, {"CancelDeadline"})
             = {<<x, deadline[x]>> : x \in {y \in {k} : due[y] # 0}}
    <2>1. ASSUME NEW n
          PROVE  Named(E, n) = Named(Cancels({k}), n) \cup Named(Schedules(k), n)
      BY NamedUnion
    <2>2. Named(Cancels({k}), {"CancelDeadline"})
             = {<<x, deadline[x]>> : x \in {y \in {k} : due[y] # 0}}
      BY NamedCancels
    <2> HIDE DEF E
    <2> QED
      BY <2>1, <2>2, DeadlineIntents
  <1>2. Bridge \notin E /\ Unbridge \notin E
    BY DeadlineIntents
  <1>3. /\ bridged' = bridged /\ routes' = routes
        /\ timers' = (timers \ {<<x, deadline[x]>> :
                                   x \in {y \in {k} : due[y] # 0}})
                       \cup {<<k, deadline[k] + 1>>}
        /\ started' = started /\ stopped' = stopped
    BY <1>1, <1>2 DEF ArmDeadline, Emit, IInv, TypeOK
  <1>4. Validate' /\ version' \in 0 .. MaxVersion /\ updatedAt' \in Time
    BY DecideFacts DEF ArmDeadline, IInv
  <1>5. t # 0
    BY BoundAssumption DEF ArmDeadline, Future
  <1>6. TypeOK'
    BY <1>3, <1>4, BoundAssumption
       DEF ArmDeadline, IInv, TypeOK, Future, CanArm, Armed
  <1>7. OneReplacement' /\ BridgeMatchesCall' /\ PhasesAreBounded'
    BY <1>3, <1>5 DEF ArmDeadline, IInv, TypeOK, OneReplacement,
                      BridgeMatchesCall, PhasesAreBounded, Armed, DeadlineKind
  <1>8. TimersMatchDeadlines'
    BY <1>3, <1>5, TimersArmed DEF ArmDeadline, IInv
  <1>9. RoutesMatchLegs' /\ LiveRoutesNotStopped' /\ GenerationsAreReserved'
    BY <1>3 DEF ArmDeadline, IInv, RoutesMatchLegs, LiveRoutesNotStopped,
                GenerationsAreReserved, Cursor
  <1> QED
    BY <1>4, <1>6, <1>7, <1>8, <1>9 DEF IInv

\* BeginTransfer arms the transfer deadline; the bridge and routes stay.
LEMMA BeginTransferStep ==
    ASSUME IInv, NEW t \in Time, NEW at \in Time, BeginTransfer(t, at)
    PROVE  IInv'
  <1> DEFINE X == {Intent("ExecuteTransfer", "call", deadline["transfer"] + 1)}
             E == Cancels({"transfer"}) \cup Schedules("transfer") \cup X
  <1>1. /\ Named(X, StartEffects) = {} /\ Named(X, StopEffects) = {}
        /\ Named(X, {"ScheduleDeadline"}) = {} /\ Named(X, {"CancelDeadline"}) = {}
        /\ Bridge \notin X /\ Unbridge \notin X
    <2>1. Bridge \notin X /\ Unbridge \notin X
      BY IntentDistinct DEF Bridge, Unbridge
    <2> QED
      BY <2>1, NamedMiss DEF StartEffects, StopEffects
  <1>2. /\ Named(E, StartEffects) = {} /\ Named(E, StopEffects) = {}
        /\ Named(E, {"ScheduleDeadline"})
             = {<<"transfer", deadline["transfer"] + 1>>}
        /\ Named(E, {"CancelDeadline"})
             = {<<x, deadline[x]>> : x \in {y \in {"transfer"} : due[y] # 0}}
    <2> HIDE DEF X
    <2>1. ASSUME NEW n
          PROVE  Named(E, n) = Named(Cancels({"transfer"}), n)
                   \cup Named(Schedules("transfer"), n) \cup Named(X, n)
      BY NamedUnion3
    <2>2. Named(Cancels({"transfer"}), {"CancelDeadline"})
             = {<<x, deadline[x]>> : x \in {y \in {"transfer"} : due[y] # 0}}
      BY NamedCancels
    <2> HIDE DEF E
    <2> QED
      BY <2>1, <2>2, <1>1, DeadlineIntents
  <1>3. Bridge \notin E /\ Unbridge \notin E
    BY <1>1, DeadlineIntents
  <1>4. /\ bridged' = bridged /\ routes' = routes
        /\ timers' = (timers \ {<<x, deadline[x]>> :
                                   x \in {y \in {"transfer"} : due[y] # 0}})
                       \cup {<<"transfer", deadline["transfer"] + 1>>}
        /\ started' = started /\ stopped' = stopped
    BY <1>2, <1>3 DEF BeginTransfer, Emit, IInv, TypeOK
  <1>5. Validate' /\ version' \in 0 .. MaxVersion /\ updatedAt' \in Time
    BY DecideFacts DEF BeginTransfer, IInv
  <1>6. t # 0 /\ replacement = {}
    BY BoundAssumption
       DEF BeginTransfer, Future, IInv, Validate, ValidReplacement
  <1>7. TypeOK'
    BY <1>4, <1>5, BoundAssumption
       DEF BeginTransfer, IInv, TypeOK, Future, CanArm, Armed, CallState,
           DeadlineKind
  <1>8. OneReplacement' /\ BridgeMatchesCall' /\ PhasesAreBounded'
    BY <1>4, <1>6 DEF BeginTransfer, IInv, TypeOK, OneReplacement,
                      BridgeMatchesCall, PhasesAreBounded, Armed, DeadlineKind
  <1>9. TimersMatchDeadlines'
    BY <1>4, <1>6, TimersArmed DEF BeginTransfer, IInv, DeadlineKind
  <1>10. RoutesMatchLegs' /\ LiveRoutesNotStopped' /\ GenerationsAreReserved'
    BY <1>4 DEF BeginTransfer, IInv, RoutesMatchLegs, LiveRoutesNotStopped,
                GenerationsAreReserved, Cursor
  <1> QED
    BY <1>5, <1>7, <1>8, <1>9, <1>10 DEF IInv

\* FinishTransfer cancels the transfer deadline.
LEMMA FinishTransferStep ==
    ASSUME IInv, NEW d, NEW at, FinishTransfer(d, at)
    PROVE  IInv'
  <1> DEFINE E == Cancels({"transfer"})
  <1>1. Named(E, {"CancelDeadline"})
             = {<<x, deadline[x]>> : x \in {y \in {"transfer"} : due[y] # 0}}
    BY NamedCancels
  <1>2. /\ bridged' = bridged /\ routes' = routes
        /\ timers' = timers \ {<<x, deadline[x]>> :
                                  x \in {y \in {"transfer"} : due[y] # 0}}
        /\ started' = started /\ stopped' = stopped
    BY <1>1, DeadlineIntents DEF FinishTransfer, Emit, IInv, TypeOK
  <1>3. Validate' /\ version' \in 0 .. MaxVersion /\ updatedAt' \in Time
    BY DecideFacts DEF FinishTransfer, IInv
  <1>4. TypeOK'
    BY <1>2, <1>3 DEF FinishTransfer, IInv, TypeOK, Disarmed, CallState
  <1>5. OneReplacement' /\ BridgeMatchesCall' /\ PhasesAreBounded'
    BY <1>2 DEF FinishTransfer, IInv, OneReplacement, BridgeMatchesCall,
                PhasesAreBounded
  <1>6. TimersMatchDeadlines'
    BY <1>2, TimersDisarmed DEF FinishTransfer, IInv
  <1>7. RoutesMatchLegs' /\ LiveRoutesNotStopped' /\ GenerationsAreReserved'
    BY <1>2 DEF FinishTransfer, IInv, RoutesMatchLegs, LiveRoutesNotStopped,
                GenerationsAreReserved, Cursor
  <1> QED
    BY <1>3, <1>4, <1>5, <1>6, <1>7 DEF IInv

\* RotateLegBinding awaits the next binding in place of the current one.
LEMMA RotateLegBindingStep ==
    ASSUME IInv, NEW l \in Leg, NEW g, NEW at, RotateLegBinding(l, g, at)
    PROVE  IInv'
  <1> DEFINE E == {Intent("AwaitLegAttachment", l, binding[l] + 1)}
  <1>1. /\ Named(E, StartEffects) = {<<l, binding[l] + 1>>}
        /\ Named(E, StopEffects) = {}
        /\ Named(E, {"ScheduleDeadline"}) = {} /\ Named(E, {"CancelDeadline"}) = {}
        /\ Bridge \notin E /\ Unbridge \notin E
    <2> DEFINE n == binding[l] + 1
    <2>1. "AwaitLegAttachment" \in StartEffects
      BY DEF StartEffects
    <2> HIDE DEF n
    <2>2. /\ Named({Intent("AwaitLegAttachment", l, n)}, StartEffects) = {<<l, n>>}
          /\ Named({Intent("AwaitLegAttachment", l, n)}, StopEffects) = {}
          /\ Named({Intent("AwaitLegAttachment", l, n)}, {"CancelDeadline"}) = {}
          /\ Named({Intent("AwaitLegAttachment", l, n)}, {"ScheduleDeadline"}) = {}
          /\ Intent("AwaitLegAttachment", l, n) # Bridge
          /\ Intent("AwaitLegAttachment", l, n) # Unbridge
      BY <2>1, StartIntent
    <2> QED
      BY <2>2 DEF n
  <1>2. /\ bridged' = bridged
        /\ routes' = (routes \cup {<<l, binding[l] + 1>>}) \ {<<l, binding[l]>>}
        /\ timers' = timers
        /\ started' = started \cup {<<l, binding[l] + 1>>}
        /\ stopped' = stopped
    BY <1>1 DEF RotateLegBinding, Emit, IInv, TypeOK
  <1>3. Validate' /\ version' \in 0 .. MaxVersion /\ updatedAt' \in Time
    BY DecideFacts DEF RotateLegBinding, IInv
  <1>4. /\ cursor[l] = 0 /\ cursor' = cursor /\ replacement = {}
        /\ callState = "connecting" /\ callState' = "connecting"
        /\ legState[l] \notin Leaving
        /\ binding[l] \in Nat /\ binding[l] + 1 \in Generation
    BY BoundAssumption
       DEF RotateLegBinding, IInv, TypeOK, GenerationsAreReserved, Validate,
           ValidReplacement, Generation, Leaving
  <1>5. TypeOK'
    BY <1>2, <1>3, <1>4 DEF RotateLegBinding, IInv, TypeOK, LegState, Reported
  <1>6. OneReplacement' /\ BridgeMatchesCall' /\ PhasesAreBounded'
        /\ TimersMatchDeadlines'
    BY <1>2 DEF RotateLegBinding, IInv, OneReplacement, BridgeMatchesCall,
                PhasesAreBounded, TimersMatchDeadlines
  <1>7. RoutesMatchLegs'
    <2>1. \A m \in Leg : /\ legState'[m] \in Leaving <=> legState[m] \in Leaving
                         /\ binding'[m] = IF m = l THEN binding[l] + 1
                                          ELSE binding[m]
      BY <1>4 DEF RotateLegBinding, IInv, TypeOK, Reported, Leaving
    <2>2. routes = {<<m, binding[m]>> : m \in {x \in Leg : legState[x] \notin Leaving}}
      BY <1>4 DEF IInv, RoutesMatchLegs, Leaving
    <2>3. routes' = {<<m, binding'[m]>> : m \in {x \in Leg : legState'[x] \notin Leaving}}
      BY <1>2, <1>4, <2>1, <2>2
    <2> QED
      BY <1>4, <2>3 DEF RotateLegBinding, RoutesMatchLegs, Leaving
  <1>8. GenerationsAreReserved'
    BY <1>2, <1>4, <1>5
       DEF RotateLegBinding, IInv, TypeOK, GenerationsAreReserved, Cursor,
           Generation
  <1>9. LiveRoutesNotStopped'
    BY <1>2, <1>4
       DEF RotateLegBinding, IInv, TypeOK, LiveRoutesNotStopped, Leaving,
           Reported, GenerationsAreReserved, Cursor
  <1> QED
    BY <1>3, <1>5, <1>6, <1>7, <1>8, <1>9 DEF IInv

\* BeginLegReplacement holds the leg and starts a fresh generation.
LEMMA BeginLegReplacementStep ==
    ASSUME IInv, NEW l \in Leg, NEW n \in Kind, NEW t \in Time, NEW at \in Time,
           BeginLegReplacement(l, n, t, at)
    PROVE  IInv'
  <1> DEFINE N == NextGeneration(l)
             S == {Intent("StartLegReplacement", l, N)}
             E == {Unbridge} \cup Cancels({"transfer"}) \cup Schedules("transfer")
                    \cup S
  <1>1. /\ Named(S, StartEffects) = {<<l, N>>} /\ Named(S, StopEffects) = {}
        /\ Named(S, {"ScheduleDeadline"}) = {} /\ Named(S, {"CancelDeadline"}) = {}
        /\ Bridge \notin S /\ Unbridge \notin S
    BY StartIntent DEF StartEffects
  <1>2. /\ Named(E, StartEffects) = {<<l, N>>} /\ Named(E, StopEffects) = {}
        /\ Named(E, {"ScheduleDeadline"})
             = {<<"transfer", deadline["transfer"] + 1>>}
        /\ Named(E, {"CancelDeadline"})
             = {<<x, deadline[x]>> : x \in {y \in {"transfer"} : due[y] # 0}}
    <2> HIDE DEF S
    <2>1. ASSUME NEW m
          PROVE  Named(E, m) = Named({Unbridge}, m)
                   \cup Named(Cancels({"transfer"}), m)
                   \cup Named(Schedules("transfer"), m) \cup Named(S, m)
      BY NamedUnion4
    <2>2. Named(Cancels({"transfer"}), {"CancelDeadline"})
             = {<<x, deadline[x]>> : x \in {y \in {"transfer"} : due[y] # 0}}
      BY NamedCancels
    <2> HIDE DEF E
    <2> QED
      BY <2>1, <2>2, <1>1, DeadlineIntents, BridgeIntents
  <1>3. Unbridge \in E
    OBVIOUS
  <1>4. /\ bridged' = FALSE /\ routes' = routes \cup {<<l, N>>}
        /\ timers' = (timers \ {<<x, deadline[x]>> :
                                   x \in {y \in {"transfer"} : due[y] # 0}})
                       \cup {<<"transfer", deadline["transfer"] + 1>>}
        /\ started' = started \cup {<<l, N>>} /\ stopped' = stopped
    BY <1>2, <1>3 DEF BeginLegReplacement, Emit, IInv, TypeOK
  <1>5. Validate' /\ version' \in 0 .. MaxVersion /\ updatedAt' \in Time
    BY DecideFacts DEF BeginLegReplacement, IInv
  <1>6. t # 0 /\ N = Cursor(l) + 1 /\ N \in Generation /\ Cursor(l) \in Nat
        /\ \A m \in Leg : Cursor(m) \in Nat
    BY BoundAssumption
       DEF BeginLegReplacement, Future, IInv, TypeOK, Cursor, NextGeneration,
           Generation
  <1>7. TypeOK'
    <2>1. replacement' \subseteq Replacement
      BY <1>6 DEF BeginLegReplacement, IInv, TypeOK, Replacement
    <2>2. /\ callState' \in CallState /\ outcome' \in Outcome
          /\ kind' \in [Leg -> Kind] /\ binding' \in [Leg -> Generation]
      BY DEF BeginLegReplacement, IInv, TypeOK, CallState
    <2>3. /\ legState' \in [Leg -> LegState]
          /\ cursor' \in [Leg -> Generation \cup {0}]
      BY <1>6 DEF BeginLegReplacement, IInv, TypeOK, LegState, Reported
    <2>4. /\ deadline' \in [DeadlineKind -> 0 .. MaxDeadline]
          /\ due' \in [DeadlineKind -> Time \cup {0}]
      BY BoundAssumption
         DEF BeginLegReplacement, IInv, TypeOK, CanArm, Armed, DeadlineKind
    <2>5. /\ bridged' \in BOOLEAN
          /\ routes' \subseteq (Leg \X Generation)
          /\ started' \subseteq (Leg \X Generation)
          /\ stopped' \subseteq (Leg \X Generation)
      <3>1. <<l, N>> \in Leg \X Generation
        BY <1>6
      <3>2. /\ bridged' = FALSE /\ routes' = routes \cup {<<l, N>>}
            /\ started' = started \cup {<<l, N>>} /\ stopped' = stopped
        BY <1>4
      <3> HIDE DEF N
      <3> QED
        BY <3>1, <3>2 DEF IInv, TypeOK
    <2> QED
      BY <1>5, <2>1, <2>2, <2>3, <2>4, <2>5 DEF TypeOK
  <1>8. OneReplacement' /\ BridgeMatchesCall' /\ PhasesAreBounded'
    BY <1>4, <1>6 DEF BeginLegReplacement, IInv, TypeOK, OneReplacement,
                      BridgeMatchesCall, PhasesAreBounded, Armed, DeadlineKind
  <1>9. TimersMatchDeadlines'
    BY <1>4, <1>6, TimersArmed DEF BeginLegReplacement, IInv, DeadlineKind
  <1>10. \A m \in Leg : legState'[m] \in Leaving <=> legState[m] \in Leaving
    BY DEF BeginLegReplacement, Reported, IInv, TypeOK, Leaving
  <1>11. RoutesMatchLegs'
    <2>1. replacement = {}
      BY DEF BeginLegReplacement
    <2>2. {<<r.leg, r.pending>> : r \in replacement'} = {<<l, N>>}
      BY DEF BeginLegReplacement
    <2> QED
      BY <1>4, <1>10, <2>1, <2>2
         DEF BeginLegReplacement, IInv, RoutesMatchLegs, Leaving
  <1>12. \A m \in Leg : Cursor(m)' = IF m = l THEN N ELSE Cursor(m)
    BY <1>6 DEF BeginLegReplacement, IInv, TypeOK, Cursor, Generation
  <1>13. GenerationsAreReserved'
    BY <1>4, <1>6, <1>12
       DEF BeginLegReplacement, IInv, GenerationsAreReserved, Generation
  <1>14. LiveRoutesNotStopped'
    <2>1. <<l, N>> \notin stopped
      BY <1>6 DEF IInv, GenerationsAreReserved, Generation
    <2> QED
      BY <1>4, <1>10, <2>1
         DEF BeginLegReplacement, IInv, LiveRoutesNotStopped, Leaving
  <1> QED
    BY <1>5, <1>7, <1>8, <1>9, <1>11, <1>13, <1>14 DEF IInv

\* FinishLegReplacement keeps exactly one of the two bindings of the leg.
LEMMA FinishLegReplacementStep ==
    ASSUME IInv, NEW d, NEW g \in Generation, NEW c \in BOOLEAN, NEW at,
           FinishLegReplacement(d, g, c, at)
    PROVE  IInv'
  <1>1. PICK r \in replacement :
        /\ g = r.pending
        /\ callState = "transferring"
        /\ callState' = "active"
        /\ legState' = Reported(r.leg, "connected")
        /\ kind' = IF c THEN [kind EXCEPT ![r.leg] = r.kind] ELSE kind
        /\ binding' = IF c THEN [binding EXCEPT ![r.leg] = g] ELSE binding
        /\ replacement' = {}
        /\ due' = Disarmed({"transfer"})
        /\ Emit(Cancels({"transfer"}) \cup {Bridge}
                \cup {IF c THEN Intent("StopLeg", r.leg, r.previous)
                      ELSE Intent("AbortLegReplacement", r.leg, r.pending)},
                {}, {})
        /\ UNCHANGED <<cursor, deadline, outcome>>
        /\ Decide(at)
    BY DEF FinishLegReplacement
  <1> DEFINE old == IF c THEN r.previous ELSE r.pending
             S == {IF c THEN Intent("StopLeg", r.leg, r.previous)
                      ELSE Intent("AbortLegReplacement", r.leg, r.pending)}
             E == Cancels({"transfer"}) \cup {Bridge} \cup S
  <1>2. /\ Named(S, StartEffects) = {} /\ Named(S, StopEffects) = {<<r.leg, old>>}
        /\ Named(S, {"ScheduleDeadline"}) = {} /\ Named(S, {"CancelDeadline"}) = {}
        /\ Bridge \notin S /\ Unbridge \notin S
    <2>1. CASE c
      BY <2>1, StopIntent DEF StopEffects
    <2>2. CASE ~c
      BY <2>2, StopIntent DEF StopEffects
    <2> QED
      BY <2>1, <2>2
  <1>3. /\ Named(E, StartEffects) = {} /\ Named(E, StopEffects) = {<<r.leg, old>>}
        /\ Named(E, {"ScheduleDeadline"}) = {}
        /\ Named(E, {"CancelDeadline"})
             = {<<x, deadline[x]>> : x \in {y \in {"transfer"} : due[y] # 0}}
    <2> HIDE DEF S
    <2>1. ASSUME NEW m
          PROVE  Named(E, m) = Named(Cancels({"transfer"}), m)
                   \cup Named({Bridge}, m) \cup Named(S, m)
      BY NamedUnion3
    <2>2. Named(Cancels({"transfer"}), {"CancelDeadline"})
             = {<<x, deadline[x]>> : x \in {y \in {"transfer"} : due[y] # 0}}
      BY NamedCancels
    <2> HIDE DEF E
    <2> QED
      BY <2>1, <2>2, <1>2, DeadlineIntents, BridgeIntents
  <1>4. Bridge \in E /\ Unbridge \notin E
    BY <1>2, DeadlineIntents, BridgeIntents
  <1>5. /\ bridged' = TRUE /\ routes' = routes \ {<<r.leg, old>>}
        /\ timers' = timers \ {<<x, deadline[x]>> :
                                   x \in {y \in {"transfer"} : due[y] # 0}}
        /\ started' = started /\ stopped' = stopped \cup {<<r.leg, old>>}
    BY <1>1, <1>3, <1>4 DEF Emit, IInv, TypeOK
  <1>6. Validate' /\ version' \in 0 .. MaxVersion /\ updatedAt' \in Time
    BY <1>1, DecideFacts DEF IInv
  <1>7. /\ r.leg \in Leg /\ r.previous \in Generation /\ r.pending \in Generation
        /\ r.kind \in Kind /\ old \in Generation
        /\ binding[r.leg] = r.previous /\ r.pending = Cursor(r.leg)
        /\ r.pending > r.previous /\ legState[r.leg] = "held"
        /\ replacement = {r}
    <2>1. r \in Replacement
      BY <1>1 DEF IInv, TypeOK
    <2> QED
      BY <1>1, <2>1
         DEF IInv, Replacement, Validate, ValidReplacement, OneReplacement
  <1>8. TypeOK'
    <2>1. legState' \in [Leg -> LegState] /\ due' \in [DeadlineKind -> Time \cup {0}]
      BY <1>1, <1>7 DEF IInv, TypeOK, Reported, LegState, Disarmed
    <2>2. kind' \in [Leg -> Kind] /\ binding' \in [Leg -> Generation]
      BY <1>1, <1>7 DEF IInv, TypeOK
    <2>3. <<r.leg, old>> \in Leg \X Generation
      BY <1>7
    <2> HIDE DEF old
    <2>4. /\ callState' \in CallState /\ outcome' \in Outcome
          /\ cursor' \in [Leg -> Generation \cup {0}]
          /\ deadline' \in [DeadlineKind -> 0 .. MaxDeadline]
          /\ replacement' \subseteq Replacement
      BY <1>1 DEF IInv, TypeOK, CallState
    <2>5. /\ bridged' \in BOOLEAN
          /\ routes' \subseteq (Leg \X Generation)
          /\ started' \subseteq (Leg \X Generation)
          /\ stopped' \subseteq (Leg \X Generation)
      BY <1>5, <2>3 DEF IInv, TypeOK
    <2> QED
      BY <1>6, <2>1, <2>2, <2>4, <2>5 DEF TypeOK
  <1>9. OneReplacement' /\ BridgeMatchesCall' /\ PhasesAreBounded'
    BY <1>1, <1>5 DEF OneReplacement, BridgeMatchesCall, PhasesAreBounded
  <1>10. TimersMatchDeadlines'
    BY <1>1, <1>5, TimersDisarmed DEF IInv
  <1>11. \A m \in Leg : legState'[m] \in Leaving <=> legState[m] \in Leaving
    BY <1>1, <1>7 DEF Reported, IInv, TypeOK, Leaving
  <1>12. \A m \in Leg : binding'[m] = IF c /\ m = r.leg THEN r.pending
                                      ELSE binding[m]
    BY <1>1, <1>7 DEF IInv, TypeOK
  <1>13. RoutesMatchLegs'
    <2> DEFINE live == {m \in Leg : legState[m] \notin Leaving}
    <2>1. routes = {<<m, binding[m]>> : m \in live} \cup {<<r.leg, r.pending>>}
      BY <1>1, <1>7 DEF IInv, RoutesMatchLegs, Leaving
    <2>2. r.leg \in live /\ r.pending # r.previous
      BY <1>7 DEF Leaving, Generation
    <2>3. routes' = {<<m, binding'[m]>> : m \in live}
      BY <1>5, <1>7, <1>12, <2>1, <2>2
    <2>4. live = {m \in Leg : legState'[m] \notin Leaving}
      BY <1>11
    <2> QED
      BY <1>1, <2>3, <2>4 DEF RoutesMatchLegs, Leaving
  <1>14. \A m \in Leg : Cursor(m)' = Cursor(m)
    BY <1>1, <1>7, <1>12 DEF IInv, TypeOK, Cursor, Generation
  <1>15. GenerationsAreReserved'
    <2>1. old <= Cursor(r.leg)
      BY <1>7 DEF Generation
    <2> HIDE DEF old
    <2> QED
      BY <1>1, <1>5, <1>7, <1>14, <2>1
         DEF IInv, GenerationsAreReserved, Generation
  <1>16. LiveRoutesNotStopped'
    <2>1. <<r.leg, r.pending>> \notin stopped
      BY <1>1 DEF IInv, LiveRoutesNotStopped
    <2>2. binding'[r.leg] # old
      BY <1>7, <1>12 DEF Generation
    <2>3. <<r.leg, binding'[r.leg]>> \notin stopped
      BY <1>7, <1>12, <2>1 DEF IInv, LiveRoutesNotStopped
    <2> HIDE DEF old
    <2> QED
      BY <1>1, <1>5, <1>7, <1>11, <1>12, <2>1, <2>2, <2>3
         DEF IInv, LiveRoutesNotStopped, Leaving
  <1> QED
    BY <1>6, <1>8, <1>9, <1>10, <1>13, <1>15, <1>16 DEF IInv

\* The transfer deadline of a replacement aborts the pending binding and
\* restores the held one.
LEMMA ReplacementDeadlineElapsedStep ==
    ASSUME IInv, NEW d, NEW at, ReplacementDeadlineElapsed(d, at)
    PROVE  IInv'
  <1>1. PICK r \in replacement :
        /\ legState' = Reported(r.leg, "connected")
        /\ Emit({Intent("AbortLegReplacement", r.leg, r.pending), Bridge},
                {}, {<<"transfer", d>>})
    BY DEF ReplacementDeadlineElapsed
  <1> DEFINE S == {Intent("AbortLegReplacement", r.leg, r.pending)}
             E == {Intent("AbortLegReplacement", r.leg, r.pending), Bridge}
  <1>2. /\ Named(S, StartEffects) = {}
        /\ Named(S, StopEffects) = {<<r.leg, r.pending>>}
        /\ Named(S, {"ScheduleDeadline"}) = {} /\ Named(S, {"CancelDeadline"}) = {}
        /\ Bridge \notin S /\ Unbridge \notin S
    BY StopIntent DEF StopEffects
  <1>3. /\ Named(E, StartEffects) = {}
        /\ Named(E, StopEffects) = {<<r.leg, r.pending>>}
        /\ Named(E, {"ScheduleDeadline"}) = {} /\ Named(E, {"CancelDeadline"}) = {}
    <2>1. E = S \cup {Bridge}
      OBVIOUS
    <2> HIDE DEF E, S
    <2>2. ASSUME NEW m
          PROVE  Named(E, m) = Named(S, m) \cup Named({Bridge}, m)
      BY <2>1, NamedUnion
    <2> QED
      BY <2>2, <1>2, BridgeIntents
  <1>4. Bridge \in E /\ Unbridge \notin E
    BY <1>2, BridgeIntents
  <1>5. /\ bridged' = TRUE /\ routes' = routes \ {<<r.leg, r.pending>>}
        /\ timers' = timers \ {<<"transfer", d>>}
        /\ started' = started /\ stopped' = stopped \cup {<<r.leg, r.pending>>}
    BY <1>1, <1>3, <1>4 DEF Emit, IInv, TypeOK
  <1>6. Validate' /\ version' \in 0 .. MaxVersion /\ updatedAt' \in Time
    BY DecideFacts DEF ReplacementDeadlineElapsed, IInv
  <1>7. /\ r.leg \in Leg /\ r.pending \in Generation
        /\ binding[r.leg] = r.previous /\ r.pending = Cursor(r.leg)
        /\ r.pending # binding[r.leg] /\ legState[r.leg] = "held"
        /\ callState = "transferring" /\ replacement = {r}
    <2>1. r \in Replacement
      BY <1>1 DEF IInv, TypeOK
    <2> QED
      BY <1>1, <2>1
         DEF IInv, Replacement, Validate, ValidReplacement, OneReplacement,
             Generation
  <1>8. TypeOK'
    <2>1. /\ legState' \in [Leg -> LegState]
          /\ due' \in [DeadlineKind -> Time \cup {0}]
      BY <1>1, <1>7
         DEF ReplacementDeadlineElapsed, IInv, TypeOK, Reported, LegState,
             Disarmed
    <2>2. /\ callState' \in CallState /\ outcome' \in Outcome
          /\ kind' \in [Leg -> Kind] /\ binding' \in [Leg -> Generation]
          /\ cursor' \in [Leg -> Generation \cup {0}]
          /\ deadline' \in [DeadlineKind -> 0 .. MaxDeadline]
          /\ replacement' \subseteq Replacement
      BY DEF ReplacementDeadlineElapsed, IInv, TypeOK, CallState
    <2>3. /\ bridged' \in BOOLEAN
          /\ routes' \subseteq (Leg \X Generation)
          /\ started' \subseteq (Leg \X Generation)
          /\ stopped' \subseteq (Leg \X Generation)
      BY <1>5, <1>7 DEF IInv, TypeOK
    <2> QED
      BY <1>6, <2>1, <2>2, <2>3 DEF TypeOK
  <1>9. OneReplacement' /\ BridgeMatchesCall' /\ PhasesAreBounded'
    BY <1>5 DEF ReplacementDeadlineElapsed, OneReplacement, BridgeMatchesCall,
                PhasesAreBounded
  <1>10. TimersMatchDeadlines'
    <2>1. {<<"transfer", d>>}
            = {<<x, deadline[x]>> : x \in {y \in {"transfer"} : due[y] # 0}}
      BY DEF ReplacementDeadlineElapsed, Elapsed
    <2> QED
      BY <1>5, <2>1, TimersDisarmed DEF ReplacementDeadlineElapsed, IInv
  <1>11. \A m \in Leg : legState'[m] \in Leaving <=> legState[m] \in Leaving
    BY <1>1, <1>7 DEF Reported, IInv, TypeOK, Leaving
  <1>12. RoutesMatchLegs'
    <2> DEFINE live == {m \in Leg : legState[m] \notin Leaving}
    <2>1. routes = {<<m, binding[m]>> : m \in live} \cup {<<r.leg, r.pending>>}
      BY <1>7 DEF IInv, RoutesMatchLegs, Leaving
    <2>2. routes' = {<<m, binding[m]>> : m \in live}
      BY <1>5, <1>7, <2>1
    <2>3. live = {m \in Leg : legState'[m] \notin Leaving}
      BY <1>11
    <2> QED
      BY <2>2, <2>3 DEF ReplacementDeadlineElapsed, RoutesMatchLegs, Leaving
  <1>13. GenerationsAreReserved'
    BY <1>5, <1>7
       DEF ReplacementDeadlineElapsed, IInv, GenerationsAreReserved, Generation,
           Cursor
  <1>14. LiveRoutesNotStopped'
    BY <1>5, <1>7, <1>11
       DEF ReplacementDeadlineElapsed, IInv, LiveRoutesNotStopped, Leaving
  <1> QED
    BY <1>6, <1>8, <1>9, <1>10, <1>12, <1>13, <1>14 DEF IInv

-----------------------------------------------------------------------------
(***************************************************************************)
(* The teardown.                                                           *)
(***************************************************************************)

\* The leg states and routes that a handler hands to the teardown: a leg whose
\* state it changed is leaving, and its current route is the one that is gone.
Handed(ls, gone) ==
    /\ ls \in [Leg -> LegState]
    /\ \A l \in Leg : ls[l] # legState[l] =>
           ls[l] \in Leaving /\ <<l, binding[l]>> \in gone
    /\ \A p \in gone : \E l \in Leg : p = <<l, binding[l]>> /\ ls[l] \in Leaving

\* What the intents of begin_ending_internal do to the executor.
EndingEffect(ls, t, gone, fired) ==
    LET P == {<<r.leg, r.pending>> : r \in replacement}
        Q == {<<l, binding[l]>> : l \in ToStop(ls)}
        C == {<<x, deadline[x]>> : x \in
                 {y \in BeforeEnding \ {f[1] : f \in fired} : due[y] # 0}}
        X == {<<x, deadline[x]>> : x \in {y \in {"ending"} : due[y] # 0}}
    IN  /\ bridged' = FALSE
        /\ Named(effects', StartEffects) = {}
        /\ Named(effects', StopEffects) = P \cup Q
        /\ routes' = routes \ (P \cup Q \cup gone)
        /\ started' = started
        /\ stopped' = stopped \cup P \cup Q
        /\ timers' = (timers \ (C \cup (IF t = 0 THEN {} ELSE X) \cup fired))
               \cup (IF t = 0 THEN {} ELSE {<<"ending", deadline["ending"] + 1>>})

\* begin_ending_internal has that effect.
LEMMA EndingLedger ==
    ASSUME IInv, NEW ls, NEW out, NEW t, NEW gone, NEW fired,
           BeginEndingInternal(ls, out, t, gone, fired)
    PROVE  EndingEffect(ls, t, gone, fired)
  <1> DEFINE live == BeforeEnding \ {f[1] : f \in fired}
             A == {Intent("AbortLegReplacement", r.leg, r.pending)
                     : r \in replacement}
             S == {Intent("StopLeg", l, binding[l]) : l \in ToStop(ls)}
             D == IF t = 0 THEN {} ELSE Cancels({"ending"}) \cup Schedules("ending")
             F == (UnbridgeRoute \cup A \cup Cancels(live) \cup S)
             E == F \cup D
  <1>1. Emit(E, gone, fired)
    BY DEF BeginEndingInternal
  <1>2. /\ Named(UnbridgeRoute, StartEffects) = {}
        /\ Named(UnbridgeRoute, StopEffects) = {}
        /\ Named(UnbridgeRoute, {"CancelDeadline"}) = {}
        /\ Named(UnbridgeRoute, {"ScheduleDeadline"}) = {}
        /\ Bridge \notin UnbridgeRoute
    BY BridgeIntents, NamedEmpty DEF UnbridgeRoute
  <1>3. /\ Named(A, StartEffects) = {}
        /\ Named(A, StopEffects) = {<<r.leg, r.pending>> : r \in replacement}
        /\ Named(A, {"CancelDeadline"}) = {}
        /\ Named(A, {"ScheduleDeadline"}) = {}
        /\ Bridge \notin A
    <2>1. Bridge \notin A
      BY IntentDistinct DEF Bridge
    <2> QED
      BY <2>1, NamedAborts DEF StartEffects, StopEffects
  <1>4. /\ Named(S, StartEffects) = {}
        /\ Named(S, StopEffects) = {<<l, binding[l]>> : l \in ToStop(ls)}
        /\ Named(S, {"CancelDeadline"}) = {}
        /\ Named(S, {"ScheduleDeadline"}) = {}
        /\ Bridge \notin S
    <2>1. Bridge \notin S
      BY IntentDistinct DEF Bridge
    <2> QED
      BY <2>1, NamedStops DEF StartEffects, StopEffects
  <1>5. /\ Named(D, StartEffects) = {} /\ Named(D, StopEffects) = {}
        /\ Named(D, {"CancelDeadline"})
             = IF t = 0 THEN {} ELSE {<<x, deadline[x]>> : x \in
                                         {y \in {"ending"} : due[y] # 0}}
        /\ Named(D, {"ScheduleDeadline"})
             = IF t = 0 THEN {} ELSE {<<"ending", deadline["ending"] + 1>>}
        /\ Bridge \notin D
    <2>1. CASE t = 0
      BY <2>1, NamedEmpty
    <2>2. CASE t # 0
      <3>1. D = Cancels({"ending"}) \cup Schedules("ending")
        BY <2>2
      <3>2. ASSUME NEW n
            PROVE  Named(D, n) = Named(Cancels({"ending"}), n)
                                   \cup Named(Schedules("ending"), n)
        BY <3>1, NamedUnion
      <3>3. Named(Cancels({"ending"}), {"CancelDeadline"})
              = {<<x, deadline[x]>> : x \in {y \in {"ending"} : due[y] # 0}}
        BY NamedCancels
      <3>4. Bridge \notin D
        BY <3>1, DeadlineIntents
      <3> HIDE DEF D
      <3> QED
        BY <2>2, <3>2, <3>3, <3>4, DeadlineIntents
    <2> QED
      BY <2>1, <2>2
  <1>6. Named(Cancels(live), {"CancelDeadline"})
          = {<<x, deadline[x]>> : x \in {y \in live : due[y] # 0}}
    BY NamedCancels
  <1>7. ASSUME NEW n
        PROVE  Named(E, n) = Named(UnbridgeRoute, n) \cup Named(A, n)
                 \cup Named(Cancels(live), n) \cup Named(S, n) \cup Named(D, n)
    <2> HIDE DEF A, S, D, live
    <2>1. Named(F, n) = Named(UnbridgeRoute, n) \cup Named(A, n)
                          \cup Named(Cancels(live), n) \cup Named(S, n)
      BY NamedUnion4
    <2> HIDE DEF F
    <2>2. Named(E, n) = Named(F, n) \cup Named(D, n)
      BY NamedUnion
    <2> QED
      BY <2>1, <2>2
  <1>8. /\ Named(E, StartEffects) = {}
        /\ Named(E, StopEffects) = {<<r.leg, r.pending>> : r \in replacement}
                                     \cup {<<l, binding[l]>> : l \in ToStop(ls)}
        /\ Named(E, {"CancelDeadline"})
             = {<<x, deadline[x]>> : x \in {y \in live : due[y] # 0}}
               \cup (IF t = 0 THEN {} ELSE
                     {<<x, deadline[x]>> : x \in {y \in {"ending"} : due[y] # 0}})
        /\ Named(E, {"ScheduleDeadline"})
             = IF t = 0 THEN {} ELSE {<<"ending", deadline["ending"] + 1>>}
    <2> HIDE DEF A, S, D, E, F, live
    <2> QED
      BY <1>2, <1>3, <1>4, <1>5, <1>6, <1>7, DeadlineIntents
  <1>9. Bridge \notin E /\ (callState \in {"active", "transferring"} => Unbridge \in E)
    <2>1. callState \in {"active", "transferring"} => Unbridge \in UnbridgeRoute
      BY DEF UnbridgeRoute
    <2> HIDE DEF A, S, D, live
    <2> QED
      BY <1>2, <1>3, <1>4, <1>5, <2>1, DeadlineIntents
  <1>10. bridged' = FALSE
    <2>1. bridged \in BOOLEAN /\ (bridged => callState \in {"active", "transferring"})
      BY DEF IInv, TypeOK, BridgeMatchesCall
    <2> HIDE DEF E
    <2> QED
      BY <1>1, <1>9, <2>1 DEF Emit
  <1> HIDE DEF E
  <1> QED
    BY <1>1, <1>8, <1>10 DEF Emit, EndingEffect

\* What fired names: at most the armed timer of a deadline before the teardown.
Firing(fired) ==
    \/ fired = {}
    \/ \E k \in BeforeEnding : due[k] # 0 /\ fired = {<<k, deadline[k]>>}

\* The timers after begin_ending_internal.
LEMMA EndingTimers ==
    ASSUME IInv, NEW ls, NEW out, NEW t, NEW gone, NEW fired, Firing(fired),
           BeginEndingInternal(ls, out, t, gone, fired)
    PROVE  TimersMatchDeadlines'
  <1> DEFINE live == BeforeEnding \ {f[1] : f \in fired}
             C == {<<x, deadline[x]>> : x \in {y \in live : due[y] # 0}}
             D == {<<x, deadline[x]>> : x \in {y \in BeforeEnding : due[y] # 0}}
  <1>1. C \cup fired = D
    <2>1. CASE fired = {}
      BY <2>1
    <2>2. CASE \E k \in BeforeEnding : due[k] # 0 /\ fired = {<<k, deadline[k]>>}
      <3>1. PICK k \in BeforeEnding : due[k] # 0 /\ fired = {<<k, deadline[k]>>}
        BY <2>2
      <3>2. live = BeforeEnding \ {k}
        BY <3>1
      <3> HIDE DEF live
      <3> QED
        BY <3>1, <3>2
    <2> QED
      BY <2>1, <2>2 DEF Firing
  <1> DEFINE X == {<<x, deadline[x]>> : x \in {y \in {"ending"} : due[y] # 0}}
  <1>0. timers' = (timers \ (C \cup (IF t = 0 THEN {} ELSE X) \cup fired))
                    \cup (IF t = 0 THEN {} ELSE {<<"ending", deadline["ending"] + 1>>})
    <2>1. EndingEffect(ls, t, gone, fired)
      BY EndingLedger
    <2> QED
      BY <2>1 DEF EndingEffect
  <1>2. \A k \in DeadlineKind : k \in BeforeEnding \/ k = "ending"
    BY DEF DeadlineKind, BeforeEnding
  <1>3. "ending" \in DeadlineKind /\ "ending" \notin BeforeEnding
    BY DEF DeadlineKind, BeforeEnding
  <1>4. /\ deadline \in [DeadlineKind -> 0 .. MaxDeadline]
        /\ timers = {<<k, deadline[k]>> : k \in {x \in DeadlineKind : due[x] # 0}}
    BY DEF IInv, TypeOK, TimersMatchDeadlines
  <1>5. CASE t = 0
    <2>1. timers' = timers \ D
      <3> HIDE DEF C, D, X
      <3> QED
        BY <1>0, <1>1, <1>5
    <2>2. deadline' = deadline /\ due' = Disarmed(BeforeEnding)
      BY <1>5 DEF BeginEndingInternal
    <2> QED
      BY <2>1, <2>2, TimersDisarmed DEF IInv
  <1>6. CASE t # 0
    <2>1. timers' = (timers \ (C \cup X \cup fired))
                      \cup {<<"ending", deadline["ending"] + 1>>}
      BY <1>0, <1>6
    <2>2. C \cup X \cup fired = D \cup X
      BY <1>1
    <2>3. D \cup X = timers
      BY <1>2, <1>3, <1>4 DEF BeforeEnding, DeadlineKind
    <2>4. timers' = {<<"ending", deadline["ending"] + 1>>}
      BY <2>1, <2>2, <2>3
    <2>5. /\ deadline' = [deadline EXCEPT !["ending"] = @ + 1]
          /\ due' = [Disarmed(BeforeEnding) EXCEPT !["ending"] = t]
      BY <1>6 DEF BeginEndingInternal
    <2>6. /\ deadline'["ending"] = deadline["ending"] + 1
          /\ \A k \in DeadlineKind : due'[k] = IF k = "ending" THEN t ELSE 0
      BY <1>2, <1>3, <1>4, <2>5 DEF Disarmed
    <2> QED
      BY <1>3, <1>6, <2>4, <2>6 DEF TimersMatchDeadlines
  <1> QED
    BY <1>5, <1>6

\* A step into the teardown preserves the invariant: every route is stopped,
\* aborted or gone, and no timer but that of the teardown is left.
LEMMA BeginEndingInternalStep ==
    ASSUME IInv, NEW ls, NEW out \in Terminal, NEW t \in Time \cup {0}, NEW gone,
           NEW fired, NEW at, Handed(ls, gone), Firing(fired),
           BeginEndingInternal(ls, out, t, gone, fired), Decide(at)
    PROVE  IInv'
  <1>1. Validate' /\ version' \in 0 .. MaxVersion /\ updatedAt' \in Time
    BY DecideFacts DEF IInv
  <1>2. /\ legState' = [l \in Leg |-> IF l \in ToStop(ls) THEN "ending" ELSE ls[l]]
        /\ outcome' = SelectOutcome(out)
        /\ callState' = "ending" /\ replacement' = {}
        /\ t # 0 => CanArm("ending")
        /\ deadline' = IF t = 0 THEN deadline
                       ELSE [deadline EXCEPT !["ending"] = @ + 1]
        /\ due' = IF t = 0 THEN Disarmed(BeforeEnding)
                  ELSE [Disarmed(BeforeEnding) EXCEPT !["ending"] = t]
        /\ UNCHANGED <<kind, binding, cursor>>
    BY DEF BeginEndingInternal
  <1> DEFINE P == {<<r.leg, r.pending>> : r \in replacement}
             Q == {<<l, binding[l]>> : l \in ToStop(ls)}
  <1>0. /\ routes' = routes \ (P \cup Q \cup gone)
        /\ started' = started
        /\ stopped' = stopped \cup P \cup Q
    <2>1. EndingEffect(ls, t, gone, fired)
      BY EndingLedger
    <2> QED
      BY <2>1 DEF EndingEffect
  <1>3. \A l \in Leg : legState'[l] \in Leaving
    BY <1>2 DEF ToStop, Leaving, Terminal
  <1>4. /\ \A r \in replacement : r.leg \in Leg /\ r.pending \in Generation
                                  /\ r.pending = Cursor(r.leg)
        /\ \A l \in Leg : binding[l] \in Generation /\ binding[l] <= Cursor(l)
    BY BoundAssumption
       DEF IInv, TypeOK, Replacement, Validate, ValidReplacement, Cursor,
           Generation
  <1>5. ToStop(ls) \subseteq Leg
    BY DEF ToStop
  <1>6. TypeOK'
    <2>1. /\ callState' \in CallState /\ outcome' \in Outcome
          /\ kind' \in [Leg -> Kind] /\ binding' \in [Leg -> Generation]
          /\ cursor' \in [Leg -> Generation \cup {0}]
          /\ replacement' \subseteq Replacement
      BY <1>2 DEF IInv, TypeOK, CallState, Outcome, SelectOutcome, Terminal
    <2>2. legState' \in [Leg -> LegState]
      BY <1>2 DEF Handed, LegState
    <2>3. deadline' \in [DeadlineKind -> 0 .. MaxDeadline]
      BY <1>2, BoundAssumption DEF IInv, TypeOK, CanArm, DeadlineKind
    <2>4. due' \in [DeadlineKind -> Time \cup {0}]
      BY <1>2 DEF IInv, TypeOK, Disarmed
    <2>5. bridged' \in BOOLEAN
      <3>1. EndingEffect(ls, t, gone, fired)
        BY EndingLedger
      <3> QED
        BY <3>1 DEF EndingEffect
    <2>6. /\ routes' \subseteq (Leg \X Generation)
          /\ started' \subseteq (Leg \X Generation)
          /\ stopped' \subseteq (Leg \X Generation)
      BY <1>0, <1>4, <1>5 DEF IInv, TypeOK
    <2> QED
      BY <1>1, <2>1, <2>2, <2>3, <2>4, <2>5, <2>6 DEF TypeOK
  <1>7. OneReplacement' /\ PhasesAreBounded'
    BY <1>2 DEF OneReplacement, PhasesAreBounded
  <1>8. BridgeMatchesCall'
    BY <1>2, EndingLedger DEF EndingEffect, BridgeMatchesCall
  <1>9. TimersMatchDeadlines'
    BY EndingTimers
  <1>10. RoutesMatchLegs'
    <2>1. \A l \in Leg : legState[l] \notin Leaving =>
              l \in ToStop(ls) \/ <<l, binding[l]>> \in gone
      BY DEF Handed, ToStop, Leaving, Terminal
    <2>2. routes' = {}
      BY <1>0, <2>1 DEF IInv, RoutesMatchLegs, Leaving
    <2> QED
      BY <1>2, <1>3, <2>2 DEF RoutesMatchLegs, Leaving
  <1>11. GenerationsAreReserved'
    <2>1. \A l \in Leg : Cursor(l)' = Cursor(l)
      BY <1>2 DEF Cursor
    <2>2. \A l \in Leg, g \in Generation :
              <<l, g>> \in started' \cup stopped' => g <= Cursor(l)
      BY <1>0, <1>4, <1>5 DEF IInv, GenerationsAreReserved, Generation
    <2> QED
      BY <1>2, <2>1, <2>2 DEF GenerationsAreReserved
  <1>12. LiveRoutesNotStopped'
    BY <1>2, <1>3 DEF LiveRoutesNotStopped, Leaving
  <1> QED
    BY <1>1, <1>6, <1>7, <1>8, <1>9, <1>10, <1>11, <1>12 DEF IInv

\* While the call is Ending the executor holds no route.
LEMMA EndingHoldsNothing ==
    ASSUME IInv, callState = "ending"
    PROVE  routes = {} /\ replacement = {} /\ bridged = FALSE /\ outcome \in Terminal
  <1>1. replacement = {} /\ outcome \in Terminal
    BY DEF IInv, Validate, ValidReplacement, ValidLegs, TypeOK, Outcome, Terminal
  <1>2. \A l \in Leg : legState[l] \in Leaving
    BY DEF IInv, Validate, ValidLegs, Leaving
  <1>3. routes = {}
    BY <1>1, <1>2 DEF IInv, RoutesMatchLegs, Leaving
  <1>4. bridged = FALSE
    BY DEF IInv, TypeOK, BridgeMatchesCall
  <1> QED
    BY <1>1, <1>3, <1>4

\* finalize_terminal in the teardown cancels what timers are left.
LEMMA FinalizeTerminalStep ==
    ASSUME IInv, callState = "ending",
           NEW ls \in [Leg -> Terminal], NEW out \in Terminal, NEW gone,
           NEW fired, NEW at,
           fired = {} \/ (due["ending"] # 0
                          /\ fired = {<<"ending", deadline["ending"]>>}),
           FinalizeTerminal(ls, out, gone, fired), Decide(at)
    PROVE  IInv'
  <1> DEFINE live == DeadlineKind \ {f[1] : f \in fired}
             E == Cancels(live)
             C == {<<x, deadline[x]>> : x \in {y \in live : due[y] # 0}}
  <1>1. Named(E, {"CancelDeadline"}) = C
    BY NamedCancels
  <1>2. C \cup fired
          = {<<x, deadline[x]>> : x \in {y \in DeadlineKind : due[y] # 0}}
    <2>1. CASE fired = {}
      BY <2>1
    <2>2. CASE due["ending"] # 0 /\ fired = {<<"ending", deadline["ending"]>>}
      <3>1. live = DeadlineKind \ {"ending"}
        BY <2>2
      <3> HIDE DEF live
      <3> QED
        BY <2>2, <3>1 DEF DeadlineKind
    <2> QED
      BY <2>1, <2>2
  <1>3. /\ routes = {} /\ replacement = {} /\ bridged = FALSE
    BY EndingHoldsNothing
  <1>4. /\ bridged' = FALSE /\ routes' = {}
        /\ timers' = timers \ {<<x, deadline[x]>> : x \in
                                  {y \in DeadlineKind : due[y] # 0}}
        /\ started' = started /\ stopped' = stopped
    <2>1. Emit(E, gone, fired)
      BY DEF FinalizeTerminal
    <2>2. /\ Named(E, StartEffects) = {} /\ Named(E, StopEffects) = {}
          /\ Named(E, {"ScheduleDeadline"}) = {}
          /\ Bridge \notin E
      BY DeadlineIntents
    <2> HIDE DEF E, C
    <2> QED
      BY <1>1, <1>2, <1>3, <2>1, <2>2 DEF Emit
  <1>5. Validate' /\ version' \in 0 .. MaxVersion /\ updatedAt' \in Time
    BY DecideFacts DEF IInv
  <1>6. /\ legState' = ls /\ callState' \in Terminal /\ outcome' \in Terminal
        /\ due' = Disarmed(DeadlineKind)
        /\ UNCHANGED <<kind, binding, cursor, deadline, replacement>>
    BY DEF FinalizeTerminal, Terminal
  <1>7. TypeOK'
    <2>1. callState' \in CallState /\ outcome' \in Outcome
          /\ legState' \in [Leg -> LegState]
      BY <1>6 DEF CallState, Outcome, LegState, Terminal
    <2>2. due' \in [DeadlineKind -> Time \cup {0}]
      BY <1>6 DEF Disarmed
    <2> QED
      BY <1>4, <1>5, <1>6, <2>1, <2>2 DEF IInv, TypeOK
  <1>8. OneReplacement' /\ PhasesAreBounded' /\ BridgeMatchesCall'
    BY <1>3, <1>4, <1>6 DEF OneReplacement, PhasesAreBounded, BridgeMatchesCall,
                            Terminal
  <1>9. TimersMatchDeadlines'
    BY <1>4, <1>6, TimersDisarmed DEF IInv
  <1>10. \A l \in Leg : legState'[l] \in Leaving
    BY <1>6 DEF Leaving, Terminal
  <1>11. RoutesMatchLegs' /\ LiveRoutesNotStopped'
    BY <1>3, <1>4, <1>6, <1>10 DEF RoutesMatchLegs, LiveRoutesNotStopped, Leaving
  <1>12. GenerationsAreReserved'
    BY <1>4, <1>6 DEF IInv, GenerationsAreReserved, Cursor, Terminal
  <1> QED
    BY <1>5, <1>7, <1>8, <1>9, <1>11, <1>12 DEF IInv

\* reconcile_leg_state while the call is Ending.
LEMMA EndingProgressStep ==
    ASSUME IInv, callState = "ending", NEW l \in Leg, NEW g,
           NEW st \in Leaving, NEW at,
           EndingProgress(l, g, Reported(l, st)), Decide(at)
    PROVE  IInv'
  <1> DEFINE ls == Reported(l, st)
             out == IF ls[l] = "failed" THEN "failed" ELSE outcome
  <1>1. routes = {} /\ replacement = {} /\ bridged = FALSE /\ outcome \in Terminal
    BY EndingHoldsNothing
  <1>2. ls \in [Leg -> LegState] /\ out \in Terminal
    BY <1>1 DEF Reported, IInv, TypeOK, LegState, Leaving, Terminal
  <1>3. CASE \A m \in Leg : ls[m] \in Terminal
    <2>1. FinalizeTerminal(ls, out, {<<l, g>>}, {})
      BY <1>3 DEF EndingProgress
    <2>2. ls \in [Leg -> Terminal]
      BY <1>2, <1>3
    <2> HIDE DEF ls, out
    <2> QED
      BY <1>2, <2>1, <2>2, FinalizeTerminalStep
  <1>4. CASE ~ \A m \in Leg : ls[m] \in Terminal
    <2>1. /\ legState' = ls /\ outcome' = out
          /\ Emit({}, {<<l, g>>}, {})
          /\ UNCHANGED <<callState, kind, binding, cursor, deadline, due,
                         replacement>>
      BY <1>4 DEF EndingProgress
    <2>2. /\ bridged' = FALSE /\ routes' = {} /\ timers' = timers
          /\ started' = started /\ stopped' = stopped
      BY <1>1, <2>1, NamedEmpty DEF Emit
    <2>3. Validate' /\ version' \in 0 .. MaxVersion /\ updatedAt' \in Time
      BY DecideFacts DEF IInv
    <2>4. TypeOK'
      <3>1. legState' \in [Leg -> LegState] /\ outcome' \in Outcome
        BY <1>2, <2>1 DEF Outcome, Terminal
      <3> QED
        BY <2>1, <2>2, <2>3, <3>1 DEF IInv, TypeOK
    <2>5. OneReplacement' /\ PhasesAreBounded' /\ BridgeMatchesCall'
          /\ TimersMatchDeadlines'
      BY <1>1, <2>1, <2>2 DEF IInv, OneReplacement, PhasesAreBounded,
                              BridgeMatchesCall, TimersMatchDeadlines
    <2>6. \A m \in Leg : legState'[m] \in Leaving
      BY <2>1 DEF Reported, IInv, TypeOK, Validate, ValidLegs, Leaving
    <2>7. RoutesMatchLegs' /\ LiveRoutesNotStopped'
      BY <1>1, <2>1, <2>2, <2>6 DEF RoutesMatchLegs, LiveRoutesNotStopped, Leaving
    <2>8. GenerationsAreReserved'
      BY <2>1, <2>2 DEF IInv, GenerationsAreReserved, Cursor
    <2> QED
      BY <2>3, <2>4, <2>5, <2>7, <2>8 DEF IInv
  <1> QED
    BY <1>3, <1>4

\* reconcile_leg_state for a leg that is ending, ended or failed.
LEMMA LegLeavesStep ==
    ASSUME IInv, NEW l \in Leg, NEW st \in Leaving, NEW at,
           LegLeaves(l, binding[l], Reported(l, st)), Decide(at)
    PROVE  IInv'
  <1>1. CASE callState = "ending"
    BY <1>1, EndingProgressStep DEF LegLeaves
  <1>2. CASE callState # "ending"
    <2> DEFINE ls == Reported(l, st)
               out == IF ls[l] = "failed" THEN "failed" ELSE "ended"
               gone == {<<l, binding[l]>>}
    <2>1. BeginEndingInternal(ls, out, 0, gone, {})
      BY <1>2 DEF LegLeaves
    <2>2. out \in Terminal
      BY DEF Terminal
    <2>3. Handed(ls, gone)
      BY DEF Handed, Reported, IInv, TypeOK, Leaving, LegState
    <2>4. Firing({})
      BY DEF Firing
    <2> HIDE DEF ls, out, gone
    <2> QED
      BY <2>1, <2>2, <2>3, <2>4, BeginEndingInternalStep
  <1> QED
    BY <1>1, <1>2

\* SetLegState(Ending | Ended | Failed) and SourceTerminatedBeforeAnswer.
LEMMA LegEndStep ==
    ASSUME IInv, NEW l \in Leg, NEW g, NEW st, NEW at,
           LegReportsEnd(l, g, st, at) \/ SourceTerminatedBeforeAnswer(l, g, st, at)
    PROVE  IInv'
  <1>1. /\ g = binding[l] /\ st \in Leaving
        /\ LegLeaves(l, g, Reported(l, st)) /\ Decide(at)
    BY DEF LegReportsEnd, SourceTerminatedBeforeAnswer, ReportAccepted, Leaving,
           Terminal
  <1> QED
    BY <1>1, LegLeavesStep

\* BeginEnding.
LEMMA BeginEndingStep ==
    ASSUME IInv, NEW t \in Time \cup {0}, NEW at, BeginEnding(t, at)
    PROVE  IInv'
  <1>1. BeginEndingInternal(legState, "ended", t, {}, {}) /\ Decide(at)
    BY DEF BeginEnding
  <1>2. Handed(legState, {}) /\ Firing({}) /\ "ended" \in Terminal
    BY DEF Handed, Firing, IInv, TypeOK, Terminal
  <1> QED
    BY <1>1, <1>2, BeginEndingInternalStep

\* A setup, media or transfer deadline starts the teardown.
LEMMA DeadlineElapsedStep ==
    ASSUME IInv, NEW k \in BeforeEnding, NEW d, NEW t \in Time \cup {0}, NEW at,
           DeadlineElapsed(k, d, t, at)
    PROVE  IInv'
  <1>1. BeginEndingInternal(legState, "failed", t, {}, {<<k, d>>}) /\ Decide(at)
    BY DEF DeadlineElapsed
  <1>2. Firing({<<k, d>>})
    BY DEF DeadlineElapsed, Elapsed, Firing
  <1>3. Handed(legState, {}) /\ "failed" \in Terminal
    BY DEF Handed, IInv, TypeOK, Terminal
  <1> QED
    BY <1>1, <1>2, <1>3, BeginEndingInternalStep

\* The teardown deadline fails every leg that did not report its end.
LEMMA EndingDeadlineElapsedStep ==
    ASSUME IInv, NEW d, NEW at, EndingDeadlineElapsed(d, at)
    PROVE  IInv'
  <1> DEFINE ls == [l \in Leg |-> IF legState[l] \in Terminal THEN legState[l]
                                  ELSE "failed"]
  <1>1. /\ due["ending"] # 0 /\ d = deadline["ending"]
        /\ FinalizeTerminal(ls, "failed", {}, {<<"ending", d>>}) /\ Decide(at)
    BY DEF EndingDeadlineElapsed, Elapsed
  <1>2. callState = "ending"
    BY <1>1 DEF IInv, Validate, DeadlineAllowed, DeadlineKind
  <1>3. ls \in [Leg -> Terminal] /\ "failed" \in Terminal
    BY DEF Terminal
  <1> HIDE DEF ls
  <1> QED
    BY <1>1, <1>2, <1>3, FinalizeTerminalStep

\* Stuttering preserves the invariant.
LEMMA StutterStep ==
    ASSUME IInv, UNCHANGED vars
    PROVE  IInv'
  BY DEF vars, aggregate, ledger, IInv, TypeOK, Validate, ValidLegs,
         ValidReplacement, DeadlineAllowed, OneReplacement, BridgeMatchesCall,
         TimersMatchDeadlines, RoutesMatchLegs, PhasesAreBounded,
         GenerationsAreReserved, LiveRoutesNotStopped, Cursor

\* The initial states satisfy the invariant.
LEMMA InitIInv == Init => IInv
  <1> SUFFICES ASSUME Init PROVE IInv
    OBVIOUS
  <1>1. TypeOK
    <2>1. /\ 1 \in Generation
          /\ 0 \in 0 .. MaxDeadline /\ 0 \in 0 .. MaxVersion
      BY BoundAssumption DEF Generation
    <2>2. /\ callState \in CallState /\ legState \in [Leg -> LegState]
          /\ kind \in [Leg -> Kind] /\ outcome \in Outcome
      BY SemanticsAssumption DEF Init, CallState, LegState, Outcome
    <2>3. /\ binding \in [Leg -> Generation]
          /\ cursor \in [Leg -> Generation \cup {0}]
          /\ deadline \in [DeadlineKind -> 0 .. MaxDeadline]
          /\ due \in [DeadlineKind -> Time \cup {0}]
          /\ version \in 0 .. MaxVersion /\ updatedAt \in Time
      BY <2>1 DEF Init
    <2>4. /\ replacement \subseteq Replacement /\ bridged \in BOOLEAN
          /\ routes \subseteq (Leg \X Generation)
          /\ started \subseteq (Leg \X Generation)
          /\ stopped \subseteq (Leg \X Generation)
      BY DEF Init
    <2> QED
      BY <2>2, <2>3, <2>4 DEF TypeOK
  <1>2. Validate
    BY DEF Init, Validate, ValidLegs, ValidReplacement, Cursor, DeadlineKind
  <1>3. /\ OneReplacement /\ BridgeMatchesCall /\ TimersMatchDeadlines
        /\ PhasesAreBounded /\ LiveRoutesNotStopped
    BY DEF Init, OneReplacement, BridgeMatchesCall, TimersMatchDeadlines,
           PhasesAreBounded, LiveRoutesNotStopped
  <1>4. RoutesMatchLegs
    BY DEF Init, RoutesMatchLegs
  <1>5. GenerationsAreReserved
    BY DEF Init, GenerationsAreReserved
  <1> QED
    BY <1>1, <1>2, <1>3, <1>4, <1>5 DEF IInv

\* Every step preserves the invariant.
LEMMA NextIInv == IInv /\ [Next]_vars => IInv'
  <1> SUFFICES ASSUME IInv, [Next]_vars PROVE IInv'
    OBVIOUS
  <1>1. CASE UNCHANGED vars
    BY <1>1, StutterStep
  <1>2. ASSUME NEW at \in Time, NEW l \in Leg, NEW g \in Generation,
               LegReport(l, g, at)
        PROVE  IInv'
    BY <1>2, LegConnectsCallStep, LegAdvancesStep, LegEndStep, ProviderMediaStep
       DEF LegReport
  <1>3. ASSUME NEW at \in Time, Request(at)
        PROVE  IInv'
    BY <1>3, StartConnectingStep, RotateLegBindingStep, ArmDeadlineStep,
       BeginTransferStep, BeginLegReplacementStep, BeginEndingStep DEF Request
  <1>4. ASSUME NEW at \in Time, NEW d \in 0 .. MaxDeadline, Settle(d, at)
        PROVE  IInv'
    BY <1>4, FinishTransferStep, FinishLegReplacementStep DEF Settle
  <1>5. ASSUME NEW at \in Time, NEW d \in 0 .. MaxDeadline, Timeout(d, at)
        PROVE  IInv'
    BY <1>5, EndingDeadlineElapsedStep, ReplacementDeadlineElapsedStep,
       DeadlineElapsedStep DEF Timeout
  <1> QED
    BY <1>1, <1>2, <1>3, <1>4, <1>5 DEF Next

\* The inductive invariant holds in every reachable state.
THEOREM Invariance == Spec => []IInv
  BY InitIInv, NextIInv, PTL DEF Spec

\* Type correctness of the aggregate and the executor's ledger.
THEOREM TypeCorrect == Spec => []TypeOK
  <1>1. IInv => TypeOK
    BY DEF IInv
  <1> QED
    BY <1>1, Invariance, PTL

\* The executor holds the media route exactly while the call is active or
\* transferring without a replacement.
THEOREM BridgeCorrect == Spec => []BridgeMatchesCall
  <1>1. IInv => BridgeMatchesCall
    BY DEF IInv
  <1> QED
    BY <1>1, Invariance, PTL

\* The executor holds exactly the routes of the live legs and of a pending
\* replacement: no decision leaks or loses a route.
THEOREM RoutesCorrect == Spec => []RoutesMatchLegs
  <1>1. IInv => RoutesMatchLegs
    BY DEF IInv
  <1> QED
    BY <1>1, Invariance, PTL

\* The executor holds exactly the timers of the armed deadlines, and a setup
\* or a transfer always has one.
THEOREM DeadlinesCorrect == Spec => []DeadlinesHold
  <1>1. IInv => DeadlinesHold
    BY DEF IInv, DeadlinesHold
  <1> QED
    BY <1>1, Invariance, PTL

-----------------------------------------------------------------------------
(***************************************************************************)
(* What a decision starts and stops, and what it keeps.                    *)
(***************************************************************************)
Starting == Named(effects', StartEffects)
Stopping == Named(effects', StopEffects)

\* An applied command of a live call repeats no start and no stop, and a
\* failure that was selected stays.
Keeps ==
    /\ started \cap Starting = {} /\ stopped \cap Stopping = {}
    /\ callState \notin Terminal
    /\ outcome = "failed" => outcome' = "failed"

\* The outcome is selected with the teardown.
LEMMA NoOutcomeYet ==
    ASSUME IInv, callState \notin {"ending", "ended", "failed"}
    PROVE  callState \notin Terminal /\ outcome = "none"
  BY DEF IInv, Validate, Terminal

\* A step that starts and stops nothing before the teardown, or leaves the
\* outcome alone.
LEMMA PlainHistory ==
    ASSUME IInv, callState \notin Terminal, Starting = {}, Stopping = {},
           callState # "ending" \/ outcome' = outcome
    PROVE  Keeps
  BY NoOutcomeYet DEF Keeps, Terminal

\* A list of effects in parts starts and stops what its parts start and stop.
LEMMA PartsOfTwo ==
    ASSUME NEW A, NEW B, effects' = A \cup B
    PROVE  /\ Starting = Named(A, StartEffects) \cup Named(B, StartEffects)
           /\ Stopping = Named(A, StopEffects) \cup Named(B, StopEffects)
  <1>1. \A n : Named(A \cup B, n) = Named(A, n) \cup Named(B, n)
    BY NamedUnion
  <1> QED
    BY <1>1 DEF Starting, Stopping

\* The same of three parts.
LEMMA PartsOfThree ==
    ASSUME NEW A, NEW B, NEW C, effects' = A \cup B \cup C
    PROVE  /\ Starting = Named(A, StartEffects) \cup Named(B, StartEffects)
                             \cup Named(C, StartEffects)
           /\ Stopping = Named(A, StopEffects) \cup Named(B, StopEffects)
                             \cup Named(C, StopEffects)
  <1>1. \A n : Named(A \cup B \cup C, n) = Named(A, n) \cup Named(B, n) \cup Named(C, n)
    BY NamedUnion3
  <1> QED
    BY <1>1 DEF Starting, Stopping

\* The same of four parts.
LEMMA PartsOfFour ==
    ASSUME NEW A, NEW B, NEW C, NEW D, effects' = A \cup B \cup C \cup D
    PROVE  /\ Starting = Named(A, StartEffects) \cup Named(B, StartEffects)
                             \cup Named(C, StartEffects) \cup Named(D, StartEffects)
           /\ Stopping = Named(A, StopEffects) \cup Named(B, StopEffects)
                             \cup Named(C, StopEffects) \cup Named(D, StopEffects)
  <1>1. \A n : Named(A \cup B \cup C \cup D, n)
                 = Named(A, n) \cup Named(B, n) \cup Named(C, n) \cup Named(D, n)
    BY NamedUnion4
  <1> QED
    BY <1>1 DEF Starting, Stopping

\* A part that neither starts nor stops a route.
Inert(A) == Named(A, StartEffects) = {} /\ Named(A, StopEffects) = {}

\* Deadline and media intents neither start nor stop a route.
LEMMA InertIntents ==
    ASSUME NEW K, NEW k
    PROVE  Inert(Cancels(K)) /\ Inert(Schedules(k)) /\ Inert({Bridge}) /\ Inert({Unbridge})
  BY DeadlineIntents, BridgeIntents DEF Inert

\* Reports that advance a leg.
LEMMA AdvanceHistory ==
    ASSUME IInv, NEW l \in Leg, NEW g, NEW at,
           \/ LegConnectsCall(l, g, at) \/ ProviderMediaStarted(l, g, at)
           \/ ProviderMediaAttached(l, g, at) \/ \E s \in LegState : LegAdvances(l, g, s, at)
    PROVE  Starting = {} /\ Keeps
  <1>1. callState \notin Terminal /\ (callState # "ending" \/ outcome' = outcome)
    BY DEF LegConnectsCall, ProviderMediaStarted, ProviderMediaAttached, LegAdvances,
           ReportAccepted, Terminal
  <1>2. Starting = {} /\ Stopping = {}
    <2>1. CASE LegConnectsCall(l, g, at)
      <3>1. effects' = {Bridge} \cup Cancels({"setup"})
        BY <2>1 DEF LegConnectsCall, Emit
      <3>2. Inert({Bridge}) /\ Inert(Cancels({"setup"}))
        BY InertIntents
      <3> QED
        BY <3>1, <3>2, PartsOfTwo DEF Inert
    <2>2. CASE ProviderMediaStarted(l, g, at)
      <3>1. effects' = {Intent("ConnectProviderDestination", l, g)}
        BY <2>2 DEF ProviderMediaStarted, Emit
      <3> QED
        BY <3>1, NamedMiss DEF Starting, Stopping, StartEffects, StopEffects
    <2>3. CASE ProviderMediaAttached(l, g, at) \/ \E s \in LegState : LegAdvances(l, g, s, at)
      <3>1. effects' = {}
        BY <2>3 DEF ProviderMediaAttached, LegAdvances, Emit
      <3> QED
        BY <3>1, NamedEmpty DEF Starting, Stopping
    <2> QED
      BY <2>1, <2>2, <2>3
  <1> QED
    BY <1>1, <1>2, PlainHistory

\* Arming a deadline, and beginning and finishing a plain transfer.
LEMMA DeadlineHistory ==
    ASSUME IInv, NEW at, NEW t, NEW k, NEW d,
           ArmDeadline(k, t, at) \/ BeginTransfer(t, at) \/ FinishTransfer(d, at)
    PROVE  Starting = {} /\ Keeps
  <1>1. callState \notin Terminal /\ outcome' = outcome
    BY DEF ArmDeadline, BeginTransfer, FinishTransfer, DeadlineAllowed, Terminal
  <1>2. Starting = {} /\ Stopping = {}
    <2>1. CASE ArmDeadline(k, t, at)
      <3>1. effects' = Cancels({k}) \cup Schedules(k)
        BY <2>1 DEF ArmDeadline, Emit
      <3>2. Inert(Cancels({k})) /\ Inert(Schedules(k))
        BY InertIntents
      <3> QED
        BY <3>1, <3>2, PartsOfTwo DEF Inert
    <2>2. CASE BeginTransfer(t, at)
      <3> DEFINE X == {Intent("ExecuteTransfer", "call", deadline["transfer"] + 1)}
      <3>1. effects' = Cancels({"transfer"}) \cup Schedules("transfer") \cup X
        BY <2>2 DEF BeginTransfer, Emit
      <3>2. Inert(X)
        BY NamedMiss DEF Inert, StartEffects, StopEffects
      <3>3. Inert(Cancels({"transfer"})) /\ Inert(Schedules("transfer"))
        BY InertIntents
      <3> HIDE DEF X
      <3> QED
        BY <3>1, <3>2, <3>3, PartsOfThree DEF Inert
    <2>3. CASE FinishTransfer(d, at)
      <3>1. effects' = Cancels({"transfer"})
        BY <2>3 DEF FinishTransfer, Emit
      <3>2. Inert(Cancels({"transfer"}))
        BY InertIntents
      <3> QED
        BY <3>1, <3>2 DEF Inert, Starting, Stopping
    <2> QED
      BY <2>1, <2>2, <2>3
  <1> QED
    BY <1>1, <1>2, PlainHistory

\* What starts routes: the setup, a rotation and a replacement.
LEMMA StartHistory ==
    ASSUME IInv, NEW at, NEW t, NEW l \in Leg, NEW g \in Generation, NEW n,
           \/ StartConnecting(at, t) \/ RotateLegBinding(l, g, at)
           \/ BeginLegReplacement(l, n, t, at)
    PROVE  Keeps
  <1>1. callState \notin Terminal /\ outcome' = outcome
    BY DEF StartConnecting, RotateLegBinding, BeginLegReplacement, Terminal
  <1>2. CASE StartConnecting(at, t)
    <2> DEFINE S == {Intent(IF Initiator[m] = "remote" THEN "AwaitLegAttachment"
                            ELSE "StartLeg", m, binding[m]) : m \in Leg}
    <2>1. effects' = S \cup Cancels({"setup"}) \cup Schedules("setup")
      BY <1>2 DEF StartConnecting, Emit
    <2>2. Named(S, StopEffects) = {}
      <3>1. \A e \in S : e.effect \notin StopEffects
        BY IntentFields DEF StopEffects
      <3> QED
        BY <3>1 DEF Named
    <2>3. started = {}
      BY <1>2 DEF StartConnecting, IInv, GenerationsAreReserved
    <2> HIDE DEF S
    <2>4. Stopping = {}
      <3>1. Inert(Cancels({"setup"})) /\ Inert(Schedules("setup"))
        BY InertIntents
      <3> QED
        BY <2>1, <2>2, <3>1, PartsOfThree DEF Inert
    <2> QED
      BY <1>1, <2>3, <2>4 DEF Keeps
  <1>3. CASE RotateLegBinding(l, g, at)
    <2>1. effects' = {Intent("AwaitLegAttachment", l, binding[l] + 1)}
      BY <1>3 DEF RotateLegBinding, Emit
    <2>2. Starting = {<<l, binding[l] + 1>>} /\ Stopping = {}
      BY <2>1, StartIntent DEF Starting, Stopping, StartEffects
    <2>3. binding[l] \in Nat /\ binding[l] + 1 \in Generation /\ Cursor(l) = binding[l]
      BY <1>3, BoundAssumption
         DEF RotateLegBinding, IInv, TypeOK, GenerationsAreReserved, Cursor, Generation
    <2>4. <<l, binding[l] + 1>> \notin started
      BY <2>3 DEF IInv, GenerationsAreReserved
    <2> QED
      BY <1>1, <2>2, <2>4 DEF Keeps
  <1>4. CASE BeginLegReplacement(l, n, t, at)
    <2> DEFINE S == {Intent("StartLegReplacement", l, NextGeneration(l))}
    <2>1. effects' = {Unbridge} \cup Cancels({"transfer"}) \cup Schedules("transfer") \cup S
      BY <1>4 DEF BeginLegReplacement, Emit
    <2>2. Named(S, StartEffects) = {<<l, NextGeneration(l)>>} /\ Named(S, StopEffects) = {}
      BY StartIntent DEF StartEffects
    <2> HIDE DEF S
    <2>3. Starting = {<<l, NextGeneration(l)>>} /\ Stopping = {}
      <3> DEFINE U == {Unbridge}
                 C == Cancels({"transfer"})
                 D == Schedules("transfer")
      <3>1. Inert(U) /\ Inert(C) /\ Inert(D)
        BY InertIntents
      <3>2. effects' = U \cup C \cup D \cup S
        BY <2>1
      <3> HIDE DEF U, C, D
      <3>3. /\ Starting = Named(U, StartEffects) \cup Named(C, StartEffects)
                             \cup Named(D, StartEffects) \cup Named(S, StartEffects)
            /\ Stopping = Named(U, StopEffects) \cup Named(C, StopEffects)
                             \cup Named(D, StopEffects) \cup Named(S, StopEffects)
        BY <3>2, PartsOfFour
      <3> QED
        BY <2>2, <3>1, <3>3 DEF Inert
    <2>4. Cursor(l) \in Nat /\ NextGeneration(l) = Cursor(l) + 1
          /\ NextGeneration(l) \in Generation
      BY <1>4, BoundAssumption
         DEF BeginLegReplacement, IInv, TypeOK, NextGeneration, Cursor, Generation
    <2>5. <<l, NextGeneration(l)>> \notin started
      BY <2>4 DEF IInv, GenerationsAreReserved
    <2> QED
      BY <1>1, <2>3, <2>5 DEF Keeps
  <1> QED
    BY <1>2, <1>3, <1>4

\* The end of a replacement, promoted, rejected or timed out.
LEMMA ReplacementHistory ==
    ASSUME IInv, NEW at, NEW d, NEW g, NEW connected \in BOOLEAN,
           FinishLegReplacement(d, g, connected, at) \/ ReplacementDeadlineElapsed(d, at)
    PROVE  Starting = {} /\ Keeps
  <1>1. callState \notin Terminal /\ outcome' = outcome
    <2>1. CASE FinishLegReplacement(d, g, connected, at)
      BY <2>1 DEF FinishLegReplacement, Terminal
    <2>2. CASE ReplacementDeadlineElapsed(d, at)
      BY <2>2 DEF ReplacementDeadlineElapsed, IInv, Validate, ValidReplacement, Terminal
    <2> QED
      BY <2>1, <2>2
  <1>2. ASSUME NEW r \in replacement
        PROVE  <<r.leg, r.pending>> \notin stopped /\ <<r.leg, r.previous>> \notin stopped
    <2>1. r.leg \in Leg /\ legState[r.leg] = "held" /\ binding[r.leg] = r.previous
      BY DEF IInv, TypeOK, Replacement, Validate, ValidReplacement
    <2> QED
      BY <2>1 DEF IInv, LiveRoutesNotStopped
  <1>3. CASE FinishLegReplacement(d, g, connected, at)
    <2>1. PICK r \in replacement :
              effects' = Cancels({"transfer"}) \cup {Bridge}
                  \cup {IF connected THEN Intent("StopLeg", r.leg, r.previous)
                        ELSE Intent("AbortLegReplacement", r.leg, r.pending)}
      BY <1>3 DEF FinishLegReplacement, Emit
    <2> DEFINE S == {IF connected THEN Intent("StopLeg", r.leg, r.previous)
                     ELSE Intent("AbortLegReplacement", r.leg, r.pending)}
    <2>2. /\ Named(S, StartEffects) = {}
          /\ Named(S, StopEffects) \subseteq {<<r.leg, r.previous>>, <<r.leg, r.pending>>}
      <3>1. CASE connected
        <4>1. S = {Intent("StopLeg", r.leg, r.previous)}
          BY <3>1
        <4>2. "StopLeg" \in StopEffects
          BY DEF StopEffects
        <4>3. /\ Named({Intent("StopLeg", r.leg, r.previous)}, StartEffects) = {}
              /\ Named({Intent("StopLeg", r.leg, r.previous)}, StopEffects)
                   = {<<r.leg, r.previous>>}
          BY <4>2, StopIntent
        <4> HIDE DEF S
        <4> QED
          BY <4>1, <4>3
      <3>2. CASE ~connected
        <4>1. S = {Intent("AbortLegReplacement", r.leg, r.pending)}
          BY <3>2
        <4>2. "AbortLegReplacement" \in StopEffects
          BY DEF StopEffects
        <4>3. /\ Named({Intent("AbortLegReplacement", r.leg, r.pending)}, StartEffects) = {}
              /\ Named({Intent("AbortLegReplacement", r.leg, r.pending)}, StopEffects)
                   = {<<r.leg, r.pending>>}
          BY <4>2, StopIntent
        <4> HIDE DEF S
        <4> QED
          BY <4>1, <4>3
      <3> QED
        BY <3>1, <3>2
    <2> HIDE DEF S
    <2>3. effects' = Cancels({"transfer"}) \cup {Bridge} \cup S
      BY <2>1 DEF S
    <2>4. Starting = {} /\ Stopping \subseteq {<<r.leg, r.previous>>, <<r.leg, r.pending>>}
      <3>1. Inert(Cancels({"transfer"})) /\ Inert({Bridge})
        BY InertIntents
      <3> QED
        BY <2>2, <2>3, <3>1, PartsOfThree DEF Inert
    <2> QED
      BY <1>1, <1>2, <2>4 DEF Keeps
  <1>4. CASE ReplacementDeadlineElapsed(d, at)
    <2>1. PICK r \in replacement :
              effects' = {Intent("AbortLegReplacement", r.leg, r.pending), Bridge}
      BY <1>4 DEF ReplacementDeadlineElapsed, Emit
    <2> DEFINE S == {Intent("AbortLegReplacement", r.leg, r.pending)}
    <2>2. Named(S, StartEffects) = {} /\ Named(S, StopEffects) = {<<r.leg, r.pending>>}
      BY StopIntent DEF StopEffects
    <2>3. effects' = S \cup {Bridge}
      BY <2>1
    <2> HIDE DEF S
    <2>4. Starting = {} /\ Stopping = {<<r.leg, r.pending>>}
      <3>1. Inert({Bridge})
        BY InertIntents
      <3> QED
        BY <2>2, <2>3, <3>1, PartsOfTwo DEF Inert
    <2> QED
      BY <1>1, <1>2, <2>4 DEF Keeps
  <1> QED
    BY <1>3, <1>4

\* begin_ending_internal stops live routes only.
LEMMA EndingHistory ==
    ASSUME IInv, NEW ls, NEW out, NEW t, NEW gone, NEW fired, callState \notin Terminal,
           \A l \in Leg : ls[l] # legState[l] => ls[l] \in Leaving,
           BeginEndingInternal(ls, out, t, gone, fired)
    PROVE  Starting = {} /\ Keeps
  <1>1. /\ Starting = {}
        /\ Stopping = {<<r.leg, r.pending>> : r \in replacement}
                        \cup {<<l, binding[l]>> : l \in ToStop(ls)}
    BY EndingLedger DEF EndingEffect, Starting, Stopping
  <1>2. \A l \in ToStop(ls) : l \in Leg /\ legState[l] \notin {"ending", "ended", "failed"}
    BY DEF ToStop, Leaving, Terminal
  <1>3. stopped \cap Stopping = {}
    BY <1>1, <1>2 DEF IInv, LiveRoutesNotStopped
  <1>4. outcome = "failed" => outcome' = "failed"
    BY DEF BeginEndingInternal, SelectOutcome
  <1> QED
    BY <1>1, <1>3, <1>4 DEF Keeps

\* finalize_terminal only cancels timers.
LEMMA FinalHistory ==
    ASSUME IInv, NEW ls, NEW out, NEW gone, NEW fired, callState \notin Terminal,
           outcome = "failed" => out = "failed", FinalizeTerminal(ls, out, gone, fired)
    PROVE  Starting = {} /\ Keeps
  <1>1. effects' = Cancels(DeadlineKind \ {f[1] : f \in fired})
    BY DEF FinalizeTerminal, Emit
  <1>2. Starting = {} /\ Stopping = {}
    BY <1>1, DeadlineIntents DEF Starting, Stopping
  <1>3. outcome = "failed" => outcome' = "failed"
    BY DEF FinalizeTerminal
  <1> QED
    BY <1>2, <1>3 DEF Keeps

\* Legs that end, requests to end and deadlines that fail the call.
LEMMA LeavingHistory ==
    ASSUME IInv, NEW l \in Leg, NEW g, NEW s, NEW at,
           LegReportsEnd(l, g, s, at) \/ SourceTerminatedBeforeAnswer(l, g, s, at)
    PROVE  Starting = {} /\ Keeps
  <1> DEFINE ls == Reported(l, s)
  <1>1. callState \notin Terminal /\ s \in Leaving /\ LegLeaves(l, g, ls)
    BY DEF LegReportsEnd, SourceTerminatedBeforeAnswer, ReportAccepted, Leaving, Terminal
  <1>2. \A m \in Leg : ls[m] # legState[m] => ls[m] \in Leaving
    BY <1>1 DEF Reported, IInv, TypeOK
  <1> HIDE DEF ls
  <1>3. CASE callState = "ending"
    <2>1. EndingProgress(l, g, ls)
      BY <1>1, <1>3 DEF LegLeaves
    <2> DEFINE out == IF ls[l] = "failed" THEN "failed" ELSE outcome
    <2>2. outcome = "failed" => out = "failed"
      OBVIOUS
    <2>3. CASE FinalizeTerminal(ls, out, {<<l, g>>}, {})
      <3> HIDE DEF out
      <3> QED
        BY <1>1, <2>2, <2>3, FinalHistory
    <2>4. CASE outcome' = out /\ Emit({}, {<<l, g>>}, {})
      <3>1. effects' = {}
        BY <2>4 DEF Emit
      <3>2. Starting = {} /\ Stopping = {}
        BY <3>1, NamedEmpty DEF Starting, Stopping
      <3> QED
        BY <1>1, <2>2, <2>4, <3>2 DEF Keeps
    <2> QED
      BY <2>1, <2>3, <2>4 DEF EndingProgress
  <1>4. CASE callState # "ending"
    <2>1. BeginEndingInternal(ls, IF ls[l] = "failed" THEN "failed" ELSE "ended",
                              0, {<<l, g>>}, {})
      BY <1>1, <1>4 DEF LegLeaves
    <2> QED
      BY <1>1, <1>2, <2>1, EndingHistory
  <1> QED
    BY <1>3, <1>4

\* Requests to end the call and the deadlines that end it.
LEMMA TeardownHistory ==
    ASSUME IInv, NEW t, NEW k, NEW d, NEW at,
           \/ BeginEnding(t, at) \/ DeadlineElapsed(k, d, t, at) \/ EndingDeadlineElapsed(d, at)
    PROVE  Starting = {} /\ Keeps
  <1>1. CASE BeginEnding(t, at)
    <2>1. callState \notin Terminal /\ BeginEndingInternal(legState, "ended", t, {}, {})
      BY <1>1 DEF BeginEnding
    <2> QED
      BY <2>1, EndingHistory
  <1>2. CASE DeadlineElapsed(k, d, t, at)
    <2>1. due[k] # 0 /\ k \in DeadlineKind
          /\ BeginEndingInternal(legState, "failed", t, {}, {<<k, d>>})
      BY <1>2 DEF DeadlineElapsed, Elapsed, BeforeEnding, DeadlineKind
    <2>2. callState \notin Terminal
      BY <2>1 DEF IInv, Validate, DeadlineAllowed, Terminal
    <2> QED
      BY <2>1, <2>2, EndingHistory
  <1>3. CASE EndingDeadlineElapsed(d, at)
    <2> DEFINE ls == [l \in Leg |-> IF legState[l] \in Terminal THEN legState[l] ELSE "failed"]
    <2>1. due["ending"] # 0 /\ FinalizeTerminal(ls, "failed", {}, {<<"ending", d>>})
      BY <1>3 DEF EndingDeadlineElapsed, Elapsed
    <2>2. callState \notin Terminal
      BY <2>1 DEF IInv, Validate, DeadlineAllowed, Terminal, DeadlineKind
    <2> HIDE DEF ls
    <2> QED
      BY <2>1, <2>2, FinalHistory
  <1> QED
    BY <1>1, <1>2, <1>3

\* Every decision keeps history.
LEMMA NextHistory ==
    ASSUME IInv, Next
    PROVE  Keeps
  <1>1. ASSUME NEW at \in Time, NEW l \in Leg, NEW g \in Generation, LegReport(l, g, at)
        PROVE  Keeps
    BY <1>1, AdvanceHistory, LeavingHistory DEF LegReport
  <1>2. ASSUME NEW at \in Time, Request(at)
        PROVE  Keeps
    <2>1. ASSUME NEW t \in Time, StartConnecting(at, t)
          PROVE  Keeps
      <3>1. PICK l \in Leg : TRUE
        BY LegAssumption
      <3>2. 1 \in Generation
        BY BoundAssumption DEF Generation
      <3> QED
        BY <2>1, <3>1, <3>2, StartHistory
    <2>2. ASSUME NEW l \in Leg, NEW g \in Generation, RotateLegBinding(l, g, at)
          PROVE  Keeps
      BY <2>2, StartHistory
    <2>3. ASSUME NEW l \in Leg, NEW n \in Kind, NEW t \in Time, BeginLegReplacement(l, n, t, at)
          PROVE  Keeps
      <3>1. 1 \in Generation
        BY BoundAssumption DEF Generation
      <3> QED
        BY <2>3, <3>1, StartHistory
    <2>4. ASSUME NEW k \in DeadlineKind, NEW t \in Time, ArmDeadline(k, t, at) \/ BeginTransfer(t, at)
          PROVE  Keeps
      BY <2>4, DeadlineHistory
    <2>5. ASSUME NEW t \in Time \cup {0}, BeginEnding(t, at)
          PROVE  Keeps
      BY <2>5, TeardownHistory
    <2>6. "setup" \in DeadlineKind
      BY DEF DeadlineKind
    <2> QED
      BY <1>2, <2>1, <2>2, <2>3, <2>4, <2>5, <2>6 DEF Request
  <1>3. ASSUME NEW at \in Time, NEW d \in 0 .. MaxDeadline, Settle(d, at)
        PROVE  Keeps
    BY <1>3, DeadlineHistory, ReplacementHistory DEF Settle
  <1>4. ASSUME NEW at \in Time, NEW d \in 0 .. MaxDeadline, Timeout(d, at)
        PROVE  Keeps
    BY <1>4, TeardownHistory, ReplacementHistory DEF Timeout
  <1> QED
    BY <1>1, <1>2, <1>3, <1>4 DEF Next

\* No decision repeats history: no generation of a route is started twice, no
\* route is told to stop twice, a terminal call never changes and a failed
\* outcome is never replaced.
THEOREM HistoryCorrect == Spec => HistoryIsKept
  <1>1. IInv /\ [Next]_vars =>
            [started \cap Named(effects', StartEffects) = {}]_vars
    BY NextHistory DEF Keeps, Starting
  <1>2. IInv /\ [Next]_vars =>
            [stopped \cap Named(effects', StopEffects) = {}]_vars
    BY NextHistory DEF Keeps, Stopping
  <1>3. IInv /\ [Next]_vars =>
            [/\ callState \in Terminal => UNCHANGED aggregate
             /\ outcome = "failed" => outcome' = "failed"]_vars
    BY NextHistory DEF Keeps
  <1>4. Spec => GenerationsAreFresh
    BY <1>1, Invariance, PTL DEF Spec, GenerationsAreFresh
  <1>5. Spec => StopsAreUnique
    BY <1>2, Invariance, PTL DEF Spec, StopsAreUnique
  <1>6. Spec => OutcomeIsSticky
    BY <1>3, Invariance, PTL DEF Spec, OutcomeIsSticky
  <1> QED
    BY <1>4, <1>5, <1>6 DEF HistoryIsKept

-----------------------------------------------------------------------------
(***************************************************************************)
(* Second part: the connection tables, the rows and the load.              *)
(***************************************************************************)

-----------------------------------------------------------------------------
(***************************************************************************)
(* The inductive invariant.                                                *)
(***************************************************************************)
TablesTyped ==
    /\ fence \in Fence /\ lease \in Fence
    /\ attachment \in [Key -> Attachment]
    /\ candidate \in [Leg -> Candidate]
    /\ bindings \subseteq Link /\ owners \subseteq Link
    /\ control \in [Key -> Seq(Control)]

\* What inspect_attachment found still holds while the version it read is
\* the call's: consume_attachment, which compares the two, trusts it.
CandidatesHold ==
    \A l \in Leg : candidate[l].generation # 0 =>
        /\ candidate[l].version <= version
        /\ candidate[l].version = version => Attachable(l, candidate[l].generation)

\* A route has one owner.
RoutesHaveOneOwner == \A o1, o2 \in owners : KeyOf(o1) = KeyOf(o2) => o1 = o2

\* An owner that is not bound came with the provider attachment of the pending
\* generation, the kind retire_inactive_bindings gives back.
Parallel(o) ==
    /\ attachment[KeyOf(o)].purpose = "provider"
    /\ \E r \in replacement : KeyOf(o) = <<r.leg, r.pending>> /\ r.kind = "telnyx"

ParallelOwners == \A o \in owners \ bindings : Parallel(o)

\* The kind of a leg changes with a promotion only.
KindsAtFirst == callState \in {"pending", "connecting"} => kind = InitialKind

BInv ==
    /\ IInv
    /\ TablesTyped
    /\ TablesAgree
    /\ CandidatesHold
    /\ RoutesHaveOneOwner
    /\ ParallelOwners
    /\ KindsAtFirst

-----------------------------------------------------------------------------
(***************************************************************************)
(* What a decision does to the parts of the aggregate the tables follow.   *)
(***************************************************************************)
SetupState == {"pending", "connecting"}

\* The states in which a leg's connection is heard.
Heard == {"signaling", "connected", "held"}

\* A decision that promotes no replacement, where X are the legs it may have
\* brought to signaling.
Steady(X) ==
    /\ version' = version + 1
    /\ kind' = kind
    /\ callState' \in SetupState => callState \in SetupState
    /\ replacement # {} =>
           Starting = {} /\ binding' = binding /\ replacement' \subseteq replacement
    /\ \A l \in Leg \ X : legState'[l] \in Heard =>
           legState[l] \in Heard /\ binding'[l] = binding[l]

\* A replacement belongs to a transferring call.
LEMMA NoReplacementElsewhere ==
    ASSUME IInv, callState # "transferring"
    PROVE  replacement = {}
  BY DEF IInv, Validate, ValidReplacement

\* A leg that is pending, or whose attachment is awaited, is one of a setup.
LEMMA EarlyLegs ==
    ASSUME IInv, NEW l \in Leg, legState[l] \in {"pending", "awaiting_attach"}
    PROVE  callState \in SetupState
  BY DEF IInv, TypeOK, CallState, Validate, ValidLegs, SetupState, Terminal

\* Reports that advance a leg.
LEMMA AdvanceSteady ==
    ASSUME IInv, NEW l \in Leg, NEW g, NEW at, NEW s \in LegState,
           \/ LegConnectsCall(l, g, at) \/ LegAdvances(l, g, s, at)
           \/ ProviderMediaStarted(l, g, at) \/ ProviderMediaAttached(l, g, at)
    PROVE  Steady({l})
  <1>1. Starting = {}
    BY AdvanceHistory
  <1>2. /\ version' = version + 1 /\ kind' = kind /\ binding' = binding
        /\ replacement' = replacement
        /\ callState' \in SetupState => callState \in SetupState
    BY DEF LegConnectsCall, LegAdvances, ProviderMediaStarted, ProviderMediaAttached,
           Decide, SetupState
  <1>3. \A m \in Leg \ {l} : legState'[m] = legState[m]
    BY DEF LegConnectsCall, LegAdvances, ProviderMediaStarted, ProviderMediaAttached,
           Reported, ProviderSignaling, IInv, TypeOK
  <1> QED
    BY <1>1, <1>2, <1>3 DEF Steady

\* A leg that connects was signaling or held, and a leg that is held was
\* connected: only the first signal brings a leg to be heard.
LEMMA HeardAlready ==
    ASSUME IInv, NEW l \in Leg, NEW g, NEW at, NEW s \in LegState,
           LegConnectsCall(l, g, at) \/ (LegAdvances(l, g, s, at) /\ s # "signaling"),
           legState'[l] \in Heard
    PROVE  legState[l] \in Heard
  <1>1. CASE LegConnectsCall(l, g, at)
    BY <1>1 DEF LegConnectsCall, ReportAccepted, ValidLegTransition, Heard
  <1>2. CASE LegAdvances(l, g, s, at) /\ s # "signaling"
    <2>1. legState'[l] = s /\ s \in {"connected", "held"}
      BY <1>2 DEF LegAdvances, Reported, IInv, TypeOK, Heard
    <2> QED
      BY <1>2, <2>1 DEF LegAdvances, ReportAccepted, ValidLegTransition, Heard
  <1> QED
    BY <1>1, <1>2

\* begin_ending_internal leaves no leg that is heard.
LEMMA EndingSteady ==
    ASSUME IInv, NEW ls, NEW out, NEW t, NEW gone, NEW fired, NEW at,
           \A l \in Leg : ls[l] \in LegState, Starting = {},
           BeginEndingInternal(ls, out, t, gone, fired), Decide(at)
    PROVE  Steady({})
  <1>1. \A l \in Leg : legState'[l] \notin Heard
    BY DEF BeginEndingInternal, ToStop, Heard, Terminal, LegState
  <1>2. /\ version' = version + 1 /\ kind' = kind /\ binding' = binding
        /\ replacement' = {} /\ callState' = "ending"
    BY DEF BeginEndingInternal, Decide
  <1> QED
    BY <1>1, <1>2 DEF Steady, SetupState

\* Reports that end a leg.
LEMMA LeavingSteady ==
    ASSUME IInv, NEW l \in Leg, NEW g, NEW s \in LegState, NEW at,
           LegReportsEnd(l, g, s, at) \/ SourceTerminatedBeforeAnswer(l, g, s, at)
    PROVE  Steady({})
  <1> DEFINE ls == Reported(l, s)
  <1>1. Decide(at) /\ LegLeaves(l, g, ls) /\ Starting = {} /\ s \in Leaving
    BY LeavingHistory DEF LegReportsEnd, SourceTerminatedBeforeAnswer, Leaving, Terminal
  <1>2. \A m \in Leg : ls[m] \in LegState /\ (ls[m] \in Heard => legState[m] \in Heard)
    BY <1>1 DEF Reported, IInv, TypeOK, Leaving, Heard
  <1> HIDE DEF ls
  <1>3. CASE callState = "ending"
    <2>1. /\ legState' = ls /\ kind' = kind /\ binding' = binding
          /\ replacement' = replacement /\ callState' \notin SetupState
      <3>1. CASE \A m \in Leg : ls[m] \in Terminal
        BY <1>1, <1>3, <3>1 DEF LegLeaves, EndingProgress, FinalizeTerminal, SetupState, IInv,
           Validate, ValidLegs, TypeOK, Outcome
      <3>2. CASE ~\A m \in Leg : ls[m] \in Terminal
        BY <1>1, <1>3, <3>2 DEF LegLeaves, EndingProgress, SetupState
      <3> QED
        BY <3>1, <3>2
    <2> QED
      BY <1>1, <1>2, <2>1 DEF Steady, Decide
  <1>4. CASE callState # "ending"
    BY <1>1, <1>2, <1>4, EndingSteady DEF LegLeaves
  <1> QED
    BY <1>3, <1>4

\* The other requests and the deadlines.
LEMMA RequestSteady ==
    ASSUME IInv, NEW at \in Time, Request(at)
    PROVE  Steady({})
  <1>1. ASSUME NEW t \in Time, StartConnecting(at, t)
        PROVE  Steady({})
    <2>1. /\ version' = version + 1 /\ kind' = kind /\ callState = "pending"
          /\ \A l \in Leg : legState'[l] \in {"awaiting_attach", legState[l]}
      BY <1>1 DEF StartConnecting, Decide
    <2>2. \A l \in Leg : legState[l] = "pending"
      BY <2>1 DEF IInv, Validate, ValidLegs
    <2>3. replacement = {}
      BY <2>1, NoReplacementElsewhere
    <2> QED
      BY <2>1, <2>2, <2>3 DEF Steady, SetupState, Heard
  <1>2. ASSUME NEW l \in Leg, NEW g \in Generation, RotateLegBinding(l, g, at)
        PROVE  Steady({})
    <2>1. /\ version' = version + 1 /\ kind' = kind /\ callState = "connecting"
          /\ legState' = [legState EXCEPT ![l] = "awaiting_attach"]
          /\ binding' = [binding EXCEPT ![l] = @ + 1]
      BY <1>2 DEF RotateLegBinding, Decide, Reported
    <2>2. legState'[l] = "awaiting_attach"
          /\ \A m \in Leg \ {l} : legState'[m] = legState[m] /\ binding'[m] = binding[m]
      BY <2>1 DEF IInv, TypeOK
    <2>3. replacement = {}
      BY <2>1, NoReplacementElsewhere
    <2> QED
      BY <2>1, <2>2, <2>3 DEF Steady, SetupState, Heard
  <1>3. ASSUME NEW l \in Leg, NEW n \in Kind, NEW t \in Time, BeginLegReplacement(l, n, t, at)
        PROVE  Steady({})
    <2>1. /\ version' = version + 1 /\ kind' = kind /\ callState' = "transferring"
          /\ replacement = {} /\ binding' = binding /\ legState[l] = "connected"
          /\ legState' = [legState EXCEPT ![l] = "held"]
      BY <1>3 DEF BeginLegReplacement, Decide, Reported
    <2>2. \A m \in Leg : legState'[m] \in Heard => legState[m] \in Heard
      BY <2>1 DEF IInv, TypeOK, Heard
    <2> QED
      BY <2>1, <2>2 DEF Steady, SetupState
  <1>4. ASSUME NEW k \in DeadlineKind, NEW t \in Time, ArmDeadline(k, t, at) \/ BeginTransfer(t, at)
        PROVE  Steady({})
    <2>1. Starting = {}
      BY <1>4, DeadlineHistory
    <2>2. /\ version' = version + 1 /\ UNCHANGED <<kind, binding, legState, replacement>>
          /\ callState' \in SetupState => callState \in SetupState
      BY <1>4 DEF ArmDeadline, BeginTransfer, Decide, SetupState
    <2> QED
      BY <2>1, <2>2 DEF Steady
  <1>5. ASSUME NEW t \in Time \cup {0}, BeginEnding(t, at)
        PROVE  Steady({})
    <2>1. Starting = {}
      BY <1>5, TeardownHistory
    <2>2. \A l \in Leg : legState[l] \in LegState
      BY DEF IInv, TypeOK
    <2> QED
      BY <1>5, <2>1, <2>2, EndingSteady DEF BeginEnding
  <1>6. "setup" \in DeadlineKind
    BY DEF DeadlineKind
  <1> QED
    BY <1>1, <1>2, <1>3, <1>4, <1>5, <1>6 DEF Request

\* The end of a transfer, of a rejected replacement and of a deadline.
LEMMA OtherSteady ==
    ASSUME IInv, NEW at \in Time, NEW d \in 0 .. MaxDeadline,
           \/ Timeout(d, at) \/ FinishTransfer(d, at)
           \/ \E g \in Generation : FinishLegReplacement(d, g, FALSE, at)
    PROVE  Steady({})
  <1>1. CASE FinishTransfer(d, at)
    <2>1. replacement = {} /\ version' = version + 1 /\ UNCHANGED <<kind, binding, legState>>
          /\ callState' = "active"
      BY <1>1 DEF FinishTransfer, Decide
    <2> QED
      BY <2>1 DEF Steady, SetupState
  <1>2. ASSUME NEW r \in replacement, legState' = Reported(r.leg, "connected"),
               replacement' = {}, callState' = "active", Starting = {},
               UNCHANGED <<kind, binding>>, version' = version + 1
        PROVE  Steady({})
    <2>1. r.leg \in Leg /\ legState[r.leg] = "held"
      BY DEF IInv, TypeOK, Replacement, Validate, ValidReplacement
    <2>2. \A m \in Leg : legState'[m] \in Heard => legState[m] \in Heard
      BY <1>2, <2>1 DEF Reported, IInv, TypeOK, Heard
    <2> QED
      BY <1>2, <2>2 DEF Steady, SetupState
  <1>3. ASSUME NEW g \in Generation, FinishLegReplacement(d, g, FALSE, at)
        PROVE  Steady({})
    <2>1. Starting = {}
      BY <1>3, ReplacementHistory
    <2>2. PICK r \in replacement :
              /\ legState' = Reported(r.leg, "connected")
              /\ replacement' = {} /\ callState' = "active"
              /\ UNCHANGED <<kind, binding>> /\ version' = version + 1
      BY <1>3 DEF FinishLegReplacement, Decide
    <2> QED
      BY <2>1, <2>2, <1>2
  <1>4. CASE ReplacementDeadlineElapsed(d, at)
    <2>1. Starting = {}
      BY <1>4, ReplacementHistory
    <2>2. PICK r \in replacement : legState' = Reported(r.leg, "connected")
      BY <1>4 DEF ReplacementDeadlineElapsed
    <2>3. /\ replacement' = {} /\ callState' = "active"
          /\ UNCHANGED <<kind, binding>> /\ version' = version + 1
      BY <1>4 DEF ReplacementDeadlineElapsed, Decide
    <2> QED
      BY <2>1, <2>2, <2>3, <1>2
  <1>5. ASSUME NEW k \in BeforeEnding, NEW t \in Time \cup {0}, DeadlineElapsed(k, d, t, at)
        PROVE  Steady({})
    <2>1. Starting = {}
      BY <1>5, TeardownHistory
    <2>2. \A l \in Leg : legState[l] \in LegState
      BY DEF IInv, TypeOK
    <2> QED
      BY <1>5, <2>1, <2>2, EndingSteady DEF DeadlineElapsed
  <1>6. CASE EndingDeadlineElapsed(d, at)
    <2>1. due["ending"] # 0
      BY <1>6 DEF EndingDeadlineElapsed, Elapsed
    <2>2. callState = "ending" /\ replacement = {}
      BY <2>1, NoReplacementElsewhere DEF IInv, Validate, DeadlineAllowed, DeadlineKind
    <2>3. /\ kind' = kind /\ callState' = "failed" /\ version' = version + 1
          /\ \A l \in Leg : legState'[l] \notin Heard
      BY <1>6 DEF EndingDeadlineElapsed, FinalizeTerminal, Decide, Heard, Terminal
    <2> QED
      BY <2>2, <2>3 DEF Steady, SetupState
  <1> QED
    BY <1>1, <1>3, <1>4, <1>5, <1>6 DEF Timeout

-----------------------------------------------------------------------------
(***************************************************************************)
(* What an applied command does to the tables.                             *)
(***************************************************************************)

\* The name an intent carries is one of the names looked for.
LEMMA NamedWithin ==
    ASSUME NEW E, NEW N, NEW n \in N
    PROVE  Named(E, {n}) \subseteq Named(E, N)
  BY DEF Named

\* Attachments are issued with starts only.
LEMMA IssuedWithStarts ==
    ASSUME NEW k
    PROVE  /\ Issued(k) \in {"none", "public", "provider"}
           /\ k \notin Starting => Issued(k) = "none"
  <1>1. \A n \in StartEffects : k \in Named(effects', {n}) => k \in Starting
    BY NamedWithin DEF Starting
  <1>2. /\ k \in Named(effects', {"AwaitLegAttachment"}) => k \in Starting
        /\ k \in Named(effects', {"StartLeg"}) => k \in Starting
        /\ k \in Named(effects', {"StartLegReplacement"}) => k \in Starting
    BY <1>1 DEF StartEffects
  <1> QED
    BY <1>2 DEF Issued

\* Revoking an attachment changes nothing else of it.
LEMMA RevokedAttachment ==
    ASSUME NEW a \in Attachment, NEW b \in BOOLEAN
    PROVE  /\ [a EXCEPT !.revoked = b] \in Attachment
           /\ [a EXCEPT !.revoked = b].purpose = a.purpose
           /\ [a EXCEPT !.revoked = b].consumed = a.consumed
  BY DEF Attachment

\* A function on an initial segment of the naturals is a sequence.
LEMMA SequenceOfItems ==
    ASSUME NEW S, NEW n \in Nat, NEW f, f = [i \in 1 .. n |-> f[i]],
           \A i \in 1 .. n : f[i] \in S
    PROVE  f \in Seq(S)
  OBVIOUS

\* Retired control effects are a sequence again, and none is unfinished.
LEMMA RetiredControl ==
    ASSUME NEW s \in Seq(Control)
    PROVE  /\ RetireControl(s) \in Seq(Control)
           /\ \A i \in DOMAIN RetireControl(s) : ~Unfinished(RetireControl(s)[i])
  <1>1. 0 \in Fence
    BY BindingBoundsAssumption DEF Fence
  <1>2. \A i \in 1 .. Len(s) : RetireControl(s)[i] \in Control
    <2>1. [status |-> "retired", by |-> 0] \in Control
      BY <1>1 DEF Control
    <2> QED
      BY <2>1 DEF RetireControl
  <1>3. RetireControl(s) = [i \in 1 .. Len(s) |-> RetireControl(s)[i]]
    BY DEF RetireControl
  <1>4. RetireControl(s) \in Seq(Control)
    BY <1>2, <1>3
  <1>5. \A i \in DOMAIN RetireControl(s) : ~Unfinished(RetireControl(s)[i])
    BY DEF RetireControl, Unfinished
  <1> QED
    BY <1>4, <1>5

\* The rows of the attachments after an applied command.
LEMMA AppliedAttachments ==
    ASSUME NEW atts \in [Key -> Attachment], NEW links, NEW owned, lease \in Fence,
           Applied(atts, links, owned)
    PROVE  /\ attachment' \in [Key -> Attachment]
           /\ \A k \in Key : k \notin Starting => attachment'[k].purpose = atts[k].purpose
  <1> DEFINE New(k) == [purpose |-> Issued(k), by |-> lease,
                        consumed |-> FALSE, revoked |-> FALSE]
             Old(k) == [atts[k] EXCEPT !.revoked = atts[k].revoked \/ k \in RetiredAttachments]
  <1>1. attachment' = [k \in Key |-> IF Issued(k) # "none" THEN New(k) ELSE Old(k)]
    BY DEF Applied
  <1>2. ASSUME NEW k \in Key
        PROVE  New(k) \in Attachment
    BY IssuedWithStarts DEF Attachment
  <1>3. ASSUME NEW k \in Key
        PROVE  Old(k) \in Attachment /\ Old(k).purpose = atts[k].purpose
    <2>1. atts[k] \in Attachment
      OBVIOUS
    <2>2. (atts[k].revoked \/ k \in RetiredAttachments) \in BOOLEAN
      OBVIOUS
    <2> QED
      BY <2>1, <2>2, RevokedAttachment
  <1> HIDE DEF New, Old
  <1>4. attachment' \in [Key -> Attachment]
    BY <1>1, <1>2, <1>3
  <1>5. \A k \in Key : k \notin Starting => attachment'[k].purpose = atts[k].purpose
    BY <1>1, <1>3, IssuedWithStarts
  <1> QED
    BY <1>4, <1>5

\* The control effects after an applied command.
LEMMA AppliedControl ==
    ASSUME NEW atts, NEW links, NEW owned, control \in [Key -> Seq(Control)],
           Applied(atts, links, owned)
    PROVE  control' \in [Key -> Seq(Control)] /\ ControlTargetsAreLive'
  <1>1. control' = [k \in Key |->
            IF binding'[k[1]] = k[2] /\ legState'[k[1]] \in {"connected", "held"}
            THEN control[k] ELSE RetireControl(control[k])]
    BY DEF Applied
  <1>2. \A k \in Key : control[k] \in Seq(Control)
    OBVIOUS
  <1>3. control' \in [Key -> Seq(Control)]
    BY <1>1, <1>2, RetiredControl
  <1>4. ASSUME NEW k \in Key, NEW i \in DOMAIN control'[k], Unfinished(control'[k][i])
        PROVE  binding'[k[1]] = k[2] /\ legState'[k[1]] \in {"connected", "held"}
    BY <1>1, <1>2, <1>4, RetiredControl
  <1>5. ControlTargetsAreLive'
    BY <1>4 DEF ControlTargetsAreLive, Listening
  <1> QED
    BY <1>3, <1>5

\* The bindings and owners after an applied command: what retire_inactive_bindings
\* leaves are current bindings, and an owner apart from them is still the one of
\* the pending generation.
LEMMA AppliedOwners ==
    ASSUME IInv, IInv', NEW X, Steady(X),
           NEW atts, NEW links \in SUBSET Link, NEW owned \in SUBSET Link,
           links \subseteq owned,
           \A b1, b2 \in links : b1.leg = b2.leg => b1 = b2,
           \A o1, o2 \in owned : KeyOf(o1) = KeyOf(o2) => o1 = o2,
           \A o \in owned \ links : Parallel(o),
           \A k \in Key : k \notin Starting => attachment'[k].purpose = attachment[k].purpose,
           Applied(atts, links, owned)
    PROVE  /\ bindings' \subseteq Link /\ owners' \subseteq Link
           /\ BindingsAreCurrent' /\ OwnersMatch'
           /\ RoutesHaveOneOwner' /\ ParallelOwners'
  <1> DEFINE left == links \ RetiredLinks(links)
  <1>1. /\ bindings' = left
        /\ owners' = {o \in owned \ RetiredLinks(links) :
                         KeyOf(o) \in RetiredAttachments => o \in left}
    BY DEF Applied
  <1>2. \A b \in left : b \in links /\ binding'[b.leg] = b.generation
                          /\ legState'[b.leg] \in Served
    BY DEF RetiredLinks
  <1>3. \A o \in owned : o \in RetiredLinks(links) => o \in links
    BY DEF RetiredLinks
  <1>4. left \subseteq links /\ (links \ RetiredLinks(links)) \subseteq left
    OBVIOUS
  <1> HIDE DEF left
  <1>5. BindingsAreCurrent' /\ bindings' \subseteq Link /\ owners' \subseteq Link
    BY <1>1, <1>2 DEF BindingsAreCurrent
  <1>6. bindings' \subseteq owners'
    BY <1>1, <1>2, <1>4 DEF RetiredLinks
  <1>7. RoutesHaveOneOwner'
    BY <1>1 DEF RoutesHaveOneOwner, KeyOf
  <1>8. ASSUME NEW o \in owners' \ bindings'
        PROVE  /\ o \in Link /\ attachment'[KeyOf(o)].purpose = "provider"
               /\ \E r \in replacement' : KeyOf(o) = <<r.leg, r.pending>> /\ r.kind = "telnyx"
    <2>1. o \in owned /\ o \notin left /\ KeyOf(o) \notin RetiredAttachments
      BY <1>1
    <2>2. o \notin links
      BY <1>1, <1>4, <2>1
    <2>3. Parallel(o)
      BY <2>1, <2>2
    <2>4. PICK r \in replacement : KeyOf(o) = <<r.leg, r.pending>> /\ r.kind = "telnyx"
      BY <2>3 DEF Parallel
    <2>5. /\ KeyOf(o) \in Key /\ KeyOf(o) \notin Starting /\ r.leg \in Leg
          /\ KeyOf(o)[1] = r.leg /\ KeyOf(o)[2] = r.pending
      BY <2>1, <2>4 DEF Link, KeyOf, Key, Steady
    <2>6. binding'[r.leg] # r.pending /\ replacement' \subseteq replacement
      BY <2>4, <2>5 DEF Steady, IInv, TypeOK, Replacement, Generation, Validate, ValidReplacement
    <2>7. attachment[KeyOf(o)].purpose = "provider"
      BY <2>3 DEF Parallel
    <2>8. \E x \in replacement' : <<x.leg, x.pending>> = KeyOf(o)
      BY <2>1, <2>5, <2>6, <2>7 DEF RetiredAttachments
    <2>9. r \in replacement'
      BY <2>6, <2>8 DEF IInv, OneReplacement
    <2> QED
      BY <2>1, <2>4, <2>5, <2>7, <2>9
  <1>9. ParallelOwners'
    BY <1>8 DEF ParallelOwners, Parallel, KeyOf
  <1>10. OwnersMatch'
    BY <1>6, <1>8 DEF OwnersMatch, KeyOf
  <1> QED
    BY <1>5, <1>6, <1>7, <1>9, <1>10

\* A leg that is heard keeps its binding, and one that was just brought to
\* signaling has the one its report came with.
LEMMA AppliedHears ==
    ASSUME NEW X, Steady(X), RemoteLegsAreBound,
           NEW atts, NEW links, NEW owned, bindings \subseteq links,
           \A l \in X \cap Leg : Initiator[l] = "remote" /\ legState'[l] \in Heard =>
               \E b \in links : b.leg = l /\ b.generation = binding'[l],
           Applied(atts, links, owned)
    PROVE  RemoteLegsAreBound'
  <1> SUFFICES ASSUME NEW l \in Leg, Initiator[l] = "remote", legState'[l] \in Heard
               PROVE  \E b \in bindings' : b.leg = l /\ b.generation = binding'[l]
    BY DEF RemoteLegsAreBound, Bound, Heard
  <1>1. PICK b \in links : b.leg = l /\ b.generation = binding'[l]
    <2>1. CASE l \in X
      BY <2>1
    <2>2. CASE l \notin X
      BY <2>2 DEF Steady, RemoteLegsAreBound, Bound, Heard
    <2> QED
      BY <2>1, <2>2
  <1>2. b \notin RetiredLinks(links)
    BY <1>1 DEF RetiredLinks, Served, Heard
  <1> QED
    BY <1>1, <1>2 DEF Applied

\* An applied command that promotes no replacement keeps the tables in order.
LEMMA AppliedKeeps ==
    ASSUME BInv, IInv', NEW X, Steady(X),
           NEW atts \in [Key -> Attachment], NEW links \in SUBSET Link, NEW owned \in SUBSET Link,
           bindings \subseteq links, links \subseteq owned,
           \A b1, b2 \in links : b1.leg = b2.leg => b1 = b2,
           \A o1, o2 \in owned : KeyOf(o1) = KeyOf(o2) => o1 = o2,
           \A o \in owned \ links : Parallel(o),
           \A k \in Key : atts[k].purpose = attachment[k].purpose,
           \A l \in X \cap Leg : Initiator[l] = "remote" /\ legState'[l] \in Heard =>
               \E b \in links : b.leg = l /\ b.generation = binding'[l],
           Applied(atts, links, owned), candidate' = candidate
    PROVE  BInv'
  <1>1. IInv /\ TablesTyped /\ TablesAgree /\ CandidatesHold /\ KindsAtFirst
    BY DEF BInv
  <1>2. /\ lease \in Fence /\ fence \in Fence /\ control \in [Key -> Seq(Control)]
        /\ fence' = fence /\ lease' = lease
    BY <1>1 DEF TablesTyped, Applied
  <1>3. /\ attachment' \in [Key -> Attachment]
        /\ \A k \in Key : k \notin Starting => attachment'[k].purpose = attachment[k].purpose
    BY <1>2, AppliedAttachments
  <1>4. control' \in [Key -> Seq(Control)] /\ ControlTargetsAreLive'
    BY <1>2, AppliedControl
  <1>5. /\ bindings' \subseteq Link /\ owners' \subseteq Link
        /\ BindingsAreCurrent' /\ OwnersMatch'
        /\ RoutesHaveOneOwner' /\ ParallelOwners'
    BY <1>1, <1>3, AppliedOwners
  <1>6. RemoteLegsAreBound'
    BY <1>1, AppliedHears DEF TablesAgree
  <1>7. TablesTyped'
    BY <1>1, <1>2, <1>3, <1>4, <1>5 DEF TablesTyped
  <1>8. CandidatesHold'
    <2>1. /\ version \in Nat /\ version' = version + 1
          /\ \A l \in Leg : candidate[l].version \in Nat
      BY <1>1, BoundAssumption DEF IInv, TypeOK, Steady, TablesTyped, Candidate
    <2>2. \A l \in Leg : candidate[l].generation # 0 => candidate[l].version <= version
      BY <1>1 DEF CandidatesHold
    <2>3. \A l \in Leg : candidate'[l].generation # 0 =>
              candidate'[l].version <= version' /\ candidate'[l].version # version'
      BY <2>1, <2>2
    <2> QED
      BY <2>3 DEF CandidatesHold
  <1>9. KindsAtFirst'
    BY <1>1 DEF KindsAtFirst, Steady, SetupState
  <1> QED
    BY <1>4, <1>5, <1>6, <1>7, <1>8, <1>9 DEF BInv, TablesAgree

-----------------------------------------------------------------------------
(***************************************************************************)
(* One lemma per transaction that commits a command.                       *)
(***************************************************************************)

\* A report of a leg is a step of the aggregate.
LEMMA ReportIInv ==
    ASSUME IInv, NEW at \in Time, NEW l \in Leg, NEW g \in Generation, LegReport(l, g, at)
    PROVE  IInv'
  BY NextIInv DEF Next

\* commit_command_in_state with nothing written before it.
LEMMA CommitsKeeps ==
    ASSUME BInv, IInv', NEW X, Steady(X), Commits,
           \A l \in X \cap Leg : Initiator[l] = "remote" /\ legState'[l] \in Heard =>
               \E b \in bindings : b.leg = l /\ b.generation = binding'[l]
    PROVE  BInv'
  <1>1. Applied(attachment, bindings, owners) /\ candidate' = candidate
    BY DEF Commits
  <1>2. /\ attachment \in [Key -> Attachment] /\ bindings \in SUBSET Link
        /\ owners \in SUBSET Link /\ bindings \subseteq owners
        /\ \A b1, b2 \in bindings : b1.leg = b2.leg => b1 = b2
        /\ \A o1, o2 \in owners : KeyOf(o1) = KeyOf(o2) => o1 = o2
        /\ \A o \in owners \ bindings : Parallel(o)
    BY DEF BInv, TablesTyped, TablesAgree, BindingsAreCurrent, OwnersMatch,
           RoutesHaveOneOwner, ParallelOwners
  <1> QED
    BY <1>1, <1>2, AppliedKeeps

\* No leg that its remote side signals is a provider's during the setup.
LEMMA RemoteLegsAreNotProviders ==
    ASSUME BInv, NEW l \in Leg, Initiator[l] = "remote", callState \in SetupState
    PROVE  kind[l] # "telnyx"
  BY ProviderLegsAssumption, SemanticsAssumption DEF BInv, KindsAtFirst, SetupState

\* Reports of a bound connection.
LEMMA BoundReportKeeps ==
    ASSUME BInv, NEW l \in Leg, NEW at \in Time, BoundReport(l, at)
    PROVE  BInv'
  <1>1. IInv /\ bindings \subseteq Link
    BY DEF BInv, TablesTyped
  <1>2. PICK b \in bindings \cap owners :
            /\ b.leg = l
            /\ \/ LegConnectsCall(l, b.generation, at)
               \/ \E s \in LegState : LegAdvances(l, b.generation, s, at)
               \/ \E s \in LegState : LegReportsEnd(l, b.generation, s, at)
               \/ \E s \in LegState : SourceTerminatedBeforeAnswer(l, b.generation, s, at)
            /\ Commits
    BY DEF BoundReport
  <1>3. b.generation \in Generation
    BY <1>1 DEF Link
  <1>4. IInv'
    BY <1>1, <1>2, <1>3, ReportIInv DEF LegReport
  <1>5. ASSUME NEW s \in LegState,
               LegConnectsCall(l, b.generation, at) \/ LegAdvances(l, b.generation, s, at)
        PROVE  BInv'
    <2>1. Steady({l})
      BY <1>1, <1>5, AdvanceSteady
    <2>2. b.generation = binding'[l]
      BY <1>5 DEF LegConnectsCall, LegAdvances, ReportAccepted
    <2> QED
      BY <1>2, <1>4, <2>1, <2>2, CommitsKeeps
  <1>6. ASSUME NEW s \in LegState,
               \/ LegReportsEnd(l, b.generation, s, at)
               \/ SourceTerminatedBeforeAnswer(l, b.generation, s, at)
        PROVE  BInv'
    <2>1. Steady({})
      BY <1>1, <1>6, LeavingSteady
    <2> QED
      BY <1>2, <1>4, <2>1, CommitsKeeps
  <1>7. "held" \in LegState
    BY DEF LegState
  <1> QED
    BY <1>2, <1>5, <1>6, <1>7

\* Reports without a connection: those of a leg that its remote side signals
\* only fail it, or come after a promotion made it a provider's.
LEMMA UnboundReportKeeps ==
    ASSUME BInv, NEW l \in Leg, NEW at \in Time, UnboundReport(l, at)
    PROVE  BInv'
  <1>1. IInv /\ binding[l] \in Generation /\ RemoteLegsAreBound
    BY DEF BInv, IInv, TypeOK, TablesAgree
  <1>2. /\ Commits
        /\ \/ LegConnectsCall(l, binding[l], at)
           \/ \E s \in LegState : UnboundState(l, s) /\ LegAdvances(l, binding[l], s, at)
           \/ \E s \in LegState : LegReportsEnd(l, binding[l], s, at)
           \/ ProviderMediaStarted(l, binding[l], at)
    BY DEF UnboundReport
  <1>3. IInv'
    BY <1>1, <1>2, ReportIInv DEF LegReport
  <1>4. ASSUME Steady({l}), binding' = binding,
               Initiator[l] = "remote" /\ legState'[l] \in Heard => legState[l] \in Heard
        PROVE  BInv'
    <2>1. Initiator[l] = "remote" /\ legState'[l] \in Heard =>
              \E b \in bindings : b.leg = l /\ b.generation = binding'[l]
      BY <1>1, <1>4 DEF RemoteLegsAreBound, Bound, Heard
    <2> QED
      BY <1>2, <1>3, <1>4, <2>1, CommitsKeeps
  <1>5. ASSUME NEW s \in LegState, LegConnectsCall(l, binding[l], at) \/ 
                 (UnboundState(l, s) /\ LegAdvances(l, binding[l], s, at))
        PROVE  BInv'
    <2>1. Steady({l}) /\ binding' = binding
      BY <1>1, <1>5, AdvanceSteady DEF LegConnectsCall, LegAdvances
    <2>2. CASE LegConnectsCall(l, binding[l], at) \/ s # "signaling"
      BY <1>1, <1>4, <1>5, <2>1, <2>2, HeardAlready
    <2>3. CASE UnboundState(l, s) /\ LegAdvances(l, binding[l], s, at) /\ s = "signaling"
      <3>1. legState[l] \in {"pending", "awaiting_attach"}
        BY <2>3 DEF LegAdvances, ReportAccepted, ValidLegTransition
      <3>2. callState \in SetupState
        BY <1>1, <3>1, EarlyLegs
      <3>3. Initiator[l] # "remote"
        BY <2>3, <3>2, RemoteLegsAreNotProviders DEF UnboundState
      <3> QED
        BY <1>4, <2>1, <3>3
    <2> QED
      BY <1>5, <2>2, <2>3
  <1>6. ASSUME NEW s \in LegState, LegReportsEnd(l, binding[l], s, at)
        PROVE  BInv'
    <2>1. Steady({})
      BY <1>1, <1>6, LeavingSteady
    <2> QED
      BY <1>2, <1>3, <2>1, CommitsKeeps
  <1>7. CASE ProviderMediaStarted(l, binding[l], at)
    <2>1. "held" \in LegState
      BY DEF LegState
    <2>2. Steady({l}) /\ binding' = binding
      BY <1>1, <1>7, <2>1, AdvanceSteady DEF ProviderMediaStarted
    <2>3. Initiator[l] # "remote"
      BY <1>7, RemoteLegsAreNotProviders DEF ProviderMediaStarted, SetupState
    <2> QED
      BY <1>4, <2>2, <2>3
  <1>8. "held" \in LegState
    BY DEF LegState
  <1> QED
    BY <1>2, <1>5, <1>6, <1>7, <1>8

\* Every other command.
LEMMA OtherCommandKeeps ==
    ASSUME BInv, NEW at \in Time, OtherCommand(at)
    PROVE  BInv'
  <1>1. IInv /\ Commits
    BY DEF BInv, OtherCommand
  <1>2. CASE Request(at)
    <2>1. IInv'
      BY <1>1, <1>2, NextIInv DEF Next
    <2> QED
      BY <1>1, <1>2, <2>1, RequestSteady, CommitsKeeps
  <1>3. ASSUME NEW d \in 0 .. MaxDeadline,
               \/ Timeout(d, at) \/ FinishTransfer(d, at)
               \/ \E g \in Generation : FinishLegReplacement(d, g, FALSE, at)
        PROVE  BInv'
    <2>1. IInv'
      BY <1>1, <1>3, NextIInv DEF Next, Settle
    <2> QED
      BY <1>1, <1>3, <2>1, OtherSteady, CommitsKeeps
  <1> QED
    BY <1>2, <1>3 DEF OtherCommand

\* Consuming an attachment changes nothing else of its row.
LEMMA ConsumedAttachment ==
    ASSUME attachment \in [Key -> Attachment], NEW k \in Key
    PROVE  /\ [attachment EXCEPT ![k].consumed = TRUE] \in [Key -> Attachment]
           /\ \A j \in Key : [attachment EXCEPT ![k].consumed = TRUE][j].purpose
                                = attachment[j].purpose
  <1> DEFINE a == [attachment[k] EXCEPT !.consumed = TRUE]
  <1>1. a \in Attachment /\ a.purpose = attachment[k].purpose
    BY DEF Attachment
  <1>2. [attachment EXCEPT ![k].consumed = TRUE] = [attachment EXCEPT ![k] = a]
    OBVIOUS
  <1> HIDE DEF a
  <1> QED
    BY <1>1, <1>2

\* What the candidate's version vouches for when its attachment is consumed.
LEMMA CandidateVouches ==
    ASSUME BInv, NEW l \in Leg, candidate[l].generation # 0, SameVersion(candidate[l])
    PROVE  /\ candidate[l].generation \in Generation
           /\ Attachable(l, candidate[l].generation)
  <1>1. candidate[l] \in Candidate
    BY DEF BInv, TablesTyped
  <1>2. candidate[l].generation \in Generation
    BY <1>1, BoundAssumption DEF Candidate, Generation
  <1>3. Attachable(l, candidate[l].generation)
    BY DEF BInv, CandidatesHold, SameVersion
  <1> QED
    BY <1>2, <1>3

\* The pending generation is not the current one.
LEMMA PendingIsNotCurrent ==
    ASSUME IInv, NEW l \in Leg, NEW g, PendingReplacement(l, g)
    PROVE  binding[l] # g /\ legState[l] = "held" /\ callState = "transferring"
  <1>1. PICK r \in replacement : r.leg = l /\ r.kind = "telnyx" /\ r.pending = g
    BY DEF PendingReplacement
  <1>2. /\ r.previous \in Nat /\ r.pending \in Nat /\ r.pending > r.previous
        /\ binding[l] = r.previous /\ legState[l] = "held" /\ callState = "transferring"
    BY <1>1, BoundAssumption
       DEF IInv, TypeOK, Replacement, Generation, Validate, ValidReplacement
  <1> QED
    BY <1>1, <1>2

\* consume_attachment.
LEMMA ConsumeAttachmentKeeps ==
    ASSUME BInv, NEW l \in Leg, NEW c \in Conn, NEW at \in Time, ConsumeAttachment(l, c, at)
    PROVE  BInv'
  <1> DEFINE g == candidate[l].generation
             link == [conn |-> c, leg |-> l, generation |-> g]
             atts == [attachment EXCEPT ![<<l, g>>].consumed = TRUE]
             links == IF PendingReplacement(l, g) THEN bindings ELSE bindings \cup {link}
             owned == owners \cup {link}
  <1>1. g \in Generation /\ Attachable(l, g)
    BY CandidateVouches DEF ConsumeAttachment
  <1>2. binding[l] = g \/ PendingReplacement(l, g)
    BY <1>1 DEF Attachable
  <1>3. /\ Attach(l, g, at) /\ Applied(atts, links, owned) /\ candidate' = candidate
        /\ \A o \in owners : KeyOf(o) # <<l, g>>
        /\ PendingReplacement(l, g) \/ \A b \in bindings : b.leg # l
    BY <1>2 DEF ConsumeAttachment
  <1>4. /\ IInv /\ attachment \in [Key -> Attachment] /\ bindings \subseteq Link
        /\ owners \subseteq Link /\ bindings \subseteq owners
        /\ \A b1, b2 \in bindings : b1.leg = b2.leg => b1 = b2
        /\ \A o1, o2 \in owners : KeyOf(o1) = KeyOf(o2) => o1 = o2
        /\ \A o \in owners \ bindings : Parallel(o)
        /\ RemoteLegsAreBound
    BY DEF BInv, TablesTyped, TablesAgree, BindingsAreCurrent, OwnersMatch,
           RoutesHaveOneOwner, ParallelOwners
  <1>5. link \in Link /\ KeyOf(link) = <<l, g>> /\ link.leg = l /\ link.generation = g
        /\ <<l, g>> \in Key
    BY <1>1 DEF Link, KeyOf, Key
  <1>6. atts \in [Key -> Attachment]
        /\ \A k \in Key : atts[k].purpose = attachment[k].purpose
    BY <1>4, <1>5, ConsumedAttachment
  <1>7. "signaling" \in LegState
    BY DEF LegState
  <1>8. IInv' /\ Steady({l}) /\ binding' = binding
    <2>1. LegAdvances(l, g, "signaling", at) \/ ProviderMediaAttached(l, g, at)
      BY <1>3 DEF Attach
    <2>2. IInv'
      BY <1>1, <1>4, <1>7, <2>1, ReportIInv DEF LegReport
    <2>3. Steady({l})
      BY <1>4, <1>7, <2>1, AdvanceSteady
    <2> QED
      BY <2>1, <2>2, <2>3 DEF LegAdvances, ProviderMediaAttached
  <1> HIDE DEF link, atts, g
  <1>9. CASE PendingReplacement(l, g)
    <2>1. links = bindings
      BY <1>9
    <2>2. binding[l] # g /\ legState[l] = "held" /\ callState = "transferring"
      BY <1>4, <1>9, PendingIsNotCurrent
    <2>3. attachment[<<l, g>>].purpose = "provider"
      BY <1>1, <2>2 DEF Attachable
    <2>4. Parallel(link)
      BY <1>5, <1>9, <2>3 DEF Parallel, PendingReplacement
    <2>5. Initiator[l] = "remote" =>
              \E b \in bindings : b.leg = l /\ b.generation = binding'[l]
      BY <1>4, <1>8, <2>2 DEF RemoteLegsAreBound, Bound
    <2>6. Applied(atts, bindings, owned)
      BY <1>3, <2>1
    <2>7. /\ bindings \in SUBSET Link /\ owned \in SUBSET Link /\ bindings \subseteq owned
          /\ \A o1, o2 \in owned : KeyOf(o1) = KeyOf(o2) => o1 = o2
          /\ \A o \in owned \ bindings : Parallel(o)
      BY <1>3, <1>4, <1>5, <2>4
    <2> HIDE DEF owned
    <2> QED
      BY <1>3, <1>4, <1>6, <1>8, <2>5, <2>6, <2>7, AppliedKeeps
  <1>10. CASE ~PendingReplacement(l, g)
    <2>1. links = bindings \cup {link} /\ binding[l] = g /\ \A b \in bindings : b.leg # l
      BY <1>2, <1>3, <1>10
    <2>2. /\ links \in SUBSET Link /\ owned \in SUBSET Link /\ links \subseteq owned
          /\ bindings \subseteq links
          /\ \A b1, b2 \in links : b1.leg = b2.leg => b1 = b2
      BY <1>4, <1>5, <2>1
    <2>3. /\ \A o1, o2 \in owned : KeyOf(o1) = KeyOf(o2) => o1 = o2
          /\ \A o \in owned \ links : Parallel(o)
      BY <1>3, <1>4, <1>5, <2>1
    <2>4. \E b \in links : b.leg = l /\ b.generation = binding'[l]
      BY <1>5, <1>8, <2>1
    <2> HIDE DEF owned, links
    <2> QED
      BY <1>3, <1>6, <1>8, <2>2, <2>3, <2>4, AppliedKeeps
  <1> QED
    BY <1>9, <1>10

-----------------------------------------------------------------------------
(***************************************************************************)
(* The transactions that leave the aggregate alone.                        *)
(***************************************************************************)

\* What was inspected still holds, and the tables follow the same aggregate.
LEMMA SameAggregate ==
    ASSUME BInv, UNCHANGED vars
    PROVE  /\ IInv' /\ KindsAtFirst'
           /\ UNCHANGED <<attachment, candidate>> => CandidatesHold'
  <1>1. IInv'
    BY StutterStep DEF BInv
  <1>2. KindsAtFirst'
    BY DEF BInv, KindsAtFirst, vars, aggregate
  <1>3. ASSUME UNCHANGED <<attachment, candidate>>
        PROVE  CandidatesHold'
    BY <1>3 DEF BInv, CandidatesHold, Attachable, PendingReplacement, vars, aggregate
  <1> QED
    BY <1>1, <1>2, <1>3

\* register_worker.
LEMMA RegisterWorkerKeeps ==
    ASSUME BInv, RegisterWorker
    PROVE  BInv'
  <1>1. UNCHANGED vars /\ UNCHANGED tables /\ lease' = lease /\ fence' = fence + 1
        /\ fence < MaxFence
    BY DEF RegisterWorker, CanRegister
  <1>2. fence' \in Fence
    BY <1>1, BindingBoundsAssumption DEF BInv, TablesTyped, Fence
  <1>3. IInv' /\ KindsAtFirst' /\ CandidatesHold'
    BY <1>1, SameAggregate DEF tables
  <1>4. TablesTyped'
    BY <1>1, <1>2 DEF BInv, TablesTyped, tables
  <1>5. TablesAgree'
    BY <1>1 DEF BInv, TablesAgree, BindingsAreCurrent, OwnersMatch, RemoteLegsAreBound, Bound,
                ControlTargetsAreLive, Listening, tables, vars, aggregate
  <1>6. RoutesHaveOneOwner' /\ ParallelOwners'
    BY <1>1 DEF BInv, RoutesHaveOneOwner, ParallelOwners, Parallel, tables, vars, aggregate
  <1> QED
    BY <1>3, <1>4, <1>5, <1>6 DEF BInv

\* claim_restart_calls revokes attachments and lets claims expire; it rewrites no
\* purpose, and what it takes a claim from is as unfinished as before.
LEMMA ClaimRestartCallKeeps ==
    ASSUME BInv, ClaimRestartCall
    PROVE  BInv'
  <1> DEFINE gone(k) == attachment[k].purpose # "none" /\ ~attachment[k].consumed
             row(k) == [attachment[k] EXCEPT !.revoked = attachment[k].revoked \/ gone(k)]
             late(k) == [i \in DOMAIN control[k] |-> [control[k][i] EXCEPT !.by = 0]]
  <1>1. /\ UNCHANGED <<vars, fence, candidate, bindings, owners>> /\ lease' = fence
        /\ attachment' = [k \in Key |-> row(k)] /\ control' = [k \in Key |-> late(k)]
    BY DEF ClaimRestartCall
  <1>2. /\ fence \in Fence /\ attachment \in [Key -> Attachment]
        /\ control \in [Key -> Seq(Control)]
    BY DEF BInv, TablesTyped
  <1>3. ASSUME NEW k \in Key
        PROVE  row(k) \in Attachment /\ row(k).purpose = attachment[k].purpose
    <2>1. attachment[k] \in Attachment /\ (attachment[k].revoked \/ gone(k)) \in BOOLEAN
      BY <1>2
    <2> HIDE DEF gone
    <2> QED
      BY <2>1, RevokedAttachment
  <1>4. ASSUME NEW k \in Key
        PROVE  /\ late(k) \in Seq(Control) /\ DOMAIN late(k) = DOMAIN control[k]
               /\ \A i \in DOMAIN late(k) : late(k)[i].status = control[k][i].status
    <2>1. 0 \in Fence
      BY BindingBoundsAssumption DEF Fence
    <2>2. \A i \in 1 .. Len(control[k]) : control[k][i] \in Control
      BY <1>2
    <2>3. \A i \in 1 .. Len(control[k]) :
              /\ [control[k][i] EXCEPT !.by = 0] \in Control
              /\ [control[k][i] EXCEPT !.by = 0].status = control[k][i].status
      BY <2>1, <2>2 DEF Control
    <2>4. control[k] \in Seq(Control)
      BY <1>2
    <2>5. /\ DOMAIN late(k) = DOMAIN control[k] /\ DOMAIN control[k] = 1 .. Len(control[k])
          /\ \A i \in 1 .. Len(control[k]) : late(k)[i] = [control[k][i] EXCEPT !.by = 0]
      BY <2>4
    <2>6. late(k) = [i \in 1 .. Len(control[k]) |-> late(k)[i]] /\ Len(control[k]) \in Nat
      BY <2>4, <2>5
    <2> HIDE DEF late
    <2>7. late(k) \in Seq(Control)
      <3>1. \A i \in 1 .. Len(control[k]) : late(k)[i] \in Control
        BY <2>3, <2>5
      <3> QED
        BY <2>6, <3>1, SequenceOfItems
    <2> QED
      BY <2>3, <2>5, <2>7
  <1> HIDE DEF row, late
  <1>5. /\ attachment' \in [Key -> Attachment] /\ control' \in [Key -> Seq(Control)]
        /\ \A k \in Key : attachment'[k].purpose = attachment[k].purpose
    BY <1>1, <1>3, <1>4
  <1>6. IInv' /\ KindsAtFirst'
    BY <1>1, SameAggregate
  <1>7. CandidatesHold'
    <2>1. \A l \in Leg : candidate[l].generation # 0 => <<l, candidate[l].generation>> \in Key
      BY BoundAssumption DEF BInv, TablesTyped, Candidate, Key, Generation
    <2> QED
      BY <1>1, <1>5, <2>1
         DEF BInv, CandidatesHold, Attachable, PendingReplacement, vars, aggregate
  <1>8. TablesTyped'
    BY <1>1, <1>2, <1>5 DEF BInv, TablesTyped
  <1>9. BindingsAreCurrent' /\ OwnersMatch' /\ RemoteLegsAreBound' /\ RoutesHaveOneOwner'
    BY <1>1 DEF BInv, TablesAgree, BindingsAreCurrent, OwnersMatch, RemoteLegsAreBound, Bound,
                RoutesHaveOneOwner, vars, aggregate
  <1>10. ControlTargetsAreLive'
    BY <1>1, <1>4 DEF BInv, TablesAgree, ControlTargetsAreLive, Listening, Unfinished, vars,
                      aggregate
  <1>11. ParallelOwners'
    <2>1. \A o \in owners : KeyOf(o) \in Key
      BY DEF BInv, TablesTyped, Link, Key, KeyOf
    <2> QED
      BY <1>1, <1>5, <2>1 DEF BInv, ParallelOwners, Parallel, KeyOf, vars, aggregate
  <1> QED
    BY <1>6, <1>7, <1>8, <1>9, <1>10, <1>11 DEF BInv, TablesAgree

\* inspect_attachment.
LEMMA InspectAttachmentKeeps ==
    ASSUME BInv, NEW l \in Leg, NEW g \in Generation, InspectAttachment(l, g)
    PROVE  BInv'
  <1>1. /\ UNCHANGED <<vars, fence, lease, attachment, bindings, owners, used, receipts, control>>
        /\ Attachable(l, g)
        /\ candidate' = [candidate EXCEPT ![l] =
                            [generation |-> g, version |-> version, by |-> fence]]
    BY DEF InspectAttachment
  <1>2. candidate \in [Leg -> Candidate] /\ fence \in Fence /\ version \in Nat
    BY BoundAssumption DEF BInv, TablesTyped, IInv, TypeOK
  <1>3. [generation |-> g, version |-> version, by |-> fence] \in Candidate
    BY <1>2, BoundAssumption DEF Candidate, Generation
  <1>4. IInv' /\ KindsAtFirst'
    BY <1>1, SameAggregate
  <1>5. TablesTyped'
    BY <1>1, <1>2, <1>3 DEF BInv, TablesTyped
  <1>6. ASSUME NEW m \in Leg, candidate'[m].generation # 0
        PROVE  /\ candidate'[m].version <= version
               /\ candidate'[m].version = version => Attachable(m, candidate'[m].generation)
    <2>1. CASE m = l
      <3>1. candidate'[m].generation = g /\ candidate'[m].version = version
        BY <1>1, <1>2, <2>1
      <3> QED
        BY <1>1, <1>2, <2>1, <3>1
    <2>2. CASE m # l
      <3>1. candidate'[m] = candidate[m]
        BY <1>1, <1>2, <2>2
      <3> QED
        BY <1>6, <3>1 DEF BInv, CandidatesHold
    <2> QED
      BY <2>1, <2>2
  <1>7. CandidatesHold'
    BY <1>1, <1>6 DEF CandidatesHold, Attachable, PendingReplacement, vars, aggregate
  <1>8. TablesAgree' /\ RoutesHaveOneOwner' /\ ParallelOwners'
    BY <1>1 DEF BInv, TablesAgree, BindingsAreCurrent, OwnersMatch, RemoteLegsAreBound, Bound,
                ControlTargetsAreLive, Listening, RoutesHaveOneOwner, ParallelOwners, Parallel,
                vars, aggregate
  <1> QED
    BY <1>4, <1>5, <1>7, <1>8 DEF BInv

\* bind_outbound_connection.
LEMMA BindOutboundKeeps ==
    ASSUME BInv, NEW l \in Leg, NEW c \in Conn, BindOutboundConnection(l, c)
    PROVE  BInv'
  <1> DEFINE link == [conn |-> c, leg |-> l, generation |-> binding[l]]
  <1>1. /\ UNCHANGED <<vars, fence, lease, attachment, candidate, control>>
        /\ bindings' = bindings \cup {link} /\ owners' = owners \cup {link}
        /\ legState[l] = "pending" /\ \A b \in bindings : b.leg # l
        /\ \A o \in owners : KeyOf(o) # KeyOf(link)
    BY DEF BindOutboundConnection
  <1>2. link \in Link /\ link.leg = l /\ link.generation = binding[l]
    BY DEF BInv, IInv, TypeOK, Link
  <1> HIDE DEF link
  <1>3. IInv' /\ KindsAtFirst' /\ CandidatesHold'
    BY <1>1, SameAggregate
  <1>4. TablesTyped'
    BY <1>1, <1>2 DEF BInv, TablesTyped
  <1>5. BindingsAreCurrent'
    BY <1>1, <1>2 DEF BInv, TablesAgree, BindingsAreCurrent, vars, aggregate
  <1>6. OwnersMatch'
    BY <1>1 DEF BInv, TablesAgree, OwnersMatch, vars, aggregate
  <1>7. RemoteLegsAreBound' /\ ControlTargetsAreLive'
    BY <1>1 DEF BInv, TablesAgree, RemoteLegsAreBound, Bound, ControlTargetsAreLive, Listening,
                vars, aggregate
  <1>8. RoutesHaveOneOwner' /\ ParallelOwners'
    BY <1>1 DEF BInv, RoutesHaveOneOwner, ParallelOwners, Parallel, KeyOf, vars, aggregate
  <1> QED
    BY <1>3, <1>4, <1>5, <1>6, <1>7, <1>8 DEF BInv, TablesAgree

\* A step that only writes control effects of current bindings.
LEMMA ControlStep ==
    ASSUME BInv, UNCHANGED <<vars, fence, lease, attachment, candidate, bindings, owners>>,
           control' \in [Key -> Seq(Control)], NEW l \in Leg, Listening(l),
           \A k \in Key : k # <<l, binding[l]>> => control'[k] = control[k]
    PROVE  BInv'
  <1>1. IInv' /\ KindsAtFirst' /\ CandidatesHold'
    BY SameAggregate
  <1>2. TablesTyped'
    BY DEF BInv, TablesTyped
  <1>3. BindingsAreCurrent' /\ OwnersMatch' /\ RemoteLegsAreBound'
        /\ RoutesHaveOneOwner' /\ ParallelOwners'
    BY DEF BInv, TablesAgree, BindingsAreCurrent, OwnersMatch, RemoteLegsAreBound, Bound,
           RoutesHaveOneOwner, ParallelOwners, Parallel, vars, aggregate
  <1>4. ControlTargetsAreLive'
    BY DEF BInv, TablesAgree, ControlTargetsAreLive, Listening, vars, aggregate
  <1> QED
    BY <1>1, <1>2, <1>3, <1>4 DEF BInv, TablesAgree

\* The control outbox.
LEMMA ControlWorkKeeps ==
    ASSUME BInv, NEW l \in Leg, ControlWork(l)
    PROVE  BInv'
  <1> DEFINE k == <<l, binding[l]>>
  <1>1. k \in Key /\ control \in [Key -> Seq(Control)] /\ control[k] \in Seq(Control)
        /\ fence \in Fence /\ 0 \in Fence
    BY BindingBoundsAssumption DEF BInv, IInv, TypeOK, TablesTyped, Key, Fence
  <1>2. CASE EnqueueControl(l)
    <2> DEFINE s == Append(control[k], [status |-> "ready", by |-> 0])
    <2>1. /\ control' = [control EXCEPT ![k] = s] /\ Listening(l)
          /\ UNCHANGED <<vars, fence, lease, attachment, candidate, bindings, owners>>
      BY <1>2 DEF EnqueueControl
    <2>2. s \in Seq(Control)
      BY <1>1 DEF Control
    <2> HIDE DEF s, k
    <2>3. control' \in [Key -> Seq(Control)] /\ \A j \in Key : j # k => control'[j] = control[j]
      BY <1>1, <2>1, <2>2
    <2> QED
      BY <2>1, <2>3, ControlStep DEF k
  <1>3. ASSUME NEW i \in 1 .. Len(control[k]), NEW row \in Control,
               Listening(l), SetControl(l, i, row)
        PROVE  BInv'
    <2> DEFINE s == [control[k] EXCEPT ![i] = row]
    <2>1. /\ control' = [control EXCEPT ![k] = s]
          /\ UNCHANGED <<vars, fence, lease, attachment, candidate, bindings, owners>>
      BY <1>3 DEF SetControl
    <2>2. s \in Seq(Control)
      BY <1>1
    <2> HIDE DEF s, k
    <2>3. control' \in [Key -> Seq(Control)] /\ \A j \in Key : j # k => control'[j] = control[j]
      BY <1>1, <2>1, <2>2
    <2> QED
      BY <1>3, <2>1, <2>3, ControlStep DEF k
  <1>4. ASSUME NEW i \in 1 .. Len(control[k]), ClaimControlEffect(l, i)
        PROVE  BInv'
    <2>1. [status |-> "claimed", by |-> fence] \in Control
      BY <1>1 DEF Control
    <2>2. Listening(l) /\ SetControl(l, i, [status |-> "claimed", by |-> fence])
      BY <1>4 DEF ClaimControlEffect, ControlClaimable
    <2> QED
      BY <1>3, <2>1, <2>2
  <1>5. ASSUME NEW i \in 1 .. Len(control[k]), ExecuteControlEffect(l, i)
        PROVE  BInv'
    <2>1. [status |-> "done", by |-> 0] \in Control
      BY <1>1 DEF Control
    <2>2. Listening(l) /\ SetControl(l, i, [status |-> "done", by |-> 0])
      BY <1>5 DEF ExecuteControlEffect, ReconcileControl
    <2> QED
      BY <1>3, <2>1, <2>2
  <1> QED
    BY <1>2, <1>4, <1>5 DEF ControlWork

-----------------------------------------------------------------------------
(***************************************************************************)
(* The promotion of a replacement.                                         *)
(***************************************************************************)

\* apply_replacement_connection: the link of the previous generation is the only
\* one retired, and the new one takes its place.
LEMMA PromotionLinks ==
    ASSUME BInv, NEW r \in replacement, NEW link \in Link,
           link.leg = r.leg, link.generation = r.pending,
           binding' = [binding EXCEPT ![r.leg] = r.pending],
           legState' = Reported(r.leg, "connected"), callState = "transferring",
           bindings' = Promoted(bindings \ RetiredLinks(bindings), link),
           owners' = (owners \ RetiredLinks(bindings)) \cup {link},
           r.kind = "telnyx" => link \in owners
    PROVE  /\ bindings' \subseteq Link /\ owners' \subseteq Link
           /\ BindingsAreCurrent' /\ RemoteLegsAreBound'
           /\ owners' = bindings' /\ RoutesHaveOneOwner'
  <1>1. /\ r.leg \in Leg /\ r.previous \in Nat /\ r.pending \in Nat /\ r.pending # r.previous
        /\ binding[r.leg] = r.previous /\ \A x \in replacement : x = r
    BY BoundAssumption DEF BInv, IInv, TypeOK, Replacement, Generation, Validate,
       ValidReplacement, OneReplacement
  <1>2. /\ bindings \subseteq Link /\ owners \subseteq Link /\ bindings \subseteq owners
        /\ \A b \in bindings : b.generation = binding[b.leg]
        /\ \A b1, b2 \in bindings : b1.leg = b2.leg => b1 = b2
        /\ \A o1, o2 \in owners : KeyOf(o1) = KeyOf(o2) => o1 = o2
        /\ \A o \in owners \ bindings : Parallel(o)
        /\ RemoteLegsAreBound
    BY DEF BInv, TablesTyped, TablesAgree, BindingsAreCurrent, OwnersMatch,
           RoutesHaveOneOwner, ParallelOwners
  <1>3. \A l \in Leg : legState[l] \in {"connected", "held"}
    BY DEF BInv, IInv, Validate, ValidLegs
  <1>4. /\ binding'[r.leg] = r.pending /\ legState'[r.leg] = "connected"
        /\ \A l \in Leg \ {r.leg} : binding'[l] = binding[l] /\ legState'[l] = legState[l]
    BY <1>1 DEF Reported, BInv, IInv, TypeOK
  <1>5. \A b \in bindings : b \in RetiredLinks(bindings) <=> b.leg = r.leg
    <2> SUFFICES ASSUME NEW b \in bindings
                 PROVE  b \in RetiredLinks(bindings) <=> b.leg = r.leg
      OBVIOUS
    <2>1. b.leg \in Leg /\ b.generation = binding[b.leg]
      BY <1>2 DEF Link
    <2>2. CASE b.leg = r.leg
      BY <1>1, <1>4, <2>1, <2>2 DEF RetiredLinks
    <2>3. CASE b.leg # r.leg
      BY <1>3, <1>4, <2>1, <2>3 DEF RetiredLinks, Served
    <2> QED
      BY <2>2, <2>3
  <1>6. bindings' = {b \in bindings : b.leg # r.leg} \cup {link}
    BY <1>5 DEF Promoted
  <1>7. ASSUME NEW o \in owners \ bindings
        PROVE  o = link
    <2>1. KeyOf(o) = <<r.leg, r.pending>> /\ r.kind = "telnyx"
      BY <1>1, <1>2 DEF Parallel
    <2>2. KeyOf(link) = <<r.leg, r.pending>>
      BY DEF KeyOf
    <2> QED
      BY <1>2, <2>1, <2>2
  <1>8. RetiredLinks(bindings) \subseteq bindings
    BY DEF RetiredLinks
  <1>9. owners' = bindings'
    <2>1. owners' \subseteq bindings'
      BY <1>5, <1>6, <1>7
    <2>2. bindings' \subseteq owners'
      BY <1>2, <1>5, <1>6, <1>8
    <2> QED
      BY <2>1, <2>2
  <1>10. bindings' \subseteq Link /\ BindingsAreCurrent'
    <2>1. \A b \in bindings' : b \in Link /\ b.generation = binding'[b.leg]
                                 /\ legState'[b.leg] \in Served
      <3> SUFFICES ASSUME NEW b \in bindings'
                   PROVE  b \in Link /\ b.generation = binding'[b.leg]
                            /\ legState'[b.leg] \in Served
        OBVIOUS
      <3>1. CASE b = link
        BY <1>4, <3>1 DEF Served
      <3>2. CASE b \in bindings /\ b.leg # r.leg
        <4>1. b \in Link /\ b.leg \in Leg
          BY <1>2, <3>2 DEF Link
        <4> QED
          BY <1>2, <1>3, <1>4, <3>2, <4>1 DEF Served
      <3> QED
        BY <1>6, <3>1, <3>2
    <2>2. \A b1, b2 \in bindings' : b1.leg = b2.leg => b1 = b2
      BY <1>2, <1>6
    <2> QED
      BY <2>1, <2>2 DEF BindingsAreCurrent
  <1>11. RemoteLegsAreBound'
    <2> SUFFICES ASSUME NEW l \in Leg, Initiator[l] = "remote"
                 PROVE  \E b \in bindings' : b.leg = l /\ b.generation = binding'[l]
      BY DEF RemoteLegsAreBound, Bound
    <2>1. CASE l = r.leg
      BY <1>4, <1>6, <2>1
    <2>2. CASE l # r.leg
      <3>1. \E b \in bindings : b.leg = l /\ b.generation = binding[l]
        BY <1>2, <1>3 DEF RemoteLegsAreBound, Bound
      <3> QED
        BY <1>4, <1>6, <2>2, <3>1
    <2> QED
      BY <2>1, <2>2
  <1>12. RoutesHaveOneOwner'
    <2>1. \A b \in bindings' : b \in Link
      BY <1>10
    <2>2. \A b1, b2 \in bindings' : b1.leg = b2.leg => b1 = b2
      BY <1>10 DEF BindingsAreCurrent
    <2>3. \A o1, o2 \in owners' : KeyOf(o1) = KeyOf(o2) => o1 = o2
      BY <1>9, <2>2 DEF KeyOf
    <2> QED
      BY <2>3 DEF RoutesHaveOneOwner, KeyOf
  <1> QED
    BY <1>9, <1>10, <1>11, <1>12

\* commit_service_command with a replacement connection.
LEMMA PromoteReplacementKeeps ==
    ASSUME BInv, NEW c \in Conn, NEW d \in 0 .. MaxDeadline, NEW at \in Time,
           PromoteReplacement(c, d, at)
    PROVE  BInv'
  <1>1. PICK r \in replacement :
            LET link == [conn |-> c, leg |-> r.leg, generation |-> r.pending]
                left == bindings \ RetiredLinks(bindings)
            IN  /\ r.kind = "telnyx" => link \in owners
                /\ FinishLegReplacement(d, r.pending, TRUE, at)
                /\ bindings' = Promoted(left, link)
                /\ owners' = (owners \ RetiredLinks(bindings)) \cup {link}
                /\ attachment' = [k \in Key |-> [attachment[k] EXCEPT
                                     !.revoked = @ \/ k \in RetiredAttachments]]
                /\ control' = [k \in Key |-> IF k[1] = r.leg
                                             THEN RetireControl(control[k])
                                             ELSE control[k]]
                /\ UNCHANGED <<fence, lease, candidate>>
    BY DEF PromoteReplacement
  <1> DEFINE link == [conn |-> c, leg |-> r.leg, generation |-> r.pending]
             row(k) == [attachment[k] EXCEPT
                           !.revoked = attachment[k].revoked \/ k \in RetiredAttachments]
  <1>2. /\ r.kind = "telnyx" => link \in owners
        /\ bindings' = Promoted(bindings \ RetiredLinks(bindings), link)
        /\ owners' = (owners \ RetiredLinks(bindings)) \cup {link}
    BY <1>1
  <1>3. IInv /\ TablesTyped /\ r.leg \in Leg /\ r.pending \in Generation
        /\ \A x \in replacement : x = r
    BY DEF BInv, IInv, TypeOK, Replacement, OneReplacement
  <1>4. link \in Link /\ link.leg = r.leg /\ link.generation = r.pending
    BY <1>3 DEF Link
  <1>5. /\ callState = "transferring" /\ callState' = "active"
        /\ legState' = Reported(r.leg, "connected")
        /\ binding' = [binding EXCEPT ![r.leg] = r.pending]
        /\ replacement' = {} /\ version' = version + 1
    BY <1>1, <1>3 DEF FinishLegReplacement, Decide
  <1>6. IInv'
    BY <1>1, <1>3, NextIInv DEF Next, Settle
  <1> HIDE DEF link
  <1>7. /\ bindings' \subseteq Link /\ owners' \subseteq Link
        /\ BindingsAreCurrent' /\ RemoteLegsAreBound'
        /\ owners' = bindings' /\ RoutesHaveOneOwner'
    BY <1>2, <1>4, <1>5, PromotionLinks
  <1>8. OwnersMatch' /\ ParallelOwners'
    BY <1>7 DEF OwnersMatch, ParallelOwners
  <1>9. attachment' \in [Key -> Attachment]
    <2>1. attachment' = [k \in Key |-> row(k)]
      BY <1>1
    <2>2. ASSUME NEW k \in Key
          PROVE  row(k) \in Attachment
      <3>1. attachment[k] \in Attachment
            /\ (attachment[k].revoked \/ k \in RetiredAttachments) \in BOOLEAN
        BY <1>3 DEF TablesTyped
      <3> QED
        BY <3>1, RevokedAttachment
    <2> HIDE DEF row
    <2> QED
      BY <2>1, <2>2
  <1>10. control' \in [Key -> Seq(Control)] /\ ControlTargetsAreLive'
    <2>1. control' = [k \in Key |-> IF k[1] = r.leg THEN RetireControl(control[k])
                                    ELSE control[k]]
      BY <1>1
    <2>2. \A k \in Key : control[k] \in Seq(Control) /\ k[1] \in Leg
      BY <1>3 DEF TablesTyped, Key
    <2>3. \A l \in Leg \ {r.leg} : binding'[l] = binding[l] /\ legState'[l] = legState[l]
      BY <1>3, <1>5 DEF Reported, IInv, TypeOK
    <2>4. control' \in [Key -> Seq(Control)]
      BY <2>1, <2>2, RetiredControl
    <2>5. ASSUME NEW k \in Key, NEW i \in DOMAIN control'[k], Unfinished(control'[k][i])
          PROVE  binding'[k[1]] = k[2] /\ legState'[k[1]] \in {"connected", "held"}
      <3>1. k[1] # r.leg
        BY <2>1, <2>2, <2>5, RetiredControl
      <3>2. control'[k] = control[k]
        BY <2>1, <3>1
      <3>3. binding[k[1]] = k[2] /\ legState[k[1]] \in {"connected", "held"}
        BY <2>5, <3>2 DEF BInv, TablesAgree, ControlTargetsAreLive, Listening
      <3> QED
        BY <2>2, <2>3, <3>1, <3>3
    <2>6. ControlTargetsAreLive'
      BY <2>5 DEF ControlTargetsAreLive, Listening
    <2> QED
      BY <2>4, <2>6
  <1>11. TablesTyped'
    BY <1>1, <1>3, <1>7, <1>9, <1>10 DEF TablesTyped
  <1>12. CandidatesHold'
    <2>1. /\ version \in Nat /\ candidate' = candidate
          /\ \A l \in Leg : candidate[l].version \in Nat
      BY <1>1, <1>3, BoundAssumption DEF IInv, TypeOK, TablesTyped, Candidate
    <2>2. \A l \in Leg : candidate[l].generation # 0 => candidate[l].version <= version
      BY DEF BInv, CandidatesHold
    <2>3. \A l \in Leg : candidate'[l].generation # 0 =>
              candidate'[l].version <= version' /\ candidate'[l].version # version'
      BY <1>5, <2>1, <2>2
    <2> QED
      BY <2>3 DEF CandidatesHold
  <1>13. KindsAtFirst'
    BY <1>5 DEF KindsAtFirst
  <1> QED
    BY <1>6, <1>7, <1>8, <1>10, <1>11, <1>12, <1>13 DEF BInv, TablesAgree

-----------------------------------------------------------------------------
(***************************************************************************)
(* The invariant, and the theorem.                                         *)
(***************************************************************************)

\* The tables are empty and the call is pending at first.
LEMMA BInitBInv == BInit => BInv
  <1> SUFFICES ASSUME BInit PROVE BInv
    OBVIOUS
  <1>1. IInv
    BY InitIInv DEF BInit
  <1>2. TablesTyped
    <2>1. 0 \in Fence /\ 1 \in Fence
      BY BindingBoundsAssumption DEF Fence
    <2>2. [purpose |-> "none", by |-> 0, consumed |-> FALSE, revoked |-> FALSE] \in Attachment
      BY <2>1 DEF Attachment
    <2>3. [generation |-> 0, version |-> 0, by |-> 0] \in Candidate
      BY <2>1, BoundAssumption DEF Candidate
    <2>4. <<>> \in Seq(Control)
      OBVIOUS
    <2> QED
      BY <2>1, <2>2, <2>3, <2>4 DEF BInit, TablesTyped
  <1>3. BindingsAreCurrent /\ OwnersMatch /\ RoutesHaveOneOwner /\ ParallelOwners
    BY DEF BInit, BindingsAreCurrent, OwnersMatch, RoutesHaveOneOwner, ParallelOwners
  <1>4. RemoteLegsAreBound /\ ControlTargetsAreLive
    BY DEF BInit, Init, RemoteLegsAreBound, ControlTargetsAreLive
  <1>5. CandidatesHold /\ KindsAtFirst
    BY DEF BInit, Init, CandidatesHold, KindsAtFirst
  <1> QED
    BY <1>1, <1>2, <1>3, <1>4, <1>5 DEF BInv, TablesAgree

\* Every transaction preserves the invariant.
LEMMA BNextBInv == BInv /\ [BNext]_bvars => BInv'
  <1> SUFFICES ASSUME BInv, [BNext]_bvars PROVE BInv'
    OBVIOUS
  <1>1. CASE UNCHANGED bvars
    <2>1. UNCHANGED vars /\ UNCHANGED <<fence, lease, attachment, candidate, bindings, owners,
                                        control>>
      BY <1>1 DEF bvars, tables
    <2>2. IInv' /\ KindsAtFirst' /\ CandidatesHold'
      BY <2>1, SameAggregate
    <2>3. TablesTyped' /\ RoutesHaveOneOwner' /\ ParallelOwners'
      BY <2>1 DEF BInv, TablesTyped, RoutesHaveOneOwner, ParallelOwners, Parallel, vars, aggregate
    <2>4. TablesAgree'
      BY <2>1 DEF BInv, TablesAgree, BindingsAreCurrent, OwnersMatch, RemoteLegsAreBound, Bound,
                  ControlTargetsAreLive, Listening, vars, aggregate
    <2> QED
      BY <2>2, <2>3, <2>4 DEF BInv
  <1>2. CASE BNext
    BY <1>2, RegisterWorkerKeeps, ClaimRestartCallKeeps, InspectAttachmentKeeps,
       BindOutboundKeeps, ConsumeAttachmentKeeps, BoundReportKeeps, UnboundReportKeeps,
       ControlWorkKeeps, OtherCommandKeeps, PromoteReplacementKeeps DEF BNext
  <1> QED
    BY <1>1, <1>2

\* A transaction of the SQL repository is one of CallBindings.
LEMMA TransactionsAreSteps == [SNext]_svars => [BNext]_bvars
  BY DEF SNext, Operation, Registration, OtherReport, Promotion, Inspection, Consumption,
         OutboundBind, GuardedReport, RecordInitialContext, Controls, BNext, svars

\* The inductive invariant holds in every reachable state.
THEOREM StoreInvariance == SSpec => []BInv
  <1>1. SInit => BInv
    BY BInitBInv DEF SInit
  <1>2. BInv /\ [SNext]_svars => BInv'
    BY BNextBInv, TransactionsAreSteps
  <1> QED
    BY <1>1, <1>2, PTL DEF SSpec

\* However attachments, reports, rotations, replacements, control effects and a
\* restart interleave, the connection tables agree with the aggregate: bindings
\* are current, owners are bound or pending, a leg its remote side signals can
\* always report, and no control effect is left for a leg that has gone.
THEOREM TablesCorrect == SSpec => []TablesAgree
  <1>1. BInv => TablesAgree
    BY DEF BInv
  <1> QED
    BY <1>1, StoreInvariance, PTL

-----------------------------------------------------------------------------
(***************************************************************************)
(* What any decision does to the parts of the aggregate that the rows of   *)
(* the SQL tables outlive: it starts fresh routes only, generations grow,  *)
(* no leg becomes pending again and a new replacement has a fresh route.   *)
(***************************************************************************)
Starts == started' = started \cup Starting /\ started \cap Starting = {}

Grows ==
    /\ \A l \in Leg : binding[l] <= binding'[l]
    /\ \A l \in Leg : legState'[l] = "pending" => legState[l] = "pending"
    /\ callState' \in SetupState => callState \in SetupState

FreshReplacement ==
    \A r \in replacement' \ replacement :
        /\ <<r.leg, r.pending>> \notin started
        /\ r.kind # "telnyx" => Issued(<<r.leg, r.pending>>) = "none"

Moves == Starts /\ Grows /\ FreshReplacement

\* Reports that advance or end a leg.
LEMMA ReportStarts ==
    ASSUME IInv, NEW at \in Time, NEW l \in Leg, NEW g \in Generation, LegReport(l, g, at)
    PROVE  started' = started \cup Starting
  <1>1. CASE \/ LegConnectsCall(l, g, at) \/ ProviderMediaStarted(l, g, at)
             \/ ProviderMediaAttached(l, g, at) \/ \E s \in LegState : LegAdvances(l, g, s, at)
    BY <1>1 DEF LegConnectsCall, ProviderMediaStarted, ProviderMediaAttached, LegAdvances, Emit,
                Starting
  <1>2. ASSUME NEW s \in LegState,
               LegReportsEnd(l, g, s, at) \/ SourceTerminatedBeforeAnswer(l, g, s, at)
        PROVE  started' = started \cup Starting
    <2>1. LegLeaves(l, g, Reported(l, s))
      BY <1>2 DEF LegReportsEnd, SourceTerminatedBeforeAnswer
    <2>2. CASE EndingProgress(l, g, Reported(l, s))
      BY <2>2 DEF EndingProgress, FinalizeTerminal, Emit, Starting
    <2>3. ASSUME NEW out, BeginEndingInternal(Reported(l, s), out, 0, {<<l, g>>}, {})
          PROVE  started' = started \cup Starting
      BY <2>3 DEF BeginEndingInternal, Emit, Starting
    <2> QED
      BY <2>1, <2>2, <2>3 DEF LegLeaves
  <1> QED
    BY <1>1, <1>2 DEF LegReport

\* Requests, results and deadlines.
LEMMA OtherStarts ==
    ASSUME IInv, NEW at \in Time, NEW d \in 0 .. MaxDeadline,
           Request(at) \/ Settle(d, at) \/ Timeout(d, at)
    PROVE  started' = started \cup Starting
  <1>1. CASE Request(at)
    <2>1. ASSUME NEW t, BeginEnding(t, at)
          PROVE  started' = started \cup Starting
      BY <2>1 DEF BeginEnding, BeginEndingInternal, Emit, Starting
    <2>2. ASSUME NEW t, StartConnecting(at, t) \/ BeginTransfer(t, at)
          PROVE  started' = started \cup Starting
      BY <2>2 DEF StartConnecting, BeginTransfer, Emit, Starting
    <2>3. ASSUME NEW l, NEW g, RotateLegBinding(l, g, at)
          PROVE  started' = started \cup Starting
      BY <2>3 DEF RotateLegBinding, Emit, Starting
    <2>4. ASSUME NEW l, NEW n, NEW t, BeginLegReplacement(l, n, t, at)
          PROVE  started' = started \cup Starting
      BY <2>4 DEF BeginLegReplacement, Emit, Starting
    <2>5. ASSUME NEW k, NEW t, ArmDeadline(k, t, at)
          PROVE  started' = started \cup Starting
      BY <2>5 DEF ArmDeadline, Emit, Starting
    <2> QED
      BY <1>1, <2>1, <2>2, <2>3, <2>4, <2>5 DEF Request
  <1>2. CASE Settle(d, at)
    <2>1. ASSUME NEW g, NEW c, FinishLegReplacement(d, g, c, at)
          PROVE  started' = started \cup Starting
      BY <2>1 DEF FinishLegReplacement, Emit, Starting
    <2>2. CASE FinishTransfer(d, at)
      BY <2>2 DEF FinishTransfer, Emit, Starting
    <2> QED
      BY <1>2, <2>1, <2>2 DEF Settle
  <1>3. CASE Timeout(d, at)
    <2>1. CASE EndingDeadlineElapsed(d, at)
      BY <2>1 DEF EndingDeadlineElapsed, FinalizeTerminal, Emit, Starting
    <2>2. CASE ReplacementDeadlineElapsed(d, at)
      BY <2>2 DEF ReplacementDeadlineElapsed, Emit, Starting
    <2>3. ASSUME NEW k, NEW t, DeadlineElapsed(k, d, t, at)
          PROVE  started' = started \cup Starting
      BY <2>3 DEF DeadlineElapsed, BeginEndingInternal, Emit, Starting
    <2> QED
      BY <1>3, <2>1, <2>2, <2>3 DEF Timeout
  <1> QED
    BY <1>1, <1>2, <1>3

\* A leg that leaves, or advances, is not pending after it.
LEMMA ReportGrows ==
    ASSUME IInv, NEW at \in Time, NEW l \in Leg, NEW g \in Generation, LegReport(l, g, at)
    PROVE  /\ binding' = binding /\ replacement' \subseteq replacement
           /\ \A m \in Leg : legState'[m] = "pending" => legState[m] = "pending"
  <1>1. CASE \/ LegConnectsCall(l, g, at) \/ ProviderMediaStarted(l, g, at)
             \/ ProviderMediaAttached(l, g, at) \/ \E s \in LegState : LegAdvances(l, g, s, at)
    <2>1. binding' = binding /\ replacement' = replacement
      BY <1>1 DEF LegConnectsCall, ProviderMediaStarted, ProviderMediaAttached, LegAdvances
    <2>2. \/ legState' = legState \/ legState' = ProviderSignaling(l)
          \/ \E s \in LegState \ {"pending"} : legState' = Reported(l, s)
      BY <1>1 DEF LegConnectsCall, ProviderMediaStarted, ProviderMediaAttached, LegAdvances,
                  LegState
    <2> QED
      BY <2>1, <2>2 DEF Reported, ProviderSignaling, IInv, TypeOK
  <1>2. ASSUME NEW s \in LegState,
               LegReportsEnd(l, g, s, at) \/ SourceTerminatedBeforeAnswer(l, g, s, at)
        PROVE  /\ binding' = binding /\ replacement' \subseteq replacement
               /\ \A m \in Leg : legState'[m] = "pending" => legState[m] = "pending"
    <2> DEFINE ls == Reported(l, s)
    <2>1. LegLeaves(l, g, ls) /\ s # "pending"
      BY <1>2 DEF LegReportsEnd, SourceTerminatedBeforeAnswer, Terminal
    <2>2. \A m \in Leg : ls[m] = "pending" => legState[m] = "pending"
      BY <2>1 DEF Reported, IInv, TypeOK
    <2> HIDE DEF ls
    <2>3. CASE EndingProgress(l, g, ls)
      BY <2>2, <2>3 DEF EndingProgress, FinalizeTerminal
    <2>4. ASSUME NEW out, BeginEndingInternal(ls, out, 0, {<<l, g>>}, {})
          PROVE  /\ binding' = binding /\ replacement' \subseteq replacement
                 /\ \A m \in Leg : legState'[m] = "pending" => legState[m] = "pending"
      BY <2>2, <2>4 DEF BeginEndingInternal
    <2> QED
      BY <2>1, <2>3, <2>4 DEF LegLeaves
  <1> QED
    BY <1>1, <1>2 DEF LegReport

\* Requests, results and deadlines.
LEMMA OtherGrows ==
    ASSUME IInv, NEW at \in Time, NEW d \in 0 .. MaxDeadline,
           Request(at) \/ Settle(d, at) \/ Timeout(d, at)
    PROVE  /\ \A l \in Leg : binding[l] <= binding'[l]
           /\ \A m \in Leg : legState'[m] = "pending" => legState[m] = "pending"
  <1> DEFINE Held == /\ \A l \in Leg : binding[l] <= binding'[l]
                     /\ \A m \in Leg : legState'[m] = "pending" => legState[m] = "pending"
  <1> SUFFICES Held
    OBVIOUS
  <1>1. \A l \in Leg : binding[l] \in Nat
    BY BoundAssumption DEF IInv, TypeOK, Generation
  <1>2. ASSUME binding' = binding,
               \A m \in Leg : legState'[m] = "pending" => legState[m] = "pending"
        PROVE  Held
    BY <1>1, <1>2
  <1>3. ASSUME NEW t, StartConnecting(at, t)
        PROVE  Held
    BY <1>2, <1>3 DEF StartConnecting
  <1>4. ASSUME NEW l \in Leg, NEW g, RotateLegBinding(l, g, at)
        PROVE  Held
    BY <1>1, <1>4 DEF RotateLegBinding, Reported, IInv, TypeOK
  <1>5. ASSUME NEW k, NEW t, ArmDeadline(k, t, at) \/ BeginTransfer(t, at) \/ FinishTransfer(d, at)
        PROVE  Held
    BY <1>2, <1>5 DEF ArmDeadline, BeginTransfer, FinishTransfer
  <1>6. ASSUME NEW l \in Leg, NEW n, NEW t, BeginLegReplacement(l, n, t, at)
        PROVE  Held
    BY <1>2, <1>6 DEF BeginLegReplacement, Reported, IInv, TypeOK
  <1>7. ASSUME NEW out, NEW t, NEW fired, BeginEndingInternal(legState, out, t, {}, fired)
        PROVE  Held
    BY <1>2, <1>7 DEF BeginEndingInternal
  <1>8. ASSUME NEW g, NEW c, FinishLegReplacement(d, g, c, at)
        PROVE  Held
    <2>1. PICK r \in replacement :
              /\ g = r.pending /\ legState' = Reported(r.leg, "connected")
              /\ binding' = IF c THEN [binding EXCEPT ![r.leg] = g] ELSE binding
      BY <1>8 DEF FinishLegReplacement
    <2>2. /\ r.leg \in Leg /\ binding[r.leg] = r.previous /\ r.pending > r.previous
          /\ r.pending \in Nat
      BY BoundAssumption DEF IInv, TypeOK, Replacement, Generation, Validate, ValidReplacement
    <2> QED
      BY <1>1, <2>1, <2>2 DEF Reported, IInv, TypeOK
  <1>9. CASE ReplacementDeadlineElapsed(d, at)
    BY <1>2, <1>9 DEF ReplacementDeadlineElapsed, Reported, IInv, TypeOK
  <1>10. CASE EndingDeadlineElapsed(d, at)
    BY <1>2, <1>10 DEF EndingDeadlineElapsed, FinalizeTerminal
  <1>11. CASE Request(at)
    <2>1. ASSUME NEW t, BeginEnding(t, at)
          PROVE  Held
      BY <1>7, <2>1 DEF BeginEnding
    <2> HIDE DEF Held
    <2> QED
      BY <1>3, <1>4, <1>5, <1>6, <1>11, <2>1 DEF Request
  <1>12. CASE Settle(d, at)
    <2> HIDE DEF Held
    <2> QED
      BY <1>5, <1>8, <1>12 DEF Settle
  <1>13. CASE Timeout(d, at)
    <2>1. ASSUME NEW k, NEW t, DeadlineElapsed(k, d, t, at)
          PROVE  Held
      BY <1>7, <2>1 DEF DeadlineElapsed
    <2> HIDE DEF Held
    <2> QED
      BY <1>9, <1>10, <1>13, <2>1 DEF Timeout
  <1> QED
    BY <1>11, <1>12, <1>13

\* A replacement by another kind than a provider's issues no attachment.
LEMMA OtherKindIssuesNothing ==
    ASSUME NEW l, NEW n \in Kind, NEW t, NEW at, BeginLegReplacement(l, n, t, at), n # "telnyx"
    PROVE  Issued(<<l, NextGeneration(l)>>) = "none"
  <1> DEFINE k == <<l, NextGeneration(l)>>
             U == {Unbridge}
             C == Cancels({"transfer"})
             D == Schedules("transfer")
             S == {Intent("StartLegReplacement", l, NextGeneration(l))}
  <1>1. effects' = U \cup C \cup D \cup S
    BY DEF BeginLegReplacement, Emit
  <1>2. ASSUME NEW e \in {"AwaitLegAttachment", "StartLeg"}
        PROVE  Named(effects', {e}) = {}
    <2>1. Named(U, {e}) = {} /\ Named(S, {e}) = {} /\ Named(D, {e}) = {}
      BY NamedMiss DEF Unbridge, Schedules
    <2>2. Named(C, {e}) = {}
      BY NamedCancels
    <2> HIDE DEF U, C, D, S
    <2>3. Named(U \cup C \cup D \cup S, {e})
            = Named(U, {e}) \cup Named(C, {e}) \cup Named(D, {e}) \cup Named(S, {e})
      BY NamedUnion4
    <2> QED
      BY <1>1, <2>1, <2>2, <2>3
  <1>3. \A r \in replacement' : r.kind # "telnyx"
    BY DEF BeginLegReplacement
  <1> HIDE DEF k
  <1>4. Issued(k) = "none"
    BY <1>2, <1>3 DEF Issued
  <1> QED
    BY <1>4 DEF k

\* Only begin_leg_replacement starts a replacement, of a generation never started.
LEMMA NextReplacement ==
    ASSUME IInv, NEW at \in Time, NEW d \in 0 .. MaxDeadline,
           Request(at) \/ Settle(d, at) \/ Timeout(d, at)
    PROVE  FreshReplacement
  <1>1. ASSUME NEW l \in Leg, NEW n \in Kind, NEW t, BeginLegReplacement(l, n, t, at)
        PROVE  FreshReplacement
    <2>1. replacement' = {[leg |-> l, previous |-> binding[l],
                           pending |-> NextGeneration(l), kind |-> n]}
      BY <1>1 DEF BeginLegReplacement
    <2>2. Cursor(l) \in Nat /\ NextGeneration(l) = Cursor(l) + 1 /\ NextGeneration(l) \in Generation
      BY <1>1, BoundAssumption
         DEF BeginLegReplacement, IInv, TypeOK, NextGeneration, Cursor, Generation
    <2>3. <<l, NextGeneration(l)>> \notin started
      BY <2>2 DEF IInv, GenerationsAreReserved
    <2>4. n # "telnyx" => Issued(<<l, NextGeneration(l)>>) = "none"
      BY <1>1, OtherKindIssuesNothing
    <2>5. \A r \in replacement' : r.leg = l /\ r.pending = NextGeneration(l) /\ r.kind = n
      BY <2>1
    <2> QED
      BY <2>3, <2>4, <2>5 DEF FreshReplacement
  <1>2. ASSUME replacement' \subseteq replacement
        PROVE  FreshReplacement
    BY <1>2 DEF FreshReplacement
  <1>3. CASE Request(at)
    <2>1. ASSUME NEW t, StartConnecting(at, t) \/ BeginTransfer(t, at)
          PROVE  replacement' \subseteq replacement
      BY <2>1 DEF StartConnecting, BeginTransfer
    <2>2. ASSUME NEW l, NEW g, RotateLegBinding(l, g, at)
          PROVE  replacement' \subseteq replacement
      BY <2>2 DEF RotateLegBinding
    <2>3. ASSUME NEW k, NEW t, ArmDeadline(k, t, at)
          PROVE  replacement' \subseteq replacement
      BY <2>3 DEF ArmDeadline
    <2>4. ASSUME NEW t, BeginEnding(t, at)
          PROVE  replacement' \subseteq replacement
      BY <2>4 DEF BeginEnding, BeginEndingInternal
    <2> QED
      BY <1>1, <1>2, <1>3, <2>1, <2>2, <2>3, <2>4 DEF Request
  <1>4. CASE Settle(d, at)
    BY <1>2, <1>4 DEF Settle, FinishTransfer, FinishLegReplacement
  <1>5. CASE Timeout(d, at)
    BY <1>2, <1>5 DEF Timeout, EndingDeadlineElapsed, ReplacementDeadlineElapsed, DeadlineElapsed,
                      FinalizeTerminal, BeginEndingInternal
  <1> QED
    BY <1>3, <1>4, <1>5

\* Setup states are left for good.
LEMMA NextSetup ==
    ASSUME IInv, Next
    PROVE  callState' \in SetupState => callState \in SetupState
  <1>1. "held" \in LegState
    BY DEF LegState
  <1>2. ASSUME NEW at \in Time, NEW l \in Leg, NEW g \in Generation, LegReport(l, g, at)
        PROVE  callState' \in SetupState => callState \in SetupState
    <2>1. CASE \/ LegConnectsCall(l, g, at) \/ ProviderMediaStarted(l, g, at)
               \/ ProviderMediaAttached(l, g, at)
      BY <1>1, <2>1, AdvanceSteady DEF Steady
    <2>2. ASSUME NEW s \in LegState, LegAdvances(l, g, s, at)
          PROVE  callState' \in SetupState => callState \in SetupState
      BY <2>2, AdvanceSteady DEF Steady
    <2>3. ASSUME NEW s \in LegState,
                 LegReportsEnd(l, g, s, at) \/ SourceTerminatedBeforeAnswer(l, g, s, at)
          PROVE  callState' \in SetupState => callState \in SetupState
      BY <2>3, LeavingSteady DEF Steady
    <2> QED
      BY <1>2, <2>1, <2>2, <2>3 DEF LegReport
  <1>3. ASSUME NEW at \in Time, Request(at)
        PROVE  callState' \in SetupState => callState \in SetupState
    BY <1>3, RequestSteady DEF Steady
  <1>4. ASSUME NEW at \in Time, NEW d \in 0 .. MaxDeadline, Timeout(d, at) \/ FinishTransfer(d, at)
        PROVE  callState' \in SetupState => callState \in SetupState
    BY <1>4, OtherSteady DEF Steady
  <1>5. ASSUME NEW at, NEW d, NEW g, NEW c, FinishLegReplacement(d, g, c, at)
        PROVE  callState' \in SetupState => callState \in SetupState
    BY <1>5 DEF FinishLegReplacement, SetupState
  <1> QED
    BY <1>2, <1>3, <1>4, <1>5 DEF Next, Settle

\* Every decision.
LEMMA NextMoves ==
    ASSUME IInv, Next
    PROVE  Moves
  <1>1. started \cap Starting = {}
    BY NextHistory DEF Keeps
  <1>2. callState' \in SetupState => callState \in SetupState
    BY NextSetup
  <1>3. ASSUME NEW at \in Time, NEW l \in Leg, NEW g \in Generation, LegReport(l, g, at)
        PROVE  Moves
    <2>1. \A m \in Leg : binding[m] <= binding[m]
      BY BoundAssumption DEF IInv, TypeOK, Generation
    <2> QED
      BY <1>1, <1>2, <1>3, <2>1, ReportStarts, ReportGrows
         DEF Moves, Starts, Grows, FreshReplacement
  <1>4. ASSUME NEW at \in Time, NEW d \in 0 .. MaxDeadline,
               Request(at) \/ Settle(d, at) \/ Timeout(d, at)
        PROVE  Moves
    BY <1>1, <1>2, <1>4, OtherStarts, OtherGrows, NextReplacement DEF Moves, Starts, Grows
  <1>5. 0 \in 0 .. MaxDeadline
    BY BoundAssumption
  <1> QED
    BY <1>3, <1>4, <1>5 DEF Next

-----------------------------------------------------------------------------
(***************************************************************************)
(* What the rows remember.  These rows outlive the bindings, so they are   *)
(* where a load could find two connections for one route.                  *)
(***************************************************************************)
History == attached \cup outbound \cup promoted
Known == owners \cup History

\* A connection identifier is used once: it names one route for ever.
ConnectionsNameOneRoute ==
    /\ Known \subseteq Link
    /\ \A x \in Known : x.conn \in used
    /\ \A x, y \in Known : x.conn = y.conn => x = y

\* A route has had one connection, by one way of binding unless it was a
\* provider's attachment that a promotion bound.
RoutesHadOneConnection ==
    /\ \A x, y \in History : KeyOf(x) = KeyOf(y) => x = y
    /\ \A o \in outbound, p \in promoted : KeyOf(o) # KeyOf(p)

\* What is bound or owned now is remembered.
OwnersAreRemembered == bindings \subseteq History /\ owners \ bindings \subseteq attached

\* Receipts name generations that have existed; promotions come after the
\* setup, and binds are of legs that Bridgefu signals itself.
ReceiptsArePast ==
    /\ \A x \in outbound \cup promoted : x.generation <= binding[x.leg]
    /\ callState \in SetupState => promoted = {}
    /\ \A o \in outbound : /\ o.leg \in receipts /\ Initiator[o.leg] = "bridgefu"
                           /\ InitialKind[o.leg] # "telnyx"

\* An attachment is issued with the start of its route, once.
AttachmentsAreIssuedOnce ==
    /\ \A k \in Key : attachment[k].purpose # "none" => k \in started
    /\ issued = [k \in Key |-> IF attachment[k].purpose = "none" THEN 0 ELSE 1]

\* The row of an attached connection stays consumed.
AttachedAreConsumed ==
    \A a \in attached :
        /\ attachment[KeyOf(a)].purpose # "none" /\ attachment[KeyOf(a)].consumed
        /\ legState[a.leg] # "pending"

\* While its replacement is in progress an attached connection is an owner, and
\* only a provider's replacement has an attachment.
PendingAreOwned ==
    \A r \in replacement :
        /\ \A a \in attached : KeyOf(a) = <<r.leg, r.pending>> => a \in owners
        /\ r.kind # "telnyx" => attachment[<<r.leg, r.pending>>].purpose = "none"

\* Recorded contexts: one per target, from a connection that was bound.
ContextsArePast ==
    /\ \A x, y \in contexts : x.target = y.target => x = y
    /\ \A x \in contexts :
        /\ x.source \in History /\ x.target \in Key
        /\ x.source.generation <= binding[x.source.leg]
        /\ x.target[2] <= binding[x.target[1]]

\* A binding of a leg that Bridgefu signals and that has no receipt is that of
\* a provider leg.
BindsHaveReceipts ==
    \A b \in bindings :
        Initiator[b.leg] = "bridgefu" /\ kind[b.leg] # "telnyx" => b \in outbound \cup promoted

HInv ==
    /\ ConnectionsNameOneRoute
    /\ RoutesHadOneConnection
    /\ OwnersAreRemembered
    /\ ReceiptsArePast
    /\ AttachmentsAreIssuedOnce
    /\ AttachedAreConsumed
    /\ PendingAreOwned
    /\ ContextsArePast
    /\ BindsHaveReceipts

\* The database holds the repository's tables.
RowsAreCurrent == rows = Snapshot

-----------------------------------------------------------------------------
(***************************************************************************)
(* The history parts, for the steps that leave most of them alone.         *)
(***************************************************************************)

\* At most one new connection, never used before, or one already known.
LEMMA KnownConnections ==
    ASSUME ConnectionsNameOneRoute, NEW N \in SUBSET Link, \A x, y \in N : x = y,
           \A x \in N : x \in Known \/ x.conn \notin used,
           used' = used \cup {x.conn : x \in N}, Known' \subseteq Known \cup N
    PROVE  ConnectionsNameOneRoute'
  <1>1. \A x \in Known \cup N : x \in Link /\ x.conn \in used'
    BY DEF ConnectionsNameOneRoute
  <1>2. \A x, y \in Known \cup N : x.conn = y.conn => x = y
    BY DEF ConnectionsNameOneRoute
  <1> QED
    BY <1>1, <1>2 DEF ConnectionsNameOneRoute

\* Generations grow, so what is past stays past.
LEMMA ContextsStayPast ==
    ASSUME IInv, IInv', Grows, ContextsArePast, Known \subseteq Link,
           contexts' = contexts, History \subseteq History'
    PROVE  ContextsArePast'
  <1>1. \A l \in Leg : binding[l] \in Nat /\ binding'[l] \in Nat /\ binding[l] <= binding'[l]
    BY BoundAssumption DEF IInv, TypeOK, Generation, Grows
  <1>2. \A x \in History : x.leg \in Leg /\ x.generation \in Nat
    BY BoundAssumption DEF Known, Link, Generation
  <1>3. ASSUME NEW x \in contexts
        PROVE  /\ x.source \in History' /\ x.target \in Key
               /\ x.source.generation <= binding'[x.source.leg]
               /\ x.target[2] <= binding'[x.target[1]]
    <2>1. /\ x.source \in History /\ x.target \in Key
          /\ x.source.generation <= binding[x.source.leg]
          /\ x.target[2] <= binding[x.target[1]]
      BY DEF ContextsArePast
    <2>2. x.target[1] \in Leg /\ x.target[2] \in Nat
      BY <2>1, BoundAssumption DEF Key, Generation
    <2>3. x.source.leg \in Leg /\ x.source.generation \in Nat
      BY <1>2, <2>1
    <2>4. x.source.generation <= binding'[x.source.leg] /\ x.target[2] <= binding'[x.target[1]]
      BY <1>1, <2>1, <2>2, <2>3
    <2> QED
      BY <2>1, <2>4
  <1> QED
    BY <1>3 DEF ContextsArePast

\* So do receipts.
LEMMA ReceiptsStayPast ==
    ASSUME IInv, IInv', Grows, ReceiptsArePast, Known \subseteq Link,
           NEW x \in outbound \cup promoted
    PROVE  x.generation <= binding'[x.leg]
  <1>1. \A l \in Leg : binding[l] \in Nat /\ binding'[l] \in Nat /\ binding[l] <= binding'[l]
    BY BoundAssumption DEF IInv, TypeOK, Generation, Grows
  <1>2. x.leg \in Leg /\ x.generation \in Nat
    BY BoundAssumption DEF Known, History, Link, Generation
  <1> QED
    BY <1>1, <1>2 DEF ReceiptsArePast

\* Both, for a step that adds none.
LEMMA PastStaysPast ==
    ASSUME IInv, IInv', Grows, ReceiptsArePast, ContextsArePast, Known \subseteq Link,
           UNCHANGED <<outbound, promoted, contexts, receipts>>, attached \subseteq attached'
    PROVE  ReceiptsArePast' /\ ContextsArePast'
  <1>1. \A x \in outbound \cup promoted : x.generation <= binding'[x.leg]
    BY ReceiptsStayPast
  <1>2. ReceiptsArePast'
    BY <1>1 DEF ReceiptsArePast, Grows
  <1>3. History \subseteq History'
    BY DEF History
  <1> QED
    BY <1>2, <1>3, ContextsStayPast

\* A row that is not issued anew only changes by being consumed or revoked.
LEMMA RowsChange ==
    ASSUME NEW a \in Attachment, NEW c \in Attachment, c = a \/ c.consumed, NEW b \in BOOLEAN
    PROVE  LET o == [c EXCEPT !.revoked = c.revoked \/ b]
           IN  o = a \/ o.consumed \/ o.revoked
  <1> DEFINE v == c.revoked \/ b
             o == [c EXCEPT !.revoked = v]
  <1>1. v \in BOOLEAN /\ o.revoked = v /\ o.consumed = c.consumed
    BY DEF Attachment
  <1>2. CASE c.revoked \/ b
    BY <1>1, <1>2
  <1>3. CASE ~c.revoked /\ ~b
    <2>1. c.revoked = FALSE /\ v = FALSE
      BY <1>3 DEF Attachment
    <2>2. [c EXCEPT !.revoked = FALSE] = c
      BY <2>1 DEF Attachment
    <2>3. o = c
      BY <2>1, <2>2
    <2> QED
      BY <1>1, <2>3
  <1> QED
    BY <1>2, <1>3

\* The rows of the attachments after an applied command, one by one.
LEMMA AppliedRows ==
    ASSUME NEW atts \in [Key -> Attachment], NEW links, NEW owned,
           Applied(atts, links, owned), NEW k \in Key
    PROVE  /\ Issued(k) # "none" =>
                 /\ k \in Starting
                 /\ attachment'[k].purpose # "none"
                 /\ ~attachment'[k].consumed /\ ~attachment'[k].revoked
           /\ Issued(k) = "none" =>
                 /\ attachment'[k].purpose = atts[k].purpose
                 /\ attachment'[k].consumed = atts[k].consumed
                 /\ \A a \in Attachment : atts[k] = a \/ atts[k].consumed =>
                        \/ attachment'[k] = a
                        \/ attachment'[k].consumed \/ attachment'[k].revoked
  <1> DEFINE b == k \in RetiredAttachments
             old == [atts[k] EXCEPT !.revoked = atts[k].revoked \/ b]
  <1>1. attachment'[k] = IF Issued(k) # "none"
                         THEN [purpose |-> Issued(k), by |-> lease,
                               consumed |-> FALSE, revoked |-> FALSE]
                         ELSE old
    BY DEF Applied
  <1>2. CASE Issued(k) # "none"
    <2>1. attachment'[k].purpose = Issued(k)
      BY <1>1, <1>2
    <2>2. ~attachment'[k].consumed /\ ~attachment'[k].revoked
      BY <1>1, <1>2
    <2> QED
      BY <1>2, <2>1, <2>2, IssuedWithStarts
  <1>3. CASE Issued(k) = "none"
    <2>1. attachment'[k] = old
      BY <1>1, <1>3
    <2>2. atts[k] \in Attachment /\ b \in BOOLEAN
          /\ (atts[k].revoked \/ b) \in BOOLEAN
      OBVIOUS
    <2> HIDE DEF b
    <2>3. old.purpose = atts[k].purpose /\ old.consumed = atts[k].consumed
      BY <2>2, RevokedAttachment
    <2>4. \A a \in Attachment : atts[k] = a \/ atts[k].consumed =>
              old = a \/ old.consumed \/ old.revoked
      BY <2>2, RowsChange
    <2> HIDE DEF old
    <2> QED
      BY <1>3, <2>1, <2>3, <2>4
  <1> QED
    BY <1>2, <1>3

\* The attachment rows after an applied command: issues and consumptions are
\* counted once, and what was attached stays consumed.
LEMMA AppliedIssues ==
    ASSUME BInv, HInv, Moves, NEW N \in SUBSET Link,
           NEW atts \in [Key -> Attachment], NEW links, NEW owned,
           \A k \in Key : /\ atts[k].purpose = attachment[k].purpose
                          /\ atts[k] = attachment[k] \/ atts[k].consumed
                          /\ attachment[k].consumed => atts[k].consumed,
           \A x \in N : /\ attachment[KeyOf(x)].purpose # "none" /\ atts[KeyOf(x)].consumed
                        /\ legState'[x.leg] # "pending",
           attached' = attached \cup N, Applied(atts, links, owned), IssuesOf
    PROVE  /\ AttachmentsAreIssuedOnce' /\ AttachedAreConsumed'
           /\ \A k \in Key : k \in started => attachment'[k].purpose = attachment[k].purpose
  <1>1. /\ \A k \in Key : attachment[k] \in Attachment
        /\ \A k \in Key : attachment[k].purpose # "none" => k \in started
        /\ issued = [k \in Key |-> IF attachment[k].purpose = "none" THEN 0 ELSE 1]
    BY DEF BInv, TablesTyped, HInv, AttachmentsAreIssuedOnce
  <1>2. started' = started \cup Starting /\ started \cap Starting = {}
    BY DEF Moves, Starts
  <1>3. ASSUME NEW k \in Key
        PROVE  /\ k \in started => Issued(k) = "none"
               /\ k \in started => attachment'[k].purpose = attachment[k].purpose
               /\ attachment'[k].purpose # "none" => k \in started'
               /\ issued'[k] = IF attachment'[k].purpose = "none" THEN 0 ELSE 1
    <2>1. issued'[k] = IF /\ attachment'[k] # attachment[k] /\ ~attachment'[k].consumed
                          /\ ~attachment'[k].revoked
                       THEN issued[k] + 1 ELSE issued[k]
      BY DEF IssuesOf
    <2>2. issued[k] = IF attachment[k].purpose = "none" THEN 0 ELSE 1
      BY <1>1
    <2>3. CASE Issued(k) # "none"
      <3>1. /\ k \in Starting /\ attachment'[k].purpose # "none"
            /\ ~attachment'[k].consumed /\ ~attachment'[k].revoked
        BY <2>3, AppliedRows
      <3>2. attachment[k].purpose = "none" /\ k \notin started /\ k \in started'
        BY <1>1, <1>2, <3>1
      <3>3. attachment'[k] # attachment[k]
        BY <3>1, <3>2
      <3> QED
        BY <2>1, <2>2, <3>1, <3>2, <3>3
    <2>4. CASE Issued(k) = "none"
      <3>1. /\ attachment'[k].purpose = attachment[k].purpose
            /\ \/ attachment'[k] = attachment[k]
               \/ attachment'[k].consumed \/ attachment'[k].revoked
        BY <1>1, <2>4, AppliedRows
      <3>2. issued'[k] = issued[k]
        BY <2>1, <3>1
      <3> QED
        BY <1>1, <1>2, <2>2, <2>4, <3>1, <3>2
    <2> QED
      BY <2>3, <2>4
  <1>4. AttachmentsAreIssuedOnce'
    <2>1. issued' = [k \in Key |-> IF attachment'[k].purpose = "none" THEN 0 ELSE 1]
      BY <1>3 DEF IssuesOf
    <2> QED
      BY <1>3, <2>1 DEF AttachmentsAreIssuedOnce
  <1>5. ASSUME NEW a \in attached'
        PROVE  /\ attachment'[KeyOf(a)].purpose # "none" /\ attachment'[KeyOf(a)].consumed
               /\ legState'[a.leg] # "pending"
    <2>1. a \in Link /\ KeyOf(a) \in Key /\ a.leg \in Leg
      BY DEF HInv, ConnectionsNameOneRoute, Known, History, Link, KeyOf, Key
    <2>2. /\ attachment[KeyOf(a)].purpose # "none" /\ atts[KeyOf(a)].consumed
          /\ legState'[a.leg] # "pending"
      <3>1. CASE a \in N
        BY <3>1
      <3>2. CASE a \in attached
        BY <2>1, <3>2 DEF HInv, AttachedAreConsumed, Moves, Grows
      <3> QED
        BY <3>1, <3>2
    <2>3. KeyOf(a) \in started
      BY <1>1, <2>1, <2>2
    <2>4. Issued(KeyOf(a)) = "none"
      BY <1>3, <2>1, <2>3
    <2> QED
      BY <2>1, <2>2, <2>4, AppliedRows
  <1>6. AttachedAreConsumed'
    BY <1>5 DEF AttachedAreConsumed, KeyOf
  <1> QED
    BY <1>3, <1>4, <1>6

\* The owners after an applied command: what is bound or owned is remembered, and
\* the connection attached for a replacement in progress stays an owner.
LEMMA AppliedRemembers ==
    ASSUME BInv, IInv', HInv, Moves, NEW X, Steady(X), NEW N \in SUBSET Link,
           NEW atts, NEW links, NEW owned,
           bindings \subseteq links, links \subseteq bindings \cup N, owned = owners \cup N,
           \A x \in N : x \in links => binding[x.leg] = x.generation,
           \A x \in N : attachment[KeyOf(x)].purpose # "none",
           \A k \in Key : Issued(k) = "none" => attachment'[k].purpose = attachment[k].purpose,
           \A x \in N \cap links : Initiator[x.leg] = "bridgefu" => kind[x.leg] = "telnyx",
           attached' = attached \cup N, UNCHANGED <<outbound, promoted>>,
           Applied(atts, links, owned)
    PROVE  /\ OwnersAreRemembered' /\ PendingAreOwned' /\ BindsHaveReceipts'
           /\ Known' \subseteq Known \cup N
  <1> DEFINE left == links \ RetiredLinks(links)
  <1>1. /\ bindings' = left
        /\ owners' = {o \in owned \ RetiredLinks(links) :
                         KeyOf(o) \in RetiredAttachments => o \in left}
    BY DEF Applied
  <1>2. left \subseteq links /\ RetiredLinks(links) \subseteq links
    BY DEF RetiredLinks
  <1>3. \A o \in owned : o \notin left /\ o \notin RetiredLinks(links) => o \notin links
    OBVIOUS
  <1> HIDE DEF left
  <1>4. OwnersAreRemembered'
    <2>1. bindings' \subseteq History'
      BY <1>1, <1>2 DEF HInv, OwnersAreRemembered, History
    <2>2. owners' \ bindings' \subseteq attached'
      BY <1>1, <1>3 DEF HInv, OwnersAreRemembered
    <2> QED
      BY <2>1, <2>2 DEF OwnersAreRemembered
  <1>5. BindsHaveReceipts'
    BY <1>1, <1>2 DEF HInv, BindsHaveReceipts, Steady
  <1>6. Known' \subseteq Known \cup N
    BY <1>1 DEF Known, History
  <1>7. ASSUME NEW r \in replacement'
        PROVE  /\ \A a \in attached' : KeyOf(a) = <<r.leg, r.pending>> => a \in owners'
               /\ r.kind # "telnyx" => attachment'[<<r.leg, r.pending>>].purpose = "none"
    <2> DEFINE k == <<r.leg, r.pending>>
    <2>1. \A a \in attached' : KeyOf(a) \in Key /\ attachment[KeyOf(a)].purpose # "none"
      BY DEF HInv, ConnectionsNameOneRoute, Known, History, Link, KeyOf, Key, AttachedAreConsumed
    <2>2. CASE r \in replacement
      <3>1. /\ k \in Key /\ r.leg \in Leg /\ r.pending # binding[r.leg]
            /\ \A a \in attached : KeyOf(a) = k => a \in owners
            /\ r.kind # "telnyx" => attachment[k].purpose = "none"
        BY <2>2, BoundAssumption DEF BInv, IInv, TypeOK, Replacement, Generation, Validate,
           ValidReplacement, Key, HInv, PendingAreOwned
      <3>2. Starting = {}
        BY <2>2 DEF Steady
      <3>3. Issued(k) = "none"
        BY <3>2, IssuedWithStarts
      <3>4. ASSUME NEW a \in attached', KeyOf(a) = k
            PROVE  a \in owners'
        <4>1. a \in owned
          BY <3>1, <3>4
        <4>2. a.leg = r.leg /\ a.generation = r.pending
          BY <3>4 DEF KeyOf
        <4>3. a \notin links
          BY <3>1, <4>2 DEF BInv, TablesAgree, BindingsAreCurrent
        <4>4. k \notin RetiredAttachments
          BY DEF RetiredAttachments
        <4> QED
          BY <1>1, <1>2, <3>4, <4>1, <4>3, <4>4
      <3> QED
        BY <3>1, <3>3, <3>4
    <2>3. CASE r \notin replacement
      <3>1. k \notin started /\ (r.kind # "telnyx" => Issued(k) = "none")
        BY <2>3 DEF Moves, FreshReplacement
      <3>2. k \in Key => attachment[k].purpose = "none"
        BY <3>1 DEF HInv, AttachmentsAreIssuedOnce
      <3>3. \A a \in attached' : KeyOf(a) # k
        BY <2>1, <3>2
      <3>4. k \in Key
        BY DEF IInv, TypeOK, Replacement, Key
      <3> QED
        BY <3>1, <3>2, <3>3, <3>4
    <2> QED
      BY <2>2, <2>3
  <1>8. PendingAreOwned'
    BY <1>7 DEF PendingAreOwned, KeyOf
  <1> QED
    BY <1>4, <1>5, <1>6, <1>8

\* A transaction that commits a command which promotes no replacement.
LEMMA CommitHistory ==
    ASSUME BInv, IInv', HInv, Moves, NEW X, Steady(X), NEW N \in SUBSET Link,
           \A x, y \in N : x = y,
           \A x \in N : /\ attachment[KeyOf(x)].purpose # "none" /\ x.conn \notin used
                        /\ ~attachment[KeyOf(x)].consumed
                        /\ legState'[x.leg] # "pending"
                        /\ \A y \in outbound \cup promoted : KeyOf(x) # KeyOf(y),
           NEW atts \in [Key -> Attachment], NEW links, NEW owned,
           \A k \in Key : /\ atts[k].purpose = attachment[k].purpose
                          /\ atts[k] = attachment[k] \/ atts[k].consumed
                          /\ attachment[k].consumed => atts[k].consumed,
           \A x \in N : atts[KeyOf(x)].consumed,
           bindings \subseteq links, links \subseteq bindings \cup N, owned = owners \cup N,
           \A x \in N : x \in links => binding[x.leg] = x.generation,
           \A x \in N \cap links : Initiator[x.leg] = "bridgefu" => kind[x.leg] = "telnyx",
           Applied(atts, links, owned), IssuesOf,
           used' = used \cup {x.conn : x \in N}, attached' = attached \cup N,
           UNCHANGED <<outbound, promoted, contexts, receipts>>
    PROVE  HInv'
  <1>1. AttachmentsAreIssuedOnce' /\ AttachedAreConsumed'
    BY AppliedIssues
  <1>2. \A k \in Key : Issued(k) = "none" => attachment'[k].purpose = attachment[k].purpose
    BY AppliedRows
  <1>3. /\ OwnersAreRemembered' /\ PendingAreOwned' /\ BindsHaveReceipts'
        /\ Known' \subseteq Known \cup N
    BY <1>2, AppliedRemembers
  <1>4. ConnectionsNameOneRoute'
    BY <1>3, KnownConnections DEF HInv
  <1>5. ReceiptsArePast' /\ ContextsArePast'
    BY PastStaysPast DEF BInv, HInv, ConnectionsNameOneRoute, Moves
  <1>6. RoutesHadOneConnection'
    <2>1. ASSUME NEW x \in N, NEW y \in History
          PROVE  KeyOf(x) # KeyOf(y)
      BY DEF History, HInv, AttachedAreConsumed
    <2>2. History' = History \cup N
      BY DEF History
    <2>3. \A x, y \in History' : KeyOf(x) = KeyOf(y) => x = y
      BY <2>1, <2>2 DEF HInv, RoutesHadOneConnection
    <2> QED
      BY <2>3 DEF HInv, RoutesHadOneConnection, KeyOf
  <1> QED
    BY <1>1, <1>3, <1>4, <1>5, <1>6 DEF HInv

-----------------------------------------------------------------------------
(***************************************************************************)
(* The history parts, one lemma per transaction.                           *)
(***************************************************************************)

\* A report or another command that commits with nothing written before it.
LEMMA CommitsHistory ==
    ASSUME BInv, IInv', HInv, Next, NEW X, Steady(X), Commits, IssuesOf,
           UNCHANGED <<attached, outbound, promoted, contexts>>
    PROVE  HInv'
  <1>1. /\ Applied(attachment, bindings, owners) /\ UNCHANGED <<used, receipts>>
        /\ attachment \in [Key -> Attachment] /\ Moves
    BY NextMoves DEF Commits, BInv, TablesTyped
  <1>2. /\ attached' = attached \cup {} /\ owners = owners \cup {}
        /\ bindings \subseteq bindings \cup {} /\ used' = used \cup {x.conn : x \in {}}
    BY <1>1
  <1>3. {} \in SUBSET Link
    OBVIOUS
  <1> QED
    BY <1>1, <1>2, <1>3, CommitHistory

\* Reports are steps of the aggregate that promote no replacement.
LEMMA ReportSteady ==
    ASSUME IInv, NEW at \in Time, NEW l \in Leg, NEW g \in Generation, LegReport(l, g, at)
    PROVE  IInv' /\ Next /\ (Steady({l}) \/ Steady({}))
  <1>1. Next
    BY DEF Next
  <1>2. "held" \in LegState
    BY DEF LegState
  <1>3. ASSUME \/ LegConnectsCall(l, g, at) \/ ProviderMediaStarted(l, g, at)
               \/ ProviderMediaAttached(l, g, at)
        PROVE  Steady({l})
    BY <1>2, <1>3, AdvanceSteady
  <1>4. ASSUME NEW s \in LegState, LegAdvances(l, g, s, at)
        PROVE  Steady({l})
    BY <1>4, AdvanceSteady
  <1>5. ASSUME NEW s \in LegState,
               LegReportsEnd(l, g, s, at) \/ SourceTerminatedBeforeAnswer(l, g, s, at)
        PROVE  Steady({})
    BY <1>5, LeavingSteady
  <1> HIDE DEF Next
  <1>6. Steady({l}) \/ Steady({})
    BY <1>3, <1>4, <1>5 DEF LegReport
  <1>7. IInv'
    BY <1>1, NextIInv
  <1> QED
    BY <1>1, <1>6, <1>7

\* commit_bound_state_in_state.
LEMMA GuardedReportHistory ==
    ASSUME BInv, HInv, NEW l \in Leg, GuardedReport(l)
    PROVE  HInv'
  <1>1. PICK at \in Time : BoundReport(l, at)
    BY DEF GuardedReport
  <1>2. IssuesOf /\ UNCHANGED <<attached, outbound, promoted, contexts>>
    BY DEF GuardedReport, LeavesBindingRows
  <1>3. PICK b \in bindings \cap owners : LegReport(l, b.generation, at) /\ Commits
    BY <1>1 DEF BoundReport, LegReport
  <1>4. b.generation \in Generation /\ IInv
    BY DEF BInv, TablesTyped, Link
  <1> QED
    BY <1>2, <1>3, <1>4, ReportSteady, CommitsHistory

\* Every other report and command.
LEMMA OtherReportHistory ==
    ASSUME BInv, HInv, OtherReport
    PROVE  HInv'
  <1>1. PICK at \in Time : OtherCommand(at) \/ \E l \in Leg : UnboundReport(l, at)
    BY DEF OtherReport
  <1>2. IssuesOf /\ UNCHANGED <<attached, outbound, promoted, contexts>>
    BY DEF OtherReport, LeavesBindingRows
  <1>3. IInv
    BY DEF BInv
  <1>4. ASSUME NEW l \in Leg, UnboundReport(l, at)
        PROVE  HInv'
    <2>1. LegReport(l, binding[l], at) /\ Commits
      BY <1>4 DEF UnboundReport, LegReport
    <2>2. binding[l] \in Generation
      BY <1>3 DEF IInv, TypeOK
    <2> QED
      BY <1>2, <1>3, <2>1, <2>2, ReportSteady, CommitsHistory
  <1>5. CASE OtherCommand(at)
    <2>1. Commits /\ (\/ Request(at)
                      \/ \E d \in 0 .. MaxDeadline :
                            \/ Timeout(d, at) \/ FinishTransfer(d, at)
                            \/ \E g \in Generation : FinishLegReplacement(d, g, FALSE, at))
      BY <1>5 DEF OtherCommand
    <2>2. Next
      BY <2>1 DEF Next, Settle
    <2>3. Steady({})
      BY <1>3, <2>1, RequestSteady, OtherSteady
    <2>4. IInv'
      BY <1>3, <2>2, NextIInv
    <2> QED
      BY <1>2, <2>1, <2>2, <2>3, <2>4, CommitsHistory
  <1> QED
    BY <1>1, <1>4, <1>5

\* The route an attachment is for has had no other connection.
LEMMA AttachableIsNew ==
    ASSUME BInv, HInv, NEW l \in Leg, NEW g \in Generation, Attachable(l, g),
           NEW y \in outbound \cup promoted
    PROVE  KeyOf(y) # <<l, g>>
  <1> SUFFICES ASSUME KeyOf(y) = <<l, g>>
               PROVE  FALSE
    OBVIOUS
  <1>1. y.leg = l /\ y.generation = g
    BY DEF KeyOf
  <1>2. g <= binding[l] /\ binding[l] \in Nat
    BY <1>1, BoundAssumption DEF HInv, ReceiptsArePast, BInv, IInv, TypeOK, Generation
  <1>3. ~PendingReplacement(l, g)
    <2> SUFFICES ASSUME NEW r \in replacement, r.leg = l, r.pending = g
                 PROVE  FALSE
      BY DEF PendingReplacement
    <2>1. binding[l] = r.previous /\ r.pending > r.previous
      BY DEF BInv, IInv, Validate, ValidReplacement
    <2> QED
      BY <1>2, <2>1, BoundAssumption DEF Generation
  <1>4. /\ binding[l] = g /\ legState[l] \in {"awaiting_attach", "pending", "signaling"}
        /\ Initiator[l] = "remote" \/ kind[l] = "telnyx"
    BY <1>3 DEF Attachable
  <1>5. callState \in SetupState \cup {"ending", "ended", "failed"}
    BY <1>4 DEF BInv, IInv, TypeOK, CallState, Validate, ValidLegs, SetupState
  <1>6. callState \notin {"ending", "ended", "failed"}
    BY <1>4 DEF BInv, IInv, Validate, ValidLegs, Terminal
  <1>7. y \in outbound
    BY <1>5, <1>6 DEF HInv, ReceiptsArePast
  <1>8. Initiator[l] = "bridgefu" /\ InitialKind[l] # "telnyx" /\ kind = InitialKind
    BY <1>1, <1>5, <1>6, <1>7 DEF HInv, ReceiptsArePast, BInv, KindsAtFirst, SetupState
  <1> QED
    BY <1>4, <1>8

\* consume_attachment.
LEMMA ConsumptionHistory ==
    ASSUME BInv, HInv, NEW l \in Leg, Consumption(l)
    PROVE  HInv'
  <1> DEFINE g == candidate[l].generation
  <1>1. PICK c \in Conn, at \in Time :
            /\ ConsumeAttachment(l, c, at) /\ IssuesOf
            /\ attached' = attached \cup {[conn |-> c, leg |-> l, generation |-> g]}
            /\ UNCHANGED <<outbound, promoted, contexts>>
    BY DEF Consumption
  <1> DEFINE link == [conn |-> c, leg |-> l, generation |-> g]
             atts == [attachment EXCEPT ![<<l, g>>].consumed = TRUE]
             links == IF PendingReplacement(l, g) THEN bindings ELSE bindings \cup {link}
             owned == owners \cup {link}
  <1>2. g \in Generation /\ Attachable(l, g)
    BY <1>1, CandidateVouches DEF ConsumeAttachment
  <1>3. binding[l] = g \/ PendingReplacement(l, g)
    BY <1>2 DEF Attachable
  <1>4. /\ Attach(l, g, at) /\ Applied(atts, links, owned)
        /\ ~attachment[<<l, g>>].consumed /\ c \notin used
        /\ used' = used \cup {c} /\ receipts' = receipts
    BY <1>1, <1>3 DEF ConsumeAttachment, NeverUsed
  <1>5. IInv /\ attachment \in [Key -> Attachment] /\ <<l, g>> \in Key
    BY <1>2 DEF BInv, TablesTyped, Key
  <1>6. link \in Link /\ KeyOf(link) = <<l, g>> /\ link.leg = l /\ link.conn = c
        /\ link.generation = g
    BY <1>2 DEF Link, KeyOf
  <1>7. /\ atts \in [Key -> Attachment]
        /\ \A k \in Key : atts[k].purpose = attachment[k].purpose
    BY <1>5, ConsumedAttachment
  <1>8. /\ \A k \in Key : atts[k] = attachment[k] \/ atts[k].consumed
        /\ atts[<<l, g>>].consumed
        /\ \A k \in Key : attachment[k].consumed => atts[k].consumed
    <2>1. \A k \in Key : k # <<l, g>> => atts[k] = attachment[k]
      BY <1>5
    <2>2. atts[<<l, g>>] = [attachment[<<l, g>>] EXCEPT !.consumed = TRUE]
      BY <1>5
    <2>3. [attachment[<<l, g>>] EXCEPT !.consumed = TRUE].consumed = TRUE
      BY <1>5 DEF Attachment
    <2>4. atts[<<l, g>>].consumed
      BY <2>2, <2>3
    <2> HIDE DEF atts
    <2> QED
      BY <2>1, <2>4
  <1>9. LegReport(l, g, at) /\ legState'[l] # "pending"
    <2>1. "signaling" \in LegState
      BY DEF LegState
    <2>2. CASE LegAdvances(l, g, "signaling", at)
      BY <1>5, <2>1, <2>2 DEF LegReport, LegAdvances, Reported, IInv, TypeOK
    <2>3. CASE ProviderMediaAttached(l, g, at)
      <3>1. legState' = ProviderSignaling(l) \/ (legState' = legState /\ PendingReplacement(l, g))
        BY <2>3 DEF ProviderMediaAttached, PendingReplacement
      <3>2. PendingReplacement(l, g) => legState[l] = "held"
        BY <1>5, PendingIsNotCurrent
      <3>3. legState'[l] # "pending"
        BY <1>5, <3>1, <3>2 DEF ProviderSignaling, IInv, TypeOK
      <3> QED
        BY <2>3, <3>3 DEF LegReport
    <2> QED
      BY <1>4, <2>2, <2>3 DEF Attach
  <1>10. IInv' /\ Moves /\ (Steady({l}) \/ Steady({}))
    BY <1>2, <1>5, <1>9, ReportSteady, NextMoves
  <1>11. \A y \in outbound \cup promoted : KeyOf(link) # KeyOf(y)
    BY <1>2, <1>6, AttachableIsNew
  <1>12. attachment[<<l, g>>].purpose # "none"
    BY <1>2 DEF Attachable
  <1>13. ~PendingReplacement(l, g) /\ Initiator[l] = "bridgefu" => kind[l] = "telnyx"
    BY <1>2 DEF Attachable
  <1>14. /\ bindings \subseteq links /\ links \subseteq bindings \cup {link}
         /\ link \in links => (~PendingReplacement(l, g) \/ link \in bindings)
    OBVIOUS
  <1>15. link \notin bindings
    <2>1. bindings \subseteq Known
      BY DEF HInv, OwnersAreRemembered, Known
    <2> QED
      BY <1>4, <1>6, <2>1 DEF HInv, ConnectionsNameOneRoute
  <1>16. link \in links => ~PendingReplacement(l, g) /\ binding[l] = g
    BY <1>3, <1>14, <1>15
  <1>17. owned = owners \cup {link} /\ attached' = attached \cup {link}
         /\ used' = used \cup {x.conn : x \in {link}}
    BY <1>1, <1>4, <1>6
  <1> HIDE DEF link, links, atts, owned, g
  <1> DEFINE N == {link}
  <1>18. /\ N \in SUBSET Link /\ (\A x, y \in N : x = y)
         /\ \A x \in N : /\ attachment[KeyOf(x)].purpose # "none" /\ x.conn \notin used
                         /\ ~attachment[KeyOf(x)].consumed
                         /\ legState'[x.leg] # "pending"
                         /\ \A y \in outbound \cup promoted : KeyOf(x) # KeyOf(y)
    BY <1>4, <1>6, <1>9, <1>11, <1>12
  <1>19. /\ \A x \in N : atts[KeyOf(x)].consumed
         /\ \A x \in N : x \in links => binding[x.leg] = x.generation
         /\ \A x \in N \cap links : Initiator[x.leg] = "bridgefu" => kind[x.leg] = "telnyx"
    BY <1>6, <1>8, <1>13, <1>16
  <1>20. /\ bindings \subseteq links /\ links \subseteq bindings \cup N /\ owned = owners \cup N
         /\ attached' = attached \cup N /\ used' = used \cup {x.conn : x \in N}
    BY <1>14, <1>17
  <1>21. \A k \in Key : /\ atts[k].purpose = attachment[k].purpose
                        /\ atts[k] = attachment[k] \/ atts[k].consumed
                        /\ attachment[k].consumed => atts[k].consumed
    BY <1>7, <1>8
  <1>22. UNCHANGED <<outbound, promoted, contexts, receipts>> /\ IssuesOf
    BY <1>1, <1>4
  <1> HIDE DEF N
  <1>23. PICK Y : Steady(Y)
    BY <1>10
  <1> QED
    BY <1>4, <1>7, <1>10, <1>18, <1>19, <1>20, <1>21, <1>22, <1>23, CommitHistory

\* A transaction that touches no connection and no aggregate.
LEMMA SameHistory ==
    ASSUME BInv, HInv, UNCHANGED vars,
           UNCHANGED <<bindings, owners, used, receipts, issued, attached, outbound, promoted>>,
           UNCHANGED contexts,
           \A k \in Key : /\ attachment'[k].purpose = attachment[k].purpose
                          /\ attachment[k].consumed => attachment'[k].consumed
    PROVE  HInv'
  <1>1. UNCHANGED <<callState, legState, kind, binding, replacement, started>>
    BY DEF vars, aggregate, ledger
  <1>2. /\ \A a \in attached : KeyOf(a) \in Key
        /\ \A r \in replacement : <<r.leg, r.pending>> \in Key
    BY DEF HInv, ConnectionsNameOneRoute, Known, History, Link, KeyOf, Key, BInv, IInv, TypeOK,
           Replacement
  <1>3. ConnectionsNameOneRoute' /\ RoutesHadOneConnection' /\ OwnersAreRemembered'
    BY DEF HInv, ConnectionsNameOneRoute, RoutesHadOneConnection, OwnersAreRemembered, Known,
           History, KeyOf
  <1>4. ReceiptsArePast' /\ ContextsArePast' /\ BindsHaveReceipts'
    BY <1>1 DEF HInv, ReceiptsArePast, ContextsArePast, BindsHaveReceipts, History
  <1>5. AttachmentsAreIssuedOnce'
    BY <1>1 DEF HInv, AttachmentsAreIssuedOnce
  <1>6. AttachedAreConsumed'
    BY <1>1, <1>2 DEF HInv, AttachedAreConsumed, KeyOf
  <1>7. PendingAreOwned'
    BY <1>1, <1>2 DEF HInv, PendingAreOwned, KeyOf
  <1> QED
    BY <1>3, <1>4, <1>5, <1>6, <1>7 DEF HInv

\* register_worker and claim_restart_calls.
LEMMA RegistrationHistory ==
    ASSUME BInv, HInv, Registration
    PROVE  HInv'
  <1>1. UNCHANGED <<issued, attached, outbound, promoted, contexts>>
    BY DEF Registration, ledgers
  <1>2. CASE RegisterWorker
    BY <1>1, <1>2, SameHistory DEF RegisterWorker, tables
  <1>3. CASE ClaimRestartCall
    <2> DEFINE gone(k) == attachment[k].purpose # "none" /\ ~attachment[k].consumed
               row(k) == [attachment[k] EXCEPT !.revoked = attachment[k].revoked \/ gone(k)]
    <2>1. UNCHANGED <<vars, bindings, owners, used, receipts>>
          /\ attachment' = [k \in Key |-> row(k)]
      BY <1>3 DEF ClaimRestartCall
    <2>2. ASSUME NEW k \in Key
          PROVE  row(k).purpose = attachment[k].purpose /\ row(k).consumed = attachment[k].consumed
      <3>1. attachment[k] \in Attachment /\ (attachment[k].revoked \/ gone(k)) \in BOOLEAN
        BY DEF BInv, TablesTyped
      <3> HIDE DEF gone
      <3> QED
        BY <3>1, RevokedAttachment
    <2> HIDE DEF row
    <2>3. \A k \in Key : /\ attachment'[k].purpose = attachment[k].purpose
                         /\ attachment[k].consumed => attachment'[k].consumed
      BY <2>1, <2>2
    <2> QED
      BY <1>1, <2>1, <2>3, SameHistory
  <1> QED
    BY <1>2, <1>3 DEF Registration

\* inspect_attachment and the control outbox.
LEMMA InspectionHistory ==
    ASSUME BInv, HInv, NEW l \in Leg, Inspection(l) \/ Controls(l)
    PROVE  HInv'
  <1>1. UNCHANGED <<issued, attached, outbound, promoted, contexts>>
    BY DEF Inspection, Controls, ledgers
  <1>2. UNCHANGED <<vars, bindings, owners, used, receipts, attachment>>
    <2>1. CASE Inspection(l)
      BY <2>1 DEF Inspection, InspectAttachment
    <2>2. CASE Controls(l)
      BY <2>2 DEF Controls, ControlWork, EnqueueControl, ClaimControlEffect,
                  ExecuteControlEffect, ReconcileControl, SetControl
    <2> QED
      BY <2>1, <2>2
  <1> QED
    BY <1>1, <1>2, SameHistory

\* record_initial_context.
LEMMA ContextHistory ==
    ASSUME BInv, HInv, NEW l \in Leg, RecordInitialContext(l)
    PROVE  HInv'
  <1>1. PICK b \in bindings, t \in Leg \ {l} :
            /\ b.leg = l /\ b.generation = binding[l]
            /\ \A r \in contexts : r.target # <<t, binding[t]>>
            /\ contexts' = contexts \cup {[source |-> b, target |-> <<t, binding[t]>>]}
            /\ UNCHANGED <<bvars, issued, attached, outbound, promoted>>
    BY DEF RecordInitialContext
  <1> DEFINE new == [source |-> b, target |-> <<t, binding[t]>>]
  <1>2. UNCHANGED <<vars, bindings, owners, used, receipts, attachment>>
        /\ UNCHANGED <<callState, legState, kind, binding, replacement, started>>
    BY <1>1 DEF bvars, tables, vars, aggregate, ledger
  <1>3. ConnectionsNameOneRoute' /\ RoutesHadOneConnection' /\ OwnersAreRemembered'
    BY <1>1, <1>2 DEF HInv, ConnectionsNameOneRoute, RoutesHadOneConnection,
       OwnersAreRemembered, Known, History, KeyOf
  <1>4. ReceiptsArePast' /\ BindsHaveReceipts' /\ AttachmentsAreIssuedOnce'
    BY <1>1, <1>2 DEF HInv, ReceiptsArePast, BindsHaveReceipts, AttachmentsAreIssuedOnce
  <1>5. AttachedAreConsumed' /\ PendingAreOwned'
    BY <1>1, <1>2 DEF HInv, AttachedAreConsumed, PendingAreOwned, KeyOf
  <1>6. /\ new.source \in History /\ new.target \in Key
        /\ new.source.generation <= binding[new.source.leg]
        /\ new.target[2] <= binding[new.target[1]]
    <2>1. binding[l] \in Generation /\ binding[t] \in Generation
      BY DEF BInv, IInv, TypeOK
    <2>2. binding[l] <= binding[l] /\ binding[t] <= binding[t]
      BY <2>1, BoundAssumption DEF Generation
    <2>3. b \in History
      BY DEF HInv, OwnersAreRemembered
    <2> QED
      BY <1>1, <2>1, <2>2, <2>3 DEF Key
  <1>7. \A x, y \in contexts' : x.target = y.target => x = y
    <2>1. new.target = <<t, binding[t]>>
      OBVIOUS
    <2> HIDE DEF new
    <2> QED
      BY <1>1, <2>1 DEF HInv, ContextsArePast, new
  <1>8. ContextsArePast'
    <2>1. contexts' = contexts \cup {new} /\ binding' = binding /\ History' = History
      BY <1>1, <1>2 DEF History
    <2> HIDE DEF new
    <2>2. \A x \in contexts' :
              /\ x.source \in History /\ x.target \in Key
              /\ x.source.generation <= binding[x.source.leg]
              /\ x.target[2] <= binding[x.target[1]]
      BY <1>6, <2>1 DEF HInv, ContextsArePast
    <2> QED
      BY <1>7, <2>1, <2>2 DEF ContextsArePast
  <1> QED
    BY <1>3, <1>4, <1>5, <1>8 DEF HInv

\* bind_outbound_connection: the leg is pending, so nothing was attached to it, and
\* it has no receipt, so nothing was bound to it.
LEMMA OutboundHistory ==
    ASSUME BInv, HInv, NEW l \in Leg, OutboundBind(l)
    PROVE  HInv'
  <1>1. PICK c \in Conn :
            /\ BindOutboundConnection(l, c)
            /\ outbound' = outbound \cup {[conn |-> c, leg |-> l, generation |-> binding[l]]}
            /\ UNCHANGED <<issued, attached, promoted, contexts>>
    BY DEF OutboundBind
  <1> DEFINE link == [conn |-> c, leg |-> l, generation |-> binding[l]]
  <1>2. /\ bindings' = bindings \cup {link} /\ owners' = owners \cup {link}
        /\ used' = used \cup {c} /\ receipts' = receipts \cup {l} /\ c \notin used
        /\ l \notin receipts /\ legState[l] = "pending" /\ callState = "connecting"
        /\ Initiator[l] = "bridgefu" /\ kind[l] # "telnyx"
        /\ UNCHANGED <<vars, attachment>>
    BY <1>1 DEF BindOutboundConnection, NeverUsed
  <1>3. UNCHANGED <<callState, legState, kind, binding, replacement, started>>
    BY <1>2 DEF vars, aggregate, ledger
  <1>4. /\ link \in Link /\ link.leg = l /\ link.conn = c /\ link.generation = binding[l]
        /\ KeyOf(link) = <<l, binding[l]>> /\ binding[l] \in Nat
    BY BoundAssumption DEF Link, KeyOf, BInv, IInv, TypeOK, Generation
  <1>5. InitialKind[l] # "telnyx" /\ promoted = {}
    BY <1>2 DEF BInv, KindsAtFirst, HInv, ReceiptsArePast, SetupState
  <1>6. outbound' = outbound \cup {link}
    BY <1>1
  <1> HIDE DEF link
  <1>7. /\ History' = History \cup {link} /\ Known' = Known \cup {link}
    BY <1>1, <1>2, <1>6 DEF History, Known
  <1>8. ConnectionsNameOneRoute'
    <2> DEFINE N == {link}
    <2>1. /\ N \in SUBSET Link /\ (\A x, y \in N : x = y)
          /\ \A x \in N : x.conn \notin used
          /\ used' = used \cup {x.conn : x \in N} /\ Known' \subseteq Known \cup N
      BY <1>2, <1>4, <1>7
    <2> HIDE DEF N
    <2> QED
      BY <2>1, KnownConnections DEF HInv
  <1>9. \A y \in History : y.leg # l
    <2>1. \A y \in attached : y.leg # l
      BY <1>2 DEF HInv, AttachedAreConsumed
    <2>2. \A y \in outbound : y.leg # l
      BY <1>2 DEF HInv, ReceiptsArePast
    <2> QED
      BY <1>5, <2>1, <2>2 DEF History
  <1>10. RoutesHadOneConnection'
    <2>1. \A y \in History : KeyOf(y) # KeyOf(link)
      BY <1>4, <1>9 DEF KeyOf
    <2>2. \A x, y \in History' : KeyOf(x) = KeyOf(y) => x = y
      BY <1>7, <2>1 DEF HInv, RoutesHadOneConnection
    <2>3. promoted' = {}
      BY <1>1, <1>5
    <2> QED
      BY <2>2, <2>3 DEF RoutesHadOneConnection, KeyOf
  <1>11. OwnersAreRemembered' /\ BindsHaveReceipts'
    BY <1>1, <1>2, <1>3, <1>6, <1>7 DEF HInv, OwnersAreRemembered, BindsHaveReceipts
  <1>12. ReceiptsArePast'
    <2>1. \A x \in outbound' \cup promoted' : x.generation <= binding'[x.leg]
      BY <1>1, <1>3, <1>4, <1>6 DEF HInv, ReceiptsArePast
    <2>2. promoted' = {}
      BY <1>1, <1>5
    <2>3. \A o \in outbound' : /\ o.leg \in receipts' /\ Initiator[o.leg] = "bridgefu"
                               /\ InitialKind[o.leg] # "telnyx"
      BY <1>2, <1>4, <1>5, <1>6 DEF HInv, ReceiptsArePast
    <2> QED
      BY <2>1, <2>2, <2>3 DEF ReceiptsArePast
  <1>13. AttachmentsAreIssuedOnce' /\ AttachedAreConsumed'
    BY <1>1, <1>2, <1>3 DEF HInv, AttachmentsAreIssuedOnce, AttachedAreConsumed, KeyOf
  <1>14. PendingAreOwned'
    BY <1>1, <1>2, <1>3 DEF HInv, PendingAreOwned, KeyOf
  <1>15. ContextsArePast'
    BY <1>1, <1>3, <1>7 DEF HInv, ContextsArePast
  <1> QED
    BY <1>8, <1>10, <1>11, <1>12, <1>13, <1>14, <1>15 DEF HInv

\* The rows of the attachments when a promotion revokes some.
LEMMA PromotionRows ==
    ASSUME BInv, NEW k \in Key,
           attachment' = [j \in Key |-> [attachment[j] EXCEPT
                             !.revoked = @ \/ j \in RetiredAttachments]]
    PROVE  /\ attachment'[k].purpose = attachment[k].purpose
           /\ attachment'[k].consumed = attachment[k].consumed
           /\ attachment'[k] = attachment[k] \/ attachment'[k].consumed \/ attachment'[k].revoked
  <1> DEFINE b == k \in RetiredAttachments
             row == [attachment[k] EXCEPT !.revoked = attachment[k].revoked \/ b]
  <1>1. attachment'[k] = row
    OBVIOUS
  <1>2. attachment[k] \in Attachment /\ b \in BOOLEAN /\ (attachment[k].revoked \/ b) \in BOOLEAN
    BY DEF BInv, TablesTyped
  <1> HIDE DEF b
  <1>3. row.purpose = attachment[k].purpose /\ row.consumed = attachment[k].consumed
    BY <1>2, RevokedAttachment
  <1>4. row = attachment[k] \/ row.consumed \/ row.revoked
    BY <1>2, RowsChange
  <1> HIDE DEF row
  <1> QED
    BY <1>1, <1>3, <1>4

\* The promoted connection is the attached one of its route, or the route has had
\* none.
LEMMA PromotedIsNew ==
    ASSUME BInv, HInv, NEW r \in replacement, NEW link \in Link,
           link.leg = r.leg, link.generation = r.pending,
           IF r.kind = "telnyx" THEN link \in owners ELSE link.conn \notin used
    PROVE  /\ link \in attached \/ (\A y \in History : KeyOf(y) # KeyOf(link))
           /\ \A y \in outbound \cup promoted : KeyOf(y) # KeyOf(link)
           /\ link \in attached \/ link.conn \notin used
  <1>1. /\ r.leg \in Leg /\ r.pending \in Nat /\ binding[r.leg] \in Nat
        /\ r.pending > binding[r.leg] /\ <<r.leg, r.pending>> \in Key
    BY BoundAssumption DEF BInv, IInv, TypeOK, Replacement, Generation, Validate, ValidReplacement,
       Key
  <1>2. ASSUME NEW y \in outbound \cup promoted
        PROVE  KeyOf(y) # KeyOf(link)
    <2>1. y \in Link /\ y.generation <= binding[y.leg]
      BY DEF HInv, ReceiptsArePast, ConnectionsNameOneRoute, Known, History
    <2>2. y.leg = r.leg => y.generation # r.pending
      BY <1>1, <2>1, BoundAssumption DEF Link, Generation
    <2> QED
      BY <2>2 DEF KeyOf
  <1>3. CASE r.kind = "telnyx"
    <2>1. link \notin bindings
      BY <1>1 DEF BInv, TablesAgree, BindingsAreCurrent
    <2>2. link \in attached
      BY <1>3, <2>1 DEF HInv, OwnersAreRemembered
    <2> QED
      BY <1>2, <2>2
  <1>4. CASE r.kind # "telnyx"
    <2>1. attachment[<<r.leg, r.pending>>].purpose = "none"
      BY <1>4 DEF HInv, PendingAreOwned
    <2>2. KeyOf(link) = <<r.leg, r.pending>>
      BY DEF KeyOf
    <2>3. \A y \in attached : KeyOf(y) # KeyOf(link)
      BY <2>1, <2>2 DEF HInv, AttachedAreConsumed
    <2> QED
      BY <1>2, <1>4, <2>3 DEF History
  <1> QED
    BY <1>3, <1>4

\* commit_service_command with a replacement connection.
LEMMA PromotionHistory ==
    ASSUME BInv, HInv, Promotion
    PROVE  HInv'
  <1>1. PICK c \in Conn, d \in 0 .. MaxDeadline, at \in Time :
            /\ PromoteReplacement(c, d, at) /\ IssuesOf
            /\ promoted' = promoted \cup {b \in bindings' : b.conn = c}
            /\ UNCHANGED <<attached, outbound, contexts>>
    BY DEF Promotion
  <1>2. PICK r \in replacement :
            LET link == [conn |-> c, leg |-> r.leg, generation |-> r.pending]
                left == bindings \ RetiredLinks(bindings)
            IN  /\ IF r.kind = "telnyx" THEN link \in owners ELSE c \notin used
                /\ FinishLegReplacement(d, r.pending, TRUE, at)
                /\ bindings' = Promoted(left, link)
                /\ owners' = (owners \ RetiredLinks(bindings)) \cup {link}
                /\ attachment' = [k \in Key |-> [attachment[k] EXCEPT
                                     !.revoked = @ \/ k \in RetiredAttachments]]
                /\ used' = used \cup {c} /\ receipts' = receipts
    BY <1>1 DEF PromoteReplacement, NeverUsed
  <1> DEFINE link == [conn |-> c, leg |-> r.leg, generation |-> r.pending]
  <1>3. /\ IF r.kind = "telnyx" THEN link \in owners ELSE link.conn \notin used
        /\ bindings' = Promoted(bindings \ RetiredLinks(bindings), link)
        /\ owners' = (owners \ RetiredLinks(bindings)) \cup {link}
        /\ used' = used \cup {link.conn}
    BY <1>2
  <1>4. IInv /\ r.leg \in Leg /\ r.pending \in Generation
        /\ \A x \in replacement : x = r
    BY DEF BInv, IInv, TypeOK, Replacement, OneReplacement
  <1>5. link \in Link /\ link.leg = r.leg /\ link.generation = r.pending /\ link.conn = c
    BY <1>4 DEF Link
  <1>6. /\ callState = "transferring" /\ callState' = "active"
        /\ legState' = Reported(r.leg, "connected")
        /\ binding' = [binding EXCEPT ![r.leg] = r.pending] /\ replacement' = {}
        /\ kind' = [kind EXCEPT ![r.leg] = r.kind]
    BY <1>2, <1>4 DEF FinishLegReplacement
  <1>7. Next
    BY <1>2, <1>4 DEF Next, Settle
  <1>8. IInv' /\ Moves
    BY <1>4, <1>7, NextIInv, NextMoves
  <1> HIDE DEF link
  <1>9. owners' = bindings'
    BY <1>3, <1>5, <1>6, PromotionLinks
  <1>10. bindings' \subseteq bindings \cup {link} /\ link \in bindings'
    BY <1>3 DEF Promoted
  <1>11. /\ link \in attached \/ (\A y \in History : KeyOf(y) # KeyOf(link))
         /\ \A y \in outbound \cup promoted : KeyOf(y) # KeyOf(link)
         /\ link \in attached \/ link.conn \notin used
    BY <1>3, <1>5, PromotedIsNew
  <1>12. \A b \in bindings : b \in Known /\ b.conn \in used
    BY DEF HInv, OwnersAreRemembered, ConnectionsNameOneRoute, Known
  <1>13. promoted' = promoted \cup {link}
    <2>1. ASSUME NEW b \in bindings', b.conn = c
          PROVE  b = link
      <3>1. CASE b \in bindings
        <4>1. link.conn \in used
          BY <1>5, <1>12, <2>1, <3>1
        <4>2. link \in Known
          BY <1>11, <4>1 DEF Known, History
        <4> QED
          BY <1>5, <1>12, <2>1, <3>1, <4>2 DEF HInv, ConnectionsNameOneRoute
      <3> QED
        BY <1>10, <3>1
    <2> QED
      BY <1>1, <1>5, <1>10, <2>1
  <1>14. History' = History \cup {link} /\ Known' \subseteq Known \cup {link}
    <2>1. History' = History \cup {link}
      BY <1>1, <1>13 DEF History
    <2> QED
      BY <1>9, <1>10, <1>12, <2>1 DEF Known
  <1>15. ConnectionsNameOneRoute'
    <2> DEFINE N == {link}
    <2>1. /\ N \in SUBSET Link /\ (\A x, y \in N : x = y)
          /\ \A x \in N : x \in Known \/ x.conn \notin used
          /\ used' = used \cup {x.conn : x \in N} /\ Known' \subseteq Known \cup N
      BY <1>3, <1>5, <1>11, <1>14 DEF Known, History
    <2> HIDE DEF N
    <2> QED
      BY <2>1, KnownConnections DEF HInv
  <1>16. RoutesHadOneConnection'
    <2>1. \A x, y \in History' : KeyOf(x) = KeyOf(y) => x = y
      BY <1>11, <1>14 DEF HInv, RoutesHadOneConnection, History
    <2>2. \A o \in outbound', p \in promoted' : KeyOf(o) # KeyOf(p)
      BY <1>1, <1>11, <1>13 DEF HInv, RoutesHadOneConnection
    <2> QED
      BY <2>1, <2>2 DEF RoutesHadOneConnection, KeyOf
  <1>17. OwnersAreRemembered' /\ BindsHaveReceipts'
    <2>1. bindings' \subseteq History'
      BY <1>10, <1>14 DEF HInv, OwnersAreRemembered
    <2>2. \A b \in bindings' : b = link \/ (b \in bindings /\ b.leg # r.leg)
      BY <1>3, <1>5 DEF Promoted
    <2>3. \A b \in bindings : b.leg # r.leg => kind'[b.leg] = kind[b.leg]
      BY <1>6, <1>12 DEF BInv, IInv, TypeOK, HInv, ConnectionsNameOneRoute, Link
    <2>4. BindsHaveReceipts'
      BY <1>1, <1>13, <2>2, <2>3 DEF HInv, BindsHaveReceipts
    <2> QED
      BY <1>9, <2>1, <2>4 DEF OwnersAreRemembered
  <1>18. ReceiptsArePast' /\ ContextsArePast'
    <2>1. Grows /\ Known \subseteq Link
      BY <1>8 DEF HInv, ConnectionsNameOneRoute, Moves
    <2>2. ReceiptsArePast /\ ContextsArePast
      BY DEF HInv
    <2>3. \A x \in outbound \cup promoted : x.generation <= binding'[x.leg]
      BY <1>4, <1>8, <2>1, <2>2, ReceiptsStayPast
    <2>4. link.generation <= binding'[link.leg]
      BY <1>4, <1>5, <1>6, BoundAssumption DEF IInv, TypeOK, Generation
    <2>5. \A x \in outbound' \cup promoted' : x.generation <= binding'[x.leg]
      BY <1>1, <1>13, <2>3, <2>4
    <2>6. ReceiptsArePast'
      BY <1>1, <1>2, <1>6, <2>2, <2>5 DEF ReceiptsArePast, SetupState
    <2> QED
      BY <1>1, <1>4, <1>8, <1>14, <2>1, <2>2, <2>6, ContextsStayPast
  <1>19. \A k \in Key :
             /\ attachment'[k].purpose = attachment[k].purpose
             /\ attachment'[k].consumed = attachment[k].consumed
             /\ attachment'[k] = attachment[k] \/ attachment'[k].consumed \/ attachment'[k].revoked
    BY <1>2, PromotionRows
  <1>20. AttachmentsAreIssuedOnce'
    <2>1. started \subseteq started'
      BY <1>8 DEF Moves, Starts
    <2>2. \A k \in Key : issued'[k] = issued[k]
      BY <1>1, <1>19 DEF IssuesOf
    <2>3. issued' = [k \in Key |-> IF attachment'[k].purpose = "none" THEN 0 ELSE 1]
      BY <1>1, <1>19, <2>2 DEF IssuesOf, HInv, AttachmentsAreIssuedOnce
    <2> QED
      BY <1>19, <2>1, <2>3 DEF HInv, AttachmentsAreIssuedOnce
  <1>21. AttachedAreConsumed'
    <2>1. \A a \in attached : KeyOf(a) \in Key /\ a.leg \in Leg
      BY DEF HInv, ConnectionsNameOneRoute, Known, History, Link, KeyOf, Key
    <2> QED
      BY <1>1, <1>8, <1>19, <2>1 DEF HInv, AttachedAreConsumed, KeyOf, Moves, Grows
  <1>22. PendingAreOwned'
    BY <1>6 DEF PendingAreOwned
  <1> QED
    BY <1>15, <1>16, <1>17, <1>18, <1>20, <1>21, <1>22 DEF HInv

\* The rows remember nothing at first.
LEMMA SInitHistory == SInit => HInv
  <1> SUFFICES ASSUME SInit PROVE HInv
    OBVIOUS
  <1>1. /\ bindings = {} /\ owners = {} /\ receipts = {} /\ replacement = {}
        /\ attached = {} /\ outbound = {} /\ promoted = {} /\ contexts = {}
    BY DEF SInit, BInit, Init
  <1>2. History = {} /\ Known = {}
    BY <1>1 DEF History, Known
  <1>3. \A k \in Key : attachment[k].purpose = "none"
    BY DEF SInit, BInit
  <1>4. AttachmentsAreIssuedOnce
    BY <1>3 DEF AttachmentsAreIssuedOnce, SInit
  <1> QED
    BY <1>1, <1>2, <1>4 DEF HInv, ConnectionsNameOneRoute, RoutesHadOneConnection,
       OwnersAreRemembered, ReceiptsArePast, AttachedAreConsumed, PendingAreOwned,
       ContextsArePast, BindsHaveReceipts

\* Every transaction.
LEMMA SNextHistory == BInv /\ HInv /\ [SNext]_svars => HInv'
  <1> SUFFICES ASSUME BInv, HInv, [SNext]_svars PROVE HInv'
    OBVIOUS
  <1>1. CASE UNCHANGED svars
    BY <1>1, SameHistory DEF svars, bvars, tables, ledgers
  <1>2. CASE SNext
    BY <1>2, RegistrationHistory, OtherReportHistory, PromotionHistory, InspectionHistory,
       ConsumptionHistory, OutboundHistory, GuardedReportHistory, ContextHistory
       DEF SNext, Operation
  <1> QED
    BY <1>1, <1>2

-----------------------------------------------------------------------------
(***************************************************************************)
(* The load.                                                               *)
(***************************************************************************)

\* Both invariants hold in every reachable state.
THEOREM HistoryInvariance == SSpec => [](BInv /\ HInv)
  <1>1. SInit => BInv /\ HInv
    BY BInitBInv, SInitHistory DEF SInit
  <1>2. BInv /\ HInv /\ [SNext]_svars => (BInv /\ HInv)'
    BY BNextBInv, TransactionsAreSteps, SNextHistory
  <1> QED
    BY <1>1, <1>2, PTL DEF SSpec

\* The load makes owners of the bound and of the attached connections.
LEMMA LoadedAreKnown ==
    ASSUME BInv, HInv
    PROVE  /\ LoadedOwners = bindings \cup attached
           /\ bindings \subseteq owners /\ owners \subseteq LoadedOwners
           /\ LoadedOwners \subseteq History
  <1>1. /\ bindings \subseteq History /\ owners \ bindings \subseteq attached
        /\ bindings \subseteq owners
        /\ \A x, y \in Known : x.conn = y.conn => x = y
    BY DEF HInv, OwnersAreRemembered, ConnectionsNameOneRoute, BInv, TablesAgree, OwnersMatch
  <1>2. ASSUME NEW a \in attached
        PROVE  a \in LoadedOwners
    <2>1. CASE \A b \in bindings : b.leg = a.leg => b.conn # a.conn
      BY <2>1 DEF LoadedOwners, AttachedApart
    <2>2. ASSUME NEW b \in bindings, b.conn = a.conn
          PROVE  a \in LoadedOwners
      <3>1. a = b
        BY <1>1, <2>2 DEF Known, History
      <3> QED
        BY <3>1 DEF LoadedOwners
    <2> QED
      BY <2>1, <2>2
  <1> QED
    BY <1>1, <1>2 DEF LoadedOwners, AttachedApart, History

\* from_snapshot_at accepts the rows.
LEMMA HistoryLoads ==
    ASSUME BInv, HInv
    PROVE  /\ OtherwiseLoads
           /\ \A b \in Unexplained : b \in attached /\ kind[b.leg] = "telnyx"
  <1>1. /\ bindings \subseteq owners /\ LoadedOwners \subseteq History
        /\ bindings \subseteq History /\ History \subseteq Known
    BY LoadedAreKnown DEF HInv, OwnersAreRemembered, Known
  <1>2. /\ \A x, y \in Known : x.conn = y.conn => x = y
        /\ \A x \in Known : x.conn \in used
        /\ Known \subseteq Link
    BY DEF HInv, ConnectionsNameOneRoute
  <1>3. /\ \A x, y \in History : KeyOf(x) = KeyOf(y) => x = y
        /\ \A o \in outbound, p \in promoted : KeyOf(o) # KeyOf(p)
    BY DEF HInv, RoutesHadOneConnection
  <1>4. CallsLoad
    BY <1>1, <1>2 DEF CallsLoad, BInv, TablesAgree, BindingsAreCurrent
  <1>5. AttachmentsLoad
    <2>1. \A o1, o2 \in LoadedOwners : o1.conn = o2.conn \/ KeyOf(o1) = KeyOf(o2) => o1 = o2
      BY <1>1, <1>2, <1>3
    <2>2. \A k \in Key : issued[k] = IF attachment[k].purpose = "none" THEN 0 ELSE 1
      BY DEF HInv, AttachmentsAreIssuedOnce
    <2> QED
      BY <2>1, <2>2 DEF AttachmentsLoad
  <1>6. UsedConnectionsLoad
    BY <1>1, <1>2 DEF UsedConnectionsLoad
  <1>7. OutboundResultsLoad
    <2>1. outbound \subseteq History
      BY DEF History
    <2>2. \A o \in outbound : Initiator[o.leg] = "bridgefu"
      BY DEF HInv, ReceiptsArePast
    <2> QED
      BY <1>1, <1>2, <1>3, <2>1, <2>2 DEF OutboundResultsLoad
  <1>8. ASSUME NEW b \in Unexplained
        PROVE  b \in attached /\ kind[b.leg] = "telnyx"
    <2>1. /\ b \in bindings /\ Initiator[b.leg] = "bridgefu"
          /\ (b \in outbound) = (b \in promoted)
      BY DEF Unexplained, BridgefuBindings
    <2>2. b \notin outbound /\ b \notin promoted
      BY <1>3, <2>1
    <2>3. b \in attached
      BY <1>1, <2>1, <2>2 DEF History
    <2>4. kind[b.leg] = "telnyx"
      BY <2>1, <2>2 DEF HInv, BindsHaveReceipts
    <2> QED
      BY <2>3, <2>4
  <1>9. \A x \in History : Historical(x)
    BY <1>1, <1>2 DEF Historical, History
  <1>10. GuardsLoad
    BY <1>1, <1>2, <1>9 DEF GuardsLoad, History
  <1>11. ContextsLoad
    <2> SUFFICES ASSUME NEW x \in contexts
                 PROVE  /\ Historical(x.source)
                        /\ binding[x.source.leg] >= x.source.generation
                        /\ binding[x.target[1]] >= x.target[2]
      BY DEF ContextsLoad
    <2>1. /\ x.source \in History /\ x.target \in Key
          /\ x.source.generation <= binding[x.source.leg]
          /\ x.target[2] <= binding[x.target[1]]
      BY DEF HInv, ContextsArePast
    <2>2. x.source \in Link
      BY <1>1, <1>2, <2>1
    <2>3. /\ x.source.generation \in Nat /\ binding[x.source.leg] \in Nat
          /\ x.target[2] \in Nat /\ binding[x.target[1]] \in Nat
      BY <2>1, <2>2, BoundAssumption DEF Link, Key, BInv, IInv, TypeOK, Generation
    <2> QED
      BY <1>9, <2>1, <2>3
  <1> QED
    BY <1>4, <1>5, <1>6, <1>7, <1>8, <1>10, <1>11 DEF OtherwiseLoads

\* What the load brings back decides nothing.
LEMMA LoadDecides ==
    ASSUME BInv, HInv
    PROVE  ReloadDecidesAlike
  <1>1. /\ LoadedOwners = bindings \cup attached
        /\ bindings \subseteq owners /\ owners \subseteq LoadedOwners
    BY LoadedAreKnown
  <1>2. bindings \cap owners = bindings \cap LoadedOwners
    BY <1>1
  <1>3. ASSUME NEW k \in Key,
               \/ ~attachment[k].consumed
               \/ binding[k[1]] = k[2] /\ legState[k[1]] = "pending"
        PROVE  (\E o \in owners : KeyOf(o) = k) <=> (\E o \in LoadedOwners : KeyOf(o) = k)
    <2>1. ASSUME NEW o \in attached, KeyOf(o) = k
          PROVE  FALSE
      <3>1. attachment[k].consumed /\ legState[o.leg] # "pending" /\ o.leg = k[1]
        BY <2>1 DEF HInv, AttachedAreConsumed, KeyOf
      <3> QED
        BY <1>3, <3>1
    <2> QED
      BY <1>1, <2>1
  <1>4. ASSUME NEW r \in replacement, NEW c \in Conn
        PROVE  LET link == [conn |-> c, leg |-> r.leg, generation |-> r.pending]
               IN  link \in owners <=> link \in LoadedOwners
    <2> DEFINE link == [conn |-> c, leg |-> r.leg, generation |-> r.pending]
    <2>1. KeyOf(link) = <<r.leg, r.pending>>
      BY DEF KeyOf
    <2>2. link \in attached => link \in owners
      BY <2>1 DEF HInv, PendingAreOwned
    <2> HIDE DEF link
    <2>3. link \in owners <=> link \in LoadedOwners
      BY <1>1, <2>2
    <2> QED
      BY <2>3 DEF link
  <1> QED
    BY <1>2, <1>3, <1>4, HistoryLoads DEF ReloadDecidesAlike

\* What any sequence of transactions leaves in the tables loads again, but
\* for the binding of a Telnyx leg by its attachment, and the owners that the
\* load rebuilds decide every later transaction as the repository in memory
\* would.
THEOREM ReloadCorrect == SSpec => []ReloadDecidesAlike
  <1>1. BInv /\ HInv => ReloadDecidesAlike
    BY LoadDecides
  <1> QED
    BY <1>1, HistoryInvariance, PTL

-----------------------------------------------------------------------------
(***************************************************************************)
(* Writing back.                                                           *)
(***************************************************************************)
TableName == {"legs", "connection_bindings", "attachments", "used_connection_ids",
              "outbound_binding_results", "initial_contexts", "control_outbox"}

\* A table has one row for each value of its primary key.
KeysAreUnique ==
    \A t \in TableName : \A x, y \in Snapshot[t] : SameKey(t, x, y) => x = y

\* An operation takes no row away, bindings apart, and retires a control effect
\* only of a leg that left or moved on.
Persists ==
    /\ \A k \in Key : attachment[k].purpose # "none" => attachment'[k].purpose # "none"
    /\ \A k \in Key : DOMAIN control[k] \subseteq DOMAIN control'[k]
    /\ used \subseteq used' /\ attached \subseteq attached' /\ outbound \subseteq outbound'
    /\ promoted \subseteq promoted' /\ contexts \subseteq contexts'
    /\ RetirementsAreExplained

\* The deletes and upserts of a table leave its rows after the operation.
LEMMA UpsertMakes ==
    ASSUME NEW t, NEW after,
           \A x, y \in rows[t] : SameKey(t, x, y) => x = y,
           \A x, y \in after[t] : SameKey(t, x, y) => x = y,
           t # "connection_bindings" => \A x \in rows[t] : \E y \in after[t] : SameKey(t, x, y)
    PROVE  /\ Upsert(t, after) = after[t]
           /\ t # "connection_bindings" => Removed(t, after) = {}
  <1>1. t # "connection_bindings" => Removed(t, after) = {}
    BY DEF Removed
  <1>2. ASSUME NEW x \in Kept(t, after), x \notin after[t]
        PROVE  \E y \in Changed(t, after) : SameKey(t, x, y)
    <2>1. x \in rows[t] /\ \E y \in after[t] : SameKey(t, x, y)
      BY <1>2 DEF Kept, Removed
    <2>2. PICK y \in after[t] : SameKey(t, x, y)
      BY <2>1
    <2>3. y \notin rows[t]
      BY <1>2, <2>1, <2>2
    <2> QED
      BY <2>2, <2>3 DEF Changed
  <1>3. ASSUME NEW x \in after[t], x \in rows[t]
        PROVE  x \in Kept(t, after) /\ \A y \in Changed(t, after) : ~SameKey(t, x, y)
    <2>1. x \in Kept(t, after)
      BY <1>3 DEF Kept, Removed
    <2>2. \A y \in Changed(t, after) : ~SameKey(t, x, y)
      BY <1>3 DEF Changed
    <2> QED
      BY <2>1, <2>2
  <1>4. \A x : x \in Changed(t, after) <=> x \in after[t] /\ x \notin rows[t]
    BY DEF Changed
  <1>5. \A x : x \in Upsert(t, after) <=>
            \/ x \in Kept(t, after) /\ \A y \in Changed(t, after) : ~SameKey(t, x, y)
            \/ x \in Changed(t, after)
    BY DEF Upsert
  <1>6. \A x : x \in Upsert(t, after) <=> x \in after[t]
    BY <1>2, <1>3, <1>4, <1>5
  <1> QED
    BY <1>1, <1>6

\* The tables of a snapshot.
LEMMA SnapshotTables ==
    /\ DOMAIN Snapshot = TableName
    /\ Snapshot["legs"] = LegRows /\ Snapshot["connection_bindings"] = bindings
    /\ Snapshot["attachments"] = AttachmentRows
    /\ Snapshot["used_connection_ids"] = {[conn |-> c] : c \in used}
    /\ Snapshot["outbound_binding_results"] = outbound
    /\ Snapshot["initial_contexts"] = contexts
    /\ Snapshot["control_outbox"] = ControlRows
  BY DEF Snapshot, TableName

\* The primary keys.
LEMMA TableKeys ==
    ASSUME NEW x, NEW y
    PROVE  /\ SameKey("legs", x, y) <=> x.leg = y.leg
           /\ SameKey("attachments", x, y) <=> x.key = y.key
           /\ SameKey("initial_contexts", x, y) <=> x.target = y.target
           /\ SameKey("control_outbox", x, y) <=> x.key = y.key /\ x.sequence = y.sequence
           /\ SameKey("connection_bindings", x, y) <=> x.conn = y.conn
           /\ SameKey("used_connection_ids", x, y) <=> x.conn = y.conn
           /\ SameKey("outbound_binding_results", x, y) <=> x.conn = y.conn
  BY DEF SameKey

\* The invariants give every table its keys.
LEMMA TablesHaveKeys == BInv /\ HInv => KeysAreUnique
  <1> SUFFICES ASSUME BInv, HInv PROVE KeysAreUnique
    OBVIOUS
  <1>1. \A x, y \in LegRows : x.leg = y.leg => x = y
    BY DEF LegRows
  <1>2. \A x, y \in AttachmentRows : x.key = y.key => x = y
    BY DEF AttachmentRows
  <1>3. \A x, y \in ControlRows : x.key = y.key /\ x.sequence = y.sequence => x = y
    BY DEF ControlRows
  <1>4. \A x, y \in {[conn |-> c] : c \in used} : x.conn = y.conn => x = y
    OBVIOUS
  <1>5. \A x, y \in contexts : x.target = y.target => x = y
    BY DEF HInv, ContextsArePast
  <1>6. \A x, y \in Known : x.conn = y.conn => x = y
    BY DEF HInv, ConnectionsNameOneRoute
  <1>7. bindings \subseteq Known /\ outbound \subseteq Known
    BY DEF HInv, OwnersAreRemembered, Known, History
  <1>8. /\ \A x, y \in Snapshot["legs"] : SameKey("legs", x, y) => x = y
        /\ \A x, y \in Snapshot["attachments"] : SameKey("attachments", x, y) => x = y
        /\ \A x, y \in Snapshot["control_outbox"] : SameKey("control_outbox", x, y) => x = y
    BY <1>1, <1>2, <1>3, SnapshotTables, TableKeys
  <1>9. /\ \A x, y \in Snapshot["used_connection_ids"] :
               SameKey("used_connection_ids", x, y) => x = y
        /\ \A x, y \in Snapshot["initial_contexts"] : SameKey("initial_contexts", x, y) => x = y
    BY <1>4, <1>5, SnapshotTables, TableKeys
  <1>10. /\ \A x, y \in Snapshot["connection_bindings"] :
                SameKey("connection_bindings", x, y) => x = y
         /\ \A x, y \in Snapshot["outbound_binding_results"] :
                SameKey("outbound_binding_results", x, y) => x = y
    BY <1>6, <1>7, SnapshotTables, TableKeys
  <1> QED
    BY <1>8, <1>9, <1>10 DEF KeysAreUnique, TableName

\* A row stays, whatever becomes of its contents.
LEMMA RowsStay ==
    ASSUME Persists, NEW after, after = Snapshot', NEW t \in TableName \ {"connection_bindings"}
    PROVE  \A x \in Snapshot[t] : \E y \in after[t] : SameKey(t, x, y)
  <1>1. /\ after["legs"] = LegRows' /\ after["attachments"] = AttachmentRows'
        /\ after["used_connection_ids"] = {[conn |-> c] : c \in used'}
        /\ after["outbound_binding_results"] = outbound'
        /\ after["initial_contexts"] = contexts' /\ after["control_outbox"] = ControlRows'
    BY DEF Snapshot
  <1>2. CASE t = "legs"
    <2>1. ASSUME NEW x \in LegRows
          PROVE  \E y \in LegRows' : x.leg = y.leg
      <3>1. PICK l \in Leg : x = [leg |-> l, generation |-> binding[l], state |-> legState[l]]
        BY DEF LegRows
      <3>2. [leg |-> l, generation |-> binding'[l], state |-> legState'[l]] \in LegRows'
        BY DEF LegRows
      <3> QED
        BY <3>1, <3>2
    <2> QED
      BY <1>1, <1>2, <2>1, SnapshotTables, TableKeys
  <1>3. CASE t = "attachments"
    <2>1. ASSUME NEW x \in AttachmentRows
          PROVE  \E y \in AttachmentRows' : x.key = y.key
      <3>1. PICK k \in Key : attachment[k].purpose # "none" /\ x.key = k
        BY DEF AttachmentRows
      <3>2. attachment'[k].purpose # "none"
        BY <3>1 DEF Persists
      <3>3. [key |-> k, row |-> attachment'[k], link |-> {a \in attached' : KeyOf(a) = k}]
                \in AttachmentRows'
        BY <3>2 DEF AttachmentRows, KeyOf
      <3> QED
        BY <3>1, <3>3
    <2> QED
      BY <1>1, <1>3, <2>1, SnapshotTables, TableKeys
  <1>4. CASE t = "control_outbox"
    <2>1. ASSUME NEW x \in ControlRows
          PROVE  \E y \in ControlRows' : x.key = y.key /\ x.sequence = y.sequence
      <3>1. PICK k \in Key : \E i \in DOMAIN control[k] : x.key = k /\ x.sequence = i
        BY DEF ControlRows
      <3> PICK i \in DOMAIN control[k] : x.key = k /\ x.sequence = i
        BY <3>1
      <3>2. i \in DOMAIN control'[k]
        BY DEF Persists
      <3>3. [key |-> k, sequence |-> i, row |-> control'[k][i]] \in ControlRows'
        BY <3>2 DEF ControlRows
      <3> QED
        BY <3>3
    <2> QED
      BY <1>1, <1>4, <2>1, SnapshotTables, TableKeys
  <1>5. CASE t = "used_connection_ids"
    <2>1. \A x \in {[conn |-> c] : c \in used} : \E y \in {[conn |-> c] : c \in used'} :
              x.conn = y.conn
      BY DEF Persists
    <2> QED
      BY <1>1, <1>5, <2>1, SnapshotTables, TableKeys
  <1>6. CASE t \in {"outbound_binding_results", "initial_contexts"}
    BY <1>1, <1>6, SnapshotTables, TableKeys DEF Persists
  <1> QED
    BY <1>2, <1>3, <1>4, <1>5, <1>6 DEF TableName

\* What an operation that takes no row away leaves can be written back.
LEMMA PersistsIsWritten ==
    ASSUME RowsAreCurrent, KeysAreUnique, KeysAreUnique', HInv, HInv', BInv', Persists,
           PersistDelta, NEW after, after = Snapshot'
    PROVE  /\ RemovesNothingElse(after) /\ ConstraintsHold(after)
           /\ RetirementsAreExplained /\ rows' = after
  <1>1. rows = Snapshot /\ Table = TableName /\ rows' = [t \in Table |-> Upsert(t, after)]
    BY SnapshotTables DEF RowsAreCurrent, Table, PersistDelta
  <1>2. ASSUME NEW t \in TableName
        PROVE  /\ Upsert(t, after) = after[t]
               /\ t # "connection_bindings" => Removed(t, after) = {}
    <2>1. /\ \A x, y \in rows[t] : SameKey(t, x, y) => x = y
          /\ \A x, y \in after[t] : SameKey(t, x, y) => x = y
      BY <1>1 DEF KeysAreUnique, SameKey
    <2>2. t # "connection_bindings" => \A x \in rows[t] : \E y \in after[t] : SameKey(t, x, y)
      BY <1>1, RowsStay
    <2> QED
      BY <2>1, <2>2, UpsertMakes
  <1>3. RemovesNothingElse(after)
    BY <1>1, <1>2 DEF RemovesNothingElse, Persists
  <1>4. after["connection_bindings"] = bindings' /\ rows["connection_bindings"] = bindings
        /\ after["outbound_binding_results"] = outbound'
    BY <1>1, SnapshotTables DEF Snapshot
  <1>5. /\ \A b1, b2 \in bindings' : b1.leg = b2.leg => b1 = b2
        /\ \A x, y \in Known' : x.conn = y.conn => x = y
        /\ \A x \in Known' : x.conn \in used'
        /\ bindings' \subseteq Known' /\ bindings \subseteq Known' /\ outbound' \subseteq Known'
    <2>1. bindings \subseteq History /\ bindings' \subseteq History' /\ History \subseteq History'
      BY DEF HInv, OwnersAreRemembered, History, Persists
    <2>2. History' \subseteq Known' /\ outbound' \subseteq History'
      BY DEF Known, History
    <2> QED
      BY <2>1, <2>2 DEF BInv, TablesAgree, BindingsAreCurrent, HInv, ConnectionsNameOneRoute
  <1>6. ASSUME NEW y \in Changed("connection_bindings", after),
               NEW x \in Kept("connection_bindings", after), x.leg = y.leg
        PROVE  x.conn = y.conn
    <2>1. y \in bindings' /\ x \in bindings
      BY <1>4 DEF Changed, Kept
    <2>2. x \in bindings' \/ \E z \in bindings' : SameKey("connection_bindings", x, z)
      BY <1>4, <2>1 DEF Kept, Removed
    <2>3. x \in bindings'
      BY <1>5, <2>1, <2>2, TableKeys
    <2> QED
      BY <1>5, <1>6, <2>1, <2>3
  <1>7. ConstraintsHold(after)
    <2>1. \A y1, y2 \in Changed("connection_bindings", after) : y1.leg = y2.leg => y1 = y2
      BY <1>4, <1>5 DEF Changed
    <2>2. \A o \in Changed("outbound_binding_results", after) : o.conn \in used'
      BY <1>4, <1>5 DEF Changed
    <2> QED
      BY <1>6, <2>1, <2>2 DEF ConstraintsHold
  <1>8. rows' = after
    <2>1. rows' = [t \in TableName |-> after[t]]
      BY <1>1, <1>2
    <2>2. after = [t \in TableName |-> after[t]]
      BY DEF Snapshot, TableName
    <2> QED
      BY <2>1, <2>2
  <1> QED
    BY <1>3, <1>7, <1>8 DEF Persists

\* Retiring keeps the effects of a binding, and changes only unfinished ones.
LEMMA RetiredItems ==
    ASSUME NEW s, NEW i \in DOMAIN s
    PROVE  /\ DOMAIN RetireControl(s) = DOMAIN s
           /\ ~Unfinished(s[i]) => RetireControl(s)[i] = s[i]
  BY DEF RetireControl

\* A step that leaves the statuses of the control effects alone.
LEMMA NothingRetired ==
    ASSUME \A k \in Key : \A i \in DOMAIN control[k] :
               /\ i \in DOMAIN control'[k]
               /\ control'[k][i].status = "retired" => control[k][i].status = "retired"
    PROVE  /\ \A k \in Key : DOMAIN control[k] \subseteq DOMAIN control'[k]
           /\ RetirementsAreExplained
  BY DEF RetirementsAreExplained

\* An applied command.
LEMMA AppliedPersists ==
    ASSUME BInv, NEW atts \in [Key -> Attachment], NEW links, NEW owned,
           Applied(atts, links, owned),
           \A k \in Key : atts[k].purpose = attachment[k].purpose
    PROVE  /\ \A k \in Key : attachment[k].purpose # "none" => attachment'[k].purpose # "none"
           /\ \A k \in Key : DOMAIN control[k] \subseteq DOMAIN control'[k]
           /\ RetirementsAreExplained
  <1>1. \A k \in Key : attachment[k].purpose # "none" => attachment'[k].purpose # "none"
    BY AppliedRows
  <1>2. control' = [k \in Key |->
                      IF binding'[k[1]] = k[2] /\ legState'[k[1]] \in {"connected", "held"}
                      THEN control[k] ELSE RetireControl(control[k])]
    BY DEF Applied
  <1>3. ASSUME NEW k \in Key
        PROVE  /\ DOMAIN control[k] \subseteq DOMAIN control'[k]
               /\ control'[k] = control[k] \/ binding'[k[1]] # k[2]
                  \/ legState'[k[1]] \notin {"connected", "held"}
    BY <1>2, RetiredItems
  <1> QED
    BY <1>1, <1>3 DEF RetirementsAreExplained

\* The reports and commands.
LEMMA CommitsPersist ==
    ASSUME BInv, Commits, UNCHANGED <<attached, outbound, promoted, contexts>>
    PROVE  Persists
  <1>1. /\ Applied(attachment, bindings, owners) /\ used' = used
        /\ attachment \in [Key -> Attachment]
    BY DEF Commits, BInv, TablesTyped
  <1>2. /\ \A k \in Key : attachment[k].purpose # "none" => attachment'[k].purpose # "none"
        /\ \A k \in Key : DOMAIN control[k] \subseteq DOMAIN control'[k]
        /\ RetirementsAreExplained
    BY <1>1, AppliedPersists
  <1> QED
    BY <1>1, <1>2 DEF Persists

\* consume_attachment.
LEMMA ConsumptionPersists ==
    ASSUME BInv, NEW l \in Leg, Consumption(l)
    PROVE  Persists
  <1> DEFINE g == candidate[l].generation
  <1>1. PICK c \in Conn, at \in Time :
            /\ ConsumeAttachment(l, c, at)
            /\ attached' = attached \cup {[conn |-> c, leg |-> l, generation |-> g]}
            /\ UNCHANGED <<outbound, promoted, contexts>>
    BY DEF Consumption
  <1> DEFINE link == [conn |-> c, leg |-> l, generation |-> g]
             atts == [attachment EXCEPT ![<<l, g>>].consumed = TRUE]
             links == IF PendingReplacement(l, g) THEN bindings ELSE bindings \cup {link}
             owned == owners \cup {link}
  <1>2. g \in Generation /\ Attachable(l, g)
    BY <1>1, CandidateVouches DEF ConsumeAttachment
  <1>3. binding[l] = g \/ PendingReplacement(l, g)
    BY <1>2 DEF Attachable
  <1>4. Applied(atts, links, owned) /\ used' = used \cup {c}
    BY <1>1, <1>3 DEF ConsumeAttachment
  <1>5. attachment \in [Key -> Attachment] /\ <<l, g>> \in Key
    BY <1>2 DEF BInv, TablesTyped, Key
  <1>6. /\ atts \in [Key -> Attachment]
        /\ \A k \in Key : atts[k].purpose = attachment[k].purpose
    BY <1>5, ConsumedAttachment
  <1> HIDE DEF atts, links, owned
  <1>7. /\ \A k \in Key : attachment[k].purpose # "none" => attachment'[k].purpose # "none"
        /\ \A k \in Key : DOMAIN control[k] \subseteq DOMAIN control'[k]
        /\ RetirementsAreExplained
    BY <1>4, <1>6, AppliedPersists
  <1> QED
    BY <1>1, <1>4, <1>7 DEF Persists

\* commit_service_command with a replacement connection: what it retires was for
\* the previous generation.
LEMMA PromotionPersists ==
    ASSUME BInv, Promotion
    PROVE  Persists
  <1>1. PICK c \in Conn, d \in 0 .. MaxDeadline, at \in Time :
            /\ PromoteReplacement(c, d, at)
            /\ promoted' = promoted \cup {b \in bindings' : b.conn = c}
            /\ UNCHANGED <<attached, outbound, contexts>>
    BY DEF Promotion
  <1>2. PICK r \in replacement :
            /\ FinishLegReplacement(d, r.pending, TRUE, at)
            /\ attachment' = [k \in Key |-> [attachment[k] EXCEPT
                                 !.revoked = @ \/ k \in RetiredAttachments]]
            /\ control' = [k \in Key |-> IF k[1] = r.leg
                                         THEN RetireControl(control[k])
                                         ELSE control[k]]
            /\ used' = used \cup {c}
    BY <1>1 DEF PromoteReplacement
  <1>3. /\ r.leg \in Leg /\ binding[r.leg] = r.previous /\ r.pending # r.previous
        /\ \A x \in replacement : x = r
    BY BoundAssumption DEF BInv, IInv, TypeOK, Replacement, Generation, Validate,
       ValidReplacement, OneReplacement
  <1>4. binding'[r.leg] = r.pending
    BY <1>2, <1>3 DEF FinishLegReplacement, BInv, IInv, TypeOK
  <1>5. ASSUME NEW k \in Key, NEW i \in DOMAIN control[k]
        PROVE  /\ i \in DOMAIN control'[k]
               /\ control'[k][i] = control[k][i] \/ binding'[k[1]] # k[2]
    <2>1. CASE k[1] # r.leg
      BY <1>2, <2>1
    <2>2. CASE k[1] = r.leg /\ Unfinished(control[k][i])
      <3>1. binding[r.leg] = k[2]
        BY <2>2 DEF BInv, TablesAgree, ControlTargetsAreLive
      <3> QED
        BY <1>2, <1>3, <1>4, <2>2, <3>1, RetiredItems
    <2>3. CASE k[1] = r.leg /\ ~Unfinished(control[k][i])
      BY <1>2, <2>3, RetiredItems
    <2> QED
      BY <2>1, <2>2, <2>3
  <1>6. /\ \A k \in Key : DOMAIN control[k] \subseteq DOMAIN control'[k]
        /\ RetirementsAreExplained
    BY <1>5 DEF RetirementsAreExplained
  <1>7. \A k \in Key : attachment'[k].purpose = attachment[k].purpose
    BY <1>2, PromotionRows
  <1> QED
    BY <1>1, <1>2, <1>6, <1>7 DEF Persists

\* register_worker and claim_restart_calls.
LEMMA RegistrationPersists ==
    ASSUME BInv, Registration
    PROVE  Persists
  <1>1. UNCHANGED <<attached, outbound, promoted, contexts>>
    BY DEF Registration, ledgers
  <1>2. CASE RegisterWorker
    <2>1. UNCHANGED <<attachment, control, used>>
      BY <1>2 DEF RegisterWorker, tables
    <2> QED
      BY <1>1, <2>1 DEF Persists, RetirementsAreExplained
  <1>3. CASE ClaimRestartCall
    <2> DEFINE gone(k) == attachment[k].purpose # "none" /\ ~attachment[k].consumed
               row(k) == [attachment[k] EXCEPT !.revoked = attachment[k].revoked \/ gone(k)]
    <2>1. /\ used' = used /\ attachment' = [k \in Key |-> row(k)]
          /\ control' = [k \in Key |-> [i \in DOMAIN control[k] |->
                            [control[k][i] EXCEPT !.by = 0]]]
      BY <1>3 DEF ClaimRestartCall
    <2>2. ASSUME NEW k \in Key
          PROVE  row(k).purpose = attachment[k].purpose
      <3>1. attachment[k] \in Attachment /\ (attachment[k].revoked \/ gone(k)) \in BOOLEAN
        BY DEF BInv, TablesTyped
      <3> HIDE DEF gone
      <3> QED
        BY <3>1, RevokedAttachment
    <2> HIDE DEF row
    <2>3. \A k \in Key : attachment'[k].purpose = attachment[k].purpose
      BY <2>1, <2>2
    <2>4. ASSUME NEW k \in Key, NEW i \in DOMAIN control[k]
          PROVE  /\ i \in DOMAIN control'[k]
                 /\ control'[k][i].status = "retired" => control[k][i].status = "retired"
      <3>1. control[k][i] \in Control
        BY DEF BInv, TablesTyped
      <3>2. i \in DOMAIN control'[k] /\ control'[k][i] = [control[k][i] EXCEPT !.by = 0]
        BY <2>1
      <3> QED
        BY <3>1, <3>2 DEF Control
    <2>5. /\ \A k \in Key : DOMAIN control[k] \subseteq DOMAIN control'[k]
          /\ RetirementsAreExplained
      BY <2>4, NothingRetired
    <2> QED
      BY <1>1, <2>1, <2>3, <2>5 DEF Persists
  <1> QED
    BY <1>2, <1>3 DEF Registration

\* The control outbox.
LEMMA ControlsPersist ==
    ASSUME BInv, NEW l \in Leg, Controls(l)
    PROVE  Persists
  <1> DEFINE k == <<l, binding[l]>>
  <1>1. UNCHANGED <<attached, outbound, promoted, contexts>> /\ ControlWork(l)
    BY DEF Controls, ledgers
  <1>2. k \in Key /\ control \in [Key -> Seq(Control)] /\ control[k] \in Seq(Control)
    BY DEF BInv, IInv, TypeOK, TablesTyped, Key
  <1>3. UNCHANGED <<attachment, used>>
    BY <1>1 DEF ControlWork, EnqueueControl, ClaimControlEffect, ExecuteControlEffect,
                ReconcileControl, SetControl
  <1>4. ASSUME NEW s, control' = [control EXCEPT ![k] = s],
               \A i \in DOMAIN control[k] :
                   i \in DOMAIN s /\ (s[i].status = "retired" => control[k][i].status = "retired")
        PROVE  Persists
    <2> HIDE DEF k
    <2>1. \A j \in Key : \A i \in DOMAIN control[j] :
              /\ i \in DOMAIN control'[j]
              /\ control'[j][i].status = "retired" => control[j][i].status = "retired"
      BY <1>2, <1>4
    <2>2. /\ \A j \in Key : DOMAIN control[j] \subseteq DOMAIN control'[j]
          /\ RetirementsAreExplained
      BY <2>1, NothingRetired
    <2> QED
      BY <1>1, <1>3, <2>2 DEF Persists
  <1>5. CASE EnqueueControl(l)
    <2> DEFINE new == [status |-> "ready", by |-> 0]
               s == Append(control[k], new)
    <2>1. control' = [control EXCEPT ![k] = s]
      BY <1>5 DEF EnqueueControl
    <2> HIDE DEF new, k
    <2>2. \A i \in DOMAIN control[k] : i \in DOMAIN s /\ s[i] = control[k][i]
      BY <1>2
    <2> HIDE DEF s
    <2>3. \A i \in DOMAIN control[k] :
              i \in DOMAIN s /\ (s[i].status = "retired" => control[k][i].status = "retired")
      BY <2>2
    <2> QED
      BY <1>4, <2>1, <2>3
  <1>6. ASSUME NEW i \in 1 .. Len(control[k]), NEW row, row.status # "retired",
               SetControl(l, i, row)
        PROVE  Persists
    <2> DEFINE s == [control[k] EXCEPT ![i] = row]
    <2>1. control' = [control EXCEPT ![k] = s]
      BY <1>6 DEF SetControl
    <2> HIDE DEF k
    <2>2. \A j \in DOMAIN control[k] :
              j \in DOMAIN s /\ (s[j].status = "retired" => control[k][j].status = "retired")
      BY <1>2, <1>6
    <2> HIDE DEF s
    <2> QED
      BY <1>4, <2>1, <2>2
  <1>7. ASSUME NEW i \in 1 .. Len(control[k]),
               ClaimControlEffect(l, i) \/ ExecuteControlEffect(l, i)
        PROVE  Persists
    <2>1. CASE ClaimControlEffect(l, i)
      BY <1>6, <2>1 DEF ClaimControlEffect
    <2>2. CASE ExecuteControlEffect(l, i)
      BY <1>6, <2>2 DEF ExecuteControlEffect, ReconcileControl
    <2> QED
      BY <1>7, <2>1, <2>2
  <1> QED
    BY <1>1, <1>5, <1>7 DEF ControlWork

\* Every operation.
LEMMA OperationsPersist ==
    ASSUME BInv, Operation
    PROVE  Persists
  <1>1. CASE OtherReport
    <2>1. Commits /\ UNCHANGED <<attached, outbound, promoted, contexts>>
      BY <1>1 DEF OtherReport, OtherCommand, UnboundReport, LeavesBindingRows
    <2> QED
      BY <2>1, CommitsPersist
  <1>2. ASSUME NEW l \in Leg, GuardedReport(l)
        PROVE  Persists
    <2>1. Commits /\ UNCHANGED <<attached, outbound, promoted, contexts>>
      BY <1>2 DEF GuardedReport, BoundReport, LeavesBindingRows
    <2> QED
      BY <2>1, CommitsPersist
  <1>3. ASSUME NEW l \in Leg, Inspection(l)
        PROVE  Persists
    <2>1. UNCHANGED <<attachment, control, used, attached, outbound, promoted, contexts>>
      BY <1>3 DEF Inspection, InspectAttachment, ledgers
    <2> QED
      BY <2>1 DEF Persists, RetirementsAreExplained
  <1>4. ASSUME NEW l \in Leg, OutboundBind(l)
        PROVE  Persists
    <2>1. /\ UNCHANGED <<attachment, control, attached, promoted, contexts>>
          /\ used \subseteq used' /\ outbound \subseteq outbound'
      BY <1>4 DEF OutboundBind, BindOutboundConnection
    <2> QED
      BY <2>1 DEF Persists, RetirementsAreExplained
  <1>5. ASSUME NEW l \in Leg, RecordInitialContext(l)
        PROVE  Persists
    <2>1. /\ UNCHANGED <<attachment, control, used, attached, outbound, promoted>>
          /\ contexts \subseteq contexts'
      BY <1>5 DEF RecordInitialContext, bvars, tables
    <2> QED
      BY <2>1 DEF Persists, RetirementsAreExplained
  <1> QED
    BY <1>1, <1>2, <1>3, <1>4, <1>5, RegistrationPersists, PromotionPersists,
       ConsumptionPersists, ControlsPersist DEF Operation

\* A transaction writes back what its operation left.
LEMMA TransactionIsWritten ==
    ASSUME BInv, HInv, RowsAreCurrent, BInv', HInv', KeysAreUnique', SNext,
           NEW after, after = Snapshot'
    PROVE  /\ RemovesNothingElse(after) /\ ConstraintsHold(after)
           /\ RetirementsAreExplained /\ rows' = after
  <1>1. Persists /\ PersistDelta
    BY OperationsPersist DEF SNext
  <1> QED
    BY <1>1, TablesHaveKeys, PersistsIsWritten

\* The invariants, and the keys of the tables after a transaction.
LEMMA SNextInvariants ==
    BInv /\ HInv /\ [SNext]_svars => BInv' /\ HInv' /\ KeysAreUnique'
  <1>1. BInv /\ HInv /\ [SNext]_svars => BInv' /\ HInv'
    BY BNextBInv, TransactionsAreSteps, SNextHistory
  <1>2. (BInv /\ HInv => KeysAreUnique)'
    BY TablesHaveKeys, PTL
  <1> QED
    BY <1>1, <1>2

\* The database always holds the repository's tables.
THEOREM RowsInvariance == SSpec => []RowsAreCurrent
  <1>1. SInit => RowsAreCurrent
    BY DEF SInit, RowsAreCurrent
  <1>2. BInv /\ HInv /\ RowsAreCurrent /\ [SNext]_svars => RowsAreCurrent'
    <2> SUFFICES ASSUME BInv, HInv, RowsAreCurrent, [SNext]_svars
                 PROVE  rows' = Snapshot'
      BY DEF RowsAreCurrent
    <2>1. BInv' /\ HInv' /\ KeysAreUnique'
      BY SNextInvariants
    <2>2. CASE SNext
      BY <2>1, <2>2, TransactionIsWritten
    <2>3. CASE UNCHANGED svars
      <3>1. UNCHANGED <<rows, binding, legState, attachment, control, bindings, used>>
            /\ UNCHANGED <<attached, outbound, contexts>>
        BY <2>3 DEF svars, bvars, tables, ledgers, vars, aggregate
      <3>2. UNCHANGED <<LegRows, AttachmentRows, ControlRows>>
        BY <3>1 DEF LegRows, AttachmentRows, ControlRows
      <3> QED
        BY <3>1, <3>2 DEF Snapshot, RowsAreCurrent
    <2> QED
      BY <2>2, <2>3
  <1> QED
    BY <1>1, <1>2, HistoryInvariance, PTL DEF SSpec

\* Every transaction can be written back, by any operation in any reachable state:
\* it removes only bindings, meets no row that breaks a constraint, explains the
\* control effects it retires, and leaves the tables equal to the repository.
THEOREM TransactionsCorrect == SSpec => TransactionsPersist
  <1>1. BInv /\ HInv /\ RowsAreCurrent /\ [SNext]_svars =>
            [\A after \in {Snapshot'} :
                 /\ RemovesNothingElse(after) /\ ConstraintsHold(after)
                 /\ RetirementsAreExplained
                 /\ rows' = after]_svars
    BY SNextInvariants, TransactionIsWritten
  <1> QED
    BY <1>1, HistoryInvariance, RowsInvariance, PTL DEF SSpec, TransactionsPersist
=============================================================================
