--------------------------- MODULE CallAggregate ---------------------------
(***************************************************************************)
(* The durable call aggregate of src/src/call_engine/domain.rs: exactly    *)
(* two legs, four generation-bound deadlines, an optional make-before-     *)
(* break replacement, and the effect intents that every decision emits.    *)
(*                                                                         *)
(* One action per CallCommand.  A command the code answers with Err, or    *)
(* ignores (IgnoredNoop, IgnoredStaleGeneration), changes nothing, so it   *)
(* is the absence of a step; its condition is the negation of the guard.   *)
(*                                                                         *)
(* Abstracted data: failure texts and codes (a leg has a failure exactly   *)
(* when it is "failed"), created/connected/ended timestamps, media flows,  *)
(* and leg kinds other than Telnyx, the only kind the aggregate tests.     *)
(***************************************************************************)
EXTENDS Naturals, FiniteSets

CONSTANTS
    Leg,                 \* the two leg identifiers
    Initiator,           \* [Leg -> {"remote", "bridgefu"}], who signals first
    Direction,           \* [Leg -> {"inbound", "outbound"}]
    InitialKind,         \* [Leg -> Kind], the kind of the first binding
    Time,                \* clock readings commands may carry, a set of naturals
    MaxVersion,          \* MAX_PERSISTED_GENERATION for the version,
    MaxBinding,          \*   for binding generations
    MaxDeadline          \*   and for deadline generations

VARIABLES
    callState,           \* CallAggregate::state
    legState,            \* [Leg -> LegState]
    kind,                \* [Leg -> Kind]
    binding,             \* [Leg -> Nat], Leg::binding_generation
    cursor,              \* [Leg -> Nat], replacement_generation_cursor, 0 = None
    deadline,            \* [DeadlineKind -> Nat], DeadlineSlot::generation
    due,                 \* [DeadlineKind -> Nat], DeadlineSlot::due_at, 0 = None
    outcome,             \* CallAggregate::terminal_outcome
    replacement,         \* Option<LegReplacement> as a set of at most one record
    version,             \* AggregateVersion
    updatedAt,           \* CallAggregate::updated_at
    effects,             \* the intents emitted by the latest decision
    bridged,             \* ledger: the media graph route an executor now holds
    routes,              \* ledger: <<leg, generation>> routes it now holds
    timers,              \* ledger: <<kind, generation>> timers it now holds
    started,             \* ledger: every route it was ever told to start
    stopped              \* ledger: every route it was ever told to stop

aggregate == <<callState, legState, kind, binding, cursor, deadline, due,
               outcome, replacement, version, updatedAt>>
ledger == <<effects, bridged, routes, timers, started, stopped>>
vars == <<aggregate, ledger>>

CallState == {"pending", "connecting", "active", "transferring", "ending",
              "ended", "failed"}
LegState == {"pending", "awaiting_attach", "signaling", "connected", "held",
             "ending", "ended", "failed"}
DeadlineKind == {"setup", "media", "transfer", "ending"}
Kind == {"telnyx", "other"}
Terminal == {"ended", "failed"}
Outcome == {"none", "ended", "failed"}
Generation == 1 .. MaxBinding
Replacement == [leg : Leg, previous : Generation, pending : Generation,
                kind : Kind]

ASSUME LegAssumption ==
    \E left, right \in Leg : left # right /\ Leg = {left, right}
ASSUME SemanticsAssumption ==
    /\ Initiator \in [Leg -> {"remote", "bridgefu"}]
    /\ Direction \in [Leg -> {"inbound", "outbound"}]
    /\ InitialKind \in [Leg -> Kind]
ASSUME BoundAssumption ==
    /\ Time \subseteq Nat
    /\ MaxVersion \in Nat /\ MaxBinding \in Nat \ {0} /\ MaxDeadline \in Nat

-----------------------------------------------------------------------------
(***************************************************************************)
(* Effect intents.  A decision's Vec of intents is a set here: no decision *)
(* repeats an intent, and within one decision the ledger does not depend   *)
(* on the order.  ExecuteTransfer, CompensateTransfer and                  *)
(* ConnectProviderDestination do not touch the ledger.                     *)
(***************************************************************************)
Intent(e, t, g) == [effect |-> e, target |-> t, generation |-> g]

StartEffects == {"StartLeg", "AwaitLegAttachment", "StartLegReplacement"}
StopEffects == {"StopLeg", "AbortLegReplacement"}

Bridge == Intent("BridgeMedia", "call", 0)
Unbridge == Intent("UnbridgeMedia", "call", 0)

Named(E, names) ==
    {<<e.target, e.generation>> : e \in {x \in E : x.effect \in names}}

\* What an executor holds after carrying out the intents E of one decision,
\* when the routes in gone reported their own end or were superseded.
Emit(E, gone, fired) ==
    /\ effects' = E
    /\ bridged' = ((bridged \/ Bridge \in E) /\ Unbridge \notin E)
    /\ routes' = (routes \cup Named(E, StartEffects))
                    \ (Named(E, StopEffects) \cup gone)
    /\ timers' = (timers \ (Named(E, {"CancelDeadline"}) \cup fired))
                    \cup Named(E, {"ScheduleDeadline"})
    /\ started' = started \cup Named(E, StartEffects)
    /\ stopped' = stopped \cup Named(E, StopEffects)

-----------------------------------------------------------------------------
\* Leg::replacement_generation_cursor, the highest generation ever reserved.
Cursor(l) == IF cursor[l] = 0 THEN binding[l] ELSE cursor[l]

\* Fault: a rejected attempt gives its generation back.
NextBinding(l) == binding[l] + 1

\* The generation begin_leg_replacement reserves.
NextGeneration(l) == Cursor(l) + 1

\* Leg::valid_leg_transition as a relation.
ValidLegTransition ==
    ({"pending"} \X {"awaiting_attach", "signaling", "ending", "failed"})
    \cup ({"awaiting_attach"} \X {"signaling", "ending", "failed"})
    \cup ({"signaling"} \X {"connected", "ending", "failed"})
    \cup ({"connected"} \X {"held", "ending", "ended", "failed"})
    \cup ({"held"} \X {"connected", "ending", "ended", "failed"})
    \cup ({"ending"} \X {"ended", "failed"})

DeadlineAllowed(k) ==
    \/ k = "setup" /\ callState = "connecting"
    \/ k = "media" /\ callState \in {"active", "transferring"}
    \/ k = "transfer" /\ callState = "transferring"
    \/ k = "ending" /\ callState = "ending"

\* CallAggregate::validate: every decision ends with it, and a decision whose
\* result does not satisfy it is an error.
ValidLegs ==
    /\ callState = "pending" => \A l \in Leg : legState[l] = "pending"
    /\ callState = "connecting" =>
         \A l \in Leg : legState[l] \in
             {"pending", "awaiting_attach", "signaling", "connected"}
    /\ callState \in {"active", "transferring"} =>
         \A l \in Leg : legState[l] \in {"connected", "held"}
    /\ callState = "ending" =>
         /\ outcome # "none"
         /\ \A l \in Leg : legState[l] \in {"ending", "ended", "failed"}
         /\ (\E l \in Leg : legState[l] = "failed") => outcome = "failed"
    /\ callState = "ended" =>
         outcome = "ended" /\ \A l \in Leg : legState[l] = "ended"
    /\ callState = "failed" =>
         outcome = "failed" /\ \A l \in Leg : legState[l] \in Terminal

ValidReplacement ==
    \A r \in replacement :
        /\ callState = "transferring"
        /\ legState[r.leg] = "held"
        /\ binding[r.leg] = r.previous
        /\ r.pending = Cursor(r.leg)
        /\ r.pending > r.previous
        /\ due["transfer"] # 0

Validate ==
    /\ \A l \in Leg : binding[l] # 0 /\ Cursor(l) >= binding[l]
    /\ ValidLegs
    /\ ValidReplacement
    /\ callState \notin {"ending", "ended", "failed"} => outcome = "none"
    /\ \A k \in DeadlineKind : due[k] # 0 => DeadlineAllowed(k)

\* CallAggregate::decide for an applied command: the version advances, the
\* command time (never before updated_at) is recorded, the result is valid.
Decide(at) ==
    /\ at \in Time /\ at >= updatedAt
    /\ version < MaxVersion
    /\ version' = version + 1
    /\ updatedAt' = at
    /\ Validate'

-----------------------------------------------------------------------------
(***************************************************************************)
(* Deadline helpers: arm_deadline_internal and cancel_deadline_internal.   *)
(***************************************************************************)
\* Fault: the cancellation names the generation about to be armed.
CancelsNext(K) ==
    {Intent("CancelDeadline", k, deadline[k] + 1) : k \in {x \in K : due[x] # 0}}

Cancels(K) ==
    {Intent("CancelDeadline", k, deadline[k]) : k \in {x \in K : due[x] # 0}}

Disarmed(K) == [k \in DeadlineKind |-> IF k \in K THEN 0 ELSE due[k]]

Schedules(k) == {Intent("ScheduleDeadline", k, deadline[k] + 1)}

CanArm(k) == deadline[k] < MaxDeadline

Armed(k, t) == [due EXCEPT ![k] = t]

Future(t, at) == t \in Time /\ t > at

BeforeEnding == {"setup", "media", "transfer"}

\* The legs that begin_ending_internal tells to stop.
ToStop(ls) == {l \in Leg : ls[l] \notin Terminal \cup {"ending"}}

SelectOutcome(out) == IF outcome = "failed" THEN "failed" ELSE out

\* Fault: a call that ends during a transfer keeps its media route.
UnbridgeActiveOnly == IF callState = "active" THEN {Unbridge} ELSE {}

UnbridgeRoute ==
    IF callState \in {"active", "transferring"} THEN {Unbridge} ELSE {}

\* begin_ending_internal: ls are the leg states the handler has already
\* written, out the outcome it selects, t the teardown deadline (0 = None),
\* gone the routes that ended by themselves and fired the timer that brought
\* the call here.
BeginEndingInternal(ls, out, t, gone, fired) ==
    LET asked == ToStop(ls)
        next == [l \in Leg |-> IF l \in asked THEN "ending" ELSE ls[l]]
        live == BeforeEnding \ {f[1] : f \in fired}
    IN  /\ legState' = next
        /\ outcome' = SelectOutcome(out)
        /\ callState' = "ending"
        /\ replacement' = {}
        /\ t # 0 => CanArm("ending")
        /\ deadline' = IF t = 0 THEN deadline
                       ELSE [deadline EXCEPT !["ending"] = @ + 1]
        /\ due' = IF t = 0 THEN Disarmed(BeforeEnding)
                  ELSE [Disarmed(BeforeEnding) EXCEPT !["ending"] = t]
        /\ Emit(UnbridgeRoute
                \cup {Intent("AbortLegReplacement", r.leg, r.pending)
                         : r \in replacement}
                \cup Cancels(live)
                \cup {Intent("StopLeg", l, binding[l]) : l \in asked}
                \cup (IF t = 0 THEN {}
                      ELSE Cancels({"ending"}) \cup Schedules("ending")),
                gone, fired)
        /\ UNCHANGED <<kind, binding, cursor>>

\* finalize_terminal: every leg is terminal, a failed leg fails the call.
FinalizeTerminal(ls, out, gone, fired) ==
    LET final == IF \E l \in Leg : ls[l] = "failed" THEN "failed" ELSE out
    IN  /\ legState' = ls
        /\ outcome' = final
        /\ callState' = final
        /\ due' = Disarmed(DeadlineKind)
        /\ Emit(Cancels(DeadlineKind \ {f[1] : f \in fired}), gone, fired)
        /\ UNCHANGED <<kind, binding, cursor, deadline, replacement>>

-----------------------------------------------------------------------------
Init ==
    /\ callState = "pending"
    /\ legState = [l \in Leg |-> "pending"]
    /\ kind = InitialKind
    /\ binding = [l \in Leg |-> 1]
    /\ cursor = [l \in Leg |-> 0]
    /\ deadline = [k \in DeadlineKind |-> 0]
    /\ due = [k \in DeadlineKind |-> 0]
    /\ outcome = "none"
    /\ replacement = {}
    /\ version = 0
    /\ updatedAt \in Time
    /\ effects = {}
    /\ bridged = FALSE
    /\ routes = {} /\ timers = {} /\ started = {} /\ stopped = {}

StartConnecting(at, t) ==
    /\ callState = "pending"
    /\ Future(t, at) /\ CanArm("setup")
    /\ callState' = "connecting"
    /\ legState' = [l \in Leg |-> IF Initiator[l] = "remote"
                                  THEN "awaiting_attach" ELSE legState[l]]
    /\ deadline' = [deadline EXCEPT !["setup"] = @ + 1]
    /\ due' = Armed("setup", t)
    /\ Emit({Intent(IF Initiator[l] = "remote" THEN "AwaitLegAttachment"
                    ELSE "StartLeg", l, binding[l]) : l \in Leg}
            \cup Cancels({"setup"}) \cup Schedules("setup"), {}, {})
    /\ UNCHANGED <<kind, binding, cursor, outcome, replacement>>
    /\ Decide(at)

\* Fault: a report of a superseded binding is taken for the current one.
StaleReportAccepted(l, g, s) ==
    /\ callState \notin Terminal \cup {"pending"}
    /\ <<legState[l], s>> \in ValidLegTransition
    /\ callState = "ending" => legState[l] = "ending"

\* The part of set_leg_state before the write: the report comes from the
\* current binding, and the transition is one the leg may make.
ReportAccepted(l, g, s) ==
    /\ g = binding[l]
    /\ callState \notin Terminal \cup {"pending"}
    /\ <<legState[l], s>> \in ValidLegTransition
    /\ callState = "ending" => legState[l] = "ending"

Reported(l, s) == [legState EXCEPT ![l] = s]

\* reconcile_leg_state while the call is Ending: a failure selects the failed
\* outcome, and the last leg to finish finalizes the call.
EndingProgress(l, g, ls) ==
    LET out == IF ls[l] = "failed" THEN "failed" ELSE outcome
    IN  IF \A m \in Leg : ls[m] \in Terminal
        THEN FinalizeTerminal(ls, out, {<<l, g>>}, {})
        ELSE /\ legState' = ls
             /\ outcome' = out
             /\ Emit({}, {<<l, g>>}, {})
             /\ UNCHANGED <<callState, kind, binding, cursor, deadline, due,
                            replacement>>

\* reconcile_leg_state for a leg that is ending, ended or failed.
LegLeaves(l, g, ls) ==
    \/ callState = "ending" /\ EndingProgress(l, g, ls)
    \/ /\ callState # "ending"
       /\ BeginEndingInternal(ls, IF ls[l] = "failed" THEN "failed" ELSE "ended",
                              0, {<<l, g>>}, {})

\* SetLegState(Connected) of the leg that completes the setup.
LegConnectsCall(l, g, at) ==
    /\ ReportAccepted(l, g, "connected")
    /\ callState = "connecting"
    /\ \A m \in Leg : Reported(l, "connected")[m] = "connected"
    /\ legState' = Reported(l, "connected")
    /\ callState' = "active"
    /\ due' = Disarmed({"setup"})
    /\ Emit({Bridge} \cup Cancels({"setup"}), {}, {})
    /\ UNCHANGED <<kind, binding, cursor, deadline, outcome, replacement>>
    /\ Decide(at)

\* SetLegState to a state that neither completes the setup nor ends the leg.
LegAdvances(l, g, s, at) ==
    /\ ReportAccepted(l, g, s)
    /\ s \in {"awaiting_attach", "signaling", "connected", "held"}
    /\ ~(callState = "connecting"
         /\ \A m \in Leg : Reported(l, s)[m] = "connected")
    /\ legState' = Reported(l, s)
    /\ Emit({}, {}, {})
    /\ UNCHANGED <<callState, kind, binding, cursor, deadline, due, outcome,
                   replacement>>
    /\ Decide(at)

\* SetLegState(Ending | Ended | Failed).
LegReportsEnd(l, g, s, at) ==
    /\ ReportAccepted(l, g, s)
    /\ s \in {"ending", "ended", "failed"}
    /\ LegLeaves(l, g, Reported(l, s))
    /\ Decide(at)

SourceTerminatedBeforeAnswer(l, g, s, at) ==
    /\ g = binding[l]
    /\ Initiator[l] = "remote"
    /\ callState \in {"connecting", "ending"}
    /\ legState[l] \in {"pending", "awaiting_attach", "signaling", "ending"}
    /\ s \in Terminal
    /\ LegLeaves(l, g, Reported(l, s))
    /\ Decide(at)

ProviderSignaling(l) ==
    [legState EXCEPT ![l] = IF @ = "pending" THEN "signaling" ELSE @]

ProviderMediaStarted(l, g, at) ==
    /\ g = binding[l]
    /\ callState = "connecting"
    /\ Direction[l] = "outbound" /\ kind[l] = "telnyx"
    /\ legState[l] \in {"pending", "signaling"}
    /\ legState' = ProviderSignaling(l)
    /\ Emit({Intent("ConnectProviderDestination", l, g)}, {}, {})
    /\ UNCHANGED <<callState, kind, binding, cursor, deadline, due, outcome,
                   replacement>>
    /\ Decide(at)

ProviderMediaAttached(l, g, at) ==
    /\ \/ /\ callState = "connecting"
          /\ Direction[l] = "outbound" /\ kind[l] = "telnyx"
          /\ g = binding[l]
          /\ legState[l] \in {"pending", "signaling"}
          /\ legState' = ProviderSignaling(l)
       \/ /\ callState = "transferring"
          /\ \E r \in replacement :
                 r.leg = l /\ r.kind = "telnyx" /\ r.pending = g
          /\ legState' = legState
    /\ Emit({}, {}, {})
    /\ UNCHANGED <<callState, kind, binding, cursor, deadline, due, outcome,
                   replacement>>
    /\ Decide(at)

\* The old binding is superseded by the new awaited attachment.
RotateLegBinding(l, g, at) ==
    /\ g = binding[l]
    /\ callState = "connecting"
    /\ legState[l] \in {"awaiting_attach", "signaling"}
    /\ binding[l] < MaxBinding
    /\ binding' = [binding EXCEPT ![l] = @ + 1]
    /\ cursor' = [cursor EXCEPT ![l] =
                     IF @ # 0 /\ @ < binding[l] + 1 THEN binding[l] + 1 ELSE @]
    /\ legState' = Reported(l, "awaiting_attach")
    /\ Emit({Intent("AwaitLegAttachment", l, binding[l] + 1)}, {<<l, g>>}, {})
    /\ UNCHANGED <<callState, kind, deadline, due, outcome, replacement>>
    /\ Decide(at)

ArmDeadline(k, t, at) ==
    /\ DeadlineAllowed(k)
    /\ Future(t, at) /\ CanArm(k)
    /\ deadline' = [deadline EXCEPT ![k] = @ + 1]
    /\ due' = Armed(k, t)
    /\ Emit(Cancels({k}) \cup Schedules(k), {}, {})
    /\ UNCHANGED <<callState, legState, kind, binding, cursor, outcome,
                   replacement>>
    /\ Decide(at)

BeginTransfer(t, at) ==
    /\ callState = "active"
    /\ Future(t, at) /\ CanArm("transfer")
    /\ callState' = "transferring"
    /\ deadline' = [deadline EXCEPT !["transfer"] = @ + 1]
    /\ due' = Armed("transfer", t)
    /\ Emit(Cancels({"transfer"}) \cup Schedules("transfer")
            \cup {Intent("ExecuteTransfer", "call", deadline["transfer"] + 1)},
            {}, {})
    /\ UNCHANGED <<legState, kind, binding, cursor, outcome, replacement>>
    /\ Decide(at)

BeginLegReplacement(l, newKind, t, at) ==
    /\ callState = "active" /\ replacement = {}
    /\ Future(t, at) /\ CanArm("transfer")
    /\ legState[l] = "connected"
    /\ Cursor(l) < MaxBinding
    /\ callState' = "transferring"
    /\ legState' = Reported(l, "held")
    /\ cursor' = [cursor EXCEPT ![l] = NextGeneration(l)]
    /\ replacement' = {[leg |-> l, previous |-> binding[l],
                        pending |-> NextGeneration(l), kind |-> newKind]}
    /\ deadline' = [deadline EXCEPT !["transfer"] = @ + 1]
    /\ due' = Armed("transfer", t)
    /\ Emit({Unbridge} \cup Cancels({"transfer"}) \cup Schedules("transfer")
            \cup {Intent("StartLegReplacement", l, NextGeneration(l))}, {}, {})
    /\ UNCHANGED <<kind, binding, outcome>>
    /\ Decide(at)

\* A rejected result only adds a CompensateTransfer intent.
FinishTransfer(d, at) ==
    /\ d = deadline["transfer"]
    /\ replacement = {}
    /\ callState = "transferring" /\ due["transfer"] # 0
    /\ callState' = "active"
    /\ due' = Disarmed({"transfer"})
    /\ Emit(Cancels({"transfer"}), {}, {})
    /\ UNCHANGED <<legState, kind, binding, cursor, deadline, outcome,
                   replacement>>
    /\ Decide(at)

FinishLegReplacement(d, g, connected, at) ==
    \E r \in replacement :
        /\ d = deadline["transfer"]
        /\ callState = "transferring" /\ due["transfer"] # 0
        /\ g = r.pending
        /\ callState' = "active"
        /\ legState' = Reported(r.leg, "connected")
        /\ kind' = IF connected THEN [kind EXCEPT ![r.leg] = r.kind] ELSE kind
        /\ binding' = IF connected THEN [binding EXCEPT ![r.leg] = g]
                      ELSE binding
        /\ replacement' = {}
        /\ due' = Disarmed({"transfer"})
        /\ Emit(Cancels({"transfer"}) \cup {Bridge}
                \cup {IF connected THEN Intent("StopLeg", r.leg, r.previous)
                      ELSE Intent("AbortLegReplacement", r.leg, r.pending)},
                {}, {})
        /\ UNCHANGED <<cursor, deadline, outcome>>
        /\ Decide(at)

\* BeginEnding; t = 0 is a request without a teardown deadline, which an
\* already ending call ignores.
BeginEnding(t, at) ==
    /\ callState \notin Terminal
    /\ t = 0 => callState # "ending"
    /\ t # 0 => Future(t, at)
    /\ BeginEndingInternal(legState, "ended", t, {}, {})
    /\ Decide(at)

\* A timer may fire for the current generation once it is due.
Elapsed(k, d, at) ==
    /\ d = deadline[k]
    /\ due[k] # 0
    /\ at >= due[k]

EndingDeadlineElapsed(d, at) ==
    /\ Elapsed("ending", d, at)
    /\ FinalizeTerminal(
           [l \in Leg |-> IF legState[l] \in Terminal THEN legState[l]
                          ELSE "failed"],
           "failed", {}, {<<"ending", d>>})
    /\ Decide(at)

\* The transfer deadline of a replacement restores the held route.
ReplacementDeadlineElapsed(d, at) ==
    /\ Elapsed("transfer", d, at)
    /\ \E r \in replacement :
        /\ legState' = Reported(r.leg, "connected")
        /\ Emit({Intent("AbortLegReplacement", r.leg, r.pending), Bridge},
                {}, {<<"transfer", d>>})
    /\ replacement' = {}
    /\ callState' = "active"
    /\ due' = Disarmed({"transfer"})
    /\ UNCHANGED <<kind, binding, cursor, deadline, outcome>>
    /\ Decide(at)

\* Any other deadline fails the call and starts the teardown.
DeadlineElapsed(k, d, t, at) ==
    /\ k \in BeforeEnding
    /\ Elapsed(k, d, at)
    /\ k = "transfer" => replacement = {}
    /\ t # 0 => Future(t, at)
    /\ BeginEndingInternal(legState, "failed", t, {}, {<<k, d>>})
    /\ Decide(at)

\* What a peer, a provider or the media plane reports about a leg.
LegReport(l, g, at) ==
    \/ LegConnectsCall(l, g, at)
    \/ \E s \in LegState : LegAdvances(l, g, s, at)
    \/ \E s \in LegState : LegReportsEnd(l, g, s, at)
    \/ \E s \in LegState : SourceTerminatedBeforeAnswer(l, g, s, at)
    \/ ProviderMediaStarted(l, g, at)
    \/ ProviderMediaAttached(l, g, at)

\* What the API or an operator asks for.
Request(at) ==
    \/ \E t \in Time : StartConnecting(at, t)
    \/ \E l \in Leg, g \in Generation : RotateLegBinding(l, g, at)
    \/ \E k \in DeadlineKind, t \in Time : ArmDeadline(k, t, at)
    \/ \E t \in Time : BeginTransfer(t, at)
    \/ \E l \in Leg, n \in Kind, t \in Time : BeginLegReplacement(l, n, t, at)
    \/ \E t \in Time \cup {0} : BeginEnding(t, at)

\* The result of the transfer or replacement that a decision asked for.
Settle(d, at) ==
    \/ FinishTransfer(d, at)
    \/ \E g \in Generation, c \in BOOLEAN : FinishLegReplacement(d, g, c, at)

Timeout(d, at) ==
    \/ EndingDeadlineElapsed(d, at)
    \/ ReplacementDeadlineElapsed(d, at)
    \/ \E k \in BeforeEnding, t \in Time \cup {0} : DeadlineElapsed(k, d, t, at)

Next ==
    \E at \in Time :
        \/ \E l \in Leg, g \in Generation : LegReport(l, g, at)
        \/ Request(at)
        \/ \E d \in 0 .. MaxDeadline : Settle(d, at) \/ Timeout(d, at)

Spec == Init /\ [][Next]_vars

-----------------------------------------------------------------------------
\* Type invariant of the aggregate and of the executor's ledger.
TypeOK ==
    /\ callState \in CallState
    /\ legState \in [Leg -> LegState]
    /\ kind \in [Leg -> Kind]
    /\ binding \in [Leg -> Generation]
    /\ cursor \in [Leg -> Generation \cup {0}]
    /\ deadline \in [DeadlineKind -> 0 .. MaxDeadline]
    /\ due \in [DeadlineKind -> Time \cup {0}]
    /\ outcome \in Outcome
    /\ replacement \subseteq Replacement
    /\ version \in 0 .. MaxVersion
    /\ updatedAt \in Time
    /\ bridged \in BOOLEAN
    /\ routes \subseteq (Leg \X Generation)
    /\ started \subseteq (Leg \X Generation)
    /\ stopped \subseteq (Leg \X Generation)

\* Carrying out the intents of every decision, an executor holds the two-leg
\* media route exactly while the call is active, or is transferring without a
\* replacement: no decision forgets to bridge, or leaves media flowing to a
\* leg that is held for replacement or torn down.
BridgeMatchesCall ==
    bridged <=> \/ callState = "active"
                \/ callState = "transferring" /\ replacement = {}

\* Of every deadline kind the executor holds exactly the armed generation:
\* a re-armed, cancelled or fired deadline leaves no earlier timer behind.
TimersMatchDeadlines ==
    timers = {<<k, deadline[k]>> : k \in {x \in DeadlineKind : due[x] # 0}}

\* The routes the executor holds are the current bindings of the legs that are
\* not being torn down and the pending binding of a replacement.  So a call
\* that ends, a rejected or timed-out replacement and a rotated binding leave
\* no route behind, and no live leg loses its route.
RoutesMatchLegs ==
    routes =
        {<<l, binding[l]>> : l \in
            {m \in Leg : /\ callState # "pending"
                         /\ legState[m] \notin {"ending", "ended", "failed"}}}
        \cup {<<r.leg, r.pending>> : r \in replacement}

\* A setup and a transfer are always bounded by an armed deadline; only the
\* teardown may be left without one by the aggregate.
PhasesAreBounded ==
    /\ callState = "connecting" => due["setup"] # 0
    /\ callState = "transferring" => due["transfer"] # 0

\* The executor holds the timers of the armed deadlines and no other, and a
\* setup or a transfer always has one: no silent peer keeps a call for ever.
DeadlinesHold == TimersMatchDeadlines /\ PhasesAreBounded

\* At most one replacement is pending.
OneReplacement == \A r1, r2 \in replacement : r1 = r2

\* Every route ever started or stopped is within its leg's cursor, nothing
\* starts while the call is pending, and before the first connection no
\* generation has been reserved for a replacement.
GenerationsAreReserved ==
    /\ \A l \in Leg, g \in Generation :
           <<l, g>> \in started \cup stopped => g <= Cursor(l)
    /\ callState = "pending" => started = {}
    /\ callState \in {"pending", "connecting"} => \A l \in Leg : cursor[l] = 0

\* No route that a live leg or a pending replacement uses was told to stop.
LiveRoutesNotStopped ==
    /\ \A l \in Leg : legState[l] \notin {"ending", "ended", "failed"}
                         => <<l, binding[l]>> \notin stopped
    /\ \A r \in replacement : <<r.leg, r.pending>> \notin stopped

\* The inductive invariant of the aggregate and its executor: what decide
\* validates, what the executor holds, and which generations are used up.
IInv ==
    /\ TypeOK
    /\ Validate
    /\ OneReplacement
    /\ BridgeMatchesCall
    /\ TimersMatchDeadlines
    /\ RoutesMatchLegs
    /\ PhasesAreBounded
    /\ GenerationsAreReserved
    /\ LiveRoutesNotStopped

\* A binding generation is started once: no later StartLeg, awaited attachment
\* or replacement attempt of the leg reuses it, rejected attempts included.
GenerationsAreFresh ==
    [][started \cap Named(effects', StartEffects) = {}]_vars

\* A route is told to stop at most once.
StopsAreUnique ==
    [][stopped \cap Named(effects', StopEffects) = {}]_vars

\* A terminal call never changes again, and a failed outcome is never
\* replaced by a normal one during the teardown.
OutcomeIsSticky ==
    [][/\ callState \in Terminal => UNCHANGED aggregate
       /\ outcome = "failed" => outcome' = "failed"]_vars

\* No decision repeats history: no generation of a route is started twice, no
\* route is told to stop twice, and no teardown, however often requested,
\* turns a failed outcome into a normal one.
HistoryIsKept == GenerationsAreFresh /\ StopsAreUnique /\ OutcomeIsSticky
=============================================================================
