--------------------------- MODULE CallRepository ---------------------------
(***************************************************************************)
(* The durable call repository of src/src/persistence/memory.rs (the       *)
(* contract of src/src/call_engine/repository.rs): worker incarnations     *)
(* under fenced leases, calls pinned to one worker, the ordered effect     *)
(* outbox, claimed deadlines, and the takeover of a restarted worker's     *)
(* calls, with the steps src/src/call_service/execution.rs takes on it.    *)
(*                                                                         *)
(* Every action is one repository transaction.  A request the repository   *)
(* refuses changes nothing, so it is the absence of a step.  Requests come *)
(* from every incarnation f <= fence[w] of a worker, a partitioned or      *)
(* paused old process included; a crashed process takes no further steps.  *)
(*                                                                         *)
(* Abstracted data.  Time: a lease or a claim is past its expiry or not,   *)
(* and an armed deadline may be due at any moment.  A lease renewal only   *)
(* delays LeaseExpires and is refused after it.  The aggregate: its phase, *)
(* its version and one deadline slot; CallAggregate has the decisions.     *)
(* How many intents a decision emits is chosen independently of what it    *)
(* does to the slot.  A worker only ever serves its own calls, so a lease  *)
(* of a call, a row or a claim is written as its fence.                    *)
(***************************************************************************)
EXTENDS Integers, Sequences, FiniteSets

CONSTANTS
    Worker,              \* worker identifiers
    Call,                \* call identifiers
    Catalog,             \* route catalog fingerprints
    Capacity,            \* the values max_calls may be configured to
    MaxFence,            \* bound: incarnations of one worker
    MaxVersion,          \* bound: versions of a call that stays open or ending
    MaxIgnored,          \* bound: commands the aggregate of a call ignores
    MaxRows,             \* bound: effects of one call
    MaxBatch,            \* bound: effects of one command
    MaxDeadlines,        \* bound: deadline generations of an open call
    MaxClaims            \* bound: claims of one row

ASSUME CatalogAssumption == Worker # {} /\ Catalog # {}
ASSUME BoundAssumption ==
    /\ Capacity \subseteq Nat /\ Capacity # {}
    /\ MaxFence \in Nat /\ MaxVersion \in Nat /\ MaxIgnored \in Nat /\ MaxRows \in Nat
    /\ MaxBatch \in Nat /\ MaxDeadlines \in Nat /\ MaxClaims \in Nat

VARIABLES
    fence,               \* [Worker -> Nat], the registered fence, 0 = none
    expired,             \* [Worker -> BOOLEAN], lease_expires_at has passed
    draining,            \* [Worker -> BOOLEAN]
    catalog,             \* [Worker -> Catalog]
    maxCalls,            \* [Worker -> Capacity]
    reserved,            \* [Worker -> Nat], reserved_calls
    phase,               \* [Call -> Phase]
    version,             \* [Call -> Nat], AggregateVersion
    armed,               \* [Call -> Nat], generation of the armed slot, 0 = none
    owner,               \* [Call -> Worker], assignment.lease.worker_id
    lease,               \* [Call -> Nat], assignment.lease.fence
    pinned,              \* [Call -> Catalog], assignment.route_catalog_fingerprint
    released,            \* [Call -> BOOLEAN], assignment.released_at is set
    outbox,              \* [Call -> Seq(Row)], in outbox_order_key order
    deadlines,           \* [Call -> Seq(Timer)], indexed by generation
    commands,            \* [Call -> SUBSET Int], the recorded command identifiers
    applied,             \* [Call -> SUBSET Int], those with disposition Applied
    restarting,          \* [Call -> Nat], fence holding a RestartClaim, 0 = none
    writer               \* ledger: [Call -> Nat], fence of the latest writer

workers == <<fence, expired, draining, catalog, maxCalls, reserved>>
calls == <<phase, version, armed, owner, lease, pinned, released, restarting>>
vars == <<workers, calls, outbox, deadlines, commands, applied, writer>>

Phase == {"absent", "open", "ending", "terminal"}
Fence == 0 .. MaxFence

\* OutboxRecord: by is the claimant's fence, claim the claim generation and
\* lapsed whether the claim's expires_at has passed.  They belong to the
\* Claimed state and are gone when the row leaves it.
Row == [lease : Fence, status : {"ready", "claimed", "finished"},
        by : Fence, claim : Nat, lapsed : BOOLEAN]

\* DeadlineRecord.
Timer == [status : {"pending", "claimed", "cancelled", "completed"},
          by : Fence, claim : Nat, lapsed : BOOLEAN]

\* A row of a worker that never registered holds no information.
Init ==
    /\ fence = [w \in Worker |-> 0]
    /\ expired = [w \in Worker |-> TRUE]
    /\ draining = [w \in Worker |-> FALSE]
    /\ catalog = [w \in Worker |-> CHOOSE k \in Catalog : TRUE]
    /\ maxCalls = [w \in Worker |-> CHOOSE m \in Capacity : TRUE]
    /\ reserved = [w \in Worker |-> 0]
    /\ phase = [c \in Call |-> "absent"]
    /\ version = [c \in Call |-> 0]
    /\ armed = [c \in Call |-> 0]
    /\ owner = [c \in Call |-> CHOOSE w \in Worker : TRUE]
    /\ lease = [c \in Call |-> 0]
    /\ pinned = [c \in Call |-> CHOOSE k \in Catalog : TRUE]
    /\ released = [c \in Call |-> FALSE]
    /\ outbox = [c \in Call |-> <<>>]
    /\ deadlines = [c \in Call |-> <<>>]
    /\ commands = [c \in Call |-> {}]
    /\ applied = [c \in Call |-> {}]
    /\ restarting = [c \in Call |-> 0]
    /\ writer = [c \in Call |-> 0]

-----------------------------------------------------------------------------
Finished(c) ==
    {i \in 1 .. Len(outbox[c]) : outbox[c][i].status = "finished"}

HasUnfinishedOutbox(c) == Finished(c) # 1 .. Len(outbox[c])

\* assignment_requires_catalog_continuity.
RequiresCatalogContinuity(c) ==
    /\ phase[c] # "absent"
    /\ ~released[c] \/ (phase[c] = "terminal" /\ HasUnfinishedOutbox(c))

\* Fault: any incarnation may use an unexpired lease.
AnyIncarnation(w, f) == ~expired[w]

\* ensure_worker with allow_draining.
EnsureWorker(w, f) == f = fence[w] /\ ~expired[w]

\* ensure_call_worker.
EnsureCallWorker(c, f) ==
    /\ phase[c] # "absent" /\ ~released[c]
    /\ lease[c] = f
    /\ EnsureWorker(owner[c], f)

-----------------------------------------------------------------------------
(***************************************************************************)
(* Workers.                                                                *)
(***************************************************************************)

\* The catalog check of register_worker.
CatalogContinues(w, k) ==
    \A c \in Call :
        owner[c] = w /\ RequiresCatalogContinuity(c) => pinned[c] = k

\* register_worker: a process starts and fences out its predecessor.  The
\* bound is on the number of incarnations.
RegisterWorker(w, k, m) ==
    /\ fence[w] < MaxFence
    /\ m >= reserved[w]
    /\ CatalogContinues(w, k)
    /\ fence' = [fence EXCEPT ![w] = @ + 1]
    /\ expired' = [expired EXCEPT ![w] = FALSE]
    /\ draining' = [draining EXCEPT ![w] = FALSE]
    /\ catalog' = [catalog EXCEPT ![w] = k]
    /\ maxCalls' = [maxCalls EXCEPT ![w] = m]
    /\ UNCHANGED <<reserved, calls, outbox, deadlines, commands, applied, writer>>

\* lease_expires_at passes: the process crashed, hung or cannot reach the
\* repository.  Renewal is refused from here on, so only a registration
\* revives the worker.  The last incarnation of the bound stays up.
LeaseExpires(w) ==
    /\ ~expired[w] /\ fence[w] < MaxFence
    /\ expired' = [expired EXCEPT ![w] = TRUE]
    /\ UNCHANGED <<fence, draining, catalog, maxCalls, reserved,
                   calls, outbox, deadlines, commands, applied, writer>>

\* set_worker_draining(true); a fence never leaves draining.
SetWorkerDraining(w, f) ==
    /\ EnsureWorker(w, f) /\ ~draining[w]
    /\ draining' = [draining EXCEPT ![w] = TRUE]
    /\ UNCHANGED <<fence, expired, catalog, maxCalls, reserved,
                   calls, outbox, deadlines, commands, applied, writer>>

-----------------------------------------------------------------------------
(***************************************************************************)
(* Commands.                                                               *)
(***************************************************************************)

\* A row or a deadline leaves its claimed state.
Settled(record, status) ==
    [record EXCEPT !.status = status, !.by = 0, !.claim = 0, !.lapsed = FALSE]

\* Fault: new effects are ordered before older ones.
EffectsFirst(rows, f, n) ==
    [i \in 1 .. n |-> [lease |-> f, status |-> "ready", by |-> 0, claim |-> 0,
                       lapsed |-> FALSE]] \o rows

\* persist_effects: the n rows of a command, after every older row.
PersistEffects(rows, f, n) ==
    rows \o [i \in 1 .. n |->
                [lease |-> f, status |-> "ready", by |-> 0, claim |-> 0,
                 lapsed |-> FALSE]]

\* EffectIntent::CancelDeadline; generation 0 is an unarmed slot.
CancelDeadline(timers, g) ==
    [i \in DOMAIN timers |->
        IF i = g /\ timers[i].status # "completed"
        THEN Settled(timers[i], "cancelled") ELSE timers[i]]

\* EffectIntent::ScheduleDeadline of the next generation.
ScheduleDeadline(timers) ==
    Append(timers, [status |-> "pending", by |-> 0, claim |-> 0,
                    lapsed |-> FALSE])

\* How many effects a command has.
Batch == 0 .. MaxBatch

\* What a decision does to the slot: leave it, disarm it, or arm it anew.
Slot == {"keep", "cancel", "arm"}
DeadlinesAfter(timers, g, slot) ==
    CASE slot = "keep" -> timers
      [] slot = "cancel" -> CancelDeadline(timers, g)
      [] slot = "arm" -> ScheduleDeadline(CancelDeadline(timers, g))
ArmedAfter(timers, g, slot) ==
    CASE slot = "keep" -> g
      [] slot = "cancel" -> 0
      [] slot = "arm" -> Len(timers) + 1

\* The decisions of the aggregate, as far as the repository tells them apart:
\* <<phase before, phase after, slot>>.  begin_ending_internal and
\* finalize_terminal cancel every deadline; an ending deadline may be armed,
\* and armed anew by another begin_ending_command.  Only a decision that keeps
\* the phase is bounded by MaxVersion, one that stays open by MaxDeadlines too.
Decides(c, next, slot) ==
    \/ /\ phase[c] \in {"open", "ending"} /\ next = phase[c]
       /\ version[c] < MaxVersion
       /\ IF next = "ending" THEN slot # "cancel"
          ELSE slot = "arm" => Len(deadlines[c]) < MaxDeadlines
    \/ <<phase[c], next>> = <<"open", "ending">> /\ slot # "keep"
    \/ phase[c] \in {"open", "ending"} /\ next = "terminal" /\ slot = "cancel"

\* release_assignment_in_state returns the capacity of a terminal call.
Release(c, next) ==
    /\ released' = [released EXCEPT ![c] = next = "terminal"]
    /\ reserved' = [reserved EXCEPT
                       ![owner[c]] = IF next = "terminal" THEN @ - 1 ELSE @]

\* The replay check of commit_command_in_state.
NewCommand(c, id) == id \notin commands[c]

\* commit_command_in_state for incarnation f of a command the aggregate
\* applies, up to the tables that hold the effects and deadlines.
Decide(c, f, id, next) ==
    /\ NewCommand(c, id)
    /\ EnsureCallWorker(c, f)
    /\ phase' = [phase EXCEPT ![c] = next]
    /\ version' = [version EXCEPT ![c] = @ + 1]
    /\ commands' = [commands EXCEPT ![c] = @ \cup {id}]
    /\ applied' = [applied EXCEPT ![c] = @ \cup {id}]
    /\ writer' = [writer EXCEPT ![c] = f]
    /\ restarting' = [restarting EXCEPT ![c] = IF next = "terminal" THEN 0 ELSE @]
    /\ Release(c, next)
    /\ UNCHANGED <<fence, expired, draining, catalog, maxCalls,
                   owner, lease, pinned>>

\* The tables of effects and deadlines after a decision, where rows is the
\* outbox of the call to which the n new effects are added.
Record(c, f, slot, rows, n) ==
    /\ n <= MaxBatch /\ Len(rows) + n <= MaxRows
    /\ outbox' = [outbox EXCEPT ![c] = PersistEffects(rows, f, n)]
    /\ armed' = [armed EXCEPT ![c] = ArmedAfter(deadlines[c], @, slot)]

\* commit_command_in_state of a command the aggregate ignores, because it
\* changes nothing or names a stale generation: its identifier is recorded
\* and the version stays.
Ignore(c, f, id) ==
    /\ NewCommand(c, id)
    /\ EnsureCallWorker(c, f)
    /\ Cardinality(commands[c] \ applied[c]) < MaxIgnored
    /\ commands' = [commands EXCEPT ![c] = @ \cup {id}]
    /\ writer' = [writer EXCEPT ![c] = f]
    /\ UNCHANGED <<workers, calls, deadlines, applied>>

\* A process invents a fresh identifier, or retries one it used before.  Which
\* fresh one it is makes no difference: commands that will be applied have
\* positive numbers, the others negative ones.
Identifiers(c) == commands[c] \cup {version[c] + 1}
Ignorable(c) == commands[c] \cup {-1 - Cardinality(commands[c] \ applied[c])}

\* create_call_in_state with StartConnecting, which arms the setup deadline.
CreateCall(c, w, f, n) ==
    /\ phase[c] = "absent"
    /\ EnsureWorker(w, f) /\ ~draining[w]
    /\ reserved[w] < maxCalls[w]
    /\ n <= MaxBatch /\ n <= MaxRows
    /\ phase' = [phase EXCEPT ![c] = "open"]
    /\ version' = [version EXCEPT ![c] = 1]
    /\ armed' = [armed EXCEPT ![c] = 1]
    /\ owner' = [owner EXCEPT ![c] = w]
    /\ lease' = [lease EXCEPT ![c] = f]
    /\ pinned' = [pinned EXCEPT ![c] = catalog[w]]
    /\ reserved' = [reserved EXCEPT ![w] = @ + 1]
    /\ outbox' = [outbox EXCEPT ![c] = PersistEffects(<<>>, f, n)]
    /\ deadlines' = [deadlines EXCEPT ![c] = ScheduleDeadline(<<>>)]
    /\ commands' = [commands EXCEPT ![c] = {1}]
    /\ applied' = [applied EXCEPT ![c] = {1}]
    /\ writer' = [writer EXCEPT ![c] = f]
    /\ UNCHANGED <<fence, expired, draining, catalog, maxCalls, released,
                   restarting>>

\* commit_command_in_state without a deadline claim.
CommitCommand(c, f, id, next, slot, n) ==
    /\ Decide(c, f, id, next)
    /\ Record(c, f, slot, outbox[c], n)
    /\ deadlines' = [deadlines EXCEPT ![c] = DeadlinesAfter(@, armed[c], slot)]

CommitIgnored(c, f, id) == Ignore(c, f, id) /\ UNCHANGED outbox

\* Fault: only a call that never had a deadline gets one.
EnsureFirstDeadline(c, f, id, n) ==
    /\ phase[c] = "ending" /\ Len(deadlines[c]) = 0
    /\ CommitCommand(c, f, id, "ending", "arm", n)

\* ensure_ending_deadline: a call that is ending without a deadline gets one.
EnsureEndingDeadline(c, f, id, n) ==
    /\ phase[c] = "ending" /\ armed[c] = 0
    /\ CommitCommand(c, f, id, "ending", "arm", n)

\* recover_restarted_call: the process that took the call over fails its legs
\* one by one; the first failure begins ending, the last one is terminal.
RecoverRestartedCall(c, f, id, n) ==
    /\ restarting[c] = f
    /\ \/ phase[c] = "open" /\ CommitCommand(c, f, id, "ending", "cancel", n)
       \/ phase[c] = "ending" /\ CommitCommand(c, f, id, "terminal", "cancel", n)

-----------------------------------------------------------------------------
(***************************************************************************)
(* Effects.                                                                *)
(***************************************************************************)

\* A claim of incarnation f, with the next claim generation.
Claimed(record, f) ==
    [record EXCEPT !.status = "claimed", !.by = f, !.claim = @ + 1, !.lapsed = FALSE]

\* outbox_claimable.
OutboxClaimable(c, i, f) ==
    LET row == outbox[c][i] IN
    /\ row.lease = f /\ lease[c] = f
    /\ row.status = "ready" \/ (row.status = "claimed" /\ row.lapsed)
    /\ \A j \in 1 .. i - 1 : outbox[c][j].status = "finished"

\* claim_outbox for one row: rows of different calls are claimed
\* independently, and at most one row of a call is claimable at a time.
ClaimOutbox(c, i, f) ==
    /\ EnsureWorker(owner[c], f)
    /\ OutboxClaimable(c, i, f)
    /\ outbox' = [outbox EXCEPT ![c][i] = Claimed(@, f)]
    /\ UNCHANGED <<workers, calls, deadlines, commands, applied, writer>>

\* The executor is slower than WORK_CLAIM_TTL.  The last claim of the bound
\* does not lapse by itself.
ClaimLapses(c, i) ==
    /\ outbox[c][i].status = "claimed" /\ ~outbox[c][i].lapsed
    /\ outbox[c][i].claim < MaxClaims
    /\ outbox' = [outbox EXCEPT ![c][i].lapsed = TRUE]
    /\ UNCHANGED <<workers, calls, deadlines, commands, applied, writer>>

\* The claim checks of reconcile_effect_result_in_state and complete_outbox:
\* incarnation f presents claim generation g.
ClaimHolds(c, i, f, g) ==
    LET row == outbox[c][i] IN
    /\ row.lease = f /\ lease[c] = f
    /\ row.status = "claimed" /\ row.by = f /\ row.claim = g /\ ~row.lapsed
    /\ EnsureWorker(owner[c], f)

FinishRow(rows, i) == [rows EXCEPT ![i] = Settled(@, "finished")]

\* complete_outbox, and reconcile_effect_result_in_state without a follow-up.
FinishAlone(c, i, f) ==
    /\ outbox' = [outbox EXCEPT ![c] = FinishRow(@, i)]
    /\ writer' = [writer EXCEPT ![c] = f]
    /\ UNCHANGED <<workers, calls, deadlines, commands, applied>>

\* reconcile_effect_result_in_state with a follow-up command, which the
\* aggregate ignores or applies: the command and the completion are one
\* transaction.
FollowUpIgnored(c, i, f, id) ==
    /\ Ignore(c, f, id)
    /\ outbox' = [outbox EXCEPT ![c] = FinishRow(@, i)]

FollowUpApplied(c, i, f, id, next, slot, n) ==
    /\ Decide(c, f, id, next)
    /\ Record(c, f, slot, FinishRow(outbox[c], i), n)
    /\ deadlines' = [deadlines EXCEPT ![c] = DeadlinesAfter(@, armed[c], slot)]

ReconcileEffect(c, i, f, g) ==
    /\ ClaimHolds(c, i, f, g)
    /\ \/ FinishAlone(c, i, f)
       \/ \E id \in Ignorable(c) : FollowUpIgnored(c, i, f, id)
       \/ \E next \in Phase, slot \in Slot :
             /\ Decides(c, next, slot)
             /\ \E id \in Identifiers(c), n \in Batch :
                   FollowUpApplied(c, i, f, id, next, slot, n)

-----------------------------------------------------------------------------
(***************************************************************************)
(* Deadlines.                                                              *)
(***************************************************************************)

\* claim_due_deadlines for one deadline.
ClaimDueDeadline(c, d, f) ==
    LET timer == deadlines[c][d] IN
    /\ EnsureCallWorker(c, f)
    /\ timer.status = "pending" \/ (timer.status = "claimed" /\ timer.lapsed)
    /\ deadlines' = [deadlines EXCEPT ![c][d] = Claimed(@, f)]
    /\ UNCHANGED <<workers, calls, outbox, commands, applied, writer>>

DeadlineClaimLapses(c, d) ==
    /\ deadlines[c][d].status = "claimed" /\ ~deadlines[c][d].lapsed
    /\ deadlines[c][d].claim < MaxClaims
    /\ deadlines' = [deadlines EXCEPT ![c][d].lapsed = TRUE]
    /\ UNCHANGED <<workers, calls, outbox, commands, applied, writer>>

\* validate_deadline_claim.
DeadlineClaimHolds(c, d, f, g) ==
    LET timer == deadlines[c][d] IN
    timer.status = "claimed" /\ timer.by = f /\ timer.claim = g /\ ~timer.lapsed

\* CallAggregate::deadline_elapsed: an abandoned transfer stays open, any
\* other deadline of an open call begins an ending with its own deadline, and
\* the ending deadline is terminal.
Elapses(c, next, slot) ==
    <<phase[c], next, slot>> \in {<<"open", "open", "cancel">>,
                                  <<"open", "ending", "arm">>,
                                  <<"ending", "terminal", "cancel">>}

Fired(timers, d) == [timers EXCEPT ![d] = Settled(@, "completed")]

\* commit_deadline: DeadlineElapsed with its claim.  The aggregate ignores a
\* generation that is not armed; DeadlinesMatch says no such claim holds.
CommitDeadline(c, d, f, g) ==
    /\ DeadlineClaimHolds(c, d, f, g)
    /\ armed[c] = d
    /\ \E next \in Phase, slot \in Slot :
          /\ Elapses(c, next, slot)
          /\ \E id \in Identifiers(c), n \in Batch :
                Decide(c, f, id, next) /\ Record(c, f, slot, outbox[c], n)
          /\ deadlines' = [deadlines EXCEPT ![c] = Fired(DeadlinesAfter(@, d, slot), d)]

-----------------------------------------------------------------------------
(***************************************************************************)
(* Restart.                                                                *)
(***************************************************************************)

\* Fault: only the rows nobody claimed move to the new incarnation.
MoveReadyRows(rows, f) ==
    [i \in DOMAIN rows |->
        IF rows[i].status = "ready" THEN [rows[i] EXCEPT !.lease = f]
        ELSE [rows[i] EXCEPT !.lapsed = rows[i].lapsed
                                        \/ rows[i].status = "claimed"]]

\* The unfinished rows move to incarnation f, and their claims expire.
MoveRows(rows, f) ==
    [i \in DOMAIN rows |->
        IF rows[i].status = "finished" THEN rows[i]
        ELSE [rows[i] EXCEPT !.lease = f,
                             !.lapsed = @ \/ rows[i].status = "claimed"]]

ExpireTimers(timers) ==
    [i \in DOMAIN timers |->
        IF timers[i].status = "claimed" THEN [timers[i] EXCEPT !.lapsed = TRUE]
        ELSE timers[i]]

\* claim_restart_calls for one call: calls are taken over independently.
ClaimRestartCall(c, f) ==
    /\ EnsureWorker(owner[c], f)
    /\ lease[c] < f
    /\ pinned[c] = catalog[owner[c]]
    /\ RequiresCatalogContinuity(c)
    /\ lease' = [lease EXCEPT ![c] = f]
    /\ outbox' = [outbox EXCEPT ![c] = MoveRows(@, f)]
    /\ deadlines' = [deadlines EXCEPT ![c] = ExpireTimers(@)]
    /\ restarting' = [restarting EXCEPT
                         ![c] = IF phase[c] = "terminal" THEN 0 ELSE f]
    /\ UNCHANGED <<workers, phase, version, armed, owner, pinned, released,
                   commands, applied, writer>>

-----------------------------------------------------------------------------
Incarnation(c) == 1 .. fence[owner[c]]

Register(w) == \E k \in Catalog, m \in Capacity : RegisterWorker(w, k, m)

Create(c) ==
    \E w \in Worker : \E f \in 1 .. fence[w], n \in Batch : CreateCall(c, w, f, n)

Commit(c) ==
    \E f \in Incarnation(c) :
        \/ \E id \in Ignorable(c) : CommitIgnored(c, f, id)
        \/ \E next \in Phase, slot \in Slot :
              /\ Decides(c, next, slot)
              /\ \E id \in Identifiers(c), n \in Batch :
                    CommitCommand(c, f, id, next, slot, n)

Ensure(c) ==
    \E f \in Incarnation(c), id \in Identifiers(c), n \in Batch :
        EnsureEndingDeadline(c, f, id, n)

Recover(c) ==
    \E f \in Incarnation(c), id \in Identifiers(c), n \in Batch :
        RecoverRestartedCall(c, f, id, n)

Claim(c) ==
    \E f \in Incarnation(c), i \in 1 .. Len(outbox[c]) : ClaimOutbox(c, i, f)

Reconcile(c) ==
    \E f \in Incarnation(c), i \in 1 .. Len(outbox[c]) :
        \E g \in 1 .. outbox[c][i].claim : ReconcileEffect(c, i, f, g)

ClaimDue(c) ==
    \E f \in Incarnation(c), d \in 1 .. Len(deadlines[c]) :
        ClaimDueDeadline(c, d, f)

Elapse(c) ==
    \E f \in Incarnation(c), d \in 1 .. Len(deadlines[c]) :
        \E g \in 1 .. deadlines[c][d].claim : CommitDeadline(c, d, f, g)

Lapse(c) ==
    \/ \E i \in 1 .. Len(outbox[c]) : ClaimLapses(c, i)
    \/ \E d \in 1 .. Len(deadlines[c]) : DeadlineClaimLapses(c, d)

Restart(c) == \E f \in Incarnation(c) : ClaimRestartCall(c, f)

Next ==
    \/ \E w \in Worker :
        \/ Register(w)
        \/ LeaseExpires(w)
        \/ \E f \in 1 .. fence[w] : SetWorkerDraining(w, f)
    \/ \E c \in Call :
        \/ Create(c) \/ Ensure(c) \/ Recover(c) \/ Commit(c)
        \/ Claim(c) \/ Reconcile(c)
        \/ ClaimDue(c) \/ Elapse(c)
        \/ Lapse(c) \/ Restart(c)

Spec == Init /\ [][Next]_vars

(***************************************************************************)
(* Fairness.  A deployment restarts a worker whose lease ran out.  A       *)
(* process that keeps its lease runs the supervisor's loop, which polls    *)
(* every queue (claim_durable_work) and hands the claims to call actors.   *)
(* An incarnation that stops polling loses its lease, which disables these *)
(* actions, so weak fairness asks nothing of a dead process.  It is enough *)
(* that some work of a call is done: no work is repeated for ever.         *)
(***************************************************************************)
Fairness ==
    /\ \A w \in Worker : WF_vars(expired[w] /\ fence[w] > 0 /\ Register(w))
    /\ \A c \in Call :
          WF_vars(\/ Claim(c) \/ ClaimDue(c) \/ Restart(c) \/ Ensure(c) \/ Recover(c)
                  \/ Reconcile(c) \/ Elapse(c))

FairSpec == Spec /\ Fairness

-----------------------------------------------------------------------------
TypeOK ==
    /\ fence \in [Worker -> Fence]
    /\ expired \in [Worker -> BOOLEAN] /\ draining \in [Worker -> BOOLEAN]
    /\ catalog \in [Worker -> Catalog] /\ maxCalls \in [Worker -> Capacity]
    /\ reserved \in [Worker -> Nat]
    /\ phase \in [Call -> Phase] /\ version \in [Call -> Nat]
    /\ armed \in [Call -> Nat]
    /\ owner \in [Call -> Worker] /\ lease \in [Call -> Fence]
    /\ pinned \in [Call -> Catalog] /\ released \in [Call -> BOOLEAN]
    /\ outbox \in [Call -> Seq(Row)] /\ deadlines \in [Call -> Seq(Timer)]
    /\ commands \in [Call -> SUBSET Int] /\ applied \in [Call -> SUBSET Int]
    /\ restarting \in [Call -> Fence] /\ writer \in [Call -> Fence]

Live(w) == {c \in Call : phase[c] # "absent" /\ ~released[c] /\ owner[c] = w}

\* reserved_calls of a worker is the number of calls pinned to it that are not
\* released, over restarts, takeovers and every way a call becomes terminal,
\* and never more than max_calls: capacity neither leaks nor is oversold.
CapacityMatches ==
    \A w \in Worker :
        reserved[w] = Cardinality(Live(w)) /\ reserved[w] <= maxCalls[w]

\* The unfinished rows of a call always belong to the incarnation the call is
\* assigned to: a row left behind by a takeover could never be claimed again
\* (claim_restart_calls, outbox_claimable).
NoStrandedRows ==
    \A c \in Call : \A i \in 1 .. Len(outbox[c]) :
        outbox[c][i].status = "finished" \/ outbox[c][i].lease = lease[c]

\* The aggregate's armed generation has a deadline row that can still fire,
\* and every other row is settled: a timer that was cancelled or fired never
\* fires again, not even one that was claimed before it was cancelled.
DeadlinesMatch ==
    \A c \in Call :
        /\ armed[c] \in 0 .. Len(deadlines[c])
        /\ \A d \in 1 .. Len(deadlines[c]) :
            deadlines[c][d].status \in {"pending", "claimed"} <=> armed[c] = d

\* A command identifier takes effect once, however often a process retries it
\* after a lost answer or a version conflict: every version of a call is the
\* work of a recorded identifier of its own, and an identifier whose command
\* was ignored never takes effect later (commit_command_in_state).
OncePerCommand ==
    \A c \in Call :
        applied[c] \subseteq commands[c] /\ Cardinality(applied[c]) = version[c]

\* Whatever crashed, lapsed or was retried, the store accounts for itself:
\* capacity, rows, timers and command identifiers agree with the calls.
StoreIsConsistent ==
    CapacityMatches /\ NoStrandedRows /\ DeadlinesMatch /\ OncePerCommand

\* A call advances, and an effect is finished, only by the newest incarnation
\* of its worker under an unexpired lease: a process that lost its lease or
\* was replaced can no longer write, even before its calls are taken over.
OnlyTheNewestWrites ==
    [][\A c \in Call :
        phase[c] # "absent"
        /\ (version'[c] # version[c] \/ Finished(c)' # Finished(c)) =>
            writer'[c] = fence[owner[c]] /\ ~expired[owner[c]]]_vars

\* Every call that is ending, and every call whose worker was replaced, gives
\* its capacity back: its legs report, its ending deadline fires, or a restarted
\* worker fails its legs; no crash, not even one during recovery
\* (recover_restarted_call), leaves a call that holds capacity for ever.
CallsRelease ==
    \A c \in Call :
        (phase[c] = "ending" \/ (phase[c] # "absent" /\ lease[c] < fence[owner[c]]))
            ~> released[c]

Delivery ==
    INSTANCE EffectDelivery WITH
        emitted <- [c \in Call |-> Len(outbox[c])],
        finished <- [c \in Call |-> Finished(c)]

\* The outbox implements EffectDelivery: whatever workers crash, restart or
\* answer late, the effects of a call finish in commit order, each once.
InOrderDelivery == Delivery!Spec
=============================================================================
