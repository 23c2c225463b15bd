---------------------------- MODULE Coordination ----------------------------
(***************************************************************************)
(* Cluster coordination: the worker leases of the authoritative database,  *)
(* the ordered coordination outbox written in the same transactions        *)
(* (src/src/persistence/sql.rs, src/src/coordination/sql_outbox.rs), the   *)
(* projectors that drain it, the cache of hints they fill                  *)
(* (src/src/coordination/memory.rs and the scripts of redis.rs), and the   *)
(* renewal task of a worker (src/src/call_service/runtime.rs).             *)
(*                                                                         *)
(* A repository transaction holds the metadata row from its first          *)
(* statement to its end, so one is open at a time.  It decides at the      *)
(* database time it read when it got the lock, stamps its outbox events    *)
(* with the database time of the append, and commits later: three steps,   *)
(* with time passing between them.  A request the repository refuses       *)
(* changes nothing.                                                        *)
(*                                                                         *)
(* Abstracted data.  Attachment routes and replay markers are cached by    *)
(* the same sequence-checked write as call routes and are left out.  A     *)
(* call route lives 24 hours and a cache entry 24 hours more: longer than  *)
(* any behaviour here, so neither expires; Flush is the loss of the whole  *)
(* cache.  The wakeups of a transaction are one event.  A claim's expiry   *)
(* is a step, Lapse: live claims all come from one claim call, so they     *)
(* lapse together.                                                         *)
(***************************************************************************)
EXTENDS Naturals, Sequences, FiniteSets

CONSTANTS
    Worker,              \* worker identifiers
    Call,                \* call identifiers
    Projector,           \* projector processes
    NameOf(_),           \* the projector name a process claims under
    Capacity,            \* max_calls of a worker
    LeaseTtl,            \* worker_lease_ttl
    BatchSize,           \* records one claim may take
    MaxTime,             \* bound: the clock
    MaxFence,            \* bound: registrations of one worker
    MaxEvents,           \* bound: outbox records
    MaxFaults,           \* bound: projector failures and claims outlived by work
    MaxFlushes           \* bound: losses of the cache

ASSUME CoordinationAssumption ==
    /\ Capacity \in Nat /\ LeaseTtl \in Nat \ {0} /\ BatchSize \in Nat \ {0}
    /\ MaxTime \in Nat /\ MaxFence \in Nat /\ MaxEvents \in Nat
    /\ MaxFaults \in Nat /\ MaxFlushes \in Nat
    /\ IsFiniteSet(Call) /\ Worker \cap {"none", "released"} = {}

VARIABLES
    now,                 \* database time
    worker,              \* [Worker -> WorkerRow], the workers table
    assignment,          \* [Call -> Assignment], worker_assignments
    runtime,             \* [Worker -> Runtime], the worker process's own view
    tx,                  \* the open repository transaction, or NoTx
    outbox,              \* Seq(Record), coordination_outbox in sequence order
    batch,               \* [Projector -> SUBSET claims], what is left of a batch
    applied,             \* [Projector -> BOOLEAN], the first of it is projected
    cache,               \* [Key -> Entry], the projection
    stream,              \* [Worker -> Seq(Nat)], published wakeup sequences
    faults, flushes      \* how often the bounded faults happened

authority == <<worker, assignment, runtime, tx>>
projection == <<cache, stream>>
projecting == <<batch, applied>>
vars == <<now, authority, outbox, projecting, projection, faults, flushes>>

Times == 0..(MaxTime + LeaseTtl)

\* A row of the workers table; fence 0 is a worker never registered.
WorkerRow == [fence : Nat, expires : Times, draining : BOOLEAN, reserved : Nat]
\* WorkerAssignment of a call; Released is one with released_at set, and the
\* route hint of a removed route.
Assignment == [worker : Worker \cup {"none", "released"}, fence : Nat]
Unassigned == [worker |-> "none", fence |-> 0]
Released == [worker |-> "released", fence |-> 0]
Unregistered == [fence |-> 0, expires |-> 0, draining |-> FALSE, reserved |-> 0]

Runtime ==
    [phase : {"off", "registering", "up", "renewing"},
     fence : Nat, validUntil : Times, started : Times]

\* No process: never started, or stopped.
Off == [phase |-> "off", fence |-> 0, validUntil |-> 0, started |-> 0]

NoTx == [phase |-> "none"]
Tx ==
    [phase : {"open", "appended"},
     op : {"register", "renew", "drain", "create", "release", "takeover"},
     worker : Worker, fence : Nat, call : Call,
     at : Times, recorded : Times, awaited : BOOLEAN]

WorkerKey(w) == <<"worker", w>>
RouteKey(c) == <<"route", c>>
WakeKey(w) == <<"wake", w>>
Key == ({"worker", "wake"} \X Worker) \cup ({"route"} \X Call)

\* WakeWorker carries a reason and no payload.
Work == [reason |-> "work"]

\* CoordinationEvent with its CoordinationOutboxState.
Record ==
    [key : Key, value : WorkerRow \cup Assignment \cup {Work}, recorded : Times,
     state : {"ready", "claimed", "applied"},
     projector : {"none"} \cup {NameOf(p) : p \in Projector}, generation : Nat, live : BOOLEAN]

\* Versioned<V>; sequence 0 is an absent entry.
NoEntry == [sequence |-> 0, value |-> [absent |-> TRUE]]
Entry == [sequence : Nat \ {0}, value : WorkerRow \cup Assignment \cup {Work}]

-----------------------------------------------------------------------------
(* The repository transaction *)

\* ensure_worker: the lease is the current one and had not expired when the
\* transaction read the database clock.
LeaseHeld(t) ==
    /\ worker[t.worker].fence = t.fence
    /\ t.at < worker[t.worker].expires

Permits(t) ==
    LET row == worker[t.worker]
    IN  \/ t.op = "register"
        \/ /\ t.op \in {"renew", "drain"}
           /\ LeaseHeld(t)
        \/ /\ t.op = "create"
           /\ LeaseHeld(t) /\ ~row.draining /\ row.reserved < Capacity
           /\ assignment[t.call] = Unassigned
        \/ /\ t.op = "release"
           /\ LeaseHeld(t)
           /\ assignment[t.call] = [worker |-> t.worker, fence |-> t.fence]
        \/ /\ t.op = "takeover"
           /\ LeaseHeld(t)
           /\ assignment[t.call].worker = t.worker
           /\ assignment[t.call].fence < t.fence

\* A renewal that would not move the expiry forward is answered and not stored.
WorkerChanges(t) ==
    /\ t.op # "takeover"
    /\ t.op = "renew" => t.at + LeaseTtl > worker[t.worker].expires

WorkerAfter(t) ==
    LET row == worker[t.worker]
    IN  CASE t.op = "register" ->
                [fence |-> row.fence + 1, expires |-> t.at + LeaseTtl,
                 draining |-> FALSE, reserved |-> row.reserved]
          [] t.op = "renew" /\ WorkerChanges(t) ->
                [row EXCEPT !.expires = t.at + LeaseTtl]
          [] t.op = "drain" -> [row EXCEPT !.draining = TRUE]
          [] t.op = "create" -> [row EXCEPT !.reserved = @ + 1]
          [] t.op = "release" -> [row EXCEPT !.reserved = @ - 1]
          [] OTHER -> row

AssignmentAfter(t) ==
    CASE t.op \in {"create", "takeover"} -> [worker |-> t.worker, fence |-> t.fence]
      [] t.op = "release" -> Released
      [] OTHER -> assignment[t.call]

Event(key, value, recorded) ==
    [key |-> key, value |-> value, recorded |-> recorded,
     state |-> "ready", projector |-> "none", generation |-> 0, live |-> FALSE]

\* coordination_payloads: changed workers, then changed routes, then wakeups.
Payloads(t) ==
    LET workerEvent == Event(WorkerKey(t.worker), WorkerAfter(t), t.recorded)
        routeEvent == Event(RouteKey(t.call), AssignmentAfter(t), t.recorded)
        wakeEvent == Event(WakeKey(t.worker), Work, t.recorded)
    IN  CASE t.op = "takeover" -> <<routeEvent, wakeEvent>>
          [] t.op \in {"create", "release"} -> <<workerEvent, routeEvent, wakeEvent>>
          [] t.op \in {"register", "renew", "drain"} ->
                IF WorkerChanges(t) THEN <<workerEvent, wakeEvent>> ELSE <<>>

\* validate_payload_at: a worker event whose lease has run out by the time of
\* the append fails the transaction.
PayloadsValid(t) == WorkerChanges(t) => WorkerAfter(t).expires > now

\* Who asks: the process itself for its lease, the API for a new call, the
\* owner of a call for its release or its takeover after a restart.
Requested(op, w) ==
    CASE op = "register" -> runtime[w].phase = "registering"
      [] op = "renew" -> runtime[w].phase = "renewing"
      [] op = "create" -> worker[w].fence > 0
      [] OTHER -> runtime[w].phase \in {"up", "renewing"}

LeaseFence(op, w) ==
    IF op \in {"register", "create"} THEN worker[w].fence ELSE runtime[w].fence

\* The transaction takes the metadata row and reads the database clock.  The
\* rows it reads stay as they are until it ends, so a request that will be
\* refused is not begun; a refused renewal stops its process: Stop.
Begin(op, w, c) ==
    LET t == [phase |-> "open", op |-> op, worker |-> w,
              fence |-> LeaseFence(op, w), call |-> c,
              at |-> now, recorded |-> now, awaited |-> TRUE]
    IN  /\ tx = NoTx
        /\ Requested(op, w)
        /\ Permits(t)
        /\ Len(outbox) + Len(Payloads(t)) <= MaxEvents
        /\ tx' = t
        /\ UNCHANGED <<now, worker, assignment, runtime, outbox, projecting,
                       projection, faults, flushes>>

\* run_worker_renewal polls its own deadline before the renewal, so a renewal
\* goes on only while the lease is locally valid.
StillAwaited(t) ==
    t.awaited /\ (t.op = "renew" => now < runtime[t.worker].validUntil)

\* The events are stamped with the clock of the append, not with tx.at.
AppendEvents ==
    /\ tx.phase = "open"
    /\ StillAwaited(tx)
    /\ PayloadsValid(tx)
    /\ tx' = [tx EXCEPT !.phase = "appended", !.recorded = now]
    /\ UNCHANGED <<now, worker, assignment, runtime, outbox, projecting,
                   projection, faults, flushes>>

\* Mutant: local validity counted from the arrival of the answer.
ValidFromAnswer(w) == now + LeaseTtl

\* The local validity an answer gives: from the start of the attempt.
ValidUntil(w) == runtime[w].started + LeaseTtl

\* An unavailable store leaves a renewal to the next tick and fails a start.
Failed(t) ==
    CASE t.awaited /\ t.op = "renew" -> [runtime EXCEPT ![t.worker].phase = "up"]
      [] t.awaited /\ t.op = "register" -> [runtime EXCEPT ![t.worker] = Off]
      [] OTHER -> runtime

\* The answer of the committed transaction, if it arrives while it is awaited.
Answered(t, delivered) ==
    LET w == t.worker
    IN  IF t.op \in {"register", "renew"} /\ delivered /\ StillAwaited(t)
          THEN [runtime EXCEPT ![w] =
                   [@ EXCEPT !.phase = "up", !.validUntil = ValidUntil(w),
                             !.fence = WorkerAfter(t).fence]]
          ELSE Failed(t)

Commit(delivered) ==
    /\ tx.phase = "appended"
    /\ worker' = [worker EXCEPT ![tx.worker] = WorkerAfter(tx)]
    /\ assignment' = [assignment EXCEPT ![tx.call] = AssignmentAfter(tx)]
    /\ outbox' = outbox \o Payloads(tx)
    /\ runtime' = Answered(tx, delivered)
    /\ tx' = NoTx
    /\ UNCHANGED <<now, projecting, projection, faults, flushes>>

Rollback ==
    /\ tx # NoTx
    /\ runtime' = Failed(tx)
    /\ tx' = NoTx
    /\ UNCHANGED <<now, worker, assignment, outbox, projecting, projection,
                   faults, flushes>>

-----------------------------------------------------------------------------
(* The worker process *)

Abandon(w) ==
    IF tx # NoTx /\ tx.worker = w /\ tx.op \in {"register", "renew"}
      THEN [tx EXCEPT !.awaited = FALSE]
      ELSE tx

Start(w) ==
    /\ runtime[w].phase = "off"
    /\ worker[w].fence < MaxFence
    /\ runtime' = [runtime EXCEPT ![w] =
          [Off EXCEPT !.phase = "registering", !.started = now]]
    /\ UNCHANGED <<now, worker, assignment, tx, outbox, projecting, projection,
                   faults, flushes>>

\* A tick of the renewal interval.
StartRenewal(w) ==
    /\ runtime[w].phase = "up"
    /\ now < runtime[w].validUntil
    /\ runtime' = [runtime EXCEPT ![w].phase = "renewing", ![w].started = now]
    /\ UNCHANGED <<now, worker, assignment, tx, outbox, projecting, projection,
                   faults, flushes>>

\* The local deadline passes, a renewal is refused, or the process dies: the request in flight is
\* dropped, and rolled back unless its commit is already under way.
Stop(w) ==
    /\ runtime[w].phase # "off"
    /\ runtime' = [runtime EXCEPT ![w] = Off]
    /\ tx' = Abandon(w)
    /\ UNCHANGED <<now, worker, assignment, outbox, projecting, projection,
                   faults, flushes>>

-----------------------------------------------------------------------------
(* Projectors *)

Pending == {n \in DOMAIN outbox : outbox[n].state # "applied"}

\* A record is free when nobody claimed it or the claim has lapsed.
Free(n) == outbox[n].state = "ready" \/ ~outbox[n].live

\* Mutant: a claim passes over rows another projector holds.
ClaimableAroundLive == {n \in Pending : Free(n)}

\* Mutant: a lapsed claim is never taken over.
ClaimableReadyOnly ==
    {n \in Pending : \A m \in Pending : m <= n => outbox[m].state = "ready"}

\* The rows one claim takes: pending rows in order, stopping at a live claim.
Claimable ==
    {n \in Pending :
        /\ \A m \in Pending : m <= n => Free(m)
        /\ Cardinality({m \in Pending : m <= n}) <= BatchSize}

Claim(p) ==
    /\ batch[p] = {}
    /\ Claimable # {}
    /\ outbox' = [n \in DOMAIN outbox |->
          IF n \in Claimable
            THEN [outbox[n] EXCEPT !.state = "claimed", !.projector = NameOf(p),
                                   !.generation = @ + 1, !.live = TRUE]
            ELSE outbox[n]]
    /\ batch' = [batch EXCEPT ![p] =
          {[sequence |-> n, generation |-> outbox[n].generation + 1] : n \in Claimable}]
    /\ applied' = [applied EXCEPT ![p] = FALSE]
    /\ UNCHANGED <<now, authority, projection, faults, flushes>>

First(p) == CHOOSE b \in batch[p] : \A other \in batch[p] : b.sequence <= other.sequence

\* Mutant: no comparison of sequences, the last writer wins.
OutcomeLastWriter(n) == "applied"

\* What the projection answers to event n: apply_versioned, and apply_worker's
\* checks of a newer worker snapshot against the cached one.
Outcome(n) ==
    LET event == outbox[n]
        entry == cache[event.key]
    IN  IF n < entry.sequence THEN "stale"
        ELSE IF n = entry.sequence THEN "duplicate"
        ELSE IF event.key[1] # "worker" \/ entry.sequence = 0 THEN "applied"
        ELSE IF event.value.fence > entry.value.fence THEN "applied"
        ELSE IF event.value.fence < entry.value.fence THEN "stale fence"
        ELSE IF entry.value.expires <= event.recorded THEN "lease expired"
        ELSE IF entry.value.draining /\ ~event.value.draining THEN "drain is one-way"
        ELSE "applied"

Accepted == {"applied", "duplicate", "stale"}

\* apply: one atomic script or critical section of the cache.
ApplyEvent(n) ==
    LET event == outbox[n]
    IN  IF Outcome(n) = "applied"
          THEN /\ cache' = [cache EXCEPT ![event.key] =
                               [sequence |-> n, value |-> event.value]]
               /\ stream' = IF event.key[1] = "wake"
                              THEN [stream EXCEPT ![event.key[2]] = @ \o <<n>>]
                              ELSE stream
          ELSE UNCHANGED projection

\* A refused event ends the batch; its claims stay until they lapse.
Apply(p) ==
    /\ batch[p] # {} /\ ~applied[p]
    /\ ApplyEvent(First(p).sequence)
    /\ IF Outcome(First(p).sequence) \in Accepted
         THEN applied' = [applied EXCEPT ![p] = TRUE] /\ UNCHANGED batch
         ELSE batch' = [batch EXCEPT ![p] = {}] /\ UNCHANGED applied
    /\ UNCHANGED <<now, authority, outbox, faults, flushes>>

\* The acknowledgement needs the very claim, still live.
ClaimHeld(p, b) ==
    LET record == outbox[b.sequence]
    IN  /\ record.state = "claimed" /\ record.live
        /\ record.projector = NameOf(p)
        /\ record.generation = b.generation

Acknowledge(p) ==
    /\ batch[p] # {} /\ applied[p]
    /\ applied' = [applied EXCEPT ![p] = FALSE]
    /\ IF ClaimHeld(p, First(p))
         THEN /\ outbox' = [outbox EXCEPT ![First(p).sequence].state = "applied"]
              /\ batch' = [batch EXCEPT ![p] = @ \ {First(p)}]
         ELSE /\ batch' = [batch EXCEPT ![p] = {}]
              /\ UNCHANGED outbox
    /\ UNCHANGED <<now, authority, projection, faults, flushes>>

\* The process dies or a call to the cache or the database fails: the rest of
\* the batch is dropped.
ProjectorFails(p) ==
    /\ faults < MaxFaults
    /\ batch[p] # {}
    /\ batch' = [batch EXCEPT ![p] = {}]
    /\ applied' = [applied EXCEPT ![p] = FALSE]
    /\ faults' = faults + 1
    /\ UNCHANGED <<now, authority, outbox, projection, flushes>>

LiveClaims == {n \in DOMAIN outbox : outbox[n].state = "claimed" /\ outbox[n].live}

\* Somebody is still working under the live claims.
UnderWork ==
    \E p \in Projector : \E b \in batch[p] :
        b.sequence \in LiveClaims /\ ClaimHeld(p, b)

LapseClaims ==
    outbox' = [n \in DOMAIN outbox |->
        IF n \in LiveClaims THEN [outbox[n] EXCEPT !.live = FALSE] ELSE outbox[n]]

\* The claims of a batch nobody works on any more run out.
Lapse ==
    /\ LiveClaims # {} /\ ~UnderWork
    /\ LapseClaims
    /\ UNCHANGED <<now, authority, projecting, projection, faults, flushes>>

\* A projector outlives its claims and goes on without knowing it.
LapseUnderWork ==
    /\ faults < MaxFaults
    /\ UnderWork
    /\ LapseClaims
    /\ faults' = faults + 1
    /\ UNCHANGED <<now, authority, projecting, projection, flushes>>

-----------------------------------------------------------------------------
(* Environment *)

\* The cache loses everything: a flushed or replaced Redis.
Flush ==
    /\ flushes < MaxFlushes
    /\ flushes' = flushes + 1
    /\ cache' = [k \in Key |-> NoEntry]
    /\ stream' = [w \in Worker |-> <<>>]
    /\ UNCHANGED <<now, authority, outbox, projecting, faults>>

Tick ==
    /\ now < MaxTime
    /\ now' = now + 1
    /\ UNCHANGED <<authority, outbox, projecting, projection, faults, flushes>>

Init ==
    /\ now = 0
    /\ worker = [w \in Worker |-> Unregistered]
    /\ assignment = [c \in Call |-> Unassigned]
    /\ runtime = [w \in Worker |-> Off]
    /\ tx = NoTx
    /\ outbox = <<>>
    /\ batch = [p \in Projector |-> {}]
    /\ applied = [p \in Projector |-> FALSE]
    /\ cache = [k \in Key |-> NoEntry]
    /\ stream = [w \in Worker |-> <<>>]
    /\ faults = 0 /\ flushes = 0

Transact ==
    \/ \E w \in Worker, c \in Call :
        \E op \in {"register", "renew", "drain", "create", "release", "takeover"} :
            Begin(op, w, c)
    \/ AppendEvents
    \/ \E delivered \in BOOLEAN : Commit(delivered)
    \/ Rollback

Project ==
    \/ \E p \in Projector :
        Claim(p) \/ Apply(p) \/ Acknowledge(p) \/ ProjectorFails(p)
    \/ Lapse
    \/ LapseUnderWork

Next ==
    \/ Tick
    \/ Transact
    \/ \E w \in Worker : Start(w) \/ StartRenewal(w) \/ Stop(w)
    \/ Project
    \/ Flush

Spec == Init /\ [][Next]_vars

-----------------------------------------------------------------------------
(* Properties *)

\* Every variable keeps its shape; in particular reserved_calls, stepped by
\* creations and releases, never drops below zero.
TypeOK ==
    /\ now \in 0..MaxTime
    /\ worker \in [Worker -> WorkerRow]
    /\ assignment \in [Call -> Assignment]
    /\ runtime \in [Worker -> Runtime]
    /\ tx \in Tx \cup {NoTx}
    /\ outbox \in Seq(Record)
    /\ batch \in [Projector -> SUBSET [sequence : Nat, generation : Nat]]
    /\ applied \in [Projector -> BOOLEAN]
    /\ cache \in [Key -> Entry \cup {NoEntry}]
    /\ stream \in [Worker -> Seq(Nat)]
    /\ faults \in 0..MaxFaults /\ flushes \in 0..MaxFlushes

\* The outbox is acknowledged strictly in sequence order, whatever projectors
\* fail, restart under the same name or outlive their claims.
AcknowledgedInOrder ==
    \A n \in DOMAIN outbox : outbox[n].state = "applied" =>
        \A m \in 1..n : outbox[m].state = "applied"

\* A worker process that still believes in its lease holds one the database
\* has not let expire: local validity never runs past lease_expires_at.
LocalLeaseIsConservative ==
    \A w \in Worker :
        /\ runtime[w].phase \in {"up", "renewing"}
        /\ runtime[w].fence = worker[w].fence
        => runtime[w].validUntil <= worker[w].expires

\* No projector meets an event that the cache refuses.  The eligibility of a
\* renewal is judged by its recorded time against the cached snapshot.
NothingIsRefused ==
    \A p \in Projector :
        batch[p] # {} /\ ~applied[p] => Outcome(First(p).sequence) \in Accepted

\* Once the outbox is drained, the cache says exactly what the authority says,
\* whatever batches were repeated or applied late.
DrainedCacheIsExact ==
    Pending = {} =>
        /\ \A w \in Worker : worker[w].fence > 0 =>
              cache[WorkerKey(w)].value = worker[w]
        /\ \A c \in Call : assignment[c] # Unassigned =>
              cache[RouteKey(c)].value = assignment[c]

\* Wakeups of a worker are published in commit order, none twice (apply_wakeup),
\* however often a lapsed batch is applied again.
WakeupsAscend ==
    \A w \in Worker : \A i, j \in DOMAIN stream[w] :
        i < j => stream[w][i] < stream[w][j]

\* route_hint: the cached route, if the cached worker still holds its lease.
RouteHint(c) ==
    LET route == cache[RouteKey(c)].value
        holder == cache[WorkerKey(route.worker)]
    IN  IF /\ cache[RouteKey(c)].sequence > 0
           /\ route # Released
           /\ holder.sequence > 0
           /\ holder.value.fence = route.fence
           /\ holder.value.expires > now
          THEN route
          ELSE Released

\* A caller is never sent to a worker lease the database has let expire, even
\* from a cache that is behind and that late projectors write to.
HintedLeaseIsLive ==
    \A c \in Call :
        LET hint == RouteHint(c)
        IN  hint # Released =>
                \/ hint.fence < worker[hint.worker].fence
                \/ now < worker[hint.worker].expires

\* A cache that lost nothing follows the database: no event that the authority
\* accepted is refused, so the ordered backlog never stops on one, a drained
\* outbox leaves exactly the authority's workers and routes, and wakeups come
\* out in order and once.  Even a flushed one that late projectors write old
\* snapshots back into sends nobody to an expired lease.  The outbox is
\* acknowledged in order, so that a new projector starts where the last one
\* ended, and a process never trusts its lease longer than the database does.
CacheFollowsDatabase ==
    /\ AcknowledgedInOrder
    /\ LocalLeaseIsConservative
    /\ flushes = 0 => NothingIsRefused /\ DrainedCacheIsExact
    /\ WakeupsAscend
    /\ HintedLeaseIsLive

\* Projection makes progress once projectors stop failing: every committed
\* event is acknowledged, unless the cache refuses one.
BacklogConverges == []<>(Pending = {} \/ ~NothingIsRefused)

Fairness ==
    /\ WF_vars(Lapse)
    /\ \A p \in Projector :
        WF_vars(Claim(p)) /\ WF_vars(Apply(p)) /\ WF_vars(Acknowledge(p))

FairSpec == Spec /\ Fairness
=============================================================================
