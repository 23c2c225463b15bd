------------------------- MODULE CoordinationProofs -------------------------
(***************************************************************************)
(* Machine-checked proofs about cluster coordination, for any workers,     *)
(* calls and projectors, any names of the projectors, any lease time and   *)
(* batch size, and any bounds.                                             *)
(***************************************************************************)
EXTENDS Coordination, FiniteSetTheorems, SequenceTheorems, WellFoundedInduction, TLAPS

-----------------------------------------------------------------------------
(***************************************************************************)
(* The inductive invariant, first the authority.                           *)
(***************************************************************************)

\* reserved_calls counts the calls that name the worker.
CallsOf(w) == {c \in Call : assignment[c].worker = w}
ReservedIsExact == \A w \in Worker : worker[w].reserved = Cardinality(CallsOf(w))

\* A worker that was never registered has no lease.
UnregisteredIsExpired == \A w \in Worker : worker[w].fence = 0 => worker[w].expires = 0

\* What a transaction read stays as it is until it ends.
TxIsPermitted ==
    tx # NoTx =>
        /\ Permits(tx)
        /\ tx.at <= now /\ tx.recorded <= now

\* A lease that an appended event replaces had not expired at the append.
TxIsInTime ==
    tx # NoTx /\ tx.phase = "appended" /\ tx.op # "register" /\ WorkerChanges(tx) =>
        tx.recorded < worker[tx.worker].expires

\* Who awaits a lease asked for it before the transaction read the clock.
RuntimeAwaits ==
    tx # NoTx /\ tx.awaited /\ tx.op \in {"register", "renew"} =>
        LET r == runtime[tx.worker]
        IN  /\ r.phase = IF tx.op = "register" THEN "registering" ELSE "renewing"
            /\ r.started <= tx.at
            /\ tx.op = "renew" => r.fence = tx.fence

RuntimeIsPast ==
    \A w \in Worker :
        /\ runtime[w].started <= now
        /\ runtime[w].phase \in {"up", "renewing"} => runtime[w].fence <= worker[w].fence

AuthorityInv ==
    /\ ReservedIsExact /\ UnregisteredIsExpired
    /\ TxIsPermitted /\ TxIsInTime
    /\ RuntimeAwaits /\ RuntimeIsPast /\ LocalLeaseIsConservative

-----------------------------------------------------------------------------
(* The outbox as the history of the authority. *)

IsWorkerEvent(e) == e.key[1] = "worker"
IsRouteEvent(e) == e.key[1] = "route"

\* A key is written by the events of its kind.
EventsAreTyped ==
    \A n \in DOMAIN outbox :
        /\ IsWorkerEvent(outbox[n]) => outbox[n].value \in WorkerRow
        /\ IsRouteEvent(outbox[n]) =>
              /\ outbox[n].value \in Assignment
              /\ outbox[n].value # Released => outbox[n].value.worker \in Worker

\* No snapshot of a worker is ahead of its row.
SnapshotsArePast ==
    \A n \in DOMAIN outbox : \A w \in Worker : outbox[n].key = WorkerKey(w) =>
        /\ outbox[n].value.fence <= worker[w].fence
        /\ outbox[n].value.fence = worker[w].fence =>
              outbox[n].value.expires <= worker[w].expires

\* n is the last event of its key.
LastOf(n, k) ==
    /\ n \in DOMAIN outbox /\ outbox[n].key = k
    /\ \A m \in DOMAIN outbox : outbox[m].key = k => m <= n

LastIsCurrent ==
    /\ \A w \in Worker : worker[w].fence > 0 =>
          \E n \in DOMAIN outbox : LastOf(n, WorkerKey(w)) /\ outbox[n].value = worker[w]
    /\ \A c \in Call : assignment[c] # Unassigned =>
          \E n \in DOMAIN outbox : LastOf(n, RouteKey(c)) /\ outbox[n].value = assignment[c]

\* The cache accepts a snapshot after the one before it.
Follows(e, f) ==
    \/ e.value.fence < f.value.fence
    \/ /\ e.value.fence = f.value.fence
       /\ e.value.expires > f.recorded
       /\ e.value.draining => f.value.draining

\* m is the event of its key before n.
Before(m, n) ==
    /\ m < n /\ outbox[m].key = outbox[n].key
    /\ \A k \in DOMAIN outbox : outbox[k].key = outbox[n].key /\ k < n => k <= m

SnapshotsFollow ==
    \A m, n \in DOMAIN outbox :
        IsWorkerEvent(outbox[n]) /\ Before(m, n) => Follows(outbox[m], outbox[n])

HistoryInv == EventsAreTyped /\ SnapshotsArePast /\ LastIsCurrent /\ SnapshotsFollow

-----------------------------------------------------------------------------
(* Batches, claims and the cache. *)

\* A batch holds claims of records; no two claims are the same.
BatchesAreClaims ==
    /\ \A p \in Projector : \A b \in batch[p] :
          /\ b.sequence \in DOMAIN outbox
          /\ b.generation <= outbox[b.sequence].generation
          /\ \A c \in batch[p] : b.sequence = c.sequence => b = c
    /\ \A p, q \in Projector : \A b \in batch[p], c \in batch[q] :
          p # q /\ b.sequence = c.sequence => b.generation # c.generation

InBatch(p, m) == \E c \in batch[p] : c.sequence = m

\* Under a claim that is still held, everything before is applied or is in the
\* batch too.
BatchesAreOrdered ==
    \A p \in Projector : \A b \in batch[p] : ClaimHeld(p, b) =>
        \A m \in 1..(b.sequence - 1) : outbox[m].state = "applied" \/ InBatch(p, m)

\* An entry of the cache is an event of its key.
EntriesAreEvents ==
    \A k \in Key :
        \/ cache[k] = NoEntry
        \/ /\ cache[k].sequence \in DOMAIN outbox
           /\ outbox[cache[k].sequence].key = k
           /\ cache[k].value = outbox[cache[k].sequence].value

\* Published wakeups are not newer than the last one of the cache.
StreamsArePast ==
    \A w \in Worker : \A i \in DOMAIN stream[w] :
        stream[w][i] <= cache[WakeKey(w)].sequence

\* A cache that lost nothing has event m, or a later one of its key.
Cached(m) == m <= cache[outbox[m].key].sequence

NothingIsMissed ==
    flushes = 0 =>
        /\ \A n \in DOMAIN outbox : outbox[n].state = "applied" => Cached(n)
        /\ \A p \in Projector : \A b \in batch[p] :
              \A m \in 1..(b.sequence - 1) : Cached(m) \/ InBatch(p, m)
        /\ \A p \in Projector : applied[p] /\ batch[p] # {} => Cached(First(p).sequence)

ProjectionInv ==
    /\ AcknowledgedInOrder /\ BatchesAreClaims /\ BatchesAreOrdered
    /\ EntriesAreEvents /\ StreamsArePast /\ WakeupsAscend
    /\ NothingIsMissed

IInv == TypeOK /\ AuthorityInv /\ HistoryInv /\ ProjectionInv

-----------------------------------------------------------------------------
(***************************************************************************)
(* Steps that leave a part of the state alone.                             *)
(***************************************************************************)

\* The events are the same; who claimed them may differ.
SameEvents ==
    /\ DOMAIN outbox' = DOMAIN outbox
    /\ \A n \in DOMAIN outbox : /\ outbox'[n].key = outbox[n].key
                                /\ outbox'[n].value = outbox[n].value
                                /\ outbox'[n].recorded = outbox[n].recorded

\* The history depends on the authority and the events only.
LEMMA HistoryStays ==
    ASSUME HistoryInv, worker' = worker, assignment' = assignment, SameEvents
    PROVE  HistoryInv'
  <1>1. EventsAreTyped'
    BY DEF HistoryInv, EventsAreTyped, IsWorkerEvent, IsRouteEvent, SameEvents
  <1>2. SnapshotsArePast'
    BY DEF HistoryInv, SnapshotsArePast, SameEvents
  <1>3. \A n, k : LastOf(n, k)' <=> LastOf(n, k)
    BY DEF LastOf, SameEvents
  <1>4. LastIsCurrent'
    BY <1>3 DEF HistoryInv, LastIsCurrent, SameEvents
  <1>5. SnapshotsFollow'
    <2>1. \A m, n \in DOMAIN outbox : Before(m, n)' <=> Before(m, n)
      BY DEF Before, SameEvents
    <2> QED
      BY <2>1 DEF HistoryInv, SnapshotsFollow, SameEvents, Follows, IsWorkerEvent
  <1> QED
    BY <1>1, <1>2, <1>4, <1>5 DEF HistoryInv

\* Projection depends on what the projectors and the cache have.
LEMMA ProjectionStays ==
    ASSUME ProjectionInv, outbox' = outbox, batch' = batch, applied' = applied,
           cache' = cache, stream' = stream, flushes' = flushes
    PROVE  ProjectionInv'
  BY DEF ProjectionInv, AcknowledgedInOrder, BatchesAreClaims, BatchesAreOrdered, ClaimHeld,
         InBatch, EntriesAreEvents, StreamsArePast, WakeupsAscend, NothingIsMissed, Cached, First

\* The authority's invariant is about its own variables.
LEMMA AuthorityStays ==
    ASSUME AuthorityInv, now' = now, worker' = worker, assignment' = assignment,
           runtime' = runtime, tx' = tx
    PROVE  AuthorityInv'
  BY DEF AuthorityInv, ReservedIsExact, CallsOf, UnregisteredIsExpired, TxIsPermitted, Permits,
         LeaseHeld, TxIsInTime, WorkerChanges, RuntimeAwaits, RuntimeIsPast,
         LocalLeaseIsConservative

-----------------------------------------------------------------------------
(***************************************************************************)
(* Types.                                                                  *)
(***************************************************************************)
AuthorityType ==
    /\ now \in 0..MaxTime
    /\ worker \in [Worker -> WorkerRow]
    /\ assignment \in [Call -> Assignment]
    /\ runtime \in [Worker -> Runtime]
    /\ tx \in Tx \cup {NoTx}

ProjectionType ==
    /\ outbox \in Seq(Record)
    /\ batch \in [Projector -> SUBSET [sequence : Nat, generation : Nat]]
    /\ applied \in [Projector -> BOOLEAN]
    /\ cache \in [Key -> Entry \cup {NoEntry}]
    /\ stream \in [Worker -> Seq(Nat)]
    /\ faults \in 0..MaxFaults /\ flushes \in 0..MaxFlushes

\* The type invariant has a part of the authority and one of the projection.
LEMMA TypeParts == TypeOK <=> AuthorityType /\ ProjectionType
  BY DEF TypeOK, AuthorityType, ProjectionType

\* An open transaction is not NoTx.
LEMMA TxType ==
    ASSUME tx \in Tx \cup {NoTx}, tx # NoTx
    PROVE  /\ tx \in Tx /\ tx.phase \in {"open", "appended"}
           /\ tx.op \in {"register", "renew", "drain", "create", "release", "takeover"}
           /\ tx.worker \in Worker /\ tx.fence \in Nat /\ tx.call \in Call
           /\ tx.at \in Times /\ tx.recorded \in Times /\ tx.awaited \in BOOLEAN
  BY DEF Tx

\* No transaction has no phase of one.
LEMMA NoTxPhase == NoTx.phase = "none"
  BY DEF NoTx

\* The times of the model.
LEMMA TimeType ==
    /\ \A t \in Times : t \in Nat
    /\ LeaseTtl \in Nat /\ LeaseTtl > 0 /\ MaxTime \in Nat
    /\ \A t \in 0..MaxTime : t \in Times /\ t + LeaseTtl \in Times /\ t \in Nat
  BY CoordinationAssumption DEF Times

\* The rows and the processes of workers.
LEMMA RowType ==
    ASSUME AuthorityType, NEW w \in Worker
    PROVE  /\ worker[w].fence \in Nat /\ worker[w].expires \in Times
           /\ worker[w].draining \in BOOLEAN /\ worker[w].reserved \in Nat
           /\ worker[w] = [fence |-> worker[w].fence, expires |-> worker[w].expires,
                           draining |-> worker[w].draining, reserved |-> worker[w].reserved]
           /\ runtime[w].phase \in {"off", "registering", "up", "renewing"}
           /\ runtime[w].fence \in Nat /\ runtime[w].validUntil \in Times
           /\ runtime[w].started \in Times
  BY DEF AuthorityType, WorkerRow, Runtime

-----------------------------------------------------------------------------
(***************************************************************************)
(* The repository transaction.                                             *)
(***************************************************************************)

\* A call that names a worker is counted.
LEMMA ReleaseCounts ==
    ASSUME AuthorityType, ReservedIsExact, NEW c \in Call, NEW w \in Worker,
           assignment[c].worker = w
    PROVE  worker[w].reserved - 1 \in Nat
  <1>1. IsFiniteSet(CallsOf(w))
    BY CoordinationAssumption, FS_Subset DEF CallsOf
  <1>2. c \in CallsOf(w)
    BY DEF CallsOf
  <1>3. Cardinality(CallsOf(w)) \in Nat /\ Cardinality(CallsOf(w)) # 0
    BY <1>1, <1>2, FS_CardinalityType, FS_EmptySet
  <1> QED
    BY <1>3 DEF ReservedIsExact

\* The row a transaction leaves: a registration takes the next fence, any other
\* one keeps it and never shortens the lease or ends a drain.
LEMMA WorkerAfterFacts ==
    ASSUME AuthorityType, ReservedIsExact, tx # NoTx, Permits(tx), tx.at <= now
    PROVE  /\ WorkerAfter(tx) \in WorkerRow
           /\ tx.op = "register" =>
                 /\ WorkerAfter(tx).fence = worker[tx.worker].fence + 1
                 /\ WorkerAfter(tx).expires = tx.at + LeaseTtl
                 /\ WorkerAfter(tx).reserved = worker[tx.worker].reserved
           /\ tx.op # "register" =>
                 /\ WorkerAfter(tx).fence = worker[tx.worker].fence
                 /\ WorkerAfter(tx).expires >= worker[tx.worker].expires
                 /\ worker[tx.worker].draining => WorkerAfter(tx).draining
                 /\ LeaseHeld(tx)
           /\ tx.op = "renew" => /\ WorkerAfter(tx).expires >= tx.at + LeaseTtl
                                 /\ WorkerAfter(tx).reserved = worker[tx.worker].reserved
           /\ tx.op \notin {"register", "renew"} =>
                 WorkerAfter(tx).expires = worker[tx.worker].expires
           /\ ~WorkerChanges(tx) => WorkerAfter(tx) = worker[tx.worker]
           /\ tx.op \in {"drain", "takeover"} =>
                 WorkerAfter(tx).reserved = worker[tx.worker].reserved
           /\ tx.op = "create" => WorkerAfter(tx).reserved = worker[tx.worker].reserved + 1
           /\ tx.op = "release" => WorkerAfter(tx).reserved = worker[tx.worker].reserved - 1
  <1> DEFINE w == tx.worker
             row == worker[w]
  <1>1. tx \in Tx /\ w \in Worker /\ tx.call \in Call /\ tx.at \in Times
        /\ tx.op \in {"register", "renew", "drain", "create", "release", "takeover"}
    BY TxType DEF AuthorityType
  <1>2. /\ row.fence \in Nat /\ row.expires \in Times /\ row.draining \in BOOLEAN
        /\ row.reserved \in Nat
        /\ row = [fence |-> row.fence, expires |-> row.expires,
                  draining |-> row.draining, reserved |-> row.reserved]
    BY <1>1, RowType
  <1>3. tx.at \in Nat /\ row.expires \in Nat /\ tx.at + LeaseTtl \in Times
        /\ tx.at + LeaseTtl \in Nat
    BY <1>1, <1>2, TimeType DEF AuthorityType
  <1>4. CASE tx.op = "register"
    <2>1. WorkerAfter(tx) = [fence |-> row.fence + 1, expires |-> tx.at + LeaseTtl,
                             draining |-> FALSE, reserved |-> row.reserved]
      BY <1>4 DEF WorkerAfter
    <2>2. row.fence + 1 \in Nat
      BY <1>2
    <2> HIDE DEF row
    <2>3. WorkerAfter(tx) \in WorkerRow
      BY <1>2, <1>3, <2>1, <2>2 DEF WorkerRow
    <2>4. WorkerChanges(tx)
      BY <1>4 DEF WorkerChanges
    <2> QED
      BY <1>4, <2>1, <2>3, <2>4 DEF row
  <1>5. CASE tx.op = "renew"
    <2>1. LeaseHeld(tx)
      BY <1>5 DEF Permits
    <2>2. CASE WorkerChanges(tx)
      <3>1. WorkerAfter(tx) = [row EXCEPT !.expires = tx.at + LeaseTtl]
        BY <1>5, <2>2 DEF WorkerAfter
      <3>2. tx.at + LeaseTtl > row.expires
        BY <1>5, <2>2 DEF WorkerChanges
      <3> HIDE DEF row
      <3>3. WorkerAfter(tx) = [fence |-> row.fence, expires |-> tx.at + LeaseTtl,
                               draining |-> row.draining, reserved |-> row.reserved]
        BY <1>2, <3>1
      <3>4. WorkerAfter(tx) \in WorkerRow
        BY <1>2, <1>3, <3>3 DEF WorkerRow
      <3> QED
        BY <1>2, <1>3, <1>5, <2>1, <2>2, <3>2, <3>3, <3>4 DEF row
    <2>3. CASE ~WorkerChanges(tx)
      <3>1. WorkerAfter(tx) = row
        BY <1>5, <2>3 DEF WorkerAfter
      <3>2. ~(tx.at + LeaseTtl > row.expires)
        BY <1>5, <2>3 DEF WorkerChanges
      <3>3. row \in WorkerRow
        BY <1>1 DEF AuthorityType
      <3> HIDE DEF row
      <3> QED
        BY <1>2, <1>3, <1>5, <2>1, <2>3, <3>1, <3>2, <3>3 DEF row
    <2> QED
      BY <2>2, <2>3
  <1>6. CASE tx.op = "drain"
    <2>1. LeaseHeld(tx) /\ WorkerChanges(tx)
      BY <1>6 DEF Permits, WorkerChanges
    <2>2. WorkerAfter(tx) = [row EXCEPT !.draining = TRUE]
      BY <1>6 DEF WorkerAfter
    <2> HIDE DEF row
    <2>3. WorkerAfter(tx) = [fence |-> row.fence, expires |-> row.expires,
                             draining |-> TRUE, reserved |-> row.reserved]
      BY <1>2, <2>2
    <2>4. WorkerAfter(tx) \in WorkerRow
      BY <1>2, <2>3 DEF WorkerRow
    <2> QED
      BY <1>2, <1>3, <1>6, <2>1, <2>3, <2>4 DEF row
  <1>7. CASE tx.op = "create"
    <2>1. LeaseHeld(tx) /\ WorkerChanges(tx)
      BY <1>7 DEF Permits, WorkerChanges
    <2>2. WorkerAfter(tx) = [row EXCEPT !.reserved = @ + 1]
      BY <1>7 DEF WorkerAfter
    <2> HIDE DEF row
    <2>3. WorkerAfter(tx) = [fence |-> row.fence, expires |-> row.expires,
                             draining |-> row.draining, reserved |-> row.reserved + 1]
      BY <1>2, <2>2
    <2>4. row.reserved + 1 \in Nat
      BY <1>2
    <2>5. WorkerAfter(tx) \in WorkerRow
      BY <1>2, <2>3, <2>4 DEF WorkerRow
    <2> QED
      BY <1>2, <1>3, <1>7, <2>1, <2>3, <2>5 DEF row
  <1>8. CASE tx.op = "release"
    <2>1. LeaseHeld(tx) /\ WorkerChanges(tx) /\ assignment[tx.call].worker = w
      BY <1>8 DEF Permits, WorkerChanges
    <2>2. WorkerAfter(tx) = [row EXCEPT !.reserved = @ - 1]
      BY <1>8 DEF WorkerAfter
    <2>3. row.reserved - 1 \in Nat
      BY <1>1, <2>1, ReleaseCounts
    <2> HIDE DEF row
    <2>4. WorkerAfter(tx) = [fence |-> row.fence, expires |-> row.expires,
                             draining |-> row.draining, reserved |-> row.reserved - 1]
      BY <1>2, <2>2
    <2>5. WorkerAfter(tx) \in WorkerRow
      BY <1>2, <2>3, <2>4 DEF WorkerRow
    <2> QED
      BY <1>2, <1>3, <1>8, <2>1, <2>4, <2>5 DEF row
  <1>9. CASE tx.op = "takeover"
    <2>1. LeaseHeld(tx) /\ ~WorkerChanges(tx)
      BY <1>9 DEF Permits, WorkerChanges
    <2>2. WorkerAfter(tx) = row
      BY <1>9 DEF WorkerAfter
    <2>3. row \in WorkerRow
      BY <1>1 DEF AuthorityType
    <2> HIDE DEF row
    <2> QED
      BY <1>2, <1>3, <1>9, <2>1, <2>2, <2>3 DEF row
  <1> QED
    BY <1>1, <1>4, <1>5, <1>6, <1>7, <1>8, <1>9

\* Nothing but a commit changes what a transaction read.
LEMMA RowsStay ==
    ASSUME AuthorityInv, worker' = worker, assignment' = assignment
    PROVE  ReservedIsExact' /\ UnregisteredIsExpired'
  BY DEF AuthorityInv, ReservedIsExact, CallsOf, UnregisteredIsExpired

\* Time passes.
LEMMA TickAuthority ==
    ASSUME AuthorityType, AuthorityInv, Tick
    PROVE  AuthorityType' /\ AuthorityInv'
  <1>1. now' = now + 1 /\ worker' = worker /\ assignment' = assignment /\ runtime' = runtime
        /\ tx' = tx /\ now < MaxTime
    BY DEF Tick, authority
  <1>2. AuthorityType'
    <2>1. now' \in 0..MaxTime
      BY <1>1, TimeType DEF AuthorityType
    <2> QED
      BY <1>1, <2>1 DEF AuthorityType
  <1>3. now \in Nat
    BY TimeType DEF AuthorityType
  <1>4. TxIsPermitted'
    <2>1. tx # NoTx => tx.at \in Nat /\ tx.recorded \in Nat
      BY TxType, TimeType DEF AuthorityType
    <2>2. Permits(tx)' <=> Permits(tx)
      BY <1>1 DEF Permits, LeaseHeld
    <2> QED
      BY <1>1, <1>3, <2>1, <2>2 DEF AuthorityInv, TxIsPermitted
  <1>5. TxIsInTime' /\ RuntimeAwaits' /\ LocalLeaseIsConservative'
    BY <1>1 DEF AuthorityInv, TxIsInTime, WorkerChanges, RuntimeAwaits, LocalLeaseIsConservative
  <1>6. RuntimeIsPast'
    <2>1. \A w \in Worker : runtime[w].started \in Nat
      BY RowType, TimeType
    <2> QED
      BY <1>1, <1>3, <2>1 DEF AuthorityInv, RuntimeIsPast
  <1> QED
    BY <1>1, <1>2, <1>4, <1>5, <1>6, RowsStay DEF AuthorityInv

\* A transaction begins.
LEMMA BeginAuthority ==
    ASSUME AuthorityType, AuthorityInv, NEW w \in Worker, NEW c \in Call,
           NEW op \in {"register", "renew", "drain", "create", "release", "takeover"},
           Begin(op, w, c)
    PROVE  AuthorityType' /\ AuthorityInv'
  <1> DEFINE t == [phase |-> "open", op |-> op, worker |-> w,
                   fence |-> LeaseFence(op, w), call |-> c,
                   at |-> now, recorded |-> now, awaited |-> TRUE]
  <1>1. now' = now /\ worker' = worker /\ assignment' = assignment /\ runtime' = runtime
        /\ tx' = t /\ Permits(t) /\ Requested(op, w)
    BY DEF Begin
  <1>2. LeaseFence(op, w) \in Nat
    BY RowType DEF LeaseFence
  <1>3. now \in Times /\ now \in Nat
    BY TimeType DEF AuthorityType
  <1>4. /\ t.phase = "open" /\ t.op = op /\ t.worker = w /\ t.fence = LeaseFence(op, w)
        /\ t.call = c /\ t.at = now /\ t.recorded = now /\ t.awaited = TRUE
    OBVIOUS
  <1>5. t \in Tx
    BY <1>2, <1>3 DEF Tx
  <1>6. t # NoTx
    BY <1>4, NoTxPhase
  <1> HIDE DEF t
  <1>7. AuthorityType'
    BY <1>1, <1>5 DEF AuthorityType
  <1>8. TxIsPermitted'
    <2>1. Permits(tx)'
      BY <1>1 DEF Permits, LeaseHeld
    <2> QED
      BY <1>1, <1>3, <1>4, <2>1 DEF TxIsPermitted
  <1>9. TxIsInTime'
    BY <1>1, <1>4 DEF TxIsInTime
  <1>10. RuntimeAwaits'
    <2>1. runtime[w].started <= now
      BY DEF AuthorityInv, RuntimeIsPast
    <2>2. op = "register" => runtime[w].phase = "registering"
      BY <1>1 DEF Requested
    <2>3. op = "renew" => runtime[w].phase = "renewing" /\ LeaseFence(op, w) = runtime[w].fence
      BY <1>1 DEF Requested, LeaseFence
    <2> QED
      BY <1>1, <1>4, <2>1, <2>2, <2>3 DEF RuntimeAwaits
  <1>11. RuntimeIsPast' /\ LocalLeaseIsConservative'
    BY <1>1 DEF AuthorityInv, RuntimeIsPast, LocalLeaseIsConservative
  <1> QED
    BY <1>1, <1>7, <1>8, <1>9, <1>10, <1>11, RowsStay DEF AuthorityInv

\* The events are stamped.  A renewal is still awaited, so the process still
\* trusts its lease, which the database has not let expire.
LEMMA AppendAuthority ==
    ASSUME AuthorityType, AuthorityInv, AppendEvents
    PROVE  AuthorityType' /\ AuthorityInv'
  <1>1. now' = now /\ worker' = worker /\ assignment' = assignment /\ runtime' = runtime
        /\ tx' = [tx EXCEPT !.phase = "appended", !.recorded = now] /\ tx.phase = "open"
        /\ StillAwaited(tx) /\ PayloadsValid(tx)
    BY DEF AppendEvents
  <1>2. tx # NoTx
    BY <1>1, NoTxPhase
  <1>3. /\ tx \in Tx /\ tx.op \in {"register", "renew", "drain", "create", "release", "takeover"}
        /\ tx.worker \in Worker /\ tx.at \in Times
    BY <1>2, TxType DEF AuthorityType
  <1>4. now \in Times /\ now \in Nat
    BY TimeType DEF AuthorityType
  <1>5. /\ tx'.phase = "appended" /\ tx'.op = tx.op /\ tx'.worker = tx.worker
        /\ tx'.fence = tx.fence /\ tx'.call = tx.call /\ tx'.at = tx.at
        /\ tx'.recorded = now /\ tx'.awaited = tx.awaited
    BY <1>1, <1>3 DEF Tx
  <1>6. tx' \in Tx
    BY <1>1, <1>3, <1>4 DEF Tx
  <1>7. AuthorityType'
    BY <1>1, <1>6 DEF AuthorityType
  <1>8. Permits(tx) /\ tx.at <= now
    BY <1>2 DEF AuthorityInv, TxIsPermitted
  <1>9. TxIsPermitted'
    <2>1. Permits(tx)'
      BY <1>1, <1>5, <1>8 DEF Permits, LeaseHeld
    <2> QED
      BY <1>1, <1>4, <1>5, <1>8, <2>1 DEF TxIsPermitted
  <1>10. WorkerChanges(tx)' <=> WorkerChanges(tx)
    BY <1>1, <1>5 DEF WorkerChanges
  <1>11. TxIsInTime'
    <2> SUFFICES ASSUME tx.op # "register", WorkerChanges(tx)
                 PROVE  now < worker[tx.worker].expires
      BY <1>1, <1>5, <1>10 DEF TxIsInTime
    <2>1. CASE tx.op = "renew"
      <3>1. tx.awaited /\ now < runtime[tx.worker].validUntil
        BY <1>1, <2>1 DEF StillAwaited
      <3>2. runtime[tx.worker].phase = "renewing" /\ runtime[tx.worker].fence = tx.fence
        BY <1>2, <2>1, <3>1 DEF AuthorityInv, RuntimeAwaits
      <3>3. worker[tx.worker].fence = tx.fence
        BY <1>8, <2>1 DEF Permits, LeaseHeld
      <3>4. runtime[tx.worker].validUntil <= worker[tx.worker].expires
        BY <1>3, <3>2, <3>3 DEF AuthorityInv, LocalLeaseIsConservative
      <3>5. runtime[tx.worker].validUntil \in Nat /\ worker[tx.worker].expires \in Nat
        BY <1>3, RowType, TimeType
      <3> QED
        BY <1>4, <3>1, <3>4, <3>5
    <2>2. CASE tx.op # "renew"
      <3>1. WorkerAfter(tx).expires = worker[tx.worker].expires
        BY <1>2, <1>8, <2>2, WorkerAfterFacts DEF AuthorityInv
      <3>2. worker[tx.worker].expires \in Nat
        BY <1>3, RowType, TimeType
      <3> QED
        BY <1>1, <1>4, <3>1, <3>2 DEF PayloadsValid
    <2> QED
      BY <2>1, <2>2
  <1>12. RuntimeAwaits'
    BY <1>1, <1>2, <1>5 DEF AuthorityInv, RuntimeAwaits
  <1>13. RuntimeIsPast' /\ LocalLeaseIsConservative'
    BY <1>1 DEF AuthorityInv, RuntimeIsPast, LocalLeaseIsConservative
  <1> QED
    BY <1>1, <1>7, <1>9, <1>11, <1>12, <1>13, RowsStay DEF AuthorityInv

\* What a process does while no transaction ends: the other processes stay, it
\* comes no nearer to a lease, and a request it gives up is not awaited.
Quiet(w) ==
    /\ now' = now /\ worker' = worker /\ assignment' = assignment
    /\ runtime' \in [Worker -> Runtime]
    /\ \A v \in Worker : v # w => runtime'[v] = runtime[v]
    /\ runtime'[w].started <= now
    /\ runtime'[w].phase \in {"up", "renewing"} =>
          /\ runtime[w].phase \in {"up", "renewing"}
          /\ runtime'[w].fence = runtime[w].fence
          /\ runtime'[w].validUntil = runtime[w].validUntil

\* A process that only starts, renews or stops takes no lease by that.
LEMMA QuietAuthority ==
    ASSUME AuthorityType, AuthorityInv, NEW w \in Worker, Quiet(w)
    PROVE  /\ ReservedIsExact' /\ UnregisteredIsExpired'
           /\ RuntimeIsPast' /\ LocalLeaseIsConservative'
  <1>1. RuntimeIsPast'
    BY DEF AuthorityInv, RuntimeIsPast, Quiet
  <1>2. LocalLeaseIsConservative'
    BY DEF AuthorityInv, LocalLeaseIsConservative, Quiet
  <1> QED
    BY <1>1, <1>2, RowsStay DEF Quiet

\* Processes start, tick and stop.
LEMMA ProcessAuthority ==
    ASSUME AuthorityType, AuthorityInv, NEW w \in Worker,
           Start(w) \/ StartRenewal(w) \/ Stop(w)
    PROVE  AuthorityType' /\ AuthorityInv'
  <1>1. now \in Times /\ now \in Nat /\ now <= now
    BY TimeType DEF AuthorityType
  <1>2. Off \in Runtime /\ Off.phase = "off" /\ Off.started = 0 /\ Off.fence = 0
    BY CoordinationAssumption DEF Off, Runtime, Times
  <1>3. runtime[w] \in Runtime
    BY DEF AuthorityType
  <1>4. Quiet(w)
    <2>1. CASE Start(w)
      <3>1. runtime' = [runtime EXCEPT ![w] = [Off EXCEPT !.phase = "registering", !.started = now]]
        BY <2>1 DEF Start
      <3>2. [Off EXCEPT !.phase = "registering", !.started = now] \in Runtime
        BY <1>1, <1>2 DEF Runtime
      <3>3. runtime'[w].phase = "registering" /\ runtime'[w].started = now
        BY <1>2, <3>1 DEF AuthorityType, Off
      <3> QED
        BY <1>1, <2>1, <3>1, <3>2, <3>3 DEF Start, Quiet, AuthorityType
    <2>2. CASE StartRenewal(w)
      <3>1. runtime' = [runtime EXCEPT ![w] = [@ EXCEPT !.phase = "renewing", !.started = now]]
        BY <2>2 DEF StartRenewal, AuthorityType
      <3>2. [runtime[w] EXCEPT !.phase = "renewing", !.started = now] \in Runtime
        BY <1>1, <1>3 DEF Runtime
      <3>3. /\ runtime'[w].phase = "renewing" /\ runtime'[w].started = now
            /\ runtime'[w].fence = runtime[w].fence /\ runtime'[w].validUntil = runtime[w].validUntil
        BY <1>3, <3>1 DEF AuthorityType, Runtime
      <3> QED
        BY <1>1, <2>2, <3>1, <3>2, <3>3 DEF StartRenewal, Quiet, AuthorityType
    <2>3. CASE Stop(w)
      <3>1. runtime' = [runtime EXCEPT ![w] = Off]
        BY <2>3 DEF Stop
      <3>2. runtime'[w] = Off
        BY <3>1 DEF AuthorityType
      <3> QED
        BY <1>1, <1>2, <2>3, <3>1, <3>2 DEF Stop, Quiet, AuthorityType
    <2> QED
      BY <2>1, <2>2, <2>3
  <1>5. \/ tx' = tx
        \/ /\ tx # NoTx /\ tx.worker = w /\ tx.op \in {"register", "renew"}
           /\ tx' = [tx EXCEPT !.awaited = FALSE]
    BY DEF Start, StartRenewal, Stop, Abandon
  <1>6. tx # NoTx =>
           /\ tx' # NoTx /\ tx'.phase = tx.phase /\ tx'.op = tx.op /\ tx'.worker = tx.worker
           /\ tx'.fence = tx.fence /\ tx'.call = tx.call /\ tx'.at = tx.at
           /\ tx'.recorded = tx.recorded /\ tx' \in Tx
    <2> SUFFICES ASSUME tx # NoTx
                 PROVE  /\ tx' # NoTx /\ tx'.phase = tx.phase /\ tx'.op = tx.op
                        /\ tx'.worker = tx.worker /\ tx'.fence = tx.fence /\ tx'.call = tx.call
                        /\ tx'.at = tx.at /\ tx'.recorded = tx.recorded /\ tx' \in Tx
      OBVIOUS
    <2>1. tx \in Tx /\ tx.phase \in {"open", "appended"}
      BY TxType DEF AuthorityType
    <2>2. /\ tx'.phase = tx.phase /\ tx'.op = tx.op
          /\ tx'.worker = tx.worker /\ tx'.fence = tx.fence /\ tx'.call = tx.call
          /\ tx'.at = tx.at /\ tx'.recorded = tx.recorded /\ tx' \in Tx
      BY <1>5, <2>1 DEF Tx
    <2> QED
      BY <2>1, <2>2, NoTxPhase
  <1>7. tx = NoTx => tx' = NoTx
    BY <1>5
  <1>8. AuthorityType'
    BY <1>4, <1>6, <1>7 DEF AuthorityType, Quiet
  <1>9. worker' = worker /\ assignment' = assignment /\ now' = now
    BY <1>4 DEF Quiet
  <1>10. TxIsPermitted'
    <2> SUFFICES ASSUME tx # NoTx PROVE Permits(tx)' /\ tx'.at <= now' /\ tx'.recorded <= now'
      BY <1>6, <1>7 DEF TxIsPermitted
    <2>1. Permits(tx)
      BY DEF AuthorityInv, TxIsPermitted
    <2>2. Permits(tx)'
      BY <1>6, <1>9, <2>1 DEF Permits, LeaseHeld
    <2> QED
      BY <1>6, <1>9, <2>2 DEF AuthorityInv, TxIsPermitted
  <1>11. TxIsInTime'
    BY <1>6, <1>7, <1>9 DEF AuthorityInv, TxIsInTime, WorkerChanges
  <1>12. RuntimeAwaits'
    <2> SUFFICES ASSUME tx' # NoTx, tx'.awaited, tx'.op \in {"register", "renew"}
                 PROVE  LET r == runtime'[tx'.worker]
                        IN  /\ r.phase = IF tx'.op = "register" THEN "registering" ELSE "renewing"
                            /\ r.started <= tx'.at
                            /\ tx'.op = "renew" => r.fence = tx'.fence
      BY DEF RuntimeAwaits
    <2>1. tx' = tx
      <3>1. tx \in Tx => [tx EXCEPT !.awaited = FALSE].awaited = FALSE
        BY DEF Tx
      <3> QED
        BY <1>5, <3>1 DEF AuthorityType
    <2>2. CASE tx.worker = w
      <3>1. runtime[w].phase \in {"registering", "renewing"}
        BY <2>1, <2>2 DEF AuthorityInv, RuntimeAwaits
      <3>2. Stop(w)
        BY <3>1 DEF Start, StartRenewal
      <3>3. tx' = [tx EXCEPT !.awaited = FALSE]
        BY <2>1, <2>2, <3>2 DEF Stop, Abandon
      <3>4. tx \in Tx
        BY <2>1, TxType DEF AuthorityType
      <3>5. FALSE
        BY <3>3, <3>4 DEF Tx
      <3> QED
        BY <3>5
    <2>3. CASE tx.worker # w
      <3>1. tx.worker \in Worker
        BY <2>1, TxType DEF AuthorityType
      <3> QED
        BY <1>4, <2>1, <2>3, <3>1 DEF Quiet, AuthorityInv, RuntimeAwaits
    <2> QED
      BY <2>2, <2>3
  <1> QED
    BY <1>4, <1>8, <1>10, <1>11, <1>12, QuietAuthority DEF AuthorityInv

\* A transaction that is rolled back.
LEMMA RollbackAuthority ==
    ASSUME AuthorityType, AuthorityInv, Rollback
    PROVE  AuthorityType' /\ AuthorityInv'
  <1> DEFINE w == tx.worker
  <1>1. tx # NoTx /\ tx' = NoTx /\ runtime' = Failed(tx) /\ now' = now /\ worker' = worker
        /\ assignment' = assignment
    BY DEF Rollback
  <1>2. w \in Worker /\ tx \in Tx
    BY <1>1, TxType DEF AuthorityType
  <1>3. runtime[w] \in Runtime
    BY <1>2 DEF AuthorityType
  <1>4. Off \in Runtime /\ Off.phase = "off" /\ Off.started = 0
    BY CoordinationAssumption DEF Off, Runtime, Times
  <1>5. now \in Nat /\ runtime[w].started <= now
    BY <1>2, TimeType DEF AuthorityType, AuthorityInv, RuntimeIsPast
  <1>6. \/ runtime' = runtime
        \/ tx.awaited /\ tx.op = "renew" /\ runtime' = [runtime EXCEPT ![w] = [@ EXCEPT !.phase = "up"]]
        \/ runtime' = [runtime EXCEPT ![w] = Off]
    BY <1>1, <1>2 DEF Failed, Tx, AuthorityType
  <1>7. tx.awaited /\ tx.op = "renew" => runtime[w].phase = "renewing"
    BY <1>1 DEF AuthorityInv, RuntimeAwaits
  <1> HIDE DEF w
  <1>8. Quiet(w)
    <2>1. CASE runtime' = runtime
      BY <1>1, <1>2, <1>5, <2>1 DEF Quiet, AuthorityType
    <2>2. CASE /\ tx.awaited /\ tx.op = "renew"
               /\ runtime' = [runtime EXCEPT ![w] = [@ EXCEPT !.phase = "up"]]
      <3>1. [runtime[w] EXCEPT !.phase = "up"] \in Runtime
        BY <1>3 DEF Runtime
      <3>2. /\ runtime'[w].started = runtime[w].started /\ runtime'[w].fence = runtime[w].fence
            /\ runtime'[w].validUntil = runtime[w].validUntil
        BY <1>2, <1>3, <2>2 DEF AuthorityType, Runtime
      <3> QED
        BY <1>1, <1>2, <1>5, <1>7, <2>2, <3>1, <3>2 DEF Quiet, AuthorityType
    <2>3. CASE runtime' = [runtime EXCEPT ![w] = Off]
      <3>1. runtime'[w] = Off
        BY <1>2, <2>3 DEF AuthorityType
      <3> QED
        BY <1>1, <1>2, <1>4, <1>5, <2>3, <3>1 DEF Quiet, AuthorityType
    <2> QED
      BY <1>6, <2>1, <2>2, <2>3
  <1>9. AuthorityType'
    BY <1>1, <1>8 DEF AuthorityType, Quiet
  <1>10. TxIsPermitted' /\ TxIsInTime' /\ RuntimeAwaits'
    BY <1>1 DEF TxIsPermitted, TxIsInTime, RuntimeAwaits
  <1>11. /\ ReservedIsExact' /\ UnregisteredIsExpired'
         /\ RuntimeIsPast' /\ LocalLeaseIsConservative'
    BY <1>2, <1>8, QuietAuthority
  <1> QED
    BY <1>9, <1>10, <1>11 DEF AuthorityInv

\* The calls of each worker after a commit.
LEMMA CommitCounts ==
    ASSUME AuthorityType, AuthorityInv, tx # NoTx, NEW delivered \in BOOLEAN, Commit(delivered)
    PROVE  ReservedIsExact'
  <1>0. PICK w \in Worker, c \in Call : w = tx.worker /\ c = tx.call
    BY TxType DEF AuthorityType
  <1> DEFINE a == WorkerAfter(tx)
  <1>1. w \in Worker /\ c \in Call
        /\ tx.op \in {"register", "renew", "drain", "create", "release", "takeover"}
    BY <1>0, TxType DEF AuthorityType
  <1>2. Permits(tx) /\ tx.at <= now
    BY DEF AuthorityInv, TxIsPermitted
  <1>3. worker' = [worker EXCEPT ![w] = a] /\ assignment' = [assignment EXCEPT ![c] = AssignmentAfter(tx)]
    BY <1>0 DEF Commit
  <1>4. worker'[w] = a /\ \A v \in Worker : v # w => worker'[v] = worker[v]
    BY <1>1, <1>3 DEF AuthorityType
  <1>5. assignment'[c] = AssignmentAfter(tx) /\ \A d \in Call : d # c => assignment'[d] = assignment[d]
    BY <1>1, <1>3 DEF AuthorityType
  <1>6. \A v \in Worker : /\ IsFiniteSet(CallsOf(v)) /\ Cardinality(CallsOf(v)) \in Nat
                          /\ worker[v].reserved = Cardinality(CallsOf(v))
    BY CoordinationAssumption, FS_Subset, FS_CardinalityType DEF CallsOf, AuthorityInv, ReservedIsExact
  <1>7. /\ tx.op \in {"register", "renew", "drain", "takeover"} => a.reserved = worker[w].reserved
        /\ tx.op = "create" => a.reserved = worker[w].reserved + 1
        /\ tx.op = "release" => a.reserved = worker[w].reserved - 1
    BY <1>0, <1>2, WorkerAfterFacts DEF AuthorityInv
  <1> HIDE DEF a
  <1>8. CASE tx.op \in {"register", "renew", "drain", "takeover"}
    <2>1. assignment'[c].worker = assignment[c].worker
      BY <1>0, <1>2, <1>5, <1>8 DEF AssignmentAfter, Permits
    <2>2. \A v : CallsOf(v)' = CallsOf(v)
      BY <1>5, <2>1 DEF CallsOf
    <2> QED
      BY <1>4, <1>6, <1>7, <1>8, <2>2 DEF ReservedIsExact
  <1>9. CASE tx.op = "create"
    <2>1. assignment[c].worker = "none" /\ assignment'[c].worker = w
      BY <1>0, <1>2, <1>5, <1>9 DEF AssignmentAfter, Permits, Unassigned
    <2>2. "none" \notin Worker
      BY CoordinationAssumption
    <2>3. \A v \in Worker : v # w => CallsOf(v)' = CallsOf(v)
      BY <1>5, <2>1, <2>2 DEF CallsOf
    <2>4. CallsOf(w)' = CallsOf(w) \cup {c} /\ c \notin CallsOf(w)
      BY <1>1, <1>5, <2>1, <2>2 DEF CallsOf
    <2>5. Cardinality(CallsOf(w)') = Cardinality(CallsOf(w)) + 1
      BY <1>1, <1>6, <2>4, FS_AddElement
    <2>6. worker'[w].reserved = Cardinality(CallsOf(w)')
      BY <1>1, <1>4, <1>6, <1>7, <1>9, <2>5
    <2>7. \A v \in Worker : v # w => worker'[v].reserved = Cardinality(CallsOf(v)')
      BY <1>4, <1>6, <2>3
    <2> QED
      BY <2>6, <2>7 DEF ReservedIsExact
  <1>10. CASE tx.op = "release"
    <2>1. assignment[c].worker = w /\ assignment'[c].worker = "released"
      BY <1>0, <1>2, <1>5, <1>10 DEF AssignmentAfter, Permits, Released
    <2>2. "released" \notin Worker
      BY CoordinationAssumption
    <2>3. \A v \in Worker : v # w => CallsOf(v)' = CallsOf(v)
      BY <1>5, <2>1, <2>2 DEF CallsOf
    <2>4. CallsOf(w)' = CallsOf(w) \ {c} /\ c \in CallsOf(w)
      BY <1>1, <1>5, <2>1, <2>2 DEF CallsOf
    <2>5. Cardinality(CallsOf(w)') = Cardinality(CallsOf(w)) - 1
      BY <1>1, <1>6, <2>4, FS_RemoveElement
    <2>6. worker'[w].reserved = Cardinality(CallsOf(w)')
      BY <1>1, <1>4, <1>6, <1>7, <1>10, <2>5
    <2>7. \A v \in Worker : v # w => worker'[v].reserved = Cardinality(CallsOf(v)')
      BY <1>4, <1>6, <2>3
    <2> QED
      BY <2>6, <2>7 DEF ReservedIsExact
  <1> QED
    BY <1>1, <1>8, <1>9, <1>10

\* A commit: the new row keeps the promises the process relies on.
LEMMA CommitAuthority ==
    ASSUME AuthorityType, AuthorityInv, NEW delivered \in BOOLEAN, Commit(delivered)
    PROVE  AuthorityType' /\ AuthorityInv'
  <1> DEFINE w == tx.worker
             c == tx.call
             a == WorkerAfter(tx)
  <1>1. /\ tx.phase = "appended" /\ tx' = NoTx /\ now' = now
        /\ worker' = [worker EXCEPT ![w] = a]
        /\ assignment' = [assignment EXCEPT ![c] = AssignmentAfter(tx)]
        /\ runtime' = Answered(tx, delivered)
    BY DEF Commit
  <1>2. tx # NoTx
    BY <1>1, NoTxPhase
  <1>3. w \in Worker /\ c \in Call /\ tx \in Tx /\ tx.fence \in Nat /\ tx.at \in Nat
        /\ tx.awaited \in BOOLEAN
        /\ tx.op \in {"register", "renew", "drain", "create", "release", "takeover"}
    BY <1>2, TxType, TimeType DEF AuthorityType
  <1>4. Permits(tx) /\ tx.at <= now
    BY <1>2 DEF AuthorityInv, TxIsPermitted
  <1>5. /\ a \in WorkerRow
        /\ tx.op = "register" => a.fence = worker[w].fence + 1 /\ a.expires = tx.at + LeaseTtl
        /\ tx.op # "register" => /\ a.fence = worker[w].fence /\ a.expires >= worker[w].expires
                                 /\ LeaseHeld(tx)
        /\ tx.op = "renew" => a.expires >= tx.at + LeaseTtl
    BY <1>2, <1>4, WorkerAfterFacts DEF AuthorityInv
  <1>6. a.fence \in Nat /\ a.expires \in Times /\ a.expires \in Nat
    BY <1>5, TimeType DEF WorkerRow
  <1>7. worker[w].fence \in Nat /\ worker[w].expires \in Nat /\ runtime[w].validUntil \in Nat
        /\ runtime[w].started \in Nat /\ runtime[w].fence \in Nat /\ LeaseTtl \in Nat
        /\ now \in Nat /\ runtime[w] \in Runtime
    BY <1>3, RowType, TimeType DEF AuthorityType
  <1>8. AssignmentAfter(tx) \in Assignment
    BY <1>3 DEF AssignmentAfter, Assignment, Released, AuthorityType
  <1>9. \/ runtime' = runtime
        \/ tx.awaited /\ tx.op = "renew" /\ runtime' = [runtime EXCEPT ![w] = [@ EXCEPT !.phase = "up"]]
        \/ runtime' = [runtime EXCEPT ![w] = Off]
        \/ /\ tx.awaited /\ tx.op \in {"register", "renew"}
           /\ runtime' = [runtime EXCEPT ![w] = [@ EXCEPT !.phase = "up",
                                                          !.validUntil = runtime[w].started + LeaseTtl,
                                                          !.fence = a.fence]]
    BY <1>1, <1>3 DEF Answered, Failed, StillAwaited, ValidUntil, AuthorityType
  <1>10. Off \in Runtime /\ Off.phase = "off" /\ Off.started = 0
    BY CoordinationAssumption DEF Off, Runtime, Times
  <1>11. runtime[w].started <= now
    BY <1>3 DEF AuthorityInv, RuntimeIsPast
  <1>12. worker'[w] = a /\ \A v \in Worker : v # w => worker'[v] = worker[v]
    BY <1>1, <1>3 DEF AuthorityType
  <1>13. tx.awaited /\ tx.op \in {"register", "renew"} => runtime[w].started <= tx.at
    BY <1>2 DEF AuthorityInv, RuntimeAwaits
  <1>14. tx.awaited /\ tx.op = "renew" => runtime[w].phase = "renewing"
    BY <1>2 DEF AuthorityInv, RuntimeAwaits
  <1>15. ReservedIsExact'
    BY <1>2, CommitCounts
  <1> HIDE DEF a, w, c
  <1>16. /\ runtime' \in [Worker -> Runtime]
         /\ \A v \in Worker : v # w => runtime'[v] = runtime[v]
         /\ runtime'[w].started <= now
         /\ runtime'[w].phase \in {"up", "renewing"} =>
               \/ /\ runtime[w].phase \in {"up", "renewing"}
                  /\ runtime'[w].fence = runtime[w].fence
                  /\ runtime'[w].validUntil = runtime[w].validUntil
               \/ /\ runtime'[w].fence = a.fence
                  /\ runtime'[w].validUntil <= a.expires
    <2>1. CASE runtime' = runtime
      BY <1>3, <1>11, <2>1 DEF AuthorityType
    <2>2. CASE /\ tx.awaited /\ tx.op = "renew"
               /\ runtime' = [runtime EXCEPT ![w] = [@ EXCEPT !.phase = "up"]]
      <3>1. [runtime[w] EXCEPT !.phase = "up"] \in Runtime
        BY <1>7 DEF Runtime
      <3>2. /\ runtime'[w].started = runtime[w].started /\ runtime'[w].fence = runtime[w].fence
            /\ runtime'[w].validUntil = runtime[w].validUntil
        BY <1>3, <1>7, <2>2 DEF AuthorityType, Runtime
      <3> QED
        BY <1>3, <1>11, <1>14, <2>2, <3>1, <3>2 DEF AuthorityType
    <2>3. CASE runtime' = [runtime EXCEPT ![w] = Off]
      <3>1. runtime'[w] = Off
        BY <1>3, <2>3 DEF AuthorityType
      <3> QED
        BY <1>3, <1>7, <1>10, <2>3, <3>1 DEF AuthorityType
    <2>4. CASE /\ tx.awaited /\ tx.op \in {"register", "renew"}
               /\ runtime' = [runtime EXCEPT ![w] = [@ EXCEPT !.phase = "up",
                                                              !.validUntil = runtime[w].started + LeaseTtl,
                                                              !.fence = a.fence]]
      <3>1. runtime[w].started + LeaseTtl \in Times
        <4>1. runtime[w].started \in 0..MaxTime
          BY <1>7, <1>11, TimeType DEF AuthorityType
        <4> QED
          BY <4>1, TimeType
      <3>2. [runtime[w] EXCEPT !.phase = "up", !.validUntil = runtime[w].started + LeaseTtl,
                               !.fence = a.fence] \in Runtime
        BY <1>6, <1>7, <3>1 DEF Runtime
      <3>3. /\ runtime'[w].started = runtime[w].started /\ runtime'[w].fence = a.fence
            /\ runtime'[w].validUntil = runtime[w].started + LeaseTtl
        BY <1>3, <1>7, <2>4 DEF AuthorityType, Runtime
      <3>4. a.expires >= tx.at + LeaseTtl
        BY <1>3, <1>5, <1>6, <1>7, <2>4
      <3>5. runtime'[w].validUntil <= a.expires
        BY <1>3, <1>6, <1>7, <1>13, <2>4, <3>3, <3>4
      <3> QED
        BY <1>3, <1>11, <2>4, <3>2, <3>3, <3>5 DEF AuthorityType
    <2> QED
      BY <1>9, <2>1, <2>2, <2>3, <2>4
  <1>17. AuthorityType'
    BY <1>1, <1>5, <1>8, <1>16 DEF AuthorityType
  <1>18. UnregisteredIsExpired'
    <2>1. a.fence # 0
      <3>1. tx.op # "register" => worker[w].fence # 0
        BY <1>3, <1>5, <1>7 DEF AuthorityInv, UnregisteredIsExpired, LeaseHeld, w
      <3> QED
        BY <1>5, <1>7, <3>1
    <2> QED
      BY <1>12, <2>1 DEF AuthorityInv, UnregisteredIsExpired
  <1>19. TxIsPermitted' /\ TxIsInTime' /\ RuntimeAwaits'
    BY <1>1 DEF TxIsPermitted, TxIsInTime, RuntimeAwaits
  <1>20. RuntimeIsPast'
    <2>1. runtime[w].phase \in {"up", "renewing"} => runtime[w].fence <= a.fence
      BY <1>3, <1>5, <1>6, <1>7 DEF AuthorityInv, RuntimeIsPast
    <2>2. runtime'[w].phase \in {"up", "renewing"} => runtime'[w].fence <= a.fence
      BY <1>6, <1>16, <2>1
    <2> QED
      BY <1>1, <1>12, <1>16, <2>2 DEF AuthorityInv, RuntimeIsPast
  <1>21. LocalLeaseIsConservative'
    <2>1. /\ runtime[w].phase \in {"up", "renewing"} /\ runtime[w].fence = a.fence
          => runtime[w].validUntil <= a.expires
      BY <1>3, <1>5, <1>6, <1>7 DEF AuthorityInv, RuntimeIsPast, LocalLeaseIsConservative
    <2>2. /\ runtime'[w].phase \in {"up", "renewing"} /\ runtime'[w].fence = a.fence
          => runtime'[w].validUntil <= a.expires
      BY <1>16, <2>1
    <2> QED
      BY <1>12, <1>16, <2>2 DEF AuthorityInv, LocalLeaseIsConservative
  <1> QED
    BY <1>15, <1>17, <1>18, <1>19, <1>20, <1>21 DEF AuthorityInv

-----------------------------------------------------------------------------
(***************************************************************************)
(* What a commit adds to the history.                                      *)
(***************************************************************************)
WorkerEvent == Event(WorkerKey(tx.worker), WorkerAfter(tx), tx.recorded)
RouteEvent == Event(RouteKey(tx.call), AssignmentAfter(tx), tx.recorded)
WakeEvent == Event(WakeKey(tx.worker), Work, tx.recorded)

Routes == {"create", "release", "takeover"}

\* The keys of the three kinds of events differ.
LEMMA KeysDiffer ==
    /\ \A w \in Worker : /\ WorkerKey(w) \in Key /\ WakeKey(w) \in Key
                         /\ WorkerKey(w)[1] = "worker" /\ WakeKey(w)[1] = "wake"
                         /\ WorkerKey(w)[2] = w /\ WakeKey(w)[2] = w
    /\ \A c \in Call : RouteKey(c) \in Key /\ RouteKey(c)[1] = "route" /\ RouteKey(c)[2] = c
    /\ \A k \in Key : \/ \E w \in Worker : k = WorkerKey(w) \/ k = WakeKey(w)
                      \/ \E c \in Call : k = RouteKey(c)
  BY DEF Key, WorkerKey, WakeKey, RouteKey

\* The fields of an event.
LEMMA EventFields ==
    ASSUME NEW k, NEW v, NEW r
    PROVE  /\ Event(k, v, r).key = k /\ Event(k, v, r).value = v /\ Event(k, v, r).recorded = r
           /\ Event(k, v, r).state = "ready" /\ Event(k, v, r).generation = 0
           /\ Event(k, v, r).live = FALSE /\ Event(k, v, r).projector = "none"
  BY DEF Event

\* An event of a transaction is a record of the outbox.
LEMMA EventType ==
    ASSUME NEW k \in Key, NEW v \in WorkerRow \cup Assignment \cup {Work}, NEW r \in Times
    PROVE  Event(k, v, r) \in Record
  <1>1. "none" \in {"none"} \cup {NameOf(p) : p \in Projector}
    OBVIOUS
  <1>2. "ready" \in {"ready", "claimed", "applied"} /\ 0 \in Nat /\ FALSE \in BOOLEAN
    OBVIOUS
  <1> QED
    BY <1>1, <1>2, Zenon DEF Event, Record

\* The payloads of a transaction: each kind at most once.
LEMMA PayloadFacts ==
    ASSUME AuthorityType, AuthorityInv, tx # NoTx
    PROVE  /\ Payloads(tx) \in Seq(Record)
           /\ \A i \in DOMAIN Payloads(tx) :
                 \/ WorkerChanges(tx) /\ Payloads(tx)[i] = WorkerEvent
                 \/ tx.op \in Routes /\ Payloads(tx)[i] = RouteEvent
                 \/ Payloads(tx)[i] = WakeEvent
           /\ \A i, j \in DOMAIN Payloads(tx) : Payloads(tx)[i].key = Payloads(tx)[j].key => i = j
           /\ WorkerChanges(tx) => \E i \in DOMAIN Payloads(tx) : Payloads(tx)[i] = WorkerEvent
           /\ tx.op \in Routes => \E i \in DOMAIN Payloads(tx) : Payloads(tx)[i] = RouteEvent
  <1> DEFINE W == WorkerEvent
             R == RouteEvent
             K == WakeEvent
             P == Payloads(tx)
  <1>1. tx.worker \in Worker /\ tx.call \in Call /\ tx \in Tx /\ tx.fence \in Nat
        /\ tx.recorded \in Times
        /\ tx.op \in {"register", "renew", "drain", "create", "release", "takeover"}
    BY TxType DEF AuthorityType
  <1>2. WorkerAfter(tx) \in WorkerRow
    BY WorkerAfterFacts DEF AuthorityInv, TxIsPermitted
  <1>3. AssignmentAfter(tx) \in Assignment
    BY <1>1 DEF AssignmentAfter, Assignment, Released, AuthorityType
  <1>4. W.key = WorkerKey(tx.worker) /\ R.key = RouteKey(tx.call) /\ K.key = WakeKey(tx.worker)
    BY DEF Event, WorkerEvent, RouteEvent, WakeEvent
  <1>5. W.key # R.key /\ R.key # K.key /\ W.key # K.key
    BY <1>4 DEF WorkerKey, WakeKey, RouteKey
  <1>6. W \in Record
    BY <1>1, <1>2, EventType, KeysDiffer DEF WorkerEvent
  <1>7. R \in Record
    BY <1>1, <1>3, EventType, KeysDiffer DEF RouteEvent
  <1>8. K \in Record
    BY <1>1, EventType, KeysDiffer DEF WakeEvent
  <1>9. CASE tx.op = "takeover"
    <2>1. P = <<R, K>> /\ ~WorkerChanges(tx)
      BY <1>9 DEF Payloads, RouteEvent, WakeEvent, WorkerChanges
    <2> HIDE DEF W, R, K, P
    <2>2. P \in Seq(Record) /\ DOMAIN P = {1, 2} /\ P[1] = R /\ P[2] = K
      BY <1>7, <1>8, <2>1
    <2> QED
      BY <1>5, <1>9, <2>1, <2>2 DEF Routes, W, R, K, P
  <1>10. CASE tx.op \in {"create", "release"}
    <2>1. P = <<W, R, K>> /\ WorkerChanges(tx)
      BY <1>10 DEF Payloads, WorkerEvent, RouteEvent, WakeEvent, WorkerChanges
    <2> HIDE DEF W, R, K, P
    <2>2. P \in Seq(Record) /\ DOMAIN P = {1, 2, 3} /\ P[1] = W /\ P[2] = R /\ P[3] = K
      BY <1>6, <1>7, <1>8, <2>1
    <2> QED
      BY <1>5, <1>10, <2>1, <2>2 DEF Routes, W, R, K, P
  <1>11. CASE tx.op \in {"register", "renew", "drain"} /\ WorkerChanges(tx)
    <2>1. P = <<W, K>> /\ tx.op \notin Routes
      BY <1>11 DEF Payloads, WorkerEvent, WakeEvent, Routes
    <2> HIDE DEF W, R, K, P
    <2>2. P \in Seq(Record) /\ DOMAIN P = {1, 2} /\ P[1] = W /\ P[2] = K
      BY <1>6, <1>8, <2>1
    <2> QED
      BY <1>5, <1>11, <2>1, <2>2 DEF W, R, K, P
  <1>12. CASE tx.op \in {"register", "renew", "drain"} /\ ~WorkerChanges(tx)
    <2>1. P = <<>> /\ tx.op \notin Routes
      BY <1>12 DEF Payloads, Routes
    <2> HIDE DEF W, R, K, P
    <2>2. P \in Seq(Record) /\ DOMAIN P = {}
      BY <2>1
    <2> QED
      BY <1>12, <2>1, <2>2 DEF W, R, K, P
  <1> QED
    BY <1>1, <1>9, <1>10, <1>11, <1>12

\* n is a record the commit added.
New(n) == n \in DOMAIN outbox' /\ n \notin DOMAIN outbox

\* The outbox after a commit.
LEMMA CommitOutbox ==
    ASSUME AuthorityType, AuthorityInv, outbox \in Seq(Record), tx # NoTx,
           outbox' = outbox \o Payloads(tx)
    PROVE  /\ outbox' \in Seq(Record)
           /\ DOMAIN outbox \subseteq DOMAIN outbox' /\ DOMAIN outbox' \subseteq Nat
           /\ \A n \in DOMAIN outbox : outbox'[n] = outbox[n]
           /\ \A n : New(n) => /\ \A m \in DOMAIN outbox : m < n
                               /\ \/ WorkerChanges(tx) /\ outbox'[n] = WorkerEvent
                                  \/ tx.op \in Routes /\ outbox'[n] = RouteEvent
                                  \/ outbox'[n] = WakeEvent
           /\ \A n, m : New(n) /\ New(m) /\ outbox'[n].key = outbox'[m].key => n = m
           /\ WorkerChanges(tx) => \E n : New(n) /\ outbox'[n] = WorkerEvent
           /\ tx.op \in Routes => \E n : New(n) /\ outbox'[n] = RouteEvent
  <1> DEFINE P == Payloads(tx)
             N == Len(outbox)
  <1>1. P \in Seq(Record)
    BY PayloadFacts
  <1>2. \A i \in DOMAIN P : \/ WorkerChanges(tx) /\ P[i] = WorkerEvent
                            \/ tx.op \in Routes /\ P[i] = RouteEvent
                            \/ P[i] = WakeEvent
    BY PayloadFacts
  <1>3. \A i, j \in DOMAIN P : P[i].key = P[j].key => i = j
    BY PayloadFacts
  <1>4. /\ WorkerChanges(tx) => \E i \in DOMAIN P : P[i] = WorkerEvent
        /\ tx.op \in Routes => \E i \in DOMAIN P : P[i] = RouteEvent
    BY PayloadFacts
  <1> HIDE DEF P
  <1>5. outbox' = outbox \o P
    BY DEF P
  <1>6. /\ outbox' \in Seq(Record)
        /\ N \in Nat /\ Len(P) \in Nat
        /\ DOMAIN outbox = 1..N /\ DOMAIN P = 1..Len(P) /\ DOMAIN outbox' = 1..(N + Len(P))
        /\ \A n \in 1..N : outbox'[n] = outbox[n]
        /\ \A n \in (N+1)..(N + Len(P)) : outbox'[n] = P[n - N]
    BY <1>1, <1>5
  <1> HIDE DEF N
  <1>7. \A n : New(n) => n \in (N+1)..(N + Len(P)) /\ n - N \in DOMAIN P /\ outbox'[n] = P[n - N]
    <2> TAKE n
    <2> HAVE New(n)
    <2>1. n \in 1..(N + Len(P)) /\ n \notin 1..N
      BY <1>6 DEF New
    <2>2. n \in (N+1)..(N + Len(P)) /\ n - N \in 1..Len(P)
      BY <1>6, <2>1
    <2> QED
      BY <1>6, <2>2
  <1>8. \A i \in DOMAIN P : New(N + i) /\ outbox'[N + i] = P[i]
    <2> TAKE i \in DOMAIN P
    <2>1. N + i \in (N+1)..(N + Len(P)) /\ (N + i) - N = i
      BY <1>6
    <2>2. N + i \in DOMAIN outbox' /\ N + i \notin DOMAIN outbox
      BY <1>6, <2>1
    <2> QED
      BY <1>6, <2>1, <2>2 DEF New
  <1>9. \A n : New(n) => /\ \A m \in DOMAIN outbox : m < n
                         /\ \/ WorkerChanges(tx) /\ outbox'[n] = WorkerEvent
                            \/ tx.op \in Routes /\ outbox'[n] = RouteEvent
                            \/ outbox'[n] = WakeEvent
    <2> TAKE n
    <2> HAVE New(n)
    <2>1. n \in (N+1)..(N + Len(P)) /\ n - N \in DOMAIN P /\ outbox'[n] = P[n - N]
      BY <1>7
    <2>2. \A m \in DOMAIN outbox : m < n
      BY <1>6, <2>1
    <2> QED
      BY <1>2, <2>1, <2>2
  <1>10. \A n, m : New(n) /\ New(m) /\ outbox'[n].key = outbox'[m].key => n = m
    <2> TAKE n, m
    <2> HAVE New(n) /\ New(m) /\ outbox'[n].key = outbox'[m].key
    <2>0. /\ n - N \in DOMAIN P /\ m - N \in DOMAIN P
          /\ outbox'[n] = P[n - N] /\ outbox'[m] = P[m - N]
      BY <1>7
    <2>1. n - N = m - N
      BY <1>3, <2>0
    <2>2. n \in Nat /\ m \in Nat
      BY <1>6, <1>7
    <2> QED
      BY <1>6, <2>1, <2>2
  <1>11. WorkerChanges(tx) => \E n : New(n) /\ outbox'[n] = WorkerEvent
    BY <1>4, <1>8
  <1>12. tx.op \in Routes => \E n : New(n) /\ outbox'[n] = RouteEvent
    BY <1>4, <1>8
  <1>13. DOMAIN outbox \subseteq DOMAIN outbox' /\ DOMAIN outbox' \subseteq Nat
         /\ \A n \in DOMAIN outbox : outbox'[n] = outbox[n]
    BY <1>6
  <1> QED
    BY <1>6, <1>9, <1>10, <1>11, <1>12, <1>13

\* A commit appends what it changed: the history stays one.
LEMMA CommitHistory ==
    ASSUME AuthorityType, AuthorityInv, HistoryInv, outbox \in Seq(Record),
           NEW delivered \in BOOLEAN, Commit(delivered)
    PROVE  HistoryInv'
  <1>1. tx # NoTx /\ tx.phase = "appended"
    BY NoTxPhase DEF Commit
  <1>2. PICK w \in Worker, c \in Call : w = tx.worker /\ c = tx.call
    BY <1>1, TxType DEF AuthorityType
  <1> DEFINE a == WorkerAfter(tx)
             aa == AssignmentAfter(tx)
  <1>3. tx.op \in {"register", "renew", "drain", "create", "release", "takeover"}
        /\ tx.at \in Nat /\ tx.recorded \in Nat /\ tx.fence \in Nat
    BY <1>1, TxType, TimeType DEF AuthorityType
  <1>4. Permits(tx) /\ tx.at <= now
    BY <1>1 DEF AuthorityInv, TxIsPermitted
  <1>5. /\ a \in WorkerRow
        /\ tx.op = "register" => a.fence = worker[w].fence + 1
        /\ tx.op # "register" =>
              /\ a.fence = worker[w].fence
              /\ a.expires >= worker[w].expires
              /\ worker[w].draining => a.draining
              /\ LeaseHeld(tx)
        /\ ~WorkerChanges(tx) => a = worker[w]
    BY <1>1, <1>2, <1>4, WorkerAfterFacts DEF AuthorityInv
  <1>6. worker'[w] = a /\ \A v \in Worker : v # w => worker'[v] = worker[v]
    BY <1>2 DEF Commit, AuthorityType
  <1>7. assignment'[c] = aa /\ \A d \in Call : d # c => assignment'[d] = assignment[d]
    BY <1>2 DEF Commit, AuthorityType
  <1>8. /\ outbox' \in Seq(Record)
        /\ DOMAIN outbox \subseteq DOMAIN outbox' /\ DOMAIN outbox' \subseteq Nat
        /\ \A n \in DOMAIN outbox : outbox'[n] = outbox[n]
        /\ \A n : New(n) => /\ \A m \in DOMAIN outbox : m < n
                            /\ \/ WorkerChanges(tx) /\ outbox'[n] = WorkerEvent
                               \/ tx.op \in Routes /\ outbox'[n] = RouteEvent
                               \/ outbox'[n] = WakeEvent
        /\ \A n, m : New(n) /\ New(m) /\ outbox'[n].key = outbox'[m].key => n = m
        /\ WorkerChanges(tx) => \E n : New(n) /\ outbox'[n] = WorkerEvent
        /\ tx.op \in Routes => \E n : New(n) /\ outbox'[n] = RouteEvent
    <2>1. outbox' = outbox \o Payloads(tx)
      BY DEF Commit
    <2> QED
      BY <1>1, <2>1, CommitOutbox
  <1>9. /\ WorkerEvent.key = WorkerKey(w) /\ WorkerEvent.value = a
        /\ WorkerEvent.recorded = tx.recorded
        /\ RouteEvent.key = RouteKey(c) /\ RouteEvent.value = aa
        /\ WakeEvent.key = WakeKey(w)
    BY <1>2 DEF Event, WorkerEvent, RouteEvent, WakeEvent
  <1>10. /\ a.fence \in Nat /\ a.expires \in Nat
         /\ worker[w].fence \in Nat /\ worker[w].expires \in Nat
    BY <1>5, RowType, TimeType DEF WorkerRow
  <1>11. /\ aa \in Assignment
         /\ tx.op \in {"create", "takeover"} => aa.worker = w
         /\ tx.op = "release" => aa = Released
         /\ tx.op \notin Routes => aa = assignment[c]
    BY <1>2, <1>3 DEF AssignmentAfter, Assignment, Released, AuthorityType, Routes
  <1>12. /\ worker[w].fence > 0 \/ tx.op = "register"
    BY <1>2, <1>3, <1>5, <1>10 DEF LeaseHeld, AuthorityInv, UnregisteredIsExpired
  <1>13. /\ tx.op # "register" /\ WorkerChanges(tx) => tx.recorded < worker[w].expires
    BY <1>1, <1>2 DEF AuthorityInv, TxIsInTime
  <1>14. \A n : n \in DOMAIN outbox' => n \in DOMAIN outbox \/ New(n)
    BY DEF New
  <1> HIDE DEF a, aa
  <1>15. EventsAreTyped'
    <2> SUFFICES ASSUME NEW n \in DOMAIN outbox'
                 PROVE  /\ outbox'[n].key[1] = "worker" => outbox'[n].value \in WorkerRow
                        /\ outbox'[n].key[1] = "route" =>
                              /\ outbox'[n].value \in Assignment
                              /\ outbox'[n].value # Released => outbox'[n].value.worker \in Worker
      BY DEF EventsAreTyped, IsWorkerEvent, IsRouteEvent
    <2>1. CASE n \in DOMAIN outbox
      BY <1>8, <2>1 DEF HistoryInv, EventsAreTyped, IsWorkerEvent, IsRouteEvent
    <2>2. CASE New(n)
      <3>1. CASE outbox'[n] = WorkerEvent
        BY <1>5, <1>9, <3>1 DEF WorkerKey
      <3>2. CASE tx.op \in Routes /\ outbox'[n] = RouteEvent
        BY <1>9, <1>11, <3>2 DEF RouteKey, Routes
      <3>3. CASE outbox'[n] = WakeEvent
        BY <1>9, <3>3 DEF WakeKey
      <3> QED
        BY <1>8, <2>2, <3>1, <3>2, <3>3
    <2> QED
      BY <1>14, <2>1, <2>2
  <1>16. \A n : New(n) => \A v \in Worker : outbox'[n].key = WorkerKey(v)
                             => v = w /\ WorkerChanges(tx) /\ outbox'[n] = WorkerEvent
    BY <1>8, <1>9 DEF WorkerKey, WakeKey, RouteKey
  <1>17. \A n : New(n) => \A d \in Call : outbox'[n].key = RouteKey(d)
                             => d = c /\ tx.op \in Routes /\ outbox'[n] = RouteEvent
    BY <1>8, <1>9 DEF WorkerKey, WakeKey, RouteKey
  <1>18. SnapshotsArePast'
    <2> SUFFICES ASSUME NEW n \in DOMAIN outbox', NEW v \in Worker, outbox'[n].key = WorkerKey(v)
                 PROVE  /\ outbox'[n].value.fence <= worker'[v].fence
                        /\ outbox'[n].value.fence = worker'[v].fence =>
                              outbox'[n].value.expires <= worker'[v].expires
      BY DEF SnapshotsArePast, WorkerKey
    <2>1. CASE n \in DOMAIN outbox
      <3>1. /\ outbox[n].value.fence <= worker[v].fence
            /\ outbox[n].value.fence = worker[v].fence => outbox[n].value.expires <= worker[v].expires
        BY <1>8, <2>1 DEF HistoryInv, SnapshotsArePast
      <3>2. outbox[n].value \in WorkerRow
        BY <1>8, <2>1 DEF HistoryInv, EventsAreTyped, IsWorkerEvent, WorkerKey
      <3>3. outbox[n].value.fence \in Nat /\ outbox[n].value.expires \in Nat
        BY <3>2, TimeType DEF WorkerRow
      <3>4. CASE v # w
        BY <1>6, <1>8, <2>1, <3>1, <3>4
      <3>5. CASE v = w
        <4>1. worker[w].fence <= a.fence /\ (worker[w].fence = a.fence => worker[w].expires <= a.expires)
          BY <1>3, <1>5, <1>10
        <4>2. outbox'[n] = outbox[n] /\ worker'[v] = a
          BY <1>6, <1>8, <2>1, <3>5
        <4>3. /\ outbox[n].value.fence <= a.fence
              /\ outbox[n].value.fence = a.fence => outbox[n].value.expires <= a.expires
          BY <1>10, <3>1, <3>3, <3>5, <4>1
        <4> QED
          BY <4>2, <4>3
      <3> QED
        BY <3>4, <3>5
    <2>2. CASE New(n)
      BY <1>6, <1>9, <1>10, <1>16, <2>2
    <2> QED
      BY <1>14, <2>1, <2>2
  <1>19. \A k : (\A n : New(n) => outbox'[n].key # k) => \A n : LastOf(n, k) => LastOf(n, k)'
    BY <1>8, <1>14 DEF LastOf
  <1>20. \A n, k : New(n) /\ outbox'[n].key = k => LastOf(n, k)'
    <2> SUFFICES ASSUME NEW n, New(n),
                        NEW m \in DOMAIN outbox', outbox'[m].key = outbox'[n].key
                 PROVE  m <= n
      BY DEF LastOf, New
    <2>1. n \in Nat /\ m \in Nat
      BY <1>8 DEF New
    <2>2. m < n \/ m = n
      BY <1>8, <1>14
    <2> QED
      BY <2>1, <2>2
  <1>21. LastIsCurrent'
    <2>1. \A v \in Worker : worker'[v].fence > 0 =>
             \E n \in DOMAIN outbox' : LastOf(n, WorkerKey(v))' /\ outbox'[n].value = worker'[v]
      <3> TAKE v \in Worker
      <3> HAVE worker'[v].fence > 0
      <3>1. CASE v = w /\ WorkerChanges(tx)
        <4>1. PICK n : New(n) /\ outbox'[n] = WorkerEvent
          BY <1>8, <3>1
        <4> QED
          BY <1>6, <1>9, <1>20, <3>1, <4>1 DEF New
      <3>2. CASE ~(v = w /\ WorkerChanges(tx))
        <4>1. worker'[v] = worker[v]
          BY <1>5, <1>6, <3>2
        <4>2. PICK n \in DOMAIN outbox : LastOf(n, WorkerKey(v)) /\ outbox[n].value = worker[v]
          BY <4>1 DEF HistoryInv, LastIsCurrent
        <4>3. \A m : New(m) => outbox'[m].key # WorkerKey(v)
          BY <1>16, <3>2
        <4>4. LastOf(n, WorkerKey(v))'
          BY <1>19, <4>2, <4>3 DEF WorkerKey
        <4> QED
          BY <1>8, <4>1, <4>2, <4>4
      <3> QED
        BY <3>1, <3>2
    <2>2. \A d \in Call : assignment'[d] # Unassigned =>
             \E n \in DOMAIN outbox' : LastOf(n, RouteKey(d))' /\ outbox'[n].value = assignment'[d]
      <3> TAKE d \in Call
      <3> HAVE assignment'[d] # Unassigned
      <3>1. CASE d = c /\ tx.op \in Routes
        <4>1. PICK n : New(n) /\ outbox'[n] = RouteEvent
          BY <1>8, <3>1
        <4> QED
          BY <1>7, <1>9, <1>20, <3>1, <4>1 DEF New
      <3>2. CASE ~(d = c /\ tx.op \in Routes)
        <4>1. assignment'[d] = assignment[d]
          BY <1>7, <1>11, <3>2
        <4>2. PICK n \in DOMAIN outbox : LastOf(n, RouteKey(d)) /\ outbox[n].value = assignment[d]
          BY <4>1 DEF HistoryInv, LastIsCurrent
        <4>3. \A m : New(m) => outbox'[m].key # RouteKey(d)
          BY <1>17, <3>2
        <4>4. LastOf(n, RouteKey(d))'
          BY <1>19, <4>2, <4>3 DEF RouteKey
        <4> QED
          BY <1>8, <4>1, <4>2, <4>4
      <3> QED
        BY <3>1, <3>2
    <2> QED
      BY <2>1, <2>2 DEF LastIsCurrent
  <1>22. SnapshotsFollow'
    <2> SUFFICES ASSUME NEW m \in DOMAIN outbox', NEW n \in DOMAIN outbox',
                        outbox'[n].key[1] = "worker", Before(m, n)'
                 PROVE  Follows(outbox'[m], outbox'[n])
      BY DEF SnapshotsFollow, Follows, IsWorkerEvent
    <2>1. m \in Nat /\ n \in Nat /\ m < n /\ outbox'[m].key = outbox'[n].key
      BY <1>8 DEF Before
    <2>2. m \in DOMAIN outbox
      <3>1. ~New(m)
        BY <1>8, <1>14, <2>1
      <3> QED
        BY <1>14, <3>1
    <2>3. CASE n \in DOMAIN outbox
      <3>1. Before(m, n)
        BY <1>8, <2>2, <2>3 DEF Before
      <3> QED
        BY <1>8, <2>2, <2>3, <3>1 DEF HistoryInv, SnapshotsFollow, IsWorkerEvent
    <2>4. CASE New(n)
      <3>1. outbox'[n] = WorkerEvent /\ WorkerChanges(tx)
        BY <1>8, <1>9, <2>4 DEF WakeKey, RouteKey
      <3>2. outbox[m].key = WorkerKey(w)
        BY <1>8, <1>9, <2>1, <2>2, <3>1
      <3>3. CASE tx.op = "register"
        <4>1. outbox[m].value.fence <= worker[w].fence /\ outbox[m].value \in WorkerRow
          BY <2>2, <3>2 DEF HistoryInv, SnapshotsArePast, EventsAreTyped, IsWorkerEvent, WorkerKey
        <4>2. outbox[m].value.fence \in Nat
          BY <4>1 DEF WorkerRow
        <4>3. outbox'[m].value.fence < outbox'[n].value.fence
          <5>1. outbox'[n].value.fence = worker[w].fence + 1
            BY <1>5, <1>9, <3>1, <3>3
          <5>2. outbox'[m].value.fence = outbox[m].value.fence
            BY <1>8, <2>2
          <5> QED
            BY <1>10, <4>1, <4>2, <5>1, <5>2
        <4> QED
          BY <4>3 DEF Follows
      <3>4. CASE tx.op # "register"
        <4>1. PICK l \in DOMAIN outbox : LastOf(l, WorkerKey(w)) /\ outbox[l].value = worker[w]
          BY <1>12, <3>4 DEF HistoryInv, LastIsCurrent
        <4>2. m <= l
          BY <2>2, <3>2, <4>1 DEF LastOf
        <4>3. l < n /\ outbox'[l].key = outbox'[n].key /\ l \in DOMAIN outbox'
          BY <1>8, <1>9, <2>4, <3>1, <4>1 DEF LastOf
        <4>4. l <= m
          BY <4>3 DEF Before
        <4>5. l \in Nat
          BY <1>8, <4>3
        <4>6. m = l
          BY <2>1, <4>2, <4>4, <4>5
        <4>7. outbox'[m].value = worker[w]
          BY <1>8, <2>2, <4>1, <4>6
        <4> QED
          BY <1>5, <1>9, <1>13, <3>1, <3>4, <4>7, <1>3, <1>10 DEF Follows
      <3> QED
        BY <3>3, <3>4
    <2> QED
      BY <1>14, <2>3, <2>4
  <1> QED
    BY <1>15, <1>18, <1>21, <1>22 DEF HistoryInv

-----------------------------------------------------------------------------
(***************************************************************************)
(* The projectors.                                                         *)
(***************************************************************************)

\* A set of numbers that is not empty has a smallest one.
LEMMA SmallestOf ==
    ASSUME NEW S \in SUBSET Nat, S # {}
    PROVE  \E x \in S : \A y \in S : x <= y
  <1>1. PICK x \in S : \A y \in S : ~(<<y, x>> \in OpToRel(<, Nat))
    BY NatLessThanWellFounded, WFMin
  <1>2. \A y \in S : ~(y < x)
    BY <1>1 DEF OpToRel
  <1> QED
    BY <1>2

\* The next event of a batch.
LEMMA FirstFacts ==
    ASSUME ProjectionType, NEW p \in Projector, batch[p] # {}
    PROVE  /\ First(p) \in batch[p]
           /\ \A b \in batch[p] : First(p).sequence <= b.sequence
           /\ First(p).sequence \in Nat
  <1>1. \A b \in batch[p] : b.sequence \in Nat
    BY DEF ProjectionType
  <1> DEFINE S == {b.sequence : b \in batch[p]}
  <1>2. S \in SUBSET Nat /\ S # {}
    BY <1>1
  <1>3. PICK x \in S : \A y \in S : x <= y
    BY <1>2, SmallestOf
  <1>4. PICK b \in batch[p] : b.sequence = x
    BY <1>3
  <1>5. \A other \in batch[p] : b.sequence <= other.sequence
    BY <1>3, <1>4
  <1> QED
    BY <1>1, <1>4, <1>5 DEF First

\* The records of the outbox.
LEMMA OutboxType ==
    ASSUME ProjectionType
    PROVE  /\ Len(outbox) \in Nat /\ DOMAIN outbox = 1..Len(outbox)
           /\ \A n \in DOMAIN outbox :
                 /\ n \in Nat /\ n > 0 /\ outbox[n] \in Record /\ outbox[n].key \in Key
                 /\ outbox[n].generation \in Nat /\ outbox[n].recorded \in Nat
                 /\ outbox[n].live \in BOOLEAN
                 /\ outbox[n].state \in {"ready", "claimed", "applied"}
  <1>1. Len(outbox) \in Nat /\ DOMAIN outbox = 1..Len(outbox)
    BY DEF ProjectionType
  <1>2. \A n \in DOMAIN outbox : outbox[n] \in Record
    BY <1>1 DEF ProjectionType
  <1>3. \A r \in Record : /\ r.key \in Key /\ r.generation \in Nat /\ r.recorded \in Times
                          /\ r.live \in BOOLEAN /\ r.state \in {"ready", "claimed", "applied"}
    BY DEF Record
  <1> QED
    BY <1>1, <1>2, <1>3, TimeType

\* The entries of the cache.
LEMMA CacheType ==
    ASSUME ProjectionType, NEW k \in Key
    PROVE  cache[k].sequence \in Nat /\ (cache[k].sequence = 0 <=> cache[k] = NoEntry)
  BY DEF ProjectionType, Entry, NoEntry

\* Before the first of a batch the cache of a full history has everything.
LEMMA CaughtUp ==
    ASSUME ProjectionType, ProjectionInv, flushes = 0, NEW p \in Projector, batch[p] # {},
           NEW m \in 1..(First(p).sequence - 1)
    PROVE  Cached(m)
  <1>1. First(p) \in batch[p] /\ First(p).sequence \in Nat
        /\ \A b \in batch[p] : First(p).sequence <= b.sequence
    BY FirstFacts
  <1>2. ~InBatch(p, m)
    BY <1>1 DEF InBatch
  <1> QED
    BY <1>1, <1>2 DEF ProjectionInv, NothingIsMissed

\* A cache that lost nothing refuses no event: it holds the snapshot before it.
LEMMA CacheAccepts ==
    ASSUME ProjectionType, ProjectionInv, HistoryInv, flushes = 0,
           NEW p \in Projector, batch[p] # {}
    PROVE  Outcome(First(p).sequence) \in Accepted
  <1> DEFINE n == First(p).sequence
             k == outbox[n].key
             m == cache[k].sequence
  <1>1. n \in DOMAIN outbox
    BY FirstFacts DEF ProjectionInv, BatchesAreClaims
  <1>2. n \in Nat /\ k \in Key /\ outbox[n].recorded \in Nat
    BY <1>1, OutboxType
  <1>3. m \in Nat
    BY <1>2, CacheType
  <1>4. CASE n <= m
    BY <1>2, <1>3, <1>4 DEF Outcome, Accepted
  <1>5. CASE m < n /\ (k[1] # "worker" \/ m = 0)
    BY <1>2, <1>3, <1>5 DEF Outcome, Accepted
  <1>6. CASE m < n /\ k[1] = "worker" /\ m # 0
    <2>1. m \in DOMAIN outbox /\ outbox[m].key = k /\ cache[k].value = outbox[m].value
      BY <1>2, <1>6, CacheType DEF ProjectionInv, EntriesAreEvents
    <2>2. \A j \in DOMAIN outbox : outbox[j].key = k /\ j < n => j <= m
      <3> TAKE j \in DOMAIN outbox
      <3> HAVE outbox[j].key = k /\ j < n
      <3>1. j \in 1..(n - 1)
        BY <1>2, OutboxType
      <3>2. Cached(j)
        BY <3>1, CaughtUp
      <3> QED
        BY <3>2 DEF Cached
    <2>3. Before(m, n)
      BY <1>6, <2>1, <2>2 DEF Before
    <2>4. Follows(outbox[m], outbox[n])
      BY <1>1, <1>6, <2>1, <2>3 DEF HistoryInv, SnapshotsFollow, IsWorkerEvent
    <2>5. outbox[m].value \in WorkerRow /\ outbox[n].value \in WorkerRow
      BY <1>1, <1>6, <2>1 DEF HistoryInv, EventsAreTyped, IsWorkerEvent
    <2>6. /\ outbox[m].value.fence \in Nat /\ outbox[n].value.fence \in Nat
          /\ outbox[m].value.expires \in Nat
      BY <2>5, TimeType DEF WorkerRow
    <2> HIDE DEF n, k, m
    <2>7. /\ ~(outbox[n].value.fence < outbox[m].value.fence)
          /\ \/ outbox[n].value.fence > outbox[m].value.fence
             \/ /\ ~(outbox[m].value.expires <= outbox[n].recorded)
                /\ ~(outbox[m].value.draining /\ ~outbox[n].value.draining)
      BY <1>2, <2>4, <2>6 DEF Follows
    <2>8. Outcome(n) = "applied"
      BY <1>2, <1>3, <1>6, <2>1, <2>7 DEF Outcome, k, m
    <2> QED
      BY <2>8 DEF Accepted, n
  <1> QED
    BY <1>2, <1>3, <1>4, <1>5, <1>6

\* A batch that is as it was has the same first event.
LEMMA FirstStays ==
    ASSUME NEW p \in Projector, batch'[p] = batch[p]
    PROVE  First(p)' = First(p)
  BY DEF First

\* Steps that leave the cache alone and keep the events: its entries, and what
\* it has cached, stay.
LEMMA CacheStays ==
    ASSUME ProjectionInv, cache' = cache, stream' = stream,
           DOMAIN outbox \subseteq DOMAIN outbox',
           \A n \in DOMAIN outbox : /\ outbox'[n].key = outbox[n].key
                                    /\ outbox'[n].value = outbox[n].value
    PROVE  /\ EntriesAreEvents' /\ StreamsArePast' /\ WakeupsAscend'
           /\ \A n \in DOMAIN outbox : Cached(n)' <=> Cached(n)
  <1>1. EntriesAreEvents'
    BY DEF ProjectionInv, EntriesAreEvents
  <1>2. StreamsArePast' /\ WakeupsAscend'
    BY DEF ProjectionInv, StreamsArePast, WakeupsAscend
  <1>3. \A n \in DOMAIN outbox : Cached(n)' <=> Cached(n)
    BY DEF Cached
  <1> QED
    BY <1>1, <1>2, <1>3

\* A commit: the new records are nobody's yet.
LEMMA CommitProjection ==
    ASSUME AuthorityType, AuthorityInv, ProjectionType, ProjectionInv,
           NEW delivered \in BOOLEAN, Commit(delivered)
    PROVE  ProjectionType' /\ ProjectionInv'
  <1>1. tx # NoTx
    BY NoTxPhase DEF Commit
  <1>2. /\ outbox' = outbox \o Payloads(tx) /\ batch' = batch /\ applied' = applied
        /\ cache' = cache /\ stream' = stream /\ faults' = faults /\ flushes' = flushes
    BY DEF Commit, projecting, projection
  <1>3. /\ outbox' \in Seq(Record)
        /\ DOMAIN outbox \subseteq DOMAIN outbox'
        /\ \A n \in DOMAIN outbox : outbox'[n] = outbox[n]
        /\ \A n : New(n) => /\ \A m \in DOMAIN outbox : m < n
                            /\ \/ WorkerChanges(tx) /\ outbox'[n] = WorkerEvent
                               \/ tx.op \in Routes /\ outbox'[n] = RouteEvent
                               \/ outbox'[n] = WakeEvent
    BY <1>1, <1>2, CommitOutbox DEF ProjectionType
  <1>4. \A n : New(n) => outbox'[n].state = "ready"
    BY <1>3 DEF WorkerEvent, RouteEvent, WakeEvent, Event
  <1>5. ProjectionType'
    BY <1>2, <1>3 DEF ProjectionType
  <1>6. \A n \in DOMAIN outbox' : outbox'[n].state = "applied" => n \in DOMAIN outbox
    BY <1>4 DEF New
  <1>7. AcknowledgedInOrder'
    <2>1. \A n \in DOMAIN outbox : \A m \in 1..n : m \in DOMAIN outbox
      BY OutboxType
    <2> QED
      BY <1>3, <1>6, <2>1 DEF ProjectionInv, AcknowledgedInOrder
  <1>8. BatchesAreClaims'
    BY <1>2, <1>3 DEF ProjectionInv, BatchesAreClaims
  <1>9. \A p \in Projector : \A b \in batch[p] :
           b.sequence \in DOMAIN outbox /\ \A m \in 1..(b.sequence - 1) : m \in DOMAIN outbox
    BY OutboxType DEF ProjectionInv, BatchesAreClaims
  <1>10. BatchesAreOrdered'
    BY <1>2, <1>3, <1>9 DEF ProjectionInv, BatchesAreOrdered, ClaimHeld, InBatch
  <1>11. /\ EntriesAreEvents' /\ StreamsArePast' /\ WakeupsAscend'
         /\ \A n \in DOMAIN outbox : Cached(n)' <=> Cached(n)
    BY <1>2, <1>3, CacheStays
  <1>12. NothingIsMissed'
    <2> SUFFICES ASSUME flushes = 0
                 PROVE  /\ \A n \in DOMAIN outbox' : outbox'[n].state = "applied" => Cached(n)'
                        /\ \A p \in Projector : \A b \in batch[p] :
                              \A m \in 1..(b.sequence - 1) : Cached(m)' \/ InBatch(p, m)
                        /\ \A p \in Projector : applied[p] /\ batch[p] # {} => Cached(First(p).sequence)'
      BY <1>2 DEF NothingIsMissed, InBatch
    <2>1. \A n \in DOMAIN outbox' : outbox'[n].state = "applied" => Cached(n)'
      BY <1>3, <1>6, <1>11 DEF ProjectionInv, NothingIsMissed
    <2>2. \A p \in Projector : \A b \in batch[p] :
             \A m \in 1..(b.sequence - 1) : Cached(m)' \/ InBatch(p, m)
      BY <1>9, <1>11 DEF ProjectionInv, NothingIsMissed
    <2>3. \A p \in Projector : applied[p] /\ batch[p] # {} => Cached(First(p).sequence)'
      <3> TAKE p \in Projector
      <3> HAVE applied[p] /\ batch[p] # {}
      <3>1. PICK n \in DOMAIN outbox : n = First(p).sequence
        BY <1>9, FirstFacts
      <3>2. Cached(n)
        BY <3>1 DEF ProjectionInv, NothingIsMissed
      <3>3. Cached(n)'
        BY <1>11, <3>2
      <3>4. First(p)' = First(p)
        BY <1>2, FirstStays
      <3> QED
        BY <3>1, <3>3, <3>4
    <2> QED
      BY <2>1, <2>2, <2>3
  <1> QED
    BY <1>5, <1>7, <1>8, <1>10, <1>11, <1>12 DEF ProjectionInv

\* Rows before a claimable one are applied or claimable.
LEMMA ClaimableIsPrefix ==
    ASSUME ProjectionType, NEW n \in Claimable, NEW m \in 1..(n - 1)
    PROVE  m \in DOMAIN outbox /\ (outbox[m].state = "applied" \/ m \in Claimable)
  <1>1. n \in DOMAIN outbox /\ n \in Nat /\ n \in Pending
    BY OutboxType DEF Claimable, Pending
  <1>2. m \in DOMAIN outbox /\ m \in Nat /\ m < n
    BY <1>1, OutboxType
  <1> SUFFICES ASSUME outbox[m].state # "applied" PROVE m \in Claimable
    BY <1>2
  <1>3. m \in Pending
    BY <1>2 DEF Pending
  <1> DEFINE A == {j \in Pending : j <= m}
             B == {j \in Pending : j <= n}
  <1>4. \A j \in Pending : j \in Nat
    BY OutboxType DEF Pending
  <1>5. A \in SUBSET B
    BY <1>1, <1>2, <1>4
  <1>6. IsFiniteSet(B)
    <2>1. B \in SUBSET Nat
      BY <1>4
    <2> QED
      BY <1>1, <2>1, FS_BoundedSetOfNaturals
  <1>7. Cardinality(A) <= Cardinality(B) /\ IsFiniteSet(A)
    BY <1>5, <1>6, FS_Subset
  <1>8. Cardinality(A) \in Nat /\ Cardinality(B) \in Nat
    BY <1>6, <1>7, FS_CardinalityType
  <1>9. Cardinality(B) <= BatchSize /\ \A j \in Pending : j <= n => Free(j)
    BY DEF Claimable
  <1>10. Cardinality(A) <= BatchSize
    BY <1>7, <1>8, <1>9, CoordinationAssumption
  <1>11. \A j \in Pending : j <= m => Free(j)
    BY <1>1, <1>2, <1>4, <1>9
  <1> QED
    BY <1>3, <1>10, <1>11 DEF Claimable

\* A projector claims the rows at the head of the backlog.
LEMMA ClaimProjection ==
    ASSUME ProjectionType, ProjectionInv, NEW p \in Projector, Claim(p)
    PROVE  ProjectionType' /\ ProjectionInv' /\ SameEvents
  <1> DEFINE C == Claimable
  <1>1. /\ cache' = cache /\ stream' = stream /\ faults' = faults /\ flushes' = flushes
        /\ batch[p] = {}
        /\ batch' = [batch EXCEPT ![p] =
              {[sequence |-> n, generation |-> outbox[n].generation + 1] : n \in C}]
        /\ applied' = [applied EXCEPT ![p] = FALSE]
        /\ outbox' = [n \in DOMAIN outbox |->
              IF n \in C
                THEN [outbox[n] EXCEPT !.state = "claimed", !.projector = NameOf(p),
                                       !.generation = @ + 1, !.live = TRUE]
                ELSE outbox[n]]
    BY DEF Claim, projection
  <1>2. \A n \in C : n \in DOMAIN outbox /\ n \in Nat /\ outbox[n].state # "applied"
                     /\ outbox[n].generation \in Nat /\ outbox[n].generation + 1 \in Nat
    BY OutboxType DEF Claimable, Pending
  <1>3. \A n \in DOMAIN outbox : outbox[n] \in Record
    BY OutboxType
  <1>4. \A n \in C : /\ n \in DOMAIN outbox'
                     /\ outbox'[n].state = "claimed" /\ outbox'[n].live = TRUE
                     /\ outbox'[n].generation = outbox[n].generation + 1
                     /\ outbox'[n].key = outbox[n].key /\ outbox'[n].value = outbox[n].value
                     /\ outbox'[n].recorded = outbox[n].recorded /\ outbox'[n] \in Record
    <2> TAKE n \in C
    <2>1. outbox'[n] = [outbox[n] EXCEPT !.state = "claimed", !.projector = NameOf(p),
                                         !.generation = @ + 1, !.live = TRUE]
      BY <1>1, <1>2
    <2>2. outbox[n] \in Record /\ outbox[n].generation + 1 \in Nat
      BY <1>2, <1>3
    <2>3. NameOf(p) \in {"none"} \cup {NameOf(q) : q \in Projector}
      OBVIOUS
    <2> QED
      BY <1>1, <1>2, <2>1, <2>2, <2>3 DEF Record
  <1>5. \A n \in DOMAIN outbox : n \notin C => n \in DOMAIN outbox' /\ outbox'[n] = outbox[n]
    BY <1>1
  <1>6. DOMAIN outbox' = DOMAIN outbox
    BY <1>1
  <1>7. /\ batch'[p] = {[sequence |-> n, generation |-> outbox[n].generation + 1] : n \in C}
        /\ \A q \in Projector : q # p => batch'[q] = batch[q] /\ applied'[q] = applied[q]
        /\ applied'[p] = FALSE
    BY <1>1 DEF ProjectionType
  <1> HIDE DEF C
  <1>8. SameEvents
    BY <1>4, <1>5, <1>6 DEF SameEvents
  <1>9. ProjectionType'
    <2>1. \A n \in DOMAIN outbox' : outbox'[n] \in Record
      BY <1>3, <1>4, <1>5, <1>6
    <2>2. outbox' \in Seq(Record)
      <3>1. outbox' \in [1..Len(outbox) -> Record] /\ Len(outbox) \in Nat
        <4>1. DOMAIN outbox' = 1..Len(outbox) /\ Len(outbox) \in Nat
          BY <1>6, OutboxType
        <4>2. outbox' = [n \in 1..Len(outbox) |-> outbox'[n]]
          BY <1>1, <4>1
        <4> QED
          BY <2>1, <4>1, <4>2
      <3> QED
        BY <3>1, SeqDef
    <2>3. batch'[p] \in SUBSET [sequence : Nat, generation : Nat]
      BY <1>2, <1>7
    <2>4. batch' \in [Projector -> SUBSET [sequence : Nat, generation : Nat]]
      BY <1>1, <1>7, <2>3 DEF ProjectionType
    <2>5. applied' \in [Projector -> BOOLEAN]
      BY <1>1 DEF ProjectionType
    <2> QED
      BY <1>1, <2>2, <2>4, <2>5 DEF ProjectionType
  <1>10. \A b \in batch'[p] : /\ b.sequence \in C
                              /\ b.generation = outbox[b.sequence].generation + 1
                              /\ b = [sequence |-> b.sequence, generation |-> b.generation]
    BY <1>7
  <1>11. \A n \in C : InBatch(p, n)'
    <2> TAKE n \in C
    <2>1. [sequence |-> n, generation |-> outbox[n].generation + 1] \in batch'[p]
      BY <1>7
    <2>2. [sequence |-> n, generation |-> outbox[n].generation + 1].sequence = n
      OBVIOUS
    <2> QED
      BY <2>1, <2>2 DEF InBatch
  <1>12. \A q \in Projector : \A b \in batch[q] :
            b.sequence \in DOMAIN outbox /\ b.generation <= outbox[b.sequence].generation
            /\ b.generation \in Nat /\ b.sequence \in Nat /\ outbox[b.sequence].generation \in Nat
    BY OutboxType DEF ProjectionInv, BatchesAreClaims, ProjectionType
  <1>13. AcknowledgedInOrder'
    <2>1. \A n \in DOMAIN outbox : outbox'[n].state = "applied" <=> outbox[n].state = "applied"
      BY <1>2, <1>4, <1>5
    <2>2. \A n \in DOMAIN outbox : \A m \in 1..n : m \in DOMAIN outbox
      BY OutboxType
    <2> QED
      BY <1>6, <2>1, <2>2 DEF ProjectionInv, AcknowledgedInOrder
  <1>14. BatchesAreClaims'
    <2>1. \A q \in Projector : \A b \in batch'[q] :
             /\ b.sequence \in DOMAIN outbox'
             /\ b.generation <= outbox'[b.sequence].generation
             /\ \A c \in batch'[q] : b.sequence = c.sequence => b = c
      <3> TAKE q \in Projector
      <3> TAKE b \in batch'[q]
      <3>1. CASE q = p
        <4>1. b.sequence \in C /\ b.generation = outbox'[b.sequence].generation
          BY <1>4, <1>10, <3>1
        <4>2. \A c \in batch'[q] : b.sequence = c.sequence => b = c
          BY <1>10, <3>1
        <4>3. b.generation \in Nat
          BY <1>2, <1>10, <3>1
        <4> QED
          BY <1>4, <4>1, <4>2, <4>3
      <3>2. CASE q # p
        <4>1. b \in batch[q]
          BY <1>7, <3>2
        <4>2. b.generation <= outbox'[b.sequence].generation
          BY <1>4, <1>5, <1>12, <4>1
        <4> QED
          BY <1>6, <1>7, <1>12, <3>2, <4>1, <4>2 DEF ProjectionInv, BatchesAreClaims
      <3> QED
        BY <3>1, <3>2
    <2>2. \A q, r \in Projector : \A b \in batch'[q], c \in batch'[r] :
             q # r /\ b.sequence = c.sequence => b.generation # c.generation
      <3>1. \A q \in Projector : \A b \in batch'[p], c \in batch'[q] :
               q # p /\ b.sequence = c.sequence => b.generation # c.generation
        <4> SUFFICES ASSUME NEW q \in Projector, NEW b \in batch'[p], NEW c \in batch'[q],
                            q # p, b.sequence = c.sequence
                     PROVE  b.generation # c.generation
          OBVIOUS
        <4>1. c \in batch[q]
          BY <1>7
        <4>2. c.generation <= outbox[b.sequence].generation /\ c.generation \in Nat
              /\ outbox[b.sequence].generation \in Nat
          BY <1>12, <4>1
        <4>3. b.generation = outbox[b.sequence].generation + 1
          BY <1>10
        <4> QED
          BY <4>2, <4>3
      <3>2. \A q, r \in Projector : q # p /\ r # p => \A b \in batch'[q], c \in batch'[r] :
               q # r /\ b.sequence = c.sequence => b.generation # c.generation
        BY <1>7 DEF ProjectionInv, BatchesAreClaims
      <3> QED
        BY <3>1, <3>2
    <2> QED
      BY <2>1, <2>2 DEF BatchesAreClaims
  <1>15. \A n \in C : \A m \in 1..(n - 1) : m \in DOMAIN outbox
                                        /\ (outbox[m].state = "applied" \/ m \in C)
    BY ClaimableIsPrefix DEF C
  <1>16. BatchesAreOrdered'
    <2> SUFFICES ASSUME NEW q \in Projector, NEW b \in batch'[q], ClaimHeld(q, b)',
                        NEW m \in 1..(b.sequence - 1)
                 PROVE  outbox'[m].state = "applied" \/ InBatch(q, m)'
      BY DEF BatchesAreOrdered
    <2>1. CASE q = p
      BY <1>5, <1>10, <1>11, <1>15, <2>1
    <2>2. CASE q # p
      <3>1. b \in batch[q]
        BY <1>7, <2>2
      <3>2. b.sequence \notin C
        BY <1>4, <1>12, <3>1 DEF ClaimHeld
      <3>3. ClaimHeld(q, b)
        BY <1>5, <1>12, <3>1, <3>2 DEF ClaimHeld
      <3>4. outbox[m].state = "applied" \/ InBatch(q, m)
        BY <3>1, <3>3 DEF ProjectionInv, BatchesAreOrdered
      <3>5. m \in DOMAIN outbox
        BY <1>12, <3>1, OutboxType
      <3>6. outbox[m].state = "applied" => outbox'[m].state = "applied"
        BY <1>2, <1>5, <3>5
      <3>7. InBatch(q, m) => InBatch(q, m)'
        BY <1>7, <2>2 DEF InBatch
      <3> QED
        BY <3>4, <3>6, <3>7
    <2> QED
      BY <2>1, <2>2
  <1>17. /\ EntriesAreEvents' /\ StreamsArePast' /\ WakeupsAscend'
         /\ \A n \in DOMAIN outbox : Cached(n)' <=> Cached(n)
    BY <1>1, <1>8, CacheStays DEF SameEvents
  <1>18. NothingIsMissed'
    <2> SUFFICES ASSUME flushes = 0
                 PROVE  /\ \A n \in DOMAIN outbox' : outbox'[n].state = "applied" => Cached(n)'
                        /\ \A q \in Projector : \A b \in batch'[q] :
                              \A m \in 1..(b.sequence - 1) : Cached(m)' \/ InBatch(q, m)'
                        /\ \A q \in Projector : applied'[q] /\ batch'[q] # {}
                                                  => Cached(First(q).sequence)'
      BY <1>1 DEF NothingIsMissed
    <2>1. \A n \in DOMAIN outbox' : outbox'[n].state = "applied" => Cached(n)'
      BY <1>4, <1>5, <1>6, <1>17 DEF ProjectionInv, NothingIsMissed
    <2>2. \A q \in Projector : \A b \in batch'[q] :
             \A m \in 1..(b.sequence - 1) : Cached(m)' \/ InBatch(q, m)'
      <3> TAKE q \in Projector
      <3> TAKE b \in batch'[q]
      <3> TAKE m \in 1..(b.sequence - 1)
      <3>1. CASE q = p
        <4>1. m \in DOMAIN outbox /\ (outbox[m].state = "applied" \/ m \in C)
          BY <1>10, <1>15, <3>1
        <4>2. outbox[m].state = "applied" => Cached(m)
          BY <4>1 DEF ProjectionInv, NothingIsMissed
        <4> QED
          BY <1>11, <1>17, <3>1, <4>1, <4>2
      <3>2. CASE q # p
        <4>1. b \in batch[q]
          BY <1>7, <3>2
        <4>2. m \in DOMAIN outbox
          BY <1>12, <4>1, OutboxType
        <4>3. Cached(m) \/ InBatch(q, m)
          BY <4>1 DEF ProjectionInv, NothingIsMissed
        <4>4. InBatch(q, m) => InBatch(q, m)'
          BY <1>7, <3>2 DEF InBatch
        <4> QED
          BY <1>17, <4>2, <4>3, <4>4
      <3> QED
        BY <3>1, <3>2
    <2>3. \A q \in Projector : applied'[q] /\ batch'[q] # {} => Cached(First(q).sequence)'
      <3> TAKE q \in Projector
      <3> HAVE applied'[q] /\ batch'[q] # {}
      <3>1. q # p
        BY <1>7
      <3>2. batch'[q] = batch[q] /\ applied[q] /\ batch[q] # {}
        BY <1>7, <3>1
      <3>3. PICK n \in DOMAIN outbox : n = First(q).sequence
        BY <1>12, <3>2, FirstFacts
      <3>4. Cached(n)'
        BY <1>17, <3>2, <3>3 DEF ProjectionInv, NothingIsMissed
      <3>5. First(q)' = First(q)
        BY <3>2, FirstStays
      <3> QED
        BY <3>3, <3>4, <3>5
    <2> QED
      BY <2>1, <2>2, <2>3
  <1> QED
    BY <1>8, <1>9, <1>13, <1>14, <1>16, <1>17, <1>18 DEF ProjectionInv

\* A key of the cache is a tagged worker or call.
LEMMA KeyFacts ==
    /\ \A w \in Worker : /\ WakeKey(w) \in Key /\ WorkerKey(w) \in Key
                         /\ WakeKey(w)[1] = "wake" /\ WakeKey(w)[2] = w
                         /\ WorkerKey(w)[1] = "worker" /\ WorkerKey(w)[2] = w
    /\ \A c \in Call : RouteKey(c) \in Key /\ RouteKey(c)[1] = "route" /\ RouteKey(c)[2] = c
    /\ \A k \in Key : k[1] = "wake" => k[2] \in Worker /\ k = WakeKey(k[2])
    /\ \A k \in Key : k[1] = "worker" => k[2] \in Worker /\ k = WorkerKey(k[2])
  BY DEF Key, WakeKey, WorkerKey, RouteKey

\* An event is applied when it is newer than what the cache has of its key; it
\* is accepted without a write when the cache already has it or a later one.
LEMMA OutcomeFacts ==
    ASSUME ProjectionType, NEW n \in DOMAIN outbox
    PROVE  /\ Outcome(n) = "applied" => cache[outbox[n].key].sequence < n
           /\ Outcome(n) \in {"duplicate", "stale"} => n <= cache[outbox[n].key].sequence
  <1>1. n \in Nat /\ outbox[n].key \in Key
    BY OutboxType
  <1>2. cache[outbox[n].key].sequence \in Nat
    BY <1>1, CacheType
  <1>3. CASE n < cache[outbox[n].key].sequence
    BY <1>1, <1>2, <1>3 DEF Outcome
  <1>4. CASE n = cache[outbox[n].key].sequence
    BY <1>1, <1>2, <1>4 DEF Outcome
  <1>5. CASE cache[outbox[n].key].sequence < n
    <2>1. ~(n < cache[outbox[n].key].sequence) /\ n # cache[outbox[n].key].sequence
      BY <1>1, <1>2, <1>5
    <2> QED
      BY <1>5, <2>1 DEF Outcome
  <1> QED
    BY <1>1, <1>2, <1>3, <1>4, <1>5

\* One write of the cache: entries stay events of their keys, wakeups come out
\* in order, and nothing that was cached is lost.
LEMMA CacheMoves ==
    ASSUME ProjectionType, ProjectionInv, NEW n \in DOMAIN outbox, ApplyEvent(n),
           outbox' = outbox
    PROVE  /\ cache' \in [Key -> Entry \cup {NoEntry}] /\ stream' \in [Worker -> Seq(Nat)]
           /\ EntriesAreEvents' /\ StreamsArePast' /\ WakeupsAscend'
           /\ \A m \in DOMAIN outbox : Cached(m) => Cached(m)'
           /\ Outcome(n) \in Accepted => Cached(n)'
  <1>1. CASE Outcome(n) # "applied"
    <2>1. cache' = cache /\ stream' = stream
      BY <1>1 DEF ApplyEvent, projection
    <2>2. /\ EntriesAreEvents' /\ StreamsArePast' /\ WakeupsAscend'
          /\ \A m \in DOMAIN outbox : Cached(m)' <=> Cached(m)
      BY <2>1, CacheStays
    <2>3. Outcome(n) \in Accepted => Cached(n)
      BY <1>1, OutcomeFacts DEF Accepted, Cached
    <2> QED
      BY <2>1, <2>2, <2>3 DEF ProjectionType
  <1>2. CASE Outcome(n) = "applied"
    <2>1. PICK k \in Key : k = outbox[n].key
      BY OutboxType
    <2>2. cache' = [cache EXCEPT ![k] = [sequence |-> n, value |-> outbox[n].value]]
      BY <1>2, <2>1 DEF ApplyEvent
    <2>3. cache[k].sequence < n /\ cache[k].sequence \in Nat /\ n \in Nat /\ n > 0
      BY <1>2, <2>1, OutcomeFacts, CacheType, OutboxType
    <2>4. outbox[n].value \in WorkerRow \cup Assignment \cup {Work}
      BY OutboxType DEF Record
    <2>5. [sequence |-> n, value |-> outbox[n].value] \in Entry
      BY <2>3, <2>4 DEF Entry
    <2>6. cache' \in [Key -> Entry \cup {NoEntry}]
      BY <2>2, <2>5 DEF ProjectionType
    <2>7. /\ cache'[k].sequence = n /\ cache'[k].value = outbox[n].value
          /\ \A j \in Key : j # k => cache'[j] = cache[j]
      BY <2>2 DEF ProjectionType
    <2>8. EntriesAreEvents'
      BY <2>1, <2>7 DEF ProjectionInv, EntriesAreEvents
    <2>9. \A m \in DOMAIN outbox : Cached(m) => Cached(m)'
      <3> TAKE m \in DOMAIN outbox
      <3>1. m \in Nat /\ outbox[m].key \in Key
        BY OutboxType
      <3>2. CASE outbox[m].key = k
        BY <2>3, <2>7, <3>1, <3>2 DEF Cached
      <3>3. CASE outbox[m].key # k
        BY <2>7, <3>1, <3>3 DEF Cached
      <3> QED
        BY <3>2, <3>3
    <2>10. Cached(n)'
      BY <2>1, <2>3, <2>7 DEF Cached
    <2>11. CASE k[1] # "wake"
      <3>1. stream' = stream
        BY <1>2, <2>1, <2>11 DEF ApplyEvent
      <3>2. \A w \in Worker : cache'[WakeKey(w)] = cache[WakeKey(w)]
        BY <2>7, <2>11, KeyFacts
      <3>3. StreamsArePast' /\ WakeupsAscend'
        BY <3>1, <3>2 DEF ProjectionInv, StreamsArePast, WakeupsAscend, WakeKey
      <3> QED
        BY <2>6, <2>8, <2>9, <2>10, <3>1, <3>3 DEF ProjectionType
    <2>12. CASE k[1] = "wake"
      <3>1. PICK v \in Worker : v = k[2] /\ k = WakeKey(v)
        BY <2>12, KeyFacts
      <3>2. stream' = [stream EXCEPT ![v] = @ \o <<n>>]
        BY <1>2, <2>1, <2>12, <3>1 DEF ApplyEvent
      <3>3. stream[v] \in Seq(Nat) /\ \A w \in Worker : stream[w] \in Seq(Nat)
        BY DEF ProjectionType
      <3>4. stream'[v] = stream[v] \o <<n>> /\ \A w \in Worker : w # v => stream'[w] = stream[w]
        BY <3>2 DEF ProjectionType
      <3>5. stream[v] \o <<n>> \in Seq(Nat)
        BY <2>3, <3>3
      <3>6. stream' \in [Worker -> Seq(Nat)]
        BY <3>2, <3>5 DEF ProjectionType
      <3>7. /\ DOMAIN stream'[v] = 1..(Len(stream[v]) + 1) /\ Len(stream[v]) \in Nat
            /\ \A i \in 1..Len(stream[v]) : stream'[v][i] = stream[v][i] /\ stream[v][i] \in Nat
            /\ stream'[v][Len(stream[v]) + 1] = n
        BY <2>3, <3>3, <3>4
      <3>8. \A i \in 1..Len(stream[v]) : stream[v][i] <= cache[k].sequence /\ i \in DOMAIN stream[v]
        BY <3>1, <3>3 DEF ProjectionInv, StreamsArePast
      <3>9. \A i \in 1..Len(stream[v]) : stream'[v][i] < n
        <4> TAKE i \in 1..Len(stream[v])
        <4>1. stream'[v][i] = stream[v][i] /\ stream[v][i] \in Nat
          BY <3>7
        <4>2. stream[v][i] <= cache[k].sequence
          BY <3>8
        <4> QED
          BY <2>3, <4>1, <4>2
      <3>10. \A w \in Worker : w # v => cache'[WakeKey(w)] = cache[WakeKey(w)]
        BY <2>7, <3>1, KeyFacts
      <3>11. StreamsArePast'
        <4> SUFFICES ASSUME NEW w \in Worker, NEW i \in DOMAIN stream'[w]
                     PROVE  stream'[w][i] <= cache'[WakeKey(w)].sequence
          BY DEF StreamsArePast, WakeKey
        <4>1. CASE w = v
          <5>1. i \in 1..Len(stream[v]) \/ i = Len(stream[v]) + 1
            BY <3>7, <4>1
          <5>2. stream'[v][i] <= n
            BY <2>3, <3>7, <3>9, <5>1
          <5> QED
            BY <2>7, <3>1, <4>1, <5>2
        <4>2. CASE w # v
          BY <3>4, <3>10, <4>2 DEF ProjectionInv, StreamsArePast
        <4> QED
          BY <4>1, <4>2
      <3>12. WakeupsAscend'
        <4> SUFFICES ASSUME NEW w \in Worker, NEW i \in DOMAIN stream'[w],
                            NEW j \in DOMAIN stream'[w], i < j
                     PROVE  stream'[w][i] < stream'[w][j]
          BY DEF WakeupsAscend
        <4>1. CASE w = v
          <5>1. i \in 1..Len(stream[v])
            BY <3>7, <4>1
          <5>2. CASE j = Len(stream[v]) + 1
            BY <3>7, <3>9, <4>1, <5>1, <5>2
          <5>3. CASE j # Len(stream[v]) + 1
            <6>1. j \in 1..Len(stream[v])
              BY <3>7, <4>1, <5>3
            <6>2. stream[v][i] < stream[v][j]
              BY <3>8, <5>1, <6>1 DEF ProjectionInv, WakeupsAscend
            <6> QED
              BY <3>7, <4>1, <5>1, <6>1, <6>2
          <5> QED
            BY <5>2, <5>3
        <4>2. CASE w # v
          BY <3>4, <4>2 DEF ProjectionInv, WakeupsAscend
        <4> QED
          BY <4>1, <4>2
      <3> QED
        BY <2>6, <2>8, <2>9, <2>10, <3>6, <3>11, <3>12
    <2> QED
      BY <2>11, <2>12
  <1> QED
    BY <1>1, <1>2

\* A projector that gives up its batch loses nothing: the rows are still there.
LEMMA BatchDropped ==
    ASSUME ProjectionType, ProjectionInv, NEW p \in Projector,
           outbox' = outbox, cache' = cache, stream' = stream, flushes' = flushes,
           batch' = [batch EXCEPT ![p] = {}], applied' \in [Projector -> BOOLEAN],
           \A q \in Projector : q # p => applied'[q] = applied[q],
           faults' \in 0..MaxFaults
    PROVE  ProjectionType' /\ ProjectionInv'
  <1>1. batch'[p] = {} /\ \A q \in Projector : q # p => batch'[q] = batch[q]
    BY DEF ProjectionType
  <1>2. ProjectionType'
    BY DEF ProjectionType
  <1>3. AcknowledgedInOrder' /\ BatchesAreClaims'
    BY <1>1 DEF ProjectionInv, AcknowledgedInOrder, BatchesAreClaims
  <1>4. BatchesAreOrdered'
    <2> SUFFICES ASSUME NEW q \in Projector, NEW b \in batch'[q], ClaimHeld(q, b)',
                        NEW m \in 1..(b.sequence - 1)
                 PROVE  outbox'[m].state = "applied" \/ InBatch(q, m)'
      BY DEF BatchesAreOrdered
    <2>1. q # p /\ batch'[q] = batch[q] /\ b \in batch[q]
      BY <1>1
    <2>2. ClaimHeld(q, b)
      BY DEF ClaimHeld
    <2>3. outbox[m].state = "applied" \/ InBatch(q, m)
      BY <2>1, <2>2 DEF ProjectionInv, BatchesAreOrdered
    <2> QED
      BY <2>1, <2>3 DEF InBatch
  <1>5. /\ EntriesAreEvents' /\ StreamsArePast' /\ WakeupsAscend'
        /\ \A n \in DOMAIN outbox : Cached(n)' <=> Cached(n)
    BY CacheStays
  <1>6. NothingIsMissed'
    <2> SUFFICES ASSUME flushes = 0
                 PROVE  /\ \A n \in DOMAIN outbox' : outbox'[n].state = "applied" => Cached(n)'
                        /\ \A q \in Projector : \A b \in batch'[q] :
                              \A m \in 1..(b.sequence - 1) : Cached(m)' \/ InBatch(q, m)'
                        /\ \A q \in Projector : applied'[q] /\ batch'[q] # {}
                                                  => Cached(First(q).sequence)'
      BY DEF NothingIsMissed
    <2>1. \A n \in DOMAIN outbox' : outbox'[n].state = "applied" => Cached(n)'
      BY <1>5 DEF ProjectionInv, NothingIsMissed
    <2>2. \A q \in Projector : \A b \in batch'[q] :
             \A m \in 1..(b.sequence - 1) : Cached(m)' \/ InBatch(q, m)'
      <3> TAKE q \in Projector
      <3> TAKE b \in batch'[q]
      <3> TAKE m \in 1..(b.sequence - 1)
      <3>1. q # p /\ batch'[q] = batch[q] /\ b \in batch[q]
        BY <1>1
      <3>2. Cached(m) \/ InBatch(q, m)
        BY <3>1 DEF ProjectionInv, NothingIsMissed
      <3>3. m \in DOMAIN outbox
        BY <3>1, OutboxType DEF ProjectionInv, BatchesAreClaims
      <3> QED
        BY <1>5, <3>1, <3>2, <3>3 DEF InBatch
    <2>3. \A q \in Projector : applied'[q] /\ batch'[q] # {} => Cached(First(q).sequence)'
      <3> TAKE q \in Projector
      <3> HAVE applied'[q] /\ batch'[q] # {}
      <3>1. q # p
        BY <1>1
      <3>2. batch'[q] = batch[q] /\ applied[q] /\ batch[q] # {}
        BY <1>1, <3>1
      <3>3. PICK n \in DOMAIN outbox : n = First(q).sequence
        BY <3>2, FirstFacts DEF ProjectionInv, BatchesAreClaims
      <3>4. Cached(n)'
        BY <1>5, <3>2, <3>3 DEF ProjectionInv, NothingIsMissed
      <3>5. First(q)' = First(q)
        BY <3>2, FirstStays
      <3> QED
        BY <3>3, <3>4, <3>5
    <2> QED
      BY <2>1, <2>2, <2>3
  <1> QED
    BY <1>2, <1>3, <1>4, <1>5, <1>6 DEF ProjectionInv

\* A projector writes the first event of its batch to the cache.
LEMMA ApplyProjection ==
    ASSUME ProjectionType, ProjectionInv, NEW p \in Projector, Apply(p)
    PROVE  ProjectionType' /\ ProjectionInv' /\ SameEvents
  <1>1. /\ outbox' = outbox /\ faults' = faults /\ flushes' = flushes /\ batch[p] # {}
        /\ ApplyEvent(First(p).sequence)
        /\ IF Outcome(First(p).sequence) \in Accepted
             THEN applied' = [applied EXCEPT ![p] = TRUE] /\ batch' = batch
             ELSE batch' = [batch EXCEPT ![p] = {}] /\ applied' = applied
    BY DEF Apply
  <1>2. SameEvents
    BY <1>1 DEF SameEvents
  <1>3. PICK n \in DOMAIN outbox : n = First(p).sequence
    BY <1>1, FirstFacts DEF ProjectionInv, BatchesAreClaims
  <1>4. CASE Outcome(n) \notin Accepted
    <2>1. cache' = cache /\ stream' = stream
      BY <1>1, <1>3, <1>4 DEF ApplyEvent, projection, Accepted
    <2>2. batch' = [batch EXCEPT ![p] = {}] /\ applied' = applied
      BY <1>1, <1>3, <1>4
    <2>3. ProjectionType' /\ ProjectionInv'
      BY <1>1, <2>1, <2>2, BatchDropped DEF ProjectionType
    <2> QED
      BY <1>2, <2>3
  <1>5. CASE Outcome(n) \in Accepted
    <2>1. applied' = [applied EXCEPT ![p] = TRUE] /\ batch' = batch
      BY <1>1, <1>3, <1>5
    <2>2. /\ cache' \in [Key -> Entry \cup {NoEntry}] /\ stream' \in [Worker -> Seq(Nat)]
          /\ EntriesAreEvents' /\ StreamsArePast' /\ WakeupsAscend'
          /\ \A m \in DOMAIN outbox : Cached(m) => Cached(m)'
          /\ Cached(n)'
      BY <1>1, <1>3, <1>5, CacheMoves
    <2>3. ProjectionType'
      BY <1>1, <2>1, <2>2 DEF ProjectionType
    <2>4. AcknowledgedInOrder' /\ BatchesAreClaims' /\ BatchesAreOrdered'
      BY <1>1, <2>1 DEF ProjectionInv, AcknowledgedInOrder, BatchesAreClaims, BatchesAreOrdered,
                        ClaimHeld, InBatch
    <2>5. NothingIsMissed'
      <3> SUFFICES ASSUME flushes = 0
                   PROVE  /\ \A m \in DOMAIN outbox : outbox[m].state = "applied" => Cached(m)'
                          /\ \A q \in Projector : \A b \in batch[q] :
                                \A m \in 1..(b.sequence - 1) : Cached(m)' \/ InBatch(q, m)
                          /\ \A q \in Projector : applied'[q] /\ batch[q] # {}
                                                    => Cached(First(q).sequence)'
        BY <1>1, <2>1 DEF NothingIsMissed, InBatch
      <3>1. \A m \in DOMAIN outbox : outbox[m].state = "applied" => Cached(m)'
        BY <2>2 DEF ProjectionInv, NothingIsMissed
      <3>2. \A q \in Projector : \A b \in batch[q] :
               \A m \in 1..(b.sequence - 1) : Cached(m)' \/ InBatch(q, m)
        <4> TAKE q \in Projector
        <4> TAKE b \in batch[q]
        <4> TAKE m \in 1..(b.sequence - 1)
        <4>1. m \in DOMAIN outbox
          BY OutboxType DEF ProjectionInv, BatchesAreClaims
        <4>2. Cached(m) \/ InBatch(q, m)
          BY DEF ProjectionInv, NothingIsMissed
        <4> QED
          BY <2>2, <4>1, <4>2
      <3>3. \A q \in Projector : applied'[q] /\ batch[q] # {} => Cached(First(q).sequence)'
        <4> TAKE q \in Projector
        <4> HAVE applied'[q] /\ batch[q] # {}
        <4>1. First(q)' = First(q)
          BY <2>1, FirstStays
        <4>2. CASE q = p
          BY <1>3, <2>2, <4>1, <4>2
        <4>3. CASE q # p
          <5>1. applied[q]
            BY <2>1, <4>3 DEF ProjectionType
          <5>2. PICK m \in DOMAIN outbox : m = First(q).sequence
            BY FirstFacts DEF ProjectionInv, BatchesAreClaims
          <5>3. Cached(m)'
            BY <2>2, <5>1, <5>2 DEF ProjectionInv, NothingIsMissed
          <5> QED
            BY <4>1, <5>2, <5>3
        <4> QED
          BY <4>2, <4>3
      <3> QED
        BY <3>1, <3>2, <3>3
    <2> QED
      BY <1>2, <2>2, <2>3, <2>4, <2>5 DEF ProjectionInv
  <1> QED
    BY <1>4, <1>5

\* A projector that fails drops its batch.
LEMMA ProjectorFailsProjection ==
    ASSUME ProjectionType, ProjectionInv, NEW p \in Projector, ProjectorFails(p)
    PROVE  ProjectionType' /\ ProjectionInv' /\ SameEvents
  <1>1. /\ outbox' = outbox /\ cache' = cache /\ stream' = stream /\ flushes' = flushes
        /\ batch' = [batch EXCEPT ![p] = {}] /\ applied' = [applied EXCEPT ![p] = FALSE]
    BY DEF ProjectorFails, projection
  <1>2. faults' \in 0..MaxFaults
    BY CoordinationAssumption DEF ProjectorFails, ProjectionType
  <1>3. applied' \in [Projector -> BOOLEAN] /\ \A q \in Projector : q # p => applied'[q] = applied[q]
    BY <1>1 DEF ProjectionType
  <1>4. SameEvents
    BY <1>1 DEF SameEvents
  <1> QED
    BY <1>1, <1>2, <1>3, <1>4, BatchDropped

\* The cache loses everything: what is left of the invariant needs none of it.
LEMMA FlushProjection ==
    ASSUME ProjectionType, ProjectionInv, Flush
    PROVE  ProjectionType' /\ ProjectionInv' /\ SameEvents
  <1>1. /\ outbox' = outbox /\ batch' = batch /\ applied' = applied /\ faults' = faults
        /\ flushes' = flushes + 1 /\ flushes < MaxFlushes
        /\ cache' = [k \in Key |-> NoEntry] /\ stream' = [w \in Worker |-> <<>>]
    BY DEF Flush, projecting
  <1>2. flushes' \in 0..MaxFlushes /\ flushes' # 0
    BY <1>1, CoordinationAssumption DEF ProjectionType
  <1>3. cache' \in [Key -> Entry \cup {NoEntry}] /\ stream' \in [Worker -> Seq(Nat)]
    BY <1>1
  <1>4. ProjectionType'
    BY <1>1, <1>2, <1>3 DEF ProjectionType
  <1>5. AcknowledgedInOrder' /\ BatchesAreClaims' /\ BatchesAreOrdered'
    BY <1>1 DEF ProjectionInv, AcknowledgedInOrder, BatchesAreClaims, BatchesAreOrdered,
                ClaimHeld, InBatch
  <1>6. EntriesAreEvents'
    BY <1>1 DEF EntriesAreEvents
  <1>7. StreamsArePast' /\ WakeupsAscend'
    <2>1. \A w \in Worker : DOMAIN stream'[w] = {}
      BY <1>1
    <2> QED
      BY <2>1 DEF StreamsArePast, WakeupsAscend
  <1>8. NothingIsMissed'
    BY <1>2 DEF NothingIsMissed
  <1>9. SameEvents
    BY <1>1 DEF SameEvents
  <1> QED
    BY <1>4, <1>5, <1>6, <1>7, <1>8, <1>9 DEF ProjectionInv

\* Claims run out, under work or not.
LEMMA LapseProjection ==
    ASSUME ProjectionType, ProjectionInv, LapseClaims, batch' = batch, applied' = applied,
           cache' = cache, stream' = stream, flushes' = flushes, faults' \in 0..MaxFaults
    PROVE  ProjectionType' /\ ProjectionInv' /\ SameEvents
  <1>1. /\ DOMAIN outbox' = DOMAIN outbox
        /\ \A n \in DOMAIN outbox :
              \/ outbox'[n] = outbox[n]
              \/ outbox'[n] = [outbox[n] EXCEPT !.live = FALSE]
    BY DEF LapseClaims
  <1>2. \A n \in DOMAIN outbox :
           /\ outbox'[n] \in Record /\ outbox'[n].key = outbox[n].key
           /\ outbox'[n].value = outbox[n].value /\ outbox'[n].recorded = outbox[n].recorded
           /\ outbox'[n].state = outbox[n].state /\ outbox'[n].generation = outbox[n].generation
           /\ outbox'[n].projector = outbox[n].projector
           /\ outbox'[n].live => outbox[n].live
    <2> TAKE n \in DOMAIN outbox
    <2>1. outbox[n] \in Record
      BY OutboxType
    <2>2. CASE outbox'[n] = outbox[n]
      BY <2>1, <2>2
    <2>3. CASE outbox'[n] = [outbox[n] EXCEPT !.live = FALSE]
      BY <2>1, <2>3 DEF Record
    <2> QED
      BY <1>1, <2>2, <2>3
  <1>3. SameEvents
    BY <1>1, <1>2 DEF SameEvents
  <1>4. outbox' \in Seq(Record)
    <2>1. DOMAIN outbox' = 1..Len(outbox) /\ Len(outbox) \in Nat
      BY <1>1, OutboxType
    <2>2. outbox' = [n \in 1..Len(outbox) |-> outbox'[n]]
      BY <2>1 DEF LapseClaims
    <2>3. outbox' \in [1..Len(outbox) -> Record]
      BY <1>1, <1>2, <2>1, <2>2
    <2> QED
      BY <2>1, <2>3, SeqDef
  <1>5. ProjectionType'
    BY <1>4 DEF ProjectionType
  <1>6. \A n \in DOMAIN outbox : \A m \in 1..n : m \in DOMAIN outbox
    BY OutboxType
  <1>7. AcknowledgedInOrder'
    BY <1>1, <1>2, <1>6 DEF ProjectionInv, AcknowledgedInOrder
  <1>8. BatchesAreClaims'
    BY <1>1, <1>2 DEF ProjectionInv, BatchesAreClaims
  <1>9. \A p \in Projector : \A b \in batch[p] :
           b.sequence \in DOMAIN outbox /\ \A m \in 1..(b.sequence - 1) : m \in DOMAIN outbox
    BY OutboxType DEF ProjectionInv, BatchesAreClaims
  <1>10. \A p \in Projector : \A b \in batch[p] : ClaimHeld(p, b)' => ClaimHeld(p, b)
    BY <1>2, <1>9 DEF ClaimHeld
  <1>11. BatchesAreOrdered'
    BY <1>2, <1>9, <1>10 DEF ProjectionInv, BatchesAreOrdered, InBatch
  <1>12. /\ EntriesAreEvents' /\ StreamsArePast' /\ WakeupsAscend'
         /\ \A n \in DOMAIN outbox : Cached(n)' <=> Cached(n)
    BY <1>1, <1>2, CacheStays
  <1>13. NothingIsMissed'
    <2> SUFFICES ASSUME flushes = 0
                 PROVE  /\ \A n \in DOMAIN outbox : outbox'[n].state = "applied" => Cached(n)'
                        /\ \A p \in Projector : \A b \in batch[p] :
                              \A m \in 1..(b.sequence - 1) : Cached(m)' \/ InBatch(p, m)
                        /\ \A p \in Projector : applied[p] /\ batch[p] # {} => Cached(First(p).sequence)'
      BY <1>1 DEF NothingIsMissed, InBatch
    <2>1. \A n \in DOMAIN outbox : outbox'[n].state = "applied" => Cached(n)'
      BY <1>2, <1>12 DEF ProjectionInv, NothingIsMissed
    <2>2. \A p \in Projector : \A b \in batch[p] :
             \A m \in 1..(b.sequence - 1) : Cached(m)' \/ InBatch(p, m)
      BY <1>9, <1>12 DEF ProjectionInv, NothingIsMissed
    <2>3. \A p \in Projector : applied[p] /\ batch[p] # {} => Cached(First(p).sequence)'
      <3> TAKE p \in Projector
      <3> HAVE applied[p] /\ batch[p] # {}
      <3>1. PICK n \in DOMAIN outbox : n = First(p).sequence
        BY <1>9, FirstFacts
      <3>2. Cached(n)
        BY <3>1 DEF ProjectionInv, NothingIsMissed
      <3>3. Cached(n)'
        BY <1>12, <3>2
      <3>4. First(p)' = First(p)
        BY FirstStays
      <3> QED
        BY <3>1, <3>3, <3>4
    <2> QED
      BY <2>1, <2>2, <2>3
  <1> QED
    BY <1>3, <1>5, <1>7, <1>8, <1>11, <1>12, <1>13 DEF ProjectionInv

\* An acknowledgement under a held claim: everything before the row is applied.
LEMMA AcknowledgeProjection ==
    ASSUME ProjectionType, ProjectionInv, NEW p \in Projector, Acknowledge(p)
    PROVE  ProjectionType' /\ ProjectionInv' /\ SameEvents
  <1>1. /\ cache' = cache /\ stream' = stream /\ faults' = faults /\ flushes' = flushes
        /\ batch[p] # {} /\ applied[p] /\ applied' = [applied EXCEPT ![p] = FALSE]
        /\ IF ClaimHeld(p, First(p))
             THEN /\ outbox' = [outbox EXCEPT ![First(p).sequence].state = "applied"]
                  /\ batch' = [batch EXCEPT ![p] = @ \ {First(p)}]
             ELSE /\ batch' = [batch EXCEPT ![p] = {}] /\ outbox' = outbox
    BY DEF Acknowledge, projection
  <1>2. /\ applied' \in [Projector -> BOOLEAN]
        /\ \A q \in Projector : q # p => applied'[q] = applied[q]
        /\ applied'[p] = FALSE
    BY <1>1 DEF ProjectionType
  <1>3. CASE ~ClaimHeld(p, First(p))
    <2>1. batch' = [batch EXCEPT ![p] = {}] /\ outbox' = outbox
      BY <1>1, <1>3
    <2>2. faults' \in 0..MaxFaults
      BY <1>1 DEF ProjectionType
    <2>3. SameEvents
      BY <2>1 DEF SameEvents
    <2> QED
      BY <1>1, <1>2, <2>1, <2>2, <2>3, BatchDropped
  <1>4. CASE ClaimHeld(p, First(p))
    <2>1. PICK f \in batch[p] : f = First(p) /\ f.sequence \in DOMAIN outbox /\ f.sequence \in Nat
                                /\ \A b \in batch[p] : f.sequence <= b.sequence
      BY <1>1, FirstFacts DEF ProjectionInv, BatchesAreClaims
    <2>2. PICK n \in DOMAIN outbox : n = f.sequence /\ n \in Nat
      BY <2>1
    <2>3. /\ outbox' = [outbox EXCEPT ![n].state = "applied"]
          /\ batch' = [batch EXCEPT ![p] = @ \ {f}]
      BY <1>1, <1>4, <2>1, <2>2
    <2>4. /\ batch'[p] = batch[p] \ {f}
          /\ \A q \in Projector : q # p => batch'[q] = batch[q]
          /\ \A q \in Projector : batch'[q] \subseteq batch[q]
      BY <2>3 DEF ProjectionType
    <2>5. /\ DOMAIN outbox' = DOMAIN outbox
          /\ \A m \in DOMAIN outbox : m # n => outbox'[m] = outbox[m]
          /\ outbox'[n] = [outbox[n] EXCEPT !.state = "applied"]
      BY <2>3
    <2>6. /\ outbox'[n] \in Record /\ outbox'[n].state = "applied"
          /\ outbox'[n].key = outbox[n].key /\ outbox'[n].value = outbox[n].value
          /\ outbox'[n].recorded = outbox[n].recorded
          /\ outbox'[n].generation = outbox[n].generation
      <3>1. outbox[n] \in Record
        BY OutboxType
      <3> QED
        BY <2>5, <3>1 DEF Record
    <2>7. SameEvents
      BY <2>5, <2>6 DEF SameEvents
    <2>8. ProjectionType'
      <3>1. outbox' \in Seq(Record)
        <4>1. DOMAIN outbox' = 1..Len(outbox) /\ Len(outbox) \in Nat
          BY <2>5, OutboxType
        <4>2. outbox' = [m \in 1..Len(outbox) |-> outbox'[m]]
          BY <2>3, <4>1, OutboxType
        <4>3. \A m \in 1..Len(outbox) : outbox'[m] \in Record
          BY <2>5, <2>6, <4>1, OutboxType
        <4>4. outbox' \in [1..Len(outbox) -> Record]
          BY <4>2, <4>3
        <4> QED
          BY <4>1, <4>4, SeqDef
      <3>2. batch' \in [Projector -> SUBSET [sequence : Nat, generation : Nat]]
        BY <2>3, <2>4 DEF ProjectionType
      <3> QED
        BY <1>1, <1>2, <3>1, <3>2 DEF ProjectionType
    <2>9. \A m \in DOMAIN outbox : outbox[m].state = "applied" => outbox'[m].state = "applied"
      BY <2>5, <2>6
    <2>10. \A q \in Projector : \A b \in batch[q] :
              /\ b.sequence \in DOMAIN outbox /\ b.sequence \in Nat
              /\ \A m \in 1..(b.sequence - 1) : m \in DOMAIN outbox /\ m \in Nat
      BY OutboxType DEF ProjectionInv, BatchesAreClaims
    <2>11. \A m \in 1..(n - 1) : outbox[m].state = "applied"
      <3> TAKE m \in 1..(n - 1)
      <3>1. ~InBatch(p, m)
        BY <2>1, <2>2 DEF InBatch
      <3> QED
        BY <1>4, <2>1, <2>2, <3>1 DEF ProjectionInv, BatchesAreOrdered
    <2>12. AcknowledgedInOrder'
      <3> SUFFICES ASSUME NEW l \in DOMAIN outbox, outbox'[l].state = "applied", NEW m \in 1..l
                   PROVE  outbox'[m].state = "applied"
        BY <2>5 DEF AcknowledgedInOrder
      <3>1. l \in Nat /\ m \in Nat /\ m \in DOMAIN outbox
        BY OutboxType
      <3>2. CASE l = n
        <4>1. m = n \/ m \in 1..(n - 1)
          BY <2>2, <3>1, <3>2
        <4> QED
          BY <2>6, <2>9, <2>11, <3>1, <4>1
      <3>3. CASE l # n
        BY <2>5, <2>9, <3>1, <3>3 DEF ProjectionInv, AcknowledgedInOrder
      <3> QED
        BY <3>2, <3>3
    <2>13. BatchesAreClaims'
      <3>1. \A m \in DOMAIN outbox : outbox'[m].generation = outbox[m].generation
        BY <2>5, <2>6
      <3> QED
        BY <2>4, <2>5, <2>10, <3>1 DEF ProjectionInv, BatchesAreClaims
    <2>14. \A q \in Projector : \A m : InBatch(q, m) => InBatch(q, m)' \/ m = n
      BY <2>2, <2>4 DEF InBatch
    <2>15. BatchesAreOrdered'
      <3> SUFFICES ASSUME NEW q \in Projector, NEW b \in batch'[q], ClaimHeld(q, b)',
                          NEW m \in 1..(b.sequence - 1)
                   PROVE  outbox'[m].state = "applied" \/ InBatch(q, m)'
        BY DEF BatchesAreOrdered
      <3>1. b \in batch[q] /\ b.sequence \in DOMAIN outbox /\ m \in DOMAIN outbox
        BY <2>4, <2>10
      <3>2. b.sequence # n
        BY <2>6 DEF ClaimHeld
      <3>3. ClaimHeld(q, b)
        BY <2>5, <3>1, <3>2 DEF ClaimHeld
      <3>4. outbox[m].state = "applied" \/ InBatch(q, m)
        BY <3>1, <3>3 DEF ProjectionInv, BatchesAreOrdered
      <3> QED
        BY <2>6, <2>9, <2>14, <3>1, <3>4
    <2>16. /\ EntriesAreEvents' /\ StreamsArePast' /\ WakeupsAscend'
           /\ \A m \in DOMAIN outbox : Cached(m)' <=> Cached(m)
      BY <1>1, <2>7, CacheStays DEF SameEvents
    <2>17. NothingIsMissed'
      <3> SUFFICES ASSUME flushes = 0
                   PROVE  /\ \A m \in DOMAIN outbox : outbox'[m].state = "applied" => Cached(m)'
                          /\ \A q \in Projector : \A b \in batch'[q] :
                                \A m \in 1..(b.sequence - 1) : Cached(m)' \/ InBatch(q, m)'
                          /\ \A q \in Projector : applied'[q] /\ batch'[q] # {}
                                                    => Cached(First(q).sequence)'
        BY <1>1, <2>5 DEF NothingIsMissed
      <3>1. Cached(n)
        BY <1>1, <2>1, <2>2 DEF ProjectionInv, NothingIsMissed
      <3>2. \A m \in DOMAIN outbox : outbox'[m].state = "applied" => Cached(m)'
        BY <2>5, <2>16, <3>1 DEF ProjectionInv, NothingIsMissed
      <3>3. \A q \in Projector : \A b \in batch'[q] :
               \A m \in 1..(b.sequence - 1) : Cached(m)' \/ InBatch(q, m)'
        <4> TAKE q \in Projector
        <4> TAKE b \in batch'[q]
        <4> TAKE m \in 1..(b.sequence - 1)
        <4>1. b \in batch[q] /\ m \in DOMAIN outbox
          BY <2>4, <2>10
        <4>2. Cached(m) \/ InBatch(q, m)
          BY <4>1 DEF ProjectionInv, NothingIsMissed
        <4> QED
          BY <2>14, <2>16, <3>1, <4>1, <4>2
      <3>4. \A q \in Projector : applied'[q] /\ batch'[q] # {} => Cached(First(q).sequence)'
        <4> TAKE q \in Projector
        <4> HAVE applied'[q] /\ batch'[q] # {}
        <4>1. q # p
          BY <1>2
        <4>2. batch'[q] = batch[q] /\ applied[q] /\ batch[q] # {}
          BY <1>2, <2>4, <4>1
        <4>3. PICK m \in DOMAIN outbox : m = First(q).sequence
          BY <2>10, <4>2, FirstFacts
        <4>4. Cached(m)'
          BY <2>16, <4>2, <4>3 DEF ProjectionInv, NothingIsMissed
        <4>5. First(q)' = First(q)
          BY <4>2, FirstStays
        <4> QED
          BY <4>3, <4>4, <4>5
      <3> QED
        BY <3>2, <3>3, <3>4
    <2> QED
      BY <2>7, <2>8, <2>12, <2>13, <2>15, <2>16, <2>17 DEF ProjectionInv
  <1> QED
    BY <1>3, <1>4

-----------------------------------------------------------------------------
(***************************************************************************)
(* The invariant holds always.                                             *)
(***************************************************************************)

\* Nothing is registered, claimed or cached at first.
LEMMA InitInv == Init => IInv
  <1> SUFFICES ASSUME Init PROVE IInv
    OBVIOUS
  <1>1. AuthorityType
    <2>1. 0 \in 0..MaxTime /\ 0 \in Times
      BY CoordinationAssumption DEF Times
    <2>2. Unregistered \in WorkerRow /\ Unassigned \in Assignment /\ Off \in Runtime
      BY <2>1 DEF Unregistered, WorkerRow, Unassigned, Assignment, Off, Runtime
    <2> QED
      BY <2>1, <2>2 DEF Init, AuthorityType
  <1>2. ProjectionType
    <2>1. 0 \in 0..MaxFaults /\ 0 \in 0..MaxFlushes
      BY CoordinationAssumption
    <2>2. outbox \in Seq(Record)
      BY DEF Init
    <2>3. stream \in [Worker -> Seq(Nat)]
      BY DEF Init
    <2>4. batch \in [Projector -> SUBSET [sequence : Nat, generation : Nat]]
      BY DEF Init
    <2> QED
      BY <2>1, <2>2, <2>3, <2>4 DEF Init, ProjectionType
  <1>3. AuthorityInv
    <2>1. ReservedIsExact
      <3> SUFFICES ASSUME NEW w \in Worker PROVE worker[w].reserved = Cardinality(CallsOf(w))
        BY DEF ReservedIsExact
      <3>1. CallsOf(w) = {}
        BY CoordinationAssumption DEF CallsOf, Init, Unassigned
      <3> QED
        BY <3>1, FS_EmptySet DEF Init, Unregistered
    <2>2. UnregisteredIsExpired /\ TxIsPermitted /\ TxIsInTime /\ RuntimeAwaits
      BY DEF UnregisteredIsExpired, TxIsPermitted, TxIsInTime, RuntimeAwaits, Init, Unregistered
    <2>3. RuntimeIsPast /\ LocalLeaseIsConservative
      BY DEF RuntimeIsPast, LocalLeaseIsConservative, Init, Off
    <2> QED
      BY <2>1, <2>2, <2>3 DEF AuthorityInv
  <1>4. DOMAIN outbox = {}
    BY DEF Init
  <1>5. HistoryInv
    <2>1. LastIsCurrent
      BY DEF LastIsCurrent, Init, Unregistered
    <2> QED
      BY <1>4, <2>1 DEF HistoryInv, EventsAreTyped, SnapshotsArePast, SnapshotsFollow
  <1>6. ProjectionInv
    <2>1. \A p \in Projector : batch[p] = {}
      BY DEF Init
    <2>2. \A w \in Worker : DOMAIN stream[w] = {}
      BY DEF Init
    <2>3. \A k \in Key : cache[k] = NoEntry
      BY DEF Init
    <2> QED
      BY <1>4, <2>1, <2>2, <2>3
         DEF ProjectionInv, AcknowledgedInOrder, BatchesAreClaims, BatchesAreOrdered,
             EntriesAreEvents, StreamsArePast, WakeupsAscend, NothingIsMissed
  <1> QED
    BY <1>1, <1>2, <1>3, <1>5, <1>6, TypeParts DEF IInv

\* Steps of the repository and of worker processes that commit nothing.
LEMMA ProjectionUntouched ==
    ASSUME ProjectionType, HistoryInv, ProjectionInv, worker' = worker, assignment' = assignment,
           outbox' = outbox, batch' = batch, applied' = applied, cache' = cache,
           stream' = stream, faults' = faults, flushes' = flushes
    PROVE  ProjectionType' /\ HistoryInv' /\ ProjectionInv'
  <1>1. SameEvents
    BY DEF SameEvents
  <1>2. ProjectionType'
    BY DEF ProjectionType
  <1> QED
    BY <1>1, <1>2, HistoryStays, ProjectionStays

\* Steps of the projectors and of the cache.
LEMMA AuthorityUntouched ==
    ASSUME AuthorityType, AuthorityInv, HistoryInv, now' = now, UNCHANGED authority, SameEvents
    PROVE  AuthorityType' /\ AuthorityInv' /\ HistoryInv'
  <1>1. /\ now' = now /\ worker' = worker /\ assignment' = assignment
        /\ runtime' = runtime /\ tx' = tx
    BY DEF authority
  <1>2. AuthorityType'
    BY <1>1 DEF AuthorityType
  <1> QED
    BY <1>1, <1>2, AuthorityStays, HistoryStays

\* Every step keeps the invariant.
LEMMA NextInv == IInv /\ [Next]_vars => IInv'
  <1> SUFFICES ASSUME IInv, [Next]_vars PROVE IInv'
    OBVIOUS
  <1>1. AuthorityType /\ ProjectionType /\ AuthorityInv /\ HistoryInv /\ ProjectionInv
    BY TypeParts DEF IInv
  <1> SUFFICES AuthorityType' /\ ProjectionType' /\ AuthorityInv' /\ HistoryInv' /\ ProjectionInv'
    BY TypeParts DEF IInv, TypeOK, AuthorityType, ProjectionType
  <1>2. CASE Tick
    <2>1. UNCHANGED <<authority, outbox, projecting, projection, faults, flushes>>
      BY <1>2 DEF Tick
    <2>2. ProjectionType' /\ HistoryInv' /\ ProjectionInv'
      BY <1>1, <2>1, ProjectionUntouched DEF authority, projecting, projection
    <2> QED
      BY <1>1, <1>2, <2>2, TickAuthority
  <1>3. ASSUME NEW w \in Worker, NEW c \in Call,
               NEW op \in {"register", "renew", "drain", "create", "release", "takeover"},
               Begin(op, w, c)
        PROVE  AuthorityType' /\ ProjectionType' /\ AuthorityInv' /\ HistoryInv' /\ ProjectionInv'
    <2>1. UNCHANGED <<worker, assignment, outbox, projecting, projection, faults, flushes>>
      BY <1>3 DEF Begin
    <2>2. ProjectionType' /\ HistoryInv' /\ ProjectionInv'
      BY <1>1, <2>1, ProjectionUntouched DEF projecting, projection
    <2> QED
      BY <1>1, <1>3, <2>2, BeginAuthority
  <1>4. CASE AppendEvents
    <2>1. UNCHANGED <<worker, assignment, outbox, projecting, projection, faults, flushes>>
      BY <1>4 DEF AppendEvents
    <2>2. ProjectionType' /\ HistoryInv' /\ ProjectionInv'
      BY <1>1, <2>1, ProjectionUntouched DEF projecting, projection
    <2> QED
      BY <1>1, <1>4, <2>2, AppendAuthority
  <1>5. ASSUME NEW delivered \in BOOLEAN, Commit(delivered)
        PROVE  AuthorityType' /\ ProjectionType' /\ AuthorityInv' /\ HistoryInv' /\ ProjectionInv'
    <2>1. outbox \in Seq(Record)
      BY <1>1 DEF ProjectionType
    <2>2. HistoryInv'
      BY <1>1, <1>5, <2>1, CommitHistory
    <2> QED
      BY <1>1, <1>5, <2>2, CommitAuthority, CommitProjection
  <1>6. CASE Rollback
    <2>1. UNCHANGED <<worker, assignment, outbox, projecting, projection, faults, flushes>>
      BY <1>6 DEF Rollback
    <2>2. ProjectionType' /\ HistoryInv' /\ ProjectionInv'
      BY <1>1, <2>1, ProjectionUntouched DEF projecting, projection
    <2> QED
      BY <1>1, <1>6, <2>2, RollbackAuthority
  <1>7. ASSUME NEW w \in Worker, Start(w) \/ StartRenewal(w) \/ Stop(w)
        PROVE  AuthorityType' /\ ProjectionType' /\ AuthorityInv' /\ HistoryInv' /\ ProjectionInv'
    <2>1. UNCHANGED <<worker, assignment, outbox, projecting, projection, faults, flushes>>
      BY <1>7 DEF Start, StartRenewal, Stop
    <2>2. ProjectionType' /\ HistoryInv' /\ ProjectionInv'
      BY <1>1, <2>1, ProjectionUntouched DEF projecting, projection
    <2> QED
      BY <1>1, <1>7, <2>2, ProcessAuthority
  <1>8. ASSUME NEW p \in Projector, Claim(p) \/ Apply(p) \/ Acknowledge(p) \/ ProjectorFails(p)
        PROVE  AuthorityType' /\ ProjectionType' /\ AuthorityInv' /\ HistoryInv' /\ ProjectionInv'
    <2>1. now' = now /\ UNCHANGED authority
      BY <1>8 DEF Claim, Apply, Acknowledge, ProjectorFails
    <2>2. ProjectionType' /\ ProjectionInv' /\ SameEvents
      BY <1>1, <1>8, ClaimProjection, ApplyProjection, AcknowledgeProjection,
         ProjectorFailsProjection
    <2> QED
      BY <1>1, <2>1, <2>2, AuthorityUntouched
  <1>9. CASE Lapse \/ LapseUnderWork
    <2>1. /\ now' = now /\ UNCHANGED authority /\ LapseClaims
          /\ batch' = batch /\ applied' = applied
          /\ cache' = cache /\ stream' = stream /\ flushes' = flushes
      BY <1>9 DEF Lapse, LapseUnderWork, projecting, projection
    <2>2. faults' \in 0..MaxFaults
      <3>1. faults \in 0..MaxFaults
        BY <1>1 DEF ProjectionType
      <3>2. faults' = faults \/ (faults < MaxFaults /\ faults' = faults + 1)
        BY <1>9 DEF Lapse, LapseUnderWork
      <3> QED
        BY <3>1, <3>2, CoordinationAssumption
    <2>3. ProjectionType' /\ ProjectionInv' /\ SameEvents
      BY <1>1, <2>1, <2>2, LapseProjection
    <2> QED
      BY <1>1, <2>1, <2>3, AuthorityUntouched
  <1>10. CASE Flush
    <2>1. now' = now /\ UNCHANGED authority
      BY <1>10 DEF Flush
    <2>2. ProjectionType' /\ ProjectionInv' /\ SameEvents
      BY <1>1, <1>10, FlushProjection
    <2> QED
      BY <1>1, <2>1, <2>2, AuthorityUntouched
  <1>11. CASE UNCHANGED vars
    <2>1. UNCHANGED <<now, authority, outbox, projecting, projection, faults, flushes>>
      BY <1>11 DEF vars
    <2>2. ProjectionType' /\ HistoryInv' /\ ProjectionInv'
      BY <1>1, <2>1, ProjectionUntouched DEF authority, projecting, projection
    <2>3. SameEvents
      BY <2>1 DEF SameEvents
    <2> QED
      BY <1>1, <2>1, <2>2, <2>3, AuthorityUntouched
  <1>12. CASE Transact
    BY <1>3, <1>4, <1>5, <1>6, <1>12 DEF Transact
  <1>13. CASE Project
    BY <1>8, <1>9, <1>13 DEF Project
  <1> QED
    BY <1>2, <1>7, <1>10, <1>11, <1>12, <1>13 DEF Next

\* In a drained outbox of a cache that lost nothing, the entry of a key is the
\* last event of the key.
LEMMA DrainedEntry ==
    ASSUME ProjectionType, ProjectionInv, flushes = 0, Pending = {}, NEW k \in Key,
           NEW n \in DOMAIN outbox, LastOf(n, k)
    PROVE  cache[k].value = outbox[n].value
  <1>1. outbox[n].state = "applied"
    BY DEF Pending
  <1>2. Cached(n) /\ outbox[n].key = k
    BY <1>1 DEF ProjectionInv, NothingIsMissed, LastOf
  <1>3. n <= cache[k].sequence /\ n \in Nat /\ n > 0 /\ cache[k].sequence \in Nat
    BY <1>2, OutboxType, CacheType DEF Cached
  <1>4. cache[k] # NoEntry
    BY <1>3, CacheType
  <1>5. /\ cache[k].sequence \in DOMAIN outbox
        /\ outbox[cache[k].sequence].key = k
        /\ cache[k].value = outbox[cache[k].sequence].value
    BY <1>4 DEF ProjectionInv, EntriesAreEvents
  <1>6. cache[k].sequence <= n
    BY <1>5 DEF LastOf
  <1> QED
    BY <1>3, <1>5, <1>6

\* The invariant gives what callers of the cache rely on.
LEMMA InvCaches == IInv => CacheFollowsDatabase
  <1> SUFFICES ASSUME IInv PROVE CacheFollowsDatabase
    OBVIOUS
  <1>1. AuthorityType /\ ProjectionType /\ AuthorityInv /\ HistoryInv /\ ProjectionInv
    BY TypeParts DEF IInv
  <1>2. AcknowledgedInOrder /\ WakeupsAscend /\ LocalLeaseIsConservative
    BY <1>1 DEF ProjectionInv, AuthorityInv
  <1>3. flushes = 0 => NothingIsRefused
    BY <1>1, CacheAccepts DEF NothingIsRefused
  <1>4. flushes = 0 => DrainedCacheIsExact
    <2> SUFFICES ASSUME flushes = 0, Pending = {}
                 PROVE  /\ \A w \in Worker : worker[w].fence > 0 =>
                              cache[WorkerKey(w)].value = worker[w]
                        /\ \A c \in Call : assignment[c] # Unassigned =>
                              cache[RouteKey(c)].value = assignment[c]
      BY DEF DrainedCacheIsExact
    <2>1. ASSUME NEW w \in Worker, worker[w].fence > 0
          PROVE  cache[WorkerKey(w)].value = worker[w]
      <3>1. PICK n \in DOMAIN outbox : LastOf(n, WorkerKey(w)) /\ outbox[n].value = worker[w]
        BY <1>1, <2>1 DEF HistoryInv, LastIsCurrent
      <3> QED
        BY <1>1, <3>1, DrainedEntry, KeyFacts
    <2>2. ASSUME NEW c \in Call, assignment[c] # Unassigned
          PROVE  cache[RouteKey(c)].value = assignment[c]
      <3>1. PICK n \in DOMAIN outbox : LastOf(n, RouteKey(c)) /\ outbox[n].value = assignment[c]
        BY <1>1, <2>2 DEF HistoryInv, LastIsCurrent
      <3> QED
        BY <1>1, <3>1, DrainedEntry, KeyFacts
    <2> QED
      BY <2>1, <2>2
  <1>5. HintedLeaseIsLive
    <2> SUFFICES ASSUME NEW c \in Call, RouteHint(c) # Released
                 PROVE  \/ RouteHint(c).fence < worker[RouteHint(c).worker].fence
                        \/ now < worker[RouteHint(c).worker].expires
      BY DEF HintedLeaseIsLive
    <2> DEFINE route == cache[RouteKey(c)].value
    <2>1. /\ cache[RouteKey(c)].sequence > 0 /\ route # Released
          /\ cache[WorkerKey(route.worker)].sequence > 0
          /\ cache[WorkerKey(route.worker)].value.fence = route.fence
          /\ cache[WorkerKey(route.worker)].value.expires > now
          /\ RouteHint(c) = route
      BY DEF RouteHint
    <2>2. cache[RouteKey(c)] # NoEntry
      BY <2>1 DEF NoEntry
    <2>3. PICK m \in DOMAIN outbox : outbox[m].key = RouteKey(c) /\ route = outbox[m].value
      BY <1>1, <2>2, KeyFacts DEF ProjectionInv, EntriesAreEvents
    <2>4. PICK w \in Worker : w = route.worker
      BY <1>1, <2>1, <2>3, KeyFacts DEF HistoryInv, EventsAreTyped, IsRouteEvent
    <2>5. cache[WorkerKey(w)] # NoEntry
      BY <2>1, <2>4 DEF NoEntry
    <2>6. PICK n \in DOMAIN outbox : outbox[n].key = WorkerKey(w)
                                     /\ cache[WorkerKey(w)].value = outbox[n].value
      BY <1>1, <2>5, KeyFacts DEF ProjectionInv, EntriesAreEvents
    <2>7. /\ outbox[n].value.fence <= worker[w].fence
          /\ outbox[n].value.fence = worker[w].fence => outbox[n].value.expires <= worker[w].expires
      BY <1>1, <2>6 DEF HistoryInv, SnapshotsArePast
    <2>8. outbox[n].value \in WorkerRow
      BY <1>1, <2>6, KeyFacts DEF HistoryInv, EventsAreTyped, IsWorkerEvent
    <2>9. /\ outbox[n].value.fence \in Nat /\ outbox[n].value.expires \in Nat
          /\ worker[w].fence \in Nat /\ worker[w].expires \in Nat /\ now \in Nat
      BY <1>1, <2>8, RowType, TimeType DEF WorkerRow, AuthorityType
    <2>10. outbox[n].value.fence = route.fence /\ outbox[n].value.expires > now
      BY <2>1, <2>4, <2>6
    <2> HIDE DEF route
    <2>11. route.fence < worker[w].fence \/ now < worker[w].expires
      BY <2>7, <2>9, <2>10
    <2> QED
      BY <2>1, <2>4, <2>11
  <1> QED
    BY <1>2, <1>3, <1>4, <1>5 DEF CacheFollowsDatabase

\* The invariant holds in every state of every behaviour: the outbox is the
\* history of the authority, and batches, claims and cache follow it.
THEOREM Invariance == Spec => []IInv
  BY InitInv, NextInv, PTL DEF Spec

\* Every variable keeps its type, and reserved_calls never drops below zero.
THEOREM TypeCorrect == Spec => []TypeOK
  <1>1. IInv => TypeOK
    BY DEF IInv
  <1> QED
    BY <1>1, Invariance, PTL

\* The cache follows the database, however transactions, projectors, lapsed
\* claims and losses of the cache interleave.
THEOREM CacheCorrect == Spec => []CacheFollowsDatabase
  BY InvCaches, Invariance, PTL
=============================================================================
