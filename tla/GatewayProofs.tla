---------------------------- MODULE GatewayProofs ----------------------------
(***************************************************************************)
(* Machine-checked proofs about the gateway process, for any tasks, calls, *)
(* workers and keys, and any bounds.                                       *)
(***************************************************************************)
EXTENDS Gateway, FiniteSetTheorems, TLAPS

-----------------------------------------------------------------------------
(***************************************************************************)
(* Slots and pins.  Used(c) is what the pin of a call counts.              *)
(***************************************************************************)
Used(c) == {k \in Key : CallOf[k] = c /\ slots[k].st # "free"}

\* The worker a taken slot goes to.
Target(k) == IF slots[k].st = "pending" THEN slots[k].worker ELSE WorkerOf(slots[k].route)

PinOf(c) ==
    /\ pins[c].count = Cardinality(Used(c))
    /\ \A k \in Used(c) : pins[c].worker = Target(k)

PinsMatch == \A c \in Call : PinOf(c)

TableType ==
    /\ slots \in [Key -> Slot]
    /\ pins \in [Call -> [worker : Worker, count : 0 .. Cardinality(Key)]]

\* The slots a call uses are finitely many.
LEMMA UsedFinite ==
    ASSUME NEW S \in SUBSET Key
    PROVE  IsFiniteSet(S) /\ Cardinality(S) \in 0 .. Cardinality(Key)
  <1>1. IsFiniteSet(Key)
    BY GatewayAssumption
  <1>2. IsFiniteSet(S) /\ Cardinality(S) <= Cardinality(Key)
    BY <1>1, FS_Subset
  <1>3. Cardinality(S) \in Nat /\ Cardinality(Key) \in Nat
    BY <1>1, <1>2, FS_CardinalityType
  <1> QED
    BY <1>2, <1>3

\* A slot is free, pending or active.
LEMMA SlotCases ==
    ASSUME NEW s \in Slot
    PROVE  /\ s.st \in {"free", "pending", "active"}
           /\ s.st = "free" => s = Free
           /\ s.st = "pending" => s.worker \in Worker
           /\ s.st = "active" => s.route \in Task
  BY DEF Slot, Free

\* The pin without a slot.
LEMMA NoPinType == NoPin \in [worker : Worker, count : 0 .. Cardinality(Key)] /\ NoPin.count = 0
  <1>1. (CHOOSE w \in Worker : TRUE) \in Worker
    BY GatewayAssumption
  <1>2. 0 \in 0 .. Cardinality(Key)
    BY GatewayAssumption, FS_CardinalityType
  <1> QED
    BY <1>1, <1>2 DEF NoPin

\* reserve_route: the slot goes to the worker of the pin and counts on it.
LEMMA ReserveKeeps ==
    ASSUME TypeOK, PinsMatch, NEW k \in Key, NEW w \in Worker, ReserveRoute(k, w), job' = job
    PROVE  TableType' /\ PinsMatch'
  <1> DEFINE c == CallOf[k]
  <1>1. c \in Call
    BY GatewayAssumption
  <1>2. Used(c)' = Used(c) \cup {k} /\ k \notin Used(c)
        /\ \A d \in Call : d # c => Used(d)' = Used(d)
    BY GatewayAssumption DEF ReserveRoute, Used, TypeOK, Free
  <1>3. \A j \in Key : j # k => slots'[j] = slots[j]
    BY DEF ReserveRoute, TypeOK
  <1>4. slots'[k] = [st |-> "pending", worker |-> w]
    BY DEF ReserveRoute, TypeOK
  <1>5. slots' \in [Key -> Slot]
    <2>1. [st |-> "pending", worker |-> w] \in Slot
      BY DEF Slot
    <2> QED
      BY <2>1 DEF ReserveRoute, TypeOK
  <1>6. IsFiniteSet(Used(c)) /\ Cardinality(Used(c)') = Cardinality(Used(c)) + 1
        /\ Cardinality(Used(c)') \in 0 .. Cardinality(Key) /\ Cardinality(Used(c)) \in Nat
    <2>1. Used(c) \in SUBSET Key /\ Used(c) \cup {k} \in SUBSET Key
      BY DEF Used
    <2>2. IsFiniteSet(Used(c)) /\ Cardinality(Used(c) \cup {k}) \in 0 .. Cardinality(Key)
      BY <2>1, UsedFinite
    <2> QED
      BY <1>2, <2>2, FS_AddElement, FS_CardinalityType
  <1>7. pins'[c] = [worker |-> w, count |-> pins[c].count + 1]
        /\ \A d \in Call : d # c => pins'[d] = pins[d]
    BY <1>1 DEF ReserveRoute, TypeOK
  <1>8. pins[c].count = Cardinality(Used(c)) /\ \A j \in Used(c) : pins[c].worker = Target(j)
    BY <1>1 DEF PinsMatch, PinOf
  <1>9. pins' \in [Call -> [worker : Worker, count : 0 .. Cardinality(Key)]]
    <2>1. [worker |-> w, count |-> pins[c].count + 1] \in [worker : Worker, count : 0 .. Cardinality(Key)]
      BY <1>6, <1>8
    <2> QED
      BY <2>1 DEF ReserveRoute, TypeOK
  <1>10. PinOf(c)'
    <2>1. \A j \in Used(c) : pins[c].worker = w
      <3>1. Used(c) # {} => pins[c].count > 0
        BY <1>6, <1>8, FS_EmptySet
      <3> QED
        BY <3>1 DEF ReserveRoute
    <2>2. \A j \in Used(c) : j # k /\ j \in Key /\ Target(j)' = Target(j)
      BY <1>2, <1>3 DEF Target, WorkerOf, Used
    <2>3. Target(k)' = w
      BY <1>4 DEF Target
    <2>4. pins'[c].count = Cardinality(Used(c)') /\ pins'[c].worker = w
      BY <1>6, <1>7, <1>8
    <2> QED
      BY <1>2, <1>8, <2>1, <2>2, <2>3, <2>4 DEF PinOf
  <1>11. \A d \in Call : d # c => PinOf(d)'
    <2> TAKE d \in Call
    <2> HAVE d # c
    <2>1. \A j \in Used(d) : j # k /\ j \in Key
      BY DEF Used
    <2>2. \A j \in Used(d) : Target(j)' = Target(j)
      BY <1>3, <2>1 DEF Target, WorkerOf
    <2>3. Used(d)' = Used(d) /\ pins'[d] = pins[d]
      BY <1>2, <1>7
    <2> QED
      BY <2>2, <2>3 DEF PinsMatch, PinOf
  <1> QED
    BY <1>5, <1>9, <1>10, <1>11 DEF TableType, PinsMatch

\* retire_route of the slots K: each one taken is counted off its pin.
LEMMA RetireKeeps ==
    ASSUME TypeOK, PinsMatch, NEW K \in SUBSET Key, job' = job,
           slots' = [k \in Key |-> IF k \in K THEN Free ELSE slots[k]],
           pins' = ReleaseCallPins(K)
    PROVE  TableType' /\ PinsMatch'
  <1>1. slots' \in [Key -> Slot]
    BY DEF TypeOK, Slot, Free
  <1>2. \A c \in Call : pins'[c] \in [worker : Worker, count : 0 .. Cardinality(Key)] /\ PinOf(c)'
    <2> TAKE c \in Call
    <2> DEFINE A == Used(c)
               B == {k \in Taken(K) : CallOf[k] = c}
               left == pins[c].count - Cardinality(B)
    <2>1. B = A \cap K
      BY DEF Taken, Used
    <2>2. Used(c)' = A \ K
      BY DEF Used, Free
    <2>3. A \in SUBSET Key /\ (A \ K) \in SUBSET Key
      BY DEF Used
    <2>4. IsFiniteSet(A) /\ Cardinality(A \ K) \in 0 .. Cardinality(Key)
      BY <2>3, UsedFinite
    <2>5. Cardinality(A \ K) = Cardinality(A) - Cardinality(A \cap K)
      BY <2>4, FS_Difference
    <2>6. pins[c].count = Cardinality(A) /\ \A k \in A : pins[c].worker = Target(k)
      BY DEF PinsMatch, PinOf
    <2>7. left = Cardinality(Used(c)')
      BY <2>1, <2>2, <2>5, <2>6
    <2>8. pins'[c] = IF left = 0 THEN NoPin ELSE [pins[c] EXCEPT !.count = left]
      BY DEF ReleaseCallPins
    <2>9. pins[c] \in [worker : Worker, count : 0 .. Cardinality(Key)]
      BY DEF TypeOK
    <2>10. left \in 0 .. Cardinality(Key)
      BY <2>2, <2>4, <2>7
    <2>11. \A k \in A \ K : Target(k)' = Target(k)
      BY <2>3 DEF Target, WorkerOf
    <2> HIDE DEF left, A
    <2>12. CASE left = 0
      <3>1. pins'[c] = NoPin
        BY <2>8, <2>12
      <3>2. Used(c)' = {}
        BY <2>2, <2>4, <2>7, <2>12, FS_Difference, FS_EmptySet
      <3> QED
        BY <3>1, <3>2, <2>7, <2>12, NoPinType DEF PinOf
    <2>13. CASE left # 0
      <3>1. pins'[c] = [pins[c] EXCEPT !.count = left]
        BY <2>8, <2>13
      <3>2. pins'[c].count = left /\ pins'[c].worker = pins[c].worker
        BY <3>1, <2>9
      <3>3. pins'[c] \in [worker : Worker, count : 0 .. Cardinality(Key)]
        BY <3>1, <2>9, <2>10
      <3> QED
        BY <3>2, <3>3, <2>2, <2>6, <2>7, <2>11 DEF PinOf
    <2> QED
      BY <2>12, <2>13
  <1>3. pins' \in [Call -> [worker : Worker, count : 0 .. Cardinality(Key)]]
    BY <1>2 DEF ReleaseCallPins
  <1> QED
    BY <1>1, <1>2, <1>3 DEF TableType, PinsMatch

\* rollback_route is the retirement of one slot.
LEMMA RollbackKeeps ==
    ASSUME TypeOK, PinsMatch, NEW k \in Key, RollbackRoute(k), job' = job
    PROVE  TableType' /\ PinsMatch'
  <1>1. slots' = [j \in Key |-> IF j \in {k} THEN Free ELSE slots[j]]
    BY DEF RollbackRoute, TypeOK
  <1>2. pins' = ReleaseCallPins({k})
    BY DEF RollbackRoute
  <1>3. {k} \in SUBSET Key
    OBVIOUS
  <1> QED
    BY <1>1, <1>2, <1>3, RetireKeeps

\* A step that leaves the table alone.
LEMMA SameTable ==
    ASSUME TypeOK, PinsMatch, job' = job, slots' = slots, pins' = pins
    PROVE  TableType' /\ PinsMatch'
  <1>1. \A k \in Key : Target(k)' = Target(k)
    BY DEF Target, WorkerOf
  <1>2. \A c \in Call : Used(c)' = Used(c) /\ Used(c) \subseteq Key
    BY DEF Used
  <1> QED
    BY <1>1, <1>2 DEF TypeOK, TableType, PinsMatch, PinOf

\* activate_route puts the route into the slot it was reserved for.
LEMMA ActivateKeeps ==
    ASSUME TypeOK, PinsMatch, NEW t \in Task, NEW k \in Key, k = KeyOf(t), Reserved(t),
           job' = job, pins' = pins,
           slots' = [slots EXCEPT ![k] = [st |-> "active", route |-> t]]
    PROVE  TableType' /\ PinsMatch'
  <1>1. slots'[k] = [st |-> "active", route |-> t] /\ slots[k] = [st |-> "pending", worker |-> WorkerOf(t)]
    BY DEF TypeOK, Reserved
  <1>2. \A j \in Key : j # k => slots'[j] = slots[j]
    BY DEF TypeOK
  <1>3. slots' \in [Key -> Slot]
    BY DEF TypeOK, Slot
  <1>4. Target(k)' = Target(k)
    BY <1>1 DEF Target, WorkerOf
  <1>5. \A j \in Key : Target(j)' = Target(j)
    BY <1>2, <1>4 DEF Target, WorkerOf
  <1>6. \A c \in Call : Used(c)' = Used(c)
    BY <1>1, <1>2 DEF Used
  <1>7. \A c \in Call : Used(c) \subseteq Key
    BY DEF Used
  <1> QED
    BY <1>3, <1>5, <1>6, <1>7 DEF TypeOK, TableType, PinsMatch, PinOf

-----------------------------------------------------------------------------
(***************************************************************************)
(* Types.  Everything but the table of slots and pins is in RestType.      *)
(***************************************************************************)
SetsType ==
    /\ peerPermit \subseteq Task /\ byWire \subseteq Task /\ dynamic \subseteq Task
    /\ closed \subseteq Task /\ signaled \subseteq Task /\ over \subseteq Task
    /\ evicted \subseteq Task
    /\ spawned \subseteq Task \X {"fail", "close"}

RoleType ==
    /\ job \in Jobs
    /\ gate \in {"open", "paused", "draining"}
    /\ lease \subseteq Ingress
    /\ stage \in Stages

WireType ==
    /\ peer \in [Worker -> [gen : 0 .. MaxPeers, st : {"none", "live", "lost", "failed"}]]
    /\ pc \in [Task -> PCs]
    /\ via \in [Task -> 0 .. MaxPeers]
    /\ pend \in [Task -> SUBSET {"open", "receipt", "error"}]
    /\ pending \subseteq Attachments
    /\ permit \in [Task -> {"none", "task", "route", "cleanup"}]

RestType == RoleType /\ WireType /\ SetsType

\* TypeOK in two parts.
LEMMA Parts == TypeOK <=> RestType /\ TableType
  BY DEF TypeOK, RestType, RoleType, WireType, SetsType, TableType

\* What a task is about does not change and has its type.
LEMMA JobType ==
    ASSUME TypeOK, NEW t \in Task
    PROVE  /\ KeyOf(t) \in Key /\ WorkerOf(t) \in Worker
           /\ Kind(t) \in {"uctp", "native", "broadcast", "egress"}
           /\ t \in Ingress <=> Kind(t) # "egress"
           /\ t \in Attachments <=> Kind(t) \in {"uctp", "native"}
  BY GatewayAssumption DEF TypeOK, KeyOf, WorkerOf, Kind, Ingress, Attachments

\* Which tasks use the ingress follows from their jobs.
LEMMA SameJob ==
    ASSUME job' = job
    PROVE  Ingress' = Ingress /\ Attachments' = Attachments
  BY DEF Ingress, Attachments, Kind

\* A retirement keeps the types of what it changes beside the table.
LEMMA RetireRest ==
    ASSUME RestType, NEW K, RetireRoutes(K)
    PROVE  /\ permit' \in [Task -> {"none", "task", "route", "cleanup"}]
           /\ peerPermit' \subseteq Task /\ byWire' \subseteq Task
           /\ dynamic' \subseteq Task /\ evicted' \subseteq Task
  BY DEF RestType, WireType, SetsType, RetireRoutes, ReleasePermits

\* A rollback can only take a route of a task out of its slot.
LEMMA RollbackEvicts ==
    ASSUME TypeOK, NEW k \in Key, RollbackRoute(k)
    PROVE  evicted' \subseteq Task
  <1>1. slots[k].st = "active" => slots[k].route \in Task
    BY SlotCases DEF TypeOK
  <1> QED
    BY <1>1 DEF TypeOK, RollbackRoute

\* The routes a retirement closes are tasks.
LEMMA RetireClosed ==
    ASSUME TypeOK, NEW K \in SUBSET Key, RetireRoutes(K)
    PROVE  closed' \subseteq Task
  <1>1. ClosedBy(K) \subseteq Task
    <2>1. \A k \in K : slots[k].st = "active" => slots[k].route \in Task
      BY SlotCases DEF TypeOK
    <2> QED
      BY <2>1 DEF ClosedBy
  <1> QED
    BY <1>1 DEF TypeOK, RetireRoutes

\* The whole of a retirement: the table, and the types of the rest.
LEMMA RetireTypes ==
    ASSUME TypeOK, PinsMatch, NEW K \in SUBSET Key, RetireRoutes(K), job' = job
    PROVE  /\ TableType' /\ PinsMatch'
           /\ permit' \in [Task -> {"none", "task", "route", "cleanup"}]
           /\ peerPermit' \subseteq Task /\ byWire' \subseteq Task
           /\ dynamic' \subseteq Task /\ closed' \subseteq Task /\ evicted' \subseteq Task
  <1>1. RestType
    BY Parts
  <1>2. slots' = [k \in Key |-> IF k \in K THEN Free ELSE slots[k]] /\ pins' = ReleaseCallPins(K)
    BY DEF RetireRoutes
  <1>3. TableType' /\ PinsMatch'
    BY <1>2, RetireKeeps
  <1>4. closed' \subseteq Task
    BY RetireClosed
  <1>5. /\ permit' \in [Task -> {"none", "task", "route", "cleanup"}]
        /\ peerPermit' \subseteq Task /\ byWire' \subseteq Task
        /\ dynamic' \subseteq Task /\ evicted' \subseteq Task
    BY <1>1, RetireRest
  <1> QED
    BY <1>3, <1>4, <1>5

\* A future that ends without a route.
LEMMA DropTypes ==
    ASSUME RestType, NEW t \in Task, DropOpener(t)
    PROVE  /\ lease' \subseteq lease /\ peerPermit' \subseteq peerPermit
           /\ pc' \in [Task -> PCs]
           /\ permit' \in [Task -> {"none", "task", "route", "cleanup"}]
  <1>1. lease' \subseteq lease /\ peerPermit' \subseteq peerPermit
    BY DEF DropOpener
  <1>2. pc' \in [Task -> PCs]
    BY DEF RestType, WireType, DropOpener, PCs
  <1>3. permit' \in [Task -> {"none", "task", "route", "cleanup"}]
    BY DEF RestType, WireType, DropOpener
  <1> QED
    BY <1>1, <1>2, <1>3

-----------------------------------------------------------------------------
(***************************************************************************)
(* The inductive invariant, and that every action keeps it.                *)
(***************************************************************************)
IInv == TypeOK /\ PinsMatch

\* What a step has to establish.
LEMMA Settled ==
    ASSUME TableType', PinsMatch', RoleType', WireType', SetsType'
    PROVE  IInv'
  BY Parts, PTL DEF IInv, RestType

\* What a step may use.
LEMMA Start ==
    ASSUME IInv
    PROVE  TypeOK /\ PinsMatch /\ RestType /\ RoleType /\ WireType /\ SetsType
  BY Parts DEF IInv, RestType

\* A step that leaves the table alone has only the rest to establish.
LEMMA Aside ==
    ASSUME IInv, job' = job, slots' = slots, pins' = pins,
           Ingress' = Ingress /\ Attachments' = Attachments
              => RoleType' /\ WireType' /\ SetsType'
    PROVE  IInv'
  <1>1. TypeOK /\ PinsMatch
    BY DEF IInv
  <1>2. TableType' /\ PinsMatch'
    BY <1>1, SameTable
  <1> QED
    BY <1>2, SameJob, Settled


\* Tasks that move on without touching the table.
LEMMA TasksKeep ==
    ASSUME IInv, NEW t \in Task,
           \/ SourceCleanup(t)
           \/ RouteFault(t)
           \/ AnnounceStream(t)
           \/ BadMessage(t)
           \/ PrepareEgress(t)
           \/ Refuse(t)
           \/ OpenSucceeds(t)
           \/ Subscribe(t)
           \/ Promote(t)
           \/ FinishCleanup(t)
           \/ AbortCleanup(t)
           \/ EndTask(t)
           \/ DropRoute(t)
    PROVE  IInv'
  <1>1. TypeOK /\ RoleType /\ WireType /\ SetsType
    BY Start
  <1>2. CASE SourceCleanup(t)
    <2>1. job' = job /\ slots' = slots /\ pins' = pins
      BY <1>2 DEF SourceCleanup, role, routing
    <2> SUFFICES ASSUME Ingress' = Ingress, Attachments' = Attachments
                 PROVE  RoleType' /\ WireType' /\ SetsType'
      BY <2>1, Aside
    <2>2. RoleType'
      BY <1>1, <1>2 DEF SourceCleanup, role, routing, RoleType, PCs
    <2>3. WireType'
      BY <1>1, <1>2 DEF SourceCleanup, role, routing, WireType, PCs
    <2>4. SetsType'
      BY <1>1, <1>2 DEF SourceCleanup, role, routing, SetsType, PCs
    <2> QED
      BY <2>2, <2>3, <2>4
  <1>3. CASE RouteFault(t)
    <2>1. job' = job /\ slots' = slots /\ pins' = pins
      BY <1>3 DEF RouteFault, role, routing
    <2> SUFFICES ASSUME Ingress' = Ingress, Attachments' = Attachments
                 PROVE  RoleType' /\ WireType' /\ SetsType'
      BY <2>1, Aside
    <2>2. RoleType'
      BY <1>1, <1>3 DEF RouteFault, role, routing, RoleType, PCs
    <2>3. WireType'
      BY <1>1, <1>3 DEF RouteFault, role, routing, WireType, PCs
    <2>4. SetsType'
      BY <1>1, <1>3 DEF RouteFault, role, routing, SetsType, PCs
    <2> QED
      BY <2>2, <2>3, <2>4
  <1>4. CASE AnnounceStream(t)
    <2>1. job' = job /\ slots' = slots /\ pins' = pins
      BY <1>4 DEF AnnounceStream, role, routing
    <2> SUFFICES ASSUME Ingress' = Ingress, Attachments' = Attachments
                 PROVE  RoleType' /\ WireType' /\ SetsType'
      BY <2>1, Aside
    <2>2. RoleType'
      BY <1>1, <1>4 DEF AnnounceStream, role, routing, RoleType, PCs
    <2>3. WireType'
      BY <1>1, <1>4 DEF AnnounceStream, role, routing, WireType, PCs
    <2>4. SetsType'
      BY <1>1, <1>4 DEF AnnounceStream, role, routing, SetsType, PCs
    <2> QED
      BY <2>2, <2>3, <2>4
  <1>5. CASE BadMessage(t)
    <2>1. job' = job /\ slots' = slots /\ pins' = pins
      BY <1>5 DEF BadMessage, role, routing
    <2> SUFFICES ASSUME Ingress' = Ingress, Attachments' = Attachments
                 PROVE  RoleType' /\ WireType' /\ SetsType'
      BY <2>1, Aside
    <2>2. RoleType'
      BY <1>1, <1>5 DEF BadMessage, Revoked, role, routing, RoleType, PCs
    <2>3. WireType'
      BY <1>1, <1>5 DEF BadMessage, Revoked, role, routing, WireType, PCs
    <2>4. SetsType'
      BY <1>1, <1>5 DEF BadMessage, Revoked, role, routing, SetsType, PCs
    <2> QED
      BY <2>2, <2>3, <2>4
  <1>6. CASE PrepareEgress(t)
    <2>1. job' = job /\ slots' = slots /\ pins' = pins
      BY <1>6 DEF PrepareEgress, role, routing
    <2> SUFFICES ASSUME Ingress' = Ingress, Attachments' = Attachments
                 PROVE  RoleType' /\ WireType' /\ SetsType'
      BY <2>1, Aside
    <2>2. RoleType'
      BY <1>1, <1>6 DEF PrepareEgress, role, routing, RoleType, PCs
    <2>3. WireType'
      BY <1>1, <1>6 DEF PrepareEgress, role, routing, WireType, PCs
    <2>4. SetsType'
      BY <1>1, <1>6 DEF PrepareEgress, role, routing, SetsType, PCs
    <2> QED
      BY <2>2, <2>3, <2>4
  <1>7. CASE Refuse(t)
    <2>1. job' = job /\ slots' = slots /\ pins' = pins
      BY <1>7 DEF Refuse, role, routing
    <2> SUFFICES ASSUME Ingress' = Ingress, Attachments' = Attachments
                 PROVE  RoleType' /\ WireType' /\ SetsType'
      BY <2>1, Aside
    <2>2. RoleType'
      BY <1>1, <1>7 DEF Refuse, role, routing, RoleType, PCs
    <2>3. WireType'
      BY <1>1, <1>7 DEF Refuse, role, routing, WireType, PCs
    <2>4. SetsType'
      BY <1>1, <1>7 DEF Refuse, role, routing, SetsType, PCs
    <2> QED
      BY <2>2, <2>3, <2>4
  <1>8. CASE OpenSucceeds(t)
    <2>1. job' = job /\ slots' = slots /\ pins' = pins
      BY <1>8 DEF OpenSucceeds, role, routing
    <2> SUFFICES ASSUME Ingress' = Ingress, Attachments' = Attachments
                 PROVE  RoleType' /\ WireType' /\ SetsType'
      BY <2>1, Aside
    <2>2. RoleType'
      BY <1>1, <1>8 DEF OpenSucceeds, role, routing, RoleType, PCs
    <2>3. WireType'
      BY <1>1, <1>8 DEF OpenSucceeds, role, routing, WireType, PCs
    <2>4. SetsType'
      BY <1>1, <1>8 DEF OpenSucceeds, role, routing, SetsType, PCs
    <2> QED
      BY <2>2, <2>3, <2>4
  <1>9. CASE Subscribe(t)
    <2>1. job' = job /\ slots' = slots /\ pins' = pins
      BY <1>9 DEF Subscribe, role, routing
    <2> SUFFICES ASSUME Ingress' = Ingress, Attachments' = Attachments
                 PROVE  RoleType' /\ WireType' /\ SetsType'
      BY <2>1, Aside
    <2>2. RoleType'
      BY <1>1, <1>9 DEF Subscribe, role, routing, RoleType, PCs
    <2>3. WireType'
      BY <1>1, <1>9 DEF Subscribe, role, routing, WireType, PCs
    <2>4. SetsType'
      BY <1>1, <1>9 DEF Subscribe, role, routing, SetsType, PCs
    <2> QED
      BY <2>2, <2>3, <2>4
  <1>10. CASE Promote(t)
    <2>1. job' = job /\ slots' = slots /\ pins' = pins
      BY <1>10 DEF Promote, role, routing
    <2> SUFFICES ASSUME Ingress' = Ingress, Attachments' = Attachments
                 PROVE  RoleType' /\ WireType' /\ SetsType'
      BY <2>1, Aside
    <2>2. RoleType'
      BY <1>1, <1>10 DEF Promote, role, routing, RoleType, PCs
    <2>3. WireType'
      BY <1>1, <1>10 DEF Promote, role, routing, WireType, PCs
    <2>4. SetsType'
      BY <1>1, <1>10 DEF Promote, role, routing, SetsType, PCs
    <2> QED
      BY <2>2, <2>3, <2>4
  <1>11. CASE FinishCleanup(t)
    <2>1. job' = job /\ slots' = slots /\ pins' = pins
      BY <1>11 DEF FinishCleanup, role, routing
    <2> SUFFICES ASSUME Ingress' = Ingress, Attachments' = Attachments
                 PROVE  RoleType' /\ WireType' /\ SetsType'
      BY <2>1, Aside
    <2>2. RoleType'
      BY <1>1, <1>11 DEF FinishCleanup, role, routing, RoleType, PCs
    <2>3. WireType'
      BY <1>1, <1>11 DEF FinishCleanup, role, routing, WireType, PCs
    <2>4. SetsType'
      BY <1>1, <1>11 DEF FinishCleanup, role, routing, SetsType, PCs
    <2> QED
      BY <2>2, <2>3, <2>4
  <1>12. CASE AbortCleanup(t)
    <2>1. job' = job /\ slots' = slots /\ pins' = pins
      BY <1>12 DEF AbortCleanup, role, routing
    <2> SUFFICES ASSUME Ingress' = Ingress, Attachments' = Attachments
                 PROVE  RoleType' /\ WireType' /\ SetsType'
      BY <2>1, Aside
    <2>2. RoleType'
      BY <1>1, <1>12 DEF AbortCleanup, role, routing, RoleType, PCs
    <2>3. WireType'
      BY <1>1, <1>12 DEF AbortCleanup, role, routing, WireType, PCs
    <2>4. SetsType'
      BY <1>1, <1>12 DEF AbortCleanup, role, routing, SetsType, PCs
    <2> QED
      BY <2>2, <2>3, <2>4
  <1>13. CASE EndTask(t)
    <2>1. job' = job /\ slots' = slots /\ pins' = pins
      BY <1>13 DEF EndTask, role, routing
    <2> SUFFICES ASSUME Ingress' = Ingress, Attachments' = Attachments
                 PROVE  RoleType' /\ WireType' /\ SetsType'
      BY <2>1, Aside
    <2>2. RoleType'
      BY <1>1, <1>13 DEF EndTask, role, routing, RoleType, PCs
    <2>3. WireType'
      BY <1>1, <1>13 DEF EndTask, role, routing, WireType, PCs
    <2>4. SetsType'
      BY <1>1, <1>13 DEF EndTask, role, routing, SetsType, PCs
    <2> QED
      BY <2>2, <2>3, <2>4
  <1>14. CASE DropRoute(t)
    <2>1. job' = job /\ slots' = slots /\ pins' = pins
      BY <1>14 DEF DropRoute, role, routing
    <2> SUFFICES ASSUME Ingress' = Ingress, Attachments' = Attachments
                 PROVE  RoleType' /\ WireType' /\ SetsType'
      BY <2>1, Aside
    <2>2. RoleType'
      BY <1>1, <1>14 DEF DropRoute, role, routing, RoleType, PCs
    <2>3. WireType'
      BY <1>1, <1>14 DEF DropRoute, role, routing, WireType, PCs
    <2>4. SetsType'
      BY <1>1, <1>14 DEF DropRoute, role, routing, SetsType, PCs
    <2> QED
      BY <2>2, <2>3, <2>4
  <1> QED
    BY <1>2, <1>3, <1>4, <1>5, <1>6, <1>7, <1>8, <1>9, <1>10, <1>11, <1>12, <1>13, <1>14

\* Replies of the worker.
LEMMA ReplyKeeps ==
    ASSUME IInv, NEW t \in Task, NEW what \in {"open", "receipt"},
           \/ Reply(t,what)
    PROVE  IInv'
  <1>1. TypeOK /\ RoleType /\ WireType /\ SetsType
    BY Start
  <1>2. CASE Reply(t,what)
    <2>1. job' = job /\ slots' = slots /\ pins' = pins
      BY <1>2 DEF Reply, role, routing
    <2> SUFFICES ASSUME Ingress' = Ingress, Attachments' = Attachments
                 PROVE  RoleType' /\ WireType' /\ SetsType'
      BY <2>1, Aside
    <2>2. RoleType'
      BY <1>1, <1>2 DEF Reply, role, routing, RoleType, PCs
    <2>3. WireType'
      BY <1>1, <1>2 DEF Reply, role, routing, WireType, PCs
    <2>4. SetsType'
      BY <1>1, <1>2 DEF Reply, role, routing, SetsType, PCs
    <2> QED
      BY <2>2, <2>3, <2>4
  <1> QED
    BY <1>2

\* The ordered stop of the role, the retirement of all routes aside.
LEMMA StopKeeps ==
    ASSUME IInv,
           \/ BeginDrain
           \/ StopWaiting
           \/ IngressStopped
           \/ DrainTasks
           \/ ClosePeers
           \/ NativeStopped
    PROVE  IInv'
  <1>1. TypeOK /\ RoleType /\ WireType /\ SetsType
    BY Start
  <1>2. CASE BeginDrain
    <2>1. job' = job /\ slots' = slots /\ pins' = pins
      BY <1>2 DEF BeginDrain, role, routing
    <2> SUFFICES ASSUME Ingress' = Ingress, Attachments' = Attachments
                 PROVE  RoleType' /\ WireType' /\ SetsType'
      BY <2>1, Aside
    <2>2. RoleType'
      BY <1>1, <1>2 DEF BeginDrain, Enter, Stages, role, routing, RoleType, PCs
    <2>3. WireType'
      BY <1>1, <1>2 DEF BeginDrain, Enter, Stages, role, routing, WireType, PCs
    <2>4. SetsType'
      BY <1>1, <1>2 DEF BeginDrain, Enter, Stages, role, routing, SetsType, PCs
    <2> QED
      BY <2>2, <2>3, <2>4
  <1>3. CASE StopWaiting
    <2>1. job' = job /\ slots' = slots /\ pins' = pins
      BY <1>3 DEF StopWaiting, role, routing
    <2> SUFFICES ASSUME Ingress' = Ingress, Attachments' = Attachments
                 PROVE  RoleType' /\ WireType' /\ SetsType'
      BY <2>1, Aside
    <2>2. RoleType'
      BY <1>1, <1>3 DEF StopWaiting, Enter, Stages, role, routing, RoleType, PCs
    <2>3. WireType'
      BY <1>1, <1>3 DEF StopWaiting, Enter, Stages, role, routing, WireType, PCs
    <2>4. SetsType'
      BY <1>1, <1>3 DEF StopWaiting, Enter, Stages, role, routing, SetsType, PCs
    <2> QED
      BY <2>2, <2>3, <2>4
  <1>4. CASE IngressStopped
    <2>1. job' = job /\ slots' = slots /\ pins' = pins
      BY <1>4 DEF IngressStopped, role, routing
    <2> SUFFICES ASSUME Ingress' = Ingress, Attachments' = Attachments
                 PROVE  RoleType' /\ WireType' /\ SetsType'
      BY <2>1, Aside
    <2>2. RoleType'
      BY <1>1, <1>4 DEF IngressStopped, Enter, Stages, role, routing, RoleType, PCs
    <2>3. WireType'
      BY <1>1, <1>4 DEF IngressStopped, Enter, Stages, role, routing, WireType, PCs
    <2>4. SetsType'
      BY <1>1, <1>4 DEF IngressStopped, Enter, Stages, role, routing, SetsType, PCs
    <2> QED
      BY <2>2, <2>3, <2>4
  <1>5. CASE DrainTasks
    <2>1. job' = job /\ slots' = slots /\ pins' = pins
      BY <1>5 DEF DrainTasks, role, routing
    <2> SUFFICES ASSUME Ingress' = Ingress, Attachments' = Attachments
                 PROVE  RoleType' /\ WireType' /\ SetsType'
      BY <2>1, Aside
    <2>2. RoleType'
      BY <1>1, <1>5 DEF DrainTasks, Enter, Stages, role, routing, RoleType, PCs
    <2>3. WireType'
      BY <1>1, <1>5 DEF DrainTasks, Enter, Stages, role, routing, WireType, PCs
    <2>4. SetsType'
      BY <1>1, <1>5 DEF DrainTasks, Enter, Stages, role, routing, SetsType, PCs
    <2> QED
      BY <2>2, <2>3, <2>4
  <1>6. CASE ClosePeers
    <2>1. job' = job /\ slots' = slots /\ pins' = pins
      BY <1>6 DEF ClosePeers, role, routing
    <2> SUFFICES ASSUME Ingress' = Ingress, Attachments' = Attachments
                 PROVE  RoleType' /\ WireType' /\ SetsType'
      BY <2>1, Aside
    <2>2. RoleType'
      BY <1>1, <1>6 DEF ClosePeers, Enter, Stages, Live, role, routing, RoleType, PCs
    <2>3. WireType'
      BY <1>1, <1>6 DEF ClosePeers, Enter, Stages, Live, role, routing, WireType, PCs
    <2>4. SetsType'
      BY <1>1, <1>6 DEF ClosePeers, Enter, Stages, Live, role, routing, SetsType, PCs
    <2> QED
      BY <2>2, <2>3, <2>4
  <1>7. CASE NativeStopped
    <2>1. job' = job /\ slots' = slots /\ pins' = pins
      BY <1>7 DEF NativeStopped, role, routing
    <2> SUFFICES ASSUME Ingress' = Ingress, Attachments' = Attachments
                 PROVE  RoleType' /\ WireType' /\ SetsType'
      BY <2>1, Aside
    <2>2. RoleType'
      BY <1>1, <1>7 DEF NativeStopped, Enter, Stages, role, routing, RoleType, PCs
    <2>3. WireType'
      BY <1>1, <1>7 DEF NativeStopped, Enter, Stages, role, routing, WireType, PCs
    <2>4. SetsType'
      BY <1>1, <1>7 DEF NativeStopped, Enter, Stages, role, routing, SetsType, PCs
    <2> QED
      BY <2>2, <2>3, <2>4
  <1> QED
    BY <1>2, <1>3, <1>4, <1>5, <1>6, <1>7

\* The health of the dependencies opens and pauses the gate.
LEMMA HealthKeeps ==
    ASSUME IInv, NEW ready \in BOOLEAN,
           \/ DependencyHealth(ready)
    PROVE  IInv'
  <1>1. TypeOK /\ RoleType /\ WireType /\ SetsType
    BY Start
  <1>2. CASE DependencyHealth(ready)
    <2>1. job' = job /\ slots' = slots /\ pins' = pins
      BY <1>2 DEF DependencyHealth, role, routing
    <2> SUFFICES ASSUME Ingress' = Ingress, Attachments' = Attachments
                 PROVE  RoleType' /\ WireType' /\ SetsType'
      BY <2>1, Aside
    <2>2. RoleType'
      BY <1>1, <1>2 DEF DependencyHealth, SetDependencyReady, role, routing, RoleType, PCs
    <2>3. WireType'
      BY <1>1, <1>2 DEF DependencyHealth, SetDependencyReady, role, routing, WireType, PCs
    <2>4. SetsType'
      BY <1>1, <1>2 DEF DependencyHealth, SetDependencyReady, role, routing, SetsType, PCs
    <2> QED
      BY <2>2, <2>3, <2>4
  <1> QED
    BY <1>2

\* A peer is lost.
LEMMA LoseKeeps ==
    ASSUME IInv, NEW w \in Worker,
           \/ LosePeer(w)
    PROVE  IInv'
  <1>1. TypeOK /\ RoleType /\ WireType /\ SetsType
    BY Start
  <1>2. CASE LosePeer(w)
    <2>1. job' = job /\ slots' = slots /\ pins' = pins
      BY <1>2 DEF LosePeer, role, routing
    <2> SUFFICES ASSUME Ingress' = Ingress, Attachments' = Attachments
                 PROVE  RoleType' /\ WireType' /\ SetsType'
      BY <2>1, Aside
    <2>2. RoleType'
      BY <1>1, <1>2 DEF LosePeer, Live, role, routing, RoleType, PCs
    <2>3. WireType'
      BY <1>1, <1>2 DEF LosePeer, Live, role, routing, WireType, PCs
    <2>4. SetsType'
      BY <1>1, <1>2 DEF LosePeer, Live, role, routing, SetsType, PCs
    <2> QED
      BY <2>2, <2>3, <2>4
  <1> QED
    BY <1>2

\* An ingress connection is admitted.
LEMMA AdmitKeeps ==
    ASSUME IInv, NEW t \in Task, Kind(t) # "egress", Admit(t)
    PROVE  IInv'
  <1>1. TypeOK /\ RoleType /\ WireType /\ SetsType
    BY Start
  <1>2. job' = job /\ slots' = slots /\ pins' = pins
    BY DEF Admit, routing
  <1> SUFFICES ASSUME Ingress' = Ingress, Attachments' = Attachments
               PROVE  RoleType' /\ WireType' /\ SetsType'
    BY <1>2, Aside
  <1>3. RoleType'
    BY <1>1, JobType DEF Admit, RoleType
  <1>4. WireType'
    BY <1>1 DEF Admit, routing, WireType, PCs
  <1>5. SetsType'
    BY <1>1 DEF Admit, routing, SetsType
  <1> QED
    BY <1>3, <1>4, <1>5

\* An opener ends without a route, or enters the forwarder.
LEMMA OpenersKeep ==
    ASSUME IInv, NEW t \in Task, EnterForwarder(t) \/ CannotJoin(t) \/ CancelOpener(t)
    PROVE  IInv'
  <1>1. TypeOK /\ RestType /\ RoleType /\ WireType /\ SetsType
    BY Start
  <1>2. job' = job /\ slots' = slots /\ pins' = pins /\ gate' = gate /\ stage' = stage
        /\ peer' = peer /\ via' = via /\ pend' = pend /\ byWire' = byWire /\ dynamic' = dynamic
        /\ closed' = closed /\ signaled' = signaled /\ spawned' = spawned /\ over' = over
        /\ pending' \subseteq pending /\ evicted' = evicted
    BY DEF EnterForwarder, CannotJoin, CancelOpener
  <1> SUFFICES ASSUME Ingress' = Ingress, Attachments' = Attachments
               PROVE  RoleType' /\ WireType' /\ SetsType'
    BY <1>2, Aside
  <1>3. /\ lease' \subseteq lease /\ peerPermit' \subseteq peerPermit
        /\ pc' \in [Task -> PCs]
        /\ permit' \in [Task -> {"none", "task", "route", "cleanup"}]
    <2>1. CASE DropOpener(t)
      BY <1>1, <2>1, DropTypes
    <2>2. CASE ~DropOpener(t)
      <3>1. /\ permit' = [permit EXCEPT ![t] = "task"]
            /\ pc' = [pc EXCEPT ![t] = "entered"]
            /\ lease' = lease /\ peerPermit' = peerPermit
        BY <2>2 DEF EnterForwarder, CannotJoin, CancelOpener
      <3>2. pc' \in [Task -> PCs]
        BY <1>1, <3>1 DEF WireType, PCs
      <3>3. permit' \in [Task -> {"none", "task", "route", "cleanup"}]
        BY <1>1, <3>1 DEF WireType
      <3> QED
        BY <3>1, <3>2, <3>3
    <2> QED
      BY <2>1, <2>2
  <1> QED
    BY <1>1, <1>2, <1>3 DEF RoleType, WireType, SetsType

\* A route is listed.
LEMMA ListKeeps ==
    ASSUME IInv, NEW t \in Task, NEW next \in PCs, ListRoute(t, next)
    PROVE  IInv'
  <1>1. TypeOK /\ RoleType /\ WireType /\ SetsType
    BY Start
  <1>2. job' = job /\ slots' = slots /\ pins' = pins
    BY DEF ListRoute, role
  <1> SUFFICES ASSUME Ingress' = Ingress, Attachments' = Attachments
               PROVE  RoleType' /\ WireType' /\ SetsType'
    BY <1>2, Aside
  <1> QED
    BY <1>1 DEF ListRoute, role, RoleType, WireType, SetsType

\* A peer, its permit and the invitation.
LEMMA JoinTypes ==
    ASSUME TypeOK, NEW t \in Task, JoinPeer(t), Ingress' = Ingress, Attachments' = Attachments
    PROVE  /\ RoleType' /\ SetsType'
           /\ peer' \in [Worker -> [gen : 0 .. MaxPeers, st : {"none", "live", "lost", "failed"}]]
           /\ pc' \in [Task -> PCs]
           /\ via' \in [Task -> 0 .. MaxPeers]
           /\ pend' \in [Task -> SUBSET {"open", "receipt", "error"}]
           /\ permit' = permit
  <1> DEFINE w == job[t].worker
  <1>1. w \in Worker
    BY JobType DEF WorkerOf
  <1>2. RoleType /\ WireType /\ SetsType
    BY Parts DEF RestType
  <1>3. peer' \in [Worker -> [gen : 0 .. MaxPeers, st : {"none", "live", "lost", "failed"}]]
    <2>1. peer' = peer \/ /\ peer[w].gen < MaxPeers
                          /\ peer' = [peer EXCEPT ![w] = [gen |-> @.gen + 1, st |-> "live"]]
      BY DEF JoinPeer, EnsurePeer, WorkerOf
    <2>2. MaxPeers \in Nat
      BY GatewayAssumption
    <2>3. peer[w].gen \in 0 .. MaxPeers
      BY <1>1, <1>2 DEF WireType
    <2>4. peer[w].gen < MaxPeers => peer[w].gen + 1 \in 0 .. MaxPeers
      BY <2>2, <2>3
    <2> QED
      BY <1>1, <1>2, <2>1, <2>4 DEF WireType
  <1>4. via' \in [Task -> 0 .. MaxPeers]
    <2>1. via' = [via EXCEPT ![t] = peer'[w].gen]
      BY DEF JoinPeer, WorkerOf
    <2>2. peer'[w].gen \in 0 .. MaxPeers
      BY <1>1, <1>3
    <2> QED
      BY <1>2, <2>1, <2>2 DEF WireType
  <1>5. pc' \in [Task -> PCs]
    BY <1>2 DEF JoinPeer, WireType, PCs
  <1>6. pend' \in [Task -> SUBSET {"open", "receipt", "error"}]
    BY <1>2 DEF JoinPeer, WireType, Awaited
  <1>7. RoleType'
    BY <1>2 DEF JoinPeer, role, RoleType
  <1>8. SetsType'
    BY <1>2 DEF JoinPeer, SetsType
  <1>9. permit' = permit
    BY DEF JoinPeer
  <1> QED
    BY <1>3, <1>4, <1>5, <1>6, <1>7, <1>8, <1>9

\* An opener joins its peer; one that knows its call reserves the slot.
LEMMA JoinKeeps ==
    ASSUME IInv, NEW t \in Task, JoinAttachment(t) \/ JoinDestination(t) \/ JoinBroadcast(t)
    PROVE  IInv'
  <1>1. TypeOK /\ PinsMatch /\ WireType
    BY Start
  <1>2. JoinPeer(t)
    BY DEF JoinAttachment, JoinDestination, JoinBroadcast
  <1>3. job' = job
    BY <1>2 DEF JoinPeer, role
  <1>4. Ingress' = Ingress /\ Attachments' = Attachments
    BY <1>3, SameJob
  <1>5. TableType' /\ PinsMatch'
    <2>1. CASE JoinAttachment(t)
      BY <1>1, <1>3, <2>1, SameTable DEF JoinAttachment
    <2>2. CASE JoinDestination(t) \/ JoinBroadcast(t)
      <3> DEFINE k == job[t].key
                 w == job[t].worker
      <3>1. k \in Key /\ w \in Worker
        BY <1>1, JobType DEF KeyOf, WorkerOf
      <3>2. ReserveRoute(k, w)
        BY <2>2 DEF JoinDestination, JoinBroadcast, KeyOf, WorkerOf
      <3> HIDE DEF k, w
      <3> QED
        BY <1>1, <1>3, <3>1, <3>2, ReserveKeeps
    <2> QED
      BY <2>1, <2>2
  <1>6. pending' \subseteq Attachments'
    BY <1>1, <1>4 DEF WireType, JoinAttachment, JoinDestination, JoinBroadcast
  <1>7. /\ RoleType' /\ SetsType'
        /\ peer' \in [Worker -> [gen : 0 .. MaxPeers, st : {"none", "live", "lost", "failed"}]]
        /\ pc' \in [Task -> PCs]
        /\ via' \in [Task -> 0 .. MaxPeers]
        /\ pend' \in [Task -> SUBSET {"open", "receipt", "error"}]
        /\ permit' = permit
    BY <1>1, <1>2, <1>4, JoinTypes
  <1>8. WireType'
    BY <1>1, <1>6, <1>7 DEF WireType
  <1> QED
    BY <1>5, <1>7, <1>8, Settled

\* An open that fails rolls its reservation back.
LEMMA OpenFailsKeeps ==
    ASSUME IInv, NEW t \in Task, OpenFails(t)
    PROVE  IInv'
  <1>1. TypeOK /\ PinsMatch /\ RestType /\ RoleType /\ WireType /\ SetsType
    BY Start
  <1>2. job' = job /\ DropOpener(t)
    BY DEF OpenFails
  <1>3. TableType' /\ PinsMatch'
    <2>1. CASE t \in Attachments
      BY <1>1, <1>2, <2>1, SameTable DEF OpenFails
    <2>2. CASE t \notin Attachments
      <3> DEFINE k == job[t].key
      <3>1. k \in Key
        BY <1>1, JobType DEF KeyOf
      <3>2. RollbackRoute(k)
        BY <2>2 DEF OpenFails, KeyOf
      <3> HIDE DEF k
      <3> QED
        BY <1>1, <1>2, <3>1, <3>2, RollbackKeeps
    <2> QED
      BY <2>1, <2>2
  <1>4. /\ lease' \subseteq lease /\ peerPermit' \subseteq peerPermit
        /\ pc' \in [Task -> PCs]
        /\ permit' \in [Task -> {"none", "task", "route", "cleanup"}]
    BY <1>1, <1>2, DropTypes
  <1>5. Ingress' = Ingress /\ Attachments' = Attachments
    BY <1>2, SameJob
  <1>6. RoleType' /\ SetsType'
    <2>1. evicted' \subseteq Task
      <3>1. KeyOf(t) \in Key
        BY <1>1, JobType
      <3>2. evicted' = evicted \/ RollbackRoute(KeyOf(t))
        BY DEF OpenFails
      <3> QED
        BY <1>1, <3>1, <3>2, RollbackEvicts DEF SetsType
    <2> QED
      BY <1>1, <1>4, <1>5, <2>1 DEF OpenFails, RoleType, SetsType
  <1>7. WireType'
    BY <1>1, <1>4, <1>5 DEF OpenFails, WireType
  <1> QED
    BY <1>3, <1>6, <1>7, Settled

\* The slot of an attachment is reserved, or the attachment is dropped.
LEMMA ReserveAttachmentKeeps ==
    ASSUME IInv, NEW t \in Task, ReserveAttachment(t)
    PROVE  IInv'
  <1> DEFINE k == job[t].key
             w == job[t].worker
  <1>1. TypeOK /\ PinsMatch /\ RestType /\ RoleType /\ WireType /\ SetsType
    BY Start
  <1>2. job' = job
    BY DEF ReserveAttachment
  <1>3. k \in Key /\ w \in Worker
    BY <1>1, JobType DEF KeyOf, WorkerOf
  <1>4. \/ /\ ReserveRoute(k, w)
           /\ pc' = [pc EXCEPT ![t] = "reserved"]
           /\ lease' = lease /\ pending' = pending /\ permit' = permit /\ peerPermit' = peerPermit
        \/ /\ pending' = pending \ {t}
           /\ DropOpener(t)
           /\ slots' = slots /\ pins' = pins
    BY DEF ReserveAttachment, KeyOf, WorkerOf
  <1>5. gate' = gate /\ stage' = stage /\ peer' = peer /\ via' = via /\ pend' = pend
        /\ byWire' = byWire /\ dynamic' = dynamic /\ closed' = closed /\ signaled' = signaled
        /\ spawned' = spawned /\ over' = over /\ evicted' = evicted
    BY DEF ReserveAttachment
  <1> HIDE DEF k, w
  <1>6. TableType' /\ PinsMatch'
    <2>1. CASE ReserveRoute(k, w)
      BY <1>1, <1>2, <1>3, <2>1, ReserveKeeps
    <2>2. CASE slots' = slots /\ pins' = pins
      BY <1>1, <1>2, <2>2, SameTable
    <2> QED
      BY <1>4, <2>1, <2>2
  <1>7. /\ lease' \subseteq lease /\ peerPermit' \subseteq peerPermit /\ pending' \subseteq pending
        /\ pc' \in [Task -> PCs]
        /\ permit' \in [Task -> {"none", "task", "route", "cleanup"}]
    <2>1. CASE DropOpener(t)
      BY <1>1, <1>4, <2>1, DropTypes
    <2>2. CASE ~DropOpener(t)
      BY <1>1, <1>4, <2>2 DEF WireType, PCs
    <2> QED
      BY <2>1, <2>2
  <1>8. Ingress' = Ingress /\ Attachments' = Attachments
    BY <1>2, SameJob
  <1>9. RoleType' /\ WireType' /\ SetsType'
    BY <1>1, <1>2, <1>5, <1>7, <1>8 DEF RoleType, WireType, SetsType
  <1> QED
    BY <1>6, <1>9, Settled

\* The route goes into its slot; one that shutdown took away is rolled back.
LEMMA ActivateRouteKeeps ==
    ASSUME IInv, NEW t \in Task, ActivateRoute(t)
    PROVE  IInv'
  <1> DEFINE k == job[t].key
  <1>1. TypeOK /\ PinsMatch /\ RestType /\ RoleType /\ WireType /\ SetsType
    BY Start
  <1>2. job' = job
    BY DEF ActivateRoute
  <1>3. k \in Key /\ k = KeyOf(t)
    BY <1>1, JobType DEF KeyOf
  <1>4. \/ /\ Reserved(t) /\ pins' = pins
           /\ slots' = [slots EXCEPT ![k] = [st |-> "active", route |-> t]]
           /\ permit' = [permit EXCEPT ![t] = "route"]
           /\ pc' = [pc EXCEPT ![t] = "active"]
           /\ lease' = lease /\ pending' = pending /\ peerPermit' = peerPermit
           /\ evicted' = evicted
        \/ /\ pending' = pending \ {t}
           /\ DropOpener(t)
           /\ RollbackRoute(k)
    BY DEF ActivateRoute, KeyOf
  <1>5. gate' = gate /\ stage' = stage /\ peer' = peer /\ via' = via /\ pend' = pend
        /\ byWire' = byWire /\ dynamic' = dynamic /\ closed' = closed /\ signaled' = signaled
        /\ spawned' = spawned /\ over' = over
    BY DEF ActivateRoute
  <1> HIDE DEF k
  <1>6. TableType' /\ PinsMatch'
    <2>1. CASE RollbackRoute(k)
      BY <1>1, <1>2, <1>3, <2>1, RollbackKeeps
    <2>2. CASE ~RollbackRoute(k)
      BY <1>1, <1>2, <1>3, <1>4, <2>2, ActivateKeeps
    <2> QED
      BY <2>1, <2>2
  <1>7. /\ lease' \subseteq lease /\ peerPermit' \subseteq peerPermit /\ pending' \subseteq pending
        /\ pc' \in [Task -> PCs]
        /\ permit' \in [Task -> {"none", "task", "route", "cleanup"}]
    <2>1. CASE DropOpener(t)
      BY <1>1, <1>4, <2>1, DropTypes
    <2>2. CASE ~DropOpener(t)
      BY <1>1, <1>4, <2>2 DEF WireType, PCs
    <2> QED
      BY <2>1, <2>2
  <1>8. Ingress' = Ingress /\ Attachments' = Attachments
    BY <1>2, SameJob
  <1>9. evicted' \subseteq Task
    BY <1>1, <1>3, <1>4, RollbackEvicts DEF SetsType
  <1>10. RoleType' /\ WireType' /\ SetsType'
    BY <1>1, <1>2, <1>5, <1>7, <1>8, <1>9 DEF RoleType, WireType, SetsType
  <1> QED
    BY <1>6, <1>10, Settled

\* Steps that retire routes.
LEMMA RetiringKeeps ==
    ASSUME IInv,
           \/ \E t \in Task : SubscribeFails(t) \/ SessionReject(t) \/ SessionEnd(t)
           \/ \E t \in Task, why \in {"fail", "close"} : RetireSpawned(t, why)
           \/ \E w \in Worker : FailPeer(w)
           \/ RetireAll
    PROVE  IInv'
  <1>1. TypeOK /\ PinsMatch /\ RestType /\ RoleType /\ WireType /\ SetsType
    BY Start
  <1>2. job' = job /\ gate' = gate /\ lease' \subseteq lease /\ via' = via
        /\ pending' \subseteq pending /\ signaled' = signaled /\ spawned' \subseteq spawned
    BY DEF SubscribeFails, SessionReject, SessionEnd, RetireSpawned, FailPeer, RetireAll, role
  <1>3. \A t \in Task : KeyOf(t) \in Key
    BY <1>1, JobType
  <1>4. PICK K \in SUBSET Key : RetireRoutes(K)
    <2>1. CASE \E t \in Task, why \in {"fail", "close"} : RetireSpawned(t, why)
      BY <1>3, <2>1 DEF RetireSpawned
    <2>2. CASE \E t \in Task : SubscribeFails(t)
      BY <1>3, <2>2 DEF SubscribeFails
    <2>3. CASE \E t \in Task : SessionReject(t) \/ SessionEnd(t)
      <3>1. PICK t \in Task : RetireListed({t})
        BY <2>3 DEF SessionReject, SessionEnd
      <3>2. {KeyOf(s) : s \in byWire \cap {t}} \in SUBSET Key
        BY <1>3
      <3> QED
        BY <3>1, <3>2 DEF RetireListed
    <2>4. CASE \E w \in Worker : FailPeer(w)
      <3>1. PICK w \in Worker : RetireListed(On(w))
        BY <2>4 DEF FailPeer
      <3>2. {KeyOf(s) : s \in byWire \cap On(w)} \in SUBSET Key
        BY <1>3 DEF On
      <3> QED
        BY <3>1, <3>2 DEF RetireListed
    <2>5. CASE RetireAll
      BY <2>5 DEF RetireAll
    <2> QED
      BY <2>1, <2>2, <2>3, <2>4, <2>5
  <1>5. /\ TableType' /\ PinsMatch'
        /\ permit' \in [Task -> {"none", "task", "route", "cleanup"}]
        /\ peerPermit' \subseteq Task /\ byWire' \subseteq Task
        /\ dynamic' \subseteq Task /\ closed' \subseteq Task /\ evicted' \subseteq Task
    BY <1>1, <1>2, <1>4, RetireTypes
  <1>6. Ingress' = Ingress /\ Attachments' = Attachments
    BY <1>2, SameJob
  <1>7. stage' \in Stages
    BY <1>1 DEF RoleType, SubscribeFails, SessionReject, SessionEnd, RetireSpawned, FailPeer,
                RetireAll, role, Enter, Stages
  <1>8. RoleType'
    BY <1>1, <1>2, <1>6, <1>7 DEF RoleType
  <1>9. pc' \in [Task -> PCs]
    BY <1>1 DEF WireType, PCs, SubscribeFails, SessionReject, SessionEnd, RetireSpawned,
                FailPeer, RetireAll
  <1>10. peer' \in [Worker -> [gen : 0 .. MaxPeers, st : {"none", "live", "lost", "failed"}]]
    <2>1. peer' = peer \/ \E w \in Worker : peer' = [peer EXCEPT ![w].st = "failed"]
      BY DEF SubscribeFails, SessionReject, SessionEnd, RetireSpawned, FailPeer, RetireAll
    <2> QED
      BY <1>1, <2>1 DEF WireType
  <1>11. pend' \in [Task -> SUBSET {"open", "receipt", "error"}]
    <2>1. \A T : Revoked(T) \in [Task -> SUBSET {"open", "receipt", "error"}]
      BY <1>1 DEF WireType, Revoked
    <2>2. \A t \in Task : Rejected(t) \in [Task -> SUBSET {"open", "receipt", "error"}]
      BY <2>1 DEF Rejected
    <2> QED
      <3>1. \A w \in Worker : FailPeer(w) => pend' \in [Task -> SUBSET {"open", "receipt", "error"}]
        BY <1>1 DEF WireType, FailPeer
      <3>2. \A t \in Task : SessionReject(t) \/ SessionEnd(t)
                              => pend' \in [Task -> SUBSET {"open", "receipt", "error"}]
        BY <2>1, <2>2 DEF SessionReject, SessionEnd
      <3>3. pend' = pend \/ (\E w \in Worker : FailPeer(w))
                         \/ \E t \in Task : SessionReject(t) \/ SessionEnd(t)
        BY DEF SubscribeFails, RetireSpawned, RetireAll
      <3> QED
        BY <1>1, <3>1, <3>2, <3>3 DEF WireType
  <1>12. WireType'
    BY <1>1, <1>2, <1>5, <1>6, <1>9, <1>10, <1>11 DEF WireType
  <1>13. over' \subseteq Task
    BY <1>1 DEF SetsType, SubscribeFails, SessionReject, SessionEnd, RetireSpawned, FailPeer,
                RetireAll, Attachments
  <1>14. SetsType'
    BY <1>1, <1>2, <1>5, <1>13 DEF SetsType
  <1> QED
    BY <1>5, <1>8, <1>12, <1>14, Settled

-----------------------------------------------------------------------------
(***************************************************************************)
(* The theorems.                                                           *)
(***************************************************************************)

\* At the start there are no slots and no pins.
LEMMA InitInv == Init => IInv
  <1> SUFFICES ASSUME Init PROVE IInv
    OBVIOUS
  <1>1. TableType
    BY NoPinType DEF Init, TableType, Slot, Free
  <1>2. PinsMatch
    <2>1. \A c \in Call : Used(c) = {}
      BY DEF Init, Used, Free
    <2>2. \A c \in Call : pins[c].count = 0
      BY NoPinType DEF Init
    <2> QED
      BY <2>1, <2>2, FS_EmptySet DEF PinsMatch, PinOf
  <1>3. RoleType
    BY DEF Init, RoleType, Stages
  <1>4. WireType
    <2>1. 0 \in 0 .. MaxPeers
      BY GatewayAssumption
    <2> QED
      BY <2>1 DEF Init, WireType, PCs
  <1>5. SetsType
    BY DEF Init, SetsType
  <1> QED
    BY <1>1, <1>2, <1>3, <1>4, <1>5, Parts DEF IInv, RestType

\* Every step keeps the invariant.
LEMMA NextInv == IInv /\ [Next]_vars => IInv'
  <1> SUFFICES ASSUME IInv, [Next]_vars PROVE IInv'
    OBVIOUS
  <1>1. CASE \E t \in Task : Open(t)
    <2>1. PICK t \in Task : Open(t)
      BY <1>1
    <2>2. "listed" \in PCs /\ "open" \in PCs
      BY DEF PCs
    <2>3. CASE ListAttachment(t) \/ ListDestination(t) \/ ListBroadcast(t)
      BY <2>2, <2>3, ListKeeps DEF ListAttachment, ListDestination, ListBroadcast
    <2> QED
      BY <2>1, <2>3, OpenersKeep, JoinKeeps, TasksKeep, OpenFailsKeeps,
         ReserveAttachmentKeeps, ActivateRouteKeeps, RetiringKeeps DEF Open
  <1>2. CASE Background
    BY <1>2, RetiringKeeps, TasksKeep DEF Background
  <1>3. CASE Stop
    BY <1>3, RetiringKeeps, StopKeeps, TasksKeep DEF Stop
  <1>4. CASE Outside
    <2>1. CASE \E ready \in BOOLEAN : DependencyHealth(ready)
      BY <2>1, HealthKeeps
    <2>2. CASE BeginDrain
      BY <2>2, StopKeeps
    <2>3. CASE \E w \in Worker : LosePeer(w)
      BY <2>3, LoseKeeps
    <2>4. CASE \E t \in Task : RunAttachment(t) \/ RunBroadcast(t) \/ RunNativeAttachment(t)
      BY <2>4, AdmitKeeps DEF RunAttachment, RunBroadcast, RunNativeAttachment
    <2>5. CASE \E t \in Task : \/ UctpPumpsEnd(t) \/ NativePumpsEnd(t)
                               \/ BroadcastPumpEnds(t) \/ ProxyEnds(t)
      BY <2>5, TasksKeep DEF UctpPumpsEnd, NativePumpsEnd, BroadcastPumpEnds, ProxyEnds
    <2>6. CASE \E t \in Task : \/ PrepareEgress(t) \/ Refuse(t) \/ RouteFault(t)
                               \/ BadMessage(t) \/ AnnounceStream(t)
      BY <2>6, TasksKeep
    <2>7. CASE \E t \in Task : CancelOpener(t)
      BY <2>7, OpenersKeep
    <2>8. CASE \E t \in Task, what \in {"open", "receipt"} : Reply(t, what)
      BY <2>8, ReplyKeeps
    <2>9. CASE \E t \in Task : SessionReject(t) \/ SessionEnd(t)
      BY <2>9, RetiringKeeps
    <2> QED
      BY <1>4, <2>1, <2>2, <2>3, <2>4, <2>5, <2>6, <2>7, <2>8, <2>9 DEF Outside
  <1>5. CASE UNCHANGED vars
    <2>1. TypeOK /\ RoleType /\ WireType /\ SetsType
      BY Start
    <2> SUFFICES ASSUME Ingress' = Ingress, Attachments' = Attachments
                 PROVE  RoleType' /\ WireType' /\ SetsType'
      BY <1>5, Aside DEF vars
    <2> QED
      BY <1>5, <2>1 DEF vars, RoleType, WireType, SetsType
  <1> QED
    BY <1>1, <1>2, <1>3, <1>4, <1>5 DEF Next, Progress, Stopped

\* Type correctness and the match of slots and pins are inductive: reserve,
\* activate, roll back and retire each move a slot and its pin together.
THEOREM Invariance == Spec => []IInv
  <1> QED
    BY InitInv, NextInv, PTL DEF Spec

\* Every variable of the gateway keeps its type.
THEOREM TypeCorrect == Spec => []TypeOK
  <1>1. IInv => TypeOK
    BY DEF IInv
  <1> QED
    BY <1>1, Invariance, PTL

\* A call is carried to one worker only, whatever the openers, retirements,
\* peers and the stop of the role do, for any number of tasks and workers.
THEOREM OneWorkerCorrect == Spec => []OneWorkerPerCall
  <1>1. IInv => OneWorkerPerCall
    BY DEF IInv, PinsMatch, PinOf, Used, Target, OneWorkerPerCall
  <1> QED
    BY <1>1, Invariance, PTL

-----------------------------------------------------------------------------
(***************************************************************************)
(* What a task holds.  The facts are about one task, its permits and the   *)
(* slot of its key, which other tasks may share.                           *)
(***************************************************************************)
Joining == {"new", "admitted", "entered"}
Opening == {"opening", "opened", "reserved"}
Serving == {"active", "listed", "open", "cleaning", "done"}

\* A slot holds a route of its key.
RouteKeys == \A k \in Key : slots[k].st = "active" => KeyOf(slots[k].route) = k

\* The route of a task is in its slot.
Mine(t) == slots[KeyOf(t)].st = "active" /\ slots[KeyOf(t)].route = t

\* A route that has its permits and was not taken out of its slot by the
\* rollback of another task.
Held(t) == permit[t] = "route" /\ t \notin evicted

\* The permits and the admissions of a task, by where its future is.
HoldsInv(t) ==
    /\ Held(t) <=> Mine(t)
    /\ t \in evicted => pc[t] \in Serving
    /\ pc[t] \in {"new", "admitted"} => permit[t] = "none"
    /\ pc[t] \in {"entered"} \cup Opening => permit[t] = "task"
    /\ pc[t] \in Serving => permit[t] # "task"
    /\ t \in peerPermit => permit[t] \in {"task", "route"}
    /\ t \in lease => pc[t] \notin {"new", "cleaning", "done"}
    /\ t \in pending => pc[t] \in Opening \cup {"active", "listed"}

\* A route that was retired is closed.
ClosedInv(t) ==
    /\ t \in closed => pc[t] \in Serving /\ permit[t] # "route"
    /\ pc[t] \in Serving \ {"done"} /\ permit[t] # "route" => t \in closed
    /\ pc[t] \in {"listed", "open"} => t \in byWire \cup closed

\* A route that is to end and is still in its slot has its retirement under
\* way.
SpawnedInv(t) ==
    /\ t \in signaled => pc[t] \in Serving
    /\ t \in signaled /\ Held(t) => <<t, "fail">> \in spawned
    /\ pc[t] = "cleaning" /\ Held(t) => <<t, "close">> \in spawned
    /\ pc[t] = "done" /\ Held(t) /\ t \in Attachments =>
          \E why \in {"fail", "close"} : <<t, why>> \in spawned

\* A session that ended is neither pending nor open, unless its route was
\* taken out of its slot.
OverInv(t) ==
    /\ pc[t] \in Joining => via[t] = 0 /\ t \notin over
    /\ t \in over \cap Attachments => t \notin pending /\ (pc[t] = "open" => t \in closed \cup evicted)

TaskInv(t) == HoldsInv(t) /\ ClosedInv(t) /\ SpawnedInv(t) /\ OverInv(t)

KeptInv == IInv /\ RouteKeys /\ \A t \in Task : TaskInv(t)

\* A retirement closes the route in a slot of K, and nothing else of a task.
LEMMA RetireTask ==
    ASSUME TypeOK, RouteKeys, job' = job, NEW K \in SUBSET Key, RetireRoutes(K),
           NEW t \in Task, HoldsInv(t), ClosedInv(t)
    PROVE  /\ t \in evicted' <=> t \in evicted
           /\ KeyOf(t) \in K /\ Held(t) =>
                 /\ permit'[t] \in {"none", "cleanup"} /\ t \in closed'
                 /\ t \notin peerPermit' /\ ~Mine(t)'
           /\ ~(KeyOf(t) \in K /\ Held(t)) =>
                 /\ permit'[t] = permit[t] /\ (t \in closed' <=> t \in closed)
                 /\ (t \in peerPermit' <=> t \in peerPermit)
                 /\ (t \in byWire' <=> t \in byWire) /\ (Mine(t)' <=> Mine(t))
  <1> DEFINE gone == ClosedBy(K)
  <1>1. KeyOf(t) \in Key /\ KeyOf(t)' = KeyOf(t)
    BY JobType DEF KeyOf
  <1>2. t \in gone <=> KeyOf(t) \in K /\ Held(t)
    <2>1. t \in gone => KeyOf(t) \in K /\ Mine(t)
      BY DEF ClosedBy, RouteKeys, Mine
    <2>2. KeyOf(t) \in K /\ Mine(t) /\ t \notin closed => t \in gone
      BY DEF ClosedBy, Mine
    <2> QED
      BY <2>1, <2>2 DEF HoldsInv, ClosedInv, Held
  <1>3. /\ slots' = [k \in Key |-> IF k \in K THEN Free ELSE slots[k]]
        /\ permit' = ReleasePermits(gone) /\ peerPermit' = peerPermit \ gone
        /\ closed' = closed \cup gone /\ byWire' = byWire \ gone
        /\ evicted' = evicted
    BY DEF RetireRoutes
  <1>4. KeyOf(t) \in K => ~Mine(t)'
    BY <1>1, <1>3 DEF Mine, Free
  <1>5. KeyOf(t) \notin K => (Mine(t)' <=> Mine(t))
    BY <1>1, <1>3 DEF Mine
  <1>6. permit'[t] = IF t \notin gone THEN permit[t]
                     ELSE IF t \in Attachments THEN "cleanup" ELSE "none"
    BY <1>3 DEF ReleasePermits
  <1> HIDE DEF gone
  <1>7. CASE t \in gone
    BY <1>2, <1>3, <1>4, <1>6, <1>7
  <1>8. CASE t \notin gone
    <2>1. Mine(t)' <=> Mine(t)
      BY <1>2, <1>4, <1>5, <1>8 DEF HoldsInv, Held
    <2> QED
      BY <1>2, <1>3, <1>6, <1>8, <2>1
  <1> QED
    BY <1>7, <1>8

\* What a step does to the task that it does not move.
Shut(t) ==
    /\ Held(t) /\ (t \in evicted' <=> t \in evicted) /\ permit'[t] \in {"none", "cleanup"}
    /\ t \in closed' /\ t \notin peerPermit' /\ ~Mine(t)'

Kept(t) ==
    /\ permit'[t] = permit[t] \/ (permit[t] = "cleanup" /\ permit'[t] = "none")
    /\ t \in closed' <=> t \in closed
    /\ t \in peerPermit' => t \in peerPermit
    /\ t \in byWire => t \in byWire'
    /\ Mine(t)' <=> Mine(t)
    /\ t \in evicted' <=> t \in evicted
    /\ Held(t) => \A why \in {"fail", "close"} : <<t, why>> \in spawned => <<t, why>> \in spawned'

\* The rollback of another task takes its route out of the slot.
Lost(t) ==
    /\ Held(t) /\ permit'[t] = permit[t] /\ t \in evicted' /\ ~Mine(t)'
    /\ t \in closed' <=> t \in closed
    /\ t \in peerPermit' => t \in peerPermit
    /\ t \in byWire => t \in byWire'

\* A task stays where it is: its route is closed, kept or lost, it may lose its
\* admissions, its route may fail and its session may end.
LEMMA Stays ==
    ASSUME TypeOK, job' = job, NEW t \in Task, TaskInv(t),
           pc'[t] = pc[t], via'[t] = via[t],
           t \in lease' => t \in lease, t \in pending' => t \in pending,
           t \in signaled' => t \in signaled \/ (pc[t] \in Serving /\ <<t, "fail">> \in spawned'),
           t \in over' => t \in over \/ (/\ pc[t] \notin Joining /\ t \notin pending'
                                         /\ pc[t] = "open" => t \in closed' \cup evicted'),
           Shut(t) \/ Kept(t) \/ Lost(t)
    PROVE  TaskInv(t)'
  <1>1. /\ (t \in Attachments)' <=> t \in Attachments
        /\ pc[t] \in Joining \cup Opening \cup Serving
        /\ permit[t] \in {"none", "task", "route", "cleanup"}
    <2>1. Attachments' = Attachments
      BY SameJob
    <2>2. pc[t] \in PCs
      BY DEF TypeOK
    <2>3. permit[t] \in {"none", "task", "route", "cleanup"}
      BY DEF TypeOK
    <2> QED
      BY <2>1, <2>2, <2>3 DEF PCs, Joining, Opening, Serving
  <1>2. Held(t) => pc[t] \in Serving
    BY <1>1 DEF TaskInv, HoldsInv, Joining, Held
  <1>3. HoldsInv(t)'
    <2>1. CASE Shut(t)
      BY <1>2, <2>1 DEF TaskInv, HoldsInv, Shut, Joining, Opening, Serving, Held
    <2>2. CASE Kept(t)
      BY <2>2 DEF TaskInv, HoldsInv, Kept, Opening, Serving, Held
    <2>3. CASE Lost(t)
      BY <1>2, <2>3 DEF TaskInv, HoldsInv, Lost, Opening, Serving, Held
    <2> QED
      BY <2>1, <2>2, <2>3
  <1>4. ClosedInv(t)'
    <2>1. CASE Shut(t)
      BY <1>2, <2>1 DEF ClosedInv, Shut
    <2>2. CASE Kept(t) \/ Lost(t)
      BY <2>2 DEF TaskInv, ClosedInv, Kept, Lost
    <2> QED
      BY <2>1, <2>2
  <1>5. SpawnedInv(t)'
    <2>1. CASE Shut(t) \/ Lost(t)
      BY <2>1 DEF TaskInv, SpawnedInv, Shut, Lost, Held
    <2>2. CASE Kept(t)
      BY <1>1, <2>2 DEF TaskInv, SpawnedInv, Kept, Held
    <2> QED
      BY <2>1, <2>2
  <1>6. OverInv(t)'
    BY <1>1 DEF TaskInv, OverInv, Shut, Kept, Lost
  <1> QED
    BY <1>3, <1>4, <1>5, <1>6 DEF TaskInv

\* A retirement seen by a task that does not move.
LEMMA RetireStays ==
    ASSUME TypeOK, RouteKeys, job' = job, NEW K \in SUBSET Key, RetireRoutes(K),
           NEW t \in Task, TaskInv(t),
           Held(t) /\ KeyOf(t) \notin K =>
               \A why \in {"fail", "close"} : <<t, why>> \in spawned => <<t, why>> \in spawned'
    PROVE  Shut(t) \/ Kept(t)
  BY RetireTask DEF TaskInv, Shut, Kept

-----------------------------------------------------------------------------
\* The keys of the routes, by what a step does to the table.
LEMMA RouteKeysKept ==
    ASSUME TypeOK, RouteKeys, job' = job,
           \/ slots' = slots
           \/ \E k \in Key : RollbackRoute(k)
           \/ \E k \in Key, w \in Worker : ReserveRoute(k, w)
           \/ \E t \in Task : slots' = [slots EXCEPT ![KeyOf(t)] = [st |-> "active", route |-> t]]
           \/ \E K \in SUBSET Key : RetireRoutes(K)
    PROVE  RouteKeys'
  <1>1. slots \in [Key -> Slot] /\ \A t \in Task : KeyOf(t) \in Key
    BY JobType DEF TypeOK
  <1>2. \A t : KeyOf(t)' = KeyOf(t)
    BY DEF KeyOf
  <1>3. CASE slots' = slots
    BY <1>2, <1>3 DEF RouteKeys, KeyOf
  <1>4. CASE \E k \in Key : RollbackRoute(k)
    <2>1. PICK k \in Key : slots' = [slots EXCEPT ![k] = Free]
      BY <1>4 DEF RollbackRoute
    <2> QED
      BY <1>1, <2>1 DEF RouteKeys, KeyOf, Free
  <1>5. CASE \E k \in Key, w \in Worker : ReserveRoute(k, w)
    <2>1. PICK k \in Key, w \in Worker : slots' = [slots EXCEPT ![k] = [st |-> "pending", worker |-> w]]
      BY <1>5 DEF ReserveRoute
    <2> QED
      BY <1>1, <2>1 DEF RouteKeys, KeyOf
  <1>6. CASE \E t \in Task : slots' = [slots EXCEPT ![KeyOf(t)] = [st |-> "active", route |-> t]]
    <2>1. PICK t \in Task : slots' = [slots EXCEPT ![KeyOf(t)] = [st |-> "active", route |-> t]]
      BY <1>6
    <2> QED
      BY <1>1, <2>1 DEF RouteKeys, KeyOf
  <1>7. CASE \E K \in SUBSET Key : RetireRoutes(K)
    <2>1. PICK K \in SUBSET Key : slots' = [k \in Key |-> IF k \in K THEN Free ELSE slots[k]]
      BY <1>7 DEF RetireRoutes
    <2> QED
      BY <2>1 DEF RouteKeys, KeyOf, Free
  <1> QED
    BY <1>3, <1>4, <1>5, <1>6, <1>7

\* What the step of a task t does to the slot of its key.
SlotStep(t) ==
    \/ slots' = slots /\ evicted' = evicted
    \/ RollbackRoute(KeyOf(t))
    \/ ReserveRoute(KeyOf(t), WorkerOf(t)) /\ evicted' = evicted
    \/ /\ Reserved(t) /\ evicted' = evicted
       /\ slots' = [slots EXCEPT ![KeyOf(t)] = [st |-> "active", route |-> t]]

\* The route of another task stays in its slot, or is taken out by a rollback.
LEMMA MineKept ==
    ASSUME TypeOK, RouteKeys, job' = job, NEW s \in Task, NEW t \in Task, s # t, SlotStep(t)
    PROVE  \/ (Mine(s)' <=> Mine(s)) /\ (s \in evicted' <=> s \in evicted)
           \/ Mine(s) /\ ~Mine(s)' /\ s \in evicted'
  <1>1. KeyOf(s)' = KeyOf(s) /\ KeyOf(s) \in Key /\ KeyOf(t) \in Key
    BY JobType DEF KeyOf
  <1>2. CASE slots' = slots /\ evicted' = evicted
    BY <1>1, <1>2 DEF Mine
  <1>3. CASE RollbackRoute(KeyOf(t))
    <2>1. /\ slots'[KeyOf(t)] = Free
          /\ \A k \in Key : k # KeyOf(t) => slots'[k] = slots[k]
          /\ evicted' = IF slots[KeyOf(t)].st = "active" THEN evicted \cup {slots[KeyOf(t)].route}
                        ELSE evicted
      BY <1>1, <1>3 DEF TypeOK, RollbackRoute
    <2>2. CASE Mine(s) /\ KeyOf(s) = KeyOf(t)
      BY <1>1, <2>1, <2>2 DEF Mine, Free
    <2>3. CASE ~(Mine(s) /\ KeyOf(s) = KeyOf(t))
      <3>1. s \in evicted' <=> s \in evicted
        BY <1>1, <2>1, <2>3 DEF RouteKeys, Mine
      <3>2. Mine(s)' <=> Mine(s)
        BY <1>1, <2>1, <2>3 DEF Mine, Free
      <3> QED
        BY <3>1, <3>2
    <2> QED
      BY <2>2, <2>3
  <1>4. ASSUME NEW x, slots' = [slots EXCEPT ![KeyOf(t)] = x], evicted' = evicted,
               slots[KeyOf(t)].st # "active", x.st = "active" => x.route # s
        PROVE  (Mine(s)' <=> Mine(s)) /\ (s \in evicted' <=> s \in evicted)
    <2>1. slots'[KeyOf(t)] = x /\ \A k \in Key : k # KeyOf(t) => slots'[k] = slots[k]
      BY <1>1, <1>4 DEF TypeOK
    <2> QED
      BY <1>1, <1>4, <2>1 DEF Mine
  <1>5. CASE ReserveRoute(KeyOf(t), WorkerOf(t)) /\ evicted' = evicted
    <2> DEFINE x == [st |-> "pending", worker |-> WorkerOf(t)]
    <2>1. slots' = [slots EXCEPT ![KeyOf(t)] = x] /\ slots[KeyOf(t)].st # "active"
      BY <1>5 DEF ReserveRoute, Free
    <2>2. x.st # "active"
      OBVIOUS
    <2> HIDE DEF x
    <2> QED
      BY <1>4, <1>5, <2>1, <2>2
  <1>6. CASE /\ Reserved(t) /\ evicted' = evicted
             /\ slots' = [slots EXCEPT ![KeyOf(t)] = [st |-> "active", route |-> t]]
    <2> DEFINE x == [st |-> "active", route |-> t]
    <2>1. slots' = [slots EXCEPT ![KeyOf(t)] = x] /\ slots[KeyOf(t)].st # "active"
      BY <1>6 DEF Reserved
    <2>2. x.route # s
      OBVIOUS
    <2> HIDE DEF x
    <2> QED
      BY <1>4, <1>6, <2>1, <2>2
  <1> QED
    BY <1>2, <1>3, <1>5, <1>6 DEF SlotStep

\* A step that leaves the table alone does so to the slot of every task.
LEMMA MineSame ==
    ASSUME job' = job, slots' = slots, NEW s
    PROVE  Mine(s)' <=> Mine(s)
  BY DEF Mine, KeyOf

-----------------------------------------------------------------------------
(***************************************************************************)
(* The steps that move no task.                                            *)
(***************************************************************************)
\* Neither a task nor a slot moves.
LEMMA CalmTasks ==
    ASSUME IInv, NEW s \in Task, TaskInv(s),
           \/ \E ready \in BOOLEAN : DependencyHealth(ready)
           \/ \E w \in Worker : LosePeer(w)
           \/ \E t \in Task : \/ SourceCleanup(t) \/ RouteFault(t) \/ AnnounceStream(t)
                              \/ BadMessage(t)
           \/ \E t \in Task, what \in {"open", "receipt"} : Reply(t, what)
           \/ BeginDrain \/ StopWaiting \/ IngressStopped \/ DrainTasks \/ ClosePeers
           \/ NativeStopped \/ UNCHANGED vars
    PROVE  TaskInv(s)' /\ slots' = slots /\ job' = job
  <1>1. TypeOK
    BY DEF IInv
  <1>2. /\ job' = job /\ slots' = slots /\ pc' = pc /\ via' = via /\ closed' = closed
        /\ peerPermit' = peerPermit /\ byWire' = byWire /\ over' = over
        /\ lease' = lease /\ pending' \subseteq pending /\ spawned \subseteq spawned'
        /\ evicted' = evicted
    BY DEF DependencyHealth, LosePeer, SourceCleanup, RouteFault, AnnounceStream, BadMessage,
           Reply, BeginDrain, StopWaiting, IngressStopped, DrainTasks, ClosePeers,
           NativeStopped, vars, role, routing
  <1>3. permit'[s] = permit[s] \/ (permit[s] = "cleanup" /\ permit'[s] = "none")
    BY <1>1 DEF TypeOK, DependencyHealth, LosePeer, SourceCleanup, RouteFault, AnnounceStream,
           BadMessage, Reply, BeginDrain, StopWaiting, IngressStopped, DrainTasks, ClosePeers,
           NativeStopped, vars, role, routing
  <1>4. s \in signaled' => s \in signaled \/ (pc[s] \in Serving /\ <<s, "fail">> \in spawned')
    BY DEF DependencyHealth, LosePeer, SourceCleanup, RouteFault, AnnounceStream, BadMessage,
           Reply, BeginDrain, StopWaiting, IngressStopped, DrainTasks, ClosePeers,
           NativeStopped, vars, role, routing, Serving
  <1>5. Kept(s)
    BY <1>2, <1>3, MineSame DEF Kept, Held
  <1> QED
    BY <1>1, <1>2, <1>4, <1>5, Stays

\* Routes are retired in the background, by the stop and by their peer.
LEMMA RetiringTasks ==
    ASSUME IInv, RouteKeys, NEW s \in Task, TaskInv(s),
           \/ \E t \in Task, why \in {"fail", "close"} : RetireSpawned(t, why)
           \/ \E t \in Task : SessionReject(t) \/ SessionEnd(t)
           \/ \E w \in Worker : FailPeer(w)
           \/ RetireAll
    PROVE  TaskInv(s)' /\ job' = job /\ \E K \in SUBSET Key : RetireRoutes(K)
  <1>1. TypeOK /\ \A t \in Task : KeyOf(t) \in Key
    BY JobType DEF IInv
  <1>2. /\ job' = job /\ pc' = pc /\ via' = via /\ lease' = lease
        /\ pending' \subseteq pending /\ signaled' = signaled
    BY DEF RetireSpawned, SessionReject, SessionEnd, FailPeer, RetireAll, role
  <1>3. pc[s] = "open" => s \in byWire \cup closed
    BY DEF TaskInv, ClosedInv
  <1>4. CASE \E t \in Task, why \in {"fail", "close"} : RetireSpawned(t, why)
    <2>1. PICK t \in Task, why \in {"fail", "close"} : RetireSpawned(t, why)
      BY <1>4
    <2>2. /\ spawned' = spawned \ {<<t, why>>} /\ RetireRoutes({KeyOf(t)}) /\ over' = over
          /\ {KeyOf(t)} \in SUBSET Key
      BY <1>1, <2>1 DEF RetireSpawned
    <2>3. KeyOf(s) \notin {KeyOf(t)} => \A y \in {"fail", "close"} : <<s, y>> \in spawned
                                            => <<s, y>> \in spawned'
      BY <2>2
    <2>4. Shut(s) \/ Kept(s)
      BY <1>1, <1>2, <2>2, <2>3, RetireStays
    <2> QED
      BY <1>1, <1>2, <2>2, <2>4, Stays
  <1>5. CASE RetireAll
    <2>1. RetireRoutes(Key) /\ spawned' = spawned /\ over' = over
      BY <1>5 DEF RetireAll
    <2>2. Shut(s) \/ Kept(s)
      BY <1>1, <1>2, <2>1, RetireStays
    <2> QED
      BY <1>1, <1>2, <2>1, <2>2, Stays
  <1>6. ASSUME NEW T, RetireListed(T), spawned' = spawned, pending' = pending \ T,
               over' = over \cup (T \cap Attachments), s \in T => pc[s] \notin Joining
        PROVE  TaskInv(s)' /\ \E K \in SUBSET Key : RetireRoutes(K)
    <2> DEFINE K == {KeyOf(t) : t \in byWire \cap T}
    <2>1. K \in SUBSET Key /\ RetireRoutes(K)
      BY <1>1, <1>6 DEF RetireListed, TypeOK
    <2>2. s \in byWire \cap T => KeyOf(s) \in K
      OBVIOUS
    <2> HIDE DEF K
    <2>3. Shut(s) \/ Kept(s)
      BY <1>1, <1>2, <1>6, <2>1, RetireStays
    <2>4. s \in T /\ pc[s] = "open" => s \in closed' \cup evicted'
      <3>1. CASE s \in closed
        BY <2>3, <3>1 DEF Shut, Kept
      <3>2. CASE s \notin closed /\ s \notin evicted /\ pc[s] = "open" /\ s \in T
        <4>1. Held(s)
          BY <3>2 DEF TaskInv, ClosedInv, Serving, Held
        <4>2. KeyOf(s) \in K
          BY <1>3, <2>2, <3>2
        <4> QED
          BY <1>1, <1>2, <2>1, <4>1, <4>2, RetireTask DEF TaskInv
      <3>3. CASE s \in evicted
        BY <2>3, <3>3 DEF Shut, Kept
      <3> QED
        BY <3>1, <3>2, <3>3
    <2>5. s \in over' => s \in over \/ (/\ pc[s] \notin Joining /\ s \notin pending'
                                        /\ pc[s] = "open" => s \in closed' \cup evicted')
      BY <1>6, <2>4
    <2> QED
      BY <1>1, <1>2, <2>1, <2>3, <2>5, Stays
  <1>7. CASE \E t \in Task : SessionReject(t) \/ SessionEnd(t)
    <2>1. PICK t \in Task : SessionReject(t) \/ SessionEnd(t)
      BY <1>7
    <2>2. /\ RetireListed({t}) /\ spawned' = spawned /\ pending' = pending \ {t}
          /\ over' = over \cup ({t} \cap Attachments)
      BY <2>1 DEF SessionReject, SessionEnd
    <2>3. pc[t] \notin Joining
      BY <2>1 DEF SessionReject, SessionEnd, Connected, Joining
    <2> QED
      BY <1>2, <1>6, <2>2, <2>3
  <1>8. CASE \E w \in Worker : FailPeer(w)
    <2>1. PICK w \in Worker : FailPeer(w)
      BY <1>8
    <2>2. /\ RetireListed(On(w)) /\ spawned' = spawned /\ pending' = pending \ On(w)
          /\ over' = over \cup (On(w) \cap Attachments)
      BY <2>1 DEF FailPeer
    <2>3. s \in On(w) => pc[s] \notin Joining
      BY DEF On, TaskInv, OverInv
    <2> QED
      BY <1>2, <1>6, <2>2, <2>3
  <1> QED
    BY <1>2, <1>4, <1>5, <1>7, <1>8

-----------------------------------------------------------------------------
(***************************************************************************)
(* The steps that move one task: the others, and the task itself.          *)
(***************************************************************************)
\* A task beside the one that moves.
LEMMA Others ==
    ASSUME TypeOK, RouteKeys, job' = job, NEW s \in Task, NEW t \in Task, TaskInv(s), s # t,
           SlotStep(t),
           pc'[s] = pc[s], via'[s] = via[s], permit'[s] = permit[s], closed' = closed,
           over' = over, s \in lease' => s \in lease, s \in pending' => s \in pending,
           s \in peerPermit' => s \in peerPermit, s \in byWire => s \in byWire',
           s \in signaled' => s \in signaled,
           \A why \in {"fail", "close"} : <<s, why>> \in spawned => <<s, why>> \in spawned'
    PROVE  TaskInv(s)'
  <1>1. \/ (Mine(s)' <=> Mine(s)) /\ (s \in evicted' <=> s \in evicted)
        \/ Mine(s) /\ ~Mine(s)' /\ s \in evicted'
    BY MineKept
  <1>2. Mine(s) <=> Held(s)
    BY DEF TaskInv, HoldsInv, Held
  <1>3. Kept(s) \/ Lost(s)
    BY <1>1, <1>2 DEF Kept, Lost
  <1> QED
    BY <1>3, Stays

\* What a task's kind is does not change.
LEMMA SameKind ==
    ASSUME job' = job, NEW t
    PROVE  (t \in Attachments)' <=> t \in Attachments
  BY SameJob

\* A future that ends without a route seen by its own task and by the others.
LEMMA DropFacts ==
    ASSUME TypeOK, NEW t \in Task, DropOpener(t)
    PROVE  /\ pc'[t] = "done" /\ t \notin lease'
           /\ permit'[t] = IF permit[t] = "task" THEN "none" ELSE permit[t]
           /\ t \in peerPermit' => t \in peerPermit /\ permit[t] # "task"
           /\ \A s \in Task : s # t => /\ pc'[s] = pc[s] /\ permit'[s] = permit[s]
                                       /\ (s \in lease' <=> s \in lease)
                                       /\ (s \in peerPermit' <=> s \in peerPermit)
  BY DEF TypeOK, DropOpener

\* A task drops its opener.
LEMMA DropSelf ==
    ASSUME TypeOK, RouteKeys, job' = job, NEW t \in Task, TaskInv(t), DropOpener(t),
           permit[t] # "route" =>
               (slots' = slots /\ evicted' = evicted) \/ RollbackRoute(KeyOf(t)),
           permit[t] = "route" => slots' = slots /\ evicted' = evicted /\ t \notin Attachments,
           t \notin pending', UNCHANGED <<via, closed, byWire, signaled, spawned, over>>
    PROVE  TaskInv(t)'
  <1>1. /\ pc'[t] = "done" /\ t \notin lease'
        /\ permit'[t] = IF permit[t] = "task" THEN "none" ELSE permit[t]
        /\ t \in peerPermit' => t \in peerPermit /\ permit[t] # "task"
    BY DropFacts
  <1>2. (Held(t) <=> Mine(t)') /\ (t \in evicted' <=> t \in evicted)
    <2>1. CASE slots' = slots /\ evicted' = evicted
      BY <2>1, MineSame DEF TaskInv, HoldsInv, Held
    <2>2. CASE permit[t] # "route" /\ RollbackRoute(KeyOf(t))
      <3>1. KeyOf(t) \in Key /\ KeyOf(t)' = KeyOf(t)
        BY JobType DEF KeyOf
      <3>2. slots'[KeyOf(t)] = Free
        BY <2>2, <3>1 DEF RollbackRoute, TypeOK
      <3>3. ~Mine(t)
        BY <2>2 DEF TaskInv, HoldsInv, Held
      <3>4. t \in evicted' <=> t \in evicted
        BY <2>2, <3>3 DEF RollbackRoute, Mine
      <3> QED
        BY <2>2, <3>1, <3>2, <3>4 DEF Mine, Free, Held
    <2> QED
      BY <2>1, <2>2
  <1>3. (t \in Attachments)' <=> t \in Attachments
    BY SameKind
  <1>4. HoldsInv(t)'
    BY <1>1, <1>2 DEF TaskInv, HoldsInv, Opening, Serving, Held
  <1>5. ClosedInv(t)'
    BY <1>1 DEF TaskInv, ClosedInv, Serving
  <1>6. SpawnedInv(t)'
    BY <1>1, <1>2, <1>3 DEF TaskInv, SpawnedInv, Serving, Held
  <1>7. OverInv(t)'
    BY <1>1, <1>3 DEF TaskInv, OverInv, Joining
  <1> QED
    BY <1>4, <1>5, <1>6, <1>7 DEF TaskInv

\* An opener is dropped: the whole step.
LEMMA DropTasks ==
    ASSUME TypeOK, RouteKeys, job' = job, NEW t \in Task, DropOpener(t),
           NEW s \in Task, TaskInv(s),
           TaskInv(t) /\ permit[t] = "route" =>
               slots' = slots /\ evicted' = evicted /\ t \notin Attachments,
           (slots' = slots /\ evicted' = evicted) \/ RollbackRoute(KeyOf(t)),
           TaskInv(t) => t \notin pending', pending' \subseteq pending,
           UNCHANGED <<via, closed, byWire, signaled, spawned, over>>
    PROVE  TaskInv(s)'
  <1>1. CASE s = t
    BY <1>1, DropSelf
  <1>2. CASE s # t
    BY <1>2, DropFacts, Others DEF SlotStep
  <1> QED
    BY <1>1, <1>2

\* Steps that end an opener.
LEMMA EndsOpener ==
    ASSUME IInv, RouteKeys, NEW t \in Task, NEW s \in Task, TaskInv(s),
           CannotJoin(t) \/ OpenFails(t) \/ CancelOpener(t)
    PROVE  TaskInv(s)'
  <1>1. TypeOK
    BY DEF IInv
  <1>2. /\ job' = job /\ DropOpener(t) /\ pending' \subseteq pending
        /\ UNCHANGED <<via, closed, byWire, signaled, spawned, over>>
    BY DEF CannotJoin, OpenFails, CancelOpener
  <1>3. (slots' = slots /\ evicted' = evicted) \/ RollbackRoute(KeyOf(t))
    BY DEF CannotJoin, OpenFails, CancelOpener
  <1>4. TaskInv(t) => t \notin pending'
    BY DEF CannotJoin, OpenFails, CancelOpener, TaskInv, HoldsInv, Opening, Held
  <1>5. TaskInv(t) /\ permit[t] = "route" =>
            slots' = slots /\ evicted' = evicted /\ t \notin Attachments
    <2>1. TaskInv(t) /\ permit[t] = "route" => pc[t] \notin {"admitted", "entered", "opening"}
      BY DEF TaskInv, HoldsInv, Opening, Held
    <2>2. pc[t] = "listed" /\ Kind(t) = "broadcast" => t \notin Attachments
      BY DEF Attachments
    <2> QED
      BY <2>1, <2>2 DEF CannotJoin, OpenFails, CancelOpener
  <1> QED
    BY <1>1, <1>2, <1>3, <1>4, <1>5, DropTasks

\* A task is admitted or refused.
LEMMA AdmitTasks ==
    ASSUME IInv, RouteKeys, NEW t \in Task, NEW s \in Task, TaskInv(s),
           Admit(t) \/ PrepareEgress(t) \/ Refuse(t)
    PROVE  TaskInv(s)'
  <1>1. TypeOK
    BY DEF IInv
  <1>2. /\ job' = job /\ slots' = slots /\ pc[t] = "new"
        /\ UNCHANGED <<via, pending, permit, peerPermit, byWire, closed, signaled, spawned, over, evicted>>
        /\ \/ pc' = [pc EXCEPT ![t] = "admitted"] /\ lease' \subseteq lease \cup {t}
           \/ pc' = [pc EXCEPT ![t] = "done"] /\ lease' = lease
    BY DEF Admit, PrepareEgress, Refuse, role, routing
  <1>3. CASE s # t
    <2>1. pc'[s] = pc[s] /\ (s \in lease' => s \in lease)
      BY <1>1, <1>2, <1>3 DEF TypeOK
    <2> QED
      BY <1>1, <1>2, <1>3, <2>1, Others DEF SlotStep
  <1>4. CASE s = t
    <2>1. /\ pc'[s] \in {"admitted", "done"} /\ (pc'[s] = "done" => lease' = lease)
          /\ permit[s] = "none" /\ s \notin lease /\ s \notin peerPermit /\ s \notin pending
          /\ s \notin closed /\ s \notin signaled /\ via[s] = 0 /\ s \notin over
          /\ s \notin evicted
      BY <1>1, <1>2, <1>4 DEF TypeOK, TaskInv, HoldsInv, ClosedInv, SpawnedInv, OverInv,
                              Opening, Serving, Joining
    <2>2. ~Mine(s)'
      BY <1>2, <2>1, MineSame DEF TaskInv, HoldsInv, Held
    <2>3. HoldsInv(s)'
      BY <1>2, <2>1, <2>2 DEF HoldsInv, Opening, Serving, Held
    <2>4. ClosedInv(s)' /\ SpawnedInv(s)' /\ OverInv(s)'
      BY <1>2, <2>1 DEF ClosedInv, SpawnedInv, OverInv, Serving, Held
    <2> QED
      BY <2>3, <2>4 DEF TaskInv
  <1> QED
    BY <1>3, <1>4

\* The forwarder takes an opener, or drops it.
LEMMA EnterTasks ==
    ASSUME IInv, RouteKeys, NEW t \in Task, NEW s \in Task, TaskInv(s), EnterForwarder(t)
    PROVE  TaskInv(s)'
  <1>1. TypeOK
    BY DEF IInv
  <1>2. /\ job' = job /\ slots' = slots /\ pc[t] = "admitted"
        /\ UNCHANGED <<via, pending, byWire, closed, signaled, spawned, over, evicted>>
    BY DEF EnterForwarder
  <1>3. CASE DropOpener(t)
    <2>1. TaskInv(t) => t \notin pending' /\ permit[t] # "route"
      BY <1>2 DEF TaskInv, HoldsInv, Opening, Held
    <2> QED
      BY <1>1, <1>2, <1>3, <2>1, DropTasks
  <1>4. CASE ~DropOpener(t)
    <2>1. /\ permit' = [permit EXCEPT ![t] = "task"] /\ pc' = [pc EXCEPT ![t] = "entered"]
          /\ lease' = lease /\ peerPermit' = peerPermit
      BY <1>4 DEF EnterForwarder
    <2>2. CASE s # t
      <3>1. pc'[s] = pc[s] /\ permit'[s] = permit[s]
        BY <1>1, <2>1, <2>2 DEF TypeOK
      <3> QED
        BY <1>1, <1>2, <2>1, <2>2, <3>1, Others DEF SlotStep
    <2>3. CASE s = t
      <3>1. /\ pc'[s] = "entered" /\ permit'[s] = "task" /\ permit[s] = "none"
            /\ s \notin pending /\ s \notin evicted
        BY <1>1, <1>2, <2>1, <2>3 DEF TypeOK, TaskInv, HoldsInv, Opening, Serving, Held
      <3>2. ~Mine(s)'
        BY <1>2, <3>1, MineSame DEF TaskInv, HoldsInv, Held
      <3>3. HoldsInv(s)'
        BY <1>2, <2>1, <3>1, <3>2 DEF HoldsInv, Opening, Serving, Held
      <3>4. ClosedInv(s)' /\ SpawnedInv(s)' /\ OverInv(s)'
        BY <1>2, <2>3, <3>1 DEF TaskInv, ClosedInv, SpawnedInv, OverInv, Serving, Joining, Held
      <3> QED
        BY <3>3, <3>4 DEF TaskInv
    <2> QED
      BY <2>2, <2>3
  <1> QED
    BY <1>3, <1>4

\* An opener joins its peer; one that knows its call reserves the slot.
LEMMA JoinTasks ==
    ASSUME IInv, RouteKeys, NEW t \in Task, NEW s \in Task, TaskInv(s),
           JoinAttachment(t) \/ JoinDestination(t) \/ JoinBroadcast(t)
    PROVE  TaskInv(s)'
  <1>1. TypeOK
    BY DEF IInv
  <1>2. /\ job' = job /\ lease' = lease /\ pc[t] = "entered" /\ pc' = [pc EXCEPT ![t] = "opening"]
        /\ via' = [via EXCEPT ![t] = peer'[WorkerOf(t)].gen] /\ peerPermit' = peerPermit \cup {t}
        /\ UNCHANGED <<permit, byWire, closed, signaled, spawned, over, evicted>>
    BY DEF JoinAttachment, JoinDestination, JoinBroadcast, JoinPeer, role
  <1>3. slots' = slots \/ ReserveRoute(KeyOf(t), WorkerOf(t))
    BY DEF JoinAttachment, JoinDestination, JoinBroadcast
  <1>4. pending' \subseteq pending \cup {t}
    BY DEF JoinAttachment, JoinDestination, JoinBroadcast
  <1>5. CASE s # t
    <2>1. pc'[s] = pc[s] /\ via'[s] = via[s] /\ (s \in pending' => s \in pending)
          /\ (s \in peerPermit' => s \in peerPermit)
      BY <1>1, <1>2, <1>4, <1>5 DEF TypeOK
    <2> QED
      BY <1>1, <1>2, <1>3, <1>5, <2>1, Others DEF SlotStep
  <1>6. CASE s = t
    <2>1. pc'[s] = "opening" /\ permit[s] = "task" /\ s \notin over
      BY <1>1, <1>2, <1>6 DEF TypeOK, TaskInv, HoldsInv, OverInv, Joining, Held
    <2>2. ~Mine(s)'
      <3>1. CASE slots' = slots
        BY <1>2, <2>1, <3>1, MineSame DEF TaskInv, HoldsInv, Held
      <3>2. CASE ReserveRoute(KeyOf(t), WorkerOf(t))
        <4>1. KeyOf(s) \in Key /\ KeyOf(s)' = KeyOf(s)
          BY <1>1, <1>2, JobType DEF KeyOf
        <4>2. slots'[KeyOf(s)] = [st |-> "pending", worker |-> WorkerOf(t)]
          BY <1>1, <1>6, <3>2, <4>1 DEF ReserveRoute, TypeOK
        <4> QED
          BY <4>1, <4>2 DEF Mine
      <3> QED
        BY <1>3, <3>1, <3>2
    <2>3. HoldsInv(s)'
      BY <1>2, <1>6, <2>1, <2>2 DEF TaskInv, HoldsInv, Opening, Serving, Held
    <2>4. ClosedInv(s)' /\ SpawnedInv(s)' /\ OverInv(s)'
      BY <1>2, <1>6, <2>1 DEF TaskInv, ClosedInv, SpawnedInv, OverInv, Serving, Joining, Held
    <2> QED
      BY <2>3, <2>4 DEF TaskInv
  <1> QED
    BY <1>5, <1>6

\* All replies are in, and the slot of an attachment is reserved.
LEMMA ReserveTasks ==
    ASSUME IInv, RouteKeys, NEW t \in Task, NEW s \in Task, TaskInv(s),
           OpenSucceeds(t) \/ ReserveAttachment(t)
    PROVE  TaskInv(s)'
  <1>1. TypeOK
    BY DEF IInv
  <1>2. /\ job' = job /\ pc[t] \in {"opening", "opened"} /\ pending' \subseteq pending
        /\ UNCHANGED <<via, byWire, closed, signaled, spawned, over, evicted>>
    BY DEF OpenSucceeds, ReserveAttachment, role, routing
  <1>3. CASE DropOpener(t) /\ slots' = slots /\ pending' = pending \ {t}
    <2>1. TaskInv(t) => t \notin pending' /\ permit[t] # "route"
      BY <1>2, <1>3 DEF TaskInv, HoldsInv, Opening, Held
    <2> QED
      BY <1>1, <1>2, <1>3, <2>1, DropTasks
  <1>4. CASE ~(DropOpener(t) /\ slots' = slots /\ pending' = pending \ {t})
    <2>1. /\ \E next \in {"opened", "reserved"} : pc' = [pc EXCEPT ![t] = next]
          /\ UNCHANGED <<lease, pending, permit, peerPermit>>
          /\ slots' = slots \/ ReserveRoute(KeyOf(t), WorkerOf(t))
      BY <1>4 DEF OpenSucceeds, ReserveAttachment, role, routing
    <2>2. CASE s # t
      <3>1. pc'[s] = pc[s]
        BY <1>1, <2>1, <2>2 DEF TypeOK
      <3> QED
        BY <1>1, <1>2, <2>1, <2>2, <3>1, Others DEF SlotStep
    <2>3. CASE s = t
      <3>1. pc'[s] \in {"opened", "reserved"} /\ permit[s] = "task"
        BY <1>1, <1>2, <2>1, <2>3 DEF TypeOK, TaskInv, HoldsInv, Opening, Held
      <3>2. ~Mine(s)'
        <4>1. CASE slots' = slots
          BY <1>2, <3>1, <4>1, MineSame DEF TaskInv, HoldsInv, Held
        <4>2. CASE ReserveRoute(KeyOf(t), WorkerOf(t))
          <5>1. KeyOf(s) \in Key /\ KeyOf(s)' = KeyOf(s)
            BY <1>1, <1>2, JobType DEF KeyOf
          <5>2. slots'[KeyOf(s)] = [st |-> "pending", worker |-> WorkerOf(t)]
            BY <1>1, <2>3, <4>2, <5>1 DEF ReserveRoute, TypeOK
          <5> QED
            BY <5>1, <5>2 DEF Mine
        <4> QED
          BY <2>1, <4>1, <4>2
      <3>3. HoldsInv(s)'
        BY <1>2, <2>1, <2>3, <3>1, <3>2 DEF TaskInv, HoldsInv, Opening, Serving, Held
      <3>4. ClosedInv(s)' /\ SpawnedInv(s)'
        BY <1>2, <2>1, <2>3, <3>1 DEF TaskInv, ClosedInv, SpawnedInv, Serving, Held
      <3>5. OverInv(s)'
        <4>1. (s \in Attachments)' <=> s \in Attachments
          BY <1>2, SameKind
        <4> QED
          BY <1>2, <2>1, <3>1, <4>1 DEF TaskInv, OverInv, Joining
      <3> QED
        BY <3>3, <3>4, <3>5 DEF TaskInv
    <2> QED
      BY <2>2, <2>3
  <1> QED
    BY <1>3, <1>4

\* The route goes into its slot; one that shutdown took away is rolled back.
LEMMA ActivateTasks ==
    ASSUME IInv, RouteKeys, NEW t \in Task, NEW s \in Task, TaskInv(s), ActivateRoute(t)
    PROVE  TaskInv(s)'
  <1>1. TypeOK
    BY DEF IInv
  <1>2. /\ job' = job /\ pc[t] = "reserved" /\ pending' \subseteq pending
        /\ UNCHANGED <<via, byWire, closed, signaled, spawned, over>>
    BY DEF ActivateRoute
  <1>3. CASE DropOpener(t) /\ RollbackRoute(KeyOf(t)) /\ pending' = pending \ {t}
    <2>1. TaskInv(t) => t \notin pending' /\ permit[t] # "route"
      BY <1>2, <1>3 DEF TaskInv, HoldsInv, Opening, Held
    <2> QED
      BY <1>1, <1>2, <1>3, <2>1, DropTasks
  <1>4. CASE ~(DropOpener(t) /\ RollbackRoute(KeyOf(t)) /\ pending' = pending \ {t})
    <2>1. /\ slots' = [slots EXCEPT ![KeyOf(t)] = [st |-> "active", route |-> t]]
          /\ Reserved(t) /\ evicted' = evicted
          /\ permit' = [permit EXCEPT ![t] = "route"] /\ pc' = [pc EXCEPT ![t] = "active"]
          /\ UNCHANGED <<lease, pending, peerPermit>>
      BY <1>4 DEF ActivateRoute
    <2>2. CASE s # t
      <3>1. pc'[s] = pc[s] /\ permit'[s] = permit[s]
        BY <1>1, <2>1, <2>2 DEF TypeOK
      <3> QED
        BY <1>1, <1>2, <2>1, <2>2, <3>1, Others DEF SlotStep
    <2>3. CASE s = t
      <3>1. /\ pc'[s] = "active" /\ permit'[s] = "route" /\ s \notin closed
            /\ s \notin signaled
        BY <1>1, <1>2, <2>1, <2>3
           DEF TypeOK, TaskInv, ClosedInv, SpawnedInv, Serving, Held
      <3>2. Mine(s)'
        <4>1. KeyOf(s) \in Key /\ KeyOf(s)' = KeyOf(s)
          BY <1>1, <1>2, JobType DEF KeyOf
        <4>2. slots'[KeyOf(s)] = [st |-> "active", route |-> t]
          BY <1>1, <2>1, <2>3, <4>1 DEF TypeOK
        <4> QED
          BY <2>3, <4>1, <4>2 DEF Mine
      <3>3. HoldsInv(s)'
        BY <1>2, <2>1, <2>3, <3>1, <3>2 DEF TaskInv, HoldsInv, Opening, Serving, Held
      <3>4. ClosedInv(s)' /\ SpawnedInv(s)'
        BY <1>2, <3>1 DEF ClosedInv, SpawnedInv, Serving, Held
      <3>5. OverInv(s)'
        <4>1. (s \in Attachments)' <=> s \in Attachments
          BY <1>2, SameKind
        <4> QED
          BY <1>2, <2>1, <3>1, <4>1 DEF TaskInv, OverInv, Joining
      <3> QED
        BY <3>3, <3>4, <3>5 DEF TaskInv
    <2> QED
      BY <2>2, <2>3
  <1> QED
    BY <1>3, <1>4

\* The route becomes visible, and a listener's is acknowledged.
LEMMA ListTasks ==
    ASSUME IInv, RouteKeys, NEW t \in Task, NEW s \in Task, TaskInv(s),
           ListAttachment(t) \/ ListDestination(t) \/ ListBroadcast(t) \/ Subscribe(t)
    PROVE  TaskInv(s)'
  <1>1. TypeOK
    BY DEF IInv
  <1>2. /\ job' = job /\ slots' = slots
        /\ UNCHANGED <<lease, pending, permit, peerPermit, via, closed, signaled, spawned, over, evicted>>
    BY DEF ListAttachment, ListDestination, ListBroadcast, ListRoute, Subscribe, role, routing
  <1>3. PICK next \in {"listed", "open"} :
           /\ pc' = [pc EXCEPT ![t] = next] /\ (next = "open" => t \notin Attachments)
    BY DEF ListAttachment, ListDestination, ListBroadcast, ListRoute, Subscribe, Attachments
  <1>4. \/ pc[t] = "active" /\ byWire' = byWire \cup {t}
        \/ pc[t] = "listed" /\ byWire' = byWire
    BY DEF ListAttachment, ListDestination, ListBroadcast, ListRoute, Subscribe, routing
  <1>5. CASE s # t
    <2>1. pc'[s] = pc[s] /\ (s \in byWire => s \in byWire')
      BY <1>1, <1>3, <1>4, <1>5 DEF TypeOK
    <2> QED
      BY <1>1, <1>2, <1>5, <2>1, Others DEF SlotStep
  <1>6. CASE s = t
    <2>1. pc'[s] = next /\ pc[s] \in {"active", "listed"} /\ (Mine(s)' <=> Mine(s))
      BY <1>1, <1>2, <1>3, <1>4, <1>6, MineSame DEF TypeOK
    <2>2. (s \in Attachments)' <=> s \in Attachments
      BY <1>2, SameKind
    <2>3. pending \subseteq Attachments
      BY <1>1 DEF TypeOK
    <2>4. HoldsInv(s)'
      BY <1>2, <1>3, <1>6, <2>1, <2>3 DEF TaskInv, HoldsInv, Opening, Serving, Held
    <2>5. ClosedInv(s)'
      BY <1>2, <1>4, <1>6, <2>1 DEF TaskInv, ClosedInv, Serving
    <2>6. SpawnedInv(s)'
      BY <1>2, <2>1 DEF TaskInv, SpawnedInv, Serving, Held
    <2>7. OverInv(s)'
      BY <1>2, <1>3, <1>6, <2>1, <2>2 DEF TaskInv, OverInv, Joining
    <2> QED
      BY <2>4, <2>5, <2>6, <2>7 DEF TaskInv
  <1> QED
    BY <1>5, <1>6

\* The ingress gets a route that nobody revoked, and only such a one.
LEMMA PromoteTasks ==
    ASSUME IInv, RouteKeys, NEW t \in Task, NEW s \in Task, TaskInv(s), Promote(t)
    PROVE  TaskInv(s)'
  <1>1. TypeOK
    BY DEF IInv
  <1>2. /\ job' = job /\ slots' = slots /\ pc[t] = "listed" /\ pending' = pending \ {t}
        /\ UNCHANGED <<permit, peerPermit, via, closed, over, evicted>>
    BY DEF Promote
  <1>3. \/ /\ t \in pending /\ pc' = [pc EXCEPT ![t] = "open"]
           /\ UNCHANGED <<lease, byWire, signaled, spawned>>
        \/ /\ pc' = [pc EXCEPT ![t] = "done"] /\ lease' = lease \ {t} /\ byWire' = byWire \ {t}
           /\ signaled' = signaled \cup {t}
           /\ spawned' = IF t \in signaled THEN spawned ELSE spawned \cup {<<t, "fail">>}
    BY DEF Promote, StillPending
  <1>4. CASE s # t
    <2>1. /\ pc'[s] = pc[s] /\ (s \in lease' => s \in lease) /\ (s \in byWire => s \in byWire')
          /\ (s \in signaled' => s \in signaled) /\ spawned \subseteq spawned'
      BY <1>1, <1>3, <1>4 DEF TypeOK
    <2> QED
      BY <1>1, <1>2, <1>4, <2>1, Others DEF SlotStep
  <1>5. CASE s = t
    <2>1. (Mine(s)' <=> Mine(s)) /\ ((s \in Attachments)' <=> s \in Attachments)
      BY <1>2, MineSame, SameKind
    <2>2. CASE s \in pending /\ pc' = [pc EXCEPT ![s] = "open"]
                 /\ UNCHANGED <<lease, byWire, signaled, spawned>>
      <3>1. pc'[s] = "open" /\ s \notin over \cap Attachments /\ pc[s] = "listed"
        BY <1>1, <1>2, <1>5, <2>2 DEF TypeOK, TaskInv, OverInv
      <3>2. HoldsInv(s)'
        BY <1>2, <1>5, <2>1, <2>2, <3>1 DEF TaskInv, HoldsInv, Opening, Serving, Held
      <3>3. ClosedInv(s)' /\ SpawnedInv(s)'
        BY <1>2, <2>2, <3>1 DEF TaskInv, ClosedInv, SpawnedInv, Serving, Held
      <3>4. OverInv(s)'
        BY <1>2, <2>1, <3>1 DEF OverInv, Joining
      <3> QED
        BY <3>2, <3>3, <3>4 DEF TaskInv
    <2>3. CASE /\ pc' = [pc EXCEPT ![s] = "done"] /\ lease' = lease \ {s}
               /\ spawned' = IF s \in signaled THEN spawned ELSE spawned \cup {<<s, "fail">>}
      <3>1. pc'[s] = "done" /\ s \notin lease' /\ s \notin pending' /\ pc[s] = "listed"
        BY <1>1, <1>2, <1>5, <2>3 DEF TypeOK
      <3>2. Held(s) => <<s, "fail">> \in spawned'
        BY <2>3 DEF TaskInv, SpawnedInv, Held
      <3>3. HoldsInv(s)'
        BY <1>2, <2>1, <3>1 DEF TaskInv, HoldsInv, Opening, Serving, Held
      <3>4. ClosedInv(s)'
        BY <1>2, <3>1 DEF TaskInv, ClosedInv, Serving
      <3>5. SpawnedInv(s)'
        BY <1>2, <3>1, <3>2 DEF SpawnedInv, Serving, Held
      <3>6. OverInv(s)'
        BY <1>2, <3>1 DEF OverInv, Joining
      <3> QED
        BY <3>3, <3>4, <3>5, <3>6 DEF TaskInv
    <2> QED
      BY <1>3, <1>5, <2>2, <2>3
  <1> QED
    BY <1>4, <1>5

\* A listener that is not acknowledged is retired.
LEMMA SubscribeFailsTasks ==
    ASSUME IInv, RouteKeys, NEW t \in Task, NEW s \in Task, TaskInv(s),
           SubscribeFails(t)
    PROVE  TaskInv(s)'
  <1>1. TypeOK /\ KeyOf(t) \in Key
    BY JobType DEF IInv
  <1>2. /\ job' = job /\ pc[t] = "listed" /\ t \notin Attachments /\ pc' = [pc EXCEPT ![t] = "done"]
        /\ lease' = lease \ {t} /\ RetireRoutes({KeyOf(t)})
        /\ UNCHANGED <<via, pending, signaled, spawned, over, evicted>>
    BY DEF SubscribeFails, RetireRoutes, Attachments
  <1>3. {KeyOf(t)} \in SUBSET Key
    BY <1>1
  <1>4. CASE s # t
    <2>1. pc'[s] = pc[s] /\ (s \in lease' => s \in lease)
      BY <1>1, <1>2, <1>4 DEF TypeOK
    <2>2. Shut(s) \/ Kept(s)
      BY <1>1, <1>2, <1>3, RetireStays
    <2> QED
      BY <1>1, <1>2, <2>1, <2>2, Stays
  <1>5. CASE s = t
    <2>1. /\ pc'[s] = "done" /\ pc[s] = "listed" /\ s \notin lease'
          /\ ((s \in Attachments)' <=> s \in Attachments)
      BY <1>1, <1>2, <1>5, SameKind DEF TypeOK
    <2>2. Shut(s) \/ (Kept(s) /\ ~Held(s))
      BY <1>1, <1>2, <1>3, <1>5, RetireTask DEF TaskInv, Shut, Kept
    <2>3. s \notin pending
      <3>1. pending \subseteq Attachments
        BY <1>1 DEF TypeOK
      <3> QED
        BY <1>2, <1>5, <3>1
    <2>4. permit[s] # "task" /\ permit[s] \in {"none", "task", "route", "cleanup"}
      BY <1>1, <2>1 DEF TaskInv, HoldsInv, Serving, TypeOK, Held
    <2>5. /\ ~Mine(s)' /\ ~Held(s)' /\ permit'[s] # "task"
          /\ s \in peerPermit' => permit'[s] = "route"
          /\ s \in closed' => permit'[s] # "route"
      BY <2>2, <2>4 DEF Shut, Kept, TaskInv, HoldsInv, ClosedInv, Held
    <2>6. HoldsInv(s)'
      BY <1>2, <2>1, <2>3, <2>5 DEF HoldsInv, Opening, Serving, Held
    <2>7. ClosedInv(s)' /\ SpawnedInv(s)'
      BY <1>2, <2>1, <2>5 DEF ClosedInv, SpawnedInv, Serving, Held
    <2>8. OverInv(s)'
      BY <1>2, <2>1, <2>3 DEF OverInv, Joining
    <2> QED
      BY <2>6, <2>7, <2>8 DEF TaskInv
  <1> QED
    BY <1>4, <1>5

\* A task with a route ends and cleans up.
LEMMA CleanupTasks ==
    ASSUME IInv, RouteKeys, NEW t \in Task, NEW s \in Task, TaskInv(s),
           EndTask(t) \/ FinishCleanup(t) \/ AbortCleanup(t)
    PROVE  TaskInv(s)'
  <1>1. TypeOK
    BY DEF IInv
  <1>2. /\ job' = job /\ slots' = slots /\ lease' \subseteq lease
        /\ UNCHANGED <<via, pending, permit, peerPermit, byWire, closed, signaled, over, evicted>>
    BY DEF EndTask, FinishCleanup, AbortCleanup, role, routing
  <1>3. CASE s # t
    <2>1. pc'[s] = pc[s]
      BY <1>1, <1>3 DEF TypeOK, EndTask, FinishCleanup, AbortCleanup
    <2>2. \A why \in {"fail", "close"} : <<s, why>> \in spawned => <<s, why>> \in spawned'
      BY <1>3 DEF EndTask, FinishCleanup, AbortCleanup
    <2> QED
      BY <1>1, <1>2, <1>3, <2>1, <2>2, Others DEF SlotStep
  <1>4. CASE s = t
    <2>1. (Mine(s)' <=> Mine(s)) /\ ((s \in Attachments)' <=> s \in Attachments)
      BY <1>2, MineSame, SameKind
    <2>2. /\ pc[s] \in {"open", "cleaning"} /\ pc'[s] \in {"cleaning", "done"} /\ s \notin lease'
          /\ s \notin pending
      BY <1>1, <1>2, <1>4 DEF TypeOK, EndTask, FinishCleanup, AbortCleanup, TaskInv, HoldsInv, Opening, Held
    <2>3. permit[s] = "route" => s \notin closed
      BY DEF TaskInv, ClosedInv
    <2>4. Held(s) => <<s, "close">> \in spawned'
      BY <1>4, <2>3 DEF EndTask, FinishCleanup, AbortCleanup, TaskInv, SpawnedInv, Held
    <2>5. s \in signaled /\ Held(s) => <<s, "fail">> \in spawned'
      BY <1>4, <2>3 DEF EndTask, FinishCleanup, AbortCleanup, TaskInv, SpawnedInv, Held
    <2>6. HoldsInv(s)'
      BY <1>2, <2>1, <2>2 DEF TaskInv, HoldsInv, Opening, Serving, Held
    <2>7. ClosedInv(s)'
      BY <1>2, <2>2 DEF TaskInv, ClosedInv, Serving
    <2>8. SpawnedInv(s)'
      BY <1>2, <2>2, <2>4, <2>5 DEF SpawnedInv, Serving, Held
    <2>9. OverInv(s)'
      BY <1>2, <2>2 DEF OverInv, Joining
    <2> QED
      BY <2>6, <2>7, <2>8, <2>9 DEF TaskInv
  <1> QED
    BY <1>3, <1>4

\* A route without pumps that was taken out of its slot is dropped.
LEMMA DropRouteTasks ==
    ASSUME IInv, RouteKeys, NEW t \in Task, NEW s \in Task, TaskInv(s), DropRoute(t)
    PROVE  TaskInv(s)'
  <1>1. TypeOK
    BY DEF IInv
  <1>2. /\ job' = job /\ slots' = slots /\ pc[t] = "done" /\ t \in evicted
        /\ permit' = [permit EXCEPT ![t] = "none"] /\ peerPermit' = peerPermit \ {t}
        /\ UNCHANGED <<lease, via, pc, pending, byWire, closed, signaled, spawned, over, evicted>>
    BY DEF DropRoute, role
  <1>3. CASE s # t
    <2>1. permit'[s] = permit[s] /\ (s \in peerPermit' => s \in peerPermit)
      BY <1>1, <1>2, <1>3 DEF TypeOK
    <2> QED
      BY <1>1, <1>2, <1>3, <2>1, Others DEF SlotStep
  <1>4. CASE s = t
    <2>1. /\ (Mine(s)' <=> Mine(s)) /\ ((s \in Attachments)' <=> s \in Attachments)
          /\ permit'[s] = "none" /\ s \notin peerPermit'
      BY <1>1, <1>2, <1>4, MineSame, SameKind DEF TypeOK
    <2>2. HoldsInv(s)'
      BY <1>2, <1>4, <2>1 DEF TaskInv, HoldsInv, Opening, Serving, Held
    <2>3. ClosedInv(s)' /\ SpawnedInv(s)'
      BY <1>2, <1>4, <2>1 DEF TaskInv, ClosedInv, SpawnedInv, Serving, Held
    <2>4. OverInv(s)'
      BY <1>2, <2>1 DEF TaskInv, OverInv
    <2> QED
      BY <2>2, <2>3, <2>4 DEF TaskInv
  <1> QED
    BY <1>3, <1>4

\* A task at the start.
LEMMA InitKept == Init => KeptInv
  <1> SUFFICES ASSUME Init PROVE KeptInv
    OBVIOUS
  <1>1. IInv
    BY InitInv
  <1>2. \A k \in Key : slots[k].st = "free"
    BY DEF Init, Free
  <1>3. RouteKeys
    BY <1>2 DEF RouteKeys
  <1>4. \A t \in Task : TaskInv(t)
    <2> TAKE t \in Task
    <2>1. KeyOf(t) \in Key
      BY <1>1, JobType DEF IInv
    <2>2. ~Mine(t)
      BY <1>2, <2>1 DEF Mine
    <2>3. pc[t] = "new" /\ permit[t] = "none" /\ via[t] = 0
      BY DEF Init
    <2>4. HoldsInv(t)
      BY <2>2, <2>3 DEF Init, HoldsInv, Opening, Serving, Held
    <2>5. ClosedInv(t) /\ SpawnedInv(t) /\ OverInv(t)
      BY <2>3 DEF Init, ClosedInv, SpawnedInv, OverInv, Serving, Held
    <2> QED
      BY <2>4, <2>5 DEF TaskInv
  <1> QED
    BY <1>1, <1>3, <1>4 DEF KeptInv

\* Every step keeps what holds of a task.
LEMMA NextTask ==
    ASSUME IInv, RouteKeys, [Next]_vars, NEW s \in Task, TaskInv(s)
    PROVE  TaskInv(s)'
  <1>1. CASE \E t \in Task : Open(t)
    BY <1>1, EnterTasks, EndsOpener, JoinTasks, ReserveTasks, ActivateTasks, ListTasks,
       PromoteTasks, SubscribeFailsTasks DEF Open
  <1>2. CASE Background
    BY <1>2, RetiringTasks, CalmTasks, CleanupTasks, DropRouteTasks DEF Background
  <1>3. CASE Stop
    BY <1>3, RetiringTasks, CalmTasks, CleanupTasks DEF Stop
  <1>4. CASE Outside
    <2>1. CASE \E t \in Task :
                  \/ RunAttachment(t) \/ RunBroadcast(t) \/ RunNativeAttachment(t)
                  \/ PrepareEgress(t) \/ Refuse(t)
      BY <2>1, AdmitTasks DEF RunAttachment, RunBroadcast, RunNativeAttachment
    <2>2. CASE \E t \in Task : \/ UctpPumpsEnd(t) \/ NativePumpsEnd(t)
                               \/ BroadcastPumpEnds(t) \/ ProxyEnds(t)
      BY <2>2, CleanupTasks DEF UctpPumpsEnd, NativePumpsEnd, BroadcastPumpEnds, ProxyEnds
    <2>3. CASE \E t \in Task : CancelOpener(t)
      BY <2>3, EndsOpener
    <2>4. CASE \E t \in Task : SessionReject(t) \/ SessionEnd(t)
      BY <2>4, RetiringTasks
    <2>5. CASE \/ \E ready \in BOOLEAN : DependencyHealth(ready)
               \/ BeginDrain
               \/ \E t \in Task : RouteFault(t) \/ BadMessage(t) \/ AnnounceStream(t)
               \/ \E t \in Task, what \in {"open", "receipt"} : Reply(t, what)
               \/ \E w \in Worker : LosePeer(w)
      BY <2>5, CalmTasks
    <2> QED
      BY <1>4, <2>1, <2>2, <2>3, <2>4, <2>5 DEF Outside
  <1>5. CASE UNCHANGED vars
    BY <1>5, CalmTasks
  <1> QED
    BY <1>1, <1>2, <1>3, <1>4, <1>5 DEF Next, Progress, Stopped

\* Every step keeps the keys of the routes, and what the tasks are about.
LEMMA NextKeys ==
    ASSUME IInv, RouteKeys, [Next]_vars
    PROVE  RouteKeys' /\ job' = job
  <1>1. TypeOK /\ \A t \in Task : KeyOf(t) \in Key /\ WorkerOf(t) \in Worker
    BY JobType DEF IInv
  <1> DEFINE Moves == \/ slots' = slots
                      \/ \E k \in Key : RollbackRoute(k)
                      \/ \E k \in Key, w \in Worker : ReserveRoute(k, w)
                      \/ \E t \in Task : slots' = [slots EXCEPT ![KeyOf(t)] = [st |-> "active", route |-> t]]
                      \/ \E K \in SUBSET Key : RetireRoutes(K)
  <1>2. ASSUME NEW t \in Task, Open(t)
        PROVE  Moves /\ job' = job
    <2>1. CASE JoinAttachment(t) \/ JoinDestination(t) \/ JoinBroadcast(t)
      BY <1>1, <2>1 DEF JoinAttachment, JoinDestination, JoinBroadcast, JoinPeer, role
    <2>2. CASE OpenFails(t) \/ CannotJoin(t) \/ EnterForwarder(t) \/ OpenSucceeds(t)
      BY <1>1, <2>2 DEF OpenFails, CannotJoin, EnterForwarder, OpenSucceeds, role, routing
    <2>3. CASE ReserveAttachment(t) \/ ActivateRoute(t)
      BY <1>1, <2>3 DEF ReserveAttachment, ActivateRoute
    <2>4. CASE ListAttachment(t) \/ ListDestination(t) \/ ListBroadcast(t) \/ Promote(t) \/ Subscribe(t)
      BY <2>4 DEF ListAttachment, ListDestination, ListBroadcast, ListRoute, Promote, Subscribe,
                  role, routing
    <2>5. CASE SubscribeFails(t)
      <3>1. RetireRoutes({KeyOf(t)}) /\ job' = job /\ {KeyOf(t)} \in SUBSET Key
        BY <1>1, <2>5 DEF SubscribeFails
      <3> QED
        BY <3>1
    <2> QED
      BY <1>2, <2>1, <2>2, <2>3, <2>4, <2>5 DEF Open
  <1>3. ASSUME \/ \E t \in Task, why \in {"fail", "close"} : RetireSpawned(t, why)
               \/ \E t \in Task : SessionReject(t) \/ SessionEnd(t)
               \/ \E w \in Worker : FailPeer(w)
               \/ RetireAll
        PROVE  Moves /\ job' = job
    <2>1. job' = job
      BY <1>3 DEF RetireSpawned, SessionReject, SessionEnd, FailPeer, RetireAll, role
    <2>2. CASE \E t \in Task, why \in {"fail", "close"} : RetireSpawned(t, why)
      <3>1. PICK t \in Task : RetireRoutes({KeyOf(t)})
        BY <2>2 DEF RetireSpawned
      <3>2. {KeyOf(t)} \in SUBSET Key
        BY <1>1
      <3> QED
        BY <2>1, <3>1, <3>2
    <2>3. CASE RetireAll
      BY <2>1, <2>3 DEF RetireAll
    <2>4. CASE (\E t \in Task : SessionReject(t) \/ SessionEnd(t)) \/ \E w \in Worker : FailPeer(w)
      <3>1. PICK T : RetireListed(T)
        BY <2>4 DEF SessionReject, SessionEnd, FailPeer
      <3>2. {KeyOf(t) : t \in byWire \cap T} \in SUBSET Key
        BY <1>1 DEF TypeOK
      <3> QED
        BY <2>1, <3>1, <3>2 DEF RetireListed
    <2> QED
      BY <1>3, <2>2, <2>3, <2>4
  <1>4. ASSUME \/ \E ready \in BOOLEAN : DependencyHealth(ready)
               \/ \E w \in Worker : LosePeer(w)
               \/ \E t \in Task : \/ SourceCleanup(t) \/ RouteFault(t) \/ AnnounceStream(t)
                                  \/ BadMessage(t) \/ CancelOpener(t) \/ Admit(t)
                                  \/ PrepareEgress(t) \/ Refuse(t) \/ EndTask(t)
                                  \/ FinishCleanup(t) \/ AbortCleanup(t) \/ DropRoute(t)
               \/ \E t \in Task, what \in {"open", "receipt"} : Reply(t, what)
               \/ BeginDrain \/ StopWaiting \/ IngressStopped \/ DrainTasks \/ ClosePeers
               \/ NativeStopped \/ UNCHANGED vars
        PROVE  Moves /\ job' = job
    BY <1>4 DEF DependencyHealth, LosePeer, SourceCleanup, RouteFault, AnnounceStream, BadMessage,
         CancelOpener, Admit, PrepareEgress, Refuse, EndTask, FinishCleanup, AbortCleanup, DropRoute,
         Reply, BeginDrain, StopWaiting, IngressStopped, DrainTasks, ClosePeers,
         NativeStopped, vars, role, routing
  <1>5. Moves /\ job' = job
    <2> HIDE DEF Moves
    <2>1. CASE \E t \in Task : Open(t)
      BY <1>2, <2>1
    <2>2. CASE Background
      BY <1>3, <1>4, <2>2 DEF Background
    <2>3. CASE Stop
      BY <1>3, <1>4, <2>3 DEF Stop
    <2>4. CASE Outside
      <3>1. CASE \E t \in Task :
                  \/ RunAttachment(t) \/ RunBroadcast(t) \/ RunNativeAttachment(t)
                  \/ PrepareEgress(t) \/ Refuse(t) \/ CancelOpener(t)
        BY <1>4, <3>1 DEF RunAttachment, RunBroadcast, RunNativeAttachment
      <3>2. CASE \E t \in Task : \/ UctpPumpsEnd(t) \/ NativePumpsEnd(t)
                                 \/ BroadcastPumpEnds(t) \/ ProxyEnds(t)
        BY <1>4, <3>2 DEF UctpPumpsEnd, NativePumpsEnd, BroadcastPumpEnds, ProxyEnds
      <3>3. CASE \E t \in Task : SessionReject(t) \/ SessionEnd(t)
        BY <1>3, <3>3
      <3>4. CASE \/ \E ready \in BOOLEAN : DependencyHealth(ready)
                 \/ BeginDrain
                 \/ \E t \in Task : RouteFault(t) \/ BadMessage(t) \/ AnnounceStream(t)
                 \/ \E t \in Task, what \in {"open", "receipt"} : Reply(t, what)
                 \/ \E w \in Worker : LosePeer(w)
        BY <1>4, <3>4
      <3> QED
        BY <2>4, <3>1, <3>2, <3>3, <3>4 DEF Outside
    <2>5. CASE UNCHANGED vars
      BY <1>4, <2>5
    <2> QED
      BY <2>1, <2>2, <2>3, <2>4, <2>5 DEF Next, Progress, Stopped
  <1>6. job' = job /\ Moves
    BY <1>5
  <1> QED
    BY <1>1, <1>6, RouteKeysKept

\* Every step keeps the invariant.
LEMMA NextKept == KeptInv /\ [Next]_vars => KeptInv'
  <1> SUFFICES ASSUME KeptInv, [Next]_vars PROVE KeptInv'
    OBVIOUS
  <1>1. IInv'
    BY NextInv DEF KeptInv
  <1>2. RouteKeys' /\ job' = job
    BY NextKeys DEF KeptInv
  <1>3. \A t \in Task : TaskInv(t)'
    BY NextTask DEF KeptInv
  <1> QED
    BY <1>1, <1>2, <1>3 DEF KeptInv

\* The permits, the admissions, the slot and the retirements of every task agree
\* with where its future is, whatever the tasks of the same key, the worker peers
\* and the stop of the role do, for any number of tasks of one leg.
THEOREM KeptInvariance == Spec => []KeptInv
  <1> QED
    BY InitKept, NextKept, PTL DEF Spec

\* However an opener ends, by failure, cancellation, abort or the stop of the
\* role, and however many tasks share its route key, its lease, its pending
\* admission and the permits it held are given back; an attachment that is over
\* keeps the permits of its route only while the retirement is under way or
\* after the rollback of another task of the key (rollback_route) removed it.
THEOREM NothingKeptCorrect == Spec => []NothingIsKept
  <1>1. KeptInv => NothingIsKept
    <2> SUFFICES ASSUME KeptInv, NEW t \in Task, pc[t] = "done"
                 PROVE  /\ t \notin lease \cup pending
                        /\ permit[t] # "task"
                        /\ t \in peerPermit => permit[t] = "route"
                        /\ permit[t] = "route" /\ t \in Attachments =>
                              t \in evicted \/ \E why \in {"fail", "close"} : <<t, why>> \in spawned
      BY DEF NothingIsKept
    <2>1. HoldsInv(t) /\ SpawnedInv(t)
      BY DEF KeptInv, TaskInv
    <2> QED
      BY <2>1 DEF HoldsInv, SpawnedInv, Opening, Serving, Held
  <1> QED
    BY <1>1, KeptInvariance, PTL

\* An attachment whose session or peer ended while its route was opened is never
\* served by an open route, for any number of tasks of one key, unless the
\* rollback of another took its route out of the slot
\* (promote_pending_attachment, retire_remote and WorkerPeer::fail in any order).
THEOREM EndedSetupCorrect == Spec => []EndedSetupIsNotServed
  <1>1. KeptInv => EndedSetupIsNotServed
    <2> SUFFICES ASSUME KeptInv, NEW t \in (Attachments \cap over) \ evicted, pc[t] = "open"
                 PROVE  t \in closed
      BY DEF EndedSetupIsNotServed
    <2>1. t \in Task
      BY DEF Attachments
    <2>2. OverInv(t)
      BY <2>1 DEF KeptInv, TaskInv
    <2> QED
      BY <2>2 DEF OverInv
  <1> QED
    BY <1>1, KeptInvariance, PTL
=============================================================================
