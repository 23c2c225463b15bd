------------------------------- MODULE Gateway -------------------------------
(***************************************************************************)
(* The gateway process of a split deployment: the admission gate of the    *)
(* role, the public UCTP and native ingress that run one task per public   *)
(* connection, and the forwarder whose routes carry each task's media to   *)
(* the worker that owns the call.                                          *)
(*                                                                         *)
(* A task is one run of an ingress connection (kind "uctp", "native" or    *)
(* "broadcast") or of a private-egress proxy (kind "egress").  It opens at *)
(* most one route.  Each step is one stretch of the code between two       *)
(* awaits, or shorter where another thread can come in between.  What the  *)
(* worker sends is not queued: any envelope may arrive whenever the peer   *)
(* is connected.                                                           *)
(***************************************************************************)
EXTENDS Naturals, FiniteSets

CONSTANTS
    Task,            \* tasks, each run once
    Worker,          \* configured targets
    Call,
    Key,             \* GatewayRouteKey: tenant, call, leg and generation
    Jobs,            \* what the tasks may be about: a set of functions
    CallOf,          \* [Key -> Call]
    MaxAdmissions,   \* capacity of GatewayAdmission
    MaxRoutes,       \* max_active_routes
    MaxPeerRoutes,   \* max_routes_per_peer
    MaxPeers         \* bound: connections made to one worker

ASSUME GatewayAssumption ==
    /\ Jobs \subseteq [Task -> [kind : {"uctp", "native", "broadcast", "egress"},
                               key : Key, worker : Worker]]
    /\ IsFiniteSet(Key) /\ CallOf \in [Key -> Call]
    /\ Worker # {}    \* a forwarder without workers is refused by its configuration
    /\ {MaxAdmissions, MaxRoutes, MaxPeerRoutes, MaxPeers} \subseteq Nat \ {0}

VARIABLES
    job,        \* [Task -> what it is about], chosen at the start
    gate,       \* GatewayAdmissionState
    lease,      \* tasks holding an admission permit
    stage,      \* how far the ordered stop of the role has come
    peer,       \* [Worker -> [gen, st]], the latest connection
    pc,         \* [Task -> where its future is]
    via,        \* [Task -> the peer generation it uses]
    pend,       \* [Task -> what its wire open still waits for]
    pending,    \* tasks in pending_admissions
    slots,      \* [Key -> RouteSlot]
    pins,       \* [Call -> CallPin]
    permit,     \* [Task -> who holds its global permit]
    peerPermit, \* tasks holding a permit of their peer
    byWire,     \* tasks whose route is in routes_by_wire and by_local
    dynamic,    \* broadcast tasks whose announced stream is registered
    closed,     \* RouteInner::closed
    signaled,   \* RouteInner::terminal_signaled
    spawned,    \* retirements under way: <<task, "fail" | "close">>
    over,       \* history: attachments whose session or peer ended
    evicted     \* history: routes that the rollback of another took out of their slot

vars == <<job, gate, lease, stage, peer, pc, via, pend, pending, slots, pins, permit,
          peerPermit, byWire, dynamic, closed, signaled, spawned, over, evicted>>

routing == <<slots, pins, permit, peerPermit, byWire, dynamic, closed, evicted>>
role == <<job, gate, lease, stage>>

Kind(t) == job[t].kind
KeyOf(t) == job[t].key
WorkerOf(t) == job[t].worker

Ingress == {t \in Task : Kind(t) # "egress"}
Attachments == {t \in Task : Kind(t) \in {"uctp", "native"}}

Stages == {"run", "draining", "cancelled", "routes", "tasks", "closing", "native",
           "stopped"}

PCs == {"new", "admitted", "entered", "opening", "opened", "reserved", "active",
        "listed", "open", "cleaning", "done"}

Slot == [st : {"free"}] \cup [st : {"pending"}, worker : Worker]
        \cup [st : {"active"}, route : Task]
Free == [st |-> "free"]

NoPin == [worker |-> CHOOSE w \in Worker : TRUE, count |-> 0]

TypeOK ==
    /\ job \in Jobs
    /\ gate \in {"open", "paused", "draining"}
    /\ lease \subseteq Ingress
    /\ stage \in Stages
    /\ peer \in [Worker -> [gen : 0 .. MaxPeers, st : {"none", "live", "lost", "failed"}]]
    /\ pc \in [Task -> PCs]
    /\ via \in [Task -> 0 .. MaxPeers]
    /\ pend \in [Task -> SUBSET {"open", "receipt", "error"}]
    /\ pending \subseteq Attachments
    /\ slots \in [Key -> Slot]
    /\ pins \in [Call -> [worker : Worker, count : 0 .. Cardinality(Key)]]
    /\ permit \in [Task -> {"none", "task", "route", "cleanup"}]
    /\ {peerPermit, byWire, dynamic, closed, signaled, over, evicted} \subseteq SUBSET Task
    /\ spawned \subseteq Task \X {"fail", "close"}

Init ==
    /\ job \in Jobs
    /\ gate = "paused" /\ lease = {} /\ stage = "run"
    /\ peer = [w \in Worker |-> [gen |-> 0, st |-> "none"]]
    /\ pc = [t \in Task |-> "new"]
    /\ via = [t \in Task |-> 0]
    /\ pend = [t \in Task |-> {}]
    /\ pending = {}
    /\ slots = [k \in Key |-> Free]
    /\ pins = [c \in Call |-> NoPin]
    /\ permit = [t \in Task |-> "none"]
    /\ peerPermit = {} /\ byWire = {} /\ dynamic = {} /\ closed = {}
    /\ signaled = {} /\ spawned = {} /\ over = {} /\ evicted = {}

-----------------------------------------------------------------------------
(***************************************************************************)
(* The routing table of the forwarder.                                     *)
(***************************************************************************)

draining == stage # "run"

Taken(K) == {k \in K : slots[k].st # "free"}

\* The routes a retirement of the slots K closes; retire_route_streams
\* closes a route once.
ClosedBy(K) ==
    {slots[k].route : k \in {j \in K : slots[j].st = "active"}} \ closed

\* release_call_pin, once for every slot removed.
ReleaseCallPins(K) ==
    [c \in Call |->
        LET left == pins[c].count - Cardinality({k \in Taken(K) : CallOf[k] = c})
        IN  IF left = 0 THEN NoPin ELSE [pins[c] EXCEPT !.count = left]]

\* Fault: the pin of another worker is counted as well.
ReserveAnywhere(k, w) ==
    /\ slots[k] = Free
    /\ slots' = [slots EXCEPT ![k] = [st |-> "pending", worker |-> w]]
    /\ pins' = [pins EXCEPT ![CallOf[k]] = [worker |-> w, count |-> @.count + 1]]

\* reserve_route.
ReserveRoute(k, w) ==
    /\ slots[k] = Free
    /\ pins[CallOf[k]].count > 0 => pins[CallOf[k]].worker = w
    /\ slots' = [slots EXCEPT ![k] = [st |-> "pending", worker |-> w]]
    /\ pins' = [pins EXCEPT ![CallOf[k]] = [worker |-> w, count |-> @.count + 1]]

CanReserve(k, w) ==
    /\ slots[k] = Free
    /\ pins[CallOf[k]].count > 0 => pins[CallOf[k]].worker = w

\* rollback_route: the slot goes, whatever is in it.  The route of another
\* opener of the same key is not closed by that.
RollbackRoute(k) ==
    /\ slots' = [slots EXCEPT ![k] = Free]
    /\ pins' = ReleaseCallPins({k})
    /\ evicted' = IF slots[k].st = "active" THEN evicted \cup {slots[k].route} ELSE evicted

\* The permits of the routes in R: end_source of an attachment keeps the
\* global one in its SourceCleanup task, close_channels drops the others.
ReleasePermits(R) ==
    [t \in Task |-> IF t \notin R THEN permit[t]
                    ELSE IF t \in Attachments THEN "cleanup" ELSE "none"]

\* retire_route of every key in K, with retire_route_streams.
RetireRoutes(K) ==
    LET gone == ClosedBy(K)
    IN  /\ slots' = [k \in Key |-> IF k \in K THEN Free ELSE slots[k]]
        /\ pins' = ReleaseCallPins(K)
        /\ permit' = ReleasePermits(gone)
        /\ peerPermit' = peerPermit \ gone
        /\ closed' = closed \cup gone
        /\ byWire' = byWire \ gone
        /\ dynamic' = dynamic \ gone
        /\ UNCHANGED evicted

\* RouteInner::fail, and the close or drop of a handle, end the session
\* first and retire the route by its key afterwards.
RetireSpawned(t, why) ==
    /\ <<t, why>> \in spawned
    /\ spawned' = spawned \ {<<t, why>>}
    /\ RetireRoutes({KeyOf(t)})
    /\ UNCHANGED <<role, peer, pc, via, pend, pending, signaled, over>>

\* RouteInner::fail, called by the pumps, by deliver and by the handlers
\* of malformed envelopes.
RouteFault(t) ==
    /\ pc[t] \in {"listed", "open", "cleaning", "done"} /\ permit[t] = "route"
    /\ t \notin signaled
    /\ signaled' = signaled \cup {t}
    /\ spawned' = spawned \cup {<<t, "fail">>}
    /\ UNCHANGED <<role, routing, peer, pc, via, pend, pending, over>>

\* end_source, run by the SourceCleanup task.
SourceCleanup(t) ==
    /\ permit[t] = "cleanup"
    /\ permit' = [permit EXCEPT ![t] = "none"]
    /\ UNCHANGED <<role, peer, pc, via, pend, pending, slots, pins, peerPermit,
                   byWire, dynamic, closed, signaled, spawned, over, evicted>>

\* The pumps of a route are started when its opener succeeds and hold it from
\* then on.  A route that has none is dropped, and its permits with it, once
\* its retirement has found another in its slot.
DropRoute(t) ==
    /\ pc[t] = "done" /\ permit[t] = "route" /\ t \in (Attachments \cap evicted) \ byWire
    /\ \A why \in {"fail", "close"} : <<t, why>> \notin spawned
    /\ permit' = [permit EXCEPT ![t] = "none"]
    /\ peerPermit' = peerPermit \ {t}
    /\ UNCHANGED <<role, peer, pc, via, pend, pending, slots, pins, byWire, dynamic,
                   closed, signaled, spawned, over, evicted>>

-----------------------------------------------------------------------------
(***************************************************************************)
(* Admission of public connections.                                        *)
(***************************************************************************)

\* set_dependency_ready: a draining gate stays closed.
SetDependencyReady(ready) ==
    /\ gate # "draining"
    /\ gate' = IF ready THEN "open" ELSE "paused"

\* apply_dependency_health, from the health of the edge and of call control.
DependencyHealth(ready) ==
    /\ SetDependencyReady(ready)
    /\ gate' # gate
    /\ UNCHANGED <<job, lease, stage, peer, pc, via, pend, pending, routing, signaled,
                   spawned, over>>

\* The supervisors still take tickets: the UCTP one until it is cancelled,
\* the native one until its drain begins.
UctpListening == stage \in {"run", "draining"}
NativeListening == stage = "run"
Listening(t) == IF Kind(t) = "native" THEN NativeListening ELSE UctpListening

\* GatewayAdmission::try_admit.
TryAdmit == gate = "open" /\ Cardinality(lease) < MaxAdmissions

\* A new task up to its opener.
Admit(t) ==
    /\ pc[t] = "new" /\ TryAdmit
    /\ lease' = lease \cup {t}
    /\ pc' = [pc EXCEPT ![t] = "admitted"]
    /\ UNCHANGED <<job, gate, stage, peer, via, pend, pending, routing, signaled,
                   spawned, over>>

RunAttachment(t) == Kind(t) = "uctp" /\ UctpListening /\ Admit(t)
RunBroadcast(t) == Kind(t) = "broadcast" /\ UctpListening /\ Admit(t)
RunNativeAttachment(t) == Kind(t) = "native" /\ NativeListening /\ Admit(t)

\* The proxy prepares a destination.
PrepareEgress(t) ==
    /\ pc[t] = "new" /\ Kind(t) = "egress" /\ stage = "run"
    /\ pc' = [pc EXCEPT ![t] = "admitted"]
    /\ UNCHANGED <<role, peer, via, pend, pending, routing, signaled, spawned, over>>

\* A ticket that is not admitted is rejected; nothing was acquired.
Refuse(t) ==
    /\ pc[t] = "new" /\ Kind(t) # "egress"
    /\ ~Listening(t) \/ ~TryAdmit
    /\ pc' = [pc EXCEPT ![t] = "done"]
    /\ UNCHANGED <<role, peer, via, pend, pending, routing, signaled, spawned, over>>

-----------------------------------------------------------------------------
(***************************************************************************)
(* Opening a route.                                                        *)
(***************************************************************************)

\* What a future that ends without a route drops; its cleanup finds nothing
\* to close.
DropOpener(t) ==
    /\ pc' = [pc EXCEPT ![t] = "done"]
    /\ lease' = lease \ {t}
    /\ permit' = [permit EXCEPT ![t] = IF @ = "task" THEN "none" ELSE @]
    /\ peerPermit' = IF permit[t] = "task" THEN peerPermit \ {t} ELSE peerPermit

\* The checks of the forwarder before its first await.
CanEnter == /\ ~draining
            /\ Cardinality({t \in Task : permit[t] # "none"}) < MaxRoutes

EnterForwarder(t) ==
    /\ pc[t] = "admitted"
    /\ \/ /\ CanEnter
          /\ permit' = [permit EXCEPT ![t] = "task"]
          /\ pc' = [pc EXCEPT ![t] = "entered"]
          /\ UNCHANGED <<lease, peerPermit>>
       \/ ~CanEnter /\ DropOpener(t)
    /\ UNCHANGED <<job, gate, stage, peer, via, pend, pending, slots, pins, byWire,
                   dynamic, closed, signaled, spawned, over, evicted>>

Live(w) == peer[w].st = "live"

\* ensure_peer: the live connection, or a new one while the endpoint is open.
EnsurePeer(w) ==
    IF Live(w) THEN UNCHANGED peer
    ELSE /\ peer[w].gen < MaxPeers /\ peer[w].st # "lost"
         /\ stage \notin {"native", "stopped"}
         /\ peer' = [peer EXCEPT ![w] = [gen |-> @.gen + 1, st |-> "live"]]

\* open_wire_route waits for the acceptance and the stream, and an attachment
\* for its receipt at the same time.
Awaited(t) == {"open"} \cup IF t \in Attachments THEN {"receipt"} ELSE {}

\* A connected peer and its permit: then the invitation is on the wire.
JoinPeer(t) ==
    LET w == WorkerOf(t) IN
    /\ pc[t] = "entered"
    /\ EnsurePeer(w)
    /\ Cardinality({s \in peerPermit : WorkerOf(s) = w /\ via[s] = peer'[w].gen})
          < MaxPeerRoutes
    /\ via' = [via EXCEPT ![t] = peer'[w].gen]
    /\ peerPermit' = peerPermit \cup {t}
    /\ pend' = [pend EXCEPT ![t] = Awaited(t)]
    /\ pc' = [pc EXCEPT ![t] = "opening"]
    /\ UNCHANGED <<role, permit, byWire, dynamic, closed, signaled, spawned, over, evicted>>

\* An attachment is pending until its receipt says what it is for.
JoinAttachment(t) ==
    /\ t \in Attachments
    /\ JoinPeer(t)
    /\ pending' = pending \cup {t}
    /\ UNCHANGED <<slots, pins>>

\* A destination and a listener know their call and reserve its slot first.
JoinDestination(t) ==
    /\ Kind(t) = "egress"
    /\ JoinPeer(t)
    /\ ReserveRoute(KeyOf(t), WorkerOf(t))
    /\ UNCHANGED pending

JoinBroadcast(t) ==
    /\ Kind(t) = "broadcast"
    /\ JoinPeer(t)
    /\ ReserveRoute(KeyOf(t), WorkerOf(t))
    /\ UNCHANGED pending

\* No connection, no permit or no slot.  A stale peer met on the way fails.
CannotJoin(t) ==
    /\ pc[t] = "entered"
    /\ DropOpener(t)
    /\ UNCHANGED <<job, gate, stage, peer, via, pend, pending, slots, pins, byWire,
                   dynamic, closed, signaled, spawned, over, evicted>>

\* All replies are in.
OpenSucceeds(t) ==
    /\ pc[t] = "opening" /\ pend[t] = {}
    /\ pc' = [pc EXCEPT ![t] = IF t \in Attachments THEN "opened" ELSE "reserved"]
    /\ UNCHANGED <<role, peer, via, pend, pending, routing, signaled, spawned, over>>

\* A reply is an error, a send fails, or the signaling deadline passes.
OpenFails(t) ==
    /\ pc[t] = "opening"
    /\ pend' = [pend EXCEPT ![t] = {}]
    /\ pending' = pending \ {t}
    /\ IF t \in Attachments THEN UNCHANGED <<slots, pins, evicted>>
       ELSE RollbackRoute(KeyOf(t))
    /\ DropOpener(t)
    /\ UNCHANGED <<job, gate, stage, peer, via, byWire, dynamic, closed, signaled,
                   spawned, over>>

\* The receipt names the call and leg: only now can the slot be reserved.
ReserveAttachment(t) ==
    LET k == KeyOf(t)
        w == WorkerOf(t)
    IN
    /\ pc[t] = "opened"
    /\ \/ /\ ReserveRoute(k, w)
          /\ pc' = [pc EXCEPT ![t] = "reserved"]
          /\ UNCHANGED <<lease, pending, permit, peerPermit>>
       \/ /\ ~CanReserve(k, w)
          /\ pending' = pending \ {t}
          /\ DropOpener(t)
          /\ UNCHANGED <<slots, pins>>
    /\ UNCHANGED <<job, gate, stage, peer, via, pend, byWire, dynamic, closed, signaled,
                   spawned, over, evicted>>

Reserved(t) == slots[KeyOf(t)] = [st |-> "pending", worker |-> WorkerOf(t)]

\* activate_route: the route takes the permits; a slot that shutdown took
\* away meanwhile is an error.
ActivateRoute(t) ==
    /\ pc[t] = "reserved"
    /\ \/ /\ Reserved(t)
          /\ slots' = [slots EXCEPT ![KeyOf(t)] = [st |-> "active", route |-> t]]
          /\ permit' = [permit EXCEPT ![t] = "route"]
          /\ pc' = [pc EXCEPT ![t] = "active"]
          /\ UNCHANGED <<lease, pending, pins, peerPermit, evicted>>
       \/ /\ ~Reserved(t)
          /\ RollbackRoute(KeyOf(t))
          /\ pending' = pending \ {t}
          /\ DropOpener(t)
    /\ UNCHANGED <<job, gate, stage, peer, via, pend, byWire, dynamic, closed, signaled,
                   spawned, over>>

\* The route becomes visible to the envelope handlers of its peer.
ListRoute(t, next) ==
    /\ pc[t] = "active"
    /\ byWire' = byWire \cup {t}
    /\ pc' = [pc EXCEPT ![t] = next]
    /\ UNCHANGED <<role, peer, via, pend, pending, slots, pins, permit, peerPermit,
                   dynamic, closed, signaled, spawned, over, evicted>>

ListAttachment(t) == t \in Attachments /\ ListRoute(t, "listed")
ListDestination(t) == Kind(t) = "egress" /\ ListRoute(t, "open")
ListBroadcast(t) == Kind(t) = "broadcast" /\ ListRoute(t, "listed")

StillPending(t) == t \in pending

\* promote_pending_attachment: only an admission nobody revoked becomes a
\* route the ingress may use.
Promote(t) ==
    /\ pc[t] = "listed" /\ t \in Attachments
    /\ pending' = pending \ {t}
    /\ IF StillPending(t)
       THEN /\ pc' = [pc EXCEPT ![t] = "open"]
            /\ UNCHANGED <<lease, byWire, signaled, spawned>>
       ELSE /\ byWire' = byWire \ {t}
            /\ signaled' = signaled \cup {t}
            /\ spawned' = IF t \in signaled THEN spawned ELSE spawned \cup {<<t, "fail">>}
            /\ pc' = [pc EXCEPT ![t] = "done"]
            /\ lease' = lease \ {t}
    /\ UNCHANGED <<job, gate, stage, peer, via, pend, slots, pins, permit, peerPermit,
                   dynamic, closed, over, evicted>>

\* subscribe_broadcast_route: the worker acknowledges.
Subscribe(t) ==
    /\ pc[t] = "listed" /\ Kind(t) = "broadcast"
    /\ Live(WorkerOf(t)) /\ via[t] = peer[WorkerOf(t)].gen
    /\ pc' = [pc EXCEPT ![t] = "open"]
    /\ UNCHANGED <<role, peer, via, pend, pending, routing, signaled, spawned, over>>

\* It does not: the listed route is retired again.
SubscribeFails(t) ==
    /\ pc[t] = "listed" /\ Kind(t) = "broadcast"
    /\ RetireRoutes({KeyOf(t)})
    /\ pc' = [pc EXCEPT ![t] = "done"]
    /\ lease' = lease \ {t}
    /\ UNCHANGED <<job, gate, stage, peer, via, pend, pending, signaled, spawned, over>>

\* Fault: no guard revokes the admission of a cancelled attachment.
CancelUnguarded(t) ==
    /\ \/ pc[t] \in {"admitted", "entered", "opening"}
       \/ pc[t] = "listed" /\ Kind(t) = "broadcast"
    /\ DropOpener(t)
    /\ UNCHANGED <<job, gate, stage, peer, via, pend, pending, slots, pins, byWire,
                   dynamic, closed, signaled, spawned, over, evicted>>

\* The setup deadline of the ingress, the proxy's timeout or an abort drops
\* the opener while it waits.  The guard of an attachment revokes it; a slot
\* already reserved, or a route already listed, has no guard.
CancelOpener(t) ==
    /\ \/ pc[t] \in {"admitted", "entered", "opening"}
       \/ pc[t] = "listed" /\ Kind(t) = "broadcast"
    /\ pending' = pending \ {t}
    /\ DropOpener(t)
    /\ UNCHANGED <<job, gate, stage, peer, via, pend, slots, pins, byWire, dynamic,
                   closed, signaled, spawned, over, evicted>>

-----------------------------------------------------------------------------
(***************************************************************************)
(* Envelopes and failures of the worker peer.                              *)
(***************************************************************************)

Connected(t) == /\ Live(WorkerOf(t)) /\ via[t] = peer[WorkerOf(t)].gen
                /\ pc[t] \notin {"new", "admitted", "entered"}

\* SessionAccept and StreamOpened of the offered stream, or the receipt of
\* the admission.
Reply(t, what) ==
    /\ Connected(t) /\ what \in pend[t]
    /\ what = "receipt" => t \in pending
    /\ pend' = [pend EXCEPT ![t] = @ \ {what}]
    /\ UNCHANGED <<role, peer, pc, via, pending, routing, signaled, spawned, over>>

\* StreamOpened of a stream the worker announces to a listed broadcast
\* route: register_broadcast_stream, once and only while it is open.
AnnounceStream(t) ==
    /\ Connected(t) /\ Kind(t) = "broadcast" /\ t \in byWire \ closed
    /\ t \notin dynamic
    /\ dynamic' = dynamic \cup {t}
    /\ UNCHANGED <<role, peer, pc, via, pend, pending, slots, pins, permit,
                   peerPermit, byWire, closed, signaled, spawned, over, evicted>>

\* revoke_pending_attachment answers a receipt still awaited with an error.
Revoked(T) ==
    [t \in Task |-> IF t \in T /\ "receipt" \in pend[t]
                    THEN pend[t] \cup {"error"} ELSE pend[t]]

\* A MessageSend that is not the awaited receipt, is for another
\* conversation, or whose answer cannot be sent: the admission is revoked.
BadMessage(t) ==
    /\ Connected(t) /\ t \in pending
    /\ pend' = Revoked({t})
    /\ pending' = pending \ {t}
    /\ UNCHANGED <<role, peer, pc, via, routing, signaled, spawned, over>>

\* Error and SessionReject also answer the awaited acceptance or stream.
Rejected(t) ==
    [Revoked(pending \cap {t}) EXCEPT ![t] =
        IF "open" \in @ THEN @ \cup {"error"} ELSE @]

\* retire_remote of the listed routes of T.
RetireListed(T) == RetireRoutes({KeyOf(t) : t \in byWire \cap T})

SessionReject(t) ==
    /\ Connected(t)
    /\ pend' = Rejected(t)
    /\ pending' = pending \ {t}
    /\ RetireListed({t})
    /\ over' = over \cup ({t} \cap Attachments)
    /\ UNCHANGED <<role, peer, pc, via, signaled, spawned>>

\* Fault: the end of a session only retires listed routes.
SessionEndListed(t) ==
    /\ Connected(t)
    /\ RetireListed({t})
    /\ over' = over \cup ({t} \cap Attachments)
    /\ UNCHANGED <<role, peer, pc, via, pend, pending, signaled, spawned>>

\* SessionCancel, SessionEnd, SessionEnded, ConnectionEnd and StreamClosed.
SessionEnd(t) ==
    /\ Connected(t)
    /\ pend' = Revoked(pending \cap {t})
    /\ pending' = pending \ {t}
    /\ RetireListed({t})
    /\ over' = over \cup ({t} \cap Attachments)
    /\ UNCHANGED <<role, peer, pc, via, signaled, spawned>>

\* The connection is lost or closed: is_live fails from here on.
LosePeer(w) ==
    /\ Live(w)
    /\ peer' = [peer EXCEPT ![w].st = "lost"]
    /\ UNCHANGED <<role, pc, via, pend, pending, routing, signaled, spawned, over>>

On(w) == {t \in Task : WorkerOf(t) = w /\ via[t] = peer[w].gen /\ via[t] > 0}

\* WorkerPeer::fail, by the pump that sees the loss.
FailPeer(w) ==
    /\ peer[w].st = "lost"
    /\ peer' = [peer EXCEPT ![w].st = "failed"]
    /\ pend' = [t \in Task |-> IF t \in On(w) /\ pend[t] # {}
                               THEN pend[t] \cup {"error"} ELSE pend[t]]
    /\ pending' = pending \ On(w)
    /\ RetireListed(On(w))
    /\ over' = over \cup (On(w) \cap Attachments)
    /\ UNCHANGED <<role, pc, via, signaled, spawned>>

-----------------------------------------------------------------------------
(***************************************************************************)
(* The life of a task with a route, and its cleanup.                       *)
(***************************************************************************)

\* The pumps of a task end; cleanup then starts GatewayForwardingRoute::close
\* unless the route is closed.
EndTask(t) ==
    /\ pc[t] = "open"
    /\ pc' = [pc EXCEPT ![t] = "cleaning"]
    /\ lease' = lease \ {t}
    /\ spawned' = IF t \in closed THEN spawned ELSE spawned \cup {<<t, "close">>}
    /\ UNCHANGED <<job, gate, stage, peer, via, pend, pending, routing, signaled, over>>

\* run_route_pumps and run_native_pumps: the public side hangs up, the task
\* is cancelled, a queue overflows, or the route gives no more packets.
UctpPumpsEnd(t) == Kind(t) = "uctp" /\ EndTask(t)
NativePumpsEnd(t) == Kind(t) = "native" /\ EndTask(t)

\* run_broadcast_pump: also when the listener is no longer authorised.
BroadcastPumpEnds(t) == Kind(t) = "broadcast" /\ EndTask(t)

\* The proxy's registry lets go of the stream.
ProxyEnds(t) == Kind(t) = "egress" /\ EndTask(t)

\* cleanup has closed the route and ended the public connection.
FinishCleanup(t) ==
    /\ pc[t] = "cleaning" /\ <<t, "close">> \notin spawned
    /\ pc' = [pc EXCEPT ![t] = "done"]
    /\ UNCHANGED <<role, peer, via, pend, pending, routing, signaled, spawned, over>>

\* The ingress of t, or the supervisor of it, was stopped.
Aborted(t) ==
    CASE Kind(t) = "native" -> stage \in {"native", "stopped"}
      [] Kind(t) = "egress" -> stage \in {"tasks", "closing", "native", "stopped"}
      [] OTHER -> stage \notin {"run", "draining"}

\* abort_all drops a task within its cleanup: the handle it took out of its
\* resources retires the route in the background.
AbortCleanup(t) ==
    /\ pc[t] = "cleaning" /\ Aborted(t)
    /\ pc' = [pc EXCEPT ![t] = "done"]
    /\ spawned' = IF t \in closed THEN spawned \ {<<t, "close">>} ELSE spawned
    /\ UNCHANGED <<role, peer, via, pend, pending, routing, signaled, over>>

-----------------------------------------------------------------------------
(***************************************************************************)
(* The ordered stop of the role.  Each wait ends when what it waits for is *)
(* gone or when its share of the deadline is used up.                      *)
(***************************************************************************)

Enter(s, t) == stage = s /\ stage' = t

\* GatewayRoleRuntime::begin_drain.
BeginDrain ==
    /\ Enter("run", "draining")
    /\ gate' = "draining"
    /\ UNCHANGED <<job, lease, peer, pc, via, pend, pending, routing, signaled, spawned,
                   over>>

Running(kinds) == {t \in Task : Kind(t) \in kinds /\ pc[t] \notin {"new", "done"}}

\* wait_idle of the gate, then the UCTP ingress waits for its tasks and
\* cancels them.
StopWaiting ==
    /\ Enter("draining", "cancelled")
    /\ UNCHANGED <<job, gate, lease, peer, pc, via, pend, pending, routing, signaled,
                   spawned, over>>

\* run_ingress_supervisor has joined and cleaned up every task.
IngressStopped ==
    /\ Running({"uctp", "broadcast"}) = {}
    /\ Enter("cancelled", "routes")
    /\ UNCHANGED <<job, gate, lease, peer, pc, via, pend, pending, routing, signaled,
                   spawned, over>>

\* Fault: routes that are still being opened are left to their openers.
RetireActive ==
    /\ Enter("routes", "tasks")
    /\ RetireRoutes({k \in Key : slots[k].st = "active"})
    /\ UNCHANGED <<job, gate, lease, peer, pc, via, pend, pending, signaled, spawned, over>>

\* The forwarder waits for its routes for half of its time and then retires
\* every slot, those of openers still under way included.
RetireAll ==
    /\ Enter("routes", "tasks")
    /\ RetireRoutes(Key)
    /\ UNCHANGED <<job, gate, lease, peer, pc, via, pend, pending, signaled, spawned, over>>

\* drain_until, the drain of the private-egress service and the second wave
\* of cleanups: tasks past the deadline are aborted and drop their permits.
DrainTasks ==
    /\ Enter("tasks", "closing")
    /\ permit' = [t \in Task |-> IF permit[t] = "cleanup" THEN "none" ELSE permit[t]]
    /\ UNCHANGED <<job, gate, lease, peer, pc, via, pend, pending, slots, pins, peerPermit,
                   byWire, dynamic, closed, signaled, spawned, over, evicted>>

\* Every peer and the endpoint are closed.
ClosePeers ==
    /\ Enter("closing", "native")
    /\ peer' = [w \in Worker |-> IF Live(w) THEN [peer[w] EXCEPT !.st = "lost"]
                                 ELSE peer[w]]
    /\ UNCHANGED <<job, gate, lease, pc, via, pend, pending, routing, signaled, spawned,
                   over>>

\* The native ingress cancels its tasks last.
NativeStopped ==
    /\ Running({"native"}) = {}
    /\ Enter("native", "stopped")
    /\ UNCHANGED <<job, gate, lease, peer, pc, via, pend, pending, routing, signaled,
                   spawned, over>>

-----------------------------------------------------------------------------

\* What the process does by itself: no step of it can be put off for ever.
Open(t) ==
    \/ EnterForwarder(t) \/ CannotJoin(t)
    \/ JoinAttachment(t) \/ JoinDestination(t) \/ JoinBroadcast(t)
    \/ OpenSucceeds(t) \/ OpenFails(t) \/ ReserveAttachment(t) \/ ActivateRoute(t)
    \/ ListAttachment(t) \/ ListDestination(t) \/ ListBroadcast(t)
    \/ Promote(t) \/ Subscribe(t) \/ SubscribeFails(t)

Background ==
    \/ \E t \in Task, why \in {"fail", "close"} : RetireSpawned(t, why)
    \/ \E t \in Task : \/ SourceCleanup(t) \/ FinishCleanup(t) \/ AbortCleanup(t)
                       \/ DropRoute(t)
    \/ \E w \in Worker : FailPeer(w)

Stop ==
    \/ StopWaiting \/ IngressStopped \/ RetireAll \/ DrainTasks
    \/ ClosePeers \/ NativeStopped
    \/ \E t \in Task : Aborted(t) /\ EndTask(t)

Progress == Background \/ Stop \/ \E t \in Task : Open(t)

\* What its surroundings do.
Outside ==
    \/ \E ready \in BOOLEAN : DependencyHealth(ready)
    \/ BeginDrain
    \/ \E t \in Task :
          \/ RunAttachment(t) \/ RunBroadcast(t) \/ RunNativeAttachment(t)
          \/ PrepareEgress(t) \/ Refuse(t)
          \/ CancelOpener(t) \/ RouteFault(t) \/ BadMessage(t)
          \/ UctpPumpsEnd(t) \/ NativePumpsEnd(t) \/ BroadcastPumpEnds(t) \/ ProxyEnds(t)
          \/ \E what \in {"open", "receipt"} : Reply(t, what)
          \/ AnnounceStream(t) \/ SessionReject(t) \/ SessionEnd(t)
    \/ \E w \in Worker : LosePeer(w)

Finished == /\ stage = "stopped" /\ spawned = {}
            /\ \A w \in Worker : peer[w].st # "lost"
            /\ \A t \in Task : pc[t] \in {"new", "done"} /\ permit[t] # "cleanup"

Stopped == Finished /\ UNCHANGED vars

Next == Progress \/ Outside \/ Stopped

Spec == Init /\ [][Next]_vars

\* Every future of the process is polled and every deadline passes.
FairSpec == Spec /\ WF_vars(Progress)

-----------------------------------------------------------------------------
(***************************************************************************)
(* Properties.                                                             *)
(***************************************************************************)

\* A call is carried to one worker only: every slot of the call counts on
\* the pin and goes to its worker, so a stale projection cannot split a call
\* over two workers, and the pin goes with the last slot.
OneWorkerPerCall ==
    /\ TypeOK
    /\ \A c \in Call :
          LET used == {k \in Key : CallOf[k] = c /\ slots[k].st # "free"} IN
          /\ pins[c].count = Cardinality(used)
          /\ \A k \in used :
                pins[c].worker = IF slots[k].st = "pending" THEN slots[k].worker
                                 ELSE WorkerOf(slots[k].route)

\* An attachment whose session the worker ended, or whose peer failed, while
\* its route was being opened is never served: by the time the ingress has
\* the route it is closed or about to be.  The one exception is a route that
\* another opener's rollback took out of the slot they share: its end is sought
\* under the key and not found (retire_route, rollback_route).
EndedSetupIsNotServed ==
    \A t \in (Attachments \cap over) \ evicted :
        pc[t] = "open" => t \in closed \/ \E why \in {"fail", "close"} : <<t, why>> \in spawned

\* Whatever way a task ends, its public admission lease, its pending
\* admission and the permits its opener held are given back.  Permits that
\* went to a route stay with it; those of an attachment only as long as a
\* retirement of the route is under way, unless another opener of the same
\* leg has rolled back the slot they share, which removes the route without
\* closing it (rollback_route goes by the key).
NothingIsKept ==
    \A t \in Task :
        pc[t] = "done" =>
            /\ t \notin lease \cup pending
            /\ permit[t] # "task"
            /\ t \in peerPermit => permit[t] = "route"
            /\ permit[t] = "route" /\ t \in Attachments =>
                  t \in evicted \/ \E why \in {"fail", "close"} : <<t, why>> \in spawned

\* A stop that began ends with no permit, route, admission or lease left,
\* those of cancelled openers and of native openers it overtook included,
\* with two exceptions: a proxy's opener cancelled after the routes were
\* retired leaves the slot it had reserved, and a route that another opener's
\* rollback took out of the slot they share keeps its permits (two native
\* openers of one leg that outlive the retirement of all routes).
StopLeavesNothing ==
    stage = "draining" ~>
        /\ stage = "stopped"
        /\ \A k \in Key :
              \/ slots[k] = Free
              \/ slots[k].st = "pending" /\ \E t \in Task : KeyOf(t) = k /\ Kind(t) = "egress"
        /\ \A t \in Task \ evicted : permit[t] = "none" /\ t \notin peerPermit
        /\ lease = {} /\ pending = {} /\ dynamic = {}
=============================================================================
