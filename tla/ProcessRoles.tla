---------------------------- MODULE ProcessRoles ----------------------------
(***************************************************************************)
(* One bridgefu process from the load of its configuration to its exit:    *)
(* main.rs (the expert and the recipe-only all-in-one process), runtime.rs *)
(* (the generic SIP/WebRTC bridge), process_role.rs (the split gateway and *)
(* the split worker) and moq_relay_role.rs (the relay).                    *)
(*                                                                         *)
(* Every role is a program: the sequence of its fallible start steps, the  *)
(* cleanup it runs when one of them fails, and its stop sequence.  `todo'  *)
(* is what is left of the program being run; one step of the model is one  *)
(* awaited call of the code.  Signals, the end of the HTTP task, requests  *)
(* in flight, dependency changes and the passing of the drain deadline     *)
(* interleave with it.                                                     *)
(***************************************************************************)
EXTENDS Configuration, TLC

CONSTANTS
    Deployments,  \* the configurations a process is started with,
    Changed(_),   \* and what a change to one of them may make of it
    Gateways,     \* the gateways a worker may share a deployment with
    MaxRequests,  \* bound on HTTP requests in flight at a time
    MaxBroadcasts \* broadcast.max_active

ASSUME RequestsAssumption == MaxRequests \in Nat \ {0} /\ MaxBroadcasts \in Nat \ {0}

VARIABLES
    mode,      \* the role that was loaded, "none" before
    parts,     \* the optional parts its configuration enables
    missing,   \* the start steps whose configuration is refused when reached
    broke,     \* the start step that failed, "none" if none did
    phase,     \* load, starting, serving, stopping, exited
    todo,      \* the steps left of the program being run
    up,        \* component |-> off, on, draining
    row,       \* the durable worker row: none, registered, active, draining, lost, or
               \* unmarked: left as it was by a failed write of the draining mark
    requests,  \* HTTP requests in flight, each holding the call runtime, and those of them
               \* with a publication started; whether one outlived its server
    published, \* local broadcasts that are in the table
    dep,       \* dependency |-> healthy, degraded, stopped
    edge,      \* the gateway monitor's combined health
    health,    \* RoleLifecycle, as /readyz reports it
    signalled, \* a shutdown signal has arrived
    failed,    \* the process returns an error
    late       \* the drain deadline has passed

vars == <<mode, parts, missing, broke, phase, todo, up, row, requests, published, dep,
          edge, health, signalled, failed, late>>

Components == {"legacy", "row", "amazon", "execution", "sip", "webrtc",
               "uctp", "tasks", "http", "ops", "egress", "forwarding", "broadcasts",
               "control", "ingress", "native", "native_sip", "native_profiles", "native_webrtc",
               "profiles", "publisher", "webtransport", "raw_quic"}

Terminal == {"stopped", "failed"}

\* The components through which a peer or a client reaches the process.
Listeners == {"legacy", "sip", "profiles", "webrtc", "uctp", "http", "ops", "forwarding",
              "ingress", "native_sip", "native_profiles", "native_webrtc", "publisher",
              "webtransport", "raw_quic"}

-----------------------------------------------------------------------------
(* Programs                                                                *)

Step(op, c) == <<[op |-> op, c |-> c]>>
Open(c)     == Step("open", c)      \* start component c; may fail
Check(c)    == Step("check", c)     \* a fallible step that leaves nothing open
Drain(c)    == Step("drain", c)     \* begin_drain: c refuses new work
Close(c)    == Step("close", c)     \* bounded shutdown of c
Report(h)   == Step("report", h)    \* RoleHealth::transition
Unwrap(c)   == Step("unwrap", c)    \* Arc::try_unwrap, then the runtime's shutdown
Publish     == Step("publish", "capabilities")
CloseLocalBroadcasts == Step("broadcasts", "http")

\* RolePlan::for_mode: the components each mode may construct at all.
RolePlan(m) ==
    CASE m \in {"expert", "recipe"} ->
            {"row", "amazon", "execution", "sip", "profiles", "webrtc", "uctp", "tasks", "http"}
                \cup (IF m = "expert" THEN {"legacy"} ELSE {})
      [] m = "gateway" -> {"control", "forwarding", "ingress", "native", "native_sip",
                           "native_profiles", "native_webrtc", "http", "ops"}
      [] m = "worker" -> {"row", "amazon", "execution", "egress", "forwarding", "broadcasts", "http"}
      [] m = "relay" -> {"publisher", "webtransport", "raw_quic", "http"}

\* build_call_service_runtime and finish_runtime: Redis cannot take part in the
\* registration, so everything it is needed for is set up before it.
CallRuntimeStart ==
    Check("repository") \o Check("coordination") \o Check("wakeups") \o Open("row")

\* build_call_control_runtime: no worker is registered.
ControlStart ==
    Check("control_repository") \o Check("control_coordination") \o Open("control")

\* build_profiled_sip_adapter: one child stack per named destination, each with its
\* evidence policy and monitor, then the pool of them all.
ProfilesStart ==
    Open("profiles") \o Check("profile_policy") \o Check("profile_monitors")
        \o Check("profile_pool")

\* A failed stack or monitor shuts the others down; a later one's failed policy and a
\* failed pool drop them as they are.
ProfilesRollback(c) == IF c = "profile_monitors" THEN Close("profiles") ELSE <<>>

\* GenericBridgeRuntime::start.  The execution supervisor is installed before
\* the first socket is opened, so that an immediate lifecycle event has a consumer.
GenericStart ==
    Check("signaling_tls") \o Open("execution") \o Open("sip") \o Check("sip_adapter")
        \o ProfilesStart \o Open("webrtc") \o Check("register_adapters")

\* rollback_failed_startup: what it is given is closed, listeners first.  It is given
\* the profile pool once there is one, and the coordinator alone before.
RollbackGeneric(c) ==
    ProfilesRollback(c) \o Drain("execution") \o Drain("amazon") \o Close("webrtc")
        \o (IF c \in {"webrtc", "register_adapters"} THEN Close("profiles") ELSE <<>>)
        \o Close("sip") \o Close("execution") \o Close("amazon")

\* Fault: the supervisor is shut down before the listeners that feed it.
SupervisorFirstShutdown ==
    Drain("execution") \o Drain("amazon") \o Close("execution") \o Close("amazon")
        \o Close("webrtc") \o Close("profiles") \o Close("sip")

\* GenericBridgeRuntime::shutdown.
GenericShutdown ==
    Drain("execution") \o Drain("amazon") \o Close("webrtc") \o Close("profiles") \o Close("sip")
        \o Close("execution") \o Close("amazon")

\* The steps of GenericBridgeRuntime::start that roll back.
GenericRollsBack == {"sip", "sip_adapter", "profiles", "profile_policy", "profile_monitors",
                     "profile_pool", "webrtc", "register_adapters"}

\* run_all_in_one, up to the select.
ExpertStart(ps) ==
    Open("legacy") \o (IF "row" \in ps THEN CallRuntimeStart ELSE <<>>)
        \o Check("journal") \o Check("reconcile")
        \o (IF "generic" \in ps
            THEN Check("call_runtime") \o Check("sip_policy") \o Check("sip_stack")
                     \o Open("amazon")
                     \o GenericStart \o Publish
            ELSE <<>>)
        \o (IF "uctp" \in ps THEN Open("uctp") ELSE <<>>)
        \o Open("tasks") \o Open("http")

\* Fault: a failed UCTP bind is returned at once.
RollbackForgetsListeners(c) ==
    CASE c \in GenericRollsBack -> RollbackGeneric(c)
      [] c = "capabilities" -> GenericShutdown
      [] OTHER -> <<>>

ExpertRollback(c) ==
    CASE c \in GenericRollsBack -> RollbackGeneric(c)
      [] c \in {"capabilities", "uctp"} -> GenericShutdown
      [] OTHER -> <<>>

\* run_all_in_one, from the select on.
ExpertStop ==
    Drain("http") \o Drain("legacy") \o Drain("uctp") \o Close("legacy") \o Close("tasks")
        \o Close("http") \o CloseLocalBroadcasts \o Close("uctp") \o GenericShutdown
        \o Unwrap("row")

\* run_recipe_all_in_one, up to the select.
RecipeStart(ps) ==
    Check("recipe_runtime") \o (IF "row" \in ps THEN CallRuntimeStart ELSE <<>>) \o Check("call_runtime") \o Check("sip_policy")
        \o Check("sip_stack") \o Open("amazon") \o Check("journal") \o Check("reconcile")
        \o GenericStart \o Publish
        \o (IF "uctp" \in ps THEN Open("uctp") ELSE <<>>)
        \o Open("tasks") \o Open("http")

\* The listener's bind is returned with `?': the generic runtime is not shut down.
RecipeRollback(c) ==
    CASE c \in GenericRollsBack -> RollbackGeneric(c)
      [] c = "capabilities" -> GenericShutdown
      [] OTHER -> <<>>

\* run_recipe_all_in_one, from the select on.
RecipeStop ==
    Drain("http") \o Drain("uctp") \o CloseLocalBroadcasts \o Close("uctp")
        \o GenericShutdown \o Close("tasks") \o Close("http") \o Unwrap("row")

\* WorkerRoleRuntime::start and start_with_components; configure_post_start.
WorkerStart(ps) ==
    Check("worker_config") \o CallRuntimeStart \o Open("egress") \o Open("execution")
        \o Open("amazon")

\* WorkerForwardingRuntime::start_with_broadcast_and_private_egress and start_inner.
WorkerForwardingStart ==
    Check("forwarding_config") \o Check("forwarding_tls") \o Open("forwarding")

WorkerPostStart(ps) ==
    WorkerForwardingStart \o Check("command_repository") \o Check("grants")
        \o Check("public_endpoint")
        \o (IF "origin" \in ps THEN Check("origin_relay") ELSE <<>>)
        \o Open("broadcasts")

\* WorkerRoleRuntime::shutdown.
WorkerShutdown ==
    Drain("forwarding") \o Drain("egress") \o Drain("execution") \o Drain("amazon")
        \o Close("broadcasts") \o Close("amazon") \o Close("execution") \o Close("egress")
        \o Close("forwarding") \o Unwrap("row")

\* The steps of WorkerRoleRuntime::start before configure_post_start.
BeforePostStart == {"worker_config", "repository", "coordination", "wakeups", "row", "egress",
                    "execution", "amazon"}

\* start_with_components undoes each step by hand; a later failure goes through
\* cleanup_failed_start, a failed bind of the operational listener through shutdown.
WorkerRollback(c) ==
    CASE c \in {"worker_config", "repository", "coordination", "wakeups", "row"} -> Report("failed")
      [] c \in {"egress", "execution"} -> Unwrap("row") \o Report("failed")
      [] c = "amazon" ->
            Drain("execution") \o Drain("amazon") \o Close("execution") \o Close("amazon")
                \o Unwrap("row") \o Report("failed")
      [] c = "http" -> Report("failed") \o WorkerShutdown
      [] OTHER -> WorkerShutdown \o Report("failed")

\* run_worker, from the end of its select loop on.
WorkerStop(err) ==
    (IF err THEN <<>> ELSE Report("draining")) \o WorkerShutdown \o Drain("http") \o Close("http")

\* GatewayUctpIngress::start
IngressStart == Check("ingress_config") \o Check("ingress_tls") \o Open("ingress")

\* GatewayNativeIngress::start: files are read before the first socket is bound.
NativeStart ==
    Check("native_tls") \o Open("native_sip") \o Check("native_adapter")
        \o Open("native_profiles") \o Check("native_pool") \o Open("native_webrtc")
        \o Check("native_register")
        \o Open("native")

\* A failed pool drops its profile stacks as they are, here too.
NativeRollback(c) ==
    CASE c \in {"native_adapter", "native_profiles", "native_pool"} -> Close("native_sip")
      [] c = "native_webrtc" -> Close("native_profiles") \o Close("native_sip")
      [] c = "native_register" ->
            Close("native_webrtc") \o Close("native_profiles") \o Close("native_sip")
      [] OTHER -> <<>>

\* GatewayNativeIngress::shutdown; its supervisor ends once its routes have.
NativeShutdown ==
    Close("native_webrtc") \o Close("native_profiles") \o Close("native_sip") \o Close("native")

\* What the edge factory resolves and connects to before it opens a socket.
EdgeAuthorities ==
    Check("edge_config") \o Check("edge_projection") \o Check("edge_commands")
        \o Check("edge_grants")

\* run_gateway_with_factory with the edge factory's start.
GatewayStart(ps) ==
    Check("api_tls") \o ControlStart \o EdgeAuthorities \o Open("forwarding")
        \o IngressStart \o NativeStart \o Check("egress_service")
        \o Open("http") \o Open("ops")

\* AuthenticatedGatewayEdge::shutdown.
EdgeShutdown == Close("ingress") \o Close("forwarding") \o NativeShutdown

\* GatewayRoleRuntime::begin_drain and shutdown.
GatewayDrain == Drain("native") \o Drain("ingress") \o Drain("forwarding")
GatewayRuntimeShutdown == GatewayDrain \o EdgeShutdown

\* The edge factory closes what it opened; run_gateway_with_factory then drops
\* the API state and shuts call control down.
GatewayRollback(c) ==
    CASE c \in {"api_tls", "control_repository", "control_coordination", "control"} ->
            Report("failed")
      [] c \in {"edge_config", "edge_projection", "edge_commands", "edge_grants", "forwarding"} -> Report("failed") \o Unwrap("control")
      [] c \in {"ingress_config", "ingress_tls", "ingress"} -> Close("forwarding") \o Report("failed") \o Unwrap("control")
      [] c \in {"native_tls", "native_sip", "native_adapter", "native_profiles",
                "native_pool", "native_webrtc", "native_register"} ->
            NativeRollback(c) \o Close("ingress") \o Close("forwarding") \o Report("failed") \o Unwrap("control")
      [] c = "egress_service" -> EdgeShutdown \o Report("failed") \o Unwrap("control")
      [] c = "http" -> Report("failed") \o GatewayRuntimeShutdown \o Unwrap("control")
      [] c = "ops" ->
            Close("http") \o Report("failed") \o GatewayRuntimeShutdown \o Unwrap("control")

\* run_gateway_runtime_with_app, from the end of its select loop on.
GatewayStop(err) ==
    (IF err THEN <<>> ELSE Report("draining")) \o GatewayDrain \o Drain("http") \o Drain("ops")
        \o Close("http") \o Close("ops") \o Unwrap("control") \o GatewayRuntimeShutdown

\* MoqRelayRoleRuntime::start and the head of run_moq_relay.
RelayStart(ps) ==
    Check("relay_authorities") \o Open("publisher") \o Open("webtransport") \o Open("raw_quic")
        \o Open("http")

RelayDrain == Close("publisher") \o Close("webtransport") \o Close("raw_quic")

RelayRollback(c) == IF c = "relay_authorities" THEN <<>> ELSE RelayDrain

\* run_moq_relay, from the end of its select loop on.
RelayStop(err) ==
    Report(IF err THEN "failed" ELSE "draining") \o RelayDrain \o Drain("http") \o Close("http")

StartOf(m, ps) ==
    CASE m = "expert" -> ExpertStart(ps)
      [] m = "recipe" -> RecipeStart(ps)
      [] m = "worker" -> WorkerStart(ps) \o WorkerPostStart(ps) \o Open("http")
      [] m = "gateway" -> GatewayStart(ps)
      [] m = "relay" -> RelayStart(ps)

RollbackOf(m, c) ==
    CASE m = "expert" -> ExpertRollback(c)
      [] m = "recipe" -> RecipeRollback(c)
      [] m = "worker" -> WorkerRollback(c)
      [] m = "gateway" -> GatewayRollback(c)
      [] m = "relay" -> RelayRollback(c)

StopOf(m, err) ==
    CASE m = "expert" -> ExpertStop
      [] m = "recipe" -> RecipeStop
      [] m = "worker" -> WorkerStop(err)
      [] m = "gateway" -> GatewayStop(err)
      [] m = "relay" -> RelayStop(err)

-----------------------------------------------------------------------------
(* Health                                                                  *)

\* RoleHealth::transition: a terminal lifecycle is sticky.
Transition(old, new) == IF old \in Terminal THEN old ELSE new

DependenciesOf(m) ==
    CASE m = "worker" -> {"row", "forwarding"}
      [] m = "gateway" -> {"forwarding", "ingress", "native", "control"}
      [] m = "relay" -> {"publisher", "webtransport", "raw_quic", "authority"}
      [] OTHER -> {"row"}

Worst(states) ==
    IF "stopped" \in states THEN "stopped"
    ELSE IF states = {"healthy"} THEN "healthy" ELSE "degraded"

\* combined_gateway_health
CombinedGatewayHealth(d) == Worst({d["forwarding"], d["ingress"], d["native"]})

AsLifecycle(state) ==
    CASE state = "stopped" -> "failed"
      [] state = "degraded" -> "degraded"
      [] state = "healthy" -> "ready"

\* worker_dependency_lifecycle
WorkerDependencyLifecycle(d) == AsLifecycle(Worst({d["row"], d["forwarding"]}))

\* apply_dependency_health_with_control: call control is looked at first.
GatewayDependencyLifecycle(d, e) ==
    IF d["control"] # "healthy" THEN AsLifecycle(d["control"]) ELSE AsLifecycle(e)

\* The dependency tick of run_moq_relay; only a listener's end is fatal.
RelayDependencyLifecycle(d) ==
    LET listeners == {d["publisher"], d["webtransport"], d["raw_quic"]}
    IN  AsLifecycle(IF "stopped" \in listeners THEN "stopped"
                    ELSE Worst(listeners \cup {IF d["authority"] = "healthy"
                                               THEN "healthy" ELSE "degraded"}))

DependencyLifecycle(m, d, e) ==
    CASE m = "worker" -> WorkerDependencyLifecycle(d)
      [] m = "gateway" -> GatewayDependencyLifecycle(d, e)
      [] m = "relay" -> RelayDependencyLifecycle(d)
      [] OTHER -> "starting"

\* Fault: the loop ends when the reported lifecycle is Failed.
FatalByLifecycle(m, d, e) == DependencyLifecycle(m, d, e) = "failed"

\* What ends the select loop; the gateway looks at each of its two watches.
Fatal(m, d, e) ==
    IF m = "gateway" THEN "stopped" \in {d["control"], e}
    ELSE DependencyLifecycle(m, d, e) = "failed"

Split == {"worker", "gateway", "relay"}

-----------------------------------------------------------------------------
(* The process                                                             *)

Init ==
    /\ mode = "none" /\ parts = {} /\ missing = {} /\ broke = "none"
    /\ phase = "load" /\ todo = <<>>
    /\ up = [c \in Components |-> "off"]
    /\ row = "none" /\ requests = [live |-> 0, creating |-> 0, stray |-> FALSE] /\ published = 0
    /\ dep = [c \in Components \cup {"authority"} |-> "healthy"]
    /\ edge = "degraded" /\ health = "starting"
    /\ signalled = FALSE /\ failed = FALSE /\ late = FALSE

\* Config::load, then run: a refused configuration ends the process at once.
Load(cfg) ==
    /\ phase = "load"
    /\ IF Accepted(cfg)
       THEN LET c == Projected(cfg)
            IN  /\ mode' = RoleOf(c)
                /\ parts' = PartsOf(c)
                /\ missing' = RefusedLater(c) \cup
                      When({"catalog"}, \E g \in Gateways :
                          c.mode = "worker" /\ Accepted(g) /\ CatalogsDisagree(g, c))
                /\ phase' = "starting"
                /\ todo' = StartOf(mode', parts')
                \* A forwarder is degraded until every worker target authenticates.
                /\ dep' = IF RoleOf(c) = "gateway"
                          THEN [dep EXCEPT !["forwarding"] = "degraded"] ELSE dep
                /\ UNCHANGED failed
       ELSE /\ phase' = "exited" /\ failed' = TRUE
            /\ UNCHANGED <<mode, parts, missing, todo, dep>>
    /\ UNCHANGED <<broke, up, row, requests, published, edge, health, signalled, late>>

\* Steps that only spawn a task; the all-in-one HTTP server binds inside its task.
Infallible == {"tasks", "native"} \cup (IF mode \in {"expert", "recipe"} THEN {"http"} ELSE {})

\* The split worker registers with its capabilities; the all-in-one process
\* publishes them once its adapters are installed (set_generic_runtime).
RowAfter(step) ==
    CASE step.c = "row" -> IF mode = "worker" THEN "active" ELSE "registered"
      [] step.op = "publish" /\ row = "registered" -> "active"
      [] OTHER -> row

StartStep ==
    /\ phase = "starting" /\ todo # <<>>
    /\ LET step == Head(todo)
       IN  \/ /\ step.c \notin missing
              /\ step.op = "publish" => row = "registered"
              /\ todo' = Tail(todo)
              /\ up' = IF step.op = "open" THEN [up EXCEPT ![step.c] = "on"] ELSE up
              /\ row' = RowAfter(step)
              /\ UNCHANGED <<broke, phase, failed>>
           \* a lost lease refuses the activation
           \/ /\ step.c \notin Infallible
              /\ phase' = "rollback" /\ broke' = step.c
              /\ todo' = RollbackOf(mode, step.c)
              /\ failed' = TRUE
              /\ UNCHANGED <<up, row>>
    /\ UNCHANGED <<mode, parts, missing, requests, published, dep, edge, health, signalled, late>>

\* The role enters its select loop; its first look at the dependencies.
Serve ==
    /\ phase = "starting" /\ todo = <<>>
    /\ phase' = "serving"
    /\ health' = IF mode = "relay" THEN "ready"
                 ELSE Transition(health, DependencyLifecycle(mode, dep, edge))
    /\ UNCHANGED <<mode, parts, missing, broke, todo, up, row, requests, published, dep, edge,
                   signalled, failed, late>>

Stop(err) ==
    /\ phase' = "stopping"
    /\ todo' = StopOf(mode, err)
    /\ failed' = err

\* A dependency's watch changes, or the relay's tick fires.
Observe ==
    /\ phase = "serving" /\ mode \in Split
    /\ LET h == DependencyLifecycle(mode, dep, edge)
           fatal == Fatal(mode, dep, edge)
       IN  /\ h # health \/ fatal
           \* the relay reports Failed once it has left the loop
           /\ health' = IF mode = "relay" /\ h = "failed" THEN health ELSE Transition(health, h)
           /\ IF fatal THEN Stop(TRUE) ELSE UNCHANGED <<phase, todo, failed>>
    /\ UNCHANGED <<mode, parts, missing, broke, up, row, requests, published, dep, edge, signalled, late>>

StopOnSignal ==
    /\ phase = "serving" /\ signalled
    /\ Stop(FALSE)
    /\ UNCHANGED <<mode, parts, missing, broke, up, row, requests, published, dep, edge, health,
                   signalled, late>>

\* The HTTP task's result is selected on everywhere but in the expert process,
\* and an error only in the split roles.
StopOnHttpEnd ==
    /\ phase = "serving" /\ mode # "expert" /\ up["http"] = "off"
    /\ Stop(mode \in Split)
    /\ health' = IF mode \in {"worker", "gateway"} THEN Transition(health, "failed") ELSE health
    /\ UNCHANGED <<mode, parts, missing, broke, up, row, requests, published, dep, edge, signalled, late>>

StopOnLegacyEnd ==
    /\ phase = "serving" /\ mode = "expert"
    /\ Stop(FALSE)
    /\ UNCHANGED <<mode, parts, missing, broke, up, row, requests, published, dep, edge, health,
                   signalled, late>>

\* begin_drain of one component; an absent one is skipped.
DrainStep ==
    /\ Head(todo).op = "drain"
    /\ up' = [up EXCEPT ![Head(todo).c] = IF @ = "on" THEN "draining" ELSE @]
    /\ UNCHANGED <<row, published, health, failed>>

\* A bounded shutdown.  The HTTP task is joined: it ends with its last request,
\* or is aborted, after three seconds in the all-in-one processes and at the
\* deadline in the gateway; its connections then live on without an owner.
\* The split roles report an unfinished drain of any other component as an error.
CloseStep ==
    /\ Head(todo).op = "close"
    /\ Head(todo).c = "http" => (requests.live = 0 \/ late \/ mode \in {"expert", "recipe"})
    /\ up' = [up EXCEPT ![Head(todo).c] = "off"]
    /\ failed' \in IF mode \in Split /\ Head(todo).c \notin {"http", "ops"}
                   THEN {failed, TRUE} ELSE {failed}
    /\ UNCHANGED <<row, published, health>>

\* shutdown_local_broadcasts
BroadcastsStep ==
    /\ Head(todo).op = "broadcasts"
    /\ published' = 0
    /\ UNCHANGED <<up, row, health, failed>>

ReportStep ==
    /\ Head(todo).op = "report"
    /\ health' = Transition(health, Head(todo).c)
    /\ UNCHANGED <<up, row, published, failed>>

\* CallServiceRuntime::shutdown: a lost lease is a write fence.  Otherwise the
\* draining mark is written once, within the deadline, and any repository error
\* loses it.
DrainedRow == IF row \in {"none", "lost"} THEN {row} ELSE {"draining", "unmarked"}

\* shutdown_call_runtime, shutdown_gateway_control_runtime and the end of
\* WorkerRoleRuntime::shutdown: a request that is still in flight owns the runtime.
UnwrapStep ==
    /\ Head(todo).op = "unwrap"
    /\ LET c == Head(todo).c
           held == requests.live > 0
       IN  \/ /\ up[c] = "off"
              /\ UNCHANGED <<up, row, failed>>
           \/ /\ up[c] # "off" /\ held
              /\ failed' = TRUE
              /\ UNCHANGED <<up, row>>
           \/ /\ up[c] # "off" /\ ~held
              /\ up' = [up EXCEPT ![c] = "off"]
              /\ row' \in IF c = "row" THEN DrainedRow ELSE {row}
              \* a timed-out write may have been done
              /\ failed' \in {failed \/ row' = "unmarked"} \cup When({TRUE}, row' # row)
    /\ UNCHANGED <<published, health>>

StopStep ==
    /\ phase \in {"rollback", "stopping"} /\ todo # <<>>
    /\ DrainStep \/ CloseStep \/ BroadcastsStep \/ ReportStep \/ UnwrapStep
    /\ todo' = Tail(todo)
    /\ UNCHANGED <<mode, parts, missing, broke, phase, requests, dep, edge, signalled, late>>

\* cleanup_failed_start: past its deadline the rest of the worker's shutdown is dropped.
CleanupTimesOut ==
    /\ phase = "rollback" /\ mode = "worker" /\ late /\ Len(todo) > 1
    /\ broke \notin BeforePostStart \cup {"http"}
    /\ todo' = Report("failed")
    /\ UNCHANGED <<mode, parts, missing, broke, phase, up, row, requests, published, dep, edge,
                   health, signalled, failed, late>>

\* The end of the role's function: the last lifecycle it reports.
Exit ==
    /\ phase \in {"rollback", "stopping"} /\ todo = <<>>
    /\ phase' = "exited"
    /\ health' = CASE phase = "rollback" \/ mode \notin Split -> health
                   [] mode = "relay" /\ failed -> health
                   [] OTHER -> Transition(health, IF failed THEN "failed" ELSE "stopped")
    /\ UNCHANGED <<mode, parts, missing, broke, todo, up, row, requests, published, dep, edge,
                   signalled, failed, late>>

-----------------------------------------------------------------------------
(* Its surroundings                                                        *)

Signal ==
    /\ phase = "serving" /\ ~signalled
    /\ signalled' = TRUE
    /\ UNCHANGED <<mode, parts, missing, broke, phase, todo, up, row, requests, published, dep, edge,
                   health, failed, late>>

\* The drain deadline passes.
DeadlinePasses ==
    /\ phase \in {"rollback", "stopping"} /\ ~late
    /\ late' = TRUE
    /\ UNCHANGED <<mode, parts, missing, broke, phase, todo, up, row, requests, published, dep, edge,
                   health, signalled, failed>>

\* The HTTP task ends by itself: a failed bind or accept.
HttpEnds ==
    /\ phase = "serving" /\ up["http"] = "on"
    /\ up' = [up EXCEPT !["http"] = "off", !["ops"] = "off"]
    /\ UNCHANGED <<mode, parts, missing, broke, phase, todo, row, requests, published, dep, edge,
                   health, signalled, failed, late>>

\* Only the API's routers hold the call runtime or call control.
RequestArrives ==
    /\ phase = "serving" /\ up["http"] = "on" /\ mode \in {"expert", "recipe", "gateway"}
    /\ requests.live < MaxRequests
    /\ requests' = [requests EXCEPT !.live = @ + 1]
    /\ UNCHANGED <<mode, parts, missing, broke, phase, todo, up, row, published, dep, edge, health,
                   signalled, failed, late>>

RequestFinishes ==
    /\ requests.live > requests.creating
    /\ requests' = [requests EXCEPT !.live = @ - 1]
    /\ UNCHANGED <<mode, parts, missing, broke, phase, todo, up, row, published, dep, edge, health,
                   signalled, failed, late>>

\* create_broadcast of the all-in-one API, up to the publication's start; the
\* capacity is looked at before it.
CreateBroadcast ==
    /\ mode \in {"expert", "recipe"} /\ {"row", "generic"} \subseteq parts
    /\ requests.live > requests.creating
    /\ published < MaxBroadcasts
    /\ up["execution"] # "off"
    /\ requests' = [requests EXCEPT !.creating = @ + 1]
    /\ UNCHANGED <<mode, parts, missing, broke, phase, todo, up, row, published, dep, edge, health,
                   signalled, failed, late>>

\* The rest of it: the source is read again, and the publication closed when it has
\* changed, entered in the table otherwise.
BroadcastStarted ==
    /\ requests.creating > 0
    /\ published' \in {published, published + 1}
    /\ requests' = [live |-> requests.live - 1, creating |-> requests.creating - 1,
                    stray |-> requests.stray \/ up["http"] = "off"]
    /\ UNCHANGED <<mode, parts, missing, broke, phase, todo, up, row, dep, edge, health, signalled,
                   failed, late>>

\* delete_broadcast, or prune_terminal_local_broadcasts at the head of any of them.
BroadcastCloses ==
    /\ requests.live > requests.creating /\ published > 0
    /\ published' = published - 1
    /\ UNCHANGED <<mode, parts, missing, broke, phase, todo, up, row, requests, dep, edge, health,
                   signalled, failed, late>>

\* The renewal task gives the lease up, or another process takes the row over.
LoseLease ==
    /\ phase \in {"starting", "serving", "stopping", "rollback"}
    /\ row \in {"registered", "active"} /\ up["row"] = "on"
    /\ row' = "lost"
    /\ dep' = [dep EXCEPT !["row"] = "stopped"]
    /\ UNCHANGED <<mode, parts, missing, broke, phase, todo, up, requests, published, edge, health,
                   signalled, failed, late>>

DependencyChanges(d) ==
    /\ phase = "serving" /\ mode \in Split /\ dep[d] # "stopped"
    /\ \E state \in {"healthy", "degraded"} \cup (IF d \in {"row", "authority"} THEN {} ELSE {"stopped"}) :
          /\ state # dep[d]
          /\ dep' = [dep EXCEPT ![d] = state]
    /\ UNCHANGED <<mode, parts, missing, broke, phase, todo, up, row, requests, published, edge,
                   health, signalled, failed, late>>

\* The monitor of AuthenticatedGatewayEdge.
Monitor ==
    /\ mode = "gateway" /\ phase \in {"starting", "serving"} /\ up["native"] = "on"
    /\ edge # CombinedGatewayHealth(dep)
    /\ edge' = CombinedGatewayHealth(dep)
    /\ UNCHANGED <<mode, parts, missing, broke, phase, todo, up, row, requests, published, dep,
                   health, signalled, failed, late>>

Next ==
    \/ phase = "load" /\ \E d \in Deployments : \E c \in Changed(d) : \E cfg \in Changed(c) : Load(cfg)
    \/ StartStep
    \/ Serve
    \/ Observe
    \/ StopOnSignal
    \/ StopOnHttpEnd
    \/ StopOnLegacyEnd
    \/ StopStep
    \/ CleanupTimesOut
    \/ Exit
    \/ Signal
    \/ DeadlinePasses
    \/ HttpEnds
    \/ RequestArrives
    \/ RequestFinishes
    \/ CreateBroadcast
    \/ BroadcastStarted
    \/ BroadcastCloses
    \/ LoseLease
    \/ \E d \in DependenciesOf(mode) : DependencyChanges(d)
    \/ Monitor

\* The select loop and the programs keep running and time passes; nothing is
\* assumed of requests, dependencies or signals.
Spec ==
    /\ Init /\ [][Next]_vars
    /\ WF_vars(StartStep) /\ WF_vars(Serve) /\ WF_vars(StopStep) /\ WF_vars(Exit)
    /\ WF_vars(Observe) /\ WF_vars(StopOnSignal) /\ WF_vars(StopOnHttpEnd)
    /\ WF_vars(DeadlinePasses) /\ WF_vars(Monitor)

-----------------------------------------------------------------------------
(* Properties                                                              *)

TypeOK ==
    /\ mode \in {"none", "expert", "recipe"} \cup Split
    /\ phase \in {"load", "starting", "rollback", "serving", "stopping", "exited"}
    /\ \A c \in Components : up[c] \in {"off", "on", "draining"}
    /\ mode # "none" => {c \in Components : up[c] # "off"} \subseteq RolePlan(mode)
    /\ row \in {"none", "registered", "active", "draining", "unmarked", "lost"}
    /\ requests.live \in 0 .. MaxRequests /\ requests.creating \in 0 .. requests.live
    /\ published + requests.creating < MaxBroadcasts + MaxRequests
    /\ health \in {"starting", "ready", "degraded", "draining"} \cup Terminal

IsUp(c) == up[c] # "off"

\* What validation accepts, the constructors can use: when a start step is
\* reached whose settings are wrong, the process serves nobody yet, and a split
\* role has not registered its worker row either, so that a misconfigured
\* process is never placed calls on.  No accepted configuration gives one source
\* two principals, two RTP allocators one port or a route a destination that no
\* stack answers to, and a gateway whose catalog has the fingerprint of an accepted
\* worker's can dial everything that worker may ask it for.  (The expert process's
\* legacy SIP server is bound before anything else, but answers nobody until the
\* process serves.)  TypeOK rides along.
AcceptedIsUsable ==
    /\ TypeOK
    /\ missing \cap {"ambiguous_source", "shared_port", "unserved_destination", "catalog"} = {}
    /\ phase = "starting" /\ todo # <<>> /\ Head(todo).c \in missing =>
        /\ \A c \in Listeners \ {"legacy"} : ~IsUp(c)
        /\ mode \in Split => row = "none"

\* What a start of role m that failed at step c leaves open, as the code has it: the
\* expert process its legacy server; a failed profile pool, or a failed policy of a
\* later profile, the profile stacks; a failed UCTP bind of the recipe process its
\* generic runtime; a failed execution or Amazon registration of a worker the private
\* egress owner.
Abandoned(m, c) ==
    When({"legacy"}, m = "expert" /\ c # "none")
        \cup When({"profiles"}, c \in {"profile_policy", "profile_pool"})
        \cup When({"sip", "profiles", "webrtc"}, m = "recipe" /\ c = "uctp")
        \cup When({"native_profiles"}, c = "native_pool")
        \cup When({"egress"}, m = "worker" /\ c \in {"execution", "amazon"})

\* <<a, b>>: a passes on to b what reaches it, or has b carry out what it decides.
Feeds(m, ps) ==
    CASE m \in {"expert", "recipe"} ->
            {<<"sip", "execution">>, <<"profiles", "execution">>, <<"webrtc", "execution">>,
             <<"uctp", "execution">>, <<"execution", "row">>, <<"execution", "amazon">>,
             <<"legacy", "tasks">>}
                \cup When({<<"http", "row">>}, "row" \in ps)
                \cup When({<<"http", "execution">>}, "generic" \in ps)
      [] m = "worker" ->
            {<<"forwarding", "execution">>, <<"forwarding", "broadcasts">>,
             <<"broadcasts", "execution">>, <<"broadcasts", "row">>, <<"execution", "row">>,
             <<"execution", "amazon">>, <<"execution", "egress">>, <<"egress", "forwarding">>}
      [] m = "gateway" ->
            {<<"http", "control">>, <<"ingress", "forwarding">>, <<"native", "forwarding">>,
             <<"forwarding", "native">>, <<"native_sip", "native">>,
             <<"native_profiles", "native">>, <<"native_webrtc", "native">>}
      [] OTHER -> {}

\* The pairs of which the code opens the first before the second.  The legacy server
\* is bound first and serves last; the native events are queued until the supervisor
\* takes them; subscriptions and egress commands are refused until the broadcast
\* executor, the private channel or the egress service is there; and the worker's
\* Amazon adapter is registered once the supervisor runs.
OpenedEarly(m) ==
    CASE m = "expert" -> {<<"legacy", "tasks">>}
      [] m = "worker" -> {<<"forwarding", "broadcasts">>, <<"egress", "forwarding">>,
                          <<"execution", "amazon">>}
      [] m = "gateway" -> {<<"forwarding", "native">>, <<"native_sip", "native">>,
                           <<"native_profiles", "native">>, <<"native_webrtc", "native">>}
      [] OTHER -> {}

\* The pairs of which the code closes the second while the first is still open: the
\* recipe process closes execution under its HTTP server, the worker closes Amazon,
\* execution and the broadcasts before the forwarding that feeds them, and the gateway
\* its forwarder before the native edge.
ClosedEarly(m) ==
    CASE m = "recipe" -> {<<"http", "execution">>}
      [] m = "worker" -> {<<"forwarding", "execution">>, <<"forwarding", "broadcasts">>,
                          <<"execution", "amazon">>}
      [] m = "gateway" -> {<<"native", "forwarding">>}
      [] OTHER -> {}

\* On every start, failed start and stop, from whatever step it begins, a component is
\* opened after those it feeds, so that no peer is admitted before what carries its
\* call, and closed after those that feed it, so that nothing is taken from under what
\* still uses it, but for the pairs OpenedEarly and ClosedEarly name and for what a
\* failed start abandons.  A worker row that is given up is given up last (the split
\* worker's health endpoint alone outlives it), and an all-in-one process publishes
\* its capabilities, so that calls are placed on it, only once it can carry them.  The
\* expert process closes its media runtime under no publication, as the comment on
\* shutdown_local_broadcasts wants, unless a request that outlived the aborted HTTP
\* task made it; the recipe process, whose server still serves then, may.
OrderHolds ==
    [][ /\ row = "registered" /\ row' = "active" =>
              \A c \in {"execution", "amazon", "sip", "webrtc"} : up[c] = "on"
        /\ up["execution"] # "off" /\ up'["execution"] = "off" /\ mode = "expert" =>
              published = 0 \/ requests.stray
        /\ up["row"] # "off" /\ up'["row"] = "off" =>
              \A c \in RolePlan(mode) \ (Abandoned(mode, broke) \cup {"row"}) :
                  up[c] = "off" \/ (mode = "worker" /\ c = "http")
        /\ up # up' =>
              \A pair \in Feeds(mode, parts) :
                  LET a == pair[1]
                      b == pair[2]
                  IN  /\ up[a] = "off" /\ up'[a] = "on" /\ pair \notin OpenedEarly(mode) =>
                            up[b] = "on"
                      /\ up[b] # "off" /\ up'[b] = "off" /\ pair \notin ClosedEarly(mode) =>
                            up[a] = "off" \/ a \in Abandoned(mode, broke) ]_vars

\* /readyz is honest: it says ready only while the role serves with every part of
\* its plan in place, or is about to report its drain, and a split role that exits
\* with an error is not left ready, degraded or cleanly stopped.  (A gateway whose
\* edge stops while call control is degraded says degraded until it has drained.)
HealthIsHonest ==
    /\ health = "ready" /\ mode \in Split =>
          /\ \A c \in RolePlan(mode) \ {"http", "ops"} : up[c] = "on"
          /\ \/ phase = "serving"
             \/ phase = "stopping" /\ todo # <<>> /\ Head(todo).op = "report"
    /\ phase = "exited" /\ failed /\ mode \in Split =>
          health \notin {"ready", "degraded", "stopped"}

\* A process that ends leaves nothing behind it that a peer could still reach or
\* that the cluster would still place work on, whichever step failed, but for what
\* Abandoned names: its listeners are closed, and no broadcast of an expert process
\* whose requests ended with its HTTP server is left in the table.  After a clean exit
\* the worker row takes no calls.  A split role that ends in time, clean or not, has
\* asked for its row to be marked (the one write may fail: the row is then left to its
\* lease) and closed all it opened.  Past its deadline a worker's cleanup of a failed
\* start is dropped where it is, listener and row included; an all-in-one process
\* leaves its row, as it is, to its lease when its start fails or when a request that
\* outlived the HTTP task holds the call runtime.  What /readyz says meanwhile and in
\* the end is honest.
ExitsRelease ==
    /\ HealthIsHonest
    /\ phase = "exited" =>
        /\ {c \in Listeners : IsUp(c)} \subseteq
              Abandoned(mode, broke) \cup
                  When({"forwarding"}, mode = "worker" /\ late /\ broke # "none")
        /\ ~failed => row \in {"none", "draining", "lost"}
        /\ mode = "expert" /\ ~requests.stray => published = 0
        /\ mode \in Split /\ ~late =>
              /\ row # "active"
              /\ requests.live = 0 => {c \in Components : IsUp(c)} \subseteq Abandoned(mode, broke)

\* A serving role stops when it is told to or can no longer serve: a signal, the
\* end of its HTTP task, or the loss of a dependency its role cannot do without
\* leads to its exit, whatever its requests and other dependencies do meanwhile.
\* (Of the all-in-one processes neither watches its lease and the expert one does not
\* watch its HTTP task either: they serve on without them until they are told to
\* stop.  The relay can do without its authority, degraded.)
StopsWhenItMust ==
    (phase = "serving" /\ (\/ signalled
                           \/ mode \in {"worker", "gateway", "relay"} /\
                              \E d \in DependenciesOf(mode) : dep[d] = "stopped"
                           \/ mode # "expert" /\ up["http"] = "off"))
        ~> phase = "exited"

=============================================================================
