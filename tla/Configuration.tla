---------------------------- MODULE Configuration ---------------------------
(***************************************************************************)
(* Config::load (src/src/config.rs) and the preflight of process_role.rs:  *)
(* which configurations a process accepts, what recipes turn them into,    *)
(* and which of its start steps would refuse what was accepted.            *)
(*                                                                         *)
(* The requirements are stated twice in the code: once by the validation   *)
(* that runs before anything is opened, once by the constructor that needs *)
(* the setting and returns an error when it is absent.  Accepted is the    *)
(* first, RefusedLater the second; ProcessRoles relates them.              *)
(*                                                                         *)
(* A setting whose value does not matter is an element of c.on.  A network *)
(* is the set of its addresses and a leaf certificate its fingerprint.     *)
(***************************************************************************)
EXTENDS Integers, Sequences, FiniteSets, SequencesExt

Has(c, names) == names \subseteq c.on
Lacks(c, names) == names \cap c.on = {}

Secure(s) == s \in {"sips_srtp", "sips_optional_srtp"}

\* recipe_srtp_policy, and the posture validate_named_routes asks for.
SrtpPolicy(s) ==
    CASE s = "sips_srtp" -> "required"
      [] s = "sips_optional_srtp" -> "preferred"
      [] s = "sip_rtp" -> "disabled"

\* The attachment URI template a recipe projects.
Template(s) == IF Secure(s) THEN "sips" ELSE "sip"

LegacyVapiConnectEnabled(c) ==
    IF c.legacy = "unset" THEN c.recipes = <<>> ELSE c.legacy = "on"

\* resolved_tenants: the single-tenant schema is read only when no tenant is named.
TenantNames(c) ==
    IF c.tenants # {} THEN c.tenants
    ELSE IF Has(c, {"instance_id", "contact_flow_id"}) THEN {"default"} ELSE {}

ResolvedTenants(c) ==
    IF c.tenants # {} THEN c.default \in {"none"} \cup c.tenants
    ELSE /\ c.default = "none"
         /\ Has(c, {"instance_id"}) <=> Has(c, {"contact_flow_id"})

\* gateway_static_tenant, sip_projection_listener_tenant and ApiState: the
\* explicit tenant, or the only one.
ListenerTenants(c) ==
    IF c.static # "none" THEN {c.static}
    ELSE IF Cardinality(TenantNames(c)) = 1 THEN TenantNames(c) ELSE {}

-----------------------------------------------------------------------------
(* Recipes                                                                 *)

Refuse(c) == [c EXCEPT !.ok = FALSE]

\* ensure_recipe_route_available, and the tenant the route's listener serves.
RouteAvailable(c, r) ==
    /\ \A x \in c.routes : x.id # r.inst
    /\ r.inst \notin c.tenants
    /\ c.static \in {"none", r.inst}

\* finish_generic_recipe_route
FinishRoute(c, r, route) ==
    [c EXCEPT !.on = @ \cup {"api", "generic"},
              !.routes = @ \cup {route},
              !.tenants = @ \cup {r.inst},
              !.static = r.inst,
              !.default = IF @ = "none" THEN r.inst ELSE @]

\* The edge's address against the one configured for the generic bridge.
MediaAddressFits(c) ==
    /\ Has(c, {"edge_media"})
    /\ Has(c, {"generic"}) => c.media \in {"none", "edge"}

\* project_generic_recipe_sip_ingress and the like part of project_sip_amazon:
\* the recipe's listener may not collide with a configured one.
SipIngressFits(c, r) ==
    /\ MediaAddressFits(c)
    /\ IF Secure(r.security)
       THEN /\ Has(c, {"edge_tls"}) /\ Lacks(c, {"edge_client_ca"})
            /\ c.listener \in {"none", "edge"}
            /\ Has(c, {"generic"}) => c.srtp = SrtpPolicy(r.security)
       ELSE /\ Has(c, {"edge_rtp"})
            /\ Has(c, {"generic"}) => c.listener = "none" /\ c.srtp = "disabled"
    /\ c.template \in {"none", Template(r.security)}
    /\ c.correlation # "other"

\* The listener, its posture, the attachment URI and the source's principal.
WithSipIngress(c, r) ==
    [c EXCEPT !.media = "edge",
              !.listener = IF Secure(r.security) THEN "edge" ELSE "none",
              !.srtp = SrtpPolicy(r.security),
              !.template = Template(r.security),
              !.correlation = "correlation_id",
              !.ingress = @ \cup
                  {[id |-> r.inst, kind |-> "sip", tenant |-> r.inst, nets |-> r.nets,
                    security |-> r.security, tls |-> IF Secure(r.security) THEN "edge" ELSE "none",
                    ca |-> FALSE, leaves |-> {}]}]

SipRoute(r, destination, header) ==
    [id |-> r.inst, tenant |-> r.inst, ingress |-> {"sip"}, profile |-> r.inst,
     webrtc |-> "none", destination |-> destination, to |-> r.inst, header |-> header]

WebRtcRoute(r, destination) ==
    [id |-> r.inst, tenant |-> r.inst, ingress |-> {"webrtc"}, profile |-> "none",
     webrtc |-> r.inst, destination |-> destination, to |-> r.inst, header |-> FALSE]

ProjectSipAmazon(c, r) ==
    IF RouteAvailable(c, r) /\ SipIngressFits(c, r) /\ Has(c, {"region"})
    THEN FinishRoute(WithSipIngress(c, r), r, SipRoute(r, "amazon", TRUE))
    ELSE Refuse(c)

ProjectSipWebRtc(c, r) ==
    IF RouteAvailable(c, r) /\ SipIngressFits(c, r)
    THEN FinishRoute([WithSipIngress(c, r) EXCEPT
                          !.webrtcProfiles = @ \cup {r.inst}, !.on = @ \ {"public_webrtc"}],
                     r, SipRoute(r, "webrtc", FALSE))
    ELSE Refuse(c)

\* project_recipe_webrtc_ingress: the advertised WSS attachment must be real.
WebRtcIngressFits(c, r) ==
    /\ Has(c, {"api_tls", "edge_media"})
    /\ c.attachment \in {"none", "edge"}

WithWebRtcIngress(c, r) ==
    [c EXCEPT !.attachment = "edge", !.webrtcProfiles = @ \cup {r.inst}]

\* The media address of the generic bridge is compared whether or not it is enabled.
ProjectWebRtcSip(c, r) ==
    IF /\ RouteAvailable(c, r) /\ WebRtcIngressFits(c, r)
       /\ c.media \in {"none", "edge"} /\ c.correlation # "other"
       /\ \A p \in c.egress : p.id # r.inst
    THEN FinishRoute([WithWebRtcIngress(c, r) EXCEPT
                          !.media = "edge", !.correlation = "correlation_id",
                          !.egress = @ \cup {[id |-> r.inst, revision |-> r.inst, keys |-> TRUE]}],
                     r, WebRtcRoute(r, "sip"))
    ELSE Refuse(c)

ProjectWebRtcAmazon(c, r) ==
    IF RouteAvailable(c, r) /\ WebRtcIngressFits(c, r) /\ Has(c, {"region"})
    THEN FinishRoute(WithWebRtcIngress(c, r), r, WebRtcRoute(r, "amazon"))
    ELSE Refuse(c)

\* project_compiled_recipe, one bridge of one recipe instance.
ProjectCompiledRecipe(c, r) ==
    CASE ~c.ok -> c
      [] c.ok /\ r.kind = "sip_amazon" -> ProjectSipAmazon(c, r)
      [] c.ok /\ r.kind = "sip_webrtc" -> ProjectSipWebRtc(c, r)
      [] c.ok /\ r.kind = "webrtc_sip" -> ProjectWebRtcSip(c, r)
      [] c.ok /\ r.kind = "webrtc_amazon" -> ProjectWebRtcAmazon(c, r)
      [] OTHER -> Refuse(c)

\* A split worker keeps the projected catalog, which its fingerprint covers,
\* and exposes none of the surfaces the projection enabled.
HidesSurfaces(c) ==
    IF c.mode = "worker" /\ c.recipes # <<>>
    THEN [c EXCEPT !.on = @ \ {"api", "generic"}] ELSE c

\* apply_recipes
Projected(c) == HidesSurfaces(FoldLeft(ProjectCompiledRecipe, c, c.recipes))

-----------------------------------------------------------------------------
(* Config::validate                                                        *)

\* aws.region, api.http_bind and api.tls.
ValidateBinds(c) ==
    /\ LegacyVapiConnectEnabled(c) \/ (\E x \in c.routes : x.destination = "amazon")
           => Has(c, {"region"})
    /\ IF c.mode = "gateway"
       THEN /\ c.bind \in {"loopback", "public"}
            /\ c.bind = "public" => Has(c, {"api_tls"})
       ELSE /\ c.bind = "none"
            /\ Has(c, {"api_tls"}) => c.recipes # <<>> /\ Has(c, {"generic"})

\* vapi_ingress_profiles and sip_ingress_profiles: CA verification alone
\* assigns no principal, and a clear listener verifies no certificate.
ValidateIngressProfile(c, p) ==
    /\ p.tenant \in TenantNames(c)
    /\ p.nets # {}
    /\ p.ca <=> p.leaves # {}
    /\ p.kind = "vapi" => p.security = "sips_srtp"
    /\ IF Secure(p.security) THEN p.tls # "none" ELSE p.tls = "none" /\ ~p.ca

\* A metadata key must be reachable through context.allow_headers.
ValidateNamedProfiles(c) ==
    /\ \A p \in c.ingress : ValidateIngressProfile(c, p)
    /\ \A p \in c.egress : p.keys => c.correlation = "correlation_id"

\* validate_vapi_listener_projection and validate_sip_listener_projection.
MatchesListener(c, p) ==
    /\ p.tls = c.listener
    /\ c.srtp = SrtpPolicy(p.security)
    /\ p.ca => Has(c, {"listener_ca"})

IngressProfile(c, x) == {p \in c.ingress : p.id = x.profile}

\* named_route_profile_bindings: every reference resolves, in the route's tenant.
NamedRouteProfileBindings(c, x) ==
    /\ IF "sip" \in x.ingress
       THEN \E p \in IngressProfile(c, x) : p.tenant = x.tenant /\ MatchesListener(c, p)
       ELSE x.profile = "none"
    /\ IF "webrtc" \in x.ingress THEN x.webrtc \in c.webrtcProfiles ELSE x.webrtc = "none"
    /\ CASE x.destination = "sip" -> \E p \in c.egress : p.id = x.to
         [] x.destination = "webrtc" -> x.to \in c.webrtcProfiles
         [] x.destination = "telnyx" -> Has(c, {"telnyx"})
         [] x.destination = "amazon" -> x.to # "none"

\* named_route_sip_ingress_security
SipSecurities(c) == {p.security : p \in UNION {IngressProfile(c, x) : x \in c.routes}}

\* referenced_vapi_profile_ids and referenced_sip_ingress_profile_ids: a profile
\* no route names is inventory, not trust.
Referenced(c) == UNION {IngressProfile(c, x) : x \in c.routes}

\* sip_listener_principal_projections: no two entries may claim one source.
Claims(c) == UNION {{[by |-> p, net |-> n] : n \in p.nets} : p \in Referenced(c)}

PrincipalProjections(c, tenant) ==
    /\ \A p \in Referenced(c) : p.tenant = tenant
    /\ \A k1, k2 \in Claims(c) : k1 # k2 => k1.net \cap k2.net = {}
    /\ \A p, q \in Referenced(c) : p # q => p.leaves \cap q.leaves = {}

\* A listener has one tenant, named or the only one.
ListenerProjection(c) ==
    Referenced(c) # {} => \E t \in ListenerTenants(c) : PrincipalProjections(c, t)

ValidateNamedRoutes(c) ==
    c.routes # {} =>
    /\ IF c.mode = "worker"
       THEN Lacks(c, {"api", "generic"}) /\ Has(c, {"control_key"})
       ELSE Has(c, {"api", "bearer", "control_key", "generic"})
    /\ \A x \in c.routes :
        /\ x.tenant \in TenantNames(c) /\ x.ingress # {}
        /\ NamedRouteProfileBindings(c, x)
        /\ "sip" \in x.ingress => c.template # "none"
        /\ x.header => "sip" \in x.ingress /\ c.correlation = "correlation_id"
        /\ "webrtc" \in x.ingress => c.attachment # "none"
    /\ Cardinality(SipSecurities(c)) <= 1
    /\ c.template \in {"none"} \cup {Template(s) : s \in IF SipSecurities(c) = {}
                                                        THEN {"sips_srtp"} ELSE SipSecurities(c)}
    /\ ListenerProjection(c)

\* The generic bridge: its credentials, Digest namespaces and public signaling.
ValidateGenericBridge(c) ==
    /\ Has(c, {"digest", "telnyx"}) => c.realm = "shared"
    /\ Has(c, {"generic"}) => Has(c, {"api", "bearer", "control_key"})
    /\ c.mode = "gateway" =>
        /\ Has(c, {"generic"})
        /\ Has(c, {"public_webrtc"}) => Has(c, {"api_tls"})

ValidatePersistence(c) ==
    CASE c.backend = "memory" ->
            Has(c, {"ephemeral"}) /\ Lacks(c, {"database_url", "db_only"}) /\ c.redis = "none"
      [] c.backend = "sqlite" -> Lacks(c, {"ephemeral", "db_only"})
      [] c.backend = "postgres" ->
            /\ Has(c, {"database_url"}) /\ Lacks(c, {"ephemeral"})
            /\ c.mode # "gateway" => Has(c, {"worker_id"})
            /\ IF Has(c, {"db_only"})
               THEN c.mode = "all" /\ c.redis = "none"
               ELSE c.redis = "clustered"

\* validate_public_uctp_endpoint: uctp+quic://host:port and nothing else.
ValidatePublicUctpEndpoint(c) == c.endpoint = "uctp"

\* MoqOriginRelayCfg::validate: both endpoints well formed, and not the same.
ValidateMoqOrigin(c) == c.origin = "distinct"

\* MoqRelayCfg::validate: three listeners on three sockets, certificates with their
\* keys, bound publishers, and session and replay limits that fit each other.
ValidateMoqListeners(c) == c.relay.listeners = "parsed"

ValidateMoqRelay(c) ==
    /\ ValidateMoqListeners(c)
    /\ c.relay.binds = 3
    /\ c.relay.tls /\ c.relay.publishers
    /\ c.relay.tenantSessions <= c.relay.sessions /\ c.relay.sessions <= c.relay.replays

\* Fault: a split role's public UCTP endpoint is not looked at.
BroadcastWithoutEndpoint(c) ==
    /\ Has(c, {"uctp_listener"}) =>
        c.mode = "all" /\ Has(c, {"generic", "token_secret"}) /\ ValidatePublicUctpEndpoint(c)
    /\ c.mode \in {"gateway", "worker"} => Has(c, {"token_secret"})
    /\ c.origin # "none" =>
        ValidateMoqOrigin(c) /\ c.mode \in {"gateway", "worker"} /\ Has(c, {"token_secret"})
    /\ IF Has(c, {"moq_relay"}) THEN ValidateMoqRelay(c) ELSE c.mode # "relay"

ValidateBroadcast(c) ==
    /\ Has(c, {"uctp_listener"}) =>
        c.mode = "all" /\ Has(c, {"generic", "token_secret"}) /\ ValidatePublicUctpEndpoint(c)
    /\ c.mode \in {"gateway", "worker"} =>
        Has(c, {"token_secret"}) /\ ValidatePublicUctpEndpoint(c)
    /\ c.origin # "none" =>
        ValidateMoqOrigin(c) /\ c.mode \in {"gateway", "worker"} /\ Has(c, {"token_secret"})
    /\ IF Has(c, {"moq_relay"}) THEN ValidateMoqRelay(c) ELSE c.mode # "relay"

\* PrivateForwardingCfg::validate
ValidateForwarding(c) ==
    LET roles == {"fwd_gateway", "fwd_worker"}
    IN  CASE c.mode = "gateway" ->
                Has(c, {"forwarding", "fwd_secret", "fwd_gateway"}) /\ Lacks(c, {"fwd_worker"})
          [] c.mode = "worker" ->
                Has(c, {"forwarding", "fwd_secret", "fwd_worker"}) /\ Lacks(c, {"fwd_gateway"})
          [] OTHER -> Lacks(c, roles \cup {"forwarding", "fwd_secret"})

Validate(c) ==
    /\ ValidateBinds(c) /\ ValidateNamedProfiles(c) /\ ValidateNamedRoutes(c)
    /\ ValidateGenericBridge(c) /\ ValidatePersistence(c) /\ ValidateBroadcast(c)
    /\ ResolvedTenants(c)
    /\ c.static \in {"none"} \cup TenantNames(c)
    /\ ValidateForwarding(c)

\* preflight of process_role.rs, before anything of the role is constructed.
Preflight(c) ==
    CASE c.mode = "all" -> TRUE
      [] c.mode = "gateway" ->
            /\ Has(c, {"forwarding", "fwd_gateway", "fwd_secret", "public_uctp"})
            /\ c.redis = "clustered" /\ c.backend = "postgres"
            /\ Has(c, {"bearer", "control_key", "api", "generic"})
            /\ ListenerTenants(c) # {}
            /\ c.bind \in {"loopback", "public"}
            /\ c.bind = "public" \/ Has(c, {"public_webrtc"}) => Has(c, {"api_tls"})
            /\ Lacks(c, {"cleartext_bearer", "digest", "telnyx"}) => Referenced(c) # {}
      [] c.mode = "relay" ->
            /\ Has(c, {"moq_relay", "token_secret"}) /\ Lacks(c, {"api", "generic"})
            /\ c.redis = "clustered"
      [] c.mode = "worker" ->
            /\ Lacks(c, {"api", "generic"})
            /\ Has(c, {"control_key", "forwarding", "fwd_worker", "fwd_secret"})
            /\ c.redis = "clustered" /\ c.backend = "postgres"

\* Config::load and preflight.
Accepted(cfg) == \E c \in {Projected(cfg)} : c.ok /\ Validate(c) /\ Preflight(c)

-----------------------------------------------------------------------------
(* The RTP ports of the listener and of every named SIP destination        *)

\* referenced_named_sip_profiles
ReferencedEgress(c) ==
    {p \in c.egress : \E x \in c.routes : x.destination = "sip" /\ x.to = p.id}

Partitions(c) == 1 + Cardinality(ReferencedEgress(c))

\* The port pairs of the range: an odd start and an even end are given up.
FirstEven(c) == c.ports[1] + (c.ports[1] % 2)
LastOdd(c) == c.ports[2] - (1 - (c.ports[2] % 2))
PairCount(c) == (LastOdd(c) - FirstEven(c) + 1) \div 2

PortsSuffice(c) ==
    Partitions(c) > 1 => FirstEven(c) < LastOdd(c) /\ Partitions(c) <= PairCount(c)

\* partition_rtp_port_range: the i-th slice, the first ones one pair longer.
PartitionRtpPortRange(c) ==
    LET n     == Partitions(c)
        each  == PairCount(c) \div n
        extra == PairCount(c) % n
        start(i) == FirstEven(c) + 2 * ((i - 1) * each + (IF i - 1 < extra THEN i - 1 ELSE extra))
        pairs(i) == each + (IF i - 1 < extra THEN 1 ELSE 0)
    IN  IF n = 1 THEN <<c.ports>>
        ELSE [i \in 1 .. n |-> <<start(i), start(i) + 2 * pairs(i) - 1>>]

\* generic_sip_stack_config and sip_egress_profile_configs: one isolated stack
\* per profile, selected by its revision alone.
SipStacks(c) ==
    /\ PortsSuffice(c)
    /\ \A p, q \in ReferencedEgress(c) : p # q => p.revision # q.revision

\* Two allocators may reserve one port, or one outside the configured range.
PortsShared(c) ==
    /\ SipStacks(c)
    /\ LET ranges == PartitionRtpPortRange(c)
           ports(i) == ranges[i][1] .. ranges[i][2]
       IN  \E i, j \in DOMAIN ranges :
              \/ i # j /\ ports(i) \cap ports(j) # {}
              \/ ~(ports(i) \subseteq c.ports[1] .. c.ports[2])
              \/ ports(i) = {}

\* Two configured principals would be assigned to one source.
SourcesShared(c) ==
    \E p, q \in Referenced(c) :
        p # q /\ (UNION p.nets \cap UNION q.nets # {} \/ p.leaves \cap q.leaves # {})

\* outbound_profile_resolver: what a worker can dial, by profile and revision.
OutboundProfiles(c) == {[id |-> p.id, revision |-> p.revision] : p \in ReferencedEgress(c)}

\* resolved_named_routes: a route with its destination's binding and the metadata
\* keys that may leave with it.
ResolvedNamedRoutes(c) ==
    {[id |-> x.id,
      binding |-> {b \in OutboundProfiles(c) : x.destination = "sip" /\ b.id = x.to},
      keys |-> \E p \in ReferencedEgress(c) : x.destination = "sip" /\ p.id = x.to /\ p.keys] :
        x \in c.routes}

\* A call of some route would be started with a profile that no stack, or more
\* than one, answers to.
DestinationsUnserved(c) ==
    /\ SipStacks(c)
    /\ \E r \in ResolvedNamedRoutes(c), b \in OutboundProfiles(c) :
          b \in r.binding /\ Cardinality({q \in ReferencedEgress(c) : q.revision = b.revision}) # 1

-----------------------------------------------------------------------------
(* The catalogs of a split gateway and its workers.  A call is placed on a   *)
(* worker whose catalog has the gateway's fingerprint; the worker then asks  *)
(* the gateway to dial by an exact catalog entry.                            *)

\* gateway_egress_profile_entry.  The revision is a digest of the profile, its
\* codecs and metadata keys included; a WebRTC profile's is its own.
EgressProfileEntry(c, x) ==
    CASE x.destination = "sip" ->
            {[route |-> x.id, tenant |-> x.tenant, transport |-> "sip", profile |-> p.id,
              revision |-> p.revision, target |-> x.to] : p \in {q \in c.egress : q.id = x.to}}
      [] x.destination = "webrtc" ->
            {[route |-> x.id, tenant |-> x.tenant, transport |-> "webrtc", profile |-> w,
              revision |-> w, target |-> x.to] : w \in c.webrtcProfiles \cap {x.to}}
      [] OTHER -> {}

\* gateway_egress_profiles
GatewayEgressProfiles(c) == UNION {EgressProfileEntry(c, x) : x \in c.routes}

\* worker_egress_routes
WorkerEgressRoutes(c) == UNION {EgressProfileEntry(c, x) : x \in c.routes}

\* ConfiguredGatewayEgressProfiles::resolve: an exact entry, whatever its route.
ResolvesEgress(c, e) ==
    \E g \in GatewayEgressProfiles(c) :
        /\ g.tenant = e.tenant /\ g.transport = e.transport
        /\ g.profile = e.profile /\ g.revision = e.revision /\ g.target = e.target

\* The profiles a route is bound to, by revision.
ProfileBindings(c, x) ==
    [ingress |-> IngressProfile(c, x),
     destination |-> {[id |-> e.profile, revision |-> e.revision] : e \in EgressProfileEntry(c, x)}]

\* route_catalog_configuration_fingerprint; a hash stands for what was hashed.
Fingerprint(c) ==
    [capabilities |-> Has(c, {"capabilities"}),
     routes |-> {[id |-> x.id, tenant |-> x.tenant, ingress |-> x.ingress,
                  destination |-> <<x.destination, x.to>>,
                  profiles |-> ProfileBindings(c, x)] : x \in c.routes}]

\* A worker the gateway would place calls on asks for what the gateway cannot dial.
CatalogsDisagree(gateway, worker) ==
    /\ Fingerprint(gateway) = Fingerprint(worker)
    /\ \E e \in WorkerEgressRoutes(worker) : ~ResolvesEgress(gateway, e)

-----------------------------------------------------------------------------
(* What the role's constructors ask for by themselves                      *)

RoleOf(c) ==
    IF c.mode # "all" THEN c.mode
    ELSE IF LegacyVapiConnectEnabled(c) THEN "expert" ELSE "recipe"

\* The call runtime is built for an authenticated API only.
HasCallRuntime(c) == Has(c, {"api", "bearer", "control_key"}) /\ ListenerTenants(c) # {}

PartsOf(c) ==
    (IF HasCallRuntime(c) THEN {"row"} ELSE {})
        \cup (IF Has(c, {"generic"}) THEN {"generic"} ELSE {})
        \cup (IF Has(c, {"uctp_listener"}) THEN {"uctp"} ELSE {})
        \cup (IF c.origin # "none" THEN {"origin"} ELSE {})

\* call_repository_backend: SQLite has a default database, PostgreSQL has none.
CallRepositoryBackend(c) == c.backend = "postgres" => Has(c, {"database_url"})

\* call_coordination_config, as validate_for_backend judges it.
CallCoordination(c) == IF c.redis # "none" THEN c.redis ELSE "database"

RepositoryOpens(c) ==
    /\ CallRepositoryBackend(c)
    /\ c.backend = "postgres" =>
        CallCoordination(c) = "clustered" \/ (CallCoordination(c) = "database" /\ Has(c, {"db_only"}))

\* attachment_principal_resolver: the tenant of every referenced ingress profile
\* is one the call runtime serves.
AttachmentPrincipals(c) == \A p \in Referenced(c) : p.tenant \in TenantNames(c)

\* required_public_uctp_endpoint and parse_uctp_endpoint
RequiredPublicUctpEndpoint(c) == c.endpoint = "uctp"

\* gateway_private_egress_replay_capacity: room for every command the API's rate limit
\* lets through within the replay window, and for the end of every route.
ReplayWindow == 120
MaxReplayEntries == 262144

ReplayCapacity(c) ==
    Max({2 * (c.rate * ReplayWindow + c.burst) + 4 * c.activeRoutes, 64})

ReplayFits(c) == c.rate # 0 /\ ReplayCapacity(c) <= MaxReplayEntries

\* sip_listener_auth_policy and sip_auth_service
SipListenerAuth(c) ==
    /\ \E t \in ListenerTenants(c) : PrincipalProjections(c, t)
    /\ Has(c, {"digest", "telnyx"}) => c.realm = "shared"

When(names, condition) == IF condition THEN names ELSE {}

AllInOneRefuses(c) ==
    When({"repository", "journal"}, ~RepositoryOpens(c))
        \cup When({"call_runtime"}, ~HasCallRuntime(c))
        \cup When({"sip_policy"}, ~SipListenerAuth(c))
        \cup When({"sip_stack"}, ~SipStacks(c))
        \cup When({"recipe_runtime"}, c.recipes = <<>> \/ Lacks(c, {"generic"}))
        \cup When({"uctp"}, ~(Has(c, {"generic", "token_secret"}) /\ RequiredPublicUctpEndpoint(c)))

\* gateway_forwarding_config, gateway_uctp_ingress_config,
\* gateway_native_ingress_config and call control's constructor.
GatewayRefuses(c) ==
    When({"control_repository"},
         ~(/\ Has(c, {"forwarding", "fwd_gateway"}) /\ HasCallRuntime(c)
           /\ c.backend = "postgres" /\ RepositoryOpens(c) /\ c.redis = "clustered"))
        \cup When({"edge_config"},
                  ~(/\ Has(c, {"forwarding", "fwd_gateway", "fwd_secret", "public_uctp",
                               "generic", "bearer", "control_key", "token_secret",
                               "database_url"})
                    /\ c.redis # "none" /\ SipListenerAuth(c) /\ SipStacks(c)
                    /\ ReplayFits(c)))

\* WorkerRoleRuntime::start, worker_forwarding_config and configure_post_start.
WorkerRefuses(c) ==
    When({"worker_config"},
         ~(Has(c, {"control_key"}) /\ AttachmentPrincipals(c)))
        \cup When({"repository"}, ~RepositoryOpens(c) \/ Lacks(c, {"worker_id"}))
        \cup When({"forwarding_config"}, ~Has(c, {"forwarding", "fwd_worker", "fwd_secret"}))
        \cup When({"command_repository"}, Lacks(c, {"database_url"}))
        \cup When({"grants"}, c.redis = "none" \/ Lacks(c, {"token_secret"}))
        \cup When({"public_endpoint"}, ~RequiredPublicUctpEndpoint(c))
        \cup When({"origin_relay"}, c.origin = "same")

\* listener_runtime_config of moq_relay_role.rs parses the listeners once more.
ListenerRuntimeConfig(c) == c.relay.listeners = "parsed"

RelayRefuses(c) ==
    When({"relay_authorities"}, ~Has(c, {"moq_relay", "token_secret"}) \/ c.redis = "none")
        \cup When({"publisher"}, ~ListenerRuntimeConfig(c))
        \cup When({"webtransport", "raw_quic"}, ~ListenerRuntimeConfig(c) \/ c.relay.binds # 3)

\* The start steps that would refuse configuration c, and what an accepted
\* configuration may never contain.
RefusedLater(c) ==
    When({"ambiguous_source"}, SourcesShared(c) /\ c.mode # "worker")
        \cup When({"shared_port"}, PortsShared(c))
        \cup When({"unserved_destination"}, DestinationsUnserved(c))
        \cup CASE c.mode = "all" -> AllInOneRefuses(c)
               [] c.mode = "gateway" -> GatewayRefuses(c)
               [] c.mode = "worker" -> WorkerRefuses(c)
               [] c.mode = "relay" -> RelayRefuses(c)

=============================================================================
