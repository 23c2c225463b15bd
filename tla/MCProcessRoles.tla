--------------------------- MODULE MCProcessRoles ---------------------------
(***************************************************************************)
(* ProcessRoles for TLC: the configurations that are loaded are one per    *)
(* kind of deployment, each with up to two changes, an option set or unset *)
(* or a setting given another value.  Two changes reach every requirement  *)
(* that relates two settings.                                              *)
(***************************************************************************)
EXTENDS ProcessRoles

Options == {"api", "generic", "bearer", "control_key", "region", "database_url", "worker_id",
            "ephemeral", "db_only", "forwarding", "fwd_gateway", "fwd_worker", "fwd_secret",
            "public_uctp", "token_secret", "uctp_listener", "capabilities",
            "moq_relay", "api_tls", "public_webrtc", "cleartext_bearer", "digest", "telnyx",
            "edge_media", "edge_tls", "edge_rtp", "edge_client_ca", "listener_ca",
            "instance_id", "contact_flow_id"}

Ingress(id, nets, security, leaves) ==
    [id |-> id, kind |-> "sip", tenant |-> "t", nets |-> nets, security |-> security,
     tls |-> IF Secure(security) THEN "edge" ELSE "none", ca |-> leaves # {}, leaves |-> leaves]

Egress(id, revision) == [id |-> id, revision |-> revision, keys |-> TRUE]

Route(id, profile, destination, to) ==
    [id |-> id, tenant |-> "t", ingress |-> {"sip"}, profile |-> profile, webrtc |-> "none",
     destination |-> destination, to |-> to, header |-> TRUE]

Recipe(kind, security) ==
    [inst |-> "r", kind |-> kind, security |-> security, nets |-> {{5, 6}}]

Listening(binds, replays) ==
    [listeners |-> "parsed", binds |-> binds, tls |-> TRUE, publishers |-> TRUE,
     tenantSessions |-> 10, sessions |-> 100, replays |-> replays]

Plain ==
    [mode |-> "all", legacy |-> "unset", on |-> {"region", "ephemeral"}, backend |-> "memory",
     redis |-> "none", tenants |-> {"t"}, static |-> "none", default |-> "none", bind |-> "none", listener |-> "none",
     srtp |-> "disabled", media |-> "none", template |-> "none", attachment |-> "none",
     correlation |-> "none", realm |-> "shared", ports |-> <<10, 21>>, ingress |-> {},
     egress |-> {}, webrtcProfiles |-> {}, routes |-> {}, recipes |-> <<>>, ok |-> TRUE,
     endpoint |-> "none", origin |-> "none", relay |-> Listening(3, 100),
     rate |-> 50, burst |-> 100, activeRoutes |-> 1000]

WithRoute(c) ==
    [c EXCEPT !.on = @ \cup {"api", "generic", "bearer", "control_key"},
              !.listener = "edge", !.srtp = "required", !.media = "edge", !.template = "sips",
              !.correlation = "correlation_id",
              !.ingress = {Ingress("a", {{1, 2}}, "sips_srtp", {})},
              !.egress = {Egress("p", "v1")},
              !.routes = {Route("x", "a", "sip", "p")}]

Durable(c) ==
    [c EXCEPT !.on = (@ \ {"ephemeral"}) \cup {"database_url", "worker_id"},
              !.backend = "postgres", !.redis = "clustered"]

Uctp(c) == [c EXCEPT !.on = @ \cup {"uctp_listener", "token_secret"}, !.endpoint = "uctp"]

WithRecipe(c) ==
    [c EXCEPT !.on = @ \cup {"bearer", "control_key", "edge_media", "edge_tls", "edge_rtp"},
              !.tenants = {}, !.recipes = <<Recipe("sip_amazon", "sips_srtp")>>]

Worker ==
    [Durable(Plain) EXCEPT
        !.mode = "worker", !.legacy = "off",
        !.on = @ \cup {"control_key", "forwarding", "fwd_worker", "fwd_secret", "token_secret"},
        !.endpoint = "uctp"]

Gateway ==
    [Durable(WithRoute(Plain)) EXCEPT
        !.mode = "gateway", !.bind = "loopback",
        !.on = @ \cup {"forwarding", "fwd_gateway", "fwd_secret", "public_uctp", "token_secret"},
        !.endpoint = "uctp"]

Relay ==
    [Durable(Plain) EXCEPT !.mode = "relay", !.on = @ \cup {"moq_relay", "token_secret"}]

\* A worker with the gateway's catalog.
Placed == [WithRoute(Worker) EXCEPT !.on = Worker.on]

Bases == {Plain, Uctp(WithRoute(Plain)), Durable(WithRoute(Plain)), Uctp(WithRecipe(Plain)),
          Worker, WithRecipe(Worker), Placed, Gateway, Relay}

Alternatives ==
    [legacy |-> {"unset", "on", "off"},
     backend |-> {"memory", "sqlite", "postgres"},
     redis |-> {"none", "plain", "clustered"},
     tenants |-> {{}, {"t"}, {"t", "u"}},
     static |-> {"none", "t", "u"},
     default |-> {"none", "t", "u"},
     bind |-> {"none", "loopback", "public", "same", "zero"},
     listener |-> {"none", "edge", "other"},
     srtp |-> {"required", "preferred", "disabled"},
     media |-> {"none", "edge", "other"},
     template |-> {"none", "sips", "sip"},
     attachment |-> {"none", "edge", "other"},
     correlation |-> {"none", "correlation_id", "other"},
     realm |-> {"shared", "clash"},
     ports |-> {<<10, 21>>, <<11, 13>>, <<9, 16>>},
     ingress |-> {{Ingress("a", {{1, 2}}, "sips_srtp", {}), Ingress("b", {{3}}, "sips_srtp", {})},
                  {Ingress("a", {{1, 2}}, "sips_srtp", {}), Ingress("b", {{2}}, "sips_srtp", {})},
                  {Ingress("a", {{1, 2}}, "sips_srtp", {7}), Ingress("b", {{3}}, "sips_srtp", {7})},
                  {Ingress("a", {{1, 2}, {3}}, "sip_rtp", {})}},
     egress |-> {{}, {Egress("p", "v1"), Egress("q", "v2")}, {Egress("p", "v1"), Egress("q", "v1")},
                 {Egress("p", "v2")}},
     webrtcProfiles |-> {{}, {"w"}},
     endpoint |-> {"none", "uctp", "other"},
     origin |-> {"none", "distinct", "same"},
     relay |-> {Listening(2, 100), Listening(3, 50), [Listening(3, 100) EXCEPT !.listeners = "malformed"],
                [Listening(3, 100) EXCEPT !.tls = FALSE], [Listening(3, 100) EXCEPT !.publishers = FALSE]},
     rate |-> {0, 1074, 1076},
     routes |-> {{}, {Route("x", "a", "sip", "p"), Route("y", "a", "sip", "q")},
                 {Route("x", "a", "sip", "p"), Route("y", "b", "amazon", "i")},
                 {Route("x", "a", "telnyx", "none")}, {Route("x", "a", "webrtc", "w")}},
     recipes |-> {<<>>} \cup
                 {<<Recipe(kind, security)>> :
                     kind \in {"sip_amazon", "sip_webrtc", "webrtc_sip", "webrtc_amazon", "other"},
                     security \in {"sips_srtp", "sips_optional_srtp", "sip_rtp"}}]

\* The gateways a worker may share a deployment with.
Companions == {Gateway} \cup {[Gateway EXCEPT !.egress = e] : e \in Alternatives["egress"]}

\* Names the bound: Load applies OneChange twice.
Toggled(c, o) == [c EXCEPT !.on = IF o \in @ THEN @ \ {o} ELSE @ \cup {o}]

OneChange(c) ==
    {c} \cup {Toggled(c, o) : o \in Options}
        \cup UNION {{[c EXCEPT ![f] = v] : v \in Alternatives[f]} : f \in DOMAIN Alternatives}

=============================================================================
