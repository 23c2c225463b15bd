--------------------------- MODULE LegReplacement ---------------------------
(***************************************************************************)
(* Make-before-break replacement of a call's destination, and transfer of  *)
(* the destination by its transport, as the call actor carries them out.   *)
(*                                                                         *)
(* The call is active: its caller and the destination of generation 1 are  *)
(* connected and bridged.  A replacement holds that destination, dials the *)
(* next generation beside it and either promotes the new route and stops   *)
(* the old one, or aborts the new route and bridges the old one again.     *)
(* Reports, the client's hangup and timers come in between.  A route of    *)
(* the orchestrator completes by its Connected event, one of the private   *)
(* gateway by the answer to Activate.                                      *)
(*                                                                         *)
(* As in LegExecution, a claimed row whose operation returns an error      *)
(* keeps its claim (WORK_CLAIM_TTL is a day) and blocks the rows behind it.*)
(* Rows without an effect (timers, compensation marks) are left out.       *)
(*                                                                         *)
(* Source: src/call_service/execution.rs, src/call_engine/domain.rs and    *)
(* the promotion in src/persistence/memory.rs.                             *)
(***************************************************************************)
EXTENDS Naturals, Sequences, FiniteSets

CONSTANTS
    Kinds,          \* how new destinations are reached: "transport", "private"
    Lefts,          \* the leg that BridgeMedia names first
    MaxReplacements,    \* bound on replacements and transfers
    MaxGone         \* bound on peers that hang up, or the client after them

ASSUME BoundsAssumption ==
    /\ Kinds \subseteq {"transport", "private"}
    /\ Lefts \subseteq {"in", "out"}
    /\ MaxReplacements \in Nat /\ MaxGone \in Nat

CallLeg == {"in", "out"}
Generation == 1 .. MaxReplacements + 1

\* The caller's route is 0, the routes of the destination are its generations.
Caller == 0
Route == {Caller} \cup Generation

VARIABLES
    kind, left,     \* how destinations are reached, the first leg of the bridge
    db,             \* the durable call: call, leg, gen, cursor, repl, rows, claim,
                    \* armed, due, token (the generation of the transfer deadline)
    net,            \* the routes: conn, ev; and life, the gateway's notices
    live,           \* whether the actor runs
    held,           \* bindings: the generation of the destination
    pending,        \* pending_replacement_bindings, or 0
    replaced,       \* replaced_bindings
    early,          \* pending_private_lifecycle
    terminal,       \* what the actor knows of the call's end
    queue,          \* pending_work
    op,             \* the running operation and where it stands
    snap,           \* the bindings it was started with
    bridged,        \* the generation whose route is bridged, or 0
    overtaken       \* a start or a follow-up gave its claim up

replVars == <<kind, left, db, net, live, held, pending, replaced, early,
          terminal, queue, op, snap, bridged, overtaken>>

bindings == <<held, pending, replaced, early>>
acting == <<bindings, terminal, queue, op, snap, bridged, overtaken>>
setting == <<kind, left>>

\* An effect, the generation and the transfer deadline that it names.
Row(what, g, t) == [what |-> what, g |-> g, t |-> t]

-----------------------------------------------------------------------------
(***************************************************************************)
(* The durable call.                                                       *)
(***************************************************************************)
\* begin_leg_replacement: the destination is held, its bridge removed, the
\* next generation reserved and the transfer deadline armed.
BeginLegReplacement(d) ==
    LET g == d.cursor + 1
    IN  [d EXCEPT !.call = "transferring", !.leg["out"] = "held",
                  !.cursor = g, !.repl = g, !.armed = "transfer", !.due = FALSE,
                  !.token = d.token + 1,
                  !.rows = d.rows \o <<Row("unbridge", 0, 0), Row("start", g, d.token + 1)>>]

\* begin_transfer: the media stays bridged.
BeginTransfer(d) ==
    [d EXCEPT !.call = "transferring", !.armed = "transfer", !.due = FALSE,
              !.token = d.token + 1,
              !.rows = Append(d.rows, Row("transfer", d.gen, d.token + 1))]

Resumed(d) == [d EXCEPT !.call = "active", !.repl = 0, !.armed = "none", !.due = FALSE]

\* finish_leg_replacement and the promotion of its connection.
Connected(d, g) ==
    [Resumed(d) EXCEPT !.gen = g, !.leg["out"] = "connected",
                       !.rows = d.rows \o <<Row("stop", d.gen, 0), Row("bridge", 0, 0)>>]

Rejected(d, g) ==
    [Resumed(d) EXCEPT !.leg["out"] = "connected",
                       !.rows = d.rows \o <<Row("abort", g, 0), Row("bridge", 0, 0)>>]

Finalize(d) ==
    [d EXCEPT !.call = "done", !.leg = [l \in CallLeg |-> "over"],
              !.armed = "none", !.due = FALSE]

\* begin_ending_internal: the pending replacement is aborted, then every leg
\* that is not over is stopped.
BeginEnding(d, arm) ==
    LET stop(l) == IF d.leg[l] \in {"over", "ending"} THEN <<>>
                   ELSE <<IF l = "in" THEN Row("stop_in", 0, 0) ELSE Row("stop", d.gen, 0)>>
    IN  [d EXCEPT !.call = "ending", !.repl = 0,
                  !.leg = [l \in CallLeg |-> IF d.leg[l] = "over" THEN "over" ELSE "ending"],
                  !.armed = IF arm THEN "ending" ELSE "none", !.due = FALSE,
                  !.rows = d.rows \o (<<Row("unbridge", 0, 0)>>
                             \o (IF d.repl # 0 THEN <<Row("abort", d.repl, 0)>> ELSE <<>>)
                             \o stop("in") \o stop("out"))]

\* SetLegState of a leg that ended.
Over(d, l) ==
    LET e == [d EXCEPT !.leg[l] = "over"]
    IN  CASE d.call = "done" \/ d.leg[l] = "over" -> d
          [] d.call = "ending" /\ d.leg[l] # "over" ->
                IF \A m \in CallLeg : e.leg[m] = "over" THEN Finalize(e) ELSE e
          [] OTHER -> BeginEnding(e, FALSE)

EnsureEndingDeadline(d) ==
    IF d.call = "ending" /\ d.armed = "none" THEN [d EXCEPT !.armed = "ending"] ELSE d

\* deadline_elapsed: a replacement is rejected, a transfer ends the call.
Elapsed(d) ==
    CASE ~d.due -> d
      [] d.due /\ d.armed = "transfer" /\ d.repl # 0 -> Rejected(d, d.repl)
      [] d.due /\ d.armed = "transfer" /\ d.repl = 0 -> BeginEnding(d, TRUE)
      [] d.due /\ d.armed = "ending" -> Finalize(d)

-----------------------------------------------------------------------------
(***************************************************************************)
(* The routes.  A route that Bridgefu ends is "ended", one whose peer went *)
(* away is "gone"; the owner of an established route hears of either.      *)
(***************************************************************************)
Established == {"live", "up"}

Ends(n, rs, how) ==
    [n EXCEPT
        !.conn = [r \in Route |-> IF r \in rs /\ n.conn[r] \in Established \cup {"prepared"}
                                  THEN how ELSE n.conn[r]],
        !.ev = [r \in Route |-> IF r \in rs /\ n.conn[r] \in Established
                                THEN Append(n.ev[r], <<"ended", 0>>) ELSE n.ev[r]]]

\* end_connection.
EndConnections(n, rs) == Ends(n, rs, "ended")

\* Nobody listens any more.
Silent(n) == [n EXCEPT !.ev = [r \in Route |-> <<>>], !.life = {}]

-----------------------------------------------------------------------------
\* The copies of an operation that is over.
NoSnap == [held |-> 1, pending |-> 0, replaced |-> {}]

ReplInit ==
    /\ kind \in Kinds /\ left \in Lefts
    /\ db = [call |-> "active", leg |-> [l \in CallLeg |-> "connected"],
             gen |-> 1, cursor |-> 1, repl |-> 0, rows |-> <<>>, claim |-> FALSE,
             armed |-> "none", due |-> FALSE, token |-> 0]
    /\ net = [conn |-> [r \in Route |-> IF r \in {Caller, 1} THEN "up" ELSE "none"],
              ev |-> [r \in Route |-> <<>>], life |-> {}]
    /\ live = TRUE /\ held = 1 /\ pending = 0 /\ replaced = {}
    /\ early = {} /\ terminal = FALSE /\ queue = <<>> /\ op = "idle"
    /\ snap = NoSnap
    /\ bridged = 1 /\ overtaken = FALSE

-----------------------------------------------------------------------------
(***************************************************************************)
(* The client.                                                             *)
(***************************************************************************)
ReplaceLeg ==
    /\ live /\ db.call = "active" /\ db.leg["out"] = "connected"
    /\ db.token < MaxReplacements
    /\ db' = BeginLegReplacement(db)
    /\ UNCHANGED <<setting, net, live, acting>>

TransferCall ==
    /\ live /\ kind = "transport" /\ db.call = "active" /\ db.token < MaxReplacements
    /\ db' = BeginTransfer(db)
    /\ UNCHANGED <<setting, net, live, acting>>

\* Bound: those who hang up.
MayHangUp == Cardinality({r \in Route : net.conn[r] = "gone"}) < MaxGone

EndCall ==
    /\ live /\ MayHangUp /\ db.call \in {"active", "transferring"}
    /\ db' = BeginEnding(db, TRUE)
    /\ UNCHANGED <<setting, net, live, acting>>

-----------------------------------------------------------------------------
(***************************************************************************)
(* Work.                                                                   *)
(***************************************************************************)
ClaimRow ==
    /\ live /\ db.rows # <<>> /\ ~db.claim
    /\ db' = [db EXCEPT !.claim = TRUE]
    /\ queue' = Append(queue, "row")
    /\ UNCHANGED <<setting, net, live, bindings, terminal, op, snap, bridged,
                   overtaken>>

ClaimDeadline ==
    /\ live /\ db.armed # "none" /\ ~db.due
    /\ db' = [db EXCEPT !.due = TRUE]
    /\ queue' = Append(queue, "deadline")
    /\ UNCHANGED <<setting, net, live, bindings, terminal, op, snap, bridged,
                   overtaken>>

HeadEffect == Head(db.rows)

\* start_next_work: with copies of the bindings.
StartNextWork ==
    /\ live /\ op = "idle" /\ queue # <<>>
    /\ op' = Head(queue) /\ queue' = Tail(queue)
    /\ snap' = [held |-> held, pending |-> pending, replaced |-> replaced]
    /\ UNCHANGED <<setting, db, net, live, bindings, terminal, bridged, overtaken>>

Goes(pc) == op' = pc /\ UNCHANGED <<setting, live, bindings, terminal, queue, snap>>

CommitDeadline ==
    /\ op = "deadline"
    /\ db' = Elapsed(db)
    /\ Goes("finish") /\ UNCHANGED <<net, bridged, overtaken>>

\* A pending route of an earlier attempt is not this one's.
LeftOver == snap.pending # 0

\* The held destination and the caller are still the ones of the snapshot.
StillHeld == snap.held = db.gen /\ net.conn[Caller] = "up" /\ db.leg["in"] = "connected"

\* The retained context, the profile and the adapter of the new route: a
\* missing or invalid one rejects the attempt.
OriginateRequest == {"prepare", "reject"}

\* So do the gateway's route and its capacity, and a caller or a held
\* destination that is not the call's any more.
PrivateRequest == IF StillHeld THEN OriginateRequest ELSE {"reject"}

\* execute_start_leg_replacement up to the preparation: a pending route that
\* is left over rejects the attempt, an aggregate that no longer asks for it
\* makes the claim stale.
StartReplacement ==
    CASE LeftOver -> {"reject"}
      [] ~LeftOver /\ db.repl # HeadEffect.g -> {"stale"}
      [] ~LeftOver /\ db.repl = HeadEffect.g ->
            IF kind = "private" THEN PrivateRequest ELSE OriginateRequest

\* execute_call_effect reads the call once.
Executes(what) == op = "row" /\ HeadEffect.what = what

\* A terminal call keeps its cleanup.
RetireEffect ==
    /\ db.call = "done" /\ \E w \in {"start", "bridge", "transfer"} : Executes(w)
    /\ Goes("settle") /\ UNCHANGED <<db, net, bridged, overtaken>>

ExecuteStart ==
    /\ Executes("start") /\ db.call # "done"
    /\ \E next \in StartReplacement :
          /\ Goes(IF next = "stale" THEN "finish" ELSE next)
          /\ overtaken' = (overtaken \/ next = "stale")
    /\ UNCHANGED <<db, net, bridged>>

Prepared == net' = [net EXCEPT !.conn[HeadEffect.g] = "prepared"] /\ Goes("register")

\* The route is prepared, or its preparation fails or times out.
PrepareReplacement ==
    /\ op = "prepare" /\ kind = "transport"
    /\ Prepared \/ (Goes("reject") /\ UNCHANGED net)
    /\ UNCHANGED <<db, bridged, overtaken>>

\* Prepare at the gateway, then the media stream that the gateway opens.
PreparePrivate ==
    /\ op = "prepare" /\ kind = "private"
    /\ Prepared \/ (Goes("reject") /\ UNCHANGED net)
    /\ UNCHANGED <<db, bridged, overtaken>>

\* wait_for_private_replacement_authority_loss.
AuthorityLost ==
    \/ db.repl # HeadEffect.g
    \/ db.gen # snap.held
    \/ db.leg["in"] # "connected"

\* A gateway route that no longer belongs to the call is aborted, and the row
\* is settled without a follow-up.
ReplacementCancelled ==
    /\ op = "prepare" /\ kind = "private" /\ AuthorityLost
    /\ Goes("settle") /\ UNCHANGED <<db, net, bridged, overtaken>>

\* register_outbound of a pending replacement.
Registers(g) == pending \in {0, g}

RegisterReplacement ==
    /\ op = "register" /\ live
    /\ IF Registers(HeadEffect.g)
       THEN pending' = HeadEffect.g /\ op' = "commit" /\ UNCHANGED net
       ELSE /\ net' = EndConnections(net, {HeadEffect.g})
            /\ op' = "reject" /\ UNCHANGED pending
    /\ UNCHANGED <<setting, db, live, held, replaced, early, terminal, queue,
                   snap, bridged, overtaken>>

\* prepared.commit(): activated, or failed or timed out with or without a
\* route; whatever is left of it stays pending.
CommitReplacement ==
    /\ op = "commit" /\ kind = "transport"
    /\ \/ /\ net.conn[HeadEffect.g] = "prepared"
          /\ net' = [net EXCEPT !.conn[HeadEffect.g] = "live"]
          /\ Goes("settle")
       \/ /\ \E s \in {"failed", "live"} :
                net' = IF net.conn[HeadEffect.g] = "prepared"
                       THEN [net EXCEPT !.conn[HeadEffect.g] = s] ELSE net
          /\ Goes("reject")
    /\ UNCHANGED <<db, bridged, overtaken>>

\* Activate at the gateway: accepted, or the route is aborted and ended.
ActivateReplacement ==
    /\ op = "commit" /\ kind = "private"
    /\ \/ /\ net.conn[HeadEffect.g] = "prepared"
          /\ net' = [net EXCEPT !.conn[HeadEffect.g] = "up"]
          /\ Goes("activated")
       \/ /\ net' = EndConnections(net, {HeadEffect.g})
          /\ Goes("reject")
    /\ UNCHANGED <<db, bridged, overtaken>>

\* The call is read again before the route is promoted; one that is not owned
\* any more is ended at the gateway.
CheckOwned ==
    /\ op = "activated"
    /\ IF db.repl = HeadEffect.g /\ db.gen = snap.held
       THEN Goes("connected") /\ UNCHANGED net
       ELSE Goes("settle") /\ net' = EndConnections(net, {HeadEffect.g})
    /\ UNCHANGED <<db, bridged, overtaken>>

\* AbortLegReplacement ends the pending route of that generation.
AbortReplacement ==
    /\ Executes("abort")
    /\ net' = IF snap.pending = HeadEffect.g THEN EndConnections(net, {HeadEffect.g}) ELSE net
    /\ Goes("settle") /\ UNCHANGED <<db, bridged, overtaken>>

\* Fault: the transport of a leg is looked up without its generation.
StopsCurrent(g) == {snap.held}

\* The bindings a StopLeg looks in: the exact generation, current or replaced.
StopTarget(g) == {g} \cap ({snap.held} \cup snap.replaced)

StopLeg ==
    /\ \/ Executes("stop") /\ net' = EndConnections(net, StopTarget(HeadEffect.g))
       \/ Executes("stop_in") /\ net' = EndConnections(net, {Caller})
    /\ Goes("settle") /\ UNCHANGED <<db, bridged, overtaken>>

\* BridgeMedia bridges the caller with the snapshot's destination.
BridgeMedia ==
    /\ Executes("bridge") /\ db.call # "done"
    /\ \/ /\ net.conn[Caller] = "up" /\ net.conn[snap.held] = "up"
          /\ bridged' = snap.held /\ Goes("settle")
       \/ Goes("fail_bridge") /\ UNCHANGED bridged
    /\ UNCHANGED <<db, net, overtaken>>

UnbridgeMedia ==
    /\ Executes("unbridge")
    /\ bridged' \in {0, bridged} /\ Goes("settle")
    /\ UNCHANGED <<db, net, overtaken>>

\* ExecuteTransfer: the transport is asked to transfer the current route.
ExecuteTransfer ==
    /\ Executes("transfer") /\ db.call # "done"
    /\ \/ /\ snap.held = HeadEffect.g /\ db.gen = HeadEffect.g
          /\ \E s \in {"completed", "failed", "silent"} :
                net' = IF s # "silent" /\ net.conn[snap.held] = "up"
                       THEN [net EXCEPT !.ev[snap.held] = Append(@, <<s, HeadEffect.t>>)]
                       ELSE net
          /\ Goes("settle")
       \/ Goes("reject_transfer") /\ UNCHANGED net
    /\ UNCHANGED <<db, bridged, overtaken>>

-----------------------------------------------------------------------------
(***************************************************************************)
(* Reconciliation: the result and its follow-up in one transaction, or,    *)
(* where the call refuses the follow-up, neither.                          *)
(***************************************************************************)
Settled(d) == [d EXCEPT !.rows = Tail(d.rows), !.claim = FALSE]

\* The transfer deadline that the row was armed with is not the last.
Outdated == HeadEffect.t < db.token

\* What the call may become: FinishLegReplacement, FinishTransfer and FailLeg.
\* A stale result is ignored, and so is one that finds the call active again.
FollowUps ==
    LET ignored == Outdated \/ db.call = "active"
        wanted == ~Outdated /\ db.call = "transferring"
        foreign == left = "out" /\ snap.held # db.gen
        commit == CASE op = "reject" -> Rejected(db, HeadEffect.g)
                    [] op = "reject_transfer" -> Resumed(db)
                    [] OTHER -> Connected(db, HeadEffect.g)
    IN  CASE op = "settle" \/ (op = "fail_bridge" /\ foreign) -> {db}
          [] op = "fail_bridge" /\ ~foreign ->
                IF db.call = "done" THEN {} ELSE {Over(db, left)}
          [] op = "connected" -> IF db.repl = HeadEffect.g THEN {commit} ELSE {}
          [] op \in {"reject", "reject_transfer"} ->
                IF ignored THEN {db} ELSE IF wanted THEN {commit} ELSE {}

\* A leg that ended does not fail, one that failed may fail again.
MayRefuse == FollowUps = {} \/ (op = "fail_bridge" /\ db.leg[left] = "over")

ReconcileEffect ==
    /\ op \in {"settle", "connected", "reject", "reject_transfer", "fail_bridge"}
    /\ \/ MayRefuse /\ overtaken' = TRUE /\ UNCHANGED db
       \/ /\ \E d \in FollowUps : db' = Settled(d)
          /\ UNCHANGED overtaken
    /\ Goes("finish") /\ UNCHANGED <<net, bridged>>

\* stop_ending_peers: the peers that durably end, and every pending and
\* replaced route.
EndingPeers(d, b, l) ==
    (IF l = "out" /\ d.leg["in"] = "ending" THEN {Caller} ELSE {})
        \cup (IF l = "in" /\ d.leg["out"] = "ending" /\ b.held = d.gen
              THEN {b.held} ELSE {})
        \cup ({b.pending} \ {0}) \cup b.replaced

Holding == [held |-> held, pending |-> pending, replaced |-> replaced]

\* The gateway reports the end of the route that bindings b hold.
GatewayEnds(b) ==
    LET d == Over(db, "out")
        ended == EndConnections(net, {b.held})
    IN  IF db.leg["out"] = "over" \/ b.held # db.gen THEN [db |-> db, net |-> net]
        ELSE [db |-> d,
              net |-> IF d.call = "ending" THEN EndConnections(ended, EndingPeers(d, b, "out"))
                      ELSE ended]

\* Fault: the reload installs nothing.
KeepsPrevious == Holding

\* converge_durable_replacement_bindings: a promotion that the effect's result
\* committed is installed before the next operation starts.
Converge ==
    IF pending # 0 /\ db.gen = pending
    THEN [held |-> pending, replaced |-> replaced \cup {held}, pending |-> 0]
    ELSE Holding

Installs(b) == held' = b.held /\ pending' = b.pending /\ replaced' = b.replaced

\* finish_work_operation: read the call, install a promotion, replay what the
\* gateway reported of it before, arm the ending deadline.  The call that was
\* read is the one from before the replay.
FinishWork ==
    /\ op = "finish" /\ live /\ op' = "idle" /\ snap' = NoSnap
    /\ LET b == Converge
           after == IF b.held \in early THEN GatewayEnds(b) ELSE [db |-> db, net |-> net]
       IN  /\ Installs(b)
           /\ early' = early \ {b.held}
           /\ db' = IF db.call = "ending" THEN EnsureEndingDeadline(after.db) ELSE after.db
           /\ net' = after.net
           /\ terminal' = (db.call = "done")
    /\ UNCHANGED <<setting, live, queue, bridged, overtaken>>

-----------------------------------------------------------------------------
(***************************************************************************)
(* Reports, in the order of their route.                                   *)
(***************************************************************************)
Reads(r, e) ==
    /\ live /\ net.ev[r] # <<>> /\ Head(net.ev[r])[1] = e

Read(r) == [net EXCEPT !.ev[r] = Tail(@)]

Promoted(g) == [held |-> g, pending |-> 0, replaced |-> replaced \cup {held}]

\* handle_replacement_operational: the pending route connects or ends.
ReplacementReports(g) ==
    /\ pending = g /\ \E e \in {"connected", "ended"} : Reads(g, e)
    /\ LET connected == Reads(g, "connected")
       IN  CASE connected /\ kind = "private" ->
                    /\ net' = Read(g) /\ UNCHANGED <<db, bindings>>
             [] ~(connected /\ kind = "private") /\ db.repl = 0 ->
                    /\ net' = EndConnections(Read(g), {g})
                    /\ pending' = 0 /\ early' = early \ {g}
                    /\ UNCHANGED <<db, held, replaced>>
             [] ~(connected /\ kind = "private") /\ db.repl \notin {0, g} ->
                    /\ net' = Read(g) /\ UNCHANGED <<db, bindings>>
             [] connected /\ kind = "transport" /\ db.repl = g ->
                    /\ db' = Connected(db, g) /\ Installs(Promoted(g))
                    /\ net' = Read(g) /\ UNCHANGED early
             [] ~connected /\ db.repl = g ->
                    /\ db' = Rejected(db, g) /\ net' = Read(g)
                    /\ pending' = 0 /\ early' = early \ {g}
                    /\ UNCHANGED <<held, replaced>>
    /\ UNCHANGED <<setting, live, terminal, queue, op, snap, bridged, overtaken>>

\* handle_operational of a replaced route: its end is all that counts.
ReplacedReports(g) ==
    /\ g \in replaced /\ live /\ net.ev[g] # <<>>
    /\ replaced' = IF Reads(g, "ended") THEN replaced \ {g} ELSE replaced
    /\ net' = Read(g)
    /\ UNCHANGED <<setting, db, live, held, pending, early, terminal, queue, op, snap,
                   bridged, overtaken>>

\* handle_operational of the caller or the destination that is held: the leg
\* is over, unless the binding is not the durable one.
LegReports(r) ==
    /\ r \in {Caller, held} /\ Reads(r, "ended")
    /\ LET l == IF r = Caller THEN "in" ELSE "out"
           d == Over(db, l)
           current == (r = Caller \/ r = db.gen) /\ db.leg[l] # "over"
       IN  /\ db' = IF current THEN EnsureEndingDeadline(d) ELSE db
           /\ net' = IF current /\ d.call = "ending"
                     THEN EndConnections(Read(r), EndingPeers(d, Holding, l)) ELSE Read(r)
           /\ terminal' = IF current THEN d.call = "done"
                          ELSE terminal \/ (db.leg[l] = "over" /\ db.call = "done")
    /\ UNCHANGED <<setting, live, bindings, queue, op, snap, bridged, overtaken>>

\* transfer_status_matches_current and record_transfer_status.
Matches(t) == db.call = "transferring" /\ db.repl = 0 /\ db.token = t /\ held = db.gen

TransferReports ==
    /\ \E e \in {"completed", "failed"} : Reads(held, e)
    /\ LET t == Head(net.ev[held])[2]
       IN  db' = IF Matches(t) THEN Resumed(db) ELSE db
    /\ net' = Read(held)
    /\ UNCHANGED <<setting, live, acting>>

\* Nobody holds the route any more.
ForeignReports(r) ==
    /\ live /\ net.ev[r] # <<>> /\ r \notin {Caller, held, pending} \cup replaced
    /\ net' = Read(r)
    /\ UNCHANGED <<setting, db, live, acting>>

\* handle_private_egress_lifecycle: the gateway reports a route's end, maybe
\* before the actor holds that route.
GatewayReports(g) ==
    /\ live /\ g \in net.life
    /\ LET quiet == [net EXCEPT !.life = @ \ {g}]
           over == GatewayEnds(Holding)
       IN  CASE db.repl = g \/ (db.gen = g /\ held # g) ->
                    early' = early \cup {g} /\ net' = quiet /\ UNCHANGED <<db, terminal>>
             [] db.repl # g /\ db.gen # g ->
                    net' = quiet /\ UNCHANGED <<db, terminal, early>>
             [] db.repl # g /\ db.gen = g /\ held = g ->
                    /\ db' = over.db
                    /\ net' = [over.net EXCEPT !.life = @ \ {g}]
                    /\ terminal' = (terminal \/ over.db.call = "done")
                    /\ UNCHANGED early
    /\ UNCHANGED <<setting, live, held, pending, replaced, queue, op, snap, bridged,
                   overtaken>>

-----------------------------------------------------------------------------
(***************************************************************************)
(* The peers, and the end of the actor.                                    *)
(***************************************************************************)
DestinationAnswers(g) ==
    /\ net.conn[g] = "live"
    /\ net' = [net EXCEPT !.conn[g] = "up", !.ev[g] = Append(@, <<"connected", 0>>)]
    /\ UNCHANGED <<setting, db, live, acting>>

HangsUp(r) ==
    /\ net.conn[r] \in Established
    /\ MayHangUp
    /\ net' = [Ends(net, {r}, "gone") EXCEPT
                  !.life = IF kind = "private" /\ r # Caller THEN @ \cup {r} ELSE @]
    /\ UNCHANGED <<setting, db, live, acting>>

\* A terminal actor that is idle retires and ends what it holds (cleanup).
Retire ==
    /\ live /\ terminal /\ op = "idle" /\ queue = <<>>
    /\ net' = Silent(EndConnections(net, {Caller, held} \cup ({pending} \ {0}) \cup replaced))
    /\ live' = FALSE /\ bridged' = 0 /\ pending' = 0 /\ replaced' = {} /\ early' = {}
    /\ UNCHANGED <<setting, db, held, terminal, queue, op, snap, overtaken>>

-----------------------------------------------------------------------------
Client == ReplaceLeg \/ TransferCall \/ EndCall

Operation ==
    \/ CommitDeadline \/ RetireEffect \/ ExecuteStart
    \/ PrepareReplacement \/ PreparePrivate \/ ReplacementCancelled \/ RegisterReplacement
    \/ CommitReplacement \/ ActivateReplacement \/ CheckOwned
    \/ AbortReplacement \/ StopLeg \/ BridgeMedia \/ UnbridgeMedia \/ ExecuteTransfer
    \/ ReconcileEffect \/ FinishWork

Reports ==
    \/ \E g \in Generation : ReplacementReports(g) \/ ReplacedReports(g) \/ GatewayReports(g)
    \/ \E r \in Route : LegReports(r) \/ ForeignReports(r)
    \/ TransferReports

Peers == (\E g \in Generation : DestinationAnswers(g)) \/ (\E r \in Route : HangsUp(r))

\* What the actor and its timers do by themselves.
Progress ==
    \/ ClaimRow \/ ClaimDeadline \/ StartNextWork \/ Operation \/ Reports \/ Retire

\* An active call rests, and so does a retired actor.
ReplNext == Client \/ Peers \/ Progress

\* The actor's loop, its claims and the timeouts of its operations always go
\* on; every one of its steps uses something up, so that one condition is
\* enough.
Fairness == WF_replVars(Progress)

ReplSpec == ReplInit /\ [][ReplNext]_replVars /\ Fairness

-----------------------------------------------------------------------------
OpenRoute(g) == net.conn[g] \in Established \cup {"prepared"}

Quiet ==
    /\ op = "idle" /\ queue = <<>> /\ db.rows = <<>>
    /\ \A r \in Route : net.ev[r] = <<>>

\* One destination: every route that is open is held, pending, replaced or the
\* running operation's, and once nothing is left to do an active call has the
\* route of its current generation only; a retired actor leaves none.
OneDestination ==
    /\ \A g \in Generation : OpenRoute(g) =>
          /\ live
          /\ g \in {held, pending} \cup replaced
                \/ (op \notin {"idle", "finish", "deadline"} /\ HeadEffect.g = g)
    /\ Quiet /\ db.call = "active" => \A g \in Generation : OpenRoute(g) => g = db.gen

\* Make before break: while a call is active or in transfer, Bridgefu itself
\* never ends the route of its current destination.  An attempt that is
\* rejected, aborted or overtaken ends its own route only, and the previous
\* route is stopped only after the new one is durably current
\* (execute_call_effect's StopLeg and AbortLegReplacement); and no attempt leaves a
\* second destination open behind it (OneDestination).
MakeBeforeBreak ==
    /\ db.call \in {"active", "transferring"} => net.conn[db.gen] # "ended"
    /\ OneDestination

\* An active call gets its media back: once its attempts are over the caller is
\* bridged with the current destination, unless a start was overtaken (its
\* claim then holds up everything behind it) or the destination itself went
\* away (finish_work_operation installs a promotion before the next effect).
ActiveCallsResume ==
    db.call = "active" ~> \/ bridged = db.gen \/ db.call # "active"
                          \/ overtaken \/ net.conn[db.gen] \notin Established

=============================================================================
