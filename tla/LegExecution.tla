---------------------------- MODULE LegExecution ----------------------------
(***************************************************************************)
(* How one call is carried out: the call actor, its one operation at a     *)
(* time, the admission of the caller and the dialling of the destination,  *)
(* over the durable call of CallRepository and the transports of rvoip.    *)
(*                                                                         *)
(* The call has a remote leg "in" (the caller attaches) and a leg "out"    *)
(* that Bridgefu dials, over SIP or WebRTC, or as an Amazon Connect        *)
(* contact whose cleanup is journaled.  The rows of the outbox are         *)
(* executed one by one: a claimed row whose operation returns an error is  *)
(* not released while the worker lives, and every row behind it waits.     *)
(* Of the rows without an effect (the wait for an attachment, the timers)  *)
(* only the first is kept, as "noop".                                      *)
(*                                                                         *)
(* Source: src/call_service/execution.rs and src/amazon_cleanup.rs; the    *)
(* orchestrator and the Amazon adapter are external.                       *)
(***************************************************************************)
EXTENDS Naturals, Sequences, FiniteSets

CONSTANTS
    Plans,          \* the plans: the kind of destination, the gate, the leg order
    Journaled,      \* whether the Amazon adapter reports to the journal
    MaxTroubles     \* bound on failed reads and hand-overs, refused proofs,
                    \* timed-out consumes, StopContact calls that exhaust their
                    \* retries, crashes, lost leases and shutdowns

ASSUME BoundsAssumption ==
    /\ Plans \subseteq [kind : {"sip", "amazon"},
                         gate : {"parallel", "gated", "early"},
                         order : {<<"in", "out">>, <<"out", "in">>}]
    /\ Journaled \in BOOLEAN
    /\ MaxTroubles \in Nat

Leg == {"in", "out"}
Other(l) == IF l = "in" THEN "out" ELSE "in"
StopOf(l) == IF l = "in" THEN "stop_in" ELSE "stop_out"

VARIABLES
    plan,       \* the plan: its gate is "parallel", "gated" (the caller is
                \* attached, the destination dialled, the caller answered) or
                \* "early" (a browser is answered to supply the context)
    db,         \* the durable call: call, leg, bound, rows, claim, armed, due, ref
    net,        \* the transports: conn, ev, contact, journal, retained, failures
    actor,      \* "none", "running" or "graceful"
    held,       \* the bindings of the actor
    cache,      \* the leg states of those bindings
    cancelled,  \* setup_cancel
    terminal,   \* what the actor knows of the call's end
    queue,      \* pending_work: "row" (the claimed row) and "deadline"
    op,         \* the running work operation and where it stands
    snap,       \* the bindings it was started with
    handler,    \* "idle", or "cancel" after a source's end was committed
    adm,        \* the caller's admission
    bridged,    \* bridge_id
    up,         \* the process is running
    faults,     \* the failed reads and hand-overs
    stops       \* the other troubles

vars == <<plan, db, net, actor, held, cache, cancelled, terminal, queue, op,
          snap, handler, adm, bridged, up, faults, stops>>

acting == <<held, cache, cancelled, terminal, queue, op, snap, handler, adm, bridged>>

-----------------------------------------------------------------------------
(***************************************************************************)
(* The durable call: what a committed command makes of it.                 *)
(***************************************************************************)
AllOver(ls) == \A l \in Leg : ls[l] = "over"

Finalize(d) ==
    [d EXCEPT !.call = "done", !.leg = [l \in Leg |-> "over"],
              !.armed = "none", !.due = FALSE]

\* begin_ending: every leg that is not over is asked to stop, in the order of
\* the plan; arm tells whether the command carries the ending deadline.
BeginEnding(d, arm) ==
    LET asked(l) == IF d.leg[l] \in {"over", "ending"} THEN <<>> ELSE <<StopOf(l)>>
    IN  [d EXCEPT !.call = "ending",
                  !.leg = [l \in Leg |-> IF @[l] = "over" THEN "over" ELSE "ending"],
                  !.armed = IF arm THEN "ending" ELSE "none", !.due = FALSE,
                  !.rows = @ \o (IF d.call = "active" THEN <<"unbridge">> ELSE <<>>)
                             \o asked(plan.order[1]) \o asked(plan.order[2])]

Accepts(d, l, s) ==
    /\ d.call # "done"
    /\ d.call = "ending" => d.leg[l] = "ending"
    /\ d.leg[l] \in CASE s = "signaling" -> {"pending", "awaiting"}
                      [] s = "connected" -> {"signaling"}
                      [] s = "over" -> {"pending", "awaiting", "signaling",
                                        "connected", "ending"}

\* SetLegState and SourceTerminatedBeforeAnswer, once accepted.
Report(d, l, s) ==
    LET e == [d EXCEPT !.leg[l] = s]
    IN  CASE s = "over" /\ d.call = "ending" -> IF AllOver(e.leg) THEN Finalize(e) ELSE e
          [] s = "over" /\ d.call # "ending" -> BeginEnding(e, FALSE)
          [] s = "connected" /\ (\A m \in Leg : e.leg[m] = "connected") ->
                [e EXCEPT !.call = "active", !.armed = "none", !.due = FALSE,
                          !.rows = @ \o <<"bridge">>]
          [] OTHER -> e

\* commit_binding_state and fail_unowned_proven_admission: a report that the
\* call does not accept any more changes nothing.
TryReport(d, l, s) == IF Accepts(d, l, s) THEN Report(d, l, s) ELSE d

\* ensure_ending_deadline.
EnsureEndingDeadline(d) ==
    IF d.call = "ending" /\ d.armed = "none" THEN [d EXCEPT !.armed = "ending"] ELSE d

-----------------------------------------------------------------------------
(***************************************************************************)
(* The transports.  A route of the destination that is live is a contact   *)
(* for Amazon Connect; the journal keeps the authority to stop it from     *)
(* before its media setup until StopContact succeeded.                     *)
(***************************************************************************)
\* The routes whose peer has been reached: dialled, or answered.
Live == {"live", "up"}

\* resolve: the row is deleted after StopContact succeeded.
Resolve(n) == [n EXCEPT !.contact = "closed", !.journal = FALSE, !.retained = FALSE]

\* The adapter's StopContact: it succeeds, or the adapter retains the contact.
StopContact(n) ==
    {Resolve(n)} \cup
    (IF n.failures + faults + stops < MaxTroubles
     THEN {[n EXCEPT !.retained = TRUE, !.failures = @ + 1]} ELSE {})

StopsContact(n) == IF n.contact = "open" THEN StopContact(n) ELSE {n}

\* end_connection of the connections of ls: an answered one that the actor
\* owns reports its end.
Gone(n, ls) ==
    [n EXCEPT
        !.conn = [l \in Leg |-> IF l \in ls /\ @[l] # "none" THEN "gone" ELSE @[l]],
        !.ev = [l \in Leg |-> IF l \in ls \cap held /\ n.conn[l] \in Live
                              THEN Append(@[l], "ended") ELSE @[l]]]

EndConnections(n, ls) ==
    IF "out" \in ls /\ n.conn["out"] \in Live THEN StopsContact(Gone(n, ls))
    ELSE {Gone(n, ls)}

\* prepared.abort() and a dropped preparation: nothing was sent.
Abort(n) == [n EXCEPT !.conn["out"] = "gone"]

\* retain: the observer commits the contact before its media setup.
Activated(n) ==
    [n EXCEPT !.conn["out"] = "live",
              !.contact = IF plan.kind = "amazon" THEN "open" ELSE @,
              !.journal = plan.kind = "amazon" /\ Journaled]

-----------------------------------------------------------------------------
Init ==
    /\ plan \in Plans
    /\ db = [call |-> "connecting",
             leg |-> [l \in Leg |-> IF l = "in" THEN "awaiting" ELSE "pending"],
             bound |-> {}, rows |-> <<"noop", "start">>, claim |-> FALSE,
             armed |-> "setup", due |-> FALSE, ref |-> FALSE]
    /\ net = [conn |-> [l \in Leg |-> "none"], ev |-> [l \in Leg |-> <<>>],
              contact |-> "none", journal |-> FALSE, retained |-> FALSE,
              failures |-> 0]
    /\ actor = "none" /\ held = {} /\ cache = [l \in Leg |-> "none"]
    /\ cancelled = FALSE /\ terminal = FALSE
    /\ queue = <<>> /\ op = "idle" /\ snap = {} /\ handler = "idle"
    /\ adm = "none" /\ bridged = FALSE
    /\ up = TRUE /\ faults = 0 /\ stops = 0

\* A new actor takes over the durable bindings; it is not terminal before it
\* has handled the work that it was spawned for.
Spawned ==
    IF actor = "none"
    THEN actor' = "running" /\ terminal' = FALSE /\ cancelled' = FALSE
    ELSE UNCHANGED <<actor, terminal, cancelled>>

Bindings == IF actor = "none" THEN db.bound ELSE held
States == [l \in Leg |-> IF actor # "none" THEN cache[l]
                        ELSE IF l \in db.bound THEN db.leg[l] ELSE "none"]

CanFault == net.failures + faults + stops < MaxTroubles

-----------------------------------------------------------------------------
(***************************************************************************)
(* The caller's admission.                                                 *)
(***************************************************************************)
\* A proof that fails before the attachment is consumed: no principal, no bound
\* routing context, a hint that names nothing, or a call that is over.  The
\* caller is rejected and nothing durable is left.
ProofRejected ==
    /\ up /\ actor # "graceful" /\ adm = "none" /\ CanFault
    /\ adm' = "over"
    /\ net' = [net EXCEPT !.conn["in"] = "gone"]
    /\ stops' = stops + 1
    /\ UNCHANGED <<plan, db, actor, held, cache, cancelled, terminal, queue, op,
                   snap, handler, bridged, up, faults>>

\* consume_inbound_attachment in the proof task: the leg is bound and its
\* signaling committed before the actor hears of it.
ConsumeAttachment ==
    /\ up /\ actor # "graceful" /\ adm = "none"
    /\ db.call = "connecting" /\ db.leg["in"] = "awaiting"
    /\ db' = [Report(db, "in", "signaling") EXCEPT !.bound = @ \cup {"in"}]

AttachmentConsumed ==
    /\ ConsumeAttachment
    /\ adm' = "proven"
    /\ net' = [net EXCEPT !.conn["in"] = "offered"]
    /\ UNCHANGED <<plan, actor, held, cache, cancelled, terminal, queue, op,
                   snap, handler, bridged, up, faults, stops>>

\* setup_timeout drops the call after its commit: the caller is rejected and
\* the leg stays bound to a route nobody holds.
ConsumeUnanswered ==
    /\ ConsumeAttachment /\ CanFault
    /\ adm' = "over"
    /\ net' = [net EXCEPT !.conn["in"] = "gone"]
    /\ stops' = stops + 1
    /\ UNCHANGED <<plan, actor, held, cache, cancelled, terminal, queue, op,
                   snap, handler, bridged, up, faults>>

\* fail_unowned_proven_admission: the caller is rejected and its leg fails; the
\* call's actor, if it has one, is not told.
FailUnowned ==
    /\ adm' = "over"
    /\ db' = TryReport(db, "in", "over")
    /\ net' = Gone(net, {"in"})
    /\ UNCHANGED <<actor, held, cache, terminal, cancelled>>

\* A gateway's admission whose staged control or receipt fails after the consume.
ReceiptUndelivered ==
    /\ up /\ adm = "proven" /\ CanFault
    /\ FailUnowned
    /\ faults' = faults + 1
    /\ UNCHANGED <<plan, queue, op, snap, handler, bridged, up, stops>>

\* The bindings after queue_admission.
QueueAdmission == Bindings \cup {"in"}

\* register_proven_admission and queue_admission, or no actor may take it.
RegisterProvenAdmission ==
    /\ up /\ adm = "proven"
    /\ \/ /\ actor # "graceful" /\ handler = "idle"
          /\ Spawned
          /\ cache' = [States EXCEPT !["in"] = "signaling"]
          /\ held' = QueueAdmission
          /\ adm' = "queued"
          /\ UNCHANGED <<db, net>>
          /\ UNCHANGED faults
       \/ /\ actor = "graceful" \/ CanFault
          /\ faults' = IF actor = "graceful" THEN faults ELSE faults + 1
          /\ FailUnowned
    /\ UNCHANGED <<plan, queue, op, snap, handler, bridged, up, stops>>

\* admission_is_ready_for_answer: a named route answers its caller when the
\* destination is connected; "early" is a browser that supplies the context.
AdmissionIsReady ==
    plan.gate = "gated" => "out" \in held /\ cache["out"] = "connected"

CanAnswer == actor = "running" /\ adm = "queued" /\ AdmissionIsReady

\* work_is_ready: a named route dials when its caller is attached.
WorkIsReady(w) ==
    w = "row" /\ Head(db.rows) = "start" /\ plan.gate # "parallel" => "in" \in held

ReadyWork == {i \in DOMAIN queue : WorkIsReady(queue[i])}

OperationIdle == op = "idle" /\ adm # "activating"

\* The top of the loop starts an operation before it waits again.
MustStart ==
    /\ actor # "none" /\ handler = "idle"
    /\ \/ terminal /\ adm = "queued"
       \/ OperationIdle /\ (CanAnswer \/ ReadyWork # {})

Waits == actor # "none" /\ handler = "idle" /\ ~MustStart

\* start_next_admission.
StartNextAdmission ==
    /\ handler = "idle" /\ OperationIdle /\ CanAnswer /\ ~terminal
    /\ adm' = "activating"
    /\ UNCHANGED <<plan, db, net, actor, held, cache, cancelled, terminal, queue,
                   op, snap, handler, bridged, up, faults, stops>>

\* reject_pending_admissions: the leg fails, the connection is ended, and the
\* actor keeps the binding.
RejectsPending(d) == IF adm = "queued" THEN TryReport(d, "in", "over") ELSE d
RejectedNet(n) == IF adm = "queued" THEN Gone(n, {"in"}) ELSE n
RejectedAdm == IF adm = "queued" THEN "over" ELSE adm

\* A terminal actor rejects what is still pending.
RejectPendingAdmissions ==
    /\ actor # "none" /\ handler = "idle" /\ adm = "queued" /\ terminal
    /\ db' = RejectsPending(db) /\ net' = RejectedNet(net) /\ adm' = RejectedAdm
    /\ UNCHANGED <<plan, actor, held, cache, cancelled, terminal, queue, op, snap,
                   handler, bridged, up, faults, stops>>

\* activate_admission: the caller is answered and routed into the session.
ActivateAdmission ==
    /\ adm = "activating" /\ net.conn["in"] = "offered"
    /\ net' = [net EXCEPT !.conn["in"] = "up", !.ev["in"] = Append(@, "connected")]
    /\ adm' = "accepted"
    /\ UNCHANGED <<plan, db, actor, held, cache, cancelled, terminal, queue, op,
                   snap, handler, bridged, up, faults, stops>>

\* finish_admission_operation of a failed activation: the caller's end is
\* committed as such, any other failure fails the leg.
ActivationFails ==
    /\ adm = "activating" /\ Waits
    /\ adm' = "over"
    /\ IF net.conn["in"] = "gone"
       THEN /\ db' = TryReport(db, "in", "over")
            /\ handler' = "cancel"
            /\ UNCHANGED <<net, terminal>>
       ELSE /\ db' = TryReport(db, "in", "over")
            /\ terminal' = (db'.call = "done")
            /\ net' = Gone(net, {"in"})
            /\ UNCHANGED handler
    /\ UNCHANGED <<plan, actor, held, cache, cancelled, queue, op, snap, bridged,
                   up, faults, stops>>

\* handle_pending_admission_termination: the caller gave up before the answer.
PendingAdmissionTerminated ==
    /\ Waits /\ adm = "queued" /\ net.conn["in"] = "gone"
    /\ db' = TryReport(db, "in", "over")
    /\ adm' = "over" /\ handler' = "cancel"
    /\ UNCHANGED <<plan, net, actor, held, cache, cancelled, terminal, queue, op,
                   snap, bridged, up, faults, stops>>

-----------------------------------------------------------------------------
(***************************************************************************)
(* Operational events.                                                     *)
(***************************************************************************)
\* stop_ending_peers: the other bindings whose leg is durably ending.
EndingPeers(d, l) == {m \in held \cap d.bound : m # l /\ d.leg[m] = "ending"}

\* converge_durable_binding_states.
Converged(d) == [l \in Leg |-> IF l \in held \cap d.bound THEN d.leg[l] ELSE cache[l]]

\* What follows the commit of the caller's end: setup is cancelled, the peers
\* are ended and the ending deadline is armed.
CancelAfterSourceEnd ==
    /\ handler = "cancel" /\ handler' = "idle"
    /\ cancelled' = TRUE
    /\ terminal' = (db.call = "done")
    /\ net' \in EndConnections(net, EndingPeers(db, "in"))
    /\ db' = EnsureEndingDeadline(db)
    /\ cache' = Converged(db)
    /\ UNCHANGED <<plan, actor, held, queue, op, snap, adm, bridged, up, faults, stops>>

\* The actor takes the next event of a connection; one whose read fails, or
\* that no binding knows, is dropped.
EventLost(l) ==
    /\ Waits /\ net.ev[l] # <<>>
    /\ l \in held => CanFault
    /\ net' = [net EXCEPT !.ev[l] = Tail(@)]
    /\ faults' = IF l \in held THEN faults + 1 ELSE faults
    /\ UNCHANGED <<plan, db, actor, acting, up, stops>>

SourceEndsBeforeAnswer(l) ==
    /\ l = "in" /\ Head(net.ev[l]) = "ended"
    /\ db.call = "connecting" /\ db.leg[l] \in {"awaiting", "signaling"}

HandleSourceEnd(l) ==
    /\ Waits /\ l \in held /\ net.ev[l] # <<>> /\ SourceEndsBeforeAnswer(l)
    /\ net' = [net EXCEPT !.ev[l] = Tail(@)]
    /\ db' = TryReport(db, l, "over")
    /\ handler' = "cancel"
    /\ UNCHANGED <<plan, actor, held, cache, cancelled, terminal, queue, op, snap,
                   adm, bridged, up, faults, stops>>

\* classify_operational_event.
Classify(s, e) ==
    CASE e = "connected" /\ s = "signaling" -> "connected"
      [] e = "connected" /\ s \in {"pending", "awaiting"} -> "over"
      [] e = "connected" /\ s \in {"ending", "over"} -> "end"
      [] e = "ended" /\ s # "over" -> "over"
      [] OTHER -> "ignore"

\* handle_operational: commit what the event means for the leg and look after
\* the other leg.
HandleOperational(l) ==
    LET what == Classify(db.leg[l], Head(net.ev[l]))
        taken == [net EXCEPT !.ev[l] = Tail(@)]
        d == EnsureEndingDeadline(TryReport(db, l, what))
        ended == what = "over" /\ d.call = "ending"
        reject == d.call = "ending"
    IN  /\ Waits /\ l \in held /\ net.ev[l] # <<>> /\ ~SourceEndsBeforeAnswer(l)
        /\ CASE what = "ignore" ->
                  /\ net' = taken /\ terminal' = (db.call = "done")
                  /\ UNCHANGED <<db, cache, adm>>
             [] what = "end" ->
                  /\ net' \in EndConnections(taken, {l})
                  /\ UNCHANGED <<db, cache, adm, terminal>>
             [] OTHER ->
                  /\ db' = IF reject THEN RejectsPending(d) ELSE d
                  /\ terminal' = (db'.call = "done")
                  /\ cache' = [cache EXCEPT ![l] = what]
                  /\ adm' = IF reject THEN RejectedAdm ELSE adm
                  /\ \E n \in EndConnections(taken, IF ended THEN EndingPeers(d, l) ELSE {}) :
                        net' = IF reject THEN RejectedNet(n) ELSE n
        /\ UNCHANGED <<plan, actor, held, cancelled, queue, op, snap, handler,
                       bridged, up, faults, stops>>

-----------------------------------------------------------------------------
(***************************************************************************)
(* Work: the supervisor claims it, the actor executes one item at a time.  *)
(***************************************************************************)
\* The supervisor claims the first row of the call and routes it.
ClaimRow ==
    /\ up /\ actor # "graceful"
    /\ db.rows # <<>> /\ ~db.claim
    /\ Spawned /\ held' = Bindings /\ cache' = States
    /\ db' = [db EXCEPT !.claim = TRUE]
    /\ queue' = Append(queue, "row")
    /\ UNCHANGED <<plan, net, op, snap, handler, adm, bridged, up, faults, stops>>

\* A deadline is due.  The hand-over of a proven admission inside the process
\* takes less than the ending timeout.
ClaimDeadline ==
    /\ up /\ actor # "graceful"
    /\ db.armed # "none" /\ ~db.due
    /\ db.armed = "ending" => adm # "proven"
    /\ Spawned /\ held' = Bindings /\ cache' = States
    /\ db' = [db EXCEPT !.due = TRUE]
    /\ queue' = Append(queue, "deadline")
    /\ UNCHANGED <<plan, net, op, snap, handler, adm, bridged, up, faults, stops>>

Without(i) == SubSeq(queue, 1, i - 1) \o SubSeq(queue, i + 1, Len(queue))

\* start_next_work: the first ready item, with a copy of the bindings.
StartNextWork ==
    /\ actor # "none" /\ handler = "idle" /\ OperationIdle /\ ~CanAnswer
    /\ ~(terminal /\ adm = "queued")
    /\ \E i \in ReadyWork :
          /\ \A j \in ReadyWork : i <= j
          /\ queue' = Without(i)
          /\ op' = queue[i]
    /\ snap' = held
    /\ UNCHANGED <<plan, db, net, actor, held, cache, cancelled, terminal, handler,
                   adm, bridged, up, faults, stops>>

Goes(pc) == op' = pc /\ UNCHANGED <<plan, actor, held, cache, cancelled, terminal,
                                    queue, snap, handler, adm, bridged, up, stops>>

\* An operation that cannot read the call gives its claim up.
WorkUnread ==
    /\ op \in {"row", "deadline"} /\ CanFault
    /\ faults' = faults + 1
    /\ Goes("finish") /\ UNCHANGED <<db, net>>

\* commit_deadline: a deadline that was disarmed or replaced changes nothing.
CommitDeadline ==
    /\ op = "deadline"
    /\ db' = CASE ~db.due -> db
               [] db.due /\ db.armed = "setup" -> BeginEnding(db, TRUE)
               [] db.due /\ db.armed = "ending" -> Finalize(db)
    /\ Goes("finish") /\ UNCHANGED <<net, faults>>

\* execute_call_effect: setup work of a call that is cancelled or no longer
\* connecting, work without an effect, and the rows a terminal call retires.
Retired(row) ==
    \/ row = "noop"
    \/ row = "start" /\ (cancelled \/ db.call # "connecting")
    \/ row = "bridge" /\ db.call = "done"

ExecuteCallEffect ==
    /\ op = "row"
    /\ Goes(IF Retired(Head(db.rows)) THEN "settle" ELSE Head(db.rows))
    /\ UNCHANGED <<db, net, faults>>

\* The exits of a start: cancelled work is settled, other work fails the leg
\* ("fail") or gives its claim up ("finish").
GivesUp(pc) == Goes(IF cancelled THEN "settle" ELSE pc)

\* The initial context arrives before setup expires or is cancelled.
ContextArrives == ~cancelled

\* StartLeg up to the prepared route: the session opens, the route is prepared.
PrepareOutbound ==
    /\ op = "start"
    /\ \/ /\ ContextArrives
          /\ net' = [net EXCEPT !.conn["out"] = "prepared"]
          /\ Goes("bind")
       \/ GivesUp("fail") /\ UNCHANGED net
    /\ UNCHANGED <<db, faults>>

\* Fault: a refused bind leaves the prepared route behind.
BindRefusedKeeps == UNCHANGED net

BindRefused == net' = Abort(net)

\* bind_outbound_connection; refused, the route is aborted, and unless setup
\* is known to be cancelled the claim is given up.
BindOutboundConnection ==
    /\ op = "bind"
    /\ IF ~cancelled /\ db.call = "connecting" /\ db.leg["out"] = "pending"
       THEN db' = [db EXCEPT !.bound = @ \cup {"out"}] /\ Goes("signal") /\ UNCHANGED net
       ELSE BindRefused /\ GivesUp("finish") /\ UNCHANGED db
    /\ UNCHANGED faults

\* commit_binding_state(Signaling) between the bind and the registration.
CommitSignaling ==
    /\ op = "signal"
    /\ IF Accepts(db, "out", "signaling")
       THEN db' = Report(db, "out", "signaling") /\ Goes("register") /\ UNCHANGED net
       ELSE /\ net' = Abort(net)
            /\ GivesUp("finish") /\ UNCHANGED db
    /\ UNCHANGED faults

\* register_outbound.
RegisterOutbound == ~cancelled

\* The actor takes the prepared route over, or refuses and it is aborted.
RegisterPreparedOutbound ==
    /\ op = "register" /\ actor # "none" /\ handler = "idle"
    /\ \/ /\ RegisterOutbound /\ actor = "running"
          /\ held' = held \cup {"out"}
          /\ cache' = [cache EXCEPT !["out"] = "signaling"]
          /\ adm' = IF CanAnswer /\ ~terminal THEN "activating" ELSE adm
          /\ op' = "commit" /\ UNCHANGED net
       \/ /\ net' = Abort(net)
          /\ op' = IF cancelled THEN "settle" ELSE "fail"
          /\ UNCHANGED <<held, cache, adm>>
    /\ UNCHANGED <<plan, db, actor, cancelled, terminal, queue, snap, handler,
                   bridged, up, faults, stops>>

\* prepared.commit(): activated, failed or timed out with or without a route,
\* or dropped because setup was cancelled.
CommitPrepared ==
    /\ op = "commit"
    /\ \/ /\ ~cancelled /\ net.conn["out"] = "prepared"
          /\ net' = Activated(net) /\ Goes("activated")
       \/ /\ net' \in {net, Abort(net)} \cup
                      (IF net.conn["out"] = "prepared" THEN {Activated(net)} ELSE {})
          /\ net'.conn["out"] # "prepared"
          /\ GivesUp("fail")
    /\ UNCHANGED <<db, faults>>

EndActivated == net' \in EndConnections(net, {"out"})

\* After activation: a setup cancelled meanwhile ends the route again.
FinishActivation ==
    /\ op = "activated"
    /\ IF cancelled THEN EndActivated ELSE UNCHANGED net
    /\ Goes("settle_ref")
    /\ UNCHANGED <<db, faults>>

\* BridgeMedia needs both routes of the snapshot.
BridgeMedia ==
    /\ op = "bridge"
    /\ \/ /\ snap = Leg /\ \A l \in Leg : net.conn[l] = "up"
          /\ bridged' = TRUE /\ op' = "settle"
       \/ bridged' = bridged /\ op' = "fail_bridge"
    /\ UNCHANGED <<plan, db, net, actor, held, cache, cancelled, terminal, queue,
                   snap, handler, adm, up, faults, stops>>

\* UnbridgeMedia: a failure is reported and not repeated.
UnbridgeMedia ==
    /\ op = "unbridge"
    /\ bridged' \in {FALSE, bridged} /\ op' = "settle"
    /\ UNCHANGED <<plan, db, net, actor, held, cache, cancelled, terminal, queue,
                   snap, handler, adm, up, faults, stops>>

\* StopLeg: the persisted contact is stopped and the route of the snapshot is
\* ended; the row is settled whatever came of it.
StopLeg(l) ==
    /\ op = StopOf(l)
    /\ \E n \in IF l = "out" /\ db.ref THEN StopsContact(net) ELSE {net} :
          net' \in IF l \in snap THEN EndConnections(n, {l}) ELSE {n}
    /\ Goes("settle") /\ UNCHANGED <<db, faults>>

\* Fault: the row is settled in one transaction, its follow-up in another
\* that a conflict drops.
FollowUpDropped(d, l) == d

\* build_effect_follow_up of FailLeg.
FollowUp(d, l) == Report(d, l, "over")

Settled(d) == [d EXCEPT !.rows = Tail(@), !.claim = FALSE]

\* The leg that a failed bridge fails: the first one, unless the operation has
\* a binding of the second one only.
BridgeFails ==
    IF plan.order[1] \notin snap /\ plan.order[2] \in snap THEN plan.order[2] ELSE plan.order[1]

\* reconcile_effect_with_references: result, reference and follow-up in one
\* transaction.  A follow-up that the call refuses refuses all of it.
ReconcileEffect ==
    /\ op \in {"settle", "settle_ref", "fail", "fail_bridge"}
    /\ LET l == IF op = "fail" THEN "out" ELSE BridgeFails
       IN  db' = CASE op = "settle" -> Settled(db)
                   [] op = "settle_ref" -> [Settled(db) EXCEPT !.ref = plan.kind = "amazon"]
                   [] OTHER -> IF Accepts(db, l, "over") THEN Settled(FollowUp(db, l)) ELSE db
    /\ Goes("finish") /\ UNCHANGED <<net, faults>>

\* finish_work_operation: the actor reads the call again, learns of its end
\* and rejects the caller of an ending call.
FinishWork ==
    /\ op = "finish" /\ actor # "none" /\ handler = "idle"
    /\ op' = "idle"
    /\ \/ /\ LET e == IF db.call = "ending" THEN RejectsPending(db) ELSE db
             IN  /\ db' = EnsureEndingDeadline(e)
                 /\ terminal' = (e.call = "done")
          /\ cache' = Converged(db)
          /\ net' = IF db.call = "ending" THEN RejectedNet(net) ELSE net
          /\ adm' = IF db.call = "ending" THEN RejectedAdm ELSE adm
          /\ UNCHANGED faults
       \/ /\ CanFault /\ faults' = faults + 1
          /\ UNCHANGED <<db, terminal, cache, net, adm>>
    /\ UNCHANGED <<plan, actor, held, cancelled, queue, snap, handler, bridged, up, stops>>

-----------------------------------------------------------------------------
(***************************************************************************)
(* The end of the actor and of the process.                                *)
(***************************************************************************)
Idle ==
    /\ handler = "idle" /\ OperationIdle
    /\ adm \notin {"queued", "activating"} /\ queue = <<>>

ActorGone ==
    /\ actor' = "none" /\ held' = {} /\ cache' = [l \in Leg |-> "none"]
    /\ terminal' = FALSE /\ cancelled' = FALSE /\ queue' = <<>> /\ op' = "idle"
    /\ snap' = {} /\ handler' = "idle" /\ bridged' = FALSE

Silent(n) == [n EXCEPT !.ev = [l \in Leg |-> <<>>]]

\* cleanup with durable writes: the legs that are not over fail.
Cleanup ==
    /\ db' = LET first == IF "in" \in held THEN TryReport(db, "in", "over") ELSE db
             IN  IF "out" \in held THEN TryReport(first, "out", "over") ELSE first
    /\ \E n \in EndConnections(net, held) : net' = Silent(n)
    /\ ActorGone

\* A terminal actor that is idle, and was quiet long enough, retires.
Retire ==
    /\ actor = "running" /\ terminal /\ Idle /\ adm # "proven"
    /\ Cleanup
    /\ UNCHANGED <<plan, adm, up, faults, stops>>

\* shutdown: a drain, no more claims, then Graceful to the actors.
GracefulShutdown ==
    /\ up /\ actor = "running" /\ CanFault
    /\ Waits
    /\ db' = RejectsPending(db) /\ net' = RejectedNet(net) /\ adm' = RejectedAdm
    /\ actor' = "graceful" /\ stops' = stops + 1
    /\ UNCHANGED <<plan, held, cache, cancelled, terminal, queue, op, snap, handler,
                   bridged, up, faults>>

GracefulExit ==
    /\ actor = "graceful" /\ Idle /\ adm # "proven"
    /\ Cleanup
    /\ up' = FALSE
    /\ UNCHANGED <<plan, adm, faults, stops>>

Lost == IF adm \in {"proven", "queued", "activating"} THEN "over" ELSE adm

\* enter_authority_loss: routes are ended, nothing is written.
AuthorityLost ==
    /\ up /\ CanFault /\ stops' = stops + 1
    /\ \E n \in EndConnections(net, Leg) : net' = Silent(n)
    /\ ActorGone
    /\ adm' = Lost /\ up' = FALSE
    /\ UNCHANGED <<plan, db, faults>>

\* The process dies: its routes go with it, a contact and its row do not.
ProcessEnds ==
    /\ net' = [Silent(Gone(net, Leg)) EXCEPT !.retained = FALSE]
    /\ ActorGone
    /\ adm' = Lost /\ up' = FALSE
    /\ UNCHANGED <<plan, db, faults>>

Crash == up /\ CanFault /\ stops' = stops + 1 /\ ProcessEnds

\* The bound of shutdown: actors that did not drain are aborted.
ShutdownTimesOut == actor = "graceful" /\ ProcessEnds /\ UNCHANGED stops

\* Fault: a restart trusts the persisted references only.
NoReconcile(n) == {n}

\* reconcile: a starting process stops every contact of the journal.
Reconcile(n) == IF n.journal THEN StopsContact(n) ELSE {n}

\* recover_restarted_call: every leg that is not over fails, in order.
RecoverRestartedCall(d) ==
    LET first == TryReport(d, plan.order[1], "over")
    IN  TryReport(first, plan.order[2], "over")

\* The rows that are executed without any binding: an ambiguous start is
\* recovered and stopped, a persisted contact is stopped by its StopLeg.
StartupStops(d) ==
    \/ \E i \in DOMAIN d.rows :
          d.rows[i] = "start" /\ plan.kind = "amazon" /\ "out" \in d.bound
    \/ d.ref /\ \E i \in DOMAIN d.rows : d.rows[i] = "stop_out"

\* recover_before_listeners fails: a repository call, or recover_contact of an
\* ambiguous start.  The start of the process is given up; the call may have
\* been advanced, and its rows wait for the next start.
RecoveryFails ==
    /\ ~up
    /\ db' \in {db, RecoverRestartedCall([db EXCEPT !.claim = FALSE, !.due = FALSE])}
    /\ net' \in Reconcile(net)
    /\ UNCHANGED <<plan, actor, acting, up, faults, stops>>

\* recover_before_listeners, after the journal of the previous process.
RecoverBeforeListeners ==
    /\ ~up /\ up' = TRUE
    /\ LET d == RecoverRestartedCall([db EXCEPT !.claim = FALSE, !.due = FALSE])
       IN  /\ db' = [d EXCEPT !.rows = <<>>]
           /\ \E n \in Reconcile(net) :
                 net' \in IF StartupStops(d) THEN StopsContact(n) ELSE {n}
    /\ UNCHANGED <<plan, actor, acting, faults, stops>>

\* reconcile_runtime_pending: only contacts whose stop already failed.
ReconcileRuntimePending ==
    /\ up /\ net.retained
    /\ net' = Resolve(net)
    /\ UNCHANGED <<plan, db, actor, acting, up, faults, stops>>

-----------------------------------------------------------------------------
(***************************************************************************)
(* The caller, the destination and the client.                             *)
(***************************************************************************)
CallerHangsUp ==
    /\ net.conn["in"] \in {"offered", "up"}
    /\ net' = Gone(net, {"in"})
    /\ UNCHANGED <<plan, db, actor, acting, up, faults, stops>>

DestinationAnswers ==
    /\ net.conn["out"] = "live"
    /\ net' = [net EXCEPT !.conn["out"] = "up", !.ev["out"] = Append(@, "connected")]
    /\ UNCHANGED <<plan, db, actor, acting, up, faults, stops>>

DestinationHangsUp ==
    /\ net.conn["out"] \in Live
    /\ net' = LET n == Gone(net, {"out"}) IN IF n.contact = "open" THEN Resolve(n) ELSE n
    /\ UNCHANGED <<plan, db, actor, acting, up, faults, stops>>

\* The client ends the call; its command carries the ending deadline.
EndCall ==
    /\ up /\ db.call \in {"connecting", "active"}
    /\ db' = BeginEnding(db, TRUE)
    /\ UNCHANGED <<plan, net, actor, acting, up, faults, stops>>

Operate ==
    \/ WorkUnread \/ CommitDeadline \/ ExecuteCallEffect
    \/ PrepareOutbound \/ BindOutboundConnection \/ CommitSignaling
    \/ RegisterPreparedOutbound \/ CommitPrepared \/ FinishActivation
    \/ BridgeMedia \/ UnbridgeMedia \/ (\E l \in Leg : StopLeg(l))
    \/ ReconcileEffect \/ FinishWork

Act ==
    \/ StartNextAdmission \/ RejectPendingAdmissions \/ PendingAdmissionTerminated
    \/ ActivateAdmission \/ ActivationFails \/ CancelAfterSourceEnd
    \/ \E l \in Leg : EventLost(l) \/ HandleSourceEnd(l) \/ HandleOperational(l)
    \/ StartNextWork

Supervise ==
    \/ RegisterProvenAdmission \/ ClaimRow \/ ClaimDeadline
    \/ RecoverBeforeListeners \/ ReconcileRuntimePending

Next ==
    \/ Act \/ Operate \/ Supervise \/ Retire \/ GracefulExit
    \/ ProofRejected \/ AttachmentConsumed \/ ConsumeUnanswered \/ ReceiptUndelivered
    \/ GracefulShutdown \/ ShutdownTimesOut \/ AuthorityLost \/ Crash \/ RecoveryFails
    \/ CallerHangsUp \/ DestinationAnswers \/ DestinationHangsUp \/ EndCall

\* Actor and operation tasks are scheduled, the supervisor polls for work and
\* deadlines, a stopped process is started again.  No step leads back to an
\* earlier state, so one condition on all of them is enough.
Fairness ==
    WF_vars(Act \/ Operate \/ Supervise \/ Retire \/ GracefulExit \/ ShutdownTimesOut)

Spec == Init /\ [][Next]_vars /\ Fairness

-----------------------------------------------------------------------------
(***************************************************************************)
(* Properties.                                                             *)
(***************************************************************************)
LegState == {"pending", "awaiting", "signaling", "connected", "ending", "over"}
Row == {"noop", "start", "bridge", "unbridge", "stop_in", "stop_out"}

\* Where an operation that dials stands, and where one that executes a row does.
Dialling == {"bind", "signal", "register", "commit"}
RowSteps == Row \cup Dialling \cup {"row", "activated", "settle", "settle_ref",
                                   "fail", "fail_bridge"}

DbType ==
    [call : {"connecting", "active", "ending", "done"}, leg : [Leg -> LegState],
     bound : SUBSET Leg, rows : Seq(Row), claim : BOOLEAN,
     armed : {"none", "setup", "ending"}, due : BOOLEAN, ref : BOOLEAN]

NetType ==
    [conn : [Leg -> {"none", "offered", "prepared", "live", "up", "gone"}],
     ev : [Leg -> Seq({"connected", "ended"})], contact : {"none", "open", "closed"},
     journal : BOOLEAN, retained : BOOLEAN, failures : Nat]

TypeOK ==
    /\ plan \in Plans /\ db \in DbType /\ net \in NetType
    /\ actor \in {"none", "running", "graceful"}
    /\ held \subseteq Leg /\ snap \subseteq Leg
    /\ cache \in [Leg -> LegState \cup {"none"}]
    /\ cancelled \in BOOLEAN /\ terminal \in BOOLEAN /\ bridged \in BOOLEAN
    /\ queue \in Seq({"row", "deadline"})
    /\ op \in RowSteps \cup {"idle", "deadline", "finish"}
    /\ handler \in {"idle", "cancel"}
    /\ adm \in {"none", "proven", "queued", "activating", "accepted", "over"}
    /\ up \in BOOLEAN /\ faults \in Nat /\ stops \in Nat

\* Every route has an owner that will end it: a prepared one belongs to the
\* operation that prepared it, a dialled one is durably bound and held by the
\* actor, the caller's is held or on its way to the actor.  The operation
\* binds, commits and registers in three steps between which the call ends.
RoutesAreOwned ==
    /\ net.conn["out"] = "prepared" => op \in Dialling
    /\ net.conn["out"] \in Live => "out" \in held \cap db.bound
    /\ net.conn["in"] \in {"offered", "up"} =>
          "in" \in db.bound /\ ("in" \in held \/ adm = "proven")

\* A named route rings its destination only for an attached caller, and
\* answers the caller only after the destination answered.
AttachThenDial ==
    /\ plan.gate # "parallel" /\ net.conn["out"] \in Live => "in" \in db.bound
    /\ plan.gate = "gated" /\ net.conn["in"] = "up" =>
          "out" \in db.bound /\ db.leg["out"] \notin {"pending", "signaling"}

\* An Amazon contact that no live route holds is in the journal, whatever
\* stopped the process and whether or not StopContact failed.
OpenContactsAreJournaled ==
    Journaled /\ net.contact = "open" /\ net.conn["out"] \notin Live => net.journal

\* Routes have owners and ring in order, whatever ends the call around them, and
\* an Amazon contact outlives its route only in the cleanup journal.
RoutesFollowTheirCall == RoutesAreOwned /\ AttachThenDial /\ OpenContactsAreJournaled

\* A start that waits for a caller that never attached.
StartWaits ==
    /\ \E i \in DOMAIN queue : queue[i] = "row"
    /\ Head(db.rows) = "start" /\ plan.gate # "parallel" /\ "in" \notin held

NoRoutes == \A l \in Leg : net.conn[l] \in {"none", "gone"}

\* A read that fails may hide the end of the call from its actor, and so may
\* an admission that was failed after its consume without an owner.
ReadsWork == faults = 0

\* A call that ends is finalized and its routes are ended, the claims that
\* operations gave up and the dropped events notwithstanding; its contact is
\* stopped and its actor retires unless a start still waits for the caller.
EndedCallsRelease ==
    db.call \in {"ending", "done"} ~>
        (ReadsWork => NoRoutes /\ net.contact # "open" /\ (StartWaits \/ (db.call = "done" /\ actor = "none")))

\* A call with both legs connected gets its media bridge or ends.
ActiveCallsBridge ==
    db.call = "active" ~> (ReadsWork => bridged \/ db.call # "active")
=============================================================================
