---------------------------- MODULE CallBindings ----------------------------
(***************************************************************************)
(* Who may speak for a leg: single-use attachments, connection bindings    *)
(* and the control outbox of src/src/persistence/memory.rs, composed with  *)
(* the call aggregate they follow.  Every action is one repository         *)
(* transaction on one call; those that commit a command contain the step   *)
(* of CallAggregate for it, and retire_inactive_bindings is part of each.  *)
(*                                                                         *)
(* Abstracted data.  A call has one attachment per leg and generation      *)
(* (active_attachments), so the bearer token is that pair, and an expired  *)
(* token or principal is a refusal, the absence of a step.  A route has    *)
(* one principal, so principal_bindings holds the pairs of                 *)
(* connection_owners the other way round.  The claims of the StartLeg      *)
(* effect are in CallRepository; here the effect was emitted and its bind  *)
(* receipt (outbound_binding_results) makes a second bind a conflict.      *)
(***************************************************************************)
EXTENDS CallAggregate, Sequences

CONSTANTS
    Conn,                \* rvoip connection identifiers
    MaxFence,            \* bound: incarnations of the call's worker
    MaxControl           \* bound: control effects of one binding

ASSUME BindingBoundsAssumption == MaxFence \in Nat \ {0} /\ MaxControl \in Nat

\* LegEndpoint::worker_capability: no provider leg is signaled by its remote side.
ASSUME ProviderLegsAssumption ==
    \A l \in Leg : InitialKind[l] = "telnyx" => Initiator[l] = "bridgefu"

VARIABLES
    fence,               \* the registered fence of the call's worker
    lease,               \* assignment.lease.fence of the call
    attachment,          \* [Key -> Attachment]
    candidate,           \* [Leg -> Candidate], what inspect_attachment returned
    bindings,            \* StoredCall::bindings, a set of links
    owners,              \* connection_owners, a set of links
    used,                \* used_connection_ids
    receipts,            \* outbound_binding_results, the legs bound by StartLeg
    control              \* [Key -> Seq(Control)], control_outbox in sequence order

tables == <<attachment, candidate, bindings, owners, used, receipts, control>>
bvars == <<vars, fence, lease, tables>>

Key == Leg \X Generation
Fence == 0 .. MaxFence
Link == [conn : Conn, leg : Leg, generation : Generation]
KeyOf(link) == <<link.leg, link.generation>>

\* AttachmentRow; by is the fence of the issuing worker.
Attachment == [purpose : {"none", "public", "provider"}, by : Fence,
               consumed : BOOLEAN, revoked : BOOLEAN]

\* AttachmentCandidate; generation 0 is none.
Candidate == [generation : 0 .. MaxBinding, version : Nat, by : Fence]

\* ControlOutboxRecord; by is the claimant's fence, 0 when its claim expired.
Control == [status : {"ready", "claimed", "done", "retired"}, by : Fence]

BInit ==
    /\ Init
    /\ fence = 1 /\ lease = 1
    /\ attachment = [k \in Key |-> [purpose |-> "none", by |-> 0,
                                    consumed |-> FALSE, revoked |-> FALSE]]
    /\ candidate = [l \in Leg |-> [generation |-> 0, version |-> 0, by |-> 0]]
    /\ bindings = {} /\ owners = {} /\ used = {} /\ receipts = {}
    /\ control = [k \in Key |-> <<>>]

-----------------------------------------------------------------------------
\* ensure_call_worker: the registered incarnation owns the unreleased call.
EnsureCallWorker == lease = fence /\ callState \notin Terminal

Bound(l) == \E b \in bindings : b.leg = l /\ b.generation = binding[l]

Unfinished(row) == row.status \in {"ready", "claimed"}

PendingReplacement(l, g) ==
    \E r \in replacement : r.leg = l /\ r.kind = "telnyx" /\ r.pending = g

(***************************************************************************)
(* retire_inactive_bindings and insert_attachments, as functions of the    *)
(* aggregate a command decided, the primed one.                            *)
(***************************************************************************)

\* The leg states that keep the binding of their current generation.
Served == {"signaling", "connected", "held", "ending"}

RetiredLinks(links) ==
    {b \in links : ~(/\ binding'[b.leg] = b.generation
                     /\ legState'[b.leg] \in Served)}

\* Provider attachments of neither the current nor the pending generation.
RetiredAttachments ==
    {k \in Key : /\ attachment[k].purpose = "provider"
                 /\ binding'[k[1]] # k[2]
                 /\ \A r \in replacement' : <<r.leg, r.pending>> # k}

\* Fault: a control effect an executor already holds is left to it.
RetireUnclaimed(rows) ==
    [i \in DOMAIN rows |->
        IF rows[i].status = "ready" THEN [status |-> "retired", by |-> 0]
        ELSE rows[i]]

RetireControl(rows) ==
    [i \in DOMAIN rows |->
        IF Unfinished(rows[i]) THEN [status |-> "retired", by |-> 0]
        ELSE rows[i]]

\* The attachments CallService issues with the effects of a decision.
Issued(k) ==
    LET emitted(name) == k \in Named(effects', {name}) IN
    CASE emitted("AwaitLegAttachment") -> "public"
      [] emitted("StartLeg") /\ kind'[k[1]] = "telnyx" -> "provider"
      [] emitted("StartLegReplacement")
            /\ (\E r \in replacement' : r.leg = k[1] /\ r.kind = "telnyx")
         -> "provider"
      [] OTHER -> "none"

\* What an applied command does to the tables, where rows, links and owned
\* are the attachments, bindings and owners its transaction already wrote.
Applied(rows, links, owned) ==
    LET left == links \ RetiredLinks(links)
    IN  /\ bindings' = left
        /\ owners' = {o \in owned \ RetiredLinks(links) :
                         KeyOf(o) \in RetiredAttachments => o \in left}
        /\ attachment' =
              [k \in Key |->
                  IF Issued(k) # "none"
                  THEN [purpose |-> Issued(k), by |-> lease,
                        consumed |-> FALSE, revoked |-> FALSE]
                  ELSE [rows[k] EXCEPT !.revoked = @ \/ k \in RetiredAttachments]]
        /\ control' =
              [k \in Key |->
                  IF binding'[k[1]] = k[2] /\ legState'[k[1]] \in {"connected", "held"}
                  THEN control[k] ELSE RetireControl(control[k])]
        /\ UNCHANGED <<fence, lease>>

\* commit_command_in_state with nothing written before it.
Commits ==
    /\ EnsureCallWorker
    /\ Applied(attachment, bindings, owners)
    /\ UNCHANGED <<candidate, used, receipts>>

-----------------------------------------------------------------------------
(***************************************************************************)
(* Restart: register_worker, then claim_restart_calls, which revokes the   *)
(* unconsumed attachments and lets the claims of the call expire.          *)
(***************************************************************************)
\* WorkerFence::next.
CanRegister == fence < MaxFence

RegisterWorker ==
    /\ CanRegister
    /\ fence' = fence + 1
    /\ UNCHANGED <<vars, lease, tables>>

ClaimRestartCall ==
    /\ lease < fence /\ callState \notin Terminal
    /\ lease' = fence
    /\ attachment' = [k \in Key |-> [attachment[k] EXCEPT
                         !.revoked = @ \/ (attachment[k].purpose # "none"
                                           /\ ~attachment[k].consumed)]]
    /\ control' = [k \in Key |-> [i \in DOMAIN control[k] |->
                      [control[k][i] EXCEPT !.by = 0]]]
    /\ UNCHANGED <<vars, fence, candidate, bindings, owners, used, receipts>>

-----------------------------------------------------------------------------
(***************************************************************************)
(* Attachments.                                                            *)
(***************************************************************************)

\* The leg state an attachment may be used in.
Attachable(l, g) ==
    \/ /\ attachment[<<l, g>>].purpose = "public"
       /\ binding[l] = g /\ Initiator[l] = "remote"
       /\ legState[l] = "awaiting_attach"
    \/ /\ attachment[<<l, g>>].purpose = "provider"
       /\ \/ /\ binding[l] = g /\ Initiator[l] = "bridgefu"
             /\ kind[l] = "telnyx" /\ legState[l] \in {"pending", "signaling"}
          \/ PendingReplacement(l, g)

\* inspect_attachment: a read whose answer is used in a later transaction.
InspectAttachment(l, g) ==
    /\ EnsureCallWorker
    /\ LET row == attachment[<<l, g>>]
       IN  row.by = fence /\ ~row.consumed /\ ~row.revoked
    /\ Attachable(l, g)
    /\ candidate' = [candidate EXCEPT ![l] =
                        [generation |-> g, version |-> version, by |-> fence]]
    /\ UNCHANGED <<vars, fence, lease, attachment, bindings, owners, used,
                   receipts, control>>

\* The expected_version of the command is the inspected one.
SameVersion(cand) == cand.version = version

\* used_connection_ids.
NeverUsed(c) == c \notin used

\* The command of the attachment; a stale generation is ignored by decide.
Attach(l, g, at) ==
    \/ attachment[<<l, g>>].purpose = "public" /\ LegAdvances(l, g, "signaling", at)
    \/ attachment[<<l, g>>].purpose = "provider" /\ ProviderMediaAttached(l, g, at)

\* consume_attachment: bind the connection and commit the command.
ConsumeAttachment(l, c, at) ==
    LET cand == candidate[l]
        g == cand.generation
        row == attachment[<<l, g>>]
        link == [conn |-> c, leg |-> l, generation |-> g]
        rows == [attachment EXCEPT ![<<l, g>>].consumed = TRUE]
        links == IF PendingReplacement(l, g) THEN bindings ELSE bindings \cup {link}
    IN  /\ g # 0
        /\ EnsureCallWorker /\ cand.by = fence
        /\ row.by = cand.by /\ ~row.consumed /\ ~row.revoked
        /\ NeverUsed(c)
        /\ \A o \in owners : KeyOf(o) # <<l, g>>
        /\ PendingReplacement(l, g) \/ \A b \in bindings : b.leg # l
        /\ SameVersion(cand)
        /\ IF binding[l] = g \/ PendingReplacement(l, g)
           THEN Attach(l, g, at) /\ Applied(rows, links, owners \cup {link})
           ELSE /\ attachment' = rows /\ bindings' = links
                /\ owners' = owners \cup {link}
                /\ UNCHANGED <<vars, fence, lease, control>>
        /\ used' = used \cup {c}
        /\ UNCHANGED <<candidate, receipts>>

-----------------------------------------------------------------------------
(***************************************************************************)
(* Outbound connections and the reports of bound ones.                     *)
(***************************************************************************)

\* bind_outbound_connection, before the leg's signaling is committed.
BindOutboundConnection(l, c) ==
    LET link == [conn |-> c, leg |-> l, generation |-> binding[l]]
    IN  /\ EnsureCallWorker
        /\ l \notin receipts
        /\ KeyOf(link) \in started
        /\ callState = "connecting" /\ legState[l] = "pending"
        /\ Initiator[l] = "bridgefu" /\ kind[l] # "telnyx"
        /\ \A b \in bindings : b.leg # l
        /\ NeverUsed(c) /\ \A o \in owners : KeyOf(o) # KeyOf(link)
        /\ bindings' = bindings \cup {link} /\ owners' = owners \cup {link}
        /\ used' = used \cup {c}
        /\ receipts' = receipts \cup {l}
        /\ UNCHANGED <<vars, fence, lease, attachment, candidate, control>>

\* commit_bound_connection_state and commit_bound_source_termination: the
\* connection that reports is the one that is bound.  The media connection of
\* a provider leg does not connect it, its callbacks do.
BoundReport(l, at) ==
    \E b \in bindings \cap owners :
        /\ b.leg = l
        /\ \/ kind[l] # "telnyx" /\ LegConnectsCall(l, b.generation, at)
           \/ \E s \in LegState :
                 /\ s = "connected" => kind[l] # "telnyx"
                 /\ LegAdvances(l, b.generation, s, at)
           \/ \E s \in LegState : LegReportsEnd(l, b.generation, s, at)
           \/ \E s \in LegState :
                 SourceTerminatedBeforeAnswer(l, b.generation, s, at)
        /\ Commits

\* The reports that need no connection: a provider's callbacks, the follow-up
\* of StartLeg, and a failure (of an effect, or of a leg a restart lost).
UnboundState(l, s) ==
    \/ s = "failed"
    \/ Initiator[l] = "bridgefu" /\ kind[l] # "telnyx" /\ s \in {"signaling", "connected"}
    \/ kind[l] = "telnyx" /\ s \in {"signaling", "ended"}
    \/ kind[l] = "telnyx" /\ s = "connected" /\ Bound(l)

UnboundReport(l, at) ==
    /\ \/ UnboundState(l, "connected") /\ LegConnectsCall(l, binding[l], at)
       \/ \E s \in LegState : UnboundState(l, s) /\ LegAdvances(l, binding[l], s, at)
       \/ \E s \in LegState : UnboundState(l, s) /\ LegReportsEnd(l, binding[l], s, at)
       \/ ProviderMediaStarted(l, binding[l], at)
    /\ Commits

\* Every other command, a rejected replacement included.
OtherCommand(at) ==
    /\ \/ Request(at)
       \/ \E d \in 0 .. MaxDeadline :
            \/ Timeout(d, at) \/ FinishTransfer(d, at)
            \/ \E g \in Generation : FinishLegReplacement(d, g, FALSE, at)
    /\ Commits

\* apply_replacement_connection, after retire_inactive_bindings removed the
\* link of the previous generation.
Promoted(links, link) == {b \in links : b.leg # link.leg} \cup {link}

\* commit_service_command with replacement_connection: a provider's pending
\* connection is the attached one, any other is fresh.
PromoteReplacement(c, d, at) ==
    \E r \in replacement :
        LET link == [conn |-> c, leg |-> r.leg, generation |-> r.pending]
            left == bindings \ RetiredLinks(bindings)
        IN  /\ EnsureCallWorker
            /\ \E b \in bindings : b.leg = r.leg /\ b.generation = r.previous
            /\ IF r.kind = "telnyx"
               THEN link \in owners /\ ~attachment[KeyOf(link)].revoked
               ELSE NeverUsed(c)
            /\ FinishLegReplacement(d, r.pending, TRUE, at)
            /\ bindings' = Promoted(left, link)
            /\ owners' = (owners \ RetiredLinks(bindings)) \cup {link}
            /\ attachment' = [k \in Key |-> [attachment[k] EXCEPT
                                 !.revoked = @ \/ k \in RetiredAttachments]]
            /\ control' = [k \in Key |-> IF k[1] = r.leg
                                         THEN RetireControl(control[k])
                                         ELSE control[k]]
            /\ used' = used \cup {c}
            /\ UNCHANGED <<fence, lease, candidate, receipts>>

-----------------------------------------------------------------------------
(***************************************************************************)
(* The control outbox.                                                     *)
(***************************************************************************)
Listening(l) == legState[l] \in {"connected", "held"}

\* enqueue_control with the next sequence of the current binding.
EnqueueControl(l) ==
    LET k == <<l, binding[l]>>
    IN  /\ EnsureCallWorker
        /\ Listening(l) /\ Bound(l)
        /\ Len(control[k]) < MaxControl
        /\ control' = [control EXCEPT ![k] = Append(@, [status |-> "ready", by |-> 0])]
        /\ UNCHANGED <<vars, fence, lease, attachment, candidate, bindings,
                       owners, used, receipts>>

\* control_outbox_claimable.
ControlClaimable(l, i) ==
    LET rows == control[<<l, binding[l]>>] IN
    /\ Listening(l)
    /\ rows[i].status = "ready" \/ (rows[i].status = "claimed" /\ rows[i].by = 0)
    /\ \A j \in 1 .. i - 1 : ~Unfinished(rows[j])

SetControl(l, i, row) ==
    /\ control' = [control EXCEPT ![<<l, binding[l]>>][i] = row]
    /\ UNCHANGED <<vars, fence, lease, attachment, candidate, bindings,
                   owners, used, receipts>>

\* claim_control_effects for one row.
ClaimControlEffect(l, i) ==
    /\ EnsureCallWorker
    /\ ControlClaimable(l, i)
    /\ SetControl(l, i, [status |-> "claimed", by |-> fence])

\* reconcile_effect_result_in_state for a control effect.
ReconcileControl(l, i) ==
    /\ EnsureCallWorker
    /\ control[<<l, binding[l]>>][i] = [status |-> "claimed", by |-> fence]
    /\ Listening(l) /\ Bound(l)
    /\ SetControl(l, i, [status |-> "done", by |-> 0])

\* execute_control_effect: the digits are sent to the connection, the provider or the
\* gateway that holds the leg's bound generation; a failure, a timeout and a stale
\* binding are results like any other, and no result is tried again.
ExecuteControlEffect(l, i) == ReconcileControl(l, i)

ControlWork(l) ==
    \/ EnqueueControl(l)
    \/ \E i \in 1 .. Len(control[<<l, binding[l]>>]) :
          ClaimControlEffect(l, i) \/ ExecuteControlEffect(l, i)

BNext ==
    \/ RegisterWorker \/ ClaimRestartCall
    \/ \E l \in Leg :
        \/ \E g \in Generation : InspectAttachment(l, g)
        \/ \E c \in Conn :
            \/ BindOutboundConnection(l, c)
            \/ \E at \in Time : ConsumeAttachment(l, c, at)
        \/ \E at \in Time : BoundReport(l, at) \/ UnboundReport(l, at)
        \/ ControlWork(l)
    \/ \E at \in Time :
        \/ OtherCommand(at)
        \/ \E c \in Conn, d \in 0 .. MaxDeadline : PromoteReplacement(c, d, at)

BSpec == BInit /\ [][BNext]_bvars

-----------------------------------------------------------------------------
\* A durable binding always names the current generation of its leg, one per
\* leg, and the leg is one a connection may speak for (or is about to signal
\* on its new outbound connection): no race of an attachment with a rotation,
\* a replacement or the end of the call leaves a stale connection bound.
BindingsAreCurrent ==
    /\ \A b \in bindings :
        /\ b.generation = binding[b.leg]
        /\ legState[b.leg] \in Served \cup {"pending"}
    /\ \A b1, b2 \in bindings : b1.leg = b2.leg => b1 = b2

\* The connections that own a route are the bound ones and the attached media
\* connection of the replacement in progress: an aborted, rejected or timed
\* out replacement and a call that ends under one give the ownership back, so
\* a later generation cannot inherit it (retire_inactive_bindings).
OwnersMatch ==
    /\ bindings \subseteq owners
    /\ \A o \in owners \ bindings :
        \E r \in replacement : KeyOf(o) = <<r.leg, r.pending>>

\* A leg that the remote side signals has its current connection bound for as
\* long as it is signaling, connected or held, through rotations, holds and
\* replacements: its hangup can always be reported.
RemoteLegsAreBound ==
    \A l \in Leg :
        Initiator[l] = "remote" /\ legState[l] \in {"signaling", "connected", "held"}
            => Bound(l)

\* A control effect that is still to be sent, or is being sent, is for the
\* current binding of a connected or held leg: what an executor claimed for a
\* leg that has left, or was replaced, is already retired.
ControlTargetsAreLive ==
    \A k \in Key : \A i \in DOMAIN control[k] :
        Unfinished(control[k][i]) =>
            binding[k[1]] = k[2] /\ Listening(k[1])

\* However attachments, reports, rotations, replacements, control effects and
\* a restart interleave, the connection tables agree with the aggregate.
TablesAgree ==
    /\ BindingsAreCurrent /\ OwnersMatch /\ RemoteLegsAreBound
    /\ ControlTargetsAreLive
=============================================================================
