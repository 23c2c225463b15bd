--------------------------- MODULE PrivateEgress ---------------------------
(***************************************************************************)
(* Private egress: a worker asks the gateway that carries a source leg to  *)
(* place the destination leg of the call (src/src/private_egress.rs, its   *)
(* state stores, the gateway proxy of private_egress_stream.rs, and the    *)
(* lifecycle delivery of gateway_forwarding.rs).                           *)
(*                                                                         *)
(* A command has an identifier and a digest over the whole message, its    *)
(* time of issue included.  The gateway keeps a local replay entry, a      *)
(* durable claim and a durable route per target; a route transition is     *)
(* claimed before and completed after the proxy does the work, without the *)
(* lock of the local route cell in between.  The end of the source route,  *)
(* a remote hangup, a lost answer of the store and a crash of the gateway  *)
(* may fall anywhere in between.                                           *)
(*                                                                         *)
(* Abstracted data.  One worker incarnation and one source attachment; a   *)
(* target is a generation of the destination leg.  A response is accepted  *)
(* ("ok") or not ("no").  Identifiers, profiles, codecs and media packets  *)
(* are left out, as is the expiry of finished entries (seven days).  A     *)
(* gateway process is gone before its successor begins an epoch.           *)
(***************************************************************************)
EXTENDS Naturals, Sequences

CONSTANTS
    Target,         \* generations of the destination leg
    MaxEpoch,       \* bound: epochs of the gateway
    MaxFaults,      \* bound: lost store answers and messages sent twice
    MaxSends        \* bound: claims of one start effect

ASSUME EgressAssumption ==
    {MaxEpoch, MaxFaults, MaxSends} \subseteq Nat

VARIABLES
    epoch, draining,
    route,          \* durable [Target -> Route]
    claim,          \* durable [Command -> Claim]
    journal,        \* durable [Target -> Seq([kind, acked, sender])]
    task,           \* [Command -> Task], replay entry and its execution
    cell,           \* [Target -> local RouteRecord, "empty" or "absent"]
    permit,         \* [Target -> who holds the capacity permit]
    proxy,          \* [Target -> PreparedProxyRoute of the handler]
    news,           \* [Target -> what the proxy pump has to publish]
    source,         \* the source route at the gateway
    ending,         \* targets end_source has still to end
    late,           \* targets whose Prepare slipped past the end of source
    spent,          \* the deadline of end_source has passed
    skipped,        \* targets it forgot without ending their native leg
    mail, replies, acks,                    \* messages under way
    worker,         \* [Target -> phase of the start effect]
    sends,          \* [Target -> Nat], digests used for Prepare
    reserved,       \* [Target -> stream admission of the worker]
    heard,          \* [Target -> Nat], lifecycle events the worker took
    faults

durable == <<epoch, route, claim, journal>>
gateway == <<draining, task, cell, permit, proxy, news>>
session == <<source, ending, late, spent, skipped>>
network == <<mail, replies, acks>>
workers == <<worker, sends, reserved, heard>>
egressVars == <<durable, gateway, session, network, workers, faults>>

Op == {"prepare", "activate", "abort", "end", "data"}
Command == Target \X Op
State == {"none", "prepared", "active", "ended", "failed"}
Terminal == {"ended", "failed"}
Route == [state : State, pending : {"none"} \cup Op, recovery : BOOLEAN]
NoRoute == [state |-> "none", pending |-> "none", recovery |-> FALSE]
Claim == [digest : Nat, response : {"none", "flight", "ok", "no"}]
Task == [pc : {"none", "arrived", "claimed", "handling", "handled", "failed",
               "committed", "answer", "done"},
         digest : Nat, result : {"ok", "no"}]
Idle == [pc |-> "none", digest |-> 0, result |-> "no"]

EgressInit ==
    /\ epoch = 1 /\ draining = FALSE
    /\ route = [t \in Target |-> NoRoute]
    /\ claim = [c \in Command |-> [digest |-> 0, response |-> "none"]]
    /\ journal = [t \in Target |-> <<>>]
    /\ task = [c \in Command |-> Idle]
    /\ cell = [t \in Target |-> "absent"]
    /\ permit = [t \in Target |-> "none"]
    /\ proxy = [t \in Target |-> "none"]
    /\ news = [t \in Target |-> "none"]
    /\ source = "up" /\ ending = {} /\ late = {}
    /\ spent = FALSE /\ skipped = {}
    /\ mail = {} /\ replies = {} /\ acks = {}
    /\ worker = [t \in Target |-> "idle"]
    /\ sends = [t \in Target |-> 0]
    /\ reserved = [t \in Target |-> "none"]
    /\ heard = [t \in Target |-> 0]
    /\ faults = 0

Fault == faults < MaxFaults /\ faults' = faults + 1

-----------------------------------------------------------------------------
(* The durable state store (MemoryPrivateEgressStateStore and the scripts  *)
(* of RedisPrivateEgressStateStore).                                       *)

\* claim_route_transition
Claimable(t, expected) ==
    /\ route[t].state = expected
    /\ route[t].pending = "none"
    /\ ~route[t].recovery

\* A transition of a route that a new epoch or the end of the source failed
\* is not its claimer's any more.
Owns(c) == route[c[1]].pending = c[2]

CompleteRoute(t, next) ==
    route' = [route EXCEPT ![t].pending = "none", ![t].state = next]

\* abort_route_transition: a route that never was is removed
AbortRoute(t) == route' = [route EXCEPT ![t].pending = "none"]

LiveRoute(t) == route[t].pending # "none" \/ route[t].state \in {"prepared", "active"}

\* fail_source; begin_epoch does the same and asks for recovery
Failed(recovery) ==
    [t \in Target |->
        IF LiveRoute(t)
        THEN [state |-> "failed", pending |-> "none", recovery |-> recovery]
        ELSE route[t]]

\* append_lifecycle of a state: not while a transition is claimed
StateAppendable(t) ==
    route[t].state \in {"prepared", "active"} /\ route[t].pending = "none"

\* append_lifecycle of progress: also while Activate is under way
ProgressAppendable(t) ==
    route[t].state = "prepared" /\ route[t].pending \in {"none", "activate"}

\* sender: a task delivers the event; there is none when the answer was lost
Appended(t, kind, sender) ==
    journal' = [journal EXCEPT
        ![t] = Append(@, [kind |-> kind, acked |-> FALSE, sender |-> sender])]

Unacked(t) == {i \in DOMAIN journal[t] : ~journal[t][i].acked}

-----------------------------------------------------------------------------
(* PrivateEgressControlClient: the worker's half of a command.             *)

Send(c, digest) ==
    /\ mail' = mail \cup {<<c, digest, 1>>}
    /\ UNCHANGED faults

\* execute_with_staged: a staged send that timed out is repeated on the
\* published path although the first copy may arrive.
SendTwice(c, digest) ==
    /\ Fault
    /\ mail' = mail \cup {<<c, digest, 1>>, <<c, digest, 2>>}

Sends(c, digest) == source = "up" /\ (Send(c, digest) \/ SendTwice(c, digest))

\* execute_private_egress_start_leg: reserve the media admission and send
\* Prepare under the identifier of the effect.  A second claim of the effect
\* issues the command anew, with another time and so another digest.
StartPrepare(t) ==
    /\ worker[t] = "idle" /\ sends[t] < MaxSends
    /\ sends' = [sends EXCEPT ![t] = @ + 1]
    /\ reserved' = [reserved EXCEPT ![t] = "reserved"]
    /\ worker' = [worker EXCEPT ![t] = "preparing"]
    /\ Sends(<<t, "prepare">>, sends'[t])
    /\ UNCHANGED <<durable, gateway, session, replies, acks, heard>>

\* The pending response is gone after a timeout; a late answer is ignored.
Answered(c, result) ==
    /\ <<c, result>> \in replies
    /\ replies' = replies \ {<<c, result>>}

WorkerMoves(t, phase) == worker' = [worker EXCEPT ![t] = phase]
Release(t) == reserved' = [reserved EXCEPT ![t] = "none"]

PrepareAnswered(t) ==
    /\ worker[t] = "preparing"
    /\ \/ /\ Answered(<<t, "prepare">>, "ok")
          /\ WorkerMoves(t, "prepared") /\ UNCHANGED reserved
       \/ /\ Answered(<<t, "prepare">>, "no")
          /\ WorkerMoves(t, "over") /\ Release(t)
    /\ UNCHANGED <<durable, gateway, session, mail, acks, sends, heard, faults>>

\* No answer in time (the leg fails, without an Abort), or the actor lost
\* its claim and the effect is claimed again.
PrepareUnanswered(t) ==
    /\ worker[t] = "preparing"
    /\ WorkerMoves(t, "over") \/ WorkerMoves(t, "idle")
    /\ Release(t)
    /\ UNCHANGED <<durable, gateway, session, network, sends, heard, faults>>

\* The destination media attached: bind, then Activate.
StartActivate(t) ==
    /\ worker[t] = "prepared" /\ reserved[t] = "bound"
    /\ WorkerMoves(t, "activating")
    /\ Sends(<<t, "activate">>, 1)
    /\ UNCHANGED <<durable, gateway, session, replies, acks, sends, reserved, heard>>

ActivateAnswered(t) ==
    /\ worker[t] = "activating"
    /\ Answered(<<t, "activate">>, "ok")
    /\ WorkerMoves(t, "up")
    /\ UNCHANGED <<durable, gateway, session, mail, acks, sends, reserved, heard, faults>>

\* best_effort_private_egress_finish: setup failed, timed out or was
\* cancelled (Abort), or the leg is stopped (End).  Its answer is not used.
Finish(t, op) ==
    /\ \/ op = "abort" /\ worker[t] \in {"preparing", "prepared", "activating"}
       \/ op = "end" /\ worker[t] \in {"activating", "up"}
    /\ WorkerMoves(t, "over") /\ Release(t)
    /\ Sends(<<t, op>>, 1)
    /\ UNCHANGED <<durable, gateway, session, replies, acks, sends, heard>>

SendData(t) ==
    /\ worker[t] = "up" /\ task[<<t, "data">>].pc = "none"
    /\ \A m \in mail : m[1] # <<t, "data">>
    /\ Sends(<<t, "data">>, 1)
    /\ UNCHANGED <<durable, gateway, session, replies, acks, workers>>

-----------------------------------------------------------------------------
(* PrivateEgressCommandService: replay entry, durable claim, transition,   *)
(* proxy, completion, answer.                                              *)

Moves(c, pc) == task' = [task EXCEPT ![c].pc = pc]
Results(c, pc, result) == task' = [task EXCEPT ![c].pc = pc, ![c].result = result]

\* Only the answers a start effect waits for, or may wait for again, matter.
Awaited(c) ==
    \/ c[2] = "prepare" /\ worker[c[1]] \in {"idle", "preparing"}
    \/ c[2] = "activate" /\ worker[c[1]] = "activating"
Reply(c, result) ==
    replies' = IF source = "up" /\ Awaited(c) THEN replies \cup {<<c, result>>}
               ELSE replies

\* PrivateEgressCommandService::execute until the durable claim.  A copy of
\* a command in flight waits for it and gives up after operation_timeout.
\* The durable claim refuses another digest as the replay entry does.
Arrive(c, m) ==
    /\ source = "up" /\ m \in mail /\ m[1] = c
    /\ \/ /\ \/ task[c].pc = "none"
             \/ task[c].pc = "done" /\ task[c].digest = m[2]   \* swept by its age
          /\ task' = [task EXCEPT ![c] = [Idle EXCEPT !.pc = "arrived", !.digest = m[2]]]
          /\ UNCHANGED replies
       \/ /\ task[c].pc # "none" /\ task[c].digest # m[2]
          /\ Reply(c, "no") /\ UNCHANGED task
       \/ /\ task[c].pc = "done" /\ task[c].digest = m[2]
          /\ Reply(c, task[c].result) /\ UNCHANGED task
       \/ /\ task[c].pc \notin {"none", "done"} /\ task[c].digest = m[2]
          /\ Reply(c, "no") /\ UNCHANGED task
    /\ mail' = mail \ {m}
    /\ UNCHANGED <<durable, session, acks, workers, faults,
                   draining, cell, permit, proxy, news>>

\* claim_command finds the identifier used, by a process that is gone or
\* before an answer of the store was lost.
ClaimTaken(c) == claim[c].response # "none"

\* execute: the durable claim of the identifier
ClaimCommand(c) ==
    /\ task[c].pc = "arrived"
    /\ \/ /\ ~ClaimTaken(c)
          /\ claim' = [claim EXCEPT ![c] = [digest |-> task[c].digest, response |-> "flight"]]
          /\ Moves(c, "claimed")
          /\ UNCHANGED <<draining, replies, faults>>
       \/ /\ ~ClaimTaken(c) /\ Fault                    \* the answer is lost
          /\ claim' = [claim EXCEPT ![c] = [digest |-> task[c].digest, response |-> "flight"]]
          /\ task' = [task EXCEPT ![c] = Idle] /\ Reply(c, "no")
          /\ UNCHANGED draining
       \/ /\ ClaimTaken(c) /\ claim[c].digest # task[c].digest
          /\ task' = [task EXCEPT ![c] = Idle] /\ Reply(c, "no")
          /\ UNCHANGED <<claim, draining, faults>>
       \/ /\ ClaimTaken(c) /\ claim[c].digest = task[c].digest
          /\ claim[c].response \in {"ok", "no"}
          /\ Results(c, "done", claim[c].response) /\ Reply(c, claim[c].response)
          /\ UNCHANGED <<claim, draining, faults>>
       \/ /\ ClaimTaken(c) /\ claim[c].digest = task[c].digest
          /\ claim[c].response = "flight"
          /\ Results(c, "done", "no") /\ Reply(c, "no") /\ draining' = TRUE
          /\ UNCHANGED <<claim, faults>>
    /\ UNCHANGED <<session, mail, acks, workers, epoch, route, journal,
                   cell, permit, proxy, news>>

\* The local state an operation starts from, and the one it leads to
Expected(op) ==
    CASE op = "prepare" -> {"absent", "empty"}
      [] op \in {"activate", "abort"} -> {"prepared"}
      [] op = "end" -> {"prepared", "active"}
      [] op = "data" -> {"active"}
Leads(op) ==
    CASE op = "prepare" -> "prepared"
      [] op \in {"activate", "data"} -> "active"
      [] op \in {"abort", "end"} -> "ended"
DurableState(local) == IF local \in {"absent", "empty"} THEN "none" ELSE local

\* The routes of other sources may hold every permit of the gateway.
Full(op) == op = "prepare"
Without(t) == IF cell[t] = "empty" THEN [cell EXCEPT ![t] = "absent"] ELSE cell

Freed(t) == [permit EXCEPT ![t] = "none"]

\* execute_once until the proxy is called: the cell is locked over the
\* checks and the durable claim of the transition.
Begin(c) ==
    LET t == c[1]  op == c[2]
        allowed == /\ cell[t] \in Expected(op)
                   /\ ~(draining /\ op = "prepare")
        claimable == allowed /\ Claimable(t, DurableState(cell[t]))
    IN
    /\ task[c].pc = "claimed"
    /\ \/ /\ \/ (~claimable \/ Full(op)) /\ UNCHANGED faults   \* a full gateway aborts its claim
             \/ Fault                    \* assert_epoch fails
          /\ Results(c, "answer", "no")
          /\ UNCHANGED <<route, cell, permit>>
       \/ /\ claimable /\ Fault       \* claimed, the answer lost: no abort follows
          /\ route' = [route EXCEPT ![t].pending = op]
          /\ Results(c, "answer", "no")
          /\ UNCHANGED <<cell, permit>>
       \/ /\ claimable
          /\ route' = [route EXCEPT ![t].pending = op]
          /\ cell' = IF op = "prepare" THEN [cell EXCEPT ![t] = "empty"] ELSE cell
          /\ permit' = IF op = "prepare" THEN [permit EXCEPT ![t] = "task"] ELSE permit
          /\ task' = [task EXCEPT ![c].pc = "handling",
                                  ![c].result = "no"]
          /\ UNCHANGED faults
    /\ UNCHANGED <<session, network, workers, epoch, claim, journal, draining,
                   proxy, news>>

\* The proxy's lock is held for the whole of activate.
Locked(t) == task[<<t, "activate">>].pc = "handling" /\ proxy[t] = "prepared"

\* PrivateEgressGatewayProxyHandler::prepare: the native leg is staged and
\* the private media route opened to the worker's reservation.
HandlePrepare(t) ==
    LET c == <<t, "prepare">> IN
    /\ task[c].pc = "handling"
    /\ \/ /\ proxy[t] = "none" /\ ~draining
          /\ source = "up" /\ reserved[t] = "reserved"
          /\ proxy' = [proxy EXCEPT ![t] = "prepared"]
          /\ reserved' = [reserved EXCEPT ![t] = "bound"]
          /\ Moves(c, "handled")
       \/ /\ Moves(c, "failed") /\ UNCHANGED <<proxy, reserved>>
    /\ UNCHANGED <<durable, session, network, faults, draining, cell, permit,
                   news, worker, sends, heard>>

\* activate: commit of the native leg.  Its own failure takes the route
\* away; a timeout of the service around it drops it half way ("stale").
HandleActivate(t) ==
    LET c == <<t, "activate">> IN
    /\ task[c].pc = "handling"
    /\ \/ /\ proxy[t] = "prepared" /\ UNCHANGED faults
          /\ proxy' = [proxy EXCEPT ![t] = "active"] /\ Moves(c, "handled")
       \/ /\ proxy[t] = "prepared" /\ UNCHANGED faults
          /\ proxy' = [proxy EXCEPT ![t] = "none"] /\ Moves(c, "failed")
       \/ /\ proxy[t] = "prepared" /\ Fault
          /\ proxy' = [proxy EXCEPT ![t] = "stale"] /\ Moves(c, "failed")
       \/ /\ proxy[t] # "prepared" /\ UNCHANGED <<proxy, faults>>
          /\ Moves(c, "failed")
    /\ UNCHANGED <<durable, session, network, workers, draining, cell, permit, news>>

\* finish of Abort and End: the route is taken away, whatever the adapter says
HandleFinish(t, op) ==
    LET c == <<t, op>> IN
    /\ op \in {"abort", "end"} /\ task[c].pc = "handling"
    /\ ~Locked(t)
    /\ proxy' = [proxy EXCEPT ![t] = "none"]
    /\ news' = [news EXCEPT ![t] = "none"]
    /\ \/ Moves(c, "handled")
       \/ proxy[t] \in {"prepared", "active"} /\ Moves(c, "failed")
    /\ UNCHANGED <<durable, session, network, workers, faults, draining, cell, permit>>

\* control: DTMF and data messages
HandleData(t) ==
    LET c == <<t, "data">> IN
    /\ task[c].pc = "handling"
    /\ (proxy[t] = "active" /\ Moves(c, "handled")) \/ Moves(c, "failed")
    /\ UNCHANGED <<durable, session, network, workers, faults, draining, cell,
                   permit, proxy, news>>

\* execute_once after a failure: abort_route_transition.  A transition the
\* end of the source took away makes the service drain.
AfterFailure(c) ==
    LET t == c[1] IN
    /\ task[c].pc = "failed"
    /\ \/ /\ Owns(c) /\ AbortRoute(t)
          /\ cell' = IF c[2] = "prepare" THEN Without(t) ELSE cell
          /\ UNCHANGED <<draining, faults>>
       \/ /\ ~Owns(c) /\ draining' = TRUE
          /\ UNCHANGED <<route, cell, faults>>
       \/ /\ Owns(c) /\ Fault /\ draining' = TRUE
          /\ (AbortRoute(t) \/ UNCHANGED route)
          /\ UNCHANGED cell
    /\ permit' = IF c[2] = "prepare" THEN Freed(t) ELSE permit
    /\ Results(c, "answer", "no")
    /\ UNCHANGED <<session, network, workers, epoch, claim, journal, proxy, news>>

\* the End command execute_once gives itself
CleanedUp(t) == [proxy EXCEPT ![t] = "none"]

\* complete_route_transition, and the cleanup when it fails
Commit(c) ==
    LET t == c[1] IN
    /\ task[c].pc = "handled"
    /\ \/ /\ Owns(c) /\ CompleteRoute(t, Leads(c[2]))
          /\ Moves(c, "committed")
          /\ UNCHANGED <<draining, cell, permit, proxy, news, faults>>
       \/ /\ \/ ~Owns(c) /\ UNCHANGED <<route, faults>>
             \/ Owns(c) /\ Fault /\ (CompleteRoute(t, Leads(c[2])) \/ UNCHANGED route)
          /\ draining' = TRUE
          /\ proxy' = CleanedUp(t)
          /\ news' = [news EXCEPT ![t] = "none"]
          /\ cell' = IF c[2] = "prepare" THEN Without(t) ELSE cell
          /\ permit' = IF c[2] = "prepare" THEN Freed(t) ELSE permit
          /\ Results(c, "answer", "no")
    /\ UNCHANGED <<session, network, workers, epoch, claim, journal>>

\* fault: the cell is not looked at again
SettledAnyway(c) == TRUE

\* The cell is locked again and must be as it was.  A Prepare whose cell the
\* end of the source took away fills the orphan it holds and answers yes.
Settled(c) ==
    IF c[2] = "prepare" THEN cell[c[1]] \in {"absent", "empty"}
    ELSE cell[c[1]] \in Expected(c[2])

Settle(c) ==
    LET t == c[1] IN
    /\ task[c].pc = "committed"
    /\ \/ /\ ~Settled(c) /\ draining' = TRUE
          /\ permit' = IF c[2] = "prepare" THEN Freed(t) ELSE permit
          /\ Results(c, "answer", "no") /\ UNCHANGED cell
       \/ /\ Settled(c)
          /\ Results(c, "answer", "ok")
          /\ cell' = IF cell[t] = "absent" THEN cell ELSE [cell EXCEPT ![t] = Leads(c[2])]
          /\ permit' = IF cell[t] = "absent" \/ Leads(c[2]) = "ended" THEN Freed(t)
                       ELSE [permit EXCEPT ![t] = "record"]
          /\ UNCHANGED draining
    /\ UNCHANGED <<durable, session, network, workers, faults, proxy, news>>

\* complete_command, the replay entry and the answer
AnswerCommand(c) ==
    /\ task[c].pc = "answer"
    /\ \/ /\ claim' = [claim EXCEPT ![c].response = task[c].result]
          /\ Moves(c, "done") /\ Reply(c, task[c].result)
          /\ UNCHANGED <<draining, faults>>
       \/ /\ Fault /\ draining' = TRUE
          /\ UNCHANGED claim \/ claim' = [claim EXCEPT ![c].response = task[c].result]
          /\ Results(c, "done", "no") /\ Reply(c, "no")
    /\ UNCHANGED <<session, mail, acks, workers, epoch, route, journal,
                   cell, permit, proxy, news>>

-----------------------------------------------------------------------------
(* The proxy pump, the lifecycle journal and its delivery.                 *)

\* spawn_proxy_pump: a provisional answer while Activate is under way
Progress(t) ==
    /\ Locked(t) /\ journal[t] = <<>> /\ source = "up"
    /\ cell[t] = "prepared" /\ ProgressAppendable(t)
    /\ Appended(t, "progress", TRUE)
    /\ UNCHANGED <<epoch, route, claim, gateway, session, network, workers, faults>>

\* The remote side hangs up; or the media closes first and the pump ends
\* without a word.
Hangup(t) ==
    /\ proxy[t] = "active" /\ news[t] = "none"
    /\ \E n \in {"hungup", "silent"} : news' = [news EXCEPT ![t] = n]
    /\ UNCHANGED <<durable, session, network, workers, faults,
                   draining, task, cell, permit, proxy>>

\* publish_private_egress_lifecycle and record_lifecycle, tried again until
\* the transition is over.  When the answer of the journal is lost the
\* record stays, and every repetition finds its own event (ReplayConflict).
Publish(t) ==
    /\ news[t] = "hungup" /\ source = "up"
    /\ cell[t] \in {"prepared", "active"} /\ StateAppendable(t)
    /\ route' = [route EXCEPT ![t].state = "ended"]
    /\ \/ /\ Appended(t, "ended", TRUE)
          /\ news' = [news EXCEPT ![t] = "told"]
          /\ cell' = [cell EXCEPT ![t] = "ended"]
          /\ permit' = Freed(t)
          /\ UNCHANGED faults
       \/ /\ Fault /\ Appended(t, "ended", FALSE)
          /\ news' = [news EXCEPT ![t] = "lost"]
          /\ UNCHANGED <<cell, permit>>
    /\ UNCHANGED <<epoch, claim, session, network, workers, draining, task, proxy>>

\* The pump stops trying after operation_timeout.
GiveUp(t) ==
    /\ news[t] = "hungup" /\ ~(source = "up" /\ StateAppendable(t))
    /\ news' = [news EXCEPT ![t] = "silent"]
    /\ UNCHANGED <<durable, session, network, workers, faults,
                   draining, task, cell, permit, proxy>>

\* deliver_private_egress_lifecycle sends what is not acknowledged in order;
\* accept_lifecycle takes the next event once and acknowledges repetitions.
Deliver(t) ==
    /\ source = "up"
    /\ \E i \in Unacked(t) : journal[t][i].sender
    /\ \E i \in Unacked(t) :
         /\ i <= heard[t] + 1
         /\ <<t, i>> \notin acks
         /\ heard' = [heard EXCEPT ![t] = IF i = @ + 1 THEN i ELSE @]
         /\ acks' = acks \cup {<<t, i>>}
         /\ worker' = IF journal[t][i].kind = "ended" THEN [worker EXCEPT ![t] = "over"]
                      ELSE worker
    /\ UNCHANGED <<durable, gateway, session, mail, replies, sends, reserved, faults>>

\* fault: the route of an acknowledged end stays
KeepsProxy(t, i) == proxy

\* observe_lifecycle, retire_terminal: after the durable acknowledgement
RetireTerminal(t, i) ==
    IF journal[t][i].kind = "ended" /\ ~journal[t][i].acked
    THEN [proxy EXCEPT ![t] = "none"] ELSE proxy

\* acknowledge_lifecycle
AckArrives(t, i) ==
    /\ source = "up" /\ <<t, i>> \in acks
    /\ acks' = acks \ {<<t, i>>}
    /\ journal' = [journal EXCEPT ![t][i].acked = TRUE]
    /\ proxy' = RetireTerminal(t, i)
    /\ UNCHANGED <<epoch, route, claim, session, mail, replies, workers, faults,
                   draining, task, cell, permit, news>>

-----------------------------------------------------------------------------
(* The end of the source route, of the process, and the next epoch.        *)

\* RouteInner::fail, the end of the session, or a delivery that timed out:
\* the route is retired and no message passes any more.
RetireSource ==
    /\ source = "up"
    /\ source' = "retired"
    /\ mail' = {} /\ replies' = {} /\ acks' = {}
    /\ UNCHANGED <<durable, gateway, ending, late, spent, skipped, workers, faults>>

InFlight(t) == task[<<t, "prepare">>].pc \notin {"none", "answer", "done"}

\* end_source_until: fail_source, then every route of the source, all under
\* one deadline.  When the store does not answer only the local routes are
\* known, and when it does not answer in time the deadline is spent too.
FailSource ==
    /\ source = "retired"
    /\ source' = "ending"
    /\ late' = {t \in Target : InFlight(t)}
    /\ \/ /\ route' = Failed(FALSE)
          /\ ending' = {t \in Target : LiveRoute(t) \/ cell[t] # "absent"}
          /\ UNCHANGED <<draining, spent, faults>>
       \/ /\ Fault /\ draining' = TRUE
          /\ spent' \in BOOLEAN
          /\ ending' = {t \in Target : cell[t] # "absent"}
          /\ (route' = Failed(FALSE) \/ UNCHANGED route)
    /\ UNCHANGED <<epoch, claim, journal, task, cell, permit, proxy, news,
                   skipped, network, workers>>

\* The store, a lock of a cell or an End took until the deadline.
DeadlinePasses ==
    /\ source = "ending" /\ ~spent /\ Fault
    /\ spent' = TRUE
    /\ UNCHANGED <<durable, gateway, source, ending, late, skipped, network, workers>>

\* fault: a terminal record is taken for a route that is gone
EndsLive(t) == cell[t] \in {"absent", "prepared", "active"}

\* needs_end: a cell without record is left to its Prepare
NeedsEnd(t) == cell[t] # "empty"

\* One route of the source: End at the proxy, which waits for an activation
\* and is given up or not begun once the deadline is spent; the record and its
\* permit go either way.
EndTarget(t) ==
    /\ source = "ending" /\ t \in ending
    /\ \/ /\ NeedsEnd(t) /\ ~spent /\ ~Locked(t)
          /\ proxy' = [proxy EXCEPT ![t] = "none"]
          /\ news' = [news EXCEPT ![t] = "none"]
          /\ UNCHANGED skipped
       \/ /\ NeedsEnd(t) /\ spent
          /\ skipped' = skipped \cup {t}
          /\ UNCHANGED <<proxy, news>>
       \/ ~NeedsEnd(t) /\ UNCHANGED <<proxy, news, skipped>>
    /\ cell' = [cell EXCEPT ![t] = "absent"]
    /\ permit' = IF permit[t] = "record" THEN Freed(t) ELSE permit
    /\ ending' = ending \ {t}
    /\ UNCHANGED <<durable, source, late, spent, draining, task, network, workers, faults>>

SourceEnded ==
    /\ source = "ending" /\ ending = {}
    /\ source' = "ended"
    /\ UNCHANGED <<durable, gateway, ending, late, spent, skipped, network, workers, faults>>

\* PrivateEgressCommandService::drain: after the sources, the handler's
\* routes and every cell
Drain ==
    /\ source = "ended" /\ ~draining
    /\ draining' = TRUE
    /\ proxy' = [t \in Target |-> "none"]
    /\ news' = [t \in Target |-> "none"]
    /\ cell' = [t \in Target |-> "absent"]
    /\ permit' = [t \in Target |-> IF permit[t] = "record" THEN "none" ELSE permit[t]]
    /\ UNCHANGED <<durable, task, session, network, workers, faults>>

\* begin_epoch: what the dead process had in flight is answered
InterruptedClaims ==
    [c \in Command |-> IF claim[c].response = "flight"
                       THEN [claim[c] EXCEPT !.response = "no"] ELSE claim[c]]

\* The gateway process dies and its successor begins an epoch.
Crash ==
    /\ epoch < MaxEpoch
    /\ epoch' = epoch + 1
    /\ claim' = InterruptedClaims
    /\ route' = Failed(TRUE)
    /\ draining' = FALSE
    /\ task' = [c \in Command |-> Idle]
    /\ cell' = [t \in Target |-> "absent"]
    /\ permit' = [t \in Target |-> "none"]
    /\ proxy' = [t \in Target |-> "none"]
    /\ news' = [t \in Target |-> "none"]
    /\ source' = "ended" /\ ending' = {} /\ late' = {}
    /\ spent' = FALSE /\ skipped' = {}
    /\ mail' = {} /\ replies' = {} /\ acks' = {}
    /\ UNCHANGED <<journal, workers, faults>>

\* recover_dead_epoch_route and complete_recovery
Recover(t) ==
    /\ route[t].recovery
    /\ route' = [route EXCEPT ![t].recovery = FALSE]
    /\ UNCHANGED <<epoch, claim, journal, gateway, session, network, workers, faults>>

-----------------------------------------------------------------------------
ServiceStep(c) ==
    \/ \E m \in mail : Arrive(c, m)
    \/ ClaimCommand(c) \/ Begin(c) \/ AfterFailure(c) \/ Commit(c) \/ Settle(c)
    \/ AnswerCommand(c)

HandlerStep(t) ==
    \/ HandlePrepare(t) \/ HandleActivate(t) \/ HandleData(t)
    \/ \E op \in {"abort", "end"} : HandleFinish(t, op)

DeliveryStep(t) ==
    Deliver(t) \/ \E i \in DOMAIN journal[t] : AckArrives(t, i)

WorkerStep(t) ==
    \/ StartPrepare(t) \/ PrepareAnswered(t) \/ PrepareUnanswered(t)
    \/ StartActivate(t) \/ ActivateAnswered(t) \/ SendData(t)
    \/ \E op \in {"abort", "end"} : Finish(t, op)

EgressNext ==
    \/ \E c \in Command : ServiceStep(c)
    \/ \E t \in Target :
         \/ HandlerStep(t) \/ DeliveryStep(t) \/ WorkerStep(t)
         \/ Progress(t) \/ Hangup(t) \/ Publish(t) \/ GiveUp(t)
         \/ EndTarget(t) \/ Recover(t)
    \/ RetireSource \/ FailSource \/ DeadlinePasses \/ SourceEnded \/ Drain \/ Crash

EgressSpec == EgressInit /\ [][EgressNext]_egressVars

\* The tasks of the gateway go on, the delivery repeats until its
\* acknowledgement and the end of a source runs to its end.
GatewaySteps ==
    \/ \E c \in Command : ServiceStep(c)
    \/ \E t \in Target : HandlerStep(t) \/ DeliveryStep(t) \/ Publish(t) \/ EndTarget(t)
    \/ FailSource \/ SourceEnded

EgressFairSpec == EgressSpec /\ WF_egressVars(GatewaySteps)

-----------------------------------------------------------------------------
(* Properties                                                              *)

\* no task of the target is between the claim of its transition and its end
Quiet(t) ==
    \A op \in Op : task[<<t, op>>].pc \notin {"handling", "handled", "failed", "committed"}

\* A source route that ends while no Prepare of the target is under way leaves
\* no record and no capacity behind, and its durable route is over unless the
\* store did not answer and the gateway drains.  It leaves no native leg
\* either, not that of a terminal route that waited for its acknowledgement,
\* except of the targets that were still to be ended when the one deadline of
\* end_source_until was spent: their records go and their legs stay.
EndedSourcesLeaveNothing ==
    source = "ended" =>
        \A t \in Target \ late :
            Quiet(t) => /\ cell[t] = "absent" /\ permit[t] = "none"
                        /\ LiveRoute(t) => draining
                        /\ proxy[t] = "none" \/ t \in skipped

\* A Prepare that is durably refused has left no native leg: the worker does
\* not follow a refusal with an Abort (execute_private_egress_start_leg), so
\* what the proxy staged before the store failed is ended by the service.
RefusedPreparesLeaveNothing ==
    \A t \in Target :
        claim[<<t, "prepare">>].response = "no" => proxy[t] = "none"

\* While the gateway admits new routes, the local record of a target whose
\* commands are done is in the state the store has: a hangup journaled
\* between the completion of a transition and the second lock of the cell
\* is not overwritten (execute_once).  Only an answer of the journal that
\* was lost leaves the two apart.
LocalMatchesDurable ==
    ~draining /\ source = "up" =>
        \A t \in Target :
            Quiet(t) => route[t].state = DurableState(cell[t]) \/ news[t] = "lost"

\* Capacity is held by the routes that can carry media and no other: every
\* failed, refused, cancelled and hung-up route gives its permit back.
CapacityIsReturned ==
    \A t \in Target :
        Quiet(t) => (permit[t] # "none" <=> cell[t] \in {"prepared", "active"})

\* No native leg, record or permit outlives what it was made for: the source
\* route it belongs to or the Prepare that staged it.  Two ways out of it are
\* the code's own and named in EndedSourcesLeaveNothing: a Prepare that is
\* under way when its source ends, and an end whose deadline is spent.
NothingIsLeftBehind == EndedSourcesLeaveNothing /\ RefusedPreparesLeaveNothing

\* The two halves of a route, the local cell and the durable record, agree
\* with each other and with the capacity they hold.
RoutesAreAccountedFor == LocalMatchesDurable /\ CapacityIsReturned

\* The native leg of a hangup that was journaled and sent is eventually
\* retired, by the worker's acknowledgement over lost and repeated deliveries,
\* or by the end of the source that cuts them off; only an end of the source
\* that ran out of its deadline, or met a Prepare of the target, may leave it.
HangupsRetireTheirRoute ==
    \A t \in Target : news[t] = "told" ~> (proxy[t] = "none" \/ t \in late \cup skipped)

=============================================================================
