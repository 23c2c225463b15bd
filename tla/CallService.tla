---------------------------- MODULE CallService ----------------------------
(***************************************************************************)
(* The call service (src/src/call_service/service.rs) over the repository: *)
(* public operations with an Idempotency-Key, served by several processes  *)
(* at once.  A request reads the repository, asks placement and principal  *)
(* resolution, and commits one transaction; every await between them lets  *)
(* other requests and the worker of the call commit first.  A repository   *)
(* call may fail, and the answer of one that committed may be lost; the    *)
(* client then sends the request again with the same key.                  *)
(*                                                                         *)
(* Abstracted data.  One tenant and one principal; a digest stands for the *)
(* operation, the call and the transcript it is computed from (so equal    *)
(* digests are equal requests), a result for the call or command an        *)
(* operation made.  Time is the retention period of the receipts (24 h);   *)
(* no request spans its end.  The aggregate is its phase and version; the  *)
(* rows a commit writes for it are in CallRepository and CallBindings.     *)
(***************************************************************************)
EXTENDS Naturals, FiniteSets, Sequences

CONSTANTS
    Key,            \* idempotency keys
    Request,        \* client requests
    RequestKey,     \* [Request -> Key]
    Scenario,       \* what the clients ask, a set of [Request -> Asked]
    Worker,         \* workers placement may choose
    Leg,            \* legs that attach to the first call
    Guarded,        \* placement.requires_replacement_worker_guard()
    MaxSlots,       \* bound: max_calls of a worker
    MaxVersion,     \* bound: versions of a call
    MaxEpoch,       \* bound: retention periods
    MaxFaults,      \* bound: failed or unanswered repository calls
    MaxTries,       \* bound: times a client sends its request
    MaxAttempts     \* MAX_VERSION_RACE_ATTEMPTS

VARIABLES
    asked,          \* [Request -> Asked], constant
    epoch,          \* current retention period
    calls,          \* sequence of stored calls
    receipts,       \* [Key -> {} or {Receipt}], the idempotency table
    results,        \* service and control command results, and creates
    retired,        \* retired_operation_claims
    reserved,       \* [Worker -> Nat], reserved_calls
    draining,       \* workers that accept no new call
    allowed,        \* placement.allows_assignment of the existing calls
    task,           \* [Request -> Task], the request being served
    told,           \* {<<request, result>>}, successes of this period
    arrival,        \* [Leg -> Arrival], consume_inbound_attachment
    faults

store == <<calls, receipts, results, retired, reserved>>
placement == <<draining, allowed>>
vars == <<asked, epoch, store, placement, task, told, arrival, faults>>

Op == {"create", "hangup", "transfer", "replace", "dtmf"}
Asked == [op : Op \cup {"none"}, digest : Nat, legacy : Nat]
Phase == {"connecting", "active", "transferring", "ending", "ended"}
Answer == {"none", "ok", "conflict", "refused", "dependency", "unavailable"}

ASSUME ServiceAssumption ==
    /\ RequestKey \in [Request -> Key]
    /\ Scenario \subseteq [Request -> Asked]
    /\ Guarded \in BOOLEAN
    /\ {MaxSlots, MaxVersion, MaxEpoch, MaxFaults, MaxTries, MaxAttempts} \subseteq Nat

NoTask == [pc |-> "idle", seen |-> 0, workers |-> {}, tries |-> 0,
           late |-> FALSE, answer |-> "none"]
NoArrival == [pc |-> "idle", seen |-> 0, start |-> 0, attempts |-> 0, lost |-> FALSE]

\* One call exists; its create is from an earlier period.  A key may still
\* hold the receipt of a create whose digest an older release computed.
Init ==
    /\ asked \in Scenario
    /\ epoch = 1
    /\ \E p \in {"connecting", "active"}, w \in Worker :
        /\ calls = <<[phase |-> p, version |-> 1, worker |-> w,
                      waiting |-> IF p = "connecting" THEN Leg ELSE {}]>>
        /\ reserved = [v \in Worker |-> IF v = w THEN 1 ELSE 0]
    /\ \/ receipts = [k \in Key |-> {}] /\ results = {}
       \/ \E r \in Request :
            /\ asked[r].op = "create" /\ asked[r].legacy # 0
            /\ receipts = [k \in Key |-> IF k # RequestKey[r] THEN {}
                 ELSE {[op |-> "create", digest |-> asked[r].legacy, call |-> 1,
                        result |-> 1, born |-> 1]}]
            /\ results = {[op |-> "create", key |-> RequestKey[r], call |-> 1,
                           digest |-> asked[r].legacy, result |-> 1, born |-> 1]}
    /\ retired = {} /\ draining = {} /\ allowed = TRUE
    /\ task = [r \in Request |-> NoTask]
    /\ told = {}
    /\ arrival = [l \in Leg |-> NoArrival]
    /\ faults = 0

-----------------------------------------------------------------------------
(***************************************************************************)
(* Receipts.                                                               *)
(***************************************************************************)
Live(k) == {x \in receipts[k] : x.born = epoch}

\* Fault: the key alone finds the receipt.
ReplayAnyBody(k, op, digest) == {x \in Live(k) : x.op = op}

\* load_create_replay_in_state, load_service_command_replay and
\* load_control_command_replay: the live receipt of the same request.
Replay(k, op, digest) == {x \in Live(k) : x.op = op /\ x.digest = digest}

\* Any other live receipt of the key refuses the request.
Conflicts(k, op, digest) == Live(k) # {} /\ Replay(k, op, digest) = {}

\* retire_expired_idempotency: expired receipts leave the table, and those of
\* commands leave a claim behind.
Expired == UNION {{[key |-> k, x |-> x] : x \in receipts[k] \ Live(k)} : k \in Key}
Claim(e) == [key |-> e.key, digest |-> e.x.digest, call |-> e.x.call,
             op |-> e.x.op, result |-> e.x.result, born |-> e.x.born]

\* Fault: the expired receipt of a command leaves no claim.
ClaimsForgotten == {}

ClaimsOfExpired == {Claim(e) : e \in {d \in Expired : d.x.op # "create"}}

\* retain_operation_receipt after retire_expired_idempotency.
Retain(k, receipt) ==
    /\ receipts' = [j \in Key |-> IF j = k THEN {receipt} ELSE Live(j)]
    /\ retired' = retired \cup ClaimsOfExpired

RetireOnly ==
    /\ receipts' = [j \in Key |-> Live(j)]
    /\ retired' = retired \cup ClaimsOfExpired

NextResult == Cardinality(results) + 1

Record(r, c, n) ==
    [op |-> asked[r].op, key |-> RequestKey[r], digest |-> asked[r].digest,
     call |-> c, result |-> n, born |-> epoch]

ReceiptOf(r, c, n) ==
    [op |-> asked[r].op, digest |-> asked[r].digest, call |-> c, result |-> n,
     born |-> epoch]

-----------------------------------------------------------------------------
(***************************************************************************)
(* Steps of a request.                                                     *)
(***************************************************************************)
At(r, pc) == task[r].pc = pc
Moves(r, pc) == task' = [task EXCEPT ![r].pc = pc]

Answers(r, a) ==
    /\ task' = [task EXCEPT ![r].pc = "done", ![r].answer = a]
    /\ told' = told

Succeeds(r, n) ==
    /\ task' = [task EXCEPT ![r].pc = "done", ![r].answer = "ok"]
    /\ told' = told \cup {<<r, n>>}

Mine(r) == Replay(RequestKey[r], asked[r].op, asked[r].digest)
Refused(r) == Conflicts(RequestKey[r], asked[r].op, asked[r].digest)

\* What a create of an older release would have stored.
Legacy(r) == {x \in Live(RequestKey[r]) : x.op = "create" /\ x.digest = asked[r].legacy}

\* A repository read that answers at once when a receipt of the key is live.
AnswersFromReceipt(r) ==
    \/ \E x \in Mine(r) : Succeeds(r, x.result)
    \/ /\ Refused(r)
       /\ IF asked[r].op = "create" /\ Legacy(r) # {}
          THEN \E x \in Legacy(r) : Succeeds(r, x.result)
          ELSE Answers(r, "conflict")

FirstStep(op) == IF op = "hangup" THEN "load" ELSE "replay"

\* The client sends its request, again after an answer it could not use.
Begin(r) ==
    /\ asked[r].op # "none"
    /\ At(r, "idle") \/ (At(r, "done") /\ task[r].answer = "unavailable")
    /\ task[r].tries < MaxTries
    /\ task' = [task EXCEPT ![r] =
          [NoTask EXCEPT !.pc = FirstStep(asked[r].op), !.tries = task[r].tries + 1,
                         !.late = Mine(r) # {}]]
    /\ UNCHANGED <<asked, epoch, store, placement, told, arrival, faults>>

\* Fault: the operation goes on to its commit without looking for a receipt.
NoPreflight(r) ==
    /\ At(r, "replay")
    /\ Moves(r, IF asked[r].op = "create" THEN "principals" ELSE "load")
    /\ UNCHANGED told
    /\ UNCHANGED <<asked, epoch, store, placement, arrival, faults>>

\* The preflight of create, transfer, replace and dtmf.
Preflight(r) ==
    /\ At(r, "replay")
    /\ \/ AnswersFromReceipt(r)
       \/ /\ Live(RequestKey[r]) = {}
          /\ Moves(r, IF asked[r].op = "create" THEN "principals" ELSE "load")
          /\ UNCHANGED told
    /\ UNCHANGED <<asked, epoch, store, placement, arrival, faults>>

-----------------------------------------------------------------------------
(***************************************************************************)
(* create_call.                                                            *)
(***************************************************************************)

\* replay_create_or_error: the receipt of a concurrent request outranks the
\* health of principal resolution and placement.
ReplayCreateOrError(r) ==
    \/ \E x \in Mine(r) : Succeeds(r, x.result)
    \/ Refused(r) /\ Answers(r, "conflict")
    \/ Live(RequestKey[r]) = {} /\ Answers(r, "dependency")

ResolvePrincipals(r) ==
    /\ At(r, "principals")
    /\ \/ Moves(r, "place") /\ UNCHANGED told
       \/ ReplayCreateOrError(r)
    /\ UNCHANGED <<asked, epoch, store, placement, arrival, faults>>

Open(w) == w \notin draining /\ reserved[w] < MaxSlots

\* select_workers: capable workers with a free slot at the time of the read.
\* None is an error, and so is a budget that ran out.
SelectWorkers(r) ==
    /\ At(r, "place")
    /\ LET chosen == {w \in Worker : Open(w)}
       IN  \/ /\ chosen # {}
              /\ task' = [task EXCEPT ![r].pc = "commit", ![r].workers = chosen]
              /\ UNCHANGED told
           \/ ReplayCreateOrError(r)
    /\ UNCHANGED <<asked, epoch, store, placement, arrival, faults>>

\* create_with_plan in the store: the first candidate that still takes a call.
CreateCommits(r) ==
    /\ Live(RequestKey[r]) = {}
    /\ \E w \in task[r].workers :
        /\ Open(w)
        /\ calls' = Append(calls, [phase |-> "connecting", version |-> 1,
                                   worker |-> w, waiting |-> {}])
        /\ reserved' = [reserved EXCEPT ![w] = @ + 1]
        /\ Retain(RequestKey[r], ReceiptOf(r, Len(calls) + 1, NextResult))
        /\ results' = results \cup {Record(r, Len(calls) + 1, NextResult)}

CreateRefused(r) ==
    /\ Live(RequestKey[r]) = {}
    /\ \A w \in task[r].workers : ~Open(w)
    /\ Answers(r, "refused")
    /\ UNCHANGED store

-----------------------------------------------------------------------------
(***************************************************************************)
(* hangup_call, transfer_call, replace_leg and send_dtmf on the first call. *)
(***************************************************************************)
Call == calls[1]

\* The checks of the loaded call, before a command is made for it.
Acceptable(op) ==
    CASE op = "hangup" -> TRUE
      [] op = "transfer" -> Call.phase \in {"active", "transferring"}
      [] op = "replace" -> allowed /\ Call.phase = "active"
      [] op = "dtmf" -> allowed

AfterLoad(op) ==
    CASE op = "replace" -> "resolve" [] op = "dtmf" -> "commit" [] OTHER -> "check"

LoadServiceCall(r) ==
    /\ At(r, "load")
    /\ IF Acceptable(asked[r].op)
       THEN /\ task' = [task EXCEPT ![r].pc = AfterLoad(asked[r].op),
                                    ![r].seen = Call.version]
            /\ UNCHANGED told
       ELSE Answers(r, "refused")
    /\ UNCHANGED <<asked, epoch, store, placement, arrival, faults>>

\* resolve_attachment_principal of a replacement, under its timeout.
ResolveReplacement(r) ==
    /\ At(r, "resolve")
    /\ \/ Moves(r, "check") /\ UNCHANGED told
       \/ Answers(r, "dependency")
    /\ UNCHANGED <<asked, epoch, store, placement, arrival, faults>>

\* commit_state_command_with_attachments up to its transaction.
CheckCommand(r) ==
    /\ At(r, "check")
    /\ \/ AnswersFromReceipt(r)
       \/ /\ Live(RequestKey[r]) = {}
          /\ IF allowed THEN Moves(r, "commit") /\ UNCHANGED told
             ELSE Answers(r, "dependency")
    /\ UNCHANGED <<asked, epoch, store, placement, arrival, faults>>

\* CallAggregate::decide for the command of an operation.  A hangup brings its
\* own ending deadline, so it also applies to a call that is ending already.
Decided(op, phase) ==
    CASE op = "hangup" /\ phase # "ended" -> "ending"
      [] op \in {"transfer", "replace"} /\ phase = "active" -> "transferring"
      [] op = "dtmf" /\ phase \in {"active", "transferring"} -> phase
      [] OTHER -> "rejected"

\* expected_version of the transaction; a control command has none.
VersionSeen(r) == asked[r].op # "dtmf" => task[r].seen = Call.version

\* validate_leg_replacement_worker_guard.
WorkerAccepts(r) ==
    asked[r].op = "replace" /\ Guarded => Call.worker \notin draining

\* commit_service_command_in_state and enqueue_control_in_state.
CommandCommits(r) ==
    LET op == asked[r].op IN
    /\ Live(RequestKey[r]) = {}
    /\ WorkerAccepts(r) /\ VersionSeen(r)
    /\ Decided(op, Call.phase) # "rejected"
    /\ Call.version < MaxVersion
    /\ calls' = [calls EXCEPT ![1].phase = Decided(op, Call.phase),
                              ![1].version = IF op = "dtmf" THEN @ ELSE @ + 1]
    /\ Retain(RequestKey[r], ReceiptOf(r, 1, NextResult))
    /\ results' = results \cup {Record(r, 1, NextResult)}
    /\ UNCHANGED reserved

CommandRefused(r) ==
    /\ Live(RequestKey[r]) = {}
    /\ \/ ~WorkerAccepts(r) \/ ~VersionSeen(r)
       \/ Decided(asked[r].op, Call.phase) = "rejected"
    /\ Answers(r, "refused")
    /\ UNCHANGED store

-----------------------------------------------------------------------------
(***************************************************************************)
(* The transaction of an operation: it replays, refuses or commits.        *)
(***************************************************************************)
Effect(r) == IF asked[r].op = "create" THEN CreateCommits(r) ELSE CommandCommits(r)

\* replay_service_operation and replay_control_operation retire first; a
\* conflict rolls that back.
Replays(r) ==
    /\ \/ /\ \E x \in Mine(r) : Succeeds(r, x.result)
          /\ IF asked[r].op = "create" THEN UNCHANGED <<receipts, retired>>
             ELSE RetireOnly
       \/ /\ Refused(r) /\ Answers(r, "conflict")
          /\ UNCHANGED <<receipts, retired>>
    /\ UNCHANGED <<calls, results, reserved>>

Commit(r) ==
    /\ At(r, "commit")
    /\ \/ Effect(r) /\ Succeeds(r, NextResult)
       \/ IF asked[r].op = "create" THEN CreateRefused(r) ELSE CommandRefused(r)
       \/ Replays(r)
    /\ UNCHANGED <<asked, epoch, placement, arrival, faults>>

\* The commit reached the database and its answer did not come back.
CommitUnanswered(r) ==
    /\ At(r, "commit")
    /\ faults < MaxFaults /\ faults' = faults + 1
    /\ Effect(r)
    /\ Answers(r, "unavailable")
    /\ UNCHANGED <<asked, epoch, placement, arrival>>

\* A repository call fails and is rolled back.
RepositoryFails(r) ==
    /\ task[r].pc \in {"replay", "load", "check", "commit"}
    /\ faults < MaxFaults /\ faults' = faults + 1
    /\ Answers(r, "unavailable")
    /\ UNCHANGED <<asked, epoch, store, placement, arrival>>

RequestStep(r) ==
    \/ Begin(r) \/ Preflight(r) \/ ResolvePrincipals(r) \/ SelectWorkers(r)
    \/ LoadServiceCall(r) \/ ResolveReplacement(r) \/ CheckCommand(r)
    \/ Commit(r) \/ CommitUnanswered(r) \/ RepositoryFails(r)

-----------------------------------------------------------------------------
(***************************************************************************)
(* consume_inbound_attachment: a leg of the first call presents its token. *)
(***************************************************************************)
Arrives(l, a) == arrival' = [arrival EXCEPT ![l] = a]

InspectAttachment(l) ==
    LET a == arrival[l] IN
    /\ a.pc \in {"idle", "again"}
    /\ IF l \in Call.waiting /\ Call.phase = "connecting"
       THEN Arrives(l, [a EXCEPT !.pc = "consume", !.seen = Call.version,
                        !.start = IF a.pc = "idle" THEN Call.version ELSE @])
       ELSE Arrives(l, [a EXCEPT !.pc = "rejected"])
    /\ UNCHANGED <<asked, epoch, store, placement, task, told, faults>>

Consumed(l) ==
    /\ arrival[l].seen = Call.version
    /\ l \in Call.waiting /\ Call.phase = "connecting" /\ allowed
    /\ Call.version < MaxVersion
    /\ calls' = [calls EXCEPT ![1].waiting = @ \ {l}, ![1].version = @ + 1]
    /\ UNCHANGED <<receipts, results, retired, reserved>>

\* Fault: the loop gives up on the first lost race.
GivesUpAtOnce(l) == "unavailable"

\* The bounded loop over optimistic-version races.
AfterRace(l) ==
    IF arrival[l].attempts + 1 < MaxAttempts THEN "again" ELSE "unavailable"

ConsumeAttachment(l) ==
    LET a == arrival[l]
        raced == l \in Call.waiting /\ a.seen # Call.version
    IN
    /\ a.pc = "consume"
    /\ \/ Consumed(l) /\ Arrives(l, [a EXCEPT !.pc = "bound"])
       \/ /\ allowed /\ raced /\ UNCHANGED store
          /\ Arrives(l, [a EXCEPT !.pc = AfterRace(l), !.attempts = @ + 1])
       \/ /\ ~allowed \/ l \notin Call.waiting
          /\ Arrives(l, [a EXCEPT !.pc = "rejected"]) /\ UNCHANGED store
    /\ UNCHANGED <<asked, epoch, placement, task, told, faults>>

\* The repository fails the loop, before or after its commit.
ConsumeUnanswered(l) ==
    /\ arrival[l].pc = "consume"
    /\ faults < MaxFaults /\ faults' = faults + 1
    /\ Consumed(l) \/ UNCHANGED store
    /\ Arrives(l, [arrival[l] EXCEPT !.pc = "unavailable", !.lost = TRUE])
    /\ UNCHANGED <<asked, epoch, placement, task, told>>

-----------------------------------------------------------------------------
(***************************************************************************)
(* The rest of the system.                                                 *)
(***************************************************************************)

\* A command of the call's worker: legs connect, a transfer ends, a leg
\* leaves, and the last one ends the call and releases its slot.
WorkerCommits ==
    /\ Call.version < MaxVersion
    /\ \E p \in Phase :
        /\ <<Call.phase, p>> \in {<<"connecting", "connecting">>,
              <<"connecting", "active">>, <<"connecting", "ending">>,
              <<"active", "active">>, <<"active", "ending">>,
              <<"transferring", "active">>, <<"transferring", "ending">>,
              <<"ending", "ending">>, <<"ending", "ended">>}
        /\ p = "active" => Call.waiting = {}
        /\ calls' = [calls EXCEPT ![1].phase = p, ![1].version = @ + 1]
        /\ reserved' = [reserved EXCEPT ![Call.worker] = IF p = "ended" THEN @ - 1 ELSE @]
    /\ UNCHANGED <<asked, epoch, receipts, results, retired, placement, task, told, arrival, faults>>

\* A worker drains; the process loses the workers it may route to.
PlacementChanges ==
    /\ \/ draining = {} /\ \E w \in Worker : draining' = {w} /\ UNCHANGED allowed
       \/ allowed /\ allowed' = FALSE /\ UNCHANGED draining
    /\ UNCHANGED <<asked, epoch, store, task, told, arrival, faults>>

\* The retention period ends.  No request is that slow: a request in service
\* is far shorter than the 24 hours of a receipt.
RetentionEnds ==
    /\ epoch < MaxEpoch /\ epoch' = epoch + 1
    /\ \A r \in Request : task[r].pc \in {"idle", "done"}
    /\ told' = {}
    /\ UNCHANGED <<asked, store, placement, task, arrival, faults>>

Next ==
    \/ \E r \in Request : RequestStep(r)
    \/ \E l \in Leg : InspectAttachment(l) \/ ConsumeAttachment(l) \/ ConsumeUnanswered(l)
    \/ WorkerCommits \/ PlacementChanges \/ RetentionEnds

\* A server finishes a request it took: repository calls return, resolution
\* and placement have their budget, and the loop of an arrival is bounded.
Serves ==
    \/ \E r \in Request :
        \/ Preflight(r) \/ ResolvePrincipals(r) \/ SelectWorkers(r)
        \/ LoadServiceCall(r) \/ ResolveReplacement(r) \/ CheckCommand(r) \/ Commit(r)
    \/ \E l \in Leg : ConsumeAttachment(l) \/ (arrival[l].pc = "again" /\ InspectAttachment(l))

Spec == Init /\ [][Next]_vars /\ WF_vars(Serves)

-----------------------------------------------------------------------------
(***************************************************************************)
(* from_snapshot_at: what the next load demands of receipts and claims.    *)
(***************************************************************************)
\* validate_idempotency_snapshot and idempotency_receipt_crosslinks.
ReceiptsAreKnown ==
    \A k \in Key : \A x \in receipts[k] :
        \E y \in results : y.key = k /\ y.result = x.result /\ y.digest = x.digest

\* service_operation_claim_has_proof and control_operation_claim_has_proof.
CommandsHaveProof ==
    \A y \in {z \in results : z.op # "create"} :
        LET live == \E x \in receipts[y.key] : x.result = y.result
            claim == \E c \in retired : c.result = y.result /\ c.digest = y.digest
        IN  live # claim

\* retired_operation_claim_crosslinks.
ClaimsAreKnown ==
    \A c \in retired :
        c.born < epoch /\ \E y \in results : y.result = c.result /\ y.key = c.key

-----------------------------------------------------------------------------
\* Operations performed for a key in this retention period.
Performed(k) ==
    {[body |-> <<x.op, x.digest>>, result |-> x.result] :
        x \in {y \in results : y.key = k /\ y.born = epoch}}

Keyed == INSTANCE KeyedOperations WITH
            KeyOf <- RequestKey,
            wanted <- [r \in Request |-> {<<asked[r].op, asked[r].digest>>,
                                         <<asked[r].op, asked[r].legacy>>}],
            performed <- [k \in Key |-> Performed(k)]

\* However requests with one key interleave, fail, lose their answer and are
\* sent again, the repository performs at most one operation for the key in a
\* retention period, and every success reported has the result of that one
\* operation and goes to a request that asked for it (load_create_replay, replay_service_operation, retain_operation_receipt).
OneOperationPerKey == Keyed!Spec

\* A request that is sent after its operation committed (its answer was lost)
\* is answered with that result, whatever became of the call, its worker and
\* the placement since: never with a conflict, a refusal or a dependency
\* error.
LostAnswersReplay ==
    \A r \in Request : task[r].late => task[r].answer \in {"none", "ok", "unavailable"}

\* The receipts and claims of the store agree as its next load demands: every
\* receipt names what was made for it, and every keyed command is proved by
\* its live receipt or by one retired claim, never by both, also when the key
\* is used again for another operation.
ReceiptsLoad == ReceiptsAreKnown /\ CommandsHaveProof /\ ClaimsAreKnown

\* Legs that attach at the same time are not turned away by their race: an
\* arrival is answered unavailable only when a repository call failed, or
\* when the call changed under it as often as the loop retries.
RacesAreRetried ==
    \A l \in Leg :
        arrival[l].pc = "unavailable" /\ ~arrival[l].lost =>
            Call.version - arrival[l].start >= MaxAttempts
=============================================================================
