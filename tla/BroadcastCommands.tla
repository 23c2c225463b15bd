------------------------- MODULE BroadcastCommands -------------------------
(***************************************************************************)
(* Durable broadcast commands and the worker that executes them            *)
(* (broadcast/commands.rs, sqlite_commands.rs, command_executor.rs,        *)
(* managed.rs, redis_grants.rs).                                           *)
(*                                                                         *)
(* The API enqueues start and stop commands for the worker lease that owns *)
(* the source call.  The executor of that lease claims them, publishes the *)
(* broadcast under a grant in the shared store, and completes the command. *)
(* A restarted worker gets a higher fence and first fails and cleans what  *)
(* the older fences left.  Every broadcast is a UCTP one, so its durable   *)
(* start also opens the worker's subscription authority.                   *)
(***************************************************************************)
EXTENDS Naturals, FiniteSets, Sequences

CONSTANTS Broadcasts,   \* broadcast ids
          MaxFence,     \* registrations of the worker
          MaxActive,    \* open broadcasts a worker lease may own
          MaxGrants,    \* grant generations the shared store issues
          MaxFaults,    \* failed store calls and lost answers
          LostAnswers   \* transactions whose committed answer may be lost

ASSUME BoundsAreNat == {MaxFence, MaxActive, MaxGrants, MaxFaults} \subseteq Nat
ASSUME LostAnswersAreCalls == LostAnswers \subseteq {"claim", "complete"}

VARIABLES record,    \* durable row of each broadcast
          commands,  \* durable commands, ordered by available_at
          grant,     \* shared store: the active grant generation, 0 is none
          issued,    \* grant generations issued so far
          source,    \* the source leg is connected under the specified binding
          fence,     \* the worker's current fence
          pc,        \* where the executor of each fence is
          claims,    \* claimed commands it has not finished, least id is executing
          held,      \* grant generation of the start it is executing
          result,    \* the result it is completing
          stale,     \* rows of older fences it still has to clean
          active,    \* its managed broadcasts: grant generation, 0 is none
          authority, \* its subscription authority: generation, 0 is none
          retrying,  \* dropped grant leases its background tasks revoke
          drained,   \* broadcasts and grants its shutdown revoked
          faults,    \* faults so far
          committed, \* history: generations a durable start recorded
          lost       \* history: generations a crash or a store fault dropped

durable == <<record, commands>>
store == <<grant, issued>>
process == <<pc, claims, held, result, stale, active, authority, retrying, drained>>
vars == <<durable, store, source, fence, process, faults, committed, lost>>

Fences == 1..MaxFence
Generations == 1..MaxGrants
RowState == {"none", "pending", "active", "deleting", "deleted", "failed"}
Open == {"pending", "active", "deleting"}
Code == {"none", "start", "stop", "terminal", "stale", "drained"}
Row == [state : RowState, fence : 0..MaxFence, runtime : Generations \cup {0}, code : Code]
CommandState == {"pending", "claimed", "succeeded", "failed"}
Command == [broadcast : Broadcasts, kind : {"start", "stop"}, fence : Fences,
            state : CommandState, generation : Nat, lapsed : BOOLEAN]
Claim == [id : Nat, broadcast : Broadcasts, kind : {"start", "stop"},
          generation : Nat, runtime : Generations \cup {0}]
Result == [kind : {"none", "started", "stopped", "failed"}, runtime : Generations \cup {0}, code : Code]
Step == {"down", "recovering", "cleaning", "idle", "starting", "installed", "completing",
         "verifying", "undoing", "terminal", "closing", "failing", "finalizing"}

NoResult == [kind |-> "none", runtime |-> 0, code |-> "none"]
Started(g) == [kind |-> "started", runtime |-> g, code |-> "none"]
Stopped == [kind |-> "stopped", runtime |-> 0, code |-> "none"]
Failed(c) == [kind |-> "failed", runtime |-> 0, code |-> c]

TypeOK ==
  /\ record \in [Broadcasts -> Row]
  /\ commands \in Seq(Command)
  /\ grant \in [Broadcasts -> Generations \cup {0}]
  /\ issued \in Generations \cup {0}
  /\ source \in [Broadcasts -> BOOLEAN]
  /\ fence \in 0..MaxFence
  /\ pc \in [Fences -> Step]
  /\ claims \in [Fences -> SUBSET Claim]
  /\ held \in [Fences -> Generations \cup {0}]
  /\ result \in [Fences -> Result]
  /\ stale \in [Fences -> SUBSET Broadcasts]
  /\ active \in [Fences -> [Broadcasts -> Generations \cup {0}]]
  /\ authority \in [Fences -> [Broadcasts -> Generations \cup {0}]]
  /\ retrying \in [Fences -> SUBSET (Broadcasts \X Generations)]
  /\ drained \in [Fences -> SUBSET (Broadcasts \X Generations)]
  /\ faults \in 0..MaxFaults
  /\ committed \subseteq Generations
  /\ lost \subseteq Generations

Nothing == [b \in Broadcasts |-> 0]

Init ==
  /\ record = [b \in Broadcasts |-> [state |-> "none", fence |-> 0, runtime |-> 0, code |-> "none"]]
  /\ commands = <<>>
  /\ grant = Nothing /\ issued = 0
  /\ source = [b \in Broadcasts |-> TRUE]
  /\ fence = 0
  /\ pc = [f \in Fences |-> "down"]
  /\ claims = [f \in Fences |-> {}]
  /\ held = [f \in Fences |-> 0]
  /\ result = [f \in Fences |-> NoResult]
  /\ stale = [f \in Fences |-> {}]
  /\ active = [f \in Fences |-> Nothing]
  /\ authority = [f \in Fences |-> Nothing]
  /\ retrying = [f \in Fences |-> {}]
  /\ drained = [f \in Fences |-> {}]
  /\ faults = 0 /\ committed = {} /\ lost = {}

Fault == faults < MaxFaults /\ faults' = faults + 1
NoFault == UNCHANGED faults

(***************************************************************************)
(* The API: one transaction per request.                                   *)
(***************************************************************************)
OpenRows(f) == {b \in Broadcasts : record[b].fence = f /\ record[b].state \in Open}
NewCommand(b, k, f) == [broadcast |-> b, kind |-> k, fence |-> f, state |-> "pending",
                        generation |-> 0, lapsed |-> FALSE]

\* enqueue_start locks the worker's row: its fence, not draining, lease active.
\* The draining mark is written by CallServiceRuntime::shutdown, after this
\* executor's shutdown and only if the write succeeds, and the lease of a
\* process that is gone runs on until it expires, so a closing or dead
\* process does not keep a start out.
LockWorker(f) == f > 0 /\ f = fence

EnqueueStart(b) ==
  /\ record[b].state = "none"
  /\ LockWorker(fence)
  /\ Cardinality(OpenRows(fence)) < MaxActive
  /\ record' = [record EXCEPT ![b] = [state |-> "pending", fence |-> fence, runtime |-> 0, code |-> "none"]]
  /\ commands' = Append(commands, NewCommand(b, "start", fence))
  /\ UNCHANGED <<store, source, fence, process, faults, committed, lost>>

\* Mutant: any command of the broadcast counts as its stop.
HasCommand(b) == \E i \in DOMAIN commands : commands[i].broadcast = b

HasStop(b) == \E i \in DOMAIN commands : commands[i].broadcast = b /\ commands[i].kind = "stop"

\* A repeated DELETE under its old receipt makes the same move on a failed row.
DeleteFailed(b) ==
  /\ record[b].state = "failed"
  /\ record[b].runtime = 0
  /\ record' = [record EXCEPT ![b].state = "deleted"]
  /\ UNCHANGED commands

DeleteOpen(b) ==
  /\ record[b].state \in Open
  /\ record' = [record EXCEPT ![b].state = "deleting"]
  /\ commands' = IF HasStop(b) THEN commands
                 ELSE Append(commands, NewCommand(b, "stop", record[b].fence))

EnqueueStop(b) ==
  /\ DeleteFailed(b) \/ DeleteOpen(b)
  /\ UNCHANGED <<store, source, fence, process, faults, committed, lost>>

(***************************************************************************)
(* Process life cycle.  An older process may still run when its successor  *)
(* registers.                                                              *)
(***************************************************************************)
Register ==
  /\ fence < MaxFence
  /\ fence' = fence + 1
  /\ pc' = [pc EXCEPT ![fence + 1] = "recovering"]
  /\ UNCHANGED <<durable, store, source, claims, held, result, stale, active, authority,
                 retrying, drained, faults, committed, lost>>

InHand(f, g) == held[f] = g \/ \E b \in Broadcasts : active[f][b] = g \/ <<b, g>> \in retrying[f]
Recorded(g) == \E b \in Broadcasts : record[b].runtime = g
Down(f) ==
  /\ claims' = [claims EXCEPT ![f] = {}]
  /\ held' = [held EXCEPT ![f] = 0]
  /\ result' = [result EXCEPT ![f] = NoResult]
  /\ stale' = [stale EXCEPT ![f] = {}]
  /\ active' = [active EXCEPT ![f] = Nothing]
  /\ authority' = [authority EXCEPT ![f] = Nothing]
  /\ retrying' = [retrying EXCEPT ![f] = {}]
  /\ drained' = [drained EXCEPT ![f] = {}]
  /\ pc' = [pc EXCEPT ![f] = "down"]

Crash(f) ==
  /\ pc[f] # "down"
  /\ Down(f)
  /\ lost' = lost \cup {g \in Generations : InHand(f, g) /\ ~Recorded(g)}
  /\ UNCHANGED <<durable, store, source, fence, faults, committed>>

(***************************************************************************)
(* The shared grant store and the managed broadcast.                       *)
(***************************************************************************)
Revoke(b, g) == grant' = [grant EXCEPT ![b] = IF @ = g THEN 0 ELSE @]

\* Mutant: the lease is forgotten when its revocation fails.
CloseOnce(f, b, g) ==
  /\ (Revoke(b, g) /\ NoFault) \/ (Fault /\ UNCHANGED grant)
  /\ UNCHANGED <<retrying, issued>>

\* close drops the local grant, revokes the shared one and removes the route;
\* a failed revocation drops the lease, whose task keeps trying.
CloseManaged(f, b, g) ==
  \/ Revoke(b, g) /\ NoFault /\ UNCHANGED <<retrying, issued>>
  \/ Fault /\ retrying' = [retrying EXCEPT ![f] = @ \cup {<<b, g>>}] /\ UNCHANGED store

\* The lease's task: revoked, or the retry window ended with the store away.
RetryRevoke(f) ==
  \E r \in retrying[f] :
    /\ retrying' = [retrying EXCEPT ![f] = @ \ {r}]
    /\ \/ Revoke(r[1], r[2]) /\ NoFault /\ UNCHANGED <<issued, lost>>
       \/ Fault /\ lost' = lost \cup {r[2]} /\ UNCHANGED store
    /\ UNCHANGED <<durable, source, fence, pc, claims, held, result, stale, active, authority,
                   drained, committed>>

\* The grant's key expires with the broadcast.
GrantExpires(b) ==
  /\ grant[b] # 0
  /\ grant' = [grant EXCEPT ![b] = 0]
  /\ source' = [source EXCEPT ![b] = FALSE]
  /\ UNCHANGED <<durable, issued, fence, process, faults, committed, lost>>

\* The source leg ends, its call is released, or its binding rotates.
SourceLeaves(b) ==
  /\ source[b] /\ record[b].state # "none"
  /\ source' = [source EXCEPT ![b] = FALSE]
  /\ UNCHANGED <<durable, store, fence, process, faults, committed, lost>>

(***************************************************************************)
(* Recovery of older fences.                                               *)
(***************************************************************************)
\* Mutant: rows fail and their commands stay claimed.
FailOpenRows(old, code) ==
  /\ record' = [b \in Broadcasts |->
       IF record[b].fence \in old /\ record[b].state \in Open
       THEN [record[b] EXCEPT !.state = "failed", !.code = code] ELSE record[b]]
  /\ UNCHANGED commands

FailOpen(old, code) ==
  /\ commands' = [i \in DOMAIN commands |->
       IF commands[i].fence \in old /\ commands[i].state \in {"pending", "claimed"}
       THEN [commands[i] EXCEPT !.state = "failed", !.lapsed = FALSE] ELSE commands[i]]
  /\ record' = [b \in Broadcasts |->
       IF record[b].fence \in old /\ record[b].state \in Open
       THEN [record[b] EXCEPT !.state = "failed", !.code = code] ELSE record[b]]

\* fail_stale_worker_broadcasts: the SQL repositories return the rows that
\* still hold cleanup metadata.
FailStaleWorkerBroadcasts(f) ==
  /\ pc[f] = "recovering"
  /\ FailOpen(Fences \ {f}, "stale")
  /\ stale' = [stale EXCEPT ![f] = {b \in Broadcasts : /\ record'[b].fence \in Fences \ {f}
                                                       /\ record'[b].code = "stale"
                                                       /\ record'[b].runtime # 0}]
  /\ pc' = [pc EXCEPT ![f] = "cleaning"]
  /\ UNCHANGED <<store, source, fence, claims, held, result, active, authority, retrying,
                 drained, faults, committed, lost>>

FinalizeFailedCleanup(b, f, g) ==
  IF record[b].state = "failed" /\ record[b].fence = f /\ record[b].runtime = g
  THEN [record EXCEPT ![b].runtime = 0] ELSE record

\* One stale row: revoke the exact grant, clear the row, check that it is clear.
\* Any failure abandons this pass; the next one starts over.
CleanStaleRow(f) ==
  /\ pc[f] = "cleaning"
  /\ \E b \in stale[f] :
       \/ /\ grant[b] \in {0, record[b].runtime}
          /\ Revoke(b, grant[b])
          /\ record' = FinalizeFailedCleanup(b, record[b].fence, record[b].runtime)
          /\ stale' = [stale EXCEPT ![f] = @ \ {b}]
          /\ NoFault /\ UNCHANGED <<pc, issued>>
       \/ /\ Fault \/ (NoFault /\ grant[b] \notin {0, record[b].runtime})
          /\ pc' = [pc EXCEPT ![f] = "recovering"]
          /\ stale' = [stale EXCEPT ![f] = {}]
          /\ UNCHANGED <<record, store>>
  /\ UNCHANGED <<commands, source, fence, claims, held, result, active, authority, retrying,
                 drained, committed, lost>>

StaleFencesReconciled(f) ==
  /\ pc[f] = "cleaning" /\ stale[f] = {}
  /\ pc' = [pc EXCEPT ![f] = "idle"]
  /\ UNCHANGED <<durable, store, source, fence, claims, held, result, stale, active, authority,
                 retrying, drained, faults, committed, lost>>

(***************************************************************************)
(* Claiming.  The answer of a committed claim may be lost: the command is  *)
(* claimed again when the claim's 30 seconds have passed.                  *)
(***************************************************************************)
Claimable(i, f) ==
  /\ commands[i].fence = f
  /\ commands[i].state = "pending" \/ (commands[i].state = "claimed" /\ commands[i].lapsed)

ClaimOf(i) == [id |-> i, broadcast |-> commands[i].broadcast, kind |-> commands[i].kind,
               generation |-> commands[i].generation + 1,
               runtime |-> record[commands[i].broadcast].runtime]

\* Every claimable command of the lease is claimed by one transaction.
ClaimAndExecute(f) ==
  LET ids == {i \in DOMAIN commands : Claimable(i, f)}
  IN /\ pc[f] = "idle" /\ ids # {}
     /\ commands' = [i \in DOMAIN commands |->
          IF i \in ids THEN [commands[i] EXCEPT !.state = "claimed", !.lapsed = FALSE,
                                                !.generation = @ + 1]
          ELSE commands[i]]
     /\ \/ /\ claims' = [claims EXCEPT ![f] = {ClaimOf(i) : i \in ids}]
           /\ pc' = [pc EXCEPT ![f] = "starting"]
           /\ NoFault
        \/ "claim" \in LostAnswers /\ Fault /\ UNCHANGED <<claims, pc>>
     /\ UNCHANGED <<record, store, source, fence, held, result, stale, active, authority,
                    retrying, drained, committed, lost>>

\* The lapse matters only when the executor comes to claim again.
ClaimLapses ==
  \E i \in DOMAIN commands :
    /\ pc[commands[i].fence] = "idle"
    /\ commands[i].state = "claimed" /\ ~commands[i].lapsed
    /\ commands' = [commands EXCEPT ![i].lapsed = TRUE]
    /\ UNCHANGED <<record, store, source, fence, process, faults, committed, lost>>

\* Claimed commands are executed in the order they were claimed, oldest first.
Current(f) == CHOOSE c \in claims[f] : \A d \in claims[f] : c.id <= d.id
Executing(f, k) == pc[f] = "starting" /\ Current(f).kind = k
Deliver(f, r) == /\ result' = [result EXCEPT ![f] = r]
                 /\ pc' = [pc EXCEPT ![f] = "completing"]

(***************************************************************************)
(* Start: check the source, install the broadcast under a fresh grant,     *)
(* check the source again, enter it in the active map.                     *)
(***************************************************************************)
\* Expired, source checks, transport policy, or managed start failed early.
StartRefused(f) ==
  /\ Executing(f, "start")
  /\ Deliver(f, Failed("start"))
  /\ UNCHANGED <<durable, store, source, fence, claims, held, stale, active, authority,
                 retrying, drained, faults, committed, lost>>

\* The store issues a generation only where no grant is active.
RegisterGrant(b) ==
  /\ grant[b] = 0 /\ issued + 1 \in Generations
  /\ grant' = [grant EXCEPT ![b] = issued + 1] /\ issued' = issued + 1

InstallPublisher(f) ==
  /\ held' = [held EXCEPT ![f] = issued']
  /\ pc' = [pc EXCEPT ![f] = "installed"]
  /\ NoFault /\ UNCHANGED <<retrying, result, lost>>

\* The graph or the publisher fails: the dropped lease revokes in the background.
PublisherFails(f) ==
  /\ Fault
  /\ retrying' = [retrying EXCEPT ![f] = @ \cup {<<Current(f).broadcast, issued'>>}]
  /\ Deliver(f, Failed("start"))
  /\ UNCHANGED <<held, lost>>

\* The registration's answer is lost: nobody holds a lease of the grant.
RegistrationTimesOut(f) ==
  /\ Fault
  /\ lost' = lost \cup {issued'}
  /\ Deliver(f, Failed("start"))
  /\ UNCHANGED <<held, retrying>>

ManagedStart(f) ==
  /\ Executing(f, "start") /\ source[Current(f).broadcast]
  /\ RegisterGrant(Current(f).broadcast)
  /\ InstallPublisher(f) \/ PublisherFails(f) \/ RegistrationTimesOut(f)
  /\ UNCHANGED <<durable, source, fence, claims, stale, active, authority, drained, committed>>

StartInstalled(f) ==
  LET b == Current(f).broadcast
  IN /\ pc[f] = "installed" /\ source[b] /\ grant[b] # 0
     /\ active' = [active EXCEPT ![f][b] = grant[b]]
     /\ held' = [held EXCEPT ![f] = 0]
     /\ Deliver(f, Started(grant[b]))
     /\ UNCHANGED <<durable, store, source, fence, claims, stale, authority, retrying, drained,
                    faults, committed, lost>>

\* The source rotated meanwhile, the grant is gone, or its lookup failed.
StartAbandoned(f) ==
  LET b == Current(f).broadcast
  IN /\ pc[f] = "installed"
     /\ \/ (~source[b] \/ grant[b] = 0) /\ CloseManaged(f, b, held[f])
        \/ Fault /\ Revoke(b, held[f]) /\ UNCHANGED <<retrying, issued>>
     /\ held' = [held EXCEPT ![f] = 0]
     /\ Deliver(f, Failed("start"))
     /\ UNCHANGED <<durable, source, fence, claims, stale, active, authority, drained,
                    committed, lost>>

(***************************************************************************)
(* Stop.                                                                   *)
(***************************************************************************)
\* Closing revokes the grant; the close, or the second revocation, may fail.
StopBroadcast(f) ==
  LET b == Current(f).broadcast g == active[f][b] IN
  /\ Executing(f, "stop") /\ g # 0
  /\ active' = [active EXCEPT ![f][b] = 0]
  /\ authority' = [authority EXCEPT ![f][b] = 0]
  /\ \/ /\ CloseManaged(f, b, g)
        /\ Deliver(f, IF faults' = faults THEN Stopped ELSE Failed("stop"))
     \/ /\ Revoke(b, g) /\ Fault
        /\ Deliver(f, Failed("stop"))
        /\ UNCHANGED <<retrying, issued>>
  /\ UNCHANGED <<durable, source, fence, claims, held, stale, drained, committed, lost>>

\* Nothing runs here: the durable generation is revoked, and a row without one
\* must have no active grant.
StopAbsent(f) ==
  LET b == Current(f).broadcast g == Current(f).runtime IN
  /\ Executing(f, "stop") /\ active[f][b] = 0
  /\ authority' = [authority EXCEPT ![f][b] = 0]
  /\ \/ /\ g # 0 \/ grant[b] = 0
        /\ Revoke(b, g) /\ NoFault
        /\ Deliver(f, Stopped)
     \/ /\ Fault \/ (NoFault /\ g = 0 /\ grant[b] # 0)
        /\ Deliver(f, Failed("stop"))
        /\ UNCHANGED grant
  /\ UNCHANGED <<durable, issued, source, fence, claims, held, stale, active, retrying, drained,
                 committed, lost>>

(***************************************************************************)
(* Completion: the exact claim, once; a failed or unanswered completion is *)
(* verified against the row and repeated.                                  *)
(***************************************************************************)
ClaimHolds(c) == commands[c.id].state = "claimed" /\ commands[c.id].generation = c.generation

CompletedRow(row, r) ==
  [row EXCEPT !.state = CASE r.kind = "started" -> "active"
                          [] r.kind = "stopped" -> "deleted"
                          [] OTHER -> "failed",
              !.runtime = r.runtime, !.code = r.code]

Complete(c, r) ==
  /\ ClaimHolds(c)
  /\ commands' = [commands EXCEPT ![c.id].state = IF r.kind = "failed" THEN "failed" ELSE "succeeded",
                                  ![c.id].lapsed = FALSE]
  /\ record' = [record EXCEPT ![c.broadcast] = CompletedRow(@, r)]
  /\ committed' = committed \cup ({r.runtime} \ {0})

CompletionIsVisible(r, row) ==
  /\ row.state = CompletedRow(row, r).state
  /\ r.kind = "started" => row.runtime = r.runtime
  /\ r.kind = "stopped" => row.runtime = 0
  /\ r.kind = "failed" => row.code = r.code

NextClaim(f) ==
  /\ claims' = [claims EXCEPT ![f] = @ \ {Current(f)}]
  /\ result' = [result EXCEPT ![f] = NoResult]
  /\ pc' = [pc EXCEPT ![f] = IF claims[f] = {Current(f)} THEN "idle" ELSE "starting"]

\* What execute does with the authoritative row: a durable UCTP start opens
\* the subscription authority, a stop closes it, and any other outcome of a
\* start takes its publication down.
Resolve(f, row) ==
  LET b == Current(f).broadcast r == result[f] IN
  IF Current(f).kind = "stop"
  THEN /\ authority' = [authority EXCEPT ![f][b] = IF CompletionIsVisible(r, row) THEN 0 ELSE @]
       /\ NextClaim(f)
  ELSE IF CompletionIsVisible(r, row) /\ r.kind = "started"
  THEN authority' = [authority EXCEPT ![f][b] = row.runtime] /\ NextClaim(f)
  ELSE /\ pc' = [pc EXCEPT ![f] = "undoing"]
       /\ UNCHANGED <<authority, claims, result>>

CompleteAnswered(f) ==
  /\ pc[f] = "completing"
  /\ Complete(Current(f), result[f])
  /\ Resolve(f, record'[Current(f).broadcast])
  /\ UNCHANGED <<store, source, fence, held, stale, active, retrying, drained, faults, lost>>

\* A stale claim, a database error, or a commit whose answer is lost.
CompleteAmbiguous(f) ==
  /\ pc[f] = "completing"
  /\ pc' = [pc EXCEPT ![f] = "verifying"]
  /\ \/ ~ClaimHolds(Current(f)) /\ NoFault /\ UNCHANGED <<durable, committed>>
     \/ Fault /\ UNCHANGED <<durable, committed>>
     \/ "complete" \in LostAnswers /\ Fault /\ Complete(Current(f), result[f])
  /\ UNCHANGED <<store, source, fence, claims, held, result, stale, active, authority, retrying,
                 drained, lost>>

VerifyCompletion(f) ==
  LET row == record[Current(f).broadcast] IN
  /\ pc[f] = "verifying"
  /\ IF CompletionIsVisible(result[f], row) \/ row.state \notin {"pending", "deleting"}
     THEN Resolve(f, row)
     ELSE pc' = [pc EXCEPT ![f] = "completing"] /\ UNCHANGED <<authority, claims, result>>
  /\ UNCHANGED <<durable, store, source, fence, held, stale, active, retrying, drained, faults,
                 committed, lost>>

\* cleanup_uncommitted_start: close, then revoke until the store answers.
CleanupUncommittedStart(f) ==
  LET b == Current(f).broadcast g == active[f][b] IN
  /\ pc[f] = "undoing"
  /\ authority' = [authority EXCEPT ![f][b] = 0]
  /\ active' = [active EXCEPT ![f][b] = 0]
  /\ \/ /\ g # 0 /\ CloseManaged(f, b, g)
        /\ held' = [held EXCEPT ![f] = g]
        /\ UNCHANGED <<claims, result, pc>>
     \/ /\ g = 0 /\ Revoke(b, held[f])
        /\ held' = [held EXCEPT ![f] = 0]
        /\ NextClaim(f)
        /\ UNCHANGED <<issued, faults, retrying>>
  /\ UNCHANGED <<durable, source, fence, stale, drained, committed, lost>>

(***************************************************************************)
(* Terminal reconciliation of what runs here: one entry per step.          *)
(***************************************************************************)
\* terminal_reason: expired, ended, released or rotated.  When the store does
\* not answer the entry stays for the next tick.
TerminalClose(f, b) ==
  /\ pc[f] = "idle" /\ active[f][b] # 0 /\ ~source[b]
  /\ authority' = [authority EXCEPT ![f][b] = 0]
  /\ CloseManaged(f, b, active[f][b])
  /\ IF faults' = faults
     THEN /\ held' = [held EXCEPT ![f] = active[f][b]]
          /\ pc' = [pc EXCEPT ![f] = "terminal"]
     ELSE UNCHANGED <<held, pc>>
  /\ UNCHANGED <<durable, source, fence, claims, result, stale, active, drained, committed, lost>>

ReconcileTerminal(f) ==
  /\ pc[f] = "terminal"
  /\ \E b \in Broadcasts :
       /\ active[f][b] = held[f]
       /\ \/ /\ record' = IF /\ record[b].state = "active" /\ record[b].fence = f
                            /\ record[b].runtime = held[f]
                         THEN [record EXCEPT ![b].state = "failed", ![b].runtime = 0,
                                             ![b].code = "terminal"]
                         ELSE record
             /\ active' = [active EXCEPT ![f][b] = 0]
             /\ NoFault
          \/ Fault /\ UNCHANGED <<record, active>>
  /\ held' = [held EXCEPT ![f] = 0]
  /\ pc' = [pc EXCEPT ![f] = "idle"]
  /\ UNCHANGED <<commands, store, source, fence, claims, result, stale, authority, retrying,
                 drained, committed, lost>>

(***************************************************************************)
(* Shutdown: stop the task (or abort it wherever it is), close everything, *)
(* fail the lease's rows, and clear the rows whose grant was revoked.      *)
(***************************************************************************)
ShuttingDown == {"closing", "failing", "finalizing"}

\* A managed broadcast dropped by the abort leaves its lease to the task.
BeginShutdown(f) ==
  /\ pc[f] \notin {"down"} \cup ShuttingDown
  /\ pc' = [pc EXCEPT ![f] = "closing"]
  /\ retrying' = [retrying EXCEPT ![f] =
       IF pc[f] = "installed" THEN @ \cup {<<Current(f).broadcast, held[f]>>} ELSE @]
  /\ lost' = IF pc[f] = "undoing" THEN lost \cup ({held[f]} \ {0}) ELSE lost
  /\ held' = [held EXCEPT ![f] = 0]
  /\ claims' = [claims EXCEPT ![f] = {}]
  /\ result' = [result EXCEPT ![f] = NoResult]
  /\ stale' = [stale EXCEPT ![f] = {}]
  /\ UNCHANGED <<durable, store, source, fence, active, authority, drained, faults, committed>>

ShutdownClose(f) ==
  /\ pc[f] = "closing"
  /\ \/ \E b \in Broadcasts :
          /\ active[f][b] # 0
          /\ authority' = [authority EXCEPT ![f][b] = 0]
          /\ active' = [active EXCEPT ![f][b] = 0]
          /\ CloseManaged(f, b, active[f][b])
          /\ drained' = [drained EXCEPT ![f] =
               IF faults' = faults THEN @ \cup {<<b, active[f][b]>>} ELSE @]
          /\ UNCHANGED pc
     \/ /\ active[f] = Nothing
        /\ pc' = [pc EXCEPT ![f] = "failing"]
        /\ UNCHANGED <<store, active, authority, retrying, drained, faults>>
  /\ UNCHANGED <<durable, source, fence, claims, held, result, stale, committed, lost>>

FailWorkerBroadcasts(f) ==
  /\ pc[f] = "failing"
  /\ \/ FailOpen({f}, "drained") /\ NoFault /\ UNCHANGED drained
     \/ Fault /\ drained' = [drained EXCEPT ![f] = {}] /\ UNCHANGED durable
  /\ pc' = [pc EXCEPT ![f] = "finalizing"]
  /\ UNCHANGED <<store, source, fence, claims, held, result, stale, active, authority, retrying,
                 committed, lost>>

FinalizeDrained(f) ==
  /\ pc[f] = "finalizing"
  /\ \E r \in drained[f] :
       /\ drained' = [drained EXCEPT ![f] = @ \ {r}]
       /\ \/ record' = FinalizeFailedCleanup(r[1], f, r[2]) /\ NoFault
          \/ Fault /\ UNCHANGED record
  /\ UNCHANGED <<commands, store, source, fence, pc, claims, held, result, stale, active,
                 authority, retrying, committed, lost>>

Exit(f) ==
  /\ pc[f] = "finalizing" /\ drained[f] = {}
  /\ Down(f)
  /\ lost' = lost \cup {g \in Generations : InHand(f, g) /\ ~Recorded(g)}
  /\ UNCHANGED <<durable, store, source, fence, faults, committed>>

(***************************************************************************)
(* The specification.  The newest process of the bounded model stays up.   *)
(***************************************************************************)
Work(f) ==
  \/ FailStaleWorkerBroadcasts(f) \/ CleanStaleRow(f) \/ StaleFencesReconciled(f)
  \/ ClaimAndExecute(f) \/ StartRefused(f) \/ ManagedStart(f)
  \/ StartInstalled(f) \/ StartAbandoned(f) \/ StopBroadcast(f) \/ StopAbsent(f)
  \/ CompleteAnswered(f) \/ CompleteAmbiguous(f) \/ VerifyCompletion(f)
  \/ CleanupUncommittedStart(f)
  \/ \E b \in Broadcasts : TerminalClose(f, b)
  \/ ReconcileTerminal(f)
  \/ ShutdownClose(f) \/ FailWorkerBroadcasts(f) \/ FinalizeDrained(f) \/ Exit(f)

Next ==
  \/ \E b \in Broadcasts : EnqueueStart(b) \/ EnqueueStop(b) \/ GrantExpires(b) \/ SourceLeaves(b)
  \/ Register
  \/ ClaimLapses
  \/ \E f \in Fences : Work(f) \/ RetryRevoke(f)
  \/ \E f \in Fences \ {MaxFence} : Crash(f) \/ BeginShutdown(f)

Restarted == fence = 0 \/ pc[fence] = "down"

Spec == Init /\ [][Next]_vars

\* The executor's task and the lease tasks run, time passes for a claim, and a
\* worker that went down is started again.
FairSpec == /\ Spec
            /\ \A f \in Fences : WF_vars(Work(f)) /\ WF_vars(RetryRevoke(f))
            /\ WF_vars(ClaimLapses)
            /\ WF_vars(Restarted /\ Register)

(***************************************************************************)
(* Properties.                                                             *)
(***************************************************************************)
\* The comment on the authority: "A gateway cannot subscribe until the start
\* result has committed durably".  Whatever the answers of complete were, an
\* open authority names the generation a durable start recorded, and that
\* publication still runs in this executor.
AuthorityIsCommitted ==
  \A f \in Fences, b \in Broadcasts :
    authority[f][b] # 0 => authority[f][b] \in committed /\ active[f][b] = authority[f][b]

\* No path of start, stop, cleanup, terminal reconciliation or shutdown drops
\* a grant that is still active in the shared store: a process holds it, its
\* row records it, or a crash or a store fault lost it.
GrantsAreAccountedFor ==
  \A b \in Broadcasts : grant[b] # 0 =>
    \/ Recorded(grant[b]) \/ grant[b] \in lost
    \/ \E f \in Fences : InHand(f, grant[b])

\* Publication, authority and grant go together on every path of start, stop,
\* cleanup, terminal reconciliation and shutdown.
AuthorityIsSettled == AuthorityIsCommitted /\ GrantsAreAccountedFor

\* The answer to the claim of its start was lost, so the start runs when the
\* claim lapses, possibly after the stop.
Reclaimed(b) == \E i \in DOMAIN commands : /\ commands[i].broadcast = b /\ commands[i].kind = "start"
                                           /\ commands[i].generation > 1

\* Only such a start opens a deleted broadcast again: late completions, stale
\* fences, zombies and shutdown never do.
OnlyReclaimsReopen ==
  [][\A b \in Broadcasts : record[b].state = "deleted" =>
       record'[b].state \in {"deleted", "failed"} \/ Reclaimed(b)]_vars

\* The answer of a committed start was lost and a DELETE moved the row on
\* before it was verified.
Overtaken(f) == /\ pc[f] \in {"completing", "verifying"} /\ Current(f).kind = "start"
                /\ ~ClaimHolds(Current(f)) /\ record[Current(f).broadcast].state = "deleting"

\* A DELETE that was accepted ends, also when a start overwrites its mark, the
\* store fails or the worker restarts; only a reclaimed or an overtaken start
\* holds it up.
DeletesFinishUnlessOvertaken ==
  \A b \in Broadcasts : record[b].state = "deleting" ~>
    \/ record[b].state \in {"deleted", "failed"}
    \/ Reclaimed(b) \/ \E f \in Fences : Overtaken(f)
=============================================================================
