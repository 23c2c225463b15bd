---------------------- MODULE BroadcastCommandsProofs ----------------------
(***************************************************************************)
(* Proofs about BroadcastCommands: an open subscription authority names a  *)
(* durable start whose publication runs, every active grant is accounted   *)
(* for, and only a reclaimed start opens a deleted broadcast again.        *)
(***************************************************************************)
EXTENDS BroadcastCommands, WellFoundedInduction, TLAPS

-----------------------------------------------------------------------------
(***************************************************************************)
(* The inductive invariant.                                                *)
(***************************************************************************)
Busy == {"starting", "installed", "completing", "verifying", "undoing"}
Decided == {"completing", "verifying", "undoing"}

\* What an executor keeps is tied to where it is.
ProcessInv ==
  /\ \A f \in Fences : f > fence => pc[f] = "down"
  /\ \A f \in Fences : claims[f] # {} <=> pc[f] \in Busy
  /\ \A f \in Fences : held[f] # 0 => pc[f] \in {"installed", "undoing", "terminal"}
  /\ \A f \in Fences, b \in Broadcasts :
       pc[f] \in {"down", "recovering", "cleaning"} => active[f][b] = 0

\* A row has one start, which precedes its stop and is claimed no later; the
\* lease that enqueued the start owns the row and its commands.  An unclaimed
\* start has an open row.
CommandsInv ==
  /\ \A b \in Broadcasts : record[b].fence <= fence
  /\ \A b \in Broadcasts : record[b].state = "none" <=> record[b].fence = 0
  /\ \A i \in DOMAIN commands :
       commands[i].fence = record[commands[i].broadcast].fence
  /\ \A i, j \in DOMAIN commands :
       /\ commands[i].kind = "start"
       /\ commands[i].broadcast = commands[j].broadcast
       => IF commands[j].kind = "start" THEN i = j
          ELSE i < j /\ (commands[i].state = "pending" => commands[j].state = "pending")
  /\ \A i \in DOMAIN commands :
       /\ commands[i].state = "pending" => commands[i].generation = 0
       /\ commands[i].state = "claimed" => commands[i].generation # 0
       /\ commands[i].state = "pending" /\ commands[i].kind = "start"
            => record[commands[i].broadcast].state \in {"pending", "deleting"}

\* A claim in hand is the command of its id, and the first claim of a start
\* still has an open row: its stop comes later.
ClaimsInv ==
  \A f \in Fences : \A c \in claims[f] :
    /\ c.id \in DOMAIN commands
    /\ commands[c.id].broadcast = c.broadcast
    /\ commands[c.id].kind = c.kind
    /\ commands[c.id].fence = f
    /\ commands[c.id].state # "pending"
    /\ \A d \in claims[f] : c.id = d.id => c = d
    /\ c.kind = "start" /\ commands[c.id].state = "claimed" /\ commands[c.id].generation = 1
         => record[c.broadcast].state \in {"pending", "deleting"}

\* A recorded generation was committed by the start of an owned row, and that
\* start is finished.
RecordedInv ==
  \A b \in Broadcasts : record[b].runtime # 0 =>
    /\ record[b].fence # 0 /\ record[b].runtime \in committed
    /\ \A i \in DOMAIN commands :
         commands[i].broadcast = b /\ commands[i].kind = "start"
           => commands[i].state \in {"succeeded", "failed"}

\* What runs belongs to the lease of its row, and its start is finished or is
\* the command whose result is being settled.
ActiveAt(f, b) ==
  active[f][b] # 0 =>
    /\ record[b].fence = f
    /\ \A i \in DOMAIN commands :
         /\ commands[i].broadcast = b /\ commands[i].kind = "start"
         /\ commands[i].state \in {"pending", "claimed"}
         => \/ pc[f] \in ShuttingDown
            \/ pc[f] \in Decided /\ Current(f).id = i
    /\ \A c \in claims[f] : c.broadcast = b /\ c.kind = "start"
         => pc[f] \in Decided /\ Current(f) = c

ActiveInv == \A f \in Fences, b \in Broadcasts : ActiveAt(f, b)

\* The result that is settled agrees with what runs.
ResultAt(f) ==
  /\ result[f].kind # "started" => result[f].runtime = 0
  /\ pc[f] = "installed" => Current(f).kind = "start"
  /\ pc[f] \in {"completing", "verifying"} =>
       /\ result[f].kind = "started" =>
            /\ Current(f).kind = "start"
            /\ result[f].runtime # 0
            /\ active[f][Current(f).broadcast] = result[f].runtime
       /\ Current(f).kind = "stop" => active[f][Current(f).broadcast] = 0

ResultInv == \A f \in Fences : ResultAt(f)

\* The start that is executed or undone carries the grant.
Carries(f, b, g) ==
  pc[f] \in {"installed", "undoing"} /\ Current(f).broadcast = b /\ held[f] = g

Holds(f, b, g) ==
  active[f][b] = g \/ <<b, g>> \in retrying[f] \/ Carries(f, b, g)

Uses(b, g) ==
  \/ grant[b] = g \/ record[b].runtime = g
  \/ \E f \in Fences : Holds(f, b, g) \/ <<b, g>> \in drained[f]

\* A generation was issued, and to one broadcast.
UniqueInv ==
  /\ \A b \in Broadcasts, g \in Generations : Uses(b, g) => g <= issued
  /\ \A b, c \in Broadcasts, g \in Generations : Uses(b, g) /\ Uses(c, g) => b = c

\* What a step of the executor relies on about the grant it holds.
HeldAt(f) ==
  /\ pc[f] = "installed" =>
       held[f] # 0 /\ grant[Current(f).broadcast] \in {0, held[f]}
  /\ pc[f] = "undoing" /\ held[f] # 0 => active[f][Current(f).broadcast] = 0
  /\ pc[f] = "terminal" =>
       /\ held[f] # 0
       /\ \A b \in Broadcasts : active[f][b] = held[f] =>
            authority[f][b] = 0 /\ grant[b] # held[f]

HeldInv == \A f \in Fences : HeldAt(f)

\* A recorded generation whose publication no longer runs in the live lease
\* of its row is revoked, being revoked, or lost.
RevokedAt(f, b) ==
  /\ pc[f] \notin {"down"} \cup ShuttingDown
  /\ record[b].fence = f /\ record[b].runtime # 0 /\ active[f][b] # record[b].runtime
  => \/ grant[b] # record[b].runtime
     \/ <<b, record[b].runtime>> \in retrying[f]
     \/ record[b].runtime \in lost

DrainedAt(f, b) == \A g \in Generations : <<b, g>> \in drained[f] => grant[b] # g

RevokedInv == \A f \in Fences, b \in Broadcasts : RevokedAt(f, b) /\ DrainedAt(f, b)

\* An active grant is recorded by its own row, held for its own broadcast, or
\* lost.
Accounted(b, g) ==
  record[b].runtime = g \/ g \in lost \/ \E f \in Fences : Holds(f, b, g)

GrantInv == \A b \in Broadcasts : grant[b] # 0 => Accounted(b, grant[b])

Inv ==
  /\ TypeOK /\ ProcessInv /\ CommandsInv /\ ClaimsInv /\ RecordedInv /\ ActiveInv /\ ResultInv
  /\ UniqueInv /\ HeldInv /\ RevokedInv /\ GrantInv /\ AuthorityIsCommitted

-----------------------------------------------------------------------------
(***************************************************************************)
(* Type correctness, one part of the state at a time.                      *)
(***************************************************************************)
RecordType == record \in [Broadcasts -> Row]
CommandsType == commands \in Seq(Command)
SourceType == source \in [Broadcasts -> BOOLEAN]
StoreType == grant \in [Broadcasts -> Generations \cup {0}] /\ issued \in Generations \cup {0}
ExecutorType ==
  /\ fence \in 0..MaxFence
  /\ pc \in [Fences -> Step]
  /\ claims \in [Fences -> SUBSET Claim]
  /\ held \in [Fences -> Generations \cup {0}]
  /\ result \in [Fences -> Result]
  /\ stale \in [Fences -> SUBSET Broadcasts]
RunningType ==
  /\ active \in [Fences -> [Broadcasts -> Generations \cup {0}]]
  /\ authority \in [Fences -> [Broadcasts -> Generations \cup {0}]]
  /\ retrying \in [Fences -> SUBSET (Broadcasts \X Generations)]
  /\ drained \in [Fences -> SUBSET (Broadcasts \X Generations)]
HistoryType ==
  /\ faults \in 0..MaxFaults
  /\ committed \subseteq Generations
  /\ lost \subseteq Generations

\* The parts together are the type invariant.
LEMMA TypeParts ==
    TypeOK <=> /\ RecordType /\ CommandsType /\ SourceType /\ StoreType
               /\ ExecutorType /\ RunningType /\ HistoryType
  BY DEF TypeOK, RecordType, CommandsType, SourceType, StoreType, ExecutorType, RunningType,
         HistoryType

\* A set of numbers that is not empty has a smallest one.
LEMMA SmallestOf ==
    ASSUME NEW S \in SUBSET Nat, S # {}
    PROVE  \E x \in S : \A y \in S : x <= y
  <1>1. PICK x \in S : \A y \in S : ~(<<y, x>> \in OpToRel(<, Nat))
    BY NatLessThanWellFounded, WFMin
  <1>2. \A y \in S : ~(y < x)
    BY <1>1 DEF OpToRel
  <1> QED
    BY <1>2

\* The executor works on a claim it holds, and on the oldest one.
LEMMA CurrentFacts ==
    ASSUME ExecutorType, NEW f \in Fences, claims[f] # {}
    PROVE  /\ Current(f) \in claims[f]
           /\ Current(f) \in Claim
           /\ \A d \in claims[f] : Current(f).id <= d.id
  <1>1. claims[f] \subseteq Claim
    BY DEF ExecutorType
  <1>2. \A c \in claims[f] : c.id \in Nat
    BY <1>1 DEF Claim
  <1> DEFINE ids == {c.id : c \in claims[f]}
  <1>3. ids \in SUBSET Nat /\ ids # {}
    BY <1>2
  <1>4. PICK x \in ids : \A y \in ids : x <= y
    BY <1>3, SmallestOf
  <1>5. \E c \in claims[f] : \A d \in claims[f] : c.id <= d.id
    BY <1>4
  <1>6. /\ Current(f) \in claims[f]
        /\ \A d \in claims[f] : Current(f).id <= d.id
    BY <1>5 DEF Current
  <1> QED
    BY <1>1, <1>6

\* It stays the same claim while the claims do.
LEMMA SameCurrent ==
    ASSUME NEW f \in Fences, claims'[f] = claims[f]
    PROVE  Current(f)' = Current(f)
  BY DEF Current

\* A row keeps its type under the updates made of it.
LEMMA RowUpdates ==
    ASSUME NEW r \in Row, NEW s \in RowState, NEW g \in Generations \cup {0}, NEW c \in Code
    PROVE  /\ [r EXCEPT !.state = s] \in Row
           /\ [r EXCEPT !.state = s, !.code = c] \in Row
           /\ [r EXCEPT !.runtime = 0] \in Row
           /\ [r EXCEPT !.state = s, !.runtime = g, !.code = c] \in Row
  BY DEF Row

\* So does a command.
LEMMA CommandUpdates ==
    ASSUME NEW c \in Command, NEW s \in CommandState
    PROVE  /\ [c EXCEPT !.state = s, !.lapsed = FALSE] \in Command
           /\ [c EXCEPT !.lapsed = TRUE] \in Command
           /\ [c EXCEPT !.state = s, !.lapsed = FALSE, !.generation = c.generation + 1] \in Command
  <1>1. c.generation + 1 \in Nat
    BY DEF Command
  <1>2. ASSUME NEW g \in Nat
        PROVE  [c EXCEPT !.state = s, !.lapsed = FALSE, !.generation = g] \in Command
    BY DEF Command
  <1>3. /\ [c EXCEPT !.state = s, !.lapsed = FALSE] \in Command
        /\ [c EXCEPT !.lapsed = TRUE] \in Command
    BY DEF Command
  <1> QED
    BY <1>1, <1>2, <1>3

\* A sequence whose elements are replaced stays a sequence.
LEMMA SameLength ==
    ASSUME NEW S, NEW s \in Seq(S), NEW t, t = [i \in DOMAIN s |-> t[i]],
           \A i \in DOMAIN s : t[i] \in S
    PROVE  t \in Seq(S) /\ DOMAIN t = DOMAIN s
  <1>1. Len(s) \in Nat /\ DOMAIN s = 1..Len(s)
    OBVIOUS
  <1>2. t \in [1..Len(s) -> S]
    BY <1>1
  <1> QED
    BY <1>1, <1>2

-----------------------------------------------------------------------------
(***************************************************************************)
(* What the building blocks of the actions do.                             *)
(***************************************************************************)
\* A fault counts against the bound.
LEMMA FaultFacts ==
    ASSUME HistoryType, Fault
    PROVE  faults' \in 0..MaxFaults /\ faults' # faults
  BY BoundsAreNat DEF HistoryType, Fault

\* A revocation ends exactly the given generation of one broadcast.
LEMMA RevokeFacts ==
    ASSUME StoreType, NEW b \in Broadcasts, NEW g \in Generations \cup {0}, Revoke(b, g)
    PROVE  /\ grant' \in [Broadcasts -> Generations \cup {0}]
           /\ \A c \in Broadcasts : grant'[c] \in {grant[c], 0}
           /\ g # 0 => grant'[b] # g
           /\ \A c \in Broadcasts : grant'[c] # grant[c] => grant[c] = g
  BY DEF StoreType, Revoke

\* A close revokes the grant, or leaves its lease to be revoked later.
LEMMA CloseFacts ==
    ASSUME StoreType, RunningType, HistoryType,
           NEW f \in Fences, NEW b \in Broadcasts, NEW g \in Generations, CloseManaged(f, b, g),
           0 \notin Generations
    PROVE  /\ StoreType' /\ issued' = issued
           /\ faults' \in 0..MaxFaults
           /\ retrying' \in [Fences -> SUBSET (Broadcasts \X Generations)]
           /\ \A c \in Broadcasts : grant'[c] \in {grant[c], 0}
           /\ \A e \in Fences : retrying[e] \subseteq retrying'[e]
           /\ \A e \in Fences : \A r \in retrying'[e] : r \in retrying[e] \/ (e = f /\ r = <<b, g>>)
           /\ \/ grant'[b] # g /\ faults' = faults
              \/ <<b, g>> \in retrying'[f] /\ faults' # faults
  <1>1. CASE Revoke(b, g) /\ NoFault /\ UNCHANGED <<retrying, issued>>
    <2>1. /\ grant' \in [Broadcasts -> Generations \cup {0}]
          /\ \A c \in Broadcasts : grant'[c] \in {grant[c], 0}
          /\ grant'[b] # g
      BY <1>1, RevokeFacts
    <2> QED
      BY <1>1, <2>1 DEF StoreType, RunningType, HistoryType, NoFault
  <1>2. CASE /\ Fault
             /\ retrying' = [retrying EXCEPT ![f] = @ \cup {<<b, g>>}]
             /\ UNCHANGED store
    <2>1. faults' \in 0..MaxFaults /\ faults' # faults
      BY <1>2, FaultFacts
    <2>2. <<b, g>> \in Broadcasts \X Generations
      OBVIOUS
    <2>3. /\ retrying' \in [Fences -> SUBSET (Broadcasts \X Generations)]
          /\ \A e \in Fences : retrying[e] \subseteq retrying'[e]
          /\ \A e \in Fences : \A r \in retrying'[e] : r \in retrying[e] \/ (e = f /\ r = <<b, g>>)
          /\ <<b, g>> \in retrying'[f]
      BY <1>2, <2>2 DEF RunningType
    <2> QED
      BY <1>2, <2>1, <2>3 DEF StoreType, store
  <1> QED
    BY <1>1, <1>2 DEF CloseManaged

\* Generations start at one.
LEMMA GenerationFacts ==
    0 \notin Generations /\ Generations \subseteq Nat
  BY BoundsAreNat DEF Generations

\* What the failure of a set of leases does to each row and each command.
LEMMA FailOpenFacts ==
    ASSUME RecordType, CommandsType, NEW old, NEW code \in Code, FailOpen(old, code)
    PROVE  /\ RecordType' /\ CommandsType'
           /\ DOMAIN commands' = DOMAIN commands
           /\ \A b \in Broadcasts :
                /\ record'[b].fence = record[b].fence
                /\ record'[b].runtime = record[b].runtime
                /\ IF record[b].fence \in old /\ record[b].state \in Open
                   THEN record'[b].state = "failed" ELSE record'[b] = record[b]
           /\ \A i \in DOMAIN commands :
                /\ commands'[i].broadcast = commands[i].broadcast
                /\ commands'[i].kind = commands[i].kind
                /\ commands'[i].fence = commands[i].fence
                /\ commands'[i].generation = commands[i].generation
                /\ IF commands[i].fence \in old /\ commands[i].state \in {"pending", "claimed"}
                   THEN commands'[i].state = "failed" ELSE commands'[i].state = commands[i].state
  <1>1. "failed" \in RowState /\ "failed" \in CommandState
    BY DEF RowState, CommandState
  <1>2. \A b \in Broadcasts : record'[b] =
          IF record[b].fence \in old /\ record[b].state \in Open
          THEN [record[b] EXCEPT !.state = "failed", !.code = code] ELSE record[b]
    BY DEF FailOpen
  <1>3. \A i \in DOMAIN commands : commands'[i] =
          IF commands[i].fence \in old /\ commands[i].state \in {"pending", "claimed"}
          THEN [commands[i] EXCEPT !.state = "failed", !.lapsed = FALSE] ELSE commands[i]
    BY DEF FailOpen
  <1>4. \A b \in Broadcasts : record[b] \in Row
    BY DEF RecordType
  <1>5. \A i \in DOMAIN commands : commands[i] \in Command
    BY DEF CommandsType
  <1>6. \A b \in Broadcasts : record'[b] \in Row
    <2>1. ASSUME NEW b \in Broadcasts
          PROVE  [record[b] EXCEPT !.state = "failed", !.code = code] \in Row
      BY <1>1, <1>4, RowUpdates
    <2> QED
      BY <1>2, <1>4, <2>1
  <1>7. \A i \in DOMAIN commands : commands'[i] \in Command
    <2>1. ASSUME NEW i \in DOMAIN commands
          PROVE  [commands[i] EXCEPT !.state = "failed", !.lapsed = FALSE] \in Command
      BY <1>1, <1>5, CommandUpdates
    <2> QED
      BY <1>3, <1>5, <2>1
  <1>8. RecordType'
    BY <1>6 DEF FailOpen, RecordType
  <1>9. CommandsType' /\ DOMAIN commands' = DOMAIN commands
    <2>1. commands' = [i \in DOMAIN commands |-> commands'[i]]
      BY DEF FailOpen
    <2>2. commands \in Seq(Command)
      BY DEF CommandsType
    <2>3. commands' \in Seq(Command) /\ DOMAIN commands' = DOMAIN commands
      BY <1>7, <2>1, <2>2, SameLength
    <2> QED
      BY <2>3 DEF CommandsType
  <1>10. \A b \in Broadcasts :
                /\ record'[b].fence = record[b].fence
                /\ record'[b].runtime = record[b].runtime
                /\ IF record[b].fence \in old /\ record[b].state \in Open
                   THEN record'[b].state = "failed" ELSE record'[b] = record[b]
    BY <1>2, <1>4 DEF Row
  <1>11. \A i \in DOMAIN commands :
                /\ commands'[i].broadcast = commands[i].broadcast
                /\ commands'[i].kind = commands[i].kind
                /\ commands'[i].fence = commands[i].fence
                /\ commands'[i].generation = commands[i].generation
                /\ IF commands[i].fence \in old /\ commands[i].state \in {"pending", "claimed"}
                   THEN commands'[i].state = "failed" ELSE commands'[i].state = commands[i].state
    BY <1>3, <1>5 DEF Command
  <1> QED
    BY <1>8, <1>9, <1>10, <1>11

\* What a committed completion does to each row and each command.
LEMMA CompleteFacts ==
    ASSUME RecordType, CommandsType, NEW c \in Claim, NEW r \in Result, Complete(c, r),
           c.id \in DOMAIN commands
    PROVE  /\ RecordType' /\ CommandsType'
           /\ DOMAIN commands' = DOMAIN commands
           /\ commands[c.id].state = "claimed"
           /\ \A b \in Broadcasts :
                /\ record'[b].fence = record[b].fence
                /\ b # c.broadcast => record'[b] = record[b]
           /\ record'[c.broadcast].runtime = r.runtime
           /\ record'[c.broadcast].state = CASE r.kind = "started" -> "active"
                                             [] r.kind = "stopped" -> "deleted"
                                             [] OTHER -> "failed"
           /\ \A i \in DOMAIN commands :
                /\ commands'[i].broadcast = commands[i].broadcast
                /\ commands'[i].kind = commands[i].kind
                /\ commands'[i].fence = commands[i].fence
                /\ commands'[i].generation = commands[i].generation
                /\ IF i = c.id THEN commands'[i].state \in {"succeeded", "failed"}
                   ELSE commands'[i].state = commands[i].state
           /\ committed' = committed \cup ({r.runtime} \ {0})
  <1> DEFINE s == CASE r.kind = "started" -> "active"
                    [] r.kind = "stopped" -> "deleted"
                    [] OTHER -> "failed"
             t == IF r.kind = "failed" THEN "failed" ELSE "succeeded"
  <1>1. s \in RowState /\ t \in CommandState /\ t \in {"succeeded", "failed"}
    BY DEF RowState, CommandState
  <1>2. c.broadcast \in Broadcasts /\ r.runtime \in Generations \cup {0} /\ r.code \in Code
    BY DEF Claim, Result
  <1>3. record' = [record EXCEPT ![c.broadcast] =
                     [record[c.broadcast] EXCEPT !.state = s, !.runtime = r.runtime, !.code = r.code]]
    BY DEF Complete, CompletedRow
  <1>4. commands' = [commands EXCEPT ![c.id].state = t, ![c.id].lapsed = FALSE]
    BY DEF Complete
  <1>5. \A i \in DOMAIN commands : commands[i] \in Command
    BY DEF CommandsType
  <1>6. commands' = [i \in DOMAIN commands |->
          IF i = c.id THEN [commands[i] EXCEPT !.state = t, !.lapsed = FALSE] ELSE commands[i]]
    BY <1>4, <1>5
  <1>7. \A i \in DOMAIN commands : commands'[i] =
          IF i = c.id THEN [commands[i] EXCEPT !.state = t, !.lapsed = FALSE] ELSE commands[i]
    BY <1>6
  <1>8. record[c.broadcast] \in Row
    BY <1>2 DEF RecordType
  <1> HIDE DEF s, t
  <1>9. [record[c.broadcast] EXCEPT !.state = s, !.runtime = r.runtime, !.code = r.code] \in Row
    BY <1>1, <1>2, <1>8, RowUpdates
  <1>10. RecordType'
    BY <1>2, <1>3, <1>9 DEF RecordType
  <1>11. \A i \in DOMAIN commands : commands'[i] \in Command
    <2>1. ASSUME NEW i \in DOMAIN commands
          PROVE  [commands[i] EXCEPT !.state = t, !.lapsed = FALSE] \in Command
      BY <1>1, <1>5, CommandUpdates
    <2> QED
      BY <1>5, <1>7, <2>1
  <1>12. CommandsType' /\ DOMAIN commands' = DOMAIN commands
    <2>1. commands' = [i \in DOMAIN commands |-> commands'[i]]
      BY <1>6
    <2>2. commands \in Seq(Command)
      BY DEF CommandsType
    <2>3. commands' \in Seq(Command) /\ DOMAIN commands' = DOMAIN commands
      BY <1>11, <2>1, <2>2, SameLength
    <2> QED
      BY <2>3 DEF CommandsType
  <1>13. /\ \A b \in Broadcasts :
              /\ record'[b].fence = record[b].fence
              /\ b # c.broadcast => record'[b] = record[b]
         /\ record'[c.broadcast].runtime = r.runtime
         /\ record'[c.broadcast].state = s
    BY <1>2, <1>3, <1>8 DEF RecordType, Row
  <1>14. \A i \in DOMAIN commands :
                /\ commands'[i].broadcast = commands[i].broadcast
                /\ commands'[i].kind = commands[i].kind
                /\ commands'[i].fence = commands[i].fence
                /\ commands'[i].generation = commands[i].generation
                /\ IF i = c.id THEN commands'[i].state = t
                   ELSE commands'[i].state = commands[i].state
    BY <1>5, <1>7 DEF Command
  <1>15. commands[c.id].state = "claimed" /\ committed' = committed \cup ({r.runtime} \ {0})
    BY DEF Complete, ClaimHolds
  <1> QED
    BY <1>1, <1>10, <1>12, <1>13, <1>14, <1>15 DEF s

\* What an accepted start adds.
LEMMA EnqueueStartFacts ==
    ASSUME RecordType, CommandsType, ExecutorType, NEW b \in Broadcasts, EnqueueStart(b)
    PROVE  /\ RecordType' /\ CommandsType'
           /\ fence \in Fences
           /\ record[b].state = "none"
           /\ record'[b].state = "pending" /\ record'[b].fence = fence /\ record'[b].runtime = 0
           /\ \A c \in Broadcasts : c # b => record'[c] = record[c]
           /\ Len(commands) \in Nat /\ DOMAIN commands = 1..Len(commands)
           /\ DOMAIN commands' = 1..(Len(commands) + 1)
           /\ \A i \in DOMAIN commands : commands'[i] = commands[i]
           /\ commands'[Len(commands) + 1] = NewCommand(b, "start", fence)
  <1>1. fence \in Fences
    BY BoundsAreNat DEF EnqueueStart, LockWorker, ExecutorType, Fences
  <1>2. NewCommand(b, "start", fence) \in Command
    BY <1>1 DEF NewCommand, Command, CommandState
  <1>3. [state |-> "pending", fence |-> fence, runtime |-> 0, code |-> "none"] \in Row
    BY DEF Row, RowState, Code, ExecutorType
  <1>4. RecordType'
    BY <1>3 DEF EnqueueStart, RecordType
  <1>5. commands' = Append(commands, NewCommand(b, "start", fence))
    BY DEF EnqueueStart
  <1> HIDE DEF NewCommand
  <1>6. /\ CommandsType'
        /\ Len(commands) \in Nat /\ DOMAIN commands = 1..Len(commands)
        /\ DOMAIN commands' = 1..(Len(commands) + 1)
        /\ \A i \in DOMAIN commands : commands'[i] = commands[i]
        /\ commands'[Len(commands) + 1] = NewCommand(b, "start", fence)
    BY <1>2, <1>5 DEF CommandsType
  <1>7. /\ record[b].state = "none"
        /\ record'[b].state = "pending" /\ record'[b].fence = fence /\ record'[b].runtime = 0
        /\ \A c \in Broadcasts : c # b => record'[c] = record[c]
    BY DEF EnqueueStart, RecordType
  <1> QED
    BY <1>1, <1>4, <1>6, <1>7

\* What an accepted DELETE changes.
LEMMA EnqueueStopFacts ==
    ASSUME RecordType, CommandsType, ExecutorType, NEW b \in Broadcasts, EnqueueStop(b),
           record[b].fence \in Fences
    PROVE  /\ RecordType' /\ CommandsType'
           /\ \/ record[b].state \in Open /\ record'[b].state = "deleting"
              \/ record[b].state = "failed" /\ record'[b].state = "deleted"
           /\ \A c \in Broadcasts :
                /\ record'[c].fence = record[c].fence
                /\ record'[c].runtime = record[c].runtime
                /\ c # b => record'[c] = record[c]
           /\ Len(commands) \in Nat /\ DOMAIN commands = 1..Len(commands)
           /\ \A i \in DOMAIN commands : i \in DOMAIN commands' /\ commands'[i] = commands[i]
           /\ \A i \in DOMAIN commands' : i \notin DOMAIN commands =>
                i = Len(commands) + 1 /\ commands'[i] = NewCommand(b, "stop", record[b].fence)
  <1>1. NewCommand(b, "stop", record[b].fence) \in Command
    BY DEF NewCommand, Command, CommandState
  <1>2. record[b] \in Row
    BY DEF RecordType
  <1>3. /\ RecordType'
        /\ \/ record[b].state \in Open /\ record'[b].state = "deleting"
           \/ record[b].state = "failed" /\ record'[b].state = "deleted"
        /\ \A c \in Broadcasts :
             /\ record'[c].fence = record[c].fence
             /\ record'[c].runtime = record[c].runtime
             /\ c # b => record'[c] = record[c]
    <2>1. \/ record[b].state \in Open /\ record' = [record EXCEPT ![b].state = "deleting"]
          \/ record[b].state = "failed" /\ record' = [record EXCEPT ![b].state = "deleted"]
      BY DEF EnqueueStop, DeleteFailed, DeleteOpen
    <2>2. /\ [record[b] EXCEPT !.state = "deleting"] \in Row
          /\ [record[b] EXCEPT !.state = "deleted"] \in Row
      BY <1>2 DEF Row, RowState
    <2> QED
      BY <1>2, <2>1, <2>2 DEF RecordType, Row
  <1>4. \/ commands' = commands
        \/ commands' = Append(commands, NewCommand(b, "stop", record[b].fence))
    BY DEF EnqueueStop, DeleteFailed, DeleteOpen
  <1> HIDE DEF NewCommand
  <1>5. /\ CommandsType'
        /\ Len(commands) \in Nat /\ DOMAIN commands = 1..Len(commands)
        /\ \A i \in DOMAIN commands : i \in DOMAIN commands' /\ commands'[i] = commands[i]
        /\ \A i \in DOMAIN commands' : i \notin DOMAIN commands =>
             i = Len(commands) + 1 /\ commands'[i] = NewCommand(b, "stop", record[b].fence)
    BY <1>1, <1>4 DEF CommandsType
  <1> QED
    BY <1>3, <1>5

\* The cleanup of a failed row forgets its generation and nothing else.
LEMMA FinalizeFacts ==
    ASSUME RecordType, NEW b \in Broadcasts, NEW f, NEW g,
           record' = FinalizeFailedCleanup(b, f, g)
    PROVE  /\ RecordType'
           /\ \A c \in Broadcasts :
                /\ record'[c].fence = record[c].fence
                /\ record'[c].state = record[c].state
                /\ c # b => record'[c] = record[c]
           /\ record'[b].runtime = record[b].runtime \/ (record'[b].runtime = 0 /\ record[b].runtime = g)
  <1>1. record[b] \in Row
    BY DEF RecordType
  <1>2. [record[b] EXCEPT !.runtime = 0] \in Row
    BY <1>1 DEF Row
  <1> QED
    BY <1>1, <1>2 DEF FinalizeFailedCleanup, RecordType, Row

\* What a claim transaction does to each command.
LEMMA ClaimFacts ==
    ASSUME CommandsType, NEW f \in Fences, ClaimAndExecute(f)
    PROVE  /\ CommandsType' /\ DOMAIN commands' = DOMAIN commands
           /\ \A i \in DOMAIN commands :
                /\ commands'[i].broadcast = commands[i].broadcast
                /\ commands'[i].kind = commands[i].kind
                /\ commands'[i].fence = commands[i].fence
                /\ IF Claimable(i, f)
                   THEN commands'[i].state = "claimed" /\ commands'[i].generation = commands[i].generation + 1
                   ELSE commands'[i] = commands[i]
  <1>1. commands' = [i \in DOMAIN commands |->
          IF Claimable(i, f) THEN [commands[i] EXCEPT !.state = "claimed", !.lapsed = FALSE,
                                                      !.generation = commands[i].generation + 1]
          ELSE commands[i]]
    BY DEF ClaimAndExecute
  <1>2. \A i \in DOMAIN commands : commands'[i] =
          IF Claimable(i, f) THEN [commands[i] EXCEPT !.state = "claimed", !.lapsed = FALSE,
                                                      !.generation = commands[i].generation + 1]
          ELSE commands[i]
    BY <1>1
  <1>3. \A i \in DOMAIN commands : commands[i] \in Command
    BY DEF CommandsType
  <1>4. \A i \in DOMAIN commands : commands'[i] \in Command
    <2>1. ASSUME NEW i \in DOMAIN commands
          PROVE  [commands[i] EXCEPT !.state = "claimed", !.lapsed = FALSE,
                                     !.generation = commands[i].generation + 1] \in Command
      <3>1. "claimed" \in CommandState
        BY DEF CommandState
      <3> QED
        BY <1>3, <3>1, CommandUpdates
    <2> QED
      BY <1>2, <1>3, <2>1
  <1>5. CommandsType' /\ DOMAIN commands' = DOMAIN commands
    <2>1. commands' = [i \in DOMAIN commands |-> commands'[i]]
      BY <1>1
    <2>2. commands \in Seq(Command)
      BY DEF CommandsType
    <2>3. commands' \in Seq(Command) /\ DOMAIN commands' = DOMAIN commands
      BY <1>4, <2>1, <2>2, SameLength
    <2> QED
      BY <2>3 DEF CommandsType
  <1>6. \A i \in DOMAIN commands :
          /\ commands'[i].broadcast = commands[i].broadcast
          /\ commands'[i].kind = commands[i].kind
          /\ commands'[i].fence = commands[i].fence
          /\ IF Claimable(i, f)
             THEN commands'[i].state = "claimed" /\ commands'[i].generation = commands[i].generation + 1
             ELSE commands'[i] = commands[i]
    BY <1>2, <1>3 DEF Command
  <1> QED
    BY <1>5, <1>6

\* A lapse only marks the claim.
LEMMA LapseFacts ==
    ASSUME CommandsType, ClaimLapses
    PROVE  /\ CommandsType' /\ DOMAIN commands' = DOMAIN commands
           /\ \A i \in DOMAIN commands :
                /\ commands'[i].broadcast = commands[i].broadcast
                /\ commands'[i].kind = commands[i].kind
                /\ commands'[i].fence = commands[i].fence
                /\ commands'[i].state = commands[i].state
                /\ commands'[i].generation = commands[i].generation
  <1>1. PICK j \in DOMAIN commands : commands' = [commands EXCEPT ![j].lapsed = TRUE]
    BY DEF ClaimLapses
  <1>2. \A i \in DOMAIN commands : commands[i] \in Command
    BY DEF CommandsType
  <1>3. [commands[j] EXCEPT !.lapsed = TRUE] \in Command
    BY <1>2 DEF Command
  <1>4. /\ commands' = [i \in DOMAIN commands |-> commands'[i]]
        /\ commands'[j] = [commands[j] EXCEPT !.lapsed = TRUE]
        /\ \A i \in DOMAIN commands : i # j => commands'[i] = commands[i]
    BY <1>1
  <1>5. \A i \in DOMAIN commands : commands'[i] \in Command
    BY <1>2, <1>3, <1>4
  <1>6. commands \in Seq(Command)
    BY DEF CommandsType
  <1>7. commands' \in Seq(Command) /\ DOMAIN commands' = DOMAIN commands
    BY <1>4, <1>5, <1>6, SameLength
  <1>8. \A i \in DOMAIN commands :
                /\ commands'[i].broadcast = commands[i].broadcast
                /\ commands'[i].kind = commands[i].kind
                /\ commands'[i].fence = commands[i].fence
                /\ commands'[i].state = commands[i].state
                /\ commands'[i].generation = commands[i].generation
    BY <1>2, <1>4 DEF Command
  <1> QED
    BY <1>7, <1>8 DEF CommandsType

\* Terminal reconciliation fails the row of the entry it removes, if it is
\* still the active row of that generation.
LEMMA TerminalFacts ==
    ASSUME RecordType, RunningType, NEW f \in Fences, ReconcileTerminal(f)
    PROVE  \E b \in Broadcasts :
             /\ active[f][b] = held[f]
             /\ RecordType'
             /\ active' \in [Fences -> [Broadcasts -> Generations \cup {0}]]
             /\ \A e \in Fences, c \in Broadcasts :
                  active'[e][c] = active[e][c] \/ (e = f /\ c = b /\ active'[e][c] = 0)
             /\ \A c \in Broadcasts :
                  /\ record'[c].fence = record[c].fence
                  /\ record'[c] = record[c] \/ /\ c = b /\ record[b].state = "active"
                                               /\ record[b].runtime = held[f]
                                               /\ record'[b].state = "failed"
                                               /\ record'[b].runtime = 0
  <1>1. PICK b \in Broadcasts :
          /\ active[f][b] = held[f]
          /\ \/ /\ record' = IF /\ record[b].state = "active" /\ record[b].fence = f
                                /\ record[b].runtime = held[f]
                             THEN [record EXCEPT ![b].state = "failed", ![b].runtime = 0,
                                                 ![b].code = "terminal"]
                             ELSE record
                /\ active' = [active EXCEPT ![f][b] = 0]
             \/ UNCHANGED <<record, active>>
    BY DEF ReconcileTerminal
  <1>2. record[b] \in Row
    BY DEF RecordType
  <1>3. [record[b] EXCEPT !.state = "failed", !.runtime = 0, !.code = "terminal"] \in Row
    BY <1>2 DEF Row, RowState, Code
  <1>4. [record EXCEPT ![b].state = "failed", ![b].runtime = 0, ![b].code = "terminal"]
          = [record EXCEPT ![b] = [record[b] EXCEPT !.state = "failed", !.runtime = 0, !.code = "terminal"]]
    BY <1>2 DEF RecordType, Row
  <1>5. /\ RecordType'
        /\ \A c \in Broadcasts :
             /\ record'[c].fence = record[c].fence
             /\ record'[c] = record[c] \/ /\ c = b /\ record[b].state = "active"
                                          /\ record[b].runtime = held[f]
                                          /\ record'[b].state = "failed"
                                          /\ record'[b].runtime = 0
    BY <1>1, <1>2, <1>3, <1>4 DEF RecordType, Row
  <1>6. /\ active' \in [Fences -> [Broadcasts -> Generations \cup {0}]]
        /\ \A e \in Fences, c \in Broadcasts :
             active'[e][c] = active[e][c] \/ (e = f /\ c = b /\ active'[e][c] = 0)
    <2>1. CASE UNCHANGED active
      BY <2>1 DEF RunningType
    <2>2. CASE active' = [active EXCEPT ![f][b] = 0]
      BY <2>2 DEF RunningType
    <2> QED
      BY <1>1, <2>1, <2>2
  <1> QED
    BY <1>1, <1>5, <1>6

\* What an executor does with the row that settles its command.
LEMMA ResolveFacts ==
    ASSUME RunningType, NEW f \in Fences, NEW row \in Row, Resolve(f, row),
           Current(f).broadcast \in Broadcasts
    PROVE  /\ authority' \in [Fences -> [Broadcasts -> Generations \cup {0}]]
           /\ \A e \in Fences, b \in Broadcasts :
                \/ authority'[e][b] = authority[e][b]
                \/ e = f /\ b = Current(f).broadcast /\ authority'[e][b] = 0
                \/ /\ e = f /\ b = Current(f).broadcast /\ authority'[e][b] = row.runtime
                   /\ result[f].kind = "started" /\ row.runtime = result[f].runtime
           /\ \/ NextClaim(f) /\ Current(f).kind = "stop"
              \/ /\ NextClaim(f) /\ result[f].kind = "started"
                 /\ row.state = "active" /\ row.runtime = result[f].runtime
              \/ /\ pc' = [pc EXCEPT ![f] = "undoing"] /\ Current(f).kind # "stop"
                 /\ UNCHANGED <<authority, claims, result>>
  <1> DEFINE b0 == Current(f).broadcast
  <1>1. row.runtime \in Generations \cup {0} /\ authority[f][b0] \in Generations \cup {0}
    BY DEF Row, RunningType
  <1>2. ASSUME NEW g \in Generations \cup {0}, authority' = [authority EXCEPT ![f][b0] = g]
        PROVE  /\ authority' \in [Fences -> [Broadcasts -> Generations \cup {0}]]
               /\ authority'[f][b0] = g
               /\ \A e \in Fences, b \in Broadcasts :
                    (e = f /\ b = b0) \/ authority'[e][b] = authority[e][b]
    BY <1>2 DEF RunningType
  <1>3. CASE Current(f).kind = "stop"
    <2>1. NextClaim(f)
      BY <1>3 DEF Resolve
    <2>2. \/ authority' = [authority EXCEPT ![f][b0] = 0]
          \/ authority' = [authority EXCEPT ![f][b0] = authority[f][b0]]
      BY <1>3 DEF Resolve
    <2>3. 0 \in Generations \cup {0}
      OBVIOUS
    <2> HIDE DEF b0
    <2>4. /\ authority' \in [Fences -> [Broadcasts -> Generations \cup {0}]]
          /\ authority'[f][b0] = 0 \/ authority'[f][b0] = authority[f][b0]
          /\ \A e \in Fences, b \in Broadcasts :
               (e = f /\ b = b0) \/ authority'[e][b] = authority[e][b]
      BY <1>1, <1>2, <2>2, <2>3
    <2> QED
      BY <1>3, <2>1, <2>4 DEF b0
  <1>4. CASE Current(f).kind # "stop" /\ CompletionIsVisible(result[f], row) /\ result[f].kind = "started"
    <2>1. NextClaim(f) /\ authority' = [authority EXCEPT ![f][b0] = row.runtime]
      BY <1>4 DEF Resolve
    <2>2. row.state = "active" /\ row.runtime = result[f].runtime
      BY <1>4 DEF CompletionIsVisible, CompletedRow, Row
    <2> HIDE DEF b0
    <2>3. /\ authority' \in [Fences -> [Broadcasts -> Generations \cup {0}]]
          /\ authority'[f][b0] = row.runtime
          /\ \A e \in Fences, b \in Broadcasts :
               (e = f /\ b = b0) \/ authority'[e][b] = authority[e][b]
      BY <1>1, <1>2, <2>1
    <2> QED
      BY <1>4, <2>1, <2>2, <2>3 DEF b0
  <1>5. CASE /\ Current(f).kind # "stop"
             /\ ~(CompletionIsVisible(result[f], row) /\ result[f].kind = "started")
    BY <1>5 DEF Resolve, RunningType
  <1> QED
    BY <1>3, <1>4, <1>5

\* The fields of rows and commands.
LEMMA Fields ==
    ASSUME RecordType, CommandsType
    PROVE  /\ \A b \in Broadcasts :
                /\ record[b] \in Row
                /\ record[b].fence \in 0..MaxFence /\ record[b].runtime \in Generations \cup {0}
           /\ \A i \in DOMAIN commands :
                /\ commands[i].broadcast \in Broadcasts /\ commands[i].fence \in Fences
                /\ commands[i].kind \in {"start", "stop"} /\ commands[i].generation \in Nat
                /\ commands[i].state \in CommandState
  <1>1. \A i \in DOMAIN commands : commands[i] \in Command
    BY DEF CommandsType
  <1>2. \A i \in DOMAIN commands :
                /\ commands[i].broadcast \in Broadcasts /\ commands[i].fence \in Fences
                /\ commands[i].kind \in {"start", "stop"} /\ commands[i].generation \in Nat
                /\ commands[i].state \in CommandState
    BY <1>1 DEF Command
  <1>3. \A b \in Broadcasts :
                /\ record[b] \in Row
                /\ record[b].fence \in 0..MaxFence /\ record[b].runtime \in Generations \cup {0}
    BY DEF RecordType, Row
  <1> QED
    BY <1>2, <1>3

-----------------------------------------------------------------------------
(***************************************************************************)
(* Type correctness of every step.                                         *)
(***************************************************************************)
\* What every step may use: the typed parts and the claim in execution.
LEMMA Basics ==
    ASSUME TypeOK, ProcessInv
    PROVE  /\ RecordType /\ CommandsType /\ SourceType /\ StoreType
           /\ ExecutorType /\ RunningType /\ HistoryType
           /\ \A f \in Fences : pc[f] \in Busy =>
                /\ Current(f) \in claims[f]
                /\ Current(f) \in Claim
                /\ \A d \in claims[f] : Current(f).id <= d.id
                /\ Current(f).broadcast \in Broadcasts
                /\ Current(f).runtime \in Generations \cup {0}
                /\ Current(f).kind \in {"start", "stop"}
           /\ 0 \notin Generations /\ Generations \subseteq Nat
  <1>1. /\ RecordType /\ CommandsType /\ SourceType /\ StoreType
        /\ ExecutorType /\ RunningType /\ HistoryType
    BY TypeParts
  <1>2. \A f \in Fences : pc[f] \in Busy =>
                /\ Current(f) \in claims[f]
                /\ Current(f) \in Claim
                /\ \A d \in claims[f] : Current(f).id <= d.id
    BY <1>1, CurrentFacts DEF ProcessInv
  <1>3. \A f \in Fences : pc[f] \in Busy =>
                /\ Current(f).broadcast \in Broadcasts
                /\ Current(f).runtime \in Generations \cup {0}
                /\ Current(f).kind \in {"start", "stop"}
    BY <1>2 DEF Claim
  <1> QED
    BY <1>1, <1>2, <1>3, GenerationFacts

\* Rows and commands stay well typed.
LEMMA DurableTypeStep ==
    ASSUME TypeOK, ProcessInv, CommandsInv, ClaimsInv, [Next]_vars
    PROVE  RecordType' /\ CommandsType'
  <1>1. /\ RecordType /\ CommandsType /\ ExecutorType /\ RunningType
        /\ \A f \in Fences : pc[f] \in Busy => Current(f) \in claims[f] /\ Current(f) \in Claim
    BY Basics
  <1>21. ASSUME NEW b \in Broadcasts, EnqueueStart(b)
        PROVE  RecordType' /\ CommandsType'
    BY <1>1, <1>21, EnqueueStartFacts
  <1>22. ASSUME NEW b \in Broadcasts, EnqueueStop(b)
        PROVE  RecordType' /\ CommandsType'
    <2>1. record[b].fence \in Fences
      <3>1. record[b].state # "none"
        BY <1>22 DEF EnqueueStop, DeleteFailed, DeleteOpen, Open
      <3>2. record[b].fence \in 0..MaxFence /\ record[b].fence # 0
        BY <1>1, <3>1 DEF RecordType, Row, CommandsInv
      <3> QED
        BY <3>2, BoundsAreNat DEF Fences
    <2> QED
      BY <1>1, <1>22, <2>1, EnqueueStopFacts
  <1>23. ASSUME ClaimLapses
        PROVE  RecordType' /\ CommandsType'
    BY <1>1, <1>23, LapseFacts DEF ClaimLapses, RecordType
  <1>24. ASSUME NEW f \in Fences, FailStaleWorkerBroadcasts(f)
        PROVE  RecordType' /\ CommandsType'
    <2>1. FailOpen(Fences \ {f}, "stale") /\ "stale" \in Code
      BY <1>24 DEF FailStaleWorkerBroadcasts, Code
    <2> QED
      BY <1>1, <2>1, FailOpenFacts
  <1>25. ASSUME NEW f \in Fences, CleanStaleRow(f)
        PROVE  RecordType' /\ CommandsType'
    <2>1. PICK b \in stale[f] : record' = record \/
                               record' = FinalizeFailedCleanup(b, record[b].fence, record[b].runtime)
      BY <1>25 DEF CleanStaleRow
    <2>2. b \in Broadcasts
      BY <1>1 DEF ExecutorType
    <2> QED
      BY <1>1, <1>25, <2>1, <2>2, FinalizeFacts DEF CleanStaleRow, CommandsType, RecordType
  <1>26. ASSUME NEW f \in Fences, ClaimAndExecute(f)
        PROVE  RecordType' /\ CommandsType'
    BY <1>1, <1>26, ClaimFacts DEF ClaimAndExecute, RecordType
  <1>27. ASSUME NEW f \in Fences, CompleteAnswered(f)
        PROVE  RecordType' /\ CommandsType'
    <2>1. f \in Fences /\ Current(f) \in Claim /\ Current(f).id \in DOMAIN commands
      BY <1>27, <1>1 DEF CompleteAnswered, Busy, ClaimsInv
    <2>2. result[f] \in Result
      BY <1>1 DEF ExecutorType
    <2> QED
      BY <1>1, <1>27, <2>1, <2>2, CompleteFacts DEF CompleteAnswered
  <1>28. ASSUME NEW f \in Fences, CompleteAmbiguous(f)
        PROVE  RecordType' /\ CommandsType'
    <2>1. f \in Fences /\ Current(f) \in Claim /\ Current(f).id \in DOMAIN commands
      BY <1>28, <1>1 DEF CompleteAmbiguous, Busy, ClaimsInv
    <2>2. result[f] \in Result
      BY <1>1 DEF ExecutorType
    <2>3. CASE Complete(Current(f), result[f])
      BY <1>1, <2>1, <2>2, <2>3, CompleteFacts
    <2>4. CASE UNCHANGED durable
      BY <1>1, <2>4 DEF durable, RecordType, CommandsType
    <2> QED
      BY <1>28, <2>3, <2>4 DEF CompleteAmbiguous
  <1>29. ASSUME NEW f \in Fences, ReconcileTerminal(f)
        PROVE  RecordType' /\ CommandsType'
    BY <1>1, <1>29, TerminalFacts DEF ReconcileTerminal, CommandsType
  <1>30. ASSUME NEW f \in Fences, FailWorkerBroadcasts(f)
        PROVE  RecordType' /\ CommandsType'
    <2>1. CASE FailOpen({f}, "drained")
      <3>1. "drained" \in Code
        BY DEF Code
      <3> QED
        BY <1>1, <2>1, <3>1, FailOpenFacts
    <2>2. CASE UNCHANGED durable
      BY <1>1, <2>2 DEF durable, RecordType, CommandsType
    <2> QED
      BY <1>30, <2>1, <2>2 DEF FailWorkerBroadcasts
  <1>31. ASSUME NEW f \in Fences, FinalizeDrained(f)
        PROVE  RecordType' /\ CommandsType'
    <2>1. PICK r \in drained[f] : record' = record \/
                                 record' = FinalizeFailedCleanup(r[1], f, r[2])
      BY <1>31 DEF FinalizeDrained
    <2>2. r[1] \in Broadcasts
      BY <1>1 DEF RunningType
    <2> QED
      BY <1>1, <1>31, <2>1, <2>2, FinalizeFacts DEF FinalizeDrained, CommandsType, RecordType
  <1>32. CASE UNCHANGED <<record, commands>>
    BY <1>32, <1>1 DEF RecordType, CommandsType
  <1> QED
    BY <1>21, <1>22, <1>23, <1>24, <1>25, <1>26, <1>27, <1>28, <1>29, <1>30, <1>31, <1>32
       DEF Next, Work, GrantExpires, SourceLeaves, Register, StaleFencesReconciled, StartRefused,
           ManagedStart, StartInstalled, StartAbandoned, StopBroadcast, StopAbsent,
           VerifyCompletion, CleanupUncommittedStart, TerminalClose, ShutdownClose, Exit,
           RetryRevoke, Crash, BeginShutdown, vars, durable, store, process

\* The shared store and the sources stay well typed.
LEMMA StoreTypeStep ==
    ASSUME TypeOK, ProcessInv, [Next]_vars
    PROVE  StoreType' /\ SourceType'
  <1>1. /\ StoreType /\ SourceType /\ RecordType /\ ExecutorType /\ RunningType /\ HistoryType
        /\ \A f \in Fences : pc[f] \in Busy =>
             Current(f).broadcast \in Broadcasts /\ Current(f).runtime \in Generations \cup {0}
    BY Basics
  <1>21. ASSUME NEW b \in Broadcasts,
                  GrantExpires(b) \/ SourceLeaves(b)
        PROVE  StoreType' /\ SourceType'
    BY <1>21, <1>1
       DEF GrantExpires, SourceLeaves, store, StoreType, SourceType, ExecutorType, RunningType,
           Busy, Executing
  <1>22. ASSUME NEW f \in Fences, CleanStaleRow(f)
        PROVE  StoreType' /\ SourceType'
    BY <1>22, <1>1
       DEF CleanStaleRow, FinalizeFailedCleanup, Revoke, store, StoreType, SourceType,
           ExecutorType, RunningType, Busy, Executing
  <1>23. ASSUME NEW f \in Fences, ManagedStart(f)
        PROVE  StoreType' /\ SourceType'
    BY <1>23, <1>1
       DEF ManagedStart, RegisterGrant, InstallPublisher, PublisherFails, RegistrationTimesOut,
           Deliver, Failed, store, StoreType, SourceType, ExecutorType, RunningType, Busy,
           Executing
  <1>24. ASSUME NEW f \in Fences, StartAbandoned(f)
        PROVE  StoreType' /\ SourceType'
    BY <1>24, <1>1
       DEF StartAbandoned, CloseManaged, Revoke, Deliver, Failed, store, StoreType, SourceType,
           ExecutorType, RunningType, Busy, Executing
  <1>25. ASSUME NEW f \in Fences, StopBroadcast(f)
        PROVE  StoreType' /\ SourceType'
    BY <1>25, <1>1
       DEF StopBroadcast, CloseManaged, Revoke, Deliver, Failed, Stopped, store, StoreType,
           SourceType, ExecutorType, RunningType, Busy, Executing
  <1>26. ASSUME NEW f \in Fences, StopAbsent(f)
        PROVE  StoreType' /\ SourceType'
    BY <1>26, <1>1
       DEF StopAbsent, Revoke, Deliver, Failed, Stopped, store, StoreType, SourceType,
           ExecutorType, RunningType, Busy, Executing
  <1>27. ASSUME NEW f \in Fences, CleanupUncommittedStart(f)
        PROVE  StoreType' /\ SourceType'
    BY <1>27, <1>1
       DEF CleanupUncommittedStart, CloseManaged, Revoke, NextClaim, NoResult, store, StoreType,
           SourceType, ExecutorType, RunningType, Busy, Executing
  <1>28. ASSUME NEW f \in Fences, NEW b \in Broadcasts, TerminalClose(f, b)
        PROVE  StoreType' /\ SourceType'
    BY <1>28, <1>1
       DEF TerminalClose, CloseManaged, Revoke, store, StoreType, SourceType, ExecutorType,
           RunningType, Busy, Executing
  <1>29. ASSUME NEW f \in Fences, ShutdownClose(f)
        PROVE  StoreType' /\ SourceType'
    <2>1. CASE UNCHANGED store
      BY <1>1, <1>29, <2>1 DEF ShutdownClose, store, StoreType, SourceType
    <2>2. ASSUME NEW b \in Broadcasts, active[f][b] # 0, CloseManaged(f, b, active[f][b])
          PROVE  StoreType' /\ SourceType'
      <3>1. active[f][b] \in Generations
        BY <1>1, <2>2 DEF RunningType
      <3>2. StoreType'
        BY <1>1, <2>2, <3>1, CloseFacts, GenerationFacts
      <3> QED
        BY <1>1, <1>29, <3>2 DEF ShutdownClose, SourceType
    <2> QED
      BY <1>29, <2>1, <2>2 DEF ShutdownClose
  <1>30. ASSUME NEW f \in Fences, RetryRevoke(f)
        PROVE  StoreType' /\ SourceType'
    <2>1. PICK r \in retrying[f] : (Revoke(r[1], r[2]) /\ UNCHANGED issued) \/ UNCHANGED store
      BY <1>30 DEF RetryRevoke
    <2>2. r[1] \in Broadcasts /\ r[2] \in Generations \cup {0}
      BY <1>1 DEF RunningType
    <2>3. StoreType'
      BY <1>1, <2>1, <2>2, RevokeFacts DEF store, StoreType
    <2> QED
      BY <1>1, <1>30, <2>3 DEF RetryRevoke, SourceType
  <1>31. CASE UNCHANGED <<store, source>>
    BY <1>31, <1>1 DEF store, StoreType, SourceType
  <1> QED
    BY <1>21, <1>22, <1>23, <1>24, <1>25, <1>26, <1>27, <1>28, <1>29, <1>30, <1>31
       DEF Next, Work, EnqueueStart, EnqueueStop, Register, ClaimLapses,
           FailStaleWorkerBroadcasts, StaleFencesReconciled, ClaimAndExecute, StartRefused,
           StartInstalled, CompleteAnswered, CompleteAmbiguous, VerifyCompletion,
           ReconcileTerminal, FailWorkerBroadcasts, FinalizeDrained, Exit, Crash, BeginShutdown,
           vars, durable, store, process

\* Executors stay well typed.
LEMMA ExecutorTypeStep ==
    ASSUME TypeOK, ProcessInv, [Next]_vars
    PROVE  ExecutorType'
  <1>1. /\ StoreType /\ RecordType /\ CommandsType /\ ExecutorType /\ RunningType /\ HistoryType
        /\ \A f \in Fences : pc[f] \in Busy =>
             Current(f).broadcast \in Broadcasts /\ Current(f).runtime \in Generations \cup {0}
    BY Basics
  <1>2. NoResult \in Result /\ Stopped \in Result /\ Failed("start") \in Result /\ Failed("stop") \in Result
    BY DEF Result, NoResult, Stopped, Failed, Code
  <1>21. ASSUME Register
        PROVE  ExecutorType'
    <2>1. fence' \in 0..MaxFence /\ fence + 1 \in Fences
      BY <1>1, <1>21, BoundsAreNat DEF Register, ExecutorType, Fences
    <2> QED
      BY <1>1, <1>21, <2>1 DEF Register, ExecutorType, Step
  <1>22. ASSUME NEW f \in Fences, FailStaleWorkerBroadcasts(f)
        PROVE  ExecutorType'
    BY <1>22, <1>1, <1>2 DEF FailStaleWorkerBroadcasts, ExecutorType, Step
  <1>23. ASSUME NEW f \in Fences, CleanStaleRow(f)
        PROVE  ExecutorType'
    <2>1. \E b \in stale[f] :
            \/ stale' = [stale EXCEPT ![f] = @ \ {b}] /\ UNCHANGED pc
            \/ stale' = [stale EXCEPT ![f] = {}] /\ pc' = [pc EXCEPT ![f] = "recovering"]
      BY <1>23 DEF CleanStaleRow
    <2>2. stale' \in [Fences -> SUBSET Broadcasts] /\ pc' \in [Fences -> Step]
      BY <1>1, <2>1 DEF ExecutorType, Step
    <2> QED
      BY <1>1, <1>23, <2>2 DEF CleanStaleRow, ExecutorType
  <1>24. ASSUME NEW f \in Fences, ClaimAndExecute(f)
        PROVE  ExecutorType'
    <2>1. claims' \in [Fences -> SUBSET Claim]
      <3>1. ASSUME NEW i \in DOMAIN commands
            PROVE  ClaimOf(i) \in Claim
        <4>1. commands[i] \in Command /\ i \in Nat
          BY <1>1 DEF CommandsType
        <4>2. record[commands[i].broadcast].runtime \in Generations \cup {0}
          BY <1>1, <4>1 DEF RecordType, Row, Command
        <4> QED
          BY <4>1, <4>2 DEF ClaimOf, Claim, Command
      <3>2. {ClaimOf(i) : i \in {j \in DOMAIN commands : Claimable(j, f)}} \in SUBSET Claim
        BY <3>1
      <3> QED
        BY <1>1, <1>24, <3>2 DEF ClaimAndExecute, ExecutorType
    <2> QED
      BY <1>1, <1>24, <2>1 DEF ClaimAndExecute, ExecutorType, Step
  <1>25. ASSUME NEW f \in Fences, ManagedStart(f)
        PROVE  ExecutorType'
    <2>1. issued' \in Generations /\ f \in Fences
      BY <1>25 DEF ManagedStart, RegisterGrant
    <2>2. held' \in [Fences -> Generations \cup {0}]
      BY <1>1, <1>25, <2>1 DEF ManagedStart, InstallPublisher, PublisherFails, RegistrationTimesOut,
                               ExecutorType
    <2>3. pc' \in [Fences -> Step] /\ result' \in [Fences -> Result]
      BY <1>1, <1>2, <1>25 DEF ManagedStart, InstallPublisher, PublisherFails, RegistrationTimesOut,
                               Deliver, ExecutorType, Step
    <2> QED
      BY <1>1, <1>25, <2>2, <2>3 DEF ManagedStart, ExecutorType
  <1>26. ASSUME NEW f \in Fences, StartInstalled(f)
        PROVE  ExecutorType'
    <2>1. Current(f).broadcast \in Broadcasts
      BY <1>1, <1>26 DEF StartInstalled, Busy
    <2>2. grant[Current(f).broadcast] \in Generations
      BY <1>1, <1>26, <2>1 DEF StartInstalled, StoreType
    <2>3. Started(grant[Current(f).broadcast]) \in Result
      BY <2>2 DEF Started, Result, Code
    <2> QED
      BY <1>1, <1>26, <2>3 DEF StartInstalled, Deliver, ExecutorType, Step
  <1>27. ASSUME NEW f \in Fences, CompleteAnswered(f)
        PROVE  ExecutorType'
    <2>1. \/ NextClaim(f)
          \/ \E p \in Step : pc' = [pc EXCEPT ![f] = p] /\ UNCHANGED <<claims, result>>
      BY <1>27 DEF CompleteAnswered, Resolve, Step
    <2>2. claims' \in [Fences -> SUBSET Claim]
      BY <1>1, <2>1 DEF NextClaim, ExecutorType
    <2>3. pc' \in [Fences -> Step] /\ result' \in [Fences -> Result]
      BY <1>1, <1>2, <2>1 DEF NextClaim, ExecutorType, Step
    <2> QED
      BY <1>1, <1>27, <2>2, <2>3 DEF CompleteAnswered, ExecutorType
  <1>28. ASSUME NEW f \in Fences, VerifyCompletion(f)
        PROVE  ExecutorType'
    <2>1. \/ NextClaim(f)
          \/ \E p \in Step : pc' = [pc EXCEPT ![f] = p] /\ UNCHANGED <<claims, result>>
      BY <1>28 DEF VerifyCompletion, Resolve, Step
    <2>2. claims' \in [Fences -> SUBSET Claim]
      BY <1>1, <2>1 DEF NextClaim, ExecutorType
    <2>3. pc' \in [Fences -> Step] /\ result' \in [Fences -> Result]
      BY <1>1, <1>2, <2>1 DEF NextClaim, ExecutorType, Step
    <2> QED
      BY <1>1, <1>28, <2>2, <2>3 DEF VerifyCompletion, ExecutorType
  <1>29. ASSUME NEW f \in Fences, CleanupUncommittedStart(f)
        PROVE  ExecutorType'
    <2>1. active[f][Current(f).broadcast] \in Generations \cup {0}
      BY <1>1, <1>29 DEF CleanupUncommittedStart, RunningType, Busy
    <2>2. held' \in [Fences -> Generations \cup {0}]
      BY <1>1, <1>29, <2>1 DEF CleanupUncommittedStart, ExecutorType
    <2>3. NextClaim(f) \/ UNCHANGED <<claims, result, pc>>
      BY <1>29 DEF CleanupUncommittedStart
    <2>4. claims' \in [Fences -> SUBSET Claim]
      BY <1>1, <2>3 DEF NextClaim, ExecutorType
    <2>5. pc' \in [Fences -> Step] /\ result' \in [Fences -> Result]
      BY <1>1, <1>2, <2>3 DEF NextClaim, ExecutorType, Step
    <2> QED
      BY <1>1, <1>29, <2>2, <2>4, <2>5 DEF CleanupUncommittedStart, ExecutorType
  <1>30. ASSUME NEW f \in Fences, NEW b \in Broadcasts, TerminalClose(f, b)
        PROVE  ExecutorType'
    <2>1. active[f][b] \in Generations \cup {0}
      BY <1>1 DEF RunningType
    <2>2. \/ UNCHANGED <<held, pc>>
          \/ held' = [held EXCEPT ![f] = active[f][b]] /\ pc' = [pc EXCEPT ![f] = "terminal"]
      BY <1>30 DEF TerminalClose
    <2>3. held' \in [Fences -> Generations \cup {0}] /\ pc' \in [Fences -> Step]
      BY <1>1, <2>1, <2>2 DEF ExecutorType, Step
    <2> QED
      BY <1>1, <1>30, <2>3 DEF TerminalClose, ExecutorType
  <1>31. ASSUME NEW f \in Fences,
                  Crash(f) \/ BeginShutdown(f) \/ Exit(f)
        PROVE  ExecutorType'
    BY <1>31, <1>1, <1>2 DEF Crash, Down, BeginShutdown, Exit, ExecutorType, Step
  <1>32. ASSUME NEW f \in Fences,
                  StaleFencesReconciled(f) \/ ShutdownClose(f) \/ FailWorkerBroadcasts(f)
               \/ CompleteAmbiguous(f) \/ ReconcileTerminal(f)
        PROVE  ExecutorType'
    BY <1>32, <1>1, <1>2
       DEF StaleFencesReconciled, ShutdownClose, FailWorkerBroadcasts, CompleteAmbiguous,
           ReconcileTerminal, ExecutorType, Step
  <1>33. ASSUME NEW f \in Fences,
                  StartRefused(f) \/ StartAbandoned(f)
        PROVE  ExecutorType'
    BY <1>33, <1>1, <1>2 DEF StartRefused, Deliver, StartAbandoned, ExecutorType, Step
  <1>34. ASSUME NEW f \in Fences,
                  StopBroadcast(f) \/ StopAbsent(f)
        PROVE  ExecutorType'
    BY <1>34, <1>1, <1>2 DEF StopBroadcast, Deliver, StopAbsent, ExecutorType, Step
  <1>35. CASE UNCHANGED <<fence, pc, claims, held, result, stale>>
    BY <1>35, <1>1 DEF ExecutorType
  <1> QED
    BY <1>21, <1>22, <1>23, <1>24, <1>25, <1>26, <1>27, <1>28, <1>29, <1>30, <1>31, <1>32, <1>33,
       <1>34, <1>35
       DEF Next, Work, EnqueueStart, EnqueueStop, GrantExpires, SourceLeaves, ClaimLapses,
           FinalizeDrained, RetryRevoke, vars, durable, store, process

\* Publications, authorities and leases stay well typed.
LEMMA RunningTypeStep ==
    ASSUME TypeOK, ProcessInv, CommandsInv, ClaimsInv, HeldInv, [Next]_vars
    PROVE  RunningType'
  <1>1. /\ StoreType /\ RecordType /\ CommandsType /\ ExecutorType /\ RunningType /\ HistoryType
        /\ \A f \in Fences : pc[f] \in Busy =>
             Current(f).broadcast \in Broadcasts /\ Current(f).runtime \in Generations \cup {0}
    BY Basics
  <1>3. RecordType'
    BY DurableTypeStep
  <1>21. ASSUME NEW f \in Fences, ManagedStart(f)
        PROVE  RunningType'
    <2>1. <<Current(f).broadcast, issued'>> \in Broadcasts \X Generations
      BY <1>1, <1>21 DEF ManagedStart, Executing, Busy, RegisterGrant
    <2>2. retrying' = retrying \/
          retrying' = [retrying EXCEPT ![f] = @ \cup {<<Current(f).broadcast, issued'>>}]
      BY <1>21 DEF ManagedStart, InstallPublisher, PublisherFails, RegistrationTimesOut
    <2> HIDE DEF Current
    <2>3. retrying' \in [Fences -> SUBSET (Broadcasts \X Generations)]
      BY <1>1, <2>1, <2>2 DEF RunningType
    <2> QED
      BY <1>1, <1>21, <2>3 DEF ManagedStart, RunningType
  <1>22. ASSUME NEW f \in Fences, StartInstalled(f)
        PROVE  RunningType'
    <2>1. Current(f).broadcast \in Broadcasts
      BY <1>1, <1>22 DEF StartInstalled, Busy
    <2>2. grant[Current(f).broadcast] \in Generations \cup {0}
      BY <1>1, <2>1 DEF StoreType
    <2> QED
      BY <1>1, <1>22, <2>1, <2>2 DEF StartInstalled, RunningType
  <1>23. ASSUME NEW f \in Fences, StartAbandoned(f)
        PROVE  RunningType'
    <2>1. Current(f).broadcast \in Broadcasts /\ held[f] \in Generations
      BY <1>1, <1>23 DEF StartAbandoned, Busy, HeldInv, HeldAt, ExecutorType
    <2>2. retrying' = retrying \/ CloseManaged(f, Current(f).broadcast, held[f])
      BY <1>23 DEF StartAbandoned
    <2>3. retrying' \in [Fences -> SUBSET (Broadcasts \X Generations)]
      BY <1>1, <2>1, <2>2, CloseFacts, GenerationFacts DEF RunningType
    <2> QED
      BY <1>1, <1>23, <2>3 DEF StartAbandoned, RunningType
  <1>24. ASSUME NEW f \in Fences, StopBroadcast(f)
        PROVE  RunningType'
    <2>1. Current(f).broadcast \in Broadcasts /\ active[f][Current(f).broadcast] \in Generations
      BY <1>1, <1>24 DEF StopBroadcast, Executing, Busy, RunningType
    <2>2. retrying' = retrying \/ CloseManaged(f, Current(f).broadcast, active[f][Current(f).broadcast])
      BY <1>24 DEF StopBroadcast
    <2>3. retrying' \in [Fences -> SUBSET (Broadcasts \X Generations)]
      BY <1>1, <2>1, <2>2, CloseFacts, GenerationFacts DEF RunningType
    <2> QED
      BY <1>1, <1>24, <2>1, <2>3 DEF StopBroadcast, RunningType
  <1>25. ASSUME NEW f \in Fences, StopAbsent(f)
        PROVE  RunningType'
    BY <1>25, <1>1 DEF StopAbsent, RunningType, Busy, Executing
  <1>26. ASSUME NEW f \in Fences, CompleteAnswered(f)
        PROVE  RunningType'
    <2>1. Current(f).broadcast \in Broadcasts /\ f \in Fences
      BY <1>1, <1>26 DEF CompleteAnswered, Busy
    <2>2. record'[Current(f).broadcast] \in Row
      BY <1>1, <1>3, <2>1 DEF RecordType
    <2>3. authority' = authority \/ Resolve(f, record'[Current(f).broadcast])
      BY <1>26 DEF CompleteAnswered
    <2>4. authority' \in [Fences -> [Broadcasts -> Generations \cup {0}]]
      BY <1>1, <2>1, <2>2, <2>3, ResolveFacts DEF RunningType
    <2> QED
      BY <1>1, <1>26, <2>4 DEF CompleteAnswered, RunningType
  <1>27. ASSUME NEW f \in Fences, VerifyCompletion(f)
        PROVE  RunningType'
    <2>1. Current(f).broadcast \in Broadcasts /\ f \in Fences
      BY <1>1, <1>27 DEF VerifyCompletion, Busy
    <2>2. record[Current(f).broadcast] \in Row
      BY <1>1, <1>3, <2>1 DEF RecordType
    <2>3. authority' = authority \/ Resolve(f, record[Current(f).broadcast])
      BY <1>27 DEF VerifyCompletion
    <2>4. authority' \in [Fences -> [Broadcasts -> Generations \cup {0}]]
      BY <1>1, <2>1, <2>2, <2>3, ResolveFacts DEF RunningType
    <2> QED
      BY <1>1, <1>27, <2>4 DEF VerifyCompletion, RunningType
  <1>28. ASSUME NEW f \in Fences, CleanupUncommittedStart(f)
        PROVE  RunningType'
    <2>1. Current(f).broadcast \in Broadcasts
      BY <1>1, <1>28 DEF CleanupUncommittedStart, Busy
    <2>2. \/ retrying' = retrying
          \/ /\ active[f][Current(f).broadcast] # 0
             /\ CloseManaged(f, Current(f).broadcast, active[f][Current(f).broadcast])
      BY <1>28 DEF CleanupUncommittedStart
    <2>3. active[f][Current(f).broadcast] \in Generations \cup {0}
      BY <1>1, <2>1 DEF RunningType
    <2>4. retrying' \in [Fences -> SUBSET (Broadcasts \X Generations)]
      BY <1>1, <2>1, <2>2, <2>3, CloseFacts, GenerationFacts DEF RunningType
    <2> QED
      BY <1>1, <1>28, <2>1, <2>4 DEF CleanupUncommittedStart, RunningType
  <1>29. ASSUME NEW f \in Fences, NEW b \in Broadcasts, TerminalClose(f, b)
        PROVE  RunningType'
    <2>1. active[f][b] \in Generations
      BY <1>1, <1>29 DEF TerminalClose, RunningType
    <2>2. retrying' \in [Fences -> SUBSET (Broadcasts \X Generations)]
      BY <1>1, <1>29, <2>1, CloseFacts, GenerationFacts DEF TerminalClose
    <2> QED
      BY <1>1, <1>29, <2>2 DEF TerminalClose, RunningType
  <1>30. ASSUME NEW f \in Fences, ReconcileTerminal(f)
        PROVE  RunningType'
    <2>1. active' \in [Fences -> [Broadcasts -> Generations \cup {0}]]
      BY <1>1, <1>30, TerminalFacts
    <2> QED
      BY <1>1, <1>30, <2>1 DEF ReconcileTerminal, RunningType
  <1>31. ASSUME NEW f \in Fences, ShutdownClose(f)
        PROVE  RunningType'
    <2>1. CASE UNCHANGED <<active, authority, retrying, drained>>
      BY <1>1, <2>1 DEF RunningType
    <2>2. ASSUME NEW b \in Broadcasts, active[f][b] # 0, CloseManaged(f, b, active[f][b]),
                 authority' = [authority EXCEPT ![f][b] = 0],
                 active' = [active EXCEPT ![f][b] = 0],
                 drained' = [drained EXCEPT ![f] =
                               IF faults' = faults THEN @ \cup {<<b, active[f][b]>>} ELSE @]
          PROVE  RunningType'
      <3>1. active[f][b] \in Generations
        BY <1>1, <2>2 DEF RunningType
      <3>2. retrying' \in [Fences -> SUBSET (Broadcasts \X Generations)]
        BY <1>1, <2>2, <3>1, CloseFacts, GenerationFacts
      <3>3. <<b, active[f][b]>> \in Broadcasts \X Generations
        BY <3>1
      <3>4. drained' \in [Fences -> SUBSET (Broadcasts \X Generations)]
        BY <1>1, <2>2, <3>3 DEF RunningType
      <3> QED
        BY <1>1, <2>2, <3>2, <3>4 DEF RunningType
    <2> QED
      BY <1>31, <2>1, <2>2 DEF ShutdownClose
  <1>32. ASSUME NEW f \in Fences, BeginShutdown(f)
        PROVE  RunningType'
    <2>1. pc[f] = "installed" => <<Current(f).broadcast, held[f]>> \in Broadcasts \X Generations
      BY <1>1 DEF Busy, HeldInv, HeldAt, ExecutorType
    <2>2. retrying' \in [Fences -> SUBSET (Broadcasts \X Generations)]
      BY <1>1, <1>32, <2>1 DEF BeginShutdown, RunningType
    <2> QED
      BY <1>1, <1>32, <2>2 DEF BeginShutdown, RunningType
  <1>33. ASSUME NEW f \in Fences, RetryRevoke(f)
        PROVE  RunningType'
    BY <1>33, <1>1 DEF RetryRevoke, RunningType, Busy, Executing
  <1>34. ASSUME NEW f \in Fences,
                  FailWorkerBroadcasts(f) \/ FinalizeDrained(f)
        PROVE  RunningType'
    BY <1>34, <1>1 DEF FailWorkerBroadcasts, FinalizeDrained, RunningType, Busy, Executing
  <1>35. ASSUME NEW f \in Fences, Crash(f)
        PROVE  RunningType'
    <2>1. Nothing \in [Broadcasts -> Generations \cup {0}]
      BY DEF Nothing
    <2> QED
      BY <1>1, <1>35, <2>1 DEF Crash, Down, RunningType
  <1>36. ASSUME NEW f \in Fences, Exit(f)
        PROVE  RunningType'
    <2>1. Nothing \in [Broadcasts -> Generations \cup {0}]
      BY DEF Nothing
    <2> QED
      BY <1>1, <1>36, <2>1 DEF Exit, Down, RunningType
  <1>37. CASE UNCHANGED <<active, authority, retrying, drained>>
    BY <1>37, <1>1 DEF RunningType
  <1> QED
    BY <1>21, <1>22, <1>23, <1>24, <1>25, <1>26, <1>27, <1>28, <1>29, <1>30, <1>31, <1>32, <1>33,
       <1>34, <1>35, <1>36, <1>37
       DEF Next, Work, EnqueueStart, EnqueueStop, GrantExpires, SourceLeaves, Register,
           ClaimLapses, FailStaleWorkerBroadcasts, CleanStaleRow, StaleFencesReconciled,
           ClaimAndExecute, StartRefused, CompleteAmbiguous, vars, durable, store, process

\* The fault count and the histories stay well typed.
LEMMA HistoryTypeStep ==
    ASSUME TypeOK, ProcessInv, [Next]_vars
    PROVE  HistoryType'
  <1>1. /\ StoreType /\ ExecutorType /\ RunningType /\ HistoryType
        /\ \A f \in Fences : pc[f] \in Busy => Current(f).broadcast \in Broadcasts
    BY Basics
  <1>2. ASSUME Fault \/ NoFault
        PROVE  faults' \in 0..MaxFaults
    BY <1>1, <1>2, FaultFacts DEF NoFault, HistoryType
  <1>21. ASSUME NEW f \in Fences, CleanStaleRow(f)
        PROVE  HistoryType'
    <2>1. Fault \/ NoFault
      BY <1>21 DEF CleanStaleRow
    <2> QED
      BY <1>1, <1>2, <1>21, <2>1 DEF CleanStaleRow, HistoryType
  <1>22. ASSUME NEW f \in Fences, ClaimAndExecute(f)
        PROVE  HistoryType'
    <2>1. Fault \/ NoFault
      BY <1>22 DEF ClaimAndExecute
    <2> QED
      BY <1>1, <1>2, <1>22, <2>1 DEF ClaimAndExecute, HistoryType
  <1>23. ASSUME NEW f \in Fences, ManagedStart(f)
        PROVE  HistoryType'
    <2>1. Fault \/ NoFault
      BY <1>23 DEF ManagedStart, InstallPublisher, PublisherFails, RegistrationTimesOut
    <2>2. issued' \in Generations /\ (lost' = lost \/ lost' = lost \cup {issued'})
      BY <1>23 DEF ManagedStart, RegisterGrant, InstallPublisher, PublisherFails, RegistrationTimesOut
    <2>3. lost' \subseteq Generations
      BY <1>1, <2>2 DEF HistoryType
    <2> QED
      BY <1>1, <1>2, <1>23, <2>1, <2>3 DEF ManagedStart, HistoryType
  <1>24. ASSUME NEW f \in Fences, StartAbandoned(f)
        PROVE  HistoryType'
    <2>1. Fault \/ NoFault
      BY <1>24 DEF StartAbandoned, CloseManaged, NoFault
    <2> QED
      BY <1>1, <1>2, <1>24, <2>1 DEF StartAbandoned, HistoryType
  <1>25. ASSUME NEW f \in Fences, StopBroadcast(f)
        PROVE  HistoryType'
    <2>1. Fault \/ NoFault
      BY <1>25 DEF StopBroadcast, CloseManaged, NoFault
    <2> QED
      BY <1>1, <1>2, <1>25, <2>1 DEF StopBroadcast, HistoryType
  <1>26. ASSUME NEW f \in Fences, StopAbsent(f)
        PROVE  HistoryType'
    <2>1. Fault \/ NoFault
      BY <1>26 DEF StopAbsent
    <2> QED
      BY <1>1, <1>2, <1>26, <2>1 DEF StopAbsent, HistoryType
  <1>27. ASSUME NEW f \in Fences, CompleteAnswered(f)
        PROVE  HistoryType'
    <2>1. result[f].runtime \in Generations \cup {0}
      BY <1>1 DEF ExecutorType, Result
    <2>2. committed' = committed \cup ({result[f].runtime} \ {0})
      BY <1>27 DEF CompleteAnswered, Complete
    <2>3. committed' \subseteq Generations
      BY <1>1, <2>1, <2>2 DEF HistoryType
    <2> QED
      BY <1>1, <1>27, <2>3 DEF CompleteAnswered, HistoryType
  <1>28. ASSUME NEW f \in Fences, CompleteAmbiguous(f)
        PROVE  HistoryType'
    <2>1. Fault \/ NoFault
      BY <1>28 DEF CompleteAmbiguous
    <2>2. result[f].runtime \in Generations \cup {0}
      BY <1>1 DEF ExecutorType, Result
    <2>3. committed' = committed \/ committed' = committed \cup ({result[f].runtime} \ {0})
      BY <1>28 DEF CompleteAmbiguous, Complete
    <2>4. committed' \subseteq Generations
      BY <1>1, <2>2, <2>3 DEF HistoryType
    <2> QED
      BY <1>1, <1>2, <1>28, <2>1, <2>4 DEF CompleteAmbiguous, HistoryType
  <1>29. ASSUME NEW f \in Fences, CleanupUncommittedStart(f)
        PROVE  HistoryType'
    <2>1. Fault \/ NoFault
      BY <1>29 DEF CleanupUncommittedStart, CloseManaged, NoFault
    <2> QED
      BY <1>1, <1>2, <1>29, <2>1 DEF CleanupUncommittedStart, HistoryType
  <1>30. ASSUME NEW f \in Fences, NEW b \in Broadcasts, TerminalClose(f, b)
        PROVE  HistoryType'
    <2>1. Fault \/ NoFault
      BY <1>30 DEF TerminalClose, CloseManaged, NoFault
    <2> QED
      BY <1>1, <1>2, <1>30, <2>1 DEF TerminalClose, HistoryType
  <1>31. ASSUME NEW f \in Fences, ReconcileTerminal(f)
        PROVE  HistoryType'
    <2>1. Fault \/ NoFault
      BY <1>31 DEF ReconcileTerminal
    <2> QED
      BY <1>1, <1>2, <1>31, <2>1 DEF ReconcileTerminal, HistoryType
  <1>32. ASSUME NEW f \in Fences, ShutdownClose(f)
        PROVE  HistoryType'
    <2>1. Fault \/ NoFault
      BY <1>32 DEF ShutdownClose, CloseManaged, NoFault
    <2> QED
      BY <1>1, <1>2, <1>32, <2>1 DEF ShutdownClose, HistoryType
  <1>33. ASSUME NEW f \in Fences, FailWorkerBroadcasts(f)
        PROVE  HistoryType'
    <2>1. Fault \/ NoFault
      BY <1>33 DEF FailWorkerBroadcasts
    <2> QED
      BY <1>1, <1>2, <1>33, <2>1 DEF FailWorkerBroadcasts, HistoryType
  <1>34. ASSUME NEW f \in Fences, FinalizeDrained(f)
        PROVE  HistoryType'
    <2>1. Fault \/ NoFault
      BY <1>34 DEF FinalizeDrained
    <2> QED
      BY <1>1, <1>2, <1>34, <2>1 DEF FinalizeDrained, HistoryType
  <1>35. ASSUME NEW f \in Fences, RetryRevoke(f)
        PROVE  HistoryType'
    <2>1. Fault \/ NoFault
      BY <1>35 DEF RetryRevoke
    <2>2. PICK r \in retrying[f] : lost' = lost \/ lost' = lost \cup {r[2]}
      BY <1>35 DEF RetryRevoke
    <2>3. r[2] \in Generations
      BY <1>1 DEF RunningType
    <2>4. lost' \subseteq Generations
      BY <1>1, <2>2, <2>3 DEF HistoryType
    <2> QED
      BY <1>1, <1>2, <1>35, <2>1, <2>4 DEF RetryRevoke, HistoryType
  <1>36. ASSUME NEW f \in Fences,
                  Crash(f) \/ Exit(f)
        PROVE  HistoryType'
    BY <1>36, <1>1 DEF Crash, Exit, HistoryType, ExecutorType
  <1>37. ASSUME NEW f \in Fences, BeginShutdown(f)
        PROVE  HistoryType'
    BY <1>37, <1>1 DEF BeginShutdown, HistoryType, ExecutorType
  <1>38. CASE UNCHANGED <<faults, committed, lost>>
    BY <1>38, <1>1 DEF HistoryType
  <1> QED
    BY <1>21, <1>22, <1>23, <1>24, <1>25, <1>26, <1>27, <1>28, <1>29, <1>30, <1>31, <1>32, <1>33,
       <1>34, <1>35, <1>36, <1>37, <1>38
       DEF Next, Work, EnqueueStart, EnqueueStop, GrantExpires, SourceLeaves, Register,
           ClaimLapses, FailStaleWorkerBroadcasts, StaleFencesReconciled, StartRefused,
           StartInstalled, VerifyCompletion, vars, durable, store, process

\* Every step preserves the type invariant.
LEMMA TypeStep ==
    ASSUME Inv, [Next]_vars
    PROVE  TypeOK'
  <1>1. RecordType' /\ CommandsType'
    BY DurableTypeStep DEF Inv
  <1>2. StoreType' /\ SourceType'
    BY StoreTypeStep DEF Inv
  <1>3. ExecutorType'
    BY ExecutorTypeStep DEF Inv
  <1>4. RunningType'
    BY RunningTypeStep DEF Inv
  <1>5. HistoryType'
    BY HistoryTypeStep DEF Inv
  <1> QED
    BY <1>1, <1>2, <1>3, <1>4, <1>5
       DEF TypeOK, RecordType, CommandsType, SourceType, StoreType, ExecutorType, RunningType,
           HistoryType

-----------------------------------------------------------------------------
(***************************************************************************)
(* Every step preserves the other parts of the invariant.                  *)
(***************************************************************************)

\* What an executor keeps stays tied to where it is.
LEMMA ProcessStep ==
    ASSUME Inv, [Next]_vars
    PROVE  ProcessInv'
  <1>1. /\ ExecutorType /\ RunningType /\ RecordType
        /\ \A f \in Fences : pc[f] \in Busy => Current(f) \in claims[f]
    BY Basics DEF Inv
  <1>2. ProcessInv
    BY DEF Inv
  <1>21. ASSUME Register
        PROVE  ProcessInv'
    <2>1. fence + 1 \in Fences /\ fence' = fence + 1 /\ fence \in Nat
      BY <1>1, <1>21, BoundsAreNat DEF Register, ExecutorType, Fences
    <2>2. pc[fence + 1] = "down"
      BY <1>2, <2>1 DEF ProcessInv
    <2>3. \A f \in Fences : pc'[f] = IF f = fence + 1 THEN "recovering" ELSE pc[f]
      BY <1>1, <1>21 DEF Register, ExecutorType
    <2>4. \A f \in Fences : f > fence' => f > fence /\ f # fence + 1
      BY <2>1 DEF Fences
    <2> QED
      BY <1>2, <1>21, <2>1, <2>2, <2>3, <2>4 DEF Register, ProcessInv, Busy
  <1>22. ASSUME NEW f \in Fences, ClaimAndExecute(f)
        PROVE  ProcessInv'
    <2>1. claims[f] = {} /\ pc[f] = "idle"
      BY <1>2, <1>22 DEF ClaimAndExecute, ProcessInv, Busy
    <2>2. \/ UNCHANGED <<claims, pc>>
          \/ /\ pc' = [pc EXCEPT ![f] = "starting"]
             /\ \A e \in Fences : e # f => claims'[e] = claims[e]
             /\ claims'[f] # {}
      <3> DEFINE ids == {i \in DOMAIN commands : Claimable(i, f)}
                 S == {ClaimOf(i) : i \in ids}
      <3>1. S # {}
        BY <1>22 DEF ClaimAndExecute
      <3>2. UNCHANGED <<claims, pc>> \/ /\ claims' = [claims EXCEPT ![f] = S]
                                        /\ pc' = [pc EXCEPT ![f] = "starting"]
        BY <1>22 DEF ClaimAndExecute
      <3> HIDE DEF S
      <3> QED
        BY <1>1, <3>1, <3>2 DEF ExecutorType
    <2>3. fence' = fence /\ held' = held /\ active' = active
      BY <1>22 DEF ClaimAndExecute
    <2>4. CASE UNCHANGED <<claims, pc>>
      BY <1>2, <2>3, <2>4 DEF ProcessInv
    <2>5. CASE /\ pc' = [pc EXCEPT ![f] = "starting"]
               /\ \A e \in Fences : e # f => claims'[e] = claims[e]
               /\ claims'[f] # {}
      <3>1. \A e \in Fences : pc'[e] = IF e = f THEN "starting" ELSE pc[e]
        BY <1>1, <2>5 DEF ExecutorType
      <3>2. ~(f > fence)
        BY <1>2, <2>1 DEF ProcessInv
      <3>3. \A e \in Fences : e > fence => pc'[e] = "down"
        BY <1>2, <3>1, <3>2 DEF ProcessInv
      <3>4. \A e \in Fences : claims'[e] # {} <=> pc'[e] \in Busy
        BY <1>2, <2>5, <3>1 DEF ProcessInv, Busy
      <3> QED
        BY <1>2, <2>1, <2>3, <3>1, <3>3, <3>4 DEF ProcessInv
    <2> QED
      BY <2>2, <2>4, <2>5
  <1>23. ASSUME NEW f \in Fences, ManagedStart(f)
        PROVE  ProcessInv'
    <2>1. \/ pc' = [pc EXCEPT ![f] = "installed"]
          \/ pc' = [pc EXCEPT ![f] = "completing"] /\ UNCHANGED held
      BY <1>23 DEF ManagedStart, InstallPublisher, PublisherFails, RegistrationTimesOut, Deliver
    <2>2. \A e \in Fences : e # f => held'[e] = held[e]
      BY <1>1, <1>23 DEF ManagedStart, InstallPublisher, PublisherFails, RegistrationTimesOut, ExecutorType
    <2> QED
      BY <1>1, <1>2, <1>23, <2>1, <2>2 DEF ManagedStart, Executing, ProcessInv, ExecutorType, Busy
  <1>24. ASSUME NEW f \in Fences, StartInstalled(f)
        PROVE  ProcessInv'
    BY <1>24, <1>1, <1>2
       DEF StartInstalled, Deliver, ProcessInv, ExecutorType, RunningType, Busy, Executing,
           ShuttingDown
  <1>25. ASSUME NEW f \in Fences, CompleteAnswered(f)
        PROVE  ProcessInv'
    <2>1. \/ NextClaim(f)
          \/ \E p \in {"undoing", "completing"} : pc' = [pc EXCEPT ![f] = p] /\ UNCHANGED claims
      BY <1>25 DEF CompleteAnswered, Resolve
    <2> QED
      BY <1>1, <1>2, <1>25, <2>1 DEF CompleteAnswered, NextClaim, ProcessInv, ExecutorType, Busy
  <1>26. ASSUME NEW f \in Fences, VerifyCompletion(f)
        PROVE  ProcessInv'
    <2>1. \/ NextClaim(f)
          \/ \E p \in {"undoing", "completing"} : pc' = [pc EXCEPT ![f] = p] /\ UNCHANGED claims
      BY <1>26 DEF VerifyCompletion, Resolve
    <2> QED
      BY <1>1, <1>2, <1>26, <2>1 DEF VerifyCompletion, NextClaim, ProcessInv, ExecutorType, Busy
  <1>27. ASSUME NEW f \in Fences, CleanupUncommittedStart(f)
        PROVE  ProcessInv'
    <2>1. pc[f] = "undoing" /\ claims[f] # {}
      BY <1>2, <1>27 DEF CleanupUncommittedStart, ProcessInv, Busy
    <2>2. \A e \in Fences : e # f =>
            pc'[e] = pc[e] /\ claims'[e] = claims[e] /\ held'[e] = held[e] /\ active'[e] = active[e]
      BY <1>1, <1>27 DEF CleanupUncommittedStart, NextClaim, ExecutorType, RunningType
    <2>3. \/ pc'[f] = "undoing" /\ claims'[f] = claims[f]
          \/ /\ held'[f] = 0
             /\ claims'[f] = claims[f] \ {Current(f)}
             /\ pc'[f] = IF claims[f] = {Current(f)} THEN "idle" ELSE "starting"
      BY <1>1, <1>27 DEF CleanupUncommittedStart, NextClaim, ExecutorType
    <2>4. UNCHANGED fence
      BY <1>27 DEF CleanupUncommittedStart
    <2>5. \A e \in Fences : e > fence' => pc'[e] = "down"
      BY <1>2, <2>1, <2>2, <2>4 DEF ProcessInv
    <2>6. \A e \in Fences : claims'[e] # {} <=> pc'[e] \in Busy
      BY <1>2, <2>1, <2>2, <2>3 DEF ProcessInv, Busy
    <2>7. \A e \in Fences : held'[e] # 0 => pc'[e] \in {"installed", "undoing", "terminal"}
      BY <1>2, <2>2, <2>3 DEF ProcessInv
    <2>8. \A e \in Fences, b \in Broadcasts :
            pc'[e] \in {"down", "recovering", "cleaning"} => active'[e][b] = 0
      BY <1>2, <2>2, <2>3 DEF ProcessInv
    <2> QED
      BY <2>5, <2>6, <2>7, <2>8 DEF ProcessInv, Busy
  <1>28. ASSUME NEW f \in Fences, NEW b \in Broadcasts, TerminalClose(f, b)
        PROVE  ProcessInv'
    <2>1. \/ UNCHANGED <<held, pc>>
          \/ held' = [held EXCEPT ![f] = active[f][b]] /\ pc' = [pc EXCEPT ![f] = "terminal"]
      BY <1>28 DEF TerminalClose
    <2>2. pc[f] = "idle"
      BY <1>28 DEF TerminalClose
    <2> QED
      BY <1>1, <1>2, <1>28, <2>1, <2>2 DEF TerminalClose, ProcessInv, ExecutorType, Busy
  <1>29. ASSUME NEW f \in Fences, ReconcileTerminal(f)
        PROVE  ProcessInv'
    <2>1. \A e \in Fences, c \in Broadcasts : active'[e][c] = active[e][c] \/ active'[e][c] = 0
      BY <1>1, <1>29, TerminalFacts
    <2> QED
      BY <1>1, <1>2, <1>29, <2>1 DEF ReconcileTerminal, ProcessInv, ExecutorType, Busy
  <1>30. ASSUME NEW f \in Fences, Crash(f)
        PROVE  ProcessInv'
    <2>1. \A e \in Fences :
            IF e = f
            THEN /\ pc'[e] = "down" /\ claims'[e] = {} /\ held'[e] = 0
                 /\ \A b \in Broadcasts : active'[e][b] = 0
            ELSE pc'[e] = pc[e] /\ claims'[e] = claims[e] /\ held'[e] = held[e] /\ active'[e] = active[e]
      BY <1>1, <1>30 DEF Crash, Down, Nothing, ExecutorType, RunningType
    <2> QED
      BY <1>2, <1>30, <2>1 DEF Crash, ProcessInv, Busy
  <1>31. ASSUME NEW f \in Fences, Exit(f)
        PROVE  ProcessInv'
    <2>1. \A e \in Fences :
            IF e = f
            THEN /\ pc'[e] = "down" /\ claims'[e] = {} /\ held'[e] = 0
                 /\ \A b \in Broadcasts : active'[e][b] = 0
            ELSE pc'[e] = pc[e] /\ claims'[e] = claims[e] /\ held'[e] = held[e] /\ active'[e] = active[e]
      BY <1>1, <1>31 DEF Exit, Down, Nothing, ExecutorType, RunningType
    <2> QED
      BY <1>2, <1>31, <2>1 DEF Exit, ProcessInv, Busy
  <1>32. ASSUME NEW f \in Fences, BeginShutdown(f)
        PROVE  ProcessInv'
    BY <1>32, <1>1, <1>2
       DEF BeginShutdown, ProcessInv, ExecutorType, RunningType, Busy, Executing, ShuttingDown
  <1>33. ASSUME NEW f \in Fences, FailStaleWorkerBroadcasts(f)
        PROVE  ProcessInv'
    BY <1>33, <1>1, <1>2
       DEF FailStaleWorkerBroadcasts, ProcessInv, ExecutorType, RunningType, Busy, Executing,
           ShuttingDown
  <1>34. ASSUME NEW f \in Fences, CleanStaleRow(f)
        PROVE  ProcessInv'
    <2>1. pc[f] = "cleaning" /\ (UNCHANGED pc \/ pc' = [pc EXCEPT ![f] = "recovering"])
      BY <1>34 DEF CleanStaleRow
    <2> QED
      BY <1>1, <1>2, <1>34, <2>1 DEF CleanStaleRow, ProcessInv, ExecutorType, Busy
  <1>35. ASSUME NEW f \in Fences, StaleFencesReconciled(f)
        PROVE  ProcessInv'
    <2>1. pc[f] = "cleaning" /\ pc' = [pc EXCEPT ![f] = "idle"]
      BY <1>35 DEF StaleFencesReconciled
    <2> QED
      BY <1>1, <1>2, <1>35, <2>1 DEF StaleFencesReconciled, ProcessInv, ExecutorType, Busy
  <1>36. ASSUME NEW f \in Fences, FailWorkerBroadcasts(f)
        PROVE  ProcessInv'
    <2>1. pc[f] = "failing" /\ pc' = [pc EXCEPT ![f] = "finalizing"]
      BY <1>36 DEF FailWorkerBroadcasts
    <2> QED
      BY <1>1, <1>2, <1>36, <2>1 DEF FailWorkerBroadcasts, ProcessInv, ExecutorType, Busy
  <1>37. ASSUME NEW f \in Fences, CompleteAmbiguous(f)
        PROVE  ProcessInv'
    BY <1>37, <1>1, <1>2
       DEF CompleteAmbiguous, ProcessInv, ExecutorType, RunningType, Busy, Executing,
           ShuttingDown
  <1>38. ASSUME NEW f \in Fences, ShutdownClose(f)
        PROVE  ProcessInv'
    <2>1. pc[f] = "closing" /\ (UNCHANGED pc \/ pc' = [pc EXCEPT ![f] = "failing"])
      BY <1>38 DEF ShutdownClose
    <2>2. \A e \in Fences, b \in Broadcasts : active'[e][b] = active[e][b] \/ e = f
      BY <1>1, <1>38 DEF ShutdownClose, RunningType
    <2> QED
      BY <1>1, <1>2, <1>38, <2>1, <2>2 DEF ShutdownClose, ProcessInv, ExecutorType, Busy
  <1>39. ASSUME NEW f \in Fences, StartRefused(f)
        PROVE  ProcessInv'
    BY <1>39, <1>1, <1>2
       DEF StartRefused, Deliver, ProcessInv, ExecutorType, RunningType, Busy, Executing,
           ShuttingDown
  <1>40. ASSUME NEW f \in Fences, StartAbandoned(f)
        PROVE  ProcessInv'
    BY <1>40, <1>1, <1>2
       DEF StartAbandoned, Deliver, ProcessInv, ExecutorType, RunningType, Busy, Executing,
           ShuttingDown
  <1>41. ASSUME NEW f \in Fences, StopBroadcast(f)
        PROVE  ProcessInv'
    <2>1. /\ pc[f] = "starting" /\ pc' = [pc EXCEPT ![f] = "completing"]
          /\ fence' = fence /\ claims' = claims /\ held' = held
      BY <1>41 DEF StopBroadcast, Executing, Deliver
    <2>2. active' = [active EXCEPT ![f][Current(f).broadcast] = 0]
      BY <1>41 DEF StopBroadcast
    <2>3. \A e \in Fences : pc'[e] = IF e = f THEN "completing" ELSE pc[e]
      BY <1>1, <2>1 DEF ExecutorType
    <2>4. \A e \in Fences, b \in Broadcasts : active[e][b] = 0 => active'[e][b] = 0
      BY <1>1, <2>2 DEF RunningType
    <2> QED
      BY <1>2, <2>1, <2>3, <2>4 DEF ProcessInv, Busy
  <1>42. ASSUME NEW f \in Fences, StopAbsent(f)
        PROVE  ProcessInv'
    <2>1. pc[f] = "starting" /\ pc' = [pc EXCEPT ![f] = "completing"]
      BY <1>42 DEF StopAbsent, Executing, Deliver
    <2> QED
      BY <1>1, <1>2, <1>42, <2>1 DEF StopAbsent, ProcessInv, ExecutorType, Busy
  <1>43. CASE UNCHANGED <<fence, pc, claims, held, active>>
    BY <1>43, <1>2 DEF ProcessInv
  <1> QED
    BY <1>21, <1>22, <1>23, <1>24, <1>25, <1>26, <1>27, <1>28, <1>29, <1>30, <1>31, <1>32, <1>33,
       <1>34, <1>35, <1>36, <1>37, <1>38, <1>39, <1>40, <1>41, <1>42, <1>43
       DEF Next, Work, EnqueueStart, EnqueueStop, GrantExpires, SourceLeaves, ClaimLapses,
           FinalizeDrained, RetryRevoke, vars, durable, store, process

\* What a completion by an executor does, with the facts about its claim.
LEMMA CompletionFacts ==
    ASSUME Inv, NEW f \in Fences, pc[f] \in Busy, Complete(Current(f), result[f])
    PROVE  /\ Current(f).id \in DOMAIN commands
           /\ DOMAIN commands' = DOMAIN commands
           /\ commands[Current(f).id].state = "claimed"
           /\ commands[Current(f).id].broadcast = Current(f).broadcast
           /\ commands[Current(f).id].kind = Current(f).kind
           /\ Current(f).broadcast \in Broadcasts
           /\ record[Current(f).broadcast].fence = f
           /\ \A b \in Broadcasts :
                /\ record'[b].fence = record[b].fence
                /\ b # Current(f).broadcast => record'[b] = record[b]
           /\ record'[Current(f).broadcast].runtime = result[f].runtime
           /\ record'[Current(f).broadcast].state \in {"active", "deleted", "failed"}
           /\ record'[Current(f).broadcast].state = "active" => result[f].kind = "started"
           /\ result[f].kind = "started" => record'[Current(f).broadcast].state = "active"
           /\ \A i \in DOMAIN commands :
                /\ commands'[i].broadcast = commands[i].broadcast
                /\ commands'[i].kind = commands[i].kind
                /\ commands'[i].fence = commands[i].fence
                /\ commands'[i].generation = commands[i].generation
                /\ IF i = Current(f).id THEN commands'[i].state \in {"succeeded", "failed"}
                   ELSE commands'[i].state = commands[i].state
           /\ committed' = committed \cup ({result[f].runtime} \ {0})
  <1>1. /\ RecordType /\ CommandsType /\ ExecutorType
        /\ Current(f) \in claims[f] /\ Current(f) \in Claim /\ Current(f).broadcast \in Broadcasts
    BY Basics DEF Inv
  <1>2. /\ Current(f).id \in DOMAIN commands
        /\ commands[Current(f).id].broadcast = Current(f).broadcast
        /\ commands[Current(f).id].kind = Current(f).kind
        /\ commands[Current(f).id].fence = f
    BY <1>1 DEF Inv, ClaimsInv
  <1>3. record[Current(f).broadcast].fence = f
    BY <1>2 DEF Inv, CommandsInv
  <1>4. result[f] \in Result
    BY <1>1 DEF ExecutorType
  <1> QED
    BY <1>1, <1>2, <1>3, <1>4, CompleteFacts

\* Commands and rows stay consistent with each other.
LEMMA CommandsStep ==
    ASSUME Inv, [Next]_vars
    PROVE  CommandsInv'
  <1>1. /\ RecordType /\ CommandsType /\ ExecutorType /\ RunningType
        /\ \A f \in Fences : pc[f] \in Busy => Current(f) \in claims[f] /\ Current(f) \in Claim
    BY Basics DEF Inv
  <1>2. CommandsInv /\ ClaimsInv
    BY DEF Inv
  <1>3. \A b \in Broadcasts : record[b] \in Row /\ record[b].fence \in Nat
    BY <1>1, Fields
  <1>4. \A i \in DOMAIN commands : commands[i].broadcast \in Broadcasts /\ commands[i].fence \in Fences
    BY <1>1, Fields
  <1>5. \A i \in DOMAIN commands : commands[i].kind \in {"start", "stop"} /\ commands[i].generation \in Nat
    BY <1>1, Fields
  <1>21. ASSUME NEW b \in Broadcasts, EnqueueStart(b)
        PROVE  CommandsInv'
    <2> DEFINE n == Len(commands) + 1
    <2>1. /\ fence \in Fences
          /\ record[b].state = "none"
          /\ record'[b].state = "pending" /\ record'[b].fence = fence
          /\ \A c \in Broadcasts : c # b => record'[c] = record[c]
          /\ n \in Nat /\ DOMAIN commands = 1..(n - 1) /\ DOMAIN commands' = 1..n
          /\ \A i \in DOMAIN commands : commands'[i] = commands[i] /\ i < n
          /\ commands'[n] = NewCommand(b, "start", fence)
      BY <1>1, <1>21, EnqueueStartFacts
    <2>2. UNCHANGED fence /\ fence # 0 /\ fence <= fence
      BY <1>21, <2>1 DEF EnqueueStart, Fences
    <2>3. /\ commands'[n].broadcast = b /\ commands'[n].kind = "start" /\ commands'[n].fence = fence
          /\ commands'[n].state = "pending" /\ commands'[n].generation = 0
      BY <2>1 DEF NewCommand
    <2>4. \A i \in DOMAIN commands : commands[i].broadcast # b
      BY <1>2, <1>4, <2>1 DEF CommandsInv, Fences
    <2>5. \A i \in DOMAIN commands' : i = n \/ i \in DOMAIN commands
      BY <2>1
    <2> HIDE DEF n
    <2>6. /\ \A c \in Broadcasts : record'[c].fence <= fence'
          /\ \A c \in Broadcasts : record'[c].state = "none" <=> record'[c].fence = 0
      BY <1>2, <2>1, <2>2 DEF CommandsInv
    <2>7. \A i \in DOMAIN commands' : commands'[i].fence = record'[commands'[i].broadcast].fence
      BY <1>2, <1>4, <2>1, <2>3, <2>4, <2>5 DEF CommandsInv
    <2>8. \A i, j \in DOMAIN commands' :
            /\ commands'[i].kind = "start"
            /\ commands'[i].broadcast = commands'[j].broadcast
            => IF commands'[j].kind = "start" THEN i = j
               ELSE i < j /\ (commands'[i].state = "pending" => commands'[j].state = "pending")
      BY <1>2, <2>1, <2>3, <2>4, <2>5 DEF CommandsInv
    <2>9. \A i \in DOMAIN commands' :
            /\ commands'[i].state = "pending" => commands'[i].generation = 0
            /\ commands'[i].state = "claimed" => commands'[i].generation # 0
            /\ commands'[i].state = "pending" /\ commands'[i].kind = "start"
                 => record'[commands'[i].broadcast].state \in {"pending", "deleting"}
      BY <1>2, <1>4, <2>1, <2>3, <2>4, <2>5 DEF CommandsInv
    <2> QED
      BY <2>6, <2>7, <2>8, <2>9 DEF CommandsInv
  <1>22. ASSUME NEW b \in Broadcasts, EnqueueStop(b)
        PROVE  CommandsInv'
    <2>1. record[b].fence \in Fences
      <3>1. record[b].state # "none"
        BY <1>22 DEF EnqueueStop, DeleteFailed, DeleteOpen, Open
      <3>2. record[b].fence \in 0..MaxFence /\ record[b].fence # 0
        BY <1>1, <1>2, <3>1 DEF RecordType, Row, CommandsInv
      <3> QED
        BY <3>2, BoundsAreNat DEF Fences
    <2>2. /\ \/ record[b].state \in Open /\ record'[b].state = "deleting"
             \/ record[b].state = "failed" /\ record'[b].state = "deleted"
          /\ \A c \in Broadcasts : record'[c].fence = record[c].fence /\ (c # b => record'[c] = record[c])
          /\ Len(commands) \in Nat /\ DOMAIN commands = 1..Len(commands)
          /\ \A i \in DOMAIN commands : i \in DOMAIN commands' /\ commands'[i] = commands[i]
          /\ \A i \in DOMAIN commands' : i \notin DOMAIN commands =>
               i = Len(commands) + 1 /\ commands'[i] = NewCommand(b, "stop", record[b].fence)
      BY <1>1, <1>22, <2>1, EnqueueStopFacts
    <2>3. UNCHANGED fence
      BY <1>22 DEF EnqueueStop
    <2>4. \A i \in DOMAIN commands' : i \notin DOMAIN commands =>
            /\ commands'[i].broadcast = b /\ commands'[i].kind = "stop"
            /\ commands'[i].fence = record[b].fence
            /\ commands'[i].state = "pending" /\ commands'[i].generation = 0
            /\ \A j \in DOMAIN commands : j < i
      BY <2>2 DEF NewCommand
    <2>5. /\ \A c \in Broadcasts : record'[c].fence <= fence'
          /\ \A c \in Broadcasts : record'[c].state = "none" <=> record'[c].fence = 0
      BY <1>2, <2>2, <2>3 DEF CommandsInv, Open
    <2>6. \A i \in DOMAIN commands' : commands'[i].fence = record'[commands'[i].broadcast].fence
      BY <1>2, <1>4, <2>2, <2>4 DEF CommandsInv
    <2>7. \A i, j \in DOMAIN commands' :
            /\ commands'[i].kind = "start"
            /\ commands'[i].broadcast = commands'[j].broadcast
            => IF commands'[j].kind = "start" THEN i = j
               ELSE i < j /\ (commands'[i].state = "pending" => commands'[j].state = "pending")
      BY <1>2, <2>2, <2>4 DEF CommandsInv
    <2>8. \A i \in DOMAIN commands' :
            /\ commands'[i].state = "pending" => commands'[i].generation = 0
            /\ commands'[i].state = "claimed" => commands'[i].generation # 0
            /\ commands'[i].state = "pending" /\ commands'[i].kind = "start"
                 => record'[commands'[i].broadcast].state \in {"pending", "deleting"}
      BY <1>2, <1>4, <2>2, <2>4 DEF CommandsInv, Open
    <2> QED
      BY <2>5, <2>6, <2>7, <2>8 DEF CommandsInv
  <1>23. ASSUME Register
        PROVE  CommandsInv'
    <2>1. fence' = fence + 1 /\ fence \in Nat /\ UNCHANGED <<record, commands>>
      BY <1>1, <1>23, BoundsAreNat DEF Register, durable, ExecutorType
    <2>2. \A b \in Broadcasts : record[b].fence <= fence + 1
      BY <1>2, <1>3, <2>1 DEF CommandsInv
    <2> QED
      BY <1>2, <2>1, <2>2 DEF CommandsInv
  <1>24. ASSUME ClaimLapses
        PROVE  CommandsInv'
    <2>1. UNCHANGED <<record, fence>>
      BY <1>24 DEF ClaimLapses
    <2> QED
      BY <1>1, <1>2, <1>24, <2>1, LapseFacts DEF CommandsInv
  <1>25. ASSUME NEW f \in Fences, FailStaleWorkerBroadcasts(f)
        PROVE  CommandsInv'
    <2>1. UNCHANGED fence
      BY <1>25 DEF FailStaleWorkerBroadcasts
    <2>2. CASE FailOpen(Fences \ {f}, "stale")
      <3>1. "stale" \in Code
        BY DEF Code
      <3>2. /\ DOMAIN commands' = DOMAIN commands
            /\ \A b \in Broadcasts :
                /\ record'[b].fence = record[b].fence
                /\ IF record[b].fence \in Fences \ {f} /\ record[b].state \in Open
                   THEN record'[b].state = "failed" ELSE record'[b] = record[b]
            /\ \A i \in DOMAIN commands :
                /\ commands'[i].broadcast = commands[i].broadcast
                /\ commands'[i].kind = commands[i].kind
                /\ commands'[i].fence = commands[i].fence
                /\ commands'[i].generation = commands[i].generation
                /\ IF commands[i].fence \in Fences \ {f} /\ commands[i].state \in {"pending", "claimed"}
                   THEN commands'[i].state = "failed" ELSE commands'[i].state = commands[i].state
        BY <1>1, <2>2, <3>1, FailOpenFacts
      <3>3. /\ \A b \in Broadcasts : record'[b].fence <= fence'
            /\ \A b \in Broadcasts : record'[b].state = "none" <=> record'[b].fence = 0
        BY <1>2, <2>1, <3>2 DEF CommandsInv, Open
      <3>4. \A i \in DOMAIN commands : commands[i].fence = record[commands[i].broadcast].fence
        BY <1>2 DEF CommandsInv
      <3>5. \A i \in DOMAIN commands' :
              /\ commands'[i].state = "pending" => commands'[i].generation = 0
              /\ commands'[i].state = "claimed" => commands'[i].generation # 0
              /\ commands'[i].state = "pending" /\ commands'[i].kind = "start"
                   => record'[commands'[i].broadcast].state \in {"pending", "deleting"}
        BY <1>2, <1>4, <3>2, <3>4 DEF CommandsInv, Open
      <3> QED
        BY <1>2, <1>4, <3>2, <3>3, <3>5 DEF CommandsInv
    <2>3. CASE UNCHANGED durable
      BY <1>2, <2>1, <2>3 DEF CommandsInv, durable
    <2> QED
      BY <1>25, <2>2, <2>3 DEF FailStaleWorkerBroadcasts
  <1>26. ASSUME NEW f \in Fences, CleanStaleRow(f)
        PROVE  CommandsInv'
    <2>1. UNCHANGED <<commands, fence>>
      BY <1>26 DEF CleanStaleRow
    <2>2. PICK r \in stale[f] : record' = record \/ record' = FinalizeFailedCleanup(r, record[r].fence, record[r].runtime)
      BY <1>26 DEF CleanStaleRow
    <2>3. r \in Broadcasts
      BY <1>1 DEF ExecutorType
    <2>4. \A c \in Broadcasts : record'[c].fence = record[c].fence /\ record'[c].state = record[c].state
      BY <1>1, <2>2, <2>3, FinalizeFacts
    <2> QED
      BY <1>2, <1>4, <2>1, <2>4 DEF CommandsInv
  <1>27. ASSUME NEW f \in Fences, ClaimAndExecute(f)
        PROVE  CommandsInv'
    <2>1. UNCHANGED <<record, fence>>
      BY <1>27 DEF ClaimAndExecute
    <2>2. /\ DOMAIN commands' = DOMAIN commands
          /\ \A i \in DOMAIN commands :
                /\ commands'[i].broadcast = commands[i].broadcast
                /\ commands'[i].kind = commands[i].kind
                /\ commands'[i].fence = commands[i].fence
                /\ IF Claimable(i, f)
                   THEN commands'[i].state = "claimed" /\ commands'[i].generation = commands[i].generation + 1
                   ELSE commands'[i] = commands[i]
      BY <1>1, <1>27, ClaimFacts
    <2>3. \A i \in DOMAIN commands :
            /\ commands[i].generation + 1 # 0
            /\ commands[i].state = "pending" /\ commands[i].fence = f => Claimable(i, f)
            /\ Claimable(i, f) => commands[i].fence = f
      BY <1>5 DEF Claimable
    <2> HIDE DEF Claimable
    <2>4. \A i, j \in DOMAIN commands' :
            /\ commands'[i].kind = "start"
            /\ commands'[i].broadcast = commands'[j].broadcast
            => IF commands'[j].kind = "start" THEN i = j
               ELSE i < j /\ (commands'[i].state = "pending" => commands'[j].state = "pending")
      BY <1>2, <2>2, <2>3 DEF CommandsInv
    <2>5. \A i \in DOMAIN commands' :
            /\ commands'[i].state = "pending" => commands'[i].generation = 0
            /\ commands'[i].state = "claimed" => commands'[i].generation # 0
            /\ commands'[i].state = "pending" /\ commands'[i].kind = "start"
                 => record'[commands'[i].broadcast].state \in {"pending", "deleting"}
      BY <1>2, <1>4, <2>1, <2>2, <2>3 DEF CommandsInv
    <2> QED
      BY <1>2, <2>1, <2>2, <2>4, <2>5 DEF CommandsInv
  <1>28. ASSUME NEW f \in Fences, CompleteAnswered(f)
        PROVE  CommandsInv'
    <2>1. UNCHANGED fence /\ pc[f] \in Busy
      BY <1>28 DEF CompleteAnswered, Busy
    <2>2. CASE Complete(Current(f), result[f])
      <3>1. /\ \A b \in Broadcasts : record'[b].fence <= fence'
            /\ \A b \in Broadcasts : record'[b].state = "none" <=> record'[b].fence = 0
        BY <1>2, <2>1, <2>2, CompletionFacts DEF CommandsInv, Fences
      <3>2. \A i \in DOMAIN commands : i # Current(f).id /\ commands[i].state = "pending"
              /\ commands[i].kind = "start" => commands[i].broadcast # Current(f).broadcast
        <4>1. SUFFICES ASSUME NEW i \in DOMAIN commands, commands[i].state = "pending",
                              commands[i].kind = "start", commands[i].broadcast = Current(f).broadcast,
                              i # Current(f).id
                       PROVE  FALSE
          OBVIOUS
        <4> QED
          BY <1>2, <1>5, <2>1, <2>2, <4>1, CompletionFacts DEF CommandsInv
      <3>3. \A i \in DOMAIN commands' :
              /\ commands'[i].state = "pending" => commands'[i].generation = 0
              /\ commands'[i].state = "claimed" => commands'[i].generation # 0
              /\ commands'[i].state = "pending" /\ commands'[i].kind = "start"
                   => record'[commands'[i].broadcast].state \in {"pending", "deleting"}
        BY <1>2, <1>4, <2>1, <2>2, <3>2, CompletionFacts DEF CommandsInv
      <3> QED
        BY <1>2, <1>4, <2>1, <2>2, <3>1, <3>3, CompletionFacts DEF CommandsInv
    <2>3. CASE UNCHANGED durable
      BY <1>2, <2>1, <2>3 DEF CommandsInv, durable
    <2> QED
      BY <1>28, <2>2, <2>3 DEF CompleteAnswered
  <1>29. ASSUME NEW f \in Fences, CompleteAmbiguous(f)
        PROVE  CommandsInv'
    <2>1. UNCHANGED fence /\ pc[f] \in Busy
      BY <1>29 DEF CompleteAmbiguous, Busy
    <2>2. CASE Complete(Current(f), result[f])
      <3>1. /\ \A b \in Broadcasts : record'[b].fence <= fence'
            /\ \A b \in Broadcasts : record'[b].state = "none" <=> record'[b].fence = 0
        BY <1>2, <2>1, <2>2, CompletionFacts DEF CommandsInv, Fences
      <3>2. \A i \in DOMAIN commands : i # Current(f).id /\ commands[i].state = "pending"
              /\ commands[i].kind = "start" => commands[i].broadcast # Current(f).broadcast
        <4>1. SUFFICES ASSUME NEW i \in DOMAIN commands, commands[i].state = "pending",
                              commands[i].kind = "start", commands[i].broadcast = Current(f).broadcast,
                              i # Current(f).id
                       PROVE  FALSE
          OBVIOUS
        <4> QED
          BY <1>2, <1>5, <2>1, <2>2, <4>1, CompletionFacts DEF CommandsInv
      <3>3. \A i \in DOMAIN commands' :
              /\ commands'[i].state = "pending" => commands'[i].generation = 0
              /\ commands'[i].state = "claimed" => commands'[i].generation # 0
              /\ commands'[i].state = "pending" /\ commands'[i].kind = "start"
                   => record'[commands'[i].broadcast].state \in {"pending", "deleting"}
        BY <1>2, <1>4, <2>1, <2>2, <3>2, CompletionFacts DEF CommandsInv
      <3> QED
        BY <1>2, <1>4, <2>1, <2>2, <3>1, <3>3, CompletionFacts DEF CommandsInv
    <2>3. CASE UNCHANGED durable
      BY <1>2, <2>1, <2>3 DEF CommandsInv, durable
    <2> QED
      BY <1>29, <2>2, <2>3 DEF CompleteAmbiguous
  <1>30. ASSUME NEW f \in Fences, ReconcileTerminal(f)
        PROVE  CommandsInv'
    <2>1. UNCHANGED <<commands, fence>>
      BY <1>30 DEF ReconcileTerminal
    <2>2. \A c \in Broadcasts :
            /\ record'[c].fence = record[c].fence
            /\ record'[c] = record[c] \/ (record[c].state = "active" /\ record'[c].state = "failed")
      BY <1>1, <1>30, TerminalFacts
    <2>3. \A i \in DOMAIN commands :
            commands[i].state = "pending" /\ commands[i].kind = "start"
              => record'[commands[i].broadcast].state \in {"pending", "deleting"}
      BY <1>2, <1>4, <2>2 DEF CommandsInv
    <2> QED
      BY <1>2, <1>4, <2>1, <2>2, <2>3 DEF CommandsInv
  <1>31. ASSUME NEW f \in Fences, FailWorkerBroadcasts(f)
        PROVE  CommandsInv'
    <2>1. UNCHANGED fence
      BY <1>31 DEF FailWorkerBroadcasts
    <2>2. CASE FailOpen({f}, "drained")
      <3>1. "drained" \in Code
        BY DEF Code
      <3>2. /\ DOMAIN commands' = DOMAIN commands
            /\ \A b \in Broadcasts :
                /\ record'[b].fence = record[b].fence
                /\ IF record[b].fence \in {f} /\ record[b].state \in Open
                   THEN record'[b].state = "failed" ELSE record'[b] = record[b]
            /\ \A i \in DOMAIN commands :
                /\ commands'[i].broadcast = commands[i].broadcast
                /\ commands'[i].kind = commands[i].kind
                /\ commands'[i].fence = commands[i].fence
                /\ commands'[i].generation = commands[i].generation
                /\ IF commands[i].fence \in {f} /\ commands[i].state \in {"pending", "claimed"}
                   THEN commands'[i].state = "failed" ELSE commands'[i].state = commands[i].state
        BY <1>1, <2>2, <3>1, FailOpenFacts
      <3>3. /\ \A b \in Broadcasts : record'[b].fence <= fence'
            /\ \A b \in Broadcasts : record'[b].state = "none" <=> record'[b].fence = 0
        BY <1>2, <2>1, <3>2 DEF CommandsInv, Open
      <3>4. \A i \in DOMAIN commands : commands[i].fence = record[commands[i].broadcast].fence
        BY <1>2 DEF CommandsInv
      <3>5. \A i \in DOMAIN commands' :
              /\ commands'[i].state = "pending" => commands'[i].generation = 0
              /\ commands'[i].state = "claimed" => commands'[i].generation # 0
              /\ commands'[i].state = "pending" /\ commands'[i].kind = "start"
                   => record'[commands'[i].broadcast].state \in {"pending", "deleting"}
        BY <1>2, <1>4, <3>2, <3>4 DEF CommandsInv, Open
      <3> QED
        BY <1>2, <1>4, <3>2, <3>3, <3>5 DEF CommandsInv
    <2>3. CASE UNCHANGED durable
      BY <1>2, <2>1, <2>3 DEF CommandsInv, durable
    <2> QED
      BY <1>31, <2>2, <2>3 DEF FailWorkerBroadcasts
  <1>32. ASSUME NEW f \in Fences, FinalizeDrained(f)
        PROVE  CommandsInv'
    <2>1. UNCHANGED <<commands, fence>>
      BY <1>32 DEF FinalizeDrained
    <2>2. PICK r \in drained[f] : record' = record \/ record' = FinalizeFailedCleanup(r[1], f, r[2])
      BY <1>32 DEF FinalizeDrained
    <2>3. r[1] \in Broadcasts
      BY <1>1 DEF RunningType
    <2>4. \A c \in Broadcasts : record'[c].fence = record[c].fence /\ record'[c].state = record[c].state
      BY <1>1, <2>2, <2>3, FinalizeFacts
    <2> QED
      BY <1>2, <1>4, <2>1, <2>4 DEF CommandsInv
  <1>33. CASE UNCHANGED <<record, commands, fence>>
    BY <1>33, <1>2 DEF CommandsInv
  <1> QED
    BY <1>21, <1>22, <1>23, <1>24, <1>25, <1>26, <1>27, <1>28, <1>29, <1>30, <1>31, <1>32, <1>33
       DEF Next, Work, GrantExpires, SourceLeaves, StaleFencesReconciled, StartRefused,
           ManagedStart, StartInstalled, StartAbandoned, StopBroadcast, StopAbsent,
           VerifyCompletion, CleanupUncommittedStart, TerminalClose, ShutdownClose, Exit,
           RetryRevoke, Crash, BeginShutdown, vars, durable, store, process

\* Claims stay good while their commands keep their identity and no claimed
\* start loses its open row.
LEMMA ClaimsKept ==
    ASSUME Inv,
           \A e \in Fences : claims'[e] \subseteq claims[e],
           \A i \in DOMAIN commands :
             /\ i \in DOMAIN commands'
             /\ commands'[i].broadcast = commands[i].broadcast
             /\ commands'[i].kind = commands[i].kind
             /\ commands'[i].fence = commands[i].fence
             /\ commands'[i].generation = commands[i].generation
             /\ commands'[i].state = commands[i].state \/ commands'[i].state \in {"succeeded", "failed"},
           \A e \in Fences : \A c \in claims[e] :
             /\ c.kind = "start" /\ commands'[c.id].state = "claimed"
             /\ record[c.broadcast].state \in {"pending", "deleting"}
             => record'[c.broadcast].state \in {"pending", "deleting"}
    PROVE  ClaimsInv'
  <1>1. ClaimsInv
    BY DEF Inv
  <1>2. SUFFICES ASSUME NEW e \in Fences, NEW c \in claims'[e]
                 PROVE  /\ c.id \in DOMAIN commands'
                        /\ commands'[c.id].broadcast = c.broadcast
                        /\ commands'[c.id].kind = c.kind
                        /\ commands'[c.id].fence = e
                        /\ commands'[c.id].state # "pending"
                        /\ \A d \in claims'[e] : c.id = d.id => c = d
                        /\ /\ c.kind = "start" /\ commands'[c.id].state = "claimed"
                           /\ commands'[c.id].generation = 1
                           => record'[c.broadcast].state \in {"pending", "deleting"}
    BY DEF ClaimsInv
  <1>3. c \in claims[e]
    BY <1>2
  <1>4. /\ c.id \in DOMAIN commands
        /\ commands[c.id].broadcast = c.broadcast
        /\ commands[c.id].kind = c.kind
        /\ commands[c.id].fence = e
        /\ commands[c.id].state # "pending"
        /\ \A d \in claims[e] : c.id = d.id => c = d
        /\ /\ c.kind = "start" /\ commands[c.id].state = "claimed" /\ commands[c.id].generation = 1
           => record[c.broadcast].state \in {"pending", "deleting"}
    BY <1>1, <1>3 DEF ClaimsInv
  <1>5. \A d \in claims'[e] : d \in claims[e]
    OBVIOUS
  <1> QED
    BY <1>3, <1>4, <1>5

\* Claims in hand stay the commands they were.
LEMMA ClaimsStep ==
    ASSUME Inv, [Next]_vars
    PROVE  ClaimsInv'
  <1>1. /\ RecordType /\ CommandsType /\ ExecutorType /\ RunningType
        /\ \A f \in Fences : pc[f] \in Busy =>
             Current(f) \in claims[f] /\ (\A d \in claims[f] : Current(f).id <= d.id)
    BY Basics DEF Inv
  <1>2. CommandsInv /\ ClaimsInv
    BY DEF Inv
  <1>3. \A e \in Fences : \A c \in claims[e] : c.broadcast \in Broadcasts
    BY <1>1 DEF ExecutorType, Claim
  <1>21. ASSUME NEW b \in Broadcasts, EnqueueStart(b)
        PROVE  ClaimsInv'
    <2>1. UNCHANGED claims
      BY <1>21 DEF EnqueueStart, process
    <2>2. \A i \in DOMAIN commands : i \in DOMAIN commands' /\ commands'[i] = commands[i]
      BY <1>1, <1>21, EnqueueStartFacts
    <2>3. record[b].state = "none" /\ \A c \in Broadcasts : c # b => record'[c] = record[c]
      BY <1>1, <1>21, EnqueueStartFacts
    <2> QED
      BY <1>3, <2>1, <2>2, <2>3, ClaimsKept
  <1>22. ASSUME NEW b \in Broadcasts, EnqueueStop(b)
        PROVE  ClaimsInv'
    <2>1. record[b].fence \in Fences
      <3>1. record[b].state # "none"
        BY <1>22 DEF EnqueueStop, DeleteFailed, DeleteOpen, Open
      <3>2. record[b].fence \in 0..MaxFence /\ record[b].fence # 0
        BY <1>1, <1>2, <3>1 DEF RecordType, Row, CommandsInv
      <3> QED
        BY <3>2, BoundsAreNat DEF Fences
    <2>2. UNCHANGED claims
      BY <1>22 DEF EnqueueStop, process
    <2>3. /\ \A i \in DOMAIN commands : i \in DOMAIN commands' /\ commands'[i] = commands[i]
          /\ record'[b].state = "deleting" \/ record[b].state = "failed"
          /\ \A c \in Broadcasts : c # b => record'[c] = record[c]
      BY <1>1, <1>22, <2>1, EnqueueStopFacts
    <2> QED
      BY <1>3, <2>2, <2>3, ClaimsKept
  <1>23. ASSUME ClaimLapses
        PROVE  ClaimsInv'
    <2>1. UNCHANGED <<claims, record>>
      BY <1>23 DEF ClaimLapses, process
    <2> QED
      BY <1>1, <1>23, <2>1, LapseFacts, ClaimsKept
  <1>24. ASSUME NEW f \in Fences, FailStaleWorkerBroadcasts(f)
        PROVE  ClaimsInv'
    <2>1. UNCHANGED claims
      BY <1>24 DEF FailStaleWorkerBroadcasts
    <2>2. CASE FailOpen(Fences \ {f}, "stale")
      <3>1. "stale" \in Code
        BY DEF Code
      <3>2. /\ DOMAIN commands' = DOMAIN commands
            /\ \A b \in Broadcasts : record[b].fence \notin Fences \ {f} => record'[b] = record[b]
            /\ \A i \in DOMAIN commands :
                /\ commands'[i].broadcast = commands[i].broadcast
                /\ commands'[i].kind = commands[i].kind
                /\ commands'[i].fence = commands[i].fence
                /\ commands'[i].generation = commands[i].generation
                /\ IF commands[i].fence \in Fences \ {f} /\ commands[i].state \in {"pending", "claimed"}
                   THEN commands'[i].state = "failed" ELSE commands'[i].state = commands[i].state
        BY <1>1, <2>2, <3>1, FailOpenFacts
      <3>3. \A e \in Fences : \A c \in claims[e] :
              commands'[c.id].state = "claimed" => record'[c.broadcast] = record[c.broadcast]
        BY <1>2, <1>3, <3>2 DEF ClaimsInv, CommandsInv
      <3>4. \A i \in DOMAIN commands :
             commands'[i].state = commands[i].state \/ commands'[i].state \in {"succeeded", "failed"}
        BY <3>2
      <3> QED
        BY <2>1, <3>2, <3>3, <3>4, ClaimsKept
    <2>3. CASE UNCHANGED durable
      BY <1>2, <2>1, <2>3 DEF ClaimsInv, durable
    <2> QED
      BY <1>24, <2>2, <2>3 DEF FailStaleWorkerBroadcasts
  <1>25. ASSUME NEW f \in Fences, CleanStaleRow(f)
        PROVE  ClaimsInv'
    <2>1. UNCHANGED <<commands, claims>>
      BY <1>25 DEF CleanStaleRow
    <2>2. PICK r \in stale[f] : record' = record \/ record' = FinalizeFailedCleanup(r, record[r].fence, record[r].runtime)
      BY <1>25 DEF CleanStaleRow
    <2>3. r \in Broadcasts
      BY <1>1 DEF ExecutorType
    <2>4. \A c \in Broadcasts : record'[c].state = record[c].state
      BY <1>1, <2>2, <2>3, FinalizeFacts
    <2> QED
      BY <1>3, <2>1, <2>4, ClaimsKept
  <1>26. ASSUME NEW f \in Fences, ClaimAndExecute(f)
        PROVE  ClaimsInv'
    <2> DEFINE ids == {i \in DOMAIN commands : Claimable(i, f)}
               S == {ClaimOf(i) : i \in ids}
    <2>1. UNCHANGED record /\ claims[f] = {}
      BY <1>26 DEF ClaimAndExecute, Inv, ProcessInv, Busy
    <2>2. \/ UNCHANGED claims
          \/ claims' = [claims EXCEPT ![f] = S]
      BY <1>26 DEF ClaimAndExecute
    <2>3. \A e \in Fences : claims'[e] = claims[e] \/ (e = f /\ claims'[e] = S)
      <3> HIDE DEF S
      <3> QED
        BY <1>1, <2>2 DEF ExecutorType
    <2>4. /\ DOMAIN commands' = DOMAIN commands
          /\ \A i \in DOMAIN commands :
                /\ commands'[i].broadcast = commands[i].broadcast
                /\ commands'[i].kind = commands[i].kind
                /\ commands'[i].fence = commands[i].fence
                /\ IF Claimable(i, f)
                   THEN commands'[i].state = "claimed" /\ commands'[i].generation = commands[i].generation + 1
                   ELSE commands'[i] = commands[i]
      BY <1>1, <1>26, ClaimFacts
    <2>5. ASSUME NEW e \in Fences, NEW c \in claims'[e]
          PROVE  /\ c.id \in DOMAIN commands'
                 /\ commands'[c.id].broadcast = c.broadcast
                 /\ commands'[c.id].kind = c.kind
                 /\ commands'[c.id].fence = e
                 /\ commands'[c.id].state # "pending"
                 /\ \A d \in claims'[e] : c.id = d.id => c = d
                 /\ /\ c.kind = "start" /\ commands'[c.id].state = "claimed"
                    /\ commands'[c.id].generation = 1
                    => record'[c.broadcast].state \in {"pending", "deleting"}
      <3>1. CASE c \in claims[e] /\ claims'[e] = claims[e]
        <4>1. e # f
          BY <2>1, <3>1
        <4>2. commands'[c.id] = commands[c.id]
          BY <1>2, <2>4, <3>1, <4>1 DEF ClaimsInv, Claimable
        <4> QED
          BY <1>2, <2>1, <2>4, <3>1, <4>2 DEF ClaimsInv
      <3>2. CASE e = f /\ claims'[e] = S
        <4>1. PICK i \in DOMAIN commands : Claimable(i, f) /\ c = ClaimOf(i)
          BY <2>5, <3>2
        <4>2. /\ c.id = i /\ c.broadcast = commands[i].broadcast /\ c.kind = commands[i].kind
              /\ commands[i].fence = f /\ commands[i].state \in {"pending", "claimed"}
          BY <4>1 DEF ClaimOf, Claimable
        <4>3. \A d \in claims'[e] : c.id = d.id => c = d
          <5>1. \A d \in S : \E j \in DOMAIN commands : d = ClaimOf(j) /\ d.id = j
            BY DEF ClaimOf
          <5> QED
            BY <3>2, <4>1, <4>2, <5>1
        <4>4. commands'[i].generation = 1 => commands[i].state = "pending"
          <5>1. commands[i].generation \in Nat
            BY <1>1, Fields
          <5>2. commands'[i].generation = commands[i].generation + 1
            BY <2>4, <4>1
          <5>3. commands[i].state = "claimed" => commands[i].generation # 0
            BY <1>2 DEF CommandsInv
          <5> QED
            BY <4>2, <5>1, <5>2, <5>3
        <4>5. c.kind = "start" /\ commands'[c.id].generation = 1
                => record'[c.broadcast].state \in {"pending", "deleting"}
          BY <1>2, <2>1, <4>2, <4>4 DEF CommandsInv
        <4> HIDE DEF S, ids
        <4> QED
          BY <2>4, <3>2, <4>1, <4>2, <4>3, <4>5
      <3> QED
        BY <2>3, <2>5, <3>1, <3>2
    <2> QED
      BY <2>5 DEF ClaimsInv
  <1>27. ASSUME NEW f \in Fences, CompleteAnswered(f)
        PROVE  ClaimsInv'
    <2>1. \A e \in Fences : claims'[e] \subseteq claims[e]
      BY <1>1, <1>27 DEF CompleteAnswered, Resolve, NextClaim, ExecutorType
    <2>2. pc[f] \in Busy
      BY <1>27 DEF CompleteAnswered, Busy
    <2>3. CASE Complete(Current(f), result[f])
      <3>1. ASSUME NEW e \in Fences, NEW c \in claims[e], c.kind = "start",
                   commands'[c.id].state = "claimed"
            PROVE  record'[c.broadcast] = record[c.broadcast]
        <4>1. /\ c.id \in DOMAIN commands /\ commands[c.id].broadcast = c.broadcast
              /\ commands[c.id].kind = c.kind /\ commands[c.id].fence = e
          BY <1>2, <3>1 DEF ClaimsInv
        <4>2. c.id # Current(f).id
          BY <2>2, <2>3, <3>1, <4>1, CompletionFacts
        <4>3. ASSUME c.broadcast = Current(f).broadcast
              PROVE  FALSE
          <5>1. e = f
            BY <1>2, <2>2, <2>3, <4>1, <4>3, CompletionFacts DEF CommandsInv
          <5>2. c.id < Current(f).id
            BY <1>2, <2>2, <2>3, <3>1, <4>1, <4>2, <4>3, CompletionFacts DEF CommandsInv
          <5>3. Current(f).id <= c.id /\ Current(f).id \in Nat /\ c.id \in Nat
            BY <1>1, <2>2, <3>1, <5>1 DEF ExecutorType, Claim
          <5> QED
            BY <5>2, <5>3
        <4> QED
          BY <1>3, <2>2, <2>3, <4>3, CompletionFacts
      <3>2. \A i \in DOMAIN commands :
              commands'[i].state = commands[i].state \/ commands'[i].state \in {"succeeded", "failed"}
        BY <2>2, <2>3, CompletionFacts
      <3> QED
        BY <2>1, <2>2, <2>3, <3>1, <3>2, CompletionFacts, ClaimsKept
    <2>4. CASE UNCHANGED durable
      BY <2>1, <2>4, ClaimsKept DEF durable
    <2> QED
      BY <1>27, <2>3, <2>4 DEF CompleteAnswered
  <1>28. ASSUME NEW f \in Fences, CompleteAmbiguous(f)
        PROVE  ClaimsInv'
    <2>1. \A e \in Fences : claims'[e] \subseteq claims[e]
      BY <1>1, <1>28 DEF CompleteAmbiguous, ExecutorType
    <2>2. pc[f] \in Busy
      BY <1>28 DEF CompleteAmbiguous, Busy
    <2>3. CASE Complete(Current(f), result[f])
      <3>1. ASSUME NEW e \in Fences, NEW c \in claims[e], c.kind = "start",
                   commands'[c.id].state = "claimed"
            PROVE  record'[c.broadcast] = record[c.broadcast]
        <4>1. /\ c.id \in DOMAIN commands /\ commands[c.id].broadcast = c.broadcast
              /\ commands[c.id].kind = c.kind /\ commands[c.id].fence = e
          BY <1>2, <3>1 DEF ClaimsInv
        <4>2. c.id # Current(f).id
          BY <2>2, <2>3, <3>1, <4>1, CompletionFacts
        <4>3. ASSUME c.broadcast = Current(f).broadcast
              PROVE  FALSE
          <5>1. e = f
            BY <1>2, <2>2, <2>3, <4>1, <4>3, CompletionFacts DEF CommandsInv
          <5>2. c.id < Current(f).id
            BY <1>2, <2>2, <2>3, <3>1, <4>1, <4>2, <4>3, CompletionFacts DEF CommandsInv
          <5>3. Current(f).id <= c.id /\ Current(f).id \in Nat /\ c.id \in Nat
            BY <1>1, <2>2, <3>1, <5>1 DEF ExecutorType, Claim
          <5> QED
            BY <5>2, <5>3
        <4> QED
          BY <1>3, <2>2, <2>3, <4>3, CompletionFacts
      <3>2. \A i \in DOMAIN commands :
              commands'[i].state = commands[i].state \/ commands'[i].state \in {"succeeded", "failed"}
        BY <2>2, <2>3, CompletionFacts
      <3> QED
        BY <2>1, <2>2, <2>3, <3>1, <3>2, CompletionFacts, ClaimsKept
    <2>4. CASE UNCHANGED durable
      BY <2>1, <2>4, ClaimsKept DEF durable
    <2> QED
      BY <1>28, <2>3, <2>4 DEF CompleteAmbiguous
  <1>29. ASSUME NEW f \in Fences, VerifyCompletion(f)
        PROVE  ClaimsInv'
    <2>1. UNCHANGED <<record, commands>>
      BY <1>29 DEF VerifyCompletion, durable
    <2>2. UNCHANGED claims \/ claims' = [claims EXCEPT ![f] = @ \ {Current(f)}]
      BY <1>29 DEF VerifyCompletion, Resolve, NextClaim
    <2>3. \A e \in Fences : claims'[e] \subseteq claims[e]
      BY <1>1, <2>2 DEF ExecutorType
    <2> QED
      BY <2>1, <2>3, ClaimsKept
  <1>30. ASSUME NEW f \in Fences, CleanupUncommittedStart(f)
        PROVE  ClaimsInv'
    <2>1. UNCHANGED <<record, commands>>
      BY <1>30 DEF CleanupUncommittedStart, durable
    <2>2. UNCHANGED claims \/ claims' = [claims EXCEPT ![f] = @ \ {Current(f)}]
      BY <1>30 DEF CleanupUncommittedStart, NextClaim
    <2>3. \A e \in Fences : claims'[e] \subseteq claims[e]
      BY <1>1, <2>2 DEF ExecutorType
    <2> QED
      BY <2>1, <2>3, ClaimsKept
  <1>31. ASSUME NEW f \in Fences, ReconcileTerminal(f)
        PROVE  ClaimsInv'
    <2>1. UNCHANGED <<commands, claims>>
      BY <1>31 DEF ReconcileTerminal
    <2>2. \A c \in Broadcasts : record'[c] = record[c] \/ record[c].state = "active"
      BY <1>1, <1>31, TerminalFacts
    <2> QED
      BY <1>3, <2>1, <2>2, ClaimsKept
  <1>32. ASSUME NEW f \in Fences, FailWorkerBroadcasts(f)
        PROVE  ClaimsInv'
    <2>1. UNCHANGED claims
      BY <1>32 DEF FailWorkerBroadcasts
    <2>2. CASE FailOpen({f}, "drained")
      <3>1. "drained" \in Code
        BY DEF Code
      <3>2. /\ DOMAIN commands' = DOMAIN commands
            /\ \A b \in Broadcasts : record[b].fence \notin {f} => record'[b] = record[b]
            /\ \A i \in DOMAIN commands :
                /\ commands'[i].broadcast = commands[i].broadcast
                /\ commands'[i].kind = commands[i].kind
                /\ commands'[i].fence = commands[i].fence
                /\ commands'[i].generation = commands[i].generation
                /\ IF commands[i].fence \in {f} /\ commands[i].state \in {"pending", "claimed"}
                   THEN commands'[i].state = "failed" ELSE commands'[i].state = commands[i].state
        BY <1>1, <2>2, <3>1, FailOpenFacts
      <3>3. \A e \in Fences : \A c \in claims[e] :
              commands'[c.id].state = "claimed" => record'[c.broadcast] = record[c.broadcast]
        BY <1>2, <1>3, <3>2 DEF ClaimsInv, CommandsInv
      <3>4. \A i \in DOMAIN commands :
             commands'[i].state = commands[i].state \/ commands'[i].state \in {"succeeded", "failed"}
        BY <3>2
      <3> QED
        BY <2>1, <3>2, <3>3, <3>4, ClaimsKept
    <2>3. CASE UNCHANGED durable
      BY <1>2, <2>1, <2>3 DEF ClaimsInv, durable
    <2> QED
      BY <1>32, <2>2, <2>3 DEF FailWorkerBroadcasts
  <1>33. ASSUME NEW f \in Fences, FinalizeDrained(f)
        PROVE  ClaimsInv'
    <2>1. UNCHANGED <<commands, claims>>
      BY <1>33 DEF FinalizeDrained
    <2>2. PICK r \in drained[f] : record' = record \/ record' = FinalizeFailedCleanup(r[1], f, r[2])
      BY <1>33 DEF FinalizeDrained
    <2>3. r[1] \in Broadcasts
      BY <1>1 DEF RunningType
    <2>4. \A c \in Broadcasts : record'[c].state = record[c].state
      BY <1>1, <2>2, <2>3, FinalizeFacts
    <2> QED
      BY <1>3, <2>1, <2>4, ClaimsKept
  <1>34. ASSUME NEW f \in Fences, Crash(f)
        PROVE  ClaimsInv'
    <2>1. UNCHANGED <<record, commands>>
      BY <1>34 DEF Crash, durable
    <2>2. \A e \in Fences : claims'[e] \subseteq claims[e]
      BY <1>1, <1>34 DEF Crash, Down, ExecutorType
    <2> QED
      BY <2>1, <2>2, ClaimsKept
  <1>35. ASSUME NEW f \in Fences, Exit(f)
        PROVE  ClaimsInv'
    <2>1. UNCHANGED <<record, commands>>
      BY <1>35 DEF Exit, durable
    <2>2. \A e \in Fences : claims'[e] \subseteq claims[e]
      BY <1>1, <1>35 DEF Exit, Down, ExecutorType
    <2> QED
      BY <2>1, <2>2, ClaimsKept
  <1>36. ASSUME NEW f \in Fences, BeginShutdown(f)
        PROVE  ClaimsInv'
    <2>1. UNCHANGED <<record, commands>>
      BY <1>36 DEF BeginShutdown, durable
    <2>2. \A e \in Fences : claims'[e] \subseteq claims[e]
      BY <1>1, <1>36 DEF BeginShutdown, ExecutorType
    <2> QED
      BY <2>1, <2>2, ClaimsKept
  <1>37. CASE UNCHANGED <<record, commands, claims>>
    BY <1>37, <1>2 DEF ClaimsInv
  <1> QED
    BY <1>21, <1>22, <1>23, <1>24, <1>25, <1>26, <1>27, <1>28, <1>29, <1>30, <1>31, <1>32, <1>33,
       <1>34, <1>35, <1>36, <1>37
       DEF Next, Work, GrantExpires, SourceLeaves, Register, StaleFencesReconciled, StartRefused,
           ManagedStart, StartInstalled, StartAbandoned, StopBroadcast, StopAbsent,
           TerminalClose, ShutdownClose, RetryRevoke, vars, durable, store, process

\* How a step changes the owner and the generation of a row, and which starts
\* are open after it.
Settling(f, b) ==
  /\ CompleteAnswered(f) \/ CompleteAmbiguous(f)
  /\ pc[f] = "completing" /\ Current(f).broadcast = b
  /\ Complete(Current(f), result[f])

OwnerKept == \A b \in Broadcasts : record[b].fence # 0 => record'[b].fence = record[b].fence

RuntimeKept ==
  \A b \in Broadcasts :
    \/ record'[b].runtime \in {record[b].runtime, 0}
    \/ \E f \in Fences : Settling(f, b)

StartsKept ==
  \A i \in DOMAIN commands' :
    commands'[i].kind = "start" =>
      \/ record[commands'[i].broadcast].fence = 0 /\ record'[commands'[i].broadcast].runtime = 0
      \/ /\ i \in DOMAIN commands
         /\ commands'[i].broadcast = commands[i].broadcast
         /\ commands[i].kind = "start"
         /\ commands'[i].state \in {"pending", "claimed"} => commands[i].state \in {"pending", "claimed"}

\* No step moves a row to another lease, opens a finished start, or records a
\* generation other than by a completion.
LEMMA DurableStep ==
    ASSUME Inv, [Next]_vars
    PROVE  OwnerKept /\ RuntimeKept /\ StartsKept
  <1>1. RecordType /\ CommandsType /\ ExecutorType /\ RunningType
    BY Basics DEF Inv
  <1>2. CommandsInv
    BY DEF Inv
  <1>21. ASSUME NEW b \in Broadcasts, EnqueueStart(b)
        PROVE  OwnerKept /\ RuntimeKept /\ StartsKept
    <2>1. record[b].fence = 0
      BY <1>2, <1>21 DEF EnqueueStart, CommandsInv
    <2>2. /\ record'[b].runtime = 0 /\ \A c \in Broadcasts : c # b => record'[c] = record[c]
          /\ DOMAIN commands = 1..Len(commands) /\ DOMAIN commands' = 1..(Len(commands) + 1)
          /\ Len(commands) \in Nat
          /\ \A i \in DOMAIN commands : commands'[i] = commands[i]
          /\ commands'[Len(commands) + 1] = NewCommand(b, "start", fence)
      BY <1>1, <1>21, EnqueueStartFacts
    <2>3. commands'[Len(commands) + 1].broadcast = b
      BY <2>2 DEF NewCommand
    <2>4. \A i \in DOMAIN commands' : i \in DOMAIN commands \/ i = Len(commands) + 1
      BY <2>2
    <2> QED
      BY <2>1, <2>2, <2>3, <2>4 DEF OwnerKept, RuntimeKept, StartsKept
  <1>22. ASSUME NEW b \in Broadcasts, EnqueueStop(b)
        PROVE  OwnerKept /\ RuntimeKept /\ StartsKept
    <2>1. record[b].fence \in Fences
      <3>1. record[b].state # "none"
        BY <1>22 DEF EnqueueStop, DeleteFailed, DeleteOpen, Open
      <3>2. record[b].fence \in 0..MaxFence /\ record[b].fence # 0
        BY <1>1, <1>2, <3>1 DEF RecordType, Row, CommandsInv
      <3> QED
        BY <3>2, BoundsAreNat DEF Fences
    <2>2. /\ \A c \in Broadcasts :
               record'[c].fence = record[c].fence /\ record'[c].runtime = record[c].runtime
          /\ \A i \in DOMAIN commands : commands'[i] = commands[i]
          /\ \A i \in DOMAIN commands' : i \notin DOMAIN commands =>
               commands'[i] = NewCommand(b, "stop", record[b].fence)
      BY <1>1, <1>22, <2>1, EnqueueStopFacts
    <2>3. \A i \in DOMAIN commands' : i \notin DOMAIN commands => commands'[i].kind = "stop"
      BY <2>2 DEF NewCommand
    <2> QED
      BY <2>2, <2>3 DEF OwnerKept, RuntimeKept, StartsKept
  <1>23. ASSUME ClaimLapses
        PROVE  OwnerKept /\ RuntimeKept /\ StartsKept
    <2>1. UNCHANGED record
      BY <1>23 DEF ClaimLapses
    <2> QED
      BY <1>1, <1>23, <2>1, LapseFacts DEF OwnerKept, RuntimeKept, StartsKept
  <1>24. ASSUME NEW f \in Fences, FailStaleWorkerBroadcasts(f)
        PROVE  OwnerKept /\ RuntimeKept /\ StartsKept
    <2>1. CASE FailOpen(Fences \ {f}, "stale")
      <3>1. "stale" \in Code
        BY DEF Code
      <3>2. /\ DOMAIN commands' = DOMAIN commands
            /\ \A b \in Broadcasts :
                 record'[b].fence = record[b].fence /\ record'[b].runtime = record[b].runtime
            /\ \A i \in DOMAIN commands :
                /\ commands'[i].broadcast = commands[i].broadcast
                /\ commands'[i].kind = commands[i].kind
                /\ commands'[i].state = "failed" \/ commands'[i].state = commands[i].state
        BY <1>1, <2>1, <3>1, FailOpenFacts
      <3> QED
        BY <3>2 DEF OwnerKept, RuntimeKept, StartsKept
    <2>2. CASE UNCHANGED durable
      BY <2>2 DEF durable, OwnerKept, RuntimeKept, StartsKept
    <2> QED
      BY <1>24, <2>1, <2>2 DEF FailStaleWorkerBroadcasts
  <1>25. ASSUME NEW f \in Fences, CleanStaleRow(f)
        PROVE  OwnerKept /\ RuntimeKept /\ StartsKept
    <2>1. UNCHANGED commands
      BY <1>25 DEF CleanStaleRow
    <2>2. PICK r \in stale[f] : record' = record \/ record' = FinalizeFailedCleanup(r, record[r].fence, record[r].runtime)
      BY <1>25 DEF CleanStaleRow
    <2>3. r \in Broadcasts
      BY <1>1 DEF ExecutorType
    <2>4. \A c \in Broadcasts :
            record'[c].fence = record[c].fence /\ record'[c].runtime \in {record[c].runtime, 0}
      BY <1>1, <2>2, <2>3, FinalizeFacts
    <2> QED
      BY <2>1, <2>4 DEF OwnerKept, RuntimeKept, StartsKept
  <1>26. ASSUME NEW f \in Fences, ClaimAndExecute(f)
        PROVE  OwnerKept /\ RuntimeKept /\ StartsKept
    <2>1. UNCHANGED record
      BY <1>26 DEF ClaimAndExecute
    <2>2. \A i \in DOMAIN commands : Claimable(i, f) => commands[i].state \in {"pending", "claimed"}
      BY DEF Claimable
    <2> QED
      BY <1>1, <1>26, <2>1, <2>2, ClaimFacts DEF OwnerKept, RuntimeKept, StartsKept
  <1>27. ASSUME NEW f \in Fences, CompleteAnswered(f)
        PROVE  OwnerKept /\ RuntimeKept /\ StartsKept
    <2>1. pc[f] = "completing" /\ pc[f] \in Busy
      BY <1>27 DEF CompleteAnswered, Busy
    <2>2. CASE Complete(Current(f), result[f])
      <3>1. OwnerKept
        BY <2>1, <2>2, CompletionFacts DEF OwnerKept
      <3>2. RuntimeKept
        BY <1>27, <2>1, <2>2, CompletionFacts DEF RuntimeKept, Settling
      <3>3. StartsKept
        BY <2>1, <2>2, CompletionFacts DEF StartsKept
      <3> QED
        BY <3>1, <3>2, <3>3
    <2>3. CASE UNCHANGED durable
      BY <2>3 DEF durable, OwnerKept, RuntimeKept, StartsKept
    <2> QED
      BY <1>27, <2>2, <2>3 DEF CompleteAnswered
  <1>28. ASSUME NEW f \in Fences, CompleteAmbiguous(f)
        PROVE  OwnerKept /\ RuntimeKept /\ StartsKept
    <2>1. pc[f] = "completing" /\ pc[f] \in Busy
      BY <1>28 DEF CompleteAmbiguous, Busy
    <2>2. CASE Complete(Current(f), result[f])
      <3>1. OwnerKept
        BY <2>1, <2>2, CompletionFacts DEF OwnerKept
      <3>2. RuntimeKept
        BY <1>28, <2>1, <2>2, CompletionFacts DEF RuntimeKept, Settling
      <3>3. StartsKept
        BY <2>1, <2>2, CompletionFacts DEF StartsKept
      <3> QED
        BY <3>1, <3>2, <3>3
    <2>3. CASE UNCHANGED durable
      BY <2>3 DEF durable, OwnerKept, RuntimeKept, StartsKept
    <2> QED
      BY <1>28, <2>2, <2>3 DEF CompleteAmbiguous
  <1>29. ASSUME NEW f \in Fences, ReconcileTerminal(f)
        PROVE  OwnerKept /\ RuntimeKept /\ StartsKept
    <2>1. UNCHANGED commands
      BY <1>29 DEF ReconcileTerminal
    <2>2. \A c \in Broadcasts :
            record'[c].fence = record[c].fence /\ record'[c].runtime \in {record[c].runtime, 0}
      BY <1>1, <1>29, TerminalFacts
    <2> QED
      BY <2>1, <2>2 DEF OwnerKept, RuntimeKept, StartsKept
  <1>30. ASSUME NEW f \in Fences, FailWorkerBroadcasts(f)
        PROVE  OwnerKept /\ RuntimeKept /\ StartsKept
    <2>1. CASE FailOpen({f}, "drained")
      <3>1. "drained" \in Code
        BY DEF Code
      <3>2. /\ DOMAIN commands' = DOMAIN commands
            /\ \A b \in Broadcasts :
                 record'[b].fence = record[b].fence /\ record'[b].runtime = record[b].runtime
            /\ \A i \in DOMAIN commands :
                /\ commands'[i].broadcast = commands[i].broadcast
                /\ commands'[i].kind = commands[i].kind
                /\ commands'[i].state = "failed" \/ commands'[i].state = commands[i].state
        BY <1>1, <2>1, <3>1, FailOpenFacts
      <3> QED
        BY <3>2 DEF OwnerKept, RuntimeKept, StartsKept
    <2>2. CASE UNCHANGED durable
      BY <2>2 DEF durable, OwnerKept, RuntimeKept, StartsKept
    <2> QED
      BY <1>30, <2>1, <2>2 DEF FailWorkerBroadcasts
  <1>31. ASSUME NEW f \in Fences, FinalizeDrained(f)
        PROVE  OwnerKept /\ RuntimeKept /\ StartsKept
    <2>1. UNCHANGED commands
      BY <1>31 DEF FinalizeDrained
    <2>2. PICK r \in drained[f] : record' = record \/ record' = FinalizeFailedCleanup(r[1], f, r[2])
      BY <1>31 DEF FinalizeDrained
    <2>3. r[1] \in Broadcasts
      BY <1>1 DEF RunningType
    <2>4. \A c \in Broadcasts :
            record'[c].fence = record[c].fence /\ record'[c].runtime \in {record[c].runtime, 0}
      BY <1>1, <2>2, <2>3, FinalizeFacts
    <2> QED
      BY <2>1, <2>4 DEF OwnerKept, RuntimeKept, StartsKept
  <1>32. CASE UNCHANGED <<record, commands>>
    BY <1>32 DEF OwnerKept, RuntimeKept, StartsKept
  <1> QED
    BY <1>21, <1>22, <1>23, <1>24, <1>25, <1>26, <1>27, <1>28, <1>29, <1>30, <1>31, <1>32
       DEF Next, Work, GrantExpires, SourceLeaves, Register, StaleFencesReconciled, StartRefused,
           ManagedStart, StartInstalled, StartAbandoned, StopBroadcast, StopAbsent,
           VerifyCompletion, CleanupUncommittedStart, TerminalClose, ShutdownClose, Exit,
           RetryRevoke, Crash, BeginShutdown, vars, durable, store, process

\* Only commands, completions and cleanups write the rows of broadcasts.
LEMMA Writers ==
    ASSUME [Next]_vars
    PROVE  \/ record' = record /\ committed' = committed
           \/ \E b \in Broadcasts : EnqueueStart(b) \/ EnqueueStop(b)
           \/ \E f \in Fences :
                \/ CompleteAnswered(f) \/ CompleteAmbiguous(f)
                \/ FailStaleWorkerBroadcasts(f) \/ FailWorkerBroadcasts(f)
                \/ CleanStaleRow(f) \/ ReconcileTerminal(f) \/ FinalizeDrained(f)
  <1> DEFINE Still == record' = record /\ committed' = committed
  <1>1. UNCHANGED vars => Still
    BY DEF vars, durable
  <1>2. ASSUME NEW b \in Broadcasts, GrantExpires(b) \/ SourceLeaves(b)
        PROVE  Still
    BY <1>2 DEF GrantExpires, SourceLeaves, durable
  <1>3. Register \/ ClaimLapses => Still
    BY DEF Register, ClaimLapses, durable
  <1>4. ASSUME NEW f \in Fences, RetryRevoke(f) \/ Crash(f) \/ BeginShutdown(f)
        PROVE  Still
    BY <1>4 DEF RetryRevoke, Crash, BeginShutdown, durable
  <1>5. ASSUME NEW f \in Fences, StaleFencesReconciled(f) \/ ClaimAndExecute(f) \/ StartRefused(f)
        PROVE  Still
    BY <1>5 DEF StaleFencesReconciled, ClaimAndExecute, StartRefused, durable
  <1>6. ASSUME NEW f \in Fences, ManagedStart(f) \/ StartInstalled(f) \/ StartAbandoned(f)
        PROVE  Still
    BY <1>6 DEF ManagedStart, StartInstalled, StartAbandoned, durable
  <1>7. ASSUME NEW f \in Fences, StopBroadcast(f) \/ StopAbsent(f) \/ VerifyCompletion(f)
        PROVE  Still
    BY <1>7 DEF StopBroadcast, StopAbsent, VerifyCompletion, durable
  <1>8. ASSUME NEW f \in Fences, CleanupUncommittedStart(f) \/ ShutdownClose(f) \/ Exit(f)
        PROVE  Still
    BY <1>8 DEF CleanupUncommittedStart, ShutdownClose, Exit, durable
  <1>9. ASSUME NEW f \in Fences, NEW b \in Broadcasts, TerminalClose(f, b)
        PROVE  Still
    BY <1>9 DEF TerminalClose, durable
  <1> HIDE DEF Still
  <1> QED
    BY <1>1, <1>2, <1>3, <1>4, <1>5, <1>6, <1>7, <1>8, <1>9, Zenon DEF Next, Work, Still

\* No step takes back what a durable start recorded.
LEMMA CommittedKept ==
    ASSUME Inv, [Next]_vars
    PROVE  committed \subseteq committed'
  <1>1. committed' = committed \/ \E f \in Fences : Complete(Current(f), result[f])
    <2>1. \A b \in Broadcasts : EnqueueStart(b) \/ EnqueueStop(b) => committed' = committed
      BY DEF EnqueueStart, EnqueueStop
    <2>2. \A f \in Fences :
            FailStaleWorkerBroadcasts(f) \/ FailWorkerBroadcasts(f) \/ CleanStaleRow(f)
              \/ ReconcileTerminal(f) \/ FinalizeDrained(f) => committed' = committed
      BY DEF FailStaleWorkerBroadcasts, FailWorkerBroadcasts, CleanStaleRow, ReconcileTerminal,
             FinalizeDrained
    <2>3. \A f \in Fences :
            CompleteAnswered(f) \/ CompleteAmbiguous(f)
              => committed' = committed \/ Complete(Current(f), result[f])
      BY DEF CompleteAnswered, CompleteAmbiguous
    <2> QED
      BY <2>1, <2>2, <2>3, Writers, Zenon
  <1> QED
    BY <1>1 DEF Complete

\* Recorded generations stay committed, and their starts finished.
LEMMA RecordedStep ==
    ASSUME Inv, [Next]_vars
    PROVE  RecordedInv'
  <1>1. OwnerKept /\ RuntimeKept /\ StartsKept
    BY DurableStep
  <1>2. committed \subseteq committed'
    BY CommittedKept
  <1>3. SUFFICES ASSUME NEW b \in Broadcasts, record'[b].runtime # 0
                 PROVE  /\ record'[b].fence # 0 /\ record'[b].runtime \in committed'
                        /\ \A i \in DOMAIN commands' :
                             commands'[i].broadcast = b /\ commands'[i].kind = "start"
                               => commands'[i].state \in {"succeeded", "failed"}
    BY DEF RecordedInv
  <1>4. CommandsType'
    BY DurableTypeStep DEF Inv
  <1>5. \A i \in DOMAIN commands' : commands'[i].state \in CommandState
    <2>1. \A i \in DOMAIN commands' : commands'[i] \in Command
      BY <1>4 DEF CommandsType
    <2> QED
      BY <2>1 DEF Command
  <1>6. CASE record'[b].runtime = record[b].runtime
    <2>1. /\ record[b].fence # 0 /\ record[b].runtime \in committed
          /\ \A i \in DOMAIN commands :
               commands[i].broadcast = b /\ commands[i].kind = "start"
                 => commands[i].state \in {"succeeded", "failed"}
      BY <1>3, <1>6 DEF Inv, RecordedInv
    <2> QED
      BY <1>1, <1>2, <1>3, <1>5, <1>6, <2>1 DEF OwnerKept, StartsKept, CommandState
  <1>7. ASSUME NEW f \in Fences, Settling(f, b)
        PROVE  /\ record'[b].fence # 0 /\ record'[b].runtime \in committed'
               /\ \A i \in DOMAIN commands' :
                    commands'[i].broadcast = b /\ commands'[i].kind = "start"
                      => commands'[i].state \in {"succeeded", "failed"}
    <2>1. pc[f] = "completing" /\ pc[f] \in Busy /\ Current(f).broadcast = b
      BY <1>7 DEF Settling, Busy
    <2>2. Complete(Current(f), result[f])
      BY <1>7 DEF Settling
    <2>3. record'[b].runtime = result[f].runtime /\ committed' = committed \cup ({result[f].runtime} \ {0})
      BY <2>1, <2>2, CompletionFacts
    <2>4. Current(f).kind = "start"
      BY <1>3, <2>1, <2>3 DEF Inv, ResultInv, ResultAt
    <2>5. \A i \in DOMAIN commands : commands[i].broadcast = b /\ commands[i].kind = "start"
            => i = Current(f).id
      BY <2>1, <2>2, <2>4, CompletionFacts DEF Inv, CommandsInv
    <2>6. record'[b].fence = f /\ f # 0
      BY <2>1, <2>2, CompletionFacts DEF Fences
    <2> QED
      BY <1>3, <2>1, <2>2, <2>3, <2>5, <2>6, CompletionFacts
  <1> QED
    BY <1>1, <1>3, <1>6, <1>7 DEF RuntimeKept

\* A process keeps its state.
Same(e) ==
  /\ pc'[e] = pc[e] /\ claims'[e] = claims[e] /\ held'[e] = held[e] /\ result'[e] = result[e]
  /\ active'[e] = active[e] /\ authority'[e] = authority[e]
  /\ retrying'[e] = retrying[e] /\ drained'[e] = drained[e]

\* The steps of one process leave the state of every other process.
LEMMA OthersKept ==
    ASSUME TypeOK, NEW f \in Fences, Work(f) \/ RetryRevoke(f) \/ Crash(f) \/ BeginShutdown(f),
           NEW e \in Fences, e # f
    PROVE  Same(e)
  <1>1. ExecutorType /\ RunningType
    BY TypeParts
  <1>11. ASSUME FailStaleWorkerBroadcasts(f)
        PROVE  Same(e)
    BY <1>1, <1>11 DEF FailStaleWorkerBroadcasts, Same, ExecutorType, RunningType, store, process
  <1>12. ASSUME CleanStaleRow(f)
        PROVE  Same(e)
    BY <1>1, <1>12 DEF CleanStaleRow, Same, ExecutorType, RunningType, store, process
  <1>13. ASSUME StaleFencesReconciled(f)
        PROVE  Same(e)
    BY <1>1, <1>13 DEF StaleFencesReconciled, Same, ExecutorType, RunningType, store, process
  <1>14. ASSUME ClaimAndExecute(f)
        PROVE  Same(e)
    BY <1>1, <1>14 DEF ClaimAndExecute, Same, ExecutorType, RunningType, store, process
  <1>15. ASSUME StartRefused(f)
        PROVE  Same(e)
    BY <1>1, <1>15 DEF StartRefused, Deliver, Same, ExecutorType, RunningType, store, process
  <1>16. ASSUME ManagedStart(f)
        PROVE  Same(e)
    BY <1>1, <1>16
       DEF ManagedStart, InstallPublisher, PublisherFails, RegistrationTimesOut, Deliver, Same,
           ExecutorType, RunningType, store, process
  <1>17. ASSUME StartInstalled(f)
        PROVE  Same(e)
    BY <1>1, <1>17 DEF StartInstalled, Deliver, Same, ExecutorType, RunningType, store, process
  <1>18. ASSUME StartAbandoned(f)
        PROVE  Same(e)
    BY <1>1, <1>18
       DEF StartAbandoned, CloseManaged, Deliver, Same, ExecutorType, RunningType, store, process
  <1>19. ASSUME StopBroadcast(f)
        PROVE  Same(e)
    BY <1>1, <1>19
       DEF StopBroadcast, CloseManaged, Deliver, Same, ExecutorType, RunningType, store, process
  <1>20. ASSUME StopAbsent(f)
        PROVE  Same(e)
    BY <1>1, <1>20 DEF StopAbsent, Deliver, Same, ExecutorType, RunningType, store, process
  <1>21. ASSUME CompleteAnswered(f)
        PROVE  Same(e)
    BY <1>1, <1>21
       DEF CompleteAnswered, Resolve, NextClaim, Same, ExecutorType, RunningType, store, process
  <1>22. ASSUME CompleteAmbiguous(f)
        PROVE  Same(e)
    BY <1>1, <1>22 DEF CompleteAmbiguous, Same, ExecutorType, RunningType, store, process
  <1>23. ASSUME VerifyCompletion(f)
        PROVE  Same(e)
    BY <1>1, <1>23
       DEF VerifyCompletion, Resolve, NextClaim, Same, ExecutorType, RunningType, store, process
  <1>24. ASSUME CleanupUncommittedStart(f)
        PROVE  Same(e)
    BY <1>1, <1>24
       DEF CleanupUncommittedStart, CloseManaged, NextClaim, Same, ExecutorType, RunningType,
           store, process
  <1>25. ASSUME NEW b \in Broadcasts, TerminalClose(f, b)
        PROVE  Same(e)
    BY <1>1, <1>25
       DEF TerminalClose, CloseManaged, Same, ExecutorType, RunningType, store, process
  <1>26. ASSUME ReconcileTerminal(f)
        PROVE  Same(e)
    BY <1>1, <1>26 DEF ReconcileTerminal, Same, ExecutorType, RunningType, store, process
  <1>27. ASSUME ShutdownClose(f)
        PROVE  Same(e)
    BY <1>1, <1>27
       DEF ShutdownClose, CloseManaged, Same, ExecutorType, RunningType, store, process
  <1>28. ASSUME FailWorkerBroadcasts(f)
        PROVE  Same(e)
    BY <1>1, <1>28 DEF FailWorkerBroadcasts, Same, ExecutorType, RunningType, store, process
  <1>29. ASSUME FinalizeDrained(f)
        PROVE  Same(e)
    BY <1>1, <1>29 DEF FinalizeDrained, Same, ExecutorType, RunningType, store, process
  <1>30. ASSUME Exit(f)
        PROVE  Same(e)
    BY <1>1, <1>30 DEF Exit, Down, Same, ExecutorType, RunningType, store, process
  <1>31. ASSUME RetryRevoke(f)
        PROVE  Same(e)
    BY <1>1, <1>31 DEF RetryRevoke, Same, ExecutorType, RunningType, store, process
  <1>32. ASSUME Crash(f)
        PROVE  Same(e)
    BY <1>1, <1>32 DEF Crash, Down, Same, ExecutorType, RunningType, store, process
  <1>33. ASSUME BeginShutdown(f)
        PROVE  Same(e)
    BY <1>1, <1>33 DEF BeginShutdown, Same, ExecutorType, RunningType, store, process
  <1> QED
    BY <1>11, <1>12, <1>13, <1>14, <1>15, <1>16, <1>17, <1>18, <1>19, <1>20, <1>21, <1>22, <1>23,
       <1>24, <1>25, <1>26, <1>27, <1>28, <1>29, <1>30, <1>31, <1>32, <1>33 DEF Work

\* What runs stays accounted for while its executor neither starts it nor
\* finishes the command that started it.
LEMMA ActiveFrame ==
    ASSUME Inv, [Next]_vars, NEW e \in Fences, NEW b \in Broadcasts,
           active'[e][b] \in {active[e][b], 0},
           claims'[e] \subseteq claims[e],
           \/ pc'[e] \in ShuttingDown /\ claims'[e] = {}
           \/ pc[e] \in Decided /\ pc'[e] \in Decided /\ claims'[e] = claims[e]
           \/ pc[e] \notin Decided \cup ShuttingDown
    PROVE  ActiveAt(e, b)'
  <1>1. OwnerKept /\ StartsKept
    BY DurableStep
  <1>2. SUFFICES ASSUME active'[e][b] # 0
                 PROVE  /\ record'[b].fence = e
                        /\ \A i \in DOMAIN commands' :
                             /\ commands'[i].broadcast = b /\ commands'[i].kind = "start"
                             /\ commands'[i].state \in {"pending", "claimed"}
                             => \/ pc'[e] \in ShuttingDown
                                \/ pc'[e] \in Decided /\ Current(e)'.id = i
                        /\ \A c \in claims'[e] : c.broadcast = b /\ c.kind = "start"
                             => pc'[e] \in Decided /\ Current(e)' = c
    BY DEF ActiveAt, ShuttingDown, Decided
  <1>3. active[e][b] # 0
    BY <1>2
  <1>4. /\ record[b].fence = e
        /\ \A i \in DOMAIN commands :
             /\ commands[i].broadcast = b /\ commands[i].kind = "start"
             /\ commands[i].state \in {"pending", "claimed"}
             => \/ pc[e] \in ShuttingDown
                \/ pc[e] \in Decided /\ Current(e).id = i
        /\ \A c \in claims[e] : c.broadcast = b /\ c.kind = "start"
             => pc[e] \in Decided /\ Current(e) = c
    BY <1>3 DEF Inv, ActiveInv, ActiveAt
  <1>5. record[b].fence # 0
    BY <1>4 DEF Fences
  <1>6. record'[b].fence = e
    BY <1>1, <1>4, <1>5 DEF OwnerKept
  <1>7. \A i \in DOMAIN commands' :
          /\ commands'[i].broadcast = b /\ commands'[i].kind = "start"
          /\ commands'[i].state \in {"pending", "claimed"}
          => /\ i \in DOMAIN commands /\ commands[i].broadcast = b /\ commands[i].kind = "start"
             /\ commands[i].state \in {"pending", "claimed"}
    BY <1>1, <1>5 DEF StartsKept
  <1>8. CASE pc'[e] \in ShuttingDown /\ claims'[e] = {}
    BY <1>6, <1>8
  <1>9. CASE pc[e] \in Decided /\ pc'[e] \in Decided /\ claims'[e] = claims[e]
    <2>1. Current(e)' = Current(e)
      BY <1>9, SameCurrent
    <2>2. pc[e] \notin ShuttingDown
      BY <1>9 DEF Decided, ShuttingDown
    <2> QED
      BY <1>4, <1>6, <1>7, <1>9, <2>1, <2>2
  <1>10. CASE pc[e] \notin Decided \cup ShuttingDown
    BY <1>4, <1>6, <1>7, <1>10
  <1> QED
    BY <1>8, <1>9, <1>10

\* In particular, it stays so while its executor keeps its place.
LEMMA ActiveSame ==
    ASSUME Inv, [Next]_vars, NEW e \in Fences, NEW b \in Broadcasts,
           pc'[e] = pc[e], claims'[e] = claims[e], active'[e] = active[e]
    PROVE  ActiveAt(e, b)'
  <1>1. pc[e] \in ShuttingDown => claims[e] = {}
    BY DEF Inv, ProcessInv, ShuttingDown, Busy
  <1> QED
    BY <1>1, ActiveFrame

\* A command that is finished leaves the claims, and its start is not open.
LEMMA ActiveNext ==
    ASSUME Inv, [Next]_vars, NEW f \in Fences, NEW b \in Broadcasts, pc[f] \in Decided, NextClaim(f),
           active'[f][b] \in {active[f][b], 0},
           \A i \in DOMAIN commands' :
             /\ commands'[i].broadcast = b /\ commands'[i].kind = "start" /\ i = Current(f).id
             => active'[f][b] = 0 \/ commands'[i].state \notin {"pending", "claimed"}
    PROVE  ActiveAt(f, b)'
  <1>1. ExecutorType /\ OwnerKept /\ StartsKept
    BY Basics, DurableStep DEF Inv
  <1>2. SUFFICES ASSUME active'[f][b] # 0
                 PROVE  /\ record'[b].fence = f
                        /\ \A i \in DOMAIN commands' :
                             commands'[i].broadcast = b /\ commands'[i].kind = "start"
                               => commands'[i].state \notin {"pending", "claimed"}
                        /\ \A c \in claims'[f] : ~(c.broadcast = b /\ c.kind = "start")
    BY DEF ActiveAt
  <1>3. pc[f] \notin ShuttingDown /\ active[f][b] # 0
    BY <1>2 DEF Decided, ShuttingDown
  <1>4. /\ record[b].fence = f
        /\ \A i \in DOMAIN commands :
             /\ commands[i].broadcast = b /\ commands[i].kind = "start"
             /\ commands[i].state \in {"pending", "claimed"}
             => Current(f).id = i
        /\ \A c \in claims[f] : c.broadcast = b /\ c.kind = "start" => Current(f) = c
    BY <1>3 DEF Inv, ActiveInv, ActiveAt
  <1>5. record'[b].fence = f /\ record[b].fence # 0
    BY <1>1, <1>4 DEF OwnerKept, Fences
  <1>6. claims'[f] = claims[f] \ {Current(f)}
    BY <1>1 DEF NextClaim, ExecutorType
  <1>7. \A c \in claims'[f] : ~(c.broadcast = b /\ c.kind = "start")
    BY <1>4, <1>6
  <1>8. \A i \in DOMAIN commands' :
          commands'[i].broadcast = b /\ commands'[i].kind = "start"
            => commands'[i].state \notin {"pending", "claimed"}
    BY <1>1, <1>2, <1>4, <1>5 DEF StartsKept
  <1> QED
    BY <1>5, <1>7, <1>8

\* The steps of the executor itself.
LEMMA ActiveOwn ==
    ASSUME Inv, [Next]_vars, NEW f \in Fences,
           Work(f) \/ RetryRevoke(f) \/ Crash(f) \/ BeginShutdown(f), NEW b \in Broadcasts
    PROVE  ActiveAt(f, b)'
  <1>1. /\ ExecutorType /\ RunningType /\ RecordType /\ CommandsType
        /\ pc[f] \in Busy => /\ Current(f) \in claims[f] /\ Current(f).broadcast \in Broadcasts
                             /\ Current(f).kind \in {"start", "stop"}
        /\ ProcessInv /\ ClaimsInv /\ CommandsInv
    BY Basics DEF Inv
  <1>2. f \in Fences /\ f # 0
    BY DEF Fences
  <1>3. RecordType' /\ CommandsType'
    BY DurableTypeStep DEF Inv
  <1>11. ASSUME FailStaleWorkerBroadcasts(f)
        PROVE  ActiveAt(f, b)'
    <2>1. pc[f] = "recovering" /\ claims'[f] = claims[f] /\ active'[f][b] \in {active[f][b], 0}
      BY <1>1, <1>11 DEF FailStaleWorkerBroadcasts, RunningType, ExecutorType
    <2> QED
      BY <2>1, ActiveFrame DEF Decided, ShuttingDown
  <1>12. ASSUME CleanStaleRow(f)
        PROVE  ActiveAt(f, b)'
    <2>1. pc[f] = "cleaning" /\ claims'[f] = claims[f] /\ active'[f][b] \in {active[f][b], 0}
      BY <1>1, <1>12 DEF CleanStaleRow, RunningType, ExecutorType
    <2> QED
      BY <2>1, ActiveFrame DEF Decided, ShuttingDown
  <1>13. ASSUME StaleFencesReconciled(f)
        PROVE  ActiveAt(f, b)'
    <2>1. pc[f] = "cleaning" /\ claims'[f] = claims[f] /\ active'[f][b] \in {active[f][b], 0}
      BY <1>1, <1>13 DEF StaleFencesReconciled, RunningType, ExecutorType
    <2> QED
      BY <2>1, ActiveFrame DEF Decided, ShuttingDown
  <1>14. ASSUME ClaimAndExecute(f)
        PROVE  ActiveAt(f, b)'
    <2>1. pc[f] = "idle" /\ claims[f] = {} /\ active'[f][b] = active[f][b] /\ UNCHANGED record
      BY <1>1, <1>14 DEF ClaimAndExecute, ProcessInv, Busy
    <2>2. CASE UNCHANGED <<claims, pc>>
      BY <2>1, <2>2, ActiveFrame DEF Decided, ShuttingDown
    <2>3. CASE active[f][b] # 0
      <3>1. /\ record[b].fence = f
            /\ \A i \in DOMAIN commands :
                 commands[i].broadcast = b /\ commands[i].kind = "start"
                   => commands[i].state \notin {"pending", "claimed"}
        BY <2>1, <2>3 DEF Inv, ActiveInv, ActiveAt, Decided, ShuttingDown
      <3>2. \A i \in DOMAIN commands' :
              commands'[i].broadcast = b /\ commands'[i].kind = "start"
                => commands'[i].state \notin {"pending", "claimed"}
        BY <1>2, <3>1, DurableStep DEF StartsKept
      <3>3. CASE claims' = [claims EXCEPT ![f] = {ClaimOf(i) : i \in {j \in DOMAIN commands : Claimable(j, f)}}]
        <4>1. \A c \in claims'[f] : \E i \in DOMAIN commands : Claimable(i, f) /\ c = ClaimOf(i)
          BY <1>1, <3>3 DEF ExecutorType
        <4>2. \A c \in claims'[f] : c.broadcast # b \/ c.kind # "start"
          BY <3>1, <4>1 DEF ClaimOf, Claimable
        <4> QED
          BY <2>1, <3>1, <3>2, <4>2 DEF ActiveAt
      <3> QED
        BY <1>14, <2>2, <3>3 DEF ClaimAndExecute
    <2>4. CASE active[f][b] = 0
      BY <2>1, <2>4 DEF ActiveAt
    <2> QED
      BY <2>3, <2>4
  <1>15. ASSUME StartRefused(f)
        PROVE  ActiveAt(f, b)'
    <2>1. pc[f] = "starting" /\ claims'[f] = claims[f] /\ active'[f][b] \in {active[f][b], 0}
      BY <1>1, <1>15 DEF StartRefused, Executing, RunningType, ExecutorType
    <2> QED
      BY <2>1, ActiveFrame DEF Decided, ShuttingDown
  <1>16. ASSUME ManagedStart(f)
        PROVE  ActiveAt(f, b)'
    <2>1. pc[f] = "starting" /\ claims'[f] = claims[f] /\ active'[f][b] \in {active[f][b], 0}
      BY <1>1, <1>16 DEF ManagedStart, Executing, RunningType, ExecutorType
    <2> QED
      BY <2>1, ActiveFrame DEF Decided, ShuttingDown
  <1>17. ASSUME StartInstalled(f)
        PROVE  ActiveAt(f, b)'
    <2> DEFINE b0 == Current(f).broadcast
    <2>1. /\ pc[f] = "installed" /\ pc'[f] = "completing" /\ claims'[f] = claims[f]
          /\ UNCHANGED <<record, commands>>
          /\ b # b0 => active'[f][b] = active[f][b]
      BY <1>1, <1>17 DEF StartInstalled, Deliver, durable, ExecutorType, RunningType
    <2>2. CASE b # b0
      BY <2>1, <2>2, ActiveFrame DEF Decided, ShuttingDown
    <2>3. CASE b = b0
      <3>1. /\ Current(f) \in claims[f] /\ Current(f).kind = "start"
            /\ Current(f)' = Current(f)
        BY <1>1, <2>1, SameCurrent DEF Busy, Inv, ResultInv, ResultAt
      <3>2. /\ Current(f).id \in DOMAIN commands /\ commands[Current(f).id].broadcast = b
            /\ commands[Current(f).id].kind = "start" /\ commands[Current(f).id].fence = f
        BY <1>1, <2>3, <3>1 DEF ClaimsInv
      <3>3. record[b].fence = f
        BY <1>1, <3>2 DEF CommandsInv
      <3>4. \A i \in DOMAIN commands : commands[i].broadcast = b /\ commands[i].kind = "start"
              => i = Current(f).id
        BY <1>1, <3>2 DEF CommandsInv
      <3>5. \A c \in claims[f] : c.broadcast = b /\ c.kind = "start" => c = Current(f)
        BY <1>1, <3>1, <3>4 DEF ClaimsInv
      <3> HIDE DEF b0
      <3> QED
        BY <2>1, <3>1, <3>3, <3>4, <3>5 DEF ActiveAt, Decided
    <2> QED
      BY <2>2, <2>3
  <1>18. ASSUME StartAbandoned(f)
        PROVE  ActiveAt(f, b)'
    <2>1. pc[f] = "installed" /\ claims'[f] = claims[f] /\ active'[f][b] \in {active[f][b], 0}
      BY <1>1, <1>18 DEF StartAbandoned, RunningType, ExecutorType
    <2> QED
      BY <2>1, ActiveFrame DEF Decided, ShuttingDown
  <1>19. ASSUME StopBroadcast(f)
        PROVE  ActiveAt(f, b)'
    <2>1. pc[f] = "starting" /\ claims'[f] = claims[f] /\ active'[f][b] \in {active[f][b], 0}
      BY <1>1, <1>19 DEF StopBroadcast, Executing, RunningType, ExecutorType
    <2> QED
      BY <2>1, ActiveFrame DEF Decided, ShuttingDown
  <1>20. ASSUME StopAbsent(f)
        PROVE  ActiveAt(f, b)'
    <2>1. pc[f] = "starting" /\ claims'[f] = claims[f] /\ active'[f][b] \in {active[f][b], 0}
      BY <1>1, <1>20 DEF StopAbsent, Executing, RunningType, ExecutorType
    <2> QED
      BY <2>1, ActiveFrame DEF Decided, ShuttingDown
  <1>21. ASSUME CompleteAnswered(f)
        PROVE  ActiveAt(f, b)'
    <2>1. /\ pc[f] = "completing" /\ pc[f] \in Busy /\ pc[f] \in Decided
          /\ Complete(Current(f), result[f]) /\ active'[f][b] = active[f][b]
      BY <1>21 DEF CompleteAnswered, Busy, Decided
    <2>2. CASE NextClaim(f)
      <3>1. DOMAIN commands' = DOMAIN commands
            /\ \A i \in DOMAIN commands : i = Current(f).id => commands'[i].state \in {"succeeded", "failed"}
        BY <2>1, CompletionFacts
      <3> QED
        BY <2>1, <2>2, <3>1, ActiveNext
    <2>3. CASE pc' = [pc EXCEPT ![f] = "undoing"] /\ UNCHANGED claims
      <3>1. pc'[f] \in Decided
        BY <1>1, <2>3 DEF ExecutorType, Decided
      <3> QED
        BY <2>1, <2>3, <3>1, ActiveFrame
    <2> QED
      BY <1>21, <2>2, <2>3 DEF CompleteAnswered, Resolve
  <1>22. ASSUME CompleteAmbiguous(f)
        PROVE  ActiveAt(f, b)'
    <2>1. /\ pc[f] \in Decided /\ pc'[f] \in Decided /\ claims'[f] = claims[f]
          /\ active'[f][b] = active[f][b]
      BY <1>1, <1>22 DEF CompleteAmbiguous, Decided, ExecutorType
    <2> QED
      BY <2>1, ActiveFrame
  <1>23. ASSUME VerifyCompletion(f)
        PROVE  ActiveAt(f, b)'
    <2>1. /\ pc[f] = "verifying" /\ pc[f] \in Busy /\ pc[f] \in Decided
          /\ UNCHANGED <<record, commands>> /\ active'[f][b] = active[f][b]
      BY <1>23 DEF VerifyCompletion, Busy, Decided, durable
    <2>2. record[Current(f).broadcast] \in Row
      BY <1>1, <2>1 DEF RecordType
    <2>3. CASE pc' = [pc EXCEPT ![f] = "completing"] /\ UNCHANGED claims
      <3>1. pc'[f] \in Decided
        BY <1>1, <2>3 DEF ExecutorType, Decided
      <3> QED
        BY <2>1, <2>3, <3>1, ActiveFrame
    <2>4. CASE pc' = [pc EXCEPT ![f] = "undoing"] /\ UNCHANGED claims
      <3>1. pc'[f] \in Decided
        BY <1>1, <2>4 DEF ExecutorType, Decided
      <3> QED
        BY <2>1, <2>4, <3>1, ActiveFrame
    <2>5. Current(f).id \in DOMAIN commands
          /\ commands[Current(f).id].kind = Current(f).kind
          /\ commands[Current(f).id].broadcast = Current(f).broadcast
      BY <1>1, <2>1 DEF ClaimsInv
    <2>6. CASE NextClaim(f) /\ Current(f).kind = "stop"
      BY <2>1, <2>5, <2>6, ActiveNext
    <2>7. CASE /\ NextClaim(f) /\ result[f].kind = "started"
               /\ record[Current(f).broadcast].runtime = result[f].runtime
      <3>1. record[Current(f).broadcast].runtime # 0
        BY <2>1, <2>7 DEF Inv, ResultInv, ResultAt
      <3>2. \A i \in DOMAIN commands :
              commands[i].broadcast = Current(f).broadcast /\ commands[i].kind = "start"
                => commands[i].state \in {"succeeded", "failed"}
        BY <1>1, <2>1, <3>1 DEF Inv, RecordedInv
      <3> QED
        BY <2>1, <2>5, <2>7, <3>2, ActiveNext
    <2>8. CASE Resolve(f, record[Current(f).broadcast])
      BY <1>1, <2>1, <2>2, <2>4, <2>6, <2>7, <2>8, ResolveFacts
    <2> QED
      BY <1>23, <2>3, <2>8 DEF VerifyCompletion
  <1>24. ASSUME CleanupUncommittedStart(f)
        PROVE  ActiveAt(f, b)'
    <2>1. /\ pc[f] = "undoing" /\ pc[f] \in Busy /\ pc[f] \in Decided /\ UNCHANGED commands
          /\ active'[f][b] = IF b = Current(f).broadcast THEN 0 ELSE active[f][b]
      BY <1>1, <1>24 DEF CleanupUncommittedStart, Busy, Decided, durable, RunningType
    <2>2. CASE UNCHANGED <<claims, pc>>
      BY <2>1, <2>2, ActiveFrame
    <2>3. CASE NextClaim(f)
      <3>1. Current(f).id \in DOMAIN commands => commands[Current(f).id].broadcast = Current(f).broadcast
        BY <1>1, <2>1 DEF ClaimsInv
      <3> QED
        BY <2>1, <2>3, <3>1, ActiveNext
    <2> QED
      BY <1>24, <2>2, <2>3 DEF CleanupUncommittedStart
  <1>25. ASSUME NEW c \in Broadcasts, TerminalClose(f, c)
        PROVE  ActiveAt(f, b)'
    <2>1. pc[f] = "idle" /\ claims'[f] = claims[f] /\ active'[f][b] \in {active[f][b], 0}
      BY <1>1, <1>25 DEF TerminalClose, RunningType, ExecutorType
    <2> QED
      BY <2>1, ActiveFrame DEF Decided, ShuttingDown
  <1>26. ASSUME ReconcileTerminal(f)
        PROVE  ActiveAt(f, b)'
    <2>1. pc[f] = "terminal" /\ claims'[f] = claims[f]
      BY <1>1, <1>26 DEF ReconcileTerminal
    <2>2. active'[f][b] \in {active[f][b], 0}
      BY <1>1, <1>26, TerminalFacts
    <2> QED
      BY <2>1, <2>2, ActiveFrame DEF Decided, ShuttingDown
  <1>27. ASSUME ShutdownClose(f)
        PROVE  ActiveAt(f, b)'
    <2>1. pc'[f] \in ShuttingDown /\ claims'[f] = {}
      BY <1>1, <1>27 DEF ShutdownClose, ShuttingDown, ProcessInv, ExecutorType, Busy
    <2>2. active'[f][b] \in {active[f][b], 0}
      BY <1>1, <1>27 DEF ShutdownClose, RunningType
    <2> QED
      BY <2>1, <2>2, ActiveFrame
  <1>28. ASSUME FailWorkerBroadcasts(f)
        PROVE  ActiveAt(f, b)'
    <2>1. pc'[f] \in ShuttingDown /\ claims'[f] = {}
      BY <1>1, <1>28 DEF FailWorkerBroadcasts, ShuttingDown, ProcessInv, ExecutorType, Busy
    <2>2. active'[f][b] \in {active[f][b], 0}
      BY <1>1, <1>28 DEF FailWorkerBroadcasts, RunningType
    <2> QED
      BY <2>1, <2>2, ActiveFrame
  <1>29. ASSUME FinalizeDrained(f)
        PROVE  ActiveAt(f, b)'
    <2>1. pc'[f] \in ShuttingDown /\ claims'[f] = {}
      BY <1>1, <1>29 DEF FinalizeDrained, ShuttingDown, ProcessInv, ExecutorType, Busy
    <2>2. active'[f][b] \in {active[f][b], 0}
      BY <1>1, <1>29 DEF FinalizeDrained, RunningType
    <2> QED
      BY <2>1, <2>2, ActiveFrame
  <1>30. ASSUME Exit(f)
        PROVE  ActiveAt(f, b)'
    <2>1. active'[f][b] = 0
      BY <1>1, <1>30 DEF Exit, Down, Nothing, RunningType
    <2> QED
      BY <2>1 DEF ActiveAt
  <1>31. ASSUME RetryRevoke(f)
        PROVE  ActiveAt(f, b)'
    <2>1. pc'[f] = pc[f] /\ claims'[f] = claims[f] /\ active'[f] = active[f]
      BY <1>31 DEF RetryRevoke
    <2> QED
      BY <2>1, ActiveSame
  <1>32. ASSUME Crash(f)
        PROVE  ActiveAt(f, b)'
    <2>1. active'[f][b] = 0
      BY <1>1, <1>32 DEF Crash, Down, Nothing, RunningType
    <2> QED
      BY <2>1 DEF ActiveAt
  <1>33. ASSUME BeginShutdown(f)
        PROVE  ActiveAt(f, b)'
    <2>1. pc'[f] \in ShuttingDown /\ claims'[f] = {}
      BY <1>1, <1>33 DEF BeginShutdown, ShuttingDown, ProcessInv, ExecutorType, Busy
    <2>2. active'[f][b] \in {active[f][b], 0}
      BY <1>1, <1>33 DEF BeginShutdown, RunningType
    <2> QED
      BY <2>1, <2>2, ActiveFrame
  <1> QED
    BY <1>11, <1>12, <1>13, <1>14, <1>15, <1>16, <1>17, <1>18, <1>19, <1>20, <1>21, <1>22, <1>23,
       <1>24, <1>25, <1>26, <1>27, <1>28, <1>29, <1>30, <1>31, <1>32, <1>33 DEF Work

\* What runs stays tied to the lease and the start of its row.
LEMMA ActiveStep ==
    ASSUME Inv, [Next]_vars
    PROVE  ActiveInv'
  <1>1. TypeOK /\ ExecutorType
    BY TypeParts DEF Inv
  <1>2. SUFFICES ASSUME NEW e \in Fences, NEW b \in Broadcasts
                 PROVE  ActiveAt(e, b)'
    BY DEF ActiveInv
  <1>3. ASSUME NEW f \in Fences, Work(f) \/ RetryRevoke(f) \/ Crash(f) \/ BeginShutdown(f)
        PROVE  ActiveAt(e, b)'
    <2>1. CASE e = f
      BY <1>3, <2>1, ActiveOwn
    <2>2. CASE e # f
      <3>1. pc'[e] = pc[e] /\ claims'[e] = claims[e] /\ active'[e] = active[e]
        BY <1>1, <1>3, <2>2, OthersKept DEF Same
      <3> QED
        BY <3>1, ActiveSame
    <2> QED
      BY <2>1, <2>2
  <1>4. CASE UNCHANGED <<pc, claims, active>>
    BY <1>4, ActiveSame
  <1>5. CASE Register
    <2>1. UNCHANGED <<claims, active>>
      BY <1>5 DEF Register
    <2>2. CASE pc'[e] = pc[e]
      BY <2>1, <2>2, ActiveSame
    <2>3. CASE pc'[e] # pc[e]
      <3>1. e = fence + 1 /\ fence \in Nat
        BY <1>1, <1>5, <2>3, BoundsAreNat DEF Register, ExecutorType
      <3>2. pc[e] = "down"
        BY <3>1 DEF Inv, ProcessInv
      <3> QED
        BY <2>1, <3>2, ActiveFrame DEF Decided, ShuttingDown
    <2> QED
      BY <2>2, <2>3
  <1> QED
    BY <1>3, <1>4, <1>5 DEF Next, EnqueueStart, EnqueueStop, GrantExpires, SourceLeaves, ClaimLapses,
                           process, vars

\* What giving up a generation does: it is revoked or its lease is retried.
Released(f, b, g) ==
  /\ issued' = issued
  /\ \A c \in Broadcasts : grant'[c] \in {grant[c], 0}
  /\ retrying[f] \subseteq retrying'[f]
  /\ \A r \in retrying'[f] : r \in retrying[f] \/ r = <<b, g>>
  /\ grant'[b] # g \/ <<b, g>> \in retrying'[f]

\* Closing a managed broadcast releases its generation.
LEMMA CloseReleases ==
    ASSUME Inv, NEW f \in Fences, NEW b \in Broadcasts, NEW g \in Generations,
           CloseManaged(f, b, g)
    PROVE  Released(f, b, g) /\ (faults' = faults => grant'[b] # g)
  <1>1. StoreType /\ RunningType /\ HistoryType /\ 0 \notin Generations
    BY Basics DEF Inv
  <1> QED
    BY <1>1, CloseFacts DEF Released

\* Revoking it alone does too.
LEMMA RevokeReleases ==
    ASSUME Inv, NEW f \in Fences, NEW b \in Broadcasts, NEW g \in Generations,
           Revoke(b, g), UNCHANGED <<retrying, issued>>
    PROVE  Released(f, b, g) /\ grant'[b] # g
  <1>1. StoreType /\ 0 \notin Generations
    BY Basics DEF Inv
  <1> QED
    BY <1>1, RevokeFacts DEF Released

\* Registering a grant: the start installs it, or fails with it retried or lost.
LEMMA StartFacts ==
    ASSUME Inv, NEW f \in Fences, ManagedStart(f)
    PROVE  /\ pc[f] = "starting" /\ Current(f).kind = "start" /\ Current(f).broadcast \in Broadcasts
           /\ grant[Current(f).broadcast] = 0 /\ issued + 1 \in Generations /\ issued' = issued + 1
           /\ \A b \in Broadcasts :
                grant'[b] = IF b = Current(f).broadcast THEN issued + 1 ELSE grant[b]
           /\ UNCHANGED <<record, active, authority, drained, claims>>
           /\ lost \subseteq lost' /\ retrying[f] \subseteq retrying'[f]
           /\ \A r \in retrying'[f] : r \in retrying[f] \/ r = <<Current(f).broadcast, issued + 1>>
           /\ \/ /\ held'[f] = issued + 1 /\ pc'[f] = "installed" /\ result' = result
              \/ /\ held'[f] = 0 /\ pc'[f] = "completing" /\ result'[f] = Failed("start")
                 /\ <<Current(f).broadcast, issued + 1>> \in retrying'[f] \/ issued + 1 \in lost'
  <1>1. /\ StoreType /\ RunningType /\ ExecutorType /\ HistoryType /\ 0 \notin Generations
        /\ pc[f] \in Busy => Current(f).broadcast \in Broadcasts
    BY Basics DEF Inv
  <1>2. /\ pc[f] = "starting" /\ Current(f).kind = "start" /\ Current(f).broadcast \in Broadcasts
        /\ held[f] = 0
    <2>1. pc[f] = "starting" /\ Current(f).kind = "start"
      BY DEF ManagedStart, Executing
    <2> QED
      BY <1>1, <2>1 DEF Busy, Inv, ProcessInv
  <1>3. /\ grant[Current(f).broadcast] = 0 /\ issued + 1 \in Generations /\ issued' = issued + 1
        /\ \A b \in Broadcasts :
             grant'[b] = IF b = Current(f).broadcast THEN issued + 1 ELSE grant[b]
        /\ UNCHANGED <<record, active, authority, drained, claims>>
    BY <1>1, <1>2 DEF ManagedStart, RegisterGrant, StoreType, durable
  <1>4. CASE InstallPublisher(f)
    BY <1>1, <1>2, <1>3, <1>4 DEF InstallPublisher, ExecutorType
  <1>5. CASE PublisherFails(f)
    <2>1. retrying'[f] = retrying[f] \cup {<<Current(f).broadcast, issued + 1>>}
      BY <1>1, <1>3, <1>5 DEF PublisherFails, RunningType
    <2> QED
      BY <1>1, <1>2, <1>3, <1>5, <2>1 DEF PublisherFails, Deliver, ExecutorType
  <1>6. CASE RegistrationTimesOut(f)
    BY <1>1, <1>2, <1>3, <1>6 DEF RegistrationTimesOut, Deliver, ExecutorType
  <1> QED
    BY <1>4, <1>5, <1>6 DEF ManagedStart

\* A start whose source is still there enters the active map with its grant.
LEMMA InstalledFacts ==
    ASSUME Inv, NEW f \in Fences, StartInstalled(f)
    PROVE  /\ pc[f] = "installed" /\ Current(f).kind = "start" /\ Current(f).broadcast \in Broadcasts
           /\ held[f] # 0 /\ grant[Current(f).broadcast] = held[f]
           /\ active[f][Current(f).broadcast] = 0
           /\ \A b \in Broadcasts :
                active'[f][b] = IF b = Current(f).broadcast THEN held[f] ELSE active[f][b]
           /\ held'[f] = 0 /\ pc'[f] = "completing" /\ result'[f] = Started(held[f])
           /\ UNCHANGED <<record, grant, issued, claims, authority, retrying, drained, lost>>
  <1>1. /\ StoreType /\ RunningType /\ ExecutorType /\ HistoryType /\ 0 \notin Generations
        /\ pc[f] \in Busy => Current(f).broadcast \in Broadcasts
    BY Basics DEF Inv
  <1>2. pc[f] = "installed" /\ grant[Current(f).broadcast] # 0 /\ pc[f] \in Busy
    BY DEF StartInstalled, Busy
  <1>3. /\ Current(f).kind = "start" /\ Current(f).broadcast \in Broadcasts
        /\ held[f] # 0 /\ grant[Current(f).broadcast] = held[f]
    BY <1>1, <1>2 DEF Inv, HeldInv, HeldAt, ResultInv, ResultAt
  <1>4. Current(f) \in claims[f]
    BY <1>2, Basics DEF Inv
  <1>5. active[f][Current(f).broadcast] = 0
    BY <1>2, <1>3, <1>4 DEF Inv, ActiveInv, ActiveAt, Decided
  <1>6. /\ \A b \in Broadcasts :
             active'[f][b] = IF b = Current(f).broadcast THEN held[f] ELSE active[f][b]
        /\ held'[f] = 0 /\ pc'[f] = "completing" /\ result'[f] = Started(held[f])
        /\ UNCHANGED <<record, grant, issued, claims, authority, retrying, drained, lost>>
    BY <1>1, <1>3 DEF StartInstalled, Deliver, ExecutorType, RunningType, durable, store
  <1> QED
    BY <1>2, <1>3, <1>5, <1>6

\* An abandoned start releases its grant.
LEMMA AbandonedFacts ==
    ASSUME Inv, NEW f \in Fences, StartAbandoned(f)
    PROVE  /\ pc[f] = "installed" /\ Current(f).kind = "start" /\ Current(f).broadcast \in Broadcasts
           /\ Released(f, Current(f).broadcast, held[f])
           /\ held'[f] = 0 /\ pc'[f] = "completing" /\ result'[f] = Failed("start")
           /\ UNCHANGED <<record, active, claims, authority, drained, lost>>
  <1>1. /\ StoreType /\ RunningType /\ ExecutorType /\ HistoryType /\ 0 \notin Generations
        /\ pc[f] \in Busy => Current(f).broadcast \in Broadcasts
    BY Basics DEF Inv
  <1>2. pc[f] = "installed" /\ pc[f] \in Busy
    BY DEF StartAbandoned, Busy
  <1>3. /\ Current(f).kind = "start" /\ Current(f).broadcast \in Broadcasts
        /\ held[f] \in Generations
    BY <1>1, <1>2 DEF Inv, HeldInv, HeldAt, ResultInv, ResultAt, ExecutorType
  <1>4. Released(f, Current(f).broadcast, held[f])
    BY <1>3, CloseReleases, RevokeReleases DEF StartAbandoned
  <1>5. /\ held'[f] = 0 /\ pc'[f] = "completing" /\ result'[f] = Failed("start")
        /\ UNCHANGED <<record, active, claims, authority, drained, lost>>
    BY <1>1 DEF StartAbandoned, Deliver, ExecutorType, durable
  <1> QED
    BY <1>2, <1>3, <1>4, <1>5

\* A stop of what runs closes it.
LEMMA StopFacts ==
    ASSUME Inv, NEW f \in Fences, StopBroadcast(f)
    PROVE  /\ pc[f] = "starting" /\ Current(f).kind = "stop" /\ Current(f).broadcast \in Broadcasts
           /\ active[f][Current(f).broadcast] \in Generations
           /\ Released(f, Current(f).broadcast, active[f][Current(f).broadcast])
           /\ \A b \in Broadcasts :
                /\ active'[f][b] = IF b = Current(f).broadcast THEN 0 ELSE active[f][b]
                /\ authority'[f][b] = IF b = Current(f).broadcast THEN 0 ELSE authority[f][b]
           /\ pc'[f] = "completing" /\ result'[f] \in {Stopped, Failed("stop")}
           /\ UNCHANGED <<record, claims, held, drained, lost>>
  <1>1. /\ StoreType /\ RunningType /\ ExecutorType /\ HistoryType /\ 0 \notin Generations
        /\ pc[f] \in Busy => Current(f).broadcast \in Broadcasts
    BY Basics DEF Inv
  <1>2. /\ pc[f] = "starting" /\ Current(f).kind = "stop" /\ Current(f).broadcast \in Broadcasts
        /\ active[f][Current(f).broadcast] # 0
    <2>1. pc[f] = "starting" /\ Current(f).kind = "stop" /\ active[f][Current(f).broadcast] # 0
      BY DEF StopBroadcast, Executing
    <2> QED
      BY <1>1, <2>1 DEF Busy
  <1>3. active[f][Current(f).broadcast] \in Generations
    BY <1>1, <1>2 DEF RunningType
  <1>4. Released(f, Current(f).broadcast, active[f][Current(f).broadcast])
    BY <1>2, <1>3, CloseReleases, RevokeReleases DEF StopBroadcast
  <1>5. \A b \in Broadcasts :
          /\ active'[f][b] = IF b = Current(f).broadcast THEN 0 ELSE active[f][b]
          /\ authority'[f][b] = IF b = Current(f).broadcast THEN 0 ELSE authority[f][b]
    BY <1>1, <1>2 DEF StopBroadcast, RunningType
  <1>6. /\ pc'[f] = "completing" /\ result'[f] \in {Stopped, Failed("stop")}
        /\ UNCHANGED <<record, claims, held, drained, lost>>
    BY <1>1 DEF StopBroadcast, Deliver, ExecutorType, durable
  <1> QED
    BY <1>2, <1>3, <1>4, <1>5, <1>6

\* A stop of what does not run only revokes.
LEMMA AbsentFacts ==
    ASSUME Inv, NEW f \in Fences, StopAbsent(f)
    PROVE  /\ pc[f] = "starting" /\ Current(f).kind = "stop" /\ Current(f).broadcast \in Broadcasts
           /\ active[f][Current(f).broadcast] = 0
           /\ issued' = issued /\ \A b \in Broadcasts : grant'[b] \in {grant[b], 0}
           /\ \A b \in Broadcasts :
                authority'[f][b] = IF b = Current(f).broadcast THEN 0 ELSE authority[f][b]
           /\ pc'[f] = "completing" /\ result'[f] \in {Stopped, Failed("stop")}
           /\ UNCHANGED <<record, claims, held, active, retrying, drained, lost>>
  <1>1. /\ StoreType /\ RunningType /\ ExecutorType /\ HistoryType /\ 0 \notin Generations
        /\ pc[f] \in Busy => Current(f).broadcast \in Broadcasts
    BY Basics DEF Inv
  <1>2. /\ pc[f] = "starting" /\ Current(f).kind = "stop" /\ Current(f).broadcast \in Broadcasts
        /\ active[f][Current(f).broadcast] = 0 /\ Current(f).runtime \in Generations \cup {0}
    <2>1. pc[f] = "starting" /\ Current(f).kind = "stop" /\ active[f][Current(f).broadcast] = 0
      BY DEF StopAbsent, Executing
    <2>2. pc[f] \in Busy
      BY <2>1 DEF Busy
    <2> QED
      BY <1>1, <2>1, <2>2, Basics DEF Inv
  <1>3. issued' = issued /\ \A b \in Broadcasts : grant'[b] \in {grant[b], 0}
    <2>1. CASE UNCHANGED grant
      BY <2>1 DEF StopAbsent
    <2>2. CASE Revoke(Current(f).broadcast, Current(f).runtime)
      BY <1>1, <1>2, <2>2, RevokeFacts DEF StopAbsent
    <2> QED
      BY <2>1, <2>2 DEF StopAbsent
  <1>4. \A b \in Broadcasts :
          authority'[f][b] = IF b = Current(f).broadcast THEN 0 ELSE authority[f][b]
    BY <1>1, <1>2 DEF StopAbsent, RunningType
  <1>5. /\ pc'[f] = "completing" /\ result'[f] \in {Stopped, Failed("stop")}
        /\ UNCHANGED <<record, claims, held, active, retrying, drained, lost>>
    BY <1>1 DEF StopAbsent, Deliver, ExecutorType, durable
  <1> QED
    BY <1>2, <1>3, <1>4, <1>5

\* The undoing of a start closes the publication, then revokes until the store
\* answers and goes on.
LEMMA UndoFacts ==
    ASSUME Inv, NEW f \in Fences, CleanupUncommittedStart(f)
    PROVE  /\ pc[f] = "undoing" /\ Current(f).broadcast \in Broadcasts
           /\ UNCHANGED <<record, drained, lost>>
           /\ \A b \in Broadcasts :
                /\ active'[f][b] = IF b = Current(f).broadcast THEN 0 ELSE active[f][b]
                /\ authority'[f][b] = IF b = Current(f).broadcast THEN 0 ELSE authority[f][b]
           /\ \/ /\ active[f][Current(f).broadcast] \in Generations
                 /\ Released(f, Current(f).broadcast, active[f][Current(f).broadcast])
                 /\ held[f] = 0 /\ held'[f] = active[f][Current(f).broadcast]
                 /\ pc' = pc /\ claims' = claims /\ result' = result
              \/ /\ active[f][Current(f).broadcast] = 0
                 /\ Released(f, Current(f).broadcast, held[f]) \/ held[f] = 0
                 /\ issued' = issued /\ \A b \in Broadcasts : grant'[b] \in {grant[b], 0}
                 /\ retrying' = retrying
                 /\ held'[f] = 0 /\ NextClaim(f)
  <1>1. /\ StoreType /\ RunningType /\ ExecutorType /\ HistoryType /\ 0 \notin Generations
        /\ pc[f] \in Busy => Current(f).broadcast \in Broadcasts
    BY Basics DEF Inv
  <1>2. pc[f] = "undoing" /\ Current(f).broadcast \in Broadcasts
    BY <1>1 DEF CleanupUncommittedStart, Busy
  <1>3. /\ active[f][Current(f).broadcast] \in Generations \cup {0}
        /\ held[f] \in Generations \cup {0}
        /\ active[f][Current(f).broadcast] # 0 => held[f] = 0
    BY <1>1, <1>2 DEF RunningType, ExecutorType, Inv, HeldInv, HeldAt
  <1>4. /\ UNCHANGED <<record, drained, lost>>
        /\ \A b \in Broadcasts :
             /\ active'[f][b] = IF b = Current(f).broadcast THEN 0 ELSE active[f][b]
             /\ authority'[f][b] = IF b = Current(f).broadcast THEN 0 ELSE authority[f][b]
    BY <1>1, <1>2 DEF CleanupUncommittedStart, RunningType, durable
  <1>5. CASE active[f][Current(f).broadcast] # 0
    <2>1. /\ CloseManaged(f, Current(f).broadcast, active[f][Current(f).broadcast])
          /\ held'[f] = active[f][Current(f).broadcast]
          /\ pc' = pc /\ claims' = claims /\ result' = result
      BY <1>1, <1>5 DEF CleanupUncommittedStart, ExecutorType
    <2> QED
      BY <1>2, <1>3, <1>4, <1>5, <2>1, CloseReleases
  <1>6. CASE active[f][Current(f).broadcast] = 0
    <2>1. /\ Revoke(Current(f).broadcast, held[f]) /\ UNCHANGED <<retrying, issued>>
          /\ held'[f] = 0 /\ NextClaim(f)
      BY <1>1, <1>6 DEF CleanupUncommittedStart, ExecutorType
    <2>2. Released(f, Current(f).broadcast, held[f]) \/ held[f] = 0
      BY <1>2, <1>3, <2>1, RevokeReleases
    <2>3. \A b \in Broadcasts : grant'[b] \in {grant[b], 0}
      BY <1>1, <1>2, <1>3, <2>1, RevokeFacts
    <2> QED
      BY <1>2, <1>4, <1>6, <2>1, <2>2, <2>3
  <1> QED
    BY <1>5, <1>6

\* The terminal close of an entry releases it; the entry is removed once its
\* row is settled.
LEMMA TerminalCloseFacts ==
    ASSUME Inv, NEW f \in Fences, NEW b \in Broadcasts, TerminalClose(f, b)
    PROVE  /\ pc[f] = "idle" /\ active[f][b] \in Generations
           /\ Released(f, b, active[f][b])
           /\ \A c \in Broadcasts : authority'[f][c] = IF c = b THEN 0 ELSE authority[f][c]
           /\ \/ /\ held'[f] = active[f][b] /\ pc'[f] = "terminal" /\ grant'[b] # active[f][b]
              \/ held' = held /\ pc' = pc
           /\ UNCHANGED <<record, claims, result, active, drained, lost>>
  <1>1. /\ StoreType /\ RunningType /\ ExecutorType /\ HistoryType /\ RecordType /\ 0 \notin Generations
        /\ pc[f] \in Busy => Current(f).broadcast \in Broadcasts
    BY Basics DEF Inv
  <1>2. pc[f] = "idle" /\ active[f][b] \in Generations
    BY <1>1 DEF TerminalClose, RunningType
  <1>3. /\ Released(f, b, active[f][b])
        /\ faults' = faults => grant'[b] # active[f][b]
    BY <1>2, CloseReleases DEF TerminalClose
  <1>4. \A c \in Broadcasts : authority'[f][c] = IF c = b THEN 0 ELSE authority[f][c]
    BY <1>1 DEF TerminalClose, RunningType
  <1>5. CASE faults' = faults
    <2>1. held'[f] = active[f][b] /\ pc'[f] = "terminal"
      BY <1>1, <1>5 DEF TerminalClose, ExecutorType
    <2> QED
      BY <1>2, <1>3, <1>4, <1>5, <2>1 DEF TerminalClose, durable
  <1>6. CASE faults' # faults
    BY <1>2, <1>3, <1>4, <1>6 DEF TerminalClose, durable
  <1> QED
    BY <1>5, <1>6

\* Reconciling it forgets what no longer has a grant.
LEMMA ReconcileFacts ==
    ASSUME Inv, NEW f \in Fences, ReconcileTerminal(f)
    PROVE  \E b \in Broadcasts :
             /\ pc[f] = "terminal" /\ active[f][b] = held[f] /\ held[f] # 0
             /\ authority[f][b] = 0 /\ grant[b] # held[f]
             /\ \A c \in Broadcasts :
                  /\ active'[f][c] = active[f][c] \/ (c = b /\ active'[f][c] = 0)
                  /\ record'[c].fence = record[c].fence
                  /\ \/ record'[c].runtime = record[c].runtime
                     \/ c = b /\ record[c].runtime = held[f] /\ record'[c].runtime = 0
             /\ held'[f] = 0 /\ pc'[f] = "idle"
             /\ UNCHANGED <<grant, issued, claims, result, authority, retrying, drained, lost>>
  <1>1. /\ StoreType /\ RunningType /\ ExecutorType /\ HistoryType /\ RecordType /\ 0 \notin Generations
        /\ pc[f] \in Busy => Current(f).broadcast \in Broadcasts
    BY Basics DEF Inv
  <1>2. PICK b \in Broadcasts :
             /\ active[f][b] = held[f]
             /\ \A e \in Fences, c \in Broadcasts :
                  active'[e][c] = active[e][c] \/ (e = f /\ c = b /\ active'[e][c] = 0)
             /\ \A c \in Broadcasts :
                  /\ record'[c].fence = record[c].fence
                  /\ record'[c] = record[c] \/ /\ c = b /\ record[b].state = "active"
                                               /\ record[b].runtime = held[f]
                                               /\ record'[b].state = "failed"
                                               /\ record'[b].runtime = 0
    BY <1>1, TerminalFacts
  <1>3. /\ pc[f] = "terminal" /\ held'[f] = 0 /\ pc'[f] = "idle"
        /\ UNCHANGED <<grant, issued, claims, result, authority, retrying, drained, lost>>
    BY <1>1 DEF ReconcileTerminal, ExecutorType, store
  <1>4. held[f] # 0 /\ authority[f][b] = 0 /\ grant[b] # held[f]
    BY <1>2, <1>3 DEF Inv, HeldInv, HeldAt
  <1>5. \A c \in Broadcasts :
          /\ active'[f][c] = active[f][c] \/ (c = b /\ active'[f][c] = 0)
          /\ record'[c].fence = record[c].fence
          /\ \/ record'[c].runtime = record[c].runtime
             \/ c = b /\ record[c].runtime = held[f] /\ record'[c].runtime = 0
    BY <1>2
  <1> QED
    BY <1>2, <1>3, <1>4, <1>5

\* Shutdown closes one entry after another and remembers which were revoked.
LEMMA ShutdownCloseFacts ==
    ASSUME Inv, NEW f \in Fences, ShutdownClose(f)
    PROVE  /\ pc[f] = "closing" /\ pc'[f] \in ShuttingDown
           /\ UNCHANGED <<record, claims, held, result, lost>>
           /\ \/ UNCHANGED <<grant, issued, active, authority, retrying, drained>>
              \/ \E b \in Broadcasts :
                   /\ active[f][b] \in Generations /\ Released(f, b, active[f][b])
                   /\ \A c \in Broadcasts :
                        /\ active'[f][c] = IF c = b THEN 0 ELSE active[f][c]
                        /\ authority'[f][c] = IF c = b THEN 0 ELSE authority[f][c]
                   /\ \/ drained' = drained
                      \/ /\ grant'[b] # active[f][b]
                         /\ drained'[f] = drained[f] \cup {<<b, active[f][b]>>}
  <1>1. /\ StoreType /\ RunningType /\ ExecutorType /\ HistoryType /\ RecordType /\ 0 \notin Generations
        /\ pc[f] \in Busy => Current(f).broadcast \in Broadcasts
    BY Basics DEF Inv
  <1>2. /\ pc[f] = "closing" /\ pc'[f] \in ShuttingDown
        /\ UNCHANGED <<record, claims, held, result, lost>>
    BY <1>1 DEF ShutdownClose, ShuttingDown, ExecutorType, durable
  <1>3. ASSUME NEW b \in Broadcasts, active[f][b] # 0,
               authority' = [authority EXCEPT ![f][b] = 0],
               active' = [active EXCEPT ![f][b] = 0],
               CloseManaged(f, b, active[f][b]),
               drained' = [drained EXCEPT ![f] =
                 IF faults' = faults THEN @ \cup {<<b, active[f][b]>>} ELSE @]
        PROVE  /\ active[f][b] \in Generations /\ Released(f, b, active[f][b])
               /\ \A c \in Broadcasts :
                    /\ active'[f][c] = IF c = b THEN 0 ELSE active[f][c]
                    /\ authority'[f][c] = IF c = b THEN 0 ELSE authority[f][c]
               /\ \/ drained' = drained
                  \/ /\ grant'[b] # active[f][b]
                     /\ drained'[f] = drained[f] \cup {<<b, active[f][b]>>}
    <2>1. active[f][b] \in Generations
      BY <1>1, <1>3 DEF RunningType
    <2>2. /\ Released(f, b, active[f][b])
          /\ faults' = faults => grant'[b] # active[f][b]
      BY <1>3, <2>1, CloseReleases
    <2>3. \A c \in Broadcasts :
            /\ active'[f][c] = IF c = b THEN 0 ELSE active[f][c]
            /\ authority'[f][c] = IF c = b THEN 0 ELSE authority[f][c]
      BY <1>1, <1>3 DEF RunningType
    <2>4. CASE faults' = faults
      <3>1. drained'[f] = drained[f] \cup {<<b, active[f][b]>>}
        BY <1>1, <1>3, <2>4 DEF RunningType
      <3> QED
        BY <2>1, <2>2, <2>3, <2>4, <3>1
    <2>5. CASE faults' # faults
      <3>1. drained' = drained
        BY <1>1, <1>3, <2>5 DEF RunningType
      <3> QED
        BY <2>1, <2>2, <2>3, <3>1
    <2> QED
      BY <2>4, <2>5
  <1>4. CASE UNCHANGED <<store, active, authority, retrying, drained>>
    BY <1>2, <1>4 DEF store
  <1>5. CASE \E b \in Broadcasts :
               /\ active[f][b] # 0
               /\ authority' = [authority EXCEPT ![f][b] = 0]
               /\ active' = [active EXCEPT ![f][b] = 0]
               /\ CloseManaged(f, b, active[f][b])
               /\ drained' = [drained EXCEPT ![f] =
                    IF faults' = faults THEN @ \cup {<<b, active[f][b]>>} ELSE @]
    <2>1. PICK b \in Broadcasts :
               /\ active[f][b] # 0
               /\ authority' = [authority EXCEPT ![f][b] = 0]
               /\ active' = [active EXCEPT ![f][b] = 0]
               /\ CloseManaged(f, b, active[f][b])
               /\ drained' = [drained EXCEPT ![f] =
                    IF faults' = faults THEN @ \cup {<<b, active[f][b]>>} ELSE @]
      BY <1>5
    <2> QED
      BY <1>2, <1>3, <2>1
  <1> QED
    BY <1>4, <1>5 DEF ShutdownClose

\* A lease's task revokes its generation or loses it.
LEMMA RetryFacts ==
    ASSUME Inv, NEW f \in Fences, RetryRevoke(f)
    PROVE  \E b \in Broadcasts, g \in Generations :
             /\ <<b, g>> \in retrying[f] /\ retrying'[f] = retrying[f] \ {<<b, g>>}
             /\ issued' = issued /\ \A c \in Broadcasts : grant'[c] \in {grant[c], 0}
             /\ grant'[b] # g \/ g \in lost'
             /\ lost \subseteq lost'
             /\ UNCHANGED <<record, pc, claims, held, result, active, authority, drained>>
  <1>1. /\ StoreType /\ RunningType /\ ExecutorType /\ HistoryType /\ RecordType /\ 0 \notin Generations
        /\ pc[f] \in Busy => Current(f).broadcast \in Broadcasts
    BY Basics DEF Inv
  <1>2. PICK r \in retrying[f] :
          /\ retrying' = [retrying EXCEPT ![f] = @ \ {r}]
          /\ \/ Revoke(r[1], r[2]) /\ UNCHANGED <<issued, lost>>
             \/ lost' = lost \cup {r[2]} /\ UNCHANGED store
    BY DEF RetryRevoke
  <1>3. PICK b \in Broadcasts, g \in Generations : r = <<b, g>>
    BY <1>1 DEF RunningType
  <1>4. <<b, g>> \in retrying[f] /\ retrying'[f] = retrying[f] \ {<<b, g>>}
    BY <1>1, <1>2, <1>3 DEF RunningType
  <1>5. UNCHANGED <<record, pc, claims, held, result, active, authority, drained>>
    BY DEF RetryRevoke, durable
  <1>6. CASE Revoke(r[1], r[2]) /\ UNCHANGED <<issued, lost>>
    <2>1. Revoke(b, g)
      BY <1>3, <1>6
    <2>2. (\A c \in Broadcasts : grant'[c] \in {grant[c], 0}) /\ grant'[b] # g
      BY <1>1, <2>1, RevokeFacts
    <2> QED
      BY <1>4, <1>5, <1>6, <2>2
  <1>7. CASE lost' = lost \cup {r[2]} /\ UNCHANGED store
    <2>1. g \in lost' /\ lost \subseteq lost' /\ UNCHANGED <<grant, issued>>
      BY <1>3, <1>7 DEF store
    <2> QED
      BY <1>4, <1>5, <2>1
  <1> QED
    BY <1>2, <1>6, <1>7

\* A process that ends drops what it holds, and what no row records is lost.
LEMMA DownFacts ==
    ASSUME Inv, NEW f \in Fences, Crash(f) \/ Exit(f)
    PROVE  /\ pc'[f] = "down" /\ held'[f] = 0 /\ claims'[f] = {} /\ result'[f] = NoResult
           /\ retrying'[f] = {} /\ drained'[f] = {}
           /\ \A b \in Broadcasts : active'[f][b] = 0 /\ authority'[f][b] = 0
           /\ UNCHANGED <<record, grant, issued>>
           /\ lost \subseteq lost'
           /\ \A b \in Broadcasts, g \in Generations :
                Holds(f, b, g) => g \in lost' \/ Recorded(g)
  <1>1. /\ StoreType /\ RunningType /\ ExecutorType /\ HistoryType /\ RecordType /\ 0 \notin Generations
        /\ pc[f] \in Busy => Current(f).broadcast \in Broadcasts
    BY Basics DEF Inv
  <1>2. /\ Down(f) /\ UNCHANGED <<record, grant, issued>>
        /\ lost' = lost \cup {g \in Generations : InHand(f, g) /\ ~Recorded(g)}
    BY DEF Crash, Exit, durable, store
  <1>3. /\ pc'[f] = "down" /\ held'[f] = 0 /\ claims'[f] = {} /\ result'[f] = NoResult
        /\ retrying'[f] = {} /\ drained'[f] = {}
        /\ \A b \in Broadcasts : active'[f][b] = 0 /\ authority'[f][b] = 0
    BY <1>1, <1>2 DEF Down, ExecutorType, RunningType, Nothing
  <1>4. \A b \in Broadcasts, g \in Generations : Holds(f, b, g) => InHand(f, g)
    BY DEF Holds, Carries, InHand
  <1> QED
    BY <1>2, <1>3, <1>4

\* A shutdown leaves an installed broadcast to its lease, and loses the one
\* that was being undone.
LEMMA BeginFacts ==
    ASSUME Inv, NEW f \in Fences, BeginShutdown(f)
    PROVE  /\ pc'[f] = "closing" /\ held'[f] = 0 /\ claims'[f] = {} /\ result'[f] = NoResult
           /\ UNCHANGED <<record, grant, issued, active, authority, drained>>
           /\ lost \subseteq lost' /\ retrying[f] \subseteq retrying'[f]
           /\ \A r \in retrying'[f] :
                r \in retrying[f] \/ (pc[f] = "installed" /\ r = <<Current(f).broadcast, held[f]>>)
           /\ \A b \in Broadcasts, g \in Generations :
                Carries(f, b, g) => <<b, g>> \in retrying'[f] \/ g \in lost'
  <1>1. /\ StoreType /\ RunningType /\ ExecutorType /\ HistoryType /\ RecordType /\ 0 \notin Generations
        /\ pc[f] \in Busy => Current(f).broadcast \in Broadcasts
    BY Basics DEF Inv
  <1>2. /\ pc'[f] = "closing" /\ held'[f] = 0 /\ claims'[f] = {} /\ result'[f] = NoResult
        /\ UNCHANGED <<record, grant, issued, active, authority, drained>>
        /\ lost \subseteq lost'
    BY <1>1 DEF BeginShutdown, ExecutorType, durable, store
  <1>3. CASE pc[f] = "installed"
    <2>1. retrying'[f] = retrying[f] \cup {<<Current(f).broadcast, held[f]>>}
      BY <1>1, <1>3 DEF BeginShutdown, RunningType
    <2> QED
      BY <1>2, <1>3, <2>1 DEF Carries
  <1>4. CASE pc[f] = "undoing"
    <2>1. retrying'[f] = retrying[f] /\ lost' = lost \cup ({held[f]} \ {0})
      BY <1>1, <1>4 DEF BeginShutdown, RunningType
    <2> QED
      BY <1>1, <1>2, <1>4, <2>1 DEF Carries
  <1>5. CASE pc[f] \notin {"installed", "undoing"}
    <2>1. retrying'[f] = retrying[f]
      BY <1>1, <1>5 DEF BeginShutdown, RunningType
    <2> QED
      BY <1>2, <1>5, <2>1 DEF Carries
  <1> QED
    BY <1>3, <1>4, <1>5

\* The steps of an executor that give up no generation.
Quiet(f) ==
  \/ FailStaleWorkerBroadcasts(f) \/ CleanStaleRow(f) \/ StaleFencesReconciled(f)
  \/ ClaimAndExecute(f) \/ StartRefused(f)
  \/ CompleteAnswered(f) \/ CompleteAmbiguous(f) \/ VerifyCompletion(f)
  \/ FailWorkerBroadcasts(f) \/ FinalizeDrained(f)

\* They keep what runs, what is retried and what is lost.
QuietFrame(f) ==
  /\ held[f] = 0 /\ held'[f] = 0 /\ active'[f] = active[f] /\ retrying'[f] = retrying[f]
  /\ lost' = lost /\ drained'[f] \subseteq drained[f]
  /\ pc[f] \notin {"down", "installed", "undoing", "terminal"}
  /\ pc'[f] \notin {"down", "installed", "terminal"}
  /\ pc[f] \in ShuttingDown => pc'[f] \in ShuttingDown
  /\ issued' = issued /\ \A b \in Broadcasts : grant'[b] \in {grant[b], 0}

\* Every quiet step has that frame.
LEMMA QuietFacts ==
    ASSUME Inv, NEW f \in Fences, Quiet(f)
    PROVE  QuietFrame(f)
  <1>1. /\ StoreType /\ RunningType /\ ExecutorType /\ RecordType /\ ProcessInv
        /\ 0 \notin Generations
    BY Basics DEF Inv
  <1>2. ASSUME held' = held, active' = active, retrying' = retrying, lost' = lost,
               drained'[f] \subseteq drained[f],
               pc[f] \notin {"down", "installed", "undoing", "terminal"},
               pc'[f] \notin {"down", "installed", "terminal"},
               pc[f] \in ShuttingDown => pc'[f] \in ShuttingDown,
               issued' = issued, \A b \in Broadcasts : grant'[b] \in {grant[b], 0}
        PROVE  QuietFrame(f)
    BY <1>1, <1>2 DEF QuietFrame, ProcessInv
  <1>11. ASSUME FailStaleWorkerBroadcasts(f)
        PROVE  QuietFrame(f)
    <2>1. /\ held' = held /\ active' = active /\ retrying' = retrying /\ lost' = lost
          /\ drained'[f] \subseteq drained[f]
      BY <1>1, <1>11 DEF FailStaleWorkerBroadcasts
    <2>2. /\ pc[f] \notin {"down", "installed", "undoing", "terminal"}
          /\ pc'[f] \notin {"down", "installed", "terminal"}
          /\ pc[f] \in ShuttingDown => pc'[f] \in ShuttingDown
      BY <1>1, <1>11 DEF FailStaleWorkerBroadcasts, ShuttingDown, ExecutorType
    <2>3. issued' = issued /\ \A b \in Broadcasts : grant'[b] \in {grant[b], 0}
      BY <1>11 DEF FailStaleWorkerBroadcasts, store
    <2> QED
      BY <1>2, <2>1, <2>2, <2>3
  <1>12. ASSUME CleanStaleRow(f)
        PROVE  QuietFrame(f)
    <2>1. /\ held' = held /\ active' = active /\ retrying' = retrying /\ lost' = lost
          /\ drained'[f] \subseteq drained[f]
      BY <1>1, <1>12 DEF CleanStaleRow
    <2>2. /\ pc[f] \notin {"down", "installed", "undoing", "terminal"}
          /\ pc'[f] \notin {"down", "installed", "terminal"}
          /\ pc[f] \in ShuttingDown => pc'[f] \in ShuttingDown
      BY <1>1, <1>12 DEF CleanStaleRow, ShuttingDown, ExecutorType
    <2>3. issued' = issued /\ \A b \in Broadcasts : grant'[b] \in {grant[b], 0}
      BY <1>1, <1>12 DEF CleanStaleRow, Revoke, StoreType, store
    <2> QED
      BY <1>2, <2>1, <2>2, <2>3
  <1>13. ASSUME StaleFencesReconciled(f)
        PROVE  QuietFrame(f)
    <2>1. /\ held' = held /\ active' = active /\ retrying' = retrying /\ lost' = lost
          /\ drained'[f] \subseteq drained[f]
      BY <1>1, <1>13 DEF StaleFencesReconciled
    <2>2. /\ pc[f] \notin {"down", "installed", "undoing", "terminal"}
          /\ pc'[f] \notin {"down", "installed", "terminal"}
          /\ pc[f] \in ShuttingDown => pc'[f] \in ShuttingDown
      BY <1>1, <1>13 DEF StaleFencesReconciled, ShuttingDown, ExecutorType
    <2>3. issued' = issued /\ \A b \in Broadcasts : grant'[b] \in {grant[b], 0}
      BY <1>13 DEF StaleFencesReconciled, store
    <2> QED
      BY <1>2, <2>1, <2>2, <2>3
  <1>14. ASSUME ClaimAndExecute(f)
        PROVE  QuietFrame(f)
    <2>1. /\ held' = held /\ active' = active /\ retrying' = retrying /\ lost' = lost
          /\ drained'[f] \subseteq drained[f]
      BY <1>1, <1>14 DEF ClaimAndExecute
    <2>2. /\ pc[f] \notin {"down", "installed", "undoing", "terminal"}
          /\ pc'[f] \notin {"down", "installed", "terminal"}
          /\ pc[f] \in ShuttingDown => pc'[f] \in ShuttingDown
      BY <1>1, <1>14 DEF ClaimAndExecute, ShuttingDown, ExecutorType
    <2>3. issued' = issued /\ \A b \in Broadcasts : grant'[b] \in {grant[b], 0}
      BY <1>14 DEF ClaimAndExecute, store
    <2> QED
      BY <1>2, <2>1, <2>2, <2>3
  <1>15. ASSUME StartRefused(f)
        PROVE  QuietFrame(f)
    <2>1. /\ held' = held /\ active' = active /\ retrying' = retrying /\ lost' = lost
          /\ drained'[f] \subseteq drained[f]
      BY <1>1, <1>15 DEF StartRefused
    <2>2. /\ pc[f] \notin {"down", "installed", "undoing", "terminal"}
          /\ pc'[f] \notin {"down", "installed", "terminal"}
          /\ pc[f] \in ShuttingDown => pc'[f] \in ShuttingDown
      BY <1>1, <1>15 DEF StartRefused, Executing, Deliver, ShuttingDown, ExecutorType
    <2>3. issued' = issued /\ \A b \in Broadcasts : grant'[b] \in {grant[b], 0}
      BY <1>15 DEF StartRefused, store
    <2> QED
      BY <1>2, <2>1, <2>2, <2>3
  <1>16. ASSUME CompleteAnswered(f)
        PROVE  QuietFrame(f)
    <2>1. /\ held' = held /\ active' = active /\ retrying' = retrying /\ lost' = lost
          /\ drained'[f] \subseteq drained[f]
      BY <1>1, <1>16 DEF CompleteAnswered
    <2>2. /\ pc[f] \notin {"down", "installed", "undoing", "terminal"}
          /\ pc'[f] \notin {"down", "installed", "terminal"}
          /\ pc[f] \in ShuttingDown => pc'[f] \in ShuttingDown
      BY <1>1, <1>16 DEF CompleteAnswered, Resolve, NextClaim, ShuttingDown, ExecutorType
    <2>3. issued' = issued /\ \A b \in Broadcasts : grant'[b] \in {grant[b], 0}
      BY <1>16 DEF CompleteAnswered, store
    <2> QED
      BY <1>2, <2>1, <2>2, <2>3
  <1>17. ASSUME CompleteAmbiguous(f)
        PROVE  QuietFrame(f)
    <2>1. /\ held' = held /\ active' = active /\ retrying' = retrying /\ lost' = lost
          /\ drained'[f] \subseteq drained[f]
      BY <1>1, <1>17 DEF CompleteAmbiguous
    <2>2. /\ pc[f] \notin {"down", "installed", "undoing", "terminal"}
          /\ pc'[f] \notin {"down", "installed", "terminal"}
          /\ pc[f] \in ShuttingDown => pc'[f] \in ShuttingDown
      BY <1>1, <1>17 DEF CompleteAmbiguous, ShuttingDown, ExecutorType
    <2>3. issued' = issued /\ \A b \in Broadcasts : grant'[b] \in {grant[b], 0}
      BY <1>17 DEF CompleteAmbiguous, store
    <2> QED
      BY <1>2, <2>1, <2>2, <2>3
  <1>18. ASSUME VerifyCompletion(f)
        PROVE  QuietFrame(f)
    <2>1. /\ held' = held /\ active' = active /\ retrying' = retrying /\ lost' = lost
          /\ drained'[f] \subseteq drained[f]
      BY <1>1, <1>18 DEF VerifyCompletion
    <2>2. /\ pc[f] \notin {"down", "installed", "undoing", "terminal"}
          /\ pc'[f] \notin {"down", "installed", "terminal"}
          /\ pc[f] \in ShuttingDown => pc'[f] \in ShuttingDown
      BY <1>1, <1>18 DEF VerifyCompletion, Resolve, NextClaim, ShuttingDown, ExecutorType
    <2>3. issued' = issued /\ \A b \in Broadcasts : grant'[b] \in {grant[b], 0}
      BY <1>18 DEF VerifyCompletion, store
    <2> QED
      BY <1>2, <2>1, <2>2, <2>3
  <1>19. ASSUME FailWorkerBroadcasts(f)
        PROVE  QuietFrame(f)
    <2>1. /\ held' = held /\ active' = active /\ retrying' = retrying /\ lost' = lost
          /\ drained'[f] \subseteq drained[f]
      BY <1>1, <1>19 DEF FailWorkerBroadcasts, RunningType
    <2>2. /\ pc[f] \notin {"down", "installed", "undoing", "terminal"}
          /\ pc'[f] \notin {"down", "installed", "terminal"}
          /\ pc[f] \in ShuttingDown => pc'[f] \in ShuttingDown
      BY <1>1, <1>19 DEF FailWorkerBroadcasts, ShuttingDown, ExecutorType
    <2>3. issued' = issued /\ \A b \in Broadcasts : grant'[b] \in {grant[b], 0}
      BY <1>19 DEF FailWorkerBroadcasts, store
    <2> QED
      BY <1>2, <2>1, <2>2, <2>3
  <1>20. ASSUME FinalizeDrained(f)
        PROVE  QuietFrame(f)
    <2>1. /\ held' = held /\ active' = active /\ retrying' = retrying /\ lost' = lost
          /\ drained'[f] \subseteq drained[f]
      BY <1>1, <1>20 DEF FinalizeDrained, RunningType
    <2>2. /\ pc[f] \notin {"down", "installed", "undoing", "terminal"}
          /\ pc'[f] \notin {"down", "installed", "terminal"}
          /\ pc[f] \in ShuttingDown => pc'[f] \in ShuttingDown
      BY <1>1, <1>20 DEF FinalizeDrained, ShuttingDown, ExecutorType
    <2>3. issued' = issued /\ \A b \in Broadcasts : grant'[b] \in {grant[b], 0}
      BY <1>20 DEF FinalizeDrained, store
    <2> QED
      BY <1>2, <2>1, <2>2, <2>3
  <1> QED
    BY <1>11, <1>12, <1>13, <1>14, <1>15, <1>16, <1>17, <1>18, <1>19, <1>20 DEF Quiet

\* A step of one process: what it is about.
Acts(f) == Work(f) \/ RetryRevoke(f) \/ Crash(f) \/ BeginShutdown(f)

\* It is quiet, or one of the steps that move a generation.
LEMMA ActsCases ==
    ASSUME NEW f \in Fences, Acts(f)
    PROVE  \/ Quiet(f) \/ ManagedStart(f) \/ StartInstalled(f) \/ StartAbandoned(f)
           \/ StopBroadcast(f) \/ StopAbsent(f) \/ CleanupUncommittedStart(f)
           \/ \E b \in Broadcasts : TerminalClose(f, b)
           \/ ReconcileTerminal(f) \/ ShutdownClose(f) \/ RetryRevoke(f)
           \/ Crash(f) \/ Exit(f) \/ BeginShutdown(f)
  BY DEF Acts, Work, Quiet

\* Every step is the environment's or one process's.
LEMMA NextCases ==
    ASSUME [Next]_vars
    PROVE  \/ \E f \in Fences : Acts(f)
           \/ Register
           \/ /\ UNCHANGED <<process, issued, lost>>
              /\ grant' = grant \/ \E b \in Broadcasts : GrantExpires(b)
  BY DEF Next, Acts, EnqueueStart, EnqueueStop, GrantExpires, SourceLeaves, ClaimLapses, store, vars

\* A lost generation stays lost.
LEMMA LostKept ==
    ASSUME Inv, NEW f \in Fences, Acts(f)
    PROVE  lost \subseteq lost'
  <1>11. ASSUME Quiet(f)
        PROVE  lost \subseteq lost'
    BY <1>11, QuietFacts DEF QuietFrame
  <1>12. ASSUME ManagedStart(f)
        PROVE  lost \subseteq lost'
    BY <1>12, StartFacts
  <1>13. ASSUME StartInstalled(f)
        PROVE  lost \subseteq lost'
    BY <1>13, InstalledFacts
  <1>14. ASSUME StartAbandoned(f)
        PROVE  lost \subseteq lost'
    BY <1>14, AbandonedFacts
  <1>15. ASSUME StopBroadcast(f)
        PROVE  lost \subseteq lost'
    BY <1>15, StopFacts
  <1>16. ASSUME StopAbsent(f)
        PROVE  lost \subseteq lost'
    BY <1>16, AbsentFacts
  <1>17. ASSUME CleanupUncommittedStart(f)
        PROVE  lost \subseteq lost'
    BY <1>17, UndoFacts
  <1>18. ASSUME NEW t \in Broadcasts, TerminalClose(f, t)
        PROVE  lost \subseteq lost'
    BY <1>18, TerminalCloseFacts
  <1>19. ASSUME ReconcileTerminal(f)
        PROVE  lost \subseteq lost'
    BY <1>19, ReconcileFacts
  <1>20. ASSUME ShutdownClose(f)
        PROVE  lost \subseteq lost'
    BY <1>20, ShutdownCloseFacts
  <1>21. ASSUME RetryRevoke(f)
        PROVE  lost \subseteq lost'
    BY <1>21, RetryFacts
  <1>22. ASSUME Crash(f)
        PROVE  lost \subseteq lost'
    BY <1>22, DownFacts
  <1>23. ASSUME Exit(f)
        PROVE  lost \subseteq lost'
    BY <1>23, DownFacts
  <1>24. ASSUME BeginShutdown(f)
        PROVE  lost \subseteq lost'
    BY <1>24, BeginFacts
  <1> QED
    BY <1>11, <1>12, <1>13, <1>14, <1>15, <1>16, <1>17, <1>18, <1>19, <1>20, <1>21, <1>22, <1>23,
       <1>24, ActsCases

\* A process issues one generation, where no grant is active, or none.
LEMMA StoreStep ==
    ASSUME Inv, NEW f \in Fences, Acts(f)
    PROVE  \/ ManagedStart(f)
           \/ issued' = issued /\ \A b \in Broadcasts : grant'[b] \in {grant[b], 0}
  <1>11. ASSUME Quiet(f)
        PROVE  \/ ManagedStart(f)
               \/ issued' = issued /\ \A b \in Broadcasts : grant'[b] \in {grant[b], 0}
    BY <1>11, QuietFacts DEF QuietFrame
  <1>12. ASSUME ManagedStart(f)
        PROVE  \/ ManagedStart(f)
               \/ issued' = issued /\ \A b \in Broadcasts : grant'[b] \in {grant[b], 0}
    BY <1>12
  <1>13. ASSUME StartInstalled(f)
        PROVE  \/ ManagedStart(f)
               \/ issued' = issued /\ \A b \in Broadcasts : grant'[b] \in {grant[b], 0}
    BY <1>13, InstalledFacts
  <1>14. ASSUME StartAbandoned(f)
        PROVE  \/ ManagedStart(f)
               \/ issued' = issued /\ \A b \in Broadcasts : grant'[b] \in {grant[b], 0}
    BY <1>14, AbandonedFacts DEF Released
  <1>15. ASSUME StopBroadcast(f)
        PROVE  \/ ManagedStart(f)
               \/ issued' = issued /\ \A b \in Broadcasts : grant'[b] \in {grant[b], 0}
    BY <1>15, StopFacts DEF Released
  <1>16. ASSUME StopAbsent(f)
        PROVE  \/ ManagedStart(f)
               \/ issued' = issued /\ \A b \in Broadcasts : grant'[b] \in {grant[b], 0}
    BY <1>16, AbsentFacts
  <1>17. ASSUME CleanupUncommittedStart(f)
        PROVE  \/ ManagedStart(f)
               \/ issued' = issued /\ \A b \in Broadcasts : grant'[b] \in {grant[b], 0}
    BY <1>17, UndoFacts DEF Released
  <1>18. ASSUME NEW t \in Broadcasts, TerminalClose(f, t)
        PROVE  \/ ManagedStart(f)
               \/ issued' = issued /\ \A b \in Broadcasts : grant'[b] \in {grant[b], 0}
    BY <1>18, TerminalCloseFacts DEF Released
  <1>19. ASSUME ReconcileTerminal(f)
        PROVE  \/ ManagedStart(f)
               \/ issued' = issued /\ \A b \in Broadcasts : grant'[b] \in {grant[b], 0}
    BY <1>19, ReconcileFacts
  <1>20. ASSUME ShutdownClose(f)
        PROVE  \/ ManagedStart(f)
               \/ issued' = issued /\ \A b \in Broadcasts : grant'[b] \in {grant[b], 0}
    BY <1>20, ShutdownCloseFacts DEF Released
  <1>21. ASSUME RetryRevoke(f)
        PROVE  \/ ManagedStart(f)
               \/ issued' = issued /\ \A b \in Broadcasts : grant'[b] \in {grant[b], 0}
    BY <1>21, RetryFacts
  <1>22. ASSUME Crash(f)
        PROVE  \/ ManagedStart(f)
               \/ issued' = issued /\ \A b \in Broadcasts : grant'[b] \in {grant[b], 0}
    BY <1>22, DownFacts
  <1>23. ASSUME Exit(f)
        PROVE  \/ ManagedStart(f)
               \/ issued' = issued /\ \A b \in Broadcasts : grant'[b] \in {grant[b], 0}
    BY <1>23, DownFacts
  <1>24. ASSUME BeginShutdown(f)
        PROVE  \/ ManagedStart(f)
               \/ issued' = issued /\ \A b \in Broadcasts : grant'[b] \in {grant[b], 0}
    BY <1>24, BeginFacts
  <1> QED
    BY <1>11, <1>12, <1>13, <1>14, <1>15, <1>16, <1>17, <1>18, <1>19, <1>20, <1>21, <1>22, <1>23,
       <1>24, ActsCases

\* A process that is down or shuts down does not come back.
LEMMA DownStays ==
    ASSUME Inv, NEW f \in Fences, Acts(f)
    PROVE  pc[f] \in {"down"} \cup ShuttingDown => pc'[f] \in {"down"} \cup ShuttingDown
  <1>11. ASSUME Quiet(f)
        PROVE  pc[f] \in {"down"} \cup ShuttingDown => pc'[f] \in {"down"} \cup ShuttingDown
    BY <1>11, QuietFacts DEF QuietFrame, ShuttingDown
  <1>12. ASSUME ManagedStart(f)
        PROVE  pc[f] \in {"down"} \cup ShuttingDown => pc'[f] \in {"down"} \cup ShuttingDown
    BY <1>12, StartFacts DEF ShuttingDown
  <1>13. ASSUME StartInstalled(f)
        PROVE  pc[f] \in {"down"} \cup ShuttingDown => pc'[f] \in {"down"} \cup ShuttingDown
    BY <1>13, InstalledFacts DEF ShuttingDown
  <1>14. ASSUME StartAbandoned(f)
        PROVE  pc[f] \in {"down"} \cup ShuttingDown => pc'[f] \in {"down"} \cup ShuttingDown
    BY <1>14, AbandonedFacts DEF ShuttingDown
  <1>15. ASSUME StopBroadcast(f)
        PROVE  pc[f] \in {"down"} \cup ShuttingDown => pc'[f] \in {"down"} \cup ShuttingDown
    BY <1>15, StopFacts DEF ShuttingDown
  <1>16. ASSUME StopAbsent(f)
        PROVE  pc[f] \in {"down"} \cup ShuttingDown => pc'[f] \in {"down"} \cup ShuttingDown
    BY <1>16, AbsentFacts DEF ShuttingDown
  <1>17. ASSUME CleanupUncommittedStart(f)
        PROVE  pc[f] \in {"down"} \cup ShuttingDown => pc'[f] \in {"down"} \cup ShuttingDown
    BY <1>17, UndoFacts DEF ShuttingDown
  <1>18. ASSUME NEW t \in Broadcasts, TerminalClose(f, t)
        PROVE  pc[f] \in {"down"} \cup ShuttingDown => pc'[f] \in {"down"} \cup ShuttingDown
    BY <1>18, TerminalCloseFacts DEF ShuttingDown
  <1>19. ASSUME ReconcileTerminal(f)
        PROVE  pc[f] \in {"down"} \cup ShuttingDown => pc'[f] \in {"down"} \cup ShuttingDown
    BY <1>19, ReconcileFacts DEF ShuttingDown
  <1>20. ASSUME ShutdownClose(f)
        PROVE  pc[f] \in {"down"} \cup ShuttingDown => pc'[f] \in {"down"} \cup ShuttingDown
    BY <1>20, ShutdownCloseFacts DEF ShuttingDown
  <1>21. ASSUME RetryRevoke(f)
        PROVE  pc[f] \in {"down"} \cup ShuttingDown => pc'[f] \in {"down"} \cup ShuttingDown
    BY <1>21, RetryFacts DEF ShuttingDown
  <1>22. ASSUME Crash(f)
        PROVE  pc[f] \in {"down"} \cup ShuttingDown => pc'[f] \in {"down"} \cup ShuttingDown
    BY <1>22, DownFacts DEF ShuttingDown
  <1>23. ASSUME Exit(f)
        PROVE  pc[f] \in {"down"} \cup ShuttingDown => pc'[f] \in {"down"} \cup ShuttingDown
    BY <1>23, DownFacts DEF ShuttingDown
  <1>24. ASSUME BeginShutdown(f)
        PROVE  pc[f] \in {"down"} \cup ShuttingDown => pc'[f] \in {"down"} \cup ShuttingDown
    BY <1>24, BeginFacts DEF ShuttingDown
  <1> QED
    BY <1>11, <1>12, <1>13, <1>14, <1>15, <1>16, <1>17, <1>18, <1>19, <1>20, <1>21, <1>22, <1>23,
       <1>24, ActsCases

\* The step of a start that registers generation g for broadcast b.
Issues(f, b, g) == ManagedStart(f) /\ b = Current(f).broadcast /\ g = issued + 1

\* A process uses a generation that it used, or issues it.
LEMMA OwnBackward ==
    ASSUME Inv, NEW f \in Fences, Acts(f), NEW b \in Broadcasts, NEW g \in Generations
    PROVE  Holds(f, b, g)' \/ <<b, g>> \in drained'[f]
           => Holds(f, b, g) \/ <<b, g>> \in drained[f] \/ Issues(f, b, g)
  <1>1. /\ 0 \notin Generations /\ g # 0
        /\ pc[f] \in Busy => Current(f).broadcast \in Broadcasts
    BY Basics DEF Inv
  <1>2. claims'[f] = claims[f] => Current(f)' = Current(f)
    BY SameCurrent
  <1>11. ASSUME Quiet(f)
        PROVE  Holds(f, b, g)' \/ <<b, g>> \in drained'[f]
               => Holds(f, b, g) \/ <<b, g>> \in drained[f] \/ Issues(f, b, g)
    BY <1>11, <1>1, <1>2, QuietFacts DEF QuietFrame, Holds, Carries
  <1>12. ASSUME ManagedStart(f)
        PROVE  Holds(f, b, g)' \/ <<b, g>> \in drained'[f]
               => Holds(f, b, g) \/ <<b, g>> \in drained[f] \/ Issues(f, b, g)
    BY <1>12, <1>1, <1>2, StartFacts DEF Holds, Carries, Issues
  <1>13. ASSUME StartInstalled(f)
        PROVE  Holds(f, b, g)' \/ <<b, g>> \in drained'[f]
               => Holds(f, b, g) \/ <<b, g>> \in drained[f] \/ Issues(f, b, g)
    BY <1>13, <1>1, <1>2, InstalledFacts DEF Holds, Carries
  <1>14. ASSUME StartAbandoned(f)
        PROVE  Holds(f, b, g)' \/ <<b, g>> \in drained'[f]
               => Holds(f, b, g) \/ <<b, g>> \in drained[f] \/ Issues(f, b, g)
    BY <1>14, <1>1, <1>2, AbandonedFacts DEF Released, Holds, Carries
  <1>15. ASSUME StopBroadcast(f)
        PROVE  Holds(f, b, g)' \/ <<b, g>> \in drained'[f]
               => Holds(f, b, g) \/ <<b, g>> \in drained[f] \/ Issues(f, b, g)
    BY <1>15, <1>1, <1>2, StopFacts DEF Released, Holds, Carries
  <1>16. ASSUME StopAbsent(f)
        PROVE  Holds(f, b, g)' \/ <<b, g>> \in drained'[f]
               => Holds(f, b, g) \/ <<b, g>> \in drained[f] \/ Issues(f, b, g)
    BY <1>16, <1>1, <1>2, AbsentFacts DEF Holds, Carries
  <1>17. ASSUME CleanupUncommittedStart(f)
        PROVE  Holds(f, b, g)' \/ <<b, g>> \in drained'[f]
               => Holds(f, b, g) \/ <<b, g>> \in drained[f] \/ Issues(f, b, g)
    <2>1. CASE pc' = pc /\ claims' = claims /\ held'[f] = active[f][Current(f).broadcast]
      BY <1>17, <1>1, <1>2, <2>1, UndoFacts DEF Released, Holds, Carries
    <2>2. CASE held'[f] = 0 /\ retrying' = retrying
      BY <1>17, <1>1, <2>2, UndoFacts DEF Holds, Carries
    <2> QED
      BY <1>17, <2>1, <2>2, UndoFacts
  <1>18. ASSUME NEW t \in Broadcasts, TerminalClose(f, t)
        PROVE  Holds(f, b, g)' \/ <<b, g>> \in drained'[f]
               => Holds(f, b, g) \/ <<b, g>> \in drained[f] \/ Issues(f, b, g)
    BY <1>18, <1>1, <1>2, TerminalCloseFacts DEF Released, Holds, Carries
  <1>19. ASSUME ReconcileTerminal(f)
        PROVE  Holds(f, b, g)' \/ <<b, g>> \in drained'[f]
               => Holds(f, b, g) \/ <<b, g>> \in drained[f] \/ Issues(f, b, g)
    BY <1>19, <1>1, <1>2, ReconcileFacts DEF Holds, Carries
  <1>20. ASSUME ShutdownClose(f)
        PROVE  Holds(f, b, g)' \/ <<b, g>> \in drained'[f]
               => Holds(f, b, g) \/ <<b, g>> \in drained[f] \/ Issues(f, b, g)
    <2>1. CASE UNCHANGED <<active, retrying, drained>>
      BY <1>20, <1>1, <1>2, <2>1, ShutdownCloseFacts DEF Holds, Carries, ShuttingDown
    <2>2. ASSUME NEW t \in Broadcasts, active[f][t] \in Generations, Released(f, t, active[f][t]),
                 \A c \in Broadcasts : active'[f][c] = IF c = t THEN 0 ELSE active[f][c],
                 \/ drained' = drained
                 \/ drained'[f] = drained[f] \cup {<<t, active[f][t]>>}
          PROVE  Holds(f, b, g)' \/ <<b, g>> \in drained'[f]
                 => Holds(f, b, g) \/ <<b, g>> \in drained[f] \/ Issues(f, b, g)
      <3>1. pc'[f] \in ShuttingDown
        BY <1>20, ShutdownCloseFacts
      <3> QED
        BY <1>1, <2>2, <3>1 DEF Released, Holds, Carries, ShuttingDown
    <2> QED
      BY <1>20, <2>1, <2>2, ShutdownCloseFacts
  <1>21. ASSUME RetryRevoke(f)
        PROVE  Holds(f, b, g)' \/ <<b, g>> \in drained'[f]
               => Holds(f, b, g) \/ <<b, g>> \in drained[f] \/ Issues(f, b, g)
    BY <1>21, <1>1, <1>2, RetryFacts DEF Holds, Carries
  <1>22. ASSUME Crash(f)
        PROVE  Holds(f, b, g)' \/ <<b, g>> \in drained'[f]
               => Holds(f, b, g) \/ <<b, g>> \in drained[f] \/ Issues(f, b, g)
    BY <1>22, <1>1, <1>2, DownFacts DEF Holds, Carries
  <1>23. ASSUME Exit(f)
        PROVE  Holds(f, b, g)' \/ <<b, g>> \in drained'[f]
               => Holds(f, b, g) \/ <<b, g>> \in drained[f] \/ Issues(f, b, g)
    BY <1>23, <1>1, <1>2, DownFacts DEF Holds, Carries
  <1>24. ASSUME BeginShutdown(f)
        PROVE  Holds(f, b, g)' \/ <<b, g>> \in drained'[f]
               => Holds(f, b, g) \/ <<b, g>> \in drained[f] \/ Issues(f, b, g)
    BY <1>24, <1>1, <1>2, BeginFacts DEF Holds, Carries
  <1> QED
    BY <1>11, <1>12, <1>13, <1>14, <1>15, <1>16, <1>17, <1>18, <1>19, <1>20, <1>21, <1>22, <1>23,
       <1>24, ActsCases

\* What a shutdown remembers as revoked is revoked.
LEMMA DrainedOwn ==
    ASSUME Inv, NEW f \in Fences, Acts(f), NEW b \in Broadcasts, NEW g \in Generations,
           <<b, g>> \in drained'[f]
    PROVE  <<b, g>> \in drained[f] \/ grant'[b] # g
  <1>11. ASSUME Quiet(f)
        PROVE  <<b, g>> \in drained[f] \/ grant'[b] # g
    BY <1>11, QuietFacts DEF QuietFrame
  <1>12. ASSUME ManagedStart(f)
        PROVE  <<b, g>> \in drained[f] \/ grant'[b] # g
    BY <1>12, StartFacts
  <1>13. ASSUME StartInstalled(f)
        PROVE  <<b, g>> \in drained[f] \/ grant'[b] # g
    BY <1>13, InstalledFacts
  <1>14. ASSUME StartAbandoned(f)
        PROVE  <<b, g>> \in drained[f] \/ grant'[b] # g
    BY <1>14, AbandonedFacts
  <1>15. ASSUME StopBroadcast(f)
        PROVE  <<b, g>> \in drained[f] \/ grant'[b] # g
    BY <1>15, StopFacts
  <1>16. ASSUME StopAbsent(f)
        PROVE  <<b, g>> \in drained[f] \/ grant'[b] # g
    BY <1>16, AbsentFacts
  <1>17. ASSUME CleanupUncommittedStart(f)
        PROVE  <<b, g>> \in drained[f] \/ grant'[b] # g
    BY <1>17, UndoFacts
  <1>18. ASSUME NEW t \in Broadcasts, TerminalClose(f, t)
        PROVE  <<b, g>> \in drained[f] \/ grant'[b] # g
    BY <1>18, TerminalCloseFacts
  <1>19. ASSUME ReconcileTerminal(f)
        PROVE  <<b, g>> \in drained[f] \/ grant'[b] # g
    BY <1>19, ReconcileFacts
  <1>20. ASSUME ShutdownClose(f)
        PROVE  <<b, g>> \in drained[f] \/ grant'[b] # g
    <2>1. ASSUME NEW t \in Broadcasts, grant'[t] # active[f][t],
                 drained'[f] = drained[f] \cup {<<t, active[f][t]>>}
          PROVE  <<b, g>> \in drained[f] \/ grant'[b] # g
      BY <2>1
    <2> QED
      BY <1>20, <2>1, ShutdownCloseFacts
  <1>21. ASSUME RetryRevoke(f)
        PROVE  <<b, g>> \in drained[f] \/ grant'[b] # g
    BY <1>21, RetryFacts
  <1>22. ASSUME Crash(f)
        PROVE  <<b, g>> \in drained[f] \/ grant'[b] # g
    BY <1>22, DownFacts
  <1>23. ASSUME Exit(f)
        PROVE  <<b, g>> \in drained[f] \/ grant'[b] # g
    BY <1>23, DownFacts
  <1>24. ASSUME BeginShutdown(f)
        PROVE  <<b, g>> \in drained[f] \/ grant'[b] # g
    BY <1>24, BeginFacts
  <1> QED
    BY <1>11, <1>12, <1>13, <1>14, <1>15, <1>16, <1>17, <1>18, <1>19, <1>20, <1>21, <1>22, <1>23,
       <1>24, ActsCases

\* A publication that goes while its grant is active leaves a retried lease.
LEMMA ActiveForward ==
    ASSUME Inv, NEW f \in Fences, Acts(f), NEW b \in Broadcasts, NEW g \in Generations,
           grant'[b] = g, active[f][b] = g
    PROVE  active'[f][b] = g \/ <<b, g>> \in retrying'[f] \/ Crash(f) \/ Exit(f)
  <1>1. 0 \notin Generations /\ g # 0
    BY Basics DEF Inv
  <1>11. ASSUME Quiet(f)
        PROVE  active'[f][b] = g \/ <<b, g>> \in retrying'[f] \/ Crash(f) \/ Exit(f)
    BY <1>11, <1>1, QuietFacts DEF QuietFrame
  <1>12. ASSUME ManagedStart(f)
        PROVE  active'[f][b] = g \/ <<b, g>> \in retrying'[f] \/ Crash(f) \/ Exit(f)
    BY <1>12, <1>1, StartFacts
  <1>13. ASSUME StartInstalled(f)
        PROVE  active'[f][b] = g \/ <<b, g>> \in retrying'[f] \/ Crash(f) \/ Exit(f)
    BY <1>13, <1>1, InstalledFacts
  <1>14. ASSUME StartAbandoned(f)
        PROVE  active'[f][b] = g \/ <<b, g>> \in retrying'[f] \/ Crash(f) \/ Exit(f)
    BY <1>14, <1>1, AbandonedFacts DEF Released
  <1>15. ASSUME StopBroadcast(f)
        PROVE  active'[f][b] = g \/ <<b, g>> \in retrying'[f] \/ Crash(f) \/ Exit(f)
    <2>1. CASE b # Current(f).broadcast
      BY <1>15, <2>1, StopFacts
    <2>2. CASE b = Current(f).broadcast
      <3>1. Released(f, b, g)
        BY <1>15, <2>2, StopFacts
      <3> QED
        BY <3>1 DEF Released
    <2> QED
      BY <2>1, <2>2
  <1>16. ASSUME StopAbsent(f)
        PROVE  active'[f][b] = g \/ <<b, g>> \in retrying'[f] \/ Crash(f) \/ Exit(f)
    BY <1>16, <1>1, AbsentFacts
  <1>17. ASSUME CleanupUncommittedStart(f)
        PROVE  active'[f][b] = g \/ <<b, g>> \in retrying'[f] \/ Crash(f) \/ Exit(f)
    <2>1. CASE b # Current(f).broadcast
      BY <1>17, <2>1, UndoFacts
    <2>2. CASE b = Current(f).broadcast
      <3>1. Released(f, b, g)
        BY <1>17, <1>1, <2>2, UndoFacts
      <3> QED
        BY <3>1 DEF Released
    <2> QED
      BY <2>1, <2>2
  <1>18. ASSUME NEW t \in Broadcasts, TerminalClose(f, t)
        PROVE  active'[f][b] = g \/ <<b, g>> \in retrying'[f] \/ Crash(f) \/ Exit(f)
    BY <1>18, <1>1, TerminalCloseFacts DEF Released
  <1>19. ASSUME ReconcileTerminal(f)
        PROVE  active'[f][b] = g \/ <<b, g>> \in retrying'[f] \/ Crash(f) \/ Exit(f)
    BY <1>19, <1>1, ReconcileFacts
  <1>20. ASSUME ShutdownClose(f)
        PROVE  active'[f][b] = g \/ <<b, g>> \in retrying'[f] \/ Crash(f) \/ Exit(f)
    <2>1. CASE UNCHANGED active
      BY <2>1
    <2>2. ASSUME NEW t \in Broadcasts, active[f][t] \in Generations, Released(f, t, active[f][t]),
                 \A c \in Broadcasts : active'[f][c] = IF c = t THEN 0 ELSE active[f][c]
          PROVE  active'[f][b] = g \/ <<b, g>> \in retrying'[f]
      <3>1. CASE b # t
        BY <2>2, <3>1
      <3>2. CASE b = t
        BY <2>2, <3>2 DEF Released
      <3> QED
        BY <3>1, <3>2
    <2> QED
      BY <1>20, <2>1, <2>2, ShutdownCloseFacts
  <1>21. ASSUME RetryRevoke(f)
        PROVE  active'[f][b] = g \/ <<b, g>> \in retrying'[f] \/ Crash(f) \/ Exit(f)
    BY <1>21, <1>1, RetryFacts
  <1>22. ASSUME Crash(f)
        PROVE  active'[f][b] = g \/ <<b, g>> \in retrying'[f] \/ Crash(f) \/ Exit(f)
    BY <1>22
  <1>23. ASSUME Exit(f)
        PROVE  active'[f][b] = g \/ <<b, g>> \in retrying'[f] \/ Crash(f) \/ Exit(f)
    BY <1>23
  <1>24. ASSUME BeginShutdown(f)
        PROVE  active'[f][b] = g \/ <<b, g>> \in retrying'[f] \/ Crash(f) \/ Exit(f)
    BY <1>24, <1>1, BeginFacts
  <1> QED
    BY <1>11, <1>12, <1>13, <1>14, <1>15, <1>16, <1>17, <1>18, <1>19, <1>20, <1>21, <1>22, <1>23,
       <1>24, ActsCases

\* A retried lease goes when its grant is revoked or lost.
LEMMA RetryingForward ==
    ASSUME Inv, NEW f \in Fences, Acts(f), NEW b \in Broadcasts, NEW g \in Generations,
           grant'[b] = g, <<b, g>> \in retrying[f]
    PROVE  <<b, g>> \in retrying'[f] \/ g \in lost' \/ Crash(f) \/ Exit(f)
  <1>1. 0 \notin Generations /\ g # 0
    BY Basics DEF Inv
  <1>11. ASSUME Quiet(f)
        PROVE  <<b, g>> \in retrying'[f] \/ g \in lost' \/ Crash(f) \/ Exit(f)
    BY <1>11, <1>1, QuietFacts DEF QuietFrame
  <1>12. ASSUME ManagedStart(f)
        PROVE  <<b, g>> \in retrying'[f] \/ g \in lost' \/ Crash(f) \/ Exit(f)
    BY <1>12, <1>1, StartFacts
  <1>13. ASSUME StartInstalled(f)
        PROVE  <<b, g>> \in retrying'[f] \/ g \in lost' \/ Crash(f) \/ Exit(f)
    BY <1>13, <1>1, InstalledFacts
  <1>14. ASSUME StartAbandoned(f)
        PROVE  <<b, g>> \in retrying'[f] \/ g \in lost' \/ Crash(f) \/ Exit(f)
    BY <1>14, <1>1, AbandonedFacts DEF Released
  <1>15. ASSUME StopBroadcast(f)
        PROVE  <<b, g>> \in retrying'[f] \/ g \in lost' \/ Crash(f) \/ Exit(f)
    BY <1>15, <1>1, StopFacts DEF Released
  <1>16. ASSUME StopAbsent(f)
        PROVE  <<b, g>> \in retrying'[f] \/ g \in lost' \/ Crash(f) \/ Exit(f)
    BY <1>16, <1>1, AbsentFacts
  <1>17. ASSUME CleanupUncommittedStart(f)
        PROVE  <<b, g>> \in retrying'[f] \/ g \in lost' \/ Crash(f) \/ Exit(f)
    BY <1>17, <1>1, UndoFacts DEF Released
  <1>18. ASSUME NEW t \in Broadcasts, TerminalClose(f, t)
        PROVE  <<b, g>> \in retrying'[f] \/ g \in lost' \/ Crash(f) \/ Exit(f)
    BY <1>18, <1>1, TerminalCloseFacts DEF Released
  <1>19. ASSUME ReconcileTerminal(f)
        PROVE  <<b, g>> \in retrying'[f] \/ g \in lost' \/ Crash(f) \/ Exit(f)
    BY <1>19, <1>1, ReconcileFacts
  <1>20. ASSUME ShutdownClose(f)
        PROVE  <<b, g>> \in retrying'[f] \/ g \in lost' \/ Crash(f) \/ Exit(f)
    BY <1>20, <1>1, ShutdownCloseFacts DEF Released
  <1>21. ASSUME RetryRevoke(f)
        PROVE  <<b, g>> \in retrying'[f] \/ g \in lost' \/ Crash(f) \/ Exit(f)
    BY <1>21, <1>1, RetryFacts
  <1>22. ASSUME Crash(f)
        PROVE  <<b, g>> \in retrying'[f] \/ g \in lost' \/ Crash(f) \/ Exit(f)
    BY <1>22
  <1>23. ASSUME Exit(f)
        PROVE  <<b, g>> \in retrying'[f] \/ g \in lost' \/ Crash(f) \/ Exit(f)
    BY <1>23
  <1>24. ASSUME BeginShutdown(f)
        PROVE  <<b, g>> \in retrying'[f] \/ g \in lost' \/ Crash(f) \/ Exit(f)
    BY <1>24, <1>1, BeginFacts
  <1> QED
    BY <1>11, <1>12, <1>13, <1>14, <1>15, <1>16, <1>17, <1>18, <1>19, <1>20, <1>21, <1>22, <1>23,
       <1>24, ActsCases

\* A start hands its grant on.
LEMMA CarriesForward ==
    ASSUME Inv, NEW f \in Fences, Acts(f), NEW b \in Broadcasts, NEW g \in Generations,
           grant'[b] = g, Carries(f, b, g)
    PROVE  Holds(f, b, g)' \/ g \in lost' \/ Crash(f) \/ Exit(f)
  <1>1. /\ 0 \notin Generations /\ g # 0
        /\ pc[f] \in {"installed", "undoing"} /\ Current(f).broadcast = b /\ held[f] = g
    BY Basics DEF Inv, Carries
  <1>2. claims'[f] = claims[f] => Current(f)' = Current(f)
    BY SameCurrent
  <1>11. ASSUME Quiet(f)
        PROVE  Holds(f, b, g)' \/ g \in lost' \/ Crash(f) \/ Exit(f)
    BY <1>11, <1>1, <1>2, QuietFacts DEF QuietFrame, Holds, Carries
  <1>12. ASSUME ManagedStart(f)
        PROVE  Holds(f, b, g)' \/ g \in lost' \/ Crash(f) \/ Exit(f)
    BY <1>12, <1>1, <1>2, StartFacts DEF Holds, Carries
  <1>13. ASSUME StartInstalled(f)
        PROVE  Holds(f, b, g)' \/ g \in lost' \/ Crash(f) \/ Exit(f)
    BY <1>13, <1>1, <1>2, InstalledFacts DEF Holds, Carries
  <1>14. ASSUME StartAbandoned(f)
        PROVE  Holds(f, b, g)' \/ g \in lost' \/ Crash(f) \/ Exit(f)
    BY <1>14, <1>1, <1>2, AbandonedFacts DEF Released, Holds, Carries
  <1>15. ASSUME StopBroadcast(f)
        PROVE  Holds(f, b, g)' \/ g \in lost' \/ Crash(f) \/ Exit(f)
    BY <1>15, <1>1, <1>2, StopFacts DEF Released, Holds, Carries
  <1>16. ASSUME StopAbsent(f)
        PROVE  Holds(f, b, g)' \/ g \in lost' \/ Crash(f) \/ Exit(f)
    BY <1>16, <1>1, <1>2, AbsentFacts DEF Holds, Carries
  <1>17. ASSUME CleanupUncommittedStart(f)
        PROVE  Holds(f, b, g)' \/ g \in lost' \/ Crash(f) \/ Exit(f)
    BY <1>17, <1>1, <1>2, UndoFacts DEF Released, Holds, Carries
  <1>18. ASSUME NEW t \in Broadcasts, TerminalClose(f, t)
        PROVE  Holds(f, b, g)' \/ g \in lost' \/ Crash(f) \/ Exit(f)
    BY <1>18, <1>1, <1>2, TerminalCloseFacts DEF Released, Holds, Carries
  <1>19. ASSUME ReconcileTerminal(f)
        PROVE  Holds(f, b, g)' \/ g \in lost' \/ Crash(f) \/ Exit(f)
    BY <1>19, <1>1, <1>2, ReconcileFacts DEF Holds, Carries
  <1>20. ASSUME ShutdownClose(f)
        PROVE  Holds(f, b, g)' \/ g \in lost' \/ Crash(f) \/ Exit(f)
    BY <1>20, <1>1, <1>2, ShutdownCloseFacts DEF Released, Holds, Carries
  <1>21. ASSUME RetryRevoke(f)
        PROVE  Holds(f, b, g)' \/ g \in lost' \/ Crash(f) \/ Exit(f)
    BY <1>21, <1>1, <1>2, RetryFacts DEF Holds, Carries
  <1>22. ASSUME Crash(f)
        PROVE  Holds(f, b, g)' \/ g \in lost' \/ Crash(f) \/ Exit(f)
    BY <1>22
  <1>23. ASSUME Exit(f)
        PROVE  Holds(f, b, g)' \/ g \in lost' \/ Crash(f) \/ Exit(f)
    BY <1>23
  <1>24. ASSUME BeginShutdown(f)
        PROVE  Holds(f, b, g)' \/ g \in lost' \/ Crash(f) \/ Exit(f)
    BY <1>24, <1>1, <1>2, BeginFacts DEF Holds, Carries
  <1> QED
    BY <1>11, <1>12, <1>13, <1>14, <1>15, <1>16, <1>17, <1>18, <1>19, <1>20, <1>21, <1>22, <1>23,
       <1>24, ActsCases

\* A recorded generation is replaced by a completion or forgotten by a cleanup.
LEMMA RuntimeCases ==
    ASSUME Inv, [Next]_vars, NEW b \in Broadcasts,
           record[b].runtime # 0, record'[b].runtime # record[b].runtime
    PROVE  \E f \in Fences :
             Settling(f, b) \/ CleanStaleRow(f) \/ ReconcileTerminal(f) \/ FinalizeDrained(f)
  <1>1. RecordType /\ CommandsType /\ ExecutorType /\ CommandsInv
    BY Basics DEF Inv
  <1>2. record[b].fence # 0
    BY DEF Inv, RecordedInv
  <1>3. ASSUME NEW c \in Broadcasts, EnqueueStart(c)
        PROVE  FALSE
    <2>1. record[c].fence = 0
      BY <1>1, <1>3 DEF EnqueueStart, CommandsInv
    <2> QED
      BY <1>1, <1>2, <1>3, <2>1, EnqueueStartFacts
  <1>4. ASSUME NEW c \in Broadcasts, EnqueueStop(c)
        PROVE  FALSE
    <2>1. \/ record' = [record EXCEPT ![c].state = "deleting"]
          \/ record' = [record EXCEPT ![c].state = "deleted"]
      BY <1>4 DEF EnqueueStop, DeleteFailed, DeleteOpen
    <2> QED
      BY <1>1, <2>1 DEF RecordType, Row
  <1>5. ASSUME NEW f \in Fences, FailStaleWorkerBroadcasts(f) \/ FailWorkerBroadcasts(f)
        PROVE  FALSE
    <2>1. "stale" \in Code /\ "drained" \in Code
      BY DEF Code
    <2>2. CASE FailOpen(Fences \ {f}, "stale")
      BY <1>1, <2>1, <2>2, FailOpenFacts
    <2>3. CASE FailOpen({f}, "drained")
      BY <1>1, <2>1, <2>3, FailOpenFacts
    <2> QED
      BY <1>5, <2>2, <2>3 DEF FailStaleWorkerBroadcasts, FailWorkerBroadcasts, durable
  <1>6. ASSUME NEW f \in Fences, CompleteAnswered(f) \/ CompleteAmbiguous(f)
        PROVE  Settling(f, b)
    <2>1. pc[f] = "completing" /\ pc[f] \in Busy /\ Complete(Current(f), result[f])
      BY <1>6 DEF CompleteAnswered, CompleteAmbiguous, Busy, durable
    <2>2. b = Current(f).broadcast
      BY <2>1, CompletionFacts
    <2> QED
      BY <1>6, <2>1, <2>2 DEF Settling
  <1>7. record' # record
    OBVIOUS
  <1> QED
    BY <1>3, <1>4, <1>5, <1>6, <1>7, Writers, Zenon

\* A completion records what runs, and replaces a generation only by a stop.
LEMMA SettlingFacts ==
    ASSUME Inv, NEW f \in Fences, NEW b \in Broadcasts, Settling(f, b)
    PROVE  /\ record[b].fence = f /\ record'[b].runtime = result[f].runtime
           /\ result[f].runtime # 0 => active[f][b] = result[f].runtime
           /\ record[b].runtime # 0 => active[f][b] = 0
           /\ Quiet(f)
  <1>1. /\ pc[f] = "completing" /\ pc[f] \in Busy /\ Current(f).broadcast = b
        /\ Complete(Current(f), result[f]) /\ Quiet(f)
    BY DEF Settling, Busy, Quiet
  <1>2. /\ record[b].fence = f /\ record'[b].runtime = result[f].runtime
        /\ Current(f).id \in DOMAIN commands
        /\ commands[Current(f).id].state = "claimed"
        /\ commands[Current(f).id].broadcast = b
        /\ commands[Current(f).id].kind = Current(f).kind
    BY <1>1, CompletionFacts
  <1>3. result[f].runtime # 0 => active[f][b] = result[f].runtime
    BY <1>1 DEF Inv, ResultInv, ResultAt
  <1>4. ASSUME record[b].runtime # 0
        PROVE  active[f][b] = 0
    <2>1. Current(f).kind # "start"
      BY <1>2, <1>4 DEF Inv, RecordedInv
    <2>2. Current(f).kind = "stop"
      BY <1>1, <2>1, Basics DEF Inv
    <2> QED
      BY <1>1, <2>2 DEF Inv, ResultInv, ResultAt
  <1> QED
    BY <1>1, <1>2, <1>3, <1>4

\* A recorded generation whose grant is active stays recorded, held or lost.
LEMMA RecordForward ==
    ASSUME Inv, [Next]_vars, NEW b \in Broadcasts, NEW g \in Generations,
           record[b].runtime = g, grant'[b] = g
    PROVE  Accounted(b, g)'
  <1>1. /\ RecordType /\ RunningType /\ ExecutorType /\ StoreType
        /\ 0 \notin Generations /\ g # 0
    BY Basics DEF Inv
  <1>2. CASE record'[b].runtime = g
    BY <1>2 DEF Accounted
  <1>3. ASSUME NEW f \in Fences, Settling(f, b)
        PROVE  Accounted(b, g)'
    <2>1. record[b].fence = f /\ active[f][b] = 0 /\ pc[f] = "completing" /\ Quiet(f)
      BY <1>1, <1>3, SettlingFacts DEF Settling
    <2>2. QuietFrame(f)
      BY <2>1, QuietFacts
    <2>3. grant[b] = g /\ retrying'[f] = retrying[f] /\ lost' = lost
      BY <1>1, <2>2 DEF QuietFrame
    <2>4. RevokedAt(f, b)
      BY DEF Inv, RevokedInv
    <2>5. <<b, g>> \in retrying[f] \/ g \in lost
      BY <1>1, <2>1, <2>3, <2>4 DEF RevokedAt, ShuttingDown
    <2> QED
      BY <2>3, <2>5 DEF Accounted, Holds
  <1>4. ASSUME NEW f \in Fences, CleanStaleRow(f), record'[b].runtime # g
        PROVE  Accounted(b, g)'
    <2>1. PICK r \in stale[f] :
            \/ record' = record
            \/ /\ Revoke(r, grant[r])
               /\ record' = FinalizeFailedCleanup(r, record[r].fence, record[r].runtime)
      BY <1>4 DEF CleanStaleRow
    <2>2. r \in Broadcasts
      BY <1>1 DEF ExecutorType
    <2>3. r = b /\ Revoke(b, grant[b])
      BY <1>1, <1>4, <2>1, <2>2, FinalizeFacts
    <2>4. grant'[b] = 0
      BY <1>1, <2>3 DEF Revoke, StoreType
    <2> QED
      BY <1>1, <2>4
  <1>5. ASSUME NEW f \in Fences, ReconcileTerminal(f), record'[b].runtime # g
        PROVE  Accounted(b, g)'
    BY <1>5, ReconcileFacts
  <1>6. ASSUME NEW f \in Fences, FinalizeDrained(f), record'[b].runtime # g
        PROVE  Accounted(b, g)'
    <2>1. PICK r \in drained[f] : record' = record \/ record' = FinalizeFailedCleanup(r[1], f, r[2])
      BY <1>6 DEF FinalizeDrained
    <2>2. PICK c \in Broadcasts, h \in Generations : r = <<c, h>>
      BY <1>1 DEF RunningType
    <2>3. record' = FinalizeFailedCleanup(c, f, h)
      BY <1>6, <2>1, <2>2
    <2>4. c = b /\ h = g
      BY <1>1, <1>6, <2>3, FinalizeFacts
    <2>5. grant[b] # g
      BY <2>2, <2>4 DEF Inv, RevokedInv, DrainedAt
    <2>6. grant' = grant
      BY <1>6 DEF FinalizeDrained, store
    <2> QED
      BY <2>5, <2>6
  <1> QED
    BY <1>1, <1>2, <1>3, <1>4, <1>5, <1>6, RuntimeCases

\* Every active grant stays accounted for.
LEMMA GrantStep ==
    ASSUME Inv, [Next]_vars
    PROVE  GrantInv'
  <1>1. /\ StoreType /\ TypeOK /\ 0 \notin Generations
    BY Basics DEF Inv
  <1>2. StoreType'
    BY StoreTypeStep DEF Inv
  <1>3. SUFFICES ASSUME NEW b \in Broadcasts, NEW g \in Generations, grant'[b] = g
                 PROVE  Accounted(b, g)'
    BY <1>2 DEF GrantInv, StoreType
  <1>4. g # 0
    BY <1>1
  <1>5. ASSUME NEW f \in Fences, Acts(f)
        PROVE  Accounted(b, g)'
    <2>1. CASE grant[b] = g
      <3>1. Accounted(b, g)
        BY <1>4, <2>1 DEF Inv, GrantInv
      <3>2. CASE record[b].runtime = g
        BY <1>3, <3>2, RecordForward
      <3>3. CASE g \in lost
        BY <1>5, <3>3, LostKept DEF Accounted
      <3>4. ASSUME NEW e \in Fences, Holds(e, b, g), e # f
            PROVE  Accounted(b, g)'
        <4>1. Same(e)
          BY <1>1, <1>5, <3>4, OthersKept DEF Acts
        <4>2. Current(e)' = Current(e)
          BY <4>1, SameCurrent DEF Same
        <4> QED
          BY <3>4, <4>1, <4>2 DEF Same, Accounted, Holds, Carries
      <3>5. ASSUME Holds(f, b, g)
            PROVE  Accounted(b, g)'
        <4>1. CASE Crash(f) \/ Exit(f)
          <5>1. UNCHANGED record /\ (g \in lost' \/ Recorded(g))
            BY <3>5, <4>1, DownFacts
          <5>2. ASSUME NEW c \in Broadcasts, record[c].runtime = g
                PROVE  c = b
            <6>1. Uses(c, g) /\ Uses(b, g)
              BY <3>5, <5>2 DEF Uses
            <6> QED
              BY <6>1 DEF Inv, UniqueInv
          <5> QED
            BY <5>1, <5>2 DEF Recorded, Accounted
        <4>2. CASE active[f][b] = g /\ ~(Crash(f) \/ Exit(f))
          BY <1>3, <1>5, <4>2, ActiveForward DEF Accounted, Holds
        <4>3. CASE <<b, g>> \in retrying[f] /\ ~(Crash(f) \/ Exit(f))
          BY <1>3, <1>5, <4>3, RetryingForward DEF Accounted, Holds
        <4>4. CASE Carries(f, b, g) /\ ~(Crash(f) \/ Exit(f))
          BY <1>3, <1>5, <4>4, CarriesForward DEF Accounted
        <4> QED
          BY <3>5, <4>1, <4>2, <4>3, <4>4 DEF Holds
      <3> QED
        BY <3>1, <3>2, <3>3, <3>4, <3>5 DEF Accounted
    <2>2. CASE ManagedStart(f) /\ grant[b] # g
      <3>1. b = Current(f).broadcast /\ g = issued + 1
        BY <1>3, <2>2, StartFacts
      <3>2. Current(f)' = Current(f)
        BY <2>2, StartFacts, SameCurrent
      <3> QED
        BY <2>2, <3>1, <3>2, StartFacts DEF Accounted, Holds, Carries
    <2> QED
      BY <1>3, <1>4, <1>5, <2>1, <2>2, StoreStep
  <1>6. CASE UNCHANGED <<claims, pc, held, active, retrying, lost>> /\ grant'[b] \in {grant[b], 0}
    <2>1. \A e \in Fences : Current(e)' = Current(e)
      BY <1>6, SameCurrent
    <2>2. Accounted(b, g)
      BY <1>3, <1>4, <1>6 DEF Inv, GrantInv
    <2>3. CASE record[b].runtime = g
      BY <1>3, <2>3, RecordForward
    <2> QED
      BY <1>6, <2>1, <2>2, <2>3 DEF Accounted, Holds, Carries
  <1>7. ASSUME NEW c \in Broadcasts, GrantExpires(c)
        PROVE  grant'[b] \in {grant[b], 0}
    BY <1>1, <1>7 DEF GrantExpires, StoreType
  <1>8. CASE Register
    <2>1. UNCHANGED <<claims, record, grant, held, active, retrying, lost>>
      BY <1>8 DEF Register, durable, store
    <2>2. \A e \in Fences : Current(e)' = Current(e)
      BY <2>1, SameCurrent
    <2>3. \A e \in Fences : pc[e] \in {"installed", "undoing"} => pc'[e] = pc[e]
      <3>1. fence + 1 \in Fences
        BY <1>1, <1>8, BoundsAreNat DEF Register, Fences, TypeOK
      <3>2. pc[fence + 1] = "down"
        BY <1>1, <3>1, BoundsAreNat DEF Inv, ProcessInv, TypeOK
      <3> QED
        BY <1>1, <1>8, <3>1, <3>2 DEF Register, TypeOK
    <2>4. Accounted(b, g)
      BY <1>3, <1>4, <2>1 DEF Inv, GrantInv
    <2> QED
      BY <2>1, <2>2, <2>3, <2>4 DEF Accounted, Holds, Carries
  <1> QED
    BY <1>5, <1>6, <1>7, <1>8, NextCases DEF process

\* A registration starts a process that was down and changes nothing else.
LEMMA RegisterFacts ==
    ASSUME Inv, Register
    PROVE  /\ UNCHANGED <<record, commands, grant, issued, claims, held, result, active, authority,
                          retrying, drained, lost, committed>>
           /\ \A e \in Fences :
                pc'[e] = pc[e] \/ (e > fence /\ pc[e] = "down" /\ pc'[e] = "recovering")
  <1>1. TypeOK
    BY DEF Inv
  <1>2. fence + 1 \in Fences /\ fence + 1 > fence
    BY <1>1, BoundsAreNat DEF Register, Fences, TypeOK
  <1>3. pc[fence + 1] = "down"
    BY <1>1, <1>2 DEF Inv, ProcessInv
  <1>4. \A e \in Fences :
          pc'[e] = pc[e] \/ (e > fence /\ pc[e] = "down" /\ pc'[e] = "recovering")
    BY <1>1, <1>2, <1>3 DEF Register, TypeOK
  <1> QED
    BY <1>4 DEF Register, durable, store

\* What is not a process's own step leaves every process as it was.
LEMMA FrameCases ==
    ASSUME Inv, [Next]_vars
    PROVE  \/ \E f \in Fences : Acts(f)
           \/ Register
           \/ /\ UNCHANGED <<pc, claims, held, result, active, authority, retrying, drained>>
              /\ UNCHANGED <<issued, lost>> /\ \A b \in Broadcasts : grant'[b] \in {grant[b], 0}
  <1>1. StoreType
    BY Basics DEF Inv
  <1>2. ASSUME NEW c \in Broadcasts, GrantExpires(c)
        PROVE  \A b \in Broadcasts : grant'[b] \in {grant[b], 0}
    BY <1>1, <1>2 DEF GrantExpires, StoreType
  <1> QED
    BY <1>2, NextCases DEF process

\* A generation that is used was used, or is being issued.
LEMMA UsesBackward ==
    ASSUME Inv, [Next]_vars, NEW b \in Broadcasts, NEW g \in Generations, Uses(b, g)'
    PROVE  Uses(b, g) \/ \E f \in Fences : Issues(f, b, g)
  <1>1. TypeOK /\ 0 \notin Generations /\ g # 0
    BY Basics DEF Inv
  <1>2. ASSUME record'[b].runtime = g
        PROVE  Uses(b, g)
    <2>1. ASSUME NEW f \in Fences, Settling(f, b)
          PROVE  Uses(b, g)
      BY <1>1, <1>2, <2>1, SettlingFacts DEF Uses, Holds
    <2> QED
      BY <1>1, <1>2, <2>1, DurableStep DEF RuntimeKept, Uses
  <1>3. ASSUME NEW f \in Fences, Acts(f)
        PROVE  Uses(b, g) \/ Issues(f, b, g)
    <2>1. CASE grant'[b] = g
      <3>1. CASE ManagedStart(f)
        BY <2>1, <3>1, StartFacts DEF Uses, Issues
      <3>2. CASE grant'[b] \in {grant[b], 0}
        BY <1>1, <2>1, <3>2 DEF Uses
      <3> QED
        BY <1>3, <3>1, <3>2, StoreStep
    <2>2. ASSUME NEW e \in Fences, e # f, Holds(e, b, g)' \/ <<b, g>> \in drained'[e]
          PROVE  Uses(b, g)
      <3>1. Same(e)
        BY <1>1, <1>3, <2>2, OthersKept DEF Acts
      <3>2. Current(e)' = Current(e)
        BY <3>1, SameCurrent DEF Same
      <3> QED
        BY <2>2, <3>1, <3>2 DEF Same, Uses, Holds, Carries
    <2>3. ASSUME Holds(f, b, g)' \/ <<b, g>> \in drained'[f]
          PROVE  Uses(b, g) \/ Issues(f, b, g)
      BY <1>3, <2>3, OwnBackward DEF Uses
    <2>4. \/ grant'[b] = g \/ record'[b].runtime = g
          \/ \E e \in Fences : Holds(e, b, g)' \/ <<b, g>> \in drained'[e]
      BY DEF Uses
    <2> QED
      BY <1>2, <2>1, <2>2, <2>3, <2>4
  <1>4. ASSUME \A c \in Broadcasts : grant'[c] \in {grant[c], 0},
               UNCHANGED <<claims, held, active, retrying, drained>>,
               \A e \in Fences : pc'[e] \in {"installed", "undoing"} => pc'[e] = pc[e]
        PROVE  Uses(b, g)
    <2>1. \A e \in Fences : Current(e)' = Current(e)
      BY <1>4, SameCurrent
    <2>2. CASE record'[b].runtime # g
      BY <1>1, <1>4, <2>1, <2>2 DEF Uses, Holds, Carries
    <2> QED
      BY <1>2, <2>2
  <1> QED
    BY <1>3, <1>4, FrameCases, RegisterFacts

\* Generations stay issued, each to one broadcast.
LEMMA UniqueStep ==
    ASSUME Inv, [Next]_vars
    PROVE  UniqueInv'
  <1>1. /\ StoreType /\ 0 \notin Generations /\ Generations \subseteq Nat /\ UniqueInv
    BY Basics DEF Inv
  <1>2. issued \in Nat
    BY <1>1 DEF StoreType
  <1>3. ASSUME NEW f \in Fences, NEW b \in Broadcasts, NEW g \in Generations, Issues(f, b, g)
        PROVE  issued' = issued + 1 /\ grant'[b] = g /\ g = issued + 1 /\ grant[b] = 0
    BY <1>3, StartFacts DEF Issues
  <1>4. issued' = issued \/ issued' = issued + 1
    BY FrameCases, StoreStep, StartFacts, RegisterFacts
  <1>5. \A b \in Broadcasts, g \in Generations : Uses(b, g) => g <= issued
    BY <1>1 DEF UniqueInv
  <1>6. ASSUME NEW b \in Broadcasts, NEW g \in Generations, Uses(b, g)'
        PROVE  g <= issued'
    <2>1. g \in Nat
      BY <1>1
    <2> QED
      BY <1>2, <1>3, <1>4, <1>5, <1>6, <2>1, UsesBackward
  <1>7. ASSUME NEW b \in Broadcasts, NEW c \in Broadcasts, NEW g \in Generations,
               Uses(b, g)', Uses(c, g)'
        PROVE  b = c
    <2>1. g \in Nat /\ g # 0
      BY <1>1
    <2>2. CASE Uses(b, g) /\ Uses(c, g)
      BY <1>1, <2>2 DEF UniqueInv
    <2>3. ASSUME NEW f \in Fences, Issues(f, b, g) \/ Issues(f, c, g)
          PROVE  g = issued + 1 /\ ~Uses(b, g) /\ ~Uses(c, g)
      <3>1. g = issued + 1
        BY <1>3, <2>3
      <3>2. ~(g <= issued)
        BY <1>2, <3>1
      <3> QED
        BY <1>5, <3>1, <3>2
    <2>4. ASSUME NEW f \in Fences, Issues(f, b, g), NEW e \in Fences, Issues(e, c, g), b # c
          PROVE  FALSE
      <3>1. grant'[b] = g /\ grant[b] = 0
        BY <1>3, <2>4
      <3>2. grant'[b] = grant[b]
        BY <2>4, StartFacts DEF Issues
      <3> QED
        BY <2>1, <3>1, <3>2
    <2> QED
      BY <1>7, <2>2, <2>3, <2>4, UsesBackward
  <1> QED
    BY <1>6, <1>7 DEF UniqueInv

\* What no longer runs stays revoked, retried or lost.
LEMMA RevokedStep ==
    ASSUME Inv, [Next]_vars
    PROVE  RevokedInv'
  <1>1. /\ TypeOK /\ StoreType /\ RecordType /\ 0 \notin Generations /\ Generations \subseteq Nat
        /\ UniqueInv /\ issued \in Nat
    BY Basics DEF Inv, StoreType
  <1>2. RecordType' /\ RunningType'
    BY DurableTypeStep, RunningTypeStep DEF Inv
  <1>3. ASSUME NEW b \in Broadcasts, NEW g \in Generations, Uses(b, g), grant'[b] = g
        PROVE  grant[b] = g
    <2>1. g <= issued /\ g # 0 /\ g # issued + 1
      BY <1>1, <1>3 DEF UniqueInv
    <2> QED
      BY <1>3, <2>1, FrameCases, StoreStep, StartFacts, RegisterFacts
  <1>4. ASSUME NEW e \in Fences, NEW b \in Broadcasts, NEW g \in Generations,
               record'[b].fence = e, record'[b].runtime = g, active'[e][b] # g, grant'[b] = g,
               pc'[e] \notin {"down"} \cup ShuttingDown
        PROVE  <<b, g>> \in retrying'[e] \/ g \in lost'
    <2>1. ASSUME NEW f \in Fences, Settling(f, b)
          PROVE  FALSE
      <3>1. record[b].fence = f /\ g = result[f].runtime /\ active[f][b] = g /\ Quiet(f)
        BY <1>1, <1>4, <2>1, SettlingFacts
      <3>2. active'[f][b] = g
        BY <3>1, QuietFacts DEF QuietFrame
      <3>3. f # 0
        BY DEF Fences
      <3>4. f = e
        BY <1>4, <3>1, <3>3, DurableStep DEF OwnerKept
      <3> QED
        BY <1>4, <3>2, <3>4
    <2>2. record[b].runtime = g
      BY <1>1, <1>4, <2>1, DurableStep DEF RuntimeKept
    <2>3. record[b].fence # 0
      BY <1>1, <2>2 DEF Inv, RecordedInv
    <2>4. record[b].fence = e
      BY <1>4, <2>3, DurableStep DEF OwnerKept
    <2>5. grant[b] = g
      BY <1>3, <1>4, <2>2 DEF Uses
    <2>6. pc[e] \notin {"down"} \cup ShuttingDown /\ active[e][b] # g
            => <<b, g>> \in retrying[e] \/ g \in lost
      BY <1>1, <2>2, <2>4, <2>5 DEF Inv, RevokedInv, RevokedAt
    <2>7. ASSUME Acts(e)
          PROVE  <<b, g>> \in retrying'[e] \/ g \in lost'
      <3>1. pc[e] \notin {"down"} \cup ShuttingDown
        BY <1>4, <2>7, DownStays
      <3>2. ~(Crash(e) \/ Exit(e))
        BY <1>4, DownFacts
      <3>3. active[e][b] = g \/ <<b, g>> \in retrying[e] \/ g \in lost
        BY <2>6, <3>1
      <3>4. CASE active[e][b] = g
        BY <1>4, <2>7, <3>2, <3>4, ActiveForward
      <3>5. CASE <<b, g>> \in retrying[e]
        BY <1>4, <2>7, <3>2, <3>5, RetryingForward
      <3>6. CASE g \in lost
        BY <2>7, <3>6, LostKept
      <3> QED
        BY <3>3, <3>4, <3>5, <3>6
    <2>8. ASSUME pc'[e] = pc[e], active'[e] = active[e], retrying'[e] = retrying[e],
                 lost \subseteq lost'
          PROVE  <<b, g>> \in retrying'[e] \/ g \in lost'
      BY <1>4, <2>6, <2>8
    <2>9. ASSUME NEW f \in Fences, Acts(f), e # f
          PROVE  <<b, g>> \in retrying'[e] \/ g \in lost'
      <3>1. Same(e)
        BY <1>1, <2>9, OthersKept DEF Acts
      <3>2. lost \subseteq lost'
        BY <2>9, LostKept
      <3> QED
        BY <2>8, <3>1, <3>2 DEF Same
    <2>10. CASE Register
      <3>1. record[b].fence \in Nat /\ fence \in Nat /\ record[b].fence <= fence
        BY <1>1, BoundsAreNat DEF Inv, CommandsInv, TypeOK, Row
      <3>2. ~(e > fence)
        BY <2>4, <3>1
      <3> QED
        BY <2>8, <2>10, <3>2, RegisterFacts
    <2> QED
      BY <2>7, <2>8, <2>9, <2>10, FrameCases
  <1>5. ASSUME NEW e \in Fences, NEW b \in Broadcasts
        PROVE  RevokedAt(e, b)'
    <2>1. record'[b].runtime \in Generations \cup {0}
      BY <1>2 DEF RecordType, Row
    <2> QED
      BY <1>4, <2>1 DEF RevokedAt, ShuttingDown
  <1>6. ASSUME NEW e \in Fences, NEW b \in Broadcasts, NEW g \in Generations,
               <<b, g>> \in drained'[e]
        PROVE  grant'[b] # g
    <2>1. ASSUME <<b, g>> \in drained[e]
          PROVE  grant'[b] # g
      <3>1. Uses(b, g) /\ grant[b] # g
        BY <2>1 DEF Uses, Inv, RevokedInv, DrainedAt
      <3> QED
        BY <1>3, <3>1
    <2>2. ASSUME Acts(e)
          PROVE  grant'[b] # g
      BY <1>6, <2>1, <2>2, DrainedOwn
    <2>3. ASSUME NEW f \in Fences, Acts(f), e # f
          PROVE  grant'[b] # g
      BY <1>1, <1>6, <2>1, <2>3, OthersKept DEF Acts, Same
    <2> QED
      BY <1>6, <2>1, <2>2, <2>3, FrameCases, RegisterFacts
  <1> QED
    BY <1>5, <1>6 DEF RevokedInv, DrainedAt

\* What an executor relies on about the grant it holds, after its own step.
LEMMA HeldOwn ==
    ASSUME Inv, NEW f \in Fences, Acts(f)
    PROVE  HeldAt(f)'
  <1>1. /\ 0 \notin Generations /\ UniqueInv /\ ExecutorType /\ HeldAt(f)
        /\ pc[f] \in Busy => Current(f).broadcast \in Broadcasts
    BY Basics DEF Inv, HeldInv
  <1>2. claims'[f] = claims[f] => Current(f)' = Current(f)
    BY SameCurrent
  <1>11. ASSUME Quiet(f)
        PROVE  HeldAt(f)'
    BY <1>11, <1>1, <1>2, QuietFacts DEF QuietFrame, HeldAt
  <1>12. ASSUME ManagedStart(f)
        PROVE  HeldAt(f)'
    BY <1>12, <1>1, <1>2, StartFacts DEF HeldAt
  <1>13. ASSUME StartInstalled(f)
        PROVE  HeldAt(f)'
    BY <1>13, <1>1, <1>2, InstalledFacts DEF HeldAt
  <1>14. ASSUME StartAbandoned(f)
        PROVE  HeldAt(f)'
    BY <1>14, <1>1, <1>2, AbandonedFacts DEF Released, HeldAt
  <1>15. ASSUME StopBroadcast(f)
        PROVE  HeldAt(f)'
    BY <1>15, <1>1, <1>2, StopFacts DEF Released, HeldAt
  <1>16. ASSUME StopAbsent(f)
        PROVE  HeldAt(f)'
    BY <1>16, <1>1, <1>2, AbsentFacts DEF HeldAt
  <1>17. ASSUME CleanupUncommittedStart(f)
        PROVE  HeldAt(f)'
    <2>1. CASE pc' = pc /\ claims' = claims
      BY <1>17, <1>2, <2>1, UndoFacts DEF HeldAt
    <2>2. CASE NextClaim(f)
      <3>1. pc'[f] \in {"idle", "starting"}
        BY <1>1, <2>2 DEF NextClaim, ExecutorType
      <3> QED
        BY <3>1 DEF HeldAt
    <2> QED
      BY <1>17, <2>1, <2>2, UndoFacts
  <1>18. ASSUME NEW t \in Broadcasts, TerminalClose(f, t)
        PROVE  HeldAt(f)'
    <2>1. CASE held'[f] = active[f][t] /\ pc'[f] = "terminal" /\ grant'[t] # active[f][t]
      <3>1. /\ active[f][t] \in Generations /\ active' = active
            /\ authority'[f][t] = 0
        BY <1>18, TerminalCloseFacts
      <3>2. ASSUME NEW b \in Broadcasts, active[f][b] = active[f][t]
            PROVE  b = t
        <4>1. Uses(b, active[f][t]) /\ Uses(t, active[f][t])
          BY <3>2 DEF Uses, Holds
        <4> QED
          BY <1>1, <3>1, <4>1 DEF UniqueInv
      <3> QED
        BY <1>1, <2>1, <3>1, <3>2 DEF HeldAt
    <2>2. CASE pc' = pc
      BY <1>18, <2>2, TerminalCloseFacts DEF HeldAt
    <2> QED
      BY <1>18, <2>1, <2>2, TerminalCloseFacts
  <1>19. ASSUME ReconcileTerminal(f)
        PROVE  HeldAt(f)'
    BY <1>19, <1>1, <1>2, ReconcileFacts DEF HeldAt
  <1>20. ASSUME ShutdownClose(f)
        PROVE  HeldAt(f)'
    BY <1>20, ShutdownCloseFacts DEF HeldAt, ShuttingDown
  <1>21. ASSUME RetryRevoke(f)
        PROVE  HeldAt(f)'
    <2>1. /\ UNCHANGED <<pc, claims, held, active, authority>>
          /\ \A c \in Broadcasts : grant'[c] \in {grant[c], 0}
      BY <1>21, RetryFacts
    <2>2. pc[f] = "installed" => Current(f).broadcast \in Broadcasts
      BY <1>1 DEF Busy
    <2> QED
      BY <1>1, <1>2, <2>1, <2>2 DEF HeldAt
  <1>22. ASSUME Crash(f)
        PROVE  HeldAt(f)'
    BY <1>22, <1>1, <1>2, DownFacts DEF HeldAt
  <1>23. ASSUME Exit(f)
        PROVE  HeldAt(f)'
    BY <1>23, <1>1, <1>2, DownFacts DEF HeldAt
  <1>24. ASSUME BeginShutdown(f)
        PROVE  HeldAt(f)'
    BY <1>24, <1>1, <1>2, BeginFacts DEF HeldAt
  <1> QED
    BY <1>11, <1>12, <1>13, <1>14, <1>15, <1>16, <1>17, <1>18, <1>19, <1>20, <1>21, <1>22, <1>23,
       <1>24, ActsCases

\* And after any step: no other process registers a grant for its broadcast.
LEMMA HeldStep ==
    ASSUME Inv, [Next]_vars
    PROVE  HeldInv'
  <1>1. /\ TypeOK /\ StoreType /\ 0 \notin Generations /\ Generations \subseteq Nat /\ UniqueInv
        /\ RunningType /\ ExecutorType
        /\ \A f \in Fences : pc[f] \in Busy =>
             Current(f) \in claims[f] /\ Current(f).broadcast \in Broadcasts
    BY Basics DEF Inv
  <1>2. issued \in Nat
    BY <1>1 DEF StoreType
  <1>3. SUFFICES ASSUME NEW e \in Fences
                 PROVE  HeldAt(e)'
    BY DEF HeldInv
  <1>4. HeldAt(e)
    BY DEF Inv, HeldInv
  <1>5. ASSUME pc'[e] = pc[e], claims'[e] = claims[e], held'[e] = held[e], active'[e] = active[e],
               authority'[e] = authority[e], \A b \in Broadcasts : grant'[b] \in {grant[b], 0}
        PROVE  HeldAt(e)'
    <2>1. Current(e)' = Current(e)
      BY <1>5, SameCurrent
    <2>2. pc[e] = "installed" => Current(e).broadcast \in Broadcasts
      BY <1>1 DEF Busy
    <2> QED
      BY <1>4, <1>5, <2>1, <2>2 DEF HeldAt
  <1>6. ASSUME NEW f \in Fences, Acts(f), e # f
        PROVE  HeldAt(e)'
    <2>1. /\ pc'[e] = pc[e] /\ claims'[e] = claims[e] /\ held'[e] = held[e] /\ active'[e] = active[e]
          /\ authority'[e] = authority[e]
      BY <1>1, <1>6, OthersKept DEF Acts, Same
    <2>2. CASE \A b \in Broadcasts : grant'[b] \in {grant[b], 0}
      BY <1>5, <2>1, <2>2
    <2>3. CASE ManagedStart(f)
      <3>1. Current(e)' = Current(e)
        BY <2>1, SameCurrent
      <3>2. pc[f] \in Busy
        BY <2>3, StartFacts DEF Busy
      <3>3. pc[e] = "installed" =>
              Current(e).broadcast \in Broadcasts /\ Current(e).broadcast # Current(f).broadcast
        <4>1. SUFFICES ASSUME pc[e] = "installed"
                       PROVE  /\ Current(e).broadcast \in Broadcasts
                              /\ Current(e).broadcast # Current(f).broadcast
          OBVIOUS
        <4>2. pc[e] \in Busy
          BY <4>1 DEF Busy
        <4>3. /\ Current(e).id \in DOMAIN commands /\ commands[Current(e).id].fence = e
              /\ commands[Current(e).id].broadcast = Current(e).broadcast
              /\ Current(f).id \in DOMAIN commands /\ commands[Current(f).id].fence = f
              /\ commands[Current(f).id].broadcast = Current(f).broadcast
          BY <1>1, <3>2, <4>2 DEF Inv, ClaimsInv
        <4>4. record[Current(e).broadcast].fence = e /\ record[Current(f).broadcast].fence = f
          BY <4>3 DEF Inv, CommandsInv
        <4> QED
          BY <1>1, <1>6, <4>2, <4>4
      <3>4. \A b \in Broadcasts : b # Current(f).broadcast => grant'[b] = grant[b]
        BY <2>3, StartFacts
      <3>5. ASSUME NEW b \in Broadcasts, active[e][b] = held[e], held[e] # 0, grant[b] # held[e]
            PROVE  grant'[b] # held[e]
        <4>1. held[e] \in Generations
          BY <1>1, <3>5 DEF ExecutorType
        <4>2. held[e] <= issued
          BY <1>1, <3>5, <4>1 DEF UniqueInv, Uses, Holds
        <4>3. held[e] # issued + 1
          BY <1>1, <1>2, <4>1, <4>2
        <4> QED
          BY <2>3, <3>5, <4>3, StartFacts
      <3> QED
        BY <1>4, <2>1, <3>1, <3>3, <3>4, <3>5 DEF HeldAt
    <2> QED
      BY <1>6, <2>2, <2>3, StoreStep
  <1>7. CASE Register
    <2>1. CASE pc'[e] = pc[e]
      BY <1>5, <1>7, <2>1, RegisterFacts
    <2>2. CASE pc'[e] = "recovering"
      BY <2>2 DEF HeldAt
    <2> QED
      BY <1>7, <2>1, <2>2, RegisterFacts
  <1> QED
    BY <1>5, <1>6, <1>7, FrameCases, HeldOwn

\* The result agrees with what runs after a step of the executor.
LEMMA ResultOwn ==
    ASSUME Inv, NEW f \in Fences, Acts(f)
    PROVE  ResultAt(f)'
  <1>1. /\ ResultAt(f) /\ ExecutorType /\ RunningType
        /\ pc[f] \in Busy => Current(f).broadcast \in Broadcasts
    BY Basics DEF Inv, ResultInv
  <1>2. claims'[f] = claims[f] => Current(f)' = Current(f)
    BY SameCurrent
  <1>3. ASSUME NextClaim(f)
        PROVE  ResultAt(f)'
    <2>1. pc'[f] \in {"idle", "starting"} /\ result'[f] = NoResult
      BY <1>1, <1>3 DEF NextClaim, ExecutorType
    <2> QED
      BY <2>1 DEF ResultAt, NoResult
  <1>4. ASSUME result'[f] = result[f], pc'[f] \notin {"installed", "completing", "verifying"}
        PROVE  ResultAt(f)'
    BY <1>1, <1>4 DEF ResultAt
  <1>5. ASSUME result'[f] = result[f], claims'[f] = claims[f], active'[f] = active[f],
               pc[f] \in {"completing", "verifying"}, pc'[f] \in {"completing", "verifying"}
        PROVE  ResultAt(f)'
    BY <1>1, <1>2, <1>5 DEF ResultAt
  <1>11. ASSUME Quiet(f)
        PROVE  ResultAt(f)'
    <2>1. CASE \/ FailStaleWorkerBroadcasts(f) \/ CleanStaleRow(f) \/ StaleFencesReconciled(f)
               \/ ClaimAndExecute(f) \/ FailWorkerBroadcasts(f) \/ FinalizeDrained(f)
      <3>1. result' = result /\ pc'[f] \notin {"installed", "completing", "verifying"}
        BY <1>1, <2>1 DEF FailStaleWorkerBroadcasts, CleanStaleRow, StaleFencesReconciled,
             ClaimAndExecute, FailWorkerBroadcasts, FinalizeDrained, ExecutorType
      <3> QED
        BY <1>4, <3>1
    <2>2. CASE StartRefused(f)
      <3>1. /\ Current(f).kind = "start" /\ claims' = claims
            /\ result'[f] = Failed("start") /\ pc'[f] = "completing"
        BY <1>1, <2>2 DEF StartRefused, Executing, Deliver, ExecutorType
      <3> QED
        BY <1>2, <3>1 DEF ResultAt, Failed
    <2>3. CASE CompleteAmbiguous(f)
      <3>1. /\ result' = result /\ claims' = claims /\ active' = active
            /\ pc[f] = "completing" /\ pc'[f] = "verifying"
        BY <1>1, <2>3 DEF CompleteAmbiguous, ExecutorType
      <3> QED
        BY <1>5, <3>1
    <2>4. ASSUME NEW row, Resolve(f, row)
          PROVE  ResultAt(f)'
      <3>1. CASE pc' = [pc EXCEPT ![f] = "undoing"] /\ UNCHANGED result
        BY <1>1, <1>4, <3>1 DEF ExecutorType
      <3> QED
        BY <1>3, <2>4, <3>1 DEF Resolve
    <2>5. CASE VerifyCompletion(f)
      <3>1. CASE pc' = [pc EXCEPT ![f] = "completing"] /\ UNCHANGED <<claims, result>>
        <4>1. pc[f] = "verifying" /\ active' = active /\ pc'[f] = "completing"
          BY <1>1, <2>5, <3>1 DEF VerifyCompletion, ExecutorType
        <4> QED
          BY <1>5, <3>1, <4>1
      <3> QED
        BY <2>4, <2>5, <3>1 DEF VerifyCompletion
    <2> QED
      BY <1>11, <2>1, <2>2, <2>3, <2>4, <2>5 DEF Quiet, CompleteAnswered
  <1>12. ASSUME ManagedStart(f)
        PROVE  ResultAt(f)'
    <2>1. Current(f).kind = "start" /\ Current(f)' = Current(f)
      BY <1>12, <1>2, StartFacts
    <2>2. CASE pc'[f] = "installed" /\ result' = result
      BY <1>1, <2>1, <2>2 DEF ResultAt
    <2>3. CASE pc'[f] = "completing" /\ result'[f] = Failed("start")
      BY <2>1, <2>3 DEF ResultAt, Failed
    <2> QED
      BY <1>12, <2>2, <2>3, StartFacts
  <1>13. ASSUME StartInstalled(f)
        PROVE  ResultAt(f)'
    <2>1. /\ Current(f).kind = "start" /\ Current(f)' = Current(f) /\ held[f] # 0
          /\ active'[f][Current(f).broadcast] = held[f]
          /\ pc'[f] = "completing" /\ result'[f] = Started(held[f])
      BY <1>13, <1>2, InstalledFacts
    <2>2. result'[f].kind = "started" /\ result'[f].runtime = held[f]
      BY <2>1 DEF Started
    <2> QED
      BY <2>1, <2>2 DEF ResultAt
  <1>14. ASSUME StartAbandoned(f)
        PROVE  ResultAt(f)'
    BY <1>14, <1>2, AbandonedFacts DEF ResultAt, Failed
  <1>15. ASSUME StopBroadcast(f)
        PROVE  ResultAt(f)'
    BY <1>15, <1>2, StopFacts DEF ResultAt, Failed, Stopped
  <1>16. ASSUME StopAbsent(f)
        PROVE  ResultAt(f)'
    BY <1>16, <1>2, AbsentFacts DEF ResultAt, Failed, Stopped
  <1>17. ASSUME CleanupUncommittedStart(f)
        PROVE  ResultAt(f)'
    <2>1. CASE pc' = pc /\ result' = result
      BY <1>17, <1>4, <2>1, UndoFacts
    <2> QED
      BY <1>17, <1>3, <2>1, UndoFacts
  <1>18. ASSUME NEW t \in Broadcasts, TerminalClose(f, t)
        PROVE  ResultAt(f)'
    BY <1>18, <1>4, TerminalCloseFacts
  <1>19. ASSUME ReconcileTerminal(f)
        PROVE  ResultAt(f)'
    BY <1>19, <1>4, ReconcileFacts
  <1>20. ASSUME ShutdownClose(f)
        PROVE  ResultAt(f)'
    BY <1>20, <1>4, ShutdownCloseFacts DEF ShuttingDown
  <1>21. ASSUME RetryRevoke(f)
        PROVE  ResultAt(f)'
    BY <1>21, <1>1, <1>2, RetryFacts DEF ResultAt
  <1>22. ASSUME Crash(f)
        PROVE  ResultAt(f)'
    BY <1>22, DownFacts DEF ResultAt, NoResult
  <1>23. ASSUME Exit(f)
        PROVE  ResultAt(f)'
    BY <1>23, DownFacts DEF ResultAt, NoResult
  <1>24. ASSUME BeginShutdown(f)
        PROVE  ResultAt(f)'
    BY <1>24, BeginFacts DEF ResultAt, NoResult
  <1> QED
    BY <1>11, <1>12, <1>13, <1>14, <1>15, <1>16, <1>17, <1>18, <1>19, <1>20, <1>21, <1>22, <1>23,
       <1>24, ActsCases

\* And after any step.
LEMMA ResultStep ==
    ASSUME Inv, [Next]_vars
    PROVE  ResultInv'
  <1>1. TypeOK
    BY DEF Inv
  <1>2. SUFFICES ASSUME NEW e \in Fences
                 PROVE  ResultAt(e)'
    BY DEF ResultInv
  <1>3. ResultAt(e)
    BY DEF Inv, ResultInv
  <1>4. ASSUME pc'[e] = pc[e] \/ pc'[e] = "recovering", claims'[e] = claims[e],
               result'[e] = result[e], active'[e] = active[e]
        PROVE  ResultAt(e)'
    <2>1. Current(e)' = Current(e)
      BY <1>4, SameCurrent
    <2> QED
      BY <1>3, <1>4, <2>1 DEF ResultAt
  <1>5. ASSUME NEW f \in Fences, Acts(f), e # f
        PROVE  ResultAt(e)'
    BY <1>1, <1>4, <1>5, OthersKept DEF Acts, Same
  <1> QED
    BY <1>4, <1>5, FrameCases, RegisterFacts, ResultOwn

\* An open authority names a durable start whose publication runs here.
AuthorityAt(f, b) ==
  authority[f][b] # 0 => authority[f][b] \in committed /\ active[f][b] = authority[f][b]

\* It does after a step of the executor.
LEMMA AuthorityOwn ==
    ASSUME Inv, NEW f \in Fences, Acts(f), [Next]_vars, NEW b \in Broadcasts
    PROVE  AuthorityAt(f, b)'
  <1>1. /\ authority[f][b] # 0 => authority[f][b] \in committed /\ active[f][b] = authority[f][b]
        /\ committed \subseteq committed'
        /\ RunningType /\ ExecutorType /\ RecordType /\ 0 \notin Generations
        /\ pc[f] \in Busy => Current(f).broadcast \in Broadcasts
    BY Basics, CommittedKept DEF Inv, AuthorityIsCommitted
  <1>2. ASSUME authority'[f][b] = 0 \/ (authority'[f][b] = authority[f][b] /\ active'[f][b] = active[f][b])
        PROVE  AuthorityAt(f, b)'
    BY <1>1, <1>2 DEF AuthorityAt
  <1>11. ASSUME Quiet(f)
        PROVE  AuthorityAt(f, b)'
    <2>1. active'[f] = active[f]
      BY <1>11, QuietFacts DEF QuietFrame
    <2>2. CASE UNCHANGED authority
      BY <1>2, <2>1, <2>2
    <2>3. ASSUME NEW row \in Row, Resolve(f, row), pc[f] \in {"completing", "verifying"},
                 row.runtime # 0 => row.runtime \in committed'
          PROVE  AuthorityAt(f, b)'
      <3>1. Current(f).broadcast \in Broadcasts
        BY <1>1, <2>3 DEF Busy
      <3>2. \/ authority'[f][b] = authority[f][b] \/ authority'[f][b] = 0
            \/ /\ b = Current(f).broadcast /\ authority'[f][b] = row.runtime
               /\ result[f].kind = "started" /\ row.runtime = result[f].runtime
        BY <1>1, <2>3, <3>1, ResolveFacts
      <3>3. CASE authority'[f][b] = authority[f][b] \/ authority'[f][b] = 0
        BY <1>2, <2>1, <3>3
      <3>4. CASE /\ b = Current(f).broadcast /\ authority'[f][b] = row.runtime
                 /\ result[f].kind = "started" /\ row.runtime = result[f].runtime
        <4>1. active[f][b] = result[f].runtime
          BY <2>3, <3>4 DEF Inv, ResultInv, ResultAt
        <4> QED
          BY <2>1, <2>3, <3>4, <4>1 DEF AuthorityAt
      <3> QED
        BY <3>2, <3>3, <3>4
    <2>4. \A c \in Broadcasts :
            /\ record[c] \in Row /\ record'[c] \in Row
            /\ record[c].runtime # 0 => record[c].runtime \in committed'
            /\ record'[c].runtime # 0 => record'[c].runtime \in committed'
      BY <1>1, RecordedStep, DurableTypeStep DEF Inv, RecordedInv, RecordType
    <2>5. CASE CompleteAnswered(f)
      <3>1. pc[f] = "completing" /\ Resolve(f, record'[Current(f).broadcast])
        BY <2>5 DEF CompleteAnswered
      <3>2. Current(f).broadcast \in Broadcasts
        BY <1>1, <3>1 DEF Busy
      <3> QED
        BY <2>3, <2>4, <3>1, <3>2
    <2>6. CASE VerifyCompletion(f)
      <3>1. pc[f] = "verifying" /\ (Resolve(f, record[Current(f).broadcast]) \/ UNCHANGED authority)
        BY <2>6 DEF VerifyCompletion
      <3>2. Current(f).broadcast \in Broadcasts
        BY <1>1, <3>1 DEF Busy
      <3> QED
        BY <2>2, <2>3, <2>4, <3>1, <3>2
    <2> QED
      BY <1>11, <2>2, <2>5, <2>6
         DEF Quiet, FailStaleWorkerBroadcasts, CleanStaleRow, StaleFencesReconciled, ClaimAndExecute,
             StartRefused, CompleteAmbiguous, FailWorkerBroadcasts, FinalizeDrained
  <1>12. ASSUME ManagedStart(f)
        PROVE  AuthorityAt(f, b)'
    BY <1>12, <1>1, <1>2, StartFacts
  <1>13. ASSUME StartInstalled(f)
        PROVE  AuthorityAt(f, b)'
    BY <1>13, <1>1, <1>2, InstalledFacts
  <1>14. ASSUME StartAbandoned(f)
        PROVE  AuthorityAt(f, b)'
    BY <1>14, <1>1, <1>2, AbandonedFacts
  <1>15. ASSUME StopBroadcast(f)
        PROVE  AuthorityAt(f, b)'
    BY <1>15, <1>1, <1>2, StopFacts
  <1>16. ASSUME StopAbsent(f)
        PROVE  AuthorityAt(f, b)'
    BY <1>16, <1>1, <1>2, AbsentFacts
  <1>17. ASSUME CleanupUncommittedStart(f)
        PROVE  AuthorityAt(f, b)'
    BY <1>17, <1>1, <1>2, UndoFacts
  <1>18. ASSUME NEW t \in Broadcasts, TerminalClose(f, t)
        PROVE  AuthorityAt(f, b)'
    BY <1>18, <1>1, <1>2, TerminalCloseFacts
  <1>19. ASSUME ReconcileTerminal(f)
        PROVE  AuthorityAt(f, b)'
    BY <1>19, <1>1, <1>2, ReconcileFacts
  <1>20. ASSUME ShutdownClose(f)
        PROVE  AuthorityAt(f, b)'
    BY <1>20, <1>1, <1>2, ShutdownCloseFacts
  <1>21. ASSUME RetryRevoke(f)
        PROVE  AuthorityAt(f, b)'
    BY <1>21, <1>1, <1>2, RetryFacts
  <1>22. ASSUME Crash(f)
        PROVE  AuthorityAt(f, b)'
    BY <1>22, <1>1, <1>2, DownFacts
  <1>23. ASSUME Exit(f)
        PROVE  AuthorityAt(f, b)'
    BY <1>23, <1>1, <1>2, DownFacts
  <1>24. ASSUME BeginShutdown(f)
        PROVE  AuthorityAt(f, b)'
    BY <1>24, <1>1, <1>2, BeginFacts
  <1> QED
    BY <1>11, <1>12, <1>13, <1>14, <1>15, <1>16, <1>17, <1>18, <1>19, <1>20, <1>21, <1>22, <1>23,
       <1>24, ActsCases

\* It does after any step.
LEMMA AuthorityStep ==
    ASSUME Inv, [Next]_vars
    PROVE  AuthorityIsCommitted'
  <1>1. TypeOK /\ committed \subseteq committed'
    BY CommittedKept DEF Inv
  <1>2. SUFFICES ASSUME NEW e \in Fences, NEW b \in Broadcasts
                 PROVE  AuthorityAt(e, b)'
    BY DEF AuthorityIsCommitted, AuthorityAt
  <1>3. ASSUME authority'[e] = authority[e], active'[e] = active[e]
        PROVE  AuthorityAt(e, b)'
    BY <1>1, <1>3 DEF Inv, AuthorityIsCommitted, AuthorityAt
  <1>4. ASSUME NEW f \in Fences, Acts(f), e # f
        PROVE  AuthorityAt(e, b)'
    BY <1>1, <1>3, <1>4, OthersKept DEF Acts, Same
  <1> QED
    BY <1>3, <1>4, FrameCases, RegisterFacts, AuthorityOwn

-----------------------------------------------------------------------------
(***************************************************************************)
(* The theorems.                                                           *)
(***************************************************************************)
\* Nothing is enqueued, granted or held at first.
LEMMA InitInv ==
    ASSUME Init
    PROVE  Inv
  <1>1. /\ \A b \in Broadcasts :
             record[b].state = "none" /\ record[b].fence = 0 /\ record[b].runtime = 0 /\ grant[b] = 0
        /\ commands = <<>> /\ DOMAIN commands = {} /\ issued = 0 /\ fence = 0
        /\ committed = {} /\ lost = {}
    BY DEF Init, Nothing
  <1>2. \A f \in Fences :
          /\ pc[f] = "down" /\ claims[f] = {} /\ held[f] = 0 /\ result[f] = NoResult
          /\ retrying[f] = {} /\ drained[f] = {}
          /\ \A b \in Broadcasts : active[f][b] = 0 /\ authority[f][b] = 0
    BY DEF Init, Nothing
  <1>3. 0 \notin Generations
    BY GenerationFacts
  <1>4. TypeOK
    <2>1. [state |-> "none", fence |-> 0, runtime |-> 0, code |-> "none"] \in Row
      BY BoundsAreNat DEF Row, RowState, Code
    <2>2. NoResult \in Result
      BY DEF NoResult, Result, Code
    <2>3. RecordType /\ CommandsType /\ StoreType /\ RunningType
      BY <2>1 DEF Init, RecordType, CommandsType, StoreType, RunningType, Nothing
    <2>4. SourceType
      BY DEF Init, SourceType
    <2>5. ExecutorType /\ HistoryType
      BY <2>2, BoundsAreNat DEF Init, ExecutorType, HistoryType, Step
    <2> QED
      BY <2>3, <2>4, <2>5, TypeParts
  <1>5. ProcessInv
    BY <1>2 DEF ProcessInv, Busy
  <1>6. CommandsInv /\ ClaimsInv /\ RecordedInv
    BY <1>1, <1>2 DEF CommandsInv, ClaimsInv, RecordedInv
  <1>7. ActiveInv /\ AuthorityIsCommitted
    BY <1>2 DEF ActiveInv, ActiveAt, AuthorityIsCommitted
  <1>8. ResultInv /\ HeldInv
    BY <1>2 DEF ResultInv, ResultAt, HeldInv, HeldAt, NoResult
  <1>9. \A b \in Broadcasts, g \in Generations : ~Uses(b, g)
    BY <1>1, <1>2, <1>3 DEF Uses, Holds, Carries
  <1>10. UniqueInv
    BY <1>9 DEF UniqueInv
  <1>11. RevokedInv /\ GrantInv
    BY <1>1, <1>2 DEF RevokedInv, RevokedAt, DrainedAt, GrantInv
  <1> QED
    BY <1>4, <1>5, <1>6, <1>7, <1>8, <1>10, <1>11 DEF Inv

\* Every step keeps the invariant.
LEMMA InvStep ==
    ASSUME Inv, [Next]_vars
    PROVE  Inv'
  <1>1. TypeOK' /\ ProcessInv'
    BY TypeStep, ProcessStep DEF Inv
  <1>2. CommandsInv' /\ ClaimsInv' /\ RecordedInv' /\ ActiveInv' /\ ResultInv'
    BY CommandsStep, ClaimsStep, RecordedStep, ActiveStep, ResultStep
  <1>3. UniqueInv' /\ HeldInv' /\ RevokedInv' /\ GrantInv' /\ AuthorityIsCommitted'
    BY UniqueStep, HeldStep, RevokedStep, GrantStep, AuthorityStep
  <1> QED
    BY <1>1, <1>2, <1>3 DEF Inv

\* The invariant holds of every behaviour, and with it the type invariant: of
\* rows, commands, claims, grants and leases, for any number of broadcasts,
\* registrations, grants and faults.
THEOREM InvCorrect == Spec => [](TypeOK /\ Inv)
  <1>1. Init => Inv
    BY InitInv
  <1>2. Inv /\ [Next]_vars => Inv'
    BY InvStep
  <1>3. Inv => TypeOK
    BY DEF Inv
  <1> QED
    BY <1>1, <1>2, <1>3, PTL DEF Spec

\* An open subscription authority names a generation that a durable start
\* recorded and that runs in this executor, and every grant active in the
\* shared store is recorded by a row, held by a process or lost to a fault.
THEOREM AuthorityCorrect == Spec => []AuthorityIsSettled
  <1>1. ASSUME Inv
        PROVE  AuthorityIsSettled
    <2>1. \A f \in Fences, b \in Broadcasts : Holds(f, b, grant[b]) => InHand(f, grant[b])
      BY DEF Holds, Carries, InHand
    <2>2. GrantsAreAccountedFor
      BY <1>1, <2>1 DEF Inv, GrantInv, Accounted, GrantsAreAccountedFor, Recorded
    <2> QED
      BY <1>1, <2>2 DEF Inv, AuthorityIsSettled
  <1>2. Inv => AuthorityIsSettled
    BY <1>1
  <1> QED
    BY <1>2, InvCorrect, PTL

\* A completion that publishes a deleted broadcast is that of a start claimed
\* more than once.
LEMMA LateStart ==
    ASSUME Inv, NEW f \in Fences, NEW b \in Broadcasts, pc[f] = "completing",
           Complete(Current(f), result[f]), record[b].state = "deleted"
    PROVE  record'[b].state \in {"deleted", "failed"} \/ Reclaimed(b)
  <1>1. pc[f] \in Busy
    BY DEF Busy
  <1>2. CASE b # Current(f).broadcast \/ result[f].kind # "started"
    BY <1>1, <1>2, CompletionFacts
  <1>3. CASE b = Current(f).broadcast /\ result[f].kind = "started"
    <2>1. Current(f).kind = "start"
      BY <1>3 DEF Inv, ResultInv, ResultAt
    <2>2. Current(f) \in claims[f] /\ CommandsType
      BY <1>1, Basics DEF Inv
    <2>3. /\ Current(f).id \in DOMAIN commands /\ commands[Current(f).id].state = "claimed"
          /\ commands[Current(f).id].broadcast = b /\ commands[Current(f).id].kind = "start"
      BY <1>1, <1>3, <2>1, CompletionFacts
    <2>4. commands[Current(f).id].generation # 1
      BY <1>3, <2>1, <2>2, <2>3 DEF Inv, ClaimsInv
    <2>5. commands[Current(f).id].generation # 0
      BY <2>3 DEF Inv, CommandsInv
    <2>6. commands[Current(f).id].generation \in Nat
      BY <2>2, <2>3, Basics, Fields DEF Inv
    <2> QED
      BY <2>3, <2>4, <2>5, <2>6 DEF Reclaimed
  <1> QED
    BY <1>2, <1>3

\* No other step opens a deleted broadcast.
LEMMA DeletedStep ==
    ASSUME Inv, [Next]_vars, NEW b \in Broadcasts, record[b].state = "deleted"
    PROVE  record'[b].state \in {"deleted", "failed"} \/ Reclaimed(b)
  <1>1. RecordType /\ CommandsType /\ ExecutorType /\ RunningType
    BY Basics DEF Inv
  <1>2. ASSUME NEW c \in Broadcasts, EnqueueStart(c)
        PROVE  record'[b].state = "deleted"
    BY <1>1, <1>2, EnqueueStartFacts
  <1>3. ASSUME NEW c \in Broadcasts, EnqueueStop(c)
        PROVE  record'[b].state = "deleted"
    <2>1. \/ record[c].state = "failed" /\ record' = [record EXCEPT ![c].state = "deleted"]
          \/ record[c].state \in Open /\ record' = [record EXCEPT ![c].state = "deleting"]
      BY <1>3 DEF EnqueueStop, DeleteFailed, DeleteOpen
    <2>2. c # b
      BY <2>1 DEF Open
    <2> QED
      BY <1>1, <2>1, <2>2 DEF RecordType
  <1>4. ASSUME NEW f \in Fences, FailStaleWorkerBroadcasts(f) \/ FailWorkerBroadcasts(f)
        PROVE  record'[b].state = "deleted"
    <2>1. "stale" \in Code /\ "drained" \in Code /\ "deleted" \notin Open
      BY DEF Code, Open
    <2>2. CASE FailOpen(Fences \ {f}, "stale")
      BY <1>1, <2>1, <2>2, FailOpenFacts
    <2>3. CASE FailOpen({f}, "drained")
      BY <1>1, <2>1, <2>3, FailOpenFacts
    <2> QED
      BY <1>4, <2>2, <2>3 DEF FailStaleWorkerBroadcasts, FailWorkerBroadcasts, durable
  <1>5. ASSUME NEW f \in Fences, CompleteAnswered(f) \/ CompleteAmbiguous(f)
        PROVE  record'[b].state \in {"deleted", "failed"} \/ Reclaimed(b)
    BY <1>5, LateStart DEF CompleteAnswered, CompleteAmbiguous, durable
  <1>6. ASSUME NEW f \in Fences, CleanStaleRow(f)
        PROVE  record'[b].state = "deleted"
    <2>1. PICK r \in stale[f] :
            record' = record \/ record' = FinalizeFailedCleanup(r, record[r].fence, record[r].runtime)
      BY <1>6 DEF CleanStaleRow
    <2>2. r \in Broadcasts
      BY <1>1 DEF ExecutorType
    <2> QED
      BY <1>1, <2>1, <2>2, FinalizeFacts
  <1>7. ASSUME NEW f \in Fences, ReconcileTerminal(f)
        PROVE  record'[b].state = "deleted"
    BY <1>1, <1>7, TerminalFacts
  <1>8. ASSUME NEW f \in Fences, FinalizeDrained(f)
        PROVE  record'[b].state = "deleted"
    <2>1. PICK r \in drained[f] : record' = record \/ record' = FinalizeFailedCleanup(r[1], f, r[2])
      BY <1>8 DEF FinalizeDrained
    <2>2. r[1] \in Broadcasts
      BY <1>1 DEF RunningType
    <2> QED
      BY <1>1, <2>1, <2>2, FinalizeFacts
  <1>9. record' = record => record'[b].state = "deleted"
    OBVIOUS
  <1>10. record'[b].state = "deleted" => record'[b].state \in {"deleted", "failed"}
    OBVIOUS
  <1> QED
    BY <1>2, <1>3, <1>4, <1>5, <1>6, <1>7, <1>8, <1>9, <1>10, Writers, Zenon

\* Late completions, stale fences, zombies and shutdown never open a deleted
\* broadcast again: only a start whose first claim's answer was lost does.
THEOREM ReopenCorrect == Spec => OnlyReclaimsReopen
  <1>1. ASSUME Inv, [Next]_vars
        PROVE  \A b \in Broadcasts : record[b].state = "deleted" =>
                 record'[b].state \in {"deleted", "failed"} \/ Reclaimed(b)
    BY <1>1, DeletedStep
  <1> QED
    BY <1>1, InvCorrect, PTL DEF Spec, OnlyReclaimsReopen
=============================================================================
