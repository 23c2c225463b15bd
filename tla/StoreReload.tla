---------------------------- MODULE StoreReload ----------------------------
(***************************************************************************)
(* The SQL repository (src/src/persistence/sql.rs) keeps no state between  *)
(* transactions.  Each one loads every row, rebuilds the in-memory         *)
(* repository from them (MemoryRepository::from_snapshot_at), which        *)
(* refuses rows whose cross-links do not agree, runs one operation of      *)
(* memory.rs, and writes back the rows that changed.  So two things that   *)
(* no single operation states decide whether the service works at all:    *)
(* what an operation leaves must load again, since one call that does not  *)
(* makes every transaction of every call answer Unavailable; and what the  *)
(* load derives (connection_owners, principal_bindings) must decide later  *)
(* operations as the in-memory repository would have.                      *)
(*                                                                         *)
(* This module adds to CallBindings the rows that are only ever read back  *)
(* by the load: receipts of outbound binds and of promotions, the binding  *)
(* an attachment keeps and the recorded initial contexts.  Every action    *)
(* is one transaction of one call.                                         *)
(***************************************************************************)
EXTENDS CallBindings

VARIABLES
    issued,     \* [Key -> Nat], the attachment issues of the command results
    attached,   \* AttachmentRow::binding of the consumed attachments
    outbound,   \* outbound_binding_results
    promoted,   \* replacement_connection of the service command results
    contexts,   \* initial_contexts, [source : Link, target : Key]
    rows        \* the tables of the database

ledgers == <<issued, attached, outbound, promoted, contexts>>
svars == <<bvars, ledgers, rows>>

\* The rows of a table, as they are encoded and decoded.
LegRows == {[leg |-> l, generation |-> binding[l], state |-> legState[l]] : l \in Leg}
AttachmentRows ==
    {[key |-> k, row |-> attachment[k], link |-> {a \in attached : KeyOf(a) = k}] :
        k \in {j \in Key : attachment[j].purpose # "none"}}
ControlRows ==
    UNION {{[key |-> k, sequence |-> i, row |-> control[k][i]] : i \in DOMAIN control[k]} :
        k \in Key}

\* MemoryRepository::snapshot, the tables this module tells apart.
Snapshot ==
    [legs |-> LegRows,
     connection_bindings |-> bindings,
     attachments |-> AttachmentRows,
     used_connection_ids |-> {[conn |-> c] : c \in used},
     outbound_binding_results |-> outbound,
     initial_contexts |-> contexts,
     control_outbox |-> ControlRows]

SInit ==
    /\ BInit
    /\ issued = [k \in Key |-> 0]
    /\ attached = {} /\ outbound = {} /\ promoted = {}
    /\ contexts = {}
    /\ rows = Snapshot

-----------------------------------------------------------------------------
(***************************************************************************)
(* The operations, with the rows they leave for the next load.             *)
(***************************************************************************)

\* AttachmentIssue of CommandCommitView, one for each attachment it inserts.
IssuesOf ==
    issued' = [k \in Key |->
        IF attachment'[k] # attachment[k] /\ ~attachment'[k].consumed
              /\ ~attachment'[k].revoked
        THEN issued[k] + 1 ELSE issued[k]]

LeavesBindingRows == UNCHANGED <<attached, outbound, promoted>>

Registration ==
    /\ RegisterWorker \/ ClaimRestartCall
    /\ UNCHANGED ledgers

Inspection(l) ==
    /\ \E g \in Generation : InspectAttachment(l, g)
    /\ UNCHANGED ledgers

\* Fault: the attachment row is not given its binding.
ConsumptionUnlinked(l) ==
    \E c \in Conn, at \in Time :
        /\ ConsumeAttachment(l, c, at)
        /\ IssuesOf
        /\ UNCHANGED <<attached, outbound, promoted, contexts>>

\* consume_attachment: the row keeps the binding, also when the connection is
\* the parallel one of a replacement.
Consumption(l) ==
    \E c \in Conn, at \in Time :
        /\ ConsumeAttachment(l, c, at)
        /\ IssuesOf
        /\ attached' = attached \cup
              {[conn |-> c, leg |-> l, generation |-> candidate[l].generation]}
        /\ UNCHANGED <<outbound, promoted, contexts>>

\* bind_outbound_connection_in_state: result and request of the bind.
OutboundBind(l) ==
    \E c \in Conn :
        /\ BindOutboundConnection(l, c)
        /\ outbound' = outbound \cup
              {[conn |-> c, leg |-> l, generation |-> binding[l]]}
        /\ UNCHANGED <<issued, attached, promoted, contexts>>

\* commit_bound_state_in_state: a report over a bound connection.
GuardedReport(l) ==
    \E at \in Time :
        /\ BoundReport(l, at)
        /\ IssuesOf
        /\ LeavesBindingRows /\ UNCHANGED contexts

OtherReport ==
    \E at \in Time :
        /\ OtherCommand(at) \/ \E l \in Leg : UnboundReport(l, at)
        /\ IssuesOf
        /\ LeavesBindingRows /\ UNCHANGED contexts

\* commit_service_command_in_state with a replacement_connection.
Promotion ==
    \E c \in Conn, d \in 0 .. MaxDeadline, at \in Time :
        /\ PromoteReplacement(c, d, at)
        /\ IssuesOf
        /\ promoted' = promoted \cup {b \in bindings' : b.conn = c}
        /\ UNCHANGED <<attached, outbound, contexts>>

\* record_initial_context_in_state: context from the bound connection of one
\* leg, for the current generation of the other; the first one stays.
RecordInitialContext(l) ==
    \E b \in bindings, t \in Leg \ {l} :
        /\ b.leg = l /\ b.generation = binding[l]
        /\ Initiator[l] = "remote" /\ Initiator[t] = "bridgefu"
        /\ \A r \in contexts : r.target # <<t, binding[t]>>
        /\ contexts' = contexts \cup {[source |-> b, target |-> <<t, binding[t]>>]}
        /\ UNCHANGED <<bvars, issued, attached, outbound, promoted>>

Controls(l) == ControlWork(l) /\ UNCHANGED ledgers

Operation ==
    \/ Registration \/ OtherReport \/ Promotion
    \/ \E l \in Leg :
        \/ Inspection(l) \/ Consumption(l) \/ OutboundBind(l)
        \/ GuardedReport(l) \/ RecordInitialContext(l) \/ Controls(l)

-----------------------------------------------------------------------------
(***************************************************************************)
(* persist_*_delta, at the end of the transaction of an operation: deletes *)
(* the bindings that are gone, then upserts the rows that changed.         *)
(***************************************************************************)
Table == DOMAIN rows

\* The primary key of a table.
SameKey(t, x, y) ==
    CASE t = "legs" -> x.leg = y.leg
      [] t = "attachments" -> x.key = y.key
      [] t = "initial_contexts" -> x.target = y.target
      [] t = "control_outbox" -> x.key = y.key /\ x.sequence = y.sequence
      [] OTHER -> x.conn = y.conn

\* changed_snapshot: rows that are new or differ from the one of their key.
Changed(t, after) == after[t] \ rows[t]

\* removed_rows.
Removed(t, after) == {x \in rows[t] \ after[t] : \A y \in after[t] : ~SameKey(t, x, y)}

\* Fault: no row is deleted.
KeptAll(t, after) == rows[t]

\* What the deletes leave; a binding is looked up by its connection.
Kept(t, after) ==
    IF t = "connection_bindings" THEN rows[t] \ Removed(t, after) ELSE rows[t]

\* INSERT ... ON CONFLICT(key) DO UPDATE, row by row.
Upsert(t, after) ==
    LET changed == Changed(t, after)
    IN  {x \in Kept(t, after) : \A y \in changed : ~SameKey(t, x, y)} \cup changed

PersistDelta ==
    \E after \in {Snapshot'} : rows' = [t \in Table |-> Upsert(t, after)]

\* A transaction.  The in-memory repository runs the same operations and never
\* loads, so the steps are not restricted to states that load.
SNext == Operation /\ PersistDelta

SSpec == SInit /\ [][SNext]_svars

-----------------------------------------------------------------------------
(***************************************************************************)
(* from_snapshot_at.  The owners of the routes are not stored: they are    *)
(* the bound connections, and those consumed attachments name that are     *)
(* not the bound one of their leg.                                         *)
(***************************************************************************)
\* Attached connections that are not the bound one of their leg.
AttachedApart == {a \in attached : \A b \in bindings : b.leg = a.leg => b.conn # a.conn}
LoadedOwners == bindings \cup AttachedApart

\* Calls and their bindings: one per leg, of its current generation.
CallsLoad ==
    /\ \A b \in bindings : b.generation = binding[b.leg]
    /\ \A b1, b2 \in bindings : b1.leg = b2.leg \/ b1.conn = b2.conn => b1 = b2

\* Attachments: no route gets two owners, and each row was issued by one
\* command.
AttachmentsLoad ==
    /\ \A o1, o2 \in LoadedOwners :
          o1.conn = o2.conn \/ KeyOf(o1) = KeyOf(o2) => o1 = o2
    /\ \A k \in Key : issued[k] = IF attachment[k].purpose = "none" THEN 0 ELSE 1

\* Every owner is a connection that was recorded as used.
UsedConnectionsLoad == \A o \in LoadedOwners : o.conn \in used

\* Receipts of outbound binds agree with the binding they made.
OutboundResultsLoad ==
    /\ \A o \in outbound :
        /\ o.conn \in used /\ Initiator[o.leg] = "bridgefu"
        /\ \A b \in bindings : KeyOf(b) = KeyOf(o) => b = o
    /\ \A o1, o2 \in outbound : o1.conn = o2.conn => o1 = o2

\* The bindings of the legs Bridgefu signals.
BridgefuBindings == {b \in bindings : Initiator[b.leg] = "bridgefu"}

\* Each of them is to be explained by exactly one bind receipt or promotion;
\* the load refuses rows with one that is not.
Unexplained == {b \in BridgefuBindings : (b \in outbound) = (b \in promoted)}

\* connection_guard_has_historical_binding.
Historical(b) == b.conn \in used /\ b \in attached \cup outbound \cup promoted

\* The guards a report, a media activity or a promotion may record now name
\* connections the next load finds; those rows are never removed, so the
\* guards already recorded load too.
GuardsLoad ==
    /\ \A b \in bindings : Historical(b)
    /\ \A p \in promoted : p.conn \in used

\* Initial contexts: a source that was bound, generations that have existed.
ContextsLoad ==
    \A r \in contexts :
        /\ Historical(r.source)
        /\ binding[r.source.leg] >= r.source.generation
        /\ binding[r.target[1]] >= r.target[2]

\* The other checks of the load.
OtherwiseLoads ==
    /\ CallsLoad /\ AttachmentsLoad /\ UsedConnectionsLoad
    /\ OutboundResultsLoad /\ GuardsLoad /\ ContextsLoad

-----------------------------------------------------------------------------
\* validate_supported_removals: any other removal fails the transaction.
RemovesNothingElse(after) ==
    /\ \A t \in Table \ {"connection_bindings"} : Removed(t, after) = {}
    /\ promoted \subseteq promoted'

\* UNIQUE(call_id, leg_id) of connection_bindings and UNIQUE(call_id, leg_id,
\* binding_generation) of attachments, at each insert; the connection of an
\* outbound bind is a row of used_connection_ids.
ConstraintsHold(after) ==
    LET bound == Changed("connection_bindings", after) IN
    /\ \A y \in bound, x \in Kept("connection_bindings", after) :
          x.leg = y.leg => x.conn = y.conn
    /\ \A y1, y2 \in bound : y1.leg = y2.leg => y1 = y2
    /\ \A o \in Changed("outbound_binding_results", after) : o.conn \in used'

\* control_retirement_crosslinks: the command that retires a control effect
\* is the one whose result shows the leg gone or at another generation.
RetirementsAreExplained ==
    \A k \in Key : \A i \in DOMAIN control[k] :
        control'[k][i].status = "retired" /\ control[k][i].status # "retired" =>
            binding'[k[1]] # k[2] \/ legState'[k[1]] \notin {"connected", "held"}

-----------------------------------------------------------------------------
(***************************************************************************)
(* Properties.                                                             *)
(***************************************************************************)

\* What any sequence of attachments, binds, reports, replacements, rotations
\* and restarts leaves in the tables loads again (from_snapshot_at), with one
\* exception: while a Telnyx leg is bound by the attachment it consumed, no
\* bind receipt and no promotion explains that binding, and the load refuses
\* the rows.  No other call ever makes the repository refuse a later
\* transaction.  The load rebuilds connection_owners from the rows and so also
\* brings back the owners of retired attachments, which memory had forgotten.
\* No later transaction can tell: a route that may still be attached or bound,
\* a bound connection that reports and a pending connection that may be
\* promoted are owned after the load as they were before it.
ReloadDecidesAlike ==
    /\ OtherwiseLoads
    /\ \A b \in Unexplained : b \in attached /\ kind[b.leg] = "telnyx"
    /\ bindings \cap owners = bindings \cap LoadedOwners
    /\ \A k \in Key :
        LET owned(set) == \E o \in set : KeyOf(o) = k
            open == \/ Attachable(k[1], k[2]) /\ ~attachment[k].consumed
                         /\ ~attachment[k].revoked
                    \/ binding[k[1]] = k[2] /\ legState[k[1]] = "pending"
        IN  open => (owned(owners) <=> owned(LoadedOwners))
    /\ \A r \in replacement, c \in Conn :
        LET link == [conn |-> c, leg |-> r.leg, generation |-> r.pending]
        IN  r.kind = "telnyx" /\ ~attachment[KeyOf(link)].revoked =>
                (link \in owners <=> link \in LoadedOwners)

\* Every transaction can be written back, and the next one starts from what
\* this one left: it removes only rows whose removal persist_sqlite_delta and
\* persist_postgres_delta support, no statement of it meets a row that breaks
\* a UNIQUE or FOREIGN KEY constraint, the control effects it retires carry a
\* receipt the next load accepts, and in every table the rows updated, added
\* and deleted make up the snapshot of the repository after the operation.
TransactionsPersist ==
    [][\A after \in {Snapshot'} :
           /\ RemovesNothingElse(after) /\ ConstraintsHold(after)
           /\ RetirementsAreExplained
           /\ rows' = after]_svars
=============================================================================
