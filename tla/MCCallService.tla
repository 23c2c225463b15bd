--------------------------- MODULE MCCallService ---------------------------
\* Two clients that share an idempotency key.
EXTENDS CallService, TLC

CONSTANTS r1, r2, k1

MCKeys == (r1 :> k1) @@ (r2 :> k1)
Ask(op, digest, legacy) == [op |-> op, digest |-> digest, legacy |-> legacy]
Two(a, b) == (r1 :> a) @@ (r2 :> b)

\* The same operation twice, an operation and another one under its key, and
\* a create whose receipt an older release wrote.
MCScenario ==
    {Two(Ask(op, 1, 0), Ask(op, 1, 0)) : op \in Op}
      \cup {Two(Ask("create", 1, 0), Ask("create", 2, 0)),
            Two(Ask("create", 1, 3), Ask("hangup", 2, 0)),
            Two(Ask("dtmf", 1, 0), Ask("transfer", 2, 0))}
=============================================================================
