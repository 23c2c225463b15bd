-------------------------- MODULE MCProviderEvents --------------------------
EXTENDS ProviderEvents

\* An applied event is settled: no action reads its claimant, its attempt or,
\* unless it is a hangup, its client state again, and no property does.
Settled(e) ==
    IF e.status # "applied" THEN e
    ELSE [e EXCEPT !.by = 0, !.attempt = 0,
                   !.client = IF e.kind = "hangup" THEN @ ELSE "dial"]

Ends == call \in {"ending", "terminal"}

\* The state as far as actions and properties tell it apart.  Nothing reads
\* the kind of no replacement, the submission of a finished transfer, the
\* counters of a call that ends, or the leg of one that has ended.
Observable ==
    <<call, peer, generation, pending, attached,
      IF call = "terminal" THEN "none" ELSE <<leg, kind>>,
      IF Ends THEN 0 ELSE <<cursor, attempt>>,
      IF pending = 0 THEN "none" ELSE pendingKind,
      dialed, refs, linked, transfers,
      IF call = "transferring" THEN submitting \cap {<<generation, attempt>>} ELSE {},
      [i \in DOMAIN events |-> Settled(events[i])], fence, lease>>
=============================================================================
