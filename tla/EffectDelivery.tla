--------------------------- MODULE EffectDelivery ---------------------------
(***************************************************************************)
(* What the durable outbox promises its users: the effects of one call are *)
(* finished one at a time, in the order in which they were committed, and  *)
(* none is finished twice or skipped, whichever process carries them out.  *)
(* CallRepository implements it (InOrderDelivery).                         *)
(***************************************************************************)
EXTENDS Naturals

CONSTANTS
    Call,                \* call identifiers
    MaxBatch             \* bound: effects of one command

VARIABLES
    emitted,             \* [Call -> Nat], how many effects were committed
    finished             \* [Call -> SUBSET Nat], positions of the finished ones

vars == <<emitted, finished>>

Init == emitted = [c \in Call |-> 0] /\ finished = [c \in Call |-> {}]

\* The head of the queue: the oldest effect that is not finished.
IsHead(c, i) ==
    /\ i \in (1 .. emitted[c]) \ finished[c]
    /\ 1 .. (i - 1) \subseteq finished[c]

\* A command commits n more effects.
Emit(c, n) ==
    /\ emitted' = [emitted EXCEPT ![c] = @ + n]
    /\ UNCHANGED finished

\* The head is finished, and its result may commit n more effects.
Finish(c, i, n) ==
    /\ IsHead(c, i)
    /\ finished' = [finished EXCEPT ![c] = @ \cup {i}]
    /\ emitted' = [emitted EXCEPT ![c] = @ + n]

Next ==
    \E c \in Call, n \in 0 .. MaxBatch :
        Emit(c, n) \/ \E i \in 1 .. emitted[c] : Finish(c, i, n)

Spec == Init /\ [][Next]_vars
=============================================================================
