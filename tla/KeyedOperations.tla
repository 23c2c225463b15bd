-------------------------- MODULE KeyedOperations --------------------------
(***************************************************************************)
(* What an idempotency key promises to the clients of the call service:    *)
(* within one retention period at most one operation is performed for a    *)
(* key, and a client is told of success only with the result of that one   *)
(* operation, and only if it is the operation the client asked for.        *)
(***************************************************************************)
CONSTANTS
    Key,            \* idempotency keys of one tenant
    Request,        \* client requests
    KeyOf           \* [Request -> Key], the key a request carries

VARIABLES
    wanted,         \* [Request -> set of bodies that mean the request]
    performed,      \* [Key -> set of [body, result] performed in this period]
    told            \* {<<request, result>>} answered with success in it

\* A key may already hold the one operation of an earlier client.
Init ==
    /\ DOMAIN performed = Key
    /\ \A k \in Key : \A o, p \in performed[k] : o = p
    /\ told = {}

Tells(r, operation) ==
    /\ operation.body \in wanted[r]
    /\ told' = told \cup {<<r, operation.result>>}

\* An operation takes effect; the request that asked for it may hear of it.
Perform(k, operation) ==
    /\ performed[k] = {}
    /\ performed' = [performed EXCEPT ![k] = {operation}]
    /\ \/ told' = told
       \/ \E r \in Request : KeyOf[r] = k /\ Tells(r, operation)

\* A replay: a request with the key hears of the operation performed.
Replay(r) ==
    /\ \E operation \in performed[KeyOf[r]] : Tells(r, operation)
    /\ UNCHANGED performed

\* The retention period ends and every key may be used again.
Forget ==
    /\ performed' = [k \in Key |-> {}]
    /\ told' = {}

Next ==
    /\ UNCHANGED wanted
    /\ \/ \E k \in Key : \E operation \in performed'[k] : Perform(k, operation)
       \/ \E r \in Request : Replay(r)
       \/ Forget

Spec == Init /\ [][Next]_<<wanted, performed, told>>
=============================================================================
