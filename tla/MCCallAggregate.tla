------------------------- MODULE MCCallAggregate -------------------------
(***************************************************************************)
(* One inbound leg that a remote endpoint attaches and one outbound Telnyx *)
(* leg: together they reach every branch of the aggregate.                 *)
(***************************************************************************)
EXTENDS CallAggregate

CONSTANTS inLeg, outLeg

MCInitiator == [l \in Leg |-> IF l = inLeg THEN "remote" ELSE "bridgefu"]
MCDirection == [l \in Leg |-> IF l = inLeg THEN "inbound" ELSE "outbound"]
MCInitialKind == [l \in Leg |-> IF l = inLeg THEN "other" ELSE "telnyx"]
=============================================================================
