--------------------------- MODULE MCLegExecution ---------------------------
(* The instances of LegExecution that TLC checks. *)
EXTENDS LegExecution

Plan(k, g, first) == [kind |-> k, gate |-> g, order |-> <<first, Other(first)>>]

NamedAmazon == Plan("amazon", "gated", "out")
Parallel == Plan("sip", "parallel", "in")
SomePlans == {NamedAmazon, Parallel}

=============================================================================
