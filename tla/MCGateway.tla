----------------------------- MODULE MCGateway -----------------------------
(***************************************************************************)
(* Two tasks of one call: attachments of the same leg, both of which can   *)
(* outlive the retirement of all routes, an attachment and a listener sent *)
(* to another worker, an attachment and the destination it is proxied to.  *)
(***************************************************************************)
EXTENDS Gateway

CONSTANTS t1, t2, w1, w2, leg, other, call

Job(k, d, w) == [kind |-> k, key |-> d, worker |-> w]

MCJobs == {[t \in Task |-> IF t = t1 THEN j[1] ELSE j[2]] :
              j \in {<<Job("native", leg, w1), Job("native", leg, w1)>>,
                     <<Job("uctp", leg, w1), Job("broadcast", other, w2)>>,
                     <<Job("native", leg, w1), Job("egress", other, w1)>>}}
MCCallOf == [k \in Key |-> call]
=============================================================================
