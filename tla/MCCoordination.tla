--------------------------- MODULE MCCoordination ---------------------------
(***************************************************************************)
(* Instances of Coordination for TLC.                                      *)
(***************************************************************************)
EXTENDS Coordination, TLC

\* Every projector process runs under one name, as a restarted worker and its
\* paused predecessor do: only the claim generation tells them apart.
SharedName(p) == "worker"

ProjectorSymmetry == Permutations(Projector)
=============================================================================
