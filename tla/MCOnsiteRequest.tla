-------------------------- MODULE MCOnsiteRequest --------------------------
(* The on-site request outcomes with a handful of keys, bodies and workers. *)
EXTENDS OnsiteRequest, TLC

Symmetry == Permutations(Workers) \cup Permutations(Bodies)
=============================================================================
