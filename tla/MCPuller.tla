------------------------------ MODULE MCPuller -------------------------------
(* Model checking of the Puller fed with arbitrary commands. *)
EXTENDS Puller, TLC

Symmetry == Permutations(Workers)
=============================================================================
