------------------------------ MODULE MCBkQueue ------------------------------
(* Instances of BkQueue for TLC. *)
EXTENDS BkQueue, TLC

Symmetry == Permutations(Heads) \cup Permutations(Elements)
=============================================================================
