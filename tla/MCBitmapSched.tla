---------------------------- MODULE MCBitmapSched ----------------------------
(***************************************************************************)
(* Small instances of the bitmap scheduler for TLC.                        *)
(***************************************************************************)
EXTENDS BitmapSchedProps, TLC

Symmetry == Permutations(Entities)
============================================================================
