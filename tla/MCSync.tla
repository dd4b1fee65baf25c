------------------------------- MODULE MCSync -------------------------------
(***************************************************************************)
(* Small instances of okfit sync for TLC.                                  *)
(***************************************************************************)
EXTENDS Sync, TLC

Symmetry == Permutations(Concepts)
=============================================================================
