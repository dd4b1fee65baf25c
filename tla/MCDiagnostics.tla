--------------------------- MODULE MCDiagnostics ---------------------------
(***************************************************************************)
(* Small instances of the diagnostics pipeline for TLC.                    *)
(***************************************************************************)
EXTENDS Diagnostics, TLC

Symmetry == Permutations(Docs) \union Permutations(Handles)
=============================================================================
