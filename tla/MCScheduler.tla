---------------------------- MODULE MCScheduler ----------------------------
(***************************************************************************)
(* Small instances of Scheduler for TLC. Chain fibers and ceilings are     *)
(* interchangeable, so permuting them is a symmetry of the safety runs.    *)
(***************************************************************************)
EXTENDS Scheduler, TLC

Symmetry == Permutations(Fibers) \union Permutations(Cycles)
=============================================================================
