----------------------------- MODULE MCRegistry -----------------------------
(***************************************************************************)
(* Small instances of the registry for TLC.                                *)
(***************************************************************************)
EXTENDS Registry, TLC

CONSTANTS r1, r2, f1, f2

Symmetry == Permutations(Handles)

\* The two folders resolve to one root, to a root each, or one of them does not load.
SharedSplitBroken == {f1 :> r1 @@ f2 :> r1, f1 :> r1 @@ f2 :> r2, f1 :> Broken @@ f2 :> r1}

\* A config that does not load, and the same config fixed.
BrokenFixed == {f1 :> Broken @@ f2 :> r1, f1 :> r1 @@ f2 :> r1}
=============================================================================
