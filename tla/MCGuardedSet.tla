----------------------------- MODULE MCGuardedSet -----------------------------
(***************************************************************************)
(* Small sets of threads and paths for the two uses of GuardedSet.         *)
(***************************************************************************)
EXTENDS GuardedSet, TLC

Symmetry == Permutations(Values)
==============================================================================
