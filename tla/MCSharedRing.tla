----------------------------- MODULE MCSharedRing -----------------------------
(* A ring of three slots, so that no power of two hides a wrap error, and      *)
(* positions up to seven: every slot is reused or skipped by a wrapped batch.   *)
EXTENDS SharedRing, TLC

ValueSymmetry == Permutations(Values)
=============================================================================
