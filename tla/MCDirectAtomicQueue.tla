------------------------- MODULE MCDirectAtomicQueue -------------------------
(* Instances of DirectAtomicQueue for TLC: the values are in the .cfg files.   *)
EXTENDS DirectAtomicQueue
=============================================================================
