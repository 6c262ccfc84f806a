---------------------- MODULE MCPersistentCudaCopyBackend ----------------------
(* Instances of PersistentCudaCopyBackend for TLC. *)
EXTENDS PersistentCudaCopyBackend
=============================================================================
