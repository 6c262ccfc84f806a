----------------------- MODULE MCPersistentCopyModels -----------------------
(* Instances of PersistentCopyModels for TLC: the values are in the .cfg file. *)
EXTENDS PersistentCopyModels
=============================================================================
