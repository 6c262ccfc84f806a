----------------------------- MODULE MCLoopWorker -----------------------------
(* WR mixes for the runs of LoopWorker.                                        *)
EXTENDS LoopWorker

\* One WR of each shape the handlers tell apart.
AllKinds ==
  {[fault |-> "none", imm |-> FALSE, signaled |-> FALSE, payloads |-> 1],
   [fault |-> "none", imm |-> TRUE, signaled |-> TRUE, payloads |-> 2],
   [fault |-> "local", imm |-> FALSE, signaled |-> FALSE, payloads |-> 1],
   [fault |-> "target", imm |-> FALSE, signaled |-> FALSE, payloads |-> 1],
   [fault |-> "access", imm |-> TRUE, signaled |-> FALSE, payloads |-> 2],
   [fault |-> "none", imm |-> FALSE, signaled |-> TRUE, payloads |-> 0]}
=============================================================================
