------------------------ MODULE PersistentCopyQueue ------------------------
(***************************************************************************)
(* What the queue models that divide the tasks among the warps have in       *)
(* common (src/gpu/persistent_copy.cu): a configuration, rings in mapped     *)
(* pinned memory, a host that submits batches and polls completions, and the *)
(* copy warps of one persistent kernel.  StaticPartitionSpscQueue and        *)
(* DynamicShardedSpscQueue extend this module.                               *)
(*                                                                          *)
(* A task is its submission index.  copied and delivered are history, of the *)
(* current start only.                                                       *)
(***************************************************************************)
EXTENDS Naturals, Sequences, FiniteSets

CONSTANTS Capacity,       \* outstanding_capacity
          DeviceBatch,    \* device_batch: tasks a warp takes at a time
          CopyWarps,      \* copy_warps
          MaxTasks        \* bound: tasks submitted after one start

VARIABLES
  control,          \* cursors and stop flag the host and the kernel share
  task_slots, completion_slots,
  host,             \* the members of the queue object
  warps,            \* the registers of each warp
  copied,           \* history: copies made of each task
  delivered         \* history: completions polled

vars == <<control, task_slots, completion_slots, host, warps, copied, delivered>>

IsPowerOfTwo(n) == \E k \in 0..31 : n = 2^k

\* validate_persistent_copy_config, for a model that divides the ring among the
\* warps: counts of warps are powers of two and divide the capacity.  (The build has
\* kernels for 4 to 32 warps; the checked instances use 2.)
ValidConfig ==
  /\ IsPowerOfTwo(Capacity)
  /\ IsPowerOfTwo(DeviceBatch) /\ DeviceBatch <= Capacity
  /\ IsPowerOfTwo(CopyWarps) /\ CopyWarps <= 32 /\ CopyWarps <= Capacity

ASSUME ConfigAssumption == ValidConfig /\ MaxTasks \in Nat

Tasks == 0..(MaxTasks - 1)
Slots == 0..(Capacity - 1)
Warps == 0..(CopyWarps - 1)
NoTask == MaxTasks
Least(a, b) == IF a < b THEN a ELSE b

Exited == \A w \in Warps : warps[w].pc = "exited"

EmptyTaskSlots == [s \in Slots |-> NoTask]
NothingCopied == [t \in Tasks |-> 0]

\* Memory and registers that start has cleared: before the first start, and after one.
Zeroed(control0, completions0, warps0) ==
  /\ control = control0 /\ task_slots = EmptyTaskSlots /\ completion_slots = completions0
  /\ warps = warps0 /\ copied = NothingCopied /\ delivered = <<>>
ZeroedNext(control0, completions0, warps0) ==
  /\ control' = control0 /\ task_slots' = EmptyTaskSlots /\ completion_slots' = completions0
  /\ warps' = warps0 /\ copied' = NothingCopied /\ delivered' = <<>>

\* wait returns when the kernel has exited (cudaDeviceSynchronize).
WaitForExit ==
  /\ host.running /\ ~host.accepting /\ Exited
  /\ host' = [host EXCEPT !.running = FALSE]
  /\ UNCHANGED <<control, task_slots, completion_slots, warps, copied, delivered>>
=============================================================================
