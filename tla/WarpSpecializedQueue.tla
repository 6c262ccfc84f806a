------------------------- MODULE WarpSpecializedQueue -------------------------
(***************************************************************************)
(* The host side of WarpSpecializedQueue (src/gpu/persistent_copy.cu): the   *)
(* task and completion rings in mapped pinned memory, shared with one CTA of *)
(* a persistent kernel.  Two kernels can be launched on it; WarpSpecialized- *)
(* Kernel and PipelineKernel extend this module.                             *)
(*                                                                          *)
(* A task is its submission index.  copied and delivered are history: how    *)
(* often a task was copied, and the completions try_poll returned.           *)
(***************************************************************************)
EXTENDS Naturals, Sequences, FiniteSets

CONSTANTS Capacity,      \* slots of each external ring, a power of two
          MetaBatch,     \* kWarpSpecializedMetaBatch
          Depth,         \* shared_queue_depth: slots of each shared-memory queue
          CopyWarps,     \* copy warps of the CTA
          MaxTasks       \* bound: tasks ever submitted

ASSUME QueueAssumption ==
  /\ Capacity \in Nat \ {0} /\ \E k \in 0..31 : Capacity = 2^k
  /\ Depth \in Nat \ {0} /\ \E k \in 1..9 : Depth = 2^k
  /\ MetaBatch \in 1..Capacity /\ CopyWarps \in Nat \ {0} /\ MaxTasks \in Nat

VARIABLES
  control,         \* WarpSpecializedControl: task_tail, completion_tail, stop_requested
  task_slots,      \* the external task ring
  completion_slots,\* the external completion ring
  host,            \* submit_tail, completion_head, cached_completion_tail, accepting, running
  copied,          \* history: copies made of each task
  delivered        \* history: completions polled

external == <<control, task_slots, completion_slots, host>>

Tasks == 0..(MaxTasks - 1)
Slots == 0..(Capacity - 1)
NoTask == MaxTasks
Least(a, b) == IF a < b THEN a ELSE b

\* start_impl: zeroed memory, and the launch.
HostInit ==
  /\ control = [task_tail |-> 0, completion_tail |-> 0, stop_requested |-> FALSE]
  /\ task_slots = [s \in Slots |-> NoTask]
  /\ completion_slots = [s \in Slots |-> NoTask]
  /\ host = [submit_tail |-> 0, completion_head |-> 0, cached_completion_tail |-> 0,
             accepting |-> TRUE, running |-> TRUE]
  /\ copied = [t \in Tasks |-> 0]
  /\ delivered = <<>>

\* Slots try_submit_batch may fill.
Available == Capacity - (host.submit_tail - host.completion_head)

\* try_submit_batch of requested tasks: as many as there is room for, published by one
\* release store.
TrySubmitBatch(requested) ==
  /\ host.running /\ host.accepting /\ Available > 0
  /\ host.submit_tail + Least(requested, Available) <= MaxTasks
  /\ LET count == Least(requested, Available)
         new == host.submit_tail..(host.submit_tail + count - 1)
     IN /\ task_slots' = [s \in Slots |-> IF \E t \in new : t % Capacity = s
                                          THEN CHOOSE t \in new : t % Capacity = s
                                          ELSE task_slots[s]]
        /\ host' = [host EXCEPT !.submit_tail = @ + count]
        /\ control' = [control EXCEPT !.task_tail = host.submit_tail + count]
  /\ UNCHANGED <<completion_slots, copied, delivered>>

\* Mutant of TryPoll: the slot behind the last completion is taken for one.
TryPollOffByOne ==
  LET cached == IF host.completion_head >= host.cached_completion_tail
                THEN control.completion_tail ELSE host.cached_completion_tail
  IN /\ IF host.completion_head > cached \/ host.completion_head = host.submit_tail
        THEN host' = [host EXCEPT !.cached_completion_tail = cached] /\ UNCHANGED delivered
        ELSE /\ delivered' = Append(delivered, completion_slots[host.completion_head % Capacity])
             /\ host' = [host EXCEPT !.cached_completion_tail = cached, !.completion_head = @ + 1]
     /\ UNCHANGED <<control, task_slots, completion_slots, copied>>

\* try_poll: the completion tail is loaded only when the cached one is used up.
TryPoll ==
  LET cached == IF host.completion_head >= host.cached_completion_tail
                THEN control.completion_tail ELSE host.cached_completion_tail
  IN /\ IF host.completion_head >= cached
        THEN host' = [host EXCEPT !.cached_completion_tail = cached] /\ UNCHANGED delivered
        ELSE /\ delivered' = Append(delivered, completion_slots[host.completion_head % Capacity])
             /\ host' = [host EXCEPT !.cached_completion_tail = cached, !.completion_head = @ + 1]
     /\ UNCHANGED <<control, task_slots, completion_slots, copied>>

RequestStop ==
  /\ host.running /\ host.accepting
  /\ host' = [host EXCEPT !.accepting = FALSE]
  /\ control' = [control EXCEPT !.stop_requested = TRUE]
  /\ UNCHANGED <<task_slots, completion_slots, copied, delivered>>

\* wait returns when the kernel has exited (cudaDeviceSynchronize).
Wait(exited) ==
  /\ host.running /\ ~host.accepting /\ exited
  /\ host' = [host EXCEPT !.running = FALSE]
  /\ UNCHANGED <<control, task_slots, completion_slots, copied, delivered>>

HostNext == \/ \E requested \in 1..MetaBatch : TrySubmitBatch(requested)
            \/ TryPoll \/ RequestStop

\* What the two ends of the external rings may hold.
HostTypeOK ==
  /\ control \in [task_tail : 0..MaxTasks, completion_tail : 0..MaxTasks, stop_requested : BOOLEAN]
  /\ task_slots \in [Slots -> 0..MaxTasks] /\ completion_slots \in [Slots -> 0..MaxTasks]
  /\ host \in [submit_tail : 0..MaxTasks, completion_head : 0..MaxTasks,
               cached_completion_tail : 0..MaxTasks, accepting : BOOLEAN, running : BOOLEAN]
  /\ copied \in [Tasks -> Nat] /\ delivered \in Seq(0..MaxTasks)
=============================================================================
