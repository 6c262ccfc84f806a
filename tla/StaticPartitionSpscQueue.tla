---------------------- MODULE StaticPartitionSpscQueue ----------------------
(***************************************************************************)
(* StaticPartitionSpscQueue and static_partition_spsc_kernel                 *)
(* (src/gpu/persistent_copy.cu): warp w owns the task indices w,             *)
(* w + CopyWarps, w + 2 CopyWarps, ... of the one task ring, so no warp      *)
(* claims anything; the host polls completions in submission order by the    *)
(* sequence number of their slots.                                           *)
(***************************************************************************)
EXTENDS PersistentCopyQueue

\* Members of the queue object, and cleared completion slots.
Host(launched) == [submit_tail |-> 0, completion_head |-> 0,
                       accepting |-> launched, running |-> launched]
CompletionSlots == [s \in Slots |-> [task |-> NoTask, sequence |-> 0]]

\* Cleared control words and the registers of warps that have just been launched.
Control == [task_tail |-> 0, stop_requested |-> FALSE]
Registers(owned) == [pc |-> "tail", owned |-> owned, count |-> 0, tasks |-> <<>>, done |-> 0,
                     lanes |-> {}]
Launched == [w \in Warps |-> Registers(w)]

\* After allocate.
Init == Zeroed(Control, CompletionSlots, Launched) /\ host = Host(FALSE)

\* Mutant of Start: completions of the previous start stay in their slots.
StartKeepingCompletions ==
  /\ ~host.running
  /\ \E launched \in BOOLEAN : host' = Host(launched)
  /\ ZeroedNext(Control, completion_slots, Launched)

\* start clears the memory and launches the kernel, which can fail.
Start == /\ ~host.running
         /\ \E launched \in BOOLEAN : host' = Host(launched)
         /\ ZeroedNext(Control, CompletionSlots, Launched)

\* try_submit_batch: as many of the requested tasks as there is room for, published by one release store.
TrySubmitBatch(requested) ==
  LET outstanding == host.submit_tail - host.completion_head
      count == Least(requested, Capacity - outstanding)
      new == host.submit_tail..(host.submit_tail + count - 1)
  IN /\ host.running /\ host.accepting /\ outstanding < Capacity
     /\ host.submit_tail + count <= MaxTasks
     /\ task_slots' = [s \in Slots |-> IF \E t \in new : t % Capacity = s
                                       THEN CHOOSE t \in new : t % Capacity = s
                                       ELSE task_slots[s]]
     /\ host' = [host EXCEPT !.submit_tail = @ + count]
     /\ control' = [control EXCEPT !.task_tail = host.submit_tail + count]
     /\ UNCHANGED <<completion_slots, warps, copied, delivered>>

\* try_poll: the next completion, once its slot carries its sequence number.
TryPoll ==
  LET slot == completion_slots[host.completion_head % Capacity]
  IN /\ slot.sequence = host.completion_head + 1
     /\ host' = [host EXCEPT !.completion_head = @ + 1]
     /\ delivered' = Append(delivered, slot.task)
     /\ UNCHANGED <<control, task_slots, completion_slots, warps, copied>>

RequestStop ==
  /\ host.running /\ host.accepting
  /\ host' = [host EXCEPT !.accepting = FALSE]
  /\ control' = [control EXCEPT !.stop_requested = TRUE]
  /\ UNCHANGED <<task_slots, completion_slots, warps, copied, delivered>>

Wait == WaitForExit

-----------------------------------------------------------------------------
(* Copy warp w.                                                             *)

\* The tasks of warp w between its position and tail.
Owned(w, tail) == Least(((tail - 1 - warps[w].owned) \div CopyWarps) + 1, DeviceBatch)

\* Lane 0 loads the tail, and if nothing is owned below it the stop flag and then
\* the tail once more.
LoadTail(w) ==
  /\ warps[w].pc = "tail"
  /\ warps' = IF warps[w].owned >= control.task_tail
              THEN [warps EXCEPT ![w].pc = "stop"]
              ELSE [warps EXCEPT ![w].pc = "read", ![w].count = Owned(w, control.task_tail)]
  /\ UNCHANGED <<control, task_slots, completion_slots, host, copied, delivered>>

LoadStop(w) ==
  /\ warps[w].pc = "stop"
  /\ warps' = [warps EXCEPT ![w].pc = IF control.stop_requested THEN "final" ELSE "tail"]
  /\ UNCHANGED <<control, task_slots, completion_slots, host, copied, delivered>>

LoadFinal(w) ==
  /\ warps[w].pc = "final"
  /\ warps' = IF warps[w].owned >= control.task_tail
              THEN [warps EXCEPT ![w].pc = "exited"]
              ELSE [warps EXCEPT ![w].pc = "read", ![w].count = Owned(w, control.task_tail)]
  /\ UNCHANGED <<control, task_slots, completion_slots, host, copied, delivered>>

\* Each lane reads the slot of one task of the batch.
ReadTasks(w) ==
  /\ warps[w].pc = "read"
  /\ warps' = [warps EXCEPT ![w].pc = "copy", ![w].done = 0,
                 ![w].tasks = [i \in 1..warps[w].count |->
                                 task_slots[(warps[w].owned + (i - 1) * CopyWarps) % Capacity]]]
  /\ UNCHANGED <<control, task_slots, completion_slots, host, copied, delivered>>

\* The warp copies the tasks of the batch one after the other.
CopyTask(w) ==
  /\ warps[w].pc = "copy"
  /\ copied' = [copied EXCEPT ![warps[w].tasks[warps[w].done + 1]] = @ + 1]
  /\ warps' = IF warps[w].done + 1 = warps[w].count
              THEN [warps EXCEPT ![w].pc = "complete", ![w].lanes = 1..warps[w].count]
              ELSE [warps EXCEPT ![w].done = @ + 1]
  /\ UNCHANGED <<control, task_slots, completion_slots, host, delivered>>

\* Each lane publishes the completion of its task; the lanes store independently.
Complete(w, lane) ==
  LET index == warps[w].owned + (lane - 1) * CopyWarps
  IN /\ warps[w].pc = "complete" /\ lane \in warps[w].lanes
     /\ completion_slots' = [completion_slots EXCEPT ![index % Capacity] =
                               [task |-> warps[w].tasks[lane], sequence |-> index + 1]]
     /\ warps' = IF warps[w].lanes = {lane}
                 THEN [warps EXCEPT ![w] = Registers(@.owned + @.count * CopyWarps)]
                 ELSE [warps EXCEPT ![w].lanes = @ \ {lane}]
     /\ UNCHANGED <<control, task_slots, host, copied, delivered>>

Copier(w) == \/ LoadTail(w) \/ LoadStop(w) \/ LoadFinal(w) \/ ReadTasks(w) \/ CopyTask(w)
             \/ \E lane \in 1..DeviceBatch : Complete(w, lane)

Next == \/ \E requested \in 1..Capacity : TrySubmitBatch(requested)
        \/ Start \/ TryPoll \/ RequestStop \/ Wait
        \/ \E w \in Warps : Copier(w)

-----------------------------------------------------------------------------
(* Properties.                                                              *)

\* A warp stays within the indices it owns, and positions within the ring.
TypeOK ==
  /\ task_slots \in [Slots -> 0..MaxTasks]
  /\ completion_slots \in [Slots -> [task : 0..MaxTasks, sequence : 0..MaxTasks]]
  /\ host \in [submit_tail : 0..MaxTasks, completion_head : 0..MaxTasks,
               accepting : BOOLEAN, running : BOOLEAN]
  /\ copied \in [Tasks -> Nat] /\ delivered \in Seq(0..MaxTasks)
  /\ control \in [task_tail : 0..MaxTasks, stop_requested : BOOLEAN]
  /\ \A w \in Warps : warps[w].owned % CopyWarps = w /\ warps[w].owned <= MaxTasks + CopyWarps

\* The queue as its user sees it: copies happen once, completions come in order.
Queue == INSTANCE OrderedCopyQueue WITH
           submitted <- host.submit_tail,
           copied <- {t \in Tasks : copied[t] = 1}
=============================================================================
