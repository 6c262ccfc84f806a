-------------------------- MODULE DirectAtomicQueue --------------------------
(***************************************************************************)
(* DirectAtomicQueue and direct_atomic_kernel (src/gpu/persistent_copy.cu):  *)
(* one task ring and one completion ring in mapped pinned memory.  A copy    *)
(* warp claims tasks with a compare and swap on task_head, reserves as many  *)
(* completion indices with an atomic add on completion_tail, and then reads, *)
(* copies and completes task by task.  Each load, store and atomic that the  *)
(* host or another warp can see is a step of its own.                        *)
(*                                                                          *)
(* A task is its submission index.  copied and delivered are history.        *)
(***************************************************************************)
EXTENDS Naturals, Sequences, FiniteSets

CONSTANTS Capacity,       \* slots of each ring, a power of two
          DeviceBatch,    \* TasksPerClaim
          CopyWarps,      \* copy warps of the kernel
          MaxTasks        \* bound: tasks submitted after one start

VARIABLES
  control,          \* DirectAtomicControl: task_tail, task_head, completion_tail, stop_requested
  task_slots, completion_slots,
  host,             \* submit_tail, completion_head, accepting, running
  warps,            \* the registers of each warp
  copied, delivered

vars == <<control, task_slots, completion_slots, host, warps, copied, delivered>>

Tasks == 0..(MaxTasks - 1)
Slots == 0..(Capacity - 1)
Warps == 0..(CopyWarps - 1)
NoTask == MaxTasks
Least(a, b) == IF a < b THEN a ELSE b

\* Members of the queue object, and cleared slots.
Host(launched) == [submit_tail |-> 0, completion_head |-> 0,
                   accepting |-> launched, running |-> launched]
TaskSlots == [s \in Slots |-> NoTask]
CompletionSlots == [s \in Slots |-> [task |-> NoTask, sequence |-> 0]]

\* Cleared control words and the registers of warps that have just been launched.
Control == [task_tail |-> 0, task_head |-> 0, completion_tail |-> 0, stop_requested |-> FALSE]
Launched == [w \in Warps |-> [pc |-> "tail", tail |-> 0, head |-> 0, count |-> 0,
                              done |-> 0, completion |-> 0, task |-> NoTask]]

\* After allocate.
Init == /\ control = Control /\ task_slots = TaskSlots /\ completion_slots = CompletionSlots
        /\ warps = Launched /\ host = Host(FALSE)
        /\ copied = [t \in Tasks |-> 0] /\ delivered = <<>>

\* start clears the memory and launches the kernel, which can fail.
Start == /\ ~host.running
         /\ \E launched \in BOOLEAN : host' = Host(launched)
         /\ control' = Control /\ task_slots' = TaskSlots /\ completion_slots' = CompletionSlots
         /\ warps' = Launched /\ copied' = [t \in Tasks |-> 0] /\ delivered' = <<>>

-----------------------------------------------------------------------------
(* Host.                                                                    *)

\* Mutant of TrySubmitBatch: one task more than the ring has slots may be outstanding.
TrySubmitBatchOverfull(requested) ==
  LET outstanding == host.submit_tail - host.completion_head
      count == Least(requested, Capacity + 1 - outstanding)
      new == host.submit_tail..(host.submit_tail + count - 1)
  IN /\ host.running /\ host.accepting /\ outstanding <= Capacity
     /\ host.submit_tail + count <= MaxTasks
     /\ task_slots' = [s \in Slots |-> IF \E t \in new : t % Capacity = s
                                       THEN CHOOSE t \in new : t % Capacity = s
                                       ELSE task_slots[s]]
     /\ host' = [host EXCEPT !.submit_tail = @ + count]
     /\ control' = [control EXCEPT !.task_tail = host.submit_tail + count]
     /\ UNCHANGED <<completion_slots, warps, copied, delivered>>

\* try_submit_batch: as many of the requested tasks as there is room for, published by one release store.
TrySubmitBatch(requested) ==
  LET outstanding == host.submit_tail - host.completion_head
      count == Least(requested, Capacity - outstanding)
      new == host.submit_tail..(host.submit_tail + count - 1)
  IN /\ host.running /\ host.accepting /\ outstanding < Capacity
     /\ host.submit_tail + count <= MaxTasks
     /\ task_slots' = [s \in Slots |-> IF \E t \in new : t % Capacity = s
                                       THEN CHOOSE t \in new : t % Capacity = s
                                       ELSE task_slots[s]]
     /\ host' = [host EXCEPT !.submit_tail = @ + count]
     /\ control' = [control EXCEPT !.task_tail = host.submit_tail + count]
     /\ UNCHANGED <<completion_slots, warps, copied, delivered>>

\* try_poll: the next completion, once its slot carries its sequence number.
TryPoll ==
  LET slot == completion_slots[host.completion_head % Capacity]
  IN /\ slot.sequence = host.completion_head + 1
     /\ host' = [host EXCEPT !.completion_head = @ + 1]
     /\ delivered' = Append(delivered, slot.task)
     /\ UNCHANGED <<control, task_slots, completion_slots, warps, copied>>

RequestStop ==
  /\ host.running /\ host.accepting
  /\ host' = [host EXCEPT !.accepting = FALSE]
  /\ control' = [control EXCEPT !.stop_requested = TRUE]
  /\ UNCHANGED <<task_slots, completion_slots, warps, copied, delivered>>

Exited == \A w \in Warps : warps[w].pc = "exited"

\* wait returns when the kernel has exited (cudaDeviceSynchronize).
Wait ==
  /\ host.running /\ ~host.accepting /\ Exited
  /\ host' = [host EXCEPT !.running = FALSE]
  /\ UNCHANGED <<control, task_slots, completion_slots, warps, copied, delivered>>

-----------------------------------------------------------------------------
(* Copy warp w.                                                             *)

LoadTail(w) ==
  /\ warps[w].pc = "tail"
  /\ warps' = [warps EXCEPT ![w].pc = "head", ![w].tail = control.task_tail]
  /\ UNCHANGED <<control, task_slots, completion_slots, host, copied, delivered>>

LoadHead(w) ==
  /\ warps[w].pc = "head"
  /\ warps' = [warps EXCEPT ![w].pc = IF control.task_head < warps[w].tail THEN "claim" ELSE "stop",
                            ![w].head = control.task_head]
  /\ UNCHANGED <<control, task_slots, completion_slots, host, copied, delivered>>

\* The compare and swap fails when another warp was faster.
Claim(w) ==
  LET count == Least(warps[w].tail - warps[w].head, DeviceBatch)
  IN /\ warps[w].pc = "claim"
     /\ IF control.task_head = warps[w].head
        THEN /\ control' = [control EXCEPT !.task_head = warps[w].head + count]
             /\ warps' = [warps EXCEPT ![w].pc = "reserve", ![w].count = count]
        ELSE warps' = [warps EXCEPT ![w].pc = "tail"] /\ UNCHANGED control
     /\ UNCHANGED <<task_slots, completion_slots, host, copied, delivered>>

LoadStop(w) ==
  /\ warps[w].pc = "stop"
  /\ warps' = [warps EXCEPT ![w].pc = IF control.stop_requested THEN "final" ELSE "tail"]
  /\ UNCHANGED <<control, task_slots, completion_slots, host, copied, delivered>>

\* After the flag was seen the tail no longer moves; tail and head are read again.
LoadFinal(w) ==
  /\ warps[w].pc = "final"
  /\ warps' = [warps EXCEPT ![w].pc = IF control.task_head >= control.task_tail THEN "exited"
                                      ELSE "tail"]
  /\ UNCHANGED <<control, task_slots, completion_slots, host, copied, delivered>>

\* Mutant of Reserve: one completion index however many tasks were claimed.
ReserveOne(w) ==
  /\ warps[w].pc = "reserve"
  /\ warps' = [warps EXCEPT ![w].pc = "read", ![w].completion = control.completion_tail,
                            ![w].done = 0]
  /\ control' = [control EXCEPT !.completion_tail = @ + 1]
  /\ UNCHANGED <<task_slots, completion_slots, host, copied, delivered>>

Reserve(w) ==
  /\ warps[w].pc = "reserve"
  /\ warps' = [warps EXCEPT ![w].pc = "read", ![w].completion = control.completion_tail,
                            ![w].done = 0]
  /\ control' = [control EXCEPT !.completion_tail = @ + warps[w].count]
  /\ UNCHANGED <<task_slots, completion_slots, host, copied, delivered>>

\* The task is read from its slot, whatever is there by now.
ReadTask(w) ==
  /\ warps[w].pc = "read"
  /\ warps' = [warps EXCEPT ![w].pc = "copy",
                            ![w].task = task_slots[(warps[w].head + warps[w].done) % Capacity]]
  /\ UNCHANGED <<control, task_slots, completion_slots, host, copied, delivered>>

CopyTask(w) ==
  /\ warps[w].pc = "copy"
  /\ copied' = [copied EXCEPT ![warps[w].task] = @ + 1]
  /\ warps' = [warps EXCEPT ![w].pc = "complete"]
  /\ UNCHANGED <<control, task_slots, completion_slots, host, delivered>>

\* The completion, published by the release store of its sequence number.
Complete(w) ==
  LET index == warps[w].completion + warps[w].done
      more == warps[w].done + 1 < warps[w].count
  IN /\ warps[w].pc = "complete"
     /\ completion_slots' = [completion_slots EXCEPT ![index % Capacity] =
                               [task |-> warps[w].task, sequence |-> index + 1]]
     /\ warps' = [warps EXCEPT ![w].pc = IF more THEN "read" ELSE "tail", ![w].done = @ + 1,
                               ![w].task = NoTask]
     /\ UNCHANGED <<control, task_slots, host, copied, delivered>>

Copier(w) == \/ LoadTail(w) \/ LoadHead(w) \/ Claim(w) \/ LoadStop(w) \/ LoadFinal(w)
             \/ Reserve(w) \/ ReadTask(w) \/ CopyTask(w) \/ Complete(w)

Next == \/ \E requested \in 1..Capacity : TrySubmitBatch(requested)
        \/ Start \/ TryPoll \/ RequestStop \/ Wait
        \/ \E w \in Warps : Copier(w)

Spec == Init /\ [][Next]_vars

-----------------------------------------------------------------------------
(* Properties.                                                              *)

\* Every variable has its type; heads never pass tails.
TypeOK ==
  /\ control \in [task_tail : 0..MaxTasks, task_head : 0..MaxTasks,
                  completion_tail : 0..MaxTasks, stop_requested : BOOLEAN]
  /\ control.completion_tail <= control.task_head /\ control.task_head <= control.task_tail
  /\ task_slots \in [Slots -> 0..MaxTasks]
  /\ completion_slots \in [Slots -> [task : 0..MaxTasks, sequence : 0..MaxTasks]]
  /\ host \in [submit_tail : 0..MaxTasks, completion_head : 0..MaxTasks,
               accepting : BOOLEAN, running : BOOLEAN]
  /\ copied \in [Tasks -> Nat] /\ delivered \in Seq(0..MaxTasks)

\* The completion indices a warp has reserved and not yet published.
Reserved(w) == IF warps[w].pc \in {"read", "copy", "complete"}
               THEN (warps[w].completion + warps[w].done)..(warps[w].completion + warps[w].count - 1)
               ELSE {}

\* A reserved completion index belongs to one warp, and its slot holds no completion the
\* host has yet to poll: the rounds of the completion ring never overlap, and no
\* head passes its tail.
CompletionsKept ==
  /\ TypeOK
  /\ \A v, w \in Warps : v # w => Reserved(v) \cap Reserved(w) = {}
  /\ \A w \in Warps : \A i \in Reserved(w) :
       /\ i >= host.completion_head /\ i < host.completion_head + Capacity
       /\ completion_slots[i % Capacity].sequence <= host.completion_head

\* What the step document says of every queue model: no task is lost or repeated.
\* Violated: completion indices are reserved after the claim, so a later task's
\* completion can free the room of a claimed task that has not been read; the host
\* then overwrites its slot.
EveryTaskOnce == \A t \in Tasks : copied[t] <= 1
=============================================================================
