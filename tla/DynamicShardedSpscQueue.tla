---------------------- MODULE DynamicShardedSpscQueue ----------------------
(***************************************************************************)
(* DynamicShardedSpscQueue and dynamic_sharded_spsc_kernel                   *)
(* (src/gpu/persistent_copy.cu): the capacity is divided into one ring per   *)
(* warp, a lane.  The host puts each task into the next lane with room and   *)
(* stores the tails of the lanes it changed one by one; each warp works      *)
(* through its own lane in order, and the host polls the lanes round robin.  *)
(***************************************************************************)
EXTENDS PersistentCopyQueue, SequencesExt

LaneCapacity == Capacity \div CopyWarps

SlotOf(lane, index) == lane * LaneCapacity + (index % LaneCapacity)
NextLane(lane) == IF lane + 1 = CopyWarps THEN 0 ELSE lane + 1

\* Members of the queue object; publish and stopping are the lanes whose tail or stop
\* flag a call under way has still to store.
Host(launched) ==
  [submit_tails |-> [l \in Warps |-> 0], completion_heads |-> [l \in Warps |-> 0],
   submit_cursor |-> 0, completion_cursor |-> 0, accepted |-> 0, completed |-> 0,
   publish |-> {}, stopping |-> {}, refused |-> FALSE,
   accepting |-> launched, running |-> launched]

\* Cleared control words and the registers of warps that have just been launched.
Control == [l \in Warps |-> [task_tail |-> 0, completion_tail |-> 0, stop_requested |-> FALSE]]
Launched == [w \in Warps |-> [pc |-> "tail", head |-> 0, count |-> 0, done |-> 0, task |-> NoTask]]

\* After allocate.
Init == Zeroed(Control, EmptyTaskSlots, Launched) /\ host = Host(FALSE)

\* The host thread is between calls.
Idle == host.publish = {} /\ host.stopping = {}

\* start clears the memory and the cursors and launches the kernel, which can fail.
Start == /\ ~host.running /\ Idle
         /\ \E launched \in BOOLEAN : host' = Host(launched)
         /\ ZeroedNext(Control, EmptyTaskSlots, Launched)

-----------------------------------------------------------------------------
(* Host.                                                                    *)

\* The first lane of a set, from lane start round.
FirstLane(start, lanes) ==
  LET lane(d) == (start + d) % CopyWarps
      found == {d \in 0..(CopyWarps - 1) : lane(d) \in lanes}
  IN lane(CHOOSE d \in found : \A e \in found : d <= e)

HasRoom(h, lane) == h.submit_tails[lane] - h.completion_heads[lane] < LaneCapacity

\* Mutant of Placed: the cursor's lane is taken without looking for room.
PlacedAtCursor(placement, task) ==
  LET h == placement.host
      lane == h.submit_cursor
  IN [host |-> [h EXCEPT !.submit_tails[lane] = @ + 1, !.submit_cursor = NextLane(lane),
                         !.publish = @ \cup {lane}],
      slots |-> [placement.slots EXCEPT ![SlotOf(lane, h.submit_tails[lane])] = task]]

\* One task put into the next lane with room; when there is none the call returns EIO,
\* with the tasks before it in their slots and no tail stored.
Placed(placement, task) ==
  LET h == placement.host
      lane == FirstLane(h.submit_cursor, {l \in Warps : HasRoom(h, l)})
  IN IF h.refused \/ \A l \in Warps : ~HasRoom(h, l)
     THEN [placement EXCEPT !.host.refused = TRUE, !.host.publish = {}]
     ELSE [host |-> [h EXCEPT !.submit_tails[lane] = @ + 1, !.submit_cursor = NextLane(lane),
                              !.publish = @ \cup {lane}],
           slots |-> [placement.slots EXCEPT ![SlotOf(lane, h.submit_tails[lane])] = task]]

\* try_submit_batch: as many of the requested tasks as the lanes have room for.
TrySubmitBatch(requested) ==
  LET outstanding == host.accepted - host.completed
      count == Least(requested, Capacity - outstanding)
      new == [i \in 1..count |-> host.accepted + i - 1]
      placement == FoldLeft(Placed, [host |-> host, slots |-> task_slots], new)
  IN /\ Idle /\ host.running /\ host.accepting /\ outstanding < Capacity
     /\ host.accepted + count <= MaxTasks
     /\ task_slots' = placement.slots
     /\ host' = [placement.host EXCEPT !.accepted = IF placement.host.refused THEN @ ELSE @ + count]
     /\ UNCHANGED <<control, completion_slots, warps, copied, delivered>>

\* Its last loop: the tails of the changed lanes, in lane order.
StoreTail(lane) ==
  /\ lane \in host.publish /\ \A l \in host.publish : lane <= l
  /\ control' = [control EXCEPT ![lane].task_tail = host.submit_tails[lane]]
  /\ host' = [host EXCEPT !.publish = @ \ {lane}]
  /\ UNCHANGED <<task_slots, completion_slots, warps, copied, delivered>>

\* try_poll: the first lane, from the cursor round, that has a completion.
TryPoll ==
  LET finished == {l \in Warps : host.completion_heads[l] < control[l].completion_tail}
      lane == FirstLane(host.completion_cursor, finished)
  IN /\ Idle /\ finished # {}
     /\ delivered' = Append(delivered, completion_slots[SlotOf(lane, host.completion_heads[lane])])
     /\ host' = [host EXCEPT !.completion_heads[lane] = @ + 1, !.completed = @ + 1,
                             !.completion_cursor = NextLane(lane)]
     /\ UNCHANGED <<control, task_slots, completion_slots, warps, copied>>

\* Mutant of RequestStop: the last lane is left out.
RequestStopShort ==
  /\ Idle /\ host.running /\ host.accepting
  /\ host' = [host EXCEPT !.accepting = FALSE, !.stopping = Warps \ {CopyWarps - 1}]
  /\ UNCHANGED <<control, task_slots, completion_slots, warps, copied, delivered>>

\* request_stop, and its loop over the lanes.
RequestStop ==
  /\ Idle /\ host.running /\ host.accepting
  /\ host' = [host EXCEPT !.accepting = FALSE, !.stopping = Warps]
  /\ UNCHANGED <<control, task_slots, completion_slots, warps, copied, delivered>>

StoreStop(lane) ==
  /\ lane \in host.stopping /\ \A l \in host.stopping : lane <= l
  /\ control' = [control EXCEPT ![lane].stop_requested = TRUE]
  /\ host' = [host EXCEPT !.stopping = @ \ {lane}]
  /\ UNCHANGED <<task_slots, completion_slots, warps, copied, delivered>>

Wait == Idle /\ WaitForExit

-----------------------------------------------------------------------------
(* Copy warp w, on lane w.                                                  *)

Batch(w) == Least(control[w].task_tail - warps[w].head, DeviceBatch)

LoadTail(w) ==
  /\ warps[w].pc = "tail"
  /\ warps' = IF warps[w].head < control[w].task_tail
              THEN [warps EXCEPT ![w].pc = "read", ![w].count = Batch(w), ![w].done = 0]
              ELSE [warps EXCEPT ![w].pc = "stop"]
  /\ UNCHANGED <<control, task_slots, completion_slots, host, copied, delivered>>

LoadStop(w) ==
  /\ warps[w].pc = "stop"
  /\ warps' = [warps EXCEPT ![w].pc = IF control[w].stop_requested THEN "final" ELSE "tail"]
  /\ UNCHANGED <<control, task_slots, completion_slots, host, copied, delivered>>

\* The tail once more, now that the flag has been seen.
LoadFinal(w) ==
  /\ warps[w].pc = "final"
  /\ warps' = IF warps[w].head < control[w].task_tail
              THEN [warps EXCEPT ![w].pc = "read", ![w].count = Batch(w), ![w].done = 0]
              ELSE [warps EXCEPT ![w].pc = "exited"]
  /\ UNCHANGED <<control, task_slots, completion_slots, host, copied, delivered>>

ReadTask(w) ==
  /\ warps[w].pc = "read"
  /\ warps' = [warps EXCEPT ![w].pc = "copy",
                            ![w].task = task_slots[SlotOf(w, warps[w].head + warps[w].done)]]
  /\ UNCHANGED <<control, task_slots, completion_slots, host, copied, delivered>>

\* The copy, and its completion in the slot of the same index.
CopyTask(w) ==
  LET more == warps[w].done + 1 < warps[w].count
  IN /\ warps[w].pc = "copy"
     /\ copied' = [copied EXCEPT ![warps[w].task] = @ + 1]
     /\ completion_slots' = [completion_slots EXCEPT
                               ![SlotOf(w, warps[w].head + warps[w].done)] = warps[w].task]
     /\ warps' = [warps EXCEPT ![w].pc = IF more THEN "read" ELSE "publish",
                               ![w].done = @ + 1, ![w].task = NoTask]
     /\ UNCHANGED <<control, task_slots, host, delivered>>

\* The batch's completions, by one release store.
Publish(w) ==
  /\ warps[w].pc = "publish"
  /\ control' = [control EXCEPT ![w].completion_tail = warps[w].head + warps[w].count]
  /\ warps' = [warps EXCEPT ![w].pc = "tail", ![w].head = @ + warps[w].count,
                            ![w].count = 0, ![w].done = 0]
  /\ UNCHANGED <<task_slots, completion_slots, host, copied, delivered>>

Copier(w) == \/ LoadTail(w) \/ LoadStop(w) \/ LoadFinal(w)
             \/ ReadTask(w) \/ CopyTask(w) \/ Publish(w)

\* The rest of a call the host thread is in.
HostCall == \E lane \in Warps : StoreTail(lane) \/ StoreStop(lane)

Next == \/ \E requested \in 1..Capacity : TrySubmitBatch(requested)
        \/ Start \/ TryPoll \/ RequestStop \/ Wait \/ HostCall
        \/ \E w \in Warps : Copier(w)

-----------------------------------------------------------------------------
(* Properties.                                                              *)

TypeOK ==
  /\ task_slots \in [Slots -> 0..MaxTasks] /\ completion_slots \in [Slots -> 0..MaxTasks]
  /\ copied \in [Tasks -> Nat] /\ delivered \in Seq(0..MaxTasks)

\* On every lane the host's head, the kernel's completion tail, the warp's position and
\* the stored and unstored task tails are in order and within the lane, and the lanes
\* together hold what accepted_tasks_ and completed_tasks_ say; so a batch that fits
\* the capacity always finds a lane, and EIO is never returned.
LanesConsistent ==
  /\ TypeOK /\ ~host.refused
  /\ \A l \in Warps :
       /\ host.completion_heads[l] <= control[l].completion_tail
       /\ control[l].completion_tail = warps[l].head
       /\ warps[l].head + warps[l].count <= control[l].task_tail
       /\ control[l].task_tail <= host.submit_tails[l]
       /\ l \notin host.publish => control[l].task_tail = host.submit_tails[l]
       /\ host.submit_tails[l] <= host.completion_heads[l] + LaneCapacity
  /\ host.accepted = SumFunction(host.submit_tails)
  /\ host.completed = SumFunction(host.completion_heads)
=============================================================================
