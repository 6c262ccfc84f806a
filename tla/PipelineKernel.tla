---------------------------- MODULE PipelineKernel ----------------------------
(***************************************************************************)
(* warp_specialized_pipeline_kernel, the kernel the daemon runs.  Task i     *)
(* belongs to copy warp i % CopyWarps.  Each copy warp has Depth task slots  *)
(* and Depth completion slots in shared memory; a slot is handed back and    *)
(* forth with two one-arrival barriers, ready and consumed, of which a       *)
(* waiter sees only the parity of the phases completed.  A stop reaches the  *)
(* copy warps as a zero-length task behind the last real one.                *)
(***************************************************************************)
EXTENDS WarpSpecializedQueue

VARIABLES
  shared_tasks,  \* shared-memory task slots: task and the parities of both barriers
  shared_done,   \* shared-memory completion slots, the same
  ingress, copiers, egress   \* the registers of the warps

kernel == <<shared_tasks, shared_done, ingress, copiers, egress>>
vars == <<external, copied, delivered, kernel>>

\* static_assert: the tasks of one batch fit into the slots of their owners.
ASSUME BatchAssumption == (MetaBatch + CopyWarps - 1) \div CopyWarps <= Depth

Warps == 0..(CopyWarps - 1)
SharedSlots == 0..(CopyWarps * Depth - 1)
Sentinel == MaxTasks + 1

\* Where task index lives: its owner, its number there, its slot, and the parity of
\* the round of that slot.
Owner(index) == index % CopyWarps
Local(index) == index \div CopyWarps
SlotOf(owner, local) == owner * Depth + (local % Depth)

\* Mutant of Phase: the phase changes with every task instead of every round.
PhasePerTask(local) == local % 2

Phase(local) == (local \div Depth) % 2

Slot(index) == SlotOf(Owner(index), Local(index))
PhaseOf(index) == Phase(Local(index))

\* wait_parity(p) returns when the parity of the completed phases is not p.
ReadyFor(slot, phase) == slot.ready # phase
FreeFor(slot, phase) == slot.consumed # 1 - phase

Init ==
  /\ HostInit
  /\ shared_tasks = [s \in SharedSlots |-> [task |-> NoTask, ready |-> 0, consumed |-> 0]]
  /\ shared_done = [s \in SharedSlots |-> [task |-> NoTask, ready |-> 0, consumed |-> 0]]
  /\ ingress = [pc |-> "load", head |-> 0, count |-> 0, lanes |-> {}]
  /\ copiers = [w \in Warps |-> [pc |-> "take", local |-> 0, task |-> NoTask]]
  /\ egress = [pc |-> "load", head |-> 0, count |-> 0, lanes |-> {}]

\* A slot written, with one arrival at ready; a slot given back by one at consumed.
Filled(slot, task) == [slot EXCEPT !.task = task, !.ready = 1 - @]
Emptied(slot) == [slot EXCEPT !.consumed = 1 - @]

\* Lane 0 of the ingress or the egress warp sizes its next batch by the tail, or goes
\* on to look at the stop flag.
Batch(warp) ==
  LET count == Least(control.task_tail - warp.head, MetaBatch)
  IN IF warp.head < control.task_tail
     THEN [warp EXCEPT !.pc = "lanes", !.count = count, !.lanes = 0..(count - 1)]
     ELSE [warp EXCEPT !.pc = "stop"]

-----------------------------------------------------------------------------
(* Ingress warp.                                                            *)

IngressLoad ==
  /\ ingress.pc = "load"
  /\ ingress' = Batch(ingress)
  /\ UNCHANGED <<external, copied, delivered, shared_tasks, shared_done, copiers, egress>>

IngressStop ==
  /\ ingress.pc = "stop"
  /\ ingress' = [ingress EXCEPT !.pc = IF control.stop_requested THEN "final" ELSE "load"]
  /\ UNCHANGED <<external, copied, delivered, shared_tasks, shared_done, copiers, egress>>

\* Mutant of IngressFinal: the tail is not read again after the stop flag was seen.
IngressFinalAtOnce ==
  /\ ingress.pc = "final"
  /\ ingress' = [ingress EXCEPT !.pc = "sentinels", !.lanes = Warps]
  /\ UNCHANGED <<external, copied, delivered, shared_tasks, shared_done, copiers, egress>>

\* The tail once more: nothing left means one sentinel for each copy warp.
IngressFinal ==
  /\ ingress.pc = "final"
  /\ ingress' = IF ingress.head >= control.task_tail
                THEN [ingress EXCEPT !.pc = "sentinels", !.lanes = Warps]
                ELSE [ingress EXCEPT !.pc = "load"]
  /\ UNCHANGED <<external, copied, delivered, shared_tasks, shared_done, copiers, egress>>

\* A lane waits until its slot is free and fills it, from the external ring or with a
\* sentinel; the warp goes on when all its lanes are through.
IngressFill(lane) ==
  LET index == ingress.head + lane
      task == IF ingress.pc = "sentinels" THEN Sentinel ELSE task_slots[index % Capacity]
  IN /\ ingress.pc \in {"lanes", "sentinels"} /\ lane \in ingress.lanes
     /\ FreeFor(shared_tasks[Slot(index)], PhaseOf(index))
     /\ shared_tasks' = [shared_tasks EXCEPT ![Slot(index)] = Filled(@, task)]
     /\ ingress' = IF ingress.lanes # {lane} THEN [ingress EXCEPT !.lanes = @ \ {lane}]
                   ELSE IF ingress.pc = "sentinels"
                   THEN [ingress EXCEPT !.pc = "exited", !.lanes = {}]
                   ELSE [ingress EXCEPT !.pc = "load", !.head = @ + ingress.count, !.count = 0,
                                        !.lanes = {}]
     /\ UNCHANGED <<external, copied, delivered, shared_done, copiers, egress>>

-----------------------------------------------------------------------------
(* Copy warp w.                                                             *)

\* The task is read and its slot given back; a zero-length task ends the warp.
CopyTake(w) ==
  LET slot == SlotOf(w, copiers[w].local)
      task == shared_tasks[slot].task
  IN /\ copiers[w].pc = "take"
     /\ ReadyFor(shared_tasks[slot], Phase(copiers[w].local))
     /\ shared_tasks' = [shared_tasks EXCEPT ![slot] = Emptied(@)]
     /\ copiers' = [copiers EXCEPT ![w].pc = IF task = Sentinel THEN "exited" ELSE "copy",
                                   ![w].task = task]
     /\ UNCHANGED <<external, copied, delivered, shared_done, ingress, egress>>

CopyRun(w) ==
  /\ copiers[w].pc = "copy"
  /\ copied' = [copied EXCEPT ![copiers[w].task] = @ + 1]
  /\ copiers' = [copiers EXCEPT ![w].pc = "complete"]
  /\ UNCHANGED <<external, delivered, shared_tasks, shared_done, ingress, egress>>

CopyComplete(w) ==
  LET slot == SlotOf(w, copiers[w].local)
  IN /\ copiers[w].pc = "complete"
     /\ FreeFor(shared_done[slot], Phase(copiers[w].local))
     /\ shared_done' = [shared_done EXCEPT ![slot] = Filled(@, copiers[w].task)]
     /\ copiers' = [copiers EXCEPT ![w].pc = "take", ![w].local = @ + 1, ![w].task = NoTask]
     /\ UNCHANGED <<external, copied, delivered, shared_tasks, ingress, egress>>

-----------------------------------------------------------------------------
(* Egress warp.                                                             *)

EgressLoad ==
  /\ egress.pc = "load"
  /\ egress' = Batch(egress)
  /\ UNCHANGED <<external, copied, delivered, shared_tasks, shared_done, ingress, copiers>>

EgressStop ==
  /\ egress.pc = "stop"
  /\ egress' = [egress EXCEPT !.pc = IF control.stop_requested THEN "final" ELSE "load"]
  /\ UNCHANGED <<external, copied, delivered, shared_tasks, shared_done, ingress, copiers>>

\* Mutant of EgressFinal: the tail is not read again after the stop flag was seen.
EgressFinalAtOnce ==
  /\ egress.pc = "final"
  /\ egress' = [egress EXCEPT !.pc = "exited"]
  /\ UNCHANGED <<external, copied, delivered, shared_tasks, shared_done, ingress, copiers>>

EgressFinal ==
  /\ egress.pc = "final"
  /\ egress' = [egress EXCEPT !.pc = IF egress.head >= control.task_tail THEN "exited" ELSE "load"]
  /\ UNCHANGED <<external, copied, delivered, shared_tasks, shared_done, ingress, copiers>>

\* A lane waits for its completion and writes it to the external ring.
EgressWrite(lane) ==
  LET index == egress.head + lane
  IN /\ egress.pc = "lanes" /\ lane \in egress.lanes
     /\ ReadyFor(shared_done[Slot(index)], PhaseOf(index))
     /\ completion_slots' = [completion_slots EXCEPT ![index % Capacity] =
                               shared_done[Slot(index)].task]
     /\ egress' = [egress EXCEPT !.lanes = @ \ {lane}]
     /\ UNCHANGED <<control, task_slots, host, copied, delivered, shared_tasks, shared_done,
                    ingress, copiers>>

\* When all lanes are through, one release store publishes the batch.
EgressPublish ==
  /\ egress.pc = "lanes" /\ egress.lanes = {}
  /\ control' = [control EXCEPT !.completion_tail = egress.head + egress.count]
  /\ egress' = [egress EXCEPT !.pc = "release", !.lanes = 0..(egress.count - 1)]
  /\ UNCHANGED <<task_slots, completion_slots, host, copied, delivered, shared_tasks,
                 shared_done, ingress, copiers>>

\* Then each lane gives its slot back, and the warp goes on when all have.
EgressRelease(lane) ==
  /\ egress.pc = "release" /\ lane \in egress.lanes
  /\ shared_done' = [shared_done EXCEPT ![Slot(egress.head + lane)] = Emptied(@)]
  /\ egress' = IF egress.lanes # {lane} THEN [egress EXCEPT !.lanes = @ \ {lane}]
               ELSE [egress EXCEPT !.pc = "load", !.head = @ + egress.count, !.count = 0,
                                   !.lanes = {}]
  /\ UNCHANGED <<external, copied, delivered, shared_tasks, ingress, copiers>>

-----------------------------------------------------------------------------
Exited == /\ ingress.pc = "exited" /\ egress.pc = "exited"
          /\ \A w \in Warps : copiers[w].pc = "exited"

Lanes == 0..(MetaBatch + CopyWarps - 1)
Ingress == IngressLoad \/ IngressStop \/ IngressFinal \/ \E lane \in Lanes : IngressFill(lane)
Copier(w) == CopyTake(w) \/ CopyRun(w) \/ CopyComplete(w)
Egress == \/ EgressLoad \/ EgressStop \/ EgressFinal \/ EgressPublish
          \/ \E lane \in Lanes : EgressWrite(lane) \/ EgressRelease(lane)

Next == \/ (HostNext \/ Wait(Exited)) /\ UNCHANGED kernel
        \/ Ingress \/ Egress \/ \E w \in Warps : Copier(w)

Spec == Init /\ [][Next]_vars

\* The warps of a resident CTA are scheduled independently, so each keeps running;
\* the host keeps polling, and waits once it has asked for a stop.
FairSpec == /\ Spec
            /\ WF_vars(Ingress) /\ WF_vars(Egress) /\ \A w \in Warps : WF_vars(Copier(w))
            /\ WF_vars(TryPoll /\ UNCHANGED kernel) /\ WF_vars(Wait(Exited) /\ UNCHANGED kernel)

-----------------------------------------------------------------------------
(* Properties.                                                              *)

\* Every variable has its type: a warp's batch and position stay within the tasks
\* submitted.
TypeOK ==
  /\ HostTypeOK
  /\ shared_tasks \in [SharedSlots -> [task : 0..Sentinel, ready : 0..1, consumed : 0..1]]
  /\ shared_done \in [SharedSlots -> [task : 0..MaxTasks, ready : 0..1, consumed : 0..1]]
  /\ \A w \in Warps : copiers[w].local * CopyWarps <= MaxTasks + CopyWarps
  /\ ingress.head + ingress.count <= MaxTasks /\ egress.head + egress.count <= MaxTasks

\* The queue as its user sees it: copies happen once, completions come in order.
Queue == INSTANCE OrderedCopyQueue WITH
           submitted <- host.submit_tail,
           copied <- {t \in Tasks : copied[t] = 1}

\* The kernel and the host together implement the ordered queue the copy backend
\* relies on, however the warps and lanes interleave and however often a slot's
\* parity has come round.
ImplementsQueue == Queue!Spec

\* A stop loses nothing: a copy warp that has left has copied every task it owns,
\* whatever the order in which the host's last batch and its stop flag were seen,
\* and no warp's position passes the tasks there are.
DrainsBeforeExit ==
  /\ TypeOK
  /\ \A w \in Warps : copiers[w].pc = "exited" =>
       \A t \in Tasks : t < host.submit_tail /\ Owner(t) = w => copied[t] = 1

\* Every accepted task is delivered, with or without a stop request behind it
\* (the model bounds the tasks, so the completions catch up with them), and a
\* requested stop ends the kernel, so that wait returns.
DeliversAndStops ==
  []<>(Len(delivered) = host.submit_tail /\ (host.accepting \/ ~host.running))
=============================================================================
