------------------------- MODULE WarpSpecializedKernel -------------------------
(***************************************************************************)
(* warp_specialized_kernel: an ingress warp moves tasks from the external    *)
(* ring into a shared-memory queue, copy warps claim them with a compare and *)
(* swap, copy, and put completions into a second shared-memory queue, and an *)
(* egress warp moves those, in order, to the external ring.  Every shared    *)
(* slot carries a sequence number that says whose turn it is.  Each load and *)
(* store another warp can see is a step of its own; the lanes of the ingress *)
(* and egress warps fill and read the slots of a wave independently.         *)
(***************************************************************************)
EXTENDS WarpSpecializedQueue

CONSTANTS ClaimBatch     \* CopyClaimBatch, at most the depth

VARIABLES
  shared,        \* WarpSpecializedSharedControl: task_publish, task_claim, ingress_done
  shared_tasks,  \* shared-memory task slots: sequence and task
  shared_done,   \* shared-memory completion slots
  ingress, copiers, egress   \* the registers of the warps

kernel == <<shared, shared_tasks, shared_done, ingress, copiers, egress>>
vars == <<external, copied, delivered, kernel>>

Warps == 1..CopyWarps
SharedSlots == 0..(Depth - 1)

\* A copy warp at the top of its loop, nothing of the last round left.
Unclaimed == [pc |-> "claim", claim |-> 0, next |-> 0, last |-> 0, task |-> NoTask]

Init ==
  /\ HostInit
  /\ shared = [task_publish |-> 0, task_claim |-> 0, ingress_done |-> FALSE]
  /\ shared_tasks = [s \in SharedSlots |-> [sequence |-> s, task |-> NoTask]]
  /\ shared_done = [s \in SharedSlots |-> [sequence |-> s, task |-> NoTask]]
  /\ ingress = [pc |-> "load", head |-> 0, tasks |-> <<>>, wave |-> 0, lanes |-> {}]
  /\ copiers = [w \in Warps |-> Unclaimed]
  /\ egress = [pc |-> "load", head |-> 0, tasks |-> <<>>, wave |-> 0, lanes |-> {}]

\* The lanes of the wave that starts at wave, in a batch of count elements.
WaveLanes(wave, count) == wave..(Least(wave + Depth, count) - 1)

-----------------------------------------------------------------------------
(* Ingress warp.                                                            *)

\* Lane 0 loads the tail; the lanes read their tasks from the external slots.
IngressLoad ==
  /\ ingress.pc = "load"
  /\ LET count == Least(control.task_tail - ingress.head, MetaBatch)
     IN ingress' = IF ingress.head < control.task_tail
          THEN [ingress EXCEPT !.pc = "wave", !.wave = 0, !.lanes = WaveLanes(0, count),
                  !.tasks = [i \in 1..count |-> task_slots[(ingress.head + i - 1) % Capacity]]]
          ELSE [ingress EXCEPT !.pc = "stop"]
  /\ UNCHANGED <<external, copied, delivered, shared, shared_tasks, shared_done, copiers, egress>>

\* The stop flag, and then the tail once more.
IngressStop ==
  /\ ingress.pc = "stop"
  /\ ingress' = [ingress EXCEPT !.pc = IF control.stop_requested THEN "final" ELSE "load"]
  /\ UNCHANGED <<external, copied, delivered, shared, shared_tasks, shared_done, copiers, egress>>

IngressFinal ==
  /\ ingress.pc = "final"
  /\ LET done == ingress.head >= control.task_tail
     IN /\ ingress' = [ingress EXCEPT !.pc = IF done THEN "exited" ELSE "load"]
        /\ shared' = [shared EXCEPT !.ingress_done = done]
  /\ UNCHANGED <<external, copied, delivered, shared_tasks, shared_done, copiers, egress>>

\* A lane waits for its shared slot and fills it.
IngressFill(lane) ==
  LET index == ingress.head + lane
      slot == index % Depth
  IN /\ ingress.pc = "wave" /\ lane \in ingress.lanes
     /\ shared_tasks[slot].sequence = index
     /\ shared_tasks' = [shared_tasks EXCEPT ![slot] =
                           [sequence |-> index + 1, task |-> ingress.tasks[lane + 1]]]
     /\ ingress' = [ingress EXCEPT !.lanes = @ \ {lane}]
     /\ UNCHANGED <<external, copied, delivered, shared, shared_done, copiers, egress>>

\* When all lanes are through, lane 0 publishes the wave.
IngressPublish ==
  /\ ingress.pc = "wave" /\ ingress.lanes = {}
  /\ LET count == Len(ingress.tasks)
         done == Least(ingress.wave + Depth, count)
     IN /\ shared' = [shared EXCEPT !.task_publish = ingress.head + done]
        /\ ingress' = IF done = count
             THEN [ingress EXCEPT !.pc = "load", !.head = @ + count, !.tasks = <<>>, !.wave = 0]
             ELSE [ingress EXCEPT !.wave = done, !.lanes = WaveLanes(done, count)]
  /\ UNCHANGED <<external, copied, delivered, shared_tasks, shared_done, copiers, egress>>

-----------------------------------------------------------------------------
(* Copy warp w.                                                             *)

\* The claim is loaded first, the published position after it.
CopyLoad(w) ==
  /\ copiers[w].pc = "claim"
  /\ copiers' = [copiers EXCEPT ![w].pc = "publish", ![w].claim = shared.task_claim]
  /\ UNCHANGED <<external, copied, delivered, shared, shared_tasks, shared_done, ingress, egress>>

\* At most ClaimBatch of the tasks between the two look unclaimed.
CopyPublished(w) ==
  LET claim == copiers[w].claim
      count == Least(shared.task_publish - claim, ClaimBatch)
  IN /\ copiers[w].pc = "publish"
     /\ copiers' = IF claim < shared.task_publish
                    THEN [copiers EXCEPT ![w].pc = "swap", ![w].next = claim, ![w].last = claim + count]
                    ELSE [copiers EXCEPT ![w].pc = "done"]
     /\ UNCHANGED <<external, copied, delivered, shared, shared_tasks, shared_done, ingress, egress>>

\* Mutant of CopyClaim: the claim is stored without comparing.
CopyClaimBlindly(w) ==
  /\ copiers[w].pc = "swap"
  /\ shared' = [shared EXCEPT !.task_claim = copiers[w].last]
  /\ copiers' = [copiers EXCEPT ![w].pc = "take"]
  /\ UNCHANGED <<external, copied, delivered, shared_tasks, shared_done, ingress, egress>>

\* The compare and swap fails when another warp was faster.
CopyClaim(w) ==
  /\ copiers[w].pc = "swap"
  /\ IF shared.task_claim = copiers[w].claim
     THEN /\ shared' = [shared EXCEPT !.task_claim = copiers[w].last]
          /\ copiers' = [copiers EXCEPT ![w].pc = "take"]
     ELSE copiers' = [copiers EXCEPT ![w] = Unclaimed] /\ UNCHANGED shared
  /\ UNCHANGED <<external, copied, delivered, shared_tasks, shared_done, ingress, egress>>

\* Nothing looked unclaimed: the warp leaves when the ingress warp is done.
CopyStop(w) ==
  /\ copiers[w].pc = "done"
  /\ copiers' = [copiers EXCEPT ![w] = IF shared.ingress_done
                                       THEN [Unclaimed EXCEPT !.pc = "exited"] ELSE Unclaimed]
  /\ UNCHANGED <<external, copied, delivered, shared, shared_tasks, shared_done, ingress, egress>>

\* The task is read once its slot has been filled, copied, and its slot then freed for
\* the next round: until that store the slot is the warp's alone.
CopyRun(w) ==
  LET slot == copiers[w].next % Depth
      task == shared_tasks[slot].task
  IN /\ copiers[w].pc = "take"
     /\ shared_tasks[slot].sequence = copiers[w].next + 1
     /\ copied' = [copied EXCEPT ![task] = @ + 1]
     /\ shared_tasks' = [shared_tasks EXCEPT ![slot].sequence = copiers[w].next + Depth]
     /\ copiers' = [copiers EXCEPT ![w].pc = "complete", ![w].task = task]
     /\ UNCHANGED <<external, delivered, shared, shared_done, ingress, egress>>

\* The completion is published in the slot of the same index once that is free.
CopyComplete(w) ==
  LET slot == copiers[w].next % Depth
      more == copiers[w].next + 1 < copiers[w].last
  IN /\ copiers[w].pc = "complete"
     /\ shared_done[slot].sequence = copiers[w].next
     /\ shared_done' = [shared_done EXCEPT ![slot] =
                          [sequence |-> copiers[w].next + 1, task |-> copiers[w].task]]
     /\ copiers' = [copiers EXCEPT ![w] =
                      IF more THEN [@ EXCEPT !.pc = "take", !.next = @ + 1, !.task = NoTask]
                      ELSE Unclaimed]
     /\ UNCHANGED <<external, copied, delivered, shared, shared_tasks, ingress, egress>>

-----------------------------------------------------------------------------
(* Egress warp: it waits for as many completions as there are tasks.         *)

EgressLoad ==
  /\ egress.pc = "load"
  /\ LET count == Least(control.task_tail - egress.head, MetaBatch)
     IN egress' = IF egress.head < control.task_tail
          THEN [egress EXCEPT !.pc = "wave", !.wave = 0, !.lanes = WaveLanes(0, count),
                              !.tasks = [i \in 1..count |-> NoTask]]
          ELSE [egress EXCEPT !.pc = "stop"]
  /\ UNCHANGED <<external, copied, delivered, shared, shared_tasks, shared_done, ingress, copiers>>

EgressStop ==
  /\ egress.pc = "stop"
  /\ egress' = [egress EXCEPT !.pc = IF control.stop_requested THEN "final" ELSE "load"]
  /\ UNCHANGED <<external, copied, delivered, shared, shared_tasks, shared_done, ingress, copiers>>

EgressFinal ==
  /\ egress.pc = "final"
  /\ egress' = [egress EXCEPT !.pc = IF egress.head >= control.task_tail THEN "exited" ELSE "load"]
  /\ UNCHANGED <<external, copied, delivered, shared, shared_tasks, shared_done, ingress, copiers>>

\* A lane reads its completion once it is there.
EgressRead(lane) ==
  LET index == egress.head + lane
  IN /\ egress.pc = "wave" /\ lane \in egress.lanes
     /\ shared_done[index % Depth].sequence = index + 1
     /\ egress' = [egress EXCEPT !.lanes = @ \ {lane},
                                 !.tasks[lane + 1] = shared_done[index % Depth].task]
     /\ UNCHANGED <<external, copied, delivered, shared, shared_tasks, shared_done, ingress,
                    copiers>>

\* All lanes of the wave free their slots, and the next wave starts.
EgressRelease ==
  /\ egress.pc = "wave" /\ egress.lanes = {}
  /\ LET count == Len(egress.tasks)
         done == Least(egress.wave + Depth, count)
         index(s) == CHOOSE i \in (egress.head + egress.wave)..(egress.head + done - 1) :
                       i % Depth = s
         freed == {i % Depth : i \in (egress.head + egress.wave)..(egress.head + done - 1)}
     IN /\ shared_done' = [s \in SharedSlots |->
                             IF s \in freed
                             THEN [shared_done[s] EXCEPT !.sequence = index(s) + Depth]
                             ELSE shared_done[s]]
        /\ egress' = IF done = count THEN [egress EXCEPT !.pc = "publish"]
                     ELSE [egress EXCEPT !.wave = done, !.lanes = WaveLanes(done, count)]
  /\ UNCHANGED <<external, copied, delivered, shared, shared_tasks, ingress, copiers>>

\* The batch is written to the external ring and published by one release store.
EgressPublish ==
  /\ egress.pc = "publish"
  /\ LET count == Len(egress.tasks)
         slot(i) == (egress.head + i - 1) % Capacity
     IN /\ completion_slots' = [s \in Slots |->
                                  IF \E i \in 1..count : slot(i) = s
                                  THEN egress.tasks[CHOOSE i \in 1..count : slot(i) = s]
                                  ELSE completion_slots[s]]
        /\ control' = [control EXCEPT !.completion_tail = egress.head + count]
        /\ egress' = [egress EXCEPT !.pc = "load", !.head = @ + count, !.tasks = <<>>,
                                    !.wave = 0]
  /\ UNCHANGED <<task_slots, host, copied, delivered, shared, shared_tasks, shared_done, ingress,
                 copiers>>

-----------------------------------------------------------------------------
Exited == /\ ingress.pc = "exited" /\ egress.pc = "exited"
          /\ \A w \in Warps : copiers[w].pc = "exited"

Ingress == \/ IngressLoad \/ IngressStop \/ IngressFinal \/ IngressPublish
           \/ \E lane \in 0..(MetaBatch - 1) : IngressFill(lane)
Copier(w) == \/ CopyLoad(w) \/ CopyPublished(w) \/ CopyClaim(w) \/ CopyStop(w)
             \/ CopyRun(w) \/ CopyComplete(w)
Egress == \/ EgressLoad \/ EgressStop \/ EgressFinal \/ EgressRelease \/ EgressPublish
          \/ \E lane \in 0..(MetaBatch - 1) : EgressRead(lane)

Next == \/ (HostNext \/ Wait(Exited)) /\ UNCHANGED kernel
        \/ Ingress \/ Egress \/ \E w \in Warps : Copier(w)

Spec == Init /\ [][Next]_vars

-----------------------------------------------------------------------------
(* Properties.                                                              *)

\* Every variable has its type: sequence numbers run at most a round ahead of the
\* tasks submitted.
TypeOK ==
  /\ HostTypeOK
  /\ shared \in [task_publish : 0..MaxTasks, task_claim : 0..MaxTasks, ingress_done : BOOLEAN]
  /\ shared_tasks \in [SharedSlots -> [sequence : 0..(MaxTasks + Depth), task : 0..MaxTasks]]
  /\ shared_done \in [SharedSlots -> [sequence : 0..(MaxTasks + Depth), task : 0..MaxTasks]]
  /\ \A w \in Warps : copiers[w].next <= MaxTasks /\ copiers[w].last <= MaxTasks

Held(w) == IF copiers[w].pc \in {"take", "complete"}
           THEN copiers[w].next..(copiers[w].last - 1) ELSE {}

\* No two copy warps hold the same task between claim and completion, and the
\* egress warp never publishes a completion whose copy has not been made; sequence
\* numbers and claims stay within the tasks submitted.
ClaimsDisjoint ==
  /\ TypeOK
  /\ \A v, w \in Warps : v # w => Held(v) \cap Held(w) = {}
  /\ \A t \in Tasks : t < control.completion_tail => copied[t] = 1

\* The queue as its user sees it: copies happen once, completions come in order.
Queue == INSTANCE OrderedCopyQueue WITH
           submitted <- host.submit_tail,
           copied <- {t \in Tasks : copied[t] = 1}

\* What the step document says of a stop: all warps drain the accepted work before
\* they exit.  Violated: a copy warp that read both positions before the last tasks
\* were published, and the done flag after, leaves them behind; when every copy warp
\* does, nobody is left to copy them.
DrainsBeforeExit ==
  (\A w \in Warps : copiers[w].pc = "exited") => \A t \in Tasks : t < host.submit_tail => copied[t] = 1
=============================================================================
