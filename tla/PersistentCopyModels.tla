------------------------ MODULE PersistentCopyModels ------------------------
(***************************************************************************)
(* The queue models a PersistentCopyConfig can select beside the pipeline    *)
(* kernel the backend uses, under one user: it submits, polls, stops and     *)
(* waits in any order the queue allows, and starts a queue again only when   *)
(* its lifecycle bookkeeping says stopped.  model is config.model; each      *)
(* model is an instance of its module over the same variables, and the       *)
(* shared-memory variables belong to the warp-specialised one alone.         *)
(***************************************************************************)
EXTENDS PersistentCopyQueue

CONSTANTS AtomicCapacity, AtomicTasks,      \* Capacity and MaxTasks of the direct atomic queue
          WarpCapacity, WarpTasks,          \* ... and of the warp-specialised queue
          MetaBatch, Depth, ClaimBatch

ASSUME ModelsAssumption == /\ IsPowerOfTwo(AtomicCapacity) /\ AtomicTasks \in Nat
                           /\ ClaimBatch \in 1..Depth

VARIABLES model, shared, shared_tasks, shared_done, ingress, copiers, egress

kernel == <<shared, shared_tasks, shared_done, ingress, copiers, egress>>
allVars == <<model, vars, kernel>>

Direct == INSTANCE DirectAtomicQueue WITH Capacity <- AtomicCapacity, MaxTasks <- AtomicTasks
Sharded == INSTANCE DynamicShardedSpscQueue
Static == INSTANCE StaticPartitionSpscQueue
Specialized == INSTANCE WarpSpecializedKernel WITH Capacity <- WarpCapacity, MaxTasks <- WarpTasks

NoKernel == /\ shared = 0 /\ shared_tasks = 0 /\ shared_done = 0
            /\ ingress = 0 /\ copiers = 0 /\ egress = 0

Init == \/ model = "direct_atomic" /\ Direct!Init /\ NoKernel
        \/ model = "dynamic_sharded_spsc" /\ Sharded!Init /\ NoKernel
        \/ model = "static_partition_spsc" /\ Static!Init /\ NoKernel
        \/ model = "warp_specialized" /\ Specialized!Init /\ warps = 0

-----------------------------------------------------------------------------
\* accepted_tasks() and completed_tasks() of the queue.
Accepted == IF model = "dynamic_sharded_spsc" THEN host.accepted ELSE host.submit_tail
Completed == IF model = "dynamic_sharded_spsc" THEN host.completed ELSE host.completion_head
Drained == Accepted = Completed

\* What the lifecycle bookkeeping of the user says.
Lifecycle == INSTANCE PersistentCopyLifecycle WITH
  capacity <- IF model = "direct_atomic" THEN AtomicCapacity
              ELSE IF model = "warp_specialized" THEN WarpCapacity ELSE Capacity,
  state <- IF host.accepting THEN "accepting"
           ELSE IF host.running \/ ~Drained THEN "draining" ELSE "stopped",
  accepted_tasks <- Accepted, completed_tasks <- Completed

Stopped == ~host.running /\ Drained

\* Steps of the user: those it must keep taking, and those it may take.
UserPolls ==
  \/ model = "direct_atomic" /\ Direct!TryPoll /\ UNCHANGED kernel
  \/ model = "dynamic_sharded_spsc" /\ Sharded!TryPoll /\ UNCHANGED kernel
  \/ model = "static_partition_spsc" /\ Static!TryPoll /\ UNCHANGED kernel
  \/ model = "warp_specialized" /\ Specialized!TryPoll /\ UNCHANGED <<warps, kernel>>

UserReturns ==
  \/ model = "direct_atomic" /\ Direct!Wait /\ UNCHANGED kernel
  \/ model = "dynamic_sharded_spsc" /\ (Sharded!Wait \/ Sharded!HostCall) /\ UNCHANGED kernel
  \/ model = "static_partition_spsc" /\ Static!Wait /\ UNCHANGED kernel
  \/ model = "warp_specialized" /\ Specialized!Wait(Specialized!Exited) /\ UNCHANGED <<warps, kernel>>

UserActs ==
  \/ /\ model = "direct_atomic" /\ UNCHANGED kernel
     /\ \/ \E requested \in 1..AtomicCapacity : Direct!TrySubmitBatch(requested)
        \/ Stopped /\ Direct!Start
        \/ Direct!RequestStop
  \/ /\ model = "dynamic_sharded_spsc" /\ UNCHANGED kernel
     /\ \/ \E requested \in 1..Capacity : Sharded!TrySubmitBatch(requested)
        \/ Stopped /\ Sharded!Start
        \/ Sharded!RequestStop
  \/ /\ model = "static_partition_spsc" /\ UNCHANGED kernel
     /\ \/ \E requested \in 1..Capacity : Static!TrySubmitBatch(requested)
        \/ Stopped /\ Static!Start
        \/ Static!RequestStop
  \/ /\ model = "warp_specialized" /\ UNCHANGED <<warps, kernel>>
     /\ \/ \E requested \in 1..MetaBatch : Specialized!TrySubmitBatch(requested)
        \/ Specialized!RequestStop

\* A step of one copy warp, and of the other two warps of the specialised kernel.
Copier(w) ==
  \/ model = "direct_atomic" /\ Direct!Copier(w) /\ UNCHANGED kernel
  \/ model = "dynamic_sharded_spsc" /\ Sharded!Copier(w) /\ UNCHANGED kernel
  \/ model = "static_partition_spsc" /\ Static!Copier(w) /\ UNCHANGED kernel
  \/ model = "warp_specialized" /\ Specialized!Copier(w + 1) /\ UNCHANGED warps
Ingress == model = "warp_specialized" /\ Specialized!Ingress /\ UNCHANGED warps
Egress == model = "warp_specialized" /\ Specialized!Egress /\ UNCHANGED warps

Device == Ingress \/ Egress \/ \E w \in Warps : Copier(w)

Next == (UserPolls \/ UserReturns \/ UserActs \/ Device) /\ UNCHANGED model

Spec == Init /\ [][Next]_allVars

\* The warps of a kernel are resident and scheduled independently; the user keeps
\* polling, finishes the calls it is in and waits once it has asked for a stop.
FairSpec == /\ Spec
            /\ \A w \in Warps : WF_allVars(Copier(w) /\ UNCHANGED model)
            /\ WF_allVars(Ingress /\ UNCHANGED model) /\ WF_allVars(Egress /\ UNCHANGED model)
            /\ WF_allVars(UserPolls /\ UNCHANGED model)
            /\ WF_allVars(UserReturns /\ UNCHANGED model)

-----------------------------------------------------------------------------
(* Properties.                                                              *)

\* DirectAtomicQueue: a reserved completion index belongs to one warp, and its slot
\* holds no completion the host has yet to poll.
CompletionsKept == model = "direct_atomic" => Direct!CompletionsKept

\* DynamicShardedSpscQueue: the cursors of every lane stay in order however the stores
\* of tails and flags interleave with the warps, and a batch that fits the capacity
\* always finds a lane, so try_submit_batch never returns EIO half way.
LanesConsistent == model = "dynamic_sharded_spsc" => Sharded!LanesConsistent

\* warp_specialized_kernel: no two copy warps hold the same task, and no completion
\* is published before its copy.
ClaimsDisjoint == model = "warp_specialized" => Specialized!ClaimsDisjoint

\* With lanes or a partition no task is copied twice and none is reported twice or
\* before its copy, also after a restart over the same memory; and when wait has
\* returned, every accepted task has been copied.
TasksOnce ==
  model \in {"dynamic_sharded_spsc", "static_partition_spsc"} =>
    /\ model = "static_partition_spsc" => Static!TypeOK
    /\ \A t \in Tasks : copied[t] <= 1 /\ (~host.running /\ t < Accepted => copied[t] = 1)
    /\ \A i \in 1..Len(delivered) :
         /\ delivered[i] \in Tasks /\ copied[delivered[i]] = 1
         /\ \A j \in 1..(i - 1) : delivered[j] # delivered[i]

\* The static partition and the specialised kernel report completions in submission
\* order: until the next start they implement the ordered copy queue.
ReportsInOrder ==
  [][/\ model = "static_partition_spsc" =>
          \/ [Static!Queue!Next]_(Static!Queue!vars)
          \/ Static!Queue!Init'
     /\ model = "warp_specialized" => [Specialized!Queue!Next]_(Specialized!Queue!vars)]_allVars

\* Whatever a queue model accepts, reports or finishes, the lifecycle bookkeeping of
\* its user admits: no more than the capacity is outstanding, no completion comes
\* without a task, nothing is accepted while draining.
LifecycleAdmits == [][Lifecycle!Next]_(Lifecycle!vars)

\* Every task accepted since the start has been reported.  A direct atomic queue is
\* held to the number of its reports only: it can report one task in the place of
\* another (run direct_atomic_reuse).
AllReported ==
  IF model = "direct_atomic" THEN Drained
  ELSE \A t \in 0..(Accepted - 1) : \E i \in DOMAIN delivered : delivered[i] = t

\* There is something for the queue to do: tasks to report, or a stop to finish.  A
\* specialised kernel that has been told to stop is left out: it can lose tasks then.
Pending == \/ host.accepting /\ ~AllReported
           \/ model # "warp_specialized" /\ ~host.accepting /\ (host.running \/ ~AllReported)

\* Each accepted task is itself reported (the bound on tasks ends the submissions),
\* and a requested stop ends with the kernel gone and every task reported.  Of a
\* direct atomic queue this says only that there are as many reports as tasks, and of
\* a specialised one it says nothing once it has been told to stop.
Settles == []<>~Pending
=============================================================================
