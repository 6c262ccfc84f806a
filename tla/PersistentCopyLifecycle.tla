------------------------ MODULE PersistentCopyLifecycle ------------------------
(***************************************************************************)
(* PersistentCopyLifecycle (src/gpu/persistent_copy.cu): the bookkeeping a   *)
(* user of any queue model keeps beside it.  It admits tasks up to the       *)
(* capacity while accepting, counts completions, and stops once everything   *)
(* admitted has completed.  Refused calls change nothing and are not steps.  *)
(***************************************************************************)
EXTENDS Naturals

VARIABLES state, accepted_tasks, completed_tasks,
          capacity     \* config_.outstanding_capacity

vars == <<state, accepted_tasks, completed_tasks, capacity>>

Drained == accepted_tasks = completed_tasks

Init == state = "stopped" /\ accepted_tasks = 0 /\ completed_tasks = 0 /\ capacity \in Nat

\* start, with a configuration validate_persistent_copy_config accepts.
Start == /\ state = "stopped"
         /\ state' = "accepting" /\ accepted_tasks' = 0 /\ completed_tasks' = 0
         /\ capacity' \in Nat

RecordAccepted ==
  /\ state = "accepting"
  /\ \E count \in 1..(capacity - (accepted_tasks - completed_tasks)) :
       accepted_tasks' = accepted_tasks + count
  /\ UNCHANGED <<state, completed_tasks, capacity>>

RecordCompleted ==
  /\ state # "stopped"
  /\ \E count \in 1..(accepted_tasks - completed_tasks) :
       completed_tasks' = completed_tasks + count
  /\ UNCHANGED <<state, accepted_tasks, capacity>>

RequestStop ==
  /\ state = "accepting" /\ state' = "draining"
  /\ UNCHANGED <<accepted_tasks, completed_tasks, capacity>>

FinishStop ==
  /\ state = "draining" /\ Drained /\ state' = "stopped"
  /\ UNCHANGED <<accepted_tasks, completed_tasks, capacity>>

\* Calls a user makes one after the other around one call of the queue: the last
\* completion, polled after the kernel has exited, is recorded and finishes the stop;
\* a queue whose kernel cannot be launched is stopped again.
LastCompletion ==
  /\ state = "draining" /\ completed_tasks < accepted_tasks
  /\ completed_tasks' = accepted_tasks /\ state' = "stopped"
  /\ UNCHANGED <<accepted_tasks, capacity>>

FailedStart == /\ state = "stopped" /\ accepted_tasks' = 0 /\ completed_tasks' = 0
               /\ capacity' \in Nat /\ UNCHANGED state

Next == \/ Start \/ RecordAccepted \/ RecordCompleted \/ RequestStop \/ FinishStop
        \/ LastCompletion \/ FailedStart

Spec == Init /\ [][Next]_vars
=============================================================================
