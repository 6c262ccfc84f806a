----------------------- MODULE PersistentCudaCopyBackend -----------------------
(***************************************************************************)
(* The production copy backend: PersistentCudaCopyHost, which batches tasks, *)
(* flushes GPUDirect visibility before it publishes them to the persistent   *)
(* kernel's queue and matches completions with task contexts, and            *)
(* PersistentCudaCopyBackend around it, with its stop protocol and error     *)
(* handling (src/gpu/persistent_copy_backend.cu).                            *)
(*                                                                          *)
(* The object is one record, and every member function is an operator from   *)
(* the record before a call to the record after it, so that the functions    *)
(* call each other here as they do in the code.  The device side is what     *)
(* WarpSpecializedQueue promises: tasks complete in submission order.        *)
(* visible and copied are history.                                           *)
(***************************************************************************)
EXTENDS Naturals, Sequences, FiniteSets, IndexOrder

CONSTANTS Capacity,      \* config.queue_capacity
          HostBatch,     \* config.host_batch
          MaxTasks       \* bound: tasks accepted between start and stop

ASSUME BackendAssumption ==
  /\ Capacity \in Nat \ {0} /\ \E k \in 0..31 : Capacity = 2^k
  /\ HostBatch \in 1..Capacity
  /\ MaxTasks \in Nat

VARIABLES backend,       \* the members of the backend, its host and its queue
          copied,        \* history: tasks the device has copied
          popped         \* history: completions handed to the worker

vars == <<backend, copied, popped>>

TaskIds == 1..MaxTasks
Slots == 0..(Capacity - 1)
SlotOf(task) == task % Capacity
Free == [state |-> "free", task |-> 0, result |-> "success"]
None == [task |-> 0]

\* What the calls into the driver, the queue and the clock may answer: which of
\* them fail, how many tasks the queue takes (PersistentCopyQueue may take a part
\* of a batch, or none of it), and whether the batch delay has expired.
Environment == [flush : BOOLEAN, submit : BOOLEAN, room : 0..HostBatch,
                poll : BOOLEAN, stop : BOOLEAN, due : BOOLEAN]

\* What matters to a call that neither polls the queue nor looks at the clock.
Publishing == {env \in Environment : env.poll /\ env.due}

Elements(seq) == {seq[i] : i \in DOMAIN seq}

\* start: everything is (re)initialised; a failed start leaves it stopped.
Started == [state |-> "accepting", stop_requested |-> FALSE,
            contexts |-> [s \in Slots |-> Free], pending |-> <<>>, outstanding |-> 0,
            next |-> 1, local |-> <<>>, blocked |-> FALSE, flushed |-> FALSE,
            failure |-> "none", queue |-> <<>>, done |-> 0,
            status |-> "ok", completion |-> None, visible |-> {}]

\* status and completion do not outlive the call that returns them.
Returned(b) == [b EXCEPT !.status = "ok", !.completion = None]

Init == backend = [Started EXCEPT !.state = "stopped"] /\ copied = {} /\ popped = <<>>

-----------------------------------------------------------------------------
(* PersistentCudaCopyHost.  status is the code a function returns and      *)
(* completion its out parameter.                                            *)

\* The contexts after those of the given tasks change state.
Marked(contexts, tasks, state, result) ==
  [s \in Slots |-> IF \E i \in DOMAIN tasks : SlotOf(tasks[i]) = s
                   THEN [contexts[s] EXCEPT !.state = state, !.result = result]
                   ELSE contexts[s]]

\* publish_pending: flush once per batch, then submit what the queue takes.
PublishPending(b, env) ==
  LET count == IF Len(b.pending) < env.room THEN Len(b.pending) ELSE env.room
      sent == SubSeq(b.pending, 1, count)
      rest == SubSeq(b.pending, count + 1, Len(b.pending))
      g == [b EXCEPT !.failure = "none", !.flushed = TRUE,
                     !.visible = IF b.flushed THEN @ ELSE @ \cup Elements(b.pending)]
  IN IF ~b.flushed /\ ~env.flush
     THEN [b EXCEPT !.blocked = TRUE, !.failure = "visibility", !.status = "EIO"]
     ELSE IF ~env.submit \/ b.stop_requested
     THEN [g EXCEPT !.failure = "queue", !.status = "EIO"]
     ELSE IF count = 0
     THEN [g EXCEPT !.blocked = TRUE, !.status = "ok"]
     ELSE [g EXCEPT !.contexts = Marked(@, sent, "submitted", "success"),
                    !.queue = @ \o sent, !.pending = rest,
                    !.blocked = rest # <<>>, !.flushed = rest # <<>>, !.status = "ok"]

\* The context of the next task, taken for a request.
Occupied(b, state, result) ==
  [b EXCEPT !.contexts[SlotOf(b.next)] = [state |-> state, task |-> b.next, result |-> result],
            !.outstanding = @ + 1, !.next = @ + 1, !.status = "ok"]

\* A valid request joins the pending batch, which is published when it is full.
Enqueue(b, env) ==
  LET queued == [Occupied(b, "pending", "success") EXCEPT
                   !.pending = Append(@, b.next),
                   !.flushed = IF b.pending = <<>> THEN FALSE ELSE @]
  IN IF Len(queued.pending) = HostBatch THEN PublishPending(queued, env) ELSE queued

\* Mutant of HostTrySubmit: a blocked batch still takes tasks while it has room.
HostTrySubmitIntoBlocked(b, valid, env) ==
  IF \/ b.outstanding >= Capacity \/ b.contexts[SlotOf(b.next)] # Free \/ ~valid
     \/ Len(b.pending) = HostBatch
  THEN [b EXCEPT !.status = "ok"] ELSE Enqueue(b, env)

\* try_submit of the host; valid is the verdict of make_copy_task.
HostTrySubmit(b, valid, env) ==
  IF b.outstanding >= Capacity \/ (b.blocked /\ b.pending # <<>>)
  THEN [b EXCEPT !.status = "ok"]
  ELSE IF b.contexts[SlotOf(b.next)] # Free THEN [b EXCEPT !.status = "EPROTO"]
  ELSE IF ~valid THEN [b EXCEPT !.status = "EINVAL"]
  ELSE Enqueue(b, env)

\* try_complete_locally: the request becomes an error completion at once.
TryCompleteLocally(b) ==
  IF b.outstanding >= Capacity THEN [b EXCEPT !.status = "ok"]
  ELSE IF b.contexts[SlotOf(b.next)] # Free
  THEN [b EXCEPT !.failure = "queue", !.status = "EPROTO"]
  ELSE [Occupied(b, "local_error", "backend_error") EXCEPT !.local = Append(@, b.next)]

\* fail_pending: the tasks not yet published become local errors.
FailPending(b) ==
  [b EXCEPT !.contexts = Marked(@, b.pending, "local_error", "backend_error"),
            !.local = @ \o b.pending, !.pending = <<>>,
            !.blocked = FALSE, !.flushed = FALSE, !.failure = "none"]

\* fail_all: so do the submitted ones, in the order of their slots, although the
\* device may still copy them.
SubmittedTasks(contexts) ==
  LET slots == {s \in Slots : contexts[s].state = "submitted"}
  IN [i \in 1..Cardinality(slots) |-> contexts[Nth(slots, i)].task]

FailSubmitted(contexts) ==
  [s \in Slots |-> IF contexts[s].state = "submitted"
                   THEN [contexts[s] EXCEPT !.state = "local_error", !.result = "backend_error"]
                   ELSE contexts[s]]

FailAll(b) ==
  LET f == FailPending(b)
  IN [f EXCEPT !.contexts = FailSubmitted(@), !.local = @ \o SubmittedTasks(f.contexts)]

Holds(b, task, state) == b.contexts[SlotOf(task)].state = state
                         /\ b.contexts[SlotOf(task)].task = task

\* Mutant of Completed: the task stays counted as outstanding.
CompletedStillCounted(b, task) ==
  [b EXCEPT !.contexts[SlotOf(task)] = Free,
            !.completion = [task |-> task, result |-> b.contexts[SlotOf(task)].result]]

\* The context of a terminal task is released with its completion.
Completed(b, task) ==
  [b EXCEPT !.contexts[SlotOf(task)] = Free, !.outstanding = @ - 1,
            !.completion = [task |-> task, result |-> b.contexts[SlotOf(task)].result]]

\* Mutant of ProgressHostBatch: a batch the queue had no room for is not tried again.
ProgressHostBatchOnce(b, env) ==
  IF b.pending # <<>> /\ ~b.blocked /\ env.due THEN PublishPending(b, env)
  ELSE [b EXCEPT !.status = "ok"]

\* progress_host_batch: publish an overdue or a blocked batch.
ProgressHostBatch(b, env) ==
  IF b.pending # <<>> /\ (b.blocked \/ env.due) THEN PublishPending(b, env)
  ELSE [b EXCEPT !.status = "ok"]

\* Local errors before device completions.  A completion whose context is gone is
\* consumed and reported as EPROTO.
PopNext(p, env) ==
  LET task == Head(p.queue)
      polled == [p EXCEPT !.queue = Tail(@), !.done = @ - 1]
  IN IF p.status # "ok" THEN p
     ELSE IF p.local # <<>>
     THEN [Completed(p, Head(p.local)) EXCEPT !.local = Tail(@)]
     ELSE IF ~env.poll THEN [p EXCEPT !.failure = "queue", !.status = "EIO"]
     ELSE IF p.done = 0 THEN p
     ELSE IF ~Holds(p, task, "submitted")
     THEN [polled EXCEPT !.failure = "queue", !.status = "EPROTO"]
     ELSE Completed(polled, task)

\* try_pop_completion of the host: progress the batch, then pop.
HostTryPop(b, env) == PopNext(ProgressHostBatch(b, env), env)

-----------------------------------------------------------------------------
(* PersistentCudaCopyBackend.                                               *)

\* progress_stop_request: the kernel is told to stop once nothing is pending.
ProgressStopRequest(b, env) ==
  IF b.state = "draining" /\ b.pending = <<>> /\ env.stop
  THEN [b EXCEPT !.stop_requested = TRUE] ELSE b

\* handle_host_error: a visibility failure costs the batch; anything else costs
\* every outstanding task and the backend.
HandleHostError(b, env) ==
  IF b.failure = "visibility" THEN FailPending(b)
  ELSE ProgressStopRequest([FailAll(b) EXCEPT !.state = "draining"], env)

\* The backend after a host call: an error is handled before the call returns.
Handled(h, env) == IF h.status = "ok" THEN h ELSE HandleHostError(h, env)

Submitting(valid, env) ==
  LET h == HostTrySubmit(backend, valid, env)
  IN Handled(IF h.status = "EINVAL" /\ h.failure = "none" THEN TryCompleteLocally(h) ELSE h, env)

\* try_submit_at_time; try_submit_batch is a run of these.
TrySubmit(envs) ==
  /\ backend.state = "accepting" /\ backend.next <= MaxTasks
  /\ backend' \in {Returned(Submitting(valid, env)) : valid \in BOOLEAN, env \in envs}
  /\ UNCHANGED <<copied, popped>>

\* flush_submissions.
FlushSubmissions(envs) ==
  /\ backend.state = "accepting" /\ backend.pending # <<>>
  /\ backend' \in {Returned(Handled(PublishPending(backend, env), env)) : env \in envs}
  /\ UNCHANGED <<copied, popped>>

\* Mutant of Attempted: the completion of the second attempt is dropped.
AttemptedDropsSecond(first, env) ==
  IF first.status = "ok" THEN first
  ELSE [HostTryPop(HandleHostError(first, env), env) EXCEPT !.completion = None]

\* After an error has been handled there is a second attempt.
Attempted(first, env) ==
  IF first.status = "ok" THEN first ELSE HostTryPop(HandleHostError(first, env), env)

Popping(env) == ProgressStopRequest(Attempted(HostTryPop(backend, env), env), env)

\* try_pop_completion_at_time; try_pop_completion_batch is a run of these.
TryPopCompletion(envs) ==
  /\ backend.state # "stopped"
  /\ \E h \in {Popping(env) : env \in envs} :
       /\ backend' = Returned(h)
       /\ popped' = IF h.completion # None THEN Append(popped, h.completion) ELSE popped
  /\ UNCHANGED copied

Stopping(env) ==
  LET d == [backend EXCEPT !.state = "draining"]
      h == IF d.pending = <<>> THEN d ELSE PublishPending(d, env)
  IN ProgressStopRequest(Handled(h, env), env)

\* request_stop: publish the tail batch, then stop the kernel when nothing is
\* left pending.
RequestStop(envs) ==
  /\ backend.state = "accepting"
  /\ backend' \in {Returned(Stopping(env)) : env \in envs}
  /\ UNCHANGED <<copied, popped>>

\* Mutant of Wait: it does not look at the tasks that are still outstanding.
WaitForKernelOnly(envs) ==
  /\ backend.state = "draining"
  /\ \E w \in {ProgressStopRequest(backend, env) : env \in envs} :
       IF w.stop_requested /\ w.pending = <<>>
       THEN /\ backend.done = Len(backend.queue)
            /\ backend' = [Started EXCEPT !.state = "stopped"]
            /\ copied' = {} /\ popped' = <<>>
       ELSE backend' = w /\ UNCHANGED <<copied, popped>>

\* wait: EAGAIN until every task has been reported; then the kernel has drained
\* its queue and everything is released.
Wait(envs) ==
  /\ backend.state = "draining"
  /\ \E w \in {ProgressStopRequest(backend, env) : env \in envs} :
       IF w.stop_requested /\ w.outstanding = 0 /\ w.pending = <<>>
       THEN /\ backend.done = Len(backend.queue)
            /\ backend' = [Started EXCEPT !.state = "stopped"]
            /\ copied' = {} /\ popped' = <<>>
       ELSE backend' = w /\ UNCHANGED <<copied, popped>>

\* The destructor (abort_and_reset): what is outstanding is failed and reported to
\* nobody, the kernel is stopped and drains what was published, everything is
\* released; the next backend is a new one.
Destroy ==
  /\ backend.state # "stopped"
  /\ backend.done = Len(backend.queue)
  /\ backend' = [Started EXCEPT !.state = "stopped"]
  /\ copied' = {} /\ popped' = <<>>

Start == /\ backend.state = "stopped"
         /\ backend' = Started
         /\ UNCHANGED <<copied, popped>>

\* The device copies the oldest task it has not copied and publishes its
\* completion; after a stop request it still drains what was published.
DeviceComplete ==
  /\ backend.done < Len(backend.queue)
  /\ backend' = [backend EXCEPT !.done = @ + 1]
  /\ copied' = copied \cup {backend.queue[backend.done + 1]}
  /\ UNCHANGED popped

Next == \/ Start \/ DeviceComplete
        \/ TrySubmit(Publishing) \/ FlushSubmissions(Publishing)
        \/ TryPopCompletion(Environment)
        \/ RequestStop(Publishing) \/ Wait(Publishing) \/ Destroy

Spec == Init /\ [][Next]_vars

\* The worker keeps polling while tasks are outstanding and the daemon keeps
\* calling wait while the backend drains; the driver's calls succeed again and
\* again; the kernel keeps copying what was published.
Working == [flush : {TRUE}, submit : {TRUE}, room : {HostBatch}, poll : {TRUE},
            stop : {TRUE}, due : {TRUE}]
Fairness == /\ WF_vars(DeviceComplete)
            /\ WF_vars(TryPopCompletion(Working))
            /\ WF_vars(Wait(Working))
FairSpec == Spec /\ Fairness

-----------------------------------------------------------------------------
(* Properties.                                                              *)

Accepted == 1..(backend.next - 1)
PoppedAt(task) == {i \in DOMAIN popped : popped[i].task = task}
InState(state) == {s \in Slots : backend.contexts[s].state = state}
TasksOf(slots) == {backend.contexts[s].task : s \in slots}

\* The members keep their declared ranges: in particular the pending batch fits
\* pending_tasks_, an array of host_batch tasks, and the ring of local completions
\* (local_completion_task_ids_) never holds more than its capacity.
TypeOK ==
  /\ backend.state \in {"stopped", "accepting", "draining"}
  /\ backend.stop_requested \in BOOLEAN /\ backend.blocked \in BOOLEAN
  /\ backend.flushed \in BOOLEAN /\ backend.failure \in {"none", "visibility", "queue"}
  /\ backend.contexts \in [Slots -> [state : {"free", "pending", "submitted", "local_error"},
                                     task : 0..MaxTasks, result : {"success", "backend_error"}]]
  /\ backend.pending \in Seq(TaskIds) /\ Len(backend.pending) <= HostBatch
  /\ backend.local \in Seq(TaskIds) /\ Len(backend.local) <= Capacity
  /\ backend.queue \in Seq(TaskIds) /\ Len(backend.queue) <= Capacity
  /\ backend.done \in 0..Len(backend.queue)
  /\ backend.outstanding \in 0..Capacity /\ backend.next \in 1..(MaxTasks + 1)
  /\ backend.visible \subseteq TaskIds /\ copied \subseteq TaskIds

\* Every accepted task is either reported exactly once or still owns its context,
\* whatever failed and whatever the device completes late (the duplicate or
\* stale completions of try_pop_completion, fail_pending and fail_all); it is
\* reported as successful only if the device has copied it.
ExactlyOnce ==
  /\ \A task \in Accepted :
       \/ Cardinality(PoppedAt(task)) = 1 /\ backend.contexts[SlotOf(task)].task # task
       \/ PoppedAt(task) = {} /\ backend.contexts[SlotOf(task)].task = task
  /\ \A i \in DOMAIN popped : popped[i].result = "success" => popped[i].task \in copied

\* The contexts, the pending batch, the local completions and the counters of
\* PersistentCudaCopyHost describe the same set of tasks, so none of its EPROTO
\* checks on pending and local completions fires and reset never answers EBUSY,
\* and they stay within the arrays that hold them.
HostConsistent ==
  /\ TypeOK
  /\ backend.outstanding = Capacity - Cardinality(InState("free"))
  /\ TasksOf(InState("pending")) = Elements(backend.pending)
  /\ TasksOf(InState("local_error")) = Elements(backend.local)
  /\ Cardinality(InState("pending")) = Len(backend.pending)
  /\ Cardinality(InState("local_error")) = Len(backend.local)
  /\ TasksOf(InState("submitted")) \subseteq Elements(backend.queue)

\* No task reaches the device before the visibility flush that covers it, even
\* when a batch is published in parts because the queue was full.
FlushBeforePublish == Elements(backend.queue) \cup copied \subseteq backend.visible

\* A stop loses nothing: the kernel is told to stop only when nothing is pending, it
\* is given nothing afterwards, and wait stops the backend only when every accepted
\* task has been reported.
StopLosesNothing ==
  [][/\ backend.stop_requested /\ backend'.stop_requested =>
          Len(backend'.queue) <= Len(backend.queue) /\ backend'.pending = <<>>
     /\ Wait(Publishing) /\ backend'.state = "stopped" =>
          \A task \in Accepted : PoppedAt(task) # {}]_vars

\* Every accepted task is eventually reported, although its batch may be blocked,
\* its flush may fail or the queue may fail under it; and a draining backend
\* eventually stops (the tasks are bounded, so the reports catch up with them).
AcceptedCompletes ==
  []<>\/ backend.state = "stopped"
      \/ backend.state = "accepting" /\ \A task \in Accepted : PoppedAt(task) # {}

\* What the step document says of try_submit: it refuses a request only when the
\* total outstanding capacity is exhausted (a blocked batch included) or the backend
\* does not accept.  Violated: a context whose older task is still on the device is
\* met again while others, failed locally, were released before it.
RefusedOnlyWhenFull ==
  [][TrySubmit(Publishing) => \/ backend'.next = backend.next + 1
                               \/ backend.outstanding >= Capacity \/ backend.blocked]_vars
=============================================================================
