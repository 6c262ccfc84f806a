---------------------------- MODULE CopyHostProofs ----------------------------
(*****************************************************************************)
(* What the member functions of PersistentCudaCopyHost and the backend around it *)
(* keep.  Each is described by the members it changes (...Effect) and then by *)
(* what it keeps (...Sound): the books, and which tasks own a context (Keeps: the *)
(* same; Accepts: one more).  The lemmas compose as the member functions call each *)
(* other.                                                                    *)
(*****************************************************************************)
EXTENDS CopyContexts

-----------------------------------------------------------------------------
(* The books of the backend.                                                *)

\* What the contexts, the counters and the sequences say of each other; it holds
\* between any two calls inside a member function.
Ledger(b) ==
  /\ b.next \in 1..(MaxTasks + 1)
  /\ Issued(b.contexts, b.next) /\ ErrorsReported(b.contexts)
  /\ Lists(b.contexts, b.pending, "pending") /\ Len(b.pending) <= HostBatch
  /\ Lists(b.contexts, b.local, "local_error")
  /\ Covers(b.contexts, b.queue, "submitted") /\ Distinct(b.queue)
  /\ Below(b.queue, b.next)
  /\ Apart(b.queue, b.pending) /\ Len(b.queue) <= Capacity
  /\ b.outstanding + Cardinality(FreeSlots(b.contexts)) = Capacity
  /\ (b.state = "accepting" \/ b.pending # <<>>) => AllOwn(b.contexts, b.queue, "submitted")
  /\ b.stop_requested => b.state = "draining" /\ b.pending = <<>>

\* What the device has copied, what it may read, and what it was given.
Delivery(b, c) ==
  /\ b.done <= Len(b.queue)
  /\ \A i \in 1..b.done : b.queue[i] \in c
  /\ \A i \in 1..Len(b.queue) : b.queue[i] \in b.visible
  /\ c \subseteq b.visible

\* A batch that is flushed waits for room in the queue and takes no more tasks; one
\* that is not blocked has room for another task.  It holds when a call returns.
Settled(b) ==
  b.pending # <<>> =>
    /\ b.flushed => b.blocked /\ \A i \in 1..Len(b.pending) : b.pending[i] \in b.visible
    /\ ~b.blocked => Len(b.pending) < HostBatch

-----------------------------------------------------------------------------
(* The member functions, member by member.                                  *)

\* The members a call leaves alone.
SameControl(p, b) == p.state = b.state /\ p.stop_requested = b.stop_requested
SameBook(p, b) == p.contexts = b.contexts /\ p.outstanding = b.outstanding /\ p.next = b.next
SameBatch(p, b) == p.pending = b.pending /\ p.blocked = b.blocked /\ p.flushed = b.flushed
SameDevice(p, b) == p.queue = b.queue /\ p.done = b.done /\ p.visible = b.visible

\* A batch of which the first tasks have been submitted.
Sent(p, b, count) ==
  /\ p.contexts = Marked(b.contexts, SubSeq(b.pending, 1, count), "submitted", "success")
  /\ p.queue = b.queue \o SubSeq(b.pending, 1, count)
  /\ p.pending = SubSeq(b.pending, count + 1, Len(b.pending))
  /\ p.blocked = (p.pending # <<>>) /\ p.flushed = (p.pending # <<>>)

\* publish_pending: an error leaves the batch alone; otherwise the batch has been
\* flushed, and some of it, or nothing, was submitted.
LEMMA PublishEffect ==
  ASSUME NEW b \in Backends, NEW env \in Environment, NEW p, p = PublishPending(b, env)
  PROVE  /\ p \in Backends /\ SameControl(p, b)
         /\ p.outstanding = b.outstanding /\ p.next = b.next /\ p.local = b.local
         /\ p.done = b.done /\ p.completion = b.completion
         /\ b.visible \subseteq p.visible
         /\ \/ p.status = "EIO" /\ p.pending = b.pending /\ p.contexts = b.contexts /\ p.queue = b.queue
            \/ /\ p.status = "ok" /\ ~b.stop_requested
               /\ b.flushed \/ Elements(b.pending) \subseteq p.visible
               /\ \/ /\ p.pending = b.pending /\ p.contexts = b.contexts /\ p.queue = b.queue
                     /\ p.flushed /\ p.blocked
                  \/ \E count \in 1..Len(b.pending) : Sent(p, b, count)
<1> DEFINE count == IF Len(b.pending) < env.room THEN Len(b.pending) ELSE env.room
           sent == SubSeq(b.pending, 1, count)
           rest == SubSeq(b.pending, count + 1, Len(b.pending))
           visible == IF b.flushed THEN b.visible ELSE b.visible \cup Elements(b.pending)
           g == [b EXCEPT !.failure = "none", !.flushed = TRUE, !.visible = visible]
<1>1. env.room \in Nat  BY BackendAssumption DEF Environment
<1>2. /\ b.pending \in Seq(TaskIds) /\ b.queue \in Seq(TaskIds) /\ b.visible \subseteq TaskIds
      /\ b.contexts \in ContextArrays
  BY DEF Backends, TaskSeqs, TaskSets
<1>3. visible \in TaskSets  BY <1>2 DEF TaskSets, Elements
<1>4. /\ "none" \in Failures /\ "queue" \in Failures /\ "visibility" \in Failures
      /\ "ok" \in Statuses /\ "EIO" \in Statuses
  BY DEF Failures, Statuses
<1> HIDE DEF visible, count
<1>5. g \in Backends  BY <1>3, <1>4 DEF Backends
<1>6. /\ SameControl(g, b) /\ SameBook(g, b) /\ g.local = b.local /\ g.completion = b.completion
      /\ g.pending = b.pending /\ g.queue = b.queue /\ g.done = b.done
      /\ g.visible = visible /\ g.flushed = TRUE
  BY DEF Backends, SameControl, SameBook
<1> HIDE DEF g
<1>7. b.visible \subseteq visible /\ (b.flushed \/ Elements(b.pending) \subseteq visible)
  BY DEF visible
<1>8. CASE ~b.flushed /\ ~env.flush
  <2>1. p = [b EXCEPT !.blocked = TRUE, !.failure = "visibility", !.status = "EIO"]
    BY <1>8 DEF PublishPending
  <2>2. p \in Backends  BY <2>1, <1>4, ZenonT(30) DEF Backends
  <2>3. /\ SameControl(p, b) /\ SameBook(p, b) /\ p.local = b.local
        /\ p.completion = b.completion /\ p.pending = b.pending /\ SameDevice(p, b)
        /\ p.status = "EIO"
    BY <2>1 DEF Backends, SameControl, SameBook, SameDevice
  <2> QED  BY <2>2, <2>3 DEF SameBook, SameDevice
<1>9. CASE (b.flushed \/ env.flush) /\ (~env.submit \/ b.stop_requested)
  <2>1. p = [g EXCEPT !.failure = "queue", !.status = "EIO"]
    BY <1>9 DEF PublishPending, g, visible
  <2>2. p \in Backends  BY <2>1, <1>4, <1>5 DEF Backends
  <2>3. /\ SameControl(p, g) /\ SameBook(p, g) /\ p.local = g.local
        /\ p.completion = g.completion /\ p.pending = g.pending /\ SameDevice(p, g)
        /\ p.status = "EIO"
    BY <2>1, <1>5 DEF Backends, SameControl, SameBook, SameDevice
  <2> QED  BY <2>2, <2>3, <1>6, <1>7 DEF SameControl, SameBook, SameDevice
<1>10. CASE (b.flushed \/ env.flush) /\ env.submit /\ ~b.stop_requested /\ count = 0
  <2>1. p = [g EXCEPT !.blocked = TRUE, !.status = "ok"]
    BY <1>10 DEF PublishPending, g, visible, count
  <2>2. p \in Backends  BY <2>1, <1>4, <1>5 DEF Backends
  <2>3. /\ SameControl(p, g) /\ SameBook(p, g) /\ p.local = g.local
        /\ p.completion = g.completion /\ p.pending = g.pending /\ SameDevice(p, g)
        /\ p.status = "ok" /\ p.blocked = TRUE /\ p.flushed = g.flushed
    BY <2>1, <1>5 DEF Backends, SameControl, SameBook, SameDevice
  <2> QED  BY <2>2, <2>3, <1>6, <1>7, <1>10 DEF SameControl, SameBook, SameDevice
<1>11. CASE (b.flushed \/ env.flush) /\ env.submit /\ ~b.stop_requested /\ count # 0
  <2> DEFINE contexts == Marked(b.contexts, sent, "submitted", "success")
             queue == b.queue \o sent
             more == (rest # <<>>)
             m == [g EXCEPT !.contexts = contexts, !.queue = queue, !.pending = rest]
  <2>1. count \in 1..Len(b.pending)  BY <1>1, <1>2, <1>11 DEF count
  <2>2. sent \in Seq(TaskIds) /\ rest \in Seq(TaskIds)  BY <2>1, <1>2
  <2>3. queue \in TaskSeqs /\ rest \in TaskSeqs  BY <2>2, <1>2 DEF TaskSeqs
  <2>4. contexts \in ContextArrays
    BY <1>2, MarkedContexts DEF ContextStates, Results, MarkedAs
  <2>5. p = [m EXCEPT !.blocked = more, !.flushed = more, !.status = "ok"]
    BY <1>6, <1>11 DEF PublishPending, g, visible, count, SameBook
  <2>6. more \in BOOLEAN  OBVIOUS
  <2> HIDE DEF contexts, queue, more, rest
  <2>7. m \in Backends  BY <2>3, <2>4, <1>5 DEF Backends
  <2>8. /\ SameControl(m, g) /\ m.outstanding = g.outstanding /\ m.next = g.next
        /\ m.local = g.local /\ m.completion = g.completion /\ m.done = g.done
        /\ m.visible = g.visible /\ m.contexts = contexts /\ m.queue = queue
        /\ m.pending = rest
    BY <1>5 DEF Backends, SameControl
  <2> HIDE DEF m
  <2>9. p \in Backends  BY <2>5, <2>6, <2>7, <1>4 DEF Backends
  <2>10. /\ SameControl(p, m) /\ SameBook(p, m) /\ p.local = m.local
         /\ p.completion = m.completion /\ p.pending = m.pending /\ SameDevice(p, m)
         /\ p.status = "ok" /\ p.blocked = more /\ p.flushed = more
    BY <2>5, <2>7 DEF Backends, SameControl, SameBook, SameDevice
  <2>11. Sent(p, b, count)
    BY <2>8, <2>10 DEF Sent, SameBook, SameDevice, contexts, queue, rest, more
  <2> QED  BY <2>1, <2>8, <2>9, <2>10, <2>11, <1>6, <1>7, <1>11
           DEF SameControl, SameBook, SameDevice
<1> QED  BY <1>8, <1>9, <1>10, <1>11

\* A valid request has joined the batch (try_submit, before a full batch is published).
Queued(b) ==
  [Occupied(b, "pending", "success") EXCEPT
     !.pending = Append(@, b.next), !.flushed = IF b.pending = <<>> THEN FALSE ELSE @]

\* try_submit, for a valid request: the next task takes its context and joins the
\* pending batch; a batch it begins has not been flushed.
LEMMA EnqueueEffect ==
  ASSUME NEW b \in Backends, b.next \in TaskIds, NEW p, p = Queued(b)
  PROVE  /\ p \in Backends /\ p.status = "ok"
         /\ SameControl(p, b) /\ SameDevice(p, b)
         /\ p.local = b.local /\ p.completion = b.completion /\ p.blocked = b.blocked
         /\ p.contexts = [b.contexts EXCEPT ![SlotOf(b.next)] =
                            [state |-> "pending", task |-> b.next, result |-> "success"]]
         /\ p.outstanding = b.outstanding + 1 /\ p.next = b.next + 1
         /\ p.pending = Append(b.pending, b.next)
         /\ p.flushed = (b.pending # <<>> /\ b.flushed)
<1> DEFINE entry == [state |-> "pending", task |-> b.next, result |-> "success"]
           contexts == [b.contexts EXCEPT ![SlotOf(b.next)] = entry]
           more == b.outstanding + 1
           next == b.next + 1
           o == [b EXCEPT !.contexts = contexts, !.outstanding = more, !.next = next, !.status = "ok"]
           pending == Append(b.pending, b.next)
           flushed == b.pending # <<>> /\ b.flushed
<1>1. /\ b.contexts \in ContextArrays /\ b.pending \in Seq(TaskIds) /\ b.outstanding \in Nat
      /\ b.flushed \in BOOLEAN
  BY DEF Backends, TaskSeqs, Counts
<1>2. entry \in ContextSlots
  BY DEF ContextSlots, ContextStates, TaskNumbers, TaskIds, Results
<1>3. contexts \in ContextArrays  BY <1>1, <1>2 DEF ContextArrays
<1>4. more \in Counts /\ next \in Counts /\ pending \in TaskSeqs /\ flushed \in BOOLEAN
  BY <1>1 DEF Counts, TaskSeqs, TaskIds
<1>5. Occupied(b, "pending", "success") = o  BY DEF Occupied
<1> HIDE DEF contexts, more, next
<1>6. "ok" \in Statuses  BY DEF Statuses
<1>7. o \in Backends  BY <1>3, <1>4, <1>6 DEF Backends
<1>8. /\ o.status = "ok" /\ SameControl(o, b) /\ SameDevice(o, b)
      /\ o.local = b.local /\ o.completion = b.completion /\ SameBatch(o, b)
      /\ o.contexts = contexts /\ o.outstanding = more /\ o.next = next
  BY DEF Backends, SameControl, SameDevice, SameBatch
<1> HIDE DEF o
<1>9. p = [o EXCEPT !.pending = pending, !.flushed = flushed]
  BY <1>1, <1>5, <1>7, <1>8 DEF SameBatch, Backends, Queued
<1> HIDE DEF pending, flushed
<1>10. p \in Backends  BY <1>4, <1>7, <1>9 DEF Backends
<1>11. /\ p.status = o.status /\ SameControl(p, o) /\ SameDevice(p, o)
       /\ p.local = o.local /\ p.completion = o.completion /\ SameBook(p, o)
       /\ p.blocked = o.blocked /\ p.pending = pending /\ p.flushed = flushed
  BY <1>7, <1>9 DEF Backends, SameControl, SameDevice, SameBook
<1> QED  BY <1>8, <1>10, <1>11
         DEF SameControl, SameDevice, SameBook, SameBatch, contexts, more, next, pending, flushed

\* A request that becomes an error completion at once (try_complete_locally).
LEMMA LocalEffect ==
  ASSUME NEW b \in Backends, b.next \in TaskIds, NEW p,
         p = [Occupied(b, "local_error", "backend_error") EXCEPT !.local = Append(@, b.next)]
  PROVE  /\ p \in Backends /\ p.status = "ok"
         /\ SameControl(p, b) /\ SameDevice(p, b) /\ SameBatch(p, b)
         /\ p.completion = b.completion
         /\ p.contexts = [b.contexts EXCEPT ![SlotOf(b.next)] =
                            [state |-> "local_error", task |-> b.next, result |-> "backend_error"]]
         /\ p.outstanding = b.outstanding + 1 /\ p.next = b.next + 1
         /\ p.local = Append(b.local, b.next)
<1> DEFINE entry == [state |-> "local_error", task |-> b.next, result |-> "backend_error"]
           contexts == [b.contexts EXCEPT ![SlotOf(b.next)] = entry]
           more == b.outstanding + 1
           next == b.next + 1
           o == [b EXCEPT !.contexts = contexts, !.outstanding = more, !.next = next, !.status = "ok"]
           local == Append(b.local, b.next)
<1>1. b.contexts \in ContextArrays /\ b.local \in Seq(TaskIds) /\ b.outstanding \in Nat
  BY DEF Backends, TaskSeqs, Counts
<1>2. entry \in ContextSlots
  BY DEF ContextSlots, ContextStates, TaskNumbers, TaskIds, Results
<1>3. contexts \in ContextArrays  BY <1>1, <1>2 DEF ContextArrays
<1>4. more \in Counts /\ next \in Counts /\ local \in TaskSeqs
  BY <1>1 DEF Counts, TaskSeqs, TaskIds
<1>5. Occupied(b, "local_error", "backend_error") = o  BY DEF Occupied
<1> HIDE DEF contexts, more, next
<1>6. "ok" \in Statuses  BY DEF Statuses
<1>7. o \in Backends  BY <1>3, <1>4, <1>6 DEF Backends
<1>8. /\ o.status = "ok" /\ SameControl(o, b) /\ SameDevice(o, b)
      /\ o.local = b.local /\ o.completion = b.completion /\ SameBatch(o, b)
      /\ o.contexts = contexts /\ o.outstanding = more /\ o.next = next
  BY DEF Backends, SameControl, SameDevice, SameBatch
<1> HIDE DEF o
<1>9. p = [o EXCEPT !.local = local]
  BY <1>1, <1>5, <1>7, <1>8 DEF Backends
<1> HIDE DEF local
<1>10. p \in Backends  BY <1>4, <1>7, <1>9 DEF Backends
<1>11. /\ p.status = o.status /\ SameControl(p, o) /\ SameDevice(p, o) /\ SameBatch(p, o)
       /\ p.completion = o.completion /\ SameBook(p, o) /\ p.local = local
  BY <1>7, <1>9 DEF Backends, SameControl, SameDevice, SameBook, SameBatch
<1> QED  BY <1>8, <1>10, <1>11
         DEF SameControl, SameDevice, SameBook, SameBatch, contexts, more, next, local

\* fail_pending: the pending tasks follow the earlier local errors.
LEMMA FailPendingEffect ==
  ASSUME NEW b \in Backends, NEW p, p = FailPending(b)
  PROVE  /\ p \in Backends /\ SameControl(p, b) /\ SameDevice(p, b)
         /\ p.outstanding = b.outstanding /\ p.next = b.next /\ p.completion = b.completion
         /\ p.status = b.status
         /\ p.contexts = Marked(b.contexts, b.pending, "local_error", "backend_error")
         /\ p.local = b.local \o b.pending /\ p.pending = <<>>
<1> DEFINE contexts == Marked(b.contexts, b.pending, "local_error", "backend_error")
           local == b.local \o b.pending
           m == [b EXCEPT !.contexts = contexts, !.local = local, !.pending = <<>>]
<1>1. b.contexts \in ContextArrays /\ b.pending \in Seq(TaskIds) /\ b.local \in Seq(TaskIds)
  BY DEF Backends, TaskSeqs
<1>2. "local_error" \in ContextStates /\ "backend_error" \in Results
  BY DEF ContextStates, Results
<1>3. contexts \in ContextArrays  BY <1>1, <1>2, MarkedContexts DEF MarkedAs
<1>4. local \in TaskSeqs /\ <<>> \in TaskSeqs  BY <1>1 DEF TaskSeqs
<1>5. "none" \in Failures  BY DEF Failures
<1>6. p = [m EXCEPT !.blocked = FALSE, !.flushed = FALSE, !.failure = "none"]
  BY DEF FailPending
<1> HIDE DEF contexts, local
<1>7. m \in Backends  BY <1>3, <1>4 DEF Backends
<1>8. /\ SameControl(m, b) /\ SameDevice(m, b) /\ m.outstanding = b.outstanding
      /\ m.next = b.next /\ m.completion = b.completion /\ m.status = b.status
      /\ m.contexts = contexts /\ m.local = local /\ m.pending = <<>>
  BY DEF Backends, SameControl, SameDevice
<1> HIDE DEF m
<1>9. p \in Backends  BY <1>5, <1>6, <1>7 DEF Backends
<1>10. /\ SameControl(p, m) /\ SameDevice(p, m) /\ SameBook(p, m)
       /\ p.completion = m.completion /\ p.status = m.status /\ p.local = m.local
       /\ p.pending = m.pending
  BY <1>6, <1>7 DEF Backends, SameControl, SameDevice, SameBook
<1> QED  BY <1>8, <1>9, <1>10 DEF SameControl, SameDevice, SameBook, contexts, local

\* fail_all and the change of state that handle_host_error makes with it.
FailedAll(b) == [FailAll(b) EXCEPT !.state = "draining"]

\* What fail_all does after fail_pending.
FailedAllFrom(p, f) ==
  /\ p \in Backends /\ SameDevice(p, f) /\ p.stop_requested = f.stop_requested
  /\ p.state = "draining"
  /\ p.outstanding = f.outstanding /\ p.next = f.next /\ p.completion = f.completion
  /\ p.status = f.status /\ p.pending = f.pending
  /\ p.contexts = FailSubmitted(f.contexts)
  /\ p.local = f.local \o SubmittedTasks(f.contexts)

\* fail_all: the submitted tasks follow the pending ones as local errors.
LEMMA FailAllEffect ==
  ASSUME NEW b, FailPending(b) \in Backends,
         SubmittedTasks(FailPending(b).contexts) \in TaskSeqs
  PROVE  FailedAllFrom(FailedAll(b), FailPending(b))
<1> DEFINE f == FailPending(b)
           p == FailedAll(b)
           tasks == SubmittedTasks(f.contexts)
<1>0. f \in Backends /\ tasks \in TaskSeqs  OBVIOUS
<1> HIDE DEF f
<1> DEFINE contexts == FailSubmitted(f.contexts)
           local == f.local \o tasks
<1>1. f.contexts \in ContextArrays /\ f.local \in TaskSeqs  BY <1>0 DEF Backends
<1>2. contexts \in ContextArrays  BY <1>1, SubmittedFails DEF Fails
<1>3. local \in TaskSeqs  BY <1>0, <1>1, ConcatJoins DEF Joined
<1>4. "draining" \in States  BY DEF States
<1>5. p = [f EXCEPT !.contexts = contexts, !.local = local, !.state = "draining"]
  BY DEF FailAll, FailedAll, f
<1> HIDE DEF contexts, local, p
<1>6. p \in Backends  BY <1>0, <1>2, <1>3, <1>4, <1>5 DEF Backends
<1>7. /\ SameDevice(p, f) /\ p.stop_requested = f.stop_requested
      /\ p.state = "draining" /\ p.outstanding = f.outstanding /\ p.next = f.next
      /\ p.completion = f.completion /\ p.status = f.status /\ p.pending = f.pending
      /\ p.contexts = contexts /\ p.local = local
  BY <1>0, <1>5 DEF Backends, SameDevice
<1>8. FailedAllFrom(p, f)  BY <1>6, <1>7 DEF contexts, local, FailedAllFrom
<1> QED  BY <1>8 DEF p, f

\* A completion of the device is polled.
LEMMA PolledEffect ==
  ASSUME NEW b \in Backends, b.done # 0, b.queue # <<>>,
         NEW p, p = [b EXCEPT !.queue = Tail(@), !.done = @ - 1]
  PROVE  /\ p \in Backends /\ SameControl(p, b) /\ SameBook(p, b) /\ SameBatch(p, b)
         /\ p.local = b.local /\ p.completion = b.completion /\ p.status = b.status
         /\ p.visible = b.visible /\ p.queue = Tail(b.queue) /\ p.done = b.done - 1
<1> DEFINE queue == Tail(b.queue)
           done == b.done - 1
<1>1. b.queue \in Seq(TaskIds) /\ b.done \in Nat  BY DEF Backends, TaskSeqs, Counts
<1>2. queue \in TaskSeqs /\ done \in Counts  BY <1>1 DEF TaskSeqs, Counts
<1>3. p = [b EXCEPT !.queue = queue, !.done = done]  BY DEF Backends
<1> HIDE DEF queue, done
<1>4. p \in Backends  BY <1>2, <1>3, ZenonT(30) DEF Backends
<1>5. /\ SameControl(p, b) /\ SameBook(p, b) /\ SameBatch(p, b)
      /\ p.local = b.local /\ p.completion = b.completion /\ p.status = b.status
      /\ p.visible = b.visible /\ p.queue = queue /\ p.done = done
  BY <1>3 DEF Backends, SameControl, SameBook, SameBatch
<1> QED  BY <1>4, <1>5 DEF queue, done

\* The context of a polled completion is released.
LEMMA CompletedEffect ==
  ASSUME NEW b \in Backends, NEW task \in TaskIds, b.outstanding - 1 \in Nat,
         NEW p, p = Completed(b, task)
  PROVE  /\ p \in Backends /\ SameControl(p, b) /\ SameDevice(p, b) /\ SameBatch(p, b)
         /\ p.next = b.next /\ p.status = b.status /\ p.local = b.local
         /\ p.contexts = [b.contexts EXCEPT ![SlotOf(task)] = Free]
         /\ p.outstanding = b.outstanding - 1
         /\ p.completion = [task |-> task, result |-> b.contexts[SlotOf(task)].result]
<1> DEFINE contexts == [b.contexts EXCEPT ![SlotOf(task)] = Free]
           fewer == b.outstanding - 1
           completion == [task |-> task, result |-> b.contexts[SlotOf(task)].result]
<1>1. b.contexts \in ContextArrays  BY DEF Backends
<1>2. Free \in ContextSlots  BY Sizes DEF Free, ContextSlots, ContextStates, TaskNumbers, Results
<1>3. contexts \in ContextArrays  BY <1>1, <1>2 DEF ContextArrays
<1>4. fewer \in Counts  BY DEF Counts
<1>5. completion \in Completions
  <2>1. SlotOf(task) \in Slots  BY SlotInRange DEF TaskIds
  <2>2. b.contexts[SlotOf(task)].result \in Results  BY <2>1, <1>1 DEF ContextArrays, ContextSlots
  <2> QED  BY <2>2 DEF Completions, Reports
<1>6. p = [b EXCEPT !.contexts = contexts, !.outstanding = fewer, !.completion = completion]
  BY DEF Completed
<1> HIDE DEF contexts, fewer, completion
<1>7. p \in Backends  BY <1>3, <1>4, <1>5, <1>6, ZenonT(30) DEF Backends
<1>8. /\ SameControl(p, b) /\ SameDevice(p, b) /\ SameBatch(p, b) /\ p.local = b.local
      /\ p.next = b.next /\ p.status = b.status /\ p.contexts = contexts
      /\ p.outstanding = fewer /\ p.completion = completion
  BY <1>6 DEF Backends, SameControl, SameDevice, SameBatch
<1> QED  BY <1>7, <1>8 DEF contexts, fewer, completion

\* A local error is reported (the first branch of try_pop_completion).
LocalPopped(b, task) == [Completed(b, task) EXCEPT !.local = Tail(@)]

\* What reporting the oldest local error changes.
LocalPoppedFrom(p, b, task) ==
  /\ p \in Backends /\ SameControl(p, b) /\ SameDevice(p, b) /\ SameBatch(p, b)
  /\ p.next = b.next /\ p.status = b.status
  /\ p.contexts = [b.contexts EXCEPT ![SlotOf(task)] = Free]
  /\ p.outstanding = b.outstanding - 1 /\ p.local = Tail(b.local)
  /\ p.completion = [task |-> task, result |-> b.contexts[SlotOf(task)].result]

\* The first branch of try_pop_completion has that effect.
LEMMA PopLocalEffect ==
  ASSUME NEW b \in Backends, NEW task \in TaskIds, b.outstanding - 1 \in Nat,
         b.local # <<>>
  PROVE  LocalPoppedFrom(LocalPopped(b, task), b, task)
<1> DEFINE p == LocalPopped(b, task)
           m == Completed(b, task)
           local == Tail(b.local)
           contexts == [b.contexts EXCEPT ![SlotOf(task)] = Free]
           completion == [task |-> task, result |-> b.contexts[SlotOf(task)].result]
<1>1. local \in TaskSeqs  BY DEF Backends, TaskSeqs
<1> HIDE DEF m
<1>2. /\ m \in Backends /\ SameControl(m, b) /\ SameDevice(m, b) /\ SameBatch(m, b)
      /\ m.next = b.next /\ m.status = b.status /\ m.local = b.local
      /\ m.contexts = contexts /\ m.outstanding = b.outstanding - 1
      /\ m.completion = completion
  BY CompletedEffect DEF m
<1>3. p = [m EXCEPT !.local = local]  BY <1>2 DEF m, Backends, LocalPopped
<1> HIDE DEF p, local, contexts, completion
<1>4. p \in Backends  BY <1>1, <1>2, <1>3 DEF Backends
<1>5. /\ SameControl(p, m) /\ SameDevice(p, m) /\ SameBatch(p, m) /\ SameBook(p, m)
      /\ p.status = m.status /\ p.completion = m.completion /\ p.local = local
  BY <1>2, <1>3 DEF Backends, SameControl, SameDevice, SameBatch, SameBook
<1>6. LocalPoppedFrom(p, b, task)
  BY <1>2, <1>4, <1>5 DEF SameControl, SameDevice, SameBatch, SameBook, contexts, completion,
                         local, LocalPoppedFrom
<1> QED  BY <1>6 DEF p

-----------------------------------------------------------------------------
(* What the member functions keep.                                          *)

\* The books of the backend are in order, with respect to what was copied.
Books(b, c) == b \in Backends /\ Ledger(b) /\ Delivery(b, c)

\* A call that reports nothing: no task is forgotten, and a kernel that was told to
\* stop is given nothing.
Keeps(p, b) ==
  /\ p.next = b.next /\ p.completion = b.completion
  /\ \A s \in Slots : p.contexts[s].task = b.contexts[s].task
  /\ p.state = b.state \/ p.state = "draining"
  /\ b.stop_requested => p.stop_requested /\ Len(p.queue) <= Len(b.queue)

\* A flushed batch is visible.
BatchVisible(b) == b.flushed => \A i \in 1..Len(b.pending) : b.pending[i] \in b.visible

\* The members that the proofs below look at.
LEMMA MemberTypes ==
  ASSUME NEW b \in Backends
  PROVE  /\ b.contexts \in ContextArrays /\ b.next \in Nat /\ b.outstanding \in Nat
         /\ b.pending \in TaskSeqs /\ b.local \in TaskSeqs /\ b.queue \in TaskSeqs
         /\ b.done \in Nat /\ b.visible \subseteq TaskIds
         /\ b.stop_requested \in BOOLEAN /\ b.blocked \in BOOLEAN /\ b.flushed \in BOOLEAN
         /\ b.state \in States /\ b.completion \in Completions
BY DEF Backends, Counts, TaskSets

\* publish_pending keeps the books: what it submits leaves the batch, is flushed, and
\* joins the queue behind what the kernel already has.
LEMMA PublishSound ==
  ASSUME NEW b, NEW c, Books(b, c), b.pending # <<>>, BatchVisible(b),
         NEW env \in Environment, NEW p, p = PublishPending(b, env)
  PROVE  /\ Books(p, c) /\ Keeps(p, b) /\ SameControl(p, b)
         /\ p.status \in {"ok", "EIO"}
         /\ p.status = "ok" => Settled(p)
<1> USE DEF Books
<1>1. /\ p \in Backends /\ SameControl(p, b)
      /\ p.outstanding = b.outstanding /\ p.next = b.next /\ p.local = b.local
      /\ p.done = b.done /\ p.completion = b.completion
      /\ b.visible \subseteq p.visible
      /\ \/ p.status = "EIO" /\ p.pending = b.pending /\ p.contexts = b.contexts /\ p.queue = b.queue
         \/ /\ p.status = "ok" /\ ~b.stop_requested
            /\ b.flushed \/ Elements(b.pending) \subseteq p.visible
            /\ \/ /\ p.pending = b.pending /\ p.contexts = b.contexts /\ p.queue = b.queue
                  /\ p.flushed /\ p.blocked
               \/ \E count \in 1..Len(b.pending) : Sent(p, b, count)
  BY PublishEffect
<1>2. /\ b.contexts \in ContextArrays /\ b.next \in Nat /\ b.outstanding \in Nat
      /\ b.pending \in TaskSeqs /\ b.local \in TaskSeqs /\ b.queue \in TaskSeqs
      /\ b.done \in Nat
  BY MemberTypes
<1>3. ~b.stop_requested  BY DEF Ledger
<1>4. CASE p.pending = b.pending /\ p.contexts = b.contexts /\ p.queue = b.queue
  <2>1. Ledger(p)  BY <1>1, <1>4 DEF Ledger, SameControl
  <2>2. Delivery(p, c)  BY <1>1, <1>4 DEF Delivery
  <2>3. Keeps(p, b)  BY <1>1, <1>3, <1>4 DEF Keeps, SameControl
  <2>4. ASSUME p.status = "ok"  PROVE  Settled(p)
    <3>1. CASE p.flushed /\ p.blocked /\ (b.flushed \/ Elements(b.pending) \subseteq p.visible)
      <4>1. \A i \in 1..Len(b.pending) : b.pending[i] \in p.visible
        <5>1. CASE b.flushed  BY <5>1, <1>1 DEF BatchVisible
        <5>2. CASE Elements(b.pending) \subseteq p.visible
          BY <5>2, <1>2 DEF Elements, TaskSeqs
        <5> QED  BY <5>1, <5>2, <3>1
      <4> QED  BY <4>1, <3>1, <1>4 DEF Settled
    <3>2. ASSUME NEW count \in 1..Len(b.pending), Sent(p, b, count)  PROVE  FALSE
      <4>1. /\ Len(p.pending) = Len(b.pending) - count /\ Len(b.pending) \in Nat
        BY <3>2, <1>2, SubSeqSplit, TaskSeqFacts DEF Sent, Split
      <4> QED  BY <4>1, <1>4
    <3> QED  BY <3>1, <3>2, <2>4, <1>1
  <2> QED  BY <2>1, <2>2, <2>3, <2>4, <1>1
<1>5. ASSUME NEW count \in 1..Len(b.pending), Sent(p, b, count), p.status = "ok",
             b.flushed \/ Elements(b.pending) \subseteq p.visible
      PROVE  Books(p, c) /\ Keeps(p, b) /\ Settled(p)
  <2> DEFINE sent == SubSeq(b.pending, 1, count)
             rest == SubSeq(b.pending, count + 1, Len(b.pending))
             q == b.queue \o sent
             m == Marked(b.contexts, sent, "submitted", "success")
  <2>1. Split(b.pending, count, sent, rest)  BY <1>2, SubSeqSplit
  <2>2. Joined(q, b.queue, sent)  BY <2>1, <1>2, ConcatJoins DEF Split
  <2>3. /\ p.contexts = m /\ p.queue = q /\ p.pending = rest
        /\ p.blocked = (p.pending # <<>>) /\ p.flushed = (p.pending # <<>>)
    BY <1>5 DEF Sent
  <2> HIDE DEF sent, rest, q, m
  <2>4. /\ m \in ContextArrays /\ Issued(m, b.next) /\ ErrorsReported(m)
        /\ Lists(m, rest, "pending") /\ Lists(m, b.local, "local_error")
        /\ Covers(m, q, "submitted") /\ AllOwn(m, q, "submitted")
        /\ Distinct(q) /\ Apart(q, rest) /\ Below(q, b.next)
        /\ FreeSlots(m) = FreeSlots(b.contexts)
        /\ \A s \in Slots : m[s].task = b.contexts[s].task
    <3>1. /\ Issued(b.contexts, b.next) /\ ErrorsReported(b.contexts)
          /\ Lists(b.contexts, b.pending, "pending") /\ Lists(b.contexts, b.local, "local_error")
          /\ Covers(b.contexts, b.queue, "submitted") /\ AllOwn(b.contexts, b.queue, "submitted")
          /\ Distinct(b.queue) /\ Apart(b.queue, b.pending) /\ Below(b.queue, b.next)
      BY DEF Ledger
    <3>2. m = Marked(b.contexts, sent, "submitted", "success")  BY DEF m
    <3> HIDE DEF Books
    <3> QED  BY <3>1, <3>2, <2>1, <2>2, <1>2, SentContexts, SMTT(30)
  <2>5. /\ q \in TaskSeqs /\ rest \in TaskSeqs /\ Len(rest) = Len(b.pending) - count
        /\ Len(b.pending) \in Nat /\ Len(sent) = count
        /\ \A i \in 1..Len(rest) : \E j \in 1..Len(b.pending) : rest[i] = b.pending[j]
        /\ \A i \in 1..Len(sent) : \E j \in 1..Len(b.pending) : sent[i] = b.pending[j]
    <3>1. q \in TaskSeqs /\ Len(b.pending) \in Nat  BY <2>2, <1>2, TaskSeqFacts DEF Joined
    <3>2. /\ rest \in TaskSeqs /\ Len(rest) = Len(b.pending) - count /\ Len(sent) = count
          /\ \A i \in 1..Len(rest) : count + i \in 1..Len(b.pending) /\ rest[i] = b.pending[count + i]
          /\ \A i \in 1..Len(sent) : sent[i] = b.pending[i]
      BY <2>1 DEF Split
    <3>3. \A i \in 1..Len(sent) : i \in 1..Len(b.pending)  BY <3>1, <3>2
    <3> QED  BY <3>1, <3>2, <3>3
  <2>6. /\ Len(q) = Len(b.queue) + count /\ Len(b.queue) \in Nat
        /\ \A i \in 1..Len(b.queue) : q[i] = b.queue[i]
        /\ \A i \in 1..Len(q) : i \notin 1..Len(b.queue) => \E j \in 1..Len(sent) : q[i] = sent[j]
    BY <2>2, <2>5, <1>2, TaskSeqFacts DEF Joined
  <2>7. \A i \in 1..Len(b.pending) : b.pending[i] \in p.visible
    <3>1. CASE b.flushed  BY <3>1, <1>1 DEF BatchVisible
    <3>2. CASE Elements(b.pending) \subseteq p.visible
      BY <3>2, <1>2 DEF Elements, TaskSeqs
    <3> QED  BY <3>1, <3>2, <1>5
  <2>8. Len(q) <= Capacity  BY <2>4, <2>5, OwnersFit
  <2>9. Ledger(p)
    <3>1. /\ b.next \in 1..(MaxTasks + 1) /\ Len(b.pending) <= HostBatch
          /\ b.outstanding + Cardinality(FreeSlots(b.contexts)) = Capacity
      BY DEF Ledger
    <3>2. Len(rest) <= HostBatch  BY <3>1, <2>5, Sizes
    <3>3. ~p.stop_requested  BY <1>1, <1>3 DEF SameControl
    <3> QED  BY <3>1, <3>2, <3>3, <2>3, <2>4, <2>8, <1>1 DEF Ledger
  <2>10. Delivery(p, c)
    <3>1. /\ b.done <= Len(b.queue) /\ c \subseteq p.visible
          /\ \A i \in 1..b.done : b.queue[i] \in c
          /\ \A i \in 1..Len(b.queue) : b.queue[i] \in p.visible
      BY <1>1 DEF Delivery
    <3>2. b.done <= Len(q)  BY <3>1, <2>6, <1>2
    <3>3. \A i \in 1..b.done : q[i] \in c  BY <3>1, <2>6, <1>2
    <3>4. \A i \in 1..Len(q) : q[i] \in p.visible
      <4> SUFFICES ASSUME NEW i \in 1..Len(q)  PROVE  q[i] \in p.visible
        OBVIOUS
      <4>1. CASE i \in 1..Len(b.queue)  BY <4>1, <3>1, <2>6
      <4>2. CASE i \notin 1..Len(b.queue)
        <5>1. PICK j \in 1..Len(sent) : q[i] = sent[j]  BY <4>2, <2>6
        <5> QED  BY <5>1, <2>5, <2>7
      <4> QED  BY <4>1, <4>2
    <3> QED  BY <3>1, <3>2, <3>3, <3>4, <2>3, <1>1 DEF Delivery
  <2>11. Keeps(p, b)  BY <2>3, <2>4, <1>1, <1>3 DEF Keeps, SameControl
  <2>12. Settled(p)
    <3>1. \A i \in 1..Len(rest) : rest[i] \in p.visible  BY <2>5, <2>7
    <3> QED  BY <3>1, <2>3 DEF Settled
  <2> QED  BY <2>9, <2>10, <2>11, <2>12, <1>1
<1> QED  BY <1>1, <1>4, <1>5

\* A call that accepts the next task.
Accepts(p, b) ==
  /\ p.next = b.next + 1 /\ p.completion = b.completion
  /\ SlotOf(b.next) \in Slots
  /\ b.contexts[SlotOf(b.next)].task = 0 /\ p.contexts[SlotOf(b.next)].task = b.next
  /\ \A s \in Slots : s # SlotOf(b.next) => p.contexts[s].task = b.contexts[s].task
  /\ p.state = b.state \/ p.state = "draining"
  /\ b.stop_requested => p.stop_requested /\ Len(p.queue) <= Len(b.queue)

\* A call that keeps everything after another one that does.
LEMMA KeepsKeeps ==
  ASSUME NEW b, NEW p, NEW r, Keeps(p, b), Keeps(r, p),
         Len(b.queue) \in Nat, Len(p.queue) \in Nat, Len(r.queue) \in Nat
  PROVE  Keeps(r, b)
BY DEF Keeps

\* A call that accepts a task after one that keeps everything accepts it.
LEMMA KeepsAccepts ==
  ASSUME NEW b, NEW p, NEW r, Keeps(p, b), Accepts(r, p),
         Len(b.queue) \in Nat, Len(p.queue) \in Nat, Len(r.queue) \in Nat
  PROVE  Accepts(r, b)
BY DEF Keeps, Accepts

\* A call that keeps everything after one that accepts a task keeps that one too.
LEMMA AcceptsKeeps ==
  ASSUME NEW b, NEW p, NEW r, Accepts(p, b), Keeps(r, p),
         Len(b.queue) \in Nat, Len(p.queue) \in Nat, Len(r.queue) \in Nat
  PROVE  Accepts(r, b)
BY DEF Keeps, Accepts

\* try_submit of a valid request, up to the publication of a full batch.
LEMMA EnqueueSound ==
  ASSUME NEW b, NEW c, Books(b, c), Settled(b), b.state = "accepting", b.next \in TaskIds,
         b.contexts[SlotOf(b.next)] = Free, ~(b.blocked /\ b.pending # <<>>),
         NEW p, p = Queued(b)
  PROVE  /\ Books(p, c) /\ Accepts(p, b) /\ SameControl(p, b) /\ p.status = "ok"
         /\ p.pending # <<>> /\ BatchVisible(p)
         /\ Len(p.pending) # HostBatch => Settled(p)
<1> DEFINE m == Entered(b.contexts, b.next, "pending", "success")
           a == Append(b.pending, b.next)
<1>0. b \in Backends /\ Ledger(b) /\ Delivery(b, c)  BY DEF Books
<1>1. /\ p \in Backends /\ p.status = "ok"
      /\ SameControl(p, b) /\ SameDevice(p, b)
      /\ p.local = b.local /\ p.completion = b.completion /\ p.blocked = b.blocked
      /\ p.contexts = m /\ p.outstanding = b.outstanding + 1 /\ p.next = b.next + 1
      /\ p.pending = a /\ p.flushed = (b.pending # <<>> /\ b.flushed)
  BY <1>0, EnqueueEffect DEF Entered
<1>2. /\ b.contexts \in ContextArrays /\ b.next \in Nat /\ b.outstanding \in Nat
      /\ b.pending \in TaskSeqs /\ b.local \in TaskSeqs /\ b.queue \in TaskSeqs
      /\ b.flushed \in BOOLEAN /\ b.blocked \in BOOLEAN
  BY <1>0, MemberTypes
<1>3. Takes(m, b.contexts, b.next, "pending") /\ m[SlotOf(b.next)].result = "success"
  <2>1. "pending" \in ContextStates /\ "success" \in Results
    BY DEF ContextStates, Results
  <2> QED  BY <2>1, <1>2, EntryTakes
<1>4. /\ a \in TaskSeqs /\ Len(a) = Len(b.pending) + 1 /\ Len(b.pending) \in Nat
      /\ \A i \in 1..Len(b.pending) : a[i] = b.pending[i]
      /\ a[Len(b.pending) + 1] = b.next
  BY <1>2, AppendJoins, TaskSeqFacts
<1> HIDE DEF m, a
<1>5. /\ b.next \in 1..(MaxTasks + 1)
      /\ Issued(b.contexts, b.next) /\ ErrorsReported(b.contexts)
      /\ Lists(b.contexts, b.pending, "pending") /\ Lists(b.contexts, b.local, "local_error")
      /\ Covers(b.contexts, b.queue, "submitted") /\ AllOwn(b.contexts, b.queue, "submitted")
      /\ Distinct(b.queue) /\ Apart(b.queue, b.pending) /\ Below(b.queue, b.next)
      /\ Len(b.queue) <= Capacity
      /\ b.outstanding + Cardinality(FreeSlots(b.contexts)) = Capacity
      /\ ~b.stop_requested
  BY <1>0 DEF Ledger
<1>6. /\ Issued(m, b.next + 1) /\ ErrorsReported(m)
      /\ Lists(m, a, "pending") /\ Lists(m, b.local, "local_error")
      /\ Covers(m, b.queue, "submitted") /\ AllOwn(m, b.queue, "submitted")
  <2>1. Issued(m, b.next + 1)  BY <1>2, <1>3, <1>5, TakeIssues
  <2>2. ErrorsReported(m)  BY <1>3, <1>5 DEF ErrorsReported, Takes
  <2>3. Lists(m, a, "pending")  BY <1>2, <1>3, <1>5, TakeLists DEF a
  <2>0. "local_error" # "free" /\ "local_error" # "pending" /\ "submitted" # "free" /\ "submitted" # "pending"
    OBVIOUS
  <2>4. Lists(m, b.local, "local_error")  BY <2>0, <1>2, <1>3, <1>5, TakeKeeps, Zenon
  <2>5. Covers(m, b.queue, "submitted")  BY <2>0, <1>2, <1>3, <1>5, TakeKeeps, Zenon
  <2>6. AllOwn(m, b.queue, "submitted")  BY <1>2, <1>3, <1>5, TakeKeeps
  <2> QED  BY <2>1, <2>2, <2>3, <2>4, <2>5, <2>6
<1>7. /\ b.outstanding + 1 + Cardinality(FreeSlots(m)) = Capacity
  <2>1. /\ Cardinality(FreeSlots(m)) = Cardinality(FreeSlots(b.contexts)) - 1
        /\ Cardinality(FreeSlots(b.contexts)) \in 1..Capacity
    BY <1>2, <1>3, TakeCounts
  <2> QED  BY <2>1, <1>2, <1>5, Sizes
<1>8. Len(a) <= HostBatch
  <2>1. CASE b.pending = <<>>
    <3>1. Len(b.pending) = 0  BY <2>1
    <3> QED  BY <3>1, <1>4, Sizes
  <2>2. CASE b.pending # <<>>
    <3>1. Len(b.pending) < HostBatch  BY <2>2 DEF Settled
    <3> QED  BY <3>1, <1>4, Sizes
  <2> QED  BY <2>1, <2>2
<1>9. Apart(b.queue, a) /\ Below(b.queue, b.next + 1)
  <2>1. \A i \in 1..Len(b.queue) : b.queue[i] < b.next /\ b.queue[i] \in Nat
    BY <1>2, <1>5, TaskSeqFacts DEF Below, TaskIds
  <2>2. \A i \in 1..Len(b.queue) : b.queue[i] < b.next + 1 /\ b.queue[i] # b.next
    BY <2>1, <1>2
  <2>3. \A j \in 1..Len(a) : j \in 1..Len(b.pending) \/ j = Len(b.pending) + 1
    BY <1>4
  <2>4. \A i \in 1..Len(b.queue), j \in 1..Len(a) : b.queue[i] # a[j]
    BY <2>2, <2>3, <1>4, <1>5 DEF Apart
  <2> QED  BY <2>2, <2>4 DEF Apart, Below
<1>10. b.next + 1 \in 1..(MaxTasks + 1)  BY Sizes DEF TaskIds
<1>11. Ledger(p)
  BY <1>1, <1>5, <1>6, <1>7, <1>8, <1>9, <1>10 DEF Ledger, SameControl, SameDevice
<1>12. Delivery(p, c)  BY <1>0, <1>1 DEF Delivery, SameDevice
<1>13. Accepts(p, b)
  <2>1. /\ p.next = b.next + 1 /\ p.completion = b.completion /\ p.contexts = m
        /\ p.state = b.state
    BY <1>1 DEF SameControl
  <2>2. /\ SlotOf(b.next) \in Slots /\ b.contexts[SlotOf(b.next)].task = 0
        /\ m[SlotOf(b.next)].task = b.next
        /\ \A s \in Slots : s # SlotOf(b.next) => m[s].task = b.contexts[s].task
    BY <1>3 DEF Takes, Free
  <2>3. ~b.stop_requested  BY <1>5
  <2> QED  BY <2>1, <2>2, <2>3 DEF Accepts
<1>14. p.pending # <<>>
  <2>1. Len(a) # 0  BY <1>4
  <2> QED  BY <2>1, <1>1
<1>15. p.flushed = FALSE
  <2>1. CASE b.pending = <<>>  BY <2>1, <1>1
  <2>2. CASE b.pending # <<>>
    <3>1. b.blocked = FALSE  BY <2>2, <1>2
    <3>2. b.flushed = FALSE  BY <2>2, <3>1, <1>2 DEF Settled
    <3> QED  BY <3>2, <1>1
  <2> QED  BY <2>1, <2>2
<1>16. BatchVisible(p)  BY <1>15 DEF BatchVisible
<1>17. Len(p.pending) # HostBatch => Settled(p)
  <2>1. Len(p.pending) # HostBatch => Len(p.pending) < HostBatch  BY <1>1, <1>4, <1>8, Sizes
  <2> QED  BY <2>1, <1>15 DEF Settled
<1> QED  BY <1>1, <1>11, <1>12, <1>13, <1>14, <1>16, <1>17 DEF Books

\* try_complete_locally.
LEMMA LocalSound ==
  ASSUME NEW b, NEW c, Books(b, c), Settled(b), b.state = "accepting", b.next \in TaskIds,
         b.contexts[SlotOf(b.next)] = Free,
         NEW p, p = [Occupied(b, "local_error", "backend_error") EXCEPT !.local = Append(@, b.next)]
  PROVE  /\ Books(p, c) /\ Accepts(p, b) /\ SameControl(p, b) /\ p.status = "ok"
         /\ Settled(p)
<1> DEFINE m == Entered(b.contexts, b.next, "local_error", "backend_error")
           a == Append(b.local, b.next)
<1>0. b \in Backends /\ Ledger(b) /\ Delivery(b, c)  BY DEF Books
<1>1. /\ p \in Backends /\ p.status = "ok"
      /\ SameControl(p, b) /\ SameDevice(p, b) /\ SameBatch(p, b)
      /\ p.completion = b.completion /\ p.local = a
      /\ p.contexts = m /\ p.outstanding = b.outstanding + 1 /\ p.next = b.next + 1
  BY <1>0, LocalEffect DEF Entered
<1>2. /\ b.contexts \in ContextArrays /\ b.next \in Nat /\ b.outstanding \in Nat
      /\ b.pending \in TaskSeqs /\ b.local \in TaskSeqs /\ b.queue \in TaskSeqs
  BY <1>0, MemberTypes
<1>3. Takes(m, b.contexts, b.next, "local_error") /\ m[SlotOf(b.next)].result = "backend_error"
  <2>1. "local_error" \in ContextStates /\ "backend_error" \in Results
    BY DEF ContextStates, Results
  <2> QED  BY <2>1, <1>2, EntryTakes
<1> HIDE DEF m, a
<1>5. /\ b.next \in 1..(MaxTasks + 1) /\ Len(b.pending) <= HostBatch
      /\ Issued(b.contexts, b.next) /\ ErrorsReported(b.contexts)
      /\ Lists(b.contexts, b.pending, "pending") /\ Lists(b.contexts, b.local, "local_error")
      /\ Covers(b.contexts, b.queue, "submitted") /\ AllOwn(b.contexts, b.queue, "submitted")
      /\ Distinct(b.queue) /\ Apart(b.queue, b.pending) /\ Below(b.queue, b.next)
      /\ Len(b.queue) <= Capacity
      /\ b.outstanding + Cardinality(FreeSlots(b.contexts)) = Capacity
      /\ ~b.stop_requested
  BY <1>0 DEF Ledger
<1>6. /\ Issued(m, b.next + 1) /\ ErrorsReported(m)
      /\ Lists(m, b.pending, "pending") /\ Lists(m, a, "local_error")
      /\ Covers(m, b.queue, "submitted") /\ AllOwn(m, b.queue, "submitted")
  <2>1. Issued(m, b.next + 1)  BY <1>2, <1>3, <1>5, TakeIssues
  <2>2. ErrorsReported(m)  BY <1>3, <1>5 DEF ErrorsReported, Takes
  <2>3. Lists(m, a, "local_error")  BY <1>2, <1>3, <1>5, TakeLists DEF a
  <2>0. "pending" # "free" /\ "pending" # "local_error" /\ "submitted" # "free" /\ "submitted" # "local_error"
    OBVIOUS
  <2>4. Lists(m, b.pending, "pending")  BY <2>0, <1>2, <1>3, <1>5, TakeKeeps, Zenon
  <2>5. Covers(m, b.queue, "submitted")  BY <2>0, <1>2, <1>3, <1>5, TakeKeeps, Zenon
  <2>6. AllOwn(m, b.queue, "submitted")  BY <1>2, <1>3, <1>5, TakeKeeps
  <2> QED  BY <2>1, <2>2, <2>3, <2>4, <2>5, <2>6
<1>7. /\ b.outstanding + 1 + Cardinality(FreeSlots(m)) = Capacity
  <2>1. /\ Cardinality(FreeSlots(m)) = Cardinality(FreeSlots(b.contexts)) - 1
        /\ Cardinality(FreeSlots(b.contexts)) \in 1..Capacity
    BY <1>2, <1>3, TakeCounts
  <2> QED  BY <2>1, <1>2, <1>5, Sizes
<1>8. Below(b.queue, b.next + 1)
  <2>1. \A i \in 1..Len(b.queue) : b.queue[i] < b.next /\ b.queue[i] \in Nat
    BY <1>2, <1>5, TaskSeqFacts DEF Below, TaskIds
  <2> QED  BY <2>1, <1>2 DEF Below
<1>9. b.next + 1 \in 1..(MaxTasks + 1)  BY Sizes DEF TaskIds
<1>10. Ledger(p)
  BY <1>1, <1>5, <1>6, <1>7, <1>8, <1>9 DEF Ledger, SameControl, SameDevice, SameBatch
<1>11. Delivery(p, c)  BY <1>0, <1>1 DEF Delivery, SameDevice
<1>12. Accepts(p, b)
  BY <1>1, <1>3, <1>5 DEF Accepts, SameControl, Takes, Free
<1>13. Settled(p)  BY <1>1 DEF Settled, SameBatch, SameDevice
<1> QED  BY <1>1, <1>10, <1>11, <1>12, <1>13 DEF Books

-----------------------------------------------------------------------------
(* Errors.                                                                  *)

\* Only the status, or what kind of failure it was, has changed.
Unmoved(p, b) ==
  /\ SameControl(p, b) /\ SameBook(p, b) /\ SameBatch(p, b) /\ SameDevice(p, b)
  /\ p.local = b.local /\ p.completion = b.completion

\* An answer without an effect, and a failure that is only recorded.
Answer(b, status) == [b EXCEPT !.status = status]
Failure(b, failure, status) == [b EXCEPT !.failure = failure, !.status = status]

\* An early return of a member function moves nothing.
LEMMA AnswerUnmoved ==
  ASSUME NEW b \in Backends, NEW status \in Statuses
  PROVE  /\ Answer(b, status) \in Backends /\ Unmoved(Answer(b, status), b)
         /\ Answer(b, status).status = status
<1> DEFINE p == [b EXCEPT !.status = status]
<1>1. p \in Backends  BY DEF Backends
<1>2. Unmoved(p, b) /\ p.status = status
  BY DEF Backends, Unmoved, SameControl, SameBook, SameBatch, SameDevice
<1> QED  BY <1>1, <1>2 DEF Answer

\* A failure that is recorded for handle_host_error moves nothing yet.
LEMMA FailureUnmoved ==
  ASSUME NEW b \in Backends, NEW failure \in Failures, NEW status \in Statuses
  PROVE  /\ Failure(b, failure, status) \in Backends /\ Unmoved(Failure(b, failure, status), b)
         /\ Failure(b, failure, status).status = status
<1> DEFINE p == [b EXCEPT !.failure = failure, !.status = status]
<1>1. p \in Backends  BY DEF Backends
<1>2. Unmoved(p, b) /\ p.status = status
  BY DEF Backends, Unmoved, SameControl, SameBook, SameBatch, SameDevice
<1> QED  BY <1>1, <1>2 DEF Failure

\* A call that moves nothing keeps the books.
LEMMA UnmovedSound ==
  ASSUME NEW b, NEW c, Books(b, c), NEW p \in Backends, Unmoved(p, b)
  PROVE  /\ Books(p, c) /\ Keeps(p, b)
         /\ Settled(b) => Settled(p)
<1> USE DEF Unmoved, SameControl, SameBook, SameBatch, SameDevice
<1>1. Ledger(p)  BY DEF Books, Ledger
<1>2. Delivery(p, c)  BY DEF Books, Delivery
<1>3. Len(b.queue) \in Nat  BY MemberTypes, TaskSeqFacts DEF Books
<1>4. Keeps(p, b)  BY <1>3 DEF Keeps
<1>5. Settled(b) => Settled(p)  BY DEF Settled
<1> QED  BY <1>1, <1>2, <1>4, <1>5 DEF Books

\* fail_pending keeps the books: the batch becomes local errors.
LEMMA FailPendingSound ==
  ASSUME NEW b, NEW c, Books(b, c), NEW p, p = FailPending(b)
  PROVE  /\ Books(p, c) /\ Keeps(p, b) /\ SameControl(p, b) /\ p.pending = <<>>
         /\ p.status = b.status
<1> DEFINE m == Marked(b.contexts, b.pending, "local_error", "backend_error")
           q == b.local \o b.pending
<1>0. b \in Backends /\ Ledger(b) /\ Delivery(b, c)  BY DEF Books
<1>1. /\ p \in Backends /\ SameControl(p, b) /\ SameDevice(p, b)
      /\ p.outstanding = b.outstanding /\ p.next = b.next /\ p.completion = b.completion
      /\ p.status = b.status /\ p.contexts = m /\ p.local = q /\ p.pending = <<>>
  BY <1>0, FailPendingEffect
<1>2. /\ b.contexts \in ContextArrays /\ b.next \in Nat /\ b.outstanding \in Nat
      /\ b.pending \in TaskSeqs /\ b.local \in TaskSeqs /\ b.queue \in TaskSeqs
  BY <1>0, MemberTypes
<1>3. /\ b.next \in 1..(MaxTasks + 1)
      /\ Issued(b.contexts, b.next) /\ ErrorsReported(b.contexts)
      /\ Lists(b.contexts, b.pending, "pending") /\ Lists(b.contexts, b.local, "local_error")
      /\ Covers(b.contexts, b.queue, "submitted")
      /\ Distinct(b.queue) /\ Below(b.queue, b.next) /\ Len(b.queue) <= Capacity
      /\ b.outstanding + Cardinality(FreeSlots(b.contexts)) = Capacity
      /\ b.state = "accepting" => AllOwn(b.contexts, b.queue, "submitted")
      /\ b.stop_requested => b.state = "draining"
  BY <1>0 DEF Ledger
<1>4. Fails(m, b.contexts, "pending")  BY <1>2, <1>3, PendingFails
<1>5. Joined(q, b.local, b.pending)  BY <1>2, ConcatJoins
<1> HIDE DEF m, q
<1>6. /\ Issued(m, b.next) /\ ErrorsReported(m) /\ FreeSlots(m) = FreeSlots(b.contexts)
      /\ Lists(m, q, "local_error") /\ \A s \in Slots : m[s].state # "pending"
  BY <1>2, <1>3, <1>4, <1>5, FailLists
<1>7. Lists(m, <<>>, "pending") /\ Len(<<>>) = 0
  <2>1. Len(<<>>) = 0 /\ 1..0 = {}  OBVIOUS
  <2>2. AllOwn(m, <<>>, "pending")  BY <2>1 DEF AllOwn
  <2>3. Distinct(<<>>)  BY <2>1 DEF Distinct
  <2>4. Covers(m, <<>>, "pending")  BY <1>6 DEF Covers
  <2> QED  BY <2>1, <2>2, <2>3, <2>4 DEF Lists
<1>8. Covers(m, b.queue, "submitted")  BY <1>2, <1>3, <1>4, FailKeeps, SMTT(30)
<1>9. b.state = "accepting" => AllOwn(m, b.queue, "submitted")
  BY <1>2, <1>3, <1>4, FailKeeps
<1>10. Apart(b.queue, <<>>)  BY DEF Apart
<1>11. Len(<<>>) <= HostBatch  BY <1>7, Sizes
<1>12. Ledger(p)
  BY <1>1, <1>3, <1>6, <1>7, <1>8, <1>9, <1>10, <1>11 DEF Ledger, SameControl, SameDevice
<1>13. Delivery(p, c)  BY <1>0, <1>1 DEF Delivery, SameDevice
<1>14. Keeps(p, b)
  <2>1. \A s \in Slots : m[s].task = b.contexts[s].task  BY <1>4 DEF Fails
  <2>2. Len(b.queue) \in Nat  BY <1>2, TaskSeqFacts
  <2> QED  BY <2>1, <2>2, <1>1 DEF Keeps, SameControl, SameDevice
<1> QED  BY <1>1, <1>12, <1>13, <1>14 DEF Books

\* fail_all keeps the books when the backend goes to draining with it: what the kernel
\* still has is then no longer owned.
LEMMA FailAllSound ==
  ASSUME NEW b, NEW c, Books(b, c), NEW p, p = FailedAll(b)
  PROVE  /\ Books(p, c) /\ Keeps(p, b) /\ p.state = "draining" /\ p.pending = <<>>
         /\ p.stop_requested = b.stop_requested
<1> DEFINE f == FailPending(b)
           m == FailSubmitted(f.contexts)
           tasks == SubmittedTasks(f.contexts)
           q == f.local \o tasks
<1> HIDE DEF f
<1>1. Books(f, c) /\ Keeps(f, b) /\ SameControl(f, b) /\ f.pending = <<>>
  BY FailPendingSound DEF f
<1>2. f \in Backends /\ Ledger(f) /\ Delivery(f, c)  BY <1>1 DEF Books
<1>3. /\ f.contexts \in ContextArrays /\ f.next \in Nat /\ f.outstanding \in Nat
      /\ f.pending \in TaskSeqs /\ f.local \in TaskSeqs /\ f.queue \in TaskSeqs
  BY <1>2, MemberTypes
<1>4. /\ f.next \in 1..(MaxTasks + 1)
      /\ Issued(f.contexts, f.next) /\ ErrorsReported(f.contexts)
      /\ Lists(f.contexts, f.pending, "pending") /\ Lists(f.contexts, f.local, "local_error")
      /\ Distinct(f.queue) /\ Below(f.queue, f.next) /\ Len(f.queue) <= Capacity
      /\ Apart(f.queue, f.pending) /\ Len(f.pending) <= HostBatch
      /\ f.outstanding + Cardinality(FreeSlots(f.contexts)) = Capacity
  BY <1>2 DEF Ledger
<1>5. tasks \in TaskSeqs /\ Lists(f.contexts, tasks, "submitted")
  BY <1>3, <1>4, SubmittedList
<1>6. /\ p \in Backends /\ SameDevice(p, f) /\ p.stop_requested = f.stop_requested
      /\ p.state = "draining"
      /\ p.outstanding = f.outstanding /\ p.next = f.next /\ p.completion = f.completion
      /\ p.pending = f.pending /\ p.contexts = m /\ p.local = q
  <2>1. FailPending(b) \in Backends /\ SubmittedTasks(FailPending(b).contexts) \in TaskSeqs
    BY <1>2, <1>5 DEF f
  <2>2. FailedAllFrom(p, f)  BY <2>1, FailAllEffect DEF f
  <2> QED  BY <2>2 DEF FailedAllFrom
<1>7. Fails(m, f.contexts, "submitted")  BY <1>3, SubmittedFails
<1>8. Joined(q, f.local, tasks)  BY <1>3, <1>5, ConcatJoins
<1> HIDE DEF m, q, tasks
<1>9. /\ Issued(m, f.next) /\ ErrorsReported(m) /\ FreeSlots(m) = FreeSlots(f.contexts)
      /\ Lists(m, q, "local_error") /\ \A s \in Slots : m[s].state # "submitted"
  BY <1>3, <1>4, <1>5, <1>7, <1>8, FailLists
<1>10. Lists(m, f.pending, "pending")
  <2>1. "pending" # "submitted" /\ "pending" # "local_error"  OBVIOUS
  <2> QED  BY <2>1, <1>3, <1>4, <1>7, FailKeeps
<1>11. Covers(m, f.queue, "submitted")  BY <1>9 DEF Covers
<1>12. Ledger(p)
  BY <1>1, <1>4, <1>6, <1>9, <1>10, <1>11 DEF Ledger, SameDevice
<1>13. Delivery(p, c)  BY <1>2, <1>6 DEF Delivery, SameDevice
<1>14. Keeps(p, f)
  <2>1. \A s \in Slots : m[s].task = f.contexts[s].task  BY <1>7 DEF Fails
  <2>2. Len(f.queue) \in Nat  BY <1>3, TaskSeqFacts
  <2> QED  BY <2>1, <2>2, <1>6 DEF Keeps, SameDevice
<1>15. Len(b.queue) \in Nat /\ Len(f.queue) \in Nat /\ Len(p.queue) \in Nat
  BY <1>3, <1>6, MemberTypes, TaskSeqFacts DEF Books
<1>16. Keeps(p, b)  BY <1>1, <1>14, <1>15, KeepsKeeps
<1> QED  BY <1>1, <1>6, <1>12, <1>13, <1>16 DEF Books, SameControl

\* progress_stop_request keeps the books: the kernel is told to stop only when a
\* draining backend has nothing pending.
LEMMA StopRequestSound ==
  ASSUME NEW b, NEW c, Books(b, c), NEW env, NEW p, p = ProgressStopRequest(b, env)
  PROVE  /\ Books(p, c) /\ Keeps(p, b)
         /\ Settled(b) => Settled(p)
         /\ SameBook(p, b) /\ SameBatch(p, b) /\ SameDevice(p, b) /\ p.state = b.state
         /\ p.status = b.status
<1>0. b \in Backends /\ Ledger(b) /\ Delivery(b, c)  BY DEF Books
<1>1. Len(b.queue) \in Nat  BY <1>0, MemberTypes, TaskSeqFacts
<1>2. CASE p = b
  BY <1>0, <1>1, <1>2 DEF Books, Keeps, SameBook, SameBatch, SameDevice
<1>3. CASE b.state = "draining" /\ b.pending = <<>> /\ p = [b EXCEPT !.stop_requested = TRUE]
  <2>1. p \in Backends  BY <1>0, <1>3 DEF Backends
  <2>2. /\ SameBook(p, b) /\ SameBatch(p, b) /\ SameDevice(p, b)
        /\ p.local = b.local /\ p.completion = b.completion /\ p.state = b.state
        /\ p.stop_requested = TRUE /\ p.status = b.status
    BY <1>0, <1>3 DEF Backends, SameBook, SameBatch, SameDevice
  <2>3. Ledger(p)  BY <1>0, <1>3, <2>2 DEF Ledger, SameBook, SameBatch, SameDevice
  <2>4. Delivery(p, c)  BY <1>0, <2>2 DEF Delivery, SameDevice
  <2>5. Keeps(p, b)  BY <1>1, <2>2 DEF Keeps, SameBook, SameDevice
  <2>6. Settled(b) => Settled(p)  BY <2>2 DEF Settled, SameBatch, SameDevice
  <2> QED  BY <2>1, <2>2, <2>3, <2>4, <2>5, <2>6 DEF Books
<1> QED  BY <1>2, <1>3 DEF ProgressStopRequest

\* handle_host_error leaves nothing pending.
LEMMA HandleSound ==
  ASSUME NEW b, NEW c, Books(b, c), NEW env, NEW p, p = HandleHostError(b, env)
  PROVE  Books(p, c) /\ Keeps(p, b) /\ p.pending = <<>>
<1>1. CASE b.failure = "visibility"
  BY <1>1, FailPendingSound DEF HandleHostError
<1>2. CASE b.failure # "visibility"
  <2> DEFINE f == FailedAll(b)
  <2>1. p = ProgressStopRequest(f, env)  BY <1>2 DEF HandleHostError, FailedAll
  <2>2. Books(f, c) /\ Keeps(f, b) /\ f.pending = <<>>  BY FailAllSound
  <2> HIDE DEF f
  <2>3. Books(p, c) /\ Keeps(p, f) /\ SameBatch(p, f)  BY <2>1, <2>2, StopRequestSound
  <2>4. Len(b.queue) \in Nat /\ Len(f.queue) \in Nat /\ Len(p.queue) \in Nat
    BY <2>2, <2>3, MemberTypes, TaskSeqFacts DEF Books
  <2>5. Keeps(p, b)  BY <2>2, <2>3, <2>4, KeepsKeeps
  <2> QED  BY <2>2, <2>3, <2>5 DEF SameBatch
<1> QED  BY <1>1, <1>2

\* The lengths of the queues that the calls are compared by.
LEMMA QueueLength ==
  ASSUME NEW b, NEW c, Books(b, c)
  PROVE  Len(b.queue) \in Nat
BY MemberTypes, TaskSeqFacts DEF Books

\* A host call keeps the books when its error has been handled.
LEMMA HandledSound ==
  ASSUME NEW h, NEW c, Books(h, c), h.status = "ok" => Settled(h),
         NEW env, NEW p, p = Handled(h, env)
  PROVE  Books(p, c) /\ Keeps(p, h) /\ Settled(p)
<1>1. CASE h.status = "ok"
  <2>1. p = h  BY <1>1 DEF Handled
  <2>2. Keeps(h, h)  BY QueueLength DEF Keeps
  <2> QED  BY <2>1, <2>2, <1>1
<1>2. CASE h.status # "ok"
  <2>1. p = HandleHostError(h, env)  BY <1>2 DEF Handled
  <2>2. Books(p, c) /\ Keeps(p, h) /\ p.pending = <<>>  BY <2>1, HandleSound
  <2> QED  BY <2>2 DEF Settled
<1> QED  BY <1>1, <1>2

=============================================================================
