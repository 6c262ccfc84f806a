-------------------------- MODULE CopyHostCallProofs --------------------------
(*****************************************************************************)
(* What the calls of the backend keep that are made of the member functions of *)
(* CopyHostProofs: submitting a task, handing over a completion (Delivers: one *)
(* task owns a context no longer, and its completion is the one handed over), and *)
(* stopping.                                                                 *)
(*****************************************************************************)
EXTENDS CopyHostProofs

-----------------------------------------------------------------------------
(* Submitting.                                                              *)

\* No call at all keeps everything.
LEMMA KeepsItself ==
  ASSUME NEW b, NEW c, Books(b, c)
  PROVE  Keeps(b, b)
BY QueueLength DEF Keeps

\* try_submit of the host accepts the next task or leaves everything as it is.
LEMMA HostTrySubmitSound ==
  ASSUME NEW b, NEW c, Books(b, c), Settled(b), b.state = "accepting", b.next \in TaskIds,
         NEW valid \in BOOLEAN, NEW env \in Environment, NEW h, h = HostTrySubmit(b, valid, env)
  PROVE  /\ Books(h, c) /\ (Keeps(h, b) \/ Accepts(h, b))
         /\ h.status \in {"ok", "EINVAL"} => Settled(h)
         /\ h.status = "EINVAL" => Keeps(h, b) /\ h.state = b.state
<1>0. b \in Backends  BY DEF Books
<1>1. ASSUME NEW status \in Statuses, h = Answer(b, status)
      PROVE  Books(h, c) /\ Keeps(h, b) /\ Settled(h) /\ h.state = b.state
  <2>1. h \in Backends /\ Unmoved(h, b)  BY <1>0, <1>1, AnswerUnmoved
  <2>2. Books(h, c) /\ Keeps(h, b) /\ Settled(h)  BY <2>1, UnmovedSound
  <2> QED  BY <2>1, <2>2 DEF Unmoved, SameControl
<1>2. CASE b.outstanding >= Capacity \/ (b.blocked /\ b.pending # <<>>)
  <2>1. h = Answer(b, "ok") /\ "ok" \in Statuses
    BY <1>2 DEF HostTrySubmit, Statuses, Answer
  <2> QED  BY <2>1, <1>1
<1>3. CASE ~(b.outstanding >= Capacity \/ (b.blocked /\ b.pending # <<>>))
           /\ b.contexts[SlotOf(b.next)] # Free
  <2>1. h = Answer(b, "EPROTO") /\ "EPROTO" \in Statuses
    BY <1>3 DEF HostTrySubmit, Statuses, Answer
  <2> QED  BY <2>1, <1>1
<1>4. CASE ~(b.outstanding >= Capacity \/ (b.blocked /\ b.pending # <<>>))
           /\ b.contexts[SlotOf(b.next)] = Free /\ ~valid
  <2>1. h = Answer(b, "EINVAL") /\ "EINVAL" \in Statuses
    BY <1>4 DEF HostTrySubmit, Statuses, Answer
  <2> QED  BY <2>1, <1>1
<1>5. CASE ~(b.outstanding >= Capacity \/ (b.blocked /\ b.pending # <<>>))
           /\ b.contexts[SlotOf(b.next)] = Free /\ valid
  <2> DEFINE p == Queued(b)
  <2>1. h = IF Len(p.pending) = HostBatch THEN PublishPending(p, env) ELSE p
    BY <1>5 DEF HostTrySubmit, Enqueue, Queued
  <2> HIDE DEF p
  <2>2. /\ Books(p, c) /\ Accepts(p, b) /\ SameControl(p, b) /\ p.status = "ok"
        /\ p.pending # <<>> /\ BatchVisible(p)
        /\ Len(p.pending) # HostBatch => Settled(p)
    BY <1>5, EnqueueSound DEF p
  <2>3. CASE Len(p.pending) # HostBatch  BY <2>1, <2>2, <2>3
  <2>4. CASE Len(p.pending) = HostBatch
    <3>1. h = PublishPending(p, env)  BY <2>1, <2>4
    <3>2. /\ Books(h, c) /\ Keeps(h, p) /\ h.status \in {"ok", "EIO"}
          /\ h.status = "ok" => Settled(h)
      BY <3>1, <2>2, PublishSound
    <3>3. Accepts(h, b)  BY <3>2, <2>2, QueueLength, AcceptsKeeps
    <3> QED  BY <3>2, <3>3
  <2> QED  BY <2>3, <2>4
<1> QED  BY <1>2, <1>3, <1>4, <1>5

\* try_complete_locally accepts the next task as a local error, or nothing.
LEMMA TryCompleteLocallySound ==
  ASSUME NEW b, NEW c, Books(b, c), Settled(b), b.state = "accepting", b.next \in TaskIds,
         NEW p, p = TryCompleteLocally(b)
  PROVE  Books(p, c) /\ (Keeps(p, b) \/ Accepts(p, b)) /\ Settled(p)
<1>0. b \in Backends  BY DEF Books
<1>1. CASE b.outstanding >= Capacity
  <2>1. p = Answer(b, "ok") /\ "ok" \in Statuses
    BY <1>1 DEF TryCompleteLocally, Statuses, Answer
  <2>2. p \in Backends /\ Unmoved(p, b)  BY <2>1, <1>0, AnswerUnmoved
  <2> QED  BY <2>2, UnmovedSound
<1>2. CASE ~(b.outstanding >= Capacity) /\ b.contexts[SlotOf(b.next)] # Free
  <2>1. /\ p = Failure(b, "queue", "EPROTO")
        /\ "EPROTO" \in Statuses /\ "queue" \in Failures
    BY <1>2 DEF TryCompleteLocally, Statuses, Failures, Failure
  <2>2. p \in Backends /\ Unmoved(p, b)  BY <2>1, <1>0, FailureUnmoved
  <2> QED  BY <2>2, UnmovedSound
<1>3. CASE ~(b.outstanding >= Capacity) /\ b.contexts[SlotOf(b.next)] = Free
  <2>1. p = [Occupied(b, "local_error", "backend_error") EXCEPT !.local = Append(@, b.next)]
    BY <1>3 DEF TryCompleteLocally
  <2> QED  BY <2>1, <1>3, LocalSound
<1> QED  BY <1>1, <1>2, <1>3

\* try_submit_at_time accepts at most one task, whatever error it has to handle.
LEMMA SubmittingSound ==
  ASSUME NEW c, Books(backend, c), Settled(backend), backend.state = "accepting",
         backend.next \in TaskIds,
         NEW valid \in BOOLEAN, NEW env \in Environment, NEW p, p = Submitting(valid, env)
  PROVE  Books(p, c) /\ (Keeps(p, backend) \/ Accepts(p, backend)) /\ Settled(p)
<1> DEFINE h == HostTrySubmit(backend, valid, env)
           g == IF h.status = "EINVAL" /\ h.failure = "none" THEN TryCompleteLocally(h) ELSE h
<1>1. p = Handled(g, env)  BY DEF Submitting
<1>2. /\ Books(h, c) /\ (Keeps(h, backend) \/ Accepts(h, backend))
      /\ h.status \in {"ok", "EINVAL"} => Settled(h)
      /\ h.status = "EINVAL" => Keeps(h, backend) /\ h.state = backend.state
  BY HostTrySubmitSound
<1> HIDE DEF h
<1>3. /\ Books(g, c) /\ (Keeps(g, backend) \/ Accepts(g, backend))
      /\ g.status = "ok" => Settled(g)
  <2>1. CASE h.status = "EINVAL" /\ h.failure = "none"
    <3>1. g = TryCompleteLocally(h)  BY <2>1
    <3> HIDE DEF g
    <3>2. h.state = "accepting" /\ h.next \in TaskIds /\ Keeps(h, backend)
      BY <1>2, <2>1 DEF Keeps
    <3>3. Books(g, c) /\ (Keeps(g, h) \/ Accepts(g, h)) /\ Settled(g)
      BY <3>1, <3>2, <1>2, <2>1, TryCompleteLocallySound
    <3>4. Keeps(g, backend) \/ Accepts(g, backend)
      BY <3>2, <3>3, <1>2, QueueLength, KeepsKeeps, KeepsAccepts
    <3> QED  BY <3>3, <3>4
  <2>2. CASE ~(h.status = "EINVAL" /\ h.failure = "none")  BY <1>2, <2>2
  <2> QED  BY <2>1, <2>2
<1> HIDE DEF g
<1>4. Books(p, c) /\ Keeps(p, g) /\ Settled(p)  BY <1>1, <1>3, HandledSound
<1>5. Keeps(p, backend) \/ Accepts(p, backend)
  BY <1>3, <1>4, QueueLength, KeepsKeeps, AcceptsKeeps
<1> QED  BY <1>4, <1>5

-----------------------------------------------------------------------------
(* Reporting.                                                               *)

\* A call that hands over a completion.
Delivers(p, b, c) ==
  /\ p.completion \in Reports
  /\ p.completion.result = "success" => p.completion.task \in c
  /\ p.completion.task < b.next /\ SlotOf(p.completion.task) \in Slots
  /\ b.contexts[SlotOf(p.completion.task)].task = p.completion.task
  /\ p.contexts[SlotOf(p.completion.task)].task = 0
  /\ \A s \in Slots : s # SlotOf(p.completion.task) => p.contexts[s].task = b.contexts[s].task
  /\ p.next = b.next /\ (p.state = b.state \/ p.state = "draining")
  /\ b.stop_requested => p.stop_requested /\ Len(p.queue) <= Len(b.queue)

\* A completion handed over after a call that keeps everything.
LEMMA KeepsDelivers ==
  ASSUME NEW b, NEW p, NEW r, NEW c, Keeps(p, b), Delivers(r, p, c),
         Len(b.queue) \in Nat, Len(p.queue) \in Nat, Len(r.queue) \in Nat
  PROVE  Delivers(r, b, c)
BY DEF Keeps, Delivers

\* A call that keeps everything after a completion was handed over.
LEMMA DeliversKeeps ==
  ASSUME NEW b, NEW p, NEW r, NEW c, Delivers(p, b, c), Keeps(r, p),
         Len(b.queue) \in Nat, Len(p.queue) \in Nat, Len(r.queue) \in Nat
  PROVE  Delivers(r, b, c)
BY DEF Keeps, Delivers

\* A task with a context is counted as outstanding.
LEMMA OwnerCounted ==
  ASSUME NEW b, NEW c, Books(b, c), NEW task \in TaskIds, NEW state, state # "free",
         Owns(b.contexts, task, state)
  PROVE  b.outstanding - 1 \in Nat
<1> DEFINE m == Reset(b.contexts, task)
<1>1. /\ b.contexts \in ContextArrays /\ b.outstanding \in Nat
      /\ b.outstanding + Cardinality(FreeSlots(b.contexts)) = Capacity
  BY MemberTypes DEF Books, Ledger
<1>2. Releases(m, b.contexts, task, state)  BY <1>1, ResetReleases
<1>3. m \in ContextArrays  BY <1>2 DEF Releases
<1> HIDE DEF m
<1>4. /\ Cardinality(FreeSlots(m)) = Cardinality(FreeSlots(b.contexts)) + 1
      /\ Cardinality(FreeSlots(b.contexts)) \in Nat
  BY <1>1, <1>2, ReleaseCounts
<1>5. Cardinality(FreeSlots(m)) <= Capacity
  <2>1. FreeSlots(m) \subseteq Slots  BY DEF FreeSlots
  <2> QED  BY <2>1, SlotsFinite, FS_Subset
<1> QED  BY <1>1, <1>4, <1>5, Sizes

\* The first branch of try_pop_completion: a local error is reported.
LEMMA PopLocalSound ==
  ASSUME NEW b, NEW c, Books(b, c), b.local # <<>>,
         NEW p, p = LocalPopped(b, Head(b.local))
  PROVE  /\ Books(p, c) /\ Delivers(p, b, c) /\ p.status = b.status
         /\ SameBatch(p, b) /\ p.visible = b.visible
<1> DEFINE task == Head(b.local)
           m == Reset(b.contexts, task)
           result == b.contexts[SlotOf(task)].result
           t == Tail(b.local)
<1>0. b \in Backends /\ Ledger(b) /\ Delivery(b, c)  BY DEF Books
<1>1. /\ b.contexts \in ContextArrays /\ b.next \in Nat /\ b.outstanding \in Nat
      /\ b.pending \in TaskSeqs /\ b.local \in TaskSeqs /\ b.queue \in TaskSeqs
  BY <1>0, MemberTypes
<1>2. /\ task \in TaskIds /\ task = b.local[1] /\ 1 \in 1..Len(b.local)
  BY <1>1, TailKeeps
<1>3. /\ b.next \in 1..(MaxTasks + 1) /\ Len(b.pending) <= HostBatch
      /\ Issued(b.contexts, b.next) /\ ErrorsReported(b.contexts)
      /\ Lists(b.contexts, b.pending, "pending") /\ Lists(b.contexts, b.local, "local_error")
      /\ Covers(b.contexts, b.queue, "submitted")
      /\ Distinct(b.queue) /\ Apart(b.queue, b.pending) /\ Below(b.queue, b.next)
      /\ Len(b.queue) <= Capacity
      /\ b.outstanding + Cardinality(FreeSlots(b.contexts)) = Capacity
      /\ (b.state = "accepting" \/ b.pending # <<>>) => AllOwn(b.contexts, b.queue, "submitted")
      /\ b.stop_requested => b.state = "draining" /\ b.pending = <<>>
  BY <1>0 DEF Ledger
<1>4. Owns(b.contexts, task, "local_error")  BY <1>2, <1>3 DEF Lists, AllOwn
<1>5. "local_error" # "free" /\ "pending" # "local_error" /\ "submitted" # "local_error"
      /\ "pending" # "free" /\ "submitted" # "free"
  OBVIOUS
<1>6. Releases(m, b.contexts, task, "local_error")  BY <1>1, <1>2, <1>4, <1>5, ResetReleases
<1>7. /\ p \in Backends /\ SameControl(p, b) /\ SameDevice(p, b) /\ SameBatch(p, b)
      /\ p.next = b.next /\ p.status = b.status
      /\ p.contexts = m /\ p.outstanding = b.outstanding - 1 /\ p.local = t
      /\ p.completion = [task |-> task, result |-> result]
  <2>1. b.outstanding - 1 \in Nat  BY <1>2, <1>4, <1>5, OwnerCounted
  <2>2. LocalPoppedFrom(p, b, task)  BY <2>1, <1>0, <1>2, PopLocalEffect
  <2> HIDE DEF task
  <2> QED  BY <2>2 DEF Reset, LocalPoppedFrom
<1> HIDE DEF m, t, task
<1>8. t \in TaskSeqs /\ Lists(m, t, "local_error")
  <2>1. task = Head(b.local) /\ Distinct(b.local)  BY <1>3 DEF task, Lists
  <2>2. /\ Tail(b.local) \in TaskSeqs /\ Distinct(Tail(b.local))
        /\ AllOwn(m, Tail(b.local), "local_error") /\ Covers(m, Tail(b.local), "local_error")
    BY <2>1, <1>1, <1>2, <1>3, <1>6, ReleaseTail DEF Lists
  <2> QED  BY <2>2 DEF t, Lists
<1>9. Lists(m, b.pending, "pending")  BY <1>1, <1>2, <1>3, <1>5, <1>6, ReleaseKeeps
<1>10. Covers(m, b.queue, "submitted")  BY <1>1, <1>2, <1>3, <1>5, <1>6, ReleaseKeeps, ZenonT(30)
<1>11. (b.state = "accepting" \/ b.pending # <<>>) => AllOwn(m, b.queue, "submitted")
  BY <1>1, <1>2, <1>3, <1>5, <1>6, ReleaseKeeps
<1>12. Issued(m, b.next) /\ ErrorsReported(m)  BY <1>3, <1>6, ReleaseIssued
<1>13. b.outstanding - 1 + Cardinality(FreeSlots(m)) = Capacity
  <2> DEFINE free == Cardinality(FreeSlots(b.contexts))
             more == Cardinality(FreeSlots(m))
             used == b.outstanding
  <2>1. more = free + 1 /\ free \in Nat  BY <1>1, <1>2, <1>6, ReleaseCounts
  <2>2. used \in Nat /\ used + free = Capacity  BY <1>1, <1>3
  <2> HIDE DEF free, more, used
  <2>3. used - 1 + more = Capacity  BY <2>1, <2>2
  <2> QED  BY <2>3 DEF used, more
<1>14. Ledger(p)
  BY <1>3, <1>7, <1>8, <1>9, <1>10, <1>11, <1>12, <1>13
     DEF Ledger, SameControl, SameDevice, SameBatch
<1>15. Delivery(p, c)  BY <1>0, <1>7 DEF Delivery, SameDevice
<1>16. Delivers(p, b, c)
  <2>1. /\ SlotOf(task) \in Slots /\ b.contexts[SlotOf(task)].task = task
        /\ b.contexts[SlotOf(task)].state = "local_error"
        /\ m[SlotOf(task)].task = 0
        /\ \A s \in Slots : s # SlotOf(task) => m[s].task = b.contexts[s].task
    BY <1>6 DEF Releases, Free
  <2>2. result = "backend_error" /\ "backend_error" \in Results
    BY <2>1, <1>3 DEF ErrorsReported, Results
  <2>3. task \in 1..(b.next - 1)
    <3>1. b.contexts[SlotOf(task)].task \in 1..(b.next - 1)  BY <2>1, <1>3 DEF Issued
    <3> QED  BY <3>1, <2>1
  <2>4. p.completion.task = task /\ p.completion.result = result /\ p.completion \in Reports
    BY <2>2, <1>2, <1>7 DEF Reports
  <2>5. task < b.next  BY <2>3, <1>1
  <2>6. Len(b.queue) \in Nat  BY <1>1, TaskSeqFacts
  <2>7. /\ p.next = b.next /\ p.state = b.state /\ p.stop_requested = b.stop_requested
        /\ p.queue = b.queue /\ p.contexts = m
    BY <1>7 DEF SameControl, SameDevice
  <2> HIDE DEF result
  <2>8. /\ SlotOf(p.completion.task) \in Slots
        /\ b.contexts[SlotOf(p.completion.task)].task = p.completion.task
        /\ p.contexts[SlotOf(p.completion.task)].task = 0
        /\ \A s \in Slots : s # SlotOf(p.completion.task) => p.contexts[s].task = b.contexts[s].task
    BY <2>1, <2>4, <2>7
  <2>9. p.completion.task < b.next /\ p.completion.result # "success"  BY <2>2, <2>4, <2>5
  <2>10. Len(p.queue) <= Len(b.queue)  BY <2>6, <2>7
  <2> QED  BY <2>4, <2>7, <2>8, <2>9, <2>10 DEF Delivers
<1> QED  BY <1>7, <1>14, <1>15, <1>16 DEF Books, SameDevice

\* What polling a completion leaves in the queue.
LEMMA PolledDelivery ==
  ASSUME NEW b, NEW c, Books(b, c), b.done # 0
  PROVE  /\ b.queue # <<>> /\ Head(b.queue) \in c
         /\ b.done - 1 <= Len(Tail(b.queue))
         /\ \A i \in 1..(b.done - 1) : Tail(b.queue)[i] \in c
         /\ \A i \in 1..Len(Tail(b.queue)) : Tail(b.queue)[i] \in b.visible
         /\ c \subseteq b.visible
<1>1. /\ b.done \in Nat /\ b.queue \in TaskSeqs /\ b.done <= Len(b.queue)
      /\ \A i \in 1..b.done : b.queue[i] \in c
      /\ \A i \in 1..Len(b.queue) : b.queue[i] \in b.visible
      /\ c \subseteq b.visible
  BY MemberTypes DEF Books, Delivery
<1>2. b.queue # <<>>
  <2>1. Len(b.queue) # 0  BY <1>1, TaskSeqFacts
  <2> QED  BY <2>1
<1> DEFINE t == Tail(b.queue)
           n == Len(b.queue)
<1>3. /\ Len(t) = n - 1 /\ n \in Nat \ {0} /\ Head(b.queue) = b.queue[1]
      /\ \A i \in 1..(n - 1) : i + 1 \in 1..n /\ t[i] = b.queue[i + 1]
  BY <1>1, <1>2, TailKeeps
<1> HIDE DEF t, n
<1>4. \A i \in 1..(b.done - 1) : i \in 1..(n - 1) /\ i + 1 \in 1..b.done
  BY <1>1, <1>3 DEF n
<1>5. 1 \in 1..b.done /\ b.done - 1 <= n - 1  BY <1>1, <1>3 DEF n
<1>6. \A i \in 1..(b.done - 1) : t[i] \in c  BY <1>1, <1>3, <1>4
<1>7. \A i \in 1..Len(t) : t[i] \in b.visible  BY <1>1, <1>3 DEF n
<1> QED  BY <1>1, <1>2, <1>3, <1>5, <1>6, <1>7 DEF t, n

\* The oldest completion has been taken off the queue.
Polled(b) == [b EXCEPT !.queue = Tail(@), !.done = @ - 1]

\* A completion whose context is gone is consumed, and no other task is.
LEMMA PopStaleSound ==
  ASSUME NEW b, NEW c, Books(b, c), b.done # 0, ~Holds(b, Head(b.queue), "submitted"),
         NEW p, p = Polled(b)
  PROVE  /\ Books(p, c) /\ Keeps(p, b) /\ SameBatch(p, b) /\ p.visible = b.visible
<1> DEFINE t == Tail(b.queue)
           n == Len(b.queue)
<1>0. b \in Backends /\ Ledger(b) /\ Delivery(b, c)  BY DEF Books
<1>1. /\ b.contexts \in ContextArrays /\ b.pending \in TaskSeqs /\ b.queue \in TaskSeqs
  BY <1>0, MemberTypes
<1>2. /\ b.queue # <<>> /\ b.done - 1 <= Len(t)
      /\ \A i \in 1..(b.done - 1) : t[i] \in c
      /\ \A i \in 1..Len(t) : t[i] \in b.visible
      /\ c \subseteq b.visible
  BY PolledDelivery
<1>3. /\ p \in Backends /\ SameControl(p, b) /\ SameBook(p, b) /\ SameBatch(p, b)
      /\ p.local = b.local /\ p.completion = b.completion /\ p.status = b.status
      /\ p.visible = b.visible /\ p.queue = t /\ p.done = b.done - 1
  BY <1>0, <1>2, PolledEffect DEF Polled
<1>4. /\ Issued(b.contexts, b.next) /\ Covers(b.contexts, b.queue, "submitted")
      /\ Distinct(b.queue) /\ Apart(b.queue, b.pending) /\ Below(b.queue, b.next)
      /\ Len(b.queue) <= Capacity
      /\ (b.state = "accepting" \/ b.pending # <<>>) => AllOwn(b.contexts, b.queue, "submitted")
  BY <1>0 DEF Ledger
<1>5. Distinct(t) /\ Below(t, b.next) /\ Apart(t, b.pending)  BY <1>1, <1>2, <1>4, TailOrder
<1>6. /\ Len(t) = n - 1 /\ n \in Nat \ {0} /\ Head(b.queue) = b.queue[1]
      /\ \A i \in 1..(n - 1) : i + 1 \in 1..n /\ t[i] = b.queue[i + 1]
      /\ \A i \in 1..n : i # 1 => i - 1 \in 1..(n - 1) /\ (i - 1) + 1 = i
  BY <1>1, <1>2, TailKeeps
<1> HIDE DEF t
<1>7. Covers(b.contexts, t, "submitted")
  <2> SUFFICES ASSUME NEW s \in Slots, b.contexts[s].state = "submitted"
               PROVE  \E i \in 1..(n - 1) : t[i] = b.contexts[s].task
    BY <1>6 DEF Covers
  <2>1. PICK i \in 1..n : b.queue[i] = b.contexts[s].task  BY <1>4 DEF Covers
  <2>2. SlotOf(b.contexts[s].task) = s  BY <1>4 DEF Issued
  <2>3. i # 1  BY <2>1, <2>2, <1>6 DEF Holds
  <2> QED  BY <2>1, <2>3, <1>6
<1>8. (b.state = "accepting" \/ b.pending # <<>>) => AllOwn(b.contexts, t, "submitted")
  <2>1. AllOwn(b.contexts, b.queue, "submitted") => AllOwn(b.contexts, t, "submitted")
    BY <1>6 DEF AllOwn
  <2> QED  BY <2>1, <1>4
<1>9. Len(t) <= Capacity /\ Len(t) <= Len(b.queue)  BY <1>4, <1>6, Sizes
<1>10. Ledger(p)
  BY <1>0, <1>3, <1>5, <1>7, <1>8, <1>9 DEF Ledger, SameControl, SameBook, SameBatch
<1>11. Delivery(p, c)  BY <1>2, <1>3 DEF Delivery
<1>12. Keeps(p, b)  BY <1>3, <1>9 DEF Keeps, SameControl, SameBook
<1> QED  BY <1>3, <1>10, <1>11, <1>12 DEF Books

\* A completion of the device is matched with its context and reported.
LEMMA PopDeviceSound ==
  ASSUME NEW b, NEW c, Books(b, c), b.done # 0, Holds(b, Head(b.queue), "submitted"),
         NEW p, p = Completed(Polled(b), Head(b.queue))
  PROVE  /\ Books(p, c) /\ Delivers(p, b, c) /\ p.status = b.status
         /\ SameBatch(p, b) /\ p.visible = b.visible
<1> DEFINE task == Head(b.queue)
           m == Reset(b.contexts, task)
           result == b.contexts[SlotOf(task)].result
           t == Tail(b.queue)
           d == Polled(b)
<1> HIDE DEF d
<1>0. b \in Backends /\ Ledger(b) /\ Delivery(b, c)  BY DEF Books
<1>1. /\ b.contexts \in ContextArrays /\ b.next \in Nat /\ b.outstanding \in Nat
      /\ b.pending \in TaskSeqs /\ b.local \in TaskSeqs /\ b.queue \in TaskSeqs
  BY <1>0, MemberTypes
<1>2. /\ b.queue # <<>> /\ task \in c /\ b.done - 1 <= Len(t)
      /\ \A i \in 1..(b.done - 1) : t[i] \in c
      /\ \A i \in 1..Len(t) : t[i] \in b.visible
      /\ c \subseteq b.visible
  BY PolledDelivery
<1>3. /\ d \in Backends /\ SameControl(d, b) /\ SameBook(d, b) /\ SameBatch(d, b)
      /\ d.local = b.local /\ d.status = b.status
      /\ d.visible = b.visible /\ d.queue = t /\ d.done = b.done - 1
  BY <1>0, <1>2, PolledEffect DEF Polled, d
<1>4. /\ b.next \in 1..(MaxTasks + 1) /\ Len(b.pending) <= HostBatch
      /\ Issued(b.contexts, b.next) /\ ErrorsReported(b.contexts)
      /\ Lists(b.contexts, b.pending, "pending") /\ Lists(b.contexts, b.local, "local_error")
      /\ Covers(b.contexts, b.queue, "submitted")
      /\ Distinct(b.queue) /\ Apart(b.queue, b.pending) /\ Below(b.queue, b.next)
      /\ Len(b.queue) <= Capacity
      /\ b.outstanding + Cardinality(FreeSlots(b.contexts)) = Capacity
      /\ (b.state = "accepting" \/ b.pending # <<>>) => AllOwn(b.contexts, b.queue, "submitted")
      /\ b.stop_requested => b.state = "draining" /\ b.pending = <<>>
  BY <1>0 DEF Ledger
<1>5. task \in TaskIds  BY <1>1, <1>2, TailKeeps
<1>6. Owns(b.contexts, task, "submitted")  BY DEF Owns, Holds
<1>7. "submitted" # "free" /\ "pending" # "submitted" /\ "local_error" # "submitted"
      /\ "pending" # "free" /\ "local_error" # "free"
  OBVIOUS
<1>8. Releases(m, b.contexts, task, "submitted")  BY <1>1, <1>5, <1>6, <1>7, ResetReleases
<1>9. /\ p \in Backends /\ SameControl(p, d) /\ SameDevice(p, d) /\ SameBatch(p, d)
      /\ p.next = d.next /\ p.status = d.status /\ p.local = d.local
      /\ p.contexts = m /\ p.outstanding = b.outstanding - 1
      /\ p.completion = [task |-> task, result |-> result]
  <2>1. b.outstanding - 1 \in Nat  BY <1>5, <1>6, <1>7, OwnerCounted
  <2>2. d.outstanding = b.outstanding /\ d.contexts = b.contexts  BY <1>3 DEF SameBook
  <2>3. p = Completed(d, task)  BY DEF d
  <2> HIDE DEF task
  <2>4. /\ p \in Backends /\ SameControl(p, d) /\ SameDevice(p, d) /\ SameBatch(p, d)
        /\ p.next = d.next /\ p.status = d.status /\ p.local = d.local
        /\ p.contexts = [d.contexts EXCEPT ![SlotOf(task)] = Free]
        /\ p.outstanding = d.outstanding - 1
        /\ p.completion = [task |-> task, result |-> d.contexts[SlotOf(task)].result]
    BY <2>1, <2>2, <2>3, <1>3, <1>5, CompletedEffect
  <2> QED  BY <2>2, <2>4 DEF Reset
<1>10. p.completion.task = task /\ p.completion.result = result
  <2>1. p.completion = [task |-> task, result |-> result]  BY <1>9
  <2> HIDE DEF task, result
  <2> QED  BY <2>1
<1>11. /\ p \in Backends /\ SameControl(p, b) /\ SameBatch(p, b)
       /\ p.next = b.next /\ p.status = b.status /\ p.local = b.local
       /\ p.contexts = m /\ p.outstanding = b.outstanding - 1
       /\ p.visible = b.visible /\ p.queue = t /\ p.done = b.done - 1
  BY <1>3, <1>9 DEF SameControl, SameDevice, SameBatch, SameBook
<1>12. /\ t \in TaskSeqs /\ Len(t) = Len(b.queue) - 1 /\ Covers(m, t, "submitted")
       /\ (b.state = "accepting" \/ b.pending # <<>>) => AllOwn(m, t, "submitted")
  BY <1>1, <1>2, <1>4, <1>5, <1>8, ReleaseTail
<1>13. Distinct(t) /\ Below(t, b.next) /\ Apart(t, b.pending)  BY <1>1, <1>2, <1>4, TailOrder
<1> HIDE DEF m, t, task, result
<1>14. Lists(m, b.pending, "pending")  BY <1>1, <1>4, <1>5, <1>7, <1>8, ReleaseKeeps
<1>15. Lists(m, b.local, "local_error")  BY <1>1, <1>4, <1>5, <1>7, <1>8, ReleaseKeeps
<1>16. Issued(m, b.next) /\ ErrorsReported(m)  BY <1>4, <1>8, ReleaseIssued
<1>17. b.outstanding - 1 + Cardinality(FreeSlots(m)) = Capacity
  <2> DEFINE free == Cardinality(FreeSlots(b.contexts))
             more == Cardinality(FreeSlots(m))
             used == b.outstanding
  <2>1. more = free + 1 /\ free \in Nat  BY <1>1, <1>5, <1>8, ReleaseCounts
  <2>2. used \in Nat /\ used + free = Capacity  BY <1>1, <1>4
  <2> HIDE DEF free, more, used
  <2>3. used - 1 + more = Capacity  BY <2>1, <2>2
  <2> QED  BY <2>3 DEF used, more
<1>18. Len(t) <= Capacity /\ Len(t) <= Len(b.queue)
  <2>1. Len(b.queue) \in Nat  BY <1>1, TaskSeqFacts
  <2>2. Len(b.queue) <= Capacity /\ Len(t) = Len(b.queue) - 1  BY <1>4, <1>12
  <2> QED  BY <2>1, <2>2, Sizes
<1>19. Ledger(p)
  BY <1>4, <1>11, <1>12, <1>13, <1>14, <1>15, <1>16, <1>17, <1>18
     DEF Ledger, SameControl, SameBatch
<1>20. Delivery(p, c)  BY <1>2, <1>11 DEF Delivery
<1>21. Delivers(p, b, c)
  <2>1. /\ SlotOf(task) \in Slots /\ b.contexts[SlotOf(task)].task = task
        /\ b.contexts[SlotOf(task)].state = "submitted"
        /\ m[SlotOf(task)].task = 0
        /\ \A s \in Slots : s # SlotOf(task) => m[s].task = b.contexts[s].task
    BY <1>8 DEF Releases, Free
  <2>2. result \in Results  BY <2>1, <1>1 DEF result, ContextArrays, ContextSlots
  <2>3. task \in 1..(b.next - 1)
    <3>1. b.contexts[SlotOf(task)].task \in 1..(b.next - 1)  BY <2>1, <1>4 DEF Issued
    <3> QED  BY <3>1, <2>1
  <2>4. p.completion \in Reports  BY <2>2, <1>5, <1>9 DEF Reports
  <2>5. task < b.next  BY <2>3, <1>1
  <2>6. p.state = b.state /\ p.stop_requested = b.stop_requested  BY <1>11 DEF SameControl
  <2>7. /\ SlotOf(p.completion.task) \in Slots
        /\ b.contexts[SlotOf(p.completion.task)].task = p.completion.task
        /\ p.contexts[SlotOf(p.completion.task)].task = 0
        /\ \A s \in Slots : s # SlotOf(p.completion.task) => p.contexts[s].task = b.contexts[s].task
    BY <2>1, <1>10, <1>11
  <2>8. p.completion.task < b.next /\ p.completion.task \in c  BY <2>5, <1>2, <1>10
  <2>9. Len(p.queue) <= Len(b.queue) /\ p.next = b.next  BY <1>11, <1>18
  <2> QED  BY <2>4, <2>6, <2>7, <2>8, <2>9 DEF Delivers
<1> QED  BY <1>11, <1>19, <1>20, <1>21 DEF Books

\* Popping after the batch has progressed hands over at most one completion.
LEMMA PopNextSound ==
  ASSUME NEW b, NEW c, Books(b, c), NEW env, NEW p, p = PopNext(b, env)
  PROVE  /\ Books(p, c) /\ (Keeps(p, b) \/ Delivers(p, b, c))
         /\ p.status # "ok" => Keeps(p, b)
         /\ SameBatch(p, b) /\ p.visible = b.visible
<1>0. b \in Backends  BY DEF Books
<1>1. Keeps(b, b) /\ SameBatch(b, b)  BY KeepsItself DEF SameBatch
<1>2. "queue" \in Failures /\ "EIO" \in Statuses /\ "EPROTO" \in Statuses
  BY DEF Failures, Statuses
<1>3. CASE b.status # "ok"  BY <1>1, <1>3 DEF PopNext
<1>4. CASE b.status = "ok" /\ b.local # <<>>
  <2>1. p = LocalPopped(b, Head(b.local))  BY <1>4 DEF PopNext, LocalPopped
  <2> QED  BY <2>1, <1>4, PopLocalSound
<1>5. CASE b.status = "ok" /\ b.local = <<>> /\ ~env.poll
  <2>1. p = Failure(b, "queue", "EIO")  BY <1>5 DEF PopNext, Failure
  <2>2. p \in Backends /\ Unmoved(p, b)  BY <2>1, <1>0, <1>2, FailureUnmoved
  <2>3. Books(p, c) /\ Keeps(p, b)  BY <2>2, UnmovedSound
  <2> QED  BY <2>2, <2>3 DEF Unmoved, SameDevice
<1>6. CASE b.status = "ok" /\ b.local = <<>> /\ env.poll /\ b.done = 0
  BY <1>1, <1>6 DEF PopNext
<1>7. CASE b.status = "ok" /\ b.local = <<>> /\ env.poll /\ b.done # 0
           /\ ~Holds(b, Head(b.queue), "submitted")
  <2>1. p = Failure(Polled(b), "queue", "EPROTO")  BY <1>7 DEF PopNext, Failure, Polled
  <2> DEFINE d == Polled(b)
  <2>2. /\ Books(d, c) /\ Keeps(d, b) /\ SameBatch(d, b) /\ d.visible = b.visible
    BY <1>7, PopStaleSound
  <2>3. p = Failure(d, "queue", "EPROTO")  BY <2>1
  <2> HIDE DEF d
  <2>4. p \in Backends /\ Unmoved(p, d)  BY <2>2, <2>3, <1>2, FailureUnmoved DEF Books
  <2>5. Books(p, c) /\ Keeps(p, d)  BY <2>2, <2>4, UnmovedSound
  <2>6. Keeps(p, b)  BY <2>2, <2>5, KeepsKeeps, QueueLength
  <2> QED  BY <2>2, <2>4, <2>5, <2>6 DEF Unmoved, SameDevice, SameBatch
<1>8. CASE b.status = "ok" /\ b.local = <<>> /\ env.poll /\ b.done # 0
           /\ Holds(b, Head(b.queue), "submitted")
  <2>1. p = Completed(Polled(b), Head(b.queue))  BY <1>8 DEF PopNext, Polled
  <2> QED  BY <2>1, <1>8, PopDeviceSound
<1> QED  BY <1>3, <1>4, <1>5, <1>6, <1>7, <1>8

\* progress_host_batch publishes only a batch that is blocked or overdue.
LEMMA ProgressBatchSound ==
  ASSUME NEW b, NEW c, Books(b, c), Settled(b), NEW env \in Environment,
         NEW h, h = ProgressHostBatch(b, env)
  PROVE  /\ Books(h, c) /\ Keeps(h, b)
         /\ h.status = "ok" => Settled(h)
         /\ b.pending = <<>> => h.pending = <<>>
<1>1. CASE b.pending # <<>> /\ (b.blocked \/ env.due)
  <2>1. h = PublishPending(b, env)  BY <1>1 DEF ProgressHostBatch
  <2>2. BatchVisible(b)  BY <1>1 DEF Settled, BatchVisible
  <2> QED  BY <2>1, <2>2, <1>1, PublishSound
<1>2. CASE ~(b.pending # <<>> /\ (b.blocked \/ env.due))
  <2>1. h = Answer(b, "ok")  BY <1>2 DEF ProgressHostBatch, Answer
  <2>2. "ok" \in Statuses /\ b \in Backends  BY DEF Statuses, Books
  <2>3. h \in Backends /\ Unmoved(h, b)  BY <2>1, <2>2, AnswerUnmoved
  <2>4. Books(h, c) /\ Keeps(h, b) /\ Settled(h)  BY <2>3, UnmovedSound
  <2> QED  BY <2>3, <2>4 DEF Unmoved, SameBatch
<1> QED  BY <1>1, <1>2

\* One attempt of try_pop_completion.
LEMMA HostTryPopSound ==
  ASSUME NEW b, NEW c, Books(b, c), Settled(b), NEW env \in Environment,
         NEW p, p = HostTryPop(b, env)
  PROVE  /\ Books(p, c) /\ (Keeps(p, b) \/ Delivers(p, b, c))
         /\ p.status # "ok" => Keeps(p, b)
         /\ (p.status = "ok" \/ b.pending = <<>>) => Settled(p)
<1> DEFINE h == ProgressHostBatch(b, env)
<1>1. /\ Books(h, c) /\ Keeps(h, b)
      /\ h.status = "ok" => Settled(h)
      /\ b.pending = <<>> => h.pending = <<>>
  BY ProgressBatchSound
<1>2. p = PopNext(h, env)  BY DEF HostTryPop
<1> HIDE DEF h
<1>3. /\ Books(p, c) /\ (Keeps(p, h) \/ Delivers(p, h, c))
      /\ p.status # "ok" => Keeps(p, h)
      /\ SameBatch(p, h) /\ p.visible = h.visible
  BY <1>1, <1>2, PopNextSound
<1>4. Len(b.queue) \in Nat /\ Len(h.queue) \in Nat /\ Len(p.queue) \in Nat
  BY <1>1, <1>3, QueueLength
<1>5. Keeps(p, h) => Keeps(p, b)  BY <1>1, <1>4, KeepsKeeps
<1>6. Delivers(p, h, c) => Delivers(p, b, c)  BY <1>1, <1>4, KeepsDelivers
<1>7. Settled(h) => Settled(p)  BY <1>3 DEF Settled, SameBatch
<1>8. h.pending = <<>> => Settled(p)  BY <1>3 DEF Settled, SameBatch
<1>9. h.status # "ok" => p = h  BY <1>2 DEF PopNext
<1> QED  BY <1>1, <1>3, <1>5, <1>6, <1>7, <1>8, <1>9

\* try_pop_completion: a failed attempt is handled and followed by another one.
LEMMA PoppingSound ==
  ASSUME NEW c, Books(backend, c), Settled(backend),
         NEW env \in Environment, NEW p, p = Popping(env)
  PROVE  /\ Books(p, c) /\ Settled(p)
         /\ Keeps(p, backend) \/ Delivers(p, backend, c)
<1> DEFINE h == HostTryPop(backend, env)
           e == HandleHostError(h, env)
           a == Attempted(h, env)
<1>1. /\ Books(h, c) /\ (Keeps(h, backend) \/ Delivers(h, backend, c))
      /\ h.status # "ok" => Keeps(h, backend)
      /\ h.status = "ok" => Settled(h)
  BY HostTryPopSound
<1> HIDE DEF h
<1>2. /\ Books(a, c) /\ Settled(a)
      /\ Keeps(a, backend) \/ Delivers(a, backend, c)
  <2>1. CASE h.status = "ok"  BY <2>1, <1>1 DEF Attempted
  <2>2. CASE h.status # "ok"
    <3>1. Books(e, c) /\ Keeps(e, h) /\ e.pending = <<>>  BY <1>1, HandleSound
    <3>2. a = HostTryPop(e, env)  BY <2>2 DEF Attempted
    <3> HIDE DEF a, e
    <3>3. Settled(e)  BY <3>1 DEF Settled
    <3>4. Books(a, c) /\ (Keeps(a, e) \/ Delivers(a, e, c)) /\ Settled(a)
      BY <3>1, <3>2, <3>3, HostTryPopSound
    <3>5. /\ Len(backend.queue) \in Nat /\ Len(h.queue) \in Nat
          /\ Len(e.queue) \in Nat /\ Len(a.queue) \in Nat
      BY <1>1, <3>1, <3>4, QueueLength
    <3>6. Keeps(e, backend)  BY <1>1, <2>2, <3>1, <3>5, KeepsKeeps
    <3> QED  BY <3>4, <3>5, <3>6, KeepsKeeps, KeepsDelivers
  <2> QED  BY <2>1, <2>2
<1>3. p = ProgressStopRequest(a, env)  BY DEF Popping, h
<1> HIDE DEF a
<1>4. Books(p, c) /\ Keeps(p, a) /\ Settled(p)  BY <1>2, <1>3, StopRequestSound
<1>5. Len(backend.queue) \in Nat /\ Len(a.queue) \in Nat /\ Len(p.queue) \in Nat
  BY <1>2, <1>4, QueueLength
<1> QED  BY <1>2, <1>4, <1>5, KeepsKeeps, DeliversKeeps

-----------------------------------------------------------------------------
(* Stopping.                                                                *)

\* request_stop begins by leaving the accepting state.
Drained(b) == [b EXCEPT !.state = "draining"]

\* A backend that begins to drain.
LEMMA DrainSound ==
  ASSUME NEW b, NEW c, Books(b, c), Settled(b), b.state = "accepting", NEW p, p = Drained(b)
  PROVE  Books(p, c) /\ Keeps(p, b) /\ Settled(p) /\ p.pending = b.pending
<1>0. b \in Backends /\ Ledger(b) /\ Delivery(b, c)  BY DEF Books
<1>1. p \in Backends  BY <1>0 DEF Drained, Backends, States
<1>2. /\ p.state = "draining" /\ p.stop_requested = b.stop_requested /\ SameBook(p, b)
      /\ SameBatch(p, b) /\ SameDevice(p, b)
      /\ p.local = b.local /\ p.completion = b.completion
  BY <1>0 DEF Drained, Backends, SameBook, SameBatch, SameDevice
<1>3. Ledger(p)  BY <1>0, <1>2 DEF Ledger, SameBook, SameBatch, SameDevice
<1>4. Delivery(p, c)  BY <1>0, <1>2 DEF Delivery, SameDevice
<1>5. Len(b.queue) \in Nat  BY QueueLength
<1>6. Keeps(p, b)  BY <1>2, <1>5 DEF Keeps, SameBook, SameDevice
<1> QED  BY <1>1, <1>2, <1>3, <1>4, <1>6 DEF Books, Settled, SameBatch, SameDevice

\* request_stop publishes the tail batch before it asks the kernel to stop.
LEMMA StoppingSound ==
  ASSUME NEW c, Books(backend, c), Settled(backend), backend.state = "accepting",
         NEW env \in Environment, NEW p, p = Stopping(env)
  PROVE  Books(p, c) /\ Settled(p) /\ Keeps(p, backend)
<1> DEFINE d == Drained(backend)
           h == IF d.pending = <<>> THEN d ELSE PublishPending(d, env)
           e == Handled(h, env)
<1>1. Books(d, c) /\ Keeps(d, backend) /\ Settled(d)  BY DrainSound
<1>2. p = ProgressStopRequest(e, env)  BY DEF Stopping, Drained
<1> HIDE DEF d
<1>3. Books(h, c) /\ Keeps(h, d) /\ (h.status = "ok" => Settled(h))
  <2>1. CASE d.pending = <<>>  BY <2>1, <1>1, KeepsItself
  <2>2. CASE d.pending # <<>>
    <3>1. BatchVisible(d)  BY <2>2, <1>1 DEF Settled, BatchVisible
    <3> QED  BY <2>2, <3>1, <1>1, PublishSound
  <2> QED  BY <2>1, <2>2
<1> HIDE DEF h
<1>4. Books(e, c) /\ Keeps(e, h) /\ Settled(e)  BY <1>3, HandledSound
<1> HIDE DEF e
<1>5. Books(p, c) /\ Keeps(p, e) /\ Settled(p)  BY <1>2, <1>4, StopRequestSound
<1>6. /\ Len(backend.queue) \in Nat /\ Len(d.queue) \in Nat /\ Len(h.queue) \in Nat
      /\ Len(e.queue) \in Nat /\ Len(p.queue) \in Nat
  BY <1>1, <1>3, <1>4, <1>5, QueueLength
<1>7. Keeps(h, backend)  BY <1>1, <1>3, <1>6, KeepsKeeps
<1>8. Keeps(e, backend)  BY <1>4, <1>6, <1>7, KeepsKeeps
<1> QED  BY <1>5, <1>6, <1>8, KeepsKeeps
=============================================================================
