-------------------- MODULE PersistentCudaCopyBackendProofs -------------------
(*****************************************************************************)
(* The safety of the copy backend, for every capacity, host batch and number of *)
(* tasks: one lemma per action combines what the member functions keep with the *)
(* history of completions, and the properties follow from the invariant.     *)
(*****************************************************************************)
EXTENDS CopyHostCallProofs

-----------------------------------------------------------------------------
(* The inductive invariant.                                                 *)

\* Where the completions that were handed over hold those of a task.
At(q, task) == {i \in 1..Len(q) : q[i].task = task}

\* Every accepted task is in them once, or still owns its context.
Reported(contexts, next, q) ==
  /\ \A i \in 1..Len(q) : q[i].task < next
  /\ \A task \in 1..(next - 1) :
       \/ Cardinality(At(q, task)) = 1 /\ contexts[SlotOf(task)].task # task
       \/ At(q, task) = {} /\ contexts[SlotOf(task)].task = task

\* A success is handed over only for what the device has copied.
Truthful(c, q) == \A i \in 1..Len(q) : q[i].result = "success" => q[i].task \in c

\* Nothing is left of an earlier run when the backend is stopped.
Rested(b, c, q) == b.state = "stopped" => b.queue = <<>> /\ c = {} /\ q = <<>>

\* The inductive invariant, between two calls.
BackendSound ==
  /\ backend \in Backends /\ copied \subseteq TaskIds /\ popped \in Seq(Reports)
  /\ Ledger(backend) /\ Delivery(backend, copied) /\ Settled(backend)
  /\ Reported(backend.contexts, backend.next, popped) /\ Truthful(copied, popped)
  /\ backend.completion = None /\ Rested(backend, copied, popped)

-----------------------------------------------------------------------------
(* What the worker has been told.                                           *)

\* What the worker has popped, and one completion more.
LEMMA OneMoreReport ==
  ASSUME NEW q \in Seq(Reports), NEW report \in Reports
  PROVE  /\ Append(q, report) \in Seq(Reports) /\ Len(q) \in Nat
         /\ Len(Append(q, report)) = Len(q) + 1
         /\ Append(q, report)[Len(q) + 1] = report
         /\ \A i \in 1..Len(q) : Append(q, report)[i] = q[i]
  OBVIOUS

\* A call that moves no task reports nothing and forgets nothing.
LEMMA KeptReports ==
  ASSUME NEW b, NEW p, NEW q, b.next \in 1..(MaxTasks + 1), Keeps(p, b),
         Reported(b.contexts, b.next, q)
  PROVE  Reported(p.contexts, p.next, q)
<1>1. \A task \in 1..(b.next - 1) : p.contexts[SlotOf(task)].task = b.contexts[SlotOf(task)].task
  BY SlotInRange, Sizes DEF Keeps, TaskIds
<1>2. p.next = b.next  BY DEF Keeps
<1> QED  BY <1>1, <1>2 DEF Reported

\* A task that is accepted has not been reported, and nothing else has lost its slot.
LEMMA AcceptedReports ==
  ASSUME NEW b, NEW p, NEW q, b.next \in TaskIds, Accepts(p, b),
         q \in Seq(Reports), Reported(b.contexts, b.next, q)
  PROVE  Reported(p.contexts, p.next, q)
<1> DEFINE n == b.next
<1>0. n \in Nat /\ n # 0 /\ p.next = n + 1  BY Sizes DEF TaskIds, Accepts
<1>1. /\ b.contexts[SlotOf(n)].task = 0 /\ p.contexts[SlotOf(n)].task = n
      /\ \A s \in Slots : s # SlotOf(n) => p.contexts[s].task = b.contexts[s].task
  BY DEF Accepts
<1>2. \A i \in 1..Len(q) : q[i].task < n  BY DEF Reported
<1>3. ASSUME NEW task \in 1..n
      PROVE  \/ Cardinality(At(q, task)) = 1 /\ p.contexts[SlotOf(task)].task # task
             \/ At(q, task) = {} /\ p.contexts[SlotOf(task)].task = task
  <2>1. CASE task = n
    <3>1. At(q, task) = {}
      <4>1. ASSUME NEW i \in 1..Len(q), q[i].task = n  PROVE FALSE
        <5>1. n < n  BY <4>1, <1>2
        <5> QED  BY <5>1, <1>0
      <4> QED  BY <4>1, <2>1 DEF At
    <3> QED  BY <3>1, <2>1, <1>1
  <2>2. CASE task # n
    <3>1. task \in 1..(n - 1) /\ task \in TaskIds /\ task # 0
      BY <2>2, <1>0, Sizes DEF TaskIds
    <3>2. SlotOf(task) \in Slots  BY <3>1, SlotInRange
    <3>3. \/ Cardinality(At(q, task)) = 1 /\ b.contexts[SlotOf(task)].task # task
          \/ At(q, task) = {} /\ b.contexts[SlotOf(task)].task = task
      BY <3>1 DEF Reported
    <3>4. CASE SlotOf(task) = SlotOf(n)  BY <3>1, <3>3, <3>4, <2>2, <1>1
    <3>5. CASE SlotOf(task) # SlotOf(n)  BY <3>2, <3>3, <3>5, <1>1
    <3> QED  BY <3>4, <3>5
  <2> QED  BY <2>1, <2>2
<1>4. \A i \in 1..Len(q) : q[i].task < p.next
  <2>1. \A i \in 1..Len(q) : q[i] \in Reports  OBVIOUS
  <2>2. \A i \in 1..Len(q) : q[i].task \in Nat  BY <2>1, Sizes DEF Reports, TaskIds
  <2> QED  BY <2>2, <1>0, <1>2
<1>5. 1..(p.next - 1) = 1..n  BY <1>0
<1> QED  BY <1>3, <1>4, <1>5 DEF Reported

\* A completion that is handed over is the first for its task, which gives its
\* context back.
LEMMA DeliveredReports ==
  ASSUME NEW b, NEW p, NEW q, NEW c, b.next \in 1..(MaxTasks + 1), Delivers(p, b, c),
         q \in Seq(Reports), Reported(b.contexts, b.next, q), Truthful(c, q)
  PROVE  /\ Append(q, p.completion) \in Seq(Reports)
         /\ Reported(p.contexts, p.next, Append(q, p.completion))
         /\ Truthful(c, Append(q, p.completion))
<1> DEFINE n == b.next
           r == p.completion
           t == r.task
           a == Append(q, r)
           k == Len(q) + 1
<1>0. n \in Nat /\ p.next = n /\ r \in Reports  BY Sizes DEF Delivers
<1>1. /\ a \in Seq(Reports) /\ Len(q) \in Nat /\ Len(a) = k /\ a[k] = r
      /\ \A i \in 1..Len(q) : a[i] = q[i]
  BY <1>0, OneMoreReport
<1>2. t \in TaskIds /\ t \in Nat /\ t # 0  BY <1>0, Sizes DEF Reports, TaskIds
<1>3. /\ t < n /\ b.contexts[SlotOf(t)].task = t /\ p.contexts[SlotOf(t)].task = 0
      /\ \A s \in Slots : s # SlotOf(t) => p.contexts[s].task = b.contexts[s].task
      /\ r.result = "success" => t \in c
  BY DEF Delivers
<1> HIDE DEF r, a
<1>4. \A i \in 1..Len(a) : i \in 1..Len(q) \/ i = k  BY <1>1
<1>5. \A i \in 1..Len(a) : a[i].task < n
  BY <1>1, <1>3, <1>4 DEF Reported
<1>6. Truthful(c, a)  BY <1>1, <1>3, <1>4 DEF Truthful
<1>7. \A i \in 1..Len(q) : i \in 1..Len(a)  BY <1>1
<1>8. k \in 1..Len(a)  BY <1>1
<1> HIDE DEF k
<1>9. ASSUME NEW task \in 1..(n - 1)
      PROVE  \/ Cardinality(At(a, task)) = 1 /\ p.contexts[SlotOf(task)].task # task
             \/ At(a, task) = {} /\ p.contexts[SlotOf(task)].task = task
  <2>0. task \in TaskIds /\ task # 0  BY <1>0, Sizes DEF TaskIds
  <2>1. SlotOf(task) \in Slots  BY <2>0, SlotInRange
  <2>2. \/ Cardinality(At(q, task)) = 1 /\ b.contexts[SlotOf(task)].task # task
        \/ At(q, task) = {} /\ b.contexts[SlotOf(task)].task = task
    BY DEF Reported
  <2>3. CASE task = t
    <3>1. At(q, task) = {}  BY <2>2, <2>3, <1>3
    <3>2. At(a, task) = {k}
      BY <3>1, <2>3, <1>1, <1>4, <1>7, <1>8, SMTT(30) DEF At
    <3>3. Cardinality(At(a, task)) = 1  BY <3>2, FS_Singleton
    <3> QED  BY <3>3, <2>0, <2>3, <1>3
  <2>4. CASE task # t
    <3>1. At(a, task) = At(q, task)  BY <2>4, <1>1, <1>4, <1>7 DEF At
    <3>2. CASE SlotOf(task) = SlotOf(t)  BY <3>1, <3>2, <2>0, <2>2, <2>4, <1>3
    <3>3. CASE SlotOf(task) # SlotOf(t)  BY <3>1, <3>3, <2>1, <2>2, <1>3
    <3> QED  BY <3>2, <3>3
  <2> QED  BY <2>3, <2>4
<1>10. Reported(p.contexts, p.next, a)  BY <1>0, <1>5, <1>9 DEF Reported
<1> QED  BY <1>1, <1>6, <1>10 DEF a, r

\* What a call returned is gone when the next one begins.
LEMMA ReturnedSound ==
  ASSUME NEW h, NEW c, Books(h, c), Settled(h), NEW b, b = Returned(h)
  PROVE  /\ Books(b, c) /\ Settled(b) /\ b.completion = None
         /\ SameControl(b, h) /\ SameBook(b, h) /\ SameDevice(b, h) /\ SameBatch(b, h)
<1>0. h \in Backends /\ Ledger(h) /\ Delivery(h, c)  BY DEF Books
<1>1. b \in Backends  BY <1>0 DEF Returned, Backends, Statuses, Completions
<1>2. /\ SameControl(b, h) /\ SameBook(b, h) /\ SameDevice(b, h) /\ SameBatch(b, h)
      /\ b.local = h.local /\ b.completion = None
  BY <1>0 DEF Returned, Backends, SameControl, SameBook, SameDevice, SameBatch
<1>3. Ledger(b)  BY <1>0, <1>2 DEF Ledger, SameControl, SameBook, SameBatch, SameDevice
<1>4. Delivery(b, c)  BY <1>0, <1>2 DEF Delivery, SameDevice
<1> QED  BY <1>1, <1>2, <1>3, <1>4 DEF Books, Settled, SameBatch, SameDevice

-----------------------------------------------------------------------------
(* The actions.                                                             *)

\* A kernel that was told to stop is given nothing more.
GivenNothing ==
  backend.stop_requested /\ backend'.stop_requested => Len(backend'.queue) <= Len(backend.queue)

\* A fresh backend, started or not, is in order and has reported nothing.
LEMMA FreshSound ==
  ASSUME NEW b, b = Started \/ b = [Started EXCEPT !.state = "stopped"]
  PROVE  /\ b \in Backends /\ ~b.stop_requested /\ b.completion = None
         /\ b.queue = <<>>
         /\ Ledger(b) /\ Delivery(b, {}) /\ Settled(b)
         /\ Reported(b.contexts, b.next, <<>>) /\ Truthful({}, <<>>)
<1> DEFINE m == [s \in Slots |-> Free]
<1>1. /\ b.stop_requested = FALSE /\ b.contexts = m /\ b.pending = <<>>
      /\ b.outstanding = 0 /\ b.next = 1 /\ b.local = <<>> /\ b.blocked = FALSE
  BY DEF Started
<1>2. /\ b.flushed = FALSE /\ b.failure = "none" /\ b.queue = <<>> /\ b.done = 0
      /\ b.status = "ok" /\ b.completion = None /\ b.visible = {}
  BY DEF Started
<1>3. \A s \in Slots : m[s] = Free /\ m[s].state = "free"  BY DEF Free
<1>4. Free \in ContextSlots  BY Sizes DEF Free, ContextSlots, ContextStates, TaskNumbers, Results
<1>5. m \in ContextArrays  BY <1>4 DEF ContextArrays
<1>6. b \in Backends
  <2>1. /\ "stopped" \in States /\ <<>> \in TaskSeqs /\ 0 \in Counts /\ 1 \in Counts
        /\ "none" \in Failures /\ "ok" \in Statuses /\ None \in Completions /\ {} \in TaskSets
    BY DEF States, TaskSeqs, Counts, Failures, Statuses, Completions, TaskSets
  <2> HIDE DEF m
  <2>2. Started \in Backends
    <3>1. "accepting" \in States  BY DEF States
    <3> QED  BY <2>1, <3>1, <1>5 DEF Started, Backends, m
  <2> QED  BY <2>1, <2>2 DEF Backends
<1> HIDE DEF m
<1>7. FreeSlots(m) = Slots  BY <1>3 DEF FreeSlots
<1>8. Cardinality(FreeSlots(m)) = Capacity  BY <1>7, SlotsFinite
<1>9. Issued(m, 1) /\ ErrorsReported(m)  BY <1>3 DEF Issued, ErrorsReported
<1>10. \A st : st # "free" => Covers(m, <<>>, st)  BY <1>3 DEF Covers
<1>11. Len(<<>>) = 0 /\ 1..0 = {}  OBVIOUS
<1>12. \A st : AllOwn(m, <<>>, st)  BY <1>11 DEF AllOwn
<1>13. Distinct(<<>>) /\ Below(<<>>, 1) /\ Apart(<<>>, <<>>)  BY <1>11 DEF Distinct, Below, Apart
<1>14. Ledger(b)
  <2>1. 1 \in 1..(MaxTasks + 1) /\ 0 <= HostBatch /\ 0 <= Capacity /\ 0 + Capacity = Capacity
    BY Sizes
  <2> QED  BY <2>1, <1>1, <1>2, <1>8, <1>9, <1>10, <1>11, <1>12, <1>13 DEF Ledger, Lists
<1>15. Delivery(b, {})  BY <1>2, <1>11 DEF Delivery
<1>16. Settled(b)  BY <1>1 DEF Settled
<1>17. Reported(b.contexts, b.next, <<>>)
  <2>1. 1..(1 - 1) = {}  OBVIOUS
  <2> QED  BY <2>1, <1>1, <1>11 DEF Reported
<1>18. Truthful({}, <<>>)  BY <1>11 DEF Truthful
<1> QED  BY <1>1, <1>2, <1>6, <1>14, <1>15, <1>16, <1>17, <1>18

\* A backend that was never started satisfies the invariant.
LEMMA InitSound == Init => BackendSound
<1> SUFFICES ASSUME Init PROVE BackendSound  OBVIOUS
<1>1. /\ backend = [Started EXCEPT !.state = "stopped"] /\ copied = {} /\ popped = <<>>
  BY DEF Init
<1>2. /\ backend \in Backends /\ backend.completion = None /\ backend.queue = <<>>
      /\ Ledger(backend) /\ Delivery(backend, {}) /\ Settled(backend)
      /\ Reported(backend.contexts, backend.next, <<>>) /\ Truthful({}, <<>>)
  BY <1>1, FreshSound
<1>3. <<>> \in Seq(Reports)  OBVIOUS
<1> QED  BY <1>1, <1>2, <1>3 DEF BackendSound, Rested

\* A backend that wait or the destructor has released satisfies the invariant.
LEMMA EmptiedSound ==
  ASSUME backend' = [Started EXCEPT !.state = "stopped"], copied' = {}, popped' = <<>>
  PROVE  BackendSound' /\ ~backend'.stop_requested
<1>2. /\ backend' \in Backends /\ backend'.completion = None /\ backend'.queue = <<>>
      /\ Ledger(backend') /\ Delivery(backend', {}) /\ Settled(backend')
      /\ Reported(backend'.contexts, backend'.next, <<>>) /\ Truthful({}, <<>>)
      /\ ~backend'.stop_requested
  BY FreshSound
<1>3. <<>> \in Seq(Reports)  OBVIOUS
<1> QED  BY <1>2, <1>3 DEF BackendSound, Rested

\* start keeps the invariant: everything is initialised anew.
LEMMA StartSound ==
  ASSUME BackendSound, Start
  PROVE  BackendSound' /\ GivenNothing
<1>1. /\ backend.state = "stopped" /\ backend' = Started /\ copied' = copied /\ popped' = popped
  BY DEF Start
<1>2. copied = {} /\ popped = <<>>  BY <1>1 DEF BackendSound, Rested
<1>4. /\ backend' \in Backends /\ backend'.completion = None /\ backend'.queue = <<>>
      /\ Ledger(backend') /\ Delivery(backend', {}) /\ Settled(backend')
      /\ Reported(backend'.contexts, backend'.next, <<>>) /\ Truthful({}, <<>>)
      /\ ~backend'.stop_requested
  BY <1>1, FreshSound
<1>5. <<>> \in Seq(Reports)  OBVIOUS
<1> QED  BY <1>1, <1>2, <1>4, <1>5 DEF BackendSound, Rested, GivenNothing

\* The destructor keeps the invariant: nothing of the backend is left.
LEMMA DestroySound ==
  ASSUME BackendSound, Destroy
  PROVE  BackendSound' /\ GivenNothing
BY EmptiedSound DEF Destroy, GivenNothing

\* The kernel copies the oldest task it has not copied: it was given the task, so the
\* task was flushed before.
LEMMA DeviceCompleteSound ==
  ASSUME BackendSound, DeviceComplete
  PROVE  BackendSound' /\ GivenNothing
<1> DEFINE b == backend
           n == backend.done + 1
<1>0. /\ b \in Backends /\ copied \subseteq TaskIds /\ popped \in Seq(Reports)
      /\ Ledger(b) /\ Delivery(b, copied) /\ Settled(b)
      /\ Reported(b.contexts, b.next, popped) /\ Truthful(copied, popped)
      /\ b.completion = None /\ Rested(b, copied, popped)
  BY DEF BackendSound
<1>1. /\ b.done < Len(b.queue) /\ backend' = [b EXCEPT !.done = @ + 1]
      /\ copied' = copied \cup {b.queue[n]} /\ popped' = popped
  BY DEF DeviceComplete
<1>2. b.queue \in TaskSeqs /\ b.done \in Nat  BY <1>0, MemberTypes
<1>3. Len(b.queue) \in Nat  BY <1>2, TaskSeqFacts
<1>4. n \in 1..Len(b.queue) /\ n \in Nat /\ n <= Len(b.queue)  BY <1>1, <1>2, <1>3
<1>5. b.queue[n] \in TaskIds  BY <1>2, <1>4, TaskSeqFacts
<1>6. backend' \in Backends  BY <1>0, <1>1, <1>4 DEF Backends, Counts
<1>7. /\ SameControl(backend', b) /\ SameBook(backend', b) /\ SameBatch(backend', b)
      /\ backend'.local = b.local /\ backend'.completion = b.completion
      /\ backend'.queue = b.queue /\ backend'.visible = b.visible
  BY <1>0, <1>1 DEF Backends, SameControl, SameBook, SameBatch
<1>8. backend'.done = n  BY <1>0, <1>1 DEF Backends
<1>9. copied' \subseteq TaskIds  BY <1>0, <1>1, <1>5
<1>10. Ledger(backend')  BY <1>0, <1>7 DEF Ledger, SameControl, SameBook, SameBatch
<1>11. Settled(backend')  BY <1>0, <1>7 DEF Settled, SameBatch
<1>12. Delivery(backend', copied')
  <2>1. \A i \in 1..n : i \in 1..b.done \/ i = n  BY <1>2
  <2>2. \A i \in 1..n : b.queue[i] \in copied'  BY <2>1, <1>0, <1>1 DEF Delivery
  <2>3. copied' \subseteq b.visible  BY <1>0, <1>1, <1>4 DEF Delivery
  <2> HIDE DEF n
  <2> QED  BY <2>2, <2>3, <1>0, <1>4, <1>7, <1>8 DEF Delivery
<1>13. Reported(backend'.contexts, backend'.next, popped')  BY <1>0, <1>1, <1>7 DEF SameBook
<1>14. Truthful(copied', popped')  BY <1>0, <1>1 DEF Truthful
<1>15. backend'.state # "stopped"
  <2>1. b.queue # <<>>  BY <1>4
  <2> QED  BY <2>1, <1>0, <1>7 DEF Rested, SameControl
<1>16. GivenNothing  BY <1>3, <1>7 DEF GivenNothing
<1> QED
  BY <1>0, <1>1, <1>6, <1>7, <1>9, <1>10, <1>11, <1>12, <1>13, <1>14, <1>15, <1>16
     DEF BackendSound, Rested

\* What a call may leave behind: nothing moved, or one task more was accepted.
LEMMA CallSound ==
  ASSUME BackendSound, backend.state # "stopped", backend.next \in 1..(MaxTasks + 1),
         NEW h, Books(h, copied), Settled(h),
         Keeps(h, backend) \/ (Accepts(h, backend) /\ backend.next \in TaskIds),
         backend' = Returned(h), UNCHANGED <<copied, popped>>
  PROVE  BackendSound' /\ GivenNothing
<1>0. /\ copied \subseteq TaskIds /\ popped \in Seq(Reports)
      /\ Reported(backend.contexts, backend.next, popped) /\ Truthful(copied, popped)
  BY DEF BackendSound
<1>1. copied' = copied /\ popped' = popped  OBVIOUS
<1>2. /\ Books(backend', copied) /\ Settled(backend') /\ backend'.completion = None
      /\ SameControl(backend', h) /\ SameBook(backend', h) /\ SameDevice(backend', h)
  BY ReturnedSound
<1>3. Reported(h.contexts, h.next, popped)  BY <1>0, KeptReports, AcceptedReports
<1>4. /\ h.state = backend.state \/ h.state = "draining"
      /\ backend.stop_requested => Len(h.queue) <= Len(backend.queue)
  BY DEF Keeps, Accepts
<1>5. Reported(backend'.contexts, backend'.next, popped')  BY <1>1, <1>2, <1>3 DEF SameBook
<1>6. backend'.state # "stopped"  BY <1>2, <1>4 DEF SameControl
<1>7. GivenNothing  BY <1>2, <1>4 DEF GivenNothing, SameDevice
<1> QED  BY <1>0, <1>1, <1>2, <1>5, <1>6, <1>7 DEF BackendSound, Books, Rested

\* What every call finds.
LEMMA CallBegins ==
  ASSUME BackendSound
  PROVE  /\ Books(backend, copied) /\ Settled(backend) /\ backend.next \in 1..(MaxTasks + 1)
         /\ Reported(backend.contexts, backend.next, popped) /\ popped \in Seq(Reports)
         /\ Truthful(copied, popped) /\ copied \subseteq TaskIds /\ backend.completion = None
BY DEF BackendSound, Books, Ledger

\* try_submit_at_time keeps the invariant: it accepts the next task, or none.
LEMMA TrySubmitSound ==
  ASSUME BackendSound, TrySubmit(Publishing)
  PROVE  BackendSound' /\ GivenNothing
<1>1. /\ Books(backend, copied) /\ Settled(backend) /\ backend.next \in 1..(MaxTasks + 1)
  BY CallBegins
<1>2. /\ backend.state = "accepting" /\ backend.next <= MaxTasks
      /\ UNCHANGED <<copied, popped>>
  BY DEF TrySubmit
<1>3. PICK valid \in BOOLEAN, env \in Publishing : backend' = Returned(Submitting(valid, env))
  BY DEF TrySubmit
<1>4. env \in Environment  BY DEF Publishing
<1>5. backend.next \in TaskIds  BY <1>1, <1>2, Sizes DEF TaskIds
<1> DEFINE h == Submitting(valid, env)
<1>6. Books(h, copied) /\ (Keeps(h, backend) \/ Accepts(h, backend)) /\ Settled(h)
  BY <1>1, <1>2, <1>4, <1>5, SubmittingSound
<1>7. backend' = Returned(h)  BY <1>3
<1>8. backend.state # "stopped"  BY <1>2
<1> HIDE DEF h
<1> QED  BY <1>1, <1>2, <1>5, <1>6, <1>7, <1>8, CallSound

\* flush_submissions keeps the invariant, whether or not the batch can be published.
LEMMA FlushSubmissionsSound ==
  ASSUME BackendSound, FlushSubmissions(Publishing)
  PROVE  BackendSound' /\ GivenNothing
<1>1. /\ Books(backend, copied) /\ Settled(backend) /\ backend.next \in 1..(MaxTasks + 1)
  BY CallBegins
<1>2. /\ backend.state = "accepting" /\ backend.pending # <<>> /\ UNCHANGED <<copied, popped>>
  BY DEF FlushSubmissions
<1>3. PICK env \in Publishing : backend' = Returned(Handled(PublishPending(backend, env), env))
  BY DEF FlushSubmissions
<1>4. env \in Environment  BY DEF Publishing
<1>5. BatchVisible(backend)  BY <1>1, <1>2 DEF Settled, BatchVisible
<1> DEFINE p == PublishPending(backend, env)
           h == Handled(p, env)
<1>6. Books(p, copied) /\ Keeps(p, backend) /\ (p.status = "ok" => Settled(p))
  BY <1>1, <1>2, <1>4, <1>5, PublishSound
<1>7. backend' = Returned(h)  BY <1>3
<1> HIDE DEF p
<1>8. Books(h, copied) /\ Keeps(h, p) /\ Settled(h)  BY <1>6, HandledSound
<1> HIDE DEF h
<1>9. Keeps(h, backend)  BY <1>1, <1>6, <1>8, QueueLength, KeepsKeeps
<1>10. backend.state # "stopped"  BY <1>2
<1> QED  BY <1>1, <1>2, <1>7, <1>8, <1>9, <1>10, CallSound

\* request_stop keeps the invariant: the tail batch is published or failed first.
LEMMA RequestStopSound ==
  ASSUME BackendSound, RequestStop(Publishing)
  PROVE  BackendSound' /\ GivenNothing
<1>1. /\ Books(backend, copied) /\ Settled(backend) /\ backend.next \in 1..(MaxTasks + 1)
  BY CallBegins
<1>2. /\ backend.state = "accepting" /\ UNCHANGED <<copied, popped>>  BY DEF RequestStop
<1>3. PICK env \in Publishing : backend' = Returned(Stopping(env))  BY DEF RequestStop
<1>4. env \in Environment  BY DEF Publishing
<1> DEFINE h == Stopping(env)
<1>5. Books(h, copied) /\ Settled(h) /\ Keeps(h, backend)  BY <1>1, <1>2, <1>4, StoppingSound
<1>6. backend' = Returned(h) /\ backend.state # "stopped"  BY <1>2, <1>3
<1> HIDE DEF h
<1> QED  BY <1>1, <1>2, <1>5, <1>6, CallSound

\* try_pop_completion_at_time: what it hands over is the first completion of its task.
LEMMA TryPopCompletionSound ==
  ASSUME BackendSound, TryPopCompletion(Environment)
  PROVE  BackendSound' /\ GivenNothing
<1>1. /\ Books(backend, copied) /\ Settled(backend) /\ backend.next \in 1..(MaxTasks + 1)
      /\ Reported(backend.contexts, backend.next, popped) /\ popped \in Seq(Reports)
      /\ Truthful(copied, popped) /\ copied \subseteq TaskIds /\ backend.completion = None
  BY CallBegins
<1>2. backend.state # "stopped" /\ copied' = copied  BY DEF TryPopCompletion
<1>3. PICK env \in Environment :
        /\ backend' = Returned(Popping(env))
        /\ popped' = IF Popping(env).completion # None
                     THEN Append(popped, Popping(env).completion) ELSE popped
  BY DEF TryPopCompletion
<1> DEFINE h == Popping(env)
<1>4. /\ Books(h, copied) /\ Settled(h)
      /\ Keeps(h, backend) \/ Delivers(h, backend, copied)
  BY <1>1, PoppingSound
<1>5. /\ backend' = Returned(h)
      /\ popped' = IF h.completion # None THEN Append(popped, h.completion) ELSE popped
  BY <1>3
<1> HIDE DEF h
<1>6. CASE Keeps(h, backend)
  <2>1. h.completion = None  BY <1>1, <1>6 DEF Keeps
  <2>2. UNCHANGED <<copied, popped>>  BY <2>1, <1>2, <1>5
  <2> QED  BY <2>2, <1>1, <1>2, <1>4, <1>5, <1>6, CallSound
<1>7. CASE Delivers(h, backend, copied)
  <2>1. h.completion \in Reports  BY <1>7 DEF Delivers
  <2>2. h.completion.task \in TaskIds  BY <2>1 DEF Reports
  <2>3. h.completion # None
    <3>1. h.completion.task # 0  BY <2>2, Sizes DEF TaskIds
    <3> QED  BY <3>1 DEF None
  <2>4. popped' = Append(popped, h.completion)  BY <2>3, <1>5
  <2>5. /\ popped' \in Seq(Reports) /\ Reported(h.contexts, h.next, popped')
        /\ Truthful(copied, popped')
    BY <2>4, <1>1, <1>7, DeliveredReports
  <2>6. /\ Books(backend', copied) /\ Settled(backend') /\ backend'.completion = None
        /\ SameControl(backend', h) /\ SameBook(backend', h) /\ SameDevice(backend', h)
    BY <1>4, <1>5, ReturnedSound
  <2>7. /\ h.state = backend.state \/ h.state = "draining"
        /\ backend.stop_requested => Len(h.queue) <= Len(backend.queue)
    BY <1>7 DEF Delivers
  <2>8. Reported(backend'.contexts, backend'.next, popped')  BY <2>5, <2>6 DEF SameBook
  <2>9. backend'.state # "stopped"  BY <2>6, <2>7, <1>2 DEF SameControl
  <2>10. GivenNothing  BY <2>6, <2>7 DEF GivenNothing, SameDevice
  <2> QED  BY <2>5, <2>6, <2>8, <2>9, <2>10, <1>1, <1>2 DEF BackendSound, Books, Rested
<1> QED  BY <1>4, <1>6, <1>7

\* wait keeps the invariant: it stops the backend or only asks the kernel to stop.
LEMMA WaitSound ==
  ASSUME BackendSound, Wait(Publishing)
  PROVE  BackendSound' /\ GivenNothing
<1>1. /\ Books(backend, copied) /\ Settled(backend) /\ backend.next \in 1..(MaxTasks + 1)
      /\ Reported(backend.contexts, backend.next, popped) /\ popped \in Seq(Reports)
      /\ Truthful(copied, popped) /\ copied \subseteq TaskIds /\ backend.completion = None
  BY CallBegins
<1>2. PICK env \in Publishing :
        \/ backend' = [Started EXCEPT !.state = "stopped"] /\ copied' = {} /\ popped' = <<>>
        \/ backend' = ProgressStopRequest(backend, env) /\ UNCHANGED <<copied, popped>>
  BY DEF Wait
<1>3. CASE backend' = [Started EXCEPT !.state = "stopped"] /\ copied' = {} /\ popped' = <<>>
  BY <1>3, EmptiedSound DEF GivenNothing
<1>4. CASE backend' = ProgressStopRequest(backend, env) /\ UNCHANGED <<copied, popped>>
  <2>1. copied' = copied /\ popped' = popped  BY <1>4
  <2>2. /\ Books(backend', copied) /\ Keeps(backend', backend) /\ Settled(backend')
        /\ SameDevice(backend', backend) /\ backend'.state = backend.state
    BY <1>1, <1>4, StopRequestSound
  <2>3. Reported(backend'.contexts, backend'.next, popped)  BY <1>1, <2>2, KeptReports
  <2>4. backend.state = "draining"  BY DEF Wait
  <2>5. backend'.completion = None /\ (backend.stop_requested => Len(backend'.queue) <= Len(backend.queue))
    BY <1>1, <2>2 DEF Keeps
  <2> QED  BY <2>1, <2>2, <2>3, <2>4, <2>5, <1>1 DEF BackendSound, Books, Rested, GivenNothing
<1> QED  BY <1>2, <1>3, <1>4

\* Every step keeps the invariant, and gives nothing to a kernel that was told to stop.
LEMMA StepSound ==
  ASSUME BackendSound, Next
  PROVE  BackendSound' /\ GivenNothing
<1>1. CASE Start  BY <1>1, StartSound
<1>2. CASE DeviceComplete  BY <1>2, DeviceCompleteSound
<1>3. CASE TrySubmit(Publishing)  BY <1>3, TrySubmitSound
<1>4. CASE FlushSubmissions(Publishing)  BY <1>4, FlushSubmissionsSound
<1>5. CASE TryPopCompletion(Environment)  BY <1>5, TryPopCompletionSound
<1>6. CASE RequestStop(Publishing)  BY <1>6, RequestStopSound
<1>7. CASE Wait(Publishing)  BY <1>7, WaitSound
<1>8. CASE Destroy  BY <1>8, DestroySound
<1> QED  BY <1>1, <1>2, <1>3, <1>4, <1>5, <1>6, <1>7, <1>8 DEF Next

\* The invariant holds in every reachable state, for every queue capacity, host batch
\* and number of tasks: whatever the driver and the queue answer, the contexts, the
\* lists and the counters of PersistentCudaCopyHost describe the same tasks.
THEOREM BackendInvariant == Spec => []BackendSound
<1>1. Init => BackendSound  BY InitSound
<1>2. BackendSound /\ [Next]_vars => BackendSound'
  <2> SUFFICES ASSUME BackendSound, [Next]_vars PROVE BackendSound'  OBVIOUS
  <2>1. CASE Next  BY <2>1, StepSound
  <2>2. CASE UNCHANGED vars
    <3>1. backend' = backend /\ copied' = copied /\ popped' = popped  BY <2>2 DEF vars
    <3> QED  BY <3>1 DEF BackendSound
  <2> QED  BY <2>1, <2>2
<1> QED  BY <1>1, <1>2, PTL DEF Spec

-----------------------------------------------------------------------------
(* The properties.                                                          *)

\* PoppedAt, in the terms of the invariant.
LEMMA PopsCounted ==
  ASSUME BackendSound
  PROVE  /\ DOMAIN popped = 1..Len(popped)
         /\ \A task : PoppedAt(task) = At(popped, task)
<1>1. popped \in Seq(Reports)  BY DEF BackendSound
<1>2. DOMAIN popped = 1..Len(popped)  BY <1>1
<1> QED  BY <1>2 DEF PoppedAt, At

\* The invariant says which completions were handed over.
LEMMA SoundExactlyOnce == BackendSound => ExactlyOnce
<1> SUFFICES ASSUME BackendSound PROVE ExactlyOnce  OBVIOUS
<1>1. DOMAIN popped = 1..Len(popped) /\ \A task : PoppedAt(task) = At(popped, task)
  BY PopsCounted
<1>2. Reported(backend.contexts, backend.next, popped) /\ Truthful(copied, popped)
  BY DEF BackendSound
<1>3. ASSUME NEW task \in Accepted
      PROVE  \/ Cardinality(PoppedAt(task)) = 1 /\ backend.contexts[SlotOf(task)].task # task
             \/ PoppedAt(task) = {} /\ backend.contexts[SlotOf(task)].task = task
  BY <1>1, <1>2 DEF Reported, Accepted
<1>4. \A i \in DOMAIN popped : popped[i].result = "success" => popped[i].task \in copied
  BY <1>1, <1>2 DEF Truthful
<1> QED  BY <1>3, <1>4 DEF ExactlyOnce

\* A list and the contexts in its state hold the same tasks.
LEMMA ListedTasks ==
  ASSUME NEW contexts \in ContextArrays, NEW next \in Nat, NEW seq \in TaskSeqs,
         NEW state \in ContextStates \ {"free"}, Issued(contexts, next),
         Lists(contexts, seq, state)
  PROVE  {contexts[s].task : s \in SlotsIn(contexts, state)} = Elements(seq)
<1>1. DOMAIN seq = 1..Len(seq)  BY DEF TaskSeqs
<1>2. \A i \in 1..Len(seq) : SlotOf(seq[i]) \in SlotsIn(contexts, state)
                             /\ contexts[SlotOf(seq[i])].task = seq[i]
  BY TaskSeqFacts DEF Lists, AllOwn, Owns, SlotsIn
<1>3. \A s \in SlotsIn(contexts, state) : \E i \in 1..Len(seq) : seq[i] = contexts[s].task
  BY DEF Lists, Covers, SlotsIn
<1>4. ASSUME NEW s \in SlotsIn(contexts, state)  PROVE contexts[s].task \in Elements(seq)
  BY <1>1, <1>3 DEF Elements
<1>5. ASSUME NEW i \in 1..Len(seq)
      PROVE  \E s \in SlotsIn(contexts, state) : seq[i] = contexts[s].task
  BY <1>2
<1>6. \A x : x \in Elements(seq) <=> \E i \in 1..Len(seq) : x = seq[i]  BY <1>1 DEF Elements
<1> QED  BY <1>4, <1>5, <1>6

\* The lists fit their arrays.
LEMMA SoundTypes == BackendSound => TypeOK
<1> SUFFICES ASSUME BackendSound PROVE TypeOK  OBVIOUS
<1>0. /\ backend \in Backends /\ copied \subseteq TaskIds
      /\ Ledger(backend) /\ Delivery(backend, copied)
  BY DEF BackendSound
<1>1. /\ backend.contexts \in ContextArrays /\ backend.next \in Nat /\ backend.outstanding \in Nat
      /\ backend.pending \in TaskSeqs /\ backend.local \in TaskSeqs /\ backend.queue \in TaskSeqs
      /\ backend.done \in Nat /\ backend.visible \subseteq TaskIds
      /\ backend.stop_requested \in BOOLEAN /\ backend.blocked \in BOOLEAN
      /\ backend.flushed \in BOOLEAN /\ backend.state \in States
  BY <1>0, MemberTypes
<1>2. backend.failure \in Failures  BY <1>0 DEF Backends
<1>3. /\ backend.next \in 1..(MaxTasks + 1) /\ Len(backend.pending) <= HostBatch
      /\ Len(backend.queue) <= Capacity /\ Lists(backend.contexts, backend.local, "local_error")
      /\ backend.outstanding + Cardinality(FreeSlots(backend.contexts)) = Capacity
      /\ backend.done <= Len(backend.queue)
  BY <1>0 DEF Ledger, Delivery
<1>4. Len(backend.local) <= Capacity  BY <1>1, <1>3, OwnersFit DEF Lists
<1>5. backend.done \in 0..Len(backend.queue)
  <2>1. Len(backend.queue) \in Nat  BY <1>1, TaskSeqFacts
  <2> QED  BY <2>1, <1>1, <1>3
<1>6. backend.outstanding \in 0..Capacity
  <2>1. FreeSlots(backend.contexts) \subseteq Slots  BY DEF FreeSlots
  <2>2. IsFiniteSet(FreeSlots(backend.contexts))  BY <2>1, SlotsFinite, FS_Subset
  <2>3. Cardinality(FreeSlots(backend.contexts)) \in Nat  BY <2>2, FS_CardinalityType
  <2> QED  BY <2>3, <1>1, <1>3, Sizes
<1>7. backend.contexts \in [Slots -> [state : {"free", "pending", "submitted", "local_error"},
                                      task : 0..MaxTasks, result : {"success", "backend_error"}]]
  BY <1>1 DEF ContextArrays, ContextSlots, ContextStates, TaskNumbers, Results
<1>8. /\ backend.pending \in Seq(TaskIds) /\ backend.local \in Seq(TaskIds)
      /\ backend.queue \in Seq(TaskIds)
  BY <1>1 DEF TaskSeqs
<1>9. /\ backend.state \in {"stopped", "accepting", "draining"}
      /\ backend.failure \in {"none", "visibility", "queue"}
  BY <1>1, <1>2 DEF States, Failures
<1> QED  BY <1>0, <1>1, <1>3, <1>4, <1>5, <1>6, <1>7, <1>8, <1>9 DEF TypeOK

\* The invariant is about the same contexts, lists and counters.
LEMMA SoundHost == BackendSound => HostConsistent
<1> SUFFICES ASSUME BackendSound PROVE HostConsistent  OBVIOUS
<1> DEFINE m == backend.contexts
<1>0. backend \in Backends /\ Ledger(backend)  BY DEF BackendSound
<1>1. /\ m \in ContextArrays /\ backend.next \in Nat /\ backend.outstanding \in Nat
      /\ backend.pending \in TaskSeqs /\ backend.local \in TaskSeqs /\ backend.queue \in TaskSeqs
  BY <1>0, MemberTypes
<1>2. /\ Issued(m, backend.next)
      /\ Lists(m, backend.pending, "pending") /\ Lists(m, backend.local, "local_error")
      /\ Covers(m, backend.queue, "submitted")
      /\ backend.outstanding + Cardinality(FreeSlots(m)) = Capacity
  BY <1>0 DEF Ledger
<1>3. /\ "pending" \in ContextStates \ {"free"} /\ "local_error" \in ContextStates \ {"free"}
  BY DEF ContextStates
<1>4. \A state : InState(state) = SlotsIn(m, state)  BY DEF InState, SlotsIn
<1>5. InState("free") = FreeSlots(m)  BY DEF InState, FreeSlots
<1>6. \A slots : TasksOf(slots) = {m[s].task : s \in slots}  BY DEF TasksOf
<1> HIDE DEF m
<1>7. TypeOK  BY SoundTypes
<1>8. backend.outstanding = Capacity - Cardinality(InState("free"))
  <2>1. FreeSlots(m) \subseteq Slots  BY DEF FreeSlots
  <2>2. Cardinality(FreeSlots(m)) \in Nat
    BY <2>1, SlotsFinite, FS_Subset, FS_CardinalityType
  <2> QED  BY <2>2, <1>1, <1>2, <1>5, Sizes
<1>9. TasksOf(InState("pending")) = Elements(backend.pending)
  BY <1>1, <1>2, <1>3, <1>4, <1>6, ListedTasks
<1>10. TasksOf(InState("local_error")) = Elements(backend.local)
  BY <1>1, <1>2, <1>3, <1>4, <1>6, ListedTasks
<1>11. /\ Cardinality(InState("pending")) = Len(backend.pending)
       /\ Cardinality(InState("local_error")) = Len(backend.local)
  BY <1>1, <1>2, <1>3, <1>4, ListCounts
<1>12. TasksOf(InState("submitted")) \subseteq Elements(backend.queue)
  <2>1. DOMAIN backend.queue = 1..Len(backend.queue)  BY <1>1 DEF TaskSeqs
  <2> QED  BY <2>1, <1>2, <1>4, <1>6 DEF Covers, SlotsIn, Elements
<1> QED  BY <1>7, <1>8, <1>9, <1>10, <1>11, <1>12 DEF HostConsistent

\* What the kernel was given or has copied was flushed.
LEMMA SoundFlush == BackendSound => FlushBeforePublish
<1> SUFFICES ASSUME BackendSound PROVE FlushBeforePublish  OBVIOUS
<1>1. backend.queue \in TaskSeqs /\ Delivery(backend, copied)
  BY MemberTypes DEF BackendSound
<1>2. DOMAIN backend.queue = 1..Len(backend.queue)  BY <1>1 DEF TaskSeqs
<1> QED  BY <1>1, <1>2 DEF FlushBeforePublish, Delivery, Elements

\* When nothing is outstanding every context is free, so every accepted task was
\* reported.
LEMMA AllReported ==
  ASSUME BackendSound, backend.outstanding = 0, NEW task \in Accepted
  PROVE  PoppedAt(task) # {}
<1> DEFINE m == backend.contexts
<1>1. /\ backend \in Backends /\ Ledger(backend) /\ Reported(m, backend.next, popped)
  BY DEF BackendSound
<1>2. /\ Issued(m, backend.next) /\ backend.outstanding + Cardinality(FreeSlots(m)) = Capacity
      /\ backend.next \in 1..(MaxTasks + 1)
  BY <1>1 DEF Ledger
<1>3. FreeSlots(m) = Slots
  <2>1. FreeSlots(m) \subseteq Slots  BY DEF FreeSlots
  <2>2. IsFiniteSet(FreeSlots(m)) /\ Cardinality(FreeSlots(m)) \in Nat
    BY <2>1, SlotsFinite, FS_Subset, FS_CardinalityType
  <2>3. Cardinality(FreeSlots(m)) = Cardinality(Slots)  BY <2>2, <1>2, SlotsFinite, Sizes
  <2> QED  BY <2>1, <2>3, SlotsFinite, FS_Subset
<1>4. task \in 1..(backend.next - 1) /\ task \in Nat /\ task # 0
  BY <1>2, Sizes DEF Accepted
<1>5. SlotOf(task) \in Slots  BY <1>4, SlotInRange
<1>6. m[SlotOf(task)].task = 0  BY <1>2, <1>3, <1>5 DEF Issued, FreeSlots, Free
<1>7. Cardinality(At(popped, task)) = 1  BY <1>1, <1>4, <1>6 DEF Reported
<1>8. At(popped, task) # {}  BY <1>7, FS_EmptySet
<1> QED  BY <1>8, PopsCounted

\* Every accepted task is reported exactly once or still owns its context, and as
\* successful only if the kernel copied it, although fail_pending and fail_all report
\* tasks that the kernel may complete later.
THEOREM BackendExactlyOnce == Spec => []ExactlyOnce
BY BackendInvariant, SoundExactlyOnce, PTL

\* The contexts, the pending batch, the local completions and the counters agree, and
\* never outgrow their arrays; so the EPROTO checks on pending and local completions do
\* not fire.
THEOREM BackendHostConsistent == Spec => []HostConsistent
BY BackendInvariant, SoundHost, PTL

\* Nothing is given to the kernel before the visibility flush that covers it.
THEOREM BackendFlushesFirst == Spec => []FlushBeforePublish
BY BackendInvariant, SoundFlush, PTL

\* A kernel that was told to stop is given nothing more, and wait stops the backend
\* only when every accepted task has been reported.
THEOREM BackendStopLosesNothing == Spec => StopLosesNothing
<1> DEFINE A == /\ backend.stop_requested /\ backend'.stop_requested =>
                     Len(backend'.queue) <= Len(backend.queue) /\ backend'.pending = <<>>
                /\ Wait(Publishing) /\ backend'.state = "stopped" =>
                     \A task \in Accepted : PoppedAt(task) # {}
<1>1. ASSUME BackendSound, BackendSound', Next  PROVE A
  <2>1. GivenNothing  BY <1>1, StepSound
  <2>2. backend'.stop_requested => backend'.pending = <<>>
    BY <1>1 DEF BackendSound, Ledger
  <2>3. ASSUME Wait(Publishing), backend'.state = "stopped"
        PROVE  \A task \in Accepted : PoppedAt(task) # {}
    <3>1. backend.state = "draining"  BY <2>3 DEF Wait
    <3>2. Books(backend, copied)  BY <1>1, CallBegins
    <3>3. PICK env \in Publishing :
            LET w == ProgressStopRequest(backend, env)
            IN  w.outstanding = 0 \/ backend' = w
      BY <2>3 DEF Wait
    <3> DEFINE w == ProgressStopRequest(backend, env)
    <3>4. w.state = backend.state /\ w.outstanding = backend.outstanding
      BY <3>2, StopRequestSound DEF SameBook
    <3>5. w.outstanding = 0 \/ backend' = w  BY <3>3
    <3> HIDE DEF w
    <3>6. "draining" # "stopped"  OBVIOUS
    <3>7. backend.outstanding = 0  BY <3>1, <3>4, <3>5, <3>6, <2>3
    <3> QED  BY <3>7, <1>1, AllReported
  <2> QED  BY <2>1, <2>2, <2>3 DEF GivenNothing
<1>2. BackendSound /\ BackendSound' /\ [Next]_vars => [A]_vars
  BY <1>1
<1> QED  BY <1>2, BackendInvariant, PTL DEF Spec, StopLosesNothing
=============================================================================
