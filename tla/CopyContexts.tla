----------------------------- MODULE CopyContexts -----------------------------
(*****************************************************************************)
(* Lemmas about the task contexts of PersistentCudaCopyHost and the sequences *)
(* that list them (pending_tasks_, local_completion_task_ids_ and the queue): *)
(* what taking a context, marking some of them, releasing one and failing all *)
(* in a state do to each list and to the number of free contexts.            *)
(*****************************************************************************)
EXTENDS PersistentCudaCopyBackend, FiniteSetTheorems, TLAPS

\* The members of the backend, with their declared types.
States == {"stopped", "accepting", "draining"}
Failures == {"none", "visibility", "queue"}
Statuses == {"ok", "EIO", "EPROTO", "EINVAL"}
ContextStates == {"free", "pending", "submitted", "local_error"}
TaskNumbers == 0..MaxTasks
Results == {"success", "backend_error"}
ContextSlots == [state : ContextStates, task : TaskNumbers, result : Results]
ContextArrays == [Slots -> ContextSlots]
TaskSeqs == Seq(TaskIds)
TaskSets == SUBSET TaskIds
Counts == Nat
Reports == [task : TaskIds, result : Results]
Completions == {None} \cup Reports
Backends ==
  [state : States, stop_requested : BOOLEAN, contexts : ContextArrays, pending : TaskSeqs,
   outstanding : Counts, next : Counts, local : TaskSeqs, blocked : BOOLEAN,
   flushed : BOOLEAN, failure : Failures, queue : TaskSeqs, done : Counts,
   status : Statuses, completion : Completions, visible : TaskSets]

\* A task holds the context of its slot, in the given state.
Owns(contexts, task, state) ==
  contexts[SlotOf(task)].state = state /\ contexts[SlotOf(task)].task = task

\* Every task of the sequence does.
AllOwn(contexts, seq, state) == \A i \in 1..Len(seq) : Owns(contexts, seq[i], state)

\* No task occurs twice.
Distinct(seq) == \A i, j \in 1..Len(seq) : seq[i] = seq[j] => i = j

\* Every context in the given state belongs to a task of the sequence.
Covers(contexts, seq, state) ==
  \A s \in Slots : contexts[s].state = state =>
                     \E i \in 1..Len(seq) : seq[i] = contexts[s].task

\* The sequence lists the tasks of the contexts in the given state, once each.
Lists(contexts, seq, state) ==
  AllOwn(contexts, seq, state) /\ Distinct(seq) /\ Covers(contexts, seq, state)

\* A released context is reset; the others belong to a task accepted earlier, whose
\* slot they are.
Issued(contexts, next) ==
  \A s \in Slots :
    IF contexts[s].state = "free" THEN contexts[s] = Free
    ELSE contexts[s].task \in 1..(next - 1) /\ SlotOf(contexts[s].task) = s

\* A task that was failed locally is reported as an error.
ErrorsReported(contexts) ==
  \A s \in Slots : contexts[s].state = "local_error" => contexts[s].result = "backend_error"

\* The contexts that can be taken.
FreeSlots(contexts) == {s \in Slots : contexts[s].state = "free"}

\* Every task of the sequence was accepted.
Below(seq, next) == \A i \in 1..Len(seq) : seq[i] < next

\* The sequences have no task in common.
Apart(one, other) == \A i \in 1..Len(one), j \in 1..Len(other) : one[i] # other[j]

\* The constants, as the steps below use them.
LEMMA Sizes ==
  /\ Capacity \in Nat \ {0} /\ HostBatch \in Nat \ {0} /\ MaxTasks \in Nat
  /\ HostBatch <= Capacity
BY BackendAssumption

\* A task has a slot.
LEMMA SlotInRange ==
  ASSUME NEW task \in Nat
  PROVE  SlotOf(task) \in Slots
BY Sizes DEF SlotOf, Slots

-----------------------------------------------------------------------------
(* Marking the contexts of a list of tasks.                                 *)

\* The contexts of the given tasks, and no others, are in the given state.
MarkedAs(m, contexts, tasks, state, result) ==
  /\ m \in ContextArrays
  /\ \A s \in Slots :
       /\ m[s].task = contexts[s].task
       /\ (\E i \in DOMAIN tasks : SlotOf(tasks[i]) = s) => m[s].state = state /\ m[s].result = result
       /\ ~(\E i \in DOMAIN tasks : SlotOf(tasks[i]) = s) => m[s] = contexts[s]

\* That is what marking does.
LEMMA MarkedContexts ==
  ASSUME NEW contexts \in ContextArrays, NEW tasks, NEW state \in ContextStates,
         NEW result \in Results
  PROVE  MarkedAs(Marked(contexts, tasks, state, result), contexts, tasks, state, result)
<1> DEFINE m == Marked(contexts, tasks, state, result)
           P(s) == \E i \in DOMAIN tasks : SlotOf(tasks[i]) = s
<1> HIDE DEF P, m
<1>1. m = [s \in Slots |-> IF P(s) THEN [contexts[s] EXCEPT !.state = state, !.result = result]
                           ELSE contexts[s]]
  BY DEF Marked, P, m
<1>2. ASSUME NEW s \in Slots
      PROVE  /\ m[s] \in ContextSlots /\ m[s].task = contexts[s].task
             /\ P(s) => m[s].state = state /\ m[s].result = result
             /\ ~P(s) => m[s] = contexts[s]
  <2>1. contexts[s] \in ContextSlots  BY DEF ContextArrays
  <2>2. m[s] = IF P(s) THEN [contexts[s] EXCEPT !.state = state, !.result = result]
               ELSE contexts[s]
    BY <1>1
  <2> QED  BY <2>1, <2>2 DEF ContextSlots
<1>3. m \in ContextArrays  BY <1>1, <1>2 DEF ContextArrays
<1> QED  BY <1>2, <1>3 DEF P, m, MarkedAs

\* The contexts that a list of owners marks are the ones whose task it lists.
LEMMA MarkedSlots ==
  ASSUME NEW contexts \in ContextArrays, NEW next \in Nat, NEW seq \in Seq(TaskIds),
         NEW state \in ContextStates \ {"free"}, Issued(contexts, next),
         AllOwn(contexts, seq, state), NEW s \in Slots
  PROVE  (\E i \in DOMAIN seq : SlotOf(seq[i]) = s) <=>
           /\ contexts[s].state = state
           /\ \E i \in 1..Len(seq) : seq[i] = contexts[s].task
<1>1. DOMAIN seq = 1..Len(seq)  OBVIOUS
<1>2. ASSUME NEW i \in 1..Len(seq), SlotOf(seq[i]) = s
      PROVE  contexts[s].state = state /\ seq[i] = contexts[s].task
  BY <1>2 DEF AllOwn, Owns
<1>3. ASSUME contexts[s].state = state, NEW i \in 1..Len(seq), seq[i] = contexts[s].task
      PROVE  SlotOf(seq[i]) = s
  BY <1>3 DEF Issued
<1> QED  BY <1>1, <1>2, <1>3

-----------------------------------------------------------------------------
(* Sequences of tasks.                                                      *)

\* A sequence of tasks, element by element.
LEMMA TaskSeqFacts ==
  ASSUME NEW seq \in TaskSeqs
  PROVE  Len(seq) \in Nat /\ \A i \in 1..Len(seq) : seq[i] \in TaskIds /\ SlotOf(seq[i]) \in Slots
<1>1. Len(seq) \in Nat /\ \A i \in 1..Len(seq) : seq[i] \in TaskIds  BY DEF TaskSeqs
<1>2. \A task \in TaskIds : task \in Nat  BY DEF TaskIds
<1> QED  BY <1>1, <1>2, SlotInRange

\* The first count tasks of a batch, and the others.
Split(pending, count, sent, rest) ==
  /\ sent \in TaskSeqs /\ Len(sent) = count /\ \A i \in 1..count : sent[i] = pending[i]
  /\ rest \in TaskSeqs /\ Len(rest) = Len(pending) - count
  /\ \A i \in 1..(Len(pending) - count) :
       count + i \in 1..Len(pending) /\ rest[i] = pending[count + i]

\* What publish_pending submits and what it keeps are the two parts of the batch.
LEMMA SubSeqSplit ==
  ASSUME NEW pending \in TaskSeqs, NEW count \in 1..Len(pending)
  PROVE  Split(pending, count, SubSeq(pending, 1, count), SubSeq(pending, count + 1, Len(pending)))
BY DEF Split, TaskSeqs

\* One sequence after another.
Joined(q, one, other) ==
  /\ q \in TaskSeqs /\ Len(q) = Len(one) + Len(other)
  /\ \A i \in 1..Len(one) : i \in 1..Len(q) /\ q[i] = one[i]
  /\ \A i \in 1..Len(other) : Len(one) + i \in 1..Len(q) /\ q[Len(one) + i] = other[i]
  /\ \A i \in 1..Len(q) : i \notin 1..Len(one) =>
       /\ i - Len(one) \in 1..Len(other) /\ q[i] = other[i - Len(one)]
       /\ i = Len(one) + (i - Len(one))

\* Concatenation puts one sequence after the other.
LEMMA ConcatJoins ==
  ASSUME NEW one \in TaskSeqs, NEW other \in TaskSeqs
  PROVE  Joined(one \o other, one, other)
BY DEF Joined, TaskSeqs

\* Append adds one task at the end.
LEMMA AppendJoins ==
  ASSUME NEW one \in TaskSeqs, NEW task \in TaskIds
  PROVE  /\ Append(one, task) \in TaskSeqs /\ Len(Append(one, task)) = Len(one) + 1
         /\ \A i \in 1..Len(one) : Append(one, task)[i] = one[i]
         /\ Append(one, task)[Len(one) + 1] = task
BY DEF TaskSeqs

\* The tail of a sequence of tasks.
LEMMA TailKeeps ==
  ASSUME NEW seq \in TaskSeqs, seq # <<>>
  PROVE  /\ Tail(seq) \in TaskSeqs /\ Len(Tail(seq)) = Len(seq) - 1 /\ Len(seq) \in Nat \ {0}
         /\ Head(seq) = seq[1] /\ Head(seq) \in TaskIds
         /\ \A i \in 1..(Len(seq) - 1) : i + 1 \in 1..Len(seq) /\ i + 1 # 1 /\ Tail(seq)[i] = seq[i + 1]
         /\ \A i \in 1..Len(seq) : i # 1 => i - 1 \in 1..(Len(seq) - 1) /\ (i - 1) + 1 = i
BY DEF TaskSeqs

\* Taking the first task off a sequence keeps it in order.
LEMMA TailOrder ==
  ASSUME NEW seq \in TaskSeqs, seq # <<>>, NEW other, NEW next,
         Distinct(seq), Below(seq, next), Apart(seq, other)
  PROVE  Distinct(Tail(seq)) /\ Below(Tail(seq), next) /\ Apart(Tail(seq), other)
<1> DEFINE t == Tail(seq)
           n == Len(seq)
<1>1. /\ Len(t) = n - 1 /\ n \in Nat
      /\ \A i \in 1..(n - 1) : i + 1 \in 1..n /\ t[i] = seq[i + 1]
  BY TailKeeps
<1> HIDE DEF t
<1>2. Distinct(t)
  <2> SUFFICES ASSUME NEW i \in 1..(n - 1), NEW j \in 1..(n - 1), t[i] = t[j]  PROVE  i = j
    BY <1>1 DEF Distinct
  <2>1. i + 1 = j + 1  BY <1>1 DEF Distinct
  <2> QED  BY <2>1, <1>1
<1>3. Below(t, next)  BY <1>1 DEF Below
<1>4. Apart(t, other)  BY <1>1 DEF Apart
<1> QED  BY <1>2, <1>3, <1>4 DEF t

-----------------------------------------------------------------------------
(* Submitting a part of a batch.                                            *)

\* Publishing the first tasks of the batch: their contexts become submitted, and
\* the batch and the queue list what they should.
LEMMA SentContexts ==
  ASSUME NEW contexts \in ContextArrays, NEW next \in Nat, NEW pending \in TaskSeqs,
         NEW queue \in TaskSeqs, NEW local \in TaskSeqs,
         Issued(contexts, next), ErrorsReported(contexts),
         Lists(contexts, pending, "pending"), Lists(contexts, local, "local_error"),
         Covers(contexts, queue, "submitted"), AllOwn(contexts, queue, "submitted"),
         Distinct(queue), Apart(queue, pending), Below(queue, next),
         NEW count \in 1..Len(pending), NEW sent, NEW rest, Split(pending, count, sent, rest),
         NEW q, Joined(q, queue, sent),
         NEW m, m = Marked(contexts, sent, "submitted", "success")
  PROVE  /\ m \in ContextArrays /\ Issued(m, next) /\ ErrorsReported(m)
         /\ Lists(m, rest, "pending") /\ Lists(m, local, "local_error")
         /\ Covers(m, q, "submitted") /\ AllOwn(m, q, "submitted")
         /\ Distinct(q) /\ Apart(q, rest) /\ Below(q, next)
         /\ FreeSlots(m) = FreeSlots(contexts)
         /\ \A s \in Slots : m[s].task = contexts[s].task
<1> DEFINE n == Len(queue)
<1>1. /\ Len(sent) = count /\ \A i \in 1..count : sent[i] = pending[i]
      /\ Len(rest) = Len(pending) - count
      /\ \A i \in 1..Len(rest) : count + i \in 1..Len(pending) /\ rest[i] = pending[count + i]
  BY DEF Split
<1>2. /\ Len(q) = n + count
      /\ \A i \in 1..n : i \in 1..Len(q) /\ q[i] = queue[i]
      /\ \A i \in 1..count : n + i \in 1..Len(q) /\ q[n + i] = pending[i]
      /\ \A i \in 1..Len(q) : i \notin 1..n =>
           /\ i - n \in 1..count /\ i - n \in 1..Len(pending) /\ q[i] = pending[i - n]
           /\ i = n + (i - n)
  <2>1. Len(pending) \in Nat  BY TaskSeqFacts
  <2> QED  BY <2>1, <1>1 DEF Joined
<1>3. n \in Nat /\ Len(pending) \in Nat /\ count \in Nat  BY TaskSeqFacts
<1> HIDE DEF n
<1> DEFINE Hit(s) == contexts[s].state = "pending"
                     /\ \E i \in 1..count : pending[i] = contexts[s].task
<1>4. /\ m \in ContextArrays
      /\ \A s \in Slots : /\ m[s].task = contexts[s].task
                          /\ Hit(s) => m[s].state = "submitted" /\ m[s].result = "success"
                          /\ ~Hit(s) => m[s] = contexts[s]
  <2>1. "pending" \in ContextStates \ {"free"} /\ "submitted" \in ContextStates
        /\ "success" \in Results
    BY DEF ContextStates, Results
  <2>2. AllOwn(contexts, sent, "pending") /\ sent \in Seq(TaskIds)
    BY <1>1, <1>3 DEF Lists, AllOwn, Split, TaskSeqs
  <2>3. ASSUME NEW s \in Slots
        PROVE  (\E i \in DOMAIN sent : SlotOf(sent[i]) = s) <=>
                  /\ contexts[s].state = "pending"
                  /\ \E i \in 1..Len(sent) : sent[i] = contexts[s].task
    BY <2>1, <2>2, MarkedSlots
  <2>4. ASSUME NEW s \in Slots
        PROVE  (\E i \in DOMAIN sent : SlotOf(sent[i]) = s) <=> Hit(s)
    BY <2>3, <1>1
  <2>5. MarkedAs(m, contexts, sent, "submitted", "success")  BY <2>1, MarkedContexts
  <2> QED  BY <2>4, <2>5 DEF MarkedAs
<1>5. \A i \in 1..Len(pending) : /\ SlotOf(pending[i]) \in Slots
                                 /\ contexts[SlotOf(pending[i])].state = "pending"
                                 /\ contexts[SlotOf(pending[i])].task = pending[i]
  BY TaskSeqFacts DEF Lists, AllOwn, Owns
<1>6. \A i, j \in 1..Len(pending) : pending[i] = pending[j] => i = j
  BY DEF Lists, Distinct
<1>7. Issued(m, next)  BY <1>4 DEF Issued
<1>8. ErrorsReported(m)  BY <1>4 DEF ErrorsReported
<1>9. FreeSlots(m) = FreeSlots(contexts)  BY <1>4 DEF FreeSlots
<1>10. Lists(m, rest, "pending")
  <2>1. AllOwn(m, rest, "pending")
    <3> SUFFICES ASSUME NEW i \in 1..Len(rest)
                 PROVE  m[SlotOf(rest[i])].state = "pending" /\ m[SlotOf(rest[i])].task = rest[i]
      BY DEF AllOwn, Owns
    <3> DEFINE k == count + i
    <3>1. k \in 1..Len(pending) /\ rest[i] = pending[k] /\ k \notin 1..count  BY <1>1, <1>3
    <3> HIDE DEF k
    <3>2. ~Hit(SlotOf(rest[i]))  BY <3>1, <1>3, <1>5, <1>6
    <3> QED  BY <3>1, <3>2, <1>4, <1>5
  <2>2. Distinct(rest)
    <3> SUFFICES ASSUME NEW i \in 1..Len(rest), NEW j \in 1..Len(rest), rest[i] = rest[j]
                 PROVE  i = j
      BY DEF Distinct
    <3>1. count + i \in 1..Len(pending) /\ rest[i] = pending[count + i]  BY <1>1
    <3>2. count + j \in 1..Len(pending) /\ rest[j] = pending[count + j]  BY <1>1
    <3>3. count + i = count + j  BY <3>1, <3>2, <1>6
    <3> QED  BY <3>3, <1>3
  <2>3. Covers(m, rest, "pending")
    <3> SUFFICES ASSUME NEW s \in Slots, m[s].state = "pending"
                 PROVE  \E i \in 1..Len(rest) : rest[i] = m[s].task
      BY DEF Covers
    <3>1. ~Hit(s) /\ m[s] = contexts[s]  BY <1>4
    <3>2. PICK i \in 1..Len(pending) : pending[i] = contexts[s].task
      BY <3>1 DEF Lists, Covers
    <3>3. i \notin 1..count  BY <3>1, <3>2
    <3>4. i - count \in 1..Len(rest) /\ count + (i - count) = i  BY <3>3, <1>1, <1>3
    <3>5. rest[i - count] = pending[i]  BY <3>4, <1>1
    <3> QED  BY <3>1, <3>2, <3>4, <3>5
  <2> QED  BY <2>1, <2>2, <2>3 DEF Lists
<1>11. Lists(m, local, "local_error")
  <2>1. AllOwn(m, local, "local_error")
    <3> SUFFICES ASSUME NEW i \in 1..Len(local)
                 PROVE  m[SlotOf(local[i])].state = "local_error" /\ m[SlotOf(local[i])].task = local[i]
      BY DEF AllOwn, Owns
    <3>1. /\ SlotOf(local[i]) \in Slots /\ contexts[SlotOf(local[i])].state = "local_error"
          /\ contexts[SlotOf(local[i])].task = local[i]
      BY TaskSeqFacts DEF Lists, AllOwn, Owns
    <3> QED  BY <3>1, <1>4
  <2>2. Covers(m, local, "local_error")  BY <1>4 DEF Lists, Covers
  <2> QED  BY <2>1, <2>2 DEF Lists
<1>12. Covers(m, q, "submitted")
  <2> SUFFICES ASSUME NEW s \in Slots, m[s].state = "submitted"
               PROVE  \E i \in 1..Len(q) : q[i] = m[s].task
    BY DEF Covers
  <2>1. CASE Hit(s)
    <3>1. PICK i \in 1..count : pending[i] = contexts[s].task  BY <2>1
    <3>2. n + i \in 1..Len(q) /\ q[n + i] = pending[i]  BY <1>2
    <3> QED  BY <3>1, <3>2, <1>4
  <2>2. CASE ~Hit(s)
    <3>1. PICK i \in 1..n : queue[i] = contexts[s].task
      BY <2>2, <1>4 DEF Covers, n
    <3> QED  BY <3>1, <1>2, <1>4
  <2> QED  BY <2>1, <2>2
<1>13. AllOwn(m, q, "submitted")
  <2> SUFFICES ASSUME NEW i \in 1..Len(q)
               PROVE  m[SlotOf(q[i])].state = "submitted" /\ m[SlotOf(q[i])].task = q[i]
    BY DEF AllOwn, Owns
  <2>1. CASE i \in 1..n
    <3>1. /\ SlotOf(queue[i]) \in Slots
          /\ contexts[SlotOf(queue[i])].state = "submitted"
          /\ contexts[SlotOf(queue[i])].task = queue[i]
      BY <2>1, TaskSeqFacts DEF AllOwn, Owns, n
    <3>2. q[i] = queue[i]  BY <2>1, <1>2
    <3> QED  BY <3>1, <3>2, <1>4
  <2>2. CASE i \notin 1..n
    <3> DEFINE k == i - n
    <3>1. k \in 1..count /\ k \in 1..Len(pending) /\ q[i] = pending[k]  BY <2>2, <1>2
    <3> HIDE DEF k
    <3>2. Hit(SlotOf(q[i]))  BY <3>1, <1>5
    <3> QED  BY <3>1, <3>2, <1>4, <1>5, SMTT(30)
  <2> QED  BY <2>1, <2>2
<1>14. \A i \in 1..n, j \in 1..Len(pending) : queue[i] # pending[j]
  BY DEF Apart, n
<1>15. Distinct(q)
  <2> SUFFICES ASSUME NEW i \in 1..Len(q), NEW j \in 1..Len(q), q[i] = q[j]
               PROVE  i = j
    BY DEF Distinct
  <2>1. CASE i \in 1..n /\ j \in 1..n  BY <2>1, <1>2 DEF Distinct, n
  <2>2. CASE i \in 1..n /\ j \notin 1..n
    <3>1. j - n \in 1..Len(pending) /\ q[j] = pending[j - n] /\ q[i] = queue[i]  BY <2>2, <1>2
    <3> QED  BY <3>1, <2>2, <1>14
  <2>3. CASE i \notin 1..n /\ j \in 1..n
    <3>1. i - n \in 1..Len(pending) /\ q[i] = pending[i - n] /\ q[j] = queue[j]  BY <2>3, <1>2
    <3> QED  BY <3>1, <2>3, <1>14
  <2>4. CASE i \notin 1..n /\ j \notin 1..n
    <3>1. /\ i - n \in 1..Len(pending) /\ q[i] = pending[i - n] /\ i = n + (i - n)
          /\ j - n \in 1..Len(pending) /\ q[j] = pending[j - n] /\ j = n + (j - n)
      BY <2>4, <1>2
    <3>2. i - n = j - n  BY <3>1, <1>6
    <3> QED  BY <3>1, <3>2
  <2> QED  BY <2>1, <2>2, <2>3, <2>4
<1>16. Apart(q, rest)
  <2> SUFFICES ASSUME NEW i \in 1..Len(q), NEW j \in 1..Len(rest), q[i] = rest[j]
               PROVE  FALSE
    BY DEF Apart
  <2>1. count + j \in 1..Len(pending) /\ rest[j] = pending[count + j]  BY <1>1
  <2>2. CASE i \in 1..n
    <3>1. q[i] = queue[i]  BY <2>2, <1>2
    <3> QED  BY <3>1, <2>1, <2>2, <1>14
  <2>3. CASE i \notin 1..n
    <3>1. i - n \in 1..count /\ i - n \in 1..Len(pending) /\ q[i] = pending[i - n]
      BY <2>3, <1>2
    <3>2. i - n = count + j  BY <3>1, <2>1, <1>6
    <3>3. j >= 1  BY <1>1, <1>3
    <3> QED  BY <3>1, <3>2, <3>3, <1>3, SMTT(30)
  <2> QED  BY <2>2, <2>3
<1>17. Below(q, next)
  <2> SUFFICES ASSUME NEW i \in 1..Len(q)  PROVE  q[i] < next
    BY DEF Below
  <2>1. CASE i \in 1..n  BY <2>1, <1>2 DEF Below, n
  <2>2. CASE i \notin 1..n
    <3> DEFINE k == i - n
    <3>1. k \in 1..Len(pending) /\ q[i] = pending[k]  BY <2>2, <1>2
    <3> HIDE DEF k
    <3>2. pending[k] \in 1..(next - 1)  BY <3>1, <1>5 DEF Issued
    <3> QED  BY <3>1, <3>2
  <2> QED  BY <2>1, <2>2
<1> QED  BY <1>4, <1>7, <1>8, <1>9, <1>10, <1>11, <1>12, <1>13, <1>15, <1>16, <1>17

-----------------------------------------------------------------------------
(* Lists and the contexts in their state.                                   *)

\* The slots are finite, and as many as the capacity.
LEMMA SlotsFinite == IsFiniteSet(Slots) /\ Cardinality(Slots) = Capacity
<1>1. 0 \in Int /\ Capacity - 1 \in Int /\ Capacity >= 1  BY Sizes
<1> QED  BY <1>1, Sizes, FS_Interval DEF Slots

\* The contexts in a given state.
SlotsIn(contexts, state) == {s \in Slots : contexts[s].state = state}

\* Distinct tasks that own their contexts have different slots, so they are not
\* more than the contexts in their state.
LEMMA OwnersFit ==
  ASSUME NEW contexts \in ContextArrays, NEW seq \in TaskSeqs, NEW state,
         AllOwn(contexts, seq, state), Distinct(seq)
  PROVE  /\ Len(seq) <= Cardinality(SlotsIn(contexts, state))
         /\ Len(seq) <= Capacity
<1> DEFINE T == SlotsIn(contexts, state)
           n == Len(seq)
           f == [i \in 1..n |-> SlotOf(seq[i])]
<1>1. T \subseteq Slots  BY DEF SlotsIn
<1>2. IsFiniteSet(T) /\ Cardinality(T) <= Capacity  BY <1>1, SlotsFinite, FS_Subset
<1>3. n \in Nat /\ \A i \in 1..n : SlotOf(seq[i]) \in Slots  BY TaskSeqFacts
<1>4. \A i \in 1..n : /\ SlotOf(seq[i]) \in T
                      /\ contexts[SlotOf(seq[i])].task = seq[i]
  BY <1>3 DEF AllOwn, Owns, SlotsIn
<1>5. \A i, j \in 1..n : seq[i] = seq[j] => i = j  BY DEF Distinct
<1> HIDE DEF T, n
<1>6. f \in Injection(1..n, T)  BY <1>4, <1>5 DEF Injection, IsInjective
<1>7. Cardinality(1..n) <= Cardinality(T)  BY <1>2, <1>6, FS_Injection
<1>8. Cardinality(1..n) = n  BY <1>3, FS_Interval
<1>9. Cardinality(T) \in Nat  BY <1>2, FS_CardinalityType
<1> QED  BY <1>2, <1>3, <1>7, <1>8, <1>9, Sizes DEF T, n

\* A list of the tasks in a state is as long as there are contexts in it.
LEMMA ListCounts ==
  ASSUME NEW contexts \in ContextArrays, NEW next \in Nat, NEW seq \in TaskSeqs,
         NEW state \in ContextStates \ {"free"}, Issued(contexts, next),
         Lists(contexts, seq, state)
  PROVE  Cardinality(SlotsIn(contexts, state)) = Len(seq)
<1> DEFINE T == SlotsIn(contexts, state)
           n == Len(seq)
           f == [i \in 1..n |-> SlotOf(seq[i])]
<1>1. n \in Nat /\ \A i \in 1..n : SlotOf(seq[i]) \in Slots  BY TaskSeqFacts
<1>2. \A i \in 1..n : SlotOf(seq[i]) \in T /\ contexts[SlotOf(seq[i])].task = seq[i]
  BY <1>1 DEF Lists, AllOwn, Owns, SlotsIn
<1>3. \A i, j \in 1..n : seq[i] = seq[j] => i = j  BY DEF Lists, Distinct
<1>4. \A s \in T : \E i \in 1..n : SlotOf(seq[i]) = s
  BY DEF Lists, Covers, SlotsIn, Issued
<1> HIDE DEF T, n
<1>5. f \in Injection(1..n, T)  BY <1>2, <1>3 DEF Injection, IsInjective
<1>6. f \in Surjection(1..n, T)  BY <1>2, <1>4 DEF Surjection
<1>7. IsFiniteSet(1..n) /\ Cardinality(1..n) = n  BY <1>1, FS_Interval
<1>8. Cardinality(T) = Cardinality(1..n)  BY <1>5, <1>6, <1>7, FS_Surjection
<1> QED  BY <1>7, <1>8 DEF T, n

-----------------------------------------------------------------------------
(* Taking a context for a new task.                                         *)

\* The task has taken the context of its slot, which was free.
Takes(m, contexts, task, state) ==
  /\ m \in ContextArrays /\ SlotOf(task) \in Slots
  /\ contexts[SlotOf(task)] = Free
  /\ m[SlotOf(task)].state = state /\ m[SlotOf(task)].task = task
  /\ \A s \in Slots : s # SlotOf(task) => m[s] = contexts[s]

\* The other lists keep their owners, and still cover their states.
LEMMA TakeKeeps ==
  ASSUME NEW contexts \in ContextArrays, NEW m, NEW task \in TaskIds,
         NEW state, Takes(m, contexts, task, state),
         NEW seq \in TaskSeqs, NEW other, other # "free"
  PROVE  /\ AllOwn(contexts, seq, other) => AllOwn(m, seq, other)
         /\ other # state => (Covers(contexts, seq, other) => Covers(m, seq, other))
         /\ other # state => (Lists(contexts, seq, other) => Lists(m, seq, other))
<1>1. ASSUME AllOwn(contexts, seq, other)  PROVE  AllOwn(m, seq, other)
  <2> SUFFICES ASSUME NEW i \in 1..Len(seq)
               PROVE  m[SlotOf(seq[i])].state = other /\ m[SlotOf(seq[i])].task = seq[i]
    BY DEF AllOwn, Owns
  <2>1. /\ SlotOf(seq[i]) \in Slots /\ contexts[SlotOf(seq[i])].state = other
        /\ contexts[SlotOf(seq[i])].task = seq[i]
    BY <1>1, TaskSeqFacts DEF AllOwn, Owns
  <2> QED  BY <2>1 DEF Takes, Free
<1>2. ASSUME other # state, Covers(contexts, seq, other)  PROVE  Covers(m, seq, other)
  BY <1>2 DEF Covers, Takes
<1> QED  BY <1>1, <1>2 DEF Lists

\* The new task joins the list of its state.
LEMMA TakeLists ==
  ASSUME NEW contexts \in ContextArrays, NEW m, NEW task \in TaskIds,
         NEW state, state # "free", Takes(m, contexts, task, state),
         NEW seq \in TaskSeqs, Lists(contexts, seq, state)
  PROVE  Lists(m, Append(seq, task), state)
<1> DEFINE a == Append(seq, task)
           n == Len(seq)
<1>1. /\ Len(a) = n + 1 /\ \A i \in 1..n : a[i] = seq[i]
      /\ a[n + 1] = task /\ n \in Nat
  BY AppendJoins, TaskSeqFacts
<1>2. \A i \in 1..(n + 1) : i \in 1..n \/ i = n + 1  BY <1>1
<1>3. \A i \in 1..n : i \in 1..(n + 1)  BY <1>1
<1>4. n + 1 \in 1..(n + 1)  BY <1>1
<1> HIDE DEF a
<1>5. \A i \in 1..n : m[SlotOf(seq[i])].state = state /\ m[SlotOf(seq[i])].task = seq[i]
  <2>1. AllOwn(m, seq, state)  BY TakeKeeps DEF Lists
  <2> QED  BY <2>1 DEF AllOwn, Owns
<1>6. \A i \in 1..n : seq[i] # task
  <2>1. ASSUME NEW i \in 1..n, seq[i] = task  PROVE  FALSE
    <3>1. contexts[SlotOf(task)].state = state  BY <2>1 DEF Lists, AllOwn, Owns
    <3> QED  BY <3>1 DEF Takes, Free
  <2> QED  BY <2>1
<1>7. \A i, j \in 1..n : seq[i] = seq[j] => i = j  BY DEF Lists, Distinct
<1> HIDE DEF n
<1>8. AllOwn(m, a, state)
  <2> SUFFICES ASSUME NEW i \in 1..(n + 1)
               PROVE  m[SlotOf(a[i])].state = state /\ m[SlotOf(a[i])].task = a[i]
    BY <1>1 DEF AllOwn, Owns
  <2> QED  BY <1>1, <1>2, <1>5 DEF Takes
<1>9. Distinct(a)
  <2> SUFFICES ASSUME NEW i \in 1..(n + 1), NEW j \in 1..(n + 1), a[i] = a[j]  PROVE  i = j
    BY <1>1 DEF Distinct
  <2> QED  BY <1>1, <1>2, <1>6, <1>7
<1>10. Covers(m, a, state)
  <2> SUFFICES ASSUME NEW s \in Slots, m[s].state = state
               PROVE  \E i \in 1..(n + 1) : a[i] = m[s].task
    BY <1>1 DEF Covers
  <2>1. CASE s = SlotOf(task)  BY <2>1, <1>1, <1>4 DEF Takes
  <2>2. CASE s # SlotOf(task)
    <3>1. m[s] = contexts[s]  BY <2>2 DEF Takes
    <3>2. PICK i \in 1..n : seq[i] = contexts[s].task  BY <3>1 DEF Lists, Covers, n
    <3> QED  BY <3>1, <3>2, <1>1, <1>3
  <2> QED  BY <2>1, <2>2
<1> QED  BY <1>8, <1>9, <1>10 DEF Lists, a

\* One context fewer is free.
LEMMA TakeCounts ==
  ASSUME NEW contexts \in ContextArrays, NEW m, NEW task \in TaskIds,
         NEW state, state # "free", Takes(m, contexts, task, state)
  PROVE  /\ Cardinality(FreeSlots(m)) = Cardinality(FreeSlots(contexts)) - 1
         /\ Cardinality(FreeSlots(contexts)) \in 1..Capacity
<1>1. FreeSlots(m) = FreeSlots(contexts) \ {SlotOf(task)}  BY DEF FreeSlots, Takes
<1>2. SlotOf(task) \in FreeSlots(contexts)  BY DEF FreeSlots, Takes, Free
<1>3. FreeSlots(contexts) \subseteq Slots  BY DEF FreeSlots
<1>4. IsFiniteSet(FreeSlots(contexts)) /\ Cardinality(FreeSlots(contexts)) <= Capacity
  BY <1>3, SlotsFinite, FS_Subset
<1>5. Cardinality(FreeSlots(m)) = Cardinality(FreeSlots(contexts)) - 1
  BY <1>1, <1>2, <1>4, FS_RemoveElement
<1>6. Cardinality(FreeSlots(contexts)) \in Nat /\ Cardinality(FreeSlots(contexts)) # 0
  BY <1>2, <1>4, FS_CardinalityType, FS_EmptySet
<1> QED  BY <1>4, <1>5, <1>6, Sizes

\* Writing the entry of the next task takes its context.
Entered(contexts, task, state, result) ==
  [contexts EXCEPT ![SlotOf(task)] = [state |-> state, task |-> task, result |-> result]]

\* The entry that try_submit or try_complete_locally writes takes a free context.
LEMMA EntryTakes ==
  ASSUME NEW contexts \in ContextArrays, NEW task \in TaskIds, contexts[SlotOf(task)] = Free,
         NEW state \in ContextStates, NEW result \in Results
  PROVE  /\ Takes(Entered(contexts, task, state, result), contexts, task, state)
         /\ Entered(contexts, task, state, result)[SlotOf(task)].result = result
<1> DEFINE m == Entered(contexts, task, state, result)
           entry == [state |-> state, task |-> task, result |-> result]
<1>1. SlotOf(task) \in Slots  BY SlotInRange DEF TaskIds
<1>2. entry \in ContextSlots  BY DEF ContextSlots, TaskNumbers, TaskIds
<1>3. entry.state = state /\ entry.task = task /\ entry.result = result  OBVIOUS
<1> HIDE DEF entry
<1>4. m = [contexts EXCEPT ![SlotOf(task)] = entry]  BY DEF entry, Entered
<1> HIDE DEF m
<1>5. Takes(m, contexts, task, state) /\ m[SlotOf(task)].result = result
  BY <1>1, <1>2, <1>3, <1>4 DEF Takes, ContextArrays
<1> QED  BY <1>5 DEF m

\* A task that takes a context was issued.
LEMMA TakeIssues ==
  ASSUME NEW contexts \in ContextArrays, NEW m, NEW task \in TaskIds,
         NEW state, state # "free", Takes(m, contexts, task, state), Issued(contexts, task)
  PROVE  Issued(m, task + 1)
<1> SUFFICES ASSUME NEW s \in Slots
             PROVE  IF m[s].state = "free" THEN m[s] = Free
                    ELSE m[s].task \in 1..((task + 1) - 1) /\ SlotOf(m[s].task) = s
  BY DEF Issued
<1>1. task \in Nat /\ task >= 1  BY DEF TaskIds
<1>2. CASE s = SlotOf(task)
  <2>1. m[s].state = state /\ m[s].task = task  BY <1>2 DEF Takes
  <2>2. task \in 1..((task + 1) - 1)  BY <1>1
  <2> QED  BY <2>1, <2>2, <1>2
<1>3. CASE s # SlotOf(task)
  <2>1. m[s] = contexts[s]  BY <1>3 DEF Takes
  <2>2. IF contexts[s].state = "free" THEN contexts[s] = Free
        ELSE contexts[s].task \in 1..(task - 1) /\ SlotOf(contexts[s].task) = s
    BY DEF Issued
  <2>3. \A t \in 1..(task - 1) : t \in 1..((task + 1) - 1)  BY <1>1
  <2> QED  BY <2>1, <2>2, <2>3
<1> QED  BY <1>2, <1>3

-----------------------------------------------------------------------------
(* Releasing the context of a task that is reported.                        *)

\* The context of the task has been reset; the others are as they were.
Releases(m, contexts, task, state) ==
  /\ m \in ContextArrays /\ SlotOf(task) \in Slots /\ state # "free"
  /\ contexts[SlotOf(task)].state = state /\ contexts[SlotOf(task)].task = task
  /\ m[SlotOf(task)] = Free
  /\ \A s \in Slots : s # SlotOf(task) => m[s] = contexts[s]

\* The lists of the other states are not concerned.
LEMMA ReleaseKeeps ==
  ASSUME NEW contexts \in ContextArrays, NEW m, NEW task \in TaskIds,
         NEW state, Releases(m, contexts, task, state),
         NEW seq \in TaskSeqs, NEW other, other # state, other # "free"
  PROVE  /\ AllOwn(contexts, seq, other) => AllOwn(m, seq, other)
         /\ Covers(contexts, seq, other) => Covers(m, seq, other)
         /\ Lists(contexts, seq, other) => Lists(m, seq, other)
<1>1. ASSUME AllOwn(contexts, seq, other)  PROVE  AllOwn(m, seq, other)
  <2> SUFFICES ASSUME NEW i \in 1..Len(seq)
               PROVE  m[SlotOf(seq[i])].state = other /\ m[SlotOf(seq[i])].task = seq[i]
    BY DEF AllOwn, Owns
  <2>1. /\ SlotOf(seq[i]) \in Slots /\ contexts[SlotOf(seq[i])].state = other
        /\ contexts[SlotOf(seq[i])].task = seq[i]
    BY <1>1, TaskSeqFacts DEF AllOwn, Owns
  <2> QED  BY <2>1 DEF Releases
<1>2. ASSUME Covers(contexts, seq, other)  PROVE  Covers(m, seq, other)
  BY <1>2 DEF Covers, Releases, Free
<1> QED  BY <1>1, <1>2 DEF Lists

\* The task leaves the list of its state.
LEMMA ReleaseTail ==
  ASSUME NEW contexts \in ContextArrays, NEW m, NEW task \in TaskIds, NEW next \in Nat,
         NEW state, Releases(m, contexts, task, state), Issued(contexts, next),
         NEW seq \in TaskSeqs, seq # <<>>, task = Head(seq), Distinct(seq)
  PROVE  /\ Tail(seq) \in TaskSeqs /\ Len(Tail(seq)) = Len(seq) - 1 /\ Distinct(Tail(seq))
         /\ AllOwn(contexts, seq, state) => AllOwn(m, Tail(seq), state)
         /\ Covers(contexts, seq, state) => Covers(m, Tail(seq), state)
<1> DEFINE t == Tail(seq)
           n == Len(seq)
<1>1. /\ t \in TaskSeqs /\ Len(t) = n - 1 /\ n \in Nat \ {0}
      /\ \A i \in 1..(n - 1) : t[i] = seq[i + 1]
      /\ seq[1] = task
  BY DEF TaskSeqs
<1> HIDE DEF t
<1>2. \A i \in 1..(n - 1) : i + 1 \in 1..n /\ i + 1 # 1  BY <1>1
<1>3. \A i \in 1..n : i # 1 => i - 1 \in 1..(n - 1) /\ (i - 1) + 1 = i  BY <1>1
<1>4. \A i, j \in 1..n : seq[i] = seq[j] => i = j  BY DEF Distinct
<1>5. 1 \in 1..n  BY <1>1
<1>6. Distinct(t)
  <2> SUFFICES ASSUME NEW i \in 1..(n - 1), NEW j \in 1..(n - 1), t[i] = t[j]  PROVE  i = j
    BY <1>1 DEF Distinct
  <2>1. i + 1 = j + 1  BY <1>1, <1>2, <1>4
  <2> QED  BY <2>1, <1>1
<1>7. ASSUME AllOwn(contexts, seq, state)  PROVE  AllOwn(m, t, state)
  <2> SUFFICES ASSUME NEW i \in 1..(n - 1)
               PROVE  m[SlotOf(t[i])].state = state /\ m[SlotOf(t[i])].task = t[i]
    BY <1>1 DEF AllOwn, Owns
  <2> DEFINE k == i + 1
  <2>1. t[i] = seq[k] /\ k \in 1..n /\ k # 1  BY <1>1, <1>2
  <2> HIDE DEF k
  <2>2. /\ SlotOf(seq[k]) \in Slots /\ contexts[SlotOf(seq[k])].state = state
        /\ contexts[SlotOf(seq[k])].task = seq[k]
    BY <1>7, <2>1, TaskSeqFacts DEF AllOwn, Owns
  <2>3. seq[k] # task  BY <2>1, <1>1, <1>4, <1>5
  <2> QED  BY <2>1, <2>2, <2>3 DEF Releases
<1>8. ASSUME Covers(contexts, seq, state)  PROVE  Covers(m, t, state)
  <2> SUFFICES ASSUME NEW s \in Slots, m[s].state = state
               PROVE  \E i \in 1..(n - 1) : t[i] = m[s].task
    BY <1>1 DEF Covers
  <2>1. s # SlotOf(task) /\ m[s] = contexts[s]  BY DEF Releases, Free
  <2>2. PICK i \in 1..n : seq[i] = contexts[s].task  BY <1>8, <2>1 DEF Covers
  <2>3. SlotOf(contexts[s].task) = s  BY <2>1 DEF Issued, Releases
  <2>4. i # 1  BY <2>1, <2>2, <2>3, <1>1
  <2>5. t[i - 1] = seq[i] /\ i - 1 \in 1..(n - 1)  BY <2>4, <1>1, <1>3
  <2> QED  BY <2>1, <2>2, <2>5
<1> QED  BY <1>1, <1>6, <1>7, <1>8 DEF t

\* One more context is free.
LEMMA ReleaseCounts ==
  ASSUME NEW contexts \in ContextArrays, NEW m, NEW task \in TaskIds,
         NEW state, Releases(m, contexts, task, state)
  PROVE  /\ Cardinality(FreeSlots(m)) = Cardinality(FreeSlots(contexts)) + 1
         /\ Cardinality(FreeSlots(contexts)) \in Nat
<1>1. FreeSlots(m) = FreeSlots(contexts) \cup {SlotOf(task)}
  BY DEF FreeSlots, Releases, Free
<1>2. SlotOf(task) \notin FreeSlots(contexts)  BY DEF FreeSlots, Releases
<1>3. FreeSlots(contexts) \subseteq Slots  BY DEF FreeSlots
<1>4. IsFiniteSet(FreeSlots(contexts))  BY <1>3, SlotsFinite, FS_Subset
<1>5. Cardinality(FreeSlots(m)) = Cardinality(FreeSlots(contexts)) + 1
  BY <1>1, <1>2, <1>4, FS_AddElement
<1> QED  BY <1>4, <1>5, FS_CardinalityType

\* Resetting the context of a task releases it.
Reset(contexts, task) == [contexts EXCEPT ![SlotOf(task)] = Free]

\* Completing a task releases the context it owns.
LEMMA ResetReleases ==
  ASSUME NEW contexts \in ContextArrays, NEW task \in TaskIds, NEW state, state # "free",
         Owns(contexts, task, state)
  PROVE  Releases(Reset(contexts, task), contexts, task, state)
<1> DEFINE m == Reset(contexts, task)
<1>1. SlotOf(task) \in Slots  BY SlotInRange DEF TaskIds
<1>2. Free \in ContextSlots  BY Sizes DEF Free, ContextSlots, ContextStates, TaskNumbers, Results
<1>3. m = [contexts EXCEPT ![SlotOf(task)] = Free]  BY DEF Reset
<1> HIDE DEF m
<1>4. Releases(m, contexts, task, state)
  BY <1>1, <1>2, <1>3 DEF Releases, ContextArrays, Owns
<1> QED  BY <1>4 DEF m

\* A released context leaves the others issued.
LEMMA ReleaseIssued ==
  ASSUME NEW contexts, NEW m, NEW task, NEW state, NEW next,
         Releases(m, contexts, task, state), Issued(contexts, next), ErrorsReported(contexts)
  PROVE  Issued(m, next) /\ ErrorsReported(m)
<1>1. Issued(m, next)  BY DEF Issued, Releases, Free
<1>2. ErrorsReported(m)  BY DEF ErrorsReported, Releases, Free
<1> QED  BY <1>1, <1>2

-----------------------------------------------------------------------------
(* Failing the tasks of a state locally.                                    *)

\* The tasks in the given state, and no others, have become local errors.
Fails(m, contexts, state) ==
  /\ m \in ContextArrays /\ state \in {"pending", "submitted"}
  /\ \A s \in Slots :
       /\ m[s].task = contexts[s].task
       /\ contexts[s].state = state => m[s].state = "local_error" /\ m[s].result = "backend_error"
       /\ contexts[s].state # state => m[s] = contexts[s]

\* What failing keeps, and that the failed tasks follow the earlier local errors.
LEMMA FailLists ==
  ASSUME NEW contexts \in ContextArrays, NEW m, NEW next \in Nat, NEW state,
         Fails(m, contexts, state), Issued(contexts, next), ErrorsReported(contexts),
         NEW seq \in TaskSeqs, Lists(contexts, seq, state),
         NEW local \in TaskSeqs, Lists(contexts, local, "local_error"),
         NEW q, Joined(q, local, seq)
  PROVE  /\ Issued(m, next) /\ ErrorsReported(m) /\ FreeSlots(m) = FreeSlots(contexts)
         /\ Lists(m, q, "local_error") /\ \A s \in Slots : m[s].state # state
<1> DEFINE n == Len(local)
           k == Len(seq)
<1>1. n \in Nat /\ k \in Nat  BY TaskSeqFacts
<1>2. /\ Len(q) = n + k
      /\ \A i \in 1..n : i \in 1..Len(q) /\ q[i] = local[i]
      /\ \A i \in 1..k : n + i \in 1..Len(q) /\ q[n + i] = seq[i]
      /\ \A i \in 1..Len(q) : i \notin 1..n =>
           i - n \in 1..k /\ q[i] = seq[i - n] /\ i = n + (i - n)
  BY DEF Joined
<1>3. \A i \in 1..n : /\ SlotOf(local[i]) \in Slots
                      /\ contexts[SlotOf(local[i])].state = "local_error"
                      /\ contexts[SlotOf(local[i])].task = local[i]
  BY TaskSeqFacts DEF Lists, AllOwn, Owns
<1>4. \A i \in 1..k : /\ SlotOf(seq[i]) \in Slots
                      /\ contexts[SlotOf(seq[i])].state = state
                      /\ contexts[SlotOf(seq[i])].task = seq[i]
  BY TaskSeqFacts DEF Lists, AllOwn, Owns
<1>5. \A i, j \in 1..n : local[i] = local[j] => i = j  BY DEF Lists, Distinct
<1>6. \A i, j \in 1..k : seq[i] = seq[j] => i = j  BY DEF Lists, Distinct
<1> HIDE DEF n, k
<1>7. state # "local_error" /\ state # "free"  BY DEF Fails
<1>8. \A i \in 1..n, j \in 1..k : local[i] # seq[j]  BY <1>3, <1>4, <1>7
<1>9. Issued(m, next)  BY DEF Fails, Issued
<1>10. ErrorsReported(m)  BY DEF Fails, ErrorsReported
<1>11. FreeSlots(m) = FreeSlots(contexts)  BY DEF Fails, FreeSlots
<1>12. \A s \in Slots : m[s].state # state  BY <1>7 DEF Fails
<1>13. AllOwn(m, q, "local_error")
  <2> SUFFICES ASSUME NEW i \in 1..Len(q)
               PROVE  m[SlotOf(q[i])].state = "local_error" /\ m[SlotOf(q[i])].task = q[i]
    BY DEF AllOwn, Owns
  <2>1. CASE i \in 1..n
    <3>1. q[i] = local[i]  BY <2>1, <1>2
    <3> QED  BY <3>1, <2>1, <1>3, <1>7 DEF Fails
  <2>2. CASE i \notin 1..n
    <3> DEFINE j == i - n
    <3>1. j \in 1..k /\ q[i] = seq[j]  BY <2>2, <1>2
    <3> HIDE DEF j
    <3> QED  BY <3>1, <1>4, SMTT(30) DEF Fails
  <2> QED  BY <2>1, <2>2
<1>14. Distinct(q)
  <2> SUFFICES ASSUME NEW i \in 1..Len(q), NEW j \in 1..Len(q), q[i] = q[j]  PROVE  i = j
    BY DEF Distinct
  <2>1. CASE i \in 1..n /\ j \in 1..n  BY <2>1, <1>2, <1>5
  <2>2. CASE i \in 1..n /\ j \notin 1..n
    <3>1. j - n \in 1..k /\ q[j] = seq[j - n] /\ q[i] = local[i]  BY <2>2, <1>2
    <3> QED  BY <3>1, <2>2, <1>8
  <2>3. CASE i \notin 1..n /\ j \in 1..n
    <3>1. i - n \in 1..k /\ q[i] = seq[i - n] /\ q[j] = local[j]  BY <2>3, <1>2
    <3> QED  BY <3>1, <2>3, <1>8
  <2>4. CASE i \notin 1..n /\ j \notin 1..n
    <3>1. /\ i - n \in 1..k /\ q[i] = seq[i - n] /\ i = n + (i - n)
          /\ j - n \in 1..k /\ q[j] = seq[j - n] /\ j = n + (j - n)
      BY <2>4, <1>2
    <3>2. i - n = j - n  BY <3>1, <1>6
    <3> QED  BY <3>1, <3>2
  <2> QED  BY <2>1, <2>2, <2>3, <2>4
<1>15. Covers(m, q, "local_error")
  <2> SUFFICES ASSUME NEW s \in Slots, m[s].state = "local_error"
               PROVE  \E i \in 1..Len(q) : q[i] = m[s].task
    BY DEF Covers
  <2>1. m[s].task = contexts[s].task  BY DEF Fails
  <2>2. CASE contexts[s].state = state
    <3>1. PICK i \in 1..k : seq[i] = contexts[s].task  BY <2>2 DEF Lists, Covers, k
    <3>2. n + i \in 1..Len(q) /\ q[n + i] = seq[i]  BY <3>1, <1>2
    <3> QED  BY <3>1, <3>2, <2>1
  <2>3. CASE contexts[s].state # state
    <3>1. contexts[s].state = "local_error"  BY <2>3 DEF Fails
    <3>2. PICK i \in 1..n : local[i] = contexts[s].task  BY <3>1 DEF Lists, Covers, n
    <3> QED  BY <3>2, <2>1, <1>2
  <2> QED  BY <2>2, <2>3
<1> QED  BY <1>9, <1>10, <1>11, <1>12, <1>13, <1>14, <1>15 DEF Lists

\* The lists of other states are not concerned.
LEMMA FailKeeps ==
  ASSUME NEW contexts \in ContextArrays, NEW m, NEW state, Fails(m, contexts, state),
         NEW seq \in TaskSeqs, NEW other, other # state, other # "local_error"
  PROVE  /\ AllOwn(contexts, seq, other) => AllOwn(m, seq, other)
         /\ Covers(contexts, seq, other) => Covers(m, seq, other)
         /\ Lists(contexts, seq, other) => Lists(m, seq, other)
<1>1. ASSUME AllOwn(contexts, seq, other)  PROVE  AllOwn(m, seq, other)
  <2> SUFFICES ASSUME NEW i \in 1..Len(seq)
               PROVE  m[SlotOf(seq[i])].state = other /\ m[SlotOf(seq[i])].task = seq[i]
    BY DEF AllOwn, Owns
  <2>1. /\ SlotOf(seq[i]) \in Slots /\ contexts[SlotOf(seq[i])].state = other
        /\ contexts[SlotOf(seq[i])].task = seq[i]
    BY <1>1, TaskSeqFacts DEF AllOwn, Owns
  <2> QED  BY <2>1 DEF Fails
<1>2. ASSUME Covers(contexts, seq, other)  PROVE  Covers(m, seq, other)
  BY <1>2 DEF Covers, Fails
<1> QED  BY <1>1, <1>2 DEF Lists

\* Marking the whole batch fails the pending contexts (fail_pending).
LEMMA PendingFails ==
  ASSUME NEW contexts \in ContextArrays, NEW next \in Nat, Issued(contexts, next),
         NEW pending \in TaskSeqs, Lists(contexts, pending, "pending")
  PROVE  Fails(Marked(contexts, pending, "local_error", "backend_error"), contexts, "pending")
<1> DEFINE m == Marked(contexts, pending, "local_error", "backend_error")
<1>1. /\ "pending" \in ContextStates \ {"free"} /\ "local_error" \in ContextStates
      /\ "backend_error" \in Results
  BY DEF ContextStates, Results
<1>2. AllOwn(contexts, pending, "pending") /\ pending \in Seq(TaskIds)
  BY DEF Lists, TaskSeqs
<1>3. MarkedAs(m, contexts, pending, "local_error", "backend_error")  BY <1>1, MarkedContexts
<1>4. ASSUME NEW s \in Slots
      PROVE  (\E i \in DOMAIN pending : SlotOf(pending[i]) = s) <=>
                /\ contexts[s].state = "pending"
                /\ \E i \in 1..Len(pending) : pending[i] = contexts[s].task
  BY <1>1, <1>2, MarkedSlots
<1>5. \A s \in Slots : contexts[s].state = "pending" =>
                         \E i \in 1..Len(pending) : pending[i] = contexts[s].task
  BY DEF Lists, Covers
<1> HIDE DEF m
<1>6. ASSUME NEW s \in Slots
      PROVE  (\E i \in DOMAIN pending : SlotOf(pending[i]) = s) <=> contexts[s].state = "pending"
  BY <1>4, <1>5
<1>7. Fails(m, contexts, "pending")  BY <1>3, <1>6 DEF MarkedAs, Fails
<1> QED  BY <1>7 DEF m

\* fail_all turns every submitted context into a local error.
LEMMA SubmittedFails ==
  ASSUME NEW contexts \in ContextArrays
  PROVE  Fails(FailSubmitted(contexts), contexts, "submitted")
<1> DEFINE m == FailSubmitted(contexts)
<1>1. ASSUME NEW s \in Slots
      PROVE  /\ m[s] \in ContextSlots /\ m[s].task = contexts[s].task
             /\ contexts[s].state = "submitted" =>
                  m[s].state = "local_error" /\ m[s].result = "backend_error"
             /\ contexts[s].state # "submitted" => m[s] = contexts[s]
  <2>1. contexts[s] \in ContextSlots  BY DEF ContextArrays
  <2>2. m[s] = IF contexts[s].state = "submitted"
               THEN [contexts[s] EXCEPT !.state = "local_error", !.result = "backend_error"]
               ELSE contexts[s]
    BY DEF FailSubmitted
  <2>3. "local_error" \in ContextStates /\ "backend_error" \in Results
    BY DEF ContextStates, Results
  <2> QED  BY <2>1, <2>2, <2>3 DEF ContextSlots
<1>2. m = [s \in Slots |-> m[s]]  BY DEF FailSubmitted
<1> HIDE DEF m
<1>3. m \in ContextArrays  BY <1>1, <1>2 DEF ContextArrays
<1>4. Fails(m, contexts, "submitted")  BY <1>1, <1>3 DEF Fails
<1> QED  BY <1>4 DEF m

-----------------------------------------------------------------------------
(* The submitted tasks in the order of their slots.                         *)

\* How many elements of a set are smaller.
Rank(S, x) == Cardinality({y \in S : y < x})

\* A finite set of numbers is enumerated in increasing order: Nth is defined from 1
\* to the number of elements, takes each of them, and each once.
LEMMA Enumeration ==
  ASSUME NEW S \in SUBSET Nat, IsFiniteSet(S)
  PROVE  /\ Cardinality(S) \in Nat
         /\ \A i \in 1..Cardinality(S) : Nth(S, i) \in S
         /\ \A i, j \in 1..Cardinality(S) : Nth(S, i) = Nth(S, j) => i = j
         /\ \A x \in S : \E i \in 1..Cardinality(S) : Nth(S, i) = x
<1> DEFINE n == Cardinality(S)
           f == [x \in S |-> Rank(S, x) + 1]
<1>1. n \in Nat  BY FS_CardinalityType
<1>2. ASSUME NEW x \in S
      PROVE  IsFiniteSet({y \in S : y < x}) /\ Rank(S, x) \in Nat /\ Rank(S, x) < n
  <2> DEFINE T == {y \in S : y < x}
  <2>1. T \subseteq S \ {x}  OBVIOUS
  <2>2. IsFiniteSet(S \ {x}) /\ Cardinality(S \ {x}) = n - 1  BY FS_RemoveElement
  <2>3. IsFiniteSet(T) /\ Cardinality(T) <= n - 1  BY <2>1, <2>2, FS_Subset
  <2>4. Cardinality(T) \in Nat  BY <2>3, FS_CardinalityType
  <2> QED  BY <2>3, <2>4, <1>1 DEF Rank
<1>3. ASSUME NEW x \in S, NEW z \in S, x < z  PROVE  Rank(S, x) < Rank(S, z)
  <2> DEFINE T == {y \in S : y < x}
             U == {y \in S : y < z}
  <2>0. x \in Nat /\ z \in Nat /\ \A y \in S : y \in Nat  OBVIOUS
  <2>1. T \cup {x} \subseteq U /\ x \notin T
    <3>1. \A y \in S : y < x => y < z  BY <2>0, <1>3
    <3>2. ~(x < x)  BY <2>0
    <3> QED  BY <3>1, <3>2, <1>3
  <2>2. IsFiniteSet(T) /\ IsFiniteSet(U)  BY <1>2
  <2>3. Cardinality(T \cup {x}) = Cardinality(T) + 1  BY <2>1, <2>2, FS_AddElement
  <2>4. Cardinality(T \cup {x}) <= Cardinality(U)  BY <2>1, <2>2, FS_Subset
  <2>5. Rank(S, x) = Cardinality(T) /\ Rank(S, z) = Cardinality(U)  BY DEF Rank
  <2>6. Rank(S, x) \in Nat /\ Rank(S, z) \in Nat  BY <1>2
  <2> HIDE DEF T, U
  <2> QED  BY <2>3, <2>4, <2>5, <2>6
<1>4. \A x, z \in S : Rank(S, x) = Rank(S, z) => x = z
  <2> SUFFICES ASSUME NEW x \in S, NEW z \in S, x # z  PROVE  Rank(S, x) # Rank(S, z)
    OBVIOUS
  <2>1. x < z \/ z < x  OBVIOUS
  <2>2. Rank(S, x) < Rank(S, z) \/ Rank(S, z) < Rank(S, x)  BY <2>1, <1>3
  <2>3. Rank(S, x) \in Nat /\ Rank(S, z) \in Nat  BY <1>2
  <2> QED  BY <2>2, <2>3
<1> HIDE DEF n
<1>5. ASSUME NEW x \in S  PROVE  Rank(S, x) \in Nat /\ Rank(S, x) + 1 \in 1..n
  <2>1. Rank(S, x) \in Nat /\ Rank(S, x) < n  BY <1>2, Zenon
  <2>2. \A r \in Nat : r < n => r + 1 \in 1..n  BY <1>1
  <2> QED  BY <2>1, <2>2, Zenon
<1>6. f \in Injection(S, 1..n)  BY <1>4, <1>5 DEF Injection, IsInjective
<1>7. IsFiniteSet(1..n) /\ Cardinality(1..n) = Cardinality(S)  BY <1>1, FS_Interval DEF n
<1>8. f \in Surjection(S, 1..n)  BY <1>6, <1>7, FS_Injection
<1>9. \A i \in 1..n : \E x \in S : Rank(S, x) = i - 1
  <2> SUFFICES ASSUME NEW i \in 1..n  PROVE  \E x \in S : Rank(S, x) = i - 1
    OBVIOUS
  <2>1. PICK x \in S : f[x] = i  BY <1>8 DEF Surjection
  <2> QED  BY <2>1, <1>5
<1>10. \A i \in 1..n : Nth(S, i) \in S /\ Rank(S, Nth(S, i)) = i - 1
  BY <1>9 DEF Nth, Rank
<1>11. ASSUME NEW i \in 1..n, NEW j \in 1..n, Nth(S, i) = Nth(S, j)  PROVE  i = j
  <2>1. i - 1 = j - 1  BY <1>10, <1>11
  <2> QED  BY <2>1
<1>12. ASSUME NEW x \in S  PROVE  \E i \in 1..n : Nth(S, i) = x
  <2> DEFINE i == Rank(S, x) + 1
  <2>1. i \in 1..n /\ i - 1 = Rank(S, x)  BY <1>5
  <2> HIDE DEF i
  <2>2. Nth(S, i) \in S /\ Rank(S, Nth(S, i)) = Rank(S, x)  BY <2>1, <1>10
  <2> QED  BY <2>1, <2>2, <1>4
<1> QED  BY <1>1, <1>10, <1>11, <1>12 DEF n

\* SubmittedTasks lists the submitted contexts.
LEMMA SubmittedList ==
  ASSUME NEW contexts \in ContextArrays, NEW next \in 1..(MaxTasks + 1), Issued(contexts, next)
  PROVE  /\ SubmittedTasks(contexts) \in TaskSeqs
         /\ Lists(contexts, SubmittedTasks(contexts), "submitted")
<1> DEFINE S == {s \in Slots : contexts[s].state = "submitted"}
           n == Cardinality(S)
           q == [i \in 1..n |-> contexts[Nth(S, i)].task]
<1>1. SubmittedTasks(contexts) = q  BY DEF SubmittedTasks
<1>2. S \in SUBSET Nat /\ IsFiniteSet(S)
  <2>1. S \subseteq Slots /\ Slots \subseteq Nat  BY Sizes DEF Slots
  <2> QED  BY <2>1, SlotsFinite, FS_Subset
<1>3. \A s \in S : /\ s \in Slots /\ contexts[s].state = "submitted"
                   /\ contexts[s].task \in TaskIds /\ SlotOf(contexts[s].task) = s
  BY Sizes DEF Issued, TaskIds
<1>4. \A s \in Slots : contexts[s].state = "submitted" => s \in S  OBVIOUS
<1> HIDE DEF S
<1>5. /\ n \in Nat /\ \A i \in 1..n : Nth(S, i) \in S
      /\ \A i, j \in 1..n : Nth(S, i) = Nth(S, j) => i = j
      /\ \A x \in S : \E i \in 1..n : Nth(S, i) = x
  BY <1>2, Enumeration
<1> HIDE DEF n
<1>6. \A i \in 1..n : q[i] = contexts[Nth(S, i)].task /\ q[i] \in TaskIds
                      /\ SlotOf(q[i]) = Nth(S, i)
  BY <1>3, <1>5
<1>7. q \in TaskSeqs /\ Len(q) = n  BY <1>5, <1>6 DEF TaskSeqs
<1> HIDE DEF q
<1>8. AllOwn(contexts, q, "submitted")
  BY <1>3, <1>5, <1>6, <1>7 DEF AllOwn, Owns
<1>9. Distinct(q)  BY <1>5, <1>6, <1>7, SMTT(30) DEF Distinct
<1>10. Covers(contexts, q, "submitted")
  BY <1>4, <1>5, <1>6, <1>7, SMTT(30) DEF Covers
<1> QED  BY <1>1, <1>7, <1>8, <1>9, <1>10 DEF Lists
=============================================================================
