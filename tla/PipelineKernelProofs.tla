------------------------- MODULE PipelineKernelProofs -------------------------
(***************************************************************************)
(* Proofs about PipelineKernel, for any capacity, batch, depth of the shared *)
(* queues and number of copy warps.  The invariant names, for each of the    *)
(* two shared-memory queues, the indices filled and the indices taken so     *)
(* far, and says what the one-bit parities of a slot's barriers mean in      *)
(* terms of them.  From it follow the draining of a stop and the refinement  *)
(* of OrderedCopyQueue.                                                      *)
(***************************************************************************)
EXTENDS PipelineKernel, RingArithmetic

-----------------------------------------------------------------------------
(* Arithmetic of the task index.                                            *)

Rounds == CopyWarps * Depth

\* The constants are what the static assertions and the launch configuration say.
LEMMA Constants ==
  /\ Capacity \in Nat \ {0} /\ Depth \in Nat \ {0} /\ CopyWarps \in Nat \ {0}
  /\ MetaBatch \in Nat \ {0} /\ MetaBatch <= Capacity /\ MaxTasks \in Nat
  /\ Rounds \in Nat \ {0} /\ CopyWarps <= Rounds
<1>1. /\ Capacity \in Nat \ {0} /\ Depth \in Nat \ {0} /\ CopyWarps \in Nat \ {0}
      /\ MetaBatch \in Nat \ {0} /\ MetaBatch <= Capacity /\ MaxTasks \in Nat
  BY QueueAssumption
<1>2. 1 * CopyWarps <= Depth * CopyWarps  BY <1>1, TimesMonotone
<1>3. Depth * CopyWarps = CopyWarps * Depth /\ CopyWarps * Depth \in Nat  BY <1>1
<1> QED BY <1>1, <1>2, <1>3 DEF Rounds

\* The lanes of one batch reach a slot at most once (the static_assert on MetaBatch).
LEMMA BatchFits == MetaBatch <= Rounds
<1> DEFINE a == MetaBatch + CopyWarps - 1
           q == a \div CopyWarps
<1>1. a \in Nat /\ MetaBatch \in Nat /\ CopyWarps \in Nat \ {0} /\ Depth \in Nat  BY Constants
<1>2. /\ a % CopyWarps \in 0..(CopyWarps - 1) /\ q \in Nat
      /\ a = q * CopyWarps + (a % CopyWarps)
  BY <1>1, DivisionTheorem
<1>3. q * CopyWarps <= Depth * CopyWarps  BY <1>1, <1>2, BatchAssumption, TimesMonotone
<1>4. Depth * CopyWarps = CopyWarps * Depth  BY <1>1
<1>5. q * CopyWarps \in Nat /\ CopyWarps * Depth \in Nat  BY <1>1, <1>2
<1> HIDE DEF q
<1> QED BY <1>1, <1>2, <1>3, <1>4, <1>5 DEF Rounds

\* An index is its number at its owner and its owner.
LEMMA IndexParts ==
  ASSUME NEW i \in Nat
  PROVE  /\ Owner(i) \in Warps /\ Local(i) \in Nat
         /\ i = Local(i) * CopyWarps + Owner(i)
BY Constants, DivisionTheorem DEF Owner, Local, Warps

\* The l-th task of copy warp w is task l * CopyWarps + w.
LEMMA IndexOf ==
  ASSUME NEW w \in Warps, NEW l \in Nat
  PROVE  /\ l * CopyWarps + w \in Nat
         /\ Owner(l * CopyWarps + w) = w /\ Local(l * CopyWarps + w) = l
<1> DEFINE i == l * CopyWarps + w
<1>1. CopyWarps \in Nat \ {0} /\ w \in 0..(CopyWarps - 1)  BY Constants DEF Warps
<1>2. l * CopyWarps \in Nat  BY <1>1
<1>3. i \in Nat  BY <1>1, <1>2
<1>4. Owner(i) \in 0..(CopyWarps - 1) /\ Local(i) \in Nat
      /\ l * CopyWarps + w = Local(i) * CopyWarps + Owner(i)
  BY <1>3, IndexParts DEF Warps
<1> DEFINE q == Local(i)
           r == Owner(i)
<1>5. q \in Nat /\ r \in 0..(CopyWarps - 1) /\ l * CopyWarps + w = q * CopyWarps + r  BY <1>4
<1> HIDE DEF i, q, r
<1>6. l = q /\ w = r  BY <1>1, <1>5, DivisionUnique
<1> QED BY <1>3, <1>6 DEF i, q, r

\* A round later the same slot comes again, with the other phase.
LEMMA NextRound ==
  ASSUME NEW i \in Nat
  PROVE  /\ i + Rounds \in Nat
         /\ Owner(i + Rounds) = Owner(i) /\ Local(i + Rounds) = Local(i) + Depth
         /\ Slot(i + Rounds) = Slot(i) /\ PhaseOf(i + Rounds) = 1 - PhaseOf(i)
<1> DEFINE w == Owner(i)
           l == Local(i)
<1>1. /\ CopyWarps \in Nat \ {0} /\ Depth \in Nat \ {0} /\ Rounds \in Nat
      /\ w \in Warps /\ l \in Nat /\ i = l * CopyWarps + w
  BY Constants, IndexParts
<1>2. (l + Depth) * CopyWarps + w = i + Rounds
  <2>1. (l + Depth) * CopyWarps = l * CopyWarps + Depth * CopyWarps  BY <1>1
  <2>2. Depth * CopyWarps = Rounds  BY <1>1 DEF Rounds
  <2>3. l * CopyWarps \in Nat /\ w \in Nat  BY <1>1 DEF Warps
  <2> HIDE DEF w, l
  <2> QED BY <1>1, <2>1, <2>2, <2>3
<1>3. Owner(i + Rounds) = w /\ Local(i + Rounds) = l + Depth
  <2>1. l + Depth \in Nat  BY <1>1
  <2> HIDE DEF w, l
  <2> QED BY <1>1, <1>2, <2>1, IndexOf
<1> HIDE DEF w, l
<1>4. (l + Depth) % Depth = l % Depth /\ (l + Depth) \div Depth = (l \div Depth) + 1
  <2> DEFINE q == l \div Depth
             r == l % Depth
  <2>1. q \in Nat /\ r \in 0..(Depth - 1) /\ l = q * Depth + r  BY <1>1, DivisionTheorem
  <2>2. (q + 1) * Depth = q * Depth + Depth  BY <1>1, <2>1
  <2>3. l + Depth = (q + 1) * Depth + r /\ l + Depth \in Nat /\ q * Depth \in Nat
    BY <1>1, <2>1, <2>2
  <2>4. /\ (l + Depth) % Depth \in 0..(Depth - 1) /\ (l + Depth) \div Depth \in Nat
        /\ l + Depth = ((l + Depth) \div Depth) * Depth + ((l + Depth) % Depth)
    BY <1>1, <2>3, DivisionTheorem
  <2> HIDE DEF q, r
  <2>5. (q + 1) = (l + Depth) \div Depth /\ r = (l + Depth) % Depth
    <3>1. (q + 1) \in Nat  BY <2>1
    <3> QED BY <1>1, <2>1, <2>3, <2>4, <3>1, DivisionUnique, SMTT(30)
  <2> QED BY <2>5 DEF q, r
<1>5. Slot(i + Rounds) = Slot(i)  BY <1>3, <1>4 DEF Slot, SlotOf, w, l
<1>6. PhaseOf(i + Rounds) = 1 - PhaseOf(i)
  <2>1. l \div Depth \in Nat  BY <1>1, DivisionTheorem
  <2>2. ((l \div Depth) + 1) % 2 = 1 - ((l \div Depth) % 2)  BY <2>1
  <2> QED BY <1>3, <1>4, <2>2 DEF PhaseOf, Phase, w, l
<1> QED BY <1>1, <1>3, <1>5, <1>6 DEF w, l

\* Slots and phases have their ranges.
LEMMA SlotRange ==
  ASSUME NEW i \in Nat
  PROVE  Slot(i) \in SharedSlots /\ PhaseOf(i) \in 0..1
<1> DEFINE w == Owner(i)
           r == Local(i) % Depth
<1>1. /\ CopyWarps \in Nat \ {0} /\ Depth \in Nat \ {0} /\ w \in 0..(CopyWarps - 1)
      /\ Local(i) \in Nat
  BY Constants, IndexParts DEF Warps
<1>2. r \in 0..(Depth - 1)  BY <1>1, DivisionTheorem
<1>3. Local(i) \div Depth \in Nat  BY <1>1, DivisionTheorem
<1>4. (w + 1) * Depth <= CopyWarps * Depth  BY <1>1, TimesMonotone
<1>5. (w + 1) * Depth = w * Depth + Depth /\ w * Depth \in Nat /\ CopyWarps * Depth \in Nat
  BY <1>1
<1>6. Slot(i) = w * Depth + r  BY DEF Slot, SlotOf
<1> HIDE DEF w, r
<1>7. Slot(i) \in SharedSlots  BY <1>1, <1>2, <1>4, <1>5, <1>6 DEF SharedSlots
<1>8. PhaseOf(i) \in 0..1  BY <1>3 DEF PhaseOf, Phase
<1> QED BY <1>7, <1>8

\* Two tasks with the same slot are at least a round apart.
LEMMA SameSlot ==
  ASSUME NEW i \in Nat, NEW j \in Nat, i < j, Slot(i) = Slot(j)
  PROVE  i + Rounds <= j
<1> DEFINE v == Owner(i)
           w == Owner(j)
           k == Local(i)
           l == Local(j)
<1>1. /\ CopyWarps \in Nat \ {0} /\ Depth \in Nat \ {0} /\ Rounds \in Nat
      /\ v \in 0..(CopyWarps - 1) /\ k \in Nat /\ i = k * CopyWarps + v
      /\ w \in 0..(CopyWarps - 1) /\ l \in Nat /\ j = l * CopyWarps + w
  BY Constants, IndexParts DEF Warps
<1>2. v * Depth + (k % Depth) = w * Depth + (l % Depth)  BY DEF Slot, SlotOf
<1> HIDE DEF v, w, k, l
<1>3. k % Depth \in 0..(Depth - 1) /\ l % Depth \in 0..(Depth - 1) /\ v \in Nat /\ w \in Nat
  BY <1>1, DivisionTheorem
<1>4. v = w /\ k % Depth = l % Depth
  <2> DEFINE r == k % Depth
             s == l % Depth
  <2>1. r \in 0..(Depth - 1) /\ s \in 0..(Depth - 1) /\ v * Depth + r = w * Depth + s
    BY <1>2, <1>3
  <2> HIDE DEF r, s
  <2>2. v = w /\ r = s  BY <1>1, <1>3, <2>1, DivisionUnique
  <2> QED BY <2>2 DEF r, s
<1>5. k < l
  <2> SUFFICES ASSUME l <= k PROVE FALSE  BY <1>1
  <2>1. l * CopyWarps <= k * CopyWarps  BY <1>1, TimesMonotone
  <2>2. l * CopyWarps \in Nat /\ k * CopyWarps \in Nat  BY <1>1
  <2> QED BY <1>1, <1>3, <1>4, <2>1, <2>2
<1>6. k + Depth <= l
  <2> SUFFICES ASSUME l < k + Depth PROVE FALSE  BY <1>1
  <2> QED BY <1>1, <1>4, <1>5, SlotsDistinct
<1>7. (k + Depth) * CopyWarps <= l * CopyWarps  BY <1>1, <1>6, TimesMonotone
<1>8. (k + Depth) * CopyWarps = k * CopyWarps + Depth * CopyWarps  BY <1>1
<1>9. Depth * CopyWarps = Rounds  BY <1>1 DEF Rounds
<1>10. k * CopyWarps \in Nat /\ l * CopyWarps \in Nat  BY <1>1
<1> QED BY <1>1, <1>3, <1>4, <1>7, <1>8, <1>9, <1>10

\* The first round has phase 0.
LEMMA FirstRound ==
  ASSUME NEW i \in Nat, i < Rounds
  PROVE  PhaseOf(i) = 0
<1> DEFINE l == Local(i)
<1>1. /\ CopyWarps \in Nat \ {0} /\ Depth \in Nat \ {0} /\ Owner(i) \in Nat /\ l \in Nat
      /\ i = l * CopyWarps + Owner(i)
  BY Constants, IndexParts DEF Warps
<1> HIDE DEF l
<1>2. l < Depth
  <2> SUFFICES ASSUME Depth <= l PROVE FALSE  BY <1>1
  <2>1. Depth * CopyWarps <= l * CopyWarps  BY <1>1, TimesMonotone
  <2>2. Depth * CopyWarps = Rounds /\ l * CopyWarps \in Nat  BY <1>1 DEF Rounds
  <2> QED BY <1>1, <2>1, <2>2
<1>3. l \div Depth = 0
  <2>1. l \div Depth \in Nat /\ l % Depth \in 0..(Depth - 1)
        /\ l = (l \div Depth) * Depth + (l % Depth)
    BY <1>1, DivisionTheorem
  <2> DEFINE q == l \div Depth
             r == l % Depth
  <2>2. q \in Nat /\ r \in 0..(Depth - 1) /\ 0 * Depth + l = q * Depth + r  BY <1>1, <2>1
  <2>3. l \in 0..(Depth - 1) /\ 0 \in Nat  BY <1>1, <1>2
  <2> HIDE DEF q, r
  <2>4. 0 = q  BY <1>1, <2>2, <2>3, DivisionUnique
  <2> QED BY <2>4 DEF q
<1> QED BY <1>3 DEF PhaseOf, Phase, l

-----------------------------------------------------------------------------
(* The two barriers of a slot.                                              *)

\* What the two barriers of every slot of a shared-memory queue say, when F are the
\* indices filled and T those taken so far: a slot is filled again only after it
\* was taken; the ready parity is that of the next index to be filled there, the
\* consumed parity that of the next to be taken; in between the slot holds what
\* was put there.
Handoff(shared, F, T, content) ==
  /\ T \subseteq F
  /\ \A k \in F, i \in Nat : i < k /\ Slot(i) = Slot(k) => i \in T
  /\ \A i \in Nat : i \notin F /\ (i < Rounds \/ i - Rounds \in F)
                      => shared[Slot(i)].ready = PhaseOf(i)
  /\ \A i \in Nat : i \notin T /\ (i < Rounds \/ i - Rounds \in T)
                      => shared[Slot(i)].consumed = PhaseOf(i)
  /\ \A i \in F : i \notin T => shared[Slot(i)].task = content[i]

Queues(X) == [SharedSlots -> [task : X, ready : 0..1, consumed : 0..1]]

\* A filled slot, member by member.
LEMMA FilledSlot ==
  ASSUME NEW X, NEW slot \in [task : X, ready : 0..1, consumed : 0..1], NEW task \in X
  PROVE  /\ Filled(slot, task) \in [task : X, ready : 0..1, consumed : 0..1]
         /\ Filled(slot, task).ready = 1 - slot.ready
         /\ Filled(slot, task).task = task /\ Filled(slot, task).consumed = slot.consumed
<1> DEFINE stored == [slot EXCEPT !.task = task]
<1>1. stored \in [task : X, ready : 0..1, consumed : 0..1]  OBVIOUS
<1>2. [stored EXCEPT !.ready = 1 - @] = Filled(slot, task)  BY DEF Filled
<1>3. /\ Filled(slot, task).ready = 1 - slot.ready
      /\ Filled(slot, task).task = task /\ Filled(slot, task).consumed = slot.consumed
  BY DEF Filled
<1> HIDE DEF stored
<1>4. [stored EXCEPT !.ready = 1 - @] \in [task : X, ready : 0..1, consumed : 0..1]  BY <1>1
<1> QED BY <1>2, <1>3, <1>4

\* A waiter at ready gets through only when its index has been filled.
LEMMA ReadyMeansFilled ==
  ASSUME NEW shared, NEW F \in SUBSET Nat, NEW T \in SUBSET Nat, NEW content,
         Handoff(shared, F, T, content),
         NEW j \in Nat, j < Rounds \/ j - Rounds \in T,
         ReadyFor(shared[Slot(j)], PhaseOf(j))
  PROVE  j \in F
BY DEF Handoff, ReadyFor

\* Filling the slot of an index whose predecessor there has been filled.
LEMMA FillKeepsHandoff ==
  ASSUME NEW X, NEW shared \in Queues(X), NEW F \in SUBSET Nat, NEW T \in SUBSET Nat,
         NEW content, Handoff(shared, F, T, content),
         NEW j \in Nat, j \notin F, j < Rounds \/ j - Rounds \in F,
         FreeFor(shared[Slot(j)], PhaseOf(j)), NEW task \in X, task = content[j]
  PROVE  /\ [shared EXCEPT ![Slot(j)] = Filled(@, task)] \in Queues(X)
         /\ Handoff([shared EXCEPT ![Slot(j)] = Filled(@, task)], F \cup {j}, T, content)
<1> DEFINE after == [shared EXCEPT ![Slot(j)] = Filled(@, task)]
<1>0. Rounds \in Nat \ {0} /\ Slot(j) \in SharedSlots /\ PhaseOf(j) \in 0..1
  BY Constants, SlotRange
<1>1. /\ shared[Slot(j)] \in [task : X, ready : 0..1, consumed : 0..1]
      /\ after \in Queues(X)
      /\ after[Slot(j)].ready = 1 - shared[Slot(j)].ready
      /\ after[Slot(j)].task = task
      /\ after[Slot(j)].consumed = shared[Slot(j)].consumed
      /\ \A s \in SharedSlots : s # Slot(j) => after[s] = shared[s]
  <2> DEFINE old == shared[Slot(j)]
             new == Filled(old, task)
  <2>1. old \in [task : X, ready : 0..1, consumed : 0..1]  BY <1>0 DEF Queues
  <2>2. /\ new \in [task : X, ready : 0..1, consumed : 0..1]
        /\ new.ready = 1 - old.ready /\ new.task = task /\ new.consumed = old.consumed
    BY <2>1, FilledSlot
  <2>3. after = [shared EXCEPT ![Slot(j)] = new]  OBVIOUS
  <2> HIDE DEF new, after
  <2>4. after[Slot(j)] = new  BY <1>0, <2>3 DEF Queues
  <2> QED BY <1>0, <2>1, <2>2, <2>3, <2>4 DEF Queues
<1> HIDE DEF after
<1>2. T \subseteq F \cup {j}  BY DEF Handoff
<1>3. shared[Slot(j)].consumed = PhaseOf(j)
  BY <1>0, <1>1 DEF FreeFor
\* The predecessor has been taken, otherwise consumed would still have its parity.
<1>4. ASSUME j >= Rounds PROVE j - Rounds \in T
  <2> DEFINE p == j - Rounds
  <2>1. p \in Nat /\ p \in F /\ p + Rounds = j  BY <1>0, <1>4
  <2> HIDE DEF p
  <2>2. Slot(p) = Slot(j) /\ PhaseOf(j) = 1 - PhaseOf(p) /\ PhaseOf(p) \in 0..1
    BY <2>1, NextRound, SlotRange
  <2>3. p < Rounds \/ p - Rounds \in T
    <3> SUFFICES ASSUME p >= Rounds PROVE p - Rounds \in T  BY <1>0, <2>1
    <3>1. p - Rounds \in Nat /\ p - Rounds < p /\ (p - Rounds) + Rounds = p  BY <1>0, <2>1
    <3>2. Slot(p - Rounds) = Slot(p)  BY <3>1, NextRound
    <3> QED BY <2>1, <3>1, <3>2 DEF Handoff
  <2> SUFFICES ASSUME p \notin T PROVE FALSE  BY DEF p
  <2>4. shared[Slot(p)].consumed = PhaseOf(p)  BY <2>1, <2>3 DEF Handoff
  <2> QED BY <1>3, <2>2, <2>4
<1>5. ASSUME NEW i \in Nat, i < j, Slot(i) = Slot(j)  PROVE i \in T
  <2>1. i + Rounds <= j  BY <1>5, SameSlot
  <2>2. j - Rounds \in T /\ j - Rounds \in F /\ j - Rounds \in Nat /\ (j - Rounds) + Rounds = j
    BY <1>0, <1>4, <2>1 DEF Handoff
  <2>3. Slot(j - Rounds) = Slot(j)  BY <2>2, NextRound
  <2>4. CASE i = j - Rounds  BY <2>2, <2>4
  <2>5. CASE i < j - Rounds  BY <1>5, <2>2, <2>3, <2>5 DEF Handoff
  <2> QED BY <1>0, <2>1, <2>4, <2>5
<1>6. \A k \in F \cup {j}, i \in Nat : i < k /\ Slot(i) = Slot(k) => i \in T
  BY <1>5 DEF Handoff
<1>7. ASSUME NEW i \in Nat, i \notin F \cup {j}, i < Rounds \/ i - Rounds \in F \cup {j}
      PROVE  after[Slot(i)].ready = PhaseOf(i)
  <2>0. Slot(i) \in SharedSlots  BY SlotRange
  <2>1. CASE Slot(i) # Slot(j)
    <3>1. i < Rounds \/ i - Rounds \in F
      <4> SUFFICES ASSUME i >= Rounds, i - Rounds = j PROVE FALSE  BY <1>0, <1>7
      <4>1. i = j + Rounds  BY <1>0
      <4> QED BY <2>1, <4>1, NextRound
    <3> QED BY <1>1, <1>7, <2>0, <2>1, <3>1 DEF Handoff
  <2>2. CASE Slot(i) = Slot(j)
    <3>1. CASE i < j  BY <1>5, <1>7, <2>2, <3>1 DEF Handoff
    <3>2. CASE i > j
      <4>1. j + Rounds <= i  BY <2>2, <3>2, SameSlot
      <4>2. i >= Rounds /\ i - Rounds \in Nat /\ (i - Rounds) + Rounds = i  BY <1>0, <4>1
      <4>3. Slot(i - Rounds) = Slot(i)  BY <4>2, NextRound
      <4>4. i - Rounds = j
        <5> SUFFICES ASSUME i - Rounds # j PROVE FALSE  OBVIOUS
        <5>1. i - Rounds \in F /\ j < i - Rounds  BY <1>0, <1>7, <4>1, <4>2
        <5>2. j \in T  BY <2>2, <4>3, <5>1 DEF Handoff
        <5> QED BY <5>2 DEF Handoff
      <4>5. i = j + Rounds  BY <1>0, <4>4
      <4>6. PhaseOf(i) = 1 - PhaseOf(j)  BY <4>5, NextRound
      <4>7. shared[Slot(j)].ready = PhaseOf(j)  BY DEF Handoff
      <4> QED BY <1>1, <2>2, <4>6, <4>7
    <3> QED BY <1>7, <3>1, <3>2
  <2> QED BY <2>1, <2>2
<1>8. ASSUME NEW i \in Nat, i \notin T, i < Rounds \/ i - Rounds \in T
      PROVE  after[Slot(i)].consumed = PhaseOf(i)
  <2>1. Slot(i) \in SharedSlots  BY SlotRange
  <2>2. shared[Slot(i)].consumed = PhaseOf(i)  BY <1>8 DEF Handoff
  <2> QED BY <1>1, <2>1, <2>2
<1>9. ASSUME NEW i \in F \cup {j}, i \notin T  PROVE after[Slot(i)].task = content[i]
  <2>1. CASE i = j  BY <1>1, <2>1
  <2>2. CASE i # j
    <3>1. i \in F /\ i \in Nat /\ Slot(i) \in SharedSlots  BY <2>2, SlotRange
    <3>2. Slot(i) # Slot(j)
      <4> SUFFICES ASSUME Slot(i) = Slot(j) PROVE FALSE  OBVIOUS
      <4>1. CASE i < j  BY <1>5, <1>9, <3>1, <4>1
      <4>2. CASE j < i  BY <3>1, <4>2 DEF Handoff
      <4> QED BY <2>2, <3>1, <4>1, <4>2
    <3> QED BY <1>1, <1>9, <3>1, <3>2 DEF Handoff
  <2> QED BY <2>1, <2>2
<1>10. Handoff(after, F \cup {j}, T, content)
  BY <1>2, <1>6, <1>7, <1>8, <1>9 DEF Handoff
<1> QED BY <1>1, <1>10 DEF after

\* Giving back the slots of indices that were filled and are next to be taken.
LEMMA TakeKeepsHandoff ==
  ASSUME NEW X, NEW shared \in Queues(X), NEW F \in SUBSET Nat, NEW T \in SUBSET Nat,
         NEW content, Handoff(shared, F, T, content),
         NEW J \in SUBSET Nat, J \subseteq F, J \cap T = {},
         \A j \in J : j < Rounds \/ j - Rounds \in T,
         NEW after \in Queues(X),
         \A s \in SharedSlots : after[s] = IF \E j \in J : Slot(j) = s THEN Emptied(shared[s])
                                                                       ELSE shared[s]
  PROVE  Handoff(after, F, T \cup J, content)
<1>0. Rounds \in Nat \ {0}  BY Constants
<1>1. \A s \in SharedSlots :
        /\ shared[s] \in [task : X, ready : 0..1, consumed : 0..1]
        /\ after[s].ready = shared[s].ready
        /\ after[s].task = shared[s].task
        /\ after[s].consumed = IF \E j \in J : Slot(j) = s THEN 1 - shared[s].consumed
                                                           ELSE shared[s].consumed
  BY DEF Queues, Emptied
<1>2. T \cup J \subseteq F  BY DEF Handoff
<1>3. \A k \in F, i \in Nat : i < k /\ Slot(i) = Slot(k) => i \in T \cup J  BY DEF Handoff
<1>4. \A i \in Nat : i \notin F /\ (i < Rounds \/ i - Rounds \in F)
                       => after[Slot(i)].ready = PhaseOf(i)
  BY <1>1, SlotRange DEF Handoff
<1>5. \A i \in F : i \notin T \cup J => after[Slot(i)].task = content[i]
  BY <1>1, SlotRange DEF Handoff
<1>6. ASSUME NEW i \in Nat, i \notin T \cup J, i < Rounds \/ i - Rounds \in T \cup J
      PROVE  after[Slot(i)].consumed = PhaseOf(i)
  <2>1. Slot(i) \in SharedSlots  BY SlotRange
  <2>2. CASE \E j \in J : Slot(j) = Slot(i)
    <3>1. PICK j \in J : Slot(j) = Slot(i)  BY <2>2
    <3>2. j \in Nat /\ j \in F /\ j \notin T /\ (j < Rounds \/ j - Rounds \in T)  OBVIOUS
    <3>3. shared[Slot(j)].consumed = PhaseOf(j)  BY <3>2 DEF Handoff
    <3>4. i # j  BY <1>6
    <3>5. ~(i < j)
      <4> SUFFICES ASSUME i < j PROVE FALSE  OBVIOUS
      <4> QED BY <1>6, <3>1, <3>2 DEF Handoff
    <3>6. j < i  BY <3>2, <3>4, <3>5
    <3>7. j + Rounds <= i  BY <3>1, <3>2, <3>6, SameSlot
    <3>8. i >= Rounds /\ i - Rounds \in Nat /\ (i - Rounds) + Rounds = i  BY <1>0, <3>2, <3>7
    <3>9. Slot(i - Rounds) = Slot(i)  BY <3>8, NextRound
    <3>10. i - Rounds \in F  BY <1>0, <1>2, <1>6, <3>8
    <3>11. i - Rounds = j
      <4> SUFFICES ASSUME j < i - Rounds PROVE FALSE  BY <1>0, <3>2, <3>7
      <4> QED BY <3>1, <3>2, <3>9, <3>10 DEF Handoff
    <3>12. i = j + Rounds  BY <1>0, <3>2, <3>11
    <3>13. PhaseOf(i) = 1 - PhaseOf(j)  BY <3>2, <3>12, NextRound
    <3> QED BY <1>1, <2>1, <3>1, <3>3, <3>13
  <2>3. CASE ~\E j \in J : Slot(j) = Slot(i)
    <3>1. i < Rounds \/ i - Rounds \in T
      <4> SUFFICES ASSUME i >= Rounds, i - Rounds \in J PROVE FALSE  BY <1>0, <1>6
      <4>1. i - Rounds \in Nat /\ (i - Rounds) + Rounds = i  BY <1>0
      <4>2. Slot(i - Rounds) = Slot(i)  BY <4>1, NextRound
      <4> QED BY <2>3, <4>2
    <3>2. shared[Slot(i)].consumed = PhaseOf(i)  BY <1>6, <3>1 DEF Handoff
    <3> QED BY <1>1, <2>1, <2>3, <3>2
  <2> QED BY <2>2, <2>3
<1> QED BY <1>2, <1>3, <1>4, <1>5, <1>6 DEF Handoff

-----------------------------------------------------------------------------
(* The inductive invariant.                                                 *)

\* Indices filled and taken in the task slots, in the completion slots, and
\* completions written to the external ring.
FilledTasks ==
  {i \in Nat : \/ i < ingress.head
               \/ /\ i - ingress.head \notin ingress.lanes
                  /\ \/ ingress.pc = "lanes" /\ i < ingress.head + ingress.count
                     \/ ingress.pc \in {"sentinels", "exited"} /\ i < ingress.head + CopyWarps}
FilledDone == {i \in Nat : Local(i) < copiers[Owner(i)].local}
TakenTasks ==
  {i \in Nat : \/ Local(i) < copiers[Owner(i)].local
               \/ Local(i) = copiers[Owner(i)].local /\ copiers[Owner(i)].pc # "take"}
TakenDone ==
  {i \in Nat : \/ i < egress.head
               \/ /\ egress.pc = "release" /\ i < egress.head + egress.count
                  /\ i - egress.head \notin egress.lanes}
Reported ==
  {i \in Nat : \/ i < control.completion_tail
               \/ /\ egress.pc = "lanes" /\ i < egress.head + egress.count
                  /\ i - egress.head \notin egress.lanes}

\* What the ingress warp puts behind the tasks it has seen is a sentinel.
Content == [i \in Nat |-> IF i < ingress.head + ingress.count THEN i ELSE Sentinel]

HostSound ==
  /\ HostTypeOK
  /\ control.task_tail = host.submit_tail
  /\ control.stop_requested => ~host.accepting
  /\ host.completion_head <= host.cached_completion_tail
  /\ host.cached_completion_tail <= control.completion_tail
  /\ host.submit_tail <= host.completion_head + Capacity
  /\ delivered = [i \in 1..host.completion_head |-> i - 1]

\* The registers of the ingress and of the egress warp.
WarpPcs == {"load", "stop", "final", "lanes", "release", "sentinels", "exited"}
LaneSets == SUBSET Nat
WarpStates == [pc : WarpPcs, head : Nat, count : 0..MetaBatch, lanes : LaneSets]

IngressSound ==
  /\ ingress \in WarpStates
  /\ ingress.head + ingress.count <= control.task_tail
  /\ ingress.pc # "lanes" => ingress.count = 0
  /\ ingress.pc = "lanes" => ingress.lanes \subseteq 0..(ingress.count - 1)
  /\ ingress.pc = "sentinels" => ingress.lanes \subseteq Warps
  /\ ingress.pc = "exited" => ingress.lanes = {}
  /\ ingress.pc \in {"final", "sentinels", "exited"} => control.stop_requested
  /\ ingress.pc \in {"sentinels", "exited"} => ingress.head = control.task_tail

EgressSound ==
  /\ egress \in WarpStates
  /\ egress.head + egress.count <= control.task_tail
  /\ egress.pc \notin {"lanes", "release"} => egress.count = 0
  /\ egress.pc \in {"lanes", "release"} => egress.lanes \subseteq 0..(egress.count - 1)
  /\ control.completion_tail = IF egress.pc = "release" THEN egress.head + egress.count
                                                        ELSE egress.head

CopierPcs == {"take", "copy", "complete", "exited"}
CopierStates == [pc : CopierPcs, local : Nat, task : 0..Sentinel]

CopierSound(w) ==
  /\ copiers[w].pc \in {"copy", "complete"} =>
       /\ copiers[w].task = copiers[w].local * CopyWarps + w
       /\ copiers[w].task < ingress.head + ingress.count
  /\ copiers[w].pc = "exited" =>
       /\ ingress.pc \in {"sentinels", "exited"}
       /\ ingress.head <= copiers[w].local * CopyWarps + w

CopiersSound ==
  /\ copiers \in [Warps -> CopierStates] /\ \A w \in Warps : CopierSound(w)
  /\ \A i \in FilledDone : i < ingress.head + ingress.count
  /\ \A t \in Tasks :
       copied[t] = IF \/ t \in FilledDone
                      \/ Local(t) = copiers[Owner(t)].local /\ copiers[Owner(t)].pc = "complete"
                   THEN 1 ELSE 0

RingsSound ==
  /\ \A i \in Nat : host.completion_head <= i /\ i < host.submit_tail
                      => task_slots[i % Capacity] = i
  /\ \A i \in Reported : host.completion_head <= i => completion_slots[i % Capacity] = i
  /\ Reported \subseteq FilledDone

SlotsSound ==
  /\ shared_tasks \in Queues(0..Sentinel)
  /\ shared_done \in Queues(0..MaxTasks)
  /\ Handoff(shared_tasks, FilledTasks, TakenTasks, Content)
  /\ Handoff(shared_done, FilledDone, TakenDone, [i \in Nat |-> i])

KernelSound == /\ HostSound /\ IngressSound /\ EgressSound /\ CopiersSound /\ RingsSound
               /\ SlotsSound

-----------------------------------------------------------------------------

\* The initial state: nothing filled, nothing taken, every slot free.
LEMMA InitSound == Init => KernelSound
<1> SUFFICES ASSUME Init PROVE KernelSound  OBVIOUS
<1> USE DEF Init, HostInit
<1>0. /\ Capacity \in Nat \ {0} /\ Depth \in Nat \ {0} /\ CopyWarps \in Nat \ {0}
      /\ MetaBatch \in Nat \ {0} /\ MaxTasks \in Nat /\ Rounds \in Nat \ {0}
  BY Constants
<1>1. HostSound
  <2>1. NoTask \in 0..MaxTasks /\ 0 \in 0..MaxTasks  BY <1>0 DEF NoTask
  <2>2. <<>> \in Seq(0..MaxTasks) /\ [i \in 1..0 |-> i - 1] = <<>>  OBVIOUS
  <2>3. HostTypeOK  BY <2>1, <2>2 DEF HostTypeOK
  <2> QED BY <1>0, <2>2, <2>3 DEF HostSound
<1>2. IngressSound /\ EgressSound
  BY <1>0 DEF IngressSound, EgressSound, WarpStates, WarpPcs, LaneSets
<1>3. /\ FilledTasks = {} /\ FilledDone = {} /\ TakenTasks = {} /\ TakenDone = {}
      /\ Reported = {}
  BY IndexParts DEF FilledTasks, FilledDone, TakenTasks, TakenDone, Reported
<1>4. CopiersSound
  <2>1. copiers \in [Warps -> CopierStates]
    BY <1>0 DEF CopierStates, CopierPcs, NoTask, Sentinel
  <2>2. \A w \in Warps : copiers[w].pc = "take"  OBVIOUS
  <2>3. \A t \in Tasks : t \in Nat /\ Owner(t) \in Warps /\ copied[t] = 0
    BY <1>0, IndexParts DEF Tasks
  <2> QED BY <1>3, <2>1, <2>2, <2>3 DEF CopiersSound, CopierSound
<1>5. RingsSound  BY <1>0, <1>3 DEF RingsSound
<1>6. SlotsSound
  <2>1. shared_tasks \in Queues(0..Sentinel) /\ shared_done \in Queues(0..MaxTasks)
    BY <1>0 DEF Queues, NoTask, Sentinel
  <2>2. \A i \in Nat : i < Rounds => PhaseOf(i) = 0 /\ Slot(i) \in SharedSlots
    BY FirstRound, SlotRange
  <2>3. \A s \in SharedSlots : /\ shared_tasks[s].ready = 0 /\ shared_tasks[s].consumed = 0
                               /\ shared_done[s].ready = 0 /\ shared_done[s].consumed = 0
    OBVIOUS
  <2>4. Handoff(shared_tasks, {}, {}, Content) /\ Handoff(shared_done, {}, {}, [i \in Nat |-> i])
    BY <2>2, <2>3 DEF Handoff
  <2> QED BY <1>3, <2>1, <2>4 DEF SlotsSound
<1> QED BY <1>1, <1>2, <1>4, <1>5, <1>6 DEF KernelSound

\* The members the proofs below compute with.
LEMMA KernelTypes ==
  ASSUME KernelSound
  PROVE  /\ host.submit_tail \in Nat /\ host.submit_tail <= MaxTasks
         /\ host.completion_head \in Nat /\ host.cached_completion_tail \in Nat
         /\ control.completion_tail \in Nat /\ control.task_tail = host.submit_tail
         /\ control.completion_tail <= host.submit_tail
         /\ host.completion_head <= control.completion_tail
         /\ ingress.head \in Nat /\ ingress.count \in Nat /\ ingress.count <= MetaBatch
         /\ ingress.lanes \subseteq Nat
         /\ egress.head \in Nat /\ egress.count \in Nat /\ egress.count <= MetaBatch
         /\ egress.lanes \subseteq Nat
         /\ \A w \in Warps : copiers[w].local \in Nat
         /\ FilledTasks \subseteq Nat /\ FilledDone \subseteq Nat /\ TakenTasks \subseteq Nat
         /\ TakenDone \subseteq Nat /\ Reported \subseteq Nat
<1> USE DEF KernelSound
<1>1. /\ host.submit_tail \in 0..MaxTasks /\ host.completion_head \in 0..MaxTasks
      /\ host.cached_completion_tail \in 0..MaxTasks /\ control.completion_tail \in 0..MaxTasks
      /\ control.task_tail = host.submit_tail
      /\ host.completion_head <= host.cached_completion_tail
      /\ host.cached_completion_tail <= control.completion_tail
  BY DEF HostSound, HostTypeOK
<1>2. /\ ingress.head \in Nat /\ ingress.count \in 0..MetaBatch /\ ingress.lanes \subseteq Nat
      /\ egress.head \in Nat /\ egress.count \in 0..MetaBatch /\ egress.lanes \subseteq Nat
      /\ egress.head + egress.count <= control.task_tail
      /\ control.completion_tail = IF egress.pc = "release" THEN egress.head + egress.count
                                                            ELSE egress.head
  BY DEF IngressSound, EgressSound, WarpStates, LaneSets
<1>3. \A w \in Warps : copiers[w].local \in Nat  BY DEF CopiersSound, CopierStates
<1>4. /\ FilledTasks \subseteq Nat /\ FilledDone \subseteq Nat /\ TakenTasks \subseteq Nat
      /\ TakenDone \subseteq Nat /\ Reported \subseteq Nat
  BY DEF FilledTasks, FilledDone, TakenTasks, TakenDone, Reported
<1> QED BY <1>1, <1>2, <1>3, <1>4, Constants

\* How far the indices are apart.
LEMMA KernelBounds ==
  ASSUME KernelSound
  PROVE  /\ ingress \in WarpStates /\ egress \in WarpStates
         /\ ingress.head + ingress.count <= control.task_tail
         /\ ingress.pc # "lanes" => ingress.count = 0
         /\ egress.head + egress.count <= control.task_tail
         /\ egress.pc \notin {"lanes", "release"} => egress.count = 0
         /\ egress.pc \in {"lanes", "release"} => egress.lanes \subseteq 0..(egress.count - 1)
         /\ egress.pc = "release" => control.completion_tail = egress.head + egress.count
         /\ egress.pc # "release" => control.completion_tail = egress.head
         /\ host.completion_head <= host.cached_completion_tail
         /\ host.cached_completion_tail <= control.completion_tail
         /\ host.submit_tail <= host.completion_head + Capacity
BY DEF KernelSound, HostSound, IngressSound, EgressSound

-----------------------------------------------------------------------------
(* Host.                                                                     *)

\* A step that leaves the shared slots and the warps alone keeps what the barriers say.
LEMMA FrameSlots ==
  ASSUME SlotsSound, UNCHANGED <<shared_tasks, shared_done, ingress, copiers, egress>>
  PROVE  SlotsSound'
<1>1. /\ FilledTasks' = FilledTasks /\ TakenTasks' = TakenTasks /\ Content' = Content
      /\ FilledDone' = FilledDone /\ TakenDone' = TakenDone
  BY DEF FilledTasks, FilledDone, TakenTasks, TakenDone, Content
<1> QED BY <1>1 DEF SlotsSound, Handoff, Queues

\* The copy warps, when a step touches neither them nor the ingress warp nor the copies.
LEMMA FrameCopiers ==
  ASSUME CopiersSound, UNCHANGED <<ingress, copiers, copied>>
  PROVE  CopiersSound'
BY DEF CopiersSound, CopierSound, FilledDone

\* try_submit_batch publishes new tasks into slots of reported ones only.
LEMMA SubmitSound ==
  ASSUME KernelSound, NEW requested \in 1..MetaBatch, TrySubmitBatch(requested), UNCHANGED kernel
  PROVE  KernelSound'
<1> DEFINE low == host.completion_head
           high == host.submit_tail
           n == Least(requested, Available)
           new == high..(high + n - 1)
<1>0. Capacity \in Nat \ {0} /\ MaxTasks \in Nat /\ MetaBatch \in Nat  BY Constants
<1>1. /\ low \in Nat /\ high \in Nat /\ low <= high /\ high <= low + Capacity
      /\ control.task_tail = high /\ control.completion_tail \in Nat
      /\ control.completion_tail <= high /\ low <= control.completion_tail
  BY KernelTypes, KernelBounds
<1> USE DEF KernelSound
<1>2. n \in Nat \ {0} /\ high + n <= low + Capacity /\ high + n <= MaxTasks
  BY <1>0, <1>1 DEF TrySubmitBatch, Least, Available
<1>3. /\ task_slots' = [s \in Slots |-> IF \E t \in new : t % Capacity = s
                                        THEN CHOOSE t \in new : t % Capacity = s
                                        ELSE task_slots[s]]
      /\ host' = [host EXCEPT !.submit_tail = high + n]
      /\ control' = [control EXCEPT !.task_tail = high + n]
      /\ UNCHANGED <<completion_slots, copied, delivered, shared_tasks, shared_done, ingress,
                     copiers, egress>>
      /\ host.accepting
  BY DEF TrySubmitBatch, kernel
<1> HIDE DEF n
<1>4. ~control.stop_requested  BY <1>3 DEF HostSound
<1>5. /\ host'.submit_tail = high + n /\ host'.completion_head = low
      /\ host'.cached_completion_tail = host.cached_completion_tail
      /\ host'.accepting = host.accepting
      /\ control'.task_tail = high + n /\ control'.completion_tail = control.completion_tail
      /\ control'.stop_requested = control.stop_requested
  BY <1>3 DEF HostSound, HostTypeOK
<1>6. \A i \in Nat : i % Capacity \in Slots  BY <1>0, DivisionTheorem DEF Slots
<1>7. ASSUME NEW i \in Nat, low <= i, i < high + n  PROVE task_slots'[i % Capacity] = i
  <2>1. \A t \in new : t \in Nat /\ low <= t /\ t < low + Capacity  BY <1>0, <1>1, <1>2
  <2>2. i < low + Capacity  BY <1>0, <1>1, <1>2, <1>7
  <2>3. CASE i < high
    <3>1. ~\E t \in new : t % Capacity = i % Capacity
      <4> SUFFICES ASSUME NEW t \in new, t % Capacity = i % Capacity PROVE FALSE  OBVIOUS
      <4>1. t \in Nat /\ low <= t /\ t < low + Capacity  BY <2>1
      <4>2. t = i  BY <1>0, <1>1, <1>7, <2>2, <4>1, SlotsInjective
      <4> QED BY <1>1, <2>3, <4>2
    <3>2. task_slots'[i % Capacity] = task_slots[i % Capacity]  BY <1>3, <1>6, <3>1
    <3> QED BY <1>7, <2>3, <3>2 DEF RingsSound
  <2>4. CASE ~(i < high)
    <3>1. i \in new  BY <1>1, <1>2, <1>7, <2>4
    <3>2. \A t \in new : t % Capacity = i % Capacity => t = i
      <4> TAKE t \in new
      <4> HAVE t % Capacity = i % Capacity
      <4>1. t \in Nat /\ low <= t /\ t < low + Capacity  BY <2>1
      <4> QED BY <1>0, <1>1, <1>7, <2>2, <4>1, SlotsInjective
    <3>3. (CHOOSE t \in new : t % Capacity = i % Capacity) = i  BY <3>1, <3>2
    <3> QED BY <1>3, <1>6, <3>1, <3>3
  <2> QED BY <2>3, <2>4
<1>8. task_slots' \in [Slots -> 0..MaxTasks]
  <2>1. \A t \in new : t \in 0..MaxTasks  BY <1>0, <1>1, <1>2
  <2>2. ASSUME NEW s \in Slots, \E t \in new : t % Capacity = s
        PROVE (CHOOSE t \in new : t % Capacity = s) \in 0..MaxTasks
    BY <2>1, <2>2
  <2> HIDE DEF new
  <2> QED BY <1>3, <2>2 DEF HostSound, HostTypeOK
<1>9. HostTypeOK'
  <2>1. high + n \in 0..MaxTasks  BY <1>0, <1>1, <1>2
  <2>2. host' \in [submit_tail : 0..MaxTasks, completion_head : 0..MaxTasks,
               cached_completion_tail : 0..MaxTasks, accepting : BOOLEAN, running : BOOLEAN]
    BY <1>3, <2>1 DEF HostSound, HostTypeOK
  <2>3. control' \in [task_tail : 0..MaxTasks, completion_tail : 0..MaxTasks,
                      stop_requested : BOOLEAN]
    BY <1>3, <2>1 DEF HostSound, HostTypeOK
  <2> QED BY <1>3, <1>8, <2>2, <2>3 DEF HostSound, HostTypeOK
<1>10. HostSound'
  BY <1>1, <1>2, <1>3, <1>4, <1>5, <1>9 DEF HostSound
<1>11. IngressSound'
  <2>1. ingress.head \in Nat /\ ingress.count \in Nat  BY KernelTypes
  <2> QED BY <1>1, <1>2, <1>3, <1>4, <1>5, <2>1 DEF IngressSound
<1>12. EgressSound'
  <2>1. egress.head \in Nat /\ egress.count \in Nat  BY KernelTypes
  <2> QED BY <1>1, <1>2, <1>3, <1>5, <2>1 DEF EgressSound
<1>13. Reported' = Reported /\ FilledDone' = FilledDone
  BY <1>3, <1>5 DEF Reported, FilledDone
<1>14. RingsSound'  BY <1>3, <1>5, <1>7, <1>13 DEF RingsSound
<1> QED BY <1>3, <1>10, <1>11, <1>12, <1>14, FrameSlots, FrameCopiers

\* The completions delivered so far, and one more.
LEMMA DeliveredGrows ==
  ASSUME NEW n \in Nat
  PROVE  /\ [i \in 1..n |-> i - 1] \in Seq(Nat) /\ Len([i \in 1..n |-> i - 1]) = n
         /\ Append([i \in 1..n |-> i - 1], n) = [i \in 1..(n + 1) |-> i - 1]
<1> DEFINE d == [i \in 1..n |-> i - 1]
           e == [i \in 1..(n + 1) |-> i - 1]
<1>1. d \in Seq(Nat) /\ Len(d) = n /\ e \in Seq(Nat) /\ Len(e) = n + 1
  <2>1. d \in [1..n -> Nat] /\ e \in [1..(n + 1) -> Nat] /\ n + 1 \in Nat  OBVIOUS
  <2>2. d \in Seq(Nat) /\ e \in Seq(Nat)  BY <2>1, SeqDef
  <2>3. DOMAIN d = 1..n /\ DOMAIN e = 1..(n + 1)  OBVIOUS
  <2> HIDE DEF d, e
  <2>4. /\ Len(d) \in Nat /\ DOMAIN d = 1..Len(d)
        /\ Len(e) \in Nat /\ DOMAIN e = 1..Len(e)
    BY <2>2, LenProperties
  <2> QED BY <2>1, <2>2, <2>3, <2>4
<1>2. /\ \A i \in 1..n : d[i] = i - 1 /\ e[i] = i - 1
      /\ e[n + 1] = n
  OBVIOUS
<1> HIDE DEF d, e
<1>3. /\ Append(d, n) \in Seq(Nat) /\ Len(Append(d, n)) = n + 1
      /\ \A i \in 1..n : Append(d, n)[i] = d[i]
      /\ Append(d, n)[n + 1] = n
  BY <1>1, AppendProperties
<1>4. \A i \in 1..(n + 1) : Append(d, n)[i] = e[i]
  <2> TAKE i \in 1..(n + 1)
  <2>1. i \in 1..n \/ i = n + 1  OBVIOUS
  <2> QED BY <1>2, <1>3, <2>1
<1>5. Append(d, n) = e  BY <1>1, <1>3, <1>4, SeqEqual
<1> QED BY <1>1, <1>5 DEF d, e

\* try_poll delivers the next completion, which the ring still holds.
LEMMA PollSound ==
  ASSUME KernelSound, TryPoll, UNCHANGED kernel
  PROVE  KernelSound'
<1> DEFINE low == host.completion_head
           tail == control.completion_tail
           cached == IF low >= host.cached_completion_tail THEN tail
                     ELSE host.cached_completion_tail
<1>0. Capacity \in Nat \ {0} /\ MaxTasks \in Nat  BY Constants
<1>1. /\ low \in Nat /\ tail \in Nat /\ host.submit_tail \in Nat /\ host.submit_tail <= MaxTasks
      /\ tail <= host.submit_tail /\ low <= tail /\ host.submit_tail <= low + Capacity
      /\ cached \in Nat /\ low <= cached /\ cached <= tail
  BY KernelTypes, KernelBounds
<1> USE DEF KernelSound
<1>2. UNCHANGED <<control, task_slots, completion_slots, copied, shared_tasks, shared_done,
                  ingress, copiers, egress>>
  BY DEF TryPoll, kernel
<1>3. IngressSound' /\ EgressSound'  BY <1>2 DEF IngressSound, EgressSound
<1>4. Reported' = Reported /\ FilledDone' = FilledDone /\ Reported \subseteq Nat
  BY <1>2, KernelTypes DEF Reported, FilledDone
<1>5. cached \in 0..MaxTasks  BY <1>0, <1>1
<1>6. CASE low >= cached
  <2>1. host' = [host EXCEPT !.cached_completion_tail = cached] /\ UNCHANGED delivered
    BY <1>6 DEF TryPoll
  <2> HIDE DEF cached
  <2>2. /\ host'.completion_head = low /\ host'.submit_tail = host.submit_tail
        /\ host'.cached_completion_tail = cached /\ host'.accepting = host.accepting
        /\ HostTypeOK'
    BY <1>2, <1>5, <2>1 DEF HostSound, HostTypeOK
  <2>3. HostSound'  BY <1>1, <1>2, <2>1, <2>2 DEF HostSound
  <2>4. RingsSound'  BY <1>2, <1>4, <2>2 DEF RingsSound
  <2> QED BY <1>2, <1>3, <2>3, <2>4, FrameSlots, FrameCopiers
<1>7. CASE ~(low >= cached)
  <2>1. /\ host' = [host EXCEPT !.cached_completion_tail = cached, !.completion_head = low + 1]
        /\ delivered' = Append(delivered, completion_slots[low % Capacity])
    BY <1>7 DEF TryPoll
  <2>2. low < tail /\ low + 1 <= cached  BY <1>1, <1>7
  <2> HIDE DEF cached
  <2>3. completion_slots[low % Capacity] = low
    <3>1. low \in Reported  BY <1>1, <2>2 DEF Reported
    <3> QED BY <1>1, <3>1 DEF RingsSound
  <2>4. low + 1 \in 0..MaxTasks /\ low \in 0..MaxTasks  BY <1>0, <1>1, <2>2
  <2>5. /\ host'.completion_head = low + 1 /\ host'.submit_tail = host.submit_tail
        /\ host'.cached_completion_tail = cached /\ host'.accepting = host.accepting
    BY <2>1 DEF HostSound, HostTypeOK
  <2>6. host' \in [submit_tail : 0..MaxTasks, completion_head : 0..MaxTasks,
               cached_completion_tail : 0..MaxTasks, accepting : BOOLEAN, running : BOOLEAN]
    BY <1>5, <2>1, <2>4 DEF HostSound, HostTypeOK
  <2>7. delivered' = [i \in 1..(low + 1) |-> i - 1]
    BY <1>1, <2>1, <2>3, DeliveredGrows DEF HostSound
  <2>8. delivered' \in Seq(0..MaxTasks)
    <3>1. delivered \in Seq(0..MaxTasks)  BY DEF HostSound, HostTypeOK
    <3> QED BY <2>1, <2>3, <2>4, <3>1, AppendProperties
  <2>9. HostTypeOK'  BY <1>2, <2>6, <2>8 DEF HostSound, HostTypeOK
  <2>10. HostSound'  BY <1>0, <1>1, <1>2, <2>2, <2>5, <2>7, <2>9 DEF HostSound
  <2>11. RingsSound'
    <3>1. \A i \in Nat : low + 1 <= i => low <= i  BY <1>1
    <3> HIDE DEF low
    <3> QED BY <1>2, <1>4, <2>5, <3>1 DEF RingsSound, low
  <2> QED BY <1>2, <1>3, <2>10, <2>11, FrameSlots, FrameCopiers
<1> QED BY <1>6, <1>7

\* request_stop and wait change flags only.
LEMMA StopSound ==
  ASSUME KernelSound, RequestStop \/ Wait(Exited), UNCHANGED kernel
  PROVE  KernelSound'
<1> USE DEF KernelSound
<1>1. /\ UNCHANGED <<task_slots, completion_slots, copied, delivered, shared_tasks, shared_done,
                     ingress, copiers, egress>>
      /\ \/ /\ host' = [host EXCEPT !.accepting = FALSE]
            /\ control' = [control EXCEPT !.stop_requested = TRUE]
         \/ host' = [host EXCEPT !.running = FALSE] /\ UNCHANGED control
  BY DEF RequestStop, Wait, kernel
<1>2. /\ host'.submit_tail = host.submit_tail /\ host'.completion_head = host.completion_head
      /\ host'.cached_completion_tail = host.cached_completion_tail
      /\ control'.task_tail = control.task_tail
      /\ control'.completion_tail = control.completion_tail
      /\ control.stop_requested => control'.stop_requested
      /\ control'.stop_requested => ~host'.accepting
  BY <1>1 DEF HostSound, HostTypeOK
<1>3. HostTypeOK'  BY <1>1 DEF HostSound, HostTypeOK
<1>4. HostSound'  BY <1>1, <1>2, <1>3 DEF HostSound
<1>5. IngressSound' /\ EgressSound'  BY <1>1, <1>2 DEF IngressSound, EgressSound
<1>6. Reported' = Reported /\ FilledDone' = FilledDone  BY <1>1, <1>2 DEF Reported, FilledDone
<1>7. RingsSound'  BY <1>1, <1>2, <1>6 DEF RingsSound
<1> QED BY <1>1, <1>4, <1>5, <1>7, FrameSlots, FrameCopiers

-----------------------------------------------------------------------------
(* Ingress warp.                                                            *)

\* What a warp knows after it has looked at the tail.
LEMMA BatchEffect ==
  ASSUME NEW warp \in WarpStates, control.task_tail \in Nat, warp.head <= control.task_tail,
         warp.count = 0, NEW next, next = Batch(warp)
  PROVE  /\ next \in WarpStates /\ next.head = warp.head
         /\ next.head + next.count <= control.task_tail
         /\ \/ next.pc = "lanes" /\ next.lanes = 0..(next.count - 1)
            \/ next.pc = "stop" /\ next.count = 0
<1> DEFINE n == Least(control.task_tail - warp.head, MetaBatch)
<1>0. MetaBatch \in Nat \ {0} /\ warp.head \in Nat  BY Constants DEF WarpStates
<1>1. CASE warp.head < control.task_tail
  <2>1. n \in 0..MetaBatch /\ warp.head + n <= control.task_tail
    BY <1>0, <1>1 DEF Least
  <2>2. next = [warp EXCEPT !.pc = "lanes", !.count = n, !.lanes = 0..(n - 1)]
    BY <1>1 DEF Batch
  <2> HIDE DEF n
  <2>3. "lanes" \in WarpPcs /\ 0..(n - 1) \in LaneSets  BY <1>0, <2>1 DEF WarpPcs, LaneSets
  <2>4. next \in WarpStates  BY <2>1, <2>2, <2>3 DEF WarpStates
  <2>5. /\ next.pc = "lanes" /\ next.count = n /\ next.lanes = 0..(n - 1)
        /\ next.head = warp.head
    BY <2>2 DEF WarpStates
  <2> QED BY <2>1, <2>4, <2>5
<1>2. CASE ~(warp.head < control.task_tail)
  <2>1. next = [warp EXCEPT !.pc = "stop"]  BY <1>2 DEF Batch
  <2>2. "stop" \in WarpPcs  BY DEF WarpPcs
  <2>3. next \in WarpStates  BY <2>1, <2>2 DEF WarpStates
  <2>4. next.pc = "stop" /\ next.head = warp.head /\ next.count = 0
    BY <2>1 DEF WarpStates
  <2> QED BY <1>0, <2>3, <2>4
<1> QED BY <1>1, <1>2

\* A step of the ingress warp that fills nothing keeps what has been filled.
LEMMA IngressFrame ==
  ASSUME KernelSound, IngressSound', FilledTasks' = FilledTasks,
         ingress'.head + ingress'.count >= ingress.head + ingress.count,
         ingress.head + ingress.count = ingress'.head + ingress'.count
           \/ \A i \in FilledTasks : i < ingress.head + ingress.count,
         \A w \in Warps : copiers[w].pc = "exited" =>
            ingress'.pc \in {"sentinels", "exited"} /\ ingress'.head = ingress.head,
         UNCHANGED <<external, copied, delivered, shared_tasks, shared_done, copiers, egress>>
  PROVE  KernelSound'
<1>0. /\ ingress.head \in Nat /\ ingress.count \in Nat
      /\ ingress'.head \in Nat /\ ingress'.count \in Nat
  BY KernelTypes, Constants DEF IngressSound, WarpStates
<1> USE DEF KernelSound
<1>1. UNCHANGED <<control, host, task_slots, completion_slots, copied, delivered, shared_tasks,
                  shared_done, copiers, egress>>
  BY DEF external
<1>2. HostSound'  BY <1>1 DEF HostSound, HostTypeOK
<1>3. EgressSound'  BY <1>1 DEF EgressSound
<1>4. /\ FilledDone' = FilledDone /\ TakenTasks' = TakenTasks /\ TakenDone' = TakenDone
      /\ Reported' = Reported
  BY <1>1 DEF FilledDone, TakenTasks, TakenDone, Reported
<1>5. RingsSound'  BY <1>1, <1>4 DEF RingsSound
<1>6. CopiersSound'
  <2>1. \A w \in Warps : CopierSound(w)'
    <3> TAKE w \in Warps
    <3>1. CopierSound(w) /\ copiers[w] \in CopierStates  BY DEF CopiersSound
    <3>2. copiers[w].pc \in {"copy", "complete"} =>
            copiers[w].task < ingress'.head + ingress'.count
      <4>1. copiers[w].task \in Nat
        BY <3>1, Constants DEF CopierStates, Sentinel
      <4> QED BY <1>0, <3>1, <4>1 DEF CopierSound
    <3> QED BY <1>1, <3>1, <3>2 DEF CopierSound
  <2>2. \A i \in FilledDone : i < ingress'.head + ingress'.count
    <3> DEFINE filled == ingress.head + ingress.count
               more == ingress'.head + ingress'.count
    <3>1. filled \in Nat /\ more \in Nat /\ filled <= more  BY <1>0
    <3>2. \A i \in FilledDone : i \in Nat  BY DEF FilledDone
    <3>3. \A i \in FilledDone : i < filled  BY DEF CopiersSound
    <3> HIDE DEF KernelSound, filled, more
    <3>4. \A i \in FilledDone : i < more  BY <3>1, <3>2, <3>3
    <3> QED BY <3>4 DEF more
  <2> QED BY <1>1, <1>4, <2>1, <2>2 DEF CopiersSound
<1>7. \A i \in FilledTasks : Content'[i] = Content[i]
  <2>1. FilledTasks \subseteq Nat  BY DEF FilledTasks
  <2> QED BY <1>0, <2>1 DEF Content, Sentinel
<1>8. SlotsSound'
  <2>1. Handoff(shared_tasks, FilledTasks, TakenTasks, Content')  BY <1>7 DEF SlotsSound, Handoff
  <2> QED BY <1>1, <1>4, <2>1 DEF SlotsSound, Handoff, Queues
<1> QED BY <1>2, <1>3, <1>5, <1>6, <1>8

\* Loading the tail, looking at the stop flag and the last look at the tail.
LEMMA IngressLooksSound ==
  ASSUME KernelSound, IngressLoad \/ IngressStop \/ IngressFinal
  PROVE  KernelSound'
<1>0. /\ ingress \in WarpStates /\ ingress.head \in Nat /\ ingress.count = 0
      /\ ingress.head <= control.task_tail /\ control.task_tail \in Nat
      /\ ingress.pc \in {"load", "stop", "final"}
      /\ CopyWarps \in Nat
  <2>1. ingress.pc \in {"load", "stop", "final"}  BY DEF IngressLoad, IngressStop, IngressFinal
  <2> QED BY <2>1, KernelTypes, KernelBounds, Constants
<1> USE DEF KernelSound
<1>1. UNCHANGED <<external, copied, delivered, shared_tasks, shared_done, copiers, egress>>
  BY DEF IngressLoad, IngressStop, IngressFinal
<1>2. UNCHANGED control  BY <1>1 DEF external
<1>3. \A w \in Warps : copiers[w].pc # "exited"  BY <1>0 DEF CopiersSound, CopierSound
<1>4. /\ \A i \in FilledTasks : i < ingress.head
      /\ FilledTasks = {i \in Nat : i < ingress.head}
  BY <1>0 DEF FilledTasks
<1>5. CASE IngressLoad
  <2>1. /\ ingress' \in WarpStates /\ ingress'.head = ingress.head
        /\ ingress'.head + ingress'.count <= control.task_tail
        /\ \/ ingress'.pc = "lanes" /\ ingress'.lanes = 0..(ingress'.count - 1)
           \/ ingress'.pc = "stop" /\ ingress'.count = 0
    BY <1>0, <1>5, BatchEffect DEF IngressLoad
  <2>2. IngressSound'  BY <1>2, <2>1 DEF IngressSound
  <2>3. ingress'.count \in Nat  BY <2>1, Constants DEF WarpStates
  <2>4. FilledTasks' = {i \in Nat : i < ingress.head}
    BY <1>0, <2>1, <2>3 DEF FilledTasks
  <2>5. ingress'.head + ingress'.count >= ingress.head + ingress.count  BY <1>0, <2>1, <2>3
  <2>6. \A i \in FilledTasks : i < ingress.head + ingress.count  BY <1>0, <1>4
  <2> QED BY <1>1, <1>3, <1>4, <2>2, <2>4, <2>5, <2>6, IngressFrame
<1>6. CASE IngressStop \/ IngressFinal
  <2>1. /\ ingress' \in WarpStates
        /\ ingress'.head = ingress.head /\ ingress'.count = 0
        /\ \/ ingress'.pc = "load"
           \/ ingress'.pc = "final" /\ control.stop_requested
           \/ /\ ingress'.pc = "sentinels" /\ ingress'.lanes = Warps /\ control.stop_requested
              /\ ingress.head = control.task_tail
    <3>1. "load" \in WarpPcs /\ "final" \in WarpPcs /\ "sentinels" \in WarpPcs
          /\ Warps \in LaneSets
      BY <1>0 DEF WarpPcs, LaneSets, Warps
    <3>2. CASE IngressStop
      <4>1. ingress' = [ingress EXCEPT !.pc = IF control.stop_requested THEN "final" ELSE "load"]
        BY <3>2 DEF IngressStop
      <4> QED BY <1>0, <3>1, <4>1 DEF WarpStates
    <3>3. CASE IngressFinal /\ ingress.head >= control.task_tail
      <4>1. ingress' = [ingress EXCEPT !.pc = "sentinels", !.lanes = Warps]
        BY <3>3 DEF IngressFinal
      <4>2. ingress' \in WarpStates  BY <1>0, <3>1, <4>1 DEF WarpStates
      <4>3. /\ ingress'.head = ingress.head /\ ingress'.count = ingress.count
            /\ ingress'.pc = "sentinels" /\ ingress'.lanes = Warps
        BY <1>0, <4>1 DEF WarpStates
      <4>4. control.stop_requested  BY <3>3 DEF IngressFinal, IngressSound
      <4> QED BY <1>0, <3>3, <4>2, <4>3, <4>4
    <3>4. CASE IngressFinal /\ ~(ingress.head >= control.task_tail)
      <4>1. ingress' = [ingress EXCEPT !.pc = "load"]  BY <3>4 DEF IngressFinal
      <4> QED BY <1>0, <3>1, <4>1 DEF WarpStates
    <3> QED BY <1>6, <3>2, <3>3, <3>4
  <2>2. IngressSound'  BY <1>0, <1>2, <2>1 DEF IngressSound
  <2>3. FilledTasks' = {i \in Nat : i < ingress.head}
    BY <1>0, <2>1 DEF FilledTasks, Warps
  <2>4. ingress'.head + ingress'.count = ingress.head + ingress.count  BY <1>0, <2>1
  <2>5. ingress'.head + ingress'.count >= ingress.head + ingress.count  BY <1>0, <2>4
  <2> QED BY <1>1, <1>3, <1>4, <2>2, <2>3, <2>4, <2>5, IngressFrame
<1> QED BY <1>5, <1>6

\* An index whose slot a lane of the ingress warp fills: it was not filled before, a
\* task is still in the external ring, and the index a round before was filled.
LEMMA IngressIndex ==
  ASSUME KernelSound, NEW lane \in ingress.lanes, ingress.pc \in {"lanes", "sentinels"},
         NEW index, index = ingress.head + lane
  PROVE  /\ lane \in Nat /\ index \in Nat /\ index \notin FilledTasks
         /\ index < Rounds \/ index - Rounds \in FilledTasks
         /\ ingress.pc = "lanes" => /\ lane < ingress.count
                                    /\ task_slots[index % Capacity] = index
                                    /\ index \in 0..Sentinel /\ Content[index] = index
         /\ ingress.pc = "sentinels" => lane < CopyWarps /\ Content[index] = Sentinel
<1>0. /\ ingress.head \in Nat /\ ingress.count \in Nat /\ ingress.count <= MetaBatch
      /\ lane \in Nat /\ index \in Nat /\ CopyWarps \in Nat /\ CopyWarps <= Rounds
      /\ MetaBatch <= Rounds /\ MetaBatch \in Nat /\ Rounds \in Nat
      /\ host.completion_head \in Nat /\ control.completion_tail \in Nat
      /\ host.completion_head <= control.completion_tail
      /\ host.submit_tail \in Nat /\ host.submit_tail <= MaxTasks
      /\ control.task_tail = host.submit_tail /\ MaxTasks \in Nat
  BY KernelTypes, Constants, BatchFits
<1> USE DEF KernelSound
<1>1. /\ ingress.pc = "lanes" => lane < ingress.count
      /\ ingress.pc = "sentinels" => lane < CopyWarps /\ ingress.count = 0
  BY <1>0 DEF IngressSound, Warps
<1>2. index \notin FilledTasks
  <2>1. ~(index < ingress.head) /\ index - ingress.head = lane  BY <1>0
  <2> QED BY <2>1 DEF FilledTasks
<1>3. index < Rounds \/ index - Rounds \in FilledTasks
  <2> SUFFICES ASSUME index >= Rounds PROVE index - Rounds \in FilledTasks  BY <1>0
  <2>1. index - Rounds \in Nat /\ index - Rounds < ingress.head  BY <1>0, <1>1
  <2> QED BY <2>1 DEF FilledTasks
<1>4. ASSUME ingress.pc = "lanes"
      PROVE  /\ task_slots[index % Capacity] = index
             /\ index \in 0..Sentinel /\ Content[index] = index
  <2>1. index < ingress.head + ingress.count /\ index < host.submit_tail
    BY <1>0, <1>1, <1>4 DEF IngressSound
  <2>2. host.completion_head <= index
    <3> SUFFICES ASSUME index < host.completion_head PROVE FALSE  BY <1>0
    <3>1. index \in Reported  BY <1>0 DEF Reported
    <3>2. index \in TakenTasks  BY <3>1 DEF RingsSound, FilledDone, TakenTasks
    <3> QED BY <1>2, <3>2 DEF SlotsSound, Handoff
  <2> QED BY <1>0, <2>1, <2>2 DEF RingsSound, Content, Sentinel
<1>5. ASSUME ingress.pc = "sentinels"  PROVE Content[index] = Sentinel
  <2>1. ~(index < ingress.head + ingress.count)  BY <1>0, <1>1, <1>5
  <2> QED BY <1>0, <2>1 DEF Content
<1> QED BY <1>0, <1>1, <1>2, <1>3, <1>4, <1>5

\* A lane fills its slot.
LEMMA IngressFillSound ==
  ASSUME KernelSound, NEW lane \in Lanes, IngressFill(lane)
  PROVE  KernelSound'
<1> DEFINE index == ingress.head + lane
           task == IF ingress.pc = "sentinels" THEN Sentinel ELSE task_slots[index % Capacity]
<1>1. /\ ingress.pc \in {"lanes", "sentinels"} /\ lane \in ingress.lanes
      /\ FreeFor(shared_tasks[Slot(index)], PhaseOf(index))
      /\ shared_tasks' = [shared_tasks EXCEPT ![Slot(index)] = Filled(@, task)]
      /\ ingress' = IF ingress.lanes # {lane} THEN [ingress EXCEPT !.lanes = @ \ {lane}]
                    ELSE IF ingress.pc = "sentinels"
                    THEN [ingress EXCEPT !.pc = "exited", !.lanes = {}]
                    ELSE [ingress EXCEPT !.pc = "load", !.head = @ + ingress.count, !.count = 0,
                                         !.lanes = {}]
      /\ UNCHANGED <<control, host, task_slots, completion_slots, copied, delivered,
                     shared_done, copiers, egress>>
  BY DEF IngressFill, external
<1>2. /\ lane \in Nat /\ index \in Nat /\ index \notin FilledTasks
      /\ index < Rounds \/ index - Rounds \in FilledTasks
      /\ task \in 0..Sentinel /\ task = Content[index]
      /\ ingress.pc = "lanes" => lane < ingress.count
      /\ ingress.pc = "sentinels" => lane < CopyWarps
  BY <1>1, IngressIndex, Constants DEF Sentinel
<1>3. /\ ingress \in WarpStates /\ ingress.head \in Nat /\ ingress.count \in Nat
      /\ ingress.lanes \subseteq Nat /\ CopyWarps \in Nat /\ control.task_tail \in Nat
      /\ FilledTasks \subseteq Nat /\ TakenTasks \subseteq Nat
      /\ ingress.head + ingress.count <= control.task_tail
  BY KernelTypes, KernelBounds, Constants
<1> USE DEF KernelSound
<1> HIDE DEF task
<1>4. /\ shared_tasks' \in Queues(0..Sentinel)
      /\ Handoff(shared_tasks', FilledTasks \cup {index}, TakenTasks, Content)
  <2>1. /\ shared_tasks \in Queues(0..Sentinel)
        /\ Handoff(shared_tasks, FilledTasks, TakenTasks, Content)
    BY DEF SlotsSound
  <2> HIDE DEF index
  <2> QED BY <1>1, <1>2, <1>3, <2>1, FillKeepsHandoff
<1>5. /\ ingress' \in WarpStates
      /\ ingress'.head + ingress'.count = ingress.head + ingress.count
      /\ FilledTasks' = FilledTasks \cup {index}
      /\ ingress.pc = "sentinels" =>
           ingress'.pc \in {"sentinels", "exited"} /\ ingress'.head = ingress.head
      /\ IngressSound'
  <2>1. CASE ingress.lanes # {lane}
    <3>1. ingress' = [ingress EXCEPT !.lanes = ingress.lanes \ {lane}]  BY <1>1, <2>1
    <3>2. ingress.lanes \ {lane} \in LaneSets  BY <1>3 DEF LaneSets
    <3>3. ingress' \in WarpStates  BY <1>3, <3>1, <3>2 DEF WarpStates
    <3>4. /\ ingress'.pc = ingress.pc /\ ingress'.head = ingress.head
          /\ ingress'.count = ingress.count /\ ingress'.lanes = ingress.lanes \ {lane}
      BY <1>3, <3>1 DEF WarpStates
    <3>5. FilledTasks' = FilledTasks \cup {index}
      BY <1>1, <1>2, <1>3, <3>4 DEF FilledTasks
    <3>6. IngressSound'  BY <1>1, <3>3, <3>4 DEF IngressSound
    <3> QED BY <1>1, <3>3, <3>4, <3>5, <3>6
  <2>2. CASE ingress.lanes = {lane} /\ ingress.pc = "sentinels"
    <3>1. ingress' = [ingress EXCEPT !.pc = "exited", !.lanes = {}]  BY <1>1, <2>2
    <3>2. {} \in LaneSets /\ "exited" \in WarpPcs  BY DEF LaneSets, WarpPcs
    <3>3. ingress' \in WarpStates  BY <1>3, <3>1, <3>2 DEF WarpStates
    <3>4. /\ ingress'.pc = "exited" /\ ingress'.head = ingress.head
          /\ ingress'.count = ingress.count /\ ingress'.lanes = {}
      BY <1>3, <3>1 DEF WarpStates
    <3>5. FilledTasks' = FilledTasks \cup {index}
      BY <1>2, <1>3, <2>2, <3>4, SMTT(30) DEF FilledTasks
    <3>6. IngressSound'  BY <1>1, <2>2, <3>3, <3>4 DEF IngressSound
    <3> QED BY <3>3, <3>4, <3>5, <3>6
  <2>3. CASE ingress.lanes = {lane} /\ ingress.pc = "lanes"
    <3>1. ingress' = [ingress EXCEPT !.pc = "load", !.head = ingress.head + ingress.count,
                                     !.count = 0, !.lanes = {}]
      BY <1>1, <2>3
    <3>2. /\ {} \in LaneSets /\ "load" \in WarpPcs /\ ingress.head + ingress.count \in Nat
          /\ 0 \in 0..MetaBatch
      BY <1>3, Constants DEF LaneSets, WarpPcs
    <3>3. ingress' \in WarpStates  BY <1>3, <3>1, <3>2 DEF WarpStates
    <3>4. /\ ingress'.pc = "load" /\ ingress'.head = ingress.head + ingress.count
          /\ ingress'.count = 0 /\ ingress'.lanes = {}
      BY <1>3, <3>1 DEF WarpStates
    <3>5. FilledTasks' = FilledTasks \cup {index}
      BY <1>2, <1>3, <2>3, <3>4, SMTT(30) DEF FilledTasks
    <3>6. IngressSound'  BY <1>1, <1>3, <3>3, <3>4 DEF IngressSound
    <3>7. ingress'.head + ingress'.count = ingress.head + ingress.count  BY <1>3, <3>4
    <3> QED BY <2>3, <3>3, <3>5, <3>6, <3>7
  <2> QED BY <1>1, <2>1, <2>2, <2>3
<1>6. Content' = Content  BY <1>5 DEF Content
<1>7. HostSound' /\ EgressSound'  BY <1>1 DEF HostSound, HostTypeOK, EgressSound
<1>8. /\ FilledDone' = FilledDone /\ TakenTasks' = TakenTasks /\ TakenDone' = TakenDone
      /\ Reported' = Reported
  BY <1>1 DEF FilledDone, TakenTasks, TakenDone, Reported
<1>9. RingsSound'  BY <1>1, <1>8 DEF RingsSound
<1>10. CopiersSound'
  <2>1. \A w \in Warps : CopierSound(w)'  BY <1>1, <1>5 DEF CopiersSound, CopierSound
  <2> QED BY <1>1, <1>5, <1>8, <2>1 DEF CopiersSound
<1>11. SlotsSound'
  BY <1>1, <1>4, <1>5, <1>6, <1>8 DEF SlotsSound, Handoff, Queues
<1> QED BY <1>5, <1>7, <1>9, <1>10, <1>11

-----------------------------------------------------------------------------
(* Copy warps.                                                              *)

\* The index a copy warp is at: its own next one, not reported yet, whose slot has been
\* given back and whose completion slot has been reported for the round before.
NextOfWarp(w, j) ==
  /\ j \in Nat /\ Owner(j) = w /\ Local(j) = copiers[w].local
  /\ Slot(j) = SlotOf(w, copiers[w].local) /\ PhaseOf(j) = Phase(copiers[w].local)
  /\ \A i \in Nat : Owner(i) = w /\ Local(i) = copiers[w].local => i = j
  /\ j \notin FilledDone
  /\ j < Rounds \/ j - Rounds \in FilledDone
  /\ j < Rounds \/ j - Rounds \in TakenTasks

\* The index a copy warp is at, with its slots, and the one a round before it.
LEMMA CopierIndex ==
  ASSUME KernelSound, NEW w \in Warps,
         NEW j, j = copiers[w].local * CopyWarps + w
  PROVE  NextOfWarp(w, j)
<1> DEFINE l == copiers[w].local
<1>0. l \in Nat /\ CopyWarps \in Nat \ {0} /\ Rounds \in Nat \ {0} /\ Depth \in Nat \ {0}
  BY KernelTypes, Constants
<1>1. j \in Nat /\ Owner(j) = w /\ Local(j) = l  BY <1>0, IndexOf
<1>2. Slot(j) = SlotOf(w, l) /\ PhaseOf(j) = Phase(l)  BY <1>1 DEF Slot, PhaseOf
<1>3. \A i \in Nat : Owner(i) = w /\ Local(i) = l => i = j  BY IndexParts
<1>4. j \notin FilledDone  BY <1>0, <1>1 DEF FilledDone
<1>5. ASSUME j >= Rounds PROVE j - Rounds \in FilledDone /\ j - Rounds \in TakenTasks
  <2> DEFINE i == j - Rounds
  <2>1. i \in Nat /\ i + Rounds = j  BY <1>0, <1>1, <1>5
  <2> HIDE DEF i
  <2>2. Owner(i) = w /\ l = Local(i) + Depth  BY <1>1, <2>1, NextRound
  <2>3. Local(i) \in Nat /\ Local(i) < l  BY <1>0, <2>1, <2>2, IndexParts
  <2>4. i \in FilledDone /\ i \in TakenTasks  BY <2>1, <2>2, <2>3 DEF FilledDone, TakenTasks
  <2> QED BY <2>4 DEF i
<1>6. (j < Rounds \/ j - Rounds \in FilledDone) /\ (j < Rounds \/ j - Rounds \in TakenTasks)
  BY <1>0, <1>1, <1>5
<1> QED BY <1>1, <1>2, <1>3, <1>4, <1>6 DEF NextOfWarp

\* A copy warp takes the next task of its own, or its sentinel, and gives the slot back.
LEMMA CopyTakeSound ==
  ASSUME KernelSound, NEW w \in Warps, CopyTake(w)
  PROVE  KernelSound'
<1> DEFINE l == copiers[w].local
           j == l * CopyWarps + w
           task == shared_tasks[SlotOf(w, l)].task
           pc == IF task = Sentinel THEN "exited" ELSE "copy"
<1>1. /\ copiers[w].pc = "take" /\ ReadyFor(shared_tasks[SlotOf(w, l)], Phase(l))
      /\ shared_tasks' = [shared_tasks EXCEPT ![SlotOf(w, l)] = Emptied(@)]
      /\ copiers' = [copiers EXCEPT ![w].pc = pc, ![w].task = task]
      /\ UNCHANGED <<control, host, task_slots, completion_slots, copied, delivered,
                     shared_done, ingress, egress>>
  BY DEF CopyTake, external
<1>2. /\ j \in Nat /\ Owner(j) = w /\ Local(j) = l
      /\ Slot(j) = SlotOf(w, l) /\ PhaseOf(j) = Phase(l)
      /\ \A i \in Nat : Owner(i) = w /\ Local(i) = l => i = j
      /\ j < Rounds \/ j - Rounds \in TakenTasks
  <2>1. j = copiers[w].local * CopyWarps + w /\ l = copiers[w].local  OBVIOUS
  <2> HIDE DEF j, l
  <2>2. NextOfWarp(w, j)  BY <2>1, CopierIndex
  <2> QED BY <2>1, <2>2 DEF NextOfWarp
<1> HIDE DEF j
<1>3. /\ l \in Nat /\ CopyWarps \in Nat \ {0} /\ Rounds \in Nat /\ MaxTasks \in Nat
      /\ ingress.head \in Nat /\ ingress.count \in Nat
      /\ ingress.head + ingress.count <= MaxTasks
      /\ FilledTasks \subseteq Nat /\ TakenTasks \subseteq Nat
  BY KernelTypes, KernelBounds, Constants
<1> USE DEF KernelSound
<1>4. j \notin TakenTasks  BY <1>1, <1>2, <1>3 DEF TakenTasks
<1>5. /\ shared_tasks \in Queues(0..Sentinel)
      /\ Handoff(shared_tasks, FilledTasks, TakenTasks, Content)
  BY DEF SlotsSound
<1>6. j \in FilledTasks  BY <1>1, <1>2, <1>3, <1>5, ReadyMeansFilled
<1>7. task = Content[j]  BY <1>2, <1>4, <1>5, <1>6 DEF Handoff
<1>8. Slot(j) \in SharedSlots /\ task \in 0..Sentinel  BY <1>2, <1>5, SlotRange DEF Queues
<1>9. /\ task # Sentinel => task = j /\ j < ingress.head + ingress.count
      /\ task = Sentinel => ingress.pc \in {"sentinels", "exited"} /\ ingress.head <= j
  <2>1. task # Sentinel => task = j /\ j < ingress.head + ingress.count
    BY <1>2, <1>7 DEF Content
  <2>2. ASSUME task = Sentinel
        PROVE ingress.pc \in {"sentinels", "exited"} /\ ingress.head <= j
    <3>1. ~(j < ingress.head + ingress.count)
      BY <1>2, <1>3, <1>7, <2>2 DEF Content, Sentinel
    <3> HIDE DEF KernelSound
    <3>2. \/ j < ingress.head
          \/ ingress.pc = "lanes" /\ j < ingress.head + ingress.count
          \/ ingress.pc \in {"sentinels", "exited"}
      BY <1>6 DEF FilledTasks
    <3>3. ~(j < ingress.head)  BY <1>2, <1>3, <3>1
    <3> QED BY <1>2, <1>3, <3>1, <3>2, <3>3
  <2> QED BY <2>1, <2>2
<1> HIDE DEF task
<1>10. /\ copiers' \in [Warps -> CopierStates]
       /\ copiers'[w].pc = pc /\ copiers'[w].local = l /\ copiers'[w].task = task
       /\ \A v \in Warps : v # w => copiers'[v] = copiers[v]
       /\ \A v \in Warps : copiers'[v].local = copiers[v].local
  <2>1. copiers \in [Warps -> CopierStates] /\ copiers[w] \in CopierStates  BY DEF CopiersSound
  <2> DEFINE mid == [copiers[w] EXCEPT !.pc = pc]
             new == [mid EXCEPT !.task = task]
  <2>2. pc \in CopierPcs  BY DEF CopierPcs
  <2>3. mid \in CopierStates /\ mid.pc = pc /\ mid.local = l  BY <2>1, <2>2 DEF CopierStates
  <2>4. copiers' = [copiers EXCEPT ![w] = new]  BY <1>1, <2>1
  <2> HIDE DEF mid
  <2>5. new \in CopierStates /\ new.pc = pc /\ new.local = l /\ new.task = task
    BY <1>8, <2>3 DEF CopierStates
  <2> HIDE DEF new
  <2> QED BY <2>1, <2>3, <2>4, <2>5
<1> HIDE DEF pc
<1>11. /\ FilledTasks' = FilledTasks /\ TakenDone' = TakenDone /\ Reported' = Reported
       /\ Content' = Content
  BY <1>1 DEF FilledTasks, TakenDone, Reported, Content
<1>12. FilledDone' = FilledDone
  BY <1>10, IndexParts DEF FilledDone
<1>13. TakenTasks' = TakenTasks \cup {j}
  <2>1. copiers'[w].pc # "take"  BY <1>10 DEF pc
  <2>2. \A i \in Nat : i \in TakenTasks' <=> i \in TakenTasks \cup {j}
    <3> TAKE i \in Nat
    <3>1. Owner(i) \in Warps  BY IndexParts
    <3>2. CASE Owner(i) # w  BY <1>2, <1>10, <3>1, <3>2 DEF TakenTasks
    <3>3. CASE Owner(i) = w
      <4>1. Local(i) = l <=> i = j  BY <1>2, <3>3
      <4> QED BY <1>1, <1>10, <2>1, <3>3, <4>1 DEF TakenTasks
    <3> QED BY <3>2, <3>3
  <2> QED BY <1>2, <1>3, <2>2 DEF TakenTasks
<1>14. /\ shared_tasks' \in Queues(0..Sentinel)
       /\ Handoff(shared_tasks', FilledTasks, TakenTasks \cup {j}, Content)
  <2>1. shared_tasks' \in Queues(0..Sentinel)
    BY <1>1, <1>2, <1>5, <1>8 DEF Queues, Emptied
  <2>2. \A s \in SharedSlots :
          shared_tasks'[s] = IF \E i \in {j} : Slot(i) = s THEN Emptied(shared_tasks[s])
                                                            ELSE shared_tasks[s]
    BY <1>1, <1>2, <1>5, <1>8 DEF Queues
  <2>3. {j} \in SUBSET Nat /\ {j} \subseteq FilledTasks /\ {j} \cap TakenTasks = {}
        /\ \A i \in {j} : i < Rounds \/ i - Rounds \in TakenTasks
    BY <1>2, <1>4, <1>6
  <2> QED BY <1>3, <1>5, <2>1, <2>2, <2>3, TakeKeepsHandoff
<1>15. HostSound' /\ IngressSound' /\ EgressSound'
  BY <1>1 DEF HostSound, HostTypeOK, IngressSound, EgressSound
<1>16. RingsSound'  BY <1>1, <1>11, <1>12 DEF RingsSound
<1>17. SlotsSound'
  BY <1>1, <1>5, <1>11, <1>12, <1>13, <1>14 DEF SlotsSound, Handoff, Queues
<1>18. CopiersSound'
  <2>1. \A v \in Warps : CopierSound(v)'
    <3> TAKE v \in Warps
    <3>1. CASE v # w  BY <1>1, <1>10, <3>1 DEF CopiersSound, CopierSound
    <3>2. CASE v = w  BY <1>1, <1>9, <1>10, <3>2 DEF CopierSound, pc, j
    <3> QED BY <3>1, <3>2
  <2>2. \A t \in Tasks :
          (Local(t) = copiers'[Owner(t)].local /\ copiers'[Owner(t)].pc = "complete")
            <=> (Local(t) = copiers[Owner(t)].local /\ copiers[Owner(t)].pc = "complete")
    <3> TAKE t \in Tasks
    <3>1. t \in Nat /\ Owner(t) \in Warps  BY <1>3, IndexParts DEF Tasks
    <3>2. copiers'[w].pc # "complete"  BY <1>10 DEF pc
    <3> QED BY <1>1, <1>10, <3>1, <3>2
  <2>3. \A t \in Tasks : copied'[t] = copied[t]  BY <1>1
  <2>4. \A i \in FilledDone' : i < ingress'.head + ingress'.count
    BY <1>1, <1>12 DEF CopiersSound
  <2> QED BY <1>10, <1>12, <2>1, <2>2, <2>3, <2>4 DEF CopiersSound
<1> QED BY <1>15, <1>16, <1>17, <1>18

\* A copy warp copies the task it took, which nobody copied before.
LEMMA CopyRunSound ==
  ASSUME KernelSound, NEW w \in Warps, CopyRun(w)
  PROVE  /\ KernelSound'
         /\ copiers[w].task \in Tasks /\ copiers[w].task < host.submit_tail
         /\ copied[copiers[w].task] = 0
<1> DEFINE l == copiers[w].local
           j == l * CopyWarps + w
<1>1. /\ copiers[w].pc = "copy"
      /\ copied' = [copied EXCEPT ![copiers[w].task] = @ + 1]
      /\ copiers' = [copiers EXCEPT ![w].pc = "complete"]
      /\ UNCHANGED <<control, host, task_slots, completion_slots, delivered, shared_tasks,
                     shared_done, ingress, egress>>
  BY DEF CopyRun, external
<1>2. /\ j \in Nat /\ Owner(j) = w /\ Local(j) = l
      /\ \A i \in Nat : Owner(i) = w /\ Local(i) = l => i = j
      /\ j \notin FilledDone
  <2>1. j = copiers[w].local * CopyWarps + w /\ l = copiers[w].local  OBVIOUS
  <2> HIDE DEF j, l
  <2>2. NextOfWarp(w, j)  BY <2>1, CopierIndex
  <2> QED BY <2>1, <2>2 DEF NextOfWarp
<1>4. /\ l \in Nat /\ MaxTasks \in Nat /\ ingress.head \in Nat /\ ingress.count \in Nat
      /\ ingress.head + ingress.count <= host.submit_tail
      /\ host.submit_tail \in Nat /\ host.submit_tail <= MaxTasks
  BY KernelTypes, KernelBounds, Constants
<1> USE DEF KernelSound
<1>3. copiers[w].task = j /\ j < ingress.head + ingress.count
  BY <1>1 DEF CopiersSound, CopierSound
<1> HIDE DEF j
<1>5. j \in Tasks /\ j < host.submit_tail  BY <1>2, <1>3, <1>4 DEF Tasks
<1>6. copied \in [Tasks -> Nat]  BY DEF HostSound, HostTypeOK
<1>7. copied[j] = 0  BY <1>1, <1>2, <1>5 DEF CopiersSound
<1>8. /\ copied' \in [Tasks -> Nat] /\ copied'[j] = 1
      /\ \A t \in Tasks : t # j => copied'[t] = copied[t]
  BY <1>1, <1>3, <1>5, <1>6, <1>7
<1>9. /\ copiers' \in [Warps -> CopierStates]
      /\ copiers'[w].pc = "complete" /\ copiers'[w].local = l
      /\ copiers'[w].task = copiers[w].task
      /\ \A v \in Warps : v # w => copiers'[v] = copiers[v]
      /\ \A v \in Warps : copiers'[v].local = copiers[v].local
  <2>1. copiers \in [Warps -> CopierStates] /\ copiers[w] \in CopierStates  BY DEF CopiersSound
  <2> DEFINE new == [copiers[w] EXCEPT !.pc = "complete"]
  <2>2. "complete" \in CopierPcs  BY DEF CopierPcs
  <2>3. /\ new \in CopierStates /\ new.pc = "complete" /\ new.local = l
        /\ new.task = copiers[w].task
    BY <2>1, <2>2 DEF CopierStates
  <2>4. copiers' = [copiers EXCEPT ![w] = new]  BY <1>1, <2>1
  <2> HIDE DEF new
  <2> QED BY <2>1, <2>3, <2>4
<1>10. /\ FilledTasks' = FilledTasks /\ TakenDone' = TakenDone /\ Reported' = Reported
       /\ Content' = Content
  BY <1>1 DEF FilledTasks, TakenDone, Reported, Content
<1>11. FilledDone' = FilledDone  BY <1>9, IndexParts DEF FilledDone
<1>12. TakenTasks' = TakenTasks
  <2>1. \A v \in Warps : copiers'[v].pc = "take" <=> copiers[v].pc = "take"
    BY <1>1, <1>9
  <2> QED BY <1>9, <2>1, IndexParts DEF TakenTasks
<1>13. HostSound' /\ IngressSound' /\ EgressSound'
  BY <1>1, <1>8 DEF HostSound, HostTypeOK, IngressSound, EgressSound
<1>14. RingsSound'  BY <1>1, <1>10, <1>11 DEF RingsSound
<1>15. SlotsSound'
  BY <1>1, <1>10, <1>11, <1>12 DEF SlotsSound, Handoff, Queues
<1>16. CopiersSound'
  <2>1. \A v \in Warps : CopierSound(v)'
    BY <1>1, <1>9 DEF CopiersSound, CopierSound
  <2>2. ASSUME NEW t \in Tasks
        PROVE  copied'[t] = IF \/ t \in FilledDone'
                               \/ Local(t) = copiers'[Owner(t)].local
                                  /\ copiers'[Owner(t)].pc = "complete"
                            THEN 1 ELSE 0
    <3>1. t \in Nat /\ Owner(t) \in Warps  BY <1>4, IndexParts DEF Tasks
    <3>2. CASE t = j  BY <1>2, <1>8, <1>9, <3>2
    <3>3. CASE t # j
      <4>1. ~(Owner(t) = w /\ Local(t) = l)  BY <1>2, <3>1, <3>3
      <4>2. (Local(t) = copiers'[Owner(t)].local /\ copiers'[Owner(t)].pc = "complete")
              <=> (Local(t) = copiers[Owner(t)].local /\ copiers[Owner(t)].pc = "complete")
        BY <1>9, <3>1, <4>1
      <4> QED BY <1>8, <1>11, <3>3, <4>2 DEF CopiersSound
    <3> QED BY <3>2, <3>3
  <2>3. \A i \in FilledDone' : i < ingress'.head + ingress'.count
    BY <1>1, <1>11 DEF CopiersSound
  <2> QED BY <1>9, <2>1, <2>2, <2>3 DEF CopiersSound
<1> QED BY <1>3, <1>5, <1>7, <1>13, <1>14, <1>15, <1>16

\* A copy warp reports its task and goes on to the next of its own.
LEMMA CopyCompleteSound ==
  ASSUME KernelSound, NEW w \in Warps, CopyComplete(w)
  PROVE  KernelSound'
<1> DEFINE l == copiers[w].local
           j == l * CopyWarps + w
<1>1. /\ copiers[w].pc = "complete" /\ FreeFor(shared_done[SlotOf(w, l)], Phase(l))
      /\ shared_done' = [shared_done EXCEPT ![SlotOf(w, l)] = Filled(@, copiers[w].task)]
      /\ copiers' = [copiers EXCEPT ![w].pc = "take", ![w].local = @ + 1, ![w].task = NoTask]
      /\ UNCHANGED <<control, host, task_slots, completion_slots, copied, delivered,
                     shared_tasks, ingress, egress>>
  BY DEF CopyComplete, external
<1>2. /\ j \in Nat /\ Owner(j) = w /\ Local(j) = l
      /\ Slot(j) = SlotOf(w, l) /\ PhaseOf(j) = Phase(l)
      /\ \A i \in Nat : Owner(i) = w /\ Local(i) = l => i = j
      /\ j \notin FilledDone
      /\ j < Rounds \/ j - Rounds \in FilledDone
  <2>1. j = copiers[w].local * CopyWarps + w /\ l = copiers[w].local  OBVIOUS
  <2> HIDE DEF j, l
  <2>2. NextOfWarp(w, j)  BY <2>1, CopierIndex
  <2> QED BY <2>1, <2>2 DEF NextOfWarp
<1>4. /\ l \in Nat /\ MaxTasks \in Nat /\ ingress.head \in Nat /\ ingress.count \in Nat
      /\ ingress.head + ingress.count <= MaxTasks
      /\ FilledDone \subseteq Nat /\ TakenDone \subseteq Nat
  <2>1. /\ l \in Nat /\ ingress.head \in Nat /\ ingress.count \in Nat
        /\ FilledDone \subseteq Nat /\ TakenDone \subseteq Nat
        /\ host.submit_tail \in Nat /\ host.submit_tail <= MaxTasks
        /\ control.task_tail = host.submit_tail
    BY KernelTypes
  <2>2. ingress.head + ingress.count <= control.task_tail  BY KernelBounds
  <2> QED BY <2>1, <2>2, Constants
<1> USE DEF KernelSound
<1>3. copiers[w].task = j /\ j < ingress.head + ingress.count
  BY <1>1 DEF CopiersSound, CopierSound
<1> HIDE DEF j
<1> HIDE DEF l
<1>14. \A a \in Nat : a < l + 1 <=> (a < l \/ a = l)  BY <1>4
<1> USE DEF l
<1>5. /\ copiers' \in [Warps -> CopierStates]
      /\ copiers'[w].pc = "take" /\ copiers'[w].local = l + 1
      /\ \A v \in Warps : v # w => copiers'[v] = copiers[v]
  <2>1. copiers \in [Warps -> CopierStates] /\ copiers[w] \in CopierStates  BY DEF CopiersSound
  <2> DEFINE first == [copiers[w] EXCEPT !.pc = "take"]
             mid == [first EXCEPT !.local = l + 1]
             new == [mid EXCEPT !.task = NoTask]
  <2>2. "take" \in CopierPcs /\ NoTask \in 0..Sentinel /\ l + 1 \in Nat
    BY <1>4 DEF CopierPcs, NoTask, Sentinel
  <2>3. first \in CopierStates /\ first.pc = "take" /\ first.local = l
    BY <2>1, <2>2 DEF CopierStates
  <2>4. copiers' = [copiers EXCEPT ![w] = new]  BY <1>1, <2>1
  <2> HIDE DEF first
  <2>5. mid \in CopierStates /\ mid.pc = "take" /\ mid.local = l + 1
    BY <2>2, <2>3 DEF CopierStates
  <2> HIDE DEF mid
  <2>6. new \in CopierStates /\ new.pc = "take" /\ new.local = l + 1
    BY <2>2, <2>5 DEF CopierStates
  <2> HIDE DEF new
  <2> QED BY <2>1, <2>4, <2>6
<1>6. /\ FilledTasks' = FilledTasks /\ TakenDone' = TakenDone /\ Reported' = Reported
      /\ Content' = Content
  BY <1>1 DEF FilledTasks, TakenDone, Reported, Content
<1>7. FilledDone' = FilledDone \cup {j}
  <2>1. \A i \in Nat : i \in FilledDone' <=> i \in FilledDone \cup {j}
    <3> TAKE i \in Nat
    <3>1. Owner(i) \in Warps /\ Local(i) \in Nat  BY IndexParts
    <3>2. CASE Owner(i) # w  BY <1>2, <1>5, <3>1, <3>2 DEF FilledDone
    <3>3. CASE Owner(i) = w
      <4>1. Local(i) = l <=> i = j  BY <1>2, <3>3
      <4>2. Local(i) < l + 1 <=> (Local(i) < l \/ Local(i) = l)  BY <1>14, <3>1
      <4> QED BY <1>5, <3>3, <4>1, <4>2 DEF FilledDone
    <3> QED BY <3>2, <3>3
  <2> QED BY <1>2, <1>4, <2>1 DEF FilledDone
<1>8. TakenTasks' = TakenTasks
  <2>1. \A i \in Nat : i \in TakenTasks' <=> i \in TakenTasks
    <3> TAKE i \in Nat
    <3>1. Owner(i) \in Warps /\ Local(i) \in Nat  BY IndexParts
    <3>2. CASE Owner(i) # w  BY <1>5, <3>1, <3>2 DEF TakenTasks
    <3>3. CASE Owner(i) = w
      <4>1. Local(i) < l + 1 <=> (Local(i) < l \/ Local(i) = l)  BY <1>14, <3>1
      <4> QED BY <1>1, <1>5, <3>3, <4>1 DEF TakenTasks
    <3> QED BY <3>2, <3>3
  <2> QED BY <2>1 DEF TakenTasks
<1>9. /\ shared_done' \in Queues(0..MaxTasks)
      /\ Handoff(shared_done', FilledDone \cup {j}, TakenDone, [i \in Nat |-> i])
  <2>1. /\ shared_done \in Queues(0..MaxTasks)
        /\ Handoff(shared_done, FilledDone, TakenDone, [i \in Nat |-> i])
    BY DEF SlotsSound
  <2>2. j \in 0..MaxTasks /\ j = [i \in Nat |-> i][j]
    <3> HIDE DEF KernelSound
    <3>1. j <= MaxTasks  BY <1>2, <1>3, <1>4
    <3> QED BY <1>2, <1>4, <3>1
  <2>3. shared_done' = [shared_done EXCEPT ![Slot(j)] = Filled(@, j)]  BY <1>1, <1>2, <1>3
  <2>4. FreeFor(shared_done[Slot(j)], PhaseOf(j))  BY <1>1, <1>2
  <2> DEFINE same == [i \in Nat |-> i]
  <2> HIDE DEF same
  <2>5. /\ shared_done' \in Queues(0..MaxTasks)
        /\ Handoff(shared_done', FilledDone \cup {j}, TakenDone, same)
    BY <1>2, <1>4, <2>1, <2>2, <2>3, <2>4, FillKeepsHandoff DEF same
  <2> QED BY <2>5 DEF same
<1>10. HostSound' /\ IngressSound' /\ EgressSound'
  BY <1>1 DEF HostSound, HostTypeOK, IngressSound, EgressSound
<1>11. RingsSound'  BY <1>1, <1>6, <1>7 DEF RingsSound
<1>12. SlotsSound'
  BY <1>1, <1>6, <1>7, <1>8, <1>9 DEF SlotsSound, Handoff, Queues
<1>13. CopiersSound'
  <2>1. \A v \in Warps : CopierSound(v)'
    BY <1>1, <1>5 DEF CopiersSound, CopierSound
  <2>2. ASSUME NEW t \in Tasks
        PROVE  copied'[t] = IF \/ t \in FilledDone'
                               \/ Local(t) = copiers'[Owner(t)].local
                                  /\ copiers'[Owner(t)].pc = "complete"
                            THEN 1 ELSE 0
    <3>1. t \in Nat /\ Owner(t) \in Warps  BY <1>4, IndexParts DEF Tasks
    <3>2. CASE Owner(t) # w
      <4>1. t # j  BY <1>2, <3>2
      <4> QED BY <1>1, <1>5, <1>7, <3>1, <3>2, <4>1 DEF CopiersSound
    <3>3. CASE Owner(t) = w
      <4>1. Local(t) = l <=> t = j  BY <1>2, <3>1, <3>3
      <4>2. copiers'[Owner(t)].pc # "complete"  BY <1>5, <3>3
      <4> QED BY <1>1, <1>7, <3>3, <4>1, <4>2 DEF CopiersSound
    <3> QED BY <3>2, <3>3
  <2>3. \A i \in FilledDone' : i < ingress'.head + ingress'.count
    BY <1>1, <1>3, <1>7 DEF CopiersSound
  <2> QED BY <1>5, <2>1, <2>2, <2>3 DEF CopiersSound
<1> QED BY <1>10, <1>11, <1>12, <1>13

-----------------------------------------------------------------------------
(* Egress warp.                                                             *)

\* A step of the egress warp that touches its registers only, and neither reports
\* nor releases anything.
LEMMA EgressFrame ==
  ASSUME KernelSound, EgressSound', Reported' = Reported, egress'.head = egress.head,
         egress.pc # "release", egress'.pc # "release",
         UNCHANGED <<external, copied, delivered, shared_tasks, shared_done, ingress, copiers>>
  PROVE  KernelSound'
<1> USE DEF KernelSound
<1>1. UNCHANGED <<control, host, task_slots, completion_slots>>  BY DEF external
<1>2. HostSound' /\ IngressSound'  BY <1>1 DEF HostSound, HostTypeOK, IngressSound
<1>3. CopiersSound'  BY FrameCopiers
<1>4. /\ FilledTasks' = FilledTasks /\ FilledDone' = FilledDone /\ TakenTasks' = TakenTasks
      /\ TakenDone' = TakenDone /\ Content' = Content
  BY DEF FilledTasks, FilledDone, TakenTasks, TakenDone, Content
<1>5. RingsSound'  BY <1>1, <1>4 DEF RingsSound
<1>6. SlotsSound'  BY <1>4 DEF SlotsSound, Handoff, Queues
<1> QED BY <1>2, <1>3, <1>5, <1>6

\* Loading the tail, looking at the stop flag and the last look at the tail.
LEMMA EgressLooksSound ==
  ASSUME KernelSound, EgressLoad \/ EgressStop \/ EgressFinal
  PROVE  KernelSound'
<1>0. /\ egress \in WarpStates /\ egress.head \in Nat /\ egress.count = 0
      /\ egress.head <= control.task_tail /\ control.task_tail \in Nat
      /\ egress.pc \in {"load", "stop", "final"} /\ control.completion_tail = egress.head
  <2>1. egress.pc \in {"load", "stop", "final"}  BY DEF EgressLoad, EgressStop, EgressFinal
  <2> QED BY <2>1, KernelTypes, KernelBounds
<1> USE DEF KernelSound
<1>1. UNCHANGED <<external, copied, delivered, shared_tasks, shared_done, ingress, copiers>>
  BY DEF EgressLoad, EgressStop, EgressFinal
<1>2. UNCHANGED control  BY <1>1 DEF external
<1>3. Reported = {i \in Nat : i < egress.head}  BY <1>0 DEF Reported
<1>4. CASE EgressLoad
  <2>1. /\ egress' \in WarpStates /\ egress'.head = egress.head
        /\ egress'.head + egress'.count <= control.task_tail
        /\ \/ egress'.pc = "lanes" /\ egress'.lanes = 0..(egress'.count - 1)
           \/ egress'.pc = "stop" /\ egress'.count = 0
    BY <1>0, <1>4, BatchEffect DEF EgressLoad
  <2>2. EgressSound'  BY <1>0, <1>2, <2>1 DEF EgressSound
  <2>3. egress'.count \in Nat  BY <2>1, Constants DEF WarpStates
  <2>4. Reported' = {i \in Nat : i < egress.head}
    <3> HIDE DEF KernelSound
    <3>1. egress'.pc = "lanes" => \A i \in Nat :
            i < egress.head + egress'.count /\ i - egress.head \notin egress'.lanes
              => i < egress.head
      BY <1>0, <2>1, <2>3
    <3> QED BY <1>0, <1>2, <2>1, <3>1 DEF Reported
  <2> QED BY <1>0, <1>1, <1>3, <2>1, <2>2, <2>4, EgressFrame
<1>5. CASE EgressStop \/ EgressFinal
  <2>1. PICK pc \in {"load", "final", "exited"} : egress' = [egress EXCEPT !.pc = pc]
    BY <1>5 DEF EgressStop, EgressFinal
  <2>2. pc \in WarpPcs  BY DEF WarpPcs
  <2>3. /\ egress' \in WarpStates /\ egress'.head = egress.head /\ egress'.count = 0
        /\ egress'.pc = pc
    BY <1>0, <2>1, <2>2 DEF WarpStates
  <2>4. EgressSound'  BY <1>0, <1>2, <2>3 DEF EgressSound
  <2>5. Reported' = {i \in Nat : i < egress.head}  BY <1>0, <1>2, <2>3 DEF Reported
  <2> QED BY <1>0, <1>1, <1>3, <2>3, <2>4, <2>5, EgressFrame
<1> QED BY <1>4, <1>5

\* A lane writes the completion of its index into the external ring.
LEMMA EgressWriteSound ==
  ASSUME KernelSound, NEW lane \in Lanes, EgressWrite(lane)
  PROVE  KernelSound'
<1> DEFINE j == egress.head + lane
<1>1. /\ egress.pc = "lanes" /\ lane \in egress.lanes
      /\ ReadyFor(shared_done[Slot(j)], PhaseOf(j))
      /\ completion_slots' = [completion_slots EXCEPT ![j % Capacity] = shared_done[Slot(j)].task]
      /\ egress' = [egress EXCEPT !.lanes = egress.lanes \ {lane}]
      /\ UNCHANGED <<control, task_slots, host, copied, delivered, shared_tasks, shared_done,
                     ingress, copiers>>
  BY DEF EgressWrite
<1>2. /\ egress \in WarpStates /\ egress.head \in Nat /\ egress.count \in Nat
      /\ egress.count <= MetaBatch /\ egress.lanes \subseteq 0..(egress.count - 1)
      /\ egress.head + egress.count <= host.submit_tail
      /\ control.completion_tail = egress.head
      /\ host.submit_tail \in Nat /\ host.submit_tail <= MaxTasks /\ MaxTasks \in Nat
      /\ host.completion_head \in Nat /\ host.completion_head <= egress.head
      /\ host.submit_tail <= host.completion_head + Capacity /\ Capacity \in Nat \ {0}
      /\ MetaBatch \in Nat /\ MetaBatch <= Rounds /\ Rounds \in Nat
      /\ FilledDone \subseteq Nat /\ TakenDone \subseteq Nat /\ Reported \subseteq Nat
  BY <1>1, KernelTypes, KernelBounds, Constants, BatchFits
<1>3. /\ lane \in Nat /\ lane < egress.count /\ j \in Nat /\ j < host.submit_tail
      /\ host.completion_head <= j /\ j \notin TakenDone
  BY <1>1, <1>2 DEF TakenDone
<1>4. j < Rounds \/ j - Rounds \in TakenDone
  <2>1. j < egress.head + Rounds  BY <1>2, <1>3
  <2>2. j >= Rounds => j - Rounds \in Nat /\ j - Rounds < egress.head  BY <1>2, <1>3, <2>1
  <2> QED BY <1>2, <1>3, <2>2 DEF TakenDone
<1> USE DEF KernelSound
<1>5. Handoff(shared_done, FilledDone, TakenDone, [i \in Nat |-> i])  BY DEF SlotsSound
<1>6. j \in FilledDone
  <2> HIDE DEF j
  <2> QED BY <1>1, <1>2, <1>3, <1>4, <1>5, ReadyMeansFilled
<1>7. shared_done[Slot(j)].task = j  BY <1>3, <1>5, <1>6 DEF Handoff
<1>8. \A i \in Nat : i % Capacity \in Slots  BY <1>2, DivisionTheorem DEF Slots
<1>9. /\ completion_slots \in [Slots -> 0..MaxTasks]
      /\ completion_slots' \in [Slots -> 0..MaxTasks]
      /\ completion_slots'[j % Capacity] = j
      /\ \A s \in Slots : s # j % Capacity => completion_slots'[s] = completion_slots[s]
  <2>1. completion_slots \in [Slots -> 0..MaxTasks]  BY DEF HostSound, HostTypeOK
  <2>2. j \in 0..MaxTasks /\ j % Capacity \in Slots  BY <1>2, <1>3, <1>8
  <2> HIDE DEF j
  <2> QED BY <1>1, <1>7, <2>1, <2>2
<1>10. /\ egress' \in WarpStates /\ egress'.pc = "lanes" /\ egress'.head = egress.head
       /\ egress'.count = egress.count /\ egress'.lanes = egress.lanes \ {lane}
  <2>1. egress.lanes \ {lane} \in LaneSets  BY <1>2 DEF LaneSets
  <2> QED BY <1>1, <1>2, <2>1 DEF WarpStates
<1>11. Reported' = Reported \cup {j}
  BY <1>1, <1>2, <1>3, <1>10 DEF Reported
<1>12. HostSound' /\ IngressSound'  BY <1>1, <1>9 DEF HostSound, HostTypeOK, IngressSound
<1>13. EgressSound'  BY <1>1, <1>10 DEF EgressSound
<1>14. CopiersSound'  BY <1>1, FrameCopiers
<1>15. /\ FilledTasks' = FilledTasks /\ FilledDone' = FilledDone /\ TakenTasks' = TakenTasks
       /\ TakenDone' = TakenDone /\ Content' = Content
  BY <1>1, <1>10 DEF FilledTasks, FilledDone, TakenTasks, TakenDone, Content
<1>16. RingsSound'
  <2>1. ASSUME NEW i \in Reported', host.completion_head <= i
        PROVE  completion_slots'[i % Capacity] = i
    <3>1. CASE i = j  BY <1>9, <3>1
    <3>2. CASE i # j
      <4>1. i \in Reported /\ i \in Nat  BY <1>2, <1>11, <2>1, <3>2
      <4>2. i < host.submit_tail
        <5> HIDE DEF KernelSound
        <5> QED BY <1>2, <4>1 DEF Reported
      <4>3. i % Capacity # j % Capacity
        <5>1. /\ i < host.completion_head + Capacity /\ j < host.completion_head + Capacity
          BY <1>2, <1>3, <4>1, <4>2
        <5> HIDE DEF j
        <5> QED BY <1>2, <1>3, <2>1, <3>2, <4>1, <5>1, SlotsInjective
      <4> QED BY <1>8, <1>9, <2>1, <4>1, <4>3 DEF RingsSound
    <3> QED BY <3>1, <3>2
  <2>2. Reported' \subseteq FilledDone'  BY <1>6, <1>11, <1>15 DEF RingsSound
  <2> HIDE DEF j
  <2> QED BY <1>1, <2>1, <2>2 DEF RingsSound
<1>17. SlotsSound'  BY <1>1, <1>15 DEF SlotsSound, Handoff, Queues
<1> QED BY <1>12, <1>13, <1>14, <1>16, <1>17

\* The batch is published when every lane has written its completion.
LEMMA EgressPublishSound ==
  ASSUME KernelSound, EgressPublish
  PROVE  KernelSound'
<1>1. /\ egress.pc = "lanes" /\ egress.lanes = {}
      /\ control' = [control EXCEPT !.completion_tail = egress.head + egress.count]
      /\ egress' = [egress EXCEPT !.pc = "release", !.lanes = 0..(egress.count - 1)]
      /\ UNCHANGED <<task_slots, completion_slots, host, copied, delivered, shared_tasks,
                     shared_done, ingress, copiers>>
  BY DEF EgressPublish
<1>2. /\ egress \in WarpStates /\ egress.head \in Nat /\ egress.count \in Nat
      /\ egress.head + egress.count <= control.task_tail
      /\ control.completion_tail = egress.head
      /\ host.submit_tail \in Nat /\ host.submit_tail <= MaxTasks /\ MaxTasks \in Nat
      /\ control.task_tail = host.submit_tail
  BY <1>1, KernelTypes, KernelBounds, Constants
<1> USE DEF KernelSound
<1>3. /\ egress' \in WarpStates /\ egress'.pc = "release" /\ egress'.head = egress.head
      /\ egress'.count = egress.count /\ egress'.lanes = 0..(egress.count - 1)
  <2>1. "release" \in WarpPcs /\ 0..(egress.count - 1) \in LaneSets
    BY <1>2 DEF WarpPcs, LaneSets
  <2> QED BY <1>1, <1>2, <2>1 DEF WarpStates
<1>4. /\ control' \in [task_tail : 0..MaxTasks, completion_tail : 0..MaxTasks,
                       stop_requested : BOOLEAN]
      /\ control'.task_tail = control.task_tail
      /\ control'.stop_requested = control.stop_requested
      /\ control'.completion_tail = egress.head + egress.count
      /\ control'.completion_tail >= control.completion_tail
  <2>1. egress.head + egress.count \in 0..MaxTasks  BY <1>2
  <2>2. egress.head + egress.count >= control.completion_tail  BY <1>2
  <2>3. control \in [task_tail : 0..MaxTasks, completion_tail : 0..MaxTasks,
                     stop_requested : BOOLEAN]
    BY DEF HostSound, HostTypeOK
  <2> QED BY <1>1, <2>1, <2>2, <2>3
<1>5. Reported' = Reported  BY <1>1, <1>2, <1>3, <1>4 DEF Reported
<1>6. HostSound'
  <2>1. host.cached_completion_tail <= control'.completion_tail
    <3>1. /\ host.cached_completion_tail <= control.completion_tail
          /\ host.cached_completion_tail \in Nat
      BY Constants DEF HostSound, HostTypeOK
    <3> HIDE DEF KernelSound
    <3> QED BY <1>2, <1>4, <3>1
  <2> QED BY <1>1, <1>4, <2>1 DEF HostSound, HostTypeOK
<1>7. IngressSound'  BY <1>1, <1>4 DEF IngressSound
<1>8. EgressSound'  BY <1>2, <1>3, <1>4 DEF EgressSound
<1>9. CopiersSound'  BY <1>1, FrameCopiers
<1>10. /\ FilledTasks' = FilledTasks /\ FilledDone' = FilledDone /\ TakenTasks' = TakenTasks
       /\ TakenDone' = TakenDone /\ Content' = Content
  <2>1. TakenDone = {i \in Nat : i < egress.head}  BY <1>1 DEF TakenDone
  <2>2. TakenDone' = {i \in Nat : i < egress.head}
    <3> HIDE DEF KernelSound
    <3>1. \A i \in Nat : i < egress.head + egress.count /\ i - egress.head \notin egress'.lanes
            => i < egress.head
      BY <1>2, <1>3
    <3> QED BY <1>2, <1>3, <3>1 DEF TakenDone
  <2> QED BY <1>1, <2>1, <2>2 DEF FilledTasks, FilledDone, TakenTasks, Content
<1>11. RingsSound'  BY <1>1, <1>5, <1>10 DEF RingsSound
<1>12. SlotsSound'  BY <1>1, <1>10 DEF SlotsSound, Handoff, Queues
<1> QED BY <1>6, <1>7, <1>8, <1>9, <1>11, <1>12

\* A lane gives the slot of its published completion back.
LEMMA EgressReleaseSound ==
  ASSUME KernelSound, NEW lane \in Lanes, EgressRelease(lane)
  PROVE  KernelSound'
<1> DEFINE j == egress.head + lane
           more == [egress EXCEPT !.lanes = egress.lanes \ {lane}]
           over == [egress EXCEPT !.pc = "load", !.head = egress.head + egress.count, !.count = 0,
                                  !.lanes = {}]
<1>1. /\ egress.pc = "release" /\ lane \in egress.lanes
      /\ shared_done' = [shared_done EXCEPT ![Slot(j)] = Emptied(@)]
      /\ egress' = IF egress.lanes # {lane} THEN more ELSE over
      /\ UNCHANGED <<control, host, task_slots, completion_slots, copied, delivered,
                     shared_tasks, ingress, copiers>>
  BY DEF EgressRelease, external
<1>2. /\ egress \in WarpStates /\ egress.head \in Nat /\ egress.count \in Nat
      /\ egress.count <= MetaBatch /\ egress.lanes \subseteq 0..(egress.count - 1)
      /\ egress.head + egress.count <= control.task_tail
      /\ control.completion_tail = egress.head + egress.count
      /\ MetaBatch \in Nat /\ MetaBatch <= Rounds /\ Rounds \in Nat
      /\ FilledDone \subseteq Nat /\ TakenDone \subseteq Nat
  BY <1>1, KernelTypes, KernelBounds, Constants, BatchFits
<1>3. /\ lane \in Nat /\ lane < egress.count /\ j \in Nat /\ j < egress.head + egress.count
      /\ j - egress.head = lane /\ egress.head <= j
  BY <1>1, <1>2
<1> USE DEF KernelSound
<1>4. /\ egress' \in WarpStates
      /\ \/ /\ egress'.pc = "release" /\ egress'.head = egress.head
            /\ egress'.count = egress.count /\ egress'.lanes = egress.lanes \ {lane}
         \/ /\ egress'.pc = "load" /\ egress'.head = egress.head + egress.count
            /\ egress'.count = 0 /\ egress.lanes = {lane}
  <2>1. egress.lanes \ {lane} \in LaneSets /\ {} \in LaneSets  BY <1>2 DEF LaneSets
  <2>2. "load" \in WarpPcs /\ egress.head + egress.count \in Nat /\ 0 \in 0..MetaBatch
    BY <1>2 DEF WarpPcs
  <2> QED BY <1>1, <1>2, <2>1, <2>2 DEF WarpStates
<1>5. TakenDone' = TakenDone \cup {j}
  <2> HIDE DEF KernelSound
  <2>1. CASE egress'.pc = "release"
    BY <1>1, <1>2, <1>3, <1>4, <2>1 DEF TakenDone
  <2>2. CASE egress'.pc = "load"
    BY <1>1, <1>2, <1>3, <1>4, <2>2 DEF TakenDone
  <2> QED BY <1>4, <2>1, <2>2
<1>6. /\ shared_done \in Queues(0..MaxTasks)
      /\ Handoff(shared_done, FilledDone, TakenDone, [i \in Nat |-> i])
  BY DEF SlotsSound
<1>7. Slot(j) \in SharedSlots  BY <1>3, SlotRange
<1>8. shared_done' \in Queues(0..MaxTasks)
  <2> HIDE DEF j
  <2> QED BY <1>1, <1>6, <1>7 DEF Queues, Emptied
<1>9. j \notin TakenDone /\ (j < Rounds \/ j - Rounds \in TakenDone)
  <2> HIDE DEF KernelSound
  <2>1. j \notin TakenDone  BY <1>1, <1>2, <1>3 DEF TakenDone
  <2>2. j < egress.head + Rounds  BY <1>2, <1>3
  <2>3. j >= Rounds => j - Rounds \in Nat /\ j - Rounds < egress.head  BY <1>2, <1>3, <2>2
  <2> QED BY <1>2, <1>3, <2>1, <2>3 DEF TakenDone
<1>10. j \in FilledDone  BY <1>2, <1>3 DEF RingsSound, Reported
<1>11. Handoff(shared_done', FilledDone, TakenDone \cup {j}, [i \in Nat |-> i])
  <2> DEFINE same == [i \in Nat |-> i]
             J == {j}
  <2>1. Handoff(shared_done, FilledDone, TakenDone, same)  BY <1>6
  <2>2. \A s \in SharedSlots :
          shared_done'[s] = IF \E i \in J : Slot(i) = s THEN Emptied(shared_done[s])
                                                        ELSE shared_done[s]
    BY <1>1, <1>6, <1>7 DEF Queues
  <2>3. /\ J \in SUBSET Nat /\ J \subseteq FilledDone /\ J \cap TakenDone = {}
        /\ \A i \in J : i < Rounds \/ i - Rounds \in TakenDone
    BY <1>3, <1>9, <1>10
  <2> HIDE DEF same, J
  <2>4. Handoff(shared_done', FilledDone, TakenDone \cup J, same)
    BY <1>2, <1>6, <1>8, <2>1, <2>2, <2>3, TakeKeepsHandoff
  <2> QED BY <2>4 DEF same, J
<1> HIDE DEF j
<1>12. Reported' = Reported  BY <1>1, <1>2, <1>4 DEF Reported
<1>13. HostSound' /\ IngressSound'  BY <1>1 DEF HostSound, HostTypeOK, IngressSound
<1>14. EgressSound'  BY <1>1, <1>2, <1>4 DEF EgressSound
<1>15. CopiersSound'  BY <1>1, FrameCopiers
<1>16. /\ FilledTasks' = FilledTasks /\ FilledDone' = FilledDone /\ TakenTasks' = TakenTasks
       /\ Content' = Content
  BY <1>1 DEF FilledTasks, FilledDone, TakenTasks, Content
<1>17. RingsSound'  BY <1>1, <1>12, <1>16 DEF RingsSound
<1>18. SlotsSound'
  BY <1>1, <1>5, <1>8, <1>11, <1>16 DEF SlotsSound, Handoff, Queues
<1> QED BY <1>13, <1>14, <1>15, <1>17, <1>18

-----------------------------------------------------------------------------
(* The whole system.                                                        *)

\* Every step of the host, of a warp or of a lane keeps the invariant.
LEMMA NextSound ==
  ASSUME KernelSound, [Next]_vars
  PROVE  KernelSound'
<1>1. CASE HostNext /\ UNCHANGED kernel
  BY <1>1, SubmitSound, PollSound, StopSound DEF HostNext
<1>2. CASE Wait(Exited) /\ UNCHANGED kernel  BY <1>2, StopSound
<1>3. CASE Ingress  BY <1>3, IngressLooksSound, IngressFillSound DEF Ingress
<1>4. CASE Egress
  BY <1>4, EgressLooksSound, EgressWriteSound, EgressPublishSound, EgressReleaseSound DEF Egress
<1>5. ASSUME NEW w \in Warps, Copier(w)  PROVE KernelSound'
  BY <1>5, CopyTakeSound, CopyRunSound, CopyCompleteSound DEF Copier
<1>6. CASE UNCHANGED vars
  <2>1. UNCHANGED <<control, host, task_slots, completion_slots, copied, delivered,
                    shared_tasks, shared_done, ingress, copiers, egress>>
    BY <1>6 DEF vars, external, kernel
  <2>2. Reported' = Reported /\ FilledDone' = FilledDone  BY <2>1 DEF Reported, FilledDone
  <2>3. HostSound' /\ IngressSound' /\ EgressSound' /\ RingsSound'
    BY <2>1, <2>2 DEF KernelSound, HostSound, HostTypeOK, IngressSound, EgressSound, RingsSound
  <2>4. CopiersSound' /\ SlotsSound'  BY <2>1, FrameCopiers, FrameSlots DEF KernelSound
  <2> QED BY <2>3, <2>4 DEF KernelSound
<1> QED BY <1>1, <1>2, <1>3, <1>4, <1>5, <1>6 DEF Next

\* The inductive invariant of the kernel.
THEOREM PipelineKernelSound == Spec => []KernelSound
BY InitSound, NextSound, PTL DEF Spec

\* A copy warp that took its sentinel had reported every task of its own before.
LEMMA SoundDrains == KernelSound => DrainsBeforeExit
<1> SUFFICES ASSUME KernelSound PROVE DrainsBeforeExit  OBVIOUS
<1>0. /\ CopyWarps \in Nat \ {0} /\ MaxTasks \in Nat
      /\ ingress.head \in Nat /\ ingress.count \in Nat
      /\ egress.head \in Nat /\ egress.count \in Nat
      /\ ingress.head + ingress.count <= MaxTasks /\ egress.head + egress.count <= MaxTasks
      /\ host.submit_tail \in Nat /\ \A w \in Warps : copiers[w].local \in Nat
  <2>1. /\ CopyWarps \in Nat \ {0} /\ MaxTasks \in Nat  BY Constants
  <2>2. /\ ingress.head \in Nat /\ ingress.count \in Nat
        /\ egress.head \in Nat /\ egress.count \in Nat
        /\ host.submit_tail \in Nat /\ \A w \in Warps : copiers[w].local \in Nat
        /\ host.submit_tail <= MaxTasks /\ control.task_tail = host.submit_tail
    BY KernelTypes
  <2>3. ingress.head + ingress.count <= MaxTasks /\ egress.head + egress.count <= MaxTasks
    BY <2>1, <2>2, KernelBounds, SMTT(30)
  <2> QED BY <2>1, <2>2, <2>3
<1> USE DEF KernelSound
<1>1. ASSUME NEW w \in Warps  PROVE copiers[w].local * CopyWarps <= MaxTasks + CopyWarps
  <2> DEFINE l == copiers[w].local
  <2>1. l \in Nat /\ w \in Nat  BY <1>0 DEF Warps
  <2> HIDE DEF l
  <2>2. CASE l = 0  BY <1>0, <2>2 DEF l
  <2>3. CASE l # 0
    <3> DEFINE k == l - 1
    <3>1. k \in Nat /\ l = k + 1 /\ k < l  BY <2>1, <2>3
    <3> HIDE DEF k
    <3>2. /\ k * CopyWarps + w \in Nat /\ Owner(k * CopyWarps + w) = w
          /\ Local(k * CopyWarps + w) = k
      BY <3>1, IndexOf
    <3>3. k * CopyWarps + w \in FilledDone  BY <3>1, <3>2 DEF FilledDone, l
    <3>4. k * CopyWarps + w < ingress.head + ingress.count  BY <3>3 DEF CopiersSound
    <3>5. l * CopyWarps = k * CopyWarps + CopyWarps  BY <1>0, <3>1
    <3>6. k * CopyWarps \in Nat  BY <1>0, <3>1
    <3>7. l * CopyWarps <= MaxTasks + CopyWarps  BY <1>0, <2>1, <3>4, <3>5, <3>6
    <3> QED BY <3>7 DEF l
  <2> QED BY <2>2, <2>3
<1>2. TypeOK
  BY <1>0, <1>1 DEF TypeOK, HostSound, SlotsSound, Queues
<1>3. ASSUME NEW w \in Warps, copiers[w].pc = "exited",
             NEW t \in Tasks, t < host.submit_tail, Owner(t) = w
      PROVE  copied[t] = 1
  <2> DEFINE l == copiers[w].local
             k == Local(t)
  <2>1. l \in Nat /\ w \in Nat /\ t \in Nat  BY <1>0, KernelTypes DEF Warps, Tasks
  <2>2. k \in Nat /\ t = k * CopyWarps + w  BY <1>3, <2>1, IndexParts
  <2>3. host.submit_tail <= l * CopyWarps + w
    BY <1>3, KernelTypes DEF CopiersSound, CopierSound, IngressSound
  <2> HIDE DEF l, k
  <2>4. k < l
    <3>1. k * CopyWarps \in Nat /\ l * CopyWarps \in Nat  BY <1>0, <2>1, <2>2
    <3>2. k * CopyWarps < l * CopyWarps  BY <1>0, <1>3, <2>1, <2>2, <2>3, <3>1
    <3>3. \A c \in Nat \ {0} : k * c < l * c => k < l  BY <2>1, <2>2
    <3> QED BY <1>0, <3>2, <3>3
  <2>5. t \in FilledDone  BY <1>3, <2>1, <2>4 DEF FilledDone, l, k
  <2> QED BY <2>5 DEF CopiersSound
<1> QED BY <1>2, <1>3 DEF DrainsBeforeExit

\* A stop loses nothing, for any number of copy warps, depth of the shared queues,
\* capacity and batch: a copy warp that has left has copied every task it owns.
THEOREM KernelDrains == Spec => []DrainsBeforeExit
BY PipelineKernelSound, SoundDrains, PTL

-----------------------------------------------------------------------------
(* The kernel and the host implement the ordered queue.                      *)

\* A poll that returns a completion returns the next task in order, after its copy.
LEMMA PollDelivers ==
  ASSUME KernelSound, TryPoll
  PROVE  [Queue!Next]_(Queue!vars)
<1> DEFINE h == host.completion_head
<1>0. /\ Capacity \in Nat \ {0} /\ h \in Nat /\ control.completion_tail \in Nat
      /\ host.cached_completion_tail <= control.completion_tail
      /\ host.cached_completion_tail \in Nat /\ MaxTasks \in Nat
      /\ control.completion_tail <= host.submit_tail /\ host.submit_tail <= MaxTasks
      /\ host.submit_tail \in Nat
  BY KernelTypes, KernelBounds, Constants
<1> USE DEF KernelSound
<1>1. UNCHANGED copied /\ host'.submit_tail = host.submit_tail
  BY DEF TryPoll, HostSound, HostTypeOK
<1>2. Len(delivered) = h  BY <1>0 DEF HostSound
<1>3. CASE UNCHANGED delivered  BY <1>1, <1>3 DEF Queue!vars
<1>4. CASE /\ delivered' = Append(delivered, completion_slots[h % Capacity])
           /\ h < control.completion_tail
  <2>1. h \in Reported  BY <1>0, <1>4 DEF Reported
  <2>2. completion_slots[h % Capacity] = h  BY <1>0, <2>1 DEF RingsSound
  <2>3. h \in Tasks  BY <1>0, <1>4 DEF Tasks
  <2>4. copied[h] = 1  BY <2>1, <2>3 DEF RingsSound, CopiersSound
  <2> QED BY <1>1, <1>2, <1>4, <2>2, <2>3, <2>4 DEF Queue!Next, Queue!Deliver
<1> QED BY <1>0, <1>3, <1>4 DEF TryPoll

\* Every step of the system is a step of the ordered queue or changes nothing it shows.
LEMMA StepImplementsQueue ==
  ASSUME KernelSound, [Next]_vars
  PROVE  [Queue!Next]_(Queue!vars)
<1>0. host.submit_tail \in Nat /\ host.completion_head \in Nat /\ Capacity \in Nat \ {0}
  BY KernelTypes, Constants
<1> USE DEF KernelSound
<1>1. ASSUME NEW requested \in 1..MetaBatch, TrySubmitBatch(requested)
      PROVE  Queue!Submit
  <2> DEFINE n == Least(requested, Available)
  <2>1. Len(delivered) = host.completion_head  BY <1>0 DEF HostSound
  <2>2. n \in 1..(Capacity - (host.submit_tail - Len(delivered)))
    BY <1>0, <1>1, <2>1, Constants DEF TrySubmitBatch, Least, Available
  <2>3. host'.submit_tail = host.submit_tail + n /\ UNCHANGED <<copied, delivered>>
    BY <1>1 DEF TrySubmitBatch, HostSound, HostTypeOK
  <2> HIDE DEF n
  <2> QED BY <2>2, <2>3 DEF Queue!Submit
<1>2. ASSUME NEW w \in Warps, CopyRun(w)  PROVE Queue!Copy
  <2> DEFINE task == copiers[w].task
  <2>1. task \in Tasks /\ task < host.submit_tail /\ copied[task] = 0  BY <1>2, CopyRunSound
  <2>2. copied \in [Tasks -> Nat]  BY DEF HostSound, HostTypeOK
  <2>3. copied' = [copied EXCEPT ![task] = 1]  BY <1>2, <2>1, <2>2 DEF CopyRun
  <2>4. UNCHANGED <<host, delivered>>  BY <1>2 DEF CopyRun, external
  <2> HIDE DEF task
  <2>5. task \in 0..(host.submit_tail - 1)  BY <1>0, <2>1, Constants DEF Tasks
  <2>6. {t \in Tasks : copied'[t] = 1} = {t \in Tasks : copied[t] = 1} \cup {task}
    BY <2>1, <2>2, <2>3
  <2>7. task \notin {t \in Tasks : copied[t] = 1}  BY <2>1
  <2> QED BY <2>4, <2>5, <2>6, <2>7 DEF Queue!Copy
<1>3. ASSUME UNCHANGED <<copied, delivered>>, host'.submit_tail = host.submit_tail
      PROVE  UNCHANGED Queue!vars
  BY <1>3 DEF Queue!vars
<1>4. CASE HostNext
  <2>1. CASE RequestStop
    BY <1>3, <2>1 DEF RequestStop, HostSound, HostTypeOK
  <2> QED BY <1>1, <1>4, <2>1, PollDelivers DEF HostNext, Queue!Next
<1>5. CASE Wait(Exited)  BY <1>3, <1>5 DEF Wait, HostSound, HostTypeOK
<1>6. CASE Ingress
  BY <1>3, <1>6 DEF Ingress, IngressLoad, IngressStop, IngressFinal, IngressFill, external
<1>7. CASE Egress
  BY <1>3, <1>7 DEF Egress, EgressLoad, EgressStop, EgressFinal, EgressWrite, EgressPublish,
                    EgressRelease, external
<1>8. ASSUME NEW w \in Warps, Copier(w)  PROVE [Queue!Next]_(Queue!vars)
  BY <1>2, <1>3, <1>8 DEF Copier, CopyTake, CopyComplete, external, Queue!Next
<1>9. CASE UNCHANGED vars  BY <1>3, <1>9 DEF vars, external
<1> HIDE DEF KernelSound
<1> QED BY <1>4, <1>5, <1>6, <1>7, <1>8, <1>9 DEF Next

\* Both start with nothing submitted, copied or delivered.
LEMMA InitImplementsQueue == Init => Queue!Init
<1> SUFFICES ASSUME Init PROVE Queue!Init  OBVIOUS
<1>1. /\ host = [submit_tail |-> 0, completion_head |-> 0, cached_completion_tail |-> 0,
                 accepting |-> TRUE, running |-> TRUE]
      /\ copied = [t \in Tasks |-> 0] /\ delivered = <<>>
  BY DEF Init, HostInit
<1>2. host.submit_tail = 0  BY <1>1
<1>3. {t \in Tasks : copied[t] = 1} = {}  BY <1>1
<1> QED BY <1>1, <1>2, <1>3 DEF Queue!Init

\* However the warps and lanes interleave, and for any number of warps, depth, batch
\* and capacity, the kernel and the host together are the ordered queue the copy
\* backend relies on.
THEOREM KernelImplementsQueue == Spec => ImplementsQueue
<1>1. KernelSound /\ [Next]_vars => [Queue!Next]_(Queue!vars)  BY StepImplementsQueue
<1> QED BY <1>1, InitImplementsQueue, PipelineKernelSound, PTL
        DEF Spec, ImplementsQueue, Queue!Spec
=============================================================================
