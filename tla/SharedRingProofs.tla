--------------------------- MODULE SharedRingProofs ---------------------------
(***************************************************************************)
(* Proofs about SharedRing, for every capacity, every set of values and      *)
(* every bound on positions.  CursorsAgree is inductive; the safety          *)
(* properties of SharedRing follow from it.                                  *)
(***************************************************************************)
EXTENDS SharedRing, RingArithmetic

\* The two spans of a batch visit the slots of consecutive positions
\* (SharedRing::make_spans).
LEMMA SlotAtIsModulo ==
  ASSUME NEW position \in Nat, NEW offset \in 0..Capacity
  PROVE  SlotAt(position % Capacity, offset) = (position + offset) % Capacity
<1>1. position % Capacity \in 0..(Capacity - 1)  BY DivisionTheorem, CapacityAssumption
<1>2. (position + offset) % Capacity
        = IF (position % Capacity) + offset >= Capacity
          THEN (position % Capacity) + offset - Capacity ELSE (position % Capacity) + offset
  BY SlotAdvance, CapacityAssumption
<1> QED BY <1>1, <1>2, CapacityAssumption DEF SlotAt

\* The incrementally advanced index is the slot of the advanced position
\* (producer_publish and consumer_release).
LEMMA AdvanceIsModulo ==
  ASSUME NEW position \in Nat, NEW count \in 0..Capacity
  PROVE  /\ Advance(position % Capacity, count) = (position + count) % Capacity
         /\ Advance(position % Capacity, count) \in Indices
<1>1. position % Capacity \in 0..(Capacity - 1)  BY DivisionTheorem, CapacityAssumption
<1>2. (position + count) % Capacity
        = IF (position % Capacity) + count >= Capacity
          THEN (position % Capacity) + count - Capacity ELSE (position % Capacity) + count
  BY SlotAdvance, CapacityAssumption
<1> QED BY <1>1, <1>2, CapacityAssumption DEF Advance, Indices

\* What the producer computes with its (possibly stale) cached head at the start
\* of producer_reserve: a sound state, initialised on the first call.
LEMMA ProducerInitializedSound ==
  ASSUME TypeOK, RingBounded, ProducerSound, producer.claimed = 0
  PROVE  /\ ProducerInitialized \in EndpointStates
         /\ ProducerInitialized.phase = "initialized"
         /\ ProducerInitialized.local = tail
         /\ ProducerInitialized.cached <= head
         /\ tail <= ProducerInitialized.cached + Capacity
         /\ ProducerInitialized.index = tail % Capacity
         /\ ProducerInitialized.claimed = 0
         /\ ProducerInitialized.done = 0
         /\ ProducerInitialized.status = producer.status
<1>1. tail % Capacity \in Indices  BY DivisionTheorem, CapacityAssumption DEF TypeOK, Indices
<1>2. producer.done = 0 BY CapacityAssumption DEF TypeOK, EndpointStates, ProducerSound
<1>3. producer \in EndpointStates  BY DEF TypeOK
<1>4. CASE producer.phase = "initialized"
  <2>1. ProducerInitialized = producer  BY <1>4 DEF ProducerInitialized
  <2> QED BY <2>1, <1>2, <1>3, <1>4, CapacityAssumption
          DEF TypeOK, EndpointStates, RingBounded, ProducerSound
<1>5. CASE producer.phase # "initialized"
  <2>1. ProducerInitialized = [producer EXCEPT !.phase = "initialized", !.local = tail,
                                           !.cached = head, !.index = tail % Capacity]
    BY <1>5 DEF ProducerInitialized
  <2>2. ProducerInitialized \in EndpointStates
    BY <2>1, <1>1, <1>3 DEF TypeOK, EndpointStates, Phases
  <2>3. /\ ProducerInitialized.local = tail /\ ProducerInitialized.cached = head
        /\ ProducerInitialized.index = tail % Capacity
        /\ ProducerInitialized.phase = "initialized"
        /\ ProducerInitialized.claimed = producer.claimed
        /\ ProducerInitialized.done = producer.done
        /\ ProducerInitialized.status = producer.status
    BY <2>1, <1>3 DEF EndpointStates
  <2> QED BY <2>2, <2>3, <1>2, CapacityAssumption DEF TypeOK, RingBounded
<1> QED BY <1>4, <1>5

\* The same of consumer_peek.
LEMMA ConsumerInitializedSound ==
  ASSUME TypeOK, RingBounded, ConsumerSound, consumer.claimed = 0
  PROVE  /\ ConsumerInitialized \in EndpointStates
         /\ ConsumerInitialized.phase = "initialized"
         /\ ConsumerInitialized.local = head
         /\ ConsumerInitialized.cached <= tail
         /\ head <= ConsumerInitialized.cached
         /\ ConsumerInitialized.index = head % Capacity
         /\ ConsumerInitialized.claimed = 0
         /\ ConsumerInitialized.done = 0
         /\ ConsumerInitialized.status = consumer.status
<1>1. head % Capacity \in Indices  BY DivisionTheorem, CapacityAssumption DEF TypeOK, Indices
<1>2. consumer.done = 0 BY CapacityAssumption DEF TypeOK, EndpointStates, ConsumerSound
<1>3. consumer \in EndpointStates  BY DEF TypeOK
<1>4. CASE consumer.phase = "initialized"
  <2>1. ConsumerInitialized = consumer  BY <1>4 DEF ConsumerInitialized
  <2> QED BY <2>1, <1>2, <1>3, <1>4, CapacityAssumption
          DEF TypeOK, EndpointStates, RingBounded, ConsumerSound
<1>5. CASE consumer.phase # "initialized"
  <2>1. ConsumerInitialized = [consumer EXCEPT !.phase = "initialized", !.local = head,
                                           !.cached = tail, !.index = head % Capacity]
    BY <1>5 DEF ConsumerInitialized
  <2>2. ConsumerInitialized \in EndpointStates
    BY <2>1, <1>1, <1>3 DEF TypeOK, EndpointStates, Phases
  <2>3. /\ ConsumerInitialized.local = head /\ ConsumerInitialized.cached = tail
        /\ ConsumerInitialized.index = head % Capacity
        /\ ConsumerInitialized.phase = "initialized"
        /\ ConsumerInitialized.claimed = consumer.claimed
        /\ ConsumerInitialized.done = consumer.done
        /\ ConsumerInitialized.status = consumer.status
    BY <2>1, <1>3 DEF EndpointStates
  <2> QED BY <2>2, <2>3, <1>2, CapacityAssumption DEF TypeOK, RingBounded
<1> QED BY <1>4, <1>5

\* What producer_reserve leaves behind: a sound endpoint that holds exactly what
\* the current head allows, and never EPROTO.
LEMMA ReserveEffect ==
  ASSUME CursorsAgree, NEW n \in 1..Capacity, ProducerReserve(n)
  PROVE  /\ producer' \in EndpointStates
         /\ producer'.phase = "initialized"
         /\ producer'.local = tail
         /\ producer'.cached <= head
         /\ producer'.index = tail % Capacity
         /\ producer'.claimed = Min2(n, Capacity - (tail - head))
         /\ producer'.local + producer'.claimed <= producer'.cached + Capacity
         /\ producer'.done = 0
         /\ producer'.status # "EPROTO"
<1> DEFINE p == ProducerInitialized
           stale == Capacity - (p.local - p.cached) < n
           q == IF Consistent(p.local, p.cached) /\ stale THEN [p EXCEPT !.cached = head] ELSE p
           available == Capacity - (q.local - q.cached)
<1>0. TypeOK /\ RingBounded /\ ProducerSound /\ producer.claimed = 0
  BY DEF CursorsAgree, ProducerReserve
<1>1. /\ p \in EndpointStates /\ p.phase = "initialized" /\ p.local = tail
      /\ p.cached <= head /\ tail <= p.cached + Capacity /\ p.index = tail % Capacity
      /\ p.claimed = 0 /\ p.done = 0
  BY <1>0, ProducerInitializedSound
<1>2. tail \in Nat /\ head \in Nat /\ head <= tail /\ tail - head <= Capacity /\ p.cached \in Nat
  BY <1>0, <1>1 DEF TypeOK, RingBounded, EndpointStates
<1>3. Consistent(p.local, p.cached)
  BY <1>1, <1>2, CapacityAssumption DEF Consistent
<1>4. q \in EndpointStates /\ q.phase = "initialized" /\ q.local = tail
      /\ q.index = tail % Capacity /\ q.claimed = 0 /\ q.done = 0
      /\ q.cached = IF stale THEN head ELSE p.cached
  <2> HIDE DEF p
  <2> QED BY <1>1, <1>2, <1>3 DEF EndpointStates
<1>5. Consistent(q.local, q.cached) /\ q.cached <= head /\ q.cached \in Nat
      /\ available \in 0..Capacity
  <2> HIDE DEF p, q
  <2> QED BY <1>1, <1>2, <1>4, CapacityAssumption DEF Consistent
<1>6. Min2(n, available) = Min2(n, Capacity - (tail - head)) /\ Min2(n, available) \in 0..available
  <2> HIDE DEF p, q
  <2> QED BY <1>1, <1>2, <1>4, <1>5, CapacityAssumption DEF Min2
<1>7. producer' = IF available = 0 THEN [q EXCEPT !.status = "EAGAIN"]
                  ELSE [q EXCEPT !.claimed = Min2(n, available), !.done = 0, !.status = "ok"]
  BY <1>5 DEF ProducerReserve
<1> HIDE DEF p, q
<1>8. CASE available = 0
  <2>1. producer' = [q EXCEPT !.status = "EAGAIN"]  BY <1>7, <1>8
  <2>2. producer' \in EndpointStates  BY <2>1, <1>4 DEF EndpointStates, Statuses
  <2>3. /\ producer'.phase = "initialized" /\ producer'.local = tail
        /\ producer'.cached = q.cached /\ producer'.index = tail % Capacity
        /\ producer'.claimed = 0 /\ producer'.done = 0 /\ producer'.status = "EAGAIN"
    BY <2>1, <1>4 DEF EndpointStates
  <2>4. Min2(n, Capacity - (tail - head)) = 0  BY <1>6, <1>8
  <2> QED BY <2>2, <2>3, <2>4, <1>2, <1>4, <1>5, CapacityAssumption
<1>9. CASE available # 0
  <2>1. producer' = [q EXCEPT !.claimed = Min2(n, available), !.done = 0, !.status = "ok"]
    BY <1>7, <1>9
  <2>2. Min2(n, available) \in 0..Capacity  BY <1>5, <1>6, CapacityAssumption
  <2>3. producer' \in EndpointStates
    BY <2>1, <2>2, <1>4, CapacityAssumption DEF EndpointStates, Statuses
  <2>4. /\ producer'.phase = "initialized" /\ producer'.local = tail
        /\ producer'.cached = q.cached /\ producer'.index = tail % Capacity
        /\ producer'.claimed = Min2(n, available) /\ producer'.done = 0
        /\ producer'.status = "ok"
    BY <2>1, <1>4 DEF EndpointStates
  <2> QED BY <2>3, <2>4, <1>2, <1>4, <1>5, <1>6, CapacityAssumption
<1> QED BY <1>8, <1>9

\* What consumer_peek leaves behind.
LEMMA PeekEffect ==
  ASSUME CursorsAgree, NEW n \in 1..Capacity, ConsumerPeek(n)
  PROVE  /\ consumer' \in EndpointStates
         /\ consumer'.phase = "initialized"
         /\ consumer'.local = head
         /\ consumer'.cached <= tail
         /\ consumer'.index = head % Capacity
         /\ consumer'.claimed = Min2(n, tail - head)
         /\ consumer'.local + consumer'.claimed <= consumer'.cached
         /\ consumer'.done = 0
         /\ consumer'.status # "EPROTO"
<1> DEFINE c == ConsumerInitialized
           stale == c.cached - c.local < n
           d == IF Consistent(c.cached, c.local) /\ stale THEN [c EXCEPT !.cached = tail] ELSE c
           available == d.cached - d.local
<1>0. TypeOK /\ RingBounded /\ ConsumerSound /\ consumer.claimed = 0
  BY DEF CursorsAgree, ConsumerPeek
<1>1. /\ c \in EndpointStates /\ c.phase = "initialized" /\ c.local = head
      /\ c.cached <= tail /\ head <= c.cached /\ c.index = head % Capacity
      /\ c.claimed = 0 /\ c.done = 0
  BY <1>0, ConsumerInitializedSound
<1>2. tail \in Nat /\ head \in Nat /\ head <= tail /\ tail - head <= Capacity /\ c.cached \in Nat
  BY <1>0, <1>1 DEF TypeOK, RingBounded, EndpointStates
<1>3. Consistent(c.cached, c.local)
  BY <1>1, <1>2, CapacityAssumption DEF Consistent
<1>4. d \in EndpointStates /\ d.phase = "initialized" /\ d.local = head
      /\ d.index = head % Capacity /\ d.claimed = 0 /\ d.done = 0
      /\ d.cached = IF stale THEN tail ELSE c.cached
  <2> HIDE DEF c
  <2> QED BY <1>1, <1>2, <1>3 DEF EndpointStates
<1>5. Consistent(d.cached, d.local) /\ d.cached <= tail /\ d.cached \in Nat
      /\ available \in 0..Capacity
  <2> HIDE DEF c, d
  <2> QED BY <1>1, <1>2, <1>4, CapacityAssumption DEF Consistent
<1>6. Min2(n, available) = Min2(n, tail - head) /\ Min2(n, available) \in 0..available
  <2> HIDE DEF c, d
  <2> QED BY <1>1, <1>2, <1>4, <1>5, CapacityAssumption DEF Min2
<1>7. consumer' = IF available = 0 THEN [d EXCEPT !.status = "EAGAIN"]
                  ELSE [d EXCEPT !.claimed = Min2(n, available), !.done = 0, !.status = "ok"]
  BY <1>5 DEF ConsumerPeek
<1> HIDE DEF c, d
<1>8. CASE available = 0
  <2>1. consumer' = [d EXCEPT !.status = "EAGAIN"]  BY <1>7, <1>8
  <2>2. consumer' \in EndpointStates  BY <2>1, <1>4 DEF EndpointStates, Statuses
  <2>3. /\ consumer'.phase = "initialized" /\ consumer'.local = head
        /\ consumer'.cached = d.cached /\ consumer'.index = head % Capacity
        /\ consumer'.claimed = 0 /\ consumer'.done = 0 /\ consumer'.status = "EAGAIN"
    BY <2>1, <1>4 DEF EndpointStates
  <2>4. Min2(n, tail - head) = 0  BY <1>6, <1>8
  <2> QED BY <2>2, <2>3, <2>4, <1>2, <1>4, <1>5, <1>8, CapacityAssumption
<1>9. CASE available # 0
  <2>1. consumer' = [d EXCEPT !.claimed = Min2(n, available), !.done = 0, !.status = "ok"]
    BY <1>7, <1>9
  <2>2. Min2(n, available) \in 0..Capacity  BY <1>5, <1>6, CapacityAssumption
  <2>3. consumer' \in EndpointStates
    BY <2>1, <2>2, <1>4, CapacityAssumption DEF EndpointStates, Statuses
  <2>4. /\ consumer'.phase = "initialized" /\ consumer'.local = head
        /\ consumer'.cached = d.cached /\ consumer'.index = head % Capacity
        /\ consumer'.claimed = Min2(n, available) /\ consumer'.done = 0
        /\ consumer'.status = "ok"
    BY <2>1, <1>4 DEF EndpointStates
  <2> QED BY <2>3, <2>4, <1>2, <1>4, <1>5, <1>6, CapacityAssumption
<1> QED BY <1>8, <1>9

-----------------------------------------------------------------------------
(* CursorsAgree is an invariant.                                            *)

LEMMA InitAgrees == Init => CursorsAgree
<1> SUFFICES ASSUME Init PROVE CursorsAgree  OBVIOUS
<1>1. PICK m1 \in {"mapped", "unmapped"}, m2 \in {"mapped", "unmapped"} :
        producer = Fresh(m1) /\ consumer = Fresh(m2)
  BY DEF Init
<1>2. producer \in EndpointStates /\ consumer \in EndpointStates
  BY <1>1, CapacityAssumption DEF Fresh, EndpointStates, Phases, Statuses, Indices
<1>3. /\ producer.phase # "initialized" /\ consumer.phase # "initialized"
      /\ producer.claimed = 0 /\ consumer.claimed = 0 /\ producer.done = 0 /\ consumer.done = 0
      /\ producer.status = "ok" /\ consumer.status = "ok"
  BY <1>1 DEF Fresh
<1>4. TypeOK  BY <1>2 DEF Init, TypeOK
<1> QED BY <1>3, <1>4, CapacityAssumption, MaxPositionAssumption
        DEF Init, CursorsAgree, RingBounded, ProducerSound, ConsumerSound, SlotsHoldWritten,
            FifoDelivery, NoProtocolError, Positions

\* producer_reserve keeps the cursors in agreement.
LEMMA ReserveAgrees ==
  ASSUME CursorsAgree, NEW n \in 1..Capacity, ProducerReserve(n)
  PROVE  CursorsAgree'
<1> USE DEF CursorsAgree
<1>1. UNCHANGED <<tail, head, slots, consumer, written, taken>>  BY DEF ProducerReserve
<1>2. /\ producer' \in EndpointStates /\ producer'.phase = "initialized"
      /\ producer'.local = tail /\ producer'.cached <= head
      /\ producer'.index = tail % Capacity
      /\ producer'.local + producer'.claimed <= producer'.cached + Capacity
      /\ producer'.done = 0 /\ producer'.status # "EPROTO"
  BY ReserveEffect
<1>3. TypeOK'  BY <1>1, <1>2 DEF TypeOK
<1>4. producer.claimed = 0 /\ producer.done = 0
  BY CapacityAssumption DEF ProducerReserve, ProducerSound, TypeOK, EndpointStates
<1>5. RingBounded'  BY <1>1, <1>2, <1>4 DEF RingBounded
<1>6. ProducerSound'  BY <1>1, <1>2, <1>3 DEF ProducerSound, TypeOK, EndpointStates
<1>7. ConsumerSound'  BY <1>1 DEF ConsumerSound
<1>8. SlotsHoldWritten' /\ FifoDelivery'
  BY <1>1, <1>2, <1>4 DEF SlotsHoldWritten, FifoDelivery
<1>9. NoProtocolError'  BY <1>1, <1>2 DEF NoProtocolError
<1> QED BY <1>3, <1>5, <1>6, <1>7, <1>8, <1>9

\* consumer_peek keeps them in agreement.
LEMMA PeekAgrees ==
  ASSUME CursorsAgree, NEW n \in 1..Capacity, ConsumerPeek(n)
  PROVE  CursorsAgree'
<1> USE DEF CursorsAgree
<1>1. UNCHANGED <<tail, head, slots, producer, written, taken>>  BY DEF ConsumerPeek
<1>2. /\ consumer' \in EndpointStates /\ consumer'.phase = "initialized"
      /\ consumer'.local = head /\ consumer'.cached <= tail
      /\ consumer'.index = head % Capacity
      /\ consumer'.local + consumer'.claimed <= consumer'.cached
      /\ consumer'.done = 0 /\ consumer'.status # "EPROTO"
  BY PeekEffect
<1>3. TypeOK'  BY <1>1, <1>2 DEF TypeOK
<1>4. consumer.claimed = 0 /\ consumer.done = 0
  BY CapacityAssumption DEF ConsumerPeek, ConsumerSound, TypeOK, EndpointStates
<1>5. RingBounded'  BY <1>1 DEF RingBounded
<1>6. ProducerSound'  BY <1>1 DEF ProducerSound
<1>7. ConsumerSound'  BY <1>1, <1>2, <1>3 DEF ConsumerSound, TypeOK, EndpointStates
<1>8. SlotsHoldWritten' /\ FifoDelivery'
  BY <1>1, <1>2, <1>4 DEF SlotsHoldWritten, FifoDelivery
<1>9. NoProtocolError'  BY <1>1, <1>2 DEF NoProtocolError
<1> QED BY <1>3, <1>5, <1>6, <1>7, <1>8, <1>9

\* A store by the producer goes to the slot of a position no one else holds.
LEMMA WriteAgrees ==
  ASSUME CursorsAgree, NEW v \in Values, ProducerWrite(v)
  PROVE  CursorsAgree'
<1> USE DEF CursorsAgree
<1> DEFINE position == tail + producer.done
<1>1. UNCHANGED <<tail, head, consumer, taken>>  BY DEF ProducerWrite
<1>2. /\ producer \in EndpointStates /\ tail \in Nat /\ head \in Nat
      /\ producer.done \in Nat /\ producer.claimed \in 0..Capacity
      /\ producer.done < producer.claimed
  BY CapacityAssumption DEF TypeOK, EndpointStates, ProducerWrite
<1>3. /\ producer.phase = "initialized" /\ producer.local = tail
      /\ producer.index = tail % Capacity /\ position < head + Capacity
  BY <1>2, CapacityAssumption DEF ProducerSound, TypeOK, EndpointStates
<1>4. SlotAt(producer.index, producer.done) = position % Capacity
  <2>1. producer.done \in 0..Capacity  BY <1>2, CapacityAssumption
  <2> QED BY <2>1, <1>2, <1>3, SlotAtIsModulo
<1>5. /\ position \in Positions
      /\ slots' = [slots EXCEPT ![position % Capacity] = v]
      /\ written' = [written EXCEPT ![position] = v]
      /\ producer' = [producer EXCEPT !.done = @ + 1]
  BY <1>3, <1>4 DEF ProducerWrite
<1>6. position % Capacity \in Indices
  <2>1. position \in Nat  BY <1>2
  <2> QED BY <2>1, DivisionTheorem, CapacityAssumption DEF Indices
<1>7. /\ producer' \in EndpointStates
      /\ producer'.phase = producer.phase /\ producer'.local = producer.local
      /\ producer'.cached = producer.cached /\ producer'.index = producer.index
      /\ producer'.claimed = producer.claimed /\ producer'.done = producer.done + 1
      /\ producer'.status = producer.status
  BY <1>2, <1>5, CapacityAssumption DEF EndpointStates
<1> HIDE DEF position
<1>8. TypeOK'  BY <1>1, <1>5, <1>6, <1>7 DEF TypeOK
<1>9. RingBounded'
  BY <1>1, <1>2, <1>5, <1>7, MaxPositionAssumption DEF RingBounded, Positions, position
<1>10. ProducerSound'  BY <1>1, <1>2, <1>7 DEF ProducerSound
<1>11. ConsumerSound'  BY <1>1 DEF ConsumerSound
<1>12. SlotsHoldWritten'
  <2> SUFFICES ASSUME NEW p \in Positions, head <= p, p < tail + (producer.done + 1)
               PROVE  slots'[p % Capacity] = written'[p]
    BY <1>1, <1>7 DEF SlotsHoldWritten
  <2>0. p \in Nat /\ position \in Nat  BY <1>2, MaxPositionAssumption DEF Positions, position
  <2>1. CASE p = position
    BY <2>1, <1>5, <1>6 DEF TypeOK
  <2>2. CASE p < position
    <3>1. position < p + Capacity  BY <2>0, <1>2, <1>3, CapacityAssumption
    <3>2. p % Capacity # position % Capacity
      BY <2>0, <2>2, <3>1, SlotsDistinct, CapacityAssumption
    <3>3. p % Capacity \in Indices  BY <2>0, DivisionTheorem, CapacityAssumption DEF Indices
    <3>4. slots[p % Capacity] = written[p]  BY <2>2, <1>2 DEF SlotsHoldWritten, position
    <3> QED BY <3>2, <3>3, <3>4, <2>0, <2>2, <1>5 DEF TypeOK
  <2> QED BY <2>0, <2>1, <2>2, <1>2 DEF position
<1>13. FifoDelivery'
  <2> SUFFICES ASSUME NEW p \in Positions, p < head + consumer.done
               PROVE  taken[p] = written'[p]
    BY <1>1 DEF FifoDelivery
  <2>1. head + consumer.done <= tail /\ p \in Nat
    <3>1. p \in Nat  BY MaxPositionAssumption DEF Positions
    <3>2. consumer.done \in Nat /\ consumer.claimed \in Nat /\ consumer.cached \in Nat
      BY CapacityAssumption DEF TypeOK, EndpointStates
    <3>3. head <= tail  BY DEF RingBounded
    <3>4. CASE consumer.claimed = 0  BY <3>1, <3>2, <3>3, <3>4, <1>2 DEF ConsumerSound
    <3>5. CASE consumer.claimed # 0
      <4>1. /\ consumer.done <= consumer.claimed
            /\ head + consumer.claimed <= consumer.cached /\ consumer.cached <= tail
        BY <3>5 DEF ConsumerSound
      <4> QED BY <4>1, <3>1, <3>2, <1>2
    <3> QED BY <3>4, <3>5
  <2>2. p # position /\ taken[p] = written[p]
    BY <2>1, <1>2, CapacityAssumption DEF FifoDelivery, position, TypeOK, EndpointStates
  <2> QED BY <2>2, <1>5 DEF TypeOK
<1>14. NoProtocolError'  BY <1>1, <1>7 DEF NoProtocolError
<1> QED BY <1>8, <1>9, <1>10, <1>11, <1>12, <1>13, <1>14

\* Publishing moves the tail over slots that were filled.
LEMMA PublishAgrees ==
  ASSUME CursorsAgree, NEW n \in 0..Capacity, ProducerPublish(n)
  PROVE  CursorsAgree'
<1> USE DEF CursorsAgree
<1>1. UNCHANGED <<head, slots, consumer, written, taken>>  BY DEF ProducerPublish
<1>2. /\ producer \in EndpointStates /\ tail \in Nat /\ head \in Nat
      /\ producer.done \in Nat /\ producer.claimed \in 0..Capacity /\ producer.cached \in Nat
      /\ producer.done <= producer.claimed /\ n <= producer.done
  BY CapacityAssumption DEF TypeOK, EndpointStates, ProducerSound, ProducerPublish
<1>3. /\ producer.phase = "initialized" /\ producer.local = tail /\ producer.cached <= head
      /\ producer.index = tail % Capacity
      /\ tail + producer.claimed <= producer.cached + Capacity
  BY DEF ProducerSound, ProducerPublish
<1>4. /\ Advance(producer.index, n) = (tail + n) % Capacity
      /\ Advance(producer.index, n) \in Indices
  BY <1>2, <1>3, AdvanceIsModulo
<1>5. producer' = [producer EXCEPT !.local = tail + n, !.index = Advance(producer.index, n),
                                   !.claimed = 0, !.done = 0, !.status = "ok"]
  BY <1>2, <1>3 DEF ProducerPublish
<1>6. producer' \in EndpointStates
  <2>1. tail + n \in Nat /\ 0 \in 0..Capacity /\ "ok" \in Statuses
    BY <1>2, CapacityAssumption DEF Statuses
  <2> HIDE DEF Advance
  <2> QED BY <2>1, <1>2, <1>4, <1>5 DEF EndpointStates
<1>7. /\ producer'.phase = "initialized" /\ producer'.local = tail + n
      /\ producer'.cached = producer.cached /\ producer'.index = (tail + n) % Capacity
      /\ producer'.claimed = 0 /\ producer'.done = 0 /\ producer'.status = "ok"
  BY <1>2, <1>3, <1>4, <1>5 DEF EndpointStates
<1>8. tail' = tail + n  BY <1>2, <1>3 DEF ProducerPublish
<1>9. TypeOK'  BY <1>1, <1>2, <1>6, <1>8 DEF TypeOK
<1>10. RingBounded'
  BY <1>1, <1>2, <1>3, <1>7, <1>8, CapacityAssumption, MaxPositionAssumption DEF RingBounded
<1>11. ProducerSound'
  BY <1>1, <1>2, <1>3, <1>7, <1>8, CapacityAssumption DEF ProducerSound
<1>12. ConsumerSound'
  BY <1>1, <1>2, <1>8 DEF ConsumerSound, TypeOK, EndpointStates
<1>13. SlotsHoldWritten' /\ FifoDelivery'
  BY <1>1, <1>2, <1>7, <1>8, MaxPositionAssumption
     DEF SlotsHoldWritten, FifoDelivery, Positions
<1>14. NoProtocolError'  BY <1>1, <1>7 DEF NoProtocolError
<1> QED BY <1>9, <1>10, <1>11, <1>12, <1>13, <1>14

\* A load by the consumer finds what was stored for its position.
LEMMA ReadAgrees ==
  ASSUME CursorsAgree, ConsumerRead
  PROVE  CursorsAgree'
<1> USE DEF CursorsAgree
<1> DEFINE position == head + consumer.done
<1>1. UNCHANGED <<tail, head, slots, producer, written>>  BY DEF ConsumerRead
<1>2. /\ consumer \in EndpointStates /\ tail \in Nat /\ head \in Nat
      /\ consumer.done \in Nat /\ consumer.claimed \in 0..Capacity /\ consumer.cached \in Nat
      /\ consumer.done < consumer.claimed /\ producer.done \in Nat
  BY CapacityAssumption DEF TypeOK, EndpointStates, ConsumerRead
<1>3. /\ consumer.phase = "initialized" /\ consumer.local = head
      /\ consumer.index = head % Capacity /\ position < tail
  BY <1>2, CapacityAssumption DEF ConsumerSound
<1>4. SlotAt(consumer.index, consumer.done) = position % Capacity
  <2>1. consumer.done \in 0..Capacity  BY <1>2, CapacityAssumption
  <2> QED BY <2>1, <1>2, <1>3, SlotAtIsModulo
<1>5. position \in Positions
  BY <1>2, <1>3, MaxPositionAssumption DEF RingBounded, Positions
<1>6. slots[position % Capacity] = written[position]
  BY <1>2, <1>3, <1>5 DEF SlotsHoldWritten
<1>7. taken' = [taken EXCEPT ![position] = written[position]]
  BY <1>3, <1>4, <1>6 DEF ConsumerRead
<1>8. consumer' = [consumer EXCEPT !.done = @ + 1]  BY DEF ConsumerRead
<1>9. /\ consumer' \in EndpointStates
      /\ consumer'.phase = consumer.phase /\ consumer'.local = consumer.local
      /\ consumer'.cached = consumer.cached /\ consumer'.index = consumer.index
      /\ consumer'.claimed = consumer.claimed /\ consumer'.done = consumer.done + 1
      /\ consumer'.status = consumer.status
  BY <1>2, <1>8, CapacityAssumption DEF EndpointStates
<1>10. TypeOK'  BY <1>1, <1>5, <1>7, <1>9 DEF TypeOK
<1>11. RingBounded' /\ ProducerSound' /\ SlotsHoldWritten'
  BY <1>1 DEF RingBounded, ProducerSound, SlotsHoldWritten
<1>12. ConsumerSound'  BY <1>1, <1>2, <1>9 DEF ConsumerSound
<1>13. FifoDelivery'
  <2> SUFFICES ASSUME NEW p \in Positions, p < head + (consumer.done + 1)
               PROVE  taken'[p] = written[p]
    BY <1>1, <1>9 DEF FifoDelivery
  <2>1. p \in Nat  BY MaxPositionAssumption DEF Positions
  <2>2. CASE p = position  BY <2>2, <1>5, <1>7 DEF TypeOK
  <2>3. CASE p < position
    <3>1. taken[p] = written[p]  BY <2>3 DEF FifoDelivery
    <3> QED BY <3>1, <2>1, <2>3, <1>2, <1>7 DEF TypeOK
  <2> QED BY <2>1, <2>2, <2>3, <1>2
<1>14. NoProtocolError'  BY <1>1, <1>9 DEF NoProtocolError
<1> QED BY <1>10, <1>11, <1>12, <1>13, <1>14

\* Releasing moves the head over slots that were read.
LEMMA ReleaseAgrees ==
  ASSUME CursorsAgree, NEW n \in 0..Capacity, ConsumerRelease(n)
  PROVE  CursorsAgree'
<1> USE DEF CursorsAgree
<1>1. UNCHANGED <<tail, slots, producer, written, taken>>  BY DEF ConsumerRelease
<1>2. /\ consumer \in EndpointStates /\ tail \in Nat /\ head \in Nat
      /\ consumer.done \in Nat /\ consumer.claimed \in 0..Capacity /\ consumer.cached \in Nat
      /\ consumer.done <= consumer.claimed /\ n <= consumer.done
      /\ producer.done \in Nat /\ producer.cached \in Nat
  BY CapacityAssumption DEF TypeOK, EndpointStates, ConsumerSound, ConsumerRelease
<1>3. /\ consumer.phase = "initialized" /\ consumer.local = head /\ consumer.cached <= tail
      /\ consumer.index = head % Capacity
      /\ head + consumer.claimed <= consumer.cached
  BY DEF ConsumerSound, ConsumerRelease
<1>4. /\ Advance(consumer.index, n) = (head + n) % Capacity
      /\ Advance(consumer.index, n) \in Indices
  BY <1>2, <1>3, AdvanceIsModulo
<1>5. consumer' = [consumer EXCEPT !.local = head + n, !.index = Advance(consumer.index, n),
                                   !.claimed = 0, !.done = 0, !.status = "ok"]
  BY <1>2, <1>3 DEF ConsumerRelease
<1>6. consumer' \in EndpointStates
  <2>1. head + n \in Nat /\ 0 \in 0..Capacity /\ "ok" \in Statuses
    BY <1>2, CapacityAssumption DEF Statuses
  <2> HIDE DEF Advance
  <2> QED BY <2>1, <1>2, <1>4, <1>5 DEF EndpointStates
<1>7. /\ consumer'.phase = "initialized" /\ consumer'.local = head + n
      /\ consumer'.cached = consumer.cached /\ consumer'.index = (head + n) % Capacity
      /\ consumer'.claimed = 0 /\ consumer'.done = 0 /\ consumer'.status = "ok"
  BY <1>2, <1>3, <1>4, <1>5 DEF EndpointStates
<1>8. head' = head + n  BY <1>2, <1>3 DEF ConsumerRelease
<1>9. TypeOK'  BY <1>1, <1>2, <1>6, <1>8 DEF TypeOK
<1>10. RingBounded'  BY <1>1, <1>2, <1>3, <1>8, CapacityAssumption DEF RingBounded
<1>11. ProducerSound'  BY <1>1, <1>2, <1>8 DEF ProducerSound
<1>12. ConsumerSound'
  <2>1. head + n + 0 <= consumer.cached  BY <1>2, <1>3
  <2> QED BY <2>1, <1>1, <1>3, <1>7, <1>8 DEF ConsumerSound
<1>13. SlotsHoldWritten' /\ FifoDelivery'
  BY <1>1, <1>2, <1>7, <1>8, MaxPositionAssumption
     DEF SlotsHoldWritten, FifoDelivery, Positions
<1>14. NoProtocolError'  BY <1>1, <1>7 DEF NoProtocolError
<1> QED BY <1>9, <1>10, <1>11, <1>12, <1>13, <1>14

\* An endpoint that unmaps or maps forgets everything it held.
LEMMA FreshSound ==
  ASSUME NEW mapping \in {"mapped", "unmapped"}
  PROVE  /\ Fresh(mapping) \in EndpointStates /\ Fresh(mapping).phase # "initialized"
         /\ Fresh(mapping).claimed = 0 /\ Fresh(mapping).done = 0
         /\ Fresh(mapping).status = "ok"
BY CapacityAssumption DEF Fresh, EndpointStates, Phases, Statuses, Indices

LEMMA RemapAgrees ==
  ASSUME CursorsAgree, NEW mapping \in {"mapped", "unmapped"},
         UNCHANGED <<tail, head, slots, written, taken>>,
         \/ producer' = Fresh(mapping) /\ UNCHANGED consumer
         \/ consumer' = Fresh(mapping) /\ UNCHANGED producer
  PROVE  CursorsAgree'
<1> USE DEF CursorsAgree
<1>1. TypeOK'  BY FreshSound DEF TypeOK
<1>2. /\ tail \in Nat /\ head \in Nat /\ producer.done \in Nat /\ consumer.done \in Nat
  BY CapacityAssumption DEF TypeOK, EndpointStates
<1>3. producer'.done <= producer.done /\ consumer'.done <= consumer.done
      /\ producer'.done \in Nat /\ consumer'.done \in Nat
  BY <1>2, FreshSound
<1>4. RingBounded'  BY <1>2, <1>3, MaxPositionAssumption DEF RingBounded
<1>5. ProducerSound'  BY <1>2, FreshSound DEF ProducerSound
<1>6. ConsumerSound'  BY <1>2, FreshSound DEF ConsumerSound
<1>7. SlotsHoldWritten' /\ FifoDelivery'
  BY <1>2, <1>3, MaxPositionAssumption DEF SlotsHoldWritten, FifoDelivery, Positions
<1>8. NoProtocolError'  BY FreshSound DEF NoProtocolError
<1> QED BY <1>1, <1>4, <1>5, <1>6, <1>7, <1>8

\* Every step keeps the cursors in agreement.
LEMMA NextAgrees == CursorsAgree /\ [Next]_vars => CursorsAgree'
<1> SUFFICES ASSUME CursorsAgree, [Next]_vars PROVE CursorsAgree'  OBVIOUS
<1>1. CASE \E n \in 1..Capacity : ProducerReserve(n)  BY <1>1, ReserveAgrees
<1>2. CASE \E n \in 1..Capacity : ConsumerPeek(n)  BY <1>2, PeekAgrees
<1>3. CASE \E v \in Values : ProducerWrite(v)  BY <1>3, WriteAgrees
<1>4. CASE \E n \in 0..Capacity : ProducerPublish(n)  BY <1>4, PublishAgrees
<1>5. CASE ConsumerRead  BY <1>5, ReadAgrees
<1>6. CASE \E n \in 0..Capacity : ConsumerRelease(n)  BY <1>6, ReleaseAgrees
<1>7. CASE ResetProducer  BY <1>7, RemapAgrees DEF ResetProducer
<1>8. CASE ResetConsumer  BY <1>8, RemapAgrees DEF ResetConsumer
<1>9. CASE MapProducer  BY <1>9, RemapAgrees DEF MapProducer
<1>10. CASE MapConsumer  BY <1>10, RemapAgrees DEF MapConsumer
<1>11. CASE UNCHANGED vars
  BY <1>11 DEF vars, CursorsAgree, TypeOK, RingBounded, ProducerSound, ConsumerSound,
              SlotsHoldWritten, FifoDelivery, NoProtocolError
<1> QED BY <1>1, <1>2, <1>3, <1>4, <1>5, <1>6, <1>7, <1>8, <1>9, <1>10, <1>11 DEF Next

\* The cursors of the two endpoints and the published positions of
\* shared_ring.cpp always agree.
THEOREM CursorsAlwaysAgree == Spec => []CursorsAgree
<1>1. CursorsAgree /\ [Next]_vars => CursorsAgree'  BY NextAgrees
<1>2. Init => CursorsAgree  BY InitAgrees
<1> QED BY <1>1, <1>2, PTL DEF Spec

-----------------------------------------------------------------------------
(* The safety properties.                                                   *)

\* The variables of the ring keep their types; slot indices stay in range.
THEOREM RingTypes == Spec => []TypeOK
<1>1. CursorsAgree => TypeOK  BY DEF CursorsAgree
<1> QED BY <1>1, CursorsAlwaysAgree, PTL

\* What is read for a position is what was stored for it.
THEOREM RingDelivers == Spec => []FifoDelivery
<1>1. CursorsAgree => FifoDelivery  BY DEF CursorsAgree
<1> QED BY <1>1, CursorsAlwaysAgree, PTL

\* reserve and peek never answer EPROTO to well-behaved endpoints.
THEOREM RingNeverProtocolError == Spec => []NoProtocolError
<1>1. CursorsAgree => NoProtocolError  BY DEF CursorsAgree
<1> QED BY <1>1, CursorsAlwaysAgree, PTL

\* The positions two endpoints hold are less than a ring apart, so their slots differ.
LEMMA AgreementSeparates == CursorsAgree => SlotsDisjoint
<1> SUFFICES ASSUME CursorsAgree, NEW i \in 0..(producer.claimed - 1),
                    NEW j \in 0..(consumer.claimed - 1)
             PROVE  SlotAt(producer.index, i) # SlotAt(consumer.index, j)
  BY DEF SlotsDisjoint, ClaimedSlots
<1>1. /\ tail \in Nat /\ head \in Nat /\ producer.claimed \in 0..Capacity
      /\ consumer.claimed \in 0..Capacity /\ producer.cached \in Nat /\ consumer.cached \in Nat
  BY DEF CursorsAgree, TypeOK, EndpointStates
<1>2. /\ producer.claimed # 0 /\ consumer.claimed # 0
      /\ i \in 0..Capacity /\ j \in 0..Capacity
  BY <1>1, CapacityAssumption
<1>3. /\ producer.local = tail /\ producer.index = tail % Capacity
      /\ tail + i < head + Capacity
  BY <1>1, <1>2, CapacityAssumption DEF CursorsAgree, ProducerSound
<1>4. /\ consumer.local = head /\ consumer.index = head % Capacity /\ head + j < tail
  BY <1>1, <1>2, CapacityAssumption DEF CursorsAgree, ConsumerSound
<1>5. /\ SlotAt(producer.index, i) = (tail + i) % Capacity
      /\ SlotAt(consumer.index, j) = (head + j) % Capacity
  BY <1>1, <1>2, <1>3, <1>4, SlotAtIsModulo
<1>6. /\ tail + i \in Nat /\ head + j \in Nat
      /\ head + j < tail + i /\ tail + i < head + j + Capacity
  BY <1>1, <1>2, <1>3, <1>4, CapacityAssumption
<1>7. (head + j) % Capacity # (tail + i) % Capacity
  BY <1>6, SlotsDistinct, CapacityAssumption
<1> QED BY <1>5, <1>7

\* The producer's and the consumer's spans never share a slot.
THEOREM RingNeverShares == Spec => []SlotsDisjoint
BY AgreementSeparates, CursorsAlwaysAgree, PTL

\* reserve and peek grant exactly what uncached positions would grant.
THEOREM RingCachingInvisible == Spec => CachingInvisible
<1>1. CursorsAgree /\ [Next]_vars
        => [\A n \in 1..Capacity :
              /\ ProducerReserve(n) => producer'.claimed = Min2(n, Capacity - (tail - head))
              /\ ConsumerPeek(n) => consumer'.claimed = Min2(n, tail - head)]_vars
  BY ReserveEffect, PeekEffect
<1> QED BY <1>1, CursorsAlwaysAgree, PTL DEF Spec, CachingInvisible

\* Published positions never move back and published elements never change.
LEMMA StepKeepsPublished ==
  ASSUME CursorsAgree, Next
  PROVE  /\ tail' >= tail /\ head' >= head
         /\ \A p \in Positions : p < tail => written'[p] = written[p]
<1>1. /\ tail \in Nat /\ head \in Nat /\ producer \in EndpointStates
      /\ consumer \in EndpointStates /\ written \in [Positions -> Values \cup {NoValue}]
  BY DEF CursorsAgree, TypeOK
<1>2. ASSUME NEW v \in Values, ProducerWrite(v)
      PROVE  /\ tail' = tail /\ head' = head
             /\ \A p \in Positions : p < tail => written'[p] = written[p]
  <2>1. producer.done \in Nat /\ producer.claimed \in Nat /\ producer.done < producer.claimed
    BY <1>1, <1>2, CapacityAssumption DEF EndpointStates, ProducerWrite
  <2>2. producer.local = tail  BY <2>1 DEF CursorsAgree, ProducerSound
  <2>3. written' = [written EXCEPT ![tail + producer.done] = v]
    BY <1>2, <2>2 DEF ProducerWrite
  <2>4. \A p \in Positions : p < tail => p # tail + producer.done
    BY <1>1, <2>1, MaxPositionAssumption DEF Positions
  <2> QED BY <1>1, <1>2, <2>3, <2>4 DEF ProducerWrite
<1>3. ASSUME NEW n \in 0..Capacity, ProducerPublish(n)
      PROVE  tail' >= tail /\ head' = head /\ written' = written
  BY <1>1, <1>3 DEF ProducerPublish, CursorsAgree, ProducerSound
<1>4. ASSUME NEW n \in 0..Capacity, ConsumerRelease(n)
      PROVE  tail' = tail /\ head' >= head /\ written' = written
  BY <1>1, <1>4 DEF ConsumerRelease, CursorsAgree, ConsumerSound
<1>5. CASE \/ \E n \in 1..Capacity : ProducerReserve(n) \/ ConsumerPeek(n)
           \/ ConsumerRead \/ ResetProducer \/ ResetConsumer \/ MapProducer \/ MapConsumer
  <2>1. tail' = tail /\ head' = head /\ written' = written
    BY <1>5 DEF ProducerReserve, ConsumerPeek, ConsumerRead, ResetProducer, ResetConsumer,
                MapProducer, MapConsumer
  <2> QED BY <2>1, <1>1
<1> QED BY <1>1, <1>2, <1>3, <1>4, <1>5 DEF Next

\* Published elements are stable.
THEOREM RingPublishedStable == Spec => PublishedStable
<1>1. CursorsAgree /\ [Next]_vars
        => [/\ tail' >= tail /\ head' >= head
            /\ \A p \in Positions : p < tail => written'[p] = written[p]]_vars
  BY StepKeepsPublished
<1> QED BY <1>1, CursorsAlwaysAgree, PTL DEF Spec, PublishedStable

-----------------------------------------------------------------------------
(* The ring implements the bounded FIFO.                                     *)

\* Only ProducerWrite extends the filled positions, by the one it stores to.
LEMMA StepKeepsFilled ==
  ASSUME CursorsAgree, FilledWithValues, [Next]_vars
  PROVE  FilledWithValues'
<1>1. /\ tail \in Nat /\ head \in Nat /\ producer \in EndpointStates
      /\ written \in [Positions -> Values \cup {NoValue}]
      /\ producer.done \in Nat /\ producer.claimed \in Nat
  BY CapacityAssumption DEF CursorsAgree, TypeOK, EndpointStates
<1>2. ASSUME NEW v \in Values, ProducerWrite(v)  PROVE FilledWithValues'
  <2>1. producer.done < producer.claimed  BY <1>2 DEF ProducerWrite
  <2>2. producer.local = tail  BY <1>1, <2>1 DEF CursorsAgree, ProducerSound
  <2>3. /\ written' = [written EXCEPT ![tail + producer.done] = v]
        /\ tail' = tail /\ producer'.done = producer.done + 1
    BY <1>1, <1>2, <2>2 DEF ProducerWrite, EndpointStates
  <2> SUFFICES ASSUME NEW p \in Positions, p < tail + (producer.done + 1)
               PROVE  written'[p] \in Values
    BY <2>3 DEF FilledWithValues
  <2>4. p \in Nat  BY MaxPositionAssumption DEF Positions
  <2>5. CASE p = tail + producer.done  BY <1>1, <2>3, <2>5
  <2>6. CASE p < tail + producer.done  BY <1>1, <2>3, <2>6 DEF FilledWithValues
  <2> QED BY <1>1, <2>4, <2>5, <2>6
<1>3. ASSUME NEW n \in 0..Capacity, ProducerPublish(n)  PROVE FilledWithValues'
  <2>1. n \in Nat /\ n <= producer.done /\ producer.claimed # 0
    BY <1>3, CapacityAssumption DEF ProducerPublish
  <2>2. producer.local = tail  BY <2>1 DEF CursorsAgree, ProducerSound
  <2>3. tail' = tail + n /\ producer'.done = 0 /\ written' = written
    BY <1>1, <1>3, <2>1, <2>2 DEF ProducerPublish, EndpointStates
  <2> QED BY <1>1, <2>1, <2>3, MaxPositionAssumption DEF FilledWithValues, Positions
<1>4. ASSUME NEW n \in 1..Capacity, ProducerReserve(n)  PROVE FilledWithValues'
  <2>1. producer'.done = producer.done \/ producer'.done = 0
    BY <1>1, <1>4 DEF ProducerReserve, ProducerInitialized, EndpointStates
  <2> QED BY <1>1, <1>4, <2>1, MaxPositionAssumption
          DEF ProducerReserve, FilledWithValues, Positions
<1>5. CASE ResetProducer \/ MapProducer
  <2>1. producer'.done = 0  BY <1>5 DEF ResetProducer, MapProducer, Fresh
  <2> QED BY <1>1, <1>5, <2>1, MaxPositionAssumption
          DEF ResetProducer, MapProducer, FilledWithValues, Positions
<1>6. CASE \/ \E n \in 1..Capacity : ConsumerPeek(n)
           \/ \E n \in 0..Capacity : ConsumerRelease(n)
           \/ ConsumerRead \/ ResetConsumer \/ MapConsumer \/ UNCHANGED vars
  BY <1>6 DEF ConsumerPeek, ConsumerRelease, ConsumerRead, ResetConsumer, MapConsumer, vars,
              FilledWithValues
<1> QED BY <1>2, <1>3, <1>4, <1>5, <1>6 DEF Next

\* The refinement mapping of Fifo, by name.
FifoQueue == [i \in 1..(tail - head) |-> slots[(head + i - 1) % Capacity]]
FifoDelivered == [i \in 1..head |-> taken[i - 1]]

\* The mapping in terms of the history: the queue is what was stored between head
\* and tail, the delivered elements are what was stored below head.
Mapped == /\ tail \in Nat /\ head \in Nat /\ head <= tail
          /\ FifoQueue = Segment(written, head, tail)
          /\ FifoDelivered = Segment(written, 0, head)
          /\ \A p \in Nat : p < tail + producer.done => written[p] \in Values

\* The slots of the live positions and what was read for the released ones agree
\* with the history, so that the mapping does.
LEMMA AgreementMaps == CursorsAgree /\ FilledWithValues => Mapped
<1> SUFFICES ASSUME CursorsAgree, FilledWithValues PROVE Mapped  OBVIOUS
<1>1. /\ tail \in Nat /\ head \in Nat /\ head <= tail /\ tail + producer.done <= MaxPosition
      /\ producer.done \in Nat /\ consumer.done \in Nat
  BY CapacityAssumption DEF CursorsAgree, TypeOK, RingBounded, EndpointStates
<1>2. \A p \in Nat : p < tail + producer.done => p \in Positions
  BY <1>1, MaxPositionAssumption DEF Positions
<1>3. ASSUME NEW i \in 1..(tail - head)
      PROVE  slots[(head + i - 1) % Capacity] = written[head + i - 1]
  <2>1. head + i - 1 \in Nat /\ head <= head + i - 1 /\ head + i - 1 < tail + producer.done
    BY <1>1
  <2> QED BY <1>2, <2>1 DEF CursorsAgree, SlotsHoldWritten
<1>4. ASSUME NEW i \in 1..head  PROVE taken[i - 1] = written[0 + i - 1]
  <2>1. i - 1 \in Nat /\ i - 1 < head + consumer.done /\ i - 1 < tail + producer.done
        /\ 0 + i - 1 = i - 1
    BY <1>1
  <2> QED BY <1>2, <2>1 DEF CursorsAgree, FifoDelivery
<1>5. [i \in 1..(tail - head) |-> slots[(head + i - 1) % Capacity]]
        = Segment(written, head, tail)
  BY <1>3 DEF Segment
<1>6. [i \in 1..head |-> taken[i - 1]] = Segment(written, 0, head)
  <2>1. head - 0 = head  BY <1>1
  <2> QED BY <1>4, <2>1 DEF Segment
<1>7. \A p \in Nat : p < tail + producer.done => written[p] \in Values
  BY <1>2 DEF FilledWithValues
<1> QED BY <1>1, <1>5, <1>6, <1>7 DEF Mapped, FifoQueue, FifoDelivered

\* How a step moves the published positions: not at all, the tail forward over
\* filled positions (producer_publish), or the head forward over published ones
\* (consumer_release).
LEMMA PublishedPositionsMove ==
  ASSUME CursorsAgree, [Next]_vars
  PROVE  \/ tail' = tail /\ head' = head
         \/ /\ head' = head /\ written' = written
            /\ \E n \in 1..Capacity : /\ tail' = tail + n /\ n <= producer.done
                                      /\ tail + n - head <= Capacity
         \/ /\ tail' = tail /\ written' = written
            /\ \E n \in 1..Capacity : head' = head + n /\ head + n <= tail
<1>1. /\ tail \in Nat /\ head \in Nat
      /\ producer \in EndpointStates /\ consumer \in EndpointStates
      /\ producer.done \in Nat /\ producer.claimed \in Nat /\ producer.cached \in Nat
      /\ consumer.done \in Nat /\ consumer.claimed \in Nat /\ consumer.cached \in Nat
  BY CapacityAssumption DEF CursorsAgree, TypeOK, EndpointStates
<1>2. ASSUME NEW n \in 0..Capacity, ProducerPublish(n), n # 0
      PROVE  /\ head' = head /\ written' = written
             /\ n \in 1..Capacity /\ tail' = tail + n /\ n <= producer.done
             /\ tail + n - head <= Capacity
  <2>1. n \in Nat /\ n <= producer.done /\ producer.claimed # 0
    BY <1>2, CapacityAssumption DEF ProducerPublish
  <2>2. /\ producer.local = tail /\ producer.cached <= head
        /\ tail + producer.claimed <= producer.cached + Capacity
        /\ producer.done <= producer.claimed
    BY <2>1 DEF CursorsAgree, ProducerSound
  <2>3. head' = head /\ written' = written /\ tail' = tail + n
    BY <1>2, <2>2 DEF ProducerPublish
  <2> QED BY <1>1, <1>2, <2>1, <2>2, <2>3, CapacityAssumption
<1>3. ASSUME NEW n \in 0..Capacity, ConsumerRelease(n), n # 0
      PROVE  /\ tail' = tail /\ written' = written
             /\ n \in 1..Capacity /\ head' = head + n /\ head + n <= tail
  <2>1. n \in Nat /\ n <= consumer.done /\ consumer.claimed # 0
    BY <1>3, CapacityAssumption DEF ConsumerRelease
  <2>2. /\ consumer.local = head /\ consumer.cached <= tail
        /\ head + consumer.claimed <= consumer.cached
        /\ consumer.done <= consumer.claimed
    BY <2>1 DEF CursorsAgree, ConsumerSound
  <2>3. tail' = tail /\ written' = written /\ head' = head + n
    BY <1>3, <2>2 DEF ConsumerRelease
  <2> QED BY <1>1, <1>3, <2>1, <2>2, <2>3, CapacityAssumption
<1>4. CASE \/ \E n \in 1..Capacity : ProducerReserve(n) \/ ConsumerPeek(n)
           \/ \E v \in Values : ProducerWrite(v)
           \/ ProducerPublish(0) \/ ConsumerRelease(0) \/ ConsumerRead
           \/ ResetProducer \/ ResetConsumer \/ MapProducer \/ MapConsumer \/ UNCHANGED vars
  BY <1>4 DEF ProducerReserve, ConsumerPeek, ProducerWrite, ProducerPublish, ConsumerRelease,
              ConsumerRead, ResetProducer, ResetConsumer, MapProducer, MapConsumer, vars
<1> QED BY <1>2, <1>3, <1>4 DEF Next

\* Every step of the ring is a step of the FIFO or invisible to it.
LEMMA StepRefines ==
  ASSUME CursorsAgree, Mapped, Mapped', [Next]_vars
  PROVE  [Fifo!Next]_(Fifo!vars)
<1> DEFINE Q == Segment(written, head, tail)
           D == Segment(written, 0, head)
<1>1. /\ tail \in Nat /\ head \in Nat /\ head <= tail /\ tail <= MaxPosition
      /\ producer.done \in Nat /\ 0 \in Nat /\ 0 <= head
  BY CapacityAssumption, MaxPositionAssumption
     DEF Mapped, CursorsAgree, TypeOK, EndpointStates, RingBounded
<1>2. /\ FifoQueue = Q /\ FifoDelivered = D
      /\ FifoQueue' = Segment(written', head', tail')
      /\ FifoDelivered' = Segment(written', 0, head')
  BY DEF Mapped
<1>3. CASE tail' = tail /\ head' = head
  <2>1. \A p \in Nat : p < tail => written'[p] = written[p]
    BY <1>1, StepKeepsPublished, MaxPositionAssumption DEF Positions, vars
  <2>2. \A p \in Nat : 0 <= p /\ p < head => written'[p] = written[p]  BY <1>1, <2>1
  <2>3. \A p \in Nat : head <= p /\ p < tail => written'[p] = written[p]  BY <2>1
  <2>4. Segment(written', head, tail) = Segment(written, head, tail)
    BY <1>1, <2>3, SegmentsEqual
  <2>5. Segment(written', 0, head) = Segment(written, 0, head)
    BY <1>1, <2>2, SegmentsEqual
  <2> QED BY <1>2, <1>3, <2>4, <2>5 DEF Fifo!vars, FifoQueue, FifoDelivered
<1>4. ASSUME head' = head, written' = written, NEW n \in 1..Capacity, tail' = tail + n,
             n <= producer.done, tail + n - head <= Capacity
      PROVE  Fifo!Put
  <2> DEFINE end == tail + n
             batch == Segment(written, tail, end)
  <2>1. /\ end \in Nat /\ head <= end /\ tail <= end /\ end - tail = n
        /\ (tail - head) + n <= Capacity
    BY <1>1, <1>4, CapacityAssumption
  <2>2. /\ Within(written, Values, tail, end) /\ Within(written, Values, head, tail)
        /\ Within(written, Values, head, end)
    BY <1>1, <1>4, CapacityAssumption DEF Within, Mapped
  <2> HIDE DEF end
  <2>3. batch \in [1..n -> Values] /\ Len(batch) = n
    BY <1>1, <2>1, <2>2, SegmentIsSeq
  <2>4. Len(Q) = tail - head  BY <1>1, <2>2, SegmentIsSeq
  <2>5. Q \o batch = Segment(written, head, end)
    <3>1. head \in Nat /\ tail \in Nat /\ end \in Nat /\ head <= tail /\ tail <= end
      BY <1>1, <2>1
    <3> QED BY <3>1, <2>2, SegmentsJoin, Zenon
  <2>6. FifoQueue' = FifoQueue \o batch  BY <1>2, <1>4, <2>5 DEF end
  <2>7. FifoDelivered' = FifoDelivered  BY <1>2, <1>4
  <2>8. Len(FifoQueue) + Len(batch) <= Capacity  BY <1>2, <2>1, <2>3, <2>4
  <2>9. batch \in Fifo!Batches  BY <2>3 DEF Fifo!Batches
  <2> HIDE DEF batch
  <2> QED BY <2>6, <2>7, <2>8, <2>9 DEF Fifo!Put, FifoQueue, FifoDelivered
<1>5. ASSUME tail' = tail, written' = written, NEW n \in 1..Capacity, head' = head + n,
             head + n <= tail
      PROVE  Fifo!Take
  <2> DEFINE mid == head + n
  <2>1. mid \in Nat /\ head <= mid /\ mid <= tail /\ mid - head = n
    BY <1>1, <1>5, CapacityAssumption
  <2>2. Within(written, Values, head, tail) /\ Within(written, Values, 0, mid)
    BY <1>1, <1>5, CapacityAssumption DEF Within, Mapped
  <2> HIDE DEF mid
  <2>3. Len(Q) = tail - head  BY <1>1, <2>2, SegmentIsSeq
  <2>4. /\ SubSeq(Q, 1, mid - head) = Segment(written, head, mid)
        /\ SubSeq(Q, (mid - head) + 1, tail - head) = Segment(written, mid, tail)
    <3>1. head \in Nat /\ mid \in Nat /\ tail \in Nat /\ head <= mid /\ mid <= tail
      BY <1>1, <2>1
    <3>2. Within(written, Values, head, tail)  BY <2>2
    <3>3. SubSeq(Q, 1, mid - head) = Segment(written, head, mid)
      BY <3>1, <3>2, SegmentSplits, ZenonT(60)
    <3>4. SubSeq(Q, (mid - head) + 1, tail - head) = Segment(written, mid, tail)
      BY <3>1, <3>2, SegmentSplits, Zenon
    <3> QED BY <3>3, <3>4
  <2>5. D \o Segment(written, head, mid) = Segment(written, 0, mid)
    <3>1. 0 \in Nat /\ head \in Nat /\ mid \in Nat /\ 0 <= head /\ head <= mid
      BY <1>1, <2>1
    <3> QED BY <3>1, <2>2, SegmentsJoin, Zenon
  <2>6. FifoDelivered' = FifoDelivered \o SubSeq(FifoQueue, 1, n)
    BY <1>2, <1>5, <2>1, <2>4, <2>5 DEF mid
  <2>7. FifoQueue' = SubSeq(FifoQueue, n + 1, Len(FifoQueue))
    BY <1>2, <1>5, <2>1, <2>3, <2>4 DEF mid
  <2>8. n \in 1..Len(FifoQueue)  BY <1>1, <1>2, <2>1, <2>3
  <2> QED BY <2>6, <2>7, <2>8 DEF Fifo!Take, FifoQueue, FifoDelivered
<1> QED BY <1>3, <1>4, <1>5, PublishedPositionsMove DEF Fifo!Next

\* The ring's initial states map to the empty FIFO.
LEMMA InitRefines == Init => Fifo!Init /\ FilledWithValues
<1> SUFFICES ASSUME Init PROVE Fifo!Init /\ FilledWithValues  OBVIOUS
<1>1. tail = 0 /\ head = 0 /\ producer.done = 0  BY DEF Init, Fresh
<1>2. FilledWithValues
  BY <1>1, MaxPositionAssumption DEF FilledWithValues, Positions
<1>3. [i \in 1..0 |-> slots[(0 + i - 1) % Capacity]] = <<>> /\ [i \in 1..0 |-> taken[i - 1]] = <<>>
  OBVIOUS
<1>4. tail - head = 0  BY <1>1
<1> QED BY <1>1, <1>2, <1>3, <1>4 DEF Fifo!Init

\* The ring implements the bounded FIFO.
THEOREM RingImplementsFifo == Spec => ImplementsFifo
<1>1. Init => CursorsAgree /\ FilledWithValues /\ Fifo!Init  BY InitAgrees, InitRefines
<1>2. CursorsAgree /\ FilledWithValues /\ [Next]_vars => CursorsAgree' /\ FilledWithValues'
  BY NextAgrees, StepKeepsFilled
<1>3. CursorsAgree /\ FilledWithValues => Mapped  BY AgreementMaps
<1>4. CursorsAgree /\ Mapped /\ Mapped' /\ [Next]_vars => [Fifo!Next]_(Fifo!vars)
  BY StepRefines
<1> QED BY <1>1, <1>2, <1>3, <1>4, PTL DEF Spec, ImplementsFifo, Fifo!Spec
=============================================================================
