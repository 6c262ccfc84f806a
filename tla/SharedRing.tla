------------------------------ MODULE SharedRing ------------------------------
(***************************************************************************)
(* The single-producer single-consumer ring in a memfd that carries every   *)
(* SQ, RQ and CQ between a client process and the daemon                    *)
(* (src/queue/shared_ring.cpp).                                             *)
(*                                                                          *)
(* Shared memory holds the slots and two published positions, tail and      *)
(* head.  Each side keeps a private copy of its own position, a cached and  *)
(* possibly stale copy of the other side's, and a slot index it advances    *)
(* incrementally.  Positions only grow; a slot index is a position modulo   *)
(* the capacity, which need not be a power of two.                          *)
(*                                                                          *)
(* written and taken are history: the value last stored for a position by   *)
(* the producer, and the value read for it by the consumer.                 *)
(***************************************************************************)
EXTENDS Naturals, FiniteSets

CONSTANTS Capacity,      \* QueueDescriptor::capacity
          Values,        \* contents of a slot
          NoValue,       \* a slot or position nobody has stored to
          MaxPosition    \* bound: positions stay below it

ASSUME CapacityAssumption == Capacity \in Nat \ {0}
ASSUME MaxPositionAssumption == MaxPosition \in Nat
ASSUME NoValueAssumption == NoValue \notin Values

VARIABLES
  tail, head,            \* SharedRingHeader: the published positions
  slots,                 \* slot contents, by slot index
  producer,              \* the producer endpoint: mapping and ProducerState
  consumer,              \* the consumer endpoint: mapping and ConsumerState
  written, taken         \* history, by position

vars == <<tail, head, slots, producer, consumer, written, taken>>

Indices == 0..(Capacity - 1)
Positions == 0..(MaxPosition - 1)
Statuses == {"ok", "EAGAIN", "EPROTO"}
Phases == {"unmapped", "mapped", "initialized"}

\* ProducerState and ConsumerState: an endpoint that is mapped (valid) gets its
\* private cursors at its first call (initialized); claimed is reserved or
\* peeked, done is how many of the claimed slots the caller has filled or read.
EndpointStates == [phase : Phases, local : Nat, cached : Nat,
                   index : Indices, claimed : 0..Capacity, done : 0..Capacity,
                   status : Statuses]

\* The members of a default-constructed SharedRing, mapped or not.
Fresh(mapping) == [phase |-> mapping, local |-> 0, cached |-> 0, index |-> 0,
                   claimed |-> 0, done |-> 0, status |-> "ok"]

\* One side created the ring (and so has it mapped), the other will map it.
Init == /\ tail = 0 /\ head = 0
        /\ slots = [i \in Indices |-> NoValue]
        /\ \E creator \in {"producer", "consumer"} :
             /\ producer = Fresh(IF creator = "producer" THEN "mapped" ELSE "unmapped")
             /\ consumer = Fresh(IF creator = "consumer" THEN "mapped" ELSE "unmapped")
        /\ written = [p \in Positions |-> NoValue]
        /\ taken = [p \in Positions |-> NoValue]

-----------------------------------------------------------------------------
(* Slot indices.                                                            *)

\* Slot of the offset-th element of a batch that starts at index: the first
\* span runs to the end of the ring, the second starts over at slot 0.
SlotAt(index, offset) == IF index + offset < Capacity THEN index + offset
                                                     ELSE index + offset - Capacity

\* The index after count elements.
Advance(index, count) == IF index + count >= Capacity THEN index + count - Capacity
                                                     ELSE index + count

Min2(a, b) == IF a < b THEN a ELSE b

-----------------------------------------------------------------------------
(* Producer.                                                                *)

\* Mutant of ProducerInitialized: a new mapping starts at slot 0.
ProducerStartsAtZero ==
  IF producer.phase = "initialized" THEN producer
  ELSE [producer EXCEPT !.phase = "initialized", !.local = tail, !.cached = head, !.index = 0]

\* The lazy initialisation at the first reserve of a mapping.
ProducerInitialized ==
  IF producer.phase = "initialized" THEN producer
  ELSE [producer EXCEPT !.phase = "initialized", !.local = tail, !.cached = head,
                        !.index = tail % Capacity]

\* local - cached on unsigned integers is at most Capacity.
Consistent(high, low) == low <= high /\ high - low <= Capacity

\* Mutant of ProducerReserve: the cached head is refreshed only when it shows no
\* room at all.
ProducerReserveLazily(max_count) ==
  /\ producer.phase # "unmapped" /\ max_count # 0 /\ producer.claimed = 0
  /\ LET p == ProducerInitialized
         q == IF p.local - p.cached = Capacity THEN [p EXCEPT !.cached = head] ELSE p
         available == Capacity - (q.local - q.cached)
     IN producer' = IF available = 0 THEN [q EXCEPT !.status = "EAGAIN"]
                    ELSE [q EXCEPT !.claimed = Min2(max_count, available), !.done = 0,
                                   !.status = "ok"]
  /\ UNCHANGED <<tail, head, slots, consumer, written, taken>>

\* producer_reserve: the cached head is refreshed only when it does not show
\* room for the whole request.
ProducerReserve(max_count) ==
  /\ producer.phase # "unmapped" /\ max_count # 0 /\ producer.claimed = 0
  /\ LET p == ProducerInitialized
         stale == Capacity - (p.local - p.cached) < max_count
         q == IF Consistent(p.local, p.cached) /\ stale
              THEN [p EXCEPT !.cached = head] ELSE p
         available == Capacity - (q.local - q.cached)
     IN producer' =
          IF ~Consistent(q.local, q.cached) THEN [q EXCEPT !.status = "EPROTO"]
          ELSE IF available = 0 THEN [q EXCEPT !.status = "EAGAIN"]
          ELSE [q EXCEPT !.claimed = Min2(max_count, available), !.done = 0,
                         !.status = "ok"]
  /\ UNCHANGED <<tail, head, slots, consumer, written, taken>>

\* The caller stores a value into the next slot of its reserved batch.
ProducerWrite(value) ==
  /\ producer.done < producer.claimed
  /\ producer.local + producer.done \in Positions
  /\ slots' = [slots EXCEPT ![SlotAt(producer.index, producer.done)] = value]
  /\ written' = [written EXCEPT ![producer.local + producer.done] = value]
  /\ producer' = [producer EXCEPT !.done = @ + 1]
  /\ UNCHANGED <<tail, head, consumer, taken>>

\* Mutant of ProducerPublish: the whole reservation becomes visible.
ProducerPublishAll(count) ==
  /\ producer.phase # "unmapped" /\ producer.claimed # 0 /\ count <= producer.done
  /\ producer' = [producer EXCEPT !.local = @ + producer.claimed,
                                  !.index = Advance(@, producer.claimed),
                                  !.claimed = 0, !.done = 0, !.status = "ok"]
  /\ tail' = producer.local + producer.claimed
  /\ UNCHANGED <<head, slots, consumer, written, taken>>

\* producer_publish: count of the reserved slots, all filled, become visible
\* in one store; count 0 gives the reservation up.
ProducerPublish(count) ==
  /\ producer.phase # "unmapped" /\ producer.claimed # 0 /\ count <= producer.done
  /\ producer' = [producer EXCEPT !.local = @ + count, !.index = Advance(@, count),
                                  !.claimed = 0, !.done = 0, !.status = "ok"]
  /\ tail' = IF count # 0 THEN producer.local + count ELSE tail
  /\ UNCHANGED <<head, slots, consumer, written, taken>>

-----------------------------------------------------------------------------
(* Consumer.                                                                *)

\* The lazy initialisation at the first peek of a mapping.
ConsumerInitialized ==
  IF consumer.phase = "initialized" THEN consumer
  ELSE [consumer EXCEPT !.phase = "initialized", !.local = head, !.cached = tail,
                        !.index = head % Capacity]

\* consumer_peek: the cached tail is refreshed only when it shows fewer
\* elements than were asked for.
ConsumerPeek(max_count) ==
  /\ consumer.phase # "unmapped" /\ max_count # 0 /\ consumer.claimed = 0
  /\ LET c == ConsumerInitialized
         d == IF Consistent(c.cached, c.local) /\ c.cached - c.local < max_count
              THEN [c EXCEPT !.cached = tail] ELSE c
         available == d.cached - d.local
     IN consumer' =
          IF ~Consistent(d.cached, d.local) THEN [d EXCEPT !.status = "EPROTO"]
          ELSE IF available = 0 THEN [d EXCEPT !.status = "EAGAIN"]
          ELSE [d EXCEPT !.claimed = Min2(max_count, available), !.done = 0,
                         !.status = "ok"]
  /\ UNCHANGED <<tail, head, slots, producer, written, taken>>

\* The caller reads the next slot of its peeked batch.
ConsumerRead ==
  /\ consumer.done < consumer.claimed
  /\ taken' = [taken EXCEPT ![consumer.local + consumer.done] =
                              slots[SlotAt(consumer.index, consumer.done)]]
  /\ consumer' = [consumer EXCEPT !.done = @ + 1]
  /\ UNCHANGED <<tail, head, slots, producer, written>>

\* Mutant of ConsumerRelease: cancelling a peek releases what was read.
ConsumerReleaseAll(count) ==
  /\ consumer.phase # "unmapped" /\ consumer.claimed # 0 /\ count <= consumer.done
  /\ consumer' = [consumer EXCEPT !.local = @ + count, !.index = Advance(@, count),
                                  !.claimed = 0, !.done = 0, !.status = "ok"]
  /\ head' = consumer.local + consumer.claimed
  /\ UNCHANGED <<tail, slots, producer, written, taken>>

\* consumer_release: count of the peeked slots, all read, return to the
\* producer in one store; count 0 leaves them for the next peek.
ConsumerRelease(count) ==
  /\ consumer.phase # "unmapped" /\ consumer.claimed # 0 /\ count <= consumer.done
  /\ consumer' = [consumer EXCEPT !.local = @ + count, !.index = Advance(@, count),
                                  !.claimed = 0, !.done = 0, !.status = "ok"]
  /\ head' = IF count # 0 THEN consumer.local + count ELSE head
  /\ UNCHANGED <<tail, slots, producer, written, taken>>

-----------------------------------------------------------------------------
(* Mappings.  A side may unmap (reset) at any moment, losing its private     *)
(* state and any batch it held, and map the memfd again; the other mapping   *)
(* keeps the memory alive.                                                   *)

ResetProducer ==
  /\ producer.phase # "unmapped" /\ consumer.phase # "unmapped"
  /\ producer' = Fresh("unmapped")
  /\ UNCHANGED <<tail, head, slots, consumer, written, taken>>

ResetConsumer ==
  /\ producer.phase # "unmapped" /\ consumer.phase # "unmapped"
  /\ consumer' = Fresh("unmapped")
  /\ UNCHANGED <<tail, head, slots, producer, written, taken>>

\* Mutant of MapProducer: mapping initialises the header, as create does.
MapProducerRecreates ==
  /\ producer.phase = "unmapped"
  /\ producer' = Fresh("mapped")
  /\ tail' = 0 /\ head' = 0
  /\ UNCHANGED <<slots, consumer, written, taken>>

MapProducer ==
  /\ producer.phase = "unmapped"
  /\ producer' = Fresh("mapped")
  /\ UNCHANGED <<tail, head, slots, consumer, written, taken>>

MapConsumer ==
  /\ consumer.phase = "unmapped"
  /\ consumer' = Fresh("mapped")
  /\ UNCHANGED <<tail, head, slots, producer, written, taken>>

Next == \/ \E n \in 1..Capacity : ProducerReserve(n) \/ ConsumerPeek(n)
        \/ \E v \in Values : ProducerWrite(v)
        \/ \E n \in 0..Capacity : ProducerPublish(n) \/ ConsumerRelease(n)
        \/ ConsumerRead
        \/ ResetProducer \/ ResetConsumer \/ MapProducer \/ MapConsumer

Spec == Init /\ [][Next]_vars

-----------------------------------------------------------------------------
(* Properties.                                                              *)

\* Every variable has its type: in particular the incrementally advanced slot
\* indices stay inside the ring.
TypeOK ==
  /\ tail \in Nat /\ head \in Nat
  /\ slots \in [Indices -> Values \cup {NoValue}]
  /\ producer \in EndpointStates /\ consumer \in EndpointStates
  /\ written \in [Positions -> Values \cup {NoValue}]
  /\ taken \in [Positions -> Values \cup {NoValue}]

\* The published positions are at most a ring apart.
RingBounded == head <= tail /\ tail - head <= Capacity /\ tail + producer.done <= MaxPosition

\* The producer's position is the published one, its cached head is at most
\* behind, its index is its position's slot, and what it holds fits what it saw.
ProducerSound ==
  /\ producer.done <= producer.claimed
  /\ producer.claimed # 0 => producer.phase = "initialized"
  /\ producer.phase = "initialized" =>
       /\ producer.local = tail /\ producer.cached <= head
       /\ producer.index = producer.local % Capacity
       /\ producer.local + producer.claimed <= producer.cached + Capacity

\* The same of the consumer and the tail it has cached.
ConsumerSound ==
  /\ consumer.done <= consumer.claimed
  /\ consumer.claimed # 0 => consumer.phase = "initialized"
  /\ consumer.phase = "initialized" =>
       /\ consumer.local = head /\ consumer.cached <= tail
       /\ consumer.index = consumer.local % Capacity
       /\ consumer.local + consumer.claimed <= consumer.cached

\* The slot of every live position, filled and published or only filled, holds
\* what was stored for it.
SlotsHoldWritten ==
  \A p \in Positions : head <= p /\ p < tail + producer.done
                         => slots[p % Capacity] = written[p]

\* Slots an endpoint may be accessing through the spans it was given.
ClaimedSlots(endpoint) == {SlotAt(endpoint.index, i) : i \in 0..(endpoint.claimed - 1)}

\* The spans handed to the producer and to the consumer never share a slot, so
\* the plain (non-atomic) stores and loads of the two processes never race.
SlotsDisjoint == ClaimedSlots(producer) \cap ClaimedSlots(consumer) = {}

\* Two well-behaved endpoints never see EPROTO from reserve or peek, whatever
\* is cached, cancelled or remapped: the check only detects a corrupt header.
NoProtocolError == producer.status # "EPROTO" /\ consumer.status # "EPROTO"

\* What the consumer reads for a position is what the producer stored for it.
FifoDelivery ==
  \A p \in Positions : p < head + consumer.done => taken[p] = written[p]

\* The private cursors of both endpoints agree with the published ones through
\* every reserve, publish, peek, release, cancellation and remapping: the
\* inductive invariant behind the properties above.
CursorsAgree ==
  /\ TypeOK /\ RingBounded /\ ProducerSound /\ ConsumerSound
  /\ SlotsHoldWritten /\ FifoDelivery /\ NoProtocolError

\* Every position filled so far holds a value that some caller stored.
FilledWithValues ==
  \A p \in Positions : p < tail + producer.done => written[p] \in Values

\* A published element is never stored to again, and published positions never
\* move back, not even when an endpoint unmaps in the middle of a batch.
PublishedStable ==
  [][/\ tail' >= tail /\ head' >= head
     /\ \A p \in Positions : p < tail => written'[p] = written[p]]_vars

\* The cached positions are invisible to the callers: reserve and peek grant
\* exactly what reading the other side's position every time would grant, so a
\* stale copy never causes a spurious EAGAIN or a short batch.
CachingInvisible ==
  [][\A n \in 1..Capacity :
       /\ ProducerReserve(n) => producer'.claimed = Min2(n, Capacity - (tail - head))
       /\ ConsumerPeek(n) => consumer'.claimed = Min2(n, tail - head)]_vars

\* The ring implements the bounded FIFO: publish appends the filled batch at
\* once, release removes the oldest elements, every other step is invisible.
Fifo == INSTANCE BoundedFifo WITH
          queue <- [i \in 1..(tail - head) |-> slots[(head + i - 1) % Capacity]],
          delivered <- [i \in 1..head |-> taken[i - 1]]

\* The specification of the bounded FIFO, as a property of the ring.
ImplementsFifo == Fifo!Spec
=============================================================================
