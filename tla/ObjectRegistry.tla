---------------------------- MODULE ObjectRegistry ----------------------------
(***************************************************************************)
(* The daemon's typed object registry (src/control/object_registry.hpp): a *)
(* vector of slots that are reused under a new generation, and an object   *)
(* identity that names a slot together with the generation it was issued   *)
(* for.  A registry is a value; each operation returns the new one.        *)
(*                                                                         *)
(* Slots are numbered from 1.  The object type in an identity is left to   *)
(* the caller, which keeps one registry per type.                          *)
(***************************************************************************)
EXTENDS Integers, Sequences, FiniteSets

CONSTANTS MaxSlots,        \* kMaxObjectSlot + 1
          MaxGeneration    \* std::numeric_limits<std::uint32_t>::max()

ASSUME RegistryAssumption == MaxSlots \in Nat \ {0} /\ MaxGeneration \in Nat \ {0}

NoOwner == 0
NoRecord == [absent |-> TRUE]

Identities == [slot : 1..MaxSlots, generation : 1..MaxGeneration]
NoIdentity == [slot |-> 0, generation |-> 0]

Empty == [slots |-> <<>>, free |-> <<>>]

Live(slot) == ~slot.retired /\ slot.owner # NoOwner

HasRoom(r) == r.free # <<>> \/ Len(r.slots) < MaxSlots

\* The most recently freed slot, or a new one at the end.
NextSlot(r) == IF r.free # <<>> THEN r.free[Len(r.free)] ELSE Len(r.slots) + 1

\* The identity the next insertion returns.
NextIdentity(r) ==
    [slot |-> NextSlot(r),
     generation |-> IF r.free # <<>> THEN r.slots[NextSlot(r)].generation ELSE 1]

Insert(r, owner, record) ==
    LET slot == [generation |-> NextIdentity(r).generation, owner |-> owner,
                 value |-> record, retired |-> FALSE]
    IN IF r.free # <<>>
       THEN [slots |-> [r.slots EXCEPT ![NextSlot(r)] = slot],
             free |-> SubSeq(r.free, 1, Len(r.free) - 1)]
       ELSE [r EXCEPT !.slots = Append(@, slot)]

ResolvesAny(r, id) ==
    /\ id.slot \in DOMAIN r.slots
    /\ Live(r.slots[id.slot])
    /\ r.slots[id.slot].generation = id.generation

\* Mutant of Resolves: the owner is not compared.
ResolvesForAnyone(r, owner, id) == ResolvesAny(r, id)

Resolves(r, owner, id) == ResolvesAny(r, id) /\ r.slots[id.slot].owner = owner

Get(r, id) == r.slots[id.slot].value

Put(r, id, record) == [r EXCEPT !.slots[id.slot].value = record]

LiveIdentities(r) ==
    {[slot |-> i, generation |-> r.slots[i].generation] :
        i \in {j \in DOMAIN r.slots : Live(r.slots[j])}}

OwnedBy(r, owner) == {id \in LiveIdentities(r) : r.slots[id.slot].owner = owner}

\* Mutant of Released: generations start again.
ReleasedReusing(slot) ==
    [generation |-> IF slot.generation = MaxGeneration THEN 1 ELSE slot.generation + 1,
     owner |-> NoOwner, value |-> NoRecord, retired |-> FALSE]

\* release(): the slot whose generations are used up is never used again.
Released(slot) ==
    [generation |-> IF slot.generation = MaxGeneration THEN slot.generation
                                                       ELSE slot.generation + 1,
     owner |-> NoOwner, value |-> NoRecord,
     retired |-> slot.generation = MaxGeneration]

\* Release of a set of slots, in index order.
Release(r, indices) ==
    LET reusable(i) == i \in indices /\ ~Released(r.slots[i]).retired
    IN [slots |-> [i \in DOMAIN r.slots |->
                     IF i \in indices THEN Released(r.slots[i]) ELSE r.slots[i]],
        free |-> r.free \o SelectSeq([i \in DOMAIN r.slots |-> i], reusable)]

Erase(r, id) == Release(r, {id.slot})

EraseSession(r, owner) ==
    Release(r, {i \in DOMAIN r.slots : Live(r.slots[i]) /\ r.slots[i].owner = owner})

=============================================================================
