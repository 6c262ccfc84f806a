----------------------------- MODULE BoundedFifo -----------------------------
(***************************************************************************)
(* What a shared ring promises its two users: a FIFO of at most Capacity    *)
(* elements, filled and emptied in batches.  Nothing here knows of cursors, *)
(* cached positions, slots or mappings.                                     *)
(***************************************************************************)
EXTENDS Naturals, Sequences

CONSTANTS Capacity,   \* elements the queue holds
          Values      \* what an element may be

VARIABLES queue,      \* elements published and not yet released, oldest first
          delivered   \* everything handed over so far, in order

vars == <<queue, delivered>>

Batches == UNION {[1..n -> Values] : n \in 1..Capacity}

Init == queue = <<>> /\ delivered = <<>>

\* A batch becomes visible all at once, behind everything already queued.
Put == \E batch \in Batches :
         /\ Len(queue) + Len(batch) <= Capacity
         /\ queue' = queue \o batch
         /\ UNCHANGED delivered

\* The oldest n elements leave together, in order.
Take == \E n \in 1..Len(queue) :
          /\ delivered' = delivered \o SubSeq(queue, 1, n)
          /\ queue' = SubSeq(queue, n + 1, Len(queue))

Next == Put \/ Take

Spec == Init /\ [][Next]_vars
=============================================================================
