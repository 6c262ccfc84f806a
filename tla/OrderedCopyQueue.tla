--------------------------- MODULE OrderedCopyQueue ---------------------------
(***************************************************************************)
(* What the copy backend relies on in a persistent-kernel queue: tasks are   *)
(* accepted up to a capacity, each one is copied once, in any order, and     *)
(* completions come back in submission order, each after its copy.  Tasks    *)
(* are numbered in submission order.                                         *)
(***************************************************************************)
EXTENDS Naturals, Sequences

CONSTANTS Capacity     \* tasks accepted and not yet reported

VARIABLES submitted,   \* number of tasks accepted
          copied,      \* the tasks that have been copied
          delivered    \* the tasks reported to the host, in order

vars == <<submitted, copied, delivered>>

Init == submitted = 0 /\ copied = {} /\ delivered = <<>>

Submit == \E count \in 1..(Capacity - (submitted - Len(delivered))) :
            submitted' = submitted + count /\ UNCHANGED <<copied, delivered>>

Copy == \E task \in 0..(submitted - 1) :
          /\ task \notin copied
          /\ copied' = copied \cup {task}
          /\ UNCHANGED <<submitted, delivered>>

Deliver == /\ Len(delivered) \in copied
           /\ delivered' = Append(delivered, Len(delivered))
           /\ UNCHANGED <<submitted, copied>>

Next == Submit \/ Copy \/ Deliver

Spec == Init /\ [][Next]_vars
=============================================================================
