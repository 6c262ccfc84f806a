--------------------------- MODULE MCControlService ---------------------------
(***************************************************************************)
(* Model-checking instance of ControlService.  It starts from nothing, or   *)
(* from two clients that have each opened a context, a protection domain, a *)
(* completion queue and a queue pair, so that queue pairs of two sessions   *)
(* meet, vanish and are replaced within the bounds.  The memory keys have   *)
(* run out there, and all but one mapping: every registration rolls back.   *)
(***************************************************************************)
EXTENDS ControlService, TLC

CONSTANT PairCreates     \* bound: objects created after the second start

\* Sessions are only compared for equality.
Symmetry == Permutations(Sessions)

Setup(s, session) ==
    LET context == CreateContext(s, session)
        pd == CreatePd(context.service, session, context.id)
        cq == CreateCq(pd.service, session, context.id, "none")
    IN CreateQp(cq.service, session, pd.id, cq.id, cq.id, "none").service

PairInit ==
    /\ \E first, second \in Sessions :
         /\ first # second
         /\ service = [Setup(Setup(NewService, first), second)
                       EXCEPT !.next_key = KeyLimit + 1,
                              !.mapped = Mappings \ {1}, !.unclosed = Mappings \ {1}]
    /\ sessions = Sessions /\ gone = {} /\ created = MaxCreates - PairCreates /\ actor = NoOwner
    /\ issued = {<<t, id>> : t \in Types \ {"mr"},
                            id \in {[slot |-> i, generation |-> 1] : i \in 1..2}}

MCSpec == (Init \/ PairInit) /\ [][Next]_vars

=============================================================================
