---------------------------- MODULE MCClientRuntime ----------------------------
(***************************************************************************)
(* Model-checking instance of ClientRuntime.  It starts after a client has  *)
(* connected and opened a context, a protection domain and a completion     *)
(* queue, so that few further calls reach queue pairs, memory regions and,  *)
(* on a second connection, contexts again.                                  *)
(***************************************************************************)
EXTENDS ClientRuntime

Opened == LET context == CreateContext(NewService, 1)
              pd == CreatePd(context.service, 1, context.id)
              cq == CreateCq(pd.service, 1, context.id, "none")
              proxy(type, id, parents) ==
                [type |-> type, id |-> id, parents |-> parents, epoch |-> 1, live |-> TRUE,
                 cached |-> "none", birth |-> <<1, 1>>]
          IN [service |-> cq.service,
              handles |-> <<proxy("context", context.id, <<>>), proxy("pd", pd.id, <<1>>),
                            proxy("cq", cq.id, <<1>>)>>]

MCInit ==
    /\ service = Opened.service /\ handles = Opened.handles
    /\ boot = 1 /\ next_session = 2 /\ server = {1} /\ abandoned = {}
    /\ client = [connected |-> TRUE, epoch |-> 1, session |-> 1]
    /\ call = NoCall /\ orphaned = FALSE

MCSpec == MCInit /\ [][Next]_vars /\ Fairness
=============================================================================
