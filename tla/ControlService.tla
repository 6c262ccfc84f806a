---------------------------- MODULE ControlService ----------------------------
(***************************************************************************)
(* The daemon's control plane serving several sessions: the server takes   *)
(* one request, or one disconnection, at a time and runs its handler       *)
(* (ControlHandlers).                                                      *)
(***************************************************************************)
EXTENDS ControlHandlers

CONSTANTS Sessions,      \* sessions the server accepts, one per connection
          MaxCreates     \* bound: objects created in one behaviour

ASSUME ServiceAssumption == NoOwner \notin Sessions /\ MaxCreates \in Nat

VARIABLES service,     \* the registries and counters of QpService
          sessions,    \* connected sessions
          gone,        \* sessions that have disconnected
          created,     \* objects created so far (bounded by MaxCreates)
          issued,      \* history: every identity ever returned, with its type
          actor        \* history: whose request or disconnection last changed `service`

vars == <<service, sessions, gone, created, issued, actor>>

Init ==
    /\ service = NewService
    /\ sessions = {} /\ gone = {} /\ created = 0 /\ issued = {} /\ actor = NoOwner

Accept(session) ==
    /\ session \notin sessions \cup gone
    /\ sessions' = sessions \cup {session}
    /\ UNCHANGED <<service, gone, created, issued, actor>>

Disconnect(session, kept) ==
    /\ session \in sessions
    /\ sessions' = sessions \ {session}
    /\ gone' = gone \cup {session}
    /\ service' = OnDisconnect(service, session, kept)
    /\ actor' = IF service' = service THEN actor ELSE session
    /\ UNCHANGED <<created, issued>>

Created(session, type, result) ==
    /\ service' = result.service
    /\ actor' = IF service' = service THEN actor ELSE session
    /\ created' = IF service' = service THEN created ELSE created + 1
    /\ issued' = IF result.status = "ok" THEN issued \cup {<<type, result.id>>} ELSE issued
    /\ UNCHANGED <<sessions, gone>>

Handled(session, result) ==
    /\ session \in sessions
    /\ service' = result.service
    /\ actor' = IF service' = service THEN actor ELSE session
    /\ UNCHANGED <<sessions, gone, created, issued>>

\* The identities a request can name: any ever issued, to whichever session
\* and however stale, and one that names nothing.
Known(type) == {e[2] : e \in {i \in issued : i[1] = type}} \cup {NoIdentity}

HandleCreate(session) ==
    /\ session \in sessions
    /\ created < MaxCreates
    /\ \/ Created(session, "context", CreateContext(service, session))
       \/ \E context \in Known("context") :
            \/ Created(session, "pd", CreatePd(service, session, context))
            \/ \E fault \in OpenFaults :
                 Created(session, "cq", CreateCq(service, session, context, fault))
       \/ \E pd \in Known("pd") :
            \/ \E fault \in MrFaults, closes \in BOOLEAN :
                 Created(session, "mr", RegisterMr(service, session, pd, fault, closes))
            \/ \E fault \in Faults, send_cq, recv_cq \in Known("cq") :
                 Created(session, "qp", CreateQp(service, session, pd, send_cq, recv_cq, fault))

HandleDestroy(session) ==
    \/ \E id \in Known("context") : Handled(session, DestroyContext(service, session, id))
    \/ \E id \in Known("pd") : Handled(session, DestroyPd(service, session, id))
    \/ \E id \in Known("mr"), closes \in BOOLEAN :
         Handled(session, DeregisterMr(service, session, id, closes))
    \/ \E id \in Known("cq") : Handled(session, DestroyCq(service, session, id))
    \/ \E id \in Known("qp") : Handled(session, DestroyQp(service, session, id))

HandleQp(session) ==
    \E id \in Known("qp") :
       \/ \E state \in States : Handled(session, ModifyQp(service, session, id, state))
       \/ \E num \in 0..(QpNumLimit - 1) : Handled(session, ConnectQp(service, session, id, num))

Next ==
    \E session \in Sessions :
       \/ Accept(session)
       \/ \E kept \in SUBSET MappingsOf(service, session) : Disconnect(session, kept)
       \/ HandleCreate(session)
       \/ HandleDestroy(session)
       \/ HandleQp(session)

Spec == Init /\ [][Next]_vars

-----------------------------------------------------------------------------
(* Properties *)

Objects(type) == LiveIdentities(service.reg[type])
Value(type, id) == Record(service, type, id)
OwnerOf(type, id) == service.reg[type].slots[id.slot].owner
HasSameOwner(type, id, parent_type, parent) ==
    Resolves(service.reg[parent_type], OwnerOf(type, id), parent)

\* Counters stay in range and every slot on a free list is free, listed once
\* and still has a generation to give (GenerationRegistry's fields).
TypeOK ==
    /\ service.next_key \in 1..(KeyLimit + 1)
    /\ service.next_qp_num \in 0..(QpNumLimit - 1)
    /\ created \in 0..MaxCreates
    /\ \A t \in Types : LET r == service.reg[t] IN
         /\ Len(r.slots) <= MaxSlots
         /\ \A i \in DOMAIN r.slots : r.slots[i].generation \in 1..MaxGeneration
         /\ \A i, j \in DOMAIN r.free : r.free[i] = r.free[j] => i = j
         /\ \A i \in DOMAIN r.slots :
              (\E k \in DOMAIN r.free : r.free[k] = i)
                 <=> r.slots[i].owner = NoOwner /\ ~r.slots[i].retired

\* No object outlives its session (on_disconnect reclaims the whole tree) or
\* what it was made from, and a queue pair never spans two contexts: every
\* parent and completion queue an object names is alive, of the same session,
\* and in the object's context.  So the EINVAL answers that the destroy
\* handlers keep for a missing parent are never given, and worker_qp_view
\* always finds both completion rings.
NoOrphans ==
    /\ \A t \in Types : \A id \in Objects(t) : OwnerOf(t, id) \in sessions
    /\ \A id \in Objects("pd") : HasSameOwner("pd", id, "context", Value("pd", id).context)
    /\ \A id \in Objects("cq") : HasSameOwner("cq", id, "context", Value("cq", id).context)
    /\ \A id \in Objects("mr") :
         /\ HasSameOwner("mr", id, "pd", Value("mr", id).pd)
         /\ Value("pd", Value("mr", id).pd).context = Value("mr", id).context
    /\ \A id \in Objects("qp") : LET qp == Value("qp", id) IN
         /\ HasSameOwner("qp", id, "pd", qp.pd)
         /\ Value("pd", qp.pd).context = qp.context
         /\ \A cq \in {qp.send_cq, qp.recv_cq} :
              HasSameOwner("qp", id, "cq", cq) /\ Value("cq", cq).context = qp.context

\* The reference counts that decide EBUSY are exactly the references there
\* are, after any history of creations, refusals, roll-backs and
\* disconnections: too low and a parent could go first, too high and it could
\* never be destroyed.
CountsExact ==
    /\ \A id \in Objects("context") :
         Value("context", id).children =
            Cardinality({c \in Objects("pd") : Value("pd", c).context = id})
            + Cardinality({c \in Objects("cq") : Value("cq", c).context = id})
    /\ \A id \in Objects("pd") :
         Value("pd", id).qps = Cardinality({q \in Objects("qp") : Value("qp", q).pd = id})
    /\ \A id \in Objects("cq") :
         Value("cq", id).refs =
            Cardinality({q \in Objects("qp") : id \in {Value("qp", q).send_cq,
                                                       Value("qp", q).recv_cq}})

\* The lookup tables hold exactly the live objects: a memory key leads to the
\* region it was issued for, in its own protection domain, no two live keys
\* are equal, and a queue pair number leads to the queue pair that carries it.
\* Registrations that fail after their keys are allocated, after the record is
\* inserted or half way through the indices leave no entry behind.
LookupsExact ==
    /\ TypeOK
    /\ service.qp_num_index = {<<Value("qp", q).num, q>> : q \in Objects("qp")}
    /\ \A p, q \in Objects("qp") : Value("qp", p).num = Value("qp", q).num => p = q
    /\ \A id \in Objects("pd") : LET mrs == {m \in Objects("mr") : Value("mr", m).pd = id} IN
         /\ Value("pd", id).mrs = mrs
         /\ Value("pd", id).local = {<<Value("mr", m).lkey, m>> : m \in mrs}
         /\ Value("pd", id).remote = {<<Value("mr", m).rkey, m>> : m \in mrs}
    /\ \A m, n \in Objects("mr") : m # n =>
         {Value("mr", m).lkey, Value("mr", m).rkey}
            \cap {Value("mr", n).lkey, Value("mr", n).rkey} = {}

\* No device mapping is lost and none is closed under a live region: every
\* memory region has an open mapping of its own, and what else is open is a
\* mapping the driver refused to close or an exception took register_mr past
\* closing.  So each of the failing ways through register_mr closes what it
\* opened, deregister_mr keeps the region when its mapping does not close and
\* may be called again, and a disconnection closes every mapping it can.
MappingsAccounted ==
    /\ service.unclosed \subseteq service.mapped
    /\ service.mapped = {Value("mr", m).mapping : m \in Objects("mr")} \cup service.unclosed
    /\ \A m, n \in Objects("mr") : Value("mr", m).mapping = Value("mr", n).mapping => m = n

\* A queue pair that has been connected keeps its peer: as long as some queue
\* pair carries the peer's number it is the very object connect_qp bound to,
\* although queue pairs come and go in both sessions (next_qp_num_ is never
\* handed out twice).
PeersStable ==
    \A q \in Objects("qp") :
       /\ Value("qp", q).state = "RTS" => Value("qp", q).peer_num # 0
       /\ \A e \in service.qp_num_index :
            e[1] = Value("qp", q).peer_num => e[2] = Value("qp", q).peer

\* An identity is never handed out twice, whatever was destroyed or reclaimed
\* in between, so a stale handle cannot come to name another object
\* (GenerationRegistry::release bumps the generation, and retires the slot
\* when there is none left).
IdentitiesFresh ==
    [][\A t \in Types :
         Cardinality(LiveIdentities(service'.reg[t])) > Cardinality(LiveIdentities(service.reg[t]))
            => issued' # issued]_vars

Belongings(s, session) ==
    [t \in Types |-> {<<id, Record(s, t, id)>> : id \in OwnedBy(s.reg[t], session)}]

\* Sessions are isolated: a request or a disconnection of one session, however
\* many identities of others it names, changes no object of another session,
\* neither the set of them nor any of their records.  Not even connect_qp
\* does, which finds the peer's record by its number.
SessionsIsolated ==
    [][service' # service =>
         \A session \in Sessions \ {actor'} :
            Belongings(service', session) = Belongings(service, session)]_vars

=============================================================================
