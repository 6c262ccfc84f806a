---------------------------- MODULE ControlHandlers ----------------------------
(***************************************************************************)
(* The request handlers of the daemon's control plane:                     *)
(* DeviceContextService, PdMrCqService and QpService (src/control) over    *)
(* the registries of contexts, protection domains, memory regions,         *)
(* completion queues and queue pairs, and the clean-up of a session that   *)
(* disconnects.                                                            *)
(*                                                                         *)
(* The state is one record, `s`.  A handler is an operator from that       *)
(* record, the calling session and the request's arguments to              *)
(* [service, status, id].  What the handler cannot decide (a device        *)
(* mapping or a shared ring that cannot be made, an index that cannot      *)
(* grow) is the argument `fault`, and whether the driver closes a mapping  *)
(* is the argument `closes`.  Requests of the wrong shape are refused      *)
(* before anything happens and are left out, and so is the query of a      *)
(* number, which changes nothing on either side.                           *)
(***************************************************************************)
EXTENDS ObjectRegistry

CONSTANTS KeyLimit,      \* largest memory key: 2^32 - 1 in the code
          QpNumLimit,    \* queue pair numbers wrap here: 2^32 in the code
          Mappings       \* device mappings the driver can have open at a time

ASSUME HandlersAssumption == KeyLimit \in Nat /\ QpNumLimit \in Nat \ {0}

Types == {"context", "pd", "mr", "cq", "qp"}
OpenFaults == {"none", "resource"}
Faults == OpenFaults \cup {"index"}
MrFaults == Faults \cup {"mapping", "throw"}
States == {"RESET", "INIT", "RTS", "ERR"}

NewService ==
    [reg |-> [t \in Types |-> Empty],
     next_key |-> 1, next_qp_num |-> 1 % QpNumLimit,
     qp_num_index |-> {},
     mapped |-> {}, unclosed |-> {}]

Fail(s, status) == [service |-> s, status |-> status, id |-> NoIdentity]
Done(s, id) == [service |-> s, status |-> "ok", id |-> id]

Owns(s, session, type, id) == Resolves(s.reg[type], session, id)
Record(s, type, id) == Get(s.reg[type], id)
Fresh(s, type) == NextIdentity(s.reg[type])
With(s, type, id, record) == [s EXCEPT !.reg[type] = Put(@, id, record)]
Without(s, type, id) == [s EXCEPT !.reg[type] = Erase(@, id)]
Added(s, session, type, record) == [s EXCEPT !.reg[type] = Insert(@, session, record)]

-----------------------------------------------------------------------------
(* Contexts *)

CreateContext(s, session) ==
    IF ~HasRoom(s.reg["context"]) THEN Fail(s, "ENOSPC")
    ELSE Done(Added(s, session, "context", [children |-> 0]), Fresh(s, "context"))

DestroyContext(s, session, id) ==
    IF ~Owns(s, session, "context", id) THEN Fail(s, "EINVAL")
    ELSE IF Record(s, "context", id).children # 0 THEN Fail(s, "EBUSY")
    ELSE Done(Without(s, "context", id), id)

WithChildren(s, id, change) ==
    With(s, "context", id, [children |-> Record(s, "context", id).children + change])

-----------------------------------------------------------------------------
(* Protection domains *)

CreatePd(s, session, context) ==
    IF ~Owns(s, session, "context", context) THEN Fail(s, "EINVAL")
    ELSE IF ~HasRoom(s.reg["pd"]) THEN Fail(s, "ENOSPC")
    ELSE
           LET pd == [context |-> context, mrs |-> {}, local |-> {}, remote |-> {}, qps |-> 0]
           IN Done(WithChildren(Added(s, session, "pd", pd), context, 1), Fresh(s, "pd"))

\* Mutant of DestroyPd: queue pairs do not keep it.
DestroyPdIgnoresQps(s, session, id) ==
    IF ~Owns(s, session, "pd", id) THEN Fail(s, "EINVAL")
    ELSE IF Record(s, "pd", id).mrs # {} THEN Fail(s, "EBUSY")
    ELSE Done(WithChildren(Without(s, "pd", id), Record(s, "pd", id).context, -1), id)

DestroyPd(s, session, id) ==
    IF ~Owns(s, session, "pd", id) THEN Fail(s, "EINVAL")
    ELSE IF Record(s, "pd", id).mrs # {} \/ Record(s, "pd", id).qps # 0 THEN Fail(s, "EBUSY")
    ELSE IF ~Owns(s, session, "context", Record(s, "pd", id).context) THEN Fail(s, "EINVAL")
    ELSE IF Record(s, "context", Record(s, "pd", id).context).children = 0 THEN Fail(s, "EINVAL")
    ELSE Done(WithChildren(Without(s, "pd", id), Record(s, "pd", id).context, -1), id)

-----------------------------------------------------------------------------
(* Memory regions.  A mapping is one successful open of the memory backend  *)
(* (two opens of one allocation count twice).  `mapped` holds the mappings  *)
(* that are open, `unclosed` those of them that the daemon did not get      *)
(* closed when it should have.                                              *)

KeysLeft(s) == s.next_key # 0 /\ s.next_key <= KeyLimit - 1

NewMapping(s) == CHOOSE m \in Mappings : m \notin s.mapped

\* CudaIpcMemoryBackend::close; a mapping that does not close stays open.
Close(s, mapping, closes) ==
    IF closes THEN [s EXCEPT !.mapped = @ \ {mapping}, !.unclosed = @ \ {mapping}]
    ELSE [s EXCEPT !.unclosed = @ \cup {mapping}]

\* Mutant of RollBack: the mapping is forgotten.
RollBackWithoutClose(s, mapping, closes, status) == Fail(s, status)

\* A registration that fails closes what it opened, and ignores the result.
RollBack(s, mapping, closes, status) == Fail(Close(s, mapping, closes), status)

\* The mapping is opened first (and is of no use, "mapping", when it is not
\* of the device asked for).  The keys are spent by every registration that
\* gets as far as allocating them.  Memory that runs out while the result is
\* encoded or the record inserted leaves the handler by an exception
\* ("throw"), past every close; in the indices ("index") it is caught.
RegisterMr(s, session, pd, fault, closes) ==
    LET mapping == NewMapping(s)
        opened == [s EXCEPT !.mapped = @ \cup {mapping}]
        lkey == s.next_key
        rkey == s.next_key + 1
        keyed == [opened EXCEPT !.next_key = @ + 2]
        id == Fresh(s, "mr")
        mr == [pd |-> pd, context |-> Record(s, "pd", pd).context, lkey |-> lkey, rkey |-> rkey,
               mapping |-> mapping]
        inserted == Added(keyed, session, "mr", mr)
    IN IF ~Owns(s, session, "pd", pd) THEN Fail(s, "EINVAL")
       ELSE IF fault = "resource" \/ Mappings \subseteq s.mapped THEN Fail(s, "open")
       ELSE IF fault = "mapping" THEN RollBack(opened, mapping, closes, "EPROTO")
       ELSE IF ~KeysLeft(s) THEN RollBack(opened, mapping, closes, "ENOSPC")
       ELSE IF fault = "throw" THEN Fail([keyed EXCEPT !.unclosed = @ \cup {mapping}], "EIO")
       ELSE IF ~HasRoom(s.reg["mr"]) THEN RollBack(keyed, mapping, closes, "ENOSPC")
       ELSE IF fault = "index" THEN RollBack(Without(inserted, "mr", id), mapping, closes, "ENOMEM")
       ELSE Done(With(inserted, "pd", pd,
                      [Record(s, "pd", pd) EXCEPT
                         !.mrs = @ \cup {id},
                         !.local = @ \cup {<<lkey, id>>},
                         !.remote = @ \cup {<<rkey, id>>}]), id)

\* Mutant of Deindexed: the remote key stays.
DeindexedLocally(pd, mr, id) ==
    [pd EXCEPT !.mrs = @ \ {id}, !.local = {e \in @ : e[1] # mr.lkey}]

Deindexed(pd, mr, id) ==
    [pd EXCEPT !.mrs = @ \ {id},
               !.local = {e \in @ : e[1] # mr.lkey},
               !.remote = {e \in @ : e[1] # mr.rkey}]

\* The mapping is closed first; a region whose mapping does not close stays.
\* work_request_references is never set in the code, so it refuses nobody.
DeregisterMr(s, session, id, closes) ==
    LET mr == Record(s, "mr", id)
        closed == Close(s, mr.mapping, closes)
    IN IF ~Owns(s, session, "mr", id) THEN Fail(s, "EINVAL")
       ELSE IF ~closes THEN Fail(closed, "close")
       ELSE IF ~Owns(s, session, "pd", mr.pd) THEN Fail(closed, "EINVAL")
       ELSE Done(Without(With(closed, "pd", mr.pd,
                                       Deindexed(Record(s, "pd", mr.pd), mr, id)),
                                  "mr", id), id)

-----------------------------------------------------------------------------
(* Completion queues *)

CreateCq(s, session, context, fault) ==
    IF ~Owns(s, session, "context", context) THEN Fail(s, "EINVAL")
    ELSE IF fault = "resource" THEN Fail(s, "ring")
    ELSE IF ~HasRoom(s.reg["cq"]) THEN Fail(s, "ENOSPC")
    ELSE Done(WithChildren(Added(s, session, "cq", [context |-> context, refs |-> 0]),
                                    context, 1), Fresh(s, "cq"))

DestroyCq(s, session, id) ==
    IF ~Owns(s, session, "cq", id) THEN Fail(s, "EINVAL")
    ELSE IF Record(s, "cq", id).refs # 0 THEN Fail(s, "EBUSY")
    ELSE IF ~Owns(s, session, "context", Record(s, "cq", id).context) THEN Fail(s, "EINVAL")
    ELSE IF Record(s, "context", Record(s, "cq", id).context).children = 0 THEN Fail(s, "EINVAL")
    ELSE Done(WithChildren(Without(s, "cq", id), Record(s, "cq", id).context, -1), id)

-----------------------------------------------------------------------------
(* Queue pairs *)

WithQps(s, id, change) == With(s, "pd", id, [Record(s, "pd", id) EXCEPT !.qps = @ + change])
WithRefs(s, id, change) == With(s, "cq", id, [Record(s, "cq", id) EXCEPT !.refs = @ + change])

\* Mutant of WithReferences: a completion queue used twice counts twice.
WithReferencesTwice(s, qp, change) ==
    WithRefs(WithRefs(WithQps(s, qp.pd, change), qp.send_cq, change), qp.recv_cq, change)

\* One reference per completion queue, however often the queue pair uses it.
WithReferences(s, qp, change) ==
    LET counted == WithRefs(WithQps(s, qp.pd, change), qp.send_cq, change)
    IN IF qp.recv_cq = qp.send_cq THEN counted ELSE WithRefs(counted, qp.recv_cq, change)

\* Mutant of CreateQp: numbers of destroyed queue pairs are used again.
SmallestFreeNumber(s) ==
    CHOOSE n \in 1..QpNumLimit :
       /\ \A e \in s.qp_num_index : e[1] # n
       /\ \A m \in 1..(n - 1) : \E e \in s.qp_num_index : e[1] = m

CreateQpReusingNumbers(s, session, pd, send_cq, recv_cq, fault) ==
    LET qp == [pd |-> pd, context |-> Record(s, "pd", pd).context,
               send_cq |-> send_cq, recv_cq |-> recv_cq,
               num |-> SmallestFreeNumber(s), state |-> "RESET", peer_num |-> 0, peer |-> NoIdentity]
        numbered == [s EXCEPT !.next_qp_num = (@ + 1) % QpNumLimit]
        id == Fresh(s, "qp")
        inserted == Added(numbered, session, "qp", qp)
    IN IF ~Owns(s, session, "pd", pd) \/ ~Owns(s, session, "cq", send_cq)
              \/ ~Owns(s, session, "cq", recv_cq) THEN Fail(s, "EINVAL")
       ELSE IF Record(s, "cq", send_cq).context # Record(s, "pd", pd).context
              \/ Record(s, "cq", recv_cq).context # Record(s, "pd", pd).context
              THEN Fail(s, "EINVAL")
       ELSE IF fault = "resource" THEN Fail(s, "ring")
       ELSE IF s.next_qp_num = 0 THEN Fail(s, "ENOSPC")
       ELSE IF ~HasRoom(s.reg["qp"]) THEN Fail(numbered, "ENOSPC")
       ELSE IF fault = "index" THEN Fail(Without(inserted, "qp", id), "ENOMEM")
       ELSE IF \E e \in s.qp_num_index : e[1] = qp.num
              THEN Fail(Without(inserted, "qp", id), "ENOSPC")
       ELSE Done([WithReferences(inserted, qp, 1)
                           EXCEPT !.qp_num_index = @ \cup {<<qp.num, id>>}], id)

CreateQp(s, session, pd, send_cq, recv_cq, fault) ==
    LET qp == [pd |-> pd, context |-> Record(s, "pd", pd).context,
               send_cq |-> send_cq, recv_cq |-> recv_cq,
               num |-> s.next_qp_num, state |-> "RESET", peer_num |-> 0, peer |-> NoIdentity]
        numbered == [s EXCEPT !.next_qp_num = (@ + 1) % QpNumLimit]
        id == Fresh(s, "qp")
        inserted == Added(numbered, session, "qp", qp)
    IN IF ~Owns(s, session, "pd", pd) \/ ~Owns(s, session, "cq", send_cq)
              \/ ~Owns(s, session, "cq", recv_cq) THEN Fail(s, "EINVAL")
       ELSE IF Record(s, "cq", send_cq).context # Record(s, "pd", pd).context
              \/ Record(s, "cq", recv_cq).context # Record(s, "pd", pd).context
              THEN Fail(s, "EINVAL")
       ELSE IF fault = "resource" THEN Fail(s, "ring")
       ELSE IF s.next_qp_num = 0 THEN Fail(s, "ENOSPC")
       ELSE IF ~HasRoom(s.reg["qp"]) THEN Fail(numbered, "ENOSPC")
       ELSE IF fault = "index" THEN Fail(Without(inserted, "qp", id), "ENOMEM")
       ELSE IF \E e \in s.qp_num_index : e[1] = qp.num
              THEN Fail(Without(inserted, "qp", id), "ENOSPC")
       ELSE Done([WithReferences(inserted, qp, 1)
                           EXCEPT !.qp_num_index = @ \cup {<<qp.num, id>>}], id)

Unindexed(s, nums) == [s EXCEPT !.qp_num_index = {e \in @ : e[1] \notin nums}]

DestroyQp(s, session, id) ==
    LET qp == Record(s, "qp", id)
    IN IF ~Owns(s, session, "qp", id) THEN Fail(s, "EINVAL")
       ELSE IF ~Owns(s, session, "pd", qp.pd) \/ ~Owns(s, session, "cq", qp.send_cq)
              \/ ~Owns(s, session, "cq", qp.recv_cq) THEN Fail(s, "EINVAL")
       ELSE IF Record(s, "pd", qp.pd).qps = 0 \/ Record(s, "cq", qp.send_cq).refs = 0
              \/ Record(s, "cq", qp.recv_cq).refs = 0 THEN Fail(s, "EINVAL")
       ELSE Done(Unindexed(Without(WithReferences(s, qp, -1), "qp", id), {qp.num}), id)

\* RESET to INIT, or anything but ERR to ERR; RTR is only passed through
\* inside connect_qp, so no queue pair is ever seen in it.
ModifyQp(s, session, id, state) ==
    LET qp == Record(s, "qp", id)
    IN IF ~Owns(s, session, "qp", id) THEN Fail(s, "EINVAL")
       ELSE IF (state = "INIT" /\ qp.state = "RESET") \/ (state = "ERR" /\ qp.state # "ERR")
         THEN Done(With(s, "qp", id, [qp EXCEPT !.state = state]), id)
       ELSE Fail(s, "EINVAL")

QueryQp(s, session, id) ==
    IF ~Owns(s, session, "qp", id) THEN Fail(s, "EINVAL") ELSE Done(s, id)

ConnectQp(s, session, id, num) ==
    LET qp == Record(s, "qp", id)
        found == {e \in s.qp_num_index : e[1] = num}
        remote == (CHOOSE e \in found : TRUE)[2]
    IN IF ~Owns(s, session, "qp", id) \/ num = 0 THEN Fail(s, "EINVAL")
       ELSE IF qp.peer_num # 0 /\ qp.peer_num # num THEN Fail(s, "EBUSY")
       ELSE IF qp.state # "INIT" THEN Fail(s, "EINVAL")
       ELSE IF found = {} THEN Fail(s, "ENOENT")
       ELSE IF ~ResolvesAny(s.reg["qp"], remote) THEN Fail(s, "ENOENT")
       ELSE IF Record(s, "qp", remote).state \notin {"INIT", "RTS"} THEN Fail(s, "EINVAL")
       ELSE Done(With(s, "qp", id,
                     [qp EXCEPT !.peer_num = num, !.peer = remote, !.state = "RTS"]), id)

-----------------------------------------------------------------------------
(* Disconnection *)

MappingsOf(s, session) == {Record(s, "mr", id).mapping : id \in OwnedBy(s.reg["mr"], session)}

NumbersOf(s, session) == {Record(s, "qp", id).num : id \in OwnedBy(s.reg["qp"], session)}

\* Queue pairs, memory regions, completion queues, protection domains and
\* contexts of the session; nobody waits for the dependents to go first.
Reclaimed(s, session) == [s EXCEPT !.reg = [t \in Types |-> EraseSession(@[t], session)]]

\* Every mapping of the session is closed; those in `kept` do not close, and
\* the results are ignored: the regions go anyway.
OnDisconnect(s, session, kept) ==
    LET closed == MappingsOf(s, session) \ kept
    IN [Reclaimed(Unindexed(s, NumbersOf(s, session)), session)
        EXCEPT !.mapped = @ \ closed, !.unclosed = (@ \ closed) \cup kept]

=============================================================================
