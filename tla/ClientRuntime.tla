----------------------------- MODULE ClientRuntime -----------------------------
(***************************************************************************)
(* One client process (ClientRuntime, src/api/api.cpp) talking to the      *)
(* daemon over its control connection (src/ipc).  Control calls are made   *)
(* one at a time under the runtime's mutex: live check, connect if need    *)
(* be, epoch check, request, response, and only then the handle changes.   *)
(* A call can be cut short on either side: the daemon fails to answer and  *)
(* closes the session, the client's receive is interrupted and it closes   *)
(* the connection while its request is still to be served, an exception    *)
(* leaves the client without a handle, or the daemon restarts with empty   *)
(* registries.                                                             *)
(*                                                                         *)
(* The server accepts connections in the order they are made, so a         *)
(* connection is known by its session number from the start.  A context is *)
(* opened with a device listed on the current connection.  Which mappings  *)
(* close is ControlService's subject: here they do, unless a               *)
(* deregistration fails for it.                                            *)
(***************************************************************************)
EXTENDS ControlHandlers

CONSTANTS Kinds,        \* the types of object this application creates
          MaxHandles,   \* bound: handles the application obtains
          MaxEpochs,    \* bound: connections it makes
          MaxBoots      \* bound: times the daemon starts

ASSUME RuntimeAssumption ==
    Kinds \subseteq Types /\ MaxHandles \in Nat /\ MaxEpochs \in Nat /\ MaxBoots \in Nat \ {0}

VARIABLES service,        \* the daemon's control state
          boot,           \* how often the daemon has started
          next_session,   \* IpcServer::next_session_id_
          server,         \* sessions the server holds (connections_)
          abandoned,      \* [session, request]: connections the client has closed,
                          \* each with the request not yet read from it
          client,         \* the control client: connected, connection_epoch, its session
          handles,        \* proxy objects, in order of creation
          call,           \* the control call in progress
          orphaned        \* a post was accepted that no daemon object will see

vars == <<service, boot, next_session, server, abandoned, client, handles, call, orphaned>>

NoRequest == [method |-> "none", type |-> "none", handle |-> 0, parents |-> <<>>,
              ids |-> <<>>, target |-> "none", num |-> 0]
NoCall == [phase |-> "idle", request |-> NoRequest,
           result |-> [status |-> "none", id |-> NoIdentity, state |-> "none"]]

Init ==
    /\ service = NewService
    /\ boot = 1 /\ next_session = 1 /\ server = {} /\ abandoned = {}
    /\ client = [connected |-> FALSE, epoch |-> 0, session |-> 0]
    /\ handles = <<>> /\ call = NoCall /\ orphaned = FALSE

-----------------------------------------------------------------------------
(* The request *)

Request(method, type, handle, parents) ==
    [NoRequest EXCEPT !.method = method, !.type = type, !.handle = handle, !.parents = parents,
                      !.ids = IF handle # 0 THEN <<handles[handle].id>>
                              ELSE [i \in DOMAIN parents |-> handles[parents[i]].id]]

\* The handles a call names, all of which must be live and of this connection.
Named(request) ==
    {request.parents[i] : i \in DOMAIN request.parents} \cup ({request.handle} \ {0})

HandlesOf(type) == {h \in DOMAIN handles : handles[h].type = type}

\* create_qp refuses a protection domain and completion queues of different
\* contexts before it asks the daemon.
SameContext(parents) ==
    \A i \in DOMAIN parents : handles[parents[i]].parents = handles[parents[1]].parents

CreateRequests ==
    LET one(type) == {<<h>> : h \in HandlesOf(type)}
        triples == {p \in HandlesOf("pd") \X HandlesOf("cq") \X HandlesOf("cq") : SameContext(p)}
        parents == [context |-> {<<>>}, pd |-> one("context"), mr |-> one("pd"),
                    cq |-> one("context"), qp |-> triples]
    IN UNION {{Request("create", t, 0, p) : p \in parents[t]} : t \in Kinds}

DestroyRequests == {Request("destroy", handles[h].type, h, <<>>) : h \in DOMAIN handles}

QpRequests ==
    LET on(method, h) == Request(method, "qp", h, <<>>)
    IN {on("query", h) : h \in HandlesOf("qp")}
       \cup {[on("modify", h) EXCEPT !.target = s] : h \in HandlesOf("qp"), s \in {"INIT", "ERR"}}
       \cup {[on("connect", h) EXCEPT !.num = n] : h \in HandlesOf("qp"), n \in 1..(QpNumLimit - 1)}

Sent(request) == [phase |-> "sent", request |-> request, result |-> NoCall.result]

Marked(request) ==
    [h \in DOMAIN handles |->
       IF h \in Named(request) THEN [handles[h] EXCEPT !.live = FALSE] ELSE handles[h]]

\* ensure_connected: an open connection is trusted, whatever became of the
\* other end; a new one gets the next session and advances the epoch.
Connected ==
    IF client.connected THEN client
    ELSE [connected |-> TRUE, epoch |-> client.epoch + 1, session |-> next_session]

\* Mutant of Start: no epoch check.
StartUnchecked(request) ==
    /\ call.phase = "idle"
    /\ \A h \in Named(request) : handles[h].live
    /\ client.connected \/ client.epoch < MaxEpochs
    /\ client' = Connected
    /\ server' = IF client.connected THEN server ELSE server \cup {next_session}
    /\ next_session' = IF client.connected THEN next_session ELSE next_session + 1
    /\ call' = Sent(request)
    /\ UNCHANGED <<service, boot, abandoned, handles, orphaned>>

\* The first half of an API call: a handle of an earlier connection is marked
\* dead, and so is every other handle the call names.
Start(request) ==
    /\ call.phase = "idle"
    /\ \A h \in Named(request) : handles[h].live
    /\ client.connected \/ client.epoch < MaxEpochs
    /\ client' = Connected
    /\ server' = IF client.connected THEN server ELSE server \cup {next_session}
    /\ next_session' = IF client.connected THEN next_session ELSE next_session + 1
    /\ \/ /\ \A h \in Named(request) : handles[h].epoch = client'.epoch
          /\ call' = Sent(request) /\ UNCHANGED handles
       \/ /\ \E h \in Named(request) : handles[h].epoch # client'.epoch
          /\ handles' = Marked(request) /\ UNCHANGED call
    /\ UNCHANGED <<service, boot, abandoned, orphaned>>

-----------------------------------------------------------------------------
(* The daemon *)

Create(s, session, q, fault) ==
    CASE q.type = "context" -> CreateContext(s, session)
      [] q.type = "pd" -> CreatePd(s, session, q.ids[1])
      [] q.type = "mr" -> RegisterMr(s, session, q.ids[1], fault, TRUE)
      [] q.type = "cq" -> CreateCq(s, session, q.ids[1], fault)
      [] q.type = "qp" -> CreateQp(s, session, q.ids[1], q.ids[2], q.ids[3], fault)

Destroy(s, session, q, fault) ==
    CASE q.type = "context" -> DestroyContext(s, session, q.ids[1])
      [] q.type = "pd" -> DestroyPd(s, session, q.ids[1])
      [] q.type = "mr" -> DeregisterMr(s, session, q.ids[1], fault # "resource")
      [] q.type = "cq" -> DestroyCq(s, session, q.ids[1])
      [] q.type = "qp" -> DestroyQp(s, session, q.ids[1])

\* QpService::handle and what it delegates to.
Handle(s, session, q, fault) ==
    CASE q.method = "create" -> Create(s, session, q, fault)
      [] q.method = "destroy" -> Destroy(s, session, q, fault)
      [] q.method = "modify" -> ModifyQp(s, session, q.ids[1], q.target)
      [] q.method = "connect" -> ConnectQp(s, session, q.ids[1], q.num)
      [] q.method = "query" -> QueryQp(s, session, q.ids[1])

\* The response: a query's carries the state of the queue pair.
Answer(q, result) ==
    [status |-> result.status, id |-> result.id,
     state |-> IF q.method = "query" /\ result.status = "ok"
               THEN Record(result.service, "qp", result.id).state ELSE "none"]

\* The response is sent, or cannot be and the session is closed at once.  A
\* handler that runs out of memory once it has performed the request is
\* answered for with EIO.
Serve(fault) ==
    /\ call.phase = "sent" /\ client.session \in server
    /\ LET result == Handle(service, client.session, call.request, fault)
           answer == Answer(call.request, result)
       IN \/ /\ service' = result.service
             /\ \E sent \in {answer, [answer EXCEPT !.status = "EIO"]} :
                  call' = [call EXCEPT !.phase = "answered", !.result = sent]
             /\ UNCHANGED server
          \/ /\ service' = OnDisconnect(result.service, client.session, {})
             /\ server' = server \ {client.session}
             /\ UNCHANGED call
    /\ UNCHANGED <<boot, next_session, abandoned, client, handles, orphaned>>

\* A connection the client has closed still holds its last request, and the
\* server reads that first.  The answer went out before the client closed, and
\* a later round finds the other end gone; or it cannot be sent, or this round
\* had reported the hang-up already, and the session ends at once.
ServeAbandoned(a, fault) ==
    /\ a.session \in server /\ a.request # NoRequest
    /\ LET result == Handle(service, a.session, a.request, fault) IN
         \/ /\ service' = result.service
            /\ abandoned' = (abandoned \ {a}) \cup {[a EXCEPT !.request = NoRequest]}
            /\ UNCHANGED server
         \/ /\ service' = OnDisconnect(result.service, a.session, {})
            /\ abandoned' = abandoned \ {a}
            /\ server' = server \ {a.session}
    /\ UNCHANGED <<boot, next_session, client, handles, call, orphaned>>

\* The server reads the end of the stream, or the client's reset before the
\* request it had sent, which is then never served.
HangUp(a) ==
    /\ a.session \in server
    /\ service' = OnDisconnect(service, a.session, {})
    /\ server' = server \ {a.session}
    /\ abandoned' = abandoned \ {a}
    /\ UNCHANGED <<boot, next_session, client, handles, call, orphaned>>

\* Every registry and counter starts again, session numbers included.
Restart ==
    /\ boot < MaxBoots
    /\ boot' = boot + 1
    /\ service' = NewService
    /\ next_session' = 1 /\ server' = {} /\ abandoned' = {}
    /\ UNCHANGED <<client, handles, call, orphaned>>

-----------------------------------------------------------------------------
(* The end of a call *)

\* Mutant of Broken: the end of the connection does not end the call.
BrokenWaiting ==
    /\ call.phase = "sent" /\ client.session \notin server
    /\ client' = [client EXCEPT !.connected = FALSE]
    /\ UNCHANGED <<service, boot, next_session, server, abandoned, handles, call, orphaned>>

\* ControlClient::Impl::call closes the connection when the transport fails.
Broken ==
    /\ call.phase = "sent" /\ client.session \notin server
    /\ client' = [client EXCEPT !.connected = FALSE]
    /\ call' = NoCall
    /\ UNCHANGED <<service, boot, next_session, server, abandoned, handles, orphaned>>

\* The receive is interrupted (EINTR is an error to receive_message).
GiveUp ==
    /\ call.phase = "sent" /\ client.session \in server
    /\ client' = [client EXCEPT !.connected = FALSE]
    /\ abandoned' = abandoned \cup {[session |-> client.session, request |-> call.request]}
    /\ call' = NoCall
    /\ UNCHANGED <<service, boot, next_session, server, handles, orphaned>>

NewHandle(q, id) ==
    [type |-> q.type, id |-> id, parents |-> q.parents, epoch |-> client.epoch, live |-> TRUE,
     cached |-> IF q.type = "qp" THEN "RESET" ELSE "none",
     birth |-> <<boot, client.session>>]

\* Mutant of Applied: connect_qp leaves the cached state.
AppliedWithoutConnect(q, result) ==
    CASE q.method = "create" -> Append(handles, NewHandle(q, result.id))
      [] q.method = "destroy" /\ q.handle = 0 -> handles
      [] q.method = "destroy" /\ q.handle # 0 -> [handles EXCEPT ![q.handle].live = FALSE]
      [] q.method = "modify" -> [handles EXCEPT ![q.handle].cached = q.target]
      [] q.method = "connect" -> handles
      [] q.method = "query" -> [handles EXCEPT ![q.handle].cached = result.state]

\* What a successful response does to the handles.
Applied(q, result) ==
    CASE q.method = "create" -> Append(handles, NewHandle(q, result.id))
      [] q.method = "destroy" /\ q.handle = 0 -> handles
      [] q.method = "destroy" /\ q.handle # 0 -> [handles EXCEPT ![q.handle].live = FALSE]
      [] q.method = "modify" -> [handles EXCEPT ![q.handle].cached = q.target]
      [] q.method = "connect" -> [handles EXCEPT ![q.handle].cached = "RTS"]
      [] q.method = "query" -> [handles EXCEPT ![q.handle].cached = result.state]

Finish ==
    /\ call.phase = "answered" /\ call.result.status # "EIO"
    /\ handles' = IF call.result.status = "ok" THEN Applied(call.request, call.result)
                                               ELSE handles
    /\ call' = NoCall
    /\ UNCHANGED <<service, boot, next_session, server, abandoned, client, orphaned>>

\* The empty answer that stands for an exception is no control response, and
\* the client closes the connection over it.
Unreadable ==
    /\ call.phase = "answered" /\ call.result.status = "EIO"
    /\ client' = [client EXCEPT !.connected = FALSE]
    /\ abandoned' = IF client.session \in server
                    THEN abandoned \cup {[session |-> client.session, request |-> NoRequest]}
                    ELSE abandoned
    /\ call' = NoCall
    /\ UNCHANGED <<service, boot, next_session, server, handles, orphaned>>

Created(types) ==
    /\ call.phase = "answered" /\ call.result.status = "ok"
    /\ call.request.method = "create" /\ call.request.type \in types

\* open_device cannot allocate or record the proxy: the exception ends the
\* call, and the daemon is not told.
OpenDeviceThrows ==
    /\ Created({"context"})
    /\ call' = NoCall
    /\ UNCHANGED <<service, boot, next_session, server, abandoned, client, handles, orphaned>>

\* Mutant of Undo: the daemon is not told.
UndoNothing ==
    /\ Created(Types \ {"context"})
    /\ call' = NoCall
    /\ UNCHANGED <<service, boot, next_session, server, abandoned, client, handles, orphaned>>

\* The object exists but its rings cannot be mapped, or the proxy cannot be
\* recorded: the client asks the daemon to destroy it, and ignores the answer.
Undo ==
    /\ Created(Types \ {"context"})
    /\ call' = Sent([NoRequest EXCEPT !.method = "destroy", !.type = call.request.type,
                                      !.ids = <<call.result.id>>])
    /\ UNCHANGED <<service, boot, next_session, server, abandoned, client, handles, orphaned>>

-----------------------------------------------------------------------------
(* Posting: no connection, no epoch, only the proxy *)

Backed(h) ==
    /\ handles[h].birth = <<boot, client.session>>
    /\ client.session \in server
    /\ Owns(service, client.session, handles[h].type, handles[h].id)

\* post_send and post_receive; the calls on a queue pair hold its posting
\* mutex from start to finish.
Post(h, states) ==
    /\ call.phase = "idle" \/ call.request.handle # h
    /\ handles[h].live /\ handles[h].cached \in states
    /\ orphaned' = (orphaned \/ ~Backed(h))
    /\ UNCHANGED <<service, boot, next_session, server, abandoned, client, handles, call>>

-----------------------------------------------------------------------------

Application ==
    \/ /\ Len(handles) < MaxHandles
       /\ \E q \in CreateRequests : Start(q)
    \/ \E q \in DestroyRequests \cup QpRequests : Start(q)
    \/ \E h \in HandlesOf("qp") : Post(h, {"RTS"}) \/ Post(h, {"INIT", "RTS"})

ServeConnected == \E fault \in MrFaults : Serve(fault)

Daemon ==
    \/ ServeConnected
    \/ \E a \in abandoned : HangUp(a) \/ \E fault \in MrFaults : ServeAbandoned(a, fault)

Client == Broken \/ Finish \/ Unreadable

Next == Application \/ Daemon \/ Client \/ GiveUp \/ OpenDeviceThrows \/ Undo \/ Restart

Spec == Init /\ [][Next]_vars

\* The daemon's poll loop keeps running and serves every ready connection in
\* each round, and a thread blocked in an API call goes on when its answer or
\* the end of the connection arrives.
Fairness == WF_vars(ServeConnected) /\ WF_vars(Client)
FairSpec == Spec /\ Fairness

-----------------------------------------------------------------------------
(* Properties *)

Idle == call.phase = "idle"
Current(h) == handles[h].live /\ handles[h].epoch = client.epoch
LinkUp == client.connected /\ client.session \in server

\* Handles, epochs and the call in progress have their types, and a session
\* the server holds was numbered since it started.
TypeOK ==
    /\ client.epoch \in 0..MaxEpochs
    /\ Len(handles) <= MaxHandles
    /\ \A h \in DOMAIN handles :
         /\ handles[h].type \in Kinds /\ handles[h].id \in Identities
         /\ handles[h].epoch \in 1..client.epoch
         /\ handles[h].cached \in States \cup {"none"}
    /\ \A session \in server : session < next_session
    /\ call.phase \in {"idle", "sent", "answered"}

\* A request never reaches an object other than the one its handle was made
\* for: a restarted daemon hands out the same identities and session numbers
\* again, and only the connection epoch in the proxy tells them apart.
NeverAnotherObject ==
    call.phase = "sent" /\ client.session \in server
       => \A h \in Named(call.request) : handles[h].birth = <<boot, client.session>>

\* A handle that counts as valid is valid: while the connection it was made
\* on is up and no call is about it, its object exists in the daemon, and the
\* state that decides whether a post on a queue pair is accepted is the daemon's.
HandlesBacked ==
    /\ TypeOK
    /\ LinkUp => \A h \in DOMAIN handles :
                    Current(h) /\ (Idle \/ call.request.handle # h) =>
                      /\ Backed(h)
                      /\ handles[h].type = "qp" =>
                           handles[h].cached = Record(service, "qp", handles[h].id).state

\* Nothing is left behind: between calls, every protection domain, completion
\* queue and queue pair the daemon holds for this connection has a live handle,
\* although creations fail half way, are undone, or are answered to a client
\* that has gone.  Two things can be left, and stay until the session ends: a
\* memory region, when undoing its registration fails and nobody learns of it,
\* and a context, when open_device throws after the daemon has created it; that
\* context has no children.  And whatever the daemon holds belongs to a session
\* that is still connected, although requests are served after their client has
\* gone.
NothingUnowned ==
    /\ Idle /\ LinkUp =>
         \A t \in Types \ {"mr"} : \A id \in OwnedBy(service.reg[t], client.session) :
            \/ \E h \in DOMAIN handles : Current(h) /\ handles[h].type = t /\ handles[h].id = id
            \/ t = "context" /\ Record(service, t, id).children = 0
    /\ \A t \in Types : \A id \in LiveIdentities(service.reg[t]) :
         service.reg[t].slots[id.slot].owner \in server

\* Every control call returns: the daemon answers it, or its connection ends.
CallsReturn == (call.phase # "idle") ~> (call.phase = "idle")

\* A handle whose session is gone is refused: no post is accepted on a queue
\* pair the daemon has reclaimed.
StaleHandlesRefused == ~orphaned

=============================================================================
