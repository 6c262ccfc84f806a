------------------------------- MODULE IpcServer -------------------------------
(***************************************************************************)
(* The daemon's control socket (src/ipc/server.cpp, run by                 *)
(* apps/daemon/main.cpp) and the clients on it (src/ipc/client.cpp,        *)
(* ControlClient).  Daemons started on the same path contend for it; one   *)
(* that listens runs a poll loop: it takes a snapshot of its connections,  *)
(* accepts what is waiting, then serves each ready connection of the       *)
(* snapshot once.  Clients connect, call, are interrupted, and hang up at  *)
(* any point of that round, and daemons stop or crash.  Every message      *)
(* passes through its codecs, between programs whose versions may differ.  *)
(*                                                                         *)
(* A connection stands for its descriptor: accept comes before any close   *)
(* in a round, so no number of the snapshot can come to mean another       *)
(* connection within it.  What the service decides is ControlHandlers'     *)
(* subject; here it refuses or performs a well-formed request.             *)
(***************************************************************************)
EXTENDS ControlPayloads

CONSTANTS Clients, Daemons, NoFile,
          Settings,   \* the programs that take part, and the bounds on what they do:
                      \* [daemon, client, daemons, new, object, connections, calls]
          MaxHeld     \* bound: objects a client holds

VARIABLES path,     \* the socket file: the daemon that bound it, or NoFile
          daemon,
          ready,    \* per daemon, the connections of the round still to be served
          link, client,
          inbox,    \* per client, the answers on its connection
          setting   \* of Settings: daemon is the daemons' build, client the build of each
                    \* client taking part, daemons the daemons started, new and object the
                    \* calls made without and on an object held, connections and calls bounds

vars == <<path, daemon, ready, link, client, inbox, setting>>

NoCall == [method |-> 0, object |-> 0, access |-> 0, args |-> NoArguments]
Nothing == [id |-> 0, call |-> NoCall, identity |-> 0, value |-> NoArguments]

\* near and far are the client's and the daemon's end; session 0 means not
\* yet accepted.  asked, done and got are what the last call on the
\* connection was, what the daemon performed, and what the client returned.
NewLink(c, d) ==
    [client |-> c, daemon |-> d, near |-> TRUE, far |-> TRUE, session |-> 0,
     requests |-> <<>>, asked |-> Nothing, done |-> Nothing, got |-> Nothing]

Init ==
    /\ path = NoFile
    /\ daemon = [d \in Daemons |->
         [phase |-> "off", inode |-> NoFile, next_session |-> 1, accepting |-> FALSE,
          objects |-> {}, next_object |-> 1]]
    /\ ready = [d \in Daemons |-> {}]
    /\ link = <<>>
    /\ client = [c \in Clients |-> [link |-> 0, waiting |-> FALSE, held |-> {}]]
    /\ inbox = [c \in Clients |-> <<>>]
    /\ setting \in Settings

-----------------------------------------------------------------------------
(* Starting and the socket path *)

Phase(d, phase) == daemon' = [daemon EXCEPT ![d].phase = phase]
Elsewhere == UNCHANGED <<ready, link, client, inbox, setting>>

\* A path that exists is never replaced; a failed start is followed by the
\* destructor's close.
StartChecks(d) ==
    /\ d \in setting.daemons /\ daemon[d].phase = "off"
    /\ Phase(d, IF path = NoFile THEN "checked" ELSE "closing")
    /\ UNCHANGED path /\ Elsewhere

Bind(d) ==
    /\ daemon[d].phase = "checked"
    /\ path' = IF path = NoFile THEN d ELSE path
    /\ Phase(d, IF path = NoFile THEN "bound" ELSE "closing")
    /\ Elsewhere

\* The inode remembered is the one found at the path after bind.
Listen(d) ==
    /\ daemon[d].phase = "bound"
    /\ daemon' = [daemon EXCEPT ![d].phase = IF path = NoFile THEN "closing" ELSE "serving",
                                ![d].inode = path]
    /\ UNCHANGED path /\ Elsewhere

ListenFails(d) ==
    /\ daemon[d].phase = "bound"
    /\ daemon' = [daemon EXCEPT ![d].phase = "removing", ![d].inode = path]
    /\ UNCHANGED path /\ Elsewhere

\* Mutant of Compare: whatever is at the path is taken for its own.
CompareNothing(d) ==
    /\ daemon[d].phase = "removing"
    /\ Phase(d, IF path # NoFile THEN "unlinking" ELSE "down")
    /\ UNCHANGED path /\ Elsewhere

\* remove_socket_path: device and inode must still be those remembered.
Compare(d) ==
    /\ daemon[d].phase = "removing"
    /\ Phase(d, IF daemon[d].inode # NoFile /\ path = daemon[d].inode THEN "unlinking" ELSE "down")
    /\ UNCHANGED path /\ Elsewhere

Unlink(d) ==
    /\ daemon[d].phase = "unlinking"
    /\ path' = NoFile
    /\ Phase(d, "down")
    /\ Elsewhere

-----------------------------------------------------------------------------
(* The poll loop *)

Backlog(d) == {n \in DOMAIN link : link[n].daemon = d /\ link[n].far /\ link[n].session = 0}
Connected(d) == {n \in DOMAIN link : link[n].daemon = d /\ link[n].far /\ link[n].session # 0}
RoundOver(d) == ~daemon[d].accepting /\ ready[d] = {}

\* poll() reports a closed peer as readable and hung up.
Poll(d) ==
    /\ daemon[d].phase = "serving" /\ RoundOver(d)
    /\ LET readable == {n \in Connected(d) : link[n].requests # <<>> \/ ~link[n].near} IN
         /\ Backlog(d) # {} \/ readable # {}
         /\ daemon' = [daemon EXCEPT ![d].accepting = (Backlog(d) # {})]
         /\ ready' = [ready EXCEPT ![d] = {[link |-> n, hup |-> ~link[n].near] : n \in readable}]
    /\ UNCHANGED <<path, link, client, inbox, setting>>

AcceptReady(d) ==
    /\ daemon[d].phase = "serving" /\ daemon[d].accepting
    /\ IF Backlog(d) = {}
       THEN /\ daemon' = [daemon EXCEPT ![d].accepting = FALSE] /\ UNCHANGED link
       ELSE /\ link' = [link EXCEPT ![Min(Backlog(d))].session = daemon[d].next_session]
            /\ daemon' = [daemon EXCEPT ![d].next_session = @ + 1]
    /\ UNCHANGED <<path, ready, client, inbox, setting>>

\* An accept that fails ends poll_once, and main ends the daemon with it.
AcceptFails(d) ==
    /\ daemon[d].phase = "serving" /\ daemon[d].accepting /\ Backlog(d) # {}
    /\ daemon' = [daemon EXCEPT ![d].phase = "closing", ![d].accepting = FALSE]
    /\ ready' = [ready EXCEPT ![d] = {}]
    /\ UNCHANGED <<path, link, client, inbox, setting>>

\* A connection with both ends closed is history.
Remembered(l) ==
    IF l.near \/ l.far THEN l
    ELSE [l EXCEPT !.asked = Nothing, !.done = Nothing, !.got = Nothing]

\* close_session: the connection goes, then the handler hears of it.
ClosedLink(l) == Remembered([l EXCEPT !.far = FALSE, !.requests = <<>>])
Reclaimed(objects, session) == {o \in objects : o.session # session}

-----------------------------------------------------------------------------
(* ControlIpcHandler::handle and the service behind it *)

InitialAttributes == [state |-> 0, access_flags |-> 0, timeout |-> 0, retry_count |-> 0,
                      rnr_retry |-> 0, min_rnr_timer |-> 0]

\* The bits of attribute masks, and the states of a queue pair.
MaskState == 1
MaskCurrentState == 2
MaskAccess == 8
ConnectMask == 512 + 1024 + 2048 + 32768
QueryMasks == {a + b + c + t : a \in {0, MaskState}, b \in {0, MaskCurrentState},
                               c \in {0, MaskAccess},
                               t \in {t1 + t2 + t3 + t4 : t1 \in {0, 512}, t2 \in {0, 1024},
                                                        t3 \in {0, 2048}, t4 \in {0, 32768}}}
QpState == [reset |-> 0, init |-> 1, rtr |-> 2, rts |-> 3, err |-> 6]
RemoteWrite == 2

\* handle_modify_qp: RESET to INIT with the access flags, or into the error state.
Modifiable(attributes, args) ==
    LET current == args.mask \in {MaskState + MaskCurrentState,
                                  MaskState + MaskCurrentState + MaskAccess}
        base == IF current THEN args.mask - MaskCurrentState ELSE args.mask
    IN /\ current => args.current_state = attributes.state
       /\ \/ /\ attributes.state = QpState.reset /\ args.state = QpState.init
             /\ base = MaskState + MaskAccess /\ args.access_flags = RemoteWrite
          \/ /\ attributes.state # QpState.err /\ args.state = QpState.err
             /\ base = MaskState

Modified(attributes, args) ==
    [attributes EXCEPT !.state = args.state,
                       !.access_flags = IF args.state = QpState.init THEN args.access_flags ELSE @]

\* handle_connect_qp, but for the remote queue pair.
Connectable(attributes, args) ==
    /\ args.qp_num # 0 /\ args.mask = ConnectMask
    /\ args.timeout <= 31 /\ args.retry_count <= 7 /\ args.rnr_retry <= 7 /\ args.min_rnr_timer <= 31
    /\ attributes.state = QpState.init

\* What the queue pair's state and the attributes allow.
Allowed(attributes, method, args) ==
    CASE method = Method.modify_qp -> Modifiable(attributes, args)
      [] method = Method.connect_qp -> Connectable(attributes, args)
      [] method = Method.query_qp -> args.number \in QueryMasks
      [] OTHER -> TRUE

Timed(attributes, args) ==
    [attributes EXCEPT !.state = QpState.rts, !.timeout = args.timeout, !.retry_count = args.retry_count,
                       !.rnr_retry = args.rnr_retry, !.min_rnr_timer = args.min_rnr_timer]

\* The objects after a request has been performed.
Performed(objects, session, r, args, identity) ==
    LET own == {o \in objects : o.session = session /\ o.identity = r.object_identity}
        changed(o) == IF r.method = Method.connect_qp
                      THEN [o EXCEPT !.attributes = Timed(@, args)]
                      ELSE [o EXCEPT !.attributes = Modified(@, args)]
    IN CASE CreatedType(r.method) # 0 ->
              objects \cup {[session |-> session, identity |-> identity, args |-> args,
                             attributes |-> InitialAttributes]}
         [] Destroys(r.method) -> objects \ own
         [] r.method \in {Method.modify_qp, Method.connect_qp} ->
              (objects \ own) \cup {changed(o) : o \in own}
         [] OTHER -> objects

\* The value a performed request answers with.
Value(objects, session, r, args, identity) ==
    LET target == CHOOSE o \in objects : o.session = session /\ o.identity = r.object_identity
        number == r.object_identity % 1000
        a == target.args
        t == target.attributes
    IN CASE CarriesQueues(r.method) -> QueuesOf(r.method, args)
         [] r.method = Method.register_mr ->
              [client_address |-> args.client_address, length |-> args.length,
               lkey |-> 2 * (identity % 1000), rkey |-> 2 * (identity % 1000) + 1]
         [] r.method = Method.query_qp ->
              [qp_num |-> number, send_cq |-> a.send_cq, recv_cq |-> a.recv_cq,
               max_send_wr |-> a.max_send_wr, max_recv_wr |-> a.max_recv_wr,
               max_send_sge |-> a.max_send_sge, max_recv_sge |-> a.max_recv_sge,
               qp_type |-> a.qp_type, sq_sig_all |-> a.sq_sig_all, state |-> t.state,
               current_state |-> t.state, access_flags |-> t.access_flags, timeout |-> t.timeout,
               retry_count |-> t.retry_count, rnr_retry |-> t.rnr_retry,
               min_rnr_timer |-> t.min_rnr_timer]
         [] r.method = Method.query_qp_conn_info -> [number |-> number]
         [] r.method = Method.list_devices -> Devices
         [] OTHER -> NoArguments

\* Whether the request names an object that must be the session's own, of
\* the type the method is about.
NamesObject(method) == method # Method.list_devices /\ CreatedType(method) = 0
TargetType(method) ==
    IF Destroys(method) THEN CHOOSE type \in 1..5 : Destroying(type) = method ELSE TypeNumber.qp

\* 0, or why a decoded request is refused.
Refusal(d, session, r, args, outcome) ==
    LET usable == /\ TypeOfIdentity(r.object_identity) = TargetType(r.method)
                  /\ \E o \in daemon[d].objects :
                       /\ o.session = session /\ o.identity = r.object_identity
                       /\ Allowed(o.attributes, r.method, args.value)
    IN CASE ~WellShaped(r) -> EINVAL
         [] WellShaped(r) /\ args.status # 0 -> args.status
         [] OTHER -> IF (NamesObject(r.method) /\ ~usable) \/ outcome = "refuse" THEN EINVAL ELSE 0

\* A handler may refuse what it could perform, or fail to allocate once it
\* has performed it; destroying an object of one's own always succeeds here.
Outcomes(method) == IF Destroys(method) THEN {"perform", "throw"} ELSE {"perform", "refuse", "throw"}

EmptyResponse(m, status) ==
    [method |-> m.method, flags |-> 1, request_id |-> m.request_id, status |-> status,
     payload |-> <<>>, fds |-> 0]

\* encode_response, and the empty response that stands in for one that
\* cannot be encoded.
ResponseTo(m, response) ==
    LET encoded == EncodeResponse(setting.daemon, response)
    IN IF encoded.status # 0 THEN EmptyResponse(m, encoded.status)
       ELSE [EmptyResponse(m, response.status) EXCEPT !.payload = encoded.value, !.fds = response.fds]

\* Results are [objects, next_object, response, done].
Unperformed(d, response) ==
    [objects |-> daemon[d].objects, next_object |-> daemon[d].next_object,
     response |-> response, done |-> Nothing]

\* Request r of message m is performed and answered with value.
Answered(d, session, m, r, args, identity, value, outcome) ==
    [objects |-> Performed(daemon[d].objects, session, r, args, identity),
     next_object |-> daemon[d].next_object + (IF identity = 0 THEN 0 ELSE 1),
     response |-> IF outcome = "throw" THEN EmptyResponse(m, EIO)
                  ELSE ResponseTo(m, EncodeAnswer(setting.daemon,
                          [method |-> r.method, identity |-> identity, value |-> value])),
     done |-> [id |-> m.request_id, identity |-> identity, value |-> value,
               call |-> [method |-> r.method, object |-> r.object_identity,
                         access |-> r.access, args |-> args]]]

\* The service's handler, on a request and what reading its payload gave.
Dispatched(d, session, m, r, args, outcome) ==
    LET refusal == Refusal(d, session, r, args, outcome)
        identity == IF CreatedType(r.method) = 0 THEN 0
                    ELSE Identity(CreatedType(r.method), daemon[d].next_object)
    IN IF refusal # 0
       THEN Unperformed(d, ResponseTo(m, [method |-> r.method, status |-> refusal,
                                          object_identity |-> 0, opaque |-> <<>>,
                                          fd_indices |-> <<>>, fds |-> 0]))
       ELSE Answered(d, session, m, r, args.value, identity,
                     Value(daemon[d].objects, session, r, args.value, identity), outcome)

\* decoded is what decode_request made of message m.
Handled(d, session, m, decoded, outcome) ==
    IF decoded.status # 0 THEN Unperformed(d, EmptyResponse(m, decoded.status))
    ELSE Dispatched(d, session, m, decoded.value,
                    ReadArguments(setting.daemon, decoded.value), outcome)

-----------------------------------------------------------------------------
(* One descriptor of the round *)

\* The next connection of the round.
Attends(d, r) ==
    /\ daemon[d].phase = "serving" /\ ~daemon[d].accepting /\ r \in ready[d]
    /\ ready' = [ready EXCEPT ![d] = @ \ {r}]

\* Mutant of Dropped: the end of the stream is taken for no message yet.
DroppedIfUnreadable(d, r) ==
    LET l == link[r.link] IN
      /\ Attends(d, r)
      /\ l.near => Unpacked(setting.daemon, Head(l.requests)).status # 0
      /\ link' = IF l.requests = <<>> THEN link ELSE [link EXCEPT ![r.link] = ClosedLink(l)]
      /\ daemon' = [daemon EXCEPT
                      ![d].objects = IF l.requests = <<>> THEN @ ELSE Reclaimed(@, l.session)]
      /\ UNCHANGED <<path, client, inbox, setting>>

\* Nothing is handled: the peer is gone, the message is of another protocol,
\* or the socket reports the peer's reset before what it had sent.
Dropped(d, r) ==
    LET l == link[r.link] IN
      /\ Attends(d, r)
      /\ l.near => Unpacked(setting.daemon, Head(l.requests)).status # 0
      /\ link' = [link EXCEPT ![r.link] = ClosedLink(l)]
      /\ daemon' = [daemon EXCEPT ![d].objects = Reclaimed(@, l.session)]
      /\ UNCHANGED <<path, client, inbox, setting>>

\* One message is received, handled and answered; the session ends when the
\* answer cannot be sent or poll had reported the peer's hangup.
Served(d, r) ==
    LET l == link[r.link]
        answered(h) == [l EXCEPT !.requests = Tail(@), !.done = IF h.done.id = 0 THEN @ ELSE h.done]
    IN /\ Attends(d, r)
       /\ l.requests # <<>>
       /\ \E m \in {Unpacked(setting.daemon, Head(l.requests))} :
            /\ m.status = 0
            /\ \E outcome \in Outcomes(m.value.method), sent \in {l.near, FALSE} :
               \E h \in {Handled(d, l.session, m.value, DecodeRequest(setting.daemon, m.value), outcome)} :
                 LET ends == ~sent \/ r.hup IN
                   /\ inbox' = IF sent
                               THEN [inbox EXCEPT ![l.client] = Append(@, Packet(setting.daemon, h.response))]
                               ELSE inbox
                   /\ link' = [link EXCEPT ![r.link] = IF ends THEN ClosedLink(answered(h)) ELSE answered(h)]
                   /\ daemon' = [daemon EXCEPT
                        ![d].next_object = h.next_object,
                        ![d].objects = IF ends THEN Reclaimed(h.objects, l.session) ELSE h.objects]
       /\ UNCHANGED <<path, client, setting>>

\* The loop sees the signal between two rounds; a poll() that fails for any
\* reason but a signal ends it at the same point and in the same way.
RequestStop(d) ==
    /\ daemon[d].phase = "serving" /\ RoundOver(d)
    /\ Phase(d, "closing")
    /\ UNCHANGED path /\ Elsewhere

\* IpcServer::close: each session, then the listener with what waits on it.
CloseSession(d) ==
    /\ daemon[d].phase = "closing"
    /\ \E n \in Connected(d) :
         /\ link' = [link EXCEPT ![n] = ClosedLink(link[n])]
         /\ daemon' = [daemon EXCEPT ![d].objects = Reclaimed(@, link[n].session)]
    /\ UNCHANGED <<path, ready, client, inbox, setting>>

CloseListener(d) ==
    /\ daemon[d].phase = "closing" /\ Connected(d) = {}
    /\ link' = [n \in DOMAIN link |-> IF n \in Backlog(d) THEN ClosedLink(link[n]) ELSE link[n]]
    /\ Phase(d, "removing")
    /\ UNCHANGED <<path, ready, client, inbox, setting>>

Crash(d) ==
    /\ daemon[d].phase \notin {"off", "down"}
    /\ daemon' = [daemon EXCEPT ![d].phase = "down", ![d].accepting = FALSE, ![d].objects = {}]
    /\ ready' = [ready EXCEPT ![d] = {}]
    /\ link' = [n \in DOMAIN link |->
                  IF link[n].daemon = d THEN ClosedLink(link[n]) ELSE link[n]]
    /\ UNCHANGED <<path, client, inbox, setting>>

-----------------------------------------------------------------------------
(* Clients *)

Disconnected(c) ==
    /\ client' = [client EXCEPT ![c].link = 0, ![c].waiting = FALSE, ![c].held = {}]
    /\ link' = [link EXCEPT ![client[c].link] = Remembered([@ EXCEPT !.near = FALSE])]
    /\ inbox' = [inbox EXCEPT ![c] = <<>>]

\* A path nobody listens on refuses the connection.
Connect(c) ==
    /\ c \in DOMAIN setting.client
    /\ client[c].link = 0 /\ Len(link) < setting.connections
    /\ path # NoFile
    /\ daemon[path].phase \in {"serving", "closing"} /\ daemon[path].inode # NoFile
    /\ link' = Append(link, NewLink(c, path))
    /\ client' = [client EXCEPT ![c].link = Len(link) + 1]
    /\ UNCHANGED <<path, daemon, ready, inbox, setting>>

\* The client's end after a request has been sent.
Asking(c, call) ==
    LET n == client[c].link
        id == link[n].asked.id + 1
        m == [method |-> call.method, flags |-> 0, request_id |-> id, status |-> 0,
              payload |-> EncodeRequest(setting.client[c], MakeRequest(setting.client[c], call)).value,
              fds |-> 0]
    IN [link EXCEPT ![n].requests = Append(@, Packet(setting.client[c], m)),
                    ![n].asked = [id |-> id, call |-> call, identity |-> 0, value |-> NoArguments]]

\* A request that cannot be sent closes the connection.
Call(c, call) ==
    /\ client[c].link # 0 /\ ~client[c].waiting
    /\ IF link[client[c].link].far
       THEN /\ link' = Asking(c, call)
            /\ client' = [client EXCEPT ![c].waiting = TRUE]
            /\ UNCHANGED inbox
       ELSE Disconnected(c)
    /\ UNCHANGED <<path, daemon, ready, setting>>

\* The receive is interrupted, or the application hangs up between calls.
HangUp(c) ==
    /\ client[c].link # 0
    /\ Disconnected(c)
    /\ UNCHANGED <<path, daemon, ready, setting>>

Reset(c) ==
    /\ client[c].waiting
    /\ ~link[client[c].link].far /\ inbox[c] = <<>>
    /\ Disconnected(c)
    /\ UNCHANGED <<path, daemon, ready, setting>>

\* What IpcClient::call and ControlClient::Impl::call close the connection on.
Unacceptable(asked, m, r) ==
    \/ m.status # 0
    \/ m.value.flags # 1 \/ m.value.request_id # asked.id
    \/ m.value.method # asked.call.method \/ r.status # 0
    \/ (r.value.fds # 0 /\ ~CarriesQueues(asked.call.method))

\* A call returns value v for response r.
Returns(c, r, v) ==
    LET n == client[c].link
        call == link[n].asked.call
        held == CASE CreatedType(call.method) # 0 -> client[c].held \cup {r.object_identity}
                  [] Destroys(call.method) -> client[c].held \ {call.object}
                  [] OTHER -> client[c].held
    IN /\ link' = [link EXCEPT ![n].got = IF v.status # 0 THEN @
                                         ELSE [id |-> link[n].asked.id, call |-> call,
                                               identity |-> r.object_identity, value |-> v.value]]
       /\ client' = [client EXCEPT ![c].waiting = FALSE,
                                   ![c].held = IF v.status = 0 THEN held ELSE @]

\* A call on what has arrived: the envelope, the response, then the method's own reading
\* of it.  Queues that cannot be mapped, or are not those asked for, are undone by a
\* second call.
Receive(c, mapped) ==
    LET n == client[c].link
        build == setting.client[c]
        call == link[n].asked.call
        destroy(identity) == [NoCall EXCEPT !.method = Destroying(CreatedType(call.method)),
                                            !.object = identity]
    IN /\ client[c].waiting /\ inbox[c] # <<>>
       /\ \E m \in {Unpacked(build, Head(inbox[c]))} :
          \E r \in {IF m.status = 0 THEN DecodeResponse(build, m.value) ELSE m} :
            IF Unacceptable(link[n].asked, m, r) THEN Disconnected(c)
            ELSE \E v \in {Understood(build, call, r.value)} :
                   LET undo == v.undo \/ (v.status = 0 /\ CarriesQueues(call.method) /\ ~mapped)
                   IN IF undo /\ ~link[n].far THEN Disconnected(c)
                      ELSE /\ inbox' = [inbox EXCEPT ![c] = Tail(@)]
                           /\ IF undo
                              THEN link' = Asking(c, destroy(r.value.object_identity)) /\ UNCHANGED client
                              ELSE Returns(c, r.value, v)
       /\ UNCHANGED <<path, daemon, ready, setting>>

\* The calls a client can make now.
Callable(c) ==
    setting.new \cup
    UNION {{[call EXCEPT !.object = o] :
              call \in {a \in setting.object : TargetType(a.method) = TypeOfIdentity(o)}} :
           o \in client[c].held}

Makes(c, call) ==
    /\ client[c].link # 0 /\ link[client[c].link].asked.id < setting.calls
    /\ CreatedType(call.method) # 0 => Cardinality(client[c].held) < MaxHeld
    /\ Call(c, call)

-----------------------------------------------------------------------------
\* The file of a daemon that has crashed stays until somebody removes it.
Cleared ==
    /\ path # NoFile /\ daemon[path].phase = "down"
    /\ path' = NoFile
    /\ UNCHANGED daemon /\ Elsewhere

Serve(d) == \E r \in ready[d] : Dropped(d, r) \/ Served(d, r)

\* The steps of a daemon's own thread outside the loop over the round.
Runs(d) ==
    \/ Bind(d) \/ Listen(d) \/ Compare(d) \/ Unlink(d)
    \/ Poll(d) \/ AcceptReady(d) \/ CloseSession(d) \/ CloseListener(d)

Next ==
    \/ \E d \in Daemons : \/ Runs(d) \/ Serve(d) \/ StartChecks(d) \/ ListenFails(d) \/ AcceptFails(d)
                         \/ RequestStop(d) \/ Crash(d)
    \/ \E c \in Clients : \/ Connect(c) \/ HangUp(c) \/ Reset(c)
                         \/ \E mapped \in BOOLEAN : Receive(c, mapped)
                         \/ \E call \in Callable(c) : Makes(c, call)
    \/ Cleared

Spec == Init /\ [][Next]_vars

\* A daemon that runs is scheduled, and so is a client inside a call, which
\* blocks in recvmsg.  Among the steps of Next, those that take a connection
\* from the round are Serve's, and those that take an answer are Receive's.
FairSpec ==
    /\ Spec
    /\ \A d \in Daemons : WF_vars(Runs(d)) /\ WF_ready(\E r \in ready[d] : Attends(d, r))
    /\ \A c \in Clients :
         WF_vars(Reset(c)) /\ WF_inbox(inbox[c] # <<>> /\ inbox' = [inbox EXCEPT ![c] = Tail(@)])

-----------------------------------------------------------------------------
TypeOK ==
    /\ path \in Daemons \cup {NoFile}
    /\ \A d \in Daemons :
         /\ daemon[d].phase \in {"off", "checked", "bound", "serving", "closing", "removing",
                                 "unlinking", "down"}
         /\ daemon[d].inode \in Daemons \cup {NoFile} /\ daemon[d].accepting \in BOOLEAN
         /\ \A r \in ready[d] : r.link \in Connected(d)
         /\ \A o \in daemon[d].objects : \E n \in Connected(d) : link[n].session = o.session
    /\ \A c \in Clients : client[c].link \in {0} \cup DOMAIN link

\* Across every codec, version and failure: the daemon performs the call the
\* client asked for, with the arguments it gave; a call that succeeded
\* returned the identity and the value the daemon meant; and between calls
\* the session owns exactly the objects its client holds, those of an undone
\* creation included (IpcClient::call, poll_once, client_create_qp).
CallsAgree ==
    /\ TypeOK
    /\ \A n \in DOMAIN link :
         LET l == link[n]
             owned == {o.identity : o \in {p \in daemon[l.daemon].objects : p.session = l.session}}
         IN /\ l.got.id <= l.done.id /\ l.done.id <= l.asked.id
            /\ l.done.id = l.asked.id => l.done.call = l.asked.call
            /\ l.got.id = l.done.id => l.got = l.done
            /\ l.near /\ l.far /\ l.session # 0 /\ ~client[l.client].waiting
                  => owned = client[l.client].held

\* A daemon that listens is the one its path leads to, so no other serves
\* beside it: a start that fails and a daemon that leaves remove no socket
\* but their own (remove_socket_path).
PathOwned ==
    \A d \in Daemons : daemon[d].phase = "serving" => path = d /\ daemon[d].inode = d

\* Nothing asked stays unanswered and nothing hung up stays open: calls
\* return, sessions of vanished clients are closed with their objects, and a
\* daemon that leaves gets to its end (the loop of poll_once, close).
CallsSettle ==
    []<>(/\ \A c \in Clients : ~client[c].waiting
         /\ \A n \in DOMAIN link : link[n].far => link[n].near /\ link[n].requests = <<>>
         /\ \A d \in Daemons : daemon[d].phase \in {"off", "serving", "down"})
=============================================================================
