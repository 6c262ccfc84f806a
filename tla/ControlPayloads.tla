---------------------------- MODULE ControlPayloads ----------------------------
(***************************************************************************)
(* The methods of the control protocol: the request a client makes of its  *)
(* arguments, what the daemon reads from that request and answers, and     *)
(* what the client makes of the answer.  Each payload is written by one    *)
(* function of the code and read by another, whose lists of fields are     *)
(* translated separately.                                                  *)
(***************************************************************************)
EXTENDS ControlMessages

Method == [list_devices |-> 1, create_context |-> 2, destroy_context |-> 3, create_pd |-> 4,
           destroy_pd |-> 5, register_mr |-> 6, deregister_mr |-> 7, create_cq |-> 8,
           destroy_cq |-> 9, create_qp |-> 10, destroy_qp |-> 11, query_qp |-> 12,
           modify_qp |-> 13, query_qp_conn_info |-> 14, connect_qp |-> 15]

\* An identity carries the type of its object.
TypeNumber == [context |-> 1, pd |-> 2, mr |-> 3, cq |-> 4, qp |-> 5]
Identity(type, number) == 1000 * type + number
TypeOfIdentity(identity) == identity \div 1000

\* What a method creates, and how it is undone; 0 for the others.
CreatedType(method) ==
    CASE method = Method.create_context -> TypeNumber.context
      [] method = Method.create_pd -> TypeNumber.pd
      [] method = Method.register_mr -> TypeNumber.mr
      [] method = Method.create_cq -> TypeNumber.cq
      [] method = Method.create_qp -> TypeNumber.qp
      [] OTHER -> 0
Destroying(type) == <<3, 5, 7, 9, 11>>[type]
Destroys(method) == method \in {Destroying(type) : type \in 1..5}

-----------------------------------------------------------------------------
(* Payloads *)

\* read_header and the reads behind it: the size is exact, then the version.
ReadVersioned(opaque, version, layout) ==
    LET header == Read(opaque, <<<<"version", 2>>, <<"reserved", 2>>>>)
    IN CASE Size(opaque) # 4 + Width(layout) -> Refuse(EPROTO)
         [] Size(opaque) = 4 + Width(layout) /\ header.version # version
               -> Refuse(EPROTONOSUPPORT)
         [] OTHER -> IF header.reserved # 0 THEN Refuse(EPROTO)
                     ELSE Accept(Read(SubSeq(opaque, 3, Len(opaque)), layout))

EncodeQpCreate(build, a) ==
    Versioned(build.qp, <<Field(8, a.send_cq), Field(8, a.recv_cq), Field(4, a.max_send_wr),
                          Field(4, a.max_recv_wr), Field(4, a.max_send_sge),
                          Field(4, a.max_recv_sge), Field(4, a.qp_type), Field(4, a.sq_sig_all)>>)

\* Mutant of DecodeQpCreate: two counts are read in the wrong order.
DecodeQpCreateSwapped(build, opaque) ==
    ReadVersioned(opaque, build.qp,
       <<<<"send_cq", 8>>, <<"recv_cq", 8>>, <<"max_send_wr", 4>>, <<"max_send_sge", 4>>,
         <<"max_recv_wr", 4>>, <<"max_recv_sge", 4>>, <<"qp_type", 4>>, <<"sq_sig_all", 4>>>>)

DecodeQpCreate(build, opaque) ==
    ReadVersioned(opaque, build.qp,
       <<<<"send_cq", 8>>, <<"recv_cq", 8>>, <<"max_send_wr", 4>>, <<"max_recv_wr", 4>>,
         <<"max_send_sge", 4>>, <<"max_recv_sge", 4>>, <<"qp_type", 4>>, <<"sq_sig_all", 4>>>>)

ValidQpCreate(a) ==
    /\ 0 \notin {a.send_cq, a.recv_cq, a.max_send_wr, a.max_recv_wr, a.max_send_sge, a.max_recv_sge}
    /\ a.qp_type = 2 /\ a.sq_sig_all <= 1

EncodeQuery(build, number) == Versioned(build.qp, <<Field(4, number)>>)
DecodeQuery(build, opaque) == ReadVersioned(opaque, build.qp, <<<<"number", 4>>>>)

Timers(a) ==
    <<Field(1, a.timeout), Field(1, a.retry_count), Field(1, a.rnr_retry), Field(1, a.min_rnr_timer)>>
ReadTimers ==
    <<<<"timeout", 1>>, <<"retry_count", 1>>, <<"rnr_retry", 1>>, <<"min_rnr_timer", 1>>>>

EncodeModify(build, a) ==
    Versioned(build.qp, <<Field(4, a.mask), Field(4, a.state), Field(4, a.current_state),
                          Field(4, a.access_flags)>> \o Timers(a))
DecodeModify(build, opaque) ==
    ReadVersioned(opaque, build.qp,
       <<<<"mask", 4>>, <<"state", 4>>, <<"current_state", 4>>, <<"access_flags", 4>>>> \o ReadTimers)

EncodeConnect(build, a) ==
    Versioned(build.qp, <<Field(4, a.mask), Field(4, a.qp_num)>> \o Timers(a))
DecodeConnect(build, opaque) ==
    ReadVersioned(opaque, build.qp, <<<<"mask", 4>>, <<"qp_num", 4>>>> \o ReadTimers)

EncodeSnapshot(build, q) ==
    Versioned(build.qp,
       <<Field(4, q.qp_num), Field(8, q.send_cq), Field(8, q.recv_cq), Field(4, q.max_send_wr),
         Field(4, q.max_recv_wr), Field(4, q.max_send_sge), Field(4, q.max_recv_sge),
         Field(4, q.qp_type), Field(4, q.sq_sig_all), Field(4, q.state), Field(4, q.state),
         Field(4, q.access_flags)>> \o Timers(q))
DecodeSnapshot(build, opaque) ==
    ReadVersioned(opaque, build.qp,
       <<<<"qp_num", 4>>, <<"send_cq", 8>>, <<"recv_cq", 8>>, <<"max_send_wr", 4>>,
         <<"max_recv_wr", 4>>, <<"max_send_sge", 4>>, <<"max_recv_sge", 4>>, <<"qp_type", 4>>,
         <<"sq_sig_all", 4>>, <<"state", 4>>, <<"current_state", 4>>, <<"access_flags", 4>>>>
       \o ReadTimers)

ValidMemory(m) ==
    /\ 0 \notin {m.gpu_uuid, m.client_address, m.length, m.allocation_size}
    /\ m.allocation_offset <= m.allocation_size
    /\ m.length <= m.allocation_size - m.allocation_offset
    /\ m.client_address >= m.allocation_offset
    /\ m.handle_size \in 1..256

EncodeMrRegistration(build, m) ==
    Versioned(build.mr, <<Field(16, m.gpu_uuid), Field(8, m.client_address),
                          Field(8, m.allocation_size), Field(8, m.allocation_offset),
                          Field(4, m.handle_size), Field(m.handle_size, m.handle)>>)

DecodeMrRegistration(build, opaque, length) ==
    LET fixed == Read(opaque, <<<<"version", 2>>, <<"reserved", 2>>, <<"gpu_uuid", 16>>,
                                <<"client_address", 8>>, <<"allocation_size", 8>>,
                                <<"allocation_offset", 8>>, <<"handle_size", 4>>>>)
        handle == Behind(opaque, 48)
        memory == [gpu_uuid |-> fixed.gpu_uuid, client_address |-> fixed.client_address,
                   allocation_size |-> fixed.allocation_size, length |-> length,
                   allocation_offset |-> fixed.allocation_offset,
                   handle_size |-> fixed.handle_size, handle |-> handle[1].value]
    IN CASE Size(opaque) < 48 -> Refuse(EPROTO)
         [] Size(opaque) >= 48 /\ fixed.version # build.mr -> Refuse(EPROTONOSUPPORT)
         [] OTHER -> IF fixed.reserved # 0 \/ fixed.handle_size \notin 1..256
                        \/ fixed.handle_size # Size(handle) THEN Refuse(EPROTO)
                     ELSE IF ~ValidMemory(memory) THEN Refuse(EINVAL)
                     ELSE Accept(memory)

EncodeMrResult(build, r) ==
    Versioned(build.mr, <<Field(8, r.client_address), Field(8, r.length), Field(4, r.lkey),
                          Field(4, r.rkey)>>)

\* One error for all that can be wrong, another version included.
DecodeMrResult(build, opaque) ==
    LET read == ReadVersioned(opaque, build.mr,
                   <<<<"client_address", 8>>, <<"length", 8>>, <<"lkey", 4>>, <<"rkey", 4>>>>)
    IN IF read.status # 0 \/ \E field \in DOMAIN read.value : read.value[field] = 0
       THEN Refuse(EPROTO) ELSE read

DescriptorLayout == <<<<"kind", 4>>, <<"capacity", 4>>, <<"stride", 4>>, <<"reserved", 4>>>>

EncodeQueueDescriptors(build, descriptors) ==
    <<Field(2, build.queue), Field(2, Len(descriptors))>>
    \o FlattenSeq([i \in DOMAIN descriptors |->
          <<Field(4, descriptors[i].kind), Field(4, descriptors[i].capacity),
            Field(4, descriptors[i].stride), Field(4, 0)>>])

DecodeQueueDescriptors(build, opaque) ==
    LET header == Read(opaque, <<<<"version", 2>>, <<"count", 2>>>>)
        read == [i \in 1..header.count |->
                   Read(SubSeq(opaque, 4 * i - 1, Len(opaque)), DescriptorLayout)]
        invalid(d) == \/ d.reserved # 0 \/ d.kind \notin 1..3 \/ d.capacity = 0
                      \/ d.stride = 0 \/ d.stride % 64 # 0
    IN CASE Size(opaque) < 4 -> Refuse(EPROTO)
         [] Size(opaque) >= 4 /\ header.version # build.queue -> Refuse(EPROTONOSUPPORT)
         [] OTHER -> IF \/ header.count = 0 \/ Size(opaque) # 4 + 16 * header.count
                        \/ \E i \in DOMAIN read : invalid(read[i])
                     THEN Refuse(EPROTO)
                     ELSE Accept([i \in DOMAIN read |->
                             [kind |-> read[i].kind, capacity |-> read[i].capacity,
                              stride |-> read[i].stride]])

EncodeDeviceList(devices) ==
    <<Field(4, Len(devices))>>
    \o FlattenSeq([i \in DOMAIN devices |->
          <<Field(8, devices[i].identity), Field(2, devices[i].name_length),
            Field(devices[i].name_length, devices[i].name)>>])

DecodeDeviceList(opaque) ==
    LET count == opaque[1].value
        step(list, i) ==
           LET entry == Read(list.rest, <<<<"identity", 8>>, <<"name_length", 2>>>>)
               name == After(list.rest, <<1, 2>>)
           IN [bad |-> list.bad \/ entry.identity = 0 \/ entry.name_length > Size(name),
               rest |-> Behind(name, entry.name_length),
               devices |-> Append(list.devices,
                  [identity |-> entry.identity, name_length |-> entry.name_length,
                   name |-> Leading(name, entry.name_length)[1].value])]
        list == FoldLeft(step, [bad |-> FALSE, rest |-> Tail(opaque), devices |-> <<>>],
                         [i \in 1..count |-> i])
    IN IF \/ Size(opaque) < 4 \/ count > (Size(opaque) - 4) \div 10
          \/ list.bad \/ list.rest # <<>>
       THEN Refuse(EPROTO) ELSE Accept(list.devices)

-----------------------------------------------------------------------------
(* Methods.  A call is [method, object, access, args]. *)

NoArguments == <<>>

\* make_*_request.
MakeRequest(build, call) ==
    [method |-> call.method, object_identity |-> call.object, access |-> call.access,
     length |-> CASE call.method = Method.register_mr -> call.args.length
                  [] call.method = Method.create_cq -> call.args.cqe
                  [] OTHER -> 0,
     opaque |-> CASE call.method = Method.register_mr -> EncodeMrRegistration(build, call.args)
                  [] call.method = Method.create_qp -> EncodeQpCreate(build, call.args)
                  [] call.method = Method.query_qp -> EncodeQuery(build, call.args.number)
                  [] call.method = Method.modify_qp -> EncodeModify(build, call.args)
                  [] call.method = Method.connect_qp -> EncodeConnect(build, call.args)
                  [] OTHER -> <<>>,
     fd_indices |-> <<>>, fds |-> 0]

EmptyShapeExceptPayload(r) == r.length = 0 /\ r.access = 0 /\ r.fd_indices = <<>> /\ r.fds = 0
EmptyShape(r) == EmptyShapeExceptPayload(r) /\ r.opaque = <<>>

\* The shape a handler insists on, before it looks at the payload.
WellShaped(r) ==
    CASE r.method = Method.register_mr -> r.fd_indices = <<>> /\ r.fds = 0 /\ r.access \in {0, 1, 3}
      [] r.method = Method.create_cq -> EmptyShape([r EXCEPT !.length = 0]) /\ r.length # 0
      [] r.method = Method.list_devices -> EmptyShape(r) /\ r.object_identity = 0
      [] r.method \in {Method.create_qp, Method.query_qp, Method.modify_qp, Method.connect_qp}
            -> EmptyShapeExceptPayload(r)
      [] OTHER -> EmptyShape(r)

\* The arguments a handler reads from the request.
ReadArguments(build, r) ==
    CASE r.method = Method.register_mr -> DecodeMrRegistration(build, r.opaque, r.length)
      [] r.method = Method.create_cq -> Accept([cqe |-> r.length])
      [] r.method = Method.create_qp ->
            LET decoded == DecodeQpCreate(build, r.opaque)
            IN IF decoded.status = 0 /\ ~ValidQpCreate(decoded.value) THEN Refuse(EINVAL) ELSE decoded
      [] r.method = Method.query_qp -> DecodeQuery(build, r.opaque)
      [] r.method = Method.modify_qp -> DecodeModify(build, r.opaque)
      [] r.method = Method.connect_qp -> DecodeConnect(build, r.opaque)
      [] OTHER -> Accept(NoArguments)

\* Slots hold a header and the scatter list, on whole cache lines.
SlotStride(header, max_sge) == ((header + 16 * max_sge + 63) \div 64) * 64
CqDescriptors(cqe) == <<[kind |-> 3, capacity |-> cqe, stride |-> 64]>>
QpDescriptors(a) ==
    <<[kind |-> 1, capacity |-> a.max_send_wr, stride |-> SlotStride(40, a.max_send_sge)],
      [kind |-> 2, capacity |-> a.max_recv_wr, stride |-> SlotStride(16, a.max_recv_sge)]>>

Devices == <<[identity |-> 1, name_length |-> 5, name |-> 1]>>

\* The queues a method hands out, one descriptor each.
CarriesQueues(method) == method \in {Method.create_cq, Method.create_qp}
QueuesOf(method, args) ==
    IF method = Method.create_cq THEN CqDescriptors(args.cqe) ELSE QpDescriptors(args)

\* A successful answer: the value meant, as [method, identity, value].
EncodeAnswer(build, answer) ==
    LET method == answer.method
        fds == IF CarriesQueues(method) THEN Len(answer.value) ELSE 0
    IN [method |-> method, status |-> 0, object_identity |-> answer.identity,
        opaque |-> CASE CarriesQueues(method) -> EncodeQueueDescriptors(build, answer.value)
                     [] method = Method.register_mr -> EncodeMrResult(build, answer.value)
                     [] method = Method.query_qp -> EncodeSnapshot(build, answer.value)
                     [] method = Method.query_qp_conn_info -> EncodeQuery(build, answer.value.number)
                     [] method = Method.list_devices -> EncodeDeviceList(answer.value)
                     [] OTHER -> <<>>,
        fd_indices |-> [i \in 1..fds |-> i - 1], fds |-> fds]

-----------------------------------------------------------------------------
(* The client's side of the answer *)

\* What client_create_* and the others read from a response of status 0.
ReadAnswer(build, call, response) ==
    CASE CarriesQueues(call.method) -> DecodeQueueDescriptors(build, response.opaque)
      [] call.method = Method.register_mr -> DecodeMrResult(build, response.opaque)
      [] call.method = Method.query_qp -> DecodeSnapshot(build, response.opaque)
      [] call.method = Method.query_qp_conn_info -> DecodeQuery(build, response.opaque)
      [] call.method = Method.list_devices -> DecodeDeviceList(response.opaque)
      [] call.method \in {Method.create_context, Method.destroy_context} -> Accept(NoArguments)
      [] OTHER -> IF response.opaque = <<>> THEN Accept(NoArguments) ELSE Refuse(EPROTO)

\* Whether the value is one the call can have: the queues asked for, the
\* memory that was registered, a number that is not 0.
Expected(call, value) ==
    CASE CarriesQueues(call.method) -> value = QueuesOf(call.method, call.args)
      [] call.method = Method.register_mr ->
            value.client_address = call.args.client_address /\ value.length = call.args.length
      [] call.method = Method.query_qp_conn_info -> value.number # 0
      [] OTHER -> TRUE

\* The identity must be of the type created, or none.
IdentityExpected(call, response) ==
    \/ call.method \in {Method.list_devices, Method.destroy_context}
    \/ /\ CreatedType(call.method) = 0
       /\ response.object_identity = 0
    \/ /\ CreatedType(call.method) # 0
       /\ TypeOfIdentity(response.object_identity) = CreatedType(call.method)

IndicesExpected(call, response) ==
    IF CarriesQueues(call.method)
    THEN /\ response.fds = Len(QueuesOf(call.method, call.args))
         /\ response.fd_indices = [i \in 1..response.fds |-> i - 1]
    ELSE response.fd_indices = <<>>

\* [status, value, undo]: a queue pair or completion queue whose queues are
\* not as asked for is destroyed again.
Understood(build, call, response) ==
    LET read == ReadAnswer(build, call, response)
        failed(status, undo) == [status |-> status, value |-> NoArguments, undo |-> undo]
        undone == CarriesQueues(call.method)
    IN IF response.status # 0 THEN failed(response.status, FALSE)
       ELSE IF ~IdentityExpected(call, response) THEN failed(EPROTO, FALSE)
       ELSE IF ~IndicesExpected(call, response) THEN failed(EPROTO, undone)
       ELSE IF read.status # 0 THEN failed(read.status, undone)
       ELSE IF ~Expected(call, read.value) THEN failed(EPROTO, undone)
       ELSE [status |-> 0, value |-> read.value, undo |-> FALSE]
=============================================================================
