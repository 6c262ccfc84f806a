---------------------------- MODULE ControlMessages ----------------------------
(***************************************************************************)
(* What travels between a client and the daemon: the envelope              *)
(* (src/ipc/protocol.cpp), the control request and response it carries     *)
(* (src/control/ipc_adapter.cpp) and the payloads inside those (qp.cpp,    *)
(* pd_mr_cq.cpp, device_context.cpp, queue_descriptor.hpp).                *)
(*                                                                         *)
(* Bytes are kept as the scalars they were written as: a field has a width *)
(* and a value, a message is a sequence of fields.  Reading with other     *)
(* widths than those written gives torn values.  Byte order is left out:   *)
(* both directions convert every scalar.  A build is the version numbers   *)
(* its program was compiled with.                                          *)
(***************************************************************************)
EXTENDS Naturals, SequencesExt

Field(bytes, value) == [bytes |-> bytes, value |-> value]
Torn == 1000000

\* A layout is a sequence of <<name, width>>.
Names(layout) == {layout[i][1] : i \in DOMAIN layout}
RECURSIVE Width(_), Size(_)
Width(layout) == IF layout = <<>> THEN 0 ELSE Head(layout)[2] + Width(Tail(layout))
Size(fields) == IF fields = <<>> THEN 0 ELSE Head(fields).bytes + Size(Tail(fields))

Read(fields, layout) ==
    [name \in Names(layout) |->
       LET i == CHOOSE k \in DOMAIN layout : layout[k][1] = name
       IN IF \A k \in 1..i : k \in DOMAIN fields /\ fields[k].bytes = layout[k][2]
          THEN fields[i].value ELSE Torn]

After(fields, layout) == SubSeq(fields, Len(layout) + 1, Len(fields))

\* The fields that make up the first n bytes, and the ones behind them; a
\* field cut in two is torn.
RECURSIVE Leading(_, _), Behind(_, _)
Leading(fields, n) ==
    IF n = 0 THEN <<>>
    ELSE IF fields = <<>> \/ Head(fields).bytes > n THEN <<Field(n, Torn)>>
    ELSE <<Head(fields)>> \o Leading(Tail(fields), n - Head(fields).bytes)
Behind(fields, n) ==
    IF n = 0 \/ fields = <<>> THEN fields
    ELSE IF Head(fields).bytes > n THEN <<Field(Head(fields).bytes - n, Torn)>> \o Tail(fields)
    ELSE Behind(Tail(fields), n - Head(fields).bytes)

\* What a reader returns: 0 and a value, or an error number.
EIO == 5
EINVAL == 22
EPROTO == 71
EMSGSIZE == 90
EPROTONOSUPPORT == 93
Refuse(status) == [status |-> status]
Accept(value) == [status |-> 0, value |-> value]

-----------------------------------------------------------------------------
(* The envelope *)

ProtocolMagic == 1
MaxPayloadSize == 1024 * 1024
MaxFileDescriptors == 16
WireHeaderSize == 36

EncodeHeader(envelope) ==
    <<Field(4, envelope.magic), Field(2, envelope.version_major),
      Field(2, envelope.version_minor), Field(4, envelope.method), Field(4, envelope.flags),
      Field(8, envelope.request_id), Field(4, envelope.status),
      Field(4, envelope.payload_length), Field(4, envelope.fd_count)>>

DecodeHeader(fields) ==
    Read(fields, <<<<"magic", 4>>, <<"version_major", 2>>, <<"version_minor", 2>>,
                   <<"method", 4>>, <<"flags", 4>>, <<"request_id", 8>>, <<"status", 4>>,
                   <<"payload_length", 4>>, <<"fd_count", 4>>>>)

\* The packet send_message puts on the socket; fds counts its descriptors.
Packet(build, message) ==
    LET envelope == [magic |-> ProtocolMagic, version_major |-> build.major,
                     version_minor |-> build.minor, method |-> message.method,
                     flags |-> message.flags, request_id |-> message.request_id,
                     status |-> message.status, payload_length |-> Size(message.payload),
                     fd_count |-> message.fds]
    IN [bytes |-> EncodeHeader(envelope) \o message.payload, fds |-> message.fds]

Unpacked(build, packet) ==
    LET envelope == DecodeHeader(packet.bytes)
        payload == Behind(packet.bytes, WireHeaderSize)
        foreign == \/ envelope.magic # ProtocolMagic
                   \/ envelope.version_major # build.major
                   \/ envelope.version_minor > build.minor
        malformed == \/ envelope.flags \notin {0, 1}
                     \/ envelope.payload_length # Size(payload)
                     \/ envelope.fd_count # packet.fds
    IN IF Size(packet.bytes) < WireHeaderSize \/ packet.fds > MaxFileDescriptors
       THEN Refuse(EMSGSIZE)
       ELSE IF foreign THEN Refuse(EPROTONOSUPPORT)
       ELSE IF malformed THEN Refuse(EPROTO)
       ELSE Accept([method |-> envelope.method, flags |-> envelope.flags,
                    request_id |-> envelope.request_id, status |-> envelope.status,
                    payload |-> payload, fds |-> packet.fds])

-----------------------------------------------------------------------------
(* Requests and responses *)

Indices(sequence) == [i \in DOMAIN sequence |-> Field(4, sequence[i])]
ValidIndices(indices, fds) == \A i \in DOMAIN indices : indices[i] < fds
ValidLengths(opaque, indices, fixed) == Size(opaque) + 4 * Len(indices) <= MaxPayloadSize - fixed

Versioned(version, fields) == <<Field(2, version), Field(2, 0)>> \o fields

RequestLayout == <<<<"version", 2>>, <<"reserved", 2>>, <<"object_identity", 8>>, <<"length", 8>>,
                   <<"access", 4>>, <<"opaque_size", 4>>, <<"index_count", 4>>>>
ResponseLayout == <<<<"version", 2>>, <<"reserved", 2>>, <<"object_identity", 8>>,
                    <<"opaque_size", 4>>, <<"index_count", 4>>>>

EncodeRequest(build, request) ==
    IF \/ request.method = 0 \/ ~ValidIndices(request.fd_indices, request.fds)
       \/ ~ValidLengths(request.opaque, request.fd_indices, Width(RequestLayout))
    THEN Refuse(EINVAL)
    ELSE Accept(Versioned(build.control,
                          <<Field(8, request.object_identity), Field(8, request.length),
                            Field(4, request.access), Field(4, Size(request.opaque)),
                            Field(4, Len(request.fd_indices))>>)
                \o request.opaque \o Indices(request.fd_indices))

EncodeResponse(build, response) ==
    IF \/ response.method = 0 \/ ~ValidIndices(response.fd_indices, response.fds)
       \/ ~ValidLengths(response.opaque, response.fd_indices, Width(ResponseLayout))
    THEN Refuse(EINVAL)
    ELSE Accept(Versioned(build.control,
                          <<Field(8, response.object_identity), Field(4, Size(response.opaque)),
                            Field(4, Len(response.fd_indices))>>)
                \o response.opaque \o Indices(response.fd_indices))

\* The part the two decoders share: the fixed fields, the opaque bytes by
\* their declared size, and as many descriptor indices as declared.
Decoded(build, message, layout) ==
    LET fixed == Read(message.payload, layout)
        rest == After(message.payload, layout)
        behind == Behind(rest, fixed.opaque_size)
        indices == [i \in DOMAIN behind |-> behind[i].value]
    IN CASE Size(message.payload) < Width(layout) -> Refuse(EPROTO)
         [] Size(message.payload) >= Width(layout)
            /\ (fixed.version # build.control \/ fixed.reserved # 0) -> Refuse(EPROTONOSUPPORT)
         [] OTHER ->
            IF \/ fixed.opaque_size > Size(rest)
               \/ Size(rest) - fixed.opaque_size # 4 * fixed.index_count
               \/ ~ValidIndices(indices, message.fds)
            THEN Refuse(EPROTO)
            ELSE Accept([fixed |-> fixed, opaque |-> Leading(rest, fixed.opaque_size),
                         fd_indices |-> indices])

DecodeRequest(build, message) ==
    LET decoded == Decoded(build, message, RequestLayout)
    IN IF message.method = 0 \/ message.flags # 0 THEN Refuse(EINVAL)
       ELSE IF decoded.status # 0 THEN decoded
       ELSE Accept([method |-> message.method,
                    object_identity |-> decoded.value.fixed.object_identity,
                    length |-> decoded.value.fixed.length, access |-> decoded.value.fixed.access,
                    opaque |-> decoded.value.opaque, fd_indices |-> decoded.value.fd_indices,
                    fds |-> message.fds])

DecodeResponse(build, message) ==
    LET decoded == Decoded(build, message, ResponseLayout)
    IN IF message.method = 0 \/ message.flags # 1 THEN Refuse(EINVAL)
       ELSE IF decoded.status # 0 THEN decoded
       ELSE Accept([method |-> message.method, status |-> message.status,
                    object_identity |-> decoded.value.fixed.object_identity,
                    opaque |-> decoded.value.opaque, fd_indices |-> decoded.value.fd_indices,
                    fds |-> message.fds])
=============================================================================
