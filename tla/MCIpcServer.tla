------------------------------ MODULE MCIpcServer ------------------------------
(* Small instances of IpcServer: two programs that share a path, two clients. *)
EXTENDS IpcServer, TLC

CONSTANTS c1, c2, d1, d2

Build == [major |-> 1, minor |-> 1, control |-> 1, mr |-> 1, qp |-> 1, queue |-> 1]

Asks(method, object, access, args) ==
    [method |-> method, object |-> object, access |-> access, args |-> args]

\* Every value differs from every other a field could be confused with.
QpArguments == [send_cq |-> 4021, recv_cq |-> 4022, max_send_wr |-> 16, max_recv_wr |-> 8,
                max_send_sge |-> 4, max_recv_sge |-> 2, qp_type |-> 2, sq_sig_all |-> 1]
Memory == [gpu_uuid |-> 31, client_address |-> 700, length |-> 64, allocation_size |-> 512,
           allocation_offset |-> 32, handle_size |-> 72, handle |-> 33]
Times == [timeout |-> 21, retry_count |-> 5, rnr_retry |-> 6, min_rnr_timer |-> 22]
ToInit == [mask |-> MaskState + MaskAccess, state |-> QpState.init, current_state |-> 0,
           access_flags |-> RemoteWrite] @@ Times
ToError == [mask |-> MaskState + MaskCurrentState, state |-> QpState.err,
            current_state |-> QpState.rts, access_flags |-> 0] @@ Times
Connection == [mask |-> ConnectMask, qp_num |-> 51] @@ Times

Creating == {Asks(Method.create_context, 1, 0, NoArguments), Asks(Method.create_pd, 1099, 0, NoArguments),
             Asks(Method.register_mr, 2099, 3, Memory), Asks(Method.create_cq, 1099, 0, [cqe |-> 64]),
             Asks(Method.create_qp, 2099, 0, QpArguments)}

Using == {Asks(Method.query_qp, 0, 0, [number |-> 9]), Asks(Method.modify_qp, 0, 0, ToInit),
          Asks(Method.modify_qp, 0, 0, ToError),
          Asks(Method.connect_qp, 0, 0, Connection), Asks(Method.query_qp_conn_info, 0, 0, NoArguments)}
Releasing == {Asks(Destroying(type), 0, 0, NoArguments) : type \in 1..5}

Setting(build, clients, daemons, new, object, connections, calls) ==
    [daemon |-> Build, client |-> [c \in clients |-> build], daemons |-> daemons, new |-> new,
     object |-> object, connections |-> connections, calls |-> calls]

\* Every method between equal builds, one client at a time.
Alike == Setting(Build, {c1}, {d1}, Creating \cup {Asks(Method.list_devices, 0, 0, NoArguments)},
                 Using \cup Releasing, 1, 3)

\* A queue pair through its states.
Configured == Setting(Build, {c1}, {d1}, {Asks(Method.create_qp, 2099, 0, QpArguments)}, Using, 1, 5)

\* Each version number of the client's off by one.
Different ==
    {Setting(build, {c1}, {d1}, Creating \cup {Asks(Method.list_devices, 0, 0, NoArguments)}, Releasing, 1, 2) :
       build \in {[Build EXCEPT ![field] = 2] : field \in DOMAIN Build} \cup {[Build EXCEPT !.minor = 0]}}

\* Daemons that follow or meet each other on the path, and a client that
\* connects again.
CreateCq == {Asks(Method.create_cq, 1099, 0, [cqe |-> 64])}
Contended == Setting(Build, {c1}, {d1, d2}, CreateCq, {}, 3, 1)

\* Two sessions in the same rounds.
Shared == Setting(Build, {c1, c2}, {d1}, CreateCq, {}, 2, 2)

MCSettings == {Alike, Configured, Contended, Shared} \cup Different
=============================================================================
