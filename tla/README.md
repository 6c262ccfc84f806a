# A TLA+ development of UGDR

UGDR gives processes on one host RDMA-style verbs (contexts, protection domains,
memory regions, completion queues, queue pairs) whose data path is a daemon that
copies GPU memory with a persistent CUDA kernel. This directory models the parts
of it that keep state, checks them with TLC and proves the central
ones correct with TLAPS. Paths below are relative to the repository.

## The system

| Part | Source | Its state | Operations |
|---|---|---|---|
| Shared ring | `src/queue/shared_ring.cpp` | header `tail`/`head` and slots in a memfd; each endpoint's local position, index, cached peer position | map, reserve, publish, peek, release, reset |
| Queue entries, CQs | `src/queue`, `src/api/api.cpp` | SQ, RQ and CQ rings | post send/receive, poll, produce a completion |
| Worker, local transport | `src/worker/worker.cpp`, `local_transport.cpp` | cursors, in-flight maps, pending batch, request and response queues | `progress_once` of requester and responder, made of `try_*` calls |
| Copy backend | `src/gpu/persistent_copy_backend.cu` | context slots, pending batch, local errors, stop state | submit, flush, pop, request stop, wait, restart, destroy |
| Kernel queues | `src/gpu/persistent_copy.cu` | task and completion rings, kernel-shared queues, registers of every warp; the lifecycle counters beside them | host start/submit/poll/stop/wait; warp steps |
| Object registry | `src/control/object_registry.hpp` | slots with generation, owner, record; free list | insert, find, erase, take a session's objects |
| Control handlers | `src/control/{device_context,pd_mr_cq,qp}.cpp` | five registries, key and number counters, lookup indices, reference counts, open device mappings | create and destroy of each type, modify and connect of QPs, session clean-up |
| IPC | `src/ipc/{server,client,protocol}.cpp`, `apps/daemon/main.cpp` | socket path, connections, session numbers, the snapshot of the poll round | start, poll, accept, one request and one response, close; connect, call |
| Messages | `src/ipc/protocol.cpp`, `src/control/ipc_adapter.cpp`, payloads in `src/control` | none | encode and decode envelope, request, response and payloads |
| Client runtime | `src/api/api.cpp` | proxies with live flag, epoch and cached QP state; the connection and its epoch | control calls under a mutex, undo of a half-made object, post |

The client library asks the daemon for objects over a SEQPACKET socket and gets
the memfds of its rings with the answers. From then on it posts and polls without
the daemon's control plane: the worker thread reads the rings, splits a send into
payloads, passes them through the local transport to the responder, which feeds
the copy backend and turns finished copies into completions. The backend batches
tasks, flushes GPUDirect visibility and publishes to the kernel's queue.

What makes this hard: two processes share a ring with cached positions and plain
stores; errors overtake work in flight; payloads of one request finish in any
order and with different results; every queue on the way can be full at every
step; warps race on loads made earlier; a client or a daemon disappears between a
request and its answer, or was built from other sources; daemons contend for one
socket path; slots, generations, keys and numbers are reused. The
hazards, each at its line, are listed in `PROJECT.json`.

## Modules

| Module | Models | How state and actions correspond |
|---|---|---|
| `BoundedFifo` | abstract specification | what a shared ring promises: batches in, the same elements out in order |
| `SharedRing` | shared ring | one action per call of an endpoint; `producer` and `consumer` are the private members of each side, `tail`/`head`/`slots` the shared memory. Filling and reading a granted span are separate steps, element by element. `written`/`taken` are history |
| `RingArithmetic` | – | lemmas on division and remainder for any capacity, and on segments of a history |
| `SharedRingProofs` | – | the theorems about `SharedRing` |
| `LoopWorker` | worker, transport, posting and polling | `pc` is the loop of `progress_once` the thread is in, every `try_*` call is one action; application and backend step between any two |
| `PersistentCudaCopyBackend` | host side of the backend | the object is one record, every member function an operator on it; the CUDA and queue outcomes are an environment chosen per call |
| `IndexOrder` | – | what a loop over an array by index visits i-th |
| `CopyContexts` | – | lemmas on the backend's context array: what marking, taking, releasing and failing contexts does to the lists kept beside it |
| `CopyHostProofs` | – | what every member function of the backend's host keeps |
| `CopyHostCallProofs` | – | what the calls made of them keep: submitting, handing over a completion, stopping |
| `PersistentCudaCopyBackendProofs` | – | the theorems about `PersistentCudaCopyBackend` |
| `OrderedCopyQueue` | abstract specification | what the backend relies on: each accepted task copied once, completions in submission order, each after its copy |
| `WarpSpecializedQueue` | host side of the warp-specialized queue | the two rings in mapped memory, submit, poll, stop, wait |
| `PipelineKernel` | the kernel the daemon runs | ingress, copy and egress warps, their lanes separately where each arrives on a barrier of its own; barriers seen only by parity; the stop sentinel |
| `PipelineKernelProofs` | – | the theorems about `PipelineKernel` |
| `WarpSpecializedKernel` | the other kernel on that queue | sequence-numbered shared slots; a claim is three steps, the two loads and the compare-and-swap |
| `DirectAtomicQueue` | direct atomic queue, host and kernel | claim, reserve, read, copy, complete are separate steps of a warp |
| `PersistentCopyQueue` | configuration, memory and variables of the next two | the configuration rules are its assumption |
| `StaticPartitionSpscQueue` | static partition queue, host and kernel | each warp walks its residue class; lanes publish completions one by one |
| `DynamicShardedSpscQueue` | dynamic sharded queue, host and kernel | one ring per warp; the host's stores of tails and stop flags are steps of their own |
| `PersistentCopyLifecycle` | the lifecycle object | counters and state a user keeps beside a queue |
| `PersistentCopyModels` | the selectable models under one user | `model` is `config.model`; every model is an `INSTANCE` over the same variables; start, submit, poll, stop and wait in any order the queue allows |
| `ObjectRegistry` | registry | a registry is a value, each operation returns the next |
| `ControlHandlers` | handlers of the three services | operators from state, session, arguments and fault to state, status and identity, with their roll-backs; `mapped` holds the device mappings that are open, whether a region still has them or not |
| `ControlService` | the daemon serving several sessions | one action per request and per disconnection; the history `actor` is the session whose step last changed the service |
| `ClientRuntime` | one client, its connection, the daemon | phases of a control call, loss of the answer, an answer that cannot be read, interruption, exceptions after the daemon has made the object (`Undo`, `OpenDeviceThrows`), daemon restart; runs the same handlers |
| `ControlMessages` | envelope, request, response | a message is a sequence of fields with widths; reading with other widths gives torn values |
| `ControlPayloads` | payload of every method | the writer and the reader of each payload are separate definitions, from the separate functions of the code |
| `IpcServer` | daemons, socket path, poll rounds, client calls | one action per call that another process can see between: check, bind, listen, poll, accept, one descriptor, close, compare, unlink; every message goes through both codecs |

`LoopWorker` uses bounded FIFOs where the code uses shared rings, which is what
`ImplementsFifo` and the theorems below justify; `PersistentCudaCopyBackend` uses
a device that completes in submission order, which is `OrderedCopyQueue`, refined
by the pipeline kernel it runs (`ImplementsQueue`), and by the atomic warp-specialized
kernel and the static partition between two starts (`ReportsInOrder`). `ControlService` and `ClientRuntime` share
`ControlHandlers`; `IpcServer` keeps of the service only which objects a session owns,
what was asked for them and the state of a queue pair, and lets it refuse anything
else that `ControlHandlers` decides (a destroy is never refused). Each `MC*` module only gives an instance its constants and,
where needed, a later starting state.

Data is abstract: a task is its submission index, a send request is what fails in
it, its opcode, its signalling and its number of payloads, a key or number is a
small integer that runs out or wraps where the code's does.

The steps of the kernel and ring modules are sequentially consistent. The code
publishes with release stores and reads the published position with acquire loads,
and each position has one writer or is changed by atomic read-modify-writes;
the plain accesses in between are to slots that `SlotsDisjoint`, `ClaimsDisjoint`
and the refinements show to be owned by one side at a time. Weaker effects of the
GPU memory system are outside the model.

## Runs

`tlc -config <cfg> <module>`; every passing run also evaluates the assumptions on
its constants. The type invariant `TypeOK` of each module is a conjunct of one of the
invariants checked: `CursorsAgree` (which also contains `FifoDelivery` and
`NoProtocolError`), `NothingLost`, `HostConsistent`, `CompletionsKept`,
`LanesConsistent`, `ClaimsDisjoint`, `TasksOnce`, `DrainsBeforeExit`, `LookupsExact`,
`HandlesBacked` and `CallsAgree`.

| Run (`cfg`) | Bounds | What it shows |
|---|---|---|
| `shared_ring` (`MCSharedRing`) | 3 slots, 7 positions, 2 values (symmetric) | Under every interleaving of batches, partial publication, stale cursors and remapping: spans of the two sides never share a slot, no `EPROTO`, what is read is what was stored, caching never costs room, published elements never change, and the ring refines `BoundedFifo` |
| `worker` (`MCLoopWorker`) | 2 sends of every kind with up to 2 payloads, 2 receives, CQ and backend of 1, 1 repeated completion | A success is reported only after every payload was copied and every earlier send of the direction was answered, receives are consumed in order, every send is completed at most once, no payload is lost or copied twice, and every posted send is finished |
| `worker_order` (`MCLoopWorkerOrder`) | the same, smaller transport | violation, see Findings |
| `copy_backend` (`MCCopyBackend`) | 4 context slots, batches of 2, 5 tasks | With flush failures, a full or failing queue, invalid requests, stop, destruction and restart: one completion per accepted task and a success only when it was copied (`ExactlyOnce`), contexts, pending batch and counts agree, nothing is published unflushed, a stop loses nothing, and both accepted tasks and a stop come to an end |
| `copy_backend_slot` (`MCCopyBackendSlot`) | the same | violation, see Findings |
| `copy_models` (`MCCopyModels`) | 2 copy warps; sharded and static: 4 slots, 5 tasks per start; direct atomic and warp-specialized: 2 slots, 3 tasks, claims of 2 | Lanes stay consistent and a batch that fits always finds room; no two warps hold a task and no completion is overwritten before it is polled; with lanes or a partition tasks are copied and reported once, also after restarts over the same memory; the ordered models refine `OrderedCopyQueue`; every step of every model is one the lifecycle bookkeeping admits (`LifecycleAdmits`, a step refinement of `PersistentCopyLifecycle`); each accepted task is reported and stops end (`Settles`; of the direct atomic queue, which can report a task twice, only that there are as many reports as tasks) |
| `pipeline` (`MCPipeline`) | 4 external slots, 2 warps with 2 slots each, 9 tasks | Refines `OrderedCopyQueue`, drains before it exits, delivers everything, and a stop returns |
| `direct_atomic_reuse` (`MCDirectAtomicReuse`) | 2 slots, 2 warps, claims of 2, 4 tasks | violation, see Findings |
| `control` (`MCControlService`) | 2 sessions (symmetric), 2 slots per type, 2 generations, 6 keys, 4 QP numbers, 3 mappings, 6 creations (1 when starting from two queue pairs) | Objects belong to connected sessions, have living parents and exact reference counts; the lookup indices match the records; a mapping is open only for a region, or because the driver refused to close it or an exception passed its close (`MappingsAccounted`); connected peers are never silently replaced; identities are never issued twice; a step of one session changes no object of another (`SessionsIsolated`) |
| `client` (`MCClientRuntime`) | 1 slot per type, 2 generations, 4 handles (3 at the start), 2 connections, 2 daemon starts | A live handle of the current connection names the object it was made for and caches its exact state, between calls no object of the connection is without a handle (but a region whose undo failed and a childless context after `open_device` threw), nothing belongs to a session that is gone, and calls return |
| `client_stale` (`MCClientRuntimeStale`) | the same, from an empty daemon | violation, see Findings |
| `ipc` (`MCIpcServer`) | 5 settings, below; a client holds 1 object | A daemon performs exactly the call that was asked, a successful call returns exactly what the daemon meant, and between calls a session owns what its client holds (`CallsAgree`); only one daemon serves a path, and it is the one the path leads to (`PathOwned`); calls return, sessions of vanished clients are closed, a leaving daemon gets to its end (`CallsSettle`) |

Why the bounds are enough to be interesting:

- The ring has a capacity that is not a power of two and wraps twice, also in the
  middle of a batch.
- The worker's queues are so small that each of them is full in front of each step;
  two sends are what it takes for one to overtake another, two payloads for one
  parent to finish in either order.
- The backend fills its slots, meets one that is still taken, and reuses slots after
  every way of freeing them.
- In `pipeline` nine tasks over 2 x 2 shared slots take each barrier through both
  parities more than once; the rings and lanes of `copy_models` wrap, and restarts
  meet every state the memory can be left in.
- `ipc` divides its cases into settings, so that each can be explored in full:
  `Alike` (every method between equal builds, three calls), `Configured` (a queue pair
  through INIT, connection, error and queries, five calls), `Different` (each of the
  client's version numbers raised in turn, and a lower minor), `Contended` (two daemons
  on a path, a client that connects up to three times) and `Shared` (two clients in the
  same poll rounds). The field values of each payload differ from each other, so that
  a swapped field shows.
- Registries fill up, reuse slots and retire them at the last generation; keys and
  QP numbers run out or wrap. `control` starts either empty or from two sessions with
  a queue pair each, where no keys and one mapping are left; `client` from a connected client with a
  context, a protection domain and a completion queue, so that the calls left reach
  every type. Both starting states are reached by the handlers themselves.

`CHECK_DEADLOCK FALSE` is set for `control`, `client`, `client_stale` and `ipc` only: when
the bounded creations or connections are spent and all sessions are gone, nothing is
left to do.

## Fairness

- `LoopWorker`: the thread that calls `progress_once` of both roles keeps running
  (weak fairness of its steps, strong fairness of starting each role, since the
  driver calls them in turn); the backend finishes what it accepted; the application
  polls and posts receives. Without the last, a full CQ or an empty RQ blocks for good.
- `PersistentCudaCopyBackend`: the kernel goes on, and the worker keeps polling and
  waiting in calls in which no CUDA call fails and the batching delay is over. Failing
  calls stay possible between them.
- Kernels: every warp of a resident block makes progress (independent thread
  scheduling), the host polls, finishes the call it is in and, after a stop, waits.
  Submitting, stopping and starting are not fair.
- `ClientRuntime`: the server's poll loop serves the request of the connected client
  (`ServeConnected`: every ready connection is visited in each round), and a thread
  blocked in an API call goes on when an answer or the end of the connection arrives
  (`Client`). Serving or closing a connection the client has left, interruption,
  exceptions, restart and the application's own calls are not fair.
- `IpcServer`: a daemon that runs is scheduled and works through the connections of its
  round; a client in a call reads its answer or the end of the connection. The
  condition for serving is stated on `ready` (the next connection of the round is taken
  from it) and the one for receiving on `inbox` (an answer is taken from it), which
  only `Serve` and `Receive` do within `Next`. Starts, stops, crashes, hang-ups, new calls and
  the removal of a stale socket file are not fair.

## Proofs

`SharedRingProofs`, for every capacity in `Nat \ {0}`, every set of values and every
bound on positions (`CapacityAssumption`):

| Theorem | States |
|---|---|
| `CursorsAlwaysAgree` | the inductive invariant `CursorsAgree` |
| `RingTypes` | `TypeOK`: indices advanced by subtraction stay inside the ring |
| `RingNeverShares` | `SlotsDisjoint` |
| `RingDelivers` | `FifoDelivery` |
| `RingNeverProtocolError` | `NoProtocolError` |
| `RingCachingInvisible` | `CachingInvisible` |
| `RingPublishedStable` | `PublishedStable` |
| `RingImplementsFifo` | `ImplementsFifo`: the refinement of `BoundedFifo` |

The argument: neither disjointness nor delivery is inductive alone, since both
depend on what an endpoint privately remembers. `CursorsAgree` says that published
positions are at most a capacity apart, that an endpoint's local position is the
published one, its cached view of the other is never ahead of it, its index is its
position modulo the capacity, its span fits what it saw, and that the slot of each
position between `head` and the last filled one holds what was stored for it. Each
action has a lemma that it keeps this. Index arithmetic rests on `RingArithmetic`:
`SlotAdvance` (one subtraction computes the remainder) and `SlotsDistinct` (two
positions less than a capacity apart have different slots), both from uniqueness of
division, so the capacity need not be a power of two. `SlotsDisjoint` then follows:
spans of the two sides are positions less than a capacity apart.
For the refinement, the abstract queue is the segment of the history between the
published positions (`FifoQueue`); publishing and releasing split and join segments
(`SegmentsJoin`, `SegmentSplits`), and every other step changes neither end. The
mapping needs one fact more, that everything filled is a value (`FilledWithValues`).

`PipelineKernelProofs`, for every capacity, batch, depth of the shared queues, number
of copy warps and number of tasks that satisfy `QueueAssumption` and `BatchAssumption`
(the code's configuration checks and its `static_assert`):

| Theorem | States |
|---|---|
| `PipelineKernelSound` | the inductive invariant `KernelSound` |
| `KernelDrains` | `DrainsBeforeExit` |
| `KernelImplementsQueue` | `ImplementsQueue`: the refinement of `OrderedCopyQueue` |

The difficulty is that a waiter sees one bit. `Handoff` says what that bit means: with
`F` the indices filled so far and `T` those taken, an index is filled only after the
one before it in its slot was taken, the `ready` parity of a slot is the phase of the
next index to be filled there, its `consumed` parity that of the next to be taken, and
in between the slot holds that index's task. `F` and `T` of both queues are defined from
the warps' registers (`FilledTasks`, `TakenTasks`, `FilledDone`, `TakenDone`; the last
counts a completion as taken when the lane of egress that read it has released its slot,
so it grows lane by lane after the tail was published).
`FillKeepsHandoff` and `TakeKeepsHandoff` show that one arrival keeps this, and
`ReadyMeansFilled` that a waiter gets through only when its own index was filled, for
which the batch must not reach a slot twice (`BatchFits`, the `static_assert`). The rest of
`KernelSound` ties the external rings and the host's positions to these sets. A copy
warp that has left took its sentinel, which lies behind every task there is.

`PersistentCudaCopyBackendProofs`, for every queue capacity, host batch and number of
tasks that satisfy `BackendAssumption` (the configuration the constructor accepts), and
every answer of the driver and the queue:

| Theorem | States |
|---|---|
| `BackendInvariant` | the inductive invariant `BackendSound` |
| `BackendExactlyOnce` | `ExactlyOnce` |
| `BackendHostConsistent` | `HostConsistent` |
| `BackendFlushesFirst` | `FlushBeforePublish` |
| `BackendStopLosesNothing` | `StopLosesNothing` |

`ExactlyOnce` is not inductive: that a task is reported once depends on the lists a
later call walks. `BackendSound` has four parts. `Ledger` relates the context array to
the lists: a used context belongs to the one task of its slot that was issued, `pending`
and the local completions list their contexts without repetition and completely, the
device queue covers every submitted context, and `outstanding` counts the used slots.
After a failure the queue still holds tasks whose contexts were turned into local
errors, or were popped and given to another task; that the queue owns its contexts is
therefore claimed only while the backend accepts or has a batch. `Delivery` says
what the device copied and may read. `Settled` says what a batch that waits for room
looks like between two calls; within one it does not hold, which is why the lemmas of
`CopyHostProofs` and `CopyHostCallProofs` carry `Ledger` and `Delivery` only and establish
`Settled` at the end.
`Reported` says that a task number below the next one was handed over once and its
context is gone, or was not and still owns it. The proof follows the code: one lemma
per member function (`PublishSound`, `EnqueueSound`, `FailAllSound`, `PopDeviceSound`, ...),
first which members the call changes (`...Effect`), then what it keeps; the
actions are compositions of these calls. The local completions made by `fail_all`
walk the array by index: `Enumeration` shows that `Nth` lists a finite set once each.

Only model-checked: `LoopWorker`, the copy models other than the pipeline kernel, the
control plane, the messages and the IPC server; in the proved modules, all liveness. The
widths and splitting of messages are recursive operators. Liveness under fairness,
`ENABLED` and induction over data are outside what
the prover does.

## Findings

- `worker_order`: `complete_send_error` produces an error completion at once, while
  earlier sends of the QP wait for responses (`src/worker/worker.cpp:511`), and a
  rejected request is answered before queued parents (`:285-294`).
  `docs/contracts/wr-wc-semantics.md:107`: "WCs from one QP and one direction preserve
  WR order." What does hold is `SuccessProvesEarlier`: a success comes after the
  answers of all earlier sends.
- `copy_backend_slot`: a context slot is `task_id & capacity_mask_`
  (`src/gpu/persistent_copy_backend.cu:95`), and slots are freed out of order when
  local completions overtake device completions. A submission can meet a taken slot
  while the backend has room; it is refused with `EPROTO`, which stops the backend.
  The F06-S03 step document, line 61, allows a refusal only when capacity is exhausted
  or the backend does not accept.
- `direct_atomic_reuse`: a warp claims tasks and reads their slots later
  (`src/gpu/persistent_copy.cu:431`, `:466`), while completion positions are reserved
  in another order; the host can overwrite a claimed slot, whose new task is then
  copied twice. The F06-S02 step document, line 193, requires no loss or duplication.
  The daemon does not run this kernel.
- `client_stale`: posting looks at the proxy's live flag and cached state only
  (`src/api/api.cpp:746`), so it succeeds on a queue pair whose session is gone.
  `docs/contracts/object-lifecycle.md:68` promises `EINVAL` for a stale handle.
- Stop of the atomic warp-specialized kernel: a copy warp reads `task_publish` and
  `task_claim` before `ingress_done` (`src/gpu/persistent_copy.cu:758-772`), so all
  copy warps can leave with tasks published in between. `DrainsBeforeExit` of
  `WarpSpecializedKernel` states what the F06-S02 step document (line 110) asks for.
  TLC refutes it on that module with `SPECIFICATION Spec`, `INVARIANT DrainsBeforeExit`
  and `Capacity = 2`, `MetaBatch = 2`, `Depth = 2`, `CopyWarps = 2`, `ClaimBatch = 2`,
  `MaxTasks = 3`. In `copy_models` this kernel is therefore held to `Settles` only until a
  stop is requested.
  The pipeline kernel, which the daemon runs, satisfies its own `DrainsBeforeExit`.
- What failing calls leave behind: `open_device` has no roll-back when it cannot allocate
  the proxy (`src/api/api.cpp:159-165`), so the context stays until the session ends;
  `register_mr` ignores a failing close (`src/control/pd_mr_cq.cpp:389`, `:395`, `:402`,
  `:421`, `:439`), and an exception between the open and line 428 passes every close, so
  a mapping can stay open as long as the daemon runs. `NothingUnowned` and
  `MappingsAccounted` make these exceptions, and hold with them.

## Not modelled

- The copy of one task (`src/gpu` copy core): alignment, vector and narrow accesses
  move bytes only; it is one step here.
- CUDA IPC and visibility wrappers: each is a call of the driver with its result; the
  outcomes are the faults of `ControlHandlers` and of the backend's environment.
- A second start of the warp-specialized queue as a step: `start_impl` is the initial
  state; it clears the whole memory and every member
  (`src/gpu/persistent_copy.cu:2850-2855`), so what follows is a first start again. The
  other three queues are started again as steps.
- Byte order and the contents of strings in messages: every scalar is converted in both
  directions. Passed descriptors are counted, not followed.
- In `IpcServer`, who removes the socket file of a crashed daemon: that file only, and
  never while the daemon lives. Until then every start on the path is refused with
  `EADDRINUSE` (`src/ipc/server.cpp:31`), which `docs/progress/F03-S01.md:20` makes the
  design; no property asks for more. `remove_socket_path` compares and unlinks in two steps,
  so a file replaced by hand between them would be lost.
- Whether the remote queue pair of a connect exists, in `IpcServer`: an arbitrary
  refusal there, exact in `ControlHandlers`.
- The byte layout of queue entries, and a chain of requests in one post: the chain is a
  sequence of single posts. Argument checks of the API that only refuse are left out.
- A queue pair destroyed under its worker: `progress_once` then returns at once
  (`src/worker/worker.cpp:64-67`). `LoopWorker` is one connected pair for good, so
  `worker_qp_view` always finds it.
- Memory that runs out in the client's transport and codecs before a request is sent or
  while an answer is read. Memory that runs out once the daemon has made an object is
  modelled (`OpenDeviceThrows`, `Undo`).
- Two opens of one CUDA allocation in `ControlHandlers` are two mappings; how the driver
  counts them is its own affair.
- Signals, command lines, the client program and the benchmarks.
- A 32-bit wrap of `next_sequence_` (`src/worker/worker.cpp:525`) and growth of the
  responder's maps over time: out of reach of a small instance.

## Plan

1. Prove the control plane's `CountsExact` and `NoOrphans`, from an inductive invariant
   over registries, sessions and reference counts.
2. Prove the lane invariant of `DynamicShardedSpscQueue`, then `CompletedOnce` and
   `SuccessIsVisible` of `LoopWorker`, and `PathOwned`.
3. Compose the control service with the worker, to state what deregistering a memory
   region in use does (`work_request_references`, `src/control/pd_mr_cq.cpp:458`), once
   the code counts such references.
