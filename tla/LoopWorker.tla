------------------------------ MODULE LoopWorker ------------------------------
(***************************************************************************)
(* The data path of one connected QP pair: a requester worker that turns    *)
(* send work requests (WRs) into payload requests, a responder worker that  *)
(* feeds a copy backend and aggregates its completions, and the local       *)
(* transport between them (src/worker/worker.cpp, local_transport.cpp).     *)
(*                                                                          *)
(* One thread runs both workers, a progress_once call at a time; pc says    *)
(* which loop of which call is running, and every try_* call is one action. *)
(* The application posts and polls, and the backend finishes copies, between *)
(* any two of them.                                                         *)
(*                                                                          *)
(* The queues shared with the application are bounded FIFOs, which is what  *)
(* module SharedRing implements.  WRs and receives are numbered from 1 in   *)
(* posting order, and a WR's number is its parent_request_id.               *)
(***************************************************************************)
EXTENDS Integers, Sequences, FiniteSets

CONSTANTS
  WrKinds,            \* the WRs the application may post, see Wr
  MaxPayloads,        \* most payloads of one WR
  MaxWrs,             \* bound: send WRs posted
  MaxReceives,        \* bound: receive WRs posted
  SqCapacity, CqCapacity,
  RequestCapacity, ResponseCapacity,   \* LocalTransport
  PendingCapacity,    \* kBackendBatchCapacity
  BackendCapacity,    \* tasks the backend holds
  MaxDuplicates       \* bound: completions the backend repeats

\* A WR, by what the workers tell apart: whether it fails the requester's checks
\* (length, opcode, lkey), carries a peer number other than the responder's, or
\* fails the rkey check; its opcode; its signaling; and the payloads it splits
\* into, 0 for a WR of total length 0.
Wr == [fault : {"none", "local", "target", "access"}, imm : BOOLEAN, signaled : BOOLEAN,
       payloads : 0..MaxPayloads]

ASSUME LoopWorkerAssumption ==
  /\ WrKinds \subseteq Wr
  /\ {MaxPayloads, MaxWrs, MaxReceives, MaxDuplicates} \subseteq Nat
  /\ {SqCapacity, CqCapacity, RequestCapacity, ResponseCapacity, PendingCapacity,
      BackendCapacity} \subseteq Nat \ {0}

VARIABLES
  pc,                 \* the loop the worker thread is in
  posted,             \* every send WR posted; those after sq_head wait in the SQ
  sq_head,
  pending_send,       \* payload index the current WR has reached, or NoSend
  requester_inflight,
  pending_response,
  requests, responses,       \* LocalTransport
  receives, rq_head,         \* receives posted, receives consumed
  rq_peeked,                 \* the oldest receive is held by a peek
  pending_request,
  responder_inflight, responder_order,
  pending_backend,           \* pending_backend_requests_
  running, completions,      \* in the backend: copies under way, completions ready
  duplicates,
  send_wcs, send_polled,     \* every CQE produced, and how many were polled
  recv_wcs, recv_polled,
  copied,                    \* history: payloads whose copy succeeded
  finished                   \* history: WRs the requester is done with

requesterVars == <<sq_head, pending_send, requester_inflight, pending_response,
                   send_wcs, finished>>
responderVars == <<rq_head, rq_peeked, pending_request, responder_inflight,
                   responder_order, pending_backend, recv_wcs>>
backendVars == <<running, completions, duplicates, copied>>
appVars == <<posted, receives, send_polled, recv_polled>>
vars == <<pc, requests, responses, requesterVars, responderVars, backendVars, appVars>>

NoSend == -1
Nothing == [id |-> 0]

Ids == 1..Len(posted)
Results == {"success", "remote_invalid_request", "remote_access_error", "backend_error"}
Request == [id : 1..MaxWrs, index : 0..MaxPayloads]
Response == [id : 1..MaxWrs, result : Results]
Task == Request
Completion == [id : 1..MaxWrs, index : 0..MaxPayloads, result : Results]
Parent == [next : 0..MaxPayloads, results : [0..(MaxPayloads - 1) -> Results \cup {"open"}],
           error : Results, receive : 0..MaxReceives, consumed : BOOLEAN]

Init == /\ pc = "idle"
        /\ posted = <<>> /\ sq_head = 0 /\ pending_send = NoSend
        /\ requester_inflight = {} /\ pending_response = Nothing
        /\ requests = <<>> /\ responses = <<>>
        /\ receives = 0 /\ rq_head = 0 /\ rq_peeked = FALSE
        /\ pending_request = Nothing
        /\ responder_inflight = <<>> /\ responder_order = <<>>
        /\ pending_backend = <<>>
        /\ running = {} /\ completions = <<>> /\ duplicates = 0
        /\ send_wcs = <<>> /\ send_polled = 0
        /\ recv_wcs = <<>> /\ recv_polled = 0
        /\ copied = {} /\ finished = {}

-----------------------------------------------------------------------------
(* The application, on its side of the shared rings.                        *)

PostSend == /\ Len(posted) < MaxWrs
            /\ Len(posted) - sq_head < SqCapacity
            /\ \E wr \in WrKinds : posted' = Append(posted, wr)
            /\ UNCHANGED <<pc, requests, responses, requesterVars, responderVars,
                           backendVars, receives, send_polled, recv_polled>>

PostReceive == /\ receives < MaxReceives
               /\ receives' = receives + 1
               /\ UNCHANGED <<pc, requests, responses, requesterVars, responderVars,
                              backendVars, posted, send_polled, recv_polled>>

PollSendCq == /\ send_polled < Len(send_wcs)
              /\ send_polled' = send_polled + 1
              /\ UNCHANGED <<pc, requests, responses, requesterVars, responderVars,
                             backendVars, posted, receives, recv_polled>>

PollReceiveCq == /\ recv_polled < Len(recv_wcs)
                 /\ recv_polled' = recv_polled + 1
                 /\ UNCHANGED <<pc, requests, responses, requesterVars, responderVars,
                                backendVars, posted, receives, send_polled>>

SendCqFull == Len(send_wcs) - send_polled = CqCapacity
ReceiveCqFull == Len(recv_wcs) - recv_polled = CqCapacity

-----------------------------------------------------------------------------
(* The copy backend, as the workers rely on it: a task it accepted completes *)
(* once, at any time, in any order; a completion may be reported again.      *)

BackendFinish ==
  \E task \in running, result \in {"success", "backend_error"} :
    /\ running' = running \ {task}
    /\ completions' = Append(completions,
                             [id |-> task.id, index |-> task.index, result |-> result])
    /\ copied' = IF result = "success" THEN copied \cup {task} ELSE copied
    /\ UNCHANGED <<pc, requests, responses, requesterVars, responderVars, appVars, duplicates>>

BackendDuplicate ==
  /\ duplicates < MaxDuplicates
  /\ \E task \in copied :
       completions' = Append(completions,
                             [id |-> task.id, index |-> task.index, result |-> "success"])
  /\ duplicates' = duplicates + 1
  /\ UNCHANGED <<pc, requests, responses, requesterVars, responderVars, appVars, running, copied>>

-----------------------------------------------------------------------------
(* The worker thread: progress_once of one role, then of a role again.  It  *)
(* begins with worker_qp_view, which finds the queue pair as long as nobody *)
(* destroys it; nobody does so here.                                        *)

StartRequester == /\ pc = "idle" /\ pc' = "response"
                  /\ UNCHANGED <<requests, responses, requesterVars, responderVars,
                                 backendVars, appVars>>

StartResponder == /\ pc = "idle" /\ pc' = "completions1"
                  /\ UNCHANGED <<requests, responses, requesterVars, responderVars,
                                 backendVars, appVars>>

\* The loop that follows each loop of progress_once.
After == [response |-> "send", send |-> "idle",
          completions1 |-> "responses1", responses1 |-> "flush1", requests |-> "flush2",
          flush2 |-> "completions2", completions2 |-> "responses2", responses2 |-> "idle"]

\* The current loop goes on as long as its try_* call returns true.
Returns(value) == pc' = IF value THEN pc ELSE After[pc]

-----------------------------------------------------------------------------
(* The requester.                                                           *)

SendWc(id, status) == [id |-> id, status |-> status]

\* try_response: a response for a parent that is no longer in flight is dropped;
\* one whose CQE finds no room stays pending and is retried.
TryResponse ==
  /\ pc = "response"
  /\ LET loaded == pending_response = Nothing
         response == IF loaded THEN Head(responses) ELSE pending_response
         needs_completion == response.result # "success" \/ posted[response.id].signaled
     IN \/ /\ loaded /\ responses = <<>>
           /\ Returns(FALSE)
           /\ UNCHANGED <<responses, requesterVars>>
        \/ /\ ~loaded \/ responses # <<>>
           /\ responses' = IF loaded THEN Tail(responses) ELSE responses
           /\ IF response.id \notin requester_inflight
              THEN /\ pending_response' = Nothing
                   /\ Returns(TRUE)
                   /\ UNCHANGED <<requester_inflight, send_wcs, finished>>
              ELSE IF needs_completion /\ SendCqFull
              THEN /\ pending_response' = response
                   /\ Returns(loaded)
                   /\ UNCHANGED <<requester_inflight, send_wcs, finished>>
              ELSE /\ send_wcs' = IF needs_completion
                                  THEN Append(send_wcs, SendWc(response.id, response.result))
                                  ELSE send_wcs
                   /\ requester_inflight' = requester_inflight \ {response.id}
                   /\ finished' = finished \cup {response.id}
                   /\ pending_response' = Nothing
                   /\ Returns(TRUE)
           /\ UNCHANGED <<sq_head, pending_send>>
  /\ UNCHANGED <<requests, responderVars, backendVars, appVars>>

\* complete_send_error: the error CQE is produced at once; without room for it
\* the peeked slot is given back and the WR is retried.
CompleteSendError(id) ==
  /\ IF SendCqFull
     THEN Returns(FALSE) /\ UNCHANGED <<send_wcs, sq_head, finished>>
     ELSE /\ send_wcs' = Append(send_wcs, SendWc(id, "local_error"))
          /\ sq_head' = sq_head + 1
          /\ finished' = finished \cup {id}
          /\ Returns(TRUE)
  /\ UNCHANGED <<requests, pending_send, requester_inflight>>

\* Mutant of SendPayload: every payload, not only the first, inserts the parent.
SendPayloadReinserts(id) ==
  LET index == IF pending_send = NoSend THEN 0 ELSE pending_send
      last == index + 1 >= posted[id].payloads
  IN /\ requester_inflight' = requester_inflight \cup {id}
     /\ IF Len(requests) = RequestCapacity
        THEN /\ pending_send' = index
             /\ Returns(FALSE)
             /\ UNCHANGED <<requests, sq_head>>
        ELSE /\ requests' = Append(requests, [id |-> id, index |-> index])
             /\ pending_send' = IF last THEN NoSend ELSE index + 1
             /\ sq_head' = IF last THEN sq_head + 1 ELSE sq_head
             /\ Returns(TRUE)
     /\ UNCHANGED <<send_wcs, finished>>

\* The rest of try_send: one payload of the WR enters the transport; the SQ slot
\* is released with the last one.  A zero-length WR sends one empty request.
SendPayload(id) ==
  LET index == IF pending_send = NoSend THEN 0 ELSE pending_send
      last == index + 1 >= posted[id].payloads
  IN /\ requester_inflight' = IF pending_send = NoSend THEN requester_inflight \cup {id}
                              ELSE requester_inflight
     /\ IF Len(requests) = RequestCapacity
        THEN /\ pending_send' = index
             /\ Returns(FALSE)
             /\ UNCHANGED <<requests, sq_head>>
        ELSE /\ requests' = Append(requests, [id |-> id, index |-> index])
             /\ pending_send' = IF last THEN NoSend ELSE index + 1
             /\ sq_head' = IF last THEN sq_head + 1 ELSE sq_head
             /\ Returns(TRUE)
     /\ UNCHANGED <<send_wcs, finished>>

\* try_send: the oldest WR of the SQ is validated once, before its first payload.
TrySend ==
  /\ pc = "send"
  /\ LET id == sq_head + 1
     IN \/ /\ sq_head = Len(posted)
           /\ Returns(FALSE)
           /\ UNCHANGED <<requests, sq_head, pending_send, requester_inflight, send_wcs,
                          finished>>
        \/ /\ id \in Ids /\ pending_send = NoSend /\ posted[id].fault = "local"
           /\ CompleteSendError(id)
        \/ /\ id \in Ids /\ (pending_send # NoSend \/ posted[id].fault # "local")
           /\ SendPayload(id)
  /\ UNCHANGED <<responses, pending_response, responderVars, backendVars, appVars>>

-----------------------------------------------------------------------------
(* The responder.                                                           *)

\* try_backend_completions, one completion at a time: its loop drains whatever
\* the backend has ready, and each completion is recorded on its own.
TryBackendCompletions ==
  /\ pc \in {"completions1", "completions2"}
  /\ \/ /\ completions = <<>>
        /\ Returns(FALSE)
        /\ UNCHANGED <<completions, responder_inflight>>
     \/ /\ completions # <<>>
        /\ completions' = Tail(completions)
        /\ LET c == Head(completions)
           IN responder_inflight' =
                IF c.id \notin DOMAIN responder_inflight THEN responder_inflight
                ELSE IF c.index >= posted[c.id].payloads
                        \/ responder_inflight[c.id].results[c.index] # "open"
                THEN [responder_inflight EXCEPT ![c.id].error = "backend_error"]
                ELSE [responder_inflight EXCEPT ![c.id].results[c.index] = c.result]
        /\ Returns(TRUE)
  /\ UNCHANGED <<requests, responses, requesterVars, appVars, running, duplicates, copied,
                 rq_head, rq_peeked, pending_request, responder_order, pending_backend,
                 recv_wcs>>

\* What try_submit_batch takes of the pending tasks, given its capacity.
AcceptedCount ==
  LET outstanding == Cardinality(running) + Len(completions)
  IN CHOOSE n \in 0..Len(pending_backend) :
       /\ n = 0 \/ outstanding + n <= BackendCapacity
       /\ n = Len(pending_backend) \/ outstanding + n >= BackendCapacity

\* Mutant of Remaining: a partly accepted batch is not shifted down.
RemainingUnshifted(accepted) == IF accepted = Len(pending_backend) THEN <<>> ELSE pending_backend

\* The tasks still pending after the backend took the first ones.
Remaining(accepted) == SubSeq(pending_backend, accepted + 1, Len(pending_backend))

\* try_flush_backend_requests: the backend takes a prefix of the pending tasks.
\* New requests are looked at only when the first flush leaves none behind.
TryFlushBackendRequests ==
  /\ pc \in {"flush1", "flush2"}
  /\ LET accepted == AcceptedCount
     IN /\ running' = running \cup {pending_backend[i] : i \in 1..accepted}
        /\ pending_backend' = Remaining(accepted)
        /\ pc' = IF pc = "flush1" /\ accepted = Len(pending_backend) THEN "requests"
                 ELSE "completions2"
  /\ UNCHANGED <<requests, responses, requesterVars, appVars, completions, duplicates, copied,
                 rq_head, rq_peeked, pending_request, responder_inflight, responder_order,
                 recv_wcs>>

\* Mutant of ParentResult: the result of the last payload counts.
ParentResultLast(id) ==
  LET parent == responder_inflight[id]
  IN IF parent.error # "success" \/ posted[id].payloads = 0 THEN parent.error
     ELSE parent.results[posted[id].payloads - 1]

\* The result of a parent: its own error, else that of its first failed payload.
ParentResult(id) ==
  LET parent == responder_inflight[id]
      failed == {i \in 0..(posted[id].payloads - 1) : parent.results[i] # "success"}
  IN IF parent.error # "success" THEN parent.error
     ELSE IF failed = {} THEN "success"
     ELSE parent.results[CHOOSE i \in failed : \A j \in failed : i <= j]

\* Every payload was handed over and reached its terminal state.
ParentComplete(id) ==
  LET parent == responder_inflight[id]
  IN /\ parent.next = posted[id].payloads
     /\ \A i \in 0..(posted[id].payloads - 1) : parent.results[i] # "open"

OldestReady == responder_order # <<>> /\ ParentComplete(Head(responder_order))

\* try_parent_response: only the oldest parent answers.  The receive CQE and the
\* response go out together or not at all.
TryParentResponse ==
  /\ pc \in {"responses1", "responses2"}
  /\ \/ /\ ~OldestReady
        /\ Returns(FALSE)
        /\ UNCHANGED <<responses, recv_wcs, responder_inflight, responder_order>>
     \/ /\ OldestReady
        /\ LET id == Head(responder_order)
               result == ParentResult(id)
               produce_receive == result = "success" /\ responder_inflight[id].receive # 0
           IN IF (produce_receive /\ ReceiveCqFull) \/ Len(responses) = ResponseCapacity
              THEN /\ Returns(FALSE)
                   /\ UNCHANGED <<responses, recv_wcs, responder_inflight, responder_order>>
              ELSE /\ responses' = Append(responses, [id |-> id, result |-> result])
                   /\ recv_wcs' = IF produce_receive
                                  THEN Append(recv_wcs,
                                         [receive |-> responder_inflight[id].receive, id |-> id])
                                  ELSE recv_wcs
                   /\ responder_inflight' = [i \in DOMAIN responder_inflight \ {id} |->
                                               responder_inflight[i]]
                   /\ responder_order' = Tail(responder_order)
                   /\ Returns(TRUE)
  /\ UNCHANGED <<requests, requesterVars, backendVars, appVars, rq_head, rq_peeked,
                 pending_request, pending_backend>>

\* resolve_rkey refuses a bad key or range, and every range of length 0.
RkeyResolves(wr) == wr.fault # "access" /\ wr.payloads # 0

\* The error a request is answered with before it joins a parent.
Rejection(request) ==
  IF posted[request.id].fault = "target" THEN "remote_invalid_request"
  ELSE IF request.id \in DOMAIN responder_inflight THEN "none"
  ELSE IF request.index # 0 THEN "remote_invalid_request"
  ELSE IF ~RkeyResolves(posted[request.id]) THEN "remote_access_error"
  ELSE "none"

\* Mutant of RejectRequest: a response that finds no room is dropped.
RejectRequestDrops(request, loaded) ==
  /\ Rejection(request) # "none"
  /\ responses' = IF Len(responses) = ResponseCapacity THEN responses
                  ELSE Append(responses, [id |-> request.id, result |-> Rejection(request)])
  /\ pending_request' = Nothing
  /\ Returns(TRUE)
  /\ UNCHANGED <<rq_head, rq_peeked, responder_inflight, responder_order, pending_backend>>

\* An error response goes straight to the transport, past responder_order.
RejectRequest(request, loaded) ==
  /\ Rejection(request) # "none"
  /\ IF Len(responses) = ResponseCapacity
     THEN pending_request' = request /\ Returns(loaded) /\ UNCHANGED responses
     ELSE /\ responses' = Append(responses, [id |-> request.id, result |-> Rejection(request)])
          /\ pending_request' = Nothing
          /\ Returns(TRUE)
  /\ UNCHANGED <<rq_head, rq_peeked, responder_inflight, responder_order, pending_backend>>

\* A write with immediate whose parent is new needs a receive it can peek.
LacksReceive(request) ==
  /\ request.id \notin DOMAIN responder_inflight
  /\ posted[request.id].imm
  /\ rq_peeked \/ receives = rq_head

\* Mutant of AwaitReceive: the receive queue stays claimed by the failed peek.
AwaitReceiveHolds(request, loaded) ==
  /\ Rejection(request) = "none" /\ LacksReceive(request)
  /\ pending_request' = request
  /\ rq_peeked' = TRUE
  /\ Returns(loaded)
  /\ UNCHANGED <<responses, rq_head, responder_inflight, responder_order, pending_backend>>

AwaitReceive(request, loaded) ==
  /\ Rejection(request) = "none" /\ LacksReceive(request)
  /\ pending_request' = request
  /\ Returns(loaded)
  /\ UNCHANGED <<responses, rq_head, rq_peeked, responder_inflight, responder_order,
                 pending_backend>>

\* The parent of a request, as it was or as its first request creates it.
ParentOf(request) ==
  IF request.id \in DOMAIN responder_inflight THEN responder_inflight[request.id]
  ELSE [next |-> 0, results |-> [i \in 0..(MaxPayloads - 1) |-> "open"], error |-> "success",
        receive |-> IF posted[request.id].imm THEN rq_head + 1 ELSE 0, consumed |-> FALSE]

\* Mutant of Enqueued: push_front.
EnqueuedFirst(id) == <<id>> \o responder_order

\* The order in which parents answer.
Enqueued(id) == Append(responder_order, id)

WithParent(id, parent) ==
  [i \in DOMAIN responder_inflight \cup {id} |->
     IF i = id THEN parent ELSE responder_inflight[i]]

\* The request joins its parent: its task waits for the backend, and the parent's
\* receive is consumed with the first of them.  A request out of sequence marks
\* the parent and stays pending, and so does one that finds no room.
JoinParent(request, loaded) ==
  LET parent == ParentOf(request)
      zero == posted[request.id].payloads = 0
      valid == request.index = parent.next
      full == ~zero /\ Len(pending_backend) = PendingCapacity
      consume == valid /\ ~full /\ parent.receive # 0 /\ ~parent.consumed
      joined == [parent EXCEPT !.next = IF zero THEN @ ELSE @ + 1,
                               !.consumed = @ \/ parent.receive # 0]
  IN /\ Rejection(request) = "none" /\ ~LacksReceive(request)
     /\ responder_order' = IF request.id \in DOMAIN responder_inflight THEN responder_order
                           ELSE Enqueued(request.id)
     /\ responder_inflight' =
          WithParent(request.id, IF ~valid THEN [parent EXCEPT !.error = "remote_invalid_request"]
                                 ELSE IF full THEN parent ELSE joined)
     /\ pending_backend' = IF valid /\ ~full /\ ~zero THEN Append(pending_backend, request)
                           ELSE pending_backend
     /\ rq_head' = IF consume THEN rq_head + 1 ELSE rq_head
     /\ rq_peeked' = (parent.receive # 0 /\ ~parent.consumed /\ ~consume)
     /\ pending_request' = IF valid /\ ~full THEN Nothing ELSE request
     /\ Returns((valid /\ ~full) \/ loaded)
     /\ UNCHANGED responses

\* try_request: the oldest request, or the one an earlier call could not place.
TryRequest ==
  /\ pc = "requests"
  /\ LET loaded == pending_request = Nothing
         request == IF loaded THEN Head(requests) ELSE pending_request
     IN \/ /\ loaded /\ requests = <<>>
           /\ Returns(FALSE)
           /\ UNCHANGED <<requests, responses, rq_head, rq_peeked, pending_request,
                          responder_inflight, responder_order, pending_backend>>
        \/ /\ ~loaded \/ requests # <<>>
           /\ requests' = IF loaded THEN Tail(requests) ELSE requests
           /\ \/ RejectRequest(request, loaded)
              \/ AwaitReceive(request, loaded)
              \/ JoinParent(request, loaded)
  /\ UNCHANGED <<requesterVars, backendVars, appVars, recv_wcs>>

-----------------------------------------------------------------------------
Worker == \/ StartRequester \/ TryResponse \/ TrySend
          \/ StartResponder \/ TryBackendCompletions \/ TryParentResponse
          \/ TryFlushBackendRequests \/ TryRequest

Application == PostSend \/ PostReceive \/ PollSendCq \/ PollReceiveCq

Next == Worker \/ Application \/ BackendFinish \/ BackendDuplicate

\* The driver keeps calling progress_once of both roles, the backend finishes
\* what it accepted, and the application polls and replenishes its receives.
Fairness == /\ WF_vars(Worker) /\ SF_vars(StartRequester) /\ SF_vars(StartResponder)
            /\ WF_vars(BackendFinish)
            /\ WF_vars(PostReceive) /\ WF_vars(PollSendCq) /\ WF_vars(PollReceiveCq)

Spec == Init /\ [][Next]_vars
FairSpec == Spec /\ Fairness

-----------------------------------------------------------------------------
(* Properties.                                                              *)

TaskSet(seq) == {seq[i] : i \in DOMAIN seq}

\* Every variable has its type, and no queue exceeds its capacity.
TypeOK ==
  /\ pc \in DOMAIN After \cup {"idle", "flush1"}
  /\ posted \in Seq(WrKinds) /\ sq_head \in 0..Len(posted)
  /\ pending_send \in {NoSend} \cup 0..MaxPayloads
  /\ requester_inflight \subseteq Ids /\ finished \subseteq Ids
  /\ pending_response \in {Nothing} \cup Response
  /\ requests \in Seq(Request) /\ Len(requests) <= RequestCapacity
  /\ responses \in Seq(Response) /\ Len(responses) <= ResponseCapacity
  /\ rq_head \in 0..receives /\ receives \in 0..MaxReceives /\ rq_peeked \in BOOLEAN
  /\ pending_request \in {Nothing} \cup Request
  /\ DOMAIN responder_inflight = TaskSet(responder_order)
  /\ \A id \in DOMAIN responder_inflight : responder_inflight[id] \in Parent
  /\ pending_backend \in Seq(Task) /\ Len(pending_backend) <= PendingCapacity
  /\ running \subseteq Task /\ Cardinality(running) <= BackendCapacity
  /\ completions \in Seq(Completion)
  /\ Len(send_wcs) - send_polled \in 0..CqCapacity
  /\ Len(recv_wcs) - recv_polled \in 0..CqCapacity

\* However responses, rejections, duplicates and full queues interleave, no WR
\* gets two send CQEs, and receive CQEs follow both the order of the WRs and the
\* order of the receives: no receive gets two, and no WR consumes two receives.
CompletedOnce ==
  /\ \A i, j \in DOMAIN send_wcs : send_wcs[i].id = send_wcs[j].id => i = j
  /\ \A i, j \in DOMAIN recv_wcs :
       i < j => recv_wcs[i].id < recv_wcs[j].id /\ recv_wcs[i].receive < recv_wcs[j].receive

\* A successful CQE, on either side, is never early: every payload of the WR has
\* been copied, and the sender of a write with immediate hears of success only
\* after the receiver's CQE was produced.
SuccessIsVisible ==
  /\ \A i \in DOMAIN send_wcs : send_wcs[i].status = "success" =>
       LET id == send_wcs[i].id
       IN /\ \A k \in 0..(posted[id].payloads - 1) : [id |-> id, index |-> k] \in copied
          /\ posted[id].imm => \E j \in DOMAIN recv_wcs : recv_wcs[j].id = id
  /\ \A i \in DOMAIN recv_wcs :
       \A k \in 0..(posted[recv_wcs[i].id].payloads - 1) :
         [id |-> recv_wcs[i].id, index |-> k] \in copied

\* A successful CQE proves that every earlier WR of the SQ is finished, although
\* error responses and local errors overtake WRs that are still being copied.
SuccessProvesEarlier ==
  \A i \in DOMAIN send_wcs :
    send_wcs[i].status = "success" => 1..(send_wcs[i].id - 1) \subseteq finished

\* Backpressure loses nothing: a WR that has left the SQ and is not finished is
\* in flight, and somewhere between the two workers something still stands for it,
\* while every queue keeps within its capacity.
NothingLost ==
  /\ TypeOK
  /\ \A id \in 1..sq_head : id \in finished \cup requester_inflight
  /\ \A id \in requester_inflight \ {sq_head + 1} :
       \/ id \in DOMAIN responder_inflight
       \/ id \in {pending_request.id, pending_response.id}
       \/ \E m \in TaskSet(requests) \cup TaskSet(responses) : m.id = id

\* A payload is submitted to the backend while its result is open, and never
\* again: neither a full backend nor a full pending array makes the responder
\* repeat a copy or start one for a parent that has been answered.
NoRepeatedCopy ==
  [][\A task \in running' \ running :
       /\ task.id \in DOMAIN responder_inflight
       /\ responder_inflight[task.id].results[task.index] = "open"
       /\ \A i \in DOMAIN completions :
            <<completions[i].id, completions[i].index>> # <<task.id, task.index>>]_vars

\* Every posted WR is eventually finished: no full queue, missing receive,
\* blocked head of line or lost wakeup stalls the pair for ever.
EventuallyFinished ==
  \A id \in 1..MaxWrs : id <= Len(posted) ~> id \in finished

\* Send CQEs appear in the order the WRs were posted.
SendCompletionsInOrder ==
  \A i, j \in DOMAIN send_wcs : i < j => send_wcs[i].id < send_wcs[j].id
=============================================================================
