---------------------------- MODULE NetworkWorker ----------------------------
(***************************************************************************)
(* The network worker (apps/pb-runtime/main/pb_network_worker.c): one task *)
(* takes a request from a bounded FreeRTOS queue, performs the blocking    *)
(* HTTP exchange and puts the outcome on a bounded result queue.  The core *)
(* task posts requests without waiting and reads results without waiting;  *)
(* the worker waits for room in the result queue.                          *)
(***************************************************************************)
EXTENDS Naturals, Sequences

CONSTANT QueueLength   \* PB_NETWORK_QUEUE_LENGTH, 4 in the code

ASSUME QueueLengthAssumption == QueueLength \in Nat /\ QueueLength >= 2

VARIABLES requests,    \* s_request_queue
          worker,      \* <<>>, or <<r>> while the exchange of request r runs
          results      \* s_result_queue

workerVars == <<requests, worker, results>>

(* A state request carries no event; its id is 0. *)
StateRequest == [type |-> "state", id |-> 0]
EventRequest(e) == [type |-> "event", id |-> e]

Request == [type : {"state", "event"}, id : Nat]
Result == [type : {"state", "event"}, id : Nat, ok : BOOLEAN]

WorkerInit == requests = <<>> /\ worker = <<>> /\ results = <<>>

(* Room for n more requests: xQueueSend with no wait succeeds. *)
RoomFor(n) == Len(requests) + n <= QueueLength

TakeRequest ==
  /\ worker = <<>>
  /\ requests # <<>>
  /\ worker' = <<Head(requests)>>
  /\ requests' = Tail(requests)
  /\ UNCHANGED results

(* The exchange ends with success or an error and the result is queued. *)
FinishRequest(ok) ==
  /\ worker # <<>>
  /\ Len(results) < QueueLength
  /\ results' = Append(results, [type |-> worker[1].type,
                                 id |-> worker[1].id, ok |-> ok])
  /\ worker' = <<>>
  /\ UNCHANGED requests
=============================================================================
