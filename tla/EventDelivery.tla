---------------------------- MODULE EventDelivery ----------------------------
(***************************************************************************)
(* The path of a business event from a key or the timer to the cloud:      *)
(* the core loop of sdk/pb-runtime/src/pb_runtime.c, the persistent queue  *)
(* (EventQueue), the network worker (NetworkWorker), the network and the   *)
(* receiver of POST /events.                                               *)
(*                                                                         *)
(* Event number n is the n-th event the device makes; its number stands    *)
(* for the random event_id.  The worker task and the network interleave    *)
(* with the loop; power may fail between any two steps and every flash     *)
(* write may fail.  A request on the wire may be processed at any later    *)
(* time and more than once, also when its sender has given up or rebooted. *)
(***************************************************************************)
EXTENDS EventQueue, NetworkWorker, Functions

CONSTANTS MaxEvents,       \* bound: events made before the model stops
          Refused          \* events the cloud answers with an HTTP error

ASSUME DeliveryAssumption ==
  /\ MaxEvents \in Nat
  /\ Refused \subseteq Nat

VARIABLES
  pc,              \* stage of the pb_runtime_run loop
  eventInFlight,   \* event_request_in_flight
  stateInFlight,   \* state_request_in_flight
  retryWait,       \* next_event_retry lies in the future
  pollWait,        \* next_poll lies in the future
  online,          \* pb_network_is_online: has an IP address
  created,         \* number of events made so far
  sent,            \* events some POST of which is or was on the wire
  accepted,        \* the cloud's list of events, oldest first
  committed        \* history: events whose enqueue succeeded

loopVars == <<eventInFlight, stateInFlight, retryWait, pollWait>>
cloudVars == <<sent, accepted>>
eventVars == <<queueVars, created, committed>>
vars == <<pc, loopVars, online, cloudVars, eventVars, workerVars>>

Stages == {"receive", "timer", "schedule", "input"}

TypeOK ==
  /\ queue \in Seq(Nat) /\ stored \in Seq(Nat)
  /\ requests \in Seq(Request) /\ worker \in Seq(Request)
  /\ results \in Seq(Result)
  /\ pc \in Stages
  /\ eventInFlight \in BOOLEAN /\ stateInFlight \in BOOLEAN
  /\ retryWait \in BOOLEAN /\ pollWait \in BOOLEAN /\ online \in BOOLEAN
  /\ created \in Nat
  /\ sent \subseteq Nat /\ accepted \in Seq(Nat) /\ committed \subseteq Nat

(* A device out of the box. *)
Init ==
  /\ queue = <<>> /\ stored = <<>>
  /\ WorkerInit
  /\ pc = "receive"
  /\ eventInFlight = FALSE /\ stateInFlight = FALSE
  /\ retryWait = FALSE /\ pollWait = FALSE
  /\ online = FALSE
  /\ created = 0
  /\ sent = {} /\ accepted = <<>> /\ committed = {}
-----------------------------------------------------------------------------
(* receive_transport_results: results are handled until none is left. *)

HandleStateResult(r) ==
  /\ r.type = "state"
  /\ stateInFlight' = FALSE
  /\ UNCHANGED <<eventInFlight, retryWait, pollWait, queueVars>>

(* The acknowledgement that handle_event_result accepts. *)
Acknowledges(r) == r.ok /\ queue # <<>> /\ r.id = Head(queue)

HandleEventResultKeepsFlag(r, result) ==
  /\ r.type = "event"
  /\ eventInFlight' = (eventInFlight /\ ~r.ok)
  /\ IF Acknowledges(r) THEN Pop(result) ELSE UNCHANGED queueVars
  /\ LET removed == Acknowledges(r) /\ result = "ok"
     IN  /\ retryWait' = ~removed
         /\ pollWait' = (pollWait /\ ~removed)
  /\ UNCHANGED stateInFlight

HandleEventResultPopsAlways(r, result) ==
  /\ r.type = "event"
  /\ eventInFlight' = FALSE
  /\ IF queue # <<>> THEN Pop(result) ELSE UNCHANGED queueVars
  /\ retryWait' = ~(r.ok /\ result = "ok")
  /\ UNCHANGED pollWait
  /\ UNCHANGED stateInFlight

HandleEventResultLeavesHead(r, result) ==
  /\ r.type = "event"
  /\ eventInFlight' = FALSE
  /\ retryWait' = ~Acknowledges(r)
  /\ UNCHANGED <<stateInFlight, pollWait, queueVars>>

HandleEventResultPostpones(r, result) ==
  /\ r.type = "event"
  /\ eventInFlight' = FALSE
  /\ IF Acknowledges(r) THEN Pop(result)
     ELSE IF queue # <<>> THEN StoreQueue(Append(Tail(queue), Head(queue)), result)
     ELSE UNCHANGED queueVars
  /\ LET removed == Acknowledges(r) /\ result = "ok"
     IN  /\ retryWait' = ~removed
         /\ pollWait' = (pollWait /\ ~removed)
  /\ UNCHANGED stateInFlight

(* handle_event_result: an error, an acknowledgement that is not the head's
   and a failed removal all schedule a retry; success ends the waits. *)
HandleEventResult(r, result) ==
  /\ r.type = "event"
  /\ eventInFlight' = FALSE
  /\ IF Acknowledges(r) THEN Pop(result) ELSE UNCHANGED queueVars
  /\ LET removed == Acknowledges(r) /\ result = "ok"
     IN  /\ retryWait' = ~removed
         /\ pollWait' = (pollWait /\ ~removed)
  /\ UNCHANGED stateInFlight

ReceiveResult(result) ==
  /\ pc = "receive"
  /\ results # <<>>
  /\ results' = Tail(results)
  /\ \/ HandleStateResult(Head(results))
     \/ HandleEventResult(Head(results), result)
  /\ UNCHANGED <<pc, online, cloudVars, created, committed, requests, worker>>

ReceiveDone ==
  /\ pc = "receive"
  /\ results = <<>>
  /\ pc' = "timer"
  /\ UNCHANGED <<loopVars, online, cloudVars, eventVars, workerVars>>
-----------------------------------------------------------------------------
(* enqueue_timer_event, enqueue_action_event and the assignment of
   next_event_retry their callers make whatever the outcome. *)
MakeEvent(result) ==
  /\ created < MaxEvents
  /\ created' = created + 1
  /\ Enqueue(created + 1, result)
  /\ committed' = committed \cup
                    (IF Enqueued(result) THEN {created + 1} ELSE {})
  /\ retryWait' = FALSE

(* poll_timer_and_overlay. *)
TimerStage ==
  /\ pc = "timer"
  /\ pc' = "schedule"
  /\ UNCHANGED <<loopVars, online, cloudVars, eventVars, workerVars>>

TimerFinished(result) ==
  /\ pc = "timer"
  /\ pc' = "schedule"
  /\ MakeEvent(result)
  /\ UNCHANGED <<eventInFlight, stateInFlight, pollWait, online, cloudVars,
                 workerVars>>
-----------------------------------------------------------------------------
(* schedule_network_work. *)

EventDue == online /\ queue # <<>> /\ ~eventInFlight /\ ~retryWait
StateDueAlways == online /\ ~pollWait
StateDue == online /\ ~stateInFlight /\ ~pollWait

EventPosted == EventDue /\ RoomFor(1)
StatePosted == StateDue /\ RoomFor(IF EventPosted THEN 2 ELSE 1)

(* A request that finds the request queue full is tried again after a delay:
   the waits are set in both cases. *)
Schedule ==
  /\ pc = "schedule"
  /\ pc' = "input"
  /\ requests' = requests
                   \o (IF EventPosted THEN <<EventRequest(Head(queue))>>
                                      ELSE <<>>)
                   \o (IF StatePosted THEN <<StateRequest>> ELSE <<>>)
  /\ eventInFlight' = (eventInFlight \/ EventPosted)
  /\ retryWait' = (retryWait \/ (EventDue /\ ~EventPosted))
  /\ stateInFlight' = (stateInFlight \/ StatePosted)
  /\ pollWait' = (pollWait \/ StateDue)
  /\ UNCHANGED <<online, cloudVars, eventVars, worker, results>>
-----------------------------------------------------------------------------
(* pb_hal_wait_input_event and handle_primary_input.  Nothing happens when no
   key moved, on a press, on a release without a press and on a long press
   while the timer runs.  A completed gesture delays the next poll; it makes
   an event when the device has a binding. *)
InputNothing ==
  /\ pc = "input"
  /\ pc' = "receive"
  /\ UNCHANGED <<loopVars, online, cloudVars, eventVars, workerVars>>

GestureUnbound ==
  /\ pc = "input"
  /\ pc' = "receive"
  /\ pollWait' = TRUE
  /\ UNCHANGED <<eventInFlight, stateInFlight, retryWait, online, cloudVars,
                 eventVars, workerVars>>

Gesture(result) ==
  /\ pc = "input"
  /\ pc' = "receive"
  /\ pollWait' = TRUE
  /\ MakeEvent(result)
  /\ UNCHANGED <<eventInFlight, stateInFlight, online, cloudVars, workerVars>>
-----------------------------------------------------------------------------
(* Time and the Wi-Fi connection. *)

RetryElapses ==
  /\ retryWait
  /\ retryWait' = FALSE
  /\ UNCHANGED <<pc, eventInFlight, stateInFlight, pollWait, online, cloudVars,
                 eventVars, workerVars>>

PollElapses ==
  /\ pollWait
  /\ pollWait' = FALSE
  /\ UNCHANGED <<pc, eventInFlight, stateInFlight, retryWait, online,
                 cloudVars, eventVars, workerVars>>

WifiUp ==
  /\ ~online
  /\ online' = TRUE
  /\ UNCHANGED <<pc, loopVars, cloudVars, eventVars, workerVars>>

WifiDown ==
  /\ online
  /\ online' = FALSE
  /\ UNCHANGED <<pc, loopVars, cloudVars, eventVars, workerVars>>
-----------------------------------------------------------------------------
(* The worker, the wire and the cloud. *)

WorkerTakes ==
  /\ TakeRequest
  /\ sent' = sent \cup
       (IF Head(requests).type = "event" THEN {Head(requests).id} ELSE {})
  /\ UNCHANGED <<pc, loopVars, online, accepted, eventVars>>

CloudProcessesAgain(e) ==
  /\ e \in sent \ Refused
  /\ accepted' = Append(accepted, e)
  /\ Len(accepted) <= MaxEvents
  /\ UNCHANGED <<pc, loopVars, online, sent, eventVars, workerVars>>

(* The receiver of POST /events keeps an event whose id is new and answers a
   known id with the earlier answer. *)
CloudProcesses(e) ==
  /\ e \in sent \ Refused
  /\ accepted' = IF e \in Range(accepted) THEN accepted
                                             ELSE Append(accepted, e)
  /\ UNCHANGED <<pc, loopVars, online, sent, eventVars, workerVars>>

(* Any exchange may end with an error: no connection, a timeout, an HTTP
   error, a reply that was lost or does not parse. *)
WorkerFails ==
  /\ FinishRequest(FALSE)
  /\ UNCHANGED <<pc, loopVars, online, cloudVars, eventVars>>

WorkerSucceedsOnAnyReply ==
  /\ FinishRequest(TRUE)
  /\ UNCHANGED <<pc, loopVars, online, cloudVars, eventVars>>

(* A success reply to an event means that the cloud has it. *)
WorkerSucceeds ==
  /\ FinishRequest(TRUE)
  /\ worker[1].type = "event" => worker[1].id \in Range(accepted)
  /\ UNCHANGED <<pc, loopVars, online, cloudVars, eventVars>>
-----------------------------------------------------------------------------
(* Power failure at any point, and the next start: everything in RAM is
   gone; pb_event_queue_init loads what the flash holds. *)
Restarted ==
  /\ pc' = "receive"
  /\ eventInFlight' = FALSE /\ stateInFlight' = FALSE
  /\ retryWait' = FALSE /\ pollWait' = FALSE
  /\ online' = FALSE
  /\ requests' = <<>> /\ worker' = <<>> /\ results' = <<>>
  /\ UNCHANGED <<created, committed, cloudVars>>

Reboot == Restarted /\ Load
-----------------------------------------------------------------------------
LoopStep ==
  \/ \E result \in StoreResults : ReceiveResult(result)
  \/ ReceiveDone
  \/ TimerStage
  \/ \E result \in StoreResults : TimerFinished(result)
  \/ Schedule
  \/ InputNothing
  \/ GestureUnbound
  \/ \E result \in StoreResults : Gesture(result)

Next ==
  \/ LoopStep
  \/ RetryElapses \/ PollElapses
  \/ WifiUp \/ WifiDown
  \/ WorkerTakes \/ WorkerFails \/ WorkerSucceeds
  \/ \E e \in sent : CloudProcesses(e)
  \/ Reboot

Spec == Init /\ [][Next]_vars
-----------------------------------------------------------------------------
(***************************************************************************)
(* Safety.                                                                 *)
(***************************************************************************)

(* The cloud has every event at most once and in the order the device made
   them, whatever is retried, delayed, duplicated or lost: the in-flight
   flag, head-only removal and the cloud's ids together (pb_runtime.c:256). *)
OnceInOrder ==
  \A i, j \in DOMAIN accepted : i < j => accepted[i] < accepted[j]

(* Nothing overtakes: while an event whose enqueue succeeded is not at the
   cloud, no younger event is, whatever fails, restarts or is refused.  This
   is also the price of it: a head that the cloud refuses for good holds back
   everything behind it (pb_runtime.c:384). *)
NoOvertaking ==
  \A e \in committed \ Range(accepted) : \A a \in Range(accepted) : a < e

(* An event whose enqueue reported success is never lost: it is at the cloud
   or both in the RAM queue and in the flash that a restart loads, or its
   removal from one of them follows its delivery (pb_event_queue.c:414). *)
NoEventLost ==
  \A e \in committed :
    e \in Range(accepted) \/ (e \in Range(queue) /\ e \in Range(stored))

(* Whatever is in the pipe to or from the worker concerns the head of the
   queue, so the "unexpected acknowledgement" branch of handle_event_result
   is never taken (pb_runtime.c:272). *)
PipeIsHead ==
  \A s \in {requests, worker, results} : \A i \in DOMAIN s :
    s[i].type = "event" =>
      eventInFlight /\ queue # <<>> /\ s[i].id = Head(queue)

InPipe(t) ==
  \E s \in {requests, worker, results} : \E i \in DOMAIN s : s[i].type = t

(* An in-flight flag is up exactly while its request or result is in the
   pipe: a flag left up would stop that traffic until the next restart
   (pb_runtime.c:226,261). *)
FlagsMatchPipe ==
  /\ eventInFlight <=> InPipe("event")
  /\ stateInFlight <=> InPipe("state")

(* Pipe, flags and queue agree: what is on its way is the head of the queue,
   and the flags tell exactly what is on its way. *)
PipeAgrees == PipeIsHead /\ FlagsMatchPipe

(* The FreeRTOS queues never fill up: a due request always finds room and
   the worker never waits to deliver a result (pb_network_worker.c:61,120). *)
NoBackpressure ==
  /\ EventDue => EventPosted
  /\ StateDue => StatePosted
  /\ worker # <<>> => Len(results) < QueueLength

(* How far the flash copy can be from the RAM copy: a failed write leaves at
   most one event too many, or the head missing once it has been delivered. *)
FlashTracksRam ==
  \/ stored = queue
  \/ queue # <<>> /\ stored = Tail(queue) /\ Head(queue) \in Range(accepted)
  \/ \E e \in 1..created : stored = Append(queue, e) /\ e \notin committed

(* The queue never grows beyond the array of the blob, also after a restart
   from a flash copy that is ahead of the RAM copy (pb_event_queue.c:419). *)
QueueBounded == Len(queue) <= Capacity /\ Len(stored) <= Capacity

(* A step removes at most the head of the RAM queue, and only once the cloud
   has accepted it (pb_runtime.c:281). *)
RemovedOnlyAfterAccepted ==
  [][\A e \in Range(queue) \ Range(queue') :
        e = Head(queue) /\ e \in Range(accepted)]_vars
-----------------------------------------------------------------------------
(***************************************************************************)
(* The device and the cloud together implement an outbox.                  *)
(***************************************************************************)
HeadDelivered == queue # <<>> /\ Head(queue) \in Range(accepted)

Undelivered == IF HeadDelivered THEN Tail(queue) ELSE queue

Tentative ==
  IF Len(stored) > Len(queue) THEN <<stored[Len(stored)]>> ELSE <<>>

AbstractOutbox ==
  INSTANCE Outbox WITH Events <- 1..MaxEvents, pending <- Undelivered,
                       tentative <- Tentative, delivered <- accepted

(* The event path implements Outbox. *)
ImplementsOutbox == AbstractOutbox!Spec
-----------------------------------------------------------------------------
(***************************************************************************)
(* Liveness.  The loop and the worker run (FreeRTOS schedules both tasks   *)
(* and every HTTP exchange has a timeout), deadlines pass, and a request   *)
(* or a flash write that is tried again and again succeeds at some time.   *)
(***************************************************************************)
Progress ==
  /\ WF_vars(LoopStep)
  /\ WF_vars(WorkerTakes)
  /\ WF_vars(WorkerFails \/ WorkerSucceeds)
  /\ WF_vars(RetryElapses)

Luck ==
  /\ \A e \in 1..MaxEvents : SF_vars(CloudProcesses(e))
  /\ SF_vars(WorkerSucceeds /\ worker[1].type = "event")
  /\ SF_vars(ReceiveResult("ok") /\ Head(results).type = "event"
             /\ Acknowledges(Head(results)))

(* From some time on the power and the Wi-Fi connection hold. *)
Settles ==
  /\ WF_vars(WifiUp)
  /\ <>[][~Reboot /\ ~WifiDown]_vars

FairSpec == Spec /\ Progress

(* A delivery attempt always ends, also when every exchange fails: the flag
   that blocks the next attempt does not stay up for ever
   (pb_runtime.c:261). *)
AttemptEnds == eventInFlight ~> ~eventInFlight

(* Neither it nor an older event is refused. *)
Unhindered(e) == \A r \in Refused : r > e

(* Every event whose enqueue succeeded, and that stands behind no refused one,
   reaches the cloud once the power and the connection hold, through retries
   and restarts (pb_runtime.c:384). *)
EveryEventDelivered ==
  Luck /\ Settles =>
    \A e \in 1..MaxEvents :
      Unhindered(e) => (e \in committed ~> e \in Range(accepted))

(* Acknowledged events do not stay: in the end the queue is empty or stands
   behind a refused head for good (pb_runtime.c:281). *)
QueueDrains ==
  Luck /\ Settles => <>[](queue = <<>> \/ Head(queue) \in Refused)
=============================================================================
