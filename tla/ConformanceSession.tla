-------------------------- MODULE ConformanceSession --------------------------
(***************************************************************************)
(* A device in a session with the conformance server: the App binding and  *)
(* the local timer of the core (pb_runtime.c, pb_binding.c, pb_timer.c),   *)
(* the events it makes, the HTTP client (pb_cloud.c) and the server        *)
(* (conformance.py) with its commands and faults.                          *)
(*                                                                         *)
(* The worker has one exchange at a time.  Its sender may give up at any   *)
(* point; the server may still serve the request later, or never.  Adding  *)
(* to the queue may fail; storing the binding is the subject of            *)
(* RuntimeCore.                                                            *)
(***************************************************************************)
EXTENDS LocalTimer, ConformanceServer, CloudClient

CONSTANTS MaxEvents,     \* bound: events that reach the queue
          MaxPauses,     \* bound: pauses of one timer
          MaxResets,     \* bound: resets of the server
          MaxLate,       \* bound: requests that are still to be served late
          ReplySizes     \* sizes of the answers, in pieces

ASSUME SessionAssumption ==
  /\ MaxEvents \in Nat /\ MaxPauses \in Nat /\ MaxResets \in Nat
  /\ MaxLate \in Nat
  /\ ReplySizes \subseteq Nat \ {0}

VARIABLES
  binding,     \* the binding of the device; NoBinding: none yet.  genuine,
               \* epoch: history, as in the answer it was made from
  queue,       \* the event queue
  made,        \* number of events that have reached the queue
  exchange,    \* what the worker does
  late         \* requests whose sender has given up, not served yet

deviceVars == <<binding, queue, made, timerVars>>
wireVars == <<exchange, late>>
vars == <<deviceVars, wireVars, serverVars>>

NoBinding ==
  [revision |-> -1, app |-> TimerApp, genuine |-> TRUE, epoch |-> 0]

Bound == binding # NoBinding

Idle == [phase |-> "idle"]
Asked(kind, e) == [phase |-> "asked", kind |-> kind, event |-> e]
NoEvent == [id |-> 0]

Init ==
  /\ ServerInit
  /\ TimerInit
  /\ binding = NoBinding
  /\ queue = <<>> /\ made = 0
  /\ exchange = Idle /\ late = {}
-----------------------------------------------------------------------------
(* Keys and time. *)

(* what: "timer", "primary" or "primary_long". *)
Event(what, duration, remaining) ==
  [id |-> made + 1, what |-> what,
   app |-> binding.app, revision |-> binding.revision,
   duration |-> duration, remaining |-> remaining,
   genuine |-> binding.genuine, epoch |-> binding.epoch]

(* enqueue_action_event, enqueue_timer_event: a failure is only logged; a
   device without a binding makes no events. *)
Enqueue(e, queued) ==
  IF queued
  THEN /\ Bound /\ made < MaxEvents
       /\ queue' = Append(queue, e)
       /\ made' = made + 1
  ELSE UNCHANGED <<queue, made>>

(* handle_primary_input for a completed short press. *)
ShortPressTogglesTimer(event, queued) ==
  /\ event = "paused" => pauses < MaxPauses
  /\ ToggleTimer(event)
  /\ Enqueue(Event("timer", timer'.duration, Remaining(timer')), queued)
  /\ UNCHANGED <<binding, wireVars, serverVars>>

ShortPressActs(queued) ==
  /\ ~Enabled
  /\ Enqueue(Event("primary", 0, 0), queued)
  /\ UNCHANGED <<binding, timerVars, wireVars, serverVars>>

LongPressActs(queued) ==
  /\ timer.status # "running"
  /\ Enqueue(Event("primary_long", 0, 0), queued)
  /\ UNCHANGED <<binding, timerVars, wireVars, serverVars>>

(* poll_timer_and_overlay. *)
TimerFinishes(queued) ==
  /\ FinishTimer
  /\ Enqueue(Event("timer", timer.duration, 0), queued)
  /\ UNCHANGED <<binding, wireVars, serverVars>>

TimePasses ==
  /\ PassUnit
  /\ UNCHANGED <<binding, queue, made, wireVars, serverVars>>
-----------------------------------------------------------------------------
(* The worker. *)

FetchState ==
  /\ exchange = Idle
  /\ exchange' = Asked("state", NoEvent)
  /\ UNCHANGED <<late, deviceVars, serverVars>>

PostEvent ==
  /\ exchange = Idle /\ queue # <<>>
  /\ exchange' = Asked("event", Head(queue))
  /\ UNCHANGED <<late, deviceVars, serverVars>>

Serve(kind, e) == IF kind = "state" THEN ServeState ELSE ServeEvent(e)

Answer(kind, e) == IF kind = "state" THEN StateAnswer ELSE EventAnswer(e)

ResultsOf == [size \in ReplySizes |->
                [status \in {"2xx", "error"} |-> Results(size, status)]]

(* The server answers and the answer arrives, in whatever chunks, or breaks
   off; a result waits until the core takes it. *)
ServerAnswers ==
  /\ exchange.phase = "asked"
  /\ Serve(exchange.kind, exchange.event)
  /\ LET answer == Answer(exchange.kind, exchange.event)
     IN  \E size \in ReplySizes :
           \E result \in ResultsOf[size][answer.status] :
             exchange' = IF result.ok
                         THEN [phase |-> "done", kind |-> exchange.kind,
                               answer |-> answer, whole |-> result.whole]
                         ELSE Idle
  /\ UNCHANGED <<late, deviceVars>>

ServerServesLate(r) ==
  /\ Serve(r.kind, r.event)
  /\ late' = late \ {r}
  /\ UNCHANGED <<exchange, deviceVars>>

(* No connection, a timeout or a delivery that is switched off; the request
   may be on its way or lost. *)
GiveUp(underway) ==
  /\ exchange.phase = "asked"
  /\ exchange' = Idle
  /\ late' = IF underway THEN late \cup {exchange} ELSE late
  /\ Cardinality(late') <= MaxLate
  /\ UNCHANGED <<deviceVars, serverVars>>
-----------------------------------------------------------------------------
(* receive_transport_results of the core. *)

Adopt(answer) ==
  /\ binding' = [revision |-> answer.revision, app |-> answer.app,
                 genuine |-> answer.genuine, epoch |-> answer.epoch]
  /\ IF Bound /\ answer.app = binding.app
     THEN ConfigureTimer(TimerOf(answer.app))
     ELSE ReplaceTimer(TimerOf(answer.app))

(* apply_state: an older state and one of the same revision, equal or in
   conflict, change nothing. *)
HandleStateResult ==
  /\ exchange.phase = "done" /\ exchange.kind = "state"
  /\ IF ~Bound \/ exchange.answer.revision > binding.revision
     THEN Adopt(exchange.answer)
     ELSE UNCHANGED <<binding, timerVars>>
  /\ exchange' = Idle
  /\ UNCHANGED <<queue, made, late, serverVars>>

(* handle_event_result: the acknowledged event is the head; it stays if its
   removal cannot be stored. *)
HandleEventResult(removed) ==
  /\ exchange.phase = "done" /\ exchange.kind = "event"
  /\ queue' = IF removed THEN Tail(queue) ELSE queue
  /\ exchange' = Idle
  /\ UNCHANGED <<binding, made, timerVars, late, serverVars>>

(* Power failure and restart: binding and queue are in flash.  A request is
   given up before. *)
Reboot ==
  /\ exchange.phase # "asked"
  /\ exchange' = Idle
  /\ ReplaceTimer(IF Bound THEN TimerOf(binding.app) ELSE 0)
  /\ UNCHANGED <<binding, queue, made, late, serverVars>>

IssueCommand ==
  /\ Command
  /\ epoch' <= MaxResets
  /\ UNCHANGED <<deviceVars, wireVars>>

Device ==
  \/ \E queued \in BOOLEAN :
       \/ \E event \in {"started", "paused", "resumed"} :
            ShortPressTogglesTimer(event, queued)
       \/ ShortPressActs(queued) \/ LongPressActs(queued)
       \/ TimerFinishes(queued)
  \/ TimePasses
  \/ FetchState \/ PostEvent
  \/ \E underway \in BOOLEAN : GiveUp(underway)
  \/ HandleStateResult \/ \E removed \in BOOLEAN : HandleEventResult(removed)
  \/ Reboot

Next ==
  \/ Device
  \/ ServerAnswers \/ \E r \in late : ServerServesLate(r)
  \/ IssueCommand

Spec == Init /\ [][Next]_vars
-----------------------------------------------------------------------------
(* Whatever the session does, the server accepts a pending event: its App and
   revision agree with the history, also when the App was switched while the
   event waited, and its remaining time with its duration.  Not promised for
   events made under a state of before a reset or under one that the stale
   fault had given another revision (pb_event_queue.c:494-515,
   conformance.py:228-247). *)
EventsAcceptable ==
  \A i \in DOMAIN queue :
    queue[i].genuine /\ queue[i].epoch = epoch => Valid(queue[i])

(* Nothing that lacks a piece of the answer becomes a state or an
   acknowledgement: not a transfer that was closed early, not one that
   overflowed the buffer and went on (pb_cloud.c:38,122-128). *)
OnlyWholeReplies == exchange.phase = "done" => exchange.whole
-----------------------------------------------------------------------------
(* Device and server together are an outbox, like the event path of
   EventDelivery with its cloud. *)
Undelivered ==
  IF queue # <<>> /\ Head(queue).id \in Range(accepted) THEN Tail(queue) ELSE queue

Pending == [i \in DOMAIN Undelivered |-> Undelivered[i].id]

AbstractOutbox ==
  INSTANCE Outbox WITH Events <- 1..MaxEvents, pending <- Pending,
                       tentative <- <<>>, delivered <- accepted

(* The server's list of acceptances grows by one event at a time, in the order
   in which they were made, without a gap and with none twice: also when they
   are sent again or served late, and after a reset that makes the server
   forget their ids (conformance.py:90-102, :164-194;
   pb_event_queue.c:494-515). *)
ImplementsOutbox == AbstractOutbox!Spec
=============================================================================
