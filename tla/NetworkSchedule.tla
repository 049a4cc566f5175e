--------------------------- MODULE NetworkSchedule ---------------------------
(***************************************************************************)
(* When the core of sdk/pb-runtime/src/pb_runtime.c uses the network: its  *)
(* deadlines, which are words of the tick counter and wrap with it, and    *)
(* the Wi-Fi state that the event task of apps/pb-runtime/main/main.c      *)
(* shares with it through an event bit and two flags without a lock.       *)
(*                                                                         *)
(* A deadline of 0 stands for "now".  The core reads the counter once per  *)
(* iteration, and again for a completed gesture.                           *)
(***************************************************************************)
EXTENDS Integers, Sequences

CONSTANTS TickRange,      \* values of the tick counter, 2^32 on the device
          PollInterval,   \* poll_interval_ms in ticks
          RetryInterval,  \* PB_EVENT_RETRY_INTERVAL_MS
          ShortDelay,     \* the second after which a full queue is tried again
          MaxLag          \* bound: ticks that one iteration of the loop takes

ASSUME ScheduleAssumption ==
  /\ TickRange \in Nat \ {0} /\ TickRange % 2 = 0
  /\ PollInterval \in 1..(TickRange \div 2 - 1)
  /\ RetryInterval \in 1..(TickRange \div 2 - 1)
  /\ ShortDelay \in 1..(TickRange \div 2 - 1)
  /\ MaxLag \in Nat

VARIABLES
  pc,            \* stage of the loop
  clock,         \* xTaskGetTickCount
  lag,           \* ticks since the core read it
  poll, retry,   \* next_poll, next_event_retry; left: the ticks that are
                 \* really left until then, for the property
  stateInFlight, eventInFlight,
  backlog,       \* the event queue is not empty
  link,          \* the station: "off", "connecting" or "up"
  wifiEvents,    \* the event loop's queue
  handling,      \* wifi_event_handler has cleared the bit and goes on
  connected,     \* PB_WIFI_CONNECTED_BIT
  had,           \* s_had_wifi_connection
  pending,       \* s_offline_overlay_pending
  unseen         \* history: a loss after which 404 has not been shown

timeVars == <<clock, lag>>
planVars == <<poll, retry, stateInFlight, eventInFlight, backlog>>
wifiVars == <<link, wifiEvents, handling, connected, had>>
vars == <<pc, timeVars, planVars, wifiVars, pending, unseen>>

Now == (clock - lag) % TickRange

At(ticks) == [word |-> (Now + ticks) % TickRange, left |-> ticks - lag]
AtClock(ticks) == [word |-> (clock + ticks) % TickRange, left |-> ticks]
Immediately == [word |-> 0, left |-> -lag]

Deadline == [word : 0..TickRange - 1, left : -TickRange..TickRange]

TypeOK ==
  /\ pc \in {"receive", "offline", "clear", "show", "schedule", "input"}
  /\ clock \in 0..TickRange - 1 /\ lag \in 0..MaxLag
  /\ poll \in Deadline /\ retry \in Deadline
  /\ stateInFlight \in BOOLEAN /\ eventInFlight \in BOOLEAN
  /\ backlog \in BOOLEAN
  /\ link \in {"off", "connecting", "up"}
  /\ wifiEvents \in Seq({"start", "disconnected", "got_ip"})
  /\ handling \in BOOLEAN /\ connected \in BOOLEAN /\ had \in BOOLEAN
  /\ pending \in BOOLEAN /\ unseen \in BOOLEAN

(* The device starts at any time of a counter that has been running. *)
Init ==
  /\ pc = "receive"
  /\ clock \in 0..TickRange - 1 /\ lag = 0
  /\ poll = Immediately /\ retry = Immediately
  /\ stateInFlight = FALSE /\ eventInFlight = FALSE
  /\ backlog \in BOOLEAN
  /\ link = "off" /\ wifiEvents = <<"start">>
  /\ handling = FALSE /\ connected = FALSE /\ had = FALSE
  /\ pending = FALSE /\ unseen = FALSE
-----------------------------------------------------------------------------
ReachedUnsigned(d) == d.word = 0 \/ Now >= d.word

(* A deadline is 0, or the signed difference to it is not negative. *)
Reached(d) == d.word = 0 \/ (Now - d.word) % TickRange < TickRange \div 2

Goto(stage) == pc' = stage /\ UNCHANGED <<wifiVars, timeVars>>

(* receive_transport_results. *)
StateResult ==
  /\ pc = "receive" /\ stateInFlight
  /\ stateInFlight' = FALSE
  /\ UNCHANGED <<pc, timeVars, poll, retry, eventInFlight, backlog, wifiVars,
                 pending, unseen>>

EventFails ==
  /\ pc = "receive" /\ eventInFlight
  /\ eventInFlight' = FALSE
  /\ retry' = At(RetryInterval)
  /\ UNCHANGED <<pc, timeVars, poll, stateInFlight, backlog, wifiVars, pending,
                 unseen>>

EventDelivered ==
  /\ pc = "receive" /\ eventInFlight
  /\ eventInFlight' = FALSE
  /\ backlog' \in BOOLEAN
  /\ retry' = Immediately /\ poll' = Immediately
  /\ UNCHANGED <<pc, timeVars, stateInFlight, wifiVars, pending, unseen>>

ReceiveDone ==
  /\ pc = "receive"
  /\ Goto("offline")
  /\ UNCHANGED <<planVars, pending, unseen>>

(* transport_take_offline_transition: the test, the clearing and what the core
   does then are separate steps. *)
TestPending ==
  /\ pc = "offline"
  /\ Goto(IF pending THEN "clear" ELSE "schedule")
  /\ UNCHANGED <<planVars, pending, unseen>>

ClearPendingIfBack ==
  /\ pc = "clear"
  /\ Goto(IF connected THEN "schedule" ELSE "show")
  /\ pending' = FALSE
  /\ UNCHANGED <<planVars, unseen>>

ClearPending ==
  /\ pc = "clear"
  /\ Goto("show")
  /\ pending' = FALSE
  /\ UNCHANGED <<planVars, unseen>>

(* pb_overlay_show_code of 404. *)
ShowOffline ==
  /\ pc = "show"
  /\ Goto("schedule")
  /\ unseen' = FALSE
  /\ UNCHANGED <<planVars, pending>>

(* poll_timer_and_overlay when the timer finishes; its event may not reach
   the queue. *)
TimerFinishes ==
  /\ pc = "schedule"
  /\ backlog' \in {backlog, TRUE}
  /\ retry' = Immediately
  /\ UNCHANGED <<pc, timeVars, poll, stateInFlight, eventInFlight, wifiVars,
                 pending, unseen>>

(* schedule_network_work.  The worker takes each request or has no room for
   it. *)
EventDue == connected /\ backlog /\ ~eventInFlight /\ Reached(retry)
StateDue == connected /\ ~stateInFlight /\ Reached(poll)

ScheduleNetworkWork(eventRoom, stateRoom) ==
  /\ pc = "schedule"
  /\ Goto("input")
  /\ eventInFlight' = (eventInFlight \/ (EventDue /\ eventRoom))
  /\ retry' = IF EventDue /\ ~eventRoom THEN At(RetryInterval) ELSE retry
  /\ stateInFlight' = (stateInFlight \/ (StateDue /\ stateRoom))
  /\ poll' = IF ~StateDue THEN poll
             ELSE At(IF stateRoom THEN PollInterval ELSE ShortDelay)
  /\ UNCHANGED <<backlog, pending, unseen>>

NextIteration == pc' = "receive" /\ lag' = 0 /\ UNCHANGED <<clock, wifiVars>>

NoInput ==
  /\ pc = "input"
  /\ NextIteration
  /\ UNCHANGED <<planVars, pending, unseen>>

(* A completed gesture; with a binding it tries to queue an event. *)
Gesture(event) ==
  /\ pc = "input"
  /\ NextIteration
  /\ poll' = AtClock(PollInterval)
  /\ backlog' \in {backlog, backlog \/ event}
  /\ retry' = IF event THEN Immediately ELSE retry
  /\ UNCHANGED <<stateInFlight, eventInFlight, pending, unseen>>

Core ==
  \/ StateResult \/ EventFails \/ EventDelivered \/ ReceiveDone
  \/ TestPending \/ ClearPending \/ ShowOffline
  \/ TimerFinishes
  \/ \E eventRoom, stateRoom \in BOOLEAN :
       ScheduleNetworkWork(eventRoom, stateRoom)
  \/ NoInput \/ \E event \in BOOLEAN : Gesture(event)
-----------------------------------------------------------------------------
(* What is past by more than half the range is not told apart. *)
Nearer(d) ==
  [d EXCEPT !.left = IF @ <= -(TickRange \div 2) - MaxLag THEN @ ELSE @ - 1]

Tick ==
  /\ lag < MaxLag
  /\ clock' = (clock + 1) % TickRange /\ lag' = lag + 1
  /\ poll' = Nearer(poll) /\ retry' = Nearer(retry)
  /\ UNCHANGED <<pc, stateInFlight, eventInFlight, backlog, wifiVars, pending,
                 unseen>>

coreVars == <<pc, timeVars, planVars>>

(* The station: esp_wifi_connect ends in an address or in a disconnection,
   and a connection may be lost. *)
Associates ==
  /\ link = "connecting"
  /\ link' = "up" /\ wifiEvents' = Append(wifiEvents, "got_ip")
  /\ UNCHANGED <<coreVars, handling, connected, had, pending, unseen>>

LinkLost ==
  /\ link # "off"
  /\ link' = "off" /\ wifiEvents' = Append(wifiEvents, "disconnected")
  /\ unseen' = (unseen \/ link = "up")
  /\ UNCHANGED <<coreVars, handling, connected, had, pending>>

(* wifi_event_handler. *)
Started ==
  /\ wifiEvents # <<>> /\ Head(wifiEvents) = "start"
  /\ wifiEvents' = Tail(wifiEvents)
  /\ link' = "connecting"
  /\ UNCHANGED <<coreVars, handling, connected, had, pending, unseen>>

GotIp ==
  /\ wifiEvents # <<>> /\ Head(wifiEvents) = "got_ip"
  /\ wifiEvents' = Tail(wifiEvents)
  /\ had' = TRUE /\ connected' = TRUE
  /\ UNCHANGED <<coreVars, link, handling, pending, unseen>>

ClearBit ==
  /\ ~handling
  /\ wifiEvents # <<>> /\ Head(wifiEvents) = "disconnected"
  /\ connected' = FALSE
  /\ handling' = TRUE
  /\ UNCHANGED <<coreVars, link, wifiEvents, had, pending, unseen>>

NoteLoss ==
  /\ handling
  /\ wifiEvents' = Tail(wifiEvents) /\ handling' = FALSE
  /\ pending' = (pending \/ had) /\ had' = FALSE
  /\ link' = "connecting"
  /\ UNCHANGED <<coreVars, connected, unseen>>

EventTask == Started \/ GotIp \/ ClearBit \/ NoteLoss

Next == Core \/ Tick \/ Associates \/ LinkLost \/ EventTask

Spec == Init /\ [][Next]_vars
-----------------------------------------------------------------------------
ReallyReached(d) == d.left + lag <= 0

(* The core takes a deadline for reached exactly when it is, across any number
   of wraps of the counter, except that the word 0 is read as "now" and that
   half the range after it a deadline looks like a future one
   (pb_runtime.c:383,400). *)
DecidesByTrueTime ==
  pc = "schedule" =>
    \A d \in {poll, retry} :
      \/ Reached(d) <=> ReallyReached(d)
      \/ d.word = 0
      \/ d.left + lag <= -(TickRange \div 2)

(* The handler has yet to note the loss of a connection. *)
LossToBeNoted ==
  \E i \in DOMAIN wifiEvents :
    /\ wifiEvents[i] = "disconnected"
    /\ had \/ \E j \in 1..i - 1 : wifiEvents[j] = "got_ip"

(* A lost connection is not forgotten before 404 has been shown for it: it is
   with the handler, in the flag or with the core that has taken the flag,
   however the handler's steps fall between the core's test and clearing, and
   also when the connection is back by then
   (main.c:37-40,142-145, docs/pb-app-protocol-v2.md:127). *)
LossRemembered == unseen => LossToBeNoted \/ pending \/ pc \in {"clear", "show"}
=============================================================================
