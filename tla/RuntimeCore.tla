----------------------------- MODULE RuntimeCore -----------------------------
(***************************************************************************)
(* The core task of the runtime (sdk/pb-runtime/src/pb_runtime.c) with the *)
(* binding (pb_binding.c), the local timer (pb_timer.c), the overlay       *)
(* (pb_overlay.c) and the view (pb_view.c): which App the device runs,     *)
(* what the panel shows and which events a key makes.                      *)
(*                                                                         *)
(* Published lists the states the cloud publishes, in that order; a state  *)
(* stands for its index, 0 for no binding.  A reply may carry any state    *)
(* published before, so the core sees new, repeated, stale and conflicting *)
(* ones.  Time passes in ticks, one tick being what the panel can show of  *)
(* a timer, a minute; the timer and the overlay hold the ticks left until  *)
(* their deadline.  EventDelivery has what becomes of an event.            *)
(***************************************************************************)
EXTENDS Integers, Sequences

CONSTANTS Published,      \* the states of the cloud
          OfflineTicks,   \* offline_overlay_ms
          KeyQueueLength, \* length of the driver's queue of key events
          RenderMayFail   \* may the panel refuse to draw?

(* timer: default duration, 0 when disabled; overlay: duration, 0 for none. *)
State == [revision : Nat, app : STRING, view : Nat, timer : Nat, overlay : Nat]

ASSUME CoreAssumption ==
  /\ Published \in Seq(State)
  /\ OfflineTicks \in Nat \ {0}
  /\ KeyQueueLength \in Nat \ {0}
  /\ RenderMayFail \in BOOLEAN

VARIABLES
  pc,            \* stage of the loop, "boot" or "off"
  binding,       \* the binding of pb_runtime_context_t, 0 if !has_binding
  dirty,         \* binding_store_dirty
  storeWait,     \* next_binding_store_retry lies in the future
  stored,        \* the binding in flash
  timer,         \* pb_local_timer_t
  overlay,       \* pb_overlay_t
  panel,         \* what the panel shows
  pressed,       \* primary_pressed
  pressedIn,     \* history: the binding when the core saw that press
  startedIn,     \* history: the binding when the timer was started
  keys,          \* the driver's queue of key events
  down,          \* the key is held
  request,       \* the state request: "none", "posted" or "answered"
  answer,        \* the state it was answered with, 0 for an error
  published,     \* the state the cloud has
  kept           \* history: the revision that the device last took for stored

coreVars == <<binding, dirty, storeWait, stored, timer, overlay, panel,
              pressed, pressedIn, startedIn>>
keyVars == <<keys, down>>
netVars == <<request, answer, published>>
moving == <<pc, coreVars, keyVars, netVars>>
vars == <<moving, kept>>

Loop == {"receive", "offline", "dirty", "timer", "schedule", "input"}
Bindings == 0..Len(Published)

Unset == -1              \* last_displayed_minutes is UINT32_MAX

TimerInit == [status |-> "ready", left |-> 0, duration |-> 0, shown |-> 0]
OverlayInit == [active |-> FALSE, left |-> 0]

TimerActive(t) == t.status # "ready"
Enabled(b) == b # 0 /\ Published[b].timer > 0
App(b) == Published[b].app

(* What the panel shows: a code, the view of a binding, or that view with the
   minutes of the timer in it, which blink while it is paused. *)
Code == [kind |-> "code", of |-> 0, minutes |-> 0, blink |-> FALSE]
ViewFrame(b) == [kind |-> "view", of |-> b, minutes |-> 0, blink |-> FALSE]
TimerFrame(b, t, minutes) == [kind |-> "timer", of |-> b, minutes |-> minutes,
                              blink |-> t.status = "paused"]

TypeOK ==
  /\ pc \in Loop \cup {"off", "boot"}
  /\ binding \in Bindings /\ stored \in Bindings /\ published \in Bindings
  /\ dirty \in BOOLEAN /\ storeWait \in BOOLEAN
  /\ timer \in [status : {"ready", "running", "paused"}, left : Nat,
                duration : Nat, shown : Nat \cup {Unset}]
  /\ timer.left <= timer.duration
  /\ overlay \in [active : BOOLEAN, left : Nat]
  /\ panel \in [kind : {"code", "view", "timer"}, of : Bindings,
                minutes : Nat, blink : BOOLEAN]
  /\ pressed \in BOOLEAN /\ pressedIn \in Bindings /\ startedIn \in Bindings
  /\ keys \in Seq([pressed : BOOLEAN, long : BOOLEAN]) /\ down \in BOOLEAN
  /\ request \in {"none", "posted", "answered"} /\ answer \in Bindings
  /\ kept \in Nat

Init ==
  /\ pc = "off"
  /\ binding = 0 /\ dirty = FALSE /\ storeWait = FALSE /\ stored = 0
  /\ timer = TimerInit /\ overlay = OverlayInit /\ panel = Code
  /\ pressed = FALSE /\ pressedIn = 0 /\ startedIn = 0
  /\ keys = <<>> /\ down = FALSE
  /\ request = "none" /\ answer = 0 /\ published = 0
  /\ kept = 0
-----------------------------------------------------------------------------
(* Whether the panel draws, where the code ignores the error. *)
Draws == IF RenderMayFail THEN BOOLEAN ELSE {TRUE}

Draw(frame, drawn) == panel' = IF drawn THEN frame ELSE panel

(* render_current of binding b and timer t: a timer view notes the minutes it
   shows, whether or not the panel draws it. *)
RenderCurrent(b, t, drawn) ==
  IF TimerActive(t)
  THEN /\ Draw(TimerFrame(b, t, t.left), drawn)
       /\ timer' = [t EXCEPT !.shown = t.left]
  ELSE /\ Draw(ViewFrame(b), drawn)
       /\ timer' = t

NoRender(t) == timer' = t /\ UNCHANGED panel

(* pb_overlay_show_code: an overlay that cannot be drawn does not start. *)
ShowCode(ticks, o, drawn) ==
  /\ Draw(Code, drawn)
  /\ overlay' = IF drawn THEN [active |-> TRUE, left |-> ticks] ELSE o
-----------------------------------------------------------------------------
(* pb_binding_store: the write may fail before or after it reached the flash. *)
StoreResults == {"ok", "not_written", "written"}

WriteBinding(b, result) ==
  stored' = IF result = "not_written" THEN stored ELSE b

StoreBindingForgetsFailure(b, result) ==
  /\ WriteBinding(b, result)
  /\ dirty' = FALSE /\ storeWait' = FALSE

(* The store in apply_state and the retry time handle_state_result sets. *)
StoreBinding(b, result) ==
  /\ WriteBinding(b, result)
  /\ dirty' = (result # "ok")
  /\ storeWait' = (dirty' /\ (dirty => storeWait))

(* apply_state ignores a stale state and one of the same revision, equal or in
   conflict with the binding. *)
Adopts(s) ==
  binding # 0 => Published[s].revision > Published[binding].revision

Replaces(s) == binding = 0 \/ App(binding) # App(s)

ConfiguredTimerRunsOn(s) == IF Replaces(s) THEN TimerInit ELSE timer

(* pb_timer_init for a new App, then pb_timer_configure: a state without
   timer stops the timer. *)
ConfiguredTimer(s) ==
  IF Replaces(s) THEN TimerInit
  ELSE IF Enabled(s) THEN timer
  ELSE [timer EXCEPT !.status = "ready", !.left = 0, !.duration = 0]

AdoptState(s, result, drawn) ==
  LET t == ConfiguredTimer(s)
      o == IF Replaces(s) THEN OverlayInit ELSE overlay
  IN  /\ StoreBinding(s, result)
      /\ binding' = s
      /\ IF Published[s].overlay > 0
         THEN ShowCode(Published[s].overlay, o, drawn) /\ timer' = t
         ELSE /\ overlay' = o
              /\ IF o.active THEN NoRender(t) ELSE RenderCurrent(s, t, drawn)

PressSurvives(s) == pressed
PressAfter(s) == pressed /\ ~Replaces(s)

(* handle_state_result; 0 is a failed request. *)
HandleStateResult(s, result, drawn) ==
  IF s # 0 /\ Adopts(s)
  THEN AdoptState(s, result, drawn) /\ pressed' = PressAfter(s)
  ELSE UNCHANGED <<binding, dirty, storeWait, stored, timer, overlay, panel,
                   pressed>>

ReceiveState(result, drawn) ==
  /\ pc = "receive"
  /\ request = "answered"
  /\ request' = "none"
  /\ HandleStateResult(answer, result, drawn)
  /\ UNCHANGED <<pc, pressedIn, startedIn, keyVars, answer, published>>

ReceiveDone ==
  /\ pc = "receive"
  /\ request # "answered"
  /\ pc' = "offline"
  /\ UNCHANGED <<coreVars, keyVars, netVars>>

(* take_offline_transition: the Wi-Fi connection may have been lost. *)
OnlineStill ==
  /\ pc = "offline"
  /\ pc' = "dirty"
  /\ UNCHANGED <<coreVars, keyVars, netVars>>

WentOffline(drawn) ==
  /\ pc = "offline"
  /\ pc' = "dirty"
  /\ ShowCode(OfflineTicks, overlay, drawn)
  /\ UNCHANGED <<binding, dirty, storeWait, stored, timer, pressed, pressedIn,
                 startedIn, keyVars, netVars>>

RetryOnce(result) ==
  /\ dirty /\ ~storeWait
  /\ WriteBinding(binding, result)
  /\ dirty' = FALSE
  /\ storeWait' = FALSE

(* retry_dirty_binding. *)
RetryStore(result) ==
  /\ dirty /\ ~storeWait
  /\ WriteBinding(binding, result)
  /\ dirty' = (result # "ok")
  /\ storeWait' = dirty'

RetryDirtyBinding(result) ==
  /\ pc = "dirty"
  /\ pc' = "timer"
  /\ RetryStore(result)
  /\ UNCHANGED <<binding, timer, overlay, panel, pressed, pressedIn,
                 startedIn, keyVars, netVars>>

BindingNotDue ==
  /\ pc = "dirty"
  /\ ~dirty \/ storeWait
  /\ pc' = "timer"
  /\ UNCHANGED <<coreVars, keyVars, netVars>>
-----------------------------------------------------------------------------
(* poll_timer_and_overlay.  While an overlay is up nothing else is drawn. *)
FinishedWithoutOverlay ==
  timer.status = "running" /\ timer.left = 0 /\ ~overlay.active

Finished == timer.status = "running" /\ timer.left = 0
PolledTimer ==
  IF Finished THEN [timer EXCEPT !.status = "ready", !.shown = Unset]
              ELSE timer

Expired == overlay.active /\ overlay.left = 0

RenderDueWithoutExpiry ==
  /\ ~overlay.active
  /\ Finished \/ (TimerActive(timer) /\ timer.left # timer.shown)

RenderDue ==
  \/ Expired
  \/ ~overlay.active /\ Finished
  \/ ~overlay.active /\ TimerActive(timer) /\ timer.left # timer.shown

PollTimerAndOverlay(drawn) ==
  /\ pc = "timer"
  /\ pc' = "schedule"
  /\ overlay' = [overlay EXCEPT !.active = @ /\ ~Expired]
  /\ IF RenderDue THEN RenderCurrent(binding, PolledTimer, drawn)
                  ELSE NoRender(PolledTimer)
  /\ UNCHANGED <<binding, dirty, storeWait, stored, pressed, pressedIn,
                 startedIn, keyVars, netVars>>

(* schedule_network_work: a state request when online, due and none is in
   flight. *)
RequestState ==
  /\ pc = "schedule"
  /\ pc' = "input"
  /\ request = "none"
  /\ request' = "posted"
  /\ UNCHANGED <<coreVars, keyVars, answer, published>>

RequestNothing ==
  /\ pc = "schedule"
  /\ pc' = "input"
  /\ UNCHANGED <<coreVars, keyVars, netVars>>
-----------------------------------------------------------------------------
(* pb_hal_wait_input_event and handle_primary_input. *)
NoInput ==
  /\ pc = "input"
  /\ keys = <<>>
  /\ pc' = "receive"
  /\ UNCHANGED <<coreVars, keyVars, netVars>>

(* The core takes a key event from the driver. *)
TakeKey ==
  /\ pc = "input"
  /\ keys # <<>>
  /\ pc' = "receive"
  /\ keys' = Tail(keys)
  /\ UNCHANGED <<binding, dirty, storeWait, stored, overlay, down, netVars>>

Press ==
  /\ TakeKey
  /\ Head(keys).pressed
  /\ pressed' = TRUE
  /\ pressedIn' = binding
  /\ UNCHANGED <<timer, panel, startedIn>>

Release ==
  /\ TakeKey
  /\ ~Head(keys).pressed
  /\ pressed' = FALSE
  /\ UNCHANGED pressedIn

ShortPress == pressed /\ ~Head(keys).long

(* A release alone does nothing; a gesture without timer and a long one make
   at most an action event. *)
NoTimerGesture ==
  /\ Release
  /\ ~ShortPress \/ ~Enabled(binding)
  /\ UNCHANGED <<timer, panel, startedIn>>

ToggledTimerWithoutDuration ==
  IF timer.status = "ready"
  THEN [timer EXCEPT !.status = "running", !.left = Published[binding].timer,
                     !.shown = Unset]
  ELSE [timer EXCEPT !.status = IF @ = "running" THEN "paused" ELSE "running",
                     !.shown = Unset]

(* pb_timer_toggle: start, pause or resume. *)
ToggledTimer ==
  IF timer.status = "ready"
  THEN [status |-> "running", left |-> Published[binding].timer,
        duration |-> Published[binding].timer, shown |-> Unset]
  ELSE [timer EXCEPT !.status = IF @ = "running" THEN "paused" ELSE "running",
                     !.shown = Unset]

ToggleTimer(drawn) ==
  /\ Release
  /\ ShortPress /\ Enabled(binding)
  /\ IF overlay.active THEN NoRender(ToggledTimer)
                       ELSE RenderCurrent(binding, ToggledTimer, drawn)
  /\ startedIn' = IF timer.status = "ready" THEN binding ELSE startedIn
-----------------------------------------------------------------------------
(* Power and start.  pb_runtime_init shows the boot overlay while keys are
   already sampled, and runs without a binding when none can be read. *)
PowerOn ==
  /\ pc = "off"
  /\ pc' = "boot"
  /\ UNCHANGED <<coreVars, keyVars, netVars>>

Boot(readable) ==
  /\ pc = "boot"
  /\ pc' = "receive"
  /\ binding' = IF readable THEN stored ELSE 0
  /\ panel' = ViewFrame(binding')
  /\ UNCHANGED <<dirty, storeWait, stored, timer, overlay, pressed, pressedIn,
                 startedIn, keyVars, netVars>>

(* A power failure, or an abort of the start. *)
Crash ==
  /\ pc # "off"
  /\ pc' = "off"
  /\ binding' = 0 /\ dirty' = FALSE /\ storeWait' = FALSE
  /\ timer' = TimerInit /\ overlay' = OverlayInit /\ panel' = Code
  /\ pressed' = FALSE /\ pressedIn' = 0 /\ startedIn' = 0
  /\ keys' = <<>> /\ down' = FALSE
  /\ request' = "none" /\ answer' = 0
  /\ UNCHANGED <<stored, published>>
-----------------------------------------------------------------------------
(* The key, the worker, the cloud and time. *)

(* publish_key_event: a full queue drops its oldest event. *)
KeyMoves(event) ==
  /\ pc # "off"
  /\ keys' = Append(IF Len(keys) < KeyQueueLength THEN keys ELSE Tail(keys),
                    event)
  /\ down' = event.pressed
  /\ UNCHANGED <<pc, coreVars, netVars>>

KeyDown == ~down /\ KeyMoves([pressed |-> TRUE, long |-> FALSE])

(* The sampling times tell whether the key was held for a long press. *)
KeyUp(long) == down /\ KeyMoves([pressed |-> FALSE, long |-> long])

WorkerAnswers(s) ==
  /\ request = "posted"
  /\ s \in 0..published
  /\ request' = "answered"
  /\ answer' = s
  /\ UNCHANGED <<pc, coreVars, keyVars, published>>

CloudPublishes ==
  /\ published < Len(Published)
  /\ published' = published + 1
  /\ UNCHANGED <<pc, coreVars, keyVars, request, answer>>

Later(n) == IF n = 0 THEN 0 ELSE n - 1

Tick ==
  /\ (timer.status = "running" /\ timer.left > 0)
       \/ (overlay.active /\ overlay.left > 0)
  /\ timer' = IF timer.status = "running"
              THEN [timer EXCEPT !.left = Later(@)] ELSE timer
  /\ overlay' = [overlay EXCEPT !.left = Later(@)]
  /\ UNCHANGED <<pc, binding, dirty, storeWait, stored, panel, pressed,
                 pressedIn, startedIn, keyVars, netVars>>

StoreRetryElapses ==
  /\ storeWait
  /\ storeWait' = FALSE
  /\ UNCHANGED <<pc, binding, dirty, stored, timer, overlay, panel, pressed,
                 pressedIn, startedIn, keyVars, netVars>>
-----------------------------------------------------------------------------
LoopStep ==
  \/ \E result \in StoreResults, drawn \in Draws : ReceiveState(result, drawn)
  \/ ReceiveDone
  \/ OnlineStill \/ \E drawn \in Draws : WentOffline(drawn)
  \/ BindingNotDue \/ \E result \in StoreResults : RetryDirtyBinding(result)
  \/ \E drawn \in Draws : PollTimerAndOverlay(drawn)
  \/ RequestState \/ RequestNothing
  \/ NoInput \/ Press \/ NoTimerGesture
  \/ \E drawn \in Draws : ToggleTimer(drawn)

Running == pc \in Loop
Revision(b) == IF b = 0 THEN 0 ELSE Published[b].revision

(* A running device without a store owed takes its binding for stored; one that
   could not read a binding begins anew. *)
Remember == kept' = IF Running' /\ ~dirty' THEN Revision(binding') ELSE kept

Next ==
  /\ \/ LoopStep
     \/ PowerOn \/ \E readable \in BOOLEAN : Boot(readable)
     \/ Crash
     \/ KeyDown \/ \E long \in BOOLEAN : KeyUp(long)
     \/ \E s \in Bindings : WorkerAnswers(s)
     \/ CloudPublishes
     \/ Tick \/ StoreRetryElapses
  /\ Remember

Spec == Init /\ [][Next]_vars

(* The core task is scheduled, time passes and the flash is not broken for
   ever. *)
FairSpec ==
  /\ Spec
  /\ WF_moving(LoopStep) /\ WF_moving(Tick) /\ WF_moving(StoreRetryElapses)
  /\ SF_moving(RetryDirtyBinding("ok"))
-----------------------------------------------------------------------------
(* A state that the device took for stored is never undone: whatever stores
   fail, are tried again or are cut off by the power, and whatever stale states
   arrive, no later start and no adoption makes it run an older revision.  Only
   a start that cannot read the flash begins anew (pb_runtime.c:79-121,323-346,
   517-521; docs/pb-app-protocol-v2.md:45-46). *)
NoDowngrade == [][binding' # 0 => Revision(binding') >= kept]_vars

(* When the core believes its binding stored, a restart finds it
   (pb_runtime.c:114-121). *)
CleanMeansStored == Running /\ binding # 0 /\ ~dirty => stored = binding

(* A timer that runs or is paused was started under the App that is bound,
   which still has a timer (pb_runtime.c:123-128). *)
TimerOfBoundApp ==
  TimerActive(timer) => Enabled(binding) /\ App(startedIn) = App(binding)

(* A press that the core has seen under one App is never completed under
   another (pb_runtime.c:239-241, docs/pb-app-protocol-v2.md:49-50). *)
GestureWithinApp ==
  pressed /\ pressedIn # 0 => binding # 0 /\ App(pressedIn) = App(binding)

(* The panel shows an overlay as long as it is up, and otherwise the timer of
   the App, as far as last_displayed_minutes says, or its view: adoption,
   toggling, finishing and expiry leave nothing stale behind, in any order. *)
PanelShowsState ==
  Running =>
    panel = IF overlay.active THEN Code
            ELSE IF TimerActive(timer)
                 THEN TimerFrame(binding, timer, timer.shown)
            ELSE ViewFrame(binding)

(* An overlay that has expired is off the panel
   (docs/pb-app-protocol-v2.md:129). *)
OverlayLeavesPanel == Running /\ ~overlay.active => panel.kind # "code"

(* A binding that could not be stored is stored in the end, unless the device
   is switched off (pb_runtime.c:323-346). *)
BindingReachesFlash ==
  dirty /\ binding # 0 ~> pc = "off" \/ stored = binding

(* A running timer does not run for ever, whatever overlays, states and key
   presses come in between (pb_runtime.c:348-359). *)
TimerEnds == timer.status = "running" ~> timer.status # "running"
=============================================================================
