----------------------------- MODULE LocalTimer -----------------------------
(***************************************************************************)
(* The local timer of sdk/pb-runtime/src/pb_timer.c.  Time runs in units,  *)
(* UnitsPerSecond of them to a second (1000000 on the device); the timer   *)
(* holds the units left until its deadline instead of the deadline, and    *)
(* nothing below zero, which the code does not tell from zero.             *)
(***************************************************************************)
EXTENDS Integers

CONSTANT UnitsPerSecond

ASSUME TimerAssumption == UnitsPerSecond \in Nat \ {0}

VARIABLES
  timer,       \* pb_local_timer_t; default is config.default_seconds, 0 when
               \* the timer is not enabled
  ran,         \* history: units this timer has run until its deadline
  pauses       \* history: how often it was paused

timerVars == <<timer, ran, pauses>>

Timer == [status : {"ready", "running", "paused"}, default : Nat,
          duration : Nat, left : Nat, paused : Nat]

(* pb_timer_init. *)
Zeroed == [status |-> "ready", default |-> 0, duration |-> 0, left |-> 0,
           paused |-> 0]

TimerInit == timer = Zeroed /\ ran = 0 /\ pauses = 0

Enabled == timer.default > 0

SecondsRoundedDown(units) == units \div UnitsPerSecond

(* A second that has begun counts as a whole one. *)
Seconds(units) == (units + UnitsPerSecond - 1) \div UnitsPerSecond

(* pb_timer_remaining_seconds. *)
Remaining(t) ==
  CASE t.status = "ready"   -> 0
    [] t.status = "running" -> Seconds(t.left)
    [] t.status = "paused"  -> t.paused
-----------------------------------------------------------------------------
(* pb_timer_init for another App, then pb_timer_configure. *)
ReplaceTimer(default) ==
  /\ timer' = [Zeroed EXCEPT !.default = default]
  /\ ran' = 0 /\ pauses' = 0

(* pb_timer_configure: a timer that goes on running keeps its duration. *)
ConfigureTimer(default) ==
  IF default = 0 THEN ReplaceTimer(0)
  ELSE timer' = [timer EXCEPT !.default = default] /\ UNCHANGED <<ran, pauses>>

(* pb_timer_toggle and the event it returns.  A paused timer does not read its
   deadline. *)
StartTimer ==
  /\ timer.status = "ready"
  /\ timer' = [timer EXCEPT !.status = "running", !.duration = timer.default,
                            !.left = timer.default * UnitsPerSecond]
  /\ ran' = 0 /\ pauses' = 0

PauseTimer ==
  /\ timer.status = "running"
  /\ timer' = [timer EXCEPT !.status = "paused", !.paused = Remaining(timer),
                            !.left = 0]
  /\ pauses' = pauses + 1
  /\ UNCHANGED ran

ResumeTimer ==
  /\ timer.status = "paused"
  /\ timer' = [timer EXCEPT !.status = "running",
                            !.left = timer.paused * UnitsPerSecond]
  /\ UNCHANGED <<ran, pauses>>

ToggleTimer(event) ==
  /\ Enabled
  /\ \/ event = "started" /\ StartTimer
     \/ event = "paused" /\ PauseTimer
     \/ event = "resumed" /\ ResumeTimer

(* pb_timer_poll_finished when it returns true. *)
FinishTimer ==
  /\ timer.status = "running"
  /\ Remaining(timer) = 0
  /\ timer' = [timer EXCEPT !.status = "ready", !.paused = 0, !.left = 0]
  /\ UNCHANGED <<ran, pauses>>

(* A unit of time passes for a timer that runs. *)
PassUnit ==
  /\ timer.status = "running" /\ timer.left > 0
  /\ timer' = [timer EXCEPT !.left = @ - 1]
  /\ ran' = ran + 1
  /\ UNCHANGED pauses

TimerStep ==
  \/ \E default \in Nat : ReplaceTimer(default) \/ ConfigureTimer(default)
  \/ \E event \in {"started", "paused", "resumed"} : ToggleTimer(event)
  \/ FinishTimer
  \/ PassUnit

TimerSpec == TimerInit /\ [][TimerStep]_timerVars
-----------------------------------------------------------------------------
TimerTypeOK == timer \in Timer /\ ran \in Nat /\ pauses \in Nat

(* What a timer still has to run when it runs on from now. *)
UnitsToRun ==
  IF timer.status = "paused" THEN timer.paused * UnitsPerSecond ELSE timer.left

(* However often a timer is paused, it never ends early, and every pause
   prolongs it by less than a second; what it reports as remaining is never
   more than its duration, which pb_event_make_timer and the receiver of the
   event require (pb_timer.c:79, pb_event_queue.c:484, conformance.py:245). *)
TimerKeepsTime ==
  timer.status # "ready" =>
    /\ timer.duration > 0
    /\ ran + UnitsToRun >= timer.duration * UnitsPerSecond
    /\ ran + UnitsToRun <= timer.duration * UnitsPerSecond
                             + pauses * (UnitsPerSecond - 1)
    /\ Remaining(timer) <= timer.duration
=============================================================================
