------------------------------ MODULE PanelFrame ------------------------------
(***************************************************************************)
(* A render of the HAL (sdk/pb-hal/src/pb_hal_old_panel.c) on either panel *)
(* driver: pb_hal_render makes four calls, each of which may fail and ends *)
(* the render if it does, while the driver's task scans the digits and     *)
(* blinks.  old_panel.c passes every call to the driver of the configured  *)
(* profile, which old_panel_registry.c has found at the start.             *)
(***************************************************************************)
EXTENDS Lp001Frame, Lp003Frame

CONSTANT Presentations    \* what the runtime asks the HAL to show

Presentation == [number : Int, zeroes : BOOLEAN, brightness : 0..100,
                 blink : BOOLEAN, leds : Seq(BOOLEAN)]

ASSUME PresentationAssumption ==
  Presentations \subseteq Presentation /\ Presentations # {}

VARIABLES
  profile,       \* the profile of the firmware
  pc,            \* "off", "idle" or the next call of pb_hal_render
  target,        \* the presentation of the current or last render
  result,        \* the status of the last render
  shownFor       \* history: ticks of the current blink phase, up to Interval

halVars == <<profile, pc, target, result>>
vars == <<driverVars, lp001Vars, control, halVars, shownFor>>

Profiles == {"LP-001", "LP-003"}
Calls == {"digits", "brightness", "blink", "leds"}
Leds == 1                 \* caps.leds of both drivers

NumberOfDigits == IF profile = "LP-001" THEN Lp001Digits ELSE Lp003Digits
Wanted == Digits(target.number, target.zeroes, NumberOfDigits)

Default == CHOOSE p \in Presentations : TRUE

TypeOK ==
  /\ profile \in Profiles
  /\ pc \in Calls \cup {"off", "idle"}
  /\ target \in Presentations
  /\ result \in {"none", "applied", "degraded", "failed"}
  /\ cells \in [1..NumberOfDigits -> Dark..9]
  /\ percent \in 0..100
  /\ blink \in [on : BOOLEAN, visible : BOOLEAN]
  /\ age \in 0..PhaseBound /\ shownFor \in 0..Interval
  /\ led \in BOOLEAN
  /\ Lp001TypeOK /\ Lp003TypeOK

Init ==
  /\ profile \in Profiles
  /\ pc = "off" /\ target = Default /\ result = "none"
  /\ cells = [i \in 1..NumberOfDigits |-> Dark]
  /\ percent = 100 /\ blink = BlinkInit /\ age = 0 /\ led = FALSE
  /\ Lp001Init /\ Lp003Init
  /\ shownFor = 0
-----------------------------------------------------------------------------
(* The start: lp001_init shows zeroes, lp003_init clears the chip, which may
   fail half way and ends the start. *)
DriverStarts ==
  /\ pc = "off"
  /\ percent' = 100 /\ blink' = BlinkInit /\ age' = 0 /\ shownFor' = 0
  /\ UNCHANGED <<profile, target, result, lp001Vars>>

StartLp001 ==
  /\ profile = "LP-001"
  /\ DriverStarts
  /\ Lp001DisplayValue(0, TRUE)
  /\ led' = FALSE
  /\ pc' = "idle"
  /\ UNCHANGED control

StartLp003(n, transfer) ==
  /\ profile = "LP-003"
  /\ DriverStarts
  /\ WriteRam([i \in 1..Lp003Digits |-> Dark], n)
  /\ transfer # "not_sent" => n = Lp003Digits
  /\ Command(100, BlinkInit, transfer)
  /\ led' \in {led, FALSE}
  /\ transfer = "ok" => led' = FALSE
  /\ pc' = IF transfer = "ok" THEN "idle" ELSE "off"

(* Power or program fails; the chip of LP-003 and its LED keep their state
   when only the program restarts. *)
Crash ==
  /\ pc # "off"
  /\ pc' = "off"
  /\ result' = "none"
  /\ scan' = 1 /\ stale' = 0
  /\ glass' = [i \in 1..Lp001Digits |-> Unlit]
  /\ \/ UNCHANGED <<cells, control, led>>
     \/ /\ cells' = [i \in 1..NumberOfDigits |-> Dark]
        /\ control' = [level |-> 0, on |-> FALSE]
        /\ led' = FALSE
  /\ target' = Default
  /\ UNCHANGED <<profile, percent, blink, age, shownFor>>
-----------------------------------------------------------------------------
(* pb_hal_render: validation and the four calls in their order. *)
BeginRender(p) ==
  /\ pc = "idle"
  /\ pc' = "digits"
  /\ target' = p
  /\ result' = "none"
  /\ UNCHANGED <<driverVars, lp001Vars, control, profile, shownFor>>

GoOnIgnoringErrors(call, ok, next) ==
  /\ pc = call
  /\ pc' = next
  /\ UNCHANGED <<result, profile, target, lp001Vars>>

GoOn(call, ok, next) ==
  /\ pc = call
  /\ pc' = IF ok THEN next ELSE "idle"
  /\ result' = IF ok THEN result ELSE "failed"
  /\ UNCHANGED <<profile, target, lp001Vars>>

(* old_panel_display_value. *)
DisplayLp001 ==
  /\ profile = "LP-001"
  /\ GoOn("digits", TRUE, "brightness")
  /\ Lp001DisplayValue(target.number, target.zeroes)
  /\ UNCHANGED <<percent, blink, age, led, control, shownFor>>

DisplayLp003(n, ok) ==
  /\ profile = "LP-003"
  /\ GoOn("digits", ok, "brightness")
  /\ ok => n = Lp003Digits
  /\ WriteRam(Wanted, n)
  /\ UNCHANGED <<percent, blink, age, led, control, shownFor>>

(* old_panel_set_brightness. *)
BrightnessLp001 ==
  /\ profile = "LP-001"
  /\ GoOn("brightness", TRUE, "blink")
  /\ percent' = target.brightness
  /\ UNCHANGED <<cells, blink, age, led, control, shownFor>>

BrightnessLp003(transfer) ==
  /\ profile = "LP-003"
  /\ GoOn("brightness", transfer = "ok", "blink")
  /\ Lp003SetBrightness(target.brightness, transfer)
  /\ UNCHANGED <<cells, blink, age, led, shownFor>>

(* old_panel_set_blink. *)
BlinkLp001(delay) ==
  /\ profile = "LP-001"
  /\ GoOn("blink", TRUE, "leds")
  /\ Lp001SetBlink(target.blink, delay)
  /\ shownFor' = 0
  /\ UNCHANGED <<cells, percent, led, control>>

BlinkLp003(transfer) ==
  /\ profile = "LP-003"
  /\ GoOn("blink", transfer = "ok", "leds")
  /\ Lp003SetBlink(target.blink, transfer)
  /\ shownFor' = 0
  /\ UNCHANGED <<cells, percent, led>>

(* old_panel_set_led, and the status of the whole. *)
WantedLed == Len(target.leds) >= Leds /\ target.leds[Leds]

SetLed(switched, ok) ==
  /\ pc = "leds"
  /\ ok => switched
  /\ profile = "LP-001" => ok
  /\ led' = IF switched THEN WantedLed ELSE led
  /\ result' = IF ~ok THEN "failed"
               ELSE IF Len(target.leds) > Leds THEN "degraded" ELSE "applied"
  /\ pc' = "idle"
  /\ UNCHANGED <<cells, percent, blink, age, control, lp001Vars, profile,
                 target, shownFor>>

Render ==
  \/ DisplayLp001
  \/ \E n \in 0..Lp003Digits, ok \in BOOLEAN : DisplayLp003(n, ok)
  \/ BrightnessLp001
  \/ \E transfer \in Transfers : BrightnessLp003(transfer) \/ BlinkLp003(transfer)
  \/ \E delay \in 0..MaxDelay : BlinkLp001(delay)
  \/ \E switched, ok \in BOOLEAN : SetLed(switched, ok)
-----------------------------------------------------------------------------
(* The driver's task and time. *)
PhaseTime == shownFor' = IF blink'.visible = blink.visible THEN shownFor ELSE 0

ScanLp001 ==
  /\ profile = "LP-001" /\ pc # "off"
  /\ Lp001Task
  /\ PhaseTime
  /\ UNCHANGED <<control, halVars>>

PollLp003(transfer) ==
  /\ profile = "LP-003" /\ pc # "off"
  /\ Lp003Task(transfer)
  /\ PhaseTime
  /\ UNCHANGED <<lp001Vars, halVars>>

Tick ==
  /\ pc # "off"
  /\ scan = TurnsPhase => stale < MaxDelay
  /\ age' = SaturatingNext(age, PhaseBound)
  /\ shownFor' = SaturatingNext(shownFor, Interval)
  /\ stale' = IF scan = TurnsPhase THEN stale + 1 ELSE stale
  /\ UNCHANGED <<cells, percent, blink, led, scan, glass, control, halVars>>

Task == ScanLp001 \/ \E transfer \in Transfers : PollLp003(transfer)

Start ==
  \/ StartLp001
  \/ \E n \in 0..Lp003Digits, transfer \in Transfers : StartLp003(n, transfer)

Next ==
  \/ Start \/ Crash
  \/ \E p \in Presentations : BeginRender(p)
  \/ Render
  \/ Task \/ Tick

Spec == Init /\ [][Next]_vars
-----------------------------------------------------------------------------
Succeeded == pc = "idle" /\ result \in {"applied", "degraded"}

(* After a render that reports success the driver and the chip have all of
   it, whatever half of an earlier, failed render they had before: the digits,
   the level, the LED, and a presentation that does not blink is lit although
   it may replace one that blinked in its dark phase
   (pb_hal_old_panel.c:118-162, lp003.c:179-186). *)
AppliedMeansShown ==
  Succeeded =>
    /\ cells = Wanted
    /\ percent = target.brightness
    /\ blink.on = target.blink
    /\ led = WantedLed
    /\ ~target.blink => Visible
    /\ profile = "LP-003" =>
         /\ control.level = Lp003Level(target.brightness)
         /\ ~target.blink => (control.on <=> target.brightness > 0)

(* No blink phase is shorter than the interval by more than the time a task
   takes from reading the clock to using it, except that the scan task of
   LP-001 turns a phase at once which started after it had read the clock
   (lp001.c:620-626, :859; lp003.c:364-372). *)
PhaseHolds ==
  [][(blink.visible # blink'.visible /\ blink'.on /\ pc' = pc /\ pc # "off") =>
       \/ shownFor + MaxDelay >= Interval
       \/ profile = "LP-001" /\ ReadBeforePhase]_vars
-----------------------------------------------------------------------------
(* The driver's task runs, time passes, and a command that is sent again and
   again arrives at some time. *)
Fairness ==
  /\ WF_vars(ScanLp001) /\ WF_vars(Tick)
  /\ WF_vars(\E transfer \in Transfers : PollLp003(transfer))
  /\ SF_vars(PollLp003("ok") /\ blink'.visible)

FairSpec == Spec /\ Fairness

Seen ==
  IF profile = "LP-001" THEN Lp001Shows(Wanted, target.brightness)
                        ELSE Lp003Shows(Wanted, target.brightness)

(* A presentation that was rendered is seen whole, and again and again while
   it stays, also when it blinks and commands fail (lp001.c:613-627,
   lp003.c:364-372). *)
SeenAgain == []<>(~Succeeded \/ Seen)
=============================================================================
