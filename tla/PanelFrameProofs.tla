--------------------------- MODULE PanelFrameProofs ---------------------------
(***************************************************************************)
(* For all presentations, blink intervals and delays: a render that        *)
(* reports success has put all of the presentation on the panel            *)
(* (AppliedMeansShown), and no blink phase is cut short but in the one way *)
(* that PhaseHolds names.                                                  *)
(***************************************************************************)
EXTENDS PanelFrame, TLAPS

(* What a render has done when it has come to a call, and keeps afterwards. *)
DigitsDone == pc \in {"brightness", "blink", "leds"} \/ Succeeded
BrightnessDone == pc \in {"blink", "leds"} \/ Succeeded
BlinkDone == pc = "leds" \/ Succeeded

OnLp003 == profile = "LP-003"

Typed ==
  /\ profile \in Profiles
  /\ pc \in Calls \cup {"off", "idle"}
  /\ pc \in Calls => target \in Presentations
  /\ blink \in [on : BOOLEAN, visible : BOOLEAN]
  /\ age \in Nat /\ shownFor \in Nat /\ stale \in 0..MaxDelay

(* A result is that of the last render since the start. *)
ResultInv == pc # "idle" => result = "none"

DigitsInv == DigitsDone => cells = Wanted

(* The register has the level of the driver's variable once a command of this
   render has got through, and the commands of the blink task keep it. *)
BrightnessInv ==
  BrightnessDone =>
    /\ percent = target.brightness
    /\ OnLp003 => control.level = Lp003Level(target.brightness)

(* Without blinking, the task leaves the register alone. *)
BlinkInv ==
  BlinkDone =>
    /\ blink.on = target.blink
    /\ OnLp003 /\ ~target.blink => (control.on <=> target.brightness > 0)

LedInv == Succeeded => led = WantedLed

(* The phase is not older, for the driver, than it has been shown, but for the
   delay between reading the clock and using it. *)
AgeInv == age <= shownFor + MaxDelay

IInv ==
  /\ Typed /\ ResultInv /\ DigitsInv /\ BrightnessInv /\ BlinkInv /\ LedInv
  /\ AgeInv
-----------------------------------------------------------------------------
LEMMA Delays == Interval \in Nat \ {0} /\ MaxDelay \in 0..Interval
BY DriverAssumption

(* A RAM write that gets through puts the whole of it there. *)
LEMMA WholeRam ==
  ASSUME OnLp003, WriteRam(Wanted, Lp003Digits)
  PROVE  cells' = Wanted
<1>1. NumberOfDigits = 4 /\ Lp003Digits = 4
  BY DEF OnLp003, NumberOfDigits, Lp003Digits, Lp001Digits
<1>2. Wanted = [i \in 1..4 |-> Wanted[i]]
  BY <1>1 DEF Wanted, Digits
<1>3. cells' = [i \in 1..4 |-> IF i <= 4 THEN Wanted[i] ELSE cells[i]]
  BY <1>1 DEF WriteRam
<1>4. \A i \in 1..4 : i <= 4
  OBVIOUS
<1> HIDE DEF Wanted
<1> QED BY <1>2, <1>3, <1>4

(* The register after a command that gets through. *)
LEMMA WholeWord ==
  ASSUME NEW p, NEW b, Command(p, b, "ok")
  PROVE  /\ control'.level = Lp003Level(p)
         /\ control'.on <=> (p > 0 /\ (~b.on \/ b.visible))
BY DEF Command, ControlWord

LEMMA AnyWord ==
  ASSUME NEW p, NEW b, NEW t, Command(p, b, t)
  PROVE  control' = control \/ control'.level = Lp003Level(p)
BY DEF Command, ControlWord

(* What does not touch the frame keeps its part of the invariant. *)
FrameInv == ResultInv /\ DigitsInv /\ BrightnessInv /\ BlinkInv /\ LedInv

LEMMA SameFrame ==
  ASSUME FrameInv,
         UNCHANGED <<cells, percent, led, control, profile, pc, target, result>>,
         blink'.on = blink.on
  PROVE  FrameInv'
<1>1. /\ Wanted' = Wanted /\ WantedLed' = WantedLed /\ Succeeded' = Succeeded
      /\ OnLp003' = OnLp003
  BY DEF Wanted, NumberOfDigits, WantedLed, Succeeded, OnLp003
<1> QED
  BY <1>1 DEF FrameInv, ResultInv, DigitsInv, BrightnessInv, BlinkInv, LedInv,
    DigitsDone, BrightnessDone, BlinkDone
-----------------------------------------------------------------------------
(* Outside a render and without a success nothing is promised. *)
LEMMA NothingDone ==
  ASSUME pc' \in {"off", "idle", "digits"}, result' = "none"
  PROVE  FrameInv'
<1>1. ~Succeeded'
  BY DEF Succeeded
<1> QED
  BY <1>1 DEF FrameInv, ResultInv, DigitsInv, BrightnessInv, BlinkInv, LedInv,
    DigitsDone, BrightnessDone, BlinkDone

(* A call that fails ends the render. *)
LEMMA RenderFails ==
  ASSUME pc' = "idle", result' = "failed"
  PROVE  FrameInv'
<1>1. ~Succeeded'
  BY DEF Succeeded
<1> QED
  BY <1>1 DEF FrameInv, ResultInv, DigitsInv, BrightnessInv, BlinkInv, LedInv,
    DigitsDone, BrightnessDone, BlinkDone

LEMMA GoesOn ==
  ASSUME NEW call \in Calls, NEW ok, NEW next, GoOn(call, ok, next), FrameInv
  PROVE  /\ UNCHANGED <<profile, target>>
         /\ Wanted' = Wanted /\ OnLp003' = OnLp003
         /\ result = "none"
         /\ ok => pc' = next /\ result' = "none"
         /\ ~ok => pc' = "idle" /\ result' = "failed"
BY DEF GoOn, FrameInv, ResultInv, Calls, Wanted, NumberOfDigits, OnLp003

(* pb_hal_old_panel.c:118-162, call by call. *)
LEMMA DisplayFrame ==
  ASSUME FrameInv,
         \/ DisplayLp001
         \/ \E n \in 0..Lp003Digits, ok \in BOOLEAN : DisplayLp003(n, ok)
  PROVE  FrameInv'
<1>1. ASSUME pc' = "brightness", result' = "none", cells' = Wanted'
      PROVE  FrameInv'
  <2>1. ~Succeeded'
    BY <1>1 DEF Succeeded
  <2> QED
    BY <1>1, <2>1 DEF FrameInv, ResultInv, DigitsInv, BrightnessInv, BlinkInv,
      LedInv, DigitsDone, BrightnessDone, BlinkDone
<1>2. CASE DisplayLp001
  <2>1. GoOn("digits", TRUE, "brightness") /\ profile = "LP-001"
    BY <1>2 DEF DisplayLp001
  <2>2. cells' = Wanted
    BY <1>2, <2>1 DEF DisplayLp001, Lp001DisplayValue, Wanted, NumberOfDigits
  <2>3. "digits" \in Calls
    BY DEF Calls
  <2>4. pc' = "brightness" /\ result' = "none" /\ Wanted' = Wanted
    BY <2>1, <2>3, GoesOn
  <2> QED BY <1>1, <2>2, <2>4
<1>3. ASSUME NEW n \in 0..Lp003Digits, NEW ok \in BOOLEAN, DisplayLp003(n, ok)
      PROVE  FrameInv'
  <2>1. GoOn("digits", ok, "brightness") /\ WriteRam(Wanted, n) /\ OnLp003
    BY <1>3 DEF DisplayLp003, OnLp003
  <2>2. "digits" \in Calls
    BY DEF Calls
  <2>3. /\ Wanted' = Wanted
        /\ ok => pc' = "brightness" /\ result' = "none"
        /\ ~ok => pc' = "idle" /\ result' = "failed"
    BY <2>1, <2>2, GoesOn
  <2>4. CASE ok
    <3>1. n = Lp003Digits
      BY <1>3, <2>4 DEF DisplayLp003
    <3>2. cells' = Wanted
      BY <2>1, <3>1, WholeRam
    <3> QED BY <1>1, <2>3, <2>4, <3>2
  <2>5. CASE ~ok
    BY <2>3, <2>5, RenderFails
  <2> QED BY <2>4, <2>5
<1> QED BY <1>2, <1>3

LEMMA BrightnessFrame ==
  ASSUME FrameInv,
         \/ BrightnessLp001
         \/ \E transfer \in Transfers : BrightnessLp003(transfer)
  PROVE  FrameInv'
<1>1. "brightness" \in Calls
  BY DEF Calls
<1>2. ASSUME pc = "brightness", cells' = cells, Wanted' = Wanted,
             pc' = "blink", result' = "none",
             percent' = target'.brightness,
             OnLp003' => control'.level = Lp003Level(target'.brightness)
      PROVE  FrameInv'
  <2>1. ~Succeeded' /\ cells = Wanted
    BY <1>2 DEF Succeeded, FrameInv, DigitsInv, DigitsDone
  <2> QED
    BY <1>2, <2>1 DEF FrameInv, ResultInv, DigitsInv, BrightnessInv, BlinkInv,
      LedInv, DigitsDone, BrightnessDone, BlinkDone
<1>3. CASE BrightnessLp001
  <2>1. /\ GoOn("brightness", TRUE, "blink") /\ pc = "brightness"
        /\ cells' = cells /\ percent' = target.brightness /\ ~OnLp003
    BY <1>3 DEF BrightnessLp001, GoOn, OnLp003
  <2>2. /\ pc' = "blink" /\ result' = "none" /\ Wanted' = Wanted
        /\ target' = target /\ OnLp003' = OnLp003
    BY <1>1, <2>1, GoesOn
  <2> QED BY <1>2, <2>1, <2>2
<1>4. ASSUME NEW t \in Transfers, BrightnessLp003(t) PROVE FrameInv'
  <2>1. /\ GoOn("brightness", t = "ok", "blink") /\ pc = "brightness"
        /\ cells' = cells /\ percent' = target.brightness
        /\ Command(target.brightness, blink, t)
    BY <1>4 DEF BrightnessLp003, Lp003SetBrightness, GoOn
  <2>2. /\ Wanted' = Wanted /\ target' = target
        /\ t = "ok" => pc' = "blink" /\ result' = "none"
        /\ t # "ok" => pc' = "idle" /\ result' = "failed"
    BY <1>1, <2>1, GoesOn
  <2>3. CASE t = "ok"
    <3>1. control'.level = Lp003Level(target.brightness)
      BY <2>1, <2>3, WholeWord
    <3> QED BY <1>2, <2>1, <2>2, <2>3, <3>1
  <2>4. CASE t # "ok"
    BY <2>2, <2>4, RenderFails
  <2> QED BY <2>3, <2>4
<1> QED BY <1>3, <1>4

LEMMA BlinkFrame ==
  ASSUME FrameInv,
         \/ \E delay \in 0..MaxDelay : BlinkLp001(delay)
         \/ \E transfer \in Transfers : BlinkLp003(transfer)
  PROVE  FrameInv'
<1>1. "blink" \in Calls
  BY DEF Calls
<1>2. ASSUME pc = "blink", UNCHANGED <<cells, percent, target>>,
             Wanted' = Wanted, OnLp003' = OnLp003,
             pc' = "leds", result' = "none",
             blink' = Blinking(target.blink),
             OnLp003 => /\ control'.level = Lp003Level(target.brightness)
                        /\ ~target.blink =>
                             (control'.on <=> target.brightness > 0)
      PROVE  FrameInv'
  <2>1. ~Succeeded' /\ cells = Wanted /\ percent = target.brightness
    BY <1>2 DEF Succeeded, FrameInv, DigitsInv, DigitsDone, BrightnessInv,
      BrightnessDone
  <2>2. blink'.on = target'.blink
    BY <1>2 DEF Blinking
  <2> QED
    BY <1>2, <2>1, <2>2 DEF FrameInv, ResultInv, DigitsInv, BrightnessInv,
      BlinkInv, LedInv, DigitsDone, BrightnessDone, BlinkDone
<1>3. ASSUME NEW delay \in 0..MaxDelay, BlinkLp001(delay) PROVE FrameInv'
  <2>1. /\ GoOn("blink", TRUE, "leds") /\ pc = "blink"
        /\ UNCHANGED <<cells, percent>> /\ ~OnLp003
        /\ blink' = Blinking(target.blink)
    BY <1>3 DEF BlinkLp001, Lp001SetBlink, GoOn, OnLp003
  <2>2. /\ pc' = "leds" /\ result' = "none" /\ Wanted' = Wanted
        /\ target' = target /\ OnLp003' = OnLp003
    BY <1>1, <2>1, GoesOn
  <2> QED BY <1>2, <2>1, <2>2
<1>4. ASSUME NEW t \in Transfers, BlinkLp003(t) PROVE FrameInv'
  <2>1. /\ GoOn("blink", t = "ok", "leds") /\ pc = "blink"
        /\ UNCHANGED <<cells, percent>>
        /\ blink' = Blinking(target.blink)
        /\ Command(percent, Blinking(target.blink), t)
    BY <1>4 DEF BlinkLp003, Lp003SetBlink, GoOn
  <2>2. /\ Wanted' = Wanted /\ target' = target /\ OnLp003' = OnLp003
        /\ t = "ok" => pc' = "leds" /\ result' = "none"
        /\ t # "ok" => pc' = "idle" /\ result' = "failed"
    BY <1>1, <2>1, GoesOn
  <2>3. CASE t = "ok"
    <3>1. percent = target.brightness
      BY <2>1 DEF FrameInv, BrightnessInv, BrightnessDone
    <3>2. /\ control'.level = Lp003Level(target.brightness)
          /\ control'.on <=> target.brightness > 0
      BY <2>1, <2>3, <3>1, WholeWord DEF Blinking
    <3> QED BY <1>2, <2>1, <2>2, <2>3, <3>2
  <2>4. CASE t # "ok"
    BY <2>2, <2>4, RenderFails
  <2> QED BY <2>3, <2>4
<1> QED BY <1>3, <1>4

LEMMA LedFrame ==
  ASSUME FrameInv, NEW switched \in BOOLEAN, NEW ok \in BOOLEAN,
         SetLed(switched, ok)
  PROVE  FrameInv'
<1>1. /\ pc = "leds" /\ pc' = "idle"
      /\ UNCHANGED <<cells, percent, blink, control, profile, target>>
  BY DEF SetLed
<1>2. Wanted' = Wanted /\ OnLp003' = OnLp003 /\ WantedLed' = WantedLed
  BY <1>1 DEF Wanted, NumberOfDigits, OnLp003, WantedLed
<1>3. CASE ok
  <2>1. led' = WantedLed
    BY <1>3 DEF SetLed
  <2>2. DigitsDone /\ BrightnessDone /\ BlinkDone
    BY <1>1 DEF DigitsDone, BrightnessDone, BlinkDone
  <2> QED
    BY <1>1, <1>2, <2>1, <2>2 DEF FrameInv, ResultInv, DigitsInv,
      BrightnessInv, BlinkInv, LedInv
<1>4. CASE ~ok
  BY <1>1, <1>4, RenderFails DEF SetLed
<1> QED BY <1>3, <1>4

(* The blink task of LP-003 (lp003.c:364-372). *)
LEMMA PollFrame ==
  ASSUME Typed, FrameInv, NEW t \in Transfers, PollLp003(t)
  PROVE  FrameInv'
<1>1. /\ UNCHANGED <<cells, percent, led, profile, pc, target, result>>
      /\ blink.on /\ blink'.on = blink.on
      /\ Command(percent, blink', t)
  BY DEF PollLp003, Lp003Task, halVars, Toggled, Typed
<1>2. /\ Wanted' = Wanted /\ WantedLed' = WantedLed /\ Succeeded' = Succeeded
      /\ OnLp003' = OnLp003
  BY <1>1 DEF Wanted, NumberOfDigits, WantedLed, Succeeded, OnLp003
<1>3. control' = control \/ control'.level = Lp003Level(percent)
  BY <1>1, AnyWord
<1> QED
  BY <1>1, <1>2, <1>3 DEF FrameInv, ResultInv, DigitsInv, BrightnessInv,
    BlinkInv, LedInv, DigitsDone, BrightnessDone, BlinkDone

LEMMA FrameStep == Typed /\ FrameInv /\ [Next]_vars => FrameInv'
<1> SUFFICES ASSUME Typed, FrameInv, [Next]_vars PROVE FrameInv'
  OBVIOUS
<1>1. CASE StartLp001
  BY <1>1, NothingDone DEF StartLp001, DriverStarts, FrameInv, ResultInv
<1>2. ASSUME NEW n \in 0..Lp003Digits, NEW t \in Transfers, StartLp003(n, t)
      PROVE  FrameInv'
  BY <1>2, NothingDone DEF StartLp003, DriverStarts, FrameInv, ResultInv
<1>3. CASE Crash
  BY <1>3, NothingDone DEF Crash
<1>4. ASSUME NEW p \in Presentations, BeginRender(p) PROVE FrameInv'
  BY <1>4, NothingDone DEF BeginRender
<1>5. CASE Render
  BY <1>5, DisplayFrame, BrightnessFrame, BlinkFrame, LedFrame DEF Render
<1>6. CASE ScanLp001
  <2>1. UNCHANGED <<cells, percent, led, control, profile, pc, target, result>>
    BY <1>6 DEF ScanLp001, Lp001Task, ScanSlot, ReadClock, TurnPhase, halVars,
      driverVars
  <2>2. blink'.on = blink.on
    BY <1>6 DEF ScanLp001, Lp001Task, ScanSlot, ReadClock, TurnPhase,
      driverVars, Toggled, Typed
  <2> QED BY <2>1, <2>2, SameFrame
<1>7. ASSUME NEW t \in Transfers, PollLp003(t) PROVE FrameInv'
  BY <1>7, PollFrame
<1>8. CASE Tick
  BY <1>8, SameFrame DEF Tick, halVars
<1>9. CASE UNCHANGED vars
  BY <1>9, SameFrame DEF vars, driverVars, halVars
<1> QED
  BY <1>1, <1>2, <1>3, <1>4, <1>5, <1>6, <1>7, <1>8, <1>9 DEF Next, Start, Task
-----------------------------------------------------------------------------
(* A step of a render, of the tasks or of the clock keeps the types. *)
LEMMA BlinkSettings ==
  ASSUME Typed, pc \in Calls
  PROVE  Blinking(target.blink) \in [on : BOOLEAN, visible : BOOLEAN]
<1>1. target \in Presentation
  BY PresentationAssumption DEF Typed
<1>2. target.blink \in BOOLEAN
  BY <1>1 DEF Presentation
<1> QED BY <1>2 DEF Blinking

LEMMA TypedStep == Typed /\ [Next]_vars => Typed'
<1> SUFFICES ASSUME Typed, [Next]_vars PROVE Typed'
  OBVIOUS
<1>0. /\ profile \in Profiles
      /\ pc \in Calls \cup {"off", "idle"}
      /\ pc \in Calls => target \in Presentations
      /\ blink \in [on : BOOLEAN, visible : BOOLEAN]
      /\ age \in Nat /\ shownFor \in Nat /\ stale \in 0..MaxDelay
      /\ MaxDelay \in Nat
  BY Delays DEF Typed
<1>1. BlinkInit \in [on : BOOLEAN, visible : BOOLEAN]
  BY DEF BlinkInit
<1>2. /\ Toggled \in [on : BOOLEAN, visible : BOOLEAN]
      /\ SaturatingNext(age, PhaseBound) \in Nat
      /\ SaturatingNext(shownFor, Interval) \in Nat
  <2>1. Toggled \in [on : BOOLEAN, visible : BOOLEAN]
    BY <1>0 DEF Toggled
  <2>2. SaturatingNext(age, PhaseBound) \in Nat
    BY <1>0 DEF SaturatingNext
  <2>3. SaturatingNext(shownFor, Interval) \in Nat
    BY <1>0 DEF SaturatingNext
  <2> QED BY <2>1, <2>2, <2>3
<1>3. CASE StartLp001
  BY <1>0, <1>1, <1>3 DEF Typed, StartLp001, DriverStarts, lp001Vars, Calls
<1>4. ASSUME NEW n \in 0..Lp003Digits, NEW t \in Transfers, StartLp003(n, t)
      PROVE  Typed'
  <2>1. pc' \in {"off", "idle"}
    BY <1>4 DEF StartLp003
  <2> QED
    BY <1>0, <1>1, <1>4, <2>1 DEF Typed, StartLp003, DriverStarts, lp001Vars,
      Calls
<1>5. CASE Crash
  BY <1>0, <1>5 DEF Typed, Crash, Calls
<1>6. ASSUME NEW p \in Presentations, BeginRender(p) PROVE Typed'
  BY <1>0, <1>6 DEF Typed, BeginRender, driverVars, lp001Vars, Calls
<1>7. CASE Render
  <2>1. ASSUME NEW call \in Calls, NEW ok, NEW next \in Calls \cup {"idle"},
               GoOn(call, ok, next)
        PROVE  /\ pc \in Calls /\ pc' \in Calls \cup {"off", "idle"}
               /\ pc' \in Calls => target' \in Presentations
               /\ UNCHANGED <<profile, stale>>
    BY <1>0, <2>1 DEF GoOn, lp001Vars
  <2>2. /\ "digits" \in Calls /\ "brightness" \in Calls /\ "blink" \in Calls
        /\ "leds" \in Calls
    BY DEF Calls
  <2>3. CASE \/ DisplayLp001 \/ BrightnessLp001
             \/ \E n \in 0..Lp003Digits, ok \in BOOLEAN : DisplayLp003(n, ok)
             \/ \E t \in Transfers : BrightnessLp003(t)
    <3>1. UNCHANGED <<blink, age, shownFor>>
      BY <2>3 DEF DisplayLp001, DisplayLp003, BrightnessLp001, BrightnessLp003
    <3>2. \E ok : \/ GoOn("digits", ok, "brightness")
                  \/ GoOn("brightness", ok, "blink")
      BY <2>3 DEF DisplayLp001, DisplayLp003, BrightnessLp001, BrightnessLp003
    <3> QED BY <1>0, <2>1, <2>2, <3>1, <3>2 DEF Typed
  <2>4. ASSUME NEW delay \in 0..MaxDelay, BlinkLp001(delay) PROVE Typed'
    <3>1. /\ GoOn("blink", TRUE, "leds") /\ blink' = Blinking(target.blink)
          /\ age' = delay /\ shownFor' = 0
      BY <2>4 DEF BlinkLp001, Lp001SetBlink
    <3>2. age' \in Nat
      BY <1>0, <3>1
    <3> QED BY <1>0, <2>1, <2>2, <3>1, <3>2, BlinkSettings DEF Typed
  <2>5. ASSUME NEW t \in Transfers, BlinkLp003(t) PROVE Typed'
    <3>1. /\ GoOn("blink", t = "ok", "leds") /\ blink' = Blinking(target.blink)
          /\ age' = 0 /\ shownFor' = 0
      BY <2>5 DEF BlinkLp003, Lp003SetBlink
    <3> QED BY <1>0, <2>1, <2>2, <3>1, BlinkSettings DEF Typed
  <2>6. ASSUME NEW switched \in BOOLEAN, NEW ok \in BOOLEAN,
               SetLed(switched, ok)
        PROVE  Typed'
    BY <1>0, <2>6 DEF Typed, SetLed, lp001Vars, Calls
  <2> QED BY <1>7, <2>3, <2>4, <2>5, <2>6 DEF Render
<1>8. CASE ScanLp001
  <2>1. UNCHANGED <<profile, pc, target>>
    BY <1>8 DEF ScanLp001, halVars
  <2>2. shownFor' \in Nat
    BY <1>0, <1>8 DEF ScanLp001, PhaseTime
  <2>3. CASE ScanSlot
    BY <1>0, <2>1, <2>2, <2>3 DEF Typed, ScanSlot, driverVars
  <2>4. CASE ReadClock
    BY <1>0, <2>1, <2>2, <2>4 DEF Typed, ReadClock, driverVars
  <2>5. CASE TurnPhase
    <3>1. /\ stale' = 0
          /\ \/ blink' = Toggled /\ age' = stale
             \/ blink' = blink /\ age' = age
      BY <2>5 DEF TurnPhase
    <3> QED BY <1>0, <1>2, <2>1, <2>2, <3>1 DEF Typed
  <2> QED BY <1>8, <2>3, <2>4, <2>5 DEF ScanLp001, Lp001Task
<1>9. ASSUME NEW t \in Transfers, PollLp003(t) PROVE Typed'
  <2>1. /\ UNCHANGED <<profile, pc, target, stale>>
        /\ blink' = Toggled /\ age' = 0
    BY <1>9 DEF PollLp003, Lp003Task, halVars, lp001Vars
  <2>2. shownFor' \in Nat
    BY <1>0, <1>9 DEF PollLp003, PhaseTime
  <2> QED BY <1>0, <1>2, <2>1, <2>2 DEF Typed
<1>10. CASE Tick
  <2>1. /\ UNCHANGED <<profile, pc, target, blink>>
        /\ age' = SaturatingNext(age, PhaseBound)
        /\ shownFor' = SaturatingNext(shownFor, Interval)
    BY <1>10 DEF Tick, halVars
  <2>2. stale' \in 0..MaxDelay
    BY <1>0, <1>10 DEF Tick
  <2> QED BY <1>0, <1>2, <2>1, <2>2 DEF Typed
<1>11. CASE UNCHANGED vars
  BY <1>0, <1>11 DEF Typed, vars, driverVars, lp001Vars, halVars
<1> QED
  BY <1>3, <1>4, <1>5, <1>6, <1>7, <1>8, <1>9, <1>10, <1>11
    DEF Next, Start, Task

(* The age of the phase in the driver and the time it has been shown start
   together, but for the delay, and grow together. *)
LEMMA AgeStep == Typed /\ AgeInv /\ [Next]_vars => AgeInv'
<1> SUFFICES ASSUME Typed, AgeInv, [Next]_vars PROVE AgeInv'
  OBVIOUS
<1>0. /\ age \in Nat /\ shownFor \in Nat /\ stale \in 0..MaxDelay
      /\ MaxDelay \in Nat /\ Interval \in Nat /\ age <= shownFor + MaxDelay
      /\ blink \in [on : BOOLEAN, visible : BOOLEAN]
  BY Delays DEF Typed, AgeInv
<1>1. ASSUME UNCHANGED <<age, shownFor>> PROVE AgeInv'
  BY <1>0, <1>1 DEF AgeInv
<1>2. ASSUME age' \in Int, age' <= MaxDelay, shownFor' \in Nat PROVE AgeInv'
  <2>1. MaxDelay \in Nat
    BY <1>0
  <2>2. \A a \in Int, s \in Nat : a <= MaxDelay => a <= s + MaxDelay
    BY <2>1
  <2>3. age' <= shownFor' + MaxDelay
    BY <1>2, <2>2
  <2> QED BY <2>3 DEF AgeInv
<1>3. CASE Start
  <2>1. age' = 0 /\ shownFor' = 0
    BY <1>3 DEF Start, StartLp001, StartLp003, DriverStarts
  <2> QED BY <1>0, <1>2, <2>1
<1>4. CASE Crash \/ \E p \in Presentations : BeginRender(p)
  BY <1>1, <1>4 DEF Crash, BeginRender, driverVars
<1>5. CASE Render
  <2>1. CASE \E delay \in 0..MaxDelay : BlinkLp001(delay)
    BY <1>0, <1>2, <2>1 DEF BlinkLp001, Lp001SetBlink
  <2>2. CASE \E t \in Transfers : BlinkLp003(t)
    BY <1>0, <1>2, <2>2 DEF BlinkLp003, Lp003SetBlink
  <2>3. CASE \/ DisplayLp001 \/ BrightnessLp001
             \/ \E n \in 0..Lp003Digits, ok \in BOOLEAN : DisplayLp003(n, ok)
             \/ \E t \in Transfers : BrightnessLp003(t)
             \/ \E switched, ok \in BOOLEAN : SetLed(switched, ok)
    BY <1>1, <2>3 DEF DisplayLp001, DisplayLp003, BrightnessLp001,
      BrightnessLp003, SetLed
  <2> QED BY <1>5, <2>1, <2>2, <2>3 DEF Render
<1>6. CASE ScanLp001
  <2>1. CASE ScanSlot \/ ReadClock
    BY <1>0, <1>1, <1>6, <2>1 DEF ScanLp001, PhaseTime, ScanSlot, ReadClock,
      driverVars
  <2>2. CASE TurnPhase
    <3>1. CASE blink' = Toggled /\ age' = stale
      BY <1>0, <1>2, <1>6, <3>1 DEF ScanLp001, PhaseTime
    <3>2. CASE UNCHANGED <<blink, age>>
      BY <1>1, <1>6, <3>2 DEF ScanLp001, PhaseTime
    <3> QED BY <2>2, <3>1, <3>2 DEF TurnPhase
  <2> QED BY <1>6, <2>1, <2>2 DEF ScanLp001, Lp001Task
<1>7. ASSUME NEW t \in Transfers, PollLp003(t) PROVE AgeInv'
  BY <1>0, <1>2, <1>7 DEF PollLp003, Lp003Task, PhaseTime
<1>8. CASE Tick
  <2>1. /\ age' = SaturatingNext(age, PhaseBound)
        /\ shownFor' = SaturatingNext(shownFor, Interval)
    BY <1>8 DEF Tick
  <2>2. PhaseBound = Interval + MaxDelay
    BY DEF PhaseBound
  <2> QED BY <1>0, <2>1, <2>2 DEF AgeInv, SaturatingNext
<1>9. CASE UNCHANGED vars
  BY <1>1, <1>9 DEF vars, driverVars
<1> QED
  BY <1>3, <1>4, <1>5, <1>6, <1>7, <1>8, <1>9 DEF Next, Task
-----------------------------------------------------------------------------
(* The rest of the types: what the panel and the chip are given. *)
GivenTypes ==
  /\ target \in Presentations
  /\ result \in {"none", "applied", "degraded", "failed"}
  /\ cells \in [1..NumberOfDigits -> Dark..9]
  /\ percent \in 0..100
  /\ age <= PhaseBound /\ shownFor <= Interval
  /\ led \in BOOLEAN
  /\ scan \in 1..TurnsPhase
  /\ glass \in [1..Lp001Digits -> [digit : Dark..9, level : 0..100]]
  /\ control \in [level : 0..7, on : BOOLEAN]

(* A digit is dark or 0 to 9, whatever the value and the size of the display
   (lp001_display_value, lp003_display_value). *)
LEMMA DigitsType ==
  ASSUME NEW value \in Int, NEW zeroes, NEW n \in {3, 4}
  PROVE  Digits(value, zeroes, n) \in [1..n -> Dark..9]
<1> DEFINE most == 10^n - 1
           v == IF value < 0 THEN 0 ELSE IF value > most THEN most ELSE value
<1>1. v \in Nat
  <2>1. CASE n = 3
    <3>1. most = 999
      BY <2>1
    <3> QED BY <3>1
  <2>2. CASE n = 4
    <3>1. most = 9999
      BY <2>2
    <3> QED BY <3>1
  <2> QED BY <2>1, <2>2
<1>2. ASSUME NEW i \in 1..n PROVE 10^(n - i) \in Nat \ {0}
  <2>1. n - i \in {0, 1, 2, 3}
    BY <1>2
  <2>2. 10^0 = 1 /\ 10^1 = 10 /\ 10^2 = 100 /\ 10^3 = 1000
    OBVIOUS
  <2>3. \/ 10^(n - i) = 10^0 \/ 10^(n - i) = 10^1
        \/ 10^(n - i) = 10^2 \/ 10^(n - i) = 10^3
    <3> DEFINE k == n - i
    <3>1. k \in {0, 1, 2, 3}
      BY <2>1
    <3> HIDE DEF k
    <3>2. 10^k \in {10^0, 10^1, 10^2, 10^3}
      BY <3>1, Zenon
    <3>3. 10^k \in {1, 10, 100, 1000}
      BY <2>2, <3>2, Zenon
    <3> QED BY <2>2, <3>2, Zenon DEF k
  <2> QED BY <2>2, <2>3
<1>3. \A d \in Nat \ {0} : (v \div d) % 10 \in Dark..9
  BY <1>1 DEF Dark
<1>4. Dark \in Dark..9
  BY DEF Dark
<1> HIDE DEF v
<1> QED
  BY <1>2, <1>3, <1>4 DEF Digits, v

LEMMA GivenFacts ==
  ASSUME Typed, GivenTypes
  PROVE  /\ NumberOfDigits \in {3, 4}
         /\ profile = "LP-003" => NumberOfDigits = Lp003Digits
         /\ profile = "LP-001" => NumberOfDigits = Lp001Digits
         /\ Wanted \in [1..NumberOfDigits -> Dark..9]
         /\ target.brightness \in 0..100 /\ WantedLed \in BOOLEAN
         /\ Default \in Presentations
         /\ Interval \in Nat \ {0} /\ MaxDelay \in 0..Interval
         /\ PhaseBound \in Nat /\ PhaseBound = Interval + MaxDelay
<1>1. /\ NumberOfDigits \in {3, 4}
      /\ profile = "LP-003" => NumberOfDigits = Lp003Digits
      /\ profile = "LP-001" => NumberOfDigits = Lp001Digits
  BY DEF NumberOfDigits, Lp001Digits, Lp003Digits
<1>2. target \in Presentation
  BY PresentationAssumption DEF GivenTypes
<1>3. /\ target.number \in Int /\ target.brightness \in 0..100
      /\ target.leds \in Seq(BOOLEAN)
  BY <1>2 DEF Presentation
<1>4. Wanted \in [1..NumberOfDigits -> Dark..9]
  BY <1>1, <1>3, DigitsType DEF Wanted
<1>5. WantedLed \in BOOLEAN
  BY <1>3 DEF WantedLed, Leds
<1>6. Default \in Presentations
  BY PresentationAssumption DEF Default
<1>7. PhaseBound \in Nat /\ PhaseBound = Interval + MaxDelay
  BY Delays DEF PhaseBound
<1> QED
  BY <1>1, <1>3, <1>4, <1>5, <1>6, <1>7, Delays

(* A command leaves the register as it was or with one of eight levels. *)
LEMMA WordType ==
  ASSUME NEW p \in 0..100, NEW b \in [on : BOOLEAN, visible : BOOLEAN], NEW t,
         Command(p, b, t), control \in [level : 0..7, on : BOOLEAN]
  PROVE  control' \in [level : 0..7, on : BOOLEAN]
<1>1. Lp003Level(p) \in 0..7
  BY DEF Lp003Level
<1>2. (p > 0 /\ (~b.on \/ b.visible)) \in BOOLEAN
  OBVIOUS
<1> QED
  BY <1>1, <1>2 DEF Command, ControlWord

LEMMA RamType ==
  ASSUME NEW digits \in [1..Lp003Digits -> Dark..9], NEW n,
         cells \in [1..Lp003Digits -> Dark..9], WriteRam(digits, n)
  PROVE  cells' \in [1..Lp003Digits -> Dark..9]
BY DEF WriteRam

LEMMA DarkType == [i \in 1..NumberOfDigits |-> Dark] \in [1..NumberOfDigits -> Dark..9]
BY DEF Dark

LEMMA GoOnType ==
  ASSUME NEW call, NEW ok, NEW next, GoOn(call, ok, next), GivenTypes
  PROVE  /\ UNCHANGED <<profile, target, scan, glass>>
         /\ result' \in {"none", "applied", "degraded", "failed"}
BY DEF GoOn, lp001Vars, GivenTypes

LEMMA GlassType ==
  ASSUME GivenTypes, ScanSlot, profile = "LP-001"
  PROVE  /\ glass' \in [1..Lp001Digits -> [digit : Dark..9, level : 0..100]]
         /\ scan' \in 1..TurnsPhase
<1>1. scan \in 1..3 /\ cells \in [1..3 -> Dark..9] /\ percent \in 0..100
  BY DEF GivenTypes, ScanSlot, Lp001Digits, NumberOfDigits
<1>2. LitCell(scan) \in [digit : Dark..9, level : 0..100]
  BY <1>1 DEF LitCell, Unlit, Dark
<1>3. scan' = scan + 1
  BY DEF ScanSlot
<1>4. scan' \in 1..TurnsPhase
  BY <1>1, <1>3 DEF TurnsPhase, Lp001Digits
<1>5. glass' = [glass EXCEPT ![scan] = LitCell(scan)]
      /\ glass \in [1..Lp001Digits -> [digit : Dark..9, level : 0..100]]
  BY DEF ScanSlot, GivenTypes
<1> QED
  BY <1>2, <1>4, <1>5

LEMMA GivenStep == Typed /\ Typed' /\ GivenTypes /\ [Next]_vars => GivenTypes'
<1> SUFFICES ASSUME Typed, Typed', GivenTypes, [Next]_vars PROVE GivenTypes'
  OBVIOUS
<1> USE GivenFacts
<1>0. /\ target \in Presentations
      /\ result \in {"none", "applied", "degraded", "failed"}
      /\ cells \in [1..NumberOfDigits -> Dark..9]
      /\ percent \in 0..100
      /\ age <= PhaseBound /\ shownFor <= Interval
      /\ led \in BOOLEAN
      /\ scan \in 1..TurnsPhase
      /\ glass \in [1..Lp001Digits -> [digit : Dark..9, level : 0..100]]
      /\ control \in [level : 0..7, on : BOOLEAN]
      /\ age \in Nat /\ shownFor \in Nat /\ stale \in 0..MaxDelay
      /\ blink \in [on : BOOLEAN, visible : BOOLEAN]
      /\ blink' \in [on : BOOLEAN, visible : BOOLEAN]
      /\ profile \in Profiles
  BY DEF GivenTypes, Typed
<1>p. ASSUME profile' = profile PROVE NumberOfDigits' = NumberOfDigits
  BY <1>p DEF NumberOfDigits
<1>b. BlinkInit \in [on : BOOLEAN, visible : BOOLEAN] /\ 100 \in 0..100
  BY DEF BlinkInit
<1>1. CASE StartLp001
  <2>1. cells' \in [1..NumberOfDigits -> Dark..9]
    <3>1. cells' = Digits(0, TRUE, NumberOfDigits)
      BY <1>1 DEF StartLp001, Lp001DisplayValue
    <3>2. Digits(0, TRUE, NumberOfDigits) \in [1..NumberOfDigits -> Dark..9]
      <4>1. 0 \in Int /\ NumberOfDigits \in {3, 4}
        OBVIOUS
      <4> QED BY ONLY <4>1, DigitsType, Zenon
    <3> QED BY <3>1, <3>2
  <2>2. /\ age' = 0 /\ shownFor' = 0 /\ percent' = 100 /\ led' = FALSE
        /\ UNCHANGED <<profile, target, result, scan, glass, control>>
    BY <1>1 DEF StartLp001, DriverStarts, lp001Vars
  <2>3. age' <= PhaseBound /\ shownFor' <= Interval /\ percent' \in 0..100
    BY <2>2
  <2>4. led' \in BOOLEAN
    BY <2>2
  <2>5. NumberOfDigits' = NumberOfDigits
    BY <1>p, <2>2
  <2> QED
    BY <1>0, <2>1, <2>2, <2>3, <2>4, <2>5 DEF GivenTypes
<1>2. ASSUME NEW n \in 0..Lp003Digits, NEW t \in Transfers, StartLp003(n, t)
      PROVE  GivenTypes'
  <2>1. cells' \in [1..NumberOfDigits -> Dark..9]
    BY <1>0, <1>2, RamType, DarkType DEF StartLp003
  <2>2. control' \in [level : 0..7, on : BOOLEAN]
    BY <1>0, <1>2, <1>b, WordType DEF StartLp003
  <2>3. led' \in BOOLEAN
    BY <1>0, <1>2 DEF StartLp003
  <2> QED
    BY <1>0, <1>2, <1>p, <2>1, <2>2, <2>3
    DEF StartLp003, DriverStarts, lp001Vars, GivenTypes
<1>3. CASE Crash
  <2>1. cells' \in [1..NumberOfDigits -> Dark..9] /\ led' \in BOOLEAN
        /\ control' \in [level : 0..7, on : BOOLEAN]
    <3>1. CASE UNCHANGED <<cells, control, led>>
      BY <1>0, <3>1
    <3>2. CASE /\ cells' = [i \in 1..NumberOfDigits |-> Dark]
               /\ control' = [level |-> 0, on |-> FALSE]
               /\ led' = FALSE
      <4>1. [level |-> 0, on |-> FALSE] \in [level : 0..7, on : BOOLEAN]
        OBVIOUS
      <4> QED BY <3>2, <4>1, DarkType
    <3> QED BY <1>3, <3>1, <3>2 DEF Crash
  <2>2. /\ glass' \in [1..Lp001Digits -> [digit : Dark..9, level : 0..100]]
        /\ scan' \in 1..TurnsPhase
    BY <1>3 DEF Crash, Unlit, Dark, TurnsPhase, Lp001Digits
  <2> QED
    BY <1>0, <1>3, <1>p, <2>1, <2>2 DEF Crash, GivenTypes
<1>4. ASSUME NEW p \in Presentations, BeginRender(p) PROVE GivenTypes'
  BY <1>0, <1>4, <1>p
  DEF BeginRender, driverVars, lp001Vars, GivenTypes
<1>5. CASE Render
  <2>1. CASE DisplayLp001
    <3>1. cells' = Wanted /\ GoOn("digits", TRUE, "brightness")
          /\ UNCHANGED <<percent, blink, age, led, control, shownFor>>
      BY <2>1 DEF DisplayLp001, Lp001DisplayValue, Wanted, NumberOfDigits
    <3> QED BY <1>0, <1>p, <3>1, GoOnType DEF GivenTypes
  <2>2. ASSUME NEW n \in 0..Lp003Digits, NEW ok \in BOOLEAN, DisplayLp003(n, ok)
        PROVE  GivenTypes'
    <3>1. /\ GoOn("digits", ok, "brightness") /\ WriteRam(Wanted, n)
          /\ NumberOfDigits = Lp003Digits
          /\ UNCHANGED <<percent, blink, age, led, control, shownFor>>
      BY <2>2 DEF DisplayLp003
    <3>2. cells' \in [1..NumberOfDigits -> Dark..9]
      BY <1>0, <3>1, RamType
    <3> QED BY <1>0, <1>p, <3>1, <3>2, GoOnType DEF GivenTypes
  <2>3. CASE BrightnessLp001
    BY <1>0, <1>p, <2>3, GoOnType DEF BrightnessLp001, GivenTypes
  <2>4. ASSUME NEW t \in Transfers, BrightnessLp003(t) PROVE GivenTypes'
    <3>1. /\ GoOn("brightness", t = "ok", "blink")
          /\ percent' = target.brightness /\ Command(target.brightness, blink, t)
          /\ UNCHANGED <<cells, blink, age, led, shownFor>>
      BY <2>4 DEF BrightnessLp003, Lp003SetBrightness
    <3>2. control' \in [level : 0..7, on : BOOLEAN]
      BY <1>0, <3>1, WordType
    <3> QED BY <1>0, <1>p, <3>1, <3>2, GoOnType DEF GivenTypes
  <2>5. ASSUME NEW delay \in 0..MaxDelay, BlinkLp001(delay) PROVE GivenTypes'
    <3>1. /\ GoOn("blink", TRUE, "leds") /\ age' = delay /\ shownFor' = 0
          /\ UNCHANGED <<cells, percent, led, control>>
      BY <2>5 DEF BlinkLp001, Lp001SetBlink
    <3>2. age' <= PhaseBound /\ shownFor' <= Interval
      BY <2>5, <3>1
    <3> QED BY <1>0, <1>p, <3>1, <3>2, GoOnType DEF GivenTypes
  <2>6. ASSUME NEW t \in Transfers, BlinkLp003(t) PROVE GivenTypes'
    <3>1. /\ GoOn("blink", t = "ok", "leds") /\ age' = 0 /\ shownFor' = 0
          /\ Command(percent, blink', t) /\ UNCHANGED <<cells, percent, led>>
      BY <2>6 DEF BlinkLp003, Lp003SetBlink
    <3>2. control' \in [level : 0..7, on : BOOLEAN]
      BY <1>0, <3>1, WordType
    <3>3. age' <= PhaseBound /\ shownFor' <= Interval
      BY <3>1
    <3> QED BY <1>0, <1>p, <3>1, <3>2, <3>3, GoOnType DEF GivenTypes
  <2>7. ASSUME NEW switched \in BOOLEAN, NEW ok \in BOOLEAN,
               SetLed(switched, ok)
        PROVE  GivenTypes'
    <3>1. led' \in BOOLEAN
          /\ result' \in {"none", "applied", "degraded", "failed"}
      BY <1>0, <2>7 DEF SetLed
    <3>2. UNCHANGED <<cells, percent, age, control, scan, glass, profile,
                      target, shownFor>>
      BY <2>7 DEF SetLed, lp001Vars
    <3>3. NumberOfDigits' = NumberOfDigits
      BY <1>p, <3>2
    <3> QED BY <1>0, <3>1, <3>2, <3>3 DEF GivenTypes
  <2> QED BY <1>5, <2>1, <2>2, <2>3, <2>4, <2>5, <2>6, <2>7 DEF Render
<1>6. CASE ScanLp001
  <2>1. /\ UNCHANGED <<control, profile, target, result>> /\ shownFor' <= Interval
        /\ profile = "LP-001"
    BY <1>0, <1>6 DEF ScanLp001, halVars, PhaseTime
  <2>2. CASE ScanSlot
    BY <1>0, <1>p, <2>1, <2>2, GlassType DEF ScanSlot, driverVars, GivenTypes
  <2>3. CASE ReadClock
    <3>1. scan' \in 1..TurnsPhase
      BY <2>3 DEF ReadClock, TurnsPhase, Lp001Digits
    <3> QED
      BY <1>0, <1>p, <2>1, <2>3, <3>1 DEF ReadClock, driverVars, GivenTypes
  <2>4. CASE TurnPhase
    <3>1. scan' \in 1..TurnsPhase
      BY <2>4 DEF TurnPhase, TurnsPhase, Lp001Digits
    <3>2. age' <= PhaseBound
      BY <1>0, <2>4 DEF TurnPhase
    <3> QED
      BY <1>0, <1>p, <2>1, <2>4, <3>1, <3>2 DEF TurnPhase, GivenTypes
  <2> QED BY <1>6, <2>2, <2>3, <2>4 DEF ScanLp001, Lp001Task
<1>7. ASSUME NEW t \in Transfers, PollLp003(t) PROVE GivenTypes'
  <2>1. /\ UNCHANGED <<profile, target, result, scan, glass, cells, percent, led>>
        /\ age' = 0 /\ shownFor' <= Interval /\ Command(percent, blink', t)
    BY <1>0, <1>7 DEF PollLp003, Lp003Task, lp001Vars, halVars, PhaseTime
  <2>2. control' \in [level : 0..7, on : BOOLEAN]
    BY <1>0, <2>1, WordType
  <2> QED BY <1>0, <1>p, <2>1, <2>2 DEF GivenTypes
<1>8. CASE Tick
  <2>1. age' <= PhaseBound /\ shownFor' <= Interval
    BY <1>0, <1>8 DEF Tick, SaturatingNext
  <2> QED BY <1>0, <1>p, <1>8, <2>1 DEF Tick, halVars, GivenTypes
<1>9. CASE UNCHANGED vars
  BY <1>0, <1>p, <1>9 DEF vars, driverVars, lp001Vars, halVars, GivenTypes
<1> QED
  BY <1>1, <1>2, <1>3, <1>4, <1>5, <1>6, <1>7, <1>8, <1>9 DEF Next, Start, Task
-----------------------------------------------------------------------------
LEMMA Invariance == Spec => []IInv
<1>1. Init => IInv
  <2>1. ASSUME Init PROVE IInv
    <3>1. Typed
      <4>1. MaxDelay \in Nat
        BY Delays
      <4> QED BY <2>1, <4>1 DEF Init, Lp001Init, BlinkInit, Typed, Calls
    <3>2. ~Succeeded /\ pc = "off" /\ result = "none"
      BY <2>1 DEF Init, Succeeded
    <3>3. FrameInv
      BY <3>2 DEF FrameInv, ResultInv, DigitsInv, BrightnessInv, BlinkInv,
        LedInv, DigitsDone, BrightnessDone, BlinkDone
    <3>4. AgeInv
      BY <2>1, Delays DEF Init, AgeInv
    <3> QED BY <3>1, <3>3, <3>4 DEF IInv, FrameInv
  <2> QED BY <2>1
<1>2. IInv /\ [Next]_vars => IInv'
  BY TypedStep, AgeStep, FrameStep DEF IInv, FrameInv
<1> QED BY <1>1, <1>2, PTL DEF Spec

(* The digits, levels, phases and stages of both drivers and of the HAL are
   what their declarations say: every digit is dark or 0 to 9, the chip's level
   one of eight, and a render has one of its four results
   (pb_hal_old_panel.c:118-162, lp001.c:613-627, lp003.c:161-186). *)
THEOREM TypeCorrect == Spec => []TypeOK
<1>1. Init => GivenTypes
  <2> SUFFICES ASSUME Init PROVE GivenTypes
    OBVIOUS
  <2>1. /\ target \in Presentations /\ result = "none"
        /\ cells = [i \in 1..NumberOfDigits |-> Dark] /\ percent = 100
        /\ age = 0 /\ shownFor = 0 /\ led = FALSE
    BY PresentationAssumption DEF Init, Default
  <2>2. /\ scan \in 1..TurnsPhase /\ control \in [level : 0..7, on : BOOLEAN]
        /\ glass \in [1..Lp001Digits -> [digit : Dark..9, level : 0..100]]
    <3>1. scan \in 1..TurnsPhase
      BY DEF Init, Lp001Init, TurnsPhase, Lp001Digits
    <3>2. control \in [level : 0..7, on : BOOLEAN]
      BY DEF Init, Lp003Init
    <3>3. Unlit \in [digit : Dark..9, level : 0..100]
      BY DEF Unlit, Dark
    <3> QED BY <3>1, <3>2, <3>3 DEF Init, Lp001Init
  <2>3. age <= PhaseBound /\ shownFor <= Interval
    BY <2>1, Delays DEF PhaseBound
  <2>4. led \in BOOLEAN
    BY <2>1
  <2>5. percent \in 0..100 /\ cells \in [1..NumberOfDigits -> Dark..9]
    BY <2>1, DarkType
  <2> QED BY <2>1, <2>2, <2>3, <2>4, <2>5 DEF GivenTypes
<1>2. IInv /\ IInv' /\ GivenTypes /\ [Next]_vars => GivenTypes'
  BY GivenStep DEF IInv
<1>3. IInv /\ GivenTypes => TypeOK
  <2> SUFFICES ASSUME IInv, GivenTypes PROVE TypeOK
    OBVIOUS
  <2>1. /\ age \in 0..PhaseBound /\ shownFor \in 0..Interval
        /\ stale \in 0..MaxDelay
    BY GivenFacts DEF IInv, Typed, GivenTypes
  <2> QED
    BY <2>1 DEF IInv, Typed, GivenTypes, TypeOK, Lp001TypeOK, Lp003TypeOK
<1>4. Spec => []GivenTypes
  BY <1>1, <1>2, Invariance, PTL DEF Spec
<1> QED
  BY <1>3, <1>4, Invariance, PTL

(* A render that reports success has put all of its presentation into the
   driver and the chip, whatever failed half way before, and nothing takes it
   away while it stays, for every set of presentations and every timing
   (pb_hal_old_panel.c:118-162, lp003.c:179-186). *)
THEOREM SuccessIsTrue == Spec => []AppliedMeansShown
<1>1. IInv => AppliedMeansShown
  BY DEF IInv, ResultInv, DigitsInv, BrightnessInv, BlinkInv, LedInv,
    DigitsDone, BrightnessDone, BlinkDone, AppliedMeansShown, Visible, OnLp003
<1> QED BY <1>1, Invariance, PTL

(* No task cuts a blink phase short by more than the delay between its reading
   of the clock and its use, but for a phase of LP-001 that started in that
   time, for every interval and delay (lp001.c:620-626, lp003.c:364-372). *)
THEOREM PhasesLast == Spec => PhaseHolds
<1> DEFINE Short ==
      (blink.visible # blink'.visible /\ blink'.on /\ pc' = pc /\ pc # "off") =>
        \/ shownFor + MaxDelay >= Interval
        \/ profile = "LP-001" /\ ReadBeforePhase
<1>1. IInv /\ [Next]_vars => [Short]_vars
  <2> SUFFICES ASSUME IInv, [Next]_vars, blink.visible # blink'.visible,
                      pc' = pc, pc # "off"
               PROVE  \/ shownFor + MaxDelay >= Interval
                      \/ profile = "LP-001" /\ ReadBeforePhase
    OBVIOUS
  <2>0. /\ age \in Nat /\ shownFor \in Nat /\ stale \in 0..MaxDelay
        /\ MaxDelay \in Nat /\ Interval \in Nat /\ age <= shownFor + MaxDelay
    BY Delays DEF IInv, Typed, AgeInv
  <2>1. ~Start /\ ~Crash /\ ~(\E p \in Presentations : BeginRender(p))
    BY DEF Start, StartLp001, StartLp003, DriverStarts, Crash, BeginRender
  <2>2. ~Render
    BY DEF Render, DisplayLp001, DisplayLp003, BrightnessLp001,
      BrightnessLp003, BlinkLp001, BlinkLp003, SetLed, GoOn
  <2>3. blink' # blink
    OBVIOUS
  <2>4. ~Tick /\ ~UNCHANGED vars
    BY <2>3 DEF Tick, vars, driverVars
  <2>5. CASE ScanLp001
    <3>1. profile = "LP-001" /\ PhaseOver
      BY <2>3, <2>5 DEF ScanLp001, Lp001Task, ScanSlot, ReadClock, TurnPhase,
        driverVars
    <3> QED BY <2>0, <3>1 DEF PhaseOver, ReadBeforePhase
  <2>6. ASSUME NEW t \in Transfers, PollLp003(t)
        PROVE  shownFor + MaxDelay >= Interval
    BY <2>0, <2>6 DEF PollLp003, Lp003Task
  <2> QED BY <2>1, <2>2, <2>4, <2>5, <2>6 DEF Next, Task
<1>2. PhaseHolds <=> [][Short]_vars
  BY PTL DEF PhaseHolds
<1> QED BY <1>1, <1>2, Invariance, PTL DEF Spec
=============================================================================
