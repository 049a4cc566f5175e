----------------------------- MODULE PanelDriver -----------------------------
(***************************************************************************)
(* What the two panel drivers of sdk/old-panel have in common: the digits, *)
(* the brightness, the blink phase and the LED that old_panel_driver_t     *)
(* asks for.  Lp001Frame and Lp003Frame have what each does with them.     *)
(* Time is relative: the phase has an age, in FreeRTOS ticks.              *)
(***************************************************************************)
EXTENDS Integers, Sequences

CONSTANTS Interval,       \* s_blink_interval_ms in ticks
          MaxDelay        \* bound: ticks between reading the clock and using it

ASSUME DriverAssumption ==
  /\ Interval \in Nat \ {0}
  /\ MaxDelay \in 0..Interval

VARIABLES
  cells,         \* the digits: s_display_segments, or the RAM of the chip
  percent,       \* s_brightness_percent
  blink,         \* s_blink_enabled and s_blink_visible
  age,           \* ticks since s_blink_phase_start, up to PhaseBound
  led            \* the one LED

driverVars == <<cells, percent, blink, age, led>>

Dark == -1                \* a digit without segments
PhaseBound == Interval + MaxDelay

(* The digits of a value on a display of n digits: clamped to what fits,
   leading zeroes dark unless asked for. *)
Digits(value, zeroes, n) ==
  LET most == 10^n - 1
      v == IF value < 0 THEN 0 ELSE IF value > most THEN most ELSE value
      Place(i) == 10^(n - i)
  IN  [i \in 1..n |-> IF zeroes \/ i = n \/ v >= Place(i)
                      THEN (v \div Place(i)) % 10 ELSE Dark]

BlinkInit == [on |-> FALSE, visible |-> TRUE]

Visible == blink.visible \/ ~blink.on

(* Both drivers start every blink setting with a visible phase. *)
Blinking(on) == [on |-> on, visible |-> TRUE]

ToggledToHidden == [blink EXCEPT !.visible = FALSE]

Toggled == [blink EXCEPT !.visible = ~@]

SaturatingNext(n, bound) == IF n < bound THEN n + 1 ELSE n
=============================================================================
