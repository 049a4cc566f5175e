------------------------------ MODULE Lp003Frame ------------------------------
(***************************************************************************)
(* The display of LP-003 (drivers/lp003.c): a controller chip with a RAM   *)
(* of digits and a control register, on a bus that a mutex guards.  Every  *)
(* transfer may fail: a RAM write after any number of digits, a command    *)
(* before or after the chip has taken it.  The driver's variables keep the *)
(* new value in either case.                                               *)
(***************************************************************************)
EXTENDS PanelDriver

VARIABLE control          \* the chip's control register

Lp003Digits == 4

Lp003TypeOK == control \in [level : 0..7, on : BOOLEAN]

(* What an earlier life of the device may have left in the chip. *)
Lp003Init == control = [level |-> 0, on |-> FALSE]

Lp003LevelRoundedUp(p) == (p * 8) \div 100

(* The eight levels of the chip. *)
Lp003Level(p) == IF p = 0 THEN 0 ELSE (p * 8 - 1) \div 100

(* update_display_control_locked. *)
ControlWord(p, b) ==
  [level |-> Lp003Level(p), on |-> p > 0 /\ (~b.on \/ b.visible)]

(* How a transfer may end: done, or with an error before or after its effect. *)
Transfers == {"ok", "not_sent", "sent"}

Command(p, b, transfer) ==
  control' = IF transfer = "not_sent" THEN control ELSE ControlWord(p, b)

(* write_ram_locked, of which the chip has taken the first n digits. *)
WriteRam(digits, n) ==
  cells' = [i \in 1..Lp003Digits |-> IF i <= n THEN digits[i] ELSE cells[i]]

Lp003SetBrightness(p, transfer) ==
  percent' = p /\ Command(p, blink, transfer)

Lp003SetBlink(on, transfer) ==
  /\ blink' = Blinking(on)
  /\ age' = 0
  /\ Command(percent, blink', transfer)

(* The blink part of lp003_task: clock, variables and command under the bus
   mutex. *)
Lp003Task(transfer) ==
  /\ blink.on /\ age >= Interval
  /\ blink' = Toggled
  /\ age' = 0
  /\ Command(percent, blink', transfer)
  /\ UNCHANGED <<cells, percent, led>>

(* What an observer sees of a steady display. *)
Lp003Shows(digits, level) ==
  /\ cells = digits
  /\ control.on <=> level > 0
  /\ control.level = Lp003Level(level)
=============================================================================
