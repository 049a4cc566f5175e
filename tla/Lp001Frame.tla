------------------------------ MODULE Lp001Frame ------------------------------
(***************************************************************************)
(* The display of LP-001 (drivers/lp001.c): the setters write variables    *)
(* under a spin lock and never fail; the scan task lights one digit after  *)
(* the other from them and turns the blink phase after each round.  It     *)
(* reads the clock before it takes the lock, and so does set_blink.        *)
(***************************************************************************)
EXTENDS PanelDriver

VARIABLES
  scan,          \* the scan task: a digit, or one of the stages after them
  stale,         \* ticks since the scan task has read the clock
  glass          \* what each digit was lit with last

lp001Vars == <<scan, stale, glass>>

Lp001Digits == 3
ReadsClock == Lp001Digits + 1
TurnsPhase == Lp001Digits + 2

Unlit == [digit |-> Dark, level |-> 0]

Lp001TypeOK ==
  /\ scan \in 1..TurnsPhase
  /\ stale \in 0..MaxDelay
  /\ glass \in [1..Lp001Digits -> [digit : Dark..9, level : 0..100]]

Lp001Init ==
  /\ scan = 1 /\ stale = 0
  /\ glass = [i \in 1..Lp001Digits |-> Unlit]

(* lp001_display_value. *)
Lp001DisplayValue(value, zeroes) == cells' = Digits(value, zeroes, Lp001Digits)

Lp001SetBlinkKeepsPhase(on, delay) == blink' = Blinking(on) /\ age' = age

(* lp001_set_blink, whose clock reading is delay ticks old. *)
Lp001SetBlink(on, delay) == blink' = Blinking(on) /\ age' = delay

(* display_scan_slot: a digit is lit for a part of its slot, or not at all. *)
LitCell(i) ==
  IF cells[i] = Dark \/ percent = 0 \/ ~Visible
  THEN Unlit ELSE [digit |-> cells[i], level |-> percent]

ScanSlot ==
  /\ scan \in 1..Lp001Digits
  /\ glass' = [glass EXCEPT ![scan] = LitCell(scan)]
  /\ scan' = scan + 1
  /\ UNCHANGED <<stale, driverVars>>

ReadClock ==
  /\ scan = ReadsClock
  /\ scan' = TurnsPhase
  /\ stale' = 0
  /\ UNCHANGED <<glass, driverVars>>

(* now - s_blink_phase_start is unsigned: a phase that started after the
   clock was read looks very old. *)
ReadBeforePhase == stale > age
PhaseOver == blink.on /\ (ReadBeforePhase \/ age - stale >= Interval)

TurnPhase ==
  /\ scan = TurnsPhase
  /\ scan' = 1
  /\ stale' = 0
  /\ IF PhaseOver THEN blink' = Toggled /\ age' = stale
                  ELSE UNCHANGED <<blink, age>>
  /\ UNCHANGED <<glass, cells, percent, led>>

Lp001Task == ScanSlot \/ ReadClock \/ TurnPhase

(* What an observer sees of a steady display. *)
Lp001Shows(digits, level) ==
  \A i \in 1..Lp001Digits :
    glass[i] = IF digits[i] = Dark \/ level = 0
               THEN Unlit ELSE [digit |-> digits[i], level |-> level]
=============================================================================
