--------------------------- MODULE LocalTimerProofs ---------------------------
(***************************************************************************)
(* Proofs about the local timer for every number of units to a second,     *)
(* every duration and every sequence of toggles, configurations and polls. *)
(* TimerKeepsTime is inductive together with the types: a pause rounds the *)
(* rest up to whole seconds, which RoundsUp bounds from both sides.        *)
(***************************************************************************)
EXTENDS LocalTimer, TLAPS

(* Integer division rounds down. *)
LEMMA DivBounds ==
  ASSUME NEW n \in Nat, NEW d \in Nat \ {0}
  PROVE  /\ n \div d \in Nat
         /\ d * (n \div d) <= n
         /\ n < d * (n \div d) + d
OBVIOUS

(* Whole seconds are at least the units and exceed them by less than one
   second (pb_timer_remaining_seconds). *)
LEMMA RoundsUp ==
  ASSUME NEW units \in Nat
  PROVE  /\ Seconds(units) \in Nat
         /\ Seconds(units) * UnitsPerSecond >= units
         /\ Seconds(units) * UnitsPerSecond <= units + (UnitsPerSecond - 1)
BY DivBounds, TimerAssumption DEF Seconds

(* Products with a positive factor compare like the other factors. *)
LEMMA ProductOrder ==
  ASSUME NEW a \in Nat, NEW b \in Nat, NEW d \in Nat \ {0},
         a * d < b * d + d
  PROVE  a <= b
<1>1. SUFFICES ASSUME a >= b + 1 PROVE FALSE
  OBVIOUS
<1>2. (a - (b + 1)) * d >= 0
  <2>1. a - (b + 1) \in Nat
    BY <1>1
  <2> QED
    BY <2>1
<1>3. a * d = (b + 1) * d + (a - (b + 1)) * d
  OBVIOUS
<1>4. (b + 1) * d = b * d + d
  OBVIOUS
<1> QED
  BY <1>2, <1>3, <1>4

(* Units that make up at most n seconds are rounded up to at most n. *)
LEMMA AtMost ==
  ASSUME NEW units \in Nat, NEW n \in Nat, units <= n * UnitsPerSecond
  PROVE  Seconds(units) <= n
<1>1. n * UnitsPerSecond \in Nat
  BY TimerAssumption
<1>2. /\ Seconds(units) \in Nat
      /\ Seconds(units) * UnitsPerSecond <= units + (UnitsPerSecond - 1)
  BY RoundsUp
<1>3. Seconds(units) * UnitsPerSecond \in Nat
  BY <1>2, TimerAssumption
<1>4. Seconds(units) * UnitsPerSecond < n * UnitsPerSecond + UnitsPerSecond
  BY <1>1, <1>2, <1>3, TimerAssumption
<1> QED
  BY <1>2, <1>4, ProductOrder, TimerAssumption

(* What TimerKeepsTime needs to be inductive: the deadline of a running timer
   is not further away than its duration. *)
TimerInv ==
  /\ TimerTypeOK
  /\ TimerKeepsTime
  /\ timer.status = "running" =>
       timer.left <= timer.duration * UnitsPerSecond

LEMMA TimerInitiallyInv == TimerInit => TimerInv
BY DEF TimerInit, TimerInv, TimerTypeOK, TimerKeepsTime, Timer, Zeroed

LEMMA ReplaceKeepsInv ==
  ASSUME NEW default \in Nat, ReplaceTimer(default)
  PROVE  TimerInv'
BY DEF ReplaceTimer, TimerInv, TimerTypeOK, TimerKeepsTime, Timer, Zeroed

LEMMA ConfigureKeepsInv ==
  ASSUME TimerInv, NEW default \in Nat, ConfigureTimer(default)
  PROVE  TimerInv'
<1>1. CASE default = 0
  BY <1>1, ReplaceKeepsInv DEF ConfigureTimer
<1>2. CASE default # 0
  BY <1>2 DEF ConfigureTimer, TimerInv, TimerTypeOK, TimerKeepsTime, Timer,
              UnitsToRun, Remaining
<1> QED
  BY <1>1, <1>2

LEMMA StartKeepsInv ==
  ASSUME TimerInv, Enabled, StartTimer
  PROVE  TimerInv'
<1> DEFINE units == timer.default * UnitsPerSecond
<1>1. timer.default \in Nat \ {0} /\ units \in Nat
  BY TimerAssumption DEF TimerInv, TimerTypeOK, Timer, Enabled
<1>2. Seconds(units) <= timer.default
  BY <1>1, AtMost
<1>3. timer' = [timer EXCEPT !.status = "running", !.duration = timer.default,
                             !.left = units]
  BY DEF StartTimer
<1>4. ran' = 0 /\ pauses' = 0
  BY DEF StartTimer
<1> HIDE DEF units
<1>5. TimerTypeOK'
  BY <1>1, <1>3, <1>4 DEF TimerInv, TimerTypeOK, Timer
<1>6. /\ timer'.status = "running" /\ timer'.duration = timer.default
      /\ timer'.left = units
  BY <1>3 DEF TimerInv, TimerTypeOK, Timer
<1>7. UnitsToRun' = units /\ Remaining(timer') = Seconds(units)
  BY <1>6 DEF UnitsToRun, Remaining
<1>8. pauses' * (UnitsPerSecond - 1) = 0
  BY <1>4, TimerAssumption
<1>9. TimerKeepsTime'
  BY <1>1, <1>2, <1>4, <1>6, <1>7, <1>8 DEF TimerKeepsTime, units
<1> QED
  BY <1>1, <1>5, <1>6, <1>9 DEF TimerInv, units

LEMMA PauseKeepsInv ==
  ASSUME TimerInv, PauseTimer
  PROVE  TimerInv'
<1> DEFINE rest == Seconds(timer.left)
<1>1. /\ timer \in Timer /\ ran \in Nat /\ pauses \in Nat
      /\ timer.left \in Nat /\ timer.duration \in Nat
  BY DEF TimerInv, TimerTypeOK, Timer
<1>2. /\ rest \in Nat
      /\ rest * UnitsPerSecond >= timer.left
      /\ rest * UnitsPerSecond <= timer.left + (UnitsPerSecond - 1)
  BY <1>1, RoundsUp
<1>3. /\ timer.status = "running"
      /\ timer' = [timer EXCEPT !.status = "paused", !.paused = rest, !.left = 0]
      /\ pauses' = pauses + 1 /\ ran' = ran
  BY DEF PauseTimer, Remaining
<1>4. /\ timer.duration > 0
      /\ ran + timer.left >= timer.duration * UnitsPerSecond
      /\ ran + timer.left <= timer.duration * UnitsPerSecond
                               + pauses * (UnitsPerSecond - 1)
      /\ rest <= timer.duration
  BY <1>3 DEF TimerInv, TimerKeepsTime, UnitsToRun, Remaining
<1> HIDE DEF rest
<1>5. TimerTypeOK'
  <2>1. timer' \in Timer
    BY <1>1, <1>2, <1>3 DEF Timer
  <2>2. ran' \in Nat /\ pauses' \in Nat
    BY <1>1, <1>3
  <2> QED
    BY <2>1, <2>2 DEF TimerTypeOK
<1>6. /\ timer'.status = "paused" /\ timer'.duration = timer.duration
      /\ timer'.paused = rest
  BY <1>1, <1>3 DEF Timer
<1>7. UnitsToRun' = rest * UnitsPerSecond /\ Remaining(timer') = rest
  BY <1>6 DEF UnitsToRun, Remaining
<1>8. pauses' * (UnitsPerSecond - 1)
        = pauses * (UnitsPerSecond - 1) + (UnitsPerSecond - 1)
  BY <1>1, <1>3, TimerAssumption
<1>9. /\ timer.duration * UnitsPerSecond \in Nat
      /\ pauses * (UnitsPerSecond - 1) \in Nat
      /\ rest * UnitsPerSecond \in Nat
  BY <1>1, <1>2, TimerAssumption
<1>10. TimerKeepsTime'
  BY <1>1, <1>2, <1>3, <1>4, <1>6, <1>7, <1>8, <1>9, TimerAssumption
     DEF TimerKeepsTime
<1> QED
  BY <1>5, <1>6, <1>10 DEF TimerInv

LEMMA ResumeKeepsInv ==
  ASSUME TimerInv, ResumeTimer
  PROVE  TimerInv'
<1> DEFINE units == timer.paused * UnitsPerSecond
<1>1. /\ timer \in Timer /\ ran \in Nat /\ pauses \in Nat
      /\ timer.paused \in Nat /\ timer.duration \in Nat /\ units \in Nat
  BY TimerAssumption DEF TimerInv, TimerTypeOK, Timer
<1>2. /\ timer.status = "paused"
      /\ timer' = [timer EXCEPT !.status = "running", !.left = units]
      /\ pauses' = pauses /\ ran' = ran
  BY DEF ResumeTimer
<1>3. /\ timer.duration > 0
      /\ ran + units >= timer.duration * UnitsPerSecond
      /\ ran + units <= timer.duration * UnitsPerSecond
                          + pauses * (UnitsPerSecond - 1)
      /\ timer.paused <= timer.duration
  BY <1>2 DEF TimerInv, TimerKeepsTime, UnitsToRun, Remaining
<1>4. units <= timer.duration * UnitsPerSecond
  BY <1>1, <1>3, TimerAssumption
<1>5. Seconds(units) <= timer.paused
  BY <1>1, AtMost
<1>6. Seconds(units) <= timer.duration
  BY <1>1, <1>3, <1>5, RoundsUp
<1> HIDE DEF units
<1>7. TimerTypeOK'
  BY <1>1, <1>2 DEF TimerTypeOK, Timer
<1>8. /\ timer'.status = "running" /\ timer'.duration = timer.duration
      /\ timer'.left = units
  BY <1>1, <1>2 DEF Timer
<1>9. UnitsToRun' = units /\ Remaining(timer') = Seconds(units)
  BY <1>8 DEF UnitsToRun, Remaining
<1>10. TimerKeepsTime'
  BY <1>2, <1>3, <1>6, <1>8, <1>9 DEF TimerKeepsTime
<1> QED
  BY <1>4, <1>7, <1>8, <1>10 DEF TimerInv

LEMMA FinishKeepsInv ==
  ASSUME TimerInv, FinishTimer
  PROVE  TimerInv'
BY DEF FinishTimer, TimerInv, TimerTypeOK, TimerKeepsTime, Timer

LEMMA PassKeepsInv ==
  ASSUME TimerInv, PassUnit
  PROVE  TimerInv'
<1>1. /\ timer \in Timer /\ ran \in Nat /\ pauses \in Nat
      /\ timer.left \in Nat /\ timer.duration \in Nat
      /\ timer.status = "running" /\ timer.left > 0
      /\ timer.left <= timer.duration * UnitsPerSecond
  BY DEF TimerInv, TimerTypeOK, Timer, PassUnit
<1>2. /\ timer' = [timer EXCEPT !.left = timer.left - 1]
      /\ ran' = ran + 1 /\ pauses' = pauses
  BY DEF PassUnit
<1>3. /\ timer.duration > 0
      /\ ran + timer.left >= timer.duration * UnitsPerSecond
      /\ ran + timer.left <= timer.duration * UnitsPerSecond
                               + pauses * (UnitsPerSecond - 1)
  BY <1>1 DEF TimerInv, TimerKeepsTime, UnitsToRun
<1>4. /\ timer.duration * UnitsPerSecond \in Nat
      /\ pauses * (UnitsPerSecond - 1) \in Nat
  BY <1>1, TimerAssumption
<1>5. timer.left - 1 \in Nat
  BY <1>1
<1>6. Seconds(timer.left - 1) <= timer.duration
  BY <1>1, <1>4, <1>5, AtMost
<1>7. TimerTypeOK'
  BY <1>1, <1>2, <1>5 DEF TimerTypeOK, Timer
<1>8. /\ timer'.status = "running" /\ timer'.duration = timer.duration
      /\ timer'.left = timer.left - 1
  BY <1>1, <1>2 DEF Timer
<1>9. UnitsToRun' = timer.left - 1 /\ Remaining(timer') = Seconds(timer.left - 1)
  BY <1>8 DEF UnitsToRun, Remaining
<1>10. TimerKeepsTime'
  BY <1>1, <1>2, <1>3, <1>4, <1>6, <1>8, <1>9 DEF TimerKeepsTime
<1> QED
  BY <1>1, <1>4, <1>7, <1>8, <1>10 DEF TimerInv

(* Whatever steps keep to the timer's operations keep the invariant. *)
LEMMA TimerStepKeepsInv ==
  ASSUME TimerInv, [TimerStep]_timerVars
  PROVE  TimerInv'
<1>1. CASE \E default \in Nat : ReplaceTimer(default) \/ ConfigureTimer(default)
  BY <1>1, ReplaceKeepsInv, ConfigureKeepsInv
<1>2. CASE \E event \in {"started", "paused", "resumed"} : ToggleTimer(event)
  BY <1>2, StartKeepsInv, PauseKeepsInv, ResumeKeepsInv DEF ToggleTimer
<1>3. CASE FinishTimer
  BY <1>3, FinishKeepsInv
<1>4. CASE PassUnit
  BY <1>4, PassKeepsInv
<1>5. CASE UNCHANGED timerVars
  BY <1>5 DEF timerVars, TimerInv, TimerTypeOK, TimerKeepsTime, UnitsToRun,
              Remaining
<1> QED
  BY <1>1, <1>2, <1>3, <1>4, <1>5 DEF TimerStep

(* A pause prolongs the timer by less than a second and nothing shortens it,
   for every UnitsPerSecond, every duration and any number of pauses
   (pb_timer.c:79). *)
THEOREM KeepsTime == TimerSpec => []TimerKeepsTime
<1>1. TimerInv /\ [TimerStep]_timerVars => TimerInv'
  BY TimerStepKeepsInv
<1>2. TimerInv => TimerKeepsTime
  BY DEF TimerInv
<1> QED
  BY TimerInitiallyInv, <1>1, <1>2, PTL DEF TimerSpec
=============================================================================
