------------------------------- MODULE KeyInput ------------------------------
(***************************************************************************)
(* From the keys to the gestures: KeySampler composed with the HAL, which  *)
(* knows one key as the primary control (pb_hal_wait_input_event), and     *)
(* with the core, which takes a press and the next release for a gesture   *)
(* and measures it by their sampling times (handle_primary_input).  The    *)
(* core may be busy for any time, for instance with a flash write.         *)
(***************************************************************************)
EXTENDS KeySampler

CONSTANTS Primary,        \* primary_key_index
          LongPress       \* primary_long_press_ms

ASSUME InputAssumption == Primary \in Keys /\ LongPress \in Nat \ {0}

VARIABLES
  pressed,       \* primary_pressed
  pressedAt,     \* primary_pressed_at_ms
  gesture,       \* the last gesture: how long, and how long in truth
  lost           \* history: a primary event was dropped after that press

coreVars == <<pressed, pressedAt, gesture>>
vars == <<samplerVars, coreVars, lost>>

NoGesture == [long |-> FALSE, reallyLong |-> FALSE, lost |-> FALSE]

TypeOK ==
  /\ SamplerTypeOK
  /\ pressed \in BOOLEAN /\ pressedAt \in Times
  /\ gesture \in [long : BOOLEAN, reallyLong : BOOLEAN, lost : BOOLEAN]
  /\ lost \in BOOLEAN

Init ==
  /\ SamplerInit
  /\ pressed = FALSE /\ pressedAt = 0 /\ gesture = NoGesture
  /\ lost = FALSE
-----------------------------------------------------------------------------
Driver ==
  /\ \/ \E sample \in Samples : ScanLp001(sample) \/ ScanLp003(sample)
     \/ ScanUnreadable
     \/ Send \/ FindFull
  /\ UNCHANGED <<coreVars, lost>>

DriverDrops ==
  /\ Drop
  /\ lost' = (lost \/ (queue # <<>> /\ Head(queue).key = Primary))
  /\ UNCHANGED coreVars

(* The core takes an event; keys other than the primary one mean nothing. *)
Take ==
  /\ queue # <<>>
  /\ queue' = Tail(queue)
  /\ UNCHANGED <<scanVars, publishing, stage>>

IsPrimary(e) == e.key = Primary

TakeOther ==
  /\ Take
  /\ ~IsPrimary(Head(queue))
  /\ UNCHANGED <<coreVars, lost>>

PressStartKept(e) == IF pressed THEN pressedAt ELSE e.at
PressStart(e) == e.at

TakePress ==
  /\ Take
  /\ IsPrimary(Head(queue)) /\ Head(queue).pressed
  /\ pressed' = TRUE
  /\ pressedAt' = PressStart(Head(queue))
  /\ lost' = FALSE
  /\ gesture' = NoGesture

Held(e) == IF e.at >= pressedAt THEN e.at - pressedAt ELSE 0

TakeRelease ==
  /\ Take
  /\ IsPrimary(Head(queue)) /\ ~Head(queue).pressed
  /\ pressed' = FALSE
  /\ gesture' = IF pressed
                THEN [long |-> Held(Head(queue)) >= LongPress,
                      reallyLong |-> Head(queue).at - Head(queue).since
                                       >= LongPress,
                      lost |-> lost]
                ELSE NoGesture
  /\ UNCHANGED <<pressedAt, lost>>

(* A new App cancels the gesture (handle_state_result). *)
AppReplaced ==
  /\ pressed
  /\ pressed' = FALSE
  /\ UNCHANGED <<samplerVars, pressedAt, gesture, lost>>

(* Power failure. *)
Restart ==
  /\ now' = 0
  /\ held' = {} /\ candidate' = {} /\ matching' = [k \in Keys |-> 0]
  /\ publishing' = {} /\ stage' = "send" /\ queue' = <<>>
  /\ downSince' = [k \in Keys |-> 0]
  /\ window' = <<>>
  /\ pressed' = FALSE /\ pressedAt' = 0 /\ gesture' = NoGesture
  /\ lost' = FALSE
  /\ UNCHANGED profile

Next ==
  \/ Driver \/ DriverDrops
  \/ TakeOther \/ TakePress \/ TakeRelease
  \/ AppReplaced
  \/ Restart

Spec == Init /\ [][Next]_vars
-----------------------------------------------------------------------------
(* A key counts as pressed or released exactly from the scan on at which the
   last StableSamples samples, all readable, agreed on it: on that key for
   LP-003, on the whole sample for LP-001 (lp003.c:295-343, lp001.c:305-356). *)
Agreed(w, k) ==
  /\ Len(w) = StableSamples
  /\ IF profile = "LP-003" THEN \A i \in DOMAIN w : k \in w[i] <=> k \in w[1]
                           ELSE \A i \in DOMAIN w : w[i] = w[1]

Debounced ==
  [][now' > now =>
     \A k \in Keys :
       IF Agreed(window', k) THEN k \in held' <=> k \in window'[1]
       ELSE k \in held' <=> k \in held]_vars

(* What the driver tells ends with the truth: the last event of a key that has
   not been taken yet is its present state, whatever was dropped before
   (lp003.c:280-293, lp001.c:194-211). *)
LastEventIsState ==
  /\ \A e \in publishing : e.key \in held <=> e.pressed
  /\ \A i \in DOMAIN queue :
       LET later == {queue[j] : j \in (i + 1)..Len(queue)} \cup publishing
       IN  (\A e \in later : e.key # queue[i].key) =>
             (queue[i].key \in held <=> queue[i].pressed)

(* A gesture is short or long as the press was, also after dropped events, an
   App switch or unreadable samples in between, with one exception: if an
   event of the primary key was dropped, a short one may be called long.  A
   long press is never called short (pb_runtime.c:435-462). *)
GestureTrue ==
  gesture.long = gesture.reallyLong \/ (gesture.lost /\ gesture.long)

(* A gesture is called long only if the key was held that long
   (docs/pb-architecture.md:159-160). *)
LongPressIsReal == gesture.long => gesture.reallyLong
=============================================================================
