-------------------------- MODULE RuntimeCoreProofs --------------------------
(***************************************************************************)
(* For all states the cloud may publish, every overlay time and every      *)
(* length of the key queue: the binding, the timer, the gesture and the    *)
(* panel of RuntimeCore stay consistent with each other.                   *)
(***************************************************************************)
EXTENDS RuntimeCore, SequenceTheorems, TLAPS

USE DEF Bindings

(* What Tail and Append leave of the type of the key queue. *)
KeyEvent == [pressed : BOOLEAN, long : BOOLEAN]

LEMMA KeysTyped ==
  ASSUME keys \in Seq(KeyEvent), NEW event \in KeyEvent
  PROVE  /\ keys # <<>> => Tail(keys) \in Seq(KeyEvent) /\ Head(keys) \in KeyEvent
         /\ Append(IF Len(keys) < KeyQueueLength THEN keys ELSE Tail(keys), event)
              \in Seq(KeyEvent)
<1>1. keys # <<>> => Tail(keys) \in Seq(KeyEvent) /\ Head(keys) \in KeyEvent
  BY HeadTailProperties
<1>2. CASE keys # <<>>
  BY <1>1, <1>2, AppendProperties
<1>3. CASE keys = <<>>
  <2>1. Len(keys) < KeyQueueLength
    BY <1>3, CoreAssumption
  <2> QED BY <2>1, <1>3, AppendProperties
<1> QED BY <1>1, <1>2, <1>3

(* The types of the parts. *)
Timers ==
  {t \in [status : {"ready", "running", "paused"}, left : Nat, duration : Nat,
          shown : Nat \cup {Unset}] : t.left <= t.duration}
Frames == [kind : {"code", "view", "timer"}, of : Bindings, minutes : Nat,
           blink : BOOLEAN]
Overlays == [active : BOOLEAN, left : Nat]

PartsTyped ==
  /\ pc \in Loop \cup {"off", "boot"}
  /\ binding \in Bindings /\ stored \in Bindings /\ published \in Bindings
  /\ dirty \in BOOLEAN /\ storeWait \in BOOLEAN
  /\ timer \in Timers /\ overlay \in Overlays /\ panel \in Frames
  /\ pressed \in BOOLEAN /\ pressedIn \in Bindings /\ startedIn \in Bindings
  /\ keys \in Seq(KeyEvent) /\ down \in BOOLEAN
  /\ request \in {"none", "posted", "answered"} /\ answer \in Bindings

LEMMA Parts == TypeOK <=> PartsTyped /\ kept \in Nat
  BY DEF TypeOK, PartsTyped, Timers, Frames, Overlays, KeyEvent

LEMMA PublishedTyped ==
  /\ Len(Published) \in Nat
  /\ \A b \in Bindings : b # 0 => Published[b] \in State
  BY CoreAssumption

LEMMA DrawsTyped == Draws \subseteq BOOLEAN
  BY DEF Draws

(* Drawing keeps the types (render_current, pb_overlay_show_code). *)
LEMMA RenderTyped ==
  ASSUME PartsTyped, NEW b \in Bindings, NEW t \in Timers, NEW drawn \in BOOLEAN,
         RenderCurrent(b, t, drawn)
  PROVE  timer' \in Timers /\ panel' \in Frames
<1> USE DEF RenderCurrent, Draw, PartsTyped
<1>1. t.left \in Nat /\ t.status \in {"ready", "running", "paused"}
  BY DEF Timers
<1>2. TimerFrame(b, t, t.left) \in Frames /\ ViewFrame(b) \in Frames
  BY <1>1 DEF TimerFrame, ViewFrame, Frames
<1>3. [t EXCEPT !.shown = t.left] \in Timers
  BY <1>1 DEF Timers
<1> QED BY <1>2, <1>3

LEMMA ShowCodeTyped ==
  ASSUME PartsTyped, NEW ticks \in Nat, NEW o \in Overlays, NEW drawn \in BOOLEAN,
         ShowCode(ticks, o, drawn)
  PROVE  overlay' \in Overlays /\ panel' \in Frames
<1>1. Code \in Frames
  BY PublishedTyped DEF Code, Frames
<1> QED BY <1>1 DEF ShowCode, Draw, Overlays, PartsTyped

LEMMA ResetTyped == TimerInit \in Timers /\ OverlayInit \in Overlays
  BY DEF TimerInit, OverlayInit, Timers, Overlays

LEMMA ConfiguredTyped ==
  ASSUME PartsTyped, NEW s \in Bindings PROVE ConfiguredTimer(s) \in Timers
<1>1. timer \in Timers
  BY DEF PartsTyped
<1>2. [timer EXCEPT !.status = "ready", !.left = 0, !.duration = 0] \in Timers
  <2> DEFINE u == [timer EXCEPT !.status = "ready", !.left = 0, !.duration = 0]
  <2>1. u \in [status : {"ready", "running", "paused"}, left : Nat,
               duration : Nat, shown : Nat \cup {Unset}]
    BY <1>1 DEF Timers
  <2>2. u.left = 0 /\ u.duration = 0
    BY <1>1 DEF Timers
  <2> HIDE DEF u
  <2>3. u.left <= u.duration
    BY <2>2
  <2>4. u \in Timers
    BY <2>1, <2>3 DEF Timers
  <2> QED BY <2>4 DEF u
<1> QED BY <1>1, <1>2, ResetTyped DEF ConfiguredTimer

LEMMA ToggledTyped ==
  ASSUME PartsTyped, Enabled(binding) PROVE ToggledTimer \in Timers
<1>1. Published[binding].timer \in Nat
  BY PublishedTyped DEF Enabled, PartsTyped, State
<1>2. [status |-> "running", left |-> Published[binding].timer,
       duration |-> Published[binding].timer, shown |-> Unset] \in Timers
  BY <1>1 DEF Timers, Unset
<1>3. timer \in Timers
  BY DEF PartsTyped
<1>4. ASSUME NEW status \in {"running", "paused"}
      PROVE  [timer EXCEPT !.status = status, !.shown = Unset] \in Timers
  BY <1>3 DEF Timers, Unset
<1>5. [timer EXCEPT !.status = IF @ = "running" THEN "paused" ELSE "running",
                    !.shown = Unset] \in Timers
  BY <1>4
<1> QED BY <1>2, <1>5 DEF ToggledTimer

LEMMA PolledTyped == ASSUME PartsTyped PROVE PolledTimer \in Timers
  BY DEF PolledTimer, PartsTyped, Timers, Unset

(* Adoption keeps the types (apply_state). *)
LEMMA AdoptTyped ==
  ASSUME PartsTyped, NEW s \in Bindings, s # 0, NEW result, NEW drawn \in BOOLEAN,
         AdoptState(s, result, drawn)
  PROVE  /\ binding' \in Bindings /\ stored' \in Bindings
         /\ dirty' \in BOOLEAN /\ storeWait' \in BOOLEAN
         /\ timer' \in Timers /\ overlay' \in Overlays /\ panel' \in Frames
<1> DEFINE o == IF Replaces(s) THEN OverlayInit ELSE overlay
           t == ConfiguredTimer(s)
<1>1. o \in Overlays /\ t \in Timers
  BY ResetTyped, ConfiguredTyped DEF PartsTyped
<1>2. Published[s].overlay \in Nat
  BY PublishedTyped DEF State
<1>3. binding' = s /\ StoreBinding(s, result)
  BY DEF AdoptState
<1>4. /\ stored' \in Bindings /\ dirty' \in BOOLEAN /\ storeWait' \in BOOLEAN
  BY <1>3 DEF StoreBinding, WriteBinding, PartsTyped
<1> HIDE DEF o, t
<1>5. CASE Published[s].overlay > 0
  <2>1. ShowCode(Published[s].overlay, o, drawn) /\ timer' = t
    BY <1>5 DEF AdoptState, o, t
  <2> QED BY <2>1, <1>1, <1>2, <1>3, <1>4, ShowCodeTyped
<1>6. CASE ~(Published[s].overlay > 0)
  <2>1. /\ overlay' = o
        /\ IF o.active THEN NoRender(t) ELSE RenderCurrent(s, t, drawn)
    BY <1>6 DEF AdoptState, o, t
  <2>2. CASE o.active
    BY <2>1, <2>2, <1>1, <1>3, <1>4 DEF NoRender, PartsTyped
  <2>3. CASE ~o.active
    BY <2>1, <2>3, <1>1, <1>3, <1>4, RenderTyped
  <2> QED BY <2>2, <2>3
<1> QED BY <1>5, <1>6

(* Every step keeps the types. *)
LEMMA TypeStep == PartsTyped /\ [Next]_vars => PartsTyped'
<1> SUFFICES ASSUME PartsTyped, [Next]_vars PROVE PartsTyped'
  OBVIOUS
<1> USE DEF PartsTyped, coreVars, keyVars, netVars, Loop
<1>1. ASSUME NEW result \in StoreResults, NEW drawn \in Draws,
             ReceiveState(result, drawn)
      PROVE  PartsTyped'
  <2>1. CASE answer # 0 /\ Adopts(answer)
    <3>1. AdoptState(answer, result, drawn) /\ pressed' = PressAfter(answer)
      BY <1>1, <2>1 DEF ReceiveState, HandleStateResult
    <3>2. drawn \in BOOLEAN
      BY DrawsTyped
    <3>3. pressed' \in BOOLEAN
      BY <3>1 DEF PressAfter
    <3>4. /\ binding' \in Bindings /\ stored' \in Bindings
          /\ dirty' \in BOOLEAN /\ storeWait' \in BOOLEAN
          /\ timer' \in Timers /\ overlay' \in Overlays /\ panel' \in Frames
      BY <2>1, <3>1, <3>2, AdoptTyped
    <3> QED BY <1>1, <3>3, <3>4 DEF ReceiveState
  <2>2. CASE ~(answer # 0 /\ Adopts(answer))
    BY <1>1, <2>2 DEF ReceiveState, HandleStateResult
  <2> QED BY <2>1, <2>2
<1>2. CASE ReceiveDone \/ OnlineStill \/ BindingNotDue \/ RequestState
             \/ RequestNothing \/ NoInput \/ PowerOn
  BY <1>2 DEF ReceiveDone, OnlineStill, BindingNotDue, RequestState,
    RequestNothing, NoInput, PowerOn
<1>3. ASSUME NEW drawn \in Draws, WentOffline(drawn) PROVE PartsTyped'
  <2>1. OfflineTicks \in Nat /\ drawn \in BOOLEAN
    BY CoreAssumption, DrawsTyped
  <2>2. overlay' \in Overlays /\ panel' \in Frames
    BY <1>3, <2>1, ShowCodeTyped DEF WentOffline
  <2> QED BY <1>3, <2>2 DEF WentOffline
<1>4. ASSUME NEW result \in StoreResults, RetryDirtyBinding(result)
      PROVE  PartsTyped'
  BY <1>4 DEF RetryDirtyBinding, RetryStore, WriteBinding
<1>5. ASSUME NEW drawn \in Draws, PollTimerAndOverlay(drawn) PROVE PartsTyped'
  <2>1. drawn \in BOOLEAN /\ PolledTimer \in Timers
    BY DrawsTyped, PolledTyped
  <2>2. timer' \in Timers /\ panel' \in Frames
    <3>1. CASE RenderDue
      BY <1>5, <2>1, <3>1, RenderTyped DEF PollTimerAndOverlay
    <3>2. CASE ~RenderDue
      BY <1>5, <2>1, <3>2 DEF PollTimerAndOverlay, NoRender
    <3> QED BY <3>1, <3>2
  <2>3. overlay' \in Overlays
    BY <1>5 DEF PollTimerAndOverlay, Overlays, Expired
  <2> QED BY <1>5, <2>2, <2>3 DEF PollTimerAndOverlay
<1>6. CASE Press
  <2>1. keys' \in Seq(KeyEvent)
    BY <1>6, HeadTailProperties DEF Press, TakeKey
  <2> QED BY <1>6, <2>1 DEF Press, TakeKey
<1>7. CASE NoTimerGesture
  <2>1. keys' \in Seq(KeyEvent)
    BY <1>7, HeadTailProperties DEF NoTimerGesture, Release, TakeKey
  <2> QED BY <1>7, <2>1 DEF NoTimerGesture, Release, TakeKey
<1>8. ASSUME NEW drawn \in Draws, ToggleTimer(drawn) PROVE PartsTyped'
  <2>1. keys' \in Seq(KeyEvent)
    BY <1>8, HeadTailProperties DEF ToggleTimer, Release, TakeKey
  <2>2. drawn \in BOOLEAN /\ ToggledTimer \in Timers
    BY <1>8, DrawsTyped, ToggledTyped DEF ToggleTimer
  <2>3. timer' \in Timers /\ panel' \in Frames
    <3>1. CASE overlay.active
      BY <1>8, <2>2, <3>1 DEF ToggleTimer, NoRender
    <3>2. CASE ~overlay.active
      BY <1>8, <2>2, <3>2, RenderTyped DEF ToggleTimer
    <3> QED BY <3>1, <3>2
  <2> QED BY <1>8, <2>1, <2>3 DEF ToggleTimer, Release, TakeKey
<1>9. ASSUME NEW readable \in BOOLEAN, Boot(readable) PROVE PartsTyped'
  <2>1. binding' \in Bindings
    BY <1>9, PublishedTyped DEF Boot
  <2>2. panel' \in Frames
    BY <1>9, <2>1 DEF Boot, ViewFrame, Frames
  <2> QED BY <1>9, <2>1, <2>2 DEF Boot
<1>10. CASE Crash
  <2>1. Code \in Frames /\ 0 \in Bindings /\ <<>> \in Seq(KeyEvent)
    BY PublishedTyped DEF Code, Frames
  <2> QED BY <1>10, <2>1, ResetTyped DEF Crash
<1>11. ASSUME NEW event \in KeyEvent, KeyMoves(event) PROVE PartsTyped'
  <2>1. keys' \in Seq(KeyEvent) /\ down' \in BOOLEAN
    BY <1>11, KeysTyped DEF KeyMoves, KeyEvent
  <2> QED BY <1>11, <2>1 DEF KeyMoves
<1>12. ASSUME NEW s \in Bindings, WorkerAnswers(s) PROVE PartsTyped'
  BY <1>12 DEF WorkerAnswers
<1>13. CASE CloudPublishes
  <2>1. published' \in Bindings
    BY <1>13, PublishedTyped DEF CloudPublishes
  <2> QED BY <1>13, <2>1 DEF CloudPublishes
<1>14. CASE Tick
  <2>1. timer \in Timers /\ overlay \in Overlays
    OBVIOUS
  <2>2. overlay' \in Overlays
    BY <1>14, <2>1 DEF Tick, Overlays, Later
  <2>3. [timer EXCEPT !.left = Later(@)] \in Timers
    BY <2>1 DEF Timers, Later
  <2>4. timer' \in Timers
    BY <1>14, <2>1, <2>3 DEF Tick
  <2> QED BY <1>14, <2>2, <2>4 DEF Tick
<1>15. CASE StoreRetryElapses
  BY <1>15 DEF StoreRetryElapses
<1>16. CASE UNCHANGED vars
  BY <1>16 DEF vars, moving
<1>17. [pressed |-> TRUE, long |-> FALSE] \in KeyEvent
       /\ \A long \in BOOLEAN : [pressed |-> FALSE, long |-> long] \in KeyEvent
  BY DEF KeyEvent
<1> QED
  BY <1>1, <1>2, <1>3, <1>4, <1>5, <1>6, <1>7, <1>8, <1>9, <1>10, <1>11, <1>12,
     <1>13, <1>14, <1>15, <1>16, <1>17
  DEF Next, LoopStep, KeyDown, KeyUp
-----------------------------------------------------------------------------
(* A drawing notes the minutes it shows and leaves the state of the timer. *)
LEMMA RenderKeepsTimer ==
  ASSUME NEW b, NEW t \in Timers, NEW drawn,
         RenderCurrent(b, t, drawn) \/ NoRender(t)
  PROVE  timer'.status = t.status
<1>1. timer' = t \/ timer' = [t EXCEPT !.shown = t.left]
  BY DEF RenderCurrent, NoRender
<1> QED BY <1>1 DEF Timers

LEMMA AdoptKeepsTimer ==
  ASSUME PartsTyped, NEW s \in Bindings, NEW result, NEW drawn,
         AdoptState(s, result, drawn)
  PROVE  timer'.status = ConfiguredTimer(s).status
<1> DEFINE t == ConfiguredTimer(s)
<1>1. t \in Timers
  BY ConfiguredTyped
<1> HIDE DEF t
<1>2. timer' = t \/ RenderCurrent(s, t, drawn) \/ NoRender(t)
  BY DEF AdoptState, t
<1>3. timer'.status = t.status
  BY <1>1, <1>2, RenderKeepsTimer
<1> QED BY <1>3 DEF t

(* The steps that bind no other App, start no timer and see no press. *)
Elsewhere ==
  \/ ReceiveDone \/ OnlineStill \/ \E drawn \in Draws : WentOffline(drawn)
  \/ BindingNotDue \/ RequestState \/ RequestNothing \/ NoInput
  \/ PowerOn \/ \E event \in KeyEvent : KeyMoves(event)
  \/ \E s \in Bindings : WorkerAnswers(s)
  \/ CloudPublishes \/ StoreRetryElapses \/ UNCHANGED vars

LEMMA ElsewhereUnchanged ==
  ASSUME Elsewhere
  PROVE  /\ UNCHANGED <<binding, dirty, stored, timer, pressed, pressedIn, startedIn>>
         /\ Running' => Running
         /\ ~Running => UNCHANGED overlay
<1> USE DEF coreVars, keyVars, netVars, vars, moving, Running, Loop
<1>1. ASSUME NEW drawn \in Draws, WentOffline(drawn)
      PROVE  /\ UNCHANGED <<binding, dirty, stored, timer, pressed, pressedIn,
                            startedIn>>
             /\ Running
  BY <1>1 DEF WentOffline
<1>2. CASE ReceiveDone \/ OnlineStill \/ BindingNotDue \/ RequestState
             \/ RequestNothing \/ NoInput
  BY <1>2 DEF ReceiveDone, OnlineStill, BindingNotDue, RequestState,
    RequestNothing, NoInput
<1>3. CASE PowerOn
  BY <1>3 DEF PowerOn
<1>4. ASSUME NEW event \in KeyEvent, KeyMoves(event)
      PROVE UNCHANGED <<pc, coreVars>>
  BY <1>4 DEF KeyMoves
<1>5. ASSUME NEW s \in Bindings, WorkerAnswers(s)
      PROVE UNCHANGED <<pc, coreVars>>
  BY <1>5 DEF WorkerAnswers
<1>6. CASE CloudPublishes \/ StoreRetryElapses \/ UNCHANGED vars
  BY <1>6 DEF CloudPublishes, StoreRetryElapses
<1> QED
  BY <1>1, <1>2, <1>3, <1>4, <1>5, <1>6 DEF Elsewhere

(* The remaining steps, with an adoption told from a reply without effect. *)
LEMMA Steps ==
  ASSUME PartsTyped, [Next]_vars
  PROVE  \/ Elsewhere
         \/ \E s \in Bindings, result \in StoreResults, drawn \in Draws :
              /\ pc = "receive" /\ s # 0
              /\ Adopts(s) /\ AdoptState(s, result, drawn)
              /\ pressed' = PressAfter(s)
              /\ UNCHANGED <<pc, pressedIn, startedIn>>
         \/ /\ pc = "receive"
            /\ UNCHANGED <<pc, coreVars>>
         \/ \E result \in StoreResults : RetryDirtyBinding(result)
         \/ \E drawn \in Draws : PollTimerAndOverlay(drawn)
         \/ Press \/ NoTimerGesture
         \/ \E drawn \in Draws : ToggleTimer(drawn)
         \/ \E readable \in BOOLEAN : Boot(readable)
         \/ Crash \/ Tick
<1>1. ASSUME NEW result \in StoreResults, NEW drawn \in Draws,
             ReceiveState(result, drawn)
      PROVE  \/ /\ pc = "receive" /\ answer # 0
                /\ Adopts(answer) /\ AdoptState(answer, result, drawn)
                /\ pressed' = PressAfter(answer)
                /\ UNCHANGED <<pc, pressedIn, startedIn>>
             \/ pc = "receive" /\ UNCHANGED <<pc, coreVars>>
  BY <1>1 DEF ReceiveState, HandleStateResult, coreVars
<1>2. answer \in Bindings
  BY DEF PartsTyped
<1>3. [pressed |-> TRUE, long |-> FALSE] \in KeyEvent
       /\ \A long \in BOOLEAN : [pressed |-> FALSE, long |-> long] \in KeyEvent
  BY DEF KeyEvent
<1>4. KeyDown \/ (\E long \in BOOLEAN : KeyUp(long)) => Elsewhere
  BY <1>3 DEF KeyDown, KeyUp, Elsewhere
<1> QED BY <1>1, <1>2, <1>4 DEF Next, LoopStep, Elsewhere
-----------------------------------------------------------------------------
(* Before the loop runs nothing of the last session is left. *)
StartsClean ==
  ~Running => /\ binding = 0 /\ ~dirty /\ ~pressed
              /\ timer = TimerInit /\ overlay = OverlayInit

(* What was taken for stored is in the flash or older than what is there, and
   what runs is not older. *)
KeptInv ==
  /\ kept \in Nat
  /\ kept <= Revision(stored)
  /\ dirty => binding # 0
  /\ binding # 0 => kept <= Revision(binding)
  /\ Running /\ binding = 0 => kept = 0

IInv == /\ PartsTyped /\ StartsClean /\ CleanMeansStored /\ KeptInv
        /\ TimerOfBoundApp /\ GestureWithinApp

LEMMA StartsCleanStep == IInv /\ [Next]_vars => StartsClean'
<1> SUFFICES ASSUME PartsTyped, StartsClean, [Next]_vars PROVE StartsClean'
  BY DEF IInv
<1> USE DEF StartsClean, Running, Loop, coreVars
<1>1. CASE Elsewhere
  <2>1. UNCHANGED <<binding, dirty, timer, pressed>>
    BY <1>1, ElsewhereUnchanged
  <2>2. CASE pc \in Loop /\ pc' \notin Loop
    BY <1>1, <2>2 DEF Elsewhere, ReceiveDone, OnlineStill, WentOffline,
      BindingNotDue, RequestState, RequestNothing, NoInput, PowerOn, KeyMoves,
      WorkerAnswers, CloudPublishes, StoreRetryElapses, vars, moving
  <2>3. CASE pc \notin Loop
    BY <1>1, <2>1, <2>3, ElsewhereUnchanged
  <2> QED BY <2>2, <2>3
<1>2. CASE pc = "receive" /\ UNCHANGED pc
  BY <1>2
<1>3. CASE (\E result \in StoreResults : RetryDirtyBinding(result))
             \/ (\E drawn \in Draws : PollTimerAndOverlay(drawn))
             \/ Press \/ NoTimerGesture
             \/ (\E drawn \in Draws : ToggleTimer(drawn))
             \/ (\E readable \in BOOLEAN : Boot(readable))
  BY <1>3 DEF RetryDirtyBinding, PollTimerAndOverlay, Press, NoTimerGesture,
    ToggleTimer, Release, TakeKey, Boot
<1>4. CASE Crash
  BY <1>4 DEF Crash
<1>5. CASE Tick
  BY <1>5 DEF Tick, TimerInit, OverlayInit
<1> QED BY <1>1, <1>2, <1>3, <1>4, <1>5, Steps

(* The flash holds the binding whenever no store is owed (apply_state,
   retry_dirty_binding, pb_runtime_init). *)
LEMMA StoredStep == IInv /\ [Next]_vars => CleanMeansStored'
<1> SUFFICES ASSUME PartsTyped, StartsClean, CleanMeansStored, [Next]_vars
             PROVE  CleanMeansStored'
  BY DEF IInv
<1> USE DEF CleanMeansStored, Running, Loop, coreVars
<1>1. CASE Elsewhere
  BY <1>1, ElsewhereUnchanged
<1>2. ASSUME NEW s \in Bindings, NEW result \in StoreResults, NEW drawn \in Draws,
             AdoptState(s, result, drawn)
      PROVE  CleanMeansStored'
  BY <1>2 DEF AdoptState, StoreBinding, WriteBinding
<1>3. CASE pc = "receive" /\ UNCHANGED <<pc, coreVars>>
  BY <1>3
<1>4. ASSUME NEW result \in StoreResults, RetryDirtyBinding(result)
      PROVE  CleanMeansStored'
  BY <1>4 DEF RetryDirtyBinding, RetryStore, WriteBinding
<1>5. CASE (\E drawn \in Draws : PollTimerAndOverlay(drawn))
             \/ Press \/ NoTimerGesture
             \/ (\E drawn \in Draws : ToggleTimer(drawn)) \/ Tick
  BY <1>5 DEF PollTimerAndOverlay, Press, NoTimerGesture, ToggleTimer, Release,
    TakeKey, Tick
<1>6. ASSUME NEW readable \in BOOLEAN, Boot(readable) PROVE CleanMeansStored'
  BY <1>6 DEF Boot, StartsClean
<1>7. CASE Crash
  BY <1>7 DEF Crash
<1> QED BY <1>1, <1>2, <1>3, <1>4, <1>5, <1>6, <1>7, Steps

LEMMA RevisionTyped == \A b \in Bindings : Revision(b) \in Nat
  BY PublishedTyped DEF Revision, State

(* No step undoes what was taken for stored, in the flash or in what runs. *)
LEMMA KeptThrough ==
  ASSUME IInv, [Next]_vars
  PROVE  /\ kept <= Revision(stored')
         /\ dirty' => binding' # 0
         /\ binding' # 0 => kept <= Revision(binding')
<1>0. /\ PartsTyped /\ StartsClean /\ kept \in Nat /\ kept <= Revision(stored)
      /\ dirty => binding # 0
      /\ binding # 0 => kept <= Revision(binding)
      /\ Running /\ binding = 0 => kept = 0
  BY DEF IInv, KeptInv
<1>1. CASE UNCHANGED <<binding, dirty, stored>>
  BY <1>0, <1>1
<1>2. CASE Elsewhere
  BY <1>0, <1>2, ElsewhereUnchanged
<1>3. ASSUME NEW s \in Bindings, NEW result \in StoreResults, NEW drawn \in Draws,
             pc = "receive", s # 0, Adopts(s), AdoptState(s, result, drawn)
      PROVE  /\ kept <= Revision(stored')
             /\ binding' = s
             /\ kept <= Revision(s)
  <2>1. kept <= Revision(s)
    <3>1. CASE binding = 0
      BY <1>0, <1>3, <3>1, RevisionTyped DEF Running, Loop
    <3>2. CASE binding # 0
      <4>1. Revision(s) \in Nat /\ Revision(binding) \in Nat
        BY <1>0, RevisionTyped DEF PartsTyped
      <4>2. Revision(binding) < Revision(s) /\ kept <= Revision(binding)
        BY <1>0, <1>3, <3>2 DEF Adopts, Revision
      <4> QED BY <1>0, <4>1, <4>2
    <3> QED BY <3>1, <3>2
  <2>2. binding' = s /\ stored' \in {stored, s}
    BY <1>3 DEF AdoptState, StoreBinding, WriteBinding
  <2> QED BY <1>0, <2>1, <2>2
<1>4. ASSUME NEW result \in StoreResults, RetryDirtyBinding(result)
      PROVE  /\ kept <= Revision(stored')
             /\ binding' = binding /\ dirty
  BY <1>0, <1>4 DEF RetryDirtyBinding, RetryStore, WriteBinding
<1>5. CASE (\E drawn \in Draws : PollTimerAndOverlay(drawn))
             \/ Press \/ NoTimerGesture
             \/ (\E drawn \in Draws : ToggleTimer(drawn)) \/ Tick
  BY <1>1, <1>5 DEF PollTimerAndOverlay, Press, NoTimerGesture, ToggleTimer,
    Release, TakeKey, Tick
<1>6. ASSUME NEW readable \in BOOLEAN, Boot(readable)
      PROVE  stored' = stored /\ binding' \in {stored, 0} /\ ~dirty'
  BY <1>0, <1>6 DEF Boot, StartsClean, Running, Loop
<1>7. CASE Crash
  BY <1>0, <1>7 DEF Crash
<1>8. CASE pc = "receive" /\ UNCHANGED <<pc, coreVars>>
  BY <1>1, <1>8 DEF coreVars
<1> QED
  BY <1>0, <1>2, <1>3, <1>4, <1>5, <1>6, <1>7, <1>8, Steps

LEMMA KeptStep == IInv /\ [Next]_vars => KeptInv'
<1> SUFFICES ASSUME IInv, [Next]_vars PROVE KeptInv'
  OBVIOUS
<1>0. /\ PartsTyped' /\ CleanMeansStored' /\ KeptInv
  BY TypeStep, StoredStep DEF IInv
<1>1. CASE Remember
  <2>1. Revision(binding') \in Nat /\ Revision(stored') \in Nat
    BY <1>0, RevisionTyped DEF PartsTyped
  <2>2. Revision(0) = 0
    BY DEF Revision
  <2>3. CASE Running' /\ ~dirty'
    <3>1. kept' = Revision(binding')
      BY <1>1, <2>3 DEF Remember
    <3> QED
      BY <1>0, <2>1, <2>2, <2>3, <3>1 DEF KeptInv, CleanMeansStored, Revision
  <2>4. CASE ~(Running' /\ ~dirty')
    <3>1. kept' = kept
      BY <1>1, <2>4 DEF Remember
    <3> QED
      BY <1>0, <2>4, <3>1, KeptThrough DEF KeptInv, Revision
  <2> QED BY <2>3, <2>4
<1>2. CASE UNCHANGED vars
  BY <1>0, <1>2 DEF KeptInv, vars, moving, coreVars, Running, Revision
<1> QED BY <1>1, <1>2 DEF Next

(* What is left active after a state has been adopted had been started for the
   App that stays bound (pb_timer_configure). *)
LEMMA TimerStep == IInv /\ [Next]_vars => TimerOfBoundApp'
<1> SUFFICES ASSUME PartsTyped, StartsClean, TimerOfBoundApp, [Next]_vars
             PROVE  TimerOfBoundApp'
  BY DEF IInv
<1> USE DEF TimerOfBoundApp, TimerActive, App, Enabled
<1>1. CASE Elsewhere
  BY <1>1, ElsewhereUnchanged
<1>2. ASSUME NEW s \in Bindings, NEW result \in StoreResults, NEW drawn \in Draws,
             s # 0, AdoptState(s, result, drawn), UNCHANGED startedIn
      PROVE  TimerOfBoundApp'
  <2>1. binding' = s /\ timer'.status = ConfiguredTimer(s).status
    BY <1>2, AdoptKeepsTimer DEF AdoptState
  <2>2. ConfiguredTimer(s).status # "ready" =>
          ~Replaces(s) /\ Enabled(s) /\ timer.status # "ready"
    BY DEF ConfiguredTimer, TimerInit, PartsTyped, Timers
  <2> QED BY <1>2, <2>1, <2>2 DEF Replaces
<1>3. CASE pc = "receive" /\ UNCHANGED <<pc, coreVars>>
  BY <1>3 DEF coreVars
<1>4. CASE (\E result \in StoreResults : RetryDirtyBinding(result))
             \/ Press \/ NoTimerGesture
  BY <1>4 DEF RetryDirtyBinding, Press, NoTimerGesture, Release, TakeKey
<1>5. ASSUME NEW drawn \in Draws, PollTimerAndOverlay(drawn)
      PROVE  TimerOfBoundApp'
  <2>1. timer'.status = PolledTimer.status
    BY <1>5, PolledTyped, RenderKeepsTimer DEF PollTimerAndOverlay
  <2>2. PolledTimer.status # "ready" => timer.status # "ready"
    BY DEF PolledTimer, PartsTyped, Timers
  <2> QED BY <1>5, <2>1, <2>2 DEF PollTimerAndOverlay
<1>6. ASSUME NEW drawn \in Draws, ToggleTimer(drawn) PROVE TimerOfBoundApp'
  BY <1>6 DEF ToggleTimer, Release, TakeKey
<1>7. ASSUME NEW readable \in BOOLEAN, Boot(readable) PROVE TimerOfBoundApp'
  BY <1>7 DEF Boot, StartsClean, Running, Loop, TimerInit
<1>8. CASE Crash
  BY <1>8 DEF Crash, TimerInit
<1>9. CASE Tick
  <2>1. timer'.status = timer.status
    BY <1>9 DEF Tick, PartsTyped, Timers
  <2> QED BY <1>9, <2>1 DEF Tick
<1> QED BY <1>1, <1>2, <1>3, <1>4, <1>5, <1>6, <1>7, <1>8, <1>9, Steps

(* A new App ends the press (handle_state_result). *)
LEMMA GestureStep == IInv /\ [Next]_vars => GestureWithinApp'
<1> SUFFICES ASSUME PartsTyped, StartsClean, GestureWithinApp, [Next]_vars
             PROVE  GestureWithinApp'
  BY DEF IInv
<1> USE DEF GestureWithinApp, App
<1>1. CASE Elsewhere
  BY <1>1, ElsewhereUnchanged
<1>2. ASSUME NEW s \in Bindings, NEW result \in StoreResults, NEW drawn \in Draws,
             s # 0, AdoptState(s, result, drawn), pressed' = PressAfter(s),
             UNCHANGED pressedIn
      PROVE  GestureWithinApp'
  BY <1>2 DEF AdoptState, PressAfter, Replaces
<1>3. CASE pc = "receive" /\ UNCHANGED <<pc, coreVars>>
  BY <1>3 DEF coreVars
<1>4. CASE (\E result \in StoreResults : RetryDirtyBinding(result))
             \/ (\E drawn \in Draws : PollTimerAndOverlay(drawn)) \/ Tick
  BY <1>4 DEF RetryDirtyBinding, PollTimerAndOverlay, Tick
<1>5. CASE Press
  BY <1>5 DEF Press, TakeKey
<1>6. CASE NoTimerGesture \/ (\E drawn \in Draws : ToggleTimer(drawn)) \/ Crash
  BY <1>6 DEF NoTimerGesture, ToggleTimer, Release, Crash
<1>7. ASSUME NEW readable \in BOOLEAN, Boot(readable) PROVE GestureWithinApp'
  BY <1>7 DEF Boot, StartsClean, Running, Loop
<1> QED BY <1>1, <1>2, <1>3, <1>4, <1>5, <1>6, <1>7, Steps

LEMMA Invariance == Spec => []IInv
<1>1. Init => IInv
  <2>1. Init => PartsTyped
    <3>1. Code \in Frames /\ 0 \in Bindings /\ <<>> \in Seq(KeyEvent)
      BY PublishedTyped DEF Code, Frames
    <3> QED BY <3>1, ResetTyped DEF Init, PartsTyped, Loop
  <2> QED
    BY <2>1 DEF Init, IInv, StartsClean, CleanMeansStored, KeptInv, Revision,
      TimerOfBoundApp, GestureWithinApp, Running, Loop, TimerActive, TimerInit
<1>2. IInv /\ [Next]_vars => IInv'
  BY TypeStep, StartsCleanStep, StoredStep, KeptStep, TimerStep, GestureStep
  DEF IInv
<1> QED BY <1>1, <1>2, PTL DEF Spec

(* Every variable keeps its type (pb_runtime.c). *)
THEOREM TypeCorrect == Spec => []TypeOK
<1>1. IInv => TypeOK
  BY Parts DEF IInv, KeptInv
<1> QED BY <1>1, Invariance, PTL

(* Whatever fails to be stored, is stored again or is read at a start: a
   binding for which no store is owed is the one in flash
   (pb_runtime.c:114-121,323-346). *)
THEOREM StoreIsTrue == Spec => []CleanMeansStored
<1>1. IInv => CleanMeansStored
  BY DEF IInv
<1> QED BY <1>1, Invariance, PTL

(* A timer that runs or is paused was started under the App that is bound,
   which still has one (pb_runtime.c:123-128). *)
THEOREM TimerKeepsApp == Spec => []TimerOfBoundApp
<1>1. IInv => TimerOfBoundApp
  BY DEF IInv
<1> QED BY <1>1, Invariance, PTL

(* No press is completed under another App (pb_runtime.c:239-241). *)
THEOREM GestureKeepsApp == Spec => []GestureWithinApp
<1>1. IInv => GestureWithinApp
  BY DEF IInv
<1> QED BY <1>1, Invariance, PTL

(* What the device took for stored is never undone by a failing store, a retry,
   a power failure or a stale state: no later start and no adoption makes it
   run an older revision (pb_runtime.c:79-121,323-346,517-521). *)
THEOREM StoredStatesStay == Spec => NoDowngrade
<1> DEFINE Newer == binding' # 0 => Revision(binding') >= kept
<1>1. IInv /\ [Next]_vars => Newer
  <2> SUFFICES ASSUME IInv, [Next]_vars, binding' # 0
               PROVE  Revision(binding') >= kept
    OBVIOUS
  <2>1. kept <= Revision(binding')
    BY KeptThrough
  <2>2. kept \in Nat /\ Revision(binding') \in Nat
    <3>1. PartsTyped'
      BY TypeStep DEF IInv
    <3>2. binding' \in Bindings
      BY <3>1 DEF PartsTyped
    <3>3. \A b \in Bindings : Revision(b) \in Nat
      BY RevisionTyped
    <3> QED BY <3>2, <3>3 DEF IInv, KeptInv, Revision
  <2> QED BY <2>1, <2>2
<1>2. Newer => [Newer]_vars
  OBVIOUS
<1> HIDE DEF Newer
<1>3. Spec => [][Newer]_vars
  BY <1>1, <1>2, Invariance, PTL DEF Spec
<1> QED BY <1>3 DEF NoDowngrade, Newer
-----------------------------------------------------------------------------
(* The panel, when it draws what it is asked to. *)
LEMMA RenderShows ==
  ASSUME NEW b, NEW t \in Timers, RenderCurrent(b, t, TRUE)
  PROVE  panel' = IF TimerActive(timer') THEN TimerFrame(b, timer', timer'.shown)
                                         ELSE ViewFrame(b)
<1>1. CASE TimerActive(t)
  <2>1. panel' = TimerFrame(b, t, t.left) /\ timer' = [t EXCEPT !.shown = t.left]
    BY <1>1 DEF RenderCurrent, Draw
  <2>2. timer'.status = t.status /\ timer'.shown = t.left
    BY <2>1 DEF Timers
  <2> QED BY <1>1, <2>1, <2>2 DEF TimerActive, TimerFrame
<1>2. CASE ~TimerActive(t)
  BY <1>2 DEF RenderCurrent, Draw
<1> QED BY <1>1, <1>2

LEMMA PanelStep ==
  ASSUME RenderMayFail = FALSE
  PROVE  IInv /\ PanelShowsState /\ [Next]_vars => PanelShowsState'
<1> SUFFICES ASSUME PartsTyped, StartsClean, PanelShowsState, [Next]_vars, Running'
             PROVE  PanelShowsState'
  BY DEF IInv, PanelShowsState
<1> USE DEF PanelShowsState
<1>0. /\ \A drawn \in Draws : drawn = TRUE
      /\ timer \in Timers /\ overlay \in Overlays
  BY DEF Draws, PartsTyped
<1>1. CASE Elsewhere
  <2>1. ASSUME NEW drawn \in Draws, WentOffline(drawn) PROVE PanelShowsState'
    BY <2>1, <1>0 DEF WentOffline, ShowCode, Draw
  <2>2. ASSUME ~ \E drawn \in Draws : WentOffline(drawn)
        PROVE  UNCHANGED <<overlay, panel>>
    BY <1>1, <2>2 DEF Elsewhere, ReceiveDone, OnlineStill, BindingNotDue,
      RequestState, RequestNothing, NoInput, PowerOn, KeyMoves, WorkerAnswers,
      CloudPublishes, StoreRetryElapses, vars, moving, coreVars
  <2>3. UNCHANGED <<binding, timer>> /\ Running
    BY <1>1, ElsewhereUnchanged
  <2> QED BY <2>1, <2>2, <2>3
<1>2. ASSUME NEW s \in Bindings, NEW result \in StoreResults, NEW drawn \in Draws,
             pc = "receive", s # 0, AdoptState(s, result, drawn)
      PROVE  PanelShowsState'
  <2> DEFINE o == IF Replaces(s) THEN OverlayInit ELSE overlay
             t == ConfiguredTimer(s)
  <2>1. t \in Timers /\ drawn = TRUE
    BY <1>0, ConfiguredTyped
  <2>2. binding' = s
    BY <1>2 DEF AdoptState
  <2> HIDE DEF t
  <2>3. CASE Published[s].overlay > 0
    <3>1. ShowCode(Published[s].overlay, o, TRUE)
      BY <1>2, <2>1, <2>3 DEF AdoptState
    <3>2. overlay'.active /\ panel' = Code
      BY <3>1 DEF ShowCode, Draw
    <3> QED BY <3>2
  <2>4. CASE ~(Published[s].overlay > 0) /\ o.active
    <3>1. o = overlay /\ overlay.active
      BY <2>4 DEF OverlayInit
    <3>2. overlay' = o /\ panel' = panel
      BY <1>2, <2>4 DEF AdoptState, NoRender
    <3>3. panel = Code
      BY <1>2, <3>1 DEF Running, Loop
    <3> QED BY <3>1, <3>2, <3>3
  <2>5. CASE ~(Published[s].overlay > 0) /\ ~o.active
    <3>1. overlay' = o /\ RenderCurrent(s, t, TRUE)
      BY <1>2, <2>1, <2>5 DEF AdoptState, t
    <3> QED BY <2>1, <2>2, <2>5, <3>1, RenderShows
  <2> QED BY <2>3, <2>4, <2>5
<1>3. CASE pc = "receive" /\ UNCHANGED <<pc, coreVars>>
  BY <1>3 DEF coreVars, Running
<1>4. CASE (\E result \in StoreResults : RetryDirtyBinding(result))
             \/ Press \/ NoTimerGesture
  BY <1>4 DEF RetryDirtyBinding, Press, NoTimerGesture, Release, TakeKey,
    Running, Loop
<1>5. ASSUME NEW drawn \in Draws, PollTimerAndOverlay(drawn)
      PROVE  PanelShowsState'
  <2>1. drawn = TRUE /\ PolledTimer \in Timers /\ Running
    BY <1>0, <1>5, PolledTyped DEF PollTimerAndOverlay, Running, Loop
  <2>2. overlay'.active = (overlay.active /\ ~Expired) /\ binding' = binding
    BY <1>0, <1>5 DEF PollTimerAndOverlay, Overlays
  <2>3. CASE RenderDue
    <3>1. RenderCurrent(binding, PolledTimer, TRUE)
      BY <1>5, <2>1, <2>3 DEF PollTimerAndOverlay
    <3>2. ~overlay'.active
      BY <2>2, <2>3 DEF RenderDue
    <3> QED BY <2>1, <2>2, <3>1, <3>2, RenderShows
  <2>4. CASE ~RenderDue
    <3>1. timer' = PolledTimer /\ panel' = panel
      BY <1>5, <2>4 DEF PollTimerAndOverlay, NoRender
    <3>2. ~Expired /\ (overlay.active \/ PolledTimer = timer)
      BY <2>4 DEF RenderDue, PolledTimer
    <3> QED BY <2>1, <2>2, <3>1, <3>2
  <2> QED BY <2>3, <2>4
<1>6. ASSUME NEW drawn \in Draws, ToggleTimer(drawn) PROVE PanelShowsState'
  <2>1. /\ drawn = TRUE /\ ToggledTimer \in Timers /\ Running
        /\ UNCHANGED <<overlay, binding>>
    BY <1>0, <1>6, ToggledTyped
    DEF ToggleTimer, Release, TakeKey, Running, Loop
  <2>2. CASE overlay.active
    BY <1>6, <2>1, <2>2 DEF ToggleTimer, NoRender
  <2>3. CASE ~overlay.active
    <3>1. RenderCurrent(binding, ToggledTimer, TRUE)
      BY <1>6, <2>1, <2>3 DEF ToggleTimer
    <3> QED BY <2>1, <2>3, <3>1, RenderShows
  <2> QED BY <2>2, <2>3
<1>7. ASSUME NEW readable \in BOOLEAN, Boot(readable) PROVE PanelShowsState'
  BY <1>7 DEF Boot, StartsClean, Running, Loop, TimerInit, OverlayInit,
    TimerActive
<1>8. CASE Crash
  BY <1>8 DEF Crash, Running, Loop
<1>9. CASE Tick
  <2>1. timer'.status = timer.status /\ timer'.shown = timer.shown
    BY <1>0, <1>9 DEF Tick, Timers
  <2>2. overlay'.active = overlay.active
    BY <1>0, <1>9 DEF Tick, Overlays
  <2>3. UNCHANGED <<pc, binding, panel>>
    BY <1>9 DEF Tick
  <2> QED BY <2>1, <2>2, <2>3 DEF TimerActive, TimerFrame, Running
<1> QED BY <1>1, <1>2, <1>3, <1>4, <1>5, <1>6, <1>7, <1>8, <1>9, Steps

(* On a panel that draws, an overlay is shown as long as it is up, and the
   timer or the view of the App otherwise, whatever comes in between
   (pb_runtime.c:137-155,348-372,447-470). *)
THEOREM PanelIsTrue ==
  ASSUME RenderMayFail = FALSE
  PROVE  Spec => []PanelShowsState
<1>1. Init => PanelShowsState
  BY DEF Init, PanelShowsState, Running, Loop
<1>2. IInv /\ PanelShowsState /\ [Next]_vars => PanelShowsState'
  BY PanelStep
<1> QED BY <1>1, <1>2, Invariance, PTL DEF Spec
=============================================================================
