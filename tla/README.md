# Verification of the PB runtime

TLA+ models, TLC runs and TLAPS proofs for the PB runtime: the firmware in
`apps/pb-runtime` and `sdk/` that lets an ESP32 behind an old front panel run
Apps published by a cloud service. Source paths below are relative to the
repository root; line numbers are in the comments of the modules and in
`PROJECT.json`.

## 1. The system

Three tasks and a server:

| Part | Source | State it keeps | Operations |
| --- | --- | --- | --- |
| Core task (`pb_runtime_run`) | `sdk/pb-runtime/src/pb_runtime.c` | binding, timer, overlay, pressed flag, in-flight flags, deadlines | receive results, offline overlay, retry of the binding store, timer and overlay, schedule requests, key input |
| Event queue | `sdk/pb-runtime/src/pb_event_queue.c` | up to 24 events in RAM and as one NVS blob per source; an older global blob; a quarantine flag | enqueue, pop, start with migration |
| Binding store | `sdk/pb-runtime/src/pb_binding.c` | the adopted App state in NVS | load, store, compare |
| Local timer | `sdk/pb-runtime/src/pb_timer.c` | ready / running / paused, deadline, last shown minutes | configure, toggle, poll, make view |
| Overlay | `sdk/pb-runtime/src/pb_overlay.c` | active, expiry | show a code, take expiry |
| View, HAL | `pb_view.c`, `sdk/pb-hal`, `sdk/old-panel/src/old_panel.c` | the panel and its driver, chosen at the start | render (four driver calls), wait for a key event |
| LP-001 driver and scan task | `sdk/old-panel/src/drivers/lp001.c` | segments, brightness, blink phase, one debounced line, 12 key events | setters, scan of digits and keys, key query |
| LP-003 driver and poll task | `sdk/old-panel/src/drivers/lp003.c` | the chip's RAM and control register, blink phase, debounced keys, 16 key events | setters by bus transfers, poll of keys and blink phase |
| Network worker task | `apps/pb-runtime/main/pb_network_worker.c` | two FreeRTOS queues of 4 | take a request, perform it, queue the result |
| Cloud client | `apps/pb-runtime/main/pb_cloud.c` | a response buffer | GET state, POST event, parsing |
| Assembly, Wi-Fi event task | `apps/pb-runtime/main/main.c` | connected bit, two volatile flags | NVS start, Wi-Fi events, start of the core |
| Conformance server | `tools/pb-conformance-server` | published state, history, accepted events | state, event, commands |

The core is the only writer of the run-time state. It posts requests to the
worker without waiting and reads results without waiting. The worker blocks in
HTTP. The panel driver samples keys in a task of its own and hands them over by
a queue. Everything persistent goes through NVS, where a write can fail before
or after it took effect and power can fail between any two writes.

What is hard here: an event may be posted, processed, acknowledged and removed
with a crash, a lost reply or a failed flash write between any two of these; a
start moves inherited events between NVS entries under the same conditions; an
App may be replaced while its timer runs, its overlay is up or a key is held;
drawing is suppressed and resumed around overlays; a render is four driver calls
on a bus that may fail within each; keys bounce, cannot be read and overflow
their queue; deadlines are words of a tick counter that wraps; and the Wi-Fi
task shares flags with the core without a lock. `PROJECT.json` lists the
hazards one by one, at their lines, with the properties that cover them.

What makes each part correct:

* event path: every event whose enqueue succeeded reaches the cloud once, in
  order; nothing is removed before it is accepted; traffic never gets stuck;
* start: events never change their owner, are not lost on the way from the old
  entry to the new one, do not come back once delivered, and only the queue of
  another source under the device's key keeps it from starting;
* core: a state it took for stored is never undone by an older one, the flash
  holds the binding the core believes stored, timer and gesture belong to the bound App, and the panel shows what
  the state says;
* time: a timer never ends early, a pause costs less than a second, deadlines
  are read by true time across wraps of the counter;
* Wi-Fi: a lost connection is shown, however the flags are raced for;
* panel: a render that reports success has put all of its presentation on the
  panel, which is then seen, blinking included;
* keys: they are debounced, the last event told of a key is its state, and a
  gesture is as long as the press was;
* session with the server: only whole replies are used, pending events stay
  acceptable while Apps change, and an action counts once.

## 2. The modules

| Module | Models | Code behind it |
| --- | --- | --- |
| `EventQueue` | enqueue, pop and load over a RAM copy and a flash copy; every outcome of a write | `pb_event_queue.c` |
| `NetworkWorker` | request queue, worker, result queue | `pb_network_worker.c` |
| `EventDelivery` | the core loop's event side, composed with the two above, the network, the receiver, Wi-Fi and power | `pb_runtime.c`, `pb_cloud.c`, `conformance.py` |
| `Outbox` | the abstract promise: an outbox that survives restarts | - |
| `QueueMigration` | `pb_event_queue_init` write by write, with several sources | `pb_event_queue.c`, `main.c` |
| `RuntimeCore` | binding, store retry, timer, overlay, panel, keys | `pb_runtime.c`, `pb_binding.c`, `pb_timer.c`, `pb_overlay.c`, `pb_view.c` |
| `LocalTimer` | the timer in units of any fineness | `pb_timer.c` |
| `NetworkSchedule` | the deadlines as words of the tick counter, the flags shared with the Wi-Fi task | `pb_runtime.c`, `main.c` |
| `PanelDriver`, `Lp001Frame`, `Lp003Frame` | digits, brightness, blink phase and LED; what each driver does with them | `lp001.c`, `lp003.c` |
| `PanelFrame` | `pb_hal_render` call by call on both drivers | `pb_hal_old_panel.c`, `old_panel.c`, `old_panel_registry.c` |
| `KeySampler` | debouncing and the key queue of both drivers | `lp001.c`, `lp003.c` |
| `KeyInput` | the sampler composed with the HAL and the core's gestures | `pb_hal_old_panel.c`, `pb_runtime.c` |
| `CloudClient` | what of an HTTP answer becomes a result | `pb_cloud.c` |
| `ConformanceServer` | state, history, commands and faults, acceptance of events | `conformance.py`, `server.py` |
| `ConformanceSession` | a device with timer and queue, the client and the server, composed | `pb_runtime.c`, `pb_event_queue.c`, `pb_cloud.c`, `conformance.py` |
| `MCRuntimeCore`, `MCPanelFrame` | the published states and the presentations for TLC | - |

The proofs about a module `M` are in `MProofs`; section 4 lists them.
`Outbox` is refined twice: by the event path with its flash (`EventDelivery`)
and by a device in a session with the conformance server (`ConformanceSession`).

### EventDelivery (with EventQueue and NetworkWorker)

`pc` is the stage of the loop: `receive` (results one by one,
`ReceiveResult`/`ReceiveDone`), `timer` (`TimerStage`, or `TimerFinished`, which
makes an event), `schedule` (`Schedule`, one action for
`schedule_network_work`) and `input` (`InputNothing`, `GestureUnbound`,
`Gesture`). Between any two of these the worker, the network, the cloud, time,
Wi-Fi and power may act. Whether a gesture or the timer makes an event at a
given time is left open here; `RuntimeCore` has the state that decides it.

* `queue`/`stored` are the RAM queue and the NVS blob. `StoreQueue` has the
  three outcomes of `nvs_set_blob` followed by `nvs_commit`.
* `eventInFlight`, `stateInFlight` are the two flags; `retryWait`, `pollWait`
  say that the deadline lies in the future, and `RetryElapses`/`PollElapses`
  let it pass. A step that sets a deadline of 0 makes the flag false.
  `NetworkSchedule` has the words behind these flags.
* `sent` is the set of events that were ever put on the wire. A request may be
  processed at any later time and repeatedly (`CloudProcesses`), also after the
  worker gave up on it or the device restarted.
* `accepted` is the receiver's list; an id that is known is not kept again
  (`accept_event` in `conformance.py`). Events in `Refused` are answered with an
  HTTP error.
* `created` counts events; `committed` is a history variable: the events whose
  enqueue returned `ESP_OK`.

The constants are `Capacity` (24 in the code), `QueueLength` (4), `MaxEvents`
(a bound) and `Refused`. `MaxEvents` bounds events, nothing else.

`Outbox` is the promise in three variables: `pending`, `delivered` and
`tentative` (the one event whose enqueue failed after the write had reached the
flash; a restart may bring it back). The refinement mapping takes `pending` as
the queue without its head once the cloud has that head (`Undelivered`), and
`tentative` as the event by which the flash copy is longer.

### QueueMigration

A start is `PowerOn`, then one reading step that decides the branch of
`pb_event_queue_init`, then one step for each NVS write (`EraseOwn`,
`EraseLegacy`, `Quarantine`, `StoreInherited`, `DropLegacy`,
`QuarantineCopied`), each with the three outcomes of a write. A failed start
aborts (`ESP_ERROR_CHECK`) and starts again. A queue is a set of events here:
its order is the subject of `EventDelivery`. While the device is off it may be
flashed with another source (`Reconfigure`). `disturbed` is chosen at the
beginning, any subset of the constant `Disturbances`, and never changes: it says
whether reads may fail and whether the partition may be found unusable, so one
run has the properties of all four combinations. Assumed: the inherited events
all belong to the source that stored the old binding and view (`LegacyOwner`),
because the older firmware knew no other.

The key of an entry has 56 bits of the 64-bit hash of a source, and the entry
holds the whole hash, for which the source stands here. `key` gives each source
its key: the initial states choose whether two sources share one, and whether an
entry holds the queue of a source outside the model (`Foreign`). When the queue
under the key is another source's (`KeyTaken`), `pb_event_queue_init` returns an
error, before the test that could erase the entry, and the start aborts. So a
device configured to such a source restarts until it is configured back or its
flash is erased; `ComesUp` allows this loop and no other. Two sources with
*equal* hashes, which the code cannot tell apart, are left out.

### RuntimeCore

`Published` lists the states the cloud publishes; a state is its index and 0 is
"no binding". A reply carries any state published so far, so stale, repeated
and conflicting ones all occur. Time is counted in the unit the panel can show
of a timer. `pc` has a stage for each part of the loop. Keys reach the core
through a queue that drops its oldest event when full; whether a release ends a
long press is left open here and decided in `KeyInput`. A gesture without a
timer changes nothing in this module (its event is in `EventDelivery`).
`pressedIn`, `startedIn` and `kept` are history variables; `kept` is the revision
of the last binding that the running device took for stored, which every step
remembers (`Remember`). A start that cannot read the binding begins at revision
0, and so does `kept`. `RenderMayFail` lets the
panel refuse a drawing whose error the code only logs.

### LocalTimer

`UnitsPerSecond` is the fineness of the clock (1,000,000 in the code). The timer
holds the units left until its deadline. `ToggleTimer` is `pb_timer_toggle` with
its three events, `FinishTimer` the poll that ends it; `PauseTimer` rounds up to
whole seconds as `pb_timer_remaining_seconds` does. `ran` and `pauses` are
history variables: what the timer really ran, and how often it was paused.

### NetworkSchedule

`poll` and `retry` are records of the `word` the code keeps, modulo `TickRange`,
and of `left`, the ticks really left, which only the property reads. Each request of
`ScheduleNetworkWork` finds room or not by itself: the event may be taken and
the state refused. The core
reads the counter once per iteration (`lag` ticks ago) and again for a completed
gesture. The Wi-Fi handler clears the connected bit and notes the loss in two
steps, and the core tests and clears the pending flag in two steps; all of these
interleave. The station delivers its events through the event loop's queue.

### PanelDriver, Lp001Frame, Lp003Frame, PanelFrame

`pc` is the next of the four calls of `pb_hal_render`; an error ends the render.
On LP-001 the setters write variables that cannot fail, and the scan task lights
a digit a step from them, then reads the clock, then turns the blink phase under
the lock: `stale` is the age of that reading. On LP-003 a RAM write may take any
number of digits and a command may fail before or after its effect (`Transfers`),
while the driver's variables keep the new value. A restart may leave the chip as
it was. Left out: decimal points (the runtime asks for none), the validation of
a presentation, the LP-001 calibration builds (compile-time switches, off), and
single bus edges.

### KeySampler, KeyInput

Time is counted in scans. `ScanLp003` debounces each key by itself, and a sample
that cannot be read starts all anew (`ScanUnreadable`); `ScanLp001` debounces the
whole line, of which some positions have no key. A scan leaves a set of events,
at most one for each key, and `GoesFirst` says which is published next: on LP-003
that of the smallest key, on LP-001 the release of the old key before the press of
the new one. `publish_key_event` is the steps `Send`, `FindFull`, `Drop`, `Send`,
between which the core may take events. The core takes a press and the next release for a gesture and measures
it by the sampling times in the events; `since` and `lost` are history for the
properties. The core may be busy for any time.

### CloudClient, ConformanceServer, ConformanceSession

A body is its pieces, numbered. What arrives of it comes in chunks of any length,
given by the places where they meet (`Meetings`, `ChunksOf`), and the transfer
ends complete, closed early or broken (`Arrivals`). `Received` is the response
buffer with its overflow, chunk by chunk, `Performs` the decision of `perform_request`, `MayParse` what the
parser may make of it, for states and acknowledgements alike (`ReplySizes`): a text without its last piece never parses, one that
lacks something else may. Arrival and result are one step, in which a request is
served, because the server works under one lock; a request whose sender gave up
(`GiveUp`) may be served later or never (`late`).

The server has its state, history, accepted ids, the commands (replace, reset,
overlay, the two faults) and the revision limit. A delivery that is switched off
is a refusal and so a case of `GiveUp`. `genuine` and `epoch` in answers,
bindings and events are history: whether the App named belonged to the revision
named, and how many resets there had been. The device has its binding, timer and
events with App, revision and times; its queue may fail to take or give up an
event; it may restart while no request is out. Left out: the flash of the
device (`EventDelivery`, `RuntimeCore`), a restart of the server, which would
forget everything, overlays, and counters that are only reported.

The refinement mapping of `ImplementsOutbox` takes the ids of the queue as
`pending`, without the head once the server has accepted it, and `accepted` as
`delivered`: the sequence of the ids as the server appended them, one for each
acceptance. A reset forgets the ids by which the server knows an event but does
not shorten this list, so a second acceptance would be a step that `Outbox` does
not have. A failed enqueue leaves nothing behind here, so `tentative` is empty.

## 3. The runs

| Run | Instance | Shows |
| --- | --- | --- |
| `delivery` | 3 events, capacity 2, worker queues 2, event 3 refused; 95,872 states | once, in order, none lost, none overtakes; flags, pipe and flash agree; the refinement of `Outbox`; attempts end, events are delivered, the queue drains |
| `migration` | 2 sources with or without a common key, 1 new event each, failing reads, erased flash; 118,400 states | isolation of sources, settled legacy queue, final quarantine, inherited events kept while the flash can be read and never back once delivered, the device comes up |
| `migration_read_error` | the same with failing reads | **violation** of `KeptUntilDelivered` (finding 1) |
| `core_safety` | 4 states of 2 Apps, key queue of 2; 4,663,227 states | binding, timer, gesture and panel stay consistent; no stored state is undone |
| `core_live` | 2 states of 2 Apps, key queue of 1; 156,522 states | a dirty binding is stored, a running timer stops |
| `core_panel` | the same with a panel that may refuse | **violation** of `OverlayLeavesPanel` (finding 2) |
| `panel_frames` | 3 presentations, both drivers, interval 2, delay 1; 528,459 states | success means shown, phases last, what was rendered is seen |
| `key_input` | 2 keys, 3 samples, queue of 2, 13 scans, long press 4; 1,352,977 states | debouncing, the last event is the truth, gestures are true |
| `key_overflow` | the same | **violation** of `LongPressIsReal` (finding 3) |
| `session` | 4 revisions, 1 event, 1 pause, 1 reset, 1 late request, bodies of 2 and 5 pieces; 1,796,914 states | timer, events, view and replies in a session |
| `session_order` | 4 revisions, 2 events, 1 reset, 1 late request; 4,043,048 states | the refinement of `Outbox` by the server's list of acceptances |
| `schedule` | tick counter of 8, intervals 2 and 1, lag 1; 3,063,072 states | deadlines by true time, the lost connection shown |

Bounds. Three events with a capacity of two fill the queue, overflow it and
leave one behind the head; the refused event is the last one, so that the other
two show ordered delivery and the drained queue while it blocks for ever.
Worker queues of two are the smallest for which `NoBackpressure` holds (one
event and one state request); the code has four, and the proof covers every
length from two on. Two sources are enough for every exchange of identity, one
event of each kind for every loss. The four states of `MCRuntimeCore` contain a
conflict (same revision, other App), the loss of the timer in the same App, an
overlay and an App switch. Key queues of one and two overflow at once, which
the real 12 and 16 do seldom. The presentations of `MCPanelFrame` have a value
too large for LP-001, no brightness, blinking and an LED too many, and every
order of the three occurs. Thirteen scans hold two presses of three stable
samples each with releases between them and one of them long; a third press only
repeats this. In `session`, one pause has both roundings, four revisions have room
for an App switch, an action and a reset before the limit, one late request can be served
after everything else, and bodies of two and five pieces against a buffer of
three fit and overflow. `session_order` has the two events that order needs, and
a reset between the acceptance of one and its late repetition; it trades the
fineness of the clock and the pause for them. A counter of eight values wraps in every longer
behaviour, and every distance of deadline and clock occurs. For most
properties the proofs of section 4 remove the bounds.

Deadlock is checked in every run. The type invariants of `EventDelivery` and
`QueueMigration` are proved (section 4) and not part of a run.

### Fairness

* The core loop and the worker: weak fairness. Both are FreeRTOS tasks, nothing
  in the loop blocks for longer than `PB_INPUT_WAIT_MS`, and every HTTP exchange
  ends at its timeout. Deadlines pass (`RetryElapses`, `StoreRetryElapses`,
  `Tick`). `AttemptEnds`, `TimerEnds` need no more.
* `EveryEventDelivered` speaks of the events that stand behind no refused one,
  `QueueDrains` of a queue that is empty or stands behind a refused head for
  good: the code never gives up a head. Both also need that something tried again
  and again succeeds at some time: strong fairness of the cloud's processing,
  of the successful reply and of the successful removal (`Luck`), and that from
  some time on Wi-Fi and power hold (`Settles`). Both are premises of the
  properties. Crashes are unrestricted before that time. Without these nothing
  can be promised: a device that is switched off delivers nothing.
* `ComesUp` assumes that power and configuration hold from some time on and
  that a read or a write each start repeats succeeds at some time. A key taken
  by another source is its one exception: no write is tried there;
  `BindingReachesFlash` assumes the last for the binding.
* `SeenAgain` assumes that the driver's task and the clock run (weak fairness)
  and that a blink command for the visible phase, repeated each second phase,
  arrives at some time (strong fairness).

### Findings

1. `migration_read_error`: an error while *reading* the inherited queue blob
   leaves `valid` false and the blob is erased as if it were corrupt
   (`pb_event_queue.c:320-366`). `docs/pb-app-protocol-v2.md:107-108` promises
   that events are deleted only after a success response. A failing read of the
   source's own blob (`:266`) does end the start instead.
2. `core_panel`: an expired overlay is marked inactive before the view under it
   is drawn; if that drawing fails, the error is logged and nothing draws again
   until the next state, toggle or overlay (`pb_runtime.c:369`), although
   `docs/pb-app-protocol-v2.md:129` says the view is restored.
3. `key_overflow`: a full key queue drops its oldest event, which may be a
   release (`lp003.c:287-290`, `lp001.c:205-208`); the core is not told and
   measures the next release from the older press. `docs/pb-architecture.md:159-160`
   asks that an overflow cancels the incomplete gesture or resynchronises the
   keys, so that a lost release is not taken for a long press. `GestureTrue`
   shows that this is the only way a gesture can be wrong, and that a long press
   is never called short.

## 4. The proofs

Everything is proved for all values of the constants; the only assumptions are
the named ones on the constants, in the module that declares them, and
`RenderMayFail = FALSE` for `PanelIsTrue`.

| Module | Theorem | States |
| --- | --- | --- |
| `EventDeliveryProofs` | `TypeCorrect` | `[]TypeOK` |
| | `Invariance` | `[]IInv`, the inductive invariant |
| | `DeliveredOnceInOrder`, `NothingOvertakes` | `[]OnceInOrder`, `[]NoOvertaking` |
| | `CommittedEventsSurvive` | `[]NoEventLost` |
| | `FlashNeverFarFromRam` | `[]FlashTracksRam` |
| | `PipeFollowsHead`, `FlagsAgree` | `[]PipeIsHead`, `[]FlagsMatchPipe` |
| | `PipeAgreesWithCore` | `[]PipeAgrees`, the two together |
| | `QueuesNeverFull` | `[]NoBackpressure` |
| | `NeverOverfull` | `[]QueueBounded` |
| | `RemovalFollowsAcceptance` | `RemovedOnlyAfterAccepted` |
| | `PathIsOutbox` | `Spec => ImplementsOutbox` |
| `QueueMigrationProofs` | `TypeCorrect` | `[]TypeOK` |
| | `SourcesStayApart`, `RunningMeansSettled` | `[]SourceIsolation`, `[]LegacySettled` |
| | `QuarantineHolds`, `MigratedOnce` | `QuarantineFinal`, `DeliveredStayGone` |
| | `ReadableFlashKeeps` | `KeptWithReadableFlash` |
| `RuntimeCoreProofs` | `TypeCorrect` | `[]TypeOK` |
| | `StoreIsTrue` | `[]CleanMeansStored` |
| | `TimerKeepsApp`, `GestureKeepsApp` | `[]TimerOfBoundApp`, `[]GestureWithinApp` |
| | `StoredStatesStay` | `NoDowngrade` |
| | `PanelIsTrue` | `[]PanelShowsState`, for a panel that draws |
| `LocalTimerProofs` | `KeepsTime` | `[]TimerKeepsTime` |
| `NetworkScheduleProofs` | `LossIsRemembered` | `[]LossRemembered` |
| | `DecisionsAreTrue` | `[]DecidesByTrueTime` |
| `PanelFrameProofs` | `TypeCorrect` | `[]TypeOK` |
| | `SuccessIsTrue` | `[]AppliedMeansShown` |
| | `PhasesLast` | `PhaseHolds` |
| `KeyInputProofs` | `Invariance` | `[]IInv`, the inductive invariant |
| | `TypeCorrect` | `[]TypeOK` |
| | `KeysAreDebounced` | `Debounced` |
| | `EventsEndWithTheTruth` | `[]LastEventIsState` |
| | `GesturesAreTrue` | `[]GestureTrue` |
| `ConformanceSessionProofs` | `CountedOnce` | `[]ViewCountsEachOnce` |
| | `PendingStayAcceptable` | `[]EventsAcceptable` |
| | `SessionKeepsTime` | `[]TimerKeepsTime` |
| | `RepliesAreWhole` | `[]OnlyWholeReplies` |
| | `FittingAnswersCount` | an answer that fits the buffer and is complete counts |
| | `SessionIsOutbox` | `Spec => ImplementsOutbox` |

Hardly any of these properties is inductive by itself. What each invariant adds:

**EventDelivery.** `OnceInOrder`, for instance, could be broken by a step from a
state in which an old event is still on the wire while a younger one has been
accepted; that no such state is reachable needs the flash, the flags and the
pipe together. `IInv` has, besides `TypeOK`, `OrderInv` (queue and cloud's list
increase, and the list ends at or before the head), `FlashInv` (the flash
equals RAM, lacks a delivered head, or has one event that was reported as not
queued), `CommittedInv`, `SentInv` (an event on the wire is at the cloud already
or is the head: this is what makes late and repeated requests harmless, also
across a restart) and `PipeInv` (the pipe holds at most one item of each type,
which has its flag up, and a success reported for an event is true). Each
action has a lemma for the data and one for the pipe where it touches them.

On that invariant, `PathIsOutbox` shows the step simulation: an
enqueue, a removal, a processed request and a restart each map to a step of
`Outbox` or a stutter. A request processed late is a stutter unless it is the
head's first, by `SentInv`; the removal of the head is always a stutter, because
the mapping has left out a delivered head before.

**QueueMigration.** `ClaimInv` says that a binding of another source, an entry
of another source or an unreadable entry is found only once the old entry is
gone or quarantined, `StageInv` what each stage of a start has established and
still has to write, `RunInv` that RAM queue and entry of a running device agree
on inherited events, but for delivered ones. `LegacySettled` itself
is needed for `SourceIsolation`: a running device stores its own binding, and
the next start would take that for a claim. `MigratedOnce` needs `DeliveredInv`:
an inherited event that was delivered and has left the queue is out of reach of
a migration, because the old entry is gone or quarantined, or its owner's entry
exists, if only as an empty queue that a start finds before the old one.

**RuntimeCore.** `StartsClean` says that a device which is off or starting has no
running timer, no overlay and no press; with it the conjuncts for binding,
timer and gesture are inductive. `StoredStatesStay` needs `KeptInv`: the flash and
the binding in use are at least as new as `kept`, also while a store is owed
and the flash has the older state. `PanelShowsState` is proved on top, for a panel
that draws: every action that changes what is to be shown either draws or does
so while an overlay is up.

**LocalTimer.** `TimerInv` adds that a running timer has at most its duration
left; `RoundsUp` bounds a pause from both sides, for every fineness.

**NetworkSchedule.** `StationInv` lists what the event loop's queue can hold in
each state of the station, `LossInv` where a loss can be. For the deadlines,
`DeadlineInv` says that a word stands for the true time left modulo the range,
or was set to "now", or is older than half the range. The comparison is then
arithmetic modulo an even number, of which the lemmas `DivMod` to `HalfRange`
state what is needed.

**PanelFrame.** After each of the four calls the invariant has one conjunct more
about what is certain (`DigitsInv`, `BrightnessInv`, `BlinkInv`, `LedInv`), stated
so that the blink task's own commands, failed ones too, cannot disturb it: they
carry the level the driver's variable has. `AgeInv` bounds the driver's idea of
a phase by the time it was really shown. `GivenTypes` has the
types of what the panel and the chip are given; `DigitsType` shows that any
number, clamped to the display, gives digits of 0 to 9 or dark ones. There is at
least one presentation (`PresentationAssumption`).

**KeyInput.** None of its properties is inductive by itself. `Counting` says what a counter
counts: `matching[k]` of the last samples, and no more, agree with the candidate
on that key, so a full counter means that the last `StableSamples` samples agree
and none of them was unreadable. For the events, `Published` says what a scan
still has to tell; `Alternating` that of two events of a key with none between
them one is the press and the other the release, that a release knows its press,
and that the last event of a key, in the queue or still to be published, is the
key's state. It is stated by what lies *between* two events and so survives both
the removal of the oldest, by the core or by the publisher, and the append of a
new one. `PressIsPast` and `ReleaseIsNext` tie the gesture to it: the press that
the core holds is not later than the press of any release it can still take, so a
long press is never called short; and unless an event was dropped, the next event
of the primary key is its own release, so the gesture is exact. A step of the
model that moves an event from the scan to the queue, or takes one out, has one
lemma for the events and one for the gesture.

**ConformanceSession.** `TrueIn` is what it means that a statement about the App
of a revision agrees with the history; answers, the binding and events all are
such statements, and the server either keeps its history, extends it by the next
revision or begins anew (`Keeps`, `GoesOn`, `Restarts`), which keeps them true
(`StatementsKept`). `IdentityInv` says that an id is that of one event, and
`PastIn` that an event accepted before the last reset names a revision the
history has lost: a request that arrives after the reset forgot its id is
therefore refused and not counted again.

*Replies.* What the buffer holds is a recursive function of the chunks. That it
exists (`Computable`) and that without overflow it holds the concatenation of the
chunks handled so far (`HandledInTurn`, `HoldsWhatCame`) is proved by induction
over their number; the induction theorems of the library take an operator as a
parameter, which the provers here cannot instantiate, so `Induction` states the
principle for a set and is proved from the well-foundedness of `<` on the
naturals. From it, a result is made from the whole answer (`RepliesAreWhole`):
`Performs` refuses a buffer that overflowed, and one that did not holds the first
pieces, of which a complete transfer has all and a closed one that lacks some does
not end as the text must. `FittingAnswersCount` is the converse: an answer that fits is never
lost to the way it is cut.

*Outbox.* `NumberedInv` says that the queue holds the events after those removed,
without a gap, and that the server's list of acceptances is exactly the removed
ones in turn and perhaps the head; `SentInv` that an event request, also a late one, is about an
accepted event or the head, and that an acknowledgement the core has not taken
yet is about an accepted head. So every step submits the next event, delivers the
head or leaves the outbox alone (`OutboxStep`), and `SessionIsOutbox` follows.
A reset of the server forgets the ids of accepted events; that they are not
appended to its list again is `PastIn` above.

Model-checked only: liveness (`AttemptEnds`, `EveryEventDelivered`,
`QueueDrains`, `ComesUp`, `BindingReachesFlash`, `TimerEnds`, `SeenAgain`), which
rests on fairness and `ENABLED`, both out of the prover's reach. Every other
property of a passing run has its theorem. The two refinements are of the safety
part of `Outbox`, which has no fairness.

## 5. Not modelled, and why

* JSON text, URLs, headers, credentials, time stamps, field validation: no
  property here depends on them.
* A disabled transport (`pb_network_worker_start` fails): no requests and no
  events; the rest of `RuntimeCore` behaves as with Wi-Fi off.
* The 32-bit wrap of the minutes of durations above 136 years
  (`pb_runtime.c:363`), and the rate at which a device under constant input
  fetches states (`pb_runtime.c:472`): listed as hazards without a property.
* How the hash of a source is computed (`pb_source.c`), and sources whose whole
  64-bit hashes are equal.
* A restart of the conformance server, its authorization and malformed
  requests.
* Calibration builds, thresholds of the analogue key probe, decimal points and
  throttled logs of the drivers.
* Examples, profiles, documents, the build tool: no part of the runtime.

## 6. Plan

Done: the event path and its refinement, the start of the queue, the core, the
timer, the deadlines and Wi-Fi flags, rendering on both drivers, debouncing and
gestures, the client and the session with the conformance server, and the proofs
above.

Left, in this order:

1. A session whose server restarts and forgets its data, with the
   authorization of requests.
2. The disabled transport in `RuntimeCore`.
3. The full start of `PanelFrame` composed with `RuntimeCore`, so that what the
   core believes drawn is tied to what the chip shows.
