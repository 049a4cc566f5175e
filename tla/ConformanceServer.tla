-------------------------- MODULE ConformanceServer --------------------------
(***************************************************************************)
(* tools/pb-conformance-server/conformance.py: the receiver that a device  *)
(* is tested against, for one device serial.  Every request and command is *)
(* handled under the store's lock, so each is one step.  A state is its    *)
(* revision, App and view value; overlays and counters that are only       *)
(* reported are left out.  Delivery switched off, which a request finds as *)
(* an answer 503 that changes nothing, may be met at any time.             *)
(***************************************************************************)
EXTENDS Naturals, Sequences, Functions

CONSTANTS MaxRevision,   \* MAX_REVISION
          TimerApp, ActionApp,
          DefaultSeconds \* timer.default_seconds of the Timer App

ASSUME ServerAssumption ==
  /\ MaxRevision \in Nat \ {0}
  /\ TimerApp # ActionApp
  /\ DefaultSeconds \in Nat \ {0}

VARIABLES
  state,         \* DeviceFixture.state
  history,       \* which App each revision belonged to
  eventIds,      \* ids of the accepted events
  stale,         \* next_state_fault = "stale"
  epoch,         \* history: number of resets
  accepted,      \* history: what was appended to DeviceFixture.events, the
                 \* ids one by one, also of before a reset
  expected       \* history: the view value that the actions accepted since
                 \* the state was replaced give, each counted once

serverVars == <<state, history, eventIds, stale, epoch, accepted, expected>>

Apps == {TimerApp, ActionApp}

(* _timer_state, _action_state. *)
Template(app, revision) ==
  [revision |-> revision, app |-> app,
   value |-> IF app = TimerApp THEN 7 ELSE 8]

(* history with one more revision. *)
WithRevision(revision, app) ==
  [r \in DOMAIN history \cup {revision} |->
     IF r = revision THEN app ELSE history[r]]

TimerOf(app) == IF app = TimerApp THEN DefaultSeconds ELSE 0

ServerInit ==
  /\ state = Template(TimerApp, 1)
  /\ history = [r \in {1} |-> TimerApp]
  /\ eventIds = {}
  /\ stale = FALSE
  /\ epoch = 0 /\ accepted = <<>> /\ expected = 7

AtRevisionLimit == state.revision >= MaxRevision
-----------------------------------------------------------------------------
(* Commands.  At the revision limit those that need a revision are refused. *)

Replace(app) ==
  /\ ~AtRevisionLimit
  /\ state' = Template(app, state.revision + 1)
  /\ history' = WithRevision(state'.revision, app)
  /\ expected' = state'.value
  /\ UNCHANGED <<eventIds, stale, epoch, accepted>>

(* reset_session. *)
Reset ==
  /\ ~AtRevisionLimit
  /\ state' = Template(TimerApp, state.revision + 1)
  /\ history' = [r \in {state'.revision} |-> TimerApp]
  /\ eventIds' = {}
  /\ stale' = FALSE
  /\ epoch' = epoch + 1 /\ expected' = state'.value
  /\ UNCHANGED accepted

AdvanceWithoutHistory(value) ==
  /\ ~AtRevisionLimit
  /\ state' = [state EXCEPT !.revision = @ + 1, !.value = value]
  /\ UNCHANGED history

(* _advance_state and the value its callers put into the advanced state. *)
Advance(value) ==
  /\ ~AtRevisionLimit
  /\ state' = [state EXCEPT !.revision = @ + 1, !.value = value]
  /\ history' = WithRevision(state'.revision, state.app)

Overlay ==
  /\ Advance(state.value)
  /\ UNCHANGED <<eventIds, stale, epoch, accepted, expected>>

(* stale_once, conflict_once: the second takes the place of the first.  The
   view it changes is not part of the answer here. *)
FaultOnce(kind) ==
  /\ stale' = (kind = "stale")
  /\ UNCHANGED <<state, history, eventIds, epoch, accepted, expected>>

Command ==
  \/ \E app \in Apps : Replace(app)
  \/ Reset
  \/ Overlay
  \/ \E kind \in {"stale", "conflict"} : FaultOnce(kind)
-----------------------------------------------------------------------------
Refusal == [status |-> "error"]

(* GET /state: the state, once with the fault applied.  genuine, for the
   properties: does the answer name the App its revision belonged to? *)
StateAnswer ==
  [status |-> "2xx", app |-> state.app, genuine |-> ~stale,
   revision |-> IF stale THEN state.revision - 1 ELSE state.revision,
   epoch |-> epoch]

ServeState ==
  /\ stale' = FALSE
  /\ UNCHANGED <<state, history, eventIds, epoch, accepted, expected>>

(* POST /events.  _validate_event, for the fields a device can get wrong. *)
Valid(e) ==
  /\ e.revision <= state.revision
  /\ e.revision \in DOMAIN history /\ history[e.revision] = e.app
  /\ e.what = "timer" => e.duration > 0 /\ e.remaining <= e.duration

KnownNever(e) == FALSE
Known(e) == e.id \in eventIds

(* An action of the Action App changes its view while it is active. *)
ChangesView(e) ==
  e.what # "timer" /\ e.app = ActionApp /\ state.app = ActionApp

ValueAfter(e, value) ==
  IF e.what = "primary_long" THEN 99 ELSE (value + 1) % 1000

(* A known event gets its first answer again; a new one that changes the view
   needs a revision. *)
Accepts(e) == Valid(e) /\ (Known(e) \/ ~ChangesView(e) \/ ~AtRevisionLimit)

EventAnswer(e) == IF Accepts(e) THEN [status |-> "2xx"] ELSE Refusal

Record(e) ==
  /\ IF ChangesView(e) THEN Advance(ValueAfter(e, state.value))
                       ELSE UNCHANGED <<state, history>>
  /\ eventIds' = eventIds \cup {e.id}
  /\ accepted' = Append(accepted, e.id)
  /\ expected' = IF ChangesView(e) /\ e.id \notin Range(accepted)
                 THEN ValueAfter(e, expected) ELSE expected
  /\ UNCHANGED <<stale, epoch>>

ServeEvent(e) ==
  IF Accepts(e) /\ ~Known(e) THEN Record(e) ELSE UNCHANGED serverVars

(* The view of the Action App counts every action once, however often its
   request is repeated, processed late or sent again after a lost answer, also
   across a reset (conformance.py:164-181, docs/pb-app-protocol-v2.md). *)
ViewCountsEachOnce == state.value = expected
=============================================================================
