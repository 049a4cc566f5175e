----------------------- MODULE ConformanceSessionProofs -----------------------
(***************************************************************************)
(* Theorems about a device's session with the conformance server, for any  *)
(* number of events, pauses, resets and late requests and any limit of the *)
(* revisions: the view counts every action once (ViewCountsEachOnce),      *)
(* pending events stay acceptable (EventsAcceptable), and the timer keeps  *)
(* time whatever the session does to it (TimerKeepsTime).                  *)
(***************************************************************************)
EXTENDS ConformanceSession, LocalTimerProofs, SequenceTheorems,
        NaturalsInduction, WellFoundedInduction

Records == [id : Nat, what : {"timer", "primary", "primary_long"}, app : Apps,
            revision : Int, duration : Nat, remaining : Nat,
            genuine : BOOLEAN, epoch : Nat]

(* The requests that may still be served, and the events that may still reach
   the server. *)
Requests == late \cup {x \in {exchange} : x.phase = "asked"}

Events == {queue[i] : i \in 1..Len(queue)}
            \cup {r.event : r \in {x \in Requests : x.kind = "event"}}

(* The ids the server has ever accepted. *)
EverAccepted == Range(accepted)

(* A statement about the session: the App of a revision.  It is true unless it
   was made before a reset or by the stale fault. *)
Stated(x) ==
  /\ x.revision \in Int /\ x.app \in Apps
  /\ x.genuine \in BOOLEAN /\ x.epoch \in Nat

TrueIn(x, h, ep) ==
  /\ x.epoch <= ep
  /\ x.genuine /\ x.epoch = ep =>
       x.revision \in DOMAIN h /\ h[x.revision] = x.app

(* An accepted event is of a known revision, and one that was accepted before
   the last reset is of a revision that the history has lost. *)
PastIn(e, ever, ids, h, revision) ==
  e.id \in ever =>
    e.revision <= revision /\ (e.id \notin ids => e.revision \notin DOMAIN h)

ServerInv ==
  /\ state \in [revision : Nat \ {0}, app : Apps, value : Nat]
  /\ DOMAIN history \subseteq 1..state.revision
  /\ state.revision \in DOMAIN history /\ history[state.revision] = state.app
  /\ epoch \in Nat
  /\ accepted \in Seq(Nat) /\ eventIds \subseteq EverAccepted

WireInv ==
  /\ queue \in Seq(Records) /\ made \in Nat
  /\ \A r \in Requests : r.kind \in {"state", "event"}
  /\ exchange.phase \in {"asked", "done"} /\ exchange.kind = "event" =>
       queue # <<>>

BindingInv ==
  /\ Stated(binding) /\ binding \in [revision : Int, app : Apps,
                                     genuine : BOOLEAN, epoch : Nat]
  /\ Bound => TrueIn(binding, history, epoch)

AnswerInv ==
  exchange.phase = "done" /\ exchange.kind = "state" =>
    Stated(exchange.answer) /\ TrueIn(exchange.answer, history, epoch)

(* An id is that of one event. *)
IdentityInv ==
  /\ Events \subseteq Records
  /\ \A e \in Events : e.id \in 1..made
  /\ \A e, f \in Events : e.id = f.id => e = f
  /\ EverAccepted \subseteq 1..made

EventInv ==
  \A e \in Events :
    /\ TrueIn(e, history, epoch)
    /\ PastIn(e, EverAccepted, eventIds, history, state.revision)
    /\ e.what = "timer" => e.duration > 0 /\ e.remaining <= e.duration

IInv ==
  /\ TimerInv /\ ServerInv /\ ViewCountsEachOnce
  /\ WireInv /\ BindingInv /\ AnswerInv /\ IdentityInv /\ EventInv
-----------------------------------------------------------------------------
(* What a step of the server does to what has been said about it. *)
Keeps == UNCHANGED <<state, history, epoch>>

GoesOn ==
  /\ state'.revision = state.revision + 1
  /\ history' = WithRevision(state'.revision, state'.app)
  /\ epoch' = epoch

Restarts ==
  /\ state'.revision = state.revision + 1
  /\ history' = [r \in {state'.revision} |-> TimerApp]
  /\ state'.app = TimerApp
  /\ epoch' = epoch + 1 /\ eventIds' = {}

LEMMA StatementsKept ==
  ASSUME ServerInv, Keeps \/ GoesOn \/ Restarts,
         NEW x, x.epoch \in Nat, TrueIn(x, history, epoch)
  PROVE  TrueIn(x, history', epoch')
<1>1. CASE Keeps
  BY <1>1 DEF Keeps
<1>2. CASE GoesOn
  <2>1. /\ epoch' = epoch
        /\ \A r \in DOMAIN history :
             r \in DOMAIN history' /\ history'[r] = history[r]
    <3>1. state.revision + 1 \notin DOMAIN history
      BY DEF ServerInv
    <3> QED BY <1>2, <3>1 DEF GoesOn, WithRevision
  <2> QED BY <2>1 DEF TrueIn
<1>3. CASE Restarts
  <2>1. epoch' = epoch + 1 /\ epoch \in Nat
    BY <1>3 DEF Restarts, ServerInv
  <2>2. x.epoch <= epoch
    BY DEF TrueIn
  <2>3. x.epoch <= epoch' /\ x.epoch # epoch'
    BY <2>1, <2>2
  <2> QED BY <2>3 DEF TrueIn
<1> QED BY <1>1, <1>2, <1>3

LEMMA PastKept ==
  ASSUME ServerInv, Keeps \/ GoesOn \/ Restarts,
         EverAccepted' = EverAccepted,
         eventIds' = eventIds \/ Restarts,
         NEW e, e.revision \in Int,
         PastIn(e, EverAccepted, eventIds, history, state.revision)
  PROVE  PastIn(e, EverAccepted', eventIds', history', state'.revision)
<1>0. state.revision \in Nat /\ DOMAIN history \subseteq 1..state.revision
  BY DEF ServerInv
<1>1. CASE Keeps /\ eventIds' = eventIds
  BY <1>1 DEF Keeps
<1>2. CASE GoesOn /\ eventIds' = eventIds
  <2>1. /\ DOMAIN history' = DOMAIN history \cup {state.revision + 1}
        /\ state'.revision = state.revision + 1
    BY <1>2 DEF GoesOn, WithRevision
  <2>2. SUFFICES ASSUME e.id \in EverAccepted
                 PROVE  /\ e.revision <= state'.revision
                        /\ e.id \notin eventIds' => e.revision \notin DOMAIN history'
    BY DEF PastIn
  <2>3. e.revision <= state.revision
    BY <2>2 DEF PastIn
  <2>4. e.revision <= state'.revision /\ e.revision # state.revision + 1
    BY <1>0, <2>1, <2>3
  <2> QED BY <1>2, <2>1, <2>2, <2>4 DEF PastIn
<1>3. CASE Restarts
  <2>1. /\ DOMAIN history' = {state.revision + 1}
        /\ state'.revision = state.revision + 1
    BY <1>3 DEF Restarts
  <2>2. SUFFICES ASSUME e.id \in EverAccepted
                 PROVE  /\ e.revision <= state'.revision
                        /\ e.revision \notin DOMAIN history'
    BY DEF PastIn
  <2>3. e.revision <= state.revision
    BY <2>2 DEF PastIn
  <2> QED BY <1>0, <2>1, <2>3
<1> QED BY <1>1, <1>2, <1>3

(* The server keeps its own invariant if it goes on in one of these ways. *)
LEMMA ServerKept ==
  ASSUME ServerInv, Keeps \/ GoesOn \/ Restarts,
         state' \in [revision : Nat \ {0}, app : Apps, value : Nat],
         accepted' \in Seq(Nat), eventIds' \subseteq EverAccepted'
  PROVE  ServerInv'
<1>0. /\ state.revision \in Nat \ {0} /\ DOMAIN history \subseteq 1..state.revision
      /\ epoch \in Nat
  BY DEF ServerInv
<1>1. CASE Keeps
  BY <1>1 DEF Keeps, ServerInv
<1>2. CASE GoesOn
  <2>1. /\ DOMAIN history' = DOMAIN history \cup {state.revision + 1}
        /\ history'[state.revision + 1] = state'.app
        /\ state'.revision = state.revision + 1
    BY <1>2 DEF GoesOn, WithRevision
  <2>2. DOMAIN history' \subseteq 1..state'.revision
    BY <1>0, <2>1
  <2> QED BY <1>0, <1>2, <2>1, <2>2 DEF ServerInv, GoesOn
<1>3. CASE Restarts
  <2>1. /\ DOMAIN history' = {state.revision + 1}
        /\ history'[state.revision + 1] = state'.app
        /\ state'.revision = state.revision + 1
        /\ epoch' = epoch + 1
    BY <1>3 DEF Restarts
  <2>2. DOMAIN history' \subseteq 1..state'.revision /\ epoch' \in Nat
    BY <1>0, <2>1
  <2> QED BY <2>1, <2>2 DEF ServerInv
<1> QED BY <1>1, <1>2, <1>3

LEMMA Advances ==
  ASSUME ServerInv, NEW v \in Nat, Advance(v), epoch' = epoch
  PROVE  /\ GoesOn
         /\ state' \in [revision : Nat \ {0}, app : Apps, value : Nat]
         /\ state'.value = v /\ state'.app = state.app
<1>1. state' = [state EXCEPT !.revision = state.revision + 1, !.value = v]
  BY DEF Advance
<1>2. /\ state' \in [revision : Nat \ {0}, app : Apps, value : Nat]
      /\ state'.revision = state.revision + 1
      /\ state'.value = v /\ state'.app = state.app
  <2>1. state \in [revision : Nat \ {0}, app : Apps, value : Nat]
    BY DEF ServerInv
  <2>2. state.revision + 1 \in Nat \ {0}
    BY <2>1
  <2> QED BY <1>1, <2>1, <2>2
<1>3. history' = WithRevision(state'.revision, state'.app)
  BY <1>2 DEF Advance
<1> QED BY <1>2, <1>3 DEF GoesOn

LEMMA Templates ==
  ASSUME ServerInv, NEW app \in Apps, state' = Template(app, state.revision + 1)
  PROVE  /\ state' \in [revision : Nat \ {0}, app : Apps, value : Nat]
         /\ state'.revision = state.revision + 1 /\ state'.app = app
<1>1. state.revision \in Nat \ {0}
  BY DEF ServerInv
<1> QED BY <1>1 DEF Template

(* conformance.py:74-159, each command under the lock. *)
LEMMA Commands ==
  ASSUME ServerInv, ViewCountsEachOnce, Command
  PROVE  /\ Keeps \/ GoesOn \/ Restarts
         /\ ServerInv' /\ ViewCountsEachOnce'
         /\ eventIds' = eventIds \/ Restarts
         /\ accepted' = accepted /\ EverAccepted' = EverAccepted
<1>0. /\ state.value = expected /\ state.value \in Nat
      /\ accepted \in Seq(Nat) /\ eventIds \subseteq EverAccepted
  BY DEF ServerInv, ViewCountsEachOnce
<1>1. ASSUME NEW app \in Apps, Replace(app)
      PROVE  /\ GoesOn /\ ServerInv' /\ ViewCountsEachOnce'
             /\ eventIds' = eventIds /\ accepted' = accepted
  <2>1. /\ state' \in [revision : Nat \ {0}, app : Apps, value : Nat]
        /\ state'.revision = state.revision + 1 /\ state'.app = app
    BY <1>1, Templates DEF Replace
  <2>2. GoesOn /\ eventIds' = eventIds /\ accepted' = accepted
    BY <1>1, <2>1 DEF Replace, GoesOn
  <2>3. ServerInv'
    BY <1>0, <2>1, <2>2, ServerKept DEF EverAccepted
  <2>4. ViewCountsEachOnce'
    BY <1>1 DEF Replace, ViewCountsEachOnce
  <2> QED BY <2>2, <2>3, <2>4
<1>2. CASE Reset
  <2>0. TimerApp \in Apps
    BY DEF Apps
  <2>1. /\ state' \in [revision : Nat \ {0}, app : Apps, value : Nat]
        /\ state'.revision = state.revision + 1 /\ state'.app = TimerApp
    BY <1>2, <2>0, Templates DEF Reset
  <2>2. Restarts /\ accepted' = accepted
    BY <1>2, <2>1 DEF Reset, Restarts
  <2>3. eventIds' \subseteq EverAccepted'
    BY <2>2 DEF Restarts
  <2>4. ServerInv'
    BY <1>0, <2>1, <2>2, <2>3, ServerKept
  <2>5. ViewCountsEachOnce'
    BY <1>2 DEF Reset, ViewCountsEachOnce
  <2> QED BY <2>2, <2>4, <2>5 DEF EverAccepted
<1>3. CASE Overlay
  <2>1. Advance(state.value) /\ epoch' = epoch
    BY <1>3 DEF Overlay
  <2>2. /\ GoesOn /\ state'.value = state.value
        /\ state' \in [revision : Nat \ {0}, app : Apps, value : Nat]
    BY <1>0, <2>1, Advances
  <2>3. /\ eventIds' = eventIds /\ accepted' = accepted
        /\ expected' = expected
    BY <1>3 DEF Overlay
  <2>4. ServerInv'
    BY <1>0, <2>2, <2>3, ServerKept DEF EverAccepted
  <2> QED BY <1>0, <2>2, <2>3, <2>4 DEF ViewCountsEachOnce, EverAccepted
<1>4. ASSUME NEW kind, FaultOnce(kind)
      PROVE  /\ Keeps /\ ServerInv' /\ ViewCountsEachOnce'
             /\ eventIds' = eventIds /\ accepted' = accepted
  BY <1>4 DEF FaultOnce, Keeps, ServerInv, ViewCountsEachOnce, EverAccepted
<1> QED BY <1>1, <1>2, <1>3, <1>4 DEF Command, EverAccepted

LEMMA RangeOfAppend ==
  ASSUME NEW s \in Seq(Nat), NEW x \in Nat
  PROVE  Append(s, x) \in Seq(Nat) /\ Range(Append(s, x)) = Range(s) \cup {x}
<1>1. /\ Append(s, x) \in Seq(Nat)
      /\ DOMAIN s = 1..Len(s) /\ DOMAIN Append(s, x) = 1..Len(s) + 1
      /\ \A i \in 1..Len(s) : Append(s, x)[i] = s[i]
      /\ Append(s, x)[Len(s) + 1] = x
      /\ Len(s) \in Nat
  BY AppendProperties, LenProperties
<1>2. 1..Len(s) + 1 = 1..Len(s) \cup {Len(s) + 1}
  BY <1>1
<1> QED BY <1>1, <1>2 DEF Range

(* conformance.py:164-194: what the acceptance of an event does.  An event
   that was accepted before a reset is of a revision the history has lost, so
   it is refused and not counted again. *)
LEMMA Acceptance ==
  ASSUME ServerInv, ViewCountsEachOnce, NEW e, ServeEvent(e), e.id \in Nat,
         PastIn(e, EverAccepted, eventIds, history, state.revision)
  PROVE  /\ Keeps \/ GoesOn
         /\ ServerInv' /\ ViewCountsEachOnce'
         /\ \/ eventIds' = eventIds /\ UNCHANGED <<accepted, EverAccepted>>
            \/ /\ eventIds' = eventIds \cup {e.id}
               /\ e.id \notin EverAccepted /\ accepted' = Append(accepted, e.id)
               /\ EverAccepted' = EverAccepted \cup {e.id}
               /\ e.revision <= state.revision
<1>0. /\ state.value = expected /\ state.value \in Nat
      /\ accepted \in Seq(Nat) /\ eventIds \subseteq EverAccepted
  BY DEF ServerInv, ViewCountsEachOnce
<1>1. CASE UNCHANGED serverVars
  BY <1>1 DEF serverVars, Keeps, ServerInv, ViewCountsEachOnce, EverAccepted
<1>2. CASE Accepts(e) /\ ~Known(e) /\ Record(e)
  <2>1. /\ e.revision <= state.revision /\ e.revision \in DOMAIN history
        /\ e.id \notin eventIds
    BY <1>2 DEF Accepts, Valid, Known
  <2>2. e.id \notin EverAccepted
    BY <2>1 DEF PastIn
  <2>3. /\ eventIds' = eventIds \cup {e.id}
        /\ accepted' = Append(accepted, e.id) /\ accepted' \in Seq(Nat)
        /\ EverAccepted' = EverAccepted \cup {e.id}
        /\ eventIds' \subseteq EverAccepted'
        /\ epoch' = epoch
    <3>1. /\ eventIds' = eventIds \cup {e.id} /\ epoch' = epoch
          /\ accepted' = Append(accepted, e.id)
      BY <1>2 DEF Record
    <3>2. /\ accepted' \in Seq(Nat)
          /\ Range(accepted') = Range(accepted) \cup {e.id}
      BY <1>0, <3>1, RangeOfAppend
    <3> QED BY <1>0, <3>1, <3>2 DEF EverAccepted
  <2>4. CASE ChangesView(e)
    <3> DEFINE v == ValueAfter(e, state.value)
    <3>1. v \in Nat
      BY <1>0 DEF ValueAfter
    <3>2. Advance(v) /\ expected' = ValueAfter(e, expected)
      BY <1>2, <2>2, <2>4 DEF Record, EverAccepted
    <3> HIDE DEF v
    <3>3. /\ GoesOn /\ state'.value = v
          /\ state' \in [revision : Nat \ {0}, app : Apps, value : Nat]
      BY <2>3, <3>1, <3>2, Advances
    <3>4. ServerInv'
      BY <2>3, <3>3, ServerKept
    <3>5. expected' = v
      BY <1>0, <3>2 DEF v
    <3> QED BY <2>1, <2>2, <2>3, <3>3, <3>4, <3>5 DEF ViewCountsEachOnce
  <2>5. CASE ~ChangesView(e)
    <3>1. Keeps /\ expected' = expected /\ state' = state
      BY <1>2, <2>3, <2>5 DEF Record, Keeps
    <3>2. ServerInv'
      BY <2>3, <3>1, ServerKept DEF ServerInv
    <3> QED BY <1>0, <2>1, <2>2, <2>3, <3>1, <3>2 DEF ViewCountsEachOnce
  <2> QED BY <2>4, <2>5
<1> QED BY <1>1, <1>2 DEF ServeEvent
-----------------------------------------------------------------------------
(* A request that is served: its event is one of Events. *)
LEMMA ServedEvents ==
  ASSUME ServerInv, ViewCountsEachOnce, IdentityInv, EventInv,
         NEW kind \in {"state", "event"}, NEW e,
         kind = "event" => e \in Events,
         Serve(kind, e),
         UNCHANGED made, Events' \subseteq Events
  PROVE  /\ ServerInv' /\ ViewCountsEachOnce' /\ IdentityInv' /\ EventInv'
         /\ Keeps \/ GoesOn
<1>1. CASE kind = "state"
  <2>1. /\ UNCHANGED <<state, history, eventIds, epoch, accepted, expected>>
    BY <1>1 DEF Serve, ServeState
  <2>2. ServerInv' /\ ViewCountsEachOnce' /\ Keeps
    BY <2>1 DEF ServerInv, ViewCountsEachOnce, Keeps, EverAccepted
  <2> QED BY <2>1, <2>2 DEF IdentityInv, EventInv, EverAccepted
<1>2. CASE kind = "event"
  <2>1. e \in Events /\ ServeEvent(e)
    BY <1>2 DEF Serve
  <2>2. PastIn(e, EverAccepted, eventIds, history, state.revision)
    BY <2>1 DEF EventInv
  <2>0. e.id \in Nat
    BY <2>1 DEF IdentityInv, Records
  <2>3. /\ Keeps \/ GoesOn
        /\ ServerInv' /\ ViewCountsEachOnce'
    BY <2>0, <2>1, <2>2, Acceptance
  <2>4. \/ eventIds' = eventIds /\ EverAccepted' = EverAccepted
        \/ /\ eventIds' = eventIds \cup {e.id}
           /\ EverAccepted' = EverAccepted \cup {e.id}
           /\ e.revision <= state.revision
    BY <2>0, <2>1, <2>2, Acceptance
  <2>5. IdentityInv'
    <3>1. e.id \in 1..made
      BY <2>1 DEF IdentityInv
    <3>2. EverAccepted' \subseteq 1..made
      BY <2>4, <3>1 DEF IdentityInv
    <3> QED BY <3>2 DEF IdentityInv
  <2>6. ASSUME NEW f \in Events'
        PROVE  /\ TrueIn(f, history', epoch')
               /\ PastIn(f, EverAccepted', eventIds', history', state'.revision)
               /\ f.what = "timer" => f.duration > 0 /\ f.remaining <= f.duration
    <3>1. f \in Events
      BY <2>6
    <3>2. /\ TrueIn(f, history, epoch)
          /\ PastIn(f, EverAccepted, eventIds, history, state.revision)
          /\ f.what = "timer" => f.duration > 0 /\ f.remaining <= f.duration
      BY <3>1 DEF EventInv
    <3>3. f.epoch \in Nat /\ f.revision \in Int
      BY <3>1 DEF IdentityInv, Records
    <3>4. TrueIn(f, history', epoch')
      BY <2>3, <3>2, <3>3, StatementsKept
    <3>5. PastIn(f, EverAccepted', eventIds', history', state'.revision)
      <4>1. CASE f.id = e.id
        <5>1. f = e
          BY <2>1, <3>1, <4>1 DEF IdentityInv
        <5>2. CASE eventIds' = eventIds /\ EverAccepted' = EverAccepted
          BY <2>3, <3>2, <3>3, <5>2, PastKept
        <5>3. CASE /\ eventIds' = eventIds \cup {e.id}
                   /\ EverAccepted' = EverAccepted \cup {e.id}
                   /\ e.revision <= state.revision
          <6>1. state'.revision \in {state.revision, state.revision + 1}
            BY <2>3 DEF Keeps, GoesOn
          <6>2. e.revision <= state'.revision
            BY <3>3, <5>1, <5>3, <6>1 DEF ServerInv
          <6> QED BY <5>1, <5>3, <6>2 DEF PastIn
        <5> QED BY <2>4, <5>2, <5>3
      <4>2. CASE f.id # e.id
        <5>1. /\ f.id \in EverAccepted' <=> f.id \in EverAccepted
              /\ f.id \in eventIds' <=> f.id \in eventIds
          BY <2>4, <4>2
        <5>2. /\ f.id \in EverAccepted => f.revision <= state.revision
              /\ f.id \in EverAccepted /\ f.id \notin eventIds =>
                   f.revision \notin DOMAIN history
          BY <3>2 DEF PastIn
        <5>3. CASE Keeps
          BY <5>1, <5>2, <5>3 DEF Keeps, PastIn
        <5>4. CASE GoesOn
          <6>1. /\ DOMAIN history' = DOMAIN history \cup {state.revision + 1}
                /\ state'.revision = state.revision + 1
            BY <5>4 DEF GoesOn, WithRevision
          <6>2. state.revision \in Nat
            BY DEF ServerInv
          <6>3. f.id \in EverAccepted =>
                  f.revision <= state'.revision /\ f.revision # state.revision + 1
            BY <3>3, <5>2, <6>1, <6>2
          <6> QED BY <5>1, <5>2, <6>1, <6>3 DEF PastIn
        <5> QED BY <2>3, <5>3, <5>4
      <4> QED BY <4>1, <4>2
    <3> QED BY <3>2, <3>4, <3>5
  <2>7. EventInv'
    BY <2>6 DEF EventInv
  <2> QED BY <2>3, <2>5, <2>7
<1> QED BY <1>1, <1>2
-----------------------------------------------------------------------------
(* Which events a step of the device leaves on their way. *)
LEMMA QueueTail ==
  ASSUME WireInv, queue # <<>>
  PROVE  /\ Tail(queue) \in Seq(Records)
         /\ {Tail(queue)[i] : i \in 1..Len(Tail(queue))}
              \subseteq {queue[i] : i \in 1..Len(queue)}
<1>1. queue \in Seq(Records)
  BY DEF WireInv
<1>2. /\ Tail(queue) \in Seq(Records) /\ Len(Tail(queue)) = Len(queue) - 1
      /\ \A i \in 1..Len(Tail(queue)) : Tail(queue)[i] = queue[i + 1]
      /\ Len(queue) \in Nat
  BY <1>1, HeadTailProperties, LenProperties
<1>3. \A i \in 1..Len(Tail(queue)) : i + 1 \in 1..Len(queue)
  BY <1>2
<1> QED BY <1>2, <1>3

LEMMA QueueAppend ==
  ASSUME WireInv, NEW e \in Records
  PROVE  /\ Append(queue, e) \in Seq(Records) /\ Append(queue, e) # <<>>
         /\ {Append(queue, e)[i] : i \in 1..Len(Append(queue, e))}
              \subseteq {queue[i] : i \in 1..Len(queue)} \cup {e}
<1>1. queue \in Seq(Records)
  BY DEF WireInv
<1>2. /\ Append(queue, e) \in Seq(Records) /\ Append(queue, e) # <<>>
      /\ Len(Append(queue, e)) = Len(queue) + 1
      /\ \A i \in 1..Len(queue) : Append(queue, e)[i] = queue[i]
      /\ Append(queue, e)[Len(queue) + 1] = e
      /\ Len(queue) \in Nat
  BY <1>1, AppendProperties, LenProperties
<1>3. \A i \in 1..Len(Append(queue, e)) :
        i \in 1..Len(queue) \/ i = Len(queue) + 1
  BY <1>2
<1> QED BY <1>2, <1>3

(* A new event (pb_event_queue.c:494-515, :480-492): it speaks of the present
   binding, has a new id, and a timer event has the times of the timer. *)
LEMMA EventMade ==
  ASSUME IInv, NEW e, NEW queued \in BOOLEAN, Enqueue(e, queued),
         UNCHANGED <<binding, wireVars, serverVars>>, TimerInv',
         NEW what \in {"timer", "primary", "primary_long"},
         NEW duration \in Nat, NEW remaining \in Nat,
         e = Event(what, duration, remaining),
         what = "timer" => duration > 0 /\ remaining <= duration
  PROVE  IInv'
<1>1. /\ UNCHANGED <<exchange, late, state, history, epoch, eventIds,
                     accepted, EverAccepted, expected, binding>>
  BY DEF EverAccepted, wireVars, serverVars
<1>2. Requests' = Requests
  BY <1>1 DEF Requests
<1>3. /\ ServerInv' /\ ViewCountsEachOnce' /\ AnswerInv' /\ BindingInv'
  BY <1>1 DEF IInv, ServerInv, ViewCountsEachOnce, AnswerInv, BindingInv, Bound
<1>4. CASE ~queued
  <2>1. queue' = queue /\ made' = made
    BY <1>4 DEF Enqueue
  <2>2. Events' = Events
    BY <1>2, <2>1 DEF Events
  <2>3. WireInv'
    BY <1>1, <1>2, <2>1 DEF IInv, WireInv
  <2>4. IdentityInv' /\ EventInv'
    BY <1>1, <2>1, <2>2 DEF IInv, IdentityInv, EventInv
  <2> QED BY <1>3, <2>3, <2>4 DEF IInv
<1>5. CASE queued
  <2>1. Bound /\ queue' = Append(queue, e) /\ made' = made + 1 /\ made \in Nat
    BY <1>5 DEF Enqueue, IInv, WireInv
  <2>2. e \in Records /\ e.id = made + 1
    BY <2>1 DEF Event, Records, IInv, BindingInv, Stated
  <2>3. /\ e.revision = binding.revision /\ e.app = binding.app
        /\ e.genuine = binding.genuine /\ e.epoch = binding.epoch
        /\ e.what = what /\ e.duration = duration /\ e.remaining = remaining
    BY DEF Event
  <2>4. Events' \subseteq Events \cup {e}
    BY <1>2, <2>1, <2>2, QueueAppend DEF Events, IInv
  <2>5. WireInv'
    BY <1>1, <1>2, <2>1, <2>2, QueueAppend DEF WireInv, IInv
  <2>6. IdentityInv'
    <3>1. /\ Events \subseteq Records /\ \A f \in Events : f.id \in 1..made
          /\ \A f, g \in Events : f.id = g.id => f = g
          /\ EverAccepted \subseteq 1..made
      BY DEF IInv, IdentityInv
    <3>2. 1..made \subseteq 1..made' /\ e.id \in 1..made' /\ e.id \notin 1..made
      BY <2>1, <2>2
    <3>3. Events' \subseteq Records /\ \A f \in Events' : f.id \in 1..made'
      BY <2>2, <2>4, <3>1, <3>2
    <3>4. \A f, g \in Events' : f.id = g.id => f = g
      BY <2>4, <3>1, <3>2
    <3>5. EverAccepted' \subseteq 1..made'
      BY <1>1, <3>1, <3>2
    <3> QED BY <3>3, <3>4, <3>5 DEF IdentityInv
  <2>7. /\ TrueIn(e, history, epoch)
        /\ PastIn(e, EverAccepted, eventIds, history, state.revision)
        /\ e.what = "timer" => e.duration > 0 /\ e.remaining <= e.duration
    <3>1. TrueIn(e, history, epoch)
      BY <2>1, <2>3 DEF IInv, BindingInv, TrueIn
    <3>2. e.id \notin EverAccepted
      BY <2>1, <2>2 DEF IInv, IdentityInv
    <3> QED BY <2>3, <3>1, <3>2 DEF PastIn
  <2>8. EventInv'
    BY <1>1, <2>4, <2>7 DEF IInv, EventInv
  <2> QED BY <1>3, <2>5, <2>6, <2>8 DEF IInv
<1> QED BY <1>4, <1>5

(* A step that makes no event and says nothing new. *)
LEMMA NothingNew ==
  ASSUME IInv, TimerInv', WireInv', AnswerInv', Events' \subseteq Events,
         UNCHANGED <<binding, made, serverVars>>
  PROVE  IInv'
<1>1. UNCHANGED <<state, history, epoch, eventIds, accepted, EverAccepted, expected>>
  BY DEF EverAccepted, serverVars
<1>2. ServerInv' /\ ViewCountsEachOnce' /\ BindingInv'
  BY <1>1 DEF IInv, ServerInv, ViewCountsEachOnce, BindingInv, Bound
<1>3. IdentityInv' /\ EventInv'
  BY <1>1 DEF IInv, IdentityInv, EventInv
<1> QED BY <1>2, <1>3 DEF IInv

LEMMA SameTimer == TimerInv /\ UNCHANGED timerVars => TimerInv'
BY TimerStepKeepsInv

LEMMA Defaults == \A app \in Apps : TimerOf(app) \in Nat
BY ServerAssumption DEF TimerOf

(* What was said stays true when the server goes on. *)
LEMMA SaidKept ==
  ASSUME ServerInv, BindingInv, Keeps \/ GoesOn \/ Restarts, binding' = binding
  PROVE  BindingInv'
<1>1. Stated(binding)
  BY DEF BindingInv
<1>2. CASE Bound
  <2>1. TrueIn(binding, history, epoch) /\ binding.epoch \in Nat
    BY <1>1, <1>2 DEF BindingInv, Stated
  <2>2. TrueIn(binding, history', epoch')
    BY <2>1, StatementsKept
  <2> QED BY <2>2 DEF BindingInv, Bound
<1>3. CASE ~Bound
  BY <1>3 DEF BindingInv, Bound
<1> QED BY <1>2, <1>3
-----------------------------------------------------------------------------
(* The steps. *)

LEMMA ToggleStep ==
  ASSUME IInv, NEW event \in {"started", "paused", "resumed"},
         NEW queued \in BOOLEAN, ShortPressTogglesTimer(event, queued)
  PROVE  IInv'
<1>1. ToggleTimer(event)
  BY DEF ShortPressTogglesTimer
<1>2. TimerInv'
  BY <1>1, TimerStepKeepsInv DEF TimerStep, IInv
<1>3. timer \in Timer /\ timer' \in Timer
  BY <1>2 DEF IInv, TimerInv, TimerTypeOK
<1>4. timer'.status # "ready"
  BY <1>1, <1>3 DEF ToggleTimer, StartTimer, PauseTimer, ResumeTimer, Timer
<1>5. timer'.duration > 0 /\ Remaining(timer') <= timer'.duration
  BY <1>2, <1>4 DEF TimerInv, TimerKeepsTime
<1>6. timer'.duration \in Nat /\ Remaining(timer') \in Nat
  <2>1. timer'.left \in Nat /\ timer'.paused \in Nat /\ timer'.duration \in Nat
        /\ timer'.status \in {"ready", "running", "paused"}
    BY <1>3 DEF Timer
  <2>2. Seconds(timer'.left) \in Nat
    BY <2>1, RoundsUp
  <2> QED BY <2>1, <2>2 DEF Remaining
<1> QED BY <1>2, <1>5, <1>6, EventMade DEF ShortPressTogglesTimer

LEMMA PressStep ==
  ASSUME IInv, NEW queued \in BOOLEAN,
         ShortPressActs(queued) \/ LongPressActs(queued)
  PROVE  IInv'
<1>1. TimerInv'
  BY SameTimer DEF ShortPressActs, LongPressActs, IInv
<1>2. ShortPressActs(queued) => IInv'
  BY <1>1, EventMade DEF ShortPressActs
<1>3. LongPressActs(queued) => IInv'
  BY <1>1, EventMade DEF LongPressActs
<1> QED BY <1>2, <1>3

LEMMA FinishStep ==
  ASSUME IInv, NEW queued \in BOOLEAN, TimerFinishes(queued)
  PROVE  IInv'
<1>1. TimerInv'
  BY TimerStepKeepsInv DEF TimerFinishes, TimerStep, IInv
<1>2. timer.status = "running"
  BY DEF TimerFinishes, FinishTimer
<1>3. timer.duration \in Nat /\ timer.duration > 0
  BY <1>2 DEF IInv, TimerInv, TimerTypeOK, TimerKeepsTime, Timer
<1> QED BY <1>1, <1>3, EventMade DEF TimerFinishes

LEMMA TimeStep ==
  ASSUME IInv, TimePasses
  PROVE  IInv'
<1>1. TimerInv'
  BY TimerStepKeepsInv DEF TimePasses, TimerStep, IInv
<1>2. UNCHANGED <<exchange, late, queue, made, binding, state, history, epoch,
                  eventIds, accepted, EverAccepted, expected, serverVars>>
  BY DEF EverAccepted, TimePasses, wireVars, serverVars
<1>3. Requests' = Requests
  BY <1>2 DEF Requests
<1>4. WireInv' /\ AnswerInv' /\ Events' = Events
  BY <1>2, <1>3 DEF IInv, WireInv, AnswerInv, Events
<1> QED BY <1>1, <1>2, <1>4, NothingNew

(* pb_network.c: the worker asks for the state or posts the head. *)
LEMMA AskStep ==
  ASSUME IInv, FetchState \/ PostEvent
  PROVE  IInv'
<1>1. /\ UNCHANGED <<late, queue, made, binding, timerVars, state, history,
                     epoch, serverVars>>
      /\ exchange.phase = "idle"
  BY DEF FetchState, PostEvent, deviceVars, serverVars, Idle
<1>2. TimerInv'
  BY <1>1, SameTimer DEF IInv
<1>3. CASE FetchState
  <2>1. exchange' = [phase |-> "asked", kind |-> "state", event |-> NoEvent]
    BY <1>3 DEF FetchState, Asked
  <2>2. Requests' = late \cup {exchange'} /\ Requests = late
    BY <1>1, <2>1 DEF Requests
  <2>3. WireInv'
    BY <1>1, <2>1, <2>2 DEF IInv, WireInv
  <2>4. Events' \subseteq Events
    BY <1>1, <2>1, <2>2 DEF Events
  <2>5. AnswerInv'
    BY <2>1 DEF AnswerInv
  <2> QED BY <1>1, <1>2, <2>3, <2>4, <2>5, NothingNew
<1>4. CASE PostEvent
  <2>1. /\ exchange' = [phase |-> "asked", kind |-> "event", event |-> Head(queue)]
        /\ queue # <<>>
    BY <1>4 DEF PostEvent, Asked
  <2>2. Requests' = late \cup {exchange'} /\ Requests = late
    BY <1>1, <2>1 DEF Requests
  <2>3. WireInv'
    BY <1>1, <2>1, <2>2 DEF IInv, WireInv
  <2>4. Head(queue) = queue[1] /\ 1 \in 1..Len(queue)
    BY <2>1, HeadTailProperties, LenProperties, EmptySeq DEF IInv, WireInv
  <2>5. Events' \subseteq Events
    BY <1>1, <2>1, <2>2, <2>4 DEF Events
  <2>6. AnswerInv'
    BY <2>1 DEF AnswerInv
  <2> QED BY <1>1, <1>2, <2>3, <2>5, <2>6, NothingNew
<1> QED BY <1>3, <1>4

LEMMA GiveUpStep ==
  ASSUME IInv, NEW underway \in BOOLEAN, GiveUp(underway)
  PROVE  IInv'
<1>1. /\ UNCHANGED <<queue, made, binding, timerVars, state, history,
                     epoch, serverVars>>
      /\ exchange.phase = "asked"
      /\ exchange' = [phase |-> "idle"]
      /\ late' \subseteq late \cup {exchange}
  BY DEF GiveUp, deviceVars, serverVars, Idle
<1>2. TimerInv'
  BY <1>1, SameTimer DEF IInv
<1>3. Requests' \subseteq Requests
  BY <1>1 DEF Requests
<1>4. WireInv'
  BY <1>1, <1>3 DEF IInv, WireInv
<1>5. Events' \subseteq Events
  BY <1>1, <1>3 DEF Events
<1>6. AnswerInv'
  BY <1>1 DEF AnswerInv
<1> QED BY <1>1, <1>2, <1>4, <1>5, <1>6, NothingNew

(* pb_runtime.c:73-149: the answer that is adopted was true when it was
   given, and what has happened since has kept it so. *)
LEMMA StateResultStep ==
  ASSUME IInv, HandleStateResult
  PROVE  IInv'
<1>1. /\ UNCHANGED <<queue, made, late, state, history, epoch, eventIds,
                     accepted, EverAccepted, expected>>
      /\ exchange.phase = "done" /\ exchange.kind = "state"
      /\ exchange' = [phase |-> "idle"]
  BY DEF EverAccepted, HandleStateResult, serverVars, Idle
<1>2. Requests' = Requests
  BY <1>1 DEF Requests
<1>3. WireInv' /\ AnswerInv' /\ Events' = Events
  BY <1>1, <1>2 DEF IInv, WireInv, AnswerInv, Events
<1>4. ServerInv' /\ ViewCountsEachOnce' /\ IdentityInv' /\ EventInv'
  BY <1>1, <1>3 DEF IInv, ServerInv, ViewCountsEachOnce, IdentityInv, EventInv
<1>5. BindingInv' /\ TimerInv'
  <2>1. CASE UNCHANGED <<binding, timerVars>>
    <3>1. TimerInv'
      BY <2>1, SameTimer DEF IInv
    <3> QED BY <1>1, <2>1, <3>1 DEF IInv, BindingInv, Bound
  <2>2. CASE Adopt(exchange.answer)
    <3>1. Stated(exchange.answer) /\ TrueIn(exchange.answer, history, epoch)
      BY <1>1 DEF IInv, AnswerInv
    <3>2. binding' = [revision |-> exchange.answer.revision,
                      app |-> exchange.answer.app,
                      genuine |-> exchange.answer.genuine,
                      epoch |-> exchange.answer.epoch]
      BY <2>2 DEF Adopt
    <3>3. BindingInv'
      BY <1>1, <3>1, <3>2 DEF BindingInv, Stated, TrueIn
    <3>4. TimerOf(exchange.answer.app) \in Nat
      BY <3>1, Defaults DEF Stated
    <3>5. TimerInv'
      BY <2>2, <3>4, ConfigureKeepsInv, ReplaceKeepsInv DEF Adopt, IInv
    <3> QED BY <3>3, <3>5
  <2> QED BY <2>1, <2>2 DEF HandleStateResult
<1> QED BY <1>3, <1>4, <1>5 DEF IInv

LEMMA EventResultStep ==
  ASSUME IInv, NEW removed \in BOOLEAN, HandleEventResult(removed)
  PROVE  IInv'
<1>1. /\ UNCHANGED <<made, late, binding, timerVars, serverVars>>
      /\ exchange.phase = "done" /\ exchange.kind = "event"
      /\ exchange' = [phase |-> "idle"]
      /\ queue' = IF removed THEN Tail(queue) ELSE queue
  BY DEF HandleEventResult, Idle
<1>2. TimerInv'
  BY <1>1, SameTimer DEF IInv
<1>3. Requests' = Requests
  BY <1>1 DEF Requests
<1>4. queue # <<>> /\ WireInv
  BY <1>1 DEF IInv, WireInv
<1>5. /\ queue' \in Seq(Records)
      /\ {queue'[i] : i \in 1..Len(queue')} \subseteq {queue[i] : i \in 1..Len(queue)}
  BY <1>1, <1>4, QueueTail DEF WireInv
<1>6. WireInv'
  BY <1>1, <1>3, <1>4, <1>5 DEF WireInv
<1>7. Events' \subseteq Events
  BY <1>3, <1>5 DEF Events
<1>8. AnswerInv'
  BY <1>1 DEF AnswerInv
<1> QED BY <1>1, <1>2, <1>6, <1>7, <1>8, NothingNew

LEMMA RebootStep ==
  ASSUME IInv, Reboot
  PROVE  IInv'
<1>1. /\ UNCHANGED <<queue, made, late, binding, state, history, epoch,
                     serverVars>>
      /\ exchange.phase # "asked" /\ exchange' = [phase |-> "idle"]
  BY DEF Reboot, serverVars, Idle
<1>2. TimerInv'
  <2>1. binding.app \in Apps
    BY DEF IInv, BindingInv, Stated
  <2>2. (IF Bound THEN TimerOf(binding.app) ELSE 0) \in Nat
    BY <2>1, Defaults
  <2> QED BY <2>2, ReplaceKeepsInv DEF Reboot
<1>3. Requests' = Requests
  BY <1>1 DEF Requests
<1>4. WireInv' /\ AnswerInv' /\ Events' = Events
  BY <1>1, <1>3 DEF IInv, WireInv, AnswerInv, Events
<1> QED BY <1>1, <1>2, <1>4, NothingNew

(* conformance.py:104-115: the answer that is given is true of the history. *)
LEMMA AnswerStep ==
  ASSUME IInv, ServerAnswers
  PROVE  IInv'
<1>1. /\ UNCHANGED <<late, queue, made, binding, timerVars>>
      /\ exchange.phase = "asked"
      /\ Serve(exchange.kind, exchange.event)
  BY DEF ServerAnswers, deviceVars
<1>2. exchange \in Requests
  BY <1>1 DEF Requests
<1>3. /\ exchange.kind \in {"state", "event"}
      /\ exchange.kind = "event" => queue # <<>>
  BY <1>1, <1>2 DEF IInv, WireInv
<1>4. exchange.kind = "event" => exchange.event \in Events
  BY <1>2 DEF Events
<1>5. PICK whole :
        exchange' \in {[phase |-> "idle"],
                       [phase |-> "done", kind |-> exchange.kind,
                        answer |-> Answer(exchange.kind, exchange.event),
                        whole |-> whole]}
  BY DEF ServerAnswers, Idle
<1>6. Requests' = late /\ late \subseteq Requests
  BY <1>1, <1>5 DEF Requests
<1>7. Events' \subseteq Events
  BY <1>1, <1>6 DEF Events
<1>8. /\ ServerInv' /\ ViewCountsEachOnce' /\ IdentityInv' /\ EventInv'
      /\ Keeps \/ GoesOn
  BY <1>1, <1>3, <1>4, <1>7, ServedEvents DEF IInv
<1>9. BindingInv'
  BY <1>1, <1>8, SaidKept DEF IInv
<1>10. TimerInv'
  BY <1>1, SameTimer DEF IInv
<1>11. WireInv'
  BY <1>1, <1>3, <1>5, <1>6 DEF IInv, WireInv
<1>12. AnswerInv'
  <2>1. SUFFICES ASSUME exchange'.phase = "done", exchange'.kind = "state"
                 PROVE  /\ Stated(exchange'.answer)
                        /\ TrueIn(exchange'.answer, history', epoch')
    BY DEF AnswerInv
  <2>2. exchange'.answer = StateAnswer /\ exchange.kind = "state"
    BY <1>5, <2>1 DEF Answer
  <2>3. /\ state.revision \in Nat /\ state.app \in Apps /\ epoch \in Nat
        /\ state.revision \in DOMAIN history
        /\ history[state.revision] = state.app
    BY DEF IInv, ServerInv
  <2>4. Stated(StateAnswer)
    BY <2>3 DEF StateAnswer, Stated
  <2>5. TrueIn(StateAnswer, history, epoch)
    <3>1. StateAnswer.genuine => StateAnswer.revision = state.revision
      BY DEF StateAnswer
    <3>2. StateAnswer.app = state.app /\ StateAnswer.epoch = epoch
      BY DEF StateAnswer
    <3> QED BY <2>3, <3>1, <3>2 DEF TrueIn
  <2>6. UNCHANGED <<history, epoch>>
    BY <1>1, <2>2 DEF Serve, ServeState
  <2> QED BY <2>2, <2>4, <2>5, <2>6
<1> QED BY <1>8, <1>9, <1>10, <1>11, <1>12 DEF IInv

LEMMA LateStep ==
  ASSUME IInv, NEW r \in late, ServerServesLate(r)
  PROVE  IInv'
<1>1. /\ UNCHANGED <<exchange, queue, made, binding, timerVars>>
      /\ late' \subseteq late /\ Serve(r.kind, r.event)
  BY DEF ServerServesLate, deviceVars
<1>2. r \in Requests
  BY DEF Requests
<1>3. /\ r.kind \in {"state", "event"}
      /\ r.kind = "event" => r.event \in Events
  BY <1>2 DEF IInv, WireInv, Events
<1>4. Requests' \subseteq Requests
  BY <1>1 DEF Requests
<1>5. Events' \subseteq Events
  BY <1>1, <1>4 DEF Events
<1>6. /\ ServerInv' /\ ViewCountsEachOnce' /\ IdentityInv' /\ EventInv'
      /\ Keeps \/ GoesOn
  BY <1>1, <1>3, <1>5, ServedEvents DEF IInv
<1>7. BindingInv'
  BY <1>1, <1>6, SaidKept DEF IInv
<1>8. TimerInv'
  BY <1>1, SameTimer DEF IInv
<1>9. WireInv'
  BY <1>1, <1>4 DEF IInv, WireInv
<1>10. AnswerInv'
  BY <1>1, <1>6, StatementsKept DEF IInv, AnswerInv, Stated
<1> QED BY <1>6, <1>7, <1>8, <1>9, <1>10 DEF IInv

LEMMA CommandStep ==
  ASSUME IInv, IssueCommand
  PROVE  IInv'
<1>1. /\ UNCHANGED <<exchange, late, queue, made, binding, timerVars>>
      /\ Command
  BY DEF IssueCommand, deviceVars, wireVars
<1>2. /\ Keeps \/ GoesOn \/ Restarts
      /\ ServerInv' /\ ViewCountsEachOnce'
      /\ eventIds' = eventIds \/ Restarts
      /\ EverAccepted' = EverAccepted
  BY <1>1, Commands DEF IInv
<1>3. Requests' = Requests
  BY <1>1 DEF Requests
<1>4. WireInv' /\ Events' = Events
  BY <1>1, <1>3 DEF IInv, WireInv, Events
<1>5. BindingInv'
  BY <1>1, <1>2, SaidKept DEF IInv
<1>6. TimerInv'
  BY <1>1, SameTimer DEF IInv
<1>7. AnswerInv'
  BY <1>1, <1>2, StatementsKept DEF IInv, AnswerInv, Stated
<1>8. IdentityInv'
  BY <1>1, <1>2, <1>4 DEF IInv, IdentityInv
<1>9. ASSUME NEW e \in Events
      PROVE  /\ TrueIn(e, history', epoch')
             /\ PastIn(e, EverAccepted', eventIds', history', state'.revision)
             /\ e.what = "timer" => e.duration > 0 /\ e.remaining <= e.duration
  <2>1. e.epoch \in Nat /\ e.revision \in Int
    BY <1>9 DEF IInv, IdentityInv, Records
  <2>2. /\ TrueIn(e, history, epoch)
        /\ PastIn(e, EverAccepted, eventIds, history, state.revision)
        /\ e.what = "timer" => e.duration > 0 /\ e.remaining <= e.duration
    BY <1>9 DEF IInv, EventInv
  <2>3. ServerInv
    BY DEF IInv
  <2>4. TrueIn(e, history', epoch')
    BY <1>2, <2>1, <2>2, <2>3, StatementsKept
  <2>5. PastIn(e, EverAccepted', eventIds', history', state'.revision)
    BY <1>2, <2>1, <2>2, <2>3, PastKept
  <2> QED BY <2>2, <2>4, <2>5
<1>10. EventInv'
  BY <1>4, <1>9 DEF EventInv
<1> QED BY <1>2, <1>4, <1>5, <1>6, <1>7, <1>8, <1>10 DEF IInv
-----------------------------------------------------------------------------
LEMMA InitiallyInv == Init => IInv
<1>1. SUFFICES ASSUME Init PROVE IInv
  OBVIOUS
<1>2. TimerInv
  BY <1>1, TimerInitiallyInv DEF Init
<1>3. /\ state = [revision |-> 1, app |-> TimerApp, value |-> 7]
      /\ history = [r \in {1} |-> TimerApp]
      /\ eventIds = {} /\ epoch = 0 /\ accepted = <<>> /\ expected = 7
  BY <1>1 DEF Init, ServerInit, Template
<1>4. TimerApp \in Apps
  BY DEF Apps
<1>5. ServerInv
  <2>1. DOMAIN history \subseteq 1..state.revision
    BY <1>3
  <2> QED BY <1>3, <1>4, <2>1 DEF ServerInv
<1>6. /\ binding = [revision |-> -1, app |-> TimerApp, genuine |-> TRUE,
                    epoch |-> 0]
      /\ queue = <<>> /\ made = 0
      /\ exchange = [phase |-> "idle"] /\ late = {}
  BY <1>1 DEF Init, NoBinding, Idle
<1>7. BindingInv
  <2>1. Stated(binding)
    BY <1>4, <1>6 DEF Stated
  <2> QED BY <1>4, <1>6, <2>1 DEF BindingInv, Bound, NoBinding
<1>8. Requests = {} /\ Len(queue) = 0
  BY <1>6 DEF Requests
<1>9. Events = {}
  BY <1>6, <1>8 DEF Events
<1>10. WireInv /\ AnswerInv
  BY <1>6, <1>8 DEF WireInv, AnswerInv
<1>11. IdentityInv /\ EventInv
  <2>1. EverAccepted = {}
    BY <1>3 DEF EverAccepted, Range
  <2> QED BY <1>9, <2>1 DEF IdentityInv, EventInv
<1>12. ViewCountsEachOnce
  BY <1>3 DEF ViewCountsEachOnce
<1> QED BY <1>2, <1>5, <1>7, <1>10, <1>11, <1>12 DEF IInv

LEMMA StepKeepsInv == IInv /\ [Next]_vars => IInv'
<1> SUFFICES ASSUME IInv, [Next]_vars PROVE IInv'
  OBVIOUS
<1>1. ASSUME NEW queued \in BOOLEAN,
             \/ \E event \in {"started", "paused", "resumed"} :
                  ShortPressTogglesTimer(event, queued)
             \/ ShortPressActs(queued) \/ LongPressActs(queued)
             \/ TimerFinishes(queued)
      PROVE  IInv'
  BY <1>1, ToggleStep, PressStep, FinishStep
<1>2. CASE TimePasses
  BY <1>2, TimeStep
<1>3. CASE FetchState \/ PostEvent
  BY <1>3, AskStep
<1>4. ASSUME NEW underway \in BOOLEAN, GiveUp(underway) PROVE IInv'
  BY <1>4, GiveUpStep
<1>5. CASE HandleStateResult
  BY <1>5, StateResultStep
<1>6. ASSUME NEW removed \in BOOLEAN, HandleEventResult(removed) PROVE IInv'
  BY <1>6, EventResultStep
<1>7. CASE Reboot
  BY <1>7, RebootStep
<1>8. CASE ServerAnswers
  BY <1>8, AnswerStep
<1>9. ASSUME NEW r \in late, ServerServesLate(r) PROVE IInv'
  BY <1>9, LateStep
<1>10. CASE IssueCommand
  BY <1>10, CommandStep
<1>11. CASE UNCHANGED vars
  <2>1. UNCHANGED <<timerVars, binding, queue, made, exchange, late, serverVars>>
    BY <1>11 DEF vars, deviceVars, wireVars
  <2>2. TimerInv'
    BY <2>1, SameTimer DEF IInv
  <2>3. Requests' = Requests
    BY <2>1 DEF Requests
  <2>4. WireInv' /\ Events' = Events
    BY <2>1, <2>3 DEF IInv, WireInv, Events
  <2>5. AnswerInv'
    BY <2>1 DEF IInv, AnswerInv, serverVars
  <2> QED BY <2>1, <2>2, <2>4, <2>5, NothingNew
<1> QED
  BY <1>1, <1>2, <1>3, <1>4, <1>5, <1>6, <1>7, <1>8, <1>9, <1>10, <1>11
     DEF Next, Device

LEMMA Invariance == Spec => []IInv
BY InitiallyInv, StepKeepsInv, PTL DEF Spec

(* The view of the Action App counts every action once, however often its
   request is repeated, served late or sent again, also across a reset
   (conformance.py:164-181, pb_event_queue.c:494-515): an id is that of one
   event, and one that was accepted before a reset names a revision that the
   history has lost and is refused. *)
THEOREM CountedOnce == Spec => []ViewCountsEachOnce
<1>1. IInv => ViewCountsEachOnce
  BY DEF IInv
<1> QED BY Invariance, <1>1, PTL

(* Whatever is pending in the queue agrees with the history of the server and
   has a remaining time within its duration, also when the App was switched
   while it waited (pb_event_queue.c:480-515, conformance.py:228-247). *)
THEOREM PendingStayAcceptable == Spec => []EventsAcceptable
<1>1. IInv => EventsAcceptable
  <2>1. SUFFICES ASSUME IInv, NEW i \in DOMAIN queue,
                        queue[i].genuine, queue[i].epoch = epoch
                 PROVE  Valid(queue[i])
    BY DEF EventsAcceptable
  <2>2. DOMAIN queue = 1..Len(queue)
    BY <2>1, LenProperties DEF IInv, WireInv
  <2>3. queue[i] \in Events
    BY <2>1, <2>2 DEF Events
  <2>4. /\ queue[i].revision \in DOMAIN history
        /\ history[queue[i].revision] = queue[i].app
        /\ queue[i].what = "timer" =>
             queue[i].duration > 0 /\ queue[i].remaining <= queue[i].duration
    BY <2>1, <2>3 DEF IInv, EventInv, TrueIn
  <2>5. queue[i].revision <= state.revision
    BY <2>1, <2>4 DEF IInv, ServerInv
  <2> QED BY <2>4, <2>5 DEF Valid
<1> QED BY Invariance, <1>1, PTL

(* The timer neither ends early nor is prolonged by a second or more in a
   pause, whatever states arrive and whenever the device restarts
   (pb_timer.c:79, pb_runtime.c:73-149). *)
THEOREM SessionKeepsTime == Spec => []TimerKeepsTime
<1>1. IInv => TimerKeepsTime
  BY DEF IInv, TimerInv
<1> QED BY Invariance, <1>1, PTL
-----------------------------------------------------------------------------
(* The answers.  What the buffer holds is computed by recursion over the
   chunks: that there is such a computation, and what it keeps, is proved by
   induction over their number. *)

(* Induction over the natural numbers, for a set. *)
LEMMA Induction ==
  ASSUME NEW S \in SUBSET Nat, 0 \in S, \A n \in S : n + 1 \in S
  PROVE  S = Nat
<1>1. SUFFICES ASSUME Nat \ S # {} PROVE FALSE
  OBVIOUS
<1>2. IsWellFoundedOn(OpToRel(<, Nat), Nat)
  BY NatLessThanWellFounded
<1>3. \E x \in Nat \ S : \A y \in Nat \ S : ~(<<y, x>> \in OpToRel(<, Nat))
  BY <1>1, <1>2, WFMin
<1>4. PICK x \in Nat \ S : \A y \in Nat \ S : ~(<<y, x>> \in OpToRel(<, Nat))
  BY <1>3
<1>5. \A y \in Nat \ S : ~(y < x)
  BY <1>4 DEF OpToRel
<1>6. x # 0
  BY <1>4
<1>7. x - 1 \in S
  BY <1>5, <1>6
<1>8. (x - 1) + 1 = x
  OBVIOUS
<1> QED BY <1>4, <1>7, <1>8

(* f[i]: the buffer when the first i chunks have been handled. *)
Computes(f, chunks, n) ==
  f = [i \in 0..n |->
         IF i = 0 THEN Cleared ELSE HandleData(f[i - 1], chunks[i])]

LEMMA Computable ==
  ASSUME NEW chunks, NEW n \in Nat
  PROVE  \E f : Computes(f, chunks, n)
<1> DEFINE S == {k \in Nat : \E f : Computes(f, chunks, k)}
<1>1. 0 \in S
  <2>1. Computes([i \in 0..0 |-> Cleared], chunks, 0)
    BY DEF Computes
  <2> QED BY <2>1
<1>2. ASSUME NEW k \in S PROVE k + 1 \in S
  <2>1. PICK f : Computes(f, chunks, k)
    BY <1>2
  <2> DEFINE g == [i \in 0..k + 1 |->
                     IF i <= k THEN f[i] ELSE HandleData(f[k], chunks[k + 1])]
  <2>2. f = [i \in 0..k |->
               IF i = 0 THEN Cleared ELSE HandleData(f[i - 1], chunks[i])]
    BY <2>1 DEF Computes
  <2>3. \A i \in 0..k :
          f[i] = IF i = 0 THEN Cleared ELSE HandleData(f[i - 1], chunks[i])
    BY <2>2
  <2>4. ASSUME NEW i \in 0..k + 1
        PROVE  g[i] = IF i = 0 THEN Cleared ELSE HandleData(g[i - 1], chunks[i])
    <3>1. CASE i = k + 1
      BY <3>1
    <3>2. CASE i \in 0..k /\ i # 0
      <4>1. g[i] = f[i] /\ g[i - 1] = f[i - 1]
        BY <3>2
      <4> QED BY <2>3, <3>2, <4>1
    <3>3. CASE i = 0
      BY <2>3, <3>3
    <3> QED BY <3>1, <3>2, <3>3
  <2>5. Computes(g, chunks, k + 1)
    <3>1. g = [i \in 0..k + 1 |-> g[i]]
      OBVIOUS
    <3> QED BY <2>4, <3>1 DEF Computes
  <2> QED BY <2>5
<1> QED
  <2> HIDE DEF S
  <2>1. S \subseteq Nat
    BY DEF S
  <2>2. S = Nat
    BY <1>1, <1>2, <2>1, Induction
  <2> QED BY <2>2 DEF S

(* Received is what its recursive definition says. *)
LEMMA HandledInTurn ==
  ASSUME NEW chunks, Len(chunks) \in Nat
  PROVE  \E f : /\ Computes(f, chunks, Len(chunks))
                /\ Received(chunks) = f[Len(chunks)]
<1> DEFINE after == CHOOSE f : Computes(f, chunks, Len(chunks))
<1>1. Computes(after, chunks, Len(chunks))
  BY Computable
<1>2. Received(chunks) = after[Len(chunks)]
  BY DEF Received, Computes
<1> QED BY <1>1, <1>2

Buffers == [data : Seq(Nat), overflowed : BOOLEAN]

LEMMA MeetingsMonotone ==
  ASSUME NEW n \in Nat, NEW b \in Meetings(n)
  PROVE  /\ Len(b) \in Nat \ {0} /\ b \in [1..Len(b) -> 0..n]
         /\ b[1] = 0 /\ b[Len(b)] = n
         /\ \A i \in 1..Len(b) - 1 : b[i] < b[i + 1]
<1>1. PICK m \in 1..n + 1 :
        /\ b \in [1..m -> 0..n] /\ b[1] = 0 /\ b[m] = n
        /\ \A i \in 1..m - 1 : b[i] < b[i + 1]
  BY DEF Meetings
<1>2. m \in Nat \ {0}
  OBVIOUS
<1>3. Len(b) = m
  <2>1. b \in Seq(0..n) /\ DOMAIN b = 1..m
    BY <1>1, <1>2
  <2> QED BY <1>2, <2>1
<1> QED BY <1>1, <1>2, <1>3

LEMMA SliceOn ==
  ASSUME NEW to \in Nat, NEW on \in Nat, to < on,
         NEW came \in Seq(Nat), came = Slice(0, to),
         NEW chunk \in Seq(Nat), chunk = Slice(to, on)
  PROVE  came \o chunk = Slice(0, on)
<1> DEFINE all == Slice(0, on)
<1>1. /\ Len(came) = to /\ \A i \in 1..to : came[i] = i
      /\ Len(chunk) = on - to /\ \A i \in 1..on - to : chunk[i] = to + i
      /\ all \in Seq(Nat) /\ Len(all) = on /\ \A i \in 1..on : all[i] = i
  BY DEF Slice
<1>2. /\ came \o chunk \in Seq(Nat)
      /\ Len(came \o chunk) = Len(came) + Len(chunk)
      /\ \A i \in 1..Len(came) + Len(chunk) :
           (came \o chunk)[i] =
             IF i <= Len(came) THEN came[i] ELSE chunk[i - Len(came)]
  BY ConcatProperties
<1> HIDE DEF all
<1>3. Len(came \o chunk) = on
  <2>1. Len(came \o chunk) = to + (on - to)
    BY <1>1, <1>2
  <2> QED BY <2>1
<1>4. ASSUME NEW i \in 1..on PROVE (came \o chunk)[i] = all[i]
  BY <1>1, <1>2
<1>5. came \o chunk = all
  BY <1>1, <1>2, <1>3, <1>4, SeqEqual
<1> QED BY <1>5 DEF all

LEMMA SliceType ==
  ASSUME NEW from \in Nat, NEW to \in Nat, from <= to
  PROVE  Slice(from, to) \in Seq(Nat)
BY DEF Slice

LEMMA SliceAppend ==
  ASSUME NEW from \in Nat, NEW to \in Nat, from <= to,
         NEW next \in Nat, next = to + 1,
         NEW s \in Seq(Nat), s = Slice(from, to)
  PROVE  Slice(from, next) = Append(s, next)
<1> DEFINE t == Slice(from, next)
<1>1. /\ s \in Seq(Nat) /\ Len(s) = to - from
      /\ \A i \in 1..to - from : s[i] = from + i
      /\ t \in Seq(Nat) /\ Len(t) = (to - from) + 1
      /\ \A i \in 1..(to - from) + 1 : t[i] = from + i
  <2>1. next - from = (to - from) + 1 /\ to - from \in Nat
    OBVIOUS
  <2>2. t = [i \in 1..(to - from) + 1 |-> from + i]
    BY <2>1 DEF Slice
  <2>3. s = [i \in 1..to - from |-> from + i]
    BY DEF Slice
  <2> QED BY <2>1, <2>2, <2>3
<1> HIDE DEF t
<1>2. /\ Append(s, next) \in Seq(Nat)
      /\ Len(Append(s, next)) = Len(s) + 1
      /\ \A i \in 1..Len(s) : Append(s, next)[i] = s[i]
      /\ Append(s, next)[Len(s) + 1] = next
  BY AppendProperties
<1>3. Len(t) = Len(Append(s, next))
  BY <1>1, <1>2
<1>4. ASSUME NEW i \in 1..(to - from) + 1
      PROVE  t[i] = Append(s, next)[i]
  <2>1. CASE i \in 1..to - from
    <3>1. i \in 1..Len(s) /\ s[i] = from + i /\ t[i] = from + i
      BY <1>1, <2>1
    <3> QED BY <1>2, <3>1, Zenon
  <2>2. CASE i = (to - from) + 1
    <3>1. i = Len(s) + 1 /\ t[i] = next
      BY <1>1, <2>2
    <3>2. Append(s, next)[Len(s) + 1] = next
      BY <1>2
    <3>3. Append(s, next)[i] = next
      BY ONLY <3>1, <3>2
    <3> QED BY <3>1, <3>3, Zenon
  <2>3. i \in 1..to - from \/ i = (to - from) + 1
    OBVIOUS
  <2> QED BY <2>1, <2>2, <2>3, Zenon
<1>5. t = Append(s, next)
  BY <1>1, <1>2, <1>3, <1>4, SeqEqual
<1> QED BY <1>5 DEF t

LEMMA SliceHead ==
  ASSUME NEW from \in Nat, NEW to \in Nat, from < to
  PROVE  /\ Slice(from, to) # <<>> /\ Head(Slice(from, to)) = from + 1
         /\ Tail(Slice(from, to)) = Slice(from + 1, to)
<1> DEFINE s == Slice(from, to)
           t == Slice(from + 1, to)
<1>1. /\ s \in Seq(Nat) /\ Len(s) = to - from
      /\ \A i \in 1..to - from : s[i] = from + i
      /\ t \in Seq(Nat) /\ Len(t) = to - (from + 1)
      /\ \A i \in 1..to - (from + 1) : t[i] = (from + 1) + i
  <2>1. to - from \in Nat \ {0} /\ to - (from + 1) \in Nat
    OBVIOUS
  <2>2. s = [i \in 1..to - from |-> from + i]
    BY DEF Slice
  <2>3. t = [i \in 1..to - (from + 1) |-> (from + 1) + i]
    BY DEF Slice
  <2> QED BY <2>1, <2>2, <2>3
<1> HIDE DEF s, t
<1>2. s # <<>>
  BY <1>1
<1>3. /\ Head(s) = s[1] /\ Tail(s) \in Seq(Nat) /\ Len(Tail(s)) = Len(s) - 1
      /\ \A i \in 1..Len(Tail(s)) : Tail(s)[i] = s[i + 1]
  BY <1>1, <1>2, HeadTailProperties
<1>4. Head(s) = from + 1
  BY <1>1, <1>3
<1>5. Len(Tail(s)) = Len(t)
  BY <1>1, <1>3
<1>6. ASSUME NEW i \in 1..Len(t) PROVE Tail(s)[i] = t[i]
  BY <1>1, <1>3, <1>5
<1>7. Tail(s) = t
  BY <1>1, <1>3, <1>5, <1>6, SeqEqual
<1> QED BY <1>2, <1>4, <1>7 DEF s, t

(* As long as no chunk was dropped, the buffer holds what has come; none is
   dropped of what fits the buffer as a whole. *)
LEMMA HoldsWhatCame ==
  ASSUME NEW n \in Nat, NEW b \in Meetings(n)
  PROVE  LET response == Received(ChunksOf(b))
         IN  /\ response.overflowed \/ response.data = Slice(0, n)
             /\ n <= ResponseCapacity => ~response.overflowed
<1> DEFINE chunks == ChunksOf(b)
           m == Len(b) - 1
<1>1. /\ m \in Nat /\ b \in [1..m + 1 -> 0..n]
      /\ b[1] = 0 /\ b[m + 1] = n
      /\ \A i \in 1..m : b[i] < b[i + 1]
  BY MeetingsMonotone
<1>2. chunks = [i \in 1..m |-> Slice(b[i], b[i + 1])]
  BY DEF ChunksOf
<1>3. Len(chunks) = m
  BY <1>1, <1>2
<1>4. PICK after : Computes(after, chunks, m) /\ Received(chunks) = after[m]
  BY <1>1, <1>3, HandledInTurn
<1>5. after = [i \in 0..m |-> IF i = 0 THEN Cleared
                               ELSE HandleData(after[i - 1], chunks[i])]
  BY <1>4 DEF Computes
<1> HIDE DEF m, chunks
<1>6. \A i \in 0..m : after[i] = IF i = 0 THEN Cleared
                                 ELSE HandleData(after[i - 1], chunks[i])
  BY <1>5
<1> DEFINE Good(i) ==
             /\ after[i] \in Buffers
             /\ after[i].overflowed \/ after[i].data = Slice(0, b[i + 1])
             /\ n <= ResponseCapacity => ~after[i].overflowed
           S == {i \in Nat : i <= m => Good(i)}
<1>7. 0 \in S
  <2>1. after[0] = Cleared
    BY <1>1, <1>6
  <2>2. b[0 + 1] = 0 /\ Slice(0, 0) = <<>>
    BY <1>1 DEF Slice
  <2>3. /\ Cleared.overflowed = FALSE /\ Cleared.data = <<>>
        /\ Cleared \in Buffers
    BY DEF Cleared, Buffers
  <2>4. Good(0)
    BY <2>1, <2>2, <2>3
  <2> QED BY <2>4
<1>8. ASSUME NEW i \in Nat, i \in S PROVE i + 1 \in S
  <2>1. SUFFICES ASSUME i + 1 <= m PROVE Good(i + 1)
    OBVIOUS
  <2>2. Good(i)
    BY <1>1, <1>8, <2>1
  <2> HIDE DEF S, Good
  <2>3. i + 1 \in 1..m /\ i + 1 \in 0..m /\ (i + 1) - 1 = i /\ (i + 1) + 1 = i + 2
    BY <1>1, <2>1
  <2>4. /\ after[i + 1] = HandleData(after[i], chunks[i + 1])
        /\ chunks[i + 1] = Slice(b[i + 1], b[i + 2])
    <3>1. after[i + 1] = IF i + 1 = 0 THEN Cleared
                         ELSE HandleData(after[(i + 1) - 1], chunks[i + 1])
      BY <1>6, <2>3
    <3>2. chunks[i + 1] = Slice(b[i + 1], b[(i + 1) + 1])
      BY <1>2, <2>3
    <3> QED BY <2>3, <3>1, <3>2
  <2>5. b[i + 1] \in Nat /\ b[i + 2] \in Nat /\ b[i + 1] < b[i + 2]
    BY <1>1, <2>3
  <2>6. /\ chunks[i + 1] \in Seq(Nat)
        /\ Len(chunks[i + 1]) = b[i + 2] - b[i + 1]
        /\ \A j \in 1..b[i + 2] - b[i + 1] : chunks[i + 1][j] = b[i + 1] + j
    BY <2>4, <2>5 DEF Slice
  <2>7. after[i] \in Buffers
    BY <2>2 DEF Good
  <2>8. after[i].data \in Seq(Nat) /\ after[i].data \o chunks[i + 1] \in Seq(Nat)
    BY <2>6, <2>7 DEF Buffers
  <2>9. after[i + 1] \in Buffers
    BY <2>4, <2>7, <2>8 DEF Buffers, HandleData
  <2>10. CASE Len(after[i].data) + Len(chunks[i + 1]) > ResponseCapacity
    <3>1. after[i + 1].overflowed
      BY <2>4, <2>7, <2>10 DEF HandleData, Buffers
    <3>2. ~(n <= ResponseCapacity)
      <4>1. SUFFICES ASSUME n <= ResponseCapacity PROVE FALSE
        OBVIOUS
      <4>2. after[i].data = Slice(0, b[i + 1])
        BY <2>2, <4>1 DEF Good
      <4>3. Len(after[i].data) = b[i + 1]
        BY <2>5, <4>2 DEF Slice
      <4>4. b[i + 2] <= n
        BY <1>1, <2>3
      <4> QED BY <2>5, <2>6, <2>10, <4>1, <4>3, <4>4, ResponseAssumption
    <3> QED BY <2>9, <3>1, <3>2 DEF Good
  <2>11. CASE ~(Len(after[i].data) + Len(chunks[i + 1]) > ResponseCapacity)
    <3>1. /\ after[i + 1].overflowed = after[i].overflowed
          /\ after[i + 1].data = after[i].data \o chunks[i + 1]
      BY <2>4, <2>7, <2>11 DEF HandleData, Buffers
    <3>2. ASSUME after[i].data = Slice(0, b[i + 1])
          PROVE  after[i + 1].data = Slice(0, b[i + 2])
      BY <2>4, <2>5, <2>6, <2>8, <3>1, <3>2, SliceOn
    <3> QED BY <2>2, <2>3, <2>9, <3>1, <3>2 DEF Good
  <2>12. Good(i + 1)
    BY <2>10, <2>11
  <2> QED BY <2>12 DEF S
<1>9. m \in S
  <2> HIDE DEF S
  <2>1. S \subseteq Nat
    BY DEF S
  <2>2. S = Nat
    BY <1>7, <1>8, <2>1, Induction
  <2> QED BY <1>1, <2>2
<1> QED
  <2>1. Good(m)
    BY <1>1, <1>9
  <2> QED BY <1>1, <1>4, <2>1 DEF chunks

(* A result that counts was made from all pieces: what was closed early lacks
   the last one, and what lost a chunk is not looked at. *)
LEMMA ResultsAreOfTheWhole ==
  ASSUME NEW size \in Nat \ {0}, NEW status,
         NEW result \in Results(size, status), result.ok
  PROVE  result.whole
<1>1. PICK a \in Arrivals(size) :
        result \in {[ok |-> Performs(Received(a.chunks), a.end, status) /\ parsed,
                     whole |-> IsWhole(Received(a.chunks), size)] :
                      parsed \in MayParse(Received(a.chunks), size)}
  BY DEF Results
<1> DEFINE response == Received(a.chunks)
<1>2. PICK parsed \in MayParse(response, size) :
        result = [ok |-> Performs(response, a.end, status) /\ parsed,
                  whole |-> IsWhole(response, size)]
  BY <1>1
<1>3. result.ok <=> Performs(response, a.end, status) /\ parsed
  BY <1>2
<1>4. result.whole = IsWhole(response, size)
  BY <1>2
<1>5. PICK n \in 0..size :
        a \in {[chunks |-> ChunksOf(b), end |-> end] :
                b \in Meetings(n),
                end \in IF n = size THEN Ends ELSE Ends \ {"complete"}}
  BY DEF Arrivals
<1>6. PICK b \in Meetings(n) :
         /\ a.chunks = ChunksOf(b)
         /\ a.end = "complete" => n = size
  BY <1>5
<1>7. response.overflowed \/ response.data = Slice(0, n)
  BY <1>6, HoldsWhatCame
<1> HIDE DEF response
<1>8. /\ response.data = Slice(0, n) /\ parsed
      /\ (a.end = "complete" \/ response.data # <<>>)
  BY <1>3, <1>7 DEF Performs
<1>9. IsWhole(response, size)
  <2>1. CASE n = size
    BY <1>8, <2>1 DEF IsWhole
  <2>2. CASE n # size
    <3>1. Slice(0, n) # <<>> /\ Last(Slice(0, n)) = n
      BY <1>8, <1>6, <2>2 DEF Slice, Last
    <3>2. SUFFICES ASSUME ~IsWhole(response, size) PROVE FALSE
      OBVIOUS
    <3>3. MayParse(response, size) = {FALSE}
      BY <1>8, <2>2, <3>1, <3>2 DEF MayParse
    <3> QED BY <1>2, <1>8, <3>3
  <2> QED BY <2>1, <2>2
<1> QED BY <1>4, <1>9

(* Only an answer of success counts. *)
LEMMA OnlySuccessCounts ==
  ASSUME NEW size, NEW status, NEW result \in Results(size, status), result.ok
  PROVE  status = "2xx"
<1>1. PICK a \in Arrivals(size) :
        result \in {[ok |-> Performs(Received(a.chunks), a.end, status) /\ parsed,
                     whole |-> IsWhole(Received(a.chunks), size)] :
                      parsed \in MayParse(Received(a.chunks), size)}
  BY DEF Results
<1>2. PICK parsed :
        result = [ok |-> Performs(Received(a.chunks), a.end, status) /\ parsed,
                  whole |-> IsWhole(Received(a.chunks), size)]
  BY <1>1
<1>3. Performs(Received(a.chunks), a.end, status)
  BY <1>2
<1> QED BY <1>3 DEF Performs

(* An answer that fits the buffer is not lost to the way it is cut into
   chunks (pb_cloud.c:36-46). *)
THEOREM FittingAnswersCount ==
  ASSUME NEW size \in Nat \ {0}, size <= ResponseCapacity,
         NEW a \in Arrivals(size), a.end = "complete"
  PROVE  /\ Performs(Received(a.chunks), a.end, "2xx")
         /\ MayParse(Received(a.chunks), size) = {TRUE}
<1>1. PICK n \in 0..size :
        a \in {[chunks |-> ChunksOf(b), end |-> end] :
                b \in Meetings(n),
                end \in IF n = size THEN Ends ELSE Ends \ {"complete"}}
  BY DEF Arrivals
<1>2. n = size /\ \E b \in Meetings(n) : a.chunks = ChunksOf(b)
  BY <1>1
<1>3. Received(a.chunks).data = Slice(0, size) /\ ~Received(a.chunks).overflowed
  BY <1>2, HoldsWhatCame
<1> DEFINE response == Received(a.chunks)
<1>4. Performs(response, a.end, "2xx")
  BY <1>3 DEF Performs
<1>5. IsWhole(response, size)
  BY <1>3 DEF IsWhole
<1>6. response.data # <<>> /\ Last(response.data) = size
  BY <1>3 DEF Slice, Last
<1> HIDE DEF response
<1>7. MayParse(response, size) = {TRUE}
  BY <1>5, <1>6 DEF MayParse
<1> QED BY <1>4, <1>7 DEF response

LEMMA RepliesStayWhole ==
  ASSUME OnlyWholeReplies, [Next]_vars
  PROVE  OnlyWholeReplies'
<1>1. CASE UNCHANGED exchange
  BY <1>1 DEF OnlyWholeReplies
<1>2. CASE exchange'.phase \in {"idle", "asked"}
  BY <1>2 DEF OnlyWholeReplies
<1>3. CASE ServerAnswers
  <2>1. PICK size \in ReplySizes :
          \E result \in ResultsOf[size][Answer(exchange.kind, exchange.event).status] :
            exchange' = IF result.ok
                        THEN [phase |-> "done", kind |-> exchange.kind,
                              answer |-> Answer(exchange.kind, exchange.event),
                              whole |-> result.whole]
                        ELSE Idle
    BY <1>3 DEF ServerAnswers
  <2>2. size \in ReplySizes /\ size \in Nat \ {0}
    BY <2>1, SessionAssumption
  <2> DEFINE status == Answer(exchange.kind, exchange.event).status
  <2>3. status \in {"2xx", "error"}
    BY DEF Answer, StateAnswer, EventAnswer, Refusal
  <2>4. ResultsOf[size][status] = Results(size, status)
    BY <2>2, <2>3 DEF ResultsOf
  <2> HIDE DEF status
  <2>5. PICK result \in Results(size, status) :
          exchange' = IF result.ok
                      THEN [phase |-> "done", kind |-> exchange.kind,
                            answer |-> Answer(exchange.kind, exchange.event),
                            whole |-> result.whole]
                      ELSE Idle
    BY <2>1, <2>4 DEF status
  <2>6. CASE result.ok
    <3>1. result.whole
      BY <2>2, <2>5, <2>6, ResultsAreOfTheWhole
    <3>2. exchange'.whole = result.whole
      BY <2>5, <2>6
    <3> QED BY <3>1, <3>2 DEF OnlyWholeReplies
  <2>7. CASE ~result.ok
    BY <2>5, <2>7 DEF Idle, OnlyWholeReplies
  <2> QED BY <2>6, <2>7
<1>4. CASE Device
  <2>1. UNCHANGED exchange \/ exchange' = Idle
          \/ \E kind, e : exchange' = Asked(kind, e)
    BY <1>4 DEF Device, ShortPressTogglesTimer, ShortPressActs, LongPressActs,
                TimerFinishes, TimePasses, FetchState, PostEvent, GiveUp,
                HandleStateResult, HandleEventResult, Reboot,
                deviceVars, wireVars
  <2> QED BY <1>1, <1>2, <2>1 DEF Idle, Asked
<1>5. CASE \E r \in late : ServerServesLate(r)
  BY <1>1, <1>5 DEF ServerServesLate
<1>6. CASE IssueCommand
  BY <1>1, <1>6 DEF IssueCommand, wireVars
<1>7. CASE UNCHANGED vars
  BY <1>1, <1>7 DEF vars, wireVars
<1> QED BY <1>3, <1>4, <1>5, <1>6, <1>7 DEF Next

(* Nothing that lacks a piece of the answer becomes a state or an
   acknowledgement, for any capacity of the buffer, any size of the answers and
   any chunks they come in (pb_cloud.c:36-40, 118-143). *)
THEOREM RepliesAreWhole == Spec => []OnlyWholeReplies
<1>1. Init => OnlyWholeReplies
  BY DEF Init, Idle, OnlyWholeReplies
<1>2. OnlyWholeReplies /\ [Next]_vars => OnlyWholeReplies'
  BY RepliesStayWhole
<1> QED BY <1>1, <1>2, PTL DEF Spec
-----------------------------------------------------------------------------
(* The outbox.  The events in the queue are numbered without a gap up to the
   last one made; the list of the server has those before the queue in their
   order, and perhaps the head.  Whatever may still reach it has reached it
   before or is the head. *)
Removed == made - Len(queue)

NumberedInv ==
  /\ Removed \in Nat
  /\ \A i \in 1..Len(queue) : queue[i].id = Removed + i
  /\ \/ accepted = Slice(0, Removed)
     \/ queue # <<>> /\ accepted = Slice(0, Removed + 1)

SentInv ==
  /\ \A r \in Requests :
       r.kind = "event" =>
         r.event.id \in EverAccepted \/ (queue # <<>> /\ r.event = Head(queue))
  /\ exchange.phase = "asked" /\ exchange.kind = "event" =>
       exchange.event = Head(queue)
  /\ exchange.phase = "done" /\ exchange.kind = "event" =>
       Head(queue).id \in EverAccepted

DeliveryInv == NumberedInv /\ SentInv

(* What a step does for the outbox: nothing, a submission or a delivery. *)
Rests == made' = made /\ accepted' = accepted

Submits ==
  made' = made + 1 /\ made' <= MaxEvents /\ accepted' = accepted

Delivers ==
  made' = made /\ \E id \in Nat \ EverAccepted : accepted' = Append(accepted, id)

OutboxStep == Rests \/ Submits \/ Delivers

(* A list of the first k ids has them all. *)
LEMMA IdsOf ==
  ASSUME NEW k \in Nat, accepted = Slice(0, k)
  PROVE  EverAccepted = 1..k /\ accepted \in Seq(Nat)
<1>1. accepted = [i \in 1..k |-> i]
  BY DEF Slice
<1>2. EverAccepted = {accepted[i] : i \in 1..k}
  BY <1>1 DEF EverAccepted, Range
<1>3. accepted \in Seq(Nat)
  BY SliceType
<1> QED BY <1>1, <1>2, <1>3

LEMMA HeadOfQueue ==
  ASSUME WireInv, NumberedInv, queue # <<>>
  PROVE  /\ Head(queue) = queue[1] /\ Head(queue).id = Removed + 1
         /\ Len(queue) \in Nat \ {0}
<1>1. queue \in Seq(Records)
  BY DEF WireInv
<1>2. Len(queue) \in Nat \ {0} /\ Head(queue) = queue[1]
  BY <1>1
<1> QED BY <1>2 DEF NumberedInv

(* Steps that leave the queue and the server's list alone. *)
LEMMA NothingDelivered ==
  ASSUME DeliveryInv, UNCHANGED <<queue, made, accepted, EverAccepted>>,
         \A r \in Requests' :
           r \in Requests \/ (r.kind = "event" => queue # <<>> /\ r.event = Head(queue)),
         exchange'.phase = "asked" /\ exchange'.kind = "event" =>
           exchange'.event = Head(queue),
         exchange'.phase = "done" => exchange' = exchange
  PROVE  DeliveryInv' /\ OutboxStep
<1>1. NumberedInv'
  BY DEF DeliveryInv, NumberedInv, Removed
<1>2. SentInv'
  BY DEF DeliveryInv, SentInv
<1> QED BY <1>1, <1>2 DEF DeliveryInv, OutboxStep, Rests

LEMMA SubmissionStep ==
  ASSUME IInv, DeliveryInv, NEW e \in Records, NEW queued \in BOOLEAN,
         Enqueue(e, queued), e.id = made + 1, UNCHANGED <<wireVars, serverVars>>
  PROVE  DeliveryInv' /\ OutboxStep
<1>1. UNCHANGED <<exchange, late, accepted, EverAccepted>> /\ Requests' = Requests
  BY DEF EverAccepted, wireVars, serverVars, Requests
<1>2. CASE ~queued
  BY <1>1, <1>2, NothingDelivered DEF Enqueue, DeliveryInv, SentInv
<1>3. CASE queued
  <2>1. /\ queue' = Append(queue, e) /\ made' = made + 1 /\ made < MaxEvents
        /\ queue \in Seq(Records) /\ made \in Nat /\ MaxEvents \in Nat
    BY <1>3, SessionAssumption DEF Enqueue, IInv, WireInv
  <2>2. /\ Len(queue') = Len(queue) + 1 /\ Len(queue) \in Nat
        /\ \A i \in 1..Len(queue) : queue'[i] = queue[i]
        /\ queue'[Len(queue) + 1] = e /\ queue' # <<>>
        /\ queue' \in Seq(Records)
    BY <2>1, AppendProperties, LenProperties
  <2>3. Removed' = Removed /\ Removed = made - Len(queue)
    BY <2>1, <2>2 DEF Removed
  <2>4. NumberedInv'
    <3>1. ASSUME NEW i \in 1..Len(queue')
          PROVE  queue'[i].id = Removed + i
      <4>1. CASE i \in 1..Len(queue)
        BY <2>2, <4>1 DEF DeliveryInv, NumberedInv
      <4>2. CASE i = Len(queue) + 1
        BY <2>1, <2>2, <2>3, <4>2
      <4> QED BY <2>2, <4>1, <4>2
    <3> QED BY <1>1, <2>2, <2>3, <3>1 DEF DeliveryInv, NumberedInv
  <2>5. queue # <<>> => Head(queue') = Head(queue)
    BY <2>1, <2>2, HeadTailProperties
  <2>6. exchange.kind = "event" /\ exchange.phase \in {"asked", "done"} => queue # <<>>
    BY DEF IInv, WireInv
  <2>7. SentInv'
    BY <1>1, <2>2, <2>5, <2>6 DEF DeliveryInv, SentInv
  <2>8. Submits
    BY <1>1, <2>1 DEF Submits
  <2> QED BY <2>4, <2>7, <2>8 DEF DeliveryInv, OutboxStep
<1> QED BY <1>2, <1>3

(* The acknowledged head goes, which the server has. *)
LEMMA RemovalStep ==
  ASSUME IInv, DeliveryInv, NEW removed \in BOOLEAN, HandleEventResult(removed)
  PROVE  DeliveryInv' /\ OutboxStep
<1>1. /\ UNCHANGED <<made, late, accepted, EverAccepted>>
      /\ exchange.phase = "done" /\ exchange.kind = "event"
      /\ exchange' = [phase |-> "idle"]
      /\ queue' = IF removed THEN Tail(queue) ELSE queue
      /\ queue # <<>> /\ WireInv
  BY DEF EverAccepted, HandleEventResult, Idle, serverVars, IInv, WireInv
<1>2. Requests' = late /\ late \subseteq Requests
  BY <1>1 DEF Requests
<1>3. CASE ~removed
  BY <1>1, <1>2, <1>3, NothingDelivered
<1>4. CASE removed
  <2>1. /\ Head(queue) = queue[1] /\ Head(queue).id = Removed + 1
        /\ Len(queue) \in Nat \ {0} /\ made \in Nat /\ queue \in Seq(Records)
    BY <1>1, HeadOfQueue DEF DeliveryInv, WireInv
  <2>2. /\ Len(queue') = Len(queue) - 1
        /\ \A i \in 1..Len(queue') : queue'[i] = queue[i + 1]
    BY <1>1, <1>4, <2>1, HeadTailProperties
  <2>3. Head(queue).id \in EverAccepted
    BY <1>1 DEF DeliveryInv, SentInv
  <2>4. /\ Removed \in Nat /\ \A i \in 1..Len(queue) : queue[i].id = Removed + i
        /\ accepted = Slice(0, Removed) \/ accepted = Slice(0, Removed + 1)
    BY DEF DeliveryInv, NumberedInv
  <2>5. Removed' = Removed + 1
    <3>1. made' = made /\ Len(queue') = Len(queue) - 1
      BY <1>1, <2>2
    <3> QED BY <2>1, <3>1 DEF Removed
  <2>6. accepted' = Slice(0, Removed')
    <3>1. ASSUME accepted = Slice(0, Removed) PROVE FALSE
      <4>1. Removed + 1 \notin 1..Removed
        BY <2>4
      <4> QED BY <2>1, <2>3, <2>4, <3>1, <4>1, IdsOf
    <3> QED BY <1>1, <2>4, <2>5, <3>1
  <2>7. \A i \in 1..Len(queue') : queue'[i].id = Removed' + i
    <3>1. SUFFICES ASSUME NEW i \in 1..Len(queue') PROVE queue'[i].id = Removed' + i
      OBVIOUS
    <3>2. i + 1 \in 1..Len(queue)
      BY <2>1, <2>2
    <3>3. queue[i + 1].id = Removed + (i + 1)
      BY <2>4, <3>2
    <3> QED BY <2>2, <2>4, <2>5, <3>3
  <2>8. NumberedInv'
    BY <2>4, <2>5, <2>6, <2>7 DEF NumberedInv
  <2>9. SentInv'
    BY <1>1, <1>2, <2>3 DEF DeliveryInv, SentInv
  <2>10. Rests
    BY <1>1 DEF Rests
  <2> QED BY <2>8, <2>9, <2>10 DEF DeliveryInv, OutboxStep
<1> QED BY <1>3, <1>4

(* A request that is served: an event is new to the server only if it is the
   head. *)
LEMMA ServedStep ==
  ASSUME IInv, DeliveryInv, NEW r \in Requests, Serve(r.kind, r.event),
         UNCHANGED <<queue, made>>, Requests' \subseteq Requests
  PROVE  /\ NumberedInv' /\ OutboxStep
         /\ \A q \in Requests' : q.kind = "event" =>
               q.event.id \in EverAccepted' \/ (queue' # <<>> /\ q.event = Head(queue'))
         /\ EverAccepted \subseteq EverAccepted'
         /\ r.kind = "event" /\ Accepts(r.event) => r.event.id \in EverAccepted'
<1>1. r.kind \in {"state", "event"} /\ WireInv
  BY DEF IInv, WireInv
<1>2. ASSUME accepted' = accepted
      PROVE  NumberedInv' /\ Rests /\ EverAccepted' = EverAccepted
  BY <1>2 DEF DeliveryInv, NumberedInv, Removed, Rests, EverAccepted
<1>3. CASE r.kind = "state"
  <2>1. accepted' = accepted
    BY <1>3 DEF Serve, ServeState
  <2> QED BY <1>2, <1>3, <2>1 DEF OutboxStep, DeliveryInv, SentInv
<1>4. CASE r.kind = "event" /\ ~(Accepts(r.event) /\ ~Known(r.event))
  <2>1. accepted' = accepted
    BY <1>4 DEF Serve, ServeEvent, serverVars
  <2>2. Accepts(r.event) => r.event.id \in EverAccepted
    BY <1>4 DEF Known, IInv, ServerInv
  <2> QED BY <1>2, <2>1, <2>2 DEF OutboxStep, DeliveryInv, SentInv
<1>5. CASE r.kind = "event" /\ Accepts(r.event) /\ ~Known(r.event)
  <2>1. Record(r.event) /\ r.event \in Events
    BY <1>5 DEF Serve, ServeEvent, Events
  <2>2. r.event.id \notin EverAccepted
    <3>1. PastIn(r.event, EverAccepted, eventIds, history, state.revision)
      BY <2>1 DEF IInv, EventInv
    <3>2. r.event.revision \in DOMAIN history /\ r.event.id \notin eventIds
      BY <1>5 DEF Accepts, Valid, Known
    <3> QED BY <3>1, <3>2 DEF PastIn
  <2>3. queue # <<>> /\ r.event = Head(queue)
    BY <1>5, <2>2 DEF DeliveryInv, SentInv
  <2>4. r.event.id = Removed + 1 /\ Removed \in Nat
    BY <1>1, <2>3, HeadOfQueue DEF DeliveryInv, NumberedInv
  <2>5. accepted = Slice(0, Removed)
    <3>1. SUFFICES ASSUME accepted = Slice(0, Removed + 1) PROVE FALSE
      BY DEF DeliveryInv, NumberedInv
    <3>2. Removed + 1 \in Nat /\ Removed + 1 \in 1..Removed + 1
      BY <2>4
    <3> QED BY <2>2, <2>4, <3>1, <3>2, IdsOf
  <2>6. accepted' = Append(accepted, r.event.id)
    BY <2>1 DEF Record
  <2>7. accepted' = Slice(0, Removed + 1)
    <3>1. Slice(0, Removed) \in Seq(Nat)
      BY <2>4, SliceType
    <3>2. 0 \in Nat /\ 0 <= Removed
      BY <2>4
    <3>3. Slice(0, Removed + 1) = Append(Slice(0, Removed), Removed + 1)
      <4>1. Removed \in Nat /\ Removed + 1 \in Nat
        BY <2>4
      <4> QED BY <3>1, <3>2, <4>1, SliceAppend, Zenon
    <3> QED BY <2>4, <2>5, <2>6, <3>3
  <2>8. NumberedInv'
    BY <2>3, <2>7 DEF DeliveryInv, NumberedInv, Removed
  <2>9. Delivers
    BY <2>2, <2>4, <2>6 DEF Delivers
  <2>10. EverAccepted' = EverAccepted \cup {r.event.id}
    <3>1. accepted \in Seq(Nat) /\ r.event.id \in Nat
      BY <2>4 DEF IInv, ServerInv
    <3> QED BY <2>6, <3>1, RangeOfAppend DEF EverAccepted
  <2> QED BY <2>8, <2>9, <2>10 DEF OutboxStep, DeliveryInv, SentInv
<1> QED BY <1>1, <1>3, <1>4, <1>5

(* An answer that acknowledges the head: the server has it. *)
LEMMA AnsweredStep ==
  ASSUME IInv, DeliveryInv, ServerAnswers
  PROVE  DeliveryInv' /\ OutboxStep
<1>1. /\ UNCHANGED <<late, queue, made>>
      /\ exchange.phase = "asked"
      /\ Serve(exchange.kind, exchange.event)
  BY DEF ServerAnswers, deviceVars
<1>2. exchange \in Requests
  BY <1>1 DEF Requests
<1> DEFINE answer == Answer(exchange.kind, exchange.event)
<1> DEFINE Becomes(result) ==
      exchange' = IF result.ok
                  THEN [phase |-> "done", kind |-> exchange.kind,
                        answer |-> answer, whole |-> result.whole]
                  ELSE [phase |-> "idle"]
<1>3. PICK size \in ReplySizes :
        \E result \in ResultsOf[size][answer.status] : Becomes(result)
  BY DEF ServerAnswers, Idle
<1>8. PICK result \in ResultsOf[size][answer.status] : Becomes(result)
  BY <1>3
<1>4. Requests' = late /\ late \subseteq Requests
  BY <1>1, <1>8 DEF Requests
<1>5. /\ NumberedInv' /\ OutboxStep
      /\ \A q \in Requests' : q.kind = "event" =>
            q.event.id \in EverAccepted' \/ (queue' # <<>> /\ q.event = Head(queue'))
      /\ exchange.kind = "event" /\ Accepts(exchange.event) =>
            exchange.event.id \in EverAccepted'
  BY <1>1, <1>2, <1>4, ServedStep
<1>6. ASSUME exchange'.phase = "done", exchange'.kind = "event"
      PROVE  Head(queue').id \in EverAccepted'
  <2>1. exchange.kind = "event" /\ result.ok
    BY <1>6, <1>8
  <2>2. answer.status = "2xx"
    <3>1. size \in ReplySizes
      BY <1>3
    <3>2. answer.status \in {"2xx", "error"}
      BY DEF Answer, StateAnswer, EventAnswer, Refusal
    <3>3. result \in Results(size, answer.status)
      BY <1>8, <3>1, <3>2 DEF ResultsOf
    <3> QED BY <2>1, <3>3, OnlySuccessCounts
  <2>3. Accepts(exchange.event)
    BY <2>1, <2>2 DEF Answer, EventAnswer, Refusal
  <2>4. exchange.event = Head(queue) /\ queue' = queue
    BY <1>1, <2>1 DEF DeliveryInv, SentInv
  <2> QED BY <1>5, <2>1, <2>3, <2>4
<1>7. SentInv'
  BY <1>5, <1>6, <1>8 DEF SentInv
<1> QED BY <1>5, <1>7 DEF DeliveryInv

LEMMA ServedLate ==
  ASSUME IInv, DeliveryInv, NEW r \in late, ServerServesLate(r)
  PROVE  DeliveryInv' /\ OutboxStep
<1>1. /\ UNCHANGED <<exchange, queue, made>>
      /\ late' \subseteq late /\ Serve(r.kind, r.event)
  BY DEF ServerServesLate, deviceVars
<1>2. r \in Requests /\ Requests' \subseteq Requests
  BY <1>1 DEF Requests
<1>3. /\ NumberedInv' /\ OutboxStep /\ EverAccepted \subseteq EverAccepted'
      /\ \A q \in Requests' : q.kind = "event" =>
            q.event.id \in EverAccepted' \/ (queue' # <<>> /\ q.event = Head(queue'))
  BY <1>1, <1>2, ServedStep
<1>4. SentInv'
  BY <1>1, <1>3 DEF DeliveryInv, SentInv
<1> QED BY <1>3, <1>4 DEF DeliveryInv

LEMMA DeliverySteps ==
  ASSUME IInv, DeliveryInv, [Next]_vars
  PROVE  DeliveryInv' /\ OutboxStep
<1>1. ASSUME NEW queued \in BOOLEAN,
             \/ \E event \in {"started", "paused", "resumed"} :
                  ShortPressTogglesTimer(event, queued)
             \/ ShortPressActs(queued) \/ LongPressActs(queued)
             \/ TimerFinishes(queued)
      PROVE  DeliveryInv' /\ OutboxStep
  <2>1. UNCHANGED <<wireVars, serverVars, binding>>
    BY <1>1 DEF ShortPressTogglesTimer, ShortPressActs, LongPressActs, TimerFinishes
  <2>2. TimerInv /\ TimerInv'
    BY <1>1, StepKeepsInv DEF IInv, Next, Device
  <2>3. PICK what \in {"timer", "primary", "primary_long"}, duration \in Nat,
             remaining \in Nat : Enqueue(Event(what, duration, remaining), queued)
    <3>1. CASE ShortPressActs(queued) \/ LongPressActs(queued)
      BY <3>1 DEF ShortPressActs, LongPressActs
    <3>2. CASE TimerFinishes(queued)
      BY <2>2, <3>2 DEF TimerFinishes, TimerInv, TimerTypeOK, Timer
    <3>3. ASSUME NEW event \in {"started", "paused", "resumed"},
                 ShortPressTogglesTimer(event, queued)
          PROVE  \E what \in {"timer", "primary", "primary_long"}, duration \in Nat,
                    remaining \in Nat : Enqueue(Event(what, duration, remaining), queued)
      <4>1. timer'.duration \in Nat /\ Remaining(timer') \in Nat
        <5>1. /\ timer'.left \in Nat /\ timer'.paused \in Nat
              /\ timer'.duration \in Nat
              /\ timer'.status \in {"ready", "running", "paused"}
          BY <2>2 DEF TimerInv, TimerTypeOK, Timer
        <5>2. Seconds(timer'.left) \in Nat
          BY <5>1, RoundsUp
        <5> QED BY <5>1, <5>2 DEF Remaining
      <4> QED BY <3>3, <4>1 DEF ShortPressTogglesTimer
    <3> QED BY <1>1, <3>1, <3>2, <3>3
  <2> DEFINE e == Event(what, duration, remaining)
  <2>4. CASE queued
    <3>1. e \in Records /\ e.id = made + 1
      <4>1. Bound /\ made \in Nat
        BY <2>3, <2>4 DEF Enqueue, IInv, WireInv
      <4>2. /\ binding.app \in Apps /\ binding.revision \in Int
            /\ binding.genuine \in BOOLEAN /\ binding.epoch \in Nat
        BY DEF IInv, BindingInv, Stated
      <4> QED BY <4>1, <4>2 DEF Event, Records
    <3> HIDE DEF e
    <3> QED BY <2>1, <2>3, <3>1, SubmissionStep DEF e
  <2>5. CASE ~queued
    <3>1. UNCHANGED <<queue, made, exchange, late, accepted, EverAccepted>>
      BY <2>1, <2>3, <2>5 DEF EverAccepted, Enqueue, wireVars, serverVars
    <3>2. Requests' = Requests
      BY <3>1 DEF Requests
    <3> QED BY <3>1, <3>2, NothingDelivered DEF DeliveryInv, SentInv
  <2> QED BY <2>4, <2>5
<1>2. CASE TimePasses \/ HandleStateResult \/ Reboot
  <2>1. /\ UNCHANGED <<queue, made, late, accepted, EverAccepted>>
        /\ exchange' \in {exchange, [phase |-> "idle"]}
    BY <1>2 DEF EverAccepted, TimePasses, HandleStateResult, Reboot, wireVars, serverVars, Idle
  <2>2. Requests' \subseteq Requests
    BY <2>1 DEF Requests
  <2> QED BY <2>1, <2>2, NothingDelivered DEF DeliveryInv, SentInv
<1>3. CASE FetchState \/ PostEvent
  <2>1. /\ UNCHANGED <<queue, made, late, accepted, EverAccepted>>
        /\ exchange'.phase = "asked"
        /\ exchange'.kind = "event" => queue # <<>> /\ exchange'.event = Head(queue)
    BY <1>3 DEF EverAccepted, FetchState, PostEvent, deviceVars, serverVars, Asked
  <2>2. Requests' = late \cup {exchange'} /\ late \subseteq Requests
    BY <2>1 DEF Requests
  <2> QED BY <2>1, <2>2, NothingDelivered
<1>4. ASSUME NEW underway \in BOOLEAN, GiveUp(underway)
      PROVE  DeliveryInv' /\ OutboxStep
  <2>1. /\ UNCHANGED <<queue, made, accepted, EverAccepted>>
        /\ exchange.phase = "asked" /\ exchange' = [phase |-> "idle"]
        /\ late' \subseteq late \cup {exchange}
    BY <1>4 DEF EverAccepted, GiveUp, deviceVars, serverVars, Idle
  <2>2. Requests' \subseteq Requests
    BY <2>1 DEF Requests
  <2> QED BY <2>1, <2>2, NothingDelivered
<1>5. ASSUME NEW removed \in BOOLEAN, HandleEventResult(removed)
      PROVE  DeliveryInv' /\ OutboxStep
  BY <1>5, RemovalStep
<1>6. CASE ServerAnswers
  BY <1>6, AnsweredStep
<1>7. ASSUME NEW r \in late, ServerServesLate(r)
      PROVE  DeliveryInv' /\ OutboxStep
  BY <1>7, ServedLate
<1>8. CASE IssueCommand \/ UNCHANGED vars
  <2>1. UNCHANGED <<queue, made, late, exchange, accepted, EverAccepted>>
    <3>1. CASE IssueCommand
      BY <3>1, Commands
         DEF EverAccepted, IssueCommand, deviceVars, wireVars, Command, Replace, Reset, Overlay,
             FaultOnce
    <3>2. CASE UNCHANGED vars
      BY <3>2 DEF vars, deviceVars, wireVars, serverVars, EverAccepted
    <3> QED BY <1>8, <3>1, <3>2
  <2>2. Requests' = Requests
    BY <2>1 DEF Requests
  <2> QED BY <2>1, <2>2, NothingDelivered DEF DeliveryInv, SentInv
<1> QED
  BY <1>1, <1>2, <1>3, <1>4, <1>5, <1>6, <1>7, <1>8 DEF Next, Device
-----------------------------------------------------------------------------
(* What the outbox is: the server has the first k events and the rest of those
   made wait. *)
FirstAreDelivered ==
  \E k \in 0..made : accepted = Slice(0, k) /\ Pending = Slice(k, made)

LEMMA OutboxOf ==
  ASSUME WireInv, NumberedInv
  PROVE  FirstAreDelivered
<1> USE DEF FirstAreDelivered
<1>1. /\ queue \in Seq(Records) /\ made \in Nat /\ Len(queue) \in Nat
      /\ Removed \in Nat /\ Removed = made - Len(queue)
      /\ \A i \in 1..Len(queue) : queue[i].id = Removed + i
  BY LenProperties DEF WireInv, NumberedInv, Removed
<1>3. CASE accepted = Slice(0, Removed)
  <2>1. Undelivered = queue
    <3>1. queue # <<>> => Head(queue).id \notin EverAccepted
      BY <1>1, <1>3, HeadOfQueue, IdsOf
    <3> QED BY <3>1 DEF Undelivered, EverAccepted
  <2>2. DOMAIN queue = 1..made - Removed
    <3>1. DOMAIN queue = 1..Len(queue) /\ made - Removed = Len(queue)
      BY <1>1
    <3> QED BY <3>1
  <2>3. Pending = [i \in 1..made - Removed |-> Removed + i]
    <3>1. \A i \in 1..made - Removed : queue[i].id = Removed + i
      BY <1>1
    <3> QED BY <2>1, <2>2, <3>1 DEF Pending
  <2>4. Removed \in 0..made
    BY <1>1
  <2> QED BY <1>1, <1>3, <2>3, <2>4 DEF Slice
<1>4. CASE queue # <<>> /\ accepted = Slice(0, Removed + 1)
  <2> DEFINE k == Removed + 1
             rest == Tail(queue)
  <2>1. Undelivered = rest
    <3>1. Head(queue).id = k /\ k \in Nat /\ k \in 1..k
      BY <1>1, <1>4, HeadOfQueue
    <3>2. Head(queue).id \in EverAccepted
      BY <1>4, <3>1, IdsOf
    <3> QED BY <1>4, <3>2 DEF Undelivered, EverAccepted
  <2>2. /\ rest \in Seq(Records) /\ Len(rest) = Len(queue) - 1
        /\ \A i \in 1..Len(rest) : rest[i] = queue[i + 1]
        /\ Len(queue) \in Nat \ {0}
    BY <1>1, <1>4, HeadTailProperties, HeadOfQueue
  <2>3. DOMAIN rest = 1..made - k
    <3>1. DOMAIN rest = 1..Len(rest) /\ made - k = Len(rest)
      BY <1>1, <2>2
    <3> QED BY <3>1
  <2>4. \A i \in 1..made - k : rest[i].id = k + i
    <3>1. SUFFICES ASSUME NEW i \in 1..made - k PROVE rest[i].id = k + i
      OBVIOUS
    <3>2. i + 1 \in 1..Len(queue) /\ i \in 1..Len(rest)
      BY <1>1, <2>2
    <3>3. queue[i + 1].id = Removed + (i + 1)
      BY <1>1, <3>2
    <3> QED BY <1>1, <2>2, <3>2, <3>3
  <2>5. k \in 0..made
    BY <1>1, <2>2
  <2> HIDE DEF rest
  <2>6. Pending = [i \in 1..made - k |-> k + i]
    BY <2>1, <2>3, <2>4 DEF Pending
  <2> QED BY <1>4, <2>5, <2>6 DEF Slice
<1> QED BY <1>3, <1>4 DEF NumberedInv

LEMMA OutboxSteps ==
  ASSUME made \in Nat, made' \in Nat, FirstAreDelivered, FirstAreDelivered',
         OutboxStep
  PROVE  [AbstractOutbox!Next]_(AbstractOutbox!outboxVars)
<1>1. PICK k \in 0..made : accepted = Slice(0, k) /\ Pending = Slice(k, made)
  BY DEF FirstAreDelivered
<1>2. PICK n \in 0..made' : accepted' = Slice(0, n) /\ Pending' = Slice(n, made')
  BY DEF FirstAreDelivered
<1>7. Len(accepted) = k /\ Len(accepted') = n /\ accepted \in Seq(Nat)
  <2>1. /\ \A m \in Nat : Slice(0, m) = [i \in 1..m - 0 |-> 0 + i]
        /\ k \in Nat /\ n \in Nat
    BY DEF Slice
  <2>2. \A m \in Nat : Slice(0, m) \in Seq(Nat) /\ Len(Slice(0, m)) = m
    BY <2>1
  <2> QED BY <1>1, <1>2, <2>1, <2>2
<1>3. ASSUME accepted' = accepted PROVE n = k
  BY <1>3, <1>7
<1>4. CASE Rests
  BY <1>1, <1>2, <1>3, <1>4 DEF Rests, AbstractOutbox!outboxVars
<1>5. CASE Submits
  <2>1. n = k /\ made' = made + 1 /\ made' \in 1..MaxEvents
    BY <1>3, <1>5, SessionAssumption DEF Submits
  <2>2. Slice(k, made') = Append(Slice(k, made), made')
    <3>1. k \in Nat /\ k <= made
      OBVIOUS
    <3>2. Slice(k, made) \in Seq(Nat)
      BY <3>1, SliceType
    <3> QED BY <2>1, <3>1, <3>2, SliceAppend, Zenon
  <2>3. AbstractOutbox!Newer(made')
    BY <1>1, <2>1 DEF AbstractOutbox!Newer, Slice
  <2> QED BY <1>1, <1>2, <2>1, <2>2, <2>3
             DEF AbstractOutbox!Next, AbstractOutbox!Submit
<1>6. CASE Delivers
  <2>1. n = k + 1 /\ made' = made
    <3>1. PICK id \in Nat : accepted' = Append(accepted, id)
      BY <1>6 DEF Delivers
    <3>2. Len(accepted') = Len(accepted) + 1
      BY <1>7, <3>1
    <3> QED BY <1>6, <1>7, <3>2 DEF Delivers
  <2>2. k < made
    BY <2>1
  <2>3. Slice(0, n) = Append(Slice(0, k), n)
    <3>1. n \in Nat /\ k \in Nat /\ 0 \in Nat /\ 0 <= k
      OBVIOUS
    <3>2. Slice(0, k) \in Seq(Nat)
      BY <3>1, SliceType
    <3> QED BY <2>1, <3>1, <3>2, SliceAppend, Zenon
  <2>4. /\ Slice(k, made) # <<>> /\ Head(Slice(k, made)) = k + 1
        /\ Tail(Slice(k, made)) = Slice(k + 1, made)
    BY <2>2, SliceHead
  <2> QED BY <1>1, <1>2, <2>1, <2>3, <2>4
             DEF AbstractOutbox!Next, AbstractOutbox!Deliver
<1> QED BY <1>4, <1>5, <1>6 DEF OutboxStep

(* Device and server together implement Outbox, with all that the server's
   operator does to it: the list of what the server accepted, which a reset does
   not shorten here, grows by one event at a time, in order, without a gap and
   with none twice (conformance.py:90-102, :164-194). *)
THEOREM SessionIsOutbox == Spec => ImplementsOutbox
<1>1. Init => DeliveryInv
  <2>1. SUFFICES ASSUME Init PROVE DeliveryInv
    OBVIOUS
  <2>2. /\ queue = <<>> /\ made = 0 /\ accepted = Slice(0, 0)
        /\ exchange = [phase |-> "idle"] /\ late = {}
    BY <2>1 DEF Init, ServerInit, Idle, Slice
  <2> QED BY <2>2 DEF DeliveryInv, NumberedInv, SentInv, Removed, Requests
<1>2. IInv /\ DeliveryInv /\ [Next]_vars => DeliveryInv'
  BY DeliverySteps
<1>3. Spec => []DeliveryInv
  BY <1>1, <1>2, Invariance, PTL DEF Spec
<1>4. IInv /\ DeliveryInv => FirstAreDelivered /\ made \in Nat
  BY OutboxOf DEF IInv, WireInv, DeliveryInv
<1>6. IInv /\ DeliveryInv /\ [Next]_vars /\ FirstAreDelivered /\ made \in Nat
        /\ FirstAreDelivered' /\ (made \in Nat)'
      => [AbstractOutbox!Next]_(AbstractOutbox!outboxVars)
  BY DeliverySteps, OutboxSteps
<1>5. Init => AbstractOutbox!Init
  <2>1. SUFFICES ASSUME Init PROVE Pending = <<>> /\ accepted = <<>>
    BY DEF AbstractOutbox!Init
  <2>2. queue = <<>> /\ accepted = <<>>
    BY <2>1 DEF Init, ServerInit
  <2>3. Undelivered = <<>>
    BY <2>2 DEF Undelivered
  <2> QED BY <2>2, <2>3 DEF Pending
<1> QED
  BY <1>3, <1>4, <1>5, <1>6, Invariance, PTL
     DEF Spec, ImplementsOutbox, AbstractOutbox!Spec
=============================================================================
