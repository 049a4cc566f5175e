------------------------ MODULE QueueMigrationProofs ------------------------
(***************************************************************************)
(* For any set of sources, any number of new events and every disturbance  *)
(* of the flash: no event crosses to another source, a running device has  *)
(* settled the legacy queue, a quarantine is final, no delivered event     *)
(* returns, and nothing is lost from a flash that can be read.             *)
(***************************************************************************)
EXTENDS QueueMigration, TLAPS

USE DEF OwnEntry

(* Nothing can claim the legacy queue any more. *)
Done == legacy.kind = "absent" \/ quarantined

(* Only a queue has events, and the legacy queue only those of Init. *)
EntriesInv ==
  /\ \A s \in Sources : own[s].kind # "queue" => own[s].events = {}
  /\ legacy.kind # "queue" => legacy.events = {}
  /\ legacy.events \subseteq LegacyEvents
  /\ key[LegacyOwner] = LegacyOwner

(* What only a device that has settled the legacy queue leaves in the flash:
   entries of other sources, entries it cannot read, and their binding. *)
ClaimInv ==
  /\ \A s \in Sources : own[s].kind = "invalid" => Done
  /\ \A s \in Sources :
       own[s].kind = "queue" /\ own[s].source # LegacyOwner => Done
  /\ bindingOf \notin {None, LegacyOwner} => Done
  /\ viewOf \in {None, LegacyOwner}

(* An inherited event at the cloud came from a settled device, whose owner's
   entry has been a queue ever since, empty or not. *)
DeliveredInv ==
  \A e \in LegacyEvents :
    e \in delivered[LegacyOwner] =>
      \/ Done
      \/ own[LegacyOwner].kind = "queue" /\ own[LegacyOwner].source = LegacyOwner

(* What a stage of the start knows of the entries and the RAM queue. *)
StageInv ==
  /\ pc = "erase_own" => OwnEntry.kind = "invalid" /\ queue = {}
  /\ pc = "erase_legacy" =>
       /\ OwnEntry.kind = "absent" /\ queue = {}
       /\ disturbed = {} => legacy.events = {}
  /\ pc = "quarantine" => OwnEntry.kind = "absent" /\ queue = {}
  /\ pc = "store" => /\ config = LegacyOwner /\ ~quarantined
                     /\ OwnEntry.kind = "absent" /\ queue = legacy.events
  /\ pc = "drop_legacy" => /\ config = LegacyOwner
                           /\ OwnEntry = Queue(config, queue)
                           /\ queue = legacy.events
  /\ pc = "quarantine_copied" => /\ config = LegacyOwner
                                 /\ OwnEntry = Queue(config, queue)

(* While the device runs, the entry is its own or absent, and agrees with the
   RAM on inherited events, but for delivered ones. *)
RunInv ==
  pc = "run" =>
    /\ OwnEntry.kind = "absent" \/ (OwnEntry.kind = "queue" /\ ~KeyTaken)
    /\ LegacyEvents \cap queue \subseteq OwnEntry.events \cup delivered[config]
    /\ LegacyEvents \cap OwnEntry.events \subseteq queue \cup delivered[config]

IInv ==
  /\ TypeOK /\ EntriesInv /\ ClaimInv /\ DeliveredInv /\ StageInv /\ RunInv
  /\ SourceIsolation /\ LegacySettled
-----------------------------------------------------------------------------
(* The parts of the type invariant that the steps need. *)
LEMMA Shapes ==
  /\ Absent \in Entry /\ Invalid \in Entry
  /\ \A s \in Sources \cup {None}, events \in SUBSET Event : Queue(s, events) \in Entry
  /\ LegacyEvents \subseteq Event
  /\ \A e \in LegacyEvents : e.source = LegacyOwner /\ e.n = 0
  /\ \A s, events : /\ Queue(s, events).kind = "queue"
                    /\ Queue(s, events).source = s
                    /\ Queue(s, events).events = events
  /\ Absent.kind = "absent" /\ Absent.events = {} /\ Absent.source = None
  BY MigrationAssumption DEF Absent, Invalid, Queue, Entry, LegacyEvents, Event

(* The steps that write nothing and leave the RAM queue alone, or lose it with
   the power. *)
Quiet ==
  \/ PowerOn \/ ReadFails \/ Crash \/ Reconfigure \/ Settle \/ UNCHANGED moving

LEMMA QuietTyped == TypeOK /\ Quiet /\ UNCHANGED <<key, disturbed>> => TypeOK'
  BY DEF TypeOK, Quiet, PowerOn, ReadFails, Crash, Reconfigure, Settle, moving,
    nvs, Stages

LEMMA ReadsTyped ==
  ASSUME TypeOK, ReadOwn \/ NothingInherited \/ DiscardInherited
                   \/ RefuseInherited \/ TakeInherited,
         UNCHANGED <<key, disturbed>>
  PROVE  TypeOK'
<1>1. /\ UNCHANGED <<config, nvs, made, delivered, settled>>
      /\ pc' \in Stages
      /\ queue' \in {OwnEntry.events, legacy.events, {}}
      /\ pc' \in {"off", "start"} => queue' = {}
  BY DEF ReadOwn, NothingInherited, DiscardInherited, RefuseInherited,
    TakeInherited, Continue, Stages
<1>2. OwnEntry \in Entry /\ legacy \in Entry
  BY DEF TypeOK
<1>3. OwnEntry.events \subseteq Event /\ legacy.events \subseteq Event
  BY <1>2 DEF Entry
<1> QED BY <1>1, <1>3 DEF TypeOK, nvs

LEMMA WriteTyped ==
  ASSUME TypeOK, NEW result \in Results, Write(result), UNCHANGED <<key, disturbed>>
  PROVE  TypeOK'
<1> USE DEF Outcome, Stages, Written
<1>1. Queue(config, queue) \in Entry /\ Absent \in Entry
  BY Shapes DEF TypeOK
<1>2. CASE EraseOwn(result) \/ StoreInherited(result)
  BY <1>1, <1>2 DEF TypeOK, EraseOwn, StoreInherited
<1>3. CASE EraseLegacy(result) \/ DropLegacy(result)
  BY <1>1, <1>3 DEF TypeOK, EraseLegacy, DropLegacy
<1>4. CASE Quarantine(result) \/ QuarantineCopied(result)
  BY <1>4 DEF TypeOK, Quarantine, QuarantineCopied
<1> QED BY <1>2, <1>3, <1>4 DEF Write

LEMMA StoreTyped ==
  ASSUME TypeOK, NEW next \in SUBSET Event, NEW result, StoreQueue(next, result),
         UNCHANGED <<key, disturbed>>, made' \in [Sources -> Nat],
         delivered' \in [Sources -> SUBSET Event]
  PROVE  TypeOK'
<1>1. Queue(config, next) \in Entry
  BY Shapes DEF TypeOK
<1> QED BY <1>1 DEF TypeOK, StoreQueue

LEMMA RunTyped ==
  ASSUME TypeOK, NEW result \in Results, Run(result), UNCHANGED <<key, disturbed>>
  PROVE  TypeOK'
<1>1. CASE AdoptBinding(result)
  BY <1>1 DEF TypeOK, AdoptBinding
<1>2. CASE NewEvent(result)
  <2>1. made' \in [Sources -> Nat] /\ made'[config] \in Nat
    BY <1>2 DEF TypeOK, NewEvent
  <2>2. queue \cup {[source |-> config, n |-> made'[config]]} \in SUBSET Event
    BY <2>1 DEF TypeOK, Event
  <2>3. delivered' \in [Sources -> SUBSET Event]
    BY <1>2 DEF TypeOK, NewEvent
  <2> QED BY <1>2, <2>1, <2>2, <2>3, StoreTyped DEF NewEvent
<1>3. ASSUME NEW e \in queue, DeliverEvent(e, result) PROVE TypeOK'
  <2>1. queue \ {e} \in SUBSET Event /\ made' \in [Sources -> Nat]
    BY <1>3 DEF TypeOK, DeliverEvent
  <2>2. delivered' \in [Sources -> SUBSET Event]
    BY <1>3 DEF TypeOK, DeliverEvent
  <2> QED BY <1>3, <2>1, <2>2, StoreTyped DEF DeliverEvent
<1> QED BY <1>1, <1>2, <1>3 DEF Run

LEMMA TypeStep == TypeOK /\ [Next]_vars => TypeOK'
<1> SUFFICES ASSUME TypeOK, [Next]_vars PROVE TypeOK'
  OBVIOUS
<1>1. UNCHANGED <<key, disturbed>>
  BY DEF Next, vars
<1>2. CASE Quiet
  BY <1>1, <1>2, QuietTyped
<1>3. CASE ReadOwn \/ NothingInherited \/ DiscardInherited \/ RefuseInherited
             \/ TakeInherited
  BY <1>1, <1>3, ReadsTyped
<1>4. CASE PowerOnErasing
  BY <1>1, <1>4, Shapes DEF TypeOK, PowerOnErasing, Stages
<1>5. ASSUME NEW result \in Results, Write(result) \/ Run(result) PROVE TypeOK'
  BY <1>1, <1>5, WriteTyped, RunTyped
<1> QED BY <1>2, <1>3, <1>4, <1>5 DEF Next, Start, Quiet, vars
-----------------------------------------------------------------------------
(* Each remaining part of the invariant, under the steps of the start that
   read, the writes, and the steps of the running device. *)
Reads ==
  \/ ReadOwn \/ NothingInherited \/ DiscardInherited
  \/ RefuseInherited \/ TakeInherited

LEMMA Steps ==
  ASSUME [Next]_vars
  PROVE  /\ UNCHANGED <<key, disturbed>>
         /\ \/ Quiet \/ Reads \/ PowerOnErasing
            \/ \E result \in Results : Write(result) \/ Run(result)
BY DEF Next, Start, Reads, Quiet, vars

LEMMA ReadsUnchanged == Reads => UNCHANGED <<config, nvs, made, delivered, settled>>
BY DEF Reads, ReadOwn, NothingInherited, DiscardInherited, RefuseInherited,
  TakeInherited, Continue

LEMMA QuietUnchanged ==
  Quiet => /\ UNCHANGED <<nvs, delivered>>
           /\ \/ UNCHANGED <<config, pc, queue>>
              \/ pc' \in {"off", "start"}
BY DEF Quiet, PowerOn, ReadFails, Crash, Reconfigure, Settle, moving

(* A step of the running device writes at most its own entry. *)
LEMMA RunWrites ==
  ASSUME NEW result \in Results, Run(result)
  PROVE  /\ pc = "run" /\ UNCHANGED <<pc, config, legacy, quarantined, viewOf>>
         /\ bindingOf' \in {bindingOf, config}
         /\ own' = own \/ \E next : own' = [own EXCEPT ![key[config]] = Queue(config, next)]
BY DEF Run, AdoptBinding, NewEvent, DeliverEvent, StoreQueue

LEMMA EntryUpdate ==
  ASSUME TypeOK, NEW entry, own' = [own EXCEPT ![key[config]] = entry]
  PROVE  /\ own'[key[config]] = entry
         /\ \A s \in Sources \ {key[config]} : own'[s] = own[s]
BY DEF TypeOK

LEMMA OwnTyped ==
  TypeOK => config \in Sources /\ key[config] \in Sources /\ OwnEntry \in Entry
BY DEF TypeOK

LEMMA EntriesStep == IInv /\ [Next]_vars => EntriesInv'
<1> SUFFICES ASSUME TypeOK, EntriesInv, StageInv, [Next]_vars PROVE EntriesInv'
  BY DEF IInv
<1> USE DEF EntriesInv
<1>0. key' = key
  BY Steps
<1>1. CASE Quiet \/ Reads
  BY <1>0, <1>1, QuietUnchanged, ReadsUnchanged DEF nvs
<1>2. CASE PowerOnErasing
  BY <1>0, <1>2, Shapes DEF PowerOnErasing
<1>3. ASSUME NEW result \in Results, Write(result) PROVE EntriesInv'
  <2>1. CASE EraseOwn(result) \/ StoreInherited(result)
    BY <1>0, <2>1, Shapes DEF EraseOwn, StoreInherited, TypeOK
  <2>2. CASE EraseLegacy(result) \/ DropLegacy(result)
    BY <1>0, <2>2, Shapes DEF EraseLegacy, DropLegacy
  <2>3. CASE Quarantine(result) \/ QuarantineCopied(result)
    BY <1>0, <2>3 DEF Quarantine, QuarantineCopied
  <2> QED BY <1>3, <2>1, <2>2, <2>3 DEF Write
<1>4. ASSUME NEW result \in Results, Run(result) PROVE EntriesInv'
  <2>1. \/ own' = own
        \/ \E next : own' = [own EXCEPT ![key[config]] = Queue(config, next)]
    BY <1>4, RunWrites
  <2>2. \A s \in Sources : own'[s] = own[s] \/ own'[s].kind = "queue"
    BY <2>1, Shapes DEF TypeOK
  <2>3. legacy' = legacy
    BY <1>4, RunWrites
  <2> QED BY <1>0, <2>2, <2>3
<1> QED BY <1>1, <1>2, <1>3, <1>4, Steps

(* What is settled stays settled, but for an erase of the whole flash. *)
LEMMA DoneStays ==
  ASSUME TypeOK, [Next]_vars, ~PowerOnErasing, Done PROVE Done'
<1> USE DEF Done
<1>1. CASE Quiet \/ Reads
  BY <1>1, QuietUnchanged, ReadsUnchanged DEF nvs
<1>2. ASSUME NEW result \in Results, Write(result) PROVE Done'
  BY <1>2, Shapes DEF Write, EraseOwn, EraseLegacy, Quarantine, StoreInherited,
    DropLegacy, QuarantineCopied
<1>3. ASSUME NEW result \in Results, Run(result) PROVE Done'
  BY <1>3, RunWrites
<1> QED BY <1>1, <1>2, <1>3, Steps

LEMMA ClaimStep == IInv /\ [Next]_vars => ClaimInv'
<1> SUFFICES ASSUME IInv, [Next]_vars PROVE ClaimInv'
  OBVIOUS
<1> USE DEF ClaimInv
<1>0. TypeOK /\ ClaimInv /\ StageInv /\ LegacySettled
  BY DEF IInv
<1>1. CASE PowerOnErasing
  BY <1>1, Shapes DEF PowerOnErasing
<1>2. CASE (Quiet \/ Reads) /\ ~PowerOnErasing
  BY <1>0, <1>2, QuietUnchanged, ReadsUnchanged DEF nvs, Done
<1>3. ASSUME NEW result \in Results, Write(result), ~PowerOnErasing
      PROVE  ClaimInv'
  <2>1. Done => Done'
    BY <1>0, <1>3, DoneStays
  <2>2. UNCHANGED <<bindingOf, viewOf>>
    BY <1>3 DEF Write, EraseOwn, EraseLegacy, Quarantine, StoreInherited,
      DropLegacy, QuarantineCopied, Outcome
  <2>3. CASE EraseOwn(result)
    BY <1>0, <2>1, <2>2, <2>3, Shapes DEF EraseOwn, TypeOK
  <2>4. CASE StoreInherited(result)
    <3>1. config = LegacyOwner
      BY <1>0, <2>4 DEF StoreInherited, Outcome, StageInv
    <3> QED BY <1>0, <2>1, <2>2, <2>4, <3>1, Shapes DEF StoreInherited, TypeOK
  <2>5. CASE UNCHANGED own
    BY <1>0, <2>1, <2>2, <2>5
  <2> QED
    BY <1>3, <2>3, <2>4, <2>5
    DEF Write, EraseLegacy, Quarantine, DropLegacy, QuarantineCopied
<1>4. ASSUME NEW result \in Results, Run(result), ~PowerOnErasing
      PROVE  ClaimInv'
  <2>1. config # LegacyOwner => Done
    BY <1>0, <1>4, RunWrites DEF LegacySettled, Done
  <2>2. Done' <=> Done
    BY <1>4, RunWrites DEF Done
  <2> QED BY <1>0, <1>4, <2>1, <2>2, RunWrites, Shapes DEF TypeOK
<1> QED BY <1>1, <1>2, <1>3, <1>4, Steps

LEMMA StageStep == IInv /\ [Next]_vars => StageInv'
<1> SUFFICES ASSUME IInv, [Next]_vars PROVE StageInv'
  OBVIOUS
<1> USE DEF StageInv
<1>0. TypeOK /\ EntriesInv /\ ClaimInv /\ StageInv /\ UNCHANGED <<key, disturbed>>
  BY Steps DEF IInv
<1>1. CASE Quiet
  BY <1>0, <1>1, QuietUnchanged DEF nvs
<1>2. CASE PowerOnErasing
  BY <1>2 DEF PowerOnErasing
<1>3. CASE Reads
  <2>1. UNCHANGED <<config, own, legacy, quarantined>>
    BY <1>3, ReadsUnchanged DEF nvs
  <2>2. CASE ReadOwn \/ NothingInherited
    BY <1>0, <2>1, <2>2 DEF ReadOwn, NothingInherited, Continue
  <2>3. CASE DiscardInherited
    <3>1. pc' = "erase_legacy" /\ queue' = {} /\ OwnEntry.kind = "absent"
      BY <2>3 DEF DiscardInherited, Continue, NoOwn
    <3>2. disturbed = {} => legacy.events = {}
      BY <1>0, <2>3, Shapes
      DEF DiscardInherited, ReadsMayFail, EntriesInv, Legacy
    <3> QED BY <1>0, <2>1, <3>1, <3>2
  <2>4. CASE RefuseInherited
    BY <1>0, <2>1, <2>4 DEF RefuseInherited, Continue, Inherited, NoOwn
  <2>5. CASE TakeInherited
    <3>1. pc' = "store" /\ queue' = legacy.events
      BY <2>5 DEF TakeInherited, Continue
    <3>2. OwnEntry.kind = "absent" /\ ~quarantined /\ legacy.kind = "queue"
      BY <2>5 DEF TakeInherited, Inherited, NoOwn
    <3>3. config = LegacyOwner
      BY <1>0, <2>5, <3>2, MigrationAssumption
      DEF TakeInherited, SourceMatches, ClaimInv, Done, TypeOK
    <3> QED BY <1>0, <2>1, <3>1, <3>2, <3>3
  <2> QED BY <1>3, <2>2, <2>3, <2>4, <2>5 DEF Reads
<1>4. ASSUME NEW result \in Results, Write(result) PROVE StageInv'
  <2> USE DEF Outcome
  <2>1. CASE EraseOwn(result) \/ EraseLegacy(result) \/ Quarantine(result)
             \/ QuarantineCopied(result)
    BY <2>1 DEF EraseOwn, EraseLegacy, Quarantine, QuarantineCopied
  <2>2. CASE StoreInherited(result)
    <3>1. CASE result = "ok"
      BY <1>0, <2>2, <3>1 DEF StoreInherited, Written, TypeOK
    <3>2. CASE result # "ok"
      BY <2>2, <3>2 DEF StoreInherited
    <3> QED BY <3>1, <3>2
  <2>3. CASE DropLegacy(result)
    BY <1>0, <2>3 DEF DropLegacy
  <2> QED BY <1>4, <2>1, <2>2, <2>3 DEF Write
<1>5. ASSUME NEW result \in Results, Run(result) PROVE StageInv'
  BY <1>5, RunWrites
<1> QED BY <1>0, <1>1, <1>2, <1>3, <1>4, <1>5, Steps

(* What a write of the running device does to inherited events: none of the
   entry or the RAM queue goes that the cloud has not accepted, and none
   comes (pb_event_queue_enqueue, pb_event_queue_pop). *)
LEMMA RunInherited ==
  ASSUME TypeOK, RunInv, NEW result \in Results, Run(result),
         NEW e \in LegacyEvents
  PROVE  /\ pc = "run" /\ pc' = "run"
         /\ e \in delivered[config] => e \in delivered'[config]
         /\ e \in own'[key[config]].events =>
              e \in OwnEntry.events \/ e \in delivered[config]
         /\ e \in OwnEntry.events =>
              e \in own'[key[config]].events \/ e \in delivered'[config]
         /\ e \in queue' => e \in own'[key[config]].events \/ e \in delivered'[config]
         /\ e \in own'[key[config]].events => e \in queue' \/ e \in delivered'[config]
         /\ e \notin queue =>
              e \notin queue' /\ (own' = own \/ e \notin own'[key[config]].events)
<1>0. /\ pc = "run" /\ pc' = "run"
      /\ e \in queue => e \in OwnEntry.events \/ e \in delivered[config]
      /\ e \in OwnEntry.events => e \in queue \/ e \in delivered[config]
  BY RunWrites DEF RunInv
<1>1. CASE AdoptBinding(result)
  BY <1>0, <1>1 DEF AdoptBinding
<1>2. CASE NewEvent(result)
  <2> DEFINE new == [source |-> config, n |-> made'[config]]
  <2>1. made'[config] # 0 /\ UNCHANGED delivered
    BY <1>2 DEF TypeOK, NewEvent
  <2>2. e # new
    BY <2>1, Shapes
  <2>3. StoreQueue(queue \cup {new}, result)
    BY <1>2 DEF NewEvent
  <2> HIDE DEF new
  <2>4. /\ own' = own \/ own'[key[config]].events = queue \cup {new}
        /\ result = "ok" => own'[key[config]].events = queue \cup {new}
        /\ queue' = IF result = "ok" THEN queue \cup {new} ELSE queue
    BY <2>3, Shapes DEF StoreQueue, Written, TypeOK
  <2> QED BY <1>0, <2>1, <2>2, <2>4
<1>3. ASSUME NEW d \in queue, DeliverEvent(d, result)
      PROVE  /\ e \in delivered[config] => e \in delivered'[config]
             /\ e \in own'[key[config]].events =>
                  e \in OwnEntry.events \/ e \in delivered[config]
             /\ e \in OwnEntry.events =>
                  e \in own'[key[config]].events \/ e \in delivered'[config]
             /\ e \in queue' =>
                  e \in own'[key[config]].events \/ e \in delivered'[config]
             /\ e \in own'[key[config]].events =>
                  e \in queue' \/ e \in delivered'[config]
             /\ e \notin queue =>
                  /\ e \notin queue'
                  /\ own' = own \/ e \notin own'[key[config]].events
  <2>1. delivered'[config] = delivered[config] \cup {d}
    BY <1>3 DEF DeliverEvent, TypeOK
  <2>2. /\ own' = own \/ own'[key[config]].events = queue \ {d}
        /\ result = "ok" => own'[key[config]].events = queue \ {d}
        /\ queue' = IF result = "ok" THEN queue \ {d} ELSE queue
    BY <1>3, Shapes DEF DeliverEvent, StoreQueue, Written, TypeOK
  <2> QED BY <1>0, <2>1, <2>2
<1> QED BY <1>0, <1>1, <1>2, <1>3 DEF Run

LEMMA RunStep == IInv /\ [Next]_vars => RunInv'
<1> SUFFICES ASSUME IInv, [Next]_vars, pc' = "run" PROVE RunInv'
  BY DEF RunInv
<1> USE DEF RunInv
<1>0. TypeOK /\ EntriesInv /\ StageInv /\ RunInv /\ key' = key
  BY Steps DEF IInv
<1>1. CASE Quiet
  BY <1>0, <1>1, QuietUnchanged DEF nvs, KeyTaken
<1>2. CASE PowerOnErasing
  BY <1>2 DEF PowerOnErasing
<1>3. CASE Reads
  <2>1. OwnEntry.kind # "queue" => OwnEntry.events = {}
    BY <1>0, OwnTyped DEF EntriesInv
  <2>2. /\ queue' = OwnEntry.events
        /\ OwnEntry.kind = "absent" \/ (OwnEntry.kind = "queue" /\ ~KeyTaken)
    BY <1>3, <2>1 DEF Reads, ReadOwn, NothingInherited, DiscardInherited,
      RefuseInherited, TakeInherited, Continue, NoOwn
  <2> QED BY <1>0, <1>3, <2>2, ReadsUnchanged DEF nvs, KeyTaken
<1>4. ASSUME NEW result \in Results, Write(result) PROVE RunInv'
  <2> USE DEF Outcome
  <2>1. OwnEntry.kind # "queue" => OwnEntry.events = {}
    BY <1>0, OwnTyped DEF EntriesInv
  <2>2. CASE EraseOwn(result)
    <3>1. own'[key[config]] = Absent /\ queue' = {}
      BY <1>0, <2>2 DEF EraseOwn, Written, StageInv, TypeOK
    <3> QED BY <1>0, <2>2, <3>1, Shapes DEF EraseOwn
  <2>3. CASE EraseLegacy(result) \/ Quarantine(result)
    BY <1>0, <2>1, <2>3 DEF EraseLegacy, Quarantine, StageInv
  <2>4. CASE DropLegacy(result) \/ QuarantineCopied(result)
    <3>1. OwnEntry = Queue(config, queue)
      BY <1>0, <2>4 DEF DropLegacy, QuarantineCopied, StageInv
    <3>2. UNCHANGED <<own, key, config, queue>>
      BY <1>0, <2>4 DEF DropLegacy, QuarantineCopied
    <3> QED BY <3>1, <3>2, Shapes DEF KeyTaken
  <2>5. CASE StoreInherited(result)
    BY <2>5 DEF StoreInherited
  <2> QED BY <1>4, <2>2, <2>3, <2>4, <2>5 DEF Write
<1>5. ASSUME NEW result \in Results, Run(result) PROVE RunInv'
  <2>1. key'[config'] = key[config] /\ config' = config /\ pc = "run"
    BY <1>0, <1>5, RunWrites
  <2>2. \/ own' = own
        \/ \E next : own' = [own EXCEPT ![key[config]] = Queue(config, next)]
    BY <1>5, RunWrites
  <2>3. \/ OwnEntry' = OwnEntry
        \/ OwnEntry'.kind = "queue" /\ OwnEntry'.source = config
    <3>1. CASE own' = own
      BY <2>1, <3>1
    <3>2. ASSUME NEW next, own' = [own EXCEPT ![key[config]] = Queue(config, next)]
          PROVE  OwnEntry'.kind = "queue" /\ OwnEntry'.source = config
      <4>1. own'[key[config]] = Queue(config, next)
        BY <1>0, <3>2, OwnTyped DEF TypeOK
      <4> QED BY <2>1, <4>1, Shapes
    <3> QED BY <2>2, <3>1, <3>2
  <2>4. OwnEntry'.kind = "absent" \/ (OwnEntry'.kind = "queue" /\ ~KeyTaken')
    BY <1>0, <2>1, <2>3 DEF KeyTaken
  <2> QED BY <1>0, <1>5, <2>1, <2>4, RunInherited
<1> QED BY <1>1, <1>2, <1>3, <1>4, <1>5, Steps

LEMMA IsolationStep == IInv /\ [Next]_vars => SourceIsolation'
<1> SUFFICES ASSUME IInv, [Next]_vars PROVE SourceIsolation'
  OBVIOUS
<1> USE DEF SourceIsolation
<1>0. /\ TypeOK /\ EntriesInv /\ ClaimInv /\ StageInv /\ SourceIsolation
      /\ StageInv' /\ key' = key
  BY StageStep, Steps DEF IInv
<1>1. CASE Quiet
  <2>1. (queue' = queue /\ config' = config) \/ queue' = {}
    BY <1>0, <1>1 DEF Quiet, PowerOn, ReadFails, Crash, Reconfigure, Settle,
      moving, TypeOK
  <2> QED BY <1>0, <1>1, <2>1, QuietUnchanged DEF nvs
<1>2. CASE PowerOnErasing
  BY <1>0, <1>2, Shapes DEF PowerOnErasing, TypeOK
<1>3. CASE Reads
  <2>1. UNCHANGED <<config, own, delivered>>
    BY <1>3, ReadsUnchanged DEF nvs
  <2>2. CASE ~TakeInherited
    <3>1. \/ queue' = {}
          \/ queue' = OwnEntry.events /\ OwnEntry.source = config
      BY <1>3, <2>2 DEF Reads, ReadOwn, KeyTaken, NothingInherited,
        DiscardInherited, RefuseInherited, Continue
    <3>2. \A e \in queue' : e.source = config
      BY <1>0, <3>1, OwnTyped
    <3> QED BY <1>0, <2>1, <3>2
  <2>3. CASE TakeInherited
    <3>1. config' = LegacyOwner /\ queue' \subseteq LegacyEvents
      BY <1>0, <2>3 DEF TakeInherited, Continue, EntriesInv, StageInv
    <3> QED BY <1>0, <2>1, <3>1, Shapes
  <2> QED BY <2>2, <2>3
<1>4. ASSUME NEW result \in Results, Write(result) PROVE SourceIsolation'
  <2>1. UNCHANGED <<config, delivered>> /\ queue' \subseteq queue
    BY <1>4 DEF Write, EraseOwn, EraseLegacy, Quarantine, StoreInherited,
      DropLegacy, QuarantineCopied, Outcome
  <2>2. \/ own' = own
        \/ own' = [own EXCEPT ![key[config]] = Absent]
        \/ own' = [own EXCEPT ![key[config]] = Queue(config, queue)]
    BY <1>4 DEF Write, EraseOwn, EraseLegacy, Quarantine, StoreInherited,
      DropLegacy, QuarantineCopied
  <2>3. \A k \in Sources :
          own'[k] \in {own[k], Absent, Queue(config, queue)}
    BY <1>0, <2>2 DEF TypeOK
  <2>4. \A k \in Sources : \A e \in own'[k].events : e.source = own'[k].source
    BY <1>0, <2>3, Shapes
  <2> QED BY <1>0, <2>1, <2>4
<1>5. ASSUME NEW result \in Results, Run(result) PROVE SourceIsolation'
  <2>1. CASE AdoptBinding(result)
    BY <1>0, <2>1 DEF AdoptBinding
  <2>2. ASSUME NEW next,
               \A e \in next : e.source = config,
               StoreQueue(next, result),
               \A s \in Sources :
                 \/ delivered'[s] \subseteq delivered[s]
                 \/ s = config /\ delivered'[s] \subseteq delivered[s] \cup queue
        PROVE  SourceIsolation'
    <3>1. UNCHANGED config /\ queue' \in {queue, next}
      BY <2>2 DEF StoreQueue
    <3>2. own' = own \/ own' = [own EXCEPT ![key[config]] = Queue(config, next)]
      BY <2>2 DEF StoreQueue
    <3>3. \A k \in Sources : own'[k] \in {own[k], Queue(config, next)}
      BY <1>0, <3>2 DEF TypeOK
    <3>4. \A k \in Sources : \A e \in own'[k].events : e.source = own'[k].source
      BY <1>0, <2>2, <3>3, Shapes
    <3> QED BY <1>0, <2>2, <3>1, <3>4
  <2>3. CASE NewEvent(result)
    <3> DEFINE new == [source |-> config, n |-> made'[config]]
    <3>1. StoreQueue(queue \cup {new}, result) /\ UNCHANGED delivered
      BY <2>3 DEF NewEvent
    <3>2. \A e \in queue \cup {new} : e.source = config
      BY <1>0
    <3> HIDE DEF new
    <3> QED BY <2>2, <3>1, <3>2
  <2>4. ASSUME NEW e \in queue, DeliverEvent(e, result) PROVE SourceIsolation'
    <3>1. StoreQueue(queue \ {e}, result)
      BY <2>4 DEF DeliverEvent
    <3>2. \A s \in Sources :
            \/ delivered'[s] \subseteq delivered[s]
            \/ s = config /\ delivered'[s] \subseteq delivered[s] \cup queue
      BY <1>0, <2>4 DEF DeliverEvent, TypeOK
    <3> QED BY <1>0, <2>2, <3>1, <3>2
  <2> QED BY <1>5, <2>1, <2>3, <2>4 DEF Run
<1> QED BY <1>1, <1>2, <1>3, <1>4, <1>5, Steps

LEMMA SettledStep == IInv /\ [Next]_vars => LegacySettled'
<1> SUFFICES ASSUME IInv, [Next]_vars, pc' = "run" PROVE LegacySettled'
  BY DEF LegacySettled
<1> USE DEF LegacySettled
<1>0. /\ TypeOK /\ EntriesInv /\ ClaimInv /\ StageInv /\ LegacySettled
      /\ key' = key
  BY Steps DEF IInv
<1>1. CASE Quiet
  <2>1. UNCHANGED <<config, pc, nvs>>
    BY <1>1, QuietUnchanged
  <2> QED BY <1>0, <2>1 DEF nvs
<1>2. CASE PowerOnErasing
  BY <1>2 DEF PowerOnErasing
<1>3. CASE Reads
  <2>1. CASE OwnEntry.kind = "queue"
    <3>1. OwnEntry.source = config
      BY <1>3, <2>1 DEF Reads, ReadOwn, KeyTaken, NothingInherited,
        DiscardInherited, RefuseInherited, TakeInherited, NoOwn, Inherited,
        Continue
    <3>2. config # LegacyOwner => Done
      BY <1>0, <2>1, <3>1, OwnTyped DEF ClaimInv
    <3> QED BY <1>0, <1>3, <2>1, <3>2, ReadsUnchanged DEF nvs, Done
  <2>2. CASE OwnEntry.kind # "queue"
    <3>1. legacy.kind = "absent" \/ quarantined
      BY <1>3, <2>2 DEF Reads, ReadOwn, NothingInherited, DiscardInherited,
        RefuseInherited, TakeInherited, Continue
    <3> QED BY <1>3, <3>1, ReadsUnchanged DEF nvs
  <2> QED BY <2>1, <2>2
<1>4. ASSUME NEW result \in Results, Write(result) PROVE LegacySettled'
  <2> USE DEF Outcome
  <2>1. CASE EraseOwn(result)
    BY <1>0, <2>1 DEF EraseOwn, StageInv, ClaimInv, Done, TypeOK
  <2>2. CASE EraseLegacy(result) \/ Quarantine(result) \/ DropLegacy(result)
    BY <2>2, Shapes DEF EraseLegacy, Quarantine, DropLegacy, Written
  <2>3. CASE QuarantineCopied(result)
    BY <2>3 DEF QuarantineCopied, Written
  <2>4. CASE StoreInherited(result)
    BY <2>4 DEF StoreInherited
  <2> QED BY <1>4, <2>1, <2>2, <2>3, <2>4 DEF Write
<1>5. ASSUME NEW result \in Results, Run(result) PROVE LegacySettled'
  <2>1. \/ own' = own
        \/ \E next : own' = [own EXCEPT ![key[config]] = Queue(config, next)]
    BY <1>5, RunWrites
  <2>2. OwnEntry.kind = "queue" => own'[key[config]].kind = "queue"
    BY <1>0, <2>1, Shapes, OwnTyped DEF TypeOK
  <2>3. pc = "run" /\ UNCHANGED <<config, legacy, quarantined>>
    BY <1>5, RunWrites
  <2> QED BY <1>0, <2>2, <2>3
<1> QED BY <1>1, <1>2, <1>3, <1>4, <1>5, Steps

(* What is delivered keeps the migration from being done again. *)
LEMMA DeliveredStep == IInv /\ [Next]_vars => DeliveredInv'
<1> SUFFICES ASSUME IInv, [Next]_vars PROVE DeliveredInv'
  OBVIOUS
<1> USE DEF DeliveredInv
<1>0. /\ TypeOK /\ EntriesInv /\ ClaimInv /\ DeliveredInv /\ StageInv /\ RunInv
      /\ LegacySettled /\ key[LegacyOwner] = LegacyOwner
      /\ LegacyOwner \in Sources
  BY MigrationAssumption DEF IInv, EntriesInv
<1>1. CASE Quiet \/ Reads
  BY <1>0, <1>1, QuietUnchanged, ReadsUnchanged DEF nvs, Done
<1>2. CASE PowerOnErasing
  BY <1>2, Shapes DEF PowerOnErasing, Done
<1>3. ASSUME NEW result \in Results, Write(result), ~PowerOnErasing
      PROVE  DeliveredInv'
  <2>1. Done => Done'
    BY <1>0, <1>3, DoneStays
  <2>2. UNCHANGED delivered
    BY <1>3 DEF Write, EraseOwn, EraseLegacy, Quarantine, StoreInherited,
      DropLegacy, QuarantineCopied, Outcome
  <2>3. CASE EraseOwn(result)
    <3>1. OwnEntry.kind = "invalid"
      BY <1>0, <2>3 DEF EraseOwn, Outcome, StageInv
    <3>2. Done
      BY <1>0, <3>1, OwnTyped DEF ClaimInv
    <3> QED BY <2>1, <3>2
  <2>4. CASE StoreInherited(result)
    <3>1. config = LegacyOwner
      BY <1>0, <2>4 DEF StoreInherited, Outcome, StageInv
    <3>2. own'[LegacyOwner] \in {own[LegacyOwner], Queue(LegacyOwner, queue)}
      BY <1>0, <2>4, <3>1 DEF StoreInherited, TypeOK
    <3> QED BY <1>0, <2>1, <2>2, <3>2, Shapes
  <2>5. CASE UNCHANGED own
    BY <1>0, <2>1, <2>2, <2>5
  <2> QED
    BY <1>3, <2>3, <2>4, <2>5
    DEF Write, EraseLegacy, Quarantine, DropLegacy, QuarantineCopied
<1>4. ASSUME NEW result \in Results, Run(result), ~PowerOnErasing
      PROVE  DeliveredInv'
  <2>1. CASE Done
    BY <1>0, <1>4, <2>1, DoneStays
  <2>2. CASE ~Done
    <3>1. /\ config = LegacyOwner /\ OwnEntry.kind = "queue"
          /\ OwnEntry.source = LegacyOwner
      BY <1>0, <1>4, <2>2, RunWrites DEF LegacySettled, Done, RunInv, KeyTaken
    <3>2. \/ own' = own
          \/ \E next : own' = [own EXCEPT ![key[config]] = Queue(config, next)]
      BY <1>4, RunWrites
    <3>3. own'[LegacyOwner].kind = "queue" /\ own'[LegacyOwner].source = LegacyOwner
      BY <1>0, <3>1, <3>2, Shapes DEF TypeOK
    <3> QED BY <3>3
  <2> QED BY <2>1, <2>2
<1> QED BY <1>1, <1>2, <1>3, <1>4, Steps

LEMMA Invariance == Spec => []IInv
<1>1. Init => IInv
  <2> SUFFICES ASSUME Init PROVE IInv
    OBVIOUS
  <2> USE DEF Init
  <2>1. /\ Invalid \in Entry /\ Invalid.kind = "invalid" /\ Invalid.events = {}
        /\ Absent \in Entry /\ Legacy({}) \in Entry
        /\ Legacy(LegacyEvents) \in Entry /\ Foreign \in Entry
    BY Shapes DEF Invalid, Legacy, Foreign
  <2>2. TypeOK
    <3>1. own \in [Sources -> Entry] /\ legacy \in Entry
      BY <2>1
    <3> QED BY <3>1, MigrationAssumption DEF TypeOK, Stages
  <2>3. \A s \in Sources : own[s].events = {}
    BY <2>1, Shapes DEF Foreign
  <2>4. EntriesInv
    BY <2>1, <2>3, Shapes DEF EntriesInv, Legacy
  <2>5. (\E s \in Sources : own[s] # Absent) => Done
    BY Shapes DEF Done
  <2>6. ClaimInv
    BY <2>5, Shapes DEF ClaimInv
  <2>7. StageInv /\ RunInv /\ LegacySettled /\ DeliveredInv
    BY MigrationAssumption
    DEF StageInv, RunInv, LegacySettled, DeliveredInv
  <2>8. SourceIsolation
    BY <2>3 DEF SourceIsolation
  <2> QED BY <2>2, <2>4, <2>6, <2>7, <2>8 DEF IInv
<1>2. IInv /\ [Next]_vars => IInv'
  BY TypeStep, EntriesStep, ClaimStep, DeliveredStep, StageStep, RunStep,
     IsolationStep, SettledStep DEF IInv
<1> QED BY <1>1, <1>2, PTL DEF Spec

(* No event reaches the entry, the RAM queue or the cloud of a source that did
   not make it, for any number of sources, starts, failures and
   reconfigurations (pb_event_queue.c:373-381). *)
THEOREM SourcesStayApart == Spec => []SourceIsolation
<1>1. IInv => SourceIsolation
  BY DEF IInv
<1> QED BY <1>1, Invariance, PTL

(* A device that runs has settled what it inherited
   (pb_event_queue.c:373-402). *)
THEOREM RunningMeansSettled == Spec => []LegacySettled
<1>1. IInv => LegacySettled
  BY DEF IInv
<1> QED BY <1>1, Invariance, PTL

(* Every variable keeps its type (pb_event_queue.c). *)
THEOREM TypeCorrect == Spec => []TypeOK
<1>1. IInv => TypeOK
  BY DEF IInv
<1> QED BY <1>1, Invariance, PTL

(* Quarantined events are never put into a queue again
   (pb_event_queue.c:317). *)
LEMMA QuarantinedStay ==
  ASSUME IInv, [Next]_vars, quarantined
  PROVE  /\ quarantined' \/ legacy' = Absent
         /\ \A s \in Sources : LegacyEvents \cap own'[s].events
                                \subseteq own[s].events \cup delivered[LegacyOwner]
<1>0. TypeOK /\ StageInv /\ RunInv /\ SourceIsolation
  BY DEF IInv
<1>1. CASE Quiet \/ Reads
  BY <1>1, QuietUnchanged, ReadsUnchanged DEF nvs
<1>2. CASE PowerOnErasing
  BY <1>2, Shapes DEF PowerOnErasing
<1>3. ASSUME NEW result \in Results, Write(result)
      PROVE  /\ quarantined'
             /\ own' = own \/ own' = [own EXCEPT ![key[config]] = Absent]
  BY <1>0, <1>3 DEF StageInv, Write, EraseOwn, EraseLegacy, Quarantine,
    StoreInherited, DropLegacy, QuarantineCopied, Outcome
<1>4. ASSUME NEW result \in Results, Run(result)
      PROVE  /\ quarantined'
             /\ \A s \in Sources : LegacyEvents \cap own'[s].events
                                    \subseteq own[s].events \cup delivered[LegacyOwner]
  <2>1. ASSUME NEW e \in LegacyEvents, e \in own'[key[config]].events
        PROVE  e \in OwnEntry.events \/ e \in delivered[LegacyOwner]
    <3>1. e \in OwnEntry.events \/ e \in delivered[config]
      BY <1>0, <1>4, <2>1, RunInherited
    <3>2. e \in delivered[config] => config = LegacyOwner
      BY <1>0, Shapes, OwnTyped DEF SourceIsolation
    <3> QED BY <3>1, <3>2
  <2>2. \A s \in Sources \ {key[config]} : own'[s] = own[s]
    BY <1>0, <1>4, RunWrites DEF TypeOK
  <2>3. quarantined'
    BY <1>4, RunWrites
  <2>4. ASSUME NEW s \in Sources, NEW e \in LegacyEvents, e \in own'[s].events
        PROVE  e \in own[s].events \cup delivered[LegacyOwner]
    <3>1. CASE s = key[config]
      BY <2>1, <2>4, <3>1
    <3>2. CASE s # key[config]
      BY <2>2, <2>4, <3>2
    <3> QED BY <3>1, <3>2
  <2> QED BY <2>3, <2>4
<1>5. ASSUME own' = own \/ own' = [own EXCEPT ![key[config]] = Absent]
      PROVE  \A s \in Sources : own'[s].events \subseteq own[s].events
  BY <1>0, <1>5, Shapes DEF TypeOK
<1> QED BY <1>1, <1>2, <1>3, <1>4, <1>5, Steps

(* Once quarantined, no inherited event ever comes back into a queue, however
   often the device starts and is reconfigured (pb_event_queue.c:373-379,389-396). *)
THEOREM QuarantineHolds == Spec => QuarantineFinal
<1> DEFINE Stays ==
      quarantined =>
        /\ quarantined' \/ legacy' = Absent
        /\ \A s \in Sources : LegacyEvents \cap own'[s].events
                               \subseteq own[s].events \cup delivered[LegacyOwner]
<1>1. IInv /\ [Next]_vars => [Stays]_vars
  BY QuarantinedStay
<1> HIDE DEF Stays
<1>2. Spec => [][Stays]_vars
  BY <1>1, Invariance, PTL DEF Spec
<1> QED BY <1>2 DEF QuarantineFinal, Stays

(* An inherited event leaves a readable flash only for its cloud
   (pb_event_queue.c:387-399). *)
LEMMA InheritedKept ==
  ASSUME IInv, [Next]_vars, disturbed = {} PROVE NoneVanishes
<1> SUFFICES ASSUME NEW e \in LegacyEvents, InFlash(e)
             PROVE  InFlash(e)' \/ e \in delivered'[LegacyOwner]
  BY Shapes DEF NoneVanishes
<1> USE DEF InFlash, InQueue
<1>0. /\ TypeOK /\ EntriesInv /\ StageInv /\ RunInv /\ SourceIsolation
      /\ e.source = LegacyOwner /\ LegacyOwner \in Sources
      /\ key[LegacyOwner] = LegacyOwner /\ key' = key
  BY Shapes, MigrationAssumption, Steps DEF IInv, EntriesInv
<1>1. CASE Quiet \/ Reads
  BY <1>0, <1>1, QuietUnchanged, ReadsUnchanged DEF nvs
<1>2. CASE PowerOnErasing
  BY <1>2 DEF PowerOnErasing, FlashMayBeErased
<1>3. ASSUME NEW result \in Results, Write(result)
      PROVE  InFlash(e)'
  <2> USE DEF Outcome
  <2>1. CASE EraseOwn(result)
    <3>1. OwnEntry.events = {}
      BY <1>0, <2>1, OwnTyped DEF EraseOwn, StageInv, EntriesInv
    <3> QED BY <1>0, <2>1, <3>1 DEF EraseOwn, TypeOK
  <2>2. CASE EraseLegacy(result)
    BY <1>0, <2>2 DEF EraseLegacy, StageInv
  <2>3. CASE Quarantine(result) \/ QuarantineCopied(result)
    BY <1>0, <2>3 DEF Quarantine, QuarantineCopied
  <2>4. CASE StoreInherited(result)
    <3>1. OwnEntry.events = {}
      BY <1>0, <2>4, OwnTyped DEF StoreInherited, StageInv, EntriesInv
    <3>2. config = LegacyOwner /\ queue = legacy.events
      BY <1>0, <2>4 DEF StoreInherited, StageInv
    <3>3. legacy' = legacy
      BY <2>4 DEF StoreInherited
    <3> QED BY <1>0, <3>1, <3>2, <3>3
  <2>5. CASE DropLegacy(result)
    <3>1. legacy.events = own[LegacyOwner].events
      BY <1>0, <2>5, Shapes DEF DropLegacy, StageInv
    <3> QED BY <1>0, <2>5, <3>1 DEF DropLegacy
  <2> QED BY <1>3, <2>1, <2>2, <2>3, <2>4, <2>5 DEF Write
<1>4. ASSUME NEW result \in Results, Run(result)
      PROVE  InFlash(e)' \/ e \in delivered'[LegacyOwner]
  <2>1. e \in OwnEntry.events =>
          e \in own'[key[config]].events \/ e \in delivered'[config]
    BY <1>0, <1>4, RunInherited
  <2>2. \A s \in Sources \ {key[config]} : own'[s] = own[s]
    BY <1>0, <1>4, RunWrites DEF TypeOK
  <2>3. e \in OwnEntry.events => config = LegacyOwner
    <3>1. pc = "run"
      BY <1>4, RunWrites
    <3>2. OwnEntry.kind = "absent" \/ OwnEntry.source = config
      BY <1>0, <3>1 DEF RunInv, KeyTaken
    <3> QED BY <1>0, <3>2, OwnTyped DEF EntriesInv, SourceIsolation
  <2>4. legacy' = legacy
    BY <1>4, RunWrites
  <2> QED BY <1>0, <2>1, <2>2, <2>3, <2>4
<1> QED BY <1>1, <1>2, <1>3, <1>4, Steps

(* While no read fails and the flash is not erased, an undelivered event stays
   in flash through crashes and failing writes
   (pb_event_queue.c:363-371,384-396). *)
THEOREM ReadableFlashKeeps == Spec => KeptWithReadableFlash
<1> DEFINE Keeps == disturbed = {} => NoneVanishes
<1>1. IInv /\ [Next]_vars => [Keeps]_vars
  BY InheritedKept
<1> HIDE DEF Keeps
<1>2. Spec => [][Keeps]_vars
  BY <1>1, Invariance, PTL DEF Spec
<1> QED BY <1>2 DEF KeptWithReadableFlash, Keeps

(* A delivered event that has left the queue does not come back: no step of a
   start or of the running device brings it (pb_event_queue.c:384-396). *)
LEMMA DeliveredStays ==
  ASSUME IInv, [Next]_vars, NEW e \in LegacyEvents,
         e \in delivered[e.source], ~InQueue(e), e \notin queue
  PROVE  ~InQueue(e)' /\ e \notin queue'
<1> USE DEF InQueue
<1>0. /\ TypeOK /\ EntriesInv /\ DeliveredInv /\ RunInv /\ SourceIsolation
      /\ e.source = LegacyOwner /\ LegacyOwner \in Sources
      /\ key[LegacyOwner] = LegacyOwner /\ key' = key
  BY Shapes, MigrationAssumption, Steps DEF IInv, EntriesInv
<1>1. CASE Quiet
  <2>1. queue' = queue \/ queue' = {}
    BY <1>0, <1>1, TypeStep, QuietUnchanged DEF TypeOK
  <2> QED BY <1>0, <1>1, <2>1, QuietUnchanged DEF nvs
<1>2. CASE PowerOnErasing
  BY <1>0, <1>2, Shapes DEF PowerOnErasing
<1>3. CASE Reads
  <2>1. UNCHANGED <<config, own>>
    BY <1>3, ReadsUnchanged DEF nvs
  <2>2. CASE TakeInherited
    <3>1. StageInv' /\ pc' = "store"
      BY <2>2, StageStep DEF TakeInherited, Continue
    <3>2. config = LegacyOwner
      BY <2>1, <3>1 DEF StageInv
    <3>3. own[LegacyOwner].kind = "absent" /\ ~Done
      BY <1>0, <2>2, <3>2 DEF TakeInherited, Inherited, NoOwn, Done
    <3> QED BY <1>0, <3>3 DEF DeliveredInv
  <2>3. CASE ~TakeInherited
    <3>1. \/ queue' = {}
          \/ queue' = OwnEntry.events /\ OwnEntry.source = config
      BY <1>3, <2>3 DEF Reads, ReadOwn, KeyTaken, NothingInherited,
        DiscardInherited, RefuseInherited, Continue
    <3>2. e \in OwnEntry.events => e.source = OwnEntry.source
      BY <1>0, OwnTyped DEF SourceIsolation
    <3> QED BY <1>0, <2>1, <3>1, <3>2
  <2> QED BY <2>2, <2>3
<1>4. ASSUME NEW result \in Results, Write(result)
      PROVE  ~InQueue(e)' /\ e \notin queue'
  <2>1. queue' \subseteq queue
    BY <1>4 DEF Write, EraseOwn, EraseLegacy, Quarantine, StoreInherited,
      DropLegacy, QuarantineCopied, Outcome
  <2>2. \/ own' = own
        \/ own' = [own EXCEPT ![key[config]] = Absent]
        \/ own' = [own EXCEPT ![key[config]] = Queue(config, queue)]
    BY <1>4 DEF Write, EraseOwn, EraseLegacy, Quarantine, StoreInherited,
      DropLegacy, QuarantineCopied
  <2>3. own'[LegacyOwner] \in {own[LegacyOwner], Absent, Queue(config, queue)}
    BY <1>0, <2>2 DEF TypeOK
  <2> QED BY <1>0, <2>1, <2>3, Shapes
<1>5. ASSUME NEW result \in Results, Run(result)
      PROVE  ~InQueue(e)' /\ e \notin queue'
  <2>1. e \notin queue' /\ (own' = own \/ e \notin own'[key[config]].events)
    BY <1>0, <1>5, RunInherited
  <2>2. \A s \in Sources \ {key[config]} : own'[s] = own[s]
    BY <1>0, <1>5, RunWrites DEF TypeOK
  <2> QED BY <1>0, <2>1, <2>2
<1> QED BY <1>1, <1>2, <1>3, <1>4, <1>5, Steps

(* No inherited event is migrated a second time after its cloud has it, also if
   the old entry could be neither dropped nor quarantined and the device starts
   again and again (pb_event_queue.c:384-396). *)
THEOREM MigratedOnce == Spec => DeliveredStayGone
<1> DEFINE Stays ==
      \A e \in LegacyEvents :
        e \in delivered[e.source] /\ ~InQueue(e) /\ e \notin queue
          => ~InQueue(e)' /\ e \notin queue'
<1>1. IInv /\ [Next]_vars => [Stays]_vars
  BY DeliveredStays
<1> HIDE DEF Stays
<1>2. Spec => [][Stays]_vars
  BY <1>1, Invariance, PTL DEF Spec
<1> QED BY <1>2 DEF DeliveredStayGone, Stays
=============================================================================
