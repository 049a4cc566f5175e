--------------------------- MODULE QueueMigration ---------------------------
(***************************************************************************)
(* The start of the event queue: pb_event_queue_init in                    *)
(* sdk/pb-runtime/src/pb_event_queue.c, with its callers pb_runtime_init   *)
(* and app_main.  Events belong to a source (cloud URL and device serial). *)
(* The queue of a source is an NVS entry whose key has 56 of the 64 bits   *)
(* of the hash of the source, so that two sources may share a key; the     *)
(* entry holds the whole hash, which stands for the source here.  An older *)
(* firmware left one global entry without a source.  The start moves those *)
(* events to the entry of the configured source if a stored binding or     *)
(* view shows that they are its own, and otherwise marks them as           *)
(* quarantined for ever.                                                   *)
(*                                                                         *)
(* Every NVS write is a step of its own that may fail before or after it   *)
(* reached the flash; power may fail between the steps; a failed start     *)
(* aborts the program, which starts again (ESP_ERROR_CHECK).  While the    *)
(* device is off it may be flashed with another configuration.  The order  *)
(* within a queue is not the subject here: a queue is a set of events.     *)
(***************************************************************************)
EXTENDS Naturals, FiniteSets

CONSTANTS Sources,        \* the configurations the device may be given
          LegacyOwner,    \* the source that filled the legacy queue
          None,           \* no source, or one that is not in Sources
          MaxEvents,      \* bound: new events made by each source
          Disturbances    \* what may happen to the flash: see disturbed

ASSUME MigrationAssumption ==
  /\ LegacyOwner \in Sources
  /\ None \notin Sources
  /\ MaxEvents \in Nat
  /\ Disturbances \subseteq {"read_error", "erase"}

VARIABLES
  config,         \* the source compiled into the firmware
  key,            \* rigid: the NVS key of each source, named for one of the
                  \* sources that have it
  own,            \* per key: its NVS entry
  legacy,         \* the NVS entry of the older firmware
  quarantined,    \* the NVS quarantine flag
  bindingOf,      \* the source of the stored binding, or None
  viewOf,         \* the source of the stored last view, or None
  pc,             \* what the device is doing
  queue,          \* the RAM queue
  made,           \* per source: number of new events
  delivered,      \* per source: events its cloud has accepted
  settled,        \* the power and the configuration hold from now on
  disturbed       \* rigid: "read_error", a read of an existing entry may
                  \* fail at times; "erase", nvs_flash_init may find the
                  \* partition unusable

ReadsMayFail == "read_error" \in disturbed
FlashMayBeErased == "erase" \in disturbed

nvs == <<own, legacy, quarantined, bindingOf, viewOf>>
moving == <<config, nvs, pc, queue, made, delivered, settled>>
vars == <<moving, key, disturbed>>

(* Event 0 of a source is one that the older firmware stored. *)
Event == [source : Sources, n : Nat]
LegacyEvents == {[source |-> LegacyOwner, n |-> 0]}

(* An entry is absent, a queue of a source, or a blob of another size or
   schema; one that is not read has no source. *)
Absent == [kind |-> "absent", source |-> None, events |-> {}]
Invalid == [kind |-> "invalid", source |-> None, events |-> {}]
Queue(source, events) ==
  [kind |-> "queue", source |-> source, events |-> events]
Legacy(events) == Queue(None, events)
Foreign == Queue(None, {})

Entry == [kind : {"absent", "invalid", "queue"}, source : Sources \cup {None},
          events : SUBSET Event]

Stages == {"off", "start", "erase_own", "erase_legacy", "quarantine", "store",
           "drop_legacy", "quarantine_copied", "run"}

TypeOK ==
  /\ config \in Sources
  /\ key \in [Sources -> Sources]
  /\ own \in [Sources -> Entry]
  /\ legacy \in Entry
  /\ quarantined \in BOOLEAN
  /\ bindingOf \in Sources \cup {None} /\ viewOf \in Sources \cup {None}
  /\ pc \in Stages
  /\ queue \subseteq Event
  /\ pc \in {"off", "start"} => queue = {}
  /\ made \in [Sources -> Nat]
  /\ delivered \in [Sources -> SUBSET Event]
  /\ settled \in BOOLEAN
  /\ disturbed \subseteq Disturbances

(* The older firmware stored its binding and view for its own source.  An
   entry that this firmware cannot read, or that has the hash of some other
   source, was written by a firmware that had dealt with the legacy queue. *)
Init ==
  /\ config \in Sources
  /\ key \in [Sources -> Sources]
  /\ key[LegacyOwner] = LegacyOwner
  /\ \A s \in Sources : key[key[s]] = key[s]
  /\ legacy \in {Absent, Invalid, Legacy({}), Legacy(LegacyEvents)}
  /\ own \in [Sources -> {Absent, Invalid, Foreign}]
  /\ \A s \in Sources : key[s] # s => own[s] = Absent
  /\ quarantined \in BOOLEAN
  /\ quarantined => legacy = Legacy(LegacyEvents)
  /\ (\E s \in Sources : own[s] # Absent) => quarantined \/ legacy = Absent
  /\ bindingOf \in {None, LegacyOwner} /\ viewOf \in {None, LegacyOwner}
  /\ pc = "off"
  /\ queue = {}
  /\ made = [s \in Sources |-> 0]
  /\ delivered = [s \in Sources |-> {}]
  /\ settled = FALSE
  /\ disturbed \in SUBSET Disturbances
-----------------------------------------------------------------------------
(* The reading part of pb_event_queue_init, up to its first write. *)

(* legacy_source_matches: a stored binding or view of this source.  A read
   that fails looks like a stored value of another source. *)
SourceMatchesAnybody == bindingOf # None \/ viewOf # None
SourceMatches == bindingOf = config \/ viewOf = config

PowerOn ==
  /\ pc = "off"
  /\ pc' = "start"
  /\ UNCHANGED <<config, nvs, queue, made, delivered, settled>>

(* init_nvs erases a partition without free pages or of a new format. *)
PowerOnErasing ==
  /\ FlashMayBeErased
  /\ pc = "off"
  /\ pc' = "start"
  /\ own' = [s \in Sources |-> Absent]
  /\ legacy' = Absent /\ quarantined' = FALSE
  /\ bindingOf' = None /\ viewOf' = None
  /\ UNCHANGED <<config, queue, made, delivered, settled>>

Continue(stage, ram) ==
  /\ pc = "start"
  /\ pc' = stage
  /\ queue' = ram
  /\ UNCHANGED <<config, nvs, made, delivered, settled>>

OwnEntry == own[key[config]]

(* The key of this source holds the queue of another one. *)
KeyTaken == OwnEntry.kind = "queue" /\ OwnEntry.source # config

ReadOwnIgnoringSource ==
  \/ OwnEntry.kind = "queue" /\ Continue("run", OwnEntry.events)
  \/ OwnEntry.kind = "invalid" /\ Continue("erase_own", {})

ReadOwnRejectingInvalid ==
  \/ OwnEntry.kind = "queue" /\ ~KeyTaken /\ Continue("run", OwnEntry.events)
  \/ KeyTaken /\ Continue("off", {})
  \/ OwnEntry.kind = "invalid" /\ Continue("off", {})

(* The entry under the key of this source decides when there is one.  That of
   another source ends the start and stays. *)
ReadOwn ==
  \/ OwnEntry.kind = "queue" /\ ~KeyTaken /\ Continue("run", OwnEntry.events)
  \/ KeyTaken /\ Continue("off", {})
  \/ OwnEntry.kind = "invalid" /\ Continue("erase_own", {})

NoOwn == OwnEntry.kind = "absent"

NothingInherited ==
  /\ NoOwn
  /\ legacy.kind = "absent" \/ quarantined
  /\ Continue("run", {})

DiscardInherited ==
  /\ NoOwn /\ ~quarantined
  /\ \/ legacy.kind = "invalid"
     \/ legacy = Legacy({})
     \/ ReadsMayFail /\ legacy.kind = "queue"
  /\ Continue("erase_legacy", {})

InheritedIgnoringQuarantine ==
  NoOwn /\ legacy.kind = "queue" /\ legacy.events # {}

Inherited == NoOwn /\ ~quarantined /\ legacy.kind = "queue" /\ legacy.events # {}

RefuseInherited ==
  /\ Inherited
  /\ ~SourceMatches \/ ReadsMayFail
  /\ Continue("quarantine", {})

TakeInherited ==
  /\ Inherited
  /\ SourceMatches
  /\ Continue("store", legacy.events)

(* Any other error of a read is returned and ends the start. *)
ReadFails ==
  /\ ReadsMayFail
  /\ pc = "start"
  /\ pc' = "off"
  /\ queue' = {}
  /\ UNCHANGED <<config, nvs, made, delivered, settled>>
-----------------------------------------------------------------------------
(* The writing part.  A write that fails before or after the flash changed
   sends the start to the stage given for failures. *)
Results == {"ok", "not_written", "written"}

Outcome(stage, result, onOk, onFailure) ==
  /\ pc = stage
  /\ pc' = IF result = "ok" THEN onOk ELSE onFailure
  /\ queue' = IF pc' = "off" THEN {} ELSE queue
  /\ UNCHANGED <<config, bindingOf, viewOf, made, delivered, settled>>

Written(result) == result # "not_written"

EraseOwn(result) ==
  /\ Outcome("erase_own", result, "run", "off")
  /\ own' = IF Written(result) THEN [own EXCEPT ![key[config]] = Absent]
                               ELSE own
  /\ UNCHANGED <<legacy, quarantined>>

EraseLegacy(result) ==
  /\ Outcome("erase_legacy", result, "run", "off")
  /\ legacy' = IF Written(result) THEN Absent ELSE legacy
  /\ UNCHANGED <<own, quarantined>>

QuarantineIgnoringErrors(result) ==
  /\ Outcome("quarantine", result, "run", "run")
  /\ quarantined' = (quarantined \/ Written(result))
  /\ UNCHANGED <<own, legacy>>

Quarantine(result) ==
  /\ Outcome("quarantine", result, "run", "off")
  /\ quarantined' = (quarantined \/ Written(result))
  /\ UNCHANGED <<own, legacy>>

DropLegacyFirst(result) ==
  /\ Outcome("store", result, "drop_legacy", "off")
  /\ legacy' = IF Written(result) THEN Absent ELSE legacy
  /\ UNCHANGED <<own, quarantined>>

(* Migration: store under this source, drop the legacy entry; if that fails
   quarantine it; if that fails too, give up the start. *)
StoreInherited(result) ==
  /\ Outcome("store", result, "drop_legacy", "off")
  /\ own' = IF Written(result)
            THEN [own EXCEPT ![key[config]] = Queue(config, queue)]
            ELSE own
  /\ UNCHANGED <<legacy, quarantined>>

DropLegacy(result) ==
  /\ Outcome("drop_legacy", result, "run", "quarantine_copied")
  /\ legacy' = IF Written(result) THEN Absent ELSE legacy
  /\ UNCHANGED <<own, quarantined>>

QuarantineCopied(result) ==
  /\ Outcome("quarantine_copied", result, "run", "off")
  /\ quarantined' = (quarantined \/ Written(result))
  /\ UNCHANGED <<own, legacy>>

Write(result) ==
  \/ EraseOwn(result) \/ EraseLegacy(result)
  \/ Quarantine(result)
  \/ StoreInherited(result) \/ DropLegacy(result) \/ QuarantineCopied(result)
-----------------------------------------------------------------------------
(* The running device. *)

(* apply_state stores the binding of a new state for this source. *)
AdoptBinding(result) ==
  /\ pc = "run"
  /\ bindingOf' = IF Written(result) THEN config ELSE bindingOf
  /\ UNCHANGED <<config, own, legacy, quarantined, viewOf, pc, queue, made,
                 delivered, settled>>

StoreQueueErasingEmpty(next, result) ==
  /\ pc = "run"
  /\ own' = IF Written(result)
            THEN [own EXCEPT ![key[config]] =
                    IF next = {} THEN Absent ELSE Queue(config, next)]
            ELSE own
  /\ queue' = IF result = "ok" THEN next ELSE queue
  /\ UNCHANGED <<config, legacy, quarantined, bindingOf, viewOf, pc, settled>>

(* store_queue of the running device. *)
StoreQueue(next, result) ==
  /\ pc = "run"
  /\ own' = IF Written(result)
            THEN [own EXCEPT ![key[config]] = Queue(config, next)]
            ELSE own
  /\ queue' = IF result = "ok" THEN next ELSE queue
  /\ UNCHANGED <<config, legacy, quarantined, bindingOf, viewOf, pc, settled>>

(* pb_event_queue_enqueue. *)
NewEvent(result) ==
  /\ made[config] < MaxEvents
  /\ made' = [made EXCEPT ![config] = @ + 1]
  /\ StoreQueue(queue \cup {[source |-> config, n |-> made'[config]]}, result)
  /\ UNCHANGED delivered

(* The cloud of this source accepts an event; pb_event_queue_pop. *)
DeliverEvent(e, result) ==
  /\ e \in queue
  /\ delivered' = [delivered EXCEPT ![config] = @ \cup {e}]
  /\ StoreQueue(queue \ {e}, result)
  /\ UNCHANGED made

Crash ==
  /\ ~settled
  /\ pc # "off"
  /\ pc' = "off"
  /\ queue' = {}
  /\ UNCHANGED <<config, nvs, made, delivered, settled>>

Reconfigure ==
  /\ ~settled
  /\ pc = "off"
  /\ config' \in Sources \ {config}
  /\ UNCHANGED <<nvs, pc, queue, made, delivered, settled>>

Settle ==
  /\ ~settled
  /\ settled' = TRUE
  /\ UNCHANGED <<config, nvs, pc, queue, made, delivered>>

Start ==
  \/ PowerOn \/ PowerOnErasing
  \/ ReadOwn \/ NothingInherited \/ DiscardInherited
  \/ RefuseInherited \/ TakeInherited

Run(result) ==
  \/ AdoptBinding(result)
  \/ NewEvent(result)
  \/ \E e \in queue : DeliverEvent(e, result)

Next ==
  /\ \/ Start
     \/ ReadFails
     \/ \E result \in Results : Write(result) \/ Run(result)
     \/ Crash \/ Reconfigure \/ Settle
  /\ UNCHANGED <<key, disturbed>>

Spec == Init /\ [][Next]_vars
-----------------------------------------------------------------------------
(* No event reaches the queue, in flash or RAM, or the cloud of a source that
   did not make it, whatever is reconfigured, crashes or fails in between, and
   also if two sources share a key
   (pb_event_queue.c:269-273,373-381, docs/pb-app-protocol-v2.md:109-113). *)
SourceIsolation ==
  /\ \A k \in Sources : \A e \in own[k].events : e.source = own[k].source
  /\ \A s \in Sources : \A e \in delivered[s] : e.source = s
  /\ \A e \in queue : e.source = config

(* A running device has settled the legacy queue: it is gone, quarantined or
   copied to its owner, so that a binding adopted from now on can never claim
   it at a later start (pb_event_queue.c:373-402). *)
LegacySettled ==
  pc = "run" =>
    \/ legacy.kind = "absent"
    \/ quarantined
    \/ config = LegacyOwner /\ OwnEntry.kind = "queue"

InQueue(e) == e \in own[key[e.source]].events
InFlash(e) == e \in legacy.events \/ InQueue(e)

NoneVanishes ==
  \A e \in LegacyEvents :
    InFlash(e) => InFlash(e)' \/ e \in delivered'[e.source]

(* An inherited event leaves the flash only when the cloud of its owner has
   it: not on its way from the old entry to the new one, not when a write or
   a start fails half way (pb_event_queue.c:387-399,
   docs/pb-app-protocol-v2.md:107-108). *)
KeptUntilDelivered == [][NoneVanishes]_vars

(* The same of a flash that can be read and is not erased as a whole. *)
KeptWithReadableFlash == [][disturbed = {} => NoneVanishes]_vars

(* Quarantined events stay where they are: no later start, with whatever
   configuration and binding, adds one to a queue (pb_event_queue.c:317). *)
QuarantineFinal ==
  [][quarantined =>
       /\ quarantined' \/ legacy' = Absent
       /\ \A s \in Sources : LegacyEvents \cap own'[s].events
                              \subseteq own[s].events \cup delivered[LegacyOwner]]_vars

(* An inherited event that its cloud has accepted and that has left the queue
   never returns to it: also if the old entry outlived the migration, which
   the empty queue of the owner then keeps from happening again
   (pb_event_queue.c:384-396, docs/pb-app-protocol-v2.md:107-108). *)
DeliveredStayGone ==
  [][\A e \in LegacyEvents :
       e \in delivered[e.source] /\ ~InQueue(e) /\ e \notin queue
         => ~InQueue(e)' /\ e \notin queue']_vars
-----------------------------------------------------------------------------
(* From some time on the power holds and nobody flashes the device; a read or
   a write that every start tries again succeeds at some time. *)
Fairness ==
  /\ WF_moving(Settle)
  /\ WF_moving(PowerOn)
  /\ SF_moving(ReadOwn \/ NothingInherited)
  /\ SF_moving(DiscardInherited \/ RefuseInherited \/ TakeInherited)
  /\ SF_moving(Write("ok"))

FairSpec == Spec /\ Fairness

(* Whatever a failed start left in the flash, and whether a read fails at
   times or not, the device comes up in the end.  Only an entry of another
   source under its key makes it restart for ever: nothing erases that
   (pb_event_queue.c:254-278, main.c:210). *)
ComesUp == <>[](pc = "run" \/ KeyTaken)
=============================================================================
