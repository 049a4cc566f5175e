----------------------------- MODULE EventQueue -----------------------------
(***************************************************************************)
(* The persistent event queue of the runtime core                          *)
(* (sdk/pb-runtime/src/pb_event_queue.c): a FIFO kept in RAM (queue) whose *)
(* every change is first written as one blob to flash (stored, the NVS     *)
(* entry of this source).  An event stands for its event_id.               *)
(*                                                                         *)
(* The RAM copy changes only when the whole write succeeded.  A write that *)
(* fails may or may not have reached the flash: nvs_set_blob can succeed   *)
(* and nvs_commit still return an error.                                   *)
(***************************************************************************)
EXTENDS Naturals, Sequences

CONSTANT Capacity      \* PB_EVENT_QUEUE_CAPACITY, 24 in the code

ASSUME CapacityAssumption == Capacity \in Nat \ {0}

VARIABLES queue,       \* the RAM queue of pb_runtime_context_t
          stored       \* the queue in the NVS blob

queueVars == <<queue, stored>>

(* What store_queue does: "ok"; "not_written", an error before the blob is
   replaced; "written", an error reported after it was. *)
StoreResults == {"ok", "not_written", "written"}

StoreQueueRamFirst(next, result) ==
  /\ stored' = IF result = "not_written" THEN stored ELSE next
  /\ queue' = next

StoreQueue(next, result) ==
  /\ stored' = IF result = "not_written" THEN stored ELSE next
  /\ queue' = IF result = "ok" THEN next ELSE queue

Full == Len(queue) >= Capacity

EnqueueDropOldest(e, result) ==
  IF Full THEN StoreQueue(Append(Tail(queue), e), result)
          ELSE StoreQueue(Append(queue, e), result)

(* pb_event_queue_enqueue: a full queue refuses the new event and keeps the
   old ones. *)
Enqueue(e, result) ==
  IF Full THEN UNCHANGED queueVars
          ELSE StoreQueue(Append(queue, e), result)

Enqueued(result) == ~Full /\ result = "ok"

(* pb_event_queue_pop. *)
Pop(result) ==
  /\ queue # <<>>
  /\ StoreQueue(Tail(queue), result)

(* pb_event_queue_init when the entry of this source is readable. *)
Load == queue' = stored /\ UNCHANGED stored
=============================================================================
