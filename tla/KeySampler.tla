----------------------------- MODULE KeySampler ------------------------------
(***************************************************************************)
(* How the scan tasks of the two panel drivers turn samples of the keys    *)
(* into key events (drivers/lp001.c, drivers/lp003.c).  LP-003 sees every  *)
(* key and debounces each by itself; a sample that cannot be read or has   *)
(* unknown bits starts all of them anew.  LP-001 sees at most one line,    *)
(* some of which have no key, and debounces the sample as a whole.  Both   *)
(* put events in a bounded queue, which drops its oldest when it is full.  *)
(* Time is counted in scans.                                               *)
(***************************************************************************)
EXTENDS Integers, Sequences

CONSTANTS Keys,           \* the keys of the panel, by their index
          NoKey,          \* a line of LP-001 without a key
          StableSamples,  \* LP001_DEBOUNCE_SAMPLES, LP003_KEY_STABLE_SAMPLES
          KeyQueueLength, \* LP001_, LP003_KEY_EVENT_QUEUE_LENGTH
          MaxScans        \* bound: the scans of a run

ASSUME SamplerAssumption ==
  /\ Keys \subseteq Nat /\ NoKey \notin Keys
  /\ StableSamples \in Nat \ {0}
  /\ KeyQueueLength \in Nat \ {0}
  /\ MaxScans \in Nat

VARIABLES
  profile,       \* the driver
  now,           \* number of scans so far
  held,          \* s_key_state.held; at most one key in LP-001's s_pressed_key
  candidate,     \* the keys or the line of the samples counted at present
  matching,      \* per key: how many samples agree with the candidate
  publishing,    \* the events that the scan has still to publish
  stage,         \* of publish_key_event: "send", "drop" or "send_again"
  queue,         \* s_key_event_queue
  downSince,     \* history: when a key was last found pressed
  window         \* history: the last samples since one was unreadable

scanVars == <<profile, now, held, candidate, matching, downSince, window>>
samplerVars == <<scanVars, publishing, stage, queue>>

Profiles == {"LP-001", "LP-003"}

(* A release carries, as history, the time of its press. *)
Times == 0..MaxScans
KeyEvent == [key : Keys, pressed : BOOLEAN, at : Times, since : Times]

AtMostOne(s) == \A a, b \in s : a = b

(* A sample is a set of lines; on LP-001 at most one. *)
Samples ==
  IF profile = "LP-003" THEN SUBSET Keys
  ELSE {s \in SUBSET (Keys \cup {NoKey}) : AtMostOne(s)}

SamplerTypeOK ==
  /\ profile \in Profiles
  /\ now \in Times
  /\ held \subseteq Keys /\ (profile = "LP-001" => AtMostOne(held))
  /\ candidate \subseteq Keys \cup {NoKey}
  /\ matching \in [Keys -> 0..StableSamples]
  /\ publishing \subseteq KeyEvent
  /\ stage \in {"send", "drop", "send_again"}
  /\ queue \in Seq(KeyEvent) /\ Len(queue) <= KeyQueueLength
  /\ downSince \in [Keys -> Times]
  /\ window \in Seq(SUBSET (Keys \cup {NoKey}))
  /\ Len(window) <= StableSamples

SamplerInit ==
  /\ profile \in Profiles
  /\ now = 0
  /\ held = {} /\ candidate = {} /\ matching = [k \in Keys |-> 0]
  /\ publishing = {} /\ stage = "send" /\ queue = <<>>
  /\ downSince = [k \in Keys |-> 0]
  /\ window = <<>>
-----------------------------------------------------------------------------
(* The events of a scan are published one by one; the core may take events
   from the queue between any two steps, also between the failed send and the
   removal of the oldest event.  LP-003 goes through its keys by index; LP-001
   has one key at a time, and the old one goes before the new one comes. *)
RoomForOneMore == Len(queue) <= KeyQueueLength
Room == Len(queue) < KeyQueueLength

GoesFirst(e) ==
  \A f \in publishing :
    IF profile = "LP-003" THEN e.key <= f.key ELSE e.pressed => f.pressed

Send ==
  /\ stage \in {"send", "send_again"} /\ Room
  /\ \E e \in publishing : /\ GoesFirst(e)
                          /\ queue' = Append(queue, e)
                          /\ publishing' = publishing \ {e}
  /\ stage' = "send"
  /\ UNCHANGED scanVars

FindFull ==
  /\ publishing # {}
  /\ stage = "send" /\ ~Room
  /\ stage' = "drop"
  /\ UNCHANGED <<scanVars, publishing, queue>>

WithoutNewest == IF queue = <<>> THEN <<>> ELSE SubSeq(queue, 1, Len(queue) - 1)
WithoutOldest == IF queue = <<>> THEN <<>> ELSE Tail(queue)

Drop ==
  /\ stage = "drop"
  /\ queue' = WithoutOldest
  /\ stage' = "send_again"
  /\ UNCHANGED <<scanVars, publishing>>

EventOf(k, pressed) ==
  [key |-> k, pressed |-> pressed, at |-> now',
   since |-> IF pressed THEN now' ELSE downSince[k]]

Changes(before, after) ==
  {EventOf(k, k \in after) : k \in (before \ after) \cup (after \ before)}
-----------------------------------------------------------------------------
(* decode_keys and the counters of update_keys. *)
Agrees(k, sample) == matching[k] > 0 /\ (k \in candidate <=> k \in sample)

More(n) == IF n < StableSamples THEN n + 1 ELSE n

CountedLp003(sample) ==
  [k \in Keys |-> IF Agrees(k, sample) THEN More(matching[k]) ELSE 1]

HeldLp003(sample) ==
  LET Stable(k) == CountedLp003(sample)[k] = StableSamples
  IN  {k \in Keys : IF Stable(k) THEN k \in sample ELSE k \in held}

(* update_debounced_key; one counter for the sample as a whole. *)
CountedLp001(sample) ==
  [k \in Keys |-> IF sample = candidate THEN More(matching[k]) ELSE 1]

HeldLp001(sample) ==
  IF \E k \in Keys : CountedLp001(sample)[k] < StableSamples THEN held
  ELSE sample \ {NoKey}

LastSamples(w) ==
  IF Len(w) <= StableSamples THEN w ELSE SubSeq(w, 2, Len(w))

Scan(sample) ==
  /\ now < MaxScans /\ publishing = {}
  /\ now' = now + 1
  /\ window' = LastSamples(Append(window, sample))
  /\ candidate' = sample
  /\ downSince' = [k \in Keys |-> IF k \in held' \ held THEN now'
                                  ELSE downSince[k]]
  /\ UNCHANGED <<profile, stage, queue>>

ScanLp003(sample) ==
  /\ profile = "LP-003"
  /\ matching' = CountedLp003(sample)
  /\ held' = HeldLp003(sample)
  /\ Scan(sample)
  /\ publishing' = Changes(held, held')

ScanLp001(sample) ==
  /\ profile = "LP-001"
  /\ matching' = CountedLp001(sample)
  /\ held' = HeldLp001(sample)
  /\ Scan(sample)
  /\ publishing' = Changes(held, held')

KeepsCounting ==
  UNCHANGED <<candidate, matching>>

ResetCounting ==
  /\ candidate' = held
  /\ matching' = [k \in Keys |-> 0]

(* A blink command or the read fails, or unknown bits are set:
   reset_pending_key_samples. *)
ScanUnreadable ==
  /\ profile = "LP-003"
  /\ now < MaxScans /\ publishing = {}
  /\ now' = now + 1
  /\ ResetCounting
  /\ window' = <<>>
  /\ UNCHANGED <<profile, held, downSince, publishing, stage, queue>>
=============================================================================
