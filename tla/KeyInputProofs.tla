---------------------------- MODULE KeyInputProofs ----------------------------
(***************************************************************************)
(* Proofs about KeySampler and KeyInput, for any number of keys, samples,  *)
(* places in the queue and scans: types, the debouncing of both drivers,   *)
(* that the events end with the truth, and that a gesture is as long as    *)
(* the press was unless an event of the primary key was dropped.           *)
(***************************************************************************)
EXTENDS KeyInput, SequenceTheorems, TLAPS

(* The counters count: matching[k] of the last samples, and no more of them,
   agree with the candidate on key k (LP-003), or are the candidate (LP-001). *)
Same(k, a, b) == IF profile = "LP-003" THEN k \in a <=> k \in b ELSE a = b

Counting ==
  /\ \A k \in Keys :
       LET m == matching[k]
           n == Len(window)
       IN  /\ m <= n /\ (n > 0 => m > 0 /\ candidate = window[n])
           /\ \A i \in (n - m + 1)..n : Same(k, window[i], candidate)
           /\ m < n => ~Same(k, window[n - m], candidate)
  /\ profile = "LP-001" => \A k, l \in Keys : matching[k] = matching[l]

(* The events of one scan: one per changed key, telling its present state. *)
Published ==
  /\ \A e \in publishing :
       /\ e.key \in held <=> e.pressed
       /\ e.at = now /\ e.since = downSince[e.key]
       /\ e.pressed => e.since = e.at
  /\ \A e, f \in publishing : e.key = f.key => e = f

(* Times only grow. *)
InTime ==
  /\ \A k \in Keys : downSince[k] <= now
  /\ \A i \in DOMAIN queue :
       /\ queue[i].since <= queue[i].at /\ queue[i].at <= now
       /\ queue[i].pressed => queue[i].since = queue[i].at
       /\ queue[i].since <= downSince[queue[i].key]
  /\ \A i, j \in DOMAIN queue :
       i < j /\ queue[i].key = queue[j].key => queue[i].since <= queue[j].since

(* What follows an event of a key: the next event of that key is the other
   one, and a release knows its press; after the last one, the key is so. *)
Follows(e, f) ==
  /\ f.pressed # e.pressed
  /\ e.pressed => f.since = e.at

LastInQueue(i) ==
  \A j \in DOMAIN queue : i < j => queue[j].key # queue[i].key

Alternating ==
  /\ \A i, j \in DOMAIN queue :
       /\ i < j /\ queue[i].key = queue[j].key
       /\ \A m \in DOMAIN queue : i < m /\ m < j => queue[m].key # queue[i].key
       => Follows(queue[i], queue[j])
  /\ \A i \in DOMAIN queue :
       LastInQueue(i) =>
         /\ \A e \in publishing : e.key = queue[i].key => Follows(queue[i], e)
         /\ (\A e \in publishing : e.key # queue[i].key) =>
              /\ queue[i].key \in held <=> queue[i].pressed
              /\ queue[i].pressed => downSince[queue[i].key] = queue[i].at

(* The press that the core has taken is not later than the press of any
   release it may still take. *)
PressIsPast ==
  pressed =>
    /\ pressedAt <= downSince[Primary]
    /\ \A i \in DOMAIN queue : IsPrimary(queue[i]) => pressedAt <= queue[i].since

(* As long as no event was dropped, what comes next is the release of that
   press, wherever it is at present. *)
ReleaseOf(e) == ~e.pressed /\ e.since = pressedAt

NoneInQueue == \A i \in DOMAIN queue : ~IsPrimary(queue[i])

ReleaseIsNext ==
  pressed /\ ~lost =>
    /\ \A i \in DOMAIN queue :
         /\ IsPrimary(queue[i])
         /\ \A j \in DOMAIN queue : j < i => ~IsPrimary(queue[j])
         => ReleaseOf(queue[i])
    /\ NoneInQueue =>
         /\ \A e \in publishing : IsPrimary(e) => ReleaseOf(e)
         /\ (\A e \in publishing : ~IsPrimary(e)) =>
              Primary \in held /\ downSince[Primary] = pressedAt

IInv ==
  /\ TypeOK /\ Counting
  /\ Published /\ InTime /\ Alternating
  /\ PressIsPast /\ ReleaseIsNext /\ GestureTrue
-----------------------------------------------------------------------------
(* Sequences *)

(* What a queue looks like when its oldest element is gone. *)
LEMMA TailFacts ==
  ASSUME NEW S, NEW s \in Seq(S), s # <<>>
  PROVE  /\ Tail(s) \in Seq(S) /\ Len(Tail(s)) = Len(s) - 1
         /\ DOMAIN Tail(s) = 1..(Len(s) - 1)
         /\ \A i \in DOMAIN Tail(s) : i + 1 \in DOMAIN s /\ Tail(s)[i] = s[i + 1]
         /\ Len(s) > 0 /\ DOMAIN s = 1..Len(s) /\ Head(s) = s[1] /\ s[1] \in S
<1>1. Len(s) \in Nat /\ Len(s) > 0 /\ DOMAIN s = 1..Len(s)
  BY EmptySeq, LenProperties
<1>2. Head(s) = s[1] /\ s[1] \in S
  BY <1>1, ElementOfSeq
<1>3. Tail(s) \in Seq(S) /\ Len(Tail(s)) = Len(s) - 1
      /\ \A i \in 1..Len(Tail(s)) : Tail(s)[i] = s[i + 1]
  BY HeadTailProperties
<1> QED
  BY <1>1, <1>2, <1>3, LenProperties

(* What it looks like with one more. *)
LEMMA AppendFacts ==
  ASSUME NEW S, NEW s \in Seq(S), NEW e \in S
  PROVE  /\ Append(s, e) \in Seq(S) /\ Len(Append(s, e)) = Len(s) + 1
         /\ DOMAIN Append(s, e) = 1..(Len(s) + 1) /\ DOMAIN s = 1..Len(s)
         /\ Len(s) \in Nat
         /\ \A i \in DOMAIN s : Append(s, e)[i] = s[i]
         /\ Append(s, e)[Len(s) + 1] = e
<1>1. /\ Append(s, e) \in Seq(S) /\ Len(Append(s, e)) = Len(s) + 1
      /\ \A i \in 1..Len(s) : Append(s, e)[i] = s[i]
      /\ Append(s, e)[Len(s) + 1] = e
  BY AppendProperties
<1> QED
  BY <1>1, LenProperties

(* The window of the last samples, moved on by one. *)
Lines == Keys \cup {NoKey}

LEMMA WindowMoves ==
  ASSUME NEW w \in Seq(SUBSET Lines), Len(w) <= StableSamples,
         NEW sample \in SUBSET Lines,
         NEW moved, moved = LastSamples(Append(w, sample))
  PROVE  /\ moved \in Seq(SUBSET Lines) /\ Len(w) \in Nat
         /\ Len(moved) = IF Len(w) < StableSamples THEN Len(w) + 1
                         ELSE StableSamples
         /\ moved[Len(moved)] = sample
         /\ \A i \in 1..(Len(moved) - 1) :
              moved[i] = w[i + (Len(w) + 1 - Len(moved))]
<1> DEFINE a == Append(w, sample)
<1>1. /\ a \in Seq(SUBSET Lines) /\ Len(a) = Len(w) + 1 /\ Len(w) \in Nat
      /\ \A i \in 1..Len(w) : a[i] = w[i]
      /\ a[Len(w) + 1] = sample
  BY AppendFacts
<1>2. StableSamples \in Nat /\ StableSamples > 0
  BY SamplerAssumption
<1> HIDE DEF a
<1>3. CASE Len(w) < StableSamples
  <2>1. moved = a
    BY <1>1, <1>2, <1>3 DEF LastSamples, a
  <2> QED
    BY <1>1, <1>2, <1>3, <2>1
<1>4. CASE ~(Len(w) < StableSamples)
  <2>1. Len(w) = StableSamples
    BY <1>1, <1>2, <1>4
  <2>2. moved = SubSeq(a, 2, Len(a))
    BY <1>1, <1>2, <2>1 DEF LastSamples, a
  <2>3. /\ moved \in Seq(SUBSET Lines) /\ Len(moved) = StableSamples
        /\ \A i \in 1..StableSamples : moved[i] = a[i + 1]
    BY <1>1, <1>2, <2>1, <2>2, SubSeqProperties
  <2> QED
    BY <1>1, <1>2, <2>1, <2>3
<1> QED
  BY <1>3, <1>4
-----------------------------------------------------------------------------
(* Types *)

LEMMA SampleType ==
  ASSUME TypeOK, NEW sample \in Samples
  PROVE  /\ sample \in SUBSET Lines
         /\ profile = "LP-001" => AtMostOne(sample)
BY DEF Samples, TypeOK, SamplerTypeOK, Profiles, Lines

LEMMA EmptyTypes ==
  /\ 0 \in Times /\ 0 \in 0..StableSamples /\ 0 <= KeyQueueLength
  /\ 0 <= StableSamples /\ AtMostOne({})
  /\ <<>> \in Seq(KeyEvent) /\ Len(<<>>) = 0
  /\ <<>> \in Seq(SUBSET (Keys \cup {NoKey}))
  /\ NoGesture \in [long : BOOLEAN, reallyLong : BOOLEAN, lost : BOOLEAN]
BY SamplerAssumption, EmptySeq DEF Times, AtMostOne, NoGesture

LEMMA InitTyped == Init => TypeOK
BY EmptyTypes DEF Init, SamplerInit, TypeOK, SamplerTypeOK

(* A scan: the types of what both drivers share. *)
LEMMA ScanTyped ==
  ASSUME TypeOK, NEW sample \in Samples, Scan(sample),
         matching' \in [Keys -> 0..StableSamples],
         held' \subseteq Keys, profile = "LP-001" => AtMostOne(held'),
         publishing' = Changes(held, held'),
         UNCHANGED <<coreVars, lost>>
  PROVE  TypeOK'
<1>1. sample \in SUBSET Lines
  BY SampleType
<1>2. now' \in Times
  BY SamplerAssumption DEF Scan, TypeOK, SamplerTypeOK, Times
<1>3. window' \in Seq(SUBSET Lines) /\ Len(window') <= StableSamples
  <2>1. window \in Seq(SUBSET Lines) /\ Len(window) <= StableSamples
    BY DEF TypeOK, SamplerTypeOK, Lines
  <2>2. window' = LastSamples(Append(window, sample))
    BY DEF Scan
  <2>3. /\ window' \in Seq(SUBSET Lines) /\ Len(window) \in Nat
        /\ Len(window') = IF Len(window) < StableSamples THEN Len(window) + 1
                          ELSE StableSamples
    BY <1>1, <2>1, <2>2, WindowMoves
  <2> QED
    BY <2>1, <2>3, SamplerAssumption
<1>4. downSince' \in [Keys -> Times]
  BY <1>2 DEF Scan, TypeOK, SamplerTypeOK
<1>5. publishing' \subseteq KeyEvent
  <2>1. SUFFICES ASSUME NEW e \in publishing' PROVE e \in KeyEvent
    OBVIOUS
  <2>2. PICK k \in (held \ held') \cup (held' \ held) : e = EventOf(k, k \in held')
    BY DEF Changes
  <2>3. k \in Keys /\ downSince[k] \in Times
    BY DEF TypeOK, SamplerTypeOK
  <2> QED
    BY <1>2, <2>2, <2>3 DEF EventOf, KeyEvent
<1> QED
  BY <1>1, <1>2, <1>3, <1>4, <1>5
  DEF Scan, TypeOK, SamplerTypeOK, coreVars, Lines, AtMostOne

LEMMA MoreType ==
  ASSUME NEW n \in 0..StableSamples
  PROVE  More(n) \in 0..StableSamples /\ 1 \in 0..StableSamples
BY SamplerAssumption DEF More

LEMMA StepTyped == TypeOK /\ [Next]_vars => TypeOK'
<1> SUFFICES ASSUME TypeOK, [Next]_vars PROVE TypeOK'
  OBVIOUS
<1> USE SamplerAssumption, InputAssumption
<1>q. queue \in Seq(KeyEvent) /\ Len(queue) \in Nat /\ Len(queue) <= KeyQueueLength
      /\ KeyQueueLength \in Nat
  BY LenProperties DEF TypeOK, SamplerTypeOK
<1>t. queue # <<>> =>
        /\ Tail(queue) \in Seq(KeyEvent) /\ Len(Tail(queue)) <= KeyQueueLength
        /\ Head(queue) \in KeyEvent
  BY <1>q, TailFacts
<1>1. ASSUME NEW sample \in Samples, ScanLp001(sample), UNCHANGED <<coreVars, lost>>
      PROVE  TypeOK'
  <2>1. matching' \in [Keys -> 0..StableSamples]
    BY <1>1, MoreType DEF ScanLp001, CountedLp001, TypeOK, SamplerTypeOK
  <2>2. held' \subseteq Keys /\ AtMostOne(held')
    BY <1>1, SampleType
    DEF ScanLp001, HeldLp001, TypeOK, SamplerTypeOK, AtMostOne, Lines
  <2> QED
    BY <1>1, <2>1, <2>2, ScanTyped DEF ScanLp001
<1>2. ASSUME NEW sample \in Samples, ScanLp003(sample), UNCHANGED <<coreVars, lost>>
      PROVE  TypeOK'
  <2>1. matching' \in [Keys -> 0..StableSamples]
    BY <1>2, MoreType DEF ScanLp003, CountedLp003, TypeOK, SamplerTypeOK
  <2>2. held' \subseteq Keys /\ profile # "LP-001"
    BY <1>2 DEF ScanLp003, HeldLp003
  <2> QED
    BY <1>2, <2>1, <2>2, ScanTyped DEF ScanLp003
<1>3. ASSUME ScanUnreadable, UNCHANGED <<coreVars, lost>> PROVE TypeOK'
  <2>1. window' \in Seq(SUBSET (Keys \cup {NoKey})) /\ Len(window') = 0
    BY <1>3, EmptySeq DEF ScanUnreadable
  <2>2. now' \in Times
    BY <1>3 DEF ScanUnreadable, TypeOK, SamplerTypeOK, Times
  <2> QED
    BY <1>3, <2>1, <2>2
    DEF ScanUnreadable, ResetCounting, TypeOK, SamplerTypeOK, coreVars
<1>4. ASSUME Send, UNCHANGED <<coreVars, lost>> PROVE TypeOK'
  <2>1. PICK e \in publishing : /\ queue' = Append(queue, e)
                                /\ publishing' = publishing \ {e}
    BY <1>4 DEF Send
  <2>2. e \in KeyEvent
    BY DEF TypeOK, SamplerTypeOK
  <2>3. queue' \in Seq(KeyEvent) /\ Len(queue') <= KeyQueueLength
    BY <1>4, <1>q, <2>1, <2>2, AppendFacts DEF Send, Room
  <2> QED
    BY <1>4, <2>1, <2>3 DEF Send, scanVars, TypeOK, SamplerTypeOK, coreVars
<1>5. ASSUME FindFull, UNCHANGED <<coreVars, lost>> PROVE TypeOK'
  BY <1>5 DEF FindFull, scanVars, TypeOK, SamplerTypeOK, coreVars
<1>6. CASE DriverDrops
  <2>1. queue' \in Seq(KeyEvent) /\ Len(queue') <= KeyQueueLength
    BY <1>6, <1>q, <1>t DEF DriverDrops, Drop, WithoutOldest
  <2>2. lost' \in BOOLEAN
    BY <1>6 DEF DriverDrops, TypeOK
  <2> QED
    BY <1>6, <2>1, <2>2
    DEF DriverDrops, Drop, scanVars, TypeOK, SamplerTypeOK, coreVars
<1>7. CASE TakeOther
  BY <1>7, <1>t
  DEF TakeOther, Take, scanVars, TypeOK, SamplerTypeOK, coreVars
<1>8. CASE TakePress
  <2>1. queue # <<>> /\ Head(queue).at \in Times
    BY <1>8, <1>t DEF TakePress, Take, KeyEvent
  <2> QED
    BY <1>8, <1>t, <2>1
    DEF TakePress, Take, scanVars, TypeOK, SamplerTypeOK, PressStart, NoGesture
<1>9. CASE TakeRelease
  <2>1. gesture' \in [long : BOOLEAN, reallyLong : BOOLEAN, lost : BOOLEAN]
    BY <1>9 DEF TakeRelease, NoGesture, TypeOK
  <2> QED
    BY <1>9, <1>t, <2>1
    DEF TakeRelease, Take, scanVars, TypeOK, SamplerTypeOK
<1>10. CASE AppReplaced
  BY <1>10 DEF AppReplaced, samplerVars, scanVars, TypeOK, SamplerTypeOK
<1>11. CASE Restart
  BY <1>11, EmptyTypes DEF Restart, TypeOK, SamplerTypeOK
<1>12. CASE UNCHANGED vars
  BY <1>12
  DEF vars, samplerVars, scanVars, coreVars, TypeOK, SamplerTypeOK
<1> QED
  BY <1>1, <1>2, <1>3, <1>4, <1>5, <1>6, <1>7, <1>8, <1>9, <1>10, <1>11, <1>12
  DEF Next, Driver
-----------------------------------------------------------------------------
(* Counting, and what it means to have counted enough *)

LEMMA CountingFacts ==
  ASSUME TypeOK
  PROVE  /\ window \in Seq(SUBSET Lines) /\ Len(window) \in Nat
         /\ Len(window) <= StableSamples
         /\ StableSamples \in Nat /\ StableSamples > 0
         /\ \A k \in Keys : matching[k] \in 0..StableSamples
         /\ DOMAIN window = 1..Len(window)
BY LenProperties, SamplerAssumption DEF TypeOK, SamplerTypeOK, Lines

(* update_keys and update_debounced_key count in the same way. *)
LEMMA CountStep ==
  ASSUME TypeOK, Counting, NEW sample \in SUBSET Lines, NEW k \in Keys,
         profile' = profile, candidate' = sample,
         window' = LastSamples(Append(window, sample)),
         matching'[k] = IF Same(k, candidate, sample) THEN More(matching[k]) ELSE 1
  PROVE  /\ matching'[k] <= Len(window') /\ matching'[k] > 0
         /\ candidate' = window'[Len(window')]
         /\ \A i \in (Len(window') - matching'[k] + 1)..Len(window') :
              Same(k, window'[i], candidate')
         /\ matching'[k] < Len(window')
              => ~Same(k, window'[Len(window') - matching'[k]], candidate')
<1> DEFINE m == matching[k]
           n == Len(window)
           m2 == matching'[k]
           n2 == Len(window')
<1>1. /\ n \in Nat /\ n <= StableSamples /\ m \in 0..StableSamples
      /\ StableSamples \in Nat /\ StableSamples > 0
  BY CountingFacts
<1>2. /\ n2 = IF n < StableSamples THEN n + 1 ELSE StableSamples
      /\ window'[n2] = sample
      /\ \A i \in 1..(n2 - 1) : window'[i] = window[i + (n + 1 - n2)]
  BY CountingFacts, WindowMoves
<1>3. /\ m <= n /\ (n > 0 => m > 0 /\ candidate = window[n])
      /\ \A i \in (n - m + 1)..n : Same(k, window[i], candidate)
      /\ m < n => ~Same(k, window[n - m], candidate)
  BY DEF Counting
<1>4. m2 = IF Same(k, candidate, sample)
           THEN (IF m < StableSamples THEN m + 1 ELSE m) ELSE 1
  BY DEF More
<1>5. /\ \A a : Same(k, a, a)
      /\ \A a, b : Same(k, a, b) <=> Same(k, b, a)
      /\ \A a, b, c : Same(k, a, b) /\ Same(k, b, c) => Same(k, a, c)
  BY DEF Same
<1> HIDE DEF m, n, m2, n2
<1>6. /\ m2 <= n2 /\ m2 > 0 /\ m2 \in Nat /\ n2 \in Nat
  BY <1>1, <1>2, <1>3, <1>4
<1>7. ASSUME NEW i \in (n2 - m2 + 1)..n2
      PROVE  Same(k, window'[i], sample)
  <2>1. CASE i = n2
    BY <2>1, <1>2, <1>5
  <2>2. CASE i # n2
    <3>1. i \in 1..(n2 - 1) /\ m2 > 1
      BY <1>6, <1>7, <2>2
    <3>2. Same(k, candidate, sample)
      BY <1>4, <3>1
    <3>3. i + (n + 1 - n2) \in (n - m + 1)..n
      BY <1>1, <1>2, <1>3, <1>4, <1>6, <1>7, <3>1, <3>2
    <3>4. Same(k, window'[i], candidate)
      BY <1>2, <1>3, <3>1, <3>3
    <3> QED
      BY <1>5, <3>2, <3>4
  <2> QED
    BY <2>1, <2>2
<1>8. ASSUME m2 < n2
      PROVE  ~Same(k, window'[n2 - m2], sample)
  <2>1. n2 - m2 \in 1..(n2 - 1)
    BY <1>6, <1>8
  <2>2. window'[n2 - m2] = window[n2 - m2 + (n + 1 - n2)]
    BY <1>2, <2>1
  <2>3. n2 - m2 + (n + 1 - n2) = n + 1 - m2 /\ n > 0
    BY <1>1, <1>2, <1>6, <1>8
  <2>4. CASE Same(k, candidate, sample)
    <3>1. m < n /\ n + 1 - m2 = n - m
      BY <1>1, <1>2, <1>3, <1>4, <1>8, <2>4
    <3>2. ~Same(k, window[n - m], candidate)
      BY <1>3, <3>1
    <3> QED
      BY <1>5, <2>2, <2>3, <2>4, <3>1, <3>2
  <2>5. CASE ~Same(k, candidate, sample)
    <3>1. m2 = 1 /\ n + 1 - m2 = n
      BY <1>1, <1>4, <2>5
    <3> QED
      BY <1>3, <2>2, <2>3, <2>5, <3>1
  <2> QED
    BY <2>4, <2>5
<1> QED
  BY <1>2, <1>6, <1>7, <1>8 DEF m2, n2, Same

LEMMA CountStepLp003 ==
  ASSUME TypeOK, Counting, NEW sample \in Samples, ScanLp003(sample)
  PROVE  Counting'
<1>1. /\ profile = "LP-003" /\ profile' = profile /\ candidate' = sample
      /\ window' = LastSamples(Append(window, sample))
      /\ sample \in SUBSET Lines
  BY SampleType DEF ScanLp003, Scan
<1>2. ASSUME NEW k \in Keys
      PROVE  matching'[k] = IF Same(k, candidate, sample) THEN More(matching[k])
                            ELSE 1
  <2>1. matching'[k] = IF Agrees(k, sample) THEN More(matching[k]) ELSE 1
    BY DEF ScanLp003, CountedLp003
  <2>2. matching[k] = 0 => More(matching[k]) = 1
    BY SamplerAssumption DEF More
  <2>3. matching[k] \in 0..StableSamples
    BY CountingFacts
  <2> QED
    BY <1>1, <2>1, <2>2, <2>3 DEF Agrees, Same
<1> QED
  BY <1>1, <1>2, CountStep DEF Counting, Same

LEMMA CountStepLp001 ==
  ASSUME TypeOK, Counting, NEW sample \in Samples, ScanLp001(sample)
  PROVE  Counting'
<1>1. /\ profile = "LP-001" /\ profile' = profile /\ candidate' = sample
      /\ window' = LastSamples(Append(window, sample))
      /\ sample \in SUBSET Lines
  BY SampleType DEF ScanLp001, Scan
<1>2. ASSUME NEW k \in Keys
      PROVE  matching'[k] = IF Same(k, candidate, sample) THEN More(matching[k])
                            ELSE 1
  BY <1>1 DEF ScanLp001, CountedLp001, Same
<1>3. \A k, l \in Keys : matching'[k] = matching'[l]
  BY <1>1, <1>2 DEF Counting, Same
<1> QED
  BY <1>1, <1>2, <1>3, CountStep DEF Counting, Same

LEMMA CountStepUnreadable ==
  ASSUME ScanUnreadable PROVE Counting'
<1>1. /\ window' = <<>> /\ Len(window') = 0
      /\ \A k \in Keys : matching'[k] = 0
  BY EmptySeq DEF ScanUnreadable, ResetCounting
<1> QED
  BY <1>1 DEF Counting

LEMMA CountUnchanged ==
  ASSUME Counting, UNCHANGED <<profile, candidate, matching, window>>
  PROVE  Counting'
BY DEF Counting, Same

(* A full counter and agreement on the last samples are the same thing. *)
LEMMA FullCounter ==
  TypeOK /\ Counting =>
    \A k \in Keys :
      /\ Agreed(window, k) <=> matching[k] = StableSamples
      /\ Agreed(window, k) => (k \in window[1] <=> k \in candidate)
<1> SUFFICES ASSUME TypeOK, Counting, NEW k \in Keys
             PROVE  /\ Agreed(window, k) <=> matching[k] = StableSamples
                    /\ Agreed(window, k) => (k \in window[1] <=> k \in candidate)
  OBVIOUS
<1> DEFINE m == matching[k]
           n == Len(window)
<1>1. /\ n \in Nat /\ n <= StableSamples /\ m \in 0..StableSamples
      /\ StableSamples \in Nat /\ StableSamples > 0 /\ DOMAIN window = 1..n
  BY CountingFacts
<1>2. /\ m <= n /\ (n > 0 => m > 0 /\ candidate = window[n])
      /\ \A i \in (n - m + 1)..n : Same(k, window[i], candidate)
      /\ m < n => ~Same(k, window[n - m], candidate)
  BY DEF Counting
<1>3. /\ \A a : Same(k, a, a)
      /\ \A a, b : Same(k, a, b) <=> Same(k, b, a)
      /\ \A a, b, c : Same(k, a, b) /\ Same(k, b, c) => Same(k, a, c)
      /\ \A a, b : Same(k, a, b) => (k \in a <=> k \in b)
  BY DEF Same
<1>4. Agreed(window, k)
        <=> n = StableSamples /\ \A i \in 1..n : Same(k, window[i], window[1])
  <2>1. CASE profile = "LP-003"
    BY <1>1, <2>1 DEF Agreed, Same
  <2>2. CASE profile # "LP-003"
    BY <1>1, <2>2 DEF Agreed, Same
  <2> QED
    BY <2>1, <2>2
<1> HIDE DEF m, n
<1>5. ASSUME m = StableSamples
      PROVE  Agreed(window, k) /\ (k \in window[1] <=> k \in candidate)
  <2>1. n = StableSamples /\ \A i \in 1..n : Same(k, window[i], candidate)
    BY <1>1, <1>2, <1>5
  <2>2. 1 \in 1..n
    BY <1>1, <2>1
  <2> QED
    BY <1>3, <1>4, <2>1, <2>2
<1>6. ASSUME Agreed(window, k) PROVE m = StableSamples
  <2>1. SUFFICES ASSUME m < n PROVE FALSE
    BY <1>1, <1>2, <1>4, <1>6
  <2>2. n - m \in 1..n /\ n \in 1..n /\ candidate = window[n]
    BY <1>1, <1>2, <2>1
  <2> QED
    BY <1>2, <1>3, <1>4, <1>6, <2>1, <2>2
<1> QED
  BY <1>5, <1>6 DEF m
-----------------------------------------------------------------------------
(* Debouncing *)

DebouncedStep ==
  now' > now =>
    \A k \in Keys :
      IF Agreed(window', k) THEN k \in held' <=> k \in window'[1]
      ELSE k \in held' <=> k \in held

FullMeansAgreed ==
  \A k \in Keys :
    /\ Agreed(window, k) <=> matching[k] = StableSamples
    /\ Agreed(window, k) => (k \in window[1] <=> k \in candidate)

LEMMA ScanDebounces ==
  ASSUME TypeOK, Counting, FullMeansAgreed', NEW sample \in Samples,
         ScanLp001(sample) \/ ScanLp003(sample)
  PROVE  DebouncedStep
<1> SUFFICES ASSUME NEW k \in Keys
             PROVE  IF Agreed(window', k) THEN k \in held' <=> k \in window'[1]
                    ELSE k \in held' <=> k \in held
  BY DEF DebouncedStep
<1>1. profile' = profile /\ candidate' = sample
  BY DEF ScanLp001, ScanLp003, Scan
<1>2. /\ Agreed(window', k) <=> matching'[k] = StableSamples
      /\ Agreed(window', k) => (k \in window'[1] <=> k \in sample)
  BY <1>1 DEF FullMeansAgreed, Agreed
<1>3. CASE ScanLp003(sample)
  BY <1>2, <1>3 DEF ScanLp003, HeldLp003
<1>4. CASE ScanLp001(sample)
  <2>1. /\ matching' = CountedLp001(sample) /\ held' = HeldLp001(sample)
        /\ profile = "LP-001"
    BY <1>4 DEF ScanLp001
  <2>2. \A l \in Keys : /\ matching'[l] = matching'[k]
                        /\ matching'[l] \in 0..StableSamples
    BY <2>1, MoreType, CountingFacts DEF CountedLp001, Counting
  <2>3. held' = IF matching'[k] < StableSamples THEN held ELSE sample \ {NoKey}
    BY <2>1, <2>2 DEF HeldLp001
  <2>4. k # NoKey
    BY SamplerAssumption
  <2> QED
    BY <1>2, <2>2, <2>3, <2>4, SamplerAssumption
<1> QED
  BY <1>3, <1>4

(* No other step lets a scan go by. *)
LEMMA StepDebounces ==
  ASSUME TypeOK, Counting, FullMeansAgreed', [Next]_vars
  PROVE  DebouncedStep
<1>1. ASSUME NEW sample \in Samples, ScanLp001(sample) \/ ScanLp003(sample)
      PROVE  DebouncedStep
  BY <1>1, ScanDebounces
<1>2. CASE ScanUnreadable
  <2>1. ASSUME NEW k \in Keys PROVE ~Agreed(window', k)
    BY <1>2, EmptySeq, SamplerAssumption DEF ScanUnreadable, Agreed
  <2> QED
    BY <1>2, <2>1 DEF DebouncedStep, ScanUnreadable
<1>3. CASE \/ Send \/ FindFull \/ DriverDrops \/ TakeOther \/ TakePress
           \/ TakeRelease \/ AppReplaced \/ UNCHANGED vars
  <2>1. now' = now /\ now \in Nat
    BY <1>3, SamplerAssumption
    DEF Send, FindFull, DriverDrops, Drop, TakeOther, TakePress, TakeRelease,
        Take, AppReplaced, vars, samplerVars, scanVars, TypeOK, SamplerTypeOK,
        Times
  <2> QED
    BY <2>1 DEF DebouncedStep
<1>4. CASE Restart
  <2>1. now' = 0 /\ now \in Nat
    BY <1>4, SamplerAssumption DEF Restart, TypeOK, SamplerTypeOK, Times
  <2> QED
    BY <2>1 DEF DebouncedStep
<1> QED
  BY <1>1, <1>2, <1>3, <1>4 DEF Next, Driver
-----------------------------------------------------------------------------
(* The events *)

Events == Published /\ InTime /\ Alternating

LEMMA EventFacts ==
  ASSUME TypeOK
  PROVE  /\ queue \in Seq(KeyEvent) /\ Len(queue) \in Nat
         /\ DOMAIN queue = 1..Len(queue)
         /\ \A i \in DOMAIN queue :
              /\ queue[i] \in KeyEvent
              /\ queue[i].key \in Keys /\ queue[i].pressed \in BOOLEAN
              /\ queue[i].at \in Int /\ queue[i].since \in Int
         /\ \A e \in publishing :
              /\ e \in KeyEvent /\ e.key \in Keys /\ e.pressed \in BOOLEAN
              /\ e.at \in Int /\ e.since \in Int
         /\ \A k \in Keys : downSince[k] \in Int
         /\ now \in Int /\ held \subseteq Keys
<1>1. /\ queue \in Seq(KeyEvent) /\ publishing \subseteq KeyEvent
      /\ now \in Times /\ held \subseteq Keys
      /\ downSince \in [Keys -> Times]
  BY DEF TypeOK, SamplerTypeOK
<1>2. Times \subseteq Int
  BY SamplerAssumption DEF Times
<1>3. \A e \in KeyEvent : /\ e.key \in Keys /\ e.pressed \in BOOLEAN
                          /\ e.at \in Int /\ e.since \in Int
  BY <1>2 DEF KeyEvent
<1>4. /\ Len(queue) \in Nat /\ DOMAIN queue = 1..Len(queue)
      /\ \A i \in DOMAIN queue : queue[i] \in KeyEvent
  BY <1>1, LenProperties, ElementOfSeq
<1> QED
  BY <1>1, <1>2, <1>3, <1>4

(* A queue without its oldest event, whoever took or dropped it. *)
LEMMA HeadGone ==
  ASSUME TypeOK, Events, queue # <<>>, queue' = Tail(queue),
         UNCHANGED <<now, held, downSince, publishing>>
  PROVE  Events'
<1>1. /\ DOMAIN queue' = 1..(Len(queue) - 1) /\ DOMAIN queue = 1..Len(queue)
      /\ \A i \in DOMAIN queue' : i + 1 \in DOMAIN queue /\ queue'[i] = queue[i + 1]
      /\ Len(queue) \in Nat
  BY EventFacts, TailFacts
<1>2. Published'
  BY DEF Events, Published
<1>3. InTime'
  BY <1>1 DEF Events, InTime
<1>4. ASSUME NEW i \in DOMAIN queue', NEW j \in DOMAIN queue',
             i < j, queue'[i].key = queue'[j].key,
             \A m \in DOMAIN queue' : i < m /\ m < j => queue'[m].key # queue'[i].key
      PROVE  Follows(queue'[i], queue'[j])
  <2>1. ASSUME NEW m \in DOMAIN queue, i + 1 < m, m < j + 1
        PROVE  queue[m].key # queue[i + 1].key
    <3>1. m - 1 \in DOMAIN queue' /\ i < m - 1 /\ m - 1 < j /\ (m - 1) + 1 = m
      BY <1>1, <2>1
    <3> QED
      BY <1>1, <1>4, <3>1
  <2>2. i + 1 < j + 1 /\ i + 1 \in DOMAIN queue /\ j + 1 \in DOMAIN queue
    BY <1>1, <1>4
  <2>3. Follows(queue[i + 1], queue[j + 1])
    BY <1>1, <1>4, <2>1, <2>2 DEF Events, Alternating
  <2> QED
    BY <1>1, <2>3
<1>5. ASSUME NEW i \in DOMAIN queue', LastInQueue(i)'
      PROVE  i + 1 \in DOMAIN queue /\ LastInQueue(i + 1)
  <2>1. ASSUME NEW m \in DOMAIN queue, i + 1 < m
        PROVE  queue[m].key # queue[i + 1].key
    <3>1. m - 1 \in DOMAIN queue' /\ i < m - 1 /\ (m - 1) + 1 = m
      BY <1>1, <2>1
    <3> QED
      BY <1>1, <1>5, <3>1 DEF LastInQueue
  <2> QED
    BY <1>1, <2>1 DEF LastInQueue
<1>6. Alternating'
  BY <1>1, <1>4, <1>5 DEF Events, Alternating, Follows
<1> QED
  BY <1>2, <1>3, <1>6 DEF Events

(* An event goes from those of the scan to the end of the queue. *)
LEMMA SentOne ==
  ASSUME TypeOK, Events, NEW e \in publishing,
         queue' = Append(queue, e), publishing' = publishing \ {e},
         UNCHANGED <<now, held, downSince>>
  PROVE  Events'
<1> DEFINE n == Len(queue)
<1>1. /\ DOMAIN queue' = 1..(n + 1) /\ DOMAIN queue = 1..n /\ n \in Nat
      /\ \A i \in DOMAIN queue : queue'[i] = queue[i]
      /\ queue'[n + 1] = e
  BY EventFacts, AppendFacts
<1> HIDE DEF n
<1>2. Published'
  BY DEF Events, Published
<1>3. /\ e.key \in held <=> e.pressed
      /\ e.at = now /\ e.since = downSince[e.key]
      /\ e.pressed => e.since = e.at
      /\ \A f \in publishing' : f.key # e.key
  BY DEF Events, Published
<1>4. downSince[e.key] <= now
  BY EventFacts DEF Events, InTime
<1>5. InTime'
  <2>1. ASSUME NEW i \in DOMAIN queue'
        PROVE  /\ queue'[i].since <= queue'[i].at /\ queue'[i].at <= now
               /\ queue'[i].pressed => queue'[i].since = queue'[i].at
               /\ queue'[i].since <= downSince[queue'[i].key]
    <3>1. CASE i = n + 1
      BY <1>1, <1>3, <1>4, <3>1, EventFacts
    <3>2. CASE i # n + 1
      <4>1. i \in DOMAIN queue
        BY <1>1, <3>2
      <4> QED
        BY <1>1, <4>1 DEF Events, InTime
    <3> QED
      BY <3>1, <3>2
  <2>2. ASSUME NEW i \in DOMAIN queue', NEW j \in DOMAIN queue',
               i < j, queue'[i].key = queue'[j].key
        PROVE  queue'[i].since <= queue'[j].since
    <3>1. i \in DOMAIN queue
      BY <1>1, <2>2
    <3>2. CASE j = n + 1
      BY <1>1, <1>3, <2>2, <3>1, <3>2 DEF Events, InTime
    <3>3. CASE j # n + 1
      <4>1. j \in DOMAIN queue
        BY <1>1, <3>3
      <4> QED
        BY <1>1, <2>2, <3>1, <4>1 DEF Events, InTime
    <3> QED
      BY <3>2, <3>3
  <2> QED
    BY <2>1, <2>2 DEF Events, InTime
<1>6. ASSUME NEW i \in DOMAIN queue', NEW j \in DOMAIN queue',
             i < j, queue'[i].key = queue'[j].key,
             \A m \in DOMAIN queue' : i < m /\ m < j => queue'[m].key # queue'[i].key
      PROVE  Follows(queue'[i], queue'[j])
  <2>1. i \in DOMAIN queue /\ queue'[i] = queue[i]
    BY <1>1, <1>6
  <2>2. \A m \in DOMAIN queue : i < m /\ m < j => queue[m].key # queue[i].key
    <3>1. ASSUME NEW m \in DOMAIN queue, i < m, m < j
          PROVE  queue[m].key # queue[i].key
      <4>1. m \in DOMAIN queue' /\ queue'[m] = queue[m]
        BY <1>1
      <4> QED
        BY <1>6, <2>1, <3>1, <4>1
    <3> QED
      BY <3>1
  <2>3. CASE j = n + 1
    <3>1. LastInQueue(i)
      BY <1>1, <2>2, <2>3 DEF LastInQueue
    <3> QED
      BY <1>1, <1>6, <2>1, <2>3, <3>1 DEF Events, Alternating
  <2>4. CASE j # n + 1
    <3>1. j \in DOMAIN queue /\ queue'[j] = queue[j]
      BY <1>1, <2>4
    <3> QED
      BY <1>6, <2>1, <2>2, <3>1 DEF Events, Alternating
  <2> QED
    BY <2>3, <2>4
<1>7. ASSUME NEW i \in DOMAIN queue', LastInQueue(i)', i # n + 1
      PROVE  /\ i \in DOMAIN queue /\ LastInQueue(i) /\ queue'[i] = queue[i]
             /\ queue[i].key # e.key
  <2>1. i \in DOMAIN queue /\ queue'[i] = queue[i] /\ i < n + 1
        /\ n + 1 \in DOMAIN queue'
    BY <1>1, <1>7
  <2>2. \A j \in DOMAIN queue : j \in DOMAIN queue' /\ queue'[j] = queue[j]
    BY <1>1
  <2> QED
    BY <1>1, <1>7, <2>1, <2>2 DEF LastInQueue
<1>8. ASSUME NEW i \in DOMAIN queue', LastInQueue(i)'
      PROVE  /\ \A f \in publishing' : f.key = queue'[i].key => Follows(queue'[i], f)
             /\ (\A f \in publishing' : f.key # queue'[i].key) =>
                  /\ queue'[i].key \in held <=> queue'[i].pressed
                  /\ queue'[i].pressed => downSince[queue'[i].key] = queue'[i].at
  <2>1. CASE i = n + 1
    BY <1>1, <1>3, <2>1
  <2>2. CASE i # n + 1
    BY <1>7, <1>8, <2>2 DEF Events, Alternating
  <2> QED
    BY <2>1, <2>2
<1>9. Alternating'
  BY <1>6, <1>8 DEF Alternating, Follows
<1> QED
  BY <1>2, <1>5, <1>9 DEF Events

(* A scan with the events that it has to publish. *)
LEMMA ScanTells ==
  ASSUME TypeOK, Events, NEW sample, Scan(sample),
         held' \subseteq Keys, publishing' = Changes(held, held')
  PROVE  Events'
<1>1. /\ publishing = {} /\ now' = now + 1 /\ queue' = queue
      /\ \A k \in Keys : downSince'[k] = IF k \in held' \ held THEN now'
                                         ELSE downSince[k]
  BY DEF Scan, TypeOK, SamplerTypeOK
<1>2. ASSUME NEW e \in publishing'
      PROVE  /\ e.key \in Keys /\ (e.key \in held') # (e.key \in held)
             /\ e.pressed = (e.key \in held') /\ e.at = now'
             /\ e.since = downSince'[e.key]
             /\ e.pressed => e.since = e.at
             /\ e = EventOf(e.key, e.key \in held')
  <2>1. PICK k \in (held \ held') \cup (held' \ held) : e = EventOf(k, k \in held')
    BY DEF Changes
  <2>2. k \in Keys
    BY EventFacts
  <2>3. /\ e.key = k /\ e.pressed = (k \in held') /\ e.at = now'
        /\ e.since = IF k \in held' THEN now' ELSE downSince[k]
    BY <2>1 DEF EventOf
  <2> QED
    BY <1>1, <2>1, <2>2, <2>3
<1>3. ASSUME NEW k \in Keys, \A e \in publishing' : e.key # k
      PROVE  (k \in held' <=> k \in held) /\ downSince'[k] = downSince[k]
  <2>1. ASSUME k \in (held \ held') \cup (held' \ held) PROVE FALSE
    <3>1. EventOf(k, k \in held') \in publishing'
      BY <2>1 DEF Changes
    <3> QED
      BY <1>3, <3>1 DEF EventOf
  <2> QED
    BY <1>1, <2>1
<1>4. Published'
  BY <1>2 DEF Published
<1>5. InTime'
  <2>1. ASSUME NEW k \in Keys
        PROVE  downSince'[k] <= now' /\ downSince[k] <= downSince'[k]
    BY <1>1, EventFacts DEF Events, InTime
  <2>2. \A i \in DOMAIN queue : queue[i].since <= downSince'[queue[i].key]
    BY <2>1, <1>1, EventFacts DEF Events, InTime
  <2>3. \A i \in DOMAIN queue : queue[i].at <= now'
    BY <1>1, EventFacts DEF Events, InTime
  <2> QED
    BY <1>1, <2>1, <2>2, <2>3 DEF Events, InTime
<1>6. ASSUME NEW i \in DOMAIN queue, LastInQueue(i)
      PROVE  /\ queue[i].key \in Keys
             /\ queue[i].key \in held <=> queue[i].pressed
             /\ queue[i].pressed => downSince[queue[i].key] = queue[i].at
  BY <1>1, <1>6, EventFacts DEF Events, Alternating
<1>7. ASSUME NEW i \in DOMAIN queue, LastInQueue(i), NEW e \in publishing',
             e.key = queue[i].key
      PROVE  Follows(queue[i], e)
  <2>1. e.pressed # queue[i].pressed
    BY <1>2, <1>6, <1>7, EventFacts
  <2>2. queue[i].pressed => e.since = queue[i].at
    BY <1>1, <1>2, <1>6, <1>7
  <2> QED
    BY <2>1, <2>2 DEF Follows
<1>8. Alternating'
  BY <1>1, <1>3, <1>6, <1>7 DEF Events, Alternating, LastInQueue, Follows
<1> QED
  BY <1>4, <1>5, <1>8 DEF Events

LEMMA EventsUnchanged ==
  ASSUME Events, UNCHANGED <<now, held, downSince, publishing, queue>>
  PROVE  Events'
BY DEF Events, Published, InTime, Alternating, LastInQueue, Follows
-----------------------------------------------------------------------------
(* The gestures *)

Core == PressIsPast /\ ReleaseIsNext

(* Without its oldest event, the queue still holds what the core waits for,
   unless that event was one of the primary key. *)
LEMMA CoreHeadGone ==
  ASSUME TypeOK, Core, queue # <<>>, queue' = Tail(queue),
         ~IsPrimary(Head(queue)) \/ lost',
         UNCHANGED <<held, downSince, publishing, pressed, pressedAt>>,
         lost => lost'
  PROVE  Core'
<1>1. /\ DOMAIN queue' = 1..(Len(queue) - 1) /\ DOMAIN queue = 1..Len(queue)
      /\ \A i \in DOMAIN queue' : i + 1 \in DOMAIN queue /\ queue'[i] = queue[i + 1]
      /\ Len(queue) \in Nat /\ Head(queue) = queue[1]
  BY EventFacts, TailFacts
<1>2. PressIsPast'
  BY <1>1 DEF Core, PressIsPast, IsPrimary
<1>3. ASSUME pressed', ~lost'
      PROVE  /\ pressed /\ ~lost /\ queue[1].key # Primary
             /\ \A j \in DOMAIN queue : j = 1 \/ (j - 1 \in DOMAIN queue'
                                                  /\ queue[j] = queue'[j - 1])
  BY <1>1, <1>3 DEF IsPrimary
<1>4. ASSUME pressed', ~lost', NEW i \in DOMAIN queue', IsPrimary(queue'[i]),
             \A j \in DOMAIN queue' : j < i => ~IsPrimary(queue'[j])
      PROVE  ReleaseOf(queue[i + 1])
  <2>1. ASSUME NEW j \in DOMAIN queue, j < i + 1 PROVE ~IsPrimary(queue[j])
    <3>1. CASE j = 1
      BY <1>3, <1>4, <3>1 DEF IsPrimary
    <3>2. CASE j # 1
      <4>1. j - 1 \in DOMAIN queue' /\ queue[j] = queue'[j - 1]
        BY <1>3, <1>4, <3>2
      <4>2. j - 1 < i
        BY <1>1, <2>1
      <4> QED
        BY <1>4, <4>1, <4>2
    <3> QED
      BY <3>1, <3>2
  <2> QED
    BY <1>1, <1>3, <1>4, <2>1 DEF Core, ReleaseIsNext
<1>5. pressed' /\ ~lost' /\ NoneInQueue' => NoneInQueue
  BY <1>1, <1>3 DEF NoneInQueue, IsPrimary
<1>6. ReleaseIsNext'
  BY <1>1, <1>3, <1>4, <1>5 DEF Core, ReleaseIsNext, ReleaseOf, NoneInQueue, IsPrimary
<1> QED
  BY <1>2, <1>6 DEF Core

LEMMA CoreSent ==
  ASSUME TypeOK, Events, Core, NEW e \in publishing,
         queue' = Append(queue, e), publishing' = publishing \ {e},
         UNCHANGED <<held, downSince, pressed, pressedAt, lost>>
  PROVE  Core'
<1> DEFINE n == Len(queue)
<1>1. /\ DOMAIN queue' = 1..(n + 1) /\ DOMAIN queue = 1..n /\ n \in Nat
      /\ \A i \in DOMAIN queue : i \in DOMAIN queue' /\ queue'[i] = queue[i]
      /\ queue'[n + 1] = e
  BY EventFacts, AppendFacts
<1> HIDE DEF n
<1>2. /\ e.since = downSince[e.key]
      /\ \A f \in publishing' : f.key # e.key
  BY DEF Events, Published
<1>3. PressIsPast'
  <2>1. SUFFICES ASSUME pressed, NEW i \in DOMAIN queue', IsPrimary(queue'[i])
                 PROVE  pressedAt <= queue'[i].since
    BY DEF Core, PressIsPast, IsPrimary
  <2>2. CASE i = n + 1
    BY <1>1, <1>2, <2>1, <2>2 DEF Core, PressIsPast, IsPrimary
  <2>3. CASE i # n + 1
    <3>1. i \in DOMAIN queue
      BY <1>1, <2>3
    <3> QED
      BY <1>1, <2>1, <3>1 DEF Core, PressIsPast
  <2> QED
    BY <2>2, <2>3
<1>4. ASSUME pressed, ~lost, NEW i \in DOMAIN queue', IsPrimary(queue'[i]),
             \A j \in DOMAIN queue' : j < i => ~IsPrimary(queue'[j])
      PROVE  ReleaseOf(queue'[i])
  <2>1. CASE i = n + 1
    <3>1. ASSUME NEW j \in DOMAIN queue PROVE ~IsPrimary(queue[j])
      <4>1. j \in DOMAIN queue' /\ j < i /\ queue'[j] = queue[j]
        BY <1>1, <2>1
      <4> QED
        BY <1>4, <4>1
    <3> QED
      BY <1>1, <1>4, <2>1, <3>1 DEF Core, ReleaseIsNext, NoneInQueue
  <2>2. CASE i # n + 1
    <3>1. i \in DOMAIN queue /\ queue'[i] = queue[i]
      BY <1>1, <2>2
    <3>2. \A j \in DOMAIN queue : j < i => ~IsPrimary(queue[j])
      BY <1>1, <1>4
    <3> QED
      BY <1>4, <3>1, <3>2 DEF Core, ReleaseIsNext
  <2> QED
    BY <2>1, <2>2
<1>5. NoneInQueue' => NoneInQueue /\ ~IsPrimary(e)
  <2>1. SUFFICES ASSUME NoneInQueue' PROVE NoneInQueue /\ ~IsPrimary(e)
    OBVIOUS
  <2>2. \A i \in DOMAIN queue' : ~IsPrimary(queue'[i])
    BY <2>1 DEF NoneInQueue, IsPrimary
  <2>3. n + 1 \in DOMAIN queue'
    BY <1>1
  <2> QED
    BY <1>1, <2>2, <2>3 DEF NoneInQueue
<1>6. ReleaseIsNext'
  BY <1>4, <1>5 DEF Core, ReleaseIsNext, ReleaseOf, NoneInQueue, IsPrimary
<1> QED
  BY <1>3, <1>6 DEF Core

LEMMA CoreScanned ==
  ASSUME TypeOK, Events, Events', Core, publishing = {},
         now' = now + 1, queue' = queue,
         \A k \in Keys : downSince'[k] = IF k \in held' \ held THEN now'
                                         ELSE downSince[k],
         \A e \in publishing' :
           \/ ~e.pressed /\ e.key \in held /\ e.since = downSince[e.key]
           \/ e.pressed /\ e.key \notin held,
         \A k \in Keys : (\A e \in publishing' : e.key # k)
                           => (k \in held' <=> k \in held),
         UNCHANGED <<pressed, pressedAt, lost>>
  PROVE  Core'
<1>1. Primary \in Keys
  BY InputAssumption
<1>2. downSince[Primary] <= now /\ now \in Int
  BY <1>1, EventFacts DEF Events, InTime
<1>3. PressIsPast'
  <2>1. downSince[Primary] <= downSince'[Primary]
    BY <1>1, <1>2, EventFacts
  <2>2. downSince'[Primary] \in Int /\ downSince[Primary] \in Int
    BY <1>1, <1>2, EventFacts
  <2>3. pressed => pressedAt <= downSince'[Primary]
    BY <2>1, <2>2, SamplerAssumption DEF Core, PressIsPast, TypeOK, Times
  <2> QED
    BY <2>3 DEF Core, PressIsPast, IsPrimary
<1>4. ASSUME pressed, ~lost, NoneInQueue
      PROVE  /\ Primary \in held /\ downSince[Primary] = pressedAt
             /\ \A e \in publishing' : IsPrimary(e) => ReleaseOf(e)
  BY <1>4 DEF Core, ReleaseIsNext, ReleaseOf, IsPrimary
<1>5. ASSUME pressed, ~lost, NoneInQueue, \A e \in publishing' : ~IsPrimary(e)
      PROVE  Primary \in held' /\ downSince'[Primary] = pressedAt
  BY <1>1, <1>4, <1>5 DEF IsPrimary
<1>6. ReleaseIsNext'
  BY <1>4, <1>5 DEF Core, ReleaseIsNext, ReleaseOf, NoneInQueue, IsPrimary
<1> QED
  BY <1>3, <1>6 DEF Core

(* A press is taken: its release is what comes next. *)
LEMMA CorePressed ==
  ASSUME TypeOK, Events, TakePress
  PROVE  Core'
<1>1. queue # <<>> /\ queue' = Tail(queue)
      /\ UNCHANGED <<held, downSince, publishing>>
  BY DEF TakePress, Take, scanVars
<1>2. /\ DOMAIN queue' = 1..(Len(queue) - 1) /\ DOMAIN queue = 1..Len(queue)
      /\ \A i \in DOMAIN queue' : i + 1 \in DOMAIN queue /\ queue'[i] = queue[i + 1]
      /\ Len(queue) \in Nat /\ Len(queue) > 0 /\ Head(queue) = queue[1]
  BY <1>1, EventFacts, TailFacts
<1>3. /\ 1 \in DOMAIN queue /\ queue[1].key = Primary /\ queue[1].pressed
      /\ pressedAt' = queue[1].at /\ pressed' = TRUE /\ lost' = FALSE
  BY <1>2 DEF TakePress, IsPrimary, PressStart
<1>4. pressedAt' = queue[1].since /\ queue[1].since <= downSince[Primary]
  BY <1>3 DEF Events, InTime
<1>5. PressIsPast'
  <2>1. ASSUME NEW i \in DOMAIN queue', IsPrimary(queue'[i])
        PROVE  pressedAt' <= queue'[i].since
    <3>1. i + 1 \in DOMAIN queue /\ 1 < i + 1 /\ queue[i + 1].key = queue[1].key
      BY <1>2, <1>3, <2>1 DEF IsPrimary
    <3> QED
      BY <1>2, <1>3, <1>4, <3>1 DEF Events, InTime
  <2> QED
    BY <1>1, <1>4, <2>1 DEF PressIsPast, IsPrimary
<1>6. ASSUME NEW i \in DOMAIN queue', IsPrimary(queue'[i]),
             \A j \in DOMAIN queue' : j < i => ~IsPrimary(queue'[j])
      PROVE  ~queue'[i].pressed /\ queue'[i].since = pressedAt'
  <2>1. i + 1 \in DOMAIN queue /\ 1 < i + 1 /\ queue[i + 1].key = queue[1].key
    BY <1>2, <1>3, <1>6 DEF IsPrimary
  <2>2. ASSUME NEW m \in DOMAIN queue, 1 < m, m < i + 1
        PROVE  queue[m].key # queue[1].key
    <3>1. m - 1 \in DOMAIN queue' /\ m - 1 < i /\ (m - 1) + 1 = m
      BY <1>2, <1>6, <2>2
    <3> QED
      BY <1>2, <1>3, <1>6, <3>1 DEF IsPrimary
  <2>3. Follows(queue[1], queue[i + 1])
    BY <1>3, <2>1, <2>2 DEF Events, Alternating
  <2> QED
    BY <1>2, <1>3, <2>1, <2>3, EventFacts DEF Follows
<1>7. NoneInQueue' => LastInQueue(1)
  <2>1. SUFFICES ASSUME NoneInQueue', NEW m \in DOMAIN queue, 1 < m
                 PROVE  queue[m].key # queue[1].key
    BY DEF LastInQueue
  <2>2. m - 1 \in DOMAIN queue' /\ (m - 1) + 1 = m
    BY <1>2, <2>1
  <2> QED
    BY <1>2, <1>3, <2>1, <2>2 DEF NoneInQueue, IsPrimary
<1>8. LastInQueue(1) =>
        /\ \A e \in publishing : IsPrimary(e) => Follows(queue[1], e)
        /\ (\A e \in publishing : ~IsPrimary(e)) =>
              Primary \in held /\ downSince[Primary] = queue[1].at
  BY <1>3 DEF Events, Alternating, IsPrimary
<1>9. \A e \in publishing : Follows(queue[1], e) => ReleaseOf(e)'
  BY <1>3, EventFacts DEF Follows, ReleaseOf
<1>10. ReleaseIsNext'
  BY <1>1, <1>3, <1>6, <1>7, <1>8, <1>9
  DEF ReleaseIsNext, ReleaseOf, NoneInQueue, IsPrimary
<1> QED
  BY <1>5, <1>10 DEF Core

LEMMA CoreNotPressed ==
  ASSUME pressed' = FALSE PROVE Core'
BY DEF Core, PressIsPast, ReleaseIsNext

(* What the core makes of a release. *)
LEMMA ReleaseTakenTrue ==
  ASSUME TypeOK, Events, Core, TakeRelease
  PROVE  GestureTrue'
<1>1. CASE ~pressed
  BY <1>1 DEF TakeRelease, GestureTrue, NoGesture
<1>2. CASE pressed
  <2> DEFINE e == Head(queue)
  <2>1. /\ e = queue[1] /\ 1 \in DOMAIN queue /\ IsPrimary(queue[1])
        /\ \A j \in DOMAIN queue : ~(j < 1)
    BY EventFacts, TailFacts DEF TakeRelease, Take
  <2>2. /\ pressedAt <= e.since /\ e.since <= e.at
        /\ ~lost => e.since = pressedAt
    BY <1>2, <2>1
    DEF Core, PressIsPast, ReleaseIsNext, ReleaseOf, Events, InTime
  <2>3. e.at \in Int /\ e.since \in Int /\ pressedAt \in Int
    BY <2>1, EventFacts, SamplerAssumption DEF TypeOK, Times
  <2>4. /\ gesture' = [long |-> Held(e) >= LongPress,
                       reallyLong |-> e.at - e.since >= LongPress,
                       lost |-> lost]
        /\ Held(e) = e.at - pressedAt
    BY <1>2, <2>2, <2>3 DEF TakeRelease, Held
  <2>5. /\ gesture'.long <=> Held(e) >= LongPress
        /\ gesture'.reallyLong <=> e.at - e.since >= LongPress
        /\ gesture'.lost = lost
        /\ gesture'.long \in BOOLEAN /\ gesture'.reallyLong \in BOOLEAN
    <3> DEFINE long == Held(e) >= LongPress
               reallyLong == e.at - e.since >= LongPress
    <3>1. long \in BOOLEAN /\ reallyLong \in BOOLEAN
      OBVIOUS
    <3>2. gesture' = [long |-> long, reallyLong |-> reallyLong, lost |-> lost]
      BY <2>4
    <3> HIDE DEF long, reallyLong
    <3>3. /\ gesture'.long = long /\ gesture'.reallyLong = reallyLong
          /\ gesture'.lost = lost
      BY <3>2
    <3> QED
      BY <3>1, <3>3 DEF long, reallyLong
  <2>6. gesture'.reallyLong => gesture'.long
    BY <2>2, <2>3, <2>4, <2>5, InputAssumption
  <2>7. ~lost => gesture'.reallyLong = gesture'.long
    BY <2>2, <2>3, <2>4, <2>5, InputAssumption
  <2> QED
    BY <2>5, <2>6, <2>7 DEF GestureTrue
<1> QED
  BY <1>1, <1>2 DEF TypeOK
-----------------------------------------------------------------------------
(* All together *)

LEMMA ScanStep ==
  ASSUME IInv, NEW sample \in Samples,
         ScanLp001(sample) \/ ScanLp003(sample),
         UNCHANGED <<coreVars, lost>>, TypeOK'
  PROVE  Counting' /\ Events' /\ Core' /\ GestureTrue'
<1>1. Counting'
  BY CountStepLp001, CountStepLp003 DEF IInv
<1>2. /\ Scan(sample) /\ publishing' = Changes(held, held')
      /\ held' \subseteq Keys
  BY DEF ScanLp001, ScanLp003, TypeOK, SamplerTypeOK
<1>3. Events'
  BY <1>2, ScanTells DEF IInv, Events
<1>4. /\ publishing = {} /\ now' = now + 1 /\ queue' = queue
      /\ \A k \in Keys : downSince'[k] = IF k \in held' \ held THEN now'
                                         ELSE downSince[k]
  BY <1>2 DEF Scan, IInv, TypeOK, SamplerTypeOK
<1>5. ASSUME NEW e \in publishing'
      PROVE  \/ ~e.pressed /\ e.key \in held /\ e.since = downSince[e.key]
             \/ e.pressed /\ e.key \notin held
  <2>1. PICK k \in (held \ held') \cup (held' \ held) : e = EventOf(k, k \in held')
    BY <1>2 DEF Changes
  <2>2. /\ e.key = k /\ e.pressed = (k \in held')
        /\ k \notin held' => e.since = downSince[k]
    BY <2>1 DEF EventOf
  <2> QED
    BY <2>1, <2>2
<1>6. ASSUME NEW k \in Keys, \A e \in publishing' : e.key # k
      PROVE  k \in held' <=> k \in held
  <2>1. ASSUME k \in (held \ held') \cup (held' \ held) PROVE FALSE
    <3>1. EventOf(k, k \in held') \in publishing'
      BY <1>2, <2>1 DEF Changes
    <3> QED
      BY <1>6, <3>1 DEF EventOf
  <2> QED
    BY <2>1
<1>7. Core'
  BY <1>3, <1>4, <1>5, <1>6, CoreScanned DEF IInv, Events, Core, coreVars
<1> QED
  BY <1>1, <1>3, <1>7 DEF IInv, GestureTrue, coreVars

LEMMA InitIInv == Init => IInv
<1> SUFFICES ASSUME Init PROVE IInv
  OBVIOUS
<1>1. /\ queue = <<>> /\ publishing = {} /\ window = <<>> /\ held = {}
      /\ matching = [k \in Keys |-> 0] /\ downSince = [k \in Keys |-> 0]
      /\ now = 0 /\ pressed = FALSE /\ gesture = NoGesture
      /\ Len(window) = 0 /\ DOMAIN queue = {}
  BY EmptySeq DEF Init, SamplerInit
<1>2. Counting
  BY <1>1 DEF Counting
<1>3. Published /\ InTime /\ Alternating
  BY <1>1 DEF Published, InTime, Alternating
<1> QED
  BY <1>1, <1>2, <1>3, InitTyped
  DEF IInv, PressIsPast, ReleaseIsNext, GestureTrue, NoGesture

LEMMA RestartIInv == Restart /\ TypeOK' => IInv'
<1> SUFFICES ASSUME Restart, TypeOK' PROVE IInv'
  OBVIOUS
<1>1. /\ queue' = <<>> /\ publishing' = {} /\ window' = <<>> /\ held' = {}
      /\ matching' = [k \in Keys |-> 0] /\ downSince' = [k \in Keys |-> 0]
      /\ now' = 0 /\ pressed' = FALSE /\ gesture' = NoGesture
      /\ Len(window') = 0 /\ DOMAIN queue' = {}
  BY EmptySeq DEF Restart
<1>2. Counting'
  BY <1>1 DEF Counting
<1>3. Published' /\ InTime' /\ Alternating'
  BY <1>1 DEF Published, InTime, Alternating
<1> QED
  BY <1>1, <1>2, <1>3
  DEF IInv, PressIsPast, ReleaseIsNext, GestureTrue, NoGesture

LEMMA StepIInv == IInv /\ [Next]_vars => IInv'
<1> SUFFICES ASSUME IInv, [Next]_vars PROVE IInv'
  OBVIOUS
<1>t. TypeOK /\ TypeOK'
  BY StepTyped DEF IInv
<1>i. /\ Counting /\ Events /\ Core /\ GestureTrue
      /\ Counting' /\ Events' /\ Core' /\ GestureTrue' => IInv'
  BY <1>t DEF IInv, Events, Core
<1>1. ASSUME NEW sample \in Samples, ScanLp001(sample) \/ ScanLp003(sample),
             UNCHANGED <<coreVars, lost>>
      PROVE  IInv'
  BY <1>1, <1>t, <1>i, ScanStep
<1>2. ASSUME ScanUnreadable, UNCHANGED <<coreVars, lost>> PROVE IInv'
  <2>1. /\ publishing = {} /\ publishing' = publishing /\ now' = now + 1
        /\ UNCHANGED <<held, downSince, queue, coreVars, lost>>
    BY <1>2 DEF ScanUnreadable
  <2>2. Counting'
    BY <1>2, CountStepUnreadable
  <2>3. Events'
    <3>1. Published' /\ Alternating'
      BY <1>i, <2>1 DEF Events, Published, Alternating, LastInQueue, Follows
    <3>2. InTime'
      BY <1>i, <1>t, <2>1, EventFacts DEF Events, InTime
    <3> QED
      BY <3>1, <3>2 DEF Events
  <2>4. Core'
    BY <1>i, <2>1
    DEF Core, PressIsPast, ReleaseIsNext, ReleaseOf, NoneInQueue, IsPrimary,
        coreVars
  <2>5. GestureTrue'
    BY <1>i, <2>1 DEF GestureTrue, coreVars
  <2> QED
    BY <1>i, <2>2, <2>3, <2>4, <2>5
<1>3. ASSUME Send, UNCHANGED <<coreVars, lost>> PROVE IInv'
  <2>1. PICK e \in publishing : /\ queue' = Append(queue, e)
                                /\ publishing' = publishing \ {e}
    BY <1>3 DEF Send
  <2>2. /\ UNCHANGED <<profile, now, held, candidate, matching, downSince, window>>
        /\ UNCHANGED <<pressed, pressedAt, gesture, lost>>
    BY <1>3 DEF Send, scanVars, coreVars
  <2>3. Counting'
    BY <1>i, <2>2, CountUnchanged
  <2>4. Events'
    BY <1>t, <1>i, <2>1, <2>2, SentOne
  <2>5. Core'
    BY <1>t, <1>i, <2>1, <2>2, CoreSent
  <2> QED
    BY <1>i, <2>2, <2>3, <2>4, <2>5 DEF GestureTrue
<1>4. ASSUME \/ FindFull /\ UNCHANGED <<coreVars, lost>>
             \/ AppReplaced \/ UNCHANGED vars
      PROVE  IInv'
  <2>1. /\ UNCHANGED <<profile, now, held, candidate, matching, downSince, window>>
        /\ UNCHANGED <<publishing, queue, gesture>>
        /\ pressed' = FALSE \/ UNCHANGED <<pressed, pressedAt, lost>>
    BY <1>4
    DEF FindFull, AppReplaced, vars, samplerVars, scanVars, coreVars
  <2>2. Counting'
    BY <1>i, <2>1, CountUnchanged
  <2>3. Events'
    BY <1>i, <2>1, EventsUnchanged
  <2>4. Core'
    <3>1. CASE pressed' = FALSE
      BY <3>1, CoreNotPressed
    <3>2. CASE UNCHANGED <<pressed, pressedAt, lost>>
      BY <1>i, <2>1, <3>2
      DEF Core, PressIsPast, ReleaseIsNext, ReleaseOf, NoneInQueue, IsPrimary
    <3> QED
      BY <2>1, <3>1, <3>2
  <2> QED
    BY <1>i, <2>1, <2>2, <2>3, <2>4 DEF GestureTrue
<1>5. ASSUME DriverDrops \/ TakeOther \/ TakePress \/ TakeRelease PROVE IInv'
  <2>1. /\ UNCHANGED <<profile, now, held, candidate, matching, downSince, window>>
        /\ UNCHANGED publishing
        /\ queue' = IF queue = <<>> THEN <<>> ELSE Tail(queue)
    BY <1>5
    DEF DriverDrops, Drop, WithoutOldest, TakeOther, TakePress, TakeRelease,
        Take, scanVars
  <2>2. Counting'
    BY <1>i, <2>1, CountUnchanged
  <2>3. Events'
    <3>1. CASE queue = <<>>
      BY <1>i, <2>1, <3>1, EventsUnchanged
    <3>2. CASE queue # <<>>
      BY <1>t, <1>i, <2>1, <3>2, HeadGone
    <3> QED
      BY <3>1, <3>2
  <2>4. Core'
    <3>1. CASE TakePress
      BY <1>t, <1>i, <3>1, CorePressed
    <3>2. CASE TakeRelease
      BY <3>2, CoreNotPressed DEF TakeRelease
    <3>3. CASE TakeOther
      BY <1>t, <1>i, <2>1, <3>3, CoreHeadGone DEF TakeOther, Take, coreVars
    <3>4. CASE DriverDrops
      <4>1. UNCHANGED <<pressed, pressedAt>> /\ (lost => lost')
            /\ (queue # <<>> => ~IsPrimary(Head(queue)) \/ lost')
        BY <3>4 DEF DriverDrops, coreVars, IsPrimary
      <4>2. CASE queue = <<>>
        <5>1. queue' = queue /\ lost' = lost
          BY <2>1, <3>4, <4>2 DEF DriverDrops, IInv, TypeOK
        <5> QED
          BY <1>i, <2>1, <4>1, <5>1
          DEF Core, PressIsPast, ReleaseIsNext, ReleaseOf, NoneInQueue, IsPrimary
      <4>3. CASE queue # <<>>
        BY <1>t, <1>i, <2>1, <4>1, <4>3, CoreHeadGone
      <4> QED
        BY <4>2, <4>3
    <3> QED
      BY <1>5, <3>1, <3>2, <3>3, <3>4
  <2>5. GestureTrue'
    <3>1. CASE TakeRelease
      BY <1>t, <1>i, <3>1, ReleaseTakenTrue
    <3>2. CASE TakePress
      BY <3>2 DEF TakePress, GestureTrue, NoGesture
    <3>3. CASE DriverDrops \/ TakeOther
      BY <1>i, <3>3 DEF DriverDrops, TakeOther, coreVars, GestureTrue
    <3> QED
      BY <1>5, <3>1, <3>2, <3>3
  <2> QED
    BY <1>i, <2>2, <2>3, <2>4, <2>5
<1>6. CASE Restart
  BY <1>6, <1>t, RestartIInv
<1> QED
  BY <1>1, <1>2, <1>3, <1>4, <1>5, <1>6 DEF Next, Driver

(* IInv is an invariant: every state the drivers and the key queue of the core
   can reach, with restarts (lp003.c:161-186, :334-356; pb_hal.c). *)
THEOREM Invariance == Spec => []IInv
BY InitIInv, StepIInv, PTL DEF Spec

(* The keys, samples, counters, times and queues of both drivers, and the
   press that the core has seen, are what their declarations say; the queue
   never holds more than it has places, also with a drop half done
   (lp001.c:194-211, lp003.c:280-293, pb_runtime.c:435-462). *)
THEOREM TypeCorrect == Spec => []TypeOK
<1>1. IInv => TypeOK
  BY DEF IInv
<1> QED
  BY <1>1, Invariance, PTL

(* A key changes exactly in the scan in which the last StableSamples readable
   samples agree on it; no single sample, and no run of samples interrupted by
   an unreadable one, changes a key (lp003.c:295-343, lp001.c:305-356). *)
THEOREM KeysAreDebounced == Spec => Debounced
<1>1. TypeOK /\ Counting => FullMeansAgreed
  BY FullCounter DEF FullMeansAgreed
<1>2. IInv /\ IInv' /\ [Next]_vars => DebouncedStep
  <2>1. IInv' => FullMeansAgreed'
    BY <1>1, PTL DEF IInv
  <2> QED
    BY <2>1, StepDebounces DEF IInv
<1>3. Spec => [][DebouncedStep]_vars
  BY <1>2, Invariance, PTL DEF Spec
<1> QED
  BY <1>3 DEF Debounced, DebouncedStep

(* The last event of a key that is still on its way tells the present state of
   that key, whatever was dropped before it (lp003.c:280-293,
   lp001.c:194-211). *)
THEOREM EventsEndWithTheTruth == Spec => []LastEventIsState
<1>1. IInv => LastEventIsState
  <2> SUFFICES ASSUME IInv PROVE LastEventIsState
    OBVIOUS
  <2>1. \A e \in publishing : e.key \in held <=> e.pressed
    BY DEF IInv, Published
  <2>2. ASSUME NEW i \in DOMAIN queue,
               \A e \in {queue[j] : j \in (i + 1)..Len(queue)} \cup publishing :
                 e.key # queue[i].key
        PROVE  queue[i].key \in held <=> queue[i].pressed
    <3>1. LastInQueue(i)
      <4>1. SUFFICES ASSUME NEW j \in DOMAIN queue, i < j
                     PROVE  queue[j].key # queue[i].key
        BY DEF LastInQueue
      <4>2. j \in (i + 1)..Len(queue)
        BY <4>1, EventFacts DEF IInv
      <4> QED
        BY <2>2, <4>2
    <3> QED
      BY <2>2, <3>1 DEF IInv, Alternating
  <2> QED
    BY <2>1, <2>2 DEF LastEventIsState
<1> QED
  BY <1>1, Invariance, PTL

(* A gesture is as long as the press was; only after a dropped event of the
   primary key may a short press be called long, and never the other way round
   (handle_primary_input, pb_runtime.c:435-462). *)
THEOREM GesturesAreTrue == Spec => []GestureTrue
<1>1. IInv => GestureTrue
  BY DEF IInv
<1> QED
  BY <1>1, Invariance, PTL
===============================================================================
