------------------------ MODULE NetworkScheduleProofs ------------------------
(***************************************************************************)
(* For every tick range, interval and delay: a lost connection is not      *)
(* forgotten before 404 has been shown (LossRemembered), and deadlines are *)
(* read by true time but for two cases (DecidesByTrueTime).                *)
(***************************************************************************)
EXTENDS NetworkSchedule, SequenceTheorems, TLAPS

(* What the event loop's queue can hold in each state of the station: the
   station does nothing before its last event has been handled, except that it
   may lose the connection before its address has been reported. *)
StationInv ==
  \/ link = "off" /\ wifiEvents = <<"start">> /\ ~handling
  \/ link = "off" /\ wifiEvents = <<"disconnected">>
  \/ link = "off" /\ wifiEvents = <<"got_ip", "disconnected">> /\ ~handling
  \/ link = "connecting" /\ wifiEvents = <<>> /\ ~handling
  \/ link = "up" /\ wifiEvents = <<"got_ip">> /\ ~handling
  \/ link = "up" /\ wifiEvents = <<>> /\ had /\ ~handling

WithHandler ==
  \/ wifiEvents = <<"disconnected">> /\ had
  \/ wifiEvents = <<"got_ip", "disconnected">>

LossInv == unseen => WithHandler \/ pending \/ pc \in {"clear", "show"}

IInv == StationInv /\ LossInv

(* Queues of at most two events. *)
LEMMA AppendToOne ==
  ASSUME NEW a, NEW b
  PROVE  Append(<<a>>, b) = <<a, b>>
<1> DEFINE S == {a, b}
           s == Append(<<a>>, b)
<1>0. a \in S /\ b \in S
  OBVIOUS
<1> HIDE DEF S
<1>1. <<a>> \in Seq(S) /\ Len(<<a>>) = 1 /\ <<a>>[1] = a
  BY <1>0
<1>2. s \in Seq(S) /\ Len(s) = 2 /\ s[1] = a /\ s[2] = b
  BY <1>0, <1>1, AppendProperties
<1>3. /\ <<a, b>> \in Seq(S) /\ Len(<<a, b>>) = 2
      /\ <<a, b>>[1] = a /\ <<a, b>>[2] = b
  BY <1>0
<1>4. \A i \in 1..2 : i = 1 \/ i = 2
  OBVIOUS
<1> HIDE DEF s
<1>5. s = <<a, b>>
  BY <1>2, <1>3, <1>4, SeqEqual
<1> QED BY <1>5 DEF s

LEMMA ShortQueues ==
  /\ \A a : Head(<<a>>) = a /\ Tail(<<a>>) = <<>> /\ Append(<<>>, a) = <<a>>
  /\ \A a, b : Head(<<a, b>>) = a /\ Tail(<<a, b>>) = <<b>>
  /\ Append(<<"got_ip">>, "disconnected") = <<"got_ip", "disconnected">>
<1>1. \A a : Head(<<a>>) = a
  OBVIOUS
<1>2. \A a : Tail(<<a>>) = <<>>
  OBVIOUS
<1>3. \A a, b : Tail(<<a, b>>) = <<b>>
  OBVIOUS
<1>4. \A a : Append(<<>>, a) = <<a>>
  OBVIOUS
<1>5. \A a, b : Head(<<a, b>>) = a
  OBVIOUS
<1>6. Append(<<"got_ip">>, "disconnected") = <<"got_ip", "disconnected">>
  BY AppendToOne
<1> QED BY <1>1, <1>2, <1>3, <1>4, <1>5, <1>6

(* When the address is handled, the station is up or has been lost since. *)
LEMMA AddressReported ==
  ASSUME StationInv, GotIp
  PROVE  /\ ~handling
         /\ \/ link = "up" /\ wifiEvents = <<"got_ip">> /\ wifiEvents' = <<>>
            \/ /\ link = "off" /\ wifiEvents = <<"got_ip", "disconnected">>
               /\ wifiEvents' = <<"disconnected">>
<1> USE ShortQueues DEF GotIp
<1>1. wifiEvents # <<"start">> /\ wifiEvents # <<"disconnected">>
  OBVIOUS
<1>2. CASE link = "up" /\ wifiEvents = <<"got_ip">> /\ ~handling
  BY <1>2
<1>3. CASE /\ link = "off" /\ wifiEvents = <<"got_ip", "disconnected">>
           /\ ~handling
  BY <1>3
<1> QED BY <1>1, <1>2, <1>3 DEF StationInv

(* The station's queue has the shape that StationInv lists after every step
   (main.c:26-51). *)
LEMMA StationStep == StationInv /\ [Next]_vars => StationInv'
<1> SUFFICES ASSUME StationInv, [Next]_vars PROVE StationInv'
  OBVIOUS
<1> USE DEF StationInv
<1>1. CASE Core
  <2>1. UNCHANGED wifiVars
    BY <1>1 DEF Core, StateResult, EventFails, EventDelivered, ReceiveDone,
      TestPending, ClearPending, ShowOffline, TimerFinishes,
      ScheduleNetworkWork, NoInput, Gesture, Goto, NextIteration
  <2> QED BY <2>1 DEF wifiVars
<1>2. CASE Tick
  BY <1>2 DEF Tick, wifiVars
<1>3. CASE Associates
  BY <1>3, ShortQueues DEF Associates
<1>4. CASE LinkLost
  BY <1>4, ShortQueues DEF LinkLost
<1>5. CASE Started
  BY <1>5, ShortQueues DEF Started
<1>6. CASE GotIp
  BY <1>6, AddressReported DEF GotIp
<1>7. CASE ClearBit
  BY <1>7, ShortQueues DEF ClearBit
<1>8. CASE NoteLoss
  BY <1>8, ShortQueues DEF NoteLoss
<1>9. CASE UNCHANGED vars
  BY <1>9 DEF vars, wifiVars
<1> QED
  BY <1>1, <1>2, <1>3, <1>4, <1>5, <1>6, <1>7, <1>8, <1>9 DEF Next, EventTask

(* A loss stays with the handler, in the flag or with the core
   (main.c:37-40,142-145). *)
LEMMA LossStep == IInv /\ [Next]_vars => LossInv'
<1> SUFFICES ASSUME StationInv, LossInv, [Next]_vars PROVE LossInv'
  BY DEF IInv
<1> USE DEF LossInv, WithHandler
<1>1. CASE Core
  <2>1. UNCHANGED wifiVars
    BY <1>1 DEF Core, StateResult, EventFails, EventDelivered, ReceiveDone,
      TestPending, ClearPending, ShowOffline, TimerFinishes,
      ScheduleNetworkWork, NoInput, Gesture, Goto, NextIteration
  <2>2. WithHandler' = WithHandler
    BY <2>1 DEF wifiVars
  <2>3. CASE StateResult \/ EventFails \/ EventDelivered \/ TimerFinishes
    BY <2>2, <2>3 DEF StateResult, EventFails, EventDelivered, TimerFinishes
  <2>4. CASE ReceiveDone \/ NoInput
    BY <2>2, <2>4 DEF ReceiveDone, NoInput, Goto, NextIteration
  <2>5. CASE TestPending
    BY <2>2, <2>5 DEF TestPending, Goto
  <2>6. CASE ClearPending
    BY <2>2, <2>6 DEF ClearPending, Goto
  <2>7. CASE ShowOffline
    BY <2>7 DEF ShowOffline
  <2>8. ASSUME NEW eventRoom \in BOOLEAN, NEW stateRoom \in BOOLEAN,
               ScheduleNetworkWork(eventRoom, stateRoom)
        PROVE  LossInv'
    BY <2>2, <2>8 DEF ScheduleNetworkWork, Goto
  <2>9. ASSUME NEW event \in BOOLEAN, Gesture(event) PROVE LossInv'
    BY <2>2, <2>9 DEF Gesture, NextIteration
  <2> QED
    BY <1>1, <2>3, <2>4, <2>5, <2>6, <2>7, <2>8, <2>9 DEF Core
<1>2. CASE Tick
  BY <1>2 DEF Tick, wifiVars
<1>3. CASE Associates
  BY <1>3, ShortQueues DEF Associates, StationInv, coreVars
<1>4. CASE LinkLost
  <2>1. CASE link = "connecting" /\ wifiEvents = <<>> /\ ~handling
    BY <1>4, <2>1, ShortQueues DEF LinkLost, coreVars
  <2>2. CASE link = "up" /\ wifiEvents = <<"got_ip">> /\ ~handling
    <3>1. wifiEvents' = <<"got_ip", "disconnected">>
      BY <1>4, <2>2, ShortQueues DEF LinkLost
    <3> QED BY <3>1
  <2>3. CASE link = "up" /\ wifiEvents = <<>> /\ had /\ ~handling
    <3>1. wifiEvents' = <<"disconnected">> /\ had'
      BY <1>4, <2>3, ShortQueues DEF LinkLost
    <3> QED BY <3>1
  <2>4. link # "off"
    BY <1>4 DEF LinkLost
  <2> QED BY <2>1, <2>2, <2>3, <2>4 DEF StationInv
<1>5. CASE Started
  BY <1>5, ShortQueues DEF Started, StationInv, coreVars
<1>6. CASE GotIp
  BY <1>6, AddressReported DEF GotIp, coreVars
<1>7. CASE ClearBit
  BY <1>7, ShortQueues DEF ClearBit, coreVars
<1>8. CASE NoteLoss
  BY <1>8, ShortQueues DEF NoteLoss, StationInv, coreVars
<1>9. CASE UNCHANGED vars
  BY <1>9 DEF vars, wifiVars
<1> QED
  BY <1>1, <1>2, <1>3, <1>4, <1>5, <1>6, <1>7, <1>8, <1>9 DEF Next, EventTask

(* A lost connection is with the handler, in the flag or with the core until
   404 has been shown for it, for all values of the constants
   (main.c:37-40,142-145, pb_runtime.c:570-578). *)
THEOREM LossIsRemembered == Spec => []LossRemembered
<1>1. Init => IInv
  BY DEF Init, IInv, StationInv, LossInv
<1>2. IInv /\ [Next]_vars => IInv'
  BY StationStep, LossStep DEF IInv
<1>3. IInv => LossRemembered
  <2> SUFFICES ASSUME IInv, WithHandler PROVE LossToBeNoted
    BY DEF IInv, LossInv, LossRemembered
  <2>1. CASE wifiEvents = <<"disconnected">> /\ had
    BY <2>1 DEF LossToBeNoted
  <2>2. CASE wifiEvents = <<"got_ip", "disconnected">>
    <3>1. /\ DOMAIN wifiEvents = 1..2
          /\ wifiEvents[2] = "disconnected"
          /\ wifiEvents[1] = "got_ip"
      BY <2>2
    <3> QED BY <3>1 DEF LossToBeNoted
  <2> QED BY <2>1, <2>2 DEF WithHandler
<1> QED
  BY <1>1, <1>2, <1>3, PTL DEF Spec
-----------------------------------------------------------------------------
(* Arithmetic of a counter with R values: what differs by a multiple of R has
   the same remainder. *)
LEMMA DivMod ==
  ASSUME NEW R \in Nat \ {0}, NEW a \in Int
  PROVE  /\ a % R \in 0..(R - 1) /\ a \div R \in Int
         /\ a = R * (a \div R) + (a % R)
OBVIOUS

LEMMA OneRemainder ==
  ASSUME NEW R \in Nat \ {0}, NEW p \in Int, NEW q \in Int,
         NEW r \in 0..(R - 1), NEW s \in 0..(R - 1), R * p + r = R * q + s
  PROVE  r = s
OBVIOUS

LEMMA Gather ==
  ASSUME NEW R \in Int, NEW p \in Int, NEW q \in Int, NEW r \in Int
  PROVE  (R * p + r) + R * q = R * (q + p) + r
OBVIOUS

LEMMA Wraps ==
  ASSUME NEW R \in Nat \ {0}, NEW a \in Int, NEW k \in Int
  PROVE  (a + R * k) % R = a % R
<1> DEFINE p == a \div R
           r == a % R
           b == a + R * k
<1>1. a = R * p + r /\ p \in Int /\ r \in 0..(R - 1)
  BY DivMod
<1>2. b \in Int
  OBVIOUS
<1>3. b = R * (b \div R) + (b % R) /\ b \div R \in Int /\ b % R \in 0..(R - 1)
  BY <1>2, DivMod
<1> HIDE DEF p, r
<1>4. b = R * (k + p) + r
  BY <1>1, Gather
<1>5. k + p \in Int
  BY <1>1
<1> HIDE DEF b
<1>6. b % R = r
  BY <1>1, <1>3, <1>4, <1>5, OneRemainder
<1> QED BY <1>6 DEF b, r

(* A remainder is the number itself, less a multiple of R. *)
LEMMA Reduced ==
  ASSUME NEW R \in Nat \ {0}, NEW a \in Int
  PROVE  \E k \in Int : a % R = a + R * k
<1> DEFINE k == -(a \div R)
<1>1. a \div R \in Int /\ a = R * (a \div R) + (a % R) /\ a % R \in Int
  BY DivMod
<1>2. R * k = -(R * (a \div R))
  BY <1>1
<1>3. k \in Int /\ a % R = a + R * k
  BY <1>1, <1>2
<1> QED BY <1>3

(* The true signed difference, when it is less than half the range, is what
   the subtraction of two words tells (pb_runtime.c:383,400). *)
LEMMA HalfRange ==
  ASSUME NEW H \in Nat \ {0}, NEW x \in (-H + 1)..(H - 1)
  PROVE  (-x) % (2 * H) < H <=> x <= 0
<1>1. CASE x <= 0
  <2>1. (-x) \in 0..(2 * H - 1)
    BY <1>1
  <2>2. (-x) % (2 * H) = -x
    BY <2>1
  <2> QED BY <1>1, <2>2
<1>2. CASE x > 0
  <2> DEFINE y == -x + 2 * H
  <2>1. y \in 0..(2 * H - 1) /\ y > H
    BY <1>2
  <2>2. y % (2 * H) = y
    BY <2>1
  <2>3. y = -x + (2 * H) * 1
    OBVIOUS
  <2>4. (-x + (2 * H) * 1) % (2 * H) = (-x) % (2 * H)
    <3> DEFINE z == -x
               R == 2 * H
    <3>1. z \in Int /\ R \in Nat \ {0} /\ 1 \in Int
      OBVIOUS
    <3> HIDE DEF z, R
    <3>2. (z + R * 1) % R = z % R
      BY <3>1, Wraps
    <3> QED BY <3>2 DEF z, R
  <2>5. (-x) % (2 * H) = y
    BY <2>2, <2>3, <2>4
  <2> QED BY <1>2, <2>1, <2>5
<1> QED BY <1>1, <1>2
-----------------------------------------------------------------------------
Half == TickRange \div 2

LEMMA Ranges ==
  /\ TickRange \in Nat \ {0} /\ Half \in Nat \ {0} /\ TickRange = 2 * Half
  /\ PollInterval \in 1..(Half - 1) /\ RetryInterval \in 1..(Half - 1)
  /\ ShortDelay \in 1..(Half - 1)
  /\ MaxLag \in Nat
BY ScheduleAssumption DEF Half

(* The word of a deadline stands for the true time left, unless it was set to
   "now" or half the range has gone by since. *)
Stands(d, at) == (at + d.left - d.word) % TickRange = 0

SoundAt(d, at, late) ==
  /\ d \in [word : 0..(TickRange - 1), left : Int]
  /\ d.left + late <= Half - 1
  /\ d.word = 0 \/ d.left + late <= -Half \/ Stands(d, at)

Sound(d) == SoundAt(d, clock, lag)

DeadlineInv ==
  /\ clock \in 0..(TickRange - 1) /\ lag \in 0..MaxLag
  /\ Sound(poll) /\ Sound(retry)

LEMMA ImmediatelySound ==
  ASSUME DeadlineInv PROVE Sound(Immediately) /\ SoundAt(Immediately, clock, 0)
BY Ranges DEF DeadlineInv, Sound, SoundAt, Immediately

LEMMA AtSound ==
  ASSUME DeadlineInv, NEW ticks \in 1..(Half - 1)
  PROVE  Sound(At(ticks))
<1> DEFINE d == At(ticks)
           a == clock - lag
           b == Now + ticks
<1>1. TickRange \in Nat \ {0} /\ Half \in Nat /\ clock \in Int /\ lag \in Int
  BY Ranges DEF DeadlineInv
<1>2. a \in Int
  BY <1>1
<1>3. PICK j \in Int : a % TickRange = a + TickRange * j
  <2> HIDE DEF a
  <2> QED BY <1>1, <1>2, Reduced
<1>4. Now = (clock - lag) + TickRange * j
  BY <1>3 DEF Now
<1>5. b \in Int
  <2>1. TickRange * j \in Int
    BY <1>1
  <2> QED BY <1>1, <1>4, <2>1
<1>6. PICK k \in Int : b % TickRange = b + TickRange * k
  <2> HIDE DEF b
  <2> QED BY <1>1, <1>5, Reduced
<1>7. d.word = b % TickRange /\ d.left = ticks - lag
  BY DEF At
<1>8. d \in [word : 0..(TickRange - 1), left : Int]
  <2>1. b % TickRange \in 0..(TickRange - 1)
    BY <1>1, <1>5, DivMod
  <2> QED BY <1>1, <2>1 DEF At
<1>9. clock + d.left - d.word = 0 + TickRange * (-(j + k))
  <2>1. TickRange * j \in Int /\ TickRange * k \in Int
    BY <1>1
  <2>2. clock + d.left - d.word = -(TickRange * j) - (TickRange * k)
    BY <1>1, <1>4, <1>6, <1>7, <2>1
  <2>3. TickRange * (-(j + k)) = -(TickRange * j) - (TickRange * k)
    BY <1>1
  <2> QED BY <2>1, <2>2, <2>3
<1>10. (0 + TickRange * (-(j + k))) % TickRange = 0 % TickRange
  <2>1. -(j + k) \in Int /\ 0 \in Int
    OBVIOUS
  <2> QED BY <1>1, <2>1, Wraps
<1>11. 0 % TickRange = 0
  BY <1>1
<1>12. Stands(d, clock)
  BY <1>9, <1>10, <1>11 DEF Stands
<1>13. d.left + lag <= Half - 1
  BY <1>1, <1>7
<1> QED BY <1>8, <1>12, <1>13 DEF Sound, SoundAt

(* The deadline that a gesture sets; the core's next reading of the counter is
   not older. *)
LEMMA AtClockSound ==
  ASSUME DeadlineInv, NEW ticks \in 1..(Half - 1)
  PROVE  SoundAt(AtClock(ticks), clock, 0)
<1> DEFINE d == AtClock(ticks)
           b == clock + ticks
<1>1. TickRange \in Nat \ {0} /\ Half \in Nat /\ clock \in Int
  BY Ranges DEF DeadlineInv
<1>2. b \in Int
  BY <1>1
<1>3. PICK k \in Int : b % TickRange = b + TickRange * k
  <2> HIDE DEF b
  <2> QED BY <1>1, <1>2, Reduced
<1>4. d.word = b % TickRange /\ d.left = ticks
  BY DEF AtClock
<1>5. d \in [word : 0..(TickRange - 1), left : Int]
  <2>1. b % TickRange \in 0..(TickRange - 1)
    BY <1>1, <1>2, DivMod
  <2> QED BY <1>1, <2>1 DEF AtClock
<1>6. clock + d.left - d.word = 0 + TickRange * (-k)
  <2>1. TickRange * (-k) = -(TickRange * k) /\ TickRange * k \in Int
    BY <1>1
  <2> QED BY <1>1, <1>3, <1>4, <2>1
<1>7. (0 + TickRange * (-k)) % TickRange = 0 % TickRange
  <2>1. -k \in Int /\ 0 \in Int
    OBVIOUS
  <2> QED BY <1>1, <2>1, Wraps
<1>8. 0 % TickRange = 0
  BY <1>1
<1>9. Stands(d, clock)
  BY <1>6, <1>7, <1>8 DEF Stands
<1>10. d.left + 0 <= Half - 1
  BY <1>1, <1>4
<1> QED BY <1>5, <1>9, <1>10 DEF SoundAt

(* A tick: the counter wraps, the true time left shrinks. *)
LEMMA NearerSound ==
  ASSUME DeadlineInv, Tick, NEW d, Sound(d)
  PROVE  SoundAt(Nearer(d), clock', lag')
<1> DEFINE n == Nearer(d)
<1>1. /\ TickRange \in Nat \ {0} /\ Half \in Nat \ {0} /\ MaxLag \in Nat
      /\ clock \in 0..(TickRange - 1) /\ lag \in 0..MaxLag
      /\ d \in [word : 0..(TickRange - 1), left : Int]
      /\ d.left + lag <= Half - 1
      /\ d.word = 0 \/ d.left + lag <= -Half \/ Stands(d, clock)
  BY Ranges DEF DeadlineInv, Sound, SoundAt
<1>2. /\ clock' = (clock + 1) % TickRange /\ lag' = lag + 1
      /\ lag' \in Nat /\ lag' <= MaxLag
  BY <1>1 DEF Tick
<1>3. n.word = d.word /\ n \in [word : 0..(TickRange - 1), left : Int]
  BY <1>1 DEF Nearer
<1>4. d.left \in Int /\ d.word \in Int
  BY <1>1
<1>5. CASE d.left <= -Half - MaxLag
  <2>1. n.left = d.left
    BY <1>1, <1>5 DEF Nearer, Half
  <2>2. d.left + lag' <= -Half /\ d.left + lag' <= Half - 1
    BY <1>1, <1>2, <1>4, <1>5
  <2> HIDE DEF n
  <2>3. n.left + lag' <= -Half /\ n.left + lag' <= Half - 1
    BY <2>1, <2>2
  <2>4. SoundAt(n, clock', lag')
    BY <1>3, <2>3 DEF SoundAt
  <2> QED BY <2>4 DEF n
<1>6. CASE ~(d.left <= -Half - MaxLag)
  <2>1. n.left = d.left - 1
    BY <1>1, <1>6 DEF Nearer, Half
  <2>2. n.left + lag' = d.left + lag
    BY <1>1, <1>2, <1>4, <2>1
  <2>3. ASSUME Stands(d, clock) PROVE Stands(n, clock')
    <3> DEFINE b == clock + 1
               e == clock + d.left - d.word
    <3>1. b \in Int /\ e \in Int
      BY <1>1, <1>4
    <3>2. PICK k \in Int : b % TickRange = b + TickRange * k
      <4> HIDE DEF b
      <4> QED BY <1>1, <3>1, Reduced
    <3>3. clock' + n.left - n.word = e + TickRange * k
      <4>1. TickRange * k \in Int
        BY <1>1
      <4> QED BY <1>1, <1>2, <1>3, <1>4, <2>1, <3>2, <4>1
    <3>4. e % TickRange = 0
      BY <2>3 DEF Stands
    <3> HIDE DEF e
    <3>5. (e + TickRange * k) % TickRange = e % TickRange
      BY <1>1, <3>1, Wraps
    <3> QED BY <3>3, <3>4, <3>5 DEF Stands
  <2> HIDE DEF n
  <2>4. SoundAt(n, clock', lag')
    BY <1>1, <1>3, <2>2, <2>3 DEF SoundAt
  <2> QED BY <2>4 DEF n
<1> QED BY <1>5, <1>6

(* The core reads the counter anew: what it knew of the past grows. *)
LEMMA ReadAgain ==
  ASSUME DeadlineInv, NEW d, Sound(d)
  PROVE  SoundAt(d, clock, 0)
<1>1. /\ Half \in Nat /\ lag \in Nat /\ d.left \in Int
  BY Ranges DEF DeadlineInv, Sound, SoundAt
<1>2. /\ d.left + lag <= Half - 1 => d.left + 0 <= Half - 1
      /\ d.left + lag <= -Half => d.left + 0 <= -Half
  BY <1>1
<1> QED BY <1>2 DEF Sound, SoundAt
-----------------------------------------------------------------------------
(* Every deadline the core sets stands for a time less than half the range
   away, and goes on standing for it. *)
LEMMA DeadlineStep == DeadlineInv /\ [Next]_vars => DeadlineInv'
<1> SUFFICES ASSUME DeadlineInv, [Next]_vars PROVE DeadlineInv'
  OBVIOUS
<1>a. /\ clock \in 0..(TickRange - 1) /\ lag \in 0..MaxLag
      /\ Sound(poll) /\ Sound(retry)
  BY DEF DeadlineInv
<1>b. ASSUME clock' \in 0..(TickRange - 1), lag' \in 0..MaxLag,
             SoundAt(poll', clock', lag'), SoundAt(retry', clock', lag')
      PROVE  DeadlineInv'
  BY <1>b DEF DeadlineInv, Sound, SoundAt, Stands
<1>c. ASSUME UNCHANGED timeVars, Sound(poll'), Sound(retry')
      PROVE  DeadlineInv'
  <2>1. clock' = clock /\ lag' = lag
    BY <1>c DEF timeVars
  <2> QED BY <1>a, <1>b, <1>c, <2>1 DEF Sound
<1>d. ASSUME lag' = 0, clock' = clock,
             SoundAt(poll', clock, 0), SoundAt(retry', clock, 0)
      PROVE  DeadlineInv'
  BY <1>a, <1>b, <1>d, Ranges
<1>1. ASSUME UNCHANGED timeVars, UNCHANGED <<poll, retry>> PROVE DeadlineInv'
  BY <1>a, <1>c, <1>1
<1>2. CASE StateResult \/ ReceiveDone \/ TestPending \/ ClearPending
             \/ ShowOffline
  BY <1>1, <1>2 DEF StateResult, ReceiveDone, TestPending, ClearPending,
    ShowOffline, Goto, planVars
<1>3. CASE EventFails
  <2>1. UNCHANGED timeVars /\ poll' = poll /\ retry' = At(RetryInterval)
    BY <1>3 DEF EventFails
  <2> QED BY <1>a, <1>c, <2>1, Ranges, AtSound
<1>4. CASE EventDelivered
  <2>1. UNCHANGED timeVars /\ poll' = Immediately /\ retry' = Immediately
    BY <1>4 DEF EventDelivered
  <2> QED BY <1>a, <1>c, <2>1, ImmediatelySound
<1>5. CASE TimerFinishes
  <2>1. UNCHANGED timeVars /\ poll' = poll /\ retry' = Immediately
    BY <1>5 DEF TimerFinishes
  <2> QED BY <1>a, <1>c, <2>1, ImmediatelySound
<1>6. ASSUME NEW eventRoom \in BOOLEAN, NEW stateRoom \in BOOLEAN,
             ScheduleNetworkWork(eventRoom, stateRoom)
      PROVE  DeadlineInv'
  <2>1. UNCHANGED timeVars
    BY <1>6 DEF ScheduleNetworkWork, Goto
  <2>2. retry' = retry \/ retry' = At(RetryInterval)
    BY <1>6 DEF ScheduleNetworkWork
  <2>3. poll' = poll \/ poll' = At(PollInterval) \/ poll' = At(ShortDelay)
    BY <1>6 DEF ScheduleNetworkWork
  <2>4. /\ Sound(At(RetryInterval)) /\ Sound(At(PollInterval))
        /\ Sound(At(ShortDelay))
    BY AtSound, Ranges
  <2> QED BY <1>a, <1>c, <2>1, <2>2, <2>3, <2>4
<1>7. CASE NoInput
  <2>1. lag' = 0 /\ clock' = clock /\ poll' = poll /\ retry' = retry
    BY <1>7 DEF NoInput, NextIteration, planVars
  <2> QED BY <1>a, <1>d, <2>1, ReadAgain
<1>8. ASSUME NEW event \in BOOLEAN, Gesture(event) PROVE DeadlineInv'
  <2>1. lag' = 0 /\ clock' = clock /\ poll' = AtClock(PollInterval)
    BY <1>8 DEF Gesture, NextIteration
  <2>2. retry' = retry \/ retry' = Immediately
    BY <1>8 DEF Gesture
  <2>3. SoundAt(poll', clock, 0)
    BY <2>1, AtClockSound, Ranges
  <2>4. SoundAt(retry', clock, 0)
    BY <1>a, <2>2, ReadAgain, ImmediatelySound
  <2> QED BY <1>d, <2>1, <2>3, <2>4
<1>9. CASE Tick
  <2>1. poll' = Nearer(poll) /\ retry' = Nearer(retry)
    BY <1>9 DEF Tick
  <2>2. /\ SoundAt(Nearer(poll), clock', lag')
        /\ SoundAt(Nearer(retry), clock', lag')
    BY <1>a, <1>9, NearerSound
  <2>3. clock' \in 0..(TickRange - 1) /\ lag' \in 0..MaxLag
    <3>1. clock' = (clock + 1) % TickRange /\ lag' = lag + 1 /\ lag < MaxLag
      BY <1>9 DEF Tick
    <3>2. clock + 1 \in Int /\ lag \in Nat /\ MaxLag \in Nat
      BY <1>a, Ranges
    <3>3. (clock + 1) % TickRange \in 0..(TickRange - 1)
      BY <3>2, DivMod, Ranges
    <3> QED BY <3>1, <3>2, <3>3
  <2> QED BY <1>b, <2>1, <2>2, <2>3
<1>10. CASE Associates \/ LinkLost \/ EventTask
  <2>1. UNCHANGED coreVars
    BY <1>10 DEF Associates, LinkLost, EventTask, Started, GotIp, ClearBit,
      NoteLoss
  <2> QED BY <1>1, <2>1 DEF coreVars, planVars
<1>11. CASE UNCHANGED vars
  BY <1>1, <1>11 DEF vars, planVars
<1> QED
  BY <1>2, <1>3, <1>4, <1>5, <1>6, <1>7, <1>8, <1>9, <1>10, <1>11 DEF Next, Core

(* The core's reading of a deadline agrees with true time. *)
LEMMA SoundIsDecided ==
  ASSUME DeadlineInv, NEW d, Sound(d), d.word # 0, d.left + lag > -Half
  PROVE  Reached(d) <=> ReallyReached(d)
<1> DEFINE x == d.left + lag
           a == clock - lag
           e == clock + d.left - d.word
<1>1. /\ TickRange \in Nat \ {0} /\ Half \in Nat \ {0} /\ TickRange = 2 * Half
      /\ clock \in Int /\ lag \in Int /\ d.word \in Int /\ d.left \in Int
      /\ d.left + lag <= Half - 1
      /\ d.word = 0 \/ d.left + lag <= -Half \/ Stands(d, clock)
  BY Ranges DEF DeadlineInv, Sound, SoundAt
<1>2. x \in (-Half + 1)..(Half - 1) /\ x \in Int /\ -x \in Int
  BY <1>1
<1>3. a \in Int /\ e \in Int
  BY <1>1
<1>4. e % TickRange = 0
  BY <1>1 DEF Stands
<1>5. PICK j \in Int : a % TickRange = a + TickRange * j
  <2> HIDE DEF a
  <2> QED BY <1>1, <1>3, Reduced
<1>6. PICK k \in Int : e % TickRange = e + TickRange * k
  <2> HIDE DEF e
  <2> QED BY <1>1, <1>3, Reduced
<1>7. Now - d.word = -x + TickRange * (j - k)
  <2>1. Now = (clock - lag) + TickRange * j
    BY <1>5 DEF Now
  <2>2. TickRange * (j - k) = TickRange * j - TickRange * k
    BY <1>1
  <2>3. TickRange * k \in Int /\ TickRange * j \in Int
    BY <1>1
  <2>4. e = -(TickRange * k)
    <3> HIDE DEF e
    <3> QED BY <1>3, <1>4, <1>6, <2>3
  <2> QED BY <1>1, <2>1, <2>2, <2>3, <2>4
<1>8. (-x + TickRange * (j - k)) % TickRange = (-x) % TickRange
  <2> DEFINE y == -x
             i == j - k
  <2>1. y \in Int /\ i \in Int
    BY <1>2
  <2> HIDE DEF y, i, x
  <2>2. (y + TickRange * i) % TickRange = y % TickRange
    BY <1>1, <2>1, Wraps
  <2> QED BY <2>2 DEF y, i
<1>9. (-x) % (2 * Half) < Half <=> x <= 0
  <2> HIDE DEF x
  <2> QED BY <1>1, <1>2, HalfRange
<1>10. (Now - d.word) % TickRange < Half <=> x <= 0
  BY <1>1, <1>7, <1>8, <1>9
<1> QED BY <1>10 DEF Reached, ReallyReached, Half

(* Poll and retry deadlines are reached exactly when their true time has come,
   for every width of the tick counter and across any number of its wraps, but
   for a word that happens to be 0 and for a deadline that is older than half
   the range (pb_runtime.c:383-412). *)
THEOREM DecisionsAreTrue == Spec => []DecidesByTrueTime
<1>1. Init => DeadlineInv
  <2>1. ASSUME Init PROVE DeadlineInv
    <3>1. /\ clock \in 0..(TickRange - 1) /\ lag = 0
          /\ poll = Immediately /\ retry = Immediately
      BY <2>1 DEF Init
    <3>2. Immediately = [word |-> 0, left |-> 0]
      BY <3>1 DEF Immediately
    <3>3. Sound(Immediately)
      BY <3>1, <3>2, Ranges DEF Sound, SoundAt
    <3> QED BY <3>1, <3>3, Ranges DEF DeadlineInv
  <2> QED BY <2>1
<1>2. DeadlineInv /\ [Next]_vars => DeadlineInv'
  BY DeadlineStep
<1>3. DeadlineInv => DecidesByTrueTime
  <2> SUFFICES ASSUME DeadlineInv, NEW d \in {poll, retry}, d.word # 0,
                      ~(d.left + lag <= -Half)
               PROVE  Reached(d) <=> ReallyReached(d)
    BY DEF DecidesByTrueTime, Half
  <2>1. Sound(d)
    BY DEF DeadlineInv
  <2>2. d.left + lag > -Half
    BY <2>1, Ranges DEF Sound, SoundAt, DeadlineInv
  <2> QED BY <2>1, <2>2, SoundIsDecided
<1> QED BY <1>1, <1>2, <1>3, PTL DEF Spec
=============================================================================
