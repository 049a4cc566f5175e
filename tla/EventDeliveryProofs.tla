------------------------- MODULE EventDeliveryProofs -------------------------
(***************************************************************************)
(* Theorems about EventDelivery, for every queue capacity, every length of *)
(* the worker's queues, every set of refused events and any number of      *)
(* events, power failures and failing flash writes.                        *)
(***************************************************************************)
EXTENDS EventDelivery, TLAPS

(* What the sequences of the model keep when they lose their head, gain an
   element or are concatenated. *)
LEMMA TailType ==
  ASSUME NEW S, NEW s \in Seq(S), s # <<>>
  PROVE  Tail(s) \in Seq(S) /\ Head(s) \in S
  OBVIOUS

LEMMA EmptyType ==
  ASSUME NEW S
  PROVE  <<>> \in Seq(S)
  OBVIOUS

LEMMA StoreQueueType ==
  ASSUME TypeOK, NEW next \in Seq(Nat), NEW result, StoreQueue(next, result)
  PROVE  queue' \in Seq(Nat) /\ stored' \in Seq(Nat)
  BY DEF TypeOK, StoreQueue

LEMMA MakeEventType ==
  ASSUME TypeOK, NEW result, MakeEvent(result)
  PROVE  /\ queue' \in Seq(Nat) /\ stored' \in Seq(Nat)
         /\ created' \in Nat /\ committed' \subseteq Nat
         /\ retryWait' \in BOOLEAN
<1>1. created' \in Nat /\ created' = created + 1
  BY SMT DEF TypeOK, MakeEvent
<1>4. retryWait' \in BOOLEAN
  BY Zenon DEF MakeEvent
<1>2. committed' \subseteq Nat
  BY <1>1 DEF TypeOK, MakeEvent
<1>3. queue' \in Seq(Nat) /\ stored' \in Seq(Nat)
  <2>1. Append(queue, created + 1) \in Seq(Nat)
    BY <1>1 DEF TypeOK
  <2> QED
    BY <2>1, StoreQueueType DEF TypeOK, MakeEvent, Enqueue, queueVars
<1> QED
  BY <1>1, <1>2, <1>3, <1>4

(* Type correctness (TypeOK). *)
THEOREM TypeCorrect == Spec => []TypeOK
<1>1. Init => TypeOK
  <2> SUFFICES ASSUME Init PROVE TypeOK
    OBVIOUS
  <2>1. /\ queue \in Seq(Nat) /\ stored \in Seq(Nat)
        /\ requests \in Seq(Request) /\ worker \in Seq(Request)
        /\ results \in Seq(Result) /\ accepted \in Seq(Nat)
    BY EmptyType DEF Init, WorkerInit
  <2> QED
    BY <2>1 DEF Init, TypeOK, Stages
<1>2. TypeOK /\ [Next]_vars => TypeOK'
  <2> SUFFICES ASSUME TypeOK, [Next]_vars PROVE TypeOK'
    OBVIOUS
  <2> USE DEF loopVars, cloudVars, eventVars, queueVars, workerVars, Stages
  <2>1. ASSUME NEW result \in StoreResults, ReceiveResult(result)
        PROVE  TypeOK'
    <3>1. results' \in Seq(Result) /\ Head(results) \in Result
      BY <2>1, TailType DEF TypeOK, ReceiveResult
    <3>2. CASE HandleStateResult(Head(results))
      BY <2>1, <3>1, <3>2 DEF TypeOK, ReceiveResult, HandleStateResult
    <3>3. CASE HandleEventResult(Head(results), result)
      <4>1. queue' \in Seq(Nat) /\ stored' \in Seq(Nat)
        <5>1. CASE Acknowledges(Head(results))
          <6>1. Tail(queue) \in Seq(Nat)
            BY <5>1, TailType DEF TypeOK, Acknowledges
          <6> QED
            BY <3>3, <5>1, <6>1, StoreQueueType
            DEF HandleEventResult, Pop
        <5>2. CASE ~Acknowledges(Head(results))
          BY <3>3, <5>2 DEF TypeOK, HandleEventResult
        <5> QED
          BY <5>1, <5>2
      <4>2. /\ eventInFlight' \in BOOLEAN /\ stateInFlight' \in BOOLEAN
            /\ retryWait' \in BOOLEAN /\ pollWait' \in BOOLEAN
        BY <3>3 DEF TypeOK, HandleEventResult
      <4> QED
        BY <2>1, <3>1, <4>1, <4>2 DEF TypeOK, ReceiveResult
    <3> QED
      BY <2>1, <3>2, <3>3 DEF ReceiveResult
  <2>2. CASE ReceiveDone
    BY <2>2 DEF TypeOK, ReceiveDone
  <2>3. CASE TimerStage
    BY <2>3 DEF TypeOK, TimerStage
  <2>4. ASSUME NEW result \in StoreResults, TimerFinished(result)
        PROVE  TypeOK'
    BY <2>4, MakeEventType DEF TypeOK, TimerFinished
  <2>5. CASE Schedule
    <3>1. requests' \in Seq(Request)
      <4>1. /\ queue # <<>> => EventRequest(Head(queue)) \in Request
            /\ StateRequest \in Request
        BY TailType DEF TypeOK, EventRequest, StateRequest, Request
      <4>2. EventPosted => queue # <<>>
        BY DEF EventPosted, EventDue
      <4> DEFINE ev == IF EventPosted THEN <<EventRequest(Head(queue))>>
                                      ELSE <<>>
                 st == IF StatePosted THEN <<StateRequest>> ELSE <<>>
      <4>3. ev \in Seq(Request) /\ st \in Seq(Request)
        BY <4>1, <4>2
      <4>4. requests' = requests \o ev \o st
        BY <2>5 DEF Schedule
      <4> HIDE DEF ev, st
      <4> QED
        BY <4>3, <4>4 DEF TypeOK
    <3> QED
      BY <2>5, <3>1 DEF TypeOK, Schedule
  <2>6. CASE InputNothing
    BY <2>6 DEF TypeOK, InputNothing
  <2>7. CASE GestureUnbound
    BY <2>7 DEF TypeOK, GestureUnbound
  <2>8. ASSUME NEW result \in StoreResults, Gesture(result)
        PROVE  TypeOK'
    BY <2>8, MakeEventType DEF TypeOK, Gesture
  <2>9. CASE RetryElapses \/ PollElapses
    BY <2>9 DEF TypeOK, RetryElapses, PollElapses
  <2>10. CASE WifiUp \/ WifiDown
    BY <2>10 DEF TypeOK, WifiUp, WifiDown
  <2>11. CASE WorkerTakes
    <3>1. Head(requests) \in Request /\ requests' \in Seq(Request)
      BY <2>11, TailType DEF TypeOK, WorkerTakes, TakeRequest
    <3>2. worker' \in Seq(Request)
      BY <2>11, <3>1 DEF WorkerTakes, TakeRequest
    <3>3. sent' \subseteq Nat
      BY <2>11, <3>1 DEF TypeOK, WorkerTakes, Request
    <3> QED
      BY <2>11, <3>1, <3>2, <3>3 DEF TypeOK, WorkerTakes, TakeRequest
  <2>12. ASSUME NEW ok \in BOOLEAN, FinishRequest(ok),
                UNCHANGED <<pc, loopVars, online, cloudVars, eventVars>>
         PROVE  TypeOK'
    <3>1. worker[1] \in Request
      BY <2>12 DEF TypeOK, FinishRequest
    <3>2. results' \in Seq(Result)
      BY <2>12, <3>1 DEF TypeOK, FinishRequest, Request, Result
    <3>3. worker' \in Seq(Request)
      BY <2>12 DEF FinishRequest
    <3> QED
      BY <2>12, <3>2, <3>3 DEF TypeOK, FinishRequest
  <2>13. ASSUME NEW e \in sent, CloudProcesses(e)
         PROVE  TypeOK'
    BY <2>13 DEF TypeOK, CloudProcesses
  <2>14. CASE Reboot
    BY <2>14, EmptyType DEF TypeOK, Reboot, Restarted, Load
  <2>15. CASE UNCHANGED vars
    BY <2>15 DEF TypeOK, vars
  <2> QED
    BY <2>1, <2>2, <2>3, <2>4, <2>5, <2>6, <2>7, <2>8, <2>9, <2>10, <2>11,
       <2>12, <2>13, <2>14, <2>15
    DEF Next, LoopStep, WorkerFails, WorkerSucceeds
<1> QED
  BY <1>1, <1>2, PTL DEF Spec
-----------------------------------------------------------------------------
(***************************************************************************)
(* The inductive invariant behind the safety of the data.                  *)
(***************************************************************************)
Increasing(s) == \A i, j \in DOMAIN s : i < j => s[i] < s[j]

LEMMA AppendFacts ==
  ASSUME NEW s \in Seq(Nat), NEW x \in Nat
  PROVE  /\ Append(s, x) \in Seq(Nat)
         /\ DOMAIN Append(s, x) = 1..(Len(s) + 1)
         /\ \A i \in DOMAIN s : Append(s, x)[i] = s[i]
         /\ Append(s, x)[Len(s) + 1] = x
         /\ \A i \in DOMAIN Append(s, x) : i \in DOMAIN s \/ i = Len(s) + 1
         /\ s # <<>> => Append(s, x) # <<>> /\ Head(Append(s, x)) = Head(s)
  OBVIOUS

LEMMA AppendRange ==
  ASSUME NEW s \in Seq(Nat), NEW x \in Nat
  PROVE  Range(Append(s, x)) = Range(s) \cup {x}
<1> DEFINE t == Append(s, x)
<1>1. /\ DOMAIN s = 1..Len(s) /\ Len(s) \in Nat
      /\ DOMAIN t = 1..(Len(s) + 1)
      /\ \A i \in DOMAIN s : t[i] = s[i]
      /\ t[Len(s) + 1] = x
  BY AppendFacts
<1> HIDE DEF t
<1>2. ASSUME NEW y \in Range(t) PROVE y \in Range(s) \cup {x}
  <2>1. PICK i \in DOMAIN t : y = t[i]
    BY <1>2 DEF Range
  <2>2. CASE i \in DOMAIN s
    BY <1>1, <2>1, <2>2 DEF Range
  <2>3. CASE i = Len(s) + 1
    BY <1>1, <2>1, <2>3
  <2> QED
    BY <1>1, <2>1, <2>2, <2>3
<1>3. ASSUME NEW y \in Range(s) PROVE y \in Range(t)
  BY <1>1, <1>3 DEF Range
<1>4. x \in Range(t)
  BY <1>1 DEF Range
<1> QED
  BY <1>2, <1>3, <1>4 DEF t

LEMMA AppendIncreasing ==
  ASSUME NEW s \in Seq(Nat), NEW x \in Nat, Increasing(s),
         \A i \in DOMAIN s : s[i] < x
  PROVE  Increasing(Append(s, x))
<1> DEFINE t == Append(s, x)
<1>1. /\ DOMAIN s = 1..Len(s) /\ Len(s) \in Nat
      /\ DOMAIN t = 1..(Len(s) + 1)
      /\ \A i \in DOMAIN s : t[i] = s[i]
      /\ t[Len(s) + 1] = x
  BY AppendFacts
<1> HIDE DEF t
<1>2. ASSUME NEW i \in DOMAIN t, NEW j \in DOMAIN t, i < j
      PROVE  t[i] < t[j]
  <2>1. i \in DOMAIN s
    BY <1>1, <1>2
  <2>2. CASE j \in DOMAIN s
    BY <1>1, <1>2, <2>1, <2>2 DEF Increasing
  <2>3. CASE j = Len(s) + 1
    BY <1>1, <2>1, <2>3
  <2> QED
    BY <1>1, <2>2, <2>3
<1> QED
  BY <1>2 DEF Increasing, t

LEMMA TailFacts ==
  ASSUME NEW s \in Seq(Nat), s # <<>>
  PROVE  /\ Tail(s) \in Seq(Nat) /\ Head(s) \in Nat
         /\ Len(s) \in Nat \ {0} /\ DOMAIN s = 1..Len(s)
         /\ Head(s) = s[1]
         /\ DOMAIN Tail(s) = 1..(Len(s) - 1)
         /\ \A i \in 1..(Len(s) - 1) : Tail(s)[i] = s[i + 1]
  OBVIOUS

LEMMA TailRange ==
  ASSUME NEW s \in Seq(Nat), s # <<>>
  PROVE  Range(s) = Range(Tail(s)) \cup {Head(s)}
<1> DEFINE t == Tail(s)
<1>1. /\ Len(s) \in Nat \ {0} /\ DOMAIN s = 1..Len(s)
      /\ Head(s) = s[1]
      /\ DOMAIN t = 1..(Len(s) - 1)
      /\ \A i \in 1..(Len(s) - 1) : t[i] = s[i + 1]
  BY TailFacts
<1> HIDE DEF t
<1>2. ASSUME NEW y \in Range(s) PROVE y \in Range(t) \cup {Head(s)}
  <2>1. PICK i \in DOMAIN s : y = s[i]
    BY <1>2 DEF Range
  <2>2. CASE i = 1
    BY <1>1, <2>1, <2>2
  <2>3. CASE i # 1
    <3>1. i - 1 \in DOMAIN t /\ y = t[i - 1]
      BY <1>1, <2>1, <2>3
    <3> QED
      BY <3>1 DEF Range
  <2> QED
    BY <2>2, <2>3
<1>3. ASSUME NEW y \in Range(t) PROVE y \in Range(s)
  <2>1. PICK i \in DOMAIN t : y = t[i]
    BY <1>3 DEF Range
  <2>2. i + 1 \in DOMAIN s /\ y = s[i + 1]
    BY <1>1, <2>1
  <2> QED
    BY <2>2 DEF Range
<1>4. Head(s) \in Range(s)
  BY <1>1 DEF Range
<1> QED
  BY <1>2, <1>3, <1>4 DEF t

LEMMA TailIncreasing ==
  ASSUME NEW s \in Seq(Nat), s # <<>>, Increasing(s)
  PROVE  /\ Increasing(Tail(s))
         /\ \A i \in DOMAIN Tail(s) : Head(s) < Tail(s)[i]
<1> DEFINE t == Tail(s)
<1>1. /\ Len(s) \in Nat \ {0} /\ DOMAIN s = 1..Len(s)
      /\ Head(s) = s[1]
      /\ DOMAIN t = 1..(Len(s) - 1)
      /\ \A i \in 1..(Len(s) - 1) : t[i] = s[i + 1]
  BY TailFacts
<1> HIDE DEF t
<1>2. ASSUME NEW i \in DOMAIN t
      PROVE  i + 1 \in DOMAIN s /\ 1 < i + 1 /\ t[i] = s[i + 1]
  BY <1>1
<1>3. ASSUME NEW i \in DOMAIN t, NEW j \in DOMAIN t, i < j
      PROVE  t[i] < t[j]
  BY <1>1, <1>2, <1>3 DEF Increasing
<1>4. ASSUME NEW i \in DOMAIN t PROVE Head(s) < t[i]
  <2>1. 1 \in DOMAIN s /\ i + 1 \in DOMAIN s /\ 1 < i + 1
    BY <1>1, <1>2
  <2>2. s[1] < s[i + 1]
    BY <2>1 DEF Increasing
  <2> QED
    BY <1>1, <1>2, <2>2
<1> QED
  BY <1>3, <1>4 DEF Increasing, t

(* The cloud's list and the RAM queue are increasing, and the list ends
   before the queue or at its head. *)
OrderInv ==
  /\ Increasing(queue)
  /\ Increasing(accepted)
  /\ \A i \in DOMAIN accepted, j \in DOMAIN queue : accepted[i] <= queue[j]
  /\ \A i \in DOMAIN queue : queue[i] <= created
  /\ \A i \in DOMAIN accepted : accepted[i] <= created

(* A write that failed after it reached the flash left event e behind. *)
LeftBehind(e) ==
  /\ stored = Append(queue, e)
  /\ 0 < e /\ e <= created
  /\ e \notin committed
  /\ \A i \in DOMAIN queue : queue[i] < e
  /\ \A i \in DOMAIN accepted : accepted[i] < e

FlashInv ==
  \/ stored = queue
  \/ queue # <<>> /\ stored = Tail(queue) /\ Head(queue) \in Range(accepted)
  \/ \E e \in Nat : LeftBehind(e)

CommittedInv ==
  \A e \in committed :
    e <= created /\ (e \in Range(accepted) \/ e \in Range(queue))

(* Only the head of the queue can be on the wire and not yet at the cloud. *)
SentInv ==
  \A e \in sent :
    e \in Range(accepted) \/ (queue # <<>> /\ e = Head(queue))

DataInv == OrderInv /\ FlashInv /\ CommittedInv /\ SentInv

LEMMA MakeEventData ==
  ASSUME TypeOK, DataInv, NEW result \in StoreResults, MakeEvent(result),
         UNCHANGED cloudVars
  PROVE  DataInv'
<1> DEFINE c == created + 1
           grown == Append(queue, c)
<1> USE DEF cloudVars
<1>1. /\ created' = c /\ c \in Nat /\ created < c /\ created \in Nat
      /\ accepted' = accepted /\ sent' = sent
      /\ queue \in Seq(Nat) /\ accepted \in Seq(Nat)
      /\ committed \subseteq Nat
  BY DEF MakeEvent, TypeOK
<1>2. /\ c \notin committed
      /\ \A i \in DOMAIN queue : queue[i] \in Nat /\ queue[i] < c
      /\ \A i \in DOMAIN accepted : accepted[i] \in Nat /\ accepted[i] < c
  BY <1>1 DEF DataInv, OrderInv, CommittedInv
<1>3. /\ Increasing(queue) /\ Increasing(accepted)
      /\ \A i \in DOMAIN accepted, j \in DOMAIN queue :
           accepted[i] <= queue[j]
  BY DEF DataInv, OrderInv
<1>4. /\ DOMAIN grown = 1..(Len(queue) + 1)
      /\ \A i \in DOMAIN queue : grown[i] = queue[i]
      /\ grown[Len(queue) + 1] = c
      /\ \A i \in DOMAIN grown : i \in DOMAIN queue \/ i = Len(queue) + 1
      /\ queue # <<>> => grown # <<>> /\ Head(grown) = Head(queue)
      /\ Range(grown) = Range(queue) \cup {c}
      /\ Increasing(grown)
  BY <1>1, <1>2, <1>3, AppendFacts, AppendRange, AppendIncreasing
<1>5. CASE Enqueued(result)
  <2>1. queue' = grown /\ stored' = grown /\ committed' = committed \cup {c}
    BY <1>5 DEF MakeEvent, Enqueued, Enqueue, StoreQueue
  <2> HIDE DEF grown, c
  <2>2. OrderInv'
    <3>1. ASSUME NEW j \in DOMAIN grown
          PROVE  /\ grown[j] <= c
                 /\ \A i \in DOMAIN accepted : accepted[i] <= grown[j]
      BY <1>1, <1>2, <1>3, <1>4
    <3> QED
      BY <1>1, <1>2, <1>3, <1>4, <2>1, <3>1 DEF OrderInv, c
  <2>3. FlashInv'
    BY <2>1 DEF FlashInv
  <2>4. CommittedInv'
    BY <1>1, <1>4, <2>1 DEF DataInv, CommittedInv
  <2>5. SentInv'
    BY <1>1, <1>4, <2>1 DEF DataInv, SentInv
  <2> QED
    BY <2>2, <2>3, <2>4, <2>5 DEF DataInv
<1>6. CASE ~Enqueued(result)
  <2>1. queue' = queue /\ committed' = committed
    BY <1>6 DEF MakeEvent, Enqueued, Enqueue, StoreQueue, queueVars
  <2>2. stored' = stored \/ stored' = grown
    BY <1>6 DEF MakeEvent, Enqueued, Enqueue, StoreQueue, queueVars
  <2>3. OrderInv'
    BY <1>1, <1>2, <1>3, <2>1 DEF OrderInv
  <2>4. CommittedInv' /\ SentInv'
    BY <1>1, <2>1 DEF DataInv, CommittedInv, SentInv
  <2>5. CASE stored' = grown
    <3>1. LeftBehind(created)'
      BY <1>1, <1>2, <2>1, <2>5 DEF LeftBehind
    <3> QED
      BY <1>1, <2>3, <2>4, <3>1 DEF DataInv, FlashInv
  <2>6. CASE stored' = stored
    <3>1. ASSUME NEW e \in Nat, LeftBehind(e) PROVE LeftBehind(e)'
      BY <1>1, <2>1, <2>6, <3>1 DEF LeftBehind
    <3> QED
      BY <1>1, <2>1, <2>3, <2>4, <2>6, <3>1 DEF DataInv, FlashInv
  <2> QED
    BY <2>2, <2>5, <2>6
<1> QED
  BY <1>5, <1>6

(* Removing a head that the cloud has. *)
LEMMA PopData ==
  ASSUME TypeOK, DataInv, NEW result \in StoreResults, Pop(result),
         Head(queue) \in Range(accepted),
         UNCHANGED <<cloudVars, created, committed>>
  PROVE  DataInv'
<1> USE DEF cloudVars
<1>1. /\ queue \in Seq(Nat) /\ queue # <<>> /\ accepted \in Seq(Nat)
      /\ accepted' = accepted /\ sent' = sent /\ created' = created
      /\ committed' = committed /\ created \in Nat
  BY DEF Pop, TypeOK
<1>2. /\ \A i \in DOMAIN accepted : accepted[i] \in Nat
      /\ \A i \in DOMAIN queue : queue[i] \in Nat
  BY <1>1
<1>3. /\ Range(queue) = Range(Tail(queue)) \cup {Head(queue)}
      /\ Increasing(Tail(queue))
      /\ \A i \in DOMAIN Tail(queue) :
           \E j \in DOMAIN queue : Tail(queue)[i] = queue[j]
  BY <1>1, TailFacts, TailRange, TailIncreasing DEF DataInv, OrderInv
<1>4. CASE queue' = queue
  <2>1. stored' = stored \/ stored' = Tail(queue)
    BY DEF Pop, StoreQueue
  <2>2. OrderInv' /\ CommittedInv' /\ SentInv'
    BY <1>1, <1>4 DEF DataInv, OrderInv, CommittedInv, SentInv
  <2>3. CASE stored' = Tail(queue)
    BY <1>1, <1>4, <2>2, <2>3 DEF DataInv, FlashInv
  <2>4. CASE stored' = stored
    <3>1. ASSUME NEW e \in Nat, LeftBehind(e) PROVE LeftBehind(e)'
      BY <1>1, <1>4, <2>4, <3>1 DEF LeftBehind
    <3> QED
      BY <1>1, <1>4, <2>2, <2>4, <3>1 DEF DataInv, FlashInv
  <2> QED
    BY <2>1, <2>3, <2>4
<1>5. CASE queue' = Tail(queue) /\ stored' = Tail(queue)
  <2>1. OrderInv'
    BY <1>1, <1>2, <1>3, <1>5 DEF DataInv, OrderInv
  <2>2. CommittedInv' /\ SentInv'
    BY <1>1, <1>3, <1>5 DEF DataInv, CommittedInv, SentInv
  <2> QED
    BY <1>5, <2>1, <2>2 DEF DataInv, FlashInv
<1> QED
  BY <1>4, <1>5 DEF Pop, StoreQueue, StoreResults

(* A restart from the flash. *)
LEMMA LoadData ==
  ASSUME TypeOK, DataInv, Load,
         UNCHANGED <<cloudVars, created, committed>>
  PROVE  DataInv'
<1> USE DEF cloudVars
<1>1. /\ queue \in Seq(Nat) /\ accepted \in Seq(Nat)
      /\ accepted' = accepted /\ sent' = sent /\ created' = created
      /\ committed' = committed /\ created \in Nat
      /\ queue' = stored /\ stored' = stored
  BY DEF Load, TypeOK
<1>2. /\ \A i \in DOMAIN accepted : accepted[i] \in Nat
      /\ \A i \in DOMAIN queue : queue[i] \in Nat
  BY <1>1
<1>3. FlashInv'
  BY <1>1 DEF FlashInv
<1>4. CASE stored = queue
  BY <1>1, <1>3, <1>4 DEF DataInv, OrderInv, CommittedInv, SentInv
<1>5. CASE /\ queue # <<>> /\ stored = Tail(queue)
           /\ Head(queue) \in Range(accepted)
  <2>1. /\ Range(queue) = Range(Tail(queue)) \cup {Head(queue)}
        /\ Increasing(Tail(queue))
        /\ \A i \in DOMAIN Tail(queue) :
             \E j \in DOMAIN queue : Tail(queue)[i] = queue[j]
    <3>1. Range(queue) = Range(Tail(queue)) \cup {Head(queue)}
      BY <1>1, <1>5, TailRange
    <3>2. Increasing(Tail(queue))
      BY <1>1, <1>5, TailIncreasing DEF DataInv, OrderInv
    <3>3. ASSUME NEW i \in DOMAIN Tail(queue)
          PROVE  \E j \in DOMAIN queue : Tail(queue)[i] = queue[j]
      <4>1. i + 1 \in DOMAIN queue /\ Tail(queue)[i] = queue[i + 1]
        BY <1>1, <1>5, TailFacts
      <4> QED
        BY <4>1
    <3> QED
      BY <3>1, <3>2, <3>3
  <2>2. OrderInv'
    BY <1>1, <1>2, <1>5, <2>1 DEF DataInv, OrderInv
  <2>3. CommittedInv' /\ SentInv'
    BY <1>1, <1>5, <2>1 DEF DataInv, CommittedInv, SentInv
  <2> QED
    BY <1>3, <2>2, <2>3 DEF DataInv
<1>6. ASSUME NEW e \in Nat, LeftBehind(e) PROVE DataInv'
  <2>1. /\ DOMAIN stored = 1..(Len(queue) + 1)
        /\ \A i \in DOMAIN queue : stored[i] = queue[i]
        /\ stored[Len(queue) + 1] = e
        /\ \A i \in DOMAIN stored : i \in DOMAIN queue \/ i = Len(queue) + 1
        /\ queue # <<>> => stored # <<>> /\ Head(stored) = Head(queue)
        /\ Range(stored) = Range(queue) \cup {e}
        /\ Increasing(stored)
    BY <1>1, <1>6, AppendFacts, AppendRange, AppendIncreasing
    DEF DataInv, OrderInv, LeftBehind
  <2>2. OrderInv'
    <3>1. ASSUME NEW j \in DOMAIN stored
          PROVE  /\ stored[j] <= created
                 /\ \A i \in DOMAIN accepted : accepted[i] <= stored[j]
      BY <1>1, <1>2, <1>6, <2>1 DEF DataInv, OrderInv, LeftBehind
    <3> QED
      BY <1>1, <1>2, <2>1, <3>1 DEF DataInv, OrderInv
  <2>3. CommittedInv' /\ SentInv'
    BY <1>1, <2>1 DEF DataInv, CommittedInv, SentInv
  <2> QED
    BY <1>3, <2>2, <2>3 DEF DataInv
<1> QED
  BY <1>4, <1>5, <1>6 DEF DataInv, FlashInv

(* The cloud gets a request that was sent at some time. *)
LEMMA CloudData ==
  ASSUME TypeOK, DataInv, NEW e \in sent, CloudProcesses(e)
  PROVE  DataInv'
<1>1. /\ queue \in Seq(Nat) /\ accepted \in Seq(Nat) /\ created \in Nat
      /\ queue' = queue /\ stored' = stored /\ sent' = sent
      /\ created' = created /\ committed' = committed /\ e \in Nat
  BY DEF CloudProcesses, eventVars, queueVars, TypeOK
<1>2. CASE e \in Range(accepted)
  <2>1. accepted' = accepted
    BY <1>2 DEF CloudProcesses
  <2>2. ASSUME NEW g \in Nat, LeftBehind(g) PROVE LeftBehind(g)'
    BY <1>1, <2>1, <2>2 DEF LeftBehind
  <2> QED
    BY <1>1, <2>1, <2>2
    DEF DataInv, OrderInv, FlashInv, CommittedInv, SentInv
<1>3. CASE e \notin Range(accepted)
  <2> DEFINE longer == Append(accepted, e)
  <2>1. accepted' = longer
    BY <1>3 DEF CloudProcesses
  <2>2. queue # <<>> /\ e = queue[1] /\ 1 \in DOMAIN queue
    BY <1>1, <1>3, TailFacts DEF DataInv, SentInv
  <2>3. ASSUME NEW i \in DOMAIN accepted
        PROVE  accepted[i] \in Nat /\ accepted[i] < e
    <3>1. accepted[i] <= e /\ accepted[i] \in Nat
      BY <1>1, <2>2 DEF DataInv, OrderInv
    <3>2. accepted[i] # e
      BY <1>3 DEF Range
    <3> QED
      BY <1>1, <3>1, <3>2
  <2>4. /\ DOMAIN longer = 1..(Len(accepted) + 1)
        /\ \A i \in DOMAIN accepted : longer[i] = accepted[i]
        /\ longer[Len(accepted) + 1] = e
        /\ \A i \in DOMAIN longer : i \in DOMAIN accepted
                                   \/ i = Len(accepted) + 1
        /\ Range(longer) = Range(accepted) \cup {e}
        /\ Increasing(longer)
    BY <1>1, <2>3, AppendFacts, AppendRange, AppendIncreasing
    DEF DataInv, OrderInv
  <2> HIDE DEF longer
  <2>5. OrderInv'
    <3>1. ASSUME NEW j \in DOMAIN queue PROVE e <= queue[j]
      BY <1>1, <2>2 DEF DataInv, OrderInv, Increasing
    <3>2. ASSUME NEW i \in DOMAIN longer
          PROVE  /\ longer[i] <= created
                 /\ \A j \in DOMAIN queue : longer[i] <= queue[j]
      BY <1>1, <2>2, <2>3, <2>4, <3>1 DEF DataInv, OrderInv
    <3> QED
      BY <1>1, <2>1, <2>4, <3>2 DEF DataInv, OrderInv
  <2>6. CommittedInv' /\ SentInv'
    BY <1>1, <2>1, <2>4 DEF DataInv, CommittedInv, SentInv
  <2>7. FlashInv'
    <3>1. ASSUME NEW g \in Nat, LeftBehind(g) PROVE LeftBehind(g)'
      <4>1. ASSUME NEW i \in DOMAIN longer PROVE longer[i] < g
        BY <2>2, <2>4, <3>1 DEF LeftBehind
      <4> QED
        BY <1>1, <2>1, <3>1, <4>1 DEF LeftBehind
    <3> QED
      BY <1>1, <2>1, <2>4, <3>1 DEF DataInv, FlashInv
  <2> QED
    BY <2>5, <2>6, <2>7 DEF DataInv
<1> QED
  BY <1>2, <1>3
-----------------------------------------------------------------------------
(***************************************************************************)
(* The inductive invariant behind the traffic with the worker: the pipe    *)
(* (request queue, worker, result queue) holds at most one item of each    *)
(* type, an item has its in-flight flag up, and event items are about the  *)
(* head of the queue.                                                      *)
(***************************************************************************)
Alone(s) == \A i, j \in DOMAIN s : s[i].type = s[j].type => i = j
Apart(s, t) == \A i \in DOMAIN s, j \in DOMAIN t : s[i].type # t[j].type

OneOfEachType ==
  /\ Len(worker) <= 1
  /\ Alone(requests) /\ Alone(results)
  /\ Apart(requests, worker) /\ Apart(requests, results)
  /\ Apart(worker, results)

ItemInFlight(x) ==
  /\ x.type = "event" =>
       eventInFlight /\ queue # <<>> /\ x.id = Head(queue)
  /\ x.type = "state" => stateInFlight

AllInFlight(s) == \A i \in DOMAIN s : ItemInFlight(s[i])

(* A success reported for an event is true. *)
RepliesTrue ==
  \A i \in DOMAIN results :
    results[i].type = "event" /\ results[i].ok =>
      results[i].id \in Range(accepted)

(* A flag that is up has its item in the pipe. *)
FlagsJustified ==
  /\ eventInFlight => InPipe("event")
  /\ stateInFlight => InPipe("state")

PipeInv ==
  /\ OneOfEachType
  /\ AllInFlight(requests) /\ AllInFlight(worker) /\ AllInFlight(results)
  /\ FlagsJustified
  /\ RepliesTrue

IInv == TypeOK /\ DataInv /\ PipeInv

(* Steps that leave the pipe, the flags and the head alone. *)
LEMMA PipeUntouched ==
  ASSUME TypeOK, PipeInv, UNCHANGED workerVars,
         UNCHANGED <<eventInFlight, stateInFlight>>,
         queue # <<>> => queue' # <<>> /\ Head(queue') = Head(queue),
         Range(accepted) \subseteq Range(accepted')
  PROVE  PipeInv'
<1> USE DEF workerVars
<1>1. OneOfEachType'
  BY DEF PipeInv, OneOfEachType, Alone, Apart
<1>2. ASSUME NEW x, ItemInFlight(x) PROVE ItemInFlight(x)'
  BY <1>2 DEF ItemInFlight
<1>3. AllInFlight(requests)' /\ AllInFlight(worker)' /\ AllInFlight(results)'
  BY <1>2 DEF PipeInv, AllInFlight
<1>4. RepliesTrue'
  BY DEF PipeInv, RepliesTrue
<1>5. FlagsJustified'
  BY DEF PipeInv, FlagsJustified, InPipe
<1> QED
  BY <1>1, <1>3, <1>4, <1>5 DEF PipeInv

LEMMA MakeEventHead ==
  ASSUME TypeOK, NEW result \in StoreResults, MakeEvent(result)
  PROVE  queue # <<>> => queue' # <<>> /\ Head(queue') = Head(queue)
<1>1. queue \in Seq(Nat) /\ created + 1 \in Nat
  BY DEF TypeOK
<1>2. queue' = queue \/ queue' = Append(queue, created + 1)
  BY DEF MakeEvent, Enqueue, StoreQueue, queueVars
<1> QED
  BY <1>1, <1>2, AppendFacts

(* What is left in a sequence that lost its head. *)
LEMMA TailItems ==
  ASSUME NEW S, NEW s \in Seq(S), s # <<>>
  PROVE  /\ 1 \in DOMAIN s /\ Head(s) = s[1]
         /\ \A i \in DOMAIN Tail(s) :
              i + 1 \in DOMAIN s /\ i + 1 # 1 /\ Tail(s)[i] = s[i + 1]
         /\ \A i, j \in DOMAIN Tail(s) : i + 1 = j + 1 => i = j
  OBVIOUS

LEMMA ReceiveResultPipe ==
  ASSUME TypeOK, PipeInv, NEW result \in StoreResults, ReceiveResult(result)
  PROVE  PipeInv'
<1> DEFINE head == Head(results)
           rest == Tail(results)
<1>1. /\ results \in Seq(Result) /\ results # <<>> /\ results' = rest
      /\ requests' = requests /\ worker' = worker /\ accepted' = accepted
  BY DEF TypeOK, ReceiveResult, cloudVars
<1>2. /\ 1 \in DOMAIN results /\ head = results[1]
      /\ \A i \in DOMAIN rest :
           i + 1 \in DOMAIN results /\ i + 1 # 1 /\ rest[i] = results[i + 1]
      /\ \A i, j \in DOMAIN rest : i + 1 = j + 1 => i = j
  BY <1>1, TailItems
<1> HIDE DEF rest, head
<1>3. OneOfEachType'
  BY <1>1, <1>2 DEF PipeInv, OneOfEachType, Alone, Apart
<1>4. RepliesTrue'
  BY <1>1, <1>2 DEF PipeInv, RepliesTrue
<1>5. /\ \A i \in DOMAIN requests : requests[i].type # head.type
      /\ \A i \in DOMAIN worker : worker[i].type # head.type
      /\ \A i \in DOMAIN rest : rest[i].type # head.type
  BY <1>2 DEF PipeInv, OneOfEachType, Alone, Apart
<1>6. ASSUME NEW x, ItemInFlight(x), x.type # head.type
      PROVE  ItemInFlight(x)'
  <2>1. CASE HandleStateResult(head)
    BY <1>6, <2>1 DEF ItemInFlight, HandleStateResult, queueVars
  <2>2. CASE HandleEventResult(head, result)
    BY <1>6, <2>2 DEF ItemInFlight, HandleEventResult
  <2> QED
    BY <2>1, <2>2 DEF ReceiveResult, head
<1>7. AllInFlight(requests)' /\ AllInFlight(worker)' /\ AllInFlight(results)'
  BY <1>1, <1>2, <1>5, <1>6 DEF PipeInv, AllInFlight
<1>8. FlagsJustified'
  <2>1. ASSUME NEW t, t # head.type, InPipe(t) PROVE InPipe(t)'
    <3>1. CASE \E i \in DOMAIN results : results[i].type = t
      <4>1. PICK i \in DOMAIN results : results[i].type = t
        BY <3>1
      <4>2. i - 1 \in DOMAIN rest /\ rest[i - 1] = results[i]
        BY <1>1, <1>2, <2>1, <4>1 DEF rest
      <4> QED
        BY <1>1, <4>1, <4>2 DEF InPipe
    <3> QED
      BY <1>1, <2>1, <3>1 DEF InPipe
  <2>2. /\ head.type = "event" => ~eventInFlight' /\ stateInFlight' = stateInFlight
        /\ head.type = "state" => ~stateInFlight' /\ eventInFlight' = eventInFlight
        /\ head.type \in {"event", "state"}
    BY DEF ReceiveResult, HandleStateResult, HandleEventResult, head
  <2> QED
    BY <2>1, <2>2 DEF PipeInv, FlagsJustified
<1> QED
  BY <1>3, <1>4, <1>7, <1>8 DEF PipeInv

LEMMA AppendItems ==
  ASSUME NEW S, NEW s \in Seq(S), NEW x \in S
  PROVE  /\ Append(s, x) \in Seq(S)
         /\ Len(s) + 1 \in DOMAIN Append(s, x) /\ Append(s, x)[Len(s) + 1] = x
         /\ Len(s) + 1 \notin DOMAIN s
         /\ \A i \in DOMAIN s :
              i \in DOMAIN Append(s, x) /\ Append(s, x)[i] = s[i]
         /\ \A i \in DOMAIN Append(s, x) : i \in DOMAIN s \/ i = Len(s) + 1
  OBVIOUS

LEMMA AppendAlone ==
  ASSUME NEW S, NEW s \in Seq(S), NEW x \in S, Alone(s),
         \A i \in DOMAIN s : s[i].type # x.type
  PROVE  /\ Alone(Append(s, x))
         /\ \A t : /\ Apart(s, t)
                   /\ \A i \in DOMAIN t : t[i].type # x.type
                   => Apart(Append(s, x), t)
  BY AppendItems DEF Alone, Apart

LEMMA WorkerTakesPipe ==
  ASSUME TypeOK, PipeInv, WorkerTakes
  PROVE  PipeInv'
<1> DEFINE head == Head(requests)
           rest == Tail(requests)
<1>1. /\ requests \in Seq(Request) /\ requests # <<>> /\ requests' = rest
      /\ worker = <<>> /\ worker' = <<head>>
      /\ results' = results /\ accepted' = accepted
      /\ UNCHANGED <<eventInFlight, stateInFlight, queue>>
  BY DEF TypeOK, WorkerTakes, TakeRequest, loopVars, eventVars, queueVars
<1>2. /\ 1 \in DOMAIN requests /\ head = requests[1]
      /\ \A i \in DOMAIN rest :
           i + 1 \in DOMAIN requests /\ i + 1 # 1 /\ rest[i] = requests[i + 1]
      /\ \A i, j \in DOMAIN rest : i + 1 = j + 1 => i = j
  BY <1>1, TailItems
<1>3. Len(worker') = 1 /\ DOMAIN worker' = {1} /\ worker'[1] = head
  BY <1>1
<1>4. ASSUME NEW i \in DOMAIN requests PROVE i = 1 \/ (i - 1 \in DOMAIN rest
                                              /\ rest[i - 1] = requests[i])
  BY <1>1
<1> HIDE DEF rest, head
<1>5. OneOfEachType'
  BY <1>1, <1>2, <1>3 DEF PipeInv, OneOfEachType, Alone, Apart
<1>6. AllInFlight(requests)' /\ AllInFlight(worker)' /\ AllInFlight(results)'
  BY <1>1, <1>2, <1>3 DEF PipeInv, AllInFlight, ItemInFlight
<1>7. RepliesTrue'
  BY <1>1 DEF PipeInv, RepliesTrue
<1>8. FlagsJustified'
  <2>1. ASSUME NEW t, InPipe(t) PROVE InPipe(t)'
    <3>1. CASE \E i \in DOMAIN requests : requests[i].type = t
      <4>1. PICK i \in DOMAIN requests : requests[i].type = t
        BY <3>1
      <4>2. CASE i = 1
        BY <1>2, <1>3, <4>1, <4>2 DEF InPipe
      <4>3. CASE i # 1
        BY <1>1, <1>4, <4>1, <4>3 DEF InPipe
      <4> QED
        BY <4>2, <4>3
    <3>2. CASE \E i \in DOMAIN results : results[i].type = t
      BY <1>1, <3>2 DEF InPipe
    <3> QED
      BY <1>1, <2>1, <3>1, <3>2 DEF InPipe
  <2> QED
    BY <1>1, <2>1 DEF PipeInv, FlagsJustified
<1> QED
  BY <1>5, <1>6, <1>7, <1>8 DEF PipeInv

LEMMA FinishRequestPipe ==
  ASSUME TypeOK, PipeInv, NEW ok \in BOOLEAN, FinishRequest(ok),
         UNCHANGED <<loopVars, cloudVars, eventVars>>,
         ok /\ worker[1].type = "event" => worker[1].id \in Range(accepted)
  PROVE  PipeInv'
<1> DEFINE x == [type |-> worker[1].type, id |-> worker[1].id, ok |-> ok]
<1>1. /\ worker \in Seq(Request) /\ results \in Seq(Result)
      /\ worker # <<>> /\ Len(worker) <= 1
      /\ results' = Append(results, x) /\ worker' = <<>>
      /\ requests' = requests /\ accepted' = accepted
      /\ UNCHANGED <<eventInFlight, stateInFlight, queue>>
  BY DEF TypeOK, FinishRequest, PipeInv, OneOfEachType, loopVars, cloudVars,
         eventVars, queueVars
<1>2. 1 \in DOMAIN worker /\ DOMAIN worker = {1} /\ worker[1] \in Request
  <2>1. Len(worker) \in Nat /\ Len(worker) # 0 /\ DOMAIN worker = 1..Len(worker)
    BY <1>1
  <2>2. Len(worker) = 1
    BY <1>1, <2>1
  <2>3. 1..1 = {1}
    OBVIOUS
  <2> QED
    BY <1>1, <2>1, <2>2, <2>3
<1>3. /\ x \in Result /\ x.type = worker[1].type
      /\ x.id = worker[1].id /\ x.ok = ok
  BY <1>2 DEF Request, Result
<1> HIDE DEF x
<1>4. /\ Len(results) + 1 \in DOMAIN results'
      /\ results'[Len(results) + 1] = x
      /\ \A i \in DOMAIN results :
           i \in DOMAIN results' /\ results'[i] = results[i]
      /\ \A i \in DOMAIN results' : i \in DOMAIN results
                                   \/ i = Len(results) + 1
  BY <1>1, <1>3, AppendItems
<1>5. OneOfEachType'
  <2>1. Alone(results')
    BY <1>1, <1>2, <1>3, AppendAlone DEF PipeInv, OneOfEachType, Apart
  <2>2. Apart(requests, results')
    BY <1>2, <1>3, <1>4 DEF PipeInv, OneOfEachType, Apart
  <2>3. Len(worker') <= 1 /\ DOMAIN worker' = {}
    BY <1>1
  <2> QED
    BY <1>1, <2>1, <2>2, <2>3 DEF PipeInv, OneOfEachType, Apart
<1>6. AllInFlight(requests)' /\ AllInFlight(worker)' /\ AllInFlight(results)'
  <2>1. DOMAIN worker' = {}
    BY <1>1
  <2> QED
    BY <1>1, <1>2, <1>3, <1>4, <2>1 DEF PipeInv, AllInFlight, ItemInFlight
<1>7. RepliesTrue'
  BY <1>1, <1>3, <1>4 DEF PipeInv, RepliesTrue
<1>8. FlagsJustified'
  <2>1. ASSUME NEW t, InPipe(t) PROVE InPipe(t)'
    BY <1>1, <1>2, <1>3, <1>4, <2>1 DEF InPipe
  <2> QED
    BY <1>1, <2>1 DEF PipeInv, FlagsJustified
<1> QED
  BY <1>5, <1>6, <1>7, <1>8 DEF PipeInv

(* One more request, of a type that is not in the pipe, with its flag up. *)
LEMMA PostPipe ==
  ASSUME NEW r \in Seq(Request), NEW x \in Request,
         NEW w \in Seq(Request), NEW q \in Seq(Result),
         Alone(r), Apart(r, w), Apart(r, q),
         \A s \in {r, w, q} : \A i \in DOMAIN s : s[i].type # x.type
  PROVE  /\ Append(r, x) \in Seq(Request)
         /\ Alone(Append(r, x))
         /\ Apart(Append(r, x), w) /\ Apart(Append(r, x), q)
         /\ \A i \in DOMAIN r :
              i \in DOMAIN Append(r, x) /\ Append(r, x)[i] = r[i]
         /\ \E i \in DOMAIN Append(r, x) : Append(r, x)[i] = x
         /\ \A i \in DOMAIN Append(r, x) :
              Append(r, x)[i] = x \/ \E j \in DOMAIN r : Append(r, x)[i] = r[j]
  BY AppendItems, AppendAlone

LEMMA SchedulePipe ==
  ASSUME TypeOK, PipeInv, Schedule
  PROVE  PipeInv'
<1> DEFINE ev == EventRequest(Head(queue))
           mid == IF EventPosted THEN Append(requests, ev) ELSE requests
           end == IF StatePosted THEN Append(mid, StateRequest) ELSE mid
<1>1. /\ requests \in Seq(Request) /\ worker \in Seq(Request)
      /\ results \in Seq(Result)
      /\ worker' = worker /\ results' = results /\ accepted' = accepted
      /\ queue' = queue
      /\ eventInFlight' = (eventInFlight \/ EventPosted)
      /\ stateInFlight' = (stateInFlight \/ StatePosted)
  BY DEF TypeOK, Schedule, cloudVars, eventVars, queueVars
<1>2. StateRequest \in Request /\ StateRequest.type = "state"
  BY DEF StateRequest, Request
<1>3. ASSUME EventPosted
      PROVE  /\ queue # <<>> /\ ~eventInFlight
             /\ ev \in Request /\ ev.type = "event" /\ ev.id = Head(queue)
  <2>1. queue \in Seq(Nat) /\ queue # <<>> /\ ~eventInFlight
    BY <1>3 DEF TypeOK, EventPosted, EventDue
  <2>2. Head(queue) \in Nat
    BY <2>1, TailFacts
  <2> QED
    BY <2>1, <2>2 DEF EventRequest, Request
<1>4. StatePosted => ~stateInFlight
  BY DEF StatePosted, StateDue
<1> HIDE DEF ev
<1>5. /\ \A i \in DOMAIN requests : ItemInFlight(requests[i])
      /\ \A i \in DOMAIN worker : ItemInFlight(worker[i])
      /\ \A i \in DOMAIN results : ItemInFlight(results[i])
      /\ OneOfEachType
  BY DEF PipeInv, AllInFlight
<1>6. /\ mid \in Seq(Request) /\ Alone(mid)
      /\ Apart(mid, worker) /\ Apart(mid, results)
      /\ \A i \in DOMAIN requests : i \in DOMAIN mid /\ mid[i] = requests[i]
      /\ EventPosted => \E i \in DOMAIN mid : mid[i] = ev
      /\ \A i \in DOMAIN mid : \/ EventPosted /\ mid[i] = ev
                            \/ \E j \in DOMAIN requests : mid[i] = requests[j]
  <2>1. CASE EventPosted
    <3>1. \A s \in {requests, worker, results} :
            \A i \in DOMAIN s : s[i].type # ev.type
      BY <1>3, <1>5, <2>1 DEF ItemInFlight
    <3>2. mid = Append(requests, ev)
      BY <2>1
    <3> HIDE DEF mid
    <3> QED
      BY <1>1, <1>3, <1>5, <2>1, <3>1, <3>2, PostPipe DEF OneOfEachType
  <2>2. CASE ~EventPosted
    BY <1>1, <1>5, <2>2 DEF OneOfEachType
  <2> QED
    BY <2>1, <2>2
<1> HIDE DEF mid
<1>7. /\ end \in Seq(Request) /\ Alone(end)
      /\ Apart(end, worker) /\ Apart(end, results)
      /\ \A i \in DOMAIN mid : i \in DOMAIN end /\ end[i] = mid[i]
      /\ StatePosted => \E i \in DOMAIN end : end[i] = StateRequest
      /\ \A i \in DOMAIN end : \/ StatePosted /\ end[i] = StateRequest
                            \/ \E j \in DOMAIN mid : end[i] = mid[j]
  <2>1. CASE StatePosted
    <3>1. \A s \in {requests, worker, results} :
            \A i \in DOMAIN s : s[i].type # StateRequest.type
      BY <1>2, <1>4, <1>5, <2>1 DEF ItemInFlight
    <3>2. \A s \in {mid, worker, results} :
            \A i \in DOMAIN s : s[i].type # StateRequest.type
      BY <1>2, <1>3, <1>6, <3>1
    <3>3. end = Append(mid, StateRequest)
      BY <2>1
    <3> DEFINE x == StateRequest
    <3>4. x \in Request /\ end = Append(mid, x)
      BY <1>2, <3>3
    <3>5. \A s \in {mid, worker, results} : \A i \in DOMAIN s : s[i].type # x.type
      BY <3>2
    <3> HIDE DEF end, x
    <3>6. Alone(mid) /\ Apart(mid, worker) /\ Apart(mid, results)
          /\ mid \in Seq(Request)
      BY <1>6
    <3>7. /\ Append(mid, x) \in Seq(Request)
          /\ Alone(Append(mid, x))
          /\ Apart(Append(mid, x), worker) /\ Apart(Append(mid, x), results)
      BY <1>1, <3>4, <3>5, <3>6, PostPipe
    <3>8. /\ \A i \in DOMAIN mid :
               i \in DOMAIN Append(mid, x) /\ Append(mid, x)[i] = mid[i]
          /\ Append(mid, x)[Len(mid) + 1] = x
          /\ Len(mid) + 1 \in DOMAIN Append(mid, x)
          /\ \A i \in DOMAIN Append(mid, x) :
               i \in DOMAIN mid \/ i = Len(mid) + 1
      BY <3>4, <3>6, AppendItems
    <3> QED
      BY <2>1, <3>4, <3>7, <3>8 DEF x
  <2>2. CASE ~StatePosted
    BY <1>6, <2>2
  <2> QED
    BY <2>1, <2>2
<1>8. requests' = end
  <2>1. ASSUME NEW s \in Seq(Request), NEW x \in Request
        PROVE  s \o <<x>> = Append(s, x) /\ s \o <<>> = s
    OBVIOUS
  <2>2. requests \o (IF EventPosted THEN <<ev>> ELSE <<>>) = mid
    BY <1>1, <1>2, <1>3, <2>1 DEF mid
  <2>3. mid \o (IF StatePosted THEN <<StateRequest>> ELSE <<>>) = end
    BY <1>2, <1>6, <2>1
  <2> QED
    BY <2>2, <2>3 DEF Schedule, ev
<1> HIDE DEF end
<1>9. OneOfEachType'
  BY <1>1, <1>5, <1>7, <1>8 DEF OneOfEachType
<1>10. AllInFlight(requests)' /\ AllInFlight(worker)' /\ AllInFlight(results)'
  <2> DEFINE Held(x) ==
               /\ x.type = "event" =>
                    eventInFlight' /\ queue' # <<>> /\ x.id = Head(queue')
               /\ x.type = "state" => stateInFlight'
  <2>1. ASSUME NEW x, ItemInFlight(x) PROVE Held(x)
    BY <1>1, <2>1 DEF ItemInFlight
  <2>2. EventPosted => Held(ev)
    BY <1>1, <1>3
  <2>3. StatePosted => Held(StateRequest)
    BY <1>1, <1>2
  <2>4. /\ \A i \in DOMAIN requests : Held(requests[i])
        /\ \A i \in DOMAIN worker : Held(worker[i])
        /\ \A i \in DOMAIN results : Held(results[i])
    BY <1>5, <2>1
  <2> HIDE DEF Held
  <2>5. \A i \in DOMAIN mid : Held(mid[i])
    BY <1>6, <2>2, <2>4
  <2>6. \A i \in DOMAIN end : Held(end[i])
    BY <1>7, <2>3, <2>5
  <2> QED
    BY <1>1, <1>8, <2>4, <2>6 DEF AllInFlight, ItemInFlight, Held
<1>11. RepliesTrue'
  BY <1>1 DEF PipeInv, RepliesTrue
<1>12. FlagsJustified'
  <2>1. ASSUME NEW t, InPipe(t) PROVE InPipe(t)'
    BY <1>1, <1>6, <1>7, <1>8, <2>1 DEF InPipe
  <2>2. EventPosted => InPipe("event")'
    BY <1>3, <1>6, <1>7, <1>8 DEF InPipe
  <2>3. StatePosted => InPipe("state")'
    BY <1>2, <1>7, <1>8 DEF InPipe
  <2> QED
    BY <1>1, <2>1, <2>2, <2>3 DEF PipeInv, FlagsJustified
<1> QED
  BY <1>9, <1>10, <1>11, <1>12 DEF PipeInv

LEMMA EmptyPipe ==
  ASSUME requests = <<>>, worker = <<>>, results = <<>>,
         ~eventInFlight, ~stateInFlight
  PROVE  PipeInv
<1>1. /\ Len(worker) = 0 /\ DOMAIN requests = {}
      /\ DOMAIN worker = {} /\ DOMAIN results = {}
  OBVIOUS
<1> QED
  BY <1>1 DEF PipeInv, OneOfEachType, Alone, Apart, AllInFlight,
              FlagsJustified, RepliesTrue
-----------------------------------------------------------------------------
(* The invariant is inductive. *)
LEMMA Inductive ==
  ASSUME IInv, [Next]_vars, TypeOK'
  PROVE  DataInv' /\ PipeInv'
<1> USE DEF IInv, loopVars, cloudVars, eventVars, queueVars, workerVars
<1>1. /\ queue \in Seq(Nat) /\ accepted \in Seq(Nat)
      /\ (UNCHANGED <<queueVars, created, committed, cloudVars>> => DataInv')
  <2>1. ASSUME UNCHANGED <<queueVars, created, committed, cloudVars>>
        PROVE  DataInv'
    <3>1. ASSUME NEW g \in Nat, LeftBehind(g) PROVE LeftBehind(g)'
      BY <2>1, <3>1 DEF LeftBehind
    <3> QED
      BY <2>1, <3>1 DEF DataInv, OrderInv, FlashInv, CommittedInv, SentInv
  <2> QED
    BY <2>1 DEF TypeOK
<1>2. ASSUME NEW result \in StoreResults, ReceiveResult(result)
      PROVE  DataInv' /\ PipeInv'
  <2>1. PipeInv'
    BY <1>2, ReceiveResultPipe
  <2>2. UNCHANGED <<cloudVars, created, committed>>
    BY <1>2 DEF ReceiveResult
  <2>3. CASE /\ HandleEventResult(Head(results), result)
             /\ Acknowledges(Head(results))
    <3>1. 1 \in DOMAIN results /\ Head(results) = results[1]
      BY <1>2, TailItems DEF ReceiveResult, TypeOK
    <3>2. Head(queue) \in Range(accepted)
      BY <2>3, <3>1
      DEF PipeInv, RepliesTrue, Acknowledges, HandleEventResult
    <3>3. Pop(result)
      BY <2>3 DEF HandleEventResult
    <3> QED
      BY <2>1, <2>2, <3>2, <3>3, PopData
  <2>4. CASE /\ HandleEventResult(Head(results), result)
             /\ ~Acknowledges(Head(results))
    BY <1>1, <2>1, <2>2, <2>4 DEF HandleEventResult
  <2>5. CASE HandleStateResult(Head(results))
    BY <1>1, <2>1, <2>2, <2>5 DEF HandleStateResult
  <2> QED
    BY <1>2, <2>3, <2>4, <2>5 DEF ReceiveResult
<1>3. ASSUME NEW result \in StoreResults, MakeEvent(result),
             UNCHANGED <<eventInFlight, stateInFlight, cloudVars, workerVars>>
      PROVE  DataInv' /\ PipeInv'
  BY <1>3, MakeEventData, MakeEventHead, PipeUntouched
<1>4. ASSUME UNCHANGED <<eventInFlight, stateInFlight, cloudVars, eventVars,
                         workerVars>>
      PROVE  DataInv' /\ PipeInv'
  BY <1>1, <1>4, PipeUntouched
<1>5. CASE Schedule
  BY <1>1, <1>5, SchedulePipe DEF Schedule
<1>6. CASE WorkerTakes
  <2>1. DataInv'
    <3>1. /\ requests # <<>> /\ requests \in Seq(Request)
          /\ UNCHANGED <<queueVars, created, committed, accepted>>
      BY <1>6 DEF WorkerTakes, TakeRequest, TypeOK
    <3>2. 1 \in DOMAIN requests /\ Head(requests) = requests[1]
      BY <3>1, TailItems
    <3>3. ItemInFlight(Head(requests))
      BY <3>2 DEF PipeInv, AllInFlight
    <3>4. SentInv'
      BY <1>6, <3>1, <3>3 DEF DataInv, SentInv, WorkerTakes, ItemInFlight
    <3>5. ASSUME NEW g \in Nat, LeftBehind(g) PROVE LeftBehind(g)'
      BY <3>1, <3>5 DEF LeftBehind
    <3> QED
      BY <3>1, <3>4, <3>5 DEF DataInv, OrderInv, FlashInv, CommittedInv
  <2> QED
    BY <1>6, <2>1, WorkerTakesPipe
<1>7. CASE WorkerFails
  BY <1>1, <1>7, FinishRequestPipe DEF WorkerFails
<1>8. CASE WorkerSucceeds
  BY <1>1, <1>8, FinishRequestPipe DEF WorkerSucceeds
<1>9. ASSUME NEW e \in sent, CloudProcesses(e)
      PROVE  DataInv' /\ PipeInv'
  <2>1. Range(accepted) \subseteq Range(accepted')
    <3>1. e \in Nat
      BY DEF TypeOK
    <3> QED
      BY <1>1, <1>9, <3>1, AppendRange DEF CloudProcesses
  <2>2. /\ UNCHANGED workerVars /\ UNCHANGED <<eventInFlight, stateInFlight>>
        /\ queue' = queue
    BY <1>9 DEF CloudProcesses
  <2> QED
    BY <1>9, <2>1, <2>2, CloudData, PipeUntouched
<1>10. CASE Reboot
  <2>1. DataInv'
    BY <1>10, LoadData DEF Reboot, Restarted
  <2>2. PipeInv'
    <3>1. /\ Len(worker') = 0 /\ DOMAIN requests' = {}
          /\ DOMAIN worker' = {} /\ DOMAIN results' = {}
          /\ ~eventInFlight' /\ ~stateInFlight'
      BY <1>10 DEF Reboot, Restarted
    <3> QED
      BY <3>1 DEF PipeInv, OneOfEachType, Alone, Apart, AllInFlight,
                  FlagsJustified, RepliesTrue
  <2> QED
    BY <2>1, <2>2
<1>11. CASE ReceiveDone \/ TimerStage \/ InputNothing \/ GestureUnbound
  BY <1>4, <1>11 DEF ReceiveDone, TimerStage, InputNothing, GestureUnbound
<1>12. CASE RetryElapses \/ PollElapses \/ WifiUp \/ WifiDown
  BY <1>4, <1>12 DEF RetryElapses, PollElapses, WifiUp, WifiDown
<1>13. ASSUME NEW result \in StoreResults,
              TimerFinished(result) \/ Gesture(result)
       PROVE  DataInv' /\ PipeInv'
  BY <1>3, <1>13 DEF TimerFinished, Gesture
<1>14. CASE UNCHANGED vars
  BY <1>4, <1>14 DEF vars
<1> QED
  BY <1>2, <1>5, <1>6, <1>7, <1>8, <1>9, <1>10, <1>11, <1>12, <1>13,
     <1>14 DEF Next, LoopStep

(* The strengthened invariant. *)
THEOREM Invariance ==
  Spec => []IInv
<1>1. Init => DataInv /\ PipeInv
  <2> SUFFICES ASSUME Init PROVE DataInv /\ PipeInv
    OBVIOUS
  <2>1. /\ DOMAIN queue = {} /\ DOMAIN accepted = {} /\ stored = queue
        /\ sent = {} /\ committed = {}
    BY DEF Init
  <2>2. DataInv
    BY <2>1 DEF DataInv, OrderInv, Increasing, FlashInv, CommittedInv, SentInv
  <2>3. PipeInv
    BY EmptyPipe DEF Init, WorkerInit
  <2> QED
    BY <2>2, <2>3
<1>2. TypeOK /\ TypeOK' /\ DataInv /\ PipeInv /\ [Next]_vars
        => DataInv' /\ PipeInv'
  BY Inductive DEF IInv
<1> QED
  BY <1>1, <1>2, TypeCorrect, PTL DEF Spec, IInv
-----------------------------------------------------------------------------
(* The cloud has every event at most once and in the order of creation
   (OnceInOrder; pb_event_queue_pop, pb_runtime.c:345-384). *)
THEOREM DeliveredOnceInOrder ==
  Spec => []OnceInOrder
<1>1. IInv => OnceInOrder
  BY DEF IInv, DataInv, OrderInv, Increasing, OnceInOrder
<1> QED
  BY <1>1, Invariance, PTL

(* No event reaches the cloud while an older one that its caller was told is
   in the queue has not: also not while the cloud refuses the older one, as
   often as it likes (NoOvertaking; pb_runtime.c:384). *)
THEOREM NothingOvertakes ==
  Spec => []NoOvertaking
<1>1. IInv => NoOvertaking
  <2> SUFFICES ASSUME IInv, NEW e \in committed, e \notin Range(accepted),
                      NEW a \in Range(accepted)
               PROVE  a < e
    BY DEF NoOvertaking
  <2>1. /\ e \in Range(queue) /\ accepted \in Seq(Nat) /\ queue \in Seq(Nat)
    BY DEF IInv, TypeOK, DataInv, CommittedInv
  <2>2. PICK i \in DOMAIN accepted, j \in DOMAIN queue :
          a = accepted[i] /\ e = queue[j]
    BY <2>1 DEF Range
  <2>3. a <= e /\ a # e /\ a \in Nat /\ e \in Nat
    BY <2>1, <2>2 DEF IInv, DataInv, OrderInv
  <2> QED
    BY <2>3
<1> QED
  BY <1>1, Invariance, PTL

(* An event whose enqueue succeeded is at the cloud or in both copies of the
   queue (NoEventLost). *)
THEOREM CommittedEventsSurvive ==
  Spec => []NoEventLost
<1>1. IInv => NoEventLost
  <2> SUFFICES ASSUME IInv, NEW e \in committed, e \notin Range(accepted)
               PROVE  e \in Range(queue) /\ e \in Range(stored)
    BY DEF NoEventLost
  <2>1. e \in Range(queue) /\ queue \in Seq(Nat)
    BY DEF IInv, TypeOK, DataInv, CommittedInv
  <2>2. ASSUME queue # <<>>, stored = Tail(queue),
               Head(queue) \in Range(accepted)
        PROVE  e \in Range(stored)
    BY <2>1, <2>2, TailRange
  <2>3. ASSUME NEW g \in Nat, LeftBehind(g)
        PROVE  e \in Range(stored)
    BY <2>1, <2>3, AppendRange DEF LeftBehind
  <2> QED
    BY <2>1, <2>2, <2>3 DEF IInv, DataInv, FlashInv
<1> QED
  BY <1>1, Invariance, PTL

(* The flash copy is at most one write away from the RAM copy
   (FlashTracksRam). *)
THEOREM FlashNeverFarFromRam ==
  Spec => []FlashTracksRam
<1>1. IInv => FlashTracksRam
  <2> SUFFICES ASSUME IInv, NEW g \in Nat, LeftBehind(g)
               PROVE  \E e \in 1..created :
                        stored = Append(queue, e) /\ e \notin committed
    BY DEF IInv, DataInv, FlashInv, FlashTracksRam
  <2> QED
    BY DEF LeftBehind, IInv, TypeOK
<1> QED
  BY <1>1, Invariance, PTL

(* Everything in the pipe is about the head of the queue, also after the queue
   has grown or its removal has failed (pb_runtime.c:256-299,383-400). *)
THEOREM PipeFollowsHead == Spec => []PipeIsHead
<1>1. IInv => PipeIsHead
  BY DEF IInv, PipeInv, AllInFlight, ItemInFlight, PipeIsHead
<1> QED
  BY <1>1, Invariance, PTL

(* An in-flight flag is up exactly while its request or result is in the pipe
   (pb_runtime.c:221-299,374-417). *)
THEOREM FlagsAgree == Spec => []FlagsMatchPipe
<1>1. IInv => FlagsMatchPipe
  <2> SUFFICES ASSUME IInv PROVE FlagsMatchPipe
    OBVIOUS
  <2>1. InPipe("event") => eventInFlight
    BY DEF IInv, PipeInv, AllInFlight, ItemInFlight, InPipe
  <2>2. InPipe("state") => stateInFlight
    BY DEF IInv, PipeInv, AllInFlight, ItemInFlight, InPipe
  <2> QED
    BY <2>1, <2>2 DEF IInv, PipeInv, FlagsJustified, FlagsMatchPipe
<1> QED
  BY <1>1, Invariance, PTL

(* Pipe, flags and queue agree in every reachable state: no event is sent a
   second time while it is on its way, and no traffic stops for good
   (pb_runtime.c:221-299,374-417). *)
THEOREM PipeAgreesWithCore == Spec => []PipeAgrees
<1>1. PipeIsHead /\ FlagsMatchPipe => PipeAgrees
  BY DEF PipeAgrees
<1> QED
  BY <1>1, PipeFollowsHead, FlagsAgree, PTL

(* Two entries per FreeRTOS queue are enough (NoBackpressure). *)
THEOREM QueuesNeverFull ==
  Spec => []NoBackpressure
<1>1. IInv => NoBackpressure
  <2> SUFFICES ASSUME IInv PROVE NoBackpressure
    OBVIOUS
  <2>1. /\ requests \in Seq(Request) /\ results \in Seq(Result)
        /\ worker \in Seq(Request)
        /\ QueueLength \in Nat /\ QueueLength >= 2
    BY QueueLengthAssumption DEF IInv, TypeOK
  <2>2. /\ ~eventInFlight => \A i \in DOMAIN requests : requests[i].type # "event"
        /\ ~stateInFlight => \A i \in DOMAIN requests : requests[i].type # "state"
    BY DEF IInv, PipeInv, AllInFlight, ItemInFlight
  <2>3. ASSUME NEW S, NEW s \in Seq(S), NEW t, Alone(s),
               \A i \in DOMAIN s : s[i].type = t
        PROVE  Len(s) \in Nat /\ Len(s) <= 1
    <3>1. Len(s) \in Nat /\ DOMAIN s = 1..Len(s)
      OBVIOUS
    <3>2. CASE Len(s) >= 2
      <4>1. 1 \in DOMAIN s /\ 2 \in DOMAIN s
        BY <3>1, <3>2
      <4> QED
        BY <2>3, <4>1 DEF Alone
    <3> QED
      BY <3>1, <3>2
  <2>4. \A i \in DOMAIN requests : requests[i].type \in {"event", "state"}
    <3>1. \A i \in DOMAIN requests : requests[i] \in Request
      BY <2>1
    <3> QED
      BY <3>1 DEF Request
  <2>5. ~eventInFlight \/ ~stateInFlight => Len(requests) <= 1
    <3>1. CASE ~eventInFlight
      <4>1. \A i \in DOMAIN requests : requests[i].type = "state"
        BY <2>2, <2>4, <3>1
      <4> QED
        BY <2>1, <2>3, <4>1 DEF IInv, PipeInv, OneOfEachType
    <3>2. CASE ~stateInFlight
      <4>1. \A i \in DOMAIN requests : requests[i].type = "event"
        BY <2>2, <2>4, <3>2
      <4> QED
        BY <2>1, <2>3, <4>1 DEF IInv, PipeInv, OneOfEachType
    <3> QED
      BY <3>1, <3>2
  <2>6. ~eventInFlight /\ ~stateInFlight => Len(requests) = 0
    <3>1. ASSUME ~eventInFlight, ~stateInFlight
          PROVE  DOMAIN requests = {}
      BY <2>2, <2>4, <3>1
    <3> QED
      BY <2>1, <3>1
  <2>7. EventDue => EventPosted
    BY <2>1, <2>5 DEF EventDue, EventPosted, RoomFor
  <2>8. StateDue => StatePosted
    <3>1. CASE EventPosted
      BY <2>1, <2>6, <3>1
      DEF EventPosted, EventDue, StateDue, StatePosted, RoomFor
    <3>2. CASE ~EventPosted
      BY <2>1, <2>5, <3>2 DEF StateDue, StatePosted, RoomFor
    <3> QED
      BY <3>1, <3>2
  <2>9. worker # <<>> => Len(results) < QueueLength
    <3> SUFFICES ASSUME worker # <<>> PROVE Len(results) < QueueLength
      OBVIOUS
    <3>1. 1 \in DOMAIN worker /\ worker[1] \in Request
      BY <2>1
    <3>2. \A i \in DOMAIN results : /\ results[i].type \in {"event", "state"}
                                  /\ results[i].type # worker[1].type
      <4>1. \A i \in DOMAIN results : results[i] \in Result
        BY <2>1
      <4> QED
        BY <3>1, <4>1 DEF IInv, PipeInv, OneOfEachType, Apart, Result
    <3>3. PICK t : \A i \in DOMAIN results : results[i].type = t
      BY <3>1, <3>2 DEF Request
    <3>4. Len(results) \in Nat /\ Len(results) <= 1
      BY <2>1, <2>3, <3>3 DEF IInv, PipeInv, OneOfEachType
    <3> QED
      BY <2>1, <3>4
  <2> QED
    BY <2>7, <2>8, <2>9 DEF NoBackpressure
<1> QED
  BY <1>1, Invariance, PTL
-----------------------------------------------------------------------------
(* Neither copy outgrows the array of the blob (QueueBounded). *)
THEOREM NeverOverfull == Spec => []QueueBounded
<1>1. Init => QueueBounded
  BY CapacityAssumption DEF Init, QueueBounded
<1>2. TypeOK /\ QueueBounded /\ [Next]_vars => QueueBounded'
  <2> SUFFICES ASSUME TypeOK, QueueBounded, [Next]_vars PROVE QueueBounded'
    OBVIOUS
  <2> USE DEF queueVars, eventVars
  <2>1. queue \in Seq(Nat) /\ stored \in Seq(Nat) /\ created \in Nat
    BY DEF TypeOK
  <2>2. UNCHANGED queueVars => QueueBounded'
    BY DEF QueueBounded
  <2>3. ASSUME NEW result, NEW next, Len(next) <= Capacity,
               StoreQueue(next, result)
        PROVE  QueueBounded'
    BY <2>3 DEF StoreQueue, QueueBounded
  <2>4. ASSUME NEW result \in StoreResults, ReceiveResult(result)
        PROVE  QueueBounded'
    <3>1. CASE Acknowledges(Head(results)) /\ Pop(result)
      <4>1. queue # <<>> /\ Len(Tail(queue)) <= Capacity
        BY <2>1, <3>1, CapacityAssumption DEF Pop, QueueBounded
      <4> QED
        BY <2>3, <3>1, <4>1 DEF Pop
    <3> QED
      BY <2>2, <2>4, <3>1
      DEF ReceiveResult, HandleStateResult, HandleEventResult
  <2>5. ASSUME NEW result, MakeEvent(result)
        PROVE  QueueBounded'
    <3>1. CASE Full
      BY <2>2, <2>5, <3>1 DEF MakeEvent, Enqueue
    <3>2. CASE ~Full
      <4>1. Len(Append(queue, created + 1)) <= Capacity
        BY <2>1, <3>2, CapacityAssumption DEF Full
      <4> QED
        BY <2>3, <2>5, <3>2, <4>1 DEF MakeEvent, Enqueue
    <3> QED
      BY <3>1, <3>2
  <2>6. CASE Reboot
    BY <2>6, CapacityAssumption DEF Reboot, Load, QueueBounded
  <2> QED
    BY <2>2, <2>4, <2>5, <2>6
    DEF Next, LoopStep, vars, ReceiveDone, TimerStage, TimerFinished, Schedule,
        InputNothing, GestureUnbound, Gesture, RetryElapses, PollElapses,
        WifiUp, WifiDown, WorkerTakes, WorkerFails, WorkerSucceeds,
        CloudProcesses
<1> QED
  BY <1>1, <1>2, TypeCorrect, PTL DEF Spec

(* A running device removes only the head of its queue, and only once the
   cloud has it (RemovedOnlyAfterAccepted). *)
THEOREM RemovalFollowsAcceptance ==
  Spec => RemovedOnlyAfterAccepted
<1>1. IInv /\ [Next]_vars =>
        [\A e \in Range(queue) \ Range(queue') :
            e = Head(queue) /\ e \in Range(accepted)]_vars
  <2> SUFFICES ASSUME IInv, Next,
                      NEW e \in Range(queue), e \notin Range(queue')
               PROVE  e = Head(queue) /\ e \in Range(accepted)
    OBVIOUS
  <2> USE DEF queueVars, eventVars
  <2>1. /\ queue \in Seq(Nat) /\ queue' # queue
        /\ created + 1 \in Nat
    BY DEF IInv, TypeOK
  <2>2. ASSUME NEW result \in StoreResults, ReceiveResult(result)
        PROVE  e = Head(queue) /\ e \in Range(accepted)
    <3>1. /\ HandleEventResult(Head(results), result)
          /\ Acknowledges(Head(results))
      BY <2>1, <2>2
      DEF ReceiveResult, HandleStateResult, HandleEventResult
    <3>2. Head(results) = results[1] /\ 1 \in DOMAIN results
      BY <2>2, TailItems DEF ReceiveResult, IInv, TypeOK
    <3>3. Head(queue) \in Range(accepted)
      BY <3>1, <3>2
      DEF IInv, PipeInv, RepliesTrue, Acknowledges, HandleEventResult
    <3>4. queue # <<>> /\ queue' = Tail(queue)
      BY <2>1, <3>1 DEF HandleEventResult, Pop, StoreQueue
    <3> QED
      BY <2>1, <3>3, <3>4, TailRange
  <2>3. ASSUME NEW result, MakeEvent(result)
        PROVE  FALSE
    <3>1. queue' = Append(queue, created + 1)
      BY <2>1, <2>3 DEF MakeEvent, Enqueue, StoreQueue
    <3> QED
      BY <2>1, <3>1, AppendRange
  <2>4. CASE Reboot
    <3>1. queue' = stored
      BY <2>4 DEF Reboot, Load
    <3>2. ASSUME NEW g \in Nat, LeftBehind(g) PROVE FALSE
      BY <2>1, <3>1, <3>2, AppendRange DEF LeftBehind
    <3>3. queue # <<>> /\ stored = Tail(queue) /\ Head(queue) \in Range(accepted)
      BY <2>1, <3>1, <3>2 DEF IInv, DataInv, FlashInv
    <3> QED
      BY <2>1, <3>1, <3>3, TailRange
  <2> QED
    BY <2>1, <2>2, <2>3, <2>4
    DEF Next, LoopStep, ReceiveDone, TimerStage, TimerFinished, Schedule,
        InputNothing, GestureUnbound, Gesture, RetryElapses, PollElapses,
        WifiUp, WifiDown, WorkerTakes, WorkerFails, WorkerSucceeds,
        CloudProcesses
<1> QED
  BY <1>1, Invariance, PTL DEF Spec, RemovedOnlyAfterAccepted
-----------------------------------------------------------------------------
(* EventDelivery implements Outbox for every capacity, every length of the
   worker's queues and every set of refused events: under the mapping of
   AbstractOutbox each step of the device, the network, the cloud and the
   power is a step of the outbox or changes nothing of it. *)

(* What the queue looks like from outside. *)
LEMMA Mapping ==
  ASSUME IInv
  PROVE  /\ Undelivered \in Seq(Nat)
         /\ Undelivered = queue \/ (queue # <<>> /\ Undelivered = Tail(queue))
         /\ stored = queue => Tentative = <<>>
         /\ queue # <<>> /\ stored = Tail(queue) => Tentative = <<>>
         /\ \A e \in Nat : stored = Append(queue, e) => Tentative = <<e>>
<1>1. queue \in Seq(Nat) /\ stored \in Seq(Nat)
  BY DEF IInv, TypeOK
<1>2. queue # <<>> => Tail(queue) \in Seq(Nat) /\ Len(Tail(queue)) < Len(queue)
  BY <1>1
<1>3. ASSUME NEW e \in Nat, stored = Append(queue, e) PROVE Tentative = <<e>>
  <2>1. Len(stored) = Len(queue) + 1 /\ stored[Len(queue) + 1] = e
    BY <1>1, <1>3
  <2> QED BY <1>1, <2>1 DEF Tentative
<1> QED
  BY <1>1, <1>2, <1>3 DEF Undelivered, HeadDelivered, Tentative

(* Steps that leave the queue, the flash and the cloud's list alone. *)
LEMMA Stutter ==
  ASSUME UNCHANGED <<queue, stored, accepted>>
  PROVE  UNCHANGED AbstractOutbox!outboxVars
BY DEF AbstractOutbox!outboxVars, Undelivered, HeadDelivered, Tentative

(* A new event is newer than all that the outbox has (pb_event_queue_enqueue). *)
LEMMA NewEventIsNewer ==
  ASSUME IInv PROVE AbstractOutbox!Newer(created + 1)
<1> DEFINE c == created + 1
<1>1. /\ queue \in Seq(Nat) /\ accepted \in Seq(Nat) /\ created \in Nat
      /\ \A i \in DOMAIN queue : queue[i] < c
      /\ \A i \in DOMAIN accepted : accepted[i] < c
  BY DEF IInv, TypeOK, DataInv, OrderInv
<1>2. \A i \in DOMAIN Undelivered : c > Undelivered[i]
  <2>1. CASE Undelivered = queue
    BY <1>1, <2>1
  <2>2. CASE queue # <<>> /\ Undelivered = Tail(queue)
    BY <1>1, <2>2, TailFacts
  <2> QED BY <2>1, <2>2, Mapping
<1>3. \A i \in DOMAIN Tentative : c > Tentative[i]
  <2>1. CASE Tentative = <<>>
    BY <2>1
  <2>2. ASSUME NEW e \in Nat, LeftBehind(e)
        PROVE  \A i \in DOMAIN Tentative : c > Tentative[i]
    <3>1. Tentative = <<e>> /\ c > e
      BY <1>1, <2>2, Mapping DEF LeftBehind
    <3> QED BY <3>1
  <2> QED BY <2>1, <2>2, Mapping DEF IInv, DataInv, FlashInv
<1> QED
  BY <1>1, <1>2, <1>3 DEF AbstractOutbox!Newer

(* enqueue_timer_event, enqueue_action_event. *)
LEMMA MakeEventSteps ==
  ASSUME IInv, NEW result \in StoreResults, MakeEvent(result), UNCHANGED accepted
  PROVE  [AbstractOutbox!Next]_(AbstractOutbox!outboxVars)
<1> DEFINE c == created + 1
           grown == Append(queue, c)
<1>1. /\ queue \in Seq(Nat) /\ accepted \in Seq(Nat) /\ created \in Nat
      /\ c \in 1..MaxEvents /\ c \in Nat /\ c \notin Range(accepted)
  BY DeliveryAssumption
  DEF IInv, TypeOK, DataInv, OrderInv, MakeEvent, Range
<1>2. CASE Full \/ result = "not_written"
  BY <1>2, Stutter DEF MakeEvent, Enqueue, StoreQueue, queueVars
<1>3. CASE ~Full /\ result = "written"
  <2>1. queue' = queue /\ stored' = grown
    BY <1>3 DEF MakeEvent, Enqueue, StoreQueue
  <2>2. Undelivered' = Undelivered
    BY <2>1 DEF Undelivered, HeadDelivered
  <2>3. Tentative' = <<c>>
    <3>1. Len(grown) = Len(queue) + 1 /\ grown[Len(queue) + 1] = c
      BY <1>1
    <3> HIDE DEF grown
    <3> QED BY <1>1, <2>1, <3>1 DEF Tentative
  <2>4. AbstractOutbox!SubmitFails(c)
    BY <2>2, <2>3, NewEventIsNewer DEF AbstractOutbox!SubmitFails
  <2> QED BY <1>1, <2>4 DEF AbstractOutbox!Next
<1>4. CASE ~Full /\ result = "ok"
  <2>1. queue' = grown /\ stored' = grown
    BY <1>4 DEF MakeEvent, Enqueue, StoreQueue
  <2>2. Tentative' = <<>>
    <3> HIDE DEF grown
    <3>1. grown \in Seq(Nat)
      BY <1>1, AppendFacts DEF grown
    <3> QED BY <2>1, <3>1 DEF Tentative
  <2>3. Undelivered' = Append(Undelivered, c)
    <3>1. CASE queue = <<>>
      <4>1. Head(grown) = c
        BY <1>1, <3>1
      <4>2. ~HeadDelivered /\ ~HeadDelivered'
        BY <1>1, <2>1, <3>1, <4>1 DEF HeadDelivered
      <4> QED BY <2>1, <4>2 DEF Undelivered
    <3>2. CASE queue # <<>>
      <4>1. grown # <<>> /\ Head(grown) = Head(queue)
        BY <1>1, <3>2, AppendFacts
      <4>2. HeadDelivered' = HeadDelivered
        BY <2>1, <3>2, <4>1 DEF HeadDelivered
      <4>3. Tail(grown) = Append(Tail(queue), c)
        BY <1>1, <3>2
      <4> QED BY <2>1, <4>2, <4>3 DEF Undelivered
    <3> QED BY <3>1, <3>2
  <2>4. AbstractOutbox!Submit(c)
    BY <2>2, <2>3, NewEventIsNewer DEF AbstractOutbox!Submit
  <2> QED BY <1>1, <2>4 DEF AbstractOutbox!Next
<1> QED BY <1>2, <1>3, <1>4 DEF StoreResults

(* What follows a delivered head is not at the cloud. *)
LEMMA HeadGone ==
  ASSUME IInv, queue # <<>>, Head(queue) \in Range(accepted), Tail(queue) # <<>>
  PROVE  Head(Tail(queue)) \notin Range(accepted)
<1> DEFINE rest == Tail(queue)
<1> SUFFICES ASSUME NEW i \in DOMAIN accepted, accepted[i] = Head(rest)
             PROVE  FALSE
  BY DEF Range
<1>1. queue \in Seq(Nat) /\ accepted \in Seq(Nat) /\ rest \in Seq(Nat)
  BY TailFacts DEF IInv, TypeOK
<1>2. /\ 1 \in DOMAIN queue /\ 2 \in DOMAIN queue /\ Head(rest) = queue[2]
      /\ queue[1] \in Nat /\ queue[2] \in Nat /\ accepted[i] \in Nat
  BY <1>1, TailFacts
<1>3. accepted[i] <= queue[1] /\ queue[1] < queue[2]
  BY <1>2 DEF IInv, DataInv, OrderInv, Increasing
<1> QED BY <1>2, <1>3

(* The head that is removed is at the cloud: for the outbox it has gone, and
   at most a tentative event is forgotten (handle_event_result). *)
LEMMA PopSteps ==
  ASSUME IInv, NEW result \in StoreResults, queue # <<>>, Pop(result),
         Head(queue) \in Range(accepted), UNCHANGED accepted
  PROVE  [AbstractOutbox!Next]_(AbstractOutbox!outboxVars)
<1> DEFINE rest == Tail(queue)
<1>1. queue \in Seq(Nat) /\ accepted \in Seq(Nat) /\ rest \in Seq(Nat)
  BY TailFacts DEF IInv, TypeOK
<1>2. Undelivered = rest
  BY DEF Undelivered, HeadDelivered
<1>3. rest # <<>> => Head(rest) \notin Range(accepted)
  BY HeadGone
<1>4. CASE result = "not_written"
  BY <1>4, Stutter DEF Pop, StoreQueue
<1>5. CASE result \in {"ok", "written"}
  <2>1. stored' = rest /\ queue' \in {queue, rest}
    BY <1>5 DEF Pop, StoreQueue
  <2>2. Undelivered' = Undelivered
    BY <1>2, <1>3, <2>1 DEF Undelivered, HeadDelivered
  <2>3. Tentative' = <<>>
    <3>1. Len(rest) <= Len(queue) /\ Len(rest) \in Nat /\ Len(queue) \in Nat
      BY <1>1, TailFacts
    <3> HIDE DEF rest
    <3> QED BY <2>1, <3>1 DEF Tentative
  <2>4. AbstractOutbox!Forget \/ UNCHANGED AbstractOutbox!outboxVars
    BY <2>2, <2>3 DEF AbstractOutbox!Forget, AbstractOutbox!outboxVars
  <2> QED BY <2>4 DEF AbstractOutbox!Next
<1> QED BY <1>4, <1>5 DEF StoreResults

(* An event that is new to the cloud is the head, which is thereby delivered
   (accept_event). *)
LEMMA CloudSteps ==
  ASSUME IInv, NEW e \in sent, CloudProcesses(e)
  PROVE  [AbstractOutbox!Next]_(AbstractOutbox!outboxVars)
<1>1. UNCHANGED <<queue, stored>>
  BY DEF CloudProcesses, eventVars, queueVars
<1>2. CASE e \in Range(accepted)
  BY <1>1, <1>2, Stutter DEF CloudProcesses
<1>3. CASE e \notin Range(accepted)
  <2>1. queue # <<>> /\ e = Head(queue) /\ accepted' = Append(accepted, e)
    BY <1>3 DEF IInv, DataInv, SentInv, CloudProcesses
  <2>2. accepted \in Seq(Nat) /\ e \in Nat
    BY DEF IInv, TypeOK
  <2>3. e \in Range(accepted')
    BY <2>1, <2>2, AppendRange
  <2>4. Undelivered = queue /\ Undelivered' = Tail(queue)
    BY <1>1, <1>3, <2>1, <2>3 DEF Undelivered, HeadDelivered
  <2>5. Tentative' = Tentative
    BY <1>1 DEF Tentative
  <2>6. AbstractOutbox!Deliver
    BY <2>1, <2>4, <2>5 DEF AbstractOutbox!Deliver
  <2> QED BY <2>6 DEF AbstractOutbox!Next
<1> QED BY <1>2, <1>3

(* A start finds in the flash what was pending, or that and the event whose
   enqueue had failed (pb_event_queue_init). *)
LEMMA RebootSteps ==
  ASSUME IInv, Reboot
  PROVE  [AbstractOutbox!Next]_(AbstractOutbox!outboxVars)
<1>1. /\ queue' = stored /\ stored' = stored /\ accepted' = accepted
      /\ queue \in Seq(Nat) /\ stored \in Seq(Nat) /\ accepted \in Seq(Nat)
  BY DEF Reboot, Restarted, Load, cloudVars, IInv, TypeOK
<1>2. Tentative' = <<>>
  BY <1>1 DEF Tentative
<1>3. CASE stored = queue
  BY <1>1, <1>3, Stutter
<1>4. CASE queue # <<>> /\ stored = Tail(queue) /\ Head(queue) \in Range(accepted)
  <2>1. Undelivered = stored /\ Tentative = <<>>
    BY <1>4, Mapping DEF Undelivered, HeadDelivered
  <2>2. stored # <<>> => Head(stored) \notin Range(accepted)
    BY <1>4, HeadGone
  <2>3. Undelivered' = stored
    BY <1>1, <2>2 DEF Undelivered, HeadDelivered
  <2> QED BY <1>1, <1>2, <2>1, <2>3 DEF AbstractOutbox!outboxVars
<1>5. ASSUME NEW e \in Nat, LeftBehind(e)
      PROVE  [AbstractOutbox!Next]_(AbstractOutbox!outboxVars)
  <2>1. Tentative = <<e>> /\ stored = Append(queue, e)
    BY <1>5, Mapping DEF LeftBehind
  <2>2. Undelivered' = Append(Undelivered, e)
    <3>1. CASE queue = <<>>
      <4>1. stored # <<>> /\ Head(stored) = e
        BY <1>1, <2>1, <3>1
      <4>2. e \notin Range(accepted)
        BY <1>1, <1>5 DEF LeftBehind, Range
      <4>3. Undelivered' = stored /\ Undelivered = queue
        BY <1>1, <3>1, <4>1, <4>2 DEF Undelivered, HeadDelivered
      <4> QED BY <2>1, <4>3
    <3>2. CASE queue # <<>>
      <4>1. stored # <<>> /\ Head(stored) = Head(queue)
        BY <1>1, <2>1, <3>2, AppendFacts
      <4>2. HeadDelivered' = HeadDelivered
        BY <1>1, <3>2, <4>1 DEF HeadDelivered
      <4>3. Tail(stored) = Append(Tail(queue), e)
        BY <1>1, <2>1, <3>2
      <4> QED BY <1>1, <2>1, <4>2, <4>3 DEF Undelivered
    <3> QED BY <3>1, <3>2
  <2>3. Append(Undelivered, e) = Undelivered \o Tentative
    BY <2>1, Mapping
  <2>4. AbstractOutbox!Recover
    BY <1>1, <1>2, <2>1, <2>2, <2>3 DEF AbstractOutbox!Recover
  <2> QED BY <2>4 DEF AbstractOutbox!Next
<1> QED BY <1>3, <1>4, <1>5 DEF IInv, DataInv, FlashInv

LEMMA OutboxSteps ==
  IInv /\ [Next]_vars => [AbstractOutbox!Next]_(AbstractOutbox!outboxVars)
<1> SUFFICES ASSUME IInv, [Next]_vars
             PROVE  [AbstractOutbox!Next]_(AbstractOutbox!outboxVars)
  OBVIOUS
<1> USE DEF loopVars, cloudVars, eventVars, queueVars, workerVars
<1>1. ASSUME NEW result \in StoreResults, ReceiveResult(result)
      PROVE  [AbstractOutbox!Next]_(AbstractOutbox!outboxVars)
  <2> DEFINE r == Head(results)
  <2>1. accepted' = accepted
    BY <1>1 DEF ReceiveResult
  <2>2. CASE HandleStateResult(r) \/ (HandleEventResult(r, result) /\ ~Acknowledges(r))
    BY <2>1, <2>2, Stutter DEF HandleStateResult, HandleEventResult
  <2>3. CASE HandleEventResult(r, result) /\ Acknowledges(r)
    <3>1. queue # <<>> /\ r.id = Head(queue) /\ r.ok /\ Pop(result)
      BY <2>3 DEF HandleEventResult, Acknowledges
    <3>2. r = results[1] /\ 1 \in DOMAIN results
      BY <1>1 DEF ReceiveResult, IInv, TypeOK
    <3>3. Head(queue) \in Range(accepted)
      BY <2>3, <3>1, <3>2
      DEF HandleEventResult, IInv, PipeInv, RepliesTrue
    <3> QED BY <2>1, <3>1, <3>3, PopSteps
  <2> QED BY <1>1, <2>2, <2>3 DEF ReceiveResult
<1>2. CASE ReceiveDone \/ TimerStage \/ Schedule \/ InputNothing \/ GestureUnbound
             \/ RetryElapses \/ PollElapses \/ WifiUp \/ WifiDown
             \/ WorkerTakes \/ WorkerFails \/ WorkerSucceeds
  BY <1>2, Stutter DEF ReceiveDone, TimerStage, Schedule, InputNothing,
    GestureUnbound, RetryElapses, PollElapses, WifiUp, WifiDown, WorkerTakes,
    WorkerFails, WorkerSucceeds
<1>3. ASSUME NEW result \in StoreResults, TimerFinished(result) \/ Gesture(result)
      PROVE  [AbstractOutbox!Next]_(AbstractOutbox!outboxVars)
  BY <1>3, MakeEventSteps DEF TimerFinished, Gesture
<1>4. ASSUME NEW e \in sent, CloudProcesses(e)
      PROVE  [AbstractOutbox!Next]_(AbstractOutbox!outboxVars)
  BY <1>4, CloudSteps
<1>5. CASE Reboot
  BY <1>5, RebootSteps
<1>6. CASE UNCHANGED vars
  BY <1>6, Stutter DEF vars
<1> QED BY <1>1, <1>2, <1>3, <1>4, <1>5, <1>6 DEF Next, LoopStep

(* The event path implements Outbox: the pending events survive restarts and
   reach the cloud one at a time, in order, each once. *)
THEOREM PathIsOutbox == Spec => ImplementsOutbox
<1>1. Init => AbstractOutbox!Init
  BY DEF Init, AbstractOutbox!Init, Undelivered, HeadDelivered, Tentative
<1>2. IInv /\ [Next]_vars => [AbstractOutbox!Next]_(AbstractOutbox!outboxVars)
  BY OutboxSteps
<1> QED
  BY <1>1, <1>2, Invariance, PTL
  DEF Spec, ImplementsOutbox, AbstractOutbox!Spec
=============================================================================
