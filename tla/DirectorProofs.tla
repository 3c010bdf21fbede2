--------------------------- MODULE DirectorProofs ---------------------------
(***************************************************************************)
(* IInv is an inductive invariant of Director when no running callback     *)
(* clears the last queued callback, and what follows from it.  One lemma   *)
(* per action shows that the action preserves IInv.                        *)
(***************************************************************************)
EXTENDS Director, CallbackQueueProofs

USE BoundsAssumption, RequestsAssumption, NeverAssumption

\* The queue is over records the order is total on.
LEMMA QueueIsOrdered ==
  ASSUME TypeOK
  PROVE  Ordered(scheduledCallbacks, DOMAIN scheduledCallbacks)
<1>1. DOMAIN scheduledCallbacks \subseteq Int
  BY DEF TypeOK, Ids
<1>2. \A id \in DOMAIN scheduledCallbacks : scheduledCallbacks[id] \in Callback
  BY DEF TypeOK
<1> QED BY <1>1, <1>2 DEF Ordered, Callback

\* The first queued callback is the next one due.
LEMMA HeadIsNext ==
  ASSUME TypeOK, QueueSorted, QueueMatchesMap, callbackQueue # <<>>
  PROVE  /\ Head(callbackQueue) \in DOMAIN scheduledCallbacks \ {current}
         /\ GetNextQueuedExecutionTime = scheduledCallbacks[Head(callbackQueue)].time
         /\ GetNextQueuedExecutionTime \in Nat
         /\ \A id \in Queued(callbackQueue) :
              GetNextQueuedExecutionTime <= scheduledCallbacks[id].time
<1>1. Ordered(scheduledCallbacks, Queued(callbackQueue))
  BY QueueIsOrdered DEF QueueMatchesMap, Ordered
<1>2. /\ Head(callbackQueue) \in Queued(callbackQueue)
      /\ \A id \in Queued(callbackQueue) \ {Head(callbackQueue)} :
           Precedes(scheduledCallbacks, Head(callbackQueue), id)
  BY <1>1, PopKeepsSorted DEF TypeOK, QueueSorted
<1>3. GetNextQueuedExecutionTime = scheduledCallbacks[Head(callbackQueue)].time
  BY DEF GetNextQueuedExecutionTime
<1>4. \A id \in Queued(callbackQueue) : scheduledCallbacks[id].time \in Nat
  BY <1>1 DEF Ordered
<1>5. \A id \in Queued(callbackQueue) \ {Head(callbackQueue)} :
        scheduledCallbacks[Head(callbackQueue)].time <= scheduledCallbacks[id].time
  BY <1>2, <1>4 DEF Precedes
<1> QED BY <1>2, <1>3, <1>4, <1>5 DEF QueueMatchesMap

-----------------------------------------------------------------------------
\* The map after a reset is a function from no ids to callbacks.
LEMMA EmptyMap == DOMAIN <<>> = {} /\ <<>> \in [DOMAIN <<>> -> Callback]
<1>1. <<>> \in Seq(Callback) /\ Len(<<>>) = 0
  OBVIOUS
<1>2. <<>> \in [1..Len(<<>>) -> Callback]
  BY <1>1, LenProperties
<1> QED BY <1>1, <1>2

\* A new Director has nothing queued, nothing scheduled and no worker.
LEMMA InitEstablishesIInv == Init => IInv
<1> SUFFICES ASSUME Init PROVE IInv
  OBVIOUS
<1>1. TypeOK
  <2>1. /\ DOMAIN scheduledCallbacks \subseteq Ids
        /\ scheduledCallbacks \in [DOMAIN scheduledCallbacks -> Callback]
    BY EmptyMap DEF Init
  <2>2. callbackQueue \in Seq(Ids)
    BY DEF Init
  <2>3. update \in [from : {"out", "callback"}, old : Nat, new : Nat, left : SUBSET Ids]
    BY DEF Init, NoUpdate
  <2>4. /\ nextCallbackId \in 0..MaxId /\ clock \in 0..Horizon
        /\ currentLogicalTime \in Nat /\ nextScheduledExecutionTime \in Nat
        /\ wakeTime \in Nat \cup {NoWake} /\ current \in Ids \cup {NoId}
        /\ tokenLive \in BOOLEAN /\ canceled \in BOOLEAN
        /\ pc \in {"out", "woken", "round", "callback", "update", "corrupt", "dangling"}
    <3>1. 0 \in 0..MaxId /\ 0 \in 0..Horizon /\ Never \in Nat
      OBVIOUS
    <3> QED BY <3>1 DEF Init
  <2> QED BY <2>1, <2>2, <2>3, <2>4 DEF TypeOK
<1>2. Queued(callbackQueue) = {} /\ Len(callbackQueue) = 0
  BY DEF Init, Queued
<1>3. QueueSorted /\ QueueMatchesMap /\ IdsAreFresh /\ NextIsNotLate
  BY <1>2 DEF Init, QueueSorted, Sorted, QueueMatchesMap, IdsAreFresh, NextIsNotLate, NoId
<1> QED BY <1>1, <1>3 DEF Init, IInv, LogicalTimeLags, RoundIsAtLogicalTime, InRound,
          RunsOnTime, ControlOK, SleepOK, SameIdNeverQueuedTwice, NoId, NoWake

\* Actions that leave the callbacks and the queue alone.
LEMMA CallbacksUnchanged ==
  ASSUME IInv, UNCHANGED <<queueVars, current>>
  PROVE  QueueSorted' /\ QueueMatchesMap' /\ IdsAreFresh'
  BY DEF IInv, queueVars, QueueSorted, QueueMatchesMap, IdsAreFresh, Sorted, Queued, Precedes

\* Time passes: no wake-up is skipped, for Tick waits at the wake time.
LEMMA StepTick == ASSUME IInv, Tick PROVE IInv'
<1> USE DEF IInv, Tick, queueVars, timeVars, workerVars
<1>1. QueueSorted' /\ QueueMatchesMap' /\ IdsAreFresh'
  BY CallbacksUnchanged
<1>2. TypeOK'
  BY DEF TypeOK
<1>3. NextIsNotLate' /\ RoundIsAtLogicalTime' /\ RunsOnTime' /\ ControlOK' /\ SleepOK'
  BY DEF NextIsNotLate, Queued, RoundIsAtLogicalTime, InRound, RunsOnTime, ControlOK, SleepOK, PastSleep
<1>4. LogicalTimeLags' /\ SameIdNeverQueuedTwice'
  BY DEF LogicalTimeLags, SameIdNeverQueuedTwice, TypeOK
<1> QED BY <1>1, <1>2, <1>3, <1>4

\* Execute plans a wake-up for the first queued callback.
LEMMA StepStartExecution == ASSUME IInv, StartExecution PROVE IInv'
<1> USE DEF IInv, StartExecution, StopAndSpawn, queueVars
<1>1. QueueSorted' /\ QueueMatchesMap' /\ IdsAreFresh'
  BY CallbacksUnchanged
<1>2. TypeOK'
  BY DEF TypeOK, PastSleep
<1>3. NextIsNotLate' /\ RoundIsAtLogicalTime' /\ RunsOnTime' /\ ControlOK'
  BY DEF NextIsNotLate, Queued, RoundIsAtLogicalTime, InRound, RunsOnTime, ControlOK
<1>4. SleepOK'
  BY DEF SleepOK, PastSleep, ControlOK, TypeOK
<1>5. LogicalTimeLags' /\ SameIdNeverQueuedTwice'
  BY DEF LogicalTimeLags, SameIdNeverQueuedTwice
<1> QED BY <1>1, <1>2, <1>3, <1>4, <1>5

\* StopExecution leaves no sleeping worker; the queue stays as it is.
LEMMA StepStopExecution == ASSUME IInv, StopExecution PROVE IInv'
<1> USE DEF IInv, StopExecution, Stop, queueVars, timeVars
<1>1. QueueSorted' /\ QueueMatchesMap' /\ IdsAreFresh'
  BY CallbacksUnchanged
<1>2. TypeOK'
  BY DEF TypeOK, PastSleep
<1>3. NextIsNotLate' /\ RoundIsAtLogicalTime' /\ RunsOnTime' /\ ControlOK' /\ SleepOK'
  BY DEF NextIsNotLate, Queued, RoundIsAtLogicalTime, InRound, RunsOnTime, ControlOK, SleepOK
<1>4. LogicalTimeLags' /\ SameIdNeverQueuedTwice'
  BY DEF LogicalTimeLags, SameIdNeverQueuedTwice
<1> QED BY <1>1, <1>2, <1>3, <1>4

\* The worker leaves its sleep with the queue as it was.
LEMMA StepWakeUp == ASSUME IInv, WakeUp PROVE IInv'
<1> USE DEF IInv, WakeUp, queueVars, timeVars
<1>1. QueueSorted' /\ QueueMatchesMap' /\ IdsAreFresh'
  BY CallbacksUnchanged
<1>2. TypeOK'
  BY DEF TypeOK
<1>3. NextIsNotLate' /\ RoundIsAtLogicalTime' /\ RunsOnTime' /\ ControlOK' /\ SleepOK'
  BY DEF NextIsNotLate, Queued, RoundIsAtLogicalTime, InRound, RunsOnTime, ControlOK, SleepOK
<1>4. LogicalTimeLags' /\ SameIdNeverQueuedTwice'
  BY DEF LogicalTimeLags, SameIdNeverQueuedTwice
<1> QED BY <1>1, <1>2, <1>3, <1>4

\* The logical time goes forward to the planned time and no further than the
\* first callback due.
LEMMA StepStartRound == ASSUME IInv, StartRound PROVE IInv'
<1> USE DEF IInv, StartRound, queueVars, workerVars
<1>1. QueueSorted' /\ QueueMatchesMap' /\ IdsAreFresh'
  BY CallbacksUnchanged
<1>2. TypeOK'
  BY DEF TypeOK
<1>3. current = NoId
  BY DEF ControlOK
<1>4. RunsOnTime'
  BY <1>3 DEF RunsOnTime, TypeOK, Ids, NoId
<1>5. NextIsNotLate' /\ RoundIsAtLogicalTime' /\ ControlOK' /\ SleepOK'
  BY <1>3 DEF NextIsNotLate, Queued, RoundIsAtLogicalTime, InRound, ControlOK, SleepOK, PastSleep
<1>6. LogicalTimeLags' /\ SameIdNeverQueuedTwice'
  BY DEF LogicalTimeLags, SameIdNeverQueuedTwice, RoundIsDue, TypeOK
<1> QED BY <1>1, <1>2, <1>4, <1>5, <1>6

\* A worker that was stopped ends and changes nothing of the queue.
LEMMA StepFinishCanceled == ASSUME IInv, FinishCanceled PROVE IInv'
<1> USE DEF IInv, FinishCanceled, queueVars, timeVars
<1>1. QueueSorted' /\ QueueMatchesMap' /\ IdsAreFresh'
  BY CallbacksUnchanged
<1>2. TypeOK'
  BY DEF TypeOK
<1>3. NextIsNotLate' /\ RoundIsAtLogicalTime' /\ RunsOnTime' /\ ControlOK' /\ SleepOK'
  BY DEF NextIsNotLate, Queued, RoundIsAtLogicalTime, InRound, RunsOnTime, ControlOK, SleepOK, PastSleep
<1>4. LogicalTimeLags' /\ SameIdNeverQueuedTwice'
  BY DEF LogicalTimeLags, SameIdNeverQueuedTwice
<1> QED BY <1>1, <1>2, <1>3, <1>4

\* HandlePriorityUpdate begins with nothing renumbered yet.
LEMMA StepBeginPriorityUpdate ==
  ASSUME IInv, NEW p \in PriorityUpdates, BeginPriorityUpdate(p[1], p[2])
  PROVE  IInv'
<1> USE DEF IInv, BeginPriorityUpdate, MayCall, queueVars, timeVars, workerVars
<1>1. QueueSorted' /\ QueueMatchesMap' /\ IdsAreFresh'
  BY CallbacksUnchanged
<1>2. TypeOK'
  <2>1. update' \in [from : {"out", "callback"}, old : Nat, new : Nat, left : SUBSET Ids]
    BY DEF TypeOK
  <2> QED BY <2>1 DEF TypeOK
<1>3. NextIsNotLate' /\ RunsOnTime'
  BY DEF NextIsNotLate, Queued, RunsOnTime
<1>4. ControlOK'
  BY DEF ControlOK
<1>5. RoundIsAtLogicalTime' /\ SleepOK'
  BY DEF RoundIsAtLogicalTime, InRound, SleepOK, PastSleep
<1>6. LogicalTimeLags' /\ SameIdNeverQueuedTwice'
  BY DEF LogicalTimeLags, SameIdNeverQueuedTwice
<1> QED BY <1>1, <1>2, <1>3, <1>4, <1>5, <1>6

\* HandlePriorityUpdate ends with every callback visited.
LEMMA StepEndPriorityUpdate == ASSUME IInv, EndPriorityUpdate PROVE IInv'
<1> USE DEF IInv, EndPriorityUpdate, queueVars, timeVars, workerVars
<1>1. QueueSorted' /\ QueueMatchesMap' /\ IdsAreFresh'
  BY CallbacksUnchanged
<1>2. TypeOK'
  BY DEF TypeOK, NoUpdate
<1>3. NextIsNotLate' /\ RunsOnTime'
  BY DEF NextIsNotLate, Queued, RunsOnTime
<1>4. update.from \in {"out", "callback"}
  BY DEF TypeOK
<1>5. ControlOK' /\ RoundIsAtLogicalTime' /\ SleepOK'
  BY <1>4 DEF ControlOK, RoundIsAtLogicalTime, InRound, SleepOK, PastSleep
<1>6. LogicalTimeLags' /\ SameIdNeverQueuedTwice'
  BY <1>4 DEF LogicalTimeLags, SameIdNeverQueuedTwice
<1> QED BY <1>1, <1>2, <1>3, <1>5, <1>6

\* A round ends when no callback is due: what is left is due later, and the
\* next wake-up is planned for the first of it.
LEMMA StepEndRound == ASSUME IInv, EndRound PROVE IInv'
<1> USE DEF IInv, EndRound, queueVars, workerVars
<1>1. QueueSorted' /\ QueueMatchesMap' /\ IdsAreFresh'
  BY CallbacksUnchanged
<1>2. /\ nextScheduledExecutionTime' \in Nat
      /\ nextScheduledExecutionTime <= nextScheduledExecutionTime' \/ nextScheduledExecutionTime' = Never
      /\ \A id \in Queued(callbackQueue) :
           nextScheduledExecutionTime' <= scheduledCallbacks[id].time
  <2>1. CASE canceled
    BY <2>1 DEF TypeOK, NextIsNotLate
  <2>2. CASE ~canceled /\ callbackQueue = <<>>
    BY <2>2, NothingQueued DEF TypeOK, GetNextQueuedExecutionTime
  <2>3. CASE ~canceled /\ callbackQueue # <<>>
    <3>1. GetNextQueuedExecutionTime > nextScheduledExecutionTime
      BY <2>3, HeadIsNext DEF FrontIsDue, TypeOK
    <3> QED BY <2>3, <3>1, HeadIsNext DEF TypeOK
  <2> QED BY <2>1, <2>2, <2>3
<1>3. TypeOK'
  BY <1>2 DEF TypeOK
<1>4. NextIsNotLate'
  BY <1>2 DEF NextIsNotLate, Queued
<1>5. LogicalTimeLags'
  BY <1>2 DEF LogicalTimeLags, TypeOK
<1>6. current = NoId
  BY DEF ControlOK
<1>7. RunsOnTime' /\ ControlOK' /\ RoundIsAtLogicalTime' /\ SleepOK' /\ SameIdNeverQueuedTwice'
  BY <1>6 DEF RunsOnTime, ControlOK, RoundIsAtLogicalTime, InRound, SleepOK, PastSleep, SameIdNeverQueuedTwice
<1> QED BY <1>1, <1>3, <1>4, <1>5, <1>7

-----------------------------------------------------------------------------
\* Actions that change the callbacks.

\* The first callback leaves the queue and stays in the map while it executes.
LEMMA StepRunNextCallback == ASSUME IInv, RunNextCallback PROVE IInv'
<1> USE DEF IInv, RunNextCallback, timeVars, workerVars
<1>1. callbackQueue # <<>> /\ Ordered(scheduledCallbacks, Queued(callbackQueue))
  BY QueueIsOrdered DEF FrontIsDue, QueueMatchesMap, Ordered
<1>2. /\ current = NoId
      /\ nextScheduledExecutionTime = currentLogicalTime
  BY DEF ControlOK, RoundIsAtLogicalTime, InRound
<1>3. /\ current' \in DOMAIN scheduledCallbacks /\ current' \in Ids /\ current' # NoId
      /\ callbackQueue' \in Seq(Ids)
      /\ Queued(callbackQueue') = Queued(callbackQueue) \ {current'}
      /\ Sorted(callbackQueue', scheduledCallbacks)
  <2>1. current' = Head(callbackQueue) /\ callbackQueue' = Tail(callbackQueue)
    OBVIOUS
  <2>2. Head(callbackQueue) \in DOMAIN scheduledCallbacks
    BY <1>1, HeadIsNext
  <2>3. callbackQueue \in Seq(Ids) /\ Sorted(callbackQueue, scheduledCallbacks)
    BY DEF TypeOK, QueueSorted
  <2>4. /\ Tail(callbackQueue) \in Seq(Ids)
        /\ Queued(Tail(callbackQueue)) = Queued(callbackQueue) \ {Head(callbackQueue)}
        /\ Sorted(Tail(callbackQueue), scheduledCallbacks)
    BY <1>1, <2>3, PopKeepsSorted
  <2>5. Head(callbackQueue) \in Ids
    BY <2>2 DEF TypeOK
  <2> HIDE DEF IInv, RunNextCallback
  <2>6. \A id \in Ids : id # NoId
    BY DEF Ids, NoId
  <2> QED BY <2>1, <2>2, <2>4, <2>5, <2>6
<1>4. QueueSorted' /\ QueueMatchesMap'
  <2>1. NoId \notin DOMAIN scheduledCallbacks
    BY DEF TypeOK, Ids, NoId
  <2>2. Queued(callbackQueue) = DOMAIN scheduledCallbacks
    BY <1>2, <2>1 DEF QueueMatchesMap
  <2> QED BY <1>3, <2>2 DEF QueueSorted, QueueMatchesMap
<1>5. TypeOK'
  BY <1>3 DEF TypeOK
<1>6. NextIsNotLate'
  BY <1>3 DEF NextIsNotLate
<1>7. scheduledCallbacks[current'].time = currentLogicalTime
  <2>1. scheduledCallbacks[current'].time <= nextScheduledExecutionTime
    BY <1>1, HeadIsNext DEF FrontIsDue
  <2>2. nextScheduledExecutionTime <= scheduledCallbacks[current'].time
    BY <1>1, PopKeepsSorted DEF NextIsNotLate, TypeOK, QueueSorted
  <2>3. scheduledCallbacks[current'].time \in Nat
    BY <1>3 DEF TypeOK, Callback
  <2>4. nextScheduledExecutionTime \in Nat
    BY DEF TypeOK
  <2> HIDE DEF IInv, RunNextCallback
  <2> QED BY <2>1, <2>2, <2>3, <2>4, <1>2
<1>8. RunsOnTime' /\ RoundIsAtLogicalTime'
  BY <1>2, <1>7 DEF RunsOnTime, RoundIsAtLogicalTime
<1>9. ControlOK' /\ SleepOK' /\ LogicalTimeLags' /\ SameIdNeverQueuedTwice'
  BY <1>3 DEF ControlOK, SleepOK, PastSleep, LogicalTimeLags, SameIdNeverQueuedTwice
<1>10. IdsAreFresh'
  BY <1>3 DEF IdsAreFresh
<1> QED BY <1>4, <1>5, <1>6, <1>8, <1>9, <1>10

\* Removing the callback that executes, which is not queued.
LEMMA RemoveCurrent ==
  ASSUME IInv, pc = "callback",
         scheduledCallbacks' = Without(scheduledCallbacks, current),
         callbackQueue' = callbackQueue, current' = NoId
  PROVE  /\ DOMAIN scheduledCallbacks' = DOMAIN scheduledCallbacks \ {current}
         /\ scheduledCallbacks' \in [DOMAIN scheduledCallbacks' -> Callback]
         /\ \A id \in Queued(callbackQueue) : scheduledCallbacks'[id] = scheduledCallbacks[id]
         /\ QueueSorted'
         /\ QueueMatchesMap'
<1>1. /\ DOMAIN scheduledCallbacks' = DOMAIN scheduledCallbacks \ {current}
      /\ \A id \in DOMAIN scheduledCallbacks \ {current} :
           scheduledCallbacks'[id] = scheduledCallbacks[id]
      /\ scheduledCallbacks' \in [DOMAIN scheduledCallbacks' -> Callback]
  BY DEF Without, IInv, TypeOK
<1>2. \A id \in Queued(callbackQueue) : scheduledCallbacks'[id] = scheduledCallbacks[id]
  BY <1>1 DEF IInv, QueueMatchesMap
<1>3. Sorted(callbackQueue, scheduledCallbacks')
  BY <1>2, SortedDependsOnQueuedOnly DEF IInv, TypeOK, QueueSorted
<1>4. NoId \notin DOMAIN scheduledCallbacks
  BY DEF IInv, TypeOK, Ids, NoId
<1> QED BY <1>1, <1>2, <1>3, <1>4 DEF IInv, QueueMatchesMap, QueueSorted

\* A callback that throws leaves the map, and the round ends.
LEMMA StepThrowFromCallback == ASSUME IInv, ThrowFromCallback PROVE IInv'
<1> USE DEF ThrowFromCallback, timeVars
<1>0. pc' = "out"
  BY DEF WithoutCurrent, IInv, QueueMatchesMap
<1>1. /\ DOMAIN scheduledCallbacks' = DOMAIN scheduledCallbacks \ {current}
      /\ scheduledCallbacks' \in [DOMAIN scheduledCallbacks' -> Callback]
      /\ \A id \in Queued(callbackQueue) : scheduledCallbacks'[id] = scheduledCallbacks[id]
      /\ QueueSorted' /\ QueueMatchesMap'
  BY RemoveCurrent
<1> USE DEF IInv
<1>2. TypeOK'
  BY <1>0, <1>1 DEF TypeOK
<1>3. NextIsNotLate'
  BY <1>1 DEF NextIsNotLate
<1>4. RunsOnTime'
  BY <1>1 DEF RunsOnTime, TypeOK, Ids, NoId
<1>5. wakeTime = NoWake
  BY DEF SleepOK, PastSleep, ControlOK
<1>6. ControlOK' /\ SleepOK' /\ RoundIsAtLogicalTime' /\ LogicalTimeLags' /\ SameIdNeverQueuedTwice'
  BY <1>0, <1>5 DEF ControlOK, SleepOK, RoundIsAtLogicalTime, InRound, LogicalTimeLags, SameIdNeverQueuedTwice
<1>7. IdsAreFresh'
  BY <1>1 DEF IdsAreFresh, TypeOK, NoId
<1> QED BY <1>1, <1>2, <1>3, <1>4, <1>6, <1>7

\* A periodic callback is queued again at its next time, another one leaves
\* the map; either way the order and the agreement of map and queue survive.
LEMMA StepReturnFromCallback == ASSUME IInv, ReturnFromCallback PROVE IInv'
<1> USE DEF ReturnFromCallback, timeVars, workerVars
<1>1. pc = "callback" /\ current # NoId /\ wakeTime = NoWake
      /\ nextScheduledExecutionTime = currentLogicalTime
      /\ NoId \notin DOMAIN scheduledCallbacks
  BY DEF IInv, ControlOK, SleepOK, PastSleep, RoundIsAtLogicalTime, InRound, TypeOK, Ids, NoId
<1>2. current \notin Queued(callbackQueue)
  BY DEF IInv, QueueMatchesMap
<1>3. /\ DOMAIN scheduledCallbacks' \subseteq DOMAIN scheduledCallbacks
      /\ scheduledCallbacks' \in [DOMAIN scheduledCallbacks' -> Callback]
      /\ callbackQueue' \in Seq(Ids)
      /\ QueueSorted' /\ QueueMatchesMap' /\ NextIsNotLate'
      /\ pc' = "round"
  <2>1. CASE current \notin DOMAIN scheduledCallbacks
    <3>1. UNCHANGED <<scheduledCallbacks, callbackQueue>> /\ pc' = "round" /\ current' = NoId
      BY <2>1
    <3> QED BY <2>1, <3>1, <1>1 DEF IInv, TypeOK, QueueSorted, QueueMatchesMap, NextIsNotLate,
                                    Sorted, Precedes, Queued
  <2>2. CASE current \in DOMAIN scheduledCallbacks /\ ~scheduledCallbacks[current].periodic
    <3>1. /\ scheduledCallbacks' = Without(scheduledCallbacks, current)
          /\ callbackQueue' = callbackQueue /\ pc' = "round" /\ current' = NoId
      BY <1>2, <2>2 DEF WithoutCurrent
    <3>2. /\ DOMAIN scheduledCallbacks' = DOMAIN scheduledCallbacks \ {current}
          /\ scheduledCallbacks' \in [DOMAIN scheduledCallbacks' -> Callback]
          /\ \A id \in Queued(callbackQueue) : scheduledCallbacks'[id] = scheduledCallbacks[id]
          /\ QueueSorted' /\ QueueMatchesMap'
      BY <1>1, <3>1, RemoveCurrent
    <3> QED BY <3>1, <3>2 DEF IInv, TypeOK, NextIsNotLate
  <2>3. CASE current \in DOMAIN scheduledCallbacks /\ scheduledCallbacks[current].periodic
    <3> DEFINE callbacks == [scheduledCallbacks EXCEPT ![current].time = @ + scheduledCallbacks[current].delay]
    <3>1. /\ scheduledCallbacks' = callbacks /\ pc' = "round" /\ current' = NoId
          /\ callbackQueue' = QueueScheduledCallback(callbackQueue, callbacks, current)
      BY <2>3, <1>2
    <3>2. /\ DOMAIN callbacks = DOMAIN scheduledCallbacks
          /\ callbacks \in [DOMAIN callbacks -> Callback]
          /\ \A id \in DOMAIN scheduledCallbacks \ {current} : callbacks[id] = scheduledCallbacks[id]
          /\ callbacks[current].time = scheduledCallbacks[current].time + scheduledCallbacks[current].delay
      <4> DEFINE c == scheduledCallbacks[current]
      <4>1. c \in Callback /\ \A id \in DOMAIN scheduledCallbacks : scheduledCallbacks[id] \in Callback
        BY <2>3 DEF IInv, TypeOK
      <4>2. /\ [c EXCEPT !.time = @ + c.delay] \in Callback
            /\ [c EXCEPT !.time = @ + c.delay].time = c.time + c.delay
        BY <4>1 DEF Callback
      <4>3. /\ DOMAIN callbacks = DOMAIN scheduledCallbacks
            /\ \A id \in DOMAIN scheduledCallbacks :
                 callbacks[id] = IF id = current THEN [c EXCEPT !.time = @ + c.delay]
                                 ELSE scheduledCallbacks[id]
            /\ callbacks = [id \in DOMAIN callbacks |-> callbacks[id]]
        BY <2>3 DEF IInv, TypeOK
      <4> HIDE DEF c, callbacks
      <4>4. \A id \in DOMAIN callbacks : callbacks[id] \in Callback
        BY <4>1, <4>2, <4>3
      <4>5. callbacks \in [DOMAIN callbacks -> Callback]
        BY <4>3, <4>4
      <4> QED BY <2>3, <4>2, <4>3, <4>5 DEF c
    <3> HIDE DEF callbacks
    <3>3. Queued(callbackQueue) \cup {current} = DOMAIN callbacks
      <4>1. DOMAIN callbacks = DOMAIN scheduledCallbacks
        BY <3>2
      <4>2. current \in DOMAIN scheduledCallbacks
        BY <2>3
      <4>3. Queued(callbackQueue) = DOMAIN scheduledCallbacks \ {current}
        BY DEF IInv, QueueMatchesMap
      <4> QED BY <4>1, <4>2, <4>3, Zenon
    <3>4. Ordered(callbacks, Queued(callbackQueue) \cup {current})
      <4>1. DOMAIN callbacks \subseteq Int
        BY <3>2 DEF IInv, TypeOK, Ids
      <4>2. \A id \in DOMAIN callbacks : callbacks[id] \in Callback
        BY <3>2
      <4> QED BY <3>3, <4>1, <4>2 DEF Ordered, Callback
    <3>5. Sorted(callbackQueue, callbacks)
      <4>1. \A id \in Queued(callbackQueue) : callbacks[id] = scheduledCallbacks[id]
        BY <3>2 DEF IInv, QueueMatchesMap
      <4> QED BY <4>1, SortedDependsOnQueuedOnly DEF IInv, TypeOK, QueueSorted
    <3>6. /\ callbackQueue' \in Seq(Ids)
          /\ Queued(callbackQueue') = Queued(callbackQueue) \cup {current}
          /\ Sorted(callbackQueue', callbacks)
      BY <2>3, <3>1, <3>4, <3>5, <1>2, QueueScheduledCallbackSorts DEF IInv, TypeOK
    <3>7. \A id \in DOMAIN callbacks : nextScheduledExecutionTime <= callbacks[id].time
      <4>1. nextScheduledExecutionTime <= callbacks[current].time
        <5>1. scheduledCallbacks[current].time = nextScheduledExecutionTime
          BY <2>3, <1>1 DEF IInv, RunsOnTime
        <5>2. scheduledCallbacks[current] \in Callback
          BY <2>3 DEF IInv, TypeOK
        <5> QED BY <5>1, <5>2, <3>2 DEF Callback
      <4>2. \A id \in Queued(callbackQueue) :
              nextScheduledExecutionTime <= scheduledCallbacks[id].time
        BY DEF IInv, NextIsNotLate
      <4>3. ASSUME NEW id \in DOMAIN callbacks \ {current}
            PROVE  nextScheduledExecutionTime <= callbacks[id].time
        BY <4>2, <3>2, <3>3
      <4> QED BY <4>1, <4>3
    <3>8. QueueSorted' /\ QueueMatchesMap' /\ NextIsNotLate'
      BY <3>1, <3>3, <3>6, <3>7, <3>2, <1>1 DEF QueueSorted, QueueMatchesMap, NextIsNotLate
    <3> QED BY <3>1, <3>2, <3>6, <3>8 DEF IInv, TypeOK
  <2> QED BY <2>1, <2>2, <2>3
<1>4. TypeOK'
  BY <1>3 DEF IInv, TypeOK
<1>5. RunsOnTime'
  BY <1>4 DEF RunsOnTime, TypeOK, Ids, NoId
<1>6. ControlOK' /\ SleepOK' /\ RoundIsAtLogicalTime' /\ LogicalTimeLags' /\ SameIdNeverQueuedTwice'
  BY <1>1, <1>3 DEF IInv, ControlOK, SleepOK, RoundIsAtLogicalTime, LogicalTimeLags, SameIdNeverQueuedTwice
<1>7. IdsAreFresh'
  BY <1>3 DEF IInv, IdsAreFresh, TypeOK, NoId
<1> QED BY <1>3, <1>4, <1>5, <1>6, <1>7 DEF IInv

\* A new id enters map and queue at its place, and a sleeping worker that
\* would wake too late is replaced.
LEMMA StepScheduleCallback ==
  ASSUME IInv, NEW r \in Requests, ScheduleCallback(r)
  PROVE  IInv'
<1> DEFINE id == nextCallbackId
           time == currentLogicalTime + r.delay
           c == [time |-> time, delay |-> r.delay, periodic |-> r.periodic, priority |-> r.priority]
           callbacks == With(scheduledCallbacks, id, c)
<1>1. /\ MayCall /\ id < MaxId /\ nextCallbackId' = id + 1
      /\ scheduledCallbacks' = callbacks
      /\ callbackQueue' = QueueScheduledCallback(callbackQueue, callbacks, id)
      /\ UNCHANGED <<currentLogicalTime, pc, current, update, clock>>
  BY DEF ScheduleCallback
<1>2. /\ id \in Ids /\ id \notin DOMAIN scheduledCallbacks /\ id # current
      /\ DOMAIN scheduledCallbacks \subseteq Ids
  BY <1>1 DEF IInv, TypeOK, Ids, IdsAreFresh
<1>3. c \in Callback /\ c.time = time /\ time \in Nat /\ currentLogicalTime <= time /\ time < Never
  <2>1. r.delay \in Nat /\ r.periodic \in BOOLEAN /\ r.priority \in Nat
    BY DEF Request
  <2>2. currentLogicalTime \in Nat /\ currentLogicalTime <= clock /\ clock <= Horizon /\ clock \in Nat
    BY DEF IInv, TypeOK, LogicalTimeLags
  <2>3. Horizon + r.delay < Never
    OBVIOUS
  <2> QED BY <2>1, <2>2, <2>3 DEF Callback
<1> HIDE DEF c
<1>4. /\ DOMAIN callbacks = DOMAIN scheduledCallbacks \cup {id}
      /\ callbacks[id] = c
      /\ \A i \in DOMAIN scheduledCallbacks : callbacks[i] = scheduledCallbacks[i]
      /\ callbacks \in [DOMAIN callbacks -> Callback]
  <2>1. \A i \in DOMAIN scheduledCallbacks : scheduledCallbacks[i] \in Callback
    BY DEF IInv, TypeOK
  <2> HIDE DEF id
  <2>2. /\ DOMAIN callbacks = DOMAIN scheduledCallbacks \cup {id}
        /\ callbacks[id] = c
        /\ \A i \in DOMAIN scheduledCallbacks \ {id} : callbacks[i] = scheduledCallbacks[i]
        /\ callbacks = [i \in DOMAIN scheduledCallbacks \cup {id} |-> callbacks[i]]
    BY DEF With
  <2> HIDE DEF callbacks
  <2> QED BY <2>1, <2>2, <1>2, <1>3
<1> HIDE DEF callbacks, id, time
<1>5. /\ id \notin Queued(callbackQueue)
      /\ \A i \in Queued(callbackQueue) : i \in DOMAIN scheduledCallbacks
                                        /\ callbacks[i] = scheduledCallbacks[i]
  BY <1>2, <1>4 DEF IInv, QueueMatchesMap
<1>6. Ordered(callbacks, Queued(callbackQueue) \cup {id})
  <2>1. DOMAIN callbacks \subseteq Int
    BY <1>2, <1>4 DEF Ids
  <2>2. \A i \in DOMAIN callbacks : callbacks[i] \in Callback
    BY <1>4
  <2> QED BY <2>1, <2>2, <1>4, <1>5 DEF Ordered, Callback
<1>7. Sorted(callbackQueue, callbacks)
  BY <1>5, SortedDependsOnQueuedOnly DEF IInv, TypeOK, QueueSorted
<1>8. /\ callbackQueue' \in Seq(Ids)
      /\ Queued(callbackQueue') = Queued(callbackQueue) \cup {id}
      /\ Sorted(callbackQueue', callbacks)
  <2>1. callbackQueue \in Seq(Ids) /\ id \in Ids
    BY <1>2 DEF IInv, TypeOK
  <2>2. callbackQueue' = QueueScheduledCallback(callbackQueue, callbacks, id)
    BY <1>1
  <2> QED BY <2>1, <2>2, <1>5, <1>6, <1>7, QueueScheduledCallbackSorts
<1>9. QueueSorted' /\ QueueMatchesMap'
  <2>1. Queued(callbackQueue) = DOMAIN scheduledCallbacks \ {current}
    BY DEF IInv, QueueMatchesMap
  <2>2. Queued(callbackQueue') = DOMAIN callbacks \ {current}
    BY <2>1, <1>2, <1>4, <1>8
  <2> QED BY <2>2, <1>1, <1>8 DEF QueueSorted, QueueMatchesMap
<1>10. IdsAreFresh'
  <2>1. \A i \in DOMAIN scheduledCallbacks \cup {current} : i < id /\ i \in Int
    BY DEF IInv, IdsAreFresh, TypeOK, Ids, NoId, id
  <2>2. id \in Int /\ nextCallbackId' = id + 1 /\ current' = current
    BY <1>1, <1>2 DEF Ids
  <2>3. DOMAIN scheduledCallbacks' = DOMAIN scheduledCallbacks \cup {id}
    BY <1>1, <1>4
  <2> QED BY <2>1, <2>2, <2>3 DEF IdsAreFresh
<1>11. \/ /\ nextScheduledExecutionTime > time
          /\ tokenLive' = TRUE /\ wakeTime' = time /\ canceled' = PastSleep
          /\ nextScheduledExecutionTime' = time
       \/ /\ nextScheduledExecutionTime <= time
          /\ UNCHANGED <<tokenLive, wakeTime, canceled, nextScheduledExecutionTime>>
  BY <1>3 DEF ScheduleCallback, SoonerThanPlanned, StopAndSpawn, workerVars, time, IInv, TypeOK
<1>12. /\ nextScheduledExecutionTime' \in Nat
       /\ nextScheduledExecutionTime' <= time
       /\ nextScheduledExecutionTime' <= nextScheduledExecutionTime
       /\ currentLogicalTime <= nextScheduledExecutionTime'
  BY <1>3, <1>11 DEF IInv, TypeOK, LogicalTimeLags
<1>13. TypeOK'
  <2>1. nextCallbackId' \in 0..MaxId
    BY <1>1 DEF IInv, TypeOK, id
  <2>2. tokenLive' \in BOOLEAN /\ wakeTime' \in Nat \cup {NoWake} /\ canceled' \in BOOLEAN
    BY <1>3, <1>11 DEF IInv, TypeOK, PastSleep
  <2>3. DOMAIN scheduledCallbacks' \subseteq Ids
        /\ scheduledCallbacks' \in [DOMAIN scheduledCallbacks' -> Callback]
    BY <1>1, <1>2, <1>4
  <2> QED BY <2>1, <2>2, <2>3, <1>1, <1>8, <1>12 DEF IInv, TypeOK
<1>14. NextIsNotLate'
  <2> SUFFICES ASSUME NEW i \in Queued(callbackQueue')
               PROVE  nextScheduledExecutionTime' <= scheduledCallbacks'[i].time
    BY DEF NextIsNotLate
  <2>1. CASE i = id
    BY <2>1, <1>1, <1>3, <1>4, <1>12
  <2>2. CASE i \in Queued(callbackQueue)
    <3>1. scheduledCallbacks'[i] = scheduledCallbacks[i] /\ i \in DOMAIN scheduledCallbacks
      BY <2>2, <1>1, <1>5
    <3>2. scheduledCallbacks[i].time \in Nat
      BY <3>1 DEF IInv, TypeOK, Callback
    <3>3. nextScheduledExecutionTime <= scheduledCallbacks[i].time
      BY <2>2 DEF IInv, NextIsNotLate
    <3> QED BY <3>1, <3>2, <3>3, <1>12 DEF IInv, TypeOK
  <2> QED BY <2>1, <2>2, <1>8
<1>15. LogicalTimeLags'
  BY <1>1, <1>12 DEF IInv, LogicalTimeLags
<1>16. RoundIsAtLogicalTime'
  BY <1>1, <1>12 DEF IInv, RoundIsAtLogicalTime, InRound, TypeOK
<1>17. RunsOnTime'
  BY <1>1, <1>2, <1>4 DEF IInv, RunsOnTime
<1>18. ControlOK' /\ SameIdNeverQueuedTwice'
  BY <1>1 DEF IInv, ControlOK, SameIdNeverQueuedTwice, MayCall
<1>19. SleepOK'
  <2>1. CASE current # NoId
    <3>1. nextScheduledExecutionTime <= time /\ wakeTime = NoWake
      BY <2>1, <1>3 DEF IInv, RoundIsAtLogicalTime, InRound, SleepOK, PastSleep
    <3>2. wakeTime' = NoWake
      BY <3>1, <1>3, <1>11 DEF IInv, TypeOK
    <3> QED BY <3>2 DEF SleepOK
  <2>2. CASE current = NoId
    <3>1. pc = "out"
      BY <2>2, <1>1 DEF MayCall, IInv, ControlOK
    <3> QED BY <3>1, <2>2, <1>1, <1>3, <1>11 DEF IInv, SleepOK, PastSleep, TypeOK
  <2> QED BY <2>1, <2>2
<1> QED BY <1>9, <1>10, <1>13, <1>14, <1>15, <1>16, <1>17, <1>18, <1>19 DEF IInv

\* Reset from outside a callback, whether a client or a worker asks for it.
LEMMA EmptyDirector ==
  ASSUME IInv, current = NoId, current' = current, clock' = clock, pc' = "out",
         pc = "out" \/ pc = "woken", UNCHANGED update,
         scheduledCallbacks' = <<>>, callbackQueue' = <<>>, nextCallbackId' = 0,
         currentLogicalTime' = clock, nextScheduledExecutionTime' = Never,
         tokenLive' \in BOOLEAN, wakeTime' \in {NoWake, Never}, canceled' \in BOOLEAN
  PROVE  IInv'
<1>1. TypeOK'
  <2>1. /\ DOMAIN scheduledCallbacks' \subseteq Ids
        /\ scheduledCallbacks' \in [DOMAIN scheduledCallbacks' -> Callback]
    BY EmptyMap
  <2>2. callbackQueue' \in Seq(Ids) /\ nextCallbackId' \in 0..MaxId
    OBVIOUS
  <2>3. currentLogicalTime' \in Nat /\ nextScheduledExecutionTime' \in Nat
        /\ wakeTime' \in Nat \cup {NoWake}
    BY DEF IInv, TypeOK
  <2> QED BY <2>1, <2>2, <2>3 DEF IInv, TypeOK
<1>2. Queued(callbackQueue') = {} /\ Len(callbackQueue') = 0 /\ DOMAIN scheduledCallbacks' = {}
  BY DEF Queued
<1>3. QueueSorted' /\ QueueMatchesMap' /\ IdsAreFresh' /\ NextIsNotLate' /\ RunsOnTime'
  BY <1>2 DEF QueueSorted, Sorted, QueueMatchesMap, IdsAreFresh, NextIsNotLate, RunsOnTime, NoId
<1>4. LogicalTimeLags'
  BY DEF IInv, TypeOK, LogicalTimeLags
<1>5. SleepOK' /\ ControlOK' /\ RoundIsAtLogicalTime' /\ SameIdNeverQueuedTwice'
  BY <1>1 DEF SleepOK, PastSleep, ControlOK, RoundIsAtLogicalTime, InRound,
              SameIdNeverQueuedTwice, TypeOK
<1> QED BY <1>1, <1>3, <1>4, <1>5 DEF IInv

\* The worker resets a Director without callbacks or plans the next wake-up.
LEMMA StepHandOver == ASSUME IInv, HandOver PROVE IInv'
<1>1. current = NoId /\ wakeTime = NoWake
  BY DEF HandOver, IInv, ControlOK, SleepOK, PastSleep
<1>2. CASE NeedsReset(callbackQueue, scheduledCallbacks)
  BY <1>1, <1>2, EmptyDirector DEF HandOver
<1>3. CASE ~NeedsReset(callbackQueue, scheduledCallbacks)
  <2>1. UNCHANGED <<queueVars, timeVars, current, update, clock>>
        /\ wakeTime' = nextScheduledExecutionTime /\ pc' = "out"
        /\ tokenLive' = TRUE /\ canceled' = FALSE /\ pc = "woken"
    BY <1>3 DEF HandOver, timeVars
  <2>2. QueueSorted' /\ QueueMatchesMap' /\ IdsAreFresh'
    BY <2>1, CallbacksUnchanged
  <2> USE DEF queueVars, timeVars, IInv
  <2>3. TypeOK'
    BY <2>1 DEF TypeOK
  <2>4. NextIsNotLate' /\ RunsOnTime' /\ LogicalTimeLags'
    BY <2>1 DEF NextIsNotLate, Queued, RunsOnTime, LogicalTimeLags
  <2>5. SleepOK' /\ ControlOK' /\ RoundIsAtLogicalTime' /\ SameIdNeverQueuedTwice'
    BY <1>1, <2>1 DEF SleepOK, PastSleep, ControlOK, RoundIsAtLogicalTime, InRound,
                      SameIdNeverQueuedTwice, TypeOK
  <2> QED BY <2>2, <2>3, <2>4, <2>5
<1> QED BY <1>2, <1>3

\* What Dequeue does to the Director's queue.
LEMMA DequeueFromDirector ==
  ASSUME IInv, NEW id
  PROVE  /\ Dequeue(callbackQueue, id) \in Seq(Ids)
         /\ Queued(Dequeue(callbackQueue, id)) = Queued(callbackQueue) \ {id}
         /\ Sorted(Dequeue(callbackQueue, id), scheduledCallbacks)
<1>1. Ordered(scheduledCallbacks, Queued(callbackQueue))
  BY QueueIsOrdered DEF IInv, QueueMatchesMap, Ordered
<1>2. callbackQueue \in Seq(Ids) /\ Sorted(callbackQueue, scheduledCallbacks)
  BY DEF IInv, TypeOK, QueueSorted
<1> QED BY <1>1, <1>2, DequeueKeepsSorted

\* A cleared callback leaves map and queue, and an empty Director is reset,
\* which no running callback may cause here.
LEMMA StepClearScheduledCallback ==
  ASSUME IInv, ~ResetInCallback, NEW id \in Ids, ClearScheduledCallback(id)
  PROVE  IInv'
<1> DEFINE queue == Dequeue(callbackQueue, id)
           callbacks == Without(scheduledCallbacks, id)
<1>1. CASE NeedsReset(queue, callbacks)
  <2>1. pc = "out" /\ Reset /\ UNCHANGED <<pc, current, update, clock>>
    BY <1>1 DEF ClearScheduledCallback
  <2>2. current = NoId
    BY <2>1 DEF IInv, ControlOK
  <2> QED BY <2>1, <2>2, EmptyDirector DEF Reset, Stop, PastSleep
<1>2. CASE ~NeedsReset(queue, callbacks)
  <2>1. /\ callbackQueue' = queue /\ scheduledCallbacks' = callbacks
        /\ UNCHANGED <<nextCallbackId, timeVars, workerVars, pc, current, update, clock>>
    BY <1>2 DEF ClearScheduledCallback
  <2>2. /\ queue \in Seq(Ids)
        /\ Queued(queue) = Queued(callbackQueue) \ {id}
        /\ Sorted(queue, scheduledCallbacks)
    BY DequeueFromDirector
  <2>3. /\ DOMAIN callbacks = DOMAIN scheduledCallbacks \ {id}
        /\ \A i \in DOMAIN callbacks : callbacks[i] = scheduledCallbacks[i]
        /\ callbacks \in [DOMAIN callbacks -> Callback]
    BY DEF Without, IInv, TypeOK
  <2> HIDE DEF queue, callbacks
  <2>4. \A i \in Queued(queue) : i \in DOMAIN callbacks /\ i \in Queued(callbackQueue)
    BY <2>2, <2>3 DEF IInv, QueueMatchesMap
  <2>5. Sorted(queue, callbacks)
    BY <2>2, <2>3, <2>4, SortedDependsOnQueuedOnly
  <2>6. QueueSorted' /\ QueueMatchesMap'
    <3>1. Queued(callbackQueue) = DOMAIN scheduledCallbacks \ {current}
      BY DEF IInv, QueueMatchesMap
    <3>2. Queued(queue) = DOMAIN callbacks \ {current}
      BY <2>2, <2>3, <3>1
    <3> QED BY <2>1, <2>5, <3>2 DEF QueueSorted, QueueMatchesMap
  <2>7. TypeOK'
    BY <2>1, <2>2, <2>3 DEF IInv, TypeOK, timeVars, workerVars
  <2>8. IdsAreFresh' /\ NextIsNotLate' /\ RunsOnTime'
    BY <2>1, <2>3, <2>4 DEF IInv, IdsAreFresh, NextIsNotLate, RunsOnTime, timeVars
  <2>9. ControlOK'
    BY <2>1 DEF IInv, ControlOK, ClearScheduledCallback, MayCall
  <2>10. SleepOK' /\ RoundIsAtLogicalTime' /\ LogicalTimeLags' /\ SameIdNeverQueuedTwice'
    BY <2>1 DEF IInv, SleepOK, PastSleep, RoundIsAtLogicalTime, InRound, LogicalTimeLags,
                SameIdNeverQueuedTwice, timeVars, workerVars
  <2> QED BY <2>6, <2>7, <2>8, <2>9, <2>10 DEF IInv
<1> QED BY <1>1, <1>2

\* A queued callback that is renumbered is taken out and inserted at its new
\* place; one that executes is only renumbered.
LEMMA StepUpdatePriorityOf ==
  ASSUME IInv, NEW id \in Ids, UpdatePriorityOf(id)
  PROVE  IInv'
<1> DEFINE callbacks == Renumbered(id)
<1>1. /\ pc = "update" /\ id \in update.left
      /\ update' = [update EXCEPT !.left = @ \ {id}]
      /\ UNCHANGED <<nextCallbackId, timeVars, workerVars, pc, current, clock>>
  BY DEF UpdatePriorityOf
<1>2. /\ id \in DOMAIN scheduledCallbacks /\ update.new \in Nat
      /\ update.left \subseteq DOMAIN scheduledCallbacks
  BY <1>1 DEF IInv, ControlOK, TypeOK
<1>3. /\ update' \in [from : {"out", "callback"}, old : Nat, new : Nat, left : SUBSET Ids]
      /\ update'.from = update.from /\ update'.left \subseteq update.left
  BY <1>1 DEF IInv, TypeOK
<1>4. /\ DOMAIN scheduledCallbacks' = DOMAIN scheduledCallbacks
      /\ scheduledCallbacks' \in [DOMAIN scheduledCallbacks' -> Callback]
      /\ \A i \in DOMAIN scheduledCallbacks : scheduledCallbacks'[i].time = scheduledCallbacks[i].time
      /\ callbackQueue' \in Seq(Ids)
      /\ Queued(callbackQueue') = Queued(callbackQueue)
      /\ QueueSorted'
  <2>1. CASE scheduledCallbacks[id].priority # update.old
    <3>1. UNCHANGED <<scheduledCallbacks, callbackQueue>>
      BY <2>1 DEF UpdatePriorityOf
    <3> QED BY <3>1 DEF IInv, TypeOK, QueueSorted, Sorted, Precedes, Queued
  <2>2. CASE scheduledCallbacks[id].priority = update.old
    <3>1. /\ scheduledCallbacks' = callbacks
          /\ callbackQueue' = Requeue(callbackQueue, callbacks, id)
      BY <2>2 DEF UpdatePriorityOf
    <3>2. /\ DOMAIN callbacks = DOMAIN scheduledCallbacks
          /\ callbacks \in [DOMAIN callbacks -> Callback]
          /\ \A i \in DOMAIN scheduledCallbacks \ {id} : callbacks[i] = scheduledCallbacks[i]
          /\ callbacks[id].time = scheduledCallbacks[id].time
      <4> DEFINE c == scheduledCallbacks[id]
      <4>1. \A i \in DOMAIN scheduledCallbacks : scheduledCallbacks[i] \in Callback
        BY DEF IInv, TypeOK
      <4>2. /\ [c EXCEPT !.priority = update.new] \in Callback
            /\ [c EXCEPT !.priority = update.new].time = c.time
        BY <4>1, <1>2 DEF Callback
      <4>3. /\ DOMAIN callbacks = DOMAIN scheduledCallbacks
            /\ \A i \in DOMAIN scheduledCallbacks :
                 callbacks[i] = IF i = id THEN [c EXCEPT !.priority = update.new]
                                ELSE scheduledCallbacks[i]
            /\ callbacks = [i \in DOMAIN callbacks |-> callbacks[i]]
        BY <1>2 DEF Renumbered, IInv, TypeOK
      <4> HIDE DEF c, callbacks
      <4>4. \A i \in DOMAIN callbacks : callbacks[i] \in Callback
        BY <4>1, <4>2, <4>3
      <4>5. callbacks \in [DOMAIN callbacks -> Callback]
        BY <4>3, <4>4
      <4> QED BY <1>2, <4>2, <4>3, <4>5 DEF c
    <3> HIDE DEF callbacks
    <3>3. \A i \in DOMAIN scheduledCallbacks : callbacks[i].time = scheduledCallbacks[i].time
      BY <3>2
    <3>4. Queued(callbackQueue) \subseteq DOMAIN scheduledCallbacks
      BY DEF IInv, QueueMatchesMap
    <3>5. CASE id \notin Queued(callbackQueue)
      <4>1. callbackQueue' = callbackQueue
        BY <3>1, <3>5 DEF Requeue
      <4>2. \A i \in Queued(callbackQueue) : callbacks[i] = scheduledCallbacks[i]
        BY <3>2, <3>4, <3>5
      <4>3. Sorted(callbackQueue, callbacks)
        BY <4>2, SortedDependsOnQueuedOnly DEF IInv, TypeOK, QueueSorted
      <4> QED BY <3>1, <3>2, <3>3, <4>1, <4>3 DEF IInv, TypeOK, QueueSorted
    <3>6. CASE id \in Queued(callbackQueue)
      <4> DEFINE rest == Dequeue(callbackQueue, id)
      <4>1. callbackQueue' = QueueScheduledCallback(rest, callbacks, id)
        BY <3>1, <3>6 DEF Requeue
      <4>2. /\ rest \in Seq(Ids) /\ Queued(rest) = Queued(callbackQueue) \ {id}
            /\ Sorted(rest, scheduledCallbacks)
        BY DequeueFromDirector
      <4> HIDE DEF rest
      <4>3. \A i \in Queued(rest) : callbacks[i] = scheduledCallbacks[i]
        BY <3>2, <3>4, <4>2
      <4>4. Sorted(rest, callbacks)
        BY <4>2, <4>3, SortedDependsOnQueuedOnly
      <4>5. Ordered(callbacks, Queued(rest) \cup {id})
        <5>1. DOMAIN callbacks \subseteq Int
          BY <3>2 DEF IInv, TypeOK, Ids
        <5>2. \A i \in DOMAIN callbacks : callbacks[i] \in Callback
          BY <3>2
        <5>3. Queued(rest) \cup {id} \subseteq DOMAIN callbacks
          BY <3>2, <3>4, <4>2, <1>2
        <5> QED BY <5>1, <5>2, <5>3 DEF Ordered, Callback
      <4>6. /\ callbackQueue' \in Seq(Ids)
            /\ Queued(callbackQueue') = Queued(rest) \cup {id}
            /\ Sorted(callbackQueue', callbacks)
        BY <4>1, <4>2, <4>4, <4>5, QueueScheduledCallbackSorts
      <4>7. Queued(callbackQueue') = Queued(callbackQueue)
        BY <3>6, <4>2, <4>6
      <4> QED BY <3>1, <3>2, <3>3, <4>6, <4>7 DEF QueueSorted
    <3> QED BY <3>5, <3>6
  <2> QED BY <2>1, <2>2
<1>5. TypeOK'
  BY <1>1, <1>3, <1>4 DEF IInv, TypeOK, timeVars, workerVars
<1>6. QueueMatchesMap' /\ IdsAreFresh' /\ RunsOnTime'
  BY <1>1, <1>4 DEF IInv, QueueMatchesMap, IdsAreFresh, RunsOnTime, timeVars
<1>7. NextIsNotLate'
  BY <1>1, <1>4 DEF IInv, NextIsNotLate, QueueMatchesMap, timeVars
<1>8. ControlOK'
  BY <1>1, <1>3, <1>4 DEF IInv, ControlOK
<1>9. SleepOK' /\ RoundIsAtLogicalTime' /\ LogicalTimeLags' /\ SameIdNeverQueuedTwice'
  BY <1>1 DEF IInv, SleepOK, PastSleep, RoundIsAtLogicalTime, InRound, LogicalTimeLags,
              SameIdNeverQueuedTwice, timeVars, workerVars
<1> QED BY <1>4, <1>5, <1>6, <1>7, <1>8, <1>9 DEF IInv

-----------------------------------------------------------------------------
\* The invariant is inductive: one case for every action of the Director.
LEMMA NextPreservesIInv ==
  ASSUME ~ResetInCallback, IInv, [Next]_vars
  PROVE  IInv'
<1>1. CASE UNCHANGED vars
  <2>1. QueueSorted' /\ QueueMatchesMap' /\ IdsAreFresh'
    BY <1>1, CallbacksUnchanged DEF vars, queueVars
  <2> USE <1>1 DEF IInv, vars, queueVars, timeVars, workerVars
  <2>2. TypeOK'
    BY DEF TypeOK
  <2>3. NextIsNotLate' /\ LogicalTimeLags' /\ RoundIsAtLogicalTime' /\ RunsOnTime'
    BY DEF NextIsNotLate, Queued, LogicalTimeLags, RoundIsAtLogicalTime, InRound, RunsOnTime
  <2>4. ControlOK' /\ SleepOK' /\ SameIdNeverQueuedTwice'
    BY DEF ControlOK, SleepOK, PastSleep, SameIdNeverQueuedTwice
  <2> QED BY <2>1, <2>2, <2>3, <2>4
<1>2. CASE \E r \in Requests : ScheduleCallback(r)
  BY <1>2, StepScheduleCallback
<1>3. CASE \E id \in Ids : ClearScheduledCallback(id)
  BY <1>3, StepClearScheduledCallback
<1>4. CASE \E p \in PriorityUpdates : BeginPriorityUpdate(p[1], p[2])
  BY <1>4, StepBeginPriorityUpdate
<1>5. CASE \E id \in Ids : UpdatePriorityOf(id)
  BY <1>5, StepUpdatePriorityOf
<1>6. CASE EndPriorityUpdate
  BY <1>6, StepEndPriorityUpdate
<1>7. CASE StartExecution
  BY <1>7, StepStartExecution
<1>8. CASE StopExecution
  BY <1>8, StepStopExecution
<1>9. CASE WakeUp
  BY <1>9, StepWakeUp
<1>10. CASE StartRound
  BY <1>10, StepStartRound
<1>11. CASE RunNextCallback
  BY <1>11, StepRunNextCallback
<1>12. CASE ReturnFromCallback
  BY <1>12, StepReturnFromCallback
<1>13. CASE ThrowFromCallback
  BY <1>13, StepThrowFromCallback
<1>14. CASE EndRound
  BY <1>14, StepEndRound
<1>15. CASE HandOver
  BY <1>15, StepHandOver
<1>16. CASE FinishCanceled
  BY <1>16, StepFinishCanceled
<1>17. CASE Tick
  BY <1>17, StepTick
<1> QED BY <1>1, <1>2, <1>3, <1>4, <1>5, <1>6, <1>7, <1>8, <1>9, <1>10, <1>11, <1>12,
           <1>13, <1>14, <1>15, <1>16, <1>17 DEF Next, Client, Worker

\* For every set of requests and every bound, the state of the Director stays
\* in IInv while no running callback clears the last queued callback.
THEOREM Invariance == ASSUME ~ResetInCallback PROVE Spec => []IInv
<1>1. Init => IInv
  BY InitEstablishesIInv
<1>2. IInv /\ [Next]_vars => IInv'
  BY NextPreservesIInv
<1> QED BY <1>1, <1>2, PTL DEF Spec

\* The Director's variables keep their types.
THEOREM TypeCorrect == ASSUME ~ResetInCallback PROVE Spec => []TypeOK
<1>1. IInv => TypeOK
  BY DEF IInv
<1> QED BY <1>1, Invariance, PTL

\* QueueScheduledCallback's three sort levels hold at every moment, through
\* requeueing and renumbering.
THEOREM QueueStaysSorted == ASSUME ~ResetInCallback PROVE Spec => []QueueSorted
<1>1. IInv => QueueSorted
  BY DEF IInv
<1> QED BY <1>1, Invariance, PTL

\* The vector and the map never disagree: no callback is lost or left dangling.
THEOREM QueueStaysInStep == ASSUME ~ResetInCallback PROVE Spec => []QueueMatchesMap
<1>1. IInv => QueueMatchesMap
  BY DEF IInv
<1> QED BY <1>1, Invariance, PTL

\* ExecuteCallbacks runs a callback only at the logical time it is due.
THEOREM CallbacksRunOnTime == ASSUME ~ResetInCallback PROVE Spec => []RunsOnTime
<1>1. IInv => RunsOnTime
  BY DEF IInv
<1> QED BY <1>1, Invariance, PTL

\* A sleeping worker never sleeps past the first queued callback.
THEOREM WorkerNeverOversleeps == ASSUME ~ResetInCallback PROVE Spec => []NoOversleep
<1>1. IInv => NoOversleep
  <2> SUFFICES ASSUME IInv, wakeTime # NoWake, callbackQueue # <<>>
               PROVE  wakeTime <= GetNextQueuedExecutionTime
    BY DEF NoOversleep
  <2>1. wakeTime <= nextScheduledExecutionTime /\ wakeTime \in Nat /\ nextScheduledExecutionTime \in Nat
    BY DEF IInv, SleepOK, TypeOK
  <2>2. /\ Head(callbackQueue) \in DOMAIN scheduledCallbacks \ {current}
        /\ GetNextQueuedExecutionTime = scheduledCallbacks[Head(callbackQueue)].time
        /\ GetNextQueuedExecutionTime \in Nat
    BY HeadIsNext DEF IInv
  <2>3. nextScheduledExecutionTime <= GetNextQueuedExecutionTime
    BY <2>2 DEF IInv, QueueMatchesMap, NextIsNotLate
  <2> QED BY <2>1, <2>2, <2>3
<1> QED BY <1>1, Invariance, PTL
=============================================================================
