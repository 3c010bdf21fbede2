------------------------- MODULE DirectorRefinement -------------------------
(***************************************************************************)
(* Director implements Timeline: with the map as the pending callbacks,    *)
(* every step of the queue, of a worker or of a client is a step of the    *)
(* timeline or leaves it alone.                                            *)
(***************************************************************************)
EXTENDS DirectorProofs

\* A step that changes neither the map, the executing callback nor the clocks.
LEMMA TimelineStutters ==
  ASSUME UNCHANGED <<scheduledCallbacks, current, currentLogicalTime, clock>>
  PROVE  UNCHANGED Promised!vars
  BY DEF Promised!vars

\* Scheduling adds a callback to the timeline.
LEMMA ScheduleAdds ==
  ASSUME IInv, NEW r \in Requests, ScheduleCallback(r)
  PROVE  Promised!Next
<1> DEFINE id == nextCallbackId
<1>1. id \in Promised!Ids \ DOMAIN scheduledCallbacks
  <2>1. id < MaxId /\ id \in Nat
    BY DEF ScheduleCallback, IInv, TypeOK
  <2>2. \A i \in DOMAIN scheduledCallbacks : i < id
    BY DEF IInv, IdsAreFresh
  <2> HIDE DEF id
  <2>3. id \in 0..(MaxId - 1)
    BY <2>1, BoundsAssumption
  <2>4. id \notin DOMAIN scheduledCallbacks
    BY <2>1, <2>2
  <2> QED BY <2>3, <2>4 DEF Promised!Ids
<1>2. scheduledCallbacks' =
        [i \in DOMAIN scheduledCallbacks \cup {id} |->
           IF i = id THEN [time |-> currentLogicalTime + r.delay, delay |-> r.delay,
                           periodic |-> r.periodic, priority |-> r.priority]
           ELSE scheduledCallbacks[i]]
  BY DEF ScheduleCallback, With
<1>3. UNCHANGED <<current, currentLogicalTime, clock>>
  BY DEF ScheduleCallback
<1>4. Promised!Add(r)
  <2> HIDE DEF id
  <2> QED BY <1>1, <1>2, <1>3 DEF Promised!Add
<1> QED BY <1>4 DEF Promised!Next

\* Emptying the Director when at most one callback is left is Idle.
LEMMA ResetIsIdle ==
  ASSUME current = NoId, UNCHANGED <<current, clock>>,
         scheduledCallbacks' = <<>>, currentLogicalTime' = clock,
         NEW id, DOMAIN scheduledCallbacks \subseteq {id}
  PROVE  Promised!Next
  BY DEF Promised!Next, Promised!Idle, Promised!NoId, NoId

\* Clearing removes that callback from the timeline, or stutters.
LEMMA ClearRemoves ==
  ASSUME IInv, ~ResetInCallback, NEW id \in Ids, ClearScheduledCallback(id)
  PROVE  Promised!Next
<1> DEFINE queue == Dequeue(callbackQueue, id)
           callbacks == Without(scheduledCallbacks, id)
<1>1. CASE ~NeedsReset(queue, callbacks)
  <2>1. scheduledCallbacks' = callbacks /\ UNCHANGED <<current, currentLogicalTime, clock>>
    BY <1>1 DEF ClearScheduledCallback, timeVars
  <2>2. Promised!Remove(id)
    BY <2>1 DEF Promised!Remove, Without
  <2> QED BY <2>2 DEF Promised!Next, Promised!Ids, Ids
<1>2. CASE NeedsReset(queue, callbacks)
  <2>1. /\ pc = "out" /\ UNCHANGED <<current, clock>>
        /\ scheduledCallbacks' = <<>> /\ currentLogicalTime' = clock
    BY <1>2 DEF ClearScheduledCallback, Reset
  <2>2. current = NoId /\ NoId \notin DOMAIN scheduledCallbacks
    BY <2>1 DEF IInv, ControlOK, TypeOK, Ids, NoId
  <2>3. /\ queue \in Seq(Ids)
        /\ Queued(queue) = DOMAIN scheduledCallbacks \ {id}
    BY <2>2, DequeueFromDirector DEF IInv, QueueMatchesMap
  <2>4. DOMAIN callbacks = DOMAIN scheduledCallbacks \ {id}
    BY DEF Without
  <2>5. DOMAIN scheduledCallbacks \ {id} = {}
    <3> HIDE DEF queue, callbacks
    <3> QED BY <1>2, <2>3, <2>4, NothingQueued DEF NeedsReset
  <2> QED BY <2>1, <2>2, <2>5, ResetIsIdle
<1> QED BY <1>1, <1>2

\* Each callback that HandlePriorityUpdate renumbers is one step of the timeline.
LEMMA UpdateReprioritises ==
  ASSUME IInv, NEW id \in Ids, UpdatePriorityOf(id),
         \E p \in PriorityUpdates : p[2] = update.new
  PROVE  Promised!Next \/ UNCHANGED Promised!vars
<1>1. UNCHANGED <<current, currentLogicalTime, clock>>
  BY DEF UpdatePriorityOf, timeVars
<1>2. id \in DOMAIN scheduledCallbacks
  BY DEF UpdatePriorityOf, IInv, ControlOK
<1>3. CASE scheduledCallbacks[id].priority # update.old
  <2>1. UNCHANGED scheduledCallbacks
    BY <1>3 DEF UpdatePriorityOf
  <2> QED BY <1>1, <2>1, TimelineStutters
<1>4. CASE scheduledCallbacks[id].priority = update.old
  <2>1. scheduledCallbacks' = [scheduledCallbacks EXCEPT ![id].priority = update.new]
    BY <1>4 DEF UpdatePriorityOf, Renumbered
  <2>2. Promised!Reprioritise(id, update.new)
    BY <1>1, <1>2, <2>1 DEF Promised!Reprioritise
  <2> QED BY <2>2 DEF Promised!Next, Promised!Ids, Ids
<1> QED BY <1>3, <1>4

\* A round that starts moves the timeline to the time of its next callback.
LEMMA StartRoundAdvances ==
  ASSUME IInv, StartRound
  PROVE  Promised!Next
<1>1. /\ current = NoId
      /\ UNCHANGED <<scheduledCallbacks, current, clock>>
      /\ currentLogicalTime' = nextScheduledExecutionTime
      /\ nextScheduledExecutionTime <= clock
  BY DEF StartRound, IInv, ControlOK, queueVars, RoundIsDue
<1>2. nextScheduledExecutionTime \in currentLogicalTime..clock
  BY <1>1 DEF IInv, TypeOK, LogicalTimeLags
<1>3. \A id \in DOMAIN scheduledCallbacks \ {current} :
        nextScheduledExecutionTime <= scheduledCallbacks[id].time
  BY DEF IInv, NextIsNotLate, QueueMatchesMap
<1>4. Promised!Advance
  BY <1>1, <1>2, <1>3 DEF Promised!Advance, Promised!Waiting, Promised!NoId, NoId
<1> QED BY <1>4 DEF Promised!Next

\* The callback at the front of the queue is the one the timeline runs next.
LEMMA RunNextRuns ==
  ASSUME IInv, RunNextCallback
  PROVE  Promised!Next
<1> DEFINE id == Head(callbackQueue)
<1>1. /\ current = NoId /\ callbackQueue # <<>> /\ current' = id
      /\ UNCHANGED <<scheduledCallbacks, currentLogicalTime, clock>>
  BY DEF RunNextCallback, IInv, ControlOK, FrontIsDue, timeVars
<1>2. /\ id \in DOMAIN scheduledCallbacks \ {current}
      /\ scheduledCallbacks[id].time \in Nat
      /\ scheduledCallbacks[id].time <= nextScheduledExecutionTime
  BY <1>1, HeadIsNext DEF IInv, RunNextCallback, FrontIsDue
<1>3. Ordered(scheduledCallbacks, Queued(callbackQueue))
  BY QueueIsOrdered DEF IInv, QueueMatchesMap, Ordered
<1>4. \A other \in Queued(callbackQueue) \ {id} : Precedes(scheduledCallbacks, id, other)
  BY <1>1, <1>3, PopKeepsSorted DEF IInv, TypeOK, QueueSorted
<1>5. Queued(callbackQueue) = DOMAIN scheduledCallbacks \ {current}
  BY DEF IInv, QueueMatchesMap
<1>6. scheduledCallbacks[id].time = currentLogicalTime
  <2>1. nextScheduledExecutionTime = currentLogicalTime
    BY DEF IInv, RunNextCallback, RoundIsAtLogicalTime, InRound
  <2>2. nextScheduledExecutionTime <= scheduledCallbacks[id].time
    BY <1>2, <1>5 DEF IInv, NextIsNotLate
  <2> QED BY <1>2, <2>1, <2>2 DEF IInv, TypeOK
<1> HIDE DEF id
<1>7. \A other \in (DOMAIN scheduledCallbacks \ {current}) \ {id} : Promised!Before(id, other)
  BY <1>4, <1>5 DEF Promised!Before, Precedes
<1>8. Promised!Run(id)
  BY <1>1, <1>2, <1>6, <1>7 DEF Promised!Run, Promised!Waiting, Promised!NoId, NoId
<1>9. id \in Promised!Ids
  BY <1>2 DEF IInv, TypeOK, Promised!Ids, Ids
<1> QED BY <1>8, <1>9 DEF Promised!Next

\* A callback that returns goes back to the timeline if it is periodic.
LEMMA ReturnReturns ==
  ASSUME IInv, ReturnFromCallback
  PROVE  Promised!Next
<1>1. /\ current # NoId /\ current' = NoId /\ current \notin Queued(callbackQueue)
      /\ UNCHANGED <<currentLogicalTime, clock>>
  BY DEF ReturnFromCallback, IInv, ControlOK, QueueMatchesMap, timeVars
<1>2. CASE current \notin DOMAIN scheduledCallbacks
  <2>1. scheduledCallbacks' = scheduledCallbacks
    BY <1>2 DEF ReturnFromCallback
  <2>2. scheduledCallbacks = [i \in DOMAIN scheduledCallbacks \ {current} |-> scheduledCallbacks[i]]
    BY <1>2 DEF IInv, TypeOK
  <2>3. Promised!Return
    BY <1>1, <1>2, <2>1, <2>2 DEF Promised!Return, Promised!NoId, NoId
  <2> QED BY <2>3 DEF Promised!Next
<1>3. CASE current \in DOMAIN scheduledCallbacks /\ ~scheduledCallbacks[current].periodic
  <2>1. scheduledCallbacks' = Without(scheduledCallbacks, current)
    BY <1>3 DEF ReturnFromCallback
  <2>2. Promised!Return
    BY <1>1, <1>3, <2>1 DEF Promised!Return, Promised!NoId, NoId, Without
  <2> QED BY <2>2 DEF Promised!Next
<1>4. CASE current \in DOMAIN scheduledCallbacks /\ scheduledCallbacks[current].periodic
  <2>1. scheduledCallbacks' =
          [scheduledCallbacks EXCEPT ![current].time = @ + scheduledCallbacks[current].delay]
    BY <1>4 DEF ReturnFromCallback
  <2>2. Promised!Return
    BY <1>1, <1>4, <2>1 DEF Promised!Return, Promised!NoId, NoId
  <2> QED BY <2>2 DEF Promised!Next
<1> QED BY <1>2, <1>3, <1>4

\* A callback that throws leaves the timeline.
LEMMA ThrowThrows ==
  ASSUME IInv, ThrowFromCallback
  PROVE  Promised!Next
<1>1. /\ current # NoId /\ current' = NoId
      /\ scheduledCallbacks' = Without(scheduledCallbacks, current)
      /\ UNCHANGED <<currentLogicalTime, clock>>
  BY DEF ThrowFromCallback, IInv, ControlOK, timeVars
<1>2. Promised!Throw
  BY <1>1 DEF Promised!Throw, Promised!NoId, NoId, Without
<1> QED BY <1>2 DEF Promised!Next

\* A hand-over stutters, or resets a timeline that is empty.
LEMMA HandOverIdles ==
  ASSUME IInv, HandOver
  PROVE  Promised!Next \/ UNCHANGED Promised!vars
<1>1. current = NoId /\ UNCHANGED <<current, clock>>
  BY DEF HandOver, IInv, ControlOK
<1>2. CASE ~NeedsReset(callbackQueue, scheduledCallbacks)
  BY <1>1, <1>2, TimelineStutters DEF HandOver, queueVars, timeVars
<1>3. CASE NeedsReset(callbackQueue, scheduledCallbacks)
  <2>1. scheduledCallbacks' = <<>> /\ currentLogicalTime' = clock
    BY <1>3 DEF HandOver
  <2>2. DOMAIN scheduledCallbacks \subseteq {NoId}
    <3>1. callbackQueue = <<>> => Queued(callbackQueue) = {}
      BY NothingQueued DEF IInv, TypeOK
    <3>2. Queued(callbackQueue) = DOMAIN scheduledCallbacks \ {NoId}
      BY <1>1 DEF IInv, QueueMatchesMap, HandOver, ControlOK
    <3> QED BY <3>1, <3>2, <1>3 DEF NeedsReset
  <2> QED BY <1>1, <2>1, <2>2, ResetIsIdle
<1> QED BY <1>2, <1>3

-----------------------------------------------------------------------------
\* The pair HandlePriorityUpdate was called with is one of PriorityUpdates.
UpdateIsRequested == pc = "update" => \E p \in PriorityUpdates : p[2] = update.new

\* Priority updates in progress are updates that were requested.
LEMMA UpdateStaysRequested ==
  ASSUME UpdateIsRequested, IInv, [Next]_vars
  PROVE  UpdateIsRequested'
<1> USE DEF UpdateIsRequested
<1>1. ASSUME NEW p \in PriorityUpdates, BeginPriorityUpdate(p[1], p[2]) PROVE UpdateIsRequested'
  BY <1>1 DEF BeginPriorityUpdate
<1>2. ASSUME NEW id \in Ids, UpdatePriorityOf(id) PROVE UpdateIsRequested'
  BY <1>2 DEF UpdatePriorityOf, IInv, TypeOK
<1>3. CASE EndPriorityUpdate
  BY <1>3 DEF EndPriorityUpdate, IInv, TypeOK
<1>4. ASSUME NEW r \in Requests, ScheduleCallback(r) PROVE UpdateIsRequested'
  BY <1>4 DEF ScheduleCallback
<1>5. ASSUME NEW id \in Ids, ClearScheduledCallback(id) PROVE UpdateIsRequested'
  BY <1>5 DEF ClearScheduledCallback
<1>6. CASE StartExecution \/ StopExecution \/ Tick \/ UNCHANGED vars
  BY <1>6 DEF StartExecution, StopExecution, Tick, vars
<1>7. CASE Worker
  BY <1>7 DEF Worker, WakeUp, StartRound, RunNextCallback, ReturnFromCallback,
              ThrowFromCallback, WithoutCurrent, EndRound, HandOver, FinishCanceled
<1> QED BY <1>1, <1>2, <1>3, <1>4, <1>5, <1>6, <1>7 DEF Next, Client

\* Every step of the Director is a step of the timeline or a stutter.
LEMMA NextImplementsTimeline ==
  ASSUME IInv, ~ResetInCallback, UpdateIsRequested, [Next]_vars
  PROVE  [Promised!Next]_(Promised!vars)
<1>1. ASSUME NEW r \in Requests, ScheduleCallback(r) PROVE Promised!Next
  BY <1>1, ScheduleAdds
<1>2. ASSUME NEW id \in Ids, ClearScheduledCallback(id) PROVE Promised!Next
  BY <1>2, ClearRemoves
<1>3. ASSUME NEW id \in Ids, UpdatePriorityOf(id)
      PROVE  Promised!Next \/ UNCHANGED Promised!vars
  <2>1. pc = "update"
    BY <1>3 DEF UpdatePriorityOf
  <2> QED BY <1>3, <2>1, UpdateReprioritises DEF UpdateIsRequested
<1>4. ASSUME NEW p \in PriorityUpdates, BeginPriorityUpdate(p[1], p[2])
      PROVE  UNCHANGED Promised!vars
  BY <1>4, TimelineStutters DEF BeginPriorityUpdate, queueVars, timeVars
<1>5. CASE EndPriorityUpdate \/ StartExecution \/ StopExecution
  BY <1>5, TimelineStutters DEF EndPriorityUpdate, StartExecution, StopExecution, queueVars, timeVars
<1>6. CASE WakeUp \/ EndRound \/ FinishCanceled \/ UNCHANGED vars
  BY <1>6, TimelineStutters DEF WakeUp, EndRound, FinishCanceled, vars, queueVars, timeVars
<1>7. CASE StartRound
  BY <1>7, StartRoundAdvances
<1>8. CASE RunNextCallback
  BY <1>8, RunNextRuns
<1>9. CASE ReturnFromCallback
  BY <1>9, ReturnReturns
<1>10. CASE ThrowFromCallback
  BY <1>10, ThrowThrows
<1>11. CASE HandOver
  BY <1>11, HandOverIdles
<1>12. CASE Tick
  <2>1. Promised!Tick
    BY <1>12 DEF Tick, Promised!Tick, queueVars, timeVars
  <2> QED BY <2>1 DEF Promised!Next
<1> QED BY <1>1, <1>2, <1>3, <1>4, <1>5, <1>6, <1>7, <1>8, <1>9, <1>10, <1>11, <1>12
        DEF Next, Client, Worker

\* The Director, with its threads, tokens, queue and next execution time,
\* keeps the promise of Timeline: callbacks execute one at a time, each at its
\* own time, in the order of time, priority and id.
THEOREM DirectorKeepsItsPromise == ASSUME ~ResetInCallback PROVE Spec => ImplementsTimeline
<1>1. Init => Promised!Init
  BY DEF Init, Promised!Init, NoId, Promised!NoId
<1>2. Init => UpdateIsRequested
  BY DEF Init, UpdateIsRequested
<1>3. UpdateIsRequested /\ IInv /\ [Next]_vars => UpdateIsRequested'
  BY UpdateStaysRequested
<1>4. IInv /\ UpdateIsRequested /\ [Next]_vars => [Promised!Next]_(Promised!vars)
  BY NextImplementsTimeline
<1>5. Spec => Promised!Spec
  BY <1>1, <1>2, <1>3, <1>4, Invariance, PTL DEF Spec, Promised!Spec
<1> QED BY <1>5 DEF ImplementsTimeline
=============================================================================
