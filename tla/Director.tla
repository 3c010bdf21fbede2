------------------------------ MODULE Director ------------------------------
(***************************************************************************)
(* The Director (src/src/Director.cpp): the global callback queue of an    *)
(* accessor model, its logical clock, and the worker threads that execute  *)
(* the queue.                                                              *)
(*                                                                         *)
(* A worker is created asleep by ScheduleNextExecution, wakes at the time  *)
(* it was given, runs rounds (ExecuteCallbacks) while callbacks are due,   *)
(* and before it ends creates the worker that will run the next round.     *)
(* Callbacks are user code: while one is running it may call the Director  *)
(* (schedule, clear, renumber priorities) any number of times, return or   *)
(* throw.  Between rounds the owner of the host makes the same calls, and  *)
(* starts and stops the execution at any moment.                           *)
(*                                                                         *)
(* At most one worker is past its sleep at a time here.                    *)
(***************************************************************************)
EXTENDS CallbackQueue

CONSTANTS
  Requests,         \* what may be scheduled: records [delay, periodic, priority]
  PriorityUpdates,  \* pairs <<old, new>> HandlePriorityUpdate is called with
  MaxId,            \* bound: no callback is scheduled once ids reach MaxId
  Horizon,          \* bound: the physical clock stops at Horizon
  Never,            \* DefaultNextExecutionTime (LLONG_MAX), later than any time
  ResetInCallback   \* may a running callback clear the last queued callback?

Request == [delay : Nat, periodic : BOOLEAN, priority : Nat]

ASSUME BoundsAssumption ==
  MaxId \in Nat /\ Horizon \in Nat /\ Never \in Nat /\ ResetInCallback \in BOOLEAN

ASSUME RequestsAssumption ==
  Requests \subseteq Request /\ PriorityUpdates \subseteq Nat \X Nat

\* LLONG_MAX is later than every execution time that can be computed.
ASSUME NeverAssumption == Horizon < Never /\ \A r \in Requests : Horizon + r.delay < Never

NoId == -1
NoWake == -1

VARIABLES
  nextCallbackId,              \* m_nextCallbackId
  scheduledCallbacks,          \* m_scheduledCallbacks: id -> [time, delay, periodic, priority]
  callbackQueue,               \* m_callbackQueue
  currentLogicalTime,          \* m_currentLogicalTime
  nextScheduledExecutionTime,  \* m_nextScheduledExecutionTime
  tokenLive,  \* m_executionCancellationToken is set (a token that is set is uncanceled)
  wakeTime,   \* when the sleeping worker that holds that token wakes, or NoWake
  pc,         \* where the worker that is past its sleep is; "out" if there is none
  current,    \* id of the callback that is executing, or NoId
  canceled,   \* the token of the worker that is past its sleep was canceled
  update,     \* the progress of HandlePriorityUpdate's loop over the map
  clock       \* PosixUtcInMilliseconds()

queueVars == <<nextCallbackId, scheduledCallbacks, callbackQueue>>
timeVars == <<currentLogicalTime, nextScheduledExecutionTime>>
workerVars == <<tokenLive, wakeTime, canceled>>
vars == <<queueVars, timeVars, workerVars, pc, current, update, clock>>

Ids == 0..(MaxId - 1)
Callback == [time : Nat, delay : Nat, periodic : BOOLEAN, priority : Nat]
NoUpdate == [from |-> "out", old |-> 0, new |-> 0, left |-> {}]

TypeOK ==
  /\ nextCallbackId \in 0..MaxId
  /\ DOMAIN scheduledCallbacks \subseteq Ids
  /\ scheduledCallbacks \in [DOMAIN scheduledCallbacks -> Callback]
  /\ callbackQueue \in Seq(Ids)
  /\ currentLogicalTime \in Nat
  /\ nextScheduledExecutionTime \in Nat
  /\ tokenLive \in BOOLEAN
  /\ wakeTime \in Nat \cup {NoWake}
  /\ pc \in {"out", "woken", "round", "callback", "update", "corrupt", "dangling"}
  /\ current \in Ids \cup {NoId}
  /\ canceled \in BOOLEAN
  /\ update \in [from : {"out", "callback"}, old : Nat, new : Nat, left : SUBSET Ids]
  /\ clock \in 0..Horizon

-----------------------------------------------------------------------------
\* Helpers.

Without(callbacks, id) == [i \in DOMAIN callbacks \ {id} |-> callbacks[i]]
With(callbacks, id, c) == [i \in DOMAIN callbacks \cup {id} |-> IF i = id THEN c ELSE callbacks[i]]

NeedsReset(queue, callbacks) == queue = <<>> \/ DOMAIN callbacks = {}

\* Mutant of GetNextQueuedExecutionTime: an error value for the empty queue.
MinusOneIfEmpty ==
  IF callbackQueue = <<>> THEN -1 ELSE scheduledCallbacks[Head(callbackQueue)].time

GetNextQueuedExecutionTime ==
  IF callbackQueue = <<>> THEN Never ELSE scheduledCallbacks[Head(callbackQueue)].time

\* Mutant of FrontIsDue: the round goes by the physical clock.
FrontIsDueByClock == callbackQueue # <<>> /\ GetNextQueuedExecutionTime <= clock

\* The head of the queue belongs to the round that is executing.
FrontIsDue == callbackQueue # <<>> /\ GetNextQueuedExecutionTime <= nextScheduledExecutionTime

\* Mutant of SoonerThanPlanned: an execution that goes on is left as it is.
SoonerIfStopped(time) == nextScheduledExecutionTime > time /\ ~tokenLive

\* A callback for that time has to wake a worker before the planned one.
SoonerThanPlanned(time) == nextScheduledExecutionTime > time

\* A worker is between its sleep and its end.
PastSleep == pc \in {"woken", "round", "corrupt", "dangling"} \/ current # NoId

\* Cancel and drop the token.  The sleeping worker that holds it ends without
\* touching the Director; the worker that is past its sleep finishes its round.
Stop ==
  /\ tokenLive' = FALSE
  /\ wakeTime' = NoWake
  /\ canceled' = PastSleep

\* Stop, then set m_nextScheduledExecutionTime to time and create a worker
\* that wakes then.  The token it replaces is canceled by Stop.
StopAndSpawn(time) ==
  /\ tokenLive' = TRUE
  /\ wakeTime' = time
  /\ canceled' = PastSleep
  /\ nextScheduledExecutionTime' = time

Reset ==
  /\ Stop
  /\ nextCallbackId' = 0
  /\ scheduledCallbacks' = <<>>
  /\ callbackQueue' = <<>>
  /\ currentLogicalTime' = clock
  /\ nextScheduledExecutionTime' = Never

-----------------------------------------------------------------------------
\* The calls of a client: from a running callback, or between rounds.

MayCall == pc \in {"out", "callback"}

ScheduleCallback(r) ==
  LET id == nextCallbackId
      time == currentLogicalTime + r.delay
      callbacks == With(scheduledCallbacks, id,
                        [time |-> time, delay |-> r.delay,
                         periodic |-> r.periodic, priority |-> r.priority])
  IN  /\ MayCall
      /\ nextCallbackId < MaxId
      /\ nextCallbackId' = nextCallbackId + 1
      /\ scheduledCallbacks' = callbacks
      /\ callbackQueue' = QueueScheduledCallback(callbackQueue, callbacks, id)
      /\ \/ /\ SoonerThanPlanned(time)
            /\ StopAndSpawn(time)
         \/ /\ ~SoonerThanPlanned(time)
            /\ UNCHANGED <<workerVars, nextScheduledExecutionTime>>
      /\ UNCHANGED <<currentLogicalTime, pc, current, update, clock>>

\* id may be stale: an accessor keeps the ids of callbacks that have run.  A
\* running callback that clears the last queued one resets the Director: ids
\* start again although the id of the running callback is in use.
ClearScheduledCallback(id) ==
  LET queue == Dequeue(callbackQueue, id)
      callbacks == Without(scheduledCallbacks, id)
  IN  /\ MayCall
      /\ \/ /\ NeedsReset(queue, callbacks)
            /\ pc = "out" \/ ResetInCallback
            /\ Reset
         \/ /\ ~NeedsReset(queue, callbacks)
            /\ callbackQueue' = queue
            /\ scheduledCallbacks' = callbacks
            /\ UNCHANGED <<nextCallbackId, timeVars, workerVars>>
      /\ UNCHANGED <<pc, current, update, clock>>

\* HandlePriorityUpdate loops over the map in the order of the ids.
BeginPriorityUpdate(old, new) ==
  /\ MayCall
  /\ pc' = "update"
  /\ update' = [from |-> pc, old |-> old, new |-> new, left |-> DOMAIN scheduledCallbacks]
  /\ UNCHANGED <<queueVars, timeVars, workerVars, current, clock>>

Renumbered(id) == [scheduledCallbacks EXCEPT ![id].priority = update.new]

UpdatePriorityOf(id) ==
  /\ pc = "update"
  /\ id \in update.left
  /\ \A other \in update.left : id <= other
  /\ update' = [update EXCEPT !.left = @ \ {id}]
  /\ \/ /\ scheduledCallbacks[id].priority = update.old
        /\ scheduledCallbacks' = Renumbered(id)
        /\ callbackQueue' = Requeue(callbackQueue, Renumbered(id), id)
     \/ /\ scheduledCallbacks[id].priority # update.old
        /\ UNCHANGED <<scheduledCallbacks, callbackQueue>>
  /\ UNCHANGED <<nextCallbackId, timeVars, workerVars, pc, current, clock>>

EndPriorityUpdate ==
  /\ pc = "update"
  /\ update.left = {}
  /\ pc' = update.from
  /\ update' = NoUpdate
  /\ UNCHANGED <<queueVars, timeVars, workerVars, current, clock>>

\* Execute: with no token, create a worker for the next execution time.
StartExecution ==
  /\ pc = "out"
  /\ ~tokenLive
  /\ StopAndSpawn(nextScheduledExecutionTime)
  /\ UNCHANGED <<queueVars, currentLogicalTime, pc, current, update, clock>>

\* StopExecution by the owner of the host, at any moment; also what Execute
\* does after a round that threw, whose future it cannot wait for again.
StopExecution ==
  /\ tokenLive
  /\ Stop
  /\ UNCHANGED <<queueVars, timeVars, pc, current, update, clock>>

-----------------------------------------------------------------------------
\* The worker: ExecuteInternal and ExecuteCallbacks.

\* SleepFor returns at the wake time; the worker is at the head of its loop.
WakeUp ==
  /\ pc = "out"
  /\ wakeTime # NoWake
  /\ wakeTime <= clock
  /\ pc' = "woken"
  /\ wakeTime' = NoWake
  /\ canceled' = FALSE
  /\ UNCHANGED <<queueVars, timeVars, tokenLive, current, update, clock>>

RoundIsDue ==
  /\ ~NeedsReset(callbackQueue, scheduledCallbacks)
  /\ nextScheduledExecutionTime <= clock

StartRound ==
  /\ pc = "woken"
  /\ ~canceled
  /\ RoundIsDue
  /\ pc' = "round"
  /\ currentLogicalTime' = nextScheduledExecutionTime
  /\ UNCHANGED <<queueVars, nextScheduledExecutionTime, workerVars, current, update, clock>>

RunNextCallback ==
  /\ pc = "round"
  /\ FrontIsDue
  /\ current' = Head(callbackQueue)
  /\ callbackQueue' = Tail(callbackQueue)
  /\ pc' = "callback"
  /\ UNCHANGED <<nextCallbackId, scheduledCallbacks, timeVars, workerVars, update, clock>>

\* Where the worker goes when the id of the callback that executed leaves the
\* map: if the id was given again, and is queued, nobody finds it in the map.
WithoutCurrent(next) == IF current \in Queued(callbackQueue) THEN "dangling" ELSE next

\* A periodic callback keeps its id; queueing an id that is already queued
\* fails the assertion of QueueScheduledCallback.
ReturnFromCallback ==
  /\ pc = "callback"
  /\ \/ /\ current \notin DOMAIN scheduledCallbacks   \* it was cleared while it ran
        /\ pc' = "round"
        /\ UNCHANGED <<scheduledCallbacks, callbackQueue>>
     \/ /\ current \in DOMAIN scheduledCallbacks
        /\ ~scheduledCallbacks[current].periodic
        /\ pc' = WithoutCurrent("round")
        /\ scheduledCallbacks' = Without(scheduledCallbacks, current)
        /\ UNCHANGED callbackQueue
     \/ /\ current \in DOMAIN scheduledCallbacks
        /\ scheduledCallbacks[current].periodic
        /\ scheduledCallbacks' = [scheduledCallbacks EXCEPT ![current].time = @ + scheduledCallbacks[current].delay]
        /\ IF current \in Queued(callbackQueue)
           THEN pc' = "corrupt" /\ UNCHANGED callbackQueue
           ELSE /\ pc' = "round"
                /\ callbackQueue' = QueueScheduledCallback(callbackQueue, scheduledCallbacks', current)
  /\ current' = NoId
  /\ UNCHANGED <<nextCallbackId, timeVars, workerVars, update, clock>>

\* The callback throws a std::exception: it is removed, the round is abandoned
\* and the worker ends, leaving its token set although nobody will wake.
ThrowFromCallback ==
  /\ pc = "callback"
  /\ scheduledCallbacks' = Without(scheduledCallbacks, current)
  /\ pc' = WithoutCurrent("out")
  /\ current' = NoId
  /\ canceled' = FALSE
  /\ UNCHANGED <<nextCallbackId, callbackQueue, timeVars, tokenLive, wakeTime, update, clock>>

\* A canceled worker does not move the next execution time.
EndRound ==
  /\ pc = "round"
  /\ ~FrontIsDue
  /\ pc' = "woken"
  /\ nextScheduledExecutionTime' = IF canceled THEN nextScheduledExecutionTime
                                   ELSE GetNextQueuedExecutionTime
  /\ UNCHANGED <<queueVars, currentLogicalTime, workerVars, current, update, clock>>

\* The worker ends and creates its successor; with nothing left it resets the
\* Director first.
HandOver ==
  /\ pc = "woken"
  /\ ~canceled
  /\ ~RoundIsDue
  /\ pc' = "out"
  /\ tokenLive' = TRUE
  /\ \/ /\ NeedsReset(callbackQueue, scheduledCallbacks)
        /\ nextCallbackId' = 0
        /\ scheduledCallbacks' = <<>>
        /\ callbackQueue' = <<>>
        /\ currentLogicalTime' = clock
        /\ nextScheduledExecutionTime' = Never
     \/ /\ ~NeedsReset(callbackQueue, scheduledCallbacks)
        /\ UNCHANGED <<queueVars, timeVars>>
  /\ wakeTime' = nextScheduledExecutionTime'
  /\ canceled' = FALSE
  /\ UNCHANGED <<current, update, clock>>

FinishCanceled ==
  /\ pc = "woken"
  /\ canceled
  /\ pc' = "out"
  /\ canceled' = FALSE
  /\ UNCHANGED <<queueVars, timeVars, tokenLive, wakeTime, current, update, clock>>

Tick ==
  /\ clock < Horizon
  /\ clock' = clock + 1
  /\ UNCHANGED <<queueVars, timeVars, workerVars, pc, current, update>>

-----------------------------------------------------------------------------
Init ==
  /\ nextCallbackId = 0
  /\ scheduledCallbacks = <<>>
  /\ callbackQueue = <<>>
  /\ currentLogicalTime = 0
  /\ nextScheduledExecutionTime = Never
  /\ tokenLive = FALSE
  /\ wakeTime = NoWake
  /\ pc = "out"
  /\ current = NoId
  /\ canceled = FALSE
  /\ update = NoUpdate
  /\ clock = 0

Client ==
  \/ \E r \in Requests : ScheduleCallback(r)
  \/ \E id \in Ids : ClearScheduledCallback(id)
  \/ \E p \in PriorityUpdates : BeginPriorityUpdate(p[1], p[2])
  \/ \E id \in Ids : UpdatePriorityOf(id)
  \/ EndPriorityUpdate
  \/ StartExecution
  \/ StopExecution

Worker ==
  \/ WakeUp
  \/ StartRound
  \/ RunNextCallback
  \/ ReturnFromCallback
  \/ ThrowFromCallback
  \/ EndRound
  \/ HandOver
  \/ FinishCanceled

Next == Client \/ Worker \/ Tick

Spec == Init /\ [][Next]_vars

\* The operating system runs the worker threads, time passes, HandlePriorityUpdate
\* goes through its loop, and a callback returns however many calls it makes
\* first; the client owes nothing.  The worker's steps are strongly fair because
\* here, other than in the code, an update by the owner holds them up.
Fairness ==
  /\ WF_vars(Tick)
  /\ WF_vars(EndPriorityUpdate \/ \E id \in Ids : UpdatePriorityOf(id))
  /\ SF_vars(WakeUp)
  /\ SF_vars(StartRound)
  /\ SF_vars(RunNextCallback)
  /\ SF_vars(ReturnFromCallback)
  /\ SF_vars(EndRound)
  /\ SF_vars(HandOver)
  /\ SF_vars(FinishCanceled)

FairSpec == Spec /\ Fairness

-----------------------------------------------------------------------------
\* Properties.

\* The queue stays strictly sorted by time, priority and id, whatever is
\* scheduled, cleared, requeued or renumbered (Director.cpp 229-297).
QueueSorted == Sorted(callbackQueue, scheduledCallbacks)

\* No callback is lost and none is left dangling: the queue holds exactly the
\* ids of the map, except that of the callback that is executing (the map and
\* the vector are two structures kept in step by hand, Director.cpp 41-42,
\* 52-61, 303-331, 343-344).
QueueMatchesMap == Queued(callbackQueue) = DOMAIN scheduledCallbacks \ {current}

\* A callback that executes was scheduled for exactly the current logical
\* time, never for an earlier or a later one (Director.cpp 301-304).
RunsOnTime ==
  current \in DOMAIN scheduledCallbacks =>
    scheduledCallbacks[current].time = currentLogicalTime

\* The sleeping worker never wakes after the first queued callback is due:
\* scheduling an earlier callback replaces it (Director.cpp 40-45, 144).
NoOversleep ==
  wakeTime # NoWake /\ callbackQueue # <<>> => wakeTime <= GetNextQueuedExecutionTime

\* "Trying to queue two callbacks with the same ID should never happen"
\* (Director.cpp 286-288, with an assertion).  It holds while no running
\* callback clears the last queued one (ResetInCallback = FALSE, a part of
\* IInv) and fails when one does: Reset starts the ids again (345) while the
\* id of the running callback is in use.
SameIdNeverQueuedTwice == pc # "corrupt"

\* A worker exists that nobody has canceled: the execution has neither been
\* stopped nor been ended by an exception.
Executing == wakeTime # NoWake \/ (PastSleep /\ ~canceled)

Due(id) == id \in Queued(callbackQueue) /\ scheduledCallbacks[id].time <= Horizon

\* A callback with period 0 is due again as soon as it returns.
RoundMayNotEnd ==
  \E id \in DOMAIN scheduledCallbacks :
    scheduledCallbacks[id].periodic /\ scheduledCallbacks[id].delay = 0

\* While the execution goes on, a queued callback whose time comes is executed
\* or cleared: no schedule, clear, renumbering or hand-over between workers
\* loses the wake-up (Director.cpp 40-45, 121-128, 186-215).
EventuallyExecuted ==
  \A id \in Ids : Due(id) ~> (id \notin Queued(callbackQueue) \/ ~Executing \/ RoundMayNotEnd)

\* The inductive invariant of DirectorProofs, for clients that respect
\* ResetInCallback = FALSE: the properties above with what they rest on.

\* The id of the next callback is neither in use nor that of the executing one.
IdsAreFresh == \A id \in DOMAIN scheduledCallbacks \cup {current} : id < nextCallbackId

\* The next execution time is not later than any queued callback.
NextIsNotLate ==
  \A id \in Queued(callbackQueue) : nextScheduledExecutionTime <= scheduledCallbacks[id].time

\* Logical time is not ahead of physical time nor of the next execution.
LogicalTimeLags ==
  currentLogicalTime <= clock /\ currentLogicalTime <= nextScheduledExecutionTime

\* While a round executes the next execution time is the logical time.
InRound == pc = "round" \/ current # NoId
RoundIsAtLogicalTime == InRound => nextScheduledExecutionTime = currentLogicalTime

\* A callback is executing exactly while pc says so, and the loop over the
\* map visits callbacks that are in it; no id is queued that the map has lost.
ControlOK ==
  /\ pc # "dangling"
  /\ current # NoId <=> pc = "callback" \/ (pc = "update" /\ update.from = "callback")
  /\ pc = "update" => update.left \subseteq DOMAIN scheduledCallbacks

\* A worker sleeps only while no other is past its sleep, and not beyond the
\* next execution time.
SleepOK == wakeTime # NoWake => wakeTime <= nextScheduledExecutionTime /\ ~PastSleep

IInv ==
  /\ TypeOK
  /\ QueueSorted
  /\ QueueMatchesMap
  /\ IdsAreFresh
  /\ NextIsNotLate
  /\ LogicalTimeLags
  /\ RoundIsAtLogicalTime
  /\ RunsOnTime
  /\ ControlOK
  /\ SleepOK
  /\ SameIdNeverQueuedTwice

\* The deterministic temporal semantics (Director.h 16-26), see Timeline.tla.
Promised == INSTANCE Timeline WITH
  pending <- scheduledCallbacks,
  running <- current,
  logicalTime <- currentLogicalTime

ImplementsTimeline == Promised!Spec
=============================================================================
