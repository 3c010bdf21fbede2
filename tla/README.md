# AccessorFramework: a verification project

This directory holds TLA+ models of AccessorFramework, a C++ library in which
an application is a tree of *accessors* (actors) that exchange events over
ports and run under a logical clock. The modules are translated from the code
in `src/src` and `src/include/AccessorFramework`; the model checker TLC checks
their properties on small instances, and the proof system TLAPS proves most of
the safety properties for all values of the constants.

Contents: [the system](#the-system) · [modules](#modules-and-how-they-correspond-to-the-code) ·
[runs](#what-each-run-checks) · [fairness](#fairness) · [proofs](#what-is-proved) ·
[findings](#findings) · [what is not modelled](#not-modelled) · [plan](#plan) ·
[running it](#running-it)

## The system

A `Host` is the root of a tree of accessors. Composites contain children and
route events; atomic accessors have the code that reacts. The host owns a
`Director`, a priority queue of callbacks with a logical clock, whose worker
threads run all the code of the accessors. A `HostHypervisor` keeps several
hosts and calls them together.

```
 HostHypervisor: a task per host
        |  calls
        v
 owner's thread        Host::Impl            Director             worker threads
 Setup/Run/Pause ---> state machine ---> callback queue  <---- sleep, round, hand over
                       |  |  Execute          ^   |                    |
        listeners <----'  | priorities        |   | callbacks          | run
                          v                   |   v                    v
                     tree of accessors -- ScheduleCallback <--- SendOutput, reactions
                          ports: Connect, SendData, ReceiveData
```

Interactions: the owner calls the host; the host calls the Director
(`Execute`, `StopExecution`, `HandlePriorityUpdate`) and its listeners;
accessors call the Director through their host (`ScheduleCallback`,
`ClearScheduledCallback`), from their constructors, from `Initialize`, from
callbacks and from their destructors; the Director calls accessors back on a worker
thread. There are two locks in the library: a timed mutex inside the cancellation
token, and one around the results of a hypervisor's call. Everything else relies
on who runs when.

### Inventory

**Director** (`Director.cpp/.h`). *State:* the map from ids to callbacks, the
sorted queue of ids, the next id, the logical time, the next execution time, the
token and the future of the current worker. *Operations:* `ScheduleCallback`,
`ClearScheduledCallback`, `HandlePriorityUpdate`, `Execute`, `StopExecution`,
and the worker's `ExecuteInternal` and `ExecuteCallbacks`. *Hard:* map and
queue are kept in step by hand; callbacks call back into the structure that is
being executed; the wake-up of a sleeping worker has to be replaced when an
earlier callback is scheduled; a reset restarts the ids. *Correct when:* the
queue is sorted and holds exactly the scheduled callbacks; each callback runs
once, at its logical time, in the order time, priority, id; no due callback is
forgotten.

**Host life cycle** (`HostImpl.cpp`, `Director::Execute`). *State:* `m_state`,
the calls under way on the owner's, the runner's and the worker threads.
*Operations:* `Setup`, `Iterate`, `Run`, `RunOnCurrentThread`, `Pause`, `Exit`.
*Hard:* nothing is locked between the state, the token and the future; a
worker answers its future while others replace it. *Correct when:* a pause ends
the run, a run nobody stopped goes on, nobody waits on a future that will not
be fulfilled, one worker executes the queue.

**CancellationToken** (`CancellationToken.h`). *State:* a flag and a timed
mutex that is held until the token is canceled. *Operations:* `Cancel`, `IsCanceled`,
`SleepFor`. *Correct when:* a canceled sleeper wakes.

**Ports** (`Port.cpp`). *State:* source, destinations, input queue, waiting
flag. *Operations:* `Connect`, `Disconnect`, `DisconnectAll`, `SendData`,
`ReceiveData`, `DequeueLatestInput`. *Hard:* the two ends of a connection hold raw
pointers to each other and may be destroyed in either order. *Correct when:* source and
destinations agree; each event is passed on once and handled once.

**Composite reaction queue** (`CompositeAccessorImpl.cpp`). *State:* a priority
queue of children per composite, one request flag in the host. *Operations:*
`ScheduleReaction`, `ProcessChildEventQueue`. *Hard:* flag, queues and the
Director's callback have to agree at any nesting, after an exception, and when
a queued child is removed. *Correct when:* an input that arrived is always going
to be reacted to, by one callback.

**Atomic accessor reactions** (`AtomicAccessorImpl.cpp`). *State:* handlers,
ports, dependencies. *Operations:* `ProcessInputs`, `Fire`. *Correct when:* the
next input of a port gets its turn after the one before it.

**Accessor callbacks and outputs** (`AccessorImpl.cpp`). *State:*
`m_callbackIds`, `m_initialized`. *Operations:* scheduling and clearing through
the host, `SendOutput`, `AlertNewInput`, `Initialize`, the destructor. *Hard:* the
callbacks hold raw pointers; ids outlive the callbacks they named. *Correct when:*
no callback outlives its accessor, and an accessor clears only its own.

**Priorities and causality** (`HostImpl.cpp` 189-446, `AtomicAccessorImpl.cpp`
22-65, 105-140). *State:* a priority per accessor; the depths during one
computation. *Operations:* `ComputeAccessorPriorities`, `RemoveDependency`,
`GetEquivalentPorts`. *Hard:* a memoising depth-first search over equivalence
classes. *Correct when:* the depths are those the header defines, a causality
loop is thrown exactly if there is one, priorities follow the flow of data.

**Changes of a running model** (`CompositeAccessorImpl.cpp` 86-186,
`HostImpl.cpp` 166-187). *Operations:* `AddChild`, `RemoveChild`,
`RemoveAllChildren`, `ChildrenChanged`, all legal from callbacks. *Correct when:* new
accessors are initialised, callbacks keep the priority of their accessor, and
nothing refers to what has been removed.

**Host event listeners** (`HostImpl.cpp` 41-51, 189-198, 382-430). *State:* the
map of listeners. *Operations:* `AddEventListener`, `RemoveEventListener`,
`SetState` with its notification, the notification of an exception. *Hard:* several threads change
the state and walk over the listeners. *Correct when:* every listener hears of every
change once.

**Host hypervisor** (`HostHypervisorImpl.cpp/.h`). *State:* the map of hosts, the
tasks and results of a call. *Operations:* adding and removing hosts, `SetupHosts`,
`PauseHosts`, `RunHosts`, `GetHostStates`, `RunHostsOnCurrentThread`, each with a task per
host. *Hard:* tasks refer to the frame of the call; what a task throws stays in a future nobody
reads. *Correct when:* tasks end before the call, each host gets its call whatever
the others do, and the call returns.

**Names and construction** (`BaseObject.h`, constructors), **public facades**
(`Accessor.cpp`, `Host.cpp`, `HostHypervisor.cpp`), **debug output**
(`PrintDebug.h`), **tests and build**.

`PROJECT.json` lists the components with their files and status, and 40
hazards at the lines where they bite, with the properties that cover them or
the reason none does.

## Modules and how they correspond to the code

| module | models | kind |
| --- | --- | --- |
| `CallbackQueue` | the order of the queue, `QueueScheduledCallback`, removal | operators |
| `Director` | the Director with one worker past its sleep | state machine |
| `Timeline` | what `Director.h` 16-26 promises | abstract specification |
| `HostExecution` | life cycle, `Execute`, chain of workers, thread by thread | state machine |
| `Reactions` | ports, reaction queues, `ProcessInputs`, events and null events | state machine |
| `Lifetimes` | what refers to accessors that come and go: callbacks, connections, reaction queues | state machine |
| `Priorities` | structure, depths, priorities, `ChildrenChanged` | state machine and algorithm |
| `Hypervisor` | several hosts, the tasks of a call, listeners | state machine |
| `MCDirector`, `MCHostExecution`, `MCReactions`, `MCLifetimes`, `MCPriorities`, `MCHypervisor` | instances | for TLC |
| `CallbackQueueProofs`, `DirectorProofs`, `DirectorRefinement`, `HostExecutionProofs`, `ReactionsProofs`, `LifetimesProofs`, `PrioritiesProofs`, `HypervisorProofs` | theorems | for TLAPS |

The modules cut the system at its interfaces. `Director` treats accessors as
clients that call it and return or throw. `HostExecution` treats a round of
the Director as a step that begins and one that ends, and `Hypervisor` an execution
of a host in the same way. `Reactions` takes from the
Director the order of the callbacks of one logical instant, and from
`Priorities` its result. `Lifetimes` composes the Director's map and queue, the
accessors' ids, the ports' pointers and the reaction queues, without the orders the
other modules model. `PROJECT.json` "map" gives for each definition the
lines it stands for.

### Director and CallbackQueue

Variables have the names of the members without `m_`. `tokenLive` says that
`m_executionCancellationToken` is set; `wakeTime` is when the sleeping worker
that holds it wakes, `pc` where the worker past its sleep is, `current` the
callback that executes, `canceled` whether that worker's own token was
canceled (it then finishes the round but leaves the next execution time alone).

* `ScheduleCallback`, `ClearScheduledCallback`, `BeginPriorityUpdate`,
  `UpdatePriorityOf`, `EndPriorityUpdate`: the calls. `HandlePriorityUpdate` is a
  loop over the map, so it has a step for each entry.
* `StartExecution`, `StopExecution`: what `Execute` and `StopExecution` do to
  the token.
* `WakeUp`, `StartRound`, `RunNextCallback`, `ReturnFromCallback`,
  `ThrowFromCallback`, `EndRound`, `HandOver`, `FinishCanceled`: a worker.
* `Tick`: the physical clock.

Choices. Only one worker is past its sleep at a time; that two can be is a
finding of `HostExecution`, and with two of them the queue is a data race.
For the same reason the owner calls only while no worker is past its sleep;
stopping is possible at any moment.

A callback that executes may clear the last callback that is queued, and the Director
is then reset under it. `ResetInCallback` says whether clients do so. They may, and
the run `director_reset` shows where it leads: the ids start again while the executing
callback has one, and a new callback gets the same. The rest of the Director cannot be
right after that, so the run `director` and the proofs are about clients that do not
(`ResetInCallback = FALSE`). `pc` is "corrupt" where an id is queued that is queued already,
and "dangling" where an id is left in the queue that the map does not have; the code throws
or fails an assertion there, and nothing follows.

The clock does not go
back. Callbacks throw `std::exception`s only. The width of ids and times is
not modelled: `Never` stands for `LLONG_MAX`, later than every time that can be
computed (`NeverAssumption`).

### Timeline

A map of pending callbacks, the running one, logical time and the clock; no
queue, no threads, no tokens. A callback runs when it is first in the order of
time, priority and id, at a logical time equal to its own; logical time jumps
forward, past no pending callback and not beyond the clock. `Director` implements
it with `pending`, `running` and `logicalTime` mapped to `scheduledCallbacks`,
`current` and `currentLogicalTime`.

### HostExecution

One step per access to something that threads share. A worker is a number that
also stands for its token and its future, and is used again when nobody refers
to it any more, as the `shared_ptr`s are. `owner` is the line of `Setup`, `Pause` or
`Exit` the owner's thread is at; `runner[r]` is a call of `Execute` with its line, the
future it took and the iterations left; `worker[w]` is the line of `ExecuteInternal`.

* `BeginSetup`, `InitializeModel`, `SetupThrows`, `EndSetup`, `BeginPause`, `EndPause`,
  `BeginExit`, `EndExit`: the life cycle. A `Setup` may throw before or after it has scheduled
  callbacks, and leaves the host in `SettingUp`.
* `OwnerStops`, `OwnerCancels`, `OwnerDrops`, and the same of a runner: the lines of
  `StopExecution`. The test of the token, the call of `Cancel` through the pointer, and the
  assignment of null are three steps, and a token that went away between the first two is a
  null pointer that is used: the program ends (`CancelNothing`).
* `StartExecution`, `StartUnlessLive`, `StartWorker`: the beginning of `Execute`, again with the
  test apart from the use, and from the worker that is then created whatever there is by now.
* `LoopOn`, `LoopUnlessCanceled`, `GetResult`, `GetException`, `GetUsedFuture`: its loop. Two runs that
  both passed `ValidateHostCanRun` can wait for one worker; the second `get()` is undefined and
  has each of its outcomes.
* `BeginRound`, `EndRound`, `ThrowFromRound`, `LeaveCanceled`, `LeaveToHandOver`, `HandOver`,
  `AnswerOfPredecessor`: a worker. It reads the token when it leaves its loop, installs its
  successor later, and answers its own future later still.

Choices. Token and future are replaced in one step, although the code assigns
one after the other, and the two statements of `Cancel` are one (two concurrent calls
unlock a mutex twice). Two reads of `IsCanceled` with nothing between them are one. Time is left
out: a worker may find a round due, or nothing due, at any moment. The
host has a periodic callback, so that its Director is never reset. An exception
that nothing catches on a detached thread ends the process (`terminated`).
`RunOnCurrentThread` is `Iterate(0)`. A worker whose future nobody has taken answers to
nobody, and is done when it has handed over. Listeners are in `Hypervisor`.

`StopReachesWhoeverGoesOn` has an excuse, the history variable `raced`. `Race` names its
three cases: a worker was canceled after it had read its token and before it handed over (the lost
stop of `Director.cpp:204-212`); a run is about to create a worker while a `StopExecution` is about to drop
the token that is set; or while another run is about to create one. After one of them a worker may go on that no
token reaches. The property says that there is no fourth way to that.

### Reactions

The stack of the worker is explicit: `sending` are the ports `ReceiveData` is
still to be called on, depth first, with `event`; `processing` the composites whose
`ProcessChildEventQueue` is active; `reacting` the accessor whose
`ProcessInputs` runs, with the next port. `callbacks` are the callbacks of the
current instant, by priority and then in the order they were scheduled, which
`RunTick` (a source's own code), `RunSend` (one output of `SendOutput`) and `RunReact` take
from the front. An input queue is a sequence of events and null
events: a port waits for its handler when the first is not null, so that a null
event at the head stops its port for good, and the properties say exactly which
inputs are left behind one. `received`, `sentOn` and `thrown` are history.

Choices. The model has been set up, all accessors are initialised, and
priorities are distinct and do not change. Of an event it matters only whether it is null.

### Lifetimes

`alive` are the accessors that exist, `callbacks` and `queue` the Director's map
and queue (as a set), `callbackIds` what each accessor remembers, `source` and
`destinations` the two ends of the connections, `childEventQueue` and
`reactionRequested` the reactions. A destructor (`Destroy`) clears the ids of all accessors
that go and disconnects their ports, as the destructors of `Accessor::Impl` and `Port` do. What it
leaves behind is recorded: `danglingQueues` are the composites whose reaction queue has a
destroyed child, `danglingPorts` the ports that point to a destroyed port, `repeated` the pairs
that `m_destinations` has more than once.

What the code of accessors throws is modelled where it is called: `Throw` (a callback of an accessor, removed
although it is periodic), `ThrowFromReact` (an input handler: part of the queues is left and the
request stays set), `ThrowFromUpdate` (a causality loop, or an `Initialize` after part of the children),
and `ChildrenChanged`, whose initialisation of new children may stop anywhere (`PartlyInitialized`).

Choices. Behaviours begin after Setup with an empty host. Callbacks run in any
order. The API is called by anybody between two callbacks, and during a callback by the
accessor whose code it is; the framework's own callbacks (an output, an update,
the reactions) run from start to end in one step, and what they call of an accessor's
code is what that accessor may do between two callbacks.

*Where a behaviour ends.* The model stops where what the code does is undefined or has no end: a
destroyed port or child is about to be followed (`RunOutput`, `RunReact`), a port is destroyed that
points to another, living or not, twice (`CanDisconnect`; `DisconnectAll` loops for ever or follows a destroyed port), or a callback
ends whose id was given again after a reset in it (`KeepsItsId`; `director_reset` shows what follows).
Up to there a queued child may be removed, a pair connected twice, and a callback may reset the Director.

*What is excused.* Four history variables hold the excuses that the properties name, and no action
reads them, but for the input that waits behind a reaction that was lost. `lost`: an
update or a reaction was cleared by a stale id, or by the host's own `ClearAllScheduledCallbacks`, or
it threw. `staleIds`: the ids in `m_callbackIds` that are older than the last reset. `doubled`: the ports
that were connected twice to one destination. `announced` is not an excuse: it says which children of the host
`ChildrenChanged` was called for.

Three behaviours the model has and a reader may not expect: the host's own
`ClearAllScheduledCallbacks` also cancels a pending update of the model; a cleared
reaction leaves `m_reactionRequested` set; and an uninitialised composite that calls
`ChildrenChanged` initialises its children, which are initialised again with it
(`CompositeAccessorImpl.cpp` 99-106, 171-186).

### Priorities

`children`, `source` and `pruned` are the structure; any legal call may change
it before `Setup` and a bounded number of times afterwards. The recursive calls
of the code are a search with an explicit stack: `Graph` is what it reads of the
model, `Start` its first state, and `SearchStep` one turn of the loops of
`ComputeAtomicAccessorDepth`, `...InputPortDepth` or `...OutputPortDepth`, which
calls for a port (`Call`) or gives ports their depth (`Return`). It keeps the depths
found so far and the ports visited, in the order of the code. `PortDepths` makes
enough of these steps: it is a theorem that the search is over by then.
`PostOrder` is the recursion over the children, `NewPriorities` the lists per depth
and the numbering; `UpdatedCallbacks` the loop of `HandlePriorityUpdate`s;
`ChildrenChanged` and `UpdateModel` are the two halves of an update, the second a
callback. Recursion is written as recursive functions over numbers of steps, which TLAPS can
reason about, and not with `RECURSIVE`. The definitions of the properties (`Class`,
`Needs`, `HasLoop`, `AreDepths`) are written from the header's words and share nothing with the
search but `GetSourceOutputPort` and the maximum.

Choices. Ports are those the constructor makes, spontaneous ones last.
A callback is reduced to the priority it was given, one periodic callback per
source. A connection is made once. Composite ports are not connected in a
circle, where `GetSourceOutputPort` would not end. `++priority` past `INT_MAX` is
undefined in C++ and wraps here.

### Hypervisor

A thread is the client's, a second client's that gives its thread to runs
(`Main`), a task of a call for all hosts, or one that `Run` has detached. `todo[t]` are the
accesses thread `t` has still to make of the operation of `Host::Impl` it is in: the
loads of the state (`ValidateHostCanRun` has three, `Check` and `CheckEither`), the exchange of the
state, the part of `Setup` that may throw, the detaching of a run, an execution, a read. `telling[t]` is the walk over the
listeners that follows an exchange. `call` is the call for all hosts that is under way, with
the tasks it has still to wait for. `heard`, `spoiled` and `seen` are history: a listener's
account of the states, the hosts for which it is not kept, and the states a host has had during a
call that reads them.

`ListenerFails` is the branch of the two loops for a listener that is gone or throws. It is erased, and the
loop goes on with the iterator to it, which is undefined: the program ends, or the walk tells any of the
other listeners next, told ones included. `Detach` either creates the thread, after any number of
attempts, or throws.

Choices. An execution ends or throws at any time. Hosts and listeners are added and removed by the
client only while no other thread walks over them; hosts are removed only when nothing runs in
them. `spoiled` are the hosts that `ListenersHearEachChangeOnce` excepts: those that were `Corrupted`, which is
stored and not exchanged (`HostImpl.cpp:78, 132`), so that listeners are not told of that change, and those that have
erased a listener which failed.

## What each run checks

States are distinct states.

| run | what it shows | states |
| --- | --- | --- |
| `director` | The queue stays sorted (`QueueSorted`) and in step with the map (`QueueMatchesMap`), callbacks run at their time (`RunsOnTime`), the sleeper is early enough (`NoOversleep`), the Director implements the Timeline (`ImplementsTimeline`), and while execution goes on a due callback is executed or cleared (`EventuallyExecuted`). | 36482 |
| `director_reset` | Violation: one id is queued twice (`SameIdNeverQueuedTwice`). | finding |
| `host` | The answer comes after the hand-over (`AnswerFollowsHandOver`); a stop reaches whoever goes on, unless there was one of three races (`StopReachesWhoeverGoesOn`); the state Running is true (`RunningMeansRunning`); whoever waits for a canceled worker is released (`CanceledWorkerReleasesItsWaiter`). | 541727 |
| `host_overlap` | Violation: two workers in a round (`RoundsDoNotOverlap`). | finding |
| `host_pause` | Violation: a pause is lost (`PauseEndsTheRun`). | finding |
| `reactions` | No input is stranded (`NoInputIsStrandedUnlessThrown`), at most one reaction is requested (`OneReactionAtATime`), events are passed on exactly once (`SentOnExactlyOnce`), the model comes to rest with all inputs handled but those behind a null event (`AllInputsAreHandled`). | 474209 |
| `reactions_throw` | Violation: after an exception inputs are stranded (`NoInputIsStranded`). | finding |
| `lifetimes` | No callback and no connection outlives its accessor (`CallbacksOfTheLiving`, `WiresOfTheLiving`), queued children are reached by a reaction (`QueuedChildrenAreReached`), announced children are initialised (`AnnouncedChildrenAreInitialized`), accessors clear only what is theirs (`ClearsOnlyItsOwnUnlessStale`), each but for the excuses named. | 1150367 |
| `lifetimes_queue` | Violation: a removed child stays in a reaction queue (`QueuedChildrenAreAlive`). | finding |
| `priorities` | The search finds the defined depths (`DepthsAreAsDefined`) and exactly the loops (`LoopsAreFound`); priorities follow the flow (`PrioritiesFollowTheFlow`) and are distinct with composites first (`CompositesGoFirst`). | 133098 |
| `priorities_update` | Violation: callbacks get other accessors' priorities (`CallbacksKeepTheirAccessorsPriority`). | finding |
| `hypervisor` | Tasks end before their call (`TasksEndBeforeTheCall`), every host that is asked answers with a state it had (`EveryHostAnswers`), one failure spares the others (`OneFailureSparesTheOthers`), listeners hear each change once but of `spoiled` hosts (`ListenersHearEachChangeOnce`), calls return (`CallsReturn`). | 634866 |

Each passing run checks the type invariant of its module, too. Every property of a passing
run has a mutant in `PROJECT.json`: a plausible error in a modelled definition, such as an
insertion at the end of the queue, a hand-over after the answer, a flag cleared by a nested
queue, an output whose id is not recorded, a call that waits for its last task only, that makes
the run fail.

### Bounds, and why they are enough

* `director`: three ids, times up to 3, a callback that is due at once, a
  periodic one and one with period 0, two priorities and updates that
  move callbacks onto a priority in use. Three callbacks are what it takes for
  one to execute while another is queued on either side of a third; the periodic ones and
  the resets give unbounded behaviour. A round with a period of 0 never ends, and while such a
  callback is scheduled `EventuallyExecuted` says nothing. The theorems below need no bound.
* `host`: three workers that somebody still refers to, two calls of Run, Iterate, Pause and Exit besides Setup, two
  runners, runs without an end and of one iteration. An overlap takes two workers; a chain in which one
  has answered, one is handing over and one is new takes three. Two calls are what a race takes: two runs that both pass
  the check, a run and the Pause or Exit that meets it. Any number of workers and rounds pass within them. `Patient = FALSE` lets
  a run and an Exit begin before the last run has ended; the findings have one runner and
  `Patient = TRUE`, so that they do not rest on a careless owner. The theorems have no bound on runners, workers and calls.
* `reactions`: two sources, an accessor reached over two paths of different
  lengths, one inside a composite; a port that sends on; up to three events at
  once on a port, which is what a queue needs for one to be handled, one to be next
  and one behind it, the middle one null or not; three instants, so that what one leaves behind
  meets the next.
* `lifetimes`: a composite with an atomic accessor in it, with a connection of the accessor to
  itself, one into and one out of the composite, so that each end of a connection can go first; each may be made any
  number of times. Two ids: one for an output and one for the reaction it requests, or an update beside a callback. An
  id is kept over a reset, given out again and cleared for somebody else within them, and all excuses are reached.
  Accessors and ids come back, so that behaviour is unbounded. The theorems hold for every `MaxId`, tree and wiring.
* `priorities`: two inputs and two outputs on one accessor with three
  dependencies that can be removed (equivalence by way of others), a composite
  with a child and a feed-through, ten wires with feedback through the
  composite and directly; every structure and wiring before Setup and one change after it.
  The theorems of `PrioritiesProofs` say the same of every other structure.
  `IntMax` is 99, beyond every depth and priority of the instance.
* `hypervisor`: two hosts, one run thread each and one on the client's thread, one
  listener, three calls of all hosts or of one. Two hosts are what one failure and one
  success take; three calls are a Setup, a run and one that meets the run.

Deadlock is checked in `director` and `director_reset`. The other systems may
stop: a host that has exited or whose client has made its last call, a model at rest, an accessor
tree without callbacks, a structure after its last change or a failed setup, a hypervisor whose client has
made its last call.

## Fairness

* `Director`: weak fairness of the clock and of the loop of an update, and strong fairness of
  each step of a worker, because the operating system runs threads, sleeps end, and
  callbacks return. Strong, because in the model, other than in the code, an update by the
  owner or a further call by a callback holds the worker's step up, and the client could do so again
  and again. The client owes nothing, and a callback may always throw.
* `HostExecution`: weak fairness of the calls the owner has under way, of each
  runner and of each worker as a whole. Which way a worker goes is not fair: it may
  run rounds for ever. Nobody has to call again. That a sleep ends is assumed of
  workers, and `CanceledWorkerReleasesItsWaiter` needs it of canceled ones only,
  whose `SleepFor` is ended by `Cancel`.
* `Reactions`: weak fairness of the worker's own steps; no source has to tick.
* `Hypervisor`: weak fairness of the steps of each task and of the wait for them. Nothing is
  assumed of runs and of the clients: a call returns whatever they do.

## What is proved

Eight modules, checked by TLAPS to the last leaf, for all values of the constants under the
assumptions named in the modules.

**CallbackQueueProofs** states what the operators of the queue do, for every
queue and every map: inserting and removing change the set of ids as they
should (`InsertAtElements`, `RemoveAtElements`), `Precedes` is a strict total order on
ids (`PrecedesIsATotalOrder`), and insertion, removal and taking the head keep a sorted queue
sorted (`QueueScheduledCallbackSorts`, `RemovalKeepsSorted`, `PopKeepsSorted`).

**DirectorProofs** proves, under `~ResetInCallback`:

| theorem | statement |
| --- | --- |
| `TypeCorrect` | `Spec => []TypeOK` |
| `QueueStaysSorted` | `Spec => []QueueSorted` |
| `QueueStaysInStep` | `Spec => []QueueMatchesMap` |
| `CallbacksRunOnTime` | `Spec => []RunsOnTime` |
| `WorkerNeverOversleeps` | `Spec => []NoOversleep` |
| `Invariance` | `Spec => []IInv`, which the others follow from |

None of these properties is inductive alone. `IInv` (in `Director`) adds what
they rest on. `RunsOnTime` needs that the head of the queue is not earlier than
the round: `NextIsNotLate` (the next execution time is not later than any queued
callback) and `RoundIsAtLogicalTime` (during a round it is the logical time).
`NextIsNotLate` is kept by `ScheduleCallback` because it moves the next
execution time, and by `ReturnFromCallback` because `LogicalTimeLags`.
That no id is queued twice is a part of `IInv`; it needs that the executing id is not queued,
which is `QueueMatchesMap`, and that a new id differs from it, `IdsAreFresh`. This is the
conjunct a reset inside a callback breaks, hence the assumption (`director_reset`). `NoOversleep` follows from `SleepOK` and `NextIsNotLate`. `ControlOK` ties `current` to `pc`
and keeps the loop of an update inside the map. The proof has a lemma per
action, with a step per conjunct that the action can disturb.

**DirectorRefinement** proves `DirectorKeepsItsPromise`, `Spec =>
ImplementsTimeline` under the same assumption: each action of the Director, from a state that satisfies
`IInv`, is a step of the Timeline or leaves its variables alone. The step that carries the
argument is `RunNextCallback`: with `QueueSorted` and `QueueMatchesMap` the head
of the queue is the first of all waiting callbacks, and with `NextIsNotLate` and
`RoundIsAtLogicalTime` its time is the logical time.

**HostExecutionProofs** proves, for any number of workers and of threads that run the host at the same
time:

| theorem | statement |
| --- | --- |
| `TypesAreCorrect` | `Spec => []TypeOK` |
| `SuccessorsComeFirst` | `Spec => []AnswerFollowsHandOver` |
| `StopsReachWhoeverGoesOn` | `Spec => []StopReachesWhoeverGoesOn` |
| `RunningHostsRun` | `Spec => []RunningMeansRunning` |
| `Invariance` | `Spec => []IInv` |

`Chain` is about workers, tokens and futures: who has answered what, and that a future which was answered "false" is no longer the
Director's. `SuccessorsComeFirst` follows from it because a worker reaches the line of the answer only when its successor
is installed, and nobody puts an old future back. `Runs` is about the runners and the state of the host: each line of `RunOnCurrentThread`
tells what the state can be. `BeforeInitialize` says that there are no workers and runs before a Setup has come to `Initialize`. `ReachUnlessRaced` is the part for `StopsReachWhoeverGoesOn`: a worker that goes on and is not
canceled holds the token, and a worker that is about to hand over has the token, too, unless it was canceled there, which is the
first race. A step that creates a worker keeps this because whoever would be passed over is then canceled, or a race is on
record.

**ReactionsProofs** proves, for every tree, wiring and set of sends that satisfies
`ModelAssumption`:

| theorem | statement |
| --- | --- |
| `TypeCorrect` | `Spec => []TypeOK` |
| `ReactionsAreOne` | `Spec => []OneReactionAtATime` |
| `EventsAreSentOnOnce` | `Spec => []SentOnExactlyOnce` |
| `NoInputStrands` | `Spec => []NoInputIsStrandedUnlessThrown` |
| `Invariance` | `Spec => []IInv` |

The argument follows an input up the tree: an accessor with a waiting port is in the queue of its
composite or reacts (`WaitingIsQueued`), a composite with a queue is in the queue around it or
being processed, up to the host (`QueuesAreReached`), and the host has a reaction scheduled or
under way as long as nothing has thrown (`RequestIsPending`); `ProcessingDescends` and
`ReactsWhileProcessing` tie the stack of the worker to the tree. `Around` is defined
as a least set that is closed under `Parent`, which gives the step from a composite to all that
are around it without an induction.

**LifetimesProofs** proves, for every tree, wiring and bound:

| theorem | statement |
| --- | --- |
| `TypeCorrect` | `Spec => []TypeOK` |
| `CallbacksDieWithTheirOwner` | `Spec => []CallbacksOfTheLiving` |
| `IdsAreNotShared` | `Spec => []ClearsOnlyItsOwnUnlessStale` |
| `WiresDieWithTheirPorts` | `Spec => []WiresOfTheLiving` |
| `QueuedChildrenReact` | `Spec => []QueuedChildrenAreReached` |
| `AnnouncedChildren` | `Spec => []AnnouncedChildrenAreInitialized` |

No condition is put on the clients. The first four are about a destructor that takes back what was given out, with
whole subtrees going at once. `WiresOfTheLiving` needs that a destination which is there twice is on record (`repeated` implies
`doubled`), so that what is left dangling is the port that was connected twice and no other. `QueuedChildrenReact` needs that
the request is set only while the host's reaction is scheduled, or one was lost (`RequestStands`), and that a queue that is not
empty, of living or destroyed children, is reached from the host (`QueuesReach`); after an exception or a stale clear both
fail, which is what the excuse says.

**PrioritiesProofs** proves, for every tree of accessors, every wiring without a circle of composites,
and every pruning of dependencies:

| theorem | statement |
| --- | --- |
| `TypesHold` | `Spec => []TypeOK` |
| `StructureHolds` | `Spec => []StructureInv` |
| `DepthsAreRight` | `Spec => []DepthsAreAsDefined` |
| `EveryLoopIsFound` | `Spec => []LoopsAreFound` |
| `PrioritiesAreASort` | `Spec => []PrioritiesFollowTheFlow` |
| `CompositesAreFirst` | `Spec => []CompositesGoFirst` |

`StructureInv` is the inductive invariant: the accessors are a tree, connections are as they may be
made, and no port is fed by an accessor that is not in the model; `RemoveChild` keeps it because it
takes a whole subtree and both ends of its connections. All the rest is about what is computed in
one step from such a structure, in this order:

1. *Walks.* `PostOrder` lists an accessor and all that is in it, once each, and after what is in it
   (`PostOrderLists`, `BelowIsLeast`, `InsideIsListedBefore`); `GetSourceOutputPort` ends at an
   output of an atomic accessor or nowhere (`SourceIsAnOutput`); `FindEquivalentPorts` finds the
   equivalence class (`ClassIsFound`), which its members share (`ClassesAreShared`). So the model
   is a graph (`IsGraph`, `ModelIsGraph`).
2. *The search*, in any graph. `SearchInv` says that each call on the stack needs the next
   (`CallsInOrder`), that every visited port without a depth gets it with a port on the stack
   (`VisitsAreCalls`), and that the depths found so far are right, as are all they are made from
   (`DepthsSoFar`); every step keeps it (`CallKeeps`, `ReturnKeeps`). A port without a depth that is visited again
   is therefore one of a circle, the calls on the stack from there on. `StepsLeft` decreases with
   every step, so the search is over within the steps it has (`SearchEnds`), and depths that are right
   leave no circle (`DepthsLeaveNoCircle`). This gives both directions of `LoopsAreFound`.
3. *The numbering.* The lists of `accessorDepths`, read in order, have the accessors by depth, and a
   composite before those of its depth that were visited before it, which are all that is in it
   (`Ordering`, `PriorityOrderIs`); the numbers grow along them and stay in `int` as long as the
   depths are those of ports (`NumbersGrow`); an accessor is less deep than the one it feeds
   (`FedIsDeeper`). `PrioritiesInv` follows for every step that computes priorities.

The assumptions are `StructureAssumption` and `WiresAssumption` (constructors make trees with ports
of their own; composites are not wired in a circle) and `IntMaxAssumption`, that the numbers of ports and
accessors together stay below `INT_MAX`. They bound no structure.

**HypervisorProofs** proves, for every number of hosts, runs, listeners and calls:

| theorem | statement |
| --- | --- |
| `TypeCorrect` | `Spec => []TypeOK` |
| `TasksEnd` | `Spec => []TasksEndBeforeTheCall` |
| `HostsAnswer` | `Spec => []EveryHostAnswers` |
| `FailuresStayAlone` | `Spec => []OneFailureSparesTheOthers` |
| `EachChangeIsHeardOnce` | `Spec => []ListenersHearEachChangeOnce` |
| `Invariance` | `Spec => []IInv` |

The invariant says what each thread has still to do (`ThreadsObey`: accesses of its own host
only, and no reads but in tasks) and how that fits the call (`Calls`): a task of a host that is
asked waits, is on its way, or has given the answer; a host in `NeedsSetup` is one whose task has not
made its first exchange.

`EachChangeIsHeardOnce` has an invariant of its own, `Accounts`. While threads change a state and walk
over the listeners at the same time, a listener hears of changes in any order; but what it has heard and what
it has still to be told adds up: for each state, the times it has heard that its host entered it,
with the threads that are going to say so (`Entering`) and without those going to say that it has
been left (`Leaving`), are one if the host is in that state and none otherwise. The property is the
case in which nobody is telling anything. A listener that fails while a walk calls it leaves the accounts of its host
only: those of other hosts balance whatever the walks do (`ListenerFailsBalances`).

**Only model-checked.** Liveness (`EventuallyExecuted`, `CanceledWorkerReleasesItsWaiter`,
`AllInputsAreHandled`, `CallsReturn`), which is out of the prover's reach. Every invariant and
every safety property of the passing runs has a theorem, some under the conditions named above.

**Induction.** The library's induction theorems take an operator as a parameter and cannot be used. The proofs
that need an induction use a set instead: `Counting` (a set that has 0 and, with each number, the next) follows from
the well-foundedness of `<` on the naturals (`NatLessThanWellFounded`, `WFMin`), and `Recursion` gives
from it that a recursive function is what its equations say.

## Findings

Each is a run whose counterexample is a behaviour of the code; `PROJECT.json`
quotes the line of the repository it disagrees with.

1. `host_overlap` (`Director.cpp:90-93, 126`). A stop does not wait for the
   worker's round; the next run starts a second worker on the same queue.
2. `host_pause` (`HostImpl.cpp:124`). The state is Running before there is a
   worker to stop; a pause in between is lost and the run goes on under the state Paused.
3. `priorities_update` (`HostImpl.cpp:235`). Callbacks are renumbered one
   accessor at a time by their old number, so one that has been moved to a number still
   in use is moved again.
4. `reactions_throw` (`CompositeAccessorImpl.cpp:84`). An exception leaves
   `m_reactionRequested` set, and no reaction is ever scheduled again.
5. `lifetimes_queue` (`CompositeAccessorImpl.cpp:138`). A child that is removed while it has to
   react stays in the queue of its container, and the reaction follows the pointer.
6. `director_reset` (`Director.cpp:345`). A callback that clears the last queued callback
   resets the Director, which starts its ids again although one is in use. A callback scheduled then gets the id of the one
   that executes, and is queued twice if it is periodic or lost with its id left in the queue if not.
   The same line gives out the ids that accessors keep of callbacks that have run (`AccessorImpl.cpp:124`): the
   accessor's `ClearAllScheduledCallbacks`, or its destructor, then clears somebody else's callback, the host's
   reaction included, though `Accessor.h:63` says "Clears all callbacks for this Accessor".

Behaviours that the code has and no line of the repository speaks against are not findings; the properties name them as
their excuses. A stop that meets a hand-over is lost (`Director.cpp:204-212`). Two calls of Run that both pass their check start a worker each, or
wait for one (`HostImpl.cpp:202`). A pair of ports that is connected twice leaves a pointer to a
destroyed port when its destination goes first, and `DisconnectAll` does not end when its source goes first
(`Port.cpp:64, 71-78, 91-95`). An update that finds a causality loop is gone, and the children it was for stay
uninitialised when the host is run again (`HostImpl.cpp:173`). Listeners behind one that fails may miss a change or hear it twice
(`HostImpl.cpp:394-402, 419-427`).

## Not modelled

* Ports added at run time, and circles of composite ports.
* Priorities that change while children are in a reaction queue ordered by them.
* Data races proper: the token and future assigned in pieces, the double unlock of a token, two
  workers in one queue, a client that adds or removes listeners and hosts under a walk over them. They are
  undefined behaviour; the steps around them are modelled, the torn values are not.
* What follows where a behaviour of `Lifetimes` or `Director` ends, as their sections say.
* The Director's reset in `HostExecution`, where a model without callbacks would have one. `~Host` while a run is in it.
* Exceptions that are not `std::exception`s, and a clock that goes back.
* Names, facades, debug output: strings, forwarding, logging.
* The width of ids and times: 2^31 callbacks or the year 292 million.

## Plan

Done, in this order: `CallbackQueue`, `Director` and `Timeline` with the refinement and their proofs;
`HostExecution`; `Reactions`; `Priorities`; null events; `Lifetimes` (ids, connections, destruction)
and `Hypervisor` (tasks, listeners); the proofs of `Lifetimes`, `Reactions`, `Hypervisor` (with the listeners),
`HostExecution` and `Priorities`. What is left:

1. A composition of `Reactions` and `Priorities`: priorities that change under a heap.
2. Ports added at run time in `Priorities`: the order of declaration then decides what a port
   depends on (`AtomicAccessorImpl.cpp:136`).
3. An abstract host that executes or does not, implemented by `HostExecution` up to
   its findings; a port as an unbounded channel with one reader, implemented by `Reactions`.

## Running it

```
tlc -config MCDirector.cfg MCDirector         # likewise every MC module and cfg
tlapm DirectorProofs.tla                      # likewise the other proof modules
```

`hypervisor`, `host`, `lifetimes`, `priorities` and `reactions` take one to three minutes, `director` less, the
findings seconds. The longest proof is a few minutes. The community
modules (`SequencesExt`, `FiniteSetsExt`) have to be on TLC's and TLAPM's path.
