--------------------------- MODULE HostExecution ---------------------------
(***************************************************************************)
(* How a host starts, pauses and ends the execution of its Director: the   *)
(* life cycle of Host::Impl (src/src/HostImpl.cpp), Director::Execute and  *)
(* StopExecution on the threads that call them, and the chain of worker    *)
(* threads of Director::ExecuteInternal, each with its cancellation token  *)
(* and its future.                                                         *)
(*                                                                         *)
(* Director.tla describes what a round does; here a round is one step that *)
(* begins and one that ends.  What the threads do outside a round is a     *)
(* sequence of steps that interleave, because nothing in the code holds a  *)
(* lock: the test of a pointer for null and its use are steps of their     *)
(* own.  Only the token and the future that ScheduleNextExecution replaces *)
(* one after the other change in one step.  The host has a periodic        *)
(* callback, so the Director is never reset, and time is left out: a       *)
(* worker may wake, and find that nothing is due, at any moment.           *)
(***************************************************************************)
EXTENDS Integers, FiniteSets

CONSTANTS
  MaxWorkers,  \* bound: worker threads, ended ones that are referred to included
  MaxCalls,    \* bound: the calls of Run, Iterate, Pause and Exit
  Runners,     \* the threads that call RunOnCurrentThread or Iterate
  Iterations,  \* the arguments of Iterate; 0 is a run without an end
  Patient      \* does the owner wait for a run to end before it starts the next
               \* one, and for it to have begun before it calls Exit?

ASSUME ExecutionAssumption ==
  /\ MaxWorkers \in Nat /\ MaxWorkers # 0 /\ MaxCalls \in Nat
  /\ Iterations \subseteq Nat /\ Patient \in BOOLEAN

\* A worker stands for its token and its future, too.
Workers == 1..MaxWorkers
None == 0

VARIABLES
  hostState,  \* m_state
  owner,      \* the line of Setup, Pause or Exit the owner's thread is at
  token,      \* m_executionCancellationToken: the worker it belongs to, or None
  canceled,   \* the workers whose token is canceled
  future,     \* m_executionResult: the worker that fulfils it, or None
  result,     \* worker -> what its future holds
  worker,     \* worker -> the line of ExecuteInternal it is at
  runner,     \* runner -> [at, waitsFor, left], its call of Execute
  calls,      \* how many calls the client has made
  terminated, \* an exception left a detached thread, or a pointer was used
              \* that had become null after the test
  raced       \* history, read by no action: there has been a Race

codeVars == <<hostState, owner, token, canceled, future, result, worker, runner, calls, terminated>>
vars == <<codeVars, raced>>

HostStates == {"NeedsSetup", "SettingUp", "ReadyToRun", "Running",
               "Paused", "Exiting", "Finished", "Corrupted"}

\* What is left of an execution without an end.
NoLimit == -1

IdleRunner == [at |-> "idle", waitsFor |-> None, left |-> NoLimit]

TypeOK ==
  /\ hostState \in HostStates
  /\ owner \in {"idle", "setup", "initialized",
                "pause stop", "pause cancel", "pause drop", "pause set",
                "exit stop", "exit cancel", "exit drop", "exit set"}
  /\ token \in Workers \cup {None}
  /\ canceled \subseteq Workers
  /\ future \in Workers \cup {None}
  /\ result \in [Workers -> {"pending", "false", "true", "exception", "taken"}]
  /\ worker \in [Workers -> {"loop", "round", "hand over", "answer", "done"}]
  /\ runner \in [Runners ->
       [at : {"idle", "validate", "set running", "start", "start canceled", "schedule",
              "loop", "loop canceled", "get", "stop", "cancel", "drop",
              "set paused"},
        waitsFor : Workers \cup {None}, left : Nat \cup {NoLimit}]]
  /\ calls \in 0..MaxCalls
  /\ terminated \in BOOLEAN
  /\ raced \in BOOLEAN

-----------------------------------------------------------------------------
\* Helpers.

\* Workers that have ended and that nobody refers to any more.
Free ==
  {w \in Workers : /\ worker[w] = "done"
                   /\ w # token /\ w # future
                   /\ \A r \in Runners : runner[r].waitsFor # w}

\* The next worker thread: whichever.
NewWorker == CHOOSE w \in Free : TRUE

\* The threads that can still see a worker's token or future: they are
\* destroyed with the last shared_ptr to them.
HoldsToken(w, tok, workers) == w = tok \/ workers[w] # "done"
HoldsFuture(w, fut, workers, runners) ==
  w = fut \/ workers[w] # "done" \/ \E r \in Runners : runners[r].waitsFor = w

\* What is left of the tokens and futures once nobody holds the others.
Held(tokens, tok, workers) == {w \in tokens : HoldsToken(w, tok, workers)}
Shared(results, fut, workers, runners) ==
  [w \in Workers |-> IF HoldsFuture(w, fut, workers, runners) THEN results[w] ELSE "taken"]

\* ScheduleNextExecution: a new token and a new future replace the old ones,
\* whatever they are, and a new worker goes to sleep.
ScheduleNextExecution(workers) ==
  /\ Free # {}
  /\ token' = NewWorker
  /\ future' = NewWorker
  /\ worker' = [workers EXCEPT ![NewWorker] = "loop"]
  /\ canceled' = Held(canceled \ {NewWorker}, token', worker')
  /\ result' = Shared([result EXCEPT ![NewWorker] = "pending"], future', worker', runner)

\* A worker ends with that answer, and with it its hold on its token.
Answer(w, answer) ==
  /\ canceled' = Held(canceled, token, worker')
  /\ result' = Shared([result EXCEPT ![w] = answer], future, worker', runner)

\* A token is set and has not been canceled: the execution goes on.
TokenLive == token # None /\ token \notin canceled

\* StopExecution cancels the token that is set when it does; one that was there
\* at its test and has been dropped since is a null pointer that is used.
Cancel == token # None /\ canceled' = canceled \cup {token} /\ UNCHANGED terminated
CancelNothing == token = None /\ terminated' = TRUE /\ UNCHANGED canceled

\* Then it drops the token that is set: by then it may be another one.
Drop == token' = None /\ canceled' = Held(canceled, None, worker)

\* std::future::valid.
Valid(w) == result[w] # "taken"

\* ValidateHostCanRun.
CanRun == hostState \in {"ReadyToRun", "Paused"}

Call == calls < MaxCalls /\ calls' = calls + 1

Quiet == \A r \in Runners : runner[r].at = "idle"

\* The next thread that runs the host: whichever.
FreeRunner == CHOOSE r \in Runners : runner[r].at = "idle"

\* No run is on its way from the call of Run to the state Running.
RunHasBegun == \A r \in Runners : runner[r].at \notin {"validate", "set running"}

RunnerAt(r, at) == runner' = [runner EXCEPT ![r].at = at]

-----------------------------------------------------------------------------
\* The owner's thread: Setup, Pause and Exit, one access at a time.

\* AdditionalSetup, the computation of the priorities and Initialize follow.
BeginSetup ==
  /\ owner = "idle"
  /\ hostState = "NeedsSetup"
  /\ hostState' = "SettingUp"
  /\ owner' = "setup"
  /\ UNCHANGED <<token, canceled, future, result, worker, runner, terminated, calls>>

\* The model's callbacks are scheduled by Initialize, and a worker starts then.
InitializeModel ==
  /\ owner = "setup"
  /\ owner' = "initialized"
  /\ ScheduleNextExecution(worker)
  /\ UNCHANGED <<hostState, runner, terminated, calls>>

\* Before or after callbacks were scheduled: the state stays SettingUp.
SetupThrows ==
  /\ owner \in {"setup", "initialized"}
  /\ owner' = "idle"
  /\ UNCHANGED <<hostState, token, canceled, future, result, worker, runner, terminated, calls>>

EndSetup ==
  /\ owner = "initialized"
  /\ hostState' = "ReadyToRun"
  /\ owner' = "idle"
  /\ UNCHANGED <<token, canceled, future, result, worker, runner, terminated, calls>>

\* In any other state Pause throws and changes nothing.
BeginPause ==
  /\ owner = "idle"
  /\ hostState = "Running"
  /\ owner' = "pause stop"
  /\ Call
  /\ UNCHANGED <<hostState, token, canceled, future, result, worker, runner, terminated>>

BeginExit ==
  /\ owner = "idle"
  /\ Patient => RunHasBegun
  /\ hostState' = "Exiting"
  /\ owner' = "exit stop"
  /\ Call
  /\ UNCHANGED <<token, canceled, future, result, worker, runner, terminated>>

OwnerStops ==
  /\ \/ owner = "pause stop" /\ token # None /\ owner' = "pause cancel"
     \/ owner = "pause stop" /\ token = None /\ owner' = "pause set"
     \/ owner = "exit stop" /\ token # None /\ owner' = "exit cancel"
     \/ owner = "exit stop" /\ token = None /\ owner' = "exit set"
  /\ UNCHANGED <<hostState, token, canceled, future, result, worker, runner, terminated, calls>>

OwnerCancels ==
  /\ \/ owner = "pause cancel" /\ owner' = "pause drop"
     \/ owner = "exit cancel" /\ owner' = "exit drop"
  /\ Cancel \/ CancelNothing
  /\ UNCHANGED <<hostState, token, future, result, worker, runner, calls>>

OwnerDrops ==
  /\ \/ owner = "pause drop" /\ owner' = "pause set"
     \/ owner = "exit drop" /\ owner' = "exit set"
  /\ Drop
  /\ UNCHANGED <<hostState, future, result, worker, runner, terminated, calls>>

EndPause ==
  /\ owner = "pause set"
  /\ hostState' = "Paused"
  /\ owner' = "idle"
  /\ UNCHANGED <<token, canceled, future, result, worker, runner, terminated, calls>>

EndExit ==
  /\ owner = "exit set"
  /\ hostState' = "Finished"
  /\ owner' = "idle"
  /\ UNCHANGED <<token, canceled, future, result, worker, runner, terminated, calls>>

\* Run validates and detaches a thread that validates again; Iterate validates
\* once, on the thread of the caller.  RunOnCurrentThread is Iterate(0).
CallRun(r) ==
  /\ owner = "idle"
  /\ runner[r].at = "idle"
  /\ r = FreeRunner
  /\ Patient => Quiet
  /\ CanRun
  /\ Call
  /\ runner' = [runner EXCEPT ![r] = [IdleRunner EXCEPT !.at = "validate"]]
  /\ UNCHANGED <<hostState, owner, token, canceled, future, result, worker, terminated>>

CallIterate(r, n) ==
  /\ owner = "idle"
  /\ runner[r].at = "idle"
  /\ r = FreeRunner
  /\ Patient => Quiet
  /\ CanRun
  /\ Call
  /\ runner' = [runner EXCEPT ![r] = [IdleRunner EXCEPT !.at = "set running",
                                                        !.left = IF n = 0 THEN NoLimit ELSE n]]
  /\ UNCHANGED <<hostState, owner, token, canceled, future, result, worker, terminated>>

-----------------------------------------------------------------------------
\* A runner: RunOnCurrentThread or Iterate, and Director::Execute in it.

\* Nothing catches what ValidateHostCanRun throws on a detached thread.
Validate(r) ==
  /\ runner[r].at = "validate"
  /\ \/ CanRun /\ RunnerAt(r, "set running") /\ UNCHANGED terminated
     \/ ~CanRun /\ RunnerAt(r, "idle") /\ terminated' = TRUE
  /\ UNCHANGED <<hostState, owner, token, canceled, future, result, worker, calls>>

SetRunning(r) ==
  /\ runner[r].at = "set running"
  /\ hostState' = "Running"
  /\ RunnerAt(r, "start")
  /\ UNCHANGED <<owner, token, canceled, future, result, worker, terminated, calls>>

\* Execute creates a worker unless a live token is set: it tests the pointer,
\* then the token, which may be gone or another one by then.
StartExecution(r) ==
  /\ runner[r].at = "start"
  /\ RunnerAt(r, IF token = None THEN "schedule" ELSE "start canceled")
  /\ UNCHANGED <<hostState, owner, token, canceled, future, result, worker, terminated, calls>>

\* Before the loop the runner takes the future that is set.
TakesFuture(r) == runner' = [runner EXCEPT ![r].at = "loop", ![r].waitsFor = future']

StartUnlessLive(r) ==
  /\ runner[r].at = "start canceled"
  /\ \/ token = None /\ terminated' = TRUE /\ UNCHANGED <<future, runner>>
     \/ token \in canceled /\ RunnerAt(r, "schedule") /\ UNCHANGED <<future, terminated>>
     \/ TokenLive /\ UNCHANGED <<future, terminated>> /\ TakesFuture(r)
  /\ UNCHANGED <<hostState, owner, token, canceled, result, worker, calls>>

\* The worker it creates replaces whatever execution there is by now.
StartWorker(r) ==
  /\ runner[r].at = "schedule"
  /\ ScheduleNextExecution(worker)
  /\ TakesFuture(r)
  /\ UNCHANGED <<hostState, owner, terminated, calls>>

\* The loop of Execute: a token is set,
LoopOn(r) ==
  /\ runner[r].at = "loop"
  /\ RunnerAt(r, IF token = None THEN "stop" ELSE "loop canceled")
  /\ UNCHANGED <<hostState, owner, token, canceled, future, result, worker, terminated, calls>>

\* it is not canceled, the future has not been used, and iterations are left.
LoopUnlessCanceled(r) ==
  LET goesOn == TokenLive /\ Valid(runner[r].waitsFor) /\ runner[r].left # 0
  IN  /\ runner[r].at = "loop canceled"
      /\ \/ token = None /\ terminated' = TRUE /\ UNCHANGED runner
         \/ token # None /\ goesOn /\ RunnerAt(r, "get") /\ UNCHANGED terminated
         \/ token # None /\ ~goesOn /\ RunnerAt(r, "stop") /\ UNCHANGED terminated
      /\ UNCHANGED <<hostState, owner, token, canceled, future, result, worker, calls>>

\* Mutant of Remaining: an unlimited run counts, too.
RemainingOfCounted(n) == n - 1

\* What is left of n iterations after one more.
Remaining(n) == IF n = NoLimit THEN NoLimit ELSE n - 1

\* The runner then takes the future of the next worker.
GoesOnAfterGet(r) ==
  runner' = [runner EXCEPT ![r].at = "loop", ![r].waitsFor = future, ![r].left = Remaining(@)]

\* get() returns a value and empties the future.
GetResult(r) ==
  LET w == runner[r].waitsFor
  IN  /\ runner[r].at = "get"
      /\ result[w] \in {"true", "false"}
      /\ GoesOnAfterGet(r)
      /\ result' = [result EXCEPT ![w] = "taken"]
      /\ UNCHANGED <<hostState, owner, token, canceled, future, worker, terminated, calls>>

\* Between valid() and get() another run that waited for the same worker has
\* emptied the future.  That is undefined: get() throws, ends the process, or
\* returns the value it has waited for together with the other.
GetUsedFuture(r) ==
  /\ runner[r].at = "get"
  /\ ~Valid(runner[r].waitsFor)
  /\ \/ GoesOnAfterGet(r) /\ UNCHANGED <<hostState, terminated>>
     \/ hostState' = "Corrupted" /\ RunnerAt(r, "set paused") /\ UNCHANGED terminated
     \/ terminated' = TRUE /\ UNCHANGED <<hostState, runner>>
  /\ UNCHANGED <<owner, token, canceled, future, result, worker, calls>>

\* Mutant of GetException: an exception ends the run where it is.
RethrowFurther(r) ==
  /\ runner[r].at = "get"
  /\ result[runner[r].waitsFor] = "exception"
  /\ result' = [result EXCEPT ![runner[r].waitsFor] = "taken"]
  /\ runner' = [runner EXCEPT ![r] = IdleRunner]
  /\ UNCHANGED <<hostState, owner, token, canceled, future, worker, terminated, calls>>

\* get() rethrows what the round threw: StopExecution is not reached, and the
\* token of the worker that has ended stays set.
GetException(r) ==
  LET w == runner[r].waitsFor
  IN  /\ runner[r].at = "get"
      /\ result[w] = "exception"
      /\ result' = [result EXCEPT ![w] = "taken"]
      /\ hostState' = "Corrupted"
      /\ RunnerAt(r, "set paused")
      /\ UNCHANGED <<owner, token, canceled, future, worker, terminated, calls>>

RunnerStops(r) ==
  /\ runner[r].at = "stop"
  /\ RunnerAt(r, IF token = None THEN "set paused" ELSE "cancel")
  /\ UNCHANGED <<hostState, owner, token, canceled, future, result, worker, terminated, calls>>

RunnerCancels(r) ==
  /\ runner[r].at = "cancel"
  /\ RunnerAt(r, "drop")
  /\ Cancel \/ CancelNothing
  /\ UNCHANGED <<hostState, owner, token, future, result, worker, calls>>

RunnerDrops(r) ==
  /\ runner[r].at = "drop"
  /\ RunnerAt(r, "set paused")
  /\ Drop
  /\ UNCHANGED <<hostState, owner, future, result, worker, terminated, calls>>

SetPaused(r) ==
  /\ runner[r].at = "set paused"
  /\ hostState' = "Paused"
  /\ runner' = [runner EXCEPT ![r] = IdleRunner]
  /\ result' = Shared(result, future, worker, runner')
  /\ UNCHANGED <<owner, token, canceled, future, worker, terminated, calls>>

-----------------------------------------------------------------------------
\* A worker: ExecuteInternal.

WorkerAt(w, line) == worker' = [worker EXCEPT ![w] = line]

\* Neither its sleep nor the token keep the worker: a round is due.
BeginRound(w) ==
  /\ worker[w] = "loop"
  /\ w \notin canceled
  /\ WorkerAt(w, "round")
  /\ UNCHANGED <<hostState, owner, token, canceled, future, result, runner, terminated, calls>>

EndRound(w) ==
  /\ worker[w] = "round"
  /\ WorkerAt(w, "loop")
  /\ UNCHANGED <<hostState, owner, token, canceled, future, result, runner, terminated, calls>>

ThrowFromRound(w) ==
  /\ worker[w] = "round"
  /\ WorkerAt(w, "done")
  /\ Answer(w, "exception")
  /\ UNCHANGED <<hostState, owner, token, future, runner, terminated, calls>>

\* Mutant of CanceledAnswer: a canceled worker leaves its future pending.
NoCanceledAnswer(w) == Answer(w, "pending")

CanceledAnswer(w) == Answer(w, "true")

\* The loop is left because the token is canceled.
LeaveCanceled(w) ==
  /\ worker[w] = "loop"
  /\ w \in canceled
  /\ WorkerAt(w, "done")
  /\ CanceledAnswer(w)
  /\ UNCHANGED <<hostState, owner, token, future, runner, terminated, calls>>

\* The loop is left because nothing is due, and the token was not canceled when
\* executionWasCanceled was read.
LeaveToHandOver(w) ==
  /\ worker[w] = "loop"
  /\ w \notin canceled
  /\ WorkerAt(w, "hand over")
  /\ UNCHANGED <<hostState, owner, token, canceled, future, result, runner, terminated, calls>>

\* Mutant of HandOver: the successor works under the token of its predecessor.
HandOverUnderOldToken(w) ==
  /\ worker[w] = "hand over"
  /\ Free # {}
  /\ LET new == NewWorker
     IN  /\ future' = new
         /\ worker' = [worker EXCEPT ![w] = "answer", ![new] = "loop"]
         /\ result' = Shared([result EXCEPT ![new] = "pending"], future', worker', runner)
  /\ UNCHANGED <<hostState, owner, token, canceled, runner, terminated, calls>>

\* The successor is created whether or not the token was canceled meanwhile.
\* A worker whose future nobody has taken will answer to nobody: it is done.
HandOver(w) ==
  /\ worker[w] = "hand over"
  /\ LET line == IF \E r \in Runners : runner[r].waitsFor = w THEN "answer" ELSE "done"
     IN  ScheduleNextExecution([worker EXCEPT ![w] = line])
  /\ UNCHANGED <<hostState, owner, runner, terminated, calls>>

\* Mutant of AnswerOfPredecessor: the answer is given before the hand-over.
AnswerBeforeHandOver(w) ==
  /\ worker[w] = "hand over"
  /\ result[w] = "pending"
  /\ result' = [result EXCEPT ![w] = "false"]
  /\ UNCHANGED <<hostState, owner, token, canceled, future, worker, runner, terminated, calls>>

\* Only then is the future of the worker that ends fulfilled.
AnswerOfPredecessor(w) ==
  /\ worker[w] = "answer"
  /\ WorkerAt(w, "done")
  /\ Answer(w, "false")
  /\ UNCHANGED <<hostState, owner, token, future, runner, terminated, calls>>

-----------------------------------------------------------------------------
Init ==
  /\ hostState = "NeedsSetup"
  /\ owner = "idle"
  /\ token = None
  /\ canceled = {}
  /\ future = None
  /\ result = [w \in Workers |-> "taken"]
  /\ worker = [w \in Workers |-> "done"]
  /\ runner = [r \in Runners |-> IdleRunner]
  /\ calls = 0
  /\ terminated = FALSE
  /\ raced = FALSE

OwnerStep ==
  \/ BeginSetup \/ InitializeModel \/ SetupThrows \/ EndSetup
  \/ BeginPause \/ BeginExit \/ OwnerStops \/ OwnerCancels \/ OwnerDrops \/ EndPause \/ EndExit

RunnerStep(r) ==
  \/ Validate(r) \/ SetRunning(r)
  \/ StartExecution(r) \/ StartUnlessLive(r) \/ StartWorker(r)
  \/ LoopOn(r) \/ LoopUnlessCanceled(r)
  \/ GetResult(r) \/ GetUsedFuture(r) \/ GetException(r)
  \/ RunnerStops(r) \/ RunnerCancels(r) \/ RunnerDrops(r) \/ SetPaused(r)

WorkerStep(w) ==
  \/ BeginRound(w) \/ EndRound(w) \/ ThrowFromRound(w)
  \/ LeaveCanceled(w) \/ LeaveToHandOver(w) \/ HandOver(w) \/ AnswerOfPredecessor(w)

\* Somebody has read the token and is about to act on what may not hold any
\* more: a worker is canceled that has found itself not canceled and hands
\* over, or a run is about to start a worker while a StopExecution is about to
\* drop a token, or another run to start one.
Dropping(r) == runner[r].at = "drop"
Starting(r) == runner[r].at = "schedule"
Race ==
  \/ \E w \in canceled : worker[w] = "hand over"
  \/ \E r \in Runners : Starting(r) /\ owner \in {"pause drop", "exit drop"}
  \/ \E r, s \in Runners : r # s /\ Starting(r) /\ (Starting(s) \/ Dropping(s))

Next ==
  /\ ~terminated
  /\ \/ OwnerStep
     \/ \E r \in Runners : CallRun(r) \/ (\E n \in Iterations : CallIterate(r, n)) \/ RunnerStep(r)
     \/ \E w \in Workers : WorkerStep(w)
  /\ raced' = (raced \/ Race')

Spec == Init /\ [][Next]_vars

(* Calls that are under way return: threads are scheduled, a sleep ends, a  *)
(* callback returns or throws.  Nobody has to call the host again, a worker *)
(* that is not canceled may sleep for as long as its delay says, and rounds *)
(* may follow one another without an end.                                   *)
Fairness ==
  /\ WF_codeVars(InitializeModel \/ EndSetup \/ OwnerStops \/ OwnerCancels \/ OwnerDrops \/ EndPause \/ EndExit)
  /\ \A r \in Runners : WF_codeVars(RunnerStep(r))
  /\ \A w \in Workers : WF_codeVars(WorkerStep(w))

FairSpec == Spec /\ Fairness

-----------------------------------------------------------------------------
(* Properties. *)

\* A worker answers "false" only when its successor's future has replaced its
\* own, so that a runner in the loop of Execute never takes the future it has
\* just used and leaves a run that nobody stopped (Director.cpp:110, 212-215).
AnswerFollowsHandOver ==
  \A w \in Workers : result[w] = "false" => future # w

\* StopExecution reaches whoever goes on: a worker that sleeps or is in a round
\* and is not canceled is the one whose token is set, so that no second chain
\* of workers grows that nobody can stop (Director.cpp:88-91, 121-128, 145,
\* 206-212).  It is no longer so after a Race: a stop that meets a hand-over
\* cancels the worker that ends and not its successor, and of two runs that
\* start a worker, or of a start and a stop, one may drop the other's token.
StopReachesWhoeverGoesOn ==
  \A w \in Workers :
    worker[w] \in {"loop", "round"} /\ w \notin canceled => token = w \/ raced

\* A host that says it is running has a thread in a run, whatever was thrown
\* and whoever stopped it (HostImpl.cpp:121-137).
RunningMeansRunning ==
  hostState = "Running" => \E r \in Runners : runner[r].at \notin {"idle", "validate"}

\* Whoever waits for a worker that is canceled is released, in whatever line
\* the cancellation finds the worker: in its sleep, in a round, between
\* the test and the hand-over.
CanceledWorkerReleasesItsWaiter ==
  \A r \in Runners :
    (runner[r].at = "get" /\ runner[r].waitsFor \in canceled)
      ~> (terminated \/ runner[r].at # "get")

\* Director.h:24, callbacks appear "as if they execute atomically": no two
\* workers are in a round at the same time.
RoundsDoNotOverlap ==
  \A v, w \in Workers : worker[v] = "round" /\ worker[w] = "round" => v = w

\* Host.h:13, the ability to "pause" the model: the run that Pause stops ends,
\* unless the owner goes on to exit.
PauseEndsTheRun ==
  owner = "pause set" ~> (Quiet \/ hostState \in {"Exiting", "Finished"})
=============================================================================
