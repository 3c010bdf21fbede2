------------------------ MODULE HostExecutionProofs ------------------------
(***************************************************************************)
(* The safety properties of HostExecution for any number of workers, of    *)
(* calls, and of threads that run the host at the same time, and for an    *)
(* owner that does not wait for them.  The invariant has four parts: the   *)
(* chain of workers with its tokens and futures, the runs with the state   *)
(* of the host, what there is before Initialize, and what a StopExecution  *)
(* reaches.                                                                *)
(***************************************************************************)
EXTENDS HostExecution, TLAPS

-----------------------------------------------------------------------------
(* The inductive invariant.                                                *)

Answers == {"pending", "false", "true", "exception", "taken"}
Lines == {"loop", "round", "hand over", "answer", "done"}
OwnersLines == {"idle", "setup", "initialized",
                "pause stop", "pause cancel", "pause drop", "pause set",
                "exit stop", "exit cancel", "exit drop", "exit set"}
RunnersLines == {"idle", "validate", "set running", "start", "start canceled", "schedule",
                 "loop", "loop canceled", "get", "stop", "cancel", "drop", "set paused"}
RunnerStates == [at : RunnersLines, waitsFor : Workers \cup {None}, left : Nat \cup {NoLimit}]

chain == <<token, canceled, future, result, worker>>

ChainTypes ==
  /\ token \in Workers \cup {None}
  /\ canceled \subseteq Workers
  /\ future \in Workers \cup {None}
  /\ result \in [Workers -> Answers]
  /\ worker \in [Workers -> Lines]

\* A worker that is about to answer has been replaced.
ReplacedBeforeAnswer == \A w \in Workers : worker[w] = "answer" => future # w

Chain == ChainTypes /\ ReplacedBeforeAnswer /\ AnswerFollowsHandOver

RunTypes ==
  /\ hostState \in HostStates
  /\ owner \in OwnersLines
  /\ runner \in [Runners -> RunnerStates]
  /\ calls \in 0..MaxCalls
  /\ terminated \in BOOLEAN
  /\ raced \in BOOLEAN

Runs == RunTypes /\ RunningMeansRunning

\* Until Initialize schedules callbacks there are no workers and no runs.
Untouched == hostState = "NeedsSetup" \/ owner = "setup"
BeforeInitialize ==
  /\ owner \in {"setup", "initialized"} => hostState # "NeedsSetup"
  /\ Untouched => /\ \A w \in Workers : worker[w] = "done"
                  /\ token = None /\ future = None
                  /\ \A r \in Runners : runner[r] = IdleRunner

\* Whoever goes on has the token that is set; who drops a token has canceled
\* it, and who starts a worker has found none that goes on.
GoingOn(w) == worker[w] \in {"loop", "round", "hand over"} /\ w \notin canceled
Reach ==
  /\ \A w \in Workers : GoingOn(w) => token = w
  /\ owner \in {"pause drop", "exit drop"} => ~TokenLive
  /\ \A r \in Runners : Dropping(r) \/ Starting(r) => ~TokenLive
  /\ ~Race

ReachUnlessRaced == raced \/ Reach

IInv == Chain /\ Runs /\ BeforeInitialize /\ ReachUnlessRaced

LEMMA TypesInParts == TypeOK <=> ChainTypes /\ RunTypes
BY Zenon DEF TypeOK, ChainTypes, RunTypes, Answers, Lines, OwnersLines, RunnersLines, RunnerStates

LEMMA NoneIsNoWorker == None \notin Workers /\ 1 \in Workers
BY ExecutionAssumption DEF Workers, None

LEMMA NewWorkerIsFree ==
  ASSUME Free # {}
  PROVE  /\ NewWorker \in Workers /\ worker[NewWorker] = "done"
         /\ NewWorker # token /\ NewWorker # future
         /\ \A r \in Runners : runner[r].waitsFor # NewWorker
<1>1. NewWorker \in Free
  BY DEF NewWorker
<1> QED BY <1>1 DEF Free

-----------------------------------------------------------------------------
(* The chain of workers.                                                   *)

\* Tokens that nobody holds are destroyed, and nothing else happens to tokens.
LEMMA HeldTokens ==
  ASSUME NEW tokens \in SUBSET Workers, NEW tok, NEW workers
  PROVE  /\ Held(tokens, tok, workers) \in SUBSET tokens
         /\ tok \in tokens => tok \in Held(tokens, tok, workers)
         /\ \A w \in tokens : workers[w] # "done" => w \in Held(tokens, tok, workers)
BY DEF Held, HoldsToken

\* Futures that nobody holds are destroyed: the others keep what they hold.
LEMMA SharedFutures ==
  ASSUME NEW results \in [Workers -> Answers], NEW fut, NEW workers, NEW runners
  PROVE  /\ Shared(results, fut, workers, runners) \in [Workers -> Answers]
         /\ \A w \in Workers : \/ Shared(results, fut, workers, runners)[w] = results[w]
                               \/ Shared(results, fut, workers, runners)[w] = "taken"
BY DEF Shared, HoldsFuture, Answers

\* What ScheduleNextExecution leaves: one worker more, with the token and the
\* future that are set; the tokens of the other workers are as they were.
LEMMA Scheduled ==
  ASSUME ChainTypes, NEW workers \in [Workers -> Lines], ScheduleNextExecution(workers)
  PROVE  \E new \in Workers :
           /\ worker[new] = "done" /\ new # future
           /\ token' = new /\ future' = new
           /\ worker' = [workers EXCEPT ![new] = "loop"]
           /\ canceled' \in SUBSET (canceled \ {new})
           /\ \A w \in canceled \ {new} : worker'[w] # "done" => w \in canceled'
           /\ ChainTypes'
           /\ \A w \in Workers : result'[w] = "false" => w # new
<1>1. PICK new \in Workers : new = NewWorker /\ worker[new] = "done" /\ new # future
  BY NewWorkerIsFree DEF ScheduleNextExecution
<1>2. DEFINE res == [result EXCEPT ![new] = "pending"]
<1>3. /\ token' = new /\ future' = new
      /\ worker' = [workers EXCEPT ![new] = "loop"]
      /\ canceled' = Held(canceled \ {new}, token', worker')
      /\ result' = Shared(res, future', worker', runner)
  BY <1>1 DEF ScheduleNextExecution
<1>4. worker' \in [Workers -> Lines]
  BY <1>3 DEF Lines
<1>5. /\ canceled' \in SUBSET (canceled \ {new})
      /\ \A w \in canceled \ {new} : worker'[w] # "done" => w \in canceled'
  BY <1>3, HeldTokens DEF ChainTypes
<1>6. res \in [Workers -> Answers] /\ res[new] = "pending"
  BY DEF ChainTypes, Answers
<1> HIDE DEF res
<1>7. /\ result' \in [Workers -> Answers]
      /\ \A w \in Workers : result'[w] = "false" => w # new
  BY <1>3, <1>6, SharedFutures
<1>8. ChainTypes'
  BY <1>3, <1>4, <1>5, <1>7 DEF ChainTypes
<1> QED BY <1>1, <1>3, <1>5, <1>7, <1>8

\* A worker that has been replaced is about to answer or is done.
LEMMA ScheduleKeepsChain ==
  ASSUME Chain, NEW workers \in [Workers -> Lines], ScheduleNextExecution(workers),
         \A w \in Workers : workers[w] = "answer" => worker[w] # "done"
  PROVE  Chain'
<1>1. PICK new \in Workers :
        /\ worker[new] = "done" /\ future' = new
        /\ worker' = [workers EXCEPT ![new] = "loop"]
        /\ ChainTypes' /\ \A w \in Workers : result'[w] = "false" => w # new
  BY Scheduled DEF Chain
<1>2. ReplacedBeforeAnswer' /\ AnswerFollowsHandOver'
  BY <1>1 DEF ReplacedBeforeAnswer, AnswerFollowsHandOver
<1> QED BY <1>1, <1>2 DEF Chain

\* Neither tokens nor what is taken out of a future harm the chain.
LEMMA ChainStays ==
  ASSUME Chain, UNCHANGED <<future, worker>>,
         token' \in {token, None}, canceled' \in SUBSET Workers,
         result' \in [Workers -> Answers],
         \A w \in Workers : result'[w] \in {result[w], "taken"}
  PROVE  Chain'
<1>1. ChainTypes'
  BY DEF Chain, ChainTypes
<1>2. ReplacedBeforeAnswer' /\ AnswerFollowsHandOver'
  BY DEF Chain, ReplacedBeforeAnswer, AnswerFollowsHandOver
<1> QED BY <1>1, <1>2 DEF Chain

LEMMA ChainAlone ==
  ASSUME Chain, UNCHANGED chain
  PROVE  Chain'
BY DEF chain, Chain, ChainTypes, ReplacedBeforeAnswer, AnswerFollowsHandOver

\* A worker goes on.
LEMMA LineKeepsChain ==
  ASSUME Chain, NEW w \in Workers, NEW line \in Lines \ {"answer"}, WorkerAt(w, line),
         UNCHANGED <<token, canceled, future, result>>
  PROVE  Chain'
<1>1. /\ worker' \in [Workers -> Lines]
      /\ \A v \in Workers : worker'[v] = "answer" => worker[v] = "answer"
  BY DEF Chain, ChainTypes, WorkerAt
<1>2. ChainTypes'
  BY <1>1 DEF Chain, ChainTypes
<1>3. ReplacedBeforeAnswer' /\ AnswerFollowsHandOver'
  BY <1>1 DEF Chain, ReplacedBeforeAnswer, AnswerFollowsHandOver
<1> QED BY <1>2, <1>3 DEF Chain

\* A worker ends with an answer.
LEMMA AnswerKeepsChain ==
  ASSUME Chain, NEW w \in Workers, NEW answer \in {"exception", "true", "false"},
         answer = "false" => future # w,
         WorkerAt(w, "done"), Answer(w, answer), UNCHANGED <<token, future>>
  PROVE  Chain'
<1>1. /\ worker' \in [Workers -> Lines]
      /\ \A v \in Workers : worker'[v] = "answer" => worker[v] = "answer"
  BY DEF Chain, ChainTypes, WorkerAt, Lines
<1>2. canceled' \in SUBSET Workers
  BY HeldTokens DEF Answer, Chain, ChainTypes
<1>3. DEFINE res == [result EXCEPT ![w] = answer]
<1>4. /\ res \in [Workers -> Answers] /\ res[w] = answer
      /\ \A v \in Workers : v # w => res[v] = result[v]
  BY DEF Chain, ChainTypes, Answers
<1>5. result' = Shared(res, future, worker', runner)
  BY DEF Answer
<1> HIDE DEF res
<1>6. /\ result' \in [Workers -> Answers]
      /\ \A v \in Workers : result'[v] = "false" => res[v] = "false"
  BY <1>4, <1>5, SharedFutures
<1>7. ChainTypes'
  BY <1>1, <1>2, <1>6 DEF Chain, ChainTypes
<1>8. ReplacedBeforeAnswer'
  BY <1>1 DEF Chain, ReplacedBeforeAnswer
<1>9. AnswerFollowsHandOver'
  BY <1>4, <1>6 DEF Chain, AnswerFollowsHandOver
<1> QED BY <1>7, <1>8, <1>9 DEF Chain

LEMMA DropKeepsChain ==
  ASSUME Chain, Drop, UNCHANGED <<future, result, worker>>
  PROVE  Chain'
<1>1. token' = None /\ canceled' \in SUBSET Workers
  BY HeldTokens DEF Drop, Chain, ChainTypes
<1> QED BY <1>1, ChainStays DEF Chain, ChainTypes

LEMMA CancelKeepsChain ==
  ASSUME Chain, Cancel \/ CancelNothing, UNCHANGED <<token, future, result, worker>>
  PROVE  Chain'
<1>1. canceled' \in SUBSET Workers
  BY DEF Cancel, CancelNothing, Chain, ChainTypes
<1> QED BY <1>1, ChainStays DEF Chain, ChainTypes

LEMMA ChainKept == IInv /\ Next => Chain'
<1> SUFFICES ASSUME IInv, Next PROVE Chain'
  OBVIOUS
<1>1. ASSUME OwnerStep PROVE Chain'
  <2>1. CASE InitializeModel
    BY <2>1, ScheduleKeepsChain DEF InitializeModel, IInv, Chain, ChainTypes
  <2>2. CASE OwnerCancels
    BY <2>2, CancelKeepsChain DEF OwnerCancels, IInv
  <2>3. CASE OwnerDrops
    BY <2>3, DropKeepsChain DEF OwnerDrops, IInv
  <2>4. CASE UNCHANGED chain
    BY <2>4, ChainAlone DEF IInv
  <2> QED BY <1>1, <2>1, <2>2, <2>3, <2>4
          DEF OwnerStep, BeginSetup, SetupThrows, EndSetup, BeginPause, BeginExit, OwnerStops,
              EndPause, EndExit, chain
<1>2. ASSUME NEW r \in Runners, CallRun(r) \/ (\E n \in Iterations : CallIterate(r, n))
      PROVE  Chain'
  BY <1>2, ChainAlone DEF CallRun, CallIterate, IInv, chain
<1>3. ASSUME NEW r \in Runners, RunnerStep(r) PROVE Chain'
  <2>1. CASE StartWorker(r)
    BY <2>1, ScheduleKeepsChain DEF StartWorker, IInv, Chain, ChainTypes
  <2>2. CASE GetResult(r) \/ GetException(r)
    <3>1. /\ \/ result' = [result EXCEPT ![runner[r].waitsFor] = "taken"]
             \/ UNCHANGED result
          /\ UNCHANGED <<token, canceled, future, worker>>
      BY <2>2 DEF GetResult, GetException
    <3>2. /\ result' \in [Workers -> Answers]
          /\ \A w \in Workers : result'[w] \in {result[w], "taken"}
      BY <3>1 DEF IInv, Chain, ChainTypes, Answers
    <3> QED BY <3>1, <3>2, ChainStays DEF IInv, Chain, ChainTypes
  <2>3. CASE RunnerCancels(r)
    BY <2>3, CancelKeepsChain DEF RunnerCancels, IInv
  <2>4. CASE RunnerDrops(r)
    BY <2>4, DropKeepsChain DEF RunnerDrops, IInv
  <2>5. CASE SetPaused(r)
    <3>1. /\ result' \in [Workers -> Answers]
          /\ \A w \in Workers : result'[w] \in {result[w], "taken"}
      <4>1. result \in [Workers -> Answers] /\ result' = Shared(result, future, worker, runner')
        BY <2>5 DEF SetPaused, IInv, Chain, ChainTypes
      <4> QED BY <4>1, SharedFutures
    <3> QED BY <2>5, <3>1, ChainStays DEF SetPaused, IInv, Chain, ChainTypes
  <2>6. CASE UNCHANGED chain
    BY <2>6, ChainAlone DEF IInv
  <2> QED BY <1>3, <2>1, <2>2, <2>3, <2>4, <2>5, <2>6
          DEF RunnerStep, Validate, SetRunning, StartExecution, StartUnlessLive, LoopOn,
              LoopUnlessCanceled, GetUsedFuture, RunnerStops, chain
<1>4. ASSUME NEW w \in Workers, WorkerStep(w) PROVE Chain'
  <2>1. CASE BeginRound(w) \/ EndRound(w) \/ LeaveToHandOver(w)
    <3>1. PICK line \in Lines \ {"answer"} : WorkerAt(w, line)
      BY <2>1 DEF BeginRound, EndRound, LeaveToHandOver, Lines
    <3> QED BY <2>1, <3>1, LineKeepsChain DEF BeginRound, EndRound, LeaveToHandOver, IInv
  <2>2. CASE ThrowFromRound(w)
    BY <2>2, AnswerKeepsChain DEF ThrowFromRound, IInv
  <2>3. CASE LeaveCanceled(w)
    BY <2>3, AnswerKeepsChain DEF LeaveCanceled, CanceledAnswer, IInv
  <2>4. CASE AnswerOfPredecessor(w)
    <3>1. future # w
      BY <2>4 DEF AnswerOfPredecessor, IInv, Chain, ReplacedBeforeAnswer
    <3> QED BY <2>4, <3>1, AnswerKeepsChain DEF AnswerOfPredecessor, IInv
  <2>5. CASE HandOver(w)
    <3>1. PICK line \in {"answer", "done"} :
            ScheduleNextExecution([worker EXCEPT ![w] = line]) /\ worker[w] = "hand over"
      BY <2>5 DEF HandOver
    <3>2. DEFINE workers == [worker EXCEPT ![w] = line]
    <3>3. /\ workers \in [Workers -> Lines]
          /\ \A v \in Workers : workers[v] = "answer" => worker[v] # "done"
      BY <3>1, w \in Workers DEF IInv, Chain, ChainTypes, ReplacedBeforeAnswer, Lines
    <3>4. ScheduleNextExecution(workers)
      BY <3>1
    <3> HIDE DEF workers
    <3> QED BY <3>3, <3>4, ScheduleKeepsChain DEF IInv
  <2> QED BY <1>4, <2>1, <2>2, <2>3, <2>4, <2>5 DEF WorkerStep
<1> QED BY <1>1, <1>2, <1>3, <1>4 DEF Next

-----------------------------------------------------------------------------
(* The runs and the state of the host.                                     *)

LEMMA HistoryStaysBoolean == Runs /\ Next => raced' \in BOOLEAN
<1> SUFFICES ASSUME Next PROVE raced' \in BOOLEAN
  OBVIOUS
<1>1. raced' = (raced \/ Race')
  BY DEF Next
<1>2. (raced \/ Race') \in BOOLEAN
  BY Zenon
<1> QED BY <1>1, <1>2

\* A step of the owner.
LEMMA OwnerMoves ==
  ASSUME Runs, owner' \in OwnersLines, UNCHANGED runner, raced' \in BOOLEAN,
         terminated' \in BOOLEAN, calls' \in 0..MaxCalls,
         hostState' \in HostStates \ {"Running"} \/ UNCHANGED hostState
  PROVE  Runs'
<1>1. RunTypes'
  BY DEF Runs, RunTypes
<1>2. RunningMeansRunning'
  BY DEF Runs, RunningMeansRunning
<1> QED BY <1>1, <1>2 DEF Runs

\* A step of one runner: who says that the host is running is in a run, and
\* who leaves a run says that the host is paused.
LEMMA RunnerMoves ==
  ASSUME Runs, NEW r \in Runners, NEW rec \in RunnerStates,
         runner' = [runner EXCEPT ![r] = rec],
         hostState' \in HostStates,
         hostState' = "Running" =>
           \/ rec.at \notin {"idle", "validate"}
           \/ hostState = "Running" /\ runner[r].at \in {"idle", "validate"},
         UNCHANGED owner, raced' \in BOOLEAN, terminated' \in BOOLEAN, calls' \in 0..MaxCalls
  PROVE  Runs'
<1>1. /\ runner' \in [Runners -> RunnerStates] /\ runner'[r] = rec
      /\ \A s \in Runners : s # r => runner'[s] = runner[s]
  BY DEF Runs, RunTypes
<1>2. RunTypes'
  BY <1>1 DEF Runs, RunTypes
<1>3. RunningMeansRunning'
  <2>1. SUFFICES ASSUME hostState' = "Running"
                 PROVE  \E s \in Runners : runner'[s].at \notin {"idle", "validate"}
    BY DEF RunningMeansRunning
  <2>2. CASE rec.at \notin {"idle", "validate"}
    BY <1>1, <2>2
  <2>3. CASE rec.at \in {"idle", "validate"}
    <3>1. PICK s \in Runners : runner[s].at \notin {"idle", "validate"}
      BY <2>1, <2>3 DEF Runs, RunningMeansRunning
    <3> QED BY <1>1, <2>1, <2>3, <3>1
  <2> QED BY <2>2, <2>3
<1> QED BY <1>2, <1>3 DEF Runs

\* A step of a worker.
LEMMA WorkerMoves ==
  ASSUME Runs, UNCHANGED <<hostState, owner, runner, terminated, calls>>, raced' \in BOOLEAN
  PROVE  Runs'
BY DEF Runs, RunTypes, RunningMeansRunning

\* What a runner can become by one assignment.
LEMMA RunnerBecomes ==
  ASSUME Runs, NEW r \in Runners
  PROVE  /\ runner[r] \in RunnerStates
         /\ \A at \in RunnersLines :
              /\ [runner[r] EXCEPT !.at = at] \in RunnerStates
              /\ [runner[r] EXCEPT !.at = at].at = at
              /\ [runner EXCEPT ![r].at = at] = [runner EXCEPT ![r] = [runner[r] EXCEPT !.at = at]]
<1>1. runner \in [Runners -> RunnerStates] /\ runner[r] \in RunnerStates
  BY DEF Runs, RunTypes
<1> QED BY <1>1 DEF RunnerStates

\* A runner that goes on, and stays with the future it has.
LEMMA RunnerGoesOn ==
  ASSUME Runs, NEW r \in Runners, NEW at \in RunnersLines \ {"idle", "validate"}, RunnerAt(r, at),
         hostState' \in HostStates,
         UNCHANGED <<owner, calls>>, raced' \in BOOLEAN, terminated' \in BOOLEAN
  PROVE  Runs'
<1>1. PICK rec \in RunnerStates : rec = [runner[r] EXCEPT !.at = at]
  BY RunnerBecomes
<1>2. runner' = [runner EXCEPT ![r] = rec] /\ rec.at = at
  BY <1>1, RunnerBecomes DEF RunnerAt
<1>3. calls' \in 0..MaxCalls
  BY DEF Runs, RunTypes
<1> QED BY <1>2, <1>3, RunnerMoves

\* A runner that takes a future enters the loop.
LEMMA RunnerTakes ==
  ASSUME Runs, NEW r \in Runners, NEW left \in Nat \cup {NoLimit}, NEW fut \in Workers \cup {None},
         runner' = [runner EXCEPT ![r].at = "loop", ![r].waitsFor = fut, ![r].left = left],
         UNCHANGED <<owner, calls, hostState>>, raced' \in BOOLEAN, terminated' \in BOOLEAN
  PROVE  Runs'
<1>1. runner \in [Runners -> RunnerStates] /\ runner[r] \in RunnerStates
  BY DEF Runs, RunTypes
<1>2. runner' \in [Runners -> RunnerStates]
  BY <1>1 DEF RunnerStates, RunnersLines
<1>3. runner'[r].at = "loop" /\ runner'[r] \in RunnerStates
      /\ runner' = [runner EXCEPT ![r] = runner'[r]]
  BY <1>1, <1>2 DEF RunnerStates
<1>4. calls' \in 0..MaxCalls /\ hostState' \in HostStates
  BY DEF Runs, RunTypes
<1>5. PICK rec \in RunnerStates : rec = runner'[r]
  BY <1>3
<1> QED BY <1>3, <1>4, <1>5, RunnerMoves

LEMMA CallsAreCounted ==
  ASSUME calls \in 0..MaxCalls, Call
  PROVE  calls' \in 0..MaxCalls
BY ExecutionAssumption DEF Call

LEMMA OwnersStepKeepsRuns == IInv /\ OwnerStep /\ raced' \in BOOLEAN => Runs'
<1> SUFFICES ASSUME IInv, OwnerStep, raced' \in BOOLEAN PROVE Runs'
  OBVIOUS
<1>1. calls \in 0..MaxCalls /\ terminated \in BOOLEAN /\ MaxCalls \in Nat
  BY ExecutionAssumption DEF IInv, Runs, RunTypes
<1>2. CASE BeginPause \/ BeginExit
  <2>1. calls' \in 0..MaxCalls
    BY <1>1, <1>2, CallsAreCounted DEF BeginPause, BeginExit
  <2>2. /\ owner' \in OwnersLines /\ UNCHANGED <<runner, terminated>>
        /\ hostState' \in HostStates \ {"Running"} \/ UNCHANGED hostState
    BY <1>2 DEF BeginPause, BeginExit, OwnersLines, HostStates
  <2> QED BY <1>1, <2>1, <2>2, OwnerMoves DEF IInv
<1>3. CASE BeginSetup \/ InitializeModel \/ SetupThrows \/ EndSetup \/ OwnerStops \/ OwnerDrops
           \/ EndPause \/ EndExit \/ OwnerCancels
  <2>1. UNCHANGED calls
    BY <1>3 DEF BeginSetup, InitializeModel, SetupThrows, EndSetup, OwnerStops, OwnerCancels,
                OwnerDrops, EndPause, EndExit
  <2>2. terminated' \in BOOLEAN
    BY <1>1, <1>3 DEF BeginSetup, InitializeModel, SetupThrows, EndSetup, OwnerStops, OwnerCancels,
                OwnerDrops, EndPause, EndExit, Cancel, CancelNothing
  <2>3. /\ owner' \in OwnersLines /\ UNCHANGED runner
        /\ hostState' \in HostStates \ {"Running"} \/ UNCHANGED hostState
    BY <1>3 DEF BeginSetup, InitializeModel, SetupThrows, EndSetup, OwnerStops, OwnerCancels,
                OwnerDrops, EndPause, EndExit, OwnersLines, HostStates
  <2> QED BY <1>1, <2>1, <2>2, <2>3, OwnerMoves DEF IInv
<1> QED BY <1>2, <1>3 DEF OwnerStep

LEMMA CallKeepsRuns ==
  ASSUME IInv, raced' \in BOOLEAN, NEW r \in Runners,
         CallRun(r) \/ (\E n \in Iterations : CallIterate(r, n))
  PROVE  Runs'
<1>1. /\ runner[r].at = "idle" /\ hostState \in HostStates \ {"Running"} /\ terminated \in BOOLEAN
      /\ UNCHANGED <<hostState, owner, terminated>>
  BY DEF CallRun, CallIterate, CanRun, IInv, Runs, RunTypes, HostStates
<1>2. calls' \in 0..MaxCalls
  BY CallsAreCounted DEF CallRun, CallIterate, IInv, Runs, RunTypes
<1>3. PICK rec \in RunnerStates : runner' = [runner EXCEPT ![r] = rec]
  <2>1. CASE CallRun(r)
    <3>1. [IdleRunner EXCEPT !.at = "validate"] \in RunnerStates
      BY DEF IdleRunner, RunnerStates, RunnersLines
    <3> QED BY <2>1, <3>1 DEF CallRun
  <2>2. CASE \E n \in Iterations : CallIterate(r, n)
    <3>1. PICK n \in Nat : CallIterate(r, n)
      BY <2>2, ExecutionAssumption
    <3>2. PICK left \in Nat \cup {NoLimit} : left = IF n = 0 THEN NoLimit ELSE n
      OBVIOUS
    <3>3. [IdleRunner EXCEPT !.at = "set running", !.left = left] \in RunnerStates
      BY DEF IdleRunner, RunnerStates, RunnersLines
    <3> QED BY <3>1, <3>2, <3>3 DEF CallIterate
  <2> QED BY <2>1, <2>2
<1> QED BY <1>1, <1>2, <1>3, RunnerMoves DEF IInv

LEMMA IdleIsAState == IdleRunner \in RunnerStates /\ IdleRunner.at = "idle"
BY DEF IdleRunner, RunnerStates, RunnersLines

LEMMA RunnersStepKeepsRuns ==
  ASSUME IInv, raced' \in BOOLEAN, NEW r \in Runners, RunnerStep(r), Chain'
  PROVE  Runs'
<1>1. /\ calls \in 0..MaxCalls /\ terminated \in BOOLEAN /\ hostState \in HostStates
      /\ runner[r] \in RunnerStates /\ future \in Workers \cup {None}
      /\ future' \in Workers \cup {None}
  BY DEF IInv, Chain, ChainTypes, Runs, RunTypes
<1>2. CASE Validate(r)
  <2>1. PICK at \in {"idle", "set running"} : RunnerAt(r, at)
    BY <1>2 DEF Validate
  <2>2. PICK rec \in RunnerStates : rec = [runner[r] EXCEPT !.at = at]
    BY RunnerBecomes DEF IInv, RunnersLines
  <2>3. runner' = [runner EXCEPT ![r] = rec]
    BY <2>1, <2>2, RunnerBecomes DEF IInv, RunnerAt, RunnersLines
  <2>4. /\ runner[r].at = "validate" /\ terminated' \in BOOLEAN
        /\ UNCHANGED <<hostState, owner, calls>>
    BY <1>1, <1>2 DEF Validate
  <2> QED BY <1>1, <2>3, <2>4, RunnerMoves DEF IInv
<1>3. CASE SetPaused(r)
  <2>1. hostState' = "Paused" /\ runner' = [runner EXCEPT ![r] = IdleRunner]
        /\ UNCHANGED <<owner, calls, terminated>>
    BY <1>3 DEF SetPaused
  <2> QED BY <1>1, <2>1, IdleIsAState, RunnerMoves DEF IInv, HostStates
<1>4. CASE SetRunning(r) \/ StartExecution(r) \/ LoopOn(r) \/ GetException(r)
           \/ RunnerStops(r) \/ RunnerCancels(r) \/ RunnerDrops(r)
  <2>1. PICK at \in RunnersLines \ {"idle", "validate"} : RunnerAt(r, at)
    BY <1>4 DEF SetRunning, StartExecution, LoopOn, GetException, RunnerStops, RunnerCancels,
                RunnerDrops, RunnersLines
  <2>2. hostState' \in HostStates
    BY <1>1, <1>4 DEF SetRunning, StartExecution, LoopOn, GetException, RunnerStops, RunnerCancels,
                RunnerDrops, HostStates
  <2>3. UNCHANGED <<owner, calls>> /\ terminated' \in BOOLEAN
    BY <1>1, <1>4 DEF SetRunning, StartExecution, LoopOn, GetException, RunnerStops, RunnerCancels,
                RunnerDrops, Cancel, CancelNothing
  <2> QED BY <2>1, <2>2, <2>3, RunnerGoesOn DEF IInv
<1>5. ASSUME NEW fut \in Workers \cup {None},
             runner' = [runner EXCEPT ![r].at = "loop", ![r].waitsFor = fut],
             UNCHANGED <<owner, calls, hostState>>, terminated' \in BOOLEAN
      PROVE  Runs'
  <2>1. PICK left \in Nat \cup {NoLimit} : left = runner[r].left
    BY <1>1 DEF RunnerStates
  <2>2. runner' = [runner EXCEPT ![r].at = "loop", ![r].waitsFor = fut, ![r].left = left]
    BY <1>1, <1>5, <2>1 DEF RunnerStates, IInv, Runs, RunTypes
  <2> QED BY <1>5, <2>2, RunnerTakes DEF IInv
<1>6. ASSUME UNCHANGED <<runner, owner, calls, hostState>>, terminated' \in BOOLEAN
      PROVE  Runs'
  BY <1>6 DEF IInv, Runs, RunTypes, RunningMeansRunning
<1>7. CASE StartUnlessLive(r)
  <2>1. CASE RunnerAt(r, "schedule") /\ UNCHANGED terminated
    BY <1>1, <1>7, <2>1, RunnerGoesOn DEF StartUnlessLive, IInv, RunnersLines
  <2> QED BY <1>1, <1>5, <1>6, <1>7, <2>1 DEF StartUnlessLive, TakesFuture
<1>8. CASE StartWorker(r)
  BY <1>1, <1>5, <1>8 DEF StartWorker, TakesFuture
<1>9. CASE LoopUnlessCanceled(r)
  <2>1. CASE UNCHANGED runner
    BY <1>6, <1>1, <1>9, <2>1 DEF LoopUnlessCanceled
  <2>2. CASE RunnerAt(r, "get") \/ RunnerAt(r, "stop")
    BY <1>1, <1>9, <2>2, RunnerGoesOn DEF LoopUnlessCanceled, IInv, RunnersLines
  <2> QED BY <1>9, <2>1, <2>2 DEF LoopUnlessCanceled
<1>10. ASSUME GoesOnAfterGet(r), UNCHANGED <<owner, calls, hostState>>, terminated' \in BOOLEAN
       PROVE  Runs'
  <2>1. PICK left \in Nat \cup {NoLimit} : left = Remaining(runner[r].left)
    BY <1>1 DEF RunnerStates, Remaining, NoLimit
  <2>2. runner' = [runner EXCEPT ![r].at = "loop", ![r].waitsFor = future, ![r].left = left]
    BY <1>1, <1>10, <2>1 DEF GoesOnAfterGet, RunnerStates, IInv, Runs, RunTypes
  <2> QED BY <1>1, <1>10, <2>2, RunnerTakes DEF IInv
<1>11. CASE GetResult(r)
  BY <1>1, <1>10, <1>11 DEF GetResult
<1>12. CASE GetUsedFuture(r)
  <2>1. CASE hostState' = "Corrupted" /\ RunnerAt(r, "set paused") /\ UNCHANGED terminated
    BY <1>1, <1>12, <2>1, RunnerGoesOn DEF GetUsedFuture, IInv, RunnersLines, HostStates
  <2> QED BY <1>1, <1>6, <1>10, <1>12, <2>1 DEF GetUsedFuture
<1> QED BY <1>2, <1>3, <1>4, <1>7, <1>8, <1>9, <1>11, <1>12 DEF RunnerStep

LEMMA RunsKept == IInv /\ Next => Runs'
<1> SUFFICES ASSUME IInv, Next PROVE Runs'
  OBVIOUS
<1>1. raced' \in BOOLEAN /\ Chain'
  BY HistoryStaysBoolean, ChainKept DEF IInv
<1>2. ASSUME NEW w \in Workers, WorkerStep(w) PROVE Runs'
  BY <1>1, <1>2, WorkerMoves
  DEF IInv, WorkerStep, BeginRound, EndRound, ThrowFromRound, LeaveCanceled, LeaveToHandOver,
      HandOver, AnswerOfPredecessor
<1> QED BY <1>1, <1>2, OwnersStepKeepsRuns, CallKeepsRuns, RunnersStepKeepsRuns DEF Next

-----------------------------------------------------------------------------
(* Before Initialize.                                                      *)

LEMMA BeforeInitializeKept == IInv /\ Next => BeforeInitialize'
<1> SUFFICES ASSUME IInv, Next PROVE BeforeInitialize'
  OBVIOUS
<1>1. ASSUME OwnerStep PROVE BeforeInitialize'
  <2>1. CASE BeginSetup
    BY <2>1 DEF BeginSetup, IInv, BeforeInitialize, Untouched
  <2>2. CASE InitializeModel \/ SetupThrows \/ EndSetup \/ BeginExit \/ EndPause \/ EndExit
    <3>1. InitializeModel \/ (~Untouched' /\ owner' \notin {"setup", "initialized"})
      BY <2>2 DEF InitializeModel, SetupThrows, EndSetup, BeginExit, EndPause, EndExit, IInv,
                  BeforeInitialize, Untouched, Runs
    <3>2. CASE InitializeModel
      BY <3>2 DEF InitializeModel, IInv, BeforeInitialize, Untouched
    <3> QED BY <3>1, <3>2 DEF BeforeInitialize
  <2>3. CASE BeginPause \/ OwnerStops \/ OwnerCancels \/ OwnerDrops
    <3>1. /\ Untouched' => Untouched
          /\ owner' \notin {"setup", "initialized"}
      BY <2>3 DEF BeginPause, OwnerStops, OwnerCancels, OwnerDrops, Untouched
    <3>2. UNCHANGED <<worker, future, runner>> /\ token' \in {token, None}
      BY <2>3 DEF BeginPause, OwnerStops, OwnerCancels, OwnerDrops, Drop
    <3> QED BY <3>1, <3>2 DEF IInv, BeforeInitialize
  <2> QED BY <1>1, <2>1, <2>2, <2>3 DEF OwnerStep
<1>2. ASSUME ~Untouched, UNCHANGED owner, hostState' # "NeedsSetup" PROVE BeforeInitialize'
  BY <1>2 DEF Untouched, BeforeInitialize
<1>3. ASSUME NEW r \in Runners, CallRun(r) \/ (\E n \in Iterations : CallIterate(r, n))
      PROVE  BeforeInitialize'
  <2>1. ~Untouched /\ UNCHANGED owner /\ hostState' # "NeedsSetup"
    BY <1>3 DEF CallRun, CallIterate, CanRun, Untouched
  <2> QED BY <1>2, <2>1
<1>4. ASSUME NEW r \in Runners, RunnerStep(r) PROVE BeforeInitialize'
  <2>1. runner[r].at # "idle"
    BY <1>4 DEF RunnerStep, Validate, SetRunning, StartExecution, StartUnlessLive, StartWorker,
                LoopOn, LoopUnlessCanceled, GetResult, GetUsedFuture, GetException, RunnerStops,
                RunnerCancels, RunnerDrops, SetPaused
  <2>2. ~Untouched
    BY <2>1 DEF IInv, BeforeInitialize, IdleRunner
  <2>3. UNCHANGED owner /\ (UNCHANGED hostState \/ hostState' # "NeedsSetup")
    BY <1>4 DEF RunnerStep, Validate, SetRunning, StartExecution, StartUnlessLive, StartWorker,
                LoopOn, LoopUnlessCanceled, GetResult, GetUsedFuture, GetException, RunnerStops,
                RunnerCancels, RunnerDrops, SetPaused
  <2> QED BY <1>2, <2>2, <2>3 DEF Untouched
<1>5. ASSUME NEW w \in Workers, WorkerStep(w) PROVE BeforeInitialize'
  <2>1. worker[w] # "done" /\ UNCHANGED <<owner, hostState>>
    BY <1>5 DEF WorkerStep, BeginRound, EndRound, ThrowFromRound, LeaveCanceled, LeaveToHandOver,
                HandOver, AnswerOfPredecessor
  <2>2. ~Untouched
    BY <2>1 DEF IInv, BeforeInitialize
  <2> QED BY <1>2, <2>1, <2>2 DEF Untouched
<1> QED BY <1>1, <1>3, <1>4, <1>5 DEF Next

-----------------------------------------------------------------------------
(* What a StopExecution reaches, while there has been no race.              *)

\* A new worker, when none goes on but the one that hands over, and nobody is
\* about to drop a token or to start a worker.
LEMMA ScheduleKeepsReach ==
  ASSUME ChainTypes, NEW workers \in [Workers -> Lines], ScheduleNextExecution(workers), ~Race',
         \A w \in Workers : ~(workers[w] \in {"loop", "round", "hand over"} /\ w \notin canceled),
         owner' \notin {"pause drop", "exit drop"},
         \A r \in Runners : ~(Dropping(r)' \/ Starting(r)')
  PROVE  Reach'
<1>1. PICK new \in Workers :
        /\ token' = new
        /\ worker' = [workers EXCEPT ![new] = "loop"]
        /\ \A w \in canceled \ {new} : worker'[w] # "done" => w \in canceled'
  BY Scheduled
<1>2. \A w \in Workers : GoingOn(w)' => token' = w
  BY <1>1 DEF GoingOn
<1> QED BY <1>2 DEF Reach

\* A step that starts no worker, lets no worker go on, and of which the token
\* comes out no more alive than it was.
LEMMA ReachStays ==
  ASSUME Reach, ~Race',
         \A w \in Workers : GoingOn(w)' => GoingOn(w) /\ token' = token,
         TokenLive' => TokenLive,
         owner' \in {"pause drop", "exit drop"} => owner \in {"pause drop", "exit drop"} \/ ~TokenLive',
         \A r \in Runners : Dropping(r)' \/ Starting(r)' => Dropping(r) \/ Starting(r) \/ ~TokenLive'
  PROVE  Reach'
BY DEF Reach

LEMMA NobodyGoesOnAlone == IInv /\ Reach /\ ~TokenLive => \A w \in Workers : ~GoingOn(w)
BY NoneIsNoWorker DEF Reach, GoingOn, TokenLive

\* A step of one runner leaves the others where they are.
LEMMA OtherRunnersStay ==
  ASSUME IInv, NEW r \in Runners,
         RunnerStep(r) \/ CallRun(r) \/ (\E n \in Iterations : CallIterate(r, n))
  PROVE  \A s \in Runners : s # r => runner'[s] = runner[s]
BY DEF IInv, Runs, RunTypes, RunnerStep, CallRun, CallIterate, Validate, SetRunning, StartExecution,
       StartUnlessLive, StartWorker, LoopOn, LoopUnlessCanceled, GetResult, GetUsedFuture,
       GetException, RunnerStops, RunnerCancels, RunnerDrops, SetPaused, RunnerAt, TakesFuture,
       GoesOnAfterGet

LEMMA DropKeepsReach ==
  ASSUME IInv, Reach, ~Race', Drop, UNCHANGED worker, ~TokenLive,
         owner' \in {"pause drop", "exit drop"} => owner \in {"pause drop", "exit drop"},
         \A r \in Runners : Dropping(r)' \/ Starting(r)' => Dropping(r) \/ Starting(r)
  PROVE  Reach'
<1>1. \A w \in Workers : ~GoingOn(w)
  BY NobodyGoesOnAlone
<1>2. \A w \in Workers : w \in canceled /\ worker[w] # "done" => w \in canceled'
  BY HeldTokens DEF Drop, IInv, Chain, ChainTypes
<1>3. \A w \in Workers : ~GoingOn(w)'
  BY <1>1, <1>2 DEF GoingOn
<1>4. ~TokenLive'
  BY DEF Drop, TokenLive
<1> QED BY <1>3, <1>4, ReachStays

LEMMA CancelKeepsReach ==
  ASSUME IInv, Reach, ~Race', Cancel \/ CancelNothing, UNCHANGED <<token, worker>>
  PROVE  Reach'
<1>1. canceled \subseteq canceled' /\ ~TokenLive'
  BY DEF Cancel, CancelNothing, TokenLive
<1>2. \A w \in Workers : GoingOn(w)' => GoingOn(w)
  BY <1>1 DEF GoingOn
<1> QED BY <1>1, <1>2, ReachStays

LEMMA OwnersStepKeepsReach == IInv /\ Reach /\ ~Race' /\ OwnerStep => Reach'
<1> SUFFICES ASSUME IInv, Reach, ~Race', OwnerStep PROVE Reach'
  OBVIOUS
<1>1. UNCHANGED runner
  BY DEF OwnerStep, BeginSetup, InitializeModel, SetupThrows, EndSetup, BeginPause, BeginExit,
         OwnerStops, OwnerCancels, OwnerDrops, EndPause, EndExit
<1>2. \A r \in Runners : Dropping(r)' \/ Starting(r)' => Dropping(r) \/ Starting(r)
  BY <1>1 DEF Dropping, Starting
<1>3. CASE InitializeModel
  <2>1. /\ \A w \in Workers : worker[w] = "done"
        /\ \A r \in Runners : runner[r] = IdleRunner
    BY <1>3 DEF InitializeModel, IInv, BeforeInitialize, Untouched
  <2>2. \A r \in Runners : ~(Dropping(r)' \/ Starting(r)')
    BY <1>2, <2>1 DEF Dropping, Starting, IdleRunner
  <2> QED BY <1>3, <2>1, <2>2, ScheduleKeepsReach DEF InitializeModel, IInv, Chain, ChainTypes
<1>4. CASE OwnerCancels
  BY <1>4, CancelKeepsReach DEF OwnerCancels
<1>5. CASE OwnerDrops
  <2>1. /\ ~TokenLive /\ owner' \notin {"pause drop", "exit drop"}
        /\ Drop /\ UNCHANGED worker
    BY <1>5 DEF OwnerDrops, Reach
  <2> QED BY <1>2, <2>1, DropKeepsReach
<1>6. CASE UNCHANGED <<token, canceled, worker>> /\ owner' \notin {"pause drop", "exit drop"}
  BY <1>2, <1>6, ReachStays DEF GoingOn, TokenLive
<1> QED BY <1>3, <1>4, <1>5, <1>6
        DEF OwnerStep, BeginSetup, SetupThrows, EndSetup, BeginPause, BeginExit, OwnerStops,
            EndPause, EndExit

LEMMA CallKeepsReach ==
  ASSUME IInv, Reach, ~Race', NEW r \in Runners,
         CallRun(r) \/ (\E n \in Iterations : CallIterate(r, n))
  PROVE  Reach'
<1>1. UNCHANGED <<owner, token, canceled, worker>>
  BY DEF CallRun, CallIterate
<1>2. runner'[r].at \notin {"drop", "schedule"}
  BY DEF CallRun, CallIterate, IInv, Runs, RunTypes, IdleRunner
<1>3. \A s \in Runners : Dropping(s)' \/ Starting(s)' => Dropping(s) \/ Starting(s)
  BY <1>2, OtherRunnersStay DEF Dropping, Starting
<1> QED BY <1>1, <1>3, ReachStays DEF GoingOn, TokenLive

LEMMA RunnersStepKeepsReach ==
  ASSUME IInv, Reach, ~Race', NEW r \in Runners, RunnerStep(r)
  PROVE  Reach'
<1>1. /\ \A s \in Runners : s # r => runner'[s] = runner[s]
      /\ runner \in [Runners -> RunnerStates] /\ runner[r] \in RunnerStates
      /\ UNCHANGED owner
  BY OtherRunnersStay
  DEF IInv, Runs, RunTypes, RunnerStep, Validate, SetRunning, StartExecution, StartUnlessLive,
      StartWorker, LoopOn, LoopUnlessCanceled, GetResult, GetUsedFuture, GetException, RunnerStops,
      RunnerCancels, RunnerDrops, SetPaused
<1>2. ASSUME NEW at, RunnerAt(r, at) PROVE runner'[r].at = at
  BY <1>1, <1>2 DEF RunnerAt, RunnerStates
<1>3. ASSUME runner'[r].at \notin {"drop", "schedule"}
      PROVE  \A s \in Runners : Dropping(s)' \/ Starting(s)' => s # r /\ (Dropping(s) \/ Starting(s))
  BY <1>1, <1>3 DEF Dropping, Starting
<1>4. ASSUME UNCHANGED <<token, canceled, worker>>, runner'[r].at \notin {"drop", "schedule"}
      PROVE  Reach'
  BY <1>1, <1>3, <1>4, ReachStays DEF GoingOn, TokenLive
<1>5. ASSUME UNCHANGED <<token, canceled, worker>>, ~TokenLive
      PROVE  Reach'
  BY <1>1, <1>5, ReachStays DEF GoingOn, TokenLive
<1>6. ASSUME TakesFuture(r) PROVE runner'[r].at = "loop"
  BY <1>1, <1>6 DEF TakesFuture, RunnerStates
<1>7. CASE StartExecution(r)
  BY <1>2, <1>4, <1>5, <1>7 DEF StartExecution, TokenLive
<1>8. CASE StartUnlessLive(r)
  <2>1. CASE TakesFuture(r)
    BY <1>4, <1>6, <1>8, <2>1 DEF StartUnlessLive
  <2>2. CASE ~TokenLive
    BY <1>5, <1>8, <2>2 DEF StartUnlessLive
  <2> QED BY <1>8, <2>1, <2>2 DEF StartUnlessLive, TokenLive
<1>9. CASE StartWorker(r)
  <2>1. /\ Starting(r) /\ ~TokenLive
        /\ owner \notin {"pause drop", "exit drop"}
        /\ \A s \in Runners : s # r => ~(Starting(s) \/ Dropping(s))
    BY <1>9 DEF StartWorker, Starting, Reach, Race
  <2>2. \A s \in Runners : ~(Dropping(s)' \/ Starting(s)')
    BY <1>3, <1>6, <1>9, <2>1 DEF StartWorker
  <2>3. \A w \in Workers : ~GoingOn(w)
    BY <2>1, NobodyGoesOnAlone
  <2> QED BY <1>1, <1>9, <2>1, <2>2, <2>3, ScheduleKeepsReach
          DEF StartWorker, GoingOn, IInv, Chain, ChainTypes
<1>10. CASE RunnerCancels(r)
  BY <1>10, CancelKeepsReach DEF RunnerCancels
<1>11. CASE RunnerDrops(r)
  <2>1. Drop /\ UNCHANGED worker /\ ~TokenLive
    BY <1>11 DEF RunnerDrops, Reach, Dropping
  <2>2. runner'[r].at \notin {"drop", "schedule"}
    BY <1>2, <1>11 DEF RunnerDrops
  <2> QED BY <1>1, <1>3, <2>1, <2>2, DropKeepsReach
<1>12. CASE SetPaused(r)
  BY <1>1, <1>4, <1>12 DEF SetPaused, IdleRunner
<1>13. CASE GetResult(r) \/ GetUsedFuture(r)
  <2>1. CASE GoesOnAfterGet(r)
    <3>1. runner'[r].at = "loop"
      BY <1>1, <2>1 DEF GoesOnAfterGet, RunnerStates
    <3> QED BY <1>4, <1>13, <3>1 DEF GetResult, GetUsedFuture
  <2>2. CASE RunnerAt(r, "set paused")
    BY <1>2, <1>4, <1>13, <2>2 DEF GetResult, GetUsedFuture
  <2>3. CASE UNCHANGED runner
    BY <1>4, <1>13, <2>3 DEF GetResult, GetUsedFuture
  <2> QED BY <1>13, <2>1, <2>2, <2>3 DEF GetResult, GetUsedFuture
<1>14. CASE Validate(r) \/ SetRunning(r) \/ LoopOn(r) \/ LoopUnlessCanceled(r) \/ GetException(r)
            \/ RunnerStops(r)
  <2>1. UNCHANGED <<token, canceled, worker>>
    BY <1>14 DEF Validate, SetRunning, LoopOn, LoopUnlessCanceled, GetException, RunnerStops
  <2>2. \/ \E at \in RunnersLines \ {"drop", "schedule"} : RunnerAt(r, at)
        \/ UNCHANGED runner /\ runner[r].at = "loop canceled"
    BY <1>14 DEF Validate, SetRunning, LoopOn, LoopUnlessCanceled, GetException, RunnerStops,
                 RunnersLines
  <2> QED BY <1>2, <1>4, <2>1, <2>2
<1> QED BY <1>7, <1>8, <1>9, <1>10, <1>11, <1>12, <1>13, <1>14 DEF RunnerStep

LEMMA WorkersStepKeepsReach ==
  ASSUME IInv, Reach, ~Race', NEW w \in Workers, WorkerStep(w)
  PROVE  Reach'
<1>1. /\ worker \in [Workers -> Lines] /\ canceled \in SUBSET Workers
      /\ UNCHANGED <<owner, runner>>
  BY DEF IInv, Chain, ChainTypes, WorkerStep, BeginRound, EndRound, ThrowFromRound, LeaveCanceled,
         LeaveToHandOver, HandOver, AnswerOfPredecessor
<1>2. \A r \in Runners : Dropping(r)' \/ Starting(r)' <=> Dropping(r) \/ Starting(r)
  BY <1>1 DEF Dropping, Starting
<1>3. CASE BeginRound(w) \/ EndRound(w) \/ LeaveToHandOver(w)
  <2>1. \A v \in Workers : GoingOn(v)' => GoingOn(v)
    BY <1>1, <1>3 DEF BeginRound, EndRound, LeaveToHandOver, WorkerAt, GoingOn
  <2> QED BY <1>1, <1>2, <1>3, <2>1, ReachStays
          DEF BeginRound, EndRound, LeaveToHandOver, TokenLive
<1>4. CASE ThrowFromRound(w) \/ LeaveCanceled(w) \/ AnswerOfPredecessor(w)
  <2>1. /\ WorkerAt(w, "done") /\ UNCHANGED token
        /\ canceled' = Held(canceled, token, worker')
    BY <1>4 DEF ThrowFromRound, LeaveCanceled, CanceledAnswer, AnswerOfPredecessor, Answer
  <2>2. /\ canceled' \in SUBSET canceled
        /\ token \in canceled => token \in canceled'
        /\ \A v \in canceled : worker'[v] # "done" => v \in canceled'
    BY <1>1, <2>1, HeldTokens
  <2>3. \A v \in Workers : GoingOn(v)' => GoingOn(v)
    BY <1>1, <2>1, <2>2 DEF WorkerAt, GoingOn
  <2> QED BY <1>1, <1>2, <2>1, <2>2, <2>3, ReachStays DEF TokenLive
<1>5. CASE HandOver(w)
  <2>1. PICK line \in {"answer", "done"} :
          ScheduleNextExecution([worker EXCEPT ![w] = line]) /\ worker[w] = "hand over"
    BY <1>5 DEF HandOver
  <2>2. w \notin canceled
    BY <2>1 DEF Reach, Race
  <2>3. GoingOn(w) /\ TokenLive /\ token = w
    BY <2>1, <2>2, NoneIsNoWorker DEF GoingOn, Reach, TokenLive
  <2>4. DEFINE workers == [worker EXCEPT ![w] = line]
  <2>5. /\ workers \in [Workers -> Lines]
        /\ \A v \in Workers : ~(workers[v] \in {"loop", "round", "hand over"} /\ v \notin canceled)
    BY <1>1, <2>1, <2>3 DEF GoingOn, Reach, Lines
  <2>6. ScheduleNextExecution(workers)
    BY <2>1
  <2>7. /\ owner' \notin {"pause drop", "exit drop"}
        /\ \A r \in Runners : ~(Dropping(r)' \/ Starting(r)')
    BY <1>1, <1>2, <2>3 DEF Reach
  <2> HIDE DEF workers
  <2> QED BY <2>5, <2>6, <2>7, ScheduleKeepsReach DEF IInv, Chain
<1> QED BY <1>3, <1>4, <1>5 DEF WorkerStep

LEMMA ReachKept == IInv /\ Next => ReachUnlessRaced'
<1> SUFFICES ASSUME IInv, Next, ~raced' PROVE Reach'
  BY DEF ReachUnlessRaced
<1>1. ~raced /\ ~Race'
  BY DEF Next
<1>2. Reach
  BY <1>1 DEF IInv, ReachUnlessRaced
<1> QED BY <1>1, <1>2, OwnersStepKeepsReach, CallKeepsReach, RunnersStepKeepsReach,
           WorkersStepKeepsReach DEF Next

-----------------------------------------------------------------------------
(* Theorems.                                                               *)

LEMMA InitHolds == Init => IInv
<1> SUFFICES ASSUME Init PROVE IInv
  OBVIOUS
<1>1. Chain
  BY DEF Init, Chain, ChainTypes, Answers, Lines, ReplacedBeforeAnswer, AnswerFollowsHandOver
<1>2. Runs
  <2>1. calls \in 0..MaxCalls
    BY ExecutionAssumption DEF Init
  <2> QED BY <2>1, IdleIsAState DEF Init, Runs, RunTypes, HostStates, OwnersLines, RunningMeansRunning
<1>3. BeforeInitialize
  BY DEF Init, BeforeInitialize
<1>4. ReachUnlessRaced
  BY DEF Init, ReachUnlessRaced, Reach, Race, GoingOn, Dropping, Starting, IdleRunner
<1> QED BY <1>1, <1>2, <1>3, <1>4 DEF IInv

LEMMA NextKeeps == IInv /\ [Next]_vars => IInv'
<1>1. IInv /\ Next => IInv'
  BY ChainKept, RunsKept, BeforeInitializeKept, ReachKept DEF IInv
<1>2. IInv /\ UNCHANGED vars => IInv'
  <2> SUFFICES ASSUME IInv, UNCHANGED vars PROVE IInv'
    OBVIOUS
  <2>1. Chain'
    BY ChainAlone DEF vars, codeVars, chain, IInv
  <2>2. Runs' /\ BeforeInitialize'
    BY DEF vars, codeVars, IInv, Runs, RunTypes, RunningMeansRunning, BeforeInitialize, Untouched
  <2>3. ReachUnlessRaced'
    BY DEF vars, codeVars, IInv, ReachUnlessRaced, Reach, Race, GoingOn, TokenLive, Dropping, Starting
  <2> QED BY <2>1, <2>2, <2>3 DEF IInv
<1> QED BY <1>1, <1>2

\* Between any two steps the tokens, the futures and the workers belong
\* together, and the runs agree with the state of the host.
THEOREM Invariance == Spec => []IInv
BY InitHolds, NextKeeps, PTL DEF Spec

\* Every variable stays in its domain (TypeOK), whoever runs, pauses and ends
\* the host.
THEOREM TypesAreCorrect == Spec => []TypeOK
<1>1. IInv => TypeOK
  BY TypesInParts DEF IInv, Chain, Runs
<1> QED BY <1>1, Invariance, PTL

\* A runner never finds, in the place of the future it has used, the same
\* future again: the worker has put its successor's there before it answers,
\* which are two steps that everything else may come between.
THEOREM SuccessorsComeFirst == Spec => []AnswerFollowsHandOver
<1>1. IInv => AnswerFollowsHandOver
  BY DEF IInv, Chain
<1> QED BY <1>1, Invariance, PTL

\* A worker that goes on has the token that is set, and StopExecution reaches
\* it, with any number of overlapping runs, pauses and exits, as long as none
\* of the three races of Race has happened.
THEOREM StopsReachWhoeverGoesOn == Spec => []StopReachesWhoeverGoesOn
<1>1. IInv => StopReachesWhoeverGoesOn
  BY DEF IInv, ReachUnlessRaced, Reach, GoingOn, StopReachesWhoeverGoesOn
<1> QED BY <1>1, Invariance, PTL

\* A host that says it is running has a thread in a run.
THEOREM RunningHostsRun == Spec => []RunningMeansRunning
<1>1. IInv => RunningMeansRunning
  BY DEF IInv, Runs
<1> QED BY <1>1, Invariance, PTL
=============================================================================
