----------------------------- MODULE Hypervisor -----------------------------
(***************************************************************************)
(* Several hosts under a HostHypervisor (src/src/HostHypervisorImpl.cpp,   *)
(* .h), and the event listeners that hear of their states                  *)
(* (src/src/HostImpl.cpp).  A call for all hosts starts one task per host  *)
(* and waits for them; a run has a thread of its own.  Each thread carries *)
(* out the operations of Host::Impl one access at a time: a check, an      *)
(* exchange of m_state, the call of one listener.                          *)
(*                                                                         *)
(* What an execution does is in HostExecution; here it ends, or throws, at *)
(* any time, whether it has been stopped or not.  The client adds and      *)
(* removes hosts and listeners while no other thread walks over them: the  *)
(* code has no lock for any of this.                                       *)
(***************************************************************************)
EXTENDS Integers, FiniteSets, Sequences, FiniteSetsExt

CONSTANTS
    MaxHosts,   \* bound: hosts added to the hypervisor
    MaxRuns,    \* bound: run threads of one host that have not ended
    MaxCalls,   \* bound: calls of a method of a host or of all hosts
    Listeners,  \* the ids of the listeners a host may have
    HostCalls   \* bound: the methods that the client calls on single hosts

ASSUME HypervisorAssumption ==
    /\ MaxHosts \in Nat \ {0} /\ MaxRuns \in Nat \ {0} /\ MaxCalls \in Nat
    /\ Listeners \subseteq Nat
    /\ HostCalls \subseteq {"Setup", "Pause", "Run", "Exit"}

Hosts == 0 .. (MaxHosts - 1)

States == {"NeedsSetup", "SettingUp", "ReadyToRun", "Running", "Paused", "Exiting",
           "Finished", "Corrupted"}

\* The client that calls the hypervisor; a second one, which gives its thread
\* to runs; the task of each host; the threads that Run detaches.
Thread(kind, h, i) == [kind |-> kind, host |-> h, number |-> i]
Client == Thread("client", 0, 0)
Main == Thread("main", 0, 0)
Task(h) == Thread("task", h, 0)
Runs(h) == {Thread("run", h, i) : i \in 1 .. MaxRuns}
Threads == {Client, Main} \cup {Task(h) : h \in Hosts} \cup UNION {Runs(h) : h \in Hosts}

VARIABLES
    hosts,       \* the hosts in m_hosts
    nextHostId,  \* m_nextHostId
    state,       \* m_state of each host
    registered,  \* m_listeners of each host
    todo,        \* the accesses each thread has still to make
    telling,     \* what each thread tells, of which host, and which listeners next
    call,        \* the call for all hosts: its method, the hosts it asks, and
                 \* those whose task it has still to wait for
    calls,       \* the calls made
    results,     \* the results of the tasks of that call
    terminated,  \* the program has ended: an exception has left a detached
                 \* thread, or an erased listener has been used
    heard,       \* history: how many times a listener has heard that a host came
                 \* into a state, less the times it has heard that it left it
    spoiled,     \* history: the hosts that have been corrupted, or have lost a
                 \* listener to a walk
    seen         \* history: the states of a host during a call that reads them

hostVars == <<hosts, nextHostId>>
callVars == <<call, calls, results>>
history == <<heard, spoiled, seen>>
vars == <<hostVars, state, registered, todo, telling, callVars, terminated, history>>

-----------------------------------------------------------------------------
(* The operations of Host::Impl, as the accesses they consist of.           *)

Accesses == [do : {"need", "either", "set", "configure", "detach", "execute", "read"},
             host : Hosts, states : SUBSET States]

Access(do, h, states) == [do |-> do, host |-> h, states |-> states]
Needs(h, states) == Access("need", h, states)
Sets(h, new) == Access("set", h, {new})

Setup(h) ==
    <<Needs(h, {"NeedsSetup"}), Sets(h, "SettingUp"), Access("configure", h, {}),
      Sets(h, "ReadyToRun")>>

Pause(h) == <<Needs(h, {"Running"}), Sets(h, "Paused")>>

Exit(h) == <<Sets(h, "Exiting"), Sets(h, "Finished")>>

\* ValidateHostCanRun loads the state up to three times; the last load is for
\* a host that the one before has not found ready.
CanRun(h) ==
    <<Needs(h, States \ {"Running"}), Access("either", h, {"ReadyToRun"}), Needs(h, {"Paused"})>>

Run(h) == CanRun(h) \o <<Access("detach", h, {})>>

RunInTurn(order) ==
    [i \in 1 .. 4 * Len(order) |-> Run(order[(i + 3) \div 4])[1 + ((i + 3) % 4)]]

\* RunOnCurrentThread, and Iterate
RunOnCurrentThread(h) ==
    CanRun(h) \o <<Sets(h, "Running"), Access("execute", h, {}), Sets(h, "Paused")>>

GetState(h) == <<Access("read", h, {})>>

Operation(method, h) ==
    CASE method = "Setup" -> Setup(h)
      [] method = "Pause" -> Pause(h)
      [] method = "Exit" -> Exit(h)
      [] method = "Run" -> Run(h)
      [] method = "GetState" -> GetState(h)

\* SetupHosts, PauseHosts, RunHosts and GetHostStates
MethodsOfAll == {"Setup", "Pause", "Run", "GetState"}

-----------------------------------------------------------------------------

Nobody == [host |-> 0, left |-> "", entered |-> "", to |-> {}]

Idle(t) == todo[t] = <<>> /\ telling[t] = Nobody

\* The access that thread t is about to make, with nobody left to be told.
At(t, do) ==
    ~terminated /\ telling[t] = Nobody /\ todo[t] # <<>> /\ Head(todo[t]).do = do
Here(t) == Head(todo[t]).host
Proceed(t) == todo' = [todo EXCEPT ![t] = Tail(@)]

\* A run thread is left for one more run of h (bound).
ARunIsLeft(h) ==
    LET running == {t \in Runs(h) : ~Idle(t)}
        ordered == {t \in Threads \ Runs(h) : \E i \in 1 .. Len(todo[t]) :
                       todo[t][i] = Access("detach", h, {})}
    IN  Cardinality(running \cup ordered) < MaxRuns

\* The account of a listener that has heard nothing.
Nothing == [l \in Listeners |-> [s \in States |-> 0]]

NobodyTells(h) == \A t \in Threads : telling[t] = Nobody \/ telling[t].host # h

Init ==
    /\ hosts = {}
    /\ nextHostId = 0
    /\ state = [h \in Hosts |-> "NeedsSetup"]
    /\ registered = [h \in Hosts |-> {}]
    /\ todo = [t \in Threads |-> <<>>]
    /\ telling = [t \in Threads |-> Nobody]
    /\ call = [method |-> "Setup", asked |-> {}, waiting |-> {}]
    /\ calls = 0
    /\ results = {}
    /\ terminated = FALSE
    /\ heard = [h \in Hosts |-> Nothing]
    /\ spoiled = {}
    /\ seen = [h \in Hosts |-> {}]

-----------------------------------------------------------------------------
(* The threads.                                                             *)

\* The state of h is now new; a call that reads the states may see it.
Enter(h, new) ==
    /\ state' = [state EXCEPT ![h] = new]
    /\ seen' = IF call.waiting # {} /\ call.method = "GetState"
               THEN [seen EXCEPT ![h] = @ \cup {new}] ELSE seen

\* The walk over the listeners of h begins.
Announce(t, h, left, entered) ==
    telling' = [telling EXCEPT ![t] =
        IF registered[h] = {} THEN Nobody
        ELSE [host |-> h, left |-> left, entered |-> entered, to |-> registered[h]]]

\* Mutant of SetState: the old state is read when the new one is there.
SetStateReadsLate(t) ==
    /\ At(t, "set")
    /\ \E new \in Head(todo[t]).states :
           /\ Enter(Here(t), new)
           /\ IF state[Here(t)] = new THEN UNCHANGED telling
              ELSE Announce(t, Here(t), new, new)
    /\ Proceed(t)
    /\ UNCHANGED <<hostVars, registered, callVars, terminated, heard, spoiled>>

\* SetState: exchange, and if the state has changed the listeners are called.
SetState(t) ==
    /\ At(t, "set")
    /\ \E new \in Head(todo[t]).states :
           /\ Enter(Here(t), new)
           /\ IF state[Here(t)] = new THEN UNCHANGED telling
              ELSE Announce(t, Here(t), state[Here(t)], new)
    /\ Proceed(t)
    /\ UNCHANGED <<hostVars, registered, callVars, terminated, heard, spoiled>>

\* The walk w when these are the listeners that it has still to call.
Remaining(w, to) == IF to = {} THEN Nobody ELSE [w EXCEPT !.to = to]

\* Mutant of Tell: the end of the listeners is not noticed.
TellWithoutEnd(t) ==
    /\ ~terminated
    /\ telling[t] # Nobody
    /\ telling' = [telling EXCEPT ![t].to = @ \ {Min(@)}]
    /\ UNCHANGED <<hostVars, state, registered, todo, callVars, terminated, history>>

\* NotifyListenersOfStateChange and NotifyListenersOfException call one listener
\* after the other, in the order of their ids.
Tell(t) ==
    LET w == telling[t]
        l == Min(w.to)
    IN  /\ ~terminated
        /\ w # Nobody
        /\ telling' = [telling EXCEPT ![t] = Remaining(@, w.to \ {l})]
        /\ heard' = IF w.host \in spoiled THEN heard ELSE [heard EXCEPT ![w.host][l] =
               [s \in States |-> @[s] + (IF s = w.entered THEN 1 ELSE 0)
                                      - (IF s = w.left THEN 1 ELSE 0)]]
        /\ UNCHANGED <<hostVars, state, registered, todo, callVars, terminated, spoiled, seen>>

\* A listener that is gone, or throws, is erased, and the walk goes on from what
\* has been erased.  That is undefined: the program may end, or any listeners
\* may be called next, those that have heard already, too.  Another walk that
\* was to call it does not find it.
ListenerFails(t) ==
    LET w == telling[t]
        l == Min(w.to)
        others == registered[w.host] \ {l}
    IN  /\ ~terminated
        /\ w # Nobody
        /\ registered' = [registered EXCEPT ![w.host] = others]
        /\ \E next \in SUBSET others :
               telling' = [u \in Threads |->
                   IF u = t THEN Remaining(w, next)
                   ELSE IF telling[u].host = w.host
                        THEN Remaining(telling[u], telling[u].to \ {l}) ELSE telling[u]]
        /\ terminated' \in BOOLEAN
        /\ heard' = [heard EXCEPT ![w.host] = Nothing]
        /\ spoiled' = spoiled \cup {w.host}
        /\ UNCHANGED <<hostVars, state, todo, callVars, seen>>

\* Mutant of Throw: what one task throws ends the others, too.
ThrowEndsAll(t) ==
    /\ todo' = [u \in Threads |-> IF u.kind = t.kind THEN <<>> ELSE todo[u]]
    /\ terminated' = (t.kind = "run")

\* Mutant of Throw: the task is never finished.
ThrowEndsNothing(t) == UNCHANGED todo /\ terminated' = (t.kind = "run")

\* An exception ends the operation.  The future of a task keeps it, and nobody
\* asks for it: the tasks are waited for, not got.  A client sees it.  On the
\* thread of a run nobody catches it.
Throw(t) ==
    /\ todo' = [todo EXCEPT ![t] = <<>>]
    /\ terminated' = (t.kind = "run")

\* The state is read, and an exception is thrown unless it is one of those.
Check(t) ==
    /\ At(t, "need")
    /\ IF state[Here(t)] \in Head(todo[t]).states
       THEN Proceed(t) /\ UNCHANGED terminated
       ELSE Throw(t)
    /\ UNCHANGED <<hostVars, state, registered, telling, callVars, history>>

\* The state is read, and unless it is one of those the next access decides.
CheckEither(t) ==
    /\ At(t, "either")
    /\ IF state[Here(t)] \in Head(todo[t]).states
       THEN todo' = [todo EXCEPT ![t] = SubSeq(@, 3, Len(@))]
       ELSE Proceed(t)
    /\ UNCHANGED <<hostVars, state, registered, telling, callVars, terminated, history>>

\* AdditionalSetup, ComputeAccessorPriorities and Initialize: each may throw.
Configure(t) ==
    /\ At(t, "configure")
    /\ \/ Proceed(t) /\ UNCHANGED terminated
       \/ Throw(t)
    /\ UNCHANGED <<hostVars, state, registered, telling, callVars, history>>

\* Run detaches a thread that runs the host.  It tries again for as long as the
\* system has none to give, and throws when the system fails otherwise.
Detach(t) ==
    /\ At(t, "detach")
    /\ \/ /\ \E r \in Runs(Here(t)) :
                 /\ Idle(r) /\ \A x \in Runs(Here(t)) : Idle(x) => r.number <= x.number
                 /\ todo' = [todo EXCEPT ![t] = Tail(@), ![r] = RunOnCurrentThread(Here(t))]
          /\ UNCHANGED terminated
       \/ Throw(t)
    /\ UNCHANGED <<hostVars, state, registered, telling, callVars, history>>

EndExecution(t) ==
    /\ At(t, "execute")
    /\ Proceed(t)
    /\ UNCHANGED <<hostVars, state, registered, telling, callVars, terminated, history>>

\* A callback throws: Corrupted is stored, not exchanged, and the listeners
\* hear of the exception.
ExecutionThrows(t) ==
    /\ At(t, "execute")
    /\ Enter(Here(t), "Corrupted")
    /\ Announce(t, Here(t), "", "")
    /\ spoiled' = spoiled \cup {Here(t)}
    /\ heard' = [heard EXCEPT ![Here(t)] = Nothing]
    /\ Proceed(t)
    /\ UNCHANGED <<hostVars, registered, callVars, terminated>>

\* Mutant of Read: of two tasks that write at a time, one is lost.
ReadUnlocked(t) ==
    /\ At(t, "read")
    /\ results' = {<<Here(t), state[Here(t)]>>}
    /\ Proceed(t)
    /\ UNCHANGED <<hostVars, state, registered, telling, call, calls, terminated, history>>

\* GetHostState in a task; a lock guards the results.
Read(t) ==
    /\ At(t, "read")
    /\ results' = results \cup {<<Here(t), state[Here(t)]>>}
    /\ Proceed(t)
    /\ UNCHANGED <<hostVars, state, registered, telling, call, calls, terminated, history>>

Step(t) ==
    \/ Check(t) \/ CheckEither(t) \/ SetState(t) \/ Tell(t) \/ ListenerFails(t)
    \/ Configure(t) \/ Detach(t) \/ EndExecution(t) \/ ExecutionThrows(t) \/ Read(t)

-----------------------------------------------------------------------------
(* The clients.                                                             *)

ClientIsFree == ~terminated /\ call.waiting = {} /\ Idle(Client)

\* One more call is made (bound).
OneMoreCall == calls < MaxCalls /\ calls' = calls + 1

AddHost ==
    /\ ClientIsFree /\ Idle(Main)
    /\ nextHostId < MaxHosts
    /\ hosts' = hosts \cup {nextHostId}
    /\ nextHostId' = nextHostId + 1
    /\ UNCHANGED <<state, registered, todo, telling, callVars, terminated, history>>

\* RemoveHost, and RemoveAllHosts.  Only hosts in which nothing runs: ~Host does
\* not wait for a thread that is still in it.
RemoveHosts(removed) ==
    /\ ClientIsFree /\ Idle(Main)
    /\ removed # {} /\ removed \subseteq hosts
    /\ \A h \in removed, r \in Threads : r \in Runs(h) => Idle(r)
    /\ hosts' = hosts \ removed
    /\ registered' = [h \in Hosts |-> IF h \in removed THEN {} ELSE registered[h]]
    /\ heard' = [h \in Hosts |-> IF h \in removed THEN Nothing ELSE heard[h]]
    /\ UNCHANGED <<nextHostId, state, todo, telling, callVars, terminated, spoiled, seen>>

\* What a new listener knows is the state it finds.
AddEventListener(h, l) ==
    /\ ClientIsFree
    /\ h \in hosts /\ l \notin registered[h] /\ NobodyTells(h)
    /\ registered' = [registered EXCEPT ![h] = @ \cup {l}]
    /\ heard' = IF h \in spoiled THEN heard
                ELSE [heard EXCEPT ![h][l][state[h]] = 1]
    /\ UNCHANGED <<hostVars, state, todo, telling, callVars, terminated, spoiled, seen>>

RemoveEventListener(h, l) ==
    /\ ClientIsFree
    /\ h \in hosts /\ l \in registered[h] /\ NobodyTells(h)
    /\ registered' = [registered EXCEPT ![h] = @ \ {l}]
    /\ heard' = [heard EXCEPT ![h][l] = Nothing[l]]
    /\ UNCHANGED <<hostVars, state, todo, telling, callVars, terminated, spoiled, seen>>

\* SetupHost, PauseHost and RunHost; Exit is the host's own.
CallHost(method, h) ==
    /\ ClientIsFree /\ OneMoreCall
    /\ h \in hosts
    /\ method = "Run" => ARunIsLeft(h)
    /\ todo' = [todo EXCEPT ![Client] = Operation(method, h)]
    /\ UNCHANGED <<hostVars, state, registered, telling, call, results, terminated, history>>

\* RunMethodOnAllHosts and RunMethodOnAllHostsWithResult.
CallAllHosts(method) ==
    /\ ClientIsFree /\ OneMoreCall
    /\ method = "Run" => \A h \in hosts : ARunIsLeft(h)
    /\ call' = [method |-> method, asked |-> hosts, waiting |-> hosts]
    /\ results' = {}
    /\ seen' = [h \in Hosts |-> IF method = "GetState" /\ h \in hosts THEN {state[h]} ELSE {}]
    /\ todo' = [t \in Threads |-> IF t \in {Task(h) : h \in hosts}
                                  THEN Operation(method, t.host) ELSE todo[t]]
    /\ UNCHANGED <<hostVars, state, registered, telling, terminated, heard, spoiled>>

\* Mutant of Wait: only the last task is waited for.
WaitOnce ==
    /\ ~terminated
    /\ call.waiting # {}
    /\ Idle(Task(Max(call.waiting)))
    /\ call' = [call EXCEPT !.waiting = {}]
    /\ UNCHANGED <<hostVars, state, registered, todo, telling, calls, results, terminated, history>>

\* The tasks are waited for one after the other, the last one first; after the
\* first one the call returns.
Wait ==
    /\ ~terminated
    /\ call.waiting # {}
    /\ Idle(Task(Max(call.waiting)))
    /\ call' = [call EXCEPT !.waiting = @ \ {Max(@)}]
    /\ UNCHANGED <<hostVars, state, registered, todo, telling, calls, results, terminated, history>>

\* RunHostsOnCurrentThread: Run of all but the first host, then the first one
\* on the thread of the caller.  With one host that is RunOnCurrentThread, and
\* Iterate.
RunHostsOnCurrentThread ==
    /\ ClientIsFree /\ Idle(Main) /\ OneMoreCall
    /\ hosts # {}
    /\ \A h \in hosts \ {Min(hosts)} : ARunIsLeft(h)
    /\ \E order \in [1 .. Cardinality(hosts) -> hosts] :
           /\ \A i, j \in DOMAIN order : i < j => order[i] < order[j]
           /\ todo' = [todo EXCEPT ![Main] =
                  RunInTurn(Tail(order)) \o RunOnCurrentThread(order[1])]
    /\ UNCHANGED <<hostVars, state, registered, telling, call, results, terminated, history>>

Next ==
    \/ \E t \in Threads : Step(t)
    \/ AddHost
    \/ \E removed \in SUBSET hosts : RemoveHosts(removed)
    \/ \E h \in Hosts, l \in Listeners : AddEventListener(h, l) \/ RemoveEventListener(h, l)
    \/ \E h \in Hosts, method \in HostCalls : CallHost(method, h)
    \/ \E method \in MethodsOfAll : CallAllHosts(method)
    \/ RunHostsOnCurrentThread
    \/ Wait

Spec == Init /\ [][Next]_vars

\* Each task is a thread of its own, and the caller waits for it on another.
Fairness ==
    /\ \A h \in Hosts : WF_vars(Step(Task(h)))
    /\ WF_vars(Wait)

FairSpec == Spec /\ Fairness

-----------------------------------------------------------------------------
(* Properties.                                                              *)

\* The variables have their types; a listener's account of a state stays within
\* one coming and going per thread.
TypeOK ==
    /\ hosts \subseteq Hosts
    /\ nextHostId \in 0 .. MaxHosts
    /\ state \in [Hosts -> States]
    /\ registered \in [Hosts -> SUBSET Listeners]
    /\ DOMAIN todo = Threads
    /\ \A t \in Threads : todo[t] \in Seq(Accesses)
    /\ DOMAIN telling = Threads
    /\ \A t \in Threads :
           /\ telling[t].host \in Hosts
           /\ {telling[t].left, telling[t].entered} \subseteq States \cup {""}
           /\ telling[t].to \subseteq registered[telling[t].host]
           /\ telling[t] # Nobody => telling[t].to # {}
    /\ call \in [method : MethodsOfAll, asked : SUBSET Hosts, waiting : SUBSET Hosts]
    /\ calls \in 0 .. MaxCalls
    /\ results \subseteq Hosts \X States
    /\ terminated \in BOOLEAN
    /\ heard \in [Hosts -> [Listeners -> [States -> Int]]]
    /\ spoiled \subseteq Hosts
    /\ seen \in [Hosts -> SUBSET States]

\* The tasks of a call for all hosts hold references to the call's own frame
\* (the method, the results, their lock), and to the hosts: no task goes on
\* when the call has returned or its host has been removed
\* (HostHypervisorImpl.cpp:92-111, HostHypervisorImpl.h:41-67).
TasksEndBeforeTheCall ==
    \A h \in Hosts : ~Idle(Task(h)) => h \in call.waiting /\ h \in hosts

\* GetHostStates returns exactly one answer for each host it asked, and each is
\* a state that host had while the call went on (HostHypervisorImpl.h:41-67),
\* whatever the runs and the other tasks do meanwhile.
EveryHostAnswers ==
    call.method = "GetState" /\ call.waiting = {} /\ ~terminated =>
        /\ \A h \in call.asked : \E s \in seen[h] : <<h, s>> \in results
        /\ Cardinality(results) = Cardinality(call.asked)

\* When one host's Setup throws, the others are set up all the same: after
\* SetupHosts no host needs setup (HostHypervisorImpl.cpp:92-111).
OneFailureSparesTheOthers ==
    call.method = "Setup" /\ call.waiting = {} =>
        \A h \in call.asked : state[h] # "NeedsSetup"

\* Every change of a host's state is told to every listener exactly once,
\* however many threads change it at a time: when nobody is being told, what a
\* listener has heard adds up to the host's state (HostImpl.cpp:212-219,
\* 407-430).  It may hear the changes out of their order.  Two kinds of hosts
\* are excepted: one that has been corrupted, because that change is not told
\* (HostImpl.cpp:78, 132); and one that has erased a listener which was gone or
\* threw while others were being told, because the walk goes on from the erased
\* listener, and the others may miss the change or hear it again
\* (HostImpl.cpp:394-402, 419-427).
ListenersHearEachChangeOnce ==
    \A h \in Hosts \ spoiled : NobodyTells(h) =>
        \A l \in registered[h], s \in States : heard[h][l][s] = (IF s = state[h] THEN 1 ELSE 0)

\* A call for all hosts returns, unless an uncaught exception ends the program:
\* no task waits for a run, for another task or for the call.
CallsReturn == call.waiting # {} ~> call.waiting = {} \/ terminated
=============================================================================
