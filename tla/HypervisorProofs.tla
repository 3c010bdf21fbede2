-------------------------- MODULE HypervisorProofs --------------------------
(***************************************************************************)
(* The safety properties of Hypervisor for every number of hosts, runs,    *)
(* calls and listeners.  That the calls return is left to TLC.             *)
(***************************************************************************)
EXTENDS Hypervisor, FiniteSetTheorems, SequenceTheorems, TLAPS

-----------------------------------------------------------------------------
(* The inductive invariant.                                                 *)

\* What a thread may have to do.  Nobody takes a host back to NeedsSetup, the
\* thread of a task or of a run keeps to its host, and only the tasks of
\* GetHostStates read.
Allowed(t) ==
  {a \in Accesses :
     /\ a.do = "set" => "NeedsSetup" \notin a.states
     /\ t.kind \in {"task", "run"} => a.host = t.host
     /\ a.do = "read" => t.kind = "task" /\ call.method = "GetState"}

ThreadsObey ==
  \A t \in Threads :
    /\ todo[t] \in Seq(Allowed(t))
    /\ t.kind \in {"task", "run"} => telling[t] = Nobody \/ telling[t].host = t.host

WaitsForTheAsked == call.waiting \subseteq call.asked

\* A host that SetupHosts asks is not set up, or its task has still to set its
\* state.
SetupIsComing ==
  call.method = "Setup" =>
    \A h \in call.asked : \/ state[h] # "NeedsSetup"
                          \/ todo[Task(h)] \in {Setup(h), Tail(Setup(h))}

\* A host that GetHostStates asks has answered, or its task has still to read.
AnswersAreComing ==
  call.method = "GetState" =>
    \A h \in call.asked :
      /\ call.waiting # {} => state[h] \in seen[h]
      /\ \/ todo[Task(h)] = GetState(h)
         \/ todo[Task(h)] = <<>> /\ \E s \in seen[h] : <<h, s>> \in results

\* No host has answered twice.
ResultsAreAnswers ==
  \A r \in results :
    /\ call.method = "GetState" /\ r[1] \in call.asked /\ todo[Task(r[1])] = <<>>
    /\ \A x \in results : x[1] = r[1] => x = r

Calls ==
  /\ TasksEndBeforeTheCall
  /\ WaitsForTheAsked
  /\ SetupIsComing
  /\ AnswersAreComing
  /\ ResultsAreAnswers

IInv == TypeOK /\ ThreadsObey /\ Calls

-----------------------------------------------------------------------------
(* Threads and accesses.                                                    *)

LEMMA ThreadKinds ==
  /\ Client \in Threads /\ Client.kind = "client"
  /\ Main \in Threads /\ Main.kind = "main"
  /\ \A h \in Hosts : Task(h) \in Threads /\ Task(h).kind = "task" /\ Task(h).host = h
  /\ \A h \in Hosts : \A r \in Runs(h) : r \in Threads /\ r.kind = "run" /\ r.host = h
  /\ \A t \in Threads : t.kind \in {"client", "main", "task", "run"}
  /\ \A t \in Threads : t.kind = "task" => t.host \in Hosts /\ t = Task(t.host)
  /\ \A t \in Threads : t.kind = "run" => t.host \in Hosts /\ t \in Runs(t.host)
<1>1. /\ Client \in Threads /\ Client.kind = "client"
      /\ Main \in Threads /\ Main.kind = "main"
  BY DEF Threads, Client, Main, Thread
<1>2. \A h \in Hosts : Task(h) \in Threads /\ Task(h).kind = "task" /\ Task(h).host = h
  BY DEF Threads, Task, Thread
<1>3. \A h \in Hosts : \A r \in Runs(h) : r \in Threads /\ r.kind = "run" /\ r.host = h
  BY DEF Threads, Runs, Thread
<1>4. ASSUME NEW t \in Threads
      PROVE  /\ t.kind \in {"client", "main", "task", "run"}
             /\ t.kind = "task" => t.host \in Hosts /\ t = Task(t.host)
             /\ t.kind = "run" => t.host \in Hosts /\ t \in Runs(t.host)
  <2>1. CASE t \in {Client, Main}
    BY <2>1 DEF Client, Main, Thread
  <2>2. CASE t \in {Task(h) : h \in Hosts}
    BY <2>2 DEF Task, Thread
  <2>3. CASE t \in UNION {Runs(h) : h \in Hosts}
    BY <1>3, <2>3 DEF Runs, Thread
  <2> QED BY <2>1, <2>2, <2>3 DEF Threads
<1> QED BY <1>1, <1>2, <1>3, <1>4

LEMMA HostZero == 0 \in Hosts
BY HypervisorAssumption DEF Hosts

LEMMA HostsAreFinite == IsFiniteSet(Hosts)
BY HypervisorAssumption, FS_Interval DEF Hosts

\* The operations keep to their host, set no host back and do not read, GetState
\* aside.
LEMMA OperationsAreAccesses ==
  ASSUME NEW h \in Hosts, NEW method \in {"Setup", "Pause", "Exit", "Run", "GetState"}
  PROVE  /\ Operation(method, h) \in
              Seq({a \in Accesses : /\ a.do = "set" => "NeedsSetup" \notin a.states
                                    /\ a.host = h
                                    /\ a.do = "read" => method = "GetState"})
         /\ method = "Setup" => Operation(method, h) = Setup(h)
         /\ method = "GetState" => Operation(method, h) = GetState(h)
<1> DEFINE A == {a \in Accesses : /\ a.do = "set" => "NeedsSetup" \notin a.states
                                  /\ a.host = h
                                  /\ a.do = "read" => method = "GetState"}
<1>1. /\ Needs(h, {"NeedsSetup"}) \in A /\ Needs(h, {"Running"}) \in A
      /\ Needs(h, States \ {"Running"}) \in A /\ Access("either", h, {"ReadyToRun"}) \in A
      /\ Needs(h, {"Paused"}) \in A
      /\ \A new \in States \ {"NeedsSetup"} : Sets(h, new) \in A
      /\ \A do \in {"configure", "detach", "execute"} : Access(do, h, {}) \in A
      /\ method = "GetState" => Access("read", h, {}) \in A
  BY DEF Accesses, Access, Needs, Sets, States
<1>2. /\ Setup(h) \in Seq(A) /\ Pause(h) \in Seq(A) /\ Exit(h) \in Seq(A) /\ Run(h) \in Seq(A)
      /\ method = "GetState" => GetState(h) \in Seq(A)
  <2> HIDE DEF A
  <2>1. /\ Sets(h, "SettingUp") \in A /\ Sets(h, "ReadyToRun") \in A /\ Sets(h, "Paused") \in A
        /\ Sets(h, "Exiting") \in A /\ Sets(h, "Finished") \in A
    BY <1>1 DEF States
  <2> QED BY <1>1, <2>1 DEF Setup, Pause, Exit, Run, CanRun, GetState
<1> QED BY <1>2 DEF Operation

LEMMA RunIsAllowed ==
  ASSUME NEW h \in Hosts
  PROVE  RunOnCurrentThread(h) \in
           Seq({a \in Accesses : /\ a.do = "set" => "NeedsSetup" \notin a.states
                                 /\ a.host = h
                                 /\ a.do # "read"})
<1> DEFINE A == {a \in Accesses : /\ a.do = "set" => "NeedsSetup" \notin a.states
                                  /\ a.host = h
                                  /\ a.do # "read"}
<1>1. /\ Needs(h, States \ {"Running"}) \in A /\ Access("either", h, {"ReadyToRun"}) \in A
      /\ Needs(h, {"Paused"}) \in A
      /\ Sets(h, "Running") \in A /\ Access("execute", h, {}) \in A /\ Sets(h, "Paused") \in A
  BY DEF Accesses, Access, Needs, Sets, States
<1>2. RunOnCurrentThread(h) \in Seq(A)
  <2> HIDE DEF A
  <2> QED BY <1>1 DEF RunOnCurrentThread, CanRun
<1> QED BY <1>2

LEMMA ThreeAndOne ==
  ASSUME NEW A, NEW c \in Seq(A), NEW d \in Seq(A), Len(c) = 3, Len(d) = 1, NEW i \in 1 .. 4
  PROVE  (c \o d)[i] \in A
<1>1. c \o d \in Seq(A) /\ Len(c \o d) = Len(c) + Len(d)
  BY ConcatProperties, Zenon
<1>2. i \in DOMAIN (c \o d)
  <2>1. \A s \in Seq(A) : DOMAIN s = 1 .. Len(s)
    OBVIOUS
  <2>2. DOMAIN (c \o d) = 1 .. Len(c \o d)
    BY <1>1, <2>1, Zenon
  <2>3. Len(c \o d) = 4
    BY <1>1
  <2> QED BY <2>2, <2>3, Zenon
<1>3. \A s \in Seq(A) : \A j \in DOMAIN s : s[j] \in A
  OBVIOUS
<1> QED BY <1>2, <1>1, <1>3, Zenon

LEMMA RunInTurnIsAllowed ==
  ASSUME NEW order \in Seq(Hosts)
  PROVE  RunInTurn(order) \in
           Seq({a \in Accesses : a.do = "set" => "NeedsSetup" \notin a.states} \cap
               {a \in Accesses : a.do # "read"})
<1> DEFINE A == {a \in Accesses : a.do = "set" => "NeedsSetup" \notin a.states} \cap
               {a \in Accesses : a.do # "read"}
<1>1. ASSUME NEW h \in Hosts, NEW i \in 1 .. 4
      PROVE  Run(h)[i] \in A
  <2>1. /\ Needs(h, States \ {"Running"}) \in A /\ Access("either", h, {"ReadyToRun"}) \in A
        /\ Needs(h, {"Paused"}) \in A /\ Access("detach", h, {}) \in A
    BY DEF Accesses, Access, Needs, States
  <2> HIDE DEF A
  <2>2. CanRun(h) \in Seq(A) /\ Len(CanRun(h)) = 3
    BY <2>1 DEF CanRun
  <2>3. <<Access("detach", h, {})>> \in Seq(A) /\ Len(<<Access("detach", h, {})>>) = 1
    BY <2>1
  <2> QED BY <2>2, <2>3, ThreeAndOne DEF Run
<1>2. Len(order) \in Nat
  OBVIOUS
<1>3. ASSUME NEW i \in 1 .. 4 * Len(order)
      PROVE  Run(order[(i + 3) \div 4])[1 + ((i + 3) % 4)] \in A
  <2>1. (i + 3) \div 4 \in 1 .. Len(order)
    BY <1>2
  <2>2. 1 + ((i + 3) % 4) \in 1 .. 4
    BY <1>2
  <2>3. order[(i + 3) \div 4] \in Hosts
    BY <2>1
  <2> HIDE DEF A
  <2> QED BY <1>1, <2>2, <2>3
<1> HIDE DEF A
<1>4. RunInTurn(order) \in Seq(A)
  BY <1>2, <1>3 DEF RunInTurn
<1> QED BY <1>4 DEF A

LEMMA ChangeCounts ==
  ASSUME NEW f \in [States -> Int], NEW a, NEW b
  PROVE  [s \in States |-> f[s] + (IF s = a THEN 1 ELSE 0) - (IF s = b THEN 1 ELSE 0)]
           \in [States -> Int]
<1> SUFFICES ASSUME NEW s \in States
             PROVE  f[s] + (IF s = a THEN 1 ELSE 0) - (IF s = b THEN 1 ELSE 0) \in Int
  OBVIOUS
<1>1. PICK n \in Int : n = f[s]
  OBVIOUS
<1> QED BY <1>1

LEMMA OneIsACount ==
  ASSUME NEW S, NEW f \in [S -> Int], NEW x
  PROVE  [f EXCEPT ![x] = 1] \in [S -> Int]
<1>1. CASE x \in S
  BY <1>1
<1>2. CASE x \notin S
  <2>1. [f EXCEPT ![x] = 1] = f
    BY <1>2
  <2> QED BY <2>1
<1> QED BY <1>1, <1>2

LEMMA Bounds == MaxHosts \in Nat /\ MaxCalls \in Nat
BY HypervisorAssumption

LEMMA NobodyIsTold == Nobody.to = {}
BY DEF Nobody

LEMMA CallsAreCounted ==
  ASSUME IInv, OneMoreCall
  PROVE  calls' \in 0 .. MaxCalls
<1>1. calls \in 0 .. MaxCalls
  BY DEF IInv, TypeOK
<1> QED BY <1>1, Bounds DEF OneMoreCall

LEMMA SeqIsMonotone ==
  ASSUME NEW S, NEW T, S \subseteq T, NEW s \in Seq(S)
  PROVE  s \in Seq(T)
OBVIOUS

\* What is left of a sequence without its first two elements.
LEMMA PartOfASeq ==
  ASSUME NEW S, NEW s \in Seq(S)
  PROVE  SubSeq(s, 3, Len(s)) \in Seq(S)
<1>1. Len(s) \in Nat /\ DOMAIN s = 1 .. Len(s)
  OBVIOUS
<1>2. \A i \in 3 .. Len(s) : s[i] \in S
  BY <1>1
<1> QED BY <1>1, <1>2

\* What a thread has to do, and what is left of it after one access.
LEMMA NextAccess ==
  ASSUME IInv, NEW t \in Threads, todo[t] # <<>>
  PROVE  /\ Head(todo[t]) \in Allowed(t) /\ Head(todo[t]) \in Accesses
         /\ Tail(todo[t]) \in Seq(Allowed(t))
<1>1. todo[t] \in Seq(Allowed(t))
  BY DEF IInv, ThreadsObey
<1>2. Head(todo[t]) \in Allowed(t) /\ Tail(todo[t]) \in Seq(Allowed(t))
  BY <1>1
<1> QED BY <1>2 DEF Allowed

LEMMA AllowedAreAccesses ==
  ASSUME NEW t, NEW s \in Seq(Allowed(t))
  PROVE  s \in Seq(Accesses)
<1>1. Allowed(t) \subseteq Accesses
  BY DEF Allowed
<1> QED BY <1>1

LEMMA RestIsAllowed ==
  ASSUME IInv, NEW t \in Threads, todo[t] # <<>>,
         \/ todo' = [todo EXCEPT ![t] = Tail(@)]
         \/ todo' = [todo EXCEPT ![t] = <<>>]
         \/ todo' = [todo EXCEPT ![t] = SubSeq(@, 3, Len(@))],
         call' = call
  PROVE  /\ DOMAIN todo' = Threads
         /\ \A u \in Threads : todo'[u] \in Seq(Accesses) /\ todo'[u] \in Seq(Allowed(u)')
         /\ \A u \in Threads \ {t} : todo'[u] = todo[u]
<1>1. DOMAIN todo = Threads
  BY DEF IInv, TypeOK
<1>2. /\ DOMAIN todo' = Threads
      /\ todo'[t] \in {Tail(todo[t]), <<>>, SubSeq(todo[t], 3, Len(todo[t]))}
      /\ \A u \in Threads \ {t} : todo'[u] = todo[u]
  BY <1>1
<1>3. \A u \in Threads : Allowed(u)' = Allowed(u)
  BY DEF Allowed
<1>4. ASSUME NEW u \in Threads PROVE todo'[u] \in Seq(Allowed(u))
  <2>1. Tail(todo[t]) \in Seq(Allowed(t)) /\ <<>> \in Seq(Allowed(t))
    BY NextAccess
  <2>2. SubSeq(todo[t], 3, Len(todo[t])) \in Seq(Allowed(t))
    <3>1. todo[t] \in Seq(Allowed(t))
      BY DEF IInv, ThreadsObey
    <3> QED BY <3>1, PartOfASeq
  <2> QED BY <1>2, <2>1, <2>2 DEF IInv, ThreadsObey
<1> QED BY <1>2, <1>3, <1>4, AllowedAreAccesses

\* A task of GetHostStates reads, and does nothing else.
LEMMA TasksOfGetState ==
  ASSUME IInv, call.method = "GetState", NEW h \in Hosts, todo[Task(h)] # <<>>
  PROVE  h \in call.asked /\ h \in call.waiting /\ todo[Task(h)] = GetState(h)
         /\ Head(todo[Task(h)]).do = "read" /\ Tail(todo[Task(h)]) = <<>>
<1>1. h \in call.waiting
  BY DEF IInv, Calls, TasksEndBeforeTheCall, Idle
<1>2. h \in call.asked
  BY <1>1 DEF IInv, Calls, WaitsForTheAsked
<1>3. todo[Task(h)] = GetState(h)
  BY <1>2 DEF IInv, Calls, AnswersAreComing
<1> QED BY <1>1, <1>2, <1>3 DEF GetState, Access

\* What any access but a read means for the call for all hosts.
LEMMA AccessKeepsCalls ==
  ASSUME IInv, NEW t \in Threads, todo[t] # <<>>, Head(todo[t]).do # "read",
         UNCHANGED <<hosts, call, results>>,
         \A h \in Hosts : Task(h) # t => /\ todo'[Task(h)] = todo[Task(h)]
                                         /\ telling'[Task(h)] = telling[Task(h)],
         \A h \in Hosts : /\ state'[h] = state[h] \/ state'[h] # "NeedsSetup"
                          /\ seen[h] \subseteq seen'[h],
         call.method = "GetState" /\ call.waiting # {} =>
           \A h \in Hosts : state'[h] = state[h] \/ state'[h] \in seen'[h],
         Head(todo[t]).do = "set" => state'[Here(t)] # "NeedsSetup",
         Head(todo[t]).do = "need" /\ state[Here(t)] \in Head(todo[t]).states =>
           todo'[t] = Tail(todo[t])
  PROVE  Calls'
<1>1. call \in [method : MethodsOfAll, asked : SUBSET Hosts, waiting : SUBSET Hosts]
      /\ results \subseteq Hosts \X States
  BY DEF IInv, TypeOK
<1>2. TasksEndBeforeTheCall'
  <2> SUFFICES ASSUME NEW h \in Hosts, ~Idle(Task(h))'
               PROVE  h \in call'.waiting /\ h \in hosts'
    BY DEF TasksEndBeforeTheCall
  <2>1. ~Idle(Task(h))
    BY DEF Idle
  <2> QED BY <2>1 DEF IInv, Calls, TasksEndBeforeTheCall
<1>3. WaitsForTheAsked'
  BY DEF IInv, Calls, WaitsForTheAsked
<1>4. SetupIsComing'
  <2> SUFFICES ASSUME call.method = "Setup", NEW h \in call.asked, state'[h] = "NeedsSetup"
               PROVE  todo'[Task(h)] \in {Setup(h), Tail(Setup(h))}
    BY DEF SetupIsComing
  <2>1. h \in Hosts /\ state[h] = "NeedsSetup"
    BY <1>1
  <2>2. todo[Task(h)] \in {Setup(h), Tail(Setup(h))}
    BY <2>1 DEF IInv, Calls, SetupIsComing
  <2>3. CASE t # Task(h)
    BY <2>1, <2>2, <2>3
  <2>4. CASE t = Task(h) /\ todo[t] = Setup(h)
    <3>1. Head(todo[t]) = Needs(h, {"NeedsSetup"})
      BY <2>4 DEF Setup
    <3>2. Head(todo[t]).do = "need" /\ Here(t) = h /\ Head(todo[t]).states = {"NeedsSetup"}
      BY <3>1 DEF Needs, Access, Here
    <3> QED BY <2>1, <2>4, <3>2
  <2>5. CASE t = Task(h) /\ todo[t] = Tail(Setup(h))
    <3>1. Head(todo[t]) = Sets(h, "SettingUp")
      BY <2>5 DEF Setup
    <3>2. Head(todo[t]).do = "set" /\ Here(t) = h
      BY <3>1 DEF Sets, Access, Here
    <3> QED BY <2>1, <3>2
  <2> QED BY <2>2, <2>3, <2>4, <2>5
<1>5. call.method = "GetState" => \A h \in Hosts : todo'[Task(h)] = todo[Task(h)]
  BY TasksOfGetState
<1>6. AnswersAreComing'
  <2> SUFFICES ASSUME call.method = "GetState", NEW h \in call.asked
               PROVE  /\ call.waiting # {} => state'[h] \in seen'[h]
                      /\ \/ todo'[Task(h)] = GetState(h)
                         \/ todo'[Task(h)] = <<>> /\ \E s \in seen'[h] : <<h, s>> \in results
    BY DEF AnswersAreComing
  <2>1. h \in Hosts /\ seen[h] \subseteq seen'[h]
    BY <1>1
  <2>2. /\ call.waiting # {} => state[h] \in seen[h]
        /\ \/ todo[Task(h)] = GetState(h)
           \/ todo[Task(h)] = <<>> /\ \E s \in seen[h] : <<h, s>> \in results
    BY DEF IInv, Calls, AnswersAreComing
  <2> QED BY <1>5, <2>1, <2>2
<1>7. ResultsAreAnswers'
  BY <1>1, <1>5 DEF IInv, Calls, ResultsAreAnswers
<1> QED BY <1>2, <1>3, <1>4, <1>6, <1>7 DEF Calls

-----------------------------------------------------------------------------
(* The steps of the threads.                                                *)

LEMMA HereIsAHost ==
  ASSUME IInv, NEW t \in Threads, todo[t] # <<>>
  PROVE  Here(t) \in Hosts /\ (t.kind \in {"task", "run"} => Here(t) = t.host)
         /\ (Head(todo[t]).do = "set" => Head(todo[t]).states \subseteq States \ {"NeedsSetup"})
BY NextAccess DEF Allowed, Accesses, Here

\* Throwing or not, a check only shortens what its thread has to do.
LEMMA CheckKeeps == ASSUME IInv, NEW t \in Threads, Check(t) PROVE IInv'
<1>1. /\ todo[t] # <<>> /\ Head(todo[t]).do = "need"
      /\ UNCHANGED <<hostVars, state, registered, telling, callVars, history>>
      /\ todo' = [todo EXCEPT ![t] = Tail(@)] \/ todo' = [todo EXCEPT ![t] = <<>>]
      /\ state[Here(t)] \in Head(todo[t]).states => todo' = [todo EXCEPT ![t] = Tail(@)]
      /\ terminated' \in BOOLEAN
  BY DEF Check, At, Proceed, Throw, IInv, TypeOK
<1>2. /\ DOMAIN todo' = Threads
      /\ \A u \in Threads : todo'[u] \in Seq(Accesses) /\ todo'[u] \in Seq(Allowed(u)')
      /\ \A u \in Threads \ {t} : todo'[u] = todo[u]
  BY <1>1, RestIsAllowed DEF callVars
<1>3. TypeOK'
  BY <1>1, <1>2 DEF IInv, TypeOK, hostVars, callVars, history
<1>4. ThreadsObey'
  BY <1>1, <1>2 DEF IInv, ThreadsObey
<1>5. state[Here(t)] \in Head(todo[t]).states => todo'[t] = Tail(todo[t])
  BY <1>1 DEF IInv, TypeOK
<1>6. Calls'
  <2>1. \A k \in Hosts : Task(k) # t => /\ todo'[Task(k)] = todo[Task(k)]
                                        /\ telling'[Task(k)] = telling[Task(k)]
    BY <1>1, <1>2, ThreadKinds
  <2>2. UNCHANGED <<hosts, call, results, state, seen>>
    BY <1>1 DEF hostVars, callVars, history
  <2> QED BY <1>1, <1>5, <2>1, <2>2, AccessKeepsCalls
<1> QED BY <1>3, <1>4, <1>6 DEF IInv

\* The walk over the listeners, as it begins.
LEMMA AnnounceIsTyped ==
  ASSUME IInv, NEW t \in Threads, NEW h \in Hosts,
         NEW left \in States \cup {""}, NEW entered \in States \cup {""},
         Announce(t, h, left, entered) \/ UNCHANGED telling,
         t.kind \in {"task", "run"} => h = t.host
  PROVE  /\ DOMAIN telling' = Threads
         /\ \A u \in Threads :
              /\ telling'[u].host \in Hosts
              /\ {telling'[u].left, telling'[u].entered} \subseteq States \cup {""}
              /\ telling'[u].to \subseteq registered[telling'[u].host]
              /\ telling'[u] # Nobody => telling'[u].to # {}
              /\ u.kind \in {"task", "run"} => telling'[u] = Nobody \/ telling'[u].host = u.host
         /\ \A u \in Threads \ {t} : telling'[u] = telling[u]
<1>1. /\ DOMAIN telling = Threads
      /\ \A u \in Threads :
              /\ telling[u].host \in Hosts
              /\ {telling[u].left, telling[u].entered} \subseteq States \cup {""}
              /\ telling[u].to \subseteq registered[telling[u].host]
              /\ telling[u] # Nobody => telling[u].to # {}
              /\ u.kind \in {"task", "run"} => telling[u] = Nobody \/ telling[u].host = u.host
  BY DEF IInv, TypeOK, ThreadsObey
<1>2. CASE UNCHANGED telling
  BY <1>1, <1>2
<1>3. CASE telling' = [telling EXCEPT ![t] = Nobody]
  BY <1>1, <1>3, HostZero DEF Nobody
<1>4. CASE /\ registered[h] # {}
           /\ telling' = [telling EXCEPT ![t] =
                [host |-> h, left |-> left, entered |-> entered, to |-> registered[h]]]
  BY <1>1, <1>4
<1> QED BY <1>2, <1>3, <1>4 DEF Announce

LEMMA SetStateKeeps == ASSUME IInv, NEW t \in Threads, SetState(t) PROVE IInv'
<1>1. /\ todo[t] # <<>> /\ Head(todo[t]).do = "set"
      /\ UNCHANGED <<hostVars, registered, callVars, terminated, heard, spoiled>>
      /\ todo' = [todo EXCEPT ![t] = Tail(@)]
  BY DEF SetState, At, Proceed
<1>2. PICK new \in Head(todo[t]).states :
        /\ Enter(Here(t), new)
        /\ Announce(t, Here(t), state[Here(t)], new) \/ UNCHANGED telling
  BY DEF SetState
<1>3. PICK h \in Hosts : h = Here(t) /\ (t.kind \in {"task", "run"} => h = t.host)
  BY <1>1, HereIsAHost
<1>4. new \in States \ {"NeedsSetup"}
  BY <1>1, <1>2, HereIsAHost
<1>5. state \in [Hosts -> States] /\ seen \in [Hosts -> SUBSET States]
  BY DEF IInv, TypeOK
<1>6. /\ state' = [state EXCEPT ![h] = new]
      /\ \/ call.waiting # {} /\ call.method = "GetState" /\ seen' = [seen EXCEPT ![h] = @ \cup {new}]
         \/ ~(call.waiting # {} /\ call.method = "GetState") /\ seen' = seen
  BY <1>2, <1>3 DEF Enter
<1>7. /\ state' \in [Hosts -> States] /\ seen' \in [Hosts -> SUBSET States]
      /\ state'[h] = new /\ \A k \in Hosts \ {h} : state'[k] = state[k]
      /\ \A k \in Hosts : seen[k] \subseteq seen'[k]
      /\ call.waiting # {} /\ call.method = "GetState" => new \in seen'[h]
  BY <1>4, <1>5, <1>6
<1>8. /\ DOMAIN todo' = Threads
      /\ \A u \in Threads : todo'[u] \in Seq(Accesses) /\ todo'[u] \in Seq(Allowed(u)')
      /\ \A u \in Threads \ {t} : todo'[u] = todo[u]
  BY <1>1, RestIsAllowed DEF callVars
<1>9. /\ DOMAIN telling' = Threads
      /\ \A u \in Threads :
           /\ telling'[u].host \in Hosts
           /\ {telling'[u].left, telling'[u].entered} \subseteq States \cup {""}
           /\ telling'[u].to \subseteq registered[telling'[u].host]
           /\ telling'[u] # Nobody => telling'[u].to # {}
           /\ u.kind \in {"task", "run"} => telling'[u] = Nobody \/ telling'[u].host = u.host
      /\ \A u \in Threads \ {t} : telling'[u] = telling[u]
  BY <1>2, <1>3, <1>4, <1>5, AnnounceIsTyped
<1>10. TypeOK'
  BY <1>1, <1>7, <1>8, <1>9 DEF IInv, TypeOK, hostVars, callVars
<1>11. ThreadsObey'
  BY <1>8, <1>9 DEF ThreadsObey
<1>12. Calls'
  <2>1. /\ \A k \in Hosts : state'[k] = state[k] \/ state'[k] # "NeedsSetup"
        /\ call.method = "GetState" /\ call.waiting # {} =>
             \A k \in Hosts : state'[k] = state[k] \/ state'[k] \in seen'[k]
        /\ state'[Here(t)] # "NeedsSetup"
    BY <1>3, <1>4, <1>7
  <2>2. \A k \in Hosts : Task(k) # t => /\ todo'[Task(k)] = todo[Task(k)]
                                        /\ telling'[Task(k)] = telling[Task(k)]
    BY <1>8, <1>9, ThreadKinds
  <2> QED BY <1>1, <1>7, <2>1, <2>2, AccessKeepsCalls DEF hostVars, callVars
<1> QED BY <1>10, <1>11, <1>12 DEF IInv

\* A step that shortens what its thread has to do and changes nothing else.
LEMMA ProceedKeeps ==
  ASSUME IInv, NEW t \in Threads, todo[t] # <<>>, Head(todo[t]).do \notin {"read", "set", "need"},
         \/ todo' = [todo EXCEPT ![t] = Tail(@)]
         \/ todo' = [todo EXCEPT ![t] = <<>>]
         \/ todo' = [todo EXCEPT ![t] = SubSeq(@, 3, Len(@))],
         UNCHANGED <<hostVars, state, registered, telling, callVars, history>>,
         terminated' \in BOOLEAN
  PROVE  IInv'
<1>1. /\ DOMAIN todo' = Threads
      /\ \A u \in Threads : todo'[u] \in Seq(Accesses) /\ todo'[u] \in Seq(Allowed(u)')
      /\ \A u \in Threads \ {t} : todo'[u] = todo[u]
  BY RestIsAllowed DEF callVars
<1>2. TypeOK'
  BY <1>1 DEF IInv, TypeOK, hostVars, callVars, history
<1>3. ThreadsObey'
  BY <1>1 DEF IInv, ThreadsObey
<1>4. Calls'
  <2>1. \A k \in Hosts : Task(k) # t => /\ todo'[Task(k)] = todo[Task(k)]
                                        /\ telling'[Task(k)] = telling[Task(k)]
    BY <1>1, ThreadKinds
  <2>2. UNCHANGED <<hosts, call, results, state, seen>>
    BY DEF hostVars, callVars, history
  <2> QED BY <2>1, <2>2, AccessKeepsCalls
<1> QED BY <1>2, <1>3, <1>4 DEF IInv

LEMMA CheckEitherKeeps == ASSUME IInv, NEW t \in Threads, CheckEither(t) PROVE IInv'
<1>1. /\ todo[t] # <<>> /\ Head(todo[t]).do = "either"
      /\ \/ todo' = [todo EXCEPT ![t] = Tail(@)]
         \/ todo' = [todo EXCEPT ![t] = SubSeq(@, 3, Len(@))]
      /\ UNCHANGED <<hostVars, state, registered, telling, callVars, history>>
      /\ terminated' \in BOOLEAN
  BY DEF CheckEither, At, Proceed, IInv, TypeOK
<1> QED BY <1>1, ProceedKeeps

LEMMA ConfigureKeeps == ASSUME IInv, NEW t \in Threads, Configure(t) PROVE IInv'
<1>1. /\ todo[t] # <<>> /\ Head(todo[t]).do = "configure"
      /\ todo' = [todo EXCEPT ![t] = Tail(@)] \/ todo' = [todo EXCEPT ![t] = <<>>]
      /\ UNCHANGED <<hostVars, state, registered, telling, callVars, history>>
      /\ terminated' \in BOOLEAN
  BY DEF Configure, At, Proceed, Throw, IInv, TypeOK
<1> QED BY <1>1, ProceedKeeps

LEMMA EndExecutionKeeps == ASSUME IInv, NEW t \in Threads, EndExecution(t) PROVE IInv'
<1>1. /\ todo[t] # <<>> /\ Head(todo[t]).do = "execute"
      /\ todo' = [todo EXCEPT ![t] = Tail(@)]
      /\ UNCHANGED <<hostVars, state, registered, telling, callVars, history>>
      /\ terminated' \in BOOLEAN
  BY DEF EndExecution, At, Proceed, IInv, TypeOK
<1> QED BY <1>1, ProceedKeeps

\* What is left of a walk.
LEMMA RestOfWalk ==
  ASSUME NEW w, NEW to
  PROVE  /\ to = {} => Remaining(w, to) = Nobody
         /\ to # {} => /\ Remaining(w, to).host = w.host
                       /\ Remaining(w, to).left = w.left
                       /\ Remaining(w, to).entered = w.entered
         /\ Remaining(w, to).to = to
<1>1. to = {} => Remaining(w, to) = Nobody
  BY DEF Remaining
<1>2. to # {} => Remaining(w, to) = [w EXCEPT !.to = to]
  BY DEF Remaining
<1>3. PICK x : x = [w EXCEPT !.to = to]
  OBVIOUS
<1>4. x.host = w.host /\ x.left = w.left /\ x.entered = w.entered /\ x.to = to
  BY <1>3
<1> QED BY <1>1, <1>2, <1>3, <1>4, NobodyIsTold

\* Of a walk over registered listeners, the walk over some of them is left.
LEMMA RestIsTyped ==
  ASSUME IInv, NEW u \in Threads, telling[u] # Nobody,
         NEW w, NEW to, w = Remaining(telling[u], to),
         to \subseteq registered'[telling[u].host]
  PROVE  /\ w.host \in Hosts /\ {w.left, w.entered} \subseteq States \cup {""}
         /\ w.to \subseteq registered'[w.host]
         /\ w # Nobody => w.to # {}
         /\ u.kind \in {"task", "run"} => w = Nobody \/ w.host = u.host
<1>1. /\ telling[u].host \in Hosts
      /\ {telling[u].left, telling[u].entered} \subseteq States \cup {""}
      /\ u.kind \in {"task", "run"} => telling[u].host = u.host
  BY DEF IInv, TypeOK, ThreadsObey
<1>2. CASE to = {}
  <2>1. w = Nobody
    BY <1>2, RestOfWalk
  <2>2. Nobody.host \in Hosts /\ {Nobody.left, Nobody.entered} \subseteq States \cup {""}
    BY HostZero DEF Nobody
  <2>3. Nobody.to \subseteq registered'[Nobody.host]
    BY NobodyIsTold
  <2> QED BY <2>1, <2>2, <2>3
<1>3. CASE to # {}
  <2>1. w.host = telling[u].host /\ w.left = telling[u].left /\ w.entered = telling[u].entered
        /\ w.to = to
    BY <1>3, RestOfWalk
  <2> QED BY <1>1, <1>3, <2>1
<1> QED BY <1>2, <1>3

LEMMA TellKeeps == ASSUME IInv, NEW t \in Threads, Tell(t) PROVE IInv'
<1>1. /\ telling[t] # Nobody
      /\ UNCHANGED <<hostVars, state, registered, todo, callVars, terminated, spoiled, seen>>
  BY DEF Tell
<1>2. PICK l : /\ telling' = [telling EXCEPT ![t] = Remaining(telling[t], telling[t].to \ {l})]
               /\ heard' = IF telling[t].host \in spoiled THEN heard
                           ELSE [heard EXCEPT ![telling[t].host][l] =
                                  [s \in States |-> @[s] + (IF s = telling[t].entered THEN 1 ELSE 0)
                                                         - (IF s = telling[t].left THEN 1 ELSE 0)]]
               /\ l = Min(telling[t].to)
  BY DEF Tell
<1>3. /\ DOMAIN telling = Threads
      /\ \A u \in Threads :
           /\ telling[u].host \in Hosts
           /\ {telling[u].left, telling[u].entered} \subseteq States \cup {""}
           /\ telling[u].to \subseteq registered[telling[u].host]
           /\ telling[u] # Nobody => telling[u].to # {}
      /\ heard \in [Hosts -> [Listeners -> [States -> Int]]]
  BY DEF IInv, TypeOK
<1>4. PICK w : w = Remaining(telling[t], telling[t].to \ {l})
  OBVIOUS
<1>5. /\ w.host \in Hosts /\ {w.left, w.entered} \subseteq States \cup {""}
      /\ w.to \subseteq registered[w.host] /\ (w # Nobody => w.to # {})
      /\ t.kind \in {"task", "run"} => w = Nobody \/ w.host = t.host
  <2>1. telling[t].to \ {l} \subseteq registered'[telling[t].host] /\ registered' = registered
    BY <1>1, <1>3
  <2>2. /\ w.host \in Hosts /\ {w.left, w.entered} \subseteq States \cup {""}
        /\ w.to \subseteq registered'[w.host] /\ (w # Nobody => w.to # {})
        /\ t.kind \in {"task", "run"} => w = Nobody \/ w.host = t.host
    BY <1>1, <1>4, <2>1, RestIsTyped
  <2> QED BY <2>1, <2>2
<1>6. /\ DOMAIN telling' = Threads /\ telling'[t] = w
      /\ \A u \in Threads \ {t} : telling'[u] = telling[u]
  BY <1>2, <1>3, <1>4
<1>7. heard' \in [Hosts -> [Listeners -> [States -> Int]]]
  <2>1. CASE heard' = heard
    BY <1>3, <2>1
  <2>2. CASE heard' # heard
    <3>1. PICK h \in Hosts, entered \in States \cup {""}, left \in States \cup {""} :
            h = telling[t].host /\ entered = telling[t].entered /\ left = telling[t].left
      BY <1>3
    <3> DEFINE a == [s \in States |-> heard[h][l][s] + (IF s = entered THEN 1 ELSE 0)
                                                   - (IF s = left THEN 1 ELSE 0)]
    <3>2. heard' = [heard EXCEPT ![h] = [heard[h] EXCEPT ![l] = a]]
      BY <1>2, <2>2, <3>1
    <3>3. CASE l \in Listeners
      <4>1. a \in [States -> Int]
        <5>1. heard[h] \in [Listeners -> [States -> Int]]
          BY <1>3
        <5>2. heard[h][l] \in [States -> Int]
          BY <3>3, <5>1
        <5> QED BY <5>2, ChangeCounts
      <4> HIDE DEF a
      <4> QED BY <1>3, <3>2, <3>3, <4>1
    <3>4. CASE l \notin Listeners
      <4> HIDE DEF a
      <4>1. [heard[h] EXCEPT ![l] = a] = heard[h]
        BY <1>3, <3>4
      <4> QED BY <1>3, <3>2, <4>1
    <3> QED BY <3>3, <3>4
  <2> QED BY <2>1, <2>2
<1>8. TypeOK'
  <2>1. /\ hosts' \subseteq Hosts /\ nextHostId' \in 0 .. MaxHosts
        /\ state' \in [Hosts -> States] /\ registered' \in [Hosts -> SUBSET Listeners]
        /\ DOMAIN todo' = Threads /\ \A u \in Threads : todo'[u] \in Seq(Accesses)
        /\ call' \in [method : MethodsOfAll, asked : SUBSET Hosts, waiting : SUBSET Hosts]
        /\ calls' \in 0 .. MaxCalls /\ results' \subseteq Hosts \X States
        /\ terminated' \in BOOLEAN /\ spoiled' \subseteq Hosts /\ seen' \in [Hosts -> SUBSET States]
    BY <1>1 DEF IInv, TypeOK, hostVars, callVars
  <2>2. /\ DOMAIN telling' = Threads
        /\ \A u \in Threads :
             /\ telling'[u].host \in Hosts
             /\ {telling'[u].left, telling'[u].entered} \subseteq States \cup {""}
             /\ telling'[u].to \subseteq registered'[telling'[u].host]
             /\ telling'[u] # Nobody => telling'[u].to # {}
    BY <1>1, <1>3, <1>5, <1>6
  <2> QED BY <1>7, <2>1, <2>2 DEF TypeOK
<1>9. ThreadsObey'
  <2>1. \A u \in Threads : Allowed(u)' = Allowed(u)
    BY <1>1 DEF Allowed, callVars
  <2> QED BY <1>1, <1>5, <1>6, <2>1 DEF IInv, ThreadsObey
<1>10. Calls'
  <2>1. TasksEndBeforeTheCall'
    <3> SUFFICES ASSUME NEW h \in Hosts, ~Idle(Task(h))'
                 PROVE  h \in call'.waiting /\ h \in hosts'
      BY DEF TasksEndBeforeTheCall
    <3>1. ~Idle(Task(h))
      BY <1>1, <1>6, ThreadKinds DEF Idle
    <3> QED BY <1>1, <3>1 DEF IInv, Calls, TasksEndBeforeTheCall, hostVars, callVars
  <2> QED BY <1>1, <2>1 DEF IInv, Calls, WaitsForTheAsked, SetupIsComing, AnswersAreComing,
                            ResultsAreAnswers, hostVars, callVars
<1> QED BY <1>8, <1>9, <1>10 DEF IInv

\* A listener that fails is called by nobody any more, and those that a walk
\* calls after it are registered.
LEMMA FailureIsTyped ==
  ASSUME IInv, NEW t \in Threads, ListenerFails(t)
  PROVE  /\ registered' \in [Hosts -> SUBSET Listeners]
         /\ DOMAIN telling' = Threads
         /\ \A u \in Threads :
              /\ telling'[u].host \in Hosts
              /\ {telling'[u].left, telling'[u].entered} \subseteq States \cup {""}
              /\ telling'[u].to \subseteq registered'[telling'[u].host]
              /\ telling'[u] # Nobody => telling'[u].to # {}
              /\ u.kind \in {"task", "run"} => telling'[u] = Nobody \/ telling'[u].host = u.host
              /\ telling[u] = Nobody => telling'[u] = Nobody
<1> DEFINE h == telling[t].host
           l == Min(telling[t].to)
           others == registered[h] \ {l}
<1>1. PICK next :
        /\ next \subseteq others
        /\ h = telling[t].host /\ telling[t] # Nobody /\ others = registered[h] \ {l}
        /\ registered' = [registered EXCEPT ![h] = others]
        /\ telling' = [u \in Threads |->
              IF u = t THEN Remaining(telling[t], next)
              ELSE IF telling[u].host = h THEN Remaining(telling[u], telling[u].to \ {l})
                   ELSE telling[u]]
  BY Zenon DEF ListenerFails
<1> HIDE DEF h, l, others
<1>2. /\ registered \in [Hosts -> SUBSET Listeners]
      /\ \A u \in Threads :
           /\ telling[u].host \in Hosts
           /\ {telling[u].left, telling[u].entered} \subseteq States \cup {""}
           /\ telling[u].to \subseteq registered[telling[u].host]
           /\ telling[u] # Nobody => telling[u].to # {}
           /\ u.kind \in {"task", "run"} => telling[u] = Nobody \/ telling[u].host = u.host
  BY DEF IInv, TypeOK, ThreadsObey
<1>3. /\ registered' \in [Hosts -> SUBSET Listeners]
      /\ registered'[h] = others /\ \A k \in Hosts \ {h} : registered'[k] = registered[k]
  BY <1>1, <1>2
<1>4. ASSUME NEW u \in Threads
      PROVE  /\ telling'[u].host \in Hosts
             /\ {telling'[u].left, telling'[u].entered} \subseteq States \cup {""}
             /\ telling'[u].to \subseteq registered'[telling'[u].host]
             /\ telling'[u] # Nobody => telling'[u].to # {}
             /\ u.kind \in {"task", "run"} => telling'[u] = Nobody \/ telling'[u].host = u.host
             /\ telling[u] = Nobody => telling'[u] = Nobody
  <2>1. CASE u # t /\ telling[u].host # h
    <3>1. telling'[u] = telling[u]
      BY <1>1, <2>1
    <3>2. registered'[telling[u].host] = registered[telling[u].host]
      BY <1>2, <1>3, <2>1
    <3> QED BY <1>2, <3>1, <3>2
  <2>2. CASE u # t /\ telling[u] = Nobody /\ telling[u].host = h
    <3>1. telling[u].to \ {l} = {}
      BY <2>2, NobodyIsTold
    <3>2. telling'[u] = Remaining(telling[u], telling[u].to \ {l})
      BY <1>1, <2>2
    <3>3. telling'[u] = Nobody
      BY <3>1, <3>2, RestOfWalk
    <3>4. Nobody.host \in Hosts /\ {Nobody.left, Nobody.entered} \subseteq States \cup {""}
      BY HostZero DEF Nobody
    <3>5. Nobody.to \subseteq registered'[Nobody.host]
      BY NobodyIsTold
    <3> QED BY <3>3, <3>4, <3>5
  <2>3. CASE u = t \/ (telling[u] # Nobody /\ telling[u].host = h)
    <3>1. PICK to : to \subseteq others /\ telling'[u] = Remaining(telling[u], to)
      <4>1. CASE u = t
        BY <1>1, <4>1
      <4>2. CASE u # t /\ telling[u].host = h
        <5>1. telling'[u] = Remaining(telling[u], telling[u].to \ {l})
          BY <1>1, <4>2
        <5>2. telling[u].to \ {l} \subseteq others
          BY <1>1, <1>2, <4>2
        <5> QED BY <5>1, <5>2
      <4> QED BY <2>3, <4>1, <4>2
    <3>2. telling[u] # Nobody /\ telling[u].host = h
      BY <1>1, <2>3
    <3>3. PICK w : w = telling'[u] /\ w = Remaining(telling[u], to)
      BY <3>1
    <3>4. to \subseteq registered'[telling[u].host]
      BY <1>3, <3>1, <3>2
    <3> HIDE DEF Remaining
    <3>5. /\ w.host \in Hosts /\ {w.left, w.entered} \subseteq States \cup {""}
          /\ w.to \subseteq registered'[w.host] /\ (w # Nobody => w.to # {})
          /\ u.kind \in {"task", "run"} => w = Nobody \/ w.host = u.host
      BY <3>2, <3>3, <3>4, RestIsTyped
    <3> QED BY <3>2, <3>3, <3>5
  <2> QED BY <2>1, <2>2, <2>3
<1>5. DOMAIN telling' = Threads
  BY <1>1
<1> QED BY <1>3, <1>4, <1>5

LEMMA ListenerFailsKeeps == ASSUME IInv, NEW t \in Threads, ListenerFails(t) PROVE IInv'
<1>1. /\ UNCHANGED <<hostVars, state, todo, callVars, seen>> /\ terminated' \in BOOLEAN
      /\ spoiled' = spoiled \cup {telling[t].host}
      /\ heard' = [heard EXCEPT ![telling[t].host] = Nothing]
  BY DEF ListenerFails
<1>2. spoiled' \subseteq Hosts /\ heard' \in [Hosts -> [Listeners -> [States -> Int]]]
  <2>1. Nothing \in [Listeners -> [States -> Int]]
    BY DEF Nothing
  <2>2. /\ telling[t].host \in Hosts /\ spoiled \subseteq Hosts
        /\ heard \in [Hosts -> [Listeners -> [States -> Int]]]
    BY DEF IInv, TypeOK
  <2> QED BY <1>1, <2>1, <2>2
<1>3. TypeOK'
  <2>1. /\ hosts' \subseteq Hosts /\ nextHostId' \in 0 .. MaxHosts
        /\ state' \in [Hosts -> States]
        /\ DOMAIN todo' = Threads /\ \A u \in Threads : todo'[u] \in Seq(Accesses)
        /\ call' \in [method : MethodsOfAll, asked : SUBSET Hosts, waiting : SUBSET Hosts]
        /\ calls' \in 0 .. MaxCalls /\ results' \subseteq Hosts \X States
        /\ seen' \in [Hosts -> SUBSET States]
    BY <1>1 DEF IInv, TypeOK, hostVars, callVars
  <2> QED BY <1>1, <1>2, <2>1, FailureIsTyped DEF TypeOK
<1>4. ThreadsObey'
  <2>1. \A u \in Threads : Allowed(u)' = Allowed(u)
    BY <1>1 DEF Allowed, callVars
  <2> QED BY <1>1, <2>1, FailureIsTyped DEF IInv, ThreadsObey
<1>5. Calls'
  <2>1. TasksEndBeforeTheCall'
    <3> SUFFICES ASSUME NEW h \in Hosts, ~Idle(Task(h))'
                 PROVE  h \in call'.waiting /\ h \in hosts'
      BY DEF TasksEndBeforeTheCall
    <3>1. ~Idle(Task(h))
      BY <1>1, FailureIsTyped, ThreadKinds DEF Idle
    <3> QED BY <1>1, <3>1 DEF IInv, Calls, TasksEndBeforeTheCall, hostVars, callVars
  <2> QED BY <1>1, <2>1 DEF IInv, Calls, WaitsForTheAsked, SetupIsComing, AnswersAreComing,
                            ResultsAreAnswers, hostVars, callVars
<1> QED BY <1>3, <1>4, <1>5 DEF IInv

LEMMA DetachKeeps == ASSUME IInv, NEW t \in Threads, Detach(t) PROVE IInv'
<1> SUFFICES ASSUME ~ (todo' = [todo EXCEPT ![t] = <<>>]) PROVE IInv'
  <2>1. CASE todo' = [todo EXCEPT ![t] = <<>>]
    <3>1. /\ todo[t] # <<>> /\ Head(todo[t]).do = "detach"
          /\ UNCHANGED <<hostVars, state, registered, telling, callVars, history>>
          /\ terminated' \in BOOLEAN
      BY DEF Detach, At, Throw, IInv, TypeOK
    <3> QED BY <2>1, <3>1, ProceedKeeps
  <2> QED BY <2>1
<1>1. /\ todo[t] # <<>> /\ Head(todo[t]).do = "detach"
      /\ UNCHANGED <<hostVars, state, registered, telling, callVars, terminated, history>>
  BY DEF Detach, At, Throw
<1>2. PICK r \in Runs(Here(t)) :
        /\ Idle(r)
        /\ todo' = [todo EXCEPT ![t] = Tail(@), ![r] = RunOnCurrentThread(Here(t))]
  BY DEF Detach, Throw
<1>3. PICK h \in Hosts : h = Here(t)
  BY <1>1, HereIsAHost
<1>4. r \in Threads /\ r.kind = "run" /\ r.host = h /\ r # t
  BY <1>1, <1>2, <1>3, ThreadKinds DEF Idle
<1>5. DOMAIN todo = Threads
  BY DEF IInv, TypeOK
<1>6. /\ DOMAIN todo' = Threads
      /\ todo'[t] = Tail(todo[t]) /\ todo'[r] = RunOnCurrentThread(h)
      /\ \A u \in Threads \ {t, r} : todo'[u] = todo[u]
  BY <1>2, <1>3, <1>4, <1>5
<1>7. \A u \in Threads : Allowed(u)' = Allowed(u)
  BY <1>1 DEF Allowed, callVars
<1>8. ASSUME NEW u \in Threads PROVE todo'[u] \in Seq(Allowed(u))
  <2>1. Tail(todo[t]) \in Seq(Allowed(t))
    BY <1>1, NextAccess
  <2>2. RunOnCurrentThread(h) \in Seq(Allowed(r))
    <3>1. {a \in Accesses : /\ a.do = "set" => "NeedsSetup" \notin a.states
                            /\ a.host = h
                            /\ a.do # "read"} \subseteq Allowed(r)
      BY <1>4 DEF Allowed
    <3> QED BY <3>1, RunIsAllowed, SeqIsMonotone
  <2> QED BY <1>6, <2>1, <2>2 DEF IInv, ThreadsObey
<1>9. TypeOK'
  BY <1>1, <1>6, <1>8, AllowedAreAccesses DEF IInv, TypeOK, hostVars, callVars, history
<1>10. ThreadsObey'
  BY <1>1, <1>7, <1>8 DEF IInv, ThreadsObey
<1>11. Calls'
  <2>1. \A k \in Hosts : Task(k) # t => /\ todo'[Task(k)] = todo[Task(k)]
                                        /\ telling'[Task(k)] = telling[Task(k)]
    BY <1>1, <1>4, <1>6, ThreadKinds
  <2>2. UNCHANGED <<hosts, call, results, state, seen>>
    BY <1>1 DEF hostVars, callVars, history
  <2> QED BY <1>1, <2>1, <2>2, AccessKeepsCalls
<1> QED BY <1>9, <1>10, <1>11 DEF IInv

LEMMA ExecutionThrowsKeeps == ASSUME IInv, NEW t \in Threads, ExecutionThrows(t) PROVE IInv'
<1>1. /\ todo[t] # <<>> /\ Head(todo[t]).do = "execute"
      /\ UNCHANGED <<hostVars, registered, callVars, terminated>>
      /\ todo' = [todo EXCEPT ![t] = Tail(@)]
  BY DEF ExecutionThrows, At, Proceed
<1>2. PICK h \in Hosts : h = Here(t) /\ (t.kind \in {"task", "run"} => h = t.host)
  BY <1>1, HereIsAHost
<1>3. /\ Enter(h, "Corrupted") /\ Announce(t, h, "", "")
      /\ spoiled' = spoiled \cup {h}
      /\ heard' = [heard EXCEPT ![h] = Nothing]
  BY <1>2 DEF ExecutionThrows
<1>4. /\ state \in [Hosts -> States] /\ seen \in [Hosts -> SUBSET States]
      /\ spoiled \subseteq Hosts /\ heard \in [Hosts -> [Listeners -> [States -> Int]]]
  BY DEF IInv, TypeOK
<1>5. /\ state' = [state EXCEPT ![h] = "Corrupted"]
      /\ \/ /\ call.waiting # {} /\ call.method = "GetState"
            /\ seen' = [seen EXCEPT ![h] = @ \cup {"Corrupted"}]
         \/ ~(call.waiting # {} /\ call.method = "GetState") /\ seen' = seen
  BY <1>3 DEF Enter
<1>6. /\ state' \in [Hosts -> States] /\ seen' \in [Hosts -> SUBSET States]
      /\ state'[h] = "Corrupted" /\ \A k \in Hosts \ {h} : state'[k] = state[k]
      /\ \A k \in Hosts : seen[k] \subseteq seen'[k]
      /\ call.waiting # {} /\ call.method = "GetState" => "Corrupted" \in seen'[h]
  <2>1. "Corrupted" \in States
    BY DEF States
  <2>2. state' \in [Hosts -> States] /\ state'[h] = "Corrupted"
        /\ \A k \in Hosts \ {h} : state'[k] = state[k]
    BY <1>4, <1>5, <2>1
  <2>3. CASE seen' = [seen EXCEPT ![h] = @ \cup {"Corrupted"}]
    BY <1>4, <2>1, <2>2, <2>3
  <2>4. CASE ~(call.waiting # {} /\ call.method = "GetState") /\ seen' = seen
    BY <1>4, <2>2, <2>4
  <2> QED BY <1>5, <2>3, <2>4
<1>7. spoiled' \subseteq Hosts /\ heard' \in [Hosts -> [Listeners -> [States -> Int]]]
  <2>1. Nothing \in [Listeners -> [States -> Int]]
    BY DEF Nothing
  <2> QED BY <1>3, <1>4, <2>1
<1>8. /\ DOMAIN todo' = Threads
      /\ \A u \in Threads : todo'[u] \in Seq(Accesses) /\ todo'[u] \in Seq(Allowed(u)')
      /\ \A u \in Threads \ {t} : todo'[u] = todo[u]
  BY <1>1, RestIsAllowed DEF callVars
<1>9. /\ DOMAIN telling' = Threads
      /\ \A u \in Threads :
           /\ telling'[u].host \in Hosts
           /\ {telling'[u].left, telling'[u].entered} \subseteq States \cup {""}
           /\ telling'[u].to \subseteq registered[telling'[u].host]
           /\ telling'[u] # Nobody => telling'[u].to # {}
           /\ u.kind \in {"task", "run"} => telling'[u] = Nobody \/ telling'[u].host = u.host
      /\ \A u \in Threads \ {t} : telling'[u] = telling[u]
  BY <1>2, <1>3, AnnounceIsTyped
<1>10. TypeOK'
  BY <1>1, <1>6, <1>7, <1>8, <1>9 DEF IInv, TypeOK, hostVars, callVars
<1>11. ThreadsObey'
  BY <1>8, <1>9 DEF ThreadsObey
<1>12. Calls'
  <2>1. /\ \A k \in Hosts : state'[k] = state[k] \/ state'[k] # "NeedsSetup"
        /\ call.method = "GetState" /\ call.waiting # {} =>
             \A k \in Hosts : state'[k] = state[k] \/ state'[k] \in seen'[k]
    BY <1>6
  <2>2. \A k \in Hosts : Task(k) # t => /\ todo'[Task(k)] = todo[Task(k)]
                                        /\ telling'[Task(k)] = telling[Task(k)]
    BY <1>8, <1>9, ThreadKinds
  <2>3. UNCHANGED <<hosts, call, results>>
    BY <1>1 DEF hostVars, callVars
  <2> QED BY <1>1, <1>6, <2>1, <2>2, <2>3, AccessKeepsCalls
<1> QED BY <1>10, <1>11, <1>12 DEF IInv

\* A task writes down the state it reads, which the call sees.
LEMMA ReadKeeps == ASSUME IInv, NEW t \in Threads, Read(t) PROVE IInv'
<1>1. /\ todo[t] # <<>> /\ Head(todo[t]).do = "read"
      /\ results' = results \cup {<<Here(t), state[Here(t)]>>}
      /\ todo' = [todo EXCEPT ![t] = Tail(@)]
      /\ UNCHANGED <<hostVars, state, registered, telling, call, calls, terminated, history>>
  BY DEF Read, At, Proceed
<1>2. t.kind = "task" /\ call.method = "GetState"
  BY <1>1, NextAccess DEF Allowed
<1>3. PICK h \in Hosts : h = Here(t) /\ t = Task(h)
  BY <1>1, <1>2, HereIsAHost, ThreadKinds
<1>4. /\ h \in call.asked /\ h \in call.waiting /\ todo[t] = GetState(h)
      /\ Tail(todo[t]) = <<>> /\ todo[t] # <<>>
  BY <1>1, <1>2, <1>3, TasksOfGetState
<1>5. /\ DOMAIN todo' = Threads
      /\ \A u \in Threads : todo'[u] \in Seq(Accesses) /\ todo'[u] \in Seq(Allowed(u)')
      /\ \A u \in Threads \ {t} : todo'[u] = todo[u]
      /\ todo'[t] = <<>>
  BY <1>1, <1>4, RestIsAllowed DEF IInv, TypeOK
<1>6. results' = results \cup {<<h, state[h]>>} /\ state[h] \in States
  BY <1>1, <1>3 DEF IInv, TypeOK
<1>7. TypeOK'
  <2>1. results' \subseteq Hosts \X States
    <3>1. results \subseteq Hosts \X States
      BY DEF IInv, TypeOK
    <3>2. <<h, state[h]>> \in Hosts \X States
      BY <1>6
    <3> QED BY <1>6, <3>1, <3>2
  <2> QED BY <1>1, <1>5, <2>1 DEF IInv, TypeOK, hostVars, history
<1>8. ThreadsObey'
  BY <1>1, <1>5 DEF IInv, ThreadsObey
<1>9. \A k \in Hosts \ {h} : Task(k) # t /\ todo'[Task(k)] = todo[Task(k)]
  BY <1>3, <1>5, ThreadKinds
<1>10. TasksEndBeforeTheCall'
  <2> SUFFICES ASSUME NEW k \in Hosts, ~Idle(Task(k))'
               PROVE  k \in call'.waiting /\ k \in hosts'
    BY DEF TasksEndBeforeTheCall
  <2>1. ~Idle(Task(k))
    BY <1>1, <1>3, <1>4, <1>9 DEF Idle
  <2> QED BY <1>1, <2>1 DEF IInv, Calls, TasksEndBeforeTheCall, hostVars
<1>11. WaitsForTheAsked' /\ SetupIsComing'
  BY <1>1, <1>2 DEF IInv, Calls, WaitsForTheAsked, SetupIsComing
<1>12. call.asked \subseteq Hosts /\ UNCHANGED <<call, seen, state>>
  BY <1>1 DEF IInv, TypeOK, history
<1>13. AnswersAreComing'
  <2> SUFFICES ASSUME NEW k \in call.asked
               PROVE  /\ call.waiting # {} => state[k] \in seen[k]
                      /\ \/ todo'[Task(k)] = GetState(k)
                         \/ todo'[Task(k)] = <<>> /\ \E s \in seen[k] : <<k, s>> \in results'
    BY <1>12 DEF AnswersAreComing
  <2>1. /\ call.waiting # {} => state[k] \in seen[k]
        /\ \/ todo[Task(k)] = GetState(k)
           \/ todo[Task(k)] = <<>> /\ \E s \in seen[k] : <<k, s>> \in results
    BY <1>2 DEF IInv, Calls, AnswersAreComing
  <2>2. CASE k = h
    BY <1>3, <1>4, <1>5, <1>6, <2>1, <2>2
  <2>3. CASE k # h
    BY <1>6, <1>9, <1>12, <2>1, <2>3
  <2> QED BY <2>2, <2>3
<1>14. ResultsAreAnswers'
  <2>1. \A r \in results : r[1] # h /\ todo[Task(r[1])] = <<>> /\ r[1] \in call.asked
                           /\ \A x \in results : x[1] = r[1] => x = r
    BY <1>3, <1>4 DEF IInv, Calls, ResultsAreAnswers
  <2>2. \A r \in results' :
          /\ call'.method = "GetState" /\ r[1] \in call'.asked /\ todo'[Task(r[1])] = <<>>
    <3> SUFFICES ASSUME NEW r \in results'
                 PROVE  r[1] \in call.asked /\ todo'[Task(r[1])] = <<>>
      BY <1>2, <1>12
    <3>1. CASE r \in results
      <4>1. r[1] \in Hosts \ {h} /\ r[1] \in call.asked /\ todo[Task(r[1])] = <<>>
        BY <1>12, <2>1, <3>1
      <4> QED BY <1>9, <4>1
    <3>2. CASE r = <<h, state[h]>>
      BY <1>3, <1>4, <1>5, <3>2
    <3> QED BY <1>6, <3>1, <3>2
  <2>3. \A r, x \in results' : x[1] = r[1] => x = r
    BY <1>6, <2>1
  <2> QED BY <2>2, <2>3 DEF ResultsAreAnswers
<1> QED BY <1>7, <1>8, <1>10, <1>11, <1>13, <1>14 DEF IInv, Calls

-----------------------------------------------------------------------------
(* The steps of the clients.                                                *)

\* While no call for all hosts is under way, its tasks are idle.
LEMMA TasksAreIdle ==
  ASSUME IInv, call.waiting = {}, NEW h \in Hosts
  PROVE  Idle(Task(h)) /\ todo[Task(h)] = <<>> /\ telling[Task(h)] = Nobody
BY DEF IInv, Calls, TasksEndBeforeTheCall, Idle

\* Nothing that happens to the hosts and their listeners alone touches a call.
LEMMA CallsStay ==
  ASSUME IInv, call.waiting = {},
         UNCHANGED <<state, todo, telling, call, results, seen>>
  PROVE  Calls' /\ ThreadsObey'
<1>1. TasksEndBeforeTheCall'
  BY TasksAreIdle DEF TasksEndBeforeTheCall, Idle
<1>2. WaitsForTheAsked' /\ SetupIsComing' /\ AnswersAreComing' /\ ResultsAreAnswers'
  BY DEF IInv, Calls, WaitsForTheAsked, SetupIsComing, AnswersAreComing, ResultsAreAnswers
<1>3. ThreadsObey'
  BY DEF IInv, ThreadsObey, Allowed
<1> QED BY <1>1, <1>2, <1>3 DEF Calls

LEMMA AddHostKeeps == IInv /\ AddHost => IInv'
<1> SUFFICES ASSUME IInv, AddHost PROVE IInv'
  OBVIOUS
<1>1. /\ call.waiting = {} /\ nextHostId < MaxHosts
      /\ hosts' = hosts \cup {nextHostId} /\ nextHostId' = nextHostId + 1
      /\ UNCHANGED <<state, registered, todo, telling, callVars, terminated, history>>
  BY DEF AddHost, ClientIsFree
<1>2. hosts' \subseteq Hosts /\ nextHostId' \in 0 .. MaxHosts
  <2>1. hosts \subseteq Hosts /\ nextHostId \in 0 .. MaxHosts
    BY DEF IInv, TypeOK
  <2>2. nextHostId \in Hosts /\ nextHostId + 1 \in 0 .. MaxHosts
    BY <1>1, <2>1, Bounds DEF Hosts
  <2> QED BY <1>1, <2>1, <2>2
<1>3. TypeOK'
  BY <1>1, <1>2 DEF IInv, TypeOK, callVars, history
<1> QED BY <1>1, <1>3, CallsStay DEF IInv, callVars, history

\* Nobody is telling the listeners of a host that is removed.
LEMMA RemoveHostsKeeps == ASSUME IInv, NEW removed, RemoveHosts(removed) PROVE IInv'
<1>1. /\ call.waiting = {} /\ Idle(Main) /\ Idle(Client)
      /\ removed \subseteq hosts
      /\ \A h \in removed, r \in Threads : r \in Runs(h) => Idle(r)
      /\ hosts' = hosts \ removed
      /\ registered' = [h \in Hosts |-> IF h \in removed THEN {} ELSE registered[h]]
      /\ heard' = [h \in Hosts |-> IF h \in removed THEN Nothing ELSE heard[h]]
      /\ UNCHANGED <<nextHostId, state, todo, telling, callVars, terminated, spoiled, seen>>
  BY DEF RemoveHosts, ClientIsFree
<1>2. /\ registered \in [Hosts -> SUBSET Listeners]
      /\ heard \in [Hosts -> [Listeners -> [States -> Int]]] /\ hosts \subseteq Hosts
      /\ \A u \in Threads : telling[u].host \in Hosts
                            /\ telling[u].to \subseteq registered[telling[u].host]
  BY DEF IInv, TypeOK
<1>3. ASSUME NEW u \in Threads
      PROVE  telling[u] = Nobody \/ telling[u].host \notin removed
  <2>1. CASE u.kind \in {"client", "main"}
    <3>1. u = Client \/ u = Main
      BY <2>1, ThreadKinds DEF Threads
    <3> QED BY <1>1, <3>1 DEF Idle
  <2>2. CASE u.kind = "task"
    BY <1>1, <2>2, ThreadKinds, TasksAreIdle
  <2>3. CASE u.kind = "run"
    <3>1. u.host \in Hosts /\ u \in Runs(u.host)
      BY <2>3, ThreadKinds
    <3>2. telling[u] = Nobody \/ telling[u].host = u.host
      BY <2>3 DEF IInv, ThreadsObey
    <3> QED BY <1>1, <3>1, <3>2 DEF Idle
  <2> QED BY <2>1, <2>2, <2>3, ThreadKinds
<1>4. \A u \in Threads : telling[u].to \subseteq registered'[telling[u].host]
  <2> SUFFICES ASSUME NEW u \in Threads PROVE telling[u].to \subseteq registered'[telling[u].host]
    OBVIOUS
  <2>1. CASE telling[u] = Nobody
    <3>1. telling[u].to = {}
      BY <2>1, NobodyIsTold
    <3> QED BY <3>1
  <2>2. CASE telling[u].host \notin removed
    BY <1>1, <1>2, <2>2
  <2> QED BY <1>3, <2>1, <2>2
<1>5. /\ registered' \in [Hosts -> SUBSET Listeners]
      /\ heard' \in [Hosts -> [Listeners -> [States -> Int]]] /\ hosts' \subseteq Hosts
  <2>1. Nothing \in [Listeners -> [States -> Int]]
    BY DEF Nothing
  <2> QED BY <1>1, <1>2, <2>1
<1>6. TypeOK'
  BY <1>1, <1>4, <1>5 DEF IInv, TypeOK, callVars
<1> QED BY <1>1, <1>6, CallsStay DEF IInv, callVars

LEMMA AddEventListenerKeeps ==
  ASSUME IInv, NEW h \in Hosts, NEW l \in Listeners, AddEventListener(h, l) PROVE IInv'
<1>1. /\ call.waiting = {}
      /\ registered' = [registered EXCEPT ![h] = @ \cup {l}]
      /\ heard' = heard \/ heard' = [heard EXCEPT ![h][l][state[h]] = 1]
      /\ UNCHANGED <<hostVars, state, todo, telling, callVars, terminated, spoiled, seen>>
  BY DEF AddEventListener, ClientIsFree
<1>2. registered \in [Hosts -> SUBSET Listeners] /\ heard \in [Hosts -> [Listeners -> [States -> Int]]]
  BY DEF IInv, TypeOK
<1>3. /\ registered' \in [Hosts -> SUBSET Listeners]
      /\ \A k \in Hosts : registered[k] \subseteq registered'[k]
  BY <1>1, <1>2
<1>4. heard' \in [Hosts -> [Listeners -> [States -> Int]]]
  <2>1. PICK before \in [States -> Int], s \in States : before = heard[h][l] /\ s = state[h]
    <3>1. heard[h][l] \in [States -> Int]
      BY <1>2
    <3>2. state[h] \in States
      BY DEF IInv, TypeOK
    <3> QED BY <3>1, <3>2
  <2>2. [heard[h] EXCEPT ![l] = [before EXCEPT ![s] = 1]] \in [Listeners -> [States -> Int]]
    <3>1. PICK after \in [States -> Int] : after = [before EXCEPT ![s] = 1]
      BY OneIsACount
    <3>2. heard[h] \in [Listeners -> [States -> Int]]
      BY <1>2
    <3> QED BY <3>1, <3>2
  <2>3. CASE heard' = [heard EXCEPT ![h][l][state[h]] = 1]
    BY <1>2, <2>1, <2>2, <2>3
  <2> QED BY <1>1, <1>2, <2>3
<1>5. \A u \in Threads : telling[u].to \subseteq registered'[telling[u].host]
  BY <1>3 DEF IInv, TypeOK
<1>6. TypeOK'
  BY <1>1, <1>3, <1>4, <1>5 DEF IInv, TypeOK, hostVars, callVars
<1> QED BY <1>1, <1>6, CallsStay DEF IInv, callVars

LEMMA RemoveEventListenerKeeps ==
  ASSUME IInv, NEW h \in Hosts, NEW l \in Listeners, RemoveEventListener(h, l) PROVE IInv'
<1>1. /\ call.waiting = {} /\ NobodyTells(h)
      /\ registered' = [registered EXCEPT ![h] = @ \ {l}]
      /\ heard' = [heard EXCEPT ![h][l] = Nothing[l]]
      /\ UNCHANGED <<hostVars, state, todo, telling, callVars, terminated, spoiled, seen>>
  BY DEF RemoveEventListener, ClientIsFree
<1>2. registered \in [Hosts -> SUBSET Listeners] /\ heard \in [Hosts -> [Listeners -> [States -> Int]]]
  BY DEF IInv, TypeOK
<1>3. /\ registered' \in [Hosts -> SUBSET Listeners]
      /\ \A k \in Hosts \ {h} : registered[k] = registered'[k]
  BY <1>1, <1>2
<1>4. heard' \in [Hosts -> [Listeners -> [States -> Int]]]
  <2>1. Nothing[l] \in [States -> Int]
    BY DEF Nothing
  <2> QED BY <1>1, <1>2, <2>1
<1>5. \A u \in Threads : telling[u].to \subseteq registered'[telling[u].host]
  <2> SUFFICES ASSUME NEW u \in Threads PROVE telling[u].to \subseteq registered'[telling[u].host]
    OBVIOUS
  <2>1. telling[u].host \in Hosts /\ telling[u].to \subseteq registered[telling[u].host]
    BY DEF IInv, TypeOK
  <2>2. CASE telling[u] = Nobody
    <3>1. telling[u].to = {}
      BY <2>2, NobodyIsTold
    <3> QED BY <3>1
  <2>3. CASE telling[u].host # h
    BY <1>3, <2>1, <2>3
  <2> QED BY <1>1, <2>2, <2>3 DEF NobodyTells
<1>6. TypeOK'
  BY <1>1, <1>3, <1>4, <1>5 DEF IInv, TypeOK, hostVars, callVars
<1> QED BY <1>1, <1>6, CallsStay DEF IInv, callVars

LEMMA CallHostKeeps ==
  ASSUME IInv, NEW h \in Hosts, NEW method \in HostCalls, CallHost(method, h) PROVE IInv'
<1>1. /\ call.waiting = {} /\ OneMoreCall
      /\ todo' = [todo EXCEPT ![Client] = Operation(method, h)]
      /\ UNCHANGED <<hostVars, state, registered, telling, call, results, terminated, history>>
  BY DEF CallHost, ClientIsFree
<1>2. Operation(method, h) \in Seq(Allowed(Client))
  <2>1. method \in {"Setup", "Pause", "Run", "Exit"}
    BY HypervisorAssumption
  <2>2. {a \in Accesses : /\ a.do = "set" => "NeedsSetup" \notin a.states
                          /\ a.host = h
                          /\ a.do = "read" => method = "GetState"} \subseteq Allowed(Client)
    BY <2>1, ThreadKinds DEF Allowed
  <2> QED BY <2>1, <2>2, OperationsAreAccesses, SeqIsMonotone
<1>3. /\ DOMAIN todo' = Threads
      /\ \A u \in Threads : todo'[u] \in Seq(Allowed(u))
      /\ \A k \in Hosts : todo'[Task(k)] = todo[Task(k)]
  BY <1>1, <1>2, ThreadKinds DEF IInv, TypeOK, ThreadsObey
<1>4. calls' \in 0 .. MaxCalls
  BY <1>1, CallsAreCounted
<1>5. TypeOK'
  BY <1>1, <1>3, <1>4, AllowedAreAccesses DEF IInv, TypeOK, hostVars, history
<1>6. ThreadsObey'
  BY <1>1, <1>3 DEF IInv, ThreadsObey, Allowed
<1>7. TasksEndBeforeTheCall'
  BY <1>1, <1>3, TasksAreIdle DEF TasksEndBeforeTheCall, Idle
<1>8. call.asked \subseteq Hosts /\ results \subseteq Hosts \X States
      /\ UNCHANGED <<call, results, state, seen>>
  BY <1>1 DEF IInv, TypeOK, history
<1>9. WaitsForTheAsked' /\ SetupIsComing' /\ AnswersAreComing'
  BY <1>3, <1>8 DEF IInv, Calls, WaitsForTheAsked, SetupIsComing, AnswersAreComing
<1>10. ResultsAreAnswers'
  BY <1>3, <1>8 DEF IInv, Calls, ResultsAreAnswers
<1> QED BY <1>5, <1>6, <1>7, <1>9, <1>10 DEF IInv, Calls

LEMMA CallAllHostsKeeps ==
  ASSUME IInv, NEW method \in MethodsOfAll, CallAllHosts(method) PROVE IInv'
<1> DEFINE asks == {Task(h) : h \in hosts}
<1>1. /\ call.waiting = {} /\ OneMoreCall
      /\ call' = [method |-> method, asked |-> hosts, waiting |-> hosts]
      /\ results' = {}
      /\ seen' = [h \in Hosts |-> IF method = "GetState" /\ h \in hosts THEN {state[h]} ELSE {}]
      /\ todo' = [t \in Threads |-> IF t \in asks THEN Operation(method, t.host) ELSE todo[t]]
      /\ UNCHANGED <<hostVars, state, registered, telling, terminated, heard, spoiled>>
  BY DEF CallAllHosts, ClientIsFree
<1>2. /\ hosts \subseteq Hosts /\ state \in [Hosts -> States]
      /\ method \in {"Setup", "Pause", "Exit", "Run", "GetState"}
  BY DEF IInv, TypeOK, MethodsOfAll
<1>3. \A h \in hosts : todo'[Task(h)] = Operation(method, h)
  BY <1>1, <1>2, ThreadKinds
<1>4. \A u \in Threads \ asks : todo'[u] = todo[u]
  BY <1>1
<1>5. ASSUME NEW h \in Hosts \ hosts PROVE todo'[Task(h)] = <<>> /\ telling'[Task(h)] = Nobody
  <2>1. Task(h) \notin asks /\ Task(h) \in Threads
    BY <1>2, ThreadKinds
  <2> HIDE DEF asks
  <2> QED BY <1>1, <1>4, <2>1, TasksAreIdle
<1>6. ASSUME NEW u \in Threads PROVE todo'[u] \in Seq(Allowed(u)')
  <2>1. CASE u.kind = "task"
    <3>1. PICK h \in Hosts : u = Task(h) /\ u.host = h
      BY <2>1, ThreadKinds
    <3>2. CASE h \in hosts
      <4>1. {a \in Accesses : /\ a.do = "set" => "NeedsSetup" \notin a.states
                              /\ a.host = h
                              /\ a.do = "read" => method = "GetState"} \subseteq Allowed(u)'
        BY <1>1, <2>1, <3>1 DEF Allowed
      <4>2. Operation(method, h) \in Seq(Allowed(u)')
        BY <1>2, <4>1, OperationsAreAccesses, SeqIsMonotone
      <4> QED BY <1>3, <3>1, <3>2, <4>2
    <3>3. CASE h \notin hosts
      <4>1. todo'[u] = <<>>
        BY <1>5, <3>1, <3>3
      <4> QED BY <4>1
    <3> QED BY <3>2, <3>3
  <2>2. CASE u.kind # "task"
    <3>1. todo'[u] = todo[u]
      BY <1>1, <1>2, <2>2, ThreadKinds
    <3>2. Allowed(u) \subseteq Allowed(u)'
      BY <2>2 DEF Allowed
    <3> QED BY <3>1, <3>2, SeqIsMonotone DEF IInv, ThreadsObey
  <2> QED BY <2>1, <2>2
<1>7. TypeOK'
  <2>1. calls' \in 0 .. MaxCalls
    BY <1>1, CallsAreCounted
  <2>2. DOMAIN todo' = Threads /\ \A u \in Threads : todo'[u] \in Seq(Accesses)
    <3>1. \A u \in Threads : Allowed(u)' \subseteq Accesses
      BY DEF Allowed
    <3> QED BY <1>1, <1>6, <3>1, SeqIsMonotone
  <2>3. call' \in [method : MethodsOfAll, asked : SUBSET Hosts, waiting : SUBSET Hosts]
    BY <1>1, <1>2
  <2>4. seen' \in [Hosts -> SUBSET States] /\ results' \subseteq Hosts \X States
    BY <1>1, <1>2
  <2> HIDE DEF asks
  <2> QED BY <1>1, <2>1, <2>2, <2>3, <2>4 DEF IInv, TypeOK, hostVars
<1>8. ThreadsObey'
  <2> HIDE DEF asks
  <2> QED BY <1>1, <1>6 DEF IInv, ThreadsObey
<1>9. TasksEndBeforeTheCall'
  <2> SUFFICES ASSUME NEW h \in Hosts, ~Idle(Task(h))' PROVE h \in call'.waiting /\ h \in hosts'
    BY DEF TasksEndBeforeTheCall
  <2>1. h \in hosts
    BY <1>5 DEF Idle
  <2> QED BY <1>1, <2>1 DEF hostVars
<1>10. WaitsForTheAsked'
  BY <1>1 DEF WaitsForTheAsked
<1>11. SetupIsComing'
  BY <1>1, <1>2, <1>3, OperationsAreAccesses DEF SetupIsComing
<1>12. AnswersAreComing'
  <2> SUFFICES ASSUME method = "GetState", NEW h \in hosts
               PROVE  state'[h] \in seen'[h] /\ todo'[Task(h)] = GetState(h)
    BY <1>1 DEF AnswersAreComing
  <2>1. state'[h] \in seen'[h]
    BY <1>1, <1>2
  <2> QED BY <1>2, <1>3, <2>1, OperationsAreAccesses
<1>13. ResultsAreAnswers'
  BY <1>1 DEF ResultsAreAnswers
<1> QED BY <1>7, <1>8, <1>9, <1>10, <1>11, <1>12, <1>13 DEF IInv, Calls

LEMMA RunHostsOnCurrentThreadKeeps == IInv /\ RunHostsOnCurrentThread => IInv'
<1> SUFFICES ASSUME IInv, RunHostsOnCurrentThread PROVE IInv'
  OBVIOUS
<1>1. /\ call.waiting = {} /\ OneMoreCall /\ hosts # {}
      /\ UNCHANGED <<hostVars, state, registered, telling, call, results, terminated, history>>
  BY DEF RunHostsOnCurrentThread, ClientIsFree
<1>2. PICK order \in [1 .. Cardinality(hosts) -> hosts] :
        todo' = [todo EXCEPT ![Main] = RunInTurn(Tail(order)) \o RunOnCurrentThread(order[1])]
  BY DEF RunHostsOnCurrentThread
<1>3. hosts \subseteq Hosts /\ Cardinality(hosts) \in Nat \ {0}
  <2>1. hosts \subseteq Hosts
    BY DEF IInv, TypeOK
  <2> QED BY <1>1, <2>1, HostsAreFinite, FS_Subset, FS_CardinalityType, FS_EmptySet
<1>4. order \in Seq(Hosts) /\ order # <<>> /\ order[1] \in Hosts
  BY <1>3
<1>5. Tail(order) \in Seq(Hosts)
  BY <1>4
<1>6. RunInTurn(Tail(order)) \o RunOnCurrentThread(order[1]) \in Seq(Allowed(Main))
  <2>1. RunInTurn(Tail(order)) \in Seq(Allowed(Main))
    <3>1. {a \in Accesses : a.do = "set" => "NeedsSetup" \notin a.states} \cap
               {a \in Accesses : a.do # "read"} \subseteq Allowed(Main)
      BY ThreadKinds DEF Allowed
    <3> QED BY <1>5, <3>1, RunInTurnIsAllowed, SeqIsMonotone
  <2>2. RunOnCurrentThread(order[1]) \in Seq(Allowed(Main))
    <3>1. {a \in Accesses : /\ a.do = "set" => "NeedsSetup" \notin a.states
                            /\ a.host = order[1]
                            /\ a.do # "read"} \subseteq Allowed(Main)
      BY ThreadKinds DEF Allowed
    <3> QED BY <1>4, <3>1, RunIsAllowed, SeqIsMonotone
  <2> QED BY <2>1, <2>2
<1>7. /\ DOMAIN todo' = Threads
      /\ \A u \in Threads : todo'[u] \in Seq(Allowed(u))
      /\ \A k \in Hosts : todo'[Task(k)] = todo[Task(k)]
  BY <1>2, <1>6, ThreadKinds DEF IInv, TypeOK, ThreadsObey
<1>8. calls' \in 0 .. MaxCalls
  BY <1>1, CallsAreCounted
<1>9. TypeOK'
  BY <1>1, <1>7, <1>8, AllowedAreAccesses DEF IInv, TypeOK, hostVars, history
<1>10. ThreadsObey'
  BY <1>1, <1>7 DEF IInv, ThreadsObey, Allowed
<1>11. TasksEndBeforeTheCall'
  BY <1>1, <1>7, TasksAreIdle DEF TasksEndBeforeTheCall, Idle
<1>12. call.asked \subseteq Hosts /\ results \subseteq Hosts \X States
      /\ UNCHANGED <<call, results, state, seen>>
  BY <1>1 DEF IInv, TypeOK, history
<1>13. WaitsForTheAsked' /\ SetupIsComing' /\ AnswersAreComing'
  BY <1>7, <1>12 DEF IInv, Calls, WaitsForTheAsked, SetupIsComing, AnswersAreComing
<1>14. ResultsAreAnswers'
  BY <1>7, <1>12 DEF IInv, Calls, ResultsAreAnswers
<1> QED BY <1>9, <1>10, <1>11, <1>13, <1>14 DEF IInv, Calls

\* The call waits for one task less: one that has ended.
LEMMA WaitKeeps == IInv /\ Wait => IInv'
<1> SUFFICES ASSUME IInv, Wait PROVE IInv'
  OBVIOUS
<1>1. PICK h : /\ h = Max(call.waiting) /\ Idle(Task(h))
               /\ call' = [call EXCEPT !.waiting = @ \ {h}]
               /\ UNCHANGED <<hostVars, state, registered, todo, telling, calls, results, terminated,
                              history>>
               /\ call.waiting # {}
  BY DEF Wait
<1>2. /\ call \in [method : MethodsOfAll, asked : SUBSET Hosts, waiting : SUBSET Hosts]
  BY DEF IInv, TypeOK
<1>3. /\ call' \in [method : MethodsOfAll, asked : SUBSET Hosts, waiting : SUBSET Hosts]
      /\ call'.method = call.method /\ call'.asked = call.asked
      /\ call'.waiting = call.waiting \ {h}
  BY <1>1, <1>2
<1>4. TypeOK'
  BY <1>1, <1>3 DEF IInv, TypeOK, hostVars, history
<1>5. ThreadsObey'
  BY <1>1, <1>3 DEF IInv, ThreadsObey, Allowed
<1>6. TasksEndBeforeTheCall'
  BY <1>1, <1>3 DEF IInv, Calls, TasksEndBeforeTheCall, Idle, hostVars
<1>7. WaitsForTheAsked' /\ SetupIsComing' /\ ResultsAreAnswers'
  BY <1>1, <1>3 DEF IInv, Calls, WaitsForTheAsked, SetupIsComing, ResultsAreAnswers
<1>8. AnswersAreComing'
  BY <1>1, <1>3 DEF IInv, Calls, AnswersAreComing, history
<1> QED BY <1>4, <1>5, <1>6, <1>7, <1>8 DEF IInv, Calls

-----------------------------------------------------------------------------
(* The theorems.                                                            *)

\* The type invariant, in parts.
HostTypes ==
  /\ hosts \subseteq Hosts
  /\ nextHostId \in 0 .. MaxHosts
  /\ state \in [Hosts -> States]
  /\ registered \in [Hosts -> SUBSET Listeners]

ThreadTypes ==
  /\ DOMAIN todo = Threads
  /\ \A t \in Threads : todo[t] \in Seq(Accesses)
  /\ DOMAIN telling = Threads

TellingTypes ==
  /\ \A t \in Threads :
         /\ telling[t].host \in Hosts
         /\ {telling[t].left, telling[t].entered} \subseteq States \cup {""}
         /\ telling[t].to \subseteq registered[telling[t].host]
         /\ telling[t] # Nobody => telling[t].to # {}

CallTypes ==
  /\ call \in [method : MethodsOfAll, asked : SUBSET Hosts, waiting : SUBSET Hosts]
  /\ calls \in 0 .. MaxCalls
  /\ results \subseteq Hosts \X States
  /\ terminated \in BOOLEAN

HistoryTypes ==
  /\ heard \in [Hosts -> [Listeners -> [States -> Int]]]
  /\ spoiled \subseteq Hosts
  /\ seen \in [Hosts -> SUBSET States]

LEMMA TypesInParts ==
  TypeOK <=> HostTypes /\ ThreadTypes /\ TellingTypes /\ CallTypes /\ HistoryTypes
BY Zenon DEF TypeOK, HostTypes, ThreadTypes, TellingTypes, CallTypes, HistoryTypes

LEMMA InitIsSound == Init => IInv
<1> SUFFICES ASSUME Init PROVE IInv
  OBVIOUS
<1>1. TypeOK
  <2>1. "NeedsSetup" \in States /\ Nothing \in [Listeners -> [States -> Int]]
    BY DEF States, Nothing
  <2>2. Nobody.host \in Hosts /\ Nobody.left = "" /\ Nobody.entered = "" /\ Nobody.to = {}
    BY HostZero DEF Nobody
  <2>3. HostTypes
    BY <2>1, Bounds DEF Init, HostTypes
  <2>4. ThreadTypes
    BY DEF Init, ThreadTypes
  <2>5. TellingTypes
    BY <2>2 DEF Init, TellingTypes
  <2>6. CallTypes
    <3>1. call \in [method : MethodsOfAll, asked : SUBSET Hosts, waiting : SUBSET Hosts]
      BY DEF Init, MethodsOfAll
    <3>2. calls \in 0 .. MaxCalls
      BY Bounds DEF Init
    <3>3. results \subseteq Hosts \X States /\ terminated \in BOOLEAN
      BY DEF Init
    <3> QED BY <3>1, <3>2, <3>3, Zenon DEF CallTypes
  <2>7. HistoryTypes
    BY <2>1 DEF Init, HistoryTypes
  <2> QED BY <2>3, <2>4, <2>5, <2>6, <2>7, TypesInParts
<1>2. ThreadsObey
  BY DEF Init, ThreadsObey
<1>3. Calls
  BY ThreadKinds DEF Init, Calls, TasksEndBeforeTheCall, WaitsForTheAsked, SetupIsComing,
                     AnswersAreComing, ResultsAreAnswers, Idle
<1> QED BY <1>1, <1>2, <1>3 DEF IInv

LEMMA StutterKeeps == IInv /\ UNCHANGED vars => IInv'
<1> SUFFICES ASSUME IInv, UNCHANGED vars PROVE IInv'
  OBVIOUS
<1>1. TypeOK'
  BY DEF IInv, TypeOK, vars, hostVars, callVars, history
<1>2. ThreadsObey'
  BY DEF IInv, ThreadsObey, Allowed, vars, callVars
<1>3. Calls'
  BY DEF IInv, Calls, TasksEndBeforeTheCall, WaitsForTheAsked, SetupIsComing, AnswersAreComing,
         ResultsAreAnswers, Idle, vars, hostVars, callVars, history
<1> QED BY <1>1, <1>2, <1>3 DEF IInv

\* What the threads have to do, and how far the calls for all hosts have come.
THEOREM Invariance == Spec => []IInv
<1>1. Init => IInv
  BY InitIsSound
<1>2. IInv /\ [Next]_vars => IInv'
  <2> SUFFICES ASSUME IInv, [Next]_vars PROVE IInv'
    OBVIOUS
  <2>1. ASSUME NEW t \in Threads, Step(t) PROVE IInv'
    BY <2>1, CheckKeeps, CheckEitherKeeps, SetStateKeeps, TellKeeps, ListenerFailsKeeps,
       ConfigureKeeps, DetachKeeps, EndExecutionKeeps, ExecutionThrowsKeeps, ReadKeeps DEF Step
  <2> QED BY <2>1, AddHostKeeps, RemoveHostsKeeps, AddEventListenerKeeps, RemoveEventListenerKeeps,
             CallHostKeeps, CallAllHostsKeeps, RunHostsOnCurrentThreadKeeps, WaitKeeps, StutterKeeps
          DEF Next
<1> QED BY <1>1, <1>2, PTL DEF Spec

\* The type invariant.
THEOREM TypeCorrect == Spec => []TypeOK
<1>1. IInv => TypeOK
  BY DEF IInv
<1> QED BY <1>1, Invariance, PTL

\* No task outlives its call, whatever its method does or throws: the references
\* the task holds stay good.
THEOREM TasksEnd == Spec => []TasksEndBeforeTheCall
<1>1. IInv => TasksEndBeforeTheCall
  BY DEF IInv, Calls
<1> QED BY <1>1, Invariance, PTL

\* GetHostStates answers for every host once, with a state the host has had
\* during the call.
THEOREM HostsAnswer == Spec => []EveryHostAnswers
<1>1. IInv => EveryHostAnswers
  <2> SUFFICES ASSUME IInv, call.method = "GetState", call.waiting = {}
               PROVE  /\ \A h \in call.asked : \E s \in seen[h] : <<h, s>> \in results
                      /\ Cardinality(results) = Cardinality(call.asked)
    BY DEF EveryHostAnswers
  <2>1. call.asked \subseteq Hosts /\ IsFiniteSet(call.asked)
    <3>1. call.asked \subseteq Hosts
      BY DEF IInv, TypeOK
    <3> QED BY <3>1, HostsAreFinite, FS_Subset
  <2>2. \A h \in call.asked : \E s \in seen[h] : <<h, s>> \in results
    <3> SUFFICES ASSUME NEW h \in call.asked PROVE \E s \in seen[h] : <<h, s>> \in results
      OBVIOUS
    <3>1. todo[Task(h)] = <<>>
      BY <2>1, TasksAreIdle
    <3>2. todo[Task(h)] # GetState(h)
      BY <3>1 DEF GetState
    <3> QED BY <3>2 DEF IInv, Calls, AnswersAreComing
  <2>3. \A r \in results : r[1] \in call.asked /\ \A x \in results : x[1] = r[1] => x = r
    BY DEF IInv, Calls, ResultsAreAnswers
  <2>4. ExistsBijection(call.asked, results)
    <3> DEFINE answer == [h \in call.asked |-> CHOOSE r \in results : r[1] = h]
    <3>1. \A h \in call.asked : answer[h] \in results /\ answer[h][1] = h
      <4> SUFFICES ASSUME NEW h \in call.asked
                   PROVE  answer[h] \in results /\ answer[h][1] = h
        OBVIOUS
      <4>1. PICK s \in seen[h] : <<h, s>> \in results
        BY <2>2
      <4>2. \E r \in results : r[1] = h
        BY <4>1
      <4> QED BY <4>2
    <3> HIDE DEF answer
    <3>2. DOMAIN answer = call.asked
      BY DEF answer
    <3>3. answer \in Bijection(call.asked, results)
      <4>1. answer \in [call.asked -> results]
        BY <3>1, <3>2 DEF answer
      <4>2. \A h, k \in call.asked : answer[h] = answer[k] => h = k
        BY <3>1
      <4>3. \A r \in results : \E h \in call.asked : answer[h] = r
        BY <2>3, <3>1
      <4> QED BY <4>1, <4>2, <4>3 DEF Bijection, Injection, Surjection, IsInjective
    <3> QED BY <3>3 DEF ExistsBijection
  <2> QED BY <2>1, <2>2, <2>4, FS_Bijection
<1> QED BY <1>1, Invariance, PTL

\* SetupHosts sets up every host that can be, whatever the others throw.
THEOREM FailuresStayAlone == Spec => []OneFailureSparesTheOthers
<1>1. IInv => OneFailureSparesTheOthers
  <2> SUFFICES ASSUME IInv, call.method = "Setup", call.waiting = {}, NEW h \in call.asked
               PROVE  state[h] # "NeedsSetup"
    BY DEF OneFailureSparesTheOthers
  <2>1. h \in Hosts
    BY DEF IInv, TypeOK
  <2>2. todo[Task(h)] = <<>>
    BY <2>1, TasksAreIdle
  <2>3. todo[Task(h)] \notin {Setup(h), Tail(Setup(h))}
    BY <2>2 DEF Setup
  <2> QED BY <2>3 DEF IInv, Calls, SetupIsComing
<1> QED BY <1>1, Invariance, PTL
-----------------------------------------------------------------------------
(* What the listeners have heard.                                           *)

\* The threads that have still to tell l that h has come into s, or left it.
Entering(h, l, s) ==
  {t \in Threads : telling[t].host = h /\ l \in telling[t].to /\ telling[t].entered = s}

Leaving(h, l, s) ==
  {t \in Threads : telling[t].host = h /\ l \in telling[t].to /\ telling[t].left = s}

\* What a listener has heard and has still to hear adds up to the state of its
\* host at every moment.
AccountsBalance ==
  \A h \in Hosts \ spoiled : \A l \in registered[h], s \in States :
    heard[h][l][s] + Cardinality(Entering(h, l, s)) - Cardinality(Leaving(h, l, s))
      = (IF s = state[h] THEN 1 ELSE 0)

\* A listener that is not registered starts from nothing when it is.
OthersHaveHeardNothing ==
  \A h \in Hosts \ spoiled : \A l \in Listeners \ registered[h] : heard[h][l] = Nothing[l]

Accounts == AccountsBalance /\ OthersHaveHeardNothing

LEMMA ThreadsAreFinite == IsFiniteSet(Threads)
<1> DEFINE tasks == {Task(h) : h \in Hosts}
           runs == UNION {Runs(h) : h \in Hosts}
           places == Hosts \X (1 .. MaxRuns)
<1>1. IsFiniteSet({Client, Main})
  <2>1. IsFiniteSet({Client})
    BY FS_Singleton
  <2>2. IsFiniteSet({Client} \cup {Main})
    BY <2>1, FS_AddElement
  <2>3. {Client, Main} = {Client} \cup {Main}
    OBVIOUS
  <2> QED BY <2>2, <2>3
<1>2. IsFiniteSet(tasks)
  <2> DEFINE f == [h \in Hosts |-> Task(h)]
  <2>1. f \in Surjection(Hosts, tasks)
    BY DEF Surjection
  <2> HIDE DEF f, tasks
  <2> QED BY <2>1, HostsAreFinite, FS_Surjection
<1>3. IsFiniteSet(runs)
  <2> DEFINE f == [p \in places |-> Thread("run", p[1], p[2])]
  <2>1. IsFiniteSet(places)
    <3>1. IsFiniteSet(1 .. MaxRuns)
      BY HypervisorAssumption, FS_Interval
    <3> QED BY <3>1, HostsAreFinite, FS_Product
  <2>2. f \in [places -> runs]
    <3> SUFFICES ASSUME NEW p \in places PROVE Thread("run", p[1], p[2]) \in runs
      OBVIOUS
    <3>1. Thread("run", p[1], p[2]) \in Runs(p[1]) /\ p[1] \in Hosts
      BY DEF Runs
    <3> QED BY <3>1
  <2>3. \A r \in runs : \E p \in places : f[p] = r
    <3> SUFFICES ASSUME NEW r \in runs PROVE \E p \in places : f[p] = r
      OBVIOUS
    <3>1. PICK h \in Hosts, i \in 1 .. MaxRuns : r = Thread("run", h, i)
      BY DEF Runs
    <3>2. <<h, i>> \in places /\ f[<<h, i>>] = r
      BY <3>1
    <3> QED BY <3>2
  <2>4. f \in Surjection(places, runs)
    <3> HIDE DEF f, places, runs
    <3> QED BY <2>2, <2>3 DEF Surjection
  <2> HIDE DEF f, places, runs
  <2> QED BY <2>1, <2>4, FS_Surjection
<1>4. Threads = ({Client, Main} \cup tasks) \cup runs
  BY Zenon DEF Threads
<1> HIDE DEF tasks, runs
<1>5. IsFiniteSet({Client, Main} \cup tasks)
  BY <1>1, <1>2, FS_Union
<1> QED BY <1>3, <1>4, <1>5, FS_Union

\* How many threads have still to tell something.
LEMMA TellersAreCounted ==
  ASSUME NEW S \in SUBSET Threads, NEW t
  PROVE  /\ Cardinality(S) \in Nat
         /\ t \notin S => Cardinality(S \cup {t}) = Cardinality(S) + 1
         /\ t \in S => Cardinality(S \ {t}) = Cardinality(S) - 1
         /\ S = {} => Cardinality(S) = 0
<1>1. IsFiniteSet(S)
  BY ThreadsAreFinite, FS_Subset
<1>2. Cardinality(S) \in Nat
  BY <1>1, FS_CardinalityType
<1>3. t \notin S => Cardinality(S \cup {t}) = Cardinality(S) + 1
  BY <1>1, FS_AddElement
<1>4. t \in S => Cardinality(S \ {t}) = Cardinality(S) - 1
  BY <1>1, FS_RemoveElement
<1>5. S = {} => Cardinality(S) = 0
  BY FS_EmptySet
<1> QED BY <1>2, <1>3, <1>4, <1>5

LEMMA TellersAreThreads ==
  ASSUME NEW h, NEW l, NEW s
  PROVE  Entering(h, l, s) \in SUBSET Threads /\ Leaving(h, l, s) \in SUBSET Threads
BY DEF Entering, Leaving

\* The listener that is next has the smallest id.
LEMMA LeastIsIn ==
  ASSUME NEW S \in SUBSET Nat, S # {}
  PROVE  Min(S) \in S
<1> DEFINE R == OpToRel(<, Nat)
<1>1. \A x, y \in Nat : <<x, y>> \in R <=> x < y
  BY DEF OpToRel
<1>2. IsWellFoundedOn(R, Nat)
  BY NatLessThanWellFounded
<1> HIDE DEF R
<1>3. PICK n \in S : \A k \in S : ~ (<<k, n>> \in R)
  BY <1>2, WFMin
<1>4. ASSUME NEW k \in S PROVE n <= k
  <2>1. n \in Nat /\ k \in Nat
    OBVIOUS
  <2>2. <<k, n>> \notin R
    BY <1>3
  <2>3. ~ (k < n)
    BY <1>1, <2>1, <2>2
  <2> QED BY <2>1, <2>3
<1> QED BY <1>4 DEF Min

LEMMA ListenersAreNaturals == Listeners \subseteq Nat
BY HypervisorAssumption

\* A step that leaves the walks, the states and the accounts alone.
LEMMA AccountsStay ==
  ASSUME Accounts, UNCHANGED <<state, registered, telling, heard, spoiled>>
  PROVE  Accounts'
BY DEF Accounts, AccountsBalance, OthersHaveHeardNothing, Entering, Leaving

\* A walk that begins: of the change from one state to another, in which every
\* listener has still to be told of both.
LEMMA WalkBegins ==
  ASSUME IInv, NEW t \in Threads, telling[t] = Nobody, NEW h \in Hosts,
         NEW left, NEW entered, NEW w,
         w = [host |-> h, left |-> left, entered |-> entered, to |-> registered[h]],
         telling' = [telling EXCEPT ![t] = w],
         NEW k \in Hosts, NEW l \in registered[k], NEW s \in States
  PROVE  /\ Entering(k, l, s)' = IF k = h /\ s = entered THEN Entering(k, l, s) \cup {t}
                                 ELSE Entering(k, l, s)
         /\ Leaving(k, l, s)' = IF k = h /\ s = left THEN Leaving(k, l, s) \cup {t}
                                ELSE Leaving(k, l, s)
         /\ t \notin Entering(k, l, s) /\ t \notin Leaving(k, l, s)
<1>1. DOMAIN telling = Threads
  BY DEF IInv, TypeOK
<1>2. /\ telling'[t] = w
      /\ \A u \in Threads \ {t} : telling'[u] = telling[u]
  BY <1>1
<1>3. w.host = h /\ w.left = left /\ w.entered = entered /\ w.to = registered[h]
  OBVIOUS
<1>4. telling[t].to = {}
  BY NobodyIsTold
<1>5. t \notin Entering(k, l, s) /\ t \notin Leaving(k, l, s)
  BY <1>4 DEF Entering, Leaving
<1>6. Entering(k, l, s)' = IF k = h /\ s = entered THEN Entering(k, l, s) \cup {t}
                           ELSE Entering(k, l, s)
  BY <1>2, <1>3, <1>5 DEF Entering
<1>7. Leaving(k, l, s)' = IF k = h /\ s = left THEN Leaving(k, l, s) \cup {t}
                          ELSE Leaving(k, l, s)
  BY <1>2, <1>3, <1>5 DEF Leaving
<1> QED BY <1>5, <1>6, <1>7

LEMMA SetStateBalances ==
  ASSUME IInv, Accounts, NEW t \in Threads, SetState(t) PROVE Accounts'
<1>1. /\ todo[t] # <<>> /\ telling[t] = Nobody
      /\ UNCHANGED <<registered, heard, spoiled>>
  BY DEF SetState, At
<1>2. PICK h \in Hosts : h = Here(t)
  BY <1>1, HereIsAHost
<1>3. PICK new : /\ state' = [state EXCEPT ![h] = new]
                 /\ IF state[h] = new THEN UNCHANGED telling ELSE Announce(t, h, state[h], new)
  BY <1>2 DEF SetState, Enter
<1>4. PICK old \in States : old = state[h] /\ state \in [Hosts -> States]
  BY DEF IInv, TypeOK
<1>5. state'[h] = new /\ \A k \in Hosts \ {h} : state'[k] = state[k]
  BY <1>3, <1>4
<1>6. OthersHaveHeardNothing'
  BY <1>1 DEF Accounts, OthersHaveHeardNothing
<1>7. CASE old = new
  <2>1. UNCHANGED <<state, registered, telling, heard, spoiled>>
    BY <1>1, <1>3, <1>4, <1>7
  <2> QED BY <2>1, AccountsStay
<1>8. CASE old # new /\ registered[h] = {}
  <2>1. telling' = [telling EXCEPT ![t] = Nobody]
    BY <1>3, <1>4, <1>8 DEF Announce
  <2>2. \A u \in Threads : telling'[u] = telling[u]
    BY <1>1, <2>1 DEF IInv, TypeOK
  <2>3. AccountsBalance'
    <3> SUFFICES ASSUME NEW k \in Hosts \ spoiled, NEW l \in registered[k], NEW s \in States
                 PROVE  (heard[k][l][s] + Cardinality(Entering(k, l, s)) - Cardinality(Leaving(k, l, s))
                          = (IF s = state[k] THEN 1 ELSE 0))'
      BY <1>1 DEF AccountsBalance
    <3>1. k # h
      BY <1>8
    <3>2. state'[k] = state[k]
      BY <1>5, <3>1
    <3>3. Entering(k, l, s)' = Entering(k, l, s) /\ Leaving(k, l, s)' = Leaving(k, l, s)
      BY <2>2 DEF Entering, Leaving
    <3> QED BY <1>1, <3>2, <3>3 DEF Accounts, AccountsBalance
  <2> QED BY <1>6, <2>3 DEF Accounts
<1>9. CASE old # new /\ registered[h] # {}
  <2>1. PICK w : /\ w = [host |-> h, left |-> old, entered |-> new, to |-> registered[h]]
                 /\ telling' = [telling EXCEPT ![t] = w]
    BY <1>3, <1>4, <1>9 DEF Announce
  <2>2. AccountsBalance'
    <3> SUFFICES ASSUME NEW k \in Hosts \ spoiled, NEW l \in registered[k], NEW s \in States
                 PROVE  (heard[k][l][s] + Cardinality(Entering(k, l, s)) - Cardinality(Leaving(k, l, s))
                          = (IF s = state[k] THEN 1 ELSE 0))'
      BY <1>1 DEF AccountsBalance
    <3>1. PICK n \in Int : n = heard[k][l][s]
      <4>1. registered \in [Hosts -> SUBSET Listeners]
            /\ heard \in [Hosts -> [Listeners -> [States -> Int]]]
        BY DEF IInv, TypeOK
      <4>2. l \in Listeners
        BY <4>1
      <4>3. heard[k] \in [Listeners -> [States -> Int]]
        BY <4>1
      <4>4. heard[k][l] \in [States -> Int]
        BY <4>2, <4>3
      <4> QED BY <4>4
    <3>2. PICK e \in Nat, v \in Nat :
            e = Cardinality(Entering(k, l, s)) /\ v = Cardinality(Leaving(k, l, s))
      BY TellersAreThreads, TellersAreCounted
    <3>3. n + e - v = (IF s = state[k] THEN 1 ELSE 0)
      BY <3>1, <3>2 DEF Accounts, AccountsBalance
    <3>4. /\ Entering(k, l, s)' = IF k = h /\ s = new THEN Entering(k, l, s) \cup {t}
                                  ELSE Entering(k, l, s)
          /\ Leaving(k, l, s)' = IF k = h /\ s = old THEN Leaving(k, l, s) \cup {t}
                                 ELSE Leaving(k, l, s)
          /\ t \notin Entering(k, l, s) /\ t \notin Leaving(k, l, s)
      BY <1>1, <2>1, WalkBegins
    <3>5. Cardinality(Entering(k, l, s)') = IF k = h /\ s = new THEN e + 1 ELSE e
      BY <3>2, <3>4, TellersAreThreads, TellersAreCounted
    <3>6. Cardinality(Leaving(k, l, s)') = IF k = h /\ s = old THEN v + 1 ELSE v
      BY <3>2, <3>4, TellersAreThreads, TellersAreCounted
    <3>7. heard'[k][l][s] = n
      BY <1>1, <3>1
    <3>8. n + Cardinality(Entering(k, l, s)') - Cardinality(Leaving(k, l, s)')
            = (IF s = state'[k] THEN 1 ELSE 0)
      <4>1. CASE k # h
        BY <1>5, <3>3, <3>5, <3>6, <4>1
      <4>2. CASE k = h /\ s = new
        BY <1>4, <1>5, <1>9, <3>3, <3>5, <3>6, <4>2
      <4>3. CASE k = h /\ s = old
        BY <1>4, <1>5, <1>9, <3>3, <3>5, <3>6, <4>3
      <4>4. CASE k = h /\ s # new /\ s # old
        BY <1>4, <1>5, <3>3, <3>5, <3>6, <4>4
      <4> QED BY <4>1, <4>2, <4>3, <4>4
    <3> QED BY <3>7, <3>8
  <2> QED BY <1>6, <2>2 DEF Accounts
<1> QED BY <1>7, <1>8, <1>9

\* One listener is told: it has heard of the change and has it no longer to hear.
LEMMA TellBalances == ASSUME IInv, Accounts, NEW t \in Threads, Tell(t) PROVE Accounts'
<1>1. /\ telling[t] # Nobody
      /\ UNCHANGED <<state, registered, spoiled>>
  BY DEF Tell
<1>2. PICK w, m : w = telling[t] /\ m = Min(w.to)
  OBVIOUS
<1>3. /\ w.host \in Hosts /\ w.to \subseteq registered[w.host] /\ w.to # {}
      /\ DOMAIN telling = Threads
      /\ registered \in [Hosts -> SUBSET Listeners]
      /\ heard \in [Hosts -> [Listeners -> [States -> Int]]]
      /\ {w.left, w.entered} \subseteq States \cup {""}
  BY <1>1, <1>2 DEF IInv, TypeOK
<1>4. m \in w.to /\ m \in Listeners
  <2>1. w.to \subseteq Listeners
    BY <1>3
  <2>2. w.to \subseteq Nat
    BY <2>1, ListenersAreNaturals
  <2> QED BY <1>2, <1>3, <2>1, <2>2, LeastIsIn
<1>5. PICK rest : /\ telling' = [telling EXCEPT ![t] = rest]
                  /\ rest = Remaining(w, w.to \ {m})
  BY <1>2 DEF Tell
<1>6. /\ telling'[t] = rest /\ \A u \in Threads \ {t} : telling'[u] = telling[u]
      /\ rest.to = w.to \ {m}
      /\ rest.to # {} => rest.host = w.host /\ rest.left = w.left /\ rest.entered = w.entered
  BY <1>3, <1>5, RestOfWalk
<1>7. ASSUME NEW k \in Hosts, NEW l \in registered[k], NEW s \in States
      PROVE  /\ Entering(k, l, s)' = IF k = w.host /\ l = m THEN Entering(k, l, s) \ {t}
                                     ELSE Entering(k, l, s)
             /\ Leaving(k, l, s)' = IF k = w.host /\ l = m THEN Leaving(k, l, s) \ {t}
                                    ELSE Leaving(k, l, s)
             /\ k = w.host /\ l = m => /\ t \in Entering(k, l, s) <=> s = w.entered
                                       /\ t \in Leaving(k, l, s) <=> s = w.left
  <2>1. CASE k = w.host /\ l = m
    <3>1. l \in telling[t].to /\ l \notin telling'[t].to
      BY <1>2, <1>4, <1>6, <2>1
    <3> QED BY <1>2, <1>6, <2>1, <3>1 DEF Entering, Leaving
  <2>2. CASE ~ (k = w.host /\ l = m)
    <3>1. telling[t].host = k /\ l \in telling[t].to <=> telling'[t].host = k /\ l \in telling'[t].to
      <4>1. CASE l \in rest.to
        BY <1>2, <1>6, <4>1
      <4>2. CASE l \notin rest.to
        BY <1>2, <1>6, <2>2, <4>2
      <4> QED BY <4>1, <4>2
    <3>2. l \in telling'[t].to =>
            telling'[t].left = telling[t].left /\ telling'[t].entered = telling[t].entered
      BY <1>2, <1>6
    <3>3. Entering(k, l, s)' = Entering(k, l, s)
      BY <1>6, <3>1, <3>2 DEF Entering
    <3>4. Leaving(k, l, s)' = Leaving(k, l, s)
      BY <1>6, <3>1, <3>2 DEF Leaving
    <3> QED BY <2>2, <3>3, <3>4
  <2> QED BY <2>1, <2>2
<1>8. ASSUME NEW k \in Hosts \ spoiled, NEW l \in Listeners
      PROVE  IF k = w.host /\ l = m
             THEN \A s \in States :
                    heard'[k][l][s] = heard[k][l][s] + (IF s = w.entered THEN 1 ELSE 0)
                                                     - (IF s = w.left THEN 1 ELSE 0)
             ELSE heard'[k][l] = heard[k][l]
  <2>1. CASE w.host \in spoiled
    <3>1. heard' = heard
      BY <1>2, <2>1 DEF Tell
    <3> QED BY <2>1, <3>1
  <2>2. CASE w.host \notin spoiled
    <3> DEFINE a == [s \in States |-> heard[w.host][m][s] + (IF s = w.entered THEN 1 ELSE 0)
                                                         - (IF s = w.left THEN 1 ELSE 0)]
    <3>1. heard' = [heard EXCEPT ![w.host] = [heard[w.host] EXCEPT ![m] = a]]
      BY <1>2, <2>2 DEF Tell
    <3>2. \A s \in States : a[s] = heard[w.host][m][s] + (IF s = w.entered THEN 1 ELSE 0)
                                                       - (IF s = w.left THEN 1 ELSE 0)
      OBVIOUS
    <3> HIDE DEF a
    <3>3. heard[w.host] \in [Listeners -> [States -> Int]]
      BY <1>3
    <3>4. heard'[w.host] = [heard[w.host] EXCEPT ![m] = a]
          /\ \A h \in Hosts \ {w.host} : heard'[h] = heard[h]
      BY <1>3, <3>1
    <3>5. heard'[w.host][m] = a /\ \A x \in Listeners \ {m} : heard'[w.host][x] = heard[w.host][x]
      BY <1>4, <3>3, <3>4
    <3> QED BY <3>2, <3>4, <3>5
  <2> QED BY <2>1, <2>2
<1>9. AccountsBalance'
  <2> SUFFICES ASSUME NEW k \in Hosts \ spoiled, NEW l \in registered[k], NEW s \in States
               PROVE  (heard[k][l][s] + Cardinality(Entering(k, l, s)) - Cardinality(Leaving(k, l, s))
                        = (IF s = state[k] THEN 1 ELSE 0))'
    BY <1>1 DEF AccountsBalance
  <2>1. l \in Listeners
    BY <1>3
  <2>2. PICK n \in Int : n = heard[k][l][s]
    <3>1. heard[k] \in [Listeners -> [States -> Int]]
      BY <1>3
    <3>2. heard[k][l] \in [States -> Int]
      BY <2>1, <3>1
    <3> QED BY <3>2
  <2>3. PICK e \in Nat, v \in Nat :
          e = Cardinality(Entering(k, l, s)) /\ v = Cardinality(Leaving(k, l, s))
    BY TellersAreThreads, TellersAreCounted
  <2>4. n + e - v = (IF s = state[k] THEN 1 ELSE 0)
    BY <2>2, <2>3 DEF Accounts, AccountsBalance
  <2>5. CASE ~ (k = w.host /\ l = m)
    <3>1. Entering(k, l, s)' = Entering(k, l, s) /\ Leaving(k, l, s)' = Leaving(k, l, s)
      BY <1>7, <2>5
    <3>2. heard'[k][l][s] = n
      BY <1>8, <2>1, <2>2, <2>5
    <3> QED BY <1>1, <2>3, <2>4, <3>1, <3>2
  <2>6. CASE k = w.host /\ l = m
    <3>1. Cardinality(Entering(k, l, s)') = IF s = w.entered THEN e - 1 ELSE e
      <4>1. CASE s = w.entered
        BY <1>7, <2>3, <2>6, <4>1, TellersAreThreads, TellersAreCounted
      <4>2. CASE s # w.entered
        <5>1. Entering(k, l, s)' = Entering(k, l, s)
          BY <1>7, <2>6, <4>2
        <5> QED BY <2>3, <4>2, <5>1
      <4> QED BY <4>1, <4>2
    <3>2. Cardinality(Leaving(k, l, s)') = IF s = w.left THEN v - 1 ELSE v
      <4>1. CASE s = w.left
        BY <1>7, <2>3, <2>6, <4>1, TellersAreThreads, TellersAreCounted
      <4>2. CASE s # w.left
        <5>1. Leaving(k, l, s)' = Leaving(k, l, s)
          BY <1>7, <2>6, <4>2
        <5> QED BY <2>3, <4>2, <5>1
      <4> QED BY <4>1, <4>2
    <3>3. heard'[k][l][s] = n + (IF s = w.entered THEN 1 ELSE 0) - (IF s = w.left THEN 1 ELSE 0)
      BY <1>8, <2>1, <2>2, <2>6
    <3>4. state'[k] = state[k]
      BY <1>1
    <3> QED
      <4>1. CASE s = w.entered /\ s = w.left
        BY <2>4, <3>1, <3>2, <3>3, <3>4, <4>1
      <4>2. CASE s = w.entered /\ s # w.left
        BY <2>4, <3>1, <3>2, <3>3, <3>4, <4>2
      <4>3. CASE s # w.entered /\ s = w.left
        BY <2>4, <3>1, <3>2, <3>3, <3>4, <4>3
      <4>4. CASE s # w.entered /\ s # w.left
        BY <2>4, <3>1, <3>2, <3>3, <3>4, <4>4
      <4> QED BY <4>1, <4>2, <4>3, <4>4
  <2> QED BY <2>5, <2>6
<1>10. OthersHaveHeardNothing'
  <2> SUFFICES ASSUME NEW k \in Hosts \ spoiled, NEW l \in Listeners \ registered[k]
               PROVE  heard'[k][l] = Nothing[l]
    BY <1>1 DEF OthersHaveHeardNothing
  <2>1. ~ (k = w.host /\ l = m)
    BY <1>3, <1>4
  <2> QED BY <1>8, <2>1 DEF Accounts, OthersHaveHeardNothing
<1> QED BY <1>9, <1>10 DEF Accounts

\* A host that is corrupted is no longer accounted for.
LEMMA ExecutionThrowsBalances ==
  ASSUME IInv, Accounts, NEW t \in Threads, ExecutionThrows(t) PROVE Accounts'
<1>1. /\ todo[t] # <<>> /\ telling[t] = Nobody /\ registered' = registered
  BY DEF ExecutionThrows, At
<1>2. PICK h \in Hosts : h = Here(t)
  BY <1>1, HereIsAHost
<1>3. /\ state' = [state EXCEPT ![h] = "Corrupted"] /\ Announce(t, h, "", "")
      /\ spoiled' = spoiled \cup {h} /\ heard' = [heard EXCEPT ![h] = Nothing]
  BY <1>2 DEF ExecutionThrows, Enter
<1>4. DOMAIN telling = Threads /\ state \in [Hosts -> States]
      /\ heard \in [Hosts -> [Listeners -> [States -> Int]]]
  BY DEF IInv, TypeOK
<1>5. ASSUME NEW k \in Hosts \ spoiled'
      PROVE  /\ k \in Hosts \ spoiled /\ state'[k] = state[k] /\ heard'[k] = heard[k]
             /\ \A l, s : /\ Entering(k, l, s)' = Entering(k, l, s)
                          /\ Leaving(k, l, s)' = Leaving(k, l, s)
  <2>1. k # h /\ k \in Hosts \ spoiled
    BY <1>3
  <2>2. state'[k] = state[k] /\ heard'[k] = heard[k]
    BY <1>3, <1>4, <2>1
  <2>3. \A u \in Threads \ {t} : telling'[u] = telling[u]
    BY <1>3, <1>4 DEF Announce
  <2>4. telling[t].to = {}
    BY <1>1, NobodyIsTold
  <2>5. telling'[t].to = {} \/ telling'[t].host = h
    <3>1. CASE telling' = [telling EXCEPT ![t] = Nobody]
      BY <1>4, <3>1, NobodyIsTold
    <3>2. CASE telling' = [telling EXCEPT ![t] =
                 [host |-> h, left |-> "", entered |-> "", to |-> registered[h]]]
      BY <1>4, <3>2
    <3> QED BY <1>3, <3>1, <3>2 DEF Announce
  <2>6. \A l, s : Entering(k, l, s)' = Entering(k, l, s)
    BY <2>1, <2>3, <2>4, <2>5 DEF Entering
  <2>7. \A l, s : Leaving(k, l, s)' = Leaving(k, l, s)
    BY <2>1, <2>3, <2>4, <2>5 DEF Leaving
  <2> QED BY <2>1, <2>2, <2>6, <2>7
<1>6. AccountsBalance'
  BY <1>1, <1>5 DEF Accounts, AccountsBalance
<1>7. OthersHaveHeardNothing'
  BY <1>1, <1>5 DEF Accounts, OthersHaveHeardNothing
<1> QED BY <1>6, <1>7 DEF Accounts

\* Nor is a host that has erased a listener in a walk.
LEMMA ListenerFailsBalances ==
  ASSUME IInv, Accounts, NEW t \in Threads, ListenerFails(t) PROVE Accounts'
<1> DEFINE h == telling[t].host
           l == Min(telling[t].to)
           others == registered[h] \ {l}
<1>1. PICK next :
        /\ next \subseteq others
        /\ h = telling[t].host /\ others = registered[h] \ {l}
        /\ registered' = [registered EXCEPT ![h] = others]
        /\ telling' = [u \in Threads |->
              IF u = t THEN Remaining(telling[t], next)
              ELSE IF telling[u].host = h THEN Remaining(telling[u], telling[u].to \ {l})
                   ELSE telling[u]]
        /\ heard' = [heard EXCEPT ![h] = Nothing] /\ spoiled' = spoiled \cup {h}
        /\ state' = state
  BY Zenon DEF ListenerFails
<1> HIDE DEF h, l, others
<1>2. /\ registered \in [Hosts -> SUBSET Listeners]
      /\ heard \in [Hosts -> [Listeners -> [States -> Int]]]
  BY DEF IInv, TypeOK
<1>3. ASSUME NEW k \in Hosts \ spoiled'
      PROVE  /\ k \in Hosts \ spoiled /\ registered'[k] = registered[k] /\ heard'[k] = heard[k]
             /\ \A m, s : /\ Entering(k, m, s)' = Entering(k, m, s)
                          /\ Leaving(k, m, s)' = Leaving(k, m, s)
  <2>1. k # h /\ k \in Hosts \ spoiled
    BY <1>1
  <2>2. registered'[k] = registered[k] /\ heard'[k] = heard[k]
    BY <1>1, <1>2, <2>1
  <2>3. ASSUME NEW u \in Threads
        PROVE  \/ telling'[u] = telling[u]
               \/ /\ telling[u].host = h
                  /\ telling'[u].to = {} \/ telling'[u].host = h
    <3>1. CASE u # t /\ telling[u].host # h
      BY <1>1, <3>1
    <3>2. CASE u = t \/ telling[u].host = h
      <4>1. telling[u].host = h
        BY <1>1, <3>2
      <4>2. PICK to : telling'[u] = Remaining(telling[u], to)
        BY <1>1, <3>2
      <4>3. telling'[u].to = to /\ (to # {} => telling'[u].host = telling[u].host)
        BY <4>2, RestOfWalk
      <4> QED BY <4>1, <4>3
    <3> QED BY <3>1, <3>2
  <2>4. \A m, s : Entering(k, m, s)' = Entering(k, m, s)
    BY <2>1, <2>3 DEF Entering
  <2>5. \A m, s : Leaving(k, m, s)' = Leaving(k, m, s)
    BY <2>1, <2>3 DEF Leaving
  <2> QED BY <2>1, <2>2, <2>4, <2>5
<1>4. AccountsBalance'
  BY <1>1, <1>3 DEF Accounts, AccountsBalance
<1>5. OthersHaveHeardNothing'
  BY <1>3 DEF Accounts, OthersHaveHeardNothing
<1> QED BY <1>4, <1>5 DEF Accounts

LEMMA RemoveHostsBalances ==
  ASSUME IInv, Accounts, NEW removed, RemoveHosts(removed) PROVE Accounts'
<1>1. /\ registered' = [h \in Hosts |-> IF h \in removed THEN {} ELSE registered[h]]
      /\ heard' = [h \in Hosts |-> IF h \in removed THEN Nothing ELSE heard[h]]
      /\ UNCHANGED <<state, telling, spoiled>>
  BY DEF RemoveHosts
<1>2. \A k, l, s : /\ Entering(k, l, s)' = Entering(k, l, s)
                   /\ Leaving(k, l, s)' = Leaving(k, l, s)
  BY <1>1 DEF Entering, Leaving
<1>3. AccountsBalance'
  <2> SUFFICES ASSUME NEW k \in Hosts \ spoiled, NEW l \in registered'[k], NEW s \in States
               PROVE  (heard[k][l][s] + Cardinality(Entering(k, l, s)) - Cardinality(Leaving(k, l, s))
                        = (IF s = state[k] THEN 1 ELSE 0))'
    BY <1>1 DEF AccountsBalance
  <2>1. k \notin removed /\ registered'[k] = registered[k] /\ heard'[k] = heard[k]
    BY <1>1
  <2> QED BY <1>1, <1>2, <2>1 DEF Accounts, AccountsBalance
<1>4. OthersHaveHeardNothing'
  <2> SUFFICES ASSUME NEW k \in Hosts \ spoiled, NEW l \in Listeners \ registered'[k]
               PROVE  heard'[k][l] = Nothing[l]
    BY <1>1 DEF OthersHaveHeardNothing
  <2>1. CASE k \in removed
    BY <1>1, <2>1
  <2>2. CASE k \notin removed
    BY <1>1, <2>2 DEF Accounts, OthersHaveHeardNothing
  <2> QED BY <2>1, <2>2
<1> QED BY <1>3, <1>4 DEF Accounts

\* A new listener is told nothing, and nobody is in the middle of telling.
LEMMA AddEventListenerBalances ==
  ASSUME IInv, Accounts, NEW h \in Hosts, NEW m \in Listeners, AddEventListener(h, m)
  PROVE  Accounts'
<1>1. /\ m \notin registered[h]
      /\ registered' = [registered EXCEPT ![h] = @ \cup {m}]
      /\ UNCHANGED <<state, telling, spoiled>>
  BY DEF AddEventListener
<1>2. /\ registered \in [Hosts -> SUBSET Listeners]
      /\ heard \in [Hosts -> [Listeners -> [States -> Int]]]
      /\ state \in [Hosts -> States]
      /\ \A u \in Threads : telling[u].to \subseteq registered[telling[u].host]
  BY DEF IInv, TypeOK
<1>3. /\ registered'[h] = registered[h] \cup {m}
      /\ \A k \in Hosts \ {h} : registered'[k] = registered[k]
  BY <1>1, <1>2
<1>4. \A k, l, s : /\ Entering(k, l, s)' = Entering(k, l, s)
                   /\ Leaving(k, l, s)' = Leaving(k, l, s)
  BY <1>1 DEF Entering, Leaving
<1>5. \A s : Entering(h, m, s) = {} /\ Leaving(h, m, s) = {}
  BY <1>1, <1>2 DEF Entering, Leaving
<1>6. ASSUME NEW k \in Hosts \ spoiled, NEW l \in Listeners
      PROVE  IF k = h /\ l = m
             THEN heard'[k][l] = [s \in States |-> IF s = state[h] THEN 1 ELSE 0]
             ELSE heard'[k][l] = heard[k][l]
  <2>1. CASE h \in spoiled
    <3>1. heard' = heard
      BY <2>1 DEF AddEventListener
    <3> QED BY <2>1, <3>1
  <2>2. CASE h \notin spoiled
    <3>1. PICK before \in [States -> Int], s \in States : before = heard[h][m] /\ s = state[h]
      <4>1. heard[h] \in [Listeners -> [States -> Int]]
        BY <1>2
      <4>2. heard[h][m] \in [States -> Int]
        BY <4>1
      <4> QED BY <1>2, <4>2
    <3>2. heard' = [heard EXCEPT ![h] = [heard[h] EXCEPT ![m] = [before EXCEPT ![s] = 1]]]
      BY <2>2, <3>1 DEF AddEventListener
    <3>3. before = [x \in States |-> 0]
      BY <1>1, <2>2, <3>1 DEF Accounts, OthersHaveHeardNothing, Nothing
    <3>4. PICK after : after = [before EXCEPT ![s] = 1]
      OBVIOUS
    <3>5. after = [x \in States |-> IF x = s THEN 1 ELSE 0]
      BY <3>3, <3>4
    <3>6. heard[h] \in [Listeners -> [States -> Int]]
      BY <1>2
    <3>7. heard' = [heard EXCEPT ![h] = [heard[h] EXCEPT ![m] = after]]
      BY <3>2, <3>4
    <3>8. heard'[h] = [heard[h] EXCEPT ![m] = after] /\ \A x \in Hosts \ {h} : heard'[x] = heard[x]
      BY <1>2, <3>7
    <3>9. heard'[h][m] = after /\ \A x \in Listeners \ {m} : heard'[h][x] = heard[h][x]
      BY <3>6, <3>8
    <3> QED BY <3>1, <3>5, <3>8, <3>9
  <2> QED BY <2>1, <2>2
<1>7. AccountsBalance'
  <2> SUFFICES ASSUME NEW k \in Hosts \ spoiled, NEW l \in registered'[k], NEW s \in States
               PROVE  (heard[k][l][s] + Cardinality(Entering(k, l, s)) - Cardinality(Leaving(k, l, s))
                        = (IF s = state[k] THEN 1 ELSE 0))'
    BY <1>1 DEF AccountsBalance
  <2>1. l \in Listeners
    BY <1>2, <1>3
  <2>2. CASE k = h /\ l = m
    <3>1. Cardinality(Entering(k, l, s)') = 0 /\ Cardinality(Leaving(k, l, s)') = 0
      BY <1>4, <1>5, <2>2, FS_EmptySet
    <3>2. heard'[k][l][s] = IF s = state'[k] THEN 1 ELSE 0
      BY <1>1, <1>6, <2>1, <2>2
    <3> QED BY <3>1, <3>2
  <2>3. CASE ~ (k = h /\ l = m)
    <3>1. l \in registered[k] /\ heard'[k][l] = heard[k][l]
      BY <1>3, <1>6, <2>1, <2>3
    <3> QED BY <1>1, <1>4, <3>1 DEF Accounts, AccountsBalance
  <2> QED BY <2>2, <2>3
<1>8. OthersHaveHeardNothing'
  <2> SUFFICES ASSUME NEW k \in Hosts \ spoiled, NEW l \in Listeners \ registered'[k]
               PROVE  heard'[k][l] = Nothing[l]
    BY <1>1 DEF OthersHaveHeardNothing
  <2>1. ~ (k = h /\ l = m) /\ l \notin registered[k]
    BY <1>3
  <2> QED BY <1>6, <2>1 DEF Accounts, OthersHaveHeardNothing
<1> QED BY <1>7, <1>8 DEF Accounts

LEMMA RemoveEventListenerBalances ==
  ASSUME IInv, Accounts, NEW h \in Hosts, NEW m \in Listeners, RemoveEventListener(h, m)
  PROVE  Accounts'
<1>1. /\ registered' = [registered EXCEPT ![h] = @ \ {m}]
      /\ heard' = [heard EXCEPT ![h] = [heard[h] EXCEPT ![m] = Nothing[m]]]
      /\ UNCHANGED <<state, telling, spoiled>>
  BY DEF RemoveEventListener
<1>2. /\ registered \in [Hosts -> SUBSET Listeners]
      /\ heard \in [Hosts -> [Listeners -> [States -> Int]]]
  BY DEF IInv, TypeOK
<1>3. /\ registered'[h] = registered[h] \ {m}
      /\ \A k \in Hosts \ {h} : registered'[k] = registered[k]
  BY <1>1, <1>2
<1>4. \A k, l, s : /\ Entering(k, l, s)' = Entering(k, l, s)
                   /\ Leaving(k, l, s)' = Leaving(k, l, s)
  BY <1>1 DEF Entering, Leaving
<1>5. /\ heard'[h] = [heard[h] EXCEPT ![m] = Nothing[m]]
      /\ \A k \in Hosts \ {h} : heard'[k] = heard[k]
  BY <1>1, <1>2
<1>6. heard'[h][m] = Nothing[m] /\ \A l \in Listeners \ {m} : heard'[h][l] = heard[h][l]
  <2>1. heard[h] \in [Listeners -> [States -> Int]]
    BY <1>2
  <2> QED BY <1>5, <2>1
<1>7. AccountsBalance'
  <2> SUFFICES ASSUME NEW k \in Hosts \ spoiled, NEW l \in registered'[k], NEW s \in States
               PROVE  (heard[k][l][s] + Cardinality(Entering(k, l, s)) - Cardinality(Leaving(k, l, s))
                        = (IF s = state[k] THEN 1 ELSE 0))'
    BY <1>1 DEF AccountsBalance
  <2>1. l \in registered[k] /\ heard'[k][l] = heard[k][l]
    BY <1>2, <1>3, <1>5, <1>6
  <2> QED BY <1>1, <1>4, <2>1 DEF Accounts, AccountsBalance
<1>8. OthersHaveHeardNothing'
  <2> SUFFICES ASSUME NEW k \in Hosts \ spoiled, NEW l \in Listeners \ registered'[k]
               PROVE  heard'[k][l] = Nothing[l]
    BY <1>1 DEF OthersHaveHeardNothing
  <2>1. CASE k = h /\ l = m
    BY <1>6, <2>1
  <2>2. CASE ~ (k = h /\ l = m)
    <3>1. l \notin registered[k] /\ heard'[k][l] = heard[k][l]
      BY <1>3, <1>5, <1>6, <2>2
    <3> QED BY <3>1 DEF Accounts, OthersHaveHeardNothing
  <2> QED BY <2>1, <2>2
<1> QED BY <1>7, <1>8 DEF Accounts

\* Every change of a host's state is told to each of its listeners once, however
\* many threads tell at a time, unless the host has been corrupted or has erased
\* a listener in a walk: what is heard and what is still to be heard add up to
\* the state, so that when nobody is being told, what has been heard does.
THEOREM EachChangeIsHeardOnce == Spec => []ListenersHearEachChangeOnce
<1>1. Init => Accounts
  <2> SUFFICES ASSUME Init PROVE Accounts
    OBVIOUS
  <2>1. AccountsBalance
    BY DEF Init, AccountsBalance
  <2>2. OthersHaveHeardNothing
    BY DEF Init, OthersHaveHeardNothing
  <2> QED BY <2>1, <2>2 DEF Accounts
<1>2. IInv /\ Accounts /\ [Next]_vars => Accounts'
  <2> SUFFICES ASSUME IInv, Accounts, [Next]_vars PROVE Accounts'
    OBVIOUS
  <2>1. ASSUME NEW t \in Threads, Step(t) PROVE Accounts'
    <3>1. CASE \/ Check(t) \/ CheckEither(t) \/ Configure(t) \/ Detach(t)
               \/ EndExecution(t) \/ Read(t)
      <4>1. UNCHANGED <<state, registered, telling, heard, spoiled>>
        BY <3>1 DEF Check, CheckEither, Configure, Detach, EndExecution, Read, history
      <4> QED BY <4>1, AccountsStay
    <3> QED BY <2>1, <3>1, SetStateBalances, TellBalances, ListenerFailsBalances,
               ExecutionThrowsBalances DEF Step
  <2>2. CASE \/ AddHost
             \/ \E h \in Hosts, method \in HostCalls : CallHost(method, h)
             \/ \E method \in MethodsOfAll : CallAllHosts(method)
             \/ RunHostsOnCurrentThread
             \/ Wait
             \/ UNCHANGED vars
    <3>1. UNCHANGED <<state, registered, telling, heard, spoiled>>
      BY <2>2 DEF AddHost, CallHost, CallAllHosts, RunHostsOnCurrentThread, Wait, history, vars
    <3> QED BY <3>1, AccountsStay
  <2> QED BY <2>1, <2>2, RemoveHostsBalances, AddEventListenerBalances,
             RemoveEventListenerBalances DEF Next
<1>3. IInv /\ Accounts => ListenersHearEachChangeOnce
  <2> SUFFICES ASSUME IInv, Accounts, NEW h \in Hosts \ spoiled, NobodyTells(h),
                      NEW l \in registered[h], NEW s \in States
               PROVE  heard[h][l][s] = (IF s = state[h] THEN 1 ELSE 0)
    BY DEF ListenersHearEachChangeOnce
  <2>1. Entering(h, l, s) = {} /\ Leaving(h, l, s) = {}
    <3>1. \A t \in Threads : telling[t].host = h => telling[t].to = {}
      BY NobodyIsTold DEF NobodyTells
    <3> QED BY <3>1 DEF Entering, Leaving
  <2>2. Cardinality(Entering(h, l, s)) = 0 /\ Cardinality(Leaving(h, l, s)) = 0
    BY <2>1, FS_EmptySet
  <2>3. PICK n \in Int : n = heard[h][l][s]
    <3>1. /\ registered \in [Hosts -> SUBSET Listeners]
          /\ heard \in [Hosts -> [Listeners -> [States -> Int]]]
      BY DEF IInv, TypeOK
    <3>2. l \in Listeners
      BY <3>1
    <3>3. heard[h] \in [Listeners -> [States -> Int]]
      BY <3>1
    <3>4. heard[h][l] \in [States -> Int]
      BY <3>2, <3>3
    <3> QED BY <3>4
  <2>4. n + Cardinality(Entering(h, l, s)) - Cardinality(Leaving(h, l, s))
          = (IF s = state[h] THEN 1 ELSE 0)
    BY <2>3 DEF Accounts, AccountsBalance
  <2> QED BY <2>2, <2>3, <2>4
<1> QED BY <1>1, <1>2, <1>3, Invariance, PTL DEF Spec
=============================================================================
