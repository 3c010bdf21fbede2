------------------------------ MODULE Lifetimes ------------------------------
(***************************************************************************)
(* What refers to an accessor, and whether the accessor outlives it.       *)
(* Accessors are created and destroyed while the model runs               *)
(* (CompositeAccessorImpl.cpp), and three parts of the framework keep raw  *)
(* pointers to them: the director's callbacks capture their owner          *)
(* (AccessorImpl.cpp, Director.cpp), ports point to the ports they are     *)
(* connected to (Port.cpp), and a composite queues the children that have  *)
(* to react.  A destructor has to take all of them back.                   *)
(*                                                                         *)
(* The behaviours begin after Setup with an empty host.  Callbacks run in  *)
(* any order: nothing below depends on the order that the modules          *)
(* CallbackQueue and Priorities model.  What an initialize function, an    *)
(* input handler or Fire calls is what their accessor may call between     *)
(* two callbacks; what they throw is modelled where they are called.       *)
(*                                                                         *)
(* A behaviour ends where the code's own is undefined or never ends: a     *)
(* port or a reaction queue that points to something destroyed is used, a  *)
(* port that is connected twice to one destination is destroyed, or the    *)
(* callback that runs ends after its id has been given to another one.     *)
(***************************************************************************)
EXTENDS Naturals, FiniteSets

CONSTANTS
    Host,           \* the host, root of the model
    Composites,     \* the composite accessors that may exist, the host included
    Atomics,        \* the atomic accessors that may exist
    Container,      \* Container[a]: the composite to which a is added
    InputPorts,
    OutputPorts,
    Owner,          \* Owner[p]: the accessor that has port p
    Wires,          \* the pairs <<source, destination>> that may be connected
    NoPort,
    CodeCallbacks,  \* bound: the pairs <<accessor, kind>> that accessors schedule
    Outputs,        \* bound: the output ports that accessors send data to
    MaxId           \* bound: callback ids are below it

Accessors == Composites \cup Atomics
Ports == InputPorts \cup OutputPorts
Ids == 0 .. (MaxId - 1)

\* Each accessor with every accessor that is, directly or not, contained in it.
Subtree == [a \in Accessors |->
    {b \in Accessors :
        \A S \in SUBSET Accessors :
            (a \in S /\ \A x \in Accessors \ {Host} : Container[x] \in S => x \in S) => b \in S}]

ASSUME TreeAssumption ==
    /\ Host \in Composites
    /\ Composites \cap Atomics = {}
    /\ Container \in [Accessors \ {Host} -> Composites]
    /\ \A a \in Accessors \ {Host} : Container[a] \notin Subtree[a]

ASSUME PortsAssumption ==
    /\ InputPorts \cap OutputPorts = {}
    /\ NoPort \notin Ports
    /\ Owner \in [Ports -> Accessors \ {Host}]   \* hosts are not allowed to have ports
    /\ Wires \subseteq Ports \X Ports

ASSUME BoundsAssumption ==
    /\ MaxId \in Nat
    /\ CodeCallbacks \subseteq Accessors \X {"once", "periodic"}
    /\ Outputs \subseteq OutputPorts

VARIABLES
    alive,              \* the accessors that exist
    initialized,        \* m_initialized
    source,             \* m_source of each port, NoPort for nullptr
    destinations,       \* m_destinations of each port, as a set of ports that exist
    repeated,           \* the pairs <<p, d>> with d more than once in p's m_destinations
    danglingPorts,      \* the ports with a destroyed port in their m_destinations
    queue,              \* m_callbackQueue, as a set
    callbacks,          \* m_scheduledCallbacks
    nextCallbackId,     \* m_nextCallbackId
    current,            \* the callback of an accessor that runs: none or one
    callbackIds,        \* m_callbackIds of each accessor
    childEventQueue,    \* m_childEventQueue of each composite, as a set of children that exist
    danglingQueues,     \* the composites with a destroyed child in their m_childEventQueue
    reactionRequested,  \* m_reactionRequested of the host
    announced,          \* history: the children of the host that ChildrenChanged announced
    lost,               \* history: the framework's callbacks that went before they were done
    staleIds,           \* history: the ids in m_callbackIds that have outlived a Reset
    doubled             \* history: the ports that have been connected twice to one destination

wiring == <<source, destinations, repeated, danglingPorts, doubled>>
director == <<queue, callbacks, nextCallbackId, lost, staleIds>>
reactions == <<childEventQueue, danglingQueues, reactionRequested>>
vars == <<alive, initialized, wiring, director, current, callbackIds, reactions, announced>>

Kinds == {"once", "periodic", "output", "update", "react"}
Callback == [owner : Accessors, kind : Kinds, port : OutputPorts \cup {NoPort}]

Code(a, kind) == [owner |-> a, kind |-> kind, port |-> NoPort]
Output(p) == [owner |-> Owner[p], kind |-> "output", port |-> p]
Update == Code(Host, "update")
React == Code(Host, "react")

Scheduled == {callbacks[id] : id \in DOMAIN callbacks}

\* Who may call the framework: everybody between two callbacks, and during a
\* callback the accessor whose code it is.
Acting == {a \in alive : \A c \in current : c.owner = a}

ChildrenOf(c) == {x \in alive \ {Host} : Container[x] = c}

Init ==
    /\ alive = {Host}
    /\ initialized = {Host}
    /\ source = [p \in Ports |-> NoPort]
    /\ destinations = [p \in Ports |-> {}]
    /\ repeated = {}
    /\ danglingPorts = {}
    /\ queue = {}
    /\ callbacks = [id \in {} |-> React]
    /\ nextCallbackId = 0
    /\ current = {}
    /\ callbackIds = [a \in Accessors |-> {}]
    /\ childEventQueue = [c \in Composites |-> {}]
    /\ danglingQueues = {}
    /\ reactionRequested = FALSE
    /\ announced = {}
    /\ lost = {}
    /\ staleIds = [a \in Accessors |-> {}]
    /\ doubled = {}

-----------------------------------------------------------------------------
(* Director::ScheduleCallback, ClearScheduledCallback, NeedsReset, Reset.   *)

Schedule(callback) ==
    /\ nextCallbackId < MaxId
    /\ callbacks' = [id \in DOMAIN callbacks \cup {nextCallbackId} |->
                        IF id = nextCallbackId THEN callback ELSE callbacks[id]]
    /\ queue' = queue \cup {nextCallbackId}
    /\ nextCallbackId' = nextCallbackId + 1

\* What is left of the callbacks without those in ids.
Without(ids) == [id \in DOMAIN callbacks \ ids |-> callbacks[id]]

\* A callback that runs goes with the others, and every id that an accessor
\* still has is about to be given again.
Reset ==
    /\ queue' = {}
    /\ callbacks' = Without(Ids)
    /\ nextCallbackId' = 0
    /\ staleIds' = callbackIds'

\* ClearScheduledCallback of every id in ids, one after the other: the last
\* one resets the director when it leaves the queue empty, even in a callback.
Clear(ids) ==
    /\ lost' = lost \cup
           ({"update", "react"} \cap {callbacks[id].kind : id \in ids \cap DOMAIN callbacks})
    /\ IF ids # {} /\ queue \subseteq ids
       THEN Reset
       ELSE /\ queue' = queue \ ids
            /\ callbacks' = Without(ids)
            /\ staleIds' = [a \in Accessors |-> staleIds[a] \cap callbackIds'[a]]
            /\ UNCHANGED nextCallbackId

-----------------------------------------------------------------------------
(* Accessor::ScheduleCallback, SendOutput and the two ways to clear.        *)

ScheduleFor(callback) ==
    /\ Schedule(callback)
    /\ callbackIds' = [callbackIds EXCEPT ![callback.owner] = @ \cup {nextCallbackId}]
    /\ staleIds' = [staleIds EXCEPT ![callback.owner] = @ \ {nextCallbackId}]

ScheduleCallback(a, kind) ==
    /\ a \in Acting
    /\ ScheduleFor(Code(a, kind))
    /\ UNCHANGED <<lost, alive, initialized, wiring, current, reactions, announced>>

\* Mutant: the output goes to the director without its id being recorded.
SendOutputUnrecorded(p) ==
    /\ Owner[p] \in Acting
    /\ Owner[p] \in initialized
    /\ Schedule(Output(p))
    /\ UNCHANGED <<lost, staleIds, alive, initialized, wiring, current, callbackIds, reactions, announced>>

SendOutput(p) ==
    /\ Owner[p] \in Acting
    /\ Owner[p] \in initialized
    /\ ScheduleFor(Output(p))
    /\ UNCHANGED <<lost, alive, initialized, wiring, current, reactions, announced>>

\* An accessor clears a callback of its own that it knows to be scheduled.
ClearScheduledCallback(a, id) ==
    /\ a \in Acting
    /\ id \in DOMAIN callbacks
    /\ callbacks[id] \in {Code(a, "once"), Code(a, "periodic")}
    /\ callbackIds' = [callbackIds EXCEPT ![a] = @ \ {id}]
    /\ Clear({id})
    /\ UNCHANGED <<alive, initialized, wiring, current, reactions, announced>>

\* The host's updates are among its callbacks.
ClearAllScheduledCallbacks(a) ==
    /\ a \in Acting
    /\ callbackIds[a] # {}
    /\ callbackIds' = [callbackIds EXCEPT ![a] = {}]
    /\ Clear(callbackIds[a])
    /\ UNCHANGED <<alive, initialized, wiring, current, reactions, announced>>

-----------------------------------------------------------------------------
(* Port::Connect and Port::DisconnectAll.                                   *)

\* ValidateConnection accepts a pair that is connected already: the source
\* then has the destination twice.
Connect(s, d) ==
    /\ {Owner[s], Owner[d]} \subseteq alive
    /\ \E a \in Acting : {Owner[s], Owner[d]} \subseteq {a} \cup ChildrenOf(a)
    /\ source[d] \in {NoPort, s}
    /\ source' = [source EXCEPT ![d] = s]
    /\ destinations' = [destinations EXCEPT ![s] = @ \cup {d}]
    /\ IF d \in destinations[s]
       THEN repeated' = repeated \cup {<<s, d>>} /\ doubled' = doubled \cup {s}
       ELSE UNCHANGED <<repeated, doubled>>
    /\ UNCHANGED <<alive, initialized, danglingPorts, director, current, callbackIds,
                   reactions, announced>>

\* DisconnectAll follows every destination, and leaves one that is there twice
\* where it is once its m_source is gone: it then never ends.
CanDisconnect(p) == p \notin danglingPorts /\ \A w \in repeated : w[1] # p

\* Disconnect takes one of two equal destinations out of a port that stays.
LeaveTheRepeated(dying) ==
    LET left == {w \in repeated : w[2] \in dying}
    IN  /\ repeated' = repeated \ left
        /\ danglingPorts' = danglingPorts \cup {w[1] : w \in left}
        /\ doubled' = doubled \ dying

\* Mutant: only the connections to destinations are taken back.
DisconnectDestinations(dying) ==
    /\ \A p \in dying : CanDisconnect(p)
    /\ source' = [p \in Ports |->
                     IF p \in dying \/ (source[p] \in dying /\ p \in destinations[source[p]])
                     THEN NoPort ELSE source[p]]
    /\ destinations' = [p \in Ports |-> IF p \in dying THEN {} ELSE destinations[p]]
    /\ LeaveTheRepeated(dying)

\* DisconnectAll of every port in dying: from its source, and from those of
\* its destinations that have it as their source.
DisconnectAll(dying) ==
    /\ \A p \in dying : CanDisconnect(p)
    /\ source' = [p \in Ports |->
                     IF p \in dying \/ (source[p] \in dying /\ p \in destinations[source[p]])
                     THEN NoPort ELSE source[p]]
    /\ destinations' = [p \in Ports |->
                           IF p \in dying THEN {}
                           ELSE destinations[p] \ {d \in dying : source[d] = p}]
    /\ LeaveTheRepeated(dying)

-----------------------------------------------------------------------------
(* CompositeAccessor::AddChild, RemoveChild and ChildrenChanged.            *)

AddChild(x) ==
    /\ x \notin alive
    /\ Container[x] \in Acting
    /\ alive' = alive \cup {x}
    /\ UNCHANGED <<initialized, wiring, director, current, callbackIds, reactions, announced>>

\* The destructors of the children and of all they contain.  Nobody takes a
\* child out of the reaction queue of its container.
Destroy(children) ==
    LET dead == alive \cap UNION {Subtree[x] : x \in children}
    IN  /\ callbackIds' = [a \in Accessors |-> IF a \in dead THEN {} ELSE callbackIds[a]]
        /\ Clear(UNION {callbackIds[a] : a \in dead})
        /\ DisconnectAll({p \in Ports : Owner[p] \in dead})
        /\ childEventQueue' = [c \in Composites |->
                                  IF c \in dead THEN {} ELSE childEventQueue[c] \ dead]
        /\ danglingQueues' =
               (danglingQueues \cup {c \in Composites : childEventQueue[c] \cap dead # {}}) \ dead
        /\ alive' = alive \ dead
        /\ initialized' = initialized \ dead
        /\ announced' = announced \ dead
        /\ UNCHANGED <<current, reactionRequested>>

RemoveChild(x) ==
    /\ x \in alive \ {Host}
    /\ Container[x] \in Acting
    /\ Destroy({x})

RemoveAllChildren(c) ==
    /\ c \in Acting \cap Composites
    /\ ChildrenOf(c) # {}
    /\ Destroy(ChildrenOf(c))

\* The children of the composites in cs that need to be initialized.
New(cs) == {x \in alive \ (initialized \cup {Host}) : Container[x] \in cs}

\* Initialize of those, and of everything they contain.
Initialized(cs) ==
    initialized \cup {a \in alive : \E x \in New(cs) : a \in Subtree[x]}

\* The same, with an initialize function that may throw: those that come
\* after it are left out, and a container comes before what it contains.
PartlyInitialized(cs) ==
    {done \in SUBSET Initialized(cs) :
        /\ initialized \subseteq done
        /\ \A a \in done \ initialized :
               \E x \in New(cs) : a \in Subtree[x] /\ {b \in Subtree[x] : a \in Subtree[b]} \subseteq done}

\* The composites on the way to the host initialize their new children at
\* once; the host's are left to a callback.
ChildrenChanged(c) ==
    /\ c \in Acting \cap Composites
    /\ ScheduleFor(Update)
    /\ lost' = lost \ {"update"}
    /\ initialized' \in PartlyInitialized({b \in alive \ {Host} : c \in Subtree[b]})
    /\ announced' = announced \cup ChildrenOf(Host)
    /\ UNCHANGED <<alive, wiring, current, reactions>>

-----------------------------------------------------------------------------
(* The director runs a callback.                                            *)

\* The accessor's own code: it may call the framework until it returns.
RunCode(id) ==
    /\ current = {}
    /\ id \in queue
    /\ callbacks[id].kind \in {"once", "periodic"}
    /\ queue' = queue \ {id}
    /\ current' = {[id |-> id, owner |-> callbacks[id].owner]}
    /\ UNCHANGED <<alive, initialized, wiring, callbacks, nextCallbackId, lost, staleIds,
                   callbackIds, reactions, announced>>

\* After a Reset the id of the callback that runs can be given again.  When
\* it ends, the director takes the new callback for it: the queue then has an
\* id twice or one without a callback (module Director).
KeepsItsId(c) == c.id \notin queue

\* Mutant: a periodic callback is queued again although it has cleared itself.
ReturnRequeues ==
    \E c \in current :
        /\ KeepsItsId(c)
        /\ current' = {}
        /\ queue' = queue \cup {c.id}
        /\ UNCHANGED <<alive, initialized, wiring, callbacks, nextCallbackId, lost, staleIds,
                       callbackIds, reactions, announced>>

Return ==
    \E c \in current :
        /\ KeepsItsId(c)
        /\ current' = {}
        /\ IF c.id \in DOMAIN callbacks /\ callbacks[c.id].kind = "periodic"
           THEN queue' = queue \cup {c.id} /\ UNCHANGED callbacks
           ELSE callbacks' = Without({c.id}) /\ UNCHANGED queue
        /\ UNCHANGED <<alive, initialized, wiring, nextCallbackId, lost, staleIds,
                       callbackIds, reactions, announced>>

\* A callback that throws is removed, periodic or not.
Throw ==
    \E c \in current :
        /\ KeepsItsId(c)
        /\ current' = {}
        /\ callbacks' = Without({c.id})
        /\ UNCHANGED <<alive, initialized, wiring, queue, nextCallbackId, lost, staleIds,
                       callbackIds, reactions, announced>>

\* The ports that data sent by p reaches: a port whose owner is not
\* initialized drops it, every other one passes it on.
Reached(p) ==
    {q \in Ports :
        \A S \in SUBSET Ports :
            (\A d \in Ports :
                (source[d] = p \/ (source[d] \in S /\ Owner[source[d]] \in initialized)) => d \in S)
            => q \in S}

\* The framework's own callbacks run from start to end: what they call of an
\* accessor's code is the accessor's to do between two callbacks.
RunInternal(id, kind) ==
    /\ current = {}
    /\ id \in queue
    /\ callbacks[id].kind = kind

\* Mutant: the last id is free again when its callback has run.
FinishAndReuse(id) ==
    /\ queue' = queue \ {id}
    /\ callbacks' = Without({id})
    /\ nextCallbackId' = IF id = nextCallbackId - 1 THEN id ELSE nextCallbackId
    /\ UNCHANGED staleIds

Finish(id) ==
    /\ queue' = queue \ {id}
    /\ callbacks' = Without({id})
    /\ UNCHANGED <<nextCallbackId, staleIds>>

\* Every atomic accessor that receives data is queued by its container, and
\* each composite by the one that contains it; the host schedules a callback
\* unless it has done so already.  A port whose last input is still waiting
\* alerts nobody: its owner is queued then, unless a reaction threw.
RunOutput(id) ==
    LET port == callbacks[id].port
        received == Reached(port)
        receivers == {Owner[q] : q \in received \cap InputPorts} \cap Atomics \cap initialized
    IN  /\ RunInternal(id, "output")
        /\ danglingPorts \cap ({port} \cup {q \in received : Owner[q] \in initialized}) = {}
        /\ \E alerted \in SUBSET receivers :
              LET queued == {a \in alive \ {Host} : \E r \in alerted : r \in Subtree[a]}
              IN  /\ alerted = receivers \/ "react" \in lost
                  /\ \A a \in queued : Container[a] \notin danglingQueues
                  /\ childEventQueue' = [c \in Composites |->
                                            childEventQueue[c] \cup {a \in queued : Container[a] = c}]
                  /\ IF alerted # {} /\ ~reactionRequested
                     THEN /\ nextCallbackId < MaxId
                          /\ reactionRequested' = TRUE
                          /\ callbacks' = [i \in (DOMAIN callbacks \ {id}) \cup {nextCallbackId} |->
                                              IF i = nextCallbackId THEN React ELSE callbacks[i]]
                          /\ queue' = (queue \ {id}) \cup {nextCallbackId}
                          /\ nextCallbackId' = nextCallbackId + 1
                          /\ UNCHANGED staleIds
                     ELSE Finish(id) /\ UNCHANGED reactionRequested
        /\ UNCHANGED <<alive, initialized, wiring, current, callbackIds, danglingQueues, lost, announced>>

\* Mutant: the update of the model initializes nothing.
RunUpdateOnlyPriorities(id) ==
    /\ RunInternal(id, "update")
    /\ Finish(id)
    /\ lost' = lost \ {"update"}
    /\ UNCHANGED <<alive, initialized, wiring, current, callbackIds, reactions, announced>>

RunUpdate(id) ==
    /\ RunInternal(id, "update")
    /\ initialized' = Initialized({Host})
    /\ Finish(id)
    /\ lost' = lost \ {"update"}
    /\ UNCHANGED <<alive, wiring, current, callbackIds, reactions, announced>>

\* ComputeAccessorPriorities finds a causality loop, or an initialize
\* function throws: the callback is removed all the same.
ThrowFromUpdate(id) ==
    /\ RunInternal(id, "update")
    /\ initialized' \in PartlyInitialized({Host})
    /\ Finish(id)
    /\ lost' = lost \cup {"update"}
    /\ UNCHANGED <<alive, wiring, current, callbackIds, reactions, announced>>

\* Mutant: the request for a reaction is not reset.
RunReactOnce(id) ==
    /\ RunInternal(id, "react")
    /\ danglingQueues = {}
    /\ childEventQueue' = [c \in Composites |-> {}]
    /\ Finish(id)
    /\ UNCHANGED <<alive, initialized, wiring, current, callbackIds, danglingQueues,
                   reactionRequested, lost, announced>>

\* Every queued child is taken out, from the host's queue and from those of
\* the composites in it.
RunReact(id) ==
    /\ RunInternal(id, "react")
    /\ danglingQueues = {}
    /\ childEventQueue' = [c \in Composites |-> {}]
    /\ reactionRequested' = FALSE
    /\ Finish(id)
    /\ UNCHANGED <<alive, initialized, wiring, current, callbackIds, danglingQueues, lost, announced>>

\* The reaction of x throws: those taken out before it are gone with it, the
\* others stay queued, and the request is not reset.
ThrowFromReact(id) ==
    /\ RunInternal(id, "react")
    /\ \E taken \in SUBSET UNION {childEventQueue[c] : c \in Composites} : \E x \in taken \cap Atomics :
          /\ \A a \in taken : Container[a] \in taken \cup {Host}
          /\ \A c \in taken \cap Composites : x \notin Subtree[c] => childEventQueue[c] \subseteq taken
          /\ danglingQueues \cap (taken \cup {Host}) = {}
          /\ childEventQueue' = [c \in Composites |-> childEventQueue[c] \ taken]
    /\ Finish(id)
    /\ lost' = lost \cup {"react"}
    /\ UNCHANGED <<alive, initialized, wiring, current, callbackIds, danglingQueues,
                   reactionRequested, announced>>

\* A round that leaves no callback resets the director (ExecuteInternal).
RoundEndsEmpty ==
    /\ current = {}
    /\ queue = {}
    /\ nextCallbackId > 0
    /\ UNCHANGED callbackIds
    /\ Reset
    /\ UNCHANGED <<alive, initialized, wiring, lost, current, reactions, announced>>

Next ==
    \/ \E c \in CodeCallbacks : ScheduleCallback(c[1], c[2])
    \/ \E a \in Accessors :
           \/ \E id \in Ids : ClearScheduledCallback(a, id)
           \/ ClearAllScheduledCallbacks(a)
    \/ \E p \in Outputs : SendOutput(p)
    \/ \E w \in Wires : Connect(w[1], w[2])
    \/ \E x \in Accessors \ {Host} : AddChild(x) \/ RemoveChild(x)
    \/ \E c \in Composites : RemoveAllChildren(c) \/ ChildrenChanged(c)
    \/ \E id \in Ids :
           \/ RunCode(id)
           \/ RunOutput(id)
           \/ RunUpdate(id) \/ ThrowFromUpdate(id)
           \/ RunReact(id) \/ ThrowFromReact(id)
    \/ Return
    \/ Throw
    \/ RoundEndsEmpty

Spec == Init /\ [][Next]_vars

-----------------------------------------------------------------------------
TypeOK ==
    /\ alive \subseteq Accessors /\ Host \in alive
    /\ initialized \subseteq alive
    /\ source \in [Ports -> Ports \cup {NoPort}]
    /\ destinations \in [Ports -> SUBSET Ports]
    /\ repeated \subseteq Ports \X Ports
    /\ danglingPorts \subseteq Ports /\ doubled \subseteq Ports
    /\ nextCallbackId \in 0 .. MaxId
    /\ DOMAIN callbacks \subseteq 0 .. (nextCallbackId - 1)
    /\ \A id \in DOMAIN callbacks : callbacks[id] \in Callback
    /\ queue \subseteq DOMAIN callbacks
    /\ current \subseteq [id : Ids, owner : Accessors]
    /\ \A c, d \in current : c = d
    /\ callbackIds \in [Accessors -> SUBSET Ids]
    /\ staleIds \in [Accessors -> SUBSET Ids]
    /\ childEventQueue \in [Composites -> SUBSET (alive \ {Host})]
    /\ danglingQueues \subseteq Composites
    /\ reactionRequested \in BOOLEAN
    /\ announced \subseteq alive
    /\ lost \subseteq {"update", "react"}

\* Every callback belongs to an accessor that exists and that will clear it
\* when it is destroyed: the function it holds has captured its owner
\* (AccessorImpl.cpp:202-208), and only the ids in m_callbackIds are cleared by
\* the destructor (AccessorImpl.cpp:11-14).
CallbacksOfTheLiving ==
    \A id \in DOMAIN callbacks :
        /\ callbacks[id].owner \in alive
        /\ callbacks[id] # React => id \in callbackIds[callbacks[id].owner]

\* The two ends of a connection agree on it, and both exist; a port points to
\* a port that has been destroyed only if it was connected twice to one
\* destination, which ValidateConnection accepts (Port.cpp:98-112) and
\* Disconnect takes back once (Port.cpp:71-78).
WiresOfTheLiving ==
    /\ \A p, q \in Ports :
           /\ (source[q] = p) <=> (q \in destinations[p])
           /\ source[q] = p => Owner[p] \in alive /\ Owner[q] \in alive
    /\ danglingPorts \subseteq doubled

\* A reaction queue holds only children that exist (a removed child is left in
\* the queue of its container, CompositeAccessorImpl.cpp:127-139).
QueuedChildrenAreAlive == danglingQueues = {}

\* A child that has to react is reached, one that is gone included: its
\* container is queued too, up to the host, and the host's callback is
\* scheduled -- unless that callback was cleared by an accessor that had its
\* id from before a reset, or a reaction threw, which removes the callback and
\* leaves the request set (CompositeAccessorImpl.cpp:79-84, Director.cpp:311-315).
QueuedChildrenAreReached ==
    \/ "react" \in lost
    \/ \A c \in Composites : childEventQueue[c] # {} \/ c \in danglingQueues =>
           IF c = Host THEN React \in Scheduled ELSE c \in childEventQueue[Container[c]]

\* A child of the host that was announced is initialized, or a callback that
\* will do it is scheduled -- unless, since the host was last told of a change
\* (HostImpl.cpp:166-187), that callback was cleared, by the host's own code or
\* by an accessor that had its id from before a reset, or it threw: because of
\* a causality loop (HostImpl.cpp:173) or in an initialize function (178).
AnnouncedChildrenAreInitialized ==
    \A a \in announced :
        a \in initialized \/ Update \in Scheduled \/ "update" \in lost

\* What an accessor clears by the ids it has recorded is its own, as
\* Accessor.h:63 says of ClearAllScheduledCallbacks, but for the ids it had
\* before a reset (AccessorImpl.cpp:124, Director.cpp:345): those of callbacks
\* that have run are not given to anybody else.
ClearsOnlyItsOwnUnlessStale ==
    \A a \in Accessors : \A id \in (callbackIds[a] \ staleIds[a]) \cap DOMAIN callbacks :
        callbacks[id].owner = a /\ callbacks[id] # React
=============================================================================
