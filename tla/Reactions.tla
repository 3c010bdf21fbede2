----------------------------- MODULE Reactions -----------------------------
(***************************************************************************)
(* How inputs travel through a model that has been set up, and how the     *)
(* accessors react to them: Port::SendData and ReceiveData, the reaction   *)
(* queues of the composites (CompositeAccessor::Impl::ScheduleReaction and *)
(* ProcessChildEventQueue), AtomicAccessor::Impl::ProcessInputs, and       *)
(* Accessor::Impl::SendOutput.                                             *)
(*                                                                         *)
(* Everything runs on the worker of the Director.  What this module needs  *)
(* of the Director is the order of the callbacks that are due at one       *)
(* logical instant: by priority, then by id.  A new instant begins when no *)
(* callback is left, with the periodic callbacks of some sources.          *)
(*                                                                         *)
(* Of an event it matters only whether it is a null pointer: a port waits  *)
(* for its handler when the first event of its queue is not.               *)
(***************************************************************************)
EXTENDS Naturals, FiniteSets, SequencesExt

CONSTANTS
  Atomics, Composites,  \* the accessors; Host is one of the composites
  Host,
  Parent,        \* accessor other than Host -> the composite that contains it
  Priority,      \* accessor -> m_priority, as ComputeAccessorPriorities leaves it
  InputsOf,      \* atomic accessor -> m_orderedInputPorts
  Sends,         \* atomic accessor -> what its code may send in one callback or
                 \* reaction: sequences of pairs <<output port, event>>
  Sources,       \* the atomic accessors with a periodic callback that sends
  Destinations,  \* port -> m_destinations
  MaxInstants    \* bound: logical instants

Accessors == Atomics \cup Composites
Ports == DOMAIN Destinations
InputPorts == UNION {Range(InputsOf[a]) : a \in Atomics}
Owner(p) == CHOOSE a \in Atomics : p \in Range(InputsOf[a])

Events == {"event", "null"}

\* The composites around each accessor, up to the host.
Around == [x \in Accessors |->
  {c \in Composites :
    \A S \in SUBSET Accessors :
      (\A y \in Accessors \ {Host} : y \in S \cup {x} => Parent[y] \in S) => c \in S}]

ASSUME ModelAssumption ==
  /\ Host \in Composites /\ Sources \subseteq Atomics /\ IsFiniteSet(Sources)
  /\ Atomics \cap Composites = {}
  /\ Parent \in [Accessors \ {Host} -> Composites]
  /\ Priority \in [Accessors -> Nat] /\ IsInjective(Priority)
  /\ \A x \in Accessors \ {Host} : Host \in Around[x] /\ x \notin Around[x]
  /\ InputsOf \in [Atomics -> Seq(Ports)]
  /\ \A a, b \in Atomics : Range(InputsOf[a]) \cap Range(InputsOf[b]) # {} => a = b
  /\ \A a \in Atomics : Sends[a] \subseteq Seq((Ports \ InputPorts) \X Events)
  /\ Destinations \in [Ports -> Seq(Ports)]
  /\ MaxInstants \in Nat

VARIABLES
  inputQueue,         \* input port of an atomic accessor -> m_inputQueue
  childEventQueue,    \* composite -> m_childEventQueue
  reactionRequested,  \* m_reactionRequested of the host
  callbacks,          \* the Director's callbacks for this instant, in order
  sending,            \* the ports ReceiveData is still to be called on, in order
  event,              \* the event they are given
  processing,         \* the composites whose ProcessChildEventQueue is active
  reacting,           \* the call of ProcessInputs: its accessor and the next port
  instant,            \* how many instants there have been
  received,           \* history: port -> events received in this instant
  sentOn,             \* history: port -> events the port sent on in this instant
  thrown              \* history: has the code of an accessor thrown?

queues == <<inputQueue, childEventQueue, reactionRequested, callbacks>>
stack == <<sending, event, processing, reacting>>
history == <<received, sentOn, thrown>>
vars == <<queues, stack, instant, history>>

NoReaction == [accessor |-> Host, next |-> 0]

Callback ==
  [kind : {"tick"}, of : Sources, event : Events, priority : Nat]
    \cup [kind : {"send"}, of : Ports, event : Events, priority : Nat]
    \cup [kind : {"react"}, of : {Host}, event : Events, priority : Nat]

TypeOK ==
  /\ inputQueue \in [InputPorts -> Seq(Events)]
  /\ childEventQueue \in [Composites -> SUBSET (Accessors \ {Host})]
  /\ reactionRequested \in BOOLEAN
  /\ callbacks \in Seq(Callback)
  /\ sending \in Seq(Ports) /\ event \in Events
  /\ processing \in Seq(Composites)
  /\ reacting \in [accessor : Atomics, next : Nat \ {0}] \cup {NoReaction}
  /\ instant \in 0..MaxInstants
  /\ received \in [InputPorts -> Nat] /\ sentOn \in [InputPorts -> Nat]
  /\ thrown \in BOOLEAN

-----------------------------------------------------------------------------
\* Helpers.

\* m_waitingForInputHandler
Waiting(p) == inputQueue[p] # <<>> /\ Head(inputQueue[p]) = "event"

\* The Director's queue: callbacks go behind those of the same priority.
QueueAll(queue, new, priority) ==
  LET k == Cardinality({i \in DOMAIN queue : queue[i].priority <= priority})
  IN  SubSeq(queue, 1, k) \o new \o SubSeq(queue, k + 1, Len(queue))

Tick(a) == [kind |-> "tick", of |-> a, event |-> "event", priority |-> Priority[a]]
Send(s, a) == [kind |-> "send", of |-> s[1], event |-> s[2], priority |-> Priority[a]]
React(a) == [kind |-> "react", of |-> Host, event |-> "event", priority |-> Priority[a]]

\* SendOutput for each of these pairs, one after the other.
SendOutputs(queue, sends, a) ==
  QueueAll(queue, [i \in 1..Len(sends) |-> Send(sends[i], a)], Priority[a])

\* Mutant of ScheduleReaction: a request that finds one pending is dropped.
DropWhenRequested(a) ==
  /\ childEventQueue' = IF reactionRequested THEN childEventQueue ELSE
       [c \in Composites |->
         childEventQueue[c] \cup {x \in ({a} \cup Around[a]) \ {Host} : Parent[x] = c}]
  /\ reactionRequested' = TRUE
  /\ callbacks' = IF reactionRequested THEN callbacks ELSE
       QueueAll(callbacks, <<React(a)>>, Priority[a])

\* a is queued in its parent, the parent in its own, and so on; the host asks
\* for a callback, at the priority of a, unless it has asked before.
ScheduleReaction(a) ==
  /\ childEventQueue' =
       [c \in Composites |->
         childEventQueue[c] \cup {x \in ({a} \cup Around[a]) \ {Host} : Parent[x] = c}]
  /\ reactionRequested' = TRUE
  /\ callbacks' = IF reactionRequested THEN callbacks ELSE
       QueueAll(callbacks, <<React(a)>>, Priority[a])

Idle == sending = <<>> /\ processing = <<>> /\ reacting = NoReaction

-----------------------------------------------------------------------------
\* The callbacks of one instant.

NextInstant ==
  /\ Idle /\ callbacks = <<>>
  /\ instant < MaxInstants
  /\ instant' = instant + 1
  /\ \E n \in 1..Cardinality(Sources) : \E due \in [1..n -> Sources] :
       /\ \A i, j \in 1..n : i < j => Priority[due[i]] < Priority[due[j]]
       /\ callbacks' = [i \in 1..n |-> Tick(due[i])]
  /\ received' = [p \in InputPorts |-> Len(inputQueue[p])]
  /\ sentOn' = [p \in InputPorts |-> IF Waiting(p) THEN 1 ELSE 0]
  /\ UNCHANGED <<inputQueue, childEventQueue, reactionRequested, stack, thrown>>

\* A source's periodic callback calls SendOutput.
RunTick ==
  /\ Idle /\ callbacks # <<>> /\ Head(callbacks).kind = "tick"
  /\ LET a == Head(callbacks).of
     IN  \E sends \in Sends[a] \ {<<>>} : callbacks' = SendOutputs(Tail(callbacks), sends, a)
  /\ UNCHANGED <<inputQueue, childEventQueue, reactionRequested, stack, instant, history>>

\* The callback of SendOutput: SendData.
RunSend ==
  /\ Idle /\ callbacks # <<>> /\ Head(callbacks).kind = "send"
  /\ sending' = Destinations[Head(callbacks).of]
  /\ event' = Head(callbacks).event
  /\ callbacks' = Tail(callbacks)
  /\ UNCHANGED <<inputQueue, childEventQueue, reactionRequested, processing, reacting, instant, history>>

\* The callback of ScheduleReaction: the host's ProcessChildEventQueue.
RunReact ==
  /\ Idle /\ callbacks # <<>> /\ Head(callbacks).kind = "react"
  /\ processing' = <<Host>>
  /\ callbacks' = Tail(callbacks)
  /\ UNCHANGED <<inputQueue, childEventQueue, reactionRequested, sending, event, reacting, instant, history>>

-----------------------------------------------------------------------------
\* ReceiveData, depth first: what a port sends on arrives before its sibling's.

\* The ports of composites and the output ports send on at once.
Relay ==
  /\ sending # <<>> /\ Head(sending) \notin InputPorts
  /\ sending' = Destinations[Head(sending)] \o Tail(sending)
  /\ UNCHANGED <<queues, event, processing, reacting, instant, history>>

\* An input that has to wait behind another is sent on later, by ProcessInputs.
\* A null event that comes first is not sent on at all, and everything behind it
\* waits for ever.
ReceiveData ==
  /\ sending # <<>> /\ Head(sending) \in InputPorts
  /\ LET p == Head(sending)
     IN  /\ inputQueue' = [inputQueue EXCEPT ![p] = Append(@, event)]
         /\ received' = [received EXCEPT ![p] = @ + 1]
         /\ \/ /\ inputQueue[p] # <<>> \/ event = "null"
               /\ sending' = Tail(sending)
               /\ UNCHANGED <<childEventQueue, reactionRequested, callbacks, sentOn>>
            \/ /\ inputQueue[p] = <<>> /\ event # "null"
               /\ ScheduleReaction(Owner(p))
               /\ sending' = Destinations[p] \o Tail(sending)
               /\ sentOn' = [sentOn EXCEPT ![p] = @ + 1]
  /\ UNCHANGED <<event, processing, reacting, instant, thrown>>

-----------------------------------------------------------------------------
\* ProcessChildEventQueue and ProcessInputs.

InQueueLoop == processing # <<>> /\ sending = <<>> /\ reacting = NoReaction
InReaction == reacting # NoReaction /\ sending = <<>>

\* Mutant of FirstPort: the index of the vector in C++.
FirstPortInCpp == 0

FirstPort == 1

\* The child with the least priority value is taken from the queue.
PopChild ==
  /\ InQueueLoop
  /\ LET c == Last(processing) IN
       \E child \in childEventQueue[c] :
         /\ \A other \in childEventQueue[c] : Priority[child] <= Priority[other]
         /\ childEventQueue' = [childEventQueue EXCEPT ![c] = @ \ {child}]
         /\ \/ child \in Composites /\ processing' = Append(processing, child) /\ UNCHANGED reacting
            \/ child \in Atomics /\ reacting' = [accessor |-> child, next |-> FirstPort] /\ UNCHANGED processing
  /\ UNCHANGED <<inputQueue, reactionRequested, callbacks, sending, event, instant, history>>

\* Mutant of EndQueueLoop: the request is settled by any composite.
EndAnyQueueLoop ==
  /\ InQueueLoop
  /\ childEventQueue[Last(processing)] = {}
  /\ processing' = Front(processing)
  /\ reactionRequested' = FALSE
  /\ UNCHANGED <<inputQueue, childEventQueue, callbacks, sending, event, reacting, instant, history>>

\* Mutant of EndQueueLoop: the request is never settled.
EndQueueLoopOnly ==
  /\ InQueueLoop
  /\ childEventQueue[Last(processing)] = {}
  /\ processing' = Front(processing)
  /\ UNCHANGED <<inputQueue, childEventQueue, reactionRequested, callbacks, sending, event, reacting, instant, history>>

EndQueueLoop ==
  /\ InQueueLoop
  /\ childEventQueue[Last(processing)] = {}
  /\ processing' = Front(processing)
  /\ reactionRequested' = (reactionRequested /\ Last(processing) # Host)
  /\ UNCHANGED <<inputQueue, childEventQueue, callbacks, sending, event, reacting, instant, history>>

PortsLeft == reacting.next <= Len(InputsOf[reacting.accessor])
NextPort == InputsOf[reacting.accessor][reacting.next]

SkipPort ==
  /\ InReaction /\ PortsLeft /\ ~Waiting(NextPort)
  /\ reacting' = [reacting EXCEPT !.next = @ + 1]
  /\ UNCHANGED <<queues, sending, event, processing, instant, history>>

\* Behind the first input of p is one that is not null.
ComesNext(p) == Len(inputQueue[p]) > 1 /\ inputQueue[p][2] = "event"

\* Mutant of HandleInput: the next input is not sent on.
HandleInputOnly ==
  /\ InReaction /\ PortsLeft /\ Waiting(NextPort)
  /\ inputQueue' = [inputQueue EXCEPT ![NextPort] = Tail(@)]
  /\ IF ComesNext(NextPort)
     THEN ScheduleReaction(reacting.accessor)
     ELSE UNCHANGED <<childEventQueue, reactionRequested, callbacks>>
  /\ reacting' = [reacting EXCEPT !.next = @ + 1]
  /\ UNCHANGED <<sending, event, sentOn, processing, instant, received, thrown>>

\* The handlers are called and the input is dequeued; if another one was behind
\* it, a further reaction is scheduled and that input is sent on.
HandleInput ==
  /\ InReaction /\ PortsLeft /\ Waiting(NextPort)
  /\ inputQueue' = [inputQueue EXCEPT ![NextPort] = Tail(@)]
  /\ IF ComesNext(NextPort)
     THEN /\ ScheduleReaction(reacting.accessor)
          /\ sending' = Destinations[NextPort]
          /\ event' = "event"
          /\ sentOn' = [sentOn EXCEPT ![NextPort] = @ + 1]
     ELSE UNCHANGED <<childEventQueue, reactionRequested, callbacks, sending, event, sentOn>>
  /\ reacting' = [reacting EXCEPT !.next = @ + 1]
  /\ UNCHANGED <<processing, instant, received, thrown>>

\* Fire, and what the handlers and Fire have sent.
Fire ==
  /\ InReaction /\ ~PortsLeft
  /\ \E sends \in Sends[reacting.accessor] :
       callbacks' = SendOutputs(callbacks, sends, reacting.accessor)
  /\ reacting' = NoReaction
  /\ UNCHANGED <<inputQueue, childEventQueue, reactionRequested, sending, event, processing, instant,
                 history>>

\* An exception of a handler, of a port that has none, or of Fire leaves
\* ProcessInputs and every ProcessChildEventQueue around it; what was sent before
\* stays scheduled.  The host is corrupted, then paused, and may be run again.
Throw ==
  /\ InReaction /\ (PortsLeft => Waiting(NextPort))
  /\ \E sends \in Sends[reacting.accessor] :
       callbacks' = SendOutputs(callbacks, sends, reacting.accessor)
  /\ reacting' = NoReaction
  /\ processing' = <<>>
  /\ thrown' = TRUE
  /\ UNCHANGED <<inputQueue, childEventQueue, reactionRequested, sending, event, instant, received,
                 sentOn>>

-----------------------------------------------------------------------------
Init ==
  /\ inputQueue = [p \in InputPorts |-> <<>>]
  /\ childEventQueue = [c \in Composites |-> {}]
  /\ reactionRequested = FALSE
  /\ callbacks = <<>>
  /\ sending = <<>>
  /\ event = "event"
  /\ processing = <<>>
  /\ reacting = NoReaction
  /\ instant = 0
  /\ received = [p \in InputPorts |-> 0]
  /\ sentOn = [p \in InputPorts |-> 0]
  /\ thrown = FALSE

\* What the worker does by itself.
Work ==
  \/ RunTick \/ RunSend \/ RunReact \/ Relay \/ ReceiveData
  \/ PopChild \/ EndQueueLoop \/ SkipPort \/ HandleInput \/ Fire

Next == NextInstant \/ Work \/ Throw

Spec == Init /\ [][Next]_vars

\* The worker's thread is scheduled; nobody has to begin a new instant.
FairSpec == Spec /\ WF_vars(Work)

-----------------------------------------------------------------------------
(* Properties. *)

\* a is queued in every composite around it that is not being processed, and a
\* reaction of the host is under way or will be called.
Requested(a) ==
  /\ a \in childEventQueue[Parent[a]]
  /\ \A c \in Around[a] \ {Host} : c \in childEventQueue[Parent[c]] \/ c \in Range(processing)
  /\ processing # <<>> \/ \E i \in DOMAIN callbacks : callbacks[i].kind = "react"

\* CompositeAccessorImpl.h:13-15: a child that requests a reaction is on the
\* queue and an immediate callback is scheduled "for invoking reactions for all
\* children on the queue".  No input waits on a port whose accessor nobody is
\* going to ask to react, at whatever depth the accessor is nested.
NoInputIsStranded ==
  \A p \in InputPorts : Waiting(p) =>
    \/ Requested(Owner(p))
    \/ reacting.accessor = Owner(p) /\ \E i \in reacting.next..Len(InputsOf[Owner(p)]) : InputsOf[Owner(p)][i] = p

\* The same while no exception has left the code of an accessor.
NoInputIsStrandedUnlessThrown == ~thrown => NoInputIsStranded

\* The host asks for one reaction at a time, and not while one is under way:
\* m_reactionRequested holds back every further request until the host's queue,
\* not a nested one, has been emptied (CompositeAccessorImpl.cpp:52-65, 84).
OneReactionAtATime ==
  LET scheduled == {i \in DOMAIN callbacks : callbacks[i].kind = "react"}
  IN  /\ \A i, j \in scheduled : i = j
      /\ scheduled # {} => reactionRequested /\ processing = <<>>
      /\ processing # <<>> => reactionRequested

\* Every event is sent on by the port it arrives on exactly once, when it comes
\* to the head of the port's queue, either on arrival or when the event before
\* it has been handled (Port.cpp:176-182, AtomicAccessorImpl.cpp:86-98).  A null
\* event is not, and neither is what comes behind it.
SentOnExactlyOnce ==
  \A p \in InputPorts : sentOn[p] = received[p] - Len(inputQueue[p]) + (IF Waiting(p) THEN 1 ELSE 0)

\* A model without a cycle comes to rest, and then every input that any
\* accessor received has been handled, unless a null event is before it or an
\* exception left the code: the loop of ProcessChildEventQueue ends and no
\* reaction is lost between instants.
AllInputsAreHandled ==
  instant > 0 ~> (Idle /\ callbacks = <<>> /\ (thrown \/ \A p \in InputPorts : ~Waiting(p)))
=============================================================================
