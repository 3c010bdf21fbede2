--------------------------- MODULE LifetimesProofs ---------------------------
(***************************************************************************)
(* The invariants of Lifetimes for every tree of accessors, every wiring   *)
(* and every number of callbacks.  They are proved one on top of the       *)
(* other: the director's part, the type invariant, the owners of the       *)
(* callbacks, the recorded ids, the wires, the reaction queues, the        *)
(* announced children.                                                     *)
(***************************************************************************)
EXTENDS Lifetimes, TLAPS

USE TreeAssumption, PortsAssumption, BoundsAssumption

\* The callbacks of the map are queued, except the one that runs: that one is
\* an accessor's own.  After a Reset its id may be another one's, in the queue.
DirectorOK ==
    /\ nextCallbackId \in 0 .. MaxId
    /\ DOMAIN callbacks \subseteq 0 .. (nextCallbackId - 1)
    /\ \A id \in DOMAIN callbacks : callbacks[id] \in Callback
    /\ queue \subseteq DOMAIN callbacks
    /\ current \subseteq [id : Ids, owner : Accessors]
    /\ \A c, d \in current : c = d
    /\ \A id \in DOMAIN callbacks \ queue :
           /\ \E c \in current : id = c.id
           /\ callbacks[id].kind \in {"once", "periodic"}

-----------------------------------------------------------------------------
(* The tree of accessors.                                                   *)

LEMMA SubtreeIsClosed ==
  ASSUME NEW a \in Accessors
  PROVE  /\ a \in Subtree[a]
         /\ Subtree[a] \subseteq Accessors
         /\ \A x \in Accessors \ {Host} : Container[x] \in Subtree[a] => x \in Subtree[a]
  BY DEF Subtree

\* What is in a subtree without being its root has its container in it.
LEMMA SubtreeHoldsContainers ==
  ASSUME NEW a \in Accessors, NEW b \in Subtree[a], b # a
  PROVE  b # Host /\ Container[b] \in Subtree[a]
<1> DEFINE S == Subtree[a] \ {b}
<1>1. S \in SUBSET Accessors /\ a \in S
  BY SubtreeIsClosed
<1>2. ASSUME b = Host \/ Container[b] \notin Subtree[a]
      PROVE  \A x \in Accessors \ {Host} : Container[x] \in S => x \in S
  BY <1>2, SubtreeIsClosed
<1>3. ASSUME b = Host \/ Container[b] \notin Subtree[a]
      PROVE  FALSE
  <2>1. \A T \in SUBSET Accessors :
          (a \in T /\ \A x \in Accessors \ {Host} : Container[x] \in T => x \in T) => b \in T
    BY DEF Subtree
  <2>2. a \in S /\ \A x \in Accessors \ {Host} : Container[x] \in S => x \in S
    BY <1>1, <1>2, <1>3
  <2>3. b \in S
    BY <1>1, <2>1, <2>2
  <2> QED BY <2>3
<1> QED BY <1>3

\* A container's subtree holds those of its children.
LEMMA SubtreesAreNested ==
  ASSUME NEW a \in Accessors, NEW b \in Subtree[a]
  PROVE  Subtree[b] \subseteq Subtree[a]
<1>1. b \in Accessors
  BY SubtreeIsClosed
<1>2. /\ Subtree[a] \in SUBSET Accessors /\ b \in Subtree[a]
      /\ \A x \in Accessors \ {Host} : Container[x] \in Subtree[a] => x \in Subtree[a]
  BY SubtreeIsClosed
<1> SUFFICES ASSUME NEW c \in Subtree[b] PROVE c \in Subtree[a]
  OBVIOUS
<1>3. \A S \in SUBSET Accessors :
        (b \in S /\ \A x \in Accessors \ {Host} : Container[x] \in S => x \in S) => c \in S
  BY <1>1 DEF Subtree
<1> QED BY <1>2, <1>3

\* Nothing but the host's own subtree holds the host.
LEMMA HostIsOutermost ==
  ASSUME NEW x \in Accessors \ {Host}
  PROVE  Host \notin Subtree[x]
  BY SubtreeHoldsContainers

-----------------------------------------------------------------------------
(* What the director's operations do to the map.                            *)

\* A callback as the framework makes them.
LEMMA CallbacksAreRecords ==
  /\ \A a \in Accessors, k \in Kinds : Code(a, k) \in Callback
  /\ \A p \in OutputPorts : Output(p) \in Callback
  /\ Update \in Callback /\ React \in Callback
<1>1. \A a \in Accessors, k \in Kinds : Code(a, k) \in Callback
  BY DEF Code, Callback
<1>2. \A p \in OutputPorts : Owner[p] \in Accessors
  BY DEF Ports
<1>3. \A p \in OutputPorts : Output(p) \in Callback
  BY <1>2 DEF Output, Callback, Kinds
<1>4. Host \in Accessors
  BY DEF Accessors
<1> QED BY <1>1, <1>3, <1>4 DEF Update, React, Kinds

\* A new callback is added, and the others stay as they are.
LEMMA ScheduleAdds ==
  ASSUME NEW callback, Schedule(callback)
  PROVE  /\ DOMAIN callbacks' = DOMAIN callbacks \cup {nextCallbackId}
         /\ callbacks'[nextCallbackId] = callback
         /\ \A id \in DOMAIN callbacks : id # nextCallbackId => callbacks'[id] = callbacks[id]
  BY DEF Schedule

LEMMA ScheduleKeepsDirectorOK ==
  ASSUME DirectorOK, NEW callback \in Callback, Schedule(callback), UNCHANGED current
  PROVE  DirectorOK'
<1>1. nextCallbackId' \in 0 .. MaxId /\ nextCallbackId' = nextCallbackId + 1
  BY DEF DirectorOK, Schedule
<1>2. DOMAIN callbacks' \subseteq 0 .. (nextCallbackId' - 1)
  BY <1>1, ScheduleAdds DEF DirectorOK
<1>3. \A id \in DOMAIN callbacks' : callbacks'[id] \in Callback
  BY ScheduleAdds DEF DirectorOK
<1>4. queue' \subseteq DOMAIN callbacks' /\ queue' = queue \cup {nextCallbackId}
  BY ScheduleAdds DEF DirectorOK, Schedule
<1>5. ASSUME NEW id \in DOMAIN callbacks' \ queue'
      PROVE  (\E c \in current' : id = c.id) /\ callbacks'[id].kind \in {"once", "periodic"}
  BY <1>4, ScheduleAdds DEF DirectorOK
<1> QED BY <1>1, <1>2, <1>3, <1>4, <1>5 DEF DirectorOK

\* Clearing removes the callbacks with the given ids; a reset takes with them
\* the callback that runs, and no other.
LEMMA ClearRemoves ==
  ASSUME DirectorOK, NEW ids, Clear(ids)
  PROVE  /\ DOMAIN callbacks' \subseteq DOMAIN callbacks \ ids
         /\ \A id \in DOMAIN callbacks' : callbacks'[id] = callbacks[id]
         /\ \A id \in DOMAIN callbacks \ ids :
                callbacks[id].kind \notin {"once", "periodic"} => id \in DOMAIN callbacks'
<1>1. CASE ids # {} /\ queue \subseteq ids
  <2>1. DOMAIN callbacks \subseteq Ids
    BY DEF DirectorOK, Ids
  <2>2. DOMAIN callbacks' = {}
    BY <1>1, <2>1 DEF Clear, Reset, Without
  <2> QED BY <1>1, <2>2 DEF DirectorOK
<1>2. CASE ~(ids # {} /\ queue \subseteq ids)
  BY <1>2 DEF Clear, Without
<1> QED BY <1>1, <1>2

LEMMA ClearKeepsDirectorOK ==
  ASSUME DirectorOK, NEW ids, Clear(ids), UNCHANGED current
  PROVE  DirectorOK'
<1>1. CASE ids # {} /\ queue \subseteq ids
  <2>1. nextCallbackId' = 0 /\ queue' = {}
    BY <1>1 DEF Clear, Reset
  <2>2. DOMAIN callbacks \subseteq Ids
    BY DEF DirectorOK, Ids
  <2>3. DOMAIN callbacks' = {}
    BY <1>1, <2>2 DEF Clear, Reset, Without
  <2> QED BY <2>1, <2>3 DEF DirectorOK
<1>2. CASE ~(ids # {} /\ queue \subseteq ids)
  <2>1. /\ queue' = queue \ ids /\ nextCallbackId' = nextCallbackId
        /\ DOMAIN callbacks' = DOMAIN callbacks \ ids
        /\ \A id \in DOMAIN callbacks' : callbacks'[id] = callbacks[id]
    BY <1>2 DEF Clear, Without
  <2> QED BY <2>1 DEF DirectorOK
<1> QED BY <1>1, <1>2

\* A framework callback that runs from start to end is taken out of both.
LEMMA FinishRemoves ==
  ASSUME NEW id, Finish(id)
  PROVE  /\ DOMAIN callbacks' = DOMAIN callbacks \ {id}
         /\ \A i \in DOMAIN callbacks' : callbacks'[i] = callbacks[i]
  BY DEF Finish, Without

LEMMA FinishKeepsDirectorOK ==
  ASSUME DirectorOK, NEW id, Finish(id), UNCHANGED current
  PROVE  DirectorOK'
<1>1. queue' = queue \ {id} /\ nextCallbackId' = nextCallbackId
  BY DEF Finish
<1>2. /\ DOMAIN callbacks' \subseteq DOMAIN callbacks
      /\ DOMAIN callbacks' = DOMAIN callbacks \ {id}
      /\ \A i \in DOMAIN callbacks' : callbacks'[i] = callbacks[i]
  BY FinishRemoves
<1>3. queue' \subseteq DOMAIN callbacks'
  BY <1>1, <1>2 DEF DirectorOK
<1>4. ASSUME NEW i \in DOMAIN callbacks' \ queue'
      PROVE  (\E c \in current' : i = c.id) /\ callbacks'[i].kind \in {"once", "periodic"}
  BY <1>1, <1>2, <1>4 DEF DirectorOK
<1> QED BY <1>1, <1>2, <1>3, <1>4 DEF DirectorOK

\* RunOutput finishes one callback and may schedule the host's reaction.
LEMMA RunOutputOnCallbacks ==
  ASSUME DirectorOK, NEW id, RunOutput(id)
  PROVE  /\ DirectorOK'
         /\ \/ /\ DOMAIN callbacks' = DOMAIN callbacks \ {id}
               /\ \A i \in DOMAIN callbacks' : callbacks'[i] = callbacks[i]
               /\ UNCHANGED reactionRequested
            \/ /\ DOMAIN callbacks' = (DOMAIN callbacks \ {id}) \cup {nextCallbackId}
               /\ \A i \in DOMAIN callbacks \ {id} : callbacks'[i] = callbacks[i]
               /\ nextCallbackId \notin DOMAIN callbacks
               /\ callbacks'[nextCallbackId] = React
               /\ reactionRequested' = TRUE
<1>1. current = {} /\ current' = {} /\ id \in queue /\ id \in DOMAIN callbacks
  BY DEF RunOutput, RunInternal, DirectorOK
<1>2. CASE Finish(id) /\ UNCHANGED reactionRequested
  BY <1>1, <1>2, FinishKeepsDirectorOK, FinishRemoves
<1>3. CASE /\ nextCallbackId < MaxId
           /\ reactionRequested' = TRUE
           /\ callbacks' = [i \in (DOMAIN callbacks \ {id}) \cup {nextCallbackId} |->
                               IF i = nextCallbackId THEN React ELSE callbacks[i]]
           /\ queue' = (queue \ {id}) \cup {nextCallbackId}
           /\ nextCallbackId' = nextCallbackId + 1
  <2>1. nextCallbackId \in Nat /\ \A i \in DOMAIN callbacks : i \in Nat /\ i < nextCallbackId
    BY DEF DirectorOK
  <2>2. nextCallbackId \notin DOMAIN callbacks
    BY <2>1
  <2>3. /\ DOMAIN callbacks' = (DOMAIN callbacks \ {id}) \cup {nextCallbackId}
        /\ \A i \in DOMAIN callbacks \ {id} : callbacks'[i] = callbacks[i]
        /\ callbacks'[nextCallbackId] = React
    BY <1>3, <2>2
  <2>4. nextCallbackId' \in 0 .. MaxId /\ DOMAIN callbacks' \subseteq 0 .. (nextCallbackId' - 1)
    BY <1>3, <2>1, <2>3 DEF DirectorOK
  <2>5. \A i \in DOMAIN callbacks' : callbacks'[i] \in Callback
    BY <2>3, CallbacksAreRecords DEF DirectorOK
  <2>6. queue' \subseteq DOMAIN callbacks' /\ \A i \in DOMAIN callbacks' : i \in queue'
    BY <1>1, <1>3, <2>3 DEF DirectorOK
  <2>7. DirectorOK'
    BY <1>1, <2>4, <2>5, <2>6 DEF DirectorOK
  <2> QED BY <1>3, <2>2, <2>3, <2>7
<1> QED BY <1>2, <1>3 DEF RunOutput

\* DirectorOK does not read what these actions change.
LEMMA SameCallbacksKeepDirectorOK ==
  ASSUME DirectorOK, UNCHANGED <<queue, callbacks, nextCallbackId, current>>
  PROVE  DirectorOK'
  BY DEF DirectorOK

\* RunCode takes out a callback; when it ends it is put back or removed.
LEMMA RunCodeKeepsDirectorOK ==
  ASSUME DirectorOK, NEW id \in Ids, RunCode(id)
  PROVE  DirectorOK'
<1>1. /\ current' = {[id |-> id, owner |-> callbacks[id].owner]}
      /\ queue' = queue \ {id} /\ id \in queue /\ current = {}
      /\ UNCHANGED <<callbacks, nextCallbackId>>
      /\ callbacks[id].kind \in {"once", "periodic"}
  BY DEF RunCode
<1>2. id \in DOMAIN callbacks /\ callbacks[id].owner \in Accessors
  BY <1>1 DEF DirectorOK, Callback
<1>3. \A c \in current' : c.id = id
  BY <1>1
<1>4. current' \subseteq [id : Ids, owner : Accessors]
  BY <1>1, <1>2
<1>5. \A i \in DOMAIN callbacks' \ queue' : i = id
  BY <1>1 DEF DirectorOK
<1>6. \A i \in DOMAIN callbacks' \ queue' :
         (\E c \in current' : i = c.id) /\ callbacks'[i].kind \in {"once", "periodic"}
  BY <1>1, <1>5
<1> QED BY <1>6, <1>1, <1>2, <1>3, <1>4, <1>5 DEF DirectorOK

LEMMA EndOfCodeKeepsDirectorOK ==
  ASSUME DirectorOK, Return \/ Throw
  PROVE  /\ DirectorOK'
         /\ DOMAIN callbacks' \subseteq DOMAIN callbacks
         /\ \A id \in DOMAIN callbacks' : callbacks'[id] = callbacks[id]
         /\ \A id \in DOMAIN callbacks :
                callbacks[id].kind \notin {"once", "periodic"} => id \in DOMAIN callbacks'
<1> PICK c \in current :
        /\ c.id \notin queue
        /\ current' = {}
        /\ \/ /\ c.id \in DOMAIN callbacks
              /\ queue' = queue \cup {c.id} /\ UNCHANGED callbacks
           \/ callbacks' = Without({c.id}) /\ UNCHANGED queue
  BY DEF Return, Throw, KeepsItsId
<1>1. nextCallbackId' = nextCallbackId
  BY DEF Return, Throw
<1>2. \A id \in DOMAIN callbacks \ queue : id = c.id
  BY DEF DirectorOK
<1>3. CASE c.id \in DOMAIN callbacks /\ queue' = queue \cup {c.id} /\ UNCHANGED callbacks
  BY <1>1, <1>2, <1>3 DEF DirectorOK
<1>4. CASE callbacks' = Without({c.id}) /\ UNCHANGED queue
  <2>1. /\ DOMAIN callbacks' = DOMAIN callbacks \ {c.id}
        /\ \A id \in DOMAIN callbacks' : callbacks'[id] = callbacks[id]
    BY <1>4 DEF Without
  <2> QED BY <1>1, <1>2, <1>4, <2>1 DEF DirectorOK
<1> QED BY <1>3, <1>4

LEMMA RoundEndsEmptyClears ==
  ASSUME DirectorOK, RoundEndsEmpty
  PROVE  DirectorOK' /\ DOMAIN callbacks = {} /\ DOMAIN callbacks' = {}
<1>1. DOMAIN callbacks = {}
  BY DEF RoundEndsEmpty, DirectorOK
<1>2. DOMAIN callbacks' = {} /\ queue' = {} /\ nextCallbackId' = 0 /\ current' = {}
  BY <1>1 DEF RoundEndsEmpty, Reset, Without
<1> QED BY <1>1, <1>2 DEF DirectorOK

-----------------------------------------------------------------------------
(* The type invariant.                                                      *)

\* What TypeOK says beyond the director's part.
RestOK ==
    /\ alive \subseteq Accessors /\ Host \in alive
    /\ initialized \subseteq alive
    /\ source \in [Ports -> Ports \cup {NoPort}]
    /\ destinations \in [Ports -> SUBSET Ports]
    /\ repeated \subseteq Ports \X Ports
    /\ danglingPorts \subseteq Ports /\ doubled \subseteq Ports
    /\ callbackIds \in [Accessors -> SUBSET Ids]
    /\ staleIds \in [Accessors -> SUBSET Ids]
    /\ childEventQueue \in [Composites -> SUBSET (alive \ {Host})]
    /\ danglingQueues \subseteq Composites
    /\ reactionRequested \in BOOLEAN
    /\ announced \subseteq alive
    /\ lost \subseteq {"update", "react"}

TypeInv == DirectorOK /\ RestOK

LEMMA TypeInvIsStronger == TypeInv => TypeOK
  BY DEF TypeInv, DirectorOK, RestOK, TypeOK

LEMMA InitTypeInv == Init => TypeInv
<1> SUFFICES ASSUME Init PROVE TypeInv
  OBVIOUS
<1>1. DirectorOK
  BY DEF Init, DirectorOK
<1>2. Host \in Accessors
  BY DEF Accessors
<1>3. RestOK
  BY <1>2 DEF Init, RestOK
<1> QED BY <1>1, <1>3 DEF TypeInv

\* An accessor's request: recorded under its owner.
LEMMA ScheduleForKeepsTypes ==
  ASSUME TypeInv, NEW callback \in Callback, ScheduleFor(callback), UNCHANGED current
  PROVE  /\ DirectorOK'
         /\ callbackIds' \in [Accessors -> SUBSET Ids]
         /\ staleIds' \in [Accessors -> SUBSET Ids]
<1>1. Schedule(callback) /\ DirectorOK /\ RestOK
  BY DEF ScheduleFor, TypeInv
<1>2. DirectorOK'
  BY <1>1, ScheduleKeepsDirectorOK
<1>3. nextCallbackId \in Ids
  BY <1>1 DEF Schedule, DirectorOK, Ids
<1>4. callback.owner \in Accessors
  BY DEF Callback
<1> QED BY <1>1, <1>2, <1>3, <1>4 DEF ScheduleFor, RestOK

\* Clearing keeps the types of the histories.
LEMMA ClearKeepsHistories ==
  ASSUME TypeInv, NEW ids, Clear(ids), callbackIds' \in [Accessors -> SUBSET Ids]
  PROVE  staleIds' \in [Accessors -> SUBSET Ids] /\ lost' \subseteq {"update", "react"}
<1>1. lost' \subseteq {"update", "react"}
  BY DEF Clear, TypeInv, RestOK
<1>2. CASE staleIds' = callbackIds'
  BY <1>1, <1>2
<1>3. CASE staleIds' = [a \in Accessors |-> staleIds[a] \cap callbackIds'[a]]
  BY <1>1, <1>3
<1> QED BY <1>2, <1>3 DEF Clear, Reset

\* The destructors leave nothing of the wrong type.
LEMMA DestroyKeepsTypes ==
  ASSUME TypeInv, NEW children \in SUBSET (Accessors \ {Host}), Destroy(children)
  PROVE  TypeInv'
<1> DEFINE dead == alive \cap UNION {Subtree[x] : x \in children}
<1>1. /\ callbackIds' = [a \in Accessors |-> IF a \in dead THEN {} ELSE callbackIds[a]]
      /\ Clear(UNION {callbackIds[a] : a \in dead})
      /\ DisconnectAll({p \in Ports : Owner[p] \in dead})
      /\ childEventQueue' = [c \in Composites |->
                                IF c \in dead THEN {} ELSE childEventQueue[c] \ dead]
      /\ danglingQueues' =
             (danglingQueues \cup {c \in Composites : childEventQueue[c] \cap dead # {}}) \ dead
      /\ alive' = alive \ dead
      /\ initialized' = initialized \ dead
      /\ announced' = announced \ dead
      /\ UNCHANGED <<current, reactionRequested>>
  BY DEF Destroy
<1>2. DirectorOK'
  BY <1>1, ClearKeepsDirectorOK DEF TypeInv
<1>3. Host \notin dead
  BY HostIsOutermost
<1>4. /\ source' \in [Ports -> Ports \cup {NoPort}]
      /\ destinations' \in [Ports -> SUBSET Ports]
  BY <1>1 DEF DisconnectAll, TypeInv, RestOK
<1>5. /\ repeated' \subseteq Ports \X Ports
      /\ danglingPorts' \subseteq Ports /\ doubled' \subseteq Ports
  BY <1>1 DEF DisconnectAll, LeaveTheRepeated, TypeInv, RestOK
<1>6. callbackIds' \in [Accessors -> SUBSET Ids]
  BY <1>1 DEF TypeInv, RestOK
<1>7. staleIds' \in [Accessors -> SUBSET Ids] /\ lost' \subseteq {"update", "react"}
  BY <1>1, <1>6, ClearKeepsHistories
<1>8. /\ childEventQueue' \in [Composites -> SUBSET (alive' \ {Host})]
      /\ danglingQueues' \subseteq Composites
  BY <1>1 DEF TypeInv, RestOK
<1>9. RestOK'
  BY <1>1, <1>3, <1>4, <1>5, <1>6, <1>7, <1>8 DEF TypeInv, RestOK
<1> QED BY <1>2, <1>9 DEF TypeInv

\* The sets of accessors that are initialized by a step exist.
LEMMA InitializedExist ==
  ASSUME TypeInv, NEW cs
  PROVE  /\ Initialized(cs) \subseteq alive
         /\ \A done \in PartlyInitialized(cs) : done \subseteq alive
  BY DEF Initialized, PartlyInitialized, TypeInv, RestOK

\* What RunOutput does beside the director's part.
LEMMA RunOutputOnQueues ==
  ASSUME TypeInv, NEW id \in Ids, RunOutput(id)
  PROVE  \E receivers \in SUBSET Accessors, alerted \in SUBSET Accessors :
            LET queued == {a \in alive \ {Host} : \E r \in alerted : r \in Subtree[a]}
            IN  /\ alerted \subseteq receivers
                /\ alerted = receivers \/ "react" \in lost
                /\ childEventQueue' = [c \in Composites |->
                                          childEventQueue[c] \cup {a \in queued : Container[a] = c}]
                /\ alerted # {} => reactionRequested'
                /\ reactionRequested => reactionRequested'
                /\ reactionRequested' \in BOOLEAN
<1> DEFINE receivers == {Owner[q] : q \in Reached(callbacks[id].port) \cap InputPorts}
                            \cap Atomics \cap initialized
<1>1. receivers \in SUBSET Accessors
  BY DEF Accessors
<1>2. PICK alerted \in SUBSET receivers :
            LET queued == {a \in alive \ {Host} : \E r \in alerted : r \in Subtree[a]}
            IN  /\ alerted = receivers \/ "react" \in lost
                /\ childEventQueue' = [c \in Composites |->
                                          childEventQueue[c] \cup {a \in queued : Container[a] = c}]
                /\ IF alerted # {} /\ ~reactionRequested
                   THEN reactionRequested' = TRUE
                   ELSE reactionRequested' = reactionRequested
  BY DEF RunOutput
<1>3. /\ alerted # {} => reactionRequested'
      /\ reactionRequested => reactionRequested'
      /\ reactionRequested' \in BOOLEAN
  <2>1. reactionRequested \in BOOLEAN
    BY DEF TypeInv, RestOK
  <2>2. CASE alerted # {} /\ ~reactionRequested
    BY <1>2, <2>1, <2>2
  <2>3. CASE ~(alerted # {} /\ ~reactionRequested)
    <3>1. reactionRequested' = reactionRequested
      BY <1>2, <2>3
    <3> QED BY <2>1, <2>3, <3>1
  <2> QED BY <2>2, <2>3
<1> QED BY <1>1, <1>2, <1>3

LEMMA NextKeepsTypeInv == TypeInv /\ [Next]_vars => TypeInv'
<1> SUFFICES ASSUME TypeInv, [Next]_vars PROVE TypeInv'
  OBVIOUS
<1> USE DEF TypeInv
<1>1. CASE UNCHANGED vars
  <2>1. DirectorOK'
    BY <1>1, SameCallbacksKeepDirectorOK DEF vars, director
  <2>2. RestOK'
    BY <1>1 DEF vars, director, wiring, reactions, RestOK
  <2> QED BY <2>1, <2>2
<1>2. ASSUME NEW c \in CodeCallbacks, ScheduleCallback(c[1], c[2]) PROVE TypeInv'
  <2>1. Code(c[1], c[2]) \in Callback
    BY CallbacksAreRecords DEF Kinds
  <2>2. RestOK'
    BY <1>2, <2>1, ScheduleForKeepsTypes DEF ScheduleCallback, RestOK, wiring, reactions
  <2> QED BY <1>2, <2>1, <2>2, ScheduleForKeepsTypes DEF ScheduleCallback
<1>3. ASSUME NEW p \in Outputs, SendOutput(p) PROVE TypeInv'
  <2>1. Output(p) \in Callback
    BY CallbacksAreRecords
  <2>2. RestOK'
    BY <1>3, <2>1, ScheduleForKeepsTypes DEF SendOutput, RestOK, wiring, reactions
  <2> QED BY <1>3, <2>1, <2>2, ScheduleForKeepsTypes DEF SendOutput
<1>4. ASSUME NEW a \in Accessors, NEW id \in Ids, ClearScheduledCallback(a, id) PROVE TypeInv'
  <2>1. DirectorOK' /\ callbackIds' \in [Accessors -> SUBSET Ids]
    BY <1>4, ClearKeepsDirectorOK DEF ClearScheduledCallback, RestOK
  <2>2. staleIds' \in [Accessors -> SUBSET Ids] /\ lost' \subseteq {"update", "react"}
    BY <1>4, <2>1, ClearKeepsHistories DEF ClearScheduledCallback
  <2>3. RestOK'
    BY <1>4, <2>1, <2>2 DEF ClearScheduledCallback, RestOK, wiring, reactions
  <2> QED BY <2>1, <2>3
<1>5. ASSUME NEW a \in Accessors, ClearAllScheduledCallbacks(a) PROVE TypeInv'
  <2>1. DirectorOK' /\ callbackIds' \in [Accessors -> SUBSET Ids]
    BY <1>5, ClearKeepsDirectorOK DEF ClearAllScheduledCallbacks, RestOK
  <2>2. staleIds' \in [Accessors -> SUBSET Ids] /\ lost' \subseteq {"update", "react"}
    BY <1>5, <2>1, ClearKeepsHistories DEF ClearAllScheduledCallbacks
  <2>3. RestOK'
    BY <1>5, <2>1, <2>2 DEF ClearAllScheduledCallbacks, RestOK, wiring, reactions
  <2> QED BY <2>1, <2>3
<1>6. ASSUME NEW w \in Wires, Connect(w[1], w[2]) PROVE TypeInv'
  <2>1. DirectorOK'
    BY <1>6, SameCallbacksKeepDirectorOK DEF Connect, director
  <2>2. w[1] \in Ports /\ w[2] \in Ports
    OBVIOUS
  <2>3. /\ source' \in [Ports -> Ports \cup {NoPort}]
        /\ destinations' \in [Ports -> SUBSET Ports]
        /\ repeated' \subseteq Ports \X Ports /\ doubled' \subseteq Ports
    BY <1>6, <2>2 DEF Connect, RestOK
  <2>4. RestOK'
    BY <1>6, <2>3 DEF Connect, RestOK, director, reactions
  <2> QED BY <2>1, <2>4
<1>7. ASSUME NEW x \in Accessors \ {Host}, AddChild(x) PROVE TypeInv'
  <2>1. DirectorOK'
    BY <1>7, SameCallbacksKeepDirectorOK DEF AddChild, director
  <2>2. RestOK'
    BY <1>7 DEF AddChild, RestOK, director, wiring, reactions
  <2> QED BY <2>1, <2>2
<1>8. ASSUME NEW x \in Accessors \ {Host}, RemoveChild(x) PROVE TypeInv'
  BY <1>8, DestroyKeepsTypes DEF RemoveChild
<1>9. ASSUME NEW c \in Composites, RemoveAllChildren(c) PROVE TypeInv'
  <2>1. ChildrenOf(c) \in SUBSET (Accessors \ {Host})
    BY DEF ChildrenOf, RestOK
  <2> QED BY <1>9, <2>1, DestroyKeepsTypes DEF RemoveAllChildren
<1>10. ASSUME NEW c \in Composites, ChildrenChanged(c) PROVE TypeInv'
  <2>1. /\ DirectorOK' /\ callbackIds' \in [Accessors -> SUBSET Ids]
        /\ staleIds' \in [Accessors -> SUBSET Ids]
    BY <1>10, CallbacksAreRecords, ScheduleForKeepsTypes DEF ChildrenChanged
  <2>2. initialized' \subseteq alive /\ announced' \subseteq alive
    BY <1>10, InitializedExist DEF ChildrenChanged, ChildrenOf, RestOK
  <2>3. RestOK'
    BY <1>10, <2>1, <2>2 DEF ChildrenChanged, RestOK, wiring, reactions
  <2> QED BY <2>1, <2>3
<1>11. ASSUME NEW id \in Ids, RunCode(id) PROVE TypeInv'
  <2>1. RestOK'
    BY <1>11 DEF RunCode, RestOK, wiring, reactions
  <2> QED BY <1>11, <2>1, RunCodeKeepsDirectorOK
<1>12. ASSUME NEW id \in Ids, RunOutput(id) PROVE TypeInv'
  <2>1. UNCHANGED <<alive, initialized, wiring, callbackIds, staleIds, danglingQueues, announced, lost>>
    BY <1>12 DEF RunOutput, Finish
  <2>2. /\ childEventQueue' \in [Composites -> SUBSET (alive \ {Host})]
        /\ reactionRequested' \in BOOLEAN
    BY <1>12, RunOutputOnQueues DEF RestOK
  <2>3. RestOK'
    BY <2>1, <2>2 DEF RestOK, wiring
  <2> QED BY <1>12, <2>3, RunOutputOnCallbacks
<1>13. ASSUME NEW id \in Ids, RunUpdate(id) \/ ThrowFromUpdate(id) PROVE TypeInv'
  <2>1. DirectorOK'
    BY <1>13, FinishKeepsDirectorOK DEF RunUpdate, ThrowFromUpdate
  <2>2. initialized' \subseteq alive
    BY <1>13, InitializedExist DEF RunUpdate, ThrowFromUpdate
  <2>3. lost' \subseteq {"update", "react"}
    BY <1>13 DEF RunUpdate, ThrowFromUpdate, RestOK
  <2>4. RestOK'
    BY <1>13, <2>2, <2>3 DEF RunUpdate, ThrowFromUpdate, Finish, RestOK, wiring, reactions
  <2> QED BY <2>1, <2>4
<1>14. ASSUME NEW id \in Ids, RunReact(id) \/ ThrowFromReact(id) PROVE TypeInv'
  <2>1. DirectorOK'
    BY <1>14, FinishKeepsDirectorOK DEF RunReact, ThrowFromReact
  <2>2. childEventQueue' \in [Composites -> SUBSET (alive \ {Host})]
    BY <1>14 DEF RunReact, ThrowFromReact, RestOK
  <2>3. lost' \subseteq {"update", "react"} /\ reactionRequested' \in BOOLEAN
    BY <1>14 DEF RunReact, ThrowFromReact, RestOK
  <2>4. RestOK'
    BY <1>14, <2>2, <2>3 DEF RunReact, ThrowFromReact, Finish, RestOK, wiring
  <2> QED BY <2>1, <2>4
<1>15. CASE Return \/ Throw
  <2>1. RestOK'
    BY <1>15 DEF Return, Throw, RestOK, wiring, reactions
  <2> QED BY <1>15, <2>1, EndOfCodeKeepsDirectorOK
<1>16. CASE RoundEndsEmpty
  <2>1. RestOK'
    BY <1>16 DEF RoundEndsEmpty, Reset, RestOK, wiring, reactions
  <2> QED BY <1>16, <2>1, RoundEndsEmptyClears
<1> QED BY <1>1, <1>2, <1>3, <1>4, <1>5, <1>6, <1>7, <1>8, <1>9, <1>10, <1>11, <1>12,
           <1>13, <1>14, <1>15, <1>16 DEF Next

LEMMA TypeInvHolds == Spec => []TypeInv
  BY InitTypeInv, NextKeepsTypeInv, PTL DEF Spec

\* Every variable keeps its type: the queue and the map agree (TypeOK).
THEOREM TypeCorrect == Spec => []TypeOK
  BY TypeInvHolds, TypeInvIsStronger, PTL

-----------------------------------------------------------------------------
(* The owners of the callbacks.                                             *)

LEMMA InitCallbacksOfTheLiving == Init => CallbacksOfTheLiving
  BY DEF Init, CallbacksOfTheLiving

\* A request of an accessor that exists is recorded by it.
LEMMA ScheduleForKeepsOwners ==
  ASSUME TypeInv, CallbacksOfTheLiving, NEW callback \in Callback, callback.owner \in alive,
         ScheduleFor(callback), UNCHANGED alive
  PROVE  CallbacksOfTheLiving'
<1>1. /\ DOMAIN callbacks' = DOMAIN callbacks \cup {nextCallbackId}
      /\ callbacks'[nextCallbackId] = callback
      /\ \A id \in DOMAIN callbacks : id # nextCallbackId => callbacks'[id] = callbacks[id]
  BY ScheduleAdds DEF ScheduleFor
<1>2. \A a \in Accessors : callbackIds[a] \subseteq callbackIds'[a]
  BY DEF ScheduleFor, TypeInv, RestOK
<1>3. callback.owner \in Accessors /\ nextCallbackId \in callbackIds'[callback.owner]
  BY DEF ScheduleFor, TypeInv, RestOK, Callback
<1> SUFFICES ASSUME NEW id \in DOMAIN callbacks'
             PROVE  /\ callbacks'[id].owner \in alive'
                    /\ callbacks'[id] # React => id \in callbackIds'[callbacks'[id].owner]
  BY DEF CallbacksOfTheLiving, React, Code
<1>4. CASE id = nextCallbackId
  BY <1>1, <1>3, <1>4
<1>5. CASE id # nextCallbackId
  <2>1. id \in DOMAIN callbacks /\ callbacks'[id] = callbacks[id]
    BY <1>1, <1>5
  <2>2. callbacks[id].owner \in Accessors
    BY <2>1 DEF TypeInv, DirectorOK, Callback
  <2> QED BY <1>2, <2>1, <2>2 DEF CallbacksOfTheLiving
<1> QED BY <1>4, <1>5

\* Fewer callbacks, with the accessors and their ids as they were.
LEMMA FewerCallbacksKeepOwners ==
  ASSUME CallbacksOfTheLiving, UNCHANGED callbackIds, alive \subseteq alive',
         DOMAIN callbacks' \subseteq DOMAIN callbacks,
         \A id \in DOMAIN callbacks' : callbacks'[id] = callbacks[id]
  PROVE  CallbacksOfTheLiving'
  BY DEF CallbacksOfTheLiving, React, Code

\* The destructors clear the callbacks of what they destroy.
LEMMA DestroyKeepsOwners ==
  ASSUME TypeInv, CallbacksOfTheLiving,
         NEW children \in SUBSET (Accessors \ {Host}), Destroy(children)
  PROVE  CallbacksOfTheLiving'
<1> DEFINE dead == alive \cap UNION {Subtree[x] : x \in children}
           ids == UNION {callbackIds[a] : a \in dead}
<1>1. /\ Clear(ids)
      /\ callbackIds' = [a \in Accessors |-> IF a \in dead THEN {} ELSE callbackIds[a]]
      /\ alive' = alive \ dead
  BY DEF Destroy
<1>2. /\ DOMAIN callbacks' \subseteq DOMAIN callbacks \ ids
      /\ \A id \in DOMAIN callbacks' : callbacks'[id] = callbacks[id]
  BY <1>1, ClearRemoves DEF TypeInv
<1>3. Host \notin dead
  BY HostIsOutermost
<1> SUFFICES ASSUME NEW id \in DOMAIN callbacks'
             PROVE  /\ callbacks'[id].owner \in alive'
                    /\ callbacks'[id] # React => id \in callbackIds'[callbacks'[id].owner]
  BY DEF CallbacksOfTheLiving, React, Code
<1> DEFINE owner == callbacks[id].owner
<1>4. /\ id \in DOMAIN callbacks /\ callbacks'[id] = callbacks[id] /\ id \notin ids
      /\ owner \in alive /\ owner \in Accessors
      /\ callbacks[id] # React => id \in callbackIds[owner]
  BY <1>2 DEF CallbacksOfTheLiving, TypeInv, RestOK
<1>5. owner \notin dead
  <2>1. CASE callbacks[id] = React
    BY <2>1, <1>3 DEF React, Code
  <2>2. CASE callbacks[id] # React
    BY <2>2, <1>4
  <2> QED BY <2>1, <2>2
<1>6. callbackIds'[owner] = callbackIds[owner]
  BY <1>1, <1>4, <1>5
<1> QED BY <1>1, <1>4, <1>5, <1>6

LEMMA NextKeepsOwners ==
  TypeInv /\ CallbacksOfTheLiving /\ [Next]_vars => CallbacksOfTheLiving'
<1> SUFFICES ASSUME TypeInv, CallbacksOfTheLiving, [Next]_vars PROVE CallbacksOfTheLiving'
  OBVIOUS
<1>1. CASE UNCHANGED vars
  BY <1>1, FewerCallbacksKeepOwners DEF vars, director
<1>2. ASSUME NEW c \in CodeCallbacks, ScheduleCallback(c[1], c[2]) PROVE CallbacksOfTheLiving'
  <2>1. Code(c[1], c[2]) \in Callback /\ Code(c[1], c[2]).owner = c[1]
    BY CallbacksAreRecords DEF Kinds, Code
  <2> QED BY <1>2, <2>1, ScheduleForKeepsOwners DEF ScheduleCallback, Acting
<1>3. ASSUME NEW p \in Outputs, SendOutput(p) PROVE CallbacksOfTheLiving'
  <2>1. Output(p) \in Callback /\ Output(p).owner = Owner[p]
    BY CallbacksAreRecords DEF Output
  <2> QED BY <1>3, <2>1, ScheduleForKeepsOwners DEF SendOutput, Acting
<1>4. ASSUME NEW a \in Accessors, NEW id \in Ids, ClearScheduledCallback(a, id)
      PROVE  CallbacksOfTheLiving'
  <2>1. /\ DOMAIN callbacks' \subseteq DOMAIN callbacks \ {id}
        /\ \A i \in DOMAIN callbacks' : callbacks'[i] = callbacks[i]
    BY <1>4, ClearRemoves DEF ClearScheduledCallback, TypeInv
  <2>2. \A b \in Accessors, i \in Ids \ {id} : i \in callbackIds[b] => i \in callbackIds'[b]
    BY <1>4 DEF ClearScheduledCallback, TypeInv, RestOK
  <2>3. \A i \in DOMAIN callbacks : i \in Ids /\ callbacks[i].owner \in Accessors
    BY DEF TypeInv, DirectorOK, Ids, Callback
  <2>4. alive' = alive
    BY <1>4 DEF ClearScheduledCallback
  <2> QED BY <2>1, <2>2, <2>3, <2>4 DEF CallbacksOfTheLiving, React, Code
<1>5. ASSUME NEW a \in Accessors, ClearAllScheduledCallbacks(a) PROVE CallbacksOfTheLiving'
  <2>1. /\ DOMAIN callbacks' \subseteq DOMAIN callbacks \ callbackIds[a]
        /\ \A i \in DOMAIN callbacks' : callbacks'[i] = callbacks[i]
    BY <1>5, ClearRemoves DEF ClearAllScheduledCallbacks, TypeInv
  <2>2. /\ \A b \in Accessors \ {a} : callbackIds'[b] = callbackIds[b]
        /\ alive' = alive
    BY <1>5 DEF ClearAllScheduledCallbacks, TypeInv, RestOK
  <2>3. \A i \in DOMAIN callbacks : callbacks[i].owner \in Accessors
    BY DEF TypeInv, DirectorOK, Callback
  <2> QED BY <2>1, <2>2, <2>3 DEF CallbacksOfTheLiving, React, Code
<1>6. ASSUME NEW w \in Wires, Connect(w[1], w[2]) PROVE CallbacksOfTheLiving'
  BY <1>6, FewerCallbacksKeepOwners DEF Connect, director
<1>7. ASSUME NEW x \in Accessors \ {Host}, AddChild(x) PROVE CallbacksOfTheLiving'
  BY <1>7, FewerCallbacksKeepOwners DEF AddChild, director
<1>8. ASSUME NEW x \in Accessors \ {Host}, RemoveChild(x) PROVE CallbacksOfTheLiving'
  BY <1>8, DestroyKeepsOwners DEF RemoveChild
<1>9. ASSUME NEW c \in Composites, RemoveAllChildren(c) PROVE CallbacksOfTheLiving'
  <2>1. ChildrenOf(c) \in SUBSET (Accessors \ {Host})
    BY DEF ChildrenOf, TypeInv, RestOK
  <2> QED BY <1>9, <2>1, DestroyKeepsOwners DEF RemoveAllChildren
<1>10. ASSUME NEW c \in Composites, ChildrenChanged(c) PROVE CallbacksOfTheLiving'
  <2>1. Update \in Callback /\ Update.owner = Host /\ Host \in alive
    BY CallbacksAreRecords DEF Update, Code, TypeInv, RestOK
  <2> QED BY <1>10, <2>1, ScheduleForKeepsOwners DEF ChildrenChanged
<1>11. ASSUME NEW id \in Ids, RunCode(id) PROVE CallbacksOfTheLiving'
  BY <1>11, FewerCallbacksKeepOwners DEF RunCode
<1>12. ASSUME NEW id \in Ids, RunOutput(id) PROVE CallbacksOfTheLiving'
  <2>1. UNCHANGED <<alive, callbackIds>> /\ Host \in alive
    BY <1>12 DEF RunOutput, TypeInv, RestOK
  <2>2. React.owner = Host
    BY DEF React, Code
  <2>3. \A i \in DOMAIN callbacks' :
           \/ callbacks'[i] = React
           \/ i \in DOMAIN callbacks /\ callbacks'[i] = callbacks[i]
    BY <1>12, RunOutputOnCallbacks DEF TypeInv
  <2>4. CallbacksOfTheLiving' = \A i \in DOMAIN callbacks' :
           /\ callbacks'[i].owner \in alive
           /\ callbacks'[i] # React => i \in callbackIds[callbacks'[i].owner]
    BY <2>1 DEF CallbacksOfTheLiving, React, Code
  <2> QED BY <2>1, <2>2, <2>3, <2>4 DEF CallbacksOfTheLiving
<1>13. ASSUME NEW id \in Ids, RunUpdate(id) \/ ThrowFromUpdate(id) PROVE CallbacksOfTheLiving'
  BY <1>13, FinishRemoves, FewerCallbacksKeepOwners DEF RunUpdate, ThrowFromUpdate
<1>14. ASSUME NEW id \in Ids, RunReact(id) \/ ThrowFromReact(id) PROVE CallbacksOfTheLiving'
  BY <1>14, FinishRemoves, FewerCallbacksKeepOwners DEF RunReact, ThrowFromReact
<1>15. CASE Return \/ Throw
  BY <1>15, EndOfCodeKeepsDirectorOK, FewerCallbacksKeepOwners DEF Return, Throw, TypeInv
<1>16. CASE RoundEndsEmpty
  BY <1>16, RoundEndsEmptyClears, FewerCallbacksKeepOwners DEF RoundEndsEmpty, TypeInv
<1> QED BY <1>1, <1>2, <1>3, <1>4, <1>5, <1>6, <1>7, <1>8, <1>9, <1>10, <1>11, <1>12,
           <1>13, <1>14, <1>15, <1>16 DEF Next

\* No callback of an accessor survives it: the director never calls a function
\* that has captured an accessor that is gone (CallbacksOfTheLiving).
THEOREM CallbacksDieWithTheirOwner == Spec => []CallbacksOfTheLiving
  BY TypeInvHolds, InitCallbacksOfTheLiving, NextKeepsOwners, PTL DEF Spec

-----------------------------------------------------------------------------
(* The recorded ids.                                                        *)

\* An id that an accessor has recorded since the last reset has been given
\* since then, and to nobody else.
IdsAreOwn ==
    \A a \in Accessors : \A id \in callbackIds[a] \ staleIds[a] :
        /\ id < nextCallbackId
        /\ id \in DOMAIN callbacks => callbacks[id].owner = a /\ callbacks[id] # React

LEMMA FewerCallbacksKeepIds ==
  ASSUME IdsAreOwn, UNCHANGED nextCallbackId,
         \A a \in Accessors : callbackIds'[a] \ staleIds'[a] \subseteq callbackIds[a] \ staleIds[a],
         DOMAIN callbacks' \subseteq DOMAIN callbacks,
         \A id \in DOMAIN callbacks' : callbacks'[id] = callbacks[id]
  PROVE  IdsAreOwn'
  BY DEF IdsAreOwn, React, Code

LEMMA ScheduleForKeepsIds ==
  ASSUME TypeInv, IdsAreOwn, NEW callback \in Callback, callback # React, ScheduleFor(callback)
  PROVE  IdsAreOwn'
<1>1. /\ DOMAIN callbacks' = DOMAIN callbacks \cup {nextCallbackId}
      /\ callbacks'[nextCallbackId] = callback
      /\ \A id \in DOMAIN callbacks : id # nextCallbackId => callbacks'[id] = callbacks[id]
      /\ nextCallbackId' = nextCallbackId + 1 /\ nextCallbackId \in Nat
  BY ScheduleAdds DEF ScheduleFor, Schedule, TypeInv, DirectorOK
<1> SUFFICES ASSUME NEW a \in Accessors, NEW id \in callbackIds'[a] \ staleIds'[a]
             PROVE  /\ id < nextCallbackId'
                    /\ id \in DOMAIN callbacks' => callbacks'[id].owner = a /\ callbacks'[id] # React
  BY DEF IdsAreOwn, React, Code
<1>2. callback.owner \in Accessors
  BY DEF Callback
<1>3. \/ id = nextCallbackId /\ a = callback.owner
      \/ id \in callbackIds[a] \ staleIds[a]
  BY <1>2 DEF ScheduleFor, TypeInv, RestOK
<1>4. CASE id = nextCallbackId /\ a = callback.owner
  BY <1>1, <1>4
<1>5. CASE id \in callbackIds[a] \ staleIds[a]
  <2>1. id < nextCallbackId /\ id \in Nat
    BY <1>5 DEF IdsAreOwn, TypeInv, RestOK, Ids
  <2>2. id # nextCallbackId /\ id < nextCallbackId'
    BY <1>1, <2>1
  <2> QED BY <1>1, <1>5, <2>2 DEF IdsAreOwn
<1> QED BY <1>3, <1>4, <1>5

\* A reset makes every recorded id stale; any other clearing takes ids away.
LEMMA ClearKeepsIds ==
  ASSUME TypeInv, IdsAreOwn, NEW ids, Clear(ids),
         \A a \in Accessors : callbackIds'[a] \subseteq callbackIds[a]
  PROVE  IdsAreOwn'
<1>1. CASE ids # {} /\ queue \subseteq ids
  <2>1. staleIds' = callbackIds'
    BY <1>1 DEF Clear, Reset
  <2> QED BY <2>1 DEF IdsAreOwn
<1>2. CASE ~(ids # {} /\ queue \subseteq ids)
  <2>1. /\ staleIds' = [a \in Accessors |-> staleIds[a] \cap callbackIds'[a]]
        /\ nextCallbackId' = nextCallbackId
    BY <1>2 DEF Clear
  <2>2. \A a \in Accessors : callbackIds'[a] \ staleIds'[a] \subseteq callbackIds[a] \ staleIds[a]
    BY <2>1
  <2> QED BY <2>1, <2>2, ClearRemoves, FewerCallbacksKeepIds DEF TypeInv
<1> QED BY <1>1, <1>2

LEMMA NextKeepsIds == TypeInv /\ IdsAreOwn /\ [Next]_vars => IdsAreOwn'
<1> SUFFICES ASSUME TypeInv, IdsAreOwn, [Next]_vars PROVE IdsAreOwn'
  OBVIOUS
<1>1. CASE UNCHANGED <<callbackIds, staleIds, callbacks, nextCallbackId>>
  BY <1>1, FewerCallbacksKeepIds
<1>2. ASSUME NEW c \in CodeCallbacks, ScheduleCallback(c[1], c[2]) PROVE IdsAreOwn'
  <2>1. Code(c[1], c[2]) \in Callback /\ Code(c[1], c[2]) # React
    BY CallbacksAreRecords DEF Kinds, Code, React
  <2> QED BY <1>2, <2>1, ScheduleForKeepsIds DEF ScheduleCallback
<1>3. ASSUME NEW p \in Outputs, SendOutput(p) PROVE IdsAreOwn'
  <2>1. Output(p) \in Callback /\ Output(p) # React
    BY CallbacksAreRecords DEF Output, Code, React
  <2> QED BY <1>3, <2>1, ScheduleForKeepsIds DEF SendOutput
<1>4. ASSUME NEW a \in Accessors, NEW id \in Ids, ClearScheduledCallback(a, id) PROVE IdsAreOwn'
  BY <1>4, ClearKeepsIds DEF ClearScheduledCallback, TypeInv, RestOK
<1>5. ASSUME NEW a \in Accessors, ClearAllScheduledCallbacks(a) PROVE IdsAreOwn'
  BY <1>5, ClearKeepsIds DEF ClearAllScheduledCallbacks, TypeInv, RestOK
<1>6. ASSUME NEW children \in SUBSET (Accessors \ {Host}), Destroy(children) PROVE IdsAreOwn'
  BY <1>6, ClearKeepsIds DEF Destroy
<1>7. ASSUME NEW x \in Accessors \ {Host}, RemoveChild(x) PROVE IdsAreOwn'
  BY <1>6, <1>7 DEF RemoveChild
<1>8. ASSUME NEW c \in Composites, RemoveAllChildren(c) PROVE IdsAreOwn'
  <2>1. ChildrenOf(c) \in SUBSET (Accessors \ {Host})
    BY DEF ChildrenOf, TypeInv, RestOK
  <2> QED BY <1>6, <1>8, <2>1 DEF RemoveAllChildren
<1>9. ASSUME NEW c \in Composites, ChildrenChanged(c) PROVE IdsAreOwn'
  <2>1. Update \in Callback /\ Update # React
    BY CallbacksAreRecords DEF Update, Code, React
  <2> QED BY <1>9, <2>1, ScheduleForKeepsIds DEF ChildrenChanged
<1>10. ASSUME NEW id \in Ids, RunOutput(id) PROVE IdsAreOwn'
  <2>1. UNCHANGED <<callbackIds, staleIds>>
    BY <1>10 DEF RunOutput, Finish
  <2>2. nextCallbackId' \in Nat /\ nextCallbackId \in Nat /\ nextCallbackId <= nextCallbackId'
    BY <1>10 DEF RunOutput, Finish, TypeInv, DirectorOK
  <2>3. \A i \in DOMAIN callbacks' :
           \/ i = nextCallbackId
           \/ i \in DOMAIN callbacks /\ callbacks'[i] = callbacks[i]
    BY <1>10, RunOutputOnCallbacks DEF TypeInv
  <2>4. \A a \in Accessors : \A i \in callbackIds[a] \ staleIds[a] :
           i \in Nat /\ i < nextCallbackId
    BY DEF IdsAreOwn, TypeInv, RestOK, Ids
  <2>5. \A a \in Accessors : \A i \in callbackIds[a] \ staleIds[a] :
           i # nextCallbackId /\ i < nextCallbackId'
    BY <2>2, <2>4
  <2>6. IdsAreOwn' = \A a \in Accessors : \A i \in callbackIds[a] \ staleIds[a] :
           /\ i < nextCallbackId'
           /\ i \in DOMAIN callbacks' => callbacks'[i].owner = a /\ callbacks'[i] # React
    BY <2>1 DEF IdsAreOwn, React, Code
  <2> QED BY <2>3, <2>5, <2>6 DEF IdsAreOwn
<1>11. ASSUME NEW id \in Ids, Finish(id), UNCHANGED callbackIds PROVE IdsAreOwn'
  BY <1>11, FinishRemoves, FewerCallbacksKeepIds DEF Finish
<1>12. CASE Return \/ Throw
  BY <1>12, EndOfCodeKeepsDirectorOK, FewerCallbacksKeepIds DEF Return, Throw, TypeInv
<1>13. CASE RoundEndsEmpty
  <2>1. staleIds' = callbackIds'
    BY <1>13 DEF RoundEndsEmpty, Reset
  <2> QED BY <2>1 DEF IdsAreOwn
<1> QED BY <1>1, <1>2, <1>3, <1>4, <1>5, <1>7, <1>8, <1>9, <1>10, <1>11, <1>12, <1>13
        DEF Next, vars, director, Connect, AddChild, RunCode, RunUpdate, ThrowFromUpdate,
            RunReact, ThrowFromReact

\* An id that an accessor has recorded since the director last restarted them
\* is that of its own callback, or of none: ids of callbacks that have run are
\* not given to anybody else before that (ClearsOnlyItsOwnUnlessStale).
THEOREM IdsAreNotShared == Spec => []ClearsOnlyItsOwnUnlessStale
<1>1. Init => IdsAreOwn
  BY DEF Init, IdsAreOwn
<1>2. IdsAreOwn => ClearsOnlyItsOwnUnlessStale
  BY DEF IdsAreOwn, ClearsOnlyItsOwnUnlessStale
<1> QED BY <1>1, <1>2, TypeInvHolds, NextKeepsIds, PTL DEF Spec

-----------------------------------------------------------------------------
(* The wires.                                                               *)

\* What is repeated belongs to a port that has been doubled.
WiresOK ==
    /\ WiresOfTheLiving
    /\ \A w \in repeated : w[1] \in doubled

LEMMA SameWiresLive ==
  ASSUME WiresOK, UNCHANGED wiring, alive \subseteq alive'
  PROVE  WiresOK'
  BY DEF WiresOK, WiresOfTheLiving, wiring

LEMMA ConnectKeepsWires ==
  ASSUME TypeInv, WiresOK, NEW s \in Ports, NEW d \in Ports, Connect(s, d)
  PROVE  WiresOK'
<1>1. /\ source[d] \in {NoPort, s} /\ NoPort \notin Ports
      /\ source' = [source EXCEPT ![d] = s]
      /\ destinations' = [destinations EXCEPT ![s] = @ \cup {d}]
      /\ Owner[s] \in alive /\ Owner[d] \in alive /\ alive' = alive
  BY DEF Connect
<1>2. source \in [Ports -> Ports \cup {NoPort}] /\ destinations \in [Ports -> SUBSET Ports]
  BY DEF TypeInv, RestOK
<1>3. ASSUME NEW p \in Ports, NEW q \in Ports
      PROVE  /\ (source'[q] = p) <=> (q \in destinations'[p])
             /\ source'[q] = p => Owner[p] \in alive' /\ Owner[q] \in alive'
  <2>1. /\ (source[q] = p) <=> (q \in destinations[p])
        /\ source[q] = p => Owner[p] \in alive /\ Owner[q] \in alive
    BY DEF WiresOK, WiresOfTheLiving
  <2>2. CASE q = d
    BY <1>1, <1>2, <2>1, <2>2
  <2>3. CASE q # d
    BY <1>1, <1>2, <2>1, <2>3
  <2> QED BY <2>2, <2>3
<1>4. /\ danglingPorts' \subseteq doubled'
      /\ \A w \in repeated' : w[1] \in doubled'
  BY DEF Connect, WiresOK, WiresOfTheLiving
<1> QED BY <1>3, <1>4 DEF WiresOK, WiresOfTheLiving

\* A port that is destroyed disconnects itself at both of its ends, and the
\* ports it leaves dangling have it twice.
LEMMA DestroyKeepsWires ==
  ASSUME TypeInv, WiresOK, NEW children, Destroy(children)
  PROVE  WiresOK'
<1> DEFINE dead == alive \cap UNION {Subtree[x] : x \in children}
           dying == {p \in Ports : Owner[p] \in dead}
<1>1. DisconnectAll(dying) /\ alive' = alive \ dead
  BY DEF Destroy
<1>2. source \in [Ports -> Ports \cup {NoPort}] /\ destinations \in [Ports -> SUBSET Ports]
  BY DEF TypeInv, RestOK
<1>3. ASSUME NEW p \in Ports, NEW q \in Ports
      PROVE  /\ (source'[q] = p) <=> (q \in destinations'[p])
             /\ source'[q] = p => Owner[p] \in alive' /\ Owner[q] \in alive'
  <2>1. /\ (source[q] = p) <=> (q \in destinations[p])
        /\ source[q] = p => Owner[p] \in alive /\ Owner[q] \in alive
    BY DEF WiresOK, WiresOfTheLiving
  <2>2. source'[q] = IF q \in dying \/ (source[q] \in dying /\ q \in destinations[source[q]])
                     THEN NoPort ELSE source[q]
    BY <1>1 DEF DisconnectAll
  <2>3. destinations'[p] = IF p \in dying THEN {}
                           ELSE destinations[p] \ {d \in dying : source[d] = p}
    BY <1>1 DEF DisconnectAll
  <2>4. source'[q] = p <=> source[q] = p /\ q \notin dying /\ p \notin dying
    BY <2>1, <2>2, <1>2 DEF WiresOK, WiresOfTheLiving
  <2>5. q \in destinations'[p] <=> q \in destinations[p] /\ q \notin dying /\ p \notin dying
    BY <2>1, <2>3
  <2>6. source'[q] = p => Owner[p] \notin dead /\ Owner[q] \notin dead
    BY <2>4
  <2> QED BY <1>1, <2>1, <2>4, <2>5, <2>6
<1>4. /\ danglingPorts' \subseteq doubled'
      /\ \A w \in repeated' : w[1] \in doubled'
  <2>1. \A p \in dying : p \notin danglingPorts /\ \A w \in repeated : w[1] # p
    BY <1>1 DEF DisconnectAll, CanDisconnect
  <2>2. /\ repeated' = repeated \ {w \in repeated : w[2] \in dying}
        /\ danglingPorts' = danglingPorts \cup {w[1] : w \in {v \in repeated : v[2] \in dying}}
        /\ doubled' = doubled \ dying
    BY <1>1 DEF DisconnectAll, LeaveTheRepeated
  <2>3. danglingPorts \subseteq doubled /\ \A w \in repeated : w[1] \in doubled
    BY DEF WiresOK, WiresOfTheLiving
  <2>4. \A w \in repeated : w[1] \in doubled'
    BY <2>1, <2>2, <2>3
  <2>5. danglingPorts \subseteq doubled'
    BY <2>1, <2>2, <2>3
  <2> QED BY <2>2, <2>4, <2>5
<1> QED BY <1>3, <1>4 DEF WiresOK, WiresOfTheLiving

LEMMA NextKeepsWires == TypeInv /\ WiresOK /\ [Next]_vars => WiresOK'
<1> SUFFICES ASSUME TypeInv, WiresOK, [Next]_vars PROVE WiresOK'
  OBVIOUS
<1>1. ASSUME NEW w \in Wires, Connect(w[1], w[2]) PROVE WiresOK'
  BY <1>1, ConnectKeepsWires
<1>2. ASSUME NEW x \in Accessors \ {Host}, RemoveChild(x) PROVE WiresOK'
  BY <1>2, DestroyKeepsWires DEF RemoveChild
<1>3. ASSUME NEW c \in Composites, RemoveAllChildren(c) PROVE WiresOK'
  BY <1>3, DestroyKeepsWires DEF RemoveAllChildren
<1>4. ASSUME NEW x \in Accessors \ {Host}, AddChild(x) PROVE WiresOK'
  BY <1>4, SameWiresLive DEF AddChild
<1>5. CASE UNCHANGED <<wiring, alive>>
  BY <1>5, SameWiresLive
<1> QED BY <1>1, <1>2, <1>3, <1>4, <1>5 DEF Next, vars, ScheduleCallback, SendOutput,
           ClearScheduledCallback, ClearAllScheduledCallbacks, ChildrenChanged, RunCode, RunOutput,
           RunUpdate, ThrowFromUpdate, RunReact, ThrowFromReact, Return, Throw, RoundEndsEmpty

\* The two ends of a connection agree and exist, and no port points to a port
\* that is gone unless it was connected twice to one destination
\* (WiresOfTheLiving): otherwise data is only ever sent to ports that exist.
THEOREM WiresDieWithTheirPorts == Spec => []WiresOfTheLiving
<1>1. Init => WiresOK
  BY DEF Init, WiresOK, WiresOfTheLiving
<1>2. WiresOK => WiresOfTheLiving
  BY DEF WiresOK
<1> QED BY <1>1, <1>2, TypeInvHolds, NextKeepsWires, PTL DEF Spec

-----------------------------------------------------------------------------
(* The reaction queues.                                                     *)

\* The containers of what exists exist.
TreeIsClosed == \A a \in alive \ {Host} : Container[a] \in alive

LEMMA DestroyKeepsTree ==
  ASSUME TypeInv, TreeIsClosed, NEW children \in SUBSET (Accessors \ {Host}), Destroy(children)
  PROVE  TreeIsClosed'
<1> DEFINE dead == alive \cap UNION {Subtree[x] : x \in children}
<1>1. alive' = alive \ dead
  BY DEF Destroy
<1> SUFFICES ASSUME NEW a \in alive' \ {Host} PROVE Container[a] \in alive'
  BY DEF TreeIsClosed
<1>2. a \in alive /\ a \in Accessors \ {Host} /\ Container[a] \in alive
  BY <1>1 DEF TreeIsClosed, TypeInv, RestOK
<1>3. \A x \in children : Container[a] \in Subtree[x] => a \in Subtree[x]
  BY <1>2, SubtreeIsClosed
<1> QED BY <1>1, <1>2, <1>3

LEMMA NextKeepsTree == TypeInv /\ TreeIsClosed /\ [Next]_vars => TreeIsClosed'
<1> SUFFICES ASSUME TypeInv, TreeIsClosed, [Next]_vars PROVE TreeIsClosed'
  OBVIOUS
<1>1. ASSUME NEW x \in Accessors \ {Host}, RemoveChild(x) PROVE TreeIsClosed'
  BY <1>1, DestroyKeepsTree DEF RemoveChild
<1>2. ASSUME NEW c \in Composites, RemoveAllChildren(c) PROVE TreeIsClosed'
  <2>1. ChildrenOf(c) \in SUBSET (Accessors \ {Host})
    BY DEF ChildrenOf, TypeInv, RestOK
  <2> QED BY <1>2, <2>1, DestroyKeepsTree DEF RemoveAllChildren
<1>3. ASSUME NEW x \in Accessors \ {Host}, AddChild(x) PROVE TreeIsClosed'
  BY <1>3 DEF AddChild, Acting, TreeIsClosed
<1>4. CASE UNCHANGED alive
  BY <1>4 DEF TreeIsClosed
<1> QED BY <1>1, <1>2, <1>3, <1>4 DEF Next, vars, ScheduleCallback, SendOutput, Connect,
           ClearScheduledCallback, ClearAllScheduledCallbacks, ChildrenChanged, RunCode, RunOutput,
           RunUpdate, ThrowFromUpdate, RunReact, ThrowFromReact, Return, Throw, RoundEndsEmpty

LEMMA TreeIsClosedHolds == Spec => []TreeIsClosed
<1>1. Init => TreeIsClosed
  BY DEF Init, TreeIsClosed
<1> QED BY <1>1, TypeInvHolds, NextKeepsTree, PTL DEF Spec

\* A callback that is kept by a step stays scheduled.
LEMMA KeptStaysScheduled ==
  ASSUME NEW callback, callback \in Scheduled,
         \A id \in DOMAIN callbacks : callbacks[id] = callback =>
             id \in DOMAIN callbacks' /\ callbacks'[id] = callback
  PROVE  callback \in Scheduled'
  BY DEF Scheduled

\* Scheduling keeps what is scheduled.
LEMMA ScheduleKeepsScheduled ==
  ASSUME TypeInv, NEW new, Schedule(new), NEW callback \in Scheduled
  PROVE  callback \in Scheduled'
<1>1. \A id \in DOMAIN callbacks : id # nextCallbackId
  <2>1. nextCallbackId \in Nat /\ \A id \in DOMAIN callbacks : id \in Nat /\ id < nextCallbackId
    BY DEF TypeInv, DirectorOK
  <2> QED BY <2>1
<1> QED BY <1>1, ScheduleAdds, KeptStaysScheduled

\* A callback of the framework is kept by clearing, or counts as lost.
LEMMA ClearKeepsOrLoses ==
  ASSUME TypeInv, NEW ids, Clear(ids), NEW callback \in Scheduled,
         callback.kind \in {"update", "react"}
  PROVE  callback \in Scheduled' \/ callback.kind \in lost'
<1>1. CASE \E id \in ids \cap DOMAIN callbacks : callbacks[id] = callback
  <2>1. callback.kind \in {callbacks[id].kind : id \in ids \cap DOMAIN callbacks}
    BY <1>1
  <2> QED BY <2>1 DEF Clear
<1>2. CASE ~\E id \in ids \cap DOMAIN callbacks : callbacks[id] = callback
  <2>1. /\ \A id \in DOMAIN callbacks' : callbacks'[id] = callbacks[id]
        /\ \A id \in DOMAIN callbacks \ ids :
               callbacks[id].kind \notin {"once", "periodic"} => id \in DOMAIN callbacks'
    BY ClearRemoves DEF TypeInv
  <2>2. \A id \in DOMAIN callbacks : callbacks[id] = callback =>
             id \in DOMAIN callbacks' /\ callbacks'[id] = callback
    BY <1>2, <2>1
  <2> QED BY <2>2, KeptStaysScheduled
<1> QED BY <1>1, <1>2

\* What the steps do to a callback of the framework that is scheduled, and to
\* the record of those that are lost.
LEMMA FrameworkCallbacksStay ==
  ASSUME TypeInv, NEW callback \in Scheduled, callback \in {Update, React}, [Next]_vars
  PROVE  \/ callback \in Scheduled'
         \/ callback.kind \in lost'
         \/ \E id \in Ids : callback = Update /\ RunUpdate(id)
         \/ \E id \in Ids : callback = React /\ RunReact(id)
<1>1. callback.kind \in {"update", "react"} /\ Update.kind = "update" /\ React.kind = "react"
  BY DEF Update, React, Code
<1>2. ASSUME NEW new, Schedule(new) PROVE callback \in Scheduled'
  BY <1>2, ScheduleKeepsScheduled
<1>3. ASSUME NEW ids, Clear(ids) PROVE callback \in Scheduled' \/ callback.kind \in lost'
  BY <1>1, <1>3, ClearKeepsOrLoses
<1>4. CASE UNCHANGED callbacks
  BY <1>4 DEF Scheduled
<1>5. ASSUME NEW id \in Ids, Finish(id), callbacks[id].kind # callback.kind
      PROVE  callback \in Scheduled'
  BY <1>5, FinishRemoves, KeptStaysScheduled
<1>6. ASSUME NEW id \in Ids, RunOutput(id) PROVE callback \in Scheduled'
  <2>1. callbacks[id].kind = "output"
    BY <1>6 DEF RunOutput, RunInternal
  <2> QED BY <1>1, <1>6, <2>1, RunOutputOnCallbacks, KeptStaysScheduled DEF TypeInv
<1>7. ASSUME NEW id \in Ids, RunUpdate(id) \/ ThrowFromUpdate(id)
      PROVE  callback \in Scheduled' \/ callback = Update
  BY <1>1, <1>5, <1>7 DEF RunUpdate, ThrowFromUpdate, RunInternal
<1>8. ASSUME NEW id \in Ids, RunReact(id) \/ ThrowFromReact(id)
      PROVE  callback \in Scheduled' \/ callback = React
  BY <1>1, <1>5, <1>8 DEF RunReact, ThrowFromReact, RunInternal
<1>9. ASSUME NEW id \in Ids, ThrowFromUpdate(id) PROVE "update" \in lost'
  BY <1>9 DEF ThrowFromUpdate
<1>10. ASSUME NEW id \in Ids, ThrowFromReact(id) PROVE "react" \in lost'
  BY <1>10 DEF ThrowFromReact
<1>11. CASE Return \/ Throw
  BY <1>1, <1>11, EndOfCodeKeepsDirectorOK, KeptStaysScheduled DEF TypeInv
<1>12. CASE RoundEndsEmpty
  BY <1>12, RoundEndsEmptyClears DEF Scheduled, TypeInv
<1> QED BY <1>1, <1>2, <1>3, <1>4, <1>6, <1>7, <1>8, <1>9, <1>10, <1>11, <1>12
        DEF Next, vars, director, ScheduleCallback, SendOutput, ScheduleFor, ClearScheduledCallback,
            ClearAllScheduledCallbacks, RemoveChild, RemoveAllChildren, Destroy, ChildrenChanged,
            Connect, AddChild, RunCode

\* A reaction that is lost stays lost; an update is, until the next.
LEMMA LostStaysLost ==
  ASSUME TypeInv, [Next]_vars
  PROVE  /\ "react" \in lost => "react" \in lost'
         /\ "update" \in lost =>
               \/ "update" \in lost'
               \/ \E c \in Composites : ChildrenChanged(c)
               \/ \E id \in Ids : RunUpdate(id)
  BY Zenon DEF Next, vars, director, ScheduleCallback, SendOutput, ClearScheduledCallback,
         ClearAllScheduledCallbacks, RemoveChild, RemoveAllChildren, Destroy, Clear, ChildrenChanged,
         Connect, AddChild, RunCode, RunOutput, RunUpdate, ThrowFromUpdate, RunReact, ThrowFromReact,
         Return, Throw, RoundEndsEmpty

\* The request for a reaction stands behind reactionRequested.
RequestStands == reactionRequested => React \in Scheduled \/ "react" \in lost

LEMMA NextKeepsRequest == TypeInv /\ RequestStands /\ [Next]_vars => RequestStands'
<1> SUFFICES ASSUME TypeInv, RequestStands, [Next]_vars PROVE RequestStands'
  OBVIOUS
<1>1. React.kind = "react" /\ React # Update
  BY DEF React, Update, Code
<1>2. CASE React \in Scheduled \/ "react" \in lost
  <2>1. ASSUME NEW id \in Ids, RunReact(id) PROVE RequestStands'
    BY <2>1 DEF RunReact, RequestStands
  <2>2. React \in Scheduled' \/ "react" \in lost' \/ \E id \in Ids : RunReact(id)
    BY <1>1, <1>2, FrameworkCallbacksStay, LostStaysLost
  <2>3. CASE React \in Scheduled' \/ "react" \in lost'
    BY <2>3 DEF RequestStands, React, Code
  <2> QED BY <2>1, <2>2, <2>3
<1>3. CASE ~reactionRequested
  <2>1. CASE UNCHANGED reactionRequested
    BY <1>3, <2>1 DEF RequestStands
  <2>2. ASSUME NEW id \in Ids, RunOutput(id), ~UNCHANGED reactionRequested PROVE RequestStands'
    <3>1. nextCallbackId \in DOMAIN callbacks' /\ callbacks'[nextCallbackId] = React
      BY <2>2, RunOutputOnCallbacks DEF TypeInv
    <3> QED BY <3>1 DEF RequestStands, Scheduled, React, Code
  <2>3. ASSUME NEW id \in Ids, RunReact(id) PROVE RequestStands'
    BY <2>3 DEF RunReact, RequestStands
  <2> QED BY <2>1, <2>2, <2>3 DEF Next, vars, reactions, ScheduleCallback, SendOutput, Connect,
             ClearScheduledCallback, ClearAllScheduledCallbacks, AddChild, RemoveChild,
             RemoveAllChildren, Destroy, ChildrenChanged, RunCode, RunUpdate, ThrowFromUpdate,
             ThrowFromReact, Return, Throw, RoundEndsEmpty
<1> QED BY <1>2, <1>3 DEF RequestStands

LEMMA RequestStandsHolds == Spec => []RequestStands
<1>1. Init => RequestStands
  BY DEF Init, RequestStands
<1> QED BY <1>1, TypeInvHolds, NextKeepsRequest, PTL DEF Spec

\* A composite from which a child has to be taken.
Pending(c) == childEventQueue[c] # {} \/ c \in danglingQueues

\* Every such composite is queued, up to the host.
QueuesReach ==
    \/ "react" \in lost
    \/ \A c \in Composites : Pending(c) =>
           IF c = Host THEN reactionRequested ELSE c \in childEventQueue[Container[c]]

LEMMA SameQueuesReach ==
  ASSUME TypeInv, QueuesReach, UNCHANGED reactions, [Next]_vars
  PROVE  QueuesReach'
  BY LostStaysLost DEF QueuesReach, Pending, reactions

\* Data that reaches an atomic accessor queues it and all its containers.
LEMMA RunOutputKeepsQueues ==
  ASSUME TypeInv, TreeIsClosed, QueuesReach, NEW id \in Ids, RunOutput(id), "react" \notin lost
  PROVE  QueuesReach'
<1> PICK alerted \in SUBSET Accessors :
            LET queued == {a \in alive \ {Host} : \E r \in alerted : r \in Subtree[a]}
            IN  /\ childEventQueue' = [c \in Composites |->
                                          childEventQueue[c] \cup {a \in queued : Container[a] = c}]
                /\ alerted # {} => reactionRequested'
                /\ reactionRequested => reactionRequested'
  BY RunOutputOnQueues
<1> DEFINE queued == {a \in alive \ {Host} : \E r \in alerted : r \in Subtree[a]}
<1>1. /\ childEventQueue' = [c \in Composites |->
                                childEventQueue[c] \cup {a \in queued : Container[a] = c}]
      /\ danglingQueues' = danglingQueues
  BY DEF RunOutput
<1> SUFFICES ASSUME NEW c \in Composites, Pending(c)'
             PROVE  IF c = Host THEN reactionRequested' ELSE c \in childEventQueue'[Container[c]]
  BY DEF QueuesReach
<1>2. CASE Pending(c)
  <2>1. c # Host => Container[c] \in Composites
    BY DEF Accessors
  <2> QED BY <1>1, <1>2, <2>1 DEF QueuesReach
<1>3. CASE ~Pending(c)
  <2>1. PICK a \in queued : Container[a] = c
    BY <1>1, <1>3 DEF Pending
  <2>2. PICK r \in alerted : r \in Subtree[a]
    BY <2>1
  <2>3. CASE c = Host
    BY <2>2, <2>3
  <2>4. CASE c # Host
    <3>1. a \in Accessors /\ a # Host /\ a \in alive /\ c \in Accessors
      BY <2>1 DEF TypeInv, RestOK, Accessors
    <3>2. c \in alive
      BY <2>1, <3>1 DEF TreeIsClosed
    <3>3. a \in Subtree[c]
      BY <2>1, <3>1, SubtreeIsClosed
    <3>4. r \in Subtree[c]
      BY <2>2, <3>1, <3>3, SubtreesAreNested
    <3>5. c \in queued /\ Container[c] \in Composites
      BY <2>2, <2>4, <3>1, <3>2, <3>4
    <3> QED BY <1>1, <2>4, <3>5
  <2> QED BY <2>3, <2>4
<1> QED BY <1>2, <1>3

\* What dies leaves its container waiting, which was queued for it already.
LEMMA DestroyKeepsQueues ==
  ASSUME TypeInv, QueuesReach, NEW children \in SUBSET (Accessors \ {Host}), Destroy(children)
  PROVE  QueuesReach'
<1> DEFINE dead == alive \cap UNION {Subtree[x] : x \in children}
<1>1. /\ childEventQueue' = [c \in Composites |->
                                IF c \in dead THEN {} ELSE childEventQueue[c] \ dead]
      /\ danglingQueues' =
             (danglingQueues \cup {c \in Composites : childEventQueue[c] \cap dead # {}}) \ dead
      /\ reactionRequested' = reactionRequested
      /\ lost \subseteq lost'
  BY DEF Destroy, Clear
<1> SUFFICES ASSUME "react" \notin lost, NEW c \in Composites, Pending(c)'
             PROVE  IF c = Host THEN reactionRequested' ELSE c \in childEventQueue'[Container[c]]
  BY <1>1 DEF QueuesReach
<1>2. Pending(c) /\ c \notin dead
  BY <1>1 DEF Pending
<1>3. CASE c = Host
  BY <1>1, <1>2, <1>3 DEF QueuesReach
<1>4. CASE c # Host
  <2>1. /\ c \in childEventQueue[Container[c]] /\ Container[c] \in Composites
        /\ c \in Accessors \ {Host}
    BY <1>2, <1>4 DEF QueuesReach, Accessors
  <2>2. c \in alive
    BY <2>1 DEF TypeInv, RestOK
  <2>3. Container[c] \notin dead
    BY <1>2, <2>1, <2>2, SubtreeIsClosed
  <2> QED BY <1>1, <1>2, <1>4, <2>1, <2>3
<1> QED BY <1>3, <1>4

LEMMA NextKeepsQueues ==
  TypeInv /\ TreeIsClosed /\ QueuesReach /\ [Next]_vars => QueuesReach'
<1> SUFFICES ASSUME TypeInv, TreeIsClosed, QueuesReach, [Next]_vars, "react" \notin lost
             PROVE  QueuesReach'
  BY LostStaysLost DEF QueuesReach
<1>1. ASSUME NEW x \in Accessors \ {Host}, RemoveChild(x) PROVE QueuesReach'
  BY <1>1, DestroyKeepsQueues DEF RemoveChild
<1>2. ASSUME NEW c \in Composites, RemoveAllChildren(c) PROVE QueuesReach'
  <2>1. ChildrenOf(c) \in SUBSET (Accessors \ {Host})
    BY DEF ChildrenOf, TypeInv, RestOK
  <2> QED BY <1>2, <2>1, DestroyKeepsQueues DEF RemoveAllChildren
<1>3. ASSUME NEW id \in Ids, RunOutput(id) PROVE QueuesReach'
  BY <1>3, RunOutputKeepsQueues
<1>4. ASSUME NEW id \in Ids, RunReact(id) PROVE QueuesReach'
  <2>1. (\A c \in Composites : childEventQueue'[c] = {}) /\ danglingQueues' = {}
    BY <1>4 DEF RunReact
  <2> QED BY <2>1 DEF QueuesReach, Pending
<1>5. ASSUME NEW id \in Ids, ThrowFromReact(id) PROVE QueuesReach'
  BY <1>5 DEF ThrowFromReact, QueuesReach
<1>6. CASE UNCHANGED reactions
  BY <1>6, SameQueuesReach
<1> QED BY <1>1, <1>2, <1>3, <1>4, <1>5, <1>6 DEF Next, vars, ScheduleCallback, SendOutput, Connect,
           ClearScheduledCallback, ClearAllScheduledCallbacks, AddChild, ChildrenChanged, RunCode,
           RunUpdate, ThrowFromUpdate, Return, Throw, RoundEndsEmpty

LEMMA QueuesReachHolds == Spec => []QueuesReach
<1>1. Init => QueuesReach
  BY DEF Init, QueuesReach, Pending
<1> QED BY <1>1, TypeInvHolds, TreeIsClosedHolds, NextKeepsQueues, PTL DEF Spec

\* Every child that has to react, one that has been destroyed included, is
\* reached by the host's callback, unless that callback was cleared by an
\* accessor with an id from before a reset or a reaction threw
\* (QueuedChildrenAreReached).
THEOREM QueuedChildrenReact == Spec => []QueuedChildrenAreReached
<1>1. QueuesReach /\ RequestStands => QueuedChildrenAreReached
  BY DEF QueuesReach, RequestStands, QueuedChildrenAreReached, Pending
<1> QED BY <1>1, QueuesReachHolds, RequestStandsHolds, PTL

-----------------------------------------------------------------------------
(* The announced children.                                                  *)

AnnouncedOK ==
    /\ \A a \in announced : a # Host /\ Container[a] = Host
    /\ AnnouncedChildrenAreInitialized

LEMMA NextKeepsAnnounced == TypeInv /\ AnnouncedOK /\ [Next]_vars => AnnouncedOK'
<1> SUFFICES ASSUME TypeInv, AnnouncedOK, [Next]_vars PROVE AnnouncedOK'
  OBVIOUS
<1>1. Update.kind = "update" /\ Update # React
  BY DEF Update, React, Code
<1>2. ASSUME NEW c \in Composites, ChildrenChanged(c) PROVE AnnouncedOK'
  <2>1. Update \in Scheduled'
    BY <1>2, ScheduleAdds DEF ChildrenChanged, ScheduleFor, Scheduled, Update, Code
  <2>2. \A a \in announced' : a # Host /\ Container[a] = Host
    BY <1>2 DEF ChildrenChanged, ChildrenOf, AnnouncedOK
  <2> QED BY <2>1, <2>2 DEF AnnouncedOK, AnnouncedChildrenAreInitialized, Update, Code
<1>3. ASSUME NEW id \in Ids, RunUpdate(id) PROVE AnnouncedOK'
  <2>1. announced' = announced /\ alive' = alive /\ initialized' = Initialized({Host})
    BY <1>3 DEF RunUpdate
  <2>2. \A a \in announced : a \in initialized'
    <3> SUFFICES ASSUME NEW a \in announced, a \notin initialized PROVE a \in initialized'
      BY <2>1 DEF Initialized
    <3>1. a \in New({Host}) /\ a \in Subtree[a] /\ a \in alive
      BY SubtreeIsClosed DEF AnnouncedOK, New, TypeInv, RestOK
    <3> QED BY <2>1, <3>1 DEF Initialized
  <2> QED BY <2>1, <2>2 DEF AnnouncedOK, AnnouncedChildrenAreInitialized
<1>4. CASE /\ ~\E c \in Composites : ChildrenChanged(c)
           /\ ~\E id \in Ids : RunUpdate(id)
  <2>1. announced' \subseteq announced /\ announced' \cap initialized \subseteq initialized'
    <3>1. CASE UNCHANGED <<announced, initialized>>
      BY <3>1
    <3>2. ASSUME NEW children, Destroy(children)
          PROVE  announced' \subseteq announced /\ announced' \cap initialized \subseteq initialized'
      BY <3>2 DEF Destroy
    <3>3. ASSUME NEW id \in Ids, ThrowFromUpdate(id)
          PROVE  announced' \subseteq announced /\ announced' \cap initialized \subseteq initialized'
      BY <3>3 DEF ThrowFromUpdate, PartlyInitialized
    <3> QED BY <1>4, <3>1, <3>2, <3>3 DEF Next, vars, ScheduleCallback, SendOutput, Connect,
               ClearScheduledCallback, ClearAllScheduledCallbacks, AddChild, RemoveChild,
               RemoveAllChildren, RunCode, RunOutput, RunReact, ThrowFromReact, Return, Throw,
               RoundEndsEmpty
  <2>2. Update \in Scheduled \/ "update" \in lost => Update \in Scheduled' \/ "update" \in lost'
    BY <1>1, <1>4, FrameworkCallbacksStay, LostStaysLost
  <2> QED BY <2>1, <2>2 DEF AnnouncedOK, AnnouncedChildrenAreInitialized, Update, Code
<1> QED BY <1>2, <1>3, <1>4

\* A child of the host that was announced is initialized, or will be, unless
\* the callback that does it was cleared or threw since the host was last told
\* of a change (AnnouncedChildrenAreInitialized).
THEOREM AnnouncedChildren == Spec => []AnnouncedChildrenAreInitialized
<1>1. Init => AnnouncedOK
  BY DEF Init, AnnouncedOK, AnnouncedChildrenAreInitialized
<1>2. AnnouncedOK => AnnouncedChildrenAreInitialized
  BY DEF AnnouncedOK
<1> QED BY <1>1, <1>2, TypeInvHolds, NextKeepsAnnounced, PTL DEF Spec
=============================================================================
