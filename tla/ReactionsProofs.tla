--------------------------- MODULE ReactionsProofs ---------------------------
(***************************************************************************)
(* The safety properties of Reactions for every tree of accessors, every   *)
(* wiring and every number of events: nothing below depends on the order   *)
(* in which the Director runs the callbacks of an instant.                 *)
(***************************************************************************)
EXTENDS Reactions, FiniteSetTheorems, SequenceTheorems, TLAPS

-----------------------------------------------------------------------------
(* The tree of accessors.                                                   *)

\* The container of an accessor is around it, and so is whatever is around
\* that.
LEMMA AroundIsClosed ==
  ASSUME NEW x \in Accessors \ {Host}
  PROVE  /\ Parent[x] \in Around[x]
         /\ \A y \in Around[x] \ {Host} : Parent[y] \in Around[x]
<1>1. Parent[x] \in Around[x]
  BY ModelAssumption DEF Around, Accessors
<1>2. ASSUME NEW y \in Around[x] \ {Host}
      PROVE  Parent[y] \in Around[x]
  <2>1. y \in Accessors /\ Parent[y] \in Composites
    BY ModelAssumption DEF Around, Accessors
  <2>2. SUFFICES ASSUME NEW S \in SUBSET Accessors,
                        \A z \in Accessors \ {Host} : z \in S \cup {x} => Parent[z] \in S
                 PROVE  Parent[y] \in S
    BY ModelAssumption, <2>1 DEF Around
  <2>3. y \in S
    BY <2>2 DEF Around
  <2> QED BY <2>1, <2>2, <2>3
<1> QED BY <1>1, <1>2

\* Between an accessor and a composite around it lies a child of that composite.
LEMMA AroundHasChild ==
  ASSUME NEW x \in Accessors \ {Host}, NEW c \in Around[x]
  PROVE  \E y \in ({x} \cup Around[x]) \ {Host} : Parent[y] = c
<1> DEFINE S == {Parent[y] : y \in ({x} \cup Around[x]) \ {Host}}
<1>1. Around[x] \subseteq Accessors
  BY ModelAssumption DEF Around, Accessors
<1>2. S \in SUBSET Accessors
  BY ModelAssumption, <1>1 DEF Accessors
<1>3. \A z \in Accessors \ {Host} : z \in S \cup {x} => Parent[z] \in S
  BY ModelAssumption, AroundIsClosed
<1>4. \A T \in SUBSET Accessors :
        (\A z \in Accessors \ {Host} : z \in T \cup {x} => Parent[z] \in T) => c \in T
  BY ModelAssumption DEF Around
<1>5. c \in S
  <2> HIDE DEF S
  <2> QED BY <1>2, <1>3, <1>4
<1> QED BY <1>5

\* What is around a composite is around what it contains.
LEMMA AroundIsTransitive ==
  ASSUME NEW x \in Accessors \ {Host}, NEW c \in Around[x] \ {Host}
  PROVE  Around[c] \subseteq Around[x]
<1>1. c \in Accessors /\ Around[x] \in SUBSET Accessors
  BY ModelAssumption DEF Around, Accessors
<1>2. \A z \in Accessors \ {Host} : z \in Around[x] \cup {c} => Parent[z] \in Around[x]
  BY ModelAssumption, AroundIsClosed
<1> SUFFICES ASSUME NEW d \in Around[c] PROVE d \in Around[x]
  OBVIOUS
<1>3. \A S \in SUBSET Accessors :
        (\A z \in Accessors \ {Host} : z \in S \cup {c} => Parent[z] \in S) => d \in S
  BY <1>1 DEF Around
<1> QED BY <1>1, <1>2, <1>3

LEMMA OwnerOfPort ==
  ASSUME NEW p \in InputPorts
  PROVE  /\ Owner(p) \in Atomics
         /\ \E i \in 1..Len(InputsOf[Owner(p)]) : InputsOf[Owner(p)][i] = p
<1>1. \E a \in Atomics : p \in Range(InputsOf[a])
  BY ModelAssumption DEF InputPorts
<1>2. Owner(p) \in Atomics /\ p \in Range(InputsOf[Owner(p)])
  BY <1>1 DEF Owner
<1> QED BY <1>2 DEF Range

-----------------------------------------------------------------------------
(* The Director's queue.                                                    *)

\* New callbacks are put somewhere into the queue, and the rest is not changed.
LEMMA QueueAllInserts ==
  ASSUME NEW q \in Seq(Callback), NEW new \in Seq(Callback), NEW n \in Nat
  PROVE  /\ QueueAll(q, new, n) \in Seq(Callback)
         /\ Len(QueueAll(q, new, n)) = Len(q) + Len(new)
         /\ \E k \in 0..Len(q) : \A i \in 1..(Len(q) + Len(new)) :
              QueueAll(q, new, n)[i] = IF i <= k THEN q[i]
                                       ELSE IF i <= k + Len(new) THEN new[i - k]
                                       ELSE q[i - Len(new)]
<1> DEFINE k == Cardinality({i \in DOMAIN q : q[i].priority <= n})
<1>1. k \in 0..Len(q)
  <2>1. IsFiniteSet(1..Len(q)) /\ Cardinality(1..Len(q)) = Len(q)
    <3>1. PICK l \in Nat : l = Len(q)
      OBVIOUS
    <3>2. IsFiniteSet(1..l) /\ Cardinality(1..l) = IF 1 > l THEN 0 ELSE l - 1 + 1
      BY FS_Interval
    <3>3. Cardinality(1..l) = l
      BY <3>2
    <3> QED BY <3>1, <3>2, <3>3
  <2>2. {i \in DOMAIN q : q[i].priority <= n} \subseteq 1..Len(q)
    OBVIOUS
  <2>3. IsFiniteSet({i \in DOMAIN q : q[i].priority <= n}) /\ k <= Len(q)
    BY <2>1, <2>2, FS_Subset
  <2>4. k \in Nat
    BY <2>3, FS_CardinalityType
  <2> QED BY <2>3, <2>4
<1> DEFINE a == SubSeq(q, 1, k)
           b == SubSeq(q, k + 1, Len(q))
<1>2. QueueAll(q, new, n) = a \o new \o b
  BY DEF QueueAll
<1> HIDE DEF k
<1>3. /\ a \in Seq(Callback) /\ Len(a) = k
      /\ \A i \in 1..k : a[i] = q[i]
  <2>1. \A i \in 1..k : q[i] \in Callback
    BY <1>1
  <2> QED BY <1>1, <2>1, SubSeqProperties, Z3
<1>4. /\ b \in Seq(Callback) /\ Len(b) = Len(q) - k
      /\ \A i \in 1..(Len(q) - k) : b[i] = q[k + i]
  <2>1. \A i \in (k + 1)..Len(q) : q[i] \in Callback
    BY <1>1
  <2> QED BY <1>1, <2>1, SubSeqProperties, Z3
<1> HIDE DEF a, b
<1> DEFINE c == a \o new
<1>5. /\ c \in Seq(Callback) /\ Len(c) = k + Len(new)
      /\ \A i \in 1..(k + Len(new)) : c[i] = IF i <= k THEN a[i] ELSE new[i - k]
  BY <1>3, ConcatProperties
<1> HIDE DEF c
<1>6. /\ c \o b \in Seq(Callback) /\ Len(c \o b) = Len(q) + Len(new)
      /\ \A i \in 1..(Len(q) + Len(new)) :
           (c \o b)[i] = IF i <= k + Len(new) THEN c[i] ELSE b[i - (k + Len(new))]
  <2>1. /\ c \o b \in Seq(Callback) /\ Len(c \o b) = Len(c) + Len(b)
        /\ \A i \in 1..(Len(c) + Len(b)) :
             (c \o b)[i] = IF i <= Len(c) THEN c[i] ELSE b[i - Len(c)]
    BY <1>4, <1>5, ConcatProperties
  <2>2. Len(c) + Len(b) = Len(q) + Len(new)
    BY <1>1, <1>4, <1>5
  <2> QED BY <1>5, <2>1, <2>2
<1>7. ASSUME NEW i \in 1..(Len(q) + Len(new))
      PROVE  (c \o b)[i] = IF i <= k THEN q[i]
                          ELSE IF i <= k + Len(new) THEN new[i - k]
                          ELSE q[i - Len(new)]
  <2>1. k \in Nat /\ i \in Nat /\ i >= 1 /\ Len(new) \in Nat /\ Len(q) \in Nat
    BY <1>1
  <2>2. CASE i <= k
    BY <1>3, <1>5, <1>6, <2>1, <2>2
  <2>3. CASE i > k /\ i <= k + Len(new)
    <3>1. (c \o b)[i] = c[i] /\ c[i] = new[i - k]
      BY <1>5, <1>6, <2>1, <2>3
    <3> QED BY <2>1, <2>3, <3>1
  <2>4. CASE i > k + Len(new)
    <3>1. (c \o b)[i] = b[i - (k + Len(new))] /\ ~ (i <= k) /\ ~ (i <= k + Len(new))
      BY <1>6, <2>1, <2>4
    <3>2. i - (k + Len(new)) \in 1..(Len(q) - k) /\ k + (i - (k + Len(new))) = i - Len(new)
      BY <1>1, <2>1, <2>4
    <3>3. b[i - (k + Len(new))] = q[k + (i - (k + Len(new)))]
      BY <1>4, <3>2
    <3> QED BY <3>1, <3>2, <3>3
  <2>5. i <= k \/ (i > k /\ i <= k + Len(new)) \/ i > k + Len(new)
    BY <2>1
  <2> QED BY <2>2, <2>3, <2>4, <2>5
<1>8. QueueAll(q, new, n) = c \o b
  BY <1>2 DEF c
<1> QED BY <1>1, <1>6, <1>7, <1>8

Reacts(q) == {i \in DOMAIN q : q[i].kind = "react"}
AtMostOne(q) == \A i, j \in Reacts(q) : i = j

\* Outputs do not change whether a reaction is scheduled.
LEMMA QueueOutputs ==
  ASSUME NEW q \in Seq(Callback), NEW new \in Seq(Callback), NEW n \in Nat, Reacts(new) = {}
  PROVE  /\ AtMostOne(q) => AtMostOne(QueueAll(q, new, n))
         /\ Reacts(QueueAll(q, new, n)) = {} <=> Reacts(q) = {}
<1> DEFINE r == QueueAll(q, new, n)
           m == Len(new)
<1>1. PICK k \in 0..Len(q) : \A i \in 1..(Len(q) + m) :
              r[i] = IF i <= k THEN q[i] ELSE IF i <= k + m THEN new[i - k] ELSE q[i - m]
  BY QueueAllInserts
<1>2. DOMAIN r = 1..(Len(q) + m) /\ DOMAIN q = 1..Len(q) /\ m \in Nat /\ Len(q) \in Nat
  <2>1. r \in Seq(Callback) /\ Len(r) = Len(q) + m
    BY QueueAllInserts
  <2> HIDE DEF r
  <2> QED BY <2>1
<1>3. \A i \in 1..m : new[i].kind # "react"
  BY DEF Reacts
<1> HIDE DEF r, m
<1>4. ASSUME NEW i \in Reacts(r)
      PROVE  (i <= k /\ i \in Reacts(q)) \/ (i > k + m /\ i - m \in Reacts(q))
  <2>1. i \in 1..(Len(q) + m) /\ r[i].kind = "react"
    BY <1>2, <1>4 DEF Reacts
  <2>2. CASE i <= k
    BY <1>1, <1>2, <2>1, <2>2 DEF Reacts
  <2>3. CASE i > k /\ i <= k + m
    <3>1. r[i] = new[i - k] /\ i - k \in 1..m
      BY <1>1, <1>2, <2>1, <2>3
    <3> QED BY <1>3, <2>1, <3>1
  <2>4. CASE i > k + m
    <3>1. r[i] = q[i - m] /\ i - m \in 1..Len(q)
      BY <1>1, <1>2, <2>1, <2>4
    <3> QED BY <1>2, <2>1, <2>4, <3>1 DEF Reacts
  <2> QED BY <1>1, <1>2, <2>1, <2>2, <2>3, <2>4
<1>5. AtMostOne(q) => AtMostOne(r)
  <2> SUFFICES ASSUME AtMostOne(q), NEW i \in Reacts(r), NEW j \in Reacts(r) PROVE i = j
    BY DEF AtMostOne
  <2>1. i \in Int /\ j \in Int /\ k \in Nat /\ m \in Nat
    BY <1>2 DEF Reacts
  <2> QED BY <1>4, <2>1 DEF AtMostOne
<1>6. ASSUME NEW i \in Reacts(q) PROVE Reacts(r) # {}
  <2>1. i \in 1..Len(q) /\ q[i].kind = "react"
    BY <1>2 DEF Reacts
  <2>2. CASE i <= k
    BY <1>1, <1>2, <2>1, <2>2 DEF Reacts
  <2>3. CASE i > k
    <3>1. r[i + m] = q[(i + m) - m] /\ i + m \in 1..(Len(q) + m)
      BY <1>1, <1>2, <2>1, <2>3
    <3>2. (i + m) - m = i
      BY <1>2, <2>1
    <3> QED BY <1>2, <2>1, <3>1, <3>2 DEF Reacts
  <2> QED BY <2>1, <2>2, <2>3
<1>7. Reacts(r) = {} <=> Reacts(q) = {}
  BY <1>4, <1>6
<1> QED BY <1>5, <1>7 DEF r

\* The first reaction that is asked for is scheduled.
LEMMA QueueReaction ==
  ASSUME NEW q \in Seq(Callback), NEW new \in Seq(Callback), NEW n \in Nat,
         Reacts(q) = {}, Len(new) = 1, new[1].kind = "react"
  PROVE  AtMostOne(QueueAll(q, new, n)) /\ Reacts(QueueAll(q, new, n)) # {}
<1> DEFINE r == QueueAll(q, new, n)
           m == Len(new)
<1>1. PICK k \in 0..Len(q) : \A i \in 1..(Len(q) + m) :
              r[i] = IF i <= k THEN q[i] ELSE IF i <= k + m THEN new[i - k] ELSE q[i - m]
  BY QueueAllInserts
<1>2. r \in Seq(Callback) /\ Len(r) = Len(q) + m
  BY QueueAllInserts
<1>3. m = 1
  OBVIOUS
<1> HIDE DEF r, m
<1>4. DOMAIN r = 1..(Len(q) + 1) /\ DOMAIN q = 1..Len(q) /\ Len(q) \in Nat
  BY <1>2, <1>3
<1>5. \A i \in 1..(Len(q) + 1) :
         r[i] = IF i <= k THEN q[i] ELSE IF i <= k + 1 THEN new[i - k] ELSE q[i - 1]
  BY <1>1, <1>3
<1>6. \A i \in 1..Len(q) : q[i].kind # "react"
  BY <1>4 DEF Reacts
<1>7. r[k + 1] = new[1]
  <2>1. r[k + 1] = new[(k + 1) - k] /\ (k + 1) - k = 1
    BY <1>4, <1>5
  <2> QED BY <2>1
<1>8. ASSUME NEW i \in Reacts(r) PROVE i = k + 1
  <2>1. i \in 1..(Len(q) + 1) /\ r[i].kind = "react"
    BY <1>4, <1>8 DEF Reacts
  <2>2. CASE i <= k
    BY <1>5, <1>6, <2>1, <2>2
  <2>3. CASE i > k + 1
    <3>1. r[i] = q[i - 1] /\ i - 1 \in 1..Len(q)
      BY <1>4, <1>5, <2>1, <2>3
    <3> QED BY <1>6, <2>1, <3>1
  <2> QED BY <2>1, <2>2, <2>3
<1>9. k + 1 \in Reacts(r)
  BY <1>4, <1>7 DEF Reacts
<1> QED BY <1>8, <1>9 DEF AtMostOne, r

\* The first callback is taken from the queue.
LEMMA TailOfQueue ==
  ASSUME NEW q \in Seq(Callback), q # <<>>
  PROVE  /\ Head(q) \in Callback /\ Tail(q) \in Seq(Callback)
         /\ AtMostOne(q) => AtMostOne(Tail(q))
         /\ Head(q).kind = "react" /\ AtMostOne(q) => Reacts(Tail(q)) = {}
         /\ Head(q).kind # "react" => (Reacts(Tail(q)) = {} <=> Reacts(q) = {})
<1>1. /\ Head(q) \in Callback /\ Tail(q) \in Seq(Callback)
      /\ DOMAIN q = 1..Len(q) /\ DOMAIN Tail(q) = 1..(Len(q) - 1) /\ Len(q) \in Nat \ {0}
      /\ Head(q) = q[1] /\ \A i \in 1..(Len(q) - 1) : Tail(q)[i] = q[i + 1]
  OBVIOUS
<1>2. \A i \in Reacts(Tail(q)) : i \in Nat /\ i >= 1 /\ i + 1 \in Reacts(q)
  BY <1>1 DEF Reacts
<1>3. AtMostOne(q) => AtMostOne(Tail(q))
  BY <1>2 DEF AtMostOne
<1>4. Head(q).kind = "react" /\ AtMostOne(q) => Reacts(Tail(q)) = {}
  <2>1. Head(q).kind = "react" => 1 \in Reacts(q)
    BY <1>1 DEF Reacts
  <2> QED BY <1>2, <2>1 DEF AtMostOne
<1>5. ASSUME NEW i \in Reacts(q), Head(q).kind # "react" PROVE Reacts(Tail(q)) # {}
  <2>1. i \in 1..Len(q) /\ q[i].kind = "react" /\ i # 1
    BY <1>1, <1>5 DEF Reacts
  <2>2. i - 1 \in 1..(Len(q) - 1) /\ Tail(q)[i - 1] = q[(i - 1) + 1] /\ (i - 1) + 1 = i
    BY <1>1, <2>1
  <2> QED BY <1>1, <2>1, <2>2 DEF Reacts
<1> QED BY <1>1, <1>2, <1>3, <1>4, <1>5

-----------------------------------------------------------------------------
(* The inductive invariant.                                                 *)

\* A queue holds children of its composite.
QueuesHoldChildren ==
  \A c \in Composites : \A x \in childEventQueue[c] : Parent[x] = c

\* The active calls of ProcessChildEventQueue lead from the host downwards.
ProcessingDescends ==
  \A i \in 1..Len(processing) :
    IF i = 1 THEN processing[i] = Host
    ELSE processing[i] # Host /\ Parent[processing[i]] = processing[i - 1]

ReactsWhileProcessing == reacting # NoReaction => processing # <<>>

\* The request of the host is going to be settled.
RequestIsPending ==
  ~thrown /\ reactionRequested => processing # <<>> \/ Reacts(callbacks) # {}

\* A queue that is not empty is going to be emptied.
Reached(c) ==
  IF c = Host THEN reactionRequested
  ELSE c \in childEventQueue[Parent[c]] \/ c \in Range(processing)

QueuesAreReached ==
  ~thrown => \A c \in Composites : childEventQueue[c] # {} => Reached(c)

\* The accessor of a port that waits is queued, or has still to look at the port.
LooksAt(p) ==
  \/ Owner(p) \in childEventQueue[Parent[Owner(p)]]
  \/ /\ reacting.accessor = Owner(p)
     /\ \E i \in reacting.next..Len(InputsOf[Owner(p)]) : InputsOf[Owner(p)][i] = p

WaitingIsQueued == ~thrown => \A p \in InputPorts : Waiting(p) => LooksAt(p)

IInv ==
  /\ TypeOK
  /\ QueuesHoldChildren
  /\ ProcessingDescends
  /\ ReactsWhileProcessing
  /\ OneReactionAtATime
  /\ RequestIsPending
  /\ QueuesAreReached
  /\ WaitingIsQueued
  /\ SentOnExactlyOnce

\* OneReactionAtATime in the words of the lemmas.
LEMMA OneReactionExpanded ==
  OneReactionAtATime <=> /\ AtMostOne(callbacks)
                         /\ Reacts(callbacks) # {} => reactionRequested /\ processing = <<>>
                         /\ processing # <<>> => reactionRequested
BY DEF OneReactionAtATime, AtMostOne, Reacts

LEMMA OneReactionExpandedPrime ==
  OneReactionAtATime' <=> /\ AtMostOne(callbacks')
                          /\ Reacts(callbacks') # {} => reactionRequested' /\ processing' = <<>>
                          /\ processing' # <<>> => reactionRequested'
BY DEF OneReactionAtATime, AtMostOne, Reacts

\* Only the accessor that has an input port owns it.
LEMMA OwnerIsUnique ==
  ASSUME NEW a \in Atomics, NEW i \in 1..Len(InputsOf[a])
  PROVE  InputsOf[a][i] \in InputPorts /\ Owner(InputsOf[a][i]) = a
<1>1. InputsOf[a] \in Seq(Ports) /\ InputsOf[a][i] \in Range(InputsOf[a])
  BY ModelAssumption DEF Range
<1>2. InputsOf[a][i] \in InputPorts
  BY <1>1 DEF InputPorts
<1>3. \A b \in Atomics : InputsOf[a][i] \in Range(InputsOf[b]) => b = a
  BY <1>1, ModelAssumption
<1> QED BY <1>1, <1>2, <1>3 DEF Owner

LEMMA InputPortsArePorts == InputPorts \subseteq Ports
BY ModelAssumption DEF InputPorts, Range

\* SendOutput adds callbacks that send, and no reaction.
LEMMA SendOutputsKeepReactions ==
  ASSUME NEW q \in Seq(Callback), NEW a \in Atomics, NEW sends \in Sends[a]
  PROVE  /\ SendOutputs(q, sends, a) \in Seq(Callback)
         /\ AtMostOne(q) => AtMostOne(SendOutputs(q, sends, a))
         /\ Reacts(SendOutputs(q, sends, a)) = {} <=> Reacts(q) = {}
<1> DEFINE new == [i \in 1..Len(sends) |-> Send(sends[i], a)]
<1>1. sends \in Seq((Ports \ InputPorts) \X Events) /\ Priority[a] \in Nat
  BY ModelAssumption DEF Accessors
<1>2. \A i \in 1..Len(sends) : Send(sends[i], a) \in Callback /\ Send(sends[i], a).kind = "send"
  <2> SUFFICES ASSUME NEW i \in 1..Len(sends)
               PROVE  Send(sends[i], a) \in Callback /\ Send(sends[i], a).kind = "send"
    OBVIOUS
  <2>1. sends[i] \in (Ports \ InputPorts) \X Events
    BY <1>1
  <2>2. sends[i][1] \in Ports /\ sends[i][2] \in Events
    BY <2>1
  <2> QED BY <1>1, <2>2 DEF Send, Callback
<1>3. Len(sends) \in Nat
  BY <1>1
<1>4. new \in Seq(Callback) /\ DOMAIN new = 1..Len(sends)
  BY <1>2, <1>3, IsASeq
<1>5. Reacts(new) = {}
  BY <1>2, <1>4 DEF Reacts
<1> HIDE DEF new
<1>6. SendOutputs(q, sends, a) = QueueAll(q, new, Priority[a])
  BY DEF SendOutputs, new
<1>7. QueueAll(q, new, Priority[a]) \in Seq(Callback)
  BY <1>1, <1>4, QueueAllInserts
<1>8. /\ AtMostOne(q) => AtMostOne(QueueAll(q, new, Priority[a]))
      /\ Reacts(QueueAll(q, new, Priority[a])) = {} <=> Reacts(q) = {}
  BY <1>1, <1>4, <1>5, QueueOutputs
<1> QED BY <1>6, <1>7, <1>8

\* A request queues the accessor and what is around it, and the host's callback
\* is pending unless it was so or is not any more.
LEMMA RequestQueues ==
  ASSUME TypeOK, QueuesHoldChildren, OneReactionAtATime,
         NEW a \in Atomics, ScheduleReaction(a)
  PROVE  /\ childEventQueue' \in [Composites -> SUBSET (Accessors \ {Host})]
         /\ \A c \in Composites : childEventQueue[c] \subseteq childEventQueue'[c]
         /\ \A c \in Composites : \A x \in childEventQueue'[c] : Parent[x] = c
         /\ \A x \in ({a} \cup Around[a]) \ {Host} : x \in childEventQueue'[Parent[x]]
         /\ \A c \in Composites : childEventQueue'[c] # childEventQueue[c] => c \in Around[a]
         /\ reactionRequested' = TRUE
         /\ callbacks' \in Seq(Callback)
         /\ AtMostOne(callbacks')
         /\ reactionRequested => callbacks' = callbacks
         /\ ~reactionRequested => Reacts(callbacks') # {}
<1>1. a \in Accessors \ {Host} /\ Around[a] \subseteq Composites /\ Priority[a] \in Nat
  BY ModelAssumption DEF Accessors, Around
<1>2. /\ Parent \in [Accessors \ {Host} -> Composites] /\ Composites \subseteq Accessors
      /\ childEventQueue \in [Composites -> SUBSET (Accessors \ {Host})]
  BY ModelAssumption DEF Accessors, TypeOK
<1>3. childEventQueue' = [c \in Composites |->
         childEventQueue[c] \cup {x \in ({a} \cup Around[a]) \ {Host} : Parent[x] = c}]
  BY DEF ScheduleReaction
<1>4. childEventQueue' \in [Composites -> SUBSET (Accessors \ {Host})]
  BY <1>1, <1>2, <1>3
<1>5. \A c \in Composites : childEventQueue[c] \subseteq childEventQueue'[c]
  BY <1>3
<1>6. \A c \in Composites : \A x \in childEventQueue'[c] : Parent[x] = c
  BY <1>3 DEF QueuesHoldChildren
<1>7. \A x \in ({a} \cup Around[a]) \ {Host} : x \in childEventQueue'[Parent[x]]
  BY <1>1, <1>2, <1>3
<1>8. \A c \in Composites : childEventQueue'[c] # childEventQueue[c] => c \in Around[a]
  <2> SUFFICES ASSUME NEW c \in Composites, NEW x \in ({a} \cup Around[a]) \ {Host}, Parent[x] = c
               PROVE  c \in Around[a]
    BY <1>3
  <2> QED BY <1>1, AroundIsClosed
<1>9. callbacks \in Seq(Callback) /\ AtMostOne(callbacks)
  BY OneReactionExpanded DEF TypeOK
<1>10. ASSUME ~reactionRequested
       PROVE  callbacks' \in Seq(Callback) /\ AtMostOne(callbacks') /\ Reacts(callbacks') # {}
  <2>1. callbacks' = QueueAll(callbacks, <<React(a)>>, Priority[a])
    BY <1>10 DEF ScheduleReaction
  <2>2. React(a) \in Callback /\ React(a).kind = "react"
    BY <1>1 DEF React, Callback, Events
  <2>3. /\ <<React(a)>> \in Seq(Callback) /\ Len(<<React(a)>>) = 1
        /\ <<React(a)>>[1].kind = "react"
    BY <2>2
  <2>4. Reacts(callbacks) = {}
    BY <1>10, OneReactionExpanded
  <2> QED BY <1>1, <1>9, <2>1, <2>3, <2>4, QueueAllInserts, QueueReaction
<1>11. reactionRequested => callbacks' = callbacks
  BY DEF ScheduleReaction
<1>12. reactionRequested' = TRUE
  BY DEF ScheduleReaction
<1>13. reactionRequested \in BOOLEAN
  BY DEF TypeOK
<1> QED BY <1>4, <1>5, <1>6, <1>7, <1>8, <1>9, <1>10, <1>11, <1>12, <1>13

\* What a request does to the parts of the invariant about queues.
LEMMA RequestReaches ==
  ASSUME TypeOK, QueuesHoldChildren, OneReactionAtATime, RequestIsPending, QueuesAreReached,
         NEW a \in Atomics, ScheduleReaction(a), UNCHANGED <<processing, thrown>>
  PROVE  QueuesHoldChildren' /\ OneReactionAtATime' /\ RequestIsPending' /\ QueuesAreReached'
<1>1. QueuesHoldChildren'
  BY RequestQueues DEF QueuesHoldChildren
<1>2. OneReactionAtATime'
  <2>1. reactionRequested \in BOOLEAN
    BY DEF TypeOK
  <2>2. processing # <<>> => reactionRequested
    BY OneReactionExpanded
  <2>3. AtMostOne(callbacks') /\ reactionRequested' = TRUE
    BY RequestQueues
  <2>4. Reacts(callbacks') # {} => processing = <<>>
    <3>1. reactionRequested => callbacks' = callbacks
      BY RequestQueues
    <3> QED BY <2>2, <3>1, OneReactionExpanded
  <2> QED BY <2>3, <2>4, OneReactionExpandedPrime
<1>3. RequestIsPending'
  <2>1. reactionRequested => callbacks' = callbacks
    BY RequestQueues
  <2>2. ~reactionRequested => Reacts(callbacks') # {}
    BY RequestQueues
  <2> QED BY <2>1, <2>2 DEF RequestIsPending, Reacts
<1>4. QueuesAreReached'
  <2> SUFFICES ASSUME ~thrown, NEW c \in Composites, childEventQueue'[c] # {}
               PROVE  Reached(c)'
    BY DEF QueuesAreReached
  <2>1. CASE c = Host
    BY <2>1, RequestQueues DEF Reached
  <2>2. CASE c # Host /\ childEventQueue'[c] = childEventQueue[c]
    <3>1. c \in childEventQueue[Parent[c]] \/ c \in Range(processing)
      BY <2>2 DEF QueuesAreReached, Reached
    <3>2. Parent[c] \in Composites
      BY <2>2, ModelAssumption DEF Accessors
    <3>3. c \in childEventQueue[Parent[c]] => c \in childEventQueue'[Parent[c]]
      BY <3>2, RequestQueues
    <3> QED BY <2>2, <3>1, <3>3 DEF Reached
  <2>3. CASE c # Host /\ childEventQueue'[c] # childEventQueue[c]
    <3>1. c \in Around[a] \ {Host}
      BY <2>3, RequestQueues
    <3>2. c \in childEventQueue'[Parent[c]]
      BY <3>1, RequestQueues
    <3> QED BY <2>3, <3>2 DEF Reached
  <2> QED BY <2>1, <2>2, <2>3
<1> QED BY <1>1, <1>2, <1>3, <1>4

\* An accessor that has asked stays queued by a request of another.
LEMMA RequestKeepsLooking ==
  ASSUME TypeOK, QueuesHoldChildren, OneReactionAtATime,
         NEW a \in Atomics, ScheduleReaction(a), NEW p \in InputPorts,
         Owner(p) = a \/ Owner(p) \in childEventQueue[Parent[Owner(p)]]
  PROVE  Owner(p) \in childEventQueue'[Parent[Owner(p)]]
<1>1. Owner(p) \in Atomics
  BY OwnerOfPort
<1>2. Owner(p) \in Accessors \ {Host} /\ Parent[Owner(p)] \in Composites
  BY <1>1, ModelAssumption DEF Accessors
<1>3. CASE Owner(p) = a
  BY <1>2, <1>3, RequestQueues
<1>4. CASE Owner(p) \in childEventQueue[Parent[Owner(p)]]
  BY <1>2, <1>4, RequestQueues
<1> QED BY <1>3, <1>4

-----------------------------------------------------------------------------
(* The steps.                                                               *)

\* A port waits as it did before when its queue begins with the same event.
LEMMA StillWaiting ==
  ASSUME UNCHANGED inputQueue
  PROVE  \A p \in InputPorts : Waiting(p)' <=> Waiting(p)
BY DEF Waiting

LEMMA InitKeeps == Init => IInv
<1> SUFFICES ASSUME Init PROVE IInv
  OBVIOUS
<1> USE DEF Init
<1>1. TypeOK
  <2>1. inputQueue \in [InputPorts -> Seq(Events)]
    OBVIOUS
  <2>2. childEventQueue \in [Composites -> SUBSET (Accessors \ {Host})]
    OBVIOUS
  <2>3. callbacks \in Seq(Callback) /\ sending \in Seq(Ports) /\ processing \in Seq(Composites)
    OBVIOUS
  <2>4. instant \in 0..MaxInstants /\ event \in Events
    BY ModelAssumption DEF Events
  <2>5. received \in [InputPorts -> Nat] /\ sentOn \in [InputPorts -> Nat]
    OBVIOUS
  <2>6. reactionRequested \in BOOLEAN /\ thrown \in BOOLEAN
    OBVIOUS
  <2>7. reacting \in [accessor : Atomics, next : Nat \ {0}] \cup {NoReaction}
    OBVIOUS
  <2> HIDE DEF Init
  <2> QED BY <2>1, <2>2, <2>3, <2>4, <2>5, <2>6, <2>7 DEF TypeOK
<1>2. QueuesHoldChildren /\ ProcessingDescends /\ ReactsWhileProcessing /\ RequestIsPending
  BY DEF QueuesHoldChildren, ProcessingDescends, ReactsWhileProcessing, RequestIsPending
<1>3. OneReactionAtATime
  BY DEF OneReactionAtATime
<1>4. QueuesAreReached
  BY DEF QueuesAreReached
<1>5. WaitingIsQueued /\ SentOnExactlyOnce
  BY DEF WaitingIsQueued, SentOnExactlyOnce, Waiting
<1> QED BY <1>1, <1>2, <1>3, <1>4, <1>5 DEF IInv

LEMMA NextInstantKeeps == IInv /\ NextInstant => IInv'
<1> SUFFICES ASSUME IInv, NextInstant PROVE IInv'
  OBVIOUS
<1> USE DEF IInv, NextInstant, Idle, stack
<1>0. PICK n \in 1..Cardinality(Sources) : \E due \in [1..n -> Sources] :
        callbacks' = [i \in 1..n |-> Tick(due[i])]
  OBVIOUS
<1>1. PICK due \in [1..n -> Sources] : callbacks' = [i \in 1..n |-> Tick(due[i])]
  BY <1>0
<1>2. n \in Nat
  BY ModelAssumption, FS_CardinalityType
<1>3. \A i \in 1..n : Tick(due[i]) \in Callback /\ Tick(due[i]).kind = "tick"
  <2> SUFFICES ASSUME NEW a \in Sources PROVE Tick(a) \in Callback /\ Tick(a).kind = "tick"
    BY <1>1
  <2>1. Priority[a] \in Nat
    BY ModelAssumption DEF Accessors
  <2> QED BY <2>1 DEF Tick, Callback, Events
<1>4. callbacks' \in Seq(Callback) /\ DOMAIN callbacks' = 1..n
  <2> HIDE DEF IInv, NextInstant
  <2> QED BY <1>1, <1>2, <1>3, IsASeq
<1>5. Reacts(callbacks') = {}
  BY <1>1, <1>3, <1>4 DEF Reacts
<1>6. Reacts(callbacks) = {}
  BY DEF Reacts
<1>7. \A p \in InputPorts : inputQueue[p] \in Seq(Events) /\ Len(inputQueue[p]) \in Nat
  BY DEF TypeOK
<1>8. TypeOK'
  <2>1. instant' \in 0..MaxInstants
    BY ModelAssumption DEF TypeOK
  <2>2. received' \in [InputPorts -> Nat] /\ sentOn' \in [InputPorts -> Nat]
    BY <1>7
  <2> QED BY <1>4, <2>1, <2>2 DEF TypeOK
<1>9. OneReactionAtATime'
  <2>1. AtMostOne(callbacks')
    BY <1>5 DEF AtMostOne
  <2> QED BY <1>5, <2>1, OneReactionExpandedPrime
<1>10. RequestIsPending'
  BY <1>6 DEF RequestIsPending
<1>11. QueuesHoldChildren' /\ ProcessingDescends' /\ ReactsWhileProcessing'
  BY DEF QueuesHoldChildren, ProcessingDescends, ReactsWhileProcessing
<1>12. QueuesAreReached'
  BY DEF QueuesAreReached, Reached
<1>13. WaitingIsQueued'
  BY DEF WaitingIsQueued, LooksAt, Waiting
<1>14. SentOnExactlyOnce'
  BY <1>7 DEF SentOnExactlyOnce, Waiting
<1> QED BY <1>8, <1>9, <1>10, <1>11, <1>12, <1>13, <1>14

\* The three actions that begin a callback leave the accessors as they are.
LEMMA RunTickKeeps == IInv /\ RunTick => IInv'
<1> SUFFICES ASSUME IInv, RunTick PROVE IInv'
  OBVIOUS
<1> USE DEF RunTick, Idle, stack, history
<1>0. callbacks \in Seq(Callback) /\ callbacks # <<>>
  BY DEF IInv, TypeOK
<1>1. PICK sends \in Sends[Head(callbacks).of] \ {<<>>} :
        callbacks' = SendOutputs(Tail(callbacks), sends, Head(callbacks).of)
  OBVIOUS
<1>2. Head(callbacks) \in Callback /\ Tail(callbacks) \in Seq(Callback)
  BY <1>0, TailOfQueue
<1>3. Head(callbacks).of \in Atomics
  BY <1>2, ModelAssumption DEF Callback
<1>4. AtMostOne(callbacks)
  BY OneReactionExpanded DEF IInv
<1>5. AtMostOne(Tail(callbacks)) /\ (Reacts(Tail(callbacks)) = {} <=> Reacts(callbacks) = {})
  BY <1>0, <1>4, TailOfQueue
<1>6. /\ callbacks' \in Seq(Callback) /\ AtMostOne(callbacks')
      /\ Reacts(callbacks') = {} <=> Reacts(callbacks) = {}
  BY <1>1, <1>2, <1>3, <1>5, SendOutputsKeepReactions
<1>7. TypeOK'
  BY <1>6 DEF IInv, TypeOK
<1>8. OneReactionAtATime'
  BY <1>6, OneReactionExpanded, OneReactionExpandedPrime DEF IInv
<1>9. RequestIsPending'
  BY <1>6 DEF IInv, RequestIsPending
<1>10. QueuesHoldChildren' /\ ProcessingDescends' /\ ReactsWhileProcessing'
  BY DEF IInv, QueuesHoldChildren, ProcessingDescends, ReactsWhileProcessing
<1>11. QueuesAreReached'
  BY DEF IInv, QueuesAreReached, Reached
<1>12. WaitingIsQueued' /\ SentOnExactlyOnce'
  BY DEF IInv, WaitingIsQueued, LooksAt, Waiting, SentOnExactlyOnce
<1> QED BY <1>7, <1>8, <1>9, <1>10, <1>11, <1>12 DEF IInv

LEMMA RunSendKeeps == IInv /\ RunSend => IInv'
<1> SUFFICES ASSUME IInv, RunSend PROVE IInv'
  OBVIOUS
<1> USE DEF RunSend, Idle, history
<1>0. callbacks \in Seq(Callback) /\ callbacks # <<>>
  BY DEF IInv, TypeOK
<1>1. Head(callbacks) \in Callback /\ Tail(callbacks) \in Seq(Callback)
  BY <1>0, TailOfQueue
<1>2. AtMostOne(callbacks)
  BY OneReactionExpanded DEF IInv
<1>3. /\ AtMostOne(callbacks')
      /\ Reacts(callbacks') = {} <=> Reacts(callbacks) = {}
  BY <1>0, <1>2, TailOfQueue
<1>4. TypeOK'
  <2>1. Head(callbacks).of \in Ports /\ Head(callbacks).event \in Events
    BY <1>1 DEF Callback
  <2>2. sending' \in Seq(Ports) /\ event' \in Events
    BY <2>1, ModelAssumption
  <2> QED BY <1>1, <2>2 DEF IInv, TypeOK
<1>5. OneReactionAtATime'
  BY <1>3, OneReactionExpanded, OneReactionExpandedPrime DEF IInv
<1>6. RequestIsPending'
  BY <1>3 DEF IInv, RequestIsPending
<1>7. QueuesHoldChildren' /\ ProcessingDescends' /\ ReactsWhileProcessing'
  BY DEF IInv, QueuesHoldChildren, ProcessingDescends, ReactsWhileProcessing
<1>8. QueuesAreReached'
  BY DEF IInv, QueuesAreReached, Reached
<1>9. WaitingIsQueued' /\ SentOnExactlyOnce'
  BY DEF IInv, WaitingIsQueued, LooksAt, Waiting, SentOnExactlyOnce
<1> QED BY <1>4, <1>5, <1>6, <1>7, <1>8, <1>9 DEF IInv

LEMMA RunReactKeeps == IInv /\ RunReact => IInv'
<1> SUFFICES ASSUME IInv, RunReact PROVE IInv'
  OBVIOUS
<1> USE DEF RunReact, Idle, history
<1>0. callbacks \in Seq(Callback) /\ callbacks # <<>>
  BY DEF IInv, TypeOK
<1>1. AtMostOne(callbacks)
  BY OneReactionExpanded DEF IInv
<1>2. callbacks' \in Seq(Callback) /\ AtMostOne(callbacks') /\ Reacts(callbacks') = {}
  BY <1>0, <1>1, TailOfQueue
<1>3. Reacts(callbacks) # {}
  <2>1. 1 \in DOMAIN callbacks /\ callbacks[1] = Head(callbacks)
    BY <1>0
  <2> QED BY <2>1 DEF Reacts
<1>4. reactionRequested
  BY <1>3, OneReactionExpanded DEF IInv
<1>5. /\ processing' \in Seq(Composites) /\ Len(processing') = 1 /\ processing'[1] = Host
      /\ processing' # <<>>
  BY ModelAssumption
<1>6. TypeOK'
  BY <1>2, <1>5 DEF IInv, TypeOK
<1>7. OneReactionAtATime'
  BY <1>2, <1>4, OneReactionExpandedPrime
<1>8. RequestIsPending'
  BY <1>5 DEF RequestIsPending
<1>9. ProcessingDescends'
  BY <1>5 DEF ProcessingDescends
<1>10. QueuesHoldChildren' /\ ReactsWhileProcessing'
  BY <1>5 DEF IInv, QueuesHoldChildren, ReactsWhileProcessing
<1>11. QueuesAreReached'
  BY DEF IInv, QueuesAreReached, Reached, Range
<1>12. WaitingIsQueued' /\ SentOnExactlyOnce'
  BY DEF IInv, WaitingIsQueued, LooksAt, Waiting, SentOnExactlyOnce
<1> QED BY <1>6, <1>7, <1>8, <1>9, <1>10, <1>11, <1>12 DEF IInv

LEMMA RelayKeeps == IInv /\ Relay => IInv'
<1> SUFFICES ASSUME IInv, Relay PROVE IInv'
  OBVIOUS
<1> USE DEF Relay, queues, history
<1>1. TypeOK'
  <2>1. sending \in Seq(Ports) /\ sending # <<>>
    BY DEF IInv, TypeOK
  <2>2. Destinations[Head(sending)] \in Seq(Ports) /\ Tail(sending) \in Seq(Ports)
    BY <2>1, ModelAssumption
  <2>3. sending' \in Seq(Ports)
    BY <2>2, ConcatProperties
  <2> QED BY <2>3 DEF IInv, TypeOK
<1>2. OneReactionAtATime' /\ RequestIsPending'
  BY DEF IInv, OneReactionAtATime, RequestIsPending
<1>3. QueuesHoldChildren' /\ ProcessingDescends' /\ ReactsWhileProcessing'
  BY DEF IInv, QueuesHoldChildren, ProcessingDescends, ReactsWhileProcessing
<1>4. QueuesAreReached'
  BY DEF IInv, QueuesAreReached, Reached
<1>5. WaitingIsQueued' /\ SentOnExactlyOnce'
  BY DEF IInv, WaitingIsQueued, LooksAt, Waiting, SentOnExactlyOnce
<1> QED BY <1>1, <1>2, <1>3, <1>4, <1>5 DEF IInv

LEMMA ReceiveDataKeeps == IInv /\ ReceiveData => IInv'
<1> SUFFICES ASSUME IInv, ReceiveData PROVE IInv'
  OBVIOUS
<1>0. PICK p \in InputPorts : p = Head(sending)
  BY DEF ReceiveData
<1>1. /\ sending \in Seq(Ports) /\ sending # <<>>
      /\ Tail(sending) \in Seq(Ports) /\ event \in Events
  BY DEF ReceiveData, IInv, TypeOK
<1>2. /\ inputQueue' = [inputQueue EXCEPT ![p] = Append(@, event)]
      /\ received' = [received EXCEPT ![p] = @ + 1]
      /\ UNCHANGED <<event, processing, reacting, instant, thrown>>
  BY <1>0 DEF ReceiveData
<1>3. /\ inputQueue \in [InputPorts -> Seq(Events)]
      /\ received \in [InputPorts -> Nat] /\ sentOn \in [InputPorts -> Nat]
  BY DEF IInv, TypeOK
<1>4. /\ inputQueue' \in [InputPorts -> Seq(Events)] /\ received' \in [InputPorts -> Nat]
      /\ inputQueue'[p] = Append(inputQueue[p], event) /\ received'[p] = received[p] + 1
      /\ \A q \in InputPorts \ {p} : inputQueue'[q] = inputQueue[q] /\ received'[q] = received[q]
  BY <1>1, <1>2, <1>3
<1>5. Len(inputQueue[p]) \in Nat /\ Len(inputQueue'[p]) = Len(inputQueue[p]) + 1
  BY <1>1, <1>3, <1>4
<1>6. \A q \in InputPorts \ {p} : Waiting(q)' <=> Waiting(q)
  BY <1>4 DEF Waiting
<1>7. ProcessingDescends' /\ ReactsWhileProcessing'
  BY <1>2 DEF IInv, ProcessingDescends, ReactsWhileProcessing
<1>8. CASE /\ inputQueue[p] # <<>> \/ event = "null"
           /\ sending' = Tail(sending)
           /\ UNCHANGED <<childEventQueue, reactionRequested, callbacks, sentOn>>
  <2>1. Waiting(p)' <=> Waiting(p)
    <3>1. CASE inputQueue[p] # <<>>
      <4>1. inputQueue'[p] # <<>> /\ Head(inputQueue'[p]) = Head(inputQueue[p])
        BY <1>1, <1>3, <1>4, <3>1
      <4> QED BY <3>1, <4>1 DEF Waiting
    <3>2. CASE inputQueue[p] = <<>> /\ event = "null"
      <4>1. Head(inputQueue'[p]) = "null"
        BY <1>4, <3>2
      <4> QED BY <3>2, <4>1 DEF Waiting
    <3> QED BY <1>8, <3>1, <3>2
  <2>2. TypeOK'
    BY <1>1, <1>2, <1>4, <1>8 DEF IInv, TypeOK
  <2>3. OneReactionAtATime' /\ RequestIsPending'
    BY <1>2, <1>8 DEF IInv, OneReactionAtATime, RequestIsPending
  <2>4. QueuesHoldChildren' /\ QueuesAreReached'
    BY <1>2, <1>8 DEF IInv, QueuesHoldChildren, QueuesAreReached, Reached
  <2>5. WaitingIsQueued'
    BY <1>2, <1>6, <1>8, <2>1 DEF IInv, WaitingIsQueued, LooksAt
  <2>6. SentOnExactlyOnce'
    <3> SUFFICES ASSUME NEW q \in InputPorts
                 PROVE  sentOn'[q] = received'[q] - Len(inputQueue'[q])
                                       + (IF Waiting(q)' THEN 1 ELSE 0)
      BY DEF SentOnExactlyOnce
    <3>1. sentOn[q] = received[q] - Len(inputQueue[q]) + (IF Waiting(q) THEN 1 ELSE 0)
      BY DEF IInv, SentOnExactlyOnce
    <3>2. Waiting(q)' <=> Waiting(q)
      BY <1>6, <2>1
    <3>3. received'[q] - Len(inputQueue'[q]) = received[q] - Len(inputQueue[q])
      <4>1. CASE q = p
        <5>1. PICK r \in Nat, n \in Nat : r = received[p] /\ n = Len(inputQueue[p])
          BY <1>3, <1>5
        <5>2. received'[q] = r + 1 /\ Len(inputQueue'[q]) = n + 1
          BY <1>4, <1>5, <4>1, <5>1
        <5> QED BY <4>1, <5>1, <5>2
      <4>2. CASE q # p
        BY <1>4, <4>2
      <4> QED BY <4>1, <4>2
    <3> QED BY <1>8, <3>1, <3>2, <3>3
  <2> QED BY <1>7, <2>2, <2>3, <2>4, <2>5, <2>6 DEF IInv
<1>9. CASE /\ inputQueue[p] = <<>> /\ event # "null"
           /\ ScheduleReaction(Owner(p))
           /\ sending' = Destinations[p] \o Tail(sending)
           /\ sentOn' = [sentOn EXCEPT ![p] = @ + 1]
  <2>1. Owner(p) \in Atomics
    BY <1>1, OwnerOfPort
  <2>2. ~Waiting(p) /\ Waiting(p)'
    <3>1. inputQueue'[p] # <<>> /\ Head(inputQueue'[p]) = "event"
      BY <1>1, <1>4, <1>9 DEF Events
    <3> QED BY <1>9, <3>1 DEF Waiting
  <2>3. TypeOK'
    <3>1. Destinations[p] \in Seq(Ports)
      BY <1>1, InputPortsArePorts, ModelAssumption
    <3>2. sending' \in Seq(Ports)
      BY <1>1, <1>9, <3>1, ConcatProperties
    <3>3. sentOn' \in [InputPorts -> Nat]
      BY <1>1, <1>3, <1>9
    <3>4. /\ childEventQueue' \in [Composites -> SUBSET (Accessors \ {Host})]
          /\ reactionRequested' \in BOOLEAN /\ callbacks' \in Seq(Callback)
      BY <1>9, <2>1, RequestQueues DEF IInv
    <3> QED BY <1>2, <1>4, <3>2, <3>3, <3>4 DEF IInv, TypeOK
  <2>4. QueuesHoldChildren' /\ OneReactionAtATime' /\ RequestIsPending' /\ QueuesAreReached'
    BY <1>2, <1>9, <2>1, RequestReaches DEF IInv
  <2>5. WaitingIsQueued'
    <3> SUFFICES ASSUME ~thrown, NEW q \in InputPorts, Waiting(q)' PROVE LooksAt(q)'
      BY <1>2 DEF WaitingIsQueued
    <3>1. CASE q = p
      BY <1>9, <2>1, <3>1, RequestKeepsLooking DEF IInv, LooksAt
    <3>2. CASE q # p
      <4>1. LooksAt(q)
        BY <1>6, <3>2 DEF IInv, WaitingIsQueued
      <4>2. CASE Owner(q) \in childEventQueue[Parent[Owner(q)]]
        BY <1>9, <2>1, <4>2, RequestKeepsLooking DEF IInv, LooksAt
      <4>3. CASE Owner(q) \notin childEventQueue[Parent[Owner(q)]]
        BY <1>2, <4>1, <4>3 DEF LooksAt
      <4> QED BY <4>2, <4>3
    <3> QED BY <3>1, <3>2
  <2>6. SentOnExactlyOnce'
    <3>1. sentOn'[p] = sentOn[p] + 1 /\ \A q \in InputPorts \ {p} : sentOn'[q] = sentOn[q]
      BY <1>1, <1>3, <1>9
    <3>2. Len(inputQueue[p]) = 0
      BY <1>9
    <3>3. sentOn[p] = received[p]
      BY <1>1, <1>3, <2>2, <3>2 DEF IInv, SentOnExactlyOnce
    <3> SUFFICES ASSUME NEW q \in InputPorts
                 PROVE  sentOn'[q] = received'[q] - Len(inputQueue'[q])
                                       + (IF Waiting(q)' THEN 1 ELSE 0)
      BY DEF SentOnExactlyOnce
    <3>4. CASE q = p
      <4>1. PICK r \in Nat : r = received[p]
        BY <1>3
      <4>2. sentOn'[q] = r + 1 /\ received'[q] = r + 1
        BY <1>4, <3>1, <3>3, <3>4, <4>1
      <4>3. Len(inputQueue'[q]) = 1 /\ Waiting(q)'
        BY <1>5, <2>2, <3>2, <3>4
      <4> QED BY <4>1, <4>2, <4>3
    <3>5. CASE q # p
      <4>1. sentOn[q] = received[q] - Len(inputQueue[q]) + (IF Waiting(q) THEN 1 ELSE 0)
        BY DEF IInv, SentOnExactlyOnce
      <4>2. Waiting(q)' <=> Waiting(q)
        BY <1>6, <3>5
      <4>3. q \in InputPorts \ {p}
        BY <3>5
      <4>4. sentOn'[q] = sentOn[q] /\ received'[q] = received[q] /\ inputQueue'[q] = inputQueue[q]
        BY <1>4, <3>1, <4>3
      <4>5. CASE Waiting(q)
        BY <1>3, <4>1, <4>2, <4>4, <4>5
      <4>6. CASE ~Waiting(q)
        BY <1>3, <4>1, <4>2, <4>4, <4>6
      <4> QED BY <4>5, <4>6
    <3> QED BY <3>4, <3>5
  <2> QED BY <1>7, <2>3, <2>4, <2>5, <2>6 DEF IInv
<1> QED BY <1>0, <1>8, <1>9 DEF ReceiveData

\* Inside the loop of ProcessChildEventQueue the host's request is not settled.
LEMMA LoopIsRequested ==
  ASSUME IInv, processing # <<>>
  PROVE  /\ Last(processing) \in Composites /\ Last(processing) \in Range(processing)
         /\ Len(processing) \in Nat /\ Len(processing) > 0 /\ DOMAIN processing = 1..Len(processing)
         /\ Last(processing) = processing[Len(processing)]
         /\ reactionRequested /\ Reacts(callbacks) = {} /\ AtMostOne(callbacks)
<1>1. /\ processing \in Seq(Composites) /\ Len(processing) \in Nat /\ Len(processing) > 0
      /\ DOMAIN processing = 1..Len(processing)
  BY DEF IInv, TypeOK
<1>2. Last(processing) = processing[Len(processing)]
  BY DEF Last
<1> QED BY <1>1, <1>2, OneReactionExpanded DEF IInv, Range

LEMMA PopChildKeeps == IInv /\ PopChild => IInv'
<1> SUFFICES ASSUME IInv, PopChild PROVE IInv'
  OBVIOUS
<1> DEFINE c == Last(processing)
<1>1. PICK child \in childEventQueue[c] :
        /\ childEventQueue' = [childEventQueue EXCEPT ![c] = @ \ {child}]
        /\ \/ child \in Composites /\ processing' = Append(processing, child) /\ UNCHANGED reacting
           \/ child \in Atomics /\ reacting' = [accessor |-> child, next |-> FirstPort] /\ UNCHANGED processing
  BY DEF PopChild
<1>2. /\ processing # <<>> /\ reacting = NoReaction
      /\ UNCHANGED <<inputQueue, reactionRequested, callbacks, sending, event, instant, received,
                     sentOn, thrown>>
  BY DEF PopChild, InQueueLoop, history
<1>3. /\ c \in Composites /\ c \in Range(processing)
      /\ Len(processing) \in Nat /\ Len(processing) > 0 /\ DOMAIN processing = 1..Len(processing)
      /\ c = processing[Len(processing)]
      /\ reactionRequested /\ Reacts(callbacks) = {} /\ AtMostOne(callbacks)
  BY <1>2, LoopIsRequested
<1> HIDE DEF c
<1>4. /\ childEventQueue \in [Composites -> SUBSET (Accessors \ {Host})]
      /\ processing \in Seq(Composites)
  BY DEF IInv, TypeOK
<1>5. child \in Accessors \ {Host} /\ Parent[child] = c
  BY <1>1, <1>3, <1>4 DEF IInv, QueuesHoldChildren
<1>6. /\ childEventQueue' \in [Composites -> SUBSET (Accessors \ {Host})]
      /\ \A d \in Composites : childEventQueue'[d] \subseteq childEventQueue[d]
      /\ \A d \in Composites : \A x \in childEventQueue[d] \ {child} : x \in childEventQueue'[d]
  BY <1>1, <1>3, <1>4
<1>7. /\ processing' \in Seq(Composites) /\ processing' # <<>>
      /\ Range(processing) \subseteq Range(processing')
      /\ child \in Composites => child \in Range(processing')
      /\ ProcessingDescends'
  <2>1. CASE child \in Composites /\ processing' = Append(processing, child)
    <3>1. /\ processing' \in Seq(Composites) /\ Len(processing') = Len(processing) + 1
          /\ \A i \in 1..Len(processing) : processing'[i] = processing[i]
          /\ processing'[Len(processing) + 1] = child
          /\ DOMAIN processing' = 1..(Len(processing) + 1)
      BY <1>4, <2>1
    <3>2. ProcessingDescends'
      <4> SUFFICES ASSUME NEW i \in 1..Len(processing')
                   PROVE  IF i = 1 THEN processing'[i] = Host
                          ELSE processing'[i] # Host /\ Parent[processing'[i]] = processing'[i - 1]
        BY DEF ProcessingDescends
      <4>1. CASE i = Len(processing) + 1
        BY <1>3, <1>5, <3>1, <4>1
      <4>2. CASE i \in 1..Len(processing)
        <5>1. i # 1 => i - 1 \in 1..Len(processing)
          BY <1>3, <4>2
        <5> QED BY <3>1, <4>2, <5>1 DEF IInv, ProcessingDescends
      <4> QED BY <1>3, <3>1, <4>1, <4>2
    <3> QED BY <1>3, <3>1, <3>2 DEF Range
  <2>2. CASE child \in Atomics /\ UNCHANGED processing
    BY <1>2, <1>4, <2>2, ModelAssumption DEF IInv, ProcessingDescends
  <2> QED BY <1>1, <2>1, <2>2
<1>8. /\ reacting' \in [accessor : Atomics, next : Nat \ {0}] \cup {NoReaction}
      /\ child \in Atomics => reacting' = [accessor |-> child, next |-> 1]
      /\ child \notin Atomics => reacting' = NoReaction
  BY <1>1, <1>2, ModelAssumption DEF FirstPort
<1>9. TypeOK'
  BY <1>2, <1>6, <1>7, <1>8 DEF IInv, TypeOK
<1>10. QueuesHoldChildren'
  BY <1>6 DEF IInv, QueuesHoldChildren
<1>11. ReactsWhileProcessing' /\ RequestIsPending'
  BY <1>7 DEF ReactsWhileProcessing, RequestIsPending
<1>12. OneReactionAtATime'
  BY <1>2, <1>3, OneReactionExpandedPrime
<1>13. QueuesAreReached'
  <2> SUFFICES ASSUME ~thrown, NEW d \in Composites, childEventQueue'[d] # {}
               PROVE  Reached(d)'
    BY <1>2 DEF QueuesAreReached
  <2>1. Reached(d)
    BY <1>6 DEF IInv, QueuesAreReached
  <2>2. CASE d = Host
    BY <1>2, <1>3, <2>2 DEF Reached
  <2>3. CASE d # Host /\ d \in Range(processing)
    BY <1>7, <2>3 DEF Reached
  <2>4. CASE d # Host /\ d \in childEventQueue[Parent[d]]
    <3>1. Parent[d] \in Composites
      BY <2>4, ModelAssumption DEF Accessors
    <3>2. d \in childEventQueue'[Parent[d]] \/ d = child
      BY <1>6, <2>4, <3>1
    <3> QED BY <1>7, <2>4, <3>2 DEF Reached
  <2> QED BY <2>1, <2>2, <2>3, <2>4 DEF Reached
<1>14. WaitingIsQueued'
  <2> SUFFICES ASSUME ~thrown, NEW p \in InputPorts, Waiting(p)' PROVE LooksAt(p)'
    BY <1>2 DEF WaitingIsQueued
  <2>1. Waiting(p)
    BY <1>2 DEF Waiting
  <2>2. Owner(p) \in Atomics /\ Parent[Owner(p)] \in Composites
        /\ \E i \in 1..Len(InputsOf[Owner(p)]) : InputsOf[Owner(p)][i] = p
    BY OwnerOfPort, ModelAssumption DEF Accessors
  <2>3. Owner(p) # Host
    BY <2>2, ModelAssumption
  <2>4. Owner(p) \in childEventQueue[Parent[Owner(p)]]
    BY <1>2, <2>1, <2>3 DEF IInv, WaitingIsQueued, LooksAt, NoReaction
  <2>5. CASE Owner(p) = child
    <3>1. reacting'.accessor = Owner(p) /\ reacting'.next = 1
      BY <1>8, <2>2, <2>5
    <3> QED BY <2>2, <3>1 DEF LooksAt
  <2>6. CASE Owner(p) # child
    BY <1>6, <2>2, <2>4, <2>6 DEF LooksAt
  <2> QED BY <2>5, <2>6
<1>15. SentOnExactlyOnce'
  BY <1>2 DEF IInv, SentOnExactlyOnce, Waiting
<1> QED BY <1>7, <1>9, <1>10, <1>11, <1>12, <1>13, <1>14, <1>15 DEF IInv

LEMMA EndQueueLoopKeeps == IInv /\ EndQueueLoop => IInv'
<1> SUFFICES ASSUME IInv, EndQueueLoop PROVE IInv'
  OBVIOUS
<1>1. /\ processing # <<>> /\ reacting = NoReaction
      /\ childEventQueue[Last(processing)] = {}
      /\ processing' = Front(processing)
      /\ reactionRequested' = (reactionRequested /\ Last(processing) # Host)
      /\ UNCHANGED <<inputQueue, childEventQueue, callbacks, sending, event, reacting, instant,
                     received, sentOn, thrown>>
  BY DEF EndQueueLoop, InQueueLoop, history
<1>2. PICK c \in Composites : c = Last(processing)
  BY <1>1, LoopIsRequested
<1>3. /\ Len(processing) \in Nat /\ Len(processing) > 0 /\ DOMAIN processing = 1..Len(processing)
      /\ c = processing[Len(processing)]
      /\ reactionRequested /\ Reacts(callbacks) = {} /\ AtMostOne(callbacks)
  BY <1>1, <1>2, LoopIsRequested
<1>4. /\ processing' \in Seq(Composites) /\ Len(processing') = Len(processing) - 1
      /\ \A i \in 1..(Len(processing) - 1) : processing'[i] = processing[i]
      /\ DOMAIN processing' = 1..(Len(processing) - 1)
  <2>1. processing \in Seq(Composites)
    BY DEF IInv, TypeOK
  <2>2. processing' = SubSeq(processing, 1, Len(processing) - 1)
    BY <1>1 DEF Front
  <2>3. \A i \in 1..(Len(processing) - 1) : processing[i] \in Composites
    BY <2>1
  <2>4. /\ processing' \in Seq(Composites) /\ Len(processing') = Len(processing) - 1
        /\ \A i \in 1..(Len(processing) - 1) : processing'[i] = processing[i]
    BY <1>3, <2>1, <2>2, <2>3, SubSeqProperties, Z3
  <2> QED BY <2>4
<1>5. processing' = <<>> <=> c = Host
  <2>1. Len(processing) = 1 <=> c = Host
    BY <1>3 DEF IInv, ProcessingDescends
  <2>2. processing' = <<>> <=> Len(processing') = 0
    BY <1>4
  <2> QED BY <1>3, <1>4, <2>1, <2>2
<1>6. Range(processing) \subseteq Range(processing') \cup {c}
  <2> SUFFICES ASSUME NEW i \in 1..Len(processing), processing[i] # c
               PROVE  processing[i] \in Range(processing')
    BY <1>3 DEF Range
  <2>1. i \in 1..(Len(processing) - 1)
    BY <1>3
  <2> QED BY <1>4, <2>1 DEF Range
<1>7. TypeOK'
  BY <1>1, <1>4 DEF IInv, TypeOK
<1>8. QueuesHoldChildren' /\ ReactsWhileProcessing'
  BY <1>1 DEF IInv, QueuesHoldChildren, ReactsWhileProcessing
<1>9. ProcessingDescends'
  <2> SUFFICES ASSUME NEW i \in 1..Len(processing')
               PROVE  IF i = 1 THEN processing'[i] = Host
                      ELSE processing'[i] # Host /\ Parent[processing'[i]] = processing'[i - 1]
    BY DEF ProcessingDescends
  <2>1. i \in 1..Len(processing) /\ i \in 1..(Len(processing) - 1)
        /\ (i # 1 => i - 1 \in 1..(Len(processing) - 1))
    BY <1>3, <1>4
  <2> QED BY <1>4, <2>1 DEF IInv, ProcessingDescends
<1>10. OneReactionAtATime'
  BY <1>1, <1>2, <1>3, <1>5, OneReactionExpandedPrime
<1>11. RequestIsPending'
  BY <1>1, <1>2, <1>5 DEF RequestIsPending
<1>12. QueuesAreReached'
  <2> SUFFICES ASSUME ~thrown, NEW d \in Composites, childEventQueue[d] # {}
               PROVE  Reached(d)'
    BY <1>1 DEF QueuesAreReached
  <2>1. Reached(d) /\ d # c
    BY <1>1, <1>2 DEF IInv, QueuesAreReached
  <2>2. CASE d = Host
    BY <1>1, <1>2, <1>3, <2>1, <2>2 DEF Reached
  <2>3. CASE d # Host
    BY <1>1, <1>6, <2>1, <2>3 DEF Reached
  <2> QED BY <2>2, <2>3
<1>13. WaitingIsQueued' /\ SentOnExactlyOnce'
  BY <1>1 DEF IInv, WaitingIsQueued, LooksAt, Waiting, SentOnExactlyOnce
<1> QED BY <1>7, <1>8, <1>9, <1>10, <1>11, <1>12, <1>13 DEF IInv

\* During ProcessInputs of an accessor, where it is.
LEMMA InReactionFacts ==
  ASSUME IInv, InReaction
  PROVE  /\ reacting.accessor \in Atomics /\ reacting.next \in Nat \ {0}
         /\ reacting = [accessor |-> reacting.accessor, next |-> reacting.next]
         /\ processing # <<>> /\ reactionRequested
         /\ Reacts(callbacks) = {} /\ AtMostOne(callbacks)
         /\ InputsOf[reacting.accessor] \in Seq(Ports)
         /\ PortsLeft => reacting.next \in 1..Len(InputsOf[reacting.accessor])
                         /\ NextPort \in InputPorts /\ Owner(NextPort) = reacting.accessor
<1>1. /\ reacting.accessor \in Atomics /\ reacting.next \in Nat \ {0}
      /\ reacting = [accessor |-> reacting.accessor, next |-> reacting.next]
      /\ reacting # NoReaction
  BY DEF IInv, TypeOK, InReaction
<1>2. processing # <<>>
  BY <1>1 DEF IInv, ReactsWhileProcessing
<1>3. InputsOf[reacting.accessor] \in Seq(Ports)
  BY <1>1, ModelAssumption
<1>4. PortsLeft => reacting.next \in 1..Len(InputsOf[reacting.accessor])
  BY <1>1, <1>3 DEF PortsLeft
<1>5. PortsLeft => NextPort \in InputPorts /\ Owner(NextPort) = reacting.accessor
  BY <1>1, <1>4, OwnerIsUnique DEF NextPort
<1> QED BY <1>1, <1>2, <1>3, <1>4, <1>5, LoopIsRequested

\* When the next port has been looked at and does not wait any more, the others
\* that wait are still to be looked at.
LEMMA PortIsDone ==
  ASSUME IInv, InReaction, PortsLeft, reacting' = [reacting EXCEPT !.next = @ + 1],
         NEW p \in InputPorts, p # NextPort, LooksAt(p),
         Owner(p) \in childEventQueue[Parent[Owner(p)]]
           => Owner(p) \in childEventQueue'[Parent[Owner(p)]]
  PROVE  LooksAt(p)'
<1>1. CASE Owner(p) \in childEventQueue[Parent[Owner(p)]]
  BY <1>1 DEF LooksAt
<1>2. CASE Owner(p) \notin childEventQueue[Parent[Owner(p)]]
  <2>1. PICK i \in reacting.next..Len(InputsOf[Owner(p)]) : InputsOf[Owner(p)][i] = p
    BY <1>2 DEF LooksAt
  <2>2. reacting.accessor = Owner(p)
    BY <1>2 DEF LooksAt
  <2>3. reacting.next \in Nat /\ Len(InputsOf[Owner(p)]) \in Nat /\ i # reacting.next
    BY <2>1, <2>2, InReactionFacts DEF NextPort
  <2>4. reacting'.accessor = reacting.accessor /\ reacting'.next = reacting.next + 1
    BY InReactionFacts
  <2>5. i \in reacting'.next..Len(InputsOf[Owner(p)])
    BY <2>1, <2>3, <2>4
  <2> QED BY <2>1, <2>2, <2>4, <2>5 DEF LooksAt
<1> QED BY <1>1, <1>2

LEMMA SkipPortKeeps == IInv /\ SkipPort => IInv'
<1> SUFFICES ASSUME IInv, SkipPort PROVE IInv'
  OBVIOUS
<1>1. /\ InReaction /\ PortsLeft /\ ~Waiting(NextPort)
      /\ reacting' = [reacting EXCEPT !.next = @ + 1]
      /\ UNCHANGED <<inputQueue, childEventQueue, reactionRequested, callbacks, sending, event,
                     processing, instant, received, sentOn, thrown>>
  BY DEF SkipPort, queues, history
<1>2. reacting' \in [accessor : Atomics, next : Nat \ {0}] /\ processing # <<>>
  BY <1>1, InReactionFacts
<1>3. TypeOK'
  BY <1>1, <1>2 DEF IInv, TypeOK
<1>4. QueuesHoldChildren' /\ ProcessingDescends' /\ ReactsWhileProcessing'
  BY <1>1, <1>2 DEF IInv, QueuesHoldChildren, ProcessingDescends, ReactsWhileProcessing
<1>5. OneReactionAtATime' /\ RequestIsPending'
  BY <1>1 DEF IInv, OneReactionAtATime, RequestIsPending
<1>6. QueuesAreReached'
  BY <1>1 DEF IInv, QueuesAreReached, Reached
<1>7. WaitingIsQueued'
  <2> SUFFICES ASSUME ~thrown, NEW p \in InputPorts, Waiting(p)' PROVE LooksAt(p)'
    BY <1>1 DEF WaitingIsQueued
  <2>1. Waiting(p) /\ p # NextPort
    BY <1>1 DEF Waiting
  <2>2. LooksAt(p)
    BY <2>1 DEF IInv, WaitingIsQueued
  <2> QED BY <1>1, <2>1, <2>2, PortIsDone
<1>8. SentOnExactlyOnce'
  BY <1>1 DEF IInv, SentOnExactlyOnce, Waiting
<1> QED BY <1>3, <1>4, <1>5, <1>6, <1>7, <1>8 DEF IInv

\* What comes behind the first element of a sequence.
LEMMA SecondOfSequence ==
  ASSUME NEW S, NEW s \in Seq(S), Len(s) > 1
  PROVE  Tail(s) # <<>> /\ Head(Tail(s)) = s[2]
<1>1. Len(s) \in Nat /\ s # <<>>
  OBVIOUS
<1>2. Tail(s) \in Seq(S) /\ Len(Tail(s)) = Len(s) - 1 /\ Tail(s)[1] = s[2]
  BY <1>1
<1>3. Len(Tail(s)) # 0
  BY <1>1, <1>2
<1>4. Tail(s) # <<>>
  <2>1. SUFFICES ASSUME Tail(s) = <<>> PROVE FALSE
    OBVIOUS
  <2>2. Len(<<>>) = 0
    OBVIOUS
  <2> QED BY <1>3, <2>1, <2>2
<1>5. Head(Tail(s)) = Tail(s)[1]
  BY <1>2, <1>4
<1> QED BY <1>2, <1>4, <1>5

\* The handler of the next port is called: its queue, and whether it still waits.
LEMMA HandleInputKeeps == IInv /\ HandleInput => IInv'
<1> SUFFICES ASSUME IInv, HandleInput PROVE IInv'
  OBVIOUS
<1>0. InReaction /\ PortsLeft /\ Waiting(NextPort)
  BY DEF HandleInput
<1>1. PICK p \in InputPorts : p = NextPort /\ Owner(p) = reacting.accessor
  BY <1>0, InReactionFacts
<1>2. PICK a \in Atomics : a = reacting.accessor
  BY <1>0, InReactionFacts
<1>3. /\ Waiting(p)
      /\ inputQueue' = [inputQueue EXCEPT ![p] = Tail(@)]
      /\ reacting' = [reacting EXCEPT !.next = @ + 1]
      /\ UNCHANGED <<processing, instant, received, thrown>>
      /\ \/ /\ ComesNext(p) /\ ScheduleReaction(a)
            /\ sending' = Destinations[p] /\ event' = "event"
            /\ sentOn' = [sentOn EXCEPT ![p] = @ + 1]
         \/ /\ ~ComesNext(p)
            /\ UNCHANGED <<childEventQueue, reactionRequested, callbacks, sending, event, sentOn>>
  BY <1>1, <1>2 DEF HandleInput
<1>4. /\ inputQueue \in [InputPorts -> Seq(Events)]
      /\ received \in [InputPorts -> Nat] /\ sentOn \in [InputPorts -> Nat]
  BY DEF IInv, TypeOK
<1>5. inputQueue[p] \in Seq(Events) /\ inputQueue[p] # <<>> /\ Len(inputQueue[p]) \in Nat \ {0}
  BY <1>3, <1>4 DEF Waiting
<1>6. /\ inputQueue' \in [InputPorts -> Seq(Events)]
      /\ inputQueue'[p] = Tail(inputQueue[p]) /\ Len(inputQueue'[p]) = Len(inputQueue[p]) - 1
      /\ \A q \in InputPorts \ {p} : inputQueue'[q] = inputQueue[q]
  BY <1>3, <1>4, <1>5
<1>7. /\ \A q \in InputPorts \ {p} : Waiting(q)' <=> Waiting(q)
      /\ Waiting(p)' <=> ComesNext(p)
  <2>1. \A q \in InputPorts \ {p} : Waiting(q)' <=> Waiting(q)
    BY <1>6 DEF Waiting
  <2>2. CASE Len(inputQueue[p]) > 1
    <3>1. Tail(inputQueue[p]) # <<>> /\ Head(Tail(inputQueue[p])) = inputQueue[p][2]
      BY <1>5, <2>2, SecondOfSequence
    <3> QED BY <1>6, <2>1, <2>2, <3>1 DEF Waiting, ComesNext
  <2>3. CASE ~ (Len(inputQueue[p]) > 1)
    <3>1. Tail(inputQueue[p]) = <<>>
      BY <1>5, <2>3
    <3> QED BY <1>6, <2>1, <2>3, <3>1 DEF Waiting, ComesNext
  <2> QED BY <2>2, <2>3
<1>8. reacting' \in [accessor : Atomics, next : Nat \ {0}] /\ processing # <<>>
  BY <1>0, <1>3, InReactionFacts
<1>9. ProcessingDescends' /\ ReactsWhileProcessing'
  BY <1>3, <1>8 DEF IInv, ProcessingDescends, ReactsWhileProcessing
<1>10. CASE ~ComesNext(p)
  <2>1. UNCHANGED <<childEventQueue, reactionRequested, callbacks, sending, event, sentOn>>
    BY <1>3, <1>10
  <2>2. TypeOK'
    BY <1>3, <1>6, <1>8, <2>1 DEF IInv, TypeOK
  <2>3. OneReactionAtATime' /\ RequestIsPending'
    BY <1>3, <2>1 DEF IInv, OneReactionAtATime, RequestIsPending
  <2>4. QueuesHoldChildren' /\ QueuesAreReached'
    BY <1>3, <2>1 DEF IInv, QueuesHoldChildren, QueuesAreReached, Reached
  <2>5. WaitingIsQueued'
    <3> SUFFICES ASSUME ~thrown, NEW q \in InputPorts, Waiting(q)' PROVE LooksAt(q)'
      BY <1>3 DEF WaitingIsQueued
    <3>1. q # p /\ Waiting(q)
      BY <1>7, <1>10
    <3>2. LooksAt(q)
      BY <3>1 DEF IInv, WaitingIsQueued
    <3> QED BY <1>0, <1>1, <1>3, <2>1, <3>1, <3>2, PortIsDone
  <2>6. SentOnExactlyOnce'
    <3> SUFFICES ASSUME NEW q \in InputPorts
                 PROVE  sentOn'[q] = received'[q] - Len(inputQueue'[q])
                                       + (IF Waiting(q)' THEN 1 ELSE 0)
      BY DEF SentOnExactlyOnce
    <3>1. sentOn[q] = received[q] - Len(inputQueue[q]) + (IF Waiting(q) THEN 1 ELSE 0)
      BY DEF IInv, SentOnExactlyOnce
    <3>2. CASE q = p
      BY <1>3, <1>4, <1>5, <1>6, <1>7, <1>10, <2>1, <3>1, <3>2
    <3>3. CASE q # p
      BY <1>3, <1>6, <1>7, <2>1, <3>1, <3>3
    <3> QED BY <3>2, <3>3
  <2> QED BY <1>9, <2>2, <2>3, <2>4, <2>5, <2>6 DEF IInv
<1>11. CASE ComesNext(p)
  <2>1. /\ ScheduleReaction(a)
        /\ sending' = Destinations[p] /\ event' = "event"
        /\ sentOn' = [sentOn EXCEPT ![p] = @ + 1]
    BY <1>3, <1>11
  <2>2. TypeOK'
    <3>1. sending' \in Seq(Ports) /\ event' \in Events
      BY <2>1, InputPortsArePorts, ModelAssumption DEF Events
    <3>2. sentOn' \in [InputPorts -> Nat]
      BY <1>4, <2>1
    <3>3. /\ childEventQueue' \in [Composites -> SUBSET (Accessors \ {Host})]
          /\ reactionRequested' \in BOOLEAN /\ callbacks' \in Seq(Callback)
      BY <2>1, RequestQueues DEF IInv
    <3> QED BY <1>3, <1>6, <1>8, <3>1, <3>2, <3>3 DEF IInv, TypeOK
  <2>3. QueuesHoldChildren' /\ OneReactionAtATime' /\ RequestIsPending' /\ QueuesAreReached'
    BY <1>3, <2>1, RequestReaches DEF IInv
  <2>4. WaitingIsQueued'
    <3> SUFFICES ASSUME ~thrown, NEW q \in InputPorts, Waiting(q)' PROVE LooksAt(q)'
      BY <1>3 DEF WaitingIsQueued
    <3>1. CASE q = p
      BY <1>1, <1>2, <2>1, <3>1, RequestKeepsLooking DEF IInv, LooksAt
    <3>2. CASE q # p
      <4>1. LooksAt(q)
        BY <1>7, <3>2 DEF IInv, WaitingIsQueued
      <4>2. Owner(q) \in childEventQueue[Parent[Owner(q)]]
              => Owner(q) \in childEventQueue'[Parent[Owner(q)]]
        BY <2>1, RequestKeepsLooking DEF IInv
      <4> QED BY <1>0, <1>1, <1>3, <3>2, <4>1, <4>2, PortIsDone
    <3> QED BY <3>1, <3>2
  <2>5. SentOnExactlyOnce'
    <3>1. sentOn'[p] = sentOn[p] + 1 /\ \A q \in InputPorts \ {p} : sentOn'[q] = sentOn[q]
      BY <1>4, <2>1
    <3> SUFFICES ASSUME NEW q \in InputPorts
                 PROVE  sentOn'[q] = received'[q] - Len(inputQueue'[q])
                                       + (IF Waiting(q)' THEN 1 ELSE 0)
      BY DEF SentOnExactlyOnce
    <3>2. sentOn[q] = received[q] - Len(inputQueue[q]) + (IF Waiting(q) THEN 1 ELSE 0)
      BY DEF IInv, SentOnExactlyOnce
    <3>3. CASE q = p
      BY <1>3, <1>4, <1>5, <1>6, <1>7, <1>11, <3>1, <3>2, <3>3
    <3>4. CASE q # p
      BY <1>3, <1>6, <1>7, <3>1, <3>2, <3>4
    <3> QED BY <3>3, <3>4
  <2> QED BY <1>9, <2>2, <2>3, <2>4, <2>5 DEF IInv
<1> QED BY <1>10, <1>11

\* What an accessor has sent in a reaction is scheduled, and is no reaction.
LEMMA OutputsOfReaction ==
  ASSUME IInv, InReaction,
         \E sends \in Sends[reacting.accessor] :
           callbacks' = SendOutputs(callbacks, sends, reacting.accessor)
  PROVE  callbacks' \in Seq(Callback) /\ AtMostOne(callbacks') /\ Reacts(callbacks') = {}
<1>1. /\ reacting.accessor \in Atomics /\ AtMostOne(callbacks) /\ Reacts(callbacks) = {}
      /\ callbacks \in Seq(Callback)
  BY InReactionFacts DEF IInv, TypeOK
<1> QED BY <1>1, SendOutputsKeepReactions

LEMMA FireKeeps == IInv /\ Fire => IInv'
<1> SUFFICES ASSUME IInv, Fire PROVE IInv'
  OBVIOUS
<1>1. /\ InReaction /\ ~PortsLeft /\ reacting' = NoReaction
      /\ UNCHANGED <<inputQueue, childEventQueue, reactionRequested, sending, event, processing,
                     instant, received, sentOn, thrown>>
  BY DEF Fire, history
<1>2. callbacks' \in Seq(Callback) /\ AtMostOne(callbacks') /\ Reacts(callbacks') = {}
  BY <1>1, OutputsOfReaction DEF Fire
<1>3. /\ reacting.accessor \in Atomics /\ reacting.next \in Nat
      /\ processing # <<>> /\ reactionRequested
      /\ InputsOf[reacting.accessor] \in Seq(Ports)
  BY <1>1, InReactionFacts
<1>4. TypeOK'
  BY <1>1, <1>2 DEF IInv, TypeOK
<1>5. OneReactionAtATime'
  BY <1>1, <1>2, <1>3, OneReactionExpandedPrime
<1>6. RequestIsPending'
  BY <1>1, <1>3 DEF RequestIsPending
<1>7. QueuesHoldChildren' /\ ProcessingDescends' /\ ReactsWhileProcessing'
  BY <1>1 DEF IInv, QueuesHoldChildren, ProcessingDescends, ReactsWhileProcessing
<1>8. QueuesAreReached'
  BY <1>1 DEF IInv, QueuesAreReached, Reached
<1>9. WaitingIsQueued'
  <2> SUFFICES ASSUME ~thrown, NEW p \in InputPorts, Waiting(p)' PROVE LooksAt(p)'
    BY <1>1 DEF WaitingIsQueued
  <2>1. LooksAt(p)
    BY <1>1 DEF IInv, WaitingIsQueued, Waiting
  <2>2. ~ (/\ reacting.accessor = Owner(p)
           /\ \E i \in reacting.next..Len(InputsOf[Owner(p)]) : InputsOf[Owner(p)][i] = p)
    BY <1>1, <1>3 DEF PortsLeft
  <2> QED BY <1>1, <2>1, <2>2 DEF LooksAt
<1>10. SentOnExactlyOnce'
  BY <1>1 DEF IInv, SentOnExactlyOnce, Waiting
<1> QED BY <1>4, <1>5, <1>6, <1>7, <1>8, <1>9, <1>10 DEF IInv

LEMMA ThrowKeeps == IInv /\ Throw => IInv'
<1> SUFFICES ASSUME IInv, Throw PROVE IInv'
  OBVIOUS
<1>1. /\ InReaction /\ reacting' = NoReaction /\ processing' = <<>> /\ thrown' = TRUE
      /\ UNCHANGED <<inputQueue, childEventQueue, reactionRequested, sending, event, instant,
                     received, sentOn>>
  BY DEF Throw
<1>2. callbacks' \in Seq(Callback) /\ AtMostOne(callbacks') /\ Reacts(callbacks') = {}
  BY <1>1, OutputsOfReaction DEF Throw
<1>3. TypeOK'
  BY <1>1, <1>2 DEF IInv, TypeOK
<1>4. OneReactionAtATime'
  BY <1>1, <1>2, OneReactionExpandedPrime
<1>5. RequestIsPending' /\ QueuesAreReached' /\ WaitingIsQueued'
  BY <1>1 DEF RequestIsPending, QueuesAreReached, WaitingIsQueued
<1>6. QueuesHoldChildren' /\ ProcessingDescends' /\ ReactsWhileProcessing'
  BY <1>1 DEF IInv, QueuesHoldChildren, ProcessingDescends, ReactsWhileProcessing
<1>7. SentOnExactlyOnce'
  BY <1>1 DEF IInv, SentOnExactlyOnce, Waiting
<1> QED BY <1>3, <1>4, <1>5, <1>6, <1>7 DEF IInv

LEMMA StutterKeeps == IInv /\ UNCHANGED vars => IInv'
<1> SUFFICES ASSUME IInv, UNCHANGED vars PROVE IInv'
  OBVIOUS
<1> USE DEF IInv, vars, queues, stack, history
<1>1. TypeOK' /\ QueuesHoldChildren' /\ ProcessingDescends' /\ ReactsWhileProcessing'
  BY DEF TypeOK, QueuesHoldChildren, ProcessingDescends, ReactsWhileProcessing
<1>2. OneReactionAtATime' /\ RequestIsPending' /\ QueuesAreReached'
  BY DEF OneReactionAtATime, RequestIsPending, QueuesAreReached, Reached
<1>3. WaitingIsQueued' /\ SentOnExactlyOnce'
  BY DEF WaitingIsQueued, LooksAt, Waiting, SentOnExactlyOnce
<1> QED BY <1>1, <1>2, <1>3

-----------------------------------------------------------------------------
(* The theorems.                                                            *)

\* Flag, queues, callback and the active calls agree in every reachable state.
THEOREM Invariance == Spec => []IInv
<1>1. Init => IInv
  BY InitKeeps
<1>2. IInv /\ [Next]_vars => IInv'
  BY NextInstantKeeps, RunTickKeeps, RunSendKeeps, RunReactKeeps, RelayKeeps, ReceiveDataKeeps,
     PopChildKeeps, EndQueueLoopKeeps, SkipPortKeeps, HandleInputKeeps, FireKeeps, ThrowKeeps,
     StutterKeeps DEF Next, Work
<1> QED BY <1>1, <1>2, PTL DEF Spec

\* Whatever is around an accessor that is queued is queued too or being
\* processed: the set of what is reached is closed under Parent.
LEMMA QueuedIsRequested ==
  ASSUME IInv, ~thrown, NEW a \in Atomics, a \in childEventQueue[Parent[a]]
  PROVE  Requested(a)
<1> DEFINE S == {c \in Composites : Reached(c)}
<1>1. a \in Accessors \ {Host} /\ Composites \subseteq Accessors /\ S \in SUBSET Accessors
      /\ Parent \in [Accessors \ {Host} -> Composites] /\ Host \in Composites
  BY ModelAssumption DEF Accessors
<1>2. \A y \in Accessors \ {Host} : y \in S \cup {a} => Parent[y] \in S
  <2> SUFFICES ASSUME NEW y \in Accessors \ {Host}, y \in S \cup {a} PROVE Reached(Parent[y])
    BY <1>1
  <2>1. Parent[y] \in Composites
    BY <1>1
  <2>2. CASE y \in childEventQueue[Parent[y]]
    BY <2>1, <2>2 DEF IInv, QueuesAreReached
  <2>3. CASE y \in Range(processing)
    <3>1. processing \in Seq(Composites) /\ DOMAIN processing = 1..Len(processing)
      BY DEF IInv, TypeOK
    <3>2. PICK i \in 1..Len(processing) : processing[i] = y
      BY <2>3, <3>1 DEF Range
    <3>3. i # 1 /\ Parent[y] = processing[i - 1]
      BY <3>2 DEF IInv, ProcessingDescends
    <3>4. i - 1 \in 1..Len(processing)
      BY <3>1, <3>3
    <3>5. Parent[y] \in Range(processing)
      BY <3>1, <3>3, <3>4 DEF Range
    <3>6. processing # <<>>
      BY <3>1, <3>2
    <3> QED BY <3>5, <3>6, LoopIsRequested DEF Reached
  <2> QED BY <2>2, <2>3 DEF Reached
<1>3. Around[a] \subseteq S
  <2> SUFFICES ASSUME NEW c \in Around[a] PROVE c \in S
    OBVIOUS
  <2>1. \A T \in SUBSET Accessors :
          (\A y \in Accessors \ {Host} : y \in T \cup {a} => Parent[y] \in T) => c \in T
    BY <1>1 DEF Around
  <2> HIDE DEF S
  <2> QED BY <1>1, <1>2, <2>1
<1>4. \A c \in Around[a] \ {Host} : c \in childEventQueue[Parent[c]] \/ c \in Range(processing)
  BY <1>3 DEF Reached
<1>5. reactionRequested
  BY <1>1, <1>3, ModelAssumption DEF Reached
<1>6. processing # <<>> \/ \E i \in DOMAIN callbacks : callbacks[i].kind = "react"
  BY <1>5 DEF IInv, RequestIsPending, Reacts
<1> QED BY <1>4, <1>6 DEF Requested

\* The type invariant.
THEOREM TypeCorrect == Spec => []TypeOK
<1>1. IInv => TypeOK
  BY DEF IInv
<1> QED BY <1>1, Invariance, PTL

\* The host never has two reactions scheduled, nor one while it reacts, in every
\* model: m_reactionRequested is the only thing that holds a second one back.
THEOREM ReactionsAreOne == Spec => []OneReactionAtATime
<1>1. IInv => OneReactionAtATime
  BY DEF IInv
<1> QED BY <1>1, Invariance, PTL

\* Every port sends every event on once, whatever the wiring, null events and
\* exceptions included.
THEOREM EventsAreSentOnOnce == Spec => []SentOnExactlyOnce
<1>1. IInv => SentOnExactlyOnce
  BY DEF IInv
<1> QED BY <1>1, Invariance, PTL

\* As long as no accessor throws, no input waits on a port of an accessor, at
\* whatever depth, that is not going to be asked to react.
THEOREM NoInputStrands == Spec => []NoInputIsStrandedUnlessThrown
<1>1. IInv => NoInputIsStrandedUnlessThrown
  <2> SUFFICES ASSUME IInv, ~thrown, NEW p \in InputPorts, Waiting(p)
               PROVE  \/ Requested(Owner(p))
                      \/ /\ reacting.accessor = Owner(p)
                         /\ \E i \in reacting.next..Len(InputsOf[Owner(p)]) :
                              InputsOf[Owner(p)][i] = p
    BY DEF NoInputIsStrandedUnlessThrown, NoInputIsStranded
  <2>1. LooksAt(p)
    BY DEF IInv, WaitingIsQueued
  <2>2. Owner(p) \in Atomics
    BY OwnerOfPort
  <2> QED BY <2>1, <2>2, QueuedIsRequested DEF LooksAt
<1> QED BY <1>1, Invariance, PTL
=============================================================================
