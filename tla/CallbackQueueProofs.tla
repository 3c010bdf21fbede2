------------------------ MODULE CallbackQueueProofs ------------------------
(***************************************************************************)
(* Lemmas about the operators of CallbackQueue: what inserting into and    *)
(* removing from a sorted queue returns.                                   *)
(***************************************************************************)
EXTENDS CallbackQueue, FiniteSetTheorems, WellFoundedInduction, SequenceTheorems, TLAPS

\* A non-empty set of naturals has a least element, the one Min chooses: the
\* set of the intervals 0..n with n in S has a minimal member for inclusion.
LEMMA MinOfNaturals ==
  ASSUME NEW S \in SUBSET Nat, S # {}
  PROVE  Min(S) \in S /\ \A n \in S : Min(S) <= n
<1> DEFINE R == StrictSubsetOrdering(Nat)
           T == {0..n : n \in S}
<1>1. IsWellFoundedOn(R, FiniteSubsetsOf(Nat))
  BY FS_StrictSubsetOrderingWellFounded
<1>2. T \subseteq FiniteSubsetsOf(Nat)
  <2>1. ASSUME NEW n \in S PROVE IsFiniteSet(0..n) /\ 0..n \subseteq Nat
    BY FS_Interval
  <2> QED BY <2>1 DEF FiniteSubsetsOf
<1>3. T # {}
  OBVIOUS
<1>4. \E x \in T : \A y \in T : ~ (<<y, x>> \in R)
  <2> HIDE DEF R, T
  <2> QED BY <1>1, <1>2, <1>3, WFMin
<1>5. PICK m \in S : \A n \in S : ~ (<<0..n, 0..m>> \in R)
  BY <1>4
<1>6. ASSUME NEW n \in S PROVE m <= n
  <2>1. SUFFICES ASSUME n < m PROVE FALSE
    OBVIOUS
  <2>2. 0..n \subseteq 0..m /\ m \in 0..m /\ m \notin 0..n
    BY <2>1
  <2>3. <<0..n, 0..m>> \in (SUBSET Nat) \X (SUBSET Nat)
    OBVIOUS
  <2> QED BY <2>2, <2>3, <1>5 DEF StrictSubsetOrdering
<1> QED BY <1>6 DEF Min

\* What InsertAt returns, element by element.
LEMMA InsertAtElements ==
  ASSUME NEW T, NEW s \in Seq(T), NEW i \in 1..(Len(s) + 1), NEW e \in T
  PROVE  /\ InsertAt(s, i, e) \in Seq(T)
         /\ Len(InsertAt(s, i, e)) = Len(s) + 1
         /\ \A k \in 1..(Len(s) + 1) :
              InsertAt(s, i, e)[k] = IF k < i THEN s[k] ELSE IF k = i THEN e ELSE s[k - 1]
<1> DEFINE a == SubSeq(s, 1, i - 1)
           b == SubSeq(s, i, Len(s))
<1>1. /\ a \in Seq(T) /\ Len(a) = i - 1
      /\ \A k \in 1..(i - 1) : a[k] = s[k]
  <2>1. \A k \in 1..(i - 1) : s[k] \in T
    OBVIOUS
  <2> QED BY <2>1, SubSeqProperties, Z3
<1>2. /\ b \in Seq(T) /\ Len(b) = Len(s) - i + 1
      /\ \A k \in 1..(Len(s) - i + 1) : b[k] = s[i + k - 1]
  <2>1. \A k \in i..Len(s) : s[k] \in T
    OBVIOUS
  <2> QED BY <2>1, SubSeqProperties, Z3
<1> HIDE DEF a, b
<1> DEFINE c == a \o <<e>>
<1>3. /\ c \in Seq(T) /\ Len(c) = i
      /\ \A k \in 1..i : c[k] = IF k < i THEN s[k] ELSE e
  BY <1>1, ConcatProperties
<1> HIDE DEF c
<1>4. InsertAt(s, i, e) = c \o b
  BY DEF InsertAt, a, b, c
<1>5. /\ c \o b \in Seq(T) /\ Len(c \o b) = Len(s) + 1
      /\ \A k \in 1..(Len(s) + 1) :
           (c \o b)[k] = IF k <= i THEN c[k] ELSE b[k - i]
  BY <1>2, <1>3, ConcatProperties
<1>6. ASSUME NEW k \in 1..(Len(s) + 1)
      PROVE  (c \o b)[k] = IF k < i THEN s[k] ELSE IF k = i THEN e ELSE s[k - 1]
  BY <1>2, <1>3, <1>5
<1> QED BY <1>4, <1>5, <1>6

\* What RemoveAt returns, element by element.
LEMMA RemoveAtElements ==
  ASSUME NEW T, NEW s \in Seq(T), NEW i \in 1..Len(s)
  PROVE  /\ RemoveAt(s, i) \in Seq(T)
         /\ Len(RemoveAt(s, i)) = Len(s) - 1
         /\ \A k \in 1..(Len(s) - 1) :
              RemoveAt(s, i)[k] = IF k < i THEN s[k] ELSE s[k + 1]
<1> DEFINE a == SubSeq(s, 1, i - 1)
           b == SubSeq(s, i + 1, Len(s))
<1>1. /\ a \in Seq(T) /\ Len(a) = i - 1
      /\ \A k \in 1..(i - 1) : a[k] = s[k]
  <2>1. \A k \in 1..(i - 1) : s[k] \in T
    OBVIOUS
  <2> QED BY <2>1, SubSeqProperties, Z3
<1>2. /\ b \in Seq(T) /\ Len(b) = Len(s) - i
      /\ \A k \in 1..(Len(s) - i) : b[k] = s[i + k]
  <2>1. \A k \in (i + 1)..Len(s) : s[k] \in T
    OBVIOUS
  <2> QED BY <2>1, SubSeqProperties, Z3
<1> HIDE DEF a, b
<1>3. /\ a \o b \in Seq(T) /\ Len(a \o b) = Len(s) - 1
      /\ \A k \in 1..(Len(s) - 1) :
           (a \o b)[k] = IF k <= Len(a) THEN a[k] ELSE b[k - Len(a)]
  <2>1. /\ a \o b \in Seq(T) /\ Len(a \o b) = Len(a) + Len(b)
        /\ \A k \in 1..(Len(a) + Len(b)) :
             (a \o b)[k] = IF k <= Len(a) THEN a[k] ELSE b[k - Len(a)]
    BY <1>1, <1>2, ConcatProperties
  <2>2. Len(a) + Len(b) = Len(s) - 1
    BY <1>1, <1>2
  <2> QED BY <2>1, <2>2
<1>4. ASSUME NEW k \in 1..(Len(s) - 1)
      PROVE  (a \o b)[k] = IF k < i THEN s[k] ELSE s[k + 1]
  BY <1>1, <1>2, <1>3
<1>5. RemoveAt(s, i) = a \o b
  BY DEF RemoveAt, a, b
<1> QED BY <1>3, <1>4, <1>5

-----------------------------------------------------------------------------
\* The order of the queue, for records with natural times and priorities.

Ordered(callbacks, S) ==
  /\ S \subseteq DOMAIN callbacks
  /\ S \subseteq Int
  /\ \A id \in S : callbacks[id].time \in Nat /\ callbacks[id].priority \in Nat

\* By time, priority and id: callbacks with different ids are always ordered,
\* one way only, and the order is transitive.
LEMMA PrecedesIsATotalOrder ==
  ASSUME NEW callbacks, NEW S, Ordered(callbacks, S)
  PROVE  /\ \A x \in S : ~ Precedes(callbacks, x, x)
         /\ \A x, y \in S : x # y => Precedes(callbacks, x, y) \/ Precedes(callbacks, y, x)
         /\ \A x, y, z \in S : Precedes(callbacks, x, y) /\ Precedes(callbacks, y, z)
                               => Precedes(callbacks, x, z)
  BY DEF Ordered, Precedes

\* Queueing an id that is not queued keeps the queue sorted and adds only it.
LEMMA QueueScheduledCallbackSorts ==
  ASSUME NEW T, NEW queue \in Seq(T), NEW callbacks, NEW id \in T,
         Ordered(callbacks, Queued(queue) \cup {id}),
         id \notin Queued(queue),
         Sorted(queue, callbacks)
  PROVE  /\ QueueScheduledCallback(queue, callbacks, id) \in Seq(T)
         /\ Queued(QueueScheduledCallback(queue, callbacks, id)) = Queued(queue) \cup {id}
         /\ Sorted(QueueScheduledCallback(queue, callbacks, id), callbacks)
         /\ QueueScheduledCallback(queue, callbacks, id) # <<>>
<1> DEFINE n == Len(queue)
           after == {i \in 1..n : Precedes(callbacks, id, queue[i])}
           at == InsertionIndex(queue, callbacks, id)
           result == QueueScheduledCallback(queue, callbacks, id)
<1>1. n \in Nat
  OBVIOUS
<1>2. /\ at \in after \cup {n + 1}
      /\ \A i \in after : at <= i
  <2>1. after \cup {n + 1} \in SUBSET Nat /\ after \cup {n + 1} # {}
    OBVIOUS
  <2>2. at = Min(after \cup {n + 1})
    BY DEF InsertionIndex
  <2> HIDE DEF after, at
  <2> QED BY <2>1, <2>2, MinOfNaturals
<1>3. at \in 1..(n + 1)
  BY <1>1, <1>2
<1>4. \A i \in 1..n : i < at => ~ Precedes(callbacks, id, queue[i])
  BY <1>1, <1>2, <1>3
<1>5. \A i \in 1..n : queue[i] \in Queued(queue) /\ queue[i] # id
  BY DEF Queued
<1>6. \A i \in 1..n : i < at => Precedes(callbacks, queue[i], id)
  BY <1>4, <1>5, PrecedesIsATotalOrder
<1>7. \A i \in 1..n : at <= i => Precedes(callbacks, id, queue[i])
  <2> SUFFICES ASSUME NEW i \in 1..n, at <= i
               PROVE  Precedes(callbacks, id, queue[i])
    OBVIOUS
  <2>1. at \in after
    BY <1>1, <1>2
  <2>2. Precedes(callbacks, id, queue[at]) /\ at \in 1..n
    BY <2>1
  <2>3. i = at \/ Precedes(callbacks, queue[at], queue[i])
    BY <2>2 DEF Sorted
  <2> QED BY <2>2, <2>3, <1>5, PrecedesIsATotalOrder
<1> HIDE DEF after, at, n
<1>8. /\ result \in Seq(T) /\ Len(result) = n + 1
      /\ \A k \in 1..(n + 1) :
           result[k] = IF k < at THEN queue[k] ELSE IF k = at THEN id ELSE queue[k - 1]
  <2>1. at \in 1..(Len(queue) + 1)
    BY <1>3 DEF n
  <2>2. /\ InsertAt(queue, at, id) \in Seq(T)
        /\ Len(InsertAt(queue, at, id)) = Len(queue) + 1
        /\ \A k \in 1..(Len(queue) + 1) : InsertAt(queue, at, id)[k] =
             IF k < at THEN queue[k] ELSE IF k = at THEN id ELSE queue[k - 1]
    BY <2>1, InsertAtElements
  <2>3. result = InsertAt(queue, at, id)
    BY DEF QueueScheduledCallback, at
  <2> HIDE DEF result
  <2> QED BY <2>2, <2>3 DEF n
<1> HIDE DEF result
<1>9. Queued(result) = Queued(queue) \cup {id}
  <2>1. ASSUME NEW k \in 1..(n + 1) PROVE result[k] \in Queued(queue) \cup {id}
    BY <1>1, <1>3, <1>5, <1>8
  <2>2. ASSUME NEW i \in 1..n PROVE \E k \in 1..(n + 1) : result[k] = queue[i]
    <3>1. CASE i < at
      BY <3>1, <1>1, <1>3, <1>8
    <3>2. CASE at <= i
      <4>1. i + 1 \in 1..(n + 1) /\ result[i + 1] = queue[i]
        BY <3>2, <1>1, <1>3, <1>8
      <4> QED BY <4>1
    <3> QED BY <3>1, <3>2, <1>1, <1>3
  <2>3. result[at] = id
    BY <1>1, <1>3, <1>8
  <2>4. Queued(result) = {result[k] : k \in 1..(n + 1)}
    BY <1>8 DEF Queued
  <2>5. Queued(queue) = {queue[i] : i \in 1..n}
    BY DEF Queued, n
  <2>6. Queued(queue) \cup {id} \subseteq Queued(result)
    BY <2>2, <2>3, <2>4, <2>5, <1>3
  <2> QED BY <2>1, <2>4, <2>6
<1>10. Sorted(result, callbacks)
  <2> SUFFICES ASSUME NEW i \in 1..(n + 1), NEW j \in 1..(n + 1), i < j
               PROVE  Precedes(callbacks, result[i], result[j])
    BY <1>8 DEF Sorted
  <2>1. CASE j < at
    BY <2>1, <1>1, <1>3, <1>8 DEF Sorted, n
  <2>2. CASE j = at
    BY <2>2, <1>1, <1>3, <1>6, <1>8
  <2>3. CASE i < at /\ at < j
    <3>1. i \in 1..n /\ j - 1 \in 1..n /\ i < j - 1
      BY <2>3, <1>1, <1>3
    <3>2. Precedes(callbacks, queue[i], queue[j - 1])
      BY <3>1 DEF Sorted, n
    <3> QED BY <3>2, <2>3, <1>1, <1>3, <1>8
  <2>4. CASE i = at
    <3>1. j - 1 \in 1..n /\ at <= j - 1
      BY <2>4, <1>1, <1>3
    <3>2. Precedes(callbacks, id, queue[j - 1])
      BY <3>1, <1>7
    <3> QED BY <3>2, <2>4, <1>1, <1>3, <1>8
  <2>5. CASE at < i
    <3>1. i - 1 \in 1..n /\ j - 1 \in 1..n /\ i - 1 < j - 1
      BY <2>5, <1>1, <1>3
    <3>2. Precedes(callbacks, queue[i - 1], queue[j - 1])
      BY <3>1 DEF Sorted, n
    <3> QED BY <3>2, <2>5, <1>1, <1>3, <1>8
  <2> QED BY <2>1, <2>2, <2>3, <2>4, <2>5, <1>1, <1>3
<1>11. result # <<>>
  BY <1>1, <1>8
<1> QED BY <1>8, <1>9, <1>10, <1>11 DEF result

\* Removing the element at one position of a sorted queue removes it alone.
LEMMA RemovalKeepsSorted ==
  ASSUME NEW T, NEW queue \in Seq(T), NEW callbacks, NEW at \in 1..Len(queue),
         Ordered(callbacks, Queued(queue)),
         Sorted(queue, callbacks)
  PROVE  /\ RemoveAt(queue, at) \in Seq(T)
         /\ Queued(RemoveAt(queue, at)) = Queued(queue) \ {queue[at]}
         /\ Sorted(RemoveAt(queue, at), callbacks)
<1> DEFINE n == Len(queue)
           result == RemoveAt(queue, at)
<1>1. n \in Nat /\ at \in 1..n
  OBVIOUS
<1>2. /\ result \in Seq(T) /\ Len(result) = n - 1
      /\ \A k \in 1..(n - 1) : result[k] = IF k < at THEN queue[k] ELSE queue[k + 1]
  BY RemoveAtElements
<1>3. \A i, j \in 1..n : i < j => Precedes(callbacks, queue[i], queue[j])
  BY DEF Sorted
<1>4. Queued(queue) = {queue[i] : i \in 1..n}
  BY DEF Queued
<1>5. \A i \in 1..n : i # at => queue[i] # queue[at]
  BY <1>1, <1>3, <1>4, PrecedesIsATotalOrder
<1> HIDE DEF n, result
<1>6. Queued(result) = Queued(queue) \ {queue[at]}
  <2>1. Queued(result) = {result[k] : k \in 1..(n - 1)}
    BY <1>2 DEF Queued
  <2>2. ASSUME NEW k \in 1..(n - 1) PROVE result[k] \in Queued(queue) \ {queue[at]}
    <3>1. CASE k < at
      BY <3>1, <1>1, <1>2, <1>4, <1>5
    <3>2. CASE ~ (k < at)
      <4>1. k + 1 \in 1..n /\ k + 1 # at /\ result[k] = queue[k + 1]
        BY <3>2, <1>1, <1>2
      <4> QED BY <4>1, <1>4, <1>5
    <3> QED BY <3>1, <3>2
  <2>3. ASSUME NEW i \in 1..n, queue[i] # queue[at]
        PROVE  \E k \in 1..(n - 1) : result[k] = queue[i]
    <3>1. CASE i < at
      <4>1. i \in 1..(n - 1) /\ result[i] = queue[i]
        BY <3>1, <1>1, <1>2
      <4> QED BY <4>1
    <3>2. CASE at < i
      <4>1. i - 1 \in 1..(n - 1) /\ result[i - 1] = queue[i]
        BY <3>2, <1>1, <1>2
      <4> QED BY <4>1
    <3> QED BY <2>3, <3>1, <3>2, <1>1
  <2> QED BY <2>1, <2>2, <2>3, <1>4
<1>7. Sorted(result, callbacks)
  <2> SUFFICES ASSUME NEW i \in 1..(n - 1), NEW j \in 1..(n - 1), i < j
               PROVE  Precedes(callbacks, result[i], result[j])
    BY <1>2 DEF Sorted
  <2>1. \E k, l \in 1..n : k < l /\ result[i] = queue[k] /\ result[j] = queue[l]
    <3>1. CASE j < at
      <4>1. i \in 1..n /\ j \in 1..n /\ i < j /\ result[i] = queue[i] /\ result[j] = queue[j]
        BY <3>1, <1>1, <1>2
      <4> QED BY <4>1
    <3>2. CASE i < at /\ ~ (j < at)
      <4>1. i \in 1..n /\ j + 1 \in 1..n /\ i < j + 1
            /\ result[i] = queue[i] /\ result[j] = queue[j + 1]
        BY <3>2, <1>1, <1>2
      <4> QED BY <4>1
    <3>3. CASE ~ (i < at)
      <4>1. i + 1 \in 1..n /\ j + 1 \in 1..n /\ i + 1 < j + 1
            /\ result[i] = queue[i + 1] /\ result[j] = queue[j + 1]
        BY <3>3, <1>1, <1>2
      <4> QED BY <4>1
    <3> QED BY <3>1, <3>2, <3>3, <1>1
  <2> QED BY <2>1, <1>3
<1> QED BY <1>2, <1>6, <1>7 DEF result

\* Dequeue removes the id and nothing else, whether or not it is queued.
LEMMA DequeueKeepsSorted ==
  ASSUME NEW T, NEW queue \in Seq(T), NEW callbacks, NEW id,
         Ordered(callbacks, Queued(queue)),
         Sorted(queue, callbacks)
  PROVE  /\ Dequeue(queue, id) \in Seq(T)
         /\ Queued(Dequeue(queue, id)) = Queued(queue) \ {id}
         /\ Sorted(Dequeue(queue, id), callbacks)
<1> DEFINE at == {i \in 1..Len(queue) : queue[i] = id}
<1>1. CASE at = {}
  <2>1. Dequeue(queue, id) = queue
    BY <1>1 DEF Dequeue
  <2>2. id \notin Queued(queue)
    BY <1>1 DEF Queued
  <2> QED BY <2>1, <2>2
<1>2. CASE at # {}
  <2>1. at \in SUBSET Nat
    OBVIOUS
  <2>2. Min(at) \in at
    <3> HIDE DEF at
    <3> QED BY <2>1, <1>2, MinOfNaturals
  <2>3. Min(at) \in 1..Len(queue) /\ queue[Min(at)] = id
    BY <2>2
  <2>4. Dequeue(queue, id) = RemoveAt(queue, Min(at))
    BY <1>2 DEF Dequeue
  <2> HIDE DEF at
  <2> QED BY <2>3, <2>4, RemovalKeepsSorted
<1> QED BY <1>1, <1>2

\* Popping the head of a sorted queue removes it alone, and it precedes the rest.
LEMMA PopKeepsSorted ==
  ASSUME NEW T, NEW queue \in Seq(T), NEW callbacks, queue # <<>>,
         Ordered(callbacks, Queued(queue)),
         Sorted(queue, callbacks)
  PROVE  /\ Head(queue) \in T /\ Head(queue) \in Queued(queue)
         /\ Tail(queue) \in Seq(T)
         /\ Queued(Tail(queue)) = Queued(queue) \ {Head(queue)}
         /\ Sorted(Tail(queue), callbacks)
         /\ \A id \in Queued(queue) \ {Head(queue)} : Precedes(callbacks, Head(queue), id)
<1> DEFINE n == Len(queue)
<1>1. n \in Nat /\ 1 \in 1..n /\ Head(queue) = queue[1]
  OBVIOUS
<1>2. Tail(queue) \in Seq(T) /\ Len(Tail(queue)) = n - 1
      /\ \A k \in 1..(n - 1) : Tail(queue)[k] = queue[k + 1]
  BY HeadTailProperties
<1>3. /\ RemoveAt(queue, 1) \in Seq(T) /\ Len(RemoveAt(queue, 1)) = n - 1
      /\ \A k \in 1..(n - 1) : RemoveAt(queue, 1)[k] = queue[k + 1]
  BY <1>1, RemoveAtElements
<1>4. Tail(queue) = RemoveAt(queue, 1)
  BY <1>1, <1>2, <1>3, SeqEqual
<1>5. \A id \in Queued(queue) \ {Head(queue)} : Precedes(callbacks, Head(queue), id)
  BY <1>1 DEF Queued, Sorted
<1>6. /\ Queued(RemoveAt(queue, 1)) = Queued(queue) \ {queue[1]}
      /\ Sorted(RemoveAt(queue, 1), callbacks)
  BY <1>1, RemovalKeepsSorted
<1>7. Head(queue) \in T /\ Head(queue) \in Queued(queue)
  BY <1>1 DEF Queued
<1> QED BY <1>1, <1>2, <1>4, <1>5, <1>6, <1>7

\* The order looks only at the records of the ids in the queue.
LEMMA SortedDependsOnQueuedOnly ==
  ASSUME NEW T, NEW queue \in Seq(T), NEW callbacks, NEW others,
         Sorted(queue, callbacks),
         \A id \in Queued(queue) : /\ others[id].time = callbacks[id].time
                                   /\ others[id].priority = callbacks[id].priority
  PROVE  Sorted(queue, others)
<1>1. \A i \in 1..Len(queue) : queue[i] \in Queued(queue)
  BY DEF Queued
<1> QED BY <1>1 DEF Sorted, Precedes

\* An empty queue has nothing queued.
LEMMA NothingQueued ==
  ASSUME NEW T, NEW queue \in Seq(T)
  PROVE  queue = <<>> <=> Queued(queue) = {}
<1>1. CASE queue = <<>>
  BY <1>1 DEF Queued
<1>2. CASE queue # <<>>
  <2>1. 1 \in 1..Len(queue)
    BY <1>2
  <2> QED BY <2>1, <1>2 DEF Queued
<1> QED BY <1>1, <1>2
=============================================================================
