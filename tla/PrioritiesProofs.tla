-------------------------- MODULE PrioritiesProofs --------------------------
(***************************************************************************)
(* The safety properties of Priorities for every tree of accessors, every  *)
(* wiring without a circle of composites and every pruning of              *)
(* dependencies: what the walk, the search and the numbering compute.      *)
(***************************************************************************)
EXTENDS Priorities, FiniteSetTheorems, SequenceTheorems, TLAPS

-----------------------------------------------------------------------------
(* Numbers, and functions that are defined by recursion over them.          *)

\* Min finds the least member.
LEMMA LeastIsIn ==
  ASSUME NEW S \in SUBSET Nat, S # {}
  PROVE  /\ Min(S) \in S
         /\ \A n \in S : Min(S) <= n
<1> DEFINE R == OpToRel(<, Nat)
<1>1. \A x, y \in Nat : <<x, y>> \in R <=> x < y
  BY DEF OpToRel
<1>2. IsWellFoundedOn(R, Nat)
  BY NatLessThanWellFounded
<1> HIDE DEF R
<1>3. PICK n \in S : \A k \in S : ~ (<<k, n>> \in R)
  BY <1>2, WFMin
<1>4. ASSUME NEW k \in S PROVE n <= k
  <2>1. n \in Nat /\ k \in Nat
    OBVIOUS
  <2>2. <<k, n>> \notin R
    BY <1>3
  <2>3. ~ (k < n)
    BY <1>1, <2>1, <2>2
  <2> QED BY <2>1, <2>3
<1> QED BY <1>4 DEF Min

\* Induction up to a bound.
LEMMA Counting ==
  ASSUME NEW N \in Nat, NEW P, 0 \in P, \A n \in 1..N : n - 1 \in P => n \in P
  PROVE  \A n \in 0..N : n \in P
<1> DEFINE S == {n \in 0..N : n \notin P}
<1> SUFFICES ASSUME S # {} PROVE FALSE
  OBVIOUS
<1>1. S \in SUBSET Nat
  OBVIOUS
<1>2. Min(S) \in S /\ \A n \in S : Min(S) <= n
  BY <1>1, LeastIsIn
<1> DEFINE m == Min(S)
<1> HIDE DEF m
<1>3. m \in 0..N /\ m \notin P /\ \A n \in S : m <= n
  BY <1>2 DEF m
<1>4. m \in 1..N /\ m - 1 \in 0..N
  BY <1>3
<1>5. m - 1 \in P
  BY <1>3, <1>4
<1> QED BY <1>3, <1>4, <1>5

\* A recursion that stays in a set is that of a function.
StaysIn(step, N, S) == step \in [(1..N) \X S -> S]

Follows(f, N, S, start, step) ==
  /\ f \in [0..N -> S]
  /\ f[0] = start
  /\ \A n \in 1..N : f[n] = step[<<n, f[n - 1]>>]

LEMMA Recursion ==
  ASSUME NEW N \in Nat, NEW S, NEW start \in S, NEW step, StaysIn(step, N, S)
  PROVE  \E f : Follows(f, N, S, start, step)
<1>0. step \in [(1..N) \X S -> S]
  BY DEF StaysIn
<1> DEFINE Good(m, f) == /\ f[0] = start
                         /\ \A n \in 1..m : f[n] = step[<<n, f[n - 1]>>]
           P == {m \in 0..N : \E f \in [0..m -> S] : Good(m, f)}
<1>1. 0 \in P
  <2> DEFINE f == [n \in 0..0 |-> start]
  <2>1. f \in [0..0 -> S] /\ Good(0, f)
    OBVIOUS
  <2> HIDE DEF f
  <2>2. \E h \in [0..0 -> S] : Good(0, h)
    BY <2>1
  <2> QED BY <2>2
<1>2. ASSUME NEW m \in 1..N, m - 1 \in P
      PROVE  m \in P
  <2>1. PICK f \in [0..(m - 1) -> S] : Good(m - 1, f)
    BY <1>2
  <2> DEFINE g == [n \in 0..m |-> IF n = m THEN step[<<m, f[m - 1]>>] ELSE f[n]]
  <2>2. step[<<m, f[m - 1]>>] \in S
    BY <1>0, <2>1
  <2>3. g \in [0..m -> S]
    BY <2>1, <2>2
  <2>4. g[0] = start
    BY <2>1
  <2>5. ASSUME NEW n \in 1..m PROVE g[n] = step[<<n, g[n - 1]>>]
    <3>1. n - 1 \in 0..m /\ n - 1 # m /\ n \in 0..m
      OBVIOUS
    <3>2. g[n - 1] = f[n - 1]
      BY <3>1
    <3>3. CASE n = m
      BY <3>1, <3>2, <3>3
    <3>4. CASE n # m
      <4>1. n \in 1..(m - 1)
        BY <3>4
      <4>2. f[n] = step[<<n, f[n - 1]>>]
        BY <2>1, <4>1
      <4>3. g[n] = f[n]
        BY <3>1, <3>4
      <4> QED BY <3>2, <4>2, <4>3
    <3> QED BY <3>3, <3>4
  <2> HIDE DEF g
  <2>6. \E h \in [0..m -> S] : Good(m, h)
    BY <2>3, <2>4, <2>5
  <2> QED BY <2>6
<1> HIDE DEF P
<1>3. N \in P
  BY <1>1, <1>2, Counting
<1> QED BY <1>3 DEF P, Follows

\* To count up to a number.
LEMMA CountTo == ASSUME NEW n \in Nat PROVE IsFiniteSet(1..n) /\ Cardinality(1..n) = n
<1>1. 1 \in Int /\ n \in Int
  OBVIOUS
<1>2. IsFiniteSet(1..n) /\ Cardinality(1..n) = IF 1 > n THEN 0 ELSE n - 1 + 1
  BY <1>1, FS_Interval
<1> QED BY <1>2

\* Max finds the greatest member of a finite set.
LEMMA GreatestIsIn ==
  ASSUME NEW S \in SUBSET Nat, S # {}, IsFiniteSet(S)
  PROVE  /\ Max(S) \in S
         /\ \A n \in S : n <= Max(S)
<1> DEFINE N == Cardinality(S)
           P == {n \in Nat : \A T \in SUBSET S : T # {} /\ Cardinality(T) <= n
                               => \E x \in T : \A y \in T : y <= x}
<1>1. N \in Nat
  BY FS_CardinalityType
<1>2. 0 \in P
  <2>1. ASSUME NEW T \in SUBSET S, T # {}, Cardinality(T) <= 0 PROVE FALSE
    <3>1. IsFiniteSet(T)
      BY FS_Subset
    <3>2. Cardinality(T) = 0
      BY <2>1, <3>1, FS_CardinalityType
    <3> QED BY <2>1, <3>1, <3>2, FS_EmptySet
  <2> QED BY <2>1
<1>3. ASSUME NEW n \in 1..N, n - 1 \in P PROVE n \in P
  <2>1. SUFFICES ASSUME NEW T \in SUBSET S, T # {}, Cardinality(T) <= n
                 PROVE  \E x \in T : \A y \in T : y <= x
    BY <1>1
  <2>2. IsFiniteSet(T)
    BY FS_Subset
  <2>3. PICK x \in T : TRUE
    BY <2>1
  <2> DEFINE R == T \ {x}
  <2>4. Cardinality(R) <= n - 1
    <3>1. Cardinality(R) = Cardinality(T) - 1
      BY <2>2, <2>3, FS_RemoveElement
    <3>2. Cardinality(T) \in Nat
      BY <2>2, FS_CardinalityType
    <3> QED BY <2>1, <3>1, <3>2
  <2>5. CASE R = {}
    BY <2>3, <2>5
  <2>6. CASE R # {}
    <3>1. PICK z \in R : \A y \in R : y <= z
      BY <1>3, <2>4, <2>6
    <3>2. x \in Nat /\ z \in Nat /\ T \subseteq Nat
      OBVIOUS
    <3>3. CASE z <= x
      BY <3>1, <3>2, <3>3
    <3>4. CASE ~(z <= x)
      BY <3>1, <3>2, <3>4
    <3> QED BY <3>3, <3>4
  <2> QED BY <2>5, <2>6
<1> HIDE DEF P
<1>4. N \in P
  BY <1>1, <1>2, <1>3, Counting
<1>5. PICK x \in S : \A y \in S : y <= x
  BY <1>1, <1>4 DEF P
<1>6. \A y \in S : x >= y
  BY <1>5
<1>7. Max(S) \in S /\ \A y \in S : Max(S) >= y
  BY <1>6, Zenon DEF Max
<1> QED BY <1>7

-----------------------------------------------------------------------------
(* The accessors and their ports.                                           *)

\* Every port has the accessor it belongs to as its owner.
LEMMA OwnersOwn ==
  /\ \A p \in Ports : Owner[p] \in Accessors /\ p \in PortsOf(Owner[p])
  /\ \A x \in Accessors : \A p \in PortsOf(x) : p \in Ports /\ Owner[p] = x
<1>1. ASSUME NEW p \in Ports
      PROVE  Owner[p] \in Accessors /\ p \in PortsOf(Owner[p])
  <2>1. \E x \in Accessors : p \in PortsOf(x)
    BY DEF Ports, InputPorts, OutputPorts, PortsOf
  <2>2. Owner[p] = CHOOSE x \in Accessors : p \in PortsOf(x)
    BY DEF Owner
  <2> QED BY <2>1, <2>2
<1>2. ASSUME NEW x \in Accessors, NEW p \in PortsOf(x)
      PROVE  p \in Ports /\ Owner[p] = x
  <2>1. p \in Ports
    BY DEF Ports, InputPorts, OutputPorts, PortsOf
  <2>2. Owner[p] \in Accessors /\ p \in PortsOf(Owner[p])
    BY <1>1, <2>1
  <2> QED BY <2>1, <2>2, StructureAssumption
<1> QED BY <1>1, <1>2

\* A sequence has finitely many members.
LEMMA RangeIsFinite ==
  ASSUME NEW S, NEW s \in Seq(S)
  PROVE  IsFiniteSet(Range(s)) /\ Range(s) \subseteq S
<1>1. s \in [1..Len(s) -> S] /\ Len(s) \in Nat
  BY LenProperties
<1>2. s \in Surjection(1..Len(s), Range(s))
  BY <1>1 DEF Surjection, Range
<1>3. IsFiniteSet(1..Len(s))
  BY <1>1, FS_Interval
<1>4. IsFiniteSet(Range(s))
  BY <1>2, <1>3, FS_Surjection
<1> QED BY <1>1, <1>4 DEF Range

\* There are finitely many ports.
LEMMA PortsAreFinite == IsFiniteSet(Ports)
<1>1. IsFiniteSet(InputPorts)
  <2> DEFINE f == [x \in Accessors |-> Range(InputsOf[x])]
             sets == {Range(InputsOf[x]) : x \in Accessors}
  <2>1. f \in Surjection(Accessors, sets)
    BY DEF Surjection
  <2>2. IsFiniteSet(sets)
    BY <2>1, FS_Surjection, StructureAssumption
  <2>3. \A S \in sets : IsFiniteSet(S)
    <3>1. SUFFICES ASSUME NEW x \in Accessors PROVE IsFiniteSet(Range(InputsOf[x]))
      OBVIOUS
    <3>2. InputsOf[x] \in Seq(InputPorts)
      BY StructureAssumption
    <3> QED BY <3>2, RangeIsFinite
  <2> QED BY <2>2, <2>3, FS_UNION DEF InputPorts
<1>2. IsFiniteSet(OutputPorts)
  <2> DEFINE f == [x \in Accessors |-> Range(OutputsOf[x])]
             sets == {Range(OutputsOf[x]) : x \in Accessors}
  <2>1. f \in Surjection(Accessors, sets)
    BY DEF Surjection
  <2>2. IsFiniteSet(sets)
    BY <2>1, FS_Surjection, StructureAssumption
  <2>3. \A S \in sets : IsFiniteSet(S)
    <3>1. SUFFICES ASSUME NEW x \in Accessors PROVE IsFiniteSet(Range(OutputsOf[x]))
      OBVIOUS
    <3>2. OutputsOf[x] \in Seq(OutputPorts)
      BY StructureAssumption
    <3> QED BY <3>2, RangeIsFinite
  <2> QED BY <2>2, <2>3, FS_UNION DEF OutputPorts
<1> QED BY <1>1, <1>2, FS_Union DEF Ports

\* One sequence put into another.
Put(list, new, m) == SubSeq(list, 1, m - 1) \o new \o SubSeq(list, m, Len(list))

LEMMA Inserted ==
  ASSUME NEW S, NEW list \in Seq(S), NEW new \in Seq(S), NEW m \in 1..(Len(list) + 1)
  PROVE  /\ Put(list, new, m) \in Seq(S)
         /\ Len(Put(list, new, m)) = Len(list) + Len(new)
         /\ \A k \in 1..(m - 1) : Put(list, new, m)[k] = list[k]
         /\ \A k \in 1..Len(new) : Put(list, new, m)[m - 1 + k] = new[k]
         /\ \A k \in m..Len(list) : Put(list, new, m)[Len(new) + k] = list[k]
<1> DEFINE a == SubSeq(list, 1, m - 1)
           b == SubSeq(list, m, Len(list))
           n == Len(list)
           q == Len(new)
           all == (a \o new) \o b
<1>1. n \in Nat /\ q \in Nat
  BY LenProperties
<1>2. a \in Seq(S) /\ Len(a) = m - 1 /\ \A k \in 1..(m - 1) : a[k] = list[k]
  BY <1>1, SubSeqProperties
<1>3. b \in Seq(S) /\ Len(b) = n - m + 1 /\ \A k \in 1..(n - m + 1) : b[k] = list[m + k - 1]
  <2>1. b \in Seq(S) /\ Len(b) = (IF m <= n THEN n - m + 1 ELSE 0)
    BY <1>1, SubSeqProperties
  <2>2. \A k \in 1..(n - m + 1) : b[k] = list[m + k - 1]
    BY <1>1, SubSeqProperties
  <2> QED BY <1>1, <2>1, <2>2
<1> HIDE DEF a, b, n, q
<1>4. /\ a \o new \in Seq(S) /\ Len(a \o new) = m - 1 + q
      /\ \A k \in 1..(m - 1 + q) : (a \o new)[k] = IF k <= m - 1 THEN a[k] ELSE new[k - (m - 1)]
  <2>1. /\ a \o new \in Seq(S) /\ Len(a \o new) = Len(a) + q
        /\ \A k \in 1..(Len(a) + q) : (a \o new)[k] = IF k <= Len(a) THEN a[k] ELSE new[k - Len(a)]
    BY <1>2, ConcatProperties DEF q
  <2>2. Len(a) = m - 1
    BY <1>2
  <2> QED BY <2>1, <2>2, Zenon
<1> DEFINE an == a \o new
<1> HIDE DEF an
<1>5. an \in Seq(S) /\ Len(an) = m - 1 + q
  BY <1>4 DEF an
<1>6. /\ an \o b \in Seq(S) /\ Len(an \o b) = m - 1 + q + (n - m + 1)
      /\ \A k \in 1..(m - 1 + q + (n - m + 1)) :
           (an \o b)[k] = IF k <= m - 1 + q THEN an[k] ELSE b[k - (m - 1 + q)]
  <2>1. /\ an \o b \in Seq(S) /\ Len(an \o b) = Len(an) + Len(b)
        /\ \A k \in 1..(Len(an) + Len(b)) :
             (an \o b)[k] = IF k <= Len(an) THEN an[k] ELSE b[k - Len(an)]
    BY <1>3, <1>5, ConcatProperties
  <2>2. Len(an) = m - 1 + q /\ Len(b) = n - m + 1
    BY <1>3, <1>5
  <2> QED BY <2>1, <2>2, Zenon
<1>7. all = an \o b
  BY DEF an
<1> HIDE DEF all
<1>8. m \in 1..(n + 1)
  BY DEF n
<1>9. all \in Seq(S) /\ Len(all) = n + q
  <2>1. m - 1 + q + (n - m + 1) = n + q
    BY <1>1, <1>8
  <2>2. all \in Seq(S) /\ Len(all) = m - 1 + q + (n - m + 1)
    BY <1>6, <1>7
  <2> QED BY <2>1, <2>2
<1>10. ASSUME NEW k \in 1..(m - 1) PROVE all[k] = list[k]
  <2>1. k \in 1..(m - 1 + q + (n - m + 1)) /\ k <= m - 1 + q /\ k \in 1..(m - 1 + q) /\ k <= m - 1
    BY <1>1, <1>8
  <2> QED BY <1>2, <1>4, <1>6, <1>7, <2>1 DEF an
<1>11. ASSUME NEW k \in 1..q PROVE all[m - 1 + k] = new[k]
  <2>1. /\ m - 1 + k \in 1..(m - 1 + q + (n - m + 1)) /\ m - 1 + k <= m - 1 + q
        /\ m - 1 + k \in 1..(m - 1 + q) /\ ~(m - 1 + k <= m - 1) /\ (m - 1 + k) - (m - 1) = k
    BY <1>1, <1>8
  <2> QED BY <1>4, <1>6, <1>7, <2>1 DEF an
<1>12. ASSUME NEW k \in m..n PROVE all[q + k] = list[k]
  <2>1. /\ q + k \in 1..(m - 1 + q + (n - m + 1)) /\ ~(q + k <= m - 1 + q)
        /\ (q + k) - (m - 1 + q) = k - m + 1 /\ k - m + 1 \in 1..(n - m + 1)
        /\ m + (k - m + 1) - 1 = k
    BY <1>1, <1>8
  <2> QED BY <1>3, <1>6, <1>7, <2>1
<1>13. Put(list, new, m) = all
  BY DEF Put, all, a, b
<1> QED BY <1>9, <1>10, <1>11, <1>12, <1>13 DEF n, q

\* A sequence without its last member.
LEMMA Shortened ==
  ASSUME NEW S, NEW list \in Seq(S), Len(list) >= 1
  PROVE  /\ SubSeq(list, 1, Len(list) - 1) \in Seq(S)
         /\ Len(SubSeq(list, 1, Len(list) - 1)) = Len(list) - 1
         /\ \A k \in 1..(Len(list) - 1) : SubSeq(list, 1, Len(list) - 1)[k] = list[k]
<1> DEFINE m == Len(list) - 1
<1>1. Len(list) \in Nat /\ m \in Nat /\ 1 \in Int /\ m \in Int
  BY LenProperties
<1>2. \A k \in 1..m : list[k] \in S
  BY <1>1, ElementOfSeq
<1> HIDE DEF m
<1>3. /\ SubSeq(list, 1, m) \in Seq(S)
      /\ Len(SubSeq(list, 1, m)) = (IF 1 <= m THEN m - 1 + 1 ELSE 0)
      /\ \A k \in 1..(m - 1 + 1) : SubSeq(list, 1, m)[k] = list[1 + k - 1]
  BY <1>1, <1>2, SubSeqProperties
<1>4. SubSeq(list, 1, m) \in Seq(S) /\ Len(SubSeq(list, 1, m)) = m
  BY <1>1, <1>3
<1>5. \A k \in 1..m : SubSeq(list, 1, m)[k] = list[k]
  BY <1>1, <1>3
<1> QED BY <1>4, <1>5 DEF m

-----------------------------------------------------------------------------
(* The walk over the tree of accessors.                                     *)

IsTree(tree) ==
  /\ tree \in [Composites -> Seq(Accessors \ {Host})]
  /\ \A c \in Composites : IsInjective(tree[c]) /\ \A x \in Range(tree[c]) : Parent[x] = c

\* After n accessors: no one is listed twice, the children of the last n are all
\* in front of them, and who is listed is the root or a child of one of these.
Walking(tree, root, list, n) ==
  /\ list \in Seq(Accessors) /\ Len(list) >= 1 /\ list[Len(list)] = root
  /\ \A j, k \in 1..Len(list) : list[j] = list[k] => j = k
  /\ \A j \in 1..Len(list) : j > Len(list) - n /\ list[j] \in Composites
       => \A x \in Range(tree[list[j]]) : \E k \in 1..(j - 1) : list[k] = x
  /\ \A k \in 1..(Len(list) - 1) : \E j \in (k + 1)..Len(list) :
       /\ j > Len(list) - n /\ list[j] \in Composites
       /\ list[k] \in Range(tree[list[j]])

\* Children of accessors are accessors, and their containers are known.
LEMMA ChildrenAreBelow ==
  ASSUME NEW tree, IsTree(tree), NEW c \in Composites, NEW x \in Range(tree[c])
  PROVE  x \in Accessors \ {Host} /\ Parent[x] = c
<1>1. tree[c] \in Seq(Accessors \ {Host})
  BY DEF IsTree
<1>2. x \in Accessors \ {Host}
  BY <1>1, RangeIsFinite
<1> QED BY <1>2 DEF IsTree

\* The root is not in anything that is listed.
LEMMA RootIsOnTop ==
  ASSUME NEW tree, IsTree(tree), NEW root \in Accessors, NEW list, NEW n \in Nat,
         Walking(tree, root, list, n), NEW j \in 1..Len(list), list[j] \in Composites
  PROVE  root \notin Range(tree[list[j]])
<1> SUFFICES ASSUME root \in Range(tree[list[j]]) PROVE FALSE
  OBVIOUS
<1> DEFINE S == {list[k] : k \in 1..Len(list)}
<1>1. list \in Seq(Accessors) /\ Len(list) \in Nat /\ Len(list) >= 1 /\ list[Len(list)] = root
  BY LenProperties DEF Walking
<1>2. root \in Accessors \ {Host} /\ Parent[root] = list[j]
  BY ChildrenAreBelow
<1>3. ASSUME NEW k \in 1..(Len(list) - 1)
      PROVE  list[k] \in Accessors \ {Host} /\ Parent[list[k]] \in S
  <2>1. PICK i \in (k + 1)..Len(list) : list[i] \in Composites /\ list[k] \in Range(tree[list[i]])
    BY DEF Walking
  <2>2. list[k] \in Accessors \ {Host} /\ Parent[list[k]] = list[i]
    BY <2>1, ChildrenAreBelow
  <2>3. i \in 1..Len(list)
    BY <1>1
  <2> QED BY <2>2, <2>3
<1>4. ASSUME NEW x \in S PROVE x \in Accessors \ {Host} /\ Parent[x] \in S
  <2>1. PICK k \in 1..Len(list) : x = list[k]
    OBVIOUS
  <2>2. CASE k = Len(list)
    BY <1>1, <1>2, <2>1, <2>2
  <2>3. CASE k # Len(list)
    <3>1. k \in 1..(Len(list) - 1)
      BY <1>1, <2>3
    <3> QED BY <1>3, <2>1, <3>1
  <2> QED BY <2>2, <2>3
<1>5. S \in SUBSET (Accessors \ {Host}) /\ S # {}
  BY <1>1, <1>4
<1> HIDE DEF S
<1> QED BY <1>4, <1>5, StructureAssumption

\* One more accessor is looked at.
LEMMA WalkStep ==
  ASSUME NEW tree, IsTree(tree), NEW root \in Accessors, NEW list, NEW n \in Nat \ {0},
         Walking(tree, root, list, n - 1)
  PROVE  Walking(tree, root, ChildrenInFront(tree, list, n), n)
<1> DEFINE L == Len(list)
           m == L - n + 1
<1>1. list \in Seq(Accessors) /\ L \in Nat /\ L >= 1 /\ list[L] = root
  BY LenProperties DEF Walking
<1>2. \A j, k \in 1..L : list[j] = list[k] => j = k
  BY DEF Walking
<1>3. \A j \in 1..L : j > m /\ list[j] \in Composites
        => \A x \in Range(tree[list[j]]) : \E k \in 1..(j - 1) : list[k] = x
  <2>1. L - (n - 1) = m
    BY <1>1
  <2> QED BY <2>1 DEF Walking
<1>4. \A k \in 1..(L - 1) : \E j \in (k + 1)..L :
        j > m /\ list[j] \in Composites /\ list[k] \in Range(tree[list[j]])
  <2>1. L - (n - 1) = m
    BY <1>1
  <2> QED BY <2>1 DEF Walking
<1> DEFINE expand == m > 0 /\ list[m] \in Composites
<1>5. CASE ~expand
  <2>1. ChildrenInFront(tree, list, n) = list
    BY <1>5 DEF ChildrenInFront
  <2>2. ASSUME NEW j \in 1..L, j > L - n, list[j] \in Composites
        PROVE  j > m
    <3>1. CASE j = m
      BY <1>5, <2>2, <3>1
    <3> QED BY <1>1, <2>2, <3>1
  <2>3. \A j \in 1..L : j > m => j > L - n
    BY <1>1
  <2>4. \A j \in 1..L : j > L - n /\ list[j] \in Composites
          => \A x \in Range(tree[list[j]]) : \E k \in 1..(j - 1) : list[k] = x
    BY <1>3, <2>2
  <2>5. \A k \in 1..(L - 1) : \E j \in (k + 1)..L :
          j > L - n /\ list[j] \in Composites /\ list[k] \in Range(tree[list[j]])
    <3>1. SUFFICES ASSUME NEW k \in 1..(L - 1)
                   PROVE  \E j \in (k + 1)..L : j > L - n /\ list[j] \in Composites /\ list[k] \in Range(tree[list[j]])
      OBVIOUS
    <3>2. PICK j \in (k + 1)..L : j > m /\ list[j] \in Composites /\ list[k] \in Range(tree[list[j]])
      BY <1>4
    <3>3. j \in 1..L
      BY <1>1
    <3> QED BY <2>3, <3>2, <3>3
  <2>6. list \in Seq(Accessors) /\ Len(list) >= 1 /\ list[Len(list)] = root
    BY <1>1
  <2> HIDE DEF m, expand
  <2>7. Walking(tree, root, list, n)
    BY <1>2, <2>4, <2>5, <2>6 DEF Walking
  <2> QED BY <2>1, <2>7
<1>6. CASE expand
  <2> DEFINE c == list[m]
             kids == tree[c]
             q == Len(kids)
             all == Put(list, kids, m)
  <2>1. m \in 1..L
    BY <1>1, <1>6
  <2>2. c \in Composites /\ kids \in Seq(Accessors \ {Host}) /\ kids \in Seq(Accessors)
    <3>1. c \in Composites /\ kids \in Seq(Accessors \ {Host})
      BY <1>6 DEF IsTree
    <3>2. Accessors \ {Host} \subseteq Accessors
      OBVIOUS
    <3> QED BY <3>1, <3>2, SeqMonotonic
  <2>3. q \in Nat /\ (\A k \in 1..q : kids[k] \in Range(kids)) /\ \A x \in Range(kids) : \E k \in 1..q : kids[k] = x
    BY <2>2, LenProperties DEF Range
  <2>4. \A j, k \in 1..q : kids[j] = kids[k] => j = k
    <3>1. IsInjective(kids) /\ DOMAIN kids = 1..q
      BY <2>2, LenProperties DEF IsTree
    <3> QED BY <3>1 DEF IsInjective
  <2>5. ChildrenInFront(tree, list, n) = all
    BY <1>6 DEF ChildrenInFront, Put
  <2>6. /\ all \in Seq(Accessors) /\ Len(all) = L + q
        /\ \A k \in 1..(m - 1) : all[k] = list[k]
        /\ \A k \in 1..q : all[m - 1 + k] = kids[k]
        /\ \A k \in m..L : all[q + k] = list[k]
    <3>1. m \in 1..(L + 1)
      BY <1>1, <2>1
    <3> HIDE DEF m, kids
    <3>2. m \in 1..(Len(list) + 1)
      BY <3>1
    <3>3. list \in Seq(Accessors) /\ kids \in Seq(Accessors)
      BY <1>1, <2>2
    <3>4. Put(list, kids, m) \in Seq(Accessors)
      BY <3>2, <3>3, Inserted
    <3>5. Len(Put(list, kids, m)) = Len(list) + Len(kids)
      BY <3>2, <3>3, Inserted
    <3>6. \A k \in 1..(m - 1) : Put(list, kids, m)[k] = list[k]
      BY <3>2, <3>3, Inserted
    <3>7. \A k \in 1..Len(kids) : Put(list, kids, m)[m - 1 + k] = kids[k]
      BY <3>2, <3>3, Inserted
    <3>8. \A k \in m..Len(list) : Put(list, kids, m)[Len(kids) + k] = list[k]
      BY <3>2, <3>3, Inserted
    <3> QED BY <3>4, <3>5, <3>6, <3>7, <3>8
  <2>7. \A k \in 1..L : list[k] \notin Range(kids)
    <3>1. SUFFICES ASSUME NEW k \in 1..L, list[k] \in Range(kids) PROVE FALSE
      OBVIOUS
    <3>2. list[k] \in Accessors \ {Host} /\ Parent[list[k]] = c
      BY <2>2, <3>1, ChildrenAreBelow
    <3>3. CASE k = L
      <4>1. n - 1 \in Nat
        OBVIOUS
      <4> QED BY <1>1, <2>1, <2>2, <3>1, <3>3, <4>1, RootIsOnTop
    <3>4. CASE k # L
      <4>1. k \in 1..(L - 1)
        BY <1>1, <3>4
      <4>2. PICK j \in (k + 1)..L : j > m /\ list[j] \in Composites /\ list[k] \in Range(tree[list[j]])
        BY <1>4, <4>1
      <4>3. Parent[list[k]] = list[j]
        BY <4>2, ChildrenAreBelow
      <4>4. j \in 1..L /\ j # m
        BY <1>1, <2>1, <4>2
      <4> QED BY <1>2, <2>1, <3>2, <4>3, <4>4
    <3> QED BY <3>3, <3>4
  <2> HIDE DEF all, q, kids, c, m, L, expand
  <2>8. ASSUME NEW k \in 1..(L + q)
        PROVE  \/ k \in 1..(m - 1) /\ all[k] = list[k] /\ k \in 1..L
               \/ k \in m..(m - 1 + q) /\ k - (m - 1) \in 1..q /\ all[k] = kids[k - (m - 1)]
               \/ k \in (m + q)..(L + q) /\ k - q \in m..L /\ k - q \in 1..L /\ all[k] = list[k - q]
    <3>1. CASE k < m
      <4>1. k \in 1..(m - 1) /\ k \in 1..L
        BY <1>1, <2>1, <2>3, <3>1
      <4> QED BY <2>6, <4>1
    <3>2. CASE k >= m /\ k < m + q
      <4>1. k \in m..(m - 1 + q) /\ k - (m - 1) \in 1..q /\ m - 1 + (k - (m - 1)) = k
        BY <1>1, <2>1, <2>3, <3>2
      <4>2. all[m - 1 + (k - (m - 1))] = kids[k - (m - 1)]
        BY <2>6, <4>1
      <4> QED BY <4>1, <4>2
    <3>3. CASE k >= m + q
      <4>1. k \in (m + q)..(L + q) /\ k - q \in m..L /\ k - q \in 1..L /\ q + (k - q) = k
        BY <1>1, <2>1, <2>3, <3>3
      <4>2. all[q + (k - q)] = list[k - q]
        BY <2>6, <4>1
      <4> QED BY <4>1, <4>2
    <3> QED BY <1>1, <2>1, <2>3, <3>1, <3>2, <3>3
  <2>9. ASSUME NEW j \in 1..(L + q), NEW k \in 1..(L + q), all[j] = all[k]
        PROVE  j = k
    <3>1. ASSUME NEW i \in 1..L, NEW h \in 1..q, list[i] = kids[h] PROVE FALSE
      BY <2>3, <2>7, <3>1
    <3> DEFINE A(i) == i \in 1..(m - 1) /\ all[i] = list[i] /\ i \in 1..L
               B(i) == i \in m..(m - 1 + q) /\ i - (m - 1) \in 1..q /\ all[i] = kids[i - (m - 1)]
               C(i) == i \in (m + q)..(L + q) /\ i - q \in m..L /\ i - q \in 1..L /\ all[i] = list[i - q]
    <3>2. (A(j) \/ B(j) \/ C(j)) /\ (A(k) \/ B(k) \/ C(k))
      BY <2>8
    <3>3. CASE A(j) /\ A(k)
      BY <1>2, <2>9, <3>3
    <3>4. CASE B(j) /\ B(k)
      <4>1. j - (m - 1) = k - (m - 1)
        BY <2>4, <2>9, <3>4
      <4> QED BY <1>1, <2>1, <4>1
    <3>5. CASE C(j) /\ C(k)
      <4>1. j - q = k - q
        BY <1>2, <2>9, <3>5
      <4> QED BY <2>3, <4>1
    <3>6. CASE A(j) /\ C(k)
      <4>1. j = k - q
        BY <1>2, <2>9, <3>6
      <4> QED BY <1>1, <2>1, <2>3, <3>6, <4>1
    <3>7. CASE C(j) /\ A(k)
      <4>1. k = j - q
        BY <1>2, <2>9, <3>7
      <4> QED BY <1>1, <2>1, <2>3, <3>7, <4>1
    <3>8. CASE (A(j) \/ C(j)) /\ B(k)
      BY <2>9, <3>1, <3>8
    <3>9. CASE B(j) /\ (A(k) \/ C(k))
      BY <2>9, <3>1, <3>9
    <3> HIDE DEF A, B, C
    <3> QED BY <3>2, <3>3, <3>4, <3>5, <3>6, <3>7, <3>8, <3>9
  <2>10. L + q - n = m - 1 + q
    BY <1>1, <2>3 DEF m
  <2>11. ASSUME NEW j \in 1..(L + q), j > L + q - n, all[j] \in Composites,
                NEW x \in Range(tree[all[j]])
         PROVE  \E k \in 1..(j - 1) : all[k] = x
    <3>1. j \in (m + q)..(L + q) /\ j - q \in m..L /\ j - q \in 1..L /\ all[j] = list[j - q]
      BY <1>1, <2>1, <2>3, <2>8, <2>10, <2>11
    <3>2. CASE j - q = m
      <4>1. PICK k \in 1..q : kids[k] = x
        BY <2>3, <2>11, <3>1, <3>2 DEF kids, c
      <4>2. all[m - 1 + k] = x
        BY <2>6, <4>1
      <4>3. m - 1 + k \in 1..(j - 1)
        BY <1>1, <2>1, <2>3, <3>2
      <4> QED BY <4>2, <4>3
    <3>3. CASE j - q # m
      <4>1. j - q > m
        BY <1>1, <2>1, <2>3, <3>1, <3>3
      <4>2. PICK k \in 1..((j - q) - 1) : list[k] = x
        BY <1>3, <2>11, <3>1, <4>1
      <4>3. CASE k < m
        <5>1. k \in 1..(m - 1) /\ k \in 1..(j - 1)
          BY <1>1, <2>1, <2>3, <4>1, <4>3
        <5> QED BY <2>6, <4>2, <5>1
      <4>4. CASE k >= m
        <5>1. k \in m..L /\ q + k \in 1..(j - 1)
          BY <1>1, <2>1, <2>3, <3>1, <4>1, <4>4
        <5> QED BY <2>6, <4>2, <5>1
      <4> QED BY <1>1, <2>1, <4>3, <4>4
    <3> QED BY <3>2, <3>3
  <2>12. ASSUME NEW k \in 1..(L + q - 1)
         PROVE  \E j \in (k + 1)..(L + q) :
                  j > L + q - n /\ all[j] \in Composites /\ all[k] \in Range(tree[all[j]])
    <3>1. ASSUME NEW h \in 1..(L - 1), all[k] = list[h], k <= q + h
          PROVE  \E j \in (k + 1)..(L + q) :
                   j > L + q - n /\ all[j] \in Composites /\ all[k] \in Range(tree[all[j]])
      <4>1. PICK i \in (h + 1)..L : i > m /\ list[i] \in Composites /\ list[h] \in Range(tree[list[i]])
        BY <1>4
      <4>2. i \in m..L /\ q + i \in (k + 1)..(L + q) /\ q + i > L + q - n
        BY <1>1, <2>1, <2>3, <2>10, <3>1, <4>1
      <4>3. all[q + i] = list[i]
        BY <2>6, <4>2
      <4> QED BY <3>1, <4>1, <4>2, <4>3
    <3>2. k \in 1..(L + q)
      BY <1>1, <2>3
    <3>3. CASE k \in 1..(m - 1) /\ all[k] = list[k]
      <4>1. k \in 1..(L - 1) /\ k <= q + k
        BY <1>1, <2>1, <2>3, <3>3
      <4> QED BY <3>1, <3>3, <4>1
    <3>4. CASE k \in m..(m - 1 + q) /\ k - (m - 1) \in 1..q /\ all[k] = kids[k - (m - 1)]
      <4>1. m \in m..L /\ q + m \in (k + 1)..(L + q) /\ q + m > L + q - n
        BY <1>1, <2>1, <2>3, <2>10, <3>4
      <4>2. all[q + m] = c
        BY <2>6, <4>1 DEF c
      <4>3. all[k] \in Range(tree[all[q + m]])
        BY <2>3, <3>4, <4>2 DEF kids
      <4> QED BY <2>2, <4>1, <4>2, <4>3
    <3>5. CASE k \in (m + q)..(L + q) /\ k - q \in m..L /\ all[k] = list[k - q]
      <4>1. k - q \in 1..(L - 1) /\ k <= q + (k - q)
        BY <1>1, <2>1, <2>3, <3>5
      <4> QED BY <3>1, <3>5, <4>1
    <3> QED BY <2>8, <3>2, <3>3, <3>4, <3>5
  <2>13. L + q >= 1 /\ all[L + q] = root
    <3>1. L \in m..L /\ q + L = L + q /\ L + q >= 1
      BY <1>1, <2>1, <2>3
    <3> QED BY <1>1, <2>6, <3>1 DEF L
  <2>14. Walking(tree, root, all, n)
    <3>1. all \in Seq(Accessors) /\ Len(all) >= 1 /\ all[Len(all)] = root
      BY <2>6, <2>13
    <3>2. \A j, k \in 1..Len(all) : all[j] = all[k] => j = k
      BY <2>6, <2>9
    <3>5. Len(all) = L + q
      BY <2>6
    <3>3. \A j \in 1..Len(all) : j > Len(all) - n /\ all[j] \in Composites
            => \A x \in Range(tree[all[j]]) : \E k \in 1..(j - 1) : all[k] = x
      <4>1. SUFFICES ASSUME NEW j \in 1..Len(all), j > Len(all) - n, all[j] \in Composites,
                            NEW x \in Range(tree[all[j]])
                     PROVE  \E k \in 1..(j - 1) : all[k] = x
        OBVIOUS
      <4>2. j \in 1..(L + q) /\ j > L + q - n
        BY <1>1, <2>3, <3>5, <4>1
      <4> QED BY <2>11, <4>1, <4>2
    <3>4. \A k \in 1..(Len(all) - 1) : \E j \in (k + 1)..Len(all) :
            /\ j > Len(all) - n /\ all[j] \in Composites
            /\ all[k] \in Range(tree[all[j]])
      <4>1. SUFFICES ASSUME NEW k \in 1..(Len(all) - 1)
                     PROVE  \E j \in (k + 1)..Len(all) :
                              /\ j > Len(all) - n /\ all[j] \in Composites
                              /\ all[k] \in Range(tree[all[j]])
        OBVIOUS
      <4>2. k \in 1..(L + q - 1)
        BY <1>1, <2>3, <3>5
      <4>3. PICK j \in (k + 1)..(L + q) :
                   j > L + q - n /\ all[j] \in Composites /\ all[k] \in Range(tree[all[j]])
        BY <2>12, <4>2
      <4>4. j \in (k + 1)..Len(all) /\ j > Len(all) - n
        BY <1>1, <2>3, <3>5, <4>3
      <4> QED BY <4>3, <4>4
    <3> QED BY <3>1, <3>2, <3>3, <3>4 DEF Walking
  <2> QED BY <2>5, <2>14
<1> QED BY <1>5, <1>6

LEMMA ChildrenInFrontType ==
  ASSUME NEW tree, IsTree(tree), NEW list \in Seq(Accessors), NEW n \in Nat \ {0}
  PROVE  ChildrenInFront(tree, list, n) \in Seq(Accessors)
<1> DEFINE m == Len(list) - n + 1
<1>1. CASE m > 0 /\ list[m] \in Composites
  <2>1. Len(list) \in Nat
    BY LenProperties
  <2>2. m \in 1..(Len(list) + 1)
    BY <1>1, <2>1
  <2>3. tree[list[m]] \in Seq(Accessors)
    <3>1. tree[list[m]] \in Seq(Accessors \ {Host})
      BY <1>1 DEF IsTree
    <3>2. Accessors \ {Host} \subseteq Accessors
      OBVIOUS
    <3> QED BY <3>1, <3>2, SeqMonotonic
  <2>4. ChildrenInFront(tree, list, n) = Put(list, tree[list[m]], m)
    BY <1>1 DEF ChildrenInFront, Put
  <2> HIDE DEF m
  <2>5. Put(list, tree[list[m]], m) \in Seq(Accessors)
    BY <2>2, <2>3, Inserted
  <2> QED BY <2>4, <2>5
<1>2. CASE ~(m > 0 /\ list[m] \in Composites)
  BY <1>2 DEF ChildrenInFront
<1> QED BY <1>1, <1>2

\* PostOrder lists the root, as the last, and what is in it, each accessor once
\* and after its children; of nothing else, each that is listed is a child of a
\* later one.
LEMMA PostOrderLists ==
  ASSUME NEW tree, IsTree(tree), NEW root \in Accessors
  PROVE  LET list == PostOrder(tree, root)
         IN  /\ list \in Seq(Accessors) /\ Len(list) >= 1 /\ list[Len(list)] = root
             /\ Len(list) <= Cardinality(Accessors)
             /\ \A j, k \in 1..Len(list) : list[j] = list[k] => j = k
             /\ \A j \in 1..Len(list) : list[j] \in Composites
                  => \A x \in Range(tree[list[j]]) : \E k \in 1..(j - 1) : list[k] = x
             /\ \A k \in 1..(Len(list) - 1) : \E j \in (k + 1)..Len(list) :
                  list[j] \in Composites /\ list[k] \in Range(tree[list[j]])
<1> DEFINE N == Cardinality(Accessors)
           F(f) == [n \in 0..N |-> IF n = 0 THEN <<root>> ELSE ChildrenInFront(tree, f[n - 1], n)]
           made == CHOOSE f : f = F(f)
           list == PostOrder(tree, root)
<1>1. list = made[N]
  BY DEF PostOrder
<1>2. N \in Nat
  BY StructureAssumption, FS_CardinalityType
<1> DEFINE step == [x \in (1..N) \X Seq(Accessors) |-> ChildrenInFront(tree, x[2], x[1])]
<1>3. StaysIn(step, N, Seq(Accessors))
  BY ChildrenInFrontType DEF StaysIn
<1>4. <<root>> \in Seq(Accessors)
  OBVIOUS
<1>5. PICK f : Follows(f, N, Seq(Accessors), <<root>>, step)
  <2> HIDE DEF step, N
  <2> QED BY <1>2, <1>3, <1>4, Recursion
<1>6. f = F(f)
  <2>1. ASSUME NEW n \in 0..N
        PROVE  f[n] = IF n = 0 THEN <<root>> ELSE ChildrenInFront(tree, f[n - 1], n)
    <3>1. CASE n = 0
      BY <1>5, <3>1 DEF Follows
    <3>2. CASE n # 0
      <4>1. n \in 1..N /\ n - 1 \in 0..N
        BY <1>2, <3>2
      <4>2. f[n - 1] \in Seq(Accessors) /\ f[n] = step[<<n, f[n - 1]>>]
        BY <1>5, <4>1 DEF Follows
      <4>3. step[<<n, f[n - 1]>>] = ChildrenInFront(tree, f[n - 1], n)
        BY <4>1, <4>2
      <4> QED BY <3>2, <4>2, <4>3
    <3> QED BY <3>1, <3>2
  <2>2. f \in [0..N -> Seq(Accessors)]
    BY <1>5 DEF Follows
  <2> QED BY <2>1, <2>2
<1>7. made = F(made)
  <2> HIDE DEF F
  <2> QED BY <1>6
<1> HIDE DEF made, list
<1> DEFINE P == {n \in 0..N : Walking(tree, root, made[n], n)}
<1>8. 0 \in P
  <2>1. made[0] = <<root>>
    BY <1>2, <1>7
  <2>2. Walking(tree, root, <<root>>, 0)
    BY DEF Walking
  <2> QED BY <1>2, <2>1, <2>2
<1>9. ASSUME NEW n \in 1..N, n - 1 \in P PROVE n \in P
  <2>1. Walking(tree, root, made[n - 1], n - 1) /\ n \in Nat \ {0}
    BY <1>2, <1>9
  <2>2. made[n] = ChildrenInFront(tree, made[n - 1], n)
    BY <1>2, <1>7
  <2>3. Walking(tree, root, made[n], n)
    BY <2>1, <2>2, WalkStep
  <2> QED BY <1>2, <2>3
<1>10. Walking(tree, root, list, N)
  <2>1. \A n \in 0..N : n \in P
    <3> HIDE DEF P, N
    <3> QED BY <1>2, <1>8, <1>9, Counting
  <2> QED BY <1>1, <1>2, <2>1
<1>11. list \in Seq(Accessors) /\ Len(list) \in Nat /\ list \in [1..Len(list) -> Accessors]
  BY <1>10, LenProperties DEF Walking
<1>12. Len(list) <= N
  <2>1. list \in Injection(1..Len(list), Accessors)
    <3>1. \A j, k \in 1..Len(list) : list[j] = list[k] => j = k
      BY <1>10 DEF Walking
    <3>2. DOMAIN list = 1..Len(list)
      BY <1>11
    <3> QED BY <1>11, <3>1, <3>2 DEF Injection, IsInjective
  <2>2. Cardinality(1..Len(list)) <= N
    BY <2>1, StructureAssumption, FS_Injection
  <2>3. Cardinality(1..Len(list)) = Len(list)
    BY <1>11, CountTo
  <2> QED BY <2>2, <2>3
<1>13. \A j \in 1..Len(list) : j > Len(list) - N
  BY <1>2, <1>11, <1>12
<1>14. \A j \in 1..Len(list) : list[j] \in Composites
         => \A x \in Range(tree[list[j]]) : \E k \in 1..(j - 1) : list[k] = x
  BY <1>10, <1>13 DEF Walking
<1>15. \A k \in 1..(Len(list) - 1) : \E j \in (k + 1)..Len(list) :
         list[j] \in Composites /\ list[k] \in Range(tree[list[j]])
  BY <1>10 DEF Walking
<1>16. /\ Len(list) >= 1 /\ list[Len(list)] = root
       /\ \A j, k \in 1..Len(list) : list[j] = list[k] => j = k
  BY <1>10 DEF Walking
<1> QED BY <1>11, <1>12, <1>14, <1>15, <1>16 DEF list

\* An accessor and what is in it.
Below(tree, x) == Range(PostOrder(tree, x))

IsClosed(tree, S) == \A c \in S \cap Composites : Range(tree[c]) \subseteq S

LEMMA BelowIsClosed ==
  ASSUME NEW tree, IsTree(tree), NEW x \in Accessors
  PROVE  x \in Below(tree, x) /\ Below(tree, x) \subseteq Accessors /\ IsClosed(tree, Below(tree, x))
<1> DEFINE list == PostOrder(tree, x)
<1>1. /\ list \in Seq(Accessors) /\ Len(list) >= 1 /\ list[Len(list)] = x
      /\ \A j \in 1..Len(list) : list[j] \in Composites
                  => \A y \in Range(tree[list[j]]) : \E k \in 1..(j - 1) : list[k] = y
  BY PostOrderLists
<1> HIDE DEF list
<1>2. Len(list) \in Nat /\ DOMAIN list = 1..Len(list)
  BY <1>1, LenProperties
<1>3. x \in Range(list) /\ Range(list) \subseteq Accessors
  BY <1>1, <1>2, RangeIsFinite DEF Range
<1>4. ASSUME NEW c \in Range(list) \cap Composites, NEW y \in Range(tree[c])
      PROVE  y \in Range(list)
  <2>1. PICK j \in 1..Len(list) : list[j] = c
    BY <1>2 DEF Range
  <2>2. PICK k \in 1..(j - 1) : list[k] = y
    BY <1>1, <1>4, <2>1
  <2>3. k \in 1..Len(list)
    BY <1>2
  <2> QED BY <1>2, <2>2, <2>3 DEF Range
<1> QED BY <1>3, <1>4 DEF Below, IsClosed, list

LEMMA BelowIsLeast ==
  ASSUME NEW tree, IsTree(tree), NEW x \in Accessors, NEW S, x \in S, IsClosed(tree, S)
  PROVE  Below(tree, x) \subseteq S
<1> DEFINE list == PostOrder(tree, x)
           n == Len(list)
           D == {d \in 0..(n - 1) : list[n - d] \notin S}
<1>1. /\ list \in Seq(Accessors) /\ Len(list) >= 1 /\ list[Len(list)] = x
      /\ \A k \in 1..(Len(list) - 1) : \E j \in (k + 1)..Len(list) :
                  list[j] \in Composites /\ list[k] \in Range(tree[list[j]])
  BY PostOrderLists
<1> HIDE DEF list
<1>2. n \in Nat /\ DOMAIN list = 1..n
  BY <1>1, LenProperties
<1>3. ASSUME D # {} PROVE FALSE
  <2>1. D \in SUBSET Nat
    BY <1>2
  <2>2. Min(D) \in D /\ \A d \in D : Min(D) <= d
    BY <1>3, <2>1, LeastIsIn
  <2>3. PICK d \in D : \A e \in D : d <= e
    BY <2>2
  <2>4. d \in 0..(n - 1) /\ list[n - d] \notin S
    OBVIOUS
  <2>5. d # 0
    BY <1>1, <1>2, <2>4
  <2>6. n - d \in 1..(n - 1)
    BY <1>2, <2>4, <2>5
  <2>7. PICK j \in (n - d + 1)..n : list[j] \in Composites /\ list[n - d] \in Range(tree[list[j]])
    BY <1>1, <2>6
  <2>8. list[j] \notin S
    BY <2>4, <2>7 DEF IsClosed
  <2>9. n - j \in 0..(n - 1) /\ n - (n - j) = j /\ n - j < d
    BY <1>2, <2>4, <2>6, <2>7
  <2>10. n - j \in D
    BY <2>8, <2>9
  <2> QED BY <1>2, <2>3, <2>4, <2>9, <2>10
<1>4. ASSUME NEW k \in 1..n PROVE list[k] \in S
  <2>1. n - k \in 0..(n - 1) /\ n - (n - k) = k
    BY <1>2
  <2> QED BY <1>3, <2>1
<1> QED BY <1>2, <1>4 DEF Below, Range, list

LEMMA BelowIsTransitive ==
  ASSUME NEW tree, IsTree(tree), NEW x \in Accessors, NEW y \in Below(tree, x)
  PROVE  Below(tree, y) \subseteq Below(tree, x)
BY BelowIsClosed, BelowIsLeast

LEMMA BelowAtomic ==
  ASSUME NEW tree, IsTree(tree), NEW a \in Atomics
  PROVE  Below(tree, a) = {a}
<1>1. a \in Accessors /\ IsClosed(tree, {a})
  BY StructureAssumption DEF Accessors, IsClosed
<1> QED BY <1>1, BelowIsClosed, BelowIsLeast

\* Who is in another is listed before it.
LEMMA InsideIsListedBefore ==
  ASSUME NEW tree, IsTree(tree), NEW root \in Accessors,
         NEW j \in 1..Len(PostOrder(tree, root)), NEW k \in 1..Len(PostOrder(tree, root)),
         PostOrder(tree, root)[k] \in Below(tree, PostOrder(tree, root)[j])
  PROVE  k <= j
<1> DEFINE list == PostOrder(tree, root)
           S == {list[i] : i \in 1..j}
<1>1. /\ list \in Seq(Accessors)
      /\ \A h, i \in 1..Len(list) : list[h] = list[i] => h = i
      /\ \A h \in 1..Len(list) : list[h] \in Composites
           => \A y \in Range(tree[list[h]]) : \E i \in 1..(h - 1) : list[i] = y
  BY PostOrderLists
<1>2. list[k] \in Below(tree, list[j]) /\ j \in 1..Len(list) /\ k \in 1..Len(list)
  OBVIOUS
<1> HIDE DEF list
<1>3. Len(list) \in Nat /\ list[j] \in Accessors
  BY <1>1, <1>2, LenProperties
<1>4. list[j] \in S
  BY <1>2, <1>3
<1>5. ASSUME NEW c \in S \cap Composites, NEW y \in Range(tree[c]) PROVE y \in S
  <2>1. PICK h \in 1..j : c = list[h]
    OBVIOUS
  <2>2. h \in 1..Len(list)
    BY <1>2, <1>3
  <2>3. PICK i \in 1..(h - 1) : list[i] = y
    BY <1>1, <1>5, <2>1, <2>2
  <2>4. i \in 1..j
    BY <1>2, <1>3
  <2> QED BY <2>3, <2>4
<1>6. list[k] \in S
  <2>1. IsClosed(tree, S)
    BY <1>5 DEF IsClosed
  <2> HIDE DEF S
  <2> QED BY <1>2, <1>3, <1>4, <2>1, BelowIsLeast
<1>7. PICK i \in 1..j : list[k] = list[i]
  BY <1>6
<1>8. i \in 1..Len(list)
  BY <1>2, <1>3
<1> QED BY <1>1, <1>2, <1>3, <1>7, <1>8

-----------------------------------------------------------------------------
(* The walk to the port that feeds an input.                                *)

\* Every connection is one of those that may be made.
Wired ==
  /\ source \in [Ports -> Ports \cup {None}]
  /\ \A p \in Ports : source[p] # None => <<source[p], p>> \in Wires

\* Connections do not lead in a circle of composite ports for ever.
LEMMA NoEndlessWalk ==
  ASSUME Wired, NEW N \in Nat, N = Cardinality(CompositePorts),
         NEW at \in [0..N -> CompositePorts], \A n \in 1..N : at[n] = source[at[n - 1]]
  PROVE  FALSE
<1>1. CompositePorts \subseteq Ports /\ IsFiniteSet(CompositePorts)
  BY PortsAreFinite, FS_Subset DEF CompositePorts
<1>2. \E j, k \in 0..N : j # k /\ at[j] = at[k]
  <2>1. IsFiniteSet(0..N) /\ Cardinality(0..N) = N + 1
    <3>1. 0 \in Int /\ N \in Int
      OBVIOUS
    <3>2. IsFiniteSet(0..N) /\ Cardinality(0..N) = IF 0 > N THEN 0 ELSE N - 0 + 1
      BY <3>1, FS_Interval
    <3> QED BY <3>2
  <2>2. Cardinality(CompositePorts) < Cardinality(0..N)
    BY <2>1
  <2> QED BY <1>1, <2>1, <2>2, FS_PigeonHole
<1>3. \E j, k \in 0..N : j < k /\ at[j] = at[k]
  <2>1. PICK j \in 0..N, k \in 0..N : j # k /\ at[j] = at[k]
    BY <1>2
  <2>2. CASE j < k
    BY <2>1, <2>2
  <2>3. CASE k < j
    BY <2>1, <2>3
  <2> QED BY <2>1, <2>2, <2>3
<1>4. PICK j \in 0..N, k \in 0..N : j < k /\ at[j] = at[k]
  BY <1>3
<1> DEFINE S == {at[m] : m \in (j + 1)..k}
<1>5. S \in SUBSET CompositePorts /\ at[k] \in S
  BY <1>4
<1>6. \A n \in 1..N : <<at[n], at[n - 1]>> \in Wires
  <2>1. SUFFICES ASSUME NEW n \in 1..N PROVE <<at[n], at[n - 1]>> \in Wires
    OBVIOUS
  <2>2. at[n - 1] \in Ports /\ at[n] \in Ports
    BY <1>1
  <2>3. at[n] # None
    BY <2>2, StructureAssumption
  <2> QED BY <2>2, <2>3 DEF Wired
<1>7. ASSUME NEW p \in S PROVE \E q \in S : <<q, p>> \in Wires
  <2>1. PICK m \in (j + 1)..k : p = at[m]
    OBVIOUS
  <2>2. CASE m = k
    <3>1. j + 1 \in 1..N /\ j + 1 \in (j + 1)..k /\ (j + 1) - 1 = j
      BY <1>4
    <3>2. <<at[j + 1], at[j]>> \in Wires
      BY <1>6, <3>1
    <3> QED BY <1>4, <2>1, <2>2, <3>1, <3>2
  <2>3. CASE m # k
    <3>1. m + 1 \in 1..N /\ m + 1 \in (j + 1)..k /\ (m + 1) - 1 = m
      BY <1>4, <2>3
    <3>2. <<at[m + 1], at[m]>> \in Wires
      BY <1>6, <3>1
    <3> QED BY <2>1, <3>1, <3>2
  <2> QED BY <2>2, <2>3
<1> HIDE DEF S
<1> QED BY <1>5, <1>7, WiresAssumption

\* An input is fed by an output of an atomic accessor, which is the source of
\* some port, or by none.
LEMMA SourceIsAnOutput ==
  ASSUME Wired, NEW i \in InputPorts
  PROVE  \/ GetSourceOutputPort(i) = None
         \/ /\ GetSourceOutputPort(i) \in OutputPorts
            /\ Owner[GetSourceOutputPort(i)] \in Atomics
            /\ \E q \in Ports : source[q] = GetSourceOutputPort(i)
<1> DEFINE N == Cardinality(CompositePorts)
           Onwards(p) == IF p # None /\ Owner[p] \in Composites THEN source[p] ELSE p
           F(f) == [n \in 0..N |-> IF n = 0 THEN source[i] ELSE Onwards(f[n - 1])]
           at == CHOOSE f : f = F(f)
           o == GetSourceOutputPort(i)
           S == Ports \cup {None}
<1>1. o = at[N]
  BY DEF GetSourceOutputPort
<1>2. N \in Nat
  <2>1. IsFiniteSet(CompositePorts)
    BY PortsAreFinite, FS_Subset DEF CompositePorts
  <2> QED BY <2>1, FS_CardinalityType
<1>3. \A p \in S : Onwards(p) \in S
  BY DEF Wired
<1>4. source[i] \in S
  BY DEF Wired, Ports
<1> DEFINE step == [x \in (1..N) \X S |-> Onwards(x[2])]
<1>5. StaysIn(step, N, S)
  <2> HIDE DEF Onwards
  <2> QED BY <1>3 DEF StaysIn
<1>6. PICK f : Follows(f, N, S, source[i], step)
  <2> HIDE DEF step, N, S
  <2> QED BY <1>2, <1>4, <1>5, Recursion
<1>7. f = F(f)
  <2>1. ASSUME NEW n \in 0..N
        PROVE  f[n] = IF n = 0 THEN source[i] ELSE Onwards(f[n - 1])
    <3> HIDE DEF Onwards
    <3>1. CASE n = 0
      BY <1>6, <3>1 DEF Follows
    <3>2. CASE n # 0
      <4>1. n \in 1..N /\ n - 1 \in 0..N
        BY <1>2, <3>2
      <4>2. f[n - 1] \in S /\ f[n] = step[<<n, f[n - 1]>>]
        BY <1>6, <4>1 DEF Follows
      <4>3. step[<<n, f[n - 1]>>] = Onwards(f[n - 1])
        BY <4>1, <4>2
      <4> QED BY <3>2, <4>2, <4>3
    <3> QED BY <3>1, <3>2
  <2>2. f \in [0..N -> S]
    BY <1>6 DEF Follows
  <2> QED BY <2>1, <2>2
<1>8. at = F(at)
  <2> HIDE DEF F
  <2> QED BY <1>7
<1> HIDE DEF at, o, N
<1>9. at[0] = source[i] /\ \A n \in 1..N : at[n] = Onwards(at[n - 1])
  BY <1>2, <1>8
<1> DEFINE P == {n \in 0..N : at[n] = None \/ (at[n] \in Ports /\ \E q \in Ports : source[q] = at[n])}
<1>10. 0 \in P
  BY <1>2, <1>4, <1>9 DEF Ports
<1>11. ASSUME NEW n \in 1..N, n - 1 \in P PROVE n \in P
  <2>1. CASE at[n - 1] # None /\ Owner[at[n - 1]] \in Composites
    <3>1. at[n] = source[at[n - 1]] /\ at[n - 1] \in Ports
      BY <1>9, <1>11, <2>1
    <3> QED BY <1>2, <3>1 DEF Wired
  <2>2. CASE ~(at[n - 1] # None /\ Owner[at[n - 1]] \in Composites)
    <3>1. at[n] = at[n - 1]
      BY <1>9, <2>2
    <3> QED BY <1>2, <1>11, <3>1
  <2> QED BY <2>1, <2>2
<1>12. \A n \in 0..N : n \in P
  <2> HIDE DEF P
  <2> QED BY <1>2, <1>10, <1>11, Counting
<1>13. at[N] \notin CompositePorts
  <2>1. SUFFICES ASSUME at[N] \in CompositePorts PROVE FALSE
    OBVIOUS
  <2> DEFINE Q == {d \in 0..N : at[N - d] \in CompositePorts}
  <2>2. 0 \in Q
    BY <1>2, <2>1
  <2>3. ASSUME NEW d \in 1..N, d - 1 \in Q PROVE d \in Q
    <3>1. N - d \in 0..N /\ N - (d - 1) \in 1..N /\ (N - (d - 1)) - 1 = N - d
      BY <1>2
    <3>2. at[N - (d - 1)] = Onwards(at[N - d]) /\ at[N - (d - 1)] \in CompositePorts
      BY <1>9, <2>3, <3>1
    <3>3. CASE at[N - d] # None /\ Owner[at[N - d]] \in Composites
      BY <1>12, <3>1, <3>3 DEF CompositePorts
    <3>4. CASE ~(at[N - d] # None /\ Owner[at[N - d]] \in Composites)
      BY <1>2, <3>2, <3>4
    <3> QED BY <3>3, <3>4
  <2>4. \A d \in 0..N : d \in Q
    <3> HIDE DEF Q
    <3> QED BY <1>2, <2>2, <2>3, Counting
  <2>5. \A n \in 0..N : at[n] \in CompositePorts
    <3>1. SUFFICES ASSUME NEW n \in 0..N PROVE at[n] \in CompositePorts
      OBVIOUS
    <3>2. N - n \in 0..N /\ N - (N - n) = n
      BY <1>2
    <3> QED BY <2>4, <3>2
  <2>6. at \in [0..N -> CompositePorts]
    BY <1>8, <2>5
  <2>7. ASSUME NEW n \in 1..N PROVE at[n] = source[at[n - 1]]
    <3>1. n - 1 \in 0..N
      BY <1>2
    <3>2. at[n - 1] # None /\ Owner[at[n - 1]] \in Composites
      BY <2>5, <3>1, StructureAssumption DEF CompositePorts
    <3> QED BY <1>9, <3>2
  <2> QED BY <1>2, <2>6, <2>7, NoEndlessWalk DEF N
<1>14. ASSUME o # None
       PROVE  o \in OutputPorts /\ Owner[o] \in Atomics /\ \E q \in Ports : source[q] = o
  <2>1. o \in Ports /\ o \notin CompositePorts
    BY <1>1, <1>2, <1>12, <1>13, <1>14
  <2>2. PICK q \in Ports : source[q] = o
    BY <1>1, <1>2, <1>12, <1>14
  <2>3. Owner[o] \in Accessors /\ Owner[o] \notin Composites
    BY <2>1, OwnersOwn DEF CompositePorts
  <2>4. <<o, q>> \in Wires
    BY <1>14, <2>2 DEF Wired
  <2>5. o \notin InputPorts
    <3>1. PICK w \in Wires : w = <<o, q>>
      BY <2>4
    <3>2. w[1] = o
      BY <3>1
    <3>3. w[1] \in InputPorts => Owner[w[1]] \in Composites
      BY WiresAssumption, Zenon
    <3> QED BY <2>3, <3>2, <3>3
  <2> QED BY <2>1, <2>2, <2>3, <2>5 DEF Ports, Accessors
<1> QED BY <1>14 DEF o

-----------------------------------------------------------------------------
(* The input ports that share a depth.                                      *)

\* To follow links from a member of a finite set as often as it has members
\* leads to all that every closed set with that member has.
LEMMA LinksAreFollowed ==
  ASSUME NEW D, IsFiniteSet(D), NEW i \in D, NEW link \in [D -> SUBSET D],
         NEW N \in Nat, Cardinality(D) <= N,
         NEW found \in [0..N -> SUBSET D], found[0] = {i},
         \A n \in 1..N : found[n] = found[n - 1] \cup UNION {link[j] : j \in found[n - 1]}
  PROVE  found[N] = {j \in D : \A ports \in SUBSET D :
                       i \in ports /\ (\A k \in ports : link[k] \subseteq ports) => j \in ports}
<1> DEFINE Closed(ports) == \A k \in ports : link[k] \subseteq ports
           A == {n \in 0..N : i \in found[n] /\ \A ports \in SUBSET D :
                                i \in ports /\ Closed(ports) => found[n] \subseteq ports}
           B == {n \in 0..N : Closed(found[n]) \/ Cardinality(found[n]) >= n + 1}
<1>1. 0 \in A
  OBVIOUS
<1>2. ASSUME NEW n \in 1..N, n - 1 \in A PROVE n \in A
  <2>1. n - 1 \in 0..N /\ n \in 0..N
    OBVIOUS
  <2>2. found[n] = found[n - 1] \cup UNION {link[j] : j \in found[n - 1]}
    OBVIOUS
  <2> QED BY <1>2, <2>1, <2>2
<1>3. \A n \in 0..N : n \in A
  <2> HIDE DEF A
  <2> QED BY <1>1, <1>2, Counting
<1>4. 0 \in B
  <2>1. Cardinality(found[0]) = 1
    BY FS_Singleton
  <2>2. Cardinality(found[0]) >= 0 + 1 /\ 0 \in 0..N
    BY <2>1
  <2> HIDE DEF Closed
  <2> QED BY <2>2
<1>5. ASSUME NEW n \in 1..N, n - 1 \in B PROVE n \in B
  <2>1. n - 1 \in 0..N /\ n \in 0..N /\ (n - 1) + 1 = n
    OBVIOUS
  <2>2. found[n] = found[n - 1] \cup UNION {link[j] : j \in found[n - 1]}
    OBVIOUS
  <2>3. CASE Closed(found[n - 1])
    <3>1. found[n] = found[n - 1]
      BY <2>2, <2>3
    <3> QED BY <2>1, <2>3, <3>1
  <2>4. CASE ~Closed(found[n - 1])
    <3>1. Cardinality(found[n - 1]) >= n
      BY <1>5, <2>1, <2>4
    <3>2. found[n - 1] \subseteq found[n] /\ found[n - 1] # found[n]
      BY <2>2, <2>4
    <3>3. IsFiniteSet(found[n]) /\ IsFiniteSet(found[n - 1])
      BY <2>1, FS_Subset
    <3>4. /\ Cardinality(found[n - 1]) <= Cardinality(found[n])
          /\ Cardinality(found[n - 1]) # Cardinality(found[n])
      BY <3>2, <3>3, FS_Subset
    <3>5. Cardinality(found[n]) \in Nat /\ Cardinality(found[n - 1]) \in Nat
      BY <3>3, FS_CardinalityType
    <3>6. Cardinality(found[n]) >= n + 1
      BY <3>1, <3>4, <3>5
    <3> QED BY <2>1, <3>6
  <2> QED BY <2>3, <2>4
<1>6. N \in B
  <2> HIDE DEF B
  <2> QED BY <1>4, <1>5, Counting
<1>7. Closed(found[N])
  <2>1. SUFFICES ASSUME Cardinality(found[N]) >= N + 1 PROVE FALSE
    BY <1>6
  <2>2. Cardinality(found[N]) <= Cardinality(D)
    BY FS_Subset
  <2>3. Cardinality(D) \in Nat /\ Cardinality(found[N]) \in Nat
    BY FS_Subset, FS_CardinalityType
  <2> QED BY <2>1, <2>2, <2>3
<1>8. i \in found[N] /\ \A ports \in SUBSET D : i \in ports /\ Closed(ports) => found[N] \subseteq ports
  BY <1>3
<1>9. found[N] \subseteq D
  OBVIOUS
<1> QED BY <1>7, <1>8, <1>9

\* An input and those it is together with, or with those, over outputs.
LEMMA TogetherIsMutual ==
  ASSUME NEW i \in InputPorts, NEW j \in Range(InputsOf[Owner[i]])
  PROVE  j \in InputPorts /\ Owner[j] = Owner[i] /\ (Together(i, j) => Together(j, i))
<1>1. i \in Ports /\ Owner[i] \in Accessors
  BY OwnersOwn DEF Ports
<1>2. j \in InputPorts /\ j \in PortsOf(Owner[i])
  BY <1>1 DEF InputPorts, PortsOf
<1>3. Owner[j] = Owner[i]
  BY <1>1, <1>2, OwnersOwn
<1>4. ASSUME Together(i, j) PROVE Together(j, i)
  BY <1>3, <1>4 DEF Together
<1> QED BY <1>2, <1>3, <1>4

\* A class is that of each of its members.
LEMMA ClassesAreShared ==
  ASSUME NEW i \in InputPorts
  PROVE  /\ i \in Class(i) /\ Class(i) \subseteq Range(InputsOf[Owner[i]])
         /\ \A j \in Class(i) : Class(j) = Class(i)
<1> DEFINE inputs == Range(InputsOf[Owner[i]])
           Closed(ports) == \A k \in ports, l \in inputs : Together(k, l) => l \in ports
<1>1. i \in inputs
  <2>1. Owner[i] \in Accessors /\ i \in PortsOf(Owner[i])
    BY OwnersOwn DEF Ports
  <2>2. i \notin Range(OutputsOf[Owner[i]])
    BY <2>1, StructureAssumption DEF OutputPorts
  <2> QED BY <2>1, <2>2 DEF PortsOf
<1>2. ASSUME NEW j \in inputs
      PROVE  /\ j \in InputPorts /\ Owner[j] = Owner[i]
             /\ Class(j) = {l \in inputs : \A ports \in SUBSET inputs : j \in ports /\ Closed(ports) => l \in ports}
  <2>1. j \in InputPorts /\ Owner[j] = Owner[i]
    BY TogetherIsMutual
  <2> QED BY <2>1 DEF Class
<1>3. i \in Class(i) /\ Class(i) \subseteq inputs
  BY <1>1, <1>2
<1>4. \A k, l \in inputs : Together(k, l) => Together(l, k)
  <2>1. SUFFICES ASSUME NEW k \in inputs, NEW l \in inputs, Together(k, l) PROVE Together(l, k)
    OBVIOUS
  <2>2. k \in InputPorts /\ l \in Range(InputsOf[Owner[k]])
    BY <1>2
  <2> QED BY <2>1, <2>2, TogetherIsMutual
<1>5. ASSUME NEW j \in Class(i) PROVE Class(j) = Class(i)
  <2>1. j \in inputs
    BY <1>3
  <2>2. \A ports \in SUBSET inputs : i \in ports /\ Closed(ports) => j \in ports
    BY <1>1, <1>2
  <2>3. \A ports \in SUBSET inputs : j \in ports /\ Closed(ports) => i \in ports
    <3>1. SUFFICES ASSUME NEW ports \in SUBSET inputs, j \in ports, Closed(ports), i \notin ports
                   PROVE  FALSE
      OBVIOUS
    <3>2. Closed(inputs \ ports)
      BY <1>4, <3>1
    <3> QED BY <1>1, <2>2, <3>1, <3>2
  <2> HIDE DEF Closed, inputs
  <2> QED BY <1>1, <1>2, <2>1, <2>2, <2>3
<1> QED BY <1>3, <1>5

\* The code finds the class.
LEMMA ClassIsFound ==
  ASSUME NEW i \in InputPorts, OutputsOf[Owner[i]] # <<>>
  PROVE  FindEquivalentPorts(i) = Class(i)
<1> DEFINE a == Owner[i]
           D == Range(InputsOf[a])
           N == Len(InputsOf[a])
           Linked(j) == UNION {GetInputPortDependencies(o) : o \in GetDependentOutputPorts(j)}
           Found(ports) == ports \cup UNION {Linked(j) : j \in ports}
           F(f) == [n \in 0..N |-> IF n = 0 THEN {i} ELSE Found(f[n - 1])]
           found == CHOOSE f : f = F(f)
           link == [j \in D |-> Linked(j)]
           step == [x \in (1..N) \X SUBSET D |-> Found(x[2])]
<1>1. FindEquivalentPorts(i) = found[N]
  BY DEF FindEquivalentPorts
<1>2. a \in Accessors /\ InputsOf[a] \in Seq(InputPorts) /\ N \in Nat /\ i \in D
  <2>1. a \in Accessors
    BY OwnersOwn DEF Ports
  <2>2. InputsOf[a] \in Seq(InputPorts)
    BY <2>1, StructureAssumption
  <2>3. N \in Nat
    BY <2>2, LenProperties
  <2>4. i \in D
    BY ClassesAreShared
  <2> QED BY <2>1, <2>2, <2>3, <2>4
<1>3. ASSUME NEW j \in D PROVE Linked(j) = {l \in D : Together(j, l)}
  <2>1. Owner[j] = a
    BY TogetherIsMutual
  <2>2. ASSUME NEW o \in Range(OutputsOf[a]) PROVE Owner[o] = a
    BY <1>2, OwnersOwn DEF PortsOf
  <2>3. ASSUME NEW l \in D
        PROVE  Together(j, l) <=> \E o \in Range(OutputsOf[a]) : <<j, o>> \notin pruned /\ <<l, o>> \notin pruned
    BY <2>1 DEF Together
  <2>4. GetDependentOutputPorts(j) = {o \in Range(OutputsOf[a]) : <<j, o>> \notin pruned}
    BY <2>1 DEF GetDependentOutputPorts
  <2>5. \A o \in Range(OutputsOf[a]) : GetInputPortDependencies(o) = {l \in D : <<l, o>> \notin pruned}
    BY <2>2 DEF GetInputPortDependencies
  <2>6. ASSUME NEW l
        PROVE  l \in Linked(j) <=> \E o \in Range(OutputsOf[a]) :
                 <<j, o>> \notin pruned /\ l \in D /\ <<l, o>> \notin pruned
    <3> HIDE DEF a, D
    <3> QED BY <2>4, <2>5
  <2> HIDE DEF a, D, Linked
  <2> QED BY <2>3, <2>6
<1>4. link \in [D -> SUBSET D]
  <2> HIDE DEF Linked, D
  <2> QED BY <1>3
<1>5. \A ports \in SUBSET D : Found(ports) \in SUBSET D
  <2> HIDE DEF Linked, D
  <2> QED BY <1>3
<1>6. StaysIn(step, N, SUBSET D)
  <2> HIDE DEF Found, D, N
  <2> QED BY <1>5 DEF StaysIn
<1>7. PICK f : Follows(f, N, SUBSET D, {i}, step)
  <2>1. {i} \in SUBSET D
    BY <1>2
  <2> HIDE DEF step, N, D
  <2> QED BY <1>2, <1>6, <2>1, Recursion
<1>8. f = F(f)
  <2>1. ASSUME NEW n \in 0..N
        PROVE  f[n] = IF n = 0 THEN {i} ELSE Found(f[n - 1])
    <3> HIDE DEF Found
    <3>1. CASE n = 0
      BY <1>7, <3>1 DEF Follows
    <3>2. CASE n # 0
      <4>1. n \in 1..N /\ n - 1 \in 0..N
        BY <1>2, <3>2
      <4>2. f[n - 1] \in SUBSET D /\ f[n] = step[<<n, f[n - 1]>>]
        BY <1>7, <4>1 DEF Follows
      <4>3. step[<<n, f[n - 1]>>] = Found(f[n - 1])
        BY <4>1, <4>2
      <4> QED BY <3>2, <4>2, <4>3
    <3> QED BY <3>1, <3>2
  <2>2. f \in [0..N -> SUBSET D]
    BY <1>7 DEF Follows
  <2> HIDE DEF Found, D, N
  <2> QED BY <2>1, <2>2
<1>9. found = F(found)
  <2> HIDE DEF F
  <2> QED BY <1>8
<1> HIDE DEF found
<1> DEFINE P == {n \in 0..N : found[n] \in SUBSET D}
<1>10. found[0] = {i} /\ \A n \in 1..N : found[n] = Found(found[n - 1])
  <2> HIDE DEF Found, N, D
  <2>1. 0 \in 0..N /\ \A n \in 1..N : n \in 0..N /\ n # 0
    BY <1>2
  <2>2. \A n \in 0..N : found[n] = IF n = 0 THEN {i} ELSE Found(found[n - 1])
    BY <1>9
  <2> QED BY <2>1, <2>2
<1>11. \A n \in 0..N : n \in P
  <2>1. 0 \in P
    BY <1>2, <1>10
  <2>2. ASSUME NEW n \in 1..N, n - 1 \in P PROVE n \in P
    <3> HIDE DEF Found, D, N
    <3> QED BY <1>2, <1>5, <1>10, <2>2
  <2> HIDE DEF P, N
  <2> QED BY <1>2, <2>1, <2>2, Counting
<1>12. found \in [0..N -> SUBSET D]
  <2> HIDE DEF Found, D, N
  <2> QED BY <1>9, <1>11
<1>13. \A n \in 1..N : found[n] = found[n - 1] \cup UNION {link[j] : j \in found[n - 1]}
  <2>1. SUFFICES ASSUME NEW n \in 1..N
                 PROVE  found[n] = found[n - 1] \cup UNION {link[j] : j \in found[n - 1]}
    OBVIOUS
  <2>2. found[n - 1] \in SUBSET D
    BY <1>2, <1>11
  <2>3. found[n] = found[n - 1] \cup UNION {Linked(j) : j \in found[n - 1]}
    BY <1>10
  <2> HIDE DEF Linked, D, N
  <2> QED BY <2>2, <2>3
<1>14. IsFiniteSet(D) /\ Cardinality(D) <= N
  <2>1. InputsOf[a] \in [1..N -> InputPorts]
    BY <1>2, LenProperties
  <2>2. InputsOf[a] \in Surjection(1..N, D)
    BY <2>1 DEF Surjection, Range
  <2>3. IsFiniteSet(1..N) /\ Cardinality(1..N) = N
    BY <1>2, CountTo
  <2> QED BY <2>2, <2>3, FS_Surjection
<1>15. found[N] = {j \in D : \A ports \in SUBSET D :
                     i \in ports /\ (\A k \in ports : link[k] \subseteq ports) => j \in ports}
  <2> HIDE DEF D, N, link
  <2> QED BY <1>2, <1>4, <1>10, <1>12, <1>13, <1>14, LinksAreFollowed
<1>16. ASSUME NEW ports \in SUBSET D
       PROVE  (\A k \in ports : link[k] \subseteq ports)
                <=> (\A k \in ports, l \in D : Together(k, l) => l \in ports)
  <2> HIDE DEF Linked, D
  <2> QED BY <1>3
<1>17. Class(i) = {j \in D : \A ports \in SUBSET D :
                     i \in ports /\ (\A k \in ports, l \in D : Together(k, l) => l \in ports) => j \in ports}
  BY DEF Class
<1> HIDE DEF D, link, N
<1> QED BY <1>1, <1>15, <1>16, <1>17

\* So the ports that share a depth in the code are the class.
LEMMA EquivalentPortsAreTheClass ==
  ASSUME NEW i \in InputPorts
  PROVE  GetEquivalentPorts(i) = Class(i)
<1> DEFINE a == Owner[i]
           D == Range(InputsOf[a])
<1>1. a \in Accessors /\ InputsOf[a] \in Seq(InputPorts) /\ OutputsOf[a] \in Seq(OutputPorts)
  <2>1. a \in Accessors
    BY OwnersOwn DEF Ports
  <2> QED BY <2>1, StructureAssumption
<1>2. i \in Class(i) /\ Class(i) \subseteq D
  BY ClassesAreShared
<1>3. CASE (\A dep \in pruned : Owner[dep[1]] # a) \/ OutputsOf[a] = <<>>
  <2>1. ASSUME NEW j \in D PROVE Together(i, j)
    <3>1. CASE OutputsOf[a] = <<>>
      BY <3>1 DEF Together
    <3>2. CASE OutputsOf[a] # <<>>
      <4>1. PICK o \in Range(OutputsOf[a]) : TRUE
        <5>1. Len(OutputsOf[a]) \in Nat \ {0} /\ DOMAIN OutputsOf[a] = 1..Len(OutputsOf[a])
          BY <1>1, <3>2, LenProperties, EmptySeq
        <5>2. 1 \in DOMAIN OutputsOf[a]
          BY <5>1
        <5> QED BY <5>2 DEF Range
      <4>2. Owner[j] = a
        BY TogetherIsMutual
      <4>3. <<i, o>> \notin pruned
        <5>1. <<i, o>>[1] = i
          OBVIOUS
        <5> QED BY <1>3, <3>2, <5>1
      <4>4. <<j, o>> \notin pruned
        <5>1. <<j, o>>[1] = j
          OBVIOUS
        <5> QED BY <1>3, <3>2, <4>2, <5>1
      <4> QED BY <4>3, <4>4 DEF Together
    <3> QED BY <3>1, <3>2
  <2>2. i \in D
    BY <1>2
  <2>3. D \subseteq Class(i)
    <3>1. SUFFICES ASSUME NEW j \in D, NEW ports \in SUBSET D, i \in ports,
                          \A k \in ports, l \in D : Together(k, l) => l \in ports
                   PROVE  j \in ports
      BY DEF Class
    <3> QED BY <2>1, <3>1
  <2>4. GetEquivalentPorts(i) = D
    BY <1>3 DEF GetEquivalentPorts
  <2> QED BY <1>2, <2>3, <2>4
<1>4. CASE Len(InputsOf[a]) = 1
  <2>1. D = {i}
    <3>1. DOMAIN InputsOf[a] = {1}
      BY <1>1, <1>4, LenProperties
    <3>2. D = {InputsOf[a][1]}
      BY <3>1 DEF Range
    <3> QED BY <1>2, <3>2
  <2>2. GetEquivalentPorts(i) = D
    BY <1>4 DEF GetEquivalentPorts
  <2> QED BY <1>2, <2>1, <2>2
<1>5. CASE ~((\A dep \in pruned : Owner[dep[1]] # a) \/ OutputsOf[a] = <<>>) /\ Len(InputsOf[a]) # 1
  <2>1. GetEquivalentPorts(i) = FindEquivalentPorts(i)
    BY <1>5 DEF GetEquivalentPorts
  <2> QED BY <1>5, <2>1, ClassIsFound
<1> QED BY <1>3, <1>4, <1>5

-----------------------------------------------------------------------------
(* The search for the depths, in any graph that a model can be seen as.     *)

\* The ports that get their depth together with p, and those it is made from.
Alike(g, p) == IF p \in InputPorts THEN g.class[p] ELSE {p}
NeededBy(g, p) ==
  IF p \in InputPorts THEN {g.source[e] : e \in g.class[p]} \ {None} ELSE g.needed[p]
Extra(p) == IF p \in InputPorts THEN 1 ELSE 0

IsGraph(g) ==
  /\ g.order \in Seq(Accessors) /\ g.ports \subseteq Ports
  /\ \A p \in g.ports : \E k \in DOMAIN g.order : p \in PortsOf(g.order[k])
  /\ \A i \in g.ports \cap InputPorts :
       /\ i \in g.class[i] /\ g.class[i] \subseteq g.ports \cap Range(InputsOf[Owner[i]])
       /\ \A j \in g.class[i] : g.class[j] = g.class[i]
       /\ g.source[i] \in (g.ports \cap OutputPorts) \cup {None}
  /\ \A o \in g.ports \cap OutputPorts : g.needed[o] \subseteq g.ports \cap Range(InputsOf[Owner[o]])

\* Ports each of which needs another of them.
HasCircle(g) ==
  \E S \in SUBSET g.ports : S # {} /\ \A p \in S : \E q \in S : q \in NeededBy(g, p)

\* The inputs of an accessor are input ports.
LEMMA InputsAreInputs ==
  ASSUME NEW p \in Ports
  PROVE  /\ InputsOf[Owner[p]] \in Seq(InputPorts)
         /\ Range(InputsOf[Owner[p]]) \subseteq InputPorts
<1>1. Owner[p] \in Accessors
  BY OwnersOwn
<1>2. InputsOf[Owner[p]] \in Seq(InputPorts)
  BY <1>1, StructureAssumption
<1> QED BY <1>1, <1>2 DEF InputPorts

\* What a graph says of a port.
LEMMA GraphFacts ==
  ASSUME NEW g, IsGraph(g), NEW p \in g.ports
  PROVE  /\ p \in Ports /\ p \in Alike(g, p) /\ Alike(g, p) \subseteq g.ports
         /\ NeededBy(g, p) \subseteq g.ports
         /\ \A q \in Alike(g, p) : /\ Alike(g, q) = Alike(g, p)
                                   /\ NeededBy(g, q) = NeededBy(g, p)
                                   /\ Extra(q) = Extra(p)
<1>1. p \in Ports
  BY DEF IsGraph
<1>2. CASE p \in InputPorts
  <2>1. /\ p \in g.class[p] /\ g.class[p] \subseteq g.ports
        /\ g.class[p] \subseteq Range(InputsOf[Owner[p]])
        /\ \A j \in g.class[p] : g.class[j] = g.class[p]
    BY <1>2 DEF IsGraph
  <2>2. g.class[p] \subseteq InputPorts
    BY <1>1, <2>1, InputsAreInputs
  <2>3. NeededBy(g, p) \subseteq g.ports
    <3>1. SUFFICES ASSUME NEW e \in g.class[p], g.source[e] # None PROVE g.source[e] \in g.ports
      BY <1>2 DEF NeededBy
    <3>2. e \in g.ports \cap InputPorts
      BY <2>1, <2>2
    <3> QED BY <3>1, <3>2 DEF IsGraph
  <2>4. ASSUME NEW q \in Alike(g, p)
        PROVE  Alike(g, q) = Alike(g, p) /\ NeededBy(g, q) = NeededBy(g, p) /\ Extra(q) = Extra(p)
    <3>1. q \in g.class[p] /\ q \in InputPorts /\ g.class[q] = g.class[p]
      BY <1>2, <2>1, <2>2, <2>4 DEF Alike
    <3> QED BY <1>2, <3>1 DEF Alike, NeededBy, Extra
  <2> QED BY <1>1, <1>2, <2>1, <2>3, <2>4 DEF Alike
<1>3. CASE p \notin InputPorts
  <2>1. p \in OutputPorts
    BY <1>1, <1>3 DEF Ports
  <2>2. g.needed[p] \subseteq g.ports
    BY <2>1 DEF IsGraph
  <2> QED BY <1>1, <1>3, <2>2 DEF Alike, NeededBy
<1> QED BY <1>2, <1>3

\* Deepest finds the greatest of numbers up to a bound, and 0 of none.
LEMMA DeepestIs ==
  ASSUME NEW N \in Nat, NEW S \in SUBSET (0..N)
  PROVE  /\ Deepest(S) \in 0..N /\ Deepest(S) \in S \cup {0}
         /\ \A n \in S : n <= Deepest(S)
<1> DEFINE T == {0} \cup S
<1>1. T \in SUBSET Nat /\ T # {} /\ T \in SUBSET (0..N)
  OBVIOUS
<1>2. IsFiniteSet(0..N)
  <2>1. 0 \in Int /\ N \in Int
    OBVIOUS
  <2> QED BY <2>1, FS_Interval
<1>3. IsFiniteSet(T)
  BY <1>1, <1>2, FS_Subset
<1> HIDE DEF T
<1>4. Max(T) \in T /\ \A n \in T : n <= Max(T)
  BY <1>1, <1>3, GreatestIsIn
<1>5. Deepest(S) = Max(T)
  BY DEF Deepest, T
<1> QED BY <1>1, <1>4, <1>5 DEF T

\* A search with its calls that have not returned: each port called is needed by
\* the one before and has no depth, an output is called once and visited.  A port
\* that is visited and has no depth shares its depth with one that is called.
SearchStates(g) ==
  [calls : Seq(g.ports), depth : UNION {[D -> Nat] : D \in SUBSET g.ports},
   visited : SUBSET g.ports, loop : BOOLEAN]

CallsInOrder(g, s) ==
  /\ \A k \in 1..Len(s.calls) : s.calls[k] \notin DOMAIN s.depth
  /\ \A k \in 1..(Len(s.calls) - 1) : s.calls[k + 1] \in NeededBy(g, s.calls[k])
  /\ \A k \in 1..Len(s.calls) : s.calls[k] \in OutputPorts => s.calls[k] \in s.visited
  /\ \A j, k \in 1..Len(s.calls) : s.calls[j] = s.calls[k] /\ s.calls[j] \in OutputPorts => j = k

VisitsAreCalls(g, s) ==
  s.calls # <<>> =>
    \A p \in s.visited \ DOMAIN s.depth : \E k \in 1..Len(s.calls) : s.calls[k] \in Alike(g, p)

\* The depths found are as defined, by other depths that are found.
DepthsSoFar(g, s) ==
  \A p \in DOMAIN s.depth :
    /\ Alike(g, p) \subseteq DOMAIN s.depth /\ NeededBy(g, p) \subseteq DOMAIN s.depth
    /\ s.depth[p] = Deepest({s.depth[q] + Extra(p) : q \in NeededBy(g, p)})
    /\ s.depth[p] <= Cardinality(DOMAIN s.depth)

SearchInv(g, s) ==
  /\ s \in SearchStates(g)
  /\ CallsInOrder(g, s)
  /\ VisitsAreCalls(g, s)
  /\ DepthsSoFar(g, s)
  /\ s.loop => HasCircle(g)

\* The parts of a state of the search.
LEMMA StateFacts ==
  ASSUME NEW g, IsGraph(g), NEW s \in SearchStates(g)
  PROVE  /\ s.calls \in Seq(g.ports) /\ Len(s.calls) \in Nat
         /\ s.depth \in [DOMAIN s.depth -> Nat] /\ DOMAIN s.depth \subseteq g.ports
         /\ IsFiniteSet(DOMAIN s.depth) /\ Cardinality(DOMAIN s.depth) \in Nat
         /\ s.visited \subseteq g.ports /\ s.loop \in BOOLEAN
<1>1. s.calls \in Seq(g.ports) /\ s.visited \subseteq g.ports /\ s.loop \in BOOLEAN
  BY DEF SearchStates
<1>2. PICK D \in SUBSET g.ports : s.depth \in [D -> Nat]
  BY DEF SearchStates
<1>3. D = DOMAIN s.depth
  BY <1>2
<1>4. IsFiniteSet(g.ports)
  BY PortsAreFinite, FS_Subset DEF IsGraph
<1>5. IsFiniteSet(DOMAIN s.depth) /\ Cardinality(DOMAIN s.depth) \in Nat
  BY <1>2, <1>3, <1>4, FS_Subset, FS_CardinalityType
<1> QED BY <1>1, <1>2, <1>3, <1>5, LenProperties

\* More ports are visited, which share their depth with the one called last.
LEMMA VisitKeeps ==
  ASSUME NEW g, IsGraph(g), NEW s, SearchInv(g, s), s.calls # <<>>,
         NEW seen \in SUBSET Alike(g, Last(s.calls))
  PROVE  SearchInv(g, [s EXCEPT !.visited = @ \cup seen])
<1> DEFINE t == [s EXCEPT !.visited = @ \cup seen]
           n == Len(s.calls)
<1>1. /\ s \in SearchStates(g) /\ s.calls \in Seq(g.ports) /\ n \in Nat
      /\ s.visited \subseteq g.ports
  BY StateFacts DEF SearchInv
<1>2. n \in 1..n /\ s.calls[n] \in g.ports /\ Last(s.calls) = s.calls[n]
  <2>1. n # 0
    BY <1>1, EmptySeq
  <2>2. n \in 1..n
    BY <1>1, <2>1
  <2> QED BY <1>1, <2>2, ElementOfSeq DEF Last
<1>3. Alike(g, s.calls[n]) \subseteq g.ports
  BY <1>2, GraphFacts
<1>4. t \in SearchStates(g)
  BY <1>1, <1>2, <1>3 DEF SearchStates
<1>5. /\ t.calls = s.calls /\ t.depth = s.depth /\ t.loop = s.loop
      /\ t.visited = s.visited \cup seen
  BY <1>1 DEF SearchStates
<1>6. ASSUME NEW p \in t.visited \ DOMAIN t.depth
      PROVE  \E k \in 1..n : s.calls[k] \in Alike(g, p)
  <2>1. CASE p \in s.visited
    BY <1>5, <1>6, <2>1 DEF SearchInv, VisitsAreCalls
  <2>2. CASE p \in seen
    <3>1. p \in Alike(g, s.calls[n])
      BY <1>2, <2>2
    <3>2. Alike(g, p) = Alike(g, s.calls[n]) /\ s.calls[n] \in Alike(g, s.calls[n])
      BY <1>2, <3>1, GraphFacts
    <3> QED BY <1>2, <3>2
  <2> QED BY <1>5, <1>6, <2>1, <2>2
<1> HIDE DEF t
<1>7. CallsInOrder(g, t)
  BY <1>5 DEF SearchInv, CallsInOrder
<1>8. VisitsAreCalls(g, t)
  BY <1>5, <1>6 DEF VisitsAreCalls
<1>9. DepthsSoFar(g, t)
  BY <1>5 DEF SearchInv, DepthsSoFar
<1>10. t.loop => HasCircle(g)
  BY <1>5 DEF SearchInv
<1>11. SearchInv(g, t)
  BY <1>4, <1>7, <1>8, <1>9, <1>10 DEF SearchInv
<1> QED BY <1>11 DEF t

\* A call for a port without a depth, which the last one called needs.
LEMMA CallKeeps ==
  ASSUME NEW g, IsGraph(g), NEW s, SearchInv(g, s), ~s.loop,
         NEW p \in g.ports, p \notin DOMAIN s.depth,
         s.calls = <<>> => s.visited = {},
         s.calls # <<>> => p \in NeededBy(g, Last(s.calls))
  PROVE  /\ SearchInv(g, Call(s, p))
         /\ \/ Call(s, p).loop
            \/ /\ ~Call(s, p).loop
               /\ Call(s, p).calls = Append(s.calls, p) /\ Call(s, p).depth = s.depth
               /\ p \in OutputPorts => p \notin Range(s.calls)
<1> DEFINE n == Len(s.calls)
           c == s.calls
           t == Call(s, p)
<1>1. /\ s \in SearchStates(g) /\ c \in Seq(g.ports) /\ n \in Nat
      /\ s.visited \subseteq g.ports /\ s.loop = FALSE
  BY StateFacts DEF SearchInv
<1>2. \A k \in 1..n : c[k] \in g.ports
  BY <1>1, ElementOfSeq
<1>3. c # <<>> => n \in 1..n /\ Last(c) = c[n]
  BY <1>1, EmptySeq DEF Last
<1>4. p \in Ports /\ p \in Alike(g, p)
  BY GraphFacts
<1>5. CASE p \in s.visited
  <2>1. t = [s EXCEPT !.loop = TRUE]
    BY <1>5 DEF Call
  <2>2. t.calls = s.calls /\ t.depth = s.depth /\ t.visited = s.visited /\ t.loop = TRUE
    BY <1>1, <2>1 DEF SearchStates
  <2>3. t \in SearchStates(g)
    BY <1>1, <2>1 DEF SearchStates
  <2>4. HasCircle(g)
    <3>1. c # <<>> /\ n \in 1..n /\ p \in NeededBy(g, c[n])
      BY <1>3, <1>5
    <3>2. PICK k \in 1..n : c[k] \in Alike(g, p)
      BY <1>5, <3>1 DEF SearchInv, VisitsAreCalls
    <3>3. NeededBy(g, c[k]) = NeededBy(g, p)
      BY <3>2, GraphFacts
    <3> DEFINE S == {c[j] : j \in k..n} \cup {p}
    <3>4. S \subseteq g.ports /\ S # {}
      BY <1>1, <1>2
    <3>5. ASSUME NEW j \in k..n PROVE \E q \in S : q \in NeededBy(g, c[j])
      <4>1. CASE j = n
        BY <3>1, <4>1
      <4>2. CASE j # n
        <5>1. j \in 1..(n - 1) /\ j + 1 \in k..n
          BY <1>1, <4>2
        <5>2. c[j + 1] \in NeededBy(g, c[j])
          BY <5>1 DEF SearchInv, CallsInOrder
        <5> QED BY <5>1, <5>2
      <4> QED BY <4>1, <4>2
    <3>6. \E q \in S : q \in NeededBy(g, p)
      <4>1. k \in k..n
        BY <1>1
      <4> QED BY <3>3, <3>5, <4>1
    <3>7. \A q \in S : \E r \in S : r \in NeededBy(g, q)
      <4>1. SUFFICES ASSUME NEW q \in S PROVE \E r \in S : r \in NeededBy(g, q)
        OBVIOUS
      <4>2. CASE q = p
        BY <3>6, <4>2
      <4>3. CASE q # p
        <5>1. PICK j \in k..n : q = c[j]
          BY <4>3
        <5> HIDE DEF S
        <5> QED BY <3>5, <5>1
      <4> QED BY <4>2, <4>3
    <3> HIDE DEF S
    <3> QED BY <3>4, <3>7 DEF HasCircle
  <2> HIDE DEF t
  <2>5. CallsInOrder(g, t)
    BY <2>2 DEF SearchInv, CallsInOrder
  <2>6. VisitsAreCalls(g, t)
    BY <2>2 DEF SearchInv, VisitsAreCalls
  <2>7. DepthsSoFar(g, t)
    BY <2>2 DEF SearchInv, DepthsSoFar
  <2>8. SearchInv(g, t) /\ t.loop
    BY <2>2, <2>3, <2>4, <2>5, <2>6, <2>7 DEF SearchInv
  <2> QED BY <2>8 DEF t
<1>6. CASE p \notin s.visited
  <2>1. t = [s EXCEPT !.calls = Append(@, p), !.visited = @ \cup ({p} \cap OutputPorts)]
    BY <1>6 DEF Call
  <2>2. /\ t.calls = Append(c, p) /\ t.depth = s.depth /\ t.loop = s.loop
        /\ t.visited = s.visited \cup ({p} \cap OutputPorts)
    BY <1>1, <2>1 DEF SearchStates
  <2>3. Append(c, p) \in Seq(g.ports)
    BY <1>1, AppendProperties
  <2>4. t \in SearchStates(g)
    BY <1>1, <2>1, <2>3 DEF SearchStates
  <2>5. /\ Len(t.calls) = n + 1 /\ t.calls[n + 1] = p
        /\ \A k \in 1..n : t.calls[k] = c[k]
    <3>1. /\ Len(Append(c, p)) = n + 1 /\ Append(c, p)[n + 1] = p
          /\ \A k \in 1..n : Append(c, p)[k] = c[k]
      BY <1>1, AppendProperties
    <3> QED BY <2>2, <3>1
  <2>6. ASSUME NEW k \in 1..(n + 1) PROVE k \in 1..n \/ k = n + 1
    BY <1>1
  <2>7. p \in OutputPorts => \A k \in 1..n : c[k] # p
    BY <1>6 DEF SearchInv, CallsInOrder
  <2> HIDE DEF t, c, n
  <2>8. CallsInOrder(g, t)
    <3>1. \A k \in 1..n : c[k] \notin DOMAIN s.depth
      BY DEF SearchInv, CallsInOrder, c, n
    <3>2. \A k \in 1..(n - 1) : c[k + 1] \in NeededBy(g, c[k])
      BY DEF SearchInv, CallsInOrder, c, n
    <3>3. \A k \in 1..n : c[k] \in OutputPorts => c[k] \in s.visited
      BY DEF SearchInv, CallsInOrder, c, n
    <3>4. \A j, k \in 1..n : c[j] = c[k] /\ c[j] \in OutputPorts => j = k
      BY DEF SearchInv, CallsInOrder, c, n
    <3>5. \A k \in 1..Len(t.calls) : t.calls[k] \notin DOMAIN t.depth
      BY <2>2, <2>5, <2>6, <3>1
    <3>6. \A k \in 1..(Len(t.calls) - 1) : t.calls[k + 1] \in NeededBy(g, t.calls[k])
      <4>1. SUFFICES ASSUME NEW k \in 1..n PROVE t.calls[k + 1] \in NeededBy(g, t.calls[k])
        BY <1>1, <2>5
      <4>2. CASE k = n
        <5>1. c # <<>>
          BY <1>1, <4>2, EmptySeq DEF n, c
        <5>2. p \in NeededBy(g, c[n])
          BY <1>3, <5>1 DEF c, n
        <5> QED BY <2>5, <4>2, <5>2
      <4>3. CASE k # n
        <5>1. k \in 1..(n - 1) /\ k + 1 \in 1..n
          BY <1>1, <4>3
        <5> QED BY <2>5, <3>2, <5>1
      <4> QED BY <4>2, <4>3
    <3>7. \A k \in 1..Len(t.calls) : t.calls[k] \in OutputPorts => t.calls[k] \in t.visited
      BY <2>2, <2>5, <2>6, <3>3
    <3>8. ASSUME NEW j \in 1..Len(t.calls), NEW k \in 1..Len(t.calls),
                 t.calls[j] = t.calls[k], t.calls[j] \in OutputPorts
          PROVE  j = k
      <4>1. j \in 1..(n + 1) /\ k \in 1..(n + 1)
        BY <2>5
      <4>2. CASE j \in 1..n /\ k \in 1..n
        BY <2>5, <3>4, <3>8, <4>2
      <4>3. CASE j = n + 1 /\ k \in 1..n
        BY <2>5, <2>7, <3>8, <4>3
      <4>4. CASE j \in 1..n /\ k = n + 1
        BY <2>5, <2>7, <3>8, <4>4
      <4>5. CASE j = n + 1 /\ k = n + 1
        BY <4>5
      <4> QED BY <2>6, <4>1, <4>2, <4>3, <4>4, <4>5
    <3> QED BY <3>5, <3>6, <3>7, <3>8 DEF CallsInOrder
  <2>9. VisitsAreCalls(g, t)
    <3>1. SUFFICES ASSUME NEW q \in t.visited \ DOMAIN t.depth
                   PROVE  \E k \in 1..(n + 1) : t.calls[k] \in Alike(g, q)
      BY <2>5 DEF VisitsAreCalls
    <3>2. CASE q = p
      <4>1. n + 1 \in 1..(n + 1)
        BY <1>1
      <4> QED BY <1>4, <2>5, <3>2, <4>1
    <3>3. CASE q # p
      <4>1. q \in s.visited \ DOMAIN s.depth /\ c # <<>>
        BY <2>2, <3>1, <3>3 DEF c
      <4>2. PICK k \in 1..n : c[k] \in Alike(g, q)
        BY <4>1 DEF SearchInv, VisitsAreCalls, c, n
      <4>3. k \in 1..(n + 1)
        BY <1>1
      <4> QED BY <2>5, <4>2, <4>3
    <3> QED BY <3>2, <3>3
  <2>10. DepthsSoFar(g, t)
    BY <2>2 DEF SearchInv, DepthsSoFar
  <2>11. SearchInv(g, t)
    BY <2>2, <2>4, <2>8, <2>9, <2>10 DEF SearchInv
  <2>12. p \in OutputPorts => p \notin Range(c)
    <3>1. DOMAIN c = 1..n
      BY <1>1, LenProperties DEF c, n
    <3> QED BY <2>7, <3>1 DEF Range
  <2> QED BY <1>1, <2>2, <2>11, <2>12 DEF t, c
<1> QED BY <1>5, <1>6

\* The last call returns, when all that its port needs has a depth.
LEMMA ReturnKeeps ==
  ASSUME NEW g, IsGraph(g), NEW s, SearchInv(g, s), s.calls # <<>>,
         NEW p, p = Last(s.calls), NeededBy(g, p) \subseteq DOMAIN s.depth,
         NEW d, d = Deepest({s.depth[q] + Extra(p) : q \in NeededBy(g, p)})
  PROVE  /\ SearchInv(g, Return(s, Alike(g, p), d))
         /\ Return(s, Alike(g, p), d).loop = s.loop
         /\ Return(s, Alike(g, p), d).calls = SubSeq(s.calls, 1, Len(s.calls) - 1)
         /\ DOMAIN Return(s, Alike(g, p), d).depth = Alike(g, p) \cup DOMAIN s.depth
         /\ p \in g.ports /\ p \notin DOMAIN s.depth
<1> DEFINE n == Len(s.calls)
           c == s.calls
           A == Alike(g, p)
           D == DOMAIN s.depth
           newdepth == [q \in A \cup D |-> IF q \in A THEN d ELSE s.depth[q]]
           r == SubSeq(c, 1, n - 1)
           t == Return(s, A, d)
           made == {s.depth[q] + Extra(p) : q \in NeededBy(g, p)}
<1>1. /\ s \in SearchStates(g) /\ c \in Seq(g.ports) /\ n \in Nat
      /\ s.depth \in [D -> Nat] /\ D \subseteq g.ports
      /\ IsFiniteSet(D) /\ Cardinality(D) \in Nat
      /\ s.visited \subseteq g.ports
  BY StateFacts DEF SearchInv
<1>2. n \in 1..n /\ p = c[n] /\ p \in g.ports
  <2>1. n # 0
    BY <1>1, EmptySeq
  <2>2. n \in 1..n
    BY <1>1, <2>1
  <2> QED BY <1>1, <2>2, ElementOfSeq DEF Last
<1>3. /\ p \in A /\ A \subseteq g.ports /\ NeededBy(g, p) \subseteq g.ports
      /\ \A q \in A : Alike(g, q) = A /\ NeededBy(g, q) = NeededBy(g, p) /\ Extra(q) = Extra(p)
  BY <1>2, GraphFacts
<1>4. p \notin D
  BY <1>2 DEF SearchInv, CallsInOrder
<1>5. A \cap D = {}
  <2>1. SUFFICES ASSUME NEW q \in A, q \in D PROVE FALSE
    OBVIOUS
  <2>2. Alike(g, q) \subseteq D
    BY <2>1 DEF SearchInv, DepthsSoFar
  <2> QED BY <1>3, <1>4, <2>1, <2>2
<1>6. r \in Seq(g.ports) /\ Len(r) = n - 1 /\ \A k \in 1..(n - 1) : r[k] = c[k]
  <2>1. n >= 1
    BY <1>1, <1>2
  <2> QED BY <1>1, <2>1, Shortened
<1>7. Extra(p) \in 0..1
  BY DEF Extra
<1>8. made \in SUBSET (0..(Cardinality(D) + 1))
  <2>1. SUFFICES ASSUME NEW q \in NeededBy(g, p)
                 PROVE  s.depth[q] + Extra(p) \in 0..(Cardinality(D) + 1)
    OBVIOUS
  <2>2. q \in D /\ s.depth[q] \in Nat
    BY <1>1
  <2>3. s.depth[q] <= Cardinality(D)
    BY <2>2 DEF SearchInv, DepthsSoFar
  <2> QED BY <1>1, <1>7, <2>2, <2>3
<1>9. d \in 0..(Cardinality(D) + 1)
  <2> HIDE DEF made
  <2>1. Cardinality(D) + 1 \in Nat
    BY <1>1
  <2>2. d = Deepest(made)
    BY DEF made
  <2> HIDE DEF D
  <2> QED BY <1>8, <2>1, <2>2, DeepestIs
<1>10. newdepth \in [A \cup D -> Nat] /\ A \cup D \in SUBSET g.ports
  <2>1. d \in Nat /\ \A q \in D : s.depth[q] \in Nat
    BY <1>1, <1>9
  <2> HIDE DEF A, D
  <2> QED BY <1>1, <1>3, <2>1
<1>11. t = [s EXCEPT !.calls = r, !.depth = newdepth]
  BY DEF Return
<1>12. t.calls = r /\ t.depth = newdepth /\ t.visited = s.visited /\ t.loop = s.loop
  BY <1>1, <1>11 DEF SearchStates
<1>13. t \in SearchStates(g)
  <2>1. newdepth \in UNION {[E -> Nat] : E \in SUBSET g.ports}
    BY <1>10
  <2> HIDE DEF newdepth, r, t
  <2> QED BY <1>1, <1>6, <1>11, <2>1 DEF SearchStates
<1>14. DOMAIN newdepth = A \cup D
  OBVIOUS
<1>15. IsFiniteSet(A \cup D) /\ Cardinality(A \cup D) \in Nat /\ Cardinality(D) + 1 <= Cardinality(A \cup D)
  <2>1. IsFiniteSet(A \cup D)
    <3>1. IsFiniteSet(g.ports)
      BY PortsAreFinite, FS_Subset DEF IsGraph
    <3> QED BY <1>10, <3>1, FS_Subset
  <2>2. IsFiniteSet(D \cup {p}) /\ Cardinality(D \cup {p}) = Cardinality(D) + 1
    BY <1>1, <1>4, FS_AddElement
  <2>3. D \cup {p} \in SUBSET (A \cup D)
    BY <1>3
  <2>4. Cardinality(D \cup {p}) <= Cardinality(A \cup D)
    BY <2>1, <2>3, FS_Subset
  <2> QED BY <2>1, <2>2, <2>4, FS_CardinalityType
<1>16. \A q \in D : newdepth[q] = s.depth[q]
  BY <1>5
<1> HIDE DEF t, r, newdepth, D, A, n, c
<1>17. \A k \in 1..n : c[k] \notin D
  BY DEF SearchInv, CallsInOrder, c, n, D
<1>18. \A k \in 1..(n - 1) : c[k + 1] \in NeededBy(g, c[k])
  BY DEF SearchInv, CallsInOrder, c, n
<1>19. \A j, k \in 1..n : c[j] = c[k] /\ c[j] \in OutputPorts => j = k
  BY DEF SearchInv, CallsInOrder, c, n
<1>20. CallsInOrder(g, t)
  <2>1. ASSUME NEW k \in 1..Len(t.calls) PROVE t.calls[k] \notin DOMAIN t.depth
    <3>1. k \in 1..(n - 1) /\ k \in 1..n /\ t.calls[k] = c[k]
      BY <1>1, <1>6, <1>12
    <3>2. SUFFICES ASSUME c[k] \in A PROVE FALSE
      BY <1>12, <1>14, <1>17, <3>1
    <3>3. c[k + 1] \in NeededBy(g, p)
      BY <1>3, <1>18, <3>1, <3>2
    <3>4. k + 1 \in 1..n
      BY <1>1, <3>1
    <3> QED BY <1>17, <3>3, <3>4 DEF D
  <2>2. ASSUME NEW k \in 1..(Len(t.calls) - 1) PROVE t.calls[k + 1] \in NeededBy(g, t.calls[k])
    <3>1. k \in 1..(n - 1) /\ k + 1 \in 1..(n - 1)
      BY <1>1, <1>6, <1>12
    <3> QED BY <1>6, <1>12, <1>18, <3>1
  <2>3. ASSUME NEW k \in 1..Len(t.calls), t.calls[k] \in OutputPorts PROVE t.calls[k] \in t.visited
    <3>1. k \in 1..n /\ t.calls[k] = c[k]
      BY <1>1, <1>6, <1>12
    <3> QED BY <1>12, <2>3, <3>1 DEF SearchInv, CallsInOrder, c, n
  <2>4. ASSUME NEW j \in 1..Len(t.calls), NEW k \in 1..Len(t.calls),
               t.calls[j] = t.calls[k], t.calls[j] \in OutputPorts
        PROVE  j = k
    <3>1. j \in 1..n /\ k \in 1..n /\ t.calls[j] = c[j] /\ t.calls[k] = c[k]
      BY <1>1, <1>6, <1>12
    <3> QED BY <1>19, <2>4, <3>1
  <2> QED BY <2>1, <2>2, <2>3, <2>4 DEF CallsInOrder
<1>21. VisitsAreCalls(g, t)
  <2>1. SUFFICES ASSUME NEW q \in t.visited \ DOMAIN t.depth
                 PROVE  \E k \in 1..Len(t.calls) : t.calls[k] \in Alike(g, q)
    BY DEF VisitsAreCalls
  <2>2. q \in s.visited \ DOMAIN s.depth /\ q \notin A
    BY <1>12, <1>14, <2>1 DEF D
  <2>3. PICK k \in 1..n : c[k] \in Alike(g, q)
    BY <2>2 DEF SearchInv, VisitsAreCalls, c, n
  <2>4. k # n
    <3>1. SUFFICES ASSUME p \in Alike(g, q) PROVE FALSE
      BY <1>2, <2>3 DEF c, n
    <3>2. q \in g.ports
      BY <1>1, <2>2
    <3>3. q \in Alike(g, q) /\ Alike(g, p) = Alike(g, q)
      BY <3>1, <3>2, GraphFacts
    <3> QED BY <2>2, <3>3 DEF A
  <2>5. k \in 1..(n - 1)
    BY <1>1, <2>4
  <2> QED BY <1>6, <1>12, <2>3, <2>5
<1>22. DepthsSoFar(g, t)
  <2>1. SUFFICES ASSUME NEW q \in A \cup D
                 PROVE  /\ Alike(g, q) \subseteq A \cup D /\ NeededBy(g, q) \subseteq A \cup D
                        /\ newdepth[q] = Deepest({newdepth[o] + Extra(q) : o \in NeededBy(g, q)})
                        /\ newdepth[q] <= Cardinality(A \cup D)
    BY <1>12, <1>14 DEF DepthsSoFar
  <2>2. CASE q \in A
    <3>1. Alike(g, q) = A /\ NeededBy(g, q) = NeededBy(g, p) /\ Extra(q) = Extra(p) /\ NeededBy(g, p) \subseteq D
      BY <1>3, <2>2 DEF D
    <3>2. newdepth[q] = d
      BY <2>2 DEF newdepth
    <3>3. {newdepth[o] + Extra(q) : o \in NeededBy(g, q)} = made
      BY <1>16, <3>1
    <3>4. d <= Cardinality(A \cup D)
      BY <1>1, <1>9, <1>15
    <3> QED BY <3>1, <3>2, <3>3, <3>4
  <2>3. CASE q \in D
    <3>1. /\ Alike(g, q) \subseteq D /\ NeededBy(g, q) \subseteq D
          /\ s.depth[q] = Deepest({s.depth[o] + Extra(q) : o \in NeededBy(g, q)})
          /\ s.depth[q] <= Cardinality(D)
      BY <2>3 DEF SearchInv, DepthsSoFar, D
    <3>2. {newdepth[o] + Extra(q) : o \in NeededBy(g, q)} = {s.depth[o] + Extra(q) : o \in NeededBy(g, q)}
      BY <1>16, <3>1
    <3>3. newdepth[q] = s.depth[q] /\ s.depth[q] \in Nat
      BY <1>1, <1>16, <2>3
    <3>4. newdepth[q] <= Cardinality(A \cup D)
      BY <1>1, <1>15, <3>1, <3>3
    <3> QED BY <3>1, <3>2, <3>3, <3>4
  <2> QED BY <2>1, <2>2, <2>3
<1>23. SearchInv(g, t)
  BY <1>12, <1>13, <1>20, <1>21, <1>22 DEF SearchInv
<1> QED BY <1>2, <1>4, <1>12, <1>14, <1>23 DEF t, A, D, r, c, n

\* The first port without a depth is the one to call for next.
LEMMA NextStep ==
  ASSUME NEW g, IsGraph(g), NEW s, s.calls = <<>>, g.ports \ DOMAIN s.depth # {}
  PROVE  \E p \in g.ports \ DOMAIN s.depth : NextPortDepth(g, s) = Call([s EXCEPT !.visited = {}], p)
<1> DEFINE left == g.ports \ DOMAIN s.depth
           ks == {k \in DOMAIN g.order : PortsOf(g.order[k]) \cap left # {}}
           a == g.order[Min(ks)]
           ports == InputsOf[a] \o OutputsOf[a]
           js == {k \in DOMAIN ports : ports[k] \in left}
<1>1. g.order \in Seq(Accessors) /\ DOMAIN g.order = 1..Len(g.order) /\ Len(g.order) \in Nat
  BY LenProperties DEF IsGraph
<1>2. ks \in SUBSET Nat /\ ks # {}
  <2>1. PICK p \in left : TRUE
    OBVIOUS
  <2>2. \E k \in DOMAIN g.order : p \in PortsOf(g.order[k])
    BY DEF IsGraph
  <2> HIDE DEF left
  <2> QED BY <1>1, <2>1, <2>2
<1>3. Min(ks) \in ks
  <2> HIDE DEF ks
  <2> QED BY <1>2, LeastIsIn
<1>4. a \in Accessors /\ PortsOf(a) \cap left # {}
  BY <1>1, <1>3, ElementOfSeq
<1> HIDE DEF a, left
<1>5. InputsOf[a] \in Seq(Ports) /\ OutputsOf[a] \in Seq(Ports)
  <2>1. InputsOf[a] \in Seq(InputPorts) /\ OutputsOf[a] \in Seq(OutputPorts)
    BY <1>4, StructureAssumption
  <2>2. InputPorts \subseteq Ports /\ OutputPorts \subseteq Ports
    BY DEF Ports
  <2> QED BY <2>1, <2>2, SeqMonotonic
<1> DEFINE ins == InputsOf[a]
           outs == OutputsOf[a]
<1> HIDE DEF ins, outs
<1>6. /\ ins \o outs \in Seq(Ports) /\ Len(ins \o outs) = Len(ins) + Len(outs)
      /\ \A i \in 1..(Len(ins) + Len(outs)) :
           (ins \o outs)[i] = IF i <= Len(ins) THEN ins[i] ELSE outs[i - Len(ins)]
  BY <1>5, ConcatProperties DEF ins, outs
<1>7. Len(ins) \in Nat /\ Len(outs) \in Nat /\ DOMAIN ins = 1..Len(ins) /\ DOMAIN outs = 1..Len(outs)
  BY <1>5, LenProperties DEF ins, outs
<1>8. ports = ins \o outs
  BY DEF ins, outs
<1> HIDE DEF ports
<1>9. DOMAIN ports = 1..(Len(ins) + Len(outs))
  BY <1>6, <1>8, LenProperties
<1>10. js \in SUBSET Nat /\ js # {}
  <2>1. PICK p \in left : p \in Range(ins) \/ p \in Range(outs)
    BY <1>4 DEF PortsOf, ins, outs
  <2>2. CASE p \in Range(ins)
    <3>1. PICK k \in 1..Len(ins) : ins[k] = p
      BY <1>7, <2>2 DEF Range
    <3>2. k \in 1..(Len(ins) + Len(outs)) /\ k <= Len(ins)
      BY <1>7
    <3>3. ports[k] = p
      BY <1>6, <1>8, <3>1, <3>2
    <3> QED BY <1>7, <1>9, <3>2, <3>3
  <2>3. CASE p \in Range(outs)
    <3>1. PICK k \in 1..Len(outs) : outs[k] = p
      BY <1>7, <2>3 DEF Range
    <3>2. /\ Len(ins) + k \in 1..(Len(ins) + Len(outs)) /\ ~(Len(ins) + k <= Len(ins))
          /\ (Len(ins) + k) - Len(ins) = k
      BY <1>7
    <3>3. ports[Len(ins) + k] = p
      BY <1>6, <1>8, <3>1, <3>2
    <3> QED BY <1>7, <1>9, <3>2, <3>3
  <2> QED BY <2>1, <2>2, <2>3
<1>11. Min(js) \in js
  <2> HIDE DEF js
  <2> QED BY <1>10, LeastIsIn
<1>12. ports[Min(js)] \in left
  BY <1>11
<1>13. NextPortDepth(g, s) = Call([s EXCEPT !.visited = {}], ports[Min(js)])
  BY DEF NextPortDepth, left, ports, a
<1> QED BY <1>12, <1>13 DEF left

\* The depth of a class of inputs is known when the sources have one, otherwise
\* the first source without one is called for.
LEMMA InputStep ==
  ASSUME NEW g, IsGraph(g), NEW s, NEW i \in g.ports \cap InputPorts
  PROVE  \/ /\ NeededBy(g, i) \subseteq DOMAIN s.depth
            /\ InputPortDepth(g, s, i)
                 = Return(s, Alike(g, i), Deepest({s.depth[q] + Extra(i) : q \in NeededBy(g, i)}))
         \/ \E seen \in SUBSET Alike(g, i), p \in g.ports \cap OutputPorts :
              /\ p \notin DOMAIN s.depth /\ p \in NeededBy(g, i)
              /\ InputPortDepth(g, s, i) = Call([s EXCEPT !.visited = @ \cup seen], p)
<1> DEFINE inputs == InputsOf[Owner[i]]
           open == {k \in DOMAIN inputs :
                      inputs[k] \in g.class[i] /\ g.source[inputs[k]] \notin {None} \cup DOMAIN s.depth}
           seen == {inputs[k] : k \in 1..Min(open)} \cap g.class[i]
           feeding == {g.source[e] : e \in g.class[i]} \ {None}
<1>1. i \in Ports /\ inputs \in Seq(InputPorts) /\ DOMAIN inputs \subseteq Nat
  <2>1. i \in Ports
    BY GraphFacts
  <2>2. inputs \in Seq(InputPorts)
    BY <2>1, InputsAreInputs
  <2>3. DOMAIN inputs = 1..Len(inputs)
    BY <2>2, LenProperties
  <2> QED BY <2>1, <2>2, <2>3
<1>2. /\ g.class[i] \subseteq g.ports \cap Range(inputs)
      /\ Range(inputs) \subseteq InputPorts
  BY <1>1, InputsAreInputs DEF IsGraph
<1>3. Alike(g, i) = g.class[i] /\ NeededBy(g, i) = feeding /\ Extra(i) = 1
  BY DEF Alike, NeededBy, Extra
<1>4. CASE open = {}
  <2>1. feeding \subseteq DOMAIN s.depth
    <3>1. SUFFICES ASSUME NEW e \in g.class[i], g.source[e] # None PROVE g.source[e] \in DOMAIN s.depth
      OBVIOUS
    <3>2. PICK k \in DOMAIN inputs : inputs[k] = e
      BY <1>2 DEF Range
    <3> HIDE DEF inputs
    <3> QED BY <1>4, <3>1, <3>2
  <2>2. InputPortDepth(g, s, i) = Return(s, g.class[i], Deepest({s.depth[o] + 1 : o \in feeding}))
    BY <1>4 DEF InputPortDepth
  <2> HIDE DEF feeding
  <2> QED BY <1>3, <2>1, <2>2
<1>5. CASE open # {}
  <2>1. open \in SUBSET Nat
    BY <1>1
  <2>2. Min(open) \in open
    <3> HIDE DEF open
    <3> QED BY <1>5, <2>1, LeastIsIn
  <2> DEFINE p == g.source[inputs[Min(open)]]
  <2>3. inputs[Min(open)] \in g.class[i] /\ p \notin {None} \cup DOMAIN s.depth
    BY <2>2
  <2>4. p \in g.ports \cap OutputPorts
    <3>1. inputs[Min(open)] \in g.ports \cap InputPorts
      BY <1>2, <2>3
    <3> HIDE DEF open
    <3> QED BY <2>3, <3>1 DEF IsGraph
  <2>5. p \in NeededBy(g, i)
    BY <1>3, <2>3
  <2>6. InputPortDepth(g, s, i) = Call([s EXCEPT !.visited = @ \cup seen], p)
    BY <1>5 DEF InputPortDepth
  <2>7. seen \in SUBSET Alike(g, i)
    BY <1>3
  <2> HIDE DEF seen, p
  <2> QED BY <2>3, <2>4, <2>5, <2>6, <2>7
<1> QED BY <1>4, <1>5

\* So it is with that of an output and the inputs it depends on.
LEMMA OutputStep ==
  ASSUME NEW g, IsGraph(g), NEW s, s.depth \in [DOMAIN s.depth -> Nat],
         NEW o \in g.ports \cap OutputPorts
  PROVE  \/ /\ NeededBy(g, o) \subseteq DOMAIN s.depth
            /\ OutputPortDepth(g, s, o)
                 = Return(s, Alike(g, o), Deepest({s.depth[q] + Extra(o) : q \in NeededBy(g, o)}))
         \/ \E p \in g.ports :
              /\ p \notin DOMAIN s.depth /\ p \in NeededBy(g, o)
              /\ OutputPortDepth(g, s, o) = Call(s, p)
<1> DEFINE inputs == InputsOf[Owner[o]]
           open == {k \in DOMAIN inputs : inputs[k] \in g.needed[o] \ DOMAIN s.depth}
<1>1. o \in Ports /\ inputs \in Seq(InputPorts) /\ DOMAIN inputs \subseteq Nat
  <2>1. o \in Ports
    BY GraphFacts
  <2>2. inputs \in Seq(InputPorts)
    BY <2>1, InputsAreInputs
  <2>3. DOMAIN inputs = 1..Len(inputs)
    BY <2>2, LenProperties
  <2> QED BY <2>1, <2>2, <2>3
<1>2. o \notin InputPorts
  BY StructureAssumption
<1>3. Alike(g, o) = {o} /\ NeededBy(g, o) = g.needed[o] /\ Extra(o) = 0
  BY <1>2 DEF Alike, NeededBy, Extra
<1>4. g.needed[o] \subseteq g.ports \cap Range(inputs)
  BY DEF IsGraph
<1>5. CASE open = {}
  <2>1. g.needed[o] \subseteq DOMAIN s.depth
    <3>1. SUFFICES ASSUME NEW e \in g.needed[o] PROVE e \in DOMAIN s.depth
      OBVIOUS
    <3>2. PICK k \in DOMAIN inputs : inputs[k] = e
      BY <1>4 DEF Range
    <3> HIDE DEF inputs
    <3> QED BY <1>5, <3>1, <3>2
  <2>2. OutputPortDepth(g, s, o) = Return(s, {o}, Deepest({s.depth[i] : i \in g.needed[o]}))
    BY <1>5 DEF OutputPortDepth
  <2>3. \A i \in g.needed[o] : s.depth[i] + 0 = s.depth[i]
    BY <2>1
  <2>4. {s.depth[i] : i \in g.needed[o]} = {s.depth[i] + 0 : i \in g.needed[o]}
    BY <2>3
  <2> QED BY <1>3, <2>1, <2>2, <2>4
<1>6. CASE open # {}
  <2>1. open \in SUBSET Nat
    BY <1>1
  <2>2. Min(open) \in open
    <3> HIDE DEF open
    <3> QED BY <1>6, <2>1, LeastIsIn
  <2>3. inputs[Min(open)] \in g.needed[o] \ DOMAIN s.depth
    BY <2>2
  <2>4. OutputPortDepth(g, s, o) = Call(s, inputs[Min(open)])
    BY <1>6 DEF OutputPortDepth
  <2> HIDE DEF open
  <2> QED BY <1>3, <1>4, <2>3, <2>4
<1> QED BY <1>5, <1>6

\* A search is over when it has met a loop or every port has its depth.
IsOver(g, s) == s.loop \/ (s.calls = <<>> /\ g.ports \subseteq DOMAIN s.depth)

\* How far it is from that, at most: every port without a depth is still to
\* return, and the outputs among these that are not called are still to be called,
\* each for an input.
Unsettled(g, s) == g.ports \ DOMAIN s.depth
Uncalled(g, s) == {o \in Unsettled(g, s) \cap OutputPorts : o \notin Range(s.calls)}
AtOutput(s) == IF s.calls = <<>> \/ Last(s.calls) \in OutputPorts THEN 1 ELSE 0
StepsLeft(g, s) == 2 * Cardinality(Unsettled(g, s)) + 2 * Cardinality(Uncalled(g, s)) + AtOutput(s)

LEMMA StepsAreFinite ==
  ASSUME NEW g, IsGraph(g), NEW s
  PROVE  /\ IsFiniteSet(Unsettled(g, s)) /\ Cardinality(Unsettled(g, s)) \in Nat
         /\ IsFiniteSet(Uncalled(g, s)) /\ Cardinality(Uncalled(g, s)) \in Nat
         /\ AtOutput(s) \in {0, 1} /\ StepsLeft(g, s) \in Nat
         /\ Cardinality(Unsettled(g, s)) <= Cardinality(Ports)
         /\ Cardinality(Uncalled(g, s)) <= Cardinality(Ports)
<1>1. Unsettled(g, s) \in SUBSET Ports /\ Uncalled(g, s) \in SUBSET Ports
  BY DEF Unsettled, Uncalled, IsGraph
<1>2. /\ IsFiniteSet(Unsettled(g, s)) /\ Cardinality(Unsettled(g, s)) \in Nat
      /\ Cardinality(Unsettled(g, s)) <= Cardinality(Ports)
  BY <1>1, PortsAreFinite, FS_Subset, FS_CardinalityType
<1>3. /\ IsFiniteSet(Uncalled(g, s)) /\ Cardinality(Uncalled(g, s)) \in Nat
      /\ Cardinality(Uncalled(g, s)) <= Cardinality(Ports)
  BY <1>1, PortsAreFinite, FS_Subset, FS_CardinalityType
<1>4. AtOutput(s) \in {0, 1}
  BY DEF AtOutput
<1> QED BY <1>2, <1>3, <1>4 DEF StepsLeft

\* A call is a step less: of an output, which was not called, or from an output.
LEMMA CallAdvances ==
  ASSUME NEW g, IsGraph(g), NEW s, NEW t, s.calls \in Seq(g.ports),
         NEW p \in g.ports, p \notin DOMAIN s.depth,
         t.calls = Append(s.calls, p), t.depth = s.depth,
         p \in OutputPorts => p \notin Range(s.calls),
         p \in OutputPorts \/ AtOutput(s) = 1
  PROVE  StepsLeft(g, t) < StepsLeft(g, s)
<1> DEFINE U == Unsettled(g, s)
           V == Uncalled(g, s)
           n == Len(s.calls)
<1>1. Unsettled(g, t) = U
  BY DEF Unsettled
<1>2. n \in Nat /\ t.calls \in Seq(g.ports) /\ Len(t.calls) = n + 1 /\ t.calls[n + 1] = p
  <2>1. /\ Append(s.calls, p) \in Seq(g.ports) /\ Len(Append(s.calls, p)) = n + 1
        /\ Append(s.calls, p)[n + 1] = p
    <3> DEFINE S == g.ports
               c == s.calls
    <3>1. c \in Seq(S) /\ p \in S
      OBVIOUS
    <3> HIDE DEF S, c
    <3>2. Append(c, p) \in Seq(S) /\ Len(Append(c, p)) = Len(c) + 1 /\ Append(c, p)[Len(c) + 1] = p
      BY <3>1, AppendProperties
    <3> QED BY <3>2 DEF S, c
  <2> QED BY <2>1, LenProperties
<1>3. t.calls # <<>> /\ Last(t.calls) = p
  BY <1>2, EmptySeq DEF Last
<1>4. Range(t.calls) = Range(s.calls) \cup {p}
  <2>1. DOMAIN t.calls = 1..(n + 1) /\ DOMAIN s.calls = 1..n
    BY <1>2, LenProperties
  <2>2. \A k \in 1..n : t.calls[k] = s.calls[k]
    BY AppendProperties
  <2>3. \A k \in 1..(n + 1) : k \in 1..n \/ k = n + 1
    BY <1>2
  <2>4. ASSUME NEW q PROVE q \in Range(t.calls) <=> (q \in Range(s.calls) \/ q = p)
    <3>1. ASSUME q \in Range(t.calls) PROVE q \in Range(s.calls) \/ q = p
      BY <1>2, <2>1, <2>2, <2>3, <3>1 DEF Range
    <3>2. ASSUME q \in Range(s.calls) PROVE q \in Range(t.calls)
      <4>1. PICK k \in 1..n : s.calls[k] = q
        BY <2>1, <3>2 DEF Range
      <4>2. k \in 1..(n + 1) /\ t.calls[k] = q
        BY <1>2, <2>2, <4>1
      <4> QED BY <2>1, <4>2 DEF Range
    <3>3. p \in Range(t.calls)
      <4>1. n + 1 \in 1..(n + 1)
        BY <1>2
      <4> QED BY <1>2, <2>1, <4>1 DEF Range
    <3> QED BY <3>1, <3>2, <3>3
  <2> QED BY <2>4
<1>5. /\ Cardinality(U) \in Nat /\ Cardinality(V) \in Nat /\ IsFiniteSet(V)
      /\ AtOutput(s) \in {0, 1} /\ AtOutput(t) \in {0, 1}
  BY StepsAreFinite
<1>6. CASE p \in OutputPorts
  <2>1. p \in V /\ Uncalled(g, t) = V \ {p}
    BY <1>1, <1>4, <1>6 DEF Uncalled, Unsettled
  <2>2. Cardinality(Uncalled(g, t)) = Cardinality(V) - 1
    BY <1>5, <2>1, FS_RemoveElement
  <2> HIDE DEF U, V
  <2> QED BY <1>1, <1>5, <2>2 DEF StepsLeft, U, V
<1>7. CASE p \notin OutputPorts
  <2>1. Uncalled(g, t) = V
    BY <1>1, <1>4, <1>7 DEF Uncalled, Unsettled
  <2>2. AtOutput(t) = 0
    BY <1>3, <1>7 DEF AtOutput
  <2> QED BY <1>1, <1>5, <1>7, <2>1, <2>2 DEF StepsLeft
<1> QED BY <1>6, <1>7

\* A return is a step less.
LEMMA ReturnAdvances ==
  ASSUME NEW g, IsGraph(g), NEW s, NEW t, s.calls \in Seq(g.ports), s.calls # <<>>,
         NEW p \in g.ports, p = Last(s.calls), p \notin DOMAIN s.depth,
         t.calls = SubSeq(s.calls, 1, Len(s.calls) - 1),
         DOMAIN t.depth = Alike(g, p) \cup DOMAIN s.depth
  PROVE  StepsLeft(g, t) < StepsLeft(g, s)
<1> DEFINE U == Unsettled(g, s)
           V == Uncalled(g, s)
           n == Len(s.calls)
<1>1. n \in Nat /\ n >= 1 /\ p = s.calls[n]
  BY LenProperties, EmptySeq DEF Last
<1>2. p \in Alike(g, p)
  BY GraphFacts
<1>3. p \in U /\ Unsettled(g, t) \in SUBSET (U \ {p})
  BY <1>2 DEF Unsettled
<1>4. t.calls \in Seq(g.ports) /\ Len(t.calls) = n - 1 /\ \A k \in 1..(n - 1) : t.calls[k] = s.calls[k]
  BY <1>1, Shortened
<1>5. \A q \in Range(s.calls) : q \in Range(t.calls) \/ q = p
  <2>1. SUFFICES ASSUME NEW q \in Range(s.calls), q # p PROVE q \in Range(t.calls)
    OBVIOUS
  <2>2. DOMAIN t.calls = 1..(n - 1) /\ DOMAIN s.calls = 1..n
    BY <1>4, LenProperties
  <2>3. PICK k \in 1..n : s.calls[k] = q
    BY <2>2 DEF Range
  <2>4. k \in 1..(n - 1)
    BY <1>1, <2>1, <2>3
  <2> QED BY <1>4, <2>2, <2>3, <2>4 DEF Range
<1>6. Uncalled(g, t) \in SUBSET V
  BY <1>3, <1>5 DEF Uncalled
<1>7. /\ Cardinality(U) \in Nat /\ Cardinality(V) \in Nat /\ IsFiniteSet(V) /\ IsFiniteSet(U)
      /\ Cardinality(Unsettled(g, t)) \in Nat /\ Cardinality(Uncalled(g, t)) \in Nat
      /\ AtOutput(s) \in {0, 1} /\ AtOutput(t) \in {0, 1}
  BY StepsAreFinite
<1> HIDE DEF U, V
<1>8. Cardinality(Unsettled(g, t)) <= Cardinality(U) - 1
  <2>1. IsFiniteSet(U \ {p}) /\ Cardinality(U \ {p}) = Cardinality(U) - 1
    BY <1>3, <1>7, FS_RemoveElement
  <2>2. Cardinality(Unsettled(g, t)) <= Cardinality(U \ {p})
    BY <1>3, <2>1, FS_Subset
  <2> QED BY <2>1, <2>2
<1>9. Cardinality(Uncalled(g, t)) <= Cardinality(V)
  BY <1>6, <1>7, FS_Subset
<1>10. StepsLeft(g, s) = 2 * Cardinality(U) + 2 * Cardinality(V) + AtOutput(s)
  BY DEF StepsLeft, U, V
<1> QED BY <1>7, <1>8, <1>9, <1>10 DEF StepsLeft

\* Every step keeps what is true of the search, and brings it nearer to its end.
LEMMA SearchAdvances ==
  ASSUME NEW g, IsGraph(g), NEW s, SearchInv(g, s), ~IsOver(g, s)
  PROVE  /\ SearchInv(g, SearchStep(g, s))
         /\ SearchStep(g, s).loop \/ StepsLeft(g, SearchStep(g, s)) < StepsLeft(g, s)
<1> DEFINE c == s.calls
           n == Len(c)
           p == Last(c)
<1>1. /\ s \in SearchStates(g) /\ c \in Seq(g.ports) /\ n \in Nat
      /\ s.visited \subseteq g.ports /\ s.loop = FALSE
      /\ s.depth \in [DOMAIN s.depth -> Nat]
  BY StateFacts DEF SearchInv, IsOver
<1>2. CASE c = <<>>
  <2>1. SearchStep(g, s) = NextPortDepth(g, s)
    BY <1>1, <1>2 DEF SearchStep
  <2>2. g.ports \ DOMAIN s.depth # {}
    BY <1>2 DEF IsOver
  <2>3. PICK q \in g.ports \ DOMAIN s.depth : NextPortDepth(g, s) = Call([s EXCEPT !.visited = {}], q)
    BY <1>2, <2>2, NextStep
  <2> DEFINE r == [s EXCEPT !.visited = {}]
  <2>4. /\ r.calls = s.calls /\ r.depth = s.depth /\ r.loop = s.loop /\ r.visited = {}
        /\ r \in SearchStates(g)
    BY <1>1 DEF SearchStates
  <2> HIDE DEF r
  <2>5. SearchInv(g, r)
    <3>1. CallsInOrder(g, r)
      <4>1. Len(r.calls) = 0
        BY <1>2, <2>4
      <4> QED BY <4>1 DEF CallsInOrder
    <3>2. VisitsAreCalls(g, r)
      BY <1>2, <2>4 DEF VisitsAreCalls
    <3>3. DepthsSoFar(g, r)
      BY <2>4 DEF SearchInv, DepthsSoFar
    <3> QED BY <1>1, <2>4, <3>1, <3>2, <3>3 DEF SearchInv
  <2> DEFINE t == Call(r, q)
  <2>6. /\ SearchInv(g, t)
        /\ \/ t.loop
           \/ /\ ~t.loop
              /\ t.calls = Append(r.calls, q) /\ t.depth = r.depth
              /\ q \in OutputPorts => q \notin Range(r.calls)
    <3>1. ~r.loop /\ q \in g.ports /\ q \notin DOMAIN r.depth /\ r.visited = {} /\ r.calls = <<>>
      BY <1>1, <1>2, <2>3, <2>4
    <3> HIDE DEF t
    <3> QED BY <2>5, <3>1, CallKeeps DEF t
  <2> HIDE DEF t
  <2>7. ASSUME ~t.loop PROVE StepsLeft(g, t) < StepsLeft(g, s)
    <3>1. AtOutput(s) = 1
      BY <1>2 DEF AtOutput
    <3>2. q \in g.ports /\ q \notin DOMAIN s.depth /\ t.calls = Append(s.calls, q) /\ t.depth = s.depth
      BY <2>3, <2>4, <2>6, <2>7
    <3>3. q \in OutputPorts => q \notin Range(s.calls)
      BY <2>4, <2>6, <2>7
    <3> QED BY <1>1, <3>1, <3>2, <3>3, CallAdvances
  <2>8. SearchStep(g, s) = t
    BY <2>1, <2>3 DEF r, t
  <2> QED BY <2>6, <2>7, <2>8
<1>3. CASE c # <<>>
  <2>1. p \in g.ports /\ p \in InputPorts \cup OutputPorts
    <3>1. n \in 1..n /\ p = c[n]
      BY <1>1, <1>3, EmptySeq DEF Last
    <3>2. p \in g.ports
      BY <1>1, <3>1, ElementOfSeq
    <3> HIDE DEF p
    <3> QED BY <3>2 DEF IsGraph, Ports
  <2>2. SearchStep(g, s) = IF p \in InputPorts THEN InputPortDepth(g, s, p) ELSE OutputPortDepth(g, s, p)
    BY <1>1, <1>3 DEF SearchStep
  <2>3. ASSUME NeededBy(g, p) \subseteq DOMAIN s.depth,
               SearchStep(g, s) = Return(s, Alike(g, p), Deepest({s.depth[q] + Extra(p) : q \in NeededBy(g, p)}))
        PROVE  /\ SearchInv(g, SearchStep(g, s))
               /\ StepsLeft(g, SearchStep(g, s)) < StepsLeft(g, s)
    <3> DEFINE d == Deepest({s.depth[q] + Extra(p) : q \in NeededBy(g, p)})
               t == Return(s, Alike(g, p), d)
    <3>1. /\ SearchInv(g, t) /\ t.calls = SubSeq(s.calls, 1, Len(s.calls) - 1)
          /\ DOMAIN t.depth = Alike(g, p) \cup DOMAIN s.depth /\ p \notin DOMAIN s.depth
      BY <1>3, <2>3, ReturnKeeps
    <3>2. SearchStep(g, s) = t
      BY <2>3
    <3> HIDE DEF t
    <3>3. StepsLeft(g, t) < StepsLeft(g, s)
      BY <1>1, <1>3, <2>1, <3>1, ReturnAdvances
    <3> QED BY <3>1, <3>2, <3>3
  <2>4. ASSUME NEW r, SearchInv(g, r), r.calls = s.calls, r.depth = s.depth, ~r.loop,
               NEW q \in g.ports, q \notin DOMAIN s.depth, q \in NeededBy(g, p),
               q \in OutputPorts \/ p \in OutputPorts,
               SearchStep(g, s) = Call(r, q)
        PROVE  /\ SearchInv(g, SearchStep(g, s))
               /\ SearchStep(g, s).loop \/ StepsLeft(g, SearchStep(g, s)) < StepsLeft(g, s)
    <3> DEFINE t == Call(r, q)
    <3>1. /\ SearchInv(g, t)
          /\ \/ t.loop
             \/ /\ ~t.loop
                /\ t.calls = Append(r.calls, q) /\ t.depth = r.depth
                /\ q \in OutputPorts => q \notin Range(r.calls)
      <4>1. r.calls # <<>> /\ q \in NeededBy(g, Last(r.calls)) /\ q \notin DOMAIN r.depth
        BY <1>3, <2>4
      <4> QED BY <2>4, <4>1, CallKeeps
    <3>2. SearchStep(g, s) = t
      BY <2>4
    <3> HIDE DEF t
    <3>3. ASSUME ~t.loop PROVE StepsLeft(g, t) < StepsLeft(g, s)
      <4>1. q \in OutputPorts \/ AtOutput(s) = 1
        BY <2>4 DEF AtOutput
      <4>2. t.calls = Append(s.calls, q) /\ t.depth = s.depth /\ (q \in OutputPorts => q \notin Range(s.calls))
        BY <2>4, <3>1, <3>3
      <4> QED BY <1>1, <2>4, <4>1, <4>2, CallAdvances
    <3> QED BY <3>1, <3>2, <3>3
  <2>5. CASE p \in InputPorts
    <3>1. SearchStep(g, s) = InputPortDepth(g, s, p)
      BY <2>2, <2>5
    <3>2. CASE /\ NeededBy(g, p) \subseteq DOMAIN s.depth
               /\ InputPortDepth(g, s, p)
                    = Return(s, Alike(g, p), Deepest({s.depth[q] + Extra(p) : q \in NeededBy(g, p)}))
      BY <2>3, <3>1, <3>2
    <3>3. CASE \E seen \in SUBSET Alike(g, p), q \in g.ports \cap OutputPorts :
                 /\ q \notin DOMAIN s.depth /\ q \in NeededBy(g, p)
                 /\ InputPortDepth(g, s, p) = Call([s EXCEPT !.visited = @ \cup seen], q)
      <4>1. PICK seen \in SUBSET Alike(g, p), q \in g.ports \cap OutputPorts :
                 /\ q \notin DOMAIN s.depth /\ q \in NeededBy(g, p)
                 /\ InputPortDepth(g, s, p) = Call([s EXCEPT !.visited = @ \cup seen], q)
        BY <3>3
      <4> DEFINE r == [s EXCEPT !.visited = @ \cup seen]
      <4>2. SearchInv(g, r)
        BY <1>3, VisitKeeps
      <4>3. r.calls = s.calls /\ r.depth = s.depth /\ ~r.loop
        BY <1>1 DEF SearchStates
      <4>4. SearchStep(g, s) = Call(r, q)
        BY <3>1, <4>1
      <4> HIDE DEF r
      <4> QED BY <2>4, <4>1, <4>2, <4>3, <4>4
    <3>4. p \in g.ports \cap InputPorts
      BY <2>1, <2>5
    <3> HIDE DEF p
    <3>5. \/ /\ NeededBy(g, p) \subseteq DOMAIN s.depth
             /\ InputPortDepth(g, s, p)
                  = Return(s, Alike(g, p), Deepest({s.depth[q] + Extra(p) : q \in NeededBy(g, p)}))
          \/ \E seen \in SUBSET Alike(g, p), q \in g.ports \cap OutputPorts :
               /\ q \notin DOMAIN s.depth /\ q \in NeededBy(g, p)
               /\ InputPortDepth(g, s, p) = Call([s EXCEPT !.visited = @ \cup seen], q)
      BY <3>4, InputStep
    <3> QED BY <3>2, <3>3, <3>5
  <2>6. CASE p \in OutputPorts /\ p \notin InputPorts
    <3>1. SearchStep(g, s) = OutputPortDepth(g, s, p)
      BY <2>2, <2>6
    <3>2. CASE /\ NeededBy(g, p) \subseteq DOMAIN s.depth
               /\ OutputPortDepth(g, s, p)
                    = Return(s, Alike(g, p), Deepest({s.depth[q] + Extra(p) : q \in NeededBy(g, p)}))
      BY <2>3, <3>1, <3>2
    <3>3. CASE \E q \in g.ports : /\ q \notin DOMAIN s.depth /\ q \in NeededBy(g, p)
                                  /\ OutputPortDepth(g, s, p) = Call(s, q)
      <4>1. PICK q \in g.ports : /\ q \notin DOMAIN s.depth /\ q \in NeededBy(g, p)
                                  /\ OutputPortDepth(g, s, p) = Call(s, q)
        BY <3>3
      <4> DEFINE r == s
      <4>2. SearchInv(g, r) /\ r.calls = s.calls /\ r.depth = s.depth /\ ~r.loop
        BY <1>1
      <4>3. SearchStep(g, s) = Call(r, q) /\ p \in OutputPorts
        BY <2>6, <3>1, <4>1
      <4> HIDE DEF r, p
      <4> QED BY <2>4, <4>1, <4>2, <4>3
    <3>4. p \in g.ports \cap OutputPorts
      BY <2>1, <2>6
    <3> HIDE DEF p
    <3> QED BY <1>1, <3>2, <3>3, <3>4, OutputStep
  <2> QED BY <2>1, <2>5, <2>6
<1> QED BY <1>2, <1>3

\* Within the steps that are counted the search is over.
LEMMA SearchEnds ==
  ASSUME NEW g, IsGraph(g)
  PROVE  SearchInv(g, PortDepths(g)) /\ IsOver(g, PortDepths(g))
<1> DEFINE N == 4 * Cardinality(Ports) + 1
           F(f) == [n \in 0..N |-> IF n = 0 THEN Start ELSE SearchStep(g, f[n - 1])]
           search == CHOOSE f : f = F(f)
           S == {s \in SearchStates(g) : SearchInv(g, s)}
           step == [x \in (1..N) \X S |-> SearchStep(g, x[2])]
<1>1. PortDepths(g) = search[N]
  BY DEF PortDepths
<1>2. Cardinality(Ports) \in Nat /\ N \in Nat
  BY PortsAreFinite, FS_CardinalityType
<1>3. ASSUME NEW s \in S, IsOver(g, s) PROVE SearchStep(g, s) = s
  <2>1. s.loop \in BOOLEAN
    BY <1>3 DEF SearchStates
  <2>2. CASE s.loop
    BY <2>2 DEF SearchStep
  <2>3. CASE ~s.loop
    <3>1. s.calls = <<>> /\ g.ports \ DOMAIN s.depth = {}
      BY <1>3, <2>3 DEF IsOver
    <3> QED BY <2>3, <3>1 DEF SearchStep, NextPortDepth
  <2> QED BY <2>1, <2>2, <2>3
<1>4. ASSUME NEW s \in S PROVE SearchStep(g, s) \in S
  <2>1. SearchInv(g, SearchStep(g, s))
    <3>1. CASE IsOver(g, s)
      BY <1>3, <3>1
    <3>2. CASE ~IsOver(g, s)
      BY <3>2, SearchAdvances
    <3> QED BY <3>1, <3>2
  <2> QED BY <2>1 DEF SearchInv
<1>5. Start \in S
  <2>1. /\ Start.calls = <<>> /\ Start.depth = [p \in {} |-> 0] /\ Start.visited = {}
        /\ Start.loop = FALSE
    BY DEF Start
  <2>2. DOMAIN Start.depth = {}
    BY <2>1
  <2>3. Start \in SearchStates(g)
    <3>1. [p \in {} |-> 0] \in [{} -> Nat]
      OBVIOUS
    <3>2. <<>> \in Seq(g.ports) /\ {} \in SUBSET g.ports
      BY EmptySeq
    <3>3. [p \in {} |-> 0] \in UNION {[D -> Nat] : D \in SUBSET g.ports}
      BY <3>1, <3>2
    <3> QED BY <3>2, <3>3 DEF Start, SearchStates
  <2>4. Len(Start.calls) = 0
    BY <2>1
  <2>5. CallsInOrder(g, Start)
    BY <2>4 DEF CallsInOrder
  <2>6. VisitsAreCalls(g, Start)
    BY <2>1 DEF VisitsAreCalls
  <2>7. DepthsSoFar(g, Start)
    BY <2>2 DEF DepthsSoFar
  <2> QED BY <2>1, <2>3, <2>5, <2>6, <2>7 DEF SearchInv
<1>6. StaysIn(step, N, S)
  <2> HIDE DEF S, N
  <2> QED BY <1>4 DEF StaysIn
<1>7. PICK f : Follows(f, N, S, Start, step)
  <2> HIDE DEF step, N, S
  <2> QED BY <1>2, <1>5, <1>6, Recursion
<1>8. f = F(f)
  <2>1. ASSUME NEW n \in 0..N
        PROVE  f[n] = IF n = 0 THEN Start ELSE SearchStep(g, f[n - 1])
    <3>1. CASE n = 0
      BY <1>7, <3>1 DEF Follows
    <3>2. CASE n # 0
      <4>1. n \in 1..N /\ n - 1 \in 0..N
        BY <1>2, <3>2
      <4>2. f[n - 1] \in S /\ f[n] = step[<<n, f[n - 1]>>]
        <5> HIDE DEF S, step, N
        <5> QED BY <1>7, <4>1 DEF Follows
      <4>3. step[<<n, f[n - 1]>>] = SearchStep(g, f[n - 1])
        <5> HIDE DEF S, N
        <5> QED BY <4>1, <4>2
      <4> QED BY <3>2, <4>2, <4>3
    <3> QED BY <3>1, <3>2
  <2>2. f \in [0..N -> S]
    <3> HIDE DEF S, step, N
    <3> QED BY <1>7 DEF Follows
  <2> HIDE DEF S, N
  <2> QED BY <2>1, <2>2
<1>9. search = F(search)
  <2> HIDE DEF F
  <2> QED BY <1>8
<1> HIDE DEF search
<1>10. search[0] = Start /\ \A n \in 1..N : search[n] = SearchStep(g, search[n - 1])
  <2> HIDE DEF N
  <2>1. 0 \in 0..N /\ \A n \in 1..N : n \in 0..N /\ n # 0
    BY <1>2
  <2>2. \A n \in 0..N : search[n] = IF n = 0 THEN Start ELSE SearchStep(g, search[n - 1])
    BY <1>9
  <2> QED BY <2>1, <2>2
<1> DEFINE P == {n \in 0..N : /\ search[n] \in S
                              /\ IsOver(g, search[n]) \/ StepsLeft(g, search[n]) <= N - n}
<1>11. 0 \in P
  <2>1. /\ Cardinality(Unsettled(g, Start)) \in Nat /\ Cardinality(Uncalled(g, Start)) \in Nat
        /\ AtOutput(Start) \in {0, 1}
        /\ Cardinality(Unsettled(g, Start)) <= Cardinality(Ports)
        /\ Cardinality(Uncalled(g, Start)) <= Cardinality(Ports)
    BY StepsAreFinite
  <2>2. StepsLeft(g, Start) <= N
    BY <1>2, <2>1 DEF StepsLeft
  <2>3. 0 \in 0..N /\ StepsLeft(g, Start) <= N - 0
    BY <1>2, <2>2
  <2> HIDE DEF S, N
  <2> QED BY <1>5, <1>10, <2>3
<1>12. ASSUME NEW n \in 1..N, n - 1 \in P PROVE n \in P
  <2> DEFINE s == search[n - 1]
  <2>1. s \in S /\ (IsOver(g, s) \/ StepsLeft(g, s) <= N - (n - 1)) /\ search[n] = SearchStep(g, s)
    BY <1>10, <1>12
  <2> HIDE DEF s
  <2>2. SearchStep(g, s) \in S
    BY <1>4, <2>1
  <2>3. CASE IsOver(g, s)
    <3>1. search[n] = s
      BY <1>3, <2>1, <2>3
    <3> QED BY <2>1, <2>3, <3>1
  <2>4. CASE ~IsOver(g, s)
    <3>1. SearchInv(g, s)
      BY <2>1
    <3> HIDE DEF S
    <3>2. SearchStep(g, s).loop \/ StepsLeft(g, SearchStep(g, s)) < StepsLeft(g, s)
      BY <2>4, <3>1, SearchAdvances
    <3>3. CASE SearchStep(g, s).loop
      <4>1. IsOver(g, search[n])
        BY <2>1, <3>3 DEF IsOver
      <4> QED BY <2>1, <2>2, <4>1
    <3>4. CASE StepsLeft(g, SearchStep(g, s)) < StepsLeft(g, s)
      <4>1. StepsLeft(g, s) \in Nat /\ StepsLeft(g, search[n]) \in Nat
        BY StepsAreFinite
      <4>2. StepsLeft(g, search[n]) <= N - n
        BY <1>2, <2>1, <2>4, <3>4, <4>1
      <4> QED BY <2>1, <2>2, <4>2
    <3> QED BY <3>2, <3>3, <3>4
  <2> QED BY <2>3, <2>4
<1>13. N \in P
  <2> HIDE DEF P, N
  <2> QED BY <1>2, <1>11, <1>12, Counting
<1> DEFINE found == search[N]
<1>14. SearchInv(g, found) /\ (IsOver(g, found) \/ StepsLeft(g, found) <= 0)
  <2>1. N - N = 0
    BY <1>2
  <2>2. SearchInv(g, search[N]) /\ (IsOver(g, search[N]) \/ StepsLeft(g, search[N]) <= N - N)
    BY <1>13
  <2> HIDE DEF N
  <2> QED BY <2>1, <2>2
<1> HIDE DEF found
<1>15. ASSUME StepsLeft(g, found) <= 0 PROVE IsOver(g, found)
  <2>1. /\ IsFiniteSet(Unsettled(g, found)) /\ Cardinality(Unsettled(g, found)) \in Nat
        /\ Cardinality(Uncalled(g, found)) \in Nat
        /\ AtOutput(found) \in {0, 1}
    BY StepsAreFinite
  <2>2. Cardinality(Unsettled(g, found)) = 0 /\ AtOutput(found) = 0
    BY <1>15, <2>1 DEF StepsLeft
  <2>3. Unsettled(g, found) = {}
    BY <2>1, <2>2, FS_EmptySet
  <2>4. found.calls = <<>>
    <3>1. SUFFICES ASSUME found.calls # <<>> PROVE FALSE
      OBVIOUS
    <3> DEFINE n == Len(found.calls)
    <3>2. found.calls \in Seq(g.ports) /\ n \in Nat
      BY <1>14, StateFacts DEF SearchInv
    <3>3. n \in 1..n
      BY <3>1, <3>2, EmptySeq
    <3>4. found.calls[n] \in g.ports
      BY <3>2, <3>3, ElementOfSeq
    <3>5. found.calls[n] \notin DOMAIN found.depth
      BY <1>14, <3>3 DEF SearchInv, CallsInOrder
    <3> QED BY <2>3, <3>4, <3>5 DEF Unsettled
  <2> QED BY <2>3, <2>4 DEF IsOver, Unsettled
<1> QED BY <1>1, <1>14, <1>15 DEF found

\* What the search finds: a circle, or the depth of every port.
LEMMA SearchFinds ==
  ASSUME NEW g, IsGraph(g), NEW found, found = PortDepths(g)
  PROVE  /\ found.loop \in BOOLEAN /\ (found.loop => HasCircle(g))
         /\ ~found.loop =>
              /\ found.depth \in [g.ports -> Nat]
              /\ \A p \in g.ports :
                   /\ found.depth[p] = Deepest({found.depth[q] + Extra(p) : q \in NeededBy(g, p)})
                   /\ found.depth[p] <= Cardinality(g.ports)
<1>1. SearchInv(g, found) /\ IsOver(g, found)
  BY SearchEnds
<1>2. /\ found.depth \in [DOMAIN found.depth -> Nat] /\ DOMAIN found.depth \subseteq g.ports
      /\ found.loop \in BOOLEAN
  BY <1>1, StateFacts DEF SearchInv
<1>3. ASSUME ~found.loop PROVE DOMAIN found.depth = g.ports
  BY <1>1, <1>2, <1>3 DEF IsOver
<1>4. ASSUME ~found.loop, NEW p \in g.ports
      PROVE  /\ found.depth[p] = Deepest({found.depth[q] + Extra(p) : q \in NeededBy(g, p)})
             /\ found.depth[p] <= Cardinality(g.ports)
  BY <1>1, <1>3, <1>4 DEF SearchInv, DepthsSoFar
<1>5. found.loop => HasCircle(g)
  BY <1>1 DEF SearchInv
<1> QED BY <1>2, <1>3, <1>4, <1>5

\* Where every port has a depth there is no circle: it has no least depth.
LEMMA DepthsLeaveNoCircle ==
  ASSUME NEW g, IsGraph(g), NEW depth \in [g.ports -> Nat],
         \A p \in g.ports : /\ depth[p] = Deepest({depth[q] + Extra(p) : q \in NeededBy(g, p)})
                            /\ depth[p] <= Cardinality(g.ports)
  PROVE  ~HasCircle(g)
<1> SUFFICES ASSUME NEW S \in SUBSET g.ports, S # {}, \A p \in S : \E q \in S : q \in NeededBy(g, p)
             PROVE  FALSE
  BY DEF HasCircle
<1> DEFINE N == Cardinality(g.ports)
<1>1. N \in Nat
  <2>1. IsFiniteSet(g.ports)
    BY PortsAreFinite, FS_Subset DEF IsGraph
  <2> QED BY <2>1, FS_CardinalityType
<1>2. ASSUME NEW p \in g.ports, NEW q \in NeededBy(g, p) PROVE depth[q] + Extra(p) <= depth[p]
  <2> DEFINE made == {depth[o] + Extra(p) : o \in NeededBy(g, p)}
  <2>1. NeededBy(g, p) \subseteq g.ports /\ Extra(p) \in 0..1
    BY GraphFacts DEF Extra
  <2>2. made \in SUBSET (0..(N + 1))
    <3>1. SUFFICES ASSUME NEW o \in NeededBy(g, p) PROVE depth[o] + Extra(p) \in 0..(N + 1)
      OBVIOUS
    <3>2. o \in g.ports /\ depth[o] \in Nat /\ depth[o] <= N
      BY <2>1
    <3> HIDE DEF N
    <3> QED BY <1>1, <2>1, <3>2
  <2>3. depth[q] + Extra(p) \in made
    OBVIOUS
  <2>4. depth[p] = Deepest(made)
    OBVIOUS
  <2> HIDE DEF made, N
  <2>5. N + 1 \in Nat
    BY <1>1
  <2> QED BY <2>2, <2>3, <2>4, <2>5, DeepestIs
<1> DEFINE depths == {depth[p] : p \in S}
<1>3. depths \in SUBSET Nat /\ depths # {}
  OBVIOUS
<1>4. Min(depths) \in depths /\ \A n \in depths : Min(depths) <= n
  <2> HIDE DEF depths
  <2> QED BY <1>3, LeastIsIn
<1>5. PICK p \in S : \A r \in S : depth[p] <= depth[r]
  <2>1. PICK p \in S : depth[p] = Min(depths)
    BY <1>4
  <2>2. \A r \in S : depth[r] \in depths
    OBVIOUS
  <2> HIDE DEF depths
  <2> QED BY <1>4, <2>1, <2>2
<1>6. ASSUME NEW i \in S, i \in InputPorts, \A r \in S : depth[i] <= depth[r] PROVE FALSE
  <2>1. PICK q \in S : q \in NeededBy(g, i)
    OBVIOUS
  <2>2. depth[q] + 1 <= depth[i]
    BY <1>2, <1>6, <2>1 DEF Extra
  <2>3. depth[i] <= depth[q] /\ depth[i] \in Nat /\ depth[q] \in Nat
    BY <1>6
  <2> QED BY <2>2, <2>3
<1>7. CASE p \in InputPorts
  BY <1>5, <1>6, <1>7
<1>8. CASE p \notin InputPorts
  <2>1. PICK i \in S : i \in NeededBy(g, p)
    OBVIOUS
  <2>2. p \in Ports /\ p \in OutputPorts /\ p \in g.ports
    BY <1>8 DEF IsGraph, Ports
  <2>3. i \in InputPorts
    <3>1. i \in Range(InputsOf[Owner[p]])
      BY <1>8, <2>1, <2>2 DEF NeededBy, IsGraph
    <3> QED BY <2>2, <3>1, InputsAreInputs
  <2>4. depth[i] + 0 <= depth[p]
    BY <1>2, <1>8, <2>1, <2>2 DEF Extra
  <2>5. \A r \in S : depth[i] <= depth[r]
    <3>1. \A r \in S : depth[r] \in Nat
      OBVIOUS
    <3> QED BY <1>5, <2>4, <3>1
  <2> QED BY <1>6, <2>3, <2>5
<1> QED BY <1>7, <1>8

-----------------------------------------------------------------------------
(* The structure of the model: what every change of it keeps.               *)

\* Ports are fed by ports of accessors that are in the model.
SourcesAreInside == \A p \in Ports : source[p] # None => Owner[source[p]] \in InModel

StructureInv == IsTree(children) /\ Wired /\ SourcesAreInside

\* The model is a graph, whose ports need what they are defined by.
LEMMA ModelIsGraph ==
  ASSUME StructureInv
  PROVE  /\ IsGraph(Graph) /\ Graph.ports = PortsInModel
         /\ \A p \in PortsInModel : NeededBy(Graph, p) = Needs(p)
<1> DEFINE g == Graph
<1>1. /\ g.order = PostOrder(children, Host) /\ g.ports = PortsInModel
      /\ \A i \in InputPorts : g.class[i] = Class(i) /\ g.source[i] = GetSourceOutputPort(i)
      /\ \A o \in OutputPorts : g.needed[o] = GetInputPortDependencies(o)
  BY EquivalentPortsAreTheClass DEF Graph
<1>2. Host \in Accessors
  BY StructureAssumption DEF Accessors
<1>3. g.order \in Seq(Accessors) /\ Range(g.order) = InModel /\ InModel \subseteq Accessors
  <2>1. PostOrder(children, Host) \in Seq(Accessors)
    BY <1>2, PostOrderLists DEF StructureInv
  <2>2. Below(children, Host) \subseteq Accessors
    BY <1>2, BelowIsClosed DEF StructureInv
  <2> QED BY <1>1, <2>1, <2>2 DEF InModel, Inside, Below
<1> HIDE DEF g
<1>4. ASSUME NEW a \in InModel \cap Atomics
      PROVE  a \in Accessors /\ PortsOf(a) \subseteq PortsInModel /\ PortsOf(a) \subseteq Ports
  BY <1>3, OwnersOwn DEF PortsInModel
<1>5. ASSUME NEW p \in PortsInModel
      PROVE  p \in Ports /\ Owner[p] \in InModel \cap Atomics /\ p \in PortsOf(Owner[p])
  <2>1. PICK a \in InModel \cap Atomics : p \in PortsOf(a)
    BY DEF PortsInModel
  <2>2. a \in Accessors
    BY <1>4
  <2>3. p \in Ports /\ Owner[p] = a
    BY <2>1, <2>2, OwnersOwn
  <2> QED BY <2>1, <2>3
<1>6. ASSUME NEW p \in Ports, Owner[p] \in InModel, Owner[p] \in Atomics PROVE p \in PortsInModel
  BY <1>6, OwnersOwn DEF PortsInModel
<1>7. \A p \in g.ports : \E k \in DOMAIN g.order : p \in PortsOf(g.order[k])
  <2>1. SUFFICES ASSUME NEW p \in PortsInModel PROVE \E k \in DOMAIN g.order : p \in PortsOf(g.order[k])
    BY <1>1
  <2>2. Owner[p] \in Range(g.order) /\ p \in PortsOf(Owner[p])
    BY <1>3, <1>5
  <2> QED BY <2>2 DEF Range
<1>8. ASSUME NEW p \in PortsInModel
      PROVE  Range(InputsOf[Owner[p]]) \subseteq PortsInModel
  BY <1>4, <1>5 DEF PortsOf
<1>9. ASSUME NEW i \in PortsInModel \cap InputPorts
      PROVE  /\ i \in g.class[i] /\ g.class[i] \subseteq g.ports \cap Range(InputsOf[Owner[i]])
             /\ \A j \in g.class[i] : g.class[j] = g.class[i]
             /\ g.source[i] \in (g.ports \cap OutputPorts) \cup {None}
  <2>1. g.class[i] = Class(i)
    BY <1>1
  <2>2. i \in Class(i) /\ Class(i) \subseteq Range(InputsOf[Owner[i]])
    BY ClassesAreShared
  <2>3. Class(i) \subseteq PortsInModel
    BY <1>8, <2>2
  <2>4. ASSUME NEW j \in Class(i) PROVE g.class[j] = Class(i)
    <3>1. i \in Ports
      BY <1>5
    <3>2. j \in InputPorts
      BY <2>2, <3>1, InputsAreInputs
    <3>3. Class(j) = Class(i)
      BY ClassesAreShared
    <3> QED BY <1>1, <3>2, <3>3
  <2>5. g.source[i] \in (PortsInModel \cap OutputPorts) \cup {None}
    <3> DEFINE o == GetSourceOutputPort(i)
    <3>1. g.source[i] = o
      BY <1>1
    <3>2. \/ o = None
          \/ o \in OutputPorts /\ Owner[o] \in Atomics /\ \E q \in Ports : source[q] = o
      BY SourceIsAnOutput DEF StructureInv
    <3> HIDE DEF o
    <3>3. ASSUME o # None PROVE o \in PortsInModel
      <4>1. PICK q \in Ports : source[q] = o
        BY <3>2, <3>3
      <4>2. Owner[o] \in InModel
        BY <3>3, <4>1 DEF StructureInv, SourcesAreInside
      <4>3. o \in Ports
        BY <3>2, <3>3 DEF Ports
      <4> QED BY <1>6, <3>2, <3>3, <4>2, <4>3
    <3> QED BY <3>1, <3>2, <3>3
  <2> QED BY <1>1, <2>1, <2>2, <2>3, <2>4, <2>5
<1>10. ASSUME NEW o \in PortsInModel \cap OutputPorts
       PROVE  g.needed[o] \subseteq g.ports \cap Range(InputsOf[Owner[o]])
  <2>1. g.needed[o] \subseteq Range(InputsOf[Owner[o]])
    BY <1>1 DEF GetInputPortDependencies
  <2> QED BY <1>1, <1>8, <2>1
<1>11. PortsInModel \subseteq Ports
  BY <1>5
<1>12. IsGraph(g)
  <2>1. g.ports = PortsInModel
    BY <1>1
  <2>2. \A i \in g.ports \cap InputPorts :
          /\ i \in g.class[i] /\ g.class[i] \subseteq g.ports \cap Range(InputsOf[Owner[i]])
          /\ \A j \in g.class[i] : g.class[j] = g.class[i]
          /\ g.source[i] \in (g.ports \cap OutputPorts) \cup {None}
    BY <1>9, <2>1
  <2>3. \A o \in g.ports \cap OutputPorts : g.needed[o] \subseteq g.ports \cap Range(InputsOf[Owner[o]])
    BY <1>10, <2>1
  <2> QED BY <1>3, <1>7, <1>11, <2>1, <2>2, <2>3 DEF IsGraph
<1>13. ASSUME NEW p \in PortsInModel PROVE NeededBy(g, p) = Needs(p)
  <2>1. CASE p \in InputPorts
    <3>1. g.class[p] = Class(p)
      BY <1>1, <2>1
    <3>2. \A e \in Class(p) : g.source[e] = GetSourceOutputPort(e)
      <4>1. Class(p) \subseteq Range(InputsOf[Owner[p]])
        BY <2>1, ClassesAreShared
      <4>2. Class(p) \subseteq InputPorts
        BY <1>5, <4>1, InputsAreInputs
      <4> QED BY <1>1, <4>2
    <3> QED BY <2>1, <3>1, <3>2 DEF NeededBy, Needs
  <2>2. CASE p \notin InputPorts
    <3>1. p \in OutputPorts
      BY <1>5, <2>2 DEF Ports
    <3> QED BY <1>1, <2>2, <3>1 DEF NeededBy, Needs, GetInputPortDependencies
  <2> QED BY <2>1, <2>2
<1> QED BY <1>1, <1>12, <1>13 DEF g

\* A circle in the graph is a loop of the model.
LEMMA CirclesAreLoops ==
  ASSUME StructureInv
  PROVE  HasLoop <=> HasCircle(Graph)
<1> DEFINE needs == UNION {{p} \X Needs(p) : p \in PortsInModel}
<1>1. Graph.ports = PortsInModel /\ \A p \in PortsInModel : NeededBy(Graph, p) = Needs(p)
  BY ModelIsGraph
<1>2. \A p \in PortsInModel : \A q : <<p, q>> \in needs <=> q \in Needs(p)
  OBVIOUS
<1>3. HasLoop <=> \E S \in SUBSET PortsInModel : S # {} /\ \A p \in S : \E q \in S : <<p, q>> \in needs
  BY DEF HasLoop
<1> HIDE DEF needs
<1>4. ASSUME NEW S \in SUBSET PortsInModel
      PROVE  (\A p \in S : \E q \in S : <<p, q>> \in needs)
               <=> (\A p \in S : \E q \in S : q \in NeededBy(Graph, p))
  BY <1>1, <1>2
<1> QED BY <1>1, <1>3, <1>4 DEF HasCircle

\* So the search finds the depths as they are defined, or the loop there is.
LEMMA DepthsAndLoops ==
  ASSUME StructureInv
  PROVE  /\ DepthsAreAsDefined /\ LoopsAreFound
         /\ ~PortDepths(Graph).loop =>
              /\ PortDepths(Graph).depth \in [PortsInModel -> Nat]
              /\ \A p \in PortsInModel : PortDepths(Graph).depth[p] <= Cardinality(Ports)
<1> DEFINE found == PortDepths(Graph)
<1>1. /\ IsGraph(Graph) /\ Graph.ports = PortsInModel
      /\ \A p \in PortsInModel : NeededBy(Graph, p) = Needs(p)
  BY ModelIsGraph
<1>2. /\ found.loop \in BOOLEAN /\ (found.loop => HasCircle(Graph))
      /\ ~found.loop =>
           /\ found.depth \in [Graph.ports -> Nat]
           /\ \A p \in Graph.ports :
                /\ found.depth[p] = Deepest({found.depth[q] + Extra(p) : q \in NeededBy(Graph, p)})
                /\ found.depth[p] <= Cardinality(Graph.ports)
  BY <1>1, SearchFinds
<1> HIDE DEF found
<1>3. ASSUME ~found.loop PROVE ~HasCircle(Graph)
  BY <1>1, <1>2, <1>3, DepthsLeaveNoCircle
<1>4. LoopsAreFound
  BY <1>2, <1>3, CirclesAreLoops DEF LoopsAreFound, found
<1>5. ASSUME ~found.loop PROVE AreDepths(found.depth)
  <2>1. DOMAIN found.depth = PortsInModel
    BY <1>1, <1>2, <1>5
  <2>2. ASSUME NEW p \in PortsInModel PROVE IsDepthOf(p, found.depth)
    <3>1. found.depth[p] = Deepest({found.depth[q] + Extra(p) : q \in Needs(p)})
      BY <1>1, <1>2, <1>5
    <3> QED BY <3>1 DEF IsDepthOf, Extra
  <2> QED BY <2>1, <2>2 DEF AreDepths
<1>6. DepthsAreAsDefined
  BY <1>5 DEF DepthsAreAsDefined, found
<1>7. ASSUME ~found.loop
      PROVE  /\ found.depth \in [PortsInModel -> Nat]
             /\ \A p \in PortsInModel : found.depth[p] <= Cardinality(Ports)
  <2>1. Cardinality(PortsInModel) <= Cardinality(Ports) /\ Cardinality(PortsInModel) \in Nat
    <3>1. PortsInModel \in SUBSET Ports
      BY <1>1 DEF IsGraph
    <3> QED BY <3>1, PortsAreFinite, FS_Subset, FS_CardinalityType
  <2>2. Cardinality(Ports) \in Nat
    BY PortsAreFinite, FS_CardinalityType
  <2>3. found.depth \in [PortsInModel -> Nat] /\ \A p \in PortsInModel : found.depth[p] <= Cardinality(PortsInModel)
    BY <1>1, <1>2, <1>7
  <2>4. ASSUME NEW p \in PortsInModel PROVE found.depth[p] <= Cardinality(Ports)
    <3>1. found.depth[p] \in Nat /\ found.depth[p] <= Cardinality(PortsInModel)
      BY <2>3
    <3> QED BY <2>1, <2>2, <3>1
  <2> QED BY <2>3, <2>4
<1> QED BY <1>4, <1>6, <1>7 DEF found

\* A sequence without one of its members.
LEMMA Removed ==
  ASSUME NEW S, NEW list \in Seq(S), IsInjective(list), NEW k \in 1..Len(list)
  PROVE  /\ RemoveAt(list, k) \in Seq(S) /\ IsInjective(RemoveAt(list, k))
         /\ Range(RemoveAt(list, k)) = Range(list) \ {list[k]}
<1> DEFINE n == Len(list)
           a == SubSeq(list, 1, k - 1)
           b == SubSeq(list, k + 1, n)
           r == a \o b
<1>1. n \in Nat /\ DOMAIN list = 1..n /\ \A j \in 1..n : list[j] \in S
  BY LenProperties, ElementOfSeq
<1>2. a \in Seq(S) /\ Len(a) = k - 1 /\ \A j \in 1..(k - 1) : a[j] = list[j]
  <2>1. 1 \in Int /\ k - 1 \in Int /\ \A j \in 1..(k - 1) : list[j] \in S
    BY <1>1
  <2>2. /\ a \in Seq(S) /\ Len(a) = (IF 1 <= k - 1 THEN (k - 1) - 1 + 1 ELSE 0)
        /\ \A j \in 1..((k - 1) - 1 + 1) : a[j] = list[1 + j - 1]
    BY <2>1, SubSeqProperties
  <2> QED BY <1>1, <2>2
<1>3. b \in Seq(S) /\ Len(b) = n - k /\ \A j \in 1..(n - k) : b[j] = list[k + j]
  <2>1. n \in Int /\ k + 1 \in Int /\ \A j \in (k + 1)..n : list[j] \in S
    BY <1>1
  <2>2. /\ b \in Seq(S) /\ Len(b) = (IF k + 1 <= n THEN n - (k + 1) + 1 ELSE 0)
        /\ \A j \in 1..(n - (k + 1) + 1) : b[j] = list[(k + 1) + j - 1]
    BY <2>1, SubSeqProperties
  <2>3. Len(b) = n - k /\ n - (k + 1) + 1 = n - k
    <3>1. k \in 1..n /\ Len(b) = (IF k + 1 <= n THEN n - (k + 1) + 1 ELSE 0)
      BY <2>2
    <3> HIDE DEF n, b
    <3>2. CASE k + 1 <= n
      BY <1>1, <3>1, <3>2
    <3>3. CASE ~(k + 1 <= n)
      BY <1>1, <3>1, <3>3
    <3> QED BY <3>2, <3>3
  <2>4. \A j \in 1..(n - k) : (k + 1) + j - 1 = k + j
    BY <1>1
  <2> QED BY <2>2, <2>3, <2>4
<1>4. /\ a \o b \in Seq(S) /\ Len(a \o b) = Len(a) + Len(b)
      /\ \A j \in 1..(Len(a) + Len(b)) : (a \o b)[j] = IF j <= Len(a) THEN a[j] ELSE b[j - Len(a)]
  <2> HIDE DEF a, b
  <2> QED BY <1>2, <1>3, ConcatProperties
<1>5. RemoveAt(list, k) = r
  BY DEF RemoveAt
<1> HIDE DEF a, b, n
<1>6. Len(a) + Len(b) = n - 1 /\ Len(a) = k - 1 /\ k \in 1..n
  BY <1>1, <1>2, <1>3 DEF n
<1>7. r \in Seq(S) /\ Len(r) = n - 1
  BY <1>4, <1>6
<1>8. \A j \in 1..(n - 1) : r[j] = IF j <= k - 1 THEN a[j] ELSE b[j - (k - 1)]
  BY <1>4, <1>6, Zenon
<1> HIDE DEF r
<1>9. ASSUME NEW j \in 1..(n - 1)
      PROVE  r[j] = IF j < k THEN list[j] ELSE list[j + 1]
  <2>1. CASE j < k
    <3>1. j <= k - 1 /\ j \in 1..(k - 1)
      BY <1>1, <1>6, <2>1
    <3> QED BY <1>2, <1>8, <2>1, <3>1
  <2>2. CASE ~(j < k)
    <3>1. ~(j <= k - 1) /\ j - (k - 1) \in 1..(n - k) /\ k + (j - (k - 1)) = j + 1
      BY <1>1, <1>6, <2>2
    <3>2. r[j] = b[j - (k - 1)]
      BY <1>8, <3>1
    <3> QED BY <1>3, <2>2, <3>1, <3>2
  <2> QED BY <2>1, <2>2
<1>10. DOMAIN r = 1..(n - 1)
  BY <1>7, LenProperties
<1>11. \A i, j \in 1..n : list[i] = list[j] => i = j
  BY <1>1 DEF IsInjective
<1>12. ASSUME NEW i \in 1..(n - 1), NEW j \in 1..(n - 1), r[i] = r[j] PROVE i = j
  <2>1. i \in 1..n /\ i + 1 \in 1..n /\ j \in 1..n /\ j + 1 \in 1..n
    BY <1>1
  <2>2. CASE i < k /\ j < k
    BY <1>9, <1>11, <1>12, <2>1, <2>2
  <2>3. CASE i < k /\ ~(j < k)
    <3>1. list[i] = list[j + 1]
      BY <1>9, <1>12, <2>3
    <3>2. i = j + 1
      BY <1>11, <2>1, <3>1
    <3> QED BY <1>6, <2>3, <3>2
  <2>4. CASE ~(i < k) /\ j < k
    <3>1. list[i + 1] = list[j]
      BY <1>9, <1>12, <2>4
    <3>2. i + 1 = j
      BY <1>11, <2>1, <3>1
    <3> QED BY <1>6, <2>4, <3>2
  <2>5. CASE ~(i < k) /\ ~(j < k)
    <3>1. list[i + 1] = list[j + 1]
      BY <1>9, <1>12, <2>5
    <3>2. i + 1 = j + 1
      BY <1>11, <2>1, <3>1
    <3> QED BY <3>2
  <2> QED BY <2>2, <2>3, <2>4, <2>5
<1>13. IsInjective(r)
  BY <1>10, <1>12 DEF IsInjective
<1>14. ASSUME NEW j \in 1..(n - 1) PROVE r[j] \in Range(list) \ {list[k]}
  <2>1. j \in 1..n /\ j + 1 \in 1..n
    BY <1>1
  <2>2. CASE j < k
    <3>1. r[j] = list[j] /\ j # k
      BY <1>6, <1>9, <2>2
    <3> QED BY <1>1, <1>6, <1>11, <2>1, <3>1 DEF Range
  <2>3. CASE ~(j < k)
    <3>1. r[j] = list[j + 1] /\ j + 1 # k
      BY <1>6, <1>9, <2>3
    <3> QED BY <1>1, <1>6, <1>11, <2>1, <3>1 DEF Range
  <2> QED BY <2>2, <2>3
<1>15. ASSUME NEW j \in 1..n, j # k PROVE \E i \in 1..(n - 1) : r[i] = list[j]
  <2>1. CASE j < k
    <3>1. j \in 1..(n - 1)
      BY <1>1, <1>6, <2>1
    <3> QED BY <1>9, <2>1, <3>1
  <2>2. CASE ~(j < k)
    <3>1. j - 1 \in 1..(n - 1) /\ ~(j - 1 < k) /\ (j - 1) + 1 = j
      BY <1>1, <1>6, <1>15, <2>2
    <3> QED BY <1>9, <3>1
  <2> QED BY <2>1, <2>2
<1>16. Range(r) = Range(list) \ {list[k]}
  <2>1. Range(r) \subseteq Range(list) \ {list[k]}
    BY <1>10, <1>14 DEF Range
  <2>2. Range(list) \ {list[k]} \subseteq Range(r)
    <3>1. SUFFICES ASSUME NEW j \in 1..n, list[j] # list[k] PROVE list[j] \in Range(r)
      BY <1>1 DEF Range
    <3>2. PICK i \in 1..(n - 1) : r[i] = list[j]
      BY <1>15, <3>1
    <3> QED BY <1>10, <3>2 DEF Range
  <2> QED BY <2>1, <2>2
<1> QED BY <1>5, <1>7, <1>13, <1>16

\* The model begins as constructors make it.
LEMMA StructureInit == ASSUME Init PROVE StructureInv
<1>1. IsTree(children)
  BY StructureAssumption DEF Init, IsTree
<1>2. Wired /\ SourcesAreInside
  BY StructureAssumption DEF Init, Wired, SourcesAreInside
<1> QED BY <1>1, <1>2 DEF StructureInv

\* A child is added: no one leaves the model.
LEMMA AddChildKeepsStructure ==
  ASSUME StructureInv, NEW x \in Accessors \ {Host}, AddChild(x)
  PROVE  StructureInv'
<1> DEFINE c == Parent[x]
<1>1. /\ c \in Composites /\ children \in [Composites -> Seq(Accessors \ {Host})]
      /\ x \notin Range(children[c])
      /\ children' = [children EXCEPT ![c] = Append(@, x)] /\ source' = source
  BY StructureAssumption DEF AddChild, StructureInv, IsTree
<1> HIDE DEF c
<1> DEFINE list == children[c]
           n == Len(list)
<1>2. list \in Seq(Accessors \ {Host}) /\ n \in Nat /\ DOMAIN list = 1..n
  BY <1>1, LenProperties
<1> HIDE DEF list, n
<1>3. /\ Append(list, x) \in Seq(Accessors \ {Host}) /\ Len(Append(list, x)) = n + 1
      /\ Append(list, x)[n + 1] = x
      /\ \A j \in 1..n : Append(list, x)[j] = list[j]
  BY <1>2, AppendProperties DEF n
<1>4. DOMAIN Append(list, x) = 1..(n + 1)
  BY <1>3, LenProperties
<1>5. \A j \in 1..(n + 1) : j \in 1..n \/ j = n + 1
  BY <1>2
<1>6. Range(Append(list, x)) = Range(list) \cup {x}
  <2>1. \A j \in 1..n : j \in 1..(n + 1)
    BY <1>2
  <2>2. n + 1 \in 1..(n + 1)
    BY <1>2
  <2>3. ASSUME NEW y \in Range(Append(list, x)) PROVE y \in Range(list) \cup {x}
    BY <1>2, <1>3, <1>4, <1>5, <2>3 DEF Range
  <2>4. ASSUME NEW y \in Range(list) PROVE y \in Range(Append(list, x))
    BY <1>2, <1>3, <1>4, <2>1 DEF Range
  <2>5. x \in Range(Append(list, x))
    BY <1>3, <1>4, <2>2 DEF Range
  <2> QED BY <2>3, <2>4, <2>5
<1>7. IsInjective(Append(list, x))
  <2>1. \A i, j \in 1..n : list[i] = list[j] => i = j
    BY <1>1, <1>2 DEF StructureInv, IsTree, IsInjective, list
  <2>2. \A j \in 1..n : list[j] # x
    BY <1>1, <1>2 DEF Range, list
  <2>3. ASSUME NEW i \in 1..(n + 1), NEW j \in 1..(n + 1), Append(list, x)[i] = Append(list, x)[j]
        PROVE  i = j
    BY <1>3, <1>5, <2>1, <2>2, <2>3
  <2> QED BY <1>4, <2>3 DEF IsInjective
<1>8. /\ children' \in [Composites -> Seq(Accessors \ {Host})]
      /\ children'[c] = Append(list, x)
      /\ \A d \in Composites : d # c => children'[d] = children[d]
  BY <1>1, <1>3 DEF list
<1>9. IsTree(children')
  <2>1. SUFFICES ASSUME NEW d \in Composites
                 PROVE  IsInjective(children'[d]) /\ \A y \in Range(children'[d]) : Parent[y] = d
    BY <1>8 DEF IsTree
  <2>2. CASE d = c
    <3>1. \A y \in Range(list) : Parent[y] = c
      BY <1>1 DEF StructureInv, IsTree, list
    <3> QED BY <1>6, <1>7, <1>8, <2>2, <3>1 DEF c
  <2>3. CASE d # c
    BY <1>8, <2>3 DEF StructureInv, IsTree
  <2> QED BY <2>2, <2>3
<1>10. InModel \subseteq InModel'
  <2>1. Host \in Accessors
    BY StructureAssumption DEF Accessors
  <2>2. Host \in Below(children', Host) /\ IsClosed(children', Below(children', Host))
    BY <1>9, <2>1, BelowIsClosed
  <2>3. \A d \in Composites : Range(children[d]) \subseteq Range(children'[d])
    BY <1>6, <1>8 DEF list
  <2>4. IsClosed(children, Below(children', Host))
    BY <2>2, <2>3 DEF IsClosed
  <2>5. Below(children, Host) \subseteq Below(children', Host)
    BY <2>1, <2>2, <2>4, BelowIsLeast DEF StructureInv
  <2> QED BY <2>5 DEF InModel, Inside, Below
<1>11. Wired'
  BY <1>1 DEF StructureInv, Wired
<1>12. SourcesAreInside'
  BY <1>1, <1>10 DEF StructureInv, SourcesAreInside
<1> QED BY <1>9, <1>11, <1>12 DEF StructureInv

\* A child is removed with all that is in it: who stays is where it was, and no
\* port stays connected to a port of the ones who are gone.
LEMMA RemoveChildKeepsStructure ==
  ASSUME StructureInv, NEW x \in Accessors \ {Host}, RemoveChild(x)
  PROVE  StructureInv'
<1> DEFINE c == Parent[x]
           gone == Inside(x)
           goneports == UNION {PortsOf(y) : y \in gone}
<1>1. c \in Composites /\ children \in [Composites -> Seq(Accessors \ {Host})]
  BY StructureAssumption DEF StructureInv, IsTree
<1>2. PICK k \in DOMAIN children[c] :
        /\ children[c][k] = x
        /\ children' = [d \in Composites |->
              IF d \in gone THEN <<>>
              ELSE IF d = c THEN RemoveAt(children[d], k) ELSE children[d]]
        /\ source' = DisconnectAll(goneports)
  BY DEF RemoveChild
<1>3. gone = Below(children, x) /\ x \in gone /\ gone \subseteq Accessors /\ IsClosed(children, gone)
  <2>1. gone = Below(children, x)
    BY DEF Inside, Below
  <2> QED BY <2>1, BelowIsClosed DEF StructureInv
<1> HIDE DEF gone, goneports, c
<1>4. /\ RemoveAt(children[c], k) \in Seq(Accessors \ {Host}) /\ IsInjective(RemoveAt(children[c], k))
      /\ Range(RemoveAt(children[c], k)) = Range(children[c]) \ {x}
  <2>1. children[c] \in Seq(Accessors \ {Host}) /\ IsInjective(children[c])
    BY <1>1 DEF StructureInv, IsTree
  <2>2. k \in 1..Len(children[c])
    BY <1>2, <2>1, LenProperties
  <2>3. /\ RemoveAt(children[c], k) \in Seq(Accessors \ {Host}) /\ IsInjective(RemoveAt(children[c], k))
        /\ Range(RemoveAt(children[c], k)) = Range(children[c]) \ {children[c][k]}
    BY <2>1, <2>2, Removed
  <2> QED BY <1>2, <2>3
<1>5. ASSUME NEW d \in Composites
      PROVE  /\ children'[d] \in Seq(Accessors \ {Host}) /\ IsInjective(children'[d])
             /\ Range(children'[d]) \subseteq Range(children[d])
             /\ d \notin gone => Range(children[d]) \subseteq Range(children'[d]) \cup {x}
  <2>1. CASE d \in gone
    <3>1. children'[d] = <<>>
      BY <1>2, <2>1
    <3>2. <<>> \in Seq(Accessors \ {Host}) /\ Range(<<>>) = {} /\ IsInjective(<<>>)
      BY EmptySeq DEF Range, IsInjective
    <3> QED BY <2>1, <3>1, <3>2
  <2>2. CASE d \notin gone /\ d = c
    <3>1. children'[d] = RemoveAt(children[c], k)
      BY <1>2, <2>2
    <3> QED BY <1>4, <2>2, <3>1
  <2>3. CASE d \notin gone /\ d # c
    <3>1. children'[d] = children[d]
      BY <1>2, <2>3
    <3> QED BY <3>1 DEF StructureInv, IsTree
  <2> QED BY <2>1, <2>2, <2>3
<1>6. IsTree(children')
  <2>1. children' \in [Composites -> Seq(Accessors \ {Host})]
    <3>1. DOMAIN children' = Composites /\ children' = [d \in Composites |-> children'[d]]
      BY <1>2
    <3> QED BY <1>5, <3>1
  <2>2. ASSUME NEW d \in Composites, NEW y \in Range(children'[d]) PROVE Parent[y] = d
    <3>1. y \in Range(children[d])
      BY <1>5, <2>2
    <3> QED BY <3>1 DEF StructureInv, IsTree
  <2> QED BY <1>5, <2>1, <2>2 DEF IsTree
<1>7. InModel \subseteq InModel' \cup gone
  <2> DEFINE S == Below(children', Host) \cup gone
  <2>1. Host \in Accessors
    BY StructureAssumption DEF Accessors
  <2>2. Host \in Below(children', Host) /\ IsClosed(children', Below(children', Host))
    BY <1>6, <2>1, BelowIsClosed
  <2>3. IsClosed(children, S)
    <3>1. SUFFICES ASSUME NEW d \in S \cap Composites PROVE Range(children[d]) \subseteq S
      BY DEF IsClosed
    <3>2. CASE d \in gone
      BY <1>3, <3>2 DEF IsClosed
    <3>3. CASE d \notin gone
      <4>1. Range(children'[d]) \subseteq Below(children', Host)
        BY <2>2, <3>3 DEF IsClosed
      <4>2. Range(children[d]) \subseteq Range(children'[d]) \cup {x}
        BY <1>5, <3>3
      <4> QED BY <1>3, <4>1, <4>2
    <3> QED BY <3>2, <3>3
  <2>4. Host \in S
    BY <2>2
  <2> HIDE DEF S
  <2>5. Below(children, Host) \subseteq S
    BY <2>1, <2>3, <2>4, BelowIsLeast DEF StructureInv
  <2> QED BY <2>5 DEF InModel, Inside, Below, S
<1>8. ASSUME NEW p \in Ports
      PROVE  \/ source'[p] = None
             \/ source'[p] = source[p] /\ source[p] \notin goneports
  BY <1>2 DEF DisconnectAll
<1>9. Wired'
  <2>1. source' \in [Ports -> Ports \cup {None}]
    <3>1. \A p \in Ports : source[p] \in Ports \cup {None}
      BY DEF StructureInv, Wired
    <3> QED BY <1>2, <3>1 DEF DisconnectAll
  <2>2. ASSUME NEW p \in Ports, source'[p] # None PROVE <<source'[p], p>> \in Wires
    <3>1. source'[p] = source[p]
      BY <1>8, <2>2
    <3> QED BY <2>2, <3>1 DEF StructureInv, Wired
  <2> QED BY <2>1, <2>2 DEF Wired
<1>10. SourcesAreInside'
  <2>1. SUFFICES ASSUME NEW p \in Ports, source'[p] # None PROVE Owner[source'[p]] \in InModel'
    BY DEF SourcesAreInside
  <2>2. source'[p] = source[p] /\ source[p] \notin goneports
    BY <1>8, <2>1
  <2>3. Owner[source[p]] \in InModel /\ source[p] \in Ports
    BY <2>1, <2>2 DEF StructureInv, SourcesAreInside, Wired
  <2>4. source[p] \in PortsOf(Owner[source[p]])
    BY <2>3, OwnersOwn
  <2>5. Owner[source[p]] \notin gone
    BY <2>2, <2>4 DEF goneports
  <2> QED BY <1>7, <2>2, <2>3, <2>5
<1> QED BY <1>6, <1>9, <1>10 DEF StructureInv

\* A connection is made between accessors of the model.
LEMMA ConnectKeepsStructure ==
  ASSUME StructureInv, NEW w \in Wires, Connect(w[1], w[2])
  PROVE  StructureInv'
<1>1. /\ children' = children /\ source' = [source EXCEPT ![w[2]] = w[1]] /\ Owner[w[1]] \in InModel
  BY DEF Connect
<1>2. w[1] \in Ports /\ w[2] \in Ports /\ <<w[1], w[2]>> = w
  BY WiresAssumption
<1>3. source \in [Ports -> Ports \cup {None}]
  BY DEF StructureInv, Wired
<1>4. InModel' = InModel
  BY <1>1 DEF InModel, Inside
<1>5. Wired'
  BY <1>1, <1>2, <1>3 DEF StructureInv, Wired
<1>6. SourcesAreInside'
  BY <1>1, <1>2, <1>3, <1>4 DEF StructureInv, SourcesAreInside
<1> QED BY <1>1, <1>5, <1>6 DEF StructureInv

\* No other step touches the tree or a connection.
LEMMA StructureStep ==
  ASSUME StructureInv, [Next]_vars
  PROVE  StructureInv'
<1>1. ASSUME UNCHANGED <<children, source>> PROVE StructureInv'
  <2>1. InModel' = InModel
    BY <1>1 DEF InModel, Inside
  <2> QED BY <1>1, <2>1 DEF StructureInv, Wired, SourcesAreInside
<1>2. ASSUME NEW x \in Accessors \ {Host}, AddChild(x) PROVE StructureInv'
  BY <1>2, AddChildKeepsStructure
<1>3. ASSUME NEW x \in Accessors \ {Host}, RemoveChild(x) PROVE StructureInv'
  BY <1>3, RemoveChildKeepsStructure
<1>4. ASSUME NEW w \in Wires, Connect(w[1], w[2]) PROVE StructureInv'
  BY <1>4, ConnectKeepsStructure
<1>5. ASSUME NEW dep \in Removable, RemoveDependency(dep[1], dep[2]) PROVE StructureInv'
  BY <1>1, <1>5 DEF RemoveDependency
<1>6. CASE Setup
  BY <1>1, <1>6 DEF Setup, structure
<1>7. ASSUME NEW c \in Composites, ChildrenChanged(c) PROVE StructureInv'
  BY <1>1, <1>7 DEF ChildrenChanged, structure
<1>8. CASE UpdateModel
  BY <1>1, <1>8 DEF UpdateModel, structure
<1>9. CASE UNCHANGED vars
  BY <1>1, <1>9 DEF vars, structure
<1> QED BY <1>2, <1>3, <1>4, <1>5, <1>6, <1>7, <1>8, <1>9 DEF Next

\* In every state the accessors form a tree, connections are as they may be made,
\* and no port in the model is fed by one that is not (AddChild, RemoveChild).
THEOREM StructureHolds == Spec => []StructureInv
<1>1. Init => StructureInv
  BY StructureInit
<1>2. StructureInv /\ [Next]_vars => StructureInv'
  BY StructureStep
<1> QED BY <1>1, <1>2, PTL DEF Spec

\* Whatever the model has become, the depths the search finds are those HostImpl.h
\* defines, wherever it began and whatever it had found before.
THEOREM DepthsAreRight == Spec => []DepthsAreAsDefined
<1>1. StructureInv => DepthsAreAsDefined
  BY DepthsAndLoops
<1> QED BY <1>1, StructureHolds, PTL

\* It throws if and only if ports need one another in a circle.
THEOREM EveryLoopIsFound == Spec => []LoopsAreFound
<1>1. StructureInv => LoopsAreFound
  BY DepthsAndLoops
<1> QED BY <1>1, StructureHolds, PTL

-----------------------------------------------------------------------------
(* The order of the accessors and their priorities.                         *)

\* After n accessors of those visited: they are all listed, once, by their depth;
\* a composite before those of its depth that were visited before it.
Ordering(order, visited, at, n) ==
  /\ order \in Seq(Accessors) /\ Len(order) = n
  /\ \A k \in 1..n : \E j \in 1..n : order[k] = visited[j]
  /\ \A j \in 1..n : \E k \in 1..n : order[k] = visited[j]
  /\ \A j, k \in 1..n : order[j] = order[k] => j = k
  /\ \A j, k \in 1..n : j < k => at[order[j]] <= at[order[k]]
  /\ \A i, j \in 1..n : i < j /\ visited[j] \in Composites /\ at[visited[i]] = at[visited[j]]
       => \A p, q \in 1..n : order[p] = visited[j] /\ order[q] = visited[i] => p < q

LEMMA ListedStep ==
  ASSUME NEW visited \in Seq(Accessors), NEW at, \A j \in 1..Len(visited) : at[visited[j]] \in Nat,
         \A j, k \in 1..Len(visited) : visited[j] = visited[k] => j = k,
         NEW n \in 1..Len(visited), NEW order, Ordering(order, visited, at, n - 1)
  PROVE  Ordering(Listed(order, visited[n], at), visited, at, n)
<1> DEFINE x == visited[n]
           behind == {k \in DOMAIN order : Before(x, order[k], at)}
           m == Min(behind \cup {Len(order) + 1})
           new == Listed(order, x, at)
<1>1. /\ Len(visited) \in Nat /\ n \in Nat /\ n - 1 \in Nat
      /\ order \in Seq(Accessors) /\ Len(order) = n - 1 /\ DOMAIN order = 1..(n - 1)
      /\ x \in Accessors /\ at[x] \in Nat
  BY LenProperties, ElementOfSeq DEF Ordering
<1>2. \A k \in 1..(n - 1) : at[order[k]] \in Nat
  <2>1. SUFFICES ASSUME NEW k \in 1..(n - 1) PROVE at[order[k]] \in Nat
    OBVIOUS
  <2>2. PICK j \in 1..(n - 1) : order[k] = visited[j]
    BY DEF Ordering
  <2>3. j \in 1..Len(visited)
    BY <1>1
  <2> QED BY <2>2, <2>3
<1>3. m \in behind \cup {n} /\ \A k \in behind : m <= k
  <2>1. behind \cup {Len(order) + 1} \in SUBSET Nat /\ Len(order) + 1 = n
    BY <1>1
  <2> HIDE DEF behind
  <2>2. m \in behind \cup {Len(order) + 1} /\ \A k \in behind \cup {Len(order) + 1} : m <= k
    BY <2>1, LeastIsIn
  <2> QED BY <2>1, <2>2
<1>4. m \in 1..n
  BY <1>1, <1>3
<1>5. new = Put(order, <<x>>, m)
  BY DEF Listed, InsertAt, Put
<1> HIDE DEF new, m
<1>6. /\ new \in Seq(Accessors) /\ Len(new) = n /\ new[m] = x
      /\ \A k \in 1..(m - 1) : new[k] = order[k]
      /\ \A k \in m..(n - 1) : new[k + 1] = order[k]
  <2> DEFINE one == <<x>>
  <2>1. one \in Seq(Accessors) /\ Len(one) = 1 /\ one[1] = x
    BY <1>1
  <2>2. m \in 1..(Len(order) + 1) /\ m \in Nat
    BY <1>1, <1>4
  <2> HIDE DEF one
  <2>3. /\ Put(order, one, m) \in Seq(Accessors)
        /\ Len(Put(order, one, m)) = Len(order) + Len(one)
        /\ \A k \in 1..(m - 1) : Put(order, one, m)[k] = order[k]
        /\ \A k \in 1..Len(one) : Put(order, one, m)[m - 1 + k] = one[k]
        /\ \A k \in m..Len(order) : Put(order, one, m)[Len(one) + k] = order[k]
    <3>0. order \in Seq(Accessors) /\ one \in Seq(Accessors) /\ m \in 1..(Len(order) + 1)
      BY <1>1, <2>1, <2>2
    <3>1. Put(order, one, m) \in Seq(Accessors)
      BY <3>0, Inserted
    <3>2. Len(Put(order, one, m)) = Len(order) + Len(one)
      BY <3>0, Inserted
    <3>3. \A k \in 1..(m - 1) : Put(order, one, m)[k] = order[k]
      BY <3>0, Inserted
    <3>4. \A k \in 1..Len(one) : Put(order, one, m)[m - 1 + k] = one[k]
      BY <3>0, Inserted
    <3>5. \A k \in m..Len(order) : Put(order, one, m)[Len(one) + k] = order[k]
      BY <3>0, Inserted
    <3> QED BY <3>1, <3>2, <3>3, <3>4, <3>5
  <2>4. new = Put(order, one, m)
    BY <1>5 DEF one
  <2>5. new \in Seq(Accessors) /\ Len(new) = n
    BY <1>1, <2>1, <2>3, <2>4
  <2>6. 1 \in 1..Len(one) /\ m - 1 + 1 = m
    BY <2>1, <2>2
  <2>7. new[m] = x
    BY <2>1, <2>3, <2>4, <2>6
  <2>8. \A k \in m..(n - 1) : new[k + 1] = order[k]
    <3>1. SUFFICES ASSUME NEW k \in m..(n - 1) PROVE new[k + 1] = order[k]
      OBVIOUS
    <3>2. k \in m..Len(order) /\ Len(one) + k = k + 1
      BY <1>1, <2>1, <2>2
    <3> QED BY <2>3, <2>4, <3>2
  <2> QED BY <2>3, <2>4, <2>5, <2>7, <2>8
<1> DEFINE A(k) == k \in 1..(n - 1) /\ k < m /\ new[k] = order[k]
           B(k) == k = m /\ new[k] = x
           C(k) == k - 1 \in 1..(n - 1) /\ k > m /\ new[k] = order[k - 1]
<1>7. ASSUME NEW k \in 1..n PROVE A(k) \/ B(k) \/ C(k)
  <2>1. CASE k < m
    <3>1. k \in 1..(m - 1) /\ k \in 1..(n - 1)
      BY <1>1, <1>4, <2>1
    <3> QED BY <1>6, <2>1, <3>1
  <2>2. CASE k = m
    BY <1>6, <2>2
  <2>3. CASE k > m
    <3>1. k - 1 \in m..(n - 1) /\ k - 1 \in 1..(n - 1) /\ (k - 1) + 1 = k
      BY <1>1, <1>4, <2>3
    <3>2. new[(k - 1) + 1] = order[k - 1]
      BY <1>6, <3>1
    <3> QED BY <2>3, <3>1, <3>2
  <2> QED BY <1>4, <2>1, <2>2, <2>3
<1>8. ASSUME NEW k \in 1..(n - 1)
      PROVE  \E h \in 1..n : new[h] = order[k]
  <2>1. CASE k < m
    <3>1. k \in 1..(m - 1) /\ k \in 1..n
      BY <1>1, <1>4, <2>1
    <3> QED BY <1>6, <3>1
  <2>2. CASE ~(k < m)
    <3>1. k \in m..(n - 1) /\ k + 1 \in 1..n
      BY <1>1, <1>4, <2>2
    <3> QED BY <1>6, <3>1
  <2> QED BY <2>1, <2>2
<1>9. \A k \in 1..(n - 1) : order[k] # x
  <2>1. SUFFICES ASSUME NEW k \in 1..(n - 1), order[k] = x PROVE FALSE
    OBVIOUS
  <2>2. PICK j \in 1..(n - 1) : order[k] = visited[j]
    BY DEF Ordering
  <2>3. j \in 1..Len(visited) /\ j # n
    BY <1>1
  <2> QED BY <2>1, <2>2, <2>3
<1>10. \A k \in 1..n : \E j \in 1..n : new[k] = visited[j]
  <2>1. SUFFICES ASSUME NEW k \in 1..n PROVE \E j \in 1..n : new[k] = visited[j]
    OBVIOUS
  <2>2. ASSUME NEW h \in 1..(n - 1), new[k] = order[h] PROVE \E j \in 1..n : new[k] = visited[j]
    <3>1. PICK j \in 1..(n - 1) : order[h] = visited[j]
      BY DEF Ordering
    <3>2. j \in 1..n
      BY <1>1
    <3> QED BY <2>2, <3>1, <3>2
  <2>3. n \in 1..n
    BY <1>1
  <2> QED BY <1>7, <2>2, <2>3
<1>11. \A j \in 1..n : \E k \in 1..n : new[k] = visited[j]
  <2>1. SUFFICES ASSUME NEW j \in 1..n PROVE \E k \in 1..n : new[k] = visited[j]
    OBVIOUS
  <2>2. CASE j = n
    BY <1>4, <1>6, <2>2
  <2>3. CASE j # n
    <3>1. j \in 1..(n - 1)
      BY <1>1, <2>3
    <3>2. PICK k \in 1..(n - 1) : order[k] = visited[j]
      BY <3>1 DEF Ordering
    <3> QED BY <1>8, <3>2
  <2> QED BY <2>2, <2>3
<1>12. \A j, k \in 1..(n - 1) : order[j] = order[k] => j = k
  BY DEF Ordering
<1>13. \A j, k \in 1..(n - 1) : j < k => at[order[j]] <= at[order[k]]
  BY DEF Ordering
<1>14. ASSUME NEW j \in 1..n, NEW k \in 1..n, new[j] = new[k] PROVE j = k
  <2>1. (A(j) \/ B(j) \/ C(j)) /\ (A(k) \/ B(k) \/ C(k))
    BY <1>7
  <2>2. CASE A(j) /\ A(k)
    BY <1>12, <1>14, <2>2
  <2>3. CASE C(j) /\ C(k)
    <3>1. j - 1 = k - 1
      BY <1>12, <1>14, <2>3
    <3> QED BY <3>1
  <2>4. CASE A(j) /\ C(k)
    <3>1. j = k - 1
      BY <1>12, <1>14, <2>4
    <3> QED BY <1>4, <2>4, <3>1
  <2>5. CASE C(j) /\ A(k)
    <3>1. k = j - 1
      BY <1>12, <1>14, <2>5
    <3> QED BY <1>4, <2>5, <3>1
  <2>6. CASE B(j) /\ B(k)
    BY <2>6
  <2>7. CASE B(j) /\ (A(k) \/ C(k))
    BY <1>9, <1>14, <2>7
  <2>8. CASE (A(j) \/ C(j)) /\ B(k)
    BY <1>9, <1>14, <2>8
  <2> HIDE DEF A, B, C
  <2> QED BY <2>1, <2>2, <2>3, <2>4, <2>5, <2>6, <2>7, <2>8
<1>15. ASSUME NEW k \in 1..(n - 1), k < m PROVE at[order[k]] <= at[x]
  <2>1. k \notin behind
    BY <1>3, <1>4, <1>15
  <2>2. ~(at[x] < at[order[k]])
    BY <1>1, <2>1 DEF Before
  <2> QED BY <1>1, <1>2, <2>2
<1>16. ASSUME NEW k \in 1..(n - 1), m <= k PROVE at[x] <= at[order[k]]
  <2>1. m \in behind
    BY <1>1, <1>3, <1>16
  <2>2. m \in 1..(n - 1) /\ at[x] <= at[order[m]]
    BY <1>1, <1>2, <2>1 DEF Before
  <2>3. CASE m = k
    BY <2>2, <2>3
  <2>4. CASE m # k
    <3>1. at[order[m]] <= at[order[k]]
      BY <1>13, <1>16, <2>2, <2>4
    <3> QED BY <1>1, <1>2, <2>2, <3>1
  <2> QED BY <2>3, <2>4
<1>17. ASSUME NEW j \in 1..n, NEW k \in 1..n, j < k PROVE at[new[j]] <= at[new[k]]
  <2>1. (A(j) \/ B(j) \/ C(j)) /\ (A(k) \/ B(k) \/ C(k))
    BY <1>7
  <2>2. CASE A(j) /\ A(k)
    BY <1>13, <1>17, <2>2
  <2>3. CASE C(j) /\ C(k)
    BY <1>13, <1>17, <2>3
  <2>4. CASE A(j) /\ C(k)
    <3>1. j < k - 1 \/ j = k - 1
      BY <1>4, <2>4
    <3>2. CASE j < k - 1
      BY <1>13, <2>4, <3>2
    <3>3. CASE j = k - 1
      BY <1>2, <2>4, <3>3
    <3> QED BY <3>1, <3>2, <3>3
  <2>5. CASE C(j) /\ (A(k) \/ B(k))
    BY <1>4, <1>17, <2>5
  <2>6. CASE B(j) /\ (B(k) \/ A(k))
    BY <1>4, <1>17, <2>6
  <2>7. CASE B(j) /\ C(k)
    <3>1. m <= k - 1
      BY <1>4, <2>7
    <3> QED BY <1>16, <2>7, <3>1
  <2>8. CASE A(j) /\ B(k)
    BY <1>15, <2>8
  <2> HIDE DEF A, B, C
  <2> QED BY <2>1, <2>2, <2>3, <2>4, <2>5, <2>6, <2>7, <2>8
<1>18. ASSUME NEW i \in 1..n, NEW j \in 1..n, i < j, visited[j] \in Composites,
              at[visited[i]] = at[visited[j]],
              NEW p \in 1..n, NEW q \in 1..n, new[p] = visited[j], new[q] = visited[i]
       PROVE  p < q
  <2>1. i \in 1..(n - 1) /\ i \in 1..Len(visited) /\ j \in 1..Len(visited) /\ n \in 1..Len(visited)
    BY <1>1, <1>18
  <2>2. (A(p) \/ B(p) \/ C(p)) /\ (A(q) \/ C(q))
    <3>1. ~B(q)
      BY <1>1, <1>18, <2>1
    <3> QED BY <1>7, <3>1
  <2>3. CASE j = n
    <3>1. p = m
      BY <1>4, <1>6, <1>14, <1>18, <2>3
    <3>2. CASE A(q)
      <4>1. Before(x, order[q], at)
        BY <1>18, <2>3, <3>2 DEF Before
      <4>2. q \in behind
        BY <1>1, <3>2, <4>1
      <4> QED BY <1>3, <1>4, <3>2, <4>2
    <3>3. CASE C(q)
      BY <3>1, <3>3
    <3> QED BY <2>2, <3>2, <3>3
  <2>4. CASE j # n
    <3>1. j \in 1..(n - 1)
      BY <1>1, <2>4
    <3>2. ~B(p)
      BY <1>18, <2>1, <2>4
    <3>3. \A h, k \in 1..(n - 1) : order[h] = visited[j] /\ order[k] = visited[i] => h < k
      BY <1>18, <2>1, <3>1 DEF Ordering
    <3>4. CASE A(p) /\ A(q)
      BY <1>18, <3>3, <3>4
    <3>5. CASE C(p) /\ C(q)
      <4>1. p - 1 < q - 1
        BY <1>18, <3>3, <3>5
      <4> QED BY <4>1
    <3>6. CASE A(p) /\ C(q)
      BY <1>4, <3>6
    <3>7. CASE C(p) /\ A(q)
      <4>1. p - 1 < q
        BY <1>18, <3>3, <3>7
      <4> QED BY <1>4, <3>7, <4>1
    <3> HIDE DEF A, B, C
    <3> QED BY <2>2, <3>2, <3>4, <3>5, <3>6, <3>7
  <2> QED BY <2>3, <2>4
<1>19. Ordering(new, visited, at, n)
  <2> HIDE DEF x
  <2> QED BY <1>6, <1>10, <1>11, <1>14, <1>17, <1>18 DEF Ordering
<1> QED BY <1>19 DEF new

LEMMA ListedType ==
  ASSUME NEW order \in Seq(Accessors), NEW x \in Accessors, NEW at
  PROVE  Listed(order, x, at) \in Seq(Accessors)
<1> DEFINE behind == {k \in DOMAIN order : Before(x, order[k], at)}
           m == Min(behind \cup {Len(order) + 1})
<1>1. Len(order) \in Nat /\ DOMAIN order = 1..Len(order)
  BY LenProperties
<1>2. m \in behind \cup {Len(order) + 1}
  <2>1. behind \cup {Len(order) + 1} \in SUBSET Nat
    BY <1>1
  <2> HIDE DEF behind
  <2> QED BY <2>1, LeastIsIn
<1>3. m \in 1..(Len(order) + 1)
  BY <1>1, <1>2
<1>4. Listed(order, x, at) = Put(order, <<x>>, m)
  BY DEF Listed, InsertAt, Put
<1> DEFINE one == <<x>>
<1>5. one \in Seq(Accessors)
  OBVIOUS
<1> HIDE DEF m, one
<1>6. Put(order, one, m) \in Seq(Accessors)
  BY <1>3, <1>5, Inserted
<1> QED BY <1>4, <1>6 DEF one

\* The order of all that are visited.
LEMMA PriorityOrderIs ==
  ASSUME NEW visited \in Seq(Accessors), NEW at, \A j \in 1..Len(visited) : at[visited[j]] \in Nat,
         \A j, k \in 1..Len(visited) : visited[j] = visited[k] => j = k
  PROVE  Ordering(PriorityOrder(visited, at), visited, at, Len(visited))
<1> DEFINE N == Len(visited)
           F(f) == [n \in 0..N |-> IF n = 0 THEN <<>> ELSE Listed(f[n - 1], visited[n], at)]
           listed == CHOOSE f : f = F(f)
           S == Seq(Accessors)
           step == [x \in (1..N) \X S |-> Listed(x[2], visited[x[1]], at)]
<1>1. PriorityOrder(visited, at) = listed[N]
  BY DEF PriorityOrder
<1>2. N \in Nat /\ \A n \in 1..N : visited[n] \in Accessors
  BY LenProperties, ElementOfSeq
<1>3. StaysIn(step, N, S)
  <2>1. ASSUME NEW n \in 1..N, NEW order \in S PROVE Listed(order, visited[n], at) \in S
    BY <1>2, ListedType
  <2> HIDE DEF S, N
  <2> QED BY <2>1 DEF StaysIn
<1>4. <<>> \in S
  BY EmptySeq
<1>5. PICK f : Follows(f, N, S, <<>>, step)
  <2> HIDE DEF step, N, S
  <2> QED BY <1>2, <1>3, <1>4, Recursion
<1>6. f = F(f)
  <2> HIDE DEF S, N
  <2>1. ASSUME NEW n \in 0..N
        PROVE  f[n] = IF n = 0 THEN <<>> ELSE Listed(f[n - 1], visited[n], at)
    <3>1. CASE n = 0
      BY <1>5, <3>1 DEF Follows
    <3>2. CASE n # 0
      <4>1. n \in 1..N /\ n - 1 \in 0..N
        BY <1>2, <3>2
      <4>2. f[n - 1] \in S /\ f[n] = step[<<n, f[n - 1]>>]
        <5> HIDE DEF step
        <5> QED BY <1>5, <4>1 DEF Follows
      <4>3. step[<<n, f[n - 1]>>] = Listed(f[n - 1], visited[n], at)
        BY <4>1, <4>2
      <4> QED BY <3>2, <4>2, <4>3
    <3> QED BY <3>1, <3>2
  <2>2. f \in [0..N -> S]
    <3> HIDE DEF step
    <3> QED BY <1>5 DEF Follows
  <2> QED BY <2>1, <2>2
<1>7. listed = F(listed)
  <2> HIDE DEF F
  <2> QED BY <1>6
<1> HIDE DEF listed
<1>8. listed[0] = <<>> /\ \A n \in 1..N : listed[n] = Listed(listed[n - 1], visited[n], at)
  <2> HIDE DEF N
  <2>1. 0 \in 0..N /\ \A n \in 1..N : n \in 0..N /\ n # 0
    BY <1>2
  <2>2. \A n \in 0..N : listed[n] = IF n = 0 THEN <<>> ELSE Listed(listed[n - 1], visited[n], at)
    BY <1>7
  <2> QED BY <2>1, <2>2
<1> DEFINE P == {n \in 0..N : Ordering(listed[n], visited, at, n)}
<1>9. 0 \in P
  <2>1. Ordering(<<>>, visited, at, 0)
    BY <1>4 DEF Ordering
  <2> QED BY <1>2, <1>8, <2>1
<1>10. ASSUME NEW n \in 1..N, n - 1 \in P PROVE n \in P
  <2>1. Ordering(listed[n - 1], visited, at, n - 1)
    BY <1>10
  <2>2. Ordering(Listed(listed[n - 1], visited[n], at), visited, at, n)
    BY <2>1, ListedStep
  <2> QED BY <1>8, <2>2
<1>11. \A n \in 0..N : n \in P
  <2> HIDE DEF P, N
  <2> QED BY <1>2, <1>9, <1>10, Counting
<1>12. N \in P
  <2> HIDE DEF P, N
  <2> QED BY <1>2, <1>11
<1> QED BY <1>1, <1>12

\* Depths of ports, as the search finds them.
PortDepthsOf(depth) ==
  /\ depth \in [PortsInModel -> Nat]
  /\ \A p \in PortsInModel : depth[p] <= Cardinality(Ports)

\* The ports of an atomic accessor of the model.
LEMMA PortsOfAtomics ==
  ASSUME NEW a \in InModel \cap Atomics
  PROVE  Range(InputsOf[a]) \subseteq PortsInModel /\ Range(OutputsOf[a]) \subseteq PortsInModel
BY DEF PortsInModel, PortsOf

\* The depth of an atomic accessor is the least of its outputs', or the greatest
\* of its inputs' if it has no outputs.
LEMMA AtomicDepthIs ==
  ASSUME NEW depth, PortDepthsOf(depth), NEW a \in InModel \cap Atomics, a \in Accessors
  PROVE  /\ AtomicDepth(a, depth) \in 0..Cardinality(Ports)
         /\ \A o \in Range(OutputsOf[a]) : AtomicDepth(a, depth) <= depth[o]
         /\ OutputsOf[a] # <<>> => \E o \in Range(OutputsOf[a]) : AtomicDepth(a, depth) = depth[o]
         /\ OutputsOf[a] = <<>> => \A i \in Range(InputsOf[a]) : depth[i] <= AtomicDepth(a, depth)
<1> DEFINE N == Cardinality(Ports)
<1>1. N \in Nat
  BY PortsAreFinite, FS_CardinalityType
<1>2. \A p \in PortsInModel : depth[p] \in 0..N
  BY <1>1 DEF PortDepthsOf
<1> HIDE DEF N
<1>3. CASE OutputsOf[a] # <<>>
  <2> DEFINE outs == Range(OutputsOf[a])
             depths == {depth[p] : p \in outs}
  <2>1. outs # {}
    <3>1. OutputsOf[a] \in Seq(OutputPorts)
      BY StructureAssumption
    <3>2. 1 \in DOMAIN OutputsOf[a]
      BY <1>3, <3>1, LenProperties, EmptySeq
    <3> QED BY <3>2 DEF Range
  <2>2. outs \subseteq PortsInModel
    BY PortsOfAtomics
  <2> HIDE DEF outs
  <2>3. depths \in SUBSET (0..N) /\ depths # {}
    BY <1>2, <2>1, <2>2
  <2>4. Min(depths) \in depths /\ \A n \in depths : Min(depths) <= n
    <3>1. depths \in SUBSET Nat
      BY <1>1, <2>3
    <3> HIDE DEF depths
    <3> QED BY <2>3, <3>1, LeastIsIn
  <2>5. AtomicDepth(a, depth) = Min(depths)
    BY <1>3 DEF AtomicDepth, outs
  <2>6. \A o \in outs : Min(depths) <= depth[o]
    BY <2>4
  <2>7. \E o \in outs : Min(depths) = depth[o]
    BY <2>4
  <2>8. Min(depths) \in 0..N
    BY <2>3, <2>4
  <2> HIDE DEF depths
  <2> QED BY <1>3, <2>5, <2>6, <2>7, <2>8 DEF outs, N
<1>4. CASE OutputsOf[a] = <<>>
  <2> DEFINE ins == Range(InputsOf[a])
             depths == {depth[p] : p \in ins}
  <2>1. ins \subseteq PortsInModel
    BY PortsOfAtomics
  <2> HIDE DEF ins
  <2>2. depths \in SUBSET (0..N)
    BY <1>2, <2>1
  <2>3. AtomicDepth(a, depth) = Deepest(depths)
    BY <1>4 DEF AtomicDepth, ins
  <2>4. Deepest(depths) \in 0..N /\ \A n \in depths : n <= Deepest(depths)
    <3> HIDE DEF depths
    <3> QED BY <1>1, <2>2, DeepestIs
  <2>5. \A i \in ins : depth[i] <= Deepest(depths)
    BY <2>4
  <2>6. Range(OutputsOf[a]) = {}
    BY <1>4 DEF Range
  <2> HIDE DEF depths
  <2> QED BY <1>4, <2>3, <2>4, <2>5, <2>6 DEF ins, N
<1> QED BY <1>3, <1>4

\* What is in the model.
LEMMA InModelIs ==
  ASSUME StructureInv
  PROVE  /\ Host \in InModel /\ InModel \subseteq Accessors
         /\ \A x \in InModel : x \in Inside(x) /\ Inside(x) \subseteq InModel
         /\ \A x \in InModel : \A y \in Inside(x) : Inside(y) \subseteq Inside(x)
         /\ \A x \in InModel \cap Atomics : Inside(x) = {x}
<1>1. Host \in Accessors /\ IsTree(children)
  BY StructureAssumption DEF Accessors, StructureInv
<1>2. \A x : Inside(x) = Below(children, x)
  BY DEF Inside, Below
<1>3. InModel = Below(children, Host)
  BY <1>2 DEF InModel
<1>4. Host \in InModel /\ InModel \subseteq Accessors
  BY <1>1, <1>3, BelowIsClosed
<1>5. \A x \in InModel : x \in Inside(x) /\ Inside(x) \subseteq InModel
  BY <1>1, <1>2, <1>3, <1>4, BelowIsClosed, BelowIsTransitive
<1>6. \A x \in InModel : \A y \in Inside(x) : Inside(y) \subseteq Inside(x)
  BY <1>1, <1>2, <1>4, BelowIsTransitive
<1>7. \A x \in InModel \cap Atomics : Inside(x) = {x}
  BY <1>1, <1>2, BelowAtomic
<1> QED BY <1>4, <1>5, <1>6, <1>7

\* A composite is as shallow as the shallowest that is in it, and of a depth that
\* ports have if it contains any.
LEMMA AccessorDepthIs ==
  ASSUME StructureInv, NEW depth, PortDepthsOf(depth), NEW at, at = AccessorDepth(depth)
  PROVE  /\ at \in [InModel -> 0..IntMax]
         /\ \A a \in InModel \cap Atomics : at[a] = AtomicDepth(a, depth)
         /\ \A x \in InModel : Inside(x) \cap Atomics # {} => at[x] <= Cardinality(Ports)
         /\ \A c \in InModel \cap Composites : \A x \in Inside(c) : at[c] <= at[x]
<1> DEFINE N == Cardinality(Ports)
           Inner(c) == {AtomicDepth(a, depth) : a \in Inside(c) \cap Atomics}
<1>1. N \in Nat /\ IntMax \in Nat /\ N <= IntMax
  <2>1. N \in Nat /\ Cardinality(Accessors) \in Nat
    BY PortsAreFinite, FS_CardinalityType, StructureAssumption
  <2> QED BY <2>1, IntMaxAssumption
<1>2. /\ InModel \subseteq Accessors
      /\ \A x \in InModel : x \in Inside(x) /\ Inside(x) \subseteq InModel
      /\ \A x \in InModel : \A y \in Inside(x) : Inside(y) \subseteq Inside(x)
      /\ \A x \in InModel \cap Atomics : Inside(x) = {x}
  BY InModelIs
<1>3. \A a \in InModel \cap Atomics : AtomicDepth(a, depth) \in 0..N
  BY <1>2, AtomicDepthIs
<1>4. \A x \in InModel : at[x] = IF x \in Atomics THEN AtomicDepth(x, depth) ELSE Min({IntMax} \cup Inner(x))
  BY DEF AccessorDepth
<1> HIDE DEF N
<1>5. ASSUME NEW c \in InModel
      PROVE  /\ Min({IntMax} \cup Inner(c)) \in {IntMax} \cup Inner(c)
             /\ \A n \in {IntMax} \cup Inner(c) : Min({IntMax} \cup Inner(c)) <= n
             /\ Inner(c) \subseteq 0..N
  <2>1. Inner(c) \subseteq 0..N
    BY <1>2, <1>3
  <2> DEFINE S == {IntMax} \cup Inner(c)
  <2>2. S \in SUBSET Nat /\ S # {}
    BY <1>1, <2>1
  <2>3. Min(S) \in S /\ \A n \in S : Min(S) <= n
    <3> HIDE DEF S
    <3> QED BY <2>2, LeastIsIn
  <2> QED BY <2>1, <2>3
<1> HIDE DEF Inner
<1>6. ASSUME NEW x \in InModel PROVE at[x] \in 0..IntMax
  <2>1. CASE x \in Atomics
    <3>1. at[x] \in 0..N
      BY <1>3, <1>4, <2>1
    <3> QED BY <1>1, <3>1
  <2>2. CASE x \notin Atomics
    <3>1. at[x] \in {IntMax} \cup Inner(x) /\ Inner(x) \subseteq 0..N
      BY <1>4, <1>5, <2>2
    <3> QED BY <1>1, <3>1
  <2> QED BY <2>1, <2>2
<1>7. at \in [InModel -> 0..IntMax]
  <2>1. at = [x \in InModel |-> at[x]]
    BY DEF AccessorDepth
  <2> QED BY <1>6, <2>1
<1>8. ASSUME NEW x \in InModel, NEW a \in Inside(x) \cap Atomics
      PROVE  at[x] <= AtomicDepth(a, depth)
  <2>1. CASE x \in Atomics
    <3>1. a = x /\ at[x] = AtomicDepth(x, depth) /\ AtomicDepth(x, depth) \in 0..N
      BY <1>2, <1>3, <1>4, <2>1
    <3> QED BY <1>1, <3>1
  <2>2. CASE x \notin Atomics
    <3>1. AtomicDepth(a, depth) \in Inner(x)
      BY DEF Inner
    <3>2. Min({IntMax} \cup Inner(x)) <= AtomicDepth(a, depth)
      BY <1>5, <3>1
    <3> QED BY <1>4, <2>2, <3>2
  <2> QED BY <2>1, <2>2
<1>9. ASSUME NEW x \in InModel, Inside(x) \cap Atomics # {} PROVE at[x] <= N
  <2>1. PICK a \in Inside(x) \cap Atomics : TRUE
    BY <1>9
  <2>2. at[x] <= AtomicDepth(a, depth) /\ AtomicDepth(a, depth) \in 0..N
    BY <1>2, <1>3, <1>8
  <2> QED BY <1>1, <1>6, <2>2
<1>10. ASSUME NEW c \in InModel \cap Composites, NEW x \in Inside(c) PROVE at[c] <= at[x]
  <2>1. x \in InModel
    BY <1>2
  <2>2. CASE x \in Atomics
    BY <1>4, <1>8, <2>1, <2>2
  <2>3. CASE x \notin Atomics
    <3>1. at[x] \in {IntMax} \cup Inner(x)
      BY <1>4, <1>5, <2>1, <2>3
    <3>2. CASE at[x] = IntMax
      BY <1>1, <1>6, <3>2
    <3>3. CASE at[x] \in Inner(x)
      <4>1. PICK a \in Inside(x) \cap Atomics : at[x] = AtomicDepth(a, depth)
        BY <3>3 DEF Inner
      <4>2. a \in Inside(c) \cap Atomics
        BY <1>2, <4>1
      <4> QED BY <1>8, <4>1, <4>2
    <3> QED BY <3>1, <3>2, <3>3
  <2> QED BY <2>2, <2>3
<1>11. \A a \in InModel \cap Atomics : at[a] = AtomicDepth(a, depth)
  BY <1>4
<1> QED BY <1>7, <1>9, <1>10, <1>11 DEF N

\* The greater of two numbers.
LEMMA GreaterOfTwo ==
  ASSUME NEW a \in Int, NEW b \in Int
  PROVE  Max({a, b}) = IF a >= b THEN a ELSE b
<1>1. CASE a >= b
  <2>1. \E x \in {a, b} : \A y \in {a, b} : x >= y
    BY <1>1
  <2>2. Max({a, b}) \in {a, b} /\ \A y \in {a, b} : Max({a, b}) >= y
    BY <2>1, Zenon DEF Max
  <2> QED BY <1>1, <2>2
<1>2. CASE ~(a >= b)
  <2>1. \E x \in {a, b} : \A y \in {a, b} : x >= y
    BY <1>2
  <2>2. Max({a, b}) \in {a, b} /\ \A y \in {a, b} : Max({a, b}) >= y
    BY <2>1, Zenon DEF Max
  <2> QED BY <1>2, <2>2
<1> QED BY <1>1, <1>2

\* Priorities grow along the order, as far as depths are those of ports; beyond
\* that they may wrap around.
LEMMA NumbersGrow ==
  ASSUME NEW order \in Seq(Accessors), NEW at, \A k \in 1..Len(order) : at[order[k]] \in 0..IntMax,
         \A j, k \in 1..Len(order) : j < k => at[order[j]] <= at[order[k]],
         NEW N \in Nat, N + Len(order) < IntMax
  PROVE  LET number == Numbered(order, at)
         IN  /\ \A k \in 1..Len(order) : number[k] \in Int32
             /\ \A j, k \in 1..Len(order) :
                  j < k /\ at[order[k]] <= N => number[j] < number[k]
<1> DEFINE L == Len(order)
           F(f) == [k \in 0..L |->
                      IF k = 0 THEN HostPriority - 1
                      ELSE IF k > 1 /\ at[order[k]] = at[order[k - 1]] THEN Next32(f[k - 1])
                      ELSE Max({Next32(f[k - 1]), at[order[k]]})]
           number == CHOOSE f : f = F(f)
           After(k, m) == IF k > 1 /\ at[order[k]] = at[order[k - 1]] THEN Next32(m)
                         ELSE Max({Next32(m), at[order[k]]})
           step == [x \in (1..L) \X Int32 |-> After(x[1], x[2])]
<1>1. Numbered(order, at) = number
  BY DEF Numbered
<1>2. L \in Nat /\ IntMax \in Nat
  BY LenProperties, IntMaxAssumption
<1>3. \A m \in Int32 : Next32(m) \in Int32 /\ Next32(m) \in Int
  BY <1>2 DEF Int32, Next32
<1>4. ASSUME NEW k \in 1..L, NEW m \in Int32
      PROVE  After(k, m) \in Int32
  <2>1. at[order[k]] \in 0..IntMax /\ at[order[k]] \in Int32 /\ at[order[k]] \in Int
    <3>1. at[order[k]] \in 0..IntMax
      OBVIOUS
    <3> QED BY <1>2, <3>1 DEF Int32
  <2> DEFINE d == at[order[k]]
             q == Next32(m)
  <2>2. q \in Int32 /\ q \in Int /\ d \in Int32 /\ d \in Int
    BY <1>3, <2>1
  <2> HIDE DEF d, q
  <2>3. Max({q, d}) \in Int32
    BY <2>2, GreaterOfTwo
  <2> QED BY <2>2, <2>3 DEF d, q
<1> HIDE DEF After
<1>5. StaysIn(step, L, Int32)
  <2> HIDE DEF L
  <2> QED BY <1>4 DEF StaysIn
<1>6. HostPriority - 1 = 0 /\ 0 \in Int32
  BY <1>2 DEF HostPriority, Int32
<1>7. PICK f : Follows(f, L, Int32, 0, step)
  <2> HIDE DEF step, L
  <2> QED BY <1>2, <1>5, <1>6, Recursion
<1>8. f \in [0..L -> Int32] /\ f[0] = 0 /\ \A k \in 1..L : f[k] = After(k, f[k - 1])
  <2>1. f \in [0..L -> Int32] /\ f[0] = 0 /\ \A k \in 1..L : f[k] = step[<<k, f[k - 1]>>]
    <3> HIDE DEF step, L
    <3> QED BY <1>7 DEF Follows
  <2>2. ASSUME NEW k \in 1..L PROVE step[<<k, f[k - 1]>>] = After(k, f[k - 1])
    <3>1. k - 1 \in 0..L
      BY <1>2
    <3>2. f[k - 1] \in Int32
      BY <2>1, <3>1
    <3> HIDE DEF L
    <3> QED BY <3>2
  <2> QED BY <2>1, <2>2
<1>9. f = F(f)
  <2> HIDE DEF L
  <2>1. ASSUME NEW k \in 0..L
        PROVE  f[k] = IF k = 0 THEN HostPriority - 1
                      ELSE IF k > 1 /\ at[order[k]] = at[order[k - 1]] THEN Next32(f[k - 1])
                      ELSE Max({Next32(f[k - 1]), at[order[k]]})
    <3>1. CASE k = 0
      BY <1>6, <1>8, <3>1
    <3>2. CASE k # 0
      <4>1. k \in 1..L
        BY <1>2, <3>2
      <4> QED BY <1>8, <3>2, <4>1 DEF After
    <3> QED BY <3>1, <3>2
  <2> QED BY <1>8, <2>1
<1>10. number = F(number)
  <2> HIDE DEF F
  <2> QED BY <1>9
<1> HIDE DEF number
<1>11. number[0] = 0 /\ \A k \in 1..L : number[k] = After(k, number[k - 1])
  <2> HIDE DEF L
  <2>1. 0 \in 0..L /\ \A k \in 1..L : k \in 0..L /\ k # 0
    BY <1>2
  <2>2. \A k \in 0..L : number[k] =
                      IF k = 0 THEN HostPriority - 1
                      ELSE IF k > 1 /\ at[order[k]] = at[order[k - 1]] THEN Next32(number[k - 1])
                      ELSE Max({Next32(number[k - 1]), at[order[k]]})
    BY <1>10
  <2> QED BY <1>6, <2>1, <2>2 DEF After
<1>12. ASSUME NEW k \in 1..L PROVE at[order[k]] \in 0..IntMax /\ at[order[k]] \in Nat
  <2>1. at[order[k]] \in 0..IntMax
    OBVIOUS
  <2> QED BY <1>2, <2>1
<1> DEFINE P == {k \in 0..L : number[k] \in Int32}
           Q == {k \in 0..L : k > 0 /\ at[order[k]] <= N =>
                    /\ number[k] \in 0..(N + k)
                    /\ \A j \in 0..(k - 1) : number[j] < number[k]}
<1>13. \A k \in 0..L : k \in P
  <2>1. 0 \in P
    BY <1>2, <1>6, <1>11
  <2>2. ASSUME NEW k \in 1..L, k - 1 \in P PROVE k \in P
    BY <1>4, <1>11, <2>2
  <2> HIDE DEF P, L
  <2> QED BY <1>2, <2>1, <2>2, Counting
<1>14. 0 \in Q
  BY <1>2
<1>15. ASSUME NEW k \in 1..L, k - 1 \in Q PROVE k \in Q
  <2>1. SUFFICES ASSUME at[order[k]] <= N
                 PROVE  /\ number[k] \in 0..(N + k)
                        /\ \A j \in 0..(k - 1) : number[j] < number[k]
    OBVIOUS
  <2> DEFINE m == number[k - 1]
             d == at[order[k]]
  <2>2. m \in 0..(N + k - 1) /\ \A j \in 0..(k - 2) : number[j] < m
    <3>1. CASE k = 1
      <4>1. m = 0 /\ 0..(k - 2) = {}
        BY <1>11, <3>1
      <4>2. N + k - 1 \in Nat
        BY <3>1
      <4> QED BY <4>1, <4>2
    <3>2. CASE k # 1
      <4>1. k - 1 \in 1..L /\ k - 1 > 0 /\ k - 1 < k /\ k - 1 \in 0..L
        BY <1>2, <3>2
      <4>2. at[order[k - 1]] <= at[order[k]]
        BY <4>1
      <4>3. at[order[k - 1]] \in Nat /\ at[order[k]] \in Nat
        BY <1>12, <4>1
      <4>4. at[order[k - 1]] <= N
        BY <2>1, <4>2, <4>3
      <4>5. m \in 0..(N + (k - 1)) /\ \A j \in 0..((k - 1) - 1) : number[j] < m
        BY <1>15, <4>1, <4>4
      <4>6. N + (k - 1) = N + k - 1 /\ (k - 1) - 1 = k - 2
        OBVIOUS
      <4> QED BY <4>5, <4>6
    <3> QED BY <3>1, <3>2
  <2>3. d \in Nat /\ d <= N
    BY <1>12, <2>1
  <2>4. number[k] = After(k, m)
    BY <1>11
  <2> HIDE DEF m
  <2>5. Next32(m) = m + 1
    <3>1. N + k - 1 < IntMax
      BY <1>2
    <3> QED BY <1>2, <2>2, <3>1 DEF Next32
  <2>6. number[k] = m + 1 \/ (number[k] = d /\ d >= m + 1)
    <3>1. m + 1 \in Int /\ d \in Int
      BY <2>2, <2>3
    <3>2. After(k, m) = m + 1 \/ After(k, m) = Max({m + 1, d})
      BY <2>5 DEF After
    <3> HIDE DEF d
    <3>3. Max({m + 1, d}) = IF m + 1 >= d THEN m + 1 ELSE d
      BY <3>1, GreaterOfTwo
    <3> QED BY <2>4, <3>1, <3>2, <3>3
  <2> HIDE DEF d
  <2>7. number[k] \in 0..(N + k) /\ m < number[k]
    BY <2>2, <2>3, <2>6
  <2>8. ASSUME NEW j \in 0..(k - 1) PROVE number[j] < number[k]
    <3>1. CASE j = k - 1
      BY <2>7, <3>1 DEF m
    <3>2. CASE j # k - 1
      <4>1. j \in 0..(k - 2) /\ j \in 0..L
        BY <1>2, <3>2
      <4>2. number[j] < m
        BY <2>2, <4>1
      <4>3. number[j] \in Int
        BY <1>2, <1>13, <4>1 DEF Int32
      <4> QED BY <2>2, <2>7, <4>2, <4>3
    <3> QED BY <3>1, <3>2
  <2> QED BY <2>7, <2>8
<1>16. \A k \in 0..L : k \in Q
  <2> HIDE DEF Q, L
  <2> QED BY <1>2, <1>14, <1>15, Counting
<1>17. \A k \in 1..L : number[k] \in Int32
  BY <1>2, <1>13
<1>18. ASSUME NEW j \in 1..L, NEW k \in 1..L, j < k, at[order[k]] <= N
       PROVE  number[j] < number[k]
  <2>1. k \in 0..L /\ k > 0 /\ j \in 0..(k - 1)
    BY <1>2, <1>18
  <2>2. k \in Q
    BY <1>16, <2>1
  <2> QED BY <1>18, <2>1, <2>2
<1> QED BY <1>1, <1>17, <1>18


-----------------------------------------------------------------------------
(* What the host computes, and what it means for the priorities.            *)

\* The place of an accessor in the order.
Place(new, x) == CHOOSE k \in DOMAIN new.order : new.order[k] = x

\* A port is as deep as the ports it needs; an input port is deeper.
LEMMA DepthsGrow ==
  ASSUME StructureInv, ~PortDepths(Graph).loop, NEW depth, depth = PortDepths(Graph).depth,
         NEW p \in PortsInModel, NEW q \in Needs(p)
  PROVE  q \in PortsInModel /\ depth[q] + Extra(p) <= depth[p]
<1> DEFINE N == Cardinality(Ports)
           depths == {depth[r] + Extra(p) : r \in Needs(p)}
<1>1. N \in Nat
  BY PortsAreFinite, FS_CardinalityType
<1>2. PortDepthsOf(depth) /\ AreDepths(depth)
  BY DepthsAndLoops DEF PortDepthsOf, DepthsAreAsDefined
<1>3. Needs(p) \subseteq PortsInModel
  <2>1. IsGraph(Graph) /\ Graph.ports = PortsInModel /\ NeededBy(Graph, p) = Needs(p)
    BY ModelIsGraph
  <2> QED BY <2>1, GraphFacts
<1>4. depth[p] = Deepest(depths)
  BY <1>2 DEF AreDepths, IsDepthOf, Extra
<1> HIDE DEF N
<1>5. depths \in SUBSET (0..(N + 1))
  <2>1. \A r \in Needs(p) : depth[r] \in 0..N
    BY <1>1, <1>2, <1>3 DEF PortDepthsOf, N
  <2>2. Extra(p) \in {0, 1}
    BY DEF Extra
  <2> QED BY <1>1, <2>1, <2>2
<1>6. depth[q] + Extra(p) \in depths /\ N + 1 \in Nat
  BY <1>1
<1> HIDE DEF depths
<1>7. \A n \in depths : n <= Deepest(depths)
  BY <1>5, <1>6, DeepestIs
<1> QED BY <1>3, <1>4, <1>6, <1>7

\* The accessors of the model are listed by their depths, composites before all
\* that is in them, and their numbers grow, except where no accessor reacts.
LEMMA ComputedIs ==
  ASSUME StructureInv, ~PortDepths(Graph).loop, NEW depth, depth = PortDepths(Graph).depth,
         NEW new, new = NewPriorities(depth), NEW at, at = AccessorDepth(depth)
  PROVE  /\ PortDepthsOf(depth)
         /\ new.order \in Seq(Accessors) /\ Range(new.order) = InModel
         /\ \A k \in 1..Len(new.order) : new.number[k] \in Int32
         /\ \A x \in InModel : Place(new, x) \in 1..Len(new.order) /\ new.order[Place(new, x)] = x
         /\ \A x, y \in InModel : at[x] < at[y] => Place(new, x) < Place(new, y)
         /\ \A c \in InModel \cap Composites : \A x \in Inside(c) \ {c} :
              Place(new, c) < Place(new, x)
         /\ \A x, y \in InModel : Place(new, x) < Place(new, y) /\ Inside(y) \cap Atomics # {}
              => new.number[Place(new, x)] < new.number[Place(new, y)]
<1> DEFINE visited == PostOrder(children, Host)
           n == Len(visited)
           order == PriorityOrder(visited, at)
           N == Cardinality(Ports)
<1>1. new = [order |-> order, number |-> Numbered(order, at)]
  BY DEF NewPriorities
<1>2. PortDepthsOf(depth)
  BY DepthsAndLoops DEF PortDepthsOf
<1>3. /\ visited \in Seq(Accessors) /\ n <= Cardinality(Accessors)
      /\ \A j, k \in 1..n : visited[j] = visited[k] => j = k
  <2>1. Host \in Accessors /\ IsTree(children)
    BY StructureAssumption DEF Accessors, StructureInv
  <2> QED BY <2>1, PostOrderLists
<1>4. n \in Nat /\ DOMAIN visited = 1..n
  BY <1>3, LenProperties
<1>5. Range(visited) = InModel
  BY DEF InModel, Inside
<1>6. /\ at \in [InModel -> 0..IntMax]
      /\ \A x \in InModel : Inside(x) \cap Atomics # {} => at[x] <= N
      /\ \A c \in InModel \cap Composites : \A x \in Inside(c) : at[c] <= at[x]
  BY <1>2, AccessorDepthIs
<1>7. IntMax \in Nat /\ N \in Nat /\ N + n < IntMax
  <2>1. N \in Nat
    BY PortsAreFinite, FS_CardinalityType
  <2>2. Cardinality(Accessors) \in Nat
    BY StructureAssumption, FS_CardinalityType
  <2> QED BY <1>3, <1>4, <2>1, <2>2, IntMaxAssumption
<1>8. \A j \in 1..n : visited[j] \in InModel
  BY <1>4, <1>5 DEF Range
<1> HIDE DEF N
<1>9. Ordering(order, visited, at, n)
  <2>1. \A j \in 1..n : at[visited[j]] \in Nat
    BY <1>6, <1>7, <1>8
  <2> HIDE DEF visited
  <2> QED BY <1>3, <2>1, PriorityOrderIs
<1> HIDE DEF order, visited
<1>10. order \in Seq(Accessors) /\ Len(order) = n /\ DOMAIN order = 1..n
  BY <1>9, LenProperties DEF Ordering
<1>11. Range(order) = InModel
  <2>1. /\ \A k \in 1..n : \E j \in 1..n : order[k] = visited[j]
        /\ \A j \in 1..n : \E k \in 1..n : order[k] = visited[j]
    BY <1>9 DEF Ordering
  <2> HIDE DEF n
  <2>2. Range(order) \subseteq Range(visited)
    <3>1. SUFFICES ASSUME NEW k \in 1..n PROVE order[k] \in Range(visited)
      BY <1>10 DEF Range
    <3>2. PICK j \in 1..n : order[k] = visited[j]
      BY <2>1
    <3> QED BY <1>4, <3>2 DEF Range
  <2>3. Range(visited) \subseteq Range(order)
    BY <1>4, <1>10, <2>1 DEF Range
  <2> QED BY <1>5, <2>2, <2>3
<1>12. \A k \in 1..n : order[k] \in InModel
  BY <1>10, <1>11 DEF Range
<1> DEFINE number == Numbered(order, at)
<1>13. /\ \A k \in 1..n : number[k] \in Int32
       /\ \A j, k \in 1..n : j < k /\ at[order[k]] <= N => number[j] < number[k]
  <2>1. /\ \A k \in 1..Len(order) : at[order[k]] \in 0..IntMax
        /\ \A j, k \in 1..Len(order) : j < k => at[order[j]] <= at[order[k]]
        /\ N + Len(order) < IntMax
    BY <1>6, <1>7, <1>9, <1>10, <1>12 DEF Ordering
  <2>2. LET nr == Numbered(order, at)
        IN  /\ \A k \in 1..Len(order) : nr[k] \in Int32
            /\ \A j, k \in 1..Len(order) : j < k /\ at[order[k]] <= N => nr[j] < nr[k]
    BY <1>7, <1>10, <2>1, NumbersGrow
  <2> QED BY <1>10, <2>2
<1> HIDE DEF number
<1>14. new.order = order /\ new.number = number
  BY <1>1 DEF number
<1>15. ASSUME NEW x \in InModel PROVE Place(new, x) \in 1..n /\ order[Place(new, x)] = x
  <2>1. \E k \in 1..n : order[k] = x
    BY <1>10, <1>11 DEF Range
  <2> QED BY <1>10, <1>14, <2>1 DEF Place
<1>16. ASSUME NEW x \in InModel, NEW y \in InModel, at[x] < at[y]
       PROVE  Place(new, x) < Place(new, y)
  <2> DEFINE j == Place(new, x)
             k == Place(new, y)
  <2>1. j \in 1..n /\ k \in 1..n /\ order[j] = x /\ order[k] = y
    BY <1>15
  <2>2. at[x] \in Nat /\ at[y] \in Nat
    BY <1>6, <1>7
  <2> HIDE DEF j, k
  <2>3. j # k /\ ~(k < j)
    <3>1. k < j => at[y] <= at[x]
      BY <1>9, <2>1 DEF Ordering
    <3> QED BY <1>16, <2>1, <2>2, <3>1
  <2>4. j < k
    BY <2>1, <2>3
  <2> QED BY <2>4 DEF j, k
<1>17. ASSUME NEW c \in InModel \cap Composites, NEW x \in Inside(c) \ {c}
       PROVE  Place(new, c) < Place(new, x)
  <2>1. x \in InModel
    BY InModelIs
  <2>2. at[c] \in Nat /\ at[x] \in Nat /\ at[c] <= at[x]
    BY <1>6, <1>7, <2>1
  <2>3. CASE at[c] < at[x]
    BY <1>16, <2>1, <2>3
  <2>4. CASE at[c] = at[x]
    <3>1. PICK j \in 1..n : visited[j] = c
      BY <1>4, <1>5 DEF Range
    <3>2. PICK i \in 1..n : visited[i] = x
      BY <1>4, <1>5, <2>1 DEF Range
    <3>3. i <= j
      <4>1. visited[i] \in Below(children, visited[j])
        BY <3>1, <3>2 DEF Below, Inside
      <4>2. Host \in Accessors /\ IsTree(children)
        BY StructureAssumption DEF Accessors, StructureInv
      <4> QED BY <4>1, <4>2, InsideIsListedBefore DEF visited
    <3>4. i # j
      BY <3>1, <3>2
    <3>5. i < j
      BY <3>3, <3>4
    <3>6. \A p, q \in 1..n : order[p] = visited[j] /\ order[q] = visited[i] => p < q
      BY <1>9, <2>4, <3>1, <3>2, <3>5 DEF Ordering
    <3> QED BY <1>15, <2>1, <3>1, <3>2, <3>6
  <2> QED BY <2>2, <2>3, <2>4
<1>18. ASSUME NEW x \in InModel, NEW y \in InModel, Place(new, x) < Place(new, y),
              Inside(y) \cap Atomics # {}
       PROVE  number[Place(new, x)] < number[Place(new, y)]
  <2>1. at[y] <= N
    BY <1>6, <1>18
  <2> QED BY <1>13, <1>15, <1>18, <2>1
<1> QED BY <1>2, <1>10, <1>11, <1>13, <1>14, <1>15, <1>16, <1>17, <1>18

\* The two properties of priorities.
FollowTheFlow(pr) ==
  \A a, b \in InModel \cap Atomics : \A i \in Range(InputsOf[b]) :
    /\ GetSourceOutputPort(i) \in Range(OutputsOf[a])
    /\ \A o \in Range(OutputsOf[b]) : <<i, o>> \notin pruned
    => pr[a] < pr[b]

Reacting == {x \in InModel : Inside(x) \cap Atomics # {}}

GoFirst(pr) ==
  /\ \A x, y \in Reacting : x # y => pr[x] # pr[y]
  /\ \A c \in Composites \cap Reacting : \A x \in (Inside(c) \cap Reacting) \ {c} : pr[c] < pr[x]

\* An accessor is less deep than one it feeds whose outputs all depend on that.
LEMMA FedIsDeeper ==
  ASSUME StructureInv, ~PortDepths(Graph).loop, NEW depth, depth = PortDepths(Graph).depth,
         NEW a \in InModel \cap Atomics, NEW b \in InModel \cap Atomics,
         NEW i \in Range(InputsOf[b]), GetSourceOutputPort(i) \in Range(OutputsOf[a]),
         \A o \in Range(OutputsOf[b]) : <<i, o>> \notin pruned
  PROVE  AccessorDepth(depth)[a] < AccessorDepth(depth)[b]
<1> DEFINE src == GetSourceOutputPort(i)
           N == Cardinality(Ports)
<1>1. a \in Accessors /\ b \in Accessors
  BY InModelIs
<1>2. PortDepthsOf(depth)
  BY DepthsAndLoops DEF PortDepthsOf
<1>3. i \in PortsInModel /\ i \in InputPorts /\ Owner[i] = b
  <2>1. i \in PortsInModel
    BY PortsOfAtomics
  <2>2. i \in InputPorts
    BY <1>1 DEF InputPorts
  <2>3. i \in PortsOf(b)
    BY DEF PortsOf
  <2> QED BY <1>1, <2>1, <2>2, <2>3, OwnersOwn
<1>4. src \in PortsInModel /\ src # None
  <2>1. src \in PortsInModel
    BY PortsOfAtomics
  <2>2. src \in Ports
    BY <1>1 DEF OutputPorts, Ports
  <2> QED BY <2>1, <2>2, StructureAssumption
<1>5. depth[src] + 1 <= depth[i]
  <2>1. i \in Class(i)
    BY <1>3, ClassesAreShared
  <2>2. src \in Needs(i)
    BY <1>3, <1>4, <2>1 DEF Needs
  <2>3. Extra(i) = 1
    BY <1>3 DEF Extra
  <2> QED BY <1>3, <2>2, <2>3, DepthsGrow
<1>6. ASSUME NEW o \in Range(OutputsOf[b]) PROVE o \in PortsInModel /\ depth[i] <= depth[o]
  <2>1. o \in PortsInModel
    BY PortsOfAtomics
  <2>2. o \in OutputPorts
    BY <1>1 DEF OutputPorts
  <2>3. o \in PortsOf(b)
    BY DEF PortsOf
  <2>4. Owner[o] = b
    BY <1>1, <2>3, OwnersOwn
  <2>5. o \notin InputPorts
    BY <2>2, StructureAssumption
  <2>6. i \in Needs(o)
    BY <2>4, <2>5 DEF Needs
  <2>7. depth[i] + Extra(o) <= depth[o]
    BY <2>1, <2>6, DepthsGrow
  <2>8. Extra(o) = 0 /\ depth[i] \in Nat
    BY <1>2, <1>3, <2>5 DEF Extra, PortDepthsOf
  <2> QED BY <2>1, <2>7, <2>8
<1>7. /\ AtomicDepth(a, depth) \in 0..N /\ AtomicDepth(a, depth) <= depth[src]
      /\ AtomicDepth(b, depth) \in 0..N
      /\ OutputsOf[b] # <<>> => \E o \in Range(OutputsOf[b]) : AtomicDepth(b, depth) = depth[o]
      /\ OutputsOf[b] = <<>> => depth[i] <= AtomicDepth(b, depth)
  BY <1>1, <1>2, AtomicDepthIs
<1>8. depth[i] <= AtomicDepth(b, depth)
  BY <1>6, <1>7
<1>9. depth[src] \in Nat /\ depth[i] \in Nat /\ N \in Nat
  BY <1>2, <1>3, <1>4, PortsAreFinite, FS_CardinalityType DEF PortDepthsOf
<1>10. AccessorDepth(depth)[a] = AtomicDepth(a, depth) /\ AccessorDepth(depth)[b] = AtomicDepth(b, depth)
  BY DEF AccessorDepth
<1> HIDE DEF src, N
<1>11. AtomicDepth(a, depth) < AtomicDepth(b, depth)
  BY <1>5, <1>7, <1>8, <1>9
<1> QED BY <1>10, <1>11

\* The priorities that SetPriorities sets.
LEMMA ComputedPriorities ==
  ASSUME StructureInv, ~PortDepths(Graph).loop,
         NEW new, new = NewPriorities(PortDepths(Graph).depth),
         NEW pr, \A x \in InModel : pr[x] = new.number[Place(new, x)]
  PROVE  FollowTheFlow(pr) /\ GoFirst(pr)
<1> DEFINE depth == PortDepths(Graph).depth
           at == AccessorDepth(depth)
<1>1. /\ \A x \in InModel : Place(new, x) \in 1..Len(new.order) /\ new.order[Place(new, x)] = x
      /\ \A x, y \in InModel : at[x] < at[y] => Place(new, x) < Place(new, y)
      /\ \A c \in InModel \cap Composites : \A x \in Inside(c) \ {c} :
           Place(new, c) < Place(new, x)
      /\ \A x, y \in InModel : Place(new, x) < Place(new, y) /\ Inside(y) \cap Atomics # {}
           => new.number[Place(new, x)] < new.number[Place(new, y)]
      /\ \A k \in 1..Len(new.order) : new.number[k] \in Int32
  BY ComputedIs
<1>2. ASSUME NEW x \in InModel, NEW y \in InModel, Place(new, x) < Place(new, y),
             Inside(y) \cap Atomics # {}
      PROVE  pr[x] < pr[y] /\ pr[x] \in Int /\ pr[y] \in Int
  <2>1. pr[x] = new.number[Place(new, x)] /\ pr[y] = new.number[Place(new, y)]
    OBVIOUS
  <2>2. pr[x] \in Int32 /\ pr[y] \in Int32
    BY <1>1, <2>1
  <2>3. Int32 \subseteq Int
    BY IntMaxAssumption DEF Int32
  <2> QED BY <1>1, <1>2, <2>1, <2>2, <2>3
<1>3. FollowTheFlow(pr)
  <2>1. SUFFICES ASSUME NEW a \in InModel \cap Atomics, NEW b \in InModel \cap Atomics,
                        NEW i \in Range(InputsOf[b]),
                        GetSourceOutputPort(i) \in Range(OutputsOf[a]),
                        \A o \in Range(OutputsOf[b]) : <<i, o>> \notin pruned
                 PROVE  pr[a] < pr[b]
    BY DEF FollowTheFlow
  <2>2. at[a] < at[b]
    BY <2>1, FedIsDeeper
  <2>3. Inside(b) \cap Atomics # {}
    BY InModelIs
  <2> HIDE DEF at
  <2> QED BY <1>1, <1>2, <2>2, <2>3
<1> HIDE DEF at
<1>4. ASSUME NEW x \in Reacting, NEW y \in Reacting, x # y PROVE pr[x] # pr[y]
  <2>1. x \in InModel /\ y \in InModel /\ Inside(x) \cap Atomics # {} /\ Inside(y) \cap Atomics # {}
    BY DEF Reacting
  <2>2. new.order[Place(new, x)] # new.order[Place(new, y)]
    BY <1>1, <1>4, <2>1
  <2>3. Place(new, x) \in Nat /\ Place(new, y) \in Nat /\ Place(new, x) # Place(new, y)
    BY <1>1, <2>1, <2>2
  <2>4. CASE Place(new, x) < Place(new, y)
    BY <1>2, <2>1, <2>4
  <2>5. CASE Place(new, y) < Place(new, x)
    BY <1>2, <2>1, <2>5
  <2> QED BY <2>3, <2>4, <2>5
<1>5. ASSUME NEW c \in Composites \cap Reacting, NEW x \in (Inside(c) \cap Reacting) \ {c}
      PROVE  pr[c] < pr[x]
  <2>1. c \in InModel /\ x \in InModel /\ Inside(x) \cap Atomics # {}
    BY DEF Reacting
  <2>2. Place(new, c) < Place(new, x)
    BY <1>1, <2>1
  <2> QED BY <1>2, <2>1, <2>2
<1>6. GoFirst(pr)
  BY <1>4, <1>5 DEF GoFirst
<1> QED BY <1>3, <1>6

\* What a step can do to the priorities: change the structure, which leaves them
\* behind, or nothing, or compute them for the structure there is.
LEMMA PrioritiesStep ==
  ASSUME [Next]_vars
  PROVE  \/ ~upToDate'
         \/ UNCHANGED <<structure, priority, upToDate>>
         \/ /\ UNCHANGED structure /\ ~PortDepths(Graph).loop
            /\ SetPriorities(NewPriorities(PortDepths(Graph).depth))
<1>1. ASSUME NEW x \in Accessors \ {Host}, AddChild(x) \/ RemoveChild(x) PROVE ~upToDate'
  BY <1>1 DEF AddChild, RemoveChild, Changed
<1>2. ASSUME NEW w \in Wires, Connect(w[1], w[2]) PROVE ~upToDate'
  BY <1>2 DEF Connect, Changed
<1>3. ASSUME NEW dep \in Removable, RemoveDependency(dep[1], dep[2]) PROVE ~upToDate'
  BY <1>3 DEF RemoveDependency, Changed
<1>4. ASSUME NEW c \in Composites, ChildrenChanged(c) PROVE ~upToDate'
  BY <1>4 DEF ChildrenChanged
<1>5. ASSUME Setup
      PROVE  \/ UNCHANGED <<structure, priority, upToDate>>
             \/ /\ UNCHANGED structure /\ ~PortDepths(Graph).loop
                /\ SetPriorities(NewPriorities(PortDepths(Graph).depth))
  BY <1>5 DEF Setup
<1>6. ASSUME UpdateModel
      PROVE  \/ UNCHANGED <<structure, priority, upToDate>>
             \/ /\ UNCHANGED structure /\ ~PortDepths(Graph).loop
                /\ SetPriorities(NewPriorities(PortDepths(Graph).depth))
  BY <1>6 DEF UpdateModel
<1>7. ASSUME UNCHANGED vars PROVE UNCHANGED <<structure, priority, upToDate>>
  BY <1>7 DEF vars
<1> QED BY <1>1, <1>2, <1>3, <1>4, <1>5, <1>6, <1>7 DEF Next

\* SetPriorities gives every accessor of the model the number of its place.
LEMMA SetPrioritiesSets ==
  ASSUME StructureInv, ~PortDepths(Graph).loop,
         NEW new, new = NewPriorities(PortDepths(Graph).depth), SetPriorities(new)
  PROVE  /\ DOMAIN priority' = Accessors
         /\ \A x \in InModel : priority'[x] = new.number[Place(new, x)]
         /\ \A x \in Accessors \ InModel : priority'[x] = priority[x]
<1>1. Range(new.order) = InModel /\ InModel \subseteq Accessors
  BY ComputedIs, InModelIs
<1> QED BY <1>1 DEF SetPriorities, Place

\* What the properties see of the structure.
LEMMA SameStructure ==
  ASSUME UNCHANGED structure
  PROVE  /\ InModel' = InModel /\ pruned' = pruned /\ Reacting' = Reacting
         /\ \A x : Inside(x)' = Inside(x)
         /\ \A i : GetSourceOutputPort(i)' = GetSourceOutputPort(i)
<1>1. \A x : Inside(x)' = Inside(x)
  BY DEF structure, Inside
<1>2. InModel' = InModel
  BY <1>1 DEF InModel
<1>3. \A i : GetSourceOutputPort(i)' = GetSourceOutputPort(i)
  BY DEF structure, GetSourceOutputPort
<1> QED BY <1>1, <1>2, <1>3 DEF structure, Reacting

PrioritiesInv == upToDate => FollowTheFlow(priority) /\ GoFirst(priority)

LEMMA PrioritiesAreProperties ==
  PrioritiesInv => PrioritiesFollowTheFlow /\ CompositesGoFirst
BY DEF PrioritiesInv, FollowTheFlow, GoFirst, Reacting, PrioritiesFollowTheFlow, CompositesGoFirst

LEMMA PrioritiesKept ==
  ASSUME StructureInv, PrioritiesInv, [Next]_vars
  PROVE  PrioritiesInv'
<1>1. CASE ~upToDate'
  BY <1>1 DEF PrioritiesInv
<1>2. ASSUME UNCHANGED structure
      PROVE  /\ FollowTheFlow(priority)' <=> FollowTheFlow(priority')
             /\ GoFirst(priority)' <=> GoFirst(priority')
  <2>1. /\ InModel' = InModel /\ pruned' = pruned /\ Reacting' = Reacting
        /\ \A x : Inside(x)' = Inside(x)
        /\ \A i : GetSourceOutputPort(i)' = GetSourceOutputPort(i)
    BY <1>2, SameStructure
  <2> QED BY <2>1 DEF FollowTheFlow, GoFirst
<1>3. CASE UNCHANGED <<structure, priority, upToDate>>
  <2>1. priority' = priority /\ upToDate' = upToDate
    BY <1>3
  <2>2. /\ FollowTheFlow(priority)' <=> FollowTheFlow(priority)
        /\ GoFirst(priority)' <=> GoFirst(priority)
    BY <1>2, <1>3, <2>1
  <2> QED BY <2>1, <2>2 DEF PrioritiesInv
<1>4. CASE /\ UNCHANGED structure /\ ~PortDepths(Graph).loop
           /\ SetPriorities(NewPriorities(PortDepths(Graph).depth))
  <2> DEFINE new == NewPriorities(PortDepths(Graph).depth)
  <2>1. \A x \in InModel : priority'[x] = new.number[Place(new, x)]
    BY <1>4, SetPrioritiesSets
  <2>2. FollowTheFlow(priority') /\ GoFirst(priority')
    BY <1>4, <2>1, ComputedPriorities
  <2> QED BY <1>2, <1>4, <2>2 DEF PrioritiesInv
<1> QED BY <1>1, <1>3, <1>4, PrioritiesStep

LEMMA PrioritiesAlways == Spec => []PrioritiesInv
<1>1. Init => PrioritiesInv
  BY DEF Init, PrioritiesInv
<1>2. StructureInv /\ PrioritiesInv /\ [Next]_vars => PrioritiesInv'
  BY PrioritiesKept
<1> QED BY <1>1, <1>2, StructureHolds, PTL DEF Spec

\* Once they are computed, and until the structure changes again, the priorities
\* are a topological sort of the model's connectivity: an accessor comes before
\* those it feeds (AtomicAccessorImpl.h:11-13).
THEOREM PrioritiesAreASort == Spec => []PrioritiesFollowTheFlow
<1>1. PrioritiesInv => PrioritiesFollowTheFlow
  BY PrioritiesAreProperties
<1> QED BY <1>1, PrioritiesAlways, PTL

\* And a composite comes before all that reacts in it, no two accessors that react
\* having one priority (CompositeAccessorImpl.h:15).
THEOREM CompositesAreFirst == Spec => []CompositesGoFirst
<1>1. PrioritiesInv => CompositesGoFirst
  BY PrioritiesAreProperties
<1> QED BY <1>1, PrioritiesAlways, PTL

-----------------------------------------------------------------------------
(* Types.                                                                   *)

CallbackPriorities == [Sources -> Int32 \cup {None}]

\* Whatever callbacks the director has, updating them leaves them priorities.
LEMMA UpdatedCallbacksType ==
  ASSUME callbackPriority \in CallbackPriorities, NEW new, new.order \in Seq(Accessors),
         \A k \in 1..Len(new.order) : new.number[k] \in Int32
  PROVE  UpdatedCallbacks(new) \in CallbackPriorities
<1> DEFINE L == Len(new.order)
           F(f) == [k \in 0..L |->
                      IF k = 0 THEN callbackPriority
                      ELSE HandlePriorityUpdate(f[k - 1], priority[new.order[k]], new.number[k])]
           updated == CHOOSE f : f = F(f)
           NextOne(k, c) == HandlePriorityUpdate(c, priority[new.order[k]], new.number[k])
           step == [x \in (1..L) \X CallbackPriorities |-> NextOne(x[1], x[2])]
<1>1. UpdatedCallbacks(new) = updated[L]
  BY DEF UpdatedCallbacks
<1>2. L \in Nat
  BY LenProperties
<1>3. ASSUME NEW k \in 1..L, NEW c \in CallbackPriorities
      PROVE  NextOne(k, c) \in CallbackPriorities
  BY DEF HandlePriorityUpdate, CallbackPriorities
<1> HIDE DEF NextOne
<1>4. StaysIn(step, L, CallbackPriorities)
  <2> HIDE DEF L
  <2> QED BY <1>3 DEF StaysIn
<1>5. PICK f : Follows(f, L, CallbackPriorities, callbackPriority, step)
  <2> HIDE DEF step, L
  <2> QED BY <1>2, <1>4, Recursion
<1>6. /\ f \in [0..L -> CallbackPriorities] /\ f[0] = callbackPriority
      /\ \A k \in 1..L : f[k] = NextOne(k, f[k - 1])
  <2>1. /\ f \in [0..L -> CallbackPriorities] /\ f[0] = callbackPriority
        /\ \A k \in 1..L : f[k] = step[<<k, f[k - 1]>>]
    <3> HIDE DEF step, L
    <3> QED BY <1>5 DEF Follows
  <2>2. ASSUME NEW k \in 1..L PROVE step[<<k, f[k - 1]>>] = NextOne(k, f[k - 1])
    <3>1. k - 1 \in 0..L
      BY <1>2
    <3>2. f[k - 1] \in CallbackPriorities
      BY <2>1, <3>1
    <3> HIDE DEF L
    <3> QED BY <3>2
  <2> QED BY <2>1, <2>2
<1>7. f = F(f)
  <2> HIDE DEF L
  <2>1. ASSUME NEW k \in 0..L
        PROVE  f[k] = IF k = 0 THEN callbackPriority
                      ELSE HandlePriorityUpdate(f[k - 1], priority[new.order[k]], new.number[k])
    <3>1. CASE k = 0
      BY <1>6, <3>1
    <3>2. CASE k # 0
      <4>1. k \in 1..L
        BY <1>2, <3>2
      <4> QED BY <1>6, <3>2, <4>1 DEF NextOne
    <3> QED BY <3>1, <3>2
  <2> QED BY <1>6, <2>1
<1>8. updated = F(updated)
  <2> HIDE DEF F
  <2> QED BY <1>7
<1>9. updated \in [0..L -> CallbackPriorities]
  <2> DEFINE P == {k \in 0..L : updated[k] \in CallbackPriorities}
  <2> HIDE DEF updated
  <2>1. 0 \in P
    BY <1>2, <1>8
  <2>2. ASSUME NEW k \in 1..L, k - 1 \in P PROVE k \in P
    <3>1. k \in 0..L /\ k # 0
      BY <1>2
    <3>2. updated[k] = NextOne(k, updated[k - 1])
      BY <1>8, <3>1 DEF NextOne
    <3> QED BY <1>3, <2>2, <3>1, <3>2
  <2> HIDE DEF P
  <2>3. \A k \in 0..L : k \in P
    BY <1>2, <2>1, <2>2, Counting
  <2>4. \A k \in 0..L : updated[k] \in CallbackPriorities
    BY <2>3 DEF P
  <2> QED BY <1>8, <2>4
<1>10. L \in 0..L
  BY <1>2
<1> HIDE DEF L, updated
<1> QED BY <1>1, <1>9, <1>10

\* Who is initialised schedules a callback with its priority.
LEMMA InitializedWithType ==
  ASSUME NEW callbacks \in CallbackPriorities, NEW xs, NEW pr \in [Accessors -> Int32]
  PROVE  InitializedWith(callbacks, xs, pr) \in CallbackPriorities
BY StructureAssumption DEF InitializedWith, CallbackPriorities

\* The bounds of priorities.
LEMMA PrioritiesInRange ==
  HostPriority \in Int32 /\ DefaultAccessorPriority \in Int32
<1>1. Cardinality(Ports) \in Nat /\ Cardinality(Accessors) \in Nat
  BY PortsAreFinite, StructureAssumption, FS_CardinalityType
<1>2. IntMax \in Nat /\ IntMax >= 1
  BY <1>1, IntMaxAssumption
<1> QED BY <1>2 DEF HostPriority, DefaultAccessorPriority, Int32

\* All that is in children of composites are accessors.
LEMMA AllInside ==
  ASSUME StructureInv, NEW C \in SUBSET Composites, NEW S,
         NEW new, new = (UNION {Range(children[x]) : x \in C}) \ S
  PROVE  UNION {Inside(y) : y \in new} \subseteq Accessors
<1>1. \A x \in Composites : Range(children[x]) \subseteq Accessors
  <2>1. SUFFICES ASSUME NEW x \in Composites, NEW y \in Range(children[x]) PROVE y \in Accessors
    OBVIOUS
  <2> QED BY ChildrenAreBelow DEF StructureInv
<1>2. \A y \in new : y \in Accessors
  BY <1>1
<1>3. \A y \in new : Inside(y) \subseteq Accessors
  BY <1>2, BelowIsClosed DEF StructureInv, Inside, Below
<1> QED BY <1>3

\* What SetPriorities sets are priorities.
LEMMA SetPrioritiesType ==
  ASSUME StructureInv, priority \in [Accessors -> Int32], ~PortDepths(Graph).loop,
         NEW new, new = NewPriorities(PortDepths(Graph).depth), SetPriorities(new)
  PROVE  priority' \in [Accessors -> Int32]
<1>1. /\ \A x \in InModel : Place(new, x) \in 1..Len(new.order)
      /\ \A k \in 1..Len(new.order) : new.number[k] \in Int32
  BY ComputedIs
<1>2. /\ DOMAIN priority' = Accessors
      /\ \A x \in InModel : priority'[x] = new.number[Place(new, x)]
      /\ \A x \in Accessors \ InModel : priority'[x] = priority[x]
  BY SetPrioritiesSets
<1>3. ASSUME NEW x \in Accessors PROVE priority'[x] \in Int32
  BY <1>1, <1>2
<1>4. priority' = [x \in Accessors |-> priority'[x]]
  BY <1>2 DEF SetPriorities
<1> QED BY <1>3, <1>4

Others ==
  /\ pruned \subseteq Ports \X Ports
  /\ initialized \subseteq Accessors
  /\ priority \in [Accessors -> Int32]
  /\ callbackPriority \in CallbackPriorities
  /\ phase \in {"needs setup", "running", "setup failed"}
  /\ updatePending \in BOOLEAN /\ upToDate \in BOOLEAN
  /\ changes \in 0..MaxChanges

LEMMA TypeOKIs == StructureInv /\ Others <=> StructureInv /\ TypeOK
BY DEF StructureInv, IsTree, Wired, Others, TypeOK, CallbackPriorities

LEMMA TypesInit == ASSUME Init PROVE Others
<1>1. pruned \subseteq Ports \X Ports
  BY StructureAssumption DEF Init, SpontaneousPruned, Ports
<1>2. priority \in [Accessors -> Int32]
  BY PrioritiesInRange DEF Init
<1>3. callbackPriority \in CallbackPriorities
  BY DEF Init, CallbackPriorities
<1>4. /\ initialized \subseteq Accessors /\ updatePending \in BOOLEAN /\ upToDate \in BOOLEAN
      /\ phase \in {"needs setup", "running", "setup failed"}
  BY DEF Init
<1>5. changes \in 0..MaxChanges
  <2>1. MaxChanges \in Nat
    BY StructureAssumption
  <2>2. changes = 0
    BY DEF Init
  <2> QED BY <2>1, <2>2
<1> QED BY <1>1, <1>2, <1>3, <1>4, <1>5 DEF Others

\* A change of the structure counts, up to the bound.
LEMMA ChangedType ==
  ASSUME Others, MayChange, Changed
  PROVE  /\ phase' = phase /\ updatePending' = updatePending /\ upToDate' \in BOOLEAN
         /\ changes' \in 0..MaxChanges
<1>1. /\ phase' = phase /\ updatePending' = updatePending /\ upToDate' = FALSE
      /\ changes' = IF phase = "needs setup" THEN changes ELSE changes + 1
  BY DEF Changed
<1>2. MaxChanges \in Nat /\ changes \in 0..MaxChanges
  BY StructureAssumption DEF Others
<1>3. changes' \in 0..MaxChanges
  <2>1. CASE phase = "needs setup"
    BY <1>1, <1>2, <2>1
  <2>2. CASE phase # "needs setup"
    <3>1. phase = "running"
      BY <2>2 DEF Others, MayChange
    <3>2. changes < MaxChanges
      BY <3>1 DEF MayChange
    <3>3. changes' = changes + 1
      BY <1>1, <2>2
    <3> QED BY <1>2, <3>2, <3>3
  <2> QED BY <2>1, <2>2
<1> QED BY <1>1, <1>3

LEMMA TypesStep == ASSUME StructureInv, Others, [Next]_vars PROVE Others'
<1>1. ASSUME NEW x \in Accessors \ {Host}, AddChild(x) PROVE Others'
  BY <1>1, ChangedType DEF AddChild, Others
<1>2. ASSUME NEW x \in Accessors \ {Host}, RemoveChild(x) PROVE Others'
  <2>1. MayChange /\ Changed /\ pruned' \subseteq pruned /\ initialized' \subseteq initialized
    BY <1>2 DEF RemoveChild
  <2>2. priority' \in [Accessors -> Int32]
    BY <1>2, PrioritiesInRange DEF RemoveChild, Others
  <2>3. callbackPriority' \in CallbackPriorities
    BY <1>2 DEF RemoveChild, Others, CallbackPriorities
  <2> QED BY <2>1, <2>2, <2>3, ChangedType DEF Others
<1>3. ASSUME NEW w \in Wires, Connect(w[1], w[2]) PROVE Others'
  BY <1>3, ChangedType DEF Connect, Others
<1>4. ASSUME NEW dep \in Removable, RemoveDependency(dep[1], dep[2]) PROVE Others'
  <2>1. <<dep[1], dep[2]>> \in Ports \X Ports
    BY StructureAssumption
  <2> QED BY <1>4, <2>1, ChangedType DEF RemoveDependency, Others
<1>5. ASSUME Setup PROVE Others'
  <2>1. CASE PortDepths(Graph).loop
    BY <1>5, <2>1 DEF Setup, structure, Others
  <2>2. CASE ~PortDepths(Graph).loop
    <3> DEFINE new == NewPriorities(PortDepths(Graph).depth)
    <3>1. /\ phase' = "running" /\ SetPriorities(new) /\ initialized' = InModel
          /\ callbackPriority' = InitializedWith(callbackPriority, InModel, priority')
          /\ upToDate' = TRUE /\ UNCHANGED <<structure, updatePending, changes>>
      BY <1>5, <2>2 DEF Setup
    <3>2. priority' \in [Accessors -> Int32]
      BY <2>2, <3>1, SetPrioritiesType DEF Others
    <3>3. callbackPriority' \in CallbackPriorities
      BY <3>1, <3>2, InitializedWithType DEF Others
    <3> QED BY <3>1, <3>2, <3>3, InModelIs DEF structure, Others
  <2> QED BY <2>1, <2>2
<1>6. ASSUME NEW c \in Composites, ChildrenChanged(c) PROVE Others'
  <2> DEFINE above == {x \in Composites \ {Host} : c \in Inside(x)}
             new == (UNION {Range(children[x]) : x \in above}) \ initialized
             xs == UNION {Inside(x) : x \in new}
  <2>1. /\ updatePending' = TRUE /\ initialized' = initialized \cup xs
        /\ callbackPriority' = InitializedWith(callbackPriority, xs, priority)
        /\ priority' = [priority EXCEPT ![Host] = HostPriority]
        /\ UNCHANGED <<structure, phase, changes, upToDate>>
    BY <1>6 DEF ChildrenChanged
  <2>2. xs \subseteq Accessors
    <3>1. above \in SUBSET Composites
      OBVIOUS
    <3> HIDE DEF above
    <3> QED BY <3>1, AllInside
  <2> HIDE DEF xs
  <2>3. callbackPriority' \in CallbackPriorities
    BY <2>1, InitializedWithType DEF Others
  <2>4. priority' \in [Accessors -> Int32]
    BY <2>1, PrioritiesInRange DEF Others
  <2> QED BY <2>1, <2>2, <2>3, <2>4 DEF structure, Others
<1>7. ASSUME UpdateModel PROVE Others'
  <2> DEFINE fresh == Range(children[Host]) \ initialized
             xs == UNION {Inside(x) : x \in fresh}
             new == NewPriorities(PortDepths(Graph).depth)
  <2>1. CASE PortDepths(Graph).loop
    BY <1>7, <2>1 DEF UpdateModel, structure, Others
  <2>2. CASE ~PortDepths(Graph).loop
    <3>1. /\ updatePending' = FALSE /\ SetPriorities(new) /\ initialized' = initialized \cup xs
          /\ callbackPriority' = InitializedWith(UpdatedCallbacks(new), xs, priority')
          /\ upToDate' = TRUE /\ UNCHANGED <<structure, phase, changes>>
      BY <1>7, <2>2 DEF UpdateModel
    <3>2. xs \subseteq Accessors
      <4>1. {Host} \in SUBSET Composites
        BY StructureAssumption
      <4>2. fresh = (UNION {Range(children[x]) : x \in {Host}}) \ initialized
        OBVIOUS
      <4> HIDE DEF fresh
      <4> QED BY <4>1, <4>2, AllInside
    <3> HIDE DEF xs
    <3>3. priority' \in [Accessors -> Int32]
      BY <2>2, <3>1, SetPrioritiesType DEF Others
    <3>4. UpdatedCallbacks(new) \in CallbackPriorities
      <4>1. new.order \in Seq(Accessors) /\ \A k \in 1..Len(new.order) : new.number[k] \in Int32
        BY <2>2, ComputedIs
      <4> HIDE DEF new
      <4> QED BY <4>1, UpdatedCallbacksType DEF Others
    <3>5. callbackPriority' \in CallbackPriorities
      BY <3>1, <3>3, <3>4, InitializedWithType DEF Others
    <3> QED BY <3>1, <3>2, <3>3, <3>5 DEF structure, Others
  <2> QED BY <2>1, <2>2
<1>8. ASSUME UNCHANGED vars PROVE Others'
  BY <1>8 DEF vars, structure, Others
<1> QED BY <1>1, <1>2, <1>3, <1>4, <1>5, <1>6, <1>7, <1>8 DEF Next

\* The variables keep their types; priorities do not leave the range of int.
THEOREM TypesHold == Spec => []TypeOK
<1>1. Init => Others
  BY TypesInit
<1>2. StructureInv /\ Others /\ [Next]_vars => Others'
  BY TypesStep
<1>3. StructureInv /\ Others => TypeOK
  BY TypeOKIs
<1> QED BY <1>1, <1>2, <1>3, StructureHolds, PTL DEF Spec
=============================================================================
