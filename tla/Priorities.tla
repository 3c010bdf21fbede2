----------------------------- MODULE Priorities -----------------------------
(***************************************************************************)
(* The structure of a model and the priorities its host derives from it:   *)
(* children and connections that come and go, RemoveDependency, and        *)
(* Host::Impl::ComputeAccessorPriorities (src/src/HostImpl.cpp) with the   *)
(* depth-first search for the depths of the ports, at Setup and, after     *)
(* ChildrenChanged, while the host runs.                                   *)
(*                                                                         *)
(* The ports of an accessor are those its constructor makes, the           *)
(* spontaneous ones last.  Callbacks are reduced to the periodic callback  *)
(* that an accessor schedules when it is initialised, and that to its      *)
(* priority.  Every connection is made once.  No composites are connected  *)
(* in a circle, where GetSourceOutputPort would not end.                   *)
(*                                                                         *)
(* What the code computes by recursive calls and loops is computed here    *)
(* by recursive functions that count the steps: provers can reason about   *)
(* these.  The search has its stack of calls in its state.                 *)
(***************************************************************************)
EXTENDS Integers, Sequences, FiniteSets, FiniteSetsExt, SequencesExt, TLC

CONSTANTS
  Host, Composites, Atomics,
  Parent,           \* accessor -> the composite it is added to
  InputsOf,         \* accessor -> m_orderedInputPorts
  OutputsOf,        \* accessor -> m_orderedOutputPorts
  Spontaneous,      \* the spontaneous output ports
  InitialChildren,  \* composite -> the children its constructor adds
  Wires,            \* <<source, destination>>: the connections that may be made
  Removable,        \* <<input, output>>: the dependencies that may be removed
  Sources,          \* the accessors that schedule a callback when initialised
  IntMax,           \* INT_MAX
  MaxChanges,       \* bound: changes of the structure after Setup
  None

Accessors == Atomics \cup Composites
PortsOf(x) == Range(InputsOf[x]) \cup Range(OutputsOf[x])
InputPorts == UNION {Range(InputsOf[x]) : x \in Accessors}
OutputPorts == UNION {Range(OutputsOf[x]) : x \in Accessors}
Ports == InputPorts \cup OutputPorts
Owner == [p \in Ports |-> CHOOSE x \in Accessors : p \in PortsOf(x)]
CompositePorts == {p \in Ports : Owner[p] \in Composites}

\* Constructors make trees of accessors with ports of their own.  Data flows into
\* the inputs of atomic accessors and out of their outputs, and through both
\* kinds of ports of composites, never in a circle there.
ASSUME StructureAssumption ==
  /\ IsFiniteSet(Accessors) /\ Atomics \cap Composites = {}
  /\ Host \in Composites /\ PortsOf(Host) = {}
  /\ Parent \in [Accessors \ {Host} -> Composites]
  /\ \A S \in SUBSET (Accessors \ {Host}) : S # {} => \E x \in S : Parent[x] \notin S
  /\ InitialChildren \in [Composites -> Seq(Accessors \ {Host})]
  /\ \A c \in Composites : IsInjective(InitialChildren[c])
  /\ \A c \in Composites : \A x \in Range(InitialChildren[c]) : Parent[x] = c
  /\ InputsOf \in [Accessors -> Seq(InputPorts)]
  /\ OutputsOf \in [Accessors -> Seq(OutputPorts)]
  /\ InputPorts \cap OutputPorts = {} /\ None \notin Ports
  /\ \A x, y \in Accessors : x # y => PortsOf(x) \cap PortsOf(y) = {}
  /\ Spontaneous \subseteq Ports /\ Removable \subseteq Ports \X Ports
  /\ Sources \subseteq Accessors
  /\ MaxChanges \in Nat

ASSUME WiresAssumption ==
  /\ Wires \subseteq Ports \X (Ports \ Spontaneous)
  /\ \A w \in Wires : /\ w[1] \in InputPorts => Owner[w[1]] \in Composites
                      /\ w[2] \in OutputPorts => Owner[w[2]] \in Composites
  /\ \A S \in SUBSET CompositePorts :
       S # {} => \E p \in S : \A q \in S : <<q, p>> \notin Wires

\* No model comes near INT_MAX: depths and priorities do not overflow.
ASSUME IntMaxAssumption ==
  IntMax \in Nat /\ Cardinality(Ports) + Cardinality(Accessors) < IntMax

VARIABLES
  children,          \* m_orderedChildren
  source,            \* m_source
  pruned,            \* the dependencies removed, <<input, output>>
  initialized,       \* m_initialized
  priority,          \* m_priority
  callbackPriority,  \* the priority of the accessor's periodic callback, or None
  phase,             \* "needs setup", "running" or, after a loop, "setup failed"
  updatePending,     \* the callback of ChildrenChanged is scheduled
  changes,           \* how many changes there have been after Setup
  upToDate           \* history: nothing has changed since the last computation

structure == <<children, source, pruned>>
vars == <<structure, initialized, priority, callbackPriority, phase, updatePending,
          changes, upToDate>>

Int32 == (-IntMax - 1)..IntMax
DefaultAccessorPriority == IntMax
HostPriority == 1

TypeOK ==
  /\ children \in [Composites -> Seq(Accessors \ {Host})]
  /\ \A c \in Composites : IsInjective(children[c])
  /\ source \in [Ports -> Ports \cup {None}]
  /\ pruned \subseteq Ports \X Ports
  /\ initialized \subseteq Accessors
  /\ priority \in [Accessors -> Int32]
  /\ callbackPriority \in [Sources -> Int32 \cup {None}]
  /\ phase \in {"needs setup", "running", "setup failed"}
  /\ updatePending \in BOOLEAN /\ upToDate \in BOOLEAN
  /\ changes \in 0..MaxChanges

-----------------------------------------------------------------------------
\* The tree of accessors.

\* A composite in the n-th place from the end gets its children put in front of it.
ChildrenInFront(tree, list, n) ==
  LET m == Len(list) - n + 1
  IN  IF m > 0 /\ list[m] \in Composites
      THEN SubSeq(list, 1, m - 1) \o tree[list[m]] \o SubSeq(list, m, Len(list))
      ELSE list

\* Children first, each composite's in the order they were added: the list is
\* made from its end, where the root is, to its front.
PostOrder(tree, root) ==
  LET made[n \in 0..Cardinality(Accessors)] ==
        IF n = 0 THEN <<root>> ELSE ChildrenInFront(tree, made[n - 1], n)
  IN  made[Cardinality(Accessors)]

\* An accessor and all that is in it.
Inside(x) == Range(PostOrder(children, x))
InModel == Inside(Host)
PortsInModel == UNION {PortsOf(a) : a \in InModel \cap Atomics}

-----------------------------------------------------------------------------
\* Dependencies inside an atomic accessor.

GetInputPortDependencies(o) == {i \in Range(InputsOf[Owner[o]]) : <<i, o>> \notin pruned}
GetDependentOutputPorts(i) == {o \in Range(OutputsOf[Owner[i]]) : <<i, o>> \notin pruned}

\* The input ports reached from i over outputs that depend on both.
FindEquivalentPorts(i) ==
  LET Linked(j) == UNION {GetInputPortDependencies(o) : o \in GetDependentOutputPorts(j)}
      Found(ports) == ports \cup UNION {Linked(j) : j \in ports}
      found[n \in 0..Len(InputsOf[Owner[i]])] == IF n = 0 THEN {i} ELSE Found(found[n - 1])
  IN  found[Len(InputsOf[Owner[i]])]

\* Mutant of GetEquivalentPorts: a port is equivalent to itself only.
OnlyItself(i) == {i}

GetEquivalentPorts(i) ==
  LET a == Owner[i]
  IN  IF \/ \A dep \in pruned : Owner[dep[1]] # a
         \/ Len(InputsOf[a]) = 1
         \/ OutputsOf[a] = <<>>
      THEN Range(InputsOf[a])
      ELSE FindEquivalentPorts(i)

\* The output port of an atomic accessor that feeds i through any composites.
GetSourceOutputPort(i) ==
  LET Onwards(p) == IF p # None /\ Owner[p] \in Composites THEN source[p] ELSE p
      at[n \in 0..Cardinality(CompositePorts)] == IF n = 0 THEN source[i] ELSE Onwards(at[n - 1])
  IN  at[Cardinality(CompositePorts)]

-----------------------------------------------------------------------------
\* The depths of the ports: a search that knows the depths found so far, the
\* ports visited since the last call from ComputeAtomicAccessorDepth, the ports
\* whose calls have not returned, and whether it has met a causality loop, where
\* the code throws.  It sees the model as a graph.

Graph ==
  [order |-> PostOrder(children, Host),
   ports |-> PortsInModel,
   class |-> [i \in InputPorts |-> GetEquivalentPorts(i)],
   source |-> [i \in InputPorts |-> GetSourceOutputPort(i)],
   needed |-> [o \in OutputPorts |-> GetInputPortDependencies(o)]]

Start == [calls |-> <<>>, depth |-> [p \in {} |-> 0], visited |-> {}, loop |-> FALSE]

\* The call for a port that has no depth: a port that is visited again is part of
\* a loop.  An output is visited by its call, an input by that of its class.
Call(s, p) ==
  IF p \in s.visited THEN [s EXCEPT !.loop = TRUE]
  ELSE [s EXCEPT !.calls = Append(@, p), !.visited = @ \cup ({p} \cap OutputPorts)]

\* The last call returns: these ports have that depth.
Return(s, ports, depth) ==
  [s EXCEPT !.calls = SubSeq(@, 1, Len(@) - 1),
            !.depth = [p \in ports \cup DOMAIN @ |-> IF p \in ports THEN depth ELSE @[p]]]

Deepest(depths) == Max({0} \cup depths)

\* ComputeAtomicAccessorInputPortDepth: one depth for all equivalent ports.
InputPortDepth(g, s, i) ==
  LET inputs == InputsOf[Owner[i]]
      open == {k \in DOMAIN inputs :
                 inputs[k] \in g.class[i] /\ g.source[inputs[k]] \notin {None} \cup DOMAIN s.depth}
      seen == {inputs[k] : k \in 1..Min(open)} \cap g.class[i]
      feeding == {g.source[e] : e \in g.class[i]} \ {None}
  IN  IF open = {} THEN Return(s, g.class[i], Deepest({s.depth[o] + 1 : o \in feeding}))
      ELSE Call([s EXCEPT !.visited = @ \cup seen], g.source[inputs[Min(open)]])

\* ComputeAtomicAccessorOutputPortDepth.
OutputPortDepth(g, s, o) ==
  LET inputs == InputsOf[Owner[o]]
      open == {k \in DOMAIN inputs : inputs[k] \in g.needed[o] \ DOMAIN s.depth}
  IN  IF open = {} THEN Return(s, {o}, Deepest({s.depth[i] : i \in g.needed[o]}))
      ELSE Call(s, inputs[Min(open)])

\* ComputeAtomicAccessorDepth calls for the first port that has no depth.
NextPortDepth(g, s) ==
  LET left == g.ports \ DOMAIN s.depth
      a == g.order[Min({k \in DOMAIN g.order : PortsOf(g.order[k]) \cap left # {}})]
      ports == InputsOf[a] \o OutputsOf[a]
      first == Min({k \in DOMAIN ports : ports[k] \in left})
  IN  IF left = {} THEN s ELSE Call([s EXCEPT !.visited = {}], ports[first])

SearchStep(g, s) ==
  IF s.loop THEN s
  ELSE IF s.calls = <<>> THEN NextPortDepth(g, s)
  ELSE LET p == Last(s.calls)
       IN  IF p \in InputPorts THEN InputPortDepth(g, s, p) ELSE OutputPortDepth(g, s, p)

\* The depths of all ports of the atomic accessors of the model, or a loop.
PortDepths(g) ==
  LET steps == 4 * Cardinality(Ports) + 1
      search[n \in 0..steps] == IF n = 0 THEN Start ELSE SearchStep(g, search[n - 1])
  IN  search[steps]

-----------------------------------------------------------------------------
\* From depths to priorities.

\* Mutant of AtomicDepth: outputs and inputs are confused.
DepthOfInputs(a, depth) == Deepest({depth[p] : p \in Range(InputsOf[a])})

\* ComputeAtomicAccessorDepth.
AtomicDepth(a, depth) ==
  IF OutputsOf[a] # <<>> THEN Min({depth[p] : p \in Range(OutputsOf[a])})
  ELSE Deepest({depth[p] : p \in Range(InputsOf[a])})

\* ComputeCompositeAccessorDepth: as shallow as the shallowest inside.
AccessorDepth(depth) ==
  [x \in InModel |->
     IF x \in Atomics THEN AtomicDepth(x, depth)
     ELSE Min({IntMax} \cup {AtomicDepth(a, depth) : a \in Inside(x) \cap Atomics})]

\* Mutant of Before: a composite comes after the accessors of its depth.
AllAtTheEnd(x, y, at) == at[x] < at[y]

\* Accessors are visited in post order.  Among those of its depth an atomic one
\* goes to the end of the list, a composite to the front.
Before(x, y, at) == at[x] < at[y] \/ (at[x] = at[y] /\ x \in Composites)

Listed(order, x, at) ==
  LET behind == {k \in DOMAIN order : Before(x, order[k], at)}
  IN  InsertAt(order, Min(behind \cup {Len(order) + 1}), x)

\* accessorDepths, as one list.
PriorityOrder(visited, at) ==
  LET listed[n \in 0..Len(visited)] ==
        IF n = 0 THEN <<>> ELSE Listed(listed[n - 1], visited[n], at)
  IN  listed[Len(visited)]

\* ++priority, which in practice wraps around.
Next32(n) == IF n = IntMax THEN -IntMax - 1 ELSE n + 1

\* The priorities of the accessors in this order.
Numbered(order, at) ==
  LET number[k \in 0..Len(order)] ==
        IF k = 0 THEN HostPriority - 1
        ELSE IF k > 1 /\ at[order[k]] = at[order[k - 1]] THEN Next32(number[k - 1])
        ELSE Max({Next32(number[k - 1]), at[order[k]]})
  IN  number

\* Director::HandlePriorityUpdate: every callback that has the old priority.
HandlePriorityUpdate(callbacks, old, new) ==
  [x \in Sources |-> IF callbacks[x] = old THEN new ELSE callbacks[x]]

\* The priorities of the accessors of the model, in order.
NewPriorities(depth) ==
  LET at == AccessorDepth(depth)
      order == PriorityOrder(PostOrder(children, Host), at)
  IN  [order |-> order, number |-> Numbered(order, at)]

SetPriorities(new) ==
  priority' = [x \in Accessors |->
    IF x \in Range(new.order) THEN new.number[CHOOSE k \in DOMAIN new.order : new.order[k] = x]
    ELSE priority[x]]

\* updateCallbacks: one call of HandlePriorityUpdate after the other.
UpdatedCallbacks(new) ==
  LET updated[k \in 0..Len(new.order)] ==
        IF k = 0 THEN callbackPriority
        ELSE HandlePriorityUpdate(updated[k - 1], priority[new.order[k]], new.number[k])
  IN  updated[Len(new.order)]

\* Initialize of these accessors, each of which schedules its callback.
InitializedWith(callbacks, xs, priorities) ==
  [x \in Sources |-> IF x \in xs THEN priorities[x] ELSE callbacks[x]]

-----------------------------------------------------------------------------
\* Changes of the structure, by constructors and callbacks of accessors.

Changed ==
  /\ upToDate' = FALSE
  /\ changes' = IF phase = "needs setup" THEN changes ELSE changes + 1
  /\ UNCHANGED <<phase, updatePending>>

\* Port::DisconnectAll of each of these ports.
DisconnectAll(ports) ==
  [p \in Ports |-> IF p \in ports \/ source[p] \in ports THEN None ELSE source[p]]

MayChange == phase # "setup failed" /\ (phase = "running" => changes < MaxChanges)

\* Mutant of AddChild: the names of the children are not compared.
AddChildAgain(x) ==
  /\ MayChange
  /\ children' = [children EXCEPT ![Parent[x]] = Append(@, x)]
  /\ Changed
  /\ UNCHANGED <<source, pruned, initialized, priority, callbackPriority>>

\* The child's name has to be new among the children.
AddChild(x) ==
  /\ MayChange
  /\ x \notin Range(children[Parent[x]])
  /\ children' = [children EXCEPT ![Parent[x]] = Append(@, x)]
  /\ Changed
  /\ UNCHANGED <<source, pruned, initialized, priority, callbackPriority>>

\* The child is destroyed with all that is in it: its ports are disconnected
\* on both sides and its callbacks are cleared.
RemoveChild(x) ==
  /\ MayChange
  /\ \E k \in DOMAIN children[Parent[x]] :
       /\ children[Parent[x]][k] = x
       /\ LET gone == Inside(x)
              goneports == UNION {PortsOf(y) : y \in gone}
          IN  /\ children' = [c \in Composites |->
                   IF c \in gone THEN <<>>
                   ELSE IF c = Parent[x] THEN RemoveAt(children[c], k) ELSE children[c]]
              /\ source' = DisconnectAll(goneports)
              /\ pruned' = {dep \in pruned : dep[2] \in goneports => dep[2] \in Spontaneous}
              /\ initialized' = initialized \ gone
              /\ priority' = [y \in Accessors |->
                   IF y \in gone THEN DefaultAccessorPriority ELSE priority[y]]
              /\ callbackPriority' = [y \in Sources |->
                   IF y \in gone THEN None ELSE callbackPriority[y]]
  /\ Changed

\* Port::Connect, through whichever of the methods that connect.
Connect(from, to) ==
  /\ MayChange
  /\ source[to] = None
  /\ {Owner[from], Owner[to]} \subseteq InModel
  /\ source' = [source EXCEPT ![to] = from]
  /\ Changed
  /\ UNCHANGED <<children, pruned, initialized, priority, callbackPriority>>

RemoveDependency(i, o) ==
  /\ MayChange
  /\ <<i, o>> \notin pruned
  /\ Owner[i] \in InModel
  /\ pruned' = pruned \cup {<<i, o>>}
  /\ Changed
  /\ UNCHANGED <<children, source, initialized, priority, callbackPriority>>

-----------------------------------------------------------------------------
\* The host.

\* A causality loop is thrown to the caller; the host stays SettingUp.
Setup ==
  /\ phase = "needs setup"
  /\ LET found == PortDepths(Graph)
     IN  IF found.loop
         THEN /\ phase' = "setup failed"
              /\ UNCHANGED <<initialized, priority, callbackPriority, upToDate>>
         ELSE /\ phase' = "running"
              /\ SetPriorities(NewPriorities(found.depth))
              /\ initialized' = InModel
              /\ callbackPriority' = InitializedWith(callbackPriority, InModel, priority')
              /\ upToDate' = TRUE
  /\ UNCHANGED <<structure, updatePending, changes>>

\* ChildrenChanged of a composite that is initialised.  The host schedules the
\* update and takes the priority it had before Setup; the other composites on the
\* way initialise their new children at once, with the priority these have so far.
ChildrenChanged(c) ==
  LET above == {x \in Composites \ {Host} : c \in Inside(x)}
      new == (UNION {Range(children[x]) : x \in above}) \ initialized
      xs == UNION {Inside(x) : x \in new}
  IN  /\ phase = "running" /\ ~upToDate
      /\ c \in initialized
      /\ updatePending' = TRUE
      /\ initialized' = initialized \cup xs
      /\ callbackPriority' = InitializedWith(callbackPriority, xs, priority)
      /\ priority' = [priority EXCEPT ![Host] = HostPriority]
      /\ UNCHANGED <<structure, phase, changes, upToDate>>

\* The callback of Host::Impl::ChildrenChanged.
UpdateModel ==
  LET new == Range(children[Host]) \ initialized
      xs == UNION {Inside(x) : x \in new}
      found == PortDepths(Graph)
  IN  /\ phase = "running" /\ updatePending
      /\ updatePending' = FALSE
      /\ IF found.loop
         THEN UNCHANGED <<initialized, priority, callbackPriority, upToDate>>
         ELSE LET computed == NewPriorities(found.depth)
              IN  /\ SetPriorities(computed)
                  /\ callbackPriority' = InitializedWith(UpdatedCallbacks(computed), xs, priority')
                  /\ initialized' = initialized \cup xs
                  /\ upToDate' = TRUE
      /\ UNCHANGED <<structure, phase, changes>>

-----------------------------------------------------------------------------
\* AddSpontaneousOutputPort removes the dependencies on the inputs there are.
SpontaneousPruned == {dep \in InputPorts \X Spontaneous : Owner[dep[1]] = Owner[dep[2]]}

Init ==
  /\ children = InitialChildren
  /\ source = [p \in Ports |-> None]
  /\ pruned = SpontaneousPruned
  /\ initialized = {}
  /\ priority = [x \in Accessors |-> IF x = Host THEN HostPriority ELSE DefaultAccessorPriority]
  /\ callbackPriority = [x \in Sources |-> None]
  /\ phase = "needs setup"
  /\ updatePending = FALSE
  /\ changes = 0
  /\ upToDate = FALSE

Next ==
  \/ \E x \in Accessors \ {Host} : AddChild(x) \/ RemoveChild(x)
  \/ \E w \in Wires : Connect(w[1], w[2])
  \/ \E dep \in Removable : RemoveDependency(dep[1], dep[2])
  \/ Setup
  \/ \E c \in Composites : ChildrenChanged(c)
  \/ UpdateModel

Spec == Init /\ [][Next]_vars

-----------------------------------------------------------------------------
(* Properties. *)

\* Input ports of an accessor are equivalent when an output depends on both, or
\* by way of others; without outputs all of them are.
Together(i, j) ==
  \/ OutputsOf[Owner[i]] = <<>>
  \/ \E o \in Range(OutputsOf[Owner[i]]) : {<<i, o>>, <<j, o>>} \cap pruned = {}

Class(i) ==
  LET inputs == Range(InputsOf[Owner[i]])
  IN  {j \in inputs : \A ports \in SUBSET inputs :
         i \in ports /\ (\A k \in ports, l \in inputs : Together(k, l) => l \in ports) => j \in ports}

\* The ports whose depths the depth of p is defined by.
Needs(p) ==
  IF p \in InputPorts THEN {GetSourceOutputPort(e) : e \in Class(p)} \ {None}
  ELSE {i \in Range(InputsOf[Owner[p]]) : <<i, p>> \notin pruned}

\* Ports that need one another in a circle.
HasLoop ==
  LET needs == UNION {{p} \X Needs(p) : p \in PortsInModel}
  IN  \E ports \in SUBSET PortsInModel :
        ports # {} /\ \A p \in ports : \E q \in ports : <<p, q>> \in needs

IsDepthOf(p, depth) ==
  depth[p] = Deepest({depth[q] + (IF p \in InputPorts THEN 1 ELSE 0) : q \in Needs(p)})

AreDepths(depth) == DOMAIN depth = PortsInModel /\ \A p \in PortsInModel : IsDepthOf(p, depth)

\* HostImpl.h:15-20: the depth of an input port is the largest source depth in
\* its equivalence class, a source depth being that of the source port plus
\* one, or 0; the depth of an output port is the largest depth of the inputs it
\* depends on, or 0.  The search, whose results depend on where it began and
\* what it had found before, computes exactly that (HostImpl.cpp:306-380).
DepthsAreAsDefined ==
  LET found == PortDepths(Graph) IN ~found.loop => AreDepths(found.depth)

\* HostImpl.h:13-15: the host "checks the model for causal loops" and throws:
\* it does if and only if the depth of some port would be defined by itself.
LoopsAreFound == PortDepths(Graph).loop <=> HasLoop

\* AtomicAccessorImpl.h:11-13: priorities are "a topological sort of the
\* directed graph created by the model's connectivity".  An accessor goes
\* before those it feeds, unless these have an output that does not depend on
\* what they are fed: the least depth of the outputs counts, not the inputs'.
PrioritiesFollowTheFlow ==
  upToDate =>
    \A a, b \in InModel \cap Atomics : \A i \in Range(InputsOf[b]) :
      /\ GetSourceOutputPort(i) \in Range(OutputsOf[a])
      /\ \A o \in Range(OutputsOf[b]) : <<i, o>> \notin pruned
      => priority[a] < priority[b]

\* CompositeAccessorImpl.h:15: "children react in priority order".  For that no
\* two accessors have one priority, and a composite, whose reaction runs the
\* queue of its children, goes before all that is in it.  Composites without an
\* atomic accessor never react; their priorities begin at INT_MAX and overflow.
CompositesGoFirst ==
  LET reacting == {x \in InModel : Inside(x) \cap Atomics # {}}
  IN  upToDate =>
        /\ \A x, y \in reacting : x # y => priority[x] # priority[y]
        /\ \A c \in Composites \cap reacting :
             \A x \in (Inside(c) \cap reacting) \ {c} : priority[c] < priority[x]

\* Director.h:16-18: callbacks are prioritised "by the calling accessor's
\* priority", also after the priorities were computed anew (HostImpl.cpp:230-234).
CallbacksKeepTheirAccessorsPriority ==
  upToDate => \A x \in Sources : callbackPriority[x] \in {priority[x], None}
=============================================================================
