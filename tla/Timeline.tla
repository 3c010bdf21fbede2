------------------------------ MODULE Timeline ------------------------------
(***************************************************************************)
(* What the Director promises (src/src/Director.h, 16-26): callbacks       *)
(* execute one at a time, in the order of their time, then of their        *)
(* priority, then of their id; each executes at a logical time equal to    *)
(* the time it was scheduled for; the logical clock jumps forward, never   *)
(* past a callback that is still pending nor past the physical clock.      *)
(*                                                                         *)
(* There are no threads, tokens, queue or next execution time here.        *)
(***************************************************************************)
EXTENDS Integers

CONSTANTS Requests, PriorityUpdates, MaxId, Horizon

NoId == -1
Ids == 0..(MaxId - 1)

VARIABLES
  pending,      \* id -> [time, delay, periodic, priority]
  running,      \* id of the callback that executes, or NoId
  logicalTime,
  clock

vars == <<pending, running, logicalTime, clock>>

Waiting == DOMAIN pending \ {running}

\* id is to execute before other.
Before(id, other) ==
  LET c == pending[id]
      d == pending[other]
  IN  \/ c.time < d.time
      \/ c.time = d.time /\ c.priority < d.priority
      \/ c.time = d.time /\ c.priority = d.priority /\ id < other

Init ==
  /\ pending = <<>>
  /\ running = NoId
  /\ logicalTime = 0
  /\ clock = 0

\* A new callback is due one delay after the current logical time, and gets
\* an id no pending callback has.
Add(r) ==
  \E id \in Ids \ DOMAIN pending :
    /\ pending' = [i \in DOMAIN pending \cup {id} |->
                     IF i = id THEN [time |-> logicalTime + r.delay, delay |-> r.delay,
                                     periodic |-> r.periodic, priority |-> r.priority]
                     ELSE pending[i]]
    /\ UNCHANGED <<running, logicalTime, clock>>

\* Clearing a callback removes it alone.
Remove(id) ==
  /\ pending' = [i \in DOMAIN pending \ {id} |-> pending[i]]
  /\ UNCHANGED <<running, logicalTime, clock>>

Reprioritise(id, priority) ==
  /\ id \in DOMAIN pending
  /\ pending' = [pending EXCEPT ![id].priority = priority]
  /\ UNCHANGED <<running, logicalTime, clock>>

\* Logical time jumps, past no pending callback and not into the future.
Advance ==
  /\ running = NoId
  /\ logicalTime' \in logicalTime..clock
  /\ \A id \in Waiting : logicalTime' <= pending[id].time
  /\ UNCHANGED <<pending, running, clock>>

Run(id) ==
  /\ running = NoId
  /\ id \in Waiting
  /\ pending[id].time = logicalTime
  /\ \A other \in Waiting \ {id} : Before(id, other)
  /\ running' = id
  /\ UNCHANGED <<pending, logicalTime, clock>>

\* A periodic callback that was not cleared while it ran is pending again, one
\* period later; any other is gone.
Return ==
  /\ running # NoId
  /\ running' = NoId
  /\ \/ /\ running \in DOMAIN pending
        /\ pending[running].periodic
        /\ pending' = [pending EXCEPT ![running].time = @ + pending[running].delay]
     \/ /\ ~(running \in DOMAIN pending /\ pending[running].periodic)
        /\ pending' = [i \in DOMAIN pending \ {running} |-> pending[i]]
  /\ UNCHANGED <<logicalTime, clock>>

Throw ==
  /\ running # NoId
  /\ running' = NoId
  /\ pending' = [i \in DOMAIN pending \ {running} |-> pending[i]]
  /\ UNCHANGED <<logicalTime, clock>>

\* When the last callback is cleared, or with nothing pending, logical time
\* catches up with the physical clock.
Idle ==
  /\ running = NoId
  /\ \A id, other \in DOMAIN pending : id = other
  /\ pending' = <<>>
  /\ logicalTime' = clock
  /\ UNCHANGED <<running, clock>>

Tick ==
  /\ clock < Horizon
  /\ clock' = clock + 1
  /\ UNCHANGED <<pending, running, logicalTime>>

Next ==
  \/ \E r \in Requests : Add(r)
  \/ \E id \in Ids : Remove(id)
  \/ \E id \in Ids, p \in PriorityUpdates : Reprioritise(id, p[2])
  \/ \E id \in Ids : Run(id)
  \/ Advance \/ Return \/ Throw \/ Idle \/ Tick

Spec == Init /\ [][Next]_vars
=============================================================================
