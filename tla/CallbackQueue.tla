--------------------------- MODULE CallbackQueue ---------------------------
(***************************************************************************)
(* The ordering of the Director's callback queue (src/src/Director.cpp,    *)
(* 229-297) as pure operators.  A queue is a sequence of callback ids; the *)
(* records the ids stand for are in a function callbacks: id -> record,    *)
(* the code's std::map m_scheduledCallbacks.                               *)
(***************************************************************************)
EXTENDS Integers, SequencesExt

\* Mutant of Precedes: the priority is ignored.
PrecedesIgnoringPriority(callbacks, id, other) ==
  LET c == callbacks[id]
      d == callbacks[other]
  IN  c.time < d.time \/ (c.time = d.time /\ id < other)

\* Sort level 1 is the execution time, level 2 the priority of the calling
\* accessor (a smaller number is more urgent), level 3 the callback id.
Precedes(callbacks, id, other) ==
  LET c == callbacks[id]
      d == callbacks[other]
  IN  \/ c.time < d.time
      \/ c.time = d.time /\ c.priority < d.priority
      \/ c.time = d.time /\ c.priority = d.priority /\ id < other

\* Mutant of InsertionIndex: a callback is queued at the end.
EndIndex(queue, callbacks, id) == Len(queue) + 1

\* The linear scan stops at the first queued callback the new one precedes,
\* or at the end of the queue.
InsertionIndex(queue, callbacks, id) ==
  Min({i \in 1..Len(queue) : Precedes(callbacks, id, queue[i])} \cup {Len(queue) + 1})

QueueScheduledCallback(queue, callbacks, id) ==
  InsertAt(queue, InsertionIndex(queue, callbacks, id), id)

\* Mutant of Dequeue: the id stays in the queue.
NotDequeued(queue, id) == queue

\* Erases the first occurrence of id, as the loops of ClearScheduledCallback
\* and HandlePriorityUpdate do; a queue without id is left as it is.
Dequeue(queue, id) ==
  LET at == {i \in 1..Len(queue) : queue[i] = id}
  IN  IF at = {} THEN queue ELSE RemoveAt(queue, Min(at))

Queued(queue) == {queue[i] : i \in 1..Len(queue)}

\* HandlePriorityUpdate moves a callback to the place its new priority gives
\* it; the callback that is executing is not queued and stays so.
Requeue(queue, callbacks, id) ==
  IF id \in Queued(queue)
  THEN QueueScheduledCallback(Dequeue(queue, id), callbacks, id)
  ELSE queue

\* The queue is strictly sorted: in particular no id is queued twice.
Sorted(queue, callbacks) ==
  \A i, j \in 1..Len(queue) : i < j => Precedes(callbacks, queue[i], queue[j])
============================================================================
