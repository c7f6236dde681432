------------------------------ MODULE MtQueues ------------------------------
(***************************************************************************)
(* The queues of MTask (mtask2/kernel/queue.c) as operators on sequences.  *)
(*                                                                         *)
(* A task queue (TaskQueue_t) is the sequence of its tasks from head to    *)
(* tail.  The kernel keeps it sorted by priority with the most urgent task *)
(* at the tail, and extracts from the tail.                                *)
(*                                                                         *)
(* The time queue is the sequence of its entries [task, ticks] from head   *)
(* to tail, ticks being the delay of an entry relative to the one before.  *)
(***************************************************************************)
EXTENDS Naturals, Sequences

\* The first position at or after which a task of priority p is inserted:
\* the one of the first task that is at least as urgent, or past the tail.
InsertionPoint(queue, prio, p) ==
  CHOOSE i \in 1 .. Len(queue) + 1 :
    /\ \A j \in 1 .. i - 1 : p > prio[queue[j]]
    /\ i <= Len(queue) => p <= prio[queue[i]]

\* seq with e put in front of position i.
InsertBefore(seq, i, e) ==
  [j \in 1 .. Len(seq) + 1 |->
     IF j < i THEN seq[j] ELSE IF j = i THEN e ELSE seq[j - 1]]

\* seq without the element at position i.
DeleteAt(seq, i) ==
  [j \in 1 .. Len(seq) - 1 |-> IF j < i THEN seq[j] ELSE seq[j + 1]]

\* The tasks in a queue.
Members(queue) == {queue[i] : i \in 1 .. Len(queue)}

\* A task queue after the task is inserted, prio being the priorities.
mt_enqueue(queue, prio, task) ==
  InsertBefore(queue, InsertionPoint(queue, prio, prio[task]), task)

\* A task queue after one of its tasks is unlinked.
mt_dequeue(queue, task) ==
  DeleteAt(queue, CHOOSE i \in 1 .. Len(queue) : queue[i] = task)

\* The task at the tail of a non-empty queue, and the queue without it.
mt_peeklast(queue) == queue[Len(queue)]

mt_getlast(queue) == SubSeq(queue, 1, Len(queue) - 1)

\* No task is linked twice.
Distinct(queue) ==
  \A i, j \in 1 .. Len(queue) : i # j => queue[i] # queue[j]

\* The queue is in order of priority.
Sorted(queue, prio) ==
  \A i, j \in 1 .. Len(queue) : i < j => prio[queue[i]] <= prio[queue[j]]

-----------------------------------------------------------------------------

\* The delay of each position of the time queue from now: the running sum of
\* the relative ticks that the insertion loop subtracts on its way.
Elapse(time_q) ==
  LET sum[i \in 0 .. Len(time_q)] ==
        IF i = 0 THEN 0 ELSE sum[i - 1] + time_q[i].ticks
  IN  sum

\* The tasks in the time queue.
TimeMembers(time_q) == {time_q[i].task : i \in 1 .. Len(time_q)}

\* The time queue after a task is inserted to wake `ticks' ticks from now: in
\* front of the first entry that wakes no earlier, whose relative delay shrinks.
mt_enqueue_time(time_q, task, ticks) ==
  LET sum == Elapse(time_q)
      at  == CHOOSE i \in 1 .. Len(time_q) + 1 :
               /\ \A j \in 1 .. i - 1 : ticks > sum[j]
               /\ i <= Len(time_q) => ticks <= sum[i]
      own == ticks - sum[at - 1]
      shrunk == IF at <= Len(time_q)
                THEN [time_q EXCEPT ![at].ticks = @ - own]
                ELSE time_q
  IN  InsertBefore(shrunk, at, [task |-> task, ticks |-> own])

\* Mutant: the entry behind does not inherit the relative delay.
DequeueTimeForgets(time_q, task) ==
  DeleteAt(time_q, CHOOSE i \in 1 .. Len(time_q) : time_q[i].task = task)

\* The time queue after a task leaves it early: the entry behind it inherits
\* its relative delay.
mt_dequeue_time(time_q, task) ==
  LET at == CHOOSE i \in 1 .. Len(time_q) : time_q[i].task = task
      grown == IF at < Len(time_q)
               THEN [time_q EXCEPT ![at + 1].ticks = @ + time_q[at].ticks]
               ELSE time_q
  IN  DeleteAt(grown, at)

\* The first entry of a non-empty time queue, and the queue without it.
mt_peekfirst_time(time_q) == time_q[1]

mt_getfirst_time(time_q) == Tail(time_q)

=============================================================================
