--------------------------- MODULE MtKernelProofs ---------------------------
(***************************************************************************)
(* The MTask kernel is correct for any number of tasks, queues, priorities *)
(* and timeouts, and any program.                                          *)
(*                                                                         *)
(* The internal functions are treated first, on the record of the kernel's *)
(* variables: what each makes of a record whose queues are in order.  The  *)
(* actions follow, one lemma for each conjunct of the invariant.           *)
(***************************************************************************)
EXTENDS MtKernel, MtQueuesProofs

\* The records of the kernel's variables.
Record ==
  [state : [Task -> States], priority : [Task -> Nat],
   atomic_level : [Task -> 0 .. MaxAtomic], queue : [Task -> QueueId \cup {NoQueue}],
   success : [Task -> BOOLEAN], from : [Task -> Task \cup {NoTask}],
   q : [QueueId -> Seq(Task)], time_q : Seq(Entry(Task)), curr : Task,
   slice : 0 .. QUANTUM, level : 0 .. MaxNest]

\* The lists are sound: a task is in the list its back pointer names, once and in
\* order of priority, and at most once in the time queue.
Struct(k) ==
  /\ k \in Record
  /\ \A id \in QueueId : /\ Members(k.q[id]) = {t \in Task : k.queue[t] = id}
                         /\ Distinct(k.q[id])
                         /\ Sorted(k.q[id], k.priority)
  /\ TimeDistinct(k.time_q)

\* What the functions on queues leave alone.
SameRest(k, r) ==
  /\ r.priority = k.priority /\ r.atomic_level = k.atomic_level /\ r.from = k.from
  /\ r.curr = k.curr /\ r.slice = k.slice /\ r.level = k.level

\* The time queue `new' tells every task the time that `old' did.
StillExact(old, new) == \A f : Exact(old, f) => Exact(new, f)

\* What a blocked task is told when it is made ready.
Outcome(ok) == ok \in BOOLEAN

\* The types of the fields of a kernel record.
LEMMA RecordFields ==
  ASSUME NEW k \in Record
  PROVE  /\ k.state \in [Task -> States] /\ k.priority \in [Task -> Nat]
         /\ k.atomic_level \in [Task -> 0 .. MaxAtomic]
         /\ k.queue \in [Task -> QueueId \cup {NoQueue}]
         /\ k.success \in [Task -> BOOLEAN] /\ k.from \in [Task -> Task \cup {NoTask}]
         /\ k.q \in [QueueId -> Seq(Task)] /\ k.time_q \in Seq(Entry(Task))
         /\ k.curr \in Task /\ k.slice \in 0 .. QUANTUM /\ k.level \in 0 .. MaxNest
BY DEF Record

\* An empty list has no members.
LEMMA EmptyMembers ==
  ASSUME NEW s \in Seq(Task)
  PROVE  s = <<>> <=> Members(s) = {}
<1>1. CASE s = <<>>
  BY <1>1 DEF Members
<1>2. CASE s # <<>>
  <2>1. 1 \in 1 .. Len(s)
    BY <1>2
  <2>. QED  BY <1>2, <2>1 DEF Members
<1>. QED  BY <1>1, <1>2

-----------------------------------------------------------------------------
(***************************************************************************)
(* Linking and unlinking a task.                                           *)
(***************************************************************************)

\* Unlinking a task from the list it is in, if any.
LEMMA DequeueStruct ==
  ASSUME NEW k, Struct(k), NEW t \in Task
  PROVE  LET r == Dequeue(k, t)
         IN  /\ Struct(r)
             /\ r.queue = [k.queue EXCEPT ![t] = NoQueue]
             /\ r.state = k.state /\ r.success = k.success /\ r.time_q = k.time_q
             /\ SameRest(k, r)
             /\ \A id \in QueueId : id # k.queue[t] => r.q[id] = k.q[id]
<1>. DEFINE r == Dequeue(k, t)
            id == k.queue[t]
<1>1. k \in Record
  BY DEF Struct
<1>2. CASE id = NoQueue
  <2>1. r = k
    BY <1>2 DEF Dequeue
  <2>2. k.queue = [k.queue EXCEPT ![t] = NoQueue]
    BY <1>1, <1>2, RecordFields
  <2>. HIDE DEF r
  <2>. QED  BY <2>1, <2>2 DEF SameRest, r
<1>3. CASE id # NoQueue
  <2>1. id \in QueueId
    BY <1>1, <1>3, RecordFields
  <2>2. /\ r.q = [k.q EXCEPT ![id] = mt_dequeue(k.q[id], t)]
        /\ r.queue = [k.queue EXCEPT ![t] = NoQueue]
        /\ r.state = k.state /\ r.success = k.success /\ r.time_q = k.time_q
        /\ SameRest(k, r)
        /\ r = [k EXCEPT !.q = [k.q EXCEPT ![id] = mt_dequeue(k.q[id], t)],
                         !.queue = [k.queue EXCEPT ![t] = NoQueue]]
    BY <1>1, <1>3 DEF Record, Dequeue, SameRest
  <2>3. /\ k.q[id] \in Seq(Task) /\ k.priority \in [Task -> Nat]
        /\ t \in Members(k.q[id]) /\ Distinct(k.q[id]) /\ Sorted(k.q[id], k.priority)
    BY <1>1, <2>1, RecordFields DEF Struct
  <2>4. /\ mt_dequeue(k.q[id], t) \in Seq(Task)
        /\ Members(mt_dequeue(k.q[id], t)) = Members(k.q[id]) \ {t}
        /\ Distinct(mt_dequeue(k.q[id], t))
        /\ Sorted(mt_dequeue(k.q[id], t), k.priority)
    BY <2>3, DequeueKeepsOrder
  <2>5. r \in Record
    <3>1. /\ [k.q EXCEPT ![id] = mt_dequeue(k.q[id], t)] \in [QueueId -> Seq(Task)]
          /\ [k.queue EXCEPT ![t] = NoQueue] \in [Task -> QueueId \cup {NoQueue}]
      BY <1>1, <2>4, RecordFields
    <3>. QED  BY <1>1, <2>2, <3>1 DEF Record
  <2>6. ASSUME NEW i \in QueueId
        PROVE  /\ Members(r.q[i]) = {u \in Task : r.queue[u] = i}
               /\ Distinct(r.q[i]) /\ Sorted(r.q[i], r.priority)
    <3>1. r.priority = k.priority
      BY <2>2 DEF SameRest
    <3>2. CASE i = id
      <4>1. r.q[i] = mt_dequeue(k.q[id], t)
        BY <1>1, <2>1, <2>2, <3>2, RecordFields
      <4>2. {u \in Task : r.queue[u] = i} = {u \in Task : k.queue[u] = id} \ {t}
        BY <1>1, <1>3, <2>2, <3>2, RecordFields
      <4>3. Members(k.q[id]) = {u \in Task : k.queue[u] = id}
        BY <2>1 DEF Struct
      <4>. QED  BY <2>4, <3>1, <4>1, <4>2, <4>3
    <3>3. CASE i # id
      <4>1. r.q[i] = k.q[i]
        BY <1>1, <2>1, <2>2, <3>3, RecordFields
      <4>2. {u \in Task : r.queue[u] = i} = {u \in Task : k.queue[u] = i}
        BY <1>1, <2>2, <3>3, RecordFields, KernelAssumption
      <4>. QED  BY <3>1, <4>1, <4>2 DEF Struct
    <3>. QED  BY <3>2, <3>3
  <2>7. Struct(r)
    BY <2>2, <2>5, <2>6 DEF Struct
  <2>8. \A i \in QueueId : i # id => r.q[i] = k.q[i]
    BY <1>1, <2>1, <2>2, RecordFields
  <2>. QED  BY <2>2, <2>7, <2>8
<1>. QED  BY <1>2, <1>3

\* Linking a task that is in no list.
LEMMA EnqueueStruct ==
  ASSUME NEW k, Struct(k), NEW t \in Task, NEW id \in QueueId, k.queue[t] = NoQueue
  PROVE  LET r == Enqueue(k, t, id)
         IN  /\ Struct(r)
             /\ r.queue = [k.queue EXCEPT ![t] = id]
             /\ r.state = k.state /\ r.success = k.success /\ r.time_q = k.time_q
             /\ SameRest(k, r)
             /\ \A i \in QueueId : i # id => r.q[i] = k.q[i]
<1>. DEFINE r == Enqueue(k, t, id)
            new == mt_enqueue(k.q[id], k.priority, t)
<1>1. k \in Record
  BY DEF Struct
<1>2. /\ r.q = [k.q EXCEPT ![id] = new]
      /\ r.queue = [k.queue EXCEPT ![t] = id]
      /\ r.state = k.state /\ r.success = k.success /\ r.time_q = k.time_q
      /\ SameRest(k, r)
      /\ r = [k EXCEPT !.q = [k.q EXCEPT ![id] = new],
                       !.queue = [k.queue EXCEPT ![t] = id]]
  BY <1>1 DEF Record, Enqueue, SameRest
<1>3. /\ k.q[id] \in Seq(Task) /\ k.priority \in [Task -> Nat]
      /\ t \notin Members(k.q[id]) /\ Distinct(k.q[id]) /\ Sorted(k.q[id], k.priority)
  BY <1>1, RecordFields, KernelAssumption DEF Struct
<1>4. /\ new \in Seq(Task)
      /\ Members(new) = Members(k.q[id]) \cup {t}
      /\ Distinct(new)
      /\ Sorted(new, k.priority)
  BY <1>3, EnqueueKeepsOrder
<1>. HIDE DEF r, new
<1>5. r \in Record
  <2>1. /\ [k.q EXCEPT ![id] = new] \in [QueueId -> Seq(Task)]
        /\ [k.queue EXCEPT ![t] = id] \in [Task -> QueueId \cup {NoQueue}]
    BY <1>1, <1>4, RecordFields
  <2>. QED  BY <1>1, <1>2, <2>1 DEF Record
<1>6. ASSUME NEW i \in QueueId
      PROVE  /\ Members(r.q[i]) = {u \in Task : r.queue[u] = i}
             /\ Distinct(r.q[i]) /\ Sorted(r.q[i], r.priority)
  <2>1. r.priority = k.priority
    BY <1>2 DEF SameRest
  <2>2. CASE i = id
    <3>1. r.q[i] = new
      BY <1>1, <1>2, <2>2, RecordFields
    <3>2. {u \in Task : r.queue[u] = i} = {u \in Task : k.queue[u] = id} \cup {t}
      BY <1>1, <1>2, <2>2, RecordFields
    <3>3. Members(k.q[id]) = {u \in Task : k.queue[u] = id}
      BY DEF Struct
    <3>. QED  BY <1>4, <2>1, <3>1, <3>2, <3>3
  <2>3. CASE i # id
    <3>1. r.q[i] = k.q[i]
      BY <1>1, <1>2, <2>3, RecordFields
    <3>2. {u \in Task : r.queue[u] = i} = {u \in Task : k.queue[u] = i}
      BY <1>1, <1>2, <2>3, RecordFields, KernelAssumption
    <3>. QED  BY <2>1, <3>1, <3>2 DEF Struct
  <2>. QED  BY <2>2, <2>3
<1>7. Struct(r)
  BY <1>2, <1>5, <1>6 DEF Struct
<1>8. \A i \in QueueId : i # id => r.q[i] = k.q[i]
  BY <1>1, <1>2, RecordFields
<1>. QED  BY <1>2, <1>7, <1>8 DEF r

\* A record that differs in the time queue only.
LEMMA TimeQueueStruct ==
  ASSUME NEW k, Struct(k), NEW tq \in Seq(Entry(Task)), TimeDistinct(tq)
  PROVE  LET r == [k EXCEPT !.time_q = tq]
         IN  /\ Struct(r) /\ r.time_q = tq
             /\ r.queue = k.queue /\ r.state = k.state /\ r.success = k.success /\ r.q = k.q
             /\ SameRest(k, r)
<1>1. k \in Record
  BY DEF Struct
<1>. DEFINE r == [k EXCEPT !.time_q = tq]
<1>2. /\ r.time_q = tq
      /\ r.queue = k.queue /\ r.state = k.state /\ r.success = k.success /\ r.q = k.q
      /\ SameRest(k, r)
  BY <1>1 DEF Record, SameRest
<1>3. r \in Record
  BY <1>1 DEF Record
<1>. HIDE DEF r
<1>4. r.priority = k.priority
  BY <1>2 DEF SameRest
<1>5. Struct(r)
  BY <1>2, <1>3, <1>4 DEF Struct
<1>. QED  BY <1>2, <1>5 DEF r

\* Taking a task out of the time queue, if it is there.
LEMMA DequeueTimeStruct ==
  ASSUME NEW k, Struct(k), NEW t \in Task
  PROVE  LET r == DequeueTime(k, t)
         IN  /\ Struct(r)
             /\ TimeMembers(r.time_q) = TimeMembers(k.time_q) \ {t}
             /\ StillExact(k.time_q, r.time_q)
             /\ t \notin TimeMembers(k.time_q) => r = k
             /\ r.queue = k.queue /\ r.state = k.state /\ r.success = k.success /\ r.q = k.q
             /\ SameRest(k, r)
<1>. DEFINE r == DequeueTime(k, t)
<1>1. CASE t \notin TimeMembers(k.time_q)
  <2>1. r = k
    BY <1>1 DEF DequeueTime
  <2>. HIDE DEF r
  <2>. QED  BY <1>1, <2>1 DEF SameRest, StillExact, r
<1>2. CASE t \in TimeMembers(k.time_q)
  <2>. DEFINE tq == mt_dequeue_time(k.time_q, t)
  <2>1. k.time_q \in Seq(Entry(Task)) /\ TimeDistinct(k.time_q)
    BY RecordFields DEF Struct
  <2>2. /\ tq \in Seq(Entry(Task))
        /\ TimeMembers(tq) = TimeMembers(k.time_q) \ {t}
        /\ TimeDistinct(tq)
        /\ StillExact(k.time_q, tq)
    BY <1>2, <2>1, DequeueTimeExact DEF StillExact
  <2>3. r = [k EXCEPT !.time_q = tq]
    BY <1>2 DEF DequeueTime
  <2>. HIDE DEF r, tq
  <2>4. /\ Struct(r) /\ r.time_q = tq
        /\ r.queue = k.queue /\ r.state = k.state /\ r.success = k.success /\ r.q = k.q
        /\ SameRest(k, r)
    BY <2>2, <2>3, TimeQueueStruct
  <2>. QED  BY <1>2, <2>2, <2>4 DEF r
<1>. QED  BY <1>1, <1>2

\* A timeout is a number of ticks.
LEMMA TicksNat ==
  ASSUME NEW msecs \in Msecs
  PROVE  msecs_to_ticks(msecs) \in Nat
<1>1. TIME_MOD \in Nat \ {0} /\ MSPERTICK \in Nat \ {0} /\ msecs \in Nat
  BY KernelAssumption
<1>2. (msecs + MSPERTICK - 1) % TIME_MOD \in Nat
  BY <1>1
<1>. QED  BY <1>1, <1>2 DEF msecs_to_ticks

\* Putting a task into the time queue, unless it waits for ever.
LEMMA EnqueueTimeStruct ==
  ASSUME NEW k, Struct(k), NEW t \in Task, t \notin TimeMembers(k.time_q), NEW msecs \in Msecs
  PROVE  LET r == EnqueueTime(k, t, msecs)
         IN  /\ Struct(r)
             /\ TimeMembers(r.time_q) \subseteq TimeMembers(k.time_q) \cup {t}
             /\ TimeMembers(k.time_q) \subseteq TimeMembers(r.time_q)
             /\ \A f : Exact(k.time_q, f) /\ f[t] = msecs_to_ticks(msecs) => Exact(r.time_q, f)
             /\ r.queue = k.queue /\ r.state = k.state /\ r.success = k.success /\ r.q = k.q
             /\ SameRest(k, r)
<1>. DEFINE r == EnqueueTime(k, t, msecs)
<1>1. CASE msecs = FOREVER
  <2>1. r = k
    BY <1>1 DEF EnqueueTime
  <2>. HIDE DEF r
  <2>. QED  BY <2>1 DEF SameRest, r
<1>2. CASE msecs # FOREVER
  <2>. DEFINE n == msecs_to_ticks(msecs)
              tq == mt_enqueue_time(k.time_q, t, n)
  <2>1. k.time_q \in Seq(Entry(Task)) /\ TimeDistinct(k.time_q) /\ n \in Nat
    BY RecordFields, TicksNat DEF Struct
  <2>. HIDE DEF n
  <2>2. /\ tq \in Seq(Entry(Task))
        /\ TimeMembers(tq) = TimeMembers(k.time_q) \cup {t}
        /\ TimeDistinct(tq)
        /\ \A f : Exact(k.time_q, f) /\ f[t] = n => Exact(tq, f)
    <3>. DEFINE old == k.time_q
    <3>1. old \in Seq(Entry(Task)) /\ TimeDistinct(old) /\ t \notin TimeMembers(old)
      BY <2>1
    <3>2. tq = mt_enqueue_time(old, t, n)
      OBVIOUS
    <3>. HIDE DEF old, tq
    <3>3. /\ tq \in Seq(Entry(Task))
          /\ TimeMembers(tq) = TimeMembers(old) \cup {t}
          /\ t \notin TimeMembers(old) /\ TimeDistinct(old) => TimeDistinct(tq)
          /\ \A f : Exact(old, f) /\ f[t] = n => Exact(tq, f)
      <4>1. tq \in Seq(Entry(Task))
        BY <2>1, <3>1, <3>2, EnqueueTimeExact, Zenon
      <4>2. TimeMembers(tq) = TimeMembers(old) \cup {t}
        <5>. DEFINE tm == TimeMembers(mt_enqueue_time(old, t, n))
                    om == TimeMembers(old) \cup {t}
        <5>1. tm = om
          BY <2>1, <3>1, EnqueueTimeExact, SMT
        <5>. QED  BY <3>2, <5>1
      <4>3. TimeDistinct(tq)
        BY <2>1, <3>1, <3>2, EnqueueTimeExact, Zenon
      <4>4. ASSUME NEW f, Exact(old, f), f[t] = n PROVE Exact(tq, f)
        BY <2>1, <3>1, <3>2, <4>4, EnqueueTimeExact, Zenon
      <4>. QED  BY <4>1, <4>2, <4>3, <4>4
    <3>. QED  BY <3>1, <3>3 DEF old
  <2>3. r = [k EXCEPT !.time_q = tq]
    BY <1>2 DEF EnqueueTime, n
  <2>. HIDE DEF r, tq
  <2>4. /\ Struct(r) /\ r.time_q = tq
        /\ r.queue = k.queue /\ r.state = k.state /\ r.success = k.success /\ r.q = k.q
        /\ SameRest(k, r)
    BY <2>2, <2>3, TimeQueueStruct
  <2>. QED  BY <2>2, <2>4 DEF r, n
<1>. QED  BY <1>1, <1>2

-----------------------------------------------------------------------------
(***************************************************************************)
(* The inductive invariant, on the kernel's record k, the points c at      *)
(* which the tasks resume and the history s of those that were served.     *)
(***************************************************************************)

Timed == {"Delaying", "Waiting", "Sending", "Receiving"}
BlockingOp == {"wait", "send", "receive"}
Dead == {"Free", "Terminated"}

\* Every task is in the list that its state calls for.
Placed(k) ==
  \A t \in Task :
    /\ k.state[t] = "Ready" => k.queue[t] = "ready"
    /\ k.state[t] = "Terminated" => k.queue[t] = "terminated"
    /\ k.state[t] = "Waiting" => k.queue[t] \in Queue
    /\ k.state[t] = "Sending" => k.queue[t] \in Task \ {t}
    /\ k.state[t] \notin {"Ready", "Terminated", "Waiting", "Sending"} => k.queue[t] = NoQueue
    /\ t \in TimeMembers(k.time_q) => k.state[t] \in Timed

\* The scheduler always finds a task: the one that does nothing never blocks.
Sound(k) ==
  /\ Struct(k)
  /\ Placed(k)
  /\ \A t \in Task : k.state[t] = "Current" => t = k.curr
  /\ k.state[NullTask] \in {"Ready", "Current"}

\* The current task holds the CPU by right.
Right(k) ==
  /\ k.state[k.curr] = "Current"
  /\ k.atomic_level[k.curr] = 0 =>
       \A t \in Task : k.state[t] = "Ready" => k.priority[t] <= k.priority[k.curr]

\* A task in a list of the program's, or waiting for a message, is inside the call
\* that put it there; an interrupt is never taken inside one.
InCalls(k, c) ==
  /\ c \in [Task -> CallPoint]
  /\ k.level > 0 => c[k.curr].op \notin BlockingOp
  /\ \A t \in Task : k.state[t] \in {"Waiting", "Sending", "Receiving"} => c[t].op \in BlockingOp

NoSenders(k, t) == \A u \in Task : k.queue[u] # t

\* A task half deleted is alive, has no senders left and no second task deletes it.
Deletions(k, c) ==
  \A u \in Task : c[u].op = "delete" =>
    /\ c[u].arg \in Task \ {NullTask}
    /\ k.state[c[u].arg] \notin Dead
    /\ NoSenders(k, c[u].arg)
    /\ \A v \in Task : c[v].op = "delete" /\ c[v].arg = c[u].arg => v = u

NoOrphans(k) == \A t \in Task : k.state[t] \in Dead => NoSenders(k, t)

Rendezvous(k) ==
  \A s, r \in Task : ~ ( /\ k.state[s] = "Sending" /\ k.queue[s] = r
                         /\ k.state[r] = "Receiving" /\ k.from[r] \in {NoTask, s} )

Honest(k, c, s) ==
  /\ s \in [Task -> BOOLEAN]
  /\ \A t \in Task : k.success[t] => s[t] /\ c[t].op \in BlockingOp

Good(k, c, s) ==
  /\ Sound(k)
  /\ InCalls(k, c)
  /\ Deletions(k, c)
  /\ NoOrphans(k)
  /\ Rendezvous(k)
  /\ Honest(k, c, s)

\* The invariant of the specification.
KInv ==
  /\ Good(Kernel, call, served)
  /\ mt_int_level = 0 => Right(Kernel)
  /\ left \in [Task -> Nat]
  /\ Exact(time_q, left)

\* With a program that never suspends tasks: an answered call keeps its answer.
Answered(k, c, s) ==
  \A t \in Task : s[t] /\ c[t].op \in BlockingOp
                    => k.success[t] /\ k.state[t] \in {"Ready", "Current"}

-----------------------------------------------------------------------------
(***************************************************************************)
(* The internal functions.                                                 *)
(***************************************************************************)

\* The record with a task in another state.
LEMMA RecordMoved ==
  ASSUME NEW k \in Record, NEW t \in Task, NEW s \in States
  PROVE  LET r == [k EXCEPT !.state[t] = s]
         IN  /\ r \in Record /\ r.state = [k.state EXCEPT ![t] = s]
             /\ r.q = k.q /\ r.queue = k.queue /\ r.priority = k.priority
             /\ r.time_q = k.time_q /\ r.curr = k.curr /\ r.level = k.level
             /\ r.success = k.success /\ r.from = k.from
BY DEF Record

\* The record with the CPU given to a task.
Given(k, t, n) == [k EXCEPT !.curr = t, !.state[t] = "Current", !.slice = n]

LEMMA RecordGiven ==
  ASSUME NEW k \in Record, NEW t \in Task, NEW n \in 0 .. QUANTUM
  PROVE  LET r == Given(k, t, n)
         IN  /\ r \in Record /\ r.state = [k.state EXCEPT ![t] = "Current"]
             /\ r.q = k.q /\ r.queue = k.queue /\ r.priority = k.priority
             /\ r.time_q = k.time_q /\ r.curr = t /\ r.level = k.level
             /\ r.success = k.success /\ r.from = k.from /\ r.atomic_level = k.atomic_level
BY DEF Record, States, Given

\* A change of the fields that say nothing about the lists.
LEMMA StructSame ==
  ASSUME NEW k, Struct(k), NEW r \in Record,
         r.q = k.q, r.queue = k.queue, r.priority = k.priority, r.time_q = k.time_q
  PROVE  Struct(r)
BY DEF Struct

\* block takes the task out of its queues and leaves the others where they are.
LEMMA BlockStruct ==
  ASSUME NEW k, Struct(k), NEW t \in Task, NEW s \in States
  PROVE  LET r == block(k, t, s)
         IN  /\ Struct(r)
             /\ r.queue = [k.queue EXCEPT ![t] = NoQueue]
             /\ r.state = [k.state EXCEPT ![t] = s]
             /\ r.success = k.success
             /\ TimeMembers(r.time_q) = TimeMembers(k.time_q) \ {t}
             /\ StillExact(k.time_q, r.time_q)
             /\ SameRest(k, r)
<1>. DEFINE k1 == Dequeue(k, t)
            k2 == DequeueTime(k1, t)
            r == block(k, t, s)
<1>1. /\ Struct(k1)
      /\ k1.queue = [k.queue EXCEPT ![t] = NoQueue]
      /\ k1.state = k.state /\ k1.success = k.success /\ k1.time_q = k.time_q
      /\ SameRest(k, k1)
  BY DequeueStruct
<1>. HIDE DEF k1
<1>2. /\ Struct(k2)
      /\ TimeMembers(k2.time_q) = TimeMembers(k1.time_q) \ {t}
      /\ StillExact(k1.time_q, k2.time_q)
      /\ k2.queue = k1.queue /\ k2.state = k1.state /\ k2.success = k1.success /\ k2.q = k1.q
      /\ SameRest(k1, k2)
  BY <1>1, DequeueTimeStruct
<1>3. r = [k2 EXCEPT !.state[t] = s]
  BY DEF block, k1
<1>. HIDE DEF k2, r
<1>4. k2 \in Record
  BY <1>2 DEF Struct
<1>5. /\ r \in Record /\ r.q = k2.q /\ r.queue = k2.queue /\ r.time_q = k2.time_q
      /\ r.state = [k2.state EXCEPT ![t] = s] /\ r.success = k2.success
      /\ SameRest(k2, r)
  BY <1>3, <1>4 DEF Record, SameRest
<1>6. Struct(r)
  BY <1>2, <1>5, StructSame DEF SameRest
<1>7. SameRest(k, r)
  BY <1>1, <1>2, <1>5 DEF SameRest
<1>. QED  BY <1>1, <1>2, <1>5, <1>6, <1>7 DEF r

\* The record r is k with t made ready.
Readied(k, t, ok, r) ==
  /\ Struct(r)
  /\ r.queue = [k.queue EXCEPT ![t] = "ready"]
  /\ r.state = [k.state EXCEPT ![t] = "Ready"]
  /\ r.success = [k.success EXCEPT ![t] = ok]
  /\ TimeMembers(r.time_q) = TimeMembers(k.time_q) \ {t}
  /\ t \notin TimeMembers(k.time_q) => r.time_q = k.time_q
  /\ StillExact(k.time_q, r.time_q)
  /\ SameRest(k, r)

\* ready takes the task out of its queues and puts it in the ready queue.
LEMMA ReadyStruct ==
  ASSUME NEW k, Struct(k), NEW t \in Task, NEW ok, Outcome(ok), k.state[t] # "Ready"
  PROVE  Readied(k, t, ok, ready(k, t, ok))
<1>. DEFINE k1 == Dequeue(k, t)
            k2 == DequeueTime(k1, t)
            k3 == Enqueue(k2, t, "ready")
            r == ready(k, t, ok)
<1>1. /\ Struct(k1)
      /\ k1.queue = [k.queue EXCEPT ![t] = NoQueue]
      /\ k1.state = k.state /\ k1.success = k.success /\ k1.time_q = k.time_q
      /\ SameRest(k, k1)
      /\ \A id \in QueueId : id # k.queue[t] => k1.q[id] = k.q[id]
  BY DequeueStruct
<1>. HIDE DEF k1
<1>2. /\ Struct(k2)
      /\ TimeMembers(k2.time_q) = TimeMembers(k1.time_q) \ {t}
      /\ StillExact(k1.time_q, k2.time_q)
      /\ t \notin TimeMembers(k1.time_q) => k2 = k1
      /\ k2.queue = k1.queue /\ k2.state = k1.state /\ k2.success = k1.success /\ k2.q = k1.q
      /\ SameRest(k1, k2)
  BY <1>1, DequeueTimeStruct
<1>. HIDE DEF k2
<1>3. "ready" \in QueueId /\ k2.queue[t] = NoQueue
  BY <1>1, <1>2, RecordFields DEF QueueId, Struct
<1>4. /\ Struct(k3)
      /\ k3.queue = [k2.queue EXCEPT ![t] = "ready"]
      /\ k3.state = k2.state /\ k3.success = k2.success /\ k3.time_q = k2.time_q
      /\ SameRest(k2, k3)
      /\ \A i \in QueueId : i # "ready" => k3.q[i] = k2.q[i]
  BY <1>2, <1>3, EnqueueStruct
<1>5. r = [k3 EXCEPT !.success[t] = ok, !.state[t] = "Ready"]
  BY DEF ready, k1, k2
<1>. HIDE DEF k3, r
<1>6. k3 \in Record
  BY <1>4 DEF Struct
<1>7. /\ r \in Record /\ r.q = k3.q /\ r.queue = k3.queue /\ r.time_q = k3.time_q
      /\ r.state = [k3.state EXCEPT ![t] = "Ready"] /\ r.success = [k3.success EXCEPT ![t] = ok]
      /\ SameRest(k3, r)
  BY <1>5, <1>6 DEF Record, SameRest, States, Outcome
<1>8. Struct(r)
  BY <1>4, <1>7, StructSame DEF SameRest
<1>9. SameRest(k, r)
  BY <1>1, <1>2, <1>4, <1>7 DEF SameRest
<1>10. r.queue = [k.queue EXCEPT ![t] = "ready"]
  <2>1. k.queue \in [Task -> QueueId \cup {NoQueue}]
    BY RecordFields DEF Struct
  <2>2. r.queue = [[k.queue EXCEPT ![t] = NoQueue] EXCEPT ![t] = "ready"]
    BY <1>1, <1>2, <1>4, <1>7
  <2>. QED  BY <2>1, <2>2
<1>. QED  BY <1>1, <1>2, <1>4, <1>7, <1>8, <1>9, <1>10 DEF r, Readied

\* The lists that a task made ready neither leaves nor enters are as before.
LEMMA ReadyOthers ==
  ASSUME NEW k, k \in Record, NEW t \in Task, NEW ok, k.state[t] # "Ready",
         NEW i \in QueueId, i # "ready", i # k.queue[t]
  PROVE  ready(k, t, ok).q[i] = k.q[i]
<1>. DEFINE k1 == Dequeue(k, t)
            k2 == DequeueTime(k1, t)
<1>1. k1.q[i] = k.q[i] /\ DOMAIN k1.q = QueueId /\ DOMAIN k1 = DOMAIN k
  BY DEF Dequeue, Record
<1>. HIDE DEF k1
<1>2. k2.q = k1.q /\ DOMAIN k2 = DOMAIN k
  BY <1>1 DEF DequeueTime, Record
<1>3. ready(k, t, ok) = [Enqueue(k2, t, "ready") EXCEPT !.success[t] = ok, !.state[t] = "Ready"]
  BY DEF ready, k1
<1>. HIDE DEF k2
<1>4. ready(k, t, ok).q[i] = k2.q[i]
  BY <1>1, <1>2, <1>3 DEF Enqueue, Record
<1>. QED  BY <1>1, <1>2, <1>4

\* The tail of a list, its most urgent task, taken off it.
LEMMA GetLastStruct ==
  ASSUME NEW k, Struct(k), NEW id \in QueueId, k.q[id] # <<>>
  PROVE  LET t == mt_peeklast(k.q[id])
             r == [k EXCEPT !.q[id] = mt_getlast(@), !.queue[t] = NoQueue]
         IN  /\ t \in Task /\ k.queue[t] = id
             /\ \A u \in Task : k.queue[u] = id => k.priority[u] <= k.priority[t]
             /\ r = Dequeue(k, t)
             /\ Len(r.q[id]) = Len(k.q[id]) - 1
<1>. DEFINE s == k.q[id]
            t == mt_peeklast(s)
            i == CHOOSE n \in 1 .. Len(s) : s[n] = t
<1>1. k \in Record
  BY DEF Struct
<1>2. /\ s \in Seq(Task) /\ s # <<>> /\ Distinct(s) /\ Sorted(s, k.priority)
      /\ k.priority \in [Task -> Nat] /\ Members(s) = {u \in Task : k.queue[u] = id}
  BY <1>1, RecordFields DEF Struct
<1>. HIDE DEF s
<1>3. /\ t \in Members(s) /\ \A u \in Members(s) : k.priority[u] <= k.priority[t]
  BY <1>2, GetLastKeepsOrder
<1>4. Len(s) \in Nat /\ Len(s) > 0
  BY <1>2
<1>5. i \in 1 .. Len(s) /\ s[i] = t
  BY <1>3 DEF Members
<1>6. i = Len(s)
  BY <1>2, <1>4, <1>5 DEF Distinct, mt_peeklast
<1>7. mt_dequeue(s, t) = mt_getlast(s) /\ Len(mt_getlast(s)) = Len(s) - 1
  <2>1. mt_dequeue(s, t) = [j \in 1 .. Len(s) - 1 |-> IF j < i THEN s[j] ELSE s[j + 1]]
    BY DEF mt_dequeue, DeleteAt
  <2>2. mt_getlast(s) = [j \in 1 .. Len(s) - 1 |-> s[j]]
    BY <1>2, <1>4 DEF mt_getlast
  <2>. HIDE DEF i
  <2>3. \A j \in 1 .. Len(s) - 1 : j < i
    BY <1>4, <1>6
  <2>4. mt_dequeue(s, t) = mt_getlast(s)
    BY <2>1, <2>2, <2>3
  <2>5. Len(mt_getlast(s)) = Len(s) - 1
    BY <1>4, <2>2
  <2>. QED  BY <2>4, <2>5
<1>. HIDE DEF t
<1>8. id # NoQueue /\ k.queue[t] = id /\ t \in Task
  BY <1>2, <1>3, KernelAssumption
<1>. DEFINE r == [k EXCEPT !.q[id] = mt_getlast(@), !.queue[t] = NoQueue]
<1>9. r = Dequeue(k, t)
  BY <1>7, <1>8 DEF Dequeue, s
<1>10. Len(r.q[id]) = Len(s) - 1
  BY <1>1, <1>7 DEF Record, s
<1>. QED  BY <1>2, <1>3, <1>8, <1>9, <1>10 DEF s, t

\* Making the task at the tail ready after taking it off its list is making it ready.
LEMMA ReadyLast ==
  ASSUME NEW k, Struct(k), NEW t \in Task, k.state[t] # "Ready", NEW ok
  PROVE  ready(Dequeue(k, t), t, ok) = ready(k, t, ok)
<1>. DEFINE r == Dequeue(k, t)
<1>1. /\ Struct(r) /\ r.queue[t] = NoQueue /\ r.state = k.state
  <2>1. Struct(r) /\ r.queue = [k.queue EXCEPT ![t] = NoQueue] /\ r.state = k.state
    BY DequeueStruct
  <2>2. k.queue \in [Task -> QueueId \cup {NoQueue}]
    BY RecordFields DEF Struct
  <2>. HIDE DEF r
  <2>. QED  BY <2>1, <2>2
<1>2. Dequeue(Dequeue(k, t), t) = Dequeue(k, t)
  BY <1>1 DEF Dequeue
<1>. QED  BY <1>1, <1>2 DEF ready

\* What the scheduler may do to a record: it moves tasks between "Ready" and
\* "Current", and forgets the outcome of a task it preempts.
Scheduled(k, r) ==
  /\ r.time_q = k.time_q /\ r.priority = k.priority /\ r.atomic_level = k.atomic_level
  /\ r.from = k.from /\ r.level = k.level
  /\ \A u \in Task :
       \/ /\ r.state[u] = k.state[u] /\ r.queue[u] = k.queue[u] /\ r.success[u] = k.success[u]
       \/ /\ r.state[u] \in {"Ready", "Current"} /\ k.state[u] \in {"Ready", "Current"}
          /\ \/ r.success[u] = k.success[u]
             \/ r.success[u] = FALSE /\ u = k.curr /\ k.state[u] = "Current"

\* A ready list holds the ready tasks.
LEMMA ReadyList ==
  ASSUME NEW k, Struct(k), Placed(k), NEW t \in Task
  PROVE  k.state[t] = "Ready" <=> k.queue[t] = "ready"
<1>1. k.state[t] \in States /\ k.queue[t] \in QueueId \cup {NoQueue}
  BY RecordFields DEF Struct
<1>2. "ready" \notin Task /\ "ready" \notin Queue /\ "ready" # NoQueue
  BY KernelAssumption DEF QueueId
<1>. QED  BY <1>1, <1>2 DEF Placed, States

\* Before it chooses, the scheduler has put back a current task that may not go on.
LEMMA PutBack ==
  ASSUME NEW k, Sound(k), ~Keeps(k)
  PROVE  LET r == IF k.state[k.curr] = "Current" THEN ready(k, k.curr, FALSE) ELSE k
         IN  /\ Struct(r) /\ Placed(r) /\ SameRest(k, r) /\ r.time_q = k.time_q
             /\ \A u \in Task : r.state[u] # "Current"
             /\ r.state[NullTask] = "Ready"
             /\ \A u \in Task :
                  \/ /\ r.state[u] = k.state[u] /\ r.queue[u] = k.queue[u]
                     /\ r.success[u] = k.success[u]
                  \/ /\ r.state[u] = "Ready" /\ k.state[u] = "Current"
                     /\ r.success[u] = FALSE /\ u = k.curr
<1>. DEFINE c == k.curr
            r == IF k.state[c] = "Current" THEN ready(k, c, FALSE) ELSE k
<1>1. /\ Struct(k) /\ Placed(k) /\ k \in Record /\ c \in Task /\ NullTask \in Task
      /\ \A u \in Task : k.state[u] = "Current" => u = c
      /\ k.state[NullTask] \in {"Ready", "Current"}
      /\ k.state \in [Task -> States] /\ k.queue \in [Task -> QueueId \cup {NoQueue}]
      /\ k.success \in [Task -> BOOLEAN]
  BY RecordFields, KernelAssumption DEF Sound, Struct
<1>2. CASE k.state[c] = "Current"
  <2>1. r = ready(k, c, FALSE)
    BY <1>2
  <2>2. c \notin TimeMembers(k.time_q)
    BY <1>1, <1>2 DEF Placed, Timed
  <2>3. /\ Struct(r)
        /\ r.queue = [k.queue EXCEPT ![c] = "ready"]
        /\ r.state = [k.state EXCEPT ![c] = "Ready"]
        /\ r.success = [k.success EXCEPT ![c] = FALSE]
        /\ r.time_q = k.time_q
        /\ SameRest(k, r)
    <3>1. Outcome(FALSE)
      BY DEF Outcome
    <3>2. Readied(k, c, FALSE, r)
      BY <1>1, <1>2, <2>1, <3>1, ReadyStruct
    <3>. QED  BY <2>2, <3>2 DEF Readied
  <2>. HIDE DEF r, c
  <2>4. Placed(r)
    <3>. SUFFICES ASSUME NEW u \in Task
                  PROVE  /\ r.state[u] = "Ready" => r.queue[u] = "ready"
                         /\ r.state[u] = "Terminated" => r.queue[u] = "terminated"
                         /\ r.state[u] = "Waiting" => r.queue[u] \in Queue
                         /\ r.state[u] = "Sending" => r.queue[u] \in Task \ {u}
                         /\ r.state[u] \notin {"Ready", "Terminated", "Waiting", "Sending"}
                              => r.queue[u] = NoQueue
                         /\ u \in TimeMembers(r.time_q) => r.state[u] \in Timed
      BY DEF Placed
    <3>1. CASE u = c
      BY <1>1, <2>2, <2>3, <3>1
    <3>2. CASE u # c
      <4>1. r.state[u] = k.state[u] /\ r.queue[u] = k.queue[u]
        BY <1>1, <2>3, <3>2
      <4>. QED  BY <2>3, <4>1, <1>1 DEF Placed
    <3>. QED  BY <3>1, <3>2
  <2>5. \A u \in Task : r.state[u] # "Current"
    BY <1>1, <2>3
  <2>6. r.state[NullTask] = "Ready"
    BY <1>1, <2>3
  <2>7. \A u \in Task :
           \/ /\ r.state[u] = k.state[u] /\ r.queue[u] = k.queue[u] /\ r.success[u] = k.success[u]
           \/ /\ r.state[u] = "Ready" /\ k.state[u] = "Current"
              /\ r.success[u] = FALSE /\ u = c
    BY <1>1, <1>2, <2>3
  <2>. QED  BY <2>3, <2>4, <2>5, <2>6, <2>7 DEF r, c
<1>3. CASE k.state[c] # "Current"
  <2>1. r = k
    BY <1>3
  <2>2. k.state[NullTask] = "Ready" /\ \A u \in Task : k.state[u] # "Current"
    BY <1>1, <1>3
  <2>. HIDE DEF r, c
  <2>. QED  BY <1>1, <2>1, <2>2 DEF SameRest, r, c
<1>. QED  BY <1>2, <1>3

\* The scheduler keeps the kernel sound, and outside interrupts it leaves the CPU
\* to a task that has a right to it.
LEMMA SchedulerSound ==
  ASSUME NEW k, Sound(k)
  PROVE  LET r == scheduler(k)
         IN  /\ Sound(r) /\ Scheduled(k, r)
             /\ k.level > 0 => r = k
             /\ k.level = 0 => Right(r)
             /\ k.state[k.curr] = "Current" /\ k.atomic_level[k.curr] > 0 => r = k
<1>. DEFINE c == k.curr
            r == scheduler(k)
<1>1. /\ Struct(k) /\ Placed(k) /\ k \in Record /\ c \in Task /\ NullTask \in Task
      /\ k.atomic_level[c] \in 0 .. MaxAtomic /\ k.level \in 0 .. MaxNest
      /\ k.priority \in [Task -> Nat] /\ "ready" \in QueueId
      /\ \A u \in Task : k.state[u] = "Current" => u = c
  <2>1. /\ Struct(k) /\ Placed(k)
        /\ \A u \in Task : k.state[u] = "Current" => u = c
    BY DEF Sound
  <2>2. k \in Record
    BY <2>1 DEF Struct
  <2>3. /\ c \in Task /\ k.atomic_level \in [Task -> 0 .. MaxAtomic]
        /\ k.level \in 0 .. MaxNest /\ k.priority \in [Task -> Nat]
    BY <2>2, RecordFields
  <2>4. NullTask \in Task /\ "ready" \in QueueId
    BY KernelAssumption DEF QueueId
  <2>. HIDE DEF c, r
  <2>. QED  BY <2>1, <2>2, <2>3, <2>4
<1>2. CASE k.level # 0
  <2>1. r = k
    BY <1>2 DEF scheduler
  <2>. HIDE DEF r
  <2>. QED  BY <1>2, <2>1 DEF Scheduled, r
<1>3. CASE k.level = 0 /\ Keeps(k)
  <2>1. r = k
    BY <1>3 DEF scheduler, mt_select_task
  <2>2. Right(k)
    <3>1. k.state[c] = "Current"
      BY <1>3 DEF Keeps
    <3>2. ASSUME k.atomic_level[c] = 0, NEW t \in Task, k.state[t] = "Ready"
          PROVE  k.priority[t] <= k.priority[c]
      <4>1. k.queue[t] = "ready"
        BY <1>1, <3>2 DEF Placed
      <4>2. t \in Members(k.q["ready"]) /\ k.q["ready"] \in Seq(Task)
        BY <1>1, <4>1, RecordFields DEF Struct
      <4>3. k.q["ready"] # <<>>
        BY <4>2, EmptyMembers
      <4>. DEFINE u == mt_peeklast(k.q["ready"])
      <4>4. u \in Task /\ k.priority[t] <= k.priority[u]
        BY <1>1, <4>1, <4>3, GetLastStruct
      <4>5. k.priority[u] <= k.priority[c]
        <5>1. k.priority[u] < k.priority[c] \/ k.priority[u] = k.priority[c]
          BY <1>3, <3>2, <4>3 DEF Keeps
        <5>. HIDE DEF u
        <5>. QED  BY <1>1, <4>4, <5>1
      <4>. HIDE DEF u
      <4>. QED  BY <1>1, <4>4, <4>5
    <3>. QED  BY <3>1, <3>2 DEF Right
  <2>. HIDE DEF r
  <2>. QED  BY <1>3, <2>1, <2>2 DEF Scheduled, r
<1>4. CASE k.level = 0 /\ ~Keeps(k)
  <2>. DEFINE k1 == IF k.state[c] = "Current" THEN ready(k, c, FALSE) ELSE k
              t == mt_peeklast(k1.q["ready"])
              k2 == Dequeue(k1, t)
  <2>0. r = [k1 EXCEPT !.q["ready"] = mt_getlast(@), !.queue[t] = NoQueue,
                       !.curr = t, !.state[t] = "Current",
                       !.slice = IF t = c THEN @ ELSE QUANTUM]
    BY <1>4 DEF scheduler, mt_select_task
  <2>1. /\ Struct(k1) /\ Placed(k1) /\ SameRest(k, k1) /\ k1.time_q = k.time_q
        /\ \A u \in Task : k1.state[u] # "Current"
        /\ k1.state[NullTask] = "Ready"
        /\ \A u \in Task :
             \/ /\ k1.state[u] = k.state[u] /\ k1.queue[u] = k.queue[u]
                /\ k1.success[u] = k.success[u]
             \/ /\ k1.state[u] = "Ready" /\ k.state[u] = "Current"
                /\ k1.success[u] = FALSE /\ u = c
    BY <1>4, PutBack
  <2>. HIDE DEF k1
  <2>2. k1.q["ready"] # <<>>
    <3>1. NullTask \in Members(k1.q["ready"]) /\ k1.q["ready"] \in Seq(Task)
      BY <1>1, <2>1, RecordFields DEF Struct, Placed
    <3>. QED  BY <3>1, EmptyMembers
  <2>3. /\ t \in Task /\ k1.queue[t] = "ready"
        /\ \A u \in Task : k1.queue[u] = "ready" => k1.priority[u] <= k1.priority[t]
        /\ [k1 EXCEPT !.q["ready"] = mt_getlast(@), !.queue[t] = NoQueue] = k2
    <3>1. Struct(k1) /\ "ready" \in QueueId
      BY <1>1, <2>1
    <3>. QED  BY <2>2, <3>1, GetLastStruct
  <2>4. /\ Struct(k2)
        /\ k2.queue = [k1.queue EXCEPT ![t] = NoQueue]
        /\ k2.state = k1.state /\ k2.success = k1.success /\ k2.time_q = k1.time_q
        /\ SameRest(k1, k2)
    BY <2>1, <2>3, DequeueStruct
  <2>. HIDE DEF t
  <2>5. r = [k2 EXCEPT !.curr = t, !.state[t] = "Current",
                       !.slice = IF t = c THEN @ ELSE QUANTUM]
    BY <2>0, <2>1, <2>3 DEF Struct, Record
  <2>. HIDE DEF r, k2
  <2>6. k1 \in Record /\ k2 \in Record /\ QUANTUM \in 0 .. QUANTUM
    BY <2>1, <2>4, KernelAssumption DEF Struct
  <2>7. /\ r \in Record /\ r.q = k2.q /\ r.queue = k2.queue /\ r.time_q = k2.time_q
        /\ r.state = [k2.state EXCEPT ![t] = "Current"] /\ r.success = k2.success
        /\ r.curr = t /\ r.level = k2.level /\ r.from = k2.from /\ r.priority = k2.priority
        /\ r.atomic_level = k2.atomic_level
    <3>. DEFINE n == IF t = c THEN k2.slice ELSE QUANTUM
    <3>1. n \in 0 .. QUANTUM /\ t \in Task
      BY <2>3, <2>6, RecordFields
    <3>2. r = Given(k2, t, n)
      BY <2>5 DEF Given
    <3>. HIDE DEF n
    <3>. QED  BY <2>6, <3>1, <3>2, RecordGiven
  <2>8. Struct(r)
    BY <2>4, <2>7, StructSame
  <2>9. /\ k1.state \in [Task -> States] /\ k1.queue \in [Task -> QueueId \cup {NoQueue}]
        /\ \A u \in Task : u # t => r.state[u] = k1.state[u] /\ r.queue[u] = k1.queue[u]
        /\ r.state[t] = "Current" /\ r.queue[t] = NoQueue /\ k1.state[t] = "Ready"
        /\ \A u \in Task : r.success[u] = k1.success[u]
    <3>1. k1.state \in [Task -> States] /\ k1.queue \in [Task -> QueueId \cup {NoQueue}]
      BY <2>6, RecordFields
    <3>2. k1.state[t] = "Ready"
      BY <2>1, <2>3, ReadyList
    <3>. QED  BY <2>3, <2>4, <2>7, <3>1, <3>2
  <2>10. t \notin TimeMembers(k1.time_q)
    BY <2>1, <2>3, <2>9 DEF Placed, Timed
  <2>11. Placed(r)
    <3>. SUFFICES ASSUME NEW u \in Task
                  PROVE  /\ r.state[u] = "Ready" => r.queue[u] = "ready"
                         /\ r.state[u] = "Terminated" => r.queue[u] = "terminated"
                         /\ r.state[u] = "Waiting" => r.queue[u] \in Queue
                         /\ r.state[u] = "Sending" => r.queue[u] \in Task \ {u}
                         /\ r.state[u] \notin {"Ready", "Terminated", "Waiting", "Sending"}
                              => r.queue[u] = NoQueue
                         /\ u \in TimeMembers(r.time_q) => r.state[u] \in Timed
      BY DEF Placed
    <3>1. r.time_q = k1.time_q
      BY <2>4, <2>7
    <3>2. CASE u = t
      BY <2>9, <2>10, <3>1, <3>2
    <3>3. CASE u # t
      <4>1. r.state[u] = k1.state[u] /\ r.queue[u] = k1.queue[u]
        BY <2>9, <3>3
      <4>. QED  BY <2>1, <3>1, <4>1 DEF Placed
    <3>. QED  BY <3>2, <3>3
  <2>12. Sound(r)
    <3>1. \A u \in Task : r.state[u] = "Current" => u = r.curr
      BY <2>1, <2>7, <2>9
    <3>2. r.state[NullTask] \in {"Ready", "Current"}
      BY <1>1, <2>1, <2>9
    <3>. QED  BY <2>8, <2>11, <3>1, <3>2 DEF Sound
  <2>13. Right(r)
    <3>1. r.priority = k1.priority
      BY <2>4, <2>7 DEF SameRest
    <3>2. ASSUME NEW u \in Task, r.state[u] = "Ready"
          PROVE  r.priority[u] <= r.priority[t]
      <4>1. k1.queue[u] = "ready"
        BY <2>1, <2>9, <3>2 DEF Placed
      <4>. QED  BY <2>3, <3>1, <4>1
    <3>. QED  BY <2>3, <2>7, <2>9, <3>2 DEF Right
  <2>14. Scheduled(k, r)
    <3>1. /\ r.time_q = k.time_q /\ r.priority = k.priority /\ r.atomic_level = k.atomic_level
          /\ r.from = k.from /\ r.level = k.level
      BY <2>1, <2>4, <2>7 DEF SameRest
    <3>2. ASSUME NEW u \in Task
          PROVE  \/ /\ r.state[u] = k.state[u] /\ r.queue[u] = k.queue[u] /\ r.success[u] = k.success[u]
                 \/ /\ r.state[u] \in {"Ready", "Current"} /\ k.state[u] \in {"Ready", "Current"}
                    /\ \/ r.success[u] = k.success[u]
                       \/ r.success[u] = FALSE /\ u = k.curr /\ k.state[u] = "Current"
      BY <2>1, <2>9
    <3>. QED  BY <3>1, <3>2 DEF Scheduled
  <2>15. ~(k.state[c] = "Current" /\ k.atomic_level[c] > 0)
    BY <1>4 DEF Keeps
  <2>. QED  BY <1>4, <2>12, <2>13, <2>14, <2>15 DEF r
<1>. QED  BY <1>1, <1>2, <1>3, <1>4

-----------------------------------------------------------------------------
(***************************************************************************)
(* What keeps the invariant.                                               *)
(***************************************************************************)

\* The place of a task in state st may be x.
PlaceOf(t, st, x) ==
  /\ st = "Ready" => x = "ready"
  /\ st = "Terminated" => x = "terminated"
  /\ st = "Waiting" => x \in Queue
  /\ st = "Sending" => x \in Task \ {t}
  /\ st \notin {"Ready", "Terminated", "Waiting", "Sending"} => x = NoQueue

\* One task goes to another state and to the list that goes with it.
LEMMA SoundMove ==
  ASSUME NEW k, Sound(k), NEW r, Struct(r), NEW t \in Task, NEW st, NEW x,
         r.state = [k.state EXCEPT ![t] = st], r.queue = [k.queue EXCEPT ![t] = x],
         r.curr = k.curr, st # "Current", t # NullTask \/ st = "Ready", PlaceOf(t, st, x),
         TimeMembers(r.time_q) \subseteq TimeMembers(k.time_q) \cup {t},
         t \in TimeMembers(r.time_q) => st \in Timed
  PROVE  Sound(r)
<1>1. /\ Struct(k) /\ Placed(k) /\ NullTask \in Task
      /\ \A u \in Task : k.state[u] = "Current" => u = k.curr
      /\ k.state[NullTask] \in {"Ready", "Current"}
      /\ k.state \in [Task -> States] /\ k.queue \in [Task -> QueueId \cup {NoQueue}]
  BY RecordFields, KernelAssumption DEF Sound, Struct
<1>2. /\ r.state[t] = st /\ r.queue[t] = x
      /\ \A u \in Task : u # t => r.state[u] = k.state[u] /\ r.queue[u] = k.queue[u]
  BY <1>1
<1>3. Placed(r)
  <2>. SUFFICES ASSUME NEW u \in Task
                PROVE  /\ PlaceOf(u, r.state[u], r.queue[u])
                       /\ u \in TimeMembers(r.time_q) => r.state[u] \in Timed
    BY DEF Placed, PlaceOf
  <2>1. CASE u = t
    BY <1>2, <2>1
  <2>2. CASE u # t
    <3>1. r.state[u] = k.state[u] /\ r.queue[u] = k.queue[u]
      BY <1>2, <2>2
    <3>2. u \in TimeMembers(r.time_q) => u \in TimeMembers(k.time_q)
      BY <2>2
    <3>. QED  BY <1>1, <3>1, <3>2 DEF Placed, PlaceOf
  <2>. QED  BY <2>1, <2>2
<1>4. \A u \in Task : r.state[u] = "Current" => u = r.curr
  BY <1>1, <1>2
<1>5. r.state[NullTask] \in {"Ready", "Current"}
  BY <1>1, <1>2
<1>. QED  BY <1>3, <1>4, <1>5 DEF Sound

\* States in which a task is in no list of the program's and may have left any call.
Loose == {"Ready", "Current", "Suspended", "Delaying"}

\* Tasks that are alive may become loose, if they report a success only when served.
LEMMA GoodMoves ==
  ASSUME NEW k, NEW c, NEW s, Good(k, c, s), NEW r, Sound(r),
         \A u \in Task : r.state[u] = "Receiving" => r.from[u] = k.from[u],
         r.level > 0 => c[r.curr].op \notin BlockingOp,
         \A u \in Task :
           \/ /\ r.state[u] = k.state[u] /\ r.queue[u] = k.queue[u]
              /\ r.success[u] => k.success[u]
           \/ /\ r.state[u] \in Loose /\ k.state[u] \notin Dead
              /\ r.success[u] => s[u] /\ c[u].op \in BlockingOp
  PROVE  Good(r, c, s)
<1>1. /\ Sound(k) /\ InCalls(k, c) /\ Deletions(k, c) /\ NoOrphans(k) /\ Rendezvous(k)
      /\ Honest(k, c, s)
  BY DEF Good
<1>2. ASSUME NEW u \in Task, r.state[u] \in Loose PROVE r.queue[u] \notin Task
  BY <1>2, KernelAssumption DEF Sound, Placed, Loose, QueueId
<1>3. \A t \in Task : NoSenders(k, t) => NoSenders(r, t)
  BY <1>2 DEF NoSenders
<1>4. InCalls(r, c)
  BY <1>1 DEF InCalls, Loose
<1>5. \A u \in Task : r.state[u] \in Dead <=> k.state[u] \in Dead
  BY DEF Loose, Dead
<1>6. Deletions(r, c)
  BY <1>1, <1>3, <1>5 DEF Deletions
<1>7. NoOrphans(r)
  BY <1>1, <1>3, <1>5 DEF NoOrphans
<1>8. Rendezvous(r)
  BY <1>1 DEF Rendezvous, Loose
<1>9. Honest(r, c, s)
  BY <1>1 DEF Honest
<1>. QED  BY <1>4, <1>6, <1>7, <1>8, <1>9 DEF Good

\* The scheduler keeps the invariant.
LEMMA GoodScheduler ==
  ASSUME NEW k, NEW c, NEW s, Good(k, c, s)
  PROVE  LET r == scheduler(k)
         IN  /\ Good(r, c, s) /\ Scheduled(k, r)
             /\ r.level = 0 => Right(r)
             /\ k.state[k.curr] = "Current" /\ k.atomic_level[k.curr] > 0 => r = k
<1>. DEFINE r == scheduler(k)
<1>1. Sound(k) /\ InCalls(k, c) /\ Honest(k, c, s)
  BY DEF Good
<1>2. /\ Sound(r) /\ Scheduled(k, r)
      /\ k.level > 0 => r = k
      /\ k.level = 0 => Right(r)
      /\ k.state[k.curr] = "Current" /\ k.atomic_level[k.curr] > 0 => r = k
  BY <1>1, SchedulerSound
<1>. HIDE DEF r
<1>3. r.from = k.from /\ r.level = k.level
  BY <1>2 DEF Scheduled
<1>4. r.level > 0 => c[r.curr].op \notin BlockingOp
  BY <1>1, <1>2, <1>3 DEF InCalls
<1>5. ASSUME NEW u \in Task
      PROVE  \/ /\ r.state[u] = k.state[u] /\ r.queue[u] = k.queue[u]
                /\ r.success[u] => k.success[u]
             \/ /\ r.state[u] \in Loose /\ k.state[u] \notin Dead
                /\ r.success[u] => s[u] /\ c[u].op \in BlockingOp
  BY <1>1, <1>2 DEF Scheduled, Loose, Dead, Honest
<1>6. Good(r, c, s)
  BY <1>2, <1>3, <1>4, <1>5, GoodMoves
<1>. QED  BY <1>2, <1>3, <1>6 DEF r

\* So does making a task ready, if it reports a success only when served.
LEMMA GoodReady ==
  ASSUME NEW k, NEW c, NEW s, Good(k, c, s), NEW t \in Task, NEW ok, Outcome(ok),
         k.state[t] \notin Dead, ok => s[t] /\ c[t].op \in BlockingOp
  PROVE  Good(ready(k, t, ok), c, s)
<1>. DEFINE r == ready(k, t, ok)
<1>1. Sound(k) /\ Struct(k) /\ InCalls(k, c)
  BY DEF Good, Sound
<1>2. CASE k.state[t] = "Ready"
  BY <1>2 DEF ready
<1>3. CASE k.state[t] # "Ready"
  <2>1. /\ Struct(r)
        /\ r.queue = [k.queue EXCEPT ![t] = "ready"]
        /\ r.state = [k.state EXCEPT ![t] = "Ready"]
        /\ r.success = [k.success EXCEPT ![t] = ok]
        /\ TimeMembers(r.time_q) = TimeMembers(k.time_q) \ {t}
        /\ SameRest(k, r)
    <3>1. Readied(k, t, ok, r)
      BY <1>1, <1>3, ReadyStruct
    <3>. QED  BY <3>1 DEF Readied
  <2>. HIDE DEF r
  <2>2. PlaceOf(t, "Ready", "ready")
    BY DEF PlaceOf
  <2>3. r.curr = k.curr /\ r.from = k.from /\ r.level = k.level
    BY <2>1 DEF SameRest
  <2>4. Sound(r)
    BY <1>1, <2>1, <2>2, <2>3, SoundMove
  <2>5. r.level > 0 => c[r.curr].op \notin BlockingOp
    BY <1>1, <2>3 DEF InCalls
  <2>6. /\ k.state \in [Task -> States] /\ k.queue \in [Task -> QueueId \cup {NoQueue}]
        /\ k.success \in [Task -> BOOLEAN]
    BY <1>1, RecordFields DEF Struct
  <2>7. ASSUME NEW u \in Task
        PROVE  \/ /\ r.state[u] = k.state[u] /\ r.queue[u] = k.queue[u]
                  /\ r.success[u] => k.success[u]
               \/ /\ r.state[u] \in Loose /\ k.state[u] \notin Dead
                  /\ r.success[u] => s[u] /\ c[u].op \in BlockingOp
    BY <2>1, <2>6 DEF Loose
  <2>8. Good(r, c, s)
    BY <2>3, <2>4, <2>5, <2>7, GoodMoves
  <2>. QED  BY <2>8 DEF r
<1>. QED  BY <1>2, <1>3

-----------------------------------------------------------------------------
(***************************************************************************)
(* The loops that wake tasks: the functions that define them exist, and    *)
(* every step of theirs makes one more task ready.                         *)
(***************************************************************************)

\* One turn of the loop of FlushQueue.
WakeLast(j, id, ok) ==
  LET t == mt_peeklast(j.q[id])
  IN  ready([j EXCEPT !.q[id] = mt_getlast(@), !.queue[t] = NoQueue], t, ok)

\* WakeAll is a run of WakeLast over the length of the queue.
LEMMA WakeAllRuns ==
  ASSUME NEW k, NEW id, NEW ok, Len(k.q[id]) \in Nat
  PROVE  \E w : /\ w[0] = k
                /\ \A n \in 1 .. Len(k.q[id]) : w[n] = WakeLast(w[n - 1], id, ok)
                /\ WakeAll(k, id, ok) = w[Len(k.q[id])]
<1>. DEFINE L == Len(k.q[id])
            Runs(w, N) == w = [n \in 0 .. N |-> IF n = 0 THEN k ELSE WakeLast(w[n - 1], id, ok)]
            solved == {N \in Nat : \E w : Runs(w, N)}
<1>1. 0 \in solved
  <2>1. Runs([n \in 0 .. 0 |-> k], 0)
    OBVIOUS
  <2>. QED  BY <2>1
<1>2. ASSUME NEW N \in Nat, N \in solved
      PROVE  N + 1 \in solved
  <2>1. PICK w : Runs(w, N)
    BY <1>2
  <2>. DEFINE last == WakeLast(w[N], id, ok)
              g == [n \in 0 .. N + 1 |-> IF n <= N THEN w[n] ELSE last]
  <2>2. ASSUME NEW n \in 0 .. N + 1
        PROVE  g[n] = IF n = 0 THEN k ELSE WakeLast(g[n - 1], id, ok)
    <3>1. CASE n = 0
      <4>1. w[0] = k
        BY <2>1
      <4>. QED  BY <3>1, <4>1
    <3>2. CASE n \in 1 .. N
      <4>1. n \in 0 .. N /\ n - 1 \in 0 .. N /\ n - 1 \in 0 .. N + 1 /\ n <= N /\ n - 1 <= N /\ n # 0
        BY <3>2
      <4>2. w[n] = WakeLast(w[n - 1], id, ok)
        BY <2>1, <4>1
      <4>3. g[n] = w[n] /\ g[n - 1] = w[n - 1]
        BY <4>1
      <4>. QED  BY <4>1, <4>2, <4>3
    <3>3. CASE n = N + 1
      <4>1. n # 0 /\ ~(n <= N) /\ n - 1 = N /\ N \in 0 .. N + 1 /\ N <= N
        BY <3>3
      <4>2. g[n] = last /\ g[N] = w[N]
        BY <4>1
      <4>. QED  BY <3>3, <4>1, <4>2
    <3>. QED  BY <3>1, <3>2, <3>3
  <2>3. g = [n \in 0 .. N + 1 |-> IF n = 0 THEN k ELSE WakeLast(g[n - 1], id, ok)]
    BY <2>2
  <2>4. Runs(g, N + 1)
    BY <2>3
  <2>5. \E h : Runs(h, N + 1)
    BY <2>4
  <2>. HIDE DEF Runs
  <2>. QED  BY <2>5
<1>3. L \in solved
  <2>1. \A n \in 0 .. L - 1 : n \in solved => n + 1 \in solved
    BY <1>2
  <2>2. L \in Nat /\ L \in 0 .. L
    OBVIOUS
  <2>. HIDE DEF solved, L
  <2>. QED  BY <1>1, <2>1, <2>2, UpTo
<1>. DEFINE wake == CHOOSE w : Runs(w, L)
<1>4. WakeAll(k, id, ok) = wake[L]
  BY DEF WakeAll, WakeLast
<1>5. Runs(wake, L)
  BY <1>3
<1>. HIDE DEF wake
<1>6. wake[0] = k /\ \A n \in 1 .. L : wake[n] = WakeLast(wake[n - 1], id, ok)
  <2>1. L \in Nat
    OBVIOUS
  <2>. HIDE DEF L
  <2>2. 0 \in 0 .. L /\ \A n \in 1 .. L : n \in 0 .. L /\ n # 0
    BY <2>1
  <2>. QED  BY <1>5, <2>2
<1>. QED  BY <1>4, <1>6

\* A task in a list of the program's waits or sends.
LEMMA InList ==
  ASSUME NEW k, Sound(k), NEW t \in Task, k.queue[t] \in Queue \cup Task
  PROVE  /\ k.queue[t] \in Queue => k.state[t] = "Waiting"
         /\ k.queue[t] \in Task => k.state[t] = "Sending"
<1>1. k.state[t] \in States /\ k.queue[t] \in QueueId
  BY RecordFields DEF Sound, Struct, QueueId
<1>2. "ready" \notin Queue \cup Task /\ "terminated" \notin Queue \cup Task /\ NoQueue \notin QueueId
      /\ Queue \cap Task = {}
  BY KernelAssumption
<1>. QED  BY <1>1, <1>2 DEF Sound, Placed, States

\* Every task of a list has been served.
AllServed(k, id, s, ok) == \A u \in Task : k.queue[u] = id /\ ok => s[u]

\* The record r is j with t, of the list id, taken off it and made ready.
WokenFrom(j, id, t, ok, r) ==
  /\ Readied(j, t, ok, r)
  /\ j.queue[t] = id
  /\ Len(r.q[id]) = Len(j.q[id]) - 1

\* Waking the last task of a queue keeps the kernel good.
LEMMA WakeLastGood ==
  ASSUME NEW j, NEW c, NEW s, Good(j, c, s), NEW id \in Queue \cup Task, NEW ok, Outcome(ok),
         j.q[id] # <<>>, AllServed(j, id, s, ok)
  PROVE  LET t == mt_peeklast(j.q[id])
             r == WakeLast(j, id, ok)
         IN  Good(r, c, s) /\ t \in Task /\ WokenFrom(j, id, t, ok, r)
<1>. DEFINE t == mt_peeklast(j.q[id])
            j1 == Dequeue(j, t)
            r == WakeLast(j, id, ok)
<1>1. /\ Sound(j) /\ Struct(j) /\ InCalls(j, c) /\ id \in QueueId
      /\ id # "ready" /\ id # NoQueue
  BY KernelAssumption DEF Good, Sound, QueueId
<1>2. /\ t \in Task /\ j.queue[t] = id
      /\ [j EXCEPT !.q[id] = mt_getlast(@), !.queue[t] = NoQueue] = j1
      /\ Len(j1.q[id]) = Len(j.q[id]) - 1
  BY <1>1, GetLastStruct
<1>3. r = ready(j1, t, ok)
  BY <1>2 DEF WakeLast
<1>. HIDE DEF t
<1>4. j.state[t] \in {"Waiting", "Sending"}
  BY <1>1, <1>2, InList
<1>5. c[t].op \in BlockingOp
  BY <1>1, <1>2, <1>4 DEF InCalls
<1>6. r = ready(j, t, ok)
  BY <1>1, <1>2, <1>3, <1>4, ReadyLast
<1>7. Good(r, c, s)
  BY <1>2, <1>4, <1>5, <1>6, GoodReady DEF Dead, AllServed
<1>8. Readied(j, t, ok, r)
  <2>1. Struct(j) /\ t \in Task /\ j.state[t] # "Ready"
    BY <1>1, <1>2, <1>4
  <2>. HIDE DEF r
  <2>. QED  BY <1>6, <2>1, ReadyStruct
<1>9. r.q[id] = j1.q[id]
  <2>1. Struct(j1) /\ j1.queue = [j.queue EXCEPT ![t] = NoQueue] /\ j1.state = j.state
    BY <1>1, <1>2, DequeueStruct
  <2>2. j.queue \in [Task -> QueueId \cup {NoQueue}]
    BY <1>1, RecordFields DEF Struct
  <2>. HIDE DEF j1
  <2>3. j1.queue[t] = NoQueue /\ j1.state[t] # "Ready"
    BY <1>2, <1>4, <2>1, <2>2
  <2>. HIDE DEF r
  <2>4. j1 \in Record /\ t \in Task /\ id # j1.queue[t]
    BY <1>1, <1>2, <2>1, <2>3 DEF Struct
  <2>. QED  BY <1>1, <1>3, <2>3, <2>4, ReadyOthers
<1>. HIDE DEF r, j1
<1>. QED  BY <1>2, <1>7, <1>8, <1>9 DEF r, t, WokenFrom

\* The record r is k with tasks of the list id made ready.
Flushed(k, id, ok, r) ==
  /\ \A u \in Task :
       \/ r.state[u] = k.state[u] /\ r.queue[u] = k.queue[u] /\ r.success[u] = k.success[u]
       \/ /\ k.queue[u] = id /\ r.state[u] = "Ready"
          /\ r.queue[u] = "ready" /\ r.success[u] = ok
  /\ TimeMembers(r.time_q) \subseteq TimeMembers(k.time_q)
  /\ StillExact(k.time_q, r.time_q)
  /\ SameRest(k, r)

\* Waking a whole list empties it and touches no other task.
LEMMA WakeAllGood ==
  ASSUME NEW k, NEW c, NEW s, Good(k, c, s), NEW id \in Queue \cup Task, NEW ok, Outcome(ok),
         AllServed(k, id, s, ok)
  PROVE  LET r == WakeAll(k, id, ok)
         IN  Good(r, c, s) /\ NoSenders(r, id) /\ Flushed(k, id, ok, r)
<1>. DEFINE L == Len(k.q[id])
            Woken(r) == Good(r, c, s) /\ Flushed(k, id, ok, r)
<1>1. id \in QueueId /\ id # "ready"
  BY KernelAssumption DEF QueueId
<1>2. L \in Nat
  BY <1>1, RecordFields DEF Good, Sound, Struct
<1>3. PICK w : /\ w[0] = k
               /\ \A n \in 1 .. L : w[n] = WakeLast(w[n - 1], id, ok)
               /\ WakeAll(k, id, ok) = w[L]
  BY <1>2, WakeAllRuns
<1>. DEFINE done == {n \in 0 .. L : Woken(w[n]) /\ Len(w[n].q[id]) = L - n}
<1>4. 0 \in done
  <2>1. Woken(k)
    BY DEF SameRest, StillExact, Flushed
  <2>. QED  BY <1>2, <1>3, <2>1
<1>5. ASSUME NEW n \in 0 .. L - 1, n \in done
      PROVE  n + 1 \in done
  <2>. DEFINE j == w[n]
              t == mt_peeklast(j.q[id])
              r == w[n + 1]
  <2>1. Woken(j) /\ Len(j.q[id]) = L - n
    BY <1>5
  <2>2. n + 1 \in 1 .. L /\ n + 1 \in 0 .. L /\ (n + 1) - 1 = n /\ L - n > 0
        /\ (L - n) - 1 = L - (n + 1)
    BY <1>2
  <2>3. r = WakeLast(j, id, ok)
    BY <1>3, <2>2
  <2>4. j.q[id] \in Seq(Task) /\ j.q[id] # <<>>
    <3>1. j.q[id] \in Seq(Task)
      BY <1>1, <2>1, RecordFields DEF Good, Sound, Struct
    <3>. QED  BY <2>1, <2>2, <3>1
  <2>. HIDE DEF j, r, L
  <2>5. AllServed(j, id, s, ok)
    BY <1>1, <2>1 DEF AllServed, Flushed
  <2>6. /\ Good(r, c, s)
        /\ Len(r.q[id]) = Len(j.q[id]) - 1
        /\ t \in Task /\ j.queue[t] = id
        /\ r.queue = [j.queue EXCEPT ![t] = "ready"]
        /\ r.state = [j.state EXCEPT ![t] = "Ready"]
        /\ r.success = [j.success EXCEPT ![t] = ok]
        /\ TimeMembers(r.time_q) \subseteq TimeMembers(j.time_q)
        /\ StillExact(j.time_q, r.time_q)
        /\ SameRest(j, r)
    <3>1. Good(j, c, s) /\ j.q[id] # <<>>
      BY <2>1, <2>4
    <3>. HIDE DEF Woken, done
    <3>2. Good(r, c, s) /\ t \in Task /\ WokenFrom(j, id, t, ok, r)
      BY <2>3, <2>5, <3>1, WakeLastGood
    <3>. HIDE DEF t
    <3>. QED  BY <3>2 DEF WokenFrom, Readied
  <2>. HIDE DEF t
  <2>7. /\ j.state \in [Task -> States] /\ j.queue \in [Task -> QueueId \cup {NoQueue}]
        /\ j.success \in [Task -> BOOLEAN]
    BY <2>1, RecordFields DEF Good, Sound, Struct
  <2>8. ASSUME NEW u \in Task
        PROVE  \/ /\ r.state[u] = k.state[u] /\ r.queue[u] = k.queue[u]
                  /\ r.success[u] = k.success[u]
               \/ /\ k.queue[u] = id /\ r.state[u] = "Ready"
                  /\ r.queue[u] = "ready" /\ r.success[u] = ok
    <3>1. CASE u = t
      <4>1. r.state[u] = "Ready" /\ r.queue[u] = "ready" /\ r.success[u] = ok
        BY <2>6, <2>7, <3>1
      <4>2. k.queue[u] = id
        BY <1>1, <2>1, <2>6, <3>1 DEF Flushed
      <4>. QED  BY <4>1, <4>2
    <3>2. CASE u # t
      <4>1. r.state[u] = j.state[u] /\ r.queue[u] = j.queue[u] /\ r.success[u] = j.success[u]
        BY <2>6, <2>7, <3>2
      <4>. QED  BY <2>1, <4>1 DEF Flushed
    <3>. QED  BY <3>1, <3>2
  <2>9. SameRest(k, r)
    BY <2>1, <2>6 DEF SameRest, Flushed
  <2>10. StillExact(k.time_q, r.time_q)
    BY <2>1, <2>6 DEF StillExact, Flushed
  <2>11. TimeMembers(r.time_q) \subseteq TimeMembers(k.time_q)
    BY <2>1, <2>6 DEF Flushed
  <2>12. Woken(r)
    BY <2>6, <2>8, <2>9, <2>10, <2>11 DEF Flushed
  <2>13. Len(r.q[id]) = L - (n + 1)
    BY <2>1, <2>2, <2>6
  <2>. HIDE DEF Woken
  <2>. QED  BY <2>2, <2>12, <2>13 DEF r
<1>6. L \in done
  <2>1. L \in 0 .. L
    BY <1>2
  <2>. HIDE DEF done, L
  <2>. QED  BY <1>2, <1>4, <1>5, <2>1, UpTo
<1>. DEFINE r == WakeAll(k, id, ok)
<1>7. Woken(r) /\ Len(r.q[id]) = 0
  BY <1>2, <1>3, <1>6
<1>. HIDE DEF r, L
<1>8. NoSenders(r, id)
  <2>1. r.q[id] \in Seq(Task) /\ Members(r.q[id]) = {u \in Task : r.queue[u] = id}
    BY <1>1, <1>7, RecordFields DEF Good, Sound, Struct
  <2>2. r.q[id] = <<>>
    BY <1>7, <2>1
  <2>. QED  BY <2>1, <2>2, EmptyMembers DEF NoSenders
<1>. QED  BY <1>7, <1>8 DEF r

\* One turn of the loop of clockint that wakes the tasks whose time has come.
WakeFirst(j) ==
  ready([j EXCEPT !.time_q = mt_getfirst_time(@)], mt_peekfirst_time(j.time_q).task, FALSE)

\* The entries of the time queue whose time has come.
Due(tq) ==
  CHOOSE n \in 0 .. Len(tq) : /\ \A i \in 1 .. n : tq[i].ticks = 0
                              /\ n < Len(tq) => tq[n + 1].ticks > 0

\* The tasks that are due are a prefix of the time queue.
LEMMA DueExists ==
  ASSUME NEW tq \in Seq(Entry(Task))
  PROVE  /\ Due(tq) \in 0 .. Len(tq)
         /\ \A i \in 1 .. Due(tq) : tq[i].ticks = 0
         /\ Due(tq) < Len(tq) => tq[Due(tq) + 1].ticks > 0
<1>. DEFINE Stop(n) == /\ \A i \in 1 .. n : tq[i].ticks = 0
                       /\ n < Len(tq) => tq[n + 1].ticks > 0
            late == {i \in 1 .. Len(tq) : tq[i].ticks > 0}
<1>1. Len(tq) \in Nat /\ \A i \in 1 .. Len(tq) : tq[i].ticks \in Nat
  BY EntryTicks
<1>2. \E n \in 0 .. Len(tq) : Stop(n)
  <2>1. CASE late = {}
    <3>1. Len(tq) \in 0 .. Len(tq) /\ Stop(Len(tq))
      BY <1>1, <2>1
    <3>. QED  BY <3>1
  <2>2. CASE late # {}
    <3>1. PICK m \in late : \A n \in late : m <= n
      <4>1. late \in SUBSET Nat
        OBVIOUS
      <4>. HIDE DEF late
      <4>. QED  BY <2>2, <4>1, LeastNat
    <3>2. m - 1 \in 0 .. Len(tq) /\ m \in 1 .. Len(tq) /\ (m - 1) + 1 = m
      BY <1>1
    <3>3. \A i \in 1 .. m - 1 : tq[i].ticks = 0
      <4>. SUFFICES ASSUME NEW i \in 1 .. m - 1 PROVE tq[i].ticks = 0
        OBVIOUS
      <4>1. i \in 1 .. Len(tq) /\ ~(m <= i)
        BY <1>1, <3>2
      <4>. QED  BY <1>1, <3>1, <4>1
    <3>4. Stop(m - 1)
      BY <3>2, <3>3
    <3>. HIDE DEF Stop
    <3>. QED  BY <3>2, <3>4
  <2>. QED  BY <2>1, <2>2
<1>3. Due(tq) = CHOOSE n \in 0 .. Len(tq) : Stop(n)
  BY DEF Due
<1>4. Due(tq) \in 0 .. Len(tq) /\ Stop(Due(tq))
  <2>. HIDE DEF Stop
  <2>. QED  BY <1>2, <1>3
<1>. QED  BY <1>4

\* The clock interrupt is a run of WakeFirst over the tasks that are due.
LEMMA ClockRuns ==
  ASSUME NEW k, k.time_q \in Seq(Entry(Task))
  PROVE  \E w : /\ w[0] = [k EXCEPT !.slice = IF @ > 0 THEN @ - 1 ELSE 0]
                /\ \A n \in 1 .. Due(k.time_q) : w[n] = WakeFirst(w[n - 1])
                /\ clockint(k) = LET rest == w[Due(k.time_q)]
                                 IN  IF rest.time_q = <<>> THEN rest
                                     ELSE [rest EXCEPT !.time_q[1].ticks = @ - 1]
<1>. DEFINE L == Due(k.time_q)
            a == [k EXCEPT !.slice = IF @ > 0 THEN @ - 1 ELSE 0]
            Runs(w, N) == w = [n \in 0 .. N |-> IF n = 0 THEN a ELSE WakeFirst(w[n - 1])]
            solved == {N \in Nat : \E w : Runs(w, N)}
<1>0. L \in Nat
  BY DueExists
<1>. DEFINE wake == CHOOSE w : Runs(w, L)
<1>4. clockint(k) = LET rest == wake[L]
                    IN  IF rest.time_q = <<>> THEN rest
                        ELSE [rest EXCEPT !.time_q[1].ticks = @ - 1]
  BY DEF clockint, WakeFirst, Due
<1>. HIDE DEF a, L
<1>1. 0 \in solved
  <2>1. Runs([n \in 0 .. 0 |-> a], 0)
    OBVIOUS
  <2>. QED  BY <2>1
<1>2. ASSUME NEW N \in Nat, N \in solved
      PROVE  N + 1 \in solved
  <2>1. PICK w : Runs(w, N)
    BY <1>2
  <2>. DEFINE last == WakeFirst(w[N])
              g == [n \in 0 .. N + 1 |-> IF n <= N THEN w[n] ELSE last]
  <2>2. ASSUME NEW n \in 0 .. N + 1
        PROVE  g[n] = IF n = 0 THEN a ELSE WakeFirst(g[n - 1])
    <3>1. CASE n = 0
      <4>1. w[0] = a
        BY <2>1
      <4>. QED  BY <3>1, <4>1
    <3>2. CASE n \in 1 .. N
      <4>1. n \in 0 .. N /\ n - 1 \in 0 .. N /\ n - 1 \in 0 .. N + 1 /\ n <= N /\ n - 1 <= N /\ n # 0
        BY <3>2
      <4>2. w[n] = WakeFirst(w[n - 1])
        BY <2>1, <4>1
      <4>3. g[n] = w[n] /\ g[n - 1] = w[n - 1]
        BY <4>1
      <4>. QED  BY <4>1, <4>2, <4>3
    <3>3. CASE n = N + 1
      <4>1. n # 0 /\ ~(n <= N) /\ n - 1 = N /\ N \in 0 .. N + 1 /\ N <= N
        BY <3>3
      <4>2. g[n] = last /\ g[N] = w[N]
        BY <4>1
      <4>. QED  BY <3>3, <4>1, <4>2
    <3>. QED  BY <3>1, <3>2, <3>3
  <2>3. g = [n \in 0 .. N + 1 |-> IF n = 0 THEN a ELSE WakeFirst(g[n - 1])]
    BY <2>2
  <2>4. Runs(g, N + 1)
    BY <2>3
  <2>5. \E h : Runs(h, N + 1)
    BY <2>4
  <2>. HIDE DEF Runs
  <2>. QED  BY <2>5
<1>3. L \in solved
  <2>1. \A n \in 0 .. L - 1 : n \in solved => n + 1 \in solved
    BY <1>0, <1>2
  <2>2. L \in 0 .. L
    BY <1>0
  <2>. HIDE DEF solved
  <2>. QED  BY <1>0, <1>1, <2>1, <2>2, UpTo
<1>5. Runs(wake, L)
  BY <1>3
<1>. HIDE DEF wake
<1>6. wake[0] = a /\ \A n \in 1 .. L : wake[n] = WakeFirst(wake[n - 1])
  <2>1. 0 \in 0 .. L /\ \A n \in 1 .. L : n \in 0 .. L /\ n # 0
    BY <1>0
  <2>. QED  BY <1>5, <2>1
<1>. QED  BY <1>4, <1>6 DEF a, L

\* Every field but the slice and those of the lists is as before.
SameButSlice(k, r) ==
  /\ r.priority = k.priority /\ r.atomic_level = k.atomic_level /\ r.from = k.from
  /\ r.curr = k.curr /\ r.level = k.level

\* The record r is k with tasks of the time queue timed out.
TimedOut(k, r) ==
  /\ \A u \in Task :
       \/ r.state[u] = k.state[u] /\ r.queue[u] = k.queue[u] /\ r.success[u] = k.success[u]
       \/ /\ k.state[u] \in Timed /\ r.state[u] = "Ready"
          /\ r.queue[u] = "ready" /\ r.success[u] = FALSE
  /\ TimeMembers(r.time_q) \subseteq TimeMembers(k.time_q)
  /\ SameButSlice(k, r)

\* The record is k without the first n entries of its time queue.
Dropped(k, n, r) ==
  /\ Len(r.time_q) = Len(k.time_q) - n
  /\ \A i \in 1 .. Len(k.time_q) - n : r.time_q[i] = k.time_q[i + n]

\* A time queue shortened, with no task in a new place.
LEMMA GoodTimeQueue ==
  ASSUME NEW k, NEW c, NEW s, Good(k, c, s), NEW tq \in Seq(Entry(Task)), TimeDistinct(tq),
         TimeMembers(tq) \subseteq TimeMembers(k.time_q)
  PROVE  LET r == [k EXCEPT !.time_q = tq]
         IN  /\ Good(r, c, s) /\ r.time_q = tq
             /\ r.queue = k.queue /\ r.state = k.state /\ r.success = k.success
             /\ SameRest(k, r)
<1>. DEFINE r == [k EXCEPT !.time_q = tq]
<1>1. Sound(k) /\ Struct(k) /\ InCalls(k, c)
  BY DEF Good, Sound
<1>2. /\ Struct(r) /\ r.time_q = tq
      /\ r.queue = k.queue /\ r.state = k.state /\ r.success = k.success /\ r.q = k.q
      /\ SameRest(k, r)
  BY <1>1, TimeQueueStruct
<1>. HIDE DEF r
<1>3. Sound(r)
  <2>1. Placed(r)
    BY <1>1, <1>2 DEF Sound, Placed
  <2>. QED  BY <1>1, <1>2, <2>1 DEF Sound, SameRest
<1>4. r.from = k.from /\ (r.level > 0 => c[r.curr].op \notin BlockingOp)
  BY <1>1, <1>2 DEF SameRest, InCalls
<1>5. \A u \in Task : /\ r.state[u] = k.state[u] /\ r.queue[u] = k.queue[u]
                      /\ r.success[u] => k.success[u]
  BY <1>2
<1>6. Good(r, c, s)
  BY <1>3, <1>4, <1>5, GoodMoves
<1>. QED  BY <1>2, <1>6 DEF r

\* A timeout keeps the kernel good and the other tasks in time.
LEMMA WakeFirstGood ==
  ASSUME NEW j, NEW c, NEW s, Good(j, c, s), j.time_q # <<>>, j.time_q[1].ticks = 0
  PROVE  LET r == WakeFirst(j)
         IN  Good(r, c, s) /\ TimedOut(j, r) /\ Dropped(j, 1, r) /\ StillExact(j.time_q, r.time_q)
<1>. DEFINE t == mt_peekfirst_time(j.time_q).task
            tq == mt_getfirst_time(j.time_q)
            j1 == [j EXCEPT !.time_q = tq]
            r == WakeFirst(j)
<1>1. /\ Sound(j) /\ Struct(j) /\ Placed(j) /\ j \in Record
      /\ j.time_q \in Seq(Entry(Task)) /\ TimeDistinct(j.time_q)
  BY RecordFields DEF Good, Sound, Struct
<1>2. /\ tq \in Seq(Entry(Task)) /\ Len(tq) = Len(j.time_q) - 1
      /\ \A i \in 1 .. Len(j.time_q) - 1 : tq[i] = j.time_q[i + 1]
      /\ TimeMembers(tq) = TimeMembers(j.time_q) \ {t}
      /\ TimeDistinct(tq)
      /\ StillExact(j.time_q, tq)
  BY <1>1, GetFirstTimeExact DEF mt_peekfirst_time, StillExact
<1>3. t \in Task /\ t \in TimeMembers(j.time_q)
  <2>1. 1 \in 1 .. Len(j.time_q)
    BY <1>1
  <2>. QED  BY <1>1, <2>1, EntryTicks DEF mt_peekfirst_time, TimeMembers
<1>4. r = ready(j1, t, FALSE)
  BY DEF WakeFirst
<1>. HIDE DEF t, tq
<1>5. /\ Good(j1, c, s) /\ j1.time_q = tq
      /\ j1.queue = j.queue /\ j1.state = j.state /\ j1.success = j.success
      /\ SameRest(j, j1)
  <2>1. TimeMembers(tq) \subseteq TimeMembers(j.time_q)
    BY <1>2
  <2>. QED  BY <1>2, <2>1, GoodTimeQueue
<1>. HIDE DEF j1, r
<1>6. j.state[t] \in Timed
  BY <1>1, <1>3 DEF Placed
<1>7. Struct(j1) /\ j1.state[t] # "Ready" /\ j1.state[t] \notin Dead
  BY <1>5, <1>6 DEF Good, Sound, Timed, Dead
<1>8. Outcome(FALSE)
  BY DEF Outcome
<1>9. Good(r, c, s)
  BY <1>3, <1>4, <1>5, <1>7, <1>8, GoodReady
<1>10. Readied(j1, t, FALSE, r)
  BY <1>3, <1>4, <1>7, <1>8, ReadyStruct
<1>11. r.time_q = tq
  BY <1>2, <1>5, <1>10 DEF Readied
<1>12. TimedOut(j, r)
  <2>1. SameButSlice(j, r)
    BY <1>5, <1>10 DEF Readied, SameRest, SameButSlice
  <2>2. /\ j.state \in [Task -> States] /\ j.queue \in [Task -> QueueId \cup {NoQueue}]
        /\ j.success \in [Task -> BOOLEAN]
    BY <1>1, RecordFields
  <2>3. /\ r.queue = [j.queue EXCEPT ![t] = "ready"]
        /\ r.state = [j.state EXCEPT ![t] = "Ready"]
        /\ r.success = [j.success EXCEPT ![t] = FALSE]
    BY <1>5, <1>10 DEF Readied
  <2>4. ASSUME NEW u \in Task
        PROVE  \/ /\ r.state[u] = j.state[u] /\ r.queue[u] = j.queue[u]
                  /\ r.success[u] = j.success[u]
               \/ /\ j.state[u] \in Timed /\ r.state[u] = "Ready"
                  /\ r.queue[u] = "ready" /\ r.success[u] = FALSE
    BY <1>6, <2>2, <2>3
  <2>5. TimeMembers(r.time_q) \subseteq TimeMembers(j.time_q)
    BY <1>2, <1>11
  <2>. QED  BY <2>1, <2>4, <2>5 DEF TimedOut
<1>13. Dropped(j, 1, r)
  BY <1>2, <1>11 DEF Dropped
<1>. QED  BY <1>2, <1>9, <1>11, <1>12, <1>13 DEF r

\* The time queue `new' is `old' one tick later.
OneTickLater(old, new) ==
  \A f, h : /\ Exact(old, f)
            /\ \A u \in TimeMembers(old) : f[u] > 0 => h[u] = f[u] - 1
            => Exact(new, h)

\* The clock takes one tick off every sleep and timeout, and wakes with a failure
\* exactly tasks that were in the time queue.
LEMMA ClockGood ==
  ASSUME NEW k, NEW c, NEW s, Good(k, c, s)
  PROVE  LET r == clockint(k)
         IN  Good(r, c, s) /\ TimedOut(k, r) /\ OneTickLater(k.time_q, r.time_q)
<1>. DEFINE tq == k.time_q
            D == Due(tq)
            Woken(n, r) == /\ Good(r, c, s) /\ TimedOut(k, r) /\ Dropped(k, n, r)
                           /\ StillExact(tq, r.time_q)
<1>1. /\ Sound(k) /\ Struct(k) /\ k \in Record /\ InCalls(k, c)
      /\ tq \in Seq(Entry(Task)) /\ Len(tq) \in Nat
  BY RecordFields DEF Good, Sound, Struct
<1>2. /\ D \in 0 .. Len(tq) /\ \A i \in 1 .. D : tq[i].ticks = 0
      /\ D < Len(tq) => tq[D + 1].ticks > 0
  BY <1>1, DueExists
<1>3. PICK w : /\ w[0] = [k EXCEPT !.slice = IF @ > 0 THEN @ - 1 ELSE 0]
               /\ \A n \in 1 .. D : w[n] = WakeFirst(w[n - 1])
               /\ clockint(k) = LET rest == w[D]
                                IN  IF rest.time_q = <<>> THEN rest
                                    ELSE [rest EXCEPT !.time_q[1].ticks = @ - 1]
  BY <1>1, ClockRuns
<1>. HIDE DEF D
<1>. DEFINE done == {n \in 0 .. D : Woken(n, w[n])}
<1>4. 0 \in done
  <2>. DEFINE r == w[0]
  <2>1. /\ r \in Record /\ r.time_q = tq
        /\ r.queue = k.queue /\ r.state = k.state /\ r.success = k.success /\ r.q = k.q
        /\ SameButSlice(k, r)
    <3>. DEFINE z == IF k.slice > 0 THEN k.slice - 1 ELSE 0
    <3>1. z \in 0 .. QUANTUM
      BY <1>1, RecordFields, KernelAssumption
    <3>2. r = [k EXCEPT !.slice = z]
      BY <1>3
    <3>. HIDE DEF z, r
    <3>. QED  BY <1>1, <3>1, <3>2 DEF Record, SameButSlice
  <2>. HIDE DEF r
  <2>2. Struct(r)
    BY <1>1, <2>1, StructSame DEF SameButSlice
  <2>3. Sound(r)
    <3>1. Placed(r)
      BY <1>1, <2>1 DEF Sound, Placed
    <3>. QED  BY <1>1, <2>1, <2>2, <3>1 DEF Sound, SameButSlice
  <2>4. r.from = k.from /\ (r.level > 0 => c[r.curr].op \notin BlockingOp)
    BY <1>1, <2>1 DEF SameButSlice, InCalls
  <2>5. \A u \in Task : /\ r.state[u] = k.state[u] /\ r.queue[u] = k.queue[u]
                        /\ r.success[u] => k.success[u]
    BY <2>1
  <2>6. Good(r, c, s)
    BY <2>3, <2>4, <2>5, GoodMoves
  <2>7. TimedOut(k, r) /\ StillExact(tq, r.time_q)
    BY <2>1 DEF TimedOut, StillExact
  <2>8. Dropped(k, 0, r)
    BY <1>1, <2>1 DEF Dropped
  <2>9. 0 \in 0 .. D
    BY <1>1, <1>2
  <2>. QED  BY <2>6, <2>7, <2>8, <2>9 DEF r
<1>5. ASSUME NEW n \in 0 .. D - 1, n \in done
      PROVE  n + 1 \in done
  <2>. DEFINE j == w[n]
              r == w[n + 1]
  <2>1. Woken(n, j)
    BY <1>5
  <2>2. /\ n + 1 \in 1 .. D /\ n + 1 \in 0 .. D /\ (n + 1) - 1 = n /\ 1 + n = n + 1
        /\ 1 \in 1 .. Len(tq) - n /\ Len(tq) - n > 0 /\ n \in Nat
    BY <1>1, <1>2
  <2>3. r = WakeFirst(j)
    BY <1>3, <2>2
  <2>. HIDE DEF j, r
  <2>4. j.time_q \in Seq(Entry(Task)) /\ j.time_q # <<>> /\ j.time_q[1].ticks = 0
    <3>1. j.time_q \in Seq(Entry(Task))
      BY <2>1, RecordFields DEF Good, Sound, Struct
    <3>2. Len(j.time_q) > 0 /\ j.time_q[1] = tq[1 + n]
      BY <2>1, <2>2 DEF Dropped
    <3>. QED  BY <1>2, <2>2, <3>1, <3>2
  <2>5. /\ Good(r, c, s) /\ TimedOut(j, r) /\ Dropped(j, 1, r)
        /\ StillExact(j.time_q, r.time_q)
    BY <2>1, <2>3, <2>4, WakeFirstGood
  <2>6. TimedOut(k, r)
    <3>1. SameButSlice(k, r) /\ TimeMembers(r.time_q) \subseteq TimeMembers(tq)
      BY <2>1, <2>5 DEF TimedOut, SameButSlice
    <3>2. ASSUME NEW u \in Task
          PROVE  \/ /\ r.state[u] = k.state[u] /\ r.queue[u] = k.queue[u]
                    /\ r.success[u] = k.success[u]
                 \/ /\ k.state[u] \in Timed /\ r.state[u] = "Ready"
                    /\ r.queue[u] = "ready" /\ r.success[u] = FALSE
      BY <2>1, <2>5 DEF TimedOut, Timed
    <3>. QED  BY <3>1, <3>2 DEF TimedOut
  <2>7. Dropped(k, n + 1, r)
    <3>1. Len(r.time_q) = Len(tq) - (n + 1)
      BY <1>1, <2>1, <2>2, <2>5 DEF Dropped
    <3>2. ASSUME NEW i \in 1 .. Len(tq) - (n + 1)
          PROVE  r.time_q[i] = tq[i + (n + 1)]
      <4>1. Len(j.time_q) = Len(tq) - n
        BY <2>1 DEF Dropped
      <4>2. i \in 1 .. Len(j.time_q) - 1 /\ i + 1 \in 1 .. Len(tq) - n /\ (i + 1) + n = i + (n + 1)
        BY <1>1, <2>2, <4>1
      <4>3. r.time_q[i] = j.time_q[i + 1]
        BY <2>5, <4>2 DEF Dropped
      <4>4. j.time_q[i + 1] = tq[(i + 1) + n]
        BY <2>1, <4>2 DEF Dropped
      <4>. QED  BY <4>2, <4>3, <4>4
    <3>. QED  BY <3>1, <3>2 DEF Dropped
  <2>8. StillExact(tq, r.time_q)
    BY <2>1, <2>5 DEF StillExact
  <2>. QED  BY <2>2, <2>5, <2>6, <2>7, <2>8 DEF r
<1>6. D \in done
  <2>1. D \in Nat /\ D \in 0 .. D
    BY <1>1, <1>2
  <2>. HIDE DEF done
  <2>. QED  BY <1>4, <1>5, <2>1, UpTo
<1>. DEFINE rest == w[D]
            r == clockint(k)
<1>7. /\ Woken(D, rest)
      /\ r = IF rest.time_q = <<>> THEN rest ELSE [rest EXCEPT !.time_q[1].ticks = @ - 1]
  BY <1>3, <1>6
<1>. HIDE DEF rest, r
<1>8. CASE rest.time_q = <<>>
  <2>1. r = rest
    BY <1>7, <1>8
  <2>2. OneTickLater(tq, r.time_q)
    BY <1>8, <2>1 DEF OneTickLater, Exact
  <2>. QED  BY <1>7, <2>1, <2>2 DEF r
<1>9. CASE rest.time_q # <<>>
  <2>. DEFINE old == rest.time_q
              new == [old EXCEPT ![1].ticks = @ - 1]
  <2>1. old \in Seq(Entry(Task)) /\ TimeDistinct(old) /\ rest \in Record
    BY <1>7, RecordFields DEF Good, Sound, Struct
  <2>2. old[1].ticks > 0
    <3>1. Len(old) = Len(tq) - D /\ Len(old) > 0
      BY <1>7, <1>9, <2>1 DEF Dropped
    <3>2. D < Len(tq) /\ 1 \in 1 .. Len(tq) - D /\ 1 + D = D + 1
      BY <1>1, <1>2, <3>1
    <3>3. old[1] = tq[1 + D]
      BY <1>7, <3>2 DEF Dropped
    <3>. QED  BY <1>2, <3>2, <3>3
  <2>3. r = [rest EXCEPT !.time_q = new]
    BY <1>7, <1>9
  <2>4. /\ new \in Seq(Entry(Task)) /\ TimeMembers(new) = TimeMembers(old) /\ TimeDistinct(new)
        /\ \A f, h : /\ Exact(old, f)
                     /\ \A u \in TimeMembers(old) : f[u] > 0 => h[u] = f[u] - 1
                     => Exact(new, h)
    BY <1>9, <2>1, <2>2, TickExact
  <2>. HIDE DEF old, new
  <2>5. /\ Good(r, c, s) /\ r.time_q = new
        /\ r.queue = rest.queue /\ r.state = rest.state /\ r.success = rest.success
        /\ SameRest(rest, r)
    <3>1. Good(rest, c, s) /\ TimeMembers(new) \subseteq TimeMembers(rest.time_q)
      BY <1>7, <2>4 DEF old
    <3>. QED  BY <2>3, <2>4, <3>1, GoodTimeQueue
  <2>6. TimeMembers(old) \subseteq TimeMembers(tq)
    BY <1>7 DEF TimedOut, old
  <2>7. TimedOut(k, r)
    <3>1. /\ TimedOut(k, rest) /\ r.time_q = new /\ TimeMembers(new) = TimeMembers(old)
          /\ r.queue = rest.queue /\ r.state = rest.state /\ r.success = rest.success
      BY <1>7, <2>4, <2>5
    <3>2. SameButSlice(k, r)
      BY <2>5, <3>1 DEF TimedOut, SameButSlice, SameRest
    <3>. QED  BY <2>6, <3>1, <3>2 DEF TimedOut
  <2>8. OneTickLater(tq, r.time_q)
    <3>1. StillExact(tq, old)
      BY <1>7 DEF old
    <3>. SUFFICES ASSUME NEW f, NEW h, Exact(tq, f),
                         \A u \in TimeMembers(tq) : f[u] > 0 => h[u] = f[u] - 1
                  PROVE  Exact(new, h)
      BY <2>5 DEF OneTickLater
    <3>2. Exact(old, f)
      BY <3>1 DEF StillExact
    <3>3. \A u \in TimeMembers(old) : f[u] > 0 => h[u] = f[u] - 1
      BY <2>6
    <3>. QED  BY <2>4, <3>2, <3>3
  <2>. QED  BY <2>5, <2>7, <2>8 DEF r
<1>. QED  BY <1>8, <1>9

-----------------------------------------------------------------------------
(***************************************************************************)
(* The actions.  Each builds a record k from the kernel's, and then either *)
(* runs the scheduler on it or leaves it as it is.                         *)
(***************************************************************************)

\* The step leaves record k, of which the scheduler may make another, and the times
\* f.  The conjuncts after the first three serve the properties of single steps.
StepTo(k, f) ==
  /\ Good(k, call', served')
  /\ Exact(k.time_q, f)
  /\ Timing(f) \/ (f = left /\ left' = left)
  /\ Becomes(scheduler(k)) \/ (Becomes(k) /\ (k.level = 0 => Right(k)))
  /\ k.curr = mt_curr_task
  /\ k.state[k.curr] = "Current" => call'[k.curr].op \notin BlockingOp
  /\ state[k.curr] = "Current" /\ k.state[k.curr] = "Ready" /\ atomic_level[k.curr] > 0
       => Ready(k.curr) \/ Delay(0)
  /\ "Suspend" \notin Calls /\ Answered(Kernel, call, served) => Answered(k, call', served')

Steps == \E k, f : StepTo(k, f)

\* The record of the kernel holds the variables.
LEMMA KernelFields ==
  /\ Kernel.state = state /\ Kernel.priority = priority /\ Kernel.atomic_level = atomic_level
  /\ Kernel.queue = queue /\ Kernel.success = success /\ Kernel.from = from
  /\ Kernel.q = q /\ Kernel.time_q = time_q /\ Kernel.curr = mt_curr_task
  /\ Kernel.slice = ticks_to_run /\ Kernel.level = mt_int_level
BY DEF Kernel

\* After Becomes(k) the kernel is k.
LEMMA BecomesKernel ==
  ASSUME NEW k \in Record, Becomes(k)
  PROVE  Kernel' = k
BY DEF Becomes, Kernel, Record

\* The times of a step agree with the time queue it leaves.
LEMMA TimingExact ==
  ASSUME NEW tq \in Seq(Entry(Task)), time_q' = tq, NEW f, Exact(tq, f), Timing(f)
  PROVE  left' \in [Task -> Nat] /\ Exact(time_q', left')
<1>1. /\ \A u \in TimeMembers(tq) : f[u] \in Nat
      /\ \A h : (\A u \in TimeMembers(tq) : h[u] = f[u]) => Exact(tq, h)
  BY ExactAgrees
<1>2. left' = [t \in Task |-> IF t \in TimeMembers(tq) THEN f[t] ELSE 0]
  BY DEF Timing
<1>3. left' \in [Task -> Nat]
  BY <1>1, <1>2
<1>4. \A u \in TimeMembers(tq) : u \in Task
  BY EntryTicks DEF TimeMembers
<1>5. \A u \in TimeMembers(tq) : left'[u] = f[u]
  BY <1>2, <1>4
<1>6. Exact(tq, left')
  BY <1>1, <1>5
<1>. QED  BY <1>3, <1>6

\* A step to a good kernel keeps the invariant.
LEMMA StepsKeep ==
  ASSUME KInv, Steps
  PROVE  KInv'
<1>1. PICK k, f : StepTo(k, f)
  BY DEF Steps
<1>. DEFINE r == Kernel'
<1>2. /\ Good(r, call', served') /\ (r.level = 0 => Right(r)) /\ r.time_q = k.time_q
      /\ r \in Record
  <2>1. CASE Becomes(scheduler(k))
    <3>. DEFINE z == scheduler(k)
    <3>1. Good(z, call', served') /\ (z.level = 0 => Right(z)) /\ z.time_q = k.time_q
      BY <1>1, GoodScheduler DEF StepTo, Scheduled
    <3>. HIDE DEF z
    <3>2. z \in Record
      BY <3>1 DEF Good, Sound, Struct
    <3>3. Kernel' = z
      BY <2>1, <3>2, BecomesKernel DEF z
    <3>. QED  BY <3>1, <3>2, <3>3
  <2>2. CASE Becomes(k) /\ (k.level = 0 => Right(k))
    <3>1. k \in Record
      BY <1>1 DEF Good, Sound, Struct, StepTo
    <3>2. Kernel' = k
      BY <2>2, <3>1, BecomesKernel
    <3>. QED  BY <1>1, <2>2, <3>1, <3>2 DEF StepTo
  <2>. QED  BY <1>1, <2>1, <2>2 DEF StepTo
<1>3. r.time_q = time_q' /\ r.level = mt_int_level'
  BY DEF Kernel
<1>4. left' \in [Task -> Nat] /\ Exact(time_q', left')
  <2>. HIDE DEF r
  <2>1. k.time_q \in Seq(Entry(Task)) /\ time_q' = k.time_q
    BY <1>2, <1>3, RecordFields
  <2>2. CASE Timing(f)
    BY <1>1, <2>1, <2>2, TimingExact DEF StepTo
  <2>3. CASE f = left /\ left' = left
    BY <1>1, <2>1, <2>3 DEF StepTo, KInv
  <2>. QED  BY <1>1, <2>2, <2>3 DEF StepTo
<1>. QED  BY <1>2, <1>3, <1>4 DEF KInv

\* A step of a program that suspends no task leaves every answer in its place.
LEMMA StepsAnswer ==
  ASSUME Steps, "Suspend" \notin Calls, Answered(Kernel, call, served)
  PROVE  Answered(Kernel', call', served')
<1>1. PICK k, f : StepTo(k, f)
  BY DEF Steps
<1>2. /\ Good(k, call', served') /\ Answered(k, call', served')
      /\ k.state[k.curr] = "Current" => call'[k.curr].op \notin BlockingOp
  BY <1>1 DEF StepTo
<1>3. CASE Becomes(scheduler(k))
  <2>. DEFINE z == scheduler(k)
  <2>1. Good(z, call', served') /\ Scheduled(k, z)
    BY <1>2, GoodScheduler
  <2>. HIDE DEF z
  <2>2. z \in Record
    BY <2>1 DEF Good, Sound, Struct
  <2>3. Kernel' = z
    BY <1>3, <2>2, BecomesKernel DEF z
  <2>4. Answered(z, call', served')
    <3>. SUFFICES ASSUME NEW t \in Task, served'[t], call'[t].op \in BlockingOp
                  PROVE  z.success[t] /\ z.state[t] \in {"Ready", "Current"}
      BY DEF Answered
    <3>1. k.success[t] /\ k.state[t] \in {"Ready", "Current"}
      BY <1>2 DEF Answered
    <3>2. ~(t = k.curr /\ k.state[t] = "Current")
      BY <1>2
    <3>. QED  BY <2>1, <3>1, <3>2 DEF Scheduled
  <2>. QED  BY <2>3, <2>4
<1>4. CASE Becomes(k)
  <2>1. k \in Record
    BY <1>2 DEF Good, Sound, Struct
  <2>2. Kernel' = k
    BY <1>4, <2>1, BecomesKernel
  <2>. QED  BY <1>2, <2>2
<1>. QED  BY <1>1, <1>3, <1>4 DEF StepTo

\* A task in non-preemptive mode that neither blocks nor is made ready by name is the
\* current one before and after the step.
LEMMA StepsAtomic ==
  ASSUME Steps, state[mt_curr_task] = "Current", mt_curr_task \in Task,
         atomic_level[mt_curr_task] > 0, atomic_level'[mt_curr_task] > 0,
         ~(Ready(mt_curr_task) \/ Delay(0)),
         state'[mt_curr_task] \in {"Current", "Ready"}
  PROVE  state'[mt_curr_task] = "Current" /\ mt_curr_task' = mt_curr_task
<1>1. PICK k, f : StepTo(k, f)
  BY DEF Steps
<1>2. /\ Good(k, call', served') /\ k.curr = mt_curr_task
      /\ k.state[mt_curr_task] # "Ready"
      /\ Becomes(scheduler(k)) \/ Becomes(k)
  BY <1>1 DEF StepTo
<1>3. CASE Becomes(scheduler(k))
  <2>. DEFINE z == scheduler(k)
  <2>1. /\ Scheduled(k, z)
        /\ k.state[mt_curr_task] = "Current" /\ k.atomic_level[mt_curr_task] > 0 => z = k
    BY <1>2, GoodScheduler
  <2>2. z.state = state' /\ z.curr = mt_curr_task' /\ z.atomic_level = atomic_level'
    BY <1>3 DEF Becomes
  <2>. HIDE DEF z
  <2>3. k.state[mt_curr_task] = "Current" /\ k.atomic_level[mt_curr_task] > 0
    BY <1>2, <2>1, <2>2 DEF Scheduled
  <2>. QED  BY <1>2, <2>1, <2>2, <2>3
<1>4. CASE Becomes(k)
  BY <1>2, <1>4 DEF Becomes
<1>. QED  BY <1>2, <1>3, <1>4

\* What holds of the task that calls the API.
LEMMA CallerFacts ==
  ASSUME KInv
  PROVE  /\ Good(Kernel, call, served) /\ Sound(Kernel) /\ Struct(Kernel) /\ Kernel \in Record
         /\ mt_curr_task \in Task /\ NullTask \in Task
         /\ state \in [Task -> States] /\ queue \in [Task -> QueueId \cup {NoQueue}]
         /\ success \in [Task -> BOOLEAN] /\ served \in [Task -> BOOLEAN]
         /\ call \in [Task -> CallPoint] /\ mt_int_level \in 0 .. MaxNest
         /\ time_q \in Seq(Entry(Task)) /\ Exact(time_q, left)
         /\ mt_int_level = 0 => Right(Kernel) /\ state[mt_curr_task] = "Current"
         /\ mt_int_level > 0 => call[mt_curr_task].op \notin BlockingOp
         /\ state[mt_curr_task] = "Current" =>
              queue[mt_curr_task] = NoQueue /\ mt_curr_task \notin TimeMembers(time_q)
         /\ \A t \in Task : success[t] => served[t] /\ call[t].op \in BlockingOp
<1>1. /\ Good(Kernel, call, served) /\ Exact(time_q, left)
      /\ mt_int_level = 0 => Right(Kernel)
  BY DEF KInv
<1>2. /\ Sound(Kernel) /\ Struct(Kernel) /\ Kernel \in Record /\ Placed(Kernel)
      /\ InCalls(Kernel, call) /\ Honest(Kernel, call, served)
  BY <1>1 DEF Good, Sound, Struct
<1>3. /\ mt_curr_task \in Task /\ NullTask \in Task
      /\ state \in [Task -> States] /\ queue \in [Task -> QueueId \cup {NoQueue}]
      /\ success \in [Task -> BOOLEAN] /\ mt_int_level \in 0 .. MaxNest
      /\ time_q \in Seq(Entry(Task))
  BY <1>2, RecordFields, KernelFields, KernelAssumption
<1>4. /\ served \in [Task -> BOOLEAN] /\ call \in [Task -> CallPoint]
      /\ mt_int_level > 0 => call[mt_curr_task].op \notin BlockingOp
      /\ \A t \in Task : success[t] => served[t] /\ call[t].op \in BlockingOp
  BY <1>2, KernelFields DEF InCalls, Honest
<1>5. mt_int_level = 0 => state[mt_curr_task] = "Current"
  BY <1>1, KernelFields DEF Right
<1>6. state[mt_curr_task] = "Current" =>
        queue[mt_curr_task] = NoQueue /\ mt_curr_task \notin TimeMembers(time_q)
  BY <1>2, <1>3, KernelFields DEF Placed, Timed
<1>. QED  BY <1>1, <1>2, <1>3, <1>4, <1>5, <1>6

\* What the history of a step that serves tasks records.
LEMMA ServesHistory ==
  ASSUME NEW T, Serves(T), served \in [Task -> BOOLEAN]
  PROVE  /\ served' \in [Task -> BOOLEAN] /\ Timing(left)
         /\ \A u \in Task : served'[u] <=> served[u] \/ u \in T
BY DEF Serves

\* A step without history leaves who was served.
LEMMA NoHistorySame ==
  ASSUME NoHistory, served \in [Task -> BOOLEAN]
  PROVE  served' = served /\ Timing(left)
<1>1. served' = [u \in Task |-> served[u] \/ u \in {}] /\ Timing(left)
  BY DEF NoHistory, Serves
<1>2. \A u \in Task : (served[u] \/ u \in {}) = served[u]
  OBVIOUS
<1>3. served' = [u \in Task |-> served[u]]
  BY <1>1, <1>2, Zenon
<1>. QED  BY <1>1, <1>3

\* More tasks served.
LEMMA GoodServed ==
  ASSUME NEW k, NEW c, NEW s, Good(k, c, s), NEW s2 \in [Task -> BOOLEAN],
         \A u \in Task : k.success[u] /\ s[u] => s2[u]
  PROVE  Good(k, c, s2)
BY DEF Good, Honest

\* A record that differs in fields of no list.
LEMMA SoundSame ==
  ASSUME NEW k, Sound(k), NEW r \in Record,
         r.q = k.q, r.queue = k.queue, r.priority = k.priority, r.time_q = k.time_q,
         r.state = k.state, r.curr = k.curr
  PROVE  Sound(r)
<1>1. Struct(r)
  BY StructSame DEF Sound
<1>2. Placed(r)
  BY DEF Sound, Placed
<1>. QED  BY <1>1, <1>2 DEF Sound

\* The record r is k with t, alive, made ready.
MadeReady(k, t, ok, r) ==
  /\ StillExact(k.time_q, r.time_q)
  /\ r.curr = k.curr /\ r.level = k.level
  /\ \A u \in Task : u # t => r.state[u] = k.state[u] /\ r.success[u] = k.success[u]
  /\ r.state[t] = "Ready"
  /\ k.state[t] = "Ready" => r.success[t] = k.success[t]
  /\ k.state[t] # "Ready" => r.success[t] = ok

\* ready keeps the kernel good if a success is for a task that was served.
LEMMA ReadyStep ==
  ASSUME NEW k, NEW c, NEW s, Good(k, c, s), NEW t \in Task, NEW ok, Outcome(ok),
         k.state[t] \notin Dead, ok => s[t] /\ c[t].op \in BlockingOp
  PROVE  LET r == ready(k, t, ok)
         IN  Good(r, c, s) /\ MadeReady(k, t, ok, r)
<1>. DEFINE r == ready(k, t, ok)
<1>1. Good(r, c, s)
  BY GoodReady
<1>2. Struct(k)
  BY DEF Good, Sound
<1>3. CASE k.state[t] = "Ready"
  <2>1. r = k
    BY <1>3 DEF ready
  <2>. HIDE DEF r
  <2>. QED  BY <1>1, <1>3, <2>1 DEF MadeReady, StillExact, r
<1>4. CASE k.state[t] # "Ready"
  <2>1. Readied(k, t, ok, r)
    BY <1>2, <1>4, ReadyStruct
  <2>2. k.state \in [Task -> States] /\ k.success \in [Task -> BOOLEAN]
    BY <1>2, RecordFields DEF Struct
  <2>. HIDE DEF r
  <2>3. /\ StillExact(k.time_q, r.time_q) /\ r.curr = k.curr /\ r.level = k.level
        /\ r.state = [k.state EXCEPT ![t] = "Ready"]
        /\ r.success = [k.success EXCEPT ![t] = ok]
    BY <2>1 DEF Readied, SameRest
  <2>4. r.state[t] = "Ready" /\ r.success[t] = ok
    BY <2>2, <2>3, Zenon
  <2>5. \A u \in Task : u # t => r.state[u] = k.state[u] /\ r.success[u] = k.success[u]
    BY <2>2, <2>3
  <2>6. MadeReady(k, t, ok, r)
    BY <1>4, <2>3, <2>4, <2>5, Zenon DEF MadeReady
  <2>. QED  BY <1>1, <2>6 DEF r
<1>. QED  BY <1>3, <1>4

\* The caller, or the task a handler interrupted, is inside no blocking call.
LEMMA NotBlocked ==
  ASSUME KInv, InTask \/ InHandler
  PROVE  call[mt_curr_task].op \notin BlockingOp
<1>1. CASE InTask
  BY <1>1 DEF InTask, Idle, BlockingOp
<1>2. CASE InHandler
  BY <1>2, CallerFacts DEF InHandler
<1>. QED  BY <1>1, <1>2

\* Ready.
LEMMA ReadyAction ==
  ASSUME KInv, NEW t \in Task, Ready(t)
  PROVE  Steps
<1>. DEFINE k == ready(Kernel, t, FALSE)
<1>1. /\ Good(Kernel, call, served) /\ served \in [Task -> BOOLEAN] /\ Exact(time_q, left)
      /\ mt_curr_task \in Task
  BY CallerFacts
<1>2. /\ InTask \/ InHandler
      /\ state[t] \notin Dead /\ Becomes(scheduler(k)) /\ call' = call /\ NoHistory
  BY DEF Ready, Live, Dead
<1>3. served' = served /\ Timing(left)
  BY <1>1, <1>2, NoHistorySame
<1>4. call[mt_curr_task].op \notin BlockingOp
  BY <1>2, NotBlocked
<1>5. Good(k, call, served) /\ MadeReady(Kernel, t, FALSE, k)
  <2>1. Outcome(FALSE) /\ Kernel.state[t] \notin Dead
    BY <1>2, KernelFields DEF Outcome
  <2>. QED  BY <1>1, <2>1, ReadyStep
<1>. HIDE DEF k
<1>6. /\ Exact(k.time_q, left) /\ k.curr = mt_curr_task
      /\ \A u \in Task : u # t => k.state[u] = state[u] /\ k.success[u] = success[u]
      /\ k.state[t] = "Ready" /\ (state[t] = "Ready" => k.success[t] = success[t])
  BY <1>1, <1>5, KernelFields DEF MadeReady, StillExact
<1>7. state[mt_curr_task] = "Current" /\ k.state[mt_curr_task] = "Ready" => Ready(mt_curr_task)
  BY <1>1, <1>6
<1>8. ASSUME Answered(Kernel, call, served) PROVE Answered(k, call, served)
  <2>. SUFFICES ASSUME NEW u \in Task, served[u], call[u].op \in BlockingOp
                PROVE  k.success[u] /\ k.state[u] \in {"Ready", "Current"}
    BY DEF Answered
  <2>1. success[u] /\ state[u] \in {"Ready", "Current"}
    BY <1>8, KernelFields DEF Answered
  <2>2. CASE u = t
    <3>1. state[u] # "Current"
      BY <1>4, CallerFacts, KernelFields DEF Sound
    <3>. QED  BY <1>6, <2>1, <2>2, <3>1
  <2>3. CASE u # t
    BY <1>6, <2>1, <2>3
  <2>. QED  BY <2>2, <2>3
<1>9. StepTo(k, left)
  BY <1>2, <1>3, <1>4, <1>5, <1>6, <1>7, <1>8 DEF StepTo, k
<1>. QED  BY <1>9 DEF Steps

\* A task that waits for something gets it.
LEMMA ServeStep ==
  ASSUME KInv, NEW k1, Good(k1, call, served), k1.state = state, k1.success = success,
         k1.time_q = time_q, k1.curr = mt_curr_task,
         NEW t \in Task, state[t] \in {"Waiting", "Sending", "Receiving"},
         InTask \/ InHandler, call' = call, Serves({t}), Becomes(scheduler(ready(k1, t, TRUE)))
  PROVE  Steps
<1>. DEFINE k == ready(k1, t, TRUE)
<1>1. /\ served \in [Task -> BOOLEAN] /\ Exact(time_q, left)
      /\ mt_curr_task \in Task /\ call \in [Task -> CallPoint]
  BY CallerFacts
<1>2. /\ served' \in [Task -> BOOLEAN] /\ Timing(left)
      /\ \A u \in Task : served'[u] <=> served[u] \/ u \in {t}
  BY <1>1, ServesHistory
<1>3. call[mt_curr_task].op \notin BlockingOp
  BY NotBlocked
<1>4. call[t].op \in BlockingOp /\ k1.state[t] \notin Dead
  BY DEF Good, InCalls, Dead
<1>5. Good(k1, call, served')
  BY <1>2, GoodServed
<1>6. Good(k, call, served') /\ MadeReady(k1, t, TRUE, k)
  <2>1. Outcome(TRUE) /\ served'[t]
    BY <1>2 DEF Outcome
  <2>. QED  BY <1>4, <1>5, <2>1, ReadyStep
<1>. HIDE DEF k
<1>7. /\ Exact(k.time_q, left) /\ k.curr = mt_curr_task
      /\ \A u \in Task : u # t => k.state[u] = state[u] /\ k.success[u] = success[u]
      /\ k.state[t] = "Ready" /\ k.success[t]
  BY <1>1, <1>6 DEF MadeReady, StillExact
<1>8. ~(state[mt_curr_task] = "Current" /\ k.state[mt_curr_task] = "Ready")
  BY <1>1, <1>7
<1>9. ASSUME Answered(Kernel, call, served) PROVE Answered(k, call, served')
  <2>. SUFFICES ASSUME NEW u \in Task, served'[u], call[u].op \in BlockingOp
                PROVE  k.success[u] /\ k.state[u] \in {"Ready", "Current"}
    BY DEF Answered
  <2>1. CASE u = t
    BY <1>7, <2>1
  <2>2. CASE u # t
    <3>1. success[u] /\ state[u] \in {"Ready", "Current"}
      BY <1>2, <1>9, <2>2, KernelFields DEF Answered
    <3>. QED  BY <1>7, <2>2, <3>1
  <2>. QED  BY <2>1, <2>2
<1>10. StepTo(k, left)
  BY <1>2, <1>3, <1>6, <1>7, <1>8, <1>9 DEF StepTo, k
<1>. QED  BY <1>10 DEF Steps

\* SignalQueue.
LEMMA SignalAction ==
  ASSUME KInv, NEW id \in Queue, SignalQueue(id)
  PROVE  Steps
<1>. DEFINE t == mt_peeklast(q[id])
            k1 == [Kernel EXCEPT !.q[id] = mt_getlast(@), !.queue[t] = NoQueue]
<1>1. Struct(Kernel) /\ Sound(Kernel) /\ Good(Kernel, call, served) /\ id \in QueueId
  BY CallerFacts DEF QueueId
<1>2. /\ InTask \/ InHandler
      /\ q[id] # <<>> /\ Becomes(scheduler(ready(k1, t, TRUE))) /\ call' = call /\ Serves({t})
  BY DEF SignalQueue
<1>3. t \in Task /\ Kernel.queue[t] = id /\ k1 = Dequeue(Kernel, t)
  BY <1>1, <1>2, KernelFields, GetLastStruct
<1>. HIDE DEF t, k1
<1>4. Kernel.state[t] = "Waiting"
  BY <1>1, <1>3, InList
<1>5. ready(k1, t, TRUE) = ready(Kernel, t, TRUE)
  BY <1>1, <1>3, <1>4, ReadyLast
<1>. QED  BY <1>1, <1>2, <1>3, <1>4, <1>5, KernelFields, ServeStep

\* Send to a receiver that waits.
LEMMA SendNowAction ==
  ASSUME KInv, NEW t \in Task, SendNow(t)
  PROVE  Steps
<1>. DEFINE c == mt_curr_task
            k1 == [Kernel EXCEPT !.from[t] = c]
<1>1. /\ Struct(Kernel) /\ Sound(Kernel) /\ Kernel \in Record /\ Good(Kernel, call, served)
      /\ c \in Task /\ state \in [Task -> States]
  BY CallerFacts
<1>2. /\ InTask \/ InHandler
      /\ state[t] = "Receiving" /\ Becomes(scheduler(ready(k1, t, TRUE)))
      /\ call' = call /\ Serves({t})
  BY DEF SendNow, Accepts
<1>3. /\ k1 \in Record /\ k1.q = q /\ k1.queue = queue /\ k1.priority = priority
      /\ k1.time_q = time_q /\ k1.state = state /\ k1.curr = c /\ k1.success = success
      /\ k1.level = mt_int_level /\ k1.from = [from EXCEPT ![t] = c]
  BY <1>1 DEF Record, Kernel
<1>. HIDE DEF k1
<1>4. state[c] # "Sending"
  BY <1>1, <1>2, NotBlocked, KernelFields DEF Good, InCalls
<1>5. Good(k1, call, served)
  <2>1. Sound(k1)
    BY <1>1, <1>3, KernelFields, SoundSame
  <2>2. Rendezvous(k1)
    <3>1. from \in [Task -> Task \cup {NoTask}] /\ Rendezvous(Kernel)
      BY <1>1, RecordFields, KernelFields DEF Good
    <3>. SUFFICES ASSUME NEW s \in Task, NEW r \in Task, state[s] = "Sending", queue[s] = r,
                         state[r] = "Receiving", k1.from[r] \in {NoTask, s}
                  PROVE  FALSE
      BY <1>3 DEF Rendezvous
    <3>2. CASE r = t
      BY <1>1, <1>3, <1>4, <3>1, <3>2, KernelAssumption
    <3>3. CASE r # t
      BY <1>3, <3>1, <3>3, KernelFields DEF Rendezvous
    <3>. QED  BY <3>2, <3>3
  <2>. QED  BY <1>1, <1>3, <2>1, <2>2, KernelFields
            DEF Good, InCalls, Deletions, NoOrphans, NoSenders, Honest
<1>. QED  BY <1>2, <1>3, <1>5, ServeStep

\* Receive from a sender that waits.
LEMMA ReceiveNowAction ==
  ASSUME KInv, NEW want \in Task \cup {NoTask}, ReceiveNow(want)
  PROVE  Steps
<1>. DEFINE c == mt_curr_task
            t == Sender(want)
<1>1. /\ Struct(Kernel) /\ Sound(Kernel) /\ Good(Kernel, call, served) /\ c \in Task /\ c \in QueueId
  BY CallerFacts DEF QueueId
<1>2. /\ InTask \/ InHandler
      /\ t # NoTask /\ Becomes(scheduler(ready(Kernel, t, TRUE)))
      /\ call' = call /\ Serves({t})
  BY DEF ReceiveNow
<1>3. t \in Task /\ Kernel.queue[t] = c
  <2>1. CASE want # NoTask
    BY <1>2, <2>1, KernelFields DEF Sender
  <2>2. CASE want = NoTask
    <3>. DEFINE u == mt_peeklast(Kernel.q[c])
    <3>1. Kernel.q[c] # <<>> /\ t = u
      BY <1>2, <2>2, KernelFields DEF Sender
    <3>2. Struct(Kernel) /\ c \in QueueId
      BY <1>1
    <3>3. u \in Task /\ Kernel.queue[u] = c
      BY <3>1, <3>2, GetLastStruct
    <3>. HIDE DEF t, u
    <3>. QED  BY <3>1, <3>3
  <2>. QED  BY <2>1, <2>2
<1>. HIDE DEF t
<1>4. Kernel.state[t] = "Sending"
  BY <1>1, <1>3, InList
<1>. QED  BY <1>1, <1>2, <1>3, <1>4, KernelFields, ServeStep

-----------------------------------------------------------------------------
(***************************************************************************)
(* The calls that move no task but through the scheduler.                  *)
(***************************************************************************)

\* A record that differs in no field that the invariant relates.
LEMMA GoodSame ==
  ASSUME NEW k, NEW c, NEW s, Good(k, c, s), NEW r \in Record,
         r.q = k.q, r.queue = k.queue, r.priority = k.priority, r.time_q = k.time_q,
         r.state = k.state, r.curr = k.curr, r.from = k.from, r.success = k.success,
         r.level > 0 => c[r.curr].op \notin BlockingOp
  PROVE  Good(r, c, s)
<1>1. Sound(k)
  BY DEF Good
<1>2. Sound(r)
  BY <1>1, SoundSame
<1>. QED  BY <1>2, GoodMoves

\* The states, the outcomes and the times are as before.
LEMMA SameStep ==
  ASSUME KInv, NEW k, Good(k, call, served), k.state = state, k.success = success,
         k.time_q = time_q, k.curr = mt_curr_task, call' = call, NoHistory,
         Becomes(scheduler(k)) \/ (Becomes(k) /\ (k.level = 0 => Right(k))),
         call[mt_curr_task].op \notin BlockingOp
  PROVE  Steps
<1>1. served \in [Task -> BOOLEAN] /\ Exact(time_q, left) /\ mt_curr_task \in Task
  BY CallerFacts
<1>2. served' = served /\ Timing(left)
  BY <1>1, NoHistorySame
<1>3. Answered(Kernel, call, served) => Answered(k, call', served')
  BY <1>2, KernelFields DEF Answered
<1>4. StepTo(k, left)
  BY <1>1, <1>2, <1>3 DEF StepTo
<1>. QED  BY <1>4 DEF Steps

\* Atomic.
LEMMA AtomicAction ==
  ASSUME KInv, Atomic
  PROVE  Steps
<1>. DEFINE k == [Kernel EXCEPT !.atomic_level[mt_curr_task] = @ + 1]
<1>1. /\ Kernel \in Record /\ mt_curr_task \in Task /\ Good(Kernel, call, served)
      /\ mt_int_level = 0 => Right(Kernel)
  BY CallerFacts
<1>2. /\ InTask /\ atomic_level[mt_curr_task] < MaxAtomic
      /\ Becomes(k) /\ call' = call /\ NoHistory
  BY DEF Atomic
<1>3. atomic_level \in [Task -> 0 .. MaxAtomic] /\ MaxAtomic \in Nat
  BY <1>1, RecordFields, KernelFields, KernelAssumption
<1>4. /\ k \in Record /\ k.q = q /\ k.queue = queue /\ k.priority = priority
      /\ k.time_q = time_q /\ k.state = state /\ k.curr = mt_curr_task /\ k.success = success
      /\ k.level = mt_int_level /\ k.from = from
      /\ k.atomic_level[mt_curr_task] = atomic_level[mt_curr_task] + 1
  <2>1. atomic_level[mt_curr_task] + 1 \in 0 .. MaxAtomic
    BY <1>1, <1>2, <1>3
  <2>. QED  BY <1>1, <1>3, <2>1 DEF Record, Kernel
<1>. HIDE DEF k
<1>5. call[mt_curr_task].op \notin BlockingOp /\ mt_int_level = 0
  BY <1>2, NotBlocked DEF InTask
<1>6. Good(k, call, served)
  BY <1>1, <1>4, <1>5, KernelFields, GoodSame
<1>7. Right(k)
  <2>1. atomic_level[mt_curr_task] + 1 # 0 /\ state[mt_curr_task] = "Current"
    BY <1>1, <1>3, <1>5, KernelFields DEF Right
  <2>. QED  BY <1>4, <2>1 DEF Right
<1>. QED  BY <1>2, <1>4, <1>5, <1>6, <1>7, SameStep

\* Unatomic.
LEMMA UnatomicAction ==
  ASSUME KInv, Unatomic
  PROVE  Steps
<1>. DEFINE k == [Kernel EXCEPT !.atomic_level[mt_curr_task] = @ - 1]
<1>1. /\ Kernel \in Record /\ mt_curr_task \in Task /\ Good(Kernel, call, served)
      /\ mt_int_level = 0 => Right(Kernel)
  BY CallerFacts
<1>2. /\ InTask /\ atomic_level[mt_curr_task] > 0 /\ call' = call /\ NoHistory
      /\ Becomes(scheduler(k)) \/ (Becomes(k) /\ k.atomic_level[mt_curr_task] # 0)
  BY DEF Unatomic
<1>3. atomic_level \in [Task -> 0 .. MaxAtomic] /\ MaxAtomic \in Nat
  BY <1>1, RecordFields, KernelFields, KernelAssumption
<1>4. /\ k \in Record /\ k.q = q /\ k.queue = queue /\ k.priority = priority
      /\ k.time_q = time_q /\ k.state = state /\ k.curr = mt_curr_task /\ k.success = success
      /\ k.level = mt_int_level /\ k.from = from
  <2>1. atomic_level[mt_curr_task] - 1 \in 0 .. MaxAtomic
    BY <1>1, <1>2, <1>3
  <2>. QED  BY <1>1, <1>3, <2>1 DEF Record, Kernel
<1>. HIDE DEF k
<1>5. call[mt_curr_task].op \notin BlockingOp /\ mt_int_level = 0
  BY <1>2, NotBlocked DEF InTask
<1>6. Good(k, call, served)
  BY <1>1, <1>4, <1>5, KernelFields, GoodSame
<1>7. k.atomic_level[mt_curr_task] # 0 => Right(k)
  BY <1>1, <1>4, <1>5, KernelFields DEF Right
<1>. QED  BY <1>2, <1>4, <1>5, <1>6, <1>7, SameStep

\* The entry of an interrupt.
LEMMA DeviceAction ==
  ASSUME KInv, DeviceInterrupt
  PROVE  Steps
<1>. DEFINE k == [Kernel EXCEPT !.level = @ + 1]
<1>1. /\ Kernel \in Record /\ mt_curr_task \in Task /\ Good(Kernel, call, served)
      /\ mt_int_level \in 0 .. MaxNest /\ MaxNest \in Nat
  BY CallerFacts, KernelAssumption
<1>2. /\ Interruptible /\ mt_int_level < MaxNest /\ Becomes(k) /\ call' = call /\ NoHistory
  BY DEF DeviceInterrupt
<1>4. /\ k \in Record /\ k.q = q /\ k.queue = queue /\ k.priority = priority
      /\ k.time_q = time_q /\ k.state = state /\ k.curr = mt_curr_task /\ k.success = success
      /\ k.level = mt_int_level + 1 /\ k.from = from
  <2>1. mt_int_level + 1 \in 0 .. MaxNest
    BY <1>1, <1>2
  <2>. QED  BY <1>1, <2>1 DEF Record, Kernel
<1>. HIDE DEF k
<1>5. call[mt_curr_task].op \notin BlockingOp
  BY <1>2 DEF Interruptible, BlockingOp
<1>6. Good(k, call, served)
  BY <1>1, <1>4, <1>5, KernelFields, GoodSame
<1>7. k.level # 0
  BY <1>1, <1>4
<1>. QED  BY <1>2, <1>4, <1>5, <1>6, <1>7, SameStep

\* The end of an interrupt, which may switch tasks.
LEMMA EndAction ==
  ASSUME KInv, EndInterrupt
  PROVE  Steps
<1>. DEFINE k == [Kernel EXCEPT !.level = @ - 1]
<1>1. /\ Kernel \in Record /\ mt_curr_task \in Task /\ Good(Kernel, call, served)
      /\ mt_int_level \in 0 .. MaxNest /\ MaxNest \in Nat
      /\ mt_int_level > 0 => call[mt_curr_task].op \notin BlockingOp
  BY CallerFacts, KernelAssumption
<1>2. /\ mt_int_level > 0 /\ Becomes(scheduler(k)) /\ call' = call /\ NoHistory
  BY DEF EndInterrupt
<1>4. /\ k \in Record /\ k.q = q /\ k.queue = queue /\ k.priority = priority
      /\ k.time_q = time_q /\ k.state = state /\ k.curr = mt_curr_task /\ k.success = success
      /\ k.from = from
  <2>1. mt_int_level - 1 \in 0 .. MaxNest
    BY <1>1, <1>2
  <2>. QED  BY <1>1, <2>1 DEF Record, Kernel
<1>. HIDE DEF k
<1>6. Good(k, call, served)
  BY <1>1, <1>2, <1>4, KernelFields, GoodSame
<1>. QED  BY <1>1, <1>2, <1>4, <1>6, SameStep

\* The record r is k with priority p for the task t.
Priced(k, t, p, r) ==
  /\ Struct(r)
  /\ r.priority = [k.priority EXCEPT ![t] = p]
  /\ r.queue = k.queue /\ r.state = k.state /\ r.success = k.success /\ r.q = k.q
  /\ r.time_q = k.time_q /\ r.atomic_level = k.atomic_level /\ r.from = k.from
  /\ r.curr = k.curr /\ r.slice = k.slice /\ r.level = k.level

\* The priority of a task in no list may change.
LEMMA PriorityStruct ==
  ASSUME NEW k, Struct(k), NEW t \in Task, k.queue[t] = NoQueue, NEW p \in Nat
  PROVE  Priced(k, t, p, [k EXCEPT !.priority[t] = p])
<1>. DEFINE r == [k EXCEPT !.priority[t] = p]
<1>1. k \in Record
  BY DEF Struct
<1>2. k.q \in [QueueId -> Seq(Task)] /\ k.priority \in [Task -> Nat]
  BY <1>1, RecordFields
<1>3. /\ r \in Record /\ r.priority = [k.priority EXCEPT ![t] = p]
      /\ r.queue = k.queue /\ r.state = k.state /\ r.success = k.success /\ r.q = k.q
      /\ r.time_q = k.time_q /\ r.atomic_level = k.atomic_level /\ r.from = k.from
      /\ r.curr = k.curr /\ r.slice = k.slice /\ r.level = k.level
  BY <1>1 DEF Record
<1>. HIDE DEF r
<1>4. ASSUME NEW id \in QueueId PROVE Sorted(k.q[id], r.priority)
  <2>1. NoQueue \notin QueueId
    BY KernelAssumption
  <2>2. t \notin Members(k.q[id]) /\ Sorted(k.q[id], k.priority) /\ k.q[id] \in Seq(Task)
    BY <1>2, <2>1 DEF Struct
  <2>3. \A i \in 1 .. Len(k.q[id]) : k.q[id][i] # t /\ k.q[id][i] \in Task
    BY <2>2 DEF Members
  <2>4. \A i \in 1 .. Len(k.q[id]) : r.priority[k.q[id][i]] = k.priority[k.q[id][i]]
    BY <1>2, <1>3, <2>3
  <2>. QED  BY <2>2, <2>4 DEF Sorted
<1>5. Struct(r)
  BY <1>3, <1>4 DEF Struct
<1>6. Priced(k, t, p, r)
  BY <1>3, <1>5 DEF Priced
<1>. QED  BY <1>6 DEF r

\* A task whose priority changes is put back into the list it was in.
LEMMA Repriced ==
  ASSUME KInv, NEW t \in Task, NEW p \in Nat
  PROVE  LET k1 == [Kernel EXCEPT !.priority[t] = p]
             k2 == IF queue[t] = NoQueue THEN k1 ELSE Enqueue(Dequeue(k1, t), t, queue[t])
         IN  /\ Struct(k2) /\ k2.priority = [priority EXCEPT ![t] = p]
             /\ k2.queue = queue /\ k2.state = state /\ k2.success = success
             /\ k2.time_q = time_q /\ k2.atomic_level = atomic_level /\ k2.from = from
             /\ k2.curr = mt_curr_task /\ k2.level = mt_int_level
<1>. DEFINE k1 == [Kernel EXCEPT !.priority[t] = p]
            k2 == IF queue[t] = NoQueue THEN k1 ELSE Enqueue(Dequeue(k1, t), t, queue[t])
<1>1. Struct(Kernel) /\ queue \in [Task -> QueueId \cup {NoQueue}] /\ Kernel \in Record
  BY CallerFacts
<1>2. CASE queue[t] = NoQueue
  <2>1. k2 = k1 /\ Kernel.queue[t] = NoQueue
    BY <1>2, KernelFields
  <2>2. Priced(Kernel, t, p, k1)
    BY <1>1, <2>1, PriorityStruct
  <2>. HIDE DEF k1, k2
  <2>. QED  BY <2>1, <2>2, KernelFields DEF Priced, k1, k2
<1>3. CASE queue[t] # NoQueue
  <2>. DEFINE d == Dequeue(Kernel, t)
              e == [d EXCEPT !.priority[t] = p]
  <2>1. /\ Struct(d) /\ d.queue = [queue EXCEPT ![t] = NoQueue] /\ d.state = state
        /\ d.success = success /\ d.time_q = time_q /\ SameRest(Kernel, d)
    BY <1>1, DequeueStruct, KernelFields
  <2>2. Dequeue(k1, t) = e
    <3>1. d = [Kernel EXCEPT !.q[queue[t]] = mt_dequeue(@, t), !.queue[t] = NoQueue]
      BY <1>3, KernelFields DEF Dequeue
    <3>2. k1.queue = queue
      BY DEF Kernel
    <3>3. Dequeue(k1, t) = [k1 EXCEPT !.q[queue[t]] = mt_dequeue(@, t), !.queue[t] = NoQueue]
      BY <1>3, <3>2 DEF Dequeue
    <3>. HIDE DEF d
    <3>. QED  BY <3>1, <3>3 DEF Kernel
  <2>. HIDE DEF d
  <2>3. d.queue[t] = NoQueue
    BY <1>1, <2>1
  <2>4. /\ Struct(e) /\ e.priority = [priority EXCEPT ![t] = p]
        /\ e.queue = d.queue /\ e.state = state /\ e.success = success
        /\ e.time_q = time_q /\ e.atomic_level = atomic_level /\ e.from = from
        /\ e.curr = mt_curr_task /\ e.level = mt_int_level
    <3>1. Priced(d, t, p, e)
      BY <2>1, <2>3, PriorityStruct
    <3>. HIDE DEF e
    <3>. QED  BY <2>1, <3>1, KernelFields DEF SameRest, Priced
  <2>. HIDE DEF e
  <2>. DEFINE r == Enqueue(e, t, queue[t])
  <2>5. queue[t] \in QueueId /\ e.queue[t] = NoQueue
    BY <1>1, <1>3, <2>3, <2>4
  <2>6. /\ Struct(r) /\ r.queue = [e.queue EXCEPT ![t] = queue[t]]
        /\ r.state = e.state /\ r.success = e.success /\ r.time_q = e.time_q
        /\ SameRest(e, r)
    BY <2>4, <2>5, EnqueueStruct
  <2>7. k2 = r
    BY <1>3, <2>2
  <2>. HIDE DEF r, k2
  <2>8. r.queue = queue
    BY <1>1, <2>1, <2>4, <2>6
  <2>. QED  BY <2>4, <2>6, <2>7, <2>8 DEF SameRest, k2
<1>. QED  BY <1>2, <1>3

\* SetPriority, which moves the task in the queue it is in.
LEMMA SetPriorityAction ==
  ASSUME KInv, NEW t \in Task, NEW p \in Prio, SetPriority(t, p)
  PROVE  Steps
<1>. DEFINE k1 == [Kernel EXCEPT !.priority[t] = p]
            k == IF queue[t] = NoQueue THEN k1 ELSE Enqueue(Dequeue(k1, t), t, queue[t])
<1>1. /\ Kernel \in Record /\ mt_curr_task \in Task /\ Good(Kernel, call, served)
      /\ Sound(Kernel)
      /\ mt_int_level = 0 => Right(Kernel)
  BY CallerFacts
<1>2. /\ InTask /\ call' = call /\ NoHistory
      /\ \/ Becomes(scheduler(k))
         \/ Becomes(k) /\ t # mt_curr_task /\ state[t] # "Ready"
  BY DEF SetPriority
<1>3. p \in Nat
  BY KernelAssumption
<1>4. /\ Struct(k) /\ k.priority = [priority EXCEPT ![t] = p]
      /\ k.queue = queue /\ k.state = state /\ k.success = success
      /\ k.time_q = time_q /\ k.atomic_level = atomic_level /\ k.from = from
      /\ k.curr = mt_curr_task /\ k.level = mt_int_level
  BY <1>3, Repriced
<1>. HIDE DEF k
<1>5. call[mt_curr_task].op \notin BlockingOp /\ mt_int_level = 0
  BY <1>2, NotBlocked DEF InTask
<1>6. Good(k, call, served)
  <2>1. Sound(k)
    BY <1>1, <1>4, KernelFields DEF Sound, Placed
  <2>. QED  BY <1>1, <1>4, <1>5, <2>1, KernelFields, GoodMoves
<1>7. t # mt_curr_task /\ state[t] # "Ready" => Right(k)
  <2>1. priority \in [Task -> Nat]
    BY <1>1, KernelFields, RecordFields
  <2>. SUFFICES ASSUME t # mt_curr_task, state[t] # "Ready",
                       NEW u \in Task, state[u] = "Ready", atomic_level[mt_curr_task] = 0
                PROVE  k.priority[u] <= k.priority[mt_curr_task]
    BY <1>1, <1>4, <1>5, KernelFields DEF Right
  <2>2. k.priority[u] = priority[u] /\ k.priority[mt_curr_task] = priority[mt_curr_task]
    BY <1>1, <1>4, <2>1
  <2>. QED  BY <1>1, <1>5, <2>2, KernelFields DEF Right
<1>. QED  BY <1>2, <1>4, <1>5, <1>6, <1>7, SameStep

\* The record r is k with t blocked in state st, in no list.
Halted(k, t, st, r) ==
  /\ Struct(r)
  /\ r.queue = [k.queue EXCEPT ![t] = NoQueue] /\ r.state = [k.state EXCEPT ![t] = st]
  /\ r.success = k.success
  /\ TimeMembers(r.time_q) = TimeMembers(k.time_q) \ {t}
  /\ StillExact(k.time_q, r.time_q)
  /\ SameRest(k, r)

\* block leaves the task in no queue.
LEMMA BlockHalts ==
  ASSUME NEW k, Struct(k), NEW t \in Task, NEW st \in States
  PROVE  Halted(k, t, st, block(k, t, st))
<1>. DEFINE r == block(k, t, st)
<1>1. /\ Struct(r) /\ r.queue = [k.queue EXCEPT ![t] = NoQueue]
      /\ r.state = [k.state EXCEPT ![t] = st] /\ r.success = k.success
      /\ TimeMembers(r.time_q) = TimeMembers(k.time_q) \ {t}
      /\ StillExact(k.time_q, r.time_q) /\ SameRest(k, r)
  BY BlockStruct
<1>. HIDE DEF r
<1>2. Halted(k, t, st, r)
  BY <1>1 DEF Halted
<1>. QED  BY <1>2 DEF r

\* Suspend.
LEMMA SuspendAction ==
  ASSUME KInv, NEW t \in Task, Suspend(t)
  PROVE  Steps
<1>. DEFINE c == mt_curr_task
            k == block(Kernel, t, "Suspended")
<1>1. /\ Struct(Kernel) /\ Sound(Kernel) /\ Good(Kernel, call, served) /\ c \in Task
      /\ served \in [Task -> BOOLEAN] /\ Exact(time_q, left)
      /\ state \in [Task -> States] /\ queue \in [Task -> QueueId \cup {NoQueue}]
      /\ \A u \in Task : success[u] => served[u] /\ call[u].op \in BlockingOp
  BY CallerFacts
<1>2. /\ InTask /\ "Suspend" \in Calls /\ state[t] \notin Dead /\ t # NullTask
      /\ Becomes(scheduler(k)) \/ (Becomes(k) /\ t # c)
      /\ call' = call /\ NoHistory
  BY DEF Suspend, Live, Dead, Uses
<1>3. call[c].op \notin BlockingOp /\ mt_int_level = 0
  BY <1>2, NotBlocked DEF InTask
<1>4. Right(Kernel) /\ state[c] = "Current"
  BY <1>3, CallerFacts
<1>5. served' = served /\ Timing(left)
  BY <1>1, <1>2, NoHistorySame
<1>6. Halted(Kernel, t, "Suspended", k)
  BY <1>1, BlockHalts DEF States
<1>. HIDE DEF k
<1>7. /\ Struct(k) /\ k.queue = [queue EXCEPT ![t] = NoQueue]
      /\ k.state = [state EXCEPT ![t] = "Suspended"] /\ k.success = success
      /\ TimeMembers(k.time_q) = TimeMembers(time_q) \ {t} /\ Exact(k.time_q, left)
      /\ k.priority = priority /\ k.atomic_level = atomic_level /\ k.from = from
      /\ k.curr = c /\ k.level = mt_int_level
  BY <1>1, <1>6, KernelFields DEF Halted, SameRest, StillExact
<1>8. Sound(k)
  <2>1. PlaceOf(t, "Suspended", NoQueue)
    BY DEF PlaceOf
  <2>2. /\ k.state = [Kernel.state EXCEPT ![t] = "Suspended"]
        /\ k.queue = [Kernel.queue EXCEPT ![t] = NoQueue] /\ k.curr = Kernel.curr
        /\ TimeMembers(k.time_q) \subseteq TimeMembers(Kernel.time_q) \cup {t}
        /\ t \notin TimeMembers(k.time_q)
    BY <1>7, KernelFields
  <2>. QED  BY <1>1, <1>2, <1>7, <2>1, <2>2, SoundMove
<1>9. /\ k.state[t] = "Suspended"
      /\ \A u \in Task : u # t => k.state[u] = state[u] /\ k.queue[u] = queue[u]
  BY <1>1, <1>7
<1>10. Good(k, call, served)
  <2>1. ASSUME NEW u \in Task
        PROVE  \/ /\ k.state[u] = Kernel.state[u] /\ k.queue[u] = Kernel.queue[u]
                  /\ k.success[u] => Kernel.success[u]
               \/ /\ k.state[u] \in Loose /\ Kernel.state[u] \notin Dead
                  /\ k.success[u] => served[u] /\ call[u].op \in BlockingOp
    BY <1>1, <1>2, <1>7, <1>9, KernelFields DEF Loose
  <2>2. \A u \in Task : k.state[u] = "Receiving" => k.from[u] = Kernel.from[u]
    BY <1>7, KernelFields
  <2>3. k.level > 0 => call[k.curr].op \notin BlockingOp
    BY <1>3, <1>7
  <2>. QED  BY <1>1, <1>8, <2>1, <2>2, <2>3, GoodMoves
<1>11. t # c => Right(k)
  BY <1>1, <1>4, <1>7, <1>9, KernelFields DEF Right
<1>12. k.state[c] # "Ready"
  BY <1>1, <1>4, <1>9
<1>13. StepTo(k, left)
  BY <1>2, <1>3, <1>5, <1>7, <1>10, <1>11, <1>12 DEF StepTo, k
<1>. QED  BY <1>13 DEF Steps

\* The caller's outcome is read, and forgotten.
LEMMA ReturnAction ==
  ASSUME KInv, Return
  PROVE  Steps
<1>. DEFINE c == mt_curr_task
            k == [Kernel EXCEPT !.success[c] = FALSE, !.from[c] = NoTask]
<1>1. /\ Sound(Kernel) /\ Good(Kernel, call, served) /\ c \in Task /\ Kernel \in Record
      /\ served \in [Task -> BOOLEAN] /\ Exact(time_q, left) /\ call \in [Task -> CallPoint]
      /\ state \in [Task -> States]
      /\ mt_int_level \in 0 .. MaxNest
  BY CallerFacts
<1>2. /\ call[c].op \in BlockingOp /\ Becomes(k)
      /\ call' = [call EXCEPT ![c] = Idle] /\ served' = [served EXCEPT ![c] = FALSE]
      /\ left' = left
  BY DEF Return, Reporting, BlockingOp
<1>3. mt_int_level = 0 /\ Right(Kernel) /\ state[c] = "Current"
  <2>1. ~(mt_int_level > 0)
    BY <1>2, CallerFacts
  <2>2. mt_int_level = 0
    BY <1>1, <2>1, KernelAssumption
  <2>. QED  BY <2>2, CallerFacts
<1>4. /\ k \in Record /\ k.q = q /\ k.queue = queue /\ k.priority = priority
      /\ k.time_q = time_q /\ k.state = state /\ k.curr = c /\ k.level = mt_int_level
      /\ k.success = [success EXCEPT ![c] = FALSE] /\ k.from = [from EXCEPT ![c] = NoTask]
      /\ k.atomic_level = atomic_level
  BY <1>1 DEF Record, Kernel
<1>5. success \in [Task -> BOOLEAN] /\ from \in [Task -> Task \cup {NoTask}]
  BY <1>1, RecordFields, KernelFields
<1>. HIDE DEF k
<1>6. Idle \in CallPoint /\ Idle.op = "none"
  BY DEF Idle, CallPoint
<1>7. /\ call' \in [Task -> CallPoint] /\ served' \in [Task -> BOOLEAN]
      /\ call'[c].op = "none" /\ ~served'[c] /\ ~k.success[c]
      /\ \A u \in Task : u # c => /\ call'[u] = call[u] /\ served'[u] = served[u]
                                  /\ k.success[u] = success[u] /\ k.from[u] = from[u]
  BY <1>1, <1>2, <1>4, <1>5, <1>6
<1>8. Good(k, call', served')
  <2>1. Sound(k)
    BY <1>1, <1>4, KernelFields, SoundSame
  <2>2. InCalls(k, call')
    <3>1. ~(k.level > 0)
      BY <1>3, <1>4
    <3>2. ASSUME NEW u \in Task, k.state[u] \in {"Waiting", "Sending", "Receiving"}
          PROVE  call'[u].op \in BlockingOp
      BY <1>1, <1>3, <1>4, <1>7, <3>2, KernelFields DEF Good, InCalls
    <3>. QED  BY <1>7, <3>1, <3>2 DEF InCalls
  <2>3. Deletions(k, call')
    <3>1. ASSUME NEW u \in Task, call'[u].op = "delete" PROVE call'[u] = call[u]
      BY <1>7, <3>1
    <3>. QED  BY <1>1, <1>4, <3>1, KernelFields DEF Good, Deletions, NoSenders
  <2>4. NoOrphans(k)
    BY <1>1, <1>4, KernelFields DEF Good, NoOrphans, NoSenders
  <2>5. Rendezvous(k)
    BY <1>1, <1>3, <1>4, <1>7, KernelFields DEF Good, Rendezvous
  <2>6. Honest(k, call', served')
    BY <1>1, <1>7, KernelFields DEF Good, Honest
  <2>. QED  BY <2>1, <2>2, <2>3, <2>4, <2>5, <2>6 DEF Good
<1>9. Right(k)
  BY <1>3, <1>4, KernelFields DEF Right
<1>10. ASSUME Answered(Kernel, call, served) PROVE Answered(k, call', served')
  BY <1>4, <1>7, <1>10, KernelFields DEF Answered
<1>11. call'[c].op \notin BlockingOp /\ k.state[c] # "Ready"
  BY <1>3, <1>4, <1>7 DEF BlockingOp
<1>12. StepTo(k, left)
  BY <1>1, <1>2, <1>4, <1>8, <1>9, <1>10, <1>11 DEF StepTo, k
<1>. QED  BY <1>12 DEF Steps

-----------------------------------------------------------------------------
(***************************************************************************)
(* The calls that block.                                                   *)
(***************************************************************************)

\* A task that goes to sleep for a while: its record, and the times.
Asleep(k, t, f, r) ==
  /\ Struct(r)
  /\ TimeMembers(r.time_q) \subseteq TimeMembers(k.time_q) \cup {t}
  /\ Exact(r.time_q, f)
  /\ r.queue = k.queue /\ r.state = k.state /\ r.success = k.success /\ r.q = k.q
  /\ SameRest(k, r)

\* A task that enters the time queue is there for its timeout, and the others for theirs.
LEMMA EnqueueTimeSleeps ==
  ASSUME NEW k, Struct(k), NEW t \in Task, t \notin TimeMembers(k.time_q), NEW msecs \in Msecs,
         NEW h \in [Task -> Nat], Exact(k.time_q, h)
  PROVE  Asleep(k, t, [h EXCEPT ![t] = msecs_to_ticks(msecs)], EnqueueTime(k, t, msecs))
<1>. DEFINE f == [h EXCEPT ![t] = msecs_to_ticks(msecs)]
            r == EnqueueTime(k, t, msecs)
<1>1. k.time_q \in Seq(Entry(Task))
  BY RecordFields DEF Struct
<1>2. \A u \in TimeMembers(k.time_q) : u \in Task
  BY <1>1, EntryTicks DEF TimeMembers
<1>3. f[t] = msecs_to_ticks(msecs) /\ \A u \in TimeMembers(k.time_q) : f[u] = h[u]
  BY <1>2
<1>. HIDE DEF f
<1>4. Exact(k.time_q, f)
  BY <1>1, <1>3, ExactAgrees
<1>5. /\ Struct(r)
      /\ TimeMembers(r.time_q) \subseteq TimeMembers(k.time_q) \cup {t}
      /\ r.queue = k.queue /\ r.state = k.state /\ r.success = k.success /\ r.q = k.q
      /\ SameRest(k, r)
  BY EnqueueTimeStruct
<1>6. Exact(r.time_q, f)
  BY <1>3, <1>4, EnqueueTimeStruct
<1>. HIDE DEF r
<1>7. Asleep(k, t, f, r)
  BY <1>5, <1>6 DEF Asleep
<1>. QED  BY <1>7 DEF f, r

\* The caller, c, goes to state st and list x, at the point p of a call.
Leaves(k, c, st, x) ==
  /\ Struct(k)
  /\ k.queue = [queue EXCEPT ![c] = x] /\ k.state = [state EXCEPT ![c] = st]
  /\ k.success = success /\ c \notin TimeMembers(k.time_q)
  /\ TimeMembers(k.time_q) \subseteq TimeMembers(time_q) /\ Exact(k.time_q, left)
  /\ k.curr = c /\ k.level = mt_int_level
  /\ Rendezvous(k)

\* The list x is not the send_queue of a task that is dead or half deleted.
Open(x) == x \in Task => state[x] \notin Dead /\ ~BeingDeleted(x)

\* The kernel is good after the current task has blocked, until the scheduler runs.
LEMMA GoodBlock ==
  ASSUME KInv, InTask, NEW k, NEW st \in Timed, NEW x, NEW p \in CallPoint, NEW f,
         NEW k1, Leaves(k1, mt_curr_task, st, x), Asleep(k1, mt_curr_task, f, k),
         PlaceOf(mt_curr_task, st, x), Open(x), x = NoQueue \/ x \in QueueId,
         p.op # "delete", st # "Delaying" => p.op \in BlockingOp,
         call' = [call EXCEPT ![mt_curr_task] = p],
         served' = [served EXCEPT ![mt_curr_task] = FALSE]
  PROVE  Good(k, call', served')
<1>. DEFINE c == mt_curr_task
<1>1. /\ Sound(Kernel) /\ Good(Kernel, call, served) /\ c \in Task
      /\ served \in [Task -> BOOLEAN] /\ call \in [Task -> CallPoint]
      /\ state \in [Task -> States] /\ queue \in [Task -> QueueId \cup {NoQueue}]
  BY CallerFacts
<1>2. mt_int_level = 0 /\ call[c].op = "none" /\ c # NullTask
  BY DEF InTask, Idle
<1>3. /\ Struct(k) /\ k.queue = [queue EXCEPT ![c] = x] /\ k.state = [state EXCEPT ![c] = st]
      /\ k.success = success /\ k.curr = c /\ k.level = 0
      /\ TimeMembers(k.time_q) \subseteq TimeMembers(time_q) \cup {c}
  BY <1>2 DEF Leaves, Asleep, SameRest
<1>4. Rendezvous(k)
  BY DEF Leaves, Asleep, SameRest, Rendezvous
<1>5. /\ call' \in [Task -> CallPoint] /\ served' \in [Task -> BOOLEAN]
      /\ call'[c] = p /\ ~served'[c] /\ k.queue[c] = x /\ k.state[c] = st
      /\ \A u \in Task : u # c => /\ call'[u] = call[u] /\ served'[u] = served[u]
                                  /\ k.state[u] = state[u] /\ k.queue[u] = queue[u]
  BY <1>1, <1>3
<1>6. st \notin Dead /\ st # "Current" /\ st # "Ready"
  BY DEF Dead, Timed
<1>7. Sound(k)
  BY <1>1, <1>2, <1>3, <1>6, KernelFields, SoundMove
<1>8. InCalls(k, call')
  <2>1. ASSUME NEW u \in Task, k.state[u] \in {"Waiting", "Sending", "Receiving"}
        PROVE  call'[u].op \in BlockingOp
    <3>1. CASE u = c
      BY <1>5, <2>1, <3>1
    <3>2. CASE u # c
      BY <1>1, <1>5, <2>1, <3>2, KernelFields DEF Good, InCalls
    <3>. QED  BY <3>1, <3>2
  <2>. QED  BY <1>3, <1>5, <2>1 DEF InCalls
<1>9. Deletions(k, call')
  <2>1. Deletions(Kernel, call)
    BY <1>1 DEF Good
  <2>. SUFFICES ASSUME NEW u \in Task, call'[u].op = "delete"
                PROVE  /\ call'[u].arg \in Task \ {NullTask}
                       /\ k.state[call'[u].arg] \notin Dead
                       /\ NoSenders(k, call'[u].arg)
                       /\ \A v \in Task : call'[v].op = "delete" /\ call'[v].arg = call'[u].arg
                                            => v = u
    BY DEF Deletions
  <2>2. u # c /\ call'[u] = call[u]
    BY <1>5
  <2>. DEFINE d == call[u].arg
  <2>3. d \in Task \ {NullTask} /\ state[d] \notin Dead /\ NoSenders(Kernel, d)
    BY <2>1, <2>2, KernelFields DEF Deletions
  <2>4. call[u] = Deleting(d)
    BY <1>1, <2>2 DEF CallPoint, Deleting
  <2>5. x # d
    BY <2>3, <2>4 DEF Open, BeingDeleted
  <2>6. NoSenders(k, d)
    BY <1>5, <2>3, <2>5, KernelFields DEF NoSenders
  <2>7. k.state[d] \notin Dead
    BY <1>5, <1>6, <2>3
  <2>8. ASSUME NEW v \in Task, call'[v].op = "delete", call'[v].arg = d PROVE v = u
    BY <1>5, <2>1, <2>2, <2>8 DEF Deletions
  <2>. QED  BY <2>2, <2>3, <2>6, <2>7, <2>8
<1>10. NoOrphans(k)
  <2>. SUFFICES ASSUME NEW t \in Task, k.state[t] \in Dead, NEW u \in Task
                PROVE  k.queue[u] # t
    BY DEF NoOrphans, NoSenders
  <2>1. t # c /\ state[t] \in Dead
    BY <1>5, <1>6
  <2>2. queue[u] # t
    BY <1>1, <2>1, KernelFields DEF Good, NoOrphans, NoSenders
  <2>3. x # t
    BY <2>1 DEF Open
  <2>. QED  BY <1>5, <2>2, <2>3
<1>11. Honest(k, call', served')
  <2>1. ASSUME NEW u \in Task, k.success[u] PROVE served'[u] /\ call'[u].op \in BlockingOp
    <3>1. served[u] /\ call[u].op \in BlockingOp
      BY <1>1, <1>3, <2>1, KernelFields DEF Good, Honest
    <3>2. u # c
      BY <1>2, <3>1 DEF BlockingOp
    <3>. QED  BY <1>5, <3>1, <3>2
  <2>. QED  BY <1>5, <2>1 DEF Honest
<1>. QED  BY <1>4, <1>7, <1>8, <1>9, <1>10, <1>11 DEF Good

\* A blocking call: the task leaves the CPU, enters its queue and the time queue.
LEMMA BlockingStep ==
  ASSUME KInv, InTask, NEW st \in Timed, NEW x, NEW p \in CallPoint, NEW msecs \in Msecs,
         NEW k1, Leaves(k1, mt_curr_task, st, x),
         PlaceOf(mt_curr_task, st, x), Open(x), x = NoQueue \/ x \in QueueId,
         p.op # "delete", st # "Delaying" => p.op \in BlockingOp,
         call' = [call EXCEPT ![mt_curr_task] = p], Blocks(mt_curr_task, msecs),
         Becomes(scheduler(EnqueueTime(k1, mt_curr_task, msecs)))
  PROVE  Steps
<1>. DEFINE c == mt_curr_task
            f == [left EXCEPT ![c] = msecs_to_ticks(msecs)]
            k == EnqueueTime(k1, c, msecs)
<1>1. /\ c \in Task /\ state \in [Task -> States] /\ served \in [Task -> BOOLEAN]
      /\ call \in [Task -> CallPoint]
  BY CallerFacts
<1>2. left \in [Task -> Nat]
  BY DEF KInv
<1>3. Asleep(k1, c, f, k)
  BY <1>1, <1>2, EnqueueTimeSleeps DEF Leaves
<1>4. served' = [served EXCEPT ![c] = FALSE] /\ Timing(f)
  BY DEF Blocks
<1>. HIDE DEF k, f
<1>5. Good(k, call', served')
  BY <1>3, <1>4, GoodBlock
<1>6. /\ Exact(k.time_q, f) /\ k.curr = c /\ k.state = [state EXCEPT ![c] = st]
      /\ k.success = success
  BY <1>3 DEF Asleep, Leaves, SameRest
<1>7. k.state[c] = st /\ st # "Ready" /\ st # "Current"
  BY <1>1, <1>6 DEF Timed
<1>8. ASSUME Answered(Kernel, call, served) PROVE Answered(k, call', served')
  <2>. SUFFICES ASSUME NEW u \in Task, served'[u], call'[u].op \in BlockingOp
                PROVE  k.success[u] /\ k.state[u] \in {"Ready", "Current"}
    BY DEF Answered
  <2>1. u # c
    BY <1>1, <1>4
  <2>2. served[u] /\ call[u].op \in BlockingOp /\ k.state[u] = state[u]
    BY <1>1, <1>4, <1>6, <2>1
  <2>. QED  BY <1>6, <1>8, <2>2, KernelFields DEF Answered
<1>9. StepTo(k, f)
  BY <1>4, <1>5, <1>6, <1>7, <1>8 DEF StepTo, k
<1>. QED  BY <1>9 DEF Steps

\* The task that calls the API.
LEMMA TaskFacts ==
  ASSUME KInv, InTask
  PROVE  /\ mt_curr_task \in Task /\ mt_int_level = 0 /\ state[mt_curr_task] = "Current"
         /\ queue[mt_curr_task] = NoQueue /\ mt_curr_task \notin TimeMembers(time_q)
         /\ call[mt_curr_task] = Idle /\ Right(Kernel)
BY CallerFacts DEF InTask

\* The caller blocked, in no list and not waiting for a message, misses no rendezvous.
LEMMA HaltedRendezvous ==
  ASSUME KInv, InTask, NEW st \in States, st \notin {"Sending", "Receiving"}, NEW x, NEW k,
         k.state = [state EXCEPT ![mt_curr_task] = st],
         k.queue = [queue EXCEPT ![mt_curr_task] = x], k.from = from
  PROVE  Rendezvous(k)
<1>1. /\ mt_curr_task \in Task /\ state \in [Task -> States] /\ Rendezvous(Kernel)
      /\ queue \in [Task -> QueueId \cup {NoQueue}]
  BY CallerFacts DEF Good
<1>2. \A u \in Task : k.state[u] = st \/ (k.state[u] = state[u] /\ k.queue[u] = queue[u])
  BY <1>1
<1>. QED  BY <1>1, <1>2, KernelFields DEF Rendezvous

\* WaitQueueTimed.
LEMMA WaitAction ==
  ASSUME KInv, NEW id \in Queue, NEW msecs \in Msecs, WaitQueueTimed(id, msecs)
  PROVE  Steps
<1>. DEFINE c == mt_curr_task
            b == block(Kernel, c, "Waiting")
            e == Enqueue(b, c, id)
<1>1. /\ InTask /\ Becomes(scheduler(EnqueueTime(e, c, msecs)))
      /\ call' = [call EXCEPT ![c] = Blocked("wait")] /\ Blocks(c, msecs)
  BY DEF WaitQueueTimed
<1>2. /\ Struct(Kernel) /\ c \in Task /\ state \in [Task -> States] /\ Exact(time_q, left)
      /\ queue \in [Task -> QueueId \cup {NoQueue}]
  BY CallerFacts
<1>3. Halted(Kernel, c, "Waiting", b)
  BY <1>2, BlockHalts DEF States
<1>. HIDE DEF b
<1>4. /\ Struct(b) /\ b.queue = [queue EXCEPT ![c] = NoQueue]
      /\ b.state = [state EXCEPT ![c] = "Waiting"] /\ b.success = success
      /\ TimeMembers(b.time_q) = TimeMembers(time_q) \ {c} /\ Exact(b.time_q, left)
      /\ b.curr = c /\ b.level = mt_int_level /\ b.from = from
  BY <1>2, <1>3, KernelFields DEF Halted, SameRest, StillExact
<1>5. id \in QueueId /\ id \notin Task /\ b.queue[c] = NoQueue
  BY <1>2, <1>4, KernelAssumption DEF QueueId
<1>6. /\ Struct(e) /\ e.queue = [b.queue EXCEPT ![c] = id]
      /\ e.state = b.state /\ e.success = b.success /\ e.time_q = b.time_q /\ SameRest(b, e)
  <2>1. Struct(b) /\ c \in Task /\ id \in QueueId /\ b.queue[c] = NoQueue
    BY <1>2, <1>4, <1>5
  <2>. QED  BY <2>1, EnqueueStruct
<1>. HIDE DEF e
<1>7. e.queue = [queue EXCEPT ![c] = id]
  BY <1>2, <1>4, <1>6
<1>8. Rendezvous(e)
  <2>1. "Waiting" \in States /\ e.from = from /\ e.state = [state EXCEPT ![c] = "Waiting"]
    BY <1>4, <1>6 DEF States, SameRest
  <2>. QED  BY <1>1, <1>7, <2>1, HaltedRendezvous
<1>9. Leaves(e, c, "Waiting", id)
  BY <1>4, <1>6, <1>7, <1>8 DEF Leaves, SameRest
<1>10. PlaceOf(c, "Waiting", id) /\ Open(id) /\ "Waiting" \in Timed
  BY <1>5 DEF PlaceOf, Open, Timed
<1>11. Blocked("wait") \in CallPoint /\ Blocked("wait").op = "wait"
  BY DEF Blocked, CallPoint
<1>12. "wait" \in BlockingOp /\ "wait" # "delete"
  BY DEF BlockingOp
<1>. QED  BY <1>1, <1>5, <1>9, <1>10, <1>11, <1>12, BlockingStep DEF e, b

\* Send to a task that does not receive.
LEMMA SendBlockAction ==
  ASSUME KInv, NEW t \in Task, NEW msecs \in Msecs, SendBlock(t, msecs)
  PROVE  Steps
<1>. DEFINE c == mt_curr_task
            b == [Kernel EXCEPT !.state[c] = "Sending"]
            e == Enqueue(b, c, t)
<1>1. /\ InTask /\ Becomes(scheduler(EnqueueTime(e, c, msecs)))
      /\ call' = [call EXCEPT ![c] = Blocked("send")] /\ Blocks(c, msecs)
      /\ state[t] \notin Dead /\ t # c /\ ~Accepts(t, c) /\ ~BeingDeleted(t)
  BY DEF SendBlock, SendWaits, Live, Dead
<1>2. /\ Struct(Kernel) /\ c \in Task /\ state \in [Task -> States] /\ Exact(time_q, left)
      /\ queue \in [Task -> QueueId \cup {NoQueue}] /\ Kernel \in Record
      /\ Rendezvous(Kernel)
  BY CallerFacts DEF Good
<1>3. queue[c] = NoQueue /\ c \notin TimeMembers(time_q)
  BY <1>1, TaskFacts
<1>4. /\ b \in Record /\ b.q = q /\ b.queue = queue /\ b.priority = priority
      /\ b.time_q = time_q /\ b.state = [state EXCEPT ![c] = "Sending"]
      /\ b.curr = c /\ b.level = mt_int_level /\ b.success = success /\ b.from = from
  BY <1>2 DEF Record, Kernel, States
<1>. HIDE DEF b
<1>5. Struct(b)
  BY <1>2, <1>4, KernelFields, StructSame
<1>6. t \in QueueId /\ b.queue[c] = NoQueue
  BY <1>3, <1>4 DEF QueueId
<1>7. /\ Struct(e) /\ e.queue = [b.queue EXCEPT ![c] = t]
      /\ e.state = b.state /\ e.success = b.success /\ e.time_q = b.time_q /\ SameRest(b, e)
  BY <1>2, <1>5, <1>6, EnqueueStruct
<1>. HIDE DEF e
<1>8. /\ e.state[c] = "Sending" /\ e.queue[c] = t
      /\ \A u \in Task : u # c => e.state[u] = state[u] /\ e.queue[u] = queue[u]
      /\ e.from = from
  BY <1>2, <1>4, <1>7 DEF SameRest
<1>9. Rendezvous(e)
  <2>. SUFFICES ASSUME NEW s \in Task, NEW r \in Task, e.state[s] = "Sending", e.queue[s] = r,
                       e.state[r] = "Receiving", e.from[r] \in {NoTask, s}
                PROVE  FALSE
    BY DEF Rendezvous
  <2>1. r # c /\ state[r] = "Receiving" /\ from[r] \in {NoTask, s}
    BY <1>8
  <2>2. CASE s = c
    BY <1>1, <1>8, <2>1, <2>2 DEF Accepts
  <2>3. CASE s # c
    BY <1>2, <1>8, <2>1, <2>3, KernelFields DEF Rendezvous
  <2>. QED  BY <2>2, <2>3
<1>10. Leaves(e, c, "Sending", t)
  BY <1>2, <1>3, <1>4, <1>7, <1>9 DEF Leaves, SameRest
<1>11. PlaceOf(c, "Sending", t) /\ Open(t) /\ "Sending" \in Timed
  BY <1>1 DEF PlaceOf, Open, Timed
<1>12. Blocked("send") \in CallPoint /\ Blocked("send").op = "send"
  BY DEF Blocked, CallPoint
<1>13. "send" \in BlockingOp /\ "send" # "delete"
  BY DEF BlockingOp
<1>. QED  BY <1>1, <1>6, <1>10, <1>11, <1>12, <1>13, BlockingStep DEF e, b

\* Receive when no sender waits.
LEMMA ReceiveBlockAction ==
  ASSUME KInv, NEW want \in Task \cup {NoTask}, NEW msecs \in Msecs, ReceiveBlock(want, msecs)
  PROVE  Steps
<1>. DEFINE c == mt_curr_task
            e == [Kernel EXCEPT !.from[c] = want, !.state[c] = "Receiving"]
<1>1. /\ InTask /\ Becomes(scheduler(EnqueueTime(e, c, msecs)))
      /\ call' = [call EXCEPT ![c] = Blocked("receive")] /\ Blocks(c, msecs)
      /\ Sender(want) = NoTask
  BY DEF ReceiveBlock
<1>2. /\ Struct(Kernel) /\ c \in Task /\ state \in [Task -> States] /\ Exact(time_q, left)
      /\ queue \in [Task -> QueueId \cup {NoQueue}] /\ Kernel \in Record
      /\ Rendezvous(Kernel)
  BY CallerFacts DEF Good
<1>3. queue[c] = NoQueue /\ c \notin TimeMembers(time_q) /\ state[c] = "Current"
  BY <1>1, TaskFacts
<1>4. /\ e \in Record /\ e.q = q /\ e.queue = queue /\ e.priority = priority
      /\ e.time_q = time_q /\ e.state = [state EXCEPT ![c] = "Receiving"]
      /\ e.curr = c /\ e.level = mt_int_level /\ e.success = success
      /\ e.from = [from EXCEPT ![c] = want]
  BY <1>2 DEF Record, Kernel, States
<1>. HIDE DEF e
<1>5. Struct(e)
  BY <1>2, <1>4, KernelFields, StructSame
<1>6. from \in [Task -> Task \cup {NoTask}] /\ q \in [QueueId -> Seq(Task)]
  BY <1>2, RecordFields, KernelFields
<1>7. /\ e.state[c] = "Receiving" /\ e.from[c] = want
      /\ \A u \in Task : u # c => e.state[u] = state[u] /\ e.from[u] = from[u]
  BY <1>2, <1>4, <1>6
<1>8. Rendezvous(e)
  <2>. SUFFICES ASSUME NEW s \in Task, NEW r \in Task, e.state[s] = "Sending", queue[s] = r,
                       e.state[r] = "Receiving", e.from[r] \in {NoTask, s}
                PROVE  FALSE
    BY <1>4 DEF Rendezvous
  <2>1. s # c /\ state[s] = "Sending"
    BY <1>7
  <2>2. CASE r = c
    <3>1. want = NoTask \/ want = s
      BY <1>7, <2>2
    <3>2. CASE want = s
      BY <1>1, <2>2, <3>2, KernelAssumption DEF Sender
    <3>3. CASE want = NoTask
      <4>1. c \in QueueId
        BY <1>2 DEF QueueId
      <4>2. s \in Members(q[c])
        BY <1>2, <2>2, <4>1, KernelFields DEF Struct
      <4>3. q[c] \in Seq(Task) /\ q[c] # <<>>
        BY <1>6, <4>1, <4>2, EmptyMembers
      <4>4. mt_peeklast(q[c]) \in Task
        BY <4>3 DEF mt_peeklast
      <4>. QED  BY <1>1, <3>3, <4>3, <4>4, KernelAssumption DEF Sender
    <3>. QED  BY <3>1, <3>2, <3>3
  <2>3. CASE r # c
    BY <1>2, <1>7, <2>1, <2>3, KernelFields DEF Rendezvous
  <2>. QED  BY <2>2, <2>3
<1>9. Leaves(e, c, "Receiving", NoQueue)
  <2>1. [queue EXCEPT ![c] = NoQueue] = queue
    BY <1>2, <1>3
  <2>. QED  BY <1>2, <1>3, <1>4, <1>5, <1>8, <2>1 DEF Leaves
<1>10. PlaceOf(c, "Receiving", NoQueue) /\ Open(NoQueue) /\ "Receiving" \in Timed
  BY KernelAssumption DEF PlaceOf, Open, Timed, QueueId
<1>11. Blocked("receive") \in CallPoint /\ Blocked("receive").op = "receive"
  BY DEF Blocked, CallPoint
<1>12. "receive" \in BlockingOp /\ "receive" # "delete"
  BY DEF BlockingOp
<1>. QED  BY <1>1, <1>9, <1>10, <1>11, <1>12, BlockingStep DEF e

\* Delay.
LEMMA DelayAction ==
  ASSUME KInv, NEW msecs \in Msecs, Delay(msecs)
  PROVE  Steps
<1>. DEFINE c == mt_curr_task
<1>1. InTask /\ call' = call /\ Blocks(c, msecs)
  BY DEF Delay
<1>2. /\ Struct(Kernel) /\ Good(Kernel, call, served) /\ c \in Task /\ state \in [Task -> States]
      /\ Exact(time_q, left) /\ queue \in [Task -> QueueId \cup {NoQueue}]
      /\ served \in [Task -> BOOLEAN] /\ call \in [Task -> CallPoint]
      /\ \A t \in Task : success[t] => served[t] /\ call[t].op \in BlockingOp
  BY CallerFacts
<1>3. /\ queue[c] = NoQueue /\ c \notin TimeMembers(time_q) /\ state[c] = "Current"
      /\ call[c] = Idle /\ mt_int_level = 0
  BY <1>1, TaskFacts
<1>4. CASE msecs = 0
  <2>. DEFINE k == ready(Kernel, c, FALSE)
              f == [left EXCEPT ![c] = msecs_to_ticks(0)]
  <2>1. Becomes(scheduler(k)) /\ Delay(0)
    BY <1>4 DEF Delay
  <2>2. served' = [served EXCEPT ![c] = FALSE] /\ Timing(f)
    BY <1>1, <1>4 DEF Blocks
  <2>3. call[c].op \notin BlockingOp
    BY <1>3 DEF Idle, BlockingOp
  <2>4. Good(k, call, served) /\ MadeReady(Kernel, c, FALSE, k)
    <3>1. Outcome(FALSE) /\ Kernel.state[c] \notin Dead
      BY <1>3, KernelFields DEF Outcome, Dead
    <3>. QED  BY <1>2, <3>1, ReadyStep
  <2>. HIDE DEF k
  <2>5. /\ Exact(k.time_q, left) /\ k.curr = c
        /\ \A u \in Task : u # c => k.state[u] = state[u] /\ k.success[u] = success[u]
        /\ k.state[c] = "Ready" /\ k.success[c] = FALSE
    BY <1>2, <1>3, <2>4, KernelFields DEF MadeReady, StillExact
  <2>6. Good(k, call, served')
    <3>1. served' \in [Task -> BOOLEAN] /\ \A u \in Task : k.success[u] /\ served[u] => served'[u]
      BY <1>2, <2>2, <2>5
    <3>. QED  BY <2>4, <3>1, GoodServed
  <2>7. Exact(k.time_q, f)
    <3>1. Sound(k)
      BY <2>4 DEF Good
    <3>2. k.time_q \in Seq(Entry(Task)) /\ c \notin TimeMembers(k.time_q)
      <4>1. k \in Record /\ Placed(k)
        BY <3>1 DEF Sound, Struct
      <4>2. c \in TimeMembers(k.time_q) => k.state[c] \in Timed
        BY <1>2, <4>1 DEF Placed
      <4>. QED  BY <2>5, <4>1, <4>2, RecordFields DEF Timed
    <3>3. \A u \in TimeMembers(k.time_q) : u \in Task
      BY <3>2, EntryTicks DEF TimeMembers
    <3>4. \A u \in TimeMembers(k.time_q) : f[u] = left[u]
      BY <3>2, <3>3 DEF KInv
    <3>. HIDE DEF f
    <3>. QED  BY <2>5, <3>2, <3>4, ExactAgrees
  <2>8. ASSUME Answered(Kernel, call, served) PROVE Answered(k, call, served')
    <3>. SUFFICES ASSUME NEW u \in Task, served'[u], call[u].op \in BlockingOp
                  PROVE  k.success[u] /\ k.state[u] \in {"Ready", "Current"}
      BY DEF Answered
    <3>1. u # c /\ served[u]
      BY <1>2, <2>2, <2>3
    <3>. QED  BY <2>5, <2>8, <3>1, KernelFields DEF Answered
  <2>. HIDE DEF f
  <2>9. StepTo(k, f)
    BY <1>1, <2>1, <2>2, <2>3, <2>5, <2>6, <2>7, <2>8 DEF StepTo, k
  <2>. QED  BY <2>9 DEF Steps
<1>5. CASE msecs # 0
  <2>. DEFINE b == block(Kernel, c, "Delaying")
  <2>1. Becomes(scheduler(EnqueueTime(b, c, msecs)))
    BY <1>5 DEF Delay
  <2>2. Halted(Kernel, c, "Delaying", b)
    BY <1>2, BlockHalts DEF States
  <2>. HIDE DEF b
  <2>3. /\ Struct(b) /\ b.queue = [queue EXCEPT ![c] = NoQueue]
        /\ b.state = [state EXCEPT ![c] = "Delaying"] /\ b.success = success
        /\ TimeMembers(b.time_q) = TimeMembers(time_q) \ {c} /\ Exact(b.time_q, left)
        /\ b.curr = c /\ b.level = mt_int_level /\ b.from = from
    BY <1>2, <2>2, KernelFields DEF Halted, SameRest, StillExact
  <2>4. Rendezvous(b)
    <3>1. "Delaying" \in States
      BY DEF States
    <3>. QED  BY <1>1, <2>3, <3>1, HaltedRendezvous
  <2>5. Leaves(b, c, "Delaying", NoQueue)
    BY <2>3, <2>4 DEF Leaves
  <2>6. PlaceOf(c, "Delaying", NoQueue) /\ Open(NoQueue) /\ "Delaying" \in Timed
    BY KernelAssumption DEF PlaceOf, Open, Timed, QueueId
  <2>7. Idle \in CallPoint /\ Idle.op # "delete" /\ call' = [call EXCEPT ![c] = Idle]
    BY <1>1, <1>2, <1>3 DEF Idle, CallPoint
  <2>. QED  BY <1>1, <2>1, <2>5, <2>6, <2>7, BlockingStep DEF b
<1>. QED  BY <1>4, <1>5

-----------------------------------------------------------------------------
(***************************************************************************)
(* The calls that wake many tasks, and the clock.                          *)
(***************************************************************************)

\* FlushQueue.
LEMMA FlushAction ==
  ASSUME KInv, NEW id \in Queue, NEW ok \in BOOLEAN, FlushQueue(id, ok)
  PROVE  Steps
<1>. DEFINE c == mt_curr_task
            k == WakeAll(Kernel, id, ok)
            T == IF ok THEN Members(q[id]) ELSE {}
<1>1. /\ InTask \/ InHandler
      /\ Becomes(scheduler(k)) /\ call' = call /\ Serves(T)
  BY DEF FlushQueue
<1>2. /\ Struct(Kernel) /\ Sound(Kernel) /\ Good(Kernel, call, served) /\ c \in Task
      /\ served \in [Task -> BOOLEAN] /\ Exact(time_q, left)
  BY CallerFacts
<1>3. id \in QueueId /\ id # NoQueue /\ id # "ready"
  BY KernelAssumption DEF QueueId
<1>4. Members(q[id]) = {t \in Task : queue[t] = id}
  BY <1>2, <1>3, KernelFields DEF Struct
<1>5. /\ served' \in [Task -> BOOLEAN] /\ Timing(left)
      /\ \A u \in Task : served'[u] <=> served[u] \/ u \in T
  BY <1>1, <1>2, ServesHistory
<1>6. \A u \in Task : u \in T <=> ok /\ queue[u] = id
  BY <1>4
<1>7. call[c].op \notin BlockingOp
  BY <1>1, NotBlocked
<1>8. Good(Kernel, call, served') /\ AllServed(Kernel, id, served', ok) /\ Outcome(ok)
  <2>1. Good(Kernel, call, served')
    BY <1>2, <1>5, GoodServed
  <2>. QED  BY <1>5, <1>6, <2>1, KernelFields DEF AllServed, Outcome
<1>9. Good(k, call, served') /\ NoSenders(k, id) /\ Flushed(Kernel, id, ok, k)
  BY <1>8, WakeAllGood
<1>. HIDE DEF k, T
<1>10. /\ \A u \in Task :
            \/ k.state[u] = state[u] /\ k.queue[u] = queue[u] /\ k.success[u] = success[u]
            \/ queue[u] = id /\ k.state[u] = "Ready" /\ k.success[u] = ok
       /\ Exact(k.time_q, left) /\ k.curr = c
  BY <1>2, <1>9, KernelFields DEF Flushed, SameRest, StillExact
<1>11. \A u \in Task : queue[u] = id => state[u] = "Waiting"
  BY <1>2, KernelFields, InList
<1>12. state[c] = "Current" => k.state[c] = "Current"
  BY <1>2, <1>10, <1>11
<1>13. ASSUME Answered(Kernel, call, served) PROVE Answered(k, call, served')
  <2>. SUFFICES ASSUME NEW u \in Task, served'[u], call[u].op \in BlockingOp
                PROVE  k.success[u] /\ k.state[u] \in {"Ready", "Current"}
    BY DEF Answered
  <2>1. CASE u \in T
    <3>1. k.queue[u] # id
      BY <1>9 DEF NoSenders
    <3>. QED  BY <1>6, <1>10, <2>1, <3>1
  <2>2. CASE u \notin T
    <3>1. success[u] /\ state[u] \in {"Ready", "Current"}
      BY <1>5, <1>13, <2>2, KernelFields DEF Answered
    <3>. QED  BY <1>10, <1>11, <3>1
  <2>. QED  BY <2>1, <2>2
<1>14. StepTo(k, left)
  BY <1>1, <1>5, <1>7, <1>9, <1>10, <1>12, <1>13 DEF StepTo, k
<1>. QED  BY <1>14 DEF Steps

\* The clock interrupt.
LEMMA ClockAction ==
  ASSUME KInv, ClockInterrupt
  PROVE  Steps
<1>. DEFINE c == mt_curr_task
            k == clockint(Kernel)
            h == [t \in Task |-> IF left[t] < 0 THEN left[t] ELSE left[t] - 1]
<1>1. /\ Interruptible /\ Becomes(scheduler(k)) /\ Timing(h) /\ call' = call /\ served' = served
  BY DEF ClockInterrupt
<1>2. /\ Good(Kernel, call, served) /\ c \in Task /\ Exact(time_q, left)
      /\ time_q \in Seq(Entry(Task))
  BY CallerFacts
<1>3. call[c].op \notin BlockingOp
  BY <1>1 DEF Interruptible, BlockingOp
<1>4. Good(k, call, served) /\ TimedOut(Kernel, k) /\ OneTickLater(Kernel.time_q, k.time_q)
  BY <1>2, ClockGood
<1>5. \A u \in TimeMembers(time_q) : left[u] > 0 => h[u] = left[u] - 1
  <2>1. \A u \in TimeMembers(time_q) : u \in Task
    BY <1>2, EntryTicks DEF TimeMembers
  <2>. QED  BY <2>1 DEF KInv
<1>. HIDE DEF k, h
<1>6. Exact(k.time_q, h)
  BY <1>2, <1>4, <1>5, KernelFields DEF OneTickLater
<1>7. /\ \A u \in Task : \/ k.state[u] = state[u] /\ k.success[u] = success[u]
                         \/ state[u] \in Timed
      /\ k.curr = c
  BY <1>4, KernelFields DEF TimedOut, SameButSlice
<1>8. state[c] = "Current" => k.state[c] = "Current"
  BY <1>2, <1>7 DEF Timed
<1>9. ASSUME Answered(Kernel, call, served) PROVE Answered(k, call, served)
  BY <1>7, <1>9, KernelFields DEF Answered, Timed
<1>10. StepTo(k, h)
  BY <1>1, <1>3, <1>4, <1>6, <1>7, <1>8, <1>9 DEF StepTo, k
<1>. QED  BY <1>10 DEF Steps

-----------------------------------------------------------------------------
(***************************************************************************)
(* Tasks come and go.                                                      *)
(***************************************************************************)

\* A task that is dead, or ready or running, is in no list of the program's.
LEMMA DeadPlace ==
  ASSUME KInv, NEW t \in Task, state[t] \in Dead
  PROVE  /\ state[t] = "Free" => queue[t] = NoQueue
         /\ state[t] = "Terminated" => queue[t] = "terminated"
         /\ t \notin TimeMembers(time_q) /\ t # NullTask
         /\ NoSenders(Kernel, t)
<1>1. Sound(Kernel) /\ Good(Kernel, call, served) /\ NullTask \in Task
  BY CallerFacts
<1>2. t # NullTask
  BY <1>1, KernelFields DEF Sound, Dead
<1>3. NoSenders(Kernel, t)
  BY <1>1, KernelFields DEF Good, NoOrphans
<1>4. /\ state[t] = "Free" => queue[t] = NoQueue
      /\ state[t] = "Terminated" => queue[t] = "terminated"
      /\ t \notin TimeMembers(time_q)
  BY <1>1, KernelFields DEF Sound, Placed, Dead, Timed
<1>. QED  BY <1>2, <1>3, <1>4

\* CreateTask.
LEMMA CreateAction ==
  ASSUME KInv, NEW t \in Task, NEW p \in Prio, CreateTask(t, p)
  PROVE  Steps
<1>. DEFINE c == mt_curr_task
            dead == Members(q["terminated"])
            ks == [u \in Task |-> IF u = t THEN "Suspended"
                                  ELSE IF u \in dead THEN "Free" ELSE Kernel.state[u]]
            kq == [u \in Task |-> IF u \in dead THEN NoQueue ELSE Kernel.queue[u]]
            k == [Kernel EXCEPT
                    !.q["terminated"] = <<>>,
                    !.queue = [u \in Task |-> IF u \in dead THEN NoQueue ELSE @[u]],
                    !.state = [u \in Task |-> IF u = t THEN "Suspended"
                                              ELSE IF u \in dead THEN "Free" ELSE @[u]],
                    !.priority[t] = p, !.atomic_level[t] = 0, !.success[t] = FALSE,
                    !.from[t] = NoTask, !.q[t] = <<>>]
<1>1. /\ InTask
      /\ state[t] = "Free" \/ t \in dead
      /\ Becomes(k) /\ call' = [call EXCEPT ![t] = Idle] /\ NoHistory
  BY DEF CreateTask
<1>2. /\ Kernel \in Record /\ Struct(Kernel) /\ Sound(Kernel) /\ Good(Kernel, call, served)
      /\ c \in Task /\ served \in [Task -> BOOLEAN] /\ Exact(time_q, left)
      /\ state \in [Task -> States] /\ queue \in [Task -> QueueId \cup {NoQueue}]
      /\ call \in [Task -> CallPoint] /\ time_q \in Seq(Entry(Task))
  BY CallerFacts
<1>3. /\ priority \in [Task -> Nat] /\ atomic_level \in [Task -> 0 .. MaxAtomic]
      /\ success \in [Task -> BOOLEAN] /\ from \in [Task -> Task \cup {NoTask}]
      /\ q \in [QueueId -> Seq(Task)] /\ p \in Nat /\ MaxAtomic \in Nat
      /\ ticks_to_run \in 0 .. QUANTUM /\ mt_int_level \in 0 .. MaxNest
  BY <1>2, RecordFields, KernelFields, KernelAssumption
<1>4. served' = served /\ Timing(left)
  BY <1>1, <1>2, NoHistorySame
<1>5. /\ mt_int_level = 0 /\ state[c] = "Current" /\ call[c] = Idle /\ Right(Kernel)
  BY <1>1, TaskFacts
<1>6. "terminated" \in QueueId /\ t \in QueueId /\ t # "terminated" /\ NoQueue \notin QueueId
  BY KernelAssumption DEF QueueId
<1>7. \A u \in Task : u \in dead <=> state[u] = "Terminated"
  <2>1. \A u \in Task : u \in dead <=> queue[u] = "terminated"
    BY <1>2, <1>6, KernelFields DEF Struct
  <2>2. \A u \in Task : state[u] = "Terminated" <=> queue[u] = "terminated"
    <3>1. "terminated" \notin Queue \cup Task /\ "terminated" # "ready"
      BY KernelAssumption
    <3>. QED  BY <1>2, <1>6, <3>1, KernelFields DEF Sound, Placed
  <2>. QED  BY <2>1, <2>2
<1>8. \A u \in Task : u \in dead <=> queue[u] = "terminated"
  BY <1>2, <1>6, KernelFields DEF Struct
<1>. HIDE DEF dead
<1>9. ks \in [Task -> States] /\ kq \in [Task -> QueueId \cup {NoQueue}]
  BY <1>2, KernelFields DEF States
<1>10. [[q EXCEPT !["terminated"] = <<>>] EXCEPT ![t] = <<>>] \in [QueueId -> Seq(Task)]
  <2>1. <<>> \in Seq(Task)
    OBVIOUS
  <2>2. ASSUME NEW e \in Seq(Task)
        PROVE  [[q EXCEPT !["terminated"] = e] EXCEPT ![t] = e] \in [QueueId -> Seq(Task)]
    BY <1>3
  <2>. QED  BY <2>1, <2>2
<1>11. /\ [priority EXCEPT ![t] = p] \in [Task -> Nat]
       /\ [atomic_level EXCEPT ![t] = 0] \in [Task -> 0 .. MaxAtomic]
       /\ [success EXCEPT ![t] = FALSE] \in [Task -> BOOLEAN]
       /\ [from EXCEPT ![t] = NoTask] \in [Task -> Task \cup {NoTask}]
  BY <1>3
<1>12. /\ k \in Record
       /\ k.state = ks /\ k.priority = [priority EXCEPT ![t] = p] /\ k.queue = kq
       /\ k.atomic_level = [atomic_level EXCEPT ![t] = 0]
       /\ k.success = [success EXCEPT ![t] = FALSE] /\ k.from = [from EXCEPT ![t] = NoTask]
       /\ k.q = [[q EXCEPT !["terminated"] = <<>>] EXCEPT ![t] = <<>>]
       /\ k.time_q = time_q /\ k.curr = c /\ k.level = mt_int_level
  <2>. HIDE DEF ks, kq
  <2>1. k = [Kernel EXCEPT !.q["terminated"] = <<>>, !.queue = kq, !.state = ks,
               !.priority[t] = p, !.atomic_level[t] = 0, !.success[t] = FALSE,
               !.from[t] = NoTask, !.q[t] = <<>>]
    BY DEF ks, kq
  <2>2. /\ [[Kernel.q EXCEPT !["terminated"] = <<>>] EXCEPT ![t] = <<>>]
              \in [QueueId -> Seq(Task)]
        /\ [Kernel.priority EXCEPT ![t] = p] \in [Task -> Nat]
        /\ [Kernel.atomic_level EXCEPT ![t] = 0] \in [Task -> 0 .. MaxAtomic]
        /\ [Kernel.success EXCEPT ![t] = FALSE] \in [Task -> BOOLEAN]
        /\ [Kernel.from EXCEPT ![t] = NoTask] \in [Task -> Task \cup {NoTask}]
    BY <1>10, <1>11, KernelFields
  <2>. HIDE DEF k
  <2>3. /\ k \in Record
        /\ k.state = ks /\ k.priority = [Kernel.priority EXCEPT ![t] = p] /\ k.queue = kq
        /\ k.atomic_level = [Kernel.atomic_level EXCEPT ![t] = 0]
        /\ k.success = [Kernel.success EXCEPT ![t] = FALSE]
        /\ k.from = [Kernel.from EXCEPT ![t] = NoTask]
        /\ k.q = [[Kernel.q EXCEPT !["terminated"] = <<>>] EXCEPT ![t] = <<>>]
        /\ k.time_q = Kernel.time_q /\ k.curr = Kernel.curr /\ k.level = Kernel.level
    <3>1. Kernel \in Record
      BY <1>2
    <3>. QED  BY <1>9, <2>1, <2>2, <3>1 DEF Record
  <2>. QED  BY <2>3, KernelFields
<1>. HIDE DEF k, ks, kq
<1>13. /\ k.state[t] = "Suspended" /\ k.queue[t] = NoQueue /\ ~k.success[t]
       /\ state[t] \in Dead /\ t # c
       /\ \A u \in Task : u # t /\ state[u] = "Terminated" =>
            k.state[u] = "Free" /\ k.queue[u] = NoQueue
       /\ \A u \in Task : u # t /\ state[u] # "Terminated" =>
            k.state[u] = state[u] /\ k.queue[u] = queue[u]
  <2>1. state[t] \in Dead /\ t # c
    BY <1>1, <1>5, <1>7 DEF Dead
  <2>2. state[t] = "Free" => queue[t] = NoQueue
    BY <2>1, DeadPlace
  <2>. QED  BY <1>1, <1>3, <1>7, <1>12, <2>1, <2>2, KernelFields DEF ks, kq
<1>14. \A u \in Task : u # t => /\ k.success[u] = success[u] /\ k.from[u] = from[u]
                                /\ k.priority[u] = priority[u]
                                /\ k.atomic_level[u] = atomic_level[u]
  BY <1>3, <1>12
<1>15. NoSenders(Kernel, t) /\ t # NullTask /\ t \notin TimeMembers(time_q)
  BY <1>13, DeadPlace
<1>16. Struct(k)
  <2>1. \A id \in QueueId : id # "terminated" /\ id # t => k.q[id] = q[id]
    BY <1>3, <1>12
  <2>2. k.q["terminated"] = <<>> /\ k.q[t] = <<>>
    BY <1>3, <1>6, <1>12
  <2>3. ASSUME NEW id \in QueueId, id # "terminated", id # t
        PROVE  /\ Members(k.q[id]) = {u \in Task : k.queue[u] = id}
               /\ Distinct(k.q[id])
               /\ Sorted(k.q[id], k.priority)
    <3>1. /\ k.q[id] = q[id] /\ q[id] \in Seq(Task)
          /\ Members(q[id]) = {u \in Task : queue[u] = id}
          /\ Distinct(q[id]) /\ Sorted(q[id], priority)
      BY <1>2, <1>3, <2>1, <2>3, KernelFields DEF Struct
    <3>2. \A u \in Task : k.queue[u] = id <=> queue[u] = id
      BY <1>6, <1>7, <1>8, <1>12, <2>3, KernelFields DEF kq
    <3>3. t \notin Members(q[id])
      BY <1>6, <1>13, <3>1, <3>2
    <3>4. \A i \in 1 .. Len(q[id]) : q[id][i] # t /\ q[id][i] \in Task
      BY <3>1, <3>3 DEF Members
    <3>5. \A i \in 1 .. Len(q[id]) : k.priority[q[id][i]] = priority[q[id][i]]
      BY <1>14, <3>4
    <3>6. Sorted(q[id], k.priority)
      BY <3>1, <3>5 DEF Sorted
    <3>. QED  BY <3>1, <3>2, <3>6
  <2>4. ASSUME NEW id \in QueueId, id = "terminated" \/ id = t
        PROVE  /\ Members(k.q[id]) = {u \in Task : k.queue[u] = id}
               /\ Distinct(k.q[id])
               /\ Sorted(k.q[id], k.priority)
    <3>1. k.q[id] = <<>>
      BY <2>2, <2>4
    <3>2. Members(<<>>) = {} /\ Distinct(<<>>) /\ Sorted(<<>>, k.priority)
      BY DEF Members, Distinct, Sorted
    <3>3. \A u \in Task : k.queue[u] # id
      BY <1>6, <1>8, <1>12, <1>15, <2>4, KernelFields DEF kq, NoSenders
    <3>. QED  BY <3>1, <3>2, <3>3
  <2>5. TimeDistinct(k.time_q)
    BY <1>2, <1>12, KernelFields DEF Struct
  <2>. QED  BY <1>12, <2>3, <2>4, <2>5 DEF Struct
<1>17. Sound(k)
  <2>1. Placed(k)
    <3>. SUFFICES ASSUME NEW u \in Task
                  PROVE  PlaceOf(u, k.state[u], k.queue[u]) /\
                         (u \in TimeMembers(time_q) => k.state[u] \in Timed)
      BY <1>12 DEF Placed, PlaceOf
    <3>1. PlaceOf(u, state[u], queue[u]) /\ (u \in TimeMembers(time_q) => state[u] \in Timed)
      BY <1>2, KernelFields DEF Sound, Placed, PlaceOf
    <3>2. CASE u = t
      BY <1>13, <1>15, <3>2 DEF PlaceOf
    <3>3. CASE u # t /\ state[u] = "Terminated"
      BY <1>13, <3>1, <3>3 DEF PlaceOf, Timed
    <3>4. CASE u # t /\ state[u] # "Terminated"
      BY <1>13, <3>1, <3>4
    <3>. QED  BY <3>2, <3>3, <3>4
  <2>2. \A u \in Task : k.state[u] = "Current" => u = k.curr
    BY <1>2, <1>12, <1>13, KernelFields DEF Sound
  <2>3. k.state[NullTask] \in {"Ready", "Current"}
    BY <1>2, <1>13, <1>15, KernelFields, CallerFacts DEF Sound
  <2>. QED  BY <1>16, <2>1, <2>2, <2>3 DEF Sound
<1>18. Idle \in CallPoint /\ Idle.op = "none"
  BY DEF Idle, CallPoint
<1>19. /\ call' \in [Task -> CallPoint] /\ call'[t].op = "none"
       /\ \A u \in Task : u # t => call'[u] = call[u]
  BY <1>1, <1>2, <1>18
<1>20. Good(k, call', served)
  <2>1. InCalls(k, call')
    <3>1. ~(k.level > 0)
      BY <1>5, <1>12
    <3>2. ASSUME NEW u \in Task, k.state[u] \in {"Waiting", "Sending", "Receiving"}
          PROVE  call'[u].op \in BlockingOp
      <4>1. u # t /\ k.state[u] = state[u]
        BY <1>13, <3>2
      <4>. QED  BY <1>2, <1>19, <3>2, <4>1, KernelFields DEF Good, InCalls
    <3>. QED  BY <1>19, <3>1, <3>2 DEF InCalls
  <2>2. \A d \in Task : NoSenders(Kernel, d) => NoSenders(k, d)
    <3>. SUFFICES ASSUME NEW d \in Task, NoSenders(Kernel, d), NEW u \in Task
                  PROVE  k.queue[u] # d
      BY DEF NoSenders
    <3>1. NoQueue \notin Task /\ queue[u] # d
      BY <1>6, KernelFields DEF NoSenders, QueueId
    <3>. QED  BY <1>13, <3>1
  <2>3. Deletions(k, call')
    <3>1. Deletions(Kernel, call)
      BY <1>2 DEF Good
    <3>. SUFFICES ASSUME NEW u \in Task, call'[u].op = "delete"
                  PROVE  /\ call'[u].arg \in Task \ {NullTask}
                         /\ k.state[call'[u].arg] \notin Dead
                         /\ NoSenders(k, call'[u].arg)
                         /\ \A v \in Task : call'[v].op = "delete" /\ call'[v].arg = call'[u].arg
                                              => v = u
      BY DEF Deletions
    <3>2. u # t /\ call'[u] = call[u]
      BY <1>19
    <3>. DEFINE d == call[u].arg
    <3>3. d \in Task \ {NullTask} /\ state[d] \notin Dead /\ NoSenders(Kernel, d)
      BY <3>1, <3>2, KernelFields DEF Deletions
    <3>4. k.state[d] \notin Dead
      BY <1>13, <3>3 DEF Dead
    <3>5. ASSUME NEW v \in Task, call'[v].op = "delete", call'[v].arg = d PROVE v = u
      BY <1>19, <3>1, <3>2, <3>5 DEF Deletions
    <3>. QED  BY <2>2, <3>2, <3>3, <3>4, <3>5
  <2>4. NoOrphans(k)
    <3>. SUFFICES ASSUME NEW d \in Task, k.state[d] \in Dead PROVE NoSenders(k, d)
      BY DEF NoOrphans
    <3>1. state[d] \in Dead
      BY <1>13 DEF Dead
    <3>. QED  BY <1>2, <2>2, <3>1, KernelFields DEF Good, NoOrphans
  <2>5. Rendezvous(k)
    BY <1>2, <1>13, <1>14, KernelFields DEF Good, Rendezvous
  <2>6. Honest(k, call', served)
    BY <1>2, <1>13, <1>14, <1>19, KernelFields DEF Good, Honest
  <2>. QED  BY <1>17, <2>1, <2>3, <2>4, <2>5, <2>6 DEF Good
<1>21. Right(k)
  <2>1. k.state[c] = "Current" /\ \A u \in Task : k.state[u] = "Ready" => u # t /\ state[u] = "Ready"
    BY <1>2, <1>5, <1>13
  <2>. QED  BY <1>2, <1>5, <1>12, <1>13, <1>14, <2>1, KernelFields DEF Right
<1>22. ASSUME Answered(Kernel, call, served) PROVE Answered(k, call', served)
  <2>. SUFFICES ASSUME NEW u \in Task, served[u], call'[u].op \in BlockingOp
                PROVE  k.success[u] /\ k.state[u] \in {"Ready", "Current"}
    BY DEF Answered
  <2>1. u # t /\ call'[u] = call[u]
    BY <1>19 DEF BlockingOp
  <2>2. success[u] /\ state[u] \in {"Ready", "Current"}
    BY <1>22, <2>1, KernelFields DEF Answered
  <2>. QED  BY <1>13, <1>14, <2>1, <2>2
<1>23. call'[c].op \notin BlockingOp /\ k.state[c] # "Ready"
  BY <1>2, <1>5, <1>13, <1>18, <1>19 DEF BlockingOp
<1>24. StepTo(k, left)
  BY <1>1, <1>2, <1>4, <1>12, <1>20, <1>21, <1>22, <1>23 DEF StepTo
<1>. QED  BY <1>24 DEF Steps

\* The point of a call that a task deletes another in.
LEMMA DeletePoint ==
  ASSUME NEW t \in Task
  PROVE  Deleting(t) \in CallPoint /\ Deleting(t).op = "delete" /\ Deleting(t).arg = t
BY DEF Deleting, CallPoint

\* Once the senders of a live task are gone, it may be half deleted.
LEMMA GoodDelete ==
  ASSUME KInv, InTask, NEW k, Good(k, call, served), NEW t \in Task, NoSenders(k, t), t # NullTask,
         k.state[t] \notin Dead, k.level = 0, k.state[mt_curr_task] = "Current",
         ~BeingDeleted(t), call' = [call EXCEPT ![mt_curr_task] = Deleting(t)]
  PROVE  Good(k, call', served)
<1>. DEFINE c == mt_curr_task
<1>1. c \in Task /\ call \in [Task -> CallPoint] /\ call[c] = Idle
  BY CallerFacts, TaskFacts
<1>2. /\ call' \in [Task -> CallPoint] /\ call'[c] = Deleting(t)
      /\ \A u \in Task : u # c => call'[u] = call[u]
  BY <1>1, DeletePoint
<1>3. Deleting(t).op = "delete" /\ Deleting(t).arg = t /\ call[c].op = "none"
  BY <1>1, DeletePoint DEF Idle
<1>4. InCalls(k, call')
  <2>1. ASSUME NEW u \in Task, k.state[u] \in {"Waiting", "Sending", "Receiving"}
        PROVE  call'[u].op \in BlockingOp
    BY <1>2, <2>1 DEF Good, InCalls
  <2>. QED  BY <1>2, <2>1 DEF InCalls
<1>5. Deletions(k, call')
  <2>1. Deletions(k, call)
    BY DEF Good
  <2>2. ASSUME NEW u \in Task, u # c, call[u].op = "delete" PROVE call[u].arg # t
    <3>1. call[u] # Deleting(t) /\ call[u] \in CallPoint
      BY <1>1 DEF BeingDeleted
    <3>. QED  BY <2>2, <3>1 DEF CallPoint, Deleting
  <2>. SUFFICES ASSUME NEW u \in Task, call'[u].op = "delete"
                PROVE  /\ call'[u].arg \in Task \ {NullTask}
                       /\ k.state[call'[u].arg] \notin Dead
                       /\ NoSenders(k, call'[u].arg)
                       /\ \A v \in Task : call'[v].op = "delete" /\ call'[v].arg = call'[u].arg
                                            => v = u
    BY DEF Deletions
  <2>3. CASE u = c
    <3>1. call'[u].arg = t
      BY <1>2, <1>3, <2>3
    <3>2. ASSUME NEW v \in Task, call'[v].op = "delete", call'[v].arg = t PROVE v = u
      BY <1>2, <2>2, <2>3, <3>2
    <3>. QED  BY <3>1, <3>2
  <2>4. CASE u # c
    <3>1. call'[u] = call[u]
      BY <1>2, <2>4
    <3>2. ASSUME NEW v \in Task, call'[v].op = "delete", call'[v].arg = call[u].arg PROVE v = u
      <4>1. v # c
        BY <1>2, <1>3, <2>2, <2>4, <3>1, <3>2
      <4>. QED  BY <1>2, <2>1, <3>1, <3>2, <4>1 DEF Deletions
    <3>. QED  BY <2>1, <3>1, <3>2 DEF Deletions
  <2>. QED  BY <2>3, <2>4
<1>6. Honest(k, call', served)
  <2>1. ASSUME NEW u \in Task, k.success[u] PROVE served[u] /\ call'[u].op \in BlockingOp
    <3>1. served[u] /\ call[u].op \in BlockingOp
      BY <2>1 DEF Good, Honest
    <3>2. u # c
      BY <1>3, <3>1 DEF BlockingOp
    <3>. QED  BY <1>2, <3>1, <3>2
  <2>. QED  BY <2>1 DEF Good, Honest
<1>. QED  BY <1>4, <1>5, <1>6 DEF Good

\* The first half of DeleteTask: the senders to the task are let go.
LEMMA DeleteAction ==
  ASSUME KInv, NEW t \in Task, DeleteTask(t)
  PROVE  Steps
<1>. DEFINE c == mt_curr_task
            w == WakeAll(Kernel, t, FALSE)
<1>1. /\ InTask /\ state[t] \notin Dead /\ t # NullTask /\ ~BeingDeleted(t)
      /\ (q[t] = <<>> /\ Becomes(Kernel)) \/ Becomes(scheduler(w))
      /\ call' = [call EXCEPT ![c] = Deleting(t)] /\ NoHistory
  BY DEF DeleteTask, Live, Dead
<1>2. /\ Struct(Kernel) /\ Sound(Kernel) /\ Good(Kernel, call, served) /\ c \in Task
      /\ served \in [Task -> BOOLEAN] /\ Exact(time_q, left) /\ q \in [QueueId -> Seq(Task)]
      /\ call \in [Task -> CallPoint]
  BY CallerFacts, RecordFields, KernelFields
<1>3. served' = served /\ Timing(left)
  BY <1>1, <1>2, NoHistorySame
<1>4. /\ mt_int_level = 0 /\ state[c] = "Current" /\ queue[c] = NoQueue /\ Right(Kernel)
  BY <1>1, TaskFacts
<1>5. t \in QueueId /\ t # NoQueue
  BY KernelAssumption DEF QueueId
<1>6. /\ call'[c] = Deleting(t) /\ "delete" \notin BlockingOp /\ Deleting(t).op = "delete"
      /\ \A u \in Task : u # c => call'[u] = call[u]
  BY <1>1, <1>2, DeletePoint DEF BlockingOp
<1>7. CASE q[t] = <<>> /\ Becomes(Kernel)
  <2>1. NoSenders(Kernel, t)
    <3>1. Members(q[t]) = {} /\ Members(q[t]) = {u \in Task : queue[u] = t}
      BY <1>2, <1>5, <1>7, EmptyMembers, KernelFields DEF Struct
    <3>. QED  BY <3>1, KernelFields DEF NoSenders
  <2>2. Good(Kernel, call', served)
    BY <1>1, <1>2, <1>4, <2>1, KernelFields, GoodDelete
  <2>3. ASSUME Answered(Kernel, call, served) PROVE Answered(Kernel, call', served)
    BY <1>6, <2>3 DEF Answered
  <2>4. /\ call'[Kernel.curr].op \notin BlockingOp /\ Kernel.curr = c
        /\ Kernel.state[c] # "Ready" /\ Kernel.time_q = time_q
    BY <1>4, <1>6, KernelFields
  <2>5. StepTo(Kernel, left)
    BY <1>2, <1>3, <1>4, <1>7, <2>2, <2>3, <2>4 DEF StepTo
  <2>. QED  BY <2>5 DEF Steps
<1>8. CASE Becomes(scheduler(w))
  <2>1. Good(w, call, served) /\ NoSenders(w, t) /\ Flushed(Kernel, t, FALSE, w)
    <3>1. AllServed(Kernel, t, served, FALSE) /\ Outcome(FALSE)
      BY DEF AllServed, Outcome
    <3>. QED  BY <1>2, <3>1, WakeAllGood
  <2>. HIDE DEF w
  <2>2. /\ \A u \in Task :
             \/ w.state[u] = state[u] /\ w.queue[u] = queue[u] /\ w.success[u] = success[u]
             \/ queue[u] = t /\ w.state[u] = "Ready" /\ w.success[u] = FALSE
        /\ Exact(w.time_q, left) /\ w.curr = c /\ w.level = 0
    BY <1>2, <1>4, <2>1, KernelFields DEF Flushed, SameRest, StillExact
  <2>3. w.state[c] = "Current" /\ w.state[t] \notin Dead
    BY <1>1, <1>2, <1>4, <1>5, <2>2 DEF Dead
  <2>4. Good(w, call', served)
    BY <1>1, <2>1, <2>2, <2>3, GoodDelete
  <2>5. ASSUME Answered(Kernel, call, served) PROVE Answered(w, call', served)
    <3>. SUFFICES ASSUME NEW u \in Task, served[u], call'[u].op \in BlockingOp
                  PROVE  w.success[u] /\ w.state[u] \in {"Ready", "Current"}
      BY DEF Answered
    <3>1. u # c /\ call'[u] = call[u]
      BY <1>6
    <3>2. success[u] /\ state[u] \in {"Ready", "Current"}
      BY <2>5, <3>1, KernelFields DEF Answered
    <3>3. queue[u] = t => state[u] = "Sending"
      BY <1>2, KernelFields, InList
    <3>. QED  BY <2>2, <3>2, <3>3
  <2>6. StepTo(w, left)
    BY <1>3, <1>6, <1>8, <2>2, <2>3, <2>4, <2>5 DEF StepTo
  <2>. QED  BY <2>6 DEF Steps
<1>. QED  BY <1>1, <1>7, <1>8

\* The other tasks than t are as before in the record k.
OthersKept(k, t) ==
  \A u \in Task : u # t => /\ k.state[u] = state[u] /\ k.queue[u] = queue[u]
                           /\ k.success[u] = success[u] /\ k.from[u] = from[u]

\* The caller and t have no call to finish any more.
CallsEnded(t) ==
  /\ call' \in [Task -> CallPoint] /\ call'[t] = Idle /\ call'[mt_curr_task] = Idle
  /\ \A u \in Task : u # t /\ u # mt_curr_task => call'[u] = call[u]

\* The end of a task t whose senders are gone.
LEMMA GoodDeath ==
  ASSUME KInv, NEW t \in Task, call[mt_curr_task] = Deleting(t), NEW st \in Dead, NEW x, x \notin Task,
         NEW k, Sound(k), k.level = 0, k.state[t] = st, k.queue[t] = x, ~k.success[t],
         OthersKept(k, t), CallsEnded(t)
  PROVE  Good(k, call', served)
<1>. DEFINE c == mt_curr_task
<1>. USE DEF OthersKept, CallsEnded
<1>1. c \in Task /\ call \in [Task -> CallPoint] /\ Good(Kernel, call, served)
  BY CallerFacts
<1>2. call[c].op = "delete" /\ call[c].arg = t /\ Idle.op = "none"
  BY DeletePoint DEF Idle
<1>3. Deletions(Kernel, call)
  BY <1>1 DEF Good
<1>4. NoSenders(Kernel, t) /\ \A u \in Task : call[u].op = "delete" /\ call[u].arg = t => u = c
  BY <1>1, <1>2, <1>3 DEF Deletions
<1>5. \A d \in Task : NoSenders(Kernel, d) => NoSenders(k, d)
  BY KernelFields DEF NoSenders
<1>6. InCalls(k, call')
  <2>1. ASSUME NEW u \in Task, k.state[u] \in {"Waiting", "Sending", "Receiving"}
        PROVE  call'[u].op \in BlockingOp
    <3>1. u # t /\ state[u] = k.state[u]
      BY <2>1 DEF Dead
    <3>2. call[u].op \in BlockingOp
      BY <1>1, <2>1, <3>1, KernelFields DEF Good, InCalls
    <3>3. u # c
      BY <1>2, <3>2 DEF BlockingOp
    <3>. QED  BY <3>1, <3>2, <3>3
  <2>. QED  BY <2>1 DEF InCalls
<1>7. Deletions(k, call')
  <2>. SUFFICES ASSUME NEW u \in Task, call'[u].op = "delete"
                PROVE  /\ call'[u].arg \in Task \ {NullTask}
                       /\ k.state[call'[u].arg] \notin Dead
                       /\ NoSenders(k, call'[u].arg)
                       /\ \A v \in Task : call'[v].op = "delete" /\ call'[v].arg = call'[u].arg
                                            => v = u
    BY DEF Deletions
  <2>1. u # t /\ u # c /\ call'[u] = call[u]
    BY <1>2
  <2>. DEFINE d == call[u].arg
  <2>2. d \in Task \ {NullTask} /\ state[d] \notin Dead /\ NoSenders(Kernel, d)
    BY <1>3, <2>1, KernelFields DEF Deletions
  <2>3. d # t
    BY <1>4, <2>1
  <2>4. ASSUME NEW v \in Task, call'[v].op = "delete", call'[v].arg = d PROVE v = u
    <3>1. call'[v] = call[v]
      BY <1>2, <2>4
    <3>. QED  BY <1>3, <2>1, <2>4, <3>1 DEF Deletions
  <2>. QED  BY <1>5, <2>1, <2>2, <2>3, <2>4
<1>8. NoOrphans(k)
  <2>. SUFFICES ASSUME NEW d \in Task, k.state[d] \in Dead PROVE NoSenders(Kernel, d)
    BY <1>5 DEF NoOrphans
  <2>1. CASE d = t
    BY <1>4, <2>1
  <2>2. CASE d # t
    BY <1>1, <2>2, KernelFields DEF Good, NoOrphans
  <2>. QED  BY <2>1, <2>2
<1>9. Rendezvous(k)
  <2>1. Rendezvous(Kernel) /\ st # "Sending" /\ st # "Receiving"
    BY <1>1 DEF Good, Dead
  <2>. QED  BY <2>1, KernelFields DEF Rendezvous
<1>10. Honest(k, call', served)
  <2>1. ASSUME NEW u \in Task, k.success[u] PROVE served[u] /\ call'[u].op \in BlockingOp
    <3>1. u # t /\ success[u]
      BY <2>1
    <3>2. served[u] /\ call[u].op \in BlockingOp
      BY <3>1, CallerFacts
    <3>3. u # c
      BY <1>2, <3>2 DEF BlockingOp
    <3>. QED  BY <3>1, <3>2, <3>3
  <2>2. served \in [Task -> BOOLEAN]
    BY CallerFacts
  <2>. QED  BY <2>1, <2>2 DEF Honest
<1>. QED  BY <1>6, <1>7, <1>8, <1>9, <1>10 DEF Good

\* The end of a task leaves the answers of the others.
LEMMA DeathAnswers ==
  ASSUME KInv, NEW t \in Task, call[mt_curr_task] = Deleting(t), NEW k,
         OthersKept(k, t), CallsEnded(t), Answered(Kernel, call, served)
  PROVE  Answered(k, call', served)
<1>. SUFFICES ASSUME NEW u \in Task, served[u], call'[u].op \in BlockingOp
              PROVE  k.success[u] /\ k.state[u] \in {"Ready", "Current"}
  BY DEF Answered
<1>1. u # t /\ call'[u] = call[u]
  BY DEF Idle, BlockingOp, CallsEnded
<1>. QED  BY <1>1, KernelFields DEF Answered, OthersKept

\* What is left of a deletion is about a task that is alive, and not the null task.
LEMMA HalfDeleted ==
  ASSUME KInv, mt_int_level = 0, call[mt_curr_task].op = "delete"
  PROVE  LET t == call[mt_curr_task].arg
         IN  /\ t \in Task \ {NullTask} /\ call[mt_curr_task] = Deleting(t)
             /\ state[t] \notin Dead /\ state[mt_curr_task] = "Current" /\ Right(Kernel)
<1>1. /\ mt_curr_task \in Task /\ call \in [Task -> CallPoint] /\ Good(Kernel, call, served)
      /\ state[mt_curr_task] = "Current" /\ Right(Kernel)
  BY CallerFacts
<1>2. call[mt_curr_task] = Deleting(call[mt_curr_task].arg)
  BY <1>1 DEF CallPoint, Deleting
<1>3. /\ call[mt_curr_task].arg \in Task \ {NullTask}
      /\ Kernel.state[call[mt_curr_task].arg] \notin Dead
  BY <1>1 DEF Good, Deletions
<1>. QED  BY <1>1, <1>2, <1>3, KernelFields

\* Exit: the task puts itself among the terminated ones.
LEMMA ExitStep ==
  ASSUME KInv, mt_int_level = 0, call[mt_curr_task] = Deleting(mt_curr_task),
         mt_curr_task # NullTask, state[mt_curr_task] = "Current",
         Becomes(scheduler(Enqueue([Kernel EXCEPT !.state[mt_curr_task] = "Terminated"],
                                   mt_curr_task, "terminated"))),
         call' = [call EXCEPT ![mt_curr_task] = Idle], NoHistory
  PROVE  Steps
<1>. DEFINE c == mt_curr_task
            b == [Kernel EXCEPT !.state[c] = "Terminated"]
            e == Enqueue(b, c, "terminated")
<1>1. /\ Struct(Kernel) /\ Sound(Kernel) /\ c \in Task /\ state \in [Task -> States]
      /\ queue \in [Task -> QueueId \cup {NoQueue}] /\ Kernel \in Record
      /\ served \in [Task -> BOOLEAN] /\ call \in [Task -> CallPoint] /\ Exact(time_q, left)
      /\ queue[c] = NoQueue /\ c \notin TimeMembers(time_q)
      /\ \A u \in Task : success[u] => served[u] /\ call[u].op \in BlockingOp
  BY CallerFacts
<1>2. served' = served /\ Timing(left)
  BY <1>1, NoHistorySame
<1>3. /\ b \in Record /\ b.q = q /\ b.queue = queue /\ b.priority = priority
      /\ b.time_q = time_q /\ b.state = [state EXCEPT ![c] = "Terminated"]
      /\ b.curr = c /\ b.level = mt_int_level /\ b.success = success /\ b.from = from
  <2>1. "Terminated" \in States
    BY DEF States
  <2>. QED  BY <1>1, <2>1, KernelFields, RecordMoved
<1>. HIDE DEF b
<1>4. Struct(b)
  BY <1>1, <1>3, KernelFields, StructSame
<1>5. "terminated" \in QueueId /\ "terminated" \notin Task /\ b.queue[c] = NoQueue
  BY <1>1, <1>3, KernelAssumption DEF QueueId
<1>6. /\ Struct(e) /\ e.queue = [b.queue EXCEPT ![c] = "terminated"]
      /\ e.state = b.state /\ e.success = b.success /\ e.time_q = b.time_q /\ SameRest(b, e)
  BY <1>1, <1>4, <1>5, EnqueueStruct
<1>. HIDE DEF e
<1>7. /\ e.queue = [queue EXCEPT ![c] = "terminated"]
      /\ e.state = [state EXCEPT ![c] = "Terminated"]
      /\ e.curr = c /\ e.level = 0 /\ e.from = from /\ e.success = success /\ e.time_q = time_q
  BY <1>3, <1>6 DEF SameRest
<1>8. Sound(e)
  <2>1. PlaceOf(c, "Terminated", "terminated")
    BY DEF PlaceOf
  <2>2. /\ e.state = [Kernel.state EXCEPT ![c] = "Terminated"]
        /\ e.queue = [Kernel.queue EXCEPT ![c] = "terminated"] /\ e.curr = Kernel.curr
        /\ TimeMembers(e.time_q) \subseteq TimeMembers(Kernel.time_q) \cup {c}
        /\ c \notin TimeMembers(e.time_q)
    BY <1>1, <1>7, KernelFields
  <2>3. Sound(Kernel) /\ Struct(e) /\ c \in Task /\ "Terminated" # "Current"
    BY <1>1, <1>6
  <2>. QED  BY <2>1, <2>2, <2>3, SoundMove
<1>9. /\ e.state[c] = "Terminated" /\ e.queue[c] = "terminated" /\ OthersKept(e, c)
  BY <1>1, <1>7 DEF OthersKept
<1>10. Idle \in CallPoint /\ Idle.op = "none"
  BY DEF Idle, CallPoint
<1>11. CallsEnded(c) /\ call'[c] = Idle
  BY <1>1, <1>10 DEF CallsEnded
<1>12. ~e.success[c]
  <2>1. call[c].op = "delete"
    BY <1>1, DeletePoint
  <2>. QED  BY <1>1, <1>7, <2>1 DEF BlockingOp
<1>13. Good(e, call', served)
  <2>1. "Terminated" \in Dead
    BY DEF Dead
  <2>2. c \in Task /\ e.level = 0 /\ "terminated" \notin Task
    BY <1>1, <1>5, <1>7
  <2>. QED  BY <1>8, <1>9, <1>11, <1>12, <2>1, <2>2, GoodDeath
<1>14. ASSUME Answered(Kernel, call, served) PROVE Answered(e, call', served)
  BY <1>1, <1>9, <1>11, <1>14, DeathAnswers
<1>15. StepTo(e, left)
  BY <1>1, <1>2, <1>7, <1>9, <1>13, <1>14 DEF StepTo, e, b
<1>. QED  BY <1>15 DEF Steps

\* DeleteTask on another task: its control block is freed.
LEMMA FreeStep ==
  ASSUME KInv, mt_int_level = 0, NEW t \in Task, call[mt_curr_task] = Deleting(t),
         t # NullTask, t # mt_curr_task, state[mt_curr_task] = "Current", Right(Kernel),
         Becomes([block(Kernel, t, "Free") EXCEPT !.priority[t] = MIN_PRIO,
                    !.from[t] = NoTask, !.success[t] = FALSE, !.atomic_level[t] = 0]),
         call' = [call EXCEPT ![mt_curr_task] = Idle, ![t] = Idle], NoHistory
  PROVE  Steps
<1>. DEFINE c == mt_curr_task
            b == block(Kernel, t, "Free")
            d == [b EXCEPT !.priority[t] = MIN_PRIO]
            e == [b EXCEPT !.priority[t] = MIN_PRIO, !.from[t] = NoTask,
                           !.success[t] = FALSE, !.atomic_level[t] = 0]
<1>1. /\ Struct(Kernel) /\ Sound(Kernel) /\ c \in Task /\ state \in [Task -> States]
      /\ queue \in [Task -> QueueId \cup {NoQueue}] /\ Kernel \in Record
      /\ served \in [Task -> BOOLEAN] /\ call \in [Task -> CallPoint] /\ Exact(time_q, left)
      /\ \A u \in Task : success[u] => served[u] /\ call[u].op \in BlockingOp
  BY CallerFacts
<1>2. served' = served /\ Timing(left)
  BY <1>1, NoHistorySame
<1>3. Halted(Kernel, t, "Free", b)
  BY <1>1, BlockHalts DEF States
<1>. HIDE DEF b
<1>4. /\ Struct(b) /\ b.queue = [queue EXCEPT ![t] = NoQueue]
      /\ b.state = [state EXCEPT ![t] = "Free"] /\ b.success = success
      /\ TimeMembers(b.time_q) = TimeMembers(time_q) \ {t} /\ Exact(b.time_q, left)
      /\ b.priority = priority /\ b.atomic_level = atomic_level /\ b.from = from
      /\ b.curr = c /\ b.level = mt_int_level
  BY <1>1, <1>3, KernelFields DEF Halted, SameRest, StillExact
<1>5. MIN_PRIO \in Nat /\ b.queue[t] = NoQueue /\ MaxAtomic \in Nat
  BY <1>1, <1>4, KernelAssumption
<1>6. Priced(b, t, MIN_PRIO, d)
  BY <1>4, <1>5, PriorityStruct
<1>7. b \in Record
  BY <1>4 DEF Struct
<1>8. /\ e \in Record /\ e.q = d.q /\ e.queue = d.queue /\ e.priority = d.priority
      /\ e.time_q = d.time_q /\ e.state = d.state /\ e.curr = d.curr /\ e.level = d.level
      /\ e.success = [b.success EXCEPT ![t] = FALSE] /\ e.from = [b.from EXCEPT ![t] = NoTask]
      /\ e.atomic_level = [b.atomic_level EXCEPT ![t] = 0]
  <2>1. 0 \in 0 .. MaxAtomic
    BY <1>5
  <2>2. e \in Record
    BY <1>5, <1>7, <2>1 DEF Record
  <2>. QED  BY <1>7, <2>2 DEF Record
<1>. HIDE DEF d, e
<1>9. /\ e.queue = [queue EXCEPT ![t] = NoQueue] /\ e.state = [state EXCEPT ![t] = "Free"]
      /\ e.success = [success EXCEPT ![t] = FALSE] /\ e.from = [from EXCEPT ![t] = NoTask]
      /\ e.atomic_level = [atomic_level EXCEPT ![t] = 0]
      /\ e.priority = [priority EXCEPT ![t] = MIN_PRIO]
      /\ e.curr = c /\ e.level = 0 /\ e.time_q = b.time_q
  BY <1>4, <1>6, <1>8 DEF Priced
<1>10. Struct(e)
  <2>1. Struct(d)
    BY <1>6 DEF Priced
  <2>. QED  BY <1>8, <2>1, StructSame
<1>11. Sound(e)
  <2>1. PlaceOf(t, "Free", NoQueue)
    BY DEF PlaceOf
  <2>2. /\ e.state = [Kernel.state EXCEPT ![t] = "Free"]
        /\ e.queue = [Kernel.queue EXCEPT ![t] = NoQueue] /\ e.curr = Kernel.curr
        /\ TimeMembers(e.time_q) \subseteq TimeMembers(Kernel.time_q) \cup {t}
        /\ t \notin TimeMembers(e.time_q)
    BY <1>4, <1>9, KernelFields
  <2>3. Sound(Kernel) /\ "Free" # "Current"
    BY <1>1
  <2>. QED  BY <1>10, <2>1, <2>2, <2>3, SoundMove
<1>12. /\ success \in [Task -> BOOLEAN] /\ from \in [Task -> Task \cup {NoTask}]
       /\ priority \in [Task -> Nat] /\ atomic_level \in [Task -> 0 .. MaxAtomic]
  BY <1>1, RecordFields, KernelFields
<1>13. e.state[t] = "Free" /\ e.queue[t] = NoQueue /\ ~e.success[t] /\ OthersKept(e, t)
  BY <1>1, <1>9, <1>12 DEF OthersKept
<1>14. \A u \in Task : u # t => e.priority[u] = priority[u] /\ e.atomic_level[u] = atomic_level[u]
  BY <1>9, <1>12
<1>15. Idle \in CallPoint /\ Idle.op = "none"
  BY DEF Idle, CallPoint
<1>16. CallsEnded(t) /\ call'[c] = Idle
  BY <1>1, <1>15 DEF CallsEnded
<1>17. Good(e, call', served)
  <2>1. "Free" \in Dead /\ NoQueue \notin Task
    BY KernelAssumption DEF Dead, QueueId
  <2>2. e.level = 0
    BY <1>9
  <2>. QED  BY <1>11, <1>13, <1>16, <2>1, <2>2, GoodDeath
<1>18. Right(e)
  <2>1. \A u \in Task : e.state[u] = "Ready" => u # t /\ state[u] = "Ready"
    BY <1>13 DEF OthersKept
  <2>. QED  BY <1>1, <1>9, <1>13, <1>14, <2>1, KernelFields DEF Right, OthersKept
<1>19. ASSUME Answered(Kernel, call, served) PROVE Answered(e, call', served)
  BY <1>13, <1>16, <1>19, DeathAnswers
<1>20. /\ Exact(e.time_q, left) /\ call'[c].op \notin BlockingOp /\ e.state[c] # "Ready"
  BY <1>1, <1>4, <1>9, <1>13, <1>15, <1>16 DEF BlockingOp, OthersKept
<1>21. Becomes(e)
  BY DEF e, b
<1>22. StepTo(e, left)
  BY <1>2, <1>9, <1>17, <1>18, <1>19, <1>20, <1>21 DEF StepTo
<1>. QED  BY <1>22 DEF Steps

\* The second half of DeleteTask: the task leaves its queues.
LEMMA Delete2Action ==
  ASSUME KInv, DeleteTask2
  PROVE  Steps
<1>. DEFINE c == mt_curr_task
            t == call[c].arg
<1>1. mt_int_level = 0 /\ call[c].op = "delete" /\ NoHistory
  BY DEF DeleteTask2
<1>2. /\ t \in Task \ {NullTask} /\ call[c] = Deleting(t)
      /\ state[c] = "Current" /\ Right(Kernel)
  BY <1>1, HalfDeleted
<1>3. CASE t = c
  <2>1. /\ Becomes(scheduler(Enqueue([Kernel EXCEPT !.state[c] = "Terminated"], c, "terminated")))
        /\ call' = [call EXCEPT ![c] = Idle]
    BY <1>3 DEF DeleteTask2
  <2>. QED  BY <1>1, <1>2, <1>3, <2>1, ExitStep
<1>4. CASE t # c
  <2>1. /\ Becomes([block(Kernel, t, "Free") EXCEPT !.priority[t] = MIN_PRIO,
                      !.from[t] = NoTask, !.success[t] = FALSE, !.atomic_level[t] = 0])
        /\ call' = [call EXCEPT ![c] = Idle, ![t] = Idle]
    BY <1>4 DEF DeleteTask2
  <2>. HIDE DEF t
  <2>. QED  BY <1>1, <1>2, <1>4, <2>1, FreeStep
<1>. QED  BY <1>3, <1>4

-----------------------------------------------------------------------------
(***************************************************************************)
(* The specification.                                                      *)
(***************************************************************************)

\* One lemma per action: every step of the system is one of those analysed above.
LEMMA NextSteps ==
  ASSUME KInv, Next
  PROVE  Steps
<1>1. CASE StartCall
  BY <1>1, CreateAction, ReadyAction DEF StartCall
<1>2. CASE DeleteCall
  BY <1>2, DeleteAction, Delete2Action DEF DeleteCall
<1>3. CASE CpuCall
  BY <1>3, SetPriorityAction, SuspendAction, AtomicAction, UnatomicAction DEF CpuCall
<1>4. CASE QueueCall
  BY <1>4, DelayAction, WaitAction, SignalAction, FlushAction DEF QueueCall
<1>5. CASE MessageCall
  BY <1>5, SendNowAction, SendBlockAction, ReceiveNowAction, ReceiveBlockAction DEF MessageCall
<1>6. CASE Resumes
  BY <1>6, ReturnAction, ClockAction, DeviceAction, EndAction DEF Resumes
<1>. QED  BY <1>1, <1>2, <1>3, <1>4, <1>5, <1>6 DEF Next

\* A step that changes nothing.
LEMMA StutterKeeps ==
  ASSUME UNCHANGED vars
  PROVE  /\ KInv => KInv'
         /\ Answered(Kernel, call, served) => Answered(Kernel', call', served')
<1>1. /\ Kernel' = Kernel /\ call' = call /\ served' = served /\ left' = left
      /\ time_q' = time_q /\ mt_int_level' = mt_int_level
  BY DEF vars, Kernel
<1>2. KInv => KInv'
  BY <1>1 DEF KInv
<1>. QED  BY <1>1, <1>2

\* What kernel.c sets up before main_task runs.
LEMMA InitRecord ==
  ASSUME Init
  PROVE  Sound(Kernel) /\ Right(Kernel)
<1>1. /\ MainTask \in Task /\ NullTask \in Task /\ MainTask # NullTask
      /\ MIN_PRIO \in Nat /\ DEFAULT_PRIO \in Nat /\ MIN_PRIO < DEFAULT_PRIO
      /\ QUANTUM \in Nat /\ MaxAtomic \in Nat /\ MaxNest \in Nat
  BY KernelAssumption
<1>2. "ready" \in QueueId /\ NoQueue \notin QueueId
  BY KernelAssumption DEF QueueId
<1>3. /\ state = [t \in Task |-> IF t = MainTask THEN "Current"
                                 ELSE IF t = NullTask THEN "Ready" ELSE "Free"]
      /\ priority = [t \in Task |-> IF t = MainTask THEN DEFAULT_PRIO ELSE MIN_PRIO]
      /\ atomic_level = [t \in Task |-> 0]
      /\ queue = [t \in Task |-> IF t = NullTask THEN "ready" ELSE NoQueue]
      /\ success = [t \in Task |-> FALSE] /\ from = [t \in Task |-> NoTask]
      /\ q = [id \in QueueId |-> IF id = "ready" THEN <<NullTask>> ELSE <<>>]
      /\ time_q = <<>> /\ mt_curr_task = MainTask /\ ticks_to_run = QUANTUM /\ mt_int_level = 0
  BY DEF Init
<1>4. /\ state \in [Task -> States] /\ priority \in [Task -> Nat]
      /\ queue \in [Task -> QueueId \cup {NoQueue}] /\ success \in [Task -> BOOLEAN]
      /\ from \in [Task -> Task \cup {NoTask}]
  BY <1>1, <1>2, <1>3 DEF States
<1>5. q \in [QueueId -> Seq(Task)]
  <2>1. <<NullTask>> \in Seq(Task) /\ <<>> \in Seq(Task)
    BY <1>1
  <2>. QED  BY <1>3, <2>1
<1>6. time_q \in Seq(Entry(Task))
  BY <1>3
<1>7. /\ mt_curr_task \in Task /\ ticks_to_run \in 0 .. QUANTUM /\ mt_int_level \in 0 .. MaxNest
      /\ atomic_level \in [Task -> 0 .. MaxAtomic]
  BY <1>1, <1>3
<1>8. Kernel \in Record
  BY <1>4, <1>5, <1>6, <1>7 DEF Record, Kernel
<1>9. Struct(Kernel)
  <2>1. ASSUME NEW id \in QueueId
        PROVE  /\ Members(q[id]) = {t \in Task : queue[t] = id}
               /\ Distinct(q[id]) /\ Sorted(q[id], priority)
    <3>1. CASE id = "ready"
      <4>1. q[id] = <<NullTask>>
        BY <1>3, <3>1
      <4>2. Members(<<NullTask>>) = {NullTask}
        BY DEF Members
      <4>3. Distinct(<<NullTask>>) /\ Sorted(<<NullTask>>, priority)
        BY DEF Distinct, Sorted
      <4>4. \A t \in Task : queue[t] = id <=> t = NullTask
        BY <1>2, <1>3, <3>1
      <4>5. {t \in Task : queue[t] = id} = {NullTask}
        BY <1>1, <4>4
      <4>. QED  BY <4>1, <4>2, <4>3, <4>5
    <3>2. CASE id # "ready"
      <4>1. q[id] = <<>>
        BY <1>3, <3>2
      <4>2. Members(<<>>) = {} /\ Distinct(<<>>) /\ Sorted(<<>>, priority)
        BY DEF Members, Distinct, Sorted
      <4>3. \A t \in Task : queue[t] # id
        BY <1>2, <1>3, <3>2
      <4>. QED  BY <4>1, <4>2, <4>3
    <3>. QED  BY <3>1, <3>2
  <2>2. TimeDistinct(time_q)
    BY <1>3 DEF TimeDistinct
  <2>. QED  BY <1>8, <2>1, <2>2, KernelFields DEF Struct
<1>10. TimeMembers(time_q) = {}
  BY <1>3 DEF TimeMembers
<1>11. Placed(Kernel)
  <2>. SUFFICES ASSUME NEW t \in Task
                PROVE  PlaceOf(t, state[t], queue[t])
    BY <1>10, KernelFields DEF Placed, PlaceOf
  <2>. QED  BY <1>1, <1>3 DEF PlaceOf
<1>12. /\ \A t \in Task : state[t] = "Current" => t = mt_curr_task
       /\ state[NullTask] = "Ready" /\ state[mt_curr_task] = "Current"
       /\ \A t \in Task : state[t] = "Ready" => priority[t] <= priority[mt_curr_task]
  BY <1>1, <1>3
<1>. QED  BY <1>9, <1>11, <1>12, KernelFields DEF Sound, Right

\* The kernel as main starts it.
LEMMA InitKInv ==
  ASSUME Init
  PROVE  KInv /\ Answered(Kernel, call, served)
<1>1. Sound(Kernel) /\ Right(Kernel)
  BY InitRecord
<1>2. /\ call = [t \in Task |-> Idle] /\ served = [t \in Task |-> FALSE]
      /\ left = [t \in Task |-> 0] /\ success = [t \in Task |-> FALSE]
      /\ mt_int_level = 0 /\ time_q = <<>>
      /\ queue = [t \in Task |-> IF t = NullTask THEN "ready" ELSE NoQueue]
      /\ state = [t \in Task |-> IF t = MainTask THEN "Current"
                                 ELSE IF t = NullTask THEN "Ready" ELSE "Free"]
  BY DEF Init
<1>3. Idle \in CallPoint /\ Idle.op = "none"
  BY DEF Idle, CallPoint
<1>4. \A t \in Task : state[t] \in {"Current", "Ready", "Free"} /\ queue[t] \notin Task
  BY <1>2, KernelAssumption DEF QueueId
<1>5. InCalls(Kernel, call)
  BY <1>2, <1>3, <1>4, KernelFields DEF InCalls
<1>6. Deletions(Kernel, call) /\ Honest(Kernel, call, served) /\ NoOrphans(Kernel)
  BY <1>2, <1>3, <1>4, KernelFields DEF Deletions, Honest, NoOrphans, NoSenders
<1>7. Rendezvous(Kernel)
  BY <1>4, KernelFields DEF Rendezvous
<1>8. left \in [Task -> Nat] /\ Exact(time_q, left)
  BY <1>2 DEF Exact
<1>9. Answered(Kernel, call, served)
  BY <1>2 DEF Answered
<1>. QED  BY <1>1, <1>5, <1>6, <1>7, <1>8, <1>9 DEF KInv, Good

\* Every action of the kernel keeps the invariant.
LEMMA KInvNext ==
  ASSUME KInv, [Next]_vars
  PROVE  KInv'
<1>1. CASE Next
  BY <1>1, NextSteps, StepsKeep
<1>2. CASE UNCHANGED vars
  BY <1>2, StutterKeeps
<1>. QED  BY <1>1, <1>2

\* The inductive invariant of the kernel holds in every reachable state, whatever the
\* program calls: the theorems about the single properties follow from it.
THEOREM KernelInvariant == Spec => []KInv
<1>1. Init => KInv
  BY InitKInv
<1>2. KInv /\ [Next]_vars => KInv'
  BY KInvNext
<1>. QED  BY <1>1, <1>2, PTL DEF Spec

\* Every variable of the kernel keeps its type: no list holds anything but tasks, the
\* slice and the nesting of interrupts stay in their bounds, and no relative time of the
\* time queue becomes negative.
THEOREM KernelTyped == Spec => []TypeOK
<1>1. KInv => TypeOK
  BY CallerFacts, RecordFields, KernelFields DEF KInv, TypeOK, Entry
<1>. QED  BY <1>1, KernelInvariant, PTL

\* A task is linked once into the list its back pointer names and into no other.
LEMMA LinkedOnce ==
  ASSUME KInv, NEW t \in Task, NEW id \in QueueId
  PROVE  LET at == {i \in 1 .. Len(q[id]) : q[id][i] = t}
         IN  IF queue[t] = id THEN \E i \in at : at = {i} ELSE at = {}
<1>. DEFINE at == {i \in 1 .. Len(q[id]) : q[id][i] = t}
<1>1. Members(q[id]) = {u \in Task : queue[u] = id} /\ Distinct(q[id])
  BY CallerFacts, KernelFields DEF Struct
<1>2. CASE queue[t] = id
  <2>1. PICK i \in 1 .. Len(q[id]) : q[id][i] = t
    BY <1>1, <1>2 DEF Members
  <2>2. \A j \in 1 .. Len(q[id]) : q[id][j] = t => j = i
    BY <1>1, <2>1 DEF Distinct
  <2>3. i \in at /\ at = {i}
    BY <2>1, <2>2
  <2>. QED  BY <1>2, <2>3
<1>3. CASE queue[t] # id
  <2>1. t \notin Members(q[id])
    BY <1>1, <1>3
  <2>2. at = {}
    BY <2>1 DEF Members
  <2>. QED  BY <1>3, <2>2
<1>. QED  BY <1>2, <1>3

\* After any mix of calls and interrupts a task is linked into exactly the list that its
\* state calls for, once, and waits for the clock only while it sleeps or waits: block,
\* ready and the scheduler never leave a task behind in a list.
THEOREM KernelQueues == Spec => []QueueDiscipline
<1>1. ASSUME KInv PROVE QueueDiscipline
  <2>. SUFFICES ASSUME NEW t \in Task
                PROVE  /\ \A i, j \in 1 .. Len(time_q) :
                            time_q[i].task = t /\ time_q[j].task = t => i = j
                       /\ queue[t] \in CASE state[t] = "Ready"      -> {"ready"}
                                          [] state[t] = "Terminated" -> {"terminated"}
                                          [] state[t] = "Waiting"    -> Queue
                                          [] state[t] = "Sending"    -> Task \ {t}
                                          [] OTHER                   -> {NoQueue}
                       /\ t \in TimeMembers(time_q)
                            => state[t] \in {"Delaying", "Waiting", "Sending", "Receiving"}
    BY <1>1, LinkedOnce DEF QueueDiscipline
  <2>1. Struct(Kernel) /\ Placed(Kernel)
    BY <1>1, CallerFacts DEF Sound
  <2>2. \A i, j \in 1 .. Len(time_q) : time_q[i].task = t /\ time_q[j].task = t => i = j
    BY <2>1, KernelFields DEF Struct, TimeDistinct
  <2>3. /\ PlaceOf(t, state[t], queue[t])
        /\ t \in TimeMembers(time_q) => state[t] \in Timed
    BY <2>1, KernelFields DEF Placed, PlaceOf
  <2>. QED  BY <2>2, <2>3 DEF PlaceOf, Timed
<1>. QED  BY <1>1, KernelInvariant, PTL

\* Every task queue is in order of priority, after arrivals, departures and changes of
\* priority, so that mt_peeklast is the most urgent task.
THEOREM KernelSorted == Spec => []QueuesSorted
<1>1. KInv => QueuesSorted
  BY CallerFacts, KernelFields DEF Struct, QueuesSorted
<1>. QED  BY <1>1, KernelInvariant, PTL

\* Outside interrupts one task is current, the one mt_curr_task names, and if it can be
\* preempted no ready task is more urgent: no call and no interrupt forgets to run the
\* scheduler.
THEOREM KernelCpu == Spec => []CpuByRight
<1>1. ASSUME KInv PROVE CpuByRight
  <2>. SUFFICES ASSUME mt_int_level = 0
                PROVE  /\ \A t \in Task : state[t] = "Current" <=> t = mt_curr_task
                       /\ atomic_level[mt_curr_task] = 0 =>
                            \A t \in Task : state[t] = "Ready" => priority[t] <= priority[mt_curr_task]
    BY DEF CpuByRight
  <2>1. Sound(Kernel) /\ Right(Kernel)
    BY <1>1, CallerFacts
  <2>. QED  BY <2>1, KernelFields DEF Sound, Right
<1>. QED  BY <1>1, KernelInvariant, PTL

\* In a program that begins no Send to a task between the halves of a DeleteTask on it, no
\* sender is left waiting on a task that has terminated or whose control block is free.
\* (A Send in that window is left there; the README says how.)
THEOREM KernelSenders == Spec => []SendersHaveReceiver
<1>1. ASSUME KInv PROVE SendersHaveReceiver
  <2>. SUFFICES ASSUME NEW t \in Task, state[t] = "Sending" PROVE Live(queue[t])
    BY DEF SendersHaveReceiver
  <2>1. Placed(Kernel) /\ NoOrphans(Kernel)
    BY <1>1, CallerFacts DEF Sound, Good
  <2>2. queue[t] \in Task
    BY <2>1, KernelFields DEF Placed
  <2>3. state[queue[t]] \notin Dead
    BY <2>1, <2>2, KernelFields DEF NoOrphans, NoSenders
  <2>. QED  BY <2>3 DEF Live, Dead
<1>. QED  BY <1>1, KernelInvariant, PTL

\* A receiver never sleeps while a sender it would accept sleeps in its send_queue, however
\* sends, receives, timeouts and deletions interleave.
THEOREM KernelRendezvous == Spec => []NoMissedRendezvous
<1>1. KInv => NoMissedRendezvous
  BY CallerFacts, KernelFields DEF Good, Rendezvous, NoMissedRendezvous, Accepts
<1>. QED  BY <1>1, KernelInvariant, PTL

\* A blocking call never reports a success that did not happen: the success flag is never
\* left over from an earlier call or from another way of waking the task.
THEOREM KernelHonest == Spec => []NoFalseSuccess
<1>1. KInv => NoFalseSuccess
  BY CallerFacts DEF NoFalseSuccess, Reporting
<1>. QED  BY <1>1, KernelInvariant, PTL

\* The relative times of the time queue add up, for every task in it, to the clock
\* interrupts it still has to wait, for every sequence of insertions, timeouts and removals.
THEOREM KernelTime == Spec => []TimeExact
<1>1. KInv => TimeExact
  BY DEF KInv, Exact, TimeExact
<1>. QED  BY <1>1, KernelInvariant, PTL

\* In a program that calls Suspend on no task, a call that was answered reports success.
\* (With Suspend it may not: ready() on a suspended task overwrites its outcome.)
THEOREM KernelSignals ==
  ASSUME "Suspend" \notin Calls
  PROVE  Spec => []SignalledSucceeds
<1>. DEFINE AInv == Answered(Kernel, call, served)
<1>1. Init => KInv /\ AInv
  BY InitKInv
<1>2. ASSUME KInv, AInv, [Next]_vars PROVE AInv'
  <2>1. CASE Next
    BY <1>2, <2>1, NextSteps, StepsAnswer
  <2>2. CASE UNCHANGED vars
    BY <1>2, <2>2, StutterKeeps
  <2>. QED  BY <1>2, <2>1, <2>2
<1>3. AInv => SignalledSucceeds
  BY KernelFields DEF Answered, SignalledSucceeds, Reporting, BlockingOp
<1>. HIDE DEF AInv
<1>. QED  BY <1>1, <1>2, <1>3, KernelInvariant, PTL DEF Spec

\* A task in non-preemptive mode stays the current one through its own steps and those of
\* the interrupts, unless it blocks or is made ready by name (by itself, or by a handler
\* that calls Ready on the task it interrupted).
THEOREM KernelAtomic == Spec => AtomicKeepsCpu
<1>. DEFINE Stays(t) == state[t] = "Current" /\ atomic_level[t] > 0 /\ atomic_level'[t] > 0
                          => \/ state'[t] = "Current" /\ mt_curr_task' = t
                             \/ state'[t] \notin {"Current", "Ready"}
                             \/ Ready(t) \/ Delay(0)
            Kept == \A t \in Task : Stays(t)
<1>1. ASSUME KInv, [Next]_vars PROVE [Kept]_vars
  <2>1. CASE Next
    <3>1. SUFFICES ASSUME NEW t \in Task,
                          state[t] = "Current", atomic_level[t] > 0, atomic_level'[t] > 0,
                          state'[t] \in {"Current", "Ready"}, ~(Ready(t) \/ Delay(0))
                   PROVE  state'[t] = "Current" /\ mt_curr_task' = t
      OBVIOUS
    <3>2. t = mt_curr_task
      BY <1>1, <3>1, CallerFacts, KernelFields DEF Sound
    <3>. QED  BY <1>1, <2>1, <3>1, <3>2, NextSteps, StepsAtomic
  <2>2. CASE UNCHANGED vars
    BY <2>2 DEF vars
  <2>. QED  BY <1>1, <2>1, <2>2
<1>2. AtomicKeepsCpu <=> [][Kept]_vars
  BY DEF AtomicKeepsCpu
<1>. HIDE DEF Kept
<1>. QED  BY <1>1, <1>2, KernelInvariant, PTL DEF Spec

=============================================================================
