------------------------------ MODULE MtKernel ------------------------------
(***************************************************************************)
(* The MTask kernel (mtask2/kernel/kernel.c, irq.c): tasks, the preemptive *)
(* priority scheduler, the real-time clock, task queues and rendezvous     *)
(* message passing, under any program that calls the API.                  *)
(*                                                                         *)
(* Every API function runs between DisableInts and RestoreInts, so a call  *)
(* is one step up to the point where its task loses the CPU.  A task that  *)
(* was blocked resumes inside the call, still with interrupts disabled,    *)
(* and reports the outcome (Return) before any interrupt is taken.         *)
(*                                                                         *)
(* The kernel's data structures are passed through the internal functions  *)
(* (block, ready, mt_select_task, ...) as one record k, whose fields have  *)
(* the names of the C variables and of the members of Task_t.              *)
(***************************************************************************)
EXTENDS MtQueues, Integers

CONSTANTS
  Task,        \* the task control blocks, MainTask and NullTask among them
  MainTask,    \* main_task, the initial task
  NullTask,    \* the task that runs do_nothing()
  Queue,       \* the queues the program made with CreateQueue
  NoTask, NoQueue,  \* the NULL pointers
  MIN_PRIO, DEFAULT_PRIO, QUANTUM, MSPERTICK,   \* constants of the source
  TIME_MOD,    \* 2^32, the number of values of Time_t (scaled down for TLC)
  Prio,        \* the priorities the program uses
  Msecs,       \* the timeouts and delays the program uses
  Calls,       \* the API functions the program uses
  MaxAtomic,   \* bound on the nesting of Atomic()
  MaxNest      \* bound on the nesting of device interrupts

FOREVER == TIME_MOD - 1

\* A task queue is named by its variable, by the queue object, or by the task
\* whose send_queue it is.
QueueId == {"ready", "terminated"} \cup Queue \cup Task

ASSUME KernelAssumption ==
  /\ {MainTask, NullTask} \subseteq Task /\ MainTask # NullTask
  /\ NoTask \notin Task /\ NoQueue \notin QueueId
  /\ Queue \cap Task = {} /\ {"ready", "terminated"} \cap (Queue \cup Task) = {}
  /\ {MIN_PRIO, DEFAULT_PRIO} \subseteq Nat /\ MIN_PRIO < DEFAULT_PRIO
  /\ Prio \subseteq Nat /\ \A p \in Prio : p > MIN_PRIO
  /\ QUANTUM \in Nat \ {0} /\ MSPERTICK \in Nat \ {0}
  /\ TIME_MOD \in Nat /\ Msecs \subseteq 0 .. TIME_MOD - 1
  /\ MaxAtomic \in Nat /\ MaxNest \in Nat

VARIABLES
  state, priority, atomic_level, queue, success, from,   \* members of Task_t
  q,              \* the task queues: ready_q, terminated_q, Queue, send_queues
  time_q,         \* the time queue
  mt_curr_task, ticks_to_run, mt_int_level,
  call,           \* the point inside a kernel call where each task resumes
  served, left    \* history: see below

\* served[t]: what t is blocked on has happened (it was signalled, its message
\* was taken or it was given one) since t blocked.  left[t]: the clock
\* interrupts a task in the time queue still has to let pass.
vars == <<state, priority, atomic_level, queue, success, from, q, time_q,
          mt_curr_task, ticks_to_run, mt_int_level, call, served, left>>

States == {"Free", "Suspended", "Ready", "Current", "Delaying", "Waiting",
           "Sending", "Receiving", "Terminated"}

\* What a task does next: its own code, or the rest of a call it blocked in.
Idle == [op |-> "none", arg |-> NoTask]
Blocked(op) == [op |-> op, arg |-> NoTask]
Deleting(t) == [op |-> "delete", arg |-> t]
CallPoint == [op : {"none", "wait", "send", "receive", "delete"}, arg : Task \cup {NoTask}]

\* The program only names tasks that exist, and leaves alone a task that
\* another is deleting.
Live(t) == state[t] \notin {"Free", "Terminated"}
BeingDeleted(t) == \E u \in Task : call[u] = Deleting(t)

-----------------------------------------------------------------------------
(***************************************************************************)
(* Internal functions, on the record k of the kernel's variables.          *)
(***************************************************************************)

Kernel == [state |-> state, priority |-> priority, atomic_level |-> atomic_level,
           queue |-> queue, success |-> success, from |-> from, q |-> q,
           time_q |-> time_q, curr |-> mt_curr_task, slice |-> ticks_to_run,
           level |-> mt_int_level]

\* The variables become those of k.
Becomes(k) ==
  /\ state' = k.state /\ priority' = k.priority /\ atomic_level' = k.atomic_level
  /\ queue' = k.queue /\ success' = k.success /\ from' = k.from /\ q' = k.q
  /\ time_q' = k.time_q /\ mt_curr_task' = k.curr /\ ticks_to_run' = k.slice
  /\ mt_int_level' = k.level

msecs_to_ticks(msecs) == ((msecs + MSPERTICK - 1) % TIME_MOD) \div MSPERTICK

Enqueue(k, t, id) ==
  [k EXCEPT !.q[id] = mt_enqueue(@, k.priority, t), !.queue[t] = id]

Dequeue(k, t) ==
  IF k.queue[t] = NoQueue THEN k
  ELSE [k EXCEPT !.q[k.queue[t]] = mt_dequeue(@, t), !.queue[t] = NoQueue]

DequeueTime(k, t) ==
  IF t \notin TimeMembers(k.time_q) THEN k
  ELSE [k EXCEPT !.time_q = mt_dequeue_time(@, t)]

\* Put t in the time queue unless it waits for ever.
EnqueueTime(k, t, msecs) ==
  IF msecs = FOREVER THEN k
  ELSE [k EXCEPT !.time_q = mt_enqueue_time(@, t, msecs_to_ticks(msecs))]

block(k, t, s) == [DequeueTime(Dequeue(k, t), t) EXCEPT !.state[t] = s]

\* Mutants: the task stays in the time queue; its outcome is not stored.
ReadyKeepsTimer(k, t, ok) ==
  IF k.state[t] = "Ready" THEN k
  ELSE [Enqueue(Dequeue(k, t), t, "ready") EXCEPT !.success[t] = ok, !.state[t] = "Ready"]

ReadyWithoutOutcome(k, t, ok) ==
  IF k.state[t] = "Ready" THEN k
  ELSE [Enqueue(DequeueTime(Dequeue(k, t), t), t, "ready") EXCEPT !.state[t] = "Ready"]

ready(k, t, ok) ==
  IF k.state[t] = "Ready" THEN k
  ELSE [Enqueue(DequeueTime(Dequeue(k, t), t), t, "ready")
          EXCEPT !.success[t] = ok, !.state[t] = "Ready"]

\* Mutants: non-preemptive mode is ignored; the time slice is ignored.
KeepsPreemptible(k) ==
  LET c == k.curr
      urgent == k.priority[mt_peeklast(k.q["ready"])]
  IN  /\ k.state[c] = "Current"
      /\ \/ k.q["ready"] = <<>>
         \/ urgent < k.priority[c]
         \/ k.slice > 0 /\ urgent = k.priority[c]

KeepsWithoutSlice(k) ==
  LET c == k.curr
  IN  /\ k.state[c] = "Current"
      /\ \/ k.atomic_level[c] > 0
         \/ k.q["ready"] = <<>>
         \/ k.priority[mt_peeklast(k.q["ready"])] <= k.priority[c]

\* The current task may keep the CPU.
Keeps(k) ==
  LET c == k.curr
      urgent == k.priority[mt_peeklast(k.q["ready"])]
  IN  /\ k.state[c] = "Current"
      /\ \/ k.atomic_level[c] > 0
         \/ k.q["ready"] = <<>>
         \/ urgent < k.priority[c]
         \/ k.slice > 0 /\ urgent = k.priority[c]

mt_select_task(k) ==
  IF Keeps(k) THEN k
  ELSE LET k1 == IF k.state[k.curr] = "Current" THEN ready(k, k.curr, FALSE) ELSE k
           t  == mt_peeklast(k1.q["ready"])
       IN  [k1 EXCEPT !.q["ready"] = mt_getlast(@), !.queue[t] = NoQueue,
                      !.curr = t, !.state[t] = "Current",
                      !.slice = IF t = k.curr THEN @ ELSE QUANTUM]

scheduler(k) == IF k.level = 0 THEN mt_select_task(k) ELSE k

\* Every task of the queue made ready with the same outcome, from the tail.
WakeAll(k, id, ok) ==
  LET wake[n \in 0 .. Len(k.q[id])] ==
        IF n = 0 THEN k
        ELSE LET j == wake[n - 1]
                 t == mt_peeklast(j.q[id])
             IN  ready([j EXCEPT !.q[id] = mt_getlast(@), !.queue[t] = NoQueue], t, ok)
  IN  wake[Len(k.q[id])]

-----------------------------------------------------------------------------
(***************************************************************************)
(* Who may call: the current task, when it is not inside a call, or a      *)
(* device interrupt handler, which uses the calls that never block.        *)
(***************************************************************************)

Uses(name) == name \in Calls
InTask == mt_int_level = 0 /\ call[mt_curr_task] = Idle /\ mt_curr_task # NullTask
InHandler == mt_int_level > 0

\* Interrupts are enabled: the current task is not about to report an outcome.
Interruptible == call[mt_curr_task].op \in {"none", "delete"}

\* The histories: of a step in which the tasks T are served; of one in which t
\* blocks for `msecs'; and of any other.
Timing(f) == left' = [t \in Task |-> IF t \in TimeMembers(time_q') THEN f[t] ELSE 0]
Serves(T) ==
  /\ served' = [u \in Task |-> served[u] \/ u \in T]
  /\ Timing(left)
Blocks(t, msecs) ==
  /\ served' = [served EXCEPT ![t] = FALSE]
  /\ Timing([left EXCEPT ![t] = msecs_to_ticks(msecs)])
NoHistory == Serves({})

Init ==
  LET only == [t \in Task |-> IF t = MainTask THEN "Current"
                              ELSE IF t = NullTask THEN "Ready" ELSE "Free"]
  IN
  /\ state = only
  /\ priority = [t \in Task |-> IF t = MainTask THEN DEFAULT_PRIO ELSE MIN_PRIO]
  /\ atomic_level = [t \in Task |-> 0]
  /\ queue = [t \in Task |-> IF t = NullTask THEN "ready" ELSE NoQueue]
  /\ success = [t \in Task |-> FALSE]
  /\ from = [t \in Task |-> NoTask]
  /\ q = [id \in QueueId |-> IF id = "ready" THEN <<NullTask>> ELSE <<>>]
  /\ time_q = <<>>
  /\ mt_curr_task = MainTask
  /\ ticks_to_run = QUANTUM
  /\ mt_int_level = 0
  /\ call = [t \in Task |-> Idle]
  /\ served = [t \in Task |-> FALSE]
  /\ left = [t \in Task |-> 0]

-----------------------------------------------------------------------------
(***************************************************************************)
(* Tasks                                                                   *)
(***************************************************************************)

\* CreateTask: Malloc first frees the terminated tasks, then gives any free
\* block, filled with zeros.
CreateTask(t, p) ==
  LET dead == Members(q["terminated"])
      k == [Kernel EXCEPT
              !.q["terminated"] = <<>>,
              !.queue = [u \in Task |-> IF u \in dead THEN NoQueue ELSE @[u]],
              !.state = [u \in Task |-> IF u = t THEN "Suspended"
                                        ELSE IF u \in dead THEN "Free" ELSE @[u]],
              !.priority[t] = p, !.atomic_level[t] = 0, !.success[t] = FALSE,
              !.from[t] = NoTask, !.q[t] = <<>>]
  IN
  /\ Uses("CreateTask") /\ InTask
  /\ state[t] = "Free" \/ t \in dead
  /\ Becomes(k)
  /\ call' = [call EXCEPT ![t] = Idle]
  /\ NoHistory

\* Mutant: the senders are not let go.
DeleteTaskWithoutFlush(t) ==
  /\ Uses("DeleteTask") /\ InTask
  /\ Live(t) /\ t \notin {MainTask, NullTask}
  /\ ~BeingDeleted(t)
  /\ Becomes(Kernel)
  /\ call' = [call EXCEPT ![mt_curr_task] = Deleting(t)]
  /\ NoHistory

\* DeleteTask, first half: FlushQueue on the send_queue, which may cost the
\* caller the CPU before the second half.  Exit is DeleteTask on oneself.
DeleteTask(t) ==
  /\ Uses("DeleteTask") /\ InTask
  /\ Live(t) /\ t \notin {MainTask, NullTask}
  /\ ~BeingDeleted(t)
  /\ Becomes(IF q[t] = <<>> THEN Kernel ELSE scheduler(WakeAll(Kernel, t, FALSE)))
  /\ call' = [call EXCEPT ![mt_curr_task] = Deleting(t)]
  /\ NoHistory

\* DeleteTask, second half.
DeleteTask2 ==
  LET c == mt_curr_task
      t == call[c].arg
  IN
  /\ mt_int_level = 0 /\ call[c].op = "delete"
  /\ IF t = c
     THEN /\ Becomes(scheduler(Enqueue([Kernel EXCEPT !.state[c] = "Terminated"], c, "terminated")))
          /\ call' = [call EXCEPT ![c] = Idle]
     ELSE /\ Becomes([block(Kernel, t, "Free") EXCEPT !.priority[t] = MIN_PRIO,
                        !.from[t] = NoTask, !.success[t] = FALSE, !.atomic_level[t] = 0])
          /\ call' = [call EXCEPT ![c] = Idle, ![t] = Idle]
  /\ NoHistory

\* Suspend, and Pause when t is the current task.
Suspend(t) ==
  LET k == block(Kernel, t, "Suspended")
  IN
  /\ Uses("Suspend") /\ InTask /\ Live(t) /\ t # NullTask
  /\ Becomes(IF t = mt_curr_task THEN scheduler(k) ELSE k)
  /\ UNCHANGED call /\ NoHistory

\* Ready, and Yield when t is the current task.
Ready(t) ==
  /\ Uses("Ready") /\ (InTask \/ InHandler) /\ Live(t) /\ t # NullTask
  /\ Becomes(scheduler(ready(Kernel, t, FALSE)))
  /\ UNCHANGED call /\ NoHistory

\* Mutants: the task is not moved in its queue; a ready task does not preempt.
SetPriorityInPlace(t, p) ==
  LET k == [Kernel EXCEPT !.priority[t] = p]
  IN
  /\ Uses("SetPriority") /\ InTask /\ Live(t) /\ t # NullTask
  /\ Becomes(IF t = mt_curr_task \/ state[t] = "Ready" THEN scheduler(k) ELSE k)
  /\ UNCHANGED call /\ NoHistory

SetPriorityWithoutPreemption(t, p) ==
  LET id == queue[t]
      k1 == [Kernel EXCEPT !.priority[t] = p]
      k2 == IF id = NoQueue THEN k1 ELSE Enqueue(Dequeue(k1, t), t, id)
  IN
  /\ Uses("SetPriority") /\ InTask /\ Live(t) /\ t # NullTask
  /\ Becomes(IF t = mt_curr_task THEN scheduler(k2) ELSE k2)
  /\ UNCHANGED call /\ NoHistory

SetPriority(t, p) ==
  LET id == queue[t]
      k1 == [Kernel EXCEPT !.priority[t] = p]
      k2 == IF id = NoQueue THEN k1 ELSE Enqueue(Dequeue(k1, t), t, id)
  IN
  /\ Uses("SetPriority") /\ InTask /\ Live(t) /\ t # NullTask
  /\ Becomes(IF t = mt_curr_task \/ state[t] = "Ready" THEN scheduler(k2) ELSE k2)
  /\ UNCHANGED call /\ NoHistory

Delay(msecs) ==
  LET c == mt_curr_task
      k == IF msecs = 0 THEN ready(Kernel, c, FALSE)
           ELSE EnqueueTime(block(Kernel, c, "Delaying"), c, msecs)
  IN
  /\ Uses("Delay") /\ InTask
  /\ Becomes(scheduler(k))
  /\ UNCHANGED call
  /\ Blocks(c, msecs)

Atomic ==
  /\ Uses("Atomic") /\ InTask /\ atomic_level[mt_curr_task] < MaxAtomic
  /\ Becomes([Kernel EXCEPT !.atomic_level[mt_curr_task] = @ + 1])
  /\ UNCHANGED call /\ NoHistory

Unatomic ==
  LET k == [Kernel EXCEPT !.atomic_level[mt_curr_task] = @ - 1]
  IN
  /\ Uses("Atomic") /\ InTask /\ atomic_level[mt_curr_task] > 0
  /\ Becomes(IF k.atomic_level[mt_curr_task] = 0 THEN scheduler(k) ELSE k)
  /\ UNCHANGED call /\ NoHistory

-----------------------------------------------------------------------------
(***************************************************************************)
(* Task queues                                                             *)
(***************************************************************************)

\* WaitQueueTimed, and WaitQueue with FOREVER.  With a zero timeout it fails
\* at once and changes nothing.
WaitQueueTimed(id, msecs) ==
  LET c == mt_curr_task
  IN
  /\ Uses("WaitQueue") /\ InTask /\ msecs # 0
  /\ Becomes(scheduler(EnqueueTime(Enqueue(block(Kernel, c, "Waiting"), c, id), c, msecs)))
  /\ call' = [call EXCEPT ![c] = Blocked("wait")]
  /\ Blocks(c, msecs)

SignalQueue(id) ==
  LET t == mt_peeklast(q[id])
      k == [Kernel EXCEPT !.q[id] = mt_getlast(@), !.queue[t] = NoQueue]
  IN
  /\ Uses("SignalQueue") /\ (InTask \/ InHandler) /\ q[id] # <<>>
  /\ Becomes(scheduler(ready(k, t, TRUE)))
  /\ UNCHANGED call
  /\ Serves({t})

FlushQueue(id, ok) ==
  /\ Uses("FlushQueue") /\ (InTask \/ InHandler) /\ q[id] # <<>>
  /\ Becomes(scheduler(WakeAll(Kernel, id, ok)))
  /\ UNCHANGED call
  /\ Serves(IF ok THEN Members(q[id]) ELSE {})

-----------------------------------------------------------------------------
(***************************************************************************)
(* Messages                                                                *)
(***************************************************************************)

\* The receiver is waiting for a message of the sender.
Accepts(to, sender) == state[to] = "Receiving" /\ from[to] \in {NoTask, sender}

\* SendTimed to a task that accepts the message.  A handler sends in the name
\* of the task it interrupted.
SendNow(to) ==
  LET k == [Kernel EXCEPT !.from[to] = mt_curr_task]
  IN
  /\ Uses("Send") /\ (InTask \/ InHandler) /\ Live(to) /\ Accepts(to, mt_curr_task)
  /\ Becomes(scheduler(ready(k, to, TRUE)))
  /\ UNCHANGED call
  /\ Serves({to})

\* SendTimed to a task that does not: the sender waits in its send_queue.
SendWaits(to, msecs) ==
  LET c == mt_curr_task
      k == Enqueue([Kernel EXCEPT !.state[c] = "Sending"], c, to)
  IN
  /\ Uses("Send") /\ InTask /\ Live(to) /\ to \notin {c, NullTask} /\ msecs # 0
  /\ ~Accepts(to, c)
  /\ Becomes(scheduler(EnqueueTime(k, c, msecs)))
  /\ call' = [call EXCEPT ![c] = Blocked("send")]
  /\ Blocks(c, msecs)

\* The same in the programs of Next, which do not begin to send to a task between
\* the halves of a DeleteTask on it: nothing in the kernel keeps them from it.
SendBlock(to, msecs) == ~BeingDeleted(to) /\ SendWaits(to, msecs)

\* Mutant: the task asked for is looked for at the tail only.
SenderAtTail(want) ==
  IF q[mt_curr_task] = <<>> THEN NoTask
  ELSE LET t == mt_peeklast(q[mt_curr_task]) IN IF want \in {NoTask, t} THEN t ELSE NoTask

\* The sender ReceiveTimed finds: the task asked for when it is blocked
\* sending to the caller, any sender when none is asked for.
Sender(want) ==
  IF want # NoTask
  THEN IF queue[want] = mt_curr_task THEN want ELSE NoTask
  ELSE IF q[mt_curr_task] = <<>> THEN NoTask ELSE mt_peeklast(q[mt_curr_task])

ReceiveNow(want) ==
  /\ Uses("Receive") /\ InTask /\ Sender(want) # NoTask
  /\ Becomes(scheduler(ready(Kernel, Sender(want), TRUE)))
  /\ UNCHANGED call
  /\ Serves({Sender(want)})

ReceiveBlock(want, msecs) ==
  LET c == mt_curr_task
      k == [Kernel EXCEPT !.from[c] = want, !.state[c] = "Receiving"]
  IN
  /\ Uses("Receive") /\ InTask /\ msecs # 0 /\ Sender(want) = NoTask
  /\ want # NoTask => Live(want) /\ want # c
  /\ Becomes(scheduler(EnqueueTime(k, c, msecs)))
  /\ call' = [call EXCEPT ![c] = Blocked("receive")]
  /\ Blocks(c, msecs)

-----------------------------------------------------------------------------
(***************************************************************************)
(* The end of a blocking call, and interrupts                              *)
(***************************************************************************)

\* The task has the CPU back inside the call it blocked in: it reads its
\* success flag and enables interrupts.  Its success and from fields are written
\* again before they are next read, so the model forgets them here.
Reporting(t) == t = mt_curr_task /\ call[t].op \in {"wait", "send", "receive"}

Return ==
  /\ Reporting(mt_curr_task)
  /\ Becomes([Kernel EXCEPT !.success[mt_curr_task] = FALSE, !.from[mt_curr_task] = NoTask])
  /\ call' = [call EXCEPT ![mt_curr_task] = Idle]
  /\ served' = [served EXCEPT ![mt_curr_task] = FALSE]
  /\ UNCHANGED left

\* Mutants: the slice is decremented past zero; a timeout counts as a success; the
\* first entry is not decremented.
ClockPastZero(k) == [k EXCEPT !.slice = @ - 1]

ClockSucceeds(k) ==
  IF k.time_q = <<>> THEN k
  ELSE IF mt_peekfirst_time(k.time_q).ticks > 0 THEN [k EXCEPT !.time_q[1].ticks = @ - 1]
  ELSE ready([k EXCEPT !.time_q = mt_getfirst_time(@)], mt_peekfirst_time(k.time_q).task, TRUE)

ClockStopped(k) == [k EXCEPT !.slice = IF @ > 0 THEN @ - 1 ELSE 0]

\* clockint on the kernel's record: the slice and the time queue.
clockint(k) ==
  LET due == CHOOSE n \in 0 .. Len(k.time_q) :
               /\ \A i \in 1 .. n : k.time_q[i].ticks = 0
               /\ n < Len(k.time_q) => k.time_q[n + 1].ticks > 0
      wake[n \in 0 .. due] ==
        IF n = 0 THEN [k EXCEPT !.slice = IF @ > 0 THEN @ - 1 ELSE 0]
        ELSE LET j == wake[n - 1]
             IN  ready([j EXCEPT !.time_q = mt_getfirst_time(@)],
                       mt_peekfirst_time(j.time_q).task, FALSE)
      rest == wake[due]
  IN  IF rest.time_q = <<>> THEN rest
      ELSE [rest EXCEPT !.time_q[1].ticks = @ - 1]

\* The clock interrupt; on return from the first level the scheduler runs.
ClockInterrupt ==
  /\ Interruptible
  /\ Becomes(scheduler(clockint(Kernel)))
  /\ Timing([t \in Task |-> IF left[t] < 0 THEN left[t] ELSE left[t] - 1])
  /\ UNCHANGED <<call, served>>

\* A device interrupt: its handler calls the API at mt_int_level > 0, and the
\* scheduler runs when the first level returns.
DeviceInterrupt ==
  /\ Interruptible /\ mt_int_level < MaxNest
  /\ Becomes([Kernel EXCEPT !.level = @ + 1])
  /\ UNCHANGED call /\ NoHistory

EndInterrupt ==
  /\ mt_int_level > 0
  /\ Becomes(scheduler([Kernel EXCEPT !.level = @ - 1]))
  /\ UNCHANGED call /\ NoHistory

\* The API by what it is about.
StartCall ==
  \/ \E t \in Task, p \in Prio : CreateTask(t, p)
  \/ \E t \in Task : Ready(t)

DeleteCall == (\E t \in Task : DeleteTask(t)) \/ DeleteTask2

CpuCall ==
  \/ \E t \in Task, p \in Prio : SetPriority(t, p)
  \/ \E t \in Task : Suspend(t)
  \/ Atomic \/ Unatomic

QueueCall ==
  \/ \E m \in Msecs : Delay(m)
  \/ \E id \in Queue, m \in Msecs : WaitQueueTimed(id, m)
  \/ \E id \in Queue : SignalQueue(id) \/ (\E ok \in BOOLEAN : FlushQueue(id, ok))

MessageCall ==
  \/ \E t \in Task : SendNow(t) \/ (\E m \in Msecs : SendBlock(t, m))
  \/ \E t \in Task \cup {NoTask} : ReceiveNow(t) \/ (\E m \in Msecs : ReceiveBlock(t, m))

Resumes == Return \/ ClockInterrupt \/ DeviceInterrupt \/ EndInterrupt

Next == StartCall \/ DeleteCall \/ CpuCall \/ QueueCall \/ MessageCall \/ Resumes

Spec == Init /\ [][Next]_vars

\* A clock interrupt can be taken and is not a stuttering step.
ClockDue ==
  /\ Interruptible
  /\ \/ ticks_to_run > 0
     \/ time_q # <<>>
     \/ mt_int_level = 0 /\ ~Keeps(Kernel)

\* The hardware latches the clock's request, so it is served (strongly fairly) as
\* soon as interrupts are enabled; a task inside a call and a handler end.
Fairness ==
  /\ []<>ClockDue => []<><<ClockInterrupt>>_vars
  /\ []<>Interruptible
  /\ []<>(mt_int_level = 0)

-----------------------------------------------------------------------------
(***************************************************************************)
(* Properties                                                              *)
(***************************************************************************)

\* Every variable has its type.
TypeOK ==
  /\ state \in [Task -> States]
  /\ priority \in [Task -> Nat]
  /\ atomic_level \in [Task -> 0 .. MaxAtomic]
  /\ queue \in [Task -> QueueId \cup {NoQueue}]
  /\ success \in [Task -> BOOLEAN]
  /\ from \in [Task -> Task \cup {NoTask}]
  /\ q \in [QueueId -> Seq(Task)]
  /\ time_q \in Seq([task : Task, ticks : Nat])
  /\ mt_curr_task \in Task
  /\ ticks_to_run \in 0 .. QUANTUM
  /\ mt_int_level \in 0 .. MaxNest
  /\ call \in [Task -> CallPoint]
  /\ served \in [Task -> BOOLEAN]
  /\ left \in [Task -> Nat]

\* The combinations of state and queues that the kernel's design allows: a task
\* is linked into exactly the queue its state calls for and into no other, once,
\* its back pointer names that queue, and only a task that sleeps or waits is in
\* the time queue.
QueueDiscipline ==
  \A t \in Task :
    /\ \A id \in QueueId :
         LET at == {i \in 1 .. Len(q[id]) : q[id][i] = t}
         IN  IF queue[t] = id THEN \E i \in at : at = {i} ELSE at = {}
    /\ \A i, j \in 1 .. Len(time_q) : time_q[i].task = t /\ time_q[j].task = t => i = j
    /\ queue[t] \in CASE state[t] = "Ready"      -> {"ready"}
                       [] state[t] = "Terminated" -> {"terminated"}
                       [] state[t] = "Waiting"    -> Queue
                       [] state[t] = "Sending"    -> Task \ {t}
                       [] OTHER                   -> {NoQueue}
    /\ t \in TimeMembers(time_q)
         => state[t] \in {"Delaying", "Waiting", "Sending", "Receiving"}

\* A sender waits on a task that is still there to receive from it (send_queue), for
\* whatever was sent before a task is deleted and whoever loses the CPU in the
\* middle of DeleteTask.  It takes the assumption of SendBlock: DeleteTask lets the
\* senders go in its first half only, and one that comes after that stays.
SendersHaveReceiver ==
  \A t \in Task : state[t] = "Sending" => Live(queue[t])

\* No rendezvous is missed: a task waiting for a message never faces a task
\* blocked in its send_queue whose message it would accept.
NoMissedRendezvous ==
  \A s, r \in Task : ~(state[s] = "Sending" /\ queue[s] = r /\ Accepts(r, s))

\* Every task queue is sorted by priority after any mix of arrivals, departures
\* and priority changes, so that its tail is the most urgent task.
QueuesSorted ==
  \A id \in QueueId : Sorted(q[id], priority)

\* The scheduler's promise: outside interrupts exactly one task is current, and
\* a preemptive one holds the CPU by right, no ready task being more urgent.
CpuByRight ==
  mt_int_level = 0 =>
    /\ \A t \in Task : state[t] = "Current" <=> t = mt_curr_task
    /\ atomic_level[mt_curr_task] = 0 =>
         \A t \in Task : state[t] = "Ready" => priority[t] <= priority[mt_curr_task]

\* The differential time queue is exact: the relative ticks up to each task sum
\* to the clock interrupts it still has to wait, whatever has entered and left
\* the queue around it.
TimeExact ==
  \A i \in 1 .. Len(time_q) : Elapse(time_q)[i] = left[time_q[i].task]

\* A blocking call reports success only when what it waited for happened.
NoFalseSuccess ==
  \A t \in Task : Reporting(t) /\ success[t] => served[t]

\* "SignalQueue ... Este proceso completa su WaitQueue() exitosamente": a call
\* whose wait was satisfied reports success.
SignalledSucceeds ==
  \A t \in Task : Reporting(t) /\ served[t] => success[t]

\* A task that stays in non-preemptive mode remains the current one through every
\* step, of its own or of the handlers that interrupt it, unless it blocks or is made
\* ready by name: by itself (Yield, Delay(0)), or by a handler that calls Ready on the
\* very task it interrupted, which then loses the CPU when the interrupt ends.  The
\* clock, the end of its slice, the tasks that it or a handler wakes, and changes of
\* priority do not take the CPU from it, neither at once nor by leaving it ready for
\* the scheduler to find (Atomic, mt_select_task, EndInterrupt).
AtomicKeepsCpu ==
  [][ \A t \in Task :
        state[t] = "Current" /\ atomic_level[t] > 0 /\ atomic_level'[t] > 0
          => \/ state'[t] = "Current" /\ mt_curr_task' = t
             \/ state'[t] \notin {"Current", "Ready"}
             \/ Ready(t) \/ Delay(0) ]_vars

\* A sleep or a timeout comes to an end.
TimeoutFires ==
  \A t \in Task : t \in TimeMembers(time_q) ~> t \notin TimeMembers(time_q)

\* Time slices: among tasks of the same priority every ready one gets the CPU.
ReadyRuns ==
  \A t \in Task \ {NullTask} : state[t] = "Ready" ~> state[t] # "Ready"

=============================================================================
