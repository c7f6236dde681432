------------------------------- MODULE MtSem --------------------------------
(***************************************************************************)
(* The semaphores of MTask (mtask2/kernel/sem.c) over the kernel's task    *)
(* queues, used by any number of tasks and interrupt handlers.             *)
(*                                                                         *)
(* Every operation runs with interrupts disabled and is one step up to the *)
(* point where the task blocks.  Which of several ready tasks runs next is *)
(* left open: every choice of the scheduler is a behaviour here.           *)
(***************************************************************************)
EXTENDS MtQueues, FiniteSets

CONSTANTS
  Task,
  Sem,
  NoSem,
  priority,    \* the priority of each task
  InitValue,   \* the initial count of each semaphore
  UINT_MOD     \* 2^16, the number of values of `unsigned' (scaled down for TLC)

ASSUME SemAssumption ==
  /\ IsFiniteSet(Task)
  /\ NoSem \notin Sem
  /\ priority \in [Task -> Nat]
  /\ UINT_MOD \in Nat \ {0}
  /\ InitValue \in [Sem -> 0 .. UINT_MOD - 1]

VARIABLES
  value,     \* sem->value
  waiting,   \* sem->queue
  at,        \* the semaphore whose WaitSem call a task is in
  outcome,   \* what that call will return, once the task has been woken
  timed      \* the tasks that are also in the time queue

semVars == <<value, waiting, at, outcome, timed>>

IsBlocked(t) == at[t] # NoSem /\ outcome[t] = "none"
IsWoken(t) == at[t] # NoSem /\ outcome[t] # "none"

SemInit ==
  /\ value = InitValue
  /\ waiting = [s \in Sem |-> <<>>]
  /\ at = [t \in Task |-> NoSem]
  /\ outcome = [t \in Task |-> "none"]
  /\ timed = {}

-----------------------------------------------------------------------------

\* WaitSemTimed when there is an event to consume.
WaitTakes(s) ==
  /\ value[s] > 0
  /\ value' = [value EXCEPT ![s] = @ - 1]
  /\ UNCHANGED <<waiting, at, outcome, timed>>

\* WaitSemTimed when there is none and the timeout is zero: it fails at once.
WaitFails(s) ==
  /\ value[s] = 0
  /\ UNCHANGED semVars

\* WaitSemTimed when there is none: WaitQueueTimed blocks the task, with a
\* timeout or for ever.
WaitBlocks(t, s, withTimeout) ==
  /\ value[s] = 0
  /\ waiting' = [waiting EXCEPT ![s] = mt_enqueue(@, priority, t)]
  /\ at' = [at EXCEPT ![t] = s]
  /\ outcome' = [outcome EXCEPT ![t] = "none"]
  /\ timed' = IF withTimeout THEN timed \cup {t} ELSE timed \ {t}
  /\ UNCHANGED value

\* Mutant: the event is handed over and counted as well.
SignalTwice(s) ==
  /\ value' = [value EXCEPT ![s] = (@ + 1) % UINT_MOD]
  /\ IF waiting[s] = <<>>
     THEN UNCHANGED <<waiting, outcome, timed>>
     ELSE LET t == mt_peeklast(waiting[s])
          IN  /\ waiting' = [waiting EXCEPT ![s] = mt_getlast(@)]
              /\ outcome' = [outcome EXCEPT ![t] = "true"]
              /\ timed' = timed \ {t}
  /\ UNCHANGED at

\* SignalSem: the event goes to the task at the tail of the queue, or is counted.
SignalSem(s) ==
  IF waiting[s] = <<>>
  THEN /\ value' = [value EXCEPT ![s] = (@ + 1) % UINT_MOD]
       /\ UNCHANGED <<waiting, at, outcome, timed>>
  ELSE LET t == mt_peeklast(waiting[s])
       IN  /\ waiting' = [waiting EXCEPT ![s] = mt_getlast(@)]
           /\ outcome' = [outcome EXCEPT ![t] = "true"]
           /\ timed' = timed \ {t}
           /\ UNCHANGED <<value, at>>

\* FlushSem: the count is lost and every waiting task is let go.
FlushSem(s, wait_ok) ==
  LET woken == Members(waiting[s])
  IN  /\ value' = [value EXCEPT ![s] = 0]
      /\ waiting' = [waiting EXCEPT ![s] = <<>>]
      /\ outcome' = [t \in Task |-> IF t \notin woken THEN outcome[t]
                                    ELSE IF wait_ok THEN "true" ELSE "false"]
      /\ timed' = timed \ woken
      /\ UNCHANGED at

\* A blocked task is woken without the event: its timeout expired (clockint), or
\* another task or a handler called Ready on it.
GiveUp(t) ==
  /\ IsBlocked(t)
  /\ waiting' = [waiting EXCEPT ![at[t]] = mt_dequeue(@, t)]
  /\ outcome' = [outcome EXCEPT ![t] = "false"]
  /\ timed' = timed \ {t}
  /\ UNCHANGED <<value, at>>

Timeout(t) == t \in timed /\ GiveUp(t)

\* A woken task gets the CPU and returns from WaitSemTimed.
WaitReturns(t) ==
  /\ IsWoken(t)
  /\ at' = [at EXCEPT ![t] = NoSem]
  /\ outcome' = [outcome EXCEPT ![t] = "none"]
  /\ UNCHANGED <<value, waiting, timed>>

-----------------------------------------------------------------------------
(***************************************************************************)
(* Tasks and handlers that use the semaphores in any way.                  *)
(***************************************************************************)

\* A running task calls WaitSem, WaitSemCond or WaitSemTimed.
WaitSem(t, s) ==
  /\ at[t] = NoSem
  /\ \/ WaitTakes(s)
     \/ WaitFails(s)
     \/ \E withTimeout \in BOOLEAN : WaitBlocks(t, s, withTimeout)

\* No program leaves UINT_MOD events unconsumed: the bound of this model.
SignalBounded(s) ==
  /\ value[s] + Cardinality({t \in Task : at[t] = s}) < UINT_MOD - 1
  /\ SignalSem(s)

Init == SemInit

Next ==
  \/ \E t \in Task, s \in Sem : WaitSem(t, s)
  \/ \E s \in Sem : SignalBounded(s) \/ (\E ok \in BOOLEAN : FlushSem(s, ok))
  \/ \E t \in Task : Timeout(t) \/ GiveUp(t) \/ WaitReturns(t)

Spec == Init /\ [][Next]_semVars

-----------------------------------------------------------------------------
(***************************************************************************)
(* Properties                                                              *)
(***************************************************************************)

\* Every variable has its type.
TypeOK ==
  /\ value \in [Sem -> 0 .. UINT_MOD - 1]
  /\ waiting \in [Sem -> Seq(Task)]
  /\ at \in [Task -> Sem \cup {NoSem}]
  /\ outcome \in [Task -> {"none", "true", "false"}]
  /\ timed \subseteq Task

\* No wake-up is lost: while an event is counted, nobody waits for it.
NoLostWakeup == \A s \in Sem : value[s] > 0 => waiting[s] = <<>>

\* The queue of a semaphore holds exactly the tasks blocked on it, each once,
\* and in order of priority, through signals, timeouts and flushes.
WaitersQueued ==
  \A s \in Sem :
    /\ Members(waiting[s]) = {t \in Task : at[t] = s /\ outcome[t] = "none"}
    /\ Distinct(waiting[s])
    /\ Sorted(waiting[s], priority)

\* The tasks blocked on s, and those to which an event of s has been handed.
Waiters(s) == {t \in Task : at[t] = s /\ outcome[t] = "none"}
Granted(s) == {t \in Task : at[t] = s /\ outcome[t] = "true"}

Abs == INSTANCE MtSemAbs WITH
         events <- value,
         waiters <- [s \in Sem |-> Waiters(s)],
         granted <- [s \in Sem |-> Granted(s)]

\* The implementation with a count in `unsigned', a queue and direct hand-over is
\* the counting semaphore of MtSemAbs (WaitSemTimed, SignalSem, FlushSem): a signal
\* counts its event or gives it to one most urgent waiter, never both and never
\* neither, and no event vanishes or appears but by a flush.
IsCountingSemaphore == Abs!Spec

=============================================================================
