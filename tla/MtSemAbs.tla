------------------------------ MODULE MtSemAbs ------------------------------
(***************************************************************************)
(* What a semaphore of MTask promises its users: every signal is one       *)
(* event, which is counted, or is granted to a task that waits when there  *)
(* is one.  A wait ends with an event exactly when one was taken from the  *)
(* count or granted to the task; an event counted or granted stays so      *)
(* until the task returns with it.  Only a flush does away with events     *)
(* (those counted, never those granted), or grants what was not signalled, *)
(* to all the tasks that wait at that moment and no others.                *)
(***************************************************************************)
EXTENDS Naturals

CONSTANTS
  Task,
  Sem,
  priority,
  InitValue

VARIABLES
  events,    \* the events signalled and not taken, of each semaphore
  waiters,   \* the tasks that wait for an event
  granted    \* the tasks that were given an event and have not returned with it

vars == <<events, waiters, granted>>

Init ==
  /\ events = InitValue
  /\ waiters = [s \in Sem |-> {}]
  /\ granted = [s \in Sem |-> {}]

Take(s) ==
  /\ events[s] > 0
  /\ events' = [events EXCEPT ![s] = @ - 1]
  /\ UNCHANGED <<waiters, granted>>

Wait(t, s) ==
  /\ events[s] = 0
  /\ \A r \in Sem : t \notin waiters[r] \cup granted[r]
  /\ waiters' = [waiters EXCEPT ![s] = @ \cup {t}]
  /\ UNCHANGED <<events, granted>>

Count(s) ==
  /\ waiters[s] = {}
  /\ events' = [events EXCEPT ![s] = @ + 1]
  /\ UNCHANGED <<waiters, granted>>

\* The event goes to a waiter than whom none is more urgent, and is not counted.
Grant(t, s) ==
  /\ t \in waiters[s] /\ \A u \in waiters[s] : priority[u] <= priority[t]
  /\ waiters' = [waiters EXCEPT ![s] = @ \ {t}]
  /\ granted' = [granted EXCEPT ![s] = @ \cup {t}]
  /\ UNCHANGED events

\* The task stops waiting, without an event.
Cancel(t, s) ==
  /\ t \in waiters[s]
  /\ waiters' = [waiters EXCEPT ![s] = @ \ {t}]
  /\ UNCHANGED <<events, granted>>

Flush(s, ok) ==
  /\ events' = [events EXCEPT ![s] = 0]
  /\ waiters' = [waiters EXCEPT ![s] = {}]
  /\ granted' = IF ok THEN [granted EXCEPT ![s] = @ \cup waiters[s]] ELSE granted

\* A granted task returns with its event.
Return(t, s) ==
  /\ t \in granted[s]
  /\ granted' = [granted EXCEPT ![s] = @ \ {t}]
  /\ UNCHANGED <<events, waiters>>

Next ==
  \E s \in Sem :
    \/ Take(s) \/ Count(s)
    \/ \E t \in Task : Wait(t, s) \/ Grant(t, s) \/ Cancel(t, s) \/ Return(t, s)
    \/ \E ok \in BOOLEAN : Flush(s, ok)

Spec == Init /\ [][Next]_vars

=============================================================================
