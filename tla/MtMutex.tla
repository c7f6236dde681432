------------------------------ MODULE MtMutex -------------------------------
(***************************************************************************)
(* The recursive mutexes of MTask (mtask2/kernel/mutex.c), each a semaphore *)
(* of initial count 1, an owner and a use count.                           *)
(*                                                                         *)
(* EnterMutex and LeaveMutex do not disable interrupts: another task may   *)
(* run between the semaphore operation and the assignment to the owner.    *)
(* The steps are therefore split there.  The use count is read and written *)
(* by the owner alone, so it is assigned together with the owner.          *)
(***************************************************************************)
EXTENDS MtSem

CONSTANTS
  NoTask,     \* the NULL owner
  MaxUse      \* bound on the nesting of EnterMutex

ASSUME MutexAssumption ==
  /\ NoTask \notin Task
  /\ MaxUse \in Nat
  /\ InitValue = [m \in Sem |-> 1]
  /\ UINT_MOD > 1

VARIABLES
  owner, use_count,  \* members of Mutex_t
  phase, on,         \* where a task is inside EnterMutex or LeaveMutex, and on which mutex
  held,              \* history: enters that succeeded minus leaves, as the program counts
  panic              \* Panic has been called

mutexVars == <<value, waiting, at, outcome, timed, owner, use_count, phase, on, held, panic>>

\* The task runs its own code.
Outside(t) == at[t] = NoSem /\ phase[t] = "none"

MutexInit ==
  /\ SemInit
  /\ owner = [m \in Sem |-> NoTask]
  /\ use_count = [m \in Sem |-> 0]
  /\ phase = [t \in Task |-> "none"]
  /\ on = [t \in Task |-> NoSem]
  /\ held = [t \in Task |-> [m \in Sem |-> 0]]
  /\ panic = FALSE

\* EnterMutexTimed by the owner.
EnterAgain(t, m) ==
  /\ Outside(t) /\ owner[m] = t /\ use_count[m] < MaxUse
  /\ use_count' = [use_count EXCEPT ![m] = @ + 1]
  /\ held' = [held EXCEPT ![t][m] = @ + 1]
  /\ UNCHANGED <<value, waiting, at, outcome, timed, owner, phase, on, panic>>

\* EnterMutexTimed by another task: WaitSemTimed succeeds at once, fails at once
\* or blocks.
EnterWaits(t, m) ==
  /\ Outside(t) /\ owner[m] # t
  /\ \/ /\ WaitTakes(m)
        /\ phase' = [phase EXCEPT ![t] = "entering"] /\ on' = [on EXCEPT ![t] = m]
     \/ WaitFails(m) /\ UNCHANGED <<phase, on>>
     \/ /\ \E withTimeout \in BOOLEAN : WaitBlocks(t, m, withTimeout)
        /\ UNCHANGED <<phase, on>>
  /\ UNCHANGED <<owner, use_count, held, panic>>

\* Mutant: the result of WaitSemTimed is ignored.
EnterRegardless(t) ==
  /\ WaitReturns(t)
  /\ phase' = [phase EXCEPT ![t] = "entering"]
  /\ on' = [on EXCEPT ![t] = at[t]]
  /\ UNCHANGED <<owner, use_count, held, panic>>

\* WaitSemTimed returns to EnterMutexTimed, with the mutex or without it.
EnterResumes(t) ==
  /\ WaitReturns(t)
  /\ phase' = [phase EXCEPT ![t] = IF outcome[t] = "true" THEN "entering" ELSE @]
  /\ on' = [on EXCEPT ![t] = IF outcome[t] = "true" THEN at[t] ELSE @]
  /\ UNCHANGED <<owner, use_count, held, panic>>

\* EnterMutexTimed, the assignments: the task owns the mutex.
EnterOwns(t) ==
  LET m == on[t]
  IN  /\ phase[t] = "entering"
      /\ owner' = [owner EXCEPT ![m] = t]
      /\ use_count' = [use_count EXCEPT ![m] = 1]
      /\ phase' = [phase EXCEPT ![t] = "none"]
      /\ on' = [on EXCEPT ![t] = NoSem]
      /\ held' = [held EXCEPT ![t][m] = @ + 1]
      /\ UNCHANGED <<value, waiting, at, outcome, timed, panic>>

\* LeaveMutex by a task that entered: Panic unless it is the owner, else the use
\* count falls, and with it the ownership when it reaches zero.
LeaveMutex(t, m) ==
  /\ Outside(t) /\ held[t][m] > 0
  /\ IF owner[m] # t
     THEN panic' = TRUE /\ UNCHANGED <<use_count, owner, phase, on, held>>
     ELSE /\ use_count' = [use_count EXCEPT ![m] = @ - 1]
          /\ held' = [held EXCEPT ![t][m] = @ - 1]
          /\ IF use_count[m] = 1
             THEN /\ owner' = [owner EXCEPT ![m] = NoTask]
                  /\ phase' = [phase EXCEPT ![t] = "leaving"]
                  /\ on' = [on EXCEPT ![t] = m]
             ELSE UNCHANGED <<owner, phase, on>>
          /\ UNCHANGED panic
  /\ UNCHANGED <<value, waiting, at, outcome, timed>>

\* LeaveMutex, the last call: SignalSem.
LeaveSignals(t) ==
  /\ phase[t] = "leaving"
  /\ SignalSem(on[t])
  /\ phase' = [phase EXCEPT ![t] = "none"]
  /\ on' = [on EXCEPT ![t] = NoSem]
  /\ UNCHANGED <<owner, use_count, held, panic>>

\* A timeout, or Ready from another task, ends the wait.
EnterGivesUp(t) ==
  /\ Timeout(t) \/ GiveUp(t)
  /\ UNCHANGED <<owner, use_count, phase, on, held, panic>>

MutexNext ==
  \/ \E t \in Task, m \in Sem : EnterAgain(t, m) \/ EnterWaits(t, m) \/ LeaveMutex(t, m)
  \/ \E t \in Task : \/ EnterResumes(t) \/ EnterOwns(t)
                     \/ LeaveSignals(t) \/ EnterGivesUp(t)

MutexSpec == MutexInit /\ [][MutexNext]_mutexVars

-----------------------------------------------------------------------------
(***************************************************************************)
(* Properties                                                              *)
(***************************************************************************)

\* Every variable of the mutexes has its type.
MutexTypeOK ==
  /\ owner \in [Sem -> Task \cup {NoTask}]
  /\ use_count \in [Sem -> Nat]
  /\ phase \in [Task -> {"none", "entering", "leaving"}]
  /\ on \in [Task -> Sem \cup {NoSem}]
  /\ held \in [Task -> [Sem -> Nat]]
  /\ panic \in BOOLEAN

\* The tasks that have the mutex in one form or another: it was handed to them by
\* a signal, they are in EnterMutex past the wait or in LeaveMutex before the
\* signal, or they own it.
Passing(m) == {t \in Task : phase[t] # "none" /\ on[t] = m}
Owners(m) == {t \in Task : owner[m] = t}
Holders(m) == Granted(m) \cup Passing(m) \cup Owners(m)

\* At most one task is inside: two tasks never both think they have the mutex.
MutualExclusion ==
  \A m \in Sem : \A t, u \in Task : held[t][m] > 0 /\ held[u][m] > 0 => t = u

\* The ownership agrees with what the program did: a task owns the mutex exactly
\* while it has entered more often than it has left, and the use count says how
\* often.  LeaveMutex then never panics on a program that leaves what it entered.
OwnershipTracksUse ==
  /\ ~panic
  /\ \A m \in Sem, t \in Task :
       /\ owner[m] = t <=> held[t][m] > 0
       /\ owner[m] = t => use_count[m] = held[t][m]

\* The mutex is never lost or duplicated: either the semaphore counts one event and
\* nobody has the mutex, or it counts none and exactly one task has it.
OneToken ==
  \A m \in Sem :
    \/ value[m] = 1 /\ Holders(m) = {}
    \/ /\ value[m] = 0
       /\ \E t \in Task : Holders(m) = {t}
       /\ Granted(m) \cap Passing(m) = {} /\ Granted(m) \cap Owners(m) = {}
       /\ Passing(m) \cap Owners(m) = {}

=============================================================================
