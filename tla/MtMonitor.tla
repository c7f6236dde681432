----------------------------- MODULE MtMonitor ------------------------------
(***************************************************************************)
(* The monitors and condition variables of MTask (mtask2/kernel/monitor.c). *)
(* A monitor is a semaphore of initial count 1 and an owner; a condition is *)
(* a task queue of the kernel, tied to a monitor.                          *)
(*                                                                         *)
(* Entering and leaving do not disable interrupts: another task may run    *)
(* between the semaphore operation and the assignment to the owner, and    *)
(* the steps are split there.  WaitCondition runs in non-preemptive mode,  *)
(* so it is one step up to the point where it blocks, and one step from    *)
(* where it has the CPU and the semaphore again.                           *)
(*                                                                         *)
(* A task uses one monitor at a time, as in every program of mtask2/progs. *)
(***************************************************************************)
EXTENDS MtSem

CONSTANTS
  Cond,
  monitorOf,   \* the monitor of each condition; the monitors are the set Sem
  NoTask

ASSUME MonitorAssumption ==
  /\ NoTask \notin Task
  /\ monitorOf \in [Cond -> Sem]
  /\ InitValue = [m \in Sem |-> 1]

VARIABLES
  owner,       \* mon->owner
  sleepers,    \* cond->queue
  stage, on,   \* where a task is with respect to a monitor, and to which one
  success,     \* the result its WaitCondition will return
  panic        \* Panic has been called

\* The stages of a task: its own code or EnterMonitor up to the semaphore ("out"),
\* EnterMonitor and LeaveMonitor between semaphore and owner ("entering",
\* "leaving"), inside the monitor ("in"), and WaitCondition in the queue of the
\* condition ("waiting") or on its way back into the monitor ("returning").
Stage == {"out", "entering", "in", "leaving", "waiting", "returning"}

monVars == <<owner, sleepers, stage, on, success, panic>>

MonInit ==
  /\ SemInit
  /\ owner = [m \in Sem |-> NoTask]
  /\ sleepers = [c \in Cond |-> <<>>]
  /\ stage = [t \in Task |-> "out"]
  /\ on = [t \in Task |-> NoSem]
  /\ success = [t \in Task |-> FALSE]
  /\ panic = FALSE

\* Task t moves to stage s of monitor m.
Moves(t, s, m) ==
  /\ stage' = [stage EXCEPT ![t] = s]
  /\ on' = [on EXCEPT ![t] = m]

-----------------------------------------------------------------------------

\* EnterMonitorTimed, up to the return or the block of WaitSemTimed.
EnterMonitor(t, m) ==
  /\ stage[t] = "out" /\ at[t] = NoSem
  /\ IF owner[m] = t
     THEN panic' = TRUE /\ UNCHANGED <<semVars, stage, on>>
     ELSE /\ \/ WaitTakes(m) /\ Moves(t, "entering", m)
             \/ WaitBlocks(t, m, FALSE) /\ UNCHANGED <<stage, on>>
          /\ UNCHANGED panic
  /\ UNCHANGED <<owner, sleepers, success>>

\* WaitSemTimed returns to EnterMonitorTimed.
EnterResumes(t) ==
  /\ stage[t] = "out"
  /\ WaitReturns(t)
  /\ IF outcome[t] = "true" THEN Moves(t, "entering", at[t]) ELSE UNCHANGED <<stage, on>>
  /\ UNCHANGED <<owner, sleepers, success, panic>>

\* EnterMonitorTimed, the assignment.
EnterOwns(t) ==
  /\ stage[t] = "entering"
  /\ owner' = [owner EXCEPT ![on[t]] = t]
  /\ Moves(t, "in", on[t])
  /\ UNCHANGED <<semVars, sleepers, success, panic>>

\* LeaveMonitor, up to the assignment to the owner.
LeaveMonitor(t) ==
  /\ stage[t] = "in"
  /\ IF owner[on[t]] # t
     THEN panic' = TRUE /\ UNCHANGED <<owner, stage, on>>
     ELSE /\ owner' = [owner EXCEPT ![on[t]] = NoTask]
          /\ Moves(t, "leaving", on[t])
          /\ UNCHANGED panic
  /\ UNCHANGED <<semVars, sleepers, success>>

\* LeaveMonitor, SignalSem.
LeaveSignals(t) ==
  /\ stage[t] = "leaving"
  /\ SignalSem(on[t])
  /\ Moves(t, "out", NoSem)
  /\ UNCHANGED <<owner, sleepers, success, panic>>

-----------------------------------------------------------------------------

\* WaitCondition: leave the monitor and wait, as one step.
WaitCondition(t, c) ==
  LET m == monitorOf[c]
  IN  /\ stage[t] = "in" /\ on[t] = m
      /\ IF owner[m] # t
         THEN panic' = TRUE /\ UNCHANGED <<semVars, owner, sleepers, stage, on>>
         ELSE /\ owner' = [owner EXCEPT ![m] = NoTask]
              /\ SignalSem(m)
              /\ sleepers' = [sleepers EXCEPT ![c] = mt_enqueue(@, priority, t)]
              /\ Moves(t, "waiting", m)
              /\ UNCHANGED panic
      /\ UNCHANGED success

\* Mutant: the result of EnterMonitor is ignored, and the wait for it skipped.
ReturnBarges(t) ==
  /\ stage[t] = "returning" /\ at[t] = NoSem
  /\ owner' = [owner EXCEPT ![on[t]] = t]
  /\ Moves(t, "in", on[t])
  /\ UNCHANGED <<semVars, sleepers, success, panic>>

\* WaitCondition after the wait: EnterMonitor takes the semaphore and the monitor,
\* or blocks.
ReturnEnters(t) ==
  /\ stage[t] = "returning" /\ at[t] = NoSem
  /\ \/ /\ WaitTakes(on[t])
        /\ owner' = [owner EXCEPT ![on[t]] = t]
        /\ Moves(t, "in", on[t])
     \/ WaitBlocks(t, on[t], FALSE) /\ UNCHANGED <<owner, stage, on>>
  /\ UNCHANGED <<sleepers, success, panic>>

\* The blocked EnterMonitor of WaitCondition resumes; it is repeated if it failed.
ReturnResumes(t) ==
  /\ stage[t] = "returning"
  /\ WaitReturns(t)
  /\ IF outcome[t] = "true"
     THEN owner' = [owner EXCEPT ![on[t]] = t] /\ Moves(t, "in", on[t])
     ELSE UNCHANGED <<owner, stage, on>>
  /\ UNCHANGED <<sleepers, success, panic>>

\* The tasks T leave the queue of a condition, to return ok.
Wakes(c, T, queue, ok) ==
  /\ sleepers' = [sleepers EXCEPT ![c] = queue]
  /\ stage' = [t \in Task |-> IF t \in T THEN "returning" ELSE stage[t]]
  /\ success' = [t \in Task |-> IF t \in T THEN ok ELSE success[t]]
  /\ UNCHANGED <<semVars, owner, on>>

\* SignalCondition and BroadcastCondition by a task inside the monitor.
SignalCondition(t, c) ==
  /\ stage[t] = "in" /\ on[t] = monitorOf[c]
  /\ IF owner[monitorOf[c]] # t
     THEN panic' = TRUE /\ UNCHANGED <<semVars, owner, sleepers, stage, on, success>>
     ELSE /\ IF sleepers[c] = <<>> THEN Wakes(c, {}, <<>>, TRUE)
             ELSE Wakes(c, {mt_peeklast(sleepers[c])}, mt_getlast(sleepers[c]), TRUE)
          /\ UNCHANGED panic

BroadcastCondition(t, c) ==
  /\ stage[t] = "in" /\ on[t] = monitorOf[c]
  /\ IF owner[monitorOf[c]] # t
     THEN panic' = TRUE /\ UNCHANGED <<semVars, owner, sleepers, stage, on, success>>
     ELSE /\ Wakes(c, Members(sleepers[c]), <<>>, TRUE)
          /\ UNCHANGED panic

\* What goes on in a call a task is in, whatever the program.
MonitorStep(t) ==
  \/ EnterResumes(t) \/ EnterOwns(t) \/ LeaveSignals(t)
  \/ ReturnEnters(t) \/ ReturnResumes(t)

-----------------------------------------------------------------------------
(***************************************************************************)
(* Properties                                                              *)
(***************************************************************************)

\* The tasks that have the monitor in one form or another.
Holders(m) ==
  Granted(m) \cup {t \in Task : stage[t] \in {"entering", "in", "leaving"} /\ on[t] = m}

\* The monitor is never lost or duplicated through entries, waits that give it up
\* and returns from waits: it is free and nobody has it, or one task has it.  The
\* task inside is the owner, so that no operation of it panics.
OneInside ==
  /\ ~panic
  /\ \A m \in Sem :
       /\ \/ value[m] = 1 /\ Holders(m) = {}
          \/ value[m] = 0 /\ \E t \in Task : Holders(m) = {t}
       /\ \A t \in Task : owner[m] = t <=> stage[t] = "in" /\ on[t] = m

=============================================================================
