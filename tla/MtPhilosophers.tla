--------------------------- MODULE MtPhilosophers ---------------------------
(***************************************************************************)
(* The dining philosophers of mtask2/progs over the monitors of MTask:     *)
(* sfilo.c, where a hungry philosopher waits in a loop on one condition    *)
(* that is broadcast, and filo.c, where each has a condition of its own,   *)
(* tests it once and is signalled by a neighbour that sees its forks free. *)
(*                                                                         *)
(* The mutex of the screen and of rand() is left out: it is held by one    *)
(* task at a time for a moment and guards nothing of what is modelled.     *)
(***************************************************************************)
EXTENDS MtMonitor, Integers

CONSTANTS
  NF,         \* the number of philosophers; Task is 0 .. NF - 1
  mon,        \* the monitor
  Program     \* "filo" or "sfilo"; the conditions are 0 .. NF - 1 or {0}

ASSUME PhilosophersAssumption ==
  /\ NF \in Nat /\ NF > 2
  /\ Task = 0 .. NF - 1 /\ Sem = {mon}
  /\ Program \in {"filo", "sfilo"}
  /\ Cond = IF Program = "filo" THEN Task ELSE {0}

VARIABLES
  in_use,     \* the forks that are used
  pc          \* the line a philosopher is at

philVars == <<semVars, monVars, in_use, pc>>

next(i) == (i + 1) % NF
prev(i) == (i + NF - 1) % NF

\* The fork to the left of philosopher i is i, the one to the right next(i).
Forks(i) == {i, next(i)}

forks_avail(i) == \A f \in Forks(i) : ~in_use[f]

cond(i) == IF Program = "filo" THEN i ELSE 0

PhilInit ==
  /\ MonInit
  /\ in_use = [f \in Task |-> FALSE]
  /\ pc = [i \in Task |-> "thinking"]

\* The philosopher is at a line and has the CPU, and goes on to another one.
From(i, line) == pc[i] = line
To(i, line) == pc' = [pc EXCEPT ![i] = line]

-----------------------------------------------------------------------------

\* EnterMonitor when hungry, and when the meal is over.
BecomeHungry(i) ==
  /\ From(i, "thinking") /\ EnterMonitor(i, mon) /\ To(i, "hungry")
  /\ UNCHANGED in_use

FinishEating(i) ==
  /\ From(i, "eating") /\ EnterMonitor(i, mon) /\ To(i, "finished")
  /\ UNCHANGED in_use

\* Mutant: the forks are tested once.
WaitOnce(i) ==
  /\ From(i, "hungry") /\ ~forks_avail(i)
  /\ WaitCondition(i, cond(i))
  /\ To(i, "woken")
  /\ UNCHANGED in_use

\* Inside the monitor without forks: wait.  sfilo tests again after the wait.
WaitForForks(i) ==
  /\ From(i, "hungry") /\ ~forks_avail(i)
  /\ WaitCondition(i, cond(i))
  /\ To(i, IF Program = "filo" THEN "woken" ELSE "hungry")
  /\ UNCHANGED in_use

\* take_forks, with the forks free or after the only wait of filo.
take_forks(i) ==
  /\ stage[i] = "in" /\ pc[i] \in {"hungry", "woken"}
  /\ From(i, "hungry") => forks_avail(i)
  /\ in_use' = [f \in Task |-> in_use[f] \/ f \in Forks(i)]
  /\ To(i, "taken")
  /\ UNCHANGED <<semVars, monVars>>

StartEating(i) ==
  /\ From(i, "taken") /\ LeaveMonitor(i) /\ To(i, "eating")
  /\ UNCHANGED in_use

leave_forks(i) ==
  /\ From(i, "finished") /\ stage[i] = "in"
  /\ in_use' = [f \in Task |-> in_use[f] /\ f \notin Forks(i)]
  /\ To(i, IF Program = "filo" THEN "left" ELSE "all")
  /\ UNCHANGED <<semVars, monVars>>

\* Mutant: one philosopher is woken instead of all.
WakeOne(i) ==
  /\ From(i, "all") /\ SignalCondition(i, 0) /\ To(i, "done")
  /\ UNCHANGED in_use

\* sfilo wakes everybody.
WakeAll(i) ==
  /\ From(i, "all") /\ BroadcastCondition(i, 0) /\ To(i, "done")
  /\ UNCHANGED in_use

\* filo wakes the left and then the right neighbour, if its forks are free.
WakeNeighbour(i, line, n, nextLine) ==
  /\ From(i, line)
  /\ IF forks_avail(n) THEN SignalCondition(i, cond(n))
     ELSE stage[i] = "in" /\ UNCHANGED <<semVars, monVars>>
  /\ To(i, nextLine)
  /\ UNCHANGED in_use

StartThinking(i) ==
  /\ From(i, "done") /\ LeaveMonitor(i) /\ To(i, "thinking")
  /\ UNCHANGED in_use

philosopher(i) ==
  \/ BecomeHungry(i) \/ WaitForForks(i) \/ take_forks(i) \/ StartEating(i)
  \/ FinishEating(i) \/ leave_forks(i) \/ StartThinking(i)
  \/ MonitorStep(i) /\ UNCHANGED <<in_use, pc>>

SfiloNext == \E i \in Task : philosopher(i) \/ WakeAll(i)

FiloNext ==
  \E i \in Task : \/ philosopher(i)
                  \/ WakeNeighbour(i, "left", prev(i), "right")
                  \/ WakeNeighbour(i, "right", next(i), "done")

\* To be used with Program = "sfilo" and Program = "filo".
SfiloSpec == PhilInit /\ [][SfiloNext]_philVars

FiloSpec == PhilInit /\ [][FiloNext]_philVars

-----------------------------------------------------------------------------
(***************************************************************************)
(* Properties                                                              *)
(***************************************************************************)

\* The philosopher has taken forks and not put them down.
HasForks(i) == pc[i] \in {"taken", "eating", "finished"}

\* Two neighbours never use the fork between them at the same time, and a fork that
\* somebody has is marked as used.
ForksExclusive ==
  \A i \in Task : HasForks(i) => ~HasForks(next(i)) /\ \A f \in Forks(i) : in_use[f]

\* No philosopher is forgotten: while one waits in the queue with both forks free,
\* the one that freed them is still inside and about to wake it.
NoneForgotten ==
  \A i \in Task : stage[i] = "waiting" /\ forks_avail(i) =>
    \E j \in Task : pc[j] \in {"all", "left", "right"}

=============================================================================
