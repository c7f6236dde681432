------------------------------ MODULE MtProgram ------------------------------
(***************************************************************************)
(* What the demonstration programs and the buffers of MTask share: the     *)
(* program that was started, and the counting semaphores they use.         *)
(*                                                                         *)
(* A semaphore is the count of pending events that MtSem is shown to       *)
(* implement (IsCountingSemaphore): a wait is enabled when there is an     *)
(* event.  Which of several waiting tasks gets it is left open.            *)
(***************************************************************************)
EXTENDS Integers, Sequences, FiniteSets

VARIABLES
  program,   \* the program that runs
  events     \* the count of each of its semaphores

\* WaitSem, when it returns.
WaitEvent(s) == events[s] > 0 /\ events' = [events EXCEPT ![s] = @ - 1]

SignalEvent(s) == events' = [events EXCEPT ![s] = @ + 1]

=============================================================================
