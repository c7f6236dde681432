---------------------------- MODULE MCKernelCalls ----------------------------
(* MtKernel for TLC, with programs of two kinds: tasks that share queues and  *)
(* change each other's state and priority, and tasks that exchange messages.  *)
EXTENDS MtKernel, TLC

VARIABLE part

\* The tasks the program creates are interchangeable.
Created == Permutations(Task \ {MainTask, NullTask})

MCInit == Init /\ part \in {"tasks", "messages"}

MCNext ==
  /\ \/ StartCall \/ DeleteCall \/ Resumes
     \/ part = "tasks" /\ (CpuCall \/ QueueCall)
     \/ part = "messages" /\ MessageCall
  /\ UNCHANGED part

MCSpec == MCInit /\ [][MCNext]_<<vars, part>>

=============================================================================
