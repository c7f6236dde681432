------------------------------ MODULE MCKernel ------------------------------
(* MtKernel for TLC, with programs that only start tasks, delay and use the   *)
(* queues, and the fairness of the clock.                                     *)
EXTENDS MtKernel

QueueNext == StartCall \/ QueueCall \/ Resumes

FairSpec == Init /\ [][QueueNext]_vars /\ Fairness

=============================================================================
