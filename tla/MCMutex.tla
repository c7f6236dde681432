------------------------------- MODULE MCMutex -------------------------------
(* A small instance for TLC: the semaphores used by tasks and handlers in any *)
(* way (the specification of MtSem), or each as part of a mutex (MtMutex).    *)
EXTENDS MtMutex, TLC

CONSTANTS t1, t2, t3, m1, m2

VARIABLE client   \* what the semaphores are used for

MCPriority == (t1 :> 1) @@ (t2 :> 2) @@ (t3 :> 2)

MCInitValue == (m1 :> 1) @@ (m2 :> 1)

MCInit == client \in {"any", "mutex"} /\ MutexInit

MCNext ==
  /\ \/ /\ client = "any" /\ Next
        /\ UNCHANGED <<owner, use_count, phase, on, held, panic>>
     \/ client = "mutex" /\ MutexNext
  /\ UNCHANGED client

MCSpec == MCInit /\ [][MCNext]_<<mutexVars, client>>

\* The invariants of a mutex, while the semaphores are used for mutexes.
MutexOneToken == client = "mutex" => OneToken

=============================================================================
