--------------------------- MODULE MCPhilosophers ---------------------------
(* Small instances of MtPhilosophers for TLC. *)
EXTENDS MtPhilosophers

MCPriority == [i \in Task |-> 2]

MCInitValue == [m \in Sem |-> 1]

MCMonitorOf == [c \in Cond |-> mon]

=============================================================================
