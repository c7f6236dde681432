----------------------------- MODULE MCPrograms -----------------------------
(* The demonstration programs and the buffers of MTask: one of them is started *)
(* and the variables of the others keep their initial values.                 *)
EXTENDS MtRoad, MtPipe, MtProdCons, MtMath, MtPhilosophers, TLC

CONSTANTS a, b, c, w1, w2, r1, r2

MCDir == (a :> "LEFTBOUND") @@ (b :> "LEFTBOUND") @@ (c :> "RIGHTBOUND")

MCPriority == [i \in Task |-> 2]

MCInitValue == [m \in Sem |-> 1]

MCMonitorOf == [d \in Cond |-> mon]

Roads == {"camino", "camino1"}
Buffers == {"pmsgq", "msgqueue", "ppipe", "pipe"}

NoMachine == [has8087 |-> FALSE, far |-> FALSE, use_hiregs |-> FALSE]

vars == <<program, events, roadVars, queueVars, pipeVars, prodConsVars, mathVars>>

MCInit ==
  /\ \/ program \in Roads /\ events = RoadSems
     \/ program \in Buffers /\ events = QueueSems
     \/ program \in Prcons \cup {"pmon"} /\ events = ProdConsSems
     \/ program \in {"pmath", Program} /\ events = ProdConsSems
  /\ PhilInit /\ RoadInit /\ QueueInit /\ PipeInit /\ ProdConsInit
  /\ IF program = "pmath" THEN MathInit ELSE MathInit /\ machine = NoMachine

\* The programs that may stop: the last car has left and no key is to come; PRCONS and
\* PRCONS1 wait for each other; pmath has computed its results.
MayStop == program \in Roads \cup {"prcons", "prcons1", "pmath"}

ProgramNext ==
  \/ /\ program \in Roads /\ RoadNext
     /\ UNCHANGED <<queueVars, pipeVars, prodConsVars, mathVars>>
  \/ QueueNext /\ UNCHANGED <<roadVars, pipeVars, prodConsVars, mathVars>>
  \/ PipeNext /\ UNCHANGED <<roadVars, prodConsVars, mathVars>>
  \/ ProdConsNext /\ UNCHANGED <<roadVars, queueVars, pipeVars, mathVars>>
  \/ /\ program = "pmath" /\ MathNext
     /\ UNCHANGED <<events, roadVars, queueVars, pipeVars, prodConsVars>>

MCNext ==
  /\ \/ ProgramNext /\ UNCHANGED philVars
     \/ /\ program = Program /\ SfiloNext
        /\ UNCHANGED <<events, roadVars, queueVars, pipeVars, prodConsVars, mathVars>>
     \/ MayStop /\ UNCHANGED <<vars, philVars>>
  /\ UNCHANGED program

MCSpec == MCInit /\ [][MCNext]_<<vars, philVars>>

=============================================================================
