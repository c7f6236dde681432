------------------------------- MODULE MtMath -------------------------------
(***************************************************************************)
(* The arithmetic context of the tasks of MTask (kernel/math.c) and the    *)
(* upper halves of their registers (kernel.c), as progs/pmath.c uses them: *)
(* mt_select_task saves and restores both when the CPU changes hands.      *)
(*                                                                         *)
(* The unit is the coprocessor or its emulator.  In the FAR data models    *)
(* the emulator keeps its state at the bottom of the stack of each task,   *)
(* and with a coprocessor a part of it that is constant.  What the unit    *)
(* holds is the task and the operation that left it there.  The CPU passes *)
(* to any task at any time: MtKernel says when it does.                    *)
(***************************************************************************)
EXTENDS MtProgram

CONSTANTS
  Created,   \* the tasks main creates
  OPS      \* operations of one evaluation of do_math

ASSUME MathAssumption == "main" \notin Created /\ OPS \in Nat /\ OPS > 1

MathTask == {"main"} \cup Created

VARIABLES
  machine,     \* what it has (_8087, use_hiregs) and the data model (FAR_DATA)
  unit,        \* the state of the coprocessor or of the emulator at _emu
  stackData,   \* what the emulator keeps in the stack of each task
  math_data,   \* the arithmetic context saved for each task, if it has one
  hi, hi_regs, \* who wrote the upper halves of the registers: now, and as saved
  curr,        \* mt_curr_task
  running,     \* the tasks that are not waiting for Ready
  phase,       \* the operations each task has done of its evaluation
  protected,   \* history: the tasks ProtectMath was called for
  wrong        \* history: the tasks that found a result or a register changed

mathVars == <<machine, unit, stackData, math_data, hi, hi_regs, curr, running, phase,
              protected, wrong>>

Clean == [of |-> "main", op |-> 0]      \* what setup_cp and setup_emu find
Garbage == [of |-> "main", op |-> -1]   \* a stack not initialised, a broken evaluation
NoData == [of |-> "main", op |-> -2]    \* math_data is NULL

\* mt_setup_math, and CreateTask for the tasks of the program.
MathInit ==
  /\ machine \in [has8087 : BOOLEAN, far : BOOLEAN, use_hiregs : BOOLEAN]
  /\ unit = Clean
  /\ stackData = [t \in MathTask |-> IF t = "main" THEN Clean ELSE Garbage]
  /\ math_data = [t \in MathTask |-> NoData]
  /\ hi = "main" /\ hi_regs = [t \in MathTask |-> t]
  /\ curr = "main" /\ running = {"main"}
  /\ phase = [t \in MathTask |-> 0]
  /\ protected = {} /\ wrong = {}

\* The state of the unit is that of the task alone.
OwnUnit == machine.far /\ ~machine.has8087

\* init_cp, init_emu and init_cpemu.
mt_init_math(t) ==
  /\ math_data' = IF OwnUnit THEN math_data ELSE [math_data EXCEPT ![t] = Clean]
  /\ stackData' = IF machine.far /\ t # "main" THEN [stackData EXCEPT ![t] = Clean]
                  ELSE stackData

\* main, before it makes the other tasks ready.
ProtectMath(t) ==
  /\ running = {"main"} /\ phase["main"] = 0 /\ t \notin protected
  /\ mt_init_math(t)
  /\ protected' = protected \cup {t}
  /\ UNCHANGED <<machine, unit, hi, hi_regs, curr, running, phase, wrong>>

Ready ==
  /\ running = {"main"} /\ running' = MathTask
  /\ UNCHANGED <<machine, unit, stackData, math_data, hi, hi_regs, curr, phase, protected, wrong>>

\* save_cp stores the coprocessor and leaves it as after a reset, save_emu copies.
mt_save_math(t) == [data |-> [math_data EXCEPT ![t] = unit],
                    unit |-> IF machine.has8087 THEN Clean ELSE unit]

\* Mutant: the next task is restored before the last one is saved.
SwitchUnitLate(last, next) ==
  LET restored == IF math_data[next] = NoData THEN unit ELSE math_data[next]
  IN  /\ unit' = IF math_data[last] # NoData /\ machine.has8087 THEN Clean ELSE restored
      /\ math_data' = IF math_data[last] = NoData THEN math_data
                      ELSE [math_data EXCEPT ![last] = restored]

\* What mt_select_task does to the unit: only tasks with a context have it saved and
\* restored.
SwitchUnit(last, next) ==
  LET saved == IF math_data[last] = NoData THEN [data |-> math_data, unit |-> unit]
               ELSE mt_save_math(last)
  IN  /\ unit' = IF saved.data[next] = NoData THEN saved.unit ELSE saved.data[next]
      /\ math_data' = saved.data

\* save_hiregs and restore_hiregs, for every task.
SwitchRegs(last, next) ==
  IF machine.use_hiregs
  THEN hi' = hi_regs[next] /\ hi_regs' = [hi_regs EXCEPT ![last] = hi]
  ELSE UNCHANGED <<hi, hi_regs>>

\* mt_select_task, when the task changes.
mt_switch(next) ==
  /\ next \in running \ {curr}
  /\ SwitchUnit(curr, next) /\ SwitchRegs(curr, next)
  /\ curr' = next
  /\ UNCHANGED <<machine, stackData, running, phase, protected, wrong>>

\* One operation of do_math by the current task: it is right when the unit holds what
\* the operation before left, or is told to begin anew.  The comparison at the end is
\* do_math's own; a task also finds the registers it left.
do_math ==
  LET op    == phase[curr]
      held  == IF OwnUnit THEN stackData[curr] ELSE unit
      right == /\ op = 0 \/ held = [of |-> curr, op |-> op]
               /\ machine.far => stackData[curr] # Garbage
      after == IF ~right THEN Garbage
               ELSE IF op = OPS - 1 THEN Clean ELSE [of |-> curr, op |-> op + 1]
  IN
  /\ IF OwnUnit THEN stackData' = [stackData EXCEPT ![curr] = after] /\ UNCHANGED unit
     ELSE unit' = after /\ UNCHANGED stackData
  /\ phase' = [phase EXCEPT ![curr] = (@ + 1) % OPS]
  /\ hi' = curr
  /\ wrong' = wrong \cup (IF op = OPS - 1 /\ ~right THEN {<<curr, "math">>} ELSE {})
                    \cup (IF machine.use_hiregs /\ op > 0 /\ hi # curr
                          THEN {<<curr, "registers">>} ELSE {})
  /\ UNCHANGED <<machine, math_data, hi_regs, curr, running, protected>>

MathNext ==
  \/ do_math \/ Ready
  \/ \E t \in MathTask : ProtectMath(t) \/ mt_switch(t)

\* pmath alone.
MathSpec == MathInit /\ [][MathNext]_mathVars

-----------------------------------------------------------------------------
(* Properties.                                                             *)

\* However the tasks preempt each other, and whoever else does arithmetic without
\* being protected, a task for which ProtectMath was called gets the result it would
\* get alone, with or without a coprocessor, and every task keeps the upper halves of
\* its registers (mt_select_task).
ContextKept ==
  \A t \in MathTask : /\ <<t, "registers">> \notin wrong
                      /\ t \in protected => <<t, "math">> \notin wrong

=============================================================================
