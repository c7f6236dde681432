----------------------------- MODULE ChProcess ------------------------------
(***************************************************************************)
(* The processes of Chinux (Chinux/src/kernel.c, scheduler2.c, pisix.c and *)
(* the int 08h/79h stubs of libasm.asm): the aging priority scheduler,     *)
(* blocking and sleeping, shells that wait for their foreground command,   *)
(* process termination and the recursive kill, from the moment a user has  *)
(* logged in and every shell waits for a command.                          *)
(*                                                                         *)
(* The CPU's interrupt flag is state: code that runs with it clear is one  *)
(* step, code that runs with it set may be interrupted between steps.  The *)
(* process list is the linked list of the source, because a kill walks it  *)
(* while other processes link and unlink nodes.                            *)
(***************************************************************************)
EXTENDS Integers, Sequences

CONSTANTS
  Shell,       \* the pids of the shells
  MaxPid,      \* bound: the last pid that is ever given out
  Priorities,  \* the priorities given to commands
  TIMESLOT,    \* ticks of a time slot
  SLEEP,       \* ticks of a sleep (18 per second in the source)
  Features     \* what users and commands do: "kill", "ctrlc", "spawn", "sleep"

IDLE == 0        \* the pid of the idle process, which is not in the list
Pid == 1 .. MaxPid
Nil == 0         \* the NULL pointer of the list

ASSUME ProcessAssumption ==
  /\ MaxPid \in Nat /\ \E n \in Pid : Shell = 1 .. n
  /\ Priorities \subseteq Nat
  /\ TIMESLOT \in Nat \ {0} /\ SLEEP \in Nat \ {0}

VARIABLES
  ready, next,      \* the process list: its head and the link of each node
  proc,             \* PROCESS: state, priority, foreground, parent, waitingPid, sleep, acum
  CurrentPID, timeslot, actualKilled, nextPID,
  iflag,            \* the interrupt flag of the CPU
  ctx,              \* the point at which each process is, and its interrupt flag
  kills,            \* the kill_in_kernel calls in progress on each stack, innermost last
  typed,            \* the shells whose terminal holds a command line
  killed            \* history: the pids for which a kill has returned

vars == <<ready, next, proc, CurrentPID, timeslot, actualKilled, nextPID, iflag,
          ctx, kills, typed, killed>>

Uses(f) == f \in Features

-----------------------------------------------------------------------------
(***************************************************************************)
(* The process list                                                        *)
(***************************************************************************)

\* The nodes from node n on, in order, following the links nx.
ListFrom(n, nx) ==
  LET chain[i \in 0 .. MaxPid] ==
        IF i = 0 THEN <<>>
        ELSE LET s == chain[i - 1]
                 m == IF i = 1 THEN n ELSE IF Len(s) < i - 1 THEN Nil ELSE nx[s[i - 1]]
             IN  IF m = Nil THEN s ELSE Append(s, m)
  IN  chain[MaxPid]

List == ListFrom(ready, next)
Nodes(l) == {l[i] : i \in 1 .. Len(l)}
Linked == Nodes(List)
InList(p) == p \in Linked

\* GetProcessByPID falls back on the idle process.
GetProcessByPID(p) == IF p # IDLE /\ InList(p) THEN p ELSE IDLE

\* The links after p is unlinked; the node of p keeps its own link.
Unlink(p) ==
  /\ ready' = IF ready = p THEN next[p] ELSE ready
  /\ LET linked == Linked
     IN  next' = [n \in Pid |-> IF ready # p /\ n \in linked /\ next[n] = p
                                THEN next[p] ELSE next[n]]

\* set_Process_ready: p is appended.
Link(p) ==
  /\ ready' = IF ready = Nil THEN p ELSE ready
  /\ LET l == List
     IN  next' = [n \in Pid |-> IF n = p THEN Nil
                                ELSE IF l # <<>> /\ n = l[Len(l)] THEN p ELSE next[n]]

\* Mutant: a process that waits for another is awoken as well.
AwakeWaiting(ps, p) ==
  LET w == GetProcessByPID(p)
  IN  IF ps[w].state = "BLOCKED" THEN [ps EXCEPT ![w].state = "READY"] ELSE ps

\* The processes ps after awake_process(p).
awake_process(ps, p) ==
  LET w == GetProcessByPID(p)
  IN  IF ps[w].state = "BLOCKED" /\ ps[w].waitingPid = 0
      THEN [ps EXCEPT ![w].state = "READY"] ELSE ps

\* The processes ps once the parent of p no longer waits for it: what end_process
\* and kill_in_kernel do for a foreground process.
ReleaseParent(ps, p) ==
  LET parent == GetProcessByPID(ps[p].parent)
  IN  IF ps[p].foreground /\ ps[parent].waitingPid = p
      THEN awake_process([ps EXCEPT ![parent].waitingPid = 0], parent) ELSE ps

-----------------------------------------------------------------------------
(***************************************************************************)
(* The scheduler                                                           *)
(***************************************************************************)

\* The sleepers of isTimeSlot: one tick less to sleep, awake at zero.
Alarms(ps) ==
  LET linked == Linked
  IN  [p \in DOMAIN ps |->
         IF p \notin linked \/ ps[p].sleep = 0 THEN ps[p]
         ELSE [ps[p] EXCEPT
                 !.sleep = @ - 1,
                 !.state = IF ps[p].sleep = 1 /\ @ = "BLOCKED" /\ ps[p].waitingPid = 0
                           THEN "READY" ELSE @]]

\* GetNextTask: the READY process of the list l with the largest acum; among equals
\* the one with the highest priority, and among those the last of the list.
GetNextTask(ps, l) ==
  LET candidates == {i \in 1 .. Len(l) : ps[l[i]].state = "READY"}
      beats(j, i) == LET a == ps[l[j]]  b == ps[l[i]]
                     IN  \/ a.acum > b.acum
                         \/ a.acum = b.acum /\ a.priority > b.priority
                         \/ a.acum = b.acum /\ a.priority = b.priority /\ j > i
  IN  IF candidates = {} THEN IDLE
      ELSE l[CHOOSE i \in candidates : \A j \in candidates \ {i} : beats(i, j)]

\* Mutant: processes do not age.
DispatchedWithoutAging(ps, chosen, l) ==
  [ps EXCEPT ![chosen].state = "RUNNING"]

\* What GetNextTask and GetNextProcess do to the processes: the READY ones of the
\* list l age, the chosen one starts over and runs.
Dispatched(ps, chosen, l) ==
  LET linked == Nodes(l)
  IN  [p \in DOMAIN ps |->
         IF p = chosen
         THEN [ps[p] EXCEPT !.state = "RUNNING", !.acum = IF p = IDLE THEN @ ELSE 0]
         ELSE IF p \in linked /\ ps[p].state = "READY"
              THEN [ps[p] EXCEPT !.acum = @ + ps[p].priority + 1] ELSE ps[p]]

\* SaveESP: the processes ps once the current one, unless killed, is READY.
Saved(ps) ==
  LET temp == GetProcessByPID(CurrentPID)
  IN  IF ~actualKilled /\ ps[temp].state = "RUNNING"
      THEN [ps EXCEPT ![temp].state = "READY"] ELSE ps

\* SaveESP, GetNextProcess and LoadESP: the context at is saved for the current
\* process, unless it has been killed, and the next one of the list l resumes.
Switch(ps, at, l) ==
  \E saved \in {Saved(ps)} : \E to \in {GetNextTask(saved, l)} :
    /\ proc' = Dispatched(saved, to, l)
    /\ CurrentPID' = to
    /\ ctx' = IF actualKilled THEN ctx ELSE [ctx EXCEPT ![GetProcessByPID(CurrentPID)] = at]
    /\ iflag' = ctx'[to].if
    /\ timeslot' = TIMESLOT
    /\ actualKilled' = FALSE

\* The timer interrupt.
Tick ==
  /\ iflag
  /\ IF timeslot > 1
     THEN /\ proc' = Alarms(proc)
          /\ timeslot' = timeslot - 1
          /\ UNCHANGED <<CurrentPID, ctx, iflag, actualKilled>>
     ELSE Switch(Alarms(proc), [ctx[CurrentPID] EXCEPT !.if = TRUE], List)
  /\ UNCHANGED <<ready, next, nextPID, kills, typed, killed>>

\* block_process on the current process, with processes ps and the list l: it yields
\* through the timer handler, whose slot it has cut short, and resumes at point.
Block(ps, point, l) ==
  LET p == CurrentPID
      blocked == IF InList(p) THEN [ps EXCEPT ![p].state = "BLOCKED"] ELSE ps
  IN  Switch(Alarms(blocked), [pc |-> point, if |-> iflag], l)

-----------------------------------------------------------------------------
(***************************************************************************)
(* The code of the current process.  No process runs its own code while a  *)
(* kill is in progress on its stack.                                       *)
(***************************************************************************)

At(point) == ctx[CurrentPID].pc = point /\ kills[CurrentPID] = <<>>

GoTo(point, flag) ==
  /\ ctx' = [ctx EXCEPT ![CurrentPID].pc = point]
  /\ iflag' = flag

\* CreateProcessAt, called with interrupts disabled by every caller.
NewProcess(prio, isFront) ==
  [state |-> "READY", priority |-> prio, foreground |-> isFront, parent |-> CurrentPID,
   waitingPid |-> 0, sleep |-> 0, acum |-> prio + 1]

\* shell: _Cli() at the top of the loop.
ShellCli ==
  /\ At("loop")
  /\ GoTo("read", FALSE)
  /\ UNCHANGED <<ready, next, proc, CurrentPID, timeslot, actualKilled, nextPID, kills,
                 typed, killed>>

\* shell: no command line, block.
ShellBlock ==
  /\ At("read") /\ CurrentPID \notin typed
  /\ Block(proc, "sti", List)
  /\ UNCHANGED <<ready, next, nextPID, kills, typed, killed>>

\* shell: a command that runs as a process; in the foreground the shell waits for
\* it (waitpid_in_kernel), in the background it goes on.
ShellRuns(prio, isFront) ==
  LET new == [proc EXCEPT ![nextPID] = NewProcess(prio, isFront)]
  IN
  /\ At("read") /\ CurrentPID \in typed /\ nextPID <= MaxPid
  /\ nextPID' = nextPID + 1
  /\ Link(nextPID)
  /\ IF isFront
     THEN Block([new EXCEPT ![CurrentPID].waitingPid = nextPID], "after",
                Append(List, nextPID))
     ELSE /\ proc' = new
          /\ GoTo("after", iflag)
          /\ UNCHANGED <<CurrentPID, timeslot, actualKilled>>
  /\ UNCHANGED <<kills, typed, killed>>

\* shell: a command that the shell runs itself and that leaves the processes alone.
ShellBuiltin ==
  /\ At("read") /\ CurrentPID \in typed
  /\ GoTo("after", iflag)
  /\ UNCHANGED <<ready, next, proc, CurrentPID, timeslot, actualKilled, nextPID, kills,
                 typed, killed>>

\* shell: the rest of the loop and _Sti(); after a command its line is cleared.
ShellSti ==
  /\ At("after") \/ At("sti")
  /\ typed' = IF At("after") THEN typed \ {CurrentPID} ELSE typed
  /\ GoTo("loop", TRUE)
  /\ UNCHANGED <<ready, next, proc, CurrentPID, timeslot, actualKilled, nextPID, kills, killed>>

\* A command starts with interrupts disabled; it may start children first (prueba2).
CommandSpawns(prio) ==
  /\ Uses("spawn") /\ At("start") /\ nextPID <= MaxPid
  /\ proc' = [proc EXCEPT ![nextPID] = NewProcess(prio, TRUE)]
  /\ nextPID' = nextPID + 1
  /\ Link(nextPID)
  /\ UNCHANGED <<CurrentPID, timeslot, actualKilled, iflag, ctx, kills, typed, killed>>

CommandSti ==
  /\ At("start")
  /\ GoTo("run", TRUE)
  /\ UNCHANGED <<ready, next, proc, CurrentPID, timeslot, actualKilled, nextPID, kills,
                 typed, killed>>

\* sleep: the alarm is set, and only then the process blocks.
Sleep ==
  /\ Uses("sleep") /\ At("run")
  /\ proc' = [proc EXCEPT ![GetProcessByPID(CurrentPID)].sleep = SLEEP]
  /\ GoTo("sleep", iflag)
  /\ UNCHANGED <<ready, next, CurrentPID, timeslot, actualKilled, nextPID, kills, typed, killed>>

SleepBlocks ==
  /\ At("sleep")
  /\ Block(proc, "run", List)
  /\ UNCHANGED <<ready, next, nextPID, kills, typed, killed>>

\* Mutant: the end of the current process is not noted.
EndUnnoted ==
  LET p == GetProcessByPID(CurrentPID)
  IN
  /\ At("run")
  /\ proc' = IF p = IDLE THEN proc ELSE ReleaseParent(proc, p)
  /\ Unlink(CurrentPID)
  /\ GoTo("dead", TRUE)
  /\ UNCHANGED <<actualKilled, CurrentPID, timeslot, nextPID, kills, typed, killed>>

\* The command returns into end_process.  What it returns to does not concern the
\* system: it waits there for the end of its slot.
end_process ==
  LET p == GetProcessByPID(CurrentPID)
  IN
  /\ At("run")
  /\ actualKilled' = TRUE
  /\ proc' = IF p = IDLE THEN proc ELSE ReleaseParent(proc, p)
  /\ Unlink(CurrentPID)
  /\ GoTo("dead", TRUE)
  /\ UNCHANGED <<CurrentPID, timeslot, nextPID, kills, typed, killed>>

-----------------------------------------------------------------------------
(***************************************************************************)
(* kill                                                                    *)
(***************************************************************************)

\* A kill_in_kernel call: its pid, the node its walk is at, whether it is over and
\* about to return, and the interrupt flag of its caller.
Frame(pid, flag) == [pid |-> pid, aux |-> ready, over |-> FALSE, if |-> flag]

\* The shells cannot be killed while a user is logged in, nor the idle process.
Protected(pid) == pid \in Shell \cup {IDLE}

\* The first half of kill_in_kernel, up to the walk over the children.
KillBegins(pid, stack, flag) ==
  /\ actualKilled' = (actualKilled \/ pid = CurrentPID)
  /\ proc' = IF InList(pid) THEN ReleaseParent(proc, pid) ELSE proc
  /\ kills' = [kills EXCEPT ![CurrentPID] = Append(stack, Frame(pid, flag))]
  /\ iflag' = FALSE

\* shell: the kill command, on any pid that has been given out.
ShellKills(pid) ==
  /\ Uses("kill") /\ At("read") /\ CurrentPID \in typed
  /\ ctx' = [ctx EXCEPT ![CurrentPID].pc = "after"]
  /\ IF Protected(pid)
     THEN UNCHANGED <<actualKilled, proc, kills, iflag>>
     ELSE KillBegins(pid, <<>>, iflag)
  /\ UNCHANGED <<ready, next, CurrentPID, timeslot, nextPID, typed, killed>>

\* The keyboard interrupt, Ctrl-C: kill(CurrentPID).  The keyboard's interrupt is in
\* service until its handler ends: no second Ctrl-C interrupts that kill.
CtrlC ==
  /\ Uses("ctrlc") /\ iflag /\ ~Protected(CurrentPID) /\ kills[CurrentPID] = <<>>
  /\ KillBegins(CurrentPID, <<>>, TRUE)
  /\ UNCHANGED <<ready, next, CurrentPID, timeslot, nextPID, ctx, typed, killed>>

\* The walk: the next child found is killed by a call of its own; when there is
\* none the process is unlinked and interrupts are enabled.
KillWalks ==
  LET c     == CurrentPID
      stack == kills[c]
      f     == stack[Len(stack)]
      rest  == ListFrom(f.aux, next)
      children == {i \in 1 .. Len(rest) : proc[rest[i]].parent = f.pid}
      child == rest[CHOOSE i \in children : \A j \in children : i <= j]
  IN
  /\ stack # <<>> /\ ~f.over
  /\ IF children # {}
     THEN /\ KillBegins(child, [stack EXCEPT ![Len(stack)].aux = child], iflag)
          /\ UNCHANGED <<ready, next>>
     ELSE /\ Unlink(f.pid)
          /\ kills' = [kills EXCEPT ![c][Len(stack)].over = TRUE]
          /\ iflag' = TRUE
          /\ UNCHANGED <<proc, actualKilled>>
  /\ UNCHANGED <<CurrentPID, timeslot, nextPID, ctx, typed, killed>>

\* Mutant: the walk ends with the first child.
KillReturnsOnce ==
  LET c     == CurrentPID
      stack == kills[c]
      f     == stack[Len(stack)]
      outer == SubSeq(stack, 1, Len(stack) - 1)
  IN
  /\ stack # <<>> /\ f.over
  /\ kills' = [kills EXCEPT ![c] =
                 IF outer = <<>> THEN outer ELSE [outer EXCEPT ![Len(outer)].aux = Nil]]
  /\ iflag' = f.if
  /\ killed' = killed \cup {f.pid}
  /\ UNCHANGED <<ready, next, proc, CurrentPID, timeslot, actualKilled, nextPID, ctx, typed>>

\* kill returns to its caller, whose interrupt flag is restored; an outer walk goes
\* on behind the node it was at.
KillReturns ==
  LET c     == CurrentPID
      stack == kills[c]
      f     == stack[Len(stack)]
      outer == SubSeq(stack, 1, Len(stack) - 1)
  IN
  /\ stack # <<>> /\ f.over
  /\ kills' = [kills EXCEPT ![c] =
                 IF outer = <<>> THEN outer
                 ELSE [outer EXCEPT ![Len(outer)].aux = next[@]]]
  /\ iflag' = f.if
  /\ killed' = killed \cup {f.pid}
  /\ UNCHANGED <<ready, next, proc, CurrentPID, timeslot, actualKilled, nextPID, ctx, typed>>

\* The keyboard interrupt, Enter on the terminal of a shell, which may hold a line.
Enter(s) ==
  /\ iflag
  /\ typed' \in {typed, typed \cup {s}}
  /\ proc' = awake_process(proc, s)
  /\ UNCHANGED <<ready, next, CurrentPID, timeslot, actualKilled, nextPID, iflag, ctx,
                 kills, killed>>

-----------------------------------------------------------------------------

Init ==
  /\ ready = CHOOSE s \in Shell : \A t \in Shell : s <= t
  /\ next = [n \in Pid |-> IF n \in Shell /\ n + 1 \in Shell THEN n + 1 ELSE Nil]
  /\ proc = [p \in Pid \cup {IDLE} |->
       [state |-> IF p = IDLE THEN "RUNNING" ELSE "BLOCKED",
        priority |-> IF p = IDLE THEN 4 ELSE 2, foreground |-> p # IDLE, parent |-> IDLE,
        waitingPid |-> IF p = IDLE THEN -1 ELSE 0, sleep |-> 0, acum |-> 0]]
  /\ CurrentPID = IDLE
  /\ timeslot = TIMESLOT
  /\ actualKilled = FALSE
  /\ nextPID = 1 + CHOOSE s \in Shell : \A t \in Shell : t <= s
  /\ iflag = TRUE
  /\ ctx = [p \in Pid \cup {IDLE} |->
              [pc |-> IF p = IDLE THEN "idle" ELSE IF p \in Shell THEN "sti" ELSE "start",
               if |-> p = IDLE]]
  /\ kills = [p \in Pid \cup {IDLE} |-> <<>>]
  /\ typed = {}
  /\ killed = {}

ShellStep ==
  \/ ShellCli \/ ShellBlock \/ ShellBuiltin \/ ShellSti
  \/ \E prio \in Priorities, isFront \in BOOLEAN : ShellRuns(prio, isFront)
  \/ \E pid \in 1 .. nextPID - 1 : ShellKills(pid)

CommandStep ==
  \/ \E prio \in Priorities : CommandSpawns(prio)
  \/ CommandSti \/ Sleep \/ SleepBlocks \/ end_process

KillStep == KillWalks \/ KillReturns

Next ==
  \/ ShellStep \/ CommandStep \/ KillStep
  \/ Tick \/ CtrlC \/ (\E s \in Shell : Enter(s))

Spec == Init /\ [][Next]_vars

\* The timer keeps ticking; a tick that finds interrupts disabled stays pending in the
\* interrupt controller, which makes the fairness strong.  Code that runs with
\* interrupts disabled comes to the point where it enables them or blocks.
FairSpec ==
  /\ Spec
  /\ SF_vars(Tick)
  /\ []<>iflag

-----------------------------------------------------------------------------
(***************************************************************************)
(* Properties                                                              *)
(***************************************************************************)

\* "RUNNING ... solo puede haber uno con este valor por vez": the current process is
\* the only one that is RUNNING, and while it has not been killed it is in the list.
OneRunning ==
  /\ \A p \in Pid : InList(p) /\ proc[p].state = "RUNNING" => p = CurrentPID
  /\ ~actualKilled /\ CurrentPID # IDLE =>
       InList(CurrentPID) /\ proc[CurrentPID].state = "RUNNING"

\* No wake-up of a shell is lost: while it waits for its foreground command it is
\* blocked and that command is in the list, still the shell's foreground child, so
\* that its end or its kill will find the shell waiting.
WaitsForLiveChild ==
  \A s \in Shell : LET c == proc[s].waitingPid
                   IN  c # 0 => /\ proc[s].state = "BLOCKED"
                                /\ InList(c) /\ proc[c].parent = s /\ proc[c].foreground

\* A kill that has returned is complete: neither the process nor a child of it is in
\* the list, though other processes ran and ended while the kill walked it.
KillIsComplete ==
  \A p \in killed, q \in Pid : InList(q) => q # p /\ proc[q].parent # p

\* Aging leaves nobody behind: a process that is READY runs, whatever the priorities
\* of the others.
NoStarvation ==
  \A p \in Pid : InList(p) /\ proc[p].state = "READY" ~> ~(InList(p) /\ proc[p].state = "READY")

=============================================================================
