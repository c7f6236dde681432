------------------------------ MODULE TgKernel ------------------------------
(***************************************************************************)
(* The kernel of tpesoGuia: its process table and aging scheduler, the     *)
(* keyboard ring and the screen of each terminal, switching terminals with *)
(* Alt+Fn, and the programs it runs: the shells, payaso, top and dancing.  *)
(*                                                                         *)
(* A step is a stretch of code between two points where an interrupt can   *)
(* come: what stands between Cli() and Sti() is one step, and what runs    *)
(* with interrupts enabled is cut where a pointer or an index is read and  *)
(* used later.  _int8 is the word "int8" alone on its line, which the      *)
(* assembler takes for a label: int8() returns at once (kernel.bin has a   *)
(* bare ret there), so that a process goes on until the timer's next tick. *)
(*                                                                         *)
(* A screen is "blank" or holds "text"; the cursor, the statistics of top  *)
(* and the letters of a command are left out: a line that is not empty may *)
(* be any command.                                                         *)
(***************************************************************************)
EXTENDS Integers, FiniteSets, FiniteSetsExt

CONSTANTS
  PROCS,           \* size of the process table (64)
  TERMS,           \* terminals (8)
  RING,            \* cells of the ring of a terminal (10)
  LINE,            \* characters a shell accepts in a line (50)
  MAX_PRIORITY,    \* (4)
  PRIORITY_RATIO,  \* (2)
  SHELL_PRIORITY,  \* of everything the kernel and the shells start (2)
  Modifiers,       \* of "SHIFT", "CONTROL", "ALT"
  Keys,            \* of "CHAR", "ENTER", "BACKSPACE", "F10"
  NAP,             \* ticks of Sleep (n * 20)
  MaxPID,          \* bound on the processes ever created
  MaxPresses       \* bound on the keys typed

Idle == 0                        \* the place of the process idle, and its pid
NULL == -1
Proc == 1 .. PROCS               \* procesos[64]
Term == 0 .. TERMS - 1
VIDEO == 0                       \* the screen memory at 0xb8000
SPARE == TERMS                   \* the screen memory Calloc gives backupTerm
Memory == 0 .. TERMS             \* the others come from CallocVid

ASSUME GuiaAssumption ==
  /\ PROCS \in Nat /\ TERMS \in 1 .. PROCS /\ RING \in Nat /\ RING > 1 /\ LINE > 0
  /\ NAP \in Nat /\ NAP > 0 /\ MaxPID >= TERMS
  /\ MAX_PRIORITY \in Nat /\ PRIORITY_RATIO \in Nat /\ SHELL_PRIORITY \in 0 .. MAX_PRIORITY

VARIABLES
  procesos,    \* the process table, idle included
  run,         \* where each process is in its program, and its local variables
  CurrentPID, nextPID,
  rings,       \* tty[].buffer
  terminal,    \* tty[].terminal: where the screen of a terminal is kept
  backupTerm,
  screen,      \* what each screen memory shows
  CurrentTTY,
  tags,        \* the modifier keys held down
  presses      \* keys typed so far

guiaVars == <<procesos, run, CurrentPID, nextPID, rings, terminal, backupTerm, screen,
              CurrentTTY, tags, presses>>
keyboard == <<terminal, backupTerm, CurrentTTY, tags, presses>>
display == <<screen, keyboard>>

-----------------------------------------------------------------------------
(* The process table.                                                      *)

NoProcesses(ps) == \A i \in Proc : ps[i].free

GetProcessByPID(ps, pid) ==
  IF pid = 0 THEN Idle
  ELSE IF \E i \in Proc : ps[i].pid = pid THEN CHOOSE i \in Proc : ps[i].pid = pid
  ELSE NULL

Me == GetProcessByPID(procesos, CurrentPID)
GetTTY == procesos[Me].tty
FreeProc == Min({i \in Proc : procesos[i].free})

\* LoadStackFrame: a program starts with interrupts disabled.  The shell counts on its
\* conty being 0 in the fresh stack.
Started == [pc |-> "start", conty |-> 0, vidmem |-> SPARE, last |-> FALSE]

\* CreateProcessAt: the process it makes.
NewProcess(name, pid, t, parent) ==
  [pid |-> pid, name |-> name, priority |-> SHELL_PRIORITY, tty |-> t, lastCalled |-> 0,
   sleep |-> 0, blocked |-> 0, parent |-> parent, free |-> FALSE]

\* CreateProcessAt: a process in the foreground blocks the one that creates it until
\* it ends.
CreateProcessAt(name, t, isFront) ==
  [i \in {Idle} \cup Proc |->
     IF i = FreeProc THEN NewProcess(name, nextPID, t, IF isFront THEN CurrentPID ELSE 0)
     ELSE IF i = Me /\ isFront THEN [procesos[i] EXCEPT !.blocked = 2]
     ELSE procesos[i]]

\* Beyond the 64 processes the table is overrun, and a shell that killed itself and
\* then fills its own entry is found by nobody: the model stops before both.
RoomForProcess ==
  /\ nextPID <= MaxPID
  /\ \E i \in Proc : procesos[i].free
  /\ FreeProc # Me

\* Mutant: the parent is not told.
DestroyOnly(p) == [procesos EXCEPT ![p].free = TRUE]

\* Destroy: the parent, if it is still in the table, goes on.
Destroy(p) ==
  LET padre == GetProcessByPID(procesos, procesos[p].parent)
  IN  [i \in {Idle} \cup Proc |->
         IF i = p THEN [procesos[i] EXCEPT !.free = TRUE]
         ELSE IF i = padre /\ procesos[p].parent # 0 THEN [procesos[i] EXCEPT !.blocked = 0]
         ELSE procesos[i]]

EmptyAt(b) == [b EXCEPT !.head = 0, !.tail = 0]

-----------------------------------------------------------------------------
(* The timer: SaveESP, GetNextProcess and LoadESP.                         *)

Eligible(p) == ~p.free /\ p.sleep >= 0 /\ p.blocked = 0

\* What GetNextTask does to the processes it passes.
Aged(ps) ==
  [i \in {Idle} \cup Proc |->
     IF i = Idle \/ ps[i].free THEN ps[i]
     ELSE IF ps[i].sleep < 0 THEN [ps[i] EXCEPT !.sleep = @ + 1]
     ELSE IF ps[i].blocked = 0 THEN [ps[i] EXCEPT !.lastCalled = @ + 1]
     ELSE ps[i]]

\* Mutant: the priority alone decides.
TaskValueNoAge(p) == (MAX_PRIORITY - p.priority) * PRIORITY_RATIO

TaskValue(p) == (MAX_PRIORITY - p.priority) * PRIORITY_RATIO + p.lastCalled

\* The first of the best among those that were eligible when GetNextTask passed them.
GetNextTask(ps, aged) ==
  LET able == {i \in Proc : Eligible(ps[i])}
      best == {i \in able : \A j \in able : TaskValue(aged[j]) <= TaskValue(aged[i])}
  IN  IF NoProcesses(ps) \/ able = {} THEN Idle ELSE Min(best)

\* Interrupts are disabled from the start of a program to its first Sti().
Interruptible == run[Me].pc # "start"

\* SaveESP and GetNextProcess: the context is where run leaves the process; the first
\* time the context, which is kmain's, is dropped (FirstTime).
SaveContext == run' = [run EXCEPT ![Idle].pc = IF @ = "kmain" THEN "start" ELSE @]

\* int_08_hand.
Tick ==
  /\ Interruptible
  /\ LET aged == Aged(procesos)
         to   == GetNextTask(procesos, aged)
     IN  /\ procesos' = [aged EXCEPT ![to].lastCalled = 0]
         /\ CurrentPID' = aged[to].pid
  /\ SaveContext
  /\ UNCHANGED <<nextPID, rings, display>>

-----------------------------------------------------------------------------
(* The keyboard: int_09.                                                   *)

Modifier(m) ==
  /\ Interruptible
  /\ tags' \in {tags \cup {m}, tags \ {m}}
  /\ UNCHANGED <<procesos, run, CurrentPID, nextPID, rings, terminal, backupTerm, screen,
                 CurrentTTY, presses>>

\* Mutant: the memory of the terminal left is forgotten before it is noted.
AltFnSwapped(nextTTY) ==
  /\ Interruptible /\ "ALT" \in tags /\ presses < MaxPresses
  /\ screen' = [screen EXCEPT ![backupTerm] = screen[VIDEO],
                              ![VIDEO] = screen[terminal[nextTTY]]]
  /\ terminal' = [terminal EXCEPT ![CurrentTTY] = terminal[nextTTY], ![nextTTY] = VIDEO]
  /\ backupTerm' = terminal[nextTTY]
  /\ CurrentTTY' = nextTTY
  /\ presses' = presses + 1
  /\ UNCHANGED <<procesos, run, CurrentPID, nextPID, rings, tags>>

\* Alt and F1 .. F8: the screen shown goes to backupTerm, which becomes the memory of
\* the terminal left; the memory of the terminal shown becomes backupTerm.
AltFn(nextTTY) ==
  /\ Interruptible /\ "ALT" \in tags /\ presses < MaxPresses
  /\ screen' = [screen EXCEPT ![backupTerm] = screen[VIDEO],
                              ![VIDEO] = screen[terminal[nextTTY]]]
  /\ terminal' = [terminal EXCEPT ![CurrentTTY] = backupTerm, ![nextTTY] = VIDEO]
  /\ backupTerm' = IF nextTTY = CurrentTTY THEN backupTerm ELSE terminal[nextTTY]
  /\ CurrentTTY' = nextTTY
  /\ presses' = presses + 1
  /\ UNCHANGED <<procesos, run, CurrentPID, nextPID, rings, tags>>

\* Any other key goes to the ring of the terminal shown, if there is room, and wakes
\* the processes of that terminal that wait for a key.
Press(key) ==
  LET b == rings[CurrentTTY]
  IN
  /\ Interruptible /\ presses < MaxPresses
  /\ b.head # (b.tail + 1) % RING
  /\ rings' = [rings EXCEPT ![CurrentTTY] =
                 [b EXCEPT !.buffer[b.tail] = [key |-> key, tags |-> tags],
                           !.tail = (@ + 1) % RING]]
  /\ procesos' = [i \in {Idle} \cup Proc |->
       IF i # Idle /\ procesos[i].blocked = 1 /\ procesos[i].tty = CurrentTTY
       THEN [procesos[i] EXCEPT !.blocked = 0] ELSE procesos[i]]
  /\ presses' = presses + 1
  /\ UNCHANGED <<run, CurrentPID, nextPID, terminal, backupTerm, screen, CurrentTTY, tags>>

\* loadScanCodes2: the upper half of the table, for Shift, has neither Enter nor
\* Backspace, and F10 is a character like another.
scancodes(key, shift) == IF shift \/ key = "F10" THEN "CHAR" ELSE key

\* GetChar: no character (-1) with Control or Alt, and the key is gone.
GetChar(cell) ==
  IF cell.tags = {} THEN scancodes(cell.key, FALSE)
  ELSE IF "SHIFT" \in cell.tags THEN scancodes(cell.key, TRUE) ELSE "NONE"

Mine == rings[GetTTY]
Empty(b) == b.head = b.tail
Taken(b) == [b EXCEPT !.head = (@ + 1) % RING]

-----------------------------------------------------------------------------
(* Output: every function writes through the terminal pointer of the       *)
(* process that calls it.                                                  *)

k_clear_screen == [screen EXCEPT ![terminal[GetTTY]] = "blank"]
message == [screen EXCEPT ![terminal[GetTTY]] = "text"]

In(name, pc) == procesos[Me].name = name /\ run[Me].pc = pc
Goes(pc) == run' = [run EXCEPT ![Me].pc = pc]

-----------------------------------------------------------------------------
(* The shell.                                                              *)

\* k_clear_screen() and Sti().
ShellBegins ==
  /\ In("Shell", "start") /\ Goes("find")
  /\ screen' = k_clear_screen
  /\ UNCHANGED <<procesos, CurrentPID, nextPID, rings, keyboard>>

\* With interrupts enabled the pointer is read (at the start for the greeting, after
\* payaso for k_clear_screen) ...
ShellFinds ==
  /\ \/ In("Shell", "find") /\ run' = [run EXCEPT ![Me].pc = "put", ![Me].vidmem = terminal[GetTTY]]
     \/ In("Shell", "findClear")
        /\ run' = [run EXCEPT ![Me].pc = "clear", ![Me].vidmem = terminal[GetTTY]]
  /\ UNCHANGED <<procesos, CurrentPID, nextPID, rings, display>>

\* ... and then written through, wherever that screen is by now.
ShellPuts ==
  /\ \/ In("Shell", "put") /\ screen' = [screen EXCEPT ![run[Me].vidmem] = "text"]
        /\ run' = [run EXCEPT ![Me].pc = "loop", ![Me].vidmem = SPARE]
     \/ In("Shell", "clear") /\ screen' = [screen EXCEPT ![run[Me].vidmem] = "blank"]
        /\ run' = [run EXCEPT ![Me].pc = "prompt", ![Me].vidmem = SPARE]
  /\ UNCHANGED <<procesos, CurrentPID, nextPID, rings, keyboard>>

\* The end of the command payaso: Cli(), the prompt, an empty line, Sti().
ShellPrompts ==
  /\ In("Shell", "prompt")
  /\ run' = [run EXCEPT ![Me].pc = "loop", ![Me].conty = 0]
  /\ screen' = message
  /\ UNCHANGED <<procesos, CurrentPID, nextPID, rings, keyboard>>

\* The loop takes the next character off the ring.
ShellTakes(a) ==
  In("Shell", "loop") /\ ~Empty(Mine) /\ GetChar(Mine.buffer[Mine.head]) = a

RestOfRings == [rings EXCEPT ![GetTTY] = Taken(Mine)]

\* No character: the shell blocks, unless it waits for its command.
ShellStops ==
  /\ \/ In("Shell", "loop") /\ Empty(Mine) /\ UNCHANGED rings
     \/ ShellTakes("NONE") /\ rings' = RestOfRings
  /\ procesos' = [procesos EXCEPT ![Me].blocked = IF @ = 0 THEN 1 ELSE @]
  /\ UNCHANGED <<run, CurrentPID, nextPID, display>>

\* Backspace writes on the terminal shown, whatever the terminal of the shell.
ShellTypes ==
  /\ \/ /\ ShellTakes("CHAR")
        /\ IF run[Me].conty < LINE
           THEN run' = [run EXCEPT ![Me].conty = @ + 1] /\ screen' = message
           ELSE UNCHANGED <<run, screen>>
     \/ /\ ShellTakes("BACKSPACE")
        /\ IF run[Me].conty > 0
           THEN /\ run' = [run EXCEPT ![Me].conty = @ - 1]
                /\ screen' = [screen EXCEPT ![terminal[CurrentTTY]] = "text"]
           ELSE UNCHANGED <<run, screen>>
  /\ rings' = RestOfRings
  /\ UNCHANGED <<procesos, CurrentPID, nextPID, keyboard>>

\* Enter: InterpretarBuffer runs the line, and the prompt is written.
ShellEnter ==
  /\ ShellTakes("ENTER")
  /\ screen' = message
  /\ UNCHANGED <<CurrentPID, keyboard>>

LineDone == run' = [run EXCEPT ![Me].conty = 0]

\* help, cls and what is not a command.
ShellOther == ShellEnter /\ LineDone /\ rings' = RestOfRings /\ UNCHANGED <<procesos, nextPID>>

\* payaso, top and dancing, in the foreground or in the background, on the terminal
\* that is shown.  payaso in the foreground enables interrupts before it goes on.
ShellRuns(name, isFront) ==
  /\ run[Me].conty > 0 /\ RoomForProcess
  /\ ShellEnter /\ rings' = RestOfRings
  /\ procesos' = CreateProcessAt(name, CurrentTTY, isFront)
  /\ nextPID' = nextPID + 1
  /\ run' = [run EXCEPT ![FreeProc] = Started, ![Me].conty = 0,
                        ![Me].pc = IF name = "Payaso" /\ isFront THEN "findClear" ELSE @]

\* kill: the ring of the terminal of the process is emptied as well.  A pid that is
\* not in the table makes Destroy read through NULL and is left out.
kill(p) ==
  /\ run[Me].conty > 0 /\ ~procesos[p].free
  /\ ShellEnter /\ LineDone
  /\ procesos' = Destroy(p)
  /\ rings' = [RestOfRings EXCEPT ![procesos[p].tty] = EmptyAt(@)]
  /\ UNCHANGED nextPID

\* nice: a priority out of range is refused, a name is read as the pid 0.
nice(p, prior) ==
  /\ run[Me].conty > 0 /\ GetProcessByPID(procesos, procesos[p].pid) = p
  /\ ShellEnter /\ LineDone /\ rings' = RestOfRings
  /\ procesos' = [procesos EXCEPT ![p].priority = prior]
  /\ UNCHANGED nextPID

-----------------------------------------------------------------------------
(* The programs.                                                           *)

IdleStarts ==
  /\ Me = Idle /\ run[Idle].pc = "start" /\ Goes("idle")
  /\ UNCHANGED <<procesos, CurrentPID, nextPID, rings, display>>

Payaso ==
  /\ \/ In("Payaso", "start") /\ Goes("draw") /\ UNCHANGED screen
     \/ In("Payaso", "draw") /\ screen' = message /\ UNCHANGED run
  /\ UNCHANGED <<procesos, CurrentPID, nextPID, rings, keyboard>>

\* The variable a that ends the loop of top is tested before it is given a value.
TopStarts ==
  /\ In("Top", "start")
  /\ Goes("look") \/ Goes("end")
  /\ screen' = message
  /\ UNCHANGED <<procesos, CurrentPID, nextPID, rings, keyboard>>

\* GetKey with interrupts enabled: the key at the head of the ring is read ...
TopLooks ==
  /\ In("Top", "look")
  /\ IF Empty(Mine) THEN run' = [run EXCEPT ![Me].pc = "draw", ![Me].last = FALSE]
     ELSE run' = [run EXCEPT ![Me].pc = "advance",
                             ![Me].last = Mine.buffer[Mine.head].key = "F10"]
  /\ UNCHANGED <<procesos, CurrentPID, nextPID, rings, display>>

\* ... and the head moves on, though the ring may have been emptied in between.
TopAdvances ==
  /\ In("Top", "advance") /\ Goes("draw")
  /\ rings' = RestOfRings
  /\ UNCHANGED <<procesos, CurrentPID, nextPID, display>>

TopDraws ==
  /\ In("Top", "draw") /\ Goes("nap")
  /\ screen' = message
  /\ UNCHANGED <<procesos, CurrentPID, nextPID, rings, keyboard>>

\* DancingMessage up to Sti(): the first time it comes with interrupts disabled.
Dances ==
  /\ In("dancing", "start") \/ In("dancing", "draw")
  /\ run' = [run EXCEPT ![Me].pc = "nap",
                        ![Me].last = ~Empty(Mine) /\ Mine.buffer[Mine.head].key = "F10"]
  /\ rings' = IF Empty(Mine) THEN rings ELSE RestOfRings
  /\ screen' = message
  /\ UNCHANGED <<procesos, CurrentPID, nextPID, keyboard>>

\* Sleep: the process goes on until the tick.  top without an argument sleeps 0.
Sleep ==
  /\ run[Me].pc = "nap"
  /\ \E n \in IF procesos[Me].name = "Top" THEN {0, NAP} ELSE {NAP} :
       procesos' = [procesos EXCEPT ![Me].sleep = -n]
  /\ Goes(IF run[Me].last THEN "end" ELSE IF procesos[Me].name = "Top" THEN "look" ELSE "draw")
  /\ UNCHANGED <<CurrentPID, nextPID, rings, display>>

\* Where a program returns to: Destroy(CurrentPID), then it spins until the tick.
\* dancing returns at once when it has no argument, with interrupts disabled.
Cleaner ==
  /\ run[Me].pc = "end" \/ In("dancing", "start")
  /\ run' = [run EXCEPT ![Me] = [Started EXCEPT !.pc = "dead"]]
  /\ procesos' = Destroy(Me)
  /\ rings' = [rings EXCEPT ![GetTTY] = EmptyAt(@)]
  /\ screen' = message
  /\ UNCHANGED <<CurrentPID, nextPID, keyboard>>

-----------------------------------------------------------------------------

\* SetupScheduler makes idle and an empty table, kmain one shell per terminal.
InitialProcess(i) ==
  IF i = Idle THEN [NewProcess("Idle", 0, 0, 0) EXCEPT !.priority = MAX_PRIORITY]
  ELSE IF i <= TERMS THEN NewProcess("Shell", i, i - 1, 0)
  ELSE [NewProcess("none", 0, 0, 0) EXCEPT !.free = TRUE]

\* kmain: the first terminal is shown.
GuiaInit ==
  /\ procesos = [i \in {Idle} \cup Proc |-> InitialProcess(i)]
  /\ run = [i \in {Idle} \cup Proc |->
              IF i = Idle THEN [Started EXCEPT !.pc = "kmain"] ELSE Started]
  /\ CurrentPID = 0 /\ nextPID = TERMS + 1
  /\ rings = [t \in Term |-> [buffer |-> [i \in 0 .. RING - 1 |-> [key |-> "CHAR", tags |-> {}]],
                              head |-> 0, tail |-> 0]]
  /\ terminal = [t \in Term |-> t]
  /\ backupTerm = SPARE
  /\ screen = [m \in Memory |-> "blank"]
  /\ CurrentTTY = 0 /\ tags = {} /\ presses = 0

ShellStep ==
  \/ ShellBegins \/ ShellFinds \/ ShellPuts \/ ShellPrompts
  \/ ShellStops \/ ShellTypes \/ ShellOther

ShellCommand ==
  \/ \E name \in {"Payaso", "Top", "dancing"}, isFront \in BOOLEAN : ShellRuns(name, isFront)
  \/ \E p \in {Idle} \cup Proc : kill(p)
  \/ \E p \in {Idle} \cup Proc, prior \in 0 .. MAX_PRIORITY : nice(p, prior)

ProgramStep ==
  \/ IdleStarts \/ Payaso \/ TopStarts \/ TopLooks \/ TopAdvances \/ TopDraws \/ Dances
  \/ Sleep \/ Cleaner

Interrupt ==
  \/ Tick
  \/ \E m \in Modifiers : Modifier(m)
  \/ \E t \in Term : AltFn(t)
  \/ \E key \in Keys : Press(key)

GuiaNext == ShellStep \/ ShellCommand \/ ProgramStep \/ Interrupt

GuiaSpec == GuiaInit /\ [][GuiaNext]_guiaVars

-----------------------------------------------------------------------------
(***************************************************************************)
(* Properties                                                              *)
(***************************************************************************)

\* Aging bounds the wait of GetNextTask: however the priorities are changed and the
\* others block and sleep, a process that can run is passed over a number of ticks that
\* the range of priorities and the size of the table bound.  The range counts once for each
\* of the others: while a process sleeps its age stands still and they grow old again.
BoundedWait ==
  \A i \in Proc : Eligible(procesos[i]) =>
    procesos[i].lastCalled <= (PROCS - 1) * (MAX_PRIORITY * PRIORITY_RATIO + 1)

\* No shell waits in vain: a process that CreateProcessAt blocked has a child alive,
\* whose Destroy, by Cleaner or by kill, will find it.
WaiterHasChild ==
  \A i \in Proc : ~procesos[i].free /\ procesos[i].blocked = 2 =>
    \E j \in Proc : ~procesos[j].free /\ procesos[j].parent = procesos[i].pid

\* Alt+Fn takes every screen with it: what each terminal holds is the same before and
\* after int_09 exchanges the memories, whatever the processes wrote in between.
SwitchKeepsScreens ==
  [][CurrentTTY' # CurrentTTY \/ backupTerm' # backupTerm =>
       \A t \in Term : screen'[terminal'[t]] = screen[terminal[t]]]_guiaVars

=============================================================================
