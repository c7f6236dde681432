# TLA+ models of MTask, Chinux and tpesoGuia

The repository holds three operating systems of a course project:

* **MTask** (`src/mtask2`): a preemptive multitasking kernel for DOS. Tasks with
  priorities, task queues, timeouts, rendezvous messages, and on top of them
  semaphores, recursive mutexes, monitors, message queues and pipes.
* **Chinux** (`src/Chinux`): the students' 32-bit system. A timer-driven scheduler
  with aging, shells on several terminals, `kill`, `sleep`, semaphores, FIFOs and a
  small file system on an ATA disk.
* **tpesoGuia** (`src/tpesoGuia`): the kernel of an earlier project from which Chinux was
  grown. A process table with an aging scheduler, eight terminals switched with Alt+Fn, a
  shell with `kill` and `nice`, and a few programs.

What Chinux builds is listed in `src/Chinux/compila`: `scheduler2.c` and
`fileSystem/newFs.c` are the scheduler and the file system, their namesakes are not
compiled.

The development has TLA+ modules for the three systems, TLC configurations that check them
on small instances, and TLAPS proofs, for every value of the constants, of nearly every
safety property of MTask, of the processes, terminals and files of Chinux and of the
scheduler and screens of tpesoGuia. `PROJECT.json` maps each definition to the source lines it
stands for.

## 1. Inventory

### MTask

| component | state | operations | what makes it correct |
|---|---|---|---|
| task queues (`kernel/queue.c`) | doubly linked lists sorted by priority, most urgent at the tail; the time queue, with ticks relative to the entry before | enqueue, dequeue, take the last; the same for the time queue | order kept by any mix of operations, no task twice; relative ticks sum to the real delay |
| kernel (`kernel/kernel.c`) | task control blocks, ready, terminated and time queues, current task, slice, interrupt level | CreateTask, DeleteTask, Exit, Suspend, Pause, Ready, Yield, SetPriority, Delay, Atomic, Unatomic, WaitQueue, SignalQueue, FlushQueue, Send, Receive, clock interrupt | a task is in exactly the queues its state calls for; the most urgent ready task runs; blocking calls report what happened; timeouts fire; equals share the CPU |
| interrupts (`kernel/irq.c`, `hardvec.asm`) | nesting level | device interrupts, handlers that call the API, scheduler on the way out | no task switch inside a handler, none away from a non-preemptive task that the handler has not made ready by name |
| semaphores (`kernel/sem.c`) | count, task queue | WaitSem (timed or not), SignalSem, FlushSem | behaves as a counter: no event lost or counted twice |
| mutexes (`kernel/mutex.c`) | semaphore, owner, use count | EnterMutex (timed or not), LeaveMutex | exclusion, one token, ownership agrees with use |
| monitors (`kernel/monitor.c`) | semaphore, owner, condition queues | Enter, Leave, WaitCondition, SignalCondition, BroadcastCondition | one task inside, waiting gives the monitor up and gets it back |
| message queues, pipes (`kernel/msgqueue.c`, `pipe.c`) | ring buffer and semaphores or a monitor | Put, Get, timed or not | FIFO, nothing lost, transfers not mixed, nobody asleep over data |
| arithmetic and 386 context (`kernel/math.c`, `kernel.c`) | coprocessor or emulator, upper halves of the registers, a copy per task | ProtectMath, save and restore at a switch | a protected task computes as if alone |
| programs (`progs/`) | their own | philosophers, narrow road, producers and consumers, pmath | what `progs/read.me` says of them |

Everything above the kernel is called by tasks that the clock can preempt between any two
instructions that do not run with interrupts disabled or in non-preemptive mode. The
kernel's own functions run with interrupts disabled; they lose atomicity only where they
switch tasks in the middle (a blocking call, `DeleteTask` after its flush).

### Chinux

| component | state | operations | what makes it correct |
|---|---|---|---|
| processes and scheduler (`src/kernel.c`, `scheduler2.c`, `pisix.c`, stubs in `libasm.asm`) | the linked process list, current pid, time slot, `actualKilled`, per-process state, alarm, accumulator | create, end, block, awake, sleep, waitpid, kill, timer interrupt | one RUNNING process; a waiting shell has a live child; kill is complete; nobody starves; sleepers awake |
| shell (`src/shell.c`) | command line, history | read, run in front or in the background, kill, builtins | waits for its foreground command |
| keyboard and terminals (`src/keyboard.c`) | ring buffer per terminal, history of commands | characters, backspace, arrows, Enter, Ctrl-C, Alt+N | what is typed reaches the shell shown |
| semaphores, FIFOs (`src/kernel.c`) | tables | semget, up, down, create, read, write | exclusion, FIFO order |
| file system (`fileSystem/newFs.c`) | bitmaps, inodes, directories, descriptors on disk | create, write, read, link, remove, change directory | no block in two files, no used block free (both fail, and hold for files that were neither rewritten in place nor cut off by the end of the disk: section 4), directories form a tree, a file is found under its name (fails) |
| login (`src/kernel.c`) | the file of users, the user logged in | login, logout, create user | users change no entry of the administrators' files; that they remove nothing of them fails |
| ATA driver, video, stdio, malloc, timer tick | ports and memory | I/O | |

System calls come through `int 79h`; the interrupt flag decides what is atomic, and several
handlers set it again (`_Sti`) before they are done. That makes `kill`, which calls itself
through the interrupt for every child, the hardest function of the system.

### tpesoGuia

| component | state | operations | what makes it correct |
|---|---|---|---|
| processes and scheduler (`kernel.c`, `sched.c`) | table of 64 processes, current pid | create, destroy, sleep, kill, nice, timer interrupt | nobody starves; a shell that waits has a child alive |
| keyboard and screens (`kernel.c`, `output.c`) | a ring and a screen memory per terminal | keys, modifiers, Alt+Fn, reading keys, writing | switching loses no screen |
| programs (`shell.c`, `commands.c`, `process.c`, `top.c`) | their own | shell, payaso, top, dancing | |

### Hard behaviours

`PROJECT.json` lists them as hazards, each at its line. The main ones: a timeout and a
signal for the same task; relative times under removal from the middle; priority changes of
queued tasks; a sender arriving at a task that is being deleted; ownership assigned after
the semaphore operation; a condition that is stale when a woken task returns to the
monitor; transfers cut in parts; reports that lag behind the road; blocks freed after they
were written; a list walked by a kill while other processes link and unlink nodes; an alarm
that expires before its process has blocked; screens exchanged under the processes that
write to them.

## 2. Modules

| module | models | how |
|---|---|---|
| `MtQueues` | `kernel/queue.c` | operators on sequences; a list is the sequence from head to tail |
| `MtKernel` | `kernel/kernel.c`, `irq.c` | the variables are the C variables and the members of `Task_t`. Internal functions (`block`, `ready`, `mt_select_task`, `scheduler`, `clockint`) take and return a record `k` of them; each API function is an action |
| `MtSemAbs` | what a semaphore promises | the events counted, the tasks that wait, and the tasks granted an event that have not returned with it |
| `MtSem` | `kernel/sem.c` | over `MtQueues`; any ready task may run next, so every schedule of the kernel is covered |
| `MtMutex` | `kernel/mutex.c` | extends `MtSem`; Enter and Leave are split where another task can run |
| `MtMonitor` | `kernel/monitor.c` | extends `MtSem`; same splits; WaitCondition is one step because it runs in non-preemptive mode |
| `MtPhilosophers` | `progs/filo.c`, `progs/sfilo.c` | the programs over `MtMonitor`, one action per stretch between monitor calls |
| `MtProgram` | what the programs below share | the program that runs, and semaphores as counters |
| `MtFifo` | what a buffer promises | a first-in first-out channel |
| `MtMsgQueue` | `kernel/msgqueue.c`, `progs/pmsgq.c` | the ring, with a step for each of wait, copy, advance, signal |
| `MtPipe` | `kernel/pipe.c`, `progs/ppipe.c` | a step for each stay in the monitor |
| `MtRoad` | `progs/CAMINO.C`, `progs/CAMINO1.C` | a position and a program point per car, the control with its counts, the mailbox or the rendezvous, the keyboard |
| `MtProdCons` | `progs/PRCONS*.C`, `pmon.c` | the ring of cells, producer, consumer and keys |
| `MtMath` | `kernel/math.c`, the switch in `kernel.c`, `progs/pmath.c` | what the unit holds is the task and the operation that left it there |
| `ChProcess` | Chinux processes | the list with its links, the CPU's interrupt flag, a program point per process, and the stack of kill calls in progress on each process |
| `ChFs` | `fileSystem/newFs.c`, the users in `src/kernel.c` | a record `fs`; a command runs with interrupts disabled and is one action, its calls are operators on `fs` |
| `ChTerminal` | `src/keyboard.c`, reading in `stdio.c`, `shell.c`, `kernel.c` | the ring of each terminal, shells and login cut where they block |
| `TgKernel` | tpesoGuia | a step is a stretch of code between two points where an interrupt can come |
| `MC...` | | constants for TLC; `MCKernelCalls`, `MCMutex`, `MCPrograms` and `MCChinux` hold several specifications, one of which is chosen at the start of a behaviour |
| `MtQueuesProofs`, `MtSemProofs`, `MtMutexProofs`, `MtKernelProofs` | | theorems about the kernel and what is built into it |
| `MtPhilosophersProofs` | | theorems about monitors and philosophers |
| `MtProgramsProofs` | | theorems about message queues and pipes and the other programs |
| `ChProcessProofs` | | theorems about `ChProcess` |
| `ChinuxProofs` | | theorems about `ChFs`, `ChTerminal` and `TgKernel` |

Points where the correspondence needs a word:

* **`MtKernel`, blocking.** A task that blocks keeps a `call` point; when it gets the CPU
  back, still with interrupts disabled, `Return` reads its outcome. `DeleteTask` has two
  halves because `FlushQueue` may switch tasks. `served` and `left` are histories used by
  properties only.
* **`MtKernel`, programs.** The program is any sequence of the calls in the constant
  `Calls`. It names tasks that exist, and does not send to or delete again a task that
  another task is deleting: the kernel does not defend itself against either. `SendWaits` is
  the code without that condition, `SendBlock` adds it.
* **`MtKernel`, time.** `clockint` wakes an entry on the interrupt that *finds* zero and
  decrements afterwards, so a task in the queue with `n` ticks wakes at interrupt `n + 1`.
  `TimeExact` says that the ticks in front of a task are the interrupts it lets pass.
  `Time_t` has `TIME_MOD` values and `msecs_to_ticks` wraps.
* **`MtSem`.** A wait may end by a timeout or by `Ready` from elsewhere (`GiveUp`). A task
  that has been granted an event is not suspended: `Suspend` and `Ready` before it runs would
  store failure over the success (`kernel.c:169`), and the event would be lost.
* **Semaphores, mutexes and monitors in the programs.** `MtProgram` uses the counter that
  `MtSem` is proved to implement, a mutex is its semaphore of count 1 (`MutexOneToken`), and
  what a task does in a monitor up to its next wait is one step (`OneInside`). `WaitSem(s, n)`
  of the `PRCONS` programs, an older interface that `sem.c` no longer has, is taken from its
  use.
* **`MtRoad`, time.** A car pauses between moves. `Tick` lets time pass when nobody has
  anything to do (`Quiet`): the work of a tick takes less than a tick. The control of
  `camino1` that spins in `close_barrier` does not count as work.
* **`MtMath`.** Any task may get the CPU at any time. Machines with and without coprocessor
  and upper registers, and both data models, are initial states.
* **`ChProcess`.** Starts when a user has logged in and all shells wait for a line.
  Stack frames, malloc (nothing is freed), login and logout are left out. A process that
  has ended executes undefined memory until the tick; the model lets it wait. A shell
  that starts a foreground command links it and blocks in one step, so `Switch` takes the
  list to choose from as an argument: the new command can get the CPU at that very switch.
* **`ChFs`.** A name is a sequence of characters because entries are overwritten without the
  end of the string; the contents of a file are its size, and the users for the file of
  users. The loops over the components of a path, the children of a directory and the blocks
  of `bytefile` are functions of the turns done (`Walk`, `Made`, `RemoveChildren`, `Written`);
  `recursive_remove` is a function of the calls still allowed inside each other (`Removal`),
  as many as there are inodes. `weak` marks the inodes that were rewritten in place or found no room. The model
  stops (`Intact`) when two inodes share blocks, a directory has no blocks on the disk or the
  current inode is no directory: what follows would read one thing as another. The state in
  which that happens is still reached, and is what `files_blocks` finds. Not
  modelled: links to a missing file or over an existing name (a NULL pointer), writing to a
  directory or a FIFO, `cd` into a link.
* **`ChTerminal`.** `first_char` may be past the end of the ring after a clear
  (`actual_char + 1 % BUFFER_SIZE`), and is in the model. A shell runs with interrupts
  disabled from reading its line to clearing a terminal, except where `kill` enables them
  (`ShellKills`) and where it waits. One Alt+N at a time is pending on
  a stack, and a second logout is not given while one is in progress.
* **`TgKernel`.** `int8()` returns at once: the word stands alone on its line of
  `libasm.asm`, and the assembler takes it for a label. A process that gives up the CPU thus
  goes on until the next tick. Steps end where interrupts are enabled and a pointer or an
  index has been read. Not modelled: what follows a full table (`CreateProcessAt` then writes
  past it) or a shell that kills itself and starts another process (`RoomForProcess`); `kill`
  of a pid that does not exist (a NULL pointer). Locals that are not initialised are zero.

## 3. Runs

| run | instance | shows |
|---|---|---|
| `kernel_calls` | main, null and two created tasks, two priorities, one queue, device interrupts | `QueueDiscipline`, `QueuesSorted`, `CpuByRight`, `AtomicKeepsCpu` under creation, deletion, suspension, priority changes, waits and atomic sections; `SendersHaveReceiver`, `NoMissedRendezvous`, `NoFalseSuccess` with messages, timeouts and deletion |
| `kernel_fair` | one priority, device interrupts, fairness | `TimeExact`, `SignalledSucceeds`, `TimeoutFires`, `ReadyRuns` |
| `mutex` | three tasks, two semaphores used in any way, or two mutexes, nesting 2 | `IsCountingSemaphore` (refinement of `MtSemAbs`, in which nobody waits while an event is counted), `MutualExclusion`, `MutexOneToken` |
| `programs` | three cars on a road of seven cells; two readers and two writers on a buffer of two; a ring of three cells; three tasks that compute; four philosophers of `sfilo` | roads: `OneDirection`, `NobodyForgotten`, `BoundedOvertaking`, `NoKeyForgotten`; buffers: `IsFifo` (refinement of `MtFifo`), `AtomicTransfers`, `NoneAsleepOverData`; producers: `CellsUsedOnce`, `NeverStuck`; arithmetic: `ContextKept`; philosophers: `OneInside`, `ForksExclusive`, `NoneForgotten`; no deadlock |
| `process_kill` | one shell, four pids | `OneRunning`, `WaitsForLiveChild`, `KillIsComplete` with children and kills of any pid |
| `process_fair` | two shells, a command, unequal priorities, Ctrl-C, sleep | `OneRunning`, `NoStarvation` |
| `chinux` | a disk of 12 blocks; two terminals; tpesoGuia with four processes and two terminals | files: `BlocksOwned`, `TreeSound`, `ProtectedKept`; lines: `LineIntact`; tpesoGuia: `BoundedWait`, `WaiterHasChild`, `SwitchKeepsScreens` |
| `filo` | three philosophers, violation | two neighbours eat with the same fork |
| `camino1` | as `programs`, violation | the control and a car wait for each other |
| `files` | a directory with room, violation | a file is not found under its name |
| `files_blocks` | as `files`, violation | a file rewritten in place has freed its blocks, and another gets them (`OwnBlocks`) |
| `tree_removal` | few commands, ten inodes, violation | a user unlinks the directory that holds one of the administrators (`ProtectedReachable`) |

**Bounds.** Two created tasks besides main give every pair of roles (signaller and waiter,
sender and receiver, deleter and deleted) with a third to preempt them, and queues of three.
Timeouts are one finite value that is two ticks, and for ever; two tasks blocked at
different moments already have different remaining times. `QUANTUM` is 2 in the fair run,
where slices matter, so a slice can be full, partly used and spent. `TIME_MOD` is
1024 instead of 2^32 and `UINT_MOD` 5 instead of 2^16: no value of the instance reaches the
wrap, and `SignalBounded` is the bound that keeps a semaphore below it. Nested interrupts go
one deep: the only thing the level decides is whether it is zero. The created tasks are
interchangeable in the safety run of the kernel, hence `SYMMETRY Created`; the fair run uses
none. Four philosophers are the least in which two that are not neighbours eat together and
leave one waiting between them.

Of three cars two go one way and one the other, the least for one to overtake; `pass_max` is
1; the road has each place the programs distinguish. Buffers of two and transfers of up to
three bytes make every write wait in the middle and the ring wrap. A ring of three cells with
two produced and three consumed at a time is the case in which `PRCONS` and `PRCONS1` stop.

Four pids in Chinux are a shell, its command, a child and one more. In the process runs that
do not study time, slot and sleep are shortened. The disk has the header, the directories
and files of a fresh system and a few blocks to run out of; a directory has seven entries
instead of 96, two more than a fresh root uses; blocks are two bytes and texts one or four,
so that a file is rewritten in place or moved. `BUFFER_SIZE` 2 makes every ring wrap and fill
up, `STO_MAX` 2 the history, and `MaxFirst` leaves `first_char` two rounds; where terminals
are switched a line is of one character (the lines themselves are studied in a part of their
own). Four processes
of tpesoGuia are two shells and two commands; `RING` 3, `LINE` 1, `MaxPresses` (three in two
parts) and `MaxPID` bound the rest: top takes keys twice off the ring, and without a bound
they would come back for ever. The parts of `MCChinux` and `MCPrograms` share no state in the
model, so checking them one at a time loses nothing inside a part; the calls that cross
(a command of the shell, login) are in each part as far as it needs them.

**Deadlock** is checked in every run but those of the parts of `MCChinux` (`chinux`, `files`,
`files_blocks`, `tree_removal`): the file system stops where `Intact` does, and a user may
make login impossible by removing the file of users. In `MCPrograms` the programs that may
end or stop are named (`MayStop`): roads, when the last car has left and no key is to come,
PRCONS and PRCONS1 (`NeverStuck` says which programs do not) and pmath.

**Fairness.** `MtKernel!Fairness`: the interrupt controller latches the clock's request, so
a clock interrupt that can be taken again and again is taken; kernel code with interrupts
disabled reaches the point that enables them; handlers end. Nothing is assumed of programs:
`ReadyRuns` holds although a task may compute for ever, because the slice ends, and it is
checked where all tasks have the same priority, since a fixed-priority kernel starves the
less urgent by design. `ChProcess!FairSpec` is the same: strong fairness of the timer, and
interrupts that are enabled again and again. `NoStarvation` needs no equal priorities: it
is the point of aging. In tpesoGuia aging is stated as a bound (`BoundedWait`), which needs
no fairness.

## 4. Disagreements found

* **`filo`.** `filo.c` tests `forks_avail` with `if` before `WaitCondition`. A neighbour
  already queued on the monitor enters before the woken philosopher and takes the fork they
  share. `sfilo.c` tests in a loop and passes; `read.me:120` says that both programs show
  the same behaviour.
* **`camino1`.** The control decides to close a barrier while a car stands in its cell. The
  car is in `Send`, to report that it is there, and leaves the cell afterwards;
  `close_barrier` yields until the cell is empty and only then does the control receive.
  The traffic stops for ever, though `read.me:28` presents `camino1` as the version in which
  nobody waits for ever.
* **`files`.** `memcpy(dr[i].name, name, str_len(name))` leaves the tail of the name that the
  entry had before, of which `rmDir` clears two characters. After `touch cde`, `rm cde`,
  `touch ab`, the new file is called `abe`. The same property fails in a full directory,
  where `insert_file_entry` finds no free entry and `touch` reports success all the same.
* **`files_blocks`.** `write_inode` frees the blocks the inode had before (`newFs.c:908`). A
  text that fits the file's blocks is written in place: the blocks that are freed are those
  the file keeps, and the next file gets them.
* **`tree_removal`.** `recursive_remove` returns what became of its last child. A user's
  directory with one of the administrators in it, which is refused, and then one of the user
  is taken for empty and unlinked (`newFs.c:862`): the entry of the administrators' directory
  is still there, as `ProtectedKept` says, and nobody finds it any more.
Also met while modelling, and outside what the properties or the instances say: a task that
sends to another between the halves of `DeleteTask` on it, when the senders have been let go
but the task is still there, stays in the send queue of a task that is then freed
(`mtask2/kernel/kernel.c:268`); `search_free_blocks` takes the last run of free blocks for
long enough when the end of the bitmap is what ends it, so that a file may lie past the end of
the disk (`newFs.c:243`); the shell clears `currentTTY`, the terminal that is shown when the
command is over, and not the one it read, so that Alt+N while a command runs, or while `kill`
has enabled interrupts, leaves the line in its terminal, to be read again (`shell.c:375`);
`sleep` sets the alarm and blocks in two steps, and a process that is preempted between them
and stays so until the alarm has run out blocks for ever, but aging lets others have the CPU
that long only when they are a dozen or more (`Chinux/src/kernel.c:666`); a task that is
signalled, suspended and made ready again before it runs reports failure (`kernel.c:169`);
Ctrl-C on a process with a child, with a tick in the middle of the recursive kill, leaves
the killer linked and RUNNING (`Chinux/src/kernel.c:443`); `createusr` compares the new name
together with the blank that follows it, so that it never finds a user who exists, and
leaves a descriptor open when the list is full (`kernel.c:757`); a directory made on a
full disk is stored at block -1 (`newFs.c:357`); top and a shell of the same terminal may
both take a key (`tpesoGuia/output.c:220`).

## 5. Proofs

For every value of the constants, under the assumptions (`ASSUME`) of the modules that
declare them, which TLC evaluates on the instances. They say what the source fixes: sizes
are positive, priorities and initial counts are in range, the tasks are finitely many, the
null task is a task.

**Queues** (`MtQueuesProofs`). `mt_enqueue`, `mt_dequeue` and `mt_getlast` keep a queue
sorted and free of duplicates and change its members as they should. The argument goes
through the insertion point: it exists (`LeastNat`), everything before it is less urgent,
everything from it on at least as urgent. For the time queue (`EnqueueTimeExact`,
`DequeueTimeExact`, `GetFirstTimeExact`, `TickExact`): whatever is inserted, taken from the
middle or taken from the front, the running sum of the relative ticks in front of every
other task stays what it was, and a tick takes one off each.

**Kernel** (`MtKernelProofs`). `KernelInvariant` is the inductive invariant `KInv`, for any
set of tasks and queues, any priorities and timeouts and any program that makes the calls of
`Calls`. From it follow all safety properties of the kernel runs. Its parts:

* `Struct`, `Placed`, `Sound`: a task is in the list that its back pointer names, exactly
  once, and its state calls for that list (`QueueDiscipline`, `QueuesSorted`);
* `Right`: the current task is at least as urgent as the ready ones (`CpuByRight`);
* `InCalls`, `Deletions`: a blocked task is inside the call its state belongs to, and a task
  that is being deleted has no senders queued once the flush is done. The second rests on
  the condition of `SendBlock` and is what makes `SendersHaveReceiver` inductive; without
  that condition it is false;
* `NoOrphans`, `Rendezvous`: both ends of a message see each other (`NoMissedRendezvous`);
* `Honest`: success is stored only for a task that is inside a blocking call and was served
  (`NoFalseSuccess` itself speaks only of the moment of return);
* `Exact`: the ticks in front of a task are the interrupts it still lets pass (`TimeExact`).

`SignalledSucceeds` needs the converse of `Honest` (`Answered`), which `Suspend` breaks
(`kernel.c:169`): `KernelSignals` is stated for programs whose `Calls` do not include it.
`KernelAtomic` is the action property `AtomicKeepsCpu`: a task that stays in atomic mode is
after each step still the current one, so that no later step, such as the end of an
interrupt, finds it ready and takes its CPU. The exceptions are its own acts (blocking,
`Yield`) and a handler's `Ready` on the task it interrupted (`kernel.c:411`), which does put
it back among the ready tasks and lets `EndInterrupt` choose another. The recursive
time queue and wake a whole queue are handled by showing that their run exists and carrying
the invariant along it, by induction over a set of naturals (`LeastNat`).

**Semaphores** (`MtSemProofs`). `SemSafety`: types, `NoLostWakeup` and `WaitersQueued`. Their
conjunction `IInv` is inductive and each needs the others: that a signal keeps
`NoLostWakeup` rests on the wait blocking only at zero, that a timeout finds its task in the
queue rests on `WaitersQueued`, and order and distinctness come from the queue theorems.
`SemImplementsCounting`: with the count, the tasks in the queue and the tasks that an event
was handed to mapped to `events`, `waiters` and `granted` of `MtSemAbs`, every step is a step
of the specification or a stutter. There an event that is signalled is counted, or granted to
one of the most urgent waiters when there is any; it leaves the count or the grant only with
the task that takes it, and only a flush drops what was counted. A step of `SignalSem` that
lost or doubled an event (H11, `sem.c:81`) would be none of these.

**Mutexes** (`MtMutexProofs`). `MutexSafety`: `MutualExclusion`, `OwnershipTracksUse` and
`OneToken`. Exclusion is not inductive: two tasks could both be past the semaphore. `MInv`
adds that exactly one of count, hand-over, half-done Enter or Leave, and ownership carries
the token.

**Monitors and philosophers** (`MtPhilosophersProofs`). `SfiloOneInside` and `FiloOneInside`:
the same token argument for the monitor (`MonInv`), where a signalled task carries no token
but queues for it again. `filo` uses the monitor as correctly as `sfilo`; its fault is in
what it does inside. `SfiloForks` and `SfiloNoneForgotten` hold for any number of
philosophers: `PhilInv` ties each fork count to the neighbours that eat, and each hungry
philosopher to the condition it sleeps on or the signal that is on its way.

**Message queues and pipes** (`MtProgramsProofs`). `BuffersAreFifo` is the refinement of
`MtFifo`, for every capacity and transfer size, with one user on each side or several and
mutexes. In a message queue every slot is free, full or in the hands of exactly one writer or
reader (`Counted`), and the slots from head to tail hold the channel (`RingHolds`). In a pipe
the ring holds the bytes (`PipeRing`), requests and what was moved of them add up
(`Requests`), and only one reader and one writer are in the middle of a transfer
(`PipeExclusive`), from which `TransfersAtomic`; `SleepersHaveReason` needs that a signal
empties the condition it wakes (`SignalEmpties`).

**Other programs** (`MtProgramsProofs`). `MathContextKept`: what the unit holds is that of
the task that runs or is saved in the right place, on each kind of machine (`RegsKept`,
`StackKept`, `UnitKept`). `CellsNeverLost` and `ProdConsNeverStuck`: free and full cells are
two arcs of the ring whose lengths the semaphores, and what each task has in hand, add up to
(`CellsCounted`); for `pmon` the sleepers have nothing to do (`SleepersIdle`). `nprod` is any
positive number, which is all that main asks of it; `NeverStuck` says nothing of a batch
larger than the buffer, whose producer waits for ever.

**Roads** (`MtProgramsProofs`), for any number of cars, any directions and any places of the
sensors and barriers in their order. `RoadOneDirection` rests on these parts of `RoadInv`:

* `Drawn`, `Apart`: a car is drawn on the cells it takes and shares none of them;
* `Counts`: what the control counts is the number of cars between two reports, up to the
  messages on the way (`Unhandled`);
* `Prompt`: in `camino` the message that a car comes near is handled before the car moves on,
  so a car past the barrier is always counted. `camino1` needs no such thing: its cars wait
  in Send;
* `InsideByState`, `BarrierByState`: a car past its barrier belongs to the side that has the
  turn, and only the barrier of that side is up;
* `LastOut`: a car reports at the second sensor before it has left the stretch. It is the wait
  of `Tick` that lets it leave before a car of the other side gets that far.

The hand-over is one step of the control of `camino`: with the last report of a side it closes
one barrier and opens the other (`NextSide`). That it leaves nobody behind (`NobodyForgotten`)
is only model-checked. `RoadKeys` follows from `KeysCounted`: the semaphore counts at least
the keys not read.
`RoadOvertaking` adds `Turns`: how often the first car at a barrier has been overtaken is
bounded by the cars that passed in this turn. It is stated for `pass_max > 0`: with the
argument 0 two cars may pass, since the control looks at its counts only when a message comes.
The proof also changed the property. It first spoke of every car that had reported; a car
behind the first may sit out several turns, so the bound is for the first car only.

**Processes of Chinux** (`ChProcessProofs`), for any number of shells and pids, any
priorities, slots and sleeps, and any `Features`. `ProcessWaits` states `WaitsForLiveChild`,
`ProcessKills` states `KillIsComplete`, `ProcessOneRunning` states `OneRunning` unless Ctrl-C may kill commands that have children,
the case of section 4 in which it is false. The first part of the module is about the list:
the links from `ready` on are a `Chain` without repetitions, which `ListFrom` reads
(`ListIs`), and linking and unlinking a node do to that sequence what they should
(`ChainLink`, `ChainUnlink`). The inductive invariant `IInv` is the conjunction of

* `ProcTyped`, `Listed`: types, and a list of pids that have been given out, with all shells;
* `Families`, `Waits`: pids not yet given out are nobody's children, and a waiting shell is
  blocked on its foreground child in the list (`WaitsForLiveChild`);
* `Unwatched`: no shell waits for a pid that some kill is working on. `kill_in_kernel`
  releases the parent before it looks at the children, with ticks possible in between and
  the process still linked; without this part the later unlink could take a child that a
  shell waits for;
* `Alone`, `Right`: the current process and no other is RUNNING (`OneRunning`). `Right` alone
  holds also where `Alone` does not;
* `CallsSound`: what is on the stacks of calls: whose they are, that an outer call stands at a
  node, and that the pid of a call that is over has left the list;
* `SelfKilled`, `DeadCurrent`: what `actualKilled` means. A process that kills itself is
  current, RUNNING and linked until its walk ends, with interrupts disabled unless it has
  children. This is what makes the scheduler's test of `actualKilled` (`scheduler2.c:61`)
  save nothing in a process that is gone, and what fails for `Alone` when the kill of a child
  enables interrupts in the middle.

A call of the kernel that switches inside (`block_process_in_kernel`, the tick) is one lemma
about `Switch` (`SwitchStep`): what aging and the alarms do to the table changes no state but
BLOCKED to READY (`Eased`), the chosen process is READY and in the list, and the old one is
not left RUNNING.

`KillIsComplete` says that the walk of a kill misses no child, although it goes on from a node
that the kill of the last child has unlinked, by the link that node kept, and although other
processes link and unlink nodes between. `KillInv` carries, beside `IInv`:

* `Ordered`: links go to larger pids and pass over no process of the list, also the links that
  unlinked nodes have kept. Such a link may lead to a node that is itself gone, and from there
  on to the list (`ListSteps`, `ListRises`, `ListReaches` follow a walk over any links);
* `Passed`: a node that was unlinked as the last of the list, whose kept link is NULL, hides
  nobody: no sibling that is in the list was created after it, except children of shells. A
  walk behind a killed child meets only siblings of it, and a command's children are all
  created before it runs, with interrupts disabled and nothing unlinked between (`Unborn`);
* `Walking`, `Searching`: on a stack of kills each call waits for the kill of the first of its
  process's children in the list, and a walk in search of the next has no child of the process
  behind it in the list. Searches are not interrupted; between a search and the return from the
  kill it called, the children in the list may only become fewer;
* `Ended`: a command that has not started is not marked as killed, so what creates children is
  in the list; `Gone`: what has been killed has a pid that is not used again.

**Terminals of Chinux** (`ChinuxProofs!TerminalLines`). The ring of a terminal holds its line
from `first_char` to `actual_char`, modulo `BUFFER_SIZE` (`Holds`), unless a shell has taken
it and not cleared it, which it may never do when terminals are switched. `first_char` is not
reduced, so the ring may be several rounds ahead; the lemmas on the remainder (`Rounds`) say what
one step up or down does. The arrow keys remove a line and put
a stored one character by character; these loops are followed with `Loop`.

**Files of Chinux** (`ChinuxProofs`), for any disk, any number of inodes, names, paths and
users. `FileSystemSound` is the inductive invariant `Sound`, from which `FileBlocksOwned`
(`BlocksOwned`) and `FileTreeSound` (`TreeSound`) follow. Its parts:

* `FileSystem`: types. That ".." leads to an inode, and not to nowhere, is needed for every
  path, and rests on `DirsSound`;
* `BlocksSound`: `BlocksOwned`, and the blocks of the header are in use. Without the second
  a run of free blocks (`FreeRunFree`) could begin in the header. `BlocksOwned` compares
  inodes that were neither rewritten in place nor cut off by the end of the disk with each
  other; for the others it is false, which `files_blocks` shows;
* `DirsSound`: a directory is an inode in use and keeps its first two entries, and what is not
  a directory has no entries. A new inode is thus one that has none and that no entry names,
  which is why it can get the row of a new directory (`CreatesSound`);
* `EntriesSound`: `TreeSound`, each entry by itself (`Names`): the inode of an entry has the
  type of the entry, is younger than the directory, so that there are no cycles, and has no
  other entry.

`BlocksSound` is about the inodes that are not weak, and a weak one may own blocks that are
marked free. What `write_inode` frees are the blocks of the inode it writes, and it may take
the inode off the weak ones: both are safe only if these blocks are nobody else's (`Apart`).
Every command starts with this for all inodes (`Intact`); a command that creates and then
writes, perhaps `CANT` times (`WrittenKeeps`), has it for the new inode, and keeps it
(`WriteSound`). A run that the end of the disk cuts off makes the inode weak; everything else
that `search_free_blocks` returns is free and behind the header.

`FileProtectedKept` (`ProtectedKept`) is proved with the invariant, command by command: one
either keeps every entry in use (`AllKept`), or clears entries none of which is refused
(`Cleared`). For `recursive_remove` the latter is an induction over the calls inside each
other (`RemovalClears`) and in each over the children (`ChildrenClear`). The loops are
followed with `LoopRuns`: a function defined by its own earlier values exists, and so is what
its definition says.

**tpesoGuia** (`ChinuxProofs`). `GuiaScreensKept`: the terminals and the spare have different
memories (`Screens`). `GuiaWaiters`: pids in the table are unique, and who ends a process
finds its parent by the pid. `GuiaWaitBounded`: at most `PROCS - m` processes are older than
`m - 1` rounds of the range of priorities (`AgesStepped`), since a process that is passed over
at that age loses to one that is at least nearly as old. The proof corrected the bound, which
first added `PROCS` to one round; this fails in larger instances, because the age of a process
that sleeps stands still while the others grow old again.

The theorems about programs are about the parts of `MCPrograms` and `MCChinux` by themselves
(`BufferSpec`, `MathSpec`, `ProdConsSpec`, `RoadSpec`, `TerminalSpec`, `GuiaSpec`, and `Spec`
of `ChFs`).

Only model-checked:

* `TimeoutFires`, `ReadyRuns` and `NoStarvation`: fairness is beyond the prover.
* `MutexOneToken`, which is `OneToken` of `MutexSafety` stated for the mutexes of `MCMutex`.
* `NobodyForgotten`.

`WaitersQueued`, `OwnershipTracksUse` and the type invariants of the other modules are parts
of what is proved and have no run of their own.

## 6. Not modelled

* DOS calls of MTask (`softint.c`): a software interrupt under a mutex; the effect is DOS's.
* In MTask, failures of memory allocation, `Panic` beyond the fact that it is reached, the
  80x86 stack switch, and installation and removal of the kernel.
* Semaphores and FIFOs of Chinux: `semget` and `mkfifo` pass the address of their pointer, the
  kernel writes over the caller's stack and the caller goes on with uninitialised memory
  (`pisix.c:71`, `88`). What the tests that use them do depends on what that memory holds.
* Port I/O, video, formatting, `malloc`, which never frees; the letters of commands.
* Sources that Chinux does not build.

## 7. Plan

1. `MtQueueLinks`: the pointers of `queue.c`, refining the sequences of `MtQueues`, and the
   proof of that refinement.
2. The contents of files, block by block, in `ChFs`: what two inodes that share blocks read
   and write.
