----------------------------- MODULE ChTerminal -----------------------------
(***************************************************************************)
(* The keyboard and the terminals of Chinux (keyboard.c, and kernel.c,     *)
(* shell.c and stdio.c where they use them): the ring in which each        *)
(* terminal keeps the line being typed, the history of commands, switching *)
(* terminals, and the shells and the login process that read the lines.    *)
(*                                                                         *)
(* A key is one step of int_09; the modifier keys are part of the choice   *)
(* of the key.  Alt+n is two steps: blocking the shell of the terminal     *)
(* yields the CPU in the middle of the handler.  A shell runs from _Cli()  *)
(* to the point where it blocks or to _Sti() in one step.  What a command  *)
(* does is left out, but for the time it takes.                            *)
(***************************************************************************)
EXTENDS Integers, Sequences

CONSTANTS
  Tty,          \* the terminals: 0 .. 3
  Char,         \* the characters of the keys
  BUFFER_SIZE,  \* of the ring of a terminal (256)
  STO_MAX,      \* commands of the history (100)
  MaxFirst      \* bound on first_char, which only a clear takes back

NoChar == "NUL"

ASSUME TerminalAssumption ==
  /\ 0 \in Tty /\ BUFFER_SIZE \in Nat \ {0} /\ STO_MAX \in Nat /\ STO_MAX > 1
  /\ MaxFirst >= 2 * BUFFER_SIZE

VARIABLES
  terminals,   \* the ring of each terminal: array, actual_char, first_char, size
  currentTTY,
  switches,    \* the Alt+n that have yielded: the terminal to go to and the shell interrupted
  session,     \* usrLoged, usrName and password, and what logUser and logout wait for
  shells,      \* each shell: where it is, ready or blocked, waiting for a command
  history,     \* storedComm, sto_i, sel_com, arrow_pressed
  line,        \* history: what has been typed on each terminal since it was cleared
  taken        \* history: the terminals whose line was read and not cleared since

terminalVars == <<terminals, currentTTY, switches, session, shells, history, line, taken>>

-----------------------------------------------------------------------------
(* The ring.                                                               *)

EmptyRing == [array |-> [i \in 0 .. BUFFER_SIZE - 1 |-> NoChar],
              actual_char |-> BUFFER_SIZE - 1, first_char |-> 0, size |-> 0]

addCharToBuff(b, c) ==
  LET at == (b.actual_char + 1) % BUFFER_SIZE
  IN  IF b.size < BUFFER_SIZE
      THEN [b EXCEPT !.array[at] = c, !.actual_char = at, !.size = @ + 1] ELSE b

\* Mutant: the end of the ring does not go back over its start.
deleteWithoutWrap(b) ==
  IF b.size = 0 THEN b
  ELSE [b EXCEPT !.actual_char = IF @ = 0 THEN 0 ELSE @ - 1, !.size = @ - 1]

deleteCharFromBuff(b) ==
  IF b.size = 0 THEN b
  ELSE [b EXCEPT !.actual_char = IF @ = 0 THEN BUFFER_SIZE - 1 ELSE @ - 1, !.size = @ - 1]

\* n characters deleted, and the characters of text added: the loops of the arrow keys.
Deleted(b, n) ==
  LET loop[i \in 0 .. n] == IF i = 0 THEN b ELSE deleteCharFromBuff(loop[i - 1]) IN loop[n]

Typed(b, text) ==
  LET loop[i \in 0 .. Len(text)] == IF i = 0 THEN b ELSE addCharToBuff(loop[i - 1], text[i])
  IN  loop[Len(text)]

\* actual_char + 1 % BUFFER_SIZE: first_char may be BUFFER_SIZE.
clearTerminalBuffer(b) == [b EXCEPT !.first_char = b.actual_char + 1, !.size = 0]

\* The characters readKeyboard takes from the ring for the count scanf gives it, the
\* size of the line: it stops after the last character, if first_char has not run
\* over the end of the ring.
Reading(b) ==
  LET over(k) == /\ \/ b.actual_char = b.first_char + k - 1
                    \/ b.actual_char = BUFFER_SIZE - 1 /\ b.first_char + k = 0
                 /\ k > 0 \/ b.size < BUFFER_SIZE
  IN  CHOOSE n \in 0 .. b.size : /\ n = b.size \/ over(n)
                                 /\ \A k \in 0 .. n - 1 : ~over(k)

readKeyboard(b) == [b EXCEPT !.first_char = @ + Reading(b)]

Unread(b, n) == [i \in 1 .. n |-> b.array[(b.first_char + i - 1) % BUFFER_SIZE]]

\* What scanf leaves in buffcopy, a string.
scanf(b) ==
  LET s == Unread(b, Reading(b))
      cut == CHOOSE n \in 0 .. Len(s) : /\ n = Len(s) \/ s[n + 1] = NoChar
                                        /\ \A i \in 1 .. n : s[i] # NoChar
  IN  SubSeq(s, 1, cut)

-----------------------------------------------------------------------------
(* The processes that read the lines.                                      *)

awake_process(p) == IF p.waiting THEN p ELSE [p EXCEPT !.ready = TRUE]
block_process(p) == [p EXCEPT !.ready = FALSE]

NewShell == [at |-> "start", ready |-> TRUE, waiting |-> FALSE]
Absent == [at |-> "none", ready |-> FALSE, waiting |-> FALSE]

LoggedIn == session.at \in {"in", "leaving"}

TerminalInit ==
  /\ terminals = [t \in Tty |-> EmptyRing]
  /\ currentTTY = 0
  /\ switches = {}
  /\ session = [at |-> "start", ready |-> TRUE]
  /\ shells = [t \in Tty |-> Absent]
  /\ history = [storedComm |-> [i \in 0 .. STO_MAX - 1 |-> <<>>], sto_i |-> STO_MAX - 1,
                sel_com |-> STO_MAX - 1, arrow_pressed |-> FALSE]
  /\ line = [t \in Tty |-> <<>>]
  /\ taken = {}

\* The line of terminal t is cleared.
Clears(t) ==
  /\ terminals' = [terminals EXCEPT ![t] = clearTerminalBuffer(@)]
  /\ line' = [line EXCEPT ![t] = <<>>]
  /\ taken' = taken \ {t}

\* The line of the current terminal becomes text, and its ring b.
Shows(b, text) ==
  /\ terminals' = [terminals EXCEPT ![currentTTY] = b]
  /\ line' = [line EXCEPT ![currentTTY] = text]
  /\ UNCHANGED taken

-----------------------------------------------------------------------------
(* The keys.                                                               *)

KeyChar(c) ==
  /\ Shows(addCharToBuff(terminals[currentTTY], c),
           IF Len(line[currentTTY]) < BUFFER_SIZE
           THEN Append(line[currentTTY], c) ELSE line[currentTTY])
  /\ UNCHANGED <<currentTTY, switches, session, shells, history>>

Backspace ==
  /\ terminals[currentTTY].size # 0
  /\ Shows(deleteCharFromBuff(terminals[currentTTY]),
           SubSeq(line[currentTTY], 1, Len(line[currentTTY]) - 1))
  /\ UNCHANGED <<currentTTY, switches, session, shells, history>>

\* Enter awakes logUser while it waits for a line, else the shell of the terminal; a
\* shell that was killed is not found and the idle process is awoken in its place.
KeyEnter ==
  /\ IF session.at \in {"name", "password"}
     THEN session' = [session EXCEPT !.ready = TRUE] /\ UNCHANGED shells
     ELSE /\ shells' = IF shells[currentTTY].at = "none" THEN shells
                       ELSE [shells EXCEPT ![currentTTY] = awake_process(@)]
          /\ UNCHANGED session
  /\ UNCHANGED <<terminals, currentTTY, switches, history, line, taken>>

Pressed == [history EXCEPT !.arrow_pressed = TRUE]

\* The up arrow: the line gives way to the command before the selected one.  The
\* characters of the selected command are deleted first and then all that remain, so
\* that storedComm[STO_MAX], which may be read for their number, does not matter.
showLastCommand ==
  /\ IF history.sel_com > 0 /\ LoggedIn
     THEN LET text == history.storedComm[history.sel_com - 1]
          IN  /\ history' = [Pressed EXCEPT !.sel_com = @ - 1]
              /\ Shows(Typed(Deleted(terminals[currentTTY], terminals[currentTTY].size), text),
                       text)
     ELSE history' = Pressed /\ UNCHANGED <<terminals, line, taken>>
  /\ UNCHANGED <<currentTTY, switches, session, shells>>

\* The down arrow: only after another arrow key is the line deleted first.
showPreviousCommand ==
  LET next == history.sel_com + 1
      text == IF next < STO_MAX THEN history.storedComm[next] ELSE <<>>
      b == terminals[currentTTY]
      before == IF history.arrow_pressed THEN Deleted(b, b.size) ELSE b
      kept == IF history.arrow_pressed THEN <<>> ELSE line[currentTTY]
      room == BUFFER_SIZE - Len(kept)
  IN
  /\ IF history.sel_com < history.sto_i + 1 /\ LoggedIn
     THEN /\ history' = [Pressed EXCEPT !.sel_com = next]
          /\ Shows(Typed(before, text),
                   kept \o SubSeq(text, 1, IF Len(text) < room THEN Len(text) ELSE room))
     ELSE history' = Pressed /\ UNCHANGED <<terminals, line, taken>>
  /\ UNCHANGED <<currentTTY, switches, session, shells>>

\* Interrupts are enabled at the top of the loop of a shell, and where kill enables them
\* although its caller had disabled them.
ShellInterruptible(t) == shells[t].at \in {"loop", "kill"} /\ shells[t].ready

\* Alt+n, up to the yield in block_process; the interrupt came while shell `on' ran, or
\* another process.
SwitchBegins(n, on) ==
  /\ LoggedIn /\ switches = {}
  /\ on \in Tty => ShellInterruptible(on)
  /\ shells' = [shells EXCEPT ![currentTTY] = block_process(@)]
  /\ switches' = {[to |-> n, on |-> on]}
  /\ UNCHANGED <<terminals, currentTTY, session, history, line, taken>>

\* The rest, once the interrupted process runs again.
SwitchEnds ==
  \E s \in switches :
    /\ s.on \in Tty => ShellInterruptible(s.on)
    /\ currentTTY' = s.to
    /\ shells' = IF terminals[s.to].size = 0 /\ shells[s.to].at # "none"
                 THEN [shells EXCEPT ![s.to] = awake_process(@)] ELSE shells
    /\ switches' = switches \ {s}
    /\ UNCHANGED <<terminals, session, history, line, taken>>

-----------------------------------------------------------------------------
(* The shells.  A shell on whose stack an Alt+n has yielded ends it first.  *)

Runs(t, at) ==
  /\ shells[t].at = at /\ shells[t].ready
  /\ \A s \in switches : s.on # t

ShellStarts(t) ==
  /\ Runs(t, "start")
  /\ shells' = [shells EXCEPT ![t].at = "loop", ![t].ready = t = currentTTY]
  /\ UNCHANGED <<terminals, currentTTY, switches, session, history, line, taken>>

\* read_command finds no line on the terminal that is shown.
ShellBlocks(t) ==
  /\ Runs(t, "loop") /\ terminals[currentTTY].size = 0
  /\ shells' = [shells EXCEPT ![t] = block_process(@)]
  /\ UNCHANGED <<terminals, currentTTY, switches, session, history, line, taken>>

saveCommand(text) ==
  LET at == IF history.sto_i = STO_MAX - 1 THEN 0 ELSE history.sto_i + 1
  IN  history' = IF text = <<>> THEN history
                 ELSE [history EXCEPT !.sto_i = at, !.sel_com = at + 1, !.storedComm[at] = text]

\* parseBuffer: the line of the terminal that is shown is read and saved.
ShellReads(t) ==
  /\ Runs(t, "loop") /\ terminals[currentTTY].size # 0
  /\ terminals[currentTTY].first_char + BUFFER_SIZE <= MaxFirst
  /\ saveCommand(scanf(terminals[currentTTY]))

\* A command the shell runs itself, starts in the background or does not know; the
\* terminal that is shown is cleared.
ShellRunsCommand(t) ==
  /\ ShellReads(t)
  /\ LET read == [terminals EXCEPT ![currentTTY] = readKeyboard(@)]
     IN  terminals' = [read EXCEPT ![currentTTY] = clearTerminalBuffer(@)]
  /\ line' = [line EXCEPT ![currentTTY] = <<>>]
  /\ taken' = taken \ {currentTTY}
  /\ UNCHANGED <<currentTTY, switches, session, shells>>

\* The command kill, up to where it enables interrupts: other keys, processes and shells
\* come before the shell has cleared a terminal (kill_in_kernel).
ShellKills(t) ==
  /\ ShellReads(t) /\ scanf(terminals[currentTTY]) # <<>>
  /\ terminals' = [terminals EXCEPT ![currentTTY] = readKeyboard(@)]
  /\ taken' = taken \cup {currentTTY}
  /\ shells' = [shells EXCEPT ![t].at = "kill"]
  /\ UNCHANGED <<currentTTY, switches, session, line>>

\* A command in the foreground: the shell waits for it.
ShellWaits(t) ==
  /\ ShellReads(t) /\ scanf(terminals[currentTTY]) # <<>>
  /\ terminals' = [terminals EXCEPT ![currentTTY] = readKeyboard(@)]
  /\ taken' = taken \cup {currentTTY}
  /\ shells' = [shells EXCEPT ![t] = [at |-> "after", ready |-> FALSE, waiting |-> TRUE]]
  /\ UNCHANGED <<currentTTY, switches, session, line>>

\* The command logout: every line is cleared and the shell waits for the process
\* logout.  A second logout before that process has run is left out.
ShellLogsOut(t) ==
  /\ ShellReads(t) /\ scanf(terminals[currentTTY]) # <<>> /\ session.at = "in"
  /\ terminals' = [u \in Tty |->
                     clearTerminalBuffer(IF u = currentTTY THEN readKeyboard(terminals[u])
                                         ELSE terminals[u])]
  /\ line' = [u \in Tty |-> <<>>]
  /\ taken' = {}
  /\ shells' = [shells EXCEPT ![t] = [at |-> "after", ready |-> FALSE, waiting |-> TRUE]]
  /\ session' = [session EXCEPT !.at = "leaving", !.ready = TRUE]
  /\ UNCHANGED <<currentTTY, switches>>

\* The command in the foreground ends or is killed.
CommandEnds(t) ==
  /\ shells[t].waiting
  /\ shells' = [shells EXCEPT ![t].waiting = FALSE, ![t].ready = TRUE]
  /\ UNCHANGED <<terminals, currentTTY, switches, session, history, line, taken>>

\* The shell goes on after waitpid or kill and clears the terminal that is shown.
ShellGoesOn(t) ==
  /\ Runs(t, "after") \/ Runs(t, "kill")
  /\ Clears(currentTTY)
  /\ shells' = [shells EXCEPT ![t].at = "loop"]
  /\ UNCHANGED <<currentTTY, switches, session, history>>

-----------------------------------------------------------------------------
(* Logging in and out.                                                     *)

\* The process logout: the shells are killed and logUser is created.  An Alt+n on the
\* stack of a shell dies with it.
logout_process ==
  /\ session.at = "leaving"
  /\ session' = [at |-> "start", ready |-> TRUE]
  /\ shells' = [t \in Tty |-> Absent]
  /\ switches' = {s \in switches : s.on \notin Tty}
  /\ UNCHANGED <<terminals, currentTTY, history, line, taken>>

\* logUser asks for the name.
logUser ==
  /\ session.at = "start"
  /\ session' = [at |-> "name", ready |-> FALSE]
  /\ UNCHANGED <<terminals, currentTTY, switches, shells, history, line, taken>>

\* logUser reads a line: a name that is known or not, a password that is right or not.
LogReads(next) ==
  /\ session.at \in {"name", "password"} /\ session.ready
  /\ next = "password" => session.at = "name"
  /\ next = "in" => session.at = "password"
  /\ LET read == [terminals EXCEPT ![currentTTY] = readKeyboard(@)]
     IN  terminals' = [read EXCEPT ![currentTTY] = clearTerminalBuffer(@)]
  /\ line' = [line EXCEPT ![currentTTY] = <<>>]
  /\ taken' = taken \ {currentTTY}
  /\ session' = [at |-> next, ready |-> next = "in"]
  /\ shells' = IF next = "in" THEN [t \in Tty |-> NewShell] ELSE shells
  /\ UNCHANGED <<currentTTY, switches, history>>

Key ==
  \/ \E c \in Char : KeyChar(c)
  \/ Backspace
  \/ KeyEnter
  \/ showLastCommand
  \/ showPreviousCommand

AltKey == SwitchEnds \/ \E n \in Tty, on \in Tty \cup {-1} : SwitchBegins(n, on)

Shell ==
  \E t \in Tty : \/ ShellStarts(t)
                 \/ ShellBlocks(t)
                 \/ ShellRunsCommand(t)
                 \/ ShellKills(t)
                 \/ ShellWaits(t)
                 \/ CommandEnds(t)
                 \/ ShellGoesOn(t)

LogIn == logUser \/ \E next \in {"name", "password", "in"} : LogReads(next)

LogOut == logout_process \/ \E t \in Tty : ShellLogsOut(t)

TerminalNext == Key \/ AltKey \/ Shell \/ LogIn \/ LogOut

TerminalSpec == TerminalInit /\ [][TerminalNext]_terminalVars

-----------------------------------------------------------------------------
\* What a reader finds in the ring of a terminal is what was typed on it and not
\* deleted since it was last cleared, however the ring has wrapped, whichever shell
\* cleared it and whatever the arrow keys put there (readKeyboard, addCharToBuff,
\* clearTerminalBuffer_in_kernel).  It says nothing of a terminal whose line a shell has
\* taken and not cleared yet, or never clears because another terminal was shown when
\* its command ended.
LineIntact ==
  \A t \in Tty \ taken : Unread(terminals[t], terminals[t].size) = line[t]

=============================================================================
