------------------------------ MODULE MCChinux ------------------------------
(***************************************************************************)
(* Chinux outside its scheduler, and the kernel of tpesoGuia it grew from, *)
(* for TLC.  One run explores seven parts of them, chosen at the start:    *)
(* files (with links and FIFOs), directories and users, the line of one    *)
(* terminal, the switching of terminals; in tpesoGuia, processes that read *)
(* the keyboard, the switching of screens, and changes of priority.        *)
(***************************************************************************)
EXTENDS ChFs, ChTerminal, TgKernel

CONSTANT Part

VARIABLE part

ab == <<"a", "b">>
cde == <<"c", "d", "e">>

MCName == {ab, cde}

\* The path typed as ".", "..", "ab", "/cde" and "ab/cde".
MCPath ==
  {[root |-> FALSE, parts |-> <<Dot>>], [root |-> FALSE, parts |-> <<DotDot>>],
   [root |-> FALSE, parts |-> <<ab>>], [root |-> TRUE, parts |-> <<cde>>],
   [root |-> FALSE, parts |-> <<ab, cde>>]}

MCInit == Init /\ TerminalInit /\ GuiaInit /\ part \in Part

Files ==
  \/ part = "files" /\ (FileCommand \/ log_opens \/ log_in)
  \/ part = "tree" /\ (TreeCommand \/ UserCommand)

\* In the second part, where there are several terminals, a line is of one character.
Terminals ==
  \/ part = "line" /\ (Key \/ Shell \/ LogIn \/ LogOut)
  \/ /\ part = "switch"
     /\ \/ terminals[currentTTY].size = 0 /\ KeyChar("a")
        \/ KeyEnter \/ AltKey \/ Shell \/ LogIn

\* Few keys in the first two parts, and one process that reads them: the keys that top
\* takes twice off a ring come back for ever.
Guia ==
  \/ part \in {"readers", "screens", "nice"} /\ (ShellStep \/ ProgramStep \/ Tick)
  \/ /\ part = "readers"
     /\ \/ \E isFront \in BOOLEAN : nextPID < MaxPID /\ ShellRuns("Top", isFront)
        \/ \E p \in {Idle} \cup Proc : kill(p)
        \/ \E key \in Keys \ {"BACKSPACE"} : presses < 3 /\ Press(key)
  \/ /\ part = "screens"
     /\ \/ \E isFront \in BOOLEAN : ShellRuns("Payaso", isFront)
        \/ \E m \in Modifiers : Modifier(m)
        \/ \E t \in Term : presses < 3 /\ AltFn(t)
        \/ \E key \in Keys : presses < 3 /\ Press(key)
  \/ /\ part = "nice"
     /\ \/ \E isFront \in BOOLEAN : ShellRuns("dancing", isFront)
        \/ \E p \in {Idle} \cup Proc, prior \in 0 .. MAX_PRIORITY : nice(p, prior)
        \/ \E key \in Keys \ {"BACKSPACE"} : Press(key)

MCNext == \/ Files /\ UNCHANGED <<terminalVars, guiaVars, part>>
          \/ Terminals /\ UNCHANGED <<vars, guiaVars, part>>
          \/ Guia /\ UNCHANGED <<vars, terminalVars, part>>

MCSpec == MCInit /\ [][MCNext]_<<vars, terminalVars, guiaVars, part>>

\* The tree with few commands, for a long way: users make directories in each other's
\* and remove one.
RemovalNext == /\ \/ \E n \in Name : makeDir(<<n>>) \/ makeDir(<<ab, n>>)
                  \/ rm(Here(ab))
                  \/ UserCommand
               /\ UNCHANGED <<terminalVars, guiaVars, part>>

RemovalSpec == MCInit /\ [][RemovalNext]_<<vars, terminalVars, guiaVars, part>>

=============================================================================
