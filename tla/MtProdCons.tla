----------------------------- MODULE MtProdCons -----------------------------
(***************************************************************************)
(* The producer-consumer programs of MTask: progs/PRCONS.C, PRCONS1.C and  *)
(* PRCONS2.C over semaphores, progs/pmon.c over a monitor.                 *)
(*                                                                         *)
(* prcons:  a producer of nprod items every TPROD, a consumer of ncons     *)
(*          items at each key, which polls the keyboard.                   *)
(* prcons1: the consumer waits for the keyboard interrupt (semaphore kbd). *)
(* prcons2: and takes its items one by one.                                *)
(* pmon:    one item, one monitor and one condition for both tasks.        *)
(*                                                                         *)
(* WaitSem(s, n) of the older semaphores, whose source is not kept here,   *)
(* takes n events at once when there are so many (external).               *)
(***************************************************************************)
EXTENDS MtProgram

CONSTANTS
  BUF_SIZE,
  nprod, ncons,   \* the arguments of the program
  MaxTyped        \* bound on the keys typed ahead

ASSUME ProdConsAssumption ==
  /\ BUF_SIZE \in Nat \ {0}
  /\ nprod \in Nat \ {0} /\ ncons \in Nat \ {0}

VARIABLES
  buffer,    \* the cells, and the positions head and tail
  producer,  \* what the producer does
  consumer,  \* what the consumer does, and the items it has still to take
  typed      \* keys in the BIOS buffer (key of pmon is the one cell of buffer)

prodConsVars == <<buffer, producer, consumer, typed>>

Prcons == {"prcons", "prcons1", "prcons2"}
Cell == 0 .. BUF_SIZE - 1

ProdConsInit ==
  /\ buffer = [cell |-> [i \in Cell |-> "EMPTY"], head |-> 0, tail |-> 0, wrong |-> FALSE]
  /\ producer = "wait"
  /\ consumer = [in |-> IF program = "prcons" THEN "key" ELSE "kbd", left |-> 0]
  /\ typed = 0

ProdConsSems == [s \in {"buf_free", "buf_used", "kbd"} |-> IF s = "buf_free" THEN BUF_SIZE ELSE 0]

WaitSemN(s, n) == events[s] >= n /\ events' = [events EXCEPT ![s] = @ - n]

SignalSemN(s, n) == events' = [events EXCEPT ![s] = @ + n]

\* The cells from a position on, n of them.
Cells(p, n) == {(p + i) % BUF_SIZE : i \in 0 .. n - 1}

put_buffer(n) ==
  buffer' = [buffer EXCEPT !.cell = [i \in Cell |-> IF i \in Cells(buffer.tail, n) THEN "FULL" ELSE @[i]],
                           !.tail = (@ + n) % BUF_SIZE,
                           !.wrong = @ \/ \E i \in Cells(buffer.tail, n) : buffer.cell[i] = "FULL"]

get_buffer(n) ==
  buffer' = [buffer EXCEPT !.cell = [i \in Cell |-> IF i \in Cells(buffer.head, n) THEN "EMPTY" ELSE @[i]],
                           !.head = (@ + n) % BUF_SIZE,
                           !.wrong = @ \/ \E i \in Cells(buffer.head, n) : buffer.cell[i] = "EMPTY"]

-----------------------------------------------------------------------------

\* Mutant: the room is announced before the items are taken out.
ConsumerStepEarly ==
  \/ /\ consumer.in = "wait" /\ WaitSemN("buf_used", IF program = "prcons2" THEN 1 ELSE ncons)
     /\ consumer' = [consumer EXCEPT !.in = "signal"]
     /\ UNCHANGED <<buffer, producer, typed>>
  \/ /\ consumer.in = "take"
     /\ get_buffer(IF program = "prcons2" THEN 1 ELSE ncons)
     /\ consumer' = [in |-> IF consumer.left > 1 /\ program = "prcons2" THEN "wait"
                            ELSE IF program = "prcons" THEN "key" ELSE "kbd",
                     left |-> consumer.left - 1]
     /\ UNCHANGED <<events, producer, typed>>
  \/ /\ consumer.in = "signal" /\ SignalSemN("buf_free", IF program = "prcons2" THEN 1 ELSE ncons)
     /\ consumer' = [consumer EXCEPT !.in = "take"]
     /\ UNCHANGED <<buffer, producer, typed>>

\* Mutant: the consumer of prcons2 announces the room once it has all its items.
ConsumerStepLate ==
  \/ /\ consumer.in = "wait" /\ WaitSemN("buf_used", IF program = "prcons2" THEN 1 ELSE ncons)
     /\ consumer' = [consumer EXCEPT !.in = "take"]
     /\ UNCHANGED <<buffer, producer, typed>>
  \/ /\ consumer.in = "take"
     /\ get_buffer(IF program = "prcons2" THEN 1 ELSE ncons)
     /\ consumer' = IF consumer.left > 1 /\ program = "prcons2"
                    THEN [in |-> "wait", left |-> consumer.left - 1]
                    ELSE [consumer EXCEPT !.in = "signal"]
     /\ UNCHANGED <<events, producer, typed>>
  \/ /\ consumer.in = "signal" /\ SignalSemN("buf_free", ncons)
     /\ consumer' = [in |-> IF program = "prcons" THEN "key" ELSE "kbd", left |-> 0]
     /\ UNCHANGED <<buffer, producer, typed>>

\* The consumer with a key: it waits for the items, takes them and signals; in
\* prcons2 one item at a time, ncons times.
ConsumerStep ==
  \/ /\ consumer.in = "wait" /\ WaitSemN("buf_used", IF program = "prcons2" THEN 1 ELSE ncons)
     /\ consumer' = [consumer EXCEPT !.in = "take"]
     /\ UNCHANGED <<buffer, producer, typed>>
  \/ /\ consumer.in = "take"
     /\ get_buffer(IF program = "prcons2" THEN 1 ELSE ncons)
     /\ consumer' = [consumer EXCEPT !.in = "signal"]
     /\ UNCHANGED <<events, producer, typed>>
  \/ /\ consumer.in = "signal" /\ SignalSemN("buf_free", IF program = "prcons2" THEN 1 ELSE ncons)
     /\ consumer' = [in |-> IF consumer.left > 1 /\ program = "prcons2" THEN "wait"
                            ELSE IF program = "prcons" THEN "key" ELSE "kbd",
                     left |-> consumer.left - 1]
     /\ UNCHANGED <<buffer, producer, typed>>

\* The producer; its Delay only spaces the steps out.
ProducerStep ==
  \/ /\ producer = "wait" /\ WaitSemN("buf_free", nprod)
     /\ producer' = "put"
     /\ UNCHANGED <<buffer, consumer, typed>>
  \/ /\ producer = "put" /\ put_buffer(nprod)
     /\ producer' = "signal"
     /\ UNCHANGED <<events, consumer, typed>>
  \/ /\ producer = "signal" /\ SignalSemN("buf_used", nprod)
     /\ producer' = "wait"
     /\ UNCHANGED <<buffer, consumer, typed>>

\* mkbhit and mgetch of prcons: the consumer polls until there is a key.
poll_key ==
  /\ consumer.in = "key" /\ typed > 0
  /\ typed' = typed - 1
  /\ consumer' = [in |-> "wait", left |-> ncons]
  /\ UNCHANGED <<events, buffer, producer>>

\* mgetch of prcons1 and prcons2: it waits for an interrupt and looks for a key.
mgetch_kbd ==
  /\ consumer.in = "kbd" /\ WaitEvent("kbd")
  /\ IF typed = 0 THEN UNCHANGED <<typed, consumer>>
     ELSE typed' = typed - 1 /\ consumer' = [in |-> "wait", left |-> ncons]
  /\ UNCHANGED <<buffer, producer>>

\* The keyboard interrupt: the key is stored, and the semaphore of prcons1 and
\* prcons2 is signalled (new_kbd), also when a key is released.
kbd_interrupt(pressed) ==
  /\ typed + pressed <= MaxTyped /\ events["kbd"] < MaxTyped
  /\ typed' = typed + pressed
  /\ IF program = "prcons" THEN UNCHANGED events ELSE SignalEvent("kbd")
  /\ UNCHANGED <<buffer, producer, consumer>>

PrconsNext == /\ program \in Prcons
              /\ \/ ConsumerStep \/ ProducerStep \/ poll_key \/ mgetch_kbd
                 \/ \E pressed \in {0, 1} : kbd_interrupt(pressed)

-----------------------------------------------------------------------------
(* pmon: key is the item, 0 when there is none; both tasks wait for the    *)
(* same condition.                                                         *)

pmon_key == buffer.cell[0]

\* A task waits for the condition: it is not signalled until the other has done
\* its part.
pmon_main ==
  \/ /\ producer = "wait" /\ pmon_key = "FULL"
     /\ producer' = "asleep" /\ UNCHANGED <<buffer, consumer>>
  \/ /\ producer = "wait" /\ pmon_key = "EMPTY"
     /\ buffer' = [buffer EXCEPT !.cell[0] = "FULL"]
     /\ consumer' = IF consumer.in = "asleep" THEN [consumer EXCEPT !.in = "kbd"] ELSE consumer
     /\ UNCHANGED producer

pmon_consumer ==
  \/ /\ consumer.in = "kbd" /\ pmon_key = "EMPTY"
     /\ consumer' = [consumer EXCEPT !.in = "asleep"] /\ UNCHANGED <<buffer, producer>>
  \/ /\ consumer.in = "kbd" /\ pmon_key = "FULL"
     /\ buffer' = [buffer EXCEPT !.cell[0] = "EMPTY"]
     /\ producer' = IF producer = "asleep" THEN "wait" ELSE producer
     /\ UNCHANGED consumer

PmonNext == program = "pmon" /\ (pmon_main \/ pmon_consumer) /\ UNCHANGED <<events, typed>>

ProdConsNext == PrconsNext \/ PmonNext

\* One of the four programs alone.
ProdConsSpec ==
  /\ program \in Prcons \cup {"pmon"} /\ events = ProdConsSems /\ ProdConsInit
  /\ [][ProdConsNext /\ UNCHANGED program]_<<program, events, prodConsVars>>

-----------------------------------------------------------------------------

\* A cell is never overwritten while it is full nor taken while it is empty, at
\* any relation of nprod, ncons and BUF_SIZE (producer, consumer).
CellsUsedOnce == ~buffer.wrong

\* When the consumer takes its items one by one the program never stops: whoever
\* is blocked, the other has what it needs (PRCONS2 consumer; taking ncons at
\* once, PRCONS and PRCONS1 stop when neither nprod cells nor ncons items are
\* left).  The batch has to fit the buffer, which main does not look at: a producer
\* with more never gets its cells.  In pmon the two tasks never both sleep.
NeverStuck ==
  /\ program = "prcons2" /\ nprod <= BUF_SIZE
       => ~(/\ producer = "wait" /\ events["buf_free"] < nprod
            /\ consumer.in = "wait" /\ events["buf_used"] = 0)
  /\ ~(producer = "asleep" /\ consumer.in = "asleep")

=============================================================================
