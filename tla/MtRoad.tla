------------------------------- MODULE MtRoad -------------------------------
(***************************************************************************)
(* The two road programs of MTask (progs/CAMINO.C and progs/CAMINO1.C): a  *)
(* road with a one-lane stretch, a task per car, a control task that opens *)
(* and closes a barrier at each end, and the main task that reads keys.    *)
(*                                                                         *)
(* camino:  the cars report to the control through a one-message mailbox,  *)
(*          when they come near and when they leave the stretch.           *)
(* camino1: they Send to the control task, and also report the passage of  *)
(*          the barrier; after pass_max cars the other side has its turn.  *)
(*                                                                         *)
(* Every TDELAY a car moves one cell.  The control, which never delays, is *)
(* done with every report before the next clock tick: Tick waits until no  *)
(* task has anything to do.                                                *)
(***************************************************************************)
EXTENDS MtProgram

CONSTANTS
  Car,
  dir,           \* the direction of each car
  pass_max,
  SENSOR1_POS, BARRIER_POS, ONEWAY_START, ONEWAY_END, SENSOR2_POS, ROAD_END,
  MaxKeys        \* bound on the keys in the BIOS buffer and on the count of kbd

Direction == {"LEFTBOUND", "RIGHTBOUND"}
Other(d) == IF d = "LEFTBOUND" THEN "RIGHTBOUND" ELSE "LEFTBOUND"

ASSUME RoadAssumption ==
  /\ IsFiniteSet(Car) /\ dir \in [Car -> Direction]
  /\ pass_max \in Nat
  /\ {SENSOR1_POS, BARRIER_POS, ONEWAY_START, ONEWAY_END, SENSOR2_POS, ROAD_END} \subseteq Nat
  /\ 0 < SENSOR1_POS /\ SENSOR1_POS < BARRIER_POS /\ BARRIER_POS < ONEWAY_START
  /\ ONEWAY_START <= ONEWAY_END /\ ONEWAY_END < SENSOR2_POS /\ SENSOR2_POS < ROAD_END

VARIABLES
  road,       \* road[dir][pos]: "EMPTY", "CAR" or "BARRIER"
  pos,        \* the cell a car is to take next
  doing,      \* what the task of each car is doing
  control,    \* the variables of the control task
  mail,       \* the mailbox of camino
  keys,       \* the keys typed and not read, and what main is doing in mgetch
  overtaken   \* history: opposing cars that entered since a car waits at the barrier

roadVars == <<road, pos, doing, control, mail, keys, overtaken>>

Report(c, kind) == [dir |-> dir[c], kind |-> kind]

Nothing == [dir |-> "LEFTBOUND", kind |-> "none"]

\* set_road, and the drawing that goes with it.
set_road(d, p, what) == road' = [road EXCEPT ![d][p] = what]

\* The state in which main and the first lines of control leave the program:
\* the road is empty and both barriers are closed.
RoadInit ==
  /\ road = [d \in Direction |-> [p \in 0 .. ROAD_END |->
               IF p = BARRIER_POS THEN "BARRIER" ELSE "EMPTY"]]
  /\ pos = [c \in Car |-> 0]
  /\ doing = [c \in Car |-> "garage"]
  /\ control = [msg |-> Nothing, state |-> "IDLE", draining |-> FALSE,
                cars |-> [d \in Direction |-> 0], in_road |-> 0, passed |-> 0]
  /\ mail = Nothing
  /\ keys = [typed |-> <<>>, main |-> IF program = "camino" THEN "look" ELSE "wait"]
  /\ overtaken = [c \in Car |-> 0]

RoadSems == [s \in {"kbd", "mail_empty", "mail_full"} |-> IF s = "mail_empty" THEN 1 ELSE 0]

-----------------------------------------------------------------------------
(* The cars.                                                               *)

CellFree(c, p) == p <= ROAD_END /\ road[dir[c]][p] = "EMPTY"

\* The cell is free and the one beyond is taken: the car keeps its distance.
CarPauses(c) ==
  /\ doing[c] = "test" /\ CellFree(c, pos[c])
  /\ pos[c] < ROAD_END /\ ~CellFree(c, pos[c] + 1)
  /\ doing' = [doing EXCEPT ![c] = "pause"]
  /\ UNCHANGED <<events, road, pos, control, mail, keys, overtaken>>

\* The car finds its cell free, with no car ahead or after the pause.
MayAdvance(c) ==
  /\ CellFree(c, pos[c])
  /\ \/ doing[c] = "test" /\ (pos[c] = ROAD_END \/ CellFree(c, pos[c] + 1))
     \/ doing[c] = "take"

\* What a car reports in each program at the cell it has taken.
camino_report(c) ==
  CASE pos[c] = SENSOR1_POS -> "in"
    [] pos[c] = SENSOR2_POS -> "out"
    [] OTHER -> "none"

camino1_report(c) ==
  CASE pos[c] = SENSOR1_POS -> "in"
    [] pos[c] = BARRIER_POS -> "barrier"
    [] pos[c] = SENSOR2_POS -> "out"
    [] OTHER -> "none"

ReportOf(c) == IF program = "camino" THEN camino_report(c) ELSE camino1_report(c)

\* A car that is the first before the barrier.
AtBarrier(c) == pos[c] = BARRIER_POS /\ doing[c] \in {"test", "pause", "take", "delay"}

\* The car takes its cell; Atomic holds until it has to wait in put_msg or Send.
CarAdvances(c) ==
  /\ MayAdvance(c)
  /\ set_road(dir[c], pos[c], "CAR")
  /\ doing' = [doing EXCEPT ![c] = IF ReportOf(c) = "none" THEN "clear" ELSE "send"]
  /\ overtaken' = [d \in Car |->
       IF d = c THEN 0
       ELSE IF pos[c] = BARRIER_POS /\ dir[d] # dir[c] /\ AtBarrier(d)
            THEN IF overtaken[d] > pass_max + 1 THEN overtaken[d] ELSE overtaken[d] + 1
            ELSE overtaken[d]]
  /\ UNCHANGED <<events, pos, control, mail, keys>>

put_msg(c) ==
  /\ doing[c] = "send" /\ program = "camino"
  /\ events["mail_empty"] > 0
  /\ mail' = Report(c, ReportOf(c))
  /\ events' = [events EXCEPT !["mail_empty"] = @ - 1, !["mail_full"] = @ + 1]
  /\ doing' = [doing EXCEPT ![c] = "clear"]
  /\ UNCHANGED <<road, pos, control, keys, overtaken>>

\* The car leaves the cell behind it, and the road after the last cell.
CarClears(c) ==
  /\ doing[c] = "clear"
  /\ IF pos[c] = 0 THEN UNCHANGED road ELSE set_road(dir[c], pos[c] - 1, "EMPTY")
  /\ doing' = [doing EXCEPT ![c] = "delay"]
  /\ pos' = [pos EXCEPT ![c] = @ + 1]
  /\ UNCHANGED <<events, control, mail, keys, overtaken>>

CarLeaves(c) ==
  /\ doing[c] = "test" /\ pos[c] > ROAD_END
  /\ set_road(dir[c], ROAD_END, "EMPTY")
  /\ doing' = [doing EXCEPT ![c] = "garage"]
  /\ pos' = [pos EXCEPT ![c] = 0]
  /\ UNCHANGED <<events, control, mail, keys, overtaken>>

-----------------------------------------------------------------------------
(* The control task.                                                       *)

\* open_barrier and close_barrier: the cell of the barrier in each direction of
\* `opened' becomes free, in each direction of `closed' it is blocked.
MoveBarriers(closed, opened) ==
  road' = [d \in Direction |-> [road[d] EXCEPT ![BARRIER_POS] =
             IF d \in opened THEN "EMPTY" ELSE IF d \in closed THEN "BARRIER" ELSE @]]

get_msg ==
  /\ program = "camino" /\ control.msg = Nothing
  /\ events["mail_full"] > 0
  /\ control' = [control EXCEPT !.msg = mail]
  /\ events' = [events EXCEPT !["mail_empty"] = @ + 1, !["mail_full"] = @ - 1]
  /\ UNCHANGED <<road, pos, doing, mail, keys, overtaken>>

\* The side with cars to let through when no side is open any more.
NextSide(cars) ==
  IF cars["LEFTBOUND"] > 0 THEN "LEFTBOUND"
  ELSE IF cars["RIGHTBOUND"] > 0 THEN "RIGHTBOUND"
  ELSE "IDLE"

\* Mutant: the barriers change sides as soon as a car waits on the other side.
camino_state_eager(state, cars) ==
  IF state # "IDLE" /\ cars[Other(state)] > 0 THEN Other(state) ELSE NextSide(cars)

\* Mutant: after the last car of a side the road is left closed, also when cars of
\* the other side wait.
camino_state_closed(state, cars) ==
  IF state = "IDLE" THEN NextSide(cars) ELSE IF cars[state] = 0 THEN "IDLE" ELSE state

\* The automaton of camino: the side that is open stays open while it has cars;
\* after its last one the road is handed to the other side if a car waits there.
camino_state(state, cars) ==
  IF state = "IDLE" \/ cars[state] = 0 THEN NextSide(cars) ELSE state

camino_control ==
  LET m == control.msg
      cars == [control.cars EXCEPT ![m.dir] = IF m.kind = "in" THEN @ + 1 ELSE @ - 1]
      state == camino_state(control.state, cars)
  IN  /\ program = "camino" /\ m # Nothing
      /\ control' = [control EXCEPT !.msg = Nothing, !.cars = cars, !.state = state]
      /\ IF state = control.state THEN UNCHANGED road
         ELSE MoveBarriers({control.state} \ {"IDLE"}, {state} \ {"IDLE"})
      /\ UNCHANGED <<events, pos, doing, mail, keys, overtaken>>

\* Receive from any car that is blocked in Send, which may then go on.
Receive(c) ==
  /\ program = "camino1" /\ control.msg = Nothing
  /\ doing[c] = "send"
  /\ control' = [control EXCEPT !.msg = Report(c, ReportOf(c))]
  /\ doing' = [doing EXCEPT ![c] = "clear"]
  /\ UNCHANGED <<events, road, pos, mail, keys, overtaken>>

\* Mutant: the cars that passed are not counted.
camino1_count_none(k) ==
  CASE k.msg.kind = "in" -> [k EXCEPT !.cars[k.msg.dir] = @ + 1]
    [] k.msg.kind = "barrier" -> [k EXCEPT !.cars[k.msg.dir] = @ - 1, !.in_road = @ + 1]
    [] k.msg.kind = "out" -> [k EXCEPT !.in_road = @ - 1]
    [] OTHER -> k

\* The counters of camino1 after a message.
camino1_count(k) ==
  CASE k.msg.kind = "in" -> [k EXCEPT !.cars[k.msg.dir] = @ + 1]
    [] k.msg.kind = "barrier" ->
         [k EXCEPT !.cars[k.msg.dir] = @ - 1, !.in_road = @ + 1,
                   !.passed = IF @ < pass_max THEN @ + 1 ELSE @]
    [] k.msg.kind = "out" -> [k EXCEPT !.in_road = @ - 1]
    [] OTHER -> k

\* Whether the side that is open is to be closed.
camino1_closes(k) ==
  /\ k.state # "IDLE" /\ ~k.draining
  /\ \/ k.cars["LEFTBOUND"] = 0 /\ k.cars["RIGHTBOUND"] = 0 /\ k.in_road = 0
     \/ /\ k.cars[Other(k.state)] > 0
        /\ k.cars[k.state] = 0 \/ k.passed = pass_max

\* The side that is open afterwards, if any, and whether it only drains.
camino1_state(k) ==
  CASE k.state = "IDLE" ->
         IF k.cars["LEFTBOUND"] > 0 THEN [state |-> "LEFTBOUND", draining |-> FALSE]
         ELSE IF k.cars["RIGHTBOUND"] > 0 THEN [state |-> "RIGHTBOUND", draining |-> FALSE]
         ELSE [state |-> "IDLE", draining |-> FALSE]
    [] camino1_closes(k) \/ k.draining ->
         IF k.in_road > 0 THEN [state |-> k.state, draining |-> TRUE]
         ELSE IF k.draining \/ k.cars[Other(k.state)] > 0
         THEN [state |-> Other(k.state), draining |-> FALSE]
         ELSE [state |-> "IDLE", draining |-> FALSE]
    [] OTHER -> [state |-> k.state, draining |-> k.draining]

\* The handling of a message in camino1: it waits in close_barrier until no car
\* is at the barrier it closes.
camino1_control ==
  LET k == camino1_count(control)
      n == camino1_state(k)
      opens == n.state \notin {k.state, "IDLE"}
  IN  /\ program = "camino1" /\ control.msg # Nothing
      /\ camino1_closes(k) => road[k.state][BARRIER_POS] = "EMPTY"
      /\ control' = [k EXCEPT !.msg = Nothing, !.state = n.state, !.draining = n.draining,
                              !.passed = IF opens THEN 0 ELSE @]
      /\ MoveBarriers(IF camino1_closes(k) THEN {k.state} ELSE {},
                      IF opens THEN {n.state} ELSE {})
      /\ UNCHANGED <<events, pos, doing, mail, keys, overtaken>>

\* The control is in the loop of close_barrier.
ControlSpins ==
  LET k == camino1_count(control)
  IN  /\ program = "camino1" /\ control.msg # Nothing /\ camino1_closes(k)
      /\ road[k.state][BARRIER_POS] # "EMPTY"

-----------------------------------------------------------------------------
(* The main task and the clock.                                            *)

\* Mutant: the handler signals only when no key is waiting to be read.
new_kbd_once(typed) ==
  /\ events["kbd"] < MaxKeys /\ Len(keys.typed) + Len(typed) <= MaxKeys
  /\ \A d \in Direction : Len(SelectSeq(keys.typed \o typed, LAMBDA k : k = d))
                            <= Cardinality({c \in Car : dir[c] = d /\ doing[c] = "garage"})
  /\ keys' = [keys EXCEPT !.typed = @ \o typed]
  /\ IF keys.typed = <<>> THEN SignalEvent("kbd") ELSE UNCHANGED events
  /\ UNCHANGED <<road, pos, doing, control, mail, overtaken>>

\* The keyboard interrupt (new_kbd): OldInterrupt stores the key, if the key was
\* pressed and not released, and the semaphore is signalled.
new_kbd(typed) ==
  /\ events["kbd"] < MaxKeys /\ Len(keys.typed) + Len(typed) <= MaxKeys
  /\ \A d \in Direction : Len(SelectSeq(keys.typed \o typed, LAMBDA k : k = d))
                            <= Cardinality({c \in Car : dir[c] = d /\ doing[c] = "garage"})
  /\ keys' = [keys EXCEPT !.typed = @ \o typed]
  /\ SignalEvent("kbd")
  /\ UNCHANGED <<road, pos, doing, control, mail, overtaken>>

\* mgetch returns a key, main creates the task of a car (send_car) and calls
\* mgetch again, which in camino1 begins by waiting.
send_car(c) ==
  /\ keys.main = "look" /\ keys.typed # <<>>
  /\ Head(keys.typed) = dir[c] /\ doing[c] = "garage"
  /\ keys' = [typed |-> Tail(keys.typed),
              main |-> IF program = "camino" THEN "look" ELSE "wait"]
  /\ doing' = [doing EXCEPT ![c] = "test"]
  /\ UNCHANGED <<events, road, pos, control, mail, overtaken>>

mgetch ==
  \/ /\ keys.main = "look" /\ keys.typed = <<>>
     /\ keys' = [keys EXCEPT !.main = "wait"]
     /\ UNCHANGED <<events, road, pos, doing, control, mail, overtaken>>
  \/ /\ keys.main = "wait" /\ WaitEvent("kbd")
     /\ keys' = [keys EXCEPT !.main = "look"]
     /\ UNCHANGED <<road, pos, doing, control, mail, overtaken>>

\* No car can move and the control waits for a message or for the barrier.
Quiet ==
  /\ \A c \in Car : /\ doing[c] \notin {"send", "clear"} \/ (ControlSpins /\ doing[c] = "send")
                    /\ doing[c] \in {"test", "take"} => pos[c] <= ROAD_END /\ ~CellFree(c, pos[c])
  /\ IF program = "camino" THEN control.msg = Nothing /\ events["mail_full"] = 0
                           ELSE control.msg = Nothing \/ ControlSpins

\* Time passes: the Delay of some cars ends.
Tick ==
  /\ Quiet
  /\ \E late \in SUBSET {c \in Car : doing[c] \in {"pause", "delay"}} :
       /\ late # {}
       /\ doing' = [c \in Car |-> IF c \notin late THEN doing[c]
                                  ELSE IF doing[c] = "pause" THEN "take" ELSE "test"]
  /\ UNCHANGED <<events, road, pos, control, mail, keys, overtaken>>

CarStep(c) == CarPauses(c) \/ CarAdvances(c) \/ put_msg(c) \/ CarClears(c) \/ CarLeaves(c)

ControlStep == get_msg \/ camino_control \/ camino1_control \/ \E c \in Car : Receive(c)

MainStep == \/ mgetch \/ new_kbd(<<>>)
            \/ \E d \in Direction : new_kbd(<<d>>)
            \/ \E c \in Car : send_car(c)

RoadNext == (\E c \in Car : CarStep(c)) \/ ControlStep \/ MainStep \/ Tick

\* One of the two programs alone.
RoadSpec ==
  /\ program \in {"camino", "camino1"} /\ events = RoadSems /\ RoadInit
  /\ [][RoadNext /\ UNCHANGED program]_<<program, events, roadVars>>

-----------------------------------------------------------------------------
(* Properties.                                                             *)

OnOneway(c) == \E p \in ONEWAY_START .. ONEWAY_END :
                 \/ pos[c] = p /\ doing[c] \in {"send", "clear"}
                 \/ pos[c] = p + 1 /\ doing[c] \notin {"garage", "send"}

\* Cars of opposite directions never share the one-lane stretch (control and
\* car): the counts kept by the control, brought up to date by messages, never
\* let a barrier open while a car of the other side is on its way.
OneDirection == \A c, d \in Car : OnOneway(c) /\ OnOneway(d) => dir[c] = dir[d]

\* The two tasks of camino1 do not wait for each other: when the control waits in
\* close_barrier for the cell of the barrier, the car there goes on and leaves it
\* (the traffic is interrupted after pass_max cars and then resumed the other way,
\* as progs/read.me says).  A car that is at the barrier reports it to the control,
\* with Send, and only then leaves.
NoEmbrace == ~ (ControlSpins /\ \E c \in Car : doing[c] = "send" /\ pos[c] = BARRIER_POS
                                               /\ dir[c] = camino1_count(control).state)

\* In camino1 the first car at a barrier sees at most pass_max + 1 cars of the other
\* side enter before it, however long it takes to start (the bound of PASS_MAX that
\* camino lacks): one more than pass_max, since one may enter while close_barrier waits.
BoundedOvertaking ==
  program = "camino1" => \A c \in Car : AtBarrier(c) => overtaken[c] <= pass_max + 1

\* No car waits before two closed barriers: once the reports are handled, a road
\* that is open to nobody has no car at a barrier, so the last car of a side hands
\* the road over (control, car).  Nobody comes back to the road by itself: the
\* control only acts on a report, and a car at a barrier has made its own.
NobodyForgotten == Quiet /\ control.state = "IDLE" => \A c \in Car : ~AtBarrier(c)

\* The main task never waits for the keyboard with a key already typed and no
\* event pending, in either order of looking and waiting (mgetch, new_kbd).
NoKeyForgotten == keys.typed # <<>> => keys.main = "look" \/ events["kbd"] > 0

=============================================================================
