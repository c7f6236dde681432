-------------------------- MODULE MtProgramsProofs --------------------------
(***************************************************************************)
(* The channels of MTask and its programs.  The message queues and the     *)
(* pipes implement a bounded channel: the invariant of a queue accounts    *)
(* for each slot (free, full, or in the hands of the writer or the reader  *)
(* between two steps of its call); that of a pipe follows the bytes of one *)
(* call through the ring to the reader.  The programs are arithmetic in    *)
(* several tasks (pmath), the producers and consumers, and the roads       *)
(* (camino, camino1).                                                      *)
(***************************************************************************)
EXTENDS MtPipe, MtProdCons, MtMath, MtRoad, FiniteSetTheorems, TLAPS
-----------------------------------------------------------------------------
(***************************************************************************)
(* Message queues.                                                         *)
(***************************************************************************)

\* A position of the ring at most one round further.
Wrap(n) == IF n < Capacity THEN n ELSE n - Capacity

Bit(b) == IF b THEN 1 ELSE 0

\* A task of a side is at this point of its call to a message queue.
At(S, point) == \E t \in S : call[t] = point

Points == {"out", "wait", "copy", "advance", "signal", "leave"}
Semaphores == {"get", "put", "mutex_get", "mutex_put"}

QueueTyped ==
  /\ events \in [Semaphores -> Nat]
  /\ mq \in [buf : [Slot -> Message], head : Slot, tail : Slot]
  /\ call \in [Writer \cup Reader -> Points]
  /\ msg \in [Writer \cup Reader -> Message]
  /\ chan \in Seq(Message)

\* One task of a side is in a call: the only user, or the one with the mutex.
OneCalls(S) == \A t, u \in S : call[t] # "out" /\ call[u] # "out" => t = u

MutexHeld(S, m) ==
  Serialized => events[m] \in {0, 1} /\ (events[m] = 1 => \A t \in S : call[t] = "out")

UsersOnly == \A t \in Writer \cup Reader : t \notin QueueUsers => call[t] = "out"

\* The slots are free, full, or in the hands of the writer or the reader.
Counted ==
  /\ Len(chan) = events["get"] + Bit(At(Writer, "advance")) + Bit(At(Writer, "signal"))
                 + Bit(At(Reader, "copy"))
  /\ Capacity = Len(chan) + events["put"] + Bit(At(Writer, "copy"))
                + Bit(At(Reader, "advance")) + Bit(At(Reader, "signal"))

\* The positions with the copies that are done and not yet accounted for.
HeadOf == IF At(Reader, "advance") THEN Wrap(mq.head + 1) ELSE mq.head
TailOf == IF At(Writer, "advance") THEN Wrap(mq.tail + 1) ELSE mq.tail

\* The ring holds what has been put and not got, in order.
RingHolds ==
  /\ TailOf = Wrap(HeadOf + Len(chan))
  /\ \A i \in 1 .. Len(chan) : chan[i] = mq.buf[Wrap(HeadOf + i - 1)]

Exclusive ==
  /\ UsersOnly /\ OneCalls(Writer) /\ OneCalls(Reader)
  /\ MutexHeld(Writer, "mutex_put") /\ MutexHeld(Reader, "mutex_get")

QueueInv == QueueTyped /\ Exclusive /\ Counted /\ RingHolds

\* The capacity is positive and the slots are counted from 0.
LEMMA Capacities == Capacity \in Nat /\ Capacity > 0 /\ Slot = 0 .. Capacity - 1
BY QueueAssumption DEF Slot

\* The % of the ring, where the argument is less than two rounds.
LEMMA WrapIs ==
  ASSUME NEW n \in Nat, n < 2 * Capacity
  PROVE  n % Capacity = Wrap(n) /\ Wrap(n) \in Slot
<1>1. \A m \in Nat : m > 0 => \A k \in Nat : /\ k < m => k % m = k
                                             /\ m <= k /\ k < 2 * m => k % m = k - m
  OBVIOUS
<1>. QED  BY <1>1, Capacities DEF Wrap

\* The two sides of a queue: the tasks of one and their mutex, those of the other
\* and theirs.
Opposite(S, m, O, n) ==
  \/ S = Writer /\ m = "mutex_put" /\ O = Reader /\ n = "mutex_get"
  \/ S = Reader /\ m = "mutex_get" /\ O = Writer /\ n = "mutex_put"

\* A user is on one side, which has its mutex, and the other side is opposite.
LEMMA Sides ==
  ASSUME NEW t \in Writer \cup Reader
  PROVE  /\ t \in Writer => /\ Mutex(t) = "mutex_put" /\ Side(t) = "put" /\ t \notin Reader
                            /\ Opposite(Writer, "mutex_put", Reader, "mutex_get")
         /\ t \in Reader => /\ Mutex(t) = "mutex_get" /\ Side(t) = "get" /\ t \notin Writer
                            /\ Opposite(Reader, "mutex_get", Writer, "mutex_put")
BY QueueAssumption DEF Mutex, Side, Opposite

\* The users of the queue that runs.
LEMMA Users ==
  /\ QueueUsers \subseteq Writer \cup Reader
  /\ ~Serialized => QueueUsers \subseteq {FirstWriter, FirstReader}
BY QueueAssumption DEF QueueUsers, Serialized

\* Task t, the only one of its side in a call, goes on to point p, and its mutex is
\* held unless it is then out.
LEMMA CallMoves ==
  ASSUME QueueInv, NEW t \in QueueUsers, NEW p \in Points, program' = program,
         NEW S, NEW m, NEW O, NEW n, Opposite(S, m, O, n), t \in S,
         \A u \in S : u # t => call[u] = "out",
         call' = [call EXCEPT ![t] = p],
         Serialized => events'[n] = events[n],
         Serialized => events'[m] = IF p = "out" THEN 1 ELSE 0
  PROVE  /\ \A q \in Points \ {"out"} : /\ At(S, q) <=> call[t] = q
                                        /\ At(S, q)' <=> p = q
                                        /\ At(O, q)' <=> At(O, q)
         /\ Exclusive'
         /\ call' \in [Writer \cup Reader -> Points]
<1>1. t \in Writer \cup Reader /\ S \subseteq Writer \cup Reader /\ O \subseteq Writer \cup Reader
  BY DEF Opposite
<1>2. /\ call'[t] = p /\ call' \in [Writer \cup Reader -> Points]
      /\ \A u \in Writer \cup Reader : u # t => call'[u] = call[u]
  BY <1>1 DEF QueueInv, QueueTyped
<1>3. \A u \in O : u # t
  BY QueueAssumption DEF Opposite
<1>4. \A u \in O : call'[u] = call[u]
  BY <1>1, <1>2, <1>3
<1>5. \A q \in Points \ {"out"} : /\ At(S, q) <=> call[t] = q
                                  /\ At(S, q)' <=> p = q
                                  /\ At(O, q)' <=> At(O, q)
  BY <1>1, <1>2, <1>4 DEF At
<1>6. /\ OneCalls(S)' /\ OneCalls(O)'
  <2>1. OneCalls(O)
    BY DEF QueueInv, Exclusive, Opposite
  <2>. QED  BY <1>1, <1>2, <1>4, <2>1 DEF OneCalls
<1>7. UsersOnly'
  <2>1. QueueUsers' = QueueUsers
    BY DEF QueueUsers
  <2>. QED  BY <1>1, <1>2, <2>1 DEF QueueInv, Exclusive, UsersOnly
<1>8. MutexHeld(S, m)' /\ MutexHeld(O, n)'
  <2>1. Serialized' <=> Serialized
    BY DEF Serialized
  <2>2. MutexHeld(O, n)
    BY DEF QueueInv, Exclusive, Opposite
  <2>3. MutexHeld(O, n)'
    BY <1>4, <2>1, <2>2 DEF MutexHeld
  <2>4. Serialized => events'[m] \in {0, 1} /\ (events'[m] = 1 => \A u \in S : call'[u] = "out")
    BY <1>1, <1>2
  <2>. QED  BY <2>1, <2>3, <2>4 DEF MutexHeld
<1>. QED  BY <1>2, <1>5, <1>6, <1>7, <1>8 DEF Opposite, Exclusive

\* A task that is in a call is the only one of its side, and holds the mutex.
LEMMA InCall ==
  ASSUME QueueInv, NEW t, NEW S, NEW m, NEW O, NEW n, Opposite(S, m, O, n),
         t \in S, call[t] # "out"
  PROVE  /\ \A u \in S : u # t => call[u] = "out"
         /\ Serialized => events[m] = 0
BY DEF QueueInv, Exclusive, OneCalls, MutexHeld, Opposite

\* A task that enters is the only one of its side: it is the only user or it has
\* just taken the mutex.
LEMMA EntersAlone ==
  ASSUME QueueInv, NEW t \in QueueUsers, NEW S, NEW m, NEW O, NEW n, Opposite(S, m, O, n),
         t \in S, Serialized => events[m] > 0
  PROVE  \A u \in S : u # t => call[u] = "out"
<1>. SUFFICES ASSUME NEW u \in S, u # t PROVE call[u] = "out"
  OBVIOUS
<1>1. CASE Serialized
  <2>1. events[m] \in {0, 1} /\ (events[m] = 1 => call[u] = "out")
    BY <1>1 DEF QueueInv, Exclusive, MutexHeld, Opposite
  <2>. QED  BY <1>1, <2>1
<1>2. CASE ~ Serialized
  <2>1. u \in Writer \cup Reader /\ (S = Writer \/ S = Reader)
    BY DEF Opposite
  <2>2. u \notin QueueUsers
    BY <1>2, <2>1, Users, QueueAssumption
  <2>. QED  BY <2>1, <2>2 DEF QueueInv, Exclusive, UsersOnly
<1>. QED  BY <1>1, <1>2

\* The counts and the ring, when nobody passes from one of the points that matter
\* to another.
LEMMA RingKept ==
  ASSUME Counted, RingHolds, UNCHANGED <<mq, chan>>,
         events'["get"] = events["get"], events'["put"] = events["put"],
         \A S \in {Writer, Reader}, q \in {"copy", "advance", "signal"} : At(S, q)' <=> At(S, q)
  PROVE  Counted' /\ RingHolds'
<1>1. Counted'
  BY DEF Counted, Bit
<1>2. HeadOf' = HeadOf /\ TailOf' = TailOf
  BY DEF HeadOf, TailOf
<1>. QED  BY <1>1, <1>2 DEF RingHolds

\* A call to PutMsgQueue or GetMsgQueue begins.
LEMMA EnterQueueKeeps ==
  ASSUME QueueInv, NEW t \in QueueUsers, NEW m \in Message, EnterQueue(t, m), program' = program
  PROVE  QueueInv' /\ UNCHANGED <<chan, delivered>>
<1>1. /\ call[t] = "out" /\ call' = [call EXCEPT ![t] = "wait"]
      /\ msg' = [msg EXCEPT ![t] = m] /\ UNCHANGED <<mq, chan, delivered>>
      /\ IF Serialized THEN WaitEvent(Mutex(t)) ELSE events' = events
  BY DEF EnterQueue
<1>2. t \in Writer \cup Reader /\ "wait" \in Points /\ QueueTyped
  BY Users DEF Points, QueueInv
<1>3. PICK S, O, a, b : Opposite(S, a, O, b) /\ t \in S /\ a = Mutex(t)
  BY <1>2, Sides
<1>4. a \in Semaphores /\ b \in Semaphores /\ a # b /\ a # "get" /\ a # "put"
  BY <1>3 DEF Opposite, Semaphores
<1>5. /\ events' \in [Semaphores -> Nat]
      /\ Serialized => events[a] > 0 /\ events'[a] = events[a] - 1
      /\ \A s \in Semaphores : s # a => events'[s] = events[s]
  <2>1. CASE Serialized
    <3>1. events[a] > 0 /\ events' = [events EXCEPT ![a] = @ - 1]
      BY <1>1, <1>3, <2>1 DEF WaitEvent
    <3>2. events \in [Semaphores -> Nat] /\ events[a] \in Nat
      BY <1>2, <1>4 DEF QueueTyped
    <3>. QED  BY <1>4, <2>1, <3>1, <3>2
  <2>2. CASE ~ Serialized
    BY <1>1, <1>2, <2>2 DEF QueueTyped
  <2>. QED  BY <2>1, <2>2
<1>6. \A u \in S : u # t => call[u] = "out"
  BY <1>3, <1>5, EntersAlone
<1>7. Serialized => events'[a] = 0
  BY <1>3, <1>5 DEF QueueInv, Exclusive, MutexHeld, Opposite
<1>8. /\ \A q \in Points \ {"out"} : /\ At(S, q) <=> call[t] = q
                                     /\ At(S, q)' <=> "wait" = q
                                     /\ At(O, q)' <=> At(O, q)
      /\ Exclusive'
      /\ call' \in [Writer \cup Reader -> Points]
  BY <1>1, <1>2, <1>3, <1>4, <1>5, <1>6, <1>7, CallMoves
<1>9. \A X \in {Writer, Reader}, q \in {"copy", "advance", "signal"} : At(X, q)' <=> At(X, q)
  BY <1>1, <1>3, <1>8 DEF Points, Opposite
<1>10. Counted' /\ RingHolds'
  <2>1. events'["get"] = events["get"] /\ events'["put"] = events["put"]
    BY <1>4, <1>5 DEF Semaphores
  <2>. QED  BY <1>1, <1>9, <2>1, RingKept DEF QueueInv
<1>11. QueueTyped'
  BY <1>1, <1>2, <1>5, <1>8 DEF QueueTyped
<1>. QED  BY <1>1, <1>8, <1>10, <1>11 DEF QueueInv

\* The call ends: the mutex is signalled.
LEMMA LeaveKeeps ==
  ASSUME QueueInv, NEW t \in QueueUsers, call[t] \in {"wait", "leave"}, LeaveQueueMutex(t),
         call' = [call EXCEPT ![t] = "out"], UNCHANGED <<mq, msg, chan>>, program' = program
  PROVE  QueueInv'
<1>2. t \in Writer \cup Reader /\ "out" \in Points /\ QueueTyped
  BY Users DEF Points, QueueInv
<1>3. PICK S, O, a, b : Opposite(S, a, O, b) /\ t \in S /\ a = Mutex(t)
  BY <1>2, Sides
<1>4. a \in Semaphores /\ b \in Semaphores /\ a # b /\ a # "get" /\ a # "put"
  BY <1>3 DEF Opposite, Semaphores
<1>5. /\ events' \in [Semaphores -> Nat]
      /\ Serialized => events'[a] = events[a] + 1
      /\ \A s \in Semaphores : s # a => events'[s] = events[s]
  <2>1. /\ Serialized => events' = [events EXCEPT ![a] = @ + 1]
        /\ ~Serialized => events' = events
    BY <1>3 DEF LeaveQueueMutex, SignalEvent
  <2>2. events \in [Semaphores -> Nat] /\ events[a] + 1 \in Nat
    BY <1>2, <1>4 DEF QueueTyped
  <2>. QED  BY <1>4, <2>1, <2>2
<1>6. /\ \A u \in S : u # t => call[u] = "out"
      /\ Serialized => events[a] = 0
  BY <1>3, InCall
<1>7. Serialized => events'[a] = 1
  BY <1>5, <1>6
<1>8. /\ \A q \in Points \ {"out"} : /\ At(S, q) <=> call[t] = q
                                     /\ At(S, q)' <=> "out" = q
                                     /\ At(O, q)' <=> At(O, q)
      /\ Exclusive'
      /\ call' \in [Writer \cup Reader -> Points]
  BY <1>2, <1>3, <1>4, <1>5, <1>6, <1>7, CallMoves
<1>9. \A X \in {Writer, Reader}, q \in {"copy", "advance", "signal"} : At(X, q)' <=> At(X, q)
  BY <1>3, <1>8 DEF Points, Opposite
<1>10. Counted' /\ RingHolds'
  <2>1. events'["get"] = events["get"] /\ events'["put"] = events["put"]
    BY <1>4, <1>5 DEF Semaphores
  <2>. QED  BY <1>9, <2>1, RingKept DEF QueueInv
<1>11. QueueTyped'
  BY <1>2, <1>5, <1>8 DEF QueueTyped
<1>. QED  BY <1>8, <1>10, <1>11 DEF QueueInv

\* A step inside a call, which leaves the mutexes alone.
LEMMA InnerMove ==
  ASSUME QueueInv, NEW t \in QueueUsers, NEW p \in Points, program' = program,
         NEW S, NEW a, NEW O, NEW b, Opposite(S, a, O, b), t \in S,
         call[t] # "out", p # "out", call' = [call EXCEPT ![t] = p],
         events'["mutex_put"] = events["mutex_put"], events'["mutex_get"] = events["mutex_get"]
  PROVE  /\ \A q \in Points \ {"out"} : /\ At(S, q) <=> call[t] = q
                                        /\ At(S, q)' <=> p = q
                                        /\ At(O, q)' <=> At(O, q)
         /\ Exclusive'
         /\ call' \in [Writer \cup Reader -> Points]
<1>1. /\ \A u \in S : u # t => call[u] = "out"
      /\ Serialized => events[a] = 0
  BY InCall
<1>2. events'[a] = events[a] /\ events'[b] = events[b]
  BY DEF Opposite
<1>3. Serialized => events'[a] = IF p = "out" THEN 1 ELSE 0
  BY <1>1, <1>2
<1>. QED  BY <1>1, <1>2, <1>3, CallMoves

\* What the invariant says of the numbers.
LEMMA RingNumbers ==
  ASSUME QueueInv
  PROVE  /\ Len(chan) \in 0 .. Capacity /\ HeadOf \in Slot /\ TailOf \in Slot
         /\ events["get"] \in Nat /\ events["put"] \in Nat
         /\ mq.head \in Slot /\ mq.tail \in Slot
         /\ TailOf = Wrap(HeadOf + Len(chan))
         /\ At(Writer, "copy") => Len(chan) < Capacity
         /\ At(Reader, "copy") => Len(chan) > 0
<1>1. /\ events["get"] \in Nat /\ events["put"] \in Nat /\ Len(chan) \in Nat
      /\ mq.head \in Slot /\ mq.tail \in Slot
  BY DEF QueueInv, QueueTyped, Semaphores
<1>2. HeadOf \in Slot /\ TailOf \in Slot
  BY <1>1, Capacities DEF HeadOf, TailOf, Wrap
<1>3. /\ Len(chan) = events["get"] + Bit(At(Writer, "advance")) + Bit(At(Writer, "signal"))
                     + Bit(At(Reader, "copy"))
      /\ Capacity = Len(chan) + events["put"] + Bit(At(Writer, "copy"))
                    + Bit(At(Reader, "advance")) + Bit(At(Reader, "signal"))
  BY DEF QueueInv, Counted
<1>4. \A c \in BOOLEAN : Bit(c) \in {0, 1} /\ (c => Bit(c) = 1)
  BY DEF Bit
<1>5. /\ Bit(At(Writer, "advance")) \in {0, 1} /\ Bit(At(Writer, "signal")) \in {0, 1}
      /\ Bit(At(Reader, "copy")) \in {0, 1} /\ Bit(At(Writer, "copy")) \in {0, 1}
      /\ Bit(At(Reader, "advance")) \in {0, 1} /\ Bit(At(Reader, "signal")) \in {0, 1}
      /\ At(Writer, "copy") => Bit(At(Writer, "copy")) = 1
      /\ At(Reader, "copy") => Bit(At(Reader, "copy")) = 1
  BY DEF Bit
<1>6. /\ Len(chan) \in 0 .. Capacity
      /\ At(Writer, "copy") => Len(chan) < Capacity
      /\ At(Reader, "copy") => Len(chan) > 0
  BY <1>1, <1>3, <1>5, Capacities
<1>. QED  BY <1>1, <1>2, <1>6 DEF QueueInv, RingHolds

\* The semaphore of the call gives a slot.
LEMMA WaitSucceedsKeeps ==
  ASSUME QueueInv, NEW t \in QueueUsers, WaitSucceeds(t), program' = program
  PROVE  QueueInv' /\ UNCHANGED <<chan, delivered>>
<1>1. /\ call[t] = "wait" /\ call' = [call EXCEPT ![t] = "copy"]
      /\ events[Side(t)] > 0 /\ events' = [events EXCEPT ![Side(t)] = @ - 1]
      /\ UNCHANGED <<mq, msg, chan, delivered>>
  BY DEF WaitSucceeds, WaitEvent
<1>2. t \in Writer \cup Reader /\ "copy" \in Points /\ events \in [Semaphores -> Nat]
  BY Users DEF Points, QueueInv, QueueTyped
<1>3. CASE t \in Writer
  <2>1. /\ events["put"] > 0 /\ events["put"] \in Nat /\ events'["put"] = events["put"] - 1
        /\ events' \in [Semaphores -> Nat] /\ events'["get"] = events["get"]
        /\ events'["mutex_put"] = events["mutex_put"] /\ events'["mutex_get"] = events["mutex_get"]
    BY <1>1, <1>2, <1>3, Sides DEF Semaphores
  <2>2. Opposite(Writer, "mutex_put", Reader, "mutex_get")
    BY <1>3, Sides
  <2>3. /\ \A q \in Points \ {"out"} : /\ At(Writer, q) <=> call[t] = q
                                       /\ At(Writer, q)' <=> "copy" = q
                                       /\ At(Reader, q)' <=> At(Reader, q)
        /\ Exclusive'
        /\ call' \in [Writer \cup Reader -> Points]
    BY <1>1, <1>2, <1>3, <2>1, <2>2, InnerMove
  <2>4. /\ ~ At(Writer, "copy") /\ ~ At(Writer, "advance") /\ ~ At(Writer, "signal")
        /\ At(Writer, "copy")' /\ ~ At(Writer, "advance")' /\ ~ At(Writer, "signal")'
        /\ At(Reader, "copy")' <=> At(Reader, "copy")
        /\ At(Reader, "advance")' <=> At(Reader, "advance")
        /\ At(Reader, "signal")' <=> At(Reader, "signal")
    BY <1>1, <2>3 DEF Points
  <2>5. Counted'
    BY <1>1, <2>1, <2>4, RingNumbers DEF QueueInv, Counted, Bit
  <2>6. RingHolds'
    <3>1. HeadOf' = HeadOf /\ TailOf' = TailOf
      BY <1>1, <2>4 DEF HeadOf, TailOf
    <3>. QED  BY <1>1, <3>1 DEF QueueInv, RingHolds
  <2>7. QueueTyped'
    BY <1>1, <2>1, <2>3 DEF QueueInv, QueueTyped
  <2>. QED  BY <1>1, <2>3, <2>5, <2>6, <2>7 DEF QueueInv
<1>4. CASE t \in Reader
  <2>1. /\ events["get"] > 0 /\ events["get"] \in Nat /\ events'["get"] = events["get"] - 1
        /\ events' \in [Semaphores -> Nat] /\ events'["put"] = events["put"]
        /\ events'["mutex_put"] = events["mutex_put"] /\ events'["mutex_get"] = events["mutex_get"]
    BY <1>1, <1>2, <1>4, Sides DEF Semaphores
  <2>2. Opposite(Reader, "mutex_get", Writer, "mutex_put")
    BY <1>4, Sides
  <2>3. /\ \A q \in Points \ {"out"} : /\ At(Reader, q) <=> call[t] = q
                                       /\ At(Reader, q)' <=> "copy" = q
                                       /\ At(Writer, q)' <=> At(Writer, q)
        /\ Exclusive'
        /\ call' \in [Writer \cup Reader -> Points]
    BY <1>1, <1>2, <1>4, <2>1, <2>2, InnerMove
  <2>4. /\ ~ At(Reader, "copy") /\ ~ At(Reader, "advance") /\ ~ At(Reader, "signal")
        /\ At(Reader, "copy")' /\ ~ At(Reader, "advance")' /\ ~ At(Reader, "signal")'
        /\ At(Writer, "copy")' <=> At(Writer, "copy")
        /\ At(Writer, "advance")' <=> At(Writer, "advance")
        /\ At(Writer, "signal")' <=> At(Writer, "signal")
    BY <1>1, <2>3 DEF Points
  <2>5. Counted'
    BY <1>1, <2>1, <2>4, RingNumbers DEF QueueInv, Counted, Bit
  <2>6. RingHolds'
    <3>1. HeadOf' = HeadOf /\ TailOf' = TailOf
      BY <1>1, <2>4 DEF HeadOf, TailOf
    <3>. QED  BY <1>1, <3>1 DEF QueueInv, RingHolds
  <2>7. QueueTyped'
    BY <1>1, <2>1, <2>3 DEF QueueInv, QueueTyped
  <2>. QED  BY <1>1, <2>3, <2>5, <2>6, <2>7 DEF QueueInv
<1>. QED  BY <1>2, <1>3, <1>4

\* SignalSem on the semaphore of the other side.
LEMMA SignalOtherKeeps ==
  ASSUME QueueInv, NEW t \in QueueUsers, SignalOther(t), program' = program
  PROVE  QueueInv' /\ UNCHANGED <<chan, delivered>>
<1>1. /\ call[t] = "signal" /\ call' = [call EXCEPT ![t] = "leave"]
      /\ events' = [events EXCEPT ![IF t \in Writer THEN "get" ELSE "put"] = @ + 1]
      /\ UNCHANGED <<mq, msg, chan, delivered>>
  BY DEF SignalOther, SignalEvent
<1>2. t \in Writer \cup Reader /\ "leave" \in Points /\ events \in [Semaphores -> Nat]
  BY Users DEF Points, QueueInv, QueueTyped
<1>3. CASE t \in Writer
  <2>1. /\ events["get"] \in Nat /\ events'["get"] = events["get"] + 1
        /\ events' \in [Semaphores -> Nat] /\ events'["put"] = events["put"]
        /\ events'["mutex_put"] = events["mutex_put"] /\ events'["mutex_get"] = events["mutex_get"]
    BY <1>1, <1>2, <1>3, Sides DEF Semaphores
  <2>2. Opposite(Writer, "mutex_put", Reader, "mutex_get")
    BY <1>3, Sides
  <2>3. /\ \A q \in Points \ {"out"} : /\ At(Writer, q) <=> call[t] = q
                                       /\ At(Writer, q)' <=> "leave" = q
                                       /\ At(Reader, q)' <=> At(Reader, q)
        /\ Exclusive'
        /\ call' \in [Writer \cup Reader -> Points]
    BY <1>1, <1>2, <1>3, <2>1, <2>2, InnerMove
  <2>4. /\ ~ At(Writer, "copy") /\ ~ At(Writer, "advance") /\ At(Writer, "signal")
        /\ ~ At(Writer, "copy")' /\ ~ At(Writer, "advance")' /\ ~ At(Writer, "signal")'
        /\ At(Reader, "copy")' <=> At(Reader, "copy")
        /\ At(Reader, "advance")' <=> At(Reader, "advance")
        /\ At(Reader, "signal")' <=> At(Reader, "signal")
    BY <1>1, <2>3 DEF Points
  <2>5. Counted'
    BY <1>1, <2>1, <2>4, RingNumbers DEF QueueInv, Counted, Bit
  <2>6. RingHolds'
    <3>1. HeadOf' = HeadOf /\ TailOf' = TailOf
      BY <1>1, <2>4 DEF HeadOf, TailOf
    <3>. QED  BY <1>1, <3>1 DEF QueueInv, RingHolds
  <2>7. QueueTyped'
    BY <1>1, <2>1, <2>3 DEF QueueInv, QueueTyped
  <2>. QED  BY <1>1, <2>3, <2>5, <2>6, <2>7 DEF QueueInv
<1>4. CASE t \in Reader
  <2>1. /\ events["put"] \in Nat /\ events'["put"] = events["put"] + 1
        /\ events' \in [Semaphores -> Nat] /\ events'["get"] = events["get"]
        /\ events'["mutex_put"] = events["mutex_put"] /\ events'["mutex_get"] = events["mutex_get"]
    BY <1>1, <1>2, <1>4, Sides DEF Semaphores
  <2>2. Opposite(Reader, "mutex_get", Writer, "mutex_put")
    BY <1>4, Sides
  <2>3. /\ \A q \in Points \ {"out"} : /\ At(Reader, q) <=> call[t] = q
                                       /\ At(Reader, q)' <=> "leave" = q
                                       /\ At(Writer, q)' <=> At(Writer, q)
        /\ Exclusive'
        /\ call' \in [Writer \cup Reader -> Points]
    BY <1>1, <1>2, <1>4, <2>1, <2>2, InnerMove
  <2>4. /\ ~ At(Reader, "copy") /\ ~ At(Reader, "advance") /\ At(Reader, "signal")
        /\ ~ At(Reader, "copy")' /\ ~ At(Reader, "advance")' /\ ~ At(Reader, "signal")'
        /\ At(Writer, "copy")' <=> At(Writer, "copy")
        /\ At(Writer, "advance")' <=> At(Writer, "advance")
        /\ At(Writer, "signal")' <=> At(Writer, "signal")
    BY <1>1, <2>3 DEF Points
  <2>5. Counted'
    <3>1. PICK b \in 0 .. 1, c \in 0 .. 1, d \in 0 .. 1 :
            b = Bit(At(Writer, "copy")) /\ c = Bit(At(Writer, "advance")) /\ d = Bit(At(Writer, "signal"))
      BY DEF Bit
    <3>2. /\ Bit(At(Reader, "copy")) = 0 /\ Bit(At(Reader, "advance")) = 0
          /\ Bit(At(Reader, "signal")) = 1
          /\ Bit(At(Reader, "copy"))' = 0 /\ Bit(At(Reader, "advance"))' = 0
          /\ Bit(At(Reader, "signal"))' = 0 /\ Bit(At(Writer, "copy"))' = b
          /\ Bit(At(Writer, "advance"))' = c /\ Bit(At(Writer, "signal"))' = d
      BY <2>4, <3>1 DEF Bit
    <3>3. /\ Len(chan) = events["get"] + c + d + 0
          /\ Capacity = Len(chan) + events["put"] + b + 0 + 1
      BY <3>1, <3>2 DEF QueueInv, Counted
    <3>4. Len(chan) \in Nat /\ events["get"] \in Nat
      BY RingNumbers
    <3>5. /\ Len(chan') = events'["get"] + c + d + 0
          /\ Capacity = Len(chan') + events'["put"] + b + 0 + 0
      <4>1. b \in 0 .. 1 /\ c \in 0 .. 1 /\ d \in 0 .. 1 /\ Capacity \in Nat
        BY <3>1, Capacities
      <4>2. Len(chan') = Len(chan)
        BY <1>1
      <4>3. \A x, y, z \in Nat : x + y + z + 0 + 1 = x + (y + 1) + z + 0 + 0
        OBVIOUS
      <4>4. events'["put"] = events["put"] + 1 /\ events'["get"] = events["get"]
        BY <2>1
      <4>5. Len(chan) + events["put"] + b + 0 + 1 = Len(chan) + (events["put"] + 1) + b + 0 + 0
        BY <2>1, <3>4, <4>1, <4>3
      <4>. QED  BY <3>3, <4>2, <4>4, <4>5
    <3>. QED  BY <3>2, <3>5 DEF Counted
  <2>6. RingHolds'
    <3>1. HeadOf' = HeadOf /\ TailOf' = TailOf
      BY <1>1, <2>4 DEF HeadOf, TailOf
    <3>. QED  BY <1>1, <3>1 DEF QueueInv, RingHolds
  <2>7. QueueTyped'
    BY <1>1, <2>1, <2>3 DEF QueueInv, QueueTyped
  <2>. QED  BY <1>1, <2>3, <2>5, <2>6, <2>7 DEF QueueInv
<1>. QED  BY <1>2, <1>3, <1>4

\* The pointer moves on, to the position the ring already counts with.
LEMMA AdvanceKeeps ==
  ASSUME QueueInv, NEW t \in QueueUsers, Advance(t), program' = program
  PROVE  QueueInv' /\ UNCHANGED <<chan, delivered>>
<1>1. /\ call[t] = "advance" /\ call' = [call EXCEPT ![t] = "signal"]
      /\ mq' = IF t \in Writer THEN [mq EXCEPT !.tail = (@ + 1) % Capacity]
                               ELSE [mq EXCEPT !.head = (@ + 1) % Capacity]
      /\ UNCHANGED <<events, msg, chan, delivered>>
  BY DEF Advance
<1>2. /\ t \in Writer \cup Reader /\ "signal" \in Points
      /\ mq \in [buf : [Slot -> Message], head : Slot, tail : Slot]
  BY Users DEF Points, QueueInv, QueueTyped
<1>5. ASSUME NEW n \in Slot
      PROVE  (n + 1) % Capacity = Wrap(n + 1) /\ Wrap(n + 1) \in Slot
  <2>1. n + 1 \in Nat /\ n + 1 < 2 * Capacity
    BY Capacities
  <2>. QED  BY <2>1, WrapIs
<1>3. CASE t \in Writer
  <2>1. /\ mq'.buf = mq.buf /\ mq'.head = mq.head /\ mq'.tail = Wrap(mq.tail + 1)
        /\ mq' \in [buf : [Slot -> Message], head : Slot, tail : Slot]
    BY <1>1, <1>2, <1>3, <1>5, Sides
  <2>2. Opposite(Writer, "mutex_put", Reader, "mutex_get")
    BY <1>3, Sides
  <2>3. /\ \A q \in Points \ {"out"} : /\ At(Writer, q) <=> call[t] = q
                                       /\ At(Writer, q)' <=> "signal" = q
                                       /\ At(Reader, q)' <=> At(Reader, q)
        /\ Exclusive'
        /\ call' \in [Writer \cup Reader -> Points]
    BY <1>1, <1>2, <1>3, <2>1, <2>2, InnerMove
  <2>4. /\ ~ At(Writer, "copy") /\ At(Writer, "advance") /\ ~ At(Writer, "signal")
        /\ ~ At(Writer, "copy")' /\ ~ At(Writer, "advance")' /\ At(Writer, "signal")'
        /\ At(Reader, "copy")' <=> At(Reader, "copy")
        /\ At(Reader, "advance")' <=> At(Reader, "advance")
        /\ At(Reader, "signal")' <=> At(Reader, "signal")
    BY <1>1, <2>3 DEF Points
  <2>5. Counted'
    BY <1>1, <2>4, RingNumbers DEF QueueInv, Counted, Bit
  <2>6. RingHolds'
    <3>1. HeadOf' = HeadOf /\ TailOf' = TailOf
      BY <2>1, <2>4 DEF HeadOf, TailOf
    <3>. QED  BY <1>1, <2>1, <3>1 DEF QueueInv, RingHolds
  <2>7. QueueTyped'
    BY <1>1, <2>1, <2>3 DEF QueueInv, QueueTyped
  <2>. QED  BY <1>1, <2>3, <2>5, <2>6, <2>7 DEF QueueInv
<1>4. CASE t \in Reader
  <2>1. /\ mq'.buf = mq.buf /\ mq'.tail = mq.tail /\ mq'.head = Wrap(mq.head + 1)
        /\ mq' \in [buf : [Slot -> Message], head : Slot, tail : Slot]
    BY <1>1, <1>2, <1>4, <1>5, Sides
  <2>2. Opposite(Reader, "mutex_get", Writer, "mutex_put")
    BY <1>4, Sides
  <2>3. /\ \A q \in Points \ {"out"} : /\ At(Reader, q) <=> call[t] = q
                                       /\ At(Reader, q)' <=> "signal" = q
                                       /\ At(Writer, q)' <=> At(Writer, q)
        /\ Exclusive'
        /\ call' \in [Writer \cup Reader -> Points]
    BY <1>1, <1>2, <1>4, <2>1, <2>2, InnerMove
  <2>4. /\ ~ At(Reader, "copy") /\ At(Reader, "advance") /\ ~ At(Reader, "signal")
        /\ ~ At(Reader, "copy")' /\ ~ At(Reader, "advance")' /\ At(Reader, "signal")'
        /\ At(Writer, "copy")' <=> At(Writer, "copy")
        /\ At(Writer, "advance")' <=> At(Writer, "advance")
        /\ At(Writer, "signal")' <=> At(Writer, "signal")
    BY <1>1, <2>3 DEF Points
  <2>5. Counted'
    BY <1>1, <2>4, RingNumbers DEF QueueInv, Counted, Bit
  <2>6. RingHolds'
    <3>1. HeadOf' = HeadOf /\ TailOf' = TailOf
      BY <2>1, <2>4 DEF HeadOf, TailOf
    <3>. QED  BY <1>1, <2>1, <3>1 DEF QueueInv, RingHolds
  <2>7. QueueTyped'
    BY <1>1, <2>1, <2>3 DEF QueueInv, QueueTyped
  <2>. QED  BY <1>1, <2>3, <2>5, <2>6, <2>7 DEF QueueInv
<1>. QED  BY <1>2, <1>3, <1>4

\* The positions of a ring when it grows at the tail and shrinks at the head.
LEMMA RingSteps ==
  ASSUME NEW h \in Slot, NEW n \in Nat, n < Capacity
  PROVE  /\ Wrap(h + n) \in Slot
         /\ Wrap(Wrap(h + n) + 1) = Wrap(h + (n + 1))
         /\ Wrap(h + 1) \in Slot
         /\ Wrap(Wrap(h + 1) + n) = Wrap(h + (n + 1))
         /\ \A i \in 1 .. n : Wrap(h + i - 1) \in Slot /\ Wrap(h + i - 1) # Wrap(h + n)
         /\ \A i \in 1 .. n : Wrap(Wrap(h + 1) + i - 1) = Wrap(h + (i + 1) - 1)
BY Capacities DEF Wrap

\* put_msg copies: the message is in the channel.
LEMMA put_copiesKeeps ==
  ASSUME QueueInv, NEW t \in QueueUsers, put_copies(t), program' = program
  PROVE  QueueInv' /\ Fifo!Put
<1>1. /\ call[t] = "copy" /\ call' = [call EXCEPT ![t] = "advance"]
      /\ mq' = [mq EXCEPT !.buf[mq.tail] = msg[t]]
      /\ chan' = Append(chan, msg[t]) /\ t \in Writer
      /\ UNCHANGED <<events, msg, delivered>>
  BY DEF put_copies
<1>2. /\ "advance" \in Points /\ chan \in Seq(Message) /\ msg[t] \in Message
      /\ mq \in [buf : [Slot -> Message], head : Slot, tail : Slot]
  BY <1>1 DEF Points, QueueInv, QueueTyped
<1>3. /\ mq'.buf = [mq.buf EXCEPT ![mq.tail] = msg[t]] /\ mq'.head = mq.head /\ mq'.tail = mq.tail
      /\ mq' \in [buf : [Slot -> Message], head : Slot, tail : Slot]
  BY <1>1, <1>2
<1>4. Opposite(Writer, "mutex_put", Reader, "mutex_get")
  BY <1>1, Sides
<1>5. /\ \A q \in Points \ {"out"} : /\ At(Writer, q) <=> call[t] = q
                                     /\ At(Writer, q)' <=> "advance" = q
                                     /\ At(Reader, q)' <=> At(Reader, q)
      /\ Exclusive'
      /\ call' \in [Writer \cup Reader -> Points]
  BY <1>1, <1>2, <1>4, InnerMove
<1>6. /\ At(Writer, "copy") /\ ~ At(Writer, "advance") /\ ~ At(Writer, "signal")
      /\ ~ At(Writer, "copy")' /\ At(Writer, "advance")' /\ ~ At(Writer, "signal")'
      /\ At(Reader, "copy")' <=> At(Reader, "copy")
      /\ At(Reader, "advance")' <=> At(Reader, "advance")
      /\ At(Reader, "signal")' <=> At(Reader, "signal")
  BY <1>1, <1>5 DEF Points
<1>. DEFINE L == Len(chan)
            H == HeadOf
<1>7. /\ L \in Nat /\ L < Capacity /\ H \in Slot /\ mq.tail = Wrap(H + L)
      /\ Len(chan') = L + 1 /\ HeadOf' = H /\ TailOf' = Wrap(mq.tail + 1)
  <2>1. L \in Nat /\ L < Capacity /\ H \in Slot /\ TailOf = Wrap(H + L)
    BY <1>6, RingNumbers
  <2>2. TailOf = mq.tail /\ HeadOf' = H /\ TailOf' = Wrap(mq.tail + 1)
    BY <1>3, <1>6 DEF TailOf, HeadOf
  <2>. QED  BY <1>1, <1>2, <2>1, <2>2
<1>8. \A i \in 1 .. L : chan[i] = mq.buf[Wrap(H + i - 1)]
  BY DEF QueueInv, RingHolds
<1>. HIDE DEF L, H
<1>9. Counted'
  <2>1. PICK b \in 0 .. 1, c \in 0 .. 1, d \in 0 .. 1 :
          b = Bit(At(Reader, "copy")) /\ c = Bit(At(Reader, "advance")) /\ d = Bit(At(Reader, "signal"))
    BY DEF Bit
  <2>2. /\ Bit(At(Writer, "copy")) = 1 /\ Bit(At(Writer, "advance")) = 0
        /\ Bit(At(Writer, "signal")) = 0
        /\ Bit(At(Writer, "copy"))' = 0 /\ Bit(At(Writer, "advance"))' = 1
        /\ Bit(At(Writer, "signal"))' = 0 /\ Bit(At(Reader, "copy"))' = b
        /\ Bit(At(Reader, "advance"))' = c /\ Bit(At(Reader, "signal"))' = d
    BY <1>6, <2>1 DEF Bit
  <2>3. /\ Len(chan) = events["get"] + 0 + 0 + b
        /\ Capacity = Len(chan) + events["put"] + 1 + c + d
    BY <2>1, <2>2 DEF QueueInv, Counted
  <2>6. b \in 0 .. 1 /\ c \in 0 .. 1 /\ d \in 0 .. 1 /\ Capacity \in Nat
    BY <2>1, Capacities
  <2>4. /\ events["get"] \in Nat /\ events["put"] \in Nat
        /\ events'["get"] = events["get"] /\ events'["put"] = events["put"]
        /\ Len(chan') = Len(chan) + 1 /\ Len(chan) \in Nat
    BY <1>1, <1>7, RingNumbers DEF L
  <2>5. Len(chan') = events'["get"] + 1 + 0 + b
    BY <2>3, <2>4, <2>6
  <2>7. Capacity = Len(chan') + events'["put"] + 0 + c + d
    <3>1. Len(chan') = Len(chan) + 1
      BY <2>4
    <3>2. Capacity = Len(chan) + events["put"] + 1 + c + d
      BY <2>3
    <3>3. Len(chan) \in Nat /\ events["put"] \in Nat /\ events'["put"] = events["put"]
      BY <2>4
    <3>. QED  BY <2>6, <3>1, <3>2, <3>3
  <2>. QED  BY <2>2, <2>5, <2>7 DEF Counted
<1>10. RingHolds'
  <2>1. /\ Wrap(H + L) \in Slot
        /\ Wrap(Wrap(H + L) + 1) = Wrap(H + (L + 1))
        /\ \A i \in 1 .. L : Wrap(H + i - 1) \in Slot /\ Wrap(H + i - 1) # Wrap(H + L)
    BY <1>7, RingSteps
  <2>2. TailOf' = Wrap(HeadOf' + Len(chan'))
    BY <1>7, <2>1
  <2>3. ASSUME NEW i \in 1 .. L + 1
        PROVE  chan'[i] = mq'.buf[Wrap(H + i - 1)]
    <3>1. CASE i = L + 1
      <4>1. chan'[i] = msg[t]
        BY <1>1, <1>2, <3>1 DEF L
      <4>2. H + i - 1 = H + L
        BY <1>7, <3>1, Capacities
      <4>3. mq'.buf[Wrap(H + L)] = msg[t]
        BY <1>2, <1>3, <1>7, <2>1
      <4>. QED  BY <4>1, <4>2, <4>3
    <3>2. CASE i # L + 1
      <4>1. i \in 1 .. L
        BY <1>7, <3>2
      <4>2. chan'[i] = chan[i]
        BY <1>1, <1>2, <4>1 DEF L
      <4>3. mq'.buf[Wrap(H + i - 1)] = mq.buf[Wrap(H + i - 1)]
        BY <1>2, <1>3, <1>7, <2>1, <4>1
      <4>. QED  BY <1>8, <4>1, <4>2, <4>3
    <3>. QED  BY <3>1, <3>2
  <2>4. \A i \in 1 .. Len(chan') : chan'[i] = mq'.buf[Wrap(HeadOf' + i - 1)]
    BY <1>7, <2>3
  <2>. QED  BY <2>2, <2>4 DEF RingHolds
<1>11. QueueTyped'
  BY <1>1, <1>2, <1>3, <1>5 DEF QueueInv, QueueTyped
<1>12. Fifo!Put
  <2>1. Len(chan) < Len(chan') /\ Len(chan') <= Capacity
    BY <1>7, Capacities DEF L
  <2>2. SubSeq(chan', 1, Len(chan)) = chan
    BY <1>1, <1>2
  <2>. QED  BY <1>1, <2>1, <2>2 DEF Fifo!Put
<1>. QED  BY <1>5, <1>9, <1>10, <1>11, <1>12 DEF QueueInv

\* get_msg copies: the message is out of the channel.
LEMMA get_copiesKeeps ==
  ASSUME QueueInv, NEW t \in QueueUsers, get_copies(t), program' = program
  PROVE  QueueInv' /\ Fifo!Get
<1>1. /\ call[t] = "copy" /\ call' = [call EXCEPT ![t] = "advance"]
      /\ msg' = [msg EXCEPT ![t] = mq.buf[mq.head]]
      /\ delivered' = <<mq.buf[mq.head]>> /\ chan' = Tail(chan) /\ t \in Reader
      /\ UNCHANGED <<events, mq>>
  BY DEF get_copies
<1>2. /\ "advance" \in Points /\ chan \in Seq(Message)
      /\ mq \in [buf : [Slot -> Message], head : Slot, tail : Slot]
      /\ events \in [Semaphores -> Nat]
  BY <1>1 DEF Points, QueueInv, QueueTyped
<1>3. mq.buf[mq.head] \in Message
  BY <1>2
<1>4. Opposite(Reader, "mutex_get", Writer, "mutex_put")
  BY <1>1, Sides
<1>5. /\ \A q \in Points \ {"out"} : /\ At(Reader, q) <=> call[t] = q
                                     /\ At(Reader, q)' <=> "advance" = q
                                     /\ At(Writer, q)' <=> At(Writer, q)
      /\ Exclusive'
      /\ call' \in [Writer \cup Reader -> Points]
  BY <1>1, <1>2, <1>4, InnerMove
<1>6. /\ At(Reader, "copy") /\ ~ At(Reader, "advance") /\ ~ At(Reader, "signal")
      /\ ~ At(Reader, "copy")' /\ At(Reader, "advance")' /\ ~ At(Reader, "signal")'
      /\ At(Writer, "copy")' <=> At(Writer, "copy")
      /\ At(Writer, "advance")' <=> At(Writer, "advance")
      /\ At(Writer, "signal")' <=> At(Writer, "signal")
  BY <1>1, <1>5 DEF Points
<1>. DEFINE L == Len(chan) - 1
            H == mq.head
<1>7. /\ L \in Nat /\ L < Capacity /\ H \in Slot /\ TailOf = Wrap(H + (L + 1))
      /\ Len(chan) = L + 1 /\ HeadOf = H
      /\ HeadOf' = Wrap(H + 1) /\ TailOf' = TailOf
  <2>1. Len(chan) \in Nat /\ Len(chan) > 0 /\ Len(chan) <= Capacity /\ mq.head \in Slot
    BY <1>6, RingNumbers, Capacities
  <2>2. HeadOf = mq.head /\ TailOf = Wrap(HeadOf + Len(chan))
    BY <1>6, RingNumbers DEF HeadOf
  <2>3. HeadOf' = Wrap(mq.head + 1) /\ TailOf' = TailOf
    BY <1>1, <1>6 DEF TailOf, HeadOf
  <2>4. L \in Nat /\ L < Capacity /\ Len(chan) = L + 1
    BY <2>1, Capacities
  <2>. QED  BY <2>1, <2>2, <2>3, <2>4
<1>8. \A i \in 1 .. L + 1 : chan[i] = mq.buf[Wrap(H + i - 1)]
  BY <1>7 DEF QueueInv, RingHolds
<1>9. Len(chan') = L /\ \A i \in 1 .. L : chan'[i] = chan[i + 1]
  BY <1>1, <1>2, <1>7
<1>. HIDE DEF L, H
<1>10. Counted'
  <2>1. PICK b \in 0 .. 1, c \in 0 .. 1, d \in 0 .. 1 :
          b = Bit(At(Writer, "copy")) /\ c = Bit(At(Writer, "advance")) /\ d = Bit(At(Writer, "signal"))
    BY DEF Bit
  <2>2. /\ Bit(At(Reader, "copy")) = 1 /\ Bit(At(Reader, "advance")) = 0
        /\ Bit(At(Reader, "signal")) = 0
        /\ Bit(At(Reader, "copy"))' = 0 /\ Bit(At(Reader, "advance"))' = 1
        /\ Bit(At(Reader, "signal"))' = 0 /\ Bit(At(Writer, "copy"))' = b
        /\ Bit(At(Writer, "advance"))' = c /\ Bit(At(Writer, "signal"))' = d
    BY <1>6, <2>1 DEF Bit
  <2>3. /\ Len(chan) = events["get"] + c + d + 1
        /\ Capacity = Len(chan) + events["put"] + b + 0 + 0
    BY <2>1, <2>2 DEF QueueInv, Counted
  <2>6. b \in 0 .. 1 /\ c \in 0 .. 1 /\ d \in 0 .. 1 /\ Capacity \in Nat
    BY <2>1, Capacities
  <2>4. /\ events["get"] \in Nat /\ events["put"] \in Nat
        /\ events'["get"] = events["get"] /\ events'["put"] = events["put"]
        /\ Len(chan) = Len(chan') + 1 /\ Len(chan') \in Nat
    BY <1>1, <1>7, <1>9, RingNumbers
  <2>5. Len(chan') = events'["get"] + c + d + 0
    <3>1. Len(chan) = Len(chan') + 1 /\ Len(chan) = events["get"] + c + d + 1
      BY <2>3, <2>4
    <3>2. Len(chan') \in Nat /\ events["get"] \in Nat /\ events'["get"] = events["get"]
      BY <2>4
    <3>. QED  BY <2>6, <3>1, <3>2
  <2>7. Capacity = Len(chan') + events'["put"] + b + 1 + 0
    <3>1. Len(chan) = Len(chan') + 1
      BY <2>4
    <3>2. Capacity = Len(chan) + events["put"] + b + 0 + 0
      BY <2>3
    <3>3. Len(chan') \in Nat /\ events["put"] \in Nat /\ events'["put"] = events["put"]
      BY <2>4
    <3>. QED  BY <2>6, <3>1, <3>2, <3>3
  <2>. QED  BY <2>2, <2>5, <2>7 DEF Counted
<1>11. /\ Wrap(Wrap(H + 1) + L) = Wrap(H + (L + 1))
       /\ \A i \in 1 .. L : Wrap(Wrap(H + 1) + i - 1) = Wrap(H + (i + 1) - 1)
  BY <1>7, RingSteps
<1>12. RingHolds'
  <2>1. TailOf' = Wrap(HeadOf' + Len(chan'))
    BY <1>7, <1>9, <1>11
  <2>2. ASSUME NEW i \in 1 .. L
        PROVE  chan'[i] = mq.buf[Wrap(Wrap(H + 1) + i - 1)]
    <3>1. i + 1 \in 1 .. L + 1
      BY <1>7
    <3>. QED  BY <1>8, <1>9, <1>11, <3>1
  <2>. QED  BY <1>1, <1>7, <1>9, <2>1, <2>2 DEF RingHolds
<1>13. QueueTyped'
  <2>1. chan' \in Seq(Message)
    BY <1>1, <1>2, <1>7
  <2>. QED  BY <1>1, <1>2, <1>3, <1>5, <2>1 DEF QueueInv, QueueTyped
<1>14. Fifo!Get
  <2>1. 1 \in 1 .. Len(chan)
    BY <1>7
  <2>2. chan[1] = mq.buf[mq.head]
    <3>1. Wrap(H + 1 - 1) = H
      BY <1>7, Capacities DEF Wrap
    <3>. QED  BY <1>7, <1>8, <3>1 DEF H
  <2>3. SubSeq(chan, 1, 1) = <<chan[1]>>
    <3>1. SubSeq(chan, 1, 1) = [i \in 1 .. 1 |-> chan[i]]
      BY <1>2, <2>1
    <3>2. \A x : <<x>> = [i \in 1 .. 1 |-> x]
      OBVIOUS
    <3>3. [i \in 1 .. 1 |-> chan[i]] = [i \in 1 .. 1 |-> chan[1]]
      OBVIOUS
    <3>. QED  BY <3>1, <3>2, <3>3
  <2>4. Tail(chan) = SubSeq(chan, 1 + 1, Len(chan))
    BY <1>2, <2>1
  <2>. QED  BY <1>1, <2>1, <2>2, <2>3, <2>4 DEF Fifo!Get
<1>. QED  BY <1>5, <1>10, <1>12, <1>13, <1>14 DEF QueueInv

\* Every step of a user of a message queue, and what it is to the channel.
LEMMA QueueStepKeeps ==
  ASSUME QueueInv, NEW t \in QueueUsers, QueueStep(t), program' = program
  PROVE  QueueInv' /\ (Fifo!Next \/ UNCHANGED <<chan, delivered>>)
<1>1. ASSUME NEW m \in Message, EnterQueue(t, IF t \in Writer THEN m ELSE msg[t])
      PROVE  QueueInv' /\ UNCHANGED <<chan, delivered>>
  <2>. DEFINE x == IF t \in Writer THEN m ELSE msg[t]
  <2>1. x \in Message
    BY Users DEF QueueInv, QueueTyped
  <2>2. EnterQueue(t, x)
    BY <1>1
  <2>. HIDE DEF x
  <2>. QED  BY <2>1, <2>2, EnterQueueKeeps
<1>2. CASE WaitExpires(t)
  BY <1>2, LeaveKeeps DEF WaitExpires
<1>3. CASE LeaveQueue(t)
  BY <1>3, LeaveKeeps DEF LeaveQueue
<1>. QED  BY <1>1, <1>2, <1>3, WaitSucceedsKeeps, put_copiesKeeps, get_copiesKeeps,
          AdvanceKeeps, SignalOtherKeeps DEF QueueStep, Fifo!Next

-----------------------------------------------------------------------------
(***************************************************************************)
(* Pipes.                                                                  *)
(***************************************************************************)

Byte == Writer \X Nat

\* A task is in a call to the pipe.
InPipe(t) == req[t].in # "out"

PipeTyped ==
  /\ events \in [Semaphores -> Nat]
  /\ pipe \in [buf : [Slot -> Byte], head : Slot, tail : Slot, avail : 0 .. Capacity]
  /\ req \in [Writer \cup Reader ->
                [in : {"out", "call", "wait"}, size : Nat, all : BOOLEAN, data : Seq(Byte)]]
  /\ chan \in Seq(Byte)

\* A call has bytes to move, and the sleepers are in one.
Requests ==
  /\ \A t \in Writer \cup Reader : IF InPipe(t) THEN Len(req[t].data) < req[t].size
                                                ELSE req[t] = Outside
  /\ asleep \subseteq {t \in Writer \cup Reader : req[t].in = "wait"}

\* One task of a side is in a call: the only user, or the one with the mutex.
PipeSide(S, m) ==
  /\ \A t, u \in S : InPipe(t) /\ InPipe(u) => t = u
  /\ program = "pipe" => /\ events[m] \in {0, 1}
                         /\ events[m] = 1 => \A t \in S : ~InPipe(t)

PipeUsersOnly == \A t \in Writer \cup Reader : t \notin PipeUsers => ~InPipe(t)

PipeExclusive ==
  PipeUsersOnly /\ PipeSide(Writer, "mutex_put") /\ PipeSide(Reader, "mutex_get")

\* The ring holds what has been written and not read, in order.
PipeRing ==
  /\ Len(chan) = pipe.avail /\ pipe.tail = Wrap(pipe.head + pipe.avail)
  /\ \A i \in 1 .. pipe.avail : chan[i] = pipe.buf[Wrap(pipe.head + i - 1)]

\* The i-th byte of one sequence followed by another.
Joint(d, c, i) == IF i <= Len(d) THEN d[i] ELSE c[i - Len(d)]
JointWhole(d, c) ==
  \A i \in 1 .. Len(d) + Len(c) - 1 : Follows(Joint(d, c, i), Joint(d, c, i + 1))
JointLast(d, c, x) == Len(d) + Len(c) > 0 => Joint(d, c, Len(d) + Len(c)) = x

\* What a reader has collected goes on with what is in the pipe, which ends with
\* what a writer in a call wrote last.
Flow ==
  \A r \in Reader :
    /\ JointWhole(req[r].data, chan)
    /\ \A t \in Writer : Len(req[t].data) > 0
                         => JointLast(req[r].data, chan, <<t, Len(req[t].data)>>)

PipeInv ==
  PipeTyped /\ Requests /\ PipeExclusive /\ PipeRing /\ NoneAsleepOverData /\ Flow

\* A reader collects the first n bytes of the pipe: together they are the same.
LEMMA JointTaken ==
  ASSUME NEW d \in Seq(Byte), NEW c \in Seq(Byte), NEW n \in 0 .. Len(c),
         NEW e \in Seq(Byte), Len(e) = Len(d) + n,
         \A i \in 1 .. Len(d) : e[i] = d[i],
         \A i \in 1 .. n : e[Len(d) + i] = c[i]
  PROVE  /\ JointWhole(d, c) => JointWhole(e, SubSeq(c, n + 1, Len(c)))
         /\ \A x : JointLast(d, c, x) => JointLast(e, SubSeq(c, n + 1, Len(c)), x)
<1>. DEFINE f == SubSeq(c, n + 1, Len(c))
<1>1. Len(f) = Len(c) - n /\ \A j \in 1 .. Len(c) - n : f[j] = c[n + j]
  OBVIOUS
<1>2. Len(d) \in Nat /\ Len(c) \in Nat /\ n \in Nat /\ n <= Len(c)
  OBVIOUS
<1>. HIDE DEF f
<1>3. Len(e) + Len(f) = Len(d) + Len(c)
  BY <1>1, <1>2
<1>4. ASSUME NEW i \in 1 .. Len(d) + Len(c)
      PROVE  Joint(e, f, i) = Joint(d, c, i)
  <2>1. CASE i <= Len(d)
    <3>1. i <= Len(e) /\ i \in 1 .. Len(d)
      BY <1>2, <2>1
    <3>. QED  BY <2>1, <3>1 DEF Joint
  <2>2. CASE i > Len(d) /\ i <= Len(e)
    <3>1. i - Len(d) \in 1 .. n /\ Len(d) + (i - Len(d)) = i /\ ~ (i <= Len(d))
      BY <1>2, <2>2
    <3>2. e[Len(d) + (i - Len(d))] = c[i - Len(d)]
      BY <3>1
    <3>. QED  BY <2>2, <3>1, <3>2 DEF Joint
  <2>3. CASE i > Len(e)
    <3>1. /\ i - Len(e) \in 1 .. Len(c) - n /\ n + (i - Len(e)) = i - Len(d)
          /\ ~ (i <= Len(d)) /\ ~ (i <= Len(e))
      BY <1>2, <2>3
    <3>. QED  BY <1>1, <3>1 DEF Joint
  <2>. QED  BY <1>2, <2>1, <2>2, <2>3
<1>5. JointWhole(d, c) => JointWhole(e, f)
  <2>1. ASSUME JointWhole(d, c), NEW i \in 1 .. Len(d) + Len(c) - 1
        PROVE  Follows(Joint(e, f, i), Joint(e, f, i + 1))
    <3>1. i \in 1 .. Len(d) + Len(c) /\ i + 1 \in 1 .. Len(d) + Len(c)
      BY <1>2
    <3>2. Follows(Joint(d, c, i), Joint(d, c, i + 1))
      BY <2>1 DEF JointWhole
    <3>. QED  BY <1>4, <3>1, <3>2
  <2>. QED  BY <1>3, <2>1 DEF JointWhole
<1>6. \A x : JointLast(d, c, x) => JointLast(e, f, x)
  <2>1. Len(d) + Len(c) > 0 => Len(d) + Len(c) \in 1 .. Len(d) + Len(c)
    BY <1>2
  <2>. QED  BY <1>3, <1>4, <2>1 DEF JointLast
<1>. QED  BY <1>5, <1>6 DEF f

\* The call of a reader ends: its bytes are away, and the first n of the pipe.
LEMMA JointDropped ==
  ASSUME NEW d \in Seq(Byte), NEW c \in Seq(Byte), NEW n \in 0 .. Len(c)
  PROVE  /\ JointWhole(d, c) => JointWhole(<<>>, SubSeq(c, n + 1, Len(c)))
         /\ \A x : JointLast(d, c, x) => JointLast(<<>>, SubSeq(c, n + 1, Len(c)), x)
<1>. DEFINE f == SubSeq(c, n + 1, Len(c))
            e == << >>
            k == Len(d) + n
<1>1. /\ Len(f) = Len(c) - n /\ \A j \in 1 .. Len(c) - n : f[j] = c[n + j]
      /\ Len(e) = 0
  OBVIOUS
<1>2. Len(d) \in Nat /\ Len(c) \in Nat /\ n \in Nat /\ n <= Len(c)
  OBVIOUS
<1>. HIDE DEF f, e
<1>3. Len(e) + Len(f) = Len(d) + Len(c) - k /\ k \in Nat /\ k <= Len(d) + Len(c)
  BY <1>1, <1>2
<1>4. ASSUME NEW i \in 1 .. Len(d) + Len(c) - k
      PROVE  Joint(e, f, i) = Joint(d, c, k + i)
  <2>1. i - 0 = i /\ i \in 1 .. Len(c) - n /\ ~ (i <= 0)
    BY <1>2
  <2>2. ~ (k + i <= Len(d)) /\ (k + i) - Len(d) = n + i
    BY <1>2
  <2>. QED  BY <1>1, <2>1, <2>2 DEF Joint
<1>. HIDE DEF k
<1>5. JointWhole(d, c) => JointWhole(e, f)
  <2>1. ASSUME JointWhole(d, c), NEW i \in 1 .. Len(d) + Len(c) - k - 1
        PROVE  Follows(Joint(e, f, i), Joint(e, f, i + 1))
    <3>1. /\ i \in 1 .. Len(d) + Len(c) - k /\ i + 1 \in 1 .. Len(d) + Len(c) - k
          /\ k + i \in 1 .. Len(d) + Len(c) - 1 /\ (k + i) + 1 = k + (i + 1)
      BY <1>2, <1>3
    <3>2. Follows(Joint(d, c, k + i), Joint(d, c, (k + i) + 1))
      BY <2>1, <3>1 DEF JointWhole
    <3>. QED  BY <1>4, <3>1, <3>2
  <2>. QED  BY <1>3, <2>1 DEF JointWhole
<1>6. \A x : JointLast(d, c, x) => JointLast(e, f, x)
  <2>1. Len(d) + Len(c) - k > 0
        => /\ Len(d) + Len(c) - k \in 1 .. Len(d) + Len(c) - k
           /\ k + (Len(d) + Len(c) - k) = Len(d) + Len(c) /\ Len(d) + Len(c) > 0
    BY <1>2, <1>3
  <2>. QED  BY <1>3, <1>4, <2>1 DEF JointLast
<1>. QED  BY <1>5, <1>6 DEF f, e

\* A writer that had m bytes in the pipe writes n more.
LEMMA JointGiven ==
  ASSUME NEW d \in Seq(Byte), NEW c \in Seq(Byte), NEW t \in Writer, NEW m \in Nat,
         NEW n \in Nat, JointWhole(d, c), m > 0 => JointLast(d, c, <<t, m>>),
         NEW e \in Seq(Byte), Len(e) = Len(c) + n,
         \A i \in 1 .. Len(c) : e[i] = c[i],
         \A i \in 1 .. n : e[Len(c) + i] = <<t, m + i>>
  PROVE  /\ JointWhole(d, e)
         /\ n > 0 => JointLast(d, e, <<t, m + n>>)
<1>2. Len(d) \in Nat /\ Len(c) \in Nat
  OBVIOUS
<1>. DEFINE k == Len(d) + Len(c)
<1>3. Len(d) + Len(e) = k + n
  BY <1>2
<1>4. ASSUME NEW i \in 1 .. k PROVE Joint(d, e, i) = Joint(d, c, i)
  <2>1. ~ (i <= Len(d)) => i - Len(d) \in 1 .. Len(c)
    BY <1>2
  <2>. QED  BY <2>1 DEF Joint
<1>5. ASSUME NEW i \in 1 .. n PROVE Joint(d, e, k + i) = <<t, m + i>>
  <2>1. ~ (k + i <= Len(d)) /\ (k + i) - Len(d) = Len(c) + i
    BY <1>2
  <2>. QED  BY <2>1 DEF Joint
<1>6. k \in Nat
  BY <1>2
<1>7. k > 0 /\ m > 0 => Joint(d, c, k) = <<t, m>>
  BY DEF JointLast
<1>. HIDE DEF k
<1>8. ASSUME NEW i \in 1 .. k + n - 1 PROVE Follows(Joint(d, e, i), Joint(d, e, i + 1))
  <2>1. CASE i < k
    <3>1. i \in 1 .. k - 1 /\ i \in 1 .. k /\ i + 1 \in 1 .. k
      BY <1>6, <2>1
    <3>2. Follows(Joint(d, c, i), Joint(d, c, i + 1))
      BY <3>1 DEF JointWhole, k
    <3>. QED  BY <1>4, <3>1, <3>2
  <2>2. CASE i = k
    <3>1. i \in 1 .. k /\ 1 \in 1 .. n /\ k > 0 /\ i + 1 = k + 1
      BY <1>6, <2>2
    <3>2. Joint(d, e, k + 1) = <<t, m + 1>>
      BY <1>5, <3>1
    <3>3. CASE m = 0
      BY <2>2, <3>2, <3>3 DEF Follows
    <3>4. CASE m > 0
      <4>1. Joint(d, e, k) = <<t, m>>
        BY <1>4, <1>7, <2>2, <3>1, <3>4
      <4>2. <<t, m>>[1] = t /\ <<t, m>>[2] = m
        OBVIOUS
      <4>. QED  BY <2>2, <3>2, <4>1, <4>2 DEF Follows
    <3>. QED  BY <3>3, <3>4
  <2>3. CASE i > k
    <3>1. /\ i - k \in 1 .. n /\ (i - k) + 1 \in 1 .. n /\ k + (i - k) = i
          /\ k + ((i - k) + 1) = i + 1 /\ m + ((i - k) + 1) = (m + (i - k)) + 1
      BY <1>6, <2>3
    <3>2. Joint(d, e, i) = <<t, m + (i - k)>> /\ Joint(d, e, i + 1) = <<t, (m + (i - k)) + 1>>
      BY <1>5, <3>1
    <3>3. \A x, y : <<x, y>>[1] = x /\ <<x, y>>[2] = y
      OBVIOUS
    <3>. QED  BY <3>2, <3>3 DEF Follows
  <2>. QED  BY <1>6, <2>1, <2>2, <2>3
<1>9. JointWhole(d, e)
  <2>1. Len(e) \in Nat
    OBVIOUS
  <2>2. Len(d) + Len(e) - 1 = k + n - 1
    BY <1>2, <1>3, <1>6, <2>1
  <2>. QED  BY <1>8, <2>2 DEF JointWhole
<1>10. n > 0 => JointLast(d, e, <<t, m + n>>)
  <2>1. n > 0 => n \in 1 .. n
    OBVIOUS
  <2>. QED  BY <1>3, <1>5, <2>1 DEF JointLast
<1>. QED  BY <1>9, <1>10

\* What the streams say of the pipe and of what a reader has.
LEMMA JointParts ==
  ASSUME NEW d \in Seq(Byte), NEW c \in Seq(Byte), JointWhole(d, c)
  PROVE  Whole(d) /\ Whole(c)
<1>1. Len(d) \in Nat /\ Len(c) \in Nat
  OBVIOUS
<1>2. ASSUME NEW i \in 1 .. Len(d) - 1 PROVE Follows(d[i], d[i + 1])
  <2>1. i \in 1 .. Len(d) + Len(c) - 1 /\ i <= Len(d) /\ i + 1 <= Len(d)
    BY <1>1
  <2>2. Follows(Joint(d, c, i), Joint(d, c, i + 1))
    BY <2>1 DEF JointWhole
  <2>. QED  BY <2>1, <2>2 DEF Joint
<1>3. ASSUME NEW i \in 1 .. Len(c) - 1 PROVE Follows(c[i], c[i + 1])
  <2>. DEFINE j == Len(d) + i
  <2>1. /\ j \in 1 .. Len(d) + Len(c) - 1 /\ ~ (j <= Len(d)) /\ ~ (j + 1 <= Len(d))
        /\ j - Len(d) = i /\ (j + 1) - Len(d) = i + 1
    BY <1>1
  <2>. HIDE DEF j
  <2>2. Follows(Joint(d, c, j), Joint(d, c, j + 1))
    BY <2>1 DEF JointWhole
  <2>. QED  BY <2>1, <2>2 DEF Joint
<1>. QED  BY <1>2, <1>3 DEF Whole

-----------------------------------------------------------------------------

\* The users of a pipe are on one side; with one on each they are the first ones.
LEMMA PipeSides ==
  ASSUME NEW t \in PipeUsers
  PROVE  /\ t \in Writer \cup Reader
         /\ program # "pipe" => t \in {FirstWriter, FirstReader}
BY QueueAssumption DEF PipeUsers

\* The record of one request changes.
RequestOf(t, r) ==
  /\ req'[t] = r
  /\ \A u \in Writer \cup Reader : u # t => req'[u] = req[u]

\* A step inside a call leaves the mutexes alone.
LEMMA PipeStays ==
  ASSUME PipeExclusive, NEW t \in PipeUsers, NEW r, RequestOf(t, r), program' = program,
         events' = events, InPipe(t), InPipe(t)'
  PROVE  PipeExclusive'
<1>1. \A u \in Writer \cup Reader : InPipe(u)' <=> InPipe(u)
  BY DEF RequestOf, InPipe
<1>2. PipeUsers' = PipeUsers
  BY DEF PipeUsers
<1>3. PipeSide(Writer, "mutex_put")' /\ PipeSide(Reader, "mutex_get")'
  BY <1>1 DEF PipeExclusive, PipeSide
<1>. QED  BY <1>1, <1>2, <1>3 DEF PipeExclusive, PipeUsersOnly

\* A task that is in a call is the only one of its side.
LEMMA PipeAlone ==
  ASSUME PipeExclusive, NEW S \in {Writer, Reader}, NEW t \in S, NEW u \in S,
         InPipe(t), InPipe(u)
  PROVE  t = u
BY DEF PipeExclusive, PipeSide

\* A task that enters is the only one of its side: it is the only user or it has
\* just taken the mutex.
LEMMA PipeEnters ==
  ASSUME PipeInv, NEW t \in PipeUsers, NEW r, RequestOf(t, r), program' = program,
         IF program = "pipe" THEN WaitEvent(Mutex(t)) ELSE events' = events, InPipe(t)'
  PROVE  PipeExclusive' /\ events' \in [Semaphores -> Nat]
<1>1. PICK S, O, a, b : Opposite(S, a, O, b) /\ t \in S /\ a = Mutex(t)
  BY PipeSides, Sides
<1>2. /\ a \in Semaphores /\ b \in Semaphores /\ a # b
      /\ S \subseteq Writer \cup Reader /\ O \subseteq Writer \cup Reader /\ t \notin O
      /\ PipeSide(S, a) /\ PipeSide(O, b) /\ events \in [Semaphores -> Nat]
  BY <1>1, QueueAssumption DEF Opposite, Semaphores, PipeInv, PipeTyped, PipeExclusive
<1>3. /\ events' \in [Semaphores -> Nat] /\ events'[b] = events[b]
      /\ program = "pipe" => events[a] > 0 /\ events'[a] = events[a] - 1
  BY <1>1, <1>2 DEF WaitEvent
<1>4. \A u \in S : u # t => ~InPipe(u)
  <2>1. CASE program = "pipe"
    BY <1>2, <1>3, <2>1 DEF PipeSide
  <2>2. CASE program # "pipe"
    <3>1. \A u \in S : u # t => u \notin PipeUsers
      BY <1>1, <2>2, PipeSides, QueueAssumption DEF Opposite
    <3>. QED  BY <1>2, <3>1 DEF PipeInv, PipeExclusive, PipeUsersOnly
  <2>. QED  BY <2>1, <2>2
<1>5. \A u \in Writer \cup Reader : u # t => (InPipe(u)' <=> InPipe(u))
  BY DEF RequestOf, InPipe
<1>6. PipeSide(S, a)'
  <2>1. \A u \in S : u # t => ~InPipe(u)'
    BY <1>2, <1>4, <1>5
  <2>2. program = "pipe" => events'[a] = 0
    BY <1>2, <1>3 DEF PipeSide
  <2>. QED  BY <2>1, <2>2 DEF PipeSide
<1>7. PipeSide(O, b)'
  <2>1. \A u \in O : InPipe(u)' <=> InPipe(u)
    BY <1>2, <1>5
  <2>. QED  BY <1>2, <1>3, <2>1 DEF PipeSide
<1>8. PipeUsersOnly'
  <2>1. PipeUsers' = PipeUsers
    BY DEF PipeUsers
  <2>. QED  BY <1>5, <2>1 DEF PipeInv, PipeExclusive, PipeUsersOnly
<1>. QED  BY <1>1, <1>3, <1>6, <1>7, <1>8 DEF PipeExclusive, Opposite

\* The call ends: the mutex is signalled.
LEMMA PipeLeaves ==
  ASSUME PipeInv, NEW t \in PipeUsers, NEW r, RequestOf(t, r), program' = program,
         LeavePipeMutex(t), InPipe(t), ~InPipe(t)'
  PROVE  PipeExclusive' /\ events' \in [Semaphores -> Nat]
<1>1. PICK S, O, a, b : Opposite(S, a, O, b) /\ t \in S /\ a = Mutex(t)
  BY PipeSides, Sides
<1>2. /\ a \in Semaphores /\ b \in Semaphores /\ a # b
      /\ S \subseteq Writer \cup Reader /\ O \subseteq Writer \cup Reader /\ t \notin O
      /\ PipeSide(S, a) /\ PipeSide(O, b) /\ events \in [Semaphores -> Nat]
  BY <1>1, QueueAssumption DEF Opposite, Semaphores, PipeInv, PipeTyped, PipeExclusive
<1>3. /\ events' \in [Semaphores -> Nat] /\ events'[b] = events[b]
      /\ program = "pipe" => events'[a] = events[a] + 1
  BY <1>1, <1>2 DEF LeavePipeMutex, SignalEvent
<1>4. \A u \in S : u # t => ~InPipe(u)
  BY <1>1, <1>2 DEF PipeSide
<1>5. \A u \in Writer \cup Reader : u # t => (InPipe(u)' <=> InPipe(u))
  BY DEF RequestOf, InPipe
<1>6. PipeSide(S, a)'
  <2>1. \A u \in S : ~InPipe(u)'
    BY <1>2, <1>4, <1>5
  <2>2. program = "pipe" => events[a] = 0
    BY <1>1, <1>2 DEF PipeSide
  <2>. QED  BY <1>3, <2>1, <2>2 DEF PipeSide
<1>7. PipeSide(O, b)'
  <2>1. \A u \in O : InPipe(u)' <=> InPipe(u)
    BY <1>2, <1>5
  <2>. QED  BY <1>2, <1>3, <2>1 DEF PipeSide
<1>8. PipeUsersOnly'
  <2>1. PipeUsers' = PipeUsers
    BY DEF PipeUsers
  <2>. QED  BY <1>5, <2>1 DEF PipeInv, PipeExclusive, PipeUsersOnly
<1>. QED  BY <1>1, <1>3, <1>6, <1>7, <1>8 DEF PipeExclusive, Opposite

-----------------------------------------------------------------------------

\* The positions of the ring as the code computes them, up to one round.
LEMMA RingPositions ==
  /\ \A h \in Slot, n \in 0 .. Capacity : (h + n) % Capacity = Wrap(h + n) /\ Wrap(h + n) \in Slot
  /\ \A h \in Slot, i \in 1 .. Capacity :
       (h + i - 1) % Capacity = Wrap(h + i - 1) /\ Wrap(h + i - 1) \in Slot
  /\ \A j, k \in Slot : (j - k) % Capacity = IF j >= k THEN j - k ELSE (j - k) + Capacity
<1>1. ASSUME NEW h \in Slot, NEW n \in 0 .. Capacity
      PROVE  (h + n) % Capacity = Wrap(h + n) /\ Wrap(h + n) \in Slot
  <2>1. h + n \in Nat /\ h + n < 2 * Capacity
    BY Capacities
  <2>. QED  BY <2>1, WrapIs
<1>2. ASSUME NEW h \in Slot, NEW i \in 1 .. Capacity
      PROVE  (h + i - 1) % Capacity = Wrap(h + i - 1) /\ Wrap(h + i - 1) \in Slot
  <2>1. h + i - 1 \in Nat /\ h + i - 1 < 2 * Capacity
    BY Capacities
  <2>. QED  BY <2>1, WrapIs
<1>3. \A m \in Nat : m > 0 => \A k \in Int : /\ 0 <= k /\ k < m => k % m = k
                                             /\ k < 0 /\ 0 <= k + m => k % m = k + m
  OBVIOUS
<1>4. ASSUME NEW j \in Slot, NEW k \in Slot
      PROVE  (j - k) % Capacity = IF j >= k THEN j - k ELSE (j - k) + Capacity
  <2>1. /\ j - k \in Int /\ j >= k => 0 <= j - k /\ j - k < Capacity
        /\ ~ (j >= k) => j - k < 0 /\ 0 <= (j - k) + Capacity
    BY Capacities
  <2>. QED  BY <1>3, <2>1, Capacities
<1>. QED  BY <1>1, <1>2, <1>4

\* The first n bytes are what the code takes from the ring.
LEMMA TakenIs ==
  ASSUME PipeInv, NEW n \in 0 .. pipe.avail
  PROVE  /\ Taken(n) \in Seq(Byte) /\ Len(Taken(n)) = n
         /\ \A i \in 1 .. n : Taken(n)[i] = chan[i]
         /\ n > 0 => Taken(n) = SubSeq(chan, 1, n)
<1>1. /\ pipe.avail \in 0 .. Capacity /\ pipe.head \in Slot /\ chan \in Seq(Byte)
      /\ Len(chan) = pipe.avail
      /\ \A i \in 1 .. pipe.avail : chan[i] = pipe.buf[Wrap(pipe.head + i - 1)]
  BY DEF PipeInv, PipeTyped, PipeRing
<1>2. \A i \in 1 .. n : pipe.buf[(pipe.head + i - 1) % Capacity] = chan[i] /\ chan[i] \in Byte
  <2>. TAKE i \in 1 .. n
  <2>1. i \in 1 .. pipe.avail /\ i \in 1 .. Capacity /\ i \in 1 .. Len(chan)
    BY <1>1, Capacities
  <2>2. chan[i] \in Byte
    BY <1>1, <2>1
  <2>. QED  BY <1>1, <2>1, <2>2, RingPositions
<1>3. Taken(n) = [i \in 1 .. n |-> chan[i]]
  BY <1>2 DEF Taken
<1>4. n \in Nat
  BY <1>1
<1>5. [i \in 1 .. n |-> chan[i]] \in Seq(Byte) /\ Len([i \in 1 .. n |-> chan[i]]) = n
  BY <1>2, <1>4
<1>6. n > 0 => SubSeq(chan, 1, n) = [i \in 1 .. n |-> chan[i]]
  BY <1>1, <1>4
<1>. QED  BY <1>2, <1>3, <1>5, <1>6

\* The ring after n bytes were taken.
LEMMA RingTaken ==
  ASSUME NEW h \in Slot, NEW a \in 0 .. Capacity, NEW n \in 0 .. a
  PROVE  /\ Wrap(Wrap(h + n) + (a - n)) = Wrap(h + a)
         /\ \A i \in 1 .. a - n : Wrap(Wrap(h + n) + i - 1) = Wrap(h + (n + i) - 1)
BY Capacities DEF Wrap

\* The ring after n bytes were given: the tail, the old bytes and the new ones.
Distance(j, k) == IF j >= k THEN j - k ELSE (j - k) + Capacity

\* n bytes stored behind the a bytes that the ring holds.
LEMMA RingGiven ==
  ASSUME NEW h \in Slot, NEW a \in 0 .. Capacity, NEW n \in 0 .. Capacity - a
  PROVE  /\ Wrap(Wrap(h + a) + n) = Wrap(h + (a + n))
         /\ \A i \in 1 .. a : ~ (Distance(Wrap(h + i - 1), Wrap(h + a)) + 1 <= n)
         /\ \A i \in 1 .. n : Distance(Wrap(h + (a + i) - 1), Wrap(h + a)) + 1 = i
BY Capacities DEF Wrap, Distance

-----------------------------------------------------------------------------

RequestType == [in : {"out", "call", "wait"}, size : Nat, all : BOOLEAN, data : Seq(Byte)]

\* What the invariant says of one request.
LEMMA RequestIs ==
  ASSUME PipeInv, NEW t \in Writer \cup Reader
  PROVE  /\ req \in [Writer \cup Reader -> RequestType] /\ req[t] \in RequestType
         /\ req[t].data \in Seq(Byte) /\ req[t].size \in Nat
         /\ InPipe(t) => Len(req[t].data) < req[t].size
         /\ ~InPipe(t) => req[t].data = <<>>
BY DEF PipeInv, PipeTyped, Requests, RequestType, Outside

\* The request of a user that is not in a call.
LEMMA OutsideIs == Outside \in RequestType /\ Outside.in = "out" /\ Outside.data = <<>>
BY DEF Outside, RequestType

\* One request changes and the others stay.
LEMMA RequestSet ==
  ASSUME PipeInv, NEW t \in Writer \cup Reader, NEW r \in RequestType,
         req' = [req EXCEPT ![t] = r]
  PROVE  RequestOf(t, r) /\ req' \in [Writer \cup Reader -> RequestType]
BY RequestIs DEF RequestOf

\* What readers have collected stays what was written, if neither changes.
LEMMA FlowKept ==
  ASSUME Flow, chan' = chan, \A u \in Writer \cup Reader : req'[u].data = req[u].data
  PROVE  Flow'
BY DEF Flow

\* The type and the ring, which only get_data and put_data change.
LEMMA PipeStill ==
  ASSUME PipeInv, UNCHANGED <<pipe, chan>>, events' \in [Semaphores -> Nat],
         req' \in [Writer \cup Reader -> RequestType]
  PROVE  PipeTyped' /\ PipeRing'
BY DEF PipeInv, PipeTyped, PipeRing, RequestType

\* A call to GetPipe or PutPipe begins.
LEMMA EnterPipeKeeps ==
  ASSUME PipeInv, NEW t \in PipeUsers, NEW size \in 1 .. MaxSize, NEW all \in BOOLEAN,
         EnterPipe(t, size, all), program' = program
  PROVE  PipeInv' /\ UNCHANGED <<chan, delivered>>
<1>. DEFINE r == [in |-> "call", size |-> size, all |-> all, data |-> <<>>]
<1>1. /\ req[t].in = "out" /\ size > 0 /\ req' = [req EXCEPT ![t] = r]
      /\ IF program = "pipe" THEN WaitEvent(Mutex(t)) ELSE events' = events
      /\ UNCHANGED <<pipe, asleep, chan, delivered>>
  BY DEF EnterPipe
<1>2. t \in Writer \cup Reader
  BY PipeSides
<1>3. r \in RequestType /\ r.in = "call" /\ r.data = <<>> /\ Len(r.data) < r.size
  BY PipeAssumption DEF RequestType
<1>. HIDE DEF r
<1>4. RequestOf(t, r) /\ req' \in [Writer \cup Reader -> RequestType]
  BY <1>1, <1>2, <1>3, RequestSet
<1>5. InPipe(t)' /\ ~InPipe(t)
  BY <1>1, <1>3, <1>4 DEF InPipe, RequestOf
<1>6. PipeExclusive' /\ events' \in [Semaphores -> Nat]
  BY <1>1, <1>4, <1>5, PipeEnters
<1>7. PipeTyped' /\ PipeRing'
  BY <1>1, <1>4, <1>6, PipeStill
<1>8. Requests'
  BY <1>1, <1>3, <1>4, <1>5 DEF PipeInv, Requests, InPipe, RequestOf
<1>9. NoneAsleepOverData'
  BY <1>1 DEF PipeInv, NoneAsleepOverData, MustWait
<1>10. Flow'
  <2>1. req[t].data = <<>>
    BY <1>2, <1>5, RequestIs
  <2>2. \A u \in Writer \cup Reader : req'[u].data = req[u].data
    BY <1>3, <1>4, <2>1 DEF RequestOf
  <2>. QED  BY <1>1, <2>2, FlowKept DEF PipeInv
<1>. QED  BY <1>1, <1>6, <1>7, <1>8, <1>9, <1>10 DEF PipeInv

\* A user of a pipe waits on its condition and gives up the monitor.
LEMMA WaitConditionKeeps ==
  ASSUME PipeInv, NEW t \in PipeUsers, SleepOnCondition(t), program' = program
  PROVE  PipeInv' /\ UNCHANGED <<chan, delivered>>
<1>. DEFINE r == [req[t] EXCEPT !.in = "wait"]
<1>1. /\ req[t].in = "call" /\ MustWait(t) /\ req' = [req EXCEPT ![t] = r]
      /\ asleep' = asleep \cup {t} /\ UNCHANGED <<events, pipe, chan, delivered>>
  BY DEF SleepOnCondition
<1>2. t \in Writer \cup Reader
  BY PipeSides
<1>3. /\ r \in RequestType /\ r.in = "wait" /\ r.data = req[t].data /\ r.size = req[t].size
  BY <1>2, RequestIs DEF RequestType
<1>. HIDE DEF r
<1>4. RequestOf(t, r) /\ req' \in [Writer \cup Reader -> RequestType]
  BY <1>1, <1>2, <1>3, RequestSet
<1>5. InPipe(t)' /\ InPipe(t)
  BY <1>1, <1>3, <1>4 DEF InPipe, RequestOf
<1>6. PipeExclusive' /\ events' \in [Semaphores -> Nat]
  BY <1>1, <1>4, <1>5, PipeStays DEF PipeInv, PipeTyped
<1>7. PipeTyped' /\ PipeRing'
  BY <1>1, <1>4, <1>6, PipeStill
<1>8. Requests'
  <2>1. Len(req[t].data) < req[t].size
    BY <1>2, <1>5, RequestIs
  <2>. QED  BY <1>1, <1>2, <1>3, <1>4, <1>5, <2>1 DEF PipeInv, Requests, InPipe, RequestOf
<1>9. NoneAsleepOverData'
  BY <1>1 DEF PipeInv, NoneAsleepOverData, MustWait
<1>10. Flow'
  <2>1. \A u \in Writer \cup Reader : req'[u].data = req[u].data
    BY <1>3, <1>4 DEF RequestOf
  <2>. QED  BY <1>1, <2>1, FlowKept DEF PipeInv
<1>. QED  BY <1>1, <1>6, <1>7, <1>8, <1>9, <1>10 DEF PipeInv

\* The bytes of a call that ends without moving any are forgotten.
LEMMA WaitConditionFailsKeeps ==
  ASSUME PipeInv, NEW t \in PipeUsers, WaitConditionFails(t), program' = program
  PROVE  PipeInv' /\ UNCHANGED <<chan, delivered>>
<1>1. /\ t \in asleep /\ req' = [req EXCEPT ![t] = Outside] /\ LeavePipeMutex(t)
      /\ asleep' = asleep \ {t} /\ UNCHANGED <<pipe, chan, delivered>>
  BY DEF WaitConditionFails
<1>2. t \in Writer \cup Reader
  BY PipeSides
<1>4. RequestOf(t, Outside) /\ req' \in [Writer \cup Reader -> RequestType]
  BY <1>1, <1>2, OutsideIs, RequestSet
<1>5. InPipe(t) /\ ~InPipe(t)'
  BY <1>1, <1>4, OutsideIs DEF InPipe, RequestOf, PipeInv, Requests
<1>6. PipeExclusive' /\ events' \in [Semaphores -> Nat]
  BY <1>1, <1>4, <1>5, PipeLeaves
<1>7. PipeTyped' /\ PipeRing'
  BY <1>1, <1>4, <1>6, PipeStill
<1>8. Requests'
  BY <1>1, <1>4, <1>5 DEF PipeInv, Requests, InPipe, RequestOf
<1>9. NoneAsleepOverData'
  BY <1>1 DEF PipeInv, NoneAsleepOverData, MustWait
<1>10. Flow'
  <2>1. ASSUME NEW s \in Reader
        PROVE  /\ JointWhole(req'[s].data, chan)
               /\ \A u \in Writer : Len(req'[u].data) > 0
                    => JointLast(req'[s].data, chan, <<u, Len(req'[u].data)>>)
    <3>1. chan \in Seq(Byte) /\ req[s].data \in Seq(Byte) /\ Len(chan) \in Nat
      BY RequestIs DEF PipeInv, PipeTyped
    <3>2. SubSeq(chan, 0 + 1, Len(chan)) = chan /\ 0 \in 0 .. Len(chan)
      BY <3>1
    <3>3. /\ JointWhole(req[s].data, chan) => JointWhole(<<>>, chan)
          /\ \A x : JointLast(req[s].data, chan, x) => JointLast(<<>>, chan, x)
      BY <3>1, <3>2, JointDropped
    <3>4. req'[s].data \in {req[s].data, <<>>}
      BY <1>4, OutsideIs DEF RequestOf
    <3>5. \A u \in Writer : Len(req'[u].data) > 0 => req'[u].data = req[u].data
      BY <1>4, OutsideIs DEF RequestOf
    <3>6. /\ JointWhole(req[s].data, chan)
          /\ \A u \in Writer : Len(req[u].data) > 0
                => JointLast(req[s].data, chan, <<u, Len(req[u].data)>>)
      BY DEF PipeInv, Flow
    <3>. QED  BY <3>3, <3>4, <3>5, <3>6
  <2>. QED  BY <1>1, <2>1 DEF Flow
<1>. QED  BY <1>1, <1>6, <1>7, <1>8, <1>9, <1>10 DEF PipeInv

\* Who moves bytes wakes the only task of the other side that may sleep, and the
\* others of its own side are not in a call.
LEMMA SignalEmpties ==
  ASSUME PipeInv, NEW t \in PipeUsers, InMonitor(t), WakeSleeper(t)
  PROVE  asleep' = {} /\ InPipe(t)
<1>1. t \in Writer \cup Reader
  BY PipeSides
<1>2. InPipe(t) /\ t \notin asleep
  BY DEF PipeInv, Requests, InMonitor, InPipe
<1>3. \A u \in asleep : u \in Writer \cup Reader /\ InPipe(u)
  BY DEF PipeInv, Requests, InPipe
<1>4. \A u, v \in asleep : Side(u) = Side(v) => u = v
  <2>1. \A u, v \in Writer \cup Reader :
          Side(u) = Side(v) => (u \in Writer /\ v \in Writer) \/ (u \in Reader /\ v \in Reader)
    BY DEF Side
  <2>. QED  BY <1>3, <2>1, PipeAlone DEF PipeInv
<1>5. \A u \in asleep : Side(u) # Side(t)
  <2>1. \A u, v \in Writer \cup Reader :
          Side(u) = Side(v) => (u \in Writer /\ v \in Writer) \/ (u \in Reader /\ v \in Reader)
    BY DEF Side
  <2>. QED  BY <1>1, <1>2, <1>3, <2>1, PipeAlone DEF PipeInv
<1>6. \A u, v \in asleep : u = v
  <2>1. \A u : Side(u) \in {"put", "get"}
    BY DEF Side
  <2>. QED  BY <1>4, <1>5, <2>1
<1>. QED  BY <1>2, <1>5, <1>6 DEF WakeSleeper

\* The loop of the call: it goes on with n more bytes, or it ends.
LEMMA AfterMoveKeeps ==
  ASSUME PipeInv, NEW t \in PipeUsers, InPipe(t), asleep' = {}, NEW n, NEW data \in Seq(Byte),
         AfterMove(t, n, data), program' = program
  PROVE  /\ PipeExclusive' /\ Requests'
         /\ events' \in [Semaphores -> Nat] /\ req' \in [Writer \cup Reader -> RequestType]
         /\ \A u \in Writer \cup Reader : u # t => req'[u] = req[u]
         /\ (n > 0 /\ req'[t].data = data) \/ req'[t].data = <<>>
<1>1. t \in Writer \cup Reader
  BY PipeSides
<1>2. CASE n > 0 /\ Len(data) < req[t].size /\ req[t].all
  <2>. DEFINE r == [req[t] EXCEPT !.in = "call", !.data = data]
  <2>1. req' = [req EXCEPT ![t] = r] /\ events' = events
    BY <1>2 DEF AfterMove
  <2>2. r \in RequestType /\ r.in = "call" /\ r.data = data /\ r.size = req[t].size
    BY <1>1, RequestIs DEF RequestType
  <2>. HIDE DEF r
  <2>3. RequestOf(t, r) /\ req' \in [Writer \cup Reader -> RequestType]
    BY <1>1, <2>1, <2>2, RequestSet
  <2>4. InPipe(t)'
    BY <2>2, <2>3 DEF InPipe, RequestOf
  <2>5. PipeExclusive' /\ events' \in [Semaphores -> Nat]
    BY <2>1, <2>3, <2>4, PipeStays DEF PipeInv, PipeTyped
  <2>6. Requests'
    BY <1>1, <1>2, <2>2, <2>3, <2>4 DEF PipeInv, Requests, InPipe, RequestOf
  <2>. QED  BY <1>2, <2>2, <2>3, <2>5, <2>6 DEF RequestOf
<1>3. CASE ~ (n > 0 /\ Len(data) < req[t].size /\ req[t].all)
  <2>1. req' = [req EXCEPT ![t] = Outside] /\ LeavePipeMutex(t)
    BY <1>3 DEF AfterMove
  <2>2. RequestOf(t, Outside) /\ req' \in [Writer \cup Reader -> RequestType]
    BY <1>1, <2>1, OutsideIs, RequestSet
  <2>3. ~InPipe(t)'
    BY <2>2, OutsideIs DEF InPipe, RequestOf
  <2>4. PipeExclusive' /\ events' \in [Semaphores -> Nat]
    BY <2>1, <2>2, <2>3, PipeLeaves
  <2>5. Requests'
    BY <1>1, <2>2, <2>3 DEF PipeInv, Requests, InPipe, RequestOf
  <2>. QED  BY <2>2, <2>4, <2>5, OutsideIs DEF RequestOf
<1>. QED  BY <1>2, <1>3

\* The others of the side of a task in a call have no bytes.
LEMMA OthersEmpty ==
  ASSUME PipeInv, NEW S \in {Writer, Reader}, NEW t \in S, NEW u \in S, InPipe(t), u # t
  PROVE  req[u].data = <<>>
<1>1. ~InPipe(u)
  BY PipeAlone DEF PipeInv
<1>. QED  BY <1>1, RequestIs

\* A reader takes bytes from the ring.
LEMMA get_dataKeeps ==
  ASSUME PipeInv, NEW t \in PipeUsers, get_data(t), program' = program
  PROVE  PipeInv' /\ (Fifo!Get \/ UNCHANGED <<chan, delivered>>)
<1>. DEFINE n == MinOf(req[t].size - Len(req[t].data), pipe.avail)
            d == req[t].data
            e == d \o Taken(n)
<1>1. /\ t \in Reader /\ InMonitor(t) /\ WakeSleeper(t) /\ AfterMove(t, n, e)
      /\ pipe' = [pipe EXCEPT !.head = (@ + n) % Capacity, !.avail = @ - n]
      /\ delivered' = IF n = 0 THEN delivered ELSE Taken(n)
      /\ chan' = SubSeq(chan, n + 1, Len(chan))
  BY DEF get_data
<1>2. asleep' = {} /\ InPipe(t)
  BY <1>1, SignalEmpties
<1>3. /\ d \in Seq(Byte) /\ req[t].size \in Nat /\ Len(d) < req[t].size /\ Len(d) \in Nat
  BY <1>1, <1>2, RequestIs
<1>4. /\ pipe.avail \in 0 .. Capacity /\ pipe.head \in Slot /\ chan \in Seq(Byte)
      /\ Len(chan) = pipe.avail /\ pipe.tail = Wrap(pipe.head + pipe.avail)
      /\ \A i \in 1 .. pipe.avail : chan[i] = pipe.buf[Wrap(pipe.head + i - 1)]
      /\ pipe \in [buf : [Slot -> Byte], head : Slot, tail : Slot, avail : 0 .. Capacity]
  BY DEF PipeInv, PipeTyped, PipeRing
<1>5. n \in 0 .. pipe.avail /\ n \in 0 .. Capacity /\ n \in Nat /\ n \in 0 .. Len(chan)
  <2>1. \A a, b \in Nat : MinOf(a, b) \in 0 .. b
    BY DEF MinOf
  <2>2. req[t].size - Len(req[t].data) \in Nat /\ pipe.avail \in Nat
    BY <1>3, <1>4, Capacities
  <2>3. n \in 0 .. pipe.avail
    BY <2>1, <2>2
  <2>. HIDE DEF n
  <2>. QED  BY <1>4, <2>2, <2>3, Capacities
<1>. HIDE DEF n
<1>6. /\ Taken(n) \in Seq(Byte) /\ Len(Taken(n)) = n
      /\ \A i \in 1 .. n : Taken(n)[i] = chan[i]
      /\ n > 0 => Taken(n) = SubSeq(chan, 1, n)
  BY <1>5, TakenIs
<1>7. /\ e \in Seq(Byte) /\ Len(e) = Len(d) + n
      /\ \A i \in 1 .. Len(d) : e[i] = d[i]
      /\ \A i \in 1 .. n : e[Len(d) + i] = chan[i]
  <2>1. \A x, y \in Seq(Byte) :
          /\ x \o y \in Seq(Byte) /\ Len(x \o y) = Len(x) + Len(y)
          /\ \A i \in 1 .. Len(x) : (x \o y)[i] = x[i]
          /\ \A i \in 1 .. Len(y) : (x \o y)[Len(x) + i] = y[i]
    OBVIOUS
  <2>2. /\ e \in Seq(Byte) /\ Len(e) = Len(d) + Len(Taken(n))
        /\ \A i \in 1 .. Len(d) : e[i] = d[i]
        /\ \A i \in 1 .. Len(Taken(n)) : e[Len(d) + i] = Taken(n)[i]
    BY <1>3, <1>6, <2>1
  <2>. HIDE DEF e
  <2>. QED  BY <1>6, <2>2
<1>. HIDE DEF e
<1>8. /\ PipeExclusive' /\ Requests'
      /\ events' \in [Semaphores -> Nat] /\ req' \in [Writer \cup Reader -> RequestType]
      /\ \A u \in Writer \cup Reader : u # t => req'[u] = req[u]
      /\ (n > 0 /\ req'[t].data = e) \/ req'[t].data = <<>>
  BY <1>1, <1>2, <1>7, AfterMoveKeeps
<1>9. /\ pipe'.head = Wrap(pipe.head + n) /\ pipe'.avail = pipe.avail - n
      /\ pipe'.buf = pipe.buf /\ pipe'.tail = pipe.tail
      /\ pipe' \in [buf : [Slot -> Byte], head : Slot, tail : Slot, avail : 0 .. Capacity]
  <2>1. (pipe.head + n) % Capacity = Wrap(pipe.head + n) /\ Wrap(pipe.head + n) \in Slot
    BY <1>4, <1>5, RingPositions
  <2>2. pipe.avail - n \in 0 .. Capacity
    BY <1>4, <1>5, Capacities
  <2>. QED  BY <1>1, <1>4, <2>1, <2>2
<1>10. /\ chan' \in Seq(Byte) /\ Len(chan') = pipe.avail - n
       /\ \A i \in 1 .. pipe.avail - n : chan'[i] = chan[n + i]
  <2>1. chan' = SubSeq(chan, n + 1, Len(chan))
    BY <1>1
  <2>2. chan \in Seq(Byte) /\ Len(chan) = pipe.avail /\ n \in 0 .. Len(chan)
    BY <1>4, <1>5
  <2>. HIDE DEF d
  <2>. QED  BY <2>1, <2>2
<1>11. PipeTyped'
  BY <1>8, <1>9, <1>10 DEF PipeTyped, RequestType
<1>12. PipeRing'
  <2>1. /\ Wrap(Wrap(pipe.head + n) + (pipe.avail - n)) = Wrap(pipe.head + pipe.avail)
        /\ \A i \in 1 .. pipe.avail - n :
             Wrap(Wrap(pipe.head + n) + i - 1) = Wrap(pipe.head + (n + i) - 1)
    BY <1>4, <1>5, RingTaken
  <2>2. \A i \in 1 .. pipe.avail - n : chan[n + i] = pipe.buf[Wrap(pipe.head + (n + i) - 1)]
    <3>. TAKE i \in 1 .. pipe.avail - n
    <3>1. n + i \in 1 .. pipe.avail
      BY <1>4, <1>5
    <3>. QED  BY <1>4, <3>1
  <2>. QED  BY <1>4, <1>9, <1>10, <2>1, <2>2 DEF PipeRing
<1>13. NoneAsleepOverData'
  BY <1>2 DEF NoneAsleepOverData
<1>14. Flow'
  <2>1. ASSUME NEW s \in Reader
        PROVE  /\ JointWhole(req'[s].data, chan')
               /\ \A u \in Writer : Len(req'[u].data) > 0
                    => JointLast(req'[s].data, chan', <<u, Len(req'[u].data)>>)
    <3>1. /\ JointWhole(req[s].data, chan)
          /\ \A u \in Writer : Len(req[u].data) > 0
                => JointLast(req[s].data, chan, <<u, Len(req[u].data)>>)
      BY DEF PipeInv, Flow
    <3>2. \A u \in Writer : req'[u].data = req[u].data
      BY <1>1, <1>8, QueueAssumption
    <3>3. req[s].data \in Seq(Byte)
      BY RequestIs
    <3>4. CASE s # t \/ req'[s].data = <<>>
      <4>1. req'[s].data = <<>>
        BY <1>1, <1>2, <1>8, <3>4, OthersEmpty
      <4>2. /\ JointWhole(req[s].data, chan) => JointWhole(<<>>, chan')
            /\ \A x : JointLast(req[s].data, chan, x) => JointLast(<<>>, chan', x)
        BY <1>1, <1>4, <1>5, <3>3, JointDropped
      <4>. QED  BY <3>1, <3>2, <4>1, <4>2
    <3>5. CASE s = t /\ req'[s].data = e
      <4>1. /\ JointWhole(d, chan) => JointWhole(e, chan')
            /\ \A x : JointLast(d, chan, x) => JointLast(e, chan', x)
        BY <1>1, <1>3, <1>4, <1>5, <1>7, JointTaken
      <4>. QED  BY <3>1, <3>2, <3>5, <4>1
    <3>. QED  BY <1>8, <3>4, <3>5
  <2>. QED  BY <2>1 DEF Flow
<1>15. Fifo!Get \/ UNCHANGED <<chan, delivered>>
  <2>1. CASE n = 0
    <3>1. SubSeq(chan, 0 + 1, Len(chan)) = chan
      BY <1>4
    <3>. QED  BY <1>1, <2>1, <3>1
  <2>2. CASE n > 0
    <3>1. n \in 1 .. Len(chan) /\ n # 0
      BY <1>4, <1>5, <2>2
    <3>2. delivered' = SubSeq(chan, 1, n) /\ chan' = SubSeq(chan, n + 1, Len(chan))
      BY <1>1, <1>6, <2>2, <3>1
    <3>. QED  BY <3>1, <3>2 DEF Fifo!Get
  <2>. QED  BY <1>5, <2>1, <2>2
<1>. QED  BY <1>8, <1>11, <1>12, <1>13, <1>14, <1>15 DEF PipeInv

\* A writer puts bytes into the ring.
LEMMA put_dataKeeps ==
  ASSUME PipeInv, NEW t \in PipeUsers, put_data(t), program' = program
  PROVE  PipeInv' /\ (Fifo!Put \/ UNCHANGED <<chan, delivered>>)
<1>. DEFINE d == req[t].data
            m == Len(d)
            n == MinOf(req[t].size - m, Capacity - pipe.avail)
            given == [i \in 1 .. n |-> <<t, m + i>>]
            e == d \o given
            written == [j \in 0 .. Capacity - 1 |->
                          LET i == ((j - pipe.tail) % Capacity) + 1
                          IN  IF i <= n THEN given[i] ELSE pipe.buf[j]]
<1>1. /\ t \in Writer /\ InMonitor(t) /\ WakeSleeper(t) /\ AfterMove(t, n, e)
      /\ pipe' = [pipe EXCEPT !.buf = written, !.tail = (@ + n) % Capacity, !.avail = @ + n]
      /\ chan' = chan \o given /\ delivered' = delivered
  BY DEF put_data
<1>2. asleep' = {} /\ InPipe(t)
  BY <1>1, SignalEmpties
<1>3. d \in Seq(Byte) /\ req[t].size \in Nat /\ m < req[t].size /\ m \in Nat
  <2>1. /\ req[t].data \in Seq(Byte) /\ req[t].size \in Nat
        /\ Len(req[t].data) < req[t].size
    BY <1>1, <1>2, RequestIs
  <2>. QED  BY <2>1
<1>4. /\ pipe.avail \in 0 .. Capacity /\ pipe.head \in Slot /\ chan \in Seq(Byte)
      /\ Len(chan) = pipe.avail /\ pipe.tail = Wrap(pipe.head + pipe.avail)
      /\ \A i \in 1 .. pipe.avail : chan[i] = pipe.buf[Wrap(pipe.head + i - 1)]
      /\ pipe \in [buf : [Slot -> Byte], head : Slot, tail : Slot, avail : 0 .. Capacity]
      /\ pipe.tail \in Slot /\ pipe.buf \in [Slot -> Byte]
  BY DEF PipeInv, PipeTyped, PipeRing
<1>5. n \in 0 .. Capacity - pipe.avail /\ n \in 0 .. Capacity /\ n \in Nat
  <2>1. \A a, b \in Nat : MinOf(a, b) \in 0 .. b
    BY DEF MinOf
  <2>. HIDE DEF m
  <2>2. req[t].size - m \in Nat /\ Capacity - pipe.avail \in Nat
    BY <1>3, <1>4, Capacities
  <2>3. n \in 0 .. Capacity - pipe.avail
    BY <2>1, <2>2
  <2>. HIDE DEF n
  <2>. QED  BY <1>4, <2>2, <2>3, Capacities
<1>. HIDE DEF n, m
<1>6. /\ given \in Seq(Byte) /\ Len(given) = n
      /\ \A i \in 1 .. n : given[i] = <<t, m + i>> /\ given[i] \in Byte
  <2>1. \A i \in 1 .. n : <<t, m + i>> \in Byte
    BY <1>1, <1>3, <1>5 DEF Byte
  <2>. QED  BY <1>5, <2>1
<1>7. \A j \in Slot : written[j] = IF Distance(j, pipe.tail) + 1 <= n
                                   THEN given[Distance(j, pipe.tail) + 1] ELSE pipe.buf[j]
  <2>. TAKE j \in Slot
  <2>1. (j - pipe.tail) % Capacity = Distance(j, pipe.tail)
    BY <1>4, RingPositions DEF Distance
  <2>2. j \in 0 .. Capacity - 1
    BY Capacities
  <2>. QED  BY <2>1, <2>2
<1>8. written \in [Slot -> Byte]
  <2>1. DOMAIN written = Slot /\ written = [j \in Slot |-> written[j]]
    BY Capacities
  <2>2. \A j \in Slot : Distance(j, pipe.tail) \in Nat
    BY <1>4, Capacities DEF Distance
  <2>. HIDE DEF written, given
  <2>3. \A j \in Slot : written[j] \in Byte
    <3>. TAKE j \in Slot
    <3>1. CASE Distance(j, pipe.tail) + 1 <= n
      <4>1. Distance(j, pipe.tail) + 1 \in 1 .. n
        BY <1>5, <2>2, <3>1
      <4>. QED  BY <1>6, <1>7, <3>1, <4>1
    <3>2. CASE ~ (Distance(j, pipe.tail) + 1 <= n)
      BY <1>4, <1>7, <3>2
    <3>. QED  BY <3>1, <3>2
  <2>. QED  BY <2>1, <2>3
<1>. HIDE DEF given, written
<1>9. \A x, y \in Seq(Byte) :
        /\ x \o y \in Seq(Byte) /\ Len(x \o y) = Len(x) + Len(y)
        /\ \A i \in 1 .. Len(x) : (x \o y)[i] = x[i]
        /\ \A i \in 1 .. Len(y) : (x \o y)[Len(x) + i] = y[i]
  OBVIOUS
<1>10. e \in Seq(Byte) /\ Len(e) = m + n
  BY <1>3, <1>6, <1>9 DEF m
<1>11. /\ chan' \in Seq(Byte) /\ Len(chan') = Len(chan) + n
       /\ \A i \in 1 .. Len(chan) : chan'[i] = chan[i]
       /\ \A i \in 1 .. n : chan'[Len(chan) + i] = <<t, m + i>>
  BY <1>1, <1>4, <1>6, <1>9
<1>. HIDE DEF e
<1>12. /\ PipeExclusive' /\ Requests'
       /\ events' \in [Semaphores -> Nat] /\ req' \in [Writer \cup Reader -> RequestType]
       /\ \A u \in Writer \cup Reader : u # t => req'[u] = req[u]
       /\ (n > 0 /\ req'[t].data = e) \/ req'[t].data = <<>>
  BY <1>1, <1>2, <1>10, AfterMoveKeeps
<1>13. /\ pipe'.head = pipe.head /\ pipe'.avail = pipe.avail + n
       /\ pipe'.buf = written /\ pipe'.tail = Wrap(pipe.tail + n)
       /\ pipe' \in [buf : [Slot -> Byte], head : Slot, tail : Slot, avail : 0 .. Capacity]
  <2>1. (pipe.tail + n) % Capacity = Wrap(pipe.tail + n) /\ Wrap(pipe.tail + n) \in Slot
    BY <1>4, <1>5, RingPositions
  <2>2. pipe.avail + n \in 0 .. Capacity
    BY <1>4, <1>5, Capacities
  <2>. QED  BY <1>1, <1>4, <1>8, <2>1, <2>2
<1>14. PipeTyped'
  BY <1>11, <1>12, <1>13 DEF PipeTyped, RequestType
<1>15. PipeRing'
  <2>. DEFINE h == pipe.head
              a == pipe.avail
  <2>1. h \in Slot /\ a \in 0 .. Capacity /\ n \in 0 .. Capacity - a /\ pipe.tail = Wrap(h + a)
    BY <1>4, <1>5
  <2>2. /\ \A i \in 1 .. a : chan[i] = pipe.buf[Wrap(h + i - 1)]
        /\ Len(chan) = a
    BY <1>4
  <2>3. /\ pipe'.head = h /\ pipe'.avail = a + n /\ pipe'.tail = Wrap(pipe.tail + n)
    BY <1>13
  <2>. HIDE DEF h, a
  <2>4. /\ Wrap(Wrap(h + a) + n) = Wrap(h + (a + n))
        /\ \A i \in 1 .. a : ~ (Distance(Wrap(h + i - 1), Wrap(h + a)) + 1 <= n)
        /\ \A i \in 1 .. n : Distance(Wrap(h + (a + i) - 1), Wrap(h + a)) + 1 = i
    BY <2>1, RingGiven
  <2>5. ASSUME NEW i \in 1 .. a + n PROVE chan'[i] = written[Wrap(h + i - 1)]
    <3>1. i \in 1 .. Capacity /\ Wrap(h + i - 1) \in Slot
      <4>1. i \in 1 .. Capacity
        BY <1>5, <2>1, Capacities
      <4>. QED  BY <2>1, <4>1, RingPositions
    <3>2. CASE i <= a
      <4>1. i \in 1 .. a /\ i \in 1 .. Len(chan)
        BY <2>1, <2>2, <3>2
      <4>2. written[Wrap(h + i - 1)] = pipe.buf[Wrap(h + i - 1)]
        BY <1>7, <2>1, <2>4, <3>1, <4>1
      <4>. QED  BY <1>11, <2>2, <4>1, <4>2
    <3>3. CASE i > a
      <4>1. i - a \in 1 .. n /\ a + (i - a) = i /\ i - a <= n
        BY <1>5, <2>1, <3>3
      <4>2. Distance(Wrap(h + i - 1), pipe.tail) + 1 = i - a
        BY <2>1, <2>4, <4>1
      <4>3. written[Wrap(h + i - 1)] = given[i - a]
        BY <1>7, <3>1, <4>1, <4>2
      <4>4. given[i - a] = <<t, m + (i - a)>> /\ chan'[a + (i - a)] = <<t, m + (i - a)>>
        BY <1>6, <1>11, <2>2, <4>1
      <4>. QED  BY <4>1, <4>3, <4>4
    <3>. QED  BY <2>1, <3>2, <3>3
  <2>6. Len(chan') = pipe'.avail /\ pipe'.tail = Wrap(pipe'.head + pipe'.avail)
    BY <1>11, <2>1, <2>2, <2>3, <2>4
  <2>7. \A i \in 1 .. pipe'.avail : chan'[i] = pipe'.buf[Wrap(pipe'.head + i - 1)]
    BY <1>13, <2>3, <2>5
  <2>. QED  BY <2>6, <2>7 DEF PipeRing
<1>16. NoneAsleepOverData'
  BY <1>2 DEF NoneAsleepOverData
<1>17. Flow'
  <2>1. ASSUME NEW s \in Reader
        PROVE  /\ JointWhole(req'[s].data, chan')
               /\ \A u \in Writer : Len(req'[u].data) > 0
                    => JointLast(req'[s].data, chan', <<u, Len(req'[u].data)>>)
    <3>1. JointWhole(req[s].data, chan) /\ (m > 0 => JointLast(req[s].data, chan, <<t, m>>))
      BY <1>1 DEF PipeInv, Flow, m
    <3>2. req'[s].data = req[s].data /\ req[s].data \in Seq(Byte)
      BY <1>1, <1>12, RequestIs, QueueAssumption
    <3>3. /\ JointWhole(req[s].data, chan')
          /\ n > 0 => JointLast(req[s].data, chan', <<t, m + n>>)
      BY <1>1, <1>3, <1>4, <1>5, <1>11, <3>1, <3>2, JointGiven
    <3>4. ASSUME NEW u \in Writer, Len(req'[u].data) > 0
          PROVE  u = t /\ n > 0 /\ Len(req'[u].data) = m + n
      <4>1. u = t
        BY <1>1, <1>2, <1>12, <3>4, OthersEmpty
      <4>2. req'[t].data # <<>>
        BY <3>4, <4>1
      <4>. QED  BY <1>10, <1>12, <4>1, <4>2
    <3>. QED  BY <3>2, <3>3, <3>4
  <2>. QED  BY <2>1 DEF Flow
<1>18. Fifo!Put \/ UNCHANGED <<chan, delivered>>
  <2>1. CASE n = 0
    <3>1. Len(chan') = Len(chan) /\ \A i \in 1 .. Len(chan) : chan'[i] = chan[i]
      BY <1>4, <1>11, <2>1
    <3>2. chan' = chan
      BY <1>4, <1>11, <3>1
    <3>. QED  BY <1>1, <3>2
  <2>2. CASE n > 0
    <3>1. Len(chan) < Len(chan') /\ Len(chan') <= Capacity
      BY <1>4, <1>5, <1>11, <2>2, Capacities
    <3>2. SubSeq(chan', 1, Len(chan)) = chan
      BY <1>4, <1>11, <3>1
    <3>. QED  BY <1>1, <3>1, <3>2 DEF Fifo!Put
  <2>. QED  BY <1>5, <2>1, <2>2
<1>. QED  BY <1>12, <1>14, <1>15, <1>16, <1>17, <1>18 DEF PipeInv

\* Every step of a user of a pipe, and what it is to the channel.
LEMMA PipeStepKeeps ==
  ASSUME PipeInv, NEW t \in PipeUsers, PipeStep(t), program' = program
  PROVE  PipeInv' /\ (Fifo!Next \/ UNCHANGED <<chan, delivered>>)
BY EnterPipeKeeps, WaitConditionKeeps, WaitConditionFailsKeeps, get_dataKeeps, put_dataKeeps
   DEF PipeStep, Fifo!Next

-----------------------------------------------------------------------------

\* The buffer of the program that runs, and the other one as it was created.
BufferInv ==
  \/ program \in {"pmsgq", "msgqueue"} /\ QueueInv /\ PipeInit
  \/ program \in {"ppipe", "pipe"} /\ PipeInv

\* A new buffer is an empty channel.
LEMMA BufferInvInit == BufferInit => BufferInv /\ Fifo!Init
<1>. SUFFICES ASSUME BufferInit PROVE BufferInv /\ Fifo!Init
  OBVIOUS
<1>1. /\ events = QueueSems /\ QueueInit /\ PipeInit
      /\ program \in {"pmsgq", "msgqueue", "ppipe", "pipe"}
  BY DEF BufferInit
<1>2. /\ events \in [Semaphores -> Nat] /\ events["get"] = 0 /\ events["put"] = Capacity
      /\ events["mutex_get"] = 1 /\ events["mutex_put"] = 1
  BY <1>1, Capacities DEF QueueSems, Semaphores
<1>3. 0 \in Slot /\ Wrap(0) = 0
  BY Capacities DEF Wrap
<1>4. chan = <<>> /\ Len(chan) = 0 /\ delivered = <<>>
  BY <1>1 DEF QueueInit
<1>5. QueueInv
  <2>1. (CHOOSE x \in Message : TRUE) \in Message
    BY QueueAssumption
  <2>2. \A u \in Writer \cup Reader : call[u] = "out"
    BY <1>1 DEF QueueInit
  <2>3. \A S \in {Writer, Reader}, q \in {"copy", "advance", "signal"} : ~At(S, q)
    BY <2>2 DEF At
  <2>4. mq.head = 0 /\ mq.tail = 0
    BY <1>1 DEF QueueInit
  <2>5. QueueTyped
    BY <1>1, <1>2, <1>3, <2>1 DEF QueueInit, QueueTyped, Points
  <2>6. Exclusive
    BY <1>2, <2>2 DEF Exclusive, UsersOnly, OneCalls, MutexHeld
  <2>7. Counted
    <3>1. \A S \in {Writer, Reader}, q \in {"copy", "advance", "signal"} : Bit(At(S, q)) = 0
      BY <2>3 DEF Bit
    <3>. QED  BY <1>2, <1>4, <3>1, Capacities DEF Counted
  <2>8. RingHolds
    <3>1. HeadOf = 0 /\ TailOf = 0
      BY <2>3, <2>4 DEF HeadOf, TailOf
    <3>. QED  BY <1>3, <1>4, <3>1 DEF RingHolds
  <2>. QED  BY <2>5, <2>6, <2>7, <2>8 DEF QueueInv
<1>6. PipeInv
  <2>1. /\ asleep = {} /\ pipe.head = 0 /\ pipe.tail = 0 /\ pipe.avail = 0
        /\ \A u \in Writer \cup Reader : req[u] = Outside
    BY <1>1 DEF PipeInit
  <2>2. \A u \in Writer \cup Reader : ~InPipe(u) /\ req[u].data = <<>>
    BY <2>1, OutsideIs DEF InPipe
  <2>3. PipeTyped
    <3>1. NoByte \in Byte
      BY QueueAssumption DEF NoByte, Byte
    <3>2. pipe \in [buf : [Slot -> Byte], head : Slot, tail : Slot, avail : 0 .. Capacity]
      BY <1>1, <1>3, <3>1, Capacities DEF PipeInit
    <3>3. req \in [Writer \cup Reader -> RequestType]
      BY <1>1, OutsideIs DEF PipeInit
    <3>. QED  BY <1>2, <1>4, <3>2, <3>3 DEF PipeTyped, RequestType
  <2>4. Requests
    BY <2>1, <2>2 DEF Requests
  <2>5. PipeExclusive
    BY <1>2, <2>2 DEF PipeExclusive, PipeSide, PipeUsersOnly
  <2>6. PipeRing
    BY <1>3, <1>4, <2>1 DEF PipeRing
  <2>7. NoneAsleepOverData
    BY <2>1 DEF NoneAsleepOverData
  <2>8. Flow
    <3>1. JointWhole(<<>>, <<>>)
      BY DEF JointWhole
    <3>. QED  BY <1>4, <2>2, <3>1 DEF Flow
  <2>. QED  BY <2>3, <2>4, <2>5, <2>6, <2>7, <2>8 DEF PipeInv
<1>. QED  BY <1>1, <1>4, <1>5, <1>6 DEF BufferInv, Fifo!Init

\* Every step keeps the invariant and is a step of the channel or none.
LEMMA BufferStep ==
  ASSUME BufferInv, [BufferNext]_bufferVars
  PROVE  BufferInv' /\ [Fifo!Next]_<<chan, delivered>>
<1>1. CASE UNCHANGED bufferVars
  <2>1. UNCHANGED <<program, events, mq, call, msg, chan, delivered, pipe, asleep, req>>
    BY <1>1 DEF bufferVars, queueVars, pipeVars
  <2>2. PipeInit => PipeInit'
    BY <2>1 DEF PipeInit
  <2>3. QueueInv => QueueInv'
    <3>1. QueueTyped => QueueTyped'
      BY <2>1 DEF QueueTyped
    <3>2. \A S, q : At(S, q)' <=> At(S, q)
      BY <2>1 DEF At
    <3>3. Exclusive => Exclusive'
      BY <2>1 DEF Exclusive, UsersOnly, OneCalls, MutexHeld, QueueUsers, Serialized
    <3>4. Counted /\ RingHolds => Counted' /\ RingHolds'
      BY <2>1, <3>2, RingKept
    <3>. QED  BY <3>1, <3>3, <3>4 DEF QueueInv
  <2>4. PipeInv => PipeInv'
    <3>1. PipeTyped /\ PipeRing => PipeTyped' /\ PipeRing'
      BY <2>1 DEF PipeTyped, PipeRing
    <3>2. Requests /\ NoneAsleepOverData => Requests' /\ NoneAsleepOverData'
      BY <2>1 DEF Requests, NoneAsleepOverData, MustWait, InPipe
    <3>3. PipeExclusive => PipeExclusive'
      BY <2>1 DEF PipeExclusive, PipeSide, PipeUsersOnly, PipeUsers, InPipe
    <3>4. Flow => Flow'
      BY <2>1, FlowKept
    <3>. QED  BY <3>1, <3>2, <3>3, <3>4 DEF PipeInv
  <2>. QED  BY <2>1, <2>2, <2>3, <2>4 DEF BufferInv
<1>2. CASE QueueNext /\ UNCHANGED pipeVars /\ program' = program
  <2>1. PICK t \in QueueUsers : QueueStep(t)
    BY <1>2 DEF QueueNext
  <2>2. program \in {"pmsgq", "msgqueue"} /\ QueueInv /\ PipeInit
    BY DEF BufferInv, QueueUsers
  <2>3. PipeInit'
    BY <1>2, <2>2 DEF PipeInit, pipeVars
  <2>4. QueueInv' /\ (Fifo!Next \/ UNCHANGED <<chan, delivered>>)
    BY <1>2, <2>1, <2>2, QueueStepKeeps
  <2>. QED  BY <1>2, <2>2, <2>3, <2>4 DEF BufferInv
<1>3. CASE PipeNext /\ program' = program
  <2>1. PICK t \in PipeUsers : PipeStep(t)
    BY <1>3 DEF PipeNext
  <2>2. program \in {"ppipe", "pipe"} /\ PipeInv
    BY DEF BufferInv, PipeUsers
  <2>3. PipeInv' /\ (Fifo!Next \/ UNCHANGED <<chan, delivered>>)
    BY <1>3, <2>1, <2>2, PipeStepKeeps
  <2>. QED  BY <1>3, <2>2, <2>3 DEF BufferInv
<1>. QED  BY <1>1, <1>2, <1>3 DEF BufferNext

\* A message queue and a pipe, with or without mutexes, of any capacity and with any
\* number of readers and writers, implement the bounded channel of MtFifo: the put
\* and the get happen at the copy, whatever the others do before the pointers and
\* the counts follow (get_msg, put_msg, get_data, put_data).
THEOREM BuffersAreFifo == BufferSpec => IsFifo
<1>1. BufferInit => Fifo!Init
  BY BufferInvInit
<1>2. BufferSpec => []BufferInv
  BY BufferInvInit, BufferStep, PTL DEF BufferSpec
<1>3. BufferInv /\ [BufferNext]_bufferVars => [Fifo!Next]_<<chan, delivered>>
  BY BufferStep
<1>. QED  BY <1>1, <1>2, <1>3, PTL DEF BufferSpec, IsFifo, Fifo!Spec

\* The mutexes of a pipe make its reads and writes atomic, although each releases the
\* monitor in the middle (GetPipeTimed, PutPipeTimed).
THEOREM TransfersAtomic == BufferSpec => []AtomicTransfers
<1>1. BufferInv => AtomicTransfers
  <2>1. CASE program \in {"pmsgq", "msgqueue"} /\ PipeInit
    <3>1. \A r \in Reader : req[r].data = <<>>
      BY <2>1, OutsideIs DEF PipeInit
    <3>2. Whole(<<>>)
      BY DEF Whole
    <3>. QED  BY <2>1, <3>1, <3>2 DEF AtomicTransfers
  <2>2. CASE PipeInv
    <3>1. \A r \in Reader : /\ req[r].data \in Seq(Byte) /\ chan \in Seq(Byte)
                            /\ JointWhole(req[r].data, chan)
      BY <2>2, RequestIs DEF PipeInv, PipeTyped, Flow
    <3>2. \A r \in Reader : Whole(req[r].data) /\ Whole(chan)
      BY <3>1, JointParts
    <3>. QED  BY <3>2, QueueAssumption DEF AtomicTransfers
  <2>. QED  BY <2>1, <2>2 DEF BufferInv
<1>. QED  BY <1>1, BufferInvInit, BufferStep, PTL DEF BufferSpec

\* Nobody sleeps on a pipe over bytes or room, although the condition is tested once
\* and a signal without a sleeper is lost (get_data, put_data).
THEOREM SleepersHaveReason == BufferSpec => []NoneAsleepOverData
<1>1. BufferInv => NoneAsleepOverData
  BY DEF BufferInv, PipeInv, PipeInit, NoneAsleepOverData
<1>. QED  BY <1>1, BufferInvInit, BufferStep, PTL DEF BufferSpec

-----------------------------------------------------------------------------
(***************************************************************************)
(* Arithmetic and 386 context.                                             *)
(***************************************************************************)

\* What the unit holds once task t has done the operations of its phase.
Left(t) == [of |-> t, op |-> phase[t]]

MathTyped ==
  /\ machine \in [has8087 : BOOLEAN, far : BOOLEAN, use_hiregs : BOOLEAN]
  /\ stackData \in [MathTask -> [of : MathTask, op : Int]]
  /\ math_data \in [MathTask -> [of : MathTask, op : Int]]
  /\ unit \in [of : MathTask, op : Int]
  /\ hi_regs \in [MathTask -> MathTask] /\ hi \in MathTask
  /\ phase \in [MathTask -> 0 .. OPS - 1]
  /\ curr \in MathTask /\ running \subseteq MathTask /\ protected \subseteq MathTask

\* Until main makes them ready the other tasks have done nothing, and nobody
\* disturbs main, protected or not.
MainAlone ==
  running = {"main"} =>
    /\ curr = "main" /\ \A t \in Created : phase[t] = 0
    /\ wrong = {}
    /\ ~OwnUnit /\ phase["main"] # 0 => unit = Left("main")

\* The upper halves are those of the current task, or saved for theirs.
RegsKept ==
  machine.use_hiregs =>
    hi = curr /\ \A t \in MathTask : t # curr => hi_regs[t] = t

\* The state in the stack of a task: main has one from the start.
StackKept ==
  \A t \in protected \cup {"main"} :
    /\ machine.far => stackData[t] # Garbage
    /\ OwnUnit /\ phase[t] # 0 => stackData[t] = Left(t)

\* The state of a protected task: in the unit while it runs, else saved.
UnitKept ==
  ~OwnUnit =>
    /\ unit # NoData
    /\ \A t \in protected :
         /\ math_data[t] # NoData
         /\ phase[t] # 0 => Left(t) = IF t = curr THEN unit ELSE math_data[t]

MathInv == MathTyped /\ MainAlone /\ RegsKept /\ StackKept /\ UnitKept /\ ContextKept

\* The state in which main starts.
LEMMA MathInitInv == MathInit => MathInv
<1>. SUFFICES ASSUME MathInit PROVE MathInv
  OBVIOUS
<1>. USE MathAssumption DEF MathInit, MathTask
<1>1. "main" \in MathTask /\ Clean # Garbage /\ Clean # NoData
  BY DEF Clean, Garbage, NoData
<1>2. MathTyped
  BY <1>1 DEF MathTyped, Clean, Garbage, NoData
<1>3. MainAlone
  BY DEF MainAlone
<1>4. RegsKept
  BY DEF RegsKept
<1>5. StackKept
  BY <1>1 DEF StackKept
<1>6. UnitKept
  BY <1>1 DEF UnitKept
<1>7. ContextKept
  BY DEF ContextKept
<1>. QED  BY <1>2, <1>3, <1>4, <1>5, <1>6, <1>7 DEF MathInv

\* The marks are different, and no operation leaves one of them.
LEMMA Marks ==
  /\ Clean # NoData /\ Clean # Garbage /\ Garbage # NoData
  /\ Clean \in [of : MathTask, op : Int] /\ Garbage \in [of : MathTask, op : Int]
  /\ NoData \in [of : MathTask, op : Int]
  /\ \A t \in MathTask, n \in Nat : /\ [of |-> t, op |-> n] # Garbage
                                    /\ [of |-> t, op |-> n] # NoData
                                    /\ [of |-> t, op |-> n] \in [of : MathTask, op : Int]
BY DEF Clean, Garbage, NoData, MathTask

\* main makes the other tasks ready.
LEMMA ReadyKeeps ==
  ASSUME MathInv, Ready PROVE MathInv'
<1>. USE DEF MathInv, Ready
<1>1. MathTyped'
  BY DEF MathTyped
<1>2. MainAlone'
  BY DEF MainAlone, OwnUnit, Left
<1>3. RegsKept' /\ UnitKept' /\ ContextKept'
  BY DEF RegsKept, UnitKept, ContextKept, OwnUnit, Left
<1>4. StackKept'
  BY DEF StackKept, OwnUnit, Left
<1>. QED  BY <1>1, <1>2, <1>3, <1>4

\* ProtectMath gives the task a context before any but main has computed.
LEMMA ProtectMathKeeps ==
  ASSUME MathInv, NEW t \in MathTask, ProtectMath(t) PROVE MathInv'
<1>. USE DEF MathInv
<1>1. /\ running = {"main"} /\ phase["main"] = 0 /\ t \notin protected
      /\ protected' = protected \cup {t}
      /\ UNCHANGED <<machine, unit, hi, hi_regs, curr, running, phase, wrong>>
      /\ math_data' = IF OwnUnit THEN math_data ELSE [math_data EXCEPT ![t] = Clean]
      /\ stackData' = IF machine.far /\ t # "main" THEN [stackData EXCEPT ![t] = Clean]
                      ELSE stackData
  BY DEF ProtectMath, mt_init_math
<1>2. phase[t] = 0 /\ curr = "main"
  BY <1>1 DEF MainAlone, MathTask
<1>3. MathTyped'
  BY <1>1, Marks DEF MathTyped
<1>4. MainAlone'
  BY <1>1 DEF MainAlone, OwnUnit, Left
<1>5. RegsKept'
  BY <1>1 DEF RegsKept
<1>6. StackKept'
  <2>. SUFFICES ASSUME NEW u \in protected' \cup {"main"}
                PROVE  /\ machine.far => stackData'[u] # Garbage
                       /\ OwnUnit /\ phase[u] # 0 => stackData'[u] = [of |-> u, op |-> phase[u]]
    BY <1>1 DEF StackKept, OwnUnit, Left
  <2>1. CASE u = t
    <3>1. machine.far => stackData'[u] # Garbage
      BY <1>1, <2>1, Marks DEF StackKept, MathTyped
    <3>. QED  BY <1>2, <2>1, <3>1
  <2>2. CASE u # t
    <3>1. stackData'[u] = stackData[u] /\ u \in protected \cup {"main"}
      BY <1>1, <2>2 DEF MathTyped
    <3>. QED  BY <3>1 DEF StackKept, Left
  <2>. QED  BY <2>1, <2>2
<1>7. UnitKept'
  <2>. SUFFICES ASSUME ~OwnUnit
                PROVE  /\ unit # NoData
                       /\ \A u \in protected' :
                            /\ math_data'[u] # NoData
                            /\ phase[u] # 0 => [of |-> u, op |-> phase[u]]
                                                 = IF u = curr THEN unit ELSE math_data'[u]
    BY <1>1 DEF UnitKept, OwnUnit, Left
  <2>. SUFFICES ASSUME NEW u \in protected'
                PROVE  /\ math_data'[u] # NoData
                       /\ phase[u] # 0 => [of |-> u, op |-> phase[u]]
                                            = IF u = curr THEN unit ELSE math_data'[u]
    BY DEF UnitKept
  <2>1. CASE u = t
    BY <1>1, <1>2, <2>1, Marks DEF MathTyped
  <2>2. CASE u # t
    <3>1. math_data'[u] = math_data[u] /\ u \in protected
      BY <1>1, <2>2 DEF MathTyped
    <3>. QED  BY <3>1 DEF UnitKept, Left
  <2>. QED  BY <2>1, <2>2
<1>8. ContextKept'
  <2>1. <<t, "math">> \notin wrong
    BY <1>1 DEF MainAlone
  <2>. QED  BY <1>1, <2>1 DEF ContextKept
<1>. QED  BY <1>3, <1>4, <1>5, <1>6, <1>7, <1>8

\* A task switch: the context of the last task is saved where it has one, that of
\* the next one restored.
LEMMA SwitchKeeps ==
  ASSUME MathInv, NEW t \in MathTask, mt_switch(t) PROVE MathInv'
<1>. USE DEF MathInv
<1>1. /\ t \in running /\ t # curr /\ curr' = t
      /\ SwitchUnit(curr, t) /\ SwitchRegs(curr, t)
      /\ UNCHANGED <<machine, stackData, running, phase, protected, wrong>>
  BY DEF mt_switch
<1>2. running # {"main"}
  BY <1>1 DEF MainAlone
<1>. DEFINE data == IF math_data[curr] = NoData THEN math_data
                    ELSE [math_data EXCEPT ![curr] = unit]
            left == IF math_data[curr] = NoData THEN unit
                    ELSE IF machine.has8087 THEN Clean ELSE unit
<1>3. /\ math_data' = data
      /\ unit' = IF data[t] = NoData THEN left ELSE data[t]
  BY <1>1 DEF SwitchUnit, mt_save_math
<1>4. /\ data \in [MathTask -> [of : MathTask, op : Int]]
      /\ left \in [of : MathTask, op : Int]
      /\ data[t] = math_data[t]
      /\ \A u \in MathTask : u # curr => data[u] = math_data[u]
      /\ math_data[curr] # NoData => data[curr] = unit
  BY <1>1, Marks DEF MathTyped
<1>5. ~OwnUnit => left # NoData
  BY Marks DEF UnitKept
<1>. HIDE DEF data, left
<1>6. MathTyped'
  <2>1. hi' \in MathTask /\ hi_regs' \in [MathTask -> MathTask]
    BY <1>1 DEF SwitchRegs, MathTyped
  <2>2. unit' \in [of : MathTask, op : Int]
    BY <1>3, <1>4
  <2>. QED  BY <1>1, <1>3, <1>4, <2>1, <2>2 DEF MathTyped
<1>7. MainAlone'
  BY <1>1, <1>2 DEF MainAlone
<1>8. RegsKept'
  <2>. SUFFICES ASSUME machine.use_hiregs
                PROVE  hi' = t /\ \A u \in MathTask : u # t => hi_regs'[u] = u
    BY <1>1 DEF RegsKept
  <2>1. hi' = hi_regs[t] /\ hi_regs' = [hi_regs EXCEPT ![curr] = hi]
    BY <1>1 DEF SwitchRegs
  <2>2. hi = curr /\ \A u \in MathTask : u # curr => hi_regs[u] = u
    BY DEF RegsKept
  <2>. QED  BY <1>1, <2>1, <2>2 DEF MathTyped
<1>9. StackKept'
  BY <1>1 DEF StackKept, OwnUnit, Left
<1>10. UnitKept'
  <2>. SUFFICES ASSUME ~OwnUnit
                PROVE  /\ unit' # NoData
                       /\ \A u \in protected :
                            /\ math_data'[u] # NoData
                            /\ phase[u] # 0 => [of |-> u, op |-> phase[u]]
                                                 = IF u = t THEN unit' ELSE math_data'[u]
    BY <1>1 DEF UnitKept, OwnUnit, Left
  <2>1. unit' # NoData
    BY <1>3, <1>5
  <2>2. ASSUME NEW u \in protected
        PROVE  /\ math_data'[u] # NoData
               /\ phase[u] # 0 => [of |-> u, op |-> phase[u]]
                                    = IF u = t THEN unit' ELSE math_data'[u]
    <3>1. /\ math_data[u] # NoData /\ u \in MathTask /\ unit # NoData
          /\ phase[u] # 0 => [of |-> u, op |-> phase[u]] = IF u = curr THEN unit ELSE math_data[u]
      BY DEF UnitKept, Left, MathTyped
    <3>2. CASE u = curr
      BY <1>1, <1>3, <1>4, <3>1, <3>2
    <3>3. CASE u = t
      BY <1>1, <1>3, <1>4, <3>1, <3>3
    <3>4. CASE u # curr /\ u # t
      BY <1>3, <1>4, <3>1, <3>4
    <3>. QED  BY <3>2, <3>3, <3>4
  <2>. QED  BY <2>1, <2>2
<1>11. ContextKept'
  BY <1>1 DEF ContextKept
<1>. QED  BY <1>6, <1>7, <1>8, <1>9, <1>10, <1>11

\* The next phase of an evaluation.
LEMMA NextPhase ==
  ASSUME NEW n \in 0 .. OPS - 1
  PROVE  /\ (n + 1) % OPS \in 0 .. OPS - 1
         /\ n = OPS - 1 => (n + 1) % OPS = 0
         /\ n # OPS - 1 => (n + 1) % OPS = n + 1
<1>1. OPS \in Nat /\ OPS > 1
  BY MathAssumption
<1>2. \A m \in Nat : m > 1 => /\ \A k \in 0 .. m - 1 : k % m = k
                              /\ m % m = 0
  OBVIOUS
<1>3. CASE n = OPS - 1
  <2>1. n + 1 = OPS
    BY <1>1, <1>3
  <2>. QED  BY <1>1, <1>2, <1>3, <2>1
<1>4. CASE n # OPS - 1
  <2>1. n + 1 \in 0 .. OPS - 1
    BY <1>1, <1>4
  <2>. QED  BY <1>1, <1>2, <1>4, <2>1
<1>. QED  BY <1>3, <1>4

\* One operation: right for a task that is protected, or alone.
LEMMA do_mathKeeps ==
  ASSUME MathInv, do_math PROVE MathInv'
<1>. USE DEF MathInv
<1>. DEFINE op == phase[curr]
            held == IF OwnUnit THEN stackData[curr] ELSE unit
            right == /\ op = 0 \/ held = [of |-> curr, op |-> op]
                     /\ machine.far => stackData[curr] # Garbage
            after == IF ~right THEN Garbage
                     ELSE IF op = OPS - 1 THEN Clean ELSE [of |-> curr, op |-> op + 1]
<1>1. /\ IF OwnUnit THEN stackData' = [stackData EXCEPT ![curr] = after] /\ unit' = unit
         ELSE unit' = after /\ stackData' = stackData
      /\ phase' = [phase EXCEPT ![curr] = (op + 1) % OPS]
      /\ hi' = curr
      /\ wrong' = wrong \cup (IF op = OPS - 1 /\ ~right THEN {<<curr, "math">>} ELSE {})
                        \cup (IF machine.use_hiregs /\ op > 0 /\ hi # curr
                              THEN {<<curr, "registers">>} ELSE {})
      /\ UNCHANGED <<machine, math_data, hi_regs, curr, running, protected>>
  BY DEF do_math
<1>2. curr \in MathTask /\ op \in 0 .. OPS - 1 /\ op \in Nat
  BY DEF MathTyped
<1>3. curr \in protected => right
  BY DEF StackKept, UnitKept, Left
<1>4. running = {"main"} => right
  BY DEF StackKept, MainAlone, Left
<1>5. OwnUnit /\ curr = "main" => right
  BY DEF StackKept, OwnUnit, Left
<1>6. /\ after \in [of : MathTask, op : Int] /\ after # NoData
      /\ right => after # Garbage
      /\ right /\ op # OPS - 1 => after = [of |-> curr, op |-> op + 1]
  BY <1>2, Marks
<1>7. /\ wrong' \subseteq wrong \cup {<<curr, "math">>}
      /\ right => wrong' = wrong
  <2>1. ~ (machine.use_hiregs /\ op > 0 /\ hi # curr)
    BY DEF RegsKept
  <2>. QED  BY <1>1, <2>1
<1>. HIDE DEF right, after, held
<1>8. /\ phase'[curr] = (op + 1) % OPS
      /\ \A u \in MathTask : u # curr => phase'[u] = phase[u]
      /\ phase' \in [MathTask -> 0 .. OPS - 1]
  BY <1>1, <1>2, NextPhase DEF MathTyped
<1>9. phase'[curr] # 0 => op # OPS - 1 /\ phase'[curr] = op + 1
  BY <1>2, <1>8, NextPhase
<1>. HIDE DEF op
<1>10. right /\ phase'[curr] # 0 => after = [of |-> curr, op |-> phase'[curr]]
  BY <1>6, <1>9
<1>11. MathTyped'
  BY <1>1, <1>2, <1>6, <1>8 DEF MathTyped
<1>12. MainAlone'
  <2>. SUFFICES ASSUME running = {"main"}
                PROVE  /\ curr = "main" /\ \A u \in Created : phase'[u] = 0
                       /\ wrong' = {}
                       /\ ~OwnUnit /\ phase'["main"] # 0 =>
                            unit' = [of |-> "main", op |-> phase'["main"]]
    BY <1>1 DEF MainAlone, OwnUnit, Left
  <2>1. curr = "main" /\ wrong = {} /\ right /\ \A u \in Created : phase[u] = 0
    BY <1>4 DEF MainAlone
  <2>2. \A u \in Created : u # curr /\ u \in MathTask
    BY <2>1, MathAssumption DEF MathTask
  <2>. QED  BY <1>1, <1>7, <1>8, <1>10, <2>1, <2>2
<1>13. RegsKept'
  BY <1>1 DEF RegsKept
<1>14. StackKept'
  <2>. SUFFICES ASSUME NEW u \in protected \cup {"main"}
                PROVE  /\ machine.far => stackData'[u] # Garbage
                       /\ OwnUnit /\ phase'[u] # 0 => stackData'[u] = [of |-> u, op |-> phase'[u]]
    BY <1>1 DEF StackKept, OwnUnit, Left
  <2>1. u \in MathTask
    BY DEF MathTyped, MathTask
  <2>2. /\ machine.far => stackData[u] # Garbage
        /\ OwnUnit /\ phase[u] # 0 => stackData[u] = [of |-> u, op |-> phase[u]]
    BY DEF StackKept, Left
  <2>3. CASE ~OwnUnit
    BY <1>1, <2>2, <2>3
  <2>4. CASE OwnUnit /\ u # curr
    <3>1. stackData'[u] = stackData[u]
      BY <1>1, <2>1, <2>4 DEF MathTyped
    <3>. QED  BY <1>8, <2>1, <2>2, <2>4, <3>1
  <2>5. CASE OwnUnit /\ u = curr
    <3>1. right
      BY <1>3, <1>5, <2>5
    <3>2. stackData'[u] = after
      BY <1>1, <2>1, <2>5 DEF MathTyped
    <3>. QED  BY <1>6, <1>10, <2>5, <3>1, <3>2
  <2>. QED  BY <2>3, <2>4, <2>5
<1>15. UnitKept'
  <2>. SUFFICES ASSUME ~OwnUnit
                PROVE  /\ unit' # NoData
                       /\ \A u \in protected :
                            /\ math_data[u] # NoData
                            /\ phase'[u] # 0 => [of |-> u, op |-> phase'[u]]
                                                  = IF u = curr THEN unit' ELSE math_data[u]
    BY <1>1 DEF UnitKept, OwnUnit, Left
  <2>1. unit' = after
    BY <1>1
  <2>2. ASSUME NEW u \in protected
        PROVE  /\ math_data[u] # NoData
               /\ phase'[u] # 0 => [of |-> u, op |-> phase'[u]]
                                     = IF u = curr THEN unit' ELSE math_data[u]
    <3>1. /\ math_data[u] # NoData /\ u \in MathTask
          /\ phase[u] # 0 => [of |-> u, op |-> phase[u]] = IF u = curr THEN unit ELSE math_data[u]
      BY DEF UnitKept, Left, MathTyped
    <3>2. CASE u = curr
      BY <1>3, <1>10, <2>1, <3>1, <3>2
    <3>3. CASE u # curr
      BY <1>8, <3>1, <3>3
    <3>. QED  BY <3>2, <3>3
  <2>. QED  BY <1>6, <2>1, <2>2
<1>16. ContextKept'
  <2>1. \A u \in MathTask : <<u, "registers">> # <<curr, "math">>
    OBVIOUS
  <2>. QED  BY <1>1, <1>3, <1>7, <2>1 DEF ContextKept
<1>. QED  BY <1>11, <1>12, <1>13, <1>14, <1>15, <1>16

\* Whatever tasks compute, protected or not, on every machine and in every data
\* model, a task for which ProtectMath was called gets its own results, and every
\* task keeps the upper halves of its registers (math.c, mt_select_task).
THEOREM MathContextKept == MathSpec => []ContextKept
<1>1. MathInit => MathInv
  BY MathInitInv
<1>2. MathInv /\ [MathNext]_mathVars => MathInv'
  <2>. SUFFICES ASSUME MathInv, [MathNext]_mathVars PROVE MathInv'
    OBVIOUS
  <2>1. CASE UNCHANGED mathVars
    BY <2>1 DEF mathVars, MathInv, MathTyped, MainAlone, RegsKept, StackKept, UnitKept,
       ContextKept, OwnUnit, Left
  <2>. QED  BY <2>1, ReadyKeeps, ProtectMathKeeps, SwitchKeeps, do_mathKeeps DEF MathNext
<1>3. MathInv => ContextKept
  BY DEF MathInv
<1>. QED  BY <1>1, <1>2, <1>3, PTL DEF MathSpec

-----------------------------------------------------------------------------
(***************************************************************************)
(* Producers and consumers.                                                *)
(***************************************************************************)

\* A position of the buffer at most one round further, and how far one is ahead
\* of another.
Turn(n) == IF n < BUF_SIZE THEN n ELSE n - BUF_SIZE
Ahead(j, k) == IF j >= k THEN j - k ELSE (j - k) + BUF_SIZE

\* What the consumer takes at once, and the items and cells in the hands of a task.
Batch == IF program = "prcons2" THEN 1 ELSE ncons
Made == IF producer = "signal" THEN nprod ELSE 0
Reserved == IF producer = "put" THEN nprod ELSE 0
Claimed == IF consumer.in = "take" THEN Batch ELSE 0
Emptied == IF consumer.in = "signal" THEN Batch ELSE 0

Full == events["buf_used"] + Made + Claimed

ProdConsTyped ==
  /\ events \in [{"buf_free", "buf_used", "kbd"} -> Nat] /\ typed \in Nat
  /\ buffer \in [cell : [Cell -> {"EMPTY", "FULL"}], head : Cell, tail : Cell, wrong : {FALSE}]
  /\ producer \in {"wait", "put", "signal", "asleep"}
  /\ consumer \in [in : {"key", "kbd", "wait", "take", "signal", "asleep"}, left : Int]

\* Every cell is free, full or in the hands of a task, and the full ones are those
\* from the head to the tail.
CellsCounted ==
  /\ Full + events["buf_free"] + Reserved + Emptied = BUF_SIZE
  /\ buffer.tail = Turn(buffer.head + Full)
  /\ \A i \in Cell : buffer.cell[i] = "FULL" <=> Ahead(i, buffer.head) < Full
  /\ producer # "asleep" /\ consumer.in # "asleep"

\* Who sleeps in pmon has nothing to do.
SleepersIdle ==
  /\ producer \in {"wait", "asleep"} /\ consumer.in \in {"kbd", "asleep"}
  /\ producer = "asleep" => pmon_key = "FULL"
  /\ consumer.in = "asleep" => pmon_key = "EMPTY"

ProdConsInv ==
  /\ ProdConsTyped
  /\ \/ program \in Prcons /\ CellsCounted
     \/ program = "pmon" /\ SleepersIdle

\* The sizes of the buffer and of the batches.
LEMMA Sizes ==
  /\ BUF_SIZE \in Nat /\ BUF_SIZE > 0 /\ Cell = 0 .. BUF_SIZE - 1
  /\ nprod \in Nat /\ nprod > 0 /\ Batch \in Nat /\ Batch > 0
BY ProdConsAssumption DEF Cell, Batch

\* The cells the code walks through are the n next ones.
LEMMA CellsAre ==
  ASSUME NEW p \in Cell, NEW n \in 0 .. BUF_SIZE
  PROVE  /\ (p + n) % BUF_SIZE = Turn(p + n) /\ Turn(p + n) \in Cell
         /\ \A j \in Cell : j \in Cells(p, n) <=> Ahead(j, p) < n
         /\ Cells(p, n) \subseteq Cell
<1>1. \A m \in Nat : m > 0 => \A k \in Nat : /\ k < m => k % m = k
                                             /\ m <= k /\ k < 2 * m => k % m = k - m
  OBVIOUS
<1>2. ASSUME NEW k \in 0 .. BUF_SIZE
      PROVE  (p + k) % BUF_SIZE = Turn(p + k) /\ Turn(p + k) \in Cell
  <2>1. p + k \in Nat /\ p + k < 2 * BUF_SIZE
    BY Sizes
  <2>. QED  BY <1>1, <2>1, Sizes DEF Turn
<1>3. \A i \in 0 .. n - 1 : i \in 0 .. BUF_SIZE
  BY Sizes
<1>4. ASSUME NEW j \in Cell, j \in Cells(p, n) PROVE Ahead(j, p) < n
  <2>1. PICK i \in 0 .. n - 1 : j = (p + i) % BUF_SIZE
    BY <1>4 DEF Cells
  <2>2. j = Turn(p + i)
    BY <1>2, <1>3, <2>1
  <2>. QED  BY <2>2, Sizes DEF Turn, Ahead
<1>5. ASSUME NEW j \in Cell, Ahead(j, p) < n PROVE j \in Cells(p, n)
  <2>. DEFINE i == Ahead(j, p)
  <2>1. i \in 0 .. n - 1 /\ Turn(p + i) = j
    BY <1>5, Sizes DEF Turn, Ahead
  <2>. HIDE DEF i
  <2>2. (p + i) % BUF_SIZE = j
    BY <1>2, <1>3, <2>1
  <2>. QED  BY <2>1, <2>2 DEF Cells
<1>6. Cells(p, n) \subseteq Cell
  <2>1. \A i \in 0 .. n - 1 : (p + i) % BUF_SIZE \in Cell
    BY <1>2, <1>3
  <2>. QED  BY <2>1 DEF Cells
<1>. QED  BY <1>2, <1>4, <1>5, <1>6

\* The full cells after n more are put at the tail, or taken at the head.
LEMMA ArcGrows ==
  ASSUME NEW h \in Cell, NEW f \in Nat, NEW n \in Nat, f + n <= BUF_SIZE
  PROVE  /\ Turn(Turn(h + f) + n) = Turn(h + (f + n))
         /\ \A j \in Cell : Ahead(j, h) < f + n
              <=> Ahead(j, h) < f \/ Ahead(j, Turn(h + f)) < n
         /\ \A j \in Cell : Ahead(j, Turn(h + f)) < n => ~ (Ahead(j, h) < f)
BY Sizes DEF Turn, Ahead

\* n cells are taken from the front of an arc.
LEMMA ArcShrinks ==
  ASSUME NEW h \in Cell, NEW f \in Nat, NEW n \in Nat, f + n <= BUF_SIZE
  PROVE  /\ Turn(Turn(h + n) + f) = Turn(h + (f + n))
         /\ \A j \in Cell : Ahead(j, Turn(h + n)) < f
              <=> Ahead(j, h) < f + n /\ ~ (Ahead(j, h) < n)
BY Sizes DEF Turn, Ahead

\* The producer puts nprod items: it had reserved the room.
LEMMA put_bufferKeeps ==
  ASSUME ProdConsTyped, CellsCounted, producer = "put", put_buffer(nprod),
         producer' = "signal", UNCHANGED <<program, events, consumer, typed>>
  PROVE  ProdConsTyped' /\ CellsCounted'
<1>. DEFINE h == buffer.head
            f == Full
            P == Cells(buffer.tail, nprod)
<1>1. /\ buffer \in [cell : [Cell -> {"EMPTY", "FULL"}], head : Cell, tail : Cell, wrong : {FALSE}]
      /\ h \in Cell /\ buffer.tail \in Cell /\ buffer.tail = Turn(h + f)
      /\ \A i \in Cell : buffer.cell[i] = "FULL" <=> Ahead(i, h) < f
      /\ \A i \in Cell : buffer.cell[i] \in {"EMPTY", "FULL"}
  BY DEF ProdConsTyped, CellsCounted
<1>2. /\ events["buf_used"] \in Nat /\ events["buf_free"] \in Nat
      /\ Claimed \in Nat /\ Emptied \in Nat /\ Made = 0 /\ Reserved = nprod
      /\ Made' = nprod /\ Reserved' = 0 /\ Claimed' = Claimed /\ Emptied' = Emptied
  BY Sizes DEF ProdConsTyped, Claimed, Emptied, Made, Reserved, Batch
<1>3. f \in Nat /\ f + nprod <= BUF_SIZE /\ Full' = f + nprod
  <2>1. f \in Nat /\ Full' = f + nprod
    BY <1>2, Sizes DEF Full
  <2>2. f + events["buf_free"] + nprod + Emptied = BUF_SIZE
    BY <1>2 DEF CellsCounted
  <2>. QED  BY <1>2, <2>1, <2>2, Sizes
<1>4. /\ (buffer.tail + nprod) % BUF_SIZE = Turn(buffer.tail + nprod)
      /\ Turn(buffer.tail + nprod) \in Cell
      /\ \A j \in Cell : j \in P <=> Ahead(j, buffer.tail) < nprod
      /\ P \subseteq Cell
  <2>1. nprod \in 0 .. BUF_SIZE
    BY <1>3, Sizes
  <2>. QED  BY <1>1, <2>1, CellsAre
<1>5. /\ Turn(Turn(h + f) + nprod) = Turn(h + (f + nprod))
      /\ \A j \in Cell : Ahead(j, h) < f + nprod
           <=> Ahead(j, h) < f \/ Ahead(j, Turn(h + f)) < nprod
      /\ \A j \in Cell : Ahead(j, Turn(h + f)) < nprod => ~ (Ahead(j, h) < f)
  BY <1>1, <1>3, Sizes, ArcGrows
<1>6. ~ \E i \in P : buffer.cell[i] = "FULL"
  BY <1>1, <1>4, <1>5
<1>. HIDE DEF f, P
<1>7. /\ buffer'.cell = [i \in Cell |-> IF i \in P THEN "FULL" ELSE buffer.cell[i]]
      /\ buffer'.tail = Turn(buffer.tail + nprod) /\ buffer'.head = buffer.head
      /\ buffer' \in [cell : [Cell -> {"EMPTY", "FULL"}], head : Cell, tail : Cell, wrong : {FALSE}]
  <2>. DEFINE c == [i \in Cell |-> IF i \in P THEN "FULL" ELSE buffer.cell[i]]
              w == buffer.wrong \/ \E i \in P : buffer.cell[i] = "FULL"
  <2>1. c \in [Cell -> {"EMPTY", "FULL"}]
    BY <1>1
  <2>2. w = FALSE
    BY <1>1, <1>6
  <2>3. buffer' = [buffer EXCEPT !.cell = c, !.tail = (@ + nprod) % BUF_SIZE, !.wrong = w]
    BY DEF put_buffer, P
  <2>. HIDE DEF c, w
  <2>4. /\ buffer'.cell = c /\ buffer'.tail = Turn(buffer.tail + nprod)
        /\ buffer'.head = buffer.head
        /\ buffer' \in [cell : [Cell -> {"EMPTY", "FULL"}], head : Cell, tail : Cell, wrong : {FALSE}]
    BY <1>1, <1>4, <2>1, <2>2, <2>3
  <2>. QED  BY <2>4 DEF c
<1>8. ProdConsTyped'
  BY <1>7 DEF ProdConsTyped
<1>9. \A i \in Cell : buffer'.cell[i] = "FULL" <=> Ahead(i, buffer'.head) < Full'
  BY <1>1, <1>3, <1>4, <1>5, <1>7
<1>10. Full' + events'["buf_free"] + Reserved' + Emptied' = BUF_SIZE
  <2>1. f + events["buf_free"] + nprod + Emptied = BUF_SIZE
    BY <1>2 DEF CellsCounted, f
  <2>. QED  BY <1>2, <1>3, <2>1, Sizes
<1>11. buffer'.tail = Turn(buffer'.head + Full')
  BY <1>1, <1>3, <1>5, <1>7
<1>12. producer' # "asleep" /\ consumer'.in # "asleep"
  BY DEF CellsCounted
<1>. QED  BY <1>8, <1>9, <1>10, <1>11, <1>12 DEF CellsCounted

\* The consumer takes its items: it had claimed them.
LEMMA get_bufferKeeps ==
  ASSUME ProdConsTyped, CellsCounted, consumer.in = "take", get_buffer(Batch),
         consumer' = [consumer EXCEPT !.in = "signal"],
         UNCHANGED <<program, events, producer, typed>>
  PROVE  ProdConsTyped' /\ CellsCounted'
<1>. DEFINE h == buffer.head
            f == Full - Batch
            P == Cells(buffer.head, Batch)
<1>1. /\ buffer \in [cell : [Cell -> {"EMPTY", "FULL"}], head : Cell, tail : Cell, wrong : {FALSE}]
      /\ h \in Cell /\ buffer.tail = Turn(h + Full)
      /\ \A i \in Cell : buffer.cell[i] = "FULL" <=> Ahead(i, h) < Full
      /\ \A i \in Cell : buffer.cell[i] \in {"EMPTY", "FULL"}
  BY DEF ProdConsTyped, CellsCounted
<1>2. /\ consumer'.in = "signal"
      /\ consumer' \in [in : {"key", "kbd", "wait", "take", "signal", "asleep"}, left : Int]
  BY DEF ProdConsTyped
<1>3. /\ events["buf_used"] \in Nat /\ events["buf_free"] \in Nat
      /\ Made \in Nat /\ Reserved \in Nat /\ Claimed = Batch /\ Emptied = 0
      /\ Claimed' = 0 /\ Emptied' = Batch /\ Made' = Made /\ Reserved' = Reserved
  BY <1>2, Sizes DEF ProdConsTyped, Claimed, Emptied, Made, Reserved, Batch
<1>4. f \in Nat /\ f + Batch <= BUF_SIZE /\ Full = f + Batch /\ Full' = f /\ Batch \in 0 .. BUF_SIZE
  <2>1. Full = events["buf_used"] + Made + Batch /\ Full' = events["buf_used"] + Made + 0
    BY <1>3 DEF Full
  <2>2. Full + events["buf_free"] + Reserved + 0 = BUF_SIZE
    BY <1>3 DEF CellsCounted
  <2>3. Batch \in Nat /\ BUF_SIZE \in Nat
    BY Sizes
  <2>4. f = events["buf_used"] + Made
    BY <1>3, <2>1, <2>3
  <2>. HIDE DEF f
  <2>5. f \in Nat /\ Full = f + Batch /\ Full' = f
    BY <1>3, <2>1, <2>3, <2>4
  <2>6. f + Batch <= BUF_SIZE
    BY <1>3, <2>2, <2>3, <2>5
  <2>7. Batch \in 0 .. BUF_SIZE
    BY <2>3, <2>5, <2>6
  <2>. QED  BY <2>5, <2>6, <2>7
<1>5. /\ (buffer.head + Batch) % BUF_SIZE = Turn(buffer.head + Batch)
      /\ Turn(buffer.head + Batch) \in Cell
      /\ \A j \in Cell : j \in P <=> Ahead(j, buffer.head) < Batch
      /\ P \subseteq Cell
  BY <1>1, <1>4, CellsAre
<1>6. /\ Turn(Turn(h + Batch) + f) = Turn(h + (f + Batch))
      /\ \A j \in Cell : Ahead(j, Turn(h + Batch)) < f
           <=> Ahead(j, h) < f + Batch /\ ~ (Ahead(j, h) < Batch)
  BY <1>1, <1>4, Sizes, ArcShrinks
<1>. HIDE DEF f, P
<1>7. ~ \E i \in P : buffer.cell[i] = "EMPTY"
  <2>1. \A i \in Cell : Ahead(i, h) \in Int
    BY <1>1, Sizes DEF Ahead
  <2>2. \A i \in P : Ahead(i, h) < Full
    BY <1>4, <1>5, <2>1, Sizes
  <2>. QED  BY <1>1, <1>5, <2>2
<1>8. /\ buffer'.cell = [i \in Cell |-> IF i \in P THEN "EMPTY" ELSE buffer.cell[i]]
      /\ buffer'.head = Turn(buffer.head + Batch) /\ buffer'.tail = buffer.tail
      /\ buffer' \in [cell : [Cell -> {"EMPTY", "FULL"}], head : Cell, tail : Cell, wrong : {FALSE}]
  <2>. DEFINE c == [i \in Cell |-> IF i \in P THEN "EMPTY" ELSE buffer.cell[i]]
              w == buffer.wrong \/ \E i \in P : buffer.cell[i] = "EMPTY"
  <2>1. c \in [Cell -> {"EMPTY", "FULL"}]
    BY <1>1
  <2>2. w = FALSE
    BY <1>1, <1>7
  <2>3. buffer' = [buffer EXCEPT !.cell = c, !.head = (@ + Batch) % BUF_SIZE, !.wrong = w]
    BY DEF get_buffer, P
  <2>. HIDE DEF c, w
  <2>4. /\ buffer'.cell = c /\ buffer'.head = Turn(buffer.head + Batch)
        /\ buffer'.tail = buffer.tail
        /\ buffer' \in [cell : [Cell -> {"EMPTY", "FULL"}], head : Cell, tail : Cell, wrong : {FALSE}]
    BY <1>1, <1>5, <2>1, <2>2, <2>3
  <2>. QED  BY <2>4 DEF c
<1>9. ProdConsTyped'
  BY <1>2, <1>8 DEF ProdConsTyped
<1>10. \A i \in Cell : buffer'.cell[i] = "FULL" <=> Ahead(i, buffer'.head) < Full'
  BY <1>1, <1>4, <1>5, <1>6, <1>8
<1>11. Full' + events'["buf_free"] + Reserved' + Emptied' = BUF_SIZE
  <2>1. Full + events["buf_free"] + Reserved + 0 = BUF_SIZE
    BY <1>3 DEF CellsCounted
  <2>. QED  BY <1>3, <1>4, <2>1, Sizes
<1>12. buffer'.tail = Turn(buffer'.head + Full')
  BY <1>1, <1>4, <1>6, <1>8
<1>13. producer' # "asleep" /\ consumer'.in # "asleep"
  BY <1>2 DEF CellsCounted
<1>. QED  BY <1>9, <1>10, <1>11, <1>12, <1>13 DEF CellsCounted

\* A step that moves items and cells between the semaphores and the hands.
LEMMA CountKept ==
  ASSUME ProdConsTyped, CellsCounted, ProdConsTyped', UNCHANGED buffer, Full' = Full,
         events'["buf_free"] + Reserved' + Emptied' = events["buf_free"] + Reserved + Emptied,
         events'["buf_free"] \in Nat, Reserved' \in Nat, Emptied' \in Nat,
         producer' # "asleep", consumer'.in # "asleep"
  PROVE  CellsCounted'
<1>1. /\ events["buf_used"] \in Nat /\ events["buf_free"] \in Nat
      /\ Made \in Nat /\ Reserved \in Nat /\ Claimed \in Nat /\ Emptied \in Nat
  BY Sizes DEF ProdConsTyped, Claimed, Emptied, Made, Reserved, Batch
<1>2. Full \in Nat
  BY <1>1 DEF Full
<1>3. Full + events["buf_free"] + Reserved + Emptied = BUF_SIZE
  BY DEF CellsCounted
<1>4. Full' + events'["buf_free"] + Reserved' + Emptied' = BUF_SIZE
  BY <1>1, <1>2, <1>3
<1>. QED  BY <1>4 DEF CellsCounted

\* Every step of the three programs with semaphores.
LEMMA PrconsKeeps ==
  ASSUME ProdConsTyped, CellsCounted, PrconsNext, program' = program
  PROVE  ProdConsTyped' /\ CellsCounted'
<1>1. /\ events \in [{"buf_free", "buf_used", "kbd"} -> Nat]
      /\ events["buf_used"] \in Nat /\ events["buf_free"] \in Nat /\ events["kbd"] \in Nat
      /\ consumer \in [in : {"key", "kbd", "wait", "take", "signal", "asleep"}, left : Int]
      /\ Batch \in Nat /\ Batch' = Batch /\ nprod \in Nat /\ ncons \in Nat /\ typed \in Nat
      /\ producer # "asleep" /\ consumer.in # "asleep"
  BY Sizes, ProdConsAssumption DEF ProdConsTyped, Batch, CellsCounted
<1>2. /\ Made \in Nat /\ Reserved \in Nat /\ Claimed \in Nat /\ Emptied \in Nat
  BY <1>1 DEF Made, Reserved, Claimed, Emptied
<1>3. CASE producer = "wait" /\ WaitSemN("buf_free", nprod) /\ producer' = "put"
           /\ UNCHANGED <<buffer, consumer, typed>>
  <2>1. /\ events'["buf_free"] = events["buf_free"] - nprod /\ events["buf_free"] >= nprod
        /\ events'["buf_used"] = events["buf_used"]
        /\ events' \in [{"buf_free", "buf_used", "kbd"} -> Nat]
    BY <1>1, <1>3 DEF WaitSemN
  <2>2. ProdConsTyped'
    BY <1>3, <2>1 DEF ProdConsTyped
  <2>3. /\ Reserved = 0 /\ Reserved' = nprod /\ Made = 0 /\ Made' = 0
        /\ Claimed' = Claimed /\ Emptied' = Emptied
    BY <1>1, <1>3 DEF Made, Reserved, Claimed, Emptied
  <2>4. Full' = Full
    BY <2>1, <2>3 DEF Full
  <2>5. events'["buf_free"] + Reserved' + Emptied' = events["buf_free"] + Reserved + Emptied
    BY <1>1, <1>2, <2>1, <2>3
  <2>. QED  BY <1>1, <1>2, <1>3, <2>1, <2>2, <2>3, <2>4, <2>5, CountKept
<1>4. CASE producer = "put" /\ put_buffer(nprod) /\ producer' = "signal"
           /\ UNCHANGED <<events, consumer, typed>>
  BY <1>4, put_bufferKeeps
<1>5. CASE producer = "signal" /\ SignalSemN("buf_used", nprod) /\ producer' = "wait"
           /\ UNCHANGED <<buffer, consumer, typed>>
  <2>1. /\ events'["buf_used"] = events["buf_used"] + nprod
        /\ events'["buf_free"] = events["buf_free"]
        /\ events' \in [{"buf_free", "buf_used", "kbd"} -> Nat]
    BY <1>1, <1>5 DEF SignalSemN
  <2>2. ProdConsTyped'
    BY <1>5, <2>1 DEF ProdConsTyped
  <2>3. /\ Reserved = 0 /\ Reserved' = 0 /\ Made = nprod /\ Made' = 0
        /\ Claimed' = Claimed /\ Emptied' = Emptied
    BY <1>1, <1>5 DEF Made, Reserved, Claimed, Emptied
  <2>4. Full' = Full
    <3>1. (events["buf_used"] + nprod) + 0 + Claimed = events["buf_used"] + nprod + Claimed
      BY <1>1, <1>2
    <3>. QED  BY <2>1, <2>3, <3>1 DEF Full
  <2>. QED  BY <1>1, <1>2, <1>5, <2>1, <2>2, <2>3, <2>4, CountKept
<1>6. CASE consumer.in = "wait" /\ WaitSemN("buf_used", Batch)
           /\ consumer' = [consumer EXCEPT !.in = "take"] /\ UNCHANGED <<buffer, producer, typed>>
  <2>1. /\ events'["buf_used"] = events["buf_used"] - Batch /\ events["buf_used"] >= Batch
        /\ events'["buf_free"] = events["buf_free"]
        /\ events' \in [{"buf_free", "buf_used", "kbd"} -> Nat]
    BY <1>1, <1>6 DEF WaitSemN
  <2>2. /\ consumer'.in = "take"
        /\ consumer' \in [in : {"key", "kbd", "wait", "take", "signal", "asleep"}, left : Int]
    BY <1>1, <1>6
  <2>3. ProdConsTyped'
    BY <1>6, <2>1, <2>2 DEF ProdConsTyped
  <2>4. /\ Claimed = 0 /\ Claimed' = Batch /\ Emptied = 0 /\ Emptied' = 0
        /\ Made' = Made /\ Reserved' = Reserved
    BY <1>1, <1>6, <2>2 DEF Made, Reserved, Claimed, Emptied
  <2>5. Full' = Full
    <3>1. (events["buf_used"] - Batch) + Made + Batch = events["buf_used"] + Made + 0
      BY <1>1, <1>2
    <3>. QED  BY <2>1, <2>4, <3>1 DEF Full
  <2>. QED  BY <1>1, <1>2, <1>6, <2>1, <2>2, <2>3, <2>4, <2>5, CountKept
<1>7. CASE consumer.in = "take" /\ get_buffer(Batch)
           /\ consumer' = [consumer EXCEPT !.in = "signal"] /\ UNCHANGED <<events, producer, typed>>
  BY <1>7, get_bufferKeeps
<1>8. CASE /\ consumer.in = "signal" /\ SignalSemN("buf_free", Batch)
           /\ consumer' = [in |-> IF consumer.left > 1 /\ program = "prcons2" THEN "wait"
                                  ELSE IF program = "prcons" THEN "key" ELSE "kbd",
                           left |-> consumer.left - 1]
           /\ UNCHANGED <<buffer, producer, typed>>
  <2>1. /\ events'["buf_free"] = events["buf_free"] + Batch
        /\ events'["buf_used"] = events["buf_used"]
        /\ events' \in [{"buf_free", "buf_used", "kbd"} -> Nat]
    BY <1>1, <1>8 DEF SignalSemN
  <2>2. /\ consumer'.in \in {"wait", "key", "kbd"}
        /\ consumer' \in [in : {"key", "kbd", "wait", "take", "signal", "asleep"}, left : Int]
    BY <1>1, <1>8
  <2>3. ProdConsTyped'
    BY <1>8, <2>1, <2>2 DEF ProdConsTyped
  <2>4. /\ Claimed = 0 /\ Claimed' = 0 /\ Emptied = Batch /\ Emptied' = 0
        /\ Made' = Made /\ Reserved' = Reserved
    BY <1>1, <1>8, <2>2 DEF Made, Reserved, Claimed, Emptied
  <2>5. Full' = Full
    BY <2>1, <2>4 DEF Full
  <2>6. events'["buf_free"] + Reserved' + Emptied' = events["buf_free"] + Reserved + Emptied
    BY <1>1, <1>2, <2>1, <2>4
  <2>. QED  BY <1>1, <1>2, <1>8, <2>1, <2>2, <2>3, <2>4, <2>5, <2>6, CountKept
<1>9. CASE poll_key \/ mgetch_kbd \/ \E pressed \in {0, 1} : kbd_interrupt(pressed)
  <2>1. /\ events' \in [{"buf_free", "buf_used", "kbd"} -> Nat] /\ typed' \in Nat
        /\ events'["buf_free"] = events["buf_free"] /\ events'["buf_used"] = events["buf_used"]
        /\ UNCHANGED <<buffer, producer>>
    BY <1>1, <1>9 DEF poll_key, mgetch_kbd, kbd_interrupt, WaitEvent, SignalEvent
  <2>2. \/ consumer' = consumer
        \/ consumer.in \in {"key", "kbd"} /\ consumer' = [in |-> "wait", left |-> ncons]
    BY <1>9 DEF poll_key, mgetch_kbd, kbd_interrupt
  <2>3. /\ consumer' \in [in : {"key", "kbd", "wait", "take", "signal", "asleep"}, left : Int]
        /\ consumer'.in # "asleep" /\ Claimed' = Claimed /\ Emptied' = Emptied
    BY <1>1, <2>2 DEF Claimed, Emptied
  <2>4. ProdConsTyped'
    BY <2>1, <2>3 DEF ProdConsTyped
  <2>5. Full' = Full /\ Reserved' = Reserved
    BY <2>1, <2>3 DEF Full, Made, Reserved
  <2>. QED  BY <1>1, <1>2, <2>1, <2>3, <2>4, <2>5, CountKept
<1>. QED  BY <1>3, <1>4, <1>5, <1>6, <1>7, <1>8, <1>9
          DEF PrconsNext, ConsumerStep, ProducerStep, Batch

\* Every step of the program with a monitor.
LEMMA PmonKeeps ==
  ASSUME ProdConsTyped, SleepersIdle, PmonNext
  PROVE  ProdConsTyped' /\ SleepersIdle'
<1>1. 0 \in Cell
  BY Sizes
<1>2. /\ buffer \in [cell : [Cell -> {"EMPTY", "FULL"}], head : Cell, tail : Cell, wrong : {FALSE}]
      /\ consumer \in [in : {"key", "kbd", "wait", "take", "signal", "asleep"}, left : Int]
      /\ UNCHANGED <<events, typed>> /\ (pmon_main \/ pmon_consumer)
  BY DEF ProdConsTyped, PmonNext
<1>3. ASSUME NEW x \in {"EMPTY", "FULL"}, buffer' = [buffer EXCEPT !.cell[0] = x]
      PROVE  /\ buffer' \in [cell : [Cell -> {"EMPTY", "FULL"}], head : Cell, tail : Cell,
                             wrong : {FALSE}]
             /\ buffer'.cell[0] = x
  BY <1>1, <1>2, <1>3
<1>4. CASE pmon_main
  <2>1. CASE producer = "wait" /\ pmon_key = "FULL" /\ producer' = "asleep"
             /\ UNCHANGED <<buffer, consumer>>
    BY <1>2, <2>1 DEF ProdConsTyped, SleepersIdle, pmon_key
  <2>2. CASE /\ producer = "wait" /\ buffer' = [buffer EXCEPT !.cell[0] = "FULL"]
             /\ consumer' = IF consumer.in = "asleep" THEN [consumer EXCEPT !.in = "kbd"] ELSE consumer
             /\ producer' = producer
    <3>1. consumer'.in = "kbd"
          /\ consumer' \in [in : {"key", "kbd", "wait", "take", "signal", "asleep"}, left : Int]
      BY <1>2, <2>2 DEF SleepersIdle
    <3>. QED  BY <1>2, <1>3, <2>2, <3>1 DEF ProdConsTyped, SleepersIdle, pmon_key
  <2>. QED  BY <1>4, <2>1, <2>2 DEF pmon_main
<1>5. CASE pmon_consumer
  <2>1. CASE consumer.in = "kbd" /\ pmon_key = "EMPTY"
             /\ consumer' = [consumer EXCEPT !.in = "asleep"] /\ UNCHANGED <<buffer, producer>>
    <3>1. consumer'.in = "asleep"
          /\ consumer' \in [in : {"key", "kbd", "wait", "take", "signal", "asleep"}, left : Int]
      BY <1>2, <2>1
    <3>. QED  BY <1>2, <2>1, <3>1 DEF ProdConsTyped, SleepersIdle, pmon_key
  <2>2. CASE /\ consumer.in = "kbd" /\ buffer' = [buffer EXCEPT !.cell[0] = "EMPTY"]
             /\ producer' = IF producer = "asleep" THEN "wait" ELSE producer
             /\ consumer' = consumer
    BY <1>2, <1>3, <2>2 DEF ProdConsTyped, SleepersIdle, pmon_key
  <2>. QED  BY <1>5, <2>1, <2>2 DEF pmon_consumer
<1>. QED  BY <1>2, <1>4, <1>5

\* The inductive invariant of the producers and consumers.
LEMMA ProdConsInvHolds == ProdConsSpec => []ProdConsInv
<1>1. program \in Prcons \cup {"pmon"} /\ events = ProdConsSems /\ ProdConsInit => ProdConsInv
  <2>. SUFFICES ASSUME program \in Prcons \cup {"pmon"}, events = ProdConsSems, ProdConsInit
                PROVE  ProdConsInv
    OBVIOUS
  <2>1. /\ events \in [{"buf_free", "buf_used", "kbd"} -> Nat]
        /\ events["buf_free"] = BUF_SIZE /\ events["buf_used"] = 0
    BY Sizes DEF ProdConsSems
  <2>2. /\ producer = "wait" /\ consumer.in \in {"key", "kbd"} /\ typed = 0
        /\ consumer \in [in : {"key", "kbd", "wait", "take", "signal", "asleep"}, left : Int]
        /\ program = "pmon" => consumer.in = "kbd"
    BY DEF ProdConsInit
  <2>3. /\ buffer \in [cell : [Cell -> {"EMPTY", "FULL"}], head : Cell, tail : Cell, wrong : {FALSE}]
        /\ buffer.head = 0 /\ buffer.tail = 0 /\ \A i \in Cell : buffer.cell[i] = "EMPTY"
    BY Sizes DEF ProdConsInit
  <2>4. ProdConsTyped
    BY <2>1, <2>2, <2>3 DEF ProdConsTyped
  <2>5. CellsCounted
    <3>1. Full = 0 /\ Reserved = 0 /\ Emptied = 0
      BY <2>1, <2>2 DEF Full, Made, Claimed, Reserved, Emptied
    <3>2. \A i \in Cell : ~ (Ahead(i, 0) < 0)
      BY Sizes DEF Ahead
    <3>3. Turn(0) = 0
      BY Sizes DEF Turn
    <3>. QED  BY <2>1, <2>2, <2>3, <3>1, <3>2, <3>3, Sizes DEF CellsCounted
  <2>6. program = "pmon" => SleepersIdle
    BY <2>2 DEF SleepersIdle
  <2>. QED  BY <2>4, <2>5, <2>6 DEF ProdConsInv
<1>2. ASSUME ProdConsInv, [ProdConsNext /\ UNCHANGED program]_<<program, events, prodConsVars>>
      PROVE  ProdConsInv'
  <2>1. CASE UNCHANGED <<program, events, prodConsVars>>
    <3>1. UNCHANGED <<program, events, buffer, producer, consumer, typed>>
      BY <2>1 DEF prodConsVars
    <3>2. ProdConsTyped'
      BY <1>2, <3>1 DEF ProdConsInv, ProdConsTyped
    <3>3. CellsCounted => CellsCounted'
      BY <3>1 DEF CellsCounted, Full, Made, Claimed, Reserved, Emptied, Batch
    <3>4. SleepersIdle => SleepersIdle'
      BY <3>1 DEF SleepersIdle, pmon_key
    <3>. QED  BY <1>2, <3>1, <3>2, <3>3, <3>4 DEF ProdConsInv
  <2>2. CASE PrconsNext /\ program' = program
    <3>1. program \in Prcons /\ CellsCounted /\ ProdConsTyped
      BY <1>2, <2>2 DEF PrconsNext, ProdConsInv, Prcons
    <3>. QED  BY <2>2, <3>1, PrconsKeeps DEF ProdConsInv
  <2>3. CASE PmonNext /\ program' = program
    <3>1. program = "pmon" /\ SleepersIdle /\ ProdConsTyped
      BY <1>2, <2>3 DEF PmonNext, ProdConsInv, Prcons
    <3>. QED  BY <2>3, <3>1, PmonKeeps DEF ProdConsInv
  <2>. QED  BY <1>2, <2>1, <2>2, <2>3 DEF ProdConsNext
<1>. QED  BY <1>1, <1>2, PTL DEF ProdConsSpec

\* No cell is overwritten while it is full nor taken while it is empty, for every size
\* of the buffer and of what is produced and consumed at once (producer, consumer).
THEOREM CellsNeverLost == ProdConsSpec => []CellsUsedOnce
<1>1. ProdConsInv => CellsUsedOnce
  BY DEF ProdConsInv, ProdConsTyped, CellsUsedOnce
<1>. QED  BY <1>1, ProdConsInvHolds, PTL

\* The producer and the consumer that takes its items one by one are never both
\* blocked, and the two tasks of pmon never both asleep.
THEOREM ProdConsNeverStuck == ProdConsSpec => []NeverStuck
<1>1. ProdConsInv => NeverStuck
  <2>. SUFFICES ASSUME ProdConsInv PROVE NeverStuck
    OBVIOUS
  <2>1. CASE program \in Prcons /\ CellsCounted
    <3>1. ASSUME producer = "wait", consumer.in = "wait", events["buf_used"] = 0
          PROVE  events["buf_free"] = BUF_SIZE
      <4>1. Made = 0 /\ Reserved = 0 /\ Claimed = 0 /\ Emptied = 0
        BY <3>1 DEF Made, Reserved, Claimed, Emptied
      <4>2. Full = 0
        BY <3>1, <4>1 DEF Full
      <4>3. Full + events["buf_free"] + Reserved + Emptied = BUF_SIZE
        BY <2>1 DEF CellsCounted
      <4>4. events["buf_free"] \in Nat
        BY DEF ProdConsInv, ProdConsTyped
      <4>. QED  BY <4>1, <4>2, <4>3, <4>4
    <3>. QED  BY <2>1, <3>1, Sizes DEF NeverStuck, CellsCounted
  <2>2. CASE program = "pmon" /\ SleepersIdle
    BY <2>2 DEF NeverStuck, SleepersIdle
  <2>. QED  BY <2>1, <2>2 DEF ProdConsInv
<1>. QED  BY <1>1, ProdConsInvHolds, PTL

-----------------------------------------------------------------------------
(***************************************************************************)
(* The road programs.                                                      *)
(***************************************************************************)

Semaphore == {"kbd", "mail_empty", "mail_full"}

Doing == {"garage", "test", "pause", "take", "delay", "send", "clear"}

RoadMsg == [dir : Direction, kind : {"none", "in", "barrier", "out"}]

\* A car that holds the cell it is to leave behind and the next one.
Astride(c) == doing[c] \in {"send", "clear"}

Control == [msg : RoadMsg, state : Direction \cup {"IDLE"}, draining : BOOLEAN,
            cars : [Direction -> Int], in_road : Int, passed : 0 .. pass_max]

RoadTyped ==
  /\ program \in {"camino", "camino1"}
  /\ events \in [Semaphore -> Nat]
  /\ road \in [Direction -> [0 .. ROAD_END -> {"EMPTY", "CAR", "BARRIER"}]]
  /\ pos \in [Car -> 0 .. ROAD_END + 1] /\ doing \in [Car -> Doing]
  /\ control \in Control /\ mail \in RoadMsg
  /\ keys \in [typed : Seq(Direction), main : {"look", "wait"}]
  /\ overtaken \in [Car -> Nat]

\* Where the cars of the program report.
Sensors == IF program = "camino" THEN {SENSOR1_POS, SENSOR2_POS}
           ELSE {SENSOR1_POS, BARRIER_POS, SENSOR2_POS}

\* A car in the garage is at the start of the road, one on the road has not passed the
\* end, and one that reports has something to report.
CarsPlaced ==
  \A c \in Car : /\ doing[c] = "garage" => pos[c] = 0
                 /\ Astride(c) => pos[c] <= ROAD_END
                 /\ doing[c] = "send" => pos[c] \in Sensors

\* The main task counts the keys it has not read.
KeysCounted == Len(keys.typed) <= events["kbd"] + IF keys.main = "look" THEN 1 ELSE 0

\* The mailbox holds a message, or room for one.
Mailbox ==
  /\ events["mail_empty"] + events["mail_full"] = 1
  /\ program = "camino1" => events["mail_full"] = 0
  /\ events["mail_full"] = 1 => mail.kind \in {"in", "out"}
  /\ control.msg = Nothing \/ control.msg.kind # "none"
  /\ program = "camino" => control.msg.kind # "barrier" /\ ~control.draining

\* The cells of the road that are taken by c.
Under(c) == {p \in 0 .. ROAD_END : p = pos[c] - 1 \/ (p = pos[c] /\ Astride(c))}

\* A car is drawn where it is, and no two are on the same cell.
Drawn == \A c \in Car : \A p \in Under(c) : road[dir[c]][p] = "CAR"
Apart == \A c, d \in Car : c # d /\ dir[c] = dir[d] => Under(c) \cap Under(d) = {}

\* c has told the control that it is at p.
Told(c, p) == pos[c] > p \/ (pos[c] = p /\ doing[c] = "clear")

\* The cars of the directions D that have told they are at p and not yet that they are at q.
Between(p, q, D) == {c \in Car : dir[c] \in D /\ Told(c, p) /\ ~Told(c, q)}

\* The messages of one kind from the directions D that the control has not handled.
Unhandled(kind, D) ==
  (IF control.msg.kind = kind /\ control.msg.dir \in D THEN 1 ELSE 0) +
  (IF events["mail_full"] = 1 /\ mail.kind = kind /\ mail.dir \in D THEN 1 ELSE 0)

\* What the control counts, up to the messages it has not handled.
CountedTo(p, q, D, first, last, n) ==
  n = Cardinality(Between(p, q, D)) - Unhandled(first, D) + Unhandled(last, D)

Counts ==
  /\ program = "camino" =>
       \A d \in Direction :
         CountedTo(SENSOR1_POS, SENSOR2_POS, {d}, "in", "out", control.cars[d])
  /\ program = "camino1" =>
       /\ \A d \in Direction :
            CountedTo(SENSOR1_POS, BARRIER_POS, {d}, "in", "barrier", control.cars[d])
       /\ CountedTo(BARRIER_POS, SENSOR2_POS, Direction, "barrier", "out", control.in_road)

\* The cars that have told they come near and have not moved on since.
Fresh(d) == {c \in Car : /\ dir[c] = d
                         /\ \/ pos[c] = SENSOR1_POS /\ doing[c] = "clear"
                            \/ pos[c] = SENSOR1_POS + 1 /\ doing[c] = "delay"}

Prompt == \A d \in Direction : Unhandled("in", {d}) <= Cardinality(Fresh(d))

\* A car past the barrier of its side that has not told that it is out.
Inside(c) == (pos[c] > BARRIER_POS \/ (pos[c] = BARRIER_POS /\ Astride(c))) /\ ~Told(c, SENSOR2_POS)

InsideByState == \A c \in Car : Inside(c) => control.state = dir[c]

\* A barrier is up only on the side that has its turn.
BarrierByState ==
  /\ \A d \in Direction :
       road[d][BARRIER_POS] # "BARRIER" => control.state = d /\ ~control.draining
  /\ control.draining => control.state # "IDLE"

\* A car that has moved on since it passed the barrier, and is not past the second sensor.
Deep(c) == /\ pos[c] > BARRIER_POS + 1 \/ (pos[c] = BARRIER_POS + 1 /\ doing[c] # "delay")
           /\ pos[c] <= SENSOR2_POS

\* A car that has told it is out and not yet left the stretch: time stands still for it.
LastOut == \A c, d \in Car :
  pos[c] = SENSOR2_POS /\ doing[c] = "clear" /\ Deep(d) => dir[c] = dir[d]

Passed == IF control.msg.kind = "barrier" /\ control.passed < pass_max
          THEN control.passed + 1 ELSE control.passed

\* A car of direction d is at its barrier and the control does not know.
Unnoticed(d) == \E c \in Car : dir[c] = d /\ pos[c] = BARRIER_POS /\ doing[c] = "send"

\* The side that has the turn gives it up when pass_max cars have passed and the other waits.
TurnBounded ==
  control.state # "IDLE" /\ ~control.draining /\ control.cars[Other(control.state)] > 0
    => control.passed < pass_max

\* How often the first car at a barrier has been overtaken: no more than cars have passed
\* in this turn, and not at all since its own turn began.
Overtaken(c) ==
  /\ overtaken[c] <= pass_max + 1
  /\ control.state = Other(dir[c]) /\ ~control.draining =>
       overtaken[c] <= Passed + IF Unnoticed(control.state) THEN 1 ELSE 0
  /\ control.state # Other(dir[c]) /\ overtaken[c] > 0 =>
       /\ control.state = dir[c] /\ ~control.draining
       /\ Passed = 0 /\ ~Unnoticed(dir[c])

Turns ==
  /\ TurnBounded
  /\ \A c \in Car : /\ Astride(c) => overtaken[c] = 0
                    /\ AtBarrier(c) => Overtaken(c)

RoadInv ==
  /\ RoadTyped /\ CarsPlaced /\ KeysCounted /\ Mailbox /\ Drawn /\ Apart /\ Counts
  /\ (program = "camino" => Prompt) /\ InsideByState /\ BarrierByState /\ LastOut

TurnsKept == program = "camino1" => Turns

-----------------------------------------------------------------------------

\* The places of the road in their order.
LEMMA Places ==
  /\ SENSOR1_POS \in Nat /\ BARRIER_POS \in Nat /\ ONEWAY_START \in Nat
  /\ ONEWAY_END \in Nat /\ SENSOR2_POS \in Nat /\ ROAD_END \in Nat /\ pass_max \in Nat
  /\ 0 < SENSOR1_POS /\ SENSOR1_POS < BARRIER_POS /\ BARRIER_POS < ONEWAY_START
  /\ ONEWAY_START <= ONEWAY_END /\ ONEWAY_END < SENSOR2_POS /\ SENSOR2_POS < ROAD_END
  /\ \A c \in Car : dir[c] \in Direction
  /\ Nothing \in RoadMsg /\ Nothing.kind = "none"
  /\ "LEFTBOUND" \in Direction /\ "RIGHTBOUND" \in Direction
BY RoadAssumption DEF Nothing, RoadMsg, Direction

\* A report names the place of the car.
LEMMA Reports ==
  ASSUME RoadTyped, NEW c \in Car
  PROVE  /\ ReportOf(c) \in {"none", "in", "barrier", "out"}
         /\ ReportOf(c) = "in" <=> pos[c] = SENSOR1_POS
         /\ ReportOf(c) = "barrier" <=> pos[c] = BARRIER_POS /\ program = "camino1"
         /\ ReportOf(c) = "out" <=> pos[c] = SENSOR2_POS
         /\ Report(c, ReportOf(c)) \in RoadMsg
         /\ Report(c, ReportOf(c)).kind = ReportOf(c)
         /\ Report(c, ReportOf(c)).dir = dir[c]
<1>1. pos[c] \in Nat
  BY Places DEF RoadTyped
<1>2. /\ ReportOf(c) \in {"none", "in", "barrier", "out"}
      /\ ReportOf(c) = "in" <=> pos[c] = SENSOR1_POS
      /\ ReportOf(c) = "barrier" <=> pos[c] = BARRIER_POS /\ program = "camino1"
      /\ ReportOf(c) = "out" <=> pos[c] = SENSOR2_POS
  <2>1. program \in {"camino", "camino1"}
    BY DEF RoadTyped
  <2>2. CASE pos[c] = SENSOR1_POS
    BY <1>1, <2>1, <2>2, Places DEF ReportOf, camino_report, camino1_report
  <2>3. CASE pos[c] = BARRIER_POS
    <3>1. camino_report(c) = "none"
      BY <1>1, <2>3, Places DEF camino_report
    <3>2. camino1_report(c) = "barrier"
      BY <1>1, <2>3, Places DEF camino1_report
    <3>. QED  BY <1>1, <2>1, <2>3, <3>1, <3>2, Places DEF ReportOf
  <2>4. CASE pos[c] = SENSOR2_POS
    BY <1>1, <2>1, <2>4, Places DEF ReportOf, camino_report, camino1_report
  <2>5. CASE pos[c] \notin {SENSOR1_POS, BARRIER_POS, SENSOR2_POS}
    BY <1>1, <2>1, <2>5, Places DEF ReportOf, camino_report, camino1_report
  <2>. QED  BY <2>2, <2>3, <2>4, <2>5
<1>3. dir[c] \in Direction
  BY Places
<1>. QED  BY <1>2, <1>3 DEF Report, RoadMsg

\* The counts after a message of camino1.
LEMMA CountRec ==
  ASSUME control \in Control
  PROVE  LET k == camino1_count(control)
             m == control.msg
         IN  /\ k \in Control
             /\ k.msg = m /\ k.state = control.state /\ k.draining = control.draining
             /\ \A d \in Direction :
                  k.cars[d] = control.cars[d] + (IF m.kind = "in" /\ m.dir = d THEN 1 ELSE 0)
                                - (IF m.kind = "barrier" /\ m.dir = d THEN 1 ELSE 0)
             /\ k.in_road = control.in_road + (IF m.kind = "barrier" THEN 1 ELSE 0)
                              - (IF m.kind = "out" THEN 1 ELSE 0)
             /\ k.passed = Passed
<1>. DEFINE m == control.msg
            k == camino1_count(control)
<1>1. m.dir \in Direction /\ m.kind \in {"none", "in", "barrier", "out"} /\ pass_max \in Nat
      /\ control.cars \in [Direction -> Int] /\ control.in_road \in Int
      /\ control.passed \in 0 .. pass_max
  BY Places DEF Control, RoadMsg
<1>2. CASE m.kind = "in"
  <2>1. k = [control EXCEPT !.cars[m.dir] = @ + 1]
    BY <1>2 DEF camino1_count
  <2>2. k \in Control /\ k.msg = m /\ k.state = control.state /\ k.draining = control.draining
        /\ k.in_road = control.in_road /\ k.passed = control.passed
        /\ k.cars = [control.cars EXCEPT ![m.dir] = @ + 1]
    BY <1>1, <2>1 DEF Control
  <2>. QED  BY <1>1, <1>2, <2>2 DEF Passed
<1>3. CASE m.kind = "barrier"
  <2>1. k = [control EXCEPT !.cars[m.dir] = @ - 1, !.in_road = @ + 1,
                            !.passed = IF @ < pass_max THEN @ + 1 ELSE @]
    BY <1>3 DEF camino1_count
  <2>2. k.msg = m /\ k.state = control.state /\ k.draining = control.draining
        /\ k.in_road = control.in_road + 1
        /\ k.passed = (IF control.passed < pass_max THEN control.passed + 1 ELSE control.passed)
        /\ k.cars = [control.cars EXCEPT ![m.dir] = @ - 1]
    BY <1>1, <2>1 DEF Control
  <2>3. k.cars \in [Direction -> Int] /\ k.in_road \in Int /\ k.passed \in 0 .. pass_max
    BY <1>1, <2>2
  <2>4. k \in Control
    <3>1. k = [control EXCEPT !.cars = k.cars, !.in_road = k.in_road, !.passed = k.passed]
      BY <2>1 DEF Control
    <3>. HIDE DEF k
    <3>. QED  BY <2>3, <3>1 DEF Control
  <2>. QED  BY <1>1, <1>3, <2>2, <2>4 DEF Passed
<1>4. CASE m.kind = "out"
  <2>1. k = [control EXCEPT !.in_road = @ - 1]
    BY <1>4 DEF camino1_count
  <2>. QED  BY <1>1, <1>4, <2>1 DEF Control, Passed
<1>5. CASE m.kind = "none"
  <2>1. k = control
    BY <1>5 DEF camino1_count
  <2>. QED  BY <1>1, <1>5, <2>1 DEF Control, Passed
<1>. QED  BY <1>1, <1>2, <1>3, <1>4, <1>5

\* The other side.
LEMMA OtherSide ==
  /\ \A d \in Direction : Other(d) \in Direction /\ Other(d) # d /\ Other(Other(d)) = d
  /\ \A d, e \in Direction : d # e => e = Other(d)
  /\ "IDLE" \notin Direction
BY DEF Direction, Other

\* The side that has the turn next.
LEMMA NextTurn ==
  ASSUME NEW k \in Control
  PROVE  LET n == camino1_state(k)
             closes == camino1_closes(k)
         IN  /\ n.state \in Direction \cup {"IDLE"} /\ n.draining \in BOOLEAN
             /\ closes => k.state # "IDLE" /\ ~k.draining
             /\ (k.draining => k.state # "IDLE") =>
                  /\ n.draining => n.state = k.state /\ n.state # "IDLE" /\ (closes \/ k.draining)
                  /\ n.state # k.state /\ k.state # "IDLE" =>
                       /\ closes \/ k.draining
                       /\ ~(k.in_road > 0)
                       /\ IF k.draining \/ k.cars[Other(k.state)] > 0 THEN n.state = Other(k.state)
                          ELSE n.state = "IDLE"
                  /\ n.state = k.state /\ ~n.draining => ~closes /\ ~k.draining
<1>. DEFINE n == camino1_state(k)
            closes == camino1_closes(k)
            drains == closes \/ k.draining
<1>1. k.state \in Direction \cup {"IDLE"} /\ k.draining \in BOOLEAN
  BY DEF Control
<1>2. closes => k.state # "IDLE" /\ ~k.draining
  BY DEF camino1_closes
<1>. HIDE DEF closes
<1>3. CASE k.state = "IDLE" /\ ~k.draining
  <2>1. n = IF k.cars["LEFTBOUND"] > 0 THEN [state |-> "LEFTBOUND", draining |-> FALSE]
            ELSE IF k.cars["RIGHTBOUND"] > 0 THEN [state |-> "RIGHTBOUND", draining |-> FALSE]
            ELSE [state |-> "IDLE", draining |-> FALSE]
    BY <1>2, <1>3 DEF camino1_state, closes
  <2>. HIDE DEF n
  <2>2. n.state \in Direction \cup {"IDLE"} /\ n.draining = FALSE
    BY <2>1 DEF Direction
  <2>. QED  BY <1>2, <1>3, <2>2 DEF n, closes
<1>4. CASE k.state # "IDLE" /\ drains
  <2>1. n = IF k.in_road > 0 THEN [state |-> k.state, draining |-> TRUE]
            ELSE IF k.draining \/ k.cars[Other(k.state)] > 0
            THEN [state |-> Other(k.state), draining |-> FALSE]
            ELSE [state |-> "IDLE", draining |-> FALSE]
    BY <1>4 DEF camino1_state, closes
  <2>2. k.state \in Direction /\ Other(k.state) \in Direction /\ Other(k.state) # k.state
    BY <1>1, <1>4, OtherSide
  <2>. HIDE DEF n
  <2>. QED  BY <1>2, <1>4, <2>1, <2>2 DEF n, closes
<1>5. CASE k.state # "IDLE" /\ ~drains
  <2>1. n = [state |-> k.state, draining |-> k.draining]
    BY <1>5 DEF camino1_state, closes
  <2>. HIDE DEF n
  <2>. QED  BY <1>1, <1>2, <1>5, <2>1 DEF n, closes
<1>6. CASE k.state = "IDLE" /\ k.draining
  <2>1. n.state \in Direction \cup {"IDLE"} /\ n.draining \in BOOLEAN
    BY <1>1, <1>6, Zenon DEF camino1_state, Direction, Other
  <2>. QED  BY <1>2, <1>6, <2>1 DEF closes
<1>. QED  BY <1>1, <1>3, <1>4, <1>5, <1>6

\* The turn changes in camino when the side that has it has no cars.
LEMMA CaminoTurn ==
  ASSUME NEW state \in Direction \cup {"IDLE"}, NEW cars \in [Direction -> Int]
  PROVE  /\ camino_state(state, cars) \in Direction \cup {"IDLE"}
         /\ camino_state(state, cars) # state /\ state # "IDLE" => cars[state] = 0
BY DEF camino_state, NextSide, Direction

\* The new control task of camino.
LEMMA CaminoControl ==
  ASSUME RoadTyped, camino_control
  PROVE  /\ control' \in Control /\ control'.msg = Nothing
         /\ control'.draining = control.draining
         /\ \A d \in Direction :
              control'.cars[d] = IF d # control.msg.dir THEN control.cars[d]
                                 ELSE IF control.msg.kind = "in" THEN control.cars[d] + 1
                                 ELSE control.cars[d] - 1
         /\ control'.state # control.state /\ control.state # "IDLE"
              => control'.cars[control.state] = 0
         /\ IF control'.state = control.state THEN road' = road
            ELSE MoveBarriers({control.state} \ {"IDLE"}, {control'.state} \ {"IDLE"})
<1>. DEFINE m == control.msg
            cars == [control.cars EXCEPT ![m.dir] = IF m.kind = "in" THEN @ + 1 ELSE @ - 1]
            state == camino_state(control.state, cars)
<1>1. control \in Control /\ m.dir \in Direction /\ control.cars \in [Direction -> Int]
      /\ control.state \in Direction \cup {"IDLE"}
  BY DEF RoadTyped, Control, RoadMsg
<1>2. cars \in [Direction -> Int]
      /\ \A d \in Direction : cars[d] = IF d # m.dir THEN control.cars[d]
                                        ELSE IF m.kind = "in" THEN control.cars[d] + 1
                                        ELSE control.cars[d] - 1
  BY <1>1
<1>3. control' = [control EXCEPT !.msg = Nothing, !.cars = cars, !.state = state]
      /\ IF state = control.state THEN road' = road
         ELSE MoveBarriers({control.state} \ {"IDLE"}, {state} \ {"IDLE"})
  BY DEF camino_control
<1>. HIDE DEF cars
<1>4. state \in Direction \cup {"IDLE"}
      /\ (state # control.state /\ control.state # "IDLE" => cars[control.state] = 0)
  BY <1>1, <1>2, CaminoTurn
<1>. HIDE DEF state
<1>5. control' \in Control /\ control'.msg = Nothing /\ control'.cars = cars
      /\ control'.state = state /\ control'.draining = control.draining
  BY <1>1, <1>2, <1>3, <1>4, Places DEF Control
<1>. QED  BY <1>2, <1>3, <1>4, <1>5

\* The barriers move at BARRIER_POS only.
LEMMA Barriers ==
  ASSUME RoadTyped, NEW closed, NEW opened, MoveBarriers(closed, opened)
  PROVE  /\ road' \in [Direction -> [0 .. ROAD_END -> {"EMPTY", "CAR", "BARRIER"}]]
         /\ \A d \in Direction, p \in 0 .. ROAD_END :
              road'[d][p] = IF p # BARRIER_POS THEN road[d][p]
                            ELSE IF d \in opened THEN "EMPTY"
                            ELSE IF d \in closed THEN "BARRIER" ELSE road[d][p]
<1>1. BARRIER_POS \in 0 .. ROAD_END
  BY Places
<1>2. road \in [Direction -> [0 .. ROAD_END -> {"EMPTY", "CAR", "BARRIER"}]]
  BY DEF RoadTyped
<1>. QED  BY <1>1, <1>2 DEF MoveBarriers

\* The new control task of camino1.
LEMMA Camino1Control ==
  ASSUME RoadTyped, camino1_control
  PROVE  LET k == camino1_count(control)
             n == camino1_state(k)
         IN  /\ control' \in Control /\ control'.msg = Nothing
             /\ control'.state = n.state /\ control'.draining = n.draining
             /\ control'.cars = k.cars /\ control'.in_road = k.in_road
             /\ control'.passed = IF n.state \notin {k.state, "IDLE"} THEN 0 ELSE k.passed
<1>. DEFINE k == camino1_count(control)
            n == camino1_state(k)
            opens == n.state \notin {k.state, "IDLE"}
<1>1. k \in Control
  BY CountRec DEF RoadTyped
<1>2. n.state \in Direction \cup {"IDLE"} /\ n.draining \in BOOLEAN
  BY <1>1, NextTurn
<1>3. control' = [k EXCEPT !.msg = Nothing, !.state = n.state, !.draining = n.draining,
                           !.passed = IF opens THEN 0 ELSE @]
  BY DEF camino1_control
<1>4. k.passed \in 0 .. pass_max /\ 0 \in 0 .. pass_max
  BY <1>1, Places DEF Control
<1>. HIDE DEF k, n, opens
<1>5. /\ control' \in Control /\ control'.msg = Nothing
      /\ control'.state = n.state /\ control'.draining = n.draining
      /\ control'.cars = k.cars /\ control'.in_road = k.in_road
      /\ control'.passed = IF opens THEN 0 ELSE k.passed
  BY <1>1, <1>2, <1>3, <1>4, Places DEF Control
<1>. QED  BY <1>5 DEF k, n, opens

\* Every step keeps the types and the cars where they may be.
LEMMA RoadTypedStep ==
  ASSUME RoadTyped, CarsPlaced, RoadNext, program' = program
  PROVE  RoadTyped' /\ CarsPlaced'
<1>. USE Places
<1>1. /\ program \in {"camino", "camino1"} /\ events \in [Semaphore -> Nat]
      /\ road \in [Direction -> [0 .. ROAD_END -> {"EMPTY", "CAR", "BARRIER"}]]
      /\ pos \in [Car -> 0 .. ROAD_END + 1] /\ doing \in [Car -> Doing]
      /\ control \in Control /\ mail \in RoadMsg
      /\ keys \in [typed : Seq(Direction), main : {"look", "wait"}]
      /\ overtaken \in [Car -> Nat]
  BY DEF RoadTyped
<1>2. \A d \in Direction, p \in 0 .. ROAD_END, what \in {"EMPTY", "CAR", "BARRIER"} :
        [road EXCEPT ![d][p] = what] \in [Direction -> [0 .. ROAD_END -> {"EMPTY", "CAR", "BARRIER"}]]
  BY <1>1
<1>3. \A c \in Car : pos[c] \in 0 .. ROAD_END + 1 /\ dir[c] \in Direction
  BY <1>1
<1>4. ASSUME NEW c \in Car, CarPauses(c) PROVE RoadTyped' /\ CarsPlaced'
  BY <1>1, <1>4 DEF CarPauses, RoadTyped, CarsPlaced, Sensors, Astride, Doing
<1>5. ASSUME NEW c \in Car, CarAdvances(c) PROVE RoadTyped' /\ CarsPlaced'
  <2>1. pos[c] \in 0 .. ROAD_END
    BY <1>3, <1>5 DEF CarAdvances, MayAdvance, CellFree
  <2>2. road' \in [Direction -> [0 .. ROAD_END -> {"EMPTY", "CAR", "BARRIER"}]]
    BY <1>2, <1>3, <1>5, <2>1 DEF CarAdvances, set_road
  <2>3. overtaken' \in [Car -> Nat]
    BY <1>1, <1>5 DEF CarAdvances
  <2>4. RoadTyped'
    BY <1>1, <1>5, <2>2, <2>3 DEF CarAdvances, RoadTyped, Doing
  <2>5. ReportOf(c) # "none" => pos[c] \in Sensors
    BY Reports, <1>1 DEF Sensors
  <2>6. doing' = [doing EXCEPT ![c] = IF ReportOf(c) = "none" THEN "clear" ELSE "send"]
        /\ pos' = pos
    BY <1>5 DEF CarAdvances
  <2>7. Sensors' = Sensors
    BY DEF Sensors
  <2>8. CarsPlaced'
    BY <1>1, <2>1, <2>5, <2>6, <2>7 DEF CarsPlaced, Astride
  <2>. QED  BY <2>4, <2>8
<1>6. ASSUME NEW c \in Car, put_msg(c) PROVE RoadTyped' /\ CarsPlaced'
  <2>1. mail' \in RoadMsg
    BY <1>6, Reports DEF put_msg
  <2>2. events["mail_empty"] - 1 \in Nat
    BY <1>1, <1>6 DEF put_msg, Semaphore
  <2>3. events' \in [Semaphore -> Nat]
    BY <1>1, <1>6, <2>2 DEF put_msg, Semaphore
  <2>4. RoadTyped'
    BY <1>1, <1>6, <2>1, <2>3 DEF put_msg, RoadTyped, Doing
  <2>5. CarsPlaced'
    BY <1>1, <1>6 DEF put_msg, CarsPlaced, Astride, Sensors
  <2>. QED  BY <2>4, <2>5
<1>7. ASSUME NEW c \in Car, CarClears(c) PROVE RoadTyped' /\ CarsPlaced'
  <2>1. pos[c] <= ROAD_END
    BY <1>7 DEF CarClears, CarsPlaced, Astride
  <2>2. road' \in [Direction -> [0 .. ROAD_END -> {"EMPTY", "CAR", "BARRIER"}]]
    <3>1. CASE pos[c] = 0
      BY <1>1, <1>7, <3>1 DEF CarClears
    <3>2. CASE pos[c] # 0
      <4>1. pos[c] - 1 \in 0 .. ROAD_END
        BY <1>3, <2>1, <3>2
      <4>2. road' = [road EXCEPT ![dir[c]][pos[c] - 1] = "EMPTY"]
        BY <1>7, <3>2 DEF CarClears, set_road
      <4>. QED  BY <1>2, <1>3, <4>1, <4>2
    <3>. QED  BY <3>1, <3>2
  <2>3. pos' \in [Car -> 0 .. ROAD_END + 1]
    BY <1>1, <1>7, <2>1 DEF CarClears
  <2>4. RoadTyped'
    BY <1>1, <1>7, <2>2, <2>3 DEF CarClears, RoadTyped, Doing
  <2>5. CarsPlaced'
    BY <1>1, <1>7 DEF CarClears, CarsPlaced, Astride, Sensors
  <2>. QED  BY <2>4, <2>5
<1>8. ASSUME NEW c \in Car, CarLeaves(c) PROVE RoadTyped' /\ CarsPlaced'
  <2>1. road' \in [Direction -> [0 .. ROAD_END -> {"EMPTY", "CAR", "BARRIER"}]]
    <3>1. road' = [road EXCEPT ![dir[c]][ROAD_END] = "EMPTY"] /\ ROAD_END \in 0 .. ROAD_END
      BY <1>8 DEF CarLeaves, set_road
    <3>. QED  BY <1>2, <1>3, <3>1
  <2>2. RoadTyped'
    BY <1>1, <1>8, <2>1 DEF CarLeaves, RoadTyped, Doing
  <2>3. CarsPlaced'
    BY <1>1, <1>8 DEF CarLeaves, CarsPlaced, Astride, Sensors
  <2>. QED  BY <2>2, <2>3
<1>9. ASSUME UNCHANGED <<pos, doing>> PROVE CarsPlaced'
  BY <1>1, <1>9 DEF CarsPlaced, Astride, Sensors
<1>10. CASE get_msg
  <2>1. events["mail_full"] - 1 \in Nat /\ events["mail_empty"] + 1 \in Nat
    BY <1>1, <1>10 DEF get_msg, Semaphore
  <2>2. events' \in [Semaphore -> Nat]
    BY <1>1, <1>10, <2>1 DEF get_msg, Semaphore
  <2>3. control' \in Control
    BY <1>1, <1>10 DEF get_msg, Control
  <2>4. RoadTyped'
    BY <1>1, <1>10, <2>2, <2>3 DEF get_msg, RoadTyped
  <2>5. UNCHANGED <<pos, doing>>
    BY <1>10 DEF get_msg
  <2>. QED  BY <2>4, <2>5, <1>9
<1>11. CASE camino_control
  <2>1. control' \in Control
    BY <1>11, CaminoControl
  <2>2. road' \in [Direction -> [0 .. ROAD_END -> {"EMPTY", "CAR", "BARRIER"}]]
    BY <1>1, <1>11, CaminoControl, Barriers
  <2>3. RoadTyped' /\ UNCHANGED <<pos, doing>>
    BY <1>1, <1>11, <2>1, <2>2 DEF camino_control, RoadTyped
  <2>. QED  BY <2>3, <1>9
<1>12. CASE camino1_control
  <2>1. control' \in Control
    BY <1>12, Camino1Control
  <2>2. road' \in [Direction -> [0 .. ROAD_END -> {"EMPTY", "CAR", "BARRIER"}]]
    BY <1>12, Barriers DEF camino1_control
  <2>3. RoadTyped' /\ UNCHANGED <<pos, doing>>
    BY <1>1, <1>12, <2>1, <2>2 DEF camino1_control, RoadTyped
  <2>. QED  BY <2>3, <1>9
<1>13. ASSUME NEW c \in Car, Receive(c) PROVE RoadTyped' /\ CarsPlaced'
  <2>1. control' \in Control
    BY <1>1, <1>13, Reports DEF Receive, Control
  <2>2. RoadTyped'
    BY <1>1, <1>13, <2>1 DEF Receive, RoadTyped, Doing
  <2>3. CarsPlaced'
    BY <1>1, <1>13 DEF Receive, CarsPlaced, Astride, Sensors
  <2>. QED  BY <2>2, <2>3
<1>14. CASE mgetch
  <2>1. events' \in [Semaphore -> Nat]
    <3>1. CASE events' = events
      BY <1>1, <3>1
    <3>2. CASE WaitEvent("kbd")
      <4>1. events["kbd"] - 1 \in Nat
        BY <1>1, <3>2 DEF WaitEvent, Semaphore
      <4>. QED  BY <1>1, <3>2, <4>1 DEF WaitEvent, Semaphore
    <3>. QED  BY <1>14, <3>1, <3>2 DEF mgetch
  <2>2. keys' \in [typed : Seq(Direction), main : {"look", "wait"}]
    BY <1>1, <1>14 DEF mgetch
  <2>3. RoadTyped' /\ UNCHANGED <<pos, doing>>
    BY <1>1, <1>14, <2>1, <2>2 DEF mgetch, RoadTyped
  <2>. QED  BY <2>3, <1>9
<1>15. ASSUME NEW t \in Seq(Direction), new_kbd(t) PROVE RoadTyped' /\ CarsPlaced'
  <2>1. events' \in [Semaphore -> Nat]
    BY <1>1, <1>15 DEF new_kbd, SignalEvent, Semaphore
  <2>2. keys' \in [typed : Seq(Direction), main : {"look", "wait"}]
    <3>1. keys' = [keys EXCEPT !.typed = keys.typed \o t]
      BY <1>15 DEF new_kbd
    <3>2. keys.typed \o t \in Seq(Direction)
      BY <1>1
    <3>. QED  BY <1>1, <3>1, <3>2
  <2>3. RoadTyped' /\ UNCHANGED <<pos, doing>>
    BY <1>1, <1>15, <2>1, <2>2 DEF new_kbd, RoadTyped
  <2>. QED  BY <2>3, <1>9
<1>16. ASSUME NEW c \in Car, send_car(c) PROVE RoadTyped' /\ CarsPlaced'
  <2>1. keys' \in [typed : Seq(Direction), main : {"look", "wait"}]
    BY <1>1, <1>16 DEF send_car
  <2>2. RoadTyped'
    BY <1>1, <1>16, <2>1 DEF send_car, RoadTyped, Doing
  <2>3. CarsPlaced'
    BY <1>1, <1>16 DEF send_car, CarsPlaced, Astride, Sensors
  <2>. QED  BY <2>2, <2>3
<1>17. CASE Tick
  <2>1. \A c \in Car : \/ doing'[c] = doing[c]
                       \/ doing[c] \in {"pause", "delay"} /\ doing'[c] \in {"take", "test"}
    BY <1>17 DEF Tick
  <2>2. doing' \in [Car -> Doing]
    <3>1. doing' = [c \in Car |-> doing'[c]]
      BY <1>17 DEF Tick
    <3>. QED  BY <1>1, <2>1, <3>1 DEF Doing
  <2>3. RoadTyped'
    BY <1>1, <1>17, <2>2 DEF Tick, RoadTyped
  <2>4. CarsPlaced'
    BY <1>1, <1>17, <2>1 DEF Tick, CarsPlaced, Astride, Sensors
  <2>. QED  BY <2>3, <2>4
<1>18. <<>> \in Seq(Direction) /\ \A d \in Direction : <<d>> \in Seq(Direction)
  OBVIOUS
<1>. QED
  BY <1>4, <1>5, <1>6, <1>7, <1>8, <1>10, <1>11, <1>12, <1>13, <1>14, <1>15, <1>16, <1>17, <1>18
  DEF RoadNext, CarStep, ControlStep, MainStep

\* What the steps of the cars and of the control leave alone, and those of main.
LEMMA RoadFrames ==
  ASSUME RoadTyped, RoadNext, program' = program
  PROVE  \/ MainStep /\ UNCHANGED <<road, pos, control, mail, overtaken>>
            /\ events'["mail_empty"] = events["mail_empty"]
            /\ events'["mail_full"] = events["mail_full"]
         \/ keys' = keys /\ events'["kbd"] = events["kbd"]
            /\ ((\E c \in Car : CarStep(c)) \/ ControlStep \/ Tick)
<1>1. events \in [Semaphore -> Nat]
  BY DEF RoadTyped
<1>2. CASE MainStep
  <2>1. ASSUME mgetch \/ (\E t : new_kbd(t)) \/ \E c \in Car : send_car(c)
        PROVE  UNCHANGED <<road, pos, control, mail, overtaken>>
               /\ events'["mail_empty"] = events["mail_empty"]
               /\ events'["mail_full"] = events["mail_full"]
    BY <1>1, <2>1 DEF mgetch, new_kbd, send_car, WaitEvent, SignalEvent, Semaphore
  <2>. QED  BY <1>2, <2>1 DEF MainStep
<1>3. ASSUME NEW c \in Car, CarStep(c) \/ Receive(c)
      PROVE  keys' = keys /\ events'["kbd"] = events["kbd"]
  BY <1>1, <1>3 DEF CarStep, CarPauses, CarAdvances, put_msg, CarClears, CarLeaves, Receive,
     Semaphore
<1>4. ASSUME get_msg \/ camino_control \/ camino1_control \/ Tick
      PROVE  keys' = keys /\ events'["kbd"] = events["kbd"]
  BY <1>1, <1>4 DEF get_msg, camino_control, camino1_control, Tick, Semaphore
<1>. QED  BY <1>2, <1>3, <1>4 DEF RoadNext, ControlStep

\* The semaphore of the keyboard counts the keys through every step.
LEMMA KeysStep ==
  ASSUME RoadTyped, KeysCounted, RoadNext, program' = program
  PROVE  KeysCounted'
<1>1. keys \in [typed : Seq(Direction), main : {"look", "wait"}] /\ events \in [Semaphore -> Nat]
      /\ program \in {"camino", "camino1"}
  BY DEF RoadTyped
<1>2. events["kbd"] \in Nat /\ Len(keys.typed) \in Nat
  BY <1>1 DEF Semaphore
<1>3. CASE keys' = keys /\ events'["kbd"] = events["kbd"]
  BY <1>3 DEF KeysCounted
<1>4. CASE mgetch
  <2>1. keys'.typed = keys.typed /\ keys'.main \in {"look", "wait"}
    BY <1>1, <1>4 DEF mgetch
  <2>2. \/ keys.main = "look" /\ keys'.main = "wait" /\ keys.typed = <<>> /\ events' = events
        \/ /\ keys.main = "wait" /\ keys'.main = "look"
           /\ events'["kbd"] = events["kbd"] - 1
    BY <1>1, <1>4 DEF mgetch, WaitEvent, Semaphore
  <2>. QED  BY <1>2, <2>1, <2>2 DEF KeysCounted
<1>5. ASSUME NEW t \in Seq(Direction), Len(t) <= 1, new_kbd(t) PROVE KeysCounted'
  <2>1. keys' = [keys EXCEPT !.typed = keys.typed \o t] /\ events'["kbd"] = events["kbd"] + 1
    BY <1>1, <1>5 DEF new_kbd, SignalEvent, Semaphore
  <2>2. keys'.typed = keys.typed \o t /\ keys'.main = keys.main
    BY <1>1, <2>1
  <2>3. Len(keys.typed \o t) = Len(keys.typed) + Len(t) /\ Len(t) \in Nat
    BY <1>1
  <2>. QED  BY <1>2, <1>5, <2>1, <2>2, <2>3 DEF KeysCounted
<1>6. ASSUME NEW c \in Car, send_car(c) PROVE KeysCounted'
  <2>1. keys.main = "look" /\ keys.typed # <<>> /\ keys'.typed = Tail(keys.typed)
        /\ events' = events
    BY <1>6 DEF send_car
  <2>2. Len(Tail(keys.typed)) = Len(keys.typed) - 1
    BY <1>1, <2>1
  <2>. QED  BY <1>2, <2>1, <2>2 DEF KeysCounted
<1>7. <<>> \in Seq(Direction) /\ Len(<<>>) <= 1
      /\ \A d \in Direction : <<d>> \in Seq(Direction) /\ Len(<<d>>) <= 1
  OBVIOUS
<1>. QED  BY <1>3, <1>4, <1>5, <1>6, <1>7, RoadFrames DEF MainStep

\* A message is in the mailbox, or with the control, or neither.
LEMMA MailboxStep ==
  ASSUME RoadTyped, CarsPlaced, Mailbox, RoadNext, program' = program
  PROVE  Mailbox'
<1>1. events \in [Semaphore -> Nat] /\ program \in {"camino", "camino1"} /\ control \in Control
      /\ mail \in RoadMsg
  BY DEF RoadTyped
<1>2. events["mail_empty"] \in Nat /\ events["mail_full"] \in Nat
  BY <1>1 DEF Semaphore
<1>3. ASSUME UNCHANGED <<control, mail>>, events'["mail_empty"] = events["mail_empty"],
             events'["mail_full"] = events["mail_full"]
      PROVE  Mailbox'
  BY <1>3 DEF Mailbox
<1>4. ASSUME NEW c \in Car, put_msg(c) PROVE Mailbox'
  <2>1. mail'.kind \in {"in", "out"}
    BY <1>4, Reports, Places DEF put_msg, CarsPlaced, Sensors
  <2>2. events["mail_empty"] = 1 /\ events["mail_full"] = 0 /\ control' = control
        /\ program = "camino"
    BY <1>2, <1>4 DEF put_msg, Mailbox
  <2>3. events'["mail_empty"] = 0 /\ events'["mail_full"] = 1
    BY <1>1, <1>4, <2>2 DEF put_msg, Semaphore
  <2>. QED  BY <2>1, <2>2, <2>3 DEF Mailbox
<1>5. ASSUME NEW c \in Car, CarPauses(c) \/ CarAdvances(c) \/ CarClears(c) \/ CarLeaves(c)
      PROVE  Mailbox'
  BY <1>3, <1>5 DEF CarPauses, CarAdvances, CarClears, CarLeaves
<1>6. CASE get_msg
  <2>1. events["mail_full"] = 1 /\ events["mail_empty"] = 0 /\ mail' = mail
        /\ program = "camino"
    BY <1>2, <1>6 DEF get_msg, Mailbox
  <2>2. events'["mail_empty"] = 1 /\ events'["mail_full"] = 0
    BY <1>1, <1>6, <2>1 DEF get_msg, Semaphore
  <2>3. control'.msg = mail /\ control'.draining = control.draining
    BY <1>1, <1>6 DEF get_msg, Control
  <2>4. mail.kind \in {"in", "out"}
    BY <2>1 DEF Mailbox
  <2>. QED  BY <2>1, <2>2, <2>3, <2>4 DEF Mailbox
<1>7. CASE camino_control
  <2>1. control'.msg = Nothing /\ control'.draining = control.draining
    BY <1>7, CaminoControl
  <2>2. UNCHANGED <<mail, events>> /\ program = "camino"
    BY <1>7 DEF camino_control
  <2>. QED  BY <2>1, <2>2, Places DEF Mailbox
<1>8. CASE camino1_control
  <2>1. control'.msg = Nothing
    BY <1>8, Camino1Control
  <2>2. UNCHANGED <<mail, events>> /\ program = "camino1"
    BY <1>8 DEF camino1_control
  <2>. QED  BY <2>1, <2>2, Places DEF Mailbox
<1>9. ASSUME NEW c \in Car, Receive(c) PROVE Mailbox'
  <2>1. control'.msg = Report(c, ReportOf(c))
    BY <1>1, <1>9 DEF Receive, Control
  <2>2. control'.msg.kind # "none"
    BY <1>9, <2>1, Reports, Places DEF Receive, CarsPlaced, Sensors
  <2>3. UNCHANGED <<mail, events>> /\ program = "camino1"
    BY <1>9 DEF Receive
  <2>. QED  BY <2>2, <2>3, Places DEF Mailbox
<1>10. CASE Tick
  BY <1>3, <1>10 DEF Tick
<1>. QED
  BY <1>3, <1>4, <1>5, <1>6, <1>7, <1>8, <1>9, <1>10, RoadFrames DEF CarStep, ControlStep

\* The sets of cars that are counted are finite.
LEMMA CarSets ==
  \A S \in SUBSET Car : /\ IsFiniteSet(S) /\ Cardinality(S) \in Nat
                        /\ \A T \in SUBSET S : Cardinality(T) <= Cardinality(S)
<1>1. \A S \in SUBSET Car : IsFiniteSet(S) /\ Cardinality(S) \in Nat
  BY RoadAssumption, FS_Subset, FS_CardinalityType
<1>. QED  BY <1>1, FS_Subset

\* The sets of cars that the control counts are finite.
LEMMA CarsFinite ==
  /\ \A p, q, D : IsFiniteSet(Between(p, q, D)) /\ Cardinality(Between(p, q, D)) \in Nat
  /\ \A d : IsFiniteSet(Fresh(d)) /\ Cardinality(Fresh(d)) \in Nat
BY CarSets DEF Between, Fresh

\* As long as no car reports, those between two places stay the same.
LEMMA SilentStep ==
  ASSUME RoadTyped, CarsPlaced, program' = program,
         \/ \E c \in Car : CarPauses(c) \/ CarAdvances(c) \/ CarClears(c) \/ CarLeaves(c) \/ send_car(c)
         \/ Tick,
         NEW p \in Sensors, NEW q \in Sensors, p < q, NEW D
  PROVE  Between(p, q, D)' = Between(p, q, D)
<1>1. pos \in [Car -> 0 .. ROAD_END + 1] /\ doing \in [Car -> Doing]
      /\ program \in {"camino", "camino1"}
  BY DEF RoadTyped
<1>2. /\ p \in Nat /\ q \in Nat /\ 0 < p /\ q <= ROAD_END /\ ROAD_END \in Nat
  BY Places DEF Sensors
<1>3. \A c \in Car : pos[c] \in Nat
  BY <1>1, Places
<1>. DEFINE On(c) == Told(c, p) /\ ~Told(c, q)
<1>4. ASSUME \A c \in Car : On(c)' <=> On(c) PROVE Between(p, q, D)' = Between(p, q, D)
  BY <1>4 DEF Between
<1>5. ASSUME NEW c \in Car, CarPauses(c) PROVE \A x \in Car : On(x)' <=> On(x)
  BY <1>1, <1>5 DEF CarPauses, Told
<1>6. ASSUME NEW c \in Car, CarAdvances(c) PROVE \A x \in Car : On(x)' <=> On(x)
  <2>1. pos' = pos /\ doing[c] \in {"test", "take"}
        /\ doing' = [doing EXCEPT ![c] = IF ReportOf(c) = "none" THEN "clear" ELSE "send"]
    BY <1>6 DEF CarAdvances, MayAdvance
  <2>2. pos[c] \in Sensors => ReportOf(c) # "none"
    BY <1>1, Reports DEF Sensors
  <2>3. pos[c] \in {p, q} => doing'[c] = "send"
    BY <1>1, <2>1, <2>2
  <2>4. \A x \in Car : x # c => doing'[x] = doing[x]
    BY <1>1, <2>1
  <2>. QED  BY <2>1, <2>3, <2>4 DEF Told
<1>7. ASSUME NEW c \in Car, CarClears(c) PROVE \A x \in Car : On(x)' <=> On(x)
  <2>1. /\ doing[c] = "clear" /\ doing'[c] = "delay" /\ pos'[c] = pos[c] + 1
        /\ \A x \in Car : x # c => doing'[x] = doing[x] /\ pos'[x] = pos[x]
    BY <1>1, <1>7 DEF CarClears
  <2>. QED  BY <1>2, <1>3, <2>1 DEF Told
<1>8. ASSUME NEW c \in Car, CarLeaves(c) PROVE \A x \in Car : On(x)' <=> On(x)
  <2>1. /\ pos[c] > ROAD_END /\ doing'[c] = "garage" /\ pos'[c] = 0
        /\ \A x \in Car : x # c => doing'[x] = doing[x] /\ pos'[x] = pos[x]
    BY <1>1, <1>8 DEF CarLeaves
  <2>. QED  BY <1>2, <1>3, <2>1 DEF Told
<1>9. ASSUME NEW c \in Car, send_car(c) PROVE \A x \in Car : On(x)' <=> On(x)
  <2>1. /\ doing[c] = "garage" /\ doing'[c] = "test" /\ pos' = pos
        /\ \A x \in Car : x # c => doing'[x] = doing[x]
    BY <1>1, <1>9 DEF send_car
  <2>. QED  BY <2>1 DEF Told
<1>10. ASSUME Tick PROVE \A x \in Car : On(x)' <=> On(x)
  <2>1. pos' = pos
        /\ \A x \in Car : \/ doing'[x] = doing[x]
                          \/ doing[x] \in {"pause", "delay"} /\ doing'[x] \in {"take", "test"}
    BY <1>10 DEF Tick
  <2>. QED  BY <2>1 DEF Told
<1>. HIDE DEF On
<1>. QED  BY <1>4, <1>5, <1>6, <1>7, <1>8, <1>9, <1>10

\* The report of a car puts it behind the place where it is.
LEMMA ReportStep ==
  ASSUME RoadTyped, NEW c \in Car, doing[c] = "send", pos' = pos,
         doing' = [doing EXCEPT ![c] = "clear"]
  PROVE  \A p, q \in Nat : \A D : p < q =>
           Cardinality(Between(p, q, D)') = Cardinality(Between(p, q, D))
             + (IF pos[c] = p /\ dir[c] \in D THEN 1 ELSE 0)
             - (IF pos[c] = q /\ dir[c] \in D THEN 1 ELSE 0)
<1>. TAKE p, q \in Nat
<1>. TAKE D
<1>. HAVE p < q
<1>. DEFINE B == Between(p, q, D)
<1>1. pos \in [Car -> 0 .. ROAD_END + 1] /\ doing \in [Car -> Doing] /\ pos[c] \in Nat
  BY Places DEF RoadTyped
<1>2. IsFiniteSet(B) /\ Cardinality(B) \in Nat
  BY CarsFinite
<1>3. /\ doing'[c] = "clear" /\ \A x \in Car : x # c => doing'[x] = doing[x]
  BY <1>1
<1>4. CASE pos[c] = p /\ dir[c] \in D
  <2>1. B' = B \cup {c} /\ c \notin B
    BY <1>1, <1>3, <1>4 DEF Between, Told
  <2>. HIDE DEF B
  <2>2. Cardinality(B \cup {c}) = Cardinality(B) + 1
    BY <1>2, <2>1, FS_AddElement
  <2>. QED  BY <1>2, <1>4, <2>1, <2>2 DEF B
<1>5. CASE pos[c] = q /\ dir[c] \in D
  <2>1. B' = B \ {c} /\ c \in B
    BY <1>1, <1>3, <1>5 DEF Between, Told
  <2>. HIDE DEF B
  <2>2. Cardinality(B \ {c}) = Cardinality(B) - 1
    BY <1>2, <2>1, FS_RemoveElement
  <2>. QED  BY <1>2, <1>5, <2>1, <2>2 DEF B
<1>6. CASE pos[c] \notin {p, q} \/ dir[c] \notin D
  <2>1. B' = B
    BY <1>1, <1>3, <1>6 DEF Between, Told
  <2>. QED  BY <1>2, <1>6, <2>1
<1>. QED  BY <1>4, <1>5, <1>6

\* How the steps change the messages that are not handled.
LEMMA UnhandledStep ==
  ASSUME RoadTyped, CarsPlaced, Mailbox, program' = program,
         NEW kind \in {"in", "barrier", "out"}, NEW D
  PROVE  /\ Unhandled(kind, D) \in Nat
         /\ \A c \in Car : put_msg(c) \/ Receive(c) =>
              Unhandled(kind, D)' = Unhandled(kind, D) +
                                      (IF ReportOf(c) = kind /\ dir[c] \in D THEN 1 ELSE 0)
         /\ get_msg => Unhandled(kind, D)' = Unhandled(kind, D)
         /\ camino_control \/ camino1_control =>
              Unhandled(kind, D)' = Unhandled(kind, D) -
                (IF control.msg.kind = kind /\ control.msg.dir \in D THEN 1 ELSE 0)
         /\ UNCHANGED <<control, mail>> /\ events'["mail_full"] = events["mail_full"] =>
              Unhandled(kind, D)' = Unhandled(kind, D)
<1>. DEFINE got == IF control.msg.kind = kind /\ control.msg.dir \in D THEN 1 ELSE 0
            put == IF events["mail_full"] = 1 /\ mail.kind = kind /\ mail.dir \in D THEN 1 ELSE 0
<1>1. Unhandled(kind, D) = got + put /\ Unhandled(kind, D)' = got' + put'
      /\ got \in Nat /\ put \in Nat
  BY DEF Unhandled
<1>2. events \in [Semaphore -> Nat] /\ control \in Control
      /\ events["mail_full"] \in Nat /\ events["mail_empty"] \in Nat
  BY DEF RoadTyped, Semaphore
<1>3. ASSUME NEW c \in Car, put_msg(c)
      PROVE  Unhandled(kind, D)' = Unhandled(kind, D) +
                                     (IF ReportOf(c) = kind /\ dir[c] \in D THEN 1 ELSE 0)
  <2>1. mail'.kind = ReportOf(c) /\ mail'.dir = dir[c] /\ control' = control
    BY <1>3, Reports DEF put_msg
  <2>2. events["mail_full"] = 0
    BY <1>2, <1>3 DEF put_msg, Mailbox
  <2>3. events'["mail_full"] = 1
    BY <1>2, <1>3, <2>2 DEF put_msg, Semaphore
  <2>4. put = 0 /\ put' = (IF ReportOf(c) = kind /\ dir[c] \in D THEN 1 ELSE 0) /\ got' = got
    BY <2>1, <2>2, <2>3
  <2>. HIDE DEF got, put
  <2>. QED  BY <1>1, <2>4
<1>4. ASSUME NEW c \in Car, Receive(c)
      PROVE  Unhandled(kind, D)' = Unhandled(kind, D) +
                                     (IF ReportOf(c) = kind /\ dir[c] \in D THEN 1 ELSE 0)
  <2>1. control'.msg = Report(c, ReportOf(c)) /\ UNCHANGED <<mail, events>>
        /\ control.msg = Nothing
    BY <1>2, <1>4 DEF Receive, Control
  <2>2. control'.msg.kind = ReportOf(c) /\ control'.msg.dir = dir[c] /\ control.msg.kind = "none"
    BY <2>1, Reports, Places
  <2>3. got = 0 /\ got' = (IF ReportOf(c) = kind /\ dir[c] \in D THEN 1 ELSE 0) /\ put' = put
    BY <2>1, <2>2
  <2>. HIDE DEF got, put
  <2>. QED  BY <1>1, <2>3
<1>5. ASSUME get_msg PROVE Unhandled(kind, D)' = Unhandled(kind, D)
  <2>1. control'.msg = mail /\ mail' = mail /\ control.msg.kind = "none"
    BY <1>2, <1>5, Places DEF get_msg, Control
  <2>2. events["mail_full"] = 1
    BY <1>2, <1>5 DEF get_msg, Mailbox
  <2>3. events'["mail_full"] = 0
    BY <1>2, <1>5, <2>2 DEF get_msg, Semaphore
  <2>4. got = 0 /\ put' = 0 /\ got' = put
    BY <2>1, <2>2, <2>3
  <2>. HIDE DEF got, put
  <2>. QED  BY <1>1, <2>4
<1>6. ASSUME camino_control \/ camino1_control
      PROVE  Unhandled(kind, D)' = Unhandled(kind, D) - got
  <2>1. control'.msg.kind = "none"
    BY <1>6, CaminoControl, Camino1Control, Places
  <2>2. UNCHANGED <<mail, events>>
    BY <1>6 DEF camino_control, camino1_control
  <2>3. got' = 0 /\ put' = put
    BY <2>1, <2>2
  <2>. HIDE DEF got, put
  <2>. QED  BY <1>1, <2>3
<1>7. UNCHANGED <<control, mail>> /\ events'["mail_full"] = events["mail_full"] =>
        Unhandled(kind, D)' = Unhandled(kind, D)
  BY DEF Unhandled
<1>. QED  BY <1>1, <1>3, <1>4, <1>5, <1>6, <1>7

\* A step of a car that does not report, of main, or of the clock, is not seen by the control.
Unseen == /\ UNCHANGED <<control, mail>> /\ events'["mail_full"] = events["mail_full"]
          /\ \/ \E c \in Car : \/ CarPauses(c) \/ CarAdvances(c) \/ CarClears(c)
                               \/ CarLeaves(c) \/ send_car(c)
             \/ Tick
             \/ UNCHANGED <<pos, doing>>

\* The kinds of steps as the control sees them.
LEMMA SeenCases ==
  ASSUME RoadTyped, RoadNext, program' = program
  PROVE  \/ Unseen
         \/ \E c \in Car : /\ put_msg(c) \/ Receive(c)
                           /\ doing[c] = "send" /\ pos' = pos /\ road' = road
                           /\ doing' = [doing EXCEPT ![c] = "clear"]
                           /\ control'.cars = control.cars /\ control'.in_road = control.in_road
                           /\ control'.state = control.state
                           /\ control'.draining = control.draining
                           /\ control'.passed = control.passed
                           /\ overtaken' = overtaken
         \/ /\ get_msg /\ UNCHANGED <<pos, doing, road, overtaken>>
            /\ control'.cars = control.cars /\ control'.in_road = control.in_road
            /\ control'.state = control.state /\ control'.draining = control.draining
            /\ control'.passed = control.passed
         \/ camino_control /\ UNCHANGED <<pos, doing, overtaken>>
         \/ camino1_control /\ UNCHANGED <<pos, doing, overtaken>>
<1>1. control \in Control /\ events \in [Semaphore -> Nat]
  BY DEF RoadTyped
<1>2. ASSUME NEW c \in Car, CarPauses(c) \/ CarAdvances(c) \/ CarClears(c) \/ CarLeaves(c)
      PROVE  Unseen
  <2>1. UNCHANGED <<control, mail, events>>
    BY <1>2 DEF CarPauses, CarAdvances, CarClears, CarLeaves
  <2>. QED  BY <1>2, <2>1 DEF Unseen
<1>3. ASSUME NEW c \in Car, put_msg(c) \/ Receive(c)
      PROVE  /\ doing[c] = "send" /\ pos' = pos /\ road' = road
             /\ doing' = [doing EXCEPT ![c] = "clear"]
             /\ control'.cars = control.cars /\ control'.in_road = control.in_road
             /\ control'.state = control.state /\ control'.draining = control.draining
             /\ control'.passed = control.passed /\ overtaken' = overtaken
  BY <1>1, <1>3 DEF put_msg, Receive, Control
<1>4. CASE get_msg
  BY <1>1, <1>4 DEF get_msg, Control
<1>5. CASE Tick
  BY <1>5 DEF Tick, Unseen
<1>6. CASE MainStep
  <2>1. UNCHANGED <<control, mail>> /\ events'["mail_full"] = events["mail_full"]
    BY <1>1, <1>6 DEF MainStep, mgetch, new_kbd, send_car, WaitEvent, SignalEvent, Semaphore
  <2>2. (\E c \in Car : send_car(c)) \/ UNCHANGED <<pos, doing>>
    BY <1>6 DEF MainStep, mgetch, new_kbd
  <2>. QED  BY <2>1, <2>2 DEF Unseen
<1>7. CASE camino_control \/ camino1_control
  BY <1>7 DEF camino_control, camino1_control
<1>. QED  BY <1>2, <1>3, <1>4, <1>5, <1>6, <1>7 DEF RoadNext, CarStep, ControlStep

\* A count of the control is right again after every step.
LEMMA CountedStep ==
  ASSUME RoadTyped, CarsPlaced, Mailbox, RoadNext, program' = program,
         NEW p \in Sensors, NEW q \in Sensors, p < q, NEW D,
         NEW first \in {"in", "barrier", "out"}, NEW last \in {"in", "barrier", "out"},
         \A c \in Car : ReportOf(c) = first <=> pos[c] = p,
         \A c \in Car : ReportOf(c) = last <=> pos[c] = q,
         NEW n \in Int, CountedTo(p, q, D, first, last, n)
  PROVE  LET now == Cardinality(Between(p, q, D)') - Unhandled(first, D)' + Unhandled(last, D)'
             m == control.msg
         IN  \/ now = n /\ control'.cars = control.cars /\ control'.in_road = control.in_road
             \/ /\ camino_control \/ camino1_control
                /\ now = n + (IF m.kind = first /\ m.dir \in D THEN 1 ELSE 0)
                           - (IF m.kind = last /\ m.dir \in D THEN 1 ELSE 0)
<1>. DEFINE B == Cardinality(Between(p, q, D))
            F == Unhandled(first, D)
            L == Unhandled(last, D)
            m == control.msg
<1>1. n = B - F + L
  BY DEF CountedTo
<1>2. B \in Nat /\ F \in Nat /\ L \in Nat
  BY CarsFinite, UnhandledStep
<1>3. p \in Nat /\ q \in Nat
  BY Places DEF Sensors
<1>. DEFINE Goal == \/ /\ Cardinality(Between(p, q, D)') - F' + L' = n
                       /\ control'.cars = control.cars /\ control'.in_road = control.in_road
                    \/ /\ camino_control \/ camino1_control
                       /\ Cardinality(Between(p, q, D)') - F' + L' =
                            n + (IF m.kind = first /\ m.dir \in D THEN 1 ELSE 0)
                              - (IF m.kind = last /\ m.dir \in D THEN 1 ELSE 0)
<1>4. ASSUME Unseen PROVE Goal
  <2>1. F' = F /\ L' = L
    BY <1>4, UnhandledStep DEF Unseen
  <2>2. Between(p, q, D)' = Between(p, q, D)
    <3>1. CASE UNCHANGED <<pos, doing>>
      BY <3>1 DEF Between, Told
    <3>. QED  BY <1>4, <3>1, SilentStep DEF Unseen
  <2>3. control' = control
    BY <1>4 DEF Unseen
  <2>. HIDE DEF F, L
  <2>. QED  BY <1>1, <1>2, <2>1, <2>2, <2>3
<1>5. ASSUME NEW c \in Car, put_msg(c) \/ Receive(c),
             doing[c] = "send" /\ pos' = pos /\ doing' = [doing EXCEPT ![c] = "clear"]
                /\ control'.cars = control.cars /\ control'.in_road = control.in_road
      PROVE  Goal
  <2>1. F' = F + (IF ReportOf(c) = first /\ dir[c] \in D THEN 1 ELSE 0)
    BY <1>5, UnhandledStep
  <2>2. L' = L + (IF ReportOf(c) = last /\ dir[c] \in D THEN 1 ELSE 0)
    BY <1>5, UnhandledStep
  <2>3. Cardinality(Between(p, q, D)') = B + (IF pos[c] = p /\ dir[c] \in D THEN 1 ELSE 0)
                                         - (IF pos[c] = q /\ dir[c] \in D THEN 1 ELSE 0)
    <3>1. doing[c] = "send" /\ pos' = pos /\ doing' = [doing EXCEPT ![c] = "clear"]
      BY <1>5
    <3>2. RoadTyped /\ c \in Car /\ p < q
      OBVIOUS
    <3>. HIDE DEF Goal, F, L, m, B
    <3>3. \A x, y \in Nat : \A E : x < y =>
           Cardinality(Between(x, y, E)') = Cardinality(Between(x, y, E))
             + (IF pos[c] = x /\ dir[c] \in E THEN 1 ELSE 0)
             - (IF pos[c] = y /\ dir[c] \in E THEN 1 ELSE 0)
      BY <3>1, <3>2, ReportStep
    <3>4. Cardinality(Between(p, q, D)') = Cardinality(Between(p, q, D))
           + (IF pos[c] = p /\ dir[c] \in D THEN 1 ELSE 0)
           - (IF pos[c] = q /\ dir[c] \in D THEN 1 ELSE 0)
      BY <1>3, <3>2, <3>3, SMT
    <3>. QED  BY <3>4 DEF B
  <2>. HIDE DEF F, L, B
  <2>. QED  BY <1>1, <1>2, <1>5, <2>1, <2>2, <2>3
<1>6. ASSUME get_msg, UNCHANGED <<pos, doing>>,
             control'.cars = control.cars /\ control'.in_road = control.in_road
      PROVE  Goal
  <2>1. F' = F /\ L' = L
    BY <1>6, UnhandledStep
  <2>2. Between(p, q, D)' = Between(p, q, D)
    BY <1>6 DEF Between, Told
  <2>. HIDE DEF F, L
  <2>. QED  BY <1>1, <1>2, <1>6, <2>1, <2>2
<1>7. ASSUME camino_control \/ camino1_control, UNCHANGED <<pos, doing>> PROVE Goal
  <2>1. F' = F - (IF m.kind = first /\ m.dir \in D THEN 1 ELSE 0)
    BY <1>7, UnhandledStep
  <2>2. L' = L - (IF m.kind = last /\ m.dir \in D THEN 1 ELSE 0)
    BY <1>7, UnhandledStep
  <2>3. Between(p, q, D)' = Between(p, q, D)
    BY <1>7 DEF Between, Told
  <2>. HIDE DEF F, L
  <2>. QED  BY <1>1, <1>2, <1>7, <2>1, <2>2, <2>3
<1>8. Goal
  <2>. HIDE DEF Goal
  <2>. QED  BY <1>4, <1>5, <1>6, <1>7, SeenCases
<1>. QED  BY <1>8

\* The control counts right.
LEMMA CountsStep ==
  ASSUME RoadTyped, CarsPlaced, Mailbox, Counts, RoadNext, program' = program
  PROVE  Counts'
<1>. DEFINE m == control.msg
<1>1. program \in {"camino", "camino1"} /\ control \in Control
      /\ control.cars \in [Direction -> Int] /\ control.in_road \in Int
      /\ m.dir \in Direction
  BY DEF RoadTyped, Control, RoadMsg
<1>2. ASSUME program = "camino", NEW d \in Direction
      PROVE  CountedTo(SENSOR1_POS, SENSOR2_POS, {d}, "in", "out", control.cars[d])'
  <2>. DEFINE now == Cardinality(Between(SENSOR1_POS, SENSOR2_POS, {d})')
                       - Unhandled("in", {d})' + Unhandled("out", {d})'
  <2>1. SENSOR1_POS \in Sensors /\ SENSOR2_POS \in Sensors /\ SENSOR1_POS < SENSOR2_POS
    BY <1>2, Places DEF Sensors
  <2>2. CountedTo(SENSOR1_POS, SENSOR2_POS, {d}, "in", "out", control.cars[d])
        /\ control.cars[d] \in Int
    BY <1>1, <1>2 DEF Counts
  <2>3. \/ now = control.cars[d] /\ control'.cars = control.cars
        \/ /\ camino_control \/ camino1_control
           /\ now = control.cars[d] + (IF m.kind = "in" /\ m.dir \in {d} THEN 1 ELSE 0)
                                    - (IF m.kind = "out" /\ m.dir \in {d} THEN 1 ELSE 0)
    <3>1. \A c \in Car : ReportOf(c) = "in" <=> pos[c] = SENSOR1_POS
      BY Reports
    <3>2. \A c \in Car : ReportOf(c) = "out" <=> pos[c] = SENSOR2_POS
      BY Reports
    <3>. QED  BY <2>1, <2>2, <3>1, <3>2, CountedStep
  <2>4. ~camino1_control
    BY <1>2 DEF camino1_control
  <2>5. camino_control => m.kind \in {"in", "out"}
    <3>1. m.kind \in {"none", "in", "barrier", "out"}
      BY <1>1 DEF Control, RoadMsg
    <3>. QED  BY <1>2, <3>1 DEF camino_control, Mailbox
  <2>6. camino_control => control'.cars[d] = IF d # m.dir THEN control.cars[d]
                                             ELSE IF m.kind = "in" THEN control.cars[d] + 1
                                             ELSE control.cars[d] - 1
    BY CaminoControl
  <2>7. control'.cars[d] = now
    <3>. HIDE DEF now
    <3>. QED  BY <2>2, <2>3, <2>4, <2>5, <2>6
  <2>. QED  BY <2>7 DEF CountedTo
<1>3. ASSUME camino1_control
      PROVE  /\ \A d \in Direction :
                  control'.cars[d] = control.cars[d] + (IF m.kind = "in" /\ m.dir = d THEN 1 ELSE 0)
                                       - (IF m.kind = "barrier" /\ m.dir = d THEN 1 ELSE 0)
             /\ control'.in_road = control.in_road + (IF m.kind = "barrier" THEN 1 ELSE 0)
                                     - (IF m.kind = "out" THEN 1 ELSE 0)
  <2>1. control'.cars = camino1_count(control).cars
        /\ control'.in_road = camino1_count(control).in_road
    BY <1>3, Camino1Control
  <2>. QED  BY <1>1, <2>1, CountRec
<1>4. ASSUME program = "camino1", NEW d \in Direction
      PROVE  CountedTo(SENSOR1_POS, BARRIER_POS, {d}, "in", "barrier", control.cars[d])'
  <2>. DEFINE now == Cardinality(Between(SENSOR1_POS, BARRIER_POS, {d})')
                       - Unhandled("in", {d})' + Unhandled("barrier", {d})'
  <2>1. SENSOR1_POS \in Sensors /\ BARRIER_POS \in Sensors /\ SENSOR1_POS < BARRIER_POS
    BY <1>4, Places DEF Sensors
  <2>2. CountedTo(SENSOR1_POS, BARRIER_POS, {d}, "in", "barrier", control.cars[d])
        /\ control.cars[d] \in Int
    BY <1>1, <1>4 DEF Counts
  <2>3. \/ now = control.cars[d] /\ control'.cars = control.cars
        \/ /\ camino_control \/ camino1_control
           /\ now = control.cars[d] + (IF m.kind = "in" /\ m.dir \in {d} THEN 1 ELSE 0)
                                    - (IF m.kind = "barrier" /\ m.dir \in {d} THEN 1 ELSE 0)
    <3>1. \A c \in Car : ReportOf(c) = "in" <=> pos[c] = SENSOR1_POS
      BY Reports
    <3>2. \A c \in Car : ReportOf(c) = "barrier" <=> pos[c] = BARRIER_POS
      BY <1>4, Reports
    <3>. QED  BY <2>1, <2>2, <3>1, <3>2, CountedStep
  <2>4. ~camino_control
    BY <1>4 DEF camino_control
  <2>5. control'.cars[d] = now
    <3>. HIDE DEF now
    <3>. QED  BY <1>3, <2>2, <2>3, <2>4
  <2>. QED  BY <2>5 DEF CountedTo
<1>5. ASSUME program = "camino1"
      PROVE  CountedTo(BARRIER_POS, SENSOR2_POS, Direction, "barrier", "out", control.in_road)'
  <2>. DEFINE now == Cardinality(Between(BARRIER_POS, SENSOR2_POS, Direction)')
                       - Unhandled("barrier", Direction)' + Unhandled("out", Direction)'
  <2>1. BARRIER_POS \in Sensors /\ SENSOR2_POS \in Sensors /\ BARRIER_POS < SENSOR2_POS
    BY <1>5, Places DEF Sensors
  <2>2. CountedTo(BARRIER_POS, SENSOR2_POS, Direction, "barrier", "out", control.in_road)
    BY <1>5 DEF Counts
  <2>3. \/ now = control.in_road /\ control'.in_road = control.in_road
        \/ /\ camino_control \/ camino1_control
           /\ now = control.in_road
                      + (IF m.kind = "barrier" /\ m.dir \in Direction THEN 1 ELSE 0)
                      - (IF m.kind = "out" /\ m.dir \in Direction THEN 1 ELSE 0)
    <3>1. \A c \in Car : ReportOf(c) = "barrier" <=> pos[c] = BARRIER_POS
      BY <1>5, Reports
    <3>2. \A c \in Car : ReportOf(c) = "out" <=> pos[c] = SENSOR2_POS
      BY Reports
    <3>. QED  BY <1>1, <2>1, <2>2, <3>1, <3>2, CountedStep
  <2>4. ~camino_control
    BY <1>5 DEF camino_control
  <2>5. control'.in_road = now
    <3>. HIDE DEF now
    <3>. QED  BY <1>1, <1>3, <2>3, <2>4
  <2>. QED  BY <2>5 DEF CountedTo
<1>. QED  BY <1>2, <1>4, <1>5 DEF Counts

\* In camino a message that a car comes near is handled before the car moves on.
LEMMA PromptStep ==
  ASSUME RoadTyped, CarsPlaced, Mailbox, program = "camino", Prompt, RoadNext, program' = program
  PROVE  Prompt'
<1>. SUFFICES ASSUME NEW d \in Direction
              PROVE  Unhandled("in", {d})' <= Cardinality(Fresh(d)')
  BY DEF Prompt
<1>. DEFINE U == Unhandled("in", {d})
<1>1. pos \in [Car -> 0 .. ROAD_END + 1] /\ doing \in [Car -> Doing] /\ control \in Control
      /\ \A c \in Car : pos[c] \in Nat
  BY Places DEF RoadTyped
<1>2. U \in Nat /\ Cardinality(Fresh(d)) \in Nat /\ U <= Cardinality(Fresh(d))
      /\ IsFiniteSet(Fresh(d)) /\ Fresh(d) \in SUBSET Car
  BY UnhandledStep, CarsFinite DEF Prompt, Fresh
<1>3. Fresh(d)' \in SUBSET Car /\ Cardinality(Fresh(d)') \in Nat
  <2>1. Fresh(d)' \in SUBSET Car
    BY DEF Fresh
  <2>. QED  BY <2>1, CarSets
<1>4. ASSUME U' <= U, Fresh(d) \subseteq Fresh(d)', U' \in Nat PROVE U' <= Cardinality(Fresh(d)')
  <2>1. Cardinality(Fresh(d)) <= Cardinality(Fresh(d)')
    BY <1>3, <1>4, CarSets
  <2>. HIDE DEF U
  <2>. QED  BY <1>2, <1>3, <1>4, <2>1
<1>5. ASSUME Tick PROVE U' <= Cardinality(Fresh(d)')
  <2>1. control.msg = Nothing /\ events["mail_full"] = 0
    BY <1>5 DEF Tick, Quiet
  <2>2. U = 0
    BY <2>1, Places DEF Unhandled
  <2>3. U' = U
    BY <1>5, UnhandledStep DEF Tick
  <2>. HIDE DEF U
  <2>. QED  BY <1>3, <2>2, <2>3
<1>6. ASSUME Unseen, ~Tick PROVE U' <= Cardinality(Fresh(d)')
  <2>1. U' = U
    BY <1>6, UnhandledStep DEF Unseen
  <2>2. Fresh(d) \subseteq Fresh(d)'
    <3>1. CASE UNCHANGED <<pos, doing>>
      BY <3>1 DEF Fresh
    <3>2. ASSUME NEW c \in Car, CarPauses(c) \/ CarAdvances(c) \/ send_car(c)
          PROVE  Fresh(d) \subseteq Fresh(d)'
      <4>1. pos' = pos /\ doing[c] \in {"test", "take", "garage"}
            /\ \A x \in Car : x # c => doing'[x] = doing[x]
        BY <1>1, <3>2 DEF CarPauses, CarAdvances, MayAdvance, send_car
      <4>. QED  BY <4>1 DEF Fresh
    <3>3. ASSUME NEW c \in Car, CarClears(c) PROVE Fresh(d) \subseteq Fresh(d)'
      <4>1. pos'[c] = pos[c] + 1 /\ doing[c] = "clear" /\ doing'[c] = "delay"
            /\ \A x \in Car : x # c => doing'[x] = doing[x] /\ pos'[x] = pos[x]
        BY <1>1, <3>3 DEF CarClears
      <4>. QED  BY <4>1 DEF Fresh
    <3>4. ASSUME NEW c \in Car, CarLeaves(c) PROVE Fresh(d) \subseteq Fresh(d)'
      <4>1. doing[c] = "test" /\ \A x \in Car : x # c => doing'[x] = doing[x] /\ pos'[x] = pos[x]
        BY <1>1, <3>4 DEF CarLeaves
      <4>. QED  BY <4>1 DEF Fresh
    <3>. QED  BY <1>6, <3>1, <3>2, <3>3, <3>4 DEF Unseen
  <2>. HIDE DEF U
  <2>. QED  BY <1>2, <1>4, <2>1, <2>2
<1>7. ASSUME NEW c \in Car, put_msg(c) PROVE U' <= Cardinality(Fresh(d)')
  <2>1. doing[c] = "send" /\ pos' = pos /\ doing'[c] = "clear"
        /\ \A x \in Car : x # c => doing'[x] = doing[x]
    BY <1>1, <1>7 DEF put_msg
  <2>2. U' = U + (IF ReportOf(c) = "in" /\ dir[c] \in {d} THEN 1 ELSE 0)
    BY <1>7, UnhandledStep
  <2>3. CASE pos[c] = SENSOR1_POS /\ dir[c] = d
    <3>1. Fresh(d)' = Fresh(d) \cup {c} /\ c \notin Fresh(d)
      BY <2>1, <2>3 DEF Fresh
    <3>2. Cardinality(Fresh(d)') = Cardinality(Fresh(d)) + 1
      BY <1>2, <3>1, FS_AddElement
    <3>. HIDE DEF U
    <3>. QED  BY <1>2, <2>2, <3>2
  <2>4. CASE ~(pos[c] = SENSOR1_POS /\ dir[c] = d)
    <3>1. Fresh(d)' = Fresh(d)
      BY <2>1, <2>4 DEF Fresh
    <3>2. U' = U
      <4>1. ~(ReportOf(c) = "in" /\ dir[c] \in {d})
        BY <2>4, Reports
      <4>. HIDE DEF U
      <4>. QED  BY <1>2, <2>2, <4>1
    <3>. HIDE DEF U
    <3>. QED  BY <1>2, <3>1, <3>2
  <2>. QED  BY <2>3, <2>4
<1>8. ASSUME get_msg, UNCHANGED <<pos, doing>> PROVE U' <= Cardinality(Fresh(d)')
  <2>1. U' = U /\ Fresh(d)' = Fresh(d)
    BY <1>8, UnhandledStep DEF Fresh
  <2>. HIDE DEF U
  <2>. QED  BY <1>2, <2>1
<1>9. ASSUME camino_control, UNCHANGED <<pos, doing>> PROVE U' <= Cardinality(Fresh(d)')
  <2>1. U' = U - (IF control.msg.kind = "in" /\ control.msg.dir \in {d} THEN 1 ELSE 0)
    BY <1>9, UnhandledStep
  <2>2. Fresh(d)' = Fresh(d)
    BY <1>9 DEF Fresh
  <2>. HIDE DEF U
  <2>. QED  BY <1>2, <2>1, <2>2
<1>10. ~camino1_control /\ \A c \in Car : ~Receive(c)
  BY DEF camino1_control, Receive
<1>. HIDE DEF U
<1>11. U' <= Cardinality(Fresh(d)')
  BY <1>5, <1>6, <1>7, <1>8, <1>9, <1>10, SeenCases
<1>. QED  BY <1>11 DEF U

\* While a car is inside the control counts it.
LEMMA InsideCounted ==
  ASSUME RoadTyped, NEW d \in Direction, NEW i \in Nat, NEW o \in Nat, NEW n \in Int,
         n = Cardinality(Between(SENSOR1_POS, SENSOR2_POS, {d})) - i + o,
         i <= Cardinality(Fresh(d)),
         NEW c \in Car, Inside(c), dir[c] = d
  PROVE  n > 0
<1>. DEFINE B == Between(SENSOR1_POS, SENSOR2_POS, {d})
            F == Fresh(d)
<1>1. pos[c] \in Nat /\ \A x \in Car : pos[x] \in Nat
  BY Places DEF RoadTyped
<1>2. IsFiniteSet(F) /\ Cardinality(F) \in Nat /\ Cardinality(B) \in Nat /\ B \in SUBSET Car
  BY CarsFinite DEF Between
<1>3. F \cup {c} \in SUBSET B /\ c \notin F
  BY <1>1, Places DEF Between, Fresh, Told, Inside, Astride
<1>4. Cardinality(F \cup {c}) = Cardinality(F) + 1
  BY <1>2, <1>3, FS_AddElement
<1>5. Cardinality(F \cup {c}) <= Cardinality(B)
  BY <1>2, <1>3, CarSets
<1>. QED  BY <1>2, <1>4, <1>5

\* A car under the barrier's cell is inside.
LEMMA UnderBarrier ==
  ASSUME RoadTyped, NEW c \in Car, BARRIER_POS \in Under(c)
  PROVE  Inside(c)
<1>1. pos[c] \in Nat
  BY Places DEF RoadTyped
<1>. QED  BY <1>1, Places DEF Under, Inside, Told

\* What a step of the control does to the road: a barrier moves where no car is, the turn
\* changes when no car is inside.
Turned ==
  /\ control'.state # control.state => \A c \in Car : ~Inside(c)
  /\ \A d \in Direction, p \in 0 .. ROAD_END : p # BARRIER_POS => road'[d][p] = road[d][p]
  /\ \A c \in Car : BARRIER_POS \in Under(c) =>
                      road'[dir[c]][BARRIER_POS] = road[dir[c]][BARRIER_POS]
  /\ BarrierByState'

\* In camino the turn changes when no car of the side that has it is on its way.
LEMMA CaminoTurns ==
  ASSUME RoadTyped, Mailbox, InsideByState, BarrierByState, camino_control, Counts', Prompt',
         program' = program
  PROVE  Turned
<1>1. /\ program = "camino" /\ UNCHANGED <<pos, doing, mail, events>>
  BY DEF camino_control
<1>2. /\ control' \in Control /\ control'.draining = control.draining
      /\ control'.state # control.state /\ control.state # "IDLE"
              => control'.cars[control.state] = 0
      /\ IF control'.state = control.state THEN road' = road
         ELSE MoveBarriers({control.state} \ {"IDLE"}, {control'.state} \ {"IDLE"})
  BY CaminoControl
<1>3. ~control.draining
  BY <1>1 DEF Mailbox
<1>4. CASE control'.state = control.state
  BY <1>2, <1>3, <1>4 DEF Turned, BarrierByState
<1>5. CASE control'.state # control.state
  <2>1. ASSUME NEW c \in Car, Inside(c) PROVE FALSE
    <3>. DEFINE d == dir[c]
    <3>1. control.state = d /\ d \in Direction /\ d # "IDLE"
      BY <2>1, Places, OtherSide DEF InsideByState
    <3>2. control'.cars[d] = 0
      BY <1>2, <1>5, <3>1
    <3>3. control'.cars[d] = Cardinality(Between(SENSOR1_POS, SENSOR2_POS, {d})')
                               - Unhandled("in", {d})' + Unhandled("out", {d})'
      BY <1>1, <3>1 DEF Counts, CountedTo
    <3>4. Between(SENSOR1_POS, SENSOR2_POS, {d})' = Between(SENSOR1_POS, SENSOR2_POS, {d})
          /\ Fresh(d)' = Fresh(d)
      BY <1>1 DEF Between, Told, Fresh
    <3>5. Unhandled("in", {d})' <= Cardinality(Fresh(d)')
      BY <3>1 DEF Prompt
    <3>6. Unhandled("in", {d})' \in Nat /\ Unhandled("out", {d})' \in Nat
      BY DEF Unhandled
    <3>. DEFINE i == Unhandled("in", {d})'
                o == Unhandled("out", {d})'
    <3>7. 0 = Cardinality(Between(SENSOR1_POS, SENSOR2_POS, {d})) - i + o
          /\ i <= Cardinality(Fresh(d)) /\ i \in Nat /\ o \in Nat /\ 0 \in Int
      BY <3>2, <3>3, <3>4, <3>5, <3>6
    <3>. HIDE DEF i, o
    <3>8. 0 > 0
      BY <2>1, <3>1, <3>7, InsideCounted
    <3>. QED  BY <3>8
  <2>2. \A d \in Direction, p \in 0 .. ROAD_END :
          road'[d][p] = IF p # BARRIER_POS THEN road[d][p]
                        ELSE IF d \in {control'.state} \ {"IDLE"} THEN "EMPTY"
                        ELSE IF d \in {control.state} \ {"IDLE"} THEN "BARRIER" ELSE road[d][p]
    BY <1>2, <1>5, Barriers
  <2>3. BARRIER_POS \in 0 .. ROAD_END
    BY Places
  <2>4. BarrierByState'
    BY <1>2, <1>3, <2>2, <2>3, OtherSide DEF BarrierByState
  <2>. QED  BY <2>1, <2>2, <2>4, UnderBarrier DEF Turned
<1>. QED  BY <1>4, <1>5

\* In camino1 the turn changes when no car is between the barrier and the second sensor.
LEMMA Camino1Turns ==
  ASSUME RoadTyped, Mailbox, Drawn, InsideByState, BarrierByState, camino1_control, Counts',
         program' = program
  PROVE  Turned
<1>. DEFINE k == camino1_count(control)
            n == camino1_state(k)
            closes == camino1_closes(k)
            opens == n.state \notin {k.state, "IDLE"}
            closed == IF closes THEN {k.state} ELSE {}
            opened == IF opens THEN {n.state} ELSE {}
<1>1. /\ program = "camino1" /\ UNCHANGED <<pos, doing, mail, events>>
      /\ closes => road[k.state][BARRIER_POS] = "EMPTY"
      /\ MoveBarriers(closed, opened)
  BY DEF camino1_control
<1>2. k \in Control /\ k.state = control.state /\ k.draining = control.draining
  BY CountRec DEF RoadTyped
<1>3. control'.state = n.state /\ control'.draining = n.draining /\ control'.msg = Nothing
      /\ control'.in_road = k.in_road
  BY Camino1Control
<1>4. k.draining => k.state # "IDLE"
  BY <1>2 DEF BarrierByState
<1>5. /\ n.state \in Direction \cup {"IDLE"} /\ n.draining \in BOOLEAN
      /\ closes => k.state # "IDLE" /\ ~k.draining
      /\ n.draining => n.state = k.state /\ n.state # "IDLE" /\ (closes \/ k.draining)
      /\ n.state # k.state /\ k.state # "IDLE" => (closes \/ k.draining) /\ ~(k.in_road > 0)
  BY <1>2, <1>4, NextTurn
<1>. HIDE DEF n, closes
<1>6. \A d \in Direction, p \in 0 .. ROAD_END :
        road'[d][p] = IF p # BARRIER_POS THEN road[d][p]
                      ELSE IF d \in opened THEN "EMPTY"
                      ELSE IF d \in closed THEN "BARRIER" ELSE road[d][p]
  <2>. HIDE DEF closed, opened
  <2>. QED  BY <1>1, Barriers
<1>7. BARRIER_POS \in 0 .. ROAD_END
  BY Places
<1>8. ASSUME n.state # k.state, NEW c \in Car, Inside(c) PROVE FALSE
  <2>1. k.state = dir[c] /\ dir[c] \in Direction /\ dir[c] # "IDLE"
    BY <1>2, <1>8, Places, OtherSide DEF InsideByState
  <2>2. closes \/ k.draining
    BY <1>5, <1>8, <2>1
  <2>3. ~(BARRIER_POS \in Under(c))
    <3>1. CASE closes
      BY <1>1, <2>1, <3>1 DEF Drawn
    <3>2. CASE k.draining
      BY <1>2, <2>1, <3>2 DEF Drawn, BarrierByState
    <3>. QED  BY <2>2, <3>1, <3>2
  <2>4. c \in Between(BARRIER_POS, SENSOR2_POS, Direction)
    <3>1. pos[c] \in Nat
      BY Places DEF RoadTyped
    <3>. QED  BY <1>7, <1>8, <2>1, <2>3, <3>1 DEF Inside, Between, Told, Under, Astride
  <2>. DEFINE B == Between(BARRIER_POS, SENSOR2_POS, Direction)
  <2>5. B' = B
    BY <1>1 DEF Between, Told
  <2>6. control'.in_road = Cardinality(B')
    <3>1. Unhandled("barrier", Direction)' = 0 /\ Unhandled("out", Direction)' = 0
      BY <1>1, <1>3, Places DEF Unhandled, Mailbox
    <3>2. Cardinality(B) \in Nat
      BY CarsFinite
    <3>. QED  BY <1>1, <2>5, <3>1, <3>2 DEF Counts, CountedTo
  <2>7. Cardinality(B) \in Nat /\ Cardinality(B) # 0
    <3>1. IsFiniteSet(B) /\ Cardinality(B) \in Nat
      BY CarsFinite
    <3>. QED  BY <2>4, <3>1, FS_EmptySet
  <2>. QED  BY <1>3, <1>5, <1>8, <2>1, <2>5, <2>6, <2>7
<1>9. ASSUME NEW c \in Car, BARRIER_POS \in Under(c)
      PROVE  road'[dir[c]][BARRIER_POS] = road[dir[c]][BARRIER_POS]
  <2>1. road[dir[c]][BARRIER_POS] = "CAR" /\ dir[c] \in Direction
    BY <1>9, Places DEF Drawn
  <2>2. control.state = dir[c]
    BY <2>1 DEF BarrierByState
  <2>3. ~closes
    BY <1>1, <1>2, <2>1, <2>2
  <2>. QED  BY <1>2, <1>6, <1>7, <2>1, <2>2, <2>3
<1>10. BarrierByState'
  <2>1. ASSUME NEW d \in Direction, road'[d][BARRIER_POS] # "BARRIER"
        PROVE  n.state = d /\ ~n.draining
    <3>1. CASE d \in opened
      BY <1>5, <3>1
    <3>2. CASE d \notin opened
      <4>1. d \notin closed /\ road'[d][BARRIER_POS] = road[d][BARRIER_POS]
        <5>. HIDE DEF opened, closed
        <5>. QED  BY <1>6, <1>7, <2>1, <3>2
      <4>2. control.state = d /\ ~control.draining
        BY <2>1, <4>1 DEF BarrierByState
      <4>3. ~closes
        BY <1>2, <4>1, <4>2
      <4>. QED  BY <1>2, <1>5, <4>2, <4>3, OtherSide
    <3>. QED  BY <3>1, <3>2
  <2>2. n.draining => n.state # "IDLE"
    BY <1>5
  <2>. QED  BY <1>3, <2>1, <2>2 DEF BarrierByState
<1>11. \A d \in Direction, p \in 0 .. ROAD_END : p # BARRIER_POS => road'[d][p] = road[d][p]
  BY <1>6
<1>. QED  BY <1>2, <1>3, <1>8, <1>9, <1>10, <1>11 DEF Turned

\* Where the cars are, after each step.
LEMMA RoadStep ==
  ASSUME RoadTyped, CarsPlaced, Drawn, Apart, RoadNext, program' = program,
         camino_control \/ camino1_control => Turned
  PROVE  Drawn' /\ Apart'
<1>1. /\ pos \in [Car -> 0 .. ROAD_END + 1] /\ doing \in [Car -> Doing]
      /\ road \in [Direction -> [0 .. ROAD_END -> {"EMPTY", "CAR", "BARRIER"}]]
      /\ \A c \in Car : pos[c] \in Nat /\ dir[c] \in Direction
      /\ ROAD_END \in Nat
  BY Places DEF RoadTyped
<1>2. ASSUME \A c \in Car : Under(c)' = Under(c),
             \A c \in Car, p \in 0 .. ROAD_END :
               p \in Under(c) => road'[dir[c]][p] = road[dir[c]][p]
      PROVE  Drawn' /\ Apart'
  <2>1. \A c \in Car : \A p \in Under(c) : p \in 0 .. ROAD_END
    BY DEF Under
  <2>. QED  BY <1>2, <2>1 DEF Drawn, Apart
<1>3. ASSUME UNCHANGED <<road, pos>>, \A c \in Car : Astride(c)' <=> Astride(c)
      PROVE  Drawn' /\ Apart'
  <2>1. \A c \in Car : Under(c)' = Under(c)
    BY <1>3 DEF Under
  <2>. QED  BY <1>2, <1>3, <2>1
<1>4. ASSUME NEW c \in Car, CarPauses(c) \/ put_msg(c) \/ Receive(c) \/ send_car(c)
      PROVE  Drawn' /\ Apart'
  <2>1. UNCHANGED <<road, pos>> /\ (Astride(c)' <=> Astride(c))
        /\ \A x \in Car : x # c => doing'[x] = doing[x]
    BY <1>1, <1>4 DEF CarPauses, put_msg, Receive, send_car, Astride
  <2>. QED  BY <1>3, <2>1 DEF Astride
<1>5. ASSUME NEW c \in Car, CarAdvances(c) PROVE Drawn' /\ Apart'
  <2>1. /\ pos' = pos /\ ~Astride(c) /\ Astride(c)' /\ pos[c] <= ROAD_END
        /\ road[dir[c]][pos[c]] = "EMPTY"
        /\ road' = [road EXCEPT ![dir[c]][pos[c]] = "CAR"]
        /\ \A x \in Car : x # c => doing'[x] = doing[x]
    BY <1>1, <1>5 DEF CarAdvances, MayAdvance, CellFree, Astride, set_road
  <2>2. Under(c)' = Under(c) \cup {pos[c]} /\ pos[c] \in 0 .. ROAD_END
    BY <1>1, <2>1 DEF Under
  <2>3. \A x \in Car : x # c => Under(x)' = Under(x)
    BY <2>1 DEF Under, Astride
  <2>4. \A x \in Car : dir[x] = dir[c] => pos[c] \notin Under(x)
    BY <2>1 DEF Drawn
  <2>5. /\ road'[dir[c]][pos[c]] = "CAR"
        /\ \A d \in Direction, p \in 0 .. ROAD_END :
             d # dir[c] \/ p # pos[c] => road'[d][p] = road[d][p]
    BY <1>1, <2>1, <2>2
  <2>6. Drawn'
    <3>. SUFFICES ASSUME NEW x \in Car, NEW p \in Under(x)' PROVE road'[dir[x]][p] = "CAR"
      BY DEF Drawn
    <3>1. p \in 0 .. ROAD_END /\ dir[x] \in Direction
      BY <1>1 DEF Under
    <3>2. p \in Under(x) \/ (x = c /\ p = pos[c])
      BY <2>2, <2>3
    <3>. QED  BY <2>5, <3>1, <3>2 DEF Drawn
  <2>7. Apart'
    BY <2>2, <2>3, <2>4 DEF Apart
  <2>. QED  BY <2>6, <2>7
<1>6. ASSUME NEW c \in Car, NEW old \in 0 .. ROAD_END, old \in Under(c),
             Under(c)' \subseteq Under(c) \ {old},
             \A x \in Car : x # c => Under(x)' = Under(x),
             road' = [road EXCEPT ![dir[c]][old] = "EMPTY"]
      PROVE  Drawn' /\ Apart'
  <2>1. \A d \in Direction, p \in 0 .. ROAD_END :
          d # dir[c] \/ p # old => road'[d][p] = road[d][p]
    BY <1>1, <1>6
  <2>2. Drawn'
    <3>. SUFFICES ASSUME NEW x \in Car, NEW p \in Under(x)' PROVE road'[dir[x]][p] = "CAR"
      BY DEF Drawn
    <3>1. p \in 0 .. ROAD_END /\ dir[x] \in Direction
      BY <1>1 DEF Under
    <3>2. p \in Under(x) /\ (dir[x] = dir[c] => p # old)
      BY <1>6 DEF Apart
    <3>. QED  BY <2>1, <3>1, <3>2 DEF Drawn
  <2>3. Apart'
    BY <1>6 DEF Apart
  <2>. QED  BY <2>2, <2>3
<1>7. ASSUME NEW c \in Car, CarClears(c) PROVE Drawn' /\ Apart'
  <2>1. /\ pos'[c] = pos[c] + 1 /\ Astride(c) /\ ~Astride(c)' /\ pos[c] <= ROAD_END
        /\ \A x \in Car : x # c => doing'[x] = doing[x] /\ pos'[x] = pos[x]
    BY <1>1, <1>7 DEF CarClears, CarsPlaced, Astride
  <2>2. \A x \in Car : x # c => Under(x)' = Under(x)
    BY <2>1 DEF Under, Astride
  <2>3. CASE pos[c] = 0
    <3>1. Under(c)' = Under(c) /\ road' = road
      BY <1>1, <1>7, <2>1, <2>3 DEF Under, CarClears
    <3>. QED  BY <1>2, <2>2, <3>1
  <2>4. CASE pos[c] # 0
    <3>1. pos[c] - 1 \in 0 .. ROAD_END /\ pos[c] - 1 \in Under(c)
      BY <1>1, <2>1, <2>4 DEF Under
    <3>2. Under(c)' \subseteq Under(c) \ {pos[c] - 1}
      BY <1>1, <2>1, <2>4 DEF Under
    <3>3. road' = [road EXCEPT ![dir[c]][pos[c] - 1] = "EMPTY"]
      BY <1>7, <2>4 DEF CarClears, set_road
    <3>. QED  BY <1>6, <2>2, <3>1, <3>2, <3>3
  <2>. QED  BY <2>3, <2>4
<1>8. ASSUME NEW c \in Car, CarLeaves(c) PROVE Drawn' /\ Apart'
  <2>1. /\ pos[c] = ROAD_END + 1 /\ pos'[c] = 0 /\ ~Astride(c)'
        /\ \A x \in Car : x # c => doing'[x] = doing[x] /\ pos'[x] = pos[x]
        /\ road' = [road EXCEPT ![dir[c]][ROAD_END] = "EMPTY"]
    BY <1>1, <1>8 DEF CarLeaves, Astride, set_road
  <2>2. \A x \in Car : x # c => Under(x)' = Under(x)
    BY <2>1 DEF Under, Astride
  <2>3. ROAD_END \in 0 .. ROAD_END /\ ROAD_END \in Under(c)
    BY <1>1, <2>1 DEF Under
  <2>4. Under(c)' = {}
    BY <2>1 DEF Under
  <2>. QED  BY <1>6, <2>1, <2>2, <2>3, <2>4
<1>9. CASE Tick
  <2>1. UNCHANGED <<road, pos>>
        /\ \A x \in Car : \/ doing'[x] = doing[x]
                          \/ doing[x] \in {"pause", "delay"} /\ doing'[x] \in {"take", "test"}
    BY <1>9 DEF Tick
  <2>. QED  BY <1>3, <2>1 DEF Astride
<1>10. CASE get_msg \/ mgetch \/ \E t : new_kbd(t)
  <2>1. UNCHANGED <<road, pos, doing>>
    BY <1>10 DEF get_msg, mgetch, new_kbd
  <2>. QED  BY <1>3, <2>1 DEF Astride
<1>11. CASE camino_control \/ camino1_control
  <2>1. UNCHANGED <<pos, doing>> /\ Turned
    BY <1>11 DEF camino_control, camino1_control
  <2>2. \A c \in Car : Under(c)' = Under(c)
    BY <2>1 DEF Under, Astride
  <2>3. \A c \in Car, p \in 0 .. ROAD_END :
          p \in Under(c) => road'[dir[c]][p] = road[dir[c]][p]
    BY <1>1, <2>1 DEF Turned
  <2>. QED  BY <1>2, <2>2, <2>3
<1>. QED
  BY <1>4, <1>5, <1>7, <1>8, <1>9, <1>10, <1>11
  DEF RoadNext, CarStep, ControlStep, MainStep

\* The turn and the cars inside agree after each step.
LEMMA TurnStep ==
  ASSUME RoadTyped, CarsPlaced, Drawn, InsideByState, BarrierByState, RoadNext,
         program' = program, camino_control \/ camino1_control => Turned
  PROVE  InsideByState' /\ BarrierByState'
<1>1. /\ pos \in [Car -> 0 .. ROAD_END + 1] /\ doing \in [Car -> Doing] /\ control \in Control
      /\ road \in [Direction -> [0 .. ROAD_END -> {"EMPTY", "CAR", "BARRIER"}]]
      /\ \A c \in Car : pos[c] \in Nat /\ dir[c] \in Direction
      /\ BARRIER_POS \in 0 .. ROAD_END
  BY Places DEF RoadTyped
<1>2. ASSUME control'.state = control.state, control'.draining = control.draining,
             \A c \in Car : Inside(c)' => Inside(c)
      PROVE  InsideByState'
  BY <1>2 DEF InsideByState
<1>3. ASSUME control'.state = control.state, control'.draining = control.draining,
             \A d \in Direction : \/ road'[d][BARRIER_POS] = road[d][BARRIER_POS]
                                  \/ control.state = d /\ ~control.draining
      PROVE  BarrierByState'
  BY <1>3 DEF BarrierByState
<1>4. ASSUME NEW c \in Car, CarPauses(c) PROVE InsideByState' /\ BarrierByState'
  <2>1. UNCHANGED <<road, pos, control>> /\ doing' = [doing EXCEPT ![c] = "pause"]
        /\ doing[c] = "test"
    BY <1>4 DEF CarPauses
  <2>2. \A x \in Car : Inside(x)' => Inside(x)
    BY <1>1, <2>1 DEF Inside, Told, Astride
  <2>. QED  BY <1>2, <1>3, <2>1, <2>2
<1>5. ASSUME NEW c \in Car, CarAdvances(c) PROVE InsideByState' /\ BarrierByState'
  <2>1. /\ pos' = pos /\ pos[c] \in 0 .. ROAD_END /\ control' = control
        /\ road[dir[c]][pos[c]] = "EMPTY"
        /\ road' = [road EXCEPT ![dir[c]][pos[c]] = "CAR"]
        /\ \A x \in Car : x # c => doing'[x] = doing[x]
    BY <1>1, <1>5 DEF CarAdvances, MayAdvance, CellFree, set_road
  <2>2. doing[c] # "clear"
    BY <1>5 DEF CarAdvances, MayAdvance
  <2>3. \A x \in Car : x # c => (Inside(x)' <=> Inside(x))
    BY <2>1 DEF Inside, Told, Astride
  <2>4. Inside(c)' => pos[c] = BARRIER_POS \/ Inside(c)
    BY <1>1, <2>1, <2>2 DEF Inside, Told
  <2>5. pos[c] = BARRIER_POS => control.state = dir[c] /\ ~control.draining
    BY <1>1, <2>1 DEF BarrierByState
  <2>6. InsideByState'
    BY <2>1, <2>3, <2>4, <2>5 DEF InsideByState
  <2>7. \A d \in Direction : \/ road'[d][BARRIER_POS] = road[d][BARRIER_POS]
                             \/ control.state = d /\ ~control.draining
    BY <1>1, <2>1, <2>5
  <2>. QED  BY <1>3, <2>1, <2>6, <2>7
<1>6. ASSUME NEW c \in Car, doing[c] = "send", doing' = [doing EXCEPT ![c] = "clear"],
             UNCHANGED <<road, pos>>, control'.state = control.state,
             control'.draining = control.draining
      PROVE  InsideByState' /\ BarrierByState'
  <2>1. \A x \in Car : Inside(x)' => Inside(x)
    BY <1>1, <1>6 DEF Inside, Told, Astride
  <2>. QED  BY <1>2, <1>3, <1>6, <2>1
<1>7. ASSUME NEW c \in Car, CarClears(c) PROVE InsideByState' /\ BarrierByState'
  <2>1. /\ pos'[c] = pos[c] + 1 /\ doing[c] = "clear" /\ doing'[c] = "delay"
        /\ control' = control
        /\ \A x \in Car : x # c => doing'[x] = doing[x] /\ pos'[x] = pos[x]
    BY <1>1, <1>7 DEF CarClears
  <2>2. \A x \in Car : Inside(x)' => Inside(x)
    BY <1>1, <2>1, Places DEF Inside, Told, Astride
  <2>3. CASE pos[c] = 0
    BY <1>2, <1>3, <1>7, <2>1, <2>2, <2>3 DEF CarClears
  <2>4. CASE pos[c] # 0
    <3>1. road' = [road EXCEPT ![dir[c]][pos[c] - 1] = "EMPTY"] /\ pos[c] - 1 \in 0 .. ROAD_END
      BY <1>1, <1>7, <2>4, Places DEF CarClears, set_road
    <3>2. pos[c] - 1 = BARRIER_POS => BARRIER_POS \in Under(c)
      BY <1>1 DEF Under
    <3>3. pos[c] - 1 = BARRIER_POS => control.state = dir[c] /\ ~control.draining
      BY <1>1, <3>2 DEF Drawn, BarrierByState
    <3>4. \A d \in Direction : \/ road'[d][BARRIER_POS] = road[d][BARRIER_POS]
                               \/ control.state = d /\ ~control.draining
      BY <1>1, <3>1, <3>3
    <3>. QED  BY <1>2, <1>3, <2>1, <2>2, <3>4
  <2>. QED  BY <2>3, <2>4
<1>8. ASSUME NEW c \in Car, CarLeaves(c) PROVE InsideByState' /\ BarrierByState'
  <2>1. /\ pos'[c] = 0 /\ control' = control
        /\ \A x \in Car : x # c => doing'[x] = doing[x] /\ pos'[x] = pos[x]
        /\ road' = [road EXCEPT ![dir[c]][ROAD_END] = "EMPTY"]
    BY <1>1, <1>8 DEF CarLeaves, set_road
  <2>2. \A x \in Car : Inside(x)' => Inside(x)
    BY <1>1, <2>1, Places DEF Inside, Told, Astride
  <2>3. \A d \in Direction : road'[d][BARRIER_POS] = road[d][BARRIER_POS]
    BY <1>1, <2>1, Places
  <2>. QED  BY <1>2, <1>3, <2>1, <2>2, <2>3
<1>9. ASSUME NEW c \in Car, send_car(c) PROVE InsideByState' /\ BarrierByState'
  <2>1. UNCHANGED <<road, pos, control>> /\ doing[c] = "garage"
        /\ doing' = [doing EXCEPT ![c] = "test"]
    BY <1>9 DEF send_car
  <2>2. \A x \in Car : Inside(x)' => Inside(x)
    BY <1>1, <2>1 DEF Inside, Told, Astride
  <2>. QED  BY <1>2, <1>3, <2>1, <2>2
<1>10. CASE Tick
  <2>1. UNCHANGED <<road, pos, control>>
        /\ \A x \in Car : \/ doing'[x] = doing[x]
                          \/ doing[x] \in {"pause", "delay"} /\ doing'[x] \in {"take", "test"}
    BY <1>10 DEF Tick
  <2>2. \A x \in Car : Inside(x)' => Inside(x)
    BY <2>1 DEF Inside, Told, Astride
  <2>. QED  BY <1>2, <1>3, <2>1, <2>2
<1>11. ASSUME UNCHANGED <<road, pos, doing>>, control'.state = control.state,
             control'.draining = control.draining
      PROVE  InsideByState' /\ BarrierByState'
  <2>1. \A x \in Car : Inside(x)' => Inside(x)
    BY <1>11 DEF Inside, Told, Astride
  <2>. QED  BY <1>2, <1>3, <1>11, <2>1
<1>12. CASE mgetch \/ \E t : new_kbd(t)
  <2>1. UNCHANGED <<road, pos, doing, control>>
    BY <1>12 DEF mgetch, new_kbd
  <2>. QED  BY <1>11, <2>1
<1>13. CASE camino_control \/ camino1_control
  <2>1. Turned /\ UNCHANGED <<pos, doing>>
    BY <1>13 DEF camino_control, camino1_control
  <2>2. InsideByState'
    BY <2>1 DEF Turned, InsideByState, Inside, Told, Astride
  <2>. QED  BY <2>1, <2>2 DEF Turned
<1>14. CASE MainStep
  BY <1>9, <1>12, <1>14 DEF MainStep
<1>15. ASSUME NEW c \in Car, CarStep(c), ~put_msg(c) PROVE InsideByState' /\ BarrierByState'
  BY <1>4, <1>5, <1>7, <1>8, <1>15 DEF CarStep
<1>16. ASSUME NEW c \in Car, put_msg(c) \/ Receive(c) PROVE InsideByState' /\ BarrierByState'
  <2>1. doing[c] = "send" /\ doing' = [doing EXCEPT ![c] = "clear"] /\ UNCHANGED <<road, pos>>
        /\ control'.state = control.state /\ control'.draining = control.draining
    BY <1>1, <1>16 DEF put_msg, Receive, Control
  <2>. QED  BY <1>6, <2>1
<1>17. CASE get_msg
  <2>1. UNCHANGED <<road, pos, doing>> /\ control'.state = control.state
        /\ control'.draining = control.draining
    BY <1>1, <1>17 DEF get_msg, Control
  <2>. QED  BY <1>11, <2>1
<1>. QED
  BY <1>10, <1>13, <1>14, <1>15, <1>16, <1>17 DEF RoadNext, ControlStep

\* No car is deep in the stretch while one of the other side has not left it.
LEMMA LastOutStep ==
  ASSUME RoadTyped, CarsPlaced, InsideByState, LastOut, RoadNext, program' = program
  PROVE  LastOut'
<1>. DEFINE Last(c) == pos[c] = SENSOR2_POS /\ doing[c] = "clear"
<1>1. /\ pos \in [Car -> 0 .. ROAD_END + 1] /\ doing \in [Car -> Doing]
      /\ \A c \in Car : pos[c] \in Nat
  BY Places DEF RoadTyped
<1>2. ASSUME \A c \in Car : (Last(c)' => Last(c)) /\ (Deep(c)' => Deep(c)) PROVE LastOut'
  BY <1>2 DEF LastOut
<1>3. CASE Tick
  <2>1. pos' = pos /\ \A c \in Car : doing'[c] = "clear" => doing[c] = "clear"
    BY <1>3 DEF Tick
  <2>2. \A c \in Car : doing[c] # "clear"
    BY <1>3 DEF Tick, Quiet
  <2>. QED  BY <2>1, <2>2 DEF LastOut
<1>4. ASSUME NEW c \in Car, put_msg(c) \/ Receive(c) PROVE LastOut'
  <2>1. pos' = pos /\ doing[c] = "send" /\ doing'[c] = "clear"
        /\ \A x \in Car : x # c => doing'[x] = doing[x]
    BY <1>1, <1>4 DEF put_msg, Receive
  <2>2. \A x \in Car : (Deep(x)' <=> Deep(x)) /\ (x # c => (Last(x)' <=> Last(x)))
    BY <2>1 DEF Deep
  <2>3. ASSUME pos[c] = SENSOR2_POS, NEW y \in Car, Deep(y) PROVE dir[c] = dir[y]
    <3>1. Deep(c) /\ Inside(c)
      BY <1>1, <2>1, <2>3, Places DEF Deep, Inside, Told
    <3>2. CASE Last(y)
      BY <3>1, <3>2 DEF LastOut
    <3>3. CASE ~Last(y)
      <4>1. Inside(y)
        BY <1>1, <2>3, <3>3, Places DEF Deep, Inside, Told
      <4>. QED  BY <3>1, <4>1 DEF InsideByState
    <3>. QED  BY <3>2, <3>3
  <2>4. LastOut'
    <3>. SUFFICES ASSUME NEW x \in Car, NEW y \in Car, Last(x)', Deep(y)' PROVE dir[x] = dir[y]
      BY DEF LastOut
    <3>1. CASE x = c
      BY <2>1, <2>2, <2>3, <3>1
    <3>2. CASE x # c
      BY <2>2, <3>2 DEF LastOut
    <3>. QED  BY <3>1, <3>2
  <2>. QED  BY <2>4
<1>5. ASSUME NEW c \in Car, CarAdvances(c) PROVE LastOut'
  <2>1. pos' = pos /\ doing[c] \in {"test", "take"}
        /\ doing' = [doing EXCEPT ![c] = IF ReportOf(c) = "none" THEN "clear" ELSE "send"]
    BY <1>5 DEF CarAdvances, MayAdvance
  <2>2. pos[c] = SENSOR2_POS => doing'[c] = "send"
    BY <1>1, <2>1, Reports
  <2>3. \A x \in Car : x # c => doing'[x] = doing[x]
    BY <1>1, <2>1
  <2>4. \A x \in Car : (Last(x)' => Last(x)) /\ (Deep(x)' => Deep(x))
    BY <2>1, <2>2, <2>3 DEF Deep
  <2>. HIDE DEF Last
  <2>. QED  BY <1>2, <2>4
<1>6. ASSUME NEW c \in Car, CarPauses(c) \/ CarClears(c) \/ CarLeaves(c) \/ send_car(c)
      PROVE  LastOut'
  <2>1. \A x \in Car : x # c => doing'[x] = doing[x] /\ pos'[x] = pos[x]
    BY <1>1, <1>6 DEF CarPauses, CarClears, CarLeaves, send_car
  <2>2. \/ pos'[c] = pos[c] /\ doing[c] = "test" /\ doing'[c] = "pause"
        \/ pos'[c] = pos[c] + 1 /\ doing[c] = "clear" /\ doing'[c] = "delay"
        \/ pos'[c] = 0
        \/ pos'[c] = pos[c] /\ doing[c] = "garage" /\ doing'[c] = "test"
    BY <1>1, <1>6 DEF CarPauses, CarClears, CarLeaves, send_car
  <2>3. \A x \in Car : (Last(x)' => Last(x)) /\ (Deep(x)' => Deep(x))
    BY <1>1, <2>1, <2>2, Places DEF Deep
  <2>. HIDE DEF Last
  <2>. QED  BY <1>2, <2>3
<1>7. CASE UNCHANGED <<pos, doing>>
  BY <1>7 DEF LastOut, Deep
<1>8. ASSUME get_msg \/ camino_control \/ camino1_control \/ mgetch \/ \E t : new_kbd(t)
      PROVE  UNCHANGED <<pos, doing>>
  BY <1>8 DEF get_msg, camino_control, camino1_control, mgetch, new_kbd
<1>. HIDE DEF Last
<1>. QED
  BY <1>3, <1>4, <1>5, <1>6, <1>7, <1>8 DEF RoadNext, CarStep, ControlStep, MainStep

\* The stretch is used in one direction.
LEMMA OneWay ==
  ASSUME RoadTyped, InsideByState, LastOut
  PROVE  OneDirection
<1>. SUFFICES ASSUME NEW c \in Car, NEW d \in Car, OnOneway(c), OnOneway(d) PROVE dir[c] = dir[d]
  BY DEF OneDirection
<1>1. ASSUME NEW x \in Car, OnOneway(x)
      PROVE  /\ Deep(x)
             /\ Inside(x) \/ (pos[x] = SENSOR2_POS /\ doing[x] = "clear")
  <2>1. pos[x] \in Nat
    BY Places DEF RoadTyped
  <2>2. PICK p \in ONEWAY_START .. ONEWAY_END :
                 \/ pos[x] = p /\ doing[x] \in {"send", "clear"}
                 \/ pos[x] = p + 1 /\ doing[x] \notin {"garage", "send"}
    BY <1>1 DEF OnOneway
  <2>3. p \in Nat /\ ONEWAY_START <= p /\ p <= ONEWAY_END
    BY <2>2, Places
  <2>. QED  BY <2>1, <2>2, <2>3, Places DEF Deep, Inside, Told
<1>. QED  BY <1>1 DEF InsideByState, LastOut

\* A car at the barrier is behind it, is not alone there, and is counted.
LEMMA WaitsBehind ==
  ASSUME RoadTyped, NEW c \in Car
  PROVE  /\ pos[c] = BARRIER_POS => BARRIER_POS - 1 \in Under(c)
         /\ pos[c] = BARRIER_POS /\ Astride(c) => BARRIER_POS \in Under(c)
         /\ AtBarrier(c) => ~Astride(c) /\ Cardinality(Between(SENSOR1_POS, BARRIER_POS, {dir[c]})) > 0
<1>1. pos[c] \in Nat
  BY Places DEF RoadTyped
<1>2. ASSUME AtBarrier(c) PROVE Cardinality(Between(SENSOR1_POS, BARRIER_POS, {dir[c]})) > 0
  <2>. DEFINE B == Between(SENSOR1_POS, BARRIER_POS, {dir[c]})
  <2>1. c \in B
    BY <1>1, <1>2, Places DEF AtBarrier, Between, Told
  <2>2. IsFiniteSet(B) /\ Cardinality(B) \in Nat
    BY CarsFinite
  <2>3. Cardinality(B) # 0
    BY <2>1, <2>2, FS_EmptySet
  <2>. QED  BY <2>2, <2>3
<1>. QED  BY <1>1, <1>2, Places DEF Under, AtBarrier, Astride

\* When no message is pending, the control knows of the cars at the barriers.
LEMMA WaitsKnown ==
  ASSUME RoadTyped, Mailbox, Counts, program = "camino1", control.msg = Nothing,
         NEW c \in Car, AtBarrier(c)
  PROVE  control.cars[dir[c]] > 0
<1>1. dir[c] \in Direction
  BY Places
<1>2. Unhandled("in", {dir[c]}) = 0 /\ Unhandled("barrier", {dir[c]}) = 0
  BY Places DEF Unhandled, Mailbox
<1>3. Cardinality(Between(SENSOR1_POS, BARRIER_POS, {dir[c]})) \in Nat
  BY CarsFinite
<1>. QED  BY <1>1, <1>2, <1>3, WaitsBehind DEF Counts, CountedTo

\* A car that was not overtaken.
LEMMA NotOvertaken ==
  ASSUME RoadTyped, NEW c \in Car, overtaken[c] = 0
  PROVE  Overtaken(c)
<1>1. pass_max \in Nat /\ control.passed \in 0 .. pass_max
  BY Places DEF RoadTyped, Control
<1>2. Passed \in Nat
  BY <1>1 DEF Passed
<1>. QED  BY <1>1, <1>2 DEF Overtaken

\* The steps that the control does not see keep the order at the barriers.
LEMMA TurnsUnseen ==
  ASSUME RoadTyped, RoadTyped', CarsPlaced, Turns, UNCHANGED <<control, overtaken>>,
         \/ \E c \in Car : CarPauses(c) \/ CarClears(c) \/ CarLeaves(c) \/ send_car(c)
         \/ Tick
         \/ UNCHANGED <<pos, doing>>
  PROVE  Turns'
<1>1. /\ pos \in [Car -> 0 .. ROAD_END + 1] /\ doing \in [Car -> Doing]
      /\ \A c \in Car : pos[c] \in Nat
  BY Places DEF RoadTyped
<1>2. Passed' = Passed
  BY DEF Passed
<1>. DEFINE Sends(c) == pos[c] = BARRIER_POS /\ doing[c] = "send"
            Same(c) == /\ Astride(c)' => Astride(c)
                       /\ AtBarrier(c)' => AtBarrier(c) \/ Astride(c)
                       /\ Sends(c)' <=> Sends(c)
<1>3. \A c \in Car : Same(c)
  <2>1. ASSUME NEW c \in Car, CarPauses(c) \/ CarClears(c) \/ CarLeaves(c) \/ send_car(c)
        PROVE  \A x \in Car : Same(x)
    <3>1. \A x \in Car : x # c => doing'[x] = doing[x] /\ pos'[x] = pos[x]
      BY <1>1, <2>1 DEF CarPauses, CarClears, CarLeaves, send_car
    <3>2. \/ pos'[c] = pos[c] /\ doing[c] = "test" /\ doing'[c] = "pause"
          \/ pos'[c] = pos[c] + 1 /\ doing[c] = "clear" /\ doing'[c] = "delay"
          \/ pos'[c] = 0 /\ doing[c] = "test" /\ doing'[c] = "garage"
          \/ pos'[c] = pos[c] /\ doing[c] = "garage" /\ doing'[c] = "test"
      BY <1>1, <2>1 DEF CarPauses, CarClears, CarLeaves, send_car
    <3>3. doing[c] = "garage" => pos[c] = 0
      BY DEF CarsPlaced
    <3>. QED  BY <3>1, <3>2, <3>3, Places DEF Astride, AtBarrier
  <2>2. CASE Tick
    <3>1. pos' = pos
          /\ \A x \in Car : \/ doing'[x] = doing[x]
                            \/ doing[x] \in {"pause", "delay"} /\ doing'[x] \in {"take", "test"}
      BY <2>2 DEF Tick
    <3>. QED  BY <3>1 DEF Astride, AtBarrier
  <2>3. CASE UNCHANGED <<pos, doing>>
    BY <2>3 DEF Astride, AtBarrier
  <2>. QED  BY <2>1, <2>2, <2>3
<1>4. \A d \in Direction \cup {"IDLE"} : Unnoticed(d)' <=> Unnoticed(d)
  BY <1>3 DEF Unnoticed
<1>5. TurnBounded'
  BY DEF TurnBounded, Turns
<1>6. ASSUME NEW c \in Car, Astride(c)' PROVE overtaken'[c] = 0
  BY <1>3, <1>6 DEF Turns
<1>7. ASSUME NEW c \in Car, AtBarrier(c)' PROVE Overtaken(c)'
  <2>1. CASE AtBarrier(c)
    <3>1. control.state \in Direction \cup {"IDLE"} /\ dir[c] \in Direction
      BY Places DEF RoadTyped, Control
    <3>. QED  BY <1>2, <1>4, <2>1, <3>1 DEF Overtaken, Turns
  <2>2. CASE Astride(c)
    <3>1. overtaken[c] = 0
      BY <2>2 DEF Turns
    <3>2. control.passed \in 0 .. pass_max /\ pass_max \in Nat
      BY Places DEF RoadTyped, Control
    <3>3. Passed' \in Nat
      BY <3>2 DEF Passed
    <3>4. overtaken'[c] = 0
      BY <3>1
    <3>5. 0 <= Passed' + (IF Unnoticed(control.state)' THEN 1 ELSE 0)
      <4>1. \A n \in Nat : 0 <= n + 1 /\ 0 <= n + 0
        OBVIOUS
      <4>2. 0 <= Passed' + 1 /\ 0 <= Passed' + 0
        BY <3>3, <4>1
      <4>. QED  BY <4>2, Zenon
    <3>. QED  BY <3>2, <3>4, <3>5 DEF Overtaken
  <2>. QED  BY <1>3, <1>7, <2>1, <2>2
<1>. QED  BY <1>5, <1>6, <1>7 DEF Turns

\* A car that passes the barrier overtakes those that wait on the other side.
LEMMA TurnsAdvance ==
  ASSUME RoadTyped, Drawn, Apart, BarrierByState, Turns, NEW e \in Car, CarAdvances(e),
         program = "camino1"
  PROVE  Turns'
<1>1. /\ pos \in [Car -> 0 .. ROAD_END + 1] /\ doing \in [Car -> Doing]
      /\ overtaken \in [Car -> Nat] /\ pass_max \in Nat /\ control.passed \in 0 .. pass_max
      /\ \A c \in Car : pos[c] \in Nat /\ dir[c] \in Direction
  BY Places DEF RoadTyped, Control
<1>2. /\ UNCHANGED <<pos, control>> /\ ~Astride(e) /\ Astride(e)' /\ CellFree(e, pos[e])
      /\ \A x \in Car : x # e => doing'[x] = doing[x]
      /\ pos[e] = BARRIER_POS => doing'[e] = "send"
  <2>1. pos[e] = BARRIER_POS => ReportOf(e) # "none"
    BY Reports
  <2>. QED  BY <1>1, <2>1 DEF CarAdvances, MayAdvance, Astride
<1>3. \A x \in Car :
        overtaken'[x] = IF x = e THEN 0
                        ELSE IF pos[e] = BARRIER_POS /\ dir[x] # dir[e] /\ AtBarrier(x)
                             THEN IF overtaken[x] > pass_max + 1 THEN overtaken[x] ELSE overtaken[x] + 1
                             ELSE overtaken[x]
  BY DEF CarAdvances
<1>4. Passed' = Passed /\ Passed \in 0 .. pass_max
  BY <1>1, <1>2 DEF Passed
<1>5. TurnBounded'
  BY <1>2 DEF Turns, TurnBounded
<1>6. \A x \in Car : AtBarrier(x)' => AtBarrier(x) /\ x # e
  BY <1>2 DEF AtBarrier, Astride
<1>7. \A x \in Car : Astride(x)' => x = e \/ (Astride(x) /\ ~AtBarrier(x))
  BY <1>2 DEF AtBarrier, Astride
<1>8. ASSUME NEW x \in Car, Astride(x)' PROVE overtaken'[x] = 0
  BY <1>3, <1>7, <1>8 DEF Turns
<1>9. ASSUME NEW x \in Car, AtBarrier(x)' PROVE Overtaken(x)'
  <2>1. AtBarrier(x) /\ x # e /\ Overtaken(x) /\ overtaken[x] \in Nat
    BY <1>1, <1>6, <1>9 DEF Turns
  <2>2. CASE pos[e] # BARRIER_POS
    <3>1. \A d : Unnoticed(d)' <=> Unnoticed(d)
      BY <1>2, <2>2 DEF Unnoticed
    <3>2. overtaken'[x] = overtaken[x]
      BY <1>3, <2>1, <2>2
    <3>. QED  BY <1>2, <1>4, <2>1, <3>1, <3>2 DEF Overtaken
  <2>3. CASE pos[e] = BARRIER_POS
    <3>1. BARRIER_POS \in 0 .. ROAD_END /\ road[dir[e]][BARRIER_POS] = "EMPTY"
      BY <1>2, <2>3, Places DEF CellFree
    <3>2. control.state = dir[e] /\ ~control.draining
      BY <1>1, <3>1 DEF BarrierByState
    <3>3. dir[x] # dir[e]
      <4>1. BARRIER_POS - 1 \in Under(x) /\ BARRIER_POS - 1 \in Under(e)
        BY <2>1, <2>3, WaitsBehind DEF AtBarrier
      <4>. QED  BY <2>1, <4>1 DEF Apart
    <3>4. dir[e] = Other(dir[x])
      BY <1>1, <3>3, OtherSide
    <3>5. ~Unnoticed(dir[e])
      <4>1. ASSUME NEW y \in Car, dir[y] = dir[e], pos[y] = BARRIER_POS, doing[y] = "send"
            PROVE  FALSE
        <5>1. BARRIER_POS \in Under(y)
          BY <4>1, WaitsBehind DEF Astride
        <5>. QED  BY <3>1, <4>1, <5>1 DEF Drawn
      <4>. QED  BY <4>1 DEF Unnoticed
    <3>6. Unnoticed(dir[e])'
      BY <1>2, <2>3 DEF Unnoticed
    <3>7. overtaken[x] <= Passed
      BY <1>4, <2>1, <3>2, <3>4, <3>5 DEF Overtaken
    <3>8. overtaken'[x] = overtaken[x] + 1
      BY <1>1, <1>3, <1>4, <2>1, <2>3, <3>3, <3>7
    <3>9. overtaken'[x] <= Passed' + 1 /\ overtaken'[x] <= pass_max + 1
      BY <1>1, <1>4, <2>1, <3>7, <3>8
    <3>10. control'.state = dir[e] /\ control'.state = Other(dir[x])
      BY <1>2, <3>2, <3>4
    <3>11. overtaken'[x] <= Passed' + (IF Unnoticed(control.state)' THEN 1 ELSE 0)
      <4>1. Unnoticed(control.state)'
        BY <3>6, <3>10 DEF Unnoticed
      <4>. QED  BY <3>9, <4>1
    <3>. QED  BY <3>9, <3>10, <3>11 DEF Overtaken
  <2>. QED  BY <2>2, <2>3
<1>. QED  BY <1>5, <1>8, <1>9 DEF Turns

\* The control hears of a car that passes the barrier.
LEMMA TurnsReceive ==
  ASSUME RoadTyped, Mailbox, Counts, Apart, InsideByState, Turns, NEW e \in Car, Receive(e)
  PROVE  Turns'
<1>1. /\ pos \in [Car -> 0 .. ROAD_END + 1] /\ doing \in [Car -> Doing] /\ control \in Control
      /\ overtaken \in [Car -> Nat] /\ pass_max \in Nat /\ control.passed \in 0 .. pass_max
      /\ \A c \in Car : pos[c] \in Nat /\ dir[c] \in Direction
  BY Places DEF RoadTyped, Control
<1>2. /\ UNCHANGED <<pos, overtaken>> /\ program = "camino1" /\ control.msg = Nothing
      /\ doing[e] = "send" /\ doing'[e] = "clear"
      /\ \A x \in Car : x # e => doing'[x] = doing[x]
  BY <1>1 DEF Receive
<1>3. /\ control'.state = control.state /\ control'.draining = control.draining
      /\ control'.cars = control.cars /\ control'.passed = control.passed
      /\ control'.msg = Report(e, ReportOf(e))
  BY <1>1 DEF Receive, Control
<1>4. control'.msg.kind = "barrier" <=> pos[e] = BARRIER_POS
  BY <1>2, <1>3, Reports
<1>5. Passed = control.passed
  BY <1>2, Places DEF Passed
<1>6. TurnBounded'
  BY <1>3 DEF Turns, TurnBounded
<1>7. \A x \in Car : (AtBarrier(x)' => AtBarrier(x) /\ x # e) /\ (Astride(x)' => Astride(x))
  BY <1>2 DEF AtBarrier, Astride
<1>8. ASSUME NEW x \in Car, Astride(x)' PROVE overtaken'[x] = 0
  BY <1>2, <1>7, <1>8 DEF Turns
<1>9. ASSUME NEW x \in Car, AtBarrier(x)' PROVE Overtaken(x)'
  <2>1. AtBarrier(x) /\ x # e /\ Overtaken(x) /\ overtaken[x] \in Nat
    BY <1>1, <1>7, <1>9 DEF Turns
  <2>2. CASE pos[e] # BARRIER_POS
    <3>1. \A d : Unnoticed(d)' <=> Unnoticed(d)
      BY <1>2, <2>2 DEF Unnoticed
    <3>2. Passed' = Passed
      BY <1>3, <1>4, <1>5, <2>2 DEF Passed
    <3>. QED  BY <1>2, <1>3, <2>1, <3>1, <3>2 DEF Overtaken
  <2>3. CASE pos[e] = BARRIER_POS
    <3>1. control.state = dir[e]
      <4>1. Inside(e)
        BY <1>2, <2>3, Places DEF Inside, Told, Astride
      <4>. QED  BY <4>1 DEF InsideByState
    <3>2. dir[x] # dir[e]
      <4>1. BARRIER_POS - 1 \in Under(x) /\ BARRIER_POS - 1 \in Under(e)
        BY <2>1, <2>3, WaitsBehind DEF AtBarrier
      <4>. QED  BY <2>1, <4>1 DEF Apart
    <3>3. dir[e] = Other(dir[x]) /\ dir[x] = Other(dir[e]) /\ dir[e] # "IDLE"
      BY <1>1, <3>2, OtherSide
    <3>4. ~control.draining => control.passed < pass_max
      <4>1. control.cars[dir[x]] > 0
        BY <1>2, <2>1, WaitsKnown
      <4>. QED  BY <3>1, <3>3, <4>1 DEF Turns, TurnBounded
    <3>5. ~control.draining => Passed' = Passed + 1
      BY <1>3, <1>4, <1>5, <2>3, <3>4 DEF Passed
    <3>6. ~control.draining => overtaken[x] <= Passed + 1
      BY <1>1, <1>5, <2>1, <3>1, <3>3 DEF Overtaken
    <3>7. ~control'.draining =>
            overtaken'[x] <= Passed' + (IF Unnoticed(control.state)' THEN 1 ELSE 0)
      BY <1>1, <1>2, <1>3, <1>5, <2>1, <3>5, <3>6
    <3>8. overtaken'[x] <= pass_max + 1
      BY <1>2, <2>1 DEF Overtaken
    <3>. QED  BY <1>3, <3>1, <3>3, <3>7, <3>8 DEF Overtaken
  <2>. QED  BY <2>2, <2>3
<1>. QED  BY <1>6, <1>8, <1>9 DEF Turns

\* The control gives the turn to the side that has waited for pass_max cars.
LEMMA TurnsControl ==
  ASSUME RoadTyped, Mailbox, InsideByState, BarrierByState, Turns, camino1_control, Counts',
         program' = program, pass_max > 0
  PROVE  Turns'
<1>. DEFINE k == camino1_count(control)
            n == camino1_state(k)
            closes == camino1_closes(k)
            opens == n.state \notin {k.state, "IDLE"}
<1>1. /\ program = "camino1" /\ UNCHANGED <<pos, doing, mail, events, overtaken>>
      /\ overtaken \in [Car -> Nat] /\ pass_max \in Nat
      /\ \A c \in Car : dir[c] \in Direction
  BY Places DEF camino1_control, RoadTyped
<1>2. k \in Control /\ k.state = control.state /\ k.draining = control.draining
      /\ k.passed = Passed
  BY CountRec DEF RoadTyped
<1>3. control'.state = n.state /\ control'.draining = n.draining /\ control'.msg = Nothing
      /\ control'.cars = k.cars /\ control'.passed = IF opens THEN 0 ELSE k.passed
  BY Camino1Control
<1>4. k.draining => k.state # "IDLE"
  BY <1>2 DEF BarrierByState
<1>5. /\ n.state \in Direction \cup {"IDLE"} /\ n.draining \in BOOLEAN
      /\ n.draining => n.state = k.state /\ (closes \/ k.draining)
      /\ n.state # k.state /\ k.state # "IDLE" =>
           /\ closes \/ k.draining
           /\ k.cars[Other(k.state)] > 0 => n.state = Other(k.state)
      /\ n.state = k.state /\ ~n.draining => ~closes /\ ~k.draining
  BY <1>2, <1>4, NextTurn
<1>6. closes => /\ k.state # "IDLE" /\ ~k.draining
                /\ \/ k.cars["LEFTBOUND"] = 0 /\ k.cars["RIGHTBOUND"] = 0
                   \/ k.cars[k.state] = 0
                   \/ k.passed = pass_max
  BY DEF camino1_closes
<1>7. k.state # "IDLE" /\ ~k.draining /\ ~closes /\ k.cars[Other(k.state)] > 0
        => k.passed # pass_max
  BY DEF camino1_closes
<1>8. k.state \in Direction \cup {"IDLE"} /\ k.passed \in 0 .. pass_max
  BY <1>2 DEF Control
<1>. HIDE DEF k, n, closes
<1>9. Passed' = control'.passed
  BY <1>3, Places DEF Passed
<1>10. TurnBounded'
  <2>1. CASE opens
    BY <1>1, <1>3, <2>1 DEF TurnBounded
  <2>2. CASE ~opens
    <3>. SUFFICES ASSUME n.state # "IDLE", ~n.draining, k.cars[Other(n.state)] > 0
                  PROVE  k.passed < pass_max
      BY <1>3, <2>2 DEF TurnBounded
    <3>1. n.state = k.state
      BY <2>2
    <3>2. k.passed # pass_max
      BY <1>5, <1>7, <3>1
    <3>. QED  BY <1>1, <1>8, <3>2
  <2>. QED  BY <2>1, <2>2
<1>11. ASSUME NEW x \in Car, Astride(x)' PROVE overtaken'[x] = 0
  BY <1>1, <1>11 DEF Turns, Astride
<1>12. \A d : Unnoticed(d)' <=> Unnoticed(d)
  BY <1>1 DEF Unnoticed
<1>13. ASSUME NEW x \in Car, AtBarrier(x)' PROVE Overtaken(x)'
  <2>. DEFINE here == dir[x]
              over == overtaken[x]
  <2>1. AtBarrier(x) /\ Overtaken(x) /\ over \in Nat /\ overtaken'[x] = over
        /\ here \in Direction
    BY <1>1, <1>13 DEF Turns, AtBarrier
  <2>2. k.cars[here] > 0
    <3>1. Unhandled("in", {here})' = 0 /\ Unhandled("barrier", {here})' = 0
      BY <1>1, <1>3, Places DEF Unhandled, Mailbox
    <3>2. Between(SENSOR1_POS, BARRIER_POS, {here})' = Between(SENSOR1_POS, BARRIER_POS, {here})
      BY <1>1 DEF Between, Told
    <3>3. Cardinality(Between(SENSOR1_POS, BARRIER_POS, {here})) \in Nat
      BY CarsFinite
    <3>4. Cardinality(Between(SENSOR1_POS, BARRIER_POS, {here})) > 0
      BY <2>1, WaitsBehind
    <3>5. control'.cars[here] = Cardinality(Between(SENSOR1_POS, BARRIER_POS, {here})')
                                  - Unhandled("in", {here})' + Unhandled("barrier", {here})'
      BY <1>1, <2>1 DEF Counts, CountedTo
    <3>. QED  BY <1>3, <3>1, <3>2, <3>3, <3>4, <3>5
  <2>3. /\ Other(here) \in Direction /\ Other(here) # here /\ Other(Other(here)) = here
        /\ here \notin {"IDLE"} /\ Other(here) # "IDLE"
    BY <2>1, OtherSide
  <2>4. ASSUME control.state # Other(here), over > 0
        PROVE  /\ k.state = here /\ ~k.draining /\ ~closes /\ k.passed = 0
               /\ ~Unnoticed(here) /\ n.state = k.state /\ ~n.draining
    <3>1. k.state = here /\ ~k.draining /\ k.passed = 0 /\ ~Unnoticed(here)
      BY <1>2, <2>1, <2>4 DEF Overtaken
    <3>2. ~closes
      BY <1>1, <1>6, <2>1, <2>2, <3>1 DEF Direction
    <3>. QED  BY <1>5, <2>3, <3>1, <3>2
  <2>5. ASSUME control.state = Other(here), n.state # Other(here)
        PROVE  n.state = here /\ ~n.draining /\ opens /\ ~Unnoticed(here)
    <3>1. n.state = here /\ ~n.draining
      BY <1>2, <1>5, <2>2, <2>3, <2>5
    <3>2. opens
      BY <1>2, <2>3, <2>5, <3>1
    <3>3. ASSUME NEW y \in Car, dir[y] = here, pos[y] = BARRIER_POS, doing[y] = "send"
          PROVE  FALSE
      <4>1. Inside(y)
        BY <3>3, Places DEF Inside, Told, Astride
      <4>. QED  BY <2>3, <2>5, <3>3, <4>1 DEF InsideByState
    <3>. QED  BY <3>1, <3>2, <3>3 DEF Unnoticed
  <2>6. over <= pass_max + 1
    BY <2>1 DEF Overtaken
  <2>7. ASSUME n.state = Other(here), ~n.draining
        PROVE  over <= Passed' + (IF Unnoticed(control.state)' THEN 1 ELSE 0)
    <3>1. CASE control.state = Other(here)
      <4>1. ~control.draining /\ ~opens
        BY <1>2, <1>5, <2>7, <3>1
      <4>2. over <= Passed + (IF Unnoticed(control.state) THEN 1 ELSE 0)
        BY <2>1, <3>1, <4>1 DEF Overtaken
      <4>3. Passed' = Passed
        BY <1>2, <1>3, <1>9, <4>1
      <4>4. Unnoticed(control.state)' <=> Unnoticed(control.state)
        BY <1>3, <1>12, <2>7, <3>1
      <4>. HIDE DEF over
      <4>. QED  BY <4>2, <4>3, <4>4, Zenon
    <3>2. CASE control.state # Other(here)
      <4>1. ~(over > 0)
        BY <1>2, <2>3, <2>4, <2>7, <3>2
      <4>2. over = 0 /\ Passed' \in Nat
        BY <1>1, <1>3, <1>8, <1>9, <2>1, <4>1
      <4>3. \A i \in Nat : 0 <= i + 1 /\ 0 <= i + 0
        OBVIOUS
      <4>4. 0 <= Passed' + 1 /\ 0 <= Passed' + 0
        BY <4>2, <4>3
      <4>. HIDE DEF over
      <4>. QED  BY <4>2, <4>4, Zenon
    <3>. QED  BY <3>1, <3>2
  <2>8. ASSUME n.state # Other(here), over > 0
        PROVE  n.state = here /\ ~n.draining /\ Passed' = 0 /\ ~Unnoticed(here)'
    <3>1. CASE control.state = Other(here)
      BY <1>3, <1>9, <1>12, <2>5, <2>8, <3>1
    <3>2. CASE control.state # Other(here)
      <4>1. k.passed = 0 /\ ~Unnoticed(here) /\ n.state = k.state /\ ~n.draining /\ k.state = here
        BY <2>4, <2>8, <3>2
      <4>. QED  BY <1>3, <1>9, <1>12, <4>1
    <3>. QED  BY <3>1, <3>2
  <2>. QED  BY <1>3, <2>1, <2>6, <2>7, <2>8 DEF Overtaken
<1>. QED  BY <1>10, <1>11, <1>13 DEF Turns

\* The road is empty and both barriers are down when the cars begin to come.
LEMMA RoadStarts ==
  ASSUME program \in {"camino", "camino1"}, events = RoadSems, RoadInit
  PROVE  RoadInv /\ Turns
<1>1. /\ \A c \in Car : pos[c] = 0 /\ doing[c] = "garage" /\ overtaken[c] = 0
      /\ control = [msg |-> Nothing, state |-> "IDLE", draining |-> FALSE,
                    cars |-> [d \in Direction |-> 0], in_road |-> 0, passed |-> 0]
      /\ mail = Nothing /\ keys.typed = <<>>
      /\ events["mail_empty"] = 1 /\ events["mail_full"] = 0 /\ events["kbd"] = 0
  BY DEF RoadInit, RoadSems
<1>2. control.msg = Nothing /\ control.state = "IDLE" /\ ~control.draining
      /\ (\A d \in Direction : control.cars[d] = 0) /\ control.in_road = 0 /\ control.passed = 0
  BY <1>1
<1>3. RoadTyped
  <2>1. events \in [Semaphore -> Nat] /\ mail \in RoadMsg
    BY <1>1, Places DEF RoadSems, Semaphore
  <2>2. control \in Control
    BY <1>1, Places DEF Control
  <2>3. pos \in [Car -> 0 .. ROAD_END + 1] /\ doing \in [Car -> Doing] /\ overtaken \in [Car -> Nat]
    BY Places DEF RoadInit, Doing
  <2>4. road \in [Direction -> [0 .. ROAD_END -> {"EMPTY", "CAR", "BARRIER"}]]
    BY DEF RoadInit
  <2>5. keys \in [typed : Seq(Direction), main : {"look", "wait"}]
    BY DEF RoadInit
  <2>. QED  BY <2>1, <2>2, <2>3, <2>4, <2>5 DEF RoadTyped
<1>4. CarsPlaced
  BY <1>1 DEF CarsPlaced, Astride
<1>5. KeysCounted
  BY <1>1 DEF KeysCounted
<1>6. Mailbox
  BY <1>1, <1>2, Places DEF Mailbox
<1>7. \A c \in Car : Under(c) = {} /\ ~Inside(c) /\ \A p \in Nat : ~Told(c, p)
  BY <1>1, Places DEF Under, Inside, Told, Astride
<1>8. Drawn /\ Apart /\ InsideByState
  BY <1>7 DEF Drawn, Apart, InsideByState
<1>9. \A kind \in {"in", "out", "barrier"} : \A D : Unhandled(kind, D) = 0
  BY <1>1, <1>2, Places DEF Unhandled
<1>10. \A p \in Nat : \A q, D : Between(p, q, D) = {}
  BY <1>7 DEF Between
<1>11. Counts
  <2>1. Cardinality({}) = 0
    BY FS_EmptySet
  <2>2. ASSUME NEW p \in Nat, NEW q, NEW D, NEW first \in {"in", "barrier"},
               NEW last \in {"out", "barrier"}
        PROVE  CountedTo(p, q, D, first, last, 0)
    <3>1. Between(p, q, D) = {} /\ Unhandled(first, D) = 0 /\ Unhandled(last, D) = 0
      BY <1>9, <1>10
    <3>. QED  BY <2>1, <3>1 DEF CountedTo
  <2>. QED  BY <1>2, <2>2, Places DEF Counts
<1>12. Prompt
  BY <1>9, CarsFinite DEF Prompt
<1>13. BarrierByState
  BY <1>2, Places DEF BarrierByState, RoadInit
<1>14. LastOut
  BY <1>1 DEF LastOut
<1>15. Turns
  BY <1>1, <1>2 DEF Turns, TurnBounded, Astride, AtBarrier
<1>. QED
  BY <1>3, <1>4, <1>5, <1>6, <1>8, <1>11, <1>12, <1>13, <1>14, <1>15 DEF RoadInv

\* Each step keeps the invariant: the counts come first, then the turns they decide.
LEMMA RoadKeeps ==
  ASSUME RoadInv, RoadNext, program' = program
  PROVE  RoadInv'
<1>1. /\ RoadTyped /\ CarsPlaced /\ KeysCounted /\ Mailbox /\ Drawn /\ Apart /\ Counts
      /\ (program = "camino" => Prompt) /\ InsideByState /\ BarrierByState /\ LastOut
  BY DEF RoadInv
<1>2. RoadTyped' /\ CarsPlaced'
  BY <1>1, RoadTypedStep
<1>3. KeysCounted'
  BY <1>1, KeysStep
<1>4. Mailbox'
  BY <1>1, MailboxStep
<1>5. Counts'
  BY <1>1, CountsStep
<1>6. program = "camino" => Prompt'
  BY <1>1, PromptStep
<1>7. camino_control \/ camino1_control => Turned
  <2>1. camino_control => Turned
    <3>1. camino_control => program = "camino"
      BY DEF camino_control
    <3>. QED  BY <1>1, <1>5, <1>6, <3>1, CaminoTurns
  <2>2. camino1_control => Turned
    BY <1>1, <1>5, Camino1Turns
  <2>. QED  BY <2>1, <2>2
<1>8. Drawn' /\ Apart'
  BY <1>1, <1>7, RoadStep
<1>9. InsideByState' /\ BarrierByState'
  BY <1>1, <1>7, TurnStep
<1>10. LastOut'
  BY <1>1, LastOutStep
<1>. QED
  BY <1>2, <1>3, <1>4, <1>5, <1>6, <1>8, <1>9, <1>10 DEF RoadInv

\* Each step of camino1 keeps the order of the turns.
LEMMA TurnsKeep ==
  ASSUME RoadInv, RoadInv', Turns, RoadNext, program = "camino1", program' = program, pass_max > 0
  PROVE  Turns'
<1>1. /\ RoadTyped /\ CarsPlaced /\ Mailbox /\ Drawn /\ Apart /\ Counts
      /\ InsideByState /\ BarrierByState /\ RoadTyped' /\ Counts'
  BY DEF RoadInv
<1>2. ASSUME NEW c \in Car, CarPauses(c) \/ CarClears(c) \/ CarLeaves(c) \/ send_car(c)
      PROVE  Turns'
  <2>1. UNCHANGED <<control, overtaken>>
    BY <1>2 DEF CarPauses, CarClears, CarLeaves, send_car
  <2>. QED  BY <1>1, <1>2, <2>1, TurnsUnseen
<1>3. CASE Tick
  <2>1. UNCHANGED <<control, overtaken>>
    BY <1>3 DEF Tick
  <2>. QED  BY <1>1, <1>3, <2>1, TurnsUnseen
<1>4. CASE mgetch \/ \E t : new_kbd(t)
  <2>1. UNCHANGED <<control, overtaken, pos, doing>>
    BY <1>4 DEF mgetch, new_kbd
  <2>. QED  BY <1>1, <2>1, TurnsUnseen
<1>5. ASSUME NEW c \in Car, CarAdvances(c) PROVE Turns'
  BY <1>1, <1>5, TurnsAdvance
<1>6. ASSUME NEW c \in Car, Receive(c) PROVE Turns'
  BY <1>1, <1>6, TurnsReceive
<1>7. CASE camino1_control
  BY <1>1, <1>7, TurnsControl
<1>8. ~camino_control /\ ~get_msg /\ \A c \in Car : ~put_msg(c)
  BY DEF camino_control, get_msg, put_msg
<1>. QED
  BY <1>2, <1>3, <1>4, <1>5, <1>6, <1>7, <1>8 DEF RoadNext, CarStep, ControlStep, MainStep

\* The inductive invariant of both road programs.
LEMMA RoadInvHolds == RoadSpec => []RoadInv
<1>1. program \in {"camino", "camino1"} /\ events = RoadSems /\ RoadInit => RoadInv
  BY RoadStarts
<1>2. RoadInv /\ [RoadNext /\ UNCHANGED program]_<<program, events, roadVars>> => RoadInv'
  <2>. SUFFICES ASSUME RoadInv, [RoadNext /\ UNCHANGED program]_<<program, events, roadVars>>
                PROVE  RoadInv'
    OBVIOUS
  <2>1. CASE RoadNext /\ program' = program
    BY <2>1, RoadKeeps
  <2>2. CASE UNCHANGED <<program, events, roadVars>>
    <3>. USE <2>2 DEF roadVars, RoadInv
    <3>1. RoadTyped'
      BY DEF RoadTyped
    <3>2. CarsPlaced' /\ KeysCounted' /\ Mailbox'
      BY DEF CarsPlaced, KeysCounted, Mailbox, Sensors, Astride
    <3>3. Drawn' /\ Apart'
      BY DEF Drawn, Apart, Under, Astride
    <3>4. Counts'
      BY DEF Counts, CountedTo, Between, Told, Unhandled
    <3>5. program' = "camino" => Prompt'
      BY DEF Prompt, Unhandled, Fresh
    <3>6. InsideByState' /\ BarrierByState'
      BY DEF InsideByState, BarrierByState, Inside, Told, Astride
    <3>7. LastOut'
      BY DEF LastOut, Deep
    <3>. QED  BY <3>1, <3>2, <3>3, <3>4, <3>5, <3>6, <3>7
  <2>. QED  BY <2>1, <2>2
<1>. QED  BY <1>1, <1>2, PTL DEF RoadSpec

\* In both programs, for any number of cars and any places of the sensors and the
\* barriers, cars of opposite directions never share the one-lane stretch (control).
THEOREM RoadOneDirection == RoadSpec => []OneDirection
<1>1. RoadInv => OneDirection
  BY OneWay DEF RoadInv
<1>. QED  BY <1>1, RoadInvHolds, PTL

\* No key is forgotten (mgetch and new_kbd): the semaphore counts at least the keys that
\* main has not come to read.
THEOREM RoadKeys == RoadSpec => []NoKeyForgotten
<1>1. RoadInv => NoKeyForgotten
  <2>. SUFFICES ASSUME RoadInv, keys.typed # <<>> PROVE keys.main = "look" \/ events["kbd"] > 0
    BY DEF NoKeyForgotten
  <2>1. keys.typed \in Seq(Direction) /\ events["kbd"] \in Nat
    BY DEF RoadInv, RoadTyped, Semaphore
  <2>2. Len(keys.typed) > 0
    BY <2>1
  <2>. QED  BY <2>1, <2>2 DEF RoadInv, KeysCounted
<1>. QED  BY <1>1, RoadInvHolds, PTL

\* In camino1, when at least one car may pass in a turn (pass_max is PASS_MAX or the
\* argument of the program), the first car at a barrier sees at most pass_max + 1 cars of
\* the other side pass before it.
THEOREM RoadOvertaking ==
  ASSUME pass_max > 0
  PROVE  RoadSpec => []BoundedOvertaking
<1>1. program \in {"camino", "camino1"} /\ events = RoadSems /\ RoadInit => TurnsKept
  BY RoadStarts DEF TurnsKept
<1>2. RoadInv /\ RoadInv' /\ TurnsKept
        /\ [RoadNext /\ UNCHANGED program]_<<program, events, roadVars>> => TurnsKept'
  <2>. SUFFICES ASSUME RoadInv, RoadInv', TurnsKept,
                       [RoadNext /\ UNCHANGED program]_<<program, events, roadVars>>
                PROVE  TurnsKept'
    OBVIOUS
  <2>1. CASE RoadNext /\ program' = program
    BY <2>1, TurnsKeep DEF TurnsKept
  <2>2. CASE UNCHANGED <<program, events, roadVars>>
    BY <2>2
    DEF roadVars, TurnsKept, Turns, TurnBounded, Overtaken, Unnoticed, Passed, AtBarrier, Astride
  <2>. QED  BY <2>1, <2>2
<1>3. TurnsKept => BoundedOvertaking
  BY DEF TurnsKept, Turns, Overtaken, BoundedOvertaking
<1>. QED  BY <1>1, <1>2, <1>3, RoadInvHolds, PTL DEF RoadSpec

=============================================================================
