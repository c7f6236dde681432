----------------------------- MODULE MtMsgQueue -----------------------------
(***************************************************************************)
(* The message queues of MTask (kernel/msgqueue.c): a ring of msg_max      *)
(* messages, a semaphore that counts the messages and one that counts the  *)
(* free slots, and a mutex for each side when it has several users.        *)
(*                                                                         *)
(* program = "pmsgq": progs/pmsgq.c, one writer, one reader and no mutex.  *)
(* program = "msgqueue": several of each, and both mutexes.                *)
(*                                                                         *)
(* The ring is not protected otherwise: other tasks run between the wait,  *)
(* the copy, the advance of the pointer and the signal.  A mutex is its    *)
(* semaphore of count 1 (MtMutex shows that one task at a time is inside). *)
(***************************************************************************)
EXTENDS MtProgram

CONSTANTS
  Writer, Reader,        \* tasks
  FirstWriter, FirstReader,
  Message,
  Capacity       \* msg_max of a message queue, size of a pipe

ASSUME QueueAssumption ==
  /\ Capacity \in Nat \ {0} /\ Message # {}
  /\ FirstWriter \in Writer /\ FirstReader \in Reader /\ Writer \cap Reader = {}

VARIABLES
  mq,          \* buf, head and tail of the MsgQueue_t
  call,        \* where each task is inside GetMsgQueueTimed or PutMsgQueueTimed
  msg,         \* the message of each task
  chan, delivered   \* history: see MtFifo

queueVars == <<mq, call, msg, chan, delivered>>

Slot == 0 .. Capacity - 1
Serialized == program = "msgqueue"
Side(t) == IF t \in Writer THEN "put" ELSE "get"
Mutex(t) == IF t \in Writer THEN "mutex_put" ELSE "mutex_get"

\* The tasks of the program that runs.
QueueUsers == CASE program = "pmsgq" -> {FirstWriter, FirstReader}
                [] program = "msgqueue" -> Writer \cup Reader
                [] OTHER -> {}

\* CreateMsgQueue, the count of its semaphores and of the mutexes.
QueueInit ==
  /\ mq = [buf |-> [s \in Slot |-> CHOOSE m \in Message : TRUE], head |-> 0, tail |-> 0]
  /\ call = [t \in Writer \cup Reader |-> "out"]
  /\ msg = [t \in Writer \cup Reader |-> CHOOSE m \in Message : TRUE]
  /\ chan = <<>> /\ delivered = <<>>

QueueSems == [s \in {"get", "put", "mutex_get", "mutex_put"} |->
                CASE s = "get" -> 0
                  [] s = "put" -> Capacity
                  [] OTHER -> 1]

-----------------------------------------------------------------------------

\* Mutant: the reading mutex is not taken.
EnterQueueUnlocked(t, m) ==
  /\ call[t] = "out"
  /\ IF Serialized /\ t \in Writer THEN WaitEvent(Mutex(t)) ELSE UNCHANGED events
  /\ call' = [call EXCEPT ![t] = "wait"]
  /\ msg' = [msg EXCEPT ![t] = m]
  /\ UNCHANGED <<mq, chan, delivered>>

\* GetMsgQueueTimed or PutMsgQueueTimed is called and has its mutex, if any.
EnterQueue(t, m) ==
  /\ call[t] = "out"
  /\ IF Serialized THEN WaitEvent(Mutex(t)) ELSE UNCHANGED events
  /\ call' = [call EXCEPT ![t] = "wait"]
  /\ msg' = [msg EXCEPT ![t] = m]
  /\ UNCHANGED <<mq, chan, delivered>>

\* WaitSemTimed returns true...
WaitSucceeds(t) ==
  /\ call[t] = "wait"
  /\ WaitEvent(Side(t))
  /\ call' = [call EXCEPT ![t] = "copy"]
  /\ UNCHANGED <<mq, msg, chan, delivered>>

LeaveQueueMutex(t) == IF Serialized THEN SignalEvent(Mutex(t)) ELSE UNCHANGED events

\* ... or false, at once or when its time is over.
WaitExpires(t) ==
  /\ call[t] = "wait" /\ events[Side(t)] = 0
  /\ LeaveQueueMutex(t)
  /\ call' = [call EXCEPT ![t] = "out"]
  /\ UNCHANGED <<mq, msg, chan, delivered>>

\* put_msg: memcpy to the tail.
put_copies(t) ==
  /\ call[t] = "copy" /\ t \in Writer
  /\ mq' = [mq EXCEPT !.buf[mq.tail] = msg[t]]
  /\ chan' = Append(chan, msg[t])
  /\ call' = [call EXCEPT ![t] = "advance"]
  /\ UNCHANGED <<events, msg, delivered>>

\* get_msg: memcpy from the head.
get_copies(t) ==
  /\ call[t] = "copy" /\ t \in Reader
  /\ msg' = [msg EXCEPT ![t] = mq.buf[mq.head]]
  /\ delivered' = <<mq.buf[mq.head]>>
  /\ chan' = Tail(chan)
  /\ call' = [call EXCEPT ![t] = "advance"]
  /\ UNCHANGED <<events, mq>>

\* The pointer moves on and wraps at the end of the buffer.
Advance(t) ==
  /\ call[t] = "advance"
  /\ mq' = IF t \in Writer THEN [mq EXCEPT !.tail = (@ + 1) % Capacity]
                           ELSE [mq EXCEPT !.head = (@ + 1) % Capacity]
  /\ call' = [call EXCEPT ![t] = "signal"]
  /\ UNCHANGED <<events, msg, chan, delivered>>

\* SignalSem on the other side's semaphore.
SignalOther(t) ==
  /\ call[t] = "signal"
  /\ SignalEvent(IF t \in Writer THEN "get" ELSE "put")
  /\ call' = [call EXCEPT ![t] = "leave"]
  /\ UNCHANGED <<mq, msg, chan, delivered>>

LeaveQueue(t) ==
  /\ call[t] = "leave"
  /\ LeaveQueueMutex(t)
  /\ call' = [call EXCEPT ![t] = "out"]
  /\ UNCHANGED <<mq, msg, chan, delivered>>

QueueStep(t) ==
  \/ \E m \in Message : EnterQueue(t, IF t \in Writer THEN m ELSE msg[t])
  \/ WaitSucceeds(t) \/ WaitExpires(t)
  \/ put_copies(t) \/ get_copies(t) \/ Advance(t) \/ SignalOther(t) \/ LeaveQueue(t)

QueueNext == \E t \in QueueUsers : QueueStep(t)

=============================================================================
