------------------------------- MODULE MtPipe -------------------------------
(***************************************************************************)
(* The pipes of MTask (kernel/pipe.c): a ring of bytes inside a monitor,   *)
(* with a condition for each side, and a mutex for each side when it has   *)
(* several users.                                                          *)
(*                                                                         *)
(* program = "ppipe": progs/ppipe.c, one writer, one reader and no mutex.  *)
(* program = "pipe": several of each, and both mutexes.                    *)
(*                                                                         *)
(* What a task does inside the monitor up to WaitCondition or LeaveMonitor *)
(* is one step (MtMonitor, OneInside); a task that was signalled competes  *)
(* for the monitor again.  A call moves its bytes in several such steps.   *)
(* A byte is known by its writer and its place in the data of the call.    *)
(***************************************************************************)
EXTENDS MtMsgQueue

CONSTANT MaxSize  \* bound on the size of one read or write

ASSUME PipeAssumption == MaxSize \in Nat \ {0}

VARIABLES
  pipe,        \* buf, head, tail and avail of the Pipe_t
  asleep,      \* the tasks in WaitCondition, on cond_get or cond_put by their side
  req          \* the call each task is in: the bytes done, the size, get_all

pipeVars == <<pipe, asleep, req>>

PipeUsers == CASE program = "ppipe" -> {FirstWriter, FirstReader}
               [] program = "pipe" -> Writer \cup Reader
               [] OTHER -> {}

NoByte == <<FirstWriter, 0>>
Outside == [in |-> "out", size |-> 0, all |-> FALSE, data |-> <<>>]

\* CreatePipe.
PipeInit ==
  /\ pipe = [buf |-> [i \in 0 .. Capacity - 1 |-> NoByte], head |-> 0, tail |-> 0, avail |-> 0]
  /\ asleep = {}
  /\ req = [t \in Writer \cup Reader |-> Outside]

\* Mutant: the writing mutex is not taken.
EnterPipeUnlocked(t, size, all) ==
  /\ req[t].in = "out" /\ size > 0 /\ (t \in Writer => all)
  /\ IF program = "pipe" /\ t \in Reader THEN WaitEvent(Mutex(t)) ELSE UNCHANGED events
  /\ req' = [req EXCEPT ![t] = [in |-> "call", size |-> size, all |-> all, data |-> <<>>]]
  /\ UNCHANGED <<pipe, asleep, chan, delivered>>

\* GetPipeTimed or PutPipeTimed is called and has its mutex, if any.  A writer
\* always has all its bytes written; a reader chooses.
EnterPipe(t, size, all) ==
  /\ req[t].in = "out" /\ size > 0 /\ (t \in Writer => all)
  /\ IF program = "pipe" THEN WaitEvent(Mutex(t)) ELSE UNCHANGED events
  /\ req' = [req EXCEPT ![t] = [in |-> "call", size |-> size, all |-> all, data |-> <<>>]]
  /\ UNCHANGED <<pipe, asleep, chan, delivered>>

\* There is nothing to read, or no room to write.
MustWait(t) == pipe.avail = IF t \in Writer THEN Capacity ELSE 0

\* get_data and put_data wait for their condition...
SleepOnCondition(t) ==
  /\ req[t].in = "call" /\ MustWait(t)
  /\ asleep' = asleep \cup {t}
  /\ req' = [req EXCEPT ![t].in = "wait"]
  /\ UNCHANGED <<events, pipe, chan, delivered>>

LeavePipeMutex(t) == IF program = "pipe" THEN SignalEvent(Mutex(t)) ELSE UNCHANGED events

\* ... and return 0 when the time is over, which ends the call.
WaitConditionFails(t) ==
  /\ t \in asleep
  /\ asleep' = asleep \ {t}
  /\ req' = [req EXCEPT ![t] = Outside]
  /\ LeavePipeMutex(t)
  /\ UNCHANGED <<pipe, chan, delivered>>

\* Mutant: a call that had to wait does not signal the other side.
SignalUnlessWoken(t) ==
  LET others == {u \in asleep : Side(u) # Side(t)}
  IN  IF others = {} \/ req[t].in = "wait"
      THEN UNCHANGED asleep ELSE \E u \in others : asleep' = asleep \ {u}

\* SignalCondition wakes one task of the other side, if any sleeps.
WakeSleeper(t) ==
  LET others == {u \in asleep : Side(u) # Side(t)}
  IN  IF others = {} THEN UNCHANGED asleep ELSE \E u \in others : asleep' = asleep \ {u}

\* The task is in the monitor and does not wait: at once, or after the signal.
InMonitor(t) == \/ req[t].in = "call" /\ ~MustWait(t)
                \/ req[t].in = "wait" /\ t \notin asleep

\* The loop of GetPipeTimed and PutPipeTimed after n more bytes: it goes on until
\* all is done or nothing was moved; a reader that does not want all returns.
AfterMove(t, n, data) ==
  IF n > 0 /\ Len(data) < req[t].size /\ req[t].all
  THEN /\ req' = [req EXCEPT ![t].in = "call", ![t].data = data]
       /\ UNCHANGED events
  ELSE /\ req' = [req EXCEPT ![t] = Outside]
       /\ LeavePipeMutex(t)

MinOf(a, b) == IF a < b THEN a ELSE b

Taken(n) == [i \in 1 .. n |-> pipe.buf[(pipe.head + i - 1) % Capacity]]

\* get_data with the monitor: as many bytes as there are, up to the request.
get_data(t) ==
  LET n == MinOf(req[t].size - Len(req[t].data), pipe.avail)
  IN  /\ t \in Reader /\ InMonitor(t)
      /\ pipe' = [pipe EXCEPT !.head = (@ + n) % Capacity, !.avail = @ - n]
      /\ delivered' = IF n = 0 THEN delivered ELSE Taken(n)
      /\ chan' = SubSeq(chan, n + 1, Len(chan))
      /\ WakeSleeper(t)
      /\ AfterMove(t, n, req[t].data \o Taken(n))

\* put_data with the monitor: as many bytes as there is room for.
put_data(t) ==
  LET done == Len(req[t].data)
      n == MinOf(req[t].size - done, Capacity - pipe.avail)
      given == [i \in 1 .. n |-> <<t, done + i>>]
  IN  /\ t \in Writer /\ InMonitor(t)
      /\ pipe' = [pipe EXCEPT
           !.buf = [j \in 0 .. Capacity - 1 |->
                      LET i == ((j - pipe.tail) % Capacity) + 1
                      IN  IF i <= n THEN given[i] ELSE @[j]],
           !.tail = (@ + n) % Capacity, !.avail = @ + n]
      /\ chan' = chan \o given
      /\ WakeSleeper(t)
      /\ AfterMove(t, n, req[t].data \o given)
      /\ UNCHANGED delivered

PipeStep(t) ==
  /\ \/ \E size \in 1 .. MaxSize, all \in BOOLEAN : EnterPipe(t, size, all)
     \/ SleepOnCondition(t) \/ WaitConditionFails(t)
     \/ get_data(t) \/ put_data(t)
  /\ UNCHANGED <<mq, call, msg>>

PipeNext == \E t \in PipeUsers : PipeStep(t)

\* One of the buffers alone.
bufferVars == <<program, events, queueVars, pipeVars>>

BufferInit ==
  /\ program \in {"pmsgq", "msgqueue", "ppipe", "pipe"} /\ events = QueueSems
  /\ QueueInit /\ PipeInit

BufferNext ==
  /\ (QueueNext /\ UNCHANGED pipeVars) \/ PipeNext
  /\ UNCHANGED program

BufferSpec == BufferInit /\ [][BufferNext]_bufferVars

-----------------------------------------------------------------------------

Fifo == INSTANCE MtFifo

\* Message queues and pipes are bounded first-in first-out channels: nothing is
\* lost, repeated, reordered or read before it is stored, whatever sizes are
\* read and written, with timeouts on both sides, the ring reused, and several
\* readers and writers when the buffer was created with mutexes (get_msg,
\* put_msg, get_data, put_data).
IsFifo == Fifo!Spec

\* The second byte may follow the first: it goes on with the same write or is the
\* first of another.
Follows(x, y) == y[2] = 1 \/ y = <<x[1], x[2] + 1>>

Whole(s) == \A i \in 1 .. Len(s) - 1 : Follows(s[i], s[i + 1])

\* Writes are atomic, in the pipe and as a reader collects them: the bytes of one
\* PutPipe are not mixed with those of another, although each waits for room in
\* the middle, and the bytes of one GetPipe are consecutive (the mutexes of
\* GetPipeTimed and PutPipeTimed; the comment before GetPipe).
AtomicTransfers ==
  /\ program \in {"ppipe", "pipe"} => Whole(chan)
  /\ \A t \in Reader : Whole(req[t].data)

\* Nobody sleeps over what it waits for: a reader that has not been signalled
\* finds no byte, a writer no room, although a signal without a sleeper is lost
\* and the condition is tested once (get_data, put_data).
NoneAsleepOverData == \A t \in asleep : MustWait(t)

=============================================================================
