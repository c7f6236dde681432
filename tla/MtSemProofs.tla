---------------------------- MODULE MtSemProofs -----------------------------
(***************************************************************************)
(* The semaphores of MTask are correct for any number of tasks and of      *)
(* semaphores: no wake-up is lost, the queues hold exactly the blocked     *)
(* tasks in order, and the whole is a counting semaphore.                  *)
(***************************************************************************)
EXTENDS MtSem, MtQueuesProofs, FiniteSetTheorems

\* The inductive invariant.
IInv == TypeOK /\ NoLostWakeup /\ WaitersQueued

-----------------------------------------------------------------------------

\* New semaphores have no waiters.
LEMMA InitIInv == Init => IInv
<1>. SUFFICES ASSUME Init PROVE IInv
  OBVIOUS
<1>. USE SemAssumption DEF Init, SemInit
<1>1. TypeOK
  BY DEF TypeOK
<1>2. NoLostWakeup
  BY DEF NoLostWakeup
<1>3. WaitersQueued
  BY DEF WaitersQueued, Members, Distinct, Sorted
<1>. QED  BY <1>1, <1>2, <1>3 DEF IInv

\* What the invariant says of a single semaphore.
LEMMA QueueFacts ==
  ASSUME IInv, NEW s \in Sem
  PROVE  /\ waiting[s] \in Seq(Task)
         /\ Members(waiting[s]) = {t \in Task : at[t] = s /\ outcome[t] = "none"}
         /\ Distinct(waiting[s])
         /\ Sorted(waiting[s], priority)
BY DEF IInv, TypeOK, WaitersQueued

\* A wait that finds an event: the queue is empty and stays so.
LEMMA WaitTakesIInv ==
  ASSUME IInv, NEW s \in Sem, WaitTakes(s)
  PROVE  IInv'
<1>. USE DEF IInv, WaitTakes
<1>1. TypeOK'
  BY SemAssumption DEF TypeOK
<1>2. NoLostWakeup'
  <2>1. \A r \in Sem : value'[r] > 0 => value[r] > 0
    BY SemAssumption DEF TypeOK
  <2>. QED  BY <2>1 DEF NoLostWakeup
<1>3. WaitersQueued'
  BY DEF WaitersQueued
<1>. QED  BY <1>1, <1>2, <1>3

\* A wait that blocks: the count is zero, and the task is queued where its
\* priority says.
LEMMA WaitBlocksIInv ==
  ASSUME IInv, NEW t \in Task, NEW s \in Sem, NEW b \in BOOLEAN,
         at[t] = NoSem, WaitBlocks(t, s, b)
  PROVE  IInv'
<1>. USE DEF WaitBlocks
<1>1. priority \in [Task -> Nat] /\ NoSem \notin Sem
  BY SemAssumption
<1>2. TypeOK
  BY DEF IInv
<1>3. waiting'[s] = mt_enqueue(waiting[s], priority, t)
  BY <1>2 DEF TypeOK
<1>4. t \notin Members(waiting[s])
  BY <1>1, QueueFacts
<1>5. /\ waiting'[s] \in Seq(Task)
      /\ Members(waiting'[s]) = Members(waiting[s]) \cup {t}
      /\ Distinct(waiting'[s])
      /\ Sorted(waiting'[s], priority)
  <2>1. /\ mt_enqueue(waiting[s], priority, t) \in Seq(Task)
        /\ Members(mt_enqueue(waiting[s], priority, t)) = Members(waiting[s]) \cup {t}
        /\ Distinct(mt_enqueue(waiting[s], priority, t))
        /\ Sorted(mt_enqueue(waiting[s], priority, t), priority)
    BY <1>1, <1>4, QueueFacts, EnqueueKeepsOrder
  <2>. QED  BY <1>3, <2>1
<1>6. TypeOK'
  BY <1>2, <1>3, <1>5 DEF TypeOK
<1>7. NoLostWakeup'
  <2>1. \A r \in Sem \ {s} : waiting'[r] = waiting[r]
    BY <1>2 DEF TypeOK
  <2>2. value'[s] = 0 /\ value' = value
    OBVIOUS
  <2>. QED  BY <2>1, <2>2 DEF NoLostWakeup, IInv
<1>8. WaitersQueued'
  <2>1. SUFFICES ASSUME NEW r \in Sem
                 PROVE  /\ Members(waiting'[r]) = {u \in Task : at'[u] = r /\ outcome'[u] = "none"}
                        /\ Distinct(waiting'[r])
                        /\ Sorted(waiting'[r], priority)
    BY DEF WaitersQueued
  <2>2. CASE r = s
    <3>1. {u \in Task : at'[u] = s /\ outcome'[u] = "none"}
            = {u \in Task : at[u] = s /\ outcome[u] = "none"} \cup {t}
      BY <1>2 DEF TypeOK
    <3>. QED  BY <1>5, <2>2, <3>1, QueueFacts
  <2>3. CASE r # s
    <3>1. waiting'[r] = waiting[r]
      BY <1>2, <2>3 DEF TypeOK
    <3>2. {u \in Task : at'[u] = r /\ outcome'[u] = "none"}
            = {u \in Task : at[u] = r /\ outcome[u] = "none"}
      BY <1>1, <1>2, <2>3 DEF TypeOK
    <3>. QED  BY <3>1, <3>2, QueueFacts
  <2>. QED  BY <2>2, <2>3
<1>. QED  BY <1>6, <1>7, <1>8 DEF IInv

\* A signal: the event goes to the most urgent waiter, or is counted when the
\* queue is empty.
LEMMA SignalSemIInv ==
  ASSUME IInv, NEW s \in Sem, SignalSem(s)
  PROVE  IInv'
<1>1. TypeOK /\ SignalSem(s)
  BY DEF IInv
<1>2. CASE waiting[s] = <<>>
  <2>1. /\ value' = [value EXCEPT ![s] = (@ + 1) % UINT_MOD]
        /\ UNCHANGED <<waiting, at, outcome, timed>>
    BY <1>1, <1>2 DEF SignalSem
  <2>2. TypeOK'
    BY <1>1, <2>1, SemAssumption DEF TypeOK
  <2>3. NoLostWakeup'
    BY <1>1, <1>2, <2>1 DEF NoLostWakeup, IInv, TypeOK
  <2>4. WaitersQueued'
    BY <2>1 DEF WaitersQueued, IInv
  <2>. QED  BY <2>2, <2>3, <2>4 DEF IInv
<1>3. CASE waiting[s] # <<>>
  <2>. DEFINE t == mt_peeklast(waiting[s])
  <2>1. /\ waiting' = [waiting EXCEPT ![s] = mt_getlast(@)]
        /\ outcome' = [outcome EXCEPT ![t] = "true"]
        /\ timed' = timed \ {t}
        /\ UNCHANGED <<value, at>>
    BY <1>1, <1>3 DEF SignalSem
  <2>2. /\ mt_getlast(waiting[s]) \in Seq(Task)
        /\ t \in Members(waiting[s])
        /\ Members(mt_getlast(waiting[s])) = Members(waiting[s]) \ {t}
        /\ Distinct(mt_getlast(waiting[s]))
        /\ Sorted(mt_getlast(waiting[s]), priority)
    BY <1>3, SemAssumption, QueueFacts, GetLastKeepsOrder
  <2>. HIDE DEF t
  <2>3. t \in Task /\ at[t] = s /\ outcome[t] = "none"
    BY <2>2, QueueFacts
  <2>4. waiting'[s] = mt_getlast(waiting[s])
    BY <1>1, <2>1 DEF TypeOK
  <2>5. TypeOK'
    BY <1>1, <2>1, <2>2 DEF TypeOK
  <2>6. NoLostWakeup'
    <3>1. \A r \in Sem \ {s} : waiting'[r] = waiting[r]
      BY <1>1, <2>1 DEF TypeOK
    <3>2. ~ (value[s] > 0)
      BY <1>3 DEF NoLostWakeup, IInv
    <3>. QED  BY <2>1, <3>1, <3>2 DEF NoLostWakeup, IInv
  <2>7. WaitersQueued'
    <3>1. SUFFICES ASSUME NEW r \in Sem
                   PROVE  /\ Members(waiting'[r]) = {u \in Task : at'[u] = r /\ outcome'[u] = "none"}
                          /\ Distinct(waiting'[r])
                          /\ Sorted(waiting'[r], priority)
      BY DEF WaitersQueued
    <3>2. CASE r = s
      <4>1. {u \in Task : at'[u] = s /\ outcome'[u] = "none"}
              = {u \in Task : at[u] = s /\ outcome[u] = "none"} \ {t}
        BY <1>1, <2>1, <2>3 DEF TypeOK
      <4>. QED  BY <2>2, <2>4, <3>2, <4>1, QueueFacts
    <3>3. CASE r # s
      <4>1. waiting'[r] = waiting[r]
        BY <1>1, <2>1, <3>3 DEF TypeOK
      <4>2. {u \in Task : at'[u] = r /\ outcome'[u] = "none"}
              = {u \in Task : at[u] = r /\ outcome[u] = "none"}
        BY <1>1, <2>1, <2>3, <3>3 DEF TypeOK
      <4>. QED  BY <4>1, <4>2, QueueFacts
    <3>. QED  BY <3>2, <3>3
  <2>. QED  BY <2>5, <2>6, <2>7 DEF IInv
<1>. QED  BY <1>2, <1>3

\* A flush: nothing is counted and nobody is left in the queue.
LEMMA FlushSemIInv ==
  ASSUME IInv, NEW s \in Sem, NEW ok \in BOOLEAN, FlushSem(s, ok)
  PROVE  IInv'
<1>. DEFINE woken == Members(waiting[s])
<1>1. /\ value' = [value EXCEPT ![s] = 0]
      /\ waiting' = [waiting EXCEPT ![s] = <<>>]
      /\ outcome' = [t \in Task |-> IF t \notin woken THEN outcome[t]
                                    ELSE IF ok THEN "true" ELSE "false"]
      /\ timed' = timed \ woken
      /\ at' = at
  BY DEF FlushSem
<1>2. TypeOK
  BY DEF IInv
<1>3. woken = {u \in Task : at[u] = s /\ outcome[u] = "none"}
  BY QueueFacts
<1>. HIDE DEF woken
<1>4. TypeOK'
  BY <1>1, <1>2, SemAssumption DEF TypeOK
<1>5. NoLostWakeup'
  <2>1. waiting'[s] = <<>> /\ \A r \in Sem \ {s} : waiting'[r] = waiting[r] /\ value'[r] = value[r]
    BY <1>1, <1>2 DEF TypeOK
  <2>. QED  BY <2>1 DEF NoLostWakeup, IInv
<1>6. WaitersQueued'
  <2>1. SUFFICES ASSUME NEW r \in Sem
                 PROVE  /\ Members(waiting'[r]) = {u \in Task : at'[u] = r /\ outcome'[u] = "none"}
                        /\ Distinct(waiting'[r])
                        /\ Sorted(waiting'[r], priority)
    BY DEF WaitersQueued
  <2>2. CASE r = s
    <3>1. waiting'[r] = <<>>
      BY <1>1, <1>2, <2>2 DEF TypeOK
    <3>2. Members(<<>>) = {} /\ Distinct(<<>>) /\ Sorted(<<>>, priority)
      BY DEF Members, Distinct, Sorted
    <3>3. {u \in Task : at'[u] = r /\ outcome'[u] = "none"} = {}
      BY <1>1, <1>3, <2>2
    <3>. QED  BY <3>1, <3>2, <3>3
  <2>3. CASE r # s
    <3>1. waiting'[r] = waiting[r]
      BY <1>1, <1>2, <2>3 DEF TypeOK
    <3>2. {u \in Task : at'[u] = r /\ outcome'[u] = "none"}
            = {u \in Task : at[u] = r /\ outcome[u] = "none"}
      BY <1>1, <1>3, <2>3
    <3>. QED  BY <3>1, <3>2, QueueFacts
  <2>. QED  BY <2>2, <2>3
<1>. QED  BY <1>4, <1>5, <1>6 DEF IInv

\* A timeout or Ready: the task leaves the queue it waited in and no other.
LEMMA GiveUpIInv ==
  ASSUME IInv, NEW t \in Task, GiveUp(t)
  PROVE  IInv'
<1>. DEFINE s == at[t]
<1>1. TypeOK /\ s \in Sem /\ outcome[t] = "none"
  BY DEF IInv, GiveUp, IsBlocked, TypeOK
<1>2. /\ waiting' = [waiting EXCEPT ![s] = mt_dequeue(@, t)]
      /\ outcome' = [outcome EXCEPT ![t] = "false"]
      /\ timed' = timed \ {t}
      /\ UNCHANGED <<value, at>>
  BY DEF GiveUp
<1>3. at[t] = s
  OBVIOUS
<1>. HIDE DEF s
<1>4. /\ mt_dequeue(waiting[s], t) \in Seq(Task)
      /\ Members(mt_dequeue(waiting[s], t)) = Members(waiting[s]) \ {t}
      /\ Distinct(mt_dequeue(waiting[s], t))
      /\ Sorted(mt_dequeue(waiting[s], t), priority)
  <2>1. t \in Members(waiting[s])
    BY <1>1, <1>3, QueueFacts
  <2>. QED  BY <1>1, <2>1, SemAssumption, QueueFacts, DequeueKeepsOrder
<1>5. waiting'[s] = mt_dequeue(waiting[s], t)
  BY <1>1, <1>2 DEF TypeOK
<1>6. TypeOK'
  BY <1>1, <1>2, <1>4 DEF TypeOK
<1>7. NoLostWakeup'
  <2>1. \A r \in Sem \ {s} : waiting'[r] = waiting[r]
    BY <1>1, <1>2 DEF TypeOK
  <2>2. ~ (value[s] > 0)
    <3>1. t \in Members(waiting[s])
      BY <1>1, <1>3, QueueFacts
    <3>2. waiting[s] # <<>>
      BY <3>1 DEF Members
    <3>. QED  BY <1>1, <3>2 DEF NoLostWakeup, IInv
  <2>. QED  BY <1>2, <2>1, <2>2 DEF NoLostWakeup, IInv
<1>8. WaitersQueued'
  <2>1. SUFFICES ASSUME NEW r \in Sem
                 PROVE  /\ Members(waiting'[r]) = {u \in Task : at'[u] = r /\ outcome'[u] = "none"}
                        /\ Distinct(waiting'[r])
                        /\ Sorted(waiting'[r], priority)
    BY DEF WaitersQueued
  <2>2. CASE r = s
    <3>1. {u \in Task : at'[u] = s /\ outcome'[u] = "none"}
            = {u \in Task : at[u] = s /\ outcome[u] = "none"} \ {t}
      BY <1>1, <1>2 DEF TypeOK
    <3>. QED  BY <1>4, <1>5, <2>2, <3>1, QueueFacts
  <2>3. CASE r # s
    <3>1. waiting'[r] = waiting[r]
      BY <1>1, <1>2, <2>3 DEF TypeOK
    <3>2. {u \in Task : at'[u] = r /\ outcome'[u] = "none"}
            = {u \in Task : at[u] = r /\ outcome[u] = "none"}
      BY <1>1, <1>2, <1>3, <2>3 DEF TypeOK
    <3>. QED  BY <3>1, <3>2, QueueFacts
  <2>. QED  BY <2>2, <2>3
<1>. QED  BY <1>6, <1>7, <1>8 DEF IInv

\* A woken task that returns was in no queue.
LEMMA WaitReturnsIInv ==
  ASSUME IInv, NEW t \in Task, WaitReturns(t)
  PROVE  IInv'
<1>. USE DEF WaitReturns
<1>1. TypeOK
  BY DEF IInv
<1>2. TypeOK'
  BY <1>1 DEF TypeOK
<1>3. NoLostWakeup'
  BY DEF NoLostWakeup, IInv
<1>4. WaitersQueued'
  <2>1. \A r \in Sem : {u \in Task : at'[u] = r /\ outcome'[u] = "none"}
                        = {u \in Task : at[u] = r /\ outcome[u] = "none"}
    BY <1>1, SemAssumption DEF TypeOK, IsWoken
  <2>. QED  BY <2>1 DEF WaitersQueued, IInv
<1>. QED  BY <1>2, <1>3, <1>4 DEF IInv

\* Every action of the semaphores keeps the invariant.
LEMMA NextIInv == IInv /\ [Next]_semVars => IInv'
<1>. SUFFICES ASSUME IInv, [Next]_semVars PROVE IInv'
  OBVIOUS
<1>1. ASSUME NEW t \in Task, NEW s \in Sem, WaitSem(t, s) PROVE IInv'
  <2>1. CASE WaitTakes(s)
    BY <2>1, WaitTakesIInv
  <2>2. CASE UNCHANGED semVars
    BY <2>2 DEF semVars, IInv, TypeOK, NoLostWakeup, WaitersQueued
  <2>3. CASE \E b \in BOOLEAN : WaitBlocks(t, s, b)
    BY <1>1, <2>3, WaitBlocksIInv DEF WaitSem
  <2>. QED  BY <1>1, <2>1, <2>2, <2>3 DEF WaitSem, WaitFails
<1>2. ASSUME NEW s \in Sem, SignalBounded(s) PROVE IInv'
  BY <1>2, SignalSemIInv DEF SignalBounded
<1>3. ASSUME NEW s \in Sem, NEW ok \in BOOLEAN, FlushSem(s, ok) PROVE IInv'
  BY <1>3, FlushSemIInv
<1>4. ASSUME NEW t \in Task, Timeout(t) \/ GiveUp(t) PROVE IInv'
  BY <1>4, GiveUpIInv DEF Timeout
<1>5. ASSUME NEW t \in Task, WaitReturns(t) PROVE IInv'
  BY <1>5, WaitReturnsIInv
<1>6. CASE UNCHANGED semVars
  BY <1>6 DEF semVars, IInv, TypeOK, NoLostWakeup, WaitersQueued
<1>. QED  BY <1>1, <1>2, <1>3, <1>4, <1>5, <1>6 DEF Next

\* The types, the absence of lost wake-ups and the discipline of the queues hold
\* in every reachable state of sem.c, for every set of tasks and semaphores.
THEOREM SemSafety == Spec => [](TypeOK /\ NoLostWakeup /\ WaitersQueued)
<1>1. Init => IInv
  BY InitIInv
<1>2. IInv /\ [Next]_semVars => IInv'
  BY NextIInv
<1>3. IInv => TypeOK /\ NoLostWakeup /\ WaitersQueued
  BY DEF IInv
<1>. QED  BY <1>1, <1>2, <1>3, PTL DEF Spec

-----------------------------------------------------------------------------
(***************************************************************************)
(* The refinement: every step is a step of the counting semaphore, which   *)
(* sees the count, who is blocked and who was given an event, or a stutter.*)
(***************************************************************************)

\* What the abstract semaphore sees.
AbsWaiters == [s \in Sem |-> Waiters(s)]
AbsGranted == [s \in Sem |-> Granted(s)]
absVars == <<value, AbsWaiters, AbsGranted>>

\* Only what a step says of the calls of the tasks decides whom it leaves waiting.
LEMMA SameCalls ==
  ASSUME at' = at, outcome' = outcome
  PROVE  AbsWaiters' = AbsWaiters /\ AbsGranted' = AbsGranted
BY DEF AbsWaiters, AbsGranted, Waiters, Granted

\* A step that changes the waiters or the granted tasks of one semaphore.
LEMMA WaitersExcept ==
  ASSUME NEW s \in Sem, NEW S, Waiters(s)' = S,
         \A r \in Sem \ {s} : Waiters(r)' = Waiters(r)
  PROVE  AbsWaiters' = [AbsWaiters EXCEPT ![s] = S]
BY DEF AbsWaiters

LEMMA GrantedExcept ==
  ASSUME NEW s \in Sem, NEW S, Granted(s)' = S,
         \A r \in Sem \ {s} : Granted(r)' = Granted(r)
  PROVE  AbsGranted' = [AbsGranted EXCEPT ![s] = S]
BY DEF AbsGranted

\* The queue of a semaphore is empty when nobody waits.
LEMMA EmptyQueue ==
  ASSUME IInv, NEW s \in Sem
  PROVE  waiting[s] = <<>> <=> Waiters(s) = {}
<1>1. waiting[s] \in Seq(Task) /\ Members(waiting[s]) = Waiters(s)
  BY QueueFacts DEF Waiters
<1>2. waiting[s] # <<>> => waiting[s][1] \in Members(waiting[s])
  BY <1>1 DEF Members
<1>3. Members(<<>>) = {}
  BY DEF Members
<1>. QED  BY <1>1, <1>2, <1>3

\* A wait takes an event that is counted, fails, or joins the waiters.
LEMMA WaitRefines ==
  ASSUME IInv, NEW t \in Task, NEW s \in Sem, WaitSem(t, s)
  PROVE  Abs!Take(s) \/ Abs!Wait(t, s) \/ UNCHANGED absVars
<1>. USE DEF IInv
<1>1. CASE WaitTakes(s)
  <2>1. AbsWaiters' = AbsWaiters /\ AbsGranted' = AbsGranted
    BY <1>1, SameCalls DEF WaitTakes
  <2>. QED  BY <1>1, <2>1 DEF WaitTakes, Abs!Take, AbsWaiters, AbsGranted
<1>2. CASE WaitFails(s)
  <2>1. AbsWaiters' = AbsWaiters /\ AbsGranted' = AbsGranted
    BY <1>2, SameCalls DEF WaitFails, semVars
  <2>. QED  BY <1>2, <2>1 DEF WaitFails, semVars, absVars
<1>3. CASE \E b \in BOOLEAN : WaitBlocks(t, s, b)
  <2>1. /\ value[s] = 0 /\ value' = value
        /\ at' = [at EXCEPT ![t] = s] /\ outcome' = [outcome EXCEPT ![t] = "none"]
    BY <1>3 DEF WaitBlocks
  <2>2. at[t] = NoSem /\ NoSem \notin Sem /\ TypeOK
    BY SemAssumption DEF WaitSem
  <2>3. \A r \in Sem : t \notin Waiters(r) \cup Granted(r)
    BY <2>2 DEF Waiters, Granted
  <2>4. Waiters(s)' = Waiters(s) \cup {t}
    BY <2>1, <2>2 DEF Waiters, TypeOK
  <2>5. \A r \in Sem \ {s} : Waiters(r)' = Waiters(r)
    BY <2>1, <2>2 DEF Waiters, TypeOK
  <2>6. \A r \in Sem : Granted(r)' = Granted(r)
    BY <2>1, <2>2 DEF Granted, TypeOK
  <2>7. AbsWaiters' = [AbsWaiters EXCEPT ![s] = Waiters(s) \cup {t}]
    BY <2>4, <2>5, WaitersExcept
  <2>8. AbsGranted' = AbsGranted
    BY <2>6 DEF AbsGranted
  <2>. QED  BY <2>1, <2>3, <2>7, <2>8 DEF Abs!Wait, AbsWaiters, AbsGranted
<1>. QED  BY <1>1, <1>2, <1>3 DEF WaitSem

\* The task at the tail of a sorted queue: none in the queue is more urgent.
LEMMA TailIsMostUrgent ==
  ASSUME IInv, NEW s \in Sem, waiting[s] # <<>>
  PROVE  /\ mt_peeklast(waiting[s]) \in Waiters(s)
         /\ \A u \in Waiters(s) : priority[u] <= priority[mt_peeklast(waiting[s])]
<1>. DEFINE q == waiting[s]
<1>1. q \in Seq(Task) /\ Members(q) = Waiters(s) /\ Sorted(q, priority)
  BY QueueFacts DEF Waiters
<1>. HIDE DEF q
<1>2. mt_peeklast(q) \in Members(q) /\ \A u \in Members(q) : priority[u] <= priority[mt_peeklast(q)]
  <2>1. q # <<>>
    BY DEF q
  <2>2. Len(q) \in Nat \ {0}
    BY <1>1, <2>1
  <2>3. \A i \in 1 .. Len(q) : priority[q[i]] <= priority[q[Len(q)]]
    <3>1. \A i \in 1 .. Len(q) : q[i] \in Task
      BY <1>1
    <3>2. \A i \in 1 .. Len(q) : priority[q[i]] \in Nat
      BY <3>1, SemAssumption
    <3>. QED  BY <1>1, <2>2, <3>2 DEF Sorted
  <2>. QED  BY <2>2, <2>3 DEF mt_peeklast, Members
<1>. QED  BY <1>1, <1>2 DEF q

\* A signal is counted or granted to a most urgent waiter.
LEMMA SignalRefines ==
  ASSUME IInv, NEW s \in Sem, SignalBounded(s)
  PROVE  Abs!Count(s) \/ \E t \in Task : Abs!Grant(t, s)
<1>. USE DEF IInv
<1>1. TypeOK /\ SignalSem(s)
  BY DEF SignalBounded
<1>2. CASE waiting[s] = <<>>
  <2>1. Cardinality({t \in Task : at[t] = s}) \in Nat
    <3>1. {t \in Task : at[t] = s} \subseteq Task
      OBVIOUS
    <3>. QED  BY <3>1, SemAssumption, FS_Subset, FS_CardinalityType
  <2>2. value[s] \in Nat /\ UINT_MOD \in Nat \ {0} /\ value[s] + 1 \in 0 .. UINT_MOD - 1
    BY <1>1, <2>1, SemAssumption DEF SignalBounded, TypeOK
  <2>3. (value[s] + 1) % UINT_MOD = value[s] + 1
    <3>1. \A m \in Nat \ {0} : \A n \in 0 .. m - 1 : n % m = n
      OBVIOUS
    <3>. QED  BY <2>2, <3>1
  <2>4. value' = [value EXCEPT ![s] = (value[s] + 1) % UINT_MOD] /\ at' = at /\ outcome' = outcome
    BY <1>1, <1>2 DEF SignalSem
  <2>5. value' = [value EXCEPT ![s] = value[s] + 1]
    BY <2>3, <2>4
  <2>6. AbsWaiters' = AbsWaiters /\ AbsGranted' = AbsGranted
    BY <2>4, SameCalls
  <2>7. AbsWaiters[s] = {}
    BY <1>2, EmptyQueue DEF AbsWaiters
  <2>. QED  BY <2>5, <2>6, <2>7 DEF Abs!Count, AbsWaiters, AbsGranted
<1>3. CASE waiting[s] # <<>>
  <2>. DEFINE t == mt_peeklast(waiting[s])
  <2>1. t \in Waiters(s) /\ \A u \in Waiters(s) : priority[u] <= priority[t]
    BY <1>3, TailIsMostUrgent
  <2>2. outcome' = [outcome EXCEPT ![t] = "true"] /\ UNCHANGED <<value, at>>
    BY <1>1, <1>3 DEF SignalSem
  <2>. HIDE DEF t
  <2>3. t \in Task /\ at[t] = s /\ outcome[t] = "none"
    BY <2>1 DEF Waiters
  <2>4. Waiters(s)' = Waiters(s) \ {t} /\ Granted(s)' = Granted(s) \cup {t}
    BY <1>1, <2>2, <2>3 DEF Waiters, Granted, TypeOK
  <2>5. \A r \in Sem \ {s} : Waiters(r)' = Waiters(r) /\ Granted(r)' = Granted(r)
    BY <1>1, <2>2, <2>3 DEF Waiters, Granted, TypeOK
  <2>6. /\ AbsWaiters' = [AbsWaiters EXCEPT ![s] = Waiters(s) \ {t}]
        /\ AbsGranted' = [AbsGranted EXCEPT ![s] = Granted(s) \cup {t}]
    BY <2>4, <2>5, WaitersExcept, GrantedExcept
  <2>7. Abs!Grant(t, s)
    BY <2>1, <2>2, <2>6 DEF Abs!Grant, AbsWaiters, AbsGranted
  <2>. QED  BY <2>3, <2>7
<1>. QED  BY <1>2, <1>3

\* A flush loses the count and sends the waiters home, all with an event or none.
LEMMA FlushRefines ==
  ASSUME IInv, NEW s \in Sem, NEW ok \in BOOLEAN, FlushSem(s, ok)
  PROVE  Abs!Flush(s, ok)
<1>1. TypeOK
  BY DEF IInv
<1>2. Members(waiting[s]) = Waiters(s)
  BY QueueFacts DEF Waiters
<1>3. /\ value' = [value EXCEPT ![s] = 0]
      /\ outcome' = [t \in Task |-> IF t \notin Waiters(s) THEN outcome[t]
                                    ELSE IF ok THEN "true" ELSE "false"]
      /\ at' = at
  BY <1>2 DEF FlushSem
<1>4. \A r \in Sem \ {s} : Waiters(r)' = Waiters(r) /\ Granted(r)' = Granted(r)
  BY <1>1, <1>3 DEF Waiters, Granted, TypeOK
<1>5. Waiters(s)' = {}
  BY <1>3 DEF Waiters
<1>6. Granted(s)' = IF ok THEN Granted(s) \cup Waiters(s) ELSE Granted(s)
  <2>1. CASE ok
    BY <1>3, <2>1 DEF Waiters, Granted
  <2>2. CASE ~ok
    BY <1>3, <2>2 DEF Waiters, Granted
  <2>. QED  BY <2>1, <2>2
<1>7. AbsWaiters' = [AbsWaiters EXCEPT ![s] = {}]
  BY <1>4, <1>5, WaitersExcept
<1>8. AbsGranted' = IF ok THEN [AbsGranted EXCEPT ![s] = Granted(s) \cup Waiters(s)] ELSE AbsGranted
  <2>1. CASE ok
    BY <1>4, <1>6, <2>1, GrantedExcept
  <2>2. CASE ~ok
    <3>1. \A r \in Sem : Granted(r)' = Granted(r)
      BY <1>4, <1>6, <2>2
    <3>. QED  BY <2>2, <3>1 DEF AbsGranted
  <2>. QED  BY <2>1, <2>2
<1>. QED  BY <1>3, <1>7, <1>8 DEF Abs!Flush, AbsWaiters, AbsGranted

\* A timeout, or a Ready from elsewhere, ends the wait without an event.
LEMMA GiveUpRefines ==
  ASSUME IInv, NEW t \in Task, GiveUp(t)
  PROVE  \E s \in Sem : Abs!Cancel(t, s)
<1>1. TypeOK
  BY DEF IInv
<1>2. PICK s \in Sem : at[t] = s /\ outcome[t] = "none"
  BY <1>1 DEF GiveUp, IsBlocked, TypeOK
<1>3. outcome' = [outcome EXCEPT ![t] = "false"] /\ value' = value /\ at' = at
  BY DEF GiveUp
<1>4. t \in Waiters(s) /\ Waiters(s)' = Waiters(s) \ {t}
  BY <1>1, <1>2, <1>3 DEF Waiters, TypeOK
<1>5. \A r \in Sem \ {s} : Waiters(r)' = Waiters(r)
  BY <1>1, <1>2, <1>3 DEF Waiters, TypeOK
<1>6. \A r \in Sem : Granted(r)' = Granted(r)
  BY <1>1, <1>2, <1>3 DEF Granted, TypeOK
<1>7. AbsWaiters' = [AbsWaiters EXCEPT ![s] = Waiters(s) \ {t}] /\ AbsGranted' = AbsGranted
  BY <1>2, <1>4, <1>5, <1>6, WaitersExcept DEF AbsGranted
<1>8. Abs!Cancel(t, s)
  BY <1>2, <1>3, <1>4, <1>7 DEF Abs!Cancel, AbsWaiters, AbsGranted
<1>. QED  BY <1>2, <1>8

\* A woken task returns, with the event it was given or with none.
LEMMA ReturnRefines ==
  ASSUME IInv, NEW t \in Task, WaitReturns(t)
  PROVE  UNCHANGED absVars \/ \E s \in Sem : Abs!Return(t, s)
<1>1. TypeOK /\ NoSem \notin Sem
  BY SemAssumption DEF IInv
<1>2. PICK s \in Sem : at[t] = s /\ outcome[t] \in {"true", "false"}
  BY <1>1 DEF WaitReturns, IsWoken, TypeOK
<1>3. value' = value /\ at' = [at EXCEPT ![t] = NoSem] /\ outcome' = [outcome EXCEPT ![t] = "none"]
  BY DEF WaitReturns
<1>4. \A r \in Sem : Waiters(r)' = Waiters(r)
  BY <1>1, <1>2, <1>3 DEF Waiters, TypeOK
<1>5. \A r \in Sem \ {s} : Granted(r)' = Granted(r)
  BY <1>1, <1>2, <1>3 DEF Granted, TypeOK
<1>6. Granted(s)' = Granted(s) \ {t}
  BY <1>1, <1>2, <1>3 DEF Granted, TypeOK
<1>7. t \in Granted(s) <=> outcome[t] = "true"
  BY <1>2 DEF Granted
<1>8. AbsWaiters' = AbsWaiters /\ AbsGranted' = [AbsGranted EXCEPT ![s] = Granted(s) \ {t}]
  BY <1>2, <1>4, <1>5, <1>6, GrantedExcept DEF AbsWaiters
<1>9. CASE outcome[t] = "true"
  BY <1>2, <1>3, <1>7, <1>8, <1>9 DEF Abs!Return, AbsWaiters, AbsGranted
<1>10. CASE outcome[t] # "true"
  <2>1. Granted(s)' = Granted(s)
    BY <1>6, <1>7, <1>10
  <2>2. AbsGranted' = AbsGranted
    BY <1>5, <2>1 DEF AbsGranted
  <2>. QED  BY <1>3, <1>8, <2>2 DEF absVars
<1>. QED  BY <1>9, <1>10

\* New semaphores: the initial counts, nobody waiting and nothing granted.
LEMMA InitRefines == Init => Abs!Init
<1>. SUFFICES ASSUME Init PROVE Abs!Init
  OBVIOUS
<1>1. \A s \in Sem : Waiters(s) = {} /\ Granted(s) = {}
  BY SemAssumption DEF Init, SemInit, Waiters, Granted
<1>. QED  BY <1>1 DEF Init, SemInit, Abs!Init

\* sem.c implements the counting semaphore of MtSemAbs: an event signalled is
\* counted or given to one most urgent waiter, and stays so until a wait takes it,
\* whatever timeouts, Ready calls and flushes fall in between; only a flush drops
\* events that are counted.
THEOREM SemImplementsCounting == Spec => IsCountingSemaphore
<1>1. Init => Abs!Init
  BY InitRefines
<1>2. IInv /\ [Next]_semVars => [Abs!Next]_absVars
  <2>. SUFFICES ASSUME IInv, [Next]_semVars PROVE Abs!Next \/ UNCHANGED absVars
    OBVIOUS
  <2>1. ASSUME NEW t \in Task, NEW s \in Sem, WaitSem(t, s)
        PROVE  Abs!Next \/ UNCHANGED absVars
    BY <2>1, WaitRefines DEF Abs!Next
  <2>2. ASSUME NEW s \in Sem, SignalBounded(s)
        PROVE  Abs!Next \/ UNCHANGED absVars
    BY <2>2, SignalRefines DEF Abs!Next
  <2>3. ASSUME NEW s \in Sem, NEW ok \in BOOLEAN, FlushSem(s, ok)
        PROVE  Abs!Next \/ UNCHANGED absVars
    BY <2>3, FlushRefines DEF Abs!Next
  <2>4. ASSUME NEW t \in Task, Timeout(t) \/ GiveUp(t)
        PROVE  Abs!Next \/ UNCHANGED absVars
    BY <2>4, GiveUpRefines DEF Timeout, Abs!Next
  <2>5. ASSUME NEW t \in Task, WaitReturns(t)
        PROVE  Abs!Next \/ UNCHANGED absVars
    BY <2>5, ReturnRefines DEF Abs!Next
  <2>6. CASE UNCHANGED semVars
    BY <2>6, SameCalls DEF semVars, absVars
  <2>. QED  BY <2>1, <2>2, <2>3, <2>4, <2>5, <2>6 DEF Next
<1>3. Init => IInv
  BY InitIInv
<1>4. IInv /\ [Next]_semVars => IInv'
  BY NextIInv
<1>. QED  BY <1>1, <1>2, <1>3, <1>4, PTL DEF Spec, IsCountingSemaphore, Abs!Spec, Abs!vars, absVars, AbsWaiters, AbsGranted

=============================================================================
