------------------------ MODULE MtPhilosophersProofs ------------------------
(***************************************************************************)
(* The monitors of MTask and the philosophers over them, for any number of *)
(* philosophers: one task is inside a monitor and owns it, in filo and in  *)
(* sfilo; in sfilo neighbours never share a fork and no hungry philosopher *)
(* is forgotten in the queue of the condition.                             *)
(***************************************************************************)
EXTENDS MtPhilosophers, MtSemProofs

-----------------------------------------------------------------------------
(***************************************************************************)
(* The invariant of the monitors, whatever the program.                    *)
(***************************************************************************)

MonTyped ==
  /\ owner \in [Sem -> Task \cup {NoTask}]
  /\ sleepers \in [Cond -> Seq(Task)]
  /\ stage \in [Task -> Stage]
  /\ on \in [Task -> Sem \cup {NoSem}]
  /\ success \in [Task -> BOOLEAN]

\* A task has a monitor unless it is out, and it is in a wait for the semaphore
\* only on its way into the monitor, for the first time or after a condition.
Places ==
  \A t \in Task :
    /\ stage[t] = "out" <=> on[t] = NoSem
    /\ at[t] # NoSem => stage[t] \in {"out", "returning"}
    /\ at[t] # NoSem /\ stage[t] = "returning" => at[t] = on[t]

\* The tasks in the queue of a condition wait on its monitor.
Sleeping(t, c) == t \in Members(sleepers[c])

InOrder(c) == Distinct(sleepers[c]) /\ Sorted(sleepers[c], priority)

\* The tasks that wait are in the queue of one condition each.
SleepersQueued ==
  /\ \A c \in Cond : InOrder(c)
  /\ \A t \in Task, c \in Cond : Sleeping(t, c) => stage[t] = "waiting" /\ on[t] = monitorOf[c]
  /\ \A t \in Task : stage[t] = "waiting" => \E c \in Cond : Sleeping(t, c)
  /\ \A t \in Task, c \in Cond, d \in Cond : Sleeping(t, c) /\ Sleeping(t, d) => c = d

\* The two halves of OneInside for one monitor: where its token is, and its owner.
Token(m) ==
  \/ value[m] = 1 /\ Holders(m) = {}
  \/ value[m] = 0 /\ \E t \in Task : Holders(m) = {t}

Owned(m) == \A t \in Task : owner[m] = t <=> stage[t] = "in" /\ on[t] = m

MonInv ==
  /\ IInv /\ MonTyped /\ Places /\ SleepersQueued
  /\ ~panic
  /\ \A m \in Sem : Token(m) /\ Owned(m)

-----------------------------------------------------------------------------

\* A new monitor has its token in the semaphore.
LEMMA MonInit_MonInv == MonInit => MonInv
<1>. SUFFICES ASSUME MonInit PROVE MonInv
  OBVIOUS
<1>. USE MonitorAssumption, SemAssumption DEF MonInit
<1>1. IInv
  BY InitIInv DEF Init
<1>2. MonTyped
  BY DEF MonTyped, Stage
<1>3. Places
  BY DEF Places, SemInit
<1>4. \A c \in Cond : Members(sleepers[c]) = {} /\ InOrder(c)
  BY DEF Members, InOrder, Distinct, Sorted
<1>5. SleepersQueued
  BY <1>4 DEF SleepersQueued, Sleeping
<1>6. ~panic
  OBVIOUS
<1>7. ASSUME NEW m \in Sem PROVE Token(m) /\ Owned(m)
  <2>1. value[m] = 1
    BY DEF SemInit
  <2>2. Holders(m) = {}
    BY DEF Holders, Granted, SemInit
  <2>3. Owned(m)
    BY DEF Owned
  <2>. QED  BY <2>1, <2>2, <2>3 DEF Token
<1>. QED  BY <1>1, <1>2, <1>3, <1>5, <1>6, <1>7 DEF MonInv

\* The task has the monitor in one form or another.
Holds(t, m) ==
  \/ at[t] = m /\ outcome[t] = "true"
  \/ stage[t] \in {"entering", "in", "leaving"} /\ on[t] = m

\* The holders of the token, task by task.
LEMMA HoldersAre == \A m \in Sem : Holders(m) = {t \in Task : Holds(t, m)}
BY DEF Holders, Granted, Holds

\* The same after a step.
LEMMA HoldersAreNext == \A m \in Sem : Holders(m)' = {t \in Task : Holds(t, m)'}
BY DEF Holders, Granted, Holds

\* The types of the semaphores and of the monitors together.
LEMMA Types ==
  ASSUME MonInv
  PROVE  /\ TypeOK /\ MonTyped
         /\ value \in [Sem -> 0 .. UINT_MOD - 1]
         /\ at \in [Task -> Sem \cup {NoSem}]
         /\ outcome \in [Task -> {"none", "true", "false"}]
         /\ stage \in [Task -> Stage]
         /\ on \in [Task -> Sem \cup {NoSem}]
         /\ NoSem \notin Sem
BY SemAssumption DEF MonInv, IInv, TypeOK, MonTyped

\* A step at the end of which the same tasks have the monitor.
LEMMA TokenKept ==
  ASSUME NEW m \in Sem, Token(m), value'[m] = value[m],
         \A u \in Task : Holds(u, m)' <=> Holds(u, m)
  PROVE  Token(m)'
<1>1. Holders(m)' = Holders(m)
  BY HoldersAre, HoldersAreNext
<1>. QED  BY <1>1 DEF Token

\* A task takes a free monitor.
LEMMA TokenTaken ==
  ASSUME NEW m \in Sem, Token(m), NEW t \in Task, value[m] > 0, value'[m] = value[m] - 1,
         \A u \in Task : Holds(u, m)' <=> Holds(u, m) \/ u = t
  PROVE  Token(m)'
<1>1. value[m] = 1 /\ Holders(m) = {}
  BY DEF Token
<1>2. Holders(m)' = {t}
  BY <1>1, HoldersAre, HoldersAreNext
<1>. QED  BY <1>1, <1>2 DEF Token

\* The task that has the monitor makes it free.
LEMMA TokenFreed ==
  ASSUME NEW m \in Sem, Token(m), NEW t \in Task, Holds(t, m),
         value[m] = 0 => value'[m] = 1,
         \A u \in Task : Holds(u, m)' <=> Holds(u, m) /\ u # t
  PROVE  Token(m)'
<1>1. value[m] = 0 /\ Holders(m) = {t}
  BY HoldersAre DEF Token
<1>2. Holders(m)' = {}
  BY <1>1, HoldersAre, HoldersAreNext
<1>. QED  BY <1>1, <1>2 DEF Token

\* The task that has the monitor gives it to another.
LEMMA TokenPassed ==
  ASSUME NEW m \in Sem, Token(m), NEW t \in Task, NEW v \in Task, Holds(t, m),
         value'[m] = value[m],
         \A u \in Task : Holds(u, m)' <=> (Holds(u, m) /\ u # t) \/ u = v
  PROVE  Token(m)'
<1>1. value[m] = 0 /\ Holders(m) = {t}
  BY HoldersAre DEF Token
<1>2. Holders(m)' = {v}
  BY <1>1, HoldersAre, HoldersAreNext
<1>. QED  BY <1>1, <1>2 DEF Token

\* The queues of the conditions when nobody starts or stops waiting.
LEMMA SleepersKept ==
  ASSUME SleepersQueued, sleepers' = sleepers,
         \A u \in Task : stage'[u] = "waiting" <=> stage[u] = "waiting",
         \A u \in Task : stage[u] = "waiting" => on'[u] = on[u]
  PROVE  SleepersQueued'
<1>1. \A c \in Cond : InOrder(c)' <=> InOrder(c)
  BY DEF InOrder
<1>2. \A u \in Task, c \in Cond : Sleeping(u, c)' <=> Sleeping(u, c)
  BY DEF Sleeping
<1>. QED  BY <1>1, <1>2 DEF SleepersQueued

\* A task that is inside, entering or leaving, is in no wait for a semaphore.
LEMMA InsideNotWaiting ==
  ASSUME MonInv, NEW t \in Task, stage[t] \in {"entering", "in", "leaving", "waiting"}
  PROVE  at[t] = NoSem /\ on[t] \in Sem
BY Types DEF MonInv, Places

\* EnterMonitor, up to the return or the block of its wait.
LEMMA EnterMonitorKeeps ==
  ASSUME MonInv, NEW t \in Task, NEW m \in Sem, EnterMonitor(t, m)
  PROVE  MonInv'
<1>. USE Types DEF MonInv
<1>1. /\ stage[t] = "out" /\ at[t] = NoSem /\ on[t] = NoSem
      /\ owner' = owner /\ sleepers' = sleepers /\ success' = success
  BY DEF EnterMonitor, Places
<1>2. owner[m] # t
  BY <1>1 DEF Owned
<1>3. /\ panic' = panic
      /\ \/ WaitTakes(m) /\ Moves(t, "entering", m)
         \/ WaitBlocks(t, m, FALSE) /\ UNCHANGED <<stage, on>>
  BY <1>2 DEF EnterMonitor
<1>4. CASE WaitTakes(m) /\ Moves(t, "entering", m)
  <2>. USE <1>4 DEF Moves
  <2>1. IInv'
    BY WaitTakesIInv
  <2>2. /\ at' = at /\ outcome' = outcome /\ value[m] > 0
        /\ value' = [value EXCEPT ![m] = @ - 1]
    BY DEF WaitTakes
  <2>3. /\ stage' = [stage EXCEPT ![t] = "entering"]
        /\ on' = [on EXCEPT ![t] = m]
    OBVIOUS
  <2>4. MonTyped'
    BY <1>1, <2>3 DEF MonTyped, Stage
  <2>5. Places'
    BY <1>1, <2>2, <2>3 DEF Places, Stage
  <2>6. SleepersQueued'
    BY <1>1, <2>3, SleepersKept
  <2>7. ASSUME NEW r \in Sem PROVE Owned(r)'
    BY <1>1, <2>3 DEF Owned
  <2>8. ASSUME NEW r \in Sem PROVE Token(r)'
    <3>1. CASE r = m
      <4>1. \A u \in Task : Holds(u, m)' <=> Holds(u, m) \/ u = t
        BY <1>1, <2>2, <2>3 DEF Holds
      <4>2. value'[m] = value[m] - 1
        BY <2>2
      <4>. QED  BY <2>2, <3>1, <4>1, <4>2, TokenTaken
    <3>2. CASE r # m
      <4>1. \A u \in Task : Holds(u, r)' <=> Holds(u, r)
        BY <1>1, <2>2, <2>3, <3>2 DEF Holds
      <4>2. value'[r] = value[r]
        BY <2>2, <3>2
      <4>. QED  BY <4>1, <4>2, TokenKept
    <3>. QED  BY <3>1, <3>2
  <2>. QED  BY <1>3, <2>1, <2>4, <2>5, <2>6, <2>7, <2>8
<1>5. CASE WaitBlocks(t, m, FALSE) /\ UNCHANGED <<stage, on>>
  <2>. USE <1>5
  <2>1. IInv'
    BY <1>1, WaitBlocksIInv
  <2>2. /\ at' = [at EXCEPT ![t] = m] /\ outcome' = [outcome EXCEPT ![t] = "none"]
        /\ value' = value
    BY DEF WaitBlocks
  <2>4. MonTyped'
    BY <1>1 DEF MonTyped
  <2>5. Places'
    BY <1>1, <2>2 DEF Places
  <2>6. SleepersQueued'
    BY <1>1, SleepersKept
  <2>7. ASSUME NEW r \in Sem PROVE Owned(r)'
    BY <1>1 DEF Owned
  <2>8. ASSUME NEW r \in Sem PROVE Token(r)'
    <3>1. \A u \in Task : Holds(u, r)' <=> Holds(u, r)
      BY <1>1, <2>2 DEF Holds
    <3>. QED  BY <2>2, <3>1, TokenKept
  <2>. QED  BY <1>3, <2>1, <2>4, <2>5, <2>6, <2>7, <2>8
<1>. QED  BY <1>3, <1>4, <1>5

\* The wait of EnterMonitor returns.
LEMMA EnterResumesKeeps ==
  ASSUME MonInv, NEW t \in Task, EnterResumes(t)
  PROVE  MonInv'
<1>. USE Types DEF MonInv
<1>1. /\ stage[t] = "out" /\ at[t] \in Sem /\ on[t] = NoSem
      /\ owner' = owner /\ sleepers' = sleepers /\ success' = success /\ panic' = panic
  BY DEF EnterResumes, Places, WaitReturns, IsWoken
<1>2. /\ at' = [at EXCEPT ![t] = NoSem] /\ outcome' = [outcome EXCEPT ![t] = "none"]
      /\ value' = value
  BY DEF EnterResumes, WaitReturns
<1>3. IInv'
  BY WaitReturnsIInv DEF EnterResumes
<1>4. CASE outcome[t] = "true"
  <2>3. /\ stage' = [stage EXCEPT ![t] = "entering"]
        /\ on' = [on EXCEPT ![t] = at[t]]
    BY <1>4 DEF EnterResumes, Moves
  <2>4. MonTyped'
    BY <1>1, <2>3 DEF MonTyped, Stage
  <2>5. Places'
    BY <1>1, <1>2, <2>3 DEF Places, Stage
  <2>6. SleepersQueued'
    BY <1>1, <2>3, SleepersKept
  <2>7. ASSUME NEW r \in Sem PROVE Owned(r)'
    BY <1>1, <2>3 DEF Owned
  <2>8. ASSUME NEW r \in Sem PROVE Token(r)'
    <3>1. \A u \in Task : Holds(u, r)' <=> Holds(u, r)
      BY <1>1, <1>2, <1>4, <2>3 DEF Holds
    <3>. QED  BY <1>2, <3>1, TokenKept
  <2>. QED  BY <1>1, <1>3, <2>4, <2>5, <2>6, <2>7, <2>8
<1>5. CASE outcome[t] # "true"
  <2>3. UNCHANGED <<stage, on>>
    BY <1>5 DEF EnterResumes
  <2>4. MonTyped'
    BY <1>1, <2>3 DEF MonTyped
  <2>5. Places'
    BY <1>1, <1>2, <2>3 DEF Places
  <2>6. SleepersQueued'
    BY <1>1, <2>3, SleepersKept
  <2>7. ASSUME NEW r \in Sem PROVE Owned(r)'
    BY <1>1, <2>3 DEF Owned
  <2>8. ASSUME NEW r \in Sem PROVE Token(r)'
    <3>1. \A u \in Task : Holds(u, r)' <=> Holds(u, r)
      BY <1>1, <1>2, <1>5, <2>3 DEF Holds
    <3>. QED  BY <1>2, <3>1, TokenKept
  <2>. QED  BY <1>1, <1>3, <2>4, <2>5, <2>6, <2>7, <2>8
<1>. QED  BY <1>4, <1>5

\* The invariant of the semaphores is untouched when their state is.
LEMMA SemUnchanged == ASSUME IInv, UNCHANGED semVars PROVE IInv'
BY DEF semVars, IInv, TypeOK, NoLostWakeup, WaitersQueued

\* EnterMonitor stores the owner.
LEMMA EnterOwnsKeeps ==
  ASSUME MonInv, NEW t \in Task, EnterOwns(t)
  PROVE  MonInv'
<1>. USE Types DEF MonInv
<1>1. /\ stage[t] = "entering" /\ at[t] = NoSem /\ on[t] \in Sem
      /\ sleepers' = sleepers /\ success' = success /\ panic' = panic
      /\ owner' = [owner EXCEPT ![on[t]] = t]
      /\ UNCHANGED semVars
  BY InsideNotWaiting DEF EnterOwns
<1>2. at' = at /\ outcome' = outcome /\ value' = value
  BY <1>1 DEF semVars
<1>3. IInv'
  BY <1>1, SemUnchanged
<1>4. /\ stage' = [stage EXCEPT ![t] = "in"]
      /\ on' = [on EXCEPT ![t] = on[t]]
  BY DEF EnterOwns, Moves
<1>5. on' = on
  BY <1>4
<1>6. MonTyped'
  BY <1>1, <1>4, <1>5 DEF MonTyped, Stage
<1>7. Places'
  BY <1>1, <1>2, <1>4, <1>5 DEF Places, Stage
<1>8. SleepersQueued'
  BY <1>1, <1>4, <1>5, SleepersKept
<1>9. ASSUME NEW u \in Task, u # t PROVE ~ (stage[u] = "in" /\ on[u] = on[t])
  <2>1. Holds(t, on[t])
    BY <1>1 DEF Holds
  <2>2. Holders(on[t]) = {t}
    BY <1>1, <2>1, HoldersAre DEF Token
  <2>3. ~ Holds(u, on[t])
    BY <1>1, <1>9, <2>2, HoldersAre
  <2>. QED  BY <2>3 DEF Holds
<1>10. ASSUME NEW r \in Sem PROVE Owned(r)'
  <2>1. CASE r = on[t]
    <3>1. owner'[r] = t
      BY <1>1, <2>1 DEF MonTyped
    <3>. QED  BY <1>4, <1>5, <1>9, <2>1, <3>1 DEF Owned
  <2>2. CASE r # on[t]
    <3>1. owner'[r] = owner[r]
      BY <1>1, <2>2 DEF MonTyped
    <3>. QED  BY <1>1, <1>4, <1>5, <2>2, <3>1 DEF Owned
  <2>. QED  BY <2>1, <2>2
<1>11. ASSUME NEW r \in Sem PROVE Token(r)'
  <2>1. \A u \in Task : Holds(u, r)' <=> Holds(u, r)
    BY <1>1, <1>2, <1>4, <1>5 DEF Holds
  <2>. QED  BY <1>2, <2>1, TokenKept
<1>. QED  BY <1>1, <1>3, <1>6, <1>7, <1>8, <1>10, <1>11

\* LeaveMonitor clears the owner.
LEMMA LeaveMonitorKeeps ==
  ASSUME MonInv, NEW t \in Task, LeaveMonitor(t)
  PROVE  MonInv'
<1>. USE Types DEF MonInv
<1>1. /\ stage[t] = "in" /\ at[t] = NoSem /\ on[t] \in Sem
      /\ sleepers' = sleepers /\ success' = success /\ UNCHANGED semVars
  BY InsideNotWaiting DEF LeaveMonitor
<1>2. owner[on[t]] = t
  BY <1>1 DEF Owned
<1>3. /\ panic' = panic
      /\ owner' = [owner EXCEPT ![on[t]] = NoTask]
      /\ stage' = [stage EXCEPT ![t] = "leaving"]
      /\ on' = [on EXCEPT ![t] = on[t]]
  BY <1>2 DEF LeaveMonitor, Moves
<1>4. at' = at /\ outcome' = outcome /\ value' = value
  BY <1>1 DEF semVars
<1>5. on' = on
  BY <1>3
<1>6. IInv'
  BY <1>1, SemUnchanged
<1>7. MonTyped'
  BY <1>1, <1>3, <1>5 DEF MonTyped, Stage
<1>8. Places'
  BY <1>1, <1>3, <1>4, <1>5 DEF Places, Stage
<1>9. SleepersQueued'
  BY <1>1, <1>3, <1>5, SleepersKept
<1>10. ASSUME NEW r \in Sem PROVE Owned(r)'
  <2>1. CASE r = on[t]
    <3>1. owner'[r] = NoTask
      BY <1>1, <1>3, <2>1 DEF MonTyped
    <3>2. \A u \in Task : u # t => ~ (stage[u] = "in" /\ on[u] = r)
      BY <1>1, <1>2, <2>1 DEF Owned
    <3>. QED  BY <1>1, <1>3, <1>5, <2>1, <3>1, <3>2, MonitorAssumption DEF Owned
  <2>2. CASE r # on[t]
    <3>1. owner'[r] = owner[r]
      BY <1>1, <1>3, <2>2 DEF MonTyped
    <3>. QED  BY <1>1, <1>3, <1>5, <2>2, <3>1 DEF Owned
  <2>. QED  BY <2>1, <2>2
<1>11. ASSUME NEW r \in Sem PROVE Token(r)'
  <2>1. \A u \in Task : Holds(u, r)' <=> Holds(u, r)
    BY <1>1, <1>3, <1>4, <1>5 DEF Holds
  <2>. QED  BY <1>4, <2>1, TokenKept
<1>. QED  BY <1>1, <1>3, <1>6, <1>7, <1>8, <1>9, <1>10, <1>11

\* The task that has the monitor signals the semaphore and is out or waits: the
\* monitor goes to the task at the tail of the queue of the semaphore, or is free.
LEMMA SignalPasses ==
  ASSUME MonInv, NEW t \in Task, NEW m \in Sem, SignalSem(m),
         stage[t] \in {"in", "leaving"}, on[t] = m,
         NEW s \in {"out", "waiting"}, NEW o,
         stage' = [stage EXCEPT ![t] = s], on' = [on EXCEPT ![t] = o]
  PROVE  /\ at' = at
         /\ \A r \in Sem : Token(r)'
<1>. USE Types DEF MonInv
<1>1. at[t] = NoSem
  BY InsideNotWaiting
<1>2. Holds(t, m)
  BY DEF Holds
<1>3. value[m] = 0
  BY <1>2, HoldersAre DEF Token
<1>4. CASE waiting[m] = <<>>
  <2>1. value' = [value EXCEPT ![m] = (@ + 1) % UINT_MOD] /\ at' = at /\ outcome' = outcome
    BY <1>4 DEF SignalSem
  <2>2. value'[m] = 1
    <3>1. UINT_MOD \in Nat /\ UINT_MOD > 1
      <4>1. InitValue[m] = 1 /\ InitValue[m] \in 0 .. UINT_MOD - 1
        BY SemAssumption, MonitorAssumption
      <4>. QED  BY <4>1, SemAssumption
    <3>2. \A k \in Nat : k > 1 => 1 % k = 1
      OBVIOUS
    <3>3. value'[m] = (value[m] + 1) % UINT_MOD
      BY <2>1
    <3>. QED  BY <1>3, <3>1, <3>2, <3>3
  <2>3. ASSUME NEW r \in Sem PROVE Token(r)'
    <3>1. CASE r = m
      <4>1. \A u \in Task : Holds(u, m)' <=> Holds(u, m) /\ u # t
        BY <1>1, <2>1 DEF Holds
      <4>. QED  BY <1>2, <2>2, <3>1, <4>1, TokenFreed
    <3>2. CASE r # m
      <4>1. \A u \in Task : Holds(u, r)' <=> Holds(u, r)
        BY <1>1, <2>1, <3>2 DEF Holds
      <4>2. value'[r] = value[r]
        BY <2>1, <3>2
      <4>. QED  BY <4>1, <4>2, TokenKept
    <3>. QED  BY <3>1, <3>2
  <2>. QED  BY <2>1, <2>3
<1>5. CASE waiting[m] # <<>>
  <2>. DEFINE v == mt_peeklast(waiting[m])
  <2>1. v \in Task /\ at[v] = m /\ outcome[v] = "none"
    <3>1. v \in Members(waiting[m])
      BY <1>5, SemAssumption, QueueFacts, GetLastKeepsOrder
    <3>. QED  BY <3>1, QueueFacts
  <2>2. outcome' = [outcome EXCEPT ![v] = "true"] /\ value' = value /\ at' = at
    BY <1>5 DEF SignalSem
  <2>. HIDE DEF v
  <2>3. ASSUME NEW r \in Sem PROVE Token(r)'
    <3>1. CASE r = m
      <4>1. \A u \in Task : Holds(u, m)' <=> (Holds(u, m) /\ u # t) \/ u = v
        BY <1>1, <2>1, <2>2 DEF Holds
      <4>. QED  BY <1>2, <2>1, <2>2, <3>1, <4>1, TokenPassed
    <3>2. CASE r # m
      <4>1. \A u \in Task : Holds(u, r)' <=> Holds(u, r)
        BY <1>1, <2>1, <2>2, <3>2 DEF Holds
      <4>. QED  BY <2>2, <4>1, TokenKept
    <3>. QED  BY <3>1, <3>2
  <2>. QED  BY <2>2, <2>3
<1>. QED  BY <1>4, <1>5

\* LeaveMonitor signals the semaphore.
LEMMA LeaveSignalsKeeps ==
  ASSUME MonInv, NEW t \in Task, LeaveSignals(t)
  PROVE  MonInv'
<1>. USE Types DEF MonInv
<1>1. /\ stage[t] = "leaving" /\ at[t] = NoSem /\ on[t] \in Sem /\ SignalSem(on[t])
      /\ owner' = owner /\ sleepers' = sleepers /\ success' = success /\ panic' = panic
      /\ stage' = [stage EXCEPT ![t] = "out"]
      /\ on' = [on EXCEPT ![t] = NoSem]
  BY InsideNotWaiting DEF LeaveSignals, Moves
<1>2. at' = at /\ \A r \in Sem : Token(r)'
  BY <1>1, SignalPasses
<1>3. IInv'
  BY <1>1, SignalSemIInv
<1>4. MonTyped'
  BY <1>1 DEF MonTyped, Stage
<1>5. Places'
  BY <1>1, <1>2 DEF Places, Stage
<1>6. SleepersQueued'
  BY <1>1, SleepersKept
<1>7. ASSUME NEW r \in Sem PROVE Owned(r)'
  BY <1>1 DEF Owned
<1>. QED  BY <1>1, <1>2, <1>3, <1>4, <1>5, <1>6, <1>7

\* A queue of tasks when one more is linked.
LEMMA Enqueued ==
  ASSUME NEW q \in Seq(Task), NEW t \in Task, t \notin Members(q),
         Distinct(q), Sorted(q, priority)
  PROVE  /\ mt_enqueue(q, priority, t) \in Seq(Task)
         /\ Members(mt_enqueue(q, priority, t)) = Members(q) \cup {t}
         /\ Distinct(mt_enqueue(q, priority, t))
         /\ Sorted(mt_enqueue(q, priority, t), priority)
BY SemAssumption, EnqueueKeepsOrder

\* The queues of the conditions when the task t goes to sleep in that of c.
LEMMA FallsAsleep ==
  ASSUME MonInv, NEW t \in Task, NEW c \in Cond, stage[t] = "in", on[t] = monitorOf[c],
         stage' = [stage EXCEPT ![t] = "waiting"], on' = on,
         sleepers' = [sleepers EXCEPT ![c] = mt_enqueue(@, priority, t)]
  PROVE  SleepersQueued' /\ sleepers' \in [Cond -> Seq(Task)]
<1>. USE Types DEF MonInv
<1>1. ~ Sleeping(t, c)
  BY DEF SleepersQueued
<1>2. sleepers \in [Cond -> Seq(Task)] /\ sleepers[c] \in Seq(Task) /\ InOrder(c)
  BY DEF MonTyped, SleepersQueued
<1>3. sleepers'[c] = mt_enqueue(sleepers[c], priority, t)
  BY <1>2
<1>4. /\ sleepers'[c] \in Seq(Task)
      /\ Members(sleepers'[c]) = Members(sleepers[c]) \cup {t}
      /\ Distinct(sleepers'[c])
      /\ Sorted(sleepers'[c], priority)
  <2>1. /\ t \notin Members(sleepers[c]) /\ Distinct(sleepers[c])
        /\ Sorted(sleepers[c], priority) /\ sleepers[c] \in Seq(Task)
    BY <1>1, <1>2 DEF InOrder, Sleeping
  <2>2. /\ mt_enqueue(sleepers[c], priority, t) \in Seq(Task)
        /\ Members(mt_enqueue(sleepers[c], priority, t)) = Members(sleepers[c]) \cup {t}
        /\ Distinct(mt_enqueue(sleepers[c], priority, t))
        /\ Sorted(mt_enqueue(sleepers[c], priority, t), priority)
    BY <2>1, Enqueued
  <2>. QED  BY <1>3, <2>2
<1>5. \A d \in Cond : d # c => sleepers'[d] = sleepers[d]
  BY <1>2
<1>6. \A d \in Cond : InOrder(d)'
  BY <1>4, <1>5 DEF InOrder, SleepersQueued
<1>7. \A u \in Task, d \in Cond : Sleeping(u, d)' <=> Sleeping(u, d) \/ (u = t /\ d = c)
  BY <1>4, <1>5 DEF Sleeping
<1>8. \A d \in Cond : ~ Sleeping(t, d)
  BY DEF SleepersQueued
<1>9. SleepersQueued'
  <2>1. \A u \in Task, d \in Cond : Sleeping(u, d)' => stage'[u] = "waiting" /\ on'[u] = monitorOf[d]
    BY <1>7 DEF SleepersQueued
  <2>2. \A u \in Task : stage'[u] = "waiting" => \E d \in Cond : Sleeping(u, d)'
    BY <1>7 DEF SleepersQueued
  <2>3. \A u \in Task, d \in Cond, e \in Cond : Sleeping(u, d)' /\ Sleeping(u, e)' => d = e
    BY <1>7, <1>8 DEF SleepersQueued
  <2>. QED  BY <1>6, <2>1, <2>2, <2>3 DEF SleepersQueued
<1>. QED  BY <1>2, <1>3, <1>4, <1>9

\* WaitCondition up to the block.
LEMMA WaitConditionKeeps ==
  ASSUME MonInv, NEW t \in Task, NEW c \in Cond, WaitCondition(t, c)
  PROVE  MonInv'
<1>. USE Types DEF MonInv
<1>. DEFINE m == monitorOf[c]
<1>1. /\ stage[t] = "in" /\ at[t] = NoSem /\ on[t] = m /\ m \in Sem
      /\ success' = success
  BY InsideNotWaiting DEF WaitCondition
<1>2. owner[m] = t
  BY <1>1 DEF Owned
<1>3. /\ panic' = panic /\ SignalSem(m)
      /\ owner' = [owner EXCEPT ![m] = NoTask]
      /\ stage' = [stage EXCEPT ![t] = "waiting"]
      /\ on' = [on EXCEPT ![t] = m]
      /\ sleepers' = [sleepers EXCEPT ![c] = mt_enqueue(@, priority, t)]
  BY <1>2 DEF WaitCondition, Moves
<1>4. on' = on
  BY <1>1, <1>3
<1>5. at' = at /\ \A r \in Sem : Token(r)'
  BY <1>1, <1>3, SignalPasses
<1>6. IInv'
  BY <1>1, <1>3, SignalSemIInv
<1>7. SleepersQueued' /\ sleepers' \in [Cond -> Seq(Task)]
  BY <1>1, <1>3, <1>4, FallsAsleep
<1>. HIDE DEF m
<1>8. MonTyped'
  BY <1>1, <1>3, <1>4, <1>7 DEF MonTyped, Stage
<1>9. Places'
  BY <1>1, <1>3, <1>4, <1>5 DEF Places, Stage
<1>10. ASSUME NEW r \in Sem PROVE Owned(r)'
  <2>1. CASE r = m
    <3>1. owner'[r] = NoTask
      BY <1>1, <1>3, <2>1 DEF MonTyped
    <3>2. \A u \in Task : u # t => ~ (stage[u] = "in" /\ on[u] = r)
      BY <1>1, <1>2, <2>1 DEF Owned
    <3>. QED  BY <1>1, <1>3, <1>4, <2>1, <3>1, <3>2, MonitorAssumption DEF Owned
  <2>2. CASE r # m
    <3>1. owner'[r] = owner[r]
      BY <1>1, <1>3, <2>2 DEF MonTyped
    <3>. QED  BY <1>1, <1>3, <1>4, <2>2, <3>1 DEF Owned
  <2>. QED  BY <2>1, <2>2
<1>. QED  BY <1>1, <1>3, <1>5, <1>6, <1>7, <1>8, <1>9, <1>10

\* WaitCondition takes the monitor again, or blocks for it.
LEMMA ReturnEntersKeeps ==
  ASSUME MonInv, NEW t \in Task, ReturnEnters(t)
  PROVE  MonInv'
<1>. USE Types DEF MonInv
<1>. DEFINE m == on[t]
<1>1. /\ stage[t] = "returning" /\ at[t] = NoSem /\ m \in Sem
      /\ sleepers' = sleepers /\ success' = success /\ panic' = panic
  BY DEF ReturnEnters, Places
<1>2. CASE /\ WaitTakes(m)
           /\ owner' = [owner EXCEPT ![m] = t]
           /\ Moves(t, "in", m)
  <2>1. /\ stage' = [stage EXCEPT ![t] = "in"]
        /\ on' = [on EXCEPT ![t] = m]
    BY <1>2 DEF Moves
  <2>2. on' = on
    BY <2>1
  <2>3. IInv'
    BY <1>1, <1>2, WaitTakesIInv
  <2>4. /\ at' = at /\ outcome' = outcome /\ value[m] > 0
        /\ value' = [value EXCEPT ![m] = @ - 1]
    BY <1>2 DEF WaitTakes
  <2>5. on[t] = m /\ owner' = [owner EXCEPT ![m] = t]
    BY <1>2
  <2>. HIDE DEF m
  <2>6. MonTyped'
    BY <1>1, <2>1, <2>2, <2>5 DEF MonTyped, Stage
  <2>7. Places'
    BY <1>1, <2>1, <2>2, <2>4 DEF Places, Stage
  <2>8. SleepersQueued'
    BY <1>1, <2>1, <2>2, SleepersKept
  <2>9. \A u \in Task : ~ Holds(u, m)
    BY <1>1, <2>4, HoldersAre DEF Token
  <2>10. ASSUME NEW r \in Sem PROVE Owned(r)'
    <3>1. CASE r = m
      <4>1. owner'[r] = t
        BY <1>1, <2>5, <3>1 DEF MonTyped
      <4>2. \A u \in Task : ~ (stage[u] = "in" /\ on[u] = r)
        BY <2>9, <3>1 DEF Holds
      <4>. QED  BY <2>1, <2>2, <2>5, <3>1, <4>1, <4>2 DEF Owned
    <3>2. CASE r # m
      <4>1. owner'[r] = owner[r]
        BY <1>1, <2>5, <3>2 DEF MonTyped
      <4>. QED  BY <2>1, <2>2, <2>5, <3>2, <4>1 DEF Owned
    <3>. QED  BY <3>1, <3>2
  <2>11. ASSUME NEW r \in Sem PROVE Token(r)'
    <3>1. CASE r = m
      <4>1. \A u \in Task : Holds(u, r)' <=> Holds(u, r) \/ u = t
        BY <1>1, <2>1, <2>2, <2>4, <2>5, <3>1 DEF Holds
      <4>2. value'[r] = value[r] - 1 /\ value[r] > 0
        BY <1>1, <2>4, <3>1
      <4>. QED  BY <4>1, <4>2, TokenTaken
    <3>2. CASE r # m
      <4>1. \A u \in Task : Holds(u, r)' <=> Holds(u, r)
        BY <1>1, <2>1, <2>2, <2>4, <2>5, <3>2 DEF Holds
      <4>2. value'[r] = value[r]
        BY <2>4, <3>2
      <4>. QED  BY <4>1, <4>2, TokenKept
    <3>. QED  BY <3>1, <3>2
  <2>. QED  BY <1>1, <2>3, <2>6, <2>7, <2>8, <2>10, <2>11
<1>3. CASE WaitBlocks(t, m, FALSE) /\ UNCHANGED <<owner, stage, on>>
  <2>1. IInv'
    BY <1>1, <1>3, WaitBlocksIInv
  <2>2. /\ at' = [at EXCEPT ![t] = m] /\ outcome' = [outcome EXCEPT ![t] = "none"]
        /\ value' = value
    BY <1>3 DEF WaitBlocks
  <2>3. MonTyped'
    BY <1>1, <1>3 DEF MonTyped
  <2>4. Places'
    BY <1>1, <1>3, <2>2 DEF Places
  <2>5. SleepersQueued'
    BY <1>1, <1>3, SleepersKept
  <2>6. ASSUME NEW r \in Sem PROVE Owned(r)'
    BY <1>3 DEF Owned
  <2>7. ASSUME NEW r \in Sem PROVE Token(r)'
    <3>1. \A u \in Task : Holds(u, r)' <=> Holds(u, r)
      BY <1>1, <1>3, <2>2 DEF Holds
    <3>. QED  BY <2>2, <3>1, TokenKept
  <2>. QED  BY <1>1, <2>1, <2>3, <2>4, <2>5, <2>6, <2>7
<1>. QED  BY <1>2, <1>3 DEF ReturnEnters

\* The blocked EnterMonitor of WaitCondition resumes.
LEMMA ReturnResumesKeeps ==
  ASSUME MonInv, NEW t \in Task, ReturnResumes(t)
  PROVE  MonInv'
<1>. USE Types DEF MonInv
<1>. DEFINE m == on[t]
<1>1. /\ stage[t] = "returning" /\ at[t] = m /\ m \in Sem
      /\ sleepers' = sleepers /\ success' = success /\ panic' = panic
  BY DEF ReturnResumes, WaitReturns, IsWoken, Places
<1>2. /\ at' = [at EXCEPT ![t] = NoSem] /\ outcome' = [outcome EXCEPT ![t] = "none"]
      /\ value' = value
  BY DEF ReturnResumes, WaitReturns
<1>3. IInv'
  BY WaitReturnsIInv DEF ReturnResumes
<1>4. CASE outcome[t] = "true"
  <2>1. /\ owner' = [owner EXCEPT ![m] = t]
        /\ stage' = [stage EXCEPT ![t] = "in"]
        /\ on' = [on EXCEPT ![t] = m]
    BY <1>4 DEF ReturnResumes, Moves
  <2>2. on' = on /\ on[t] = m
    BY <2>1
  <2>. HIDE DEF m
  <2>3. MonTyped'
    BY <1>1, <2>1, <2>2 DEF MonTyped, Stage
  <2>4. Places'
    BY <1>1, <1>2, <2>1, <2>2 DEF Places, Stage
  <2>5. SleepersQueued'
    BY <1>1, <2>1, <2>2, SleepersKept
  <2>6. ASSUME NEW u \in Task, u # t PROVE ~ (stage[u] = "in" /\ on[u] = m)
    <3>1. Holds(t, m)
      BY <1>1, <1>4 DEF Holds
    <3>2. Holders(m) = {t}
      BY <1>1, <3>1, HoldersAre DEF Token
    <3>3. ~ Holds(u, m)
      BY <1>1, <2>6, <3>2, HoldersAre
    <3>. QED  BY <3>3 DEF Holds
  <2>7. ASSUME NEW r \in Sem PROVE Owned(r)'
    <3>1. CASE r = m
      <4>1. owner'[r] = t
        BY <1>1, <2>1, <3>1 DEF MonTyped
      <4>. QED  BY <2>1, <2>2, <2>6, <3>1, <4>1 DEF Owned
    <3>2. CASE r # m
      <4>1. owner'[r] = owner[r]
        BY <1>1, <2>1, <3>2 DEF MonTyped
      <4>. QED  BY <2>1, <2>2, <3>2, <4>1 DEF Owned
    <3>. QED  BY <3>1, <3>2
  <2>8. ASSUME NEW r \in Sem PROVE Token(r)'
    <3>1. \A u \in Task : Holds(u, r)' <=> Holds(u, r)
      BY <1>1, <1>2, <1>4, <2>1, <2>2 DEF Holds
    <3>. QED  BY <1>2, <3>1, TokenKept
  <2>. QED  BY <1>1, <1>3, <2>3, <2>4, <2>5, <2>7, <2>8
<1>5. CASE outcome[t] # "true"
  <2>1. UNCHANGED <<owner, stage, on>>
    BY <1>5 DEF ReturnResumes
  <2>2. MonTyped'
    BY <1>1, <2>1 DEF MonTyped
  <2>3. Places'
    BY <1>1, <1>2, <2>1 DEF Places
  <2>4. SleepersQueued'
    BY <1>1, <2>1, SleepersKept
  <2>5. ASSUME NEW r \in Sem PROVE Owned(r)'
    BY <2>1 DEF Owned
  <2>6. ASSUME NEW r \in Sem PROVE Token(r)'
    <3>1. \A u \in Task : Holds(u, r)' <=> Holds(u, r)
      BY <1>1, <1>2, <1>5, <2>1 DEF Holds
    <3>. QED  BY <1>2, <3>1, TokenKept
  <2>. QED  BY <1>1, <1>3, <2>2, <2>3, <2>4, <2>5, <2>6
<1>. QED  BY <1>4, <1>5

\* The tasks T leave the queue of the condition c, which is q afterwards.
LEMMA WakesKeeps ==
  ASSUME MonInv, NEW c \in Cond, NEW T, NEW q \in Seq(Task), NEW ok \in BOOLEAN,
         Wakes(c, T, q, ok), panic' = panic,
         T \subseteq Members(sleepers[c]), Members(q) = Members(sleepers[c]) \ T,
         Distinct(q), Sorted(q, priority)
  PROVE  MonInv'
<1>. USE Types DEF MonInv
<1>1. /\ sleepers' = [sleepers EXCEPT ![c] = q]
      /\ stage' = [u \in Task |-> IF u \in T THEN "returning" ELSE stage[u]]
      /\ success' = [u \in Task |-> IF u \in T THEN ok ELSE success[u]]
      /\ UNCHANGED semVars /\ owner' = owner /\ on' = on
  BY DEF Wakes
<1>2. at' = at /\ outcome' = outcome /\ value' = value
  BY <1>1 DEF semVars
<1>3. IInv'
  BY <1>1, SemUnchanged
<1>4. \A u \in Task : u \in T => stage[u] = "waiting" /\ Sleeping(u, c)
  BY DEF SleepersQueued, Sleeping
<1>5. MonTyped'
  BY <1>1 DEF MonTyped, Stage
<1>6. Places'
  BY <1>1, <1>2, <1>4 DEF Places
<1>7. SleepersQueued'
  <2>1. sleepers'[c] = q /\ \A d \in Cond : d # c => sleepers'[d] = sleepers[d]
    BY <1>1 DEF MonTyped
  <2>2. \A d \in Cond : InOrder(d)'
    BY <2>1 DEF InOrder, SleepersQueued
  <2>3. \A u \in Task, d \in Cond : Sleeping(u, d)' <=> Sleeping(u, d) /\ ~ (u \in T /\ d = c)
    BY <2>1 DEF Sleeping
  <2>4. \A u \in Task, d \in Cond : Sleeping(u, d)' => stage'[u] = "waiting" /\ on'[u] = monitorOf[d]
    BY <1>1, <1>4, <2>3 DEF SleepersQueued
  <2>5. \A u \in Task : stage'[u] = "waiting" => \E d \in Cond : Sleeping(u, d)'
    BY <1>1, <2>3 DEF SleepersQueued
  <2>6. \A u \in Task, d \in Cond, e \in Cond : Sleeping(u, d)' /\ Sleeping(u, e)' => d = e
    BY <2>3 DEF SleepersQueued
  <2>. QED  BY <2>2, <2>4, <2>5, <2>6 DEF SleepersQueued
<1>8. ASSUME NEW r \in Sem PROVE Owned(r)'
  BY <1>1, <1>4 DEF Owned
<1>9. ASSUME NEW r \in Sem PROVE Token(r)'
  <2>1. \A u \in Task : Holds(u, r)' <=> Holds(u, r)
    BY <1>1, <1>2, <1>4 DEF Holds
  <2>. QED  BY <1>2, <2>1, TokenKept
<1>. QED  BY <1>3, <1>5, <1>6, <1>7, <1>8, <1>9

\* The empty queue.
LEMMA NoMembers == Members(<<>>) = {} /\ Distinct(<<>>) /\ Sorted(<<>>, priority) /\ <<>> \in Seq(Task)
BY DEF Members, Distinct, Sorted

\* The queue of a condition is in order.
LEMMA SleepersFacts ==
  ASSUME MonInv, NEW c \in Cond
  PROVE  /\ sleepers[c] \in Seq(Task)
         /\ Distinct(sleepers[c]) /\ Sorted(sleepers[c], priority)
BY DEF MonInv, MonTyped, SleepersQueued, InOrder

\* SignalCondition wakes the task at the tail of the queue.
LEMMA SignalConditionKeeps ==
  ASSUME MonInv, NEW t \in Task, NEW c \in Cond, SignalCondition(t, c)
  PROVE  MonInv'
<1>1. stage[t] = "in" /\ on[t] = monitorOf[c] /\ on[t] \in Sem
  BY InsideNotWaiting DEF SignalCondition
<1>2. owner[monitorOf[c]] = t
  BY <1>1 DEF MonInv, Owned
<1>3. panic' = panic
  BY <1>2 DEF SignalCondition
<1>4. CASE sleepers[c] = <<>>
  <2>1. Wakes(c, {}, <<>>, TRUE)
    BY <1>2, <1>4 DEF SignalCondition
  <2>2. {} \subseteq Members(sleepers[c]) /\ Members(<<>>) = Members(sleepers[c]) \ {}
    BY <1>4, NoMembers
  <2>. QED  BY <1>3, <2>1, <2>2, NoMembers, WakesKeeps
<1>5. CASE sleepers[c] # <<>>
  <2>. DEFINE q == mt_getlast(sleepers[c])
              v == mt_peeklast(sleepers[c])
  <2>1. Wakes(c, {v}, q, TRUE)
    BY <1>2, <1>5 DEF SignalCondition
  <2>2. /\ q \in Seq(Task) /\ v \in Members(sleepers[c])
        /\ Members(q) = Members(sleepers[c]) \ {v}
        /\ Distinct(q) /\ Sorted(q, priority)
    BY <1>5, SemAssumption, SleepersFacts, GetLastKeepsOrder
  <2>3. {v} \subseteq Members(sleepers[c])
    BY <2>2
  <2>. HIDE DEF q, v
  <2>. QED  BY <1>3, <2>1, <2>2, <2>3, WakesKeeps
<1>. QED  BY <1>4, <1>5

\* BroadcastCondition wakes every task of the queue.
LEMMA BroadcastConditionKeeps ==
  ASSUME MonInv, NEW t \in Task, NEW c \in Cond, BroadcastCondition(t, c)
  PROVE  MonInv' /\ Wakes(c, Members(sleepers[c]), <<>>, TRUE)
<1>1. stage[t] = "in" /\ on[t] = monitorOf[c] /\ on[t] \in Sem
  BY InsideNotWaiting DEF BroadcastCondition
<1>2. owner[monitorOf[c]] = t
  BY <1>1 DEF MonInv, Owned
<1>3. panic' = panic /\ Wakes(c, Members(sleepers[c]), <<>>, TRUE)
  BY <1>2 DEF BroadcastCondition
<1>. DEFINE T == Members(sleepers[c])
<1>4. T \subseteq Members(sleepers[c]) /\ Members(<<>>) = Members(sleepers[c]) \ T
  BY NoMembers
<1>5. Wakes(c, T, <<>>, TRUE)
  BY <1>3
<1>. HIDE DEF T
<1>6. MonInv'
  BY <1>3, <1>4, <1>5, NoMembers, WakesKeeps
<1>. QED  BY <1>3, <1>6

\* Every step that a task takes inside the calls of a monitor.
LEMMA MonitorStepKeeps ==
  ASSUME MonInv, NEW t \in Task, MonitorStep(t)
  PROVE  MonInv'
BY EnterResumesKeeps, EnterOwnsKeeps, LeaveSignalsKeeps, ReturnEntersKeeps, ReturnResumesKeeps
   DEF MonitorStep

\* A step that does not touch the monitor.
LEMMA MonitorUnchanged ==
  ASSUME MonInv, UNCHANGED <<semVars, monVars>>
  PROVE  MonInv'
<1>1. /\ UNCHANGED semVars /\ UNCHANGED <<owner, sleepers, stage, on, success, panic>>
      /\ at' = at /\ outcome' = outcome /\ value' = value
  BY DEF semVars, monVars
<1>2. IInv'
  BY <1>1, SemUnchanged DEF MonInv
<1>3. MonTyped' /\ Places' /\ ~panic'
  BY <1>1 DEF MonInv, MonTyped, Places
<1>4. SleepersQueued'
  BY <1>1, SleepersKept DEF MonInv
<1>5. ASSUME NEW r \in Sem PROVE Token(r)' /\ Owned(r)'
  BY <1>1 DEF MonInv, Token, Owned, Holders, Granted
<1>. QED  BY <1>2, <1>3, <1>4, <1>5 DEF MonInv

\* The invariant of the monitors says what OneInside says.
LEMMA MonInvOneInside == MonInv => OneInside
BY DEF MonInv, OneInside, Token, Owned
\* The points of sfilo.
Point == {"thinking", "hungry", "taken", "eating", "finished", "all", "done"}

\* The points of sfilo at each stage of the monitor.
PointsAt(s) ==
  CASE s = "out"       -> {"thinking", "hungry", "eating", "finished"}
    [] s = "entering"  -> {"hungry", "finished"}
    [] s = "in"        -> {"hungry", "taken", "finished", "all", "done"}
    [] s = "leaving"   -> {"thinking", "eating"}
    [] s = "waiting"   -> {"hungry"}
    [] s = "returning" -> {"hungry"}

\* A philosopher is at a point of its program that fits its place in the monitor,
\* and waits for the monitor only to take forks or to leave them.
PointsFit ==
  \A i \in Task : /\ pc[i] \in PointsAt(stage[i])
                  /\ at[i] # NoSem => pc[i] \in {"hungry", "finished"}

\* A fork is marked as used exactly while one of its two neighbours has it.
ForksTracked ==
  \A f \in Task : in_use[f] <=> \E i \in Task : HasForks(i) /\ f \in Forks(i)

PhilInv ==
  /\ MonInv /\ PointsFit
  /\ in_use \in [Task -> BOOLEAN] /\ pc \in [Task -> Point]
  /\ ForksTracked /\ ForksExclusive /\ NoneForgotten

-----------------------------------------------------------------------------

\* In sfilo there is one condition, in both programs one monitor.
LEMMA Conditions ==
  /\ mon \in Sem /\ \A c \in Cond : monitorOf[c] = mon
  /\ Program = "sfilo" => Cond = {0}
  /\ \A i \in Task : cond(i) \in Cond
BY MonitorAssumption, PhilosophersAssumption DEF cond

\* Every philosopher has two neighbours at the table.
LEMMA Neighbours ==
  /\ \A i \in Task : next(i) \in Task /\ prev(i) \in Task
  /\ \A i, j \in Task : next(i) = next(j) => i = j
  /\ \A i \in Task : next(i) # i /\ next(prev(i)) = i
<1>. DEFINE up(i) == IF i = NF - 1 THEN 0 ELSE i + 1
            down(i) == IF i = 0 THEN NF - 1 ELSE i - 1
<1>1. NF \in Nat /\ NF > 2 /\ Task = 0 .. NF - 1
  BY PhilosophersAssumption
<1>2. \A n \in Nat : n > 2 => \A k \in 0 .. n - 1 : k % n = k /\ (k + n) % n = k
  OBVIOUS
<1>3. ASSUME NEW i \in Task PROVE next(i) = up(i)
  <2>1. CASE i = NF - 1
    <3>1. i + 1 = 0 + NF /\ 0 \in 0 .. NF - 1
      BY <1>1, <2>1
    <3>. QED  BY <1>1, <1>2, <2>1, <3>1 DEF next
  <2>2. CASE i # NF - 1
    <3>1. i + 1 \in 0 .. NF - 1
      BY <1>1, <2>2
    <3>. QED  BY <1>1, <1>2, <2>2, <3>1 DEF next
  <2>. QED  BY <2>1, <2>2
<1>4. ASSUME NEW i \in Task PROVE prev(i) = down(i)
  <2>1. CASE i = 0
    <3>1. i + NF - 1 = NF - 1 /\ NF - 1 \in 0 .. NF - 1
      BY <1>1, <2>1
    <3>. QED  BY <1>1, <1>2, <2>1, <3>1 DEF prev
  <2>2. CASE i # 0
    <3>1. i + NF - 1 = (i - 1) + NF /\ i - 1 \in 0 .. NF - 1
      BY <1>1, <2>2
    <3>. QED  BY <1>1, <1>2, <2>2, <3>1 DEF prev
  <2>. QED  BY <2>1, <2>2
<1>5. \A i \in Task : up(i) \in Task /\ down(i) \in Task /\ up(i) # i /\ up(down(i)) = i
  BY <1>1
<1>6. \A i, j \in Task : up(i) = up(j) => i = j
  BY <1>1
<1>. HIDE DEF up, down
<1>. QED  BY <1>3, <1>4, <1>5, <1>6

\* The philosophers begin by thinking.
LEMMA PhilInit_PhilInv == PhilInit => PhilInv
<1>. SUFFICES ASSUME PhilInit PROVE PhilInv
  OBVIOUS
<1>1. MonInv
  BY MonInit_MonInv DEF PhilInit
<1>2. stage = [t \in Task |-> "out"]
  BY DEF PhilInit, MonInit
<1>3. PointsFit
  BY <1>2 DEF PointsFit, PointsAt, PhilInit, MonInit, SemInit
<1>4. in_use \in [Task -> BOOLEAN] /\ pc \in [Task -> Point]
  BY DEF PhilInit, Point
<1>5. \A i \in Task : ~ HasForks(i)
  BY DEF HasForks, PhilInit
<1>6. ForksTracked /\ ForksExclusive
  BY <1>5 DEF ForksTracked, ForksExclusive, PhilInit
<1>7. NoneForgotten
  BY <1>2 DEF NoneForgotten
<1>. QED  BY <1>1, <1>3, <1>4, <1>6, <1>7 DEF PhilInv

\* The forks when nobody takes or leaves any.
LEMMA ForksKept ==
  ASSUME ForksTracked, ForksExclusive, in_use' = in_use,
         \A u \in Task : HasForks(u)' <=> HasForks(u)
  PROVE  ForksTracked' /\ ForksExclusive'
<1>1. ForksTracked'
  BY DEF ForksTracked
<1>2. \A u \in Task : HasForks(next(u))' <=> HasForks(next(u))
  BY Neighbours
<1>3. ForksExclusive'
  BY <1>2 DEF ForksExclusive
<1>. QED  BY <1>1, <1>3

\* A step of philosopher i that takes and leaves no fork, and wakes nobody.
LEMMA QuietStep ==
  ASSUME PhilInv, MonInv', NEW i \in Task, NEW s \in Stage, NEW p \in Point,
         in_use' = in_use,
         stage' = [stage EXCEPT ![i] = s], pc' = [pc EXCEPT ![i] = p],
         \A u \in Task : u # i => at'[u] = at[u],
         p \in PointsAt(s), at'[i] # NoSem => p \in {"hungry", "finished"},
         s = "waiting" => ~ forks_avail(i),
         p \in {"taken", "eating", "finished"} <=> pc[i] \in {"taken", "eating", "finished"},
         pc[i] = "all" => p = "all"
  PROVE  PhilInv'
<1>1. stage \in [Task -> Stage] /\ pc \in [Task -> Point] /\ in_use \in [Task -> BOOLEAN]
  BY DEF PhilInv, MonInv, MonTyped
<1>2. /\ stage'[i] = s /\ pc'[i] = p
      /\ \A u \in Task : u # i => stage'[u] = stage[u] /\ pc'[u] = pc[u]
  BY <1>1
<1>3. PointsFit'
  <2>. SUFFICES ASSUME NEW u \in Task
                PROVE  /\ pc'[u] \in PointsAt(stage'[u])
                       /\ at'[u] # NoSem => pc'[u] \in {"hungry", "finished"}
    BY DEF PointsFit, PointsAt
  <2>1. CASE u = i
    BY <1>2, <2>1
  <2>2. CASE u # i
    BY <1>2, <2>2 DEF PhilInv, PointsFit
  <2>. QED  BY <2>1, <2>2
<1>4. \A u \in Task : HasForks(u)' <=> HasForks(u)
  BY <1>2 DEF HasForks
<1>5. ForksTracked' /\ ForksExclusive'
  BY <1>4, ForksKept DEF PhilInv
<1>6. NoneForgotten'
  <2>1. SUFFICES ASSUME NEW u \in Task, stage'[u] = "waiting", forks_avail(u)'
                 PROVE  \E j \in Task : pc'[j] = "all"
    BY DEF NoneForgotten
  <2>2. forks_avail(u)
    BY <2>1 DEF forks_avail, Forks
  <2>3. stage[u] = "waiting"
    BY <1>2, <2>1, <2>2
  <2>4. PICK j \in Task : pc[j] \in {"all", "left", "right"}
    BY <2>2, <2>3 DEF NoneForgotten, PhilInv
  <2>5. pc[j] = "all"
    BY <1>1, <2>4 DEF Point
  <2>6. pc'[j] = "all"
    BY <1>2, <2>5
  <2>. QED  BY <2>6
<1>7. in_use' \in [Task -> BOOLEAN] /\ pc' \in [Task -> Point]
  BY <1>1
<1>. QED  BY <1>3, <1>5, <1>6, <1>7 DEF PhilInv

\* Where a philosopher is in its program and in the monitor.
LEMMA PhilFacts ==
  ASSUME PhilInv, NEW i \in Task
  PROVE  /\ MonInv
         /\ stage \in [Task -> Stage] /\ pc \in [Task -> Point] /\ in_use \in [Task -> BOOLEAN]
         /\ pc[i] \in PointsAt(stage[i])
         /\ at[i] # NoSem => pc[i] \in {"hungry", "finished"}
         /\ stage[i] \in {"entering", "in", "leaving", "waiting"} => at[i] = NoSem
         /\ at \in [Task -> Sem \cup {NoSem}]
BY Types, InsideNotWaiting DEF PhilInv, PointsFit, MonInv, MonTyped

\* EnterMonitor as seen by the philosophers.
LEMMA EnterEffect ==
  ASSUME PhilInv, NEW i \in Task, EnterMonitor(i, mon)
  PROVE  /\ MonInv'
         /\ stage[i] = "out"
         /\ \E s \in {"entering", "out"} : stage' = [stage EXCEPT ![i] = s]
         /\ \A u \in Task : u # i => at'[u] = at[u]
<1>1. MonInv'
  BY PhilFacts, Conditions, EnterMonitorKeeps
<1>2. stage[i] = "out"
  BY DEF EnterMonitor
<1>3. stage' = [stage EXCEPT ![i] = "entering"] \/ stage' = stage
  BY DEF EnterMonitor, Moves
<1>4. \E s \in {"entering", "out"} : stage' = [stage EXCEPT ![i] = s]
  BY <1>2, <1>3, PhilFacts
<1>5. \A u \in Task : u # i => at'[u] = at[u]
  BY PhilFacts DEF EnterMonitor, WaitTakes, WaitBlocks, semVars
<1>. QED  BY <1>1, <1>2, <1>4, <1>5

\* A philosopher that is hungry enters the monitor.
LEMMA BecomeHungryKeeps ==
  ASSUME PhilInv, NEW i \in Task, BecomeHungry(i)
  PROVE  PhilInv'
<1>1. PICK s \in {"entering", "out"} : stage' = [stage EXCEPT ![i] = s]
  BY EnterEffect DEF BecomeHungry
<1>2. MonInv' /\ \A u \in Task : u # i => at'[u] = at[u]
  BY EnterEffect DEF BecomeHungry
<1>3. /\ in_use' = in_use /\ pc' = [pc EXCEPT ![i] = "hungry"] /\ pc[i] = "thinking"
  BY DEF BecomeHungry, From, To
<1>4. s \in Stage /\ "hungry" \in PointsAt(s) /\ "hungry" \in Point /\ s # "waiting"
  BY DEF Stage, PointsAt, Point
<1>. QED  BY <1>1, <1>2, <1>3, <1>4, QuietStep

\* A philosopher that has eaten enters the monitor.
LEMMA FinishEatingKeeps ==
  ASSUME PhilInv, NEW i \in Task, FinishEating(i)
  PROVE  PhilInv'
<1>1. PICK s \in {"entering", "out"} : stage' = [stage EXCEPT ![i] = s]
  BY EnterEffect DEF FinishEating
<1>2. MonInv' /\ \A u \in Task : u # i => at'[u] = at[u]
  BY EnterEffect DEF FinishEating
<1>3. /\ in_use' = in_use /\ pc' = [pc EXCEPT ![i] = "finished"] /\ pc[i] = "eating"
  BY DEF FinishEating, From, To
<1>4. s \in Stage /\ "finished" \in PointsAt(s) /\ "finished" \in Point /\ s # "waiting"
  BY DEF Stage, PointsAt, Point
<1>. QED  BY <1>1, <1>2, <1>3, <1>4, QuietStep

\* LeaveMonitor as seen by the philosophers.
LEMMA LeaveEffect ==
  ASSUME PhilInv, NEW i \in Task, LeaveMonitor(i)
  PROVE  /\ MonInv' /\ stage' = [stage EXCEPT ![i] = "leaving"]
         /\ at' = at /\ at[i] = NoSem
<1>1. MonInv'
  BY PhilFacts, LeaveMonitorKeeps
<1>2. stage[i] = "in" /\ at' = at
  BY DEF LeaveMonitor, semVars
<1>3. on[i] \in Sem /\ at[i] = NoSem
  BY <1>2, PhilFacts, InsideNotWaiting
<1>4. owner[on[i]] = i
  BY <1>2, <1>3, PhilFacts DEF MonInv, Owned
<1>5. stage' = [stage EXCEPT ![i] = "leaving"]
  BY <1>4 DEF LeaveMonitor, Moves
<1>. QED  BY <1>1, <1>2, <1>3, <1>5

\* A philosopher with both forks leaves the monitor and eats.
LEMMA StartEatingKeeps ==
  ASSUME PhilInv, NEW i \in Task, StartEating(i)
  PROVE  PhilInv'
<1>1. MonInv' /\ stage' = [stage EXCEPT ![i] = "leaving"] /\ at' = at /\ at[i] = NoSem
  BY LeaveEffect DEF StartEating
<1>2. /\ in_use' = in_use /\ pc' = [pc EXCEPT ![i] = "eating"] /\ pc[i] = "taken"
  BY DEF StartEating, From, To
<1>3. "leaving" \in Stage /\ "eating" \in PointsAt("leaving") /\ "eating" \in Point
  BY DEF Stage, PointsAt, Point
<1>. QED  BY <1>1, <1>2, <1>3, QuietStep

\* A philosopher that has put both forks down leaves the monitor and thinks.
LEMMA StartThinkingKeeps ==
  ASSUME PhilInv, NEW i \in Task, StartThinking(i)
  PROVE  PhilInv'
<1>1. MonInv' /\ stage' = [stage EXCEPT ![i] = "leaving"] /\ at' = at /\ at[i] = NoSem
  BY LeaveEffect DEF StartThinking
<1>2. /\ in_use' = in_use /\ pc' = [pc EXCEPT ![i] = "thinking"] /\ pc[i] = "done"
  BY DEF StartThinking, From, To
<1>3. "leaving" \in Stage /\ "thinking" \in PointsAt("leaving") /\ "thinking" \in Point
  BY DEF Stage, PointsAt, Point
<1>. QED  BY <1>1, <1>2, <1>3, QuietStep

\* What goes on inside EnterMonitor, LeaveMonitor and WaitCondition.
LEMMA MonitorStepEffect ==
  ASSUME PhilInv, NEW i \in Task, MonitorStep(i)
  PROVE  \E s \in Stage :
           /\ stage' = [stage EXCEPT ![i] = s]
           /\ pc[i] \in PointsAt(s) /\ s # "waiting"
<1>. USE PhilFacts
<1>1. CASE EnterResumes(i)
  <2>1. stage[i] = "out" /\ at[i] # NoSem
    BY <1>1 DEF EnterResumes, WaitReturns, IsWoken
  <2>2. stage' = [stage EXCEPT ![i] = "entering"] \/ stage' = [stage EXCEPT ![i] = "out"]
    BY <1>1, <2>1 DEF EnterResumes, Moves
  <2>3. pc[i] \in PointsAt("entering") /\ pc[i] \in PointsAt("out")
    BY <2>1 DEF PointsAt
  <2>. QED  BY <2>2, <2>3 DEF Stage
<1>2. CASE EnterOwns(i)
  <2>1. stage[i] = "entering" /\ stage' = [stage EXCEPT ![i] = "in"]
    BY <1>2 DEF EnterOwns, Moves
  <2>2. pc[i] \in PointsAt("in")
    BY <2>1 DEF PointsAt
  <2>. QED  BY <2>1, <2>2 DEF Stage
<1>3. CASE LeaveSignals(i)
  <2>1. stage[i] = "leaving" /\ stage' = [stage EXCEPT ![i] = "out"]
    BY <1>3 DEF LeaveSignals, Moves
  <2>2. pc[i] \in PointsAt("out")
    BY <2>1 DEF PointsAt
  <2>. QED  BY <2>1, <2>2 DEF Stage
<1>4. CASE ReturnEnters(i) \/ ReturnResumes(i)
  <2>1. stage[i] = "returning"
    BY <1>4 DEF ReturnEnters, ReturnResumes
  <2>2. stage' = [stage EXCEPT ![i] = "in"] \/ stage' = [stage EXCEPT ![i] = "returning"]
    BY <1>4, <2>1 DEF ReturnEnters, ReturnResumes, Moves
  <2>3. pc[i] \in PointsAt("in") /\ pc[i] \in PointsAt("returning")
    BY <2>1 DEF PointsAt
  <2>. QED  BY <2>2, <2>3 DEF Stage
<1>. QED  BY <1>1, <1>2, <1>3, <1>4 DEF MonitorStep

\* A step of a monitor changes the wait for a semaphore of its own task only.
LEMMA MonitorStepWaits ==
  ASSUME PhilInv, NEW i \in Task, MonitorStep(i)
  PROVE  /\ \A u \in Task : u # i => at'[u] = at[u]
         /\ at'[i] # NoSem => pc[i] \in {"hungry", "finished"}
<1>. USE PhilFacts
<1>1. CASE EnterResumes(i) \/ ReturnResumes(i)
  <2>1. at' = [at EXCEPT ![i] = NoSem]
    BY <1>1 DEF EnterResumes, ReturnResumes, WaitReturns
  <2>. QED  BY <2>1
<1>2. CASE EnterOwns(i) \/ LeaveSignals(i)
  <2>1. at' = at
    BY <1>2 DEF EnterOwns, LeaveSignals, SignalSem, semVars
  <2>. QED  BY <2>1
<1>3. CASE ReturnEnters(i)
  <2>1. \A u \in Task : u # i => at'[u] = at[u]
    BY <1>3 DEF ReturnEnters, WaitTakes, WaitBlocks
  <2>2. pc[i] = "hungry"
    BY <1>3 DEF ReturnEnters, PointsAt
  <2>. QED  BY <2>1, <2>2
<1>. QED  BY <1>1, <1>2, <1>3 DEF MonitorStep

\* The steps inside the calls of the monitor leave the forks alone.
LEMMA PhilMonitorStepKeeps ==
  ASSUME PhilInv, NEW i \in Task, MonitorStep(i), UNCHANGED <<in_use, pc>>
  PROVE  PhilInv'
<1>1. PICK s \in Stage : /\ stage' = [stage EXCEPT ![i] = s]
                         /\ pc[i] \in PointsAt(s) /\ s # "waiting"
  BY MonitorStepEffect
<1>2. /\ \A u \in Task : u # i => at'[u] = at[u]
      /\ at'[i] # NoSem => pc[i] \in {"hungry", "finished"}
  BY MonitorStepWaits
<1>3. pc' = [pc EXCEPT ![i] = pc[i]] /\ pc[i] \in Point /\ in_use' = in_use
  BY PhilFacts
<1>4. MonInv'
  BY PhilFacts, MonitorStepKeeps
<1>. DEFINE p == pc[i]
<1>5. /\ p \in Point /\ pc' = [pc EXCEPT ![i] = p] /\ p \in PointsAt(s)
      /\ at'[i] # NoSem => p \in {"hungry", "finished"}
      /\ p \in {"taken", "eating", "finished"} <=> pc[i] \in {"taken", "eating", "finished"}
      /\ pc[i] = "all" => p = "all"
  BY <1>1, <1>2, <1>3
<1>. HIDE DEF p
<1>. QED  BY <1>1, <1>2, <1>3, <1>4, <1>5, QuietStep

\* A hungry philosopher without its forks waits.
LEMMA WaitForForksKeeps ==
  ASSUME Program = "sfilo", PhilInv, NEW i \in Task, WaitForForks(i)
  PROVE  PhilInv'
<1>1. /\ pc[i] = "hungry" /\ ~ forks_avail(i) /\ in_use' = in_use
      /\ pc' = [pc EXCEPT ![i] = "hungry"] /\ WaitCondition(i, cond(i))
  BY DEF WaitForForks, From, To
<1>2. cond(i) \in Cond
  BY Conditions
<1>3. MonInv'
  BY <1>1, <1>2, PhilFacts, WaitConditionKeeps
<1>4. stage[i] = "in" /\ on[i] = monitorOf[cond(i)]
  BY <1>1 DEF WaitCondition
<1>5. on[i] \in Sem /\ at[i] = NoSem
  BY <1>4, PhilFacts, InsideNotWaiting
<1>6. owner[monitorOf[cond(i)]] = i
  BY <1>4, <1>5, PhilFacts DEF MonInv, Owned
<1>7. stage' = [stage EXCEPT ![i] = "waiting"] /\ at' = at
  BY <1>1, <1>6 DEF WaitCondition, Moves, SignalSem
<1>8. "waiting" \in Stage /\ "hungry" \in PointsAt("waiting") /\ "hungry" \in Point
  BY DEF Stage, PointsAt, Point
<1>. QED  BY <1>1, <1>3, <1>5, <1>7, <1>8, QuietStep

\* A philosopher takes its forks when both are free.
LEMMA take_forksKeeps ==
  ASSUME PhilInv, NEW i \in Task, take_forks(i)
  PROVE  PhilInv'
<1>1. /\ stage[i] = "in" /\ pc[i] = "hungry" /\ forks_avail(i)
      /\ in_use' = [f \in Task |-> in_use[f] \/ f \in Forks(i)]
      /\ pc' = [pc EXCEPT ![i] = "taken"]
      /\ UNCHANGED <<semVars, monVars>>
  BY PhilFacts DEF take_forks, From, To, PointsAt
<1>2. stage' = stage /\ at' = at
  BY <1>1 DEF semVars, monVars
<1>3. MonInv'
  BY <1>1, PhilFacts, MonitorUnchanged
<1>4. pc' \in [Task -> Point] /\ in_use' \in [Task -> BOOLEAN]
  BY <1>1, PhilFacts DEF Point
<1>5. pc'[i] = "taken" /\ \A u \in Task : u # i => pc'[u] = pc[u]
  BY <1>1, PhilFacts
<1>6. PointsFit'
  <2>1. \A u \in Task : u # i => /\ pc'[u] \in PointsAt(stage'[u])
                                 /\ at'[u] # NoSem => pc'[u] \in {"hungry", "finished"}
    BY <1>2, <1>5 DEF PhilInv, PointsFit
  <2>2. "taken" \in PointsAt(stage[i]) /\ at[i] = NoSem
    BY <1>1, PhilFacts DEF PointsAt
  <2>3. pc'[i] \in PointsAt(stage'[i]) /\ at'[i] = NoSem
    BY <1>2, <1>5, <2>2
  <2>. QED  BY <2>1, <2>3 DEF PointsFit
<1>7. \A u \in Task : HasForks(u)' <=> HasForks(u) \/ u = i
  BY <1>5 DEF HasForks
<1>8. ForksTracked /\ ForksExclusive
  BY DEF PhilInv
<1>9. ForksTracked'
  <2>. SUFFICES ASSUME NEW f \in Task
                PROVE  in_use'[f] <=> \E u \in Task : HasForks(u)' /\ f \in Forks(u)
    BY DEF ForksTracked, Forks, next
  <2>1. in_use'[f] <=> in_use[f] \/ f \in Forks(i)
    BY <1>1
  <2>2. in_use[f] <=> \E u \in Task : HasForks(u) /\ f \in Forks(u)
    BY <1>8 DEF ForksTracked
  <2>. QED  BY <1>7, <2>1, <2>2
<1>10. ForksExclusive'
  <2>1. i \in Forks(i) /\ next(i) \in Forks(i) /\ next(i) \in Task
    BY Neighbours DEF Forks
  <2>2. ~ in_use[i] /\ ~ in_use[next(i)]
    BY <1>1, <2>1 DEF forks_avail
  <2>3. \A u \in Task : HasForks(u) => i \notin Forks(u) /\ next(i) \notin Forks(u)
    BY <1>8, <2>1, <2>2 DEF ForksTracked
  <2>4. ~ HasForks(next(i)) /\ \A u \in Task : HasForks(u) => next(u) # i
    BY <2>1, <2>3 DEF Forks
  <2>. SUFFICES ASSUME NEW u \in Task, HasForks(u)'
                PROVE  ~ HasForks(next(u))' /\ \A f \in Forks(u) : in_use'[f]
    BY DEF ForksExclusive, Forks, next
  <2>5. next(u) \in Task
    BY Neighbours
  <2>6. ~ HasForks(next(u))'
    <3>1. CASE u = i
      <4>1. next(u) # i /\ ~ HasForks(next(u))
        BY <2>4, <3>1, Neighbours
      <4>. QED  BY <1>7, <2>5, <4>1
    <3>2. CASE u # i
      <4>1. HasForks(u)
        BY <1>7, <3>2
      <4>2. next(u) # i /\ ~ HasForks(next(u))
        BY <1>8, <2>4, <4>1 DEF ForksExclusive
      <4>. QED  BY <1>7, <2>5, <4>2
    <3>. QED  BY <3>1, <3>2
  <2>7. \A f \in Forks(u) : in_use'[f]
    <3>1. \A f \in Forks(u) : f \in Task
      BY <2>5 DEF Forks
    <3>. QED  BY <1>7, <1>9, <3>1 DEF ForksTracked, Forks, next
  <2>. QED  BY <2>6, <2>7
<1>11. NoneForgotten'
  <2>1. SUFFICES ASSUME NEW u \in Task, stage'[u] = "waiting", forks_avail(u)'
                 PROVE  \E j \in Task : pc'[j] = "all"
    BY DEF NoneForgotten
  <2>2. \A f \in Forks(u) : f \in Task
    BY Neighbours DEF Forks
  <2>3. \A f \in Forks(u) : ~ in_use'[f]
    BY <2>1 DEF forks_avail, Forks, next
  <2>4. forks_avail(u)
    BY <1>1, <2>2, <2>3 DEF forks_avail
  <2>5. PICK j \in Task : pc[j] \in {"all", "left", "right"}
    BY <1>2, <2>1, <2>4 DEF NoneForgotten, PhilInv
  <2>6. pc[j] = "all" /\ j # i
    BY <1>1, <2>5, PhilFacts DEF Point
  <2>. QED  BY <1>5, <2>6
<1>. QED  BY <1>3, <1>4, <1>6, <1>9, <1>10, <1>11 DEF PhilInv

\* A philosopher leaves its forks, and is about to wake the others.
LEMMA leave_forksKeeps ==
  ASSUME Program = "sfilo", PhilInv, NEW i \in Task, leave_forks(i)
  PROVE  PhilInv'
<1>1. /\ stage[i] = "in" /\ pc[i] = "finished"
      /\ in_use' = [f \in Task |-> in_use[f] /\ f \notin Forks(i)]
      /\ pc' = [pc EXCEPT ![i] = "all"]
      /\ UNCHANGED <<semVars, monVars>>
  BY DEF leave_forks, From, To
<1>2. stage' = stage /\ at' = at
  BY <1>1 DEF semVars, monVars
<1>3. MonInv'
  BY <1>1, PhilFacts, MonitorUnchanged
<1>4. pc' \in [Task -> Point] /\ in_use' \in [Task -> BOOLEAN]
  BY <1>1, PhilFacts DEF Point
<1>5. pc'[i] = "all" /\ \A u \in Task : u # i => pc'[u] = pc[u]
  BY <1>1, PhilFacts
<1>6. PointsFit'
  <2>1. \A u \in Task : u # i => /\ pc'[u] \in PointsAt(stage'[u])
                                 /\ at'[u] # NoSem => pc'[u] \in {"hungry", "finished"}
    BY <1>2, <1>5 DEF PhilInv, PointsFit
  <2>2. "all" \in PointsAt(stage[i]) /\ at[i] = NoSem
    BY <1>1, PhilFacts DEF PointsAt
  <2>3. pc'[i] \in PointsAt(stage'[i]) /\ at'[i] = NoSem
    BY <1>2, <1>5, <2>2
  <2>. QED  BY <2>1, <2>3 DEF PointsFit
<1>7. \A u \in Task : HasForks(u)' <=> HasForks(u) /\ u # i
  BY <1>5 DEF HasForks
<1>8. ForksTracked /\ ForksExclusive /\ HasForks(i)
  BY <1>1 DEF PhilInv, HasForks
<1>9. \A u \in Task : HasForks(u) /\ u # i => \A f \in Forks(u) : f \notin Forks(i)
  <2>. SUFFICES ASSUME NEW u \in Task, HasForks(u), u # i
                PROVE  u # next(i) /\ next(u) # i /\ next(u) # next(i)
    BY DEF Forks
  <2>. QED  BY <1>8, Neighbours DEF ForksExclusive
<1>10. ForksTracked'
  <2>. SUFFICES ASSUME NEW f \in Task
                PROVE  in_use'[f] <=> \E u \in Task : HasForks(u)' /\ f \in Forks(u)
    BY DEF ForksTracked, Forks, next
  <2>1. in_use'[f] <=> in_use[f] /\ f \notin Forks(i)
    BY <1>1
  <2>2. in_use[f] <=> \E u \in Task : HasForks(u) /\ f \in Forks(u)
    BY <1>8 DEF ForksTracked
  <2>. QED  BY <1>7, <1>9, <2>1, <2>2
<1>11. ForksExclusive'
  <2>. SUFFICES ASSUME NEW u \in Task, HasForks(u)'
                PROVE  ~ HasForks(next(u))' /\ \A f \in Forks(u) : in_use'[f]
    BY DEF ForksExclusive, Forks, next
  <2>1. next(u) \in Task
    BY Neighbours
  <2>2. ~ HasForks(next(u))'
    BY <1>7, <1>8, <2>1 DEF ForksExclusive
  <2>3. \A f \in Forks(u) : f \in Task
    BY <2>1 DEF Forks
  <2>4. \A f \in Forks(u) : in_use'[f]
    BY <1>7, <1>10, <2>3 DEF ForksTracked, Forks, next
  <2>. QED  BY <2>2, <2>4
<1>12. NoneForgotten'
  BY <1>5 DEF NoneForgotten
<1>. QED  BY <1>3, <1>4, <1>6, <1>10, <1>11, <1>12 DEF PhilInv

\* The broadcast leaves nobody in the queue of the only condition.
LEMMA WakeAllKeeps ==
  ASSUME Program = "sfilo", PhilInv, NEW i \in Task, WakeAll(i)
  PROVE  PhilInv'
<1>1. /\ pc[i] = "all" /\ in_use' = in_use /\ pc' = [pc EXCEPT ![i] = "done"]
      /\ BroadcastCondition(i, 0)
  BY DEF WakeAll, From, To
<1>2. 0 \in Cond /\ Cond = {0}
  BY Conditions
<1>3. MonInv' /\ Wakes(0, Members(sleepers[0]), <<>>, TRUE)
  BY <1>1, <1>2, PhilFacts, BroadcastConditionKeeps
<1>4. /\ stage' = [u \in Task |-> IF u \in Members(sleepers[0]) THEN "returning" ELSE stage[u]]
      /\ at' = at
  BY <1>3 DEF Wakes, semVars
<1>5. stage[i] = "in"
  BY <1>1 DEF BroadcastCondition
<1>6. /\ \A u \in Task : stage[u] = "waiting" <=> u \in Members(sleepers[0])
      /\ \A u \in Task : stage[u] = "waiting" => stage'[u] = "returning"
      /\ \A u \in Task : stage[u] # "waiting" => stage'[u] = stage[u]
  <2>1. \A u \in Task : stage[u] = "waiting" <=> u \in Members(sleepers[0])
    BY <1>2, PhilFacts DEF MonInv, SleepersQueued, Sleeping
  <2>. QED  BY <1>4, <2>1
<1>7. pc'[i] = "done" /\ \A u \in Task : u # i => pc'[u] = pc[u]
  BY <1>1, PhilFacts
<1>8. pc' \in [Task -> Point] /\ in_use' \in [Task -> BOOLEAN]
  BY <1>1, PhilFacts DEF Point
<1>9. PointsFit'
  <2>. SUFFICES ASSUME NEW u \in Task
                PROVE  /\ pc'[u] \in PointsAt(stage'[u])
                       /\ at'[u] # NoSem => pc'[u] \in {"hungry", "finished"}
    BY DEF PointsFit, PointsAt
  <2>1. CASE u = i
    BY <1>4, <1>5, <1>6, <1>7, <2>1, PhilFacts DEF PointsAt
  <2>2. CASE u # i /\ stage[u] = "waiting"
    BY <1>4, <1>6, <1>7, <2>2, PhilFacts DEF PointsAt
  <2>3. CASE u # i /\ stage[u] # "waiting"
    BY <1>4, <1>6, <1>7, <2>3, PhilFacts
  <2>. QED  BY <2>1, <2>2, <2>3
<1>10. \A u \in Task : HasForks(u)' <=> HasForks(u)
  BY <1>1, <1>7 DEF HasForks
<1>11. ForksTracked' /\ ForksExclusive'
  BY <1>1, <1>10, ForksKept DEF PhilInv
<1>12. \A u \in Task : stage'[u] # "waiting"
  BY <1>6
<1>13. NoneForgotten'
  BY <1>12 DEF NoneForgotten
<1>. QED  BY <1>3, <1>8, <1>9, <1>11, <1>13 DEF PhilInv

\* Every step of sfilo keeps the invariant.
LEMMA SfiloStep ==
  ASSUME Program = "sfilo", PhilInv, [SfiloNext]_philVars
  PROVE  PhilInv'
<1>1. ASSUME NEW i \in Task, philosopher(i) \/ WakeAll(i) PROVE PhilInv'
  BY <1>1, BecomeHungryKeeps, WaitForForksKeeps, take_forksKeeps, StartEatingKeeps,
     FinishEatingKeeps, leave_forksKeeps, StartThinkingKeeps, PhilMonitorStepKeeps, WakeAllKeeps
     DEF philosopher
<1>2. CASE UNCHANGED philVars
  <2>1. UNCHANGED <<semVars, monVars>> /\ in_use' = in_use /\ pc' = pc
    BY <1>2 DEF philVars
  <2>2. MonInv'
    BY <2>1, MonitorUnchanged DEF PhilInv
  <2>3. stage' = stage /\ at' = at
    BY <2>1 DEF semVars, monVars
  <2>4. PointsFit'
    BY <2>1, <2>3 DEF PhilInv, PointsFit
  <2>5. \A u \in Task : HasForks(u)' <=> HasForks(u)
    BY <2>1 DEF HasForks
  <2>6. ForksTracked'
    BY <2>1, <2>5 DEF PhilInv, ForksTracked, HasForks
  <2>7. ForksExclusive'
    BY <2>1 DEF PhilInv, ForksExclusive, HasForks
  <2>8. NoneForgotten'
    BY <2>1, <2>3 DEF PhilInv, NoneForgotten, forks_avail
  <2>. QED  BY <2>1, <2>2, <2>4, <2>6, <2>7, <2>8 DEF PhilInv
<1>. QED  BY <1>1, <1>2 DEF SfiloNext

-----------------------------------------------------------------------------

\* The inductive invariant of sfilo.
LEMMA SfiloInvariant ==
  ASSUME Program = "sfilo"
  PROVE  SfiloSpec => []PhilInv
<1>1. PhilInit => PhilInv
  BY PhilInit_PhilInv
<1>2. PhilInv /\ [SfiloNext]_philVars => PhilInv'
  BY SfiloStep
<1>. QED  BY <1>1, <1>2, PTL DEF SfiloSpec

\* sfilo.c over monitor.c, for any number of philosophers and any schedule: the
\* monitor has one task inside, its owner (EnterMonitor, LeaveMonitor).
THEOREM SfiloOneInside ==
  ASSUME Program = "sfilo"
  PROVE  SfiloSpec => []OneInside
<1>1. PhilInv => OneInside
  BY MonInvOneInside DEF PhilInv
<1>. QED  BY <1>1, SfiloInvariant, PTL

\* Two neighbours never eat at the same time, although the forks are only taken
\* under the monitor and held outside of it (take_forks, leave_forks).
THEOREM SfiloForks ==
  ASSUME Program = "sfilo"
  PROVE  SfiloSpec => []ForksExclusive
<1>1. PhilInv => ForksExclusive
  BY DEF PhilInv
<1>. QED  BY <1>1, SfiloInvariant, PTL

\* A philosopher that waits with both forks free is about to be woken: no signal
\* is lost between the test of the forks and the wait (forks_avail,
\* WaitCondition, SignalCondition).
THEOREM SfiloNoneForgotten ==
  ASSUME Program = "sfilo"
  PROVE  SfiloSpec => []NoneForgotten
<1>1. PhilInv => NoneForgotten
  BY DEF PhilInv
<1>. QED  BY <1>1, SfiloInvariant, PTL

\* filo.c uses the monitor correctly too: one task is inside and owns it, and no
\* operation panics. What is wrong in filo is what it does inside.
THEOREM FiloOneInside == FiloSpec => []OneInside
<1>1. PhilInit => MonInv
  BY MonInit_MonInv DEF PhilInit
<1>2. MonInv /\ [FiloNext]_philVars => MonInv'
  <2>. SUFFICES ASSUME MonInv, [FiloNext]_philVars PROVE MonInv'
    OBVIOUS
  <2>1. ASSUME NEW i \in Task, philosopher(i) PROVE MonInv'
    <3>1. CASE BecomeHungry(i) \/ FinishEating(i)
      BY <3>1, Conditions, EnterMonitorKeeps DEF BecomeHungry, FinishEating
    <3>2. CASE WaitForForks(i)
      BY <3>2, Conditions, WaitConditionKeeps DEF WaitForForks
    <3>3. CASE take_forks(i) \/ leave_forks(i)
      BY <3>3, MonitorUnchanged DEF take_forks, leave_forks
    <3>4. CASE StartEating(i) \/ StartThinking(i)
      BY <3>4, LeaveMonitorKeeps DEF StartEating, StartThinking
    <3>5. CASE MonitorStep(i)
      BY <3>5, MonitorStepKeeps
    <3>. QED  BY <2>1, <3>1, <3>2, <3>3, <3>4, <3>5 DEF philosopher
  <2>2. ASSUME NEW i \in Task, NEW line, NEW n \in Task, NEW after,
               WakeNeighbour(i, line, n, after)
        PROVE  MonInv'
    <3>1. CASE SignalCondition(i, cond(n))
      BY <3>1, Conditions, SignalConditionKeeps
    <3>2. CASE UNCHANGED <<semVars, monVars>>
      BY <3>2, MonitorUnchanged
    <3>. QED  BY <2>2, <3>1, <3>2 DEF WakeNeighbour
  <2>3. CASE UNCHANGED philVars
    BY <2>3, MonitorUnchanged DEF philVars
  <2>. QED  BY <2>1, <2>2, <2>3, Neighbours DEF FiloNext
<1>3. MonInv => OneInside
  BY MonInvOneInside
<1>. QED  BY <1>1, <1>2, <1>3, PTL DEF FiloSpec

=============================================================================
