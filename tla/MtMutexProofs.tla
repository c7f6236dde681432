--------------------------- MODULE MtMutexProofs ----------------------------
(***************************************************************************)
(* The mutexes of MTask exclude, for any number of tasks and mutexes, in   *)
(* spite of the interrupts that EnterMutex and LeaveMutex let in.          *)
(***************************************************************************)
EXTENDS MtMutex, MtSemProofs

\* A task inside EnterMutex past the wait, or inside LeaveMutex, is on a mutex
\* and waits for nothing.
PhaseOn == \A t \in Task : phase[t] # "none" => on[t] \in Sem /\ at[t] = NoSem

\* The inductive invariant.
MInv == IInv /\ MutexTypeOK /\ PhaseOn /\ OneToken /\ OwnershipTracksUse

\* New mutexes have their token in the semaphore.
LEMMA InitMInv == MutexInit => MInv
<1>. SUFFICES ASSUME MutexInit PROVE MInv
  OBVIOUS
<1>. USE DEF MutexInit
<1>1. IInv
  BY InitIInv DEF Init
<1>2. MutexTypeOK
  BY DEF MutexTypeOK
<1>3. PhaseOn
  BY DEF PhaseOn
<1>4. OneToken
  <2>1. \A m \in Sem : Holders(m) = {} /\ value[m] = 1
    BY MutexAssumption DEF SemInit, Holders, Granted, Passing, Owners
  <2>. QED  BY <2>1 DEF OneToken
<1>5. OwnershipTracksUse
  BY MutexAssumption DEF OwnershipTracksUse
<1>. QED  BY <1>1, <1>2, <1>3, <1>4, <1>5 DEF MInv

\* A step that leaves the holders of every mutex and the counts as they are.
LEMMA SameToken ==
  ASSUME OneToken, value' = value,
         \A m \in Sem : /\ Granted(m)' = Granted(m)
                        /\ Passing(m)' = Passing(m)
                        /\ Owners(m)' = Owners(m)
  PROVE  OneToken'
BY DEF OneToken, Holders

\* A step in which the one holder of m changes the form in which it has it.
LEMMA MovesToken ==
  ASSUME OneToken, value' = value, NEW m \in Sem, NEW t \in Holders(m),
         \A r \in Sem \ {m} : /\ Granted(r)' = Granted(r)
                              /\ Passing(r)' = Passing(r)
                              /\ Owners(r)' = Owners(r),
         \/ Granted(m)' = {t} /\ Passing(m)' = {} /\ Owners(m)' = {}
         \/ Granted(m)' = {} /\ Passing(m)' = {t} /\ Owners(m)' = {}
         \/ Granted(m)' = {} /\ Passing(m)' = {} /\ Owners(m)' = {t}
  PROVE  OneToken'
<1>1. value[m] = 0 /\ t \in Task
  BY DEF OneToken, Holders, Granted, Passing, Owners
<1>2. Holders(m)' = {t}
  BY DEF Holders
<1>3. \A r \in Sem \ {m} : Holders(r)' = Holders(r)
  BY DEF Holders
<1>. QED  BY <1>1, <1>2, <1>3 DEF OneToken

\* The one holder of a mutex and the form in which it has it.
LEMMA OnlyHolder ==
  ASSUME OneToken, NEW m \in Sem, NEW t \in Holders(m)
  PROVE  /\ value[m] = 0 /\ Holders(m) = {t}
         /\ t \in Granted(m) => Granted(m) = {t} /\ Passing(m) = {} /\ Owners(m) = {}
         /\ t \in Passing(m) => Granted(m) = {} /\ Passing(m) = {t} /\ Owners(m) = {}
         /\ t \in Owners(m) => Granted(m) = {} /\ Passing(m) = {} /\ Owners(m) = {t}
<1>1. /\ value[m] = 0
      /\ \E u \in Task : Holders(m) = {u}
      /\ Granted(m) \cap Passing(m) = {} /\ Granted(m) \cap Owners(m) = {}
      /\ Passing(m) \cap Owners(m) = {}
  BY DEF OneToken
<1>2. Holders(m) = {t}
  BY <1>1
<1>. QED  BY <1>1, <1>2 DEF Holders

\* EnterMutex by the owner.
LEMMA EnterAgainMInv ==
  ASSUME MInv, NEW t \in Task, NEW m \in Sem, EnterAgain(t, m)
  PROVE  MInv'
<1>. USE DEF MInv, EnterAgain
<1>1. IInv'
  BY DEF IInv, TypeOK, NoLostWakeup, WaitersQueued
<1>2. MutexTypeOK'
  BY DEF MutexTypeOK
<1>3. PhaseOn'
  BY DEF PhaseOn
<1>4. OneToken'
  BY SameToken DEF Granted, Passing, Owners
<1>5. OwnershipTracksUse'
  BY DEF OwnershipTracksUse, MutexTypeOK
<1>. QED  BY <1>1, <1>2, <1>3, <1>4, <1>5

\* EnterMutex takes the event or queues.
LEMMA EnterWaitsMInv ==
  ASSUME MInv, NEW t \in Task, NEW m \in Sem, EnterWaits(t, m)
  PROVE  MInv'
<1>. USE DEF MInv
<1>1. at[t] = NoSem /\ phase[t] = "none" /\ TypeOK /\ MutexTypeOK
  BY DEF EnterWaits, Outside, IInv
<1>2. UNCHANGED <<owner, use_count, held, panic>>
  BY DEF EnterWaits
<1>3. OwnershipTracksUse'
  BY <1>2 DEF OwnershipTracksUse
<1>4. CASE WaitTakes(m) /\ phase' = [phase EXCEPT ![t] = "entering"] /\ on' = [on EXCEPT ![t] = m]
  <2>1. IInv'
    BY <1>4, WaitTakesIInv
  <2>2. MutexTypeOK'
    BY <1>1, <1>2, <1>4 DEF MutexTypeOK
  <2>3. PhaseOn'
    BY <1>1, <1>4 DEF PhaseOn, WaitTakes, MutexTypeOK
  <2>4. value[m] = 1 /\ Holders(m) = {}
    BY <1>4 DEF WaitTakes, OneToken
  <2>5. /\ Granted(m)' = {} /\ Passing(m)' = {t} /\ Owners(m)' = {}
        /\ value'[m] = 0
    BY <1>1, <1>2, <1>4, <2>4 DEF WaitTakes, Holders, Granted, Passing, Owners, MutexTypeOK, TypeOK
  <2>6. \A r \in Sem \ {m} : /\ Granted(r)' = Granted(r) /\ Passing(r)' = Passing(r)
                             /\ Owners(r)' = Owners(r) /\ value'[r] = value[r]
    BY <1>1, <1>2, <1>4 DEF WaitTakes, Granted, Passing, Owners, MutexTypeOK, TypeOK
  <2>7. OneToken'
    BY <2>5, <2>6 DEF OneToken, Holders
  <2>. QED  BY <1>3, <2>1, <2>2, <2>3, <2>7
<1>5. CASE WaitFails(m) /\ UNCHANGED <<phase, on>>
  <2>1. UNCHANGED semVars
    BY <1>5 DEF WaitFails
  <2>2. IInv'
    BY <2>1 DEF semVars, IInv, TypeOK, NoLostWakeup, WaitersQueued
  <2>3. MutexTypeOK' /\ PhaseOn'
    BY <1>2, <1>5, <2>1 DEF semVars, MutexTypeOK, PhaseOn
  <2>4. OneToken'
    BY <1>2, <1>5, <2>1, SameToken DEF semVars, Granted, Passing, Owners
  <2>. QED  BY <1>3, <2>2, <2>3, <2>4
<1>6. CASE (\E b \in BOOLEAN : WaitBlocks(t, m, b)) /\ UNCHANGED <<phase, on>>
  <2>1. IInv'
    BY <1>1, <1>6, WaitBlocksIInv
  <2>2. /\ value' = value /\ at' = [at EXCEPT ![t] = m] /\ outcome' = [outcome EXCEPT ![t] = "none"]
    BY <1>6 DEF WaitBlocks
  <2>3. MutexTypeOK'
    BY <1>2, <1>6 DEF MutexTypeOK
  <2>4. PhaseOn'
    BY <1>1, <1>6, <2>2 DEF PhaseOn, TypeOK
  <2>5. \A r \in Sem : Granted(r)' = Granted(r) /\ Passing(r)' = Passing(r) /\ Owners(r)' = Owners(r)
    BY <1>1, <1>2, <1>6, <2>2, SemAssumption DEF Granted, Passing, Owners, TypeOK
  <2>6. OneToken'
    BY <2>2, <2>5, SameToken
  <2>. QED  BY <1>3, <2>1, <2>3, <2>4, <2>6
<1>. QED  BY <1>4, <1>5, <1>6 DEF EnterWaits

\* EnterMutex has got the event.
LEMMA EnterResumesMInv ==
  ASSUME MInv, NEW t \in Task, EnterResumes(t)
  PROVE  MInv'
<1>. USE DEF MInv
<1>1. TypeOK /\ MutexTypeOK
  BY DEF IInv
<1>2. PICK m \in Sem : at[t] = m
  BY <1>1 DEF EnterResumes, WaitReturns, IsWoken, TypeOK
<1>3. /\ value' = value /\ at' = [at EXCEPT ![t] = NoSem]
      /\ outcome' = [outcome EXCEPT ![t] = "none"]
      /\ phase' = [phase EXCEPT ![t] = IF outcome[t] = "true" THEN "entering" ELSE @]
      /\ on' = [on EXCEPT ![t] = IF outcome[t] = "true" THEN m ELSE @]
      /\ UNCHANGED <<owner, use_count, held, panic>>
  BY <1>2 DEF EnterResumes, WaitReturns
<1>4. phase[t] = "none"
  BY <1>2, SemAssumption DEF PhaseOn
<1>5. IInv'
  BY WaitReturnsIInv DEF EnterResumes
<1>6. MutexTypeOK'
  BY <1>1, <1>3 DEF MutexTypeOK
<1>7. PhaseOn'
  BY <1>1, <1>3, <1>4 DEF PhaseOn, MutexTypeOK, TypeOK
<1>8. OwnershipTracksUse'
  BY <1>3 DEF OwnershipTracksUse
<1>9. OneToken'
  <2>1. \A r \in Sem \ {m} : /\ Granted(r)' = Granted(r) /\ Passing(r)' = Passing(r)
                             /\ Owners(r)' = Owners(r)
    BY <1>1, <1>2, <1>3, <1>4, SemAssumption DEF Granted, Passing, Owners, TypeOK, MutexTypeOK
  <2>2. Owners(m)' = Owners(m)
    BY <1>3 DEF Owners
  <2>3. CASE outcome[t] = "true"
    <3>1. t \in Granted(m) /\ t \in Holders(m)
      BY <1>2, <2>3 DEF Granted, Holders
    <3>2. Granted(m) = {t} /\ Passing(m) = {} /\ Owners(m) = {}
      BY <3>1, OnlyHolder
    <3>3. Granted(m)' = {} /\ Passing(m)' = {t}
      BY <1>1, <1>2, <1>3, <2>3, <3>2, SemAssumption DEF Granted, Passing, TypeOK, MutexTypeOK
    <3>. QED  BY <1>3, <2>1, <2>2, <3>1, <3>2, <3>3, MovesToken
  <2>4. CASE outcome[t] # "true"
    <3>1. Granted(m)' = Granted(m) /\ Passing(m)' = Passing(m)
      BY <1>1, <1>2, <1>3, <1>4, <2>4, SemAssumption DEF Granted, Passing, TypeOK, MutexTypeOK
    <3>. QED  BY <1>3, <2>1, <2>2, <3>1, SameToken
  <2>. QED  BY <2>3, <2>4
<1>. QED  BY <1>5, <1>6, <1>7, <1>8, <1>9

\* EnterMutex stores the owner.
LEMMA EnterOwnsMInv ==
  ASSUME MInv, NEW t \in Task, EnterOwns(t)
  PROVE  MInv'
<1>. USE DEF MInv
<1>1. MutexTypeOK /\ phase[t] = "entering"
  BY DEF EnterOwns
<1>2. PICK m \in Sem : on[t] = m
  BY <1>1 DEF PhaseOn
<1>3. /\ owner' = [owner EXCEPT ![m] = t]
      /\ use_count' = [use_count EXCEPT ![m] = 1]
      /\ phase' = [phase EXCEPT ![t] = "none"]
      /\ on' = [on EXCEPT ![t] = NoSem]
      /\ held' = [held EXCEPT ![t][m] = @ + 1]
      /\ UNCHANGED <<value, waiting, at, outcome, timed, panic>>
  BY <1>2 DEF EnterOwns
<1>4. t \in Passing(m) /\ t \in Holders(m)
  BY <1>1, <1>2 DEF Passing, Holders
<1>5. Granted(m) = {} /\ Passing(m) = {t} /\ Owners(m) = {}
  BY <1>4, OnlyHolder
<1>6. IInv'
  BY <1>3 DEF IInv, TypeOK, NoLostWakeup, WaitersQueued
<1>7. MutexTypeOK'
  BY <1>1, <1>3 DEF MutexTypeOK
<1>8. PhaseOn'
  BY <1>1, <1>3 DEF PhaseOn, MutexTypeOK
<1>9. OneToken'
  <2>1. \A r \in Sem \ {m} : /\ Granted(r)' = Granted(r) /\ Passing(r)' = Passing(r)
                             /\ Owners(r)' = Owners(r)
    BY <1>1, <1>2, <1>3, SemAssumption DEF Granted, Passing, Owners, MutexTypeOK
  <2>2. Granted(m)' = {} /\ Passing(m)' = {} /\ Owners(m)' = {t}
    BY <1>1, <1>3, <1>5, SemAssumption DEF Granted, Passing, Owners, MutexTypeOK
  <2>. QED  BY <1>3, <1>4, <2>1, <2>2, MovesToken
<1>10. OwnershipTracksUse'
  <2>1. \A u \in Task : held[u][m] = 0
    BY <1>1, <1>5 DEF OwnershipTracksUse, Owners, MutexTypeOK
  <2>. QED  BY <1>1, <1>3, <2>1 DEF OwnershipTracksUse, MutexTypeOK
<1>. QED  BY <1>6, <1>7, <1>8, <1>9, <1>10

\* LeaveMutex counts down and clears the owner.
LEMMA LeaveMutexMInv ==
  ASSUME MInv, NEW t \in Task, NEW m \in Sem, LeaveMutex(t, m)
  PROVE  MInv'
<1>. USE DEF MInv
<1>1. MutexTypeOK /\ Outside(t) /\ held[t][m] > 0
  BY DEF LeaveMutex
<1>2. owner[m] = t /\ use_count[m] = held[t][m]
  BY <1>1 DEF OwnershipTracksUse
<1>3. /\ use_count' = [use_count EXCEPT ![m] = @ - 1]
      /\ held' = [held EXCEPT ![t][m] = @ - 1]
      /\ IF use_count[m] = 1
         THEN /\ owner' = [owner EXCEPT ![m] = NoTask]
              /\ phase' = [phase EXCEPT ![t] = "leaving"]
              /\ on' = [on EXCEPT ![t] = m]
         ELSE UNCHANGED <<owner, phase, on>>
      /\ UNCHANGED <<value, waiting, at, outcome, timed, panic>>
  BY <1>2 DEF LeaveMutex
<1>4. t \in Owners(m) /\ t \in Holders(m)
  BY <1>2 DEF Owners, Holders
<1>5. Granted(m) = {} /\ Passing(m) = {} /\ Owners(m) = {t}
  BY <1>4, OnlyHolder
<1>6. IInv'
  BY <1>3 DEF IInv, TypeOK, NoLostWakeup, WaitersQueued
<1>7. MutexTypeOK'
  <2>1. use_count[m] - 1 \in Nat /\ held[t][m] - 1 \in Nat
    BY <1>1, <1>2 DEF MutexTypeOK
  <2>2. use_count' \in [Sem -> Nat]
    BY <1>1, <1>3, <2>1 DEF MutexTypeOK
  <2>3. held' \in [Task -> [Sem -> Nat]]
    BY <1>1, <1>3, <2>1 DEF MutexTypeOK
  <2>4. /\ owner' \in [Sem -> Task \cup {NoTask}] /\ panic' \in BOOLEAN
        /\ phase' \in [Task -> {"none", "entering", "leaving"}]
        /\ on' \in [Task -> Sem \cup {NoSem}]
    <3>1. CASE use_count[m] = 1
      BY <1>1, <1>3, <3>1 DEF MutexTypeOK
    <3>2. CASE use_count[m] # 1
      BY <1>3, <3>2 DEF MutexTypeOK
    <3>. QED  BY <3>1, <3>2
  <2>. QED  BY <2>2, <2>3, <2>4 DEF MutexTypeOK
<1>8. PhaseOn'
  BY <1>1, <1>3 DEF PhaseOn, MutexTypeOK, Outside
<1>9. OneToken'
  <2>1. CASE use_count[m] = 1
    <3>1. \A r \in Sem \ {m} : /\ Granted(r)' = Granted(r) /\ Passing(r)' = Passing(r)
                               /\ Owners(r)' = Owners(r)
      BY <1>1, <1>3, <2>1 DEF Granted, Passing, Owners, Outside, MutexTypeOK
    <3>2. Granted(m)' = {} /\ Passing(m)' = {t} /\ Owners(m)' = {}
      BY <1>1, <1>3, <1>5, <2>1, MutexAssumption DEF Granted, Passing, Owners, MutexTypeOK
    <3>. QED  BY <1>3, <1>4, <3>1, <3>2, MovesToken
  <2>2. CASE use_count[m] # 1
    BY <1>3, <2>2, SameToken DEF Granted, Passing, Owners
  <2>. QED  BY <2>1, <2>2
<1>10. OwnershipTracksUse'
  <2>1. \A u \in Task : u # t => held[u][m] = 0
    BY <1>1, <1>2 DEF OwnershipTracksUse, MutexTypeOK
  <2>2. held[t][m] \in Nat /\ held'[t][m] = held[t][m] - 1
    BY <1>1, <1>3 DEF MutexTypeOK
  <2>. QED  BY <1>1, <1>2, <1>3, <2>1, <2>2, MutexAssumption DEF OwnershipTracksUse, MutexTypeOK
<1>. QED  BY <1>6, <1>7, <1>8, <1>9, <1>10

\* LeaveMutex signals the semaphore.
LEMMA LeaveSignalsMInv ==
  ASSUME MInv, NEW t \in Task, LeaveSignals(t)
  PROVE  MInv'
<1>. USE DEF MInv
<1>1. MutexTypeOK /\ TypeOK /\ phase[t] = "leaving"
  BY DEF LeaveSignals, IInv
<1>2. PICK m \in Sem : on[t] = m
  BY <1>1 DEF PhaseOn
<1>3. /\ SignalSem(m)
      /\ phase' = [phase EXCEPT ![t] = "none"]
      /\ on' = [on EXCEPT ![t] = NoSem]
      /\ UNCHANGED <<owner, use_count, held, panic>>
  BY <1>2 DEF LeaveSignals
<1>4. t \in Passing(m) /\ t \in Holders(m)
  BY <1>1, <1>2 DEF Passing, Holders
<1>5. value[m] = 0 /\ Granted(m) = {} /\ Passing(m) = {t} /\ Owners(m) = {}
  BY <1>4, OnlyHolder
<1>6. IInv'
  BY <1>3, SignalSemIInv
<1>7. MutexTypeOK'
  BY <1>1, <1>3 DEF MutexTypeOK
<1>8. at' = at
  BY <1>3 DEF SignalSem
<1>9. PhaseOn'
  BY <1>1, <1>3, <1>8 DEF PhaseOn, MutexTypeOK
<1>10. OwnershipTracksUse'
  BY <1>3 DEF OwnershipTracksUse
<1>11. /\ \A r \in Sem \ {m} : Passing(r)' = Passing(r)
       /\ \A r \in Sem : Owners(r)' = Owners(r)
       /\ Passing(m)' = {}
  BY <1>1, <1>2, <1>3, <1>5, SemAssumption DEF Passing, Owners, MutexTypeOK
<1>12. OneToken'
  <2>1. CASE waiting[m] = <<>>
    <3>1. /\ value' = [value EXCEPT ![m] = (@ + 1) % UINT_MOD]
          /\ UNCHANGED <<at, outcome>>
      BY <1>3, <2>1 DEF SignalSem
    <3>2. 1 % UINT_MOD = 1
      BY SemAssumption, MutexAssumption
    <3>3. value'[m] = 1 /\ \A r \in Sem \ {m} : value'[r] = value[r]
      BY <1>1, <1>5, <3>1, <3>2 DEF TypeOK
    <3>4. \A r \in Sem : Granted(r)' = Granted(r)
      BY <3>1 DEF Granted
    <3>5. Holders(m)' = {}
      BY <1>5, <1>11, <3>4 DEF Holders
    <3>6. \A r \in Sem \ {m} : Holders(r)' = Holders(r)
      BY <1>11, <3>4 DEF Holders
    <3>. QED  BY <1>11, <3>3, <3>4, <3>5, <3>6 DEF OneToken
  <2>2. CASE waiting[m] # <<>>
    <3>1. PICK u \in Task : /\ at[u] = m
                            /\ outcome' = [outcome EXCEPT ![u] = "true"]
                            /\ UNCHANGED <<value, at>>
      <4>1. mt_peeklast(waiting[m]) \in Members(waiting[m])
        BY <2>2, SemAssumption, QueueFacts, GetLastKeepsOrder
      <4>2. mt_peeklast(waiting[m]) \in Task /\ at[mt_peeklast(waiting[m])] = m
        BY <4>1, QueueFacts
      <4>. QED  BY <1>3, <2>2, <4>2 DEF SignalSem
    <3>2. Granted(m)' = {u}
      BY <1>1, <1>5, <3>1 DEF Granted, TypeOK
    <3>3. \A r \in Sem \ {m} : Granted(r)' = Granted(r)
      BY <1>1, <3>1 DEF Granted, TypeOK
    <3>4. Holders(m)' = {u}
      BY <1>5, <1>11, <3>2 DEF Holders
    <3>5. \A r \in Sem \ {m} : Holders(r)' = Holders(r)
      BY <1>11, <3>3 DEF Holders
    <3>. QED  BY <1>5, <1>11, <3>1, <3>2, <3>3, <3>4, <3>5 DEF OneToken
  <2>. QED  BY <2>1, <2>2
<1>. QED  BY <1>6, <1>7, <1>9, <1>10, <1>12

\* EnterMutex times out.
LEMMA EnterGivesUpMInv ==
  ASSUME MInv, NEW t \in Task, EnterGivesUp(t)
  PROVE  MInv'
<1>. USE DEF MInv
<1>1. TypeOK /\ MutexTypeOK /\ GiveUp(t) /\ UNCHANGED <<owner, use_count, phase, on, held, panic>>
  BY DEF EnterGivesUp, Timeout, IInv
<1>2. IInv'
  BY <1>1, GiveUpIInv
<1>3. value' = value /\ at' = at
  BY <1>1 DEF GiveUp
<1>4. MutexTypeOK' /\ PhaseOn' /\ OwnershipTracksUse'
  BY <1>1, <1>3 DEF MutexTypeOK, PhaseOn, OwnershipTracksUse
<1>5. \A r \in Sem : Granted(r)' = Granted(r) /\ Passing(r)' = Passing(r) /\ Owners(r)' = Owners(r)
  BY <1>1 DEF GiveUp, IsBlocked, Granted, Passing, Owners, TypeOK
<1>6. OneToken'
  BY <1>3, <1>5, SameToken
<1>. QED  BY <1>2, <1>4, <1>6

\* Every action of the mutexes keeps the invariant.
LEMMA NextMInv == MInv /\ [MutexNext]_mutexVars => MInv'
<1>. SUFFICES ASSUME MInv, [MutexNext]_mutexVars PROVE MInv'
  OBVIOUS
<1>1. ASSUME NEW t \in Task, NEW m \in Sem,
             EnterAgain(t, m) \/ EnterWaits(t, m) \/ LeaveMutex(t, m)
      PROVE  MInv'
  BY <1>1, EnterAgainMInv, EnterWaitsMInv, LeaveMutexMInv
<1>2. ASSUME NEW t \in Task,
             EnterResumes(t) \/ EnterOwns(t) \/ LeaveSignals(t) \/ EnterGivesUp(t)
      PROVE  MInv'
  BY <1>2, EnterResumesMInv, EnterOwnsMInv, LeaveSignalsMInv, EnterGivesUpMInv
<1>3. CASE UNCHANGED mutexVars
  <2>1. IInv' /\ MutexTypeOK' /\ PhaseOn' /\ OwnershipTracksUse'
    BY <1>3 DEF mutexVars, MInv, IInv, TypeOK, NoLostWakeup, WaitersQueued,
                MutexTypeOK, PhaseOn, OwnershipTracksUse
  <2>2. OneToken'
    BY <1>3, SameToken DEF MInv, mutexVars, Granted, Passing, Owners
  <2>. QED  BY <2>1, <2>2 DEF MInv
<1>. QED  BY <1>1, <1>2, <1>3 DEF MutexNext

\* In every reachable state of mutex.c exactly one event of each mutex exists, the
\* ownership agrees with the program's enters and leaves (so that LeaveMutex never
\* panics), and two tasks are never inside at once.
THEOREM MutexSafety ==
  MutexSpec => [](MutexTypeOK /\ OneToken /\ OwnershipTracksUse /\ MutualExclusion)
<1>1. MutexInit => MInv
  BY InitMInv
<1>2. MInv /\ [MutexNext]_mutexVars => MInv'
  BY NextMInv
<1>3. MInv => MutexTypeOK /\ OneToken /\ OwnershipTracksUse /\ MutualExclusion
  <2>1. OwnershipTracksUse => MutualExclusion
    BY DEF OwnershipTracksUse, MutualExclusion
  <2>. QED  BY <2>1 DEF MInv
<1>. QED  BY <1>1, <1>2, <1>3, PTL DEF MutexSpec

=============================================================================
