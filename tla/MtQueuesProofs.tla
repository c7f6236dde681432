--------------------------- MODULE MtQueuesProofs ---------------------------
(***************************************************************************)
(* What the operations of queue.c do to a task queue, for queues of any    *)
(* length: which tasks it holds, that it holds each once, and its order.   *)
(***************************************************************************)
EXTENDS MtQueues, WellFoundedInduction, TLAPS

\* A set of naturals that is not empty has a least element.
LEMMA LeastNat ==
  ASSUME NEW T \in SUBSET Nat, T # {}
  PROVE  \E m \in T : \A n \in T : m <= n
<1>1. \E m \in T : \A n \in T : ~ (<<n, m>> \in OpToRel(<, Nat))
  BY WFMin, NatLessThanWellFounded
<1>2. PICK m \in T : \A n \in T : ~ (n < m)
  BY <1>1 DEF OpToRel
<1>. QED  BY <1>2

\* The insertion loop of mt_enqueue stops at a position: everything before it is
\* less urgent and what is at it, if anything, is not.
LEMMA InsertionPointExists ==
  ASSUME NEW S, NEW queue \in Seq(S), NEW prio \in [S -> Nat], NEW p \in Nat
  PROVE  LET i == InsertionPoint(queue, prio, p)
         IN  /\ i \in 1 .. Len(queue) + 1
             /\ \A j \in 1 .. i - 1 : p > prio[queue[j]]
             /\ i <= Len(queue) => p <= prio[queue[i]]
<1>. DEFINE Stop(i) == /\ \A j \in 1 .. i - 1 : p > prio[queue[j]]
                       /\ i <= Len(queue) => p <= prio[queue[i]]
            Urgent == {i \in 1 .. Len(queue) : p <= prio[queue[i]]}
<1>1. Len(queue) \in Nat /\ \A i \in 1 .. Len(queue) : prio[queue[i]] \in Nat
  OBVIOUS
<1>2. \E i \in 1 .. Len(queue) + 1 : Stop(i)
  <2>1. CASE Urgent = {}
    <3>1. Len(queue) + 1 \in 1 .. Len(queue) + 1 /\ Stop(Len(queue) + 1)
      BY <1>1, <2>1
    <3>. QED  BY <3>1
  <2>2. CASE Urgent # {}
    <3>1. PICK i \in Urgent : \A j \in Urgent : i <= j
      <4>1. Urgent \in SUBSET Nat
        BY <1>1
      <4>. QED  BY <4>1, <2>2, LeastNat
    <3>2. i \in 1 .. Len(queue) + 1 /\ Stop(i)
      BY <3>1, <1>1
    <3>. QED  BY <3>2
  <2>. QED  BY <2>1, <2>2
<1>. QED  BY <1>2 DEF InsertionPoint

\* InsertBefore adds one element and moves the ones behind it by one place.
LEMMA InsertBeforeProperties ==
  ASSUME NEW S, NEW seq \in Seq(S), NEW e \in S, NEW i \in 1 .. Len(seq) + 1
  PROVE  /\ InsertBefore(seq, i, e) \in Seq(S)
         /\ Len(InsertBefore(seq, i, e)) = Len(seq) + 1
         /\ \A j \in 1 .. Len(seq) + 1 :
              InsertBefore(seq, i, e)[j] =
                IF j < i THEN seq[j] ELSE IF j = i THEN e ELSE seq[j - 1]
<1>1. Len(seq) \in Nat
  OBVIOUS
<1>2. \A j \in 1 .. Len(seq) + 1 :
        (IF j < i THEN seq[j] ELSE IF j = i THEN e ELSE seq[j - 1]) \in S
  BY <1>1
<1>3. InsertBefore(seq, i, e) \in Seq(S) /\ Len(InsertBefore(seq, i, e)) = Len(seq) + 1
  BY <1>1, <1>2 DEF InsertBefore
<1>. QED  BY <1>1, <1>3 DEF InsertBefore

\* DeleteAt removes one element and moves the ones behind it by one place.
LEMMA DeleteAtProperties ==
  ASSUME NEW S, NEW seq \in Seq(S), NEW i \in 1 .. Len(seq)
  PROVE  LET r == DeleteAt(seq, i)
         IN  /\ r \in Seq(S)
             /\ Len(r) = Len(seq) - 1
             /\ \A j \in 1 .. i - 1 : r[j] = seq[j]
             /\ \A j \in i .. Len(seq) - 1 : r[j] = seq[j + 1]
<1>1. Len(seq) \in Nat
  OBVIOUS
<1>2. \A j \in 1 .. Len(seq) - 1 : (IF j < i THEN seq[j] ELSE seq[j + 1]) \in S
  BY <1>1
<1>3. DeleteAt(seq, i) \in Seq(S) /\ Len(DeleteAt(seq, i)) = Len(seq) - 1
  BY <1>1, <1>2 DEF DeleteAt
<1>. QED  BY <1>1, <1>3 DEF DeleteAt

-----------------------------------------------------------------------------

\* mt_enqueue adds exactly the new task; a queue that held each task once and in
\* order of priority still does.
THEOREM EnqueueKeepsOrder ==
  ASSUME NEW S, NEW queue \in Seq(S), NEW prio \in [S -> Nat], NEW task \in S
  PROVE  LET r == mt_enqueue(queue, prio, task)
         IN  /\ r \in Seq(S)
             /\ r # <<>>
             /\ Members(r) = Members(queue) \cup {task}
             /\ task \notin Members(queue) /\ Distinct(queue) => Distinct(r)
             /\ Sorted(queue, prio) => Sorted(r, prio)
<1>. DEFINE i == InsertionPoint(queue, prio, prio[task])
            r == mt_enqueue(queue, prio, task)
<1>1. Len(queue) \in Nat /\ \A j \in 1 .. Len(queue) : queue[j] \in S /\ prio[queue[j]] \in Nat
  OBVIOUS
<1>2. /\ i \in 1 .. Len(queue) + 1
      /\ \A j \in 1 .. i - 1 : prio[task] > prio[queue[j]]
      /\ i <= Len(queue) => prio[task] <= prio[queue[i]]
  BY InsertionPointExists
<1>3. r = InsertBefore(queue, i, task)
  BY DEF mt_enqueue
<1>. HIDE DEF i, r
<1>4. /\ r \in Seq(S)
      /\ Len(r) = Len(queue) + 1
      /\ \A j \in 1 .. Len(queue) + 1 :
           r[j] = IF j < i THEN queue[j] ELSE IF j = i THEN task ELSE queue[j - 1]
  <2>0. i \in 1 .. Len(queue) + 1
    BY <1>2
  <2>1. /\ InsertBefore(queue, i, task) \in Seq(S)
        /\ Len(InsertBefore(queue, i, task)) = Len(queue) + 1
        /\ \A j \in 1 .. Len(queue) + 1 :
             InsertBefore(queue, i, task)[j] =
               IF j < i THEN queue[j] ELSE IF j = i THEN task ELSE queue[j - 1]
    BY <2>0, InsertBeforeProperties
  <2>. QED  BY <1>3, <2>1, Zenon
\* every element of the result but the new one is an element of the queue, in the
\* same order
<1>. DEFINE was(j) == IF j < i THEN j ELSE j - 1
<1>5. \A j \in 1 .. Len(r) : j # i => was(j) \in 1 .. Len(queue) /\ r[j] = queue[was(j)]
  <2>1. SUFFICES ASSUME NEW j \in 1 .. Len(r), j # i
                 PROVE  was(j) \in 1 .. Len(queue) /\ r[j] = queue[was(j)]
    OBVIOUS
  <2>2. r[j] = IF j < i THEN queue[j] ELSE IF j = i THEN task ELSE queue[j - 1]
    BY <1>4
  <2>3. r[j] = queue[was(j)]
    BY <2>1, <2>2
  <2>4. was(j) \in 1 .. Len(queue)
    BY <1>1, <1>2, <1>4, <2>1
  <2>. QED  BY <2>3, <2>4
<1>6. \A j, l \in 1 .. Len(r) : j < l /\ j # i /\ l # i => was(j) < was(l)
  <2>1. i \in Nat /\ Len(r) \in Nat
    BY <1>1, <1>2, <1>4
  <2>2. SUFFICES ASSUME NEW j \in 1 .. Len(r), NEW l \in 1 .. Len(r), j < l, j # i, l # i
                 PROVE  was(j) < was(l)
    OBVIOUS
  <2>3. j \in Nat /\ l \in Nat
    BY <2>1, <2>2
  <2>. QED  BY <2>1, <2>2, <2>3
<1>7. \A m \in 1 .. Len(queue) : \E j \in 1 .. Len(r) : j # i /\ was(j) = m
  <2>1. SUFFICES ASSUME NEW m \in 1 .. Len(queue)
                 PROVE  \E j \in 1 .. Len(r) : j # i /\ was(j) = m
    OBVIOUS
  <2>2. m < i => m \in 1 .. Len(r) /\ m # i /\ was(m) = m
    BY <1>1, <1>2, <1>4
  <2>3. m >= i => m + 1 \in 1 .. Len(r) /\ m + 1 # i /\ was(m + 1) = m
    BY <1>1, <1>2, <1>4
  <2>4. m < i \/ m >= i
    BY <1>1, <1>2
  <2>. QED  BY <2>2, <2>3, <2>4
<1>8. i \in 1 .. Len(r) /\ r[i] = task
  BY <1>1, <1>2, <1>4
<1>9. \A j \in 1 .. Len(r) : /\ j < i => was(j) < i
                             /\ j > i => i <= was(j) /\ i <= Len(queue)
  BY <1>1, <1>2, <1>4
<1>10. r # <<>>
  BY <1>1, <1>4
<1>. HIDE DEF was
<1>11. Members(r) = Members(queue) \cup {task}
  <2>1. \A j \in 1 .. Len(r) : r[j] \in Members(queue) \cup {task}
    BY <1>5, <1>8 DEF Members
  <2>2. \A m \in 1 .. Len(queue) : queue[m] \in Members(r)
    BY <1>5, <1>7 DEF Members
  <2>3. task \in Members(r)
    BY <1>8 DEF Members
  <2>. QED  BY <2>1, <2>2, <2>3 DEF Members
<1>12. ASSUME task \notin Members(queue), Distinct(queue)
       PROVE  Distinct(r)
  <2>1. SUFFICES ASSUME NEW j \in 1 .. Len(r), NEW l \in 1 .. Len(r), j < l
                 PROVE  r[j] # r[l]
    BY <1>1, <1>4 DEF Distinct
  <2>2. \A m \in 1 .. Len(queue) : queue[m] # task
    BY <1>12 DEF Members
  <2>0. j \in Nat /\ l \in Nat /\ j # l
    BY <1>1, <1>4, <2>1
  <2>3. CASE j = i \/ l = i
    <3>1. CASE j = i
      <4>1. l # i /\ was(l) \in 1 .. Len(queue) /\ r[l] = queue[was(l)]
        BY <1>5, <2>0, <3>1
      <4>. QED  BY <1>8, <2>2, <3>1, <4>1
    <3>2. CASE l = i
      <4>1. j # i /\ was(j) \in 1 .. Len(queue) /\ r[j] = queue[was(j)]
        BY <1>5, <2>0, <3>2
      <4>. QED  BY <1>8, <2>2, <3>2, <4>1
    <3>. QED  BY <2>3, <3>1, <3>2
  <2>4. CASE j # i /\ l # i
    <3>1. was(j) \in 1 .. Len(queue) /\ was(l) \in 1 .. Len(queue) /\ was(j) < was(l)
      BY <1>5, <1>6, <2>1, <2>4
    <3>2. was(j) # was(l) /\ r[j] = queue[was(j)] /\ r[l] = queue[was(l)]
      BY <1>1, <1>5, <2>4, <3>1
    <3>. HIDE DEF was
    <3>3. queue[was(j)] # queue[was(l)]
      BY <1>12, <3>1, <3>2 DEF Distinct
    <3>. QED  BY <3>2, <3>3
  <2>. QED  BY <2>3, <2>4
<1>13. ASSUME Sorted(queue, prio)
       PROVE  Sorted(r, prio)
  <2>1. SUFFICES ASSUME NEW j \in 1 .. Len(r), NEW l \in 1 .. Len(r), j < l
                 PROVE  prio[r[j]] <= prio[r[l]]
    BY DEF Sorted
  <2>2. \A m, n \in 1 .. Len(queue) : m < n => prio[queue[m]] <= prio[queue[n]]
    BY <1>13 DEF Sorted
  <2>3. CASE j # i /\ l # i
    <3>1. was(j) \in 1 .. Len(queue) /\ was(l) \in 1 .. Len(queue) /\ was(j) < was(l)
      BY <1>5, <1>6, <2>1, <2>3
    <3>. QED  BY <1>5, <2>2, <2>3, <3>1
  <2>4. CASE l = i
    <3>1. j # i /\ was(j) \in 1 .. i - 1 /\ r[j] = queue[was(j)]
      <4>1. j < i /\ j # i
        BY <1>1, <1>2, <2>1, <2>4
      <4>2. was(j) \in 1 .. Len(queue) /\ was(j) < i /\ r[j] = queue[was(j)]
        <5>1. was(j) < i
          BY <1>2, <4>1 DEF was
        <5>. QED  BY <1>5, <4>1, <5>1
      <4>. QED  BY <1>1, <1>2, <4>1, <4>2
    <3>2. prio[task] > prio[queue[was(j)]]
      BY <1>2, <3>1
    <3>3. prio[queue[was(j)]] \in Nat /\ prio[task] \in Nat
      BY <1>1, <1>5, <3>1
    <3>. QED  BY <1>8, <2>4, <3>1, <3>2, <3>3
  <2>5. CASE j = i
    <3>1. l # i /\ was(l) \in 1 .. Len(queue) /\ r[l] = queue[was(l)]
      BY <1>1, <1>2, <1>5, <2>1, <2>5
    <3>2. i <= was(l) /\ i \in 1 .. Len(queue)
      BY <1>1, <1>2, <1>9, <2>1, <2>5
    <3>3. prio[task] <= prio[queue[i]]
      BY <1>2, <3>2
    <3>4. prio[queue[i]] <= prio[queue[was(l)]]
      BY <1>1, <2>2, <3>1, <3>2
    <3>5. prio[queue[was(l)]] \in Nat /\ prio[queue[i]] \in Nat /\ prio[task] \in Nat
      BY <1>1, <3>1, <3>2
    <3>. QED  BY <1>8, <2>5, <3>1, <3>3, <3>4, <3>5
  <2>. QED  BY <2>3, <2>4, <2>5
<1>. QED  BY <1>4, <1>10, <1>11, <1>12, <1>13 DEF r

\* mt_dequeue removes exactly the task it is given and keeps the rest as it was.
THEOREM DequeueKeepsOrder ==
  ASSUME NEW S, NEW queue \in Seq(S), NEW prio \in [S -> Nat],
         NEW task \in Members(queue), Distinct(queue)
  PROVE  LET r == mt_dequeue(queue, task)
         IN  /\ r \in Seq(S)
             /\ Members(r) = Members(queue) \ {task}
             /\ Distinct(r)
             /\ Sorted(queue, prio) => Sorted(r, prio)
<1>. DEFINE i == CHOOSE n \in 1 .. Len(queue) : queue[n] = task
            r == mt_dequeue(queue, task)
<1>1. Len(queue) \in Nat /\ \A j \in 1 .. Len(queue) : queue[j] \in S
  OBVIOUS
<1>2. i \in 1 .. Len(queue) /\ queue[i] = task
  BY DEF Members
<1>3. /\ r \in Seq(S)
      /\ Len(r) = Len(queue) - 1
      /\ \A j \in 1 .. i - 1 : r[j] = queue[j]
      /\ \A j \in i .. Len(queue) - 1 : r[j] = queue[j + 1]
  BY <1>2, DeleteAtProperties DEF mt_dequeue
<1>. HIDE DEF i, r
\* every element of the result is an element of the queue, in the same order
<1>. DEFINE was(j) == IF j < i THEN j ELSE j + 1
<1>4. \A j \in 1 .. Len(r) : was(j) \in 1 .. Len(queue) /\ was(j) # i /\ r[j] = queue[was(j)]
  <2>1. SUFFICES ASSUME NEW j \in 1 .. Len(r)
                 PROVE  was(j) \in 1 .. Len(queue) /\ was(j) # i /\ r[j] = queue[was(j)]
    OBVIOUS
  <2>2. CASE j < i
    <3>1. j \in 1 .. Len(queue) /\ j \in 1 .. i - 1 /\ j # i
      BY <1>1, <1>2, <1>3, <2>2
    <3>. QED  BY <1>3, <2>2, <3>1
  <2>3. CASE ~(j < i)
    <3>1. j + 1 \in 1 .. Len(queue) /\ j \in i .. Len(queue) - 1 /\ j + 1 # i
      BY <1>1, <1>2, <1>3, <2>3
    <3>. QED  BY <1>3, <2>3, <3>1
  <2>. QED  BY <2>2, <2>3
<1>5. \A j, l \in 1 .. Len(r) : j < l => was(j) < was(l)
  <2>1. i \in Int /\ Len(r) \in Int
    BY <1>1, <1>2, <1>3
  <2>. QED  BY <2>1
<1>6. \A m \in 1 .. Len(queue) : m # i => \E j \in 1 .. Len(r) : was(j) = m
  <2>1. SUFFICES ASSUME NEW m \in 1 .. Len(queue), m # i
                 PROVE  \E j \in 1 .. Len(r) : was(j) = m
    OBVIOUS
  <2>2. m < i => m \in 1 .. Len(r) /\ was(m) = m
    BY <1>1, <1>2, <1>3
  <2>3. m > i => m - 1 \in 1 .. Len(r) /\ was(m - 1) = m
    BY <1>1, <1>2, <1>3
  <2>4. m < i \/ m > i
    BY <1>1, <1>2, <2>1
  <2>. QED  BY <2>2, <2>3, <2>4
<1>. HIDE DEF was
<1>7. Members(r) = Members(queue) \ {task}
  <2>1. \A m \in 1 .. Len(queue) : queue[m] = task <=> m = i
    BY <1>2 DEF Distinct
  <2>2. \A j \in 1 .. Len(r) : r[j] \in Members(queue) \ {task}
    BY <1>4, <2>1 DEF Members
  <2>3. \A m \in 1 .. Len(queue) : m # i => queue[m] \in Members(r)
    BY <1>4, <1>6 DEF Members
  <2>. QED  BY <2>1, <2>2, <2>3 DEF Members
<1>8. Distinct(r)
  <2>1. SUFFICES ASSUME NEW j \in 1 .. Len(r), NEW l \in 1 .. Len(r), j < l
                 PROVE  r[j] # r[l]
    BY <1>1, <1>3 DEF Distinct
  <2>2. was(j) \in 1 .. Len(queue) /\ was(l) \in 1 .. Len(queue) /\ was(j) < was(l)
    BY <1>4, <1>5, <2>1
  <2>. QED  BY <1>1, <1>4, <2>2 DEF Distinct
<1>9. ASSUME Sorted(queue, prio)
      PROVE  Sorted(r, prio)
  BY <1>4, <1>5, <1>9 DEF Sorted
<1>. QED  BY <1>3, <1>7, <1>8, <1>9 DEF r

\* Taking the tail removes exactly the most urgent task.
THEOREM GetLastKeepsOrder ==
  ASSUME NEW S, NEW queue \in Seq(S), NEW prio \in [S -> Nat],
         queue # <<>>, Distinct(queue)
  PROVE  LET r == mt_getlast(queue)
             t == mt_peeklast(queue)
         IN  /\ r \in Seq(S)
             /\ t \in Members(queue)
             /\ Members(r) = Members(queue) \ {t}
             /\ Distinct(r)
             /\ Sorted(queue, prio) => /\ Sorted(r, prio)
                                       /\ \A u \in Members(queue) : prio[u] <= prio[t]
<1>. DEFINE r == mt_getlast(queue)
            t == mt_peeklast(queue)
<1>1. Len(queue) \in Nat /\ Len(queue) > 0 /\ \A j \in 1 .. Len(queue) : queue[j] \in S
  OBVIOUS
<1>2. /\ r \in Seq(S)
      /\ Len(r) = Len(queue) - 1
      /\ \A j \in 1 .. Len(queue) - 1 : r[j] = queue[j]
  <2>1. Len(queue) - 1 \in 0 .. Len(queue)
    BY <1>1
  <2>2. r = [j \in 1 .. Len(queue) - 1 |-> queue[j]]
    BY <1>1, <2>1 DEF mt_getlast
  <2>. QED  BY <1>1, <2>1, <2>2
<1>3. t = queue[Len(queue)] /\ Len(queue) \in 1 .. Len(queue)
  BY <1>1 DEF mt_peeklast
<1>. HIDE DEF r, t
<1>4. Members(r) = Members(queue) \ {t}
  <2>1. \A m \in 1 .. Len(queue) : queue[m] = t <=> m = Len(queue)
    BY <1>3 DEF Distinct
  <2>2. \A m \in 1 .. Len(queue) : m # Len(queue) <=> m \in 1 .. Len(r)
    BY <1>1, <1>2
  <2>3. \A m \in 1 .. Len(r) : m \in 1 .. Len(queue) /\ r[m] = queue[m]
    BY <1>1, <1>2
  <2>. QED  BY <2>1, <2>2, <2>3 DEF Members
<1>5. Distinct(r)
  <2>1. \A m \in 1 .. Len(r) : m \in 1 .. Len(queue) /\ r[m] = queue[m]
    BY <1>1, <1>2
  <2>. QED  BY <2>1 DEF Distinct
<1>6. ASSUME Sorted(queue, prio)
      PROVE  /\ Sorted(r, prio)
             /\ \A u \in Members(queue) : prio[u] <= prio[t]
  <2>1. Sorted(r, prio)
    <3>1. \A m \in 1 .. Len(r) : m \in 1 .. Len(queue) /\ r[m] = queue[m]
      BY <1>1, <1>2
    <3>. QED  BY <1>6, <3>1 DEF Sorted
  <2>2. \A j \in 1 .. Len(queue) : prio[queue[j]] <= prio[t]
    <3>1. \A j \in 1 .. Len(queue) : prio[queue[j]] \in Nat
      BY <1>1
    <3>. QED  BY <1>1, <1>3, <1>6, <3>1 DEF Sorted
  <2>. QED  BY <2>1, <2>2 DEF Members
<1>7. t \in Members(queue)
  BY <1>3 DEF Members
<1>. QED  BY <1>2, <1>4, <1>5, <1>6, <1>7 DEF r, t

-----------------------------------------------------------------------------
(***************************************************************************)
(* The time queue.  Its recursive sum exists and is unique, and each       *)
(* operation is described by what it does to the sums.                     *)
(***************************************************************************)

\* Induction on the numbers up to N, with the set of those that are all right.
LEMMA UpTo ==
  ASSUME NEW N \in Nat, NEW S, 0 \in S, \A n \in 0 .. N - 1 : n \in S => n + 1 \in S
  PROVE  \A n \in 0 .. N : n \in S
<1>. DEFINE bad == {n \in 0 .. N : n \notin S}
<1>1. SUFFICES ASSUME bad # {} PROVE FALSE
  OBVIOUS
<1>2. bad \in SUBSET Nat
  OBVIOUS
<1>3. PICK m \in bad : \A n \in bad : m <= n
  BY <1>1, <1>2, LeastNat
<1>4. m # 0 /\ m - 1 \in 0 .. N - 1 /\ m - 1 \in 0 .. N
  BY <1>3
<1>5. m - 1 \in S
  BY <1>3, <1>4
<1>6. (m - 1) + 1 \in S
  BY <1>4, <1>5
<1>. QED  BY <1>3, <1>4, <1>6

\* The entries of a time queue of tasks of S.
Entry(S) == [task : S, ticks : Nat]

\* An entry with another delay is an entry of the same task.
LEMMA EntryRetimed ==
  ASSUME NEW S, NEW e \in Entry(S), NEW n \in Nat
  PROVE  LET f == [e EXCEPT !.ticks = n]
         IN  f \in Entry(S) /\ f.task = e.task /\ f.ticks = n
BY DEF Entry

\* The entries of a time queue, and their fields.
LEMMA EntryTicks ==
  ASSUME NEW S, NEW tq \in Seq(Entry(S))
  PROVE  /\ Len(tq) \in Nat
         /\ \A i \in 1 .. Len(tq) : tq[i] \in Entry(S) /\ tq[i].task \in S /\ tq[i].ticks \in Nat
<1>1. Len(tq) \in Nat /\ \A i \in 1 .. Len(tq) : tq[i] \in Entry(S)
  OBVIOUS
<1>2. \A e \in Entry(S) : e.task \in S /\ e.ticks \in Nat
  BY DEF Entry
<1>. QED  BY <1>1, <1>2

\* The defining equation of Elapse has a solution, so it holds.
LEMMA ElapseUnfold ==
  ASSUME NEW S, NEW tq \in Seq(Entry(S))
  PROVE  Elapse(tq) = [i \in 0 .. Len(tq) |->
                         IF i = 0 THEN 0 ELSE Elapse(tq)[i - 1] + tq[i].ticks]
<1>. DEFINE Sums(f, N) == f = [i \in 0 .. N |-> IF i = 0 THEN 0 ELSE f[i - 1] + tq[i].ticks]
            solved == {N \in Nat : \E f : Sums(f, N)}
<1>1. 0 \in solved
  <2>1. Sums([i \in 0 .. 0 |-> 0], 0)
    OBVIOUS
  <2>. QED  BY <2>1
<1>2. ASSUME NEW N \in Nat, N \in solved
      PROVE  N + 1 \in solved
  <2>1. PICK f : Sums(f, N)
    BY <1>2
  <2>. DEFINE g == [i \in 0 .. N + 1 |-> IF i <= N THEN f[i] ELSE f[N] + tq[N + 1].ticks]
  <2>2. ASSUME NEW i \in 0 .. N + 1
        PROVE  g[i] = IF i = 0 THEN 0 ELSE g[i - 1] + tq[i].ticks
    <3>1. CASE i = 0
      <4>1. f[0] = 0
        BY <2>1
      <4>. QED  BY <3>1, <4>1
    <3>2. CASE i \in 1 .. N
      <4>1. i \in 0 .. N /\ i - 1 \in 0 .. N /\ i - 1 \in 0 .. N + 1 /\ i <= N /\ i - 1 <= N /\ i # 0
        BY <3>2
      <4>2. f[i] = f[i - 1] + tq[i].ticks
        BY <2>1, <4>1
      <4>3. g[i] = f[i] /\ g[i - 1] = f[i - 1]
        BY <4>1
      <4>. QED  BY <4>1, <4>2, <4>3
    <3>3. CASE i = N + 1
      <4>1. i # 0 /\ ~(i <= N) /\ i - 1 = N /\ N \in 0 .. N + 1 /\ N <= N
        BY <3>3
      <4>2. g[i] = f[N] + tq[N + 1].ticks /\ g[N] = f[N]
        BY <4>1
      <4>. QED  BY <3>3, <4>1, <4>2
    <3>. QED  BY <3>1, <3>2, <3>3
  <2>3. g = [i \in 0 .. N + 1 |-> IF i = 0 THEN 0 ELSE g[i - 1] + tq[i].ticks]
    BY <2>2
  <2>4. Sums(g, N + 1)
    BY <2>3
  <2>5. \E h : Sums(h, N + 1)
    BY <2>4
  <2>. HIDE DEF Sums
  <2>. QED  BY <2>5
<1>3. Len(tq) \in Nat /\ Len(tq) \in 0 .. Len(tq)
  OBVIOUS
<1>4. Len(tq) \in solved
  <2>. HIDE DEF solved
  <2>1. \A n \in 0 .. Len(tq) - 1 : n \in solved => n + 1 \in solved
    BY <1>2, <1>3
  <2>. QED  BY <1>1, <1>3, <2>1, UpTo
<1>5. PICK f : Sums(f, Len(tq))
  BY <1>4
<1>. QED  BY <1>5 DEF Elapse

\* The running sums of the ticks.
LEMMA ElapseType ==
  ASSUME NEW S, NEW tq \in Seq(Entry(S))
  PROVE  /\ Elapse(tq) \in [0 .. Len(tq) -> Nat]
         /\ Elapse(tq)[0] = 0
         /\ \A i \in 1 .. Len(tq) : Elapse(tq)[i] = Elapse(tq)[i - 1] + tq[i].ticks
<1>. DEFINE sum == Elapse(tq)
            ok == {n \in 0 .. Len(tq) : sum[n] \in Nat}
<1>1. sum = [i \in 0 .. Len(tq) |-> IF i = 0 THEN 0 ELSE sum[i - 1] + tq[i].ticks]
  BY ElapseUnfold
<1>2. Len(tq) \in Nat /\ \A i \in 1 .. Len(tq) : tq[i].ticks \in Nat
  BY EntryTicks
<1>. HIDE DEF sum
<1>3. sum[0] = 0 /\ \A i \in 1 .. Len(tq) : sum[i] = sum[i - 1] + tq[i].ticks
  BY <1>1, <1>2
<1>4. 0 \in ok
  BY <1>2, <1>3
<1>5. ASSUME NEW n \in 0 .. Len(tq) - 1, n \in ok
      PROVE  n + 1 \in ok
  <2>1. n + 1 \in 1 .. Len(tq) /\ (n + 1) - 1 = n
    BY <1>2
  <2>2. sum[n + 1] = sum[n] + tq[n + 1].ticks
    BY <1>3, <2>1
  <2>. QED  BY <1>2, <1>5, <2>1, <2>2
<1>6. \A n \in 0 .. Len(tq) : n \in ok
  <2>. HIDE DEF ok
  <2>. QED  BY <1>2, <1>4, <1>5, UpTo
<1>7. sum \in [0 .. Len(tq) -> Nat]
  BY <1>1, <1>6
<1>. QED  BY <1>3, <1>7 DEF sum

\* Whatever satisfies the equations is the sum.
LEMMA ElapseUnique ==
  ASSUME NEW S, NEW tq \in Seq(Entry(S)), NEW g, g[0] = 0,
         \A i \in 1 .. Len(tq) : g[i] = g[i - 1] + tq[i].ticks
  PROVE  \A i \in 0 .. Len(tq) : Elapse(tq)[i] = g[i]
<1>. DEFINE sum == Elapse(tq)
            ok == {n \in 0 .. Len(tq) : sum[n] = g[n]}
<1>1. /\ Len(tq) \in Nat /\ sum[0] = 0
      /\ \A i \in 1 .. Len(tq) : sum[i] = sum[i - 1] + tq[i].ticks
  BY ElapseType
<1>. HIDE DEF sum
<1>2. 0 \in ok
  BY <1>1
<1>3. ASSUME NEW n \in 0 .. Len(tq) - 1, n \in ok
      PROVE  n + 1 \in ok
  <2>1. n + 1 \in 1 .. Len(tq) /\ (n + 1) - 1 = n
    BY <1>1
  <2>2. sum[n + 1] = sum[n] + tq[n + 1].ticks /\ g[n + 1] = g[n] + tq[n + 1].ticks
    BY <1>1, <2>1
  <2>. QED  BY <1>1, <1>3, <2>1, <2>2
<1>4. \A n \in 0 .. Len(tq) : n \in ok
  <2>. HIDE DEF ok
  <2>. QED  BY <1>1, <1>2, <1>3, UpTo
<1>. QED  BY <1>4 DEF sum

\* No task is twice in the time queue.
TimeDistinct(tq) == \A i, j \in 1 .. Len(tq) : tq[i].task = tq[j].task => i = j

\* The sums are the delays f of the tasks.
Exact(tq, f) == \A i \in 1 .. Len(tq) : Elapse(tq)[i] = f[tq[i].task]

\* mt_enqueue_time adds the task with its delay and leaves the others theirs.
THEOREM EnqueueTimeExact ==
  ASSUME NEW S, NEW tq \in Seq(Entry(S)), NEW task \in S, NEW ticks \in Nat
  PROVE  LET r == mt_enqueue_time(tq, task, ticks)
         IN  /\ r \in Seq(Entry(S))
             /\ TimeMembers(r) = TimeMembers(tq) \cup {task}
             /\ task \notin TimeMembers(tq) /\ TimeDistinct(tq) => TimeDistinct(r)
             /\ \A f : Exact(tq, f) /\ f[task] = ticks => Exact(r, f)
<1>. DEFINE sum == Elapse(tq)
            Stop(i) == /\ \A j \in 1 .. i - 1 : ticks > sum[j]
                       /\ i <= Len(tq) => ticks <= sum[i]
            at == CHOOSE i \in 1 .. Len(tq) + 1 : Stop(i)
            own == ticks - sum[at - 1]
            shrunk == IF at <= Len(tq) THEN [tq EXCEPT ![at].ticks = @ - own] ELSE tq
            new == [task |-> task, ticks |-> own]
            r == mt_enqueue_time(tq, task, ticks)
<1>1. /\ Len(tq) \in Nat
      /\ \A i \in 1 .. Len(tq) : tq[i] \in Entry(S) /\ tq[i].task \in S /\ tq[i].ticks \in Nat
  BY EntryTicks
<1>0. /\ sum \in [0 .. Len(tq) -> Nat] /\ sum[0] = 0
      /\ \A i \in 1 .. Len(tq) : sum[i] = sum[i - 1] + tq[i].ticks
  BY ElapseType
<1>2. sum[0] = 0 /\ \A i \in 0 .. Len(tq) : sum[i] \in Nat
  BY <1>0
<1>3. r = InsertBefore(shrunk, at, new)
  BY DEF mt_enqueue_time
<1>. HIDE DEF sum, r
<1>4. at \in 1 .. Len(tq) + 1 /\ Stop(at)
  <2>. DEFINE late == {i \in 1 .. Len(tq) : ticks <= sum[i]}
  <2>1. CASE late = {}
    <3>1. \A j \in 1 .. Len(tq) : sum[j] \in Nat /\ ticks > sum[j]
      BY <1>1, <1>2, <2>1
    <3>2. Len(tq) + 1 \in 1 .. Len(tq) + 1 /\ (Len(tq) + 1) - 1 = Len(tq)
      BY <1>1
    <3>3. Stop(Len(tq) + 1)
      BY <1>1, <3>1, <3>2
    <3>. QED  BY <3>2, <3>3
  <2>2. CASE late # {}
    <3>1. late \in SUBSET Nat
      BY <1>1
    <3>2. PICK i \in late : \A j \in late : i <= j
      BY <2>2, <3>1, LeastNat
    <3>3. i \in 1 .. Len(tq) + 1 /\ i \in 1 .. Len(tq) /\ ticks <= sum[i]
      BY <1>1, <3>2
    <3>4. ASSUME NEW j \in 1 .. i - 1 PROVE ticks > sum[j]
      <4>1. j \in 1 .. Len(tq) /\ j < i
        BY <1>1, <3>3
      <4>2. j \notin late /\ sum[j] \in Nat
        BY <1>1, <1>2, <3>2, <3>3, <4>1
      <4>. QED  BY <4>1, <4>2
    <3>. QED  BY <3>3, <3>4
  <2>. QED  BY <2>1, <2>2
<1>. HIDE DEF at
<1>5. at - 1 \in 0 .. Len(tq) /\ own \in Nat
  <2>1. at - 1 \in 0 .. Len(tq) /\ sum[at - 1] \in Nat
    BY <1>1, <1>2, <1>4
  <2>2. sum[at - 1] <= ticks
    BY <1>1, <1>2, <1>4, <2>1
  <2>. QED  BY <2>1, <2>2
<1>6. at <= Len(tq) => tq[at].ticks - own = sum[at] - ticks /\ tq[at].ticks - own \in Nat
  <2>1. SUFFICES ASSUME at <= Len(tq)
                 PROVE  tq[at].ticks - own = sum[at] - ticks /\ tq[at].ticks - own \in Nat
    OBVIOUS
  <2>2. at \in 1 .. Len(tq) /\ at \in 0 .. Len(tq) /\ ticks <= sum[at]
    BY <1>1, <1>4, <2>1
  <2>3. sum[at] = sum[at - 1] + tq[at].ticks
    BY <1>0, <2>2
  <2>4. sum[at] \in Nat /\ sum[at - 1] \in Nat /\ tq[at].ticks \in Nat
    BY <1>1, <1>2, <1>5, <2>2
  <2>. QED  BY <2>2, <2>3, <2>4
<1>. HIDE DEF own
<1>7. /\ shrunk \in Seq(Entry(S)) /\ Len(shrunk) = Len(tq)
      /\ \A i \in 1 .. Len(tq) :
           /\ shrunk[i].task = tq[i].task
           /\ shrunk[i].ticks = IF i = at THEN tq[i].ticks - own ELSE tq[i].ticks
  <2>1. CASE at <= Len(tq)
    <3>1. at \in 1 .. Len(tq) /\ tq[at] \in Entry(S)
      BY <1>1, <1>4, <2>1
    <3>. DEFINE e == [tq[at] EXCEPT !.ticks = @ - own]
    <3>2. e \in Entry(S) /\ e.task = tq[at].task /\ e.ticks = tq[at].ticks - own
      BY <1>6, <2>1, <3>1 DEF Entry
    <3>3. shrunk = [tq EXCEPT ![at] = e]
      BY <2>1
    <3>. HIDE DEF e, shrunk
    <3>. QED  BY <1>1, <3>1, <3>2, <3>3
  <2>2. CASE ~(at <= Len(tq))
    BY <1>1, <1>4, <2>2
  <2>. QED  BY <2>1, <2>2
<1>8. new \in Entry(S) /\ new.task = task /\ new.ticks = own
  BY <1>5 DEF Entry
<1>. HIDE DEF shrunk, new
<1>9. /\ r \in Seq(Entry(S)) /\ Len(r) = Len(tq) + 1
      /\ \A j \in 1 .. Len(tq) + 1 :
           r[j] = IF j < at THEN shrunk[j] ELSE IF j = at THEN new ELSE shrunk[j - 1]
  <2>1. at \in 1 .. Len(shrunk) + 1
    BY <1>4, <1>7
  <2>2. shrunk \in Seq(Entry(S)) /\ Len(shrunk) = Len(tq)
    BY <1>7
  <2>3. /\ InsertBefore(shrunk, at, new) \in Seq(Entry(S))
        /\ Len(InsertBefore(shrunk, at, new)) = Len(shrunk) + 1
        /\ \A j \in 1 .. Len(shrunk) + 1 :
             InsertBefore(shrunk, at, new)[j] =
               IF j < at THEN shrunk[j] ELSE IF j = at THEN new ELSE shrunk[j - 1]
    BY <1>8, <2>1, <2>2, InsertBeforeProperties
  <2>. QED  BY <1>3, <2>2, <2>3
<1>10. \A j \in 1 .. Len(tq) + 1 :
         /\ j < at => j \in 1 .. Len(tq) /\ r[j].task = tq[j].task /\ r[j].ticks = tq[j].ticks
         /\ j = at => r[j].task = task /\ r[j].ticks = own
         /\ j > at => /\ j - 1 \in 1 .. Len(tq) /\ r[j].task = tq[j - 1].task
                      /\ r[j].ticks = IF j - 1 = at THEN tq[at].ticks - own ELSE tq[j - 1].ticks
  <2>1. SUFFICES ASSUME NEW j \in 1 .. Len(tq) + 1
                 PROVE  /\ j < at => j \in 1 .. Len(tq) /\ r[j].task = tq[j].task /\ r[j].ticks = tq[j].ticks
                        /\ j = at => r[j].task = task /\ r[j].ticks = own
                        /\ j > at => /\ j - 1 \in 1 .. Len(tq) /\ r[j].task = tq[j - 1].task
                                     /\ r[j].ticks = IF j - 1 = at THEN tq[at].ticks - own
                                                     ELSE tq[j - 1].ticks
    OBVIOUS
  <2>2. r[j] = IF j < at THEN shrunk[j] ELSE IF j = at THEN new ELSE shrunk[j - 1]
    BY <1>9
  <2>3. CASE j < at
    <3>1. j \in 1 .. Len(tq) /\ ~(j = at) /\ ~(j > at) /\ r[j] = shrunk[j]
      BY <1>1, <1>4, <2>2, <2>3
    <3>. QED  BY <1>7, <2>3, <3>1
  <2>4. CASE j = at
    BY <1>8, <2>2, <2>4, <1>4
  <2>5. CASE j > at
    <3>1. j - 1 \in 1 .. Len(tq) /\ ~(j = at) /\ ~(j < at) /\ r[j] = shrunk[j - 1]
      BY <1>1, <1>4, <2>2, <2>5
    <3>. QED  BY <1>7, <2>5, <3>1
  <2>. QED  BY <1>4, <2>3, <2>4, <2>5
<1>. DEFINE g == [j \in 0 .. Len(tq) + 1 |->
                    IF j < at THEN sum[j] ELSE IF j = at THEN ticks ELSE sum[j - 1]]
<1>11. \A j \in 0 .. Len(r) : Elapse(r)[j] = g[j]
  <2>1. g[0] = 0
    BY <1>1, <1>2, <1>4
  <2>2. ASSUME NEW j \in 1 .. Len(r)
        PROVE  g[j] = g[j - 1] + r[j].ticks
    <3>0. j \in 1 .. Len(tq) + 1 /\ j \in 0 .. Len(tq) + 1 /\ j - 1 \in 0 .. Len(tq) + 1
      BY <1>1, <1>9
    <3>1. CASE j < at
      <4>1. g[j] = sum[j] /\ g[j - 1] = sum[j - 1]
        BY <1>1, <1>4, <3>0, <3>1
      <4>. QED  BY <1>0, <1>10, <3>0, <3>1, <4>1
    <3>2. CASE j = at
      <4>1. g[j] = ticks /\ g[j - 1] = sum[j - 1] /\ r[j].ticks = own
        BY <1>1, <1>4, <1>10, <3>0, <3>2
      <4>2. sum[j - 1] \in Nat
        BY <1>2, <1>5, <3>2
      <4>. QED  BY <3>2, <4>1, <4>2 DEF own
    <3>3. CASE j = at + 1
      <4>1. g[j] = sum[at] /\ g[j - 1] = ticks /\ at \in 1 .. Len(tq)
        BY <1>1, <1>4, <3>0, <3>3
      <4>2. r[j].ticks = sum[at] - ticks
        BY <1>1, <1>4, <1>6, <1>10, <3>0, <3>3
      <4>3. sum[at] \in Nat
        BY <1>2, <4>1
      <4>. QED  BY <4>1, <4>2, <4>3
    <3>4. CASE j > at + 1
      <4>1. g[j] = sum[j - 1] /\ g[j - 1] = sum[(j - 1) - 1] /\ j - 1 \in 1 .. Len(tq)
        BY <1>1, <1>4, <3>0, <3>4
      <4>2. r[j].ticks = tq[j - 1].ticks
        BY <1>1, <1>4, <1>10, <3>0, <3>4
      <4>. QED  BY <1>0, <4>1, <4>2
    <3>. QED  BY <1>1, <1>4, <3>0, <3>1, <3>2, <3>3, <3>4
  <2>. HIDE DEF g
  <2>. QED  BY <1>9, <2>1, <2>2, ElapseUnique
<1>12. TimeMembers(r) = TimeMembers(tq) \cup {task}
  <2>1. \A j \in 1 .. Len(r) : r[j].task \in TimeMembers(tq) \cup {task}
    BY <1>1, <1>4, <1>9, <1>10 DEF TimeMembers
  <2>2. ASSUME NEW i \in 1 .. Len(tq) PROVE tq[i].task \in TimeMembers(r)
    <3>1. i < at => i \in 1 .. Len(r) /\ r[i].task = tq[i].task
      BY <1>1, <1>4, <1>9, <1>10
    <3>2. i >= at => i + 1 \in 1 .. Len(r) /\ r[i + 1].task = tq[i].task
      BY <1>1, <1>4, <1>9, <1>10
    <3>3. i < at \/ i >= at
      BY <1>1, <1>4
    <3>. QED  BY <3>1, <3>2, <3>3 DEF TimeMembers
  <2>3. task \in TimeMembers(r)
    <3>1. at \in 1 .. Len(r) /\ r[at].task = task
      BY <1>1, <1>4, <1>9, <1>10
    <3>. QED  BY <3>1 DEF TimeMembers
  <2>. QED  BY <2>1, <2>2, <2>3 DEF TimeMembers
<1>13. ASSUME task \notin TimeMembers(tq), TimeDistinct(tq)
       PROVE  TimeDistinct(r)
  <2>1. \A i \in 1 .. Len(tq) : tq[i].task # task
    BY <1>13 DEF TimeMembers
  <2>2. \A i, j \in 1 .. Len(tq) : tq[i].task = tq[j].task => i = j
    BY <1>13 DEF TimeDistinct
  <2>3. SUFFICES ASSUME NEW i \in 1 .. Len(r), NEW j \in 1 .. Len(r), r[i].task = r[j].task
                 PROVE  i = j
    BY DEF TimeDistinct
  <2>4. i \in 1 .. Len(tq) + 1 /\ j \in 1 .. Len(tq) + 1
    BY <1>9, <2>3
  <2>0. \A l \in 1 .. Len(tq) + 1 : l # at => r[l].task # task
    <3>1. SUFFICES ASSUME NEW l \in 1 .. Len(tq) + 1, l # at PROVE r[l].task # task
      OBVIOUS
    <3>2. CASE l < at
      BY <1>10, <2>1, <3>2
    <3>3. CASE l > at
      BY <1>10, <2>1, <3>3
    <3>. QED  BY <1>4, <3>1, <3>2, <3>3
  <2>5. CASE i = at \/ j = at
    BY <1>10, <2>0, <2>3, <2>4, <2>5
  <2>6. CASE i # at /\ j # at
    <3>. DEFINE was(l) == IF l < at THEN l ELSE l - 1
    <3>1. was(i) \in 1 .. Len(tq) /\ r[i].task = tq[was(i)].task
      BY <1>4, <1>10, <2>4, <2>6
    <3>2. was(j) \in 1 .. Len(tq) /\ r[j].task = tq[was(j)].task
      BY <1>4, <1>10, <2>4, <2>6
    <3>3. was(i) = was(j)
      BY <2>2, <2>3, <3>1, <3>2
    <3>. QED  BY <1>1, <1>4, <2>4, <2>6, <3>3
  <2>. QED  BY <2>5, <2>6
<1>14. ASSUME NEW f, Exact(tq, f), f[task] = ticks
       PROVE  Exact(r, f)
  <2>1. \A i \in 1 .. Len(tq) : sum[i] = f[tq[i].task]
    BY <1>14 DEF Exact, sum
  <2>2. SUFFICES ASSUME NEW j \in 1 .. Len(r)
                 PROVE  Elapse(r)[j] = f[r[j].task]
    BY DEF Exact
  <2>3. j \in 1 .. Len(tq) + 1 /\ j \in 0 .. Len(tq) + 1 /\ j \in 0 .. Len(r)
    BY <1>1, <1>9
  <2>4. Elapse(r)[j] = IF j < at THEN sum[j] ELSE IF j = at THEN ticks ELSE sum[j - 1]
    BY <1>11, <2>3
  <2>5. CASE j < at
    <3>1. j \in 1 .. Len(tq) /\ r[j].task = tq[j].task
      BY <1>10, <2>3, <2>5
    <3>. QED  BY <2>1, <2>4, <2>5, <3>1
  <2>6. CASE j = at
    BY <1>4, <1>10, <1>14, <2>3, <2>4, <2>6
  <2>7. CASE j > at
    <3>1. j - 1 \in 1 .. Len(tq) /\ r[j].task = tq[j - 1].task /\ ~(j < at) /\ ~(j = at)
      BY <1>4, <1>10, <2>3, <2>7
    <3>. QED  BY <2>1, <2>4, <3>1
  <2>. QED  BY <1>4, <2>3, <2>5, <2>6, <2>7
<1>. QED  BY <1>9, <1>12, <1>13, <1>14 DEF r

\* mt_dequeue_time removes exactly the task and leaves the others their delays.
THEOREM DequeueTimeExact ==
  ASSUME NEW S, NEW tq \in Seq(Entry(S)), NEW task \in TimeMembers(tq), TimeDistinct(tq)
  PROVE  LET r == mt_dequeue_time(tq, task)
         IN  /\ r \in Seq(Entry(S))
             /\ TimeMembers(r) = TimeMembers(tq) \ {task}
             /\ TimeDistinct(r)
             /\ \A f : Exact(tq, f) => Exact(r, f)
<1>. DEFINE sum == Elapse(tq)
            at == CHOOSE i \in 1 .. Len(tq) : tq[i].task = task
            grown == IF at < Len(tq) THEN [tq EXCEPT ![at + 1].ticks = @ + tq[at].ticks] ELSE tq
            r == mt_dequeue_time(tq, task)
<1>1. /\ Len(tq) \in Nat
      /\ \A i \in 1 .. Len(tq) : tq[i] \in Entry(S) /\ tq[i].task \in S /\ tq[i].ticks \in Nat
  BY EntryTicks
<1>2. /\ sum \in [0 .. Len(tq) -> Nat] /\ sum[0] = 0
      /\ \A i \in 1 .. Len(tq) : sum[i] = sum[i - 1] + tq[i].ticks
  BY ElapseType
<1>3. r = DeleteAt(grown, at)
  BY DEF mt_dequeue_time
<1>4. at \in 1 .. Len(tq) /\ tq[at].task = task
  BY DEF TimeMembers
<1>5. \A i \in 1 .. Len(tq) : tq[i].task = task <=> i = at
  BY <1>4 DEF TimeDistinct
<1>. HIDE DEF sum, r, at
<1>6. /\ grown \in Seq(Entry(S)) /\ Len(grown) = Len(tq)
      /\ \A i \in 1 .. Len(tq) :
           /\ grown[i].task = tq[i].task
           /\ grown[i].ticks = IF i = at + 1 THEN tq[i].ticks + tq[at].ticks ELSE tq[i].ticks
  <2>1. CASE at < Len(tq)
    <3>1. at + 1 \in 1 .. Len(tq) /\ tq[at + 1] \in Entry(S)
      BY <1>1, <1>4, <2>1
    <3>. DEFINE e == [tq[at + 1] EXCEPT !.ticks = @ + tq[at].ticks]
    <3>2. tq[at].ticks \in Nat /\ tq[at + 1].ticks \in Nat
      BY <1>1, <1>4, <3>1
    <3>3. e \in Entry(S) /\ e.task = tq[at + 1].task /\ e.ticks = tq[at + 1].ticks + tq[at].ticks
      <4>1. tq[at + 1].ticks + tq[at].ticks \in Nat
        BY <3>2
      <4>. QED  BY <3>1, <4>1, EntryRetimed
    <3>4. grown = [tq EXCEPT ![at + 1] = e]
      BY <2>1
    <3>. HIDE DEF e, grown
    <3>. QED  BY <1>1, <3>1, <3>3, <3>4
  <2>2. CASE ~(at < Len(tq))
    BY <1>1, <1>4, <2>2
  <2>. QED  BY <2>1, <2>2
<1>. HIDE DEF grown
<1>7. /\ r \in Seq(Entry(S)) /\ Len(r) = Len(tq) - 1
      /\ \A j \in 1 .. at - 1 : r[j] = grown[j]
      /\ \A j \in at .. Len(tq) - 1 : r[j] = grown[j + 1]
  <2>1. grown \in Seq(Entry(S)) /\ Len(grown) = Len(tq) /\ at \in 1 .. Len(grown)
    BY <1>4, <1>6
  <2>. QED  BY <1>3, <2>1, DeleteAtProperties
\* every entry of the result is one of the queue, in the same order
<1>. DEFINE was(j) == IF j < at THEN j ELSE j + 1
<1>8. \A j \in 1 .. Len(r) : was(j) \in 1 .. Len(tq) /\ was(j) # at /\ r[j].task = tq[was(j)].task
  <2>1. SUFFICES ASSUME NEW j \in 1 .. Len(r)
                 PROVE  was(j) \in 1 .. Len(tq) /\ was(j) # at /\ r[j].task = tq[was(j)].task
    OBVIOUS
  <2>2. was(j) \in 1 .. Len(tq) /\ was(j) # at /\ r[j] = grown[was(j)]
    BY <1>1, <1>4, <1>7
  <2>. QED  BY <1>6, <2>2
<1>9. \A i \in 1 .. Len(tq) : i # at => \E j \in 1 .. Len(r) : was(j) = i
  <2>1. SUFFICES ASSUME NEW i \in 1 .. Len(tq), i # at
                 PROVE  \E j \in 1 .. Len(r) : was(j) = i
    OBVIOUS
  <2>2. i < at => i \in 1 .. Len(r) /\ was(i) = i
    BY <1>1, <1>4, <1>7
  <2>3. i > at => i - 1 \in 1 .. Len(r) /\ was(i - 1) = i
    BY <1>1, <1>4, <1>7
  <2>. QED  BY <1>4, <2>1, <2>2, <2>3
<1>10. \A j \in 1 .. Len(r) :
         /\ j < at => r[j].ticks = tq[j].ticks
         /\ j = at => r[j].ticks = tq[j + 1].ticks + tq[j].ticks
         /\ j > at => r[j].ticks = tq[j + 1].ticks
  <2>1. SUFFICES ASSUME NEW j \in 1 .. Len(r)
                 PROVE  /\ j < at => r[j].ticks = tq[j].ticks
                        /\ j = at => r[j].ticks = tq[j + 1].ticks + tq[j].ticks
                        /\ j > at => r[j].ticks = tq[j + 1].ticks
    OBVIOUS
  <2>2. was(j) \in 1 .. Len(tq) /\ r[j] = grown[was(j)]
    BY <1>1, <1>4, <1>7
  <2>3. r[j].ticks = IF was(j) = at + 1 THEN tq[was(j)].ticks + tq[at].ticks ELSE tq[was(j)].ticks
    BY <1>6, <2>2
  <2>. QED  BY <1>1, <1>4, <1>7, <2>3
<1>. DEFINE g == [j \in 0 .. Len(r) |-> IF j < at THEN sum[j] ELSE sum[j + 1]]
<1>11. \A j \in 0 .. Len(r) : Elapse(r)[j] = g[j]
  <2>1. g[0] = 0
    BY <1>1, <1>2, <1>4, <1>7
  <2>2. ASSUME NEW j \in 1 .. Len(r)
        PROVE  g[j] = g[j - 1] + r[j].ticks
    <3>0. /\ j \in 1 .. Len(tq) /\ j + 1 \in 1 .. Len(tq) /\ j \in 0 .. Len(r) /\ j - 1 \in 0 .. Len(r)
          /\ (j + 1) - 1 = j /\ (j - 1) + 1 = j
      BY <1>1, <1>7
    <3>1. sum[j] = sum[j - 1] + tq[j].ticks /\ sum[j + 1] = sum[j] + tq[j + 1].ticks
      BY <1>2, <3>0
    <3>2. sum[j - 1] \in Nat /\ sum[j] \in Nat /\ tq[j].ticks \in Nat /\ tq[j + 1].ticks \in Nat
      <4>1. j - 1 \in 0 .. Len(tq) /\ j \in 0 .. Len(tq) /\ sum \in [0 .. Len(tq) -> Nat]
        BY <1>1, <1>2, <3>0
      <4>. QED  BY <1>1, <3>0, <4>1
    <3>6. /\ j < at => r[j].ticks = tq[j].ticks
          /\ j = at => r[j].ticks = tq[j + 1].ticks + tq[j].ticks
          /\ j > at => r[j].ticks = tq[j + 1].ticks
      BY <1>10
    <3>3. CASE j < at
      <4>1. g[j] = sum[j] /\ g[j - 1] = sum[j - 1]
        BY <1>4, <3>0, <3>3
      <4>. QED  BY <3>1, <3>3, <3>6, <4>1
    <3>4. CASE j = at
      <4>1. g[j] = sum[j + 1] /\ g[j - 1] = sum[j - 1]
        BY <1>4, <3>0, <3>4
      <4>2. r[j].ticks = tq[j + 1].ticks + tq[j].ticks
        BY <3>4, <3>6
      <4>3. sum[j + 1] = (sum[j - 1] + tq[j].ticks) + tq[j + 1].ticks
        BY <3>1
      <4>4. (sum[j - 1] + tq[j].ticks) + tq[j + 1].ticks = sum[j - 1] + (tq[j + 1].ticks + tq[j].ticks)
        BY <3>2
      <4>. HIDE DEF g
      <4>. QED  BY <4>1, <4>2, <4>3, <4>4
    <3>5. CASE j > at
      <4>1. g[j] = sum[j + 1] /\ g[j - 1] = sum[j]
        BY <1>4, <3>0, <3>5
      <4>. QED  BY <3>1, <3>5, <3>6, <4>1
    <3>. HIDE DEF g
    <3>7. j < at \/ j = at \/ j > at
      BY <1>4
    <3>. QED  BY <3>3, <3>4, <3>5, <3>7
  <2>. HIDE DEF g
  <2>3. r \in Seq(Entry(S))
    BY <1>7
  <2>. QED  BY <2>1, <2>2, <2>3, ElapseUnique
<1>. HIDE DEF was
<1>12. TimeMembers(r) = TimeMembers(tq) \ {task}
  <2>1. \A j \in 1 .. Len(r) : r[j].task \in TimeMembers(tq) \ {task}
    BY <1>5, <1>8 DEF TimeMembers
  <2>2. \A i \in 1 .. Len(tq) : i # at => tq[i].task \in TimeMembers(r)
    BY <1>8, <1>9 DEF TimeMembers
  <2>. QED  BY <1>5, <2>1, <2>2 DEF TimeMembers
<1>13. TimeDistinct(r)
  <2>1. SUFFICES ASSUME NEW i \in 1 .. Len(r), NEW j \in 1 .. Len(r), r[i].task = r[j].task
                 PROVE  i = j
    BY DEF TimeDistinct
  <2>2. was(i) = was(j)
    BY <1>8, <2>1 DEF TimeDistinct
  <2>. QED  BY <1>1, <1>4, <1>7, <2>2 DEF was
<1>14. ASSUME NEW f, Exact(tq, f)
       PROVE  Exact(r, f)
  <2>1. \A i \in 1 .. Len(tq) : sum[i] = f[tq[i].task]
    BY <1>14 DEF Exact, sum
  <2>2. SUFFICES ASSUME NEW j \in 1 .. Len(r)
                 PROVE  Elapse(r)[j] = f[r[j].task]
    BY DEF Exact
  <2>3. Elapse(r)[j] = sum[was(j)]
    <3>1. j \in 0 .. Len(r)
      BY <1>1, <1>7
    <3>. QED  BY <1>11, <3>1 DEF was
  <2>. QED  BY <1>8, <2>1, <2>3
<1>. QED  BY <1>7, <1>12, <1>13, <1>14 DEF r

\* mt_getfirst_time removes the first entry; when its delay is over the others
\* keep theirs.
THEOREM GetFirstTimeExact ==
  ASSUME NEW S, NEW tq \in Seq(Entry(S)), tq # <<>>, TimeDistinct(tq)
  PROVE  LET r == mt_getfirst_time(tq)
         IN  /\ r \in Seq(Entry(S)) /\ Len(r) = Len(tq) - 1
             /\ \A j \in 1 .. Len(tq) - 1 : r[j] = tq[j + 1]
             /\ TimeMembers(r) = TimeMembers(tq) \ {tq[1].task}
             /\ TimeDistinct(r)
             /\ tq[1].ticks = 0 => \A f : Exact(tq, f) => Exact(r, f)
<1>. DEFINE sum == Elapse(tq)
            r == mt_getfirst_time(tq)
<1>1. /\ Len(tq) \in Nat /\ Len(tq) > 0
      /\ \A i \in 1 .. Len(tq) : tq[i] \in Entry(S) /\ tq[i].task \in S /\ tq[i].ticks \in Nat
  BY EntryTicks
<1>2. /\ sum \in [0 .. Len(tq) -> Nat] /\ sum[0] = 0
      /\ \A i \in 1 .. Len(tq) : sum[i] = sum[i - 1] + tq[i].ticks
  BY ElapseType
<1>3. r \in Seq(Entry(S)) /\ Len(r) = Len(tq) - 1 /\ \A j \in 1 .. Len(tq) - 1 : r[j] = tq[j + 1]
  BY <1>1 DEF mt_getfirst_time
<1>. HIDE DEF sum, r
<1>4. TimeMembers(r) = TimeMembers(tq) \ {tq[1].task}
  <2>1. \A i \in 1 .. Len(tq) : tq[i].task = tq[1].task <=> i = 1
    BY <1>1 DEF TimeDistinct
  <2>2. \A j \in 1 .. Len(r) : r[j].task \in TimeMembers(tq) \ {tq[1].task}
    <3>1. \A j \in 1 .. Len(r) : j + 1 \in 1 .. Len(tq) /\ j + 1 # 1 /\ r[j] = tq[j + 1]
      BY <1>1, <1>3
    <3>. QED  BY <2>1, <3>1 DEF TimeMembers
  <2>3. \A i \in 1 .. Len(tq) : i # 1 => tq[i].task \in TimeMembers(r)
    <3>1. \A i \in 1 .. Len(tq) : i # 1 => i - 1 \in 1 .. Len(r) /\ r[i - 1] = tq[i]
      BY <1>1, <1>3
    <3>. QED  BY <3>1 DEF TimeMembers
  <2>4. TimeMembers(r) \subseteq TimeMembers(tq) \ {tq[1].task}
    BY <2>2 DEF TimeMembers
  <2>5. ASSUME NEW u \in TimeMembers(tq), u # tq[1].task PROVE u \in TimeMembers(r)
    <3>1. PICK i \in 1 .. Len(tq) : tq[i].task = u
      BY DEF TimeMembers
    <3>. QED  BY <2>3, <2>5, <3>1
  <2>. QED  BY <2>4, <2>5
<1>5. TimeDistinct(r)
  <2>1. SUFFICES ASSUME NEW i \in 1 .. Len(r), NEW j \in 1 .. Len(r), r[i].task = r[j].task
                 PROVE  i = j
    BY DEF TimeDistinct
  <2>2. i + 1 \in 1 .. Len(tq) /\ j + 1 \in 1 .. Len(tq) /\ tq[i + 1].task = tq[j + 1].task
    BY <1>1, <1>3, <2>1
  <2>3. i + 1 = j + 1
    BY <2>2 DEF TimeDistinct
  <2>. QED  BY <1>1, <1>3, <2>3
<1>6. ASSUME tq[1].ticks = 0, NEW f, Exact(tq, f)
      PROVE  Exact(r, f)
  <2>. DEFINE g == [j \in 0 .. Len(r) |-> sum[j + 1]]
  <2>1. sum[1] = 0
    BY <1>1, <1>2, <1>6
  <2>2. g[0] = 0
    BY <1>1, <1>3, <2>1
  <2>3. ASSUME NEW j \in 1 .. Len(r) PROVE g[j] = g[j - 1] + r[j].ticks
    <3>1. j + 1 \in 1 .. Len(tq) /\ j \in 0 .. Len(r) /\ j - 1 \in 0 .. Len(r) /\ (j - 1) + 1 = (j + 1) - 1
      BY <1>1, <1>3
    <3>2. g[j] = sum[j + 1] /\ g[j - 1] = sum[(j + 1) - 1] /\ r[j] = tq[j + 1]
      BY <1>1, <1>3, <3>1
    <3>. QED  BY <1>2, <3>1, <3>2
  <2>4. \A j \in 0 .. Len(r) : Elapse(r)[j] = g[j]
    <3>. HIDE DEF g
    <3>. QED  BY <1>3, <2>2, <2>3, ElapseUnique
  <2>5. \A i \in 1 .. Len(tq) : sum[i] = f[tq[i].task]
    BY <1>6 DEF Exact, sum
  <2>6. SUFFICES ASSUME NEW j \in 1 .. Len(r)
                 PROVE  Elapse(r)[j] = f[r[j].task]
    BY DEF Exact
  <2>7. j \in 0 .. Len(r) /\ j + 1 \in 1 .. Len(tq) /\ r[j] = tq[j + 1]
    BY <1>1, <1>3
  <2>. QED  BY <2>4, <2>5, <2>7
<1>. QED  BY <1>3, <1>4, <1>5, <1>6 DEF r

\* Taking a tick off the first entry takes it off the delay of every task.
THEOREM TickExact ==
  ASSUME NEW S, NEW tq \in Seq(Entry(S)), tq # <<>>, tq[1].ticks > 0, TimeDistinct(tq)
  PROVE  LET r == [tq EXCEPT ![1].ticks = @ - 1]
         IN  /\ r \in Seq(Entry(S))
             /\ TimeMembers(r) = TimeMembers(tq)
             /\ TimeDistinct(r)
             /\ \A f, h : /\ Exact(tq, f)
                          /\ \A u \in TimeMembers(tq) : f[u] > 0 => h[u] = f[u] - 1
                          => Exact(r, h)
<1>. DEFINE sum == Elapse(tq)
            e == [tq[1] EXCEPT !.ticks = @ - 1]
            r == [tq EXCEPT ![1].ticks = @ - 1]
<1>1. /\ Len(tq) \in Nat /\ Len(tq) > 0 /\ 1 \in 1 .. Len(tq)
      /\ \A i \in 1 .. Len(tq) : tq[i] \in Entry(S) /\ tq[i].task \in S /\ tq[i].ticks \in Nat
  BY EntryTicks
<1>2. /\ sum \in [0 .. Len(tq) -> Nat] /\ sum[0] = 0
      /\ \A i \in 1 .. Len(tq) : sum[i] = sum[i - 1] + tq[i].ticks
  BY ElapseType
<1>3. e \in Entry(S) /\ e.task = tq[1].task /\ e.ticks = tq[1].ticks - 1
  BY <1>1 DEF Entry
<1>4. r = [tq EXCEPT ![1] = e]
  OBVIOUS
<1>. HIDE DEF sum, e, r
<1>5. /\ r \in Seq(Entry(S)) /\ Len(r) = Len(tq)
      /\ \A i \in 1 .. Len(tq) : /\ r[i].task = tq[i].task
                                 /\ r[i].ticks = IF i = 1 THEN tq[i].ticks - 1 ELSE tq[i].ticks
  BY <1>1, <1>3, <1>4
<1>6. TimeMembers(r) = TimeMembers(tq) /\ TimeDistinct(r)
  BY <1>5 DEF TimeMembers, TimeDistinct
<1>. DEFINE g == [j \in 0 .. Len(r) |-> IF j = 0 THEN 0 ELSE sum[j] - 1]
            grown == {n \in 0 .. Len(tq) : n = 0 \/ sum[n] > 0}
<1>7. \A j \in 0 .. Len(r) : Elapse(r)[j] = g[j]
  <2>1. g[0] = 0
    BY <1>1, <1>5
  <2>2. ASSUME NEW j \in 1 .. Len(r) PROVE g[j] = g[j - 1] + r[j].ticks
    <3>1. j \in 1 .. Len(tq) /\ j \in 0 .. Len(r) /\ j - 1 \in 0 .. Len(r) /\ j - 1 \in 0 .. Len(tq)
      BY <1>1, <1>5
    <3>2. sum[j] = sum[j - 1] + tq[j].ticks /\ sum[j - 1] \in Nat /\ tq[j].ticks \in Nat
      BY <1>1, <1>2, <3>1
    <3>3. g[j] = sum[j] - 1 /\ g[j - 1] = IF j = 1 THEN 0 ELSE sum[j - 1] - 1
      BY <3>1
    <3>4. r[j].ticks = IF j = 1 THEN tq[j].ticks - 1 ELSE tq[j].ticks
      BY <1>5, <3>1
    <3>5. CASE j = 1
      <4>1. sum[j - 1] = 0
        BY <1>2, <3>5
      <4>. HIDE DEF g
      <4>. QED  BY <3>2, <3>3, <3>4, <3>5, <4>1
    <3>6. CASE j # 1
      <4>. HIDE DEF g
      <4>. QED  BY <3>2, <3>3, <3>4, <3>6
    <3>. QED  BY <3>5, <3>6
  <2>. HIDE DEF g
  <2>. QED  BY <1>5, <2>1, <2>2, ElapseUnique
<1>8. \A n \in 1 .. Len(tq) : sum[n] > 0
  <2>1. 0 \in grown
    BY <1>1
  <2>2. ASSUME NEW n \in 0 .. Len(tq) - 1, n \in grown PROVE n + 1 \in grown
    <3>1. n + 1 \in 1 .. Len(tq) /\ n + 1 \in 0 .. Len(tq) /\ n \in 0 .. Len(tq) /\ (n + 1) - 1 = n
      BY <1>1
    <3>2. sum[n + 1] = sum[n] + tq[n + 1].ticks /\ sum[n] \in Nat /\ tq[n + 1].ticks \in Nat
      BY <1>1, <1>2, <3>1
    <3>3. sum[n + 1] > 0
      BY <2>2, <3>2
    <3>. QED  BY <3>1, <3>3
  <2>3. \A n \in 0 .. Len(tq) : n \in grown
    <3>. HIDE DEF grown
    <3>. QED  BY <1>1, <2>1, <2>2, UpTo
  <2>. QED  BY <1>1, <2>3
<1>9. ASSUME NEW f, NEW h, Exact(tq, f),
             \A u \in TimeMembers(tq) : f[u] > 0 => h[u] = f[u] - 1
      PROVE  Exact(r, h)
  <2>1. SUFFICES ASSUME NEW j \in 1 .. Len(r)
                 PROVE  Elapse(r)[j] = h[r[j].task]
    BY DEF Exact
  <2>2. j \in 1 .. Len(tq) /\ j \in 0 .. Len(r) /\ j # 0 /\ r[j].task = tq[j].task
    BY <1>1, <1>5
  <2>3. sum[j] = f[tq[j].task] /\ tq[j].task \in TimeMembers(tq)
    BY <1>9, <2>2 DEF Exact, sum, TimeMembers
  <2>4. Elapse(r)[j] = sum[j] - 1
    BY <1>7, <2>2
  <2>. QED  BY <1>8, <1>9, <2>2, <2>3, <2>4
<1>. QED  BY <1>5, <1>6, <1>9 DEF r

\* Exactness is about the tasks in the queue only, and makes delays natural.
LEMMA ExactAgrees ==
  ASSUME NEW S, NEW tq \in Seq(Entry(S)), NEW f, Exact(tq, f)
  PROVE  /\ \A u \in TimeMembers(tq) : f[u] \in Nat
         /\ \A h : (\A u \in TimeMembers(tq) : h[u] = f[u]) => Exact(tq, h)
<1>1. \A i \in 1 .. Len(tq) : Elapse(tq)[i] \in Nat /\ Elapse(tq)[i] = f[tq[i].task]
  <2>1. \A i \in 1 .. Len(tq) : i \in 0 .. Len(tq)
    BY EntryTicks
  <2>. QED  BY <2>1, ElapseType DEF Exact
<1>. QED  BY <1>1 DEF Exact, TimeMembers

=============================================================================
