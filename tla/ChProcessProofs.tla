-------------------------- MODULE ChProcessProofs ---------------------------
(***************************************************************************)
(* The processes of Chinux: one process is RUNNING at a time, a shell that *)
(* waits for its command is never forgotten, and a kill is complete.  The  *)
(* list of processes is a chain of links, which the first part relates to  *)
(* the sequence that the model reads off it and to what linking and        *)
(* unlinking do to it.                                                     *)
(***************************************************************************)
EXTENDS ChProcess, MtQueuesProofs
-----------------------------------------------------------------------------
(***************************************************************************)
(* The process list.                                                       *)
(***************************************************************************)

Node == Pid \cup {Nil}

\* The processes, the idle one included, and what is kept about each.
Known == Pid \cup {IDLE}

PROCESS ==
  [state : {"RUNNING", "READY", "BLOCKED"}, priority : Nat, foreground : BOOLEAN,
   parent : Known, waitingPid : Int, sleep : Nat, acum : Nat]

Table == [Known -> PROCESS]

\* A call of kill_in_kernel, and the points at which a process can be.
Call == [pid : Pid \ Shell, aux : Node, over : BOOLEAN, if : BOOLEAN]

PointsOf(p) ==
  IF p = IDLE THEN {"idle"}
  ELSE IF p \in Shell THEN {"loop", "read", "after", "sti"}
  ELSE {"start", "run", "sleep", "dead"}

Context(p) == [pc : PointsOf(p), if : BOOLEAN]

\* The nodes of l, all different, are linked one to the next from n on.
Chain(n, nx, l) ==
  /\ l \in Seq(Pid)
  /\ \A i, j \in 1 .. Len(l) : l[i] = l[j] => i = j
  /\ n = IF l = <<>> THEN Nil ELSE l[1]
  /\ \A i \in 1 .. Len(l) : nx[l[i]] = IF i < Len(l) THEN l[i + 1] ELSE Nil

\* One turn of the walk over the list.
Walk(n, nx, i, s) ==
  LET m == IF i = 1 THEN n ELSE IF Len(s) < i - 1 THEN Nil ELSE nx[s[i - 1]]
  IN  IF m = Nil THEN s ELSE Append(s, m)

\* Pids are numbers other than IDLE and Nil.
LEMMA Pids ==
  /\ MaxPid \in Nat /\ IDLE = 0 /\ Nil = 0 /\ IDLE \notin Pid /\ Nil \notin Pid
  /\ \A p \in Pid : p \in Nat /\ p > 0 /\ p <= MaxPid
  /\ Shell \subseteq Pid
  /\ TIMESLOT \in Nat \ {0} /\ SLEEP \in Nat \ {0}
BY ProcessAssumption DEF Pid, IDLE, Nil

\* The walk that defines ListFrom exists.
LEMMA ListWalks ==
  ASSUME NEW n, NEW nx
  PROVE  \E w : /\ w[0] = <<>>
                /\ \A i \in 1 .. MaxPid : w[i] = Walk(n, nx, i, w[i - 1])
                /\ ListFrom(n, nx) = w[MaxPid]
<1>. DEFINE Runs(w, N) == w = [i \in 0 .. N |-> IF i = 0 THEN <<>> ELSE Walk(n, nx, i, w[i - 1])]
            solved == {N \in Nat : \E w : Runs(w, N)}
<1>1. 0 \in solved
  <2>1. Runs([i \in 0 .. 0 |-> <<>>], 0)
    OBVIOUS
  <2>. QED  BY <2>1
<1>2. ASSUME NEW N \in Nat, N \in solved
      PROVE  N + 1 \in solved
  <2>1. PICK w : Runs(w, N)
    BY <1>2
  <2>. DEFINE last == Walk(n, nx, N + 1, w[N])
              g == [i \in 0 .. N + 1 |-> IF i <= N THEN w[i] ELSE last]
  <2>2. ASSUME NEW i \in 0 .. N + 1
        PROVE  g[i] = IF i = 0 THEN <<>> ELSE Walk(n, nx, i, g[i - 1])
    <3>1. CASE i = 0
      <4>1. w[0] = <<>>
        BY <2>1
      <4>. QED  BY <3>1, <4>1
    <3>2. CASE i \in 1 .. N
      <4>1. i \in 0 .. N /\ i - 1 \in 0 .. N /\ i - 1 \in 0 .. N + 1 /\ i <= N /\ i - 1 <= N /\ i # 0
        BY <3>2
      <4>2. w[i] = Walk(n, nx, i, w[i - 1])
        BY <2>1, <4>1
      <4>3. g[i] = w[i] /\ g[i - 1] = w[i - 1]
        BY <4>1
      <4>. QED  BY <4>1, <4>2, <4>3
    <3>3. CASE i = N + 1
      <4>1. i # 0 /\ ~(i <= N) /\ i - 1 = N /\ N \in 0 .. N + 1 /\ N <= N
        BY <3>3
      <4>2. g[i] = last /\ g[N] = w[N]
        BY <4>1
      <4>. QED  BY <3>3, <4>1, <4>2
    <3>. QED  BY <3>1, <3>2, <3>3
  <2>3. g = [i \in 0 .. N + 1 |-> IF i = 0 THEN <<>> ELSE Walk(n, nx, i, g[i - 1])]
    BY <2>2
  <2>4. Runs(g, N + 1)
    BY <2>3
  <2>5. \E h : Runs(h, N + 1)
    BY <2>4
  <2>. HIDE DEF Runs
  <2>. QED  BY <2>5
<1>3. MaxPid \in solved
  <2>1. \A i \in 0 .. MaxPid - 1 : i \in solved => i + 1 \in solved
    BY <1>2, Pids
  <2>2. MaxPid \in Nat /\ MaxPid \in 0 .. MaxPid
    BY Pids
  <2>. HIDE DEF solved
  <2>. QED  BY <1>1, <2>1, <2>2, UpTo
<1>. DEFINE walk == CHOOSE w : Runs(w, MaxPid)
<1>4. ListFrom(n, nx) = walk[MaxPid]
  BY DEF ListFrom, Walk
<1>5. Runs(walk, MaxPid)
  BY <1>3
<1>. HIDE DEF walk
<1>6. walk[0] = <<>> /\ \A i \in 1 .. MaxPid : walk[i] = Walk(n, nx, i, walk[i - 1])
  <2>1. MaxPid \in Nat
    BY Pids
  <2>2. \A i \in 1 .. MaxPid : i \in 0 .. MaxPid /\ i # 0
    BY <2>1
  <2>. QED  BY <1>5, <2>1, <2>2
<1>. QED  BY <1>4, <1>6

\* A walk passes nodes only.
LEMMA ListSeq ==
  ASSUME NEW n \in Node, NEW nx \in [Pid -> Node]
  PROVE  ListFrom(n, nx) \in Seq(Pid)
<1>1. PICK w : /\ w[0] = <<>>
               /\ \A i \in 1 .. MaxPid : w[i] = Walk(n, nx, i, w[i - 1])
               /\ ListFrom(n, nx) = w[MaxPid]
  BY ListWalks
<1>. DEFINE ok == {i \in 0 .. MaxPid : w[i] \in Seq(Pid)}
<1>2. MaxPid \in Nat /\ 0 \in ok
  <2>1. <<>> \in Seq(Pid) /\ MaxPid \in Nat
    BY Pids
  <2>2. w[0] \in Seq(Pid)
    BY <1>1, <2>1
  <2>. QED  BY <2>1, <2>2
<1>3. ASSUME NEW i \in 0 .. MaxPid - 1, i \in ok PROVE i + 1 \in ok
  <2>1. w[i] \in Seq(Pid) /\ i + 1 \in 1 .. MaxPid /\ (i + 1) - 1 = i
    BY <1>2, <1>3
  <2>2. w[i + 1] = Walk(n, nx, i + 1, w[i])
    BY <1>1, <2>1
  <2>. DEFINE m == IF i + 1 = 1 THEN n ELSE IF Len(w[i]) < i THEN Nil ELSE nx[w[i][i]]
  <2>3. m \in Node
    BY <2>1 DEF Node
  <2>4. w[i + 1] = IF m = Nil THEN w[i] ELSE Append(w[i], m)
    BY <2>1, <2>2 DEF Walk
  <2>. HIDE DEF m
  <2>5. m = Nil \/ m \in Pid
    BY <2>3 DEF Node
  <2>6. w[i + 1] \in Seq(Pid)
    BY <2>1, <2>4, <2>5
  <2>7. i + 1 \in 0 .. MaxPid
    BY <1>2
  <2>. QED  BY <2>6, <2>7
<1>4. MaxPid \in 0 .. MaxPid /\ \A i \in 0 .. MaxPid : i \in ok
  <2>. HIDE DEF ok
  <2>. QED  BY <1>2, <1>3, UpTo
<1>. QED  BY <1>1, <1>4

\* Two sequences of one length with the same elements are the same.
LEMMA SeqEqual ==
  ASSUME NEW S, NEW s \in Seq(S), NEW t \in Seq(S), Len(s) = Len(t),
         \A k \in 1 .. Len(t) : s[k] = t[k]
  PROVE  s = t
<1>1. s = [k \in 1 .. Len(s) |-> s[k]]
  OBVIOUS
<1>2. t = [k \in 1 .. Len(t) |-> t[k]]
  OBVIOUS
<1>3. DOMAIN s = 1 .. Len(s) /\ DOMAIN t = 1 .. Len(t)
  OBVIOUS
<1>. QED  BY <1>1, <1>2, <1>3

\* What Append returns, element by element.
LEMMA AppendIs ==
  ASSUME NEW S, NEW s \in Seq(S), NEW e \in S, NEW t \in Seq(S), Len(t) = Len(s) + 1,
         \A k \in 1 .. Len(s) : t[k] = s[k], t[Len(s) + 1] = e
  PROVE  Append(s, e) = t
<1>1. Append(s, e) \in Seq(S) /\ Len(Append(s, e)) = Len(t)
  OBVIOUS
<1>2. \A k \in 1 .. Len(t) : Append(s, e)[k] = t[k]
  OBVIOUS
<1>. QED  BY <1>1, <1>2, SeqEqual

\* A walk along a chain passes its nodes in order.
LEMMA ListIs ==
  ASSUME NEW n, NEW nx, NEW l, Chain(n, nx, l), Len(l) <= MaxPid
  PROVE  ListFrom(n, nx) = l
<1>1. PICK w : /\ w[0] = <<>>
               /\ \A i \in 1 .. MaxPid : w[i] = Walk(n, nx, i, w[i - 1])
               /\ ListFrom(n, nx) = w[MaxPid]
  BY ListWalks
<1>2. MaxPid \in Nat /\ l \in Seq(Pid) /\ Len(l) \in Nat
  BY Pids DEF Chain
<1>. DEFINE Seen(i) == IF i <= Len(l) THEN i ELSE Len(l)
            Part(i) == [k \in 1 .. Seen(i) |-> l[k]]
            ok == {i \in 0 .. MaxPid : w[i] = Part(i)}
<1>3. 0 \in ok
  BY <1>1, <1>2
<1>4. ASSUME NEW i \in 0 .. MaxPid - 1, i \in ok PROVE i + 1 \in ok
  <2>1. w[i] = Part(i) /\ i + 1 \in 1 .. MaxPid /\ (i + 1) - 1 = i /\ i \in Nat
    BY <1>2, <1>4
  <2>2. Part(i) \in Seq(Pid) /\ Len(Part(i)) = Seen(i)
    BY <1>2, <2>1
  <2>. DEFINE m == IF i + 1 = 1 THEN n ELSE IF Len(w[i]) < i THEN Nil ELSE nx[w[i][i]]
  <2>3. w[i + 1] = IF m = Nil THEN w[i] ELSE Append(w[i], m)
    BY <1>1, <2>1 DEF Walk
  <2>4. CASE i < Len(l)
    <3>1. l[i + 1] \in Pid /\ l # <<>>
      BY <1>2, <2>1, <2>4
    <3>2. m = l[i + 1]
      <4>1. CASE i = 0
        BY <3>1, <4>1 DEF Chain
      <4>2. CASE i # 0
        <5>1. i \in 1 .. Len(l) /\ Len(w[i]) = i /\ w[i][i] = l[i]
          BY <1>2, <2>1, <2>2, <2>4, <4>2
        <5>. QED  BY <2>1, <2>4, <4>2, <5>1 DEF Chain
      <4>. QED  BY <4>1, <4>2
    <3>3. w[i + 1] = Append(Part(i), l[i + 1])
      BY <2>1, <2>3, <3>1, <3>2, Pids
    <3>4. Seen(i) = i /\ Seen(i + 1) = i + 1
      BY <1>2, <2>1, <2>4
    <3>5. Append(Part(i), l[i + 1]) = Part(i + 1)
      <4>1. Part(i) = [k \in 1 .. i |-> l[k]] /\ Part(i + 1) = [k \in 1 .. i + 1 |-> l[k]]
        BY <3>4
      <4>2. \A k \in 1 .. i + 1 : l[k] \in Pid
        BY <1>2, <2>1, <2>4
      <4>3. Part(i) \in Seq(Pid) /\ Part(i + 1) \in Seq(Pid)
        <5>1. i + 1 \in Nat
          BY <2>1
        <5>2. [k \in 1 .. i + 1 |-> l[k]] \in Seq(Pid)
          BY <4>2, <5>1
        <5>. HIDE DEF Part
        <5>. QED  BY <2>2, <4>1, <5>2
      <4>4. Len(Part(i)) = i /\ Len(Part(i + 1)) = i + 1 /\ Part(i + 1)[i + 1] = l[i + 1]
        BY <2>1, <4>1
      <4>5. \A k \in 1 .. i : Part(i + 1)[k] = Part(i)[k]
        BY <2>1, <4>1
      <4>6. /\ Len(Part(i + 1)) = Len(Part(i)) + 1
            /\ \A k \in 1 .. Len(Part(i)) : Part(i + 1)[k] = Part(i)[k]
            /\ Part(i + 1)[Len(Part(i)) + 1] = l[i + 1]
        BY <4>4, <4>5
      <4>. HIDE DEF Part
      <4>. QED  BY <3>1, <4>3, <4>6, AppendIs
    <3>6. w[i + 1] = Part(i + 1) /\ i + 1 \in 0 .. MaxPid
      <4>. HIDE DEF Part
      <4>. QED  BY <2>1, <3>3, <3>5
    <3>. HIDE DEF Part
    <3>. QED  BY <3>6
  <2>5. CASE i >= Len(l)
    <3>1. m = Nil
      <4>1. CASE i = 0
        <5>1. l = <<>>
          BY <1>2, <2>5, <4>1
        <5>. QED  BY <4>1, <5>1 DEF Chain
      <4>2. CASE i = Len(l) /\ i # 0
        <5>1. i \in 1 .. Len(l) /\ Len(w[i]) = i /\ w[i][i] = l[i]
          BY <1>2, <2>1, <2>2, <4>2
        <5>. QED  BY <2>1, <4>2, <5>1 DEF Chain
      <4>3. CASE i > Len(l)
        BY <1>2, <2>1, <2>2, <4>3
      <4>. QED  BY <1>2, <2>1, <2>5, <4>1, <4>2, <4>3
    <3>2. Part(i + 1) = Part(i)
      BY <1>2, <2>1, <2>5
    <3>. QED  BY <1>2, <1>4, <2>1, <2>3, <3>1, <3>2
  <2>. QED  BY <1>2, <2>1, <2>4, <2>5
<1>5. MaxPid \in 0 .. MaxPid /\ \A i \in 0 .. MaxPid : i \in ok
  <2>. HIDE DEF ok
  <2>. QED  BY <1>2, <1>3, <1>4, UpTo
<1>6. Part(MaxPid) = l
  BY <1>2
<1>. QED  BY <1>1, <1>5, <1>6

\* Linking p behind the last node.
LEMMA ChainLink ==
  ASSUME NEW n, NEW nx, NEW l, Chain(n, nx, l), NEW p \in Pid, p \notin Nodes(l)
  PROVE  /\ Chain(IF n = Nil THEN p ELSE n,
                  [k \in Pid |-> IF k = p THEN Nil
                                 ELSE IF l # <<>> /\ k = l[Len(l)] THEN p ELSE nx[k]],
                  Append(l, p))
         /\ Nodes(Append(l, p)) = Nodes(l) \cup {p}
         /\ Len(Append(l, p)) = Len(l) + 1
<1>. DEFINE n2 == IF n = Nil THEN p ELSE n
            nx2 == [k \in Pid |-> IF k = p THEN Nil
                                 ELSE IF l # <<>> /\ k = l[Len(l)] THEN p ELSE nx[k]]
            l2 == Append(l, p)
<1>1. l \in Seq(Pid) /\ Len(l) \in Nat /\ \A i \in 1 .. Len(l) : l[i] \in Pid
  BY DEF Chain
<1>2. /\ l2 \in Seq(Pid) /\ Len(l2) = Len(l) + 1 /\ l2[Len(l) + 1] = p
      /\ \A i \in 1 .. Len(l) : l2[i] = l[i]
  BY <1>1
<1>3. \A i \in 1 .. Len(l) : l[i] # p
  BY DEF Nodes
<1>4. Nodes(l2) = Nodes(l) \cup {p}
  <2>1. \A i \in 1 .. Len(l2) : i = Len(l) + 1 \/ i \in 1 .. Len(l)
    BY <1>1, <1>2
  <2>2. Len(l) + 1 \in 1 .. Len(l2) /\ \A i \in 1 .. Len(l) : i \in 1 .. Len(l2)
    BY <1>1, <1>2
  <2>. HIDE DEF l2
  <2>. QED  BY <1>2, <2>1, <2>2 DEF Nodes
<1>5. \A i, j \in 1 .. Len(l2) : l2[i] = l2[j] => i = j
  <2>1. TAKE i \in 1 .. Len(l2), j \in 1 .. Len(l2)
  <2>2. i \in 1 .. Len(l) \/ i = Len(l) + 1
    BY <1>1, <1>2
  <2>3. j \in 1 .. Len(l) \/ j = Len(l) + 1
    BY <1>1, <1>2
  <2>. HIDE DEF l2
  <2>. QED  BY <1>2, <1>3, <2>2, <2>3 DEF Chain
<1>6. n2 = IF l2 = <<>> THEN Nil ELSE l2[1]
  <2>1. l2 # <<>>
    BY <1>1
  <2>2. CASE l = <<>>
    <3>1. n = Nil /\ l2[1] = p
      BY <2>2, <1>1 DEF Chain
    <3>. QED  BY <2>1, <3>1
  <2>3. CASE l # <<>>
    <3>1. 1 \in 1 .. Len(l)
      BY <2>3, <1>1
    <3>2. n = l[1] /\ n # Nil /\ l2[1] = l[1]
      BY <2>3, <3>1, <1>1, <1>2, Pids DEF Chain
    <3>. QED  BY <2>1, <3>2
  <2>. QED  BY <2>2, <2>3
<1>7. ASSUME NEW i \in 1 .. Len(l2)
      PROVE  nx2[l2[i]] = IF i < Len(l2) THEN l2[i + 1] ELSE Nil
  <2>1. CASE i = Len(l) + 1
    <3>1. l2[i] = p /\ ~(i < Len(l2))
      BY <2>1, <1>1, <1>2
    <3>2. nx2[p] = Nil
      OBVIOUS
    <3>. QED  BY <3>1, <3>2
  <2>2. CASE i = Len(l)
    <3>1. i \in 1 .. Len(l) /\ l2[i] = l[i] /\ i < Len(l2) /\ l2[i + 1] = p /\ l # <<>>
      BY <2>2, <1>1, <1>2
    <3>2. nx2[l[i]] = p
      BY <2>2, <3>1, <1>1, <1>3
    <3>. HIDE DEF nx2, l2
    <3>. QED  BY <3>1, <3>2
  <2>3. CASE i < Len(l)
    <3>1. i \in 1 .. Len(l) /\ i + 1 \in 1 .. Len(l) /\ l2[i] = l[i] /\ i < Len(l2) /\ l2[i + 1] = l[i + 1]
      BY <2>3, <1>1, <1>2
    <3>2. Len(l) \in 1 .. Len(l) /\ i # Len(l)
      BY <2>3, <1>1
    <3>3. l[i] # l[Len(l)]
      BY <3>1, <3>2 DEF Chain
    <3>4. nx2[l[i]] = nx[l[i]]
      BY <3>1, <3>3, <1>1, <1>3
    <3>5. nx[l[i]] = l[i + 1]
      BY <3>1, <2>3 DEF Chain
    <3>. HIDE DEF nx2, l2
    <3>. QED  BY <3>1, <3>4, <3>5
  <2>4. i = Len(l) + 1 \/ i = Len(l) \/ i < Len(l)
    BY <1>1, <1>2
  <2>. QED  BY <2>1, <2>2, <2>3, <2>4
<1>. HIDE DEF n2, nx2, l2
<1>8. Chain(n2, nx2, l2)
  BY <1>2, <1>5, <1>6, <1>7 DEF Chain
<1>. QED  BY <1>2, <1>4, <1>8 DEF n2, nx2, l2

\* Unlinking p, wherever it is in the list.
LEMMA ChainUnlink ==
  ASSUME NEW n, NEW nx, NEW l, Chain(n, nx, l), NEW p \in Pid
  PROVE  LET n2 == IF n = p THEN nx[p] ELSE n
             nx2 == [k \in Pid |-> IF n # p /\ k \in Nodes(l) /\ nx[k] = p
                                   THEN nx[p] ELSE nx[k]]
         IN  \E l2 : /\ Chain(n2, nx2, l2)
                     /\ Nodes(l2) = Nodes(l) \ {p}
                     /\ Len(l2) <= Len(l)
<1>. DEFINE n2 == IF n = p THEN nx[p] ELSE n
            nx2 == [k \in Pid |-> IF n # p /\ k \in Nodes(l) /\ nx[k] = p
                                 THEN nx[p] ELSE nx[k]]
            Goal == \E l2 : /\ Chain(n2, nx2, l2)
                            /\ Nodes(l2) = Nodes(l) \ {p}
                            /\ Len(l2) <= Len(l)
<1>1. l \in Seq(Pid) /\ Len(l) \in Nat /\ \A i \in 1 .. Len(l) : l[i] \in Pid
  BY DEF Chain
<1>2. ASSUME p \notin Nodes(l) PROVE Goal
  <2>1. \A i \in 1 .. Len(l) : l[i] # p
    BY <1>2 DEF Nodes
  <2>2. n # p
    <3>1. CASE l = <<>>
      BY <3>1, Pids DEF Chain
    <3>2. CASE l # <<>>
      <4>1. 1 \in 1 .. Len(l) /\ n = l[1]
        BY <3>2, <1>1 DEF Chain
      <4>. QED  BY <4>1, <2>1
    <3>. QED  BY <3>1, <3>2
  <2>3. \A i \in 1 .. Len(l) : nx2[l[i]] = nx[l[i]]
    <3>1. TAKE i \in 1 .. Len(l)
    <3>2. nx[l[i]] # p
      <4>1. CASE i < Len(l)
        <5>1. i + 1 \in 1 .. Len(l) /\ nx[l[i]] = l[i + 1]
          BY <4>1, <1>1 DEF Chain
        <5>. QED  BY <5>1, <2>1
      <4>2. CASE ~(i < Len(l))
        BY <4>2, Pids DEF Chain
      <4>. QED  BY <4>1, <4>2
    <3>. QED  BY <3>2, <1>1
  <2>4. n2 = n
    BY <2>2
  <2>. HIDE DEF nx2, n2
  <2>5. Chain(n2, nx2, l)
    BY <2>3, <2>4 DEF Chain
  <2>6. Nodes(l) = Nodes(l) \ {p} /\ Len(l) <= Len(l)
    BY <1>1, <1>2
  <2>. QED  BY <2>5, <2>6
<1>3. ASSUME p \in Nodes(l) PROVE Goal
  <2>1. PICK k \in 1 .. Len(l) : l[k] = p
    BY <1>3 DEF Nodes
  <2>. DEFINE l2 == DeleteAt(l, k)
  <2>2. /\ l2 \in Seq(Pid) /\ Len(l2) = Len(l) - 1
        /\ \A j \in 1 .. k - 1 : l2[j] = l[j]
        /\ \A j \in k .. Len(l) - 1 : l2[j] = l[j + 1]
    BY <1>1, DeleteAtProperties
  <2>. HIDE DEF l2
  <2>3. \A i \in 1 .. Len(l) : l[i] = p => i = k
    BY <2>1 DEF Chain
  <2>. DEFINE Src(j) == IF j < k THEN j ELSE j + 1
  <2>4. \A j \in 1 .. Len(l2) : Src(j) \in 1 .. Len(l) /\ Src(j) # k /\ l2[j] = l[Src(j)]
    <3>1. TAKE j \in 1 .. Len(l2)
    <3>2. CASE j < k
      BY <3>2, <1>1, <2>2
    <3>3. CASE ~(j < k)
      BY <3>3, <1>1, <2>2
    <3>. QED  BY <3>2, <3>3
  <2>5. \A i \in 1 .. Len(l) : i # k => \E j \in 1 .. Len(l2) : Src(j) = i
    <3>1. TAKE i \in 1 .. Len(l)
    <3>2. HAVE i # k
    <3>3. CASE i < k
      <4>1. i \in 1 .. Len(l2) /\ Src(i) = i
        BY <3>3, <1>1, <2>2
      <4>. QED  BY <4>1
    <3>4. CASE i > k
      <4>1. i - 1 \in 1 .. Len(l2) /\ Src(i - 1) = i
        BY <3>4, <1>1, <2>2
      <4>. QED  BY <4>1
    <3>. QED  BY <3>2, <3>3, <3>4
  <2>6. Nodes(l2) = Nodes(l) \ {p}
    <3>. HIDE DEF Src
    <3>1. ASSUME NEW q \in Nodes(l2) PROVE q \in Nodes(l) \ {p}
      <4>1. PICK j \in 1 .. Len(l2) : l2[j] = q
        BY DEF Nodes
      <4>2. Src(j) \in 1 .. Len(l) /\ Src(j) # k /\ q = l[Src(j)]
        BY <4>1, <2>4
      <4>3. q # p
        BY <4>2, <2>3
      <4>. QED  BY <4>2, <4>3 DEF Nodes
    <3>2. ASSUME NEW q \in Nodes(l) \ {p} PROVE q \in Nodes(l2)
      <4>1. PICK i \in 1 .. Len(l) : l[i] = q
        BY DEF Nodes
      <4>2. i # k
        BY <4>1, <2>1
      <4>3. PICK j \in 1 .. Len(l2) : Src(j) = i
        BY <4>2, <2>5
      <4>. QED  BY <4>1, <4>3, <2>4 DEF Nodes
    <3>. QED  BY <3>1, <3>2
  <2>7. \A i, j \in 1 .. Len(l2) : l2[i] = l2[j] => i = j
    <3>1. TAKE i \in 1 .. Len(l2), j \in 1 .. Len(l2)
    <3>2. HAVE l2[i] = l2[j]
    <3>3. l[Src(i)] = l[Src(j)] /\ Src(i) \in 1 .. Len(l) /\ Src(j) \in 1 .. Len(l)
      BY <3>2, <2>4
    <3>4. Src(i) = Src(j)
      <4>. HIDE DEF Src
      <4>. QED  BY <3>3 DEF Chain
    <3>. QED  BY <3>4, <1>1, <2>2
  <2>8. n2 = IF l2 = <<>> THEN Nil ELSE l2[1]
    <3>1. l # <<>> /\ n = l[1] /\ 1 \in 1 .. Len(l)
      BY <1>1 DEF Chain
    <3>2. nx[p] = IF k < Len(l) THEN l[k + 1] ELSE Nil
      BY <2>1 DEF Chain
    <3>3. CASE k = 1 /\ Len(l) = 1
      <4>1. l2 = <<>> /\ n = p /\ nx[p] = Nil
        BY <3>1, <3>2, <3>3, <2>1, <2>2
      <4>. QED  BY <4>1
    <3>4. CASE k = 1 /\ Len(l) # 1
      <4>1. l2 # <<>> /\ l2[1] = l[2] /\ n = p /\ nx[p] = l[2]
        BY <3>1, <3>2, <3>4, <1>1, <2>1, <2>2
      <4>. QED  BY <4>1
    <3>5. CASE k # 1
      <4>1. l2 # <<>> /\ l2[1] = l[1] /\ n # p
        BY <3>1, <3>5, <1>1, <2>1, <2>2, <2>3
      <4>. QED  BY <3>1, <4>1
    <3>. QED  BY <3>3, <3>4, <3>5
  <2>9. ASSUME NEW j \in 1 .. Len(l2)
        PROVE  nx2[l2[j]] = IF j < Len(l2) THEN l2[j + 1] ELSE Nil
    <3>1. CASE j < k - 1 \/ j >= k
      <4>1. Src(j) \in 1 .. Len(l) /\ Src(j) # k /\ l2[j] = l[Src(j)] /\ l[Src(j)] \in Pid
        BY <1>1, <2>4
      <4>2. nx[l2[j]] = IF Src(j) < Len(l) THEN l[Src(j) + 1] ELSE Nil
        <5>. HIDE DEF Src
        <5>. QED  BY <4>1 DEF Chain
      <4>3. /\ (j < Len(l2)) <=> (Src(j) < Len(l))
            /\ j < Len(l2) => Src(j + 1) = Src(j) + 1 /\ j + 1 \in 1 .. Len(l2)
        BY <3>1, <1>1, <2>2
      <4>4. nx[l2[j]] = IF j < Len(l2) THEN l2[j + 1] ELSE Nil
        <5>1. CASE j < Len(l2)
          <6>1. l2[j + 1] = l[Src(j + 1)]
            BY <5>1, <4>3, <2>4
          <6>. HIDE DEF Src
          <6>. QED  BY <5>1, <4>2, <4>3, <6>1
        <5>2. CASE ~(j < Len(l2))
          <6>. HIDE DEF Src
          <6>. QED  BY <5>2, <4>2, <4>3
        <5>. QED  BY <5>1, <5>2
      <4>5. nx[l2[j]] # p
        <5>1. CASE j < Len(l2)
          <6>1. j + 1 \in 1 .. Len(l2)
            BY <5>1, <4>3
          <6>2. l2[j + 1] \in Nodes(l2)
            BY <6>1 DEF Nodes
          <6>. QED  BY <5>1, <4>4, <6>2, <2>6
        <5>2. CASE ~(j < Len(l2))
          BY <5>2, <4>4, Pids
        <5>. QED  BY <5>1, <5>2
      <4>6. l2[j] \in Pid
        BY <2>2
      <4>7. nx2[l2[j]] = nx[l2[j]]
        BY <4>5, <4>6
      <4>. HIDE DEF nx2, Src
      <4>. QED  BY <4>4, <4>7
    <3>2. CASE j = k - 1
      <4>1. /\ j \in 1 .. Len(l) /\ j < Len(l) /\ j + 1 = k /\ 1 # k /\ l2[j] = l[j]
            /\ 1 \in 1 .. Len(l) /\ l # <<>>
        BY <3>2, <1>1, <2>2
      <4>2. n # p
        <5>1. n = l[1]
          BY <4>1 DEF Chain
        <5>. QED  BY <5>1, <4>1, <2>3
      <4>3. nx[l[j]] = p /\ l[j] \in Nodes(l) /\ l[j] \in Pid
        <5>1. nx[l[j]] = l[j + 1]
          BY <4>1 DEF Chain
        <5>. QED  BY <5>1, <4>1, <2>1, <1>1 DEF Nodes
      <4>4. nx2[l2[j]] = nx[p]
        BY <4>1, <4>2, <4>3
      <4>5. nx[p] = IF k < Len(l) THEN l[k + 1] ELSE Nil
        BY <2>1 DEF Chain
      <4>6. (j < Len(l2)) <=> (k < Len(l))
        BY <3>2, <1>1, <2>2
      <4>7. k < Len(l) => l2[k] = l[k + 1]
        BY <1>1, <2>2
      <4>. HIDE DEF nx2, Src
      <4>. QED  BY <4>1, <4>4, <4>5, <4>6, <4>7
    <3>3. j \in Int /\ k \in Int
      BY <1>1, <2>2
    <3>. QED  BY <3>1, <3>2, <3>3
  <2>. HIDE DEF nx2, n2, Src
  <2>10. Chain(n2, nx2, l2)
    BY <2>2, <2>7, <2>8, <2>9 DEF Chain
  <2>11. Len(l2) <= Len(l)
    BY <1>1, <2>2
  <2>. QED  BY <2>6, <2>10, <2>11
<1>. HIDE DEF Goal
<1>4. Goal
  BY <1>2, <1>3
<1>. QED  BY <1>4 DEF Goal, n2, nx2

-----------------------------------------------------------------------------
(***************************************************************************)
(* The state.                                                              *)
(***************************************************************************)

\* The pids that a kill in progress is about.
Doomed == {p \in Pid : \E c \in Known : \E i \in 1 .. Len(kills[c]) : kills[c][i].pid = p}

ProcTyped ==
  /\ ready \in Node /\ next \in [Pid -> Node]
  /\ nextPID \in 1 .. MaxPid + 1
  /\ CurrentPID \in Known /\ CurrentPID < nextPID
  /\ actualKilled \in BOOLEAN /\ iflag \in BOOLEAN
  /\ DOMAIN ctx = Known /\ \A p \in Known : ctx[p] \in Context(p)
  /\ kills \in [Known -> Seq(Call)]

\* The list is a chain of processes that exist, and every shell is in it.
Listed ==
  /\ Chain(ready, next, List)
  /\ Len(List) < nextPID
  /\ \A p \in Linked : p < nextPID
  /\ Shell \subseteq Linked

\* Ctrl-C may kill a command that has children.
Mixed == {"ctrlc", "spawn"} \subseteq Features

\* Shells, and pids that have not been given out, are nobody's children; where Ctrl-C
\* is used on commands without children no command has any.
Families(ps, np) ==
  /\ \A p \in Pid : p \in Shell \/ p >= np => ps[p].parent = IDLE
  /\ Uses("ctrlc") /\ ~Mixed => \A p \in Pid : ps[p].parent \in Shell \cup {IDLE}

\* A shell that waits is blocked, and what it waits for is its foreground child in
\* the list L.
Waits(ps, L) ==
  \A s \in Shell : ps[s].waitingPid # 0 =>
    /\ ps[s].state = "BLOCKED"
    /\ ps[s].waitingPid \in L
    /\ ps[ps[s].waitingPid].parent = s /\ ps[ps[s].waitingPid].foreground

\* No shell waits for one of the pids D.
Unwatched(ps, D) == \A s \in Shell : ps[s].waitingPid \notin D

\* Nobody in the list L is RUNNING but cur, unless Ctrl-C has killed a parent.
Alone(ps, L, cur) == ~Mixed => \A p \in L : ps[p].state = "RUNNING" => p = cur

Sound(ps, L, np, cur, D) ==
  ps \in Table /\ Families(ps, np) /\ Waits(ps, L) /\ Unwatched(ps, D) /\ Alone(ps, L, cur)

\* The current process, unless it has been killed, is RUNNING and in the list.
Right ==
  ~actualKilled /\ CurrentPID # IDLE =>
    CurrentPID \in Linked /\ proc[CurrentPID].state = "RUNNING"

\* The calls on a stack: the outermost of a command is its own kill by Ctrl-C, each but
\* the innermost is at a node, and a pid whose kill is over has left the list.
CallsSound ==
  \A c \in Known : \A i \in 1 .. Len(kills[c]) :
    /\ kills[c][i].pid < nextPID
    /\ \/ c \in Shell
       \/ Uses("ctrlc") /\ c # IDLE /\ (i = 1 \/ ~Mixed => kills[c][i].pid = c)
    /\ i < Len(kills[c]) => kills[c][i].aux \in Pid
    /\ kills[c][i].over => kills[c][i].pid \notin Linked

\* A command with a kill on its own stack has left the list, or is still RUNNING in it:
\* it is marked as killed, or has lost the CPU in the kill of its children.
SelfKilled ==
  \A c \in Pid \ Shell : kills[c] # <<>> /\ c \in Linked =>
    /\ proc[c].state = "RUNNING"
    /\ c = CurrentPID => actualKilled
    /\ ~Mixed => c = CurrentPID

\* A current process that is marked as killed has left the list, or is a command in its
\* own kill, with interrupts disabled when it has no children.
DeadCurrent ==
  actualKilled /\ CurrentPID \in Linked =>
    /\ CurrentPID \notin Shell /\ kills[CurrentPID] # <<>>
    /\ ~Mixed => ~iflag

IInv ==
  /\ ProcTyped /\ Listed
  /\ Sound(proc, Linked, nextPID, CurrentPID, Doomed)
  /\ Right /\ CallsSound /\ SelfKilled /\ DeadCurrent

-----------------------------------------------------------------------------
(***************************************************************************)
(* The list of the state.                                                  *)
(***************************************************************************)

\* What Listed says of the list.
LEMMA ListFacts ==
  ASSUME ProcTyped, Listed
  PROVE  /\ List \in Seq(Pid) /\ Linked = Nodes(List) /\ Linked \subseteq Pid
         /\ IDLE \notin Linked /\ nextPID \notin Linked
<1>1. List \in Seq(Pid) /\ Linked = Nodes(List)
  BY DEF Listed, Chain, Linked
<1>2. Linked \subseteq Pid
  BY <1>1 DEF Nodes
<1>3. nextPID \notin Linked
  BY DEF Listed, ProcTyped
<1>. QED  BY <1>1, <1>2, <1>3, Pids

\* Link adds a new pid to the list, at its end.
LEMMA LinkStep ==
  ASSUME ProcTyped, Listed, nextPID <= MaxPid, Link(nextPID), nextPID' = nextPID + 1
  PROVE  /\ ready' \in Node /\ next' \in [Pid -> Node] /\ nextPID \in Pid
         /\ nextPID' \in 1 .. MaxPid + 1
         /\ Listed' /\ Linked' = Linked \cup {nextPID}
         /\ Nodes(Append(List, nextPID)) = Linked \cup {nextPID}
         /\ Append(List, nextPID) \in Seq(Pid)
<1>. DEFINE l == List  l2 == Append(l, nextPID)
<1>1. nextPID \in Pid /\ nextPID' \in 1 .. MaxPid + 1 /\ nextPID \in Nat
  BY Pids DEF ProcTyped, Pid
<1>2. Chain(ready, next, l) /\ nextPID \notin Nodes(l) /\ Linked = Nodes(l)
  BY ListFacts DEF Listed
<1>3. /\ ready' = IF ready = Nil THEN nextPID ELSE ready
      /\ next' = [k \in Pid |-> IF k = nextPID THEN Nil
                                ELSE IF l # <<>> /\ k = l[Len(l)] THEN nextPID ELSE next[k]]
  BY DEF Link
<1>. HIDE DEF l
<1>4. Chain(ready', next', l2) /\ Nodes(l2) = Nodes(l) \cup {nextPID} /\ Len(l2) = Len(l) + 1
  BY <1>1, <1>2, <1>3, ChainLink
<1>5. l2 \in Seq(Pid) /\ Len(l) \in Nat
  BY <1>2, <1>4 DEF Chain
<1>6. Len(l2) <= MaxPid
  BY <1>1, <1>4, <1>5, Pids DEF Listed, ProcTyped, l
<1>7. ListFrom(ready', next') = l2
  BY <1>4, <1>6, ListIs
<1>8. List' = l2 /\ Linked' = Nodes(l2)
  BY <1>7 DEF List, Linked
<1>9. ready' \in Node /\ next' \in [Pid -> Node]
  BY <1>1, <1>3 DEF Node, ProcTyped
<1>10. Listed'
  <2>1. Len(l2) < nextPID'
    BY <1>1, <1>4, <1>5 DEF Listed, ProcTyped, l
  <2>2. \A p \in Nodes(l2) : p < nextPID'
    <3>1. \A p \in Linked : p < nextPID /\ p \in Nat
      BY ListFacts, Pids DEF Listed
    <3>. QED  BY <1>1, <1>2, <1>4, <3>1
  <2>3. Shell \subseteq Nodes(l2)
    BY <1>2, <1>4 DEF Listed
  <2>. HIDE DEF l2
  <2>. QED  BY <1>4, <1>8, <2>1, <2>2, <2>3 DEF Listed
<1>. QED  BY <1>1, <1>2, <1>4, <1>5, <1>8, <1>9, <1>10 DEF l

\* Unlink takes one pid out of the list.
LEMMA UnlinkStep ==
  ASSUME ProcTyped, Listed, NEW p \in Pid \ Shell, Unlink(p), nextPID' = nextPID
  PROVE  /\ ready' \in Node /\ next' \in [Pid -> Node]
         /\ Listed' /\ Linked' = Linked \ {p}
<1>1. Chain(ready, next, List) /\ Linked = Nodes(List)
  BY ListFacts DEF Listed
<1>2. /\ ready' = IF ready = p THEN next[p] ELSE ready
      /\ next' = [k \in Pid |-> IF ready # p /\ k \in Nodes(List) /\ next[k] = p
                                THEN next[p] ELSE next[k]]
  BY <1>1 DEF Unlink
<1>3. PICK l2 : Chain(ready', next', l2) /\ Nodes(l2) = Nodes(List) \ {p} /\ Len(l2) <= Len(List)
  <2>. DEFINE n2 == IF ready = p THEN next[p] ELSE ready
              nx2 == [k \in Pid |-> IF ready # p /\ k \in Nodes(List) /\ next[k] = p
                                    THEN next[p] ELSE next[k]]
  <2>1. \E l2 : Chain(n2, nx2, l2) /\ Nodes(l2) = Nodes(List) \ {p} /\ Len(l2) <= Len(List)
    BY <1>1, ChainUnlink
  <2>2. n2 = ready' /\ nx2 = next'
    BY <1>2
  <2>. HIDE DEF n2, nx2
  <2>. QED  BY <2>1, <2>2
<1>4. Len(l2) \in Nat /\ Len(List) \in Nat /\ Len(l2) < nextPID /\ Len(l2) <= MaxPid
  BY <1>1, <1>3, Pids DEF Chain, Listed, ProcTyped
<1>5. ListFrom(ready', next') = l2
  BY <1>3, <1>4, ListIs
<1>6. List' = l2 /\ Linked' = Nodes(l2)
  BY <1>5 DEF List, Linked
<1>7. ready' \in Node /\ next' \in [Pid -> Node]
  BY <1>2 DEF Node, ProcTyped
<1>8. Listed'
  <2>1. \A q \in Nodes(l2) : q < nextPID
    BY <1>1, <1>3 DEF Listed
  <2>2. Shell \subseteq Nodes(l2)
    BY <1>1, <1>3 DEF Listed
  <2>. QED  BY <1>3, <1>4, <1>6, <2>1, <2>2 DEF Listed
<1>. QED  BY <1>1, <1>3, <1>6, <1>7, <1>8

-----------------------------------------------------------------------------
(***************************************************************************)
(* The operations on the table of processes.                               *)
(***************************************************************************)

\* The fields of a process.
LEMMA Fields ==
  ASSUME NEW r \in PROCESS
  PROVE  /\ r.state \in {"RUNNING", "READY", "BLOCKED"} /\ r.priority \in Nat
         /\ r.foreground \in BOOLEAN /\ r.parent \in Known /\ r.waitingPid \in Int
         /\ r.sleep \in Nat /\ r.acum \in Nat
BY DEF PROCESS

\* A process with one or two fields changed.
LEMMA Updated ==
  ASSUME NEW r \in PROCESS
  PROVE  /\ [r EXCEPT !.state = "READY"] \in PROCESS
         /\ [r EXCEPT !.state = "BLOCKED"] \in PROCESS
         /\ \A w \in Int : [r EXCEPT !.waitingPid = w] \in PROCESS
         /\ \A k \in Nat : [r EXCEPT !.sleep = k] \in PROCESS
         /\ \A k \in Nat, x \in {"RUNNING", "READY", "BLOCKED"} :
              [r EXCEPT !.sleep = k, !.state = x] \in PROCESS
         /\ \A a \in Nat : [r EXCEPT !.state = "RUNNING", !.acum = a] \in PROCESS
         /\ \A a \in Nat : [r EXCEPT !.acum = a] \in PROCESS
BY DEF PROCESS

\* GetProcessByPID finds a process of the list, and falls back on the idle one.
LEMMA Process ==
  ASSUME ProcTyped, Listed, NEW p
  PROVE  /\ GetProcessByPID(p) \in Known
         /\ p \in Linked => GetProcessByPID(p) = p
         /\ p \notin Linked => GetProcessByPID(p) = IDLE
BY ListFacts DEF GetProcessByPID, InList, Known

\* What GetNextTask chooses is READY and in the list, or it is the idle process.
LEMMA NextTask ==
  ASSUME NEW ps \in Table, NEW l \in Seq(Pid)
  PROVE  \/ GetNextTask(ps, l) = IDLE
         \/ GetNextTask(ps, l) \in Nodes(l) /\ ps[GetNextTask(ps, l)].state = "READY"
<1>. DEFINE candidates == {i \in 1 .. Len(l) : ps[l[i]].state = "READY"}
            beats(j, i) == \/ ps[l[j]].acum > ps[l[i]].acum
                           \/ /\ ps[l[j]].acum = ps[l[i]].acum
                              /\ ps[l[j]].priority > ps[l[i]].priority
                           \/ /\ ps[l[j]].acum = ps[l[i]].acum
                              /\ ps[l[j]].priority = ps[l[i]].priority /\ j > i
            best(i, N) == i \in candidates /\ \A j \in candidates \ {i} : j <= N => beats(i, j)
            seen == {N \in 0 .. Len(l) : (\A i \in candidates : i > N) \/ \E i \in candidates : i <= N /\ best(i, N)}
<1>1. Len(l) \in Nat /\ \A i \in 1 .. Len(l) : ps[l[i]].acum \in Nat /\ ps[l[i]].priority \in Nat
  <2>1. \A i \in 1 .. Len(l) : ps[l[i]] \in PROCESS
    BY DEF Table, Known
  <2>. QED  BY <2>1, Fields
<1>2. \A i \in candidates : i \in 1 .. Len(l)
  OBVIOUS
<1>3. 0 \in seen
  <2>1. \A i \in candidates : i > 0
    BY <1>2
  <2>. HIDE DEF candidates, best
  <2>. QED  BY <1>1, <2>1
<1>4. ASSUME NEW N \in 0 .. Len(l) - 1, N \in seen PROVE N + 1 \in seen
  <2>1. N + 1 \in 0 .. Len(l) /\ N \in Nat
    BY <1>1
  <2>2. CASE N + 1 \notin candidates
    <3>1. CASE \A i \in candidates : i > N
      <4>1. \A i \in candidates : i > N + 1
        <5>. HIDE DEF candidates
        <5>. QED  BY <1>2, <2>1, <2>2, <3>1
      <4>. HIDE DEF candidates, best
      <4>. QED  BY <2>1, <4>1
    <3>2. CASE \E i \in candidates : i <= N /\ best(i, N)
      <4>1. PICK i \in candidates : i <= N /\ best(i, N)
        BY <3>2
      <4>2. best(i, N + 1) /\ i <= N + 1
        <5>1. \A j \in candidates : j <= N + 1 => j <= N
          <6>. HIDE DEF candidates
          <6>. QED  BY <1>2, <2>1, <2>2
        <5>2. i <= N + 1
          BY <4>1, <1>2, <2>1
        <5>. HIDE DEF candidates, beats
        <5>. QED  BY <4>1, <5>1, <5>2
      <4>. HIDE DEF candidates, best
      <4>. QED  BY <2>1, <4>2
    <3>. HIDE DEF candidates, best
    <3>. QED  BY <1>4, <3>1, <3>2
  <2>3. CASE N + 1 \in candidates
    <3>1. CASE \A i \in candidates : i > N
      <4>1. best(N + 1, N + 1)
        <5>1. \A j \in candidates \ {N + 1} : ~(j <= N + 1)
          <6>. HIDE DEF candidates
          <6>. QED  BY <1>2, <2>1, <3>1
        <5>. HIDE DEF candidates, beats
        <5>. QED  BY <2>3, <5>1
      <4>2. N + 1 <= N + 1
        BY <2>1
      <4>. HIDE DEF candidates, best
      <4>. QED  BY <2>1, <2>3, <4>1, <4>2
    <3>2. CASE \E i \in candidates : i <= N /\ best(i, N)
      <4>1. PICK i \in candidates : i <= N /\ best(i, N)
        BY <3>2
      <4>2. \A j \in candidates : j <= N + 1 => j <= N \/ j = N + 1
        <5>. HIDE DEF candidates
        <5>. QED  BY <1>2, <2>1
      <4>3. beats(i, N + 1) \/ beats(N + 1, i)
        <5>1. /\ ps[l[i]].acum \in Nat /\ ps[l[i]].priority \in Nat
              /\ ps[l[N + 1]].acum \in Nat /\ ps[l[N + 1]].priority \in Nat
              /\ i \in Nat /\ N + 1 > i
          <6>. HIDE DEF candidates, best
          <6>. QED  BY <1>1, <1>2, <2>1, <2>3, <4>1
        <5>. QED  BY <2>1, <5>1
      <4>4. CASE beats(i, N + 1)
        <5>1. best(i, N + 1) /\ i <= N + 1
          <6>1. i <= N + 1
            BY <4>1, <1>2, <2>1
          <6>. HIDE DEF candidates, beats
          <6>. QED  BY <4>1, <4>2, <4>4, <6>1
        <5>. HIDE DEF candidates, best
        <5>. QED  BY <2>1, <5>1
      <4>5. CASE beats(N + 1, i)
        <5>1. \A j \in candidates : beats(i, j) => beats(N + 1, j)
          <6>. TAKE j \in candidates
          <6>. HAVE beats(i, j)
          <6>1. /\ ps[l[i]].acum \in Nat /\ ps[l[i]].priority \in Nat
                /\ ps[l[j]].acum \in Nat /\ ps[l[j]].priority \in Nat
                /\ ps[l[N + 1]].acum \in Nat /\ ps[l[N + 1]].priority \in Nat
                /\ i \in Nat /\ j \in Nat /\ N + 1 \in Nat
            <7>. HIDE DEF candidates, best, beats
            <7>. QED  BY <1>1, <1>2, <2>1, <2>3, <4>1
          <6>. QED  BY <4>5, <6>1
        <5>2. best(N + 1, N + 1) /\ N + 1 <= N + 1
          <6>1. N + 1 <= N + 1
            BY <2>1
          <6>. HIDE DEF candidates, beats
          <6>. QED  BY <2>3, <4>1, <4>2, <4>5, <5>1, <6>1
        <5>. HIDE DEF candidates, best
        <5>. QED  BY <2>1, <2>3, <5>2
      <4>. HIDE DEF beats
      <4>. QED  BY <4>3, <4>4, <4>5
    <3>. HIDE DEF candidates, best
    <3>. QED  BY <1>4, <3>1, <3>2
  <2>. QED  BY <2>2, <2>3
<1>5. Len(l) \in seen
  <2>1. Len(l) \in 0 .. Len(l) /\ Len(l) \in Nat
    BY <1>1
  <2>2. \A N \in 0 .. Len(l) - 1 : N \in seen => N + 1 \in seen
    <3>. HIDE DEF seen
    <3>. QED  BY <1>4
  <2>. HIDE DEF seen
  <2>3. \A N \in 0 .. Len(l) : N \in seen
    BY <1>3, <2>1, <2>2, UpTo
  <2>. QED  BY <2>1, <2>3
<1>6. CASE candidates = {}
  BY <1>6 DEF GetNextTask
<1>7. CASE candidates # {}
  <2>1. \E i \in candidates : best(i, Len(l))
    <3>1. \A i \in candidates : ~(i > Len(l))
      BY <1>1
    <3>. HIDE DEF candidates, best
    <3>. QED  BY <1>5, <1>7, <3>1
  <2>2. \E i \in candidates : \A j \in candidates \ {i} : beats(i, j)
    <3>1. \A j \in candidates : j <= Len(l)
      BY <1>1
    <3>. HIDE DEF candidates, beats
    <3>. QED  BY <2>1, <3>1
  <2>. DEFINE i == CHOOSE i \in candidates : \A j \in candidates \ {i} : beats(i, j)
  <2>3. i \in candidates
    <3>. HIDE DEF candidates, beats
    <3>. QED  BY <2>2
  <2>4. GetNextTask(ps, l) = l[i]
    BY <1>7 DEF GetNextTask
  <2>. HIDE DEF i
  <2>. QED  BY <2>3, <2>4 DEF Nodes
<1>. QED  BY <1>6, <1>7

\* The table qs is ps but for alarms and wake-ups: nobody starts to wait or to run.
Eased(ps, qs) ==
  /\ qs \in Table
  /\ \A p \in Known :
       /\ qs[p].parent = ps[p].parent /\ qs[p].foreground = ps[p].foreground
       /\ qs[p].waitingPid = ps[p].waitingPid \/ qs[p].waitingPid = 0
       /\ \/ qs[p].state = ps[p].state
          \/ ps[p].state = "BLOCKED" /\ qs[p].state = "READY" /\ qs[p].waitingPid = 0

\* Nothing changed.
LEMMA EasedSelf ==
  ASSUME NEW ps \in Table
  PROVE  Eased(ps, ps)
BY DEF Eased

\* One easing after another.
LEMMA EasedTwice ==
  ASSUME NEW ps, NEW qs, NEW rs, Eased(ps, qs), Eased(qs, rs)
  PROVE  Eased(ps, rs)
<1>1. rs \in Table
  BY DEF Eased
<1>2. ASSUME NEW p \in Known
      PROVE  /\ rs[p].parent = ps[p].parent /\ rs[p].foreground = ps[p].foreground
             /\ rs[p].waitingPid = ps[p].waitingPid \/ rs[p].waitingPid = 0
             /\ \/ rs[p].state = ps[p].state
                \/ ps[p].state = "BLOCKED" /\ rs[p].state = "READY" /\ rs[p].waitingPid = 0
  BY DEF Eased
<1>. QED  BY <1>1, <1>2 DEF Eased

\* A wake-up.
LEMMA AwakeEases ==
  ASSUME ProcTyped, Listed, NEW ps \in Table, NEW p
  PROVE  Eased(ps, awake_process(ps, p))
<1>. DEFINE w == GetProcessByPID(p)
<1>1. CASE ps[w].state = "BLOCKED" /\ ps[w].waitingPid = 0 /\ w \in Known
  <2>1. awake_process(ps, p) = [ps EXCEPT ![w].state = "READY"]
    BY <1>1 DEF awake_process
  <2>2. ps[w] \in PROCESS /\ [ps[w] EXCEPT !.state = "READY"] \in PROCESS
    BY <1>1, Updated DEF Table
  <2>. HIDE DEF w
  <2>. DEFINE qs == [ps EXCEPT ![w].state = "READY"]
  <2>3. qs \in Table
    BY <2>2 DEF Table
  <2>4. \A q \in Known : qs[q] = IF q = w THEN [ps[w] EXCEPT !.state = "READY"] ELSE ps[q]
    BY DEF Table
  <2>5. \A q \in Known : ps[q] \in PROCESS
    BY DEF Table
  <2>. HIDE DEF qs
  <2>6. Eased(ps, qs)
    BY <1>1, <2>3, <2>4, <2>5 DEF Eased, PROCESS
  <2>. QED  BY <2>1, <2>6 DEF qs
<1>2. CASE ~(ps[w].state = "BLOCKED" /\ ps[w].waitingPid = 0)
  <2>1. awake_process(ps, p) = ps
    BY <1>2 DEF awake_process
  <2>. QED  BY <2>1, EasedSelf
<1>3. w \in Known
  BY Process
<1>. QED  BY <1>1, <1>2, <1>3

\* The end of a wait.
LEMMA ReleaseEases ==
  ASSUME ProcTyped, Listed, NEW ps \in Table, NEW p
  PROVE  Eased(ps, ReleaseParent(ps, p))
<1>. DEFINE parent == GetProcessByPID(ps[p].parent)
            qs == [ps EXCEPT ![parent].waitingPid = 0]
<1>1. parent \in Known
  BY Process
<1>2. qs \in Table /\ Eased(ps, qs)
  <2>. HIDE DEF parent
  <2>0. ps[parent] \in PROCESS
    BY <1>1 DEF Table
  <2>1. [ps[parent] EXCEPT !.waitingPid = 0] \in PROCESS
    BY <2>0 DEF PROCESS
  <2>2. qs \in Table
    BY <2>1 DEF Table
  <2>3. \A q \in Known : qs[q] = IF q = parent THEN [ps[parent] EXCEPT !.waitingPid = 0] ELSE ps[q]
    BY DEF Table
  <2>4. \A q \in Known : ps[q] \in PROCESS
    BY DEF Table
  <2>. HIDE DEF qs
  <2>. QED  BY <2>2, <2>3, <2>4 DEF Eased, PROCESS
<1>3. ReleaseParent(ps, p) = ps \/ ReleaseParent(ps, p) = awake_process(qs, parent)
  BY DEF ReleaseParent
<1>4. Eased(ps, awake_process(qs, parent))
  <2>. HIDE DEF qs, parent
  <2>1. Eased(qs, awake_process(qs, parent))
    BY <1>2, AwakeEases
  <2>. QED  BY <1>2, <2>1, EasedTwice
<1>. HIDE DEF qs, parent
<1>. QED  BY <1>3, <1>4, EasedSelf

\* A tick of the alarms.
LEMMA AlarmsEase ==
  ASSUME NEW ps \in Table
  PROVE  Eased(ps, Alarms(ps))
<1>. DEFINE up(p) == IF ps[p].sleep = 1 /\ ps[p].state = "BLOCKED" /\ ps[p].waitingPid = 0
                     THEN "READY" ELSE ps[p].state
            rung(p) == [ps[p] EXCEPT !.sleep = @ - 1, !.state = up(p)]
<1>1. Alarms(ps) = [p \in Known |-> IF p \notin Linked \/ ps[p].sleep = 0 THEN ps[p] ELSE rung(p)]
  BY DEF Alarms, Table
<1>2. ASSUME NEW p \in Known
      PROVE  /\ ps[p] \in PROCESS
             /\ ps[p].sleep # 0 => rung(p) \in PROCESS
             /\ rung(p).parent = ps[p].parent /\ rung(p).foreground = ps[p].foreground
             /\ rung(p).waitingPid = ps[p].waitingPid
             /\ rung(p).state = up(p)
  <2>1. ps[p] \in PROCESS
    BY DEF Table
  <2>2. up(p) \in {"RUNNING", "READY", "BLOCKED"}
    BY <2>1, Fields
  <2>3. ps[p].sleep # 0 => ps[p].sleep - 1 \in Nat
    BY <2>1, Fields
  <2>4. ps[p].sleep # 0 => rung(p) \in PROCESS
    <3>. HIDE DEF up
    <3>. QED  BY <2>1, <2>2, <2>3, Updated
  <2>. HIDE DEF up
  <2>. QED  BY <2>1, <2>4 DEF PROCESS
<1>. HIDE DEF rung
<1>3. Alarms(ps) \in Table
  BY <1>1, <1>2 DEF Table
<1>. QED  BY <1>1, <1>2, <1>3 DEF Eased

\* Once p has released its parent no shell waits for p.
LEMMA ReleaseFrees ==
  ASSUME ProcTyped, Listed, NEW ps \in Table, Waits(ps, Linked), NEW p \in Pid
  PROVE  \A s \in Shell : ReleaseParent(ps, p)[s].waitingPid # p
<1>. DEFINE rs == ReleaseParent(ps, p)
<1>1. SUFFICES ASSUME NEW s \in Shell, rs[s].waitingPid = p PROVE FALSE
  OBVIOUS
<1>2. Eased(ps, rs) /\ s \in Known /\ p # 0 /\ p \in Known
  BY ReleaseEases, Pids DEF Known
<1>3. ps[s].waitingPid = p
  <2>. HIDE DEF rs
  <2>. QED  BY <1>1, <1>2 DEF Eased
<1>4. ps[p].parent = s /\ ps[p].foreground
  BY <1>2, <1>3 DEF Waits
<1>5. GetProcessByPID(ps[p].parent) = s
  BY <1>4, Process DEF Listed
<1>. DEFINE qs == [ps EXCEPT ![s].waitingPid = 0]
<1>6. rs = awake_process(qs, s)
  BY <1>3, <1>4, <1>5 DEF ReleaseParent
<1>7. qs \in Table /\ qs[s].waitingPid = 0
  <2>1. ps[s] \in PROCESS
    BY <1>2 DEF Table
  <2>2. [ps[s] EXCEPT !.waitingPid = 0] \in PROCESS
    BY <2>1 DEF PROCESS
  <2>3. qs = [ps EXCEPT ![s] = [ps[s] EXCEPT !.waitingPid = 0]]
    OBVIOUS
  <2>4. qs \in Table
    BY <1>2, <2>2, <2>3 DEF Table
  <2>5. qs[s].waitingPid = 0
    BY <1>2, <2>1 DEF Table, PROCESS
  <2>. QED  BY <2>4, <2>5
<1>. HIDE DEF qs
<1>8. Eased(qs, rs)
  BY <1>6, <1>7, AwakeEases
<1>9. rs[s].waitingPid = 0
  <2>. HIDE DEF rs
  <2>. QED  BY <1>2, <1>7, <1>8 DEF Eased
<1>. HIDE DEF rs
<1>. QED  BY <1>1, <1>2, <1>9

\* Alarms and wake-ups leave a sound table sound.
LEMMA SoundEased ==
  ASSUME NEW ps, NEW qs, NEW L \in SUBSET Pid, NEW np, NEW cur, NEW D,
         Sound(ps, L, np, cur, D), Eased(ps, qs), 0 \notin D
  PROVE  Sound(qs, L, np, cur, D)
<1>1. ps \in Table /\ qs \in Table /\ \A p \in Pid : p \in Known
  BY DEF Sound, Eased, Known
<1>2. Families(qs, np)
  BY <1>1 DEF Sound, Eased, Families
<1>3. ASSUME NEW s \in Shell, qs[s].waitingPid # 0
      PROVE  /\ qs[s].state = "BLOCKED" /\ qs[s].waitingPid \in L
             /\ qs[qs[s].waitingPid].parent = s /\ qs[qs[s].waitingPid].foreground
  <2>1. s \in Known
    BY <1>1, Pids
  <2>2. qs[s].waitingPid = ps[s].waitingPid /\ qs[s].state = ps[s].state
    BY <1>3, <2>1 DEF Eased
  <2>3. /\ ps[s].state = "BLOCKED" /\ ps[s].waitingPid \in L
        /\ ps[ps[s].waitingPid].parent = s /\ ps[ps[s].waitingPid].foreground
    BY <1>3, <2>2 DEF Sound, Waits
  <2>4. ps[s].waitingPid \in Known
    BY <1>1, <2>3
  <2>5. /\ qs[ps[s].waitingPid].parent = ps[ps[s].waitingPid].parent
        /\ qs[ps[s].waitingPid].foreground = ps[ps[s].waitingPid].foreground
    BY <2>4 DEF Eased
  <2>. QED  BY <2>2, <2>3, <2>5
<1>4. ASSUME NEW s \in Shell PROVE qs[s].waitingPid \notin D
  <2>1. s \in Known
    BY <1>1, Pids
  <2>2. qs[s].waitingPid = ps[s].waitingPid \/ qs[s].waitingPid = 0
    BY <2>1 DEF Eased
  <2>. QED  BY <2>2 DEF Sound, Unwatched
<1>5. Alone(qs, L, cur)
  <2>1. \A p \in L : qs[p].state = "RUNNING" => ps[p].state = "RUNNING"
    BY <1>1 DEF Eased
  <2>. QED  BY <2>1 DEF Sound, Alone
<1>. QED  BY <1>1, <1>2, <1>3, <1>4, <1>5 DEF Sound, Waits, Unwatched

\* A table with the same families and waits, in which nobody starts to run and no
\* waiting shell is awoken, is as sound.
LEMMA SoundSimilar ==
  ASSUME NEW ps, NEW qs \in Table, NEW L \in SUBSET Pid, NEW np, NEW cur, NEW D,
         Sound(ps, L, np, cur, D),
         \A q \in Known :
           /\ qs[q].parent = ps[q].parent /\ qs[q].foreground = ps[q].foreground
           /\ qs[q].waitingPid = ps[q].waitingPid
           /\ qs[q].state = ps[q].state \/ qs[q].state = "BLOCKED"
  PROVE  Sound(qs, L, np, cur, D)
<1>1. ps \in Table /\ \A p \in Pid : p \in Known
  BY DEF Sound, Known
<1>2. Families(qs, np)
  BY <1>1 DEF Sound, Families
<1>3. ASSUME NEW s \in Shell, qs[s].waitingPid # 0
      PROVE  /\ qs[s].state = "BLOCKED" /\ qs[s].waitingPid \in L
             /\ qs[qs[s].waitingPid].parent = s /\ qs[qs[s].waitingPid].foreground
  <2>1. s \in Known
    BY <1>1, Pids
  <2>2. /\ ps[s].state = "BLOCKED" /\ ps[s].waitingPid \in L
        /\ ps[ps[s].waitingPid].parent = s /\ ps[ps[s].waitingPid].foreground
    BY <1>3, <2>1 DEF Sound, Waits
  <2>3. ps[s].waitingPid \in Known
    BY <1>1, <2>2
  <2>. QED  BY <2>1, <2>2, <2>3
<1>4. Unwatched(qs, D)
  BY <1>1, Pids DEF Sound, Unwatched
<1>5. Alone(qs, L, cur)
  BY <1>1 DEF Sound, Alone
<1>. QED  BY <1>2, <1>3, <1>4, <1>5 DEF Sound, Waits

\* So does blocking a process.
LEMMA SoundBlocked ==
  ASSUME NEW ps, NEW L \in SUBSET Pid, NEW np, NEW cur, NEW D,
         Sound(ps, L, np, cur, D), NEW p \in Known
  PROVE  Sound([ps EXCEPT ![p].state = "BLOCKED"], L, np, cur, D)
<1>. DEFINE qs == [ps EXCEPT ![p].state = "BLOCKED"]
<1>1. ps \in Table /\ \A q \in Pid : q \in Known
  BY DEF Sound, Known
<1>2. ps[p] \in PROCESS
  BY <1>1 DEF Table
<1>3. [ps[p] EXCEPT !.state = "BLOCKED"] \in PROCESS
  BY <1>2, Updated
<1>4. qs \in Table
  BY <1>1, <1>3 DEF Table
<1>5. \A q \in Known :
        /\ qs[q].parent = ps[q].parent /\ qs[q].foreground = ps[q].foreground
        /\ qs[q].waitingPid = ps[q].waitingPid
        /\ qs[q].state = ps[q].state \/ qs[q].state = "BLOCKED"
  <2>1. \A q \in Known : qs[q] = IF q = p THEN [ps[p] EXCEPT !.state = "BLOCKED"] ELSE ps[q]
    BY <1>1 DEF Table
  <2>. HIDE DEF qs
  <2>. QED  BY <1>2, <2>1 DEF PROCESS
<1>. HIDE DEF qs
<1>6. Sound(qs, L, np, cur, D)
  BY <1>1, <1>4, <1>5, SoundSimilar
<1>. QED  BY <1>6 DEF qs

\* A table stays sound for the list without a pid that no shell waits for.
LEMMA SoundWithout ==
  ASSUME NEW ps, NEW L, NEW np, NEW cur, NEW D, NEW p,
         Sound(ps, L, np, cur, D), p \in D
  PROVE  Sound(ps, L \ {p}, np, cur, D)
BY DEF Sound, Waits, Unwatched, Alone

\* Among fewer watched pids.
LEMMA SoundDoomed ==
  ASSUME NEW ps, NEW L, NEW np, NEW cur, NEW D, NEW E,
         Sound(ps, L, np, cur, D), Unwatched(ps, E)
  PROVE  Sound(ps, L, np, cur, E)
BY DEF Sound

\* A new process, the current process's child: no command has one where Ctrl-C is used.
LEMMA SoundNew ==
  ASSUME ProcTyped, NEW ps, NEW L \in SUBSET Pid, NEW D,
         Sound(ps, L, nextPID, CurrentPID, D), nextPID \in Pid, nextPID \notin L, Shell \subseteq L,
         nextPID \notin D, 0 \notin D,
         Uses("ctrlc") /\ ~Mixed => CurrentPID \in Shell,
         NEW prio \in Nat, NEW isFront \in BOOLEAN
  PROVE  Sound([ps EXCEPT ![nextPID] = NewProcess(prio, isFront)], L \cup {nextPID},
               nextPID + 1, CurrentPID, D)
<1>. DEFINE qs == [ps EXCEPT ![nextPID] = NewProcess(prio, isFront)]
<1>1. /\ ps \in Table /\ (\A q \in Pid : q \in Known) /\ nextPID \notin Shell
      /\ nextPID \in Nat /\ CurrentPID \in Known
  BY Pids DEF Sound, Known, ProcTyped
<1>2. NewProcess(prio, isFront) \in PROCESS
  <2>1. prio + 1 \in Nat
    OBVIOUS
  <2>. QED  BY <1>1, <2>1 DEF NewProcess, PROCESS
<1>3. /\ NewProcess(prio, isFront).parent = CurrentPID
      /\ NewProcess(prio, isFront).state = "READY"
  BY DEF NewProcess
<1>4. \A q \in Known : qs[q] = IF q = nextPID THEN NewProcess(prio, isFront) ELSE ps[q]
  BY <1>1 DEF Table
<1>5. qs \in Table
  BY <1>1, <1>2 DEF Table
<1>. HIDE DEF qs
<1>6. Families(qs, nextPID + 1)
  <2>1. ASSUME NEW p \in Pid, p \in Shell \/ p >= nextPID + 1 PROVE qs[p].parent = IDLE
    <3>1. p # nextPID /\ (p \in Shell \/ p >= nextPID) /\ p \in Known
      BY <1>1, <2>1, Pids
    <3>. QED  BY <1>4, <3>1 DEF Sound, Families
  <2>2. ASSUME Uses("ctrlc"), ~Mixed, NEW p \in Pid PROVE qs[p].parent \in Shell \cup {IDLE}
    <3>1. ps[p].parent \in Shell \cup {IDLE} /\ p \in Known
      BY <2>2, <1>1 DEF Sound, Families
    <3>. QED  BY <1>3, <1>4, <2>2, <3>1
  <2>. QED  BY <2>1, <2>2 DEF Families
<1>7. \A s \in Shell : s \in Known /\ s # nextPID /\ qs[s] = ps[s]
  BY <1>1, <1>4, Pids
<1>8. ASSUME NEW s \in Shell, qs[s].waitingPid # 0
      PROVE  /\ qs[s].state = "BLOCKED" /\ qs[s].waitingPid \in L
             /\ qs[qs[s].waitingPid].parent = s /\ qs[qs[s].waitingPid].foreground
  <2>1. /\ ps[s].state = "BLOCKED" /\ ps[s].waitingPid \in L
        /\ ps[ps[s].waitingPid].parent = s /\ ps[ps[s].waitingPid].foreground
    BY <1>7, <1>8 DEF Sound, Waits
  <2>2. ps[s].waitingPid # nextPID /\ ps[s].waitingPid \in Known
    BY <1>1, <2>1
  <2>. QED  BY <1>4, <1>7, <2>1, <2>2
<1>9. Unwatched(qs, D)
  BY <1>7 DEF Sound, Unwatched
<1>10. Alone(qs, L \cup {nextPID}, CurrentPID)
  BY <1>1, <1>3, <1>4 DEF Sound, Alone
<1>11. Sound(qs, L \cup {nextPID}, nextPID + 1, CurrentPID, D)
  BY <1>5, <1>6, <1>8, <1>9, <1>10 DEF Sound, Waits
<1>. QED  BY <1>11 DEF qs

\* The switch: one process runs, the one that was current no longer does.
LEMMA SwitchStep ==
  ASSUME ProcTyped, Listed, Right, NEW ps, NEW l \in Seq(Pid), NEW np, NEW D,
         Sound(ps, Nodes(l), np, CurrentPID, D),
         ~Mixed /\ actualKilled => CurrentPID \notin Nodes(l),
         NEW at \in Context(CurrentPID), Switch(ps, at, l)
  PROVE  /\ Sound(proc', Nodes(l), np, CurrentPID', D)
         /\ \A q \in Pid : ps[q].state = "RUNNING" /\ (q = CurrentPID => actualKilled)
                            => proc'[q].state = "RUNNING" /\ q # CurrentPID'
         /\ \/ CurrentPID' = IDLE
            \/ CurrentPID' \in Nodes(l) /\ proc'[CurrentPID'].state = "RUNNING"
         /\ actualKilled' = FALSE /\ iflag' \in BOOLEAN
         /\ DOMAIN ctx' = Known /\ \A p \in Known : ctx'[p] \in Context(p)
<1>. DEFINE saved == Saved(ps)  to == GetNextTask(saved, l)  L == Nodes(l)
            temp == GetProcessByPID(CurrentPID)
<1>1. /\ proc' = Dispatched(saved, to, l) /\ CurrentPID' = to
      /\ ctx' = IF actualKilled THEN ctx ELSE [ctx EXCEPT ![temp] = at]
      /\ iflag' = ctx'[to].if /\ actualKilled' = FALSE
  BY DEF Switch
<1>2. /\ ps \in Table /\ CurrentPID \in Known /\ temp \in Known /\ L \subseteq Pid
      /\ ~actualKilled => temp = CurrentPID
      /\ \A q \in Pid : q \in Known /\ q # IDLE
  BY Process, Pids DEF Sound, ProcTyped, Right, Known, Nodes
<1>3. /\ saved \in Table
      /\ \A q \in Known : /\ saved[q] = ps[q] \/ saved[q] = [ps[q] EXCEPT !.state = "READY"]
                          /\ saved[q] # ps[q] => ps[q].state = "RUNNING"
      /\ \A q \in Known : saved[q] # ps[q] => q = CurrentPID /\ ~actualKilled
      /\ ~Mixed => \A q \in L : saved[q].state # "RUNNING"
  <2>1. CASE ~actualKilled /\ ps[temp].state = "RUNNING"
    <3>. HIDE DEF temp
    <3>1. saved = [ps EXCEPT ![temp].state = "READY"]
      BY <2>1 DEF Saved, temp
    <3>2. ps[temp] \in PROCESS
      BY <1>2 DEF Table
    <3>3. [ps[temp] EXCEPT !.state = "READY"] \in PROCESS
      BY <3>2, Updated
    <3>4. saved \in Table
      BY <1>2, <3>1, <3>3 DEF Table
    <3>5. \A q \in Known : saved[q] = IF q = temp THEN [ps[q] EXCEPT !.state = "READY"] ELSE ps[q]
      BY <1>2, <3>1 DEF Table
    <3>6. saved[temp].state = "READY"
      BY <1>2, <3>2, <3>5 DEF PROCESS
    <3>. HIDE DEF saved
    <3>7. ~Mixed => \A q \in L : saved[q].state # "RUNNING"
      <4>1. ~Mixed => \A q \in L : q # temp => ps[q].state # "RUNNING"
        BY <1>2, <2>1 DEF Sound, Alone
      <4>. QED  BY <1>2, <3>5, <3>6, <4>1
    <3>8. \A q \in Known : saved[q] # ps[q] =>
            ps[q].state = "RUNNING" /\ q = CurrentPID /\ ~actualKilled
      BY <1>2, <2>1, <3>5
    <3>. HIDE DEF L
    <3>. QED  BY <3>4, <3>5, <3>7, <3>8
  <2>2. CASE ~(~actualKilled /\ ps[temp].state = "RUNNING")
    <3>1. saved = ps
      BY <2>2 DEF Saved
    <3>2. ~Mixed => \A q \in L : ps[q].state # "RUNNING"
      <4>1. ~Mixed => \A q \in L : ps[q].state = "RUNNING" => q = CurrentPID
        BY DEF Sound, Alone
      <4>2. ~Mixed /\ actualKilled => CurrentPID \notin L
        OBVIOUS
      <4>3. ~actualKilled => ps[CurrentPID].state # "RUNNING"
        BY <1>2, <2>2
      <4>. HIDE DEF L
      <4>. QED  BY <4>1, <4>2, <4>3
    <3>. HIDE DEF saved, L
    <3>. QED  BY <1>2, <3>1, <3>2
  <2>. QED  BY <2>1, <2>2
<1>4. to = IDLE \/ (to \in L /\ saved[to].state = "READY")
  <2>1. saved \in Table
    BY <1>3
  <2>. HIDE DEF saved
  <2>. QED  BY <2>1, NextTask
<1>5. to \in Known
  BY <1>2, <1>4 DEF Known
<1>. HIDE DEF saved, to
<1>6. ASSUME NEW q \in Known
      PROVE  /\ proc'[q] \in PROCESS
             /\ proc'[q].parent = ps[q].parent /\ proc'[q].foreground = ps[q].foreground
             /\ proc'[q].waitingPid = ps[q].waitingPid
             /\ q = to => proc'[q].state = "RUNNING"
             /\ q # to => proc'[q].state = saved[q].state
  <2>1. /\ saved[q] \in PROCESS /\ ps[q] \in PROCESS
    BY <1>2, <1>3 DEF Table
  <2>2. saved[q].parent = ps[q].parent /\ saved[q].foreground = ps[q].foreground
        /\ saved[q].waitingPid = ps[q].waitingPid
    BY <1>3, <2>1 DEF PROCESS
  <2>3. DOMAIN saved = Known
    BY <1>3 DEF Table
  <2>4. CASE q = to
    <3>1. PICK a \in Nat : proc'[q] = [saved[q] EXCEPT !.state = "RUNNING", !.acum = a]
      <4>1. proc'[q] = [saved[q] EXCEPT !.state = "RUNNING",
                                        !.acum = IF q = IDLE THEN saved[q].acum ELSE 0]
        BY <1>1, <2>3, <2>4 DEF Dispatched
      <4>2. (IF q = IDLE THEN saved[q].acum ELSE 0) \in Nat
        BY <2>1, Fields
      <4>. QED  BY <4>1, <4>2
    <3>. QED  BY <2>1, <2>2, <2>4, <3>1 DEF PROCESS
  <2>5. CASE q # to /\ q \in L /\ saved[q].state = "READY"
    <3>1. PICK a \in Nat : proc'[q] = [saved[q] EXCEPT !.acum = a]
      <4>1. proc'[q] = [saved[q] EXCEPT !.acum = saved[q].acum + saved[q].priority + 1]
        BY <1>1, <2>3, <2>5 DEF Dispatched
      <4>2. saved[q].acum + saved[q].priority + 1 \in Nat
        BY <2>1, Fields
      <4>. QED  BY <4>1, <4>2
    <3>. QED  BY <2>1, <2>2, <2>5, <3>1 DEF PROCESS
  <2>6. CASE q # to /\ ~(q \in L /\ saved[q].state = "READY")
    <3>1. proc'[q] = saved[q]
      BY <1>1, <2>3, <2>6 DEF Dispatched
    <3>. QED  BY <2>1, <2>2, <2>6, <3>1
  <2>. QED  BY <2>4, <2>5, <2>6
<1>7. proc' \in Table
  <2>1. DOMAIN saved = Known
    BY <1>3 DEF Table
  <2>2. proc' = [q \in Known |-> proc'[q]]
    BY <1>1, <2>1 DEF Dispatched
  <2>. QED  BY <1>6, <2>2 DEF Table
<1>8. Families(proc', np)
  BY <1>2, <1>6 DEF Sound, Families
<1>9. ASSUME NEW s \in Shell, proc'[s].waitingPid # 0
      PROVE  /\ proc'[s].state = "BLOCKED" /\ proc'[s].waitingPid \in L
             /\ proc'[proc'[s].waitingPid].parent = s /\ proc'[proc'[s].waitingPid].foreground
  <2>1. s \in Known /\ s # IDLE
    BY <1>2, Pids
  <2>2. /\ ps[s].state = "BLOCKED" /\ ps[s].waitingPid \in L
        /\ ps[ps[s].waitingPid].parent = s /\ ps[ps[s].waitingPid].foreground
    BY <1>6, <1>9, <2>1 DEF Sound, Waits
  <2>3. saved[s] = ps[s]
    BY <1>3, <2>1, <2>2
  <2>4. s # to
    BY <1>4, <2>1, <2>2, <2>3
  <2>5. ps[s].waitingPid \in Known
    BY <1>2, <2>2
  <2>. HIDE DEF L
  <2>. QED  BY <1>6, <2>1, <2>2, <2>3, <2>4, <2>5
<1>10. Unwatched(proc', D)
  BY <1>2, <1>6, Pids DEF Sound, Unwatched
<1>11. Alone(proc', L, to)
  BY <1>2, <1>3, <1>6 DEF Alone
<1>12. DOMAIN ctx' = Known /\ \A p \in Known : ctx'[p] \in Context(p)
  <2>1. CASE actualKilled
    BY <1>1, <2>1 DEF ProcTyped
  <2>2. CASE ~actualKilled
    <3>1. ctx' = [ctx EXCEPT ![CurrentPID] = at]
      BY <1>1, <1>2, <2>2
    <3>. QED  BY <3>1, <1>2 DEF ProcTyped
  <2>. QED  BY <2>1, <2>2
<1>13. iflag' \in BOOLEAN
  BY <1>1, <1>5, <1>12 DEF Context
<1>14. Sound(proc', L, np, CurrentPID', D)
  BY <1>1, <1>7, <1>8, <1>9, <1>10, <1>11 DEF Sound, Waits
<1>15. to = IDLE \/ (to \in L /\ proc'[to].state = "RUNNING")
  BY <1>4, <1>5, <1>6
<1>16. ASSUME NEW q \in Pid, ps[q].state = "RUNNING", q = CurrentPID => actualKilled
       PROVE  proc'[q].state = "RUNNING" /\ q # to
  <2>1. q \in Known /\ q # IDLE /\ saved[q] = ps[q]
    BY <1>2, <1>3, <1>16
  <2>2. q # to
    BY <1>4, <1>16, <2>1
  <2>. QED  BY <1>6, <1>16, <2>1, <2>2
<1>. QED  BY <1>1, <1>12, <1>13, <1>14, <1>15, <1>16

-----------------------------------------------------------------------------
(***************************************************************************)
(* The invariant.                                                          *)
(***************************************************************************)

\* The pids that a kill is about are commands that have been given out.
LEMMA DoomedFacts ==
  ASSUME IInv
  PROVE  /\ Doomed \subseteq Pid \ Shell /\ 0 \notin Doomed /\ nextPID \notin Doomed
         /\ \A p \in Doomed : p < nextPID
<1>1. \A c \in Known : \A i \in 1 .. Len(kills[c]) : kills[c][i] \in Call
  BY DEF IInv, ProcTyped
<1>2. \A c \in Known : \A i \in 1 .. Len(kills[c]) :
        kills[c][i].pid \in Pid \ Shell /\ kills[c][i].pid < nextPID
  BY <1>1 DEF IInv, CallsSound, Call
<1>. QED  BY <1>2, Pids DEF Doomed, IInv, ProcTyped

\* Whose code the current process runs.
LEMMA Whereabouts ==
  ASSUME IInv
  PROVE  /\ \A p \in {"loop", "read", "after", "sti"} : At(p) => CurrentPID \in Shell
         /\ \A p \in {"start", "run", "sleep"} : At(p) => CurrentPID \in Pid \ Shell
         /\ \A p \in Known : DOMAIN ctx = Known /\ ctx[p] \in Context(p)
         /\ \A p : At(p) => kills[CurrentPID] = <<>>
<1>1. CurrentPID \in Known /\ ctx[CurrentPID] \in Context(CurrentPID)
  BY DEF IInv, ProcTyped
<1>2. ctx[CurrentPID].pc \in PointsOf(CurrentPID)
  BY <1>1 DEF Context
<1>. QED  BY <1>1, <1>2 DEF At, PointsOf, Known, IInv, ProcTyped

\* What the initial list of processes is.
LEMMA InitList ==
  ASSUME Init
  PROVE  \E n \in Pid : /\ Shell = 1 .. n /\ ready = 1 /\ nextPID = n + 1 /\ Linked = Shell
                        /\ Chain(ready, next, List) /\ Len(List) = n
                        /\ \A p \in Pid : next[p] = IF p < n THEN p + 1 ELSE Nil
<1>1. PICK n \in Pid : Shell = 1 .. n
  BY ProcessAssumption
<1>2. n \in Nat /\ n > 0 /\ n <= MaxPid /\ MaxPid \in Nat
  BY Pids
<1>. DEFINE l == [i \in 1 .. n |-> i]
<1>3. ready = 1 /\ nextPID = n + 1
  <2>1. \A s \in Shell : (\A t \in Shell : s <= t) => s = 1
    BY <1>1, <1>2
  <2>2. 1 \in Shell /\ \A t \in Shell : 1 <= t
    BY <1>1, <1>2
  <2>3. \A s \in Shell : (\A t \in Shell : t <= s) => s = n
    BY <1>1, <1>2
  <2>4. n \in Shell /\ \A t \in Shell : t <= n
    BY <1>1, <1>2
  <2>5. (CHOOSE s \in Shell : \A t \in Shell : s <= t) = 1
    BY <2>1, <2>2
  <2>6. (CHOOSE s \in Shell : \A t \in Shell : t <= s) = n
    BY <2>3, <2>4
  <2>7. ready = 1
    BY <2>5 DEF Init
  <2>8. nextPID = 1 + n
    <3>1. nextPID = 1 + CHOOSE s \in Shell : \A t \in Shell : t <= s
      BY DEF Init
    <3>. QED  BY <2>6, <3>1
  <2>. QED  BY <1>2, <2>7, <2>8
<1>4. \A p \in Pid : next[p] = IF p < n THEN p + 1 ELSE Nil
  <2>1. \A p \in Pid : (p \in Shell /\ p + 1 \in Shell) <=> p < n
    BY <1>1, <1>2, Pids
  <2>. QED  BY <2>1 DEF Init
<1>5. l \in Seq(Pid) /\ Len(l) = n /\ \A i \in 1 .. n : l[i] = i /\ i \in Pid
  BY <1>2 DEF Pid
<1>6. Chain(ready, next, l)
  <2>1. l # <<>> /\ l[1] = 1
    BY <1>2, <1>5
  <2>2. \A i \in 1 .. n : next[l[i]] = IF i < n THEN l[i + 1] ELSE Nil
    BY <1>2, <1>4, <1>5
  <2>. HIDE DEF l
  <2>. QED  BY <1>3, <1>5, <2>1, <2>2 DEF Chain
<1>7. Nodes(l) = Shell
  <2>. HIDE DEF l
  <2>. QED  BY <1>1, <1>5 DEF Nodes
<1>. HIDE DEF l
<1>8. List = l /\ Linked = Shell
  <2>1. ListFrom(ready, next) = l
    BY <1>2, <1>5, <1>6, ListIs
  <2>. QED  BY <1>7, <2>1 DEF List, Linked
<1>. QED  BY <1>1, <1>3, <1>4, <1>5, <1>6, <1>8

\* The initial states.
LEMMA InitInv ==
  ASSUME Init
  PROVE  IInv
<1>1. PICK n \in Pid : /\ Shell = 1 .. n /\ ready = 1 /\ nextPID = n + 1 /\ Linked = Shell
                       /\ Chain(ready, next, List) /\ Len(List) = n
                       /\ \A p \in Pid : next[p] = IF p < n THEN p + 1 ELSE Nil
  BY InitList
<1>2. n \in Nat /\ n > 0 /\ n <= MaxPid /\ MaxPid \in Nat
  BY Pids
<1>3. Listed
  <2>1. \A p \in Shell : p < nextPID
    BY <1>1, <1>2
  <2>. QED  BY <1>1, <1>2, <2>1 DEF Listed
<1>4. ProcTyped
  <2>1. ready \in Node /\ next \in [Pid -> Node]
    <3>1. 1 \in Pid /\ \A p \in Pid : p < n => p + 1 \in Pid /\ p \in Nat
      BY <1>2 DEF Pid
    <3>2. next = [p \in Pid |-> next[p]]
      BY DEF Init
    <3>. QED  BY <1>1, <1>2, <3>1, <3>2 DEF Node
  <2>2. nextPID \in 1 .. MaxPid + 1 /\ CurrentPID \in Known /\ CurrentPID < nextPID
    BY <1>1, <1>2 DEF Init, Known, IDLE
  <2>3. kills \in [Known -> Seq(Call)]
    <3>1. <<>> \in Seq(Call)
      OBVIOUS
    <3>. QED  BY <3>1 DEF Init, Known
  <2>4. DOMAIN ctx = Known /\ \A p \in Known : ctx[p] \in Context(p)
    BY DEF Init, Known, Context, PointsOf
  <2>. QED  BY <2>1, <2>2, <2>3, <2>4 DEF ProcTyped, Init
<1>5. /\ proc \in Table
       /\ \A p \in Pid : proc[p].state = "BLOCKED" /\ proc[p].waitingPid = 0 /\ proc[p].parent = IDLE
  <2>1. \A p \in Known : proc[p] \in PROCESS
    BY DEF Init, Known, PROCESS, IDLE
  <2>2. proc \in Table
    BY <2>1 DEF Init, Known, Table
  <2>3. \A p \in Pid : p \in Known /\ p # IDLE
    BY Pids DEF Known
  <2>. QED  BY <2>2, <2>3 DEF Init, Known
<1>6. \A c \in Known : kills[c] = <<>>
  BY DEF Init, Known
<1>7. Doomed = {}
  BY <1>6 DEF Doomed
<1>8. Sound(proc, Linked, nextPID, CurrentPID, Doomed)
  BY <1>1, <1>5, <1>7, Pids DEF Sound, Families, Waits, Unwatched, Alone
<1>9. Right /\ CallsSound /\ SelfKilled /\ DeadCurrent
  <2>1. Right /\ DeadCurrent
    BY DEF Right, DeadCurrent, Init
  <2>2. CallsSound
    BY <1>6 DEF CallsSound
  <2>3. SelfKilled
    BY <1>6 DEF SelfKilled, Known
  <2>. QED  BY <2>1, <2>2, <2>3
<1>. QED  BY <1>3, <1>4, <1>8, <1>9 DEF IInv

\* A step that leaves the list and the kills alone, and eases the table.
LEMMA LocalStep ==
  ASSUME IInv, UNCHANGED <<ready, next, CurrentPID, actualKilled, nextPID, kills>>,
         Eased(proc, proc'), iflag' \in BOOLEAN, iflag' = iflag \/ kills[CurrentPID] = <<>>,
         DOMAIN ctx' = Known, \A p \in Known : ctx'[p] \in Context(p)
  PROVE  IInv'
<1>1. Linked' = Linked /\ List' = List
  BY DEF Linked, List
<1>2. Doomed' = Doomed
  BY DEF Doomed
<1>3. ProcTyped' /\ Listed'
  BY <1>1 DEF IInv, ProcTyped, Listed
<1>4. Linked \in SUBSET Pid /\ 0 \notin Doomed
  BY ListFacts, DoomedFacts DEF IInv
<1>5. Sound(proc', Linked, nextPID, CurrentPID, Doomed)
  BY <1>4, SoundEased DEF IInv
<1>6. Right'
  <2>1. CurrentPID \in Known /\ proc[CurrentPID].state = "RUNNING" => proc'[CurrentPID].state = "RUNNING"
    BY DEF Eased, IInv, ProcTyped
  <2>. QED  BY <1>1, <2>1 DEF IInv, ProcTyped, Right
<1>7. CallsSound' /\ SelfKilled'
  <2>1. \A c \in Pid : proc[c].state = "RUNNING" => proc'[c].state = "RUNNING"
    BY DEF Eased, Known
  <2>2. SelfKilled'
    BY <1>1, <2>1 DEF IInv, SelfKilled
  <2>. QED  BY <1>1, <2>2 DEF IInv, CallsSound
<1>8. DeadCurrent'
  BY <1>1 DEF IInv, DeadCurrent
<1>. QED  BY <1>1, <1>2, <1>3, <1>5, <1>6, <1>7, <1>8 DEF IInv

\* The code of a process, and code with interrupts enabled, is not run by a process
\* that is still to be unlinked.
LEMMA Undead ==
  ASSUME IInv, kills[CurrentPID] = <<>> \/ (iflag /\ ~Mixed)
  PROVE  /\ actualKilled => CurrentPID \notin Linked
         /\ CurrentPID \in Shell => ~actualKilled
BY DEF IInv, DeadCurrent, Listed

\* After a switch the invariant holds, if a new process has been linked or not.
LEMMA SwitchInv ==
  ASSUME IInv, iflag \/ kills[CurrentPID] = <<>>, UNCHANGED kills,
         \A c \in Pid \ Shell : kills[c] # <<>> /\ c \in Linked =>
           proc'[c].state = "RUNNING" /\ c # CurrentPID',
         ready' \in Node, next' \in [Pid -> Node], nextPID' \in 1 .. MaxPid + 1,
         Listed', nextPID' >= nextPID, Linked' \subseteq Linked \cup {nextPID},
         Sound(proc', Linked', nextPID', CurrentPID', Doomed),
         \/ CurrentPID' = IDLE
         \/ CurrentPID' \in Linked' /\ proc'[CurrentPID'].state = "RUNNING",
         actualKilled' = FALSE, iflag' \in BOOLEAN,
         DOMAIN ctx' = Known, \A p \in Known : ctx'[p] \in Context(p)
  PROVE  IInv'
<1>1. Doomed' = Doomed
  BY DEF Doomed
<1>2. CurrentPID' \in Known /\ CurrentPID' < nextPID'
  <2>1. CASE CurrentPID' = IDLE
    BY <2>1, Pids DEF Known
  <2>2. CASE CurrentPID' \in Linked'
    <3>1. Linked' \subseteq Pid
      <4>1. List' \in Seq(Pid)
        BY DEF Listed, Chain
      <4>. QED  BY <4>1 DEF Linked, Nodes
    <3>. QED  BY <2>2, <3>1 DEF Known, Listed
  <2>. QED  BY <2>1, <2>2
<1>3. ProcTyped'
  BY <1>2 DEF IInv, ProcTyped
<1>4. Right'
  BY DEF Right
<1>5. CallsSound'
  <2>1. ASSUME NEW c \in Known, NEW i \in 1 .. Len(kills[c])
        PROVE  /\ kills[c][i].pid < nextPID'
               /\ kills[c][i].over => kills[c][i].pid \notin Linked'
    <3>1. kills[c][i].pid < nextPID /\ (kills[c][i].over => kills[c][i].pid \notin Linked)
      BY DEF IInv, CallsSound
    <3>2. kills[c][i] \in Call
      BY DEF IInv, ProcTyped
    <3>3. kills[c][i].pid \in Pid
      BY <3>2 DEF Call
    <3>4. kills[c][i].pid < nextPID' /\ kills[c][i].pid # nextPID
      BY <3>1, <3>3, Pids DEF IInv, ProcTyped
    <3>. QED  BY <3>1, <3>4
  <2>. QED  BY <2>1 DEF IInv, CallsSound
<1>6. SelfKilled'
  <2>1. SUFFICES ASSUME NEW c \in Pid \ Shell, kills[c] # <<>>, c \in Linked'
                 PROVE  proc'[c].state = "RUNNING" /\ c # CurrentPID' /\ Mixed
    BY DEF SelfKilled
  <2>2. c \in Known /\ 1 \in 1 .. Len(kills[c])
    BY <2>1 DEF Known, IInv, ProcTyped
  <2>3. kills[c][1].pid = c /\ kills[c][1].pid < nextPID
    BY <2>1, <2>2 DEF IInv, CallsSound
  <2>4. c \in Linked
    BY <2>1, <2>3, Pids DEF IInv, ProcTyped
  <2>5. Mixed
    <3>1. SUFFICES ASSUME ~Mixed PROVE FALSE
      OBVIOUS
    <3>2. c = CurrentPID /\ actualKilled
      BY <2>1, <2>4, <3>1 DEF IInv, SelfKilled
    <3>. QED  BY <2>4, <3>1, <3>2, Undead
  <2>. QED  BY <2>1, <2>4, <2>5
<1>7. DeadCurrent'
  BY DEF DeadCurrent
<1>. QED  BY <1>1, <1>3, <1>4, <1>5, <1>6, <1>7 DEF IInv

-----------------------------------------------------------------------------
(***************************************************************************)
(* The steps.                                                              *)
(***************************************************************************)

\* GoTo moves the current process to a point of its own.
LEMMA GoToTyped ==
  ASSUME IInv, NEW point \in PointsOf(CurrentPID),
         ctx' = [ctx EXCEPT ![CurrentPID].pc = point]
  PROVE  DOMAIN ctx' = Known /\ \A p \in Known : ctx'[p] \in Context(p)
<1>1. CurrentPID \in Known /\ DOMAIN ctx = Known /\ \A p \in Known : ctx[p] \in Context(p)
  BY DEF IInv, ProcTyped
<1>2. [ctx[CurrentPID] EXCEPT !.pc = point] \in Context(CurrentPID)
  BY <1>1 DEF Context
<1>3. ctx' = [ctx EXCEPT ![CurrentPID] = [ctx[CurrentPID] EXCEPT !.pc = point]]
  OBVIOUS
<1>. QED  BY <1>1, <1>2, <1>3

\* The points of a shell and of a command.
LEMMA Points ==
  /\ \A p \in Shell : PointsOf(p) = {"loop", "read", "after", "sti"}
  /\ \A p \in Pid \ Shell : PointsOf(p) = {"start", "run", "sleep", "dead"}
BY Pids DEF PointsOf

\* The top of the loop of a shell.
LEMMA ShellCliInv ==
  ASSUME IInv, ShellCli
  PROVE  IInv'
<1>1. CurrentPID \in Shell /\ kills[CurrentPID] = <<>>
  BY Whereabouts DEF ShellCli
<1>2. DOMAIN ctx' = Known /\ \A p \in Known : ctx'[p] \in Context(p)
  BY <1>1, Points, GoToTyped DEF ShellCli, GoTo
<1>3. Eased(proc, proc') /\ iflag' \in BOOLEAN
  BY EasedSelf DEF ShellCli, GoTo, IInv, Sound
<1>. QED  BY <1>1, <1>2, <1>3, LocalStep DEF ShellCli

\* A command that the shell runs itself.
LEMMA ShellBuiltinInv ==
  ASSUME IInv, ShellBuiltin
  PROVE  IInv'
<1>1. CurrentPID \in Shell /\ kills[CurrentPID] = <<>>
  BY Whereabouts DEF ShellBuiltin
<1>2. DOMAIN ctx' = Known /\ \A p \in Known : ctx'[p] \in Context(p)
  BY <1>1, Points, GoToTyped DEF ShellBuiltin, GoTo
<1>3. Eased(proc, proc') /\ iflag' \in BOOLEAN
  BY EasedSelf DEF ShellBuiltin, GoTo, IInv, Sound, ProcTyped
<1>. QED  BY <1>1, <1>2, <1>3, LocalStep DEF ShellBuiltin

\* The end of the loop.
LEMMA ShellStiInv ==
  ASSUME IInv, ShellSti
  PROVE  IInv'
<1>1. CurrentPID \in Shell /\ kills[CurrentPID] = <<>>
  BY Whereabouts DEF ShellSti
<1>2. DOMAIN ctx' = Known /\ \A p \in Known : ctx'[p] \in Context(p)
  BY <1>1, Points, GoToTyped DEF ShellSti, GoTo
<1>3. Eased(proc, proc') /\ iflag' \in BOOLEAN
  BY EasedSelf DEF ShellSti, GoTo, IInv, Sound
<1>. QED  BY <1>1, <1>2, <1>3, LocalStep DEF ShellSti

\* The start of a command.
LEMMA CommandStiInv ==
  ASSUME IInv, CommandSti
  PROVE  IInv'
<1>1. CurrentPID \in Pid \ Shell /\ kills[CurrentPID] = <<>>
  BY Whereabouts DEF CommandSti
<1>2. DOMAIN ctx' = Known /\ \A p \in Known : ctx'[p] \in Context(p)
  BY <1>1, Points, GoToTyped DEF CommandSti, GoTo
<1>3. Eased(proc, proc') /\ iflag' \in BOOLEAN
  BY EasedSelf DEF CommandSti, GoTo, IInv, Sound
<1>. QED  BY <1>1, <1>2, <1>3, LocalStep DEF CommandSti

\* The alarm of a sleep.
LEMMA SleepInv ==
  ASSUME IInv, Sleep
  PROVE  IInv'
<1>1. CurrentPID \in Pid \ Shell /\ kills[CurrentPID] = <<>>
  BY Whereabouts DEF Sleep
<1>2. DOMAIN ctx' = Known /\ \A p \in Known : ctx'[p] \in Context(p)
  BY <1>1, Points, GoToTyped DEF Sleep, GoTo
<1>. DEFINE p == GetProcessByPID(CurrentPID)
<1>3. p \in Known /\ proc \in Table /\ SLEEP \in Nat
  BY Process, Pids DEF IInv, Sound
<1>4. Eased(proc, proc')
  <2>. HIDE DEF p
  <2>1. proc' = [proc EXCEPT ![p].sleep = SLEEP]
    BY DEF Sleep, p
  <2>2. proc[p] \in PROCESS
    BY <1>3 DEF Table
  <2>3. [proc[p] EXCEPT !.sleep = SLEEP] \in PROCESS
    BY <1>3, <2>2, Updated
  <2>4. proc' \in Table
    BY <1>3, <2>1, <2>3 DEF Table
  <2>5. \A q \in Known : proc'[q] = IF q = p THEN [proc[p] EXCEPT !.sleep = SLEEP] ELSE proc[q]
    BY <1>3, <2>1 DEF Table
  <2>. QED  BY <2>2, <2>4, <2>5 DEF Eased, PROCESS
<1>5. iflag' \in BOOLEAN
  BY DEF Sleep, GoTo, IInv, ProcTyped
<1>. QED  BY <1>1, <1>2, <1>4, <1>5, LocalStep DEF Sleep

\* Enter, which awakes a shell that waits for nothing.
LEMMA EnterInv ==
  ASSUME IInv, NEW s \in Shell, Enter(s)
  PROVE  IInv'
<1>1. Eased(proc, proc')
  BY AwakeEases DEF Enter, IInv, Sound
<1>2. DOMAIN ctx' = Known /\ \A p \in Known : ctx'[p] \in Context(p)
  BY DEF Enter, IInv, ProcTyped
<1>3. iflag' = iflag /\ iflag' \in BOOLEAN
  BY DEF Enter, IInv, ProcTyped
<1>. QED  BY <1>1, <1>2, <1>3, LocalStep DEF Enter

\* A tick, with the alarms and the switch at the end of a slot.
LEMMA TickInv ==
  ASSUME IInv, Tick
  PROVE  IInv'
<1>1. Eased(proc, Alarms(proc))
  BY AlarmsEase DEF IInv, Sound
<1>2. CASE timeslot > 1
  <2>1. proc' = Alarms(proc) /\ UNCHANGED <<CurrentPID, ctx, iflag, actualKilled>>
    BY <1>2 DEF Tick
  <2>2. iflag' \in BOOLEAN /\ DOMAIN ctx' = Known /\ \A p \in Known : ctx'[p] \in Context(p)
    BY <2>1 DEF IInv, ProcTyped
  <2>. QED  BY <1>1, <2>1, <2>2, LocalStep DEF Tick
<1>3. CASE ~(timeslot > 1)
  <2>. DEFINE at == [ctx[CurrentPID] EXCEPT !.if = TRUE]
  <2>1. Switch(Alarms(proc), at, List) /\ iflag /\ UNCHANGED <<ready, next, nextPID, kills>>
    BY <1>3 DEF Tick
  <2>2. at \in Context(CurrentPID)
    BY DEF IInv, ProcTyped, Context
  <2>. HIDE DEF at
  <2>3. List \in Seq(Pid) /\ Linked = Nodes(List) /\ Linked \in SUBSET Pid /\ 0 \notin Doomed
    BY ListFacts, DoomedFacts DEF IInv
  <2>4. Sound(Alarms(proc), Linked, nextPID, CurrentPID, Doomed)
    BY <1>1, <2>3, SoundEased DEF IInv
  <2>5. ~Mixed /\ actualKilled => CurrentPID \notin Nodes(List)
    BY <2>1, <2>3, Undead
  <2>6. /\ Sound(proc', Linked, nextPID, CurrentPID', Doomed)
        /\ \A q \in Pid : /\ Alarms(proc)[q].state = "RUNNING"
                          /\ q = CurrentPID => actualKilled
                          => proc'[q].state = "RUNNING" /\ q # CurrentPID'
        /\ \/ CurrentPID' = IDLE
           \/ CurrentPID' \in Linked /\ proc'[CurrentPID'].state = "RUNNING"
        /\ actualKilled' = FALSE /\ iflag' \in BOOLEAN
        /\ DOMAIN ctx' = Known /\ \A p \in Known : ctx'[p] \in Context(p)
    BY <2>1, <2>2, <2>3, <2>4, <2>5, SwitchStep DEF IInv
  <2>7. Linked' = Linked /\ List' = List
    BY <2>1 DEF Linked, List
  <2>8. ready' \in Node /\ next' \in [Pid -> Node] /\ nextPID' \in 1 .. MaxPid + 1 /\ nextPID' >= nextPID
    BY <2>1 DEF IInv, ProcTyped
  <2>9. Listed'
    BY <2>1, <2>7 DEF IInv, Listed
  <2>10. ASSUME NEW c \in Pid \ Shell, kills[c] # <<>>, c \in Linked
         PROVE  proc'[c].state = "RUNNING" /\ c # CurrentPID'
    <3>1. proc[c].state = "RUNNING" /\ (c = CurrentPID => actualKilled)
      BY <2>10 DEF IInv, SelfKilled
    <3>2. Alarms(proc)[c].state = "RUNNING"
      BY <1>1, <3>1 DEF Eased, Known
    <3>. QED  BY <2>6, <3>1, <3>2
  <2>. QED  BY <2>1, <2>6, <2>7, <2>8, <2>9, <2>10, SwitchInv
<1>. QED  BY <1>2, <1>3

\* The current process blocks: what matters is the table once it is marked BLOCKED.
LEMMA BlockStep ==
  ASSUME IInv, kills[CurrentPID] = <<>>, NEW ps, NEW l \in Seq(Pid), NEW np,
         NEW point \in PointsOf(CurrentPID), Block(ps, point, l),
         Sound(IF InList(CurrentPID) THEN [ps EXCEPT ![CurrentPID].state = "BLOCKED"] ELSE ps,
               Nodes(l), np, CurrentPID, Doomed),
         Nodes(l) \subseteq Linked \cup {nextPID}
  PROVE  /\ Sound(proc', Nodes(l), np, CurrentPID', Doomed)
         /\ \A q \in Pid : ps[q].state = "RUNNING" /\ q # CurrentPID
                            => proc'[q].state = "RUNNING" /\ q # CurrentPID'
         /\ \/ CurrentPID' = IDLE
            \/ CurrentPID' \in Nodes(l) /\ proc'[CurrentPID'].state = "RUNNING"
         /\ actualKilled' = FALSE /\ iflag' \in BOOLEAN
         /\ DOMAIN ctx' = Known /\ \A p \in Known : ctx'[p] \in Context(p)
<1>. DEFINE blocked == IF InList(CurrentPID) THEN [ps EXCEPT ![CurrentPID].state = "BLOCKED"] ELSE ps
            at == [pc |-> point, if |-> iflag]
<1>1. Switch(Alarms(blocked), at, l)
  BY DEF Block
<1>2. at \in Context(CurrentPID)
  BY DEF Context, IInv, ProcTyped
<1>. HIDE DEF blocked, at
<1>3. Sound(blocked, Nodes(l), np, CurrentPID, Doomed)
  BY DEF blocked
<1>4. Nodes(l) \in SUBSET Pid /\ 0 \notin Doomed
  BY DoomedFacts DEF Nodes
<1>5. Eased(blocked, Alarms(blocked))
  BY <1>3, AlarmsEase DEF Sound
<1>6. Sound(Alarms(blocked), Nodes(l), np, CurrentPID, Doomed)
  BY <1>3, <1>4, <1>5, SoundEased
<1>7. actualKilled => CurrentPID \notin Nodes(l)
  <2>1. actualKilled => CurrentPID \notin Linked
    BY Undead
  <2>2. CurrentPID # nextPID
    BY Pids DEF IInv, ProcTyped, Known
  <2>. QED  BY <2>1, <2>2
<1>8. /\ Sound(proc', Nodes(l), np, CurrentPID', Doomed)
      /\ \A q \in Pid : /\ Alarms(blocked)[q].state = "RUNNING"
                        /\ q = CurrentPID => actualKilled
                        => proc'[q].state = "RUNNING" /\ q # CurrentPID'
      /\ \/ CurrentPID' = IDLE
         \/ CurrentPID' \in Nodes(l) /\ proc'[CurrentPID'].state = "RUNNING"
      /\ actualKilled' = FALSE /\ iflag' \in BOOLEAN
      /\ DOMAIN ctx' = Known /\ \A p \in Known : ctx'[p] \in Context(p)
  BY <1>1, <1>2, <1>6, <1>7, SwitchStep DEF IInv
<1>9. ASSUME NEW q \in Pid, ps[q].state = "RUNNING", q # CurrentPID
      PROVE  proc'[q].state = "RUNNING" /\ q # CurrentPID'
  <2>1. blocked[q] = ps[q]
    BY <1>9 DEF blocked
  <2>2. Alarms(blocked)[q].state = "RUNNING"
    BY <1>5, <1>9, <2>1 DEF Eased, Known
  <2>. QED  BY <1>8, <1>9, <2>2
<1>. QED  BY <1>8, <1>9

\* A process that blocks without starting to wait.
LEMMA BlocksInv ==
  ASSUME IInv, kills[CurrentPID] = <<>>, NEW point \in PointsOf(CurrentPID),
         Block(proc, point, List), UNCHANGED <<ready, next, nextPID, kills>>
  PROVE  IInv'
<1>1. /\ List \in Seq(Pid) /\ Linked = Nodes(List) /\ Linked \in SUBSET Pid
      /\ Sound(proc, Linked, nextPID, CurrentPID, Doomed) /\ CurrentPID \in Known
  BY ListFacts DEF IInv, ProcTyped
<1>2. Sound(IF InList(CurrentPID) THEN [proc EXCEPT ![CurrentPID].state = "BLOCKED"] ELSE proc,
            Nodes(List), nextPID, CurrentPID, Doomed)
  <2>1. Sound([proc EXCEPT ![CurrentPID].state = "BLOCKED"], Linked, nextPID, CurrentPID, Doomed)
    BY <1>1, SoundBlocked
  <2>. QED  BY <1>1, <2>1
<1>3. /\ Sound(proc', Linked, nextPID, CurrentPID', Doomed)
      /\ \A q \in Pid : proc[q].state = "RUNNING" /\ q # CurrentPID
                         => proc'[q].state = "RUNNING" /\ q # CurrentPID'
      /\ \/ CurrentPID' = IDLE
         \/ CurrentPID' \in Linked /\ proc'[CurrentPID'].state = "RUNNING"
      /\ actualKilled' = FALSE /\ iflag' \in BOOLEAN
      /\ DOMAIN ctx' = Known /\ \A p \in Known : ctx'[p] \in Context(p)
  BY <1>1, <1>2, BlockStep
<1>4. Linked' = Linked /\ List' = List
  BY DEF Linked, List
<1>5. ready' \in Node /\ next' \in [Pid -> Node] /\ nextPID' \in 1 .. MaxPid + 1 /\ nextPID' >= nextPID
  BY DEF IInv, ProcTyped
<1>6. Listed'
  BY <1>4 DEF IInv, Listed
<1>7. \A c \in Pid \ Shell : kills[c] # <<>> /\ c \in Linked =>
        proc'[c].state = "RUNNING" /\ c # CurrentPID'
  BY <1>3 DEF IInv, SelfKilled
<1>. QED  BY <1>3, <1>4, <1>5, <1>6, <1>7, SwitchInv

\* A shell without a command line.
LEMMA ShellBlockInv ==
  ASSUME IInv, ShellBlock
  PROVE  IInv'
<1>1. CurrentPID \in Shell /\ kills[CurrentPID] = <<>>
  BY Whereabouts DEF ShellBlock
<1>2. "sti" \in PointsOf(CurrentPID)
  BY <1>1, Points
<1>. QED  BY <1>1, <1>2, BlocksInv DEF ShellBlock

\* The second half of a sleep.
LEMMA SleepBlocksInv ==
  ASSUME IInv, SleepBlocks
  PROVE  IInv'
<1>1. CurrentPID \in Pid \ Shell /\ kills[CurrentPID] = <<>>
  BY Whereabouts DEF SleepBlocks
<1>2. "run" \in PointsOf(CurrentPID)
  BY <1>1, Points
<1>. QED  BY <1>1, <1>2, BlocksInv DEF SleepBlocks

\* A shell that waits for its foreground child p and blocks.
LEMMA SoundWaiting ==
  ASSUME NEW ps, NEW L \in SUBSET Pid, NEW np, NEW cur, NEW D, NEW s \in Shell, NEW p \in L,
         Sound(ps, L, np, cur, D), p \notin D, ps[p].parent = s, ps[p].foreground
  PROVE  Sound([[ps EXCEPT ![s].waitingPid = p] EXCEPT ![s].state = "BLOCKED"],
               L, np, cur, D)
<1>. DEFINE qs == [[ps EXCEPT ![s].waitingPid = p] EXCEPT ![s].state = "BLOCKED"]
            r == [[ps[s] EXCEPT !.waitingPid = p] EXCEPT !.state = "BLOCKED"]
<1>1. ps \in Table /\ s \in Known /\ p \in Int /\ p \in Known /\ \A q \in Pid : q \in Known
  BY Pids DEF Sound, Known
<1>2. ps[s] \in PROCESS
  BY <1>1 DEF Table
<1>3. /\ r \in PROCESS /\ r.parent = ps[s].parent /\ r.foreground = ps[s].foreground
      /\ r.waitingPid = p /\ r.state = "BLOCKED"
  BY <1>1, <1>2 DEF PROCESS
<1>4. qs = [ps EXCEPT ![s] = r]
  BY <1>1 DEF Table
<1>. HIDE DEF qs, r
<1>5. qs \in Table /\ \A q \in Known : qs[q] = IF q = s THEN r ELSE ps[q]
  BY <1>1, <1>3, <1>4 DEF Table
<1>6. \A q \in Known : qs[q].parent = ps[q].parent /\ qs[q].foreground = ps[q].foreground
  BY <1>3, <1>5
<1>7. Families(qs, np)
  BY <1>1, <1>6 DEF Sound, Families
<1>8. ASSUME NEW t \in Shell, qs[t].waitingPid # 0
      PROVE  /\ qs[t].state = "BLOCKED" /\ qs[t].waitingPid \in L
             /\ qs[qs[t].waitingPid].parent = t /\ qs[qs[t].waitingPid].foreground
  <2>1. CASE t = s
    BY <1>1, <1>3, <1>5, <1>6, <2>1
  <2>2. CASE t # s
    <3>1. t \in Known /\ qs[t] = ps[t]
      BY <1>1, <1>5, <2>2, Pids
    <3>2. /\ ps[t].state = "BLOCKED" /\ ps[t].waitingPid \in L
          /\ ps[ps[t].waitingPid].parent = t /\ ps[ps[t].waitingPid].foreground
      BY <1>8, <3>1 DEF Sound, Waits
    <3>3. ps[t].waitingPid \in Known
      BY <1>1, <3>2
    <3>. QED  BY <1>6, <3>1, <3>2, <3>3
  <2>. QED  BY <2>1, <2>2
<1>9. Unwatched(qs, D)
  BY <1>1, <1>3, <1>5, Pids DEF Sound, Unwatched
<1>10. Alone(qs, L, cur)
  BY <1>1, <1>3, <1>5 DEF Sound, Alone
<1>11. Sound(qs, L, np, cur, D)
  BY <1>5, <1>7, <1>8, <1>9, <1>10 DEF Sound, Waits
<1>. QED  BY <1>11 DEF qs

\* A new process, without a switch.
LEMMA LinkInv ==
  ASSUME IInv, kills[CurrentPID] = <<>>, nextPID <= MaxPid, Link(nextPID), nextPID' = nextPID + 1,
         NEW prio \in Nat, NEW isFront \in BOOLEAN,
         Uses("ctrlc") /\ ~Mixed => CurrentPID \in Shell,
         proc' = [proc EXCEPT ![nextPID] = NewProcess(prio, isFront)],
         UNCHANGED <<CurrentPID, actualKilled, kills>>, iflag' \in BOOLEAN,
         DOMAIN ctx' = Known, \A p \in Known : ctx'[p] \in Context(p)
  PROVE  IInv'
<1>1. /\ ready' \in Node /\ next' \in [Pid -> Node] /\ nextPID \in Pid
      /\ nextPID' \in 1 .. MaxPid + 1 /\ Listed' /\ Linked' = Linked \cup {nextPID}
  BY LinkStep DEF IInv
<1>2. /\ Linked \in SUBSET Pid /\ nextPID \notin Linked /\ Shell \subseteq Linked
      /\ nextPID \notin Doomed /\ 0 \notin Doomed /\ nextPID \in Nat
      /\ CurrentPID \in Known /\ CurrentPID < nextPID
  BY ListFacts, DoomedFacts DEF IInv, Listed, ProcTyped
<1>3. Doomed' = Doomed
  BY DEF Doomed
<1>4. Sound(proc', Linked', nextPID', CurrentPID', Doomed')
  <2>1. ProcTyped /\ Sound(proc, Linked, nextPID, CurrentPID, Doomed)
    BY DEF IInv
  <2>2. Sound([proc EXCEPT ![nextPID] = NewProcess(prio, isFront)], Linked \cup {nextPID},
              nextPID + 1, CurrentPID, Doomed)
    BY <1>1, <1>2, <2>1, SoundNew
  <2>. QED  BY <1>1, <1>3, <2>2
<1>5. CurrentPID # nextPID
  BY <1>2, Pids DEF Known
<1>6. ProcTyped'
  <2>1. CurrentPID < nextPID'
    BY <1>2, Pids DEF Known
  <2>. QED  BY <1>1, <2>1 DEF IInv, ProcTyped
<1>7. Right'
  <2>1. CurrentPID \in Known => proc'[CurrentPID] = proc[CurrentPID]
    BY <1>5 DEF IInv, Sound, Table
  <2>. QED  BY <1>1, <1>2, <2>1 DEF IInv, Right
<1>8. CallsSound'
  <2>1. ASSUME NEW c \in Known, NEW i \in 1 .. Len(kills[c])
        PROVE  /\ kills[c][i].pid < nextPID + 1
               /\ kills[c][i].over => kills[c][i].pid \notin Linked'
    <3>1. kills[c][i].pid < nextPID /\ (kills[c][i].over => kills[c][i].pid \notin Linked)
      BY DEF IInv, CallsSound
    <3>2. kills[c][i] \in Call
      BY DEF IInv, ProcTyped
    <3>3. kills[c][i].pid \in Pid
      BY <3>2 DEF Call
    <3>4. kills[c][i].pid < nextPID + 1 /\ kills[c][i].pid # nextPID
      BY <1>2, <3>1, <3>3, Pids
    <3>. QED  BY <1>1, <3>1, <3>4
  <2>. QED  BY <2>1 DEF IInv, CallsSound
<1>9. SelfKilled'
  <2>1. SUFFICES ASSUME NEW c \in Pid \ Shell, kills[c] # <<>>, c \in Linked'
                 PROVE  /\ proc'[c].state = "RUNNING"
                        /\ c = CurrentPID => actualKilled
                        /\ ~Mixed => c = CurrentPID
    BY DEF SelfKilled
  <2>2. c \in Known /\ 1 \in 1 .. Len(kills[c])
    BY <2>1 DEF Known, IInv, ProcTyped
  <2>3. kills[c][1].pid = c /\ kills[c][1].pid < nextPID
    BY <2>1, <2>2 DEF IInv, CallsSound
  <2>4. c \in Linked /\ c # nextPID
    BY <1>1, <2>1, <2>3, <1>2, Pids
  <2>5. proc'[c] = proc[c]
    BY <2>2, <2>4 DEF IInv, Sound, Table
  <2>. QED  BY <2>1, <2>4, <2>5 DEF IInv, SelfKilled
<1>10. DeadCurrent'
  BY <1>1, <1>5 DEF IInv, DeadCurrent
<1>. QED  BY <1>1, <1>4, <1>6, <1>7, <1>8, <1>9, <1>10 DEF IInv

\* A command starts a child.
LEMMA CommandSpawnsInv ==
  ASSUME IInv, NEW prio \in Priorities, CommandSpawns(prio)
  PROVE  IInv'
<1>1. prio \in Nat /\ TRUE \in BOOLEAN
  BY ProcessAssumption
<1>2. kills[CurrentPID] = <<>> /\ ~(Uses("ctrlc") /\ ~Mixed)
  BY Whereabouts DEF CommandSpawns, Uses, Mixed
<1>3. iflag' \in BOOLEAN /\ DOMAIN ctx' = Known /\ \A p \in Known : ctx'[p] \in Context(p)
  BY DEF CommandSpawns, IInv, ProcTyped
<1>4. /\ nextPID <= MaxPid /\ Link(nextPID) /\ nextPID' = nextPID + 1
      /\ proc' = [proc EXCEPT ![nextPID] = NewProcess(prio, TRUE)]
      /\ UNCHANGED <<CurrentPID, actualKilled, kills>>
  BY DEF CommandSpawns
<1>. QED  BY <1>1, <1>2, <1>3, <1>4, LinkInv

\* A shell starts a command, and waits for it or not.
LEMMA ShellRunsInv ==
  ASSUME IInv, NEW prio \in Priorities, NEW isFront \in BOOLEAN, ShellRuns(prio, isFront)
  PROVE  IInv'
<1>. DEFINE new == [proc EXCEPT ![nextPID] = NewProcess(prio, isFront)]
            waiting == [new EXCEPT ![CurrentPID].waitingPid = nextPID]
            l == Append(List, nextPID)
<1>1. CurrentPID \in Shell /\ kills[CurrentPID] = <<>> /\ prio \in Nat
  BY Whereabouts, ProcessAssumption DEF ShellRuns
<1>2. nextPID <= MaxPid /\ nextPID' = nextPID + 1 /\ Link(nextPID) /\ kills' = kills
  BY DEF ShellRuns
<1>3. "after" \in PointsOf(CurrentPID)
  BY <1>1, Points
<1>4. CASE ~isFront
  <2>1. proc' = new /\ GoTo("after", iflag) /\ UNCHANGED <<CurrentPID, timeslot, actualKilled>>
    BY <1>4 DEF ShellRuns
  <2>2. DOMAIN ctx' = Known /\ \A p \in Known : ctx'[p] \in Context(p)
    BY <1>3, <2>1, GoToTyped DEF GoTo
  <2>3. iflag' \in BOOLEAN
    BY <2>1 DEF GoTo, IInv, ProcTyped
  <2>. QED  BY <1>1, <1>2, <2>1, <2>2, <2>3, LinkInv
<1>5. CASE isFront
  <2>1. Block(waiting, "after", l)
    BY <1>5 DEF ShellRuns
  <2>2. /\ ready' \in Node /\ next' \in [Pid -> Node] /\ nextPID \in Pid
        /\ nextPID' \in 1 .. MaxPid + 1 /\ Listed' /\ Linked' = Linked \cup {nextPID}
        /\ Nodes(l) = Linked \cup {nextPID} /\ l \in Seq(Pid)
    BY <1>2, LinkStep DEF IInv
  <2>3. /\ Linked \in SUBSET Pid /\ nextPID \notin Linked /\ Shell \subseteq Linked
        /\ nextPID \notin Doomed /\ 0 \notin Doomed /\ nextPID \in Nat
    BY ListFacts, DoomedFacts DEF IInv, Listed, ProcTyped
  <2>4. Sound(new, Nodes(l), nextPID + 1, CurrentPID, Doomed)
    <3>1. ProcTyped /\ Sound(proc, Linked, nextPID, CurrentPID, Doomed)
      BY DEF IInv
    <3>2. Sound(new, Linked \cup {nextPID}, nextPID + 1, CurrentPID, Doomed)
      BY <1>1, <2>2, <2>3, <3>1, SoundNew
    <3>. QED  BY <2>2, <3>2
  <2>5. new[nextPID].parent = CurrentPID /\ new[nextPID].foreground
    <3>1. new[nextPID] = NewProcess(prio, isFront)
      BY <2>2 DEF IInv, Sound, Table, Known
    <3>. QED  BY <1>5, <3>1 DEF NewProcess
  <2>. HIDE DEF new, l
  <2>6. Sound([waiting EXCEPT ![CurrentPID].state = "BLOCKED"], Nodes(l), nextPID + 1, CurrentPID, Doomed)
    <3>1. Nodes(l) \in SUBSET Pid /\ nextPID \in Nodes(l)
      BY <2>2, <2>3
    <3>. QED  BY <1>1, <2>3, <2>4, <2>5, <3>1, SoundWaiting
  <2>. HIDE DEF waiting
  <2>7. InList(CurrentPID)
    BY <1>1, <2>3 DEF InList
  <2>8. Sound(IF InList(CurrentPID) THEN [waiting EXCEPT ![CurrentPID].state = "BLOCKED"] ELSE waiting,
              Nodes(l), nextPID + 1, CurrentPID, Doomed)
    BY <2>6, <2>7
  <2>9. /\ Sound(proc', Nodes(l), nextPID + 1, CurrentPID', Doomed)
        /\ \A q \in Pid : waiting[q].state = "RUNNING" /\ q # CurrentPID
                           => proc'[q].state = "RUNNING" /\ q # CurrentPID'
        /\ \/ CurrentPID' = IDLE
           \/ CurrentPID' \in Nodes(l) /\ proc'[CurrentPID'].state = "RUNNING"
        /\ actualKilled' = FALSE /\ iflag' \in BOOLEAN
        /\ DOMAIN ctx' = Known /\ \A p \in Known : ctx'[p] \in Context(p)
    BY <1>1, <1>3, <2>1, <2>2, <2>8, BlockStep
  <2>10. nextPID' >= nextPID /\ Linked' = Nodes(l) /\ nextPID' = nextPID + 1
    BY <1>2, <2>2, <2>3
  <2>11. ASSUME NEW c \in Pid \ Shell, kills[c] # <<>>, c \in Linked
         PROVE  proc'[c].state = "RUNNING" /\ c # CurrentPID'
    <3>1. proc[c].state = "RUNNING" /\ c # CurrentPID /\ c # nextPID
      BY <1>1, <2>3, <2>11 DEF IInv, SelfKilled
    <3>2. waiting[c] = proc[c]
      BY <3>1 DEF waiting, new, IInv, Sound, Table, Known
    <3>. QED  BY <2>9, <3>1, <3>2
  <2>. QED  BY <1>1, <1>2, <2>2, <2>9, <2>10, <2>11, SwitchInv
<1>. QED  BY <1>4, <1>5

\* A process that no shell waits for any more leaves the list.
LEMMA SoundUnlinked ==
  ASSUME NEW ps, NEW L, NEW np, NEW cur, NEW D, NEW p,
         Sound(ps, L, np, cur, D), Unwatched(ps, {p})
  PROVE  Sound(ps, L \ {p}, np, cur, D)
<1>1. Unwatched(ps, D \cup {p}) /\ Unwatched(ps, D)
  BY DEF Sound, Unwatched
<1>2. Sound(ps, L, np, cur, D \cup {p})
  BY <1>1, SoundDoomed
<1>3. Sound(ps, L \ {p}, np, cur, D \cup {p})
  BY <1>2, SoundWithout
<1>. QED  BY <1>1, <1>3, SoundDoomed

\* The end of a command.
LEMMA EndProcessInv ==
  ASSUME IInv, end_process
  PROVE  IInv'
<1>. DEFINE p == GetProcessByPID(CurrentPID)
<1>1. CurrentPID \in Pid \ Shell /\ kills[CurrentPID] = <<>>
  BY Whereabouts DEF end_process
<1>2. /\ actualKilled' = TRUE /\ proc' = (IF p = IDLE THEN proc ELSE ReleaseParent(proc, p))
      /\ Unlink(CurrentPID) /\ GoTo("dead", TRUE)
      /\ UNCHANGED <<CurrentPID, nextPID, kills>>
  BY DEF end_process
<1>3. /\ ready' \in Node /\ next' \in [Pid -> Node]
      /\ Listed' /\ Linked' = Linked \ {CurrentPID}
  BY <1>1, <1>2, UnlinkStep DEF IInv
<1>4. DOMAIN ctx' = Known /\ \A q \in Known : ctx'[q] \in Context(q)
  BY <1>1, <1>2, Points, GoToTyped DEF GoTo
<1>5. /\ proc \in Table /\ Waits(proc, Linked) /\ Linked \in SUBSET Pid /\ 0 \notin Doomed
      /\ IDLE \notin Pid
  BY ListFacts, DoomedFacts, Pids DEF IInv, Sound
<1>6. Eased(proc, proc') /\ Unwatched(proc', {CurrentPID})
  <2>1. CASE CurrentPID \in Linked
    <3>1. proc' = ReleaseParent(proc, CurrentPID)
      BY <1>1, <1>2, <1>5, <2>1, Process DEF IInv
    <3>2. Eased(proc, proc')
      BY <1>5, <3>1, ReleaseEases DEF IInv
    <3>3. \A s \in Shell : proc'[s].waitingPid # CurrentPID
      BY <1>1, <1>5, <3>1, ReleaseFrees DEF IInv
    <3>. QED  BY <3>2, <3>3 DEF Unwatched
  <2>2. CASE CurrentPID \notin Linked
    <3>1. proc' = proc
      BY <1>2, <2>2, Process DEF IInv
    <3>2. Eased(proc, proc')
      BY <1>5, <3>1, EasedSelf
    <3>3. \A s \in Shell : proc[s].waitingPid # CurrentPID
      BY <1>1, <1>5, <2>2, Pids DEF Waits
    <3>. QED  BY <3>1, <3>2, <3>3 DEF Unwatched
  <2>. QED  BY <2>1, <2>2
<1>7. Doomed' = Doomed
  BY <1>2 DEF Doomed
<1>8. Sound(proc', Linked', nextPID', CurrentPID', Doomed')
  <2>1. Sound(proc', Linked, nextPID, CurrentPID, Doomed)
    BY <1>5, <1>6, SoundEased DEF IInv
  <2>2. Sound(proc', Linked \ {CurrentPID}, nextPID, CurrentPID, Doomed)
    BY <1>6, <2>1, SoundUnlinked
  <2>. QED  BY <1>2, <1>3, <1>7, <2>2
<1>9. ProcTyped'
  BY <1>2, <1>3, <1>4 DEF IInv, ProcTyped, GoTo
<1>10. Right' /\ DeadCurrent'
  BY <1>2, <1>3 DEF Right, DeadCurrent
<1>11. CallsSound'
  BY <1>2, <1>3 DEF IInv, CallsSound
<1>12. SelfKilled'
  <2>1. \A c \in Pid : proc[c].state = "RUNNING" => proc'[c].state = "RUNNING"
    BY <1>6 DEF Eased, Known
  <2>. QED  BY <1>2, <1>3, <2>1 DEF IInv, SelfKilled
<1>. QED  BY <1>3, <1>8, <1>9, <1>10, <1>11, <1>12 DEF IInv

\* A kill begins, on the stack of a shell or of the command that Ctrl-C kills.
LEMMA KillBeginsInv ==
  ASSUME IInv, NEW pid \in Pid \ Shell, pid < nextPID, NEW stack \in Seq(Call), NEW flag \in BOOLEAN,
         Len(stack) = Len(kills[CurrentPID]),
         \A i \in 1 .. Len(stack) :
           /\ stack[i].pid = kills[CurrentPID][i].pid /\ stack[i].aux \in Pid
           /\ stack[i].over = kills[CurrentPID][i].over,
         \/ CurrentPID \in Shell
         \/ Uses("ctrlc") /\ CurrentPID # IDLE /\ (stack = <<>> \/ ~Mixed => pid = CurrentPID),
         KillBegins(pid, stack, flag), UNCHANGED <<ready, next, CurrentPID, nextPID>>,
         DOMAIN ctx' = Known, \A p \in Known : ctx'[p] \in Context(p)
  PROVE  IInv'
<1>. DEFINE c == CurrentPID
            top == Frame(pid, flag)
            calls == Append(stack, top)
<1>1. /\ actualKilled' = (actualKilled \/ pid = c) /\ iflag' = FALSE
      /\ proc' = IF InList(pid) THEN ReleaseParent(proc, pid) ELSE proc
      /\ kills' = [kills EXCEPT ![c] = calls]
  BY DEF KillBegins
<1>2. /\ c \in Known /\ kills \in [Known -> Seq(Call)] /\ ready \in Node
      /\ proc \in Table /\ Waits(proc, Linked) /\ Linked \in SUBSET Pid /\ 0 \notin Doomed
  BY ListFacts, DoomedFacts DEF IInv, Sound, ProcTyped
<1>3. top \in Call /\ top.pid = pid /\ ~top.over
  BY <1>2 DEF Frame, Call
<1>. HIDE DEF top
<1>4. /\ calls \in Seq(Call) /\ Len(calls) = Len(stack) + 1 /\ Len(stack) \in Nat
      /\ calls[Len(stack) + 1] = top /\ \A i \in 1 .. Len(stack) : calls[i] = stack[i]
  BY <1>3
<1>. HIDE DEF calls
<1>5. \A q \in Known : kills'[q] = IF q = c THEN calls ELSE kills[q]
  BY <1>1, <1>2
<1>6. kills' \in [Known -> Seq(Call)]
  BY <1>1, <1>2, <1>4
<1>7. Linked' = Linked /\ List' = List
  BY DEF Linked, List
<1>8. Eased(proc, proc') /\ Unwatched(proc', {pid})
  <2>1. CASE InList(pid)
    <3>1. proc' = ReleaseParent(proc, pid)
      BY <1>1, <2>1
    <3>2. Eased(proc, proc')
      BY <1>2, <3>1, ReleaseEases DEF IInv
    <3>3. \A s \in Shell : proc'[s].waitingPid # pid
      BY <1>2, <3>1, ReleaseFrees DEF IInv
    <3>. QED  BY <3>2, <3>3 DEF Unwatched
  <2>2. CASE ~InList(pid)
    <3>1. proc' = proc
      BY <1>1, <2>2
    <3>2. Eased(proc, proc')
      BY <1>2, <3>1, EasedSelf
    <3>3. \A s \in Shell : proc[s].waitingPid # pid
      BY <1>2, <2>2, Pids DEF Waits, InList
    <3>. QED  BY <3>1, <3>2, <3>3 DEF Unwatched
  <2>. QED  BY <2>1, <2>2
<1>9. Doomed' \subseteq Doomed \cup {pid}
  <2>1. SUFFICES ASSUME NEW p \in Pid, NEW q \in Known, NEW i \in 1 .. Len(kills'[q]),
                        kills'[q][i].pid = p, p # pid
                 PROVE  \E d \in Known : \E j \in 1 .. Len(kills[d]) : kills[d][j].pid = p
    BY DEF Doomed
  <2>2. CASE q # c
    BY <1>5, <2>1, <2>2
  <2>3. CASE q = c
    <3>1. i \in 1 .. Len(stack) /\ calls[i].pid = p
      BY <1>3, <1>4, <1>5, <2>1, <2>3
    <3>2. kills[c][i].pid = p /\ i \in 1 .. Len(kills[c])
      BY <1>4, <3>1
    <3>. QED  BY <1>2, <3>2
  <2>. QED  BY <2>2, <2>3
<1>10. Sound(proc', Linked', nextPID', CurrentPID', Doomed')
  <2>1. Sound(proc', Linked, nextPID, CurrentPID, Doomed)
    BY <1>2, <1>8, SoundEased DEF IInv
  <2>2. Unwatched(proc', Doomed')
    BY <1>8, <1>9, <2>1 DEF Sound, Unwatched
  <2>. QED  BY <1>7, <2>1, <2>2, SoundDoomed
<1>11. ProcTyped' /\ Listed'
  BY <1>1, <1>6, <1>7 DEF IInv, ProcTyped, Listed
<1>12. Right'
  <2>1. proc[c].state = "RUNNING" => proc'[c].state = "RUNNING"
    BY <1>2, <1>8 DEF Eased
  <2>2. ~actualKilled' => ~actualKilled
    BY <1>1 DEF IInv, ProcTyped
  <2>. QED  BY <1>7, <2>1, <2>2 DEF IInv, Right
<1>13. CallsSound'
  <2>1. SUFFICES ASSUME NEW q \in Known, NEW i \in 1 .. Len(kills'[q])
                 PROVE  /\ kills'[q][i].pid < nextPID
                        /\ \/ q \in Shell
                           \/ /\ Uses("ctrlc") /\ q # IDLE
                              /\ i = 1 \/ ~Mixed => kills'[q][i].pid = q
                        /\ i < Len(kills'[q]) => kills'[q][i].aux \in Pid
                        /\ kills'[q][i].over => kills'[q][i].pid \notin Linked
    BY <1>7 DEF CallsSound
  <2>2. CASE q # c
    BY <1>5, <2>2 DEF IInv, CallsSound
  <2>3. CASE q = c /\ i = Len(stack) + 1
    <3>1. kills'[q][i] = top /\ i = Len(kills'[q])
      BY <1>4, <1>5, <2>3
    <3>2. i = 1 => stack = <<>>
      BY <1>4, <2>3
    <3>. QED  BY <1>3, <2>3, <3>1, <3>2
  <2>4. CASE q = c /\ i \in 1 .. Len(stack)
    <3>1. kills'[q][i] = stack[i] /\ i \in 1 .. Len(kills[c])
      BY <1>4, <1>5, <2>4
    <3>2. /\ kills[c][i].pid < nextPID
          /\ \/ c \in Shell
             \/ /\ Uses("ctrlc") /\ c # IDLE
                /\ i = 1 \/ ~Mixed => kills[c][i].pid = c
          /\ kills[c][i].over => kills[c][i].pid \notin Linked
      BY <1>2, <3>1 DEF IInv, CallsSound
    <3>. QED  BY <2>4, <3>1, <3>2
  <2>5. q = c => i = Len(stack) + 1 \/ i \in 1 .. Len(stack)
    BY <1>4, <1>5, <2>1
  <2>. QED  BY <2>2, <2>3, <2>4, <2>5
<1>14. SelfKilled'
  <2>1. SUFFICES ASSUME NEW q \in Pid \ Shell, kills'[q] # <<>>, q \in Linked
                 PROVE  /\ proc'[q].state = "RUNNING"
                        /\ q = c => actualKilled'
                        /\ ~Mixed => q = c
    BY <1>7 DEF SelfKilled
  <2>2. q \in Known /\ (proc[q].state = "RUNNING" => proc'[q].state = "RUNNING")
    BY <1>8 DEF Eased, Known
  <2>3. CASE kills[q] # <<>>
    BY <1>1, <2>1, <2>2, <2>3 DEF IInv, SelfKilled
  <2>4. CASE kills[q] = <<>>
    <3>1. q = c /\ stack = <<>>
      BY <1>4, <1>5, <2>1, <2>2, <2>4
    <3>2. pid = c /\ actualKilled'
      BY <1>1, <2>1, <3>1
    <3>3. proc[c].state = "RUNNING"
      <4>1. ~actualKilled
        BY <2>1, <2>4, <3>1 DEF IInv, DeadCurrent
      <4>. QED  BY <2>1, <3>1, <4>1, Pids DEF IInv, Right
    <3>. QED  BY <2>2, <3>1, <3>2, <3>3
  <2>. QED  BY <2>3, <2>4
<1>15. DeadCurrent'
  <2>1. SUFFICES ASSUME actualKilled', c \in Linked
                 PROVE  c \notin Shell /\ kills'[c] # <<>> /\ ~iflag'
    BY <1>7 DEF DeadCurrent
  <2>2. c \notin Shell
    BY <1>1, <2>1 DEF IInv, DeadCurrent
  <2>3. kills'[c] # <<>>
    BY <1>2, <1>4, <1>5
  <2>. QED  BY <1>1, <2>2, <2>3
<1>. QED  BY <1>10, <1>11, <1>12, <1>13, <1>14, <1>15 DEF IInv

\* The command kill.
LEMMA ShellKillsInv ==
  ASSUME IInv, NEW pid \in 1 .. nextPID - 1, ShellKills(pid)
  PROVE  IInv'
<1>1. CurrentPID \in Shell /\ kills[CurrentPID] = <<>>
  BY Whereabouts DEF ShellKills
<1>2. "after" \in PointsOf(CurrentPID)
  BY <1>1, Points
<1>3. DOMAIN ctx' = Known /\ \A q \in Known : ctx'[q] \in Context(q)
  BY <1>2, GoToTyped DEF ShellKills
<1>4. pid \in Pid /\ pid < nextPID /\ iflag \in BOOLEAN /\ proc \in Table
  BY Pids DEF Pid, IInv, ProcTyped, Sound
<1>5. CASE Protected(pid)
  <2>1. UNCHANGED <<ready, next, CurrentPID, actualKilled, nextPID, kills, proc, iflag>>
    BY <1>5 DEF ShellKills
  <2>2. Eased(proc, proc')
    BY <1>4, <2>1, EasedSelf
  <2>. QED  BY <1>1, <1>3, <1>4, <2>1, <2>2, LocalStep
<1>6. CASE ~Protected(pid)
  <2>1. KillBegins(pid, <<>>, iflag) /\ UNCHANGED <<ready, next, CurrentPID, nextPID>>
    BY <1>6 DEF ShellKills
  <2>2. pid \in Pid \ Shell
    BY <1>4, <1>6 DEF Protected
  <2>3. <<>> \in Seq(Call) /\ Len(<<>>) = Len(kills[CurrentPID]) /\ 1 .. Len(<<>>) = {}
    BY <1>1
  <2>4. \A i \in 1 .. Len(<<>>) :
          /\ <<>>[i].pid = kills[CurrentPID][i].pid /\ <<>>[i].aux \in Pid
          /\ <<>>[i].over = kills[CurrentPID][i].over
    BY <2>3
  <2>. QED  BY <1>1, <1>3, <1>4, <2>1, <2>2, <2>3, <2>4, KillBeginsInv
<1>. QED  BY <1>5, <1>6

\* Ctrl-C.
LEMMA CtrlCInv ==
  ASSUME IInv, CtrlC
  PROVE  IInv'
<1>1. /\ Uses("ctrlc") /\ CurrentPID \in Pid \ Shell /\ CurrentPID < nextPID
      /\ kills[CurrentPID] = <<>> /\ KillBegins(CurrentPID, <<>>, TRUE)
      /\ UNCHANGED <<ready, next, CurrentPID, nextPID, ctx>>
  BY DEF CtrlC, Protected, IInv, ProcTyped, Known
<1>2. DOMAIN ctx' = Known /\ \A q \in Known : ctx'[q] \in Context(q)
  BY <1>1 DEF IInv, ProcTyped
<1>3. /\ <<>> \in Seq(Call) /\ Len(<<>>) = Len(kills[CurrentPID]) /\ 1 .. Len(<<>>) = {}
      /\ TRUE \in BOOLEAN
  BY <1>1
<1>4. \A i \in 1 .. Len(<<>>) :
        /\ <<>>[i].pid = kills[CurrentPID][i].pid /\ <<>>[i].aux \in Pid
        /\ <<>>[i].over = kills[CurrentPID][i].over
  BY <1>3
<1>5. CurrentPID # IDLE
  BY <1>1, Pids
<1>. QED  BY <1>1, <1>2, <1>3, <1>4, <1>5, KillBeginsInv

\* The kills on the stack of the current process change, and none is of a new pid.
LEMMA KillsStep ==
  ASSUME IInv, NEW calls \in Seq(Call), kills' = [kills EXCEPT ![CurrentPID] = calls],
         kills[CurrentPID] # <<>>, Len(calls) <= Len(kills[CurrentPID]),
         \A i \in 1 .. Len(calls) :
           /\ calls[i].pid = kills[CurrentPID][i].pid
           /\ i < Len(calls) => calls[i].aux \in Pid
           /\ calls[i].over => kills[CurrentPID][i].over \/ calls[i].pid \notin Linked',
         Linked' \subseteq Linked, UNCHANGED <<CurrentPID, nextPID, actualKilled>>
  PROVE  /\ kills' \in [Known -> Seq(Call)]
         /\ \A q \in Known : kills'[q] = IF q = CurrentPID THEN calls ELSE kills[q]
         /\ Doomed' \subseteq Doomed /\ CallsSound'
         /\ \A c \in Pid \ Shell : kills'[c] # <<>> => kills[c] # <<>>
<1>. DEFINE c == CurrentPID
<1>1. c \in Known /\ kills \in [Known -> Seq(Call)]
  BY DEF IInv, ProcTyped
<1>2. /\ kills' \in [Known -> Seq(Call)]
      /\ \A q \in Known : kills'[q] = IF q = c THEN calls ELSE kills[q]
  BY <1>1
<1>3. Len(calls) \in Nat /\ Len(kills[c]) \in Nat /\ \A i \in 1 .. Len(calls) : i \in 1 .. Len(kills[c])
  BY <1>1
<1>4. Doomed' \subseteq Doomed
  <2>1. SUFFICES ASSUME NEW p \in Pid, NEW q \in Known, NEW i \in 1 .. Len(kills'[q]), kills'[q][i].pid = p
                 PROVE  \E d \in Known : \E j \in 1 .. Len(kills[d]) : kills[d][j].pid = p
    BY DEF Doomed
  <2>2. CASE q # c
    BY <1>2, <2>1, <2>2
  <2>3. CASE q = c
    <3>1. i \in 1 .. Len(calls) /\ calls[i].pid = p
      BY <1>2, <2>1, <2>3
    <3>2. kills[c][i].pid = p /\ i \in 1 .. Len(kills[c])
      BY <1>3, <3>1
    <3>. QED  BY <1>1, <3>2
  <2>. QED  BY <2>2, <2>3
<1>5. CallsSound'
  <2>1. SUFFICES ASSUME NEW q \in Known, NEW i \in 1 .. Len(kills'[q])
                 PROVE  /\ kills'[q][i].pid < nextPID
                        /\ \/ q \in Shell
                           \/ /\ Uses("ctrlc") /\ q # IDLE
                              /\ i = 1 \/ ~Mixed => kills'[q][i].pid = q
                        /\ i < Len(kills'[q]) => kills'[q][i].aux \in Pid
                        /\ kills'[q][i].over => kills'[q][i].pid \notin Linked'
    BY DEF CallsSound
  <2>2. CASE q # c
    BY <1>2, <2>2 DEF IInv, CallsSound
  <2>3. CASE q = c
    <3>1. kills'[q] = calls /\ i \in 1 .. Len(calls) /\ i \in 1 .. Len(kills[c])
      BY <1>2, <1>3, <2>1, <2>3
    <3>2. /\ kills[c][i].pid < nextPID
          /\ \/ c \in Shell
             \/ /\ Uses("ctrlc") /\ c # IDLE
                /\ i = 1 \/ ~Mixed => kills[c][i].pid = c
          /\ kills[c][i].over => kills[c][i].pid \notin Linked
      BY <1>1, <3>1 DEF IInv, CallsSound
    <3>. QED  BY <2>3, <3>1, <3>2
  <2>. QED  BY <2>2, <2>3
<1>6. \A q \in Pid \ Shell : kills'[q] # <<>> => kills[q] # <<>>
  BY <1>2 DEF Known
<1>. QED  BY <1>2, <1>4, <1>5, <1>6

\* All but the last element.
LEMMA Front ==
  ASSUME NEW S, NEW s \in Seq(S), NEW n \in Nat, n + 1 = Len(s)
  PROVE  /\ SubSeq(s, 1, n) \in Seq(S) /\ Len(SubSeq(s, 1, n)) = n
         /\ \A i \in 1 .. n : SubSeq(s, 1, n)[i] = s[i]
OBVIOUS

\* A kill returns to its caller.
LEMMA KillReturnsInv ==
  ASSUME IInv, KillReturns
  PROVE  IInv'
<1>. DEFINE c == CurrentPID
            stack == kills[c]
            f == stack[Len(stack)]
            outer == SubSeq(stack, 1, Len(stack) - 1)
            calls == IF outer = <<>> THEN outer ELSE [outer EXCEPT ![Len(outer)].aux = next[@]]
<1>1. /\ stack # <<>> /\ f.over /\ kills' = [kills EXCEPT ![c] = calls] /\ iflag' = f.if
      /\ UNCHANGED <<ready, next, proc, CurrentPID, actualKilled, nextPID, ctx>>
  BY DEF KillReturns
<1>2. c \in Known /\ stack \in Seq(Call) /\ kills \in [Known -> Seq(Call)] /\ next \in [Pid -> Node]
  BY DEF IInv, ProcTyped
<1>3. Len(stack) \in Nat /\ Len(stack) \in 1 .. Len(stack) /\ f \in Call
  BY <1>1, <1>2
<1>4. /\ outer \in Seq(Call) /\ Len(outer) = Len(stack) - 1
      /\ \A i \in 1 .. Len(outer) : outer[i] = stack[i] /\ i \in 1 .. Len(stack) /\ i < Len(stack)
  <2>1. stack \in Seq(Call) /\ Len(stack) - 1 \in Nat /\ (Len(stack) - 1) + 1 = Len(stack)
    BY <1>2, <1>3
  <2>2. /\ outer \in Seq(Call) /\ Len(outer) = Len(stack) - 1
        /\ \A i \in 1 .. Len(stack) - 1 : outer[i] = stack[i]
    BY <2>1, Front
  <2>. HIDE DEF outer
  <2>. QED  BY <1>3, <2>2
<1>5. \A i \in 1 .. Len(outer) : outer[i].aux \in Pid /\ outer[i] \in Call
  <2>1. \A i \in 1 .. Len(stack) : stack[i] \in Call /\ (i < Len(stack) => stack[i].aux \in Pid)
    BY <1>2 DEF IInv, CallsSound
  <2>. HIDE DEF outer
  <2>. QED  BY <1>4, <2>1
<1>6. /\ calls \in Seq(Call) /\ Len(calls) = Len(outer)
      /\ \A i \in 1 .. Len(calls) : /\ calls[i].pid = outer[i].pid /\ calls[i].over = outer[i].over
                                    /\ i < Len(calls) => calls[i].aux \in Pid
  <2>1. CASE outer = <<>>
    BY <1>4, <2>1
  <2>2. CASE outer # <<>>
    <3>. DEFINE n == Len(outer)
                r == [outer[n] EXCEPT !.aux = next[outer[n].aux]]
    <3>. HIDE DEF outer
    <3>1. n \in 1 .. n /\ n \in Nat
      BY <1>4, <2>2
    <3>2. next[outer[n].aux] \in Node
      BY <1>2, <1>5, <3>1
    <3>3. r \in Call /\ r.pid = outer[n].pid /\ r.over = outer[n].over
      BY <1>5, <3>1, <3>2 DEF Call
    <3>4. calls = [outer EXCEPT ![n] = r]
      BY <2>2
    <3>. HIDE DEF calls, r
    <3>5. calls \in Seq(Call) /\ Len(calls) = n /\ \A i \in 1 .. n : calls[i] = IF i = n THEN r ELSE outer[i]
      BY <1>4, <3>1, <3>3, <3>4
    <3>. QED  BY <1>5, <3>1, <3>3, <3>5
  <2>. QED  BY <2>1, <2>2
<1>. HIDE DEF calls
<1>7. Linked' = Linked /\ List' = List
  BY <1>1 DEF Linked, List
<1>8. /\ kills' \in [Known -> Seq(Call)]
      /\ \A q \in Known : kills'[q] = IF q = c THEN calls ELSE kills[q]
      /\ Doomed' \subseteq Doomed /\ CallsSound'
      /\ \A q \in Pid \ Shell : kills'[q] # <<>> => kills[q] # <<>>
  <2>1. /\ Len(calls) <= Len(stack)
        /\ \A i \in 1 .. Len(calls) : calls[i].pid = stack[i].pid /\ calls[i].over = stack[i].over
    <3>. HIDE DEF outer, stack
    <3>1. Len(outer) = Len(calls) /\ Len(calls) <= Len(stack)
      BY <1>3, <1>4, <1>6
    <3>2. \A i \in 1 .. Len(calls) : outer[i] = stack[i]
      BY <1>4, <3>1
    <3>. QED  BY <1>6, <3>1, <3>2
  <2>2. Linked' \subseteq Linked
    BY <1>7
  <2>. HIDE DEF outer, f
  <2>. QED  BY <1>1, <1>6, <2>1, <2>2, KillsStep
<1>9. Sound(proc', Linked', nextPID', CurrentPID', Doomed')
  <2>1. Sound(proc, Linked, nextPID, CurrentPID, Doomed)
    BY DEF IInv
  <2>2. Unwatched(proc, Doomed')
    BY <1>8, <2>1 DEF Sound, Unwatched
  <2>3. Sound(proc, Linked, nextPID, CurrentPID, Doomed')
    BY <2>1, <2>2, SoundDoomed
  <2>. QED  BY <1>1, <1>7, <2>3
<1>10. ProcTyped' /\ Listed'
  <2>1. iflag' \in BOOLEAN
    BY <1>1, <1>3 DEF Call
  <2>. QED  BY <1>1, <1>8, <1>7, <2>1 DEF IInv, ProcTyped, Listed
<1>11. Right'
  BY <1>1, <1>7 DEF IInv, Right
<1>12. SelfKilled'
  BY <1>1, <1>8, <1>7 DEF IInv, SelfKilled
<1>13. DeadCurrent'
  <2>1. SUFFICES ASSUME actualKilled, c \in Linked
                 PROVE  c \notin Shell /\ kills'[c] # <<>> /\ Mixed
    BY <1>1, <1>7 DEF DeadCurrent
  <2>2. c \in Pid \ Shell
    BY <2>1, ListFacts DEF IInv, DeadCurrent
  <2>3. /\ f.pid \notin Linked
        /\ Len(stack) = 1 \/ ~Mixed => f.pid = c
    BY <1>1, <1>2, <1>3, <2>2 DEF IInv, CallsSound
  <2>4. Mixed /\ Len(stack) # 1
    BY <2>1, <2>3
  <2>5. calls # <<>>
    <3>1. Len(calls) = Len(stack) - 1
      <4>. HIDE DEF outer, stack
      <4>. QED  BY <1>4, <1>6
    <3>2. Len(calls) # 0
      <4>. HIDE DEF stack
      <4>. QED  BY <1>3, <2>4, <3>1
    <3>. QED  BY <3>2
  <2>. QED  BY <1>2, <1>8, <2>2, <2>4, <2>5
<1>. QED  BY <1>8, <1>9, <1>10, <1>11, <1>12, <1>13 DEF IInv

\* The walk of a kill: the next child, or the end of the list.
LEMMA KillWalksInv ==
  ASSUME IInv, KillWalks
  PROVE  IInv'
<1>. DEFINE c == CurrentPID
            stack == kills[c]
            top == Len(stack)
            f == stack[top]
            rest == ListFrom(f.aux, next)
            children == {i \in 1 .. Len(rest) : proc[rest[i]].parent = f.pid}
            child == rest[CHOOSE i \in children : \A j \in children : i <= j]
<1>1. stack # <<>> /\ ~f.over /\ UNCHANGED <<CurrentPID, nextPID, ctx>>
  BY DEF KillWalks
<1>2. /\ c \in Known /\ stack \in Seq(Call) /\ kills \in [Known -> Seq(Call)]
      /\ next \in [Pid -> Node] /\ iflag \in BOOLEAN /\ nextPID \in Nat
      /\ DOMAIN ctx = Known /\ \A q \in Known : ctx[q] \in Context(q)
  BY DEF IInv, ProcTyped
<1>3. top \in Nat /\ top \in 1 .. top /\ f \in Call
  BY <1>1, <1>2
<1>4. /\ f.pid \in Pid \ Shell /\ f.pid < nextPID /\ f.aux \in Node
      /\ c \in Shell \/ (Uses("ctrlc") /\ c # IDLE /\ (~Mixed => f.pid = c))
      /\ \A i \in 1 .. top : i < top => stack[i].aux \in Pid
  BY <1>2, <1>3 DEF IInv, CallsSound, Call
<1>5. CASE children # {}
  <2>1. child \in Pid /\ proc[child].parent = f.pid
    <3>1. rest \in Seq(Pid)
      BY <1>2, <1>4, ListSeq
    <3>. HIDE DEF rest
    <3>2. children \in SUBSET Nat
      OBVIOUS
    <3>3. \E i \in children : \A j \in children : i <= j
      <4>. HIDE DEF children
      <4>. QED  BY <1>5, <3>2, LeastNat
    <3>. DEFINE k == CHOOSE i \in children : \A j \in children : i <= j
    <3>4. k \in children
      <4>. HIDE DEF children
      <4>. QED  BY <3>3
    <3>5. child = rest[k]
      OBVIOUS
    <3>6. k \in 1 .. Len(rest) /\ proc[rest[k]].parent = f.pid
      BY <3>4
    <3>. HIDE DEF k, child
    <3>. QED  BY <3>1, <3>5, <3>6
  <2>. DEFINE outer == [stack EXCEPT ![top].aux = child]
  <2>2. KillBegins(child, outer, iflag) /\ UNCHANGED <<ready, next>>
    BY <1>5 DEF KillWalks
  <2>. HIDE DEF child
  <2>3. /\ child \in Pid \ Shell /\ child < nextPID
        /\ c \in Shell \/ (Uses("ctrlc") /\ c # IDLE /\ Mixed)
    <3>1. f.pid # IDLE /\ f.pid \notin Shell
      BY <1>4, Pids
    <3>2. child \notin Shell /\ ~(child >= nextPID)
      BY <2>1, <3>1 DEF IInv, Sound, Families
    <3>3. ~Uses("ctrlc") \/ Mixed \/ proc[child].parent \in Shell \cup {IDLE}
      BY <2>1 DEF IInv, Sound, Families
    <3>. QED  BY <1>2, <1>4, <2>1, <3>1, <3>2, <3>3, Pids
  <2>4. /\ outer \in Seq(Call) /\ Len(outer) = Len(stack)
        /\ \A i \in 1 .. Len(outer) : /\ outer[i].pid = stack[i].pid /\ outer[i].over = stack[i].over
                                      /\ outer[i].aux \in Pid
    <3>. DEFINE r == [f EXCEPT !.aux = child]
    <3>1. r \in Call /\ r.pid = f.pid /\ r.over = f.over /\ r.aux = child
      BY <1>3, <2>1 DEF Call, Node
    <3>2. outer = [stack EXCEPT ![top] = r]
      OBVIOUS
    <3>. HIDE DEF outer, r
    <3>3. outer \in Seq(Call) /\ Len(outer) = top /\ \A i \in 1 .. top : outer[i] = IF i = top THEN r ELSE stack[i]
      BY <1>2, <1>3, <3>1, <3>2
    <3>. QED  BY <1>3, <1>4, <2>1, <3>1, <3>3
  <2>5. DOMAIN ctx' = Known /\ \A q \in Known : ctx'[q] \in Context(q)
    BY <1>1, <1>2
  <2>6. \/ c \in Shell
        \/ Uses("ctrlc") /\ c # IDLE /\ (outer = <<>> \/ ~Mixed => child = c)
    <3>1. outer # <<>>
      <4>. HIDE DEF outer
      <4>. QED  BY <1>3, <2>4
    <3>. HIDE DEF outer
    <3>. QED  BY <2>3, <3>1
  <2>. HIDE DEF outer
  <2>. QED  BY <1>1, <1>2, <2>2, <2>3, <2>4, <2>5, <2>6, KillBeginsInv
<1>6. CASE children = {}
  <2>. DEFINE calls == [stack EXCEPT ![top].over = TRUE]
  <2>1. /\ Unlink(f.pid) /\ kills' = [kills EXCEPT ![c][top].over = TRUE] /\ iflag' = TRUE
        /\ UNCHANGED <<proc, actualKilled>>
    BY <1>6 DEF KillWalks
  <2>2. kills' = [kills EXCEPT ![c] = calls]
    BY <1>2, <2>1
  <2>3. /\ calls \in Seq(Call) /\ Len(calls) = Len(stack)
        /\ \A i \in 1 .. Len(calls) : /\ calls[i].pid = stack[i].pid
                                      /\ i < Len(calls) => calls[i].aux \in Pid
                                      /\ calls[i].over => stack[i].over \/ i = top
    <3>. DEFINE r == [f EXCEPT !.over = TRUE]
    <3>1. r \in Call /\ r.pid = f.pid
      BY <1>3 DEF Call
    <3>2. calls = [stack EXCEPT ![top] = r]
      OBVIOUS
    <3>. HIDE DEF calls, r
    <3>3. calls \in Seq(Call) /\ Len(calls) = top /\ \A i \in 1 .. top : calls[i] = IF i = top THEN r ELSE stack[i]
      BY <1>2, <1>3, <3>1, <3>2
    <3>. QED  BY <1>3, <1>4, <3>1, <3>3
  <2>. HIDE DEF calls
  <2>4. /\ ready' \in Node /\ next' \in [Pid -> Node] /\ Listed' /\ Linked' = Linked \ {f.pid}
    BY <1>1, <1>4, <2>1, UnlinkStep DEF IInv
  <2>5. /\ kills' \in [Known -> Seq(Call)]
        /\ \A q \in Known : kills'[q] = IF q = c THEN calls ELSE kills[q]
        /\ Doomed' \subseteq Doomed /\ CallsSound'
        /\ \A q \in Pid \ Shell : kills'[q] # <<>> => kills[q] # <<>>
    <3>1. Len(calls) <= Len(stack)
      BY <1>3, <2>3
    <3>2. \A i \in 1 .. Len(calls) : calls[i].over => stack[i].over \/ calls[i].pid \notin Linked'
      BY <1>3, <2>3, <2>4
    <3>3. Linked' \subseteq Linked
      BY <2>4
    <3>4. \A i \in 1 .. Len(calls) : /\ calls[i].pid = stack[i].pid
                                     /\ i < Len(calls) => calls[i].aux \in Pid
      BY <2>3
    <3>. HIDE DEF f
    <3>. QED  BY <1>1, <2>1, <2>2, <2>3, <3>1, <3>2, <3>3, <3>4, KillsStep
  <2>6. f.pid \in Doomed
    BY <1>2, <1>3, <1>4 DEF Doomed
  <2>. HIDE DEF f
  <2>7. Sound(proc', Linked', nextPID', CurrentPID', Doomed')
    <3>1. Sound(proc, Linked \ {f.pid}, nextPID, CurrentPID, Doomed)
      BY <2>6, SoundWithout DEF IInv
    <3>2. Unwatched(proc, Doomed')
      BY <2>5, <3>1 DEF Sound, Unwatched
    <3>3. Sound(proc, Linked \ {f.pid}, nextPID, CurrentPID, Doomed')
      BY <3>1, <3>2, SoundDoomed
    <3>. QED  BY <1>1, <2>1, <2>4, <3>3
  <2>8. ProcTyped'
    BY <1>1, <2>1, <2>5, <2>4 DEF IInv, ProcTyped
  <2>9. c \in Shell \/ (c \in Pid \ Shell /\ (~Mixed => f.pid = c))
    BY <1>2, <1>4 DEF Known
  <2>10. Right'
    <3>1. SUFFICES ASSUME ~actualKilled, c # IDLE
                   PROVE  c \in Linked' /\ proc[c].state = "RUNNING"
      BY <1>1, <2>1 DEF Right
    <3>2. c \in Linked /\ proc[c].state = "RUNNING"
      BY <3>1 DEF IInv, Right
    <3>3. c \in Shell
      BY <1>1, <2>9, <3>1, <3>2 DEF IInv, SelfKilled
    <3>. QED  BY <1>4, <2>4, <3>2, <3>3
  <2>11. SelfKilled'
    BY <1>1, <2>1, <2>5, <2>4 DEF IInv, SelfKilled
  <2>12. DeadCurrent'
    <3>1. SUFFICES ASSUME actualKilled, c \in Linked'
                   PROVE  c \notin Shell /\ kills'[c] # <<>> /\ (~Mixed => FALSE)
      BY <1>1, <2>1 DEF DeadCurrent
    <3>2. c \in Linked /\ c # f.pid
      BY <2>4, <3>1
    <3>3. c \notin Shell
      BY <3>1, <3>2 DEF IInv, DeadCurrent
    <3>4. calls # <<>>
      BY <1>1, <1>3, <2>3
    <3>. QED  BY <1>2, <2>5, <2>9, <3>2, <3>3, <3>4
  <2>. QED  BY <2>4, <2>5, <2>7, <2>8, <2>10, <2>11, <2>12 DEF IInv
<1>. QED  BY <1>5, <1>6

\* The invariant is inductive.
LEMMA Inductive ==
  ASSUME IInv, [Next]_vars
  PROVE  IInv'
<1>1. CASE ShellStep
  BY <1>1, ShellCliInv, ShellBlockInv, ShellBuiltinInv, ShellStiInv, ShellRunsInv, ShellKillsInv
     DEF ShellStep
<1>2. CASE CommandStep
  BY <1>2, CommandSpawnsInv, CommandStiInv, SleepInv, SleepBlocksInv, EndProcessInv DEF CommandStep
<1>3. CASE KillStep
  BY <1>3, KillWalksInv, KillReturnsInv DEF KillStep
<1>4. CASE Tick
  BY <1>4, TickInv
<1>5. CASE CtrlC
  BY <1>5, CtrlCInv
<1>6. CASE \E s \in Shell : Enter(s)
  BY <1>6, EnterInv
<1>7. CASE UNCHANGED vars
  BY <1>7, LocalStep, EasedSelf DEF vars, IInv, Sound, ProcTyped
<1>. QED  BY <1>1, <1>2, <1>3, <1>4, <1>5, <1>6, <1>7 DEF Next

\* It holds in every state.
LEMMA Invariant == Spec => []IInv
BY InitInv, Inductive, PTL DEF Spec

\* One process of Chinux is RUNNING at a time, the current one, and the current one is
\* in the list of processes until it ends (scheduler2.c), for any shells, commands,
\* priorities and bounds.  Ctrl-C on a command that has children is excluded: a tick in
\* the middle of that kill leaves the killed process RUNNING in the list.
THEOREM ProcessOneRunning ==
  ASSUME ~({"ctrlc", "spawn"} \subseteq Features)
  PROVE  Spec => []OneRunning
<1>1. IInv => OneRunning
  BY DEF IInv, Sound, Alone, Right, OneRunning, InList, Mixed
<1>. QED  BY <1>1, Invariant, PTL

\* A shell that waits for its foreground command is blocked, and the command is in the
\* list as its foreground child, so that its end (end_process) or its kill
\* (kill_in_kernel) awakes the shell, whatever is killed or typed meanwhile.
THEOREM ProcessWaits == Spec => []WaitsForLiveChild
<1>1. IInv => WaitsForLiveChild
  BY DEF IInv, Sound, Waits, WaitsForLiveChild, InList
<1>. QED  BY <1>1, Invariant, PTL


-----------------------------------------------------------------------------
(***************************************************************************)
(* The walk of a kill.  It follows links that may be those of nodes which  *)
(* have left the list meanwhile.                                           *)
(***************************************************************************)

\* What ListFrom returns for any links: each node is the link of the one before, and
\* the last has none unless the walk has passed MaxPid nodes.
LEMMA ListSteps ==
  ASSUME NEW n \in Node, NEW nx \in [Pid -> Node], NEW l, l = ListFrom(n, nx)
  PROVE  /\ l \in Seq(Pid) /\ Len(l) <= MaxPid
         /\ \A j \in 1 .. Len(l) : l[j] = IF j = 1 THEN n ELSE nx[l[j - 1]]
         /\ Len(l) < MaxPid => IF l = <<>> THEN n = Nil ELSE nx[l[Len(l)]] = Nil
<1>1. PICK w : /\ w[0] = <<>>
               /\ \A i \in 1 .. MaxPid : w[i] = Walk(n, nx, i, w[i - 1])
               /\ ListFrom(n, nx) = w[MaxPid]
  BY ListWalks
<1>. DEFINE Steps(i, s) ==
              /\ s \in Seq(Pid) /\ Len(s) <= i
              /\ \A j \in 1 .. Len(s) : s[j] = IF j = 1 THEN n ELSE nx[s[j - 1]]
              /\ Len(s) < i => IF s = <<>> THEN n = Nil ELSE nx[s[Len(s)]] = Nil
            ok == {i \in 0 .. MaxPid : Steps(i, w[i])}
<1>2. MaxPid \in Nat /\ 0 \in ok
  <2>1. <<>> \in Seq(Pid) /\ MaxPid \in Nat /\ Len(<<>>) = 0
    BY Pids
  <2>2. Steps(0, <<>>)
    BY <2>1
  <2>. HIDE DEF Steps
  <2>. QED  BY <1>1, <2>1, <2>2
<1>3. ASSUME NEW i \in 0 .. MaxPid - 1, i \in ok PROVE i + 1 \in ok
  <2>. DEFINE s == w[i]
              m == IF i + 1 = 1 THEN n ELSE IF Len(s) < i THEN Nil ELSE nx[s[i]]
  <2>1. Steps(i, s) /\ i + 1 \in 1 .. MaxPid /\ (i + 1) - 1 = i /\ i \in Nat /\ i + 1 \in 0 .. MaxPid
    BY <1>2, <1>3
  <2>2. w[i + 1] = IF m = Nil THEN s ELSE Append(s, m)
    BY <1>1, <2>1 DEF Walk
  <2>3. m = Nil \/ m \in Pid
    BY <2>1 DEF Node
  <2>. HIDE DEF s
  <2>4. CASE m = Nil
    <3>1. IF s = <<>> THEN n = Nil ELSE nx[s[Len(s)]] = Nil
      <4>1. CASE i = 0
        BY <2>1, <2>4, <4>1
      <4>2. CASE i # 0 /\ Len(s) < i
        BY <2>1, <4>2
      <4>3. CASE i # 0 /\ Len(s) = i
        BY <2>1, <2>4, <4>3
      <4>. QED  BY <2>1, <4>1, <4>2, <4>3
    <3>2. Steps(i + 1, s)
      BY <2>1, <3>1
    <3>. HIDE DEF Steps, m
    <3>. QED  BY <2>1, <2>2, <2>4, <3>2
  <2>5. CASE m # Nil
    <3>1. Len(s) = i
      <4>1. CASE i = 0
        BY <2>1, <4>1
      <4>2. CASE i # 0
        BY <2>1, <2>5, <4>2
      <4>. QED  BY <4>1, <4>2
    <3>. DEFINE t == Append(s, m)
    <3>2. t \in Seq(Pid) /\ Len(t) = i + 1 /\ t[i + 1] = m /\ \A j \in 1 .. i : t[j] = s[j]
      <4>. HIDE DEF m
      <4>. QED  BY <2>1, <2>3, <2>5, <3>1
    <3>3. m = IF i + 1 = 1 THEN n ELSE nx[s[i]]
      BY <2>1, <3>1
    <3>. HIDE DEF t, m
    <3>4. ASSUME NEW j \in 1 .. i + 1
          PROVE  t[j] = IF j = 1 THEN n ELSE nx[t[j - 1]]
      <4>1. CASE j = i + 1
        <5>1. i # 0 => (i + 1) - 1 = i /\ t[i] = s[i]
          BY <2>1, <3>2
        <5>. QED  BY <2>1, <3>2, <3>3, <4>1, <5>1
      <4>2. CASE j \in 1 .. i
        <5>1. t[j] = s[j] /\ (j # 1 => j - 1 \in 1 .. i /\ t[j - 1] = s[j - 1])
          BY <2>1, <3>2, <4>2
        <5>. QED  BY <2>1, <3>1, <4>2, <5>1
      <4>. QED  BY <2>1, <4>1, <4>2
    <3>5. Steps(i + 1, t)
      BY <2>1, <3>2, <3>4
    <3>. HIDE DEF Steps
    <3>. QED  BY <2>1, <2>2, <2>5, <3>5 DEF t
  <2>. QED  BY <2>4, <2>5
<1>4. MaxPid \in 0 .. MaxPid /\ \A i \in 0 .. MaxPid : i \in ok
  <2>. HIDE DEF ok
  <2>. QED  BY <1>2, <1>3, UpTo
<1>5. Steps(MaxPid, l)
  BY <1>1, <1>4
<1>. QED  BY <1>5

\* Along links to larger pids the walk goes up.
LEMMA ListRises ==
  ASSUME NEW n \in Node, NEW nx \in [Pid -> Node], NEW l, l = ListFrom(n, nx),
         \A k \in Pid : nx[k] # Nil => k < nx[k]
  PROVE  \A i, j \in 1 .. Len(l) : i <= j => l[i] <= l[j] /\ j <= l[j]
<1>1. /\ l \in Seq(Pid) /\ Len(l) \in Nat
      /\ \A j \in 1 .. Len(l) : l[j] = IF j = 1 THEN n ELSE nx[l[j - 1]]
  <2>1. /\ l \in Seq(Pid)
        /\ \A j \in 1 .. Len(l) : l[j] = IF j = 1 THEN n ELSE nx[l[j - 1]]
    BY ListSteps
  <2>. QED  BY <2>1
<1>2. \A j \in 1 .. Len(l) : l[j] \in Nat /\ l[j] >= 1
  BY <1>1, Pids
<1>3. ASSUME NEW j \in 1 .. Len(l), j # 1 PROVE l[j - 1] < l[j]
  <2>1. j - 1 \in 1 .. Len(l) /\ l[j] = nx[l[j - 1]] /\ l[j] # Nil /\ l[j - 1] \in Pid
    BY <1>1, <1>3, Pids
  <2>. QED  BY <2>1
<1>. DEFINE ok == {j \in 0 .. Len(l) : j = 0 \/ (j <= l[j] /\ \A i \in 1 .. j : l[i] <= l[j])}
<1>4. 0 \in ok
  BY <1>1
<1>5. ASSUME NEW j \in 0 .. Len(l) - 1, j \in ok PROVE j + 1 \in ok
  <2>1. j \in Nat /\ j + 1 \in 1 .. Len(l) /\ j + 1 \in 0 .. Len(l) /\ l[j + 1] \in Nat /\ l[j + 1] >= 1
    BY <1>1, <1>2
  <2>2. CASE j = 0
    BY <2>1, <2>2
  <2>3. CASE j # 0
    <3>1. l[j] < l[j + 1] /\ j <= l[j] /\ l[j] \in Nat /\ \A i \in 1 .. j : l[i] <= l[j] /\ l[i] \in Nat
      BY <1>2, <1>3, <1>5, <2>1, <2>3
    <3>2. \A i \in 1 .. j + 1 : l[i] <= l[j + 1]
      BY <2>1, <3>1
    <3>. QED  BY <2>1, <3>1, <3>2
  <2>. QED  BY <2>2, <2>3
<1>6. \A j \in 0 .. Len(l) : j \in ok
  <2>. HIDE DEF ok
  <2>. QED  BY <1>1, <1>4, <1>5, UpTo
<1>. QED  BY <1>1, <1>6

\* The walk from the link of n comes to q, if it cannot end or jump over q before.
LEMMA ListReaches ==
  ASSUME NEW n \in Node, NEW nx \in [Pid -> Node], NEW l, l = ListFrom(n, nx), NEW q \in Pid,
         \A k \in Pid : nx[k] # Nil => k < nx[k],
         n # Nil /\ n <= q,
         \A k \in Pid : n <= k /\ k < q => nx[k] # Nil /\ nx[k] <= q
  PROVE  \E j \in 1 .. Len(l) : l[j] = q
<1>1. SUFFICES ASSUME \A j \in 1 .. Len(l) : l[j] # q PROVE FALSE
  OBVIOUS
<1>2. /\ l \in Seq(Pid) /\ Len(l) <= MaxPid
      /\ \A j \in 1 .. Len(l) : l[j] = IF j = 1 THEN n ELSE nx[l[j - 1]]
      /\ Len(l) < MaxPid => IF l = <<>> THEN n = Nil ELSE nx[l[Len(l)]] = Nil
  BY ListSteps
<1>3. \A i, j \in 1 .. Len(l) : i <= j => l[i] <= l[j] /\ j <= l[j]
  BY ListRises
<1>4. /\ Len(l) \in Nat /\ MaxPid \in Nat /\ q \in Nat /\ q <= MaxPid /\ q > 0
      /\ n \in Nat /\ \A j \in 1 .. Len(l) : l[j] \in Nat /\ l[j] \in Pid
  BY <1>2, Pids DEF Node
<1>5. l # <<>> /\ Len(l) >= 1
  BY <1>2, <1>4
<1>. DEFINE ok == {j \in 0 .. Len(l) : j = 0 \/ (n <= l[j] /\ l[j] < q)}
<1>6. 0 \in ok
  BY <1>4
<1>7. ASSUME NEW j \in 0 .. Len(l) - 1, j \in ok PROVE j + 1 \in ok
  <2>1. j \in Nat /\ j + 1 \in 1 .. Len(l) /\ j + 1 \in 0 .. Len(l) /\ l[j + 1] \in Nat /\ l[j + 1] # q
    BY <1>1, <1>4
  <2>2. CASE j = 0
    BY <1>2, <1>4, <2>1, <2>2
  <2>3. CASE j # 0
    <3>1. j \in 1 .. Len(l) /\ n <= l[j] /\ l[j] < q /\ l[j] \in Pid /\ l[j] \in Nat
      BY <1>4, <1>7, <2>1, <2>3
    <3>2. l[j + 1] = nx[l[j]]
      BY <1>2, <2>1, <2>3
    <3>3. l[j + 1] <= q /\ l[j] < l[j + 1]
      BY <3>1, <3>2
    <3>. QED  BY <1>4, <2>1, <3>1, <3>3
  <2>. QED  BY <2>2, <2>3
<1>8. \A j \in 0 .. Len(l) : j \in ok
  <2>. HIDE DEF ok
  <2>. QED  BY <1>4, <1>6, <1>7, UpTo
<1>9. n <= l[Len(l)] /\ l[Len(l)] < q /\ Len(l) <= l[Len(l)]
  BY <1>3, <1>4, <1>5, <1>8
<1>10. nx[l[Len(l)]] # Nil
  BY <1>4, <1>5, <1>9
<1>11. Len(l) = MaxPid
  BY <1>2, <1>4, <1>5, <1>10
<1>. QED  BY <1>4, <1>5, <1>9, <1>11

-----------------------------------------------------------------------------
(***************************************************************************)
(* Kills are complete.                                                     *)
(***************************************************************************)

\* Links lead to larger pids and pass over no process of the list.
Ordered ==
  /\ \A q \in Linked : ready <= q
  /\ \A n, q \in Linked : q > n => next[n] # Nil
  /\ \A n \in Pid : next[n] # Nil =>
       n < next[n] /\ next[n] < nextPID /\ \A q \in Linked : q > n => q >= next[n]

\* A node that has left the list as its last one did so before any sibling, of a
\* process that is in the list, was born behind it.
Passed ==
  \A m \in Pid \ Linked, q \in Linked, r \in Pid :
    next[m] = Nil /\ r <= m /\ m < q /\ proc[r].parent = proc[q].parent =>
      proc[q].parent \in Shell \cup {IDLE}

\* A command that has not started has no children; while it starts interrupts are
\* disabled, and everything from its first child on is in the list.
Unborn ==
  \A p \in Pid \ Shell : ctx[p].pc = "start" =>
    IF p = CurrentPID
    THEN /\ ~iflag
         /\ \A r, m \in Pid : proc[r].parent = p /\ r <= m /\ m < nextPID => m \in Linked
    ELSE ~ctx[p].if /\ \A q \in Pid : proc[q].parent # p

\* The current command is marked as killed only when it has started.
Ended == actualKilled /\ CurrentPID \in Pid \ Shell => ctx[CurrentPID].pc # "start"

\* The children of p in the list L have pids from n on, or there are none.
ChildrenFrom(ps, L, p, n) == \A q \in L : ps[q].parent = p => q >= n

Childless(ps, L, p) == \A q \in L : ps[q].parent # p

\* The kills of one stack: each but the innermost waits for the kill of the first child
\* it has found; each that is over has left no child.
Walks(s, ps, L) ==
  \A i \in 1 .. Len(s) :
    /\ i > 1 => ~s[i].if
    /\ i < Len(s) => /\ ~s[i].over /\ s[i].aux = s[i + 1].pid
                     /\ ps[s[i].aux].parent = s[i].pid /\ ChildrenFrom(ps, L, s[i].pid, s[i].aux)
    /\ s[i].over => Childless(ps, L, s[i].pid)

Walking == \A c \in Known : Walks(kills[c], proc, Linked)

\* A kill that still searches is at the head of the list, or behind the child it killed
\* last, and nothing can interrupt it.
Searching ==
  \A c \in Known : LET f == kills[c][Len(kills[c])] IN
    kills[c] # <<>> /\ ~f.over =>
      /\ c = CurrentPID /\ ~iflag
      /\ \/ f.aux = ready
         \/ \E n \in Pid : /\ proc[n].parent = f.pid /\ f.aux = next[n] /\ n \notin Linked
                           /\ ChildrenFrom(proc, Linked, f.pid, n)

\* What has been killed is no shell and never comes back.
Gone == killed \subseteq Pid \ Shell /\ \A p \in killed : p \notin Linked /\ p < nextPID

KillInv == Ordered /\ Passed /\ Unborn /\ Ended /\ Walking /\ Searching /\ Gone /\ KillIsComplete

\* Who kills and who starts: a command on whose stack there is a kill has started, and
\* a command that starts is in the list.
LEMMA KillFacts ==
  ASSUME IInv, KillInv
  PROVE  /\ kills[CurrentPID] # <<>> =>
              CurrentPID \in Shell \/ (CurrentPID \in Pid \ Shell /\ ctx[CurrentPID].pc # "start")
         /\ CurrentPID \in Pid \ Shell /\ ctx[CurrentPID].pc = "start" => CurrentPID \in Linked
         /\ actualKilled => CurrentPID \notin Shell
<1>1. ASSUME kills[CurrentPID] # <<>>, CurrentPID \notin Shell
      PROVE  CurrentPID \in Pid \ Shell /\ ctx[CurrentPID].pc # "start"
  <2>1. CurrentPID \in Known /\ kills[CurrentPID] \in Seq(Call)
    BY DEF IInv, ProcTyped
  <2>2. 1 \in 1 .. Len(kills[CurrentPID])
    BY <1>1, <2>1
  <2>3. CurrentPID \in Pid \ Shell
    BY <1>1, <2>1, <2>2 DEF IInv, CallsSound, Known
  <2>4. actualKilled
    BY <1>1, <2>3, Pids DEF IInv, Right, SelfKilled
  <2>. QED  BY <2>3, <2>4 DEF KillInv, Ended
<1>2. CurrentPID \in Pid \ Shell /\ ctx[CurrentPID].pc = "start" => CurrentPID \in Linked
  BY Pids DEF IInv, Right, KillInv, Ended
<1>3. actualKilled => CurrentPID \notin Shell
  BY DEF IInv, DeadCurrent, Listed
<1>. QED  BY <1>1, <1>2, <1>3

\* A step that leaves the list alone.
LEMMA SameList ==
  ASSUME UNCHANGED <<ready, next>>
  PROVE  Linked' = Linked /\ List' = List
BY DEF Linked, List

\* Linking keeps the links in order.
LEMMA OrderedLink ==
  ASSUME IInv, Ordered, nextPID <= MaxPid, Link(nextPID), nextPID' = nextPID + 1,
         Linked' = Linked \cup {nextPID}
  PROVE  /\ Ordered'
         /\ \A m \in Pid : m \notin Linked => next'[m] = IF m = nextPID THEN Nil ELSE next[m]
<1>. DEFINE l == List  last == l[Len(l)]
<1>1. /\ Chain(ready, next, l) /\ Linked = Nodes(l) /\ l \in Seq(Pid) /\ Len(l) \in Nat
      /\ Linked \subseteq Pid /\ nextPID \notin Linked /\ nextPID \in Pid /\ nextPID \in Nat
      /\ \A q \in Linked : q < nextPID /\ q \in Nat
  <2>1. Chain(ready, next, l) /\ ProcTyped /\ Listed
    BY DEF IInv, Listed
  <2>2. nextPID \in Pid /\ nextPID \in Nat
    BY <2>1, Pids DEF ProcTyped, Pid
  <2>3. /\ Linked = Nodes(l) /\ Linked \subseteq Pid /\ nextPID \notin Linked /\ l \in Seq(Pid)
    BY <2>1, ListFacts
  <2>4. \A q \in Linked : q < nextPID /\ q \in Nat
    BY <2>1, <2>3, Pids DEF Listed
  <2>. QED  BY <2>1, <2>2, <2>3, <2>4
<1>2. /\ ready' = IF ready = Nil THEN nextPID ELSE ready
      /\ next' = [k \in Pid |-> IF k = nextPID THEN Nil
                                ELSE IF l # <<>> /\ k = last THEN nextPID ELSE next[k]]
  BY DEF Link
<1>3. l # <<>> => last \in Linked /\ next[last] = Nil
  <2>1. l # <<>> => Len(l) \in 1 .. Len(l)
    BY <1>1
  <2>. QED  BY <1>1, <2>1 DEF Chain, Nodes
<1>4. \A q \in Linked : l # <<>> /\ q <= last
  <2>1. SUFFICES ASSUME NEW q \in Linked PROVE l # <<>> /\ q <= last
    OBVIOUS
  <2>2. l # <<>>
    BY <1>1, <2>1 DEF Nodes
  <2>3. ~(q > last)
    BY <1>3, <2>1, <2>2 DEF Ordered
  <2>4. last \in Nat /\ q \in Nat
    BY <1>1, <1>3, <2>1, <2>2
  <2>. HIDE DEF l, last
  <2>. QED  BY <2>2, <2>3, <2>4
<1>5. ready = Nil => Linked = {}
  BY <1>1, Pids DEF Chain, Nodes
<1>. HIDE DEF l, last
<1>6. \A k \in Pid : next'[k] = IF k = nextPID THEN Nil
                                ELSE IF l # <<>> /\ k = last THEN nextPID ELSE next[k]
  BY <1>2
<1>7. \A q \in Linked' : ready' <= q
  <2>1. ready \in Nat
    BY Pids DEF IInv, ProcTyped, Node
  <2>2. \A q \in Linked : ready <= q /\ ready < nextPID
    BY <1>1, <2>1 DEF Ordered
  <2>3. ready = Nil \/ ready \in Linked
    BY <1>1, Pids DEF Chain, Nodes
  <2>4. ready # Nil => ready < nextPID
    BY <1>1, <2>3
  <2>. QED  BY <1>1, <1>2, <1>5, <2>1, <2>2, <2>4
<1>8. \A n, q \in Linked' : q > n => next'[n] # Nil
  <2>1. SUFFICES ASSUME NEW n \in Linked', NEW q \in Linked', q > n PROVE next'[n] # Nil
    OBVIOUS
  <2>2. n \in Linked /\ n # nextPID
    BY <1>1, <2>1
  <2>3. CASE q \in Linked
    BY <1>1, <1>6, <2>1, <2>2, <2>3, Pids DEF Ordered
  <2>4. CASE q = nextPID
    <3>0. l # <<>> /\ n <= last
      BY <1>4, <2>2
    <3>1. n = last \/ n < last
      <4>1. n \in Nat /\ last \in Nat
        BY <1>1, <1>3, <2>2, <3>0
      <4>. QED  BY <3>0, <4>1
    <3>2. n < last => next[n] # Nil
      BY <1>3, <1>4, <2>2 DEF Ordered
    <3>. QED  BY <1>1, <1>4, <1>6, <2>2, <3>1, <3>2, Pids
  <2>. QED  BY <2>1, <2>3, <2>4
<1>9. ASSUME NEW n \in Pid, next'[n] # Nil
      PROVE  n < next'[n] /\ next'[n] < nextPID' /\ \A q \in Linked' : q > n => q >= next'[n]
  <2>1. n # nextPID
    BY <1>6, <1>9
  <2>2. CASE l # <<>> /\ n = last
    BY <1>1, <1>3, <1>4, <1>6, <2>1, <2>2
  <2>3. CASE ~(l # <<>> /\ n = last)
    <3>1. next'[n] = next[n] /\ next[n] \in Pid
      BY <1>6, <1>9, <2>1, <2>3 DEF IInv, ProcTyped, Node
    <3>2. n < next[n] /\ next[n] < nextPID /\ \A q \in Linked : q > n => q >= next[n]
      BY <1>9, <3>1 DEF Ordered
    <3>3. next[n] \in Nat
      BY <3>1, Pids
    <3>. QED  BY <1>1, <3>1, <3>2, <3>3
  <2>. QED  BY <2>2, <2>3
<1>. QED  BY <1>3, <1>6, <1>7, <1>8, <1>9 DEF Ordered

\* Unlinking keeps the links in order, and a node that leaves as the last has no
\* other behind it.
LEMMA OrderedUnlink ==
  ASSUME IInv, Ordered, NEW p \in Pid, Unlink(p), Linked' = Linked \ {p}, nextPID' = nextPID
  PROVE  /\ Ordered'
         /\ \A m \in Pid \ Linked' : next'[m] = next[m]
         /\ p \in Linked /\ next[p] = Nil => \A q \in Linked : q <= p
<1>1. /\ Linked \subseteq Pid /\ \A q \in Pid : q \in Nat /\ q > 0
      /\ \A n \in Pid : next[n] = Nil \/ next[n] \in Pid
      /\ ready = Nil \/ ready \in Linked
      /\ \A n \in Linked : next[n] = Nil \/ next[n] \in Linked
  <2>1. ProcTyped /\ Listed /\ Chain(ready, next, List)
    BY DEF IInv, Listed
  <2>2. Linked \subseteq Pid /\ Linked = Nodes(List) /\ List \in Seq(Pid)
    BY <2>1, ListFacts
  <2>3. ready = Nil \/ ready \in Linked
    BY <2>1, <2>2 DEF Chain, Nodes
  <2>4. \A n \in Linked : next[n] = Nil \/ next[n] \in Linked
    <3>1. ASSUME NEW i \in 1 .. Len(List) PROVE next[List[i]] = Nil \/ next[List[i]] \in Linked
      <4>1. next[List[i]] = IF i < Len(List) THEN List[i + 1] ELSE Nil
        BY <2>1 DEF Chain
      <4>2. i < Len(List) => i + 1 \in 1 .. Len(List)
        BY <2>2
      <4>. QED  BY <2>2, <4>1, <4>2 DEF Nodes
    <3>. QED  BY <2>2, <3>1 DEF Nodes
  <2>. QED  BY <2>1, <2>2, <2>3, <2>4, Pids DEF ProcTyped, Node
<1>2. /\ ready' = IF ready = p THEN next[p] ELSE ready
      /\ \A n \in Pid : next'[n] = IF ready # p /\ n \in Linked /\ next[n] = p
                                  THEN next[p] ELSE next[n]
  BY DEF Unlink
<1>3. next[p] # Nil => next[p] \in Nat /\ p < next[p] /\ next[p] < nextPID
  BY <1>1 DEF Ordered
<1>4. \A q \in Linked : q > p => q >= next[p]
  BY <1>1, Pids DEF Ordered
<1>5. \A q \in Linked' : ready' <= q
  <2>1. SUFFICES ASSUME NEW q \in Linked, q # p PROVE ready' <= q
    OBVIOUS
  <2>2. ready <= q /\ q \in Nat /\ p \in Nat
    BY <1>1, <2>1 DEF Ordered
  <2>3. ready = p => q > p
    BY <2>1, <2>2
  <2>. QED  BY <1>2, <1>4, <2>1, <2>2, <2>3
<1>6. ASSUME NEW n \in Linked', NEW q \in Linked', q > n PROVE next'[n] # Nil
  <2>1. next[n] # Nil /\ n \in Pid /\ n \in Linked /\ q \in Linked /\ q # p
    BY <1>1, <1>6 DEF Ordered
  <2>2. CASE next[n] = p
    <3>1. p \in Linked /\ q >= p /\ q \in Nat /\ p \in Nat
      BY <1>1, <1>6, <2>1, <2>2 DEF Ordered
    <3>2. next[p] # Nil
      BY <2>1, <3>1 DEF Ordered
    <3>. QED  BY <1>2, <2>1, <2>2, <3>2
  <2>3. CASE next[n] # p
    BY <1>2, <2>1, <2>3
  <2>. QED  BY <2>2, <2>3
<1>7. ASSUME NEW n \in Pid, next'[n] # Nil
      PROVE  n < next'[n] /\ next'[n] < nextPID /\ \A q \in Linked' : q > n => q >= next'[n]
  <2>1. CASE next'[n] = next[n]
    BY <1>7, <2>1 DEF Ordered
  <2>2. CASE next'[n] # next[n]
    <3>1. next[n] = p /\ n \in Linked /\ next'[n] = next[p] /\ next[p] # Nil
      BY <1>2, <1>7, <2>2
    <3>2. n < p /\ \A q \in Linked : q > n => q >= p
      BY <1>1, <3>1, Pids DEF Ordered
    <3>3. ASSUME NEW q \in Linked', q > n PROVE q >= next[p]
      <4>1. q \in Linked /\ q # p /\ q \in Nat /\ p \in Nat
        BY <1>1, <3>3
      <4>2. q > p
        BY <3>2, <3>3, <4>1
      <4>. QED  BY <1>4, <4>1, <4>2
    <3>4. n \in Nat /\ p \in Nat
      BY <1>1
    <3>. QED  BY <1>3, <3>1, <3>2, <3>3, <3>4
  <2>. QED  BY <2>1, <2>2
<1>8. Ordered'
  BY <1>5, <1>6, <1>7 DEF Ordered
<1>9. \A m \in Pid \ Linked' : next'[m] = next[m]
  <2>1. SUFFICES ASSUME ready # p, p \in Linked, next[p] = p PROVE FALSE
    BY <1>2
  <2>. QED  BY <1>1, <1>3, <2>1, Pids
<1>10. p \in Linked /\ next[p] = Nil => \A q \in Linked : q <= p
  <2>1. SUFFICES ASSUME p \in Linked, next[p] = Nil, NEW q \in Linked, q > p PROVE FALSE
    BY <1>1
  <2>. QED  BY <2>1 DEF Ordered
<1>. QED  BY <1>8, <1>9, <1>10

\* Nothing has happened to the list.
LEMMA OrderedSame ==
  ASSUME Ordered, Passed, UNCHANGED <<ready, next, nextPID>>,
         \A q \in Pid : proc'[q].parent = proc[q].parent, Linked \subseteq Pid
  PROVE  Ordered' /\ Passed'
<1>1. Linked' = Linked
  BY SameList
<1>2. Ordered'
  BY <1>1 DEF Ordered
<1>3. Passed'
  BY <1>1 DEF Passed
<1>. QED  BY <1>2, <1>3

\* A node leaves the list.
LEMMA PassedUnlink ==
  ASSUME IInv, Ordered, Passed, NEW p \in Pid, Unlink(p), Linked' = Linked \ {p}, nextPID' = nextPID,
         \A q \in Pid : proc'[q].parent = proc[q].parent
  PROVE  Passed'
<1>1. /\ \A m \in Pid \ Linked' : next'[m] = next[m]
      /\ p \in Linked /\ next[p] = Nil => \A q \in Linked : q <= p
  BY OrderedUnlink
<1>2. Linked \subseteq Pid /\ \A q \in Pid : q \in Nat
  BY ListFacts, Pids DEF IInv
<1>3. SUFFICES ASSUME NEW m \in Pid \ Linked', NEW q \in Linked', NEW r \in Pid,
                      next'[m] = Nil, r <= m, m < q, proc'[r].parent = proc'[q].parent
               PROVE  proc'[q].parent \in Shell \cup {IDLE}
  BY DEF Passed
<1>4. next[m] = Nil /\ q \in Linked /\ q \in Pid /\ proc[r].parent = proc[q].parent
  BY <1>1, <1>2, <1>3
<1>5. m \notin Linked
  <2>1. SUFFICES ASSUME m \in Linked PROVE FALSE
    OBVIOUS
  <2>2. m = p
    BY <1>3, <2>1
  <2>. QED  BY <1>1, <1>2, <1>3, <1>4, <2>1, <2>2
<1>. QED  BY <1>2, <1>3, <1>4, <1>5 DEF Passed

\* A node is linked.
LEMMA PassedLink ==
  ASSUME IInv, Ordered, Passed, Unborn, nextPID <= MaxPid, Link(nextPID), nextPID' = nextPID + 1,
         Linked' = Linked \cup {nextPID},
         \A q \in Pid : q # nextPID => proc'[q].parent = proc[q].parent,
         proc'[nextPID].parent = CurrentPID,
         CurrentPID \in Shell \/ (CurrentPID \in Pid \ Shell /\ ctx[CurrentPID].pc = "start")
  PROVE  Passed'
<1>1. \A m \in Pid : m \notin Linked => next'[m] = IF m = nextPID THEN Nil ELSE next[m]
  BY OrderedLink
<1>2. /\ Linked \subseteq Pid /\ nextPID \in Pid /\ \A q \in Pid : q \in Nat
      /\ \A q \in Linked : q < nextPID
  BY ListFacts, Pids DEF IInv, Listed, ProcTyped, Pid
<1>3. SUFFICES ASSUME NEW m \in Pid \ Linked', NEW q \in Linked', NEW r \in Pid,
                      next'[m] = Nil, r <= m, m < q, proc'[r].parent = proc'[q].parent
               PROVE  proc'[q].parent \in Shell \cup {IDLE}
  BY DEF Passed
<1>4. m \notin Linked /\ m # nextPID /\ next[m] = Nil /\ q \in Pid
  BY <1>1, <1>2, <1>3
<1>5. q <= nextPID /\ m < nextPID /\ r < nextPID
  BY <1>2, <1>3, <1>4
<1>6. proc'[r].parent = proc[r].parent
  BY <1>2, <1>5
<1>7. CASE q # nextPID
  BY <1>3, <1>4, <1>6, <1>7 DEF Passed
<1>8. CASE q = nextPID /\ CurrentPID \in Pid \ Shell
  BY <1>3, <1>4, <1>5, <1>6, <1>8 DEF Unborn
<1>. QED  BY <1>7, <1>8

\* What a switch keeps.
LEMMA SwitchKeeps ==
  ASSUME IInv, NEW ps \in Table, NEW at, NEW l \in Seq(Pid), Switch(ps, at, l)
  PROVE  /\ \A p \in Pid : proc'[p].parent = ps[p].parent
         /\ iflag' = ctx'[CurrentPID'].if /\ actualKilled' = FALSE
         /\ ctx' = IF actualKilled THEN ctx ELSE [ctx EXCEPT ![CurrentPID] = at]
<1>. DEFINE saved == Saved(ps)  to == GetNextTask(saved, l)
            temp == GetProcessByPID(CurrentPID)
<1>1. /\ proc' = Dispatched(saved, to, l) /\ CurrentPID' = to
      /\ ctx' = IF actualKilled THEN ctx ELSE [ctx EXCEPT ![temp] = at]
      /\ iflag' = ctx'[to].if /\ actualKilled' = FALSE
  BY DEF Switch
<1>2. ~actualKilled => temp = CurrentPID
  BY Process, Pids DEF IInv, Right
<1>3. \A p \in Pid : p \in Known /\ p # IDLE /\ ps[p] \in PROCESS
  BY Pids DEF Known, Table
<1>4. /\ DOMAIN saved = Known
      /\ \A p \in Pid : saved[p] = ps[p] \/ saved[p] = [ps[p] EXCEPT !.state = "READY"]
  <2>. HIDE DEF temp
  <2>1. saved = ps \/ saved = [ps EXCEPT ![temp].state = "READY"]
    BY DEF Saved, temp
  <2>2. \A p \in Pid : [ps EXCEPT ![temp].state = "READY"][p] =
                          IF p = temp THEN [ps[p] EXCEPT !.state = "READY"] ELSE ps[p]
    BY <1>3 DEF Table
  <2>3. DOMAIN [ps EXCEPT ![temp].state = "READY"] = Known /\ DOMAIN ps = Known
    BY DEF Table
  <2>. HIDE DEF saved
  <2>. QED  BY <2>1, <2>2, <2>3
<1>. HIDE DEF saved, to
<1>5. ASSUME NEW p \in Pid PROVE proc'[p].parent = ps[p].parent
  <2>1. ps[p] \in PROCESS /\ p \in Known
    BY <1>3
  <2>2. saved[p] \in PROCESS /\ saved[p].parent = ps[p].parent
    <3>1. saved[p] = ps[p] \/ saved[p] = [ps[p] EXCEPT !.state = "READY"]
      BY <1>4
    <3>. QED  BY <2>1, <3>1 DEF PROCESS
  <2>3. \/ proc'[p] = [saved[p] EXCEPT !.state = "RUNNING", !.acum = IF p = IDLE THEN @ ELSE 0]
        \/ proc'[p] = [saved[p] EXCEPT !.acum = @ + saved[p].priority + 1]
        \/ proc'[p] = saved[p]
    BY <1>1, <1>4, <2>1 DEF Dispatched
  <2>. QED  BY <2>2, <2>3 DEF PROCESS
<1>. QED  BY <1>1, <1>2, <1>5 DEF temp

\* No command starts at a point at which a process gives up the CPU.
LEMMA UnbornSwitch ==
  ASSUME IInv, Unborn, Ended, NEW at, at.pc # "start",
         \A q \in Pid : proc'[q].parent = proc[q].parent \/ proc'[q].parent \in Shell,
         iflag' = ctx'[CurrentPID'].if,
         ctx' = IF actualKilled THEN ctx ELSE [ctx EXCEPT ![CurrentPID] = at]
  PROVE  Unborn'
<1>1. SUFFICES ASSUME NEW p \in Pid \ Shell, ctx'[p].pc = "start"
               PROVE  /\ p = CurrentPID' => ~iflag'
                      /\ \A q \in Pid : proc'[q].parent # p
                      /\ ~ctx'[p].if
  BY DEF Unborn
<1>2. p \in Known /\ DOMAIN ctx = Known /\ CurrentPID \in Known
  BY DEF IInv, ProcTyped, Known
<1>3. p # CurrentPID
  <2>1. SUFFICES ASSUME p = CurrentPID PROVE FALSE
    OBVIOUS
  <2>2. ~actualKilled => ctx'[p] = at
    BY <1>2, <2>1
  <2>3. actualKilled => ctx[p].pc # "start" /\ ctx' = ctx
    BY <2>1 DEF Ended
  <2>. QED  BY <1>1, <2>2, <2>3
<1>4. ctx'[p] = ctx[p]
  BY <1>2, <1>3
<1>5. ~ctx[p].if /\ \A q \in Pid : proc[q].parent # p
  BY <1>1, <1>3, <1>4 DEF Unborn
<1>. QED  BY <1>1, <1>4, <1>5

\* A step inside a process that leaves its starting point, if it was there.
LEMMA UnbornGoTo ==
  ASSUME IInv, Unborn, NEW point, point # "start", CurrentPID' = CurrentPID,
         \A q \in Pid : proc'[q].parent = proc[q].parent \/ proc'[q].parent \in Shell,
         ctx' = [ctx EXCEPT ![CurrentPID].pc = point]
  PROVE  Unborn'
<1>1. SUFFICES ASSUME NEW p \in Pid \ Shell, ctx'[p].pc = "start"
               PROVE  /\ p # CurrentPID
                      /\ \A q \in Pid : proc'[q].parent # p
                      /\ ~ctx'[p].if
  BY DEF Unborn
<1>2. p \in Known /\ DOMAIN ctx = Known /\ CurrentPID \in Known /\ ctx[CurrentPID] \in Context(CurrentPID)
  BY DEF IInv, ProcTyped, Known
<1>3. ctx'[CurrentPID].pc = point
  BY <1>2 DEF Context
<1>4. p # CurrentPID /\ ctx'[p] = ctx[p]
  BY <1>1, <1>2, <1>3
<1>. QED  BY <1>1, <1>4 DEF Unborn

\* The kills of a stack while other processes start, end, block and resume.
LEMMA WalksKept ==
  ASSUME IInv, NEW c \in Known, Walks(kills[c], proc, Linked),
         Linked' \subseteq Pid, Linked' \subseteq Linked \cup {nextPID},
         \A q \in Pid : \/ proc'[q].parent = proc[q].parent
                        \/ q = nextPID /\ proc'[q].parent = CurrentPID /\ CurrentPID \in Linked
  PROVE  Walks(kills[c], proc', Linked')
<1>. DEFINE s == kills[c]
<1>1. s \in Seq(Call) /\ Len(s) \in Nat /\ \A i \in 1 .. Len(s) : s[i] \in Call
  BY DEF IInv, ProcTyped
<1>2. \A i \in 1 .. Len(s) : /\ s[i].pid \in Pid \ Shell /\ s[i].pid < nextPID /\ s[i].pid # IDLE
                             /\ s[i].over => s[i].pid \notin Linked
  BY <1>1, Pids DEF IInv, CallsSound, Call
<1>3. /\ Linked \subseteq Pid /\ nextPID \notin Linked /\ nextPID \in Nat /\ \A q \in Pid : q \in Nat
      /\ nextPID \in Pid => proc[nextPID].parent = IDLE
  BY ListFacts, Pids DEF IInv, ProcTyped, Sound, Families
<1>4. SUFFICES ASSUME NEW i \in 1 .. Len(s)
               PROVE  /\ i > 1 => ~s[i].if
                      /\ i < Len(s) =>
                           /\ ~s[i].over /\ s[i].aux = s[i + 1].pid
                           /\ proc'[s[i].aux].parent = s[i].pid
                           /\ ChildrenFrom(proc', Linked', s[i].pid, s[i].aux)
                      /\ s[i].over => Childless(proc', Linked', s[i].pid)
  BY DEF Walks
<1>. HIDE DEF s
<1>5. /\ i > 1 => ~s[i].if
      /\ i < Len(s) => /\ ~s[i].over /\ s[i].aux = s[i + 1].pid
                       /\ proc[s[i].aux].parent = s[i].pid
                       /\ ChildrenFrom(proc, Linked, s[i].pid, s[i].aux)
      /\ s[i].over => Childless(proc, Linked, s[i].pid)
  BY <1>4 DEF Walks, s
<1>6. ASSUME i < Len(s)
      PROVE  proc'[s[i].aux].parent = s[i].pid /\ ChildrenFrom(proc', Linked', s[i].pid, s[i].aux)
  <2>1. i + 1 \in 1 .. Len(s)
    BY <1>1, <1>6
  <2>2. s[i].aux \in Pid /\ s[i].aux < nextPID /\ s[i].aux \in Nat
    BY <1>2, <1>3, <1>5, <1>6, <2>1
  <2>3. proc'[s[i].aux].parent = s[i].pid
    BY <1>3, <1>5, <1>6, <2>2
  <2>4. ASSUME NEW q \in Linked', proc'[q].parent = s[i].pid PROVE q >= s[i].aux
    <3>1. CASE q = nextPID
      BY <1>3, <2>2, <3>1
    <3>2. CASE q # nextPID
      <4>1. q \in Linked /\ proc'[q].parent = proc[q].parent
        BY <1>3, <2>4, <3>2
      <4>. QED  BY <1>5, <1>6, <2>4, <4>1 DEF ChildrenFrom
    <3>. QED  BY <3>1, <3>2
  <2>. QED  BY <2>3, <2>4 DEF ChildrenFrom
<1>7. ASSUME s[i].over PROVE Childless(proc', Linked', s[i].pid)
  <2>1. SUFFICES ASSUME NEW q \in Linked', proc'[q].parent = s[i].pid PROVE FALSE
    BY DEF Childless
  <2>2. s[i].pid \notin Linked /\ Childless(proc, Linked, s[i].pid)
    BY <1>2, <1>5, <1>7
  <2>3. CASE q = nextPID
    <3>1. q \in Pid
      BY <2>1
    <3>. QED  BY <1>2, <1>3, <2>1, <2>2, <2>3, <3>1
  <2>4. CASE q # nextPID
    <3>1. q \in Linked /\ proc'[q].parent = proc[q].parent
      BY <1>3, <2>1, <2>4
    <3>. QED  BY <2>1, <2>2, <3>1 DEF Childless
  <2>. QED  BY <2>3, <2>4
<1>. QED  BY <1>5, <1>6, <1>7

\* No kill goes on while its process is not the current one, or can be interrupted.
LEMMA CallsKept ==
  ASSUME IInv, IInv', KillInv, UNCHANGED <<kills, killed>>, kills[CurrentPID] = <<>> \/ iflag,
         nextPID' = nextPID \/ nextPID' = nextPID + 1, Linked' \subseteq Linked \cup {nextPID},
         \A q \in Pid : \/ proc'[q].parent = proc[q].parent
                        \/ q = nextPID /\ proc'[q].parent = CurrentPID /\ CurrentPID \in Linked
  PROVE  Walking' /\ Searching' /\ Gone' /\ KillIsComplete'
<1>1. Linked' \subseteq Pid
  <2>1. List' \in Seq(Pid)
    BY DEF IInv, Listed, Chain
  <2>. QED  BY <2>1 DEF Linked, Nodes
<1>2. Walking'
  <2>1. SUFFICES ASSUME NEW c \in Known PROVE Walks(kills[c], proc', Linked')
    BY DEF Walking
  <2>. QED  BY <1>1, WalksKept DEF KillInv, Walking
<1>3. Searching'
  BY DEF KillInv, Searching
<1>4. /\ Linked \subseteq Pid /\ nextPID \notin Linked /\ nextPID \in Nat /\ \A q \in Pid : q \in Nat
      /\ nextPID \in Pid => proc[nextPID].parent = IDLE
  BY ListFacts, Pids DEF IInv, ProcTyped, Sound, Families
<1>5. ASSUME NEW p \in killed
      PROVE  p \in Pid \ Shell /\ p \notin Linked /\ p < nextPID /\ p # IDLE /\ p \in Nat
  BY <1>4, Pids DEF KillInv, Gone
<1>6. Gone'
  <2>1. ASSUME NEW p \in killed PROVE p \notin Linked' /\ p < nextPID'
    BY <1>4, <1>5
  <2>2. killed \subseteq Pid \ Shell
    BY <1>5
  <2>. QED  BY <2>1, <2>2 DEF Gone
<1>7. KillIsComplete'
  <2>1. SUFFICES ASSUME NEW p \in killed, NEW q \in Pid, q \in Linked'
                 PROVE  q # p /\ proc'[q].parent # p
    BY DEF KillIsComplete, InList
  <2>2. q # p
    BY <1>6, <2>1 DEF Gone
  <2>3. CASE q = nextPID
    BY <1>4, <1>5, <2>2, <2>3
  <2>4. CASE q # nextPID
    <3>1. q \in Linked /\ proc'[q].parent = proc[q].parent
      BY <2>1, <2>4
    <3>. QED  BY <2>1, <2>2, <3>1 DEF KillInv, KillIsComplete, InList
  <2>. QED  BY <2>3, <2>4
<1>. QED  BY <1>2, <1>3, <1>6, <1>7

\* A step that leaves the list and the kills alone.
LEMMA LocalKept ==
  ASSUME IInv, IInv', KillInv, UNCHANGED <<ready, next, nextPID, kills, killed>>,
         kills[CurrentPID] = <<>> \/ iflag, Unborn', Ended',
         \A q \in Pid : proc'[q].parent = proc[q].parent
  PROVE  KillInv'
<1>1. Linked' = Linked /\ Linked \subseteq Pid
  BY SameList, ListFacts DEF IInv
<1>2. Ordered' /\ Passed'
  BY <1>1, OrderedSame DEF KillInv
<1>3. Walking' /\ Searching' /\ Gone' /\ KillIsComplete'
  BY <1>1, CallsKept
<1>. QED  BY <1>2, <1>3 DEF KillInv

\* A step of a process inside its slot.
LEMMA GoToKept ==
  ASSUME IInv, IInv', KillInv, NEW p, At(p), NEW point, point # "start",
         UNCHANGED <<ready, next, nextPID, kills, killed, CurrentPID, actualKilled>>,
         ctx' = [ctx EXCEPT ![CurrentPID].pc = point],
         \A q \in Pid : proc'[q].parent = proc[q].parent
  PROVE  KillInv'
<1>1. kills[CurrentPID] = <<>>
  BY DEF At
<1>2. Unborn'
  BY UnbornGoTo DEF KillInv
<1>3. Ended'
  BY DEF At, Ended, KillInv
<1>. QED  BY <1>1, <1>2, <1>3, LocalKept

\* A process gives up the CPU.
LEMMA SwitchKept ==
  ASSUME IInv, IInv', KillInv, UNCHANGED <<ready, next, nextPID, kills, killed>>,
         kills[CurrentPID] = <<>> \/ iflag, NEW at, at.pc # "start", actualKilled' = FALSE,
         iflag' = ctx'[CurrentPID'].if,
         ctx' = IF actualKilled THEN ctx ELSE [ctx EXCEPT ![CurrentPID] = at],
         \A q \in Pid : proc'[q].parent = proc[q].parent
  PROVE  KillInv'
<1>1. Unborn'
  BY UnbornSwitch DEF KillInv
<1>2. Ended'
  BY DEF Ended
<1>. QED  BY <1>1, <1>2, LocalKept

\* What a process that blocks keeps.
LEMMA BlockKeeps ==
  ASSUME IInv, NEW ps \in Table, NEW point, NEW l \in Seq(Pid), Block(ps, point, l)
  PROVE  /\ \A p \in Pid : proc'[p].parent = ps[p].parent
         /\ iflag' = ctx'[CurrentPID'].if /\ actualKilled' = FALSE
         /\ ctx' = IF actualKilled THEN ctx
                   ELSE [ctx EXCEPT ![CurrentPID] = [pc |-> point, if |-> iflag]]
<1>. DEFINE blocked == IF InList(CurrentPID) THEN [ps EXCEPT ![CurrentPID].state = "BLOCKED"] ELSE ps
            at == [pc |-> point, if |-> iflag]
<1>1. Switch(Alarms(blocked), at, l)
  BY DEF Block
<1>2. blocked \in Table /\ \A p \in Pid : blocked[p].parent = ps[p].parent
  <2>1. \A p \in Known : ps[p] \in PROCESS /\ [ps[p] EXCEPT !.state = "BLOCKED"] \in PROCESS
    BY Updated DEF Table
  <2>2. [ps EXCEPT ![CurrentPID].state = "BLOCKED"] \in Table
    BY <2>1 DEF Table
  <2>3. \A p \in Pid : /\ [ps EXCEPT ![CurrentPID].state = "BLOCKED"][p] =
                            IF p = CurrentPID THEN [ps[p] EXCEPT !.state = "BLOCKED"] ELSE ps[p]
                       /\ p \in Known
    BY DEF Table, Known
  <2>. QED  BY <2>1, <2>2, <2>3 DEF PROCESS
<1>. HIDE DEF blocked, at
<1>3. Eased(blocked, Alarms(blocked))
  BY <1>2, AlarmsEase
<1>4. Alarms(blocked) \in Table /\ \A p \in Pid : Alarms(blocked)[p].parent = blocked[p].parent
  BY <1>3 DEF Eased, Known
<1>5. /\ \A p \in Pid : proc'[p].parent = Alarms(blocked)[p].parent
      /\ iflag' = ctx'[CurrentPID'].if /\ actualKilled' = FALSE
      /\ ctx' = IF actualKilled THEN ctx ELSE [ctx EXCEPT ![CurrentPID] = at]
  BY <1>1, <1>4, SwitchKeeps
<1>. QED  BY <1>2, <1>4, <1>5 DEF at

\* The timer.
LEMMA TickKeeps ==
  ASSUME IInv, IInv', KillInv, Tick
  PROVE  KillInv'
<1>1. Alarms(proc) \in Table /\ \A q \in Pid : Alarms(proc)[q].parent = proc[q].parent
  <2>1. Eased(proc, Alarms(proc))
    BY AlarmsEase DEF IInv, Sound
  <2>. QED  BY <2>1 DEF Eased, Known
<1>2. iflag /\ UNCHANGED <<ready, next, nextPID, kills, killed>>
  BY DEF Tick
<1>3. CASE timeslot > 1
  <2>1. proc' = Alarms(proc) /\ UNCHANGED <<CurrentPID, ctx, iflag, actualKilled>>
    BY <1>3 DEF Tick
  <2>2. Linked' = Linked
    BY <1>2, SameList
  <2>3. Unborn' /\ Ended'
    BY <1>1, <1>2, <2>1, <2>2 DEF KillInv, Unborn, Ended
  <2>. QED  BY <1>1, <1>2, <2>1, <2>3, LocalKept
<1>4. CASE ~(timeslot > 1)
  <2>. DEFINE at == [ctx[CurrentPID] EXCEPT !.if = TRUE]
  <2>1. Switch(Alarms(proc), at, List)
    BY <1>4 DEF Tick
  <2>2. List \in Seq(Pid) /\ CurrentPID \in Known /\ ctx[CurrentPID] \in Context(CurrentPID)
    BY ListFacts DEF IInv, ProcTyped
  <2>3. /\ \A q \in Pid : proc'[q].parent = proc[q].parent
        /\ iflag' = ctx'[CurrentPID'].if /\ actualKilled' = FALSE
        /\ ctx' = IF actualKilled THEN ctx ELSE [ctx EXCEPT ![CurrentPID] = at]
    BY <1>1, <2>1, <2>2, SwitchKeeps
  <2>4. at.pc # "start"
    <3>1. CurrentPID \in Pid \ Shell => ctx[CurrentPID].pc # "start"
      BY <1>2 DEF KillInv, Unborn
    <3>2. CurrentPID \notin Pid \ Shell => "start" \notin PointsOf(CurrentPID)
      BY <2>2 DEF PointsOf, Known
    <3>. QED  BY <2>2, <3>1, <3>2 DEF Context
  <2>. HIDE DEF at
  <2>. QED  BY <1>2, <2>3, <2>4, SwitchKept
<1>. QED  BY <1>3, <1>4

\* A process blocks.
LEMMA BlocksKeep ==
  ASSUME IInv, IInv', KillInv, kills[CurrentPID] = <<>>, NEW point, point # "start",
         Block(proc, point, List), UNCHANGED <<ready, next, nextPID, kills, killed>>
  PROVE  KillInv'
<1>1. proc \in Table /\ List \in Seq(Pid)
  BY ListFacts DEF IInv, Sound
<1>2. /\ \A q \in Pid : proc'[q].parent = proc[q].parent
      /\ iflag' = ctx'[CurrentPID'].if /\ actualKilled' = FALSE
      /\ ctx' = IF actualKilled THEN ctx
                ELSE [ctx EXCEPT ![CurrentPID] = [pc |-> point, if |-> iflag]]
  BY <1>1, BlockKeeps
<1>3. [pc |-> point, if |-> iflag].pc # "start"
  OBVIOUS
<1>. QED  BY <1>2, <1>3, SwitchKept

\* A new process, whose parent has gone on or given up the CPU.
LEMMA LinkKeeps ==
  ASSUME IInv, IInv', KillInv, kills[CurrentPID] = <<>>,
         nextPID <= MaxPid, Link(nextPID),
         nextPID' = nextPID + 1, UNCHANGED <<kills, killed>>,
         \A q \in Pid : q # nextPID => proc'[q].parent = proc[q].parent,
         proc'[nextPID].parent = CurrentPID,
         CurrentPID \in Shell \/ (CurrentPID \in Pid \ Shell /\ ctx[CurrentPID].pc = "start"),
         Unborn', Ended'
  PROVE  KillInv'
<1>1. Linked' = Linked \cup {nextPID}
  BY LinkStep DEF IInv
<1>2. CurrentPID \in Linked
  BY KillFacts DEF IInv, Listed
<1>3. Ordered' /\ Passed'
  <2>1. Ordered /\ Passed /\ Unborn
    BY DEF KillInv
  <2>. QED  BY <1>1, <2>1, OrderedLink, PassedLink
<1>4. Walking' /\ Searching' /\ Gone' /\ KillIsComplete'
  BY <1>1, <1>2, CallsKept
<1>. QED  BY <1>3, <1>4 DEF KillInv

\* The table with a new process.
LEMMA NewTable ==
  ASSUME IInv, nextPID <= MaxPid, NEW prio \in Nat, NEW isFront \in BOOLEAN, NEW ps,
         ps = [proc EXCEPT ![nextPID] = NewProcess(prio, isFront)]
  PROVE  /\ ps \in Table /\ nextPID \in Pid
         /\ \A q \in Pid : ps[q].parent = IF q = nextPID THEN CurrentPID ELSE proc[q].parent
         /\ CurrentPID \in Known => [ps EXCEPT ![CurrentPID].waitingPid = nextPID] \in Table
         /\ \A q \in Pid : [ps EXCEPT ![CurrentPID].waitingPid = nextPID][q].parent = ps[q].parent
<1>1. proc \in Table /\ nextPID \in Pid /\ CurrentPID \in Known /\ \A q \in Pid : q \in Known
  BY Pids DEF IInv, Sound, ProcTyped, Pid, Known
<1>2. NewProcess(prio, isFront) \in PROCESS /\ NewProcess(prio, isFront).parent = CurrentPID
  BY <1>1 DEF NewProcess, PROCESS
<1>3. ps \in Table /\ \A q \in Known : ps[q] = IF q = nextPID THEN NewProcess(prio, isFront) ELSE proc[q]
  BY <1>1, <1>2 DEF Table
<1>. DEFINE qs == [ps EXCEPT ![CurrentPID].waitingPid = nextPID]
<1>4. /\ qs \in Table
      /\ \A q \in Known : qs[q] = IF q = CurrentPID THEN [ps[q] EXCEPT !.waitingPid = nextPID] ELSE ps[q]
  <2>1. ps[CurrentPID] \in PROCESS /\ nextPID \in Int
    BY <1>1, <1>3, Pids DEF Table
  <2>2. [ps[CurrentPID] EXCEPT !.waitingPid = nextPID] \in PROCESS
    BY <2>1, Updated
  <2>. QED  BY <1>1, <1>3, <2>2 DEF Table
<1>5. \A q \in Pid : qs[q].parent = ps[q].parent
  <2>1. \A q \in Pid : ps[q] \in PROCESS
    BY <1>1, <1>3 DEF Table
  <2>. HIDE DEF qs
  <2>. QED  BY <1>1, <1>4, <2>1 DEF PROCESS
<1>6. \A q \in Pid : ps[q].parent = IF q = nextPID THEN CurrentPID ELSE proc[q].parent
  BY <1>1, <1>2, <1>3
<1>7. ps \in Table /\ nextPID \in Pid /\ (CurrentPID \in Known => qs \in Table)
  <2>. HIDE DEF qs
  <2>. QED  BY <1>1, <1>3, <1>4
<1>. QED  BY <1>5, <1>6, <1>7, Zenon

\* A command starts a child.
LEMMA CommandSpawnsKeeps ==
  ASSUME IInv, IInv', KillInv, NEW prio \in Priorities, CommandSpawns(prio)
  PROVE  KillInv'
<1>1. /\ CurrentPID \in Pid \ Shell /\ kills[CurrentPID] = <<>> /\ ctx[CurrentPID].pc = "start"
      /\ prio \in Nat
  BY Whereabouts, ProcessAssumption DEF CommandSpawns, At
<1>2. /\ nextPID <= MaxPid /\ Link(nextPID) /\ nextPID' = nextPID + 1
      /\ proc' = [proc EXCEPT ![nextPID] = NewProcess(prio, TRUE)]
      /\ UNCHANGED <<CurrentPID, actualKilled, iflag, ctx, kills, killed>>
  BY DEF CommandSpawns
<1>3. nextPID \in Pid /\ \A q \in Pid : proc'[q].parent = IF q = nextPID THEN CurrentPID ELSE proc[q].parent
  BY <1>1, <1>2, NewTable
<1>4. Linked' = Linked \cup {nextPID} /\ \A q \in Pid : q \in Nat
  BY <1>2, LinkStep, Pids DEF IInv
<1>5. Unborn'
  <2>1. SUFFICES ASSUME NEW p \in Pid \ Shell, ctx[p].pc = "start"
                 PROVE  IF p = CurrentPID
                        THEN /\ ~iflag
                             /\ \A r, m \in Pid : proc'[r].parent = p /\ r <= m /\ m < nextPID' => m \in Linked'
                        ELSE ~ctx[p].if /\ \A q \in Pid : proc'[q].parent # p
    BY <1>2 DEF Unborn
  <2>2. CASE p = CurrentPID
    <3>1. ASSUME NEW r \in Pid, NEW m \in Pid, proc'[r].parent = p, r <= m, m < nextPID'
          PROVE  m \in Linked'
      <4>1. m = nextPID \/ (m < nextPID /\ r # nextPID)
        BY <1>2, <1>3, <1>4, <3>1
      <4>2. CASE m < nextPID /\ r # nextPID
        <5>1. proc[r].parent = p
          BY <1>3, <3>1, <4>2
        <5>. QED  BY <1>4, <2>1, <2>2, <3>1, <4>2, <5>1 DEF KillInv, Unborn
      <4>. QED  BY <1>4, <4>1, <4>2
    <3>2. ~iflag
      BY <2>1, <2>2 DEF KillInv, Unborn
    <3>. QED  BY <2>2, <3>1, <3>2
  <2>3. CASE p # CurrentPID
    BY <1>3, <2>1, <2>3 DEF KillInv, Unborn
  <2>. QED  BY <2>2, <2>3
<1>6. Ended'
  BY <1>2 DEF KillInv, Ended
<1>. QED  BY <1>1, <1>2, <1>3, <1>5, <1>6, LinkKeeps

\* A shell starts a command.
LEMMA ShellRunsKeeps ==
  ASSUME IInv, IInv', KillInv, NEW prio \in Priorities, NEW isFront \in BOOLEAN,
         ShellRuns(prio, isFront)
  PROVE  KillInv'
<1>. DEFINE new == [proc EXCEPT ![nextPID] = NewProcess(prio, isFront)]
            waiting == [new EXCEPT ![CurrentPID].waitingPid = nextPID]
            l == Append(List, nextPID)
<1>1. CurrentPID \in Shell /\ kills[CurrentPID] = <<>> /\ prio \in Nat /\ CurrentPID \in Known
  BY Whereabouts, ProcessAssumption DEF ShellRuns, IInv, ProcTyped
<1>2. nextPID <= MaxPid /\ nextPID' = nextPID + 1 /\ Link(nextPID) /\ UNCHANGED <<kills, killed>>
  BY DEF ShellRuns
<1>3. /\ new \in Table /\ nextPID \in Pid /\ waiting \in Table
      /\ \A q \in Pid : new[q].parent = IF q = nextPID THEN CurrentPID ELSE proc[q].parent
      /\ \A q \in Pid : waiting[q].parent = new[q].parent
  BY <1>1, <1>2, NewTable
<1>4. l \in Seq(Pid)
  BY <1>2, LinkStep DEF IInv
<1>5. ~isFront => proc' = new /\ GoTo("after", iflag) /\ UNCHANGED <<CurrentPID, actualKilled>>
  BY DEF ShellRuns
<1>6. isFront => Block(waiting, "after", l)
  BY DEF ShellRuns
<1>. HIDE DEF new, waiting, l
<1>7. CASE ~isFront
  <2>1. \A q \in Pid : proc'[q].parent = IF q = nextPID THEN CurrentPID ELSE proc[q].parent
    BY <1>3, <1>5, <1>7
  <2>2. ctx' = [ctx EXCEPT ![CurrentPID].pc = "after"]
    BY <1>5, <1>7 DEF GoTo
  <2>3. \A q \in Pid : proc'[q].parent = proc[q].parent \/ proc'[q].parent \in Shell
    BY <1>1, <2>1
  <2>4. Unborn'
    BY <1>5, <1>7, <2>2, <2>3, UnbornGoTo DEF KillInv
  <2>5. Ended'
    BY <1>1, <1>5, <1>7 DEF Ended
  <2>. QED  BY <1>1, <1>2, <1>3, <2>1, <2>4, <2>5, LinkKeeps
<1>8. CASE isFront
  <2>. DEFINE at == [pc |-> "after", if |-> iflag]
  <2>1. /\ \A p \in Pid : proc'[p].parent = waiting[p].parent
        /\ iflag' = ctx'[CurrentPID'].if /\ actualKilled' = FALSE
        /\ ctx' = IF actualKilled THEN ctx ELSE [ctx EXCEPT ![CurrentPID] = at]
    BY <1>3, <1>4, <1>6, <1>8, BlockKeeps
  <2>2. \A q \in Pid : proc'[q].parent = IF q = nextPID THEN CurrentPID ELSE proc[q].parent
    BY <1>3, <2>1
  <2>3. \A q \in Pid : proc'[q].parent = proc[q].parent \/ proc'[q].parent \in Shell
    BY <1>1, <2>2
  <2>4. at.pc # "start"
    OBVIOUS
  <2>. HIDE DEF at
  <2>5. Unborn'
    BY <2>1, <2>3, <2>4, UnbornSwitch DEF KillInv
  <2>6. Ended'
    BY <2>1 DEF Ended
  <2>. QED  BY <1>1, <1>2, <1>3, <2>2, <2>5, <2>6, LinkKeeps
<1>. QED  BY <1>7, <1>8

\* The end of a command.
LEMMA EndKeeps ==
  ASSUME IInv, IInv', KillInv, end_process
  PROVE  KillInv'
<1>. DEFINE p == GetProcessByPID(CurrentPID)
<1>1. CurrentPID \in Pid \ Shell /\ kills[CurrentPID] = <<>>
  BY Whereabouts DEF end_process
<1>2. /\ proc' = (IF p = IDLE THEN proc ELSE ReleaseParent(proc, p))
      /\ Unlink(CurrentPID) /\ ctx' = [ctx EXCEPT ![CurrentPID].pc = "dead"]
      /\ UNCHANGED <<CurrentPID, nextPID, kills, killed>>
  BY DEF end_process, GoTo
<1>3. Linked' = Linked \ {CurrentPID}
  BY <1>1, <1>2, UnlinkStep DEF IInv
<1>4. \A q \in Pid : proc'[q].parent = proc[q].parent
  <2>. HIDE DEF p
  <2>1. proc \in Table
    BY DEF IInv, Sound
  <2>2. Eased(proc, ReleaseParent(proc, p))
    BY <2>1, ReleaseEases DEF IInv
  <2>. QED  BY <1>2, <2>2 DEF Eased, Known
<1>5. Ordered' /\ Passed'
  <2>1. Ordered /\ Passed
    BY DEF KillInv
  <2>. QED  BY <1>1, <1>2, <1>3, <1>4, <2>1, OrderedUnlink, PassedUnlink
<1>6. Walking' /\ Searching' /\ Gone' /\ KillIsComplete'
  BY <1>1, <1>2, <1>3, <1>4, CallsKept
<1>7. Unborn'
  BY <1>2, <1>4, UnbornGoTo DEF KillInv
<1>8. Ended'
  <2>1. ctx'[CurrentPID].pc = "dead"
    BY <1>2 DEF IInv, ProcTyped, Context
  <2>. QED  BY <1>2, <2>1 DEF Ended
<1>. QED  BY <1>5, <1>6, <1>7, <1>8 DEF KillInv

\* The steps of a shell or a command that leave the list alone.
LEMMA QuietKeeps ==
  ASSUME IInv, IInv', KillInv,
         ShellCli \/ ShellBuiltin \/ ShellSti \/ CommandSti \/ Sleep
  PROVE  KillInv'
<1>1. CASE ShellCli \/ ShellBuiltin \/ ShellSti \/ CommandSti
  <2>1. PICK p, point : /\ p \in {"read", "loop", "after", "sti", "start"}
                        /\ point \in {"loop", "read", "after", "run"}
                        /\ At(p) /\ ctx' = [ctx EXCEPT ![CurrentPID].pc = point]
    BY <1>1 DEF ShellCli, ShellBuiltin, ShellSti, CommandSti, GoTo
  <2>2. UNCHANGED <<ready, next, proc, nextPID, kills, killed, CurrentPID, actualKilled>>
    BY <1>1 DEF ShellCli, ShellBuiltin, ShellSti, CommandSti
  <2>. QED  BY <2>1, <2>2, GoToKept
<1>2. CASE Sleep
  <2>. DEFINE w == GetProcessByPID(CurrentPID)
  <2>1. w \in Known /\ proc \in Table
    BY Process DEF IInv, Sound
  <2>2. /\ At("run") /\ ctx' = [ctx EXCEPT ![CurrentPID].pc = "sleep"]
        /\ proc' = [proc EXCEPT ![w].sleep = SLEEP]
        /\ UNCHANGED <<ready, next, nextPID, kills, killed, CurrentPID, actualKilled>>
    BY <1>2 DEF Sleep, GoTo
  <2>. HIDE DEF w
  <2>3. \A q \in Pid : proc'[q].parent = proc[q].parent
    <3>1. \A q \in Pid : q \in Known /\ proc[q] \in PROCESS
      BY <2>1 DEF Table, Known
    <3>2. \A q \in Pid : proc'[q] = IF q = w THEN [proc[q] EXCEPT !.sleep = SLEEP] ELSE proc[q]
      BY <2>1, <2>2, <3>1 DEF Table
    <3>. QED  BY <3>1, <3>2 DEF PROCESS
  <2>. QED  BY <2>2, <2>3, GoToKept
<1>. QED  BY <1>1, <1>2

\* Enter.
LEMMA EnterKeeps ==
  ASSUME IInv, IInv', KillInv, NEW s \in Shell, Enter(s)
  PROVE  KillInv'
<1>1. /\ iflag /\ proc' = awake_process(proc, s)
      /\ UNCHANGED <<ready, next, nextPID, kills, killed, CurrentPID, actualKilled, iflag, ctx>>
  BY DEF Enter
<1>2. \A q \in Pid : proc'[q].parent = proc[q].parent
  <2>1. Eased(proc, proc')
    BY <1>1, AwakeEases DEF IInv, Sound
  <2>. QED  BY <2>1 DEF Eased, Known
<1>3. Linked' = Linked
  BY <1>1, SameList
<1>4. Unborn' /\ Ended'
  BY <1>1, <1>2, <1>3 DEF KillInv, Unborn, Ended
<1>. QED  BY <1>1, <1>2, <1>4, LocalKept

\* The steps in which a process blocks.
LEMMA BlockingKeeps ==
  ASSUME IInv, IInv', KillInv, ShellBlock \/ SleepBlocks
  PROVE  KillInv'
<1>1. PICK point : point # "start" /\ Block(proc, point, List)
  BY DEF ShellBlock, SleepBlocks
<1>2. kills[CurrentPID] = <<>> /\ UNCHANGED <<ready, next, nextPID, kills, killed>>
  BY DEF ShellBlock, SleepBlocks, At
<1>. QED  BY <1>1, <1>2, BlocksKeep

\* What a stack of kills that waits for the kill of p must be like.
Awaits(s, ps, L, p) ==
  \A i \in 1 .. Len(s) :
    /\ i > 1 => ~s[i].if
    /\ ~s[i].over
    /\ s[i].aux = IF i < Len(s) THEN s[i + 1].pid ELSE p
    /\ ps[s[i].aux].parent = s[i].pid /\ ChildrenFrom(ps, L, s[i].pid, s[i].aux)

\* A kill begins, from a shell or from the kill of the parent.
LEMMA KillBeginsKeeps ==
  ASSUME IInv, IInv', KillInv, NEW pid \in Pid \ Shell,
         NEW stack \in Seq(Call), NEW flag \in BOOLEAN, KillBegins(pid, stack, flag),
         Awaits(stack, proc, Linked, pid), stack # <<>> => ~flag,
         UNCHANGED <<ready, next, CurrentPID, nextPID, killed>>,
         \/ ctx' = [ctx EXCEPT ![CurrentPID].pc = "after"]
         \/ /\ ctx' = ctx
            /\ CurrentPID \in Shell \/ (CurrentPID \in Pid \ Shell /\ ctx[CurrentPID].pc # "start")
  PROVE  KillInv'
<1>. DEFINE c == CurrentPID
            top == Frame(pid, flag)
            calls == Append(stack, top)
<1>1. /\ iflag' = FALSE /\ proc' = (IF InList(pid) THEN ReleaseParent(proc, pid) ELSE proc)
      /\ kills' = [kills EXCEPT ![c] = calls]
  BY DEF KillBegins
<1>2. c \in Known /\ kills \in [Known -> Seq(Call)] /\ ready \in Node /\ Linked \subseteq Pid
  BY ListFacts DEF IInv, ProcTyped
<1>3. top \in Call /\ top.pid = pid /\ ~top.over /\ top.aux = ready /\ top.if = flag
  BY <1>2 DEF Frame, Call
<1>. HIDE DEF top
<1>4. /\ calls \in Seq(Call) /\ Len(calls) = Len(stack) + 1 /\ Len(stack) \in Nat
      /\ calls[Len(calls)] = top /\ \A i \in 1 .. Len(stack) : calls[i] = stack[i]
  BY <1>3
<1>. HIDE DEF calls
<1>5. \A q \in Known : kills'[q] = IF q = c THEN calls ELSE kills[q]
  BY <1>1, <1>2
<1>6. \A q \in Pid : proc'[q].parent = proc[q].parent
  <2>1. Eased(proc, ReleaseParent(proc, pid))
    BY ReleaseEases DEF IInv, Sound
  <2>. QED  BY <1>1, <2>1 DEF Eased, Known
<1>7. Linked' = Linked
  BY SameList
<1>8. Ordered' /\ Passed'
  BY <1>2, <1>6, OrderedSame DEF KillInv
<1>9. Walking'
  <2>1. SUFFICES ASSUME NEW q \in Known PROVE Walks(kills'[q], proc', Linked)
    BY <1>7 DEF Walking
  <2>2. CASE q # c
    <3>1. Walks(kills[q], proc', Linked')
      <4>1. Walks(kills[q], proc, Linked) /\ Linked' \subseteq Pid /\ Linked' \subseteq Linked \cup {nextPID}
        BY <1>2, <1>7 DEF KillInv, Walking
      <4>. QED  BY <1>6, <4>1, WalksKept
    <3>. QED  BY <1>5, <1>7, <2>2, <3>1
  <2>3. CASE q = c
    <3>1. ASSUME NEW i \in 1 .. Len(stack)
          PROVE  /\ i > 1 => ~calls[i].if
                 /\ ~calls[i].over /\ calls[i].aux = calls[i + 1].pid /\ calls[i].aux \in Pid
                 /\ proc[calls[i].aux].parent = calls[i].pid
                 /\ ChildrenFrom(proc, Linked, calls[i].pid, calls[i].aux)
      <4>1. /\ i > 1 => ~stack[i].if
            /\ ~stack[i].over
            /\ stack[i].aux = IF i < Len(stack) THEN stack[i + 1].pid ELSE pid
            /\ proc[stack[i].aux].parent = stack[i].pid
            /\ ChildrenFrom(proc, Linked, stack[i].pid, stack[i].aux)
        BY DEF Awaits
      <4>2. i < Len(stack) \/ i = Len(stack)
        BY <1>4
      <4>3. CASE i < Len(stack)
        <5>1. i + 1 \in 1 .. Len(stack) /\ stack[i + 1] \in Call
          BY <1>4, <4>3
        <5>2. calls[i + 1] = stack[i + 1] /\ stack[i + 1].pid \in Pid
          BY <1>4, <5>1 DEF Call
        <5>. QED  BY <1>4, <4>1, <4>3, <5>2
      <4>4. CASE i = Len(stack)
        BY <1>3, <1>4, <4>1, <4>4
      <4>. QED  BY <1>4, <4>3, <4>4
    <3>2. Len(stack) + 1 > 1 => ~top.if
      BY <1>3, <1>4
    <3>3. ASSUME NEW i \in 1 .. Len(calls)
          PROVE  /\ i > 1 => ~calls[i].if
                 /\ i < Len(calls) =>
                      /\ ~calls[i].over /\ calls[i].aux = calls[i + 1].pid
                      /\ proc'[calls[i].aux].parent = calls[i].pid
                      /\ ChildrenFrom(proc', Linked, calls[i].pid, calls[i].aux)
                 /\ calls[i].over => Childless(proc', Linked, calls[i].pid)
      <4>1. CASE i \in 1 .. Len(stack)
        <5>1. \A n, p : ChildrenFrom(proc, Linked, p, n) => ChildrenFrom(proc', Linked, p, n)
          BY <1>2, <1>6 DEF ChildrenFrom
        <5>. QED  BY <1>6, <3>1, <4>1, <5>1
      <4>2. CASE i = Len(calls)
        BY <1>3, <1>4, <3>2, <4>2
      <4>. QED  BY <1>4, <4>1, <4>2
    <3>. QED  BY <1>5, <2>3, <3>3 DEF Walks
  <2>. QED  BY <2>2, <2>3
<1>10. Searching'
  <2>1. SUFFICES ASSUME NEW q \in Known, kills'[q] # <<>>, ~kills'[q][Len(kills'[q])].over
                 PROVE  q = c /\ kills'[q][Len(kills'[q])].aux = ready
    BY <1>1 DEF Searching
  <2>2. CASE q = c
    BY <1>3, <1>4, <1>5, <2>2
  <2>3. CASE q # c
    BY <1>5, <2>1, <2>3 DEF KillInv, Searching
  <2>. QED  BY <2>2, <2>3
<1>11. CurrentPID \in Pid \ Shell => ctx'[CurrentPID].pc # "start"
  <2>1. ctx' = [ctx EXCEPT ![CurrentPID].pc = "after"] => ctx'[CurrentPID].pc = "after"
    BY DEF IInv, ProcTyped, Context
  <2>. QED  BY <2>1
<1>12. Unborn'
  <2>1. \A p \in Pid \ Shell : ctx'[p].pc = "start" => ctx'[p] = ctx[p] /\ p # CurrentPID
    BY <1>11 DEF IInv, ProcTyped, Known
  <2>. QED  BY <1>6, <2>1 DEF KillInv, Unborn
<1>13. Gone'
  BY <1>7 DEF KillInv, Gone
<1>14. KillIsComplete'
  BY <1>6, <1>7 DEF KillInv, KillIsComplete, InList
<1>. QED  BY <1>8, <1>9, <1>10, <1>12, <1>13, <1>11, <1>14 DEF KillInv, Ended

\* The kill command of a shell.
LEMMA ShellKillsKeeps ==
  ASSUME IInv, IInv', KillInv, NEW pid \in 1 .. nextPID - 1, ShellKills(pid)
  PROVE  KillInv'
<1>1. CurrentPID \in Shell /\ kills[CurrentPID] = <<>> /\ At("read")
  BY Whereabouts DEF ShellKills
<1>2. /\ ctx' = [ctx EXCEPT ![CurrentPID].pc = "after"]
      /\ UNCHANGED <<ready, next, CurrentPID, nextPID, killed>>
  BY DEF ShellKills
<1>3. CASE Protected(pid)
  <2>1. UNCHANGED <<actualKilled, proc, kills>>
    BY <1>3 DEF ShellKills
  <2>. QED  BY <1>1, <1>2, <2>1, GoToKept
<1>4. CASE ~Protected(pid)
  <2>1. KillBegins(pid, <<>>, iflag)
    BY <1>4 DEF ShellKills
  <2>2. pid \in Pid \ Shell /\ iflag \in BOOLEAN
    BY <1>4, Pids DEF Protected, Pid, IInv, ProcTyped
  <2>3. <<>> \in Seq(Call) /\ Awaits(<<>>, proc, Linked, pid)
    BY DEF Awaits
  <2>. QED  BY <1>1, <1>2, <2>1, <2>2, <2>3, KillBeginsKeeps
<1>. QED  BY <1>3, <1>4

\* Ctrl-C, which hits no command before it has started.
LEMMA CtrlCKeeps ==
  ASSUME IInv, IInv', KillInv, CtrlC
  PROVE  KillInv'
<1>1. /\ iflag /\ CurrentPID \in Pid \ Shell /\ KillBegins(CurrentPID, <<>>, TRUE)
      /\ UNCHANGED <<ready, next, CurrentPID, nextPID, ctx, killed>>
  BY DEF CtrlC, Protected, IInv, ProcTyped, Known
<1>2. ctx[CurrentPID].pc # "start"
  BY <1>1 DEF KillInv, Unborn
<1>3. <<>> \in Seq(Call) /\ Awaits(<<>>, proc, Linked, CurrentPID) /\ TRUE \in BOOLEAN
  BY DEF Awaits
<1>. QED  BY <1>1, <1>2, <1>3, KillBeginsKeeps

\* The walk of a kill comes past every child of the process that is in the list.
LEMMA WalkFinds ==
  ASSUME IInv, KillInv, NEW p \in Pid \ Shell, NEW aux,
         \/ aux = ready
         \/ \E n \in Pid : /\ proc[n].parent = p /\ aux = next[n] /\ n \notin Linked
                           /\ ChildrenFrom(proc, Linked, p, n)
  PROVE  /\ aux \in Node /\ ListFrom(aux, next) \in Seq(Pid)
         /\ \A q \in Linked : proc[q].parent = p =>
              \E i \in 1 .. Len(ListFrom(aux, next)) : ListFrom(aux, next)[i] = q
<1>1. /\ next \in [Pid -> Node] /\ ready \in Node /\ Linked \subseteq Pid /\ Linked = Nodes(List)
      /\ \A k \in Pid : next[k] # Nil => k < next[k]
      /\ \A k \in Pid : k \in Nat /\ next[k] \in Nat
      /\ p \notin Shell \cup {IDLE}
  BY ListFacts, Pids DEF IInv, ProcTyped, KillInv, Ordered, Node
<1>2. aux \in Node
  BY <1>1
<1>3. ASSUME NEW q \in Linked, proc[q].parent = p
      PROVE  \E i \in 1 .. Len(ListFrom(aux, next)) : ListFrom(aux, next)[i] = q
  <2>1. CASE aux = ready
    BY <1>1, <2>1 DEF List, Nodes
  <2>2. CASE aux # ready
    <3>1. PICK n \in Pid : /\ proc[n].parent = p /\ aux = next[n] /\ n \notin Linked
                           /\ ChildrenFrom(proc, Linked, p, n)
      BY <2>2
    <3>2. q \in Pid /\ n < q
      <4>1. q >= n /\ q # n
        BY <1>3, <3>1 DEF ChildrenFrom
      <4>. QED  BY <1>1, <4>1
    <3>3. ASSUME NEW k \in Pid, n <= k, k < q PROVE next[k] # Nil /\ next[k] <= q
      <4>1. next[k] # Nil
        <5>1. k \in Linked => next[k] # Nil
          BY <3>2, <3>3 DEF KillInv, Ordered
        <5>2. ~(k \notin Linked /\ next[k] = Nil)
          BY <1>1, <1>3, <3>1, <3>3 DEF KillInv, Passed
        <5>. QED  BY <5>1, <5>2
      <4>2. q >= next[k]
        BY <1>3, <3>3, <4>1 DEF KillInv, Ordered
      <4>. QED  BY <1>1, <3>2, <4>1, <4>2
    <3>4. aux # Nil /\ aux <= q /\ n < aux
      <4>1. n <= n
        BY <1>1
      <4>. QED  BY <1>1, <3>1, <3>2, <3>3, <4>1
    <3>5. \A k \in Pid : aux <= k /\ k < q => next[k] # Nil /\ next[k] <= q
      <4>1. \A k \in Pid : aux <= k => n <= k
        BY <1>1, <3>1, <3>4
      <4>. QED  BY <3>3, <4>1
    <3>6. next \in [Pid -> Node] /\ \A k \in Pid : next[k] # Nil => k < next[k]
      BY <1>1
    <3>. DEFINE l == ListFrom(aux, next)
    <3>7. l = ListFrom(aux, next)
      OBVIOUS
    <3>8. aux # Nil /\ aux <= q /\ q \in Pid
      BY <3>2, <3>4
    <3>. HIDE DEF l
    <3>9. \E i \in 1 .. Len(l) : l[i] = q
      BY <1>2, <3>5, <3>6, <3>7, <3>8, ListReaches
    <3>. QED  BY <3>9 DEF l
  <2>. QED  BY <2>1, <2>2
<1>. QED  BY <1>1, <1>2, <1>3, ListSeq

\* The walk finds the next child, or there is none left.
LEMMA KillWalksKeeps ==
  ASSUME IInv, IInv', KillInv, KillWalks
  PROVE  KillInv'
<1>. DEFINE c == CurrentPID
            stack == kills[c]
            top == Len(stack)
            f == stack[top]
            rest == ListFrom(f.aux, next)
            children == {i \in 1 .. Len(rest) : proc[rest[i]].parent = f.pid}
            child == rest[CHOOSE i \in children : \A j \in children : i <= j]
<1>1. stack # <<>> /\ ~f.over /\ UNCHANGED <<CurrentPID, nextPID, ctx, killed>>
  BY DEF KillWalks
<1>2. c \in Known /\ stack \in Seq(Call) /\ kills \in [Known -> Seq(Call)]
  BY DEF IInv, ProcTyped
<1>3. top \in Nat /\ top \in 1 .. top /\ f \in Call
  BY <1>1, <1>2
<1>4. /\ f.pid \in Pid \ Shell /\ ~iflag
      /\ \/ f.aux = ready
         \/ \E n \in Pid : /\ proc[n].parent = f.pid /\ f.aux = next[n] /\ n \notin Linked
                           /\ ChildrenFrom(proc, Linked, f.pid, n)
  BY <1>1, <1>2, <1>3 DEF KillInv, Searching, Call
<1>5. /\ f.aux \in Node /\ rest \in Seq(Pid)
      /\ \A q \in Linked : proc[q].parent = f.pid => \E i \in 1 .. Len(rest) : rest[i] = q
  <2>. HIDE DEF f
  <2>. QED  BY <1>4, WalkFinds
<1>6. \A i \in 1 .. top :
        /\ i > 1 => ~stack[i].if
        /\ i < top => /\ ~stack[i].over /\ stack[i].aux = stack[i + 1].pid
                      /\ proc[stack[i].aux].parent = stack[i].pid
                      /\ ChildrenFrom(proc, Linked, stack[i].pid, stack[i].aux)
        /\ stack[i].over => Childless(proc, Linked, stack[i].pid)
  BY <1>2 DEF KillInv, Walking, Walks
<1>7. CASE children # {}
  <2>1. /\ child \in Pid /\ proc[child].parent = f.pid /\ ChildrenFrom(proc, Linked, f.pid, child)
    <3>0. \A i, j \in 1 .. Len(rest) : i <= j => rest[i] <= rest[j]
      <4>1. next \in [Pid -> Node] /\ \A k \in Pid : next[k] # Nil => k < next[k]
        BY DEF IInv, ProcTyped, KillInv, Ordered
      <4>. HIDE DEF f
      <4>. QED  BY <1>5, <4>1, ListRises
    <3>. HIDE DEF rest
    <3>2. children \in SUBSET Nat
      OBVIOUS
    <3>3. \E i \in children : \A j \in children : i <= j
      <4>. HIDE DEF children
      <4>. QED  BY <1>7, <3>2, LeastNat
    <3>. DEFINE k == CHOOSE i \in children : \A j \in children : i <= j
    <3>4. k \in children /\ \A j \in children : k <= j
      <4>. HIDE DEF children
      <4>. QED  BY <3>3
    <3>5. child = rest[k]
      OBVIOUS
    <3>6. k \in 1 .. Len(rest) /\ proc[rest[k]].parent = f.pid
      BY <3>4
    <3>7. ASSUME NEW q \in Linked, proc[q].parent = f.pid PROVE q >= rest[k]
      <4>1. PICK i \in 1 .. Len(rest) : rest[i] = q
        BY <1>5, <3>7
      <4>2. i \in children
        BY <3>7, <4>1
      <4>3. k <= i
        BY <3>4, <4>2
      <4>. HIDE DEF k, f
      <4>4. rest[k] <= rest[i]
        BY <3>0, <3>6, <4>3
      <4>5. rest[k] \in Nat /\ rest[i] \in Nat
        BY <1>5, <3>6, Pids
      <4>. QED  BY <4>1, <4>4, <4>5
    <3>. HIDE DEF k, child, f
    <3>. QED  BY <1>5, <3>5, <3>6, <3>7 DEF ChildrenFrom
  <2>. DEFINE outer == [stack EXCEPT ![top].aux = child]
  <2>2. KillBegins(child, outer, iflag) /\ UNCHANGED <<ready, next>>
    BY <1>7 DEF KillWalks
  <2>. HIDE DEF child
  <2>3. child \in Pid \ Shell
    <3>1. f.pid # IDLE
      BY <1>4, Pids
    <3>. QED  BY <2>1, <3>1 DEF IInv, Sound, Families
  <2>. DEFINE r == [f EXCEPT !.aux = child]
  <2>4. r \in Call /\ r.pid = f.pid /\ r.over = f.over /\ r.aux = child /\ r.if = f.if
    BY <1>3, <2>1 DEF Call, Node
  <2>5. outer = [stack EXCEPT ![top] = r]
    OBVIOUS
  <2>. HIDE DEF outer, r
  <2>6. /\ outer \in Seq(Call) /\ Len(outer) = top
        /\ \A i \in 1 .. top : outer[i] = IF i = top THEN r ELSE stack[i]
    BY <1>2, <1>3, <2>4, <2>5
  <2>7. Awaits(outer, proc, Linked, child)
    <3>1. SUFFICES ASSUME NEW i \in 1 .. top
                   PROVE  /\ i > 1 => ~outer[i].if
                          /\ ~outer[i].over
                          /\ outer[i].aux = IF i < top THEN outer[i + 1].pid ELSE child
                          /\ proc[outer[i].aux].parent = outer[i].pid
                          /\ ChildrenFrom(proc, Linked, outer[i].pid, outer[i].aux)
      BY <2>6 DEF Awaits
    <3>2. CASE i = top
      BY <1>1, <1>3, <1>6, <2>1, <2>4, <2>6, <3>2
    <3>3. CASE i < top
      <4>1. i + 1 \in 1 .. top /\ outer[i] = stack[i]
        BY <1>3, <2>6, <3>3
      <4>2. outer[i + 1].pid = stack[i + 1].pid
        BY <2>4, <2>6, <4>1
      <4>. HIDE DEF f, stack
      <4>. QED  BY <1>6, <3>3, <4>1, <4>2
    <3>4. i = top \/ i < top
      <4>. HIDE DEF stack
      <4>. QED  BY <1>3
    <3>. QED  BY <3>2, <3>3, <3>4
  <2>8. iflag \in BOOLEAN
    BY DEF IInv, ProcTyped
  <2>9. c \in Shell \/ (c \in Pid \ Shell /\ ctx[c].pc # "start")
    BY <1>1, KillFacts
  <2>. QED  BY <1>1, <1>3, <1>4, <2>2, <2>3, <2>6, <2>7, <2>8, <2>9, KillBeginsKeeps
<1>8. CASE children = {}
  <2>. DEFINE r == [f EXCEPT !.over = TRUE]
              calls == [stack EXCEPT ![top] = r]
  <2>1. /\ Unlink(f.pid) /\ kills' = [kills EXCEPT ![c][top].over = TRUE]
        /\ UNCHANGED <<proc, actualKilled>>
    BY <1>8 DEF KillWalks
  <2>2. kills' = [kills EXCEPT ![c] = calls]
    BY <1>2, <2>1
  <2>3. /\ r \in Call /\ r.over /\ r.pid = f.pid /\ r.if = f.if
    BY <1>3 DEF Call
  <2>. HIDE DEF r
  <2>4. /\ calls \in Seq(Call) /\ Len(calls) = top
        /\ \A i \in 1 .. top : calls[i] = IF i = top THEN r ELSE stack[i]
    BY <1>2, <1>3, <2>3
  <2>. HIDE DEF calls
  <2>5. Linked' = Linked \ {f.pid} /\ Linked \subseteq Pid /\ Linked' \subseteq Linked \cup {nextPID}
    BY <1>1, <1>4, <2>1, UnlinkStep, ListFacts DEF IInv
  <2>6. Childless(proc, Linked, f.pid)
    BY <1>5, <1>8 DEF Childless
  <2>. HIDE DEF f, rest
  <2>7. Ordered' /\ Passed'
    <3>1. Ordered /\ Passed
      BY DEF KillInv
    <3>. QED  BY <1>1, <1>4, <2>1, <2>5, <3>1, OrderedUnlink, PassedUnlink
  <2>8. \A q \in Known : kills'[q] = IF q = c THEN calls ELSE kills[q]
    BY <1>2, <2>2
  <2>9. Walking'
    <3>1. SUFFICES ASSUME NEW q \in Known PROVE Walks(kills'[q], proc', Linked')
      BY DEF Walking
    <3>2. CASE q # c
      <4>1. Walks(kills[q], proc, Linked)
        BY DEF KillInv, Walking
      <4>2. Walks(kills[q], proc', Linked')
        BY <2>1, <2>5, <4>1, WalksKept
      <4>. QED  BY <2>8, <3>2, <4>2
    <3>3. CASE q = c
      <4>1. \A p, n : ChildrenFrom(proc, Linked, p, n) => ChildrenFrom(proc', Linked', p, n)
        BY <2>1, <2>5 DEF ChildrenFrom
      <4>2. \A p : Childless(proc, Linked, p) => Childless(proc', Linked', p)
        BY <2>1, <2>5 DEF Childless
      <4>3. ASSUME NEW i \in 1 .. top
            PROVE  /\ i > 1 => ~calls[i].if
                   /\ i < top =>
                        /\ ~calls[i].over /\ calls[i].aux = calls[i + 1].pid
                        /\ proc'[calls[i].aux].parent = calls[i].pid
                        /\ ChildrenFrom(proc', Linked', calls[i].pid, calls[i].aux)
                   /\ calls[i].over => Childless(proc', Linked', calls[i].pid)
        <5>1. CASE i = top
          BY <1>3, <1>6, <2>3, <2>4, <2>6, <4>2, <5>1 DEF f
        <5>2. CASE i < top
          <6>. HIDE DEF stack
          <6>1. i + 1 \in 1 .. top /\ calls[i] = stack[i]
            BY <1>3, <2>4, <5>2
          <6>2. calls[i + 1].pid = stack[i + 1].pid
            BY <2>3, <2>4, <6>1 DEF f
          <6>. QED  BY <1>6, <2>1, <4>1, <4>2, <5>2, <6>1, <6>2
        <5>3. i = top \/ i < top
          <6>. HIDE DEF stack
          <6>. QED  BY <1>3
        <5>. QED  BY <5>1, <5>2, <5>3
      <4>4. Walks(calls, proc', Linked')
        BY <2>4, <4>3 DEF Walks
      <4>. QED  BY <2>8, <3>3, <4>4
    <3>. QED  BY <3>2, <3>3
  <2>10. Searching'
    <3>1. SUFFICES ASSUME NEW q \in Known, kills'[q] # <<>>, ~kills'[q][Len(kills'[q])].over
                   PROVE  FALSE
      BY DEF Searching
    <3>2. CASE q = c
      <4>. HIDE DEF stack
      <4>. QED  BY <1>3, <2>3, <2>4, <2>8, <3>1, <3>2
    <3>3. CASE q # c
      BY <2>8, <3>1, <3>3 DEF KillInv, Searching
    <3>. QED  BY <3>2, <3>3
  <2>11. Unborn'
    <3>1. CurrentPID \in Pid \ Shell => ctx[CurrentPID].pc # "start"
      BY <1>1, KillFacts
    <3>. QED  BY <1>1, <2>1, <3>1 DEF KillInv, Unborn
  <2>12. Ended' /\ Gone' /\ KillIsComplete'
    BY <1>1, <2>1, <2>5 DEF KillInv, Ended, Gone, KillIsComplete, InList
  <2>. QED  BY <2>7, <2>9, <2>10, <2>11, <2>12 DEF KillInv
<1>. QED  BY <1>7, <1>8

\* A kill returns, and the walk that called it goes on behind the process it killed.
LEMMA KillReturnsKeeps ==
  ASSUME IInv, IInv', KillInv, KillReturns
  PROVE  KillInv'
<1>. DEFINE c == CurrentPID
            stack == kills[c]
            n == Len(stack)
            f == stack[n]
            outer == SubSeq(stack, 1, n - 1)
            calls == IF outer = <<>> THEN outer ELSE [outer EXCEPT ![Len(outer)].aux = next[@]]
<1>1. /\ stack # <<>> /\ f.over /\ kills' = [kills EXCEPT ![c] = calls] /\ iflag' = f.if
      /\ killed' = killed \cup {f.pid}
      /\ UNCHANGED <<ready, next, proc, CurrentPID, actualKilled, nextPID, ctx>>
  BY DEF KillReturns
<1>2. /\ c \in Known /\ stack \in Seq(Call) /\ kills \in [Known -> Seq(Call)] /\ next \in [Pid -> Node]
      /\ Linked \subseteq Pid
  BY ListFacts DEF IInv, ProcTyped
<1>3. n \in Nat /\ n \in 1 .. n /\ f \in Call
  BY <1>1, <1>2
<1>4. \A i \in 1 .. n :
        /\ i > 1 => ~stack[i].if
        /\ i < n => /\ ~stack[i].over /\ stack[i].aux = stack[i + 1].pid
                    /\ proc[stack[i].aux].parent = stack[i].pid
                    /\ ChildrenFrom(proc, Linked, stack[i].pid, stack[i].aux)
        /\ stack[i].over => Childless(proc, Linked, stack[i].pid)
  BY <1>2 DEF KillInv, Walking, Walks
<1>5. /\ f.pid \in Pid \ Shell /\ f.pid < nextPID /\ f.pid \notin Linked
      /\ Childless(proc, Linked, f.pid)
  <2>1. f.pid < nextPID /\ (f.over => f.pid \notin Linked)
    BY <1>2, <1>3 DEF IInv, CallsSound
  <2>2. f.over => Childless(proc, Linked, f.pid)
    BY <1>3, <1>4
  <2>. QED  BY <1>1, <1>3, <2>1, <2>2 DEF Call
<1>6. /\ outer \in Seq(Call) /\ Len(outer) = n - 1
      /\ \A i \in 1 .. n - 1 : outer[i] = stack[i] /\ stack[i] \in Call
  <2>1. stack \in Seq(Call) /\ n - 1 \in Nat /\ (n - 1) + 1 = Len(stack)
    BY <1>2, <1>3
  <2>2. /\ outer \in Seq(Call) /\ Len(outer) = n - 1
        /\ \A i \in 1 .. n - 1 : outer[i] = stack[i]
    BY <2>1, Front
  <2>3. \A i \in 1 .. n - 1 : stack[i] \in Call
    BY <1>2, <1>3
  <2>. HIDE DEF outer
  <2>. QED  BY <2>2, <2>3
<1>7. ASSUME n > 1
      PROVE  /\ stack[n - 1].aux = f.pid /\ n - 1 \in 1 .. n /\ n - 1 < n
             /\ ~stack[n - 1].over /\ proc[f.pid].parent = stack[n - 1].pid
             /\ ChildrenFrom(proc, Linked, stack[n - 1].pid, f.pid) /\ ~f.if
  <2>1. n - 1 \in 1 .. n /\ n - 1 < n /\ (n - 1) + 1 = n
    BY <1>3, <1>7
  <2>. HIDE DEF n
  <2>. QED  BY <1>3, <1>4, <1>7, <2>1
<1>8. /\ calls \in Seq(Call) /\ Len(calls) = n - 1
      /\ \A i \in 1 .. n - 1 :
           /\ calls[i].pid = stack[i].pid /\ calls[i].over = stack[i].over /\ calls[i].if = stack[i].if
           /\ calls[i].aux = IF i = n - 1 THEN next[f.pid] ELSE stack[i].aux
  <2>1. CASE outer = <<>>
    <3>1. calls = <<>> /\ n - 1 = 0
      BY <1>6, <2>1
    <3>. HIDE DEF calls, stack, n
    <3>. QED  BY <3>1
  <2>2. CASE outer # <<>>
    <3>. DEFINE r == [outer[n - 1] EXCEPT !.aux = next[outer[n - 1].aux]]
    <3>. HIDE DEF outer, n
    <3>1. n - 1 \in 1 .. n - 1 /\ n - 1 \in Nat /\ n > 1
      BY <1>3, <1>6, <2>2
    <3>2. outer[n - 1] = stack[n - 1] /\ stack[n - 1] \in Call /\ stack[n - 1].aux = f.pid
      BY <1>6, <1>7, <3>1
    <3>3. next[f.pid] \in Node
      BY <1>2, <1>5
    <3>4. /\ r \in Call /\ r.aux = next[f.pid] /\ r.pid = stack[n - 1].pid
          /\ r.over = stack[n - 1].over /\ r.if = stack[n - 1].if
      <4>. HIDE DEF f, stack
      <4>. QED  BY <3>2, <3>3 DEF Call
    <3>5. calls = [outer EXCEPT ![n - 1] = r]
      BY <1>6, <2>2
    <3>. HIDE DEF calls, r, f, stack
    <3>6. calls \in Seq(Call) /\ Len(calls) = n - 1 /\ \A i \in 1 .. n - 1 : calls[i] = IF i = n - 1 THEN r ELSE outer[i]
      BY <1>6, <3>1, <3>4, <3>5
    <3>. QED  BY <1>6, <3>4, <3>6
  <2>. QED  BY <2>1, <2>2
<1>. HIDE DEF calls, outer
<1>9. \A q \in Known : kills'[q] = IF q = c THEN calls ELSE kills[q]
  BY <1>1, <1>2
<1>10. Linked' = Linked
  BY <1>1, SameList
<1>11. Ordered' /\ Passed'
  BY <1>1, <1>2, OrderedSame DEF KillInv
<1>12. Walking'
  <2>1. SUFFICES ASSUME NEW q \in Known PROVE Walks(kills'[q], proc, Linked)
    BY <1>1, <1>10 DEF Walking
  <2>2. CASE q # c
    BY <1>9, <2>2 DEF KillInv, Walking
  <2>3. CASE q = c
    <3>1. ASSUME NEW i \in 1 .. n - 1
          PROVE  /\ i > 1 => ~calls[i].if
                 /\ i < n - 1 =>
                      /\ ~calls[i].over /\ calls[i].aux = calls[i + 1].pid
                      /\ proc[calls[i].aux].parent = calls[i].pid
                      /\ ChildrenFrom(proc, Linked, calls[i].pid, calls[i].aux)
                 /\ calls[i].over => Childless(proc, Linked, calls[i].pid)
      <4>. HIDE DEF n, stack, f
      <4>1. i \in 1 .. n /\ i < n /\ (i < n - 1 => i # n - 1 /\ i + 1 \in 1 .. n - 1)
        BY <1>3
      <4>2. /\ calls[i].pid = stack[i].pid /\ calls[i].over = stack[i].over /\ calls[i].if = stack[i].if
            /\ i < n - 1 => calls[i].aux = stack[i].aux /\ calls[i + 1].pid = stack[i + 1].pid
        BY <1>8, <4>1
      <4>. QED  BY <1>4, <4>1, <4>2
    <3>2. Walks(calls, proc, Linked)
      <4>. HIDE DEF n, stack
      <4>. QED  BY <1>8, <3>1 DEF Walks
    <3>. QED  BY <1>9, <2>3, <3>2
  <2>. QED  BY <2>2, <2>3
<1>13. Searching'
  <2>1. SUFFICES ASSUME NEW q \in Known, kills'[q] # <<>>, ~kills'[q][Len(kills'[q])].over
                 PROVE  LET g == kills'[q][Len(kills'[q])] IN
                        /\ q = c /\ ~iflag'
                        /\ \E m \in Pid : /\ proc[m].parent = g.pid /\ g.aux = next[m] /\ m \notin Linked
                                          /\ ChildrenFrom(proc, Linked, g.pid, m)
    BY <1>1, <1>10 DEF Searching
  <2>2. CASE q # c
    BY <1>9, <2>1, <2>2 DEF KillInv, Searching
  <2>3. CASE q = c
    <3>1. kills'[q] = calls /\ calls # <<>>
      BY <1>9, <2>1, <2>3
    <3>2. n > 1 /\ n - 1 \in 1 .. n - 1
      <4>. HIDE DEF stack, n
      <4>. QED  BY <1>3, <1>8, <3>1
    <3>3. calls[n - 1].pid = stack[n - 1].pid /\ calls[n - 1].aux = next[f.pid]
      <4>. HIDE DEF stack, n, f
      <4>. QED  BY <1>8, <3>2
    <3>4. ~iflag' /\ f.pid \in Pid
      BY <1>1, <1>5, <1>7, <3>2
    <3>. HIDE DEF stack, n, f
    <3>. QED  BY <1>5, <1>7, <1>8, <2>3, <3>1, <3>2, <3>3, <3>4
  <2>. QED  BY <2>2, <2>3
<1>14. Unborn'
  <2>1. CurrentPID \in Pid \ Shell => ctx[CurrentPID].pc # "start"
    BY <1>1, KillFacts
  <2>. QED  BY <1>1, <2>1 DEF KillInv, Unborn
<1>15. Ended' /\ Gone' /\ KillIsComplete'
  <2>. HIDE DEF f
  <2>1. Ended'
    BY <1>1 DEF KillInv, Ended
  <2>2. Gone'
    BY <1>1, <1>5, <1>10 DEF KillInv, Gone
  <2>3. KillIsComplete'
    BY <1>1, <1>5, <1>10 DEF KillInv, KillIsComplete, InList, Childless
  <2>. QED  BY <2>1, <2>2, <2>3
<1>. QED  BY <1>11, <1>12, <1>13, <1>14, <1>15 DEF KillInv

\* The initial states.
LEMMA InitKill ==
  ASSUME Init
  PROVE  KillInv
<1>1. PICK n \in Pid : /\ Shell = 1 .. n /\ ready = 1 /\ nextPID = n + 1 /\ Linked = Shell
                       /\ \A p \in Pid : next[p] = IF p < n THEN p + 1 ELSE Nil
  BY InitList
<1>2. /\ n \in Nat /\ n > 0 /\ \A p \in Pid : p \in Nat /\ p > 0 /\ p \in Known /\ p # IDLE
      /\ IDLE \notin Pid /\ Nil = 0
  BY Pids DEF Known
<1>3. /\ \A p \in Pid : proc[p].parent = IDLE
      /\ \A p \in Pid \ Shell : ~ctx[p].if
      /\ \A c \in Known : kills[c] = <<>>
      /\ CurrentPID = IDLE /\ killed = {}
  BY <1>2 DEF Init, Known
<1>4. Ordered
  <2>1. \A q \in Linked : q \in Nat /\ q > 0 /\ q <= n /\ q \in Pid
    BY <1>1, Pids
  <2>2. \A q \in Linked : ready <= q
    BY <1>1, <2>1
  <2>3. \A m, q \in Linked : q > m => next[m] # Nil
    BY <1>1, <1>2, <2>1
  <2>4. \A m \in Pid : next[m] # Nil =>
          m < next[m] /\ next[m] < nextPID /\ \A q \in Linked : q > m => q >= next[m]
    BY <1>1, <1>2, <2>1
  <2>. QED  BY <2>2, <2>3, <2>4 DEF Ordered
<1>5. Passed
  <2>1. \A q \in Linked : q \in Pid
    BY <1>1, Pids
  <2>. QED  BY <1>3, <2>1 DEF Passed
<1>6. Unborn
  BY <1>2, <1>3 DEF Unborn
<1>7. Ended /\ Gone /\ KillIsComplete
  BY <1>2, <1>3 DEF Ended, Gone, KillIsComplete
<1>8. Walking /\ Searching
  BY <1>3 DEF Walking, Walks, Searching
<1>. QED  BY <1>4, <1>5, <1>6, <1>7, <1>8 DEF KillInv

\* The invariant is inductive.
LEMMA KillInductive ==
  ASSUME IInv, IInv', KillInv, [Next]_vars
  PROVE  KillInv'
<1>1. CASE ShellStep
  <2>1. CASE \E pid \in 1 .. nextPID - 1 : ShellKills(pid)
    BY <2>1, ShellKillsKeeps
  <2>. QED  BY <1>1, <2>1, QuietKeeps, BlockingKeeps, ShellRunsKeeps DEF ShellStep
<1>2. CASE CommandStep
  BY <1>2, CommandSpawnsKeeps, QuietKeeps, BlockingKeeps, EndKeeps DEF CommandStep
<1>3. CASE KillStep
  BY <1>3, KillWalksKeeps, KillReturnsKeeps DEF KillStep
<1>4. CASE Tick
  BY <1>4, TickKeeps
<1>5. CASE CtrlC
  BY <1>5, CtrlCKeeps
<1>6. CASE \E s \in Shell : Enter(s)
  BY <1>6, EnterKeeps
<1>7. CASE UNCHANGED vars
  <2>1. UNCHANGED <<ready, next, proc, nextPID, kills, killed, CurrentPID, iflag, ctx, actualKilled>>
    BY <1>7 DEF vars
  <2>2. Linked' = Linked
    BY <2>1, SameList
  <2>3. Linked \subseteq Pid
    BY ListFacts DEF IInv
  <2>4. Ordered' /\ Passed'
    BY <2>1, <2>3, OrderedSame DEF KillInv
  <2>. QED  BY <2>1, <2>2, <2>4
            DEF KillInv, Unborn, Ended, Walking, Searching, Gone, KillIsComplete, InList
<1>. QED  BY <1>1, <1>2, <1>3, <1>4, <1>5, <1>6, <1>7 DEF Next

\* A kill that has returned is complete (kill_in_kernel, kernel.c): neither the process
\* nor a child of it is in the list, though while it walked the list, by the links of
\* nodes that had left it, other processes started and ended and other kills, by shells
\* or Ctrl-C, took nodes out.
THEOREM ProcessKills == Spec => []KillIsComplete
<1>1. Init => IInv /\ KillInv
  BY InitInv, InitKill
<1>2. IInv /\ KillInv /\ [Next]_vars => (IInv /\ KillInv)'
  BY Inductive, KillInductive
<1>3. KillInv => KillIsComplete
  BY DEF KillInv
<1>. QED  BY <1>1, <1>2, <1>3, PTL DEF Spec
=============================================================================
