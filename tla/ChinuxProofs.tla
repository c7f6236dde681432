---------------------------- MODULE ChinuxProofs ----------------------------
(***************************************************************************)
(* The terminals and the file system of Chinux, and the processes and      *)
(* screens of tpesoGuia.  MtQueuesProofs is here for its lemmas about      *)
(* natural numbers.                                                        *)
(***************************************************************************)
EXTENDS ChFs, ChTerminal, TgKernel, MtQueuesProofs, FiniteSetTheorems
-----------------------------------------------------------------------------
(***************************************************************************)
(* Chinux: the lines of the terminals.                                     *)
(***************************************************************************)

Symbol == Char \cup {NoChar}
Short == {s \in Seq(Symbol) : Len(s) <= BUFFER_SIZE}
Cells == 0 .. BUFFER_SIZE - 1
Ring == [array : [Cells -> Symbol], actual_char : Cells, first_char : Nat,
         size : 0 .. BUFFER_SIZE]

\* The ring b holds the line l: from first_char on, to actual_char.
Holds(b, l) ==
  /\ Len(l) = b.size
  /\ \A i \in 1 .. b.size : b.array[(b.first_char + i - 1) % BUFFER_SIZE] = l[i]
  /\ b.actual_char = (b.first_char + b.size - 1) % BUFFER_SIZE

\* The cell k places after cell r.
Round(r, k) == IF r + k < BUFFER_SIZE THEN r + k ELSE r + k - BUFFER_SIZE

\* Division with remainder is unique.
LEMMA Remainder ==
  ASSUME NEW m \in Nat \ {0}, NEW q \in Int, NEW r \in 0 .. m - 1, NEW x \in Int,
         x = m * q + r
  PROVE  x % m = r
<1>. DEFINE p == x \div m
            s == x % m
<1>1. x = m * p + s /\ p \in Int /\ s \in 0 .. m - 1
  OBVIOUS
<1>. HIDE DEF p, s
<1>2. m * (q - p) = s - r /\ m * (p - q) = r - s
  BY <1>1
<1>3. \A k \in Int : k >= 1 => m * k >= m
  OBVIOUS
<1>4. CASE q - p >= 1
  <2>1. m * (q - p) >= m
    BY <1>1, <1>3, <1>4
  <2>. QED  BY <1>1, <1>2, <2>1
<1>5. CASE p - q >= 1
  <2>1. m * (p - q) >= m
    BY <1>1, <1>3, <1>5
  <2>. QED  BY <1>1, <1>2, <2>1
<1>6. CASE p = q
  BY <1>1, <1>6 DEF s
<1>. QED  BY <1>1, <1>4, <1>5, <1>6

\* Going up a ring of m cells by at most m cells passes the end of it at most once.
LEMMA RoundUp ==
  ASSUME NEW m \in Nat \ {0}, NEW x \in Nat, NEW k \in 0 .. m
  PROVE  (x + k) % m = IF (x % m) + k < m THEN (x % m) + k ELSE (x % m) + k - m
<1>. DEFINE q == x \div m
            r == x % m
            s == r + k - m
<1>1. x = m * q + r /\ q \in Int /\ r \in 0 .. m - 1
  OBVIOUS
<1>. HIDE DEF q, r
<1>2. CASE r + k < m
  <2>1. x + k = m * q + (r + k) /\ r + k \in 0 .. m - 1 /\ x + k \in Int
    BY <1>1, <1>2
  <2>2. (x + k) % m = r + k
    BY <1>1, <2>1, Remainder
  <2>. QED  BY <1>2, <2>2 DEF r
<1>3. CASE ~(r + k < m)
  <2>1. m * (q + 1) = m * q + m
    BY <1>1
  <2>2. s \in 0 .. m - 1 /\ x + k \in Int /\ q + 1 \in Int
    BY <1>1, <1>3
  <2>3. x + k = m * (q + 1) + s
    BY <1>1, <2>1
  <2>. HIDE DEF s
  <2>4. (x + k) % m = s
    BY <2>2, <2>3, Remainder
  <2>. QED  BY <1>3, <2>4 DEF r, s
<1>. QED  BY <1>2, <1>3

\* Going down one cell of a ring of m cells.
LEMMA RoundDown ==
  ASSUME NEW m \in Nat \ {0}, NEW x \in Nat
  PROVE  (x - 1) % m = IF x % m = 0 THEN m - 1 ELSE (x % m) - 1
<1>. DEFINE q == x \div m
            r == x % m
<1>1. x = m * q + r /\ q \in Int /\ r \in 0 .. m - 1
  OBVIOUS
<1>. HIDE DEF q, r
<1>2. CASE r # 0
  <2>1. x - 1 = m * q + (r - 1) /\ r - 1 \in 0 .. m - 1 /\ x - 1 \in Int
    BY <1>1, <1>2
  <2>2. (x - 1) % m = r - 1
    BY <1>1, <2>1, Remainder
  <2>. QED  BY <1>2, <2>2 DEF r
<1>3. CASE r = 0
  <2>1. m * (q - 1) = m * q - m
    BY <1>1
  <2>2. m - 1 \in 0 .. m - 1 /\ x - 1 \in Int /\ q - 1 \in Int
    BY <1>1
  <2>3. x - 1 = m * (q - 1) + (m - 1)
    BY <1>1, <1>3, <2>1
  <2>. DEFINE y == x - 1  p == q - 1  s == m - 1
  <2>4. y = m * p + s /\ p \in Int /\ s \in 0 .. m - 1 /\ y \in Int
    BY <2>2, <2>3
  <2>. HIDE DEF y, p, s
  <2>5. y % m = s
    BY <2>4, Remainder
  <2>. QED  BY <1>3, <2>5 DEF r, s, y
<1>. QED  BY <1>2, <1>3

\* The same for the ring of a terminal.
LEMMA Rounds ==
  /\ BUFFER_SIZE \in Nat /\ BUFFER_SIZE > 0
  /\ \A x \in Nat : x % BUFFER_SIZE \in Cells
  /\ \A x \in Nat, k \in 0 .. BUFFER_SIZE : (x + k) % BUFFER_SIZE = Round(x % BUFFER_SIZE, k)
  /\ \A x \in Nat : (x - 1) % BUFFER_SIZE =
                      IF x % BUFFER_SIZE = 0 THEN BUFFER_SIZE - 1 ELSE (x % BUFFER_SIZE) - 1
  /\ \A r \in Cells : r % BUFFER_SIZE = r
<1>1. BUFFER_SIZE \in Nat \ {0}
  BY TerminalAssumption
<1>2. \A x \in Nat : x % BUFFER_SIZE \in 0 .. BUFFER_SIZE - 1
  BY <1>1
<1>3. \A x \in Nat, k \in 0 .. BUFFER_SIZE : (x + k) % BUFFER_SIZE = Round(x % BUFFER_SIZE, k)
  BY <1>1, RoundUp DEF Round
<1>4. \A x \in Nat : (x - 1) % BUFFER_SIZE =
                      IF x % BUFFER_SIZE = 0 THEN BUFFER_SIZE - 1 ELSE (x % BUFFER_SIZE) - 1
  BY <1>1, RoundDown
<1>5. \A r \in 0 .. BUFFER_SIZE - 1 : r % BUFFER_SIZE = r
  BY <1>1
<1>. QED  BY <1>1, <1>2, <1>3, <1>4, <1>5 DEF Cells

\* The same without remainders.
LEMMA HoldsRound ==
  ASSUME NEW b \in Ring, NEW l
  PROVE  LET r == b.first_char % BUFFER_SIZE
         IN  /\ r \in Cells
             /\ Holds(b, l) <=>
                  /\ Len(l) = b.size
                  /\ \A i \in 1 .. b.size : b.array[Round(r, i - 1)] = l[i]
                  /\ b.actual_char = IF b.size = 0 THEN (IF r = 0 THEN BUFFER_SIZE - 1 ELSE r - 1)
                                     ELSE Round(r, b.size - 1)
<1>. DEFINE x == b.first_char
            n == b.size
            r == x % BUFFER_SIZE
<1>1. x \in Nat /\ n \in 0 .. BUFFER_SIZE /\ n \in Nat
  BY DEF Ring
<1>2. BUFFER_SIZE \in Nat /\ r \in Cells
  BY <1>1, Rounds
<1>3. ASSUME NEW i \in 1 .. n PROVE (x + i - 1) % BUFFER_SIZE = Round(r, i - 1)
  <2>1. i - 1 \in 0 .. BUFFER_SIZE /\ x + (i - 1) = x + i - 1
    BY <1>1, <1>2
  <2>2. (x + (i - 1)) % BUFFER_SIZE = Round(r, i - 1)
    BY <1>1, <2>1, Rounds
  <2>. QED  BY <2>1, <2>2
<1>4. (x + n - 1) % BUFFER_SIZE = IF n = 0 THEN (IF r = 0 THEN BUFFER_SIZE - 1 ELSE r - 1)
                                  ELSE Round(r, n - 1)
  <2>1. CASE n = 0
    <3>1. x + n - 1 = x - 1
      BY <1>1, <2>1
    <3>2. (x - 1) % BUFFER_SIZE = IF r = 0 THEN BUFFER_SIZE - 1 ELSE r - 1
      BY <1>1, Rounds
    <3>. QED  BY <2>1, <3>1, <3>2
  <2>2. CASE n # 0
    <3>1. n \in 1 .. n
      BY <1>1, <2>2
    <3>. QED  BY <1>3, <2>2, <3>1
  <2>. QED  BY <2>1, <2>2
<1>. HIDE DEF r, x, n
<1>5. Holds(b, l) <=> /\ Len(l) = n
                      /\ \A i \in 1 .. n : b.array[(x + i - 1) % BUFFER_SIZE] = l[i]
                      /\ b.actual_char = (x + n - 1) % BUFFER_SIZE
  BY DEF Holds, x, n
<1>6. (\A i \in 1 .. n : b.array[(x + i - 1) % BUFFER_SIZE] = l[i])
        <=> \A i \in 1 .. n : b.array[Round(r, i - 1)] = l[i]
  BY <1>3
<1>7. Holds(b, l) <=> /\ Len(l) = n
                      /\ \A i \in 1 .. n : b.array[Round(r, i - 1)] = l[i]
                      /\ b.actual_char = IF n = 0 THEN (IF r = 0 THEN BUFFER_SIZE - 1 ELSE r - 1)
                                         ELSE Round(r, n - 1)
  BY <1>4, <1>5, <1>6
<1>. QED  BY <1>2, <1>7 DEF r, x, n

\* A character typed goes to the end of the line, if there is room.
LEMMA AddHolds ==
  ASSUME NEW b \in Ring, NEW c \in Symbol
  PROVE  /\ addCharToBuff(b, c) \in Ring
         /\ \A l \in Short : Holds(b, l) =>
              Holds(addCharToBuff(b, c), IF Len(l) < BUFFER_SIZE THEN Append(l, c) ELSE l)
<1>. DEFINE n == b.size
            a == addCharToBuff(b, c)
            at == (b.actual_char + 1) % BUFFER_SIZE
            r == b.first_char % BUFFER_SIZE
<1>1. /\ BUFFER_SIZE \in Nat /\ BUFFER_SIZE > 0
      /\ n \in 0 .. BUFFER_SIZE /\ b.actual_char \in Cells /\ b.array \in [Cells -> Symbol]
      /\ b.first_char \in Nat /\ b.actual_char \in Nat /\ r \in Cells
  BY Rounds DEF Ring, Cells
<1>2. at = Round(b.actual_char, 1) /\ at \in Cells
  <2>1. 1 \in 0 .. BUFFER_SIZE /\ b.actual_char % BUFFER_SIZE = b.actual_char
    BY <1>1, Rounds
  <2>2. at = Round(b.actual_char % BUFFER_SIZE, 1)
    BY <1>1, <2>1, Rounds DEF at
  <2>. HIDE DEF at, r, a
  <2>3. at = Round(b.actual_char, 1)
    BY <2>1, <2>2
  <2>. QED  BY <1>1, <2>3 DEF Round, Cells
<1>. HIDE DEF at
<1>3. CASE ~(n < BUFFER_SIZE)
  <2>1. a = b
    BY <1>3 DEF addCharToBuff
  <2>2. \A l \in Short : Holds(b, l) => ~(Len(l) < BUFFER_SIZE)
    BY <1>3 DEF Holds
  <2>. QED  BY <2>1, <2>2
<1>4. CASE n < BUFFER_SIZE
  <2>1. a = [b EXCEPT !.array[at] = c, !.actual_char = at, !.size = n + 1]
    BY <1>4 DEF addCharToBuff, at
  <2>2. /\ a \in Ring /\ a.first_char = b.first_char /\ a.size = n + 1 /\ a.actual_char = at
        /\ a.array = [b.array EXCEPT ![at] = c]
    <3>1. n + 1 \in 0 .. BUFFER_SIZE
      BY <1>1, <1>4
    <3>2. [b.array EXCEPT ![at] = c] \in [Cells -> Symbol]
      BY <1>1, <1>2
    <3>3. a = [b EXCEPT !.array = [b.array EXCEPT ![at] = c], !.actual_char = at, !.size = n + 1]
      BY <2>1
    <3>. HIDE DEF a, n
    <3>. QED  BY <1>2, <3>1, <3>2, <3>3 DEF Ring
  <2>. HIDE DEF a, n, r
  <2>3. ASSUME NEW l \in Short, Holds(b, l)
        PROVE  Holds(a, IF Len(l) < BUFFER_SIZE THEN Append(l, c) ELSE l)
    <3>1. /\ Len(l) = n
          /\ \A i \in 1 .. n : b.array[Round(r, i - 1)] = l[i]
          /\ b.actual_char = IF n = 0 THEN (IF r = 0 THEN BUFFER_SIZE - 1 ELSE r - 1)
                             ELSE Round(r, n - 1)
      BY <2>3, HoldsRound DEF n, r
    <3>2. at = Round(r, n)
      BY <1>1, <1>2, <1>4, <3>1 DEF Round, Cells
    <3>. DEFINE k == Append(l, c)
    <3>3. /\ l \in Seq(Symbol) /\ Len(k) = n + 1 /\ k[n + 1] = c /\ \A i \in 1 .. n : k[i] = l[i]
      BY <3>1 DEF Short
    <3>. HIDE DEF k
    <3>4. ASSUME NEW i \in 1 .. n + 1 PROVE a.array[Round(r, i - 1)] = k[i]
      <4>1. CASE i = n + 1
        BY <1>1, <1>2, <2>2, <3>2, <3>3, <4>1
      <4>2. CASE i \in 1 .. n
        <5>1. Round(r, i - 1) # at /\ Round(r, i - 1) \in Cells
          BY <1>1, <1>4, <3>2, <4>2 DEF Round, Cells
        <5>. QED  BY <1>1, <2>2, <3>1, <3>3, <4>2, <5>1
      <4>. QED  BY <1>1, <4>1, <4>2
    <3>5. a.first_char % BUFFER_SIZE = r
      BY <2>2 DEF r
    <3>6. Holds(a, k)
      <4>1. a.actual_char = Round(r, (n + 1) - 1) /\ n + 1 # 0 /\ n \in Nat
        BY <1>1, <2>2, <3>2
      <4>. QED  BY <2>2, <3>3, <3>4, <3>5, <4>1, HoldsRound
    <3>. QED  BY <1>4, <3>1, <3>6 DEF k
  <2>. QED  BY <2>2, <2>3 DEF a
<1>. QED  BY <1>1, <1>3, <1>4

\* The last character of the line is deleted, if there is one.
LEMMA DeleteHolds ==
  ASSUME NEW b \in Ring
  PROVE  /\ deleteCharFromBuff(b) \in Ring
         /\ b.size # 0 => deleteCharFromBuff(b).size = b.size - 1
         /\ \A l \in Short : Holds(b, l) /\ l # <<>> =>
              Holds(deleteCharFromBuff(b), SubSeq(l, 1, Len(l) - 1))
<1>. DEFINE n == b.size
            d == deleteCharFromBuff(b)
            r == b.first_char % BUFFER_SIZE
<1>1. /\ BUFFER_SIZE \in Nat /\ BUFFER_SIZE > 0
      /\ n \in 0 .. BUFFER_SIZE /\ b.actual_char \in Cells /\ b.array \in [Cells -> Symbol]
      /\ b.first_char \in Nat /\ r \in Cells
  BY Rounds DEF Ring, Cells
<1>2. CASE n = 0
  <2>1. d = b
    BY <1>2 DEF deleteCharFromBuff
  <2>2. \A l \in Short : Holds(b, l) => l = <<>>
    BY <1>2 DEF Holds, Short
  <2>. QED  BY <1>2, <2>1, <2>2
<1>3. CASE n # 0
  <2>. DEFINE at == IF b.actual_char = 0 THEN BUFFER_SIZE - 1 ELSE b.actual_char - 1
  <2>1. d = [b EXCEPT !.actual_char = at, !.size = n - 1] /\ at \in Cells
    BY <1>1, <1>3 DEF deleteCharFromBuff, Cells
  <2>2. /\ d \in Ring /\ d.first_char = b.first_char /\ d.size = n - 1 /\ d.actual_char = at
        /\ d.array = b.array
    <3>1. n - 1 \in 0 .. BUFFER_SIZE
      BY <1>1, <1>3
    <3>. HIDE DEF at
    <3>. QED  BY <1>1, <2>1, <3>1 DEF Ring
  <2>. HIDE DEF d, n, r
  <2>3. ASSUME NEW l \in Short, Holds(b, l)
        PROVE  Holds(d, SubSeq(l, 1, Len(l) - 1))
    <3>1. /\ Len(l) = n
          /\ \A i \in 1 .. n : b.array[Round(r, i - 1)] = l[i]
          /\ b.actual_char = Round(r, n - 1)
      BY <1>3, <2>3, HoldsRound DEF n, r
    <3>. DEFINE k == SubSeq(l, 1, Len(l) - 1)
    <3>2. Len(k) = n - 1 /\ \A i \in 1 .. n - 1 : k[i] = l[i]
      BY <1>1, <1>3, <3>1 DEF Short
    <3>. HIDE DEF k
    <3>3. d.first_char % BUFFER_SIZE = r
      BY <2>2 DEF r
    <3>4. \A i \in 1 .. n - 1 : d.array[Round(r, i - 1)] = k[i]
      BY <1>1, <2>2, <3>1, <3>2
    <3>5. d.actual_char = IF n - 1 = 0 THEN (IF r = 0 THEN BUFFER_SIZE - 1 ELSE r - 1)
                          ELSE Round(r, (n - 1) - 1)
      BY <1>1, <1>3, <2>2, <3>1 DEF Round, Cells
    <3>6. Holds(d, k)
      BY <2>2, <3>2, <3>3, <3>4, <3>5, HoldsRound
    <3>. QED  BY <3>6 DEF k
  <2>. QED  BY <2>2, <2>3 DEF d, n
<1>. QED  BY <1>2, <1>3

\* What is computed by a loop, step i of which is the function g[i], exists.
LoopRun(f, N, D, x, g) ==
  f \in [0 .. N -> D] /\ f[0] = x /\ \A i \in 1 .. N : f[i] = g[i][f[i - 1]]

\* Whatever the steps are, the loop has a run: by induction over the number of steps.
LEMMA Loop ==
  ASSUME NEW N \in Nat, NEW D, NEW x \in D, NEW g \in [1 .. N -> [D -> D]]
  PROVE  \E f : LoopRun(f, N, D, x, g)
<1>. DEFINE Run(f, n) == f \in [0 .. n -> D] /\ f[0] = x /\ \A i \in 1 .. n : f[i] = g[i][f[i - 1]]
            done == {n \in Nat : \E f : Run(f, n)}
<1>1. 0 \in done
  <2>1. Run([i \in 0 .. 0 |-> x], 0)
    OBVIOUS
  <2>. QED  BY <2>1
<1>2. ASSUME NEW n \in 0 .. N - 1, n \in done
      PROVE  n + 1 \in done
  <2>1. PICK f : Run(f, n)
    BY <1>2
  <2>2. n \in Nat /\ n + 1 \in 1 .. N /\ n \in 0 .. n
    OBVIOUS
  <2>3. f[n] \in D /\ g[n + 1] \in [D -> D]
    BY <2>1, <2>2
  <2>4. g[n + 1][f[n]] \in D
    BY <2>3
  <2>. DEFINE h == [i \in 0 .. n + 1 |-> IF i <= n THEN f[i] ELSE g[n + 1][f[n]]]
  <2>5. h \in [0 .. n + 1 -> D]
    BY <2>1, <2>2, <2>4
  <2>6. h[0] = x
    BY <2>1, <2>2
  <2>7. ASSUME NEW i \in 1 .. n + 1 PROVE h[i] = g[i][h[i - 1]]
    <3>1. i \in 0 .. n + 1 /\ i - 1 \in 0 .. n + 1 /\ i - 1 <= n
      BY <2>2
    <3>2. h[i - 1] = f[i - 1]
      BY <3>1
    <3>3. CASE i <= n
      <4>1. h[i] = f[i] /\ i \in 1 .. n
        BY <3>1, <3>3
      <4>. QED  BY <2>1, <3>2, <4>1
    <3>4. CASE i = n + 1
      <4>1. ~(i <= n) /\ i - 1 = n
        BY <2>2, <3>4
      <4>2. h[i] = g[n + 1][f[n]]
        BY <3>1, <4>1
      <4>. QED  BY <3>2, <3>4, <4>1, <4>2
    <3>. QED  BY <2>2, <3>3, <3>4
  <2>8. Run(h, n + 1)
    <3>. HIDE DEF h
    <3>. QED  BY <2>5, <2>6, <2>7
  <2>9. \E k : Run(k, n + 1)
    BY <2>8
  <2>. HIDE DEF Run
  <2>. QED  BY <2>2, <2>9
<1>3. N \in done
  <2>. HIDE DEF done
  <2>1. \A n \in 0 .. N : n \in done
    BY <1>1, <1>2, UpTo
  <2>. QED  BY <2>1
<1>. QED  BY <1>3 DEF LoopRun

\* The loops of the arrow keys.
LEMMA DeletedLoop ==
  ASSUME NEW b \in Ring, NEW n \in Nat
  PROVE  \E f \in [0 .. n -> Ring] : /\ f[0] = b
                                     /\ \A i \in 1 .. n : f[i] = deleteCharFromBuff(f[i - 1])
                                     /\ Deleted(b, n) = f[n]
<1>. DEFINE del == [r \in Ring |-> deleteCharFromBuff(r)]
            g == [i \in 1 .. n |-> del]
            Is(f) == f = [i \in 0 .. n |-> IF i = 0 THEN b ELSE deleteCharFromBuff(f[i - 1])]
<1>1. del \in [Ring -> Ring]
  BY DeleteHolds
<1>. HIDE DEF del
<1>2. g \in [1 .. n -> [Ring -> Ring]]
  BY <1>1
<1>. HIDE DEF g
<1>3. PICK f \in [0 .. n -> Ring] : f[0] = b /\ \A i \in 1 .. n : f[i] = g[i][f[i - 1]]
  <2>1. \E f : LoopRun(f, n, Ring, b, g)
    BY <1>2, Loop
  <2>. QED  BY <2>1 DEF LoopRun
<1>4. ASSUME NEW i \in 1 .. n PROVE f[i] = deleteCharFromBuff(f[i - 1])
  <2>1. f[i - 1] \in Ring
    BY <1>3
  <2>2. f[i] = del[f[i - 1]]
    BY <1>3 DEF g
  <2>. QED  BY <2>1, <2>2 DEF del
<1>5. Is(f)
  BY <1>3, <1>4
<1>6. PICK h : Is(h) /\ Deleted(b, n) = h[n]
  BY <1>5 DEF Deleted
<1>. DEFINE ok == {i \in 0 .. n : h[i] \in Ring}
<1>7. h[0] = b /\ \A i \in 1 .. n : h[i] = deleteCharFromBuff(h[i - 1])
  BY <1>6
<1>8. 0 \in ok
  BY <1>7
<1>9. ASSUME NEW i \in 0 .. n - 1, i \in ok PROVE i + 1 \in ok
  <2>1. i + 1 \in 1 .. n /\ (i + 1) - 1 = i /\ i + 1 \in 0 .. n
    OBVIOUS
  <2>2. h[i + 1] = deleteCharFromBuff(h[i])
    BY <1>7, <2>1
  <2>. QED  BY <1>9, <2>1, <2>2, DeleteHolds
<1>10. \A i \in 0 .. n : i \in ok
  <2>. HIDE DEF ok
  <2>. QED  BY <1>8, <1>9, UpTo
<1>11. h \in [0 .. n -> Ring]
  BY <1>6, <1>10
<1>. QED  BY <1>6, <1>7, <1>11

\* The loop that puts a stored command into the ring, a character at a time, has a run, and
\* it ends with what Typed is.
LEMMA TypedLoop ==
  ASSUME NEW b \in Ring, NEW text \in Seq(Symbol)
  PROVE  \E f \in [0 .. Len(text) -> Ring] :
           /\ f[0] = b
           /\ \A i \in 1 .. Len(text) : f[i] = addCharToBuff(f[i - 1], text[i])
           /\ Typed(b, text) = f[Len(text)]
<1>. DEFINE n == Len(text)
            add(i) == [r \in Ring |-> addCharToBuff(r, text[i])]
            g == [i \in 1 .. n |-> add(i)]
            Is(f) == f = [i \in 0 .. n |-> IF i = 0 THEN b ELSE addCharToBuff(f[i - 1], text[i])]
<1>0. n \in Nat /\ \A i \in 1 .. n : text[i] \in Symbol
  OBVIOUS
<1>1. \A i \in 1 .. n : add(i) \in [Ring -> Ring]
  BY <1>0, AddHolds
<1>. HIDE DEF add
<1>2. g \in [1 .. n -> [Ring -> Ring]]
  BY <1>1
<1>. HIDE DEF g, n
<1>3. PICK f \in [0 .. n -> Ring] : f[0] = b /\ \A i \in 1 .. n : f[i] = g[i][f[i - 1]]
  <2>1. \E f : LoopRun(f, n, Ring, b, g)
    BY <1>0, <1>2, Loop
  <2>. QED  BY <2>1 DEF LoopRun
<1>4. ASSUME NEW i \in 1 .. n PROVE f[i] = addCharToBuff(f[i - 1], text[i])
  <2>1. f[i - 1] \in Ring
    BY <1>0, <1>3
  <2>2. f[i] = add(i)[f[i - 1]]
    BY <1>3 DEF g
  <2>. QED  BY <2>1, <2>2 DEF add
<1>5. Is(f)
  BY <1>0, <1>3, <1>4
<1>6. PICK h : Is(h) /\ Typed(b, text) = h[n]
  BY <1>5 DEF Typed, n
<1>. DEFINE ok == {i \in 0 .. n : h[i] \in Ring}
<1>7. h[0] = b /\ \A i \in 1 .. n : h[i] = addCharToBuff(h[i - 1], text[i])
  BY <1>0, <1>6
<1>8. 0 \in ok
  BY <1>0, <1>7
<1>9. ASSUME NEW i \in 0 .. n - 1, i \in ok PROVE i + 1 \in ok
  <2>1. i + 1 \in 1 .. n /\ (i + 1) - 1 = i /\ i + 1 \in 0 .. n
    BY <1>0
  <2>2. h[i + 1] = addCharToBuff(h[i], text[i + 1])
    BY <1>7, <2>1
  <2>. QED  BY <1>0, <1>9, <2>1, <2>2, AddHolds
<1>10. \A i \in 0 .. n : i \in ok
  <2>. HIDE DEF ok
  <2>. QED  BY <1>0, <1>8, <1>9, UpTo
<1>11. h \in [0 .. n -> Ring]
  BY <1>6, <1>10
<1>. QED  BY <1>6, <1>7, <1>11 DEF n

\* When all its characters are deleted the line is empty.
LEMMA DeletedHolds ==
  ASSUME NEW b \in Ring
  PROVE  /\ Deleted(b, b.size) \in Ring
         /\ \A l \in Short : Holds(b, l) => Holds(Deleted(b, b.size), <<>>)
<1>. DEFINE n == b.size
<1>1. n \in Nat
  BY DEF Ring
<1>2. PICK f \in [0 .. n -> Ring] : /\ f[0] = b
                                    /\ \A i \in 1 .. n : f[i] = deleteCharFromBuff(f[i - 1])
                                    /\ Deleted(b, n) = f[n]
  BY <1>1, DeletedLoop
<1>3. Deleted(b, n) \in Ring
  BY <1>1, <1>2
<1>4. ASSUME NEW l \in Short, Holds(b, l)
      PROVE  Holds(Deleted(b, n), <<>>)
  <2>1. l \in Seq(Symbol) /\ Len(l) = n /\ n <= BUFFER_SIZE
    BY <1>4 DEF Holds, Short
  <2>. HIDE DEF n
  <2>. DEFINE ok == {i \in 0 .. n : Holds(f[i], SubSeq(l, 1, n - i))}
  <2>2. 0 \in ok
    <3>1. SubSeq(l, 1, n - 0) = l
      BY <1>1, <2>1
    <3>2. Holds(f[0], SubSeq(l, 1, n - 0))
      BY <1>2, <1>4, <3>1
    <3>3. 0 \in 0 .. n
      BY <1>1
    <3>. QED  BY <3>2, <3>3
  <2>3. ASSUME NEW i \in 0 .. n - 1, i \in ok PROVE i + 1 \in ok
    <3>. DEFINE k == SubSeq(l, 1, n - i)
    <3>1. i + 1 \in 1 .. n /\ (i + 1) - 1 = i /\ i + 1 \in 0 .. n /\ i \in 0 .. n
          /\ n - i \in 1 .. n /\ n - (i + 1) \in 0 .. n /\ n - (i + 1) = (n - i) - 1
      BY <1>1
    <3>2. k \in Seq(Symbol) /\ Len(k) = n - i
      BY <1>1, <2>1, <3>1
    <3>3. k \in Short /\ k # <<>>
      BY <1>1, <2>1, <3>1, <3>2, Rounds DEF Short
    <3>4. SubSeq(k, 1, Len(k) - 1) = SubSeq(l, 1, n - (i + 1))
      BY <1>1, <2>1, <3>1, <3>2
    <3>5. Holds(f[i], k) /\ f[i] \in Ring /\ f[i + 1] = deleteCharFromBuff(f[i])
      BY <1>2, <2>3, <3>1
    <3>. HIDE DEF k
    <3>6. Holds(f[i + 1], SubSeq(k, 1, Len(k) - 1))
      BY <3>3, <3>5, DeleteHolds
    <3>. QED  BY <3>1, <3>4, <3>6
  <2>4. n \in ok
    <3>. HIDE DEF ok
    <3>1. \A i \in 0 .. n : i \in ok
      BY <1>1, <2>2, <2>3, UpTo
    <3>. QED  BY <1>1, <3>1
  <2>5. SubSeq(l, 1, n - n) = <<>>
    BY <1>1, <2>1
  <2>. QED  BY <1>2, <2>4, <2>5
<1>. QED  BY <1>3, <1>4

\* A character after two texts is a character after the second.
LEMMA AppendConcat ==
  \A s, u \in Seq(Symbol), c \in Symbol : Append(s \o u, c) = s \o Append(u, c)
<1>. TAKE s, u \in Seq(Symbol), c \in Symbol
<1>1. /\ Append(s \o u, c) \in Seq(Symbol) /\ s \o Append(u, c) \in Seq(Symbol)
      /\ Len(Append(s \o u, c)) = Len(s) + Len(u) + 1
      /\ Len(s \o Append(u, c)) = Len(s) + Len(u) + 1
  OBVIOUS
<1>2. ASSUME NEW i \in 1 .. Len(s) + Len(u) + 1
      PROVE  Append(s \o u, c)[i] = (s \o Append(u, c))[i]
  OBVIOUS
<1>3. \A v, w \in Seq(Symbol) : Len(v) = Len(w) /\ (\A i \in 1 .. Len(v) : v[i] = w[i]) => v = w
  OBVIOUS
<1>. DEFINE v == Append(s \o u, c)
            w == s \o Append(u, c)
<1>4. v \in Seq(Symbol) /\ w \in Seq(Symbol) /\ Len(v) = Len(w) /\ \A i \in 1 .. Len(v) : v[i] = w[i]
  BY <1>1, <1>2
<1>. HIDE DEF v, w
<1>5. v = w
  BY <1>3, <1>4
<1>. QED  BY <1>5 DEF v, w

\* What fits of a text is at the end of the line after it was typed.
LEMMA TypedHolds ==
  ASSUME NEW b \in Ring, NEW text \in Short
  PROVE  /\ Typed(b, text) \in Ring
         /\ \A l \in Short : Holds(b, l) =>
              LET room == BUFFER_SIZE - Len(l)
              IN  Holds(Typed(b, text),
                        l \o SubSeq(text, 1, IF Len(text) < room THEN Len(text) ELSE room))
<1>. DEFINE n == Len(text)
<1>1. n \in Nat /\ text \in Seq(Symbol) /\ \A i \in 1 .. n : text[i] \in Symbol
  BY DEF Short
<1>2. PICK f \in [0 .. n -> Ring] : /\ f[0] = b
                                    /\ \A i \in 1 .. n : f[i] = addCharToBuff(f[i - 1], text[i])
                                    /\ Typed(b, text) = f[n]
  BY <1>1, TypedLoop
<1>3. Typed(b, text) \in Ring
  BY <1>1, <1>2
<1>. HIDE DEF n
<1>4. ASSUME NEW l \in Short, Holds(b, l)
      PROVE  LET room == BUFFER_SIZE - Len(l)
             IN  Holds(Typed(b, text), l \o SubSeq(text, 1, IF n < room THEN n ELSE room))
  <2>. DEFINE room == BUFFER_SIZE - Len(l)
              fit(i) == IF i < room THEN i ELSE room
              ok == {i \in 0 .. n : Holds(f[i], l \o SubSeq(text, 1, fit(i)))}
  <2>1. l \in Seq(Symbol) /\ Len(l) \in Nat /\ room \in Nat /\ Len(l) + room = BUFFER_SIZE
        /\ BUFFER_SIZE \in Nat
    BY Rounds DEF Short
  <2>. HIDE DEF room
  <2>2. 0 \in ok
    <3>1. fit(0) = 0
      BY <2>1
    <3>2. l \o SubSeq(text, 1, 0) = l
      BY <1>1, <2>1
    <3>3. Holds(f[0], l \o SubSeq(text, 1, fit(0)))
      BY <1>2, <1>4, <3>1, <3>2
    <3>4. 0 \in 0 .. n
      BY <1>1
    <3>. HIDE DEF fit
    <3>. QED  BY <3>3, <3>4
  <2>3. ASSUME NEW i \in 0 .. n - 1, i \in ok PROVE i + 1 \in ok
    <3>. DEFINE k == l \o SubSeq(text, 1, fit(i))
    <3>1. i + 1 \in 1 .. n /\ (i + 1) - 1 = i /\ i + 1 \in 0 .. n /\ i \in 0 .. n /\ i \in Nat
      BY <1>1
    <3>2. fit(i) \in 0 .. n /\ fit(i) \in Nat
      BY <1>1, <2>1, <3>1
    <3>3. SubSeq(text, 1, fit(i)) \in Seq(Symbol) /\ Len(SubSeq(text, 1, fit(i))) = fit(i)
      <4>. HIDE DEF fit
      <4>. QED  BY <1>1, <3>2 DEF n
    <3>4. k \in Seq(Symbol) /\ Len(k) = Len(l) + fit(i)
      <4>. HIDE DEF fit
      <4>. QED  BY <2>1, <3>3
    <3>5. k \in Short
      BY <2>1, <3>1, <3>4 DEF Short
    <3>6. Holds(f[i], k) /\ f[i] \in Ring /\ f[i + 1] = addCharToBuff(f[i], text[i + 1])
          /\ text[i + 1] \in Symbol
      BY <1>1, <1>2, <2>3, <3>1
    <3>7. (IF Len(k) < BUFFER_SIZE THEN Append(k, text[i + 1]) ELSE k)
            = l \o SubSeq(text, 1, fit(i + 1))
      <4>1. CASE i < room
        <5>1. fit(i) = i /\ fit(i + 1) = i + 1 /\ Len(k) < BUFFER_SIZE
          BY <2>1, <3>1, <3>4, <4>1
        <5>2. Append(l \o SubSeq(text, 1, i), text[i + 1]) = l \o SubSeq(text, 1, i + 1)
          <6>1. SubSeq(text, 1, i + 1) = Append(SubSeq(text, 1, i), text[i + 1])
            BY <1>1, <3>1 DEF n
          <6>. DEFINE u == SubSeq(text, 1, i)
          <6>2. u \in Seq(Symbol)
            BY <3>3, <5>1
          <6>. DEFINE c == text[i + 1]
          <6>. HIDE DEF u
          <6>3. c \in Symbol
            BY <3>6
          <6>. HIDE DEF c
          <6>4. Append(l \o u, c) = l \o Append(u, c)
            <7>1. l \in Seq(Symbol)
              BY <2>1
            <7>. QED  BY <6>2, <6>3, <7>1, AppendConcat, Zenon
          <6>. QED  BY <6>1, <6>4 DEF u, c
        <5>. QED  BY <5>1, <5>2
      <4>2. CASE ~(i < room)
        <5>1. fit(i) = room /\ fit(i + 1) = room /\ ~(Len(k) < BUFFER_SIZE)
          BY <2>1, <3>1, <3>4, <4>2
        <5>. QED  BY <5>1
      <4>. QED  BY <4>1, <4>2
    <3>. HIDE DEF k, fit
    <3>8. Holds(f[i + 1], IF Len(k) < BUFFER_SIZE THEN Append(k, text[i + 1]) ELSE k)
      BY <3>5, <3>6, AddHolds
    <3>. QED  BY <3>1, <3>7, <3>8
  <2>4. n \in ok
    <3>. HIDE DEF ok
    <3>1. \A i \in 0 .. n : i \in ok
      BY <1>1, <2>2, <2>3, UpTo
    <3>. QED  BY <1>1, <3>1
  <2>. QED  BY <1>2, <2>4 DEF room
<1>. QED  BY <1>3, <1>4 DEF n

\* A line that has been cleared is empty.
LEMMA ClearHolds ==
  ASSUME NEW b \in Ring
  PROVE  clearTerminalBuffer(b) \in Ring /\ Holds(clearTerminalBuffer(b), <<>>)
<1>. DEFINE c == clearTerminalBuffer(b)
<1>1. b.actual_char \in Cells /\ b.actual_char \in Nat /\ BUFFER_SIZE \in Nat
  BY Rounds DEF Ring, Cells
<1>2. c = [b EXCEPT !.first_char = b.actual_char + 1, !.size = 0]
  BY DEF clearTerminalBuffer
<1>3. c \in Ring /\ c.size = 0 /\ c.first_char = b.actual_char + 1 /\ c.actual_char = b.actual_char
  <2>1. b.actual_char + 1 \in Nat /\ 0 \in 0 .. BUFFER_SIZE
    BY <1>1
  <2>. HIDE DEF c
  <2>. QED  BY <1>2, <2>1 DEF Ring
<1>. HIDE DEF c
<1>4. c.first_char + c.size - 1 = b.actual_char
  BY <1>1, <1>3
<1>5. b.actual_char % BUFFER_SIZE = b.actual_char
  BY <1>1, Rounds
<1>6. Holds(c, <<>>)
  BY <1>3, <1>4, <1>5 DEF Holds
<1>. QED  BY <1>3, <1>6 DEF c

\* A reader takes at most the characters of the line, and what it has read may be kept.
LEMMA ReadTyped ==
  ASSUME NEW b \in Ring
  PROVE  Reading(b) \in 0 .. b.size /\ readKeyboard(b) \in Ring /\ scanf(b) \in Short
<1>. DEFINE over(k) == /\ \/ b.actual_char = b.first_char + k - 1
                          \/ b.actual_char = BUFFER_SIZE - 1 /\ b.first_char + k = 0
                       /\ k > 0 \/ b.size < BUFFER_SIZE
            ends == {n \in 0 .. b.size : n = b.size \/ over(n)}
<1>1. b.size \in Nat /\ b.size <= BUFFER_SIZE /\ b.first_char \in Nat /\ BUFFER_SIZE \in Nat
      /\ b.array \in [Cells -> Symbol]
  BY Rounds DEF Ring
<1>2. ends \in SUBSET Nat /\ ends # {}
  <2>1. b.size \in ends
    BY <1>1
  <2>. QED  BY <2>1
<1>3. PICK n \in ends : \A k \in ends : n <= k
  <2>. HIDE DEF ends
  <2>. QED  BY <1>2, LeastNat
<1>4. \A k \in 0 .. n - 1 : ~over(k)
  <2>. SUFFICES ASSUME NEW k \in 0 .. n - 1, over(k) PROVE FALSE
    OBVIOUS
  <2>1. n \in 0 .. b.size /\ k \in 0 .. b.size /\ ~(n <= k)
    BY <1>1, <1>3
  <2>2. k \in ends
    BY <2>1
  <2>. HIDE DEF over, ends
  <2>. QED  BY <1>3, <2>1, <2>2
<1>5. n \in 0 .. b.size /\ (n = b.size \/ over(n))
  BY <1>3
<1>6. Reading(b) \in 0 .. b.size
  <2>. HIDE DEF over
  <2>1. \E m \in 0 .. b.size : (m = b.size \/ over(m)) /\ \A k \in 0 .. m - 1 : ~over(k)
    BY <1>4, <1>5
  <2>. QED  BY <2>1 DEF Reading, over
<1>. DEFINE R == Reading(b)
<1>7. R \in Nat /\ R <= BUFFER_SIZE
  BY <1>1, <1>6
<1>. HIDE DEF R
<1>8. readKeyboard(b) \in Ring
  <2>1. b.first_char + R \in Nat
    BY <1>1, <1>7
  <2>. QED  BY <2>1 DEF readKeyboard, Ring, R
<1>. DEFINE s == Unread(b, R)
<1>9. s \in Seq(Symbol) /\ Len(s) = R
  <2>1. s = [i \in 1 .. R |-> b.array[(b.first_char + i - 1) % BUFFER_SIZE]]
    BY DEF Unread
  <2>2. ASSUME NEW i \in 1 .. R PROVE b.array[(b.first_char + i - 1) % BUFFER_SIZE] \in Symbol
    <3>1. b.first_char + i - 1 \in Nat
      BY <1>1, <1>7
    <3>2. (b.first_char + i - 1) % BUFFER_SIZE \in Cells
      BY <3>1, Rounds
    <3>. QED  BY <1>1, <3>2
  <2>. HIDE DEF s
  <2>3. s \in [1 .. R -> Symbol]
    BY <2>1, <2>2, Zenon
  <2>4. s \in Seq(Symbol)
    BY <1>7, <2>3
  <2>5. Len(s) \in Nat /\ DOMAIN s = 1 .. Len(s) /\ DOMAIN s = 1 .. R
    BY <2>3, <2>4
  <2>6. Len(s) = R
    <3>1. \A u, v \in Nat : 1 .. u = 1 .. v => u = v
      <4>. SUFFICES ASSUME NEW u \in Nat, NEW v \in Nat, 1 .. u = 1 .. v, u < v PROVE FALSE
        OBVIOUS
      <4>1. v \in 1 .. v /\ v \notin 1 .. u
        OBVIOUS
      <4>. QED  BY <4>1
    <3>2. R \in Nat /\ 1 .. Len(s) = 1 .. R
      BY <1>7, <2>5
    <3>. QED  BY <2>5, <3>1, <3>2, Zenon
  <2>. QED  BY <2>4, <2>6
<1>. HIDE DEF s
<1>. DEFINE stops == {i \in 0 .. R : i = R \/ s[i + 1] = NoChar}
            Cut(k) == (k = R \/ s[k + 1] = NoChar) /\ \A i \in 1 .. k : s[i] # NoChar
<1>10. \E k \in 0 .. R : Cut(k)
  <2>1. stops \in SUBSET Nat /\ stops # {}
    <3>1. R \in stops
      BY <1>7
    <3>. QED  BY <3>1
  <2>2. PICK k \in stops : \A i \in stops : k <= i
    <3>. HIDE DEF stops
    <3>. QED  BY <2>1, LeastNat
  <2>3. ASSUME NEW i \in 1 .. k, s[i] = NoChar PROVE FALSE
    <3>1. k \in 0 .. R /\ i - 1 \in 0 .. R /\ (i - 1) + 1 = i /\ ~(k <= i - 1)
      BY <1>7, <2>2
    <3>2. i - 1 \in stops
      BY <2>3, <3>1
    <3>. QED  BY <2>2, <3>1, <3>2
  <2>. QED  BY <2>2, <2>3
<1>. DEFINE cut == CHOOSE k \in 0 .. R : Cut(k)
<1>11. cut \in 0 .. R
  BY <1>10
<1>12. scanf(b) = SubSeq(s, 1, cut)
  BY <1>9 DEF scanf, s, R
<1>. HIDE DEF cut
<1>13. SubSeq(s, 1, cut) \in Seq(Symbol) /\ Len(SubSeq(s, 1, cut)) = cut
  BY <1>7, <1>9, <1>11
<1>14. cut <= BUFFER_SIZE
  BY <1>1, <1>7, <1>11
<1>15. scanf(b) \in Short
  BY <1>12, <1>13, <1>14 DEF Short
<1>. QED  BY <1>6, <1>8, <1>15

\* The invariant: rings, lines and stored commands have their shapes, and the ring of a
\* terminal holds its line unless a shell has taken it.
LinesTyped ==
  /\ terminals \in [Tty -> Ring] /\ line \in [Tty -> Short] /\ currentTTY \in Tty
  /\ \A s \in switches : s.to \in Tty
  /\ history \in [storedComm : [0 .. STO_MAX - 1 -> Short], sto_i : 0 .. STO_MAX - 1,
                  sel_com : 0 .. STO_MAX, arrow_pressed : BOOLEAN]
LinesHeld == \A t \in Tty \ taken : Holds(terminals[t], line[t])

\* The line of the current terminal becomes text and its ring b, which holds it.
LEMMA ShowsHolds ==
  ASSUME LinesTyped, LinesHeld, NEW b \in Ring, NEW text \in Short,
         Holds(terminals[currentTTY], line[currentTTY]) => Holds(b, text),
         Shows(b, text)
  PROVE  /\ terminals' \in [Tty -> Ring] /\ line' \in [Tty -> Short] /\ LinesHeld'
BY DEF LinesTyped, LinesHeld, Shows

\* The line of the current terminal is read, and cleared.
LEMMA ReadsHolds ==
  ASSUME LinesTyped, LinesHeld,
         terminals' = [[terminals EXCEPT ![currentTTY] = readKeyboard(@)]
                          EXCEPT ![currentTTY] = clearTerminalBuffer(@)],
         line' = [line EXCEPT ![currentTTY] = <<>>],
         taken' = taken \ {currentTTY}
  PROVE  terminals' \in [Tty -> Ring] /\ line' \in [Tty -> Short] /\ LinesHeld'
<1>. DEFINE b == clearTerminalBuffer(readKeyboard(terminals[currentTTY]))
<1>1. terminals[currentTTY] \in Ring /\ currentTTY \in Tty /\ terminals \in [Tty -> Ring]
      /\ line \in [Tty -> Short]
  BY DEF LinesTyped
<1>2. b \in Ring /\ Holds(b, <<>>) /\ <<>> \in Short
  <2>1. readKeyboard(terminals[currentTTY]) \in Ring
    BY <1>1, ReadTyped
  <2>2. <<>> \in Short
    BY Rounds DEF Short
  <2>. QED  BY <2>1, <2>2, ClearHolds
<1>3. terminals' = [terminals EXCEPT ![currentTTY] = b]
  BY <1>1
<1>. HIDE DEF b
<1>. QED  BY <1>1, <1>2, <1>3 DEF LinesHeld

\* The keys change the line of the terminal shown.
LEMMA KeyHolds ==
  ASSUME LinesTyped, LinesHeld, Key
  PROVE  LinesTyped' /\ LinesHeld'
<1>. DEFINE r == terminals[currentTTY]
            l == line[currentTTY]
            Hist == [storedComm : [0 .. STO_MAX - 1 -> Short], sto_i : 0 .. STO_MAX - 1,
                     sel_com : 0 .. STO_MAX, arrow_pressed : BOOLEAN]
<1>1. /\ r \in Ring /\ l \in Short /\ currentTTY \in Tty /\ history \in Hist
      /\ \A s \in switches : s.to \in Tty
  BY DEF LinesTyped
<1>2. l \in Seq(Symbol) /\ Len(l) \in Nat /\ Len(l) <= BUFFER_SIZE /\ BUFFER_SIZE \in Nat
      /\ STO_MAX \in Nat /\ STO_MAX > 1
  BY <1>1, Rounds, TerminalAssumption DEF Short
<1>. HIDE DEF r, l, Hist
<1>3. ASSUME NEW b \in Ring, NEW text \in Short, Holds(r, l) => Holds(b, text),
             Shows(b, text), UNCHANGED <<currentTTY, switches>>, history' \in Hist
      PROVE  LinesTyped' /\ LinesHeld'
  <2>1. terminals' \in [Tty -> Ring] /\ line' \in [Tty -> Short] /\ LinesHeld'
    BY <1>3, ShowsHolds DEF r, l
  <2>. QED  BY <1>1, <1>3, <2>1 DEF LinesTyped, Hist, Ring, Short, Cells, Symbol
<1>4. ASSUME UNCHANGED <<terminals, currentTTY, switches, line, taken>>, history' \in Hist
      PROVE  LinesTyped' /\ LinesHeld'
  BY <1>4 DEF LinesTyped, LinesHeld, Hist, Holds
<1>5. ASSUME NEW c \in Char, KeyChar(c) PROVE LinesTyped' /\ LinesHeld'
  <2>. DEFINE text == IF Len(l) < BUFFER_SIZE THEN Append(l, c) ELSE l
  <2>1. Shows(addCharToBuff(r, c), text) /\ UNCHANGED <<currentTTY, switches>> /\ history' = history
    BY <1>5 DEF KeyChar, r, l
  <2>2. c \in Symbol
    BY DEF Symbol
  <2>3. addCharToBuff(r, c) \in Ring /\ (Holds(r, l) => Holds(addCharToBuff(r, c), text))
    BY <1>1, <2>2, AddHolds
  <2>4. text \in Short
    BY <1>1, <1>2, <2>2 DEF Short
  <2>. HIDE DEF text
  <2>. QED  BY <1>1, <1>3, <2>1, <2>3, <2>4
<1>6. CASE Backspace
  <2>. DEFINE text == SubSeq(l, 1, Len(l) - 1)
  <2>1. r.size # 0 /\ Shows(deleteCharFromBuff(r), text) /\ UNCHANGED <<currentTTY, switches>>
        /\ history' = history
    BY <1>6 DEF Backspace, r, l
  <2>2. Holds(r, l) => l # <<>>
    BY <1>2, <2>1 DEF Holds
  <2>3. deleteCharFromBuff(r) \in Ring /\ (Holds(r, l) => Holds(deleteCharFromBuff(r), text))
    BY <1>1, <2>2, DeleteHolds
  <2>4. text \in Seq(Symbol) /\ Len(text) <= BUFFER_SIZE
    BY <1>2
  <2>5. text \in Short
    BY <2>4 DEF Short
  <2>. HIDE DEF text
  <2>. QED  BY <1>1, <1>3, <2>1, <2>3, <2>5
<1>7. CASE KeyEnter
  BY <1>1, <1>4, <1>7 DEF KeyEnter
<1>8. CASE showLastCommand
  <2>1. Pressed \in Hist
    BY <1>1 DEF Pressed, Hist
  <2>2. CASE history.sel_com > 0 /\ LoggedIn
    <3>. DEFINE text == history.storedComm[history.sel_com - 1]
                d == Deleted(r, r.size)
    <3>1. history' = [Pressed EXCEPT !.sel_com = @ - 1] /\ Shows(Typed(d, text), text)
          /\ UNCHANGED <<currentTTY, switches>>
      BY <1>8, <2>2 DEF showLastCommand, r
    <3>2. history.sel_com - 1 \in 0 .. STO_MAX - 1 /\ history.sel_com - 1 \in 0 .. STO_MAX
          /\ Pressed.sel_com = history.sel_com
      BY <1>1, <1>2, <2>2 DEF Hist, Pressed
    <3>3. text \in Short /\ history' \in Hist
      BY <1>1, <2>1, <3>1, <3>2 DEF Hist
    <3>. HIDE DEF text
    <3>4. d \in Ring /\ (Holds(r, l) => Holds(d, <<>>))
      BY <1>1, DeletedHolds
    <3>. HIDE DEF d
    <3>5. <<>> \in Short /\ Len(<<>>) = 0 /\ BUFFER_SIZE - 0 = BUFFER_SIZE
      BY <1>2 DEF Short
    <3>6. text \in Seq(Symbol) /\ Len(text) \in Nat /\ Len(text) <= BUFFER_SIZE
      BY <3>3 DEF Short
    <3>7. <<>> \o SubSeq(text, 1, IF Len(text) < BUFFER_SIZE THEN Len(text) ELSE BUFFER_SIZE) = text
      <4>1. (IF Len(text) < BUFFER_SIZE THEN Len(text) ELSE BUFFER_SIZE) = Len(text)
        BY <1>2, <3>6
      <4>2. SubSeq(text, 1, Len(text)) = text
        BY <3>6
      <4>3. <<>> \o text = text
        BY <3>6
      <4>. QED  BY <4>1, <4>2, <4>3
    <3>8. Typed(d, text) \in Ring
      BY <3>3, <3>4, TypedHolds
    <3>9. ASSUME Holds(d, <<>>) PROVE Holds(Typed(d, text), text)
      <4>1. Holds(Typed(d, text), <<>> \o SubSeq(text, 1,
              IF Len(text) < BUFFER_SIZE - Len(<<>>) THEN Len(text) ELSE BUFFER_SIZE - Len(<<>>)))
        BY <3>3, <3>4, <3>5, <3>9, TypedHolds
      <4>2. BUFFER_SIZE - Len(<<>>) = BUFFER_SIZE
        BY <1>2, <3>5
      <4>. QED  BY <3>7, <4>1, <4>2
    <3>. QED  BY <1>3, <3>1, <3>3, <3>4, <3>8, <3>9
  <2>3. CASE ~(history.sel_com > 0 /\ LoggedIn)
    BY <1>4, <1>8, <2>1, <2>3 DEF showLastCommand
  <2>. QED  BY <2>2, <2>3
<1>9. CASE showPreviousCommand
  <2>. DEFINE next == history.sel_com + 1
              text == IF next < STO_MAX THEN history.storedComm[next] ELSE <<>>
              before == IF history.arrow_pressed THEN Deleted(r, r.size) ELSE r
              kept == IF history.arrow_pressed THEN <<>> ELSE l
              room == BUFFER_SIZE - Len(kept)
              shown == kept \o SubSeq(text, 1, IF Len(text) < room THEN Len(text) ELSE room)
  <2>0. <<>> \in Short
    BY <1>2 DEF Short
  <2>1. Pressed \in Hist /\ Pressed.sel_com = history.sel_com
    BY <1>1 DEF Pressed, Hist
  <2>2. CASE history.sel_com < history.sto_i + 1 /\ LoggedIn
    <3>1. history' = [Pressed EXCEPT !.sel_com = next] /\ Shows(Typed(before, text), shown)
          /\ UNCHANGED <<currentTTY, switches>>
      BY <1>9, <2>2 DEF showPreviousCommand, r, l
    <3>2. next \in 0 .. STO_MAX /\ (next < STO_MAX => next \in 0 .. STO_MAX - 1)
      BY <1>1, <1>2, <2>2 DEF Hist
    <3>3. text \in Short /\ history' \in Hist
      BY <1>1, <2>0, <2>1, <3>1, <3>2 DEF Hist
    <3>. HIDE DEF text, next
    <3>4. before \in Ring /\ kept \in Short /\ (Holds(r, l) => Holds(before, kept))
      BY <1>1, <2>0, DeletedHolds
    <3>. HIDE DEF before, kept
    <3>5. Typed(before, text) \in Ring /\ (Holds(before, kept) => Holds(Typed(before, text), shown))
      BY <3>3, <3>4, TypedHolds
    <3>6. shown \in Short
      <4>. DEFINE fit == IF Len(text) < room THEN Len(text) ELSE room
                  end == SubSeq(text, 1, fit)
      <4>1. text \in Seq(Symbol) /\ Len(text) \in Nat /\ kept \in Seq(Symbol) /\ Len(kept) \in Nat
            /\ room \in Nat /\ Len(kept) + room = BUFFER_SIZE
        BY <1>2, <3>3, <3>4 DEF Short
      <4>. HIDE DEF room
      <4>2. fit \in 0 .. Len(text) /\ fit \in Nat /\ fit <= room
        BY <4>1
      <4>. HIDE DEF fit
      <4>3. end \in Seq(Symbol) /\ Len(end) = fit
        BY <4>1, <4>2
      <4>. HIDE DEF end
      <4>4. kept \o end \in Seq(Symbol) /\ Len(kept \o end) = Len(kept) + fit
        BY <4>1, <4>3
      <4>5. Len(kept \o end) <= BUFFER_SIZE
        BY <1>2, <4>1, <4>2, <4>4
      <4>. QED  BY <4>4, <4>5 DEF Short, end, fit
    <3>. HIDE DEF shown
    <3>. QED  BY <1>3, <3>1, <3>3, <3>4, <3>5, <3>6
  <2>3. CASE ~(history.sel_com < history.sto_i + 1 /\ LoggedIn)
    BY <1>4, <1>9, <2>1, <2>3 DEF showPreviousCommand
  <2>. QED  BY <2>2, <2>3
<1>. QED  BY <1>5, <1>6, <1>7, <1>8, <1>9 DEF Key

\* The history takes the line that was read.
LEMMA SaveTyped ==
  ASSUME LinesTyped, NEW text \in Short, saveCommand(text)
  PROVE  history' \in [storedComm : [0 .. STO_MAX - 1 -> Short], sto_i : 0 .. STO_MAX - 1,
                       sel_com : 0 .. STO_MAX, arrow_pressed : BOOLEAN]
<1>. DEFINE at == IF history.sto_i = STO_MAX - 1 THEN 0 ELSE history.sto_i + 1
            Hist == [storedComm : [0 .. STO_MAX - 1 -> Short], sto_i : 0 .. STO_MAX - 1,
                     sel_com : 0 .. STO_MAX, arrow_pressed : BOOLEAN]
<1>1. history \in Hist /\ STO_MAX \in Nat /\ STO_MAX > 1
  BY TerminalAssumption DEF LinesTyped
<1>2. at \in 0 .. STO_MAX - 1 /\ at + 1 \in 0 .. STO_MAX
  BY <1>1
<1>3. history' = IF text = <<>> THEN history
                 ELSE [history EXCEPT !.sto_i = at, !.sel_com = at + 1, !.storedComm[at] = text]
  BY DEF saveCommand
<1>. HIDE DEF at
<1>4. [history.storedComm EXCEPT ![at] = text] \in [0 .. STO_MAX - 1 -> Short]
  BY <1>1
<1>5. history' \in Hist
  <2>1. CASE text = <<>>
    BY <1>1, <1>3, <2>1
  <2>2. CASE text # <<>>
    <3>1. history' = [history EXCEPT !.sto_i = at, !.sel_com = at + 1,
                                     !.storedComm = [history.storedComm EXCEPT ![at] = text]]
      BY <1>3, <2>2
    <3>. QED  BY <1>1, <1>2, <1>4, <3>1
  <2>. QED  BY <2>1, <2>2
<1>. QED  BY <1>5

\* Every step keeps the lines.
LEMMA LinesStep ==
  ASSUME LinesTyped, LinesHeld, [TerminalNext]_terminalVars
  PROVE  LinesTyped' /\ LinesHeld'
<1>. DEFINE Hist == [storedComm : [0 .. STO_MAX - 1 -> Short], sto_i : 0 .. STO_MAX - 1,
                     sel_com : 0 .. STO_MAX, arrow_pressed : BOOLEAN]
<1>1. /\ terminals \in [Tty -> Ring] /\ line \in [Tty -> Short] /\ currentTTY \in Tty
      /\ history \in Hist /\ \A s \in switches : s.to \in Tty
  BY DEF LinesTyped
<1>. HIDE DEF Hist
<1>2. ASSUME terminals' \in [Tty -> Ring], line' \in [Tty -> Short], currentTTY' \in Tty,
             history' \in Hist, \A s \in switches' : s.to \in Tty
      PROVE  LinesTyped'
  BY <1>2 DEF LinesTyped, Hist, Ring, Short, Cells, Symbol
<1>3. ASSUME UNCHANGED <<terminals, line, taken, history>>, currentTTY' \in Tty,
             \A s \in switches' : s.to \in Tty
      PROVE  LinesTyped' /\ LinesHeld'
  <2>1. LinesHeld'
    BY <1>3 DEF LinesHeld, Holds
  <2>. QED  BY <1>1, <1>2, <1>3, <2>1
<1>4. <<>> \in Short
  BY Rounds DEF Short
<1>5. scanf(terminals[currentTTY]) \in Short /\ readKeyboard(terminals[currentTTY]) \in Ring
  BY <1>1, ReadTyped
<1>6. CASE UNCHANGED terminalVars
  BY <1>1, <1>3, <1>6 DEF terminalVars
<1>7. CASE Key
  BY <1>7, KeyHolds
<1>8. CASE SwitchEnds
  BY <1>1, <1>3, <1>8 DEF SwitchEnds
<1>9. CASE \E n \in Tty, on \in Tty \cup {-1} : SwitchBegins(n, on)
  BY <1>1, <1>3, <1>9 DEF SwitchBegins
<1>10. CASE logUser \/ logout_process
  BY <1>1, <1>3, <1>10 DEF logUser, logout_process
<1>11. ASSUME NEW next \in {"name", "password", "in"}, LogReads(next)
       PROVE  LinesTyped' /\ LinesHeld'
  <2>1. UNCHANGED <<currentTTY, switches, history>>
    BY <1>11 DEF LogReads
  <2>2. terminals' \in [Tty -> Ring] /\ line' \in [Tty -> Short] /\ LinesHeld'
    BY <1>11, ReadsHolds DEF LogReads
  <2>. QED  BY <1>1, <1>2, <2>1, <2>2
<1>12. ASSUME NEW t \in Tty, ShellStarts(t) \/ ShellBlocks(t) \/ CommandEnds(t)
       PROVE  LinesTyped' /\ LinesHeld'
  BY <1>1, <1>3, <1>12 DEF ShellStarts, ShellBlocks, CommandEnds
<1>13. ASSUME NEW t \in Tty, ShellReads(t)
       PROVE  history' \in Hist
  BY <1>5, <1>13, SaveTyped DEF ShellReads, Hist
<1>14. ASSUME NEW t \in Tty, ShellRunsCommand(t)
       PROVE  LinesTyped' /\ LinesHeld'
  <2>1. ShellReads(t) /\ UNCHANGED <<currentTTY, switches>>
    BY <1>14 DEF ShellRunsCommand
  <2>2. terminals' \in [Tty -> Ring] /\ line' \in [Tty -> Short] /\ LinesHeld'
    BY <1>14, ReadsHolds DEF ShellRunsCommand
  <2>3. history' \in Hist
    BY <1>13, <2>1
  <2>. QED  BY <1>1, <1>2, <2>1, <2>2, <2>3
<1>15. ASSUME NEW t \in Tty, ShellWaits(t) \/ ShellKills(t)
       PROVE  LinesTyped' /\ LinesHeld'
  <2>1. /\ ShellReads(t) /\ UNCHANGED <<currentTTY, switches, line>>
        /\ terminals' = [terminals EXCEPT ![currentTTY] = readKeyboard(terminals[currentTTY])]
        /\ taken' = taken \cup {currentTTY}
    BY <1>15 DEF ShellWaits, ShellKills
  <2>2. terminals' \in [Tty -> Ring]
    BY <1>1, <1>5, <2>1
  <2>3. LinesHeld'
    BY <1>1, <2>1 DEF LinesHeld
  <2>4. history' \in Hist
    BY <1>13, <2>1
  <2>. QED  BY <1>1, <1>2, <2>1, <2>2, <2>3, <2>4
<1>16. ASSUME NEW t \in Tty, ShellGoesOn(t)
       PROVE  LinesTyped' /\ LinesHeld'
  <2>. DEFINE b == clearTerminalBuffer(terminals[currentTTY])
  <2>1. /\ UNCHANGED <<currentTTY, switches, history>>
        /\ terminals' = [terminals EXCEPT ![currentTTY] = b]
        /\ line' = [line EXCEPT ![currentTTY] = <<>>] /\ taken' = taken \ {currentTTY}
    BY <1>16 DEF ShellGoesOn, Clears
  <2>2. b \in Ring /\ Holds(b, <<>>)
    BY <1>1, ClearHolds
  <2>. HIDE DEF b
  <2>3. terminals' \in [Tty -> Ring] /\ line' \in [Tty -> Short]
    BY <1>1, <1>4, <2>1, <2>2
  <2>4. LinesHeld'
    BY <1>1, <2>1, <2>2 DEF LinesHeld
  <2>. QED  BY <1>1, <1>2, <2>1, <2>3, <2>4
<1>17. ASSUME NEW t \in Tty, ShellLogsOut(t)
       PROVE  LinesTyped' /\ LinesHeld'
  <2>. DEFINE r(u) == IF u = currentTTY THEN readKeyboard(terminals[u]) ELSE terminals[u]
              b(u) == clearTerminalBuffer(r(u))
  <2>1. /\ ShellReads(t) /\ UNCHANGED <<currentTTY, switches>>
        /\ terminals' = [u \in Tty |-> b(u)] /\ line' = [u \in Tty |-> <<>>]
    BY <1>17 DEF ShellLogsOut
  <2>2. \A u \in Tty : r(u) \in Ring
    BY <1>1, <1>5
  <2>. HIDE DEF r
  <2>3. \A u \in Tty : b(u) \in Ring /\ Holds(b(u), <<>>)
    BY <2>2, ClearHolds
  <2>. HIDE DEF b
  <2>4. terminals' \in [Tty -> Ring] /\ line' \in [Tty -> Short]
    BY <1>4, <2>1, <2>3
  <2>5. LinesHeld'
    BY <2>1, <2>3 DEF LinesHeld
  <2>6. history' \in Hist
    BY <1>13, <2>1
  <2>. QED  BY <1>1, <1>2, <2>1, <2>4, <2>5, <2>6
<1>. QED
  BY <1>6, <1>7, <1>8, <1>9, <1>10, <1>11, <1>12, <1>14, <1>15, <1>16, <1>17
  DEF TerminalNext, AltKey, Shell, LogIn, LogOut

\* What a reader finds in a ring is the line that was typed (LineIntact): the characters
\* lie from first_char on, to actual_char, wherever the ring has wrapped.
THEOREM TerminalLines == TerminalSpec => []LineIntact
<1>1. TerminalInit => LinesTyped /\ LinesHeld
  <2>. SUFFICES ASSUME TerminalInit PROVE LinesTyped /\ LinesHeld
    OBVIOUS
  <2>1. BUFFER_SIZE \in Nat /\ BUFFER_SIZE > 0 /\ BUFFER_SIZE - 1 \in Cells
    BY Rounds DEF Cells
  <2>2. EmptyRing \in Ring /\ EmptyRing.first_char = 0 /\ EmptyRing.size = 0
        /\ EmptyRing.actual_char = BUFFER_SIZE - 1
    BY <2>1 DEF EmptyRing, Ring, Cells, Symbol
  <2>3. <<>> \in Short
    BY <2>1 DEF Short
  <2>4. Holds(EmptyRing, <<>>)
    <3>1. (0 - 1) % BUFFER_SIZE = BUFFER_SIZE - 1
      <4>1. 0 \in Nat /\ 0 % BUFFER_SIZE = 0
        BY <2>1
      <4>2. (0 - 1) % BUFFER_SIZE = IF 0 % BUFFER_SIZE = 0 THEN BUFFER_SIZE - 1
                                    ELSE (0 % BUFFER_SIZE) - 1
        BY <4>1, Rounds
      <4>. QED  BY <4>1, <4>2
    <3>2. EmptyRing.first_char + EmptyRing.size - 1 = 0 - 1
      BY <2>2
    <3>3. EmptyRing.actual_char = (EmptyRing.first_char + EmptyRing.size - 1) % BUFFER_SIZE
      BY <2>2, <3>1, <3>2
    <3>. QED  BY <2>2, <3>3 DEF Holds
  <2>5. /\ terminals = [t \in Tty |-> EmptyRing] /\ line = [t \in Tty |-> <<>>]
        /\ currentTTY = 0 /\ switches = {}
        /\ history = [storedComm |-> [i \in 0 .. STO_MAX - 1 |-> <<>>], sto_i |-> STO_MAX - 1,
                      sel_com |-> STO_MAX - 1, arrow_pressed |-> FALSE]
    BY DEF TerminalInit
  <2>6. LinesHeld
    BY <2>4, <2>5 DEF LinesHeld
  <2>7. 0 \in Tty /\ STO_MAX - 1 \in 0 .. STO_MAX - 1 /\ STO_MAX - 1 \in 0 .. STO_MAX
    BY TerminalAssumption
  <2>8. LinesTyped
    BY <2>2, <2>3, <2>5, <2>7 DEF LinesTyped
  <2>. QED  BY <2>6, <2>8
<1>2. LinesTyped /\ LinesHeld /\ [TerminalNext]_terminalVars => LinesTyped' /\ LinesHeld'
  BY LinesStep
<1>3. LinesTyped /\ LinesHeld => LineIntact
  <2>. SUFFICES ASSUME LinesTyped, LinesHeld, NEW t \in Tty \ taken
                PROVE  Unread(terminals[t], terminals[t].size) = line[t]
    BY DEF LineIntact
  <2>. DEFINE b == terminals[t]
              l == line[t]
  <2>1. Len(l) = b.size /\ \A i \in 1 .. b.size : b.array[(b.first_char + i - 1) % BUFFER_SIZE] = l[i]
    BY DEF LinesHeld, Holds
  <2>2. l \in Seq(Symbol)
    BY DEF LinesTyped, Short
  <2>. HIDE DEF b, l
  <2>3. l = [i \in 1 .. Len(l) |-> l[i]]
    BY <2>2
  <2>4. Unread(b, b.size) = [i \in 1 .. Len(l) |-> l[i]]
    BY <2>1 DEF Unread
  <2>. QED  BY <2>3, <2>4 DEF b, l
<1>. QED  BY <1>1, <1>2, <1>3, PTL DEF TerminalSpec

-----------------------------------------------------------------------------
(***************************************************************************)
(* tpesoGuia: screens.                                                     *)
(***************************************************************************)

\* Each terminal has a memory of its own, the one shown the video memory, and there
\* is one memory more.
Screens ==
  /\ CurrentTTY \in Term /\ backupTerm \in Memory
  /\ terminal \in [Term -> Memory]
  /\ terminal[CurrentTTY] = VIDEO
  /\ \A t, u \in Term : terminal[t] = terminal[u] => t = u
  /\ \A t \in Term : terminal[t] # backupTerm
  /\ screen \in [Memory -> {"blank", "text"}]

\* The memories change hands in AltFn only.
LEMMA OnlyAltFn ==
  ASSUME [GuiaNext]_guiaVars, Screens
  PROVE  \/ /\ UNCHANGED <<terminal, backupTerm, CurrentTTY>>
            /\ screen' \in [Memory -> {"blank", "text"}]
         \/ \E t \in Term : AltFn(t)
<1>. DEFINE Kept == UNCHANGED <<terminal, backupTerm, CurrentTTY>>
            Drawn == screen' \in [Memory -> {"blank", "text"}]
<1>. USE DEF Screens, display, keyboard, message, k_clear_screen, ShellEnter
<1>1. CASE UNCHANGED guiaVars
  BY <1>1 DEF guiaVars
<1>2. CASE ShellStep
  BY <1>2 DEF ShellStep, ShellBegins, ShellFinds, ShellPuts, ShellPrompts, ShellStops,
              ShellTypes, ShellOther
<1>3. CASE ShellCommand
  BY <1>3 DEF ShellCommand, ShellRuns, kill, nice
<1>4. CASE ProgramStep
  BY <1>4 DEF ProgramStep, IdleStarts, Payaso, TopStarts, TopLooks, TopAdvances, TopDraws,
              Dances, Sleep, Cleaner
<1>5. CASE Interrupt
  BY <1>5 DEF Interrupt, Tick, Modifier, Press
<1>. QED  BY <1>1, <1>2, <1>3, <1>4, <1>5 DEF GuiaNext

\* What AltFn does: every terminal keeps its screen and a memory of its own.
LEMMA AltFnKeeps ==
  ASSUME Screens, NEW n \in Term, AltFn(n)
  PROVE  /\ Screens'
         /\ \A t \in Term : screen'[terminal'[t]] = screen[terminal[t]]
<1>. DEFINE c == CurrentTTY
            b == backupTerm
<1>1. /\ VIDEO \in Memory /\ c \in Term /\ b \in Memory
      /\ screen \in [Memory -> {"blank", "text"}] /\ terminal \in [Term -> Memory]
      /\ terminal[c] = VIDEO /\ b # VIDEO
      /\ \A t, u \in Term : terminal[t] = terminal[u] => t = u
      /\ \A t \in Term : terminal[t] # b
  BY GuiaAssumption DEF Screens, VIDEO, Memory
<1>2. /\ screen' = [screen EXCEPT ![b] = screen[VIDEO], ![VIDEO] = screen[terminal[n]]]
      /\ terminal' = [terminal EXCEPT ![c] = b, ![n] = VIDEO]
      /\ backupTerm' = IF n = c THEN b ELSE terminal[n]
      /\ CurrentTTY' = n
  BY DEF AltFn
<1>3. /\ screen' \in [Memory -> {"blank", "text"}] /\ terminal' \in [Term -> Memory]
      /\ \A m \in Memory : screen'[m] = IF m = VIDEO THEN screen[terminal[n]]
                                        ELSE IF m = b THEN screen[VIDEO] ELSE screen[m]
      /\ \A t \in Term : terminal'[t] = IF t = n THEN VIDEO ELSE IF t = c THEN b ELSE terminal[t]
  BY <1>1, <1>2
<1>. HIDE DEF c, b
<1>4. \A t \in Term : screen'[terminal'[t]] = screen[terminal[t]]
  BY <1>1, <1>3
<1>5. /\ CurrentTTY' \in Term /\ backupTerm' \in Memory /\ terminal'[CurrentTTY'] = VIDEO
      /\ \A t, u \in Term : terminal'[t] = terminal'[u] => t = u
      /\ \A t \in Term : terminal'[t] # backupTerm'
  BY <1>1, <1>2, <1>3
<1>. QED  BY <1>3, <1>4, <1>5 DEF Screens

\* Switching terminals with Alt+Fn keeps every screen (SwitchKeepsScreens).
THEOREM GuiaScreensKept == GuiaSpec => SwitchKeepsScreens
<1>1. GuiaInit => Screens
  BY GuiaAssumption DEF GuiaInit, Screens, Term, Memory, VIDEO, SPARE
<1>2. Screens /\ [GuiaNext]_guiaVars => Screens'
  <2>. SUFFICES ASSUME Screens, [GuiaNext]_guiaVars PROVE Screens'
    OBVIOUS
  <2>1. CASE UNCHANGED <<terminal, backupTerm, CurrentTTY>> /\ screen' \in [Memory -> {"blank", "text"}]
    BY <2>1 DEF Screens
  <2>. QED  BY <2>1, OnlyAltFn, AltFnKeeps
<1>3. Screens /\ [GuiaNext]_guiaVars =>
        [CurrentTTY' # CurrentTTY \/ backupTerm' # backupTerm =>
           \A t \in Term : screen'[terminal'[t]] = screen[terminal[t]]]_guiaVars
  BY OnlyAltFn, AltFnKeeps
<1>. QED  BY <1>1, <1>2, <1>3, PTL DEF GuiaSpec, SwitchKeepsScreens
-----------------------------------------------------------------------------
(***************************************************************************)
(* tpesoGuia: processes.                                                   *)
(***************************************************************************)

ProcessName == {"Idle", "Shell", "Payaso", "Top", "dancing", "none"}
Process == [pid : Nat, name : ProcessName, priority : 0 .. MAX_PRIORITY, tty : Term,
            lastCalled : Nat, sleep : Int, blocked : Nat, parent : Nat, free : BOOLEAN]

\* Pids are given out in order: no two entries of the table have the same, and those
\* in use are not the idle process's.
PidsUnique ==
  /\ \A i \in Proc : procesos[i].pid < nextPID
  /\ \A i \in Proc : ~procesos[i].free => procesos[i].pid # 0
  /\ \A i, j \in Proc : procesos[i].pid = procesos[j].pid /\ procesos[i].pid # 0 => i = j

TableTyped ==
  /\ procesos \in [{Idle} \cup Proc -> Process]
  /\ CurrentPID \in Nat /\ nextPID \in Nat \ {0} /\ CurrentTTY \in Term

\* What is known of the process that runs: its entry, if it has one, has its pid.
LEMMA MeFound ==
  /\ Me \in {NULL, Idle} \cup Proc
  /\ Me \in Proc => procesos[Me].pid = CurrentPID
BY DEF Me, GetProcessByPID, NULL, Idle, Proc

\* FreeProc finds a free entry if there is one.
LEMMA FreeProcFound ==
  ASSUME \E i \in Proc : procesos[i].free
  PROVE  FreeProc \in Proc /\ procesos[FreeProc].free
<1>. DEFINE T == {i \in Proc : procesos[i].free}
<1>1. T \in SUBSET Nat /\ T # {}
  BY GuiaAssumption DEF Proc
<1>. HIDE DEF T
<1>2. \E m \in T : \A n \in T : m <= n
  BY <1>1, LeastNat
<1>3. Min(T) \in T
  BY <1>2 DEF Min
<1>. QED  BY <1>3 DEF T, FreeProc

\* A function on some of the numbers up to N is greatest at one of them.
LEMMA Greatest ==
  ASSUME NEW N \in Nat, NEW S \in SUBSET (1 .. N), S # {}, NEW f, \A i \in S : f[i] \in Int
  PROVE  \E i \in S : \A j \in S : f[j] <= f[i]
<1>. DEFINE Best(k) == (\E i \in S : i <= k) =>
                         \E i \in S : i <= k /\ \A j \in S : j <= k => f[j] <= f[i]
            done == {k \in Nat : Best(k)}
<1>1. 0 \in done
  OBVIOUS
<1>2. ASSUME NEW k \in 0 .. N - 1, k \in done
      PROVE  k + 1 \in done
  <2>1. CASE k + 1 \notin S
    <3>1. k \in Nat /\ \A i \in S : i <= k + 1 <=> i <= k
      BY <2>1
    <3>. QED  BY <1>2, <3>1
  <2>2. CASE k + 1 \in S /\ \E i \in S : i <= k
    <3>1. PICK i \in S : i <= k /\ \A j \in S : j <= k => f[j] <= f[i]
      BY <1>2, <2>2
    <3>2. k \in Nat /\ \A j \in S : j <= k + 1 => j <= k \/ j = k + 1
      OBVIOUS
    <3>3. f[i] \in Int /\ f[k + 1] \in Int /\ \A j \in S : f[j] \in Int
      BY <2>2
    <3>4. CASE f[k + 1] <= f[i]
      BY <3>1, <3>2, <3>4
    <3>5. CASE f[i] <= f[k + 1]
      <4>1. \A j \in S : j <= k + 1 => f[j] <= f[k + 1]
        BY <3>1, <3>2, <3>3, <3>5
      <4>. QED  BY <2>2, <3>2, <4>1
    <3>. QED  BY <3>3, <3>4, <3>5
  <2>3. CASE k + 1 \in S /\ ~ \E i \in S : i <= k
    <3>1. k \in Nat /\ f[k + 1] \in Int /\ \A j \in S : j <= k + 1 => j = k + 1
      BY <2>3
    <3>. QED  BY <2>3, <3>1
  <2>. QED  BY <2>1, <2>2, <2>3
<1>3. N \in done
  <2>. HIDE DEF done
  <2>1. \A n \in 0 .. N : n \in done
    BY <1>1, <1>2, UpTo
  <2>. QED  BY <2>1
<1>4. Best(N)
  BY <1>3
<1>5. \A i \in S : i <= N
  OBVIOUS
<1>. QED  BY <1>4, <1>5

\* The process that Tick gives the CPU: nobody can run, or one of the most urgent.
LEMMA NextTaskFound ==
  ASSUME NEW ps \in [{Idle} \cup Proc -> Process], NEW aged \in [{Idle} \cup Proc -> Process]
  PROVE  LET able == {i \in Proc : Eligible(ps[i])}
             to == GetNextTask(ps, aged)
         IN  \/ to = Idle /\ able = {}
             \/ to \in able /\ \A j \in able : TaskValue(aged[j]) <= TaskValue(aged[to])
<1>. DEFINE able == {i \in Proc : Eligible(ps[i])}
            f == [i \in Proc |-> TaskValue(aged[i])]
            best == {i \in able : \A j \in able : TaskValue(aged[j]) <= TaskValue(aged[i])}
<1>1. \A i \in Proc : f[i] = TaskValue(aged[i]) /\ f[i] \in Int
  <2>1. \A i \in Proc : aged[i].priority \in Int /\ aged[i].lastCalled \in Int
    BY DEF Process
  <2>. QED  BY <2>1, GuiaAssumption DEF TaskValue
<1>2. CASE able = {}
  BY <1>2 DEF GetNextTask
<1>3. CASE able # {}
  <2>1. ~NoProcesses(ps)
    BY <1>3 DEF NoProcesses, Eligible
  <2>2. able \in SUBSET (1 .. PROCS) /\ PROCS \in Nat /\ able \subseteq Proc
    BY GuiaAssumption DEF Proc
  <2>. HIDE DEF able, f
  <2>3. \E i \in able : \A j \in able : f[j] <= f[i]
    <3>1. \A i \in able : f[i] \in Int
      BY <1>1, <2>2
    <3>. QED  BY <1>3, <2>2, <3>1, Greatest
  <2>4. best # {} /\ best \in SUBSET Nat
    <3>1. PICK i \in able : \A j \in able : f[j] <= f[i]
      BY <2>3
    <3>2. \A j \in able : f[j] = TaskValue(aged[j])
      BY <1>1, <2>2
    <3>3. i \in best
      BY <3>1, <3>2
    <3>4. able \in SUBSET Nat
      BY <2>2
    <3>. QED  BY <3>3, <3>4
  <2>5. GetNextTask(ps, aged) = Min(best)
    BY <1>3, <2>1 DEF GetNextTask, able
  <2>. HIDE DEF best
  <2>6. \E m \in best : \A n \in best : m <= n
    BY <2>4, LeastNat
  <2>7. Min(best) \in best
    BY <2>6 DEF Min
  <2>. QED  BY <2>5, <2>7 DEF best, able
<1>. QED  BY <1>2, <1>3

\* A step that leaves entries, pids and parents as they are and makes nobody wait for a
\* child, and a step in which nobody grows older.
Calm == /\ nextPID' = nextPID
        /\ \A i \in Proc : /\ procesos'[i].pid = procesos[i].pid
                           /\ procesos'[i].parent = procesos[i].parent
                           /\ procesos'[i].free <=> procesos[i].free
                           /\ procesos'[i].blocked = 2 => procesos[i].blocked = 2
NotOlder == \A i \in Proc : procesos'[i].lastCalled <= procesos[i].lastCalled

\* What Tick does to the table.
LEMMA TickTable ==
  ASSUME TableTyped, Tick
  PROVE  /\ TableTyped' /\ Calm
         /\ LET able == {i \in Proc : Eligible(procesos[i])}
            IN  \/ able = {} /\ NotOlder
                \/ \E c \in able :
                     /\ \A j \in able : TaskValue(procesos[j]) <= TaskValue(procesos[c])
                     /\ procesos'[c].lastCalled = 0
                     /\ \A i \in Proc \ {c} : procesos'[i].lastCalled =
                          IF i \in able THEN procesos[i].lastCalled + 1
                          ELSE procesos[i].lastCalled
<1>. DEFINE aged == Aged(procesos)
            to == GetNextTask(procesos, aged)
            able == {i \in Proc : Eligible(procesos[i])}
<1>1. procesos \in [{Idle} \cup Proc -> Process] /\ Idle \notin Proc
  BY DEF TableTyped, Idle, Proc
<1>2. /\ aged \in [{Idle} \cup Proc -> Process]
      /\ \A i \in {Idle} \cup Proc :
           /\ aged[i].pid = procesos[i].pid /\ aged[i].parent = procesos[i].parent
           /\ aged[i].free <=> procesos[i].free
           /\ aged[i].blocked = procesos[i].blocked /\ aged[i].priority = procesos[i].priority
           /\ i \in Proc => aged[i].lastCalled = IF i \in able THEN procesos[i].lastCalled + 1
                                                ELSE procesos[i].lastCalled
  <2>1. ASSUME NEW i \in {Idle} \cup Proc
        PROVE  /\ aged[i] \in Process
               /\ aged[i].pid = procesos[i].pid /\ aged[i].parent = procesos[i].parent
               /\ aged[i].free <=> procesos[i].free
               /\ aged[i].blocked = procesos[i].blocked /\ aged[i].priority = procesos[i].priority
               /\ i \in Proc => aged[i].lastCalled = IF i \in able THEN procesos[i].lastCalled + 1
                                                    ELSE procesos[i].lastCalled
    <3>1. procesos[i] \in Process
      BY <1>1
    <3>2. CASE i = Idle \/ procesos[i].free
      <4>1. aged[i] = procesos[i]
        BY <3>2 DEF Aged
      <4>2. i \in Proc => i \notin able
        BY <1>1, <3>2 DEF Eligible
      <4>. QED BY <3>1, <4>1, <4>2
    <3>3. CASE i # Idle /\ ~procesos[i].free /\ procesos[i].sleep < 0
      <4>1. aged[i] = [procesos[i] EXCEPT !.sleep = @ + 1]
        BY <3>3 DEF Aged
      <4>2. i \notin able
        BY <3>1, <3>3 DEF Eligible, Process
      <4>. QED BY <3>1, <3>3, <4>1, <4>2 DEF Process
    <3>4. CASE i # Idle /\ ~procesos[i].free /\ ~(procesos[i].sleep < 0) /\ procesos[i].blocked = 0
      <4>1. aged[i] = [procesos[i] EXCEPT !.lastCalled = @ + 1]
        BY <3>4 DEF Aged
      <4>2. i \in able
        BY <3>1, <3>4 DEF Eligible, Process
      <4>. QED BY <3>1, <4>1, <4>2 DEF Process
    <3>5. CASE i # Idle /\ ~procesos[i].free /\ ~(procesos[i].sleep < 0) /\ procesos[i].blocked # 0
      <4>1. aged[i] = procesos[i]
        BY <3>5 DEF Aged
      <4>2. i \notin able
        BY <3>5 DEF Eligible
      <4>. QED BY <3>1, <4>1, <4>2
    <3>. QED BY <3>2, <3>3, <3>4, <3>5
  <2>2. aged = [i \in {Idle} \cup Proc |-> aged[i]]
    BY DEF Aged
  <2>. HIDE DEF aged, able
  <2>. QED BY <2>1, <2>2
<1>3. /\ procesos' = [aged EXCEPT ![to].lastCalled = 0] /\ CurrentPID' = aged[to].pid
      /\ nextPID' = nextPID /\ CurrentTTY' = CurrentTTY
  BY DEF Tick, display, keyboard
<1>. HIDE DEF aged, to, able
<1>4. \/ to = Idle /\ able = {}
      \/ to \in able /\ \A j \in able : TaskValue(aged[j]) <= TaskValue(aged[to])
  BY <1>1, <1>2, NextTaskFound DEF to, able
<1>5. to \in {Idle} \cup Proc
  BY <1>4 DEF able
<1>6. /\ procesos' \in [{Idle} \cup Proc -> Process]
      /\ \A i \in {Idle} \cup Proc :
           /\ procesos'[i].pid = aged[i].pid /\ procesos'[i].parent = aged[i].parent
           /\ procesos'[i].free <=> aged[i].free
           /\ procesos'[i].blocked = aged[i].blocked
           /\ procesos'[i].lastCalled = IF i = to THEN 0 ELSE aged[i].lastCalled
  BY <1>2, <1>3, <1>5 DEF Process
<1>7. TableTyped'
  BY <1>2, <1>3, <1>5, <1>6 DEF TableTyped, Process
<1>8. Calm
  BY <1>2, <1>3, <1>6 DEF Calm
<1>9. \A i \in Proc : procesos[i].lastCalled \in Nat /\ procesos[i].priority \in Int
  BY <1>1 DEF Process
<1>10. CASE to = Idle /\ able = {}
  <2>1. NotOlder
    BY <1>1, <1>2, <1>6, <1>9, <1>10 DEF NotOlder
  <2>. QED  BY <1>7, <1>8, <1>10, <2>1 DEF able
<1>11. CASE to \in able /\ \A j \in able : TaskValue(aged[j]) <= TaskValue(aged[to])
  <2>1. \A j \in able : j \in Proc
    BY DEF able
  <2>2. \A j \in able : TaskValue(aged[j]) = TaskValue(procesos[j]) + 1
                        /\ TaskValue(procesos[j]) \in Int
    BY <1>2, <1>9, <2>1, GuiaAssumption DEF TaskValue
  <2>3. \A j \in able : TaskValue(procesos[j]) <= TaskValue(procesos[to])
    BY <1>11, <2>2
  <2>4. procesos'[to].lastCalled = 0
    BY <1>5, <1>6
  <2>5. \A i \in Proc \ {to} : procesos'[i].lastCalled =
          IF i \in able THEN procesos[i].lastCalled + 1 ELSE procesos[i].lastCalled
    BY <1>2, <1>6
  <2>. QED  BY <1>7, <1>8, <1>11, <2>3, <2>4, <2>5 DEF able
<1>. QED  BY <1>4, <1>10, <1>11

\* What CreateProcessAt does to the table.
LEMMA CreateTable ==
  ASSUME TableTyped, NEW name \in ProcessName, NEW front \in BOOLEAN, RoomForProcess,
         procesos' = CreateProcessAt(name, CurrentTTY, front), nextPID' = nextPID + 1,
         UNCHANGED <<CurrentPID, CurrentTTY>>
  PROVE  /\ TableTyped' /\ NotOlder
         /\ FreeProc \in Proc /\ procesos[FreeProc].free /\ FreeProc # Me
         /\ procesos'[FreeProc].pid = nextPID
         /\ procesos'[FreeProc].parent = IF front THEN CurrentPID ELSE 0
         /\ procesos'[FreeProc].blocked = 0 /\ ~procesos'[FreeProc].free
         /\ \A i \in Proc \ {FreeProc} :
              /\ procesos'[i].pid = procesos[i].pid
              /\ procesos'[i].parent = procesos[i].parent
              /\ procesos'[i].free <=> procesos[i].free
              /\ procesos'[i].blocked =
                   IF i = Me /\ front THEN 2 ELSE procesos[i].blocked
<1>1. FreeProc \in Proc /\ procesos[FreeProc].free /\ FreeProc # Me
  BY FreeProcFound DEF RoomForProcess
<1>2. /\ procesos \in [{Idle} \cup Proc -> Process] /\ nextPID \in Nat \ {0}
      /\ CurrentPID \in Nat /\ CurrentTTY \in Term
  BY DEF TableTyped
<1>. DEFINE new == NewProcess(name, nextPID, CurrentTTY, IF front THEN CurrentPID ELSE 0)
<1>3. /\ new \in Process /\ new.pid = nextPID /\ new.blocked = 0 /\ ~new.free
      /\ new.parent = IF front THEN CurrentPID ELSE 0
      /\ new.lastCalled = 0
  BY <1>2, GuiaAssumption DEF NewProcess, Process
<1>. HIDE DEF new
<1>4. /\ procesos' = [i \in {Idle} \cup Proc |->
           IF i = FreeProc THEN new
           ELSE IF i = Me /\ front THEN [procesos[i] EXCEPT !.blocked = 2] ELSE procesos[i]]
  BY DEF CreateProcessAt, new
<1>5. procesos' \in [{Idle} \cup Proc -> Process]
  BY <1>2, <1>3, <1>4 DEF Process
<1>6. procesos'[FreeProc] = new
  BY <1>1, <1>4
<1>7. \A i \in Proc \ {FreeProc} :
              /\ procesos'[i].pid = procesos[i].pid
              /\ procesos'[i].parent = procesos[i].parent
              /\ procesos'[i].free <=> procesos[i].free
              /\ procesos'[i].lastCalled = procesos[i].lastCalled
              /\ procesos'[i].blocked =
                   IF i = Me /\ front THEN 2 ELSE procesos[i].blocked
  BY <1>2, <1>4 DEF Process
<1>8. TableTyped'
  BY <1>2, <1>5 DEF TableTyped, Process
<1>9. NotOlder
  <2>1. \A i \in Proc : procesos[i].lastCalled \in Nat
    BY <1>2 DEF Process
  <2>. QED  BY <1>3, <1>6, <1>7, <2>1 DEF NotOlder
<1>. QED  BY <1>1, <1>3, <1>6, <1>7, <1>8, <1>9

\* What Destroy does to the table.
LEMMA DestroyTable ==
  ASSUME TableTyped, NEW p, procesos' = Destroy(p),
         UNCHANGED <<CurrentPID, nextPID, CurrentTTY>>
  PROVE  /\ TableTyped' /\ NotOlder
         /\ \A i \in Proc :
              /\ procesos'[i].pid = procesos[i].pid
              /\ procesos'[i].parent = procesos[i].parent
              /\ procesos'[i].free <=> (i = p \/ procesos[i].free)
              /\ procesos'[i].blocked \in {0, procesos[i].blocked}
              /\ i # p /\ i = GetProcessByPID(procesos, procesos[p].parent) /\ procesos[p].parent # 0
                   => procesos'[i].blocked = 0
<1>1. procesos \in [{Idle} \cup Proc -> Process]
  BY DEF TableTyped
<1>. DEFINE padre == GetProcessByPID(procesos, procesos[p].parent)
<1>2. procesos' = [i \in {Idle} \cup Proc |->
         IF i = p THEN [procesos[i] EXCEPT !.free = TRUE]
         ELSE IF i = padre /\ procesos[p].parent # 0 THEN [procesos[i] EXCEPT !.blocked = 0]
         ELSE procesos[i]]
  BY DEF Destroy
<1>. HIDE DEF padre
<1>3. procesos' \in [{Idle} \cup Proc -> Process]
  <2>1. \A r \in Process : [r EXCEPT !.free = TRUE] \in Process /\ [r EXCEPT !.blocked = 0] \in Process
    BY DEF Process
  <2>. QED  BY <1>1, <1>2, <2>1
<1>4. \A i \in Proc :
              /\ procesos'[i].pid = procesos[i].pid
              /\ procesos'[i].parent = procesos[i].parent
              /\ procesos'[i].free <=> (i = p \/ procesos[i].free)
              /\ procesos'[i].blocked \in {0, procesos[i].blocked}
              /\ procesos'[i].lastCalled = procesos[i].lastCalled /\ procesos[i].lastCalled \in Nat
              /\ i # p /\ i = padre /\ procesos[p].parent # 0 => procesos'[i].blocked = 0
  BY <1>1, <1>2 DEF Process
<1>5. TableTyped'
  BY <1>3 DEF TableTyped, Process
<1>6. NotOlder
  BY <1>4 DEF NotOlder
<1>. QED  BY <1>4, <1>5, <1>6 DEF padre

\* The steps of the system as the table sees them.
LEMMA TableSteps ==
  ASSUME TableTyped, [GuiaNext]_guiaVars
  PROVE  \/ TableTyped' /\ Calm /\ NotOlder
         \/ Tick
         \/ \E name \in ProcessName, front \in BOOLEAN :
              /\ RoomForProcess /\ procesos' = CreateProcessAt(name, CurrentTTY, front)
              /\ nextPID' = nextPID + 1 /\ UNCHANGED <<CurrentPID, CurrentTTY>>
         \/ \E p : procesos' = Destroy(p) /\ UNCHANGED <<CurrentPID, nextPID, CurrentTTY>>
<1>0. procesos \in [{Idle} \cup Proc -> Process]
  BY DEF TableTyped
<1>1. ASSUME UNCHANGED <<procesos, CurrentPID, nextPID>>, CurrentTTY' \in Term
      PROVE  TableTyped' /\ Calm /\ NotOlder
  <2>1. \A i \in Proc : procesos[i].lastCalled \in Nat
    BY <1>0 DEF Process
  <2>. QED  BY <1>1, <2>1 DEF TableTyped, Calm, NotOlder
<1>2. ASSUME UNCHANGED <<CurrentPID, nextPID, CurrentTTY>>,
             procesos' \in [{Idle} \cup Proc -> Process],
             \A i \in Proc : /\ procesos'[i].pid = procesos[i].pid
                             /\ procesos'[i].parent = procesos[i].parent
                             /\ procesos'[i].free <=> procesos[i].free
                             /\ procesos'[i].blocked = 2 => procesos[i].blocked = 2
                             /\ procesos'[i].lastCalled = procesos[i].lastCalled
      PROVE  TableTyped' /\ Calm /\ NotOlder
  <2>1. \A i \in Proc : procesos[i].lastCalled \in Nat
    BY <1>0 DEF Process
  <2>. QED  BY <1>2, <2>1 DEF TableTyped, Calm, NotOlder
<1>3. CASE \/ UNCHANGED guiaVars \/ ShellBegins \/ ShellFinds \/ ShellPuts \/ ShellPrompts
           \/ ShellTypes \/ ShellOther \/ IdleStarts \/ Payaso \/ TopStarts \/ TopLooks
           \/ TopAdvances \/ TopDraws \/ Dances
           \/ (\E m \in Modifiers : Modifier(m)) \/ (\E t \in Term : AltFn(t))
  <2>1. UNCHANGED <<procesos, CurrentPID, nextPID>> /\ (CurrentTTY' = CurrentTTY \/ CurrentTTY' \in Term)
    BY <1>3 DEF guiaVars, ShellBegins, ShellFinds, ShellPuts, ShellPrompts, ShellTypes,
                ShellOther, ShellEnter, IdleStarts, Payaso, TopStarts, TopLooks, TopAdvances,
                TopDraws, Dances, Modifier, AltFn, display, keyboard
  <2>2. CurrentTTY' \in Term
    BY <2>1 DEF TableTyped
  <2>. QED  BY <1>1, <2>1, <2>2
<1>4. CASE ShellStops
  <2>1. /\ UNCHANGED <<CurrentPID, nextPID, CurrentTTY>>
        /\ procesos' = [procesos EXCEPT ![Me].blocked = IF @ = 0 THEN 1 ELSE @]
    BY <1>4 DEF ShellStops, display, keyboard
  <2>2. procesos' \in [{Idle} \cup Proc -> Process]
    <3>1. \A p \in Process : [p EXCEPT !.blocked = IF @ = 0 THEN 1 ELSE @] \in Process
      BY DEF Process
    <3>. QED  BY <1>0, <2>1, <3>1
  <2>3. \A i \in Proc : /\ procesos'[i].pid = procesos[i].pid
                        /\ procesos'[i].parent = procesos[i].parent
                        /\ procesos'[i].free <=> procesos[i].free
                        /\ procesos'[i].blocked = 2 => procesos[i].blocked = 2
                        /\ procesos'[i].lastCalled = procesos[i].lastCalled
    BY <1>0, <2>1 DEF Process
  <2>. QED  BY <1>2, <2>1, <2>2, <2>3
<1>5. CASE Sleep
  <2>1. PICK n \in IF procesos[Me].name = "Top" THEN {0, NAP} ELSE {NAP} :
          procesos' = [procesos EXCEPT ![Me].sleep = -n]
    BY <1>5 DEF Sleep
  <2>2. UNCHANGED <<CurrentPID, nextPID, CurrentTTY>> /\ -n \in Int
    BY <1>5, GuiaAssumption DEF Sleep, display, keyboard
  <2>3. procesos' \in [{Idle} \cup Proc -> Process]
    <3>1. \A p \in Process : [p EXCEPT !.sleep = -n] \in Process
      BY <2>2 DEF Process
    <3>. QED  BY <1>0, <2>1, <3>1
  <2>4. \A i \in Proc : /\ procesos'[i].pid = procesos[i].pid
                        /\ procesos'[i].parent = procesos[i].parent
                        /\ procesos'[i].free <=> procesos[i].free
                        /\ procesos'[i].blocked = 2 => procesos[i].blocked = 2
                        /\ procesos'[i].lastCalled = procesos[i].lastCalled
    BY <1>0, <2>1 DEF Process
  <2>. QED  BY <1>2, <2>2, <2>3, <2>4
<1>6. CASE \E key \in Keys : Press(key)
  <2>1. /\ UNCHANGED <<CurrentPID, nextPID, CurrentTTY>>
        /\ procesos' = [i \in {Idle} \cup Proc |->
             IF i # Idle /\ procesos[i].blocked = 1 /\ procesos[i].tty = CurrentTTY
             THEN [procesos[i] EXCEPT !.blocked = 0] ELSE procesos[i]]
    BY <1>6 DEF Press
  <2>2. procesos' \in [{Idle} \cup Proc -> Process]
    BY <1>0, <2>1 DEF Process
  <2>3. \A i \in Proc : /\ procesos'[i].pid = procesos[i].pid
                        /\ procesos'[i].parent = procesos[i].parent
                        /\ procesos'[i].free <=> procesos[i].free
                        /\ procesos'[i].blocked = 2 => procesos[i].blocked = 2
                        /\ procesos'[i].lastCalled = procesos[i].lastCalled
    BY <1>0, <2>1 DEF Process
  <2>. QED  BY <1>2, <2>1, <2>2, <2>3
<1>7. CASE \E p \in {Idle} \cup Proc, prior \in 0 .. MAX_PRIORITY : nice(p, prior)
  <2>1. PICK p \in {Idle} \cup Proc, prior \in 0 .. MAX_PRIORITY : nice(p, prior)
    BY <1>7
  <2>2. /\ UNCHANGED <<CurrentPID, nextPID, CurrentTTY>>
        /\ procesos' = [procesos EXCEPT ![p].priority = prior]
    BY <2>1 DEF nice, ShellEnter, keyboard
  <2>3. procesos' \in [{Idle} \cup Proc -> Process]
    BY <1>0, <2>2 DEF Process
  <2>4. \A i \in Proc : /\ procesos'[i].pid = procesos[i].pid
                        /\ procesos'[i].parent = procesos[i].parent
                        /\ procesos'[i].free <=> procesos[i].free
                        /\ procesos'[i].blocked = 2 => procesos[i].blocked = 2
                        /\ procesos'[i].lastCalled = procesos[i].lastCalled
    BY <1>0, <2>2 DEF Process
  <2>. QED  BY <1>2, <2>2, <2>3, <2>4
<1>8. CASE \E name \in {"Payaso", "Top", "dancing"}, isFront \in BOOLEAN : ShellRuns(name, isFront)
  <2>1. PICK name \in {"Payaso", "Top", "dancing"}, front \in BOOLEAN : ShellRuns(name, front)
    BY <1>8
  <2>2. name \in ProcessName
    BY <2>1 DEF ProcessName
  <2>3. /\ RoomForProcess /\ procesos' = CreateProcessAt(name, CurrentTTY, front)
        /\ nextPID' = nextPID + 1 /\ UNCHANGED <<CurrentPID, CurrentTTY>>
    BY <2>1 DEF ShellRuns, ShellEnter, keyboard
  <2>. QED  BY <2>2, <2>3
<1>9. CASE (\E p \in {Idle} \cup Proc : kill(p)) \/ Cleaner
  BY <1>9 DEF kill, Cleaner, ShellEnter, keyboard
<1>. QED
  BY <1>3, <1>4, <1>5, <1>6, <1>7, <1>8, <1>9
  DEF GuiaNext, ShellStep, ShellCommand, ProgramStep, Interrupt

\* The table starts well typed.
LEMMA TableStarts ==
  ASSUME GuiaInit
  PROVE  TableTyped /\ PidsUnique /\ WaiterHasChild /\ \A i \in Proc : procesos[i].lastCalled = 0
<1>. DEFINE Ok(i) == /\ InitialProcess(i) \in Process
                     /\ InitialProcess(i).lastCalled = 0 /\ InitialProcess(i).blocked = 0
                     /\ InitialProcess(i).pid = IF i \in 1 .. TERMS THEN i ELSE 0
                     /\ ~InitialProcess(i).free => i \in {Idle} \cup 1 .. TERMS
<1>1. ASSUME NEW i \in {Idle} \cup Proc
      PROVE  Ok(i)
  <2>0. TERMS \in Nat /\ TERMS > 0 /\ TERMS \in Int /\ i \in Nat
    BY GuiaAssumption DEF Idle, Proc
  <2>1. CASE i = Idle
    <3>1. InitialProcess(i) =
            [pid |-> 0, name |-> "Idle", priority |-> MAX_PRIORITY, tty |-> 0, lastCalled |-> 0,
             sleep |-> 0, blocked |-> 0, parent |-> 0, free |-> FALSE]
      BY <2>1 DEF InitialProcess, NewProcess
    <3>2. 0 \in Term /\ MAX_PRIORITY \in 0 .. MAX_PRIORITY /\ "Idle" \in ProcessName /\ i \notin 1 .. TERMS
      BY <2>0, <2>1, GuiaAssumption DEF Term, ProcessName, Idle
    <3>. QED  BY <2>1, <3>1, <3>2 DEF Process
  <2>2. CASE i # Idle /\ i <= TERMS
    <3>1. InitialProcess(i) = NewProcess("Shell", i, i - 1, 0) /\ i \in 1 .. TERMS
      BY <2>0, <2>2 DEF InitialProcess, Idle
    <3>. QED  BY <2>0, <3>1, GuiaAssumption DEF NewProcess, Process, ProcessName, Term
  <2>3. CASE i # Idle /\ ~(i <= TERMS)
    <3>1. InitialProcess(i) =
            [pid |-> 0, name |-> "none", priority |-> SHELL_PRIORITY, tty |-> 0, lastCalled |-> 0,
             sleep |-> 0, blocked |-> 0, parent |-> 0, free |-> TRUE]
      BY <2>3 DEF InitialProcess, NewProcess
    <3>2. 0 \in Term /\ SHELL_PRIORITY \in 0 .. MAX_PRIORITY /\ "none" \in ProcessName /\ i \notin 1 .. TERMS
      BY <2>0, <2>3, GuiaAssumption DEF Term, ProcessName
    <3>. QED  BY <3>1, <3>2 DEF Process
  <2>. QED  BY <2>1, <2>2, <2>3
<1>2. procesos = [i \in {Idle} \cup Proc |-> InitialProcess(i)] /\ nextPID = TERMS + 1
      /\ CurrentPID = 0 /\ CurrentTTY = 0
  BY DEF GuiaInit
<1>3. \A i \in Proc : /\ procesos[i].lastCalled = 0 /\ procesos[i].blocked = 0
                      /\ procesos[i].pid = IF i \in 1 .. TERMS THEN i ELSE 0
                      /\ ~procesos[i].free => i \in {Idle} \cup 1 .. TERMS
  BY <1>1, <1>2
<1>4. TERMS \in Nat /\ TERMS > 0 /\ \A i \in Proc : i \in Nat /\ i # Idle
  BY GuiaAssumption DEF Proc, Idle
<1>5. TableTyped
  BY <1>1, <1>2, <1>4 DEF TableTyped, Term
<1>6. PidsUnique
  BY <1>2, <1>3, <1>4 DEF PidsUnique
<1>. QED  BY <1>3, <1>5, <1>6 DEF WaiterHasChild

\* A waiting process has a child alive, and keeps one until it goes on.
LEMMA WaiterStep ==
  ASSUME TableTyped, PidsUnique, WaiterHasChild, [GuiaNext]_guiaVars
  PROVE  TableTyped' /\ PidsUnique' /\ WaiterHasChild'
<1>1. ASSUME TableTyped', Calm
      PROVE  TableTyped' /\ PidsUnique' /\ WaiterHasChild'
  BY <1>1 DEF Calm, PidsUnique, WaiterHasChild
<1>0. nextPID \in Nat /\ nextPID # 0 /\ \A i \in Proc : procesos[i].pid \in Nat
  BY DEF TableTyped, Process
<1>2. ASSUME NEW name \in ProcessName, NEW front \in BOOLEAN, RoomForProcess,
             procesos' = CreateProcessAt(name, CurrentTTY, front), nextPID' = nextPID + 1,
             UNCHANGED <<CurrentPID, CurrentTTY>>
      PROVE  TableTyped' /\ PidsUnique' /\ WaiterHasChild'
  <2>. DEFINE new == FreeProc
  <2>1. /\ TableTyped' /\ new \in Proc /\ procesos[new].free /\ new # Me
        /\ procesos'[new].pid = nextPID
        /\ procesos'[new].parent = IF front THEN CurrentPID ELSE 0
        /\ procesos'[new].blocked = 0 /\ ~procesos'[new].free
        /\ \A i \in Proc \ {new} :
             /\ procesos'[i].pid = procesos[i].pid
             /\ procesos'[i].parent = procesos[i].parent
             /\ procesos'[i].free <=> procesos[i].free
             /\ procesos'[i].blocked = IF i = Me /\ front THEN 2 ELSE procesos[i].blocked
    BY <1>2, CreateTable
  <2>. HIDE DEF new
  <2>2. PidsUnique'
    <3>1. \A i \in Proc : procesos'[i].pid < nextPID'
      BY <1>0, <1>2, <2>1 DEF PidsUnique
    <3>2. \A i \in Proc : ~procesos'[i].free => procesos'[i].pid # 0
      BY <1>0, <2>1 DEF PidsUnique
    <3>3. \A i \in Proc \ {new} : procesos'[i].pid # nextPID
      BY <1>0, <2>1 DEF PidsUnique
    <3>4. \A i, j \in Proc : procesos'[i].pid = procesos'[j].pid /\ procesos'[i].pid # 0 => i = j
      BY <2>1, <3>3 DEF PidsUnique
    <3>. QED  BY <3>1, <3>2, <3>4 DEF PidsUnique
  <2>3. WaiterHasChild'
    <3>. SUFFICES ASSUME NEW i \in Proc, ~procesos'[i].free, procesos'[i].blocked = 2
                  PROVE  \E j \in Proc : ~procesos'[j].free /\ procesos'[j].parent = procesos'[i].pid
      BY DEF WaiterHasChild
    <3>1. i # new
      BY <2>1
    <3>2. CASE i = Me /\ front
      <4>1. procesos[i].pid = CurrentPID
        BY <3>2, MeFound
      <4>. QED  BY <2>1, <3>1, <3>2, <4>1
    <3>3. CASE ~(i = Me /\ front)
      <4>1. ~procesos[i].free /\ procesos[i].blocked = 2 /\ procesos'[i].pid = procesos[i].pid
        BY <2>1, <3>1, <3>3
      <4>2. PICK j \in Proc : ~procesos[j].free /\ procesos[j].parent = procesos[i].pid
        BY <4>1 DEF WaiterHasChild
      <4>3. j # new
        BY <2>1, <4>2
      <4>. QED  BY <2>1, <4>1, <4>2, <4>3
    <3>. QED  BY <3>2, <3>3
  <2>. QED  BY <2>1, <2>2, <2>3
<1>3. ASSUME NEW p, procesos' = Destroy(p), UNCHANGED <<CurrentPID, nextPID, CurrentTTY>>
      PROVE  TableTyped' /\ PidsUnique' /\ WaiterHasChild'
  <2>. DEFINE padre == GetProcessByPID(procesos, procesos[p].parent)
  <2>1. /\ TableTyped'
        /\ \A i \in Proc :
             /\ procesos'[i].pid = procesos[i].pid
             /\ procesos'[i].parent = procesos[i].parent
             /\ procesos'[i].free <=> (i = p \/ procesos[i].free)
             /\ procesos'[i].blocked \in {0, procesos[i].blocked}
             /\ i # p /\ i = padre /\ procesos[p].parent # 0 => procesos'[i].blocked = 0
    BY <1>3, DestroyTable
  <2>. HIDE DEF padre
  <2>2. PidsUnique'
    BY <1>3, <2>1 DEF PidsUnique
  <2>3. WaiterHasChild'
    <3>. SUFFICES ASSUME NEW i \in Proc, ~procesos'[i].free, procesos'[i].blocked = 2
                  PROVE  \E j \in Proc : ~procesos'[j].free /\ procesos'[j].parent = procesos'[i].pid
      BY DEF WaiterHasChild
    <3>1. ~procesos[i].free /\ procesos[i].blocked = 2 /\ i # p
      BY <2>1
    <3>2. PICK j \in Proc : ~procesos[j].free /\ procesos[j].parent = procesos[i].pid
      BY <3>1 DEF WaiterHasChild
    <3>3. j # p
      <4>. SUFFICES ASSUME j = p PROVE FALSE
        OBVIOUS
      <4>1. procesos[p].parent = procesos[i].pid /\ procesos[i].pid # 0
        BY <3>1, <3>2 DEF PidsUnique
      <4>2. \A k \in Proc : procesos[k].pid = procesos[i].pid => k = i
        BY <4>1 DEF PidsUnique
      <4>3. padre = i
        BY <4>1, <4>2 DEF padre, GetProcessByPID
      <4>. QED  BY <2>1, <3>1, <4>1, <4>3
    <3>. QED  BY <2>1, <3>2, <3>3
  <2>. QED  BY <2>1, <2>2, <2>3
<1>4. CASE Tick
  BY <1>1, <1>4, TickTable
<1>. QED  BY <1>1, <1>2, <1>3, <1>4, TableSteps

\* A shell that waits for its command has it alive (WaiterHasChild): whoever ends it,
\* Cleaner or kill, finds the shell by the pid, which no other entry of the table has.
THEOREM GuiaWaiters == GuiaSpec => []WaiterHasChild
<1>1. GuiaInit => TableTyped /\ PidsUnique /\ WaiterHasChild
  BY TableStarts
<1>2. TableTyped /\ PidsUnique /\ WaiterHasChild /\ [GuiaNext]_guiaVars
        => TableTyped' /\ PidsUnique' /\ WaiterHasChild'
  BY WaiterStep
<1>. QED  BY <1>1, <1>2, PTL DEF GuiaSpec

\* The table stays well typed.
LEMMA TableStaysTyped ==
  ASSUME TableTyped, [GuiaNext]_guiaVars
  PROVE  TableTyped'
<1>1. CASE Tick
  BY <1>1, TickTable
<1>. QED  BY <1>1, CreateTable, DestroyTable, TableSteps

\* The ages at which a process has seen one more of the others run: the first tick, and
\* from then on one more than the range of the priorities.
PriorityRange == MAX_PRIORITY * PRIORITY_RATIO
Step(m) == IF m = 0 THEN 0 ELSE 1 + (m - 1) * (PriorityRange + 1)

\* With every such step there is one process fewer that is as old as that.
Old(m) == {i \in Proc : procesos[i].lastCalled >= Step(m)}
AgesStepped == \A m \in 0 .. PROCS : Cardinality(Old(m)) <= PROCS - m

\* The ages Step(m), a round of the range of priorities apart.
LEMMA Steps ==
  /\ PriorityRange \in Nat /\ PROCS \in Nat /\ Step(0) = 0 /\ Step(1) = 1
  /\ \A m \in Nat : Step(m) \in Nat
  /\ \A m \in Nat : m >= 2 => Step(m) = Step(m - 1) + PriorityRange + 1
<1>1. PriorityRange \in Nat /\ PROCS \in Nat
  BY GuiaAssumption DEF PriorityRange
<1>2. ASSUME NEW m \in Nat PROVE Step(m) \in Nat
  <2>1. CASE m = 0
    BY <2>1 DEF Step
  <2>2. CASE m # 0
    <3>1. (m - 1) * (PriorityRange + 1) \in Nat
      BY <1>1, <2>2
    <3>. QED  BY <2>2, <3>1 DEF Step
  <2>. QED  BY <2>1, <2>2
<1>3. ASSUME NEW m \in Nat, m >= 2 PROVE Step(m) = Step(m - 1) + PriorityRange + 1
  <2>1. \A a, b \in Int : a * b = (a - 1) * b + b
    OBVIOUS
  <2>2. (m - 1) * (PriorityRange + 1) = ((m - 1) - 1) * (PriorityRange + 1) + (PriorityRange + 1)
    BY <1>1, <2>1
  <2>3. ((m - 1) - 1) * (PriorityRange + 1) \in Int
    BY <1>1
  <2>. QED  BY <1>1, <1>3, <2>2, <2>3 DEF Step
<1>4. Step(0) = 0 /\ Step(1) = 1
  <2>1. \A b \in Int : (1 - 1) * b = 0
    OBVIOUS
  <2>. QED  BY <1>1, <2>1 DEF Step
<1>. QED  BY <1>1, <1>2, <1>3, <1>4

\* Sets of entries are finite.
LEMMA EntriesFinite ==
  /\ IsFiniteSet(Proc) /\ Cardinality(Proc) = PROCS
  /\ \A T \in SUBSET Proc : IsFiniteSet(T) /\ Cardinality(T) \in Nat /\ Cardinality(T) <= PROCS
<1>1. PROCS \in Nat /\ PROCS \in Int /\ 1 \in Int /\ ~(1 > PROCS) /\ (PROCS - 1) + 1 = PROCS
  BY GuiaAssumption
<1>2. IsFiniteSet(1 .. PROCS) /\ Cardinality(1 .. PROCS) = PROCS
  BY <1>1, FS_Interval
<1>3. ASSUME NEW T \in SUBSET (1 .. PROCS)
      PROVE  IsFiniteSet(T) /\ Cardinality(T) \in Nat /\ Cardinality(T) <= PROCS
  <2>1. IsFiniteSet(T) /\ Cardinality(T) <= Cardinality(1 .. PROCS)
    BY <1>2, FS_Subset
  <2>. QED  BY <1>2, <2>1, FS_CardinalityType
<1>. QED  BY <1>2, <1>3 DEF Proc

\* How much the priorities can make up for.
LEMMA ValueGap ==
  ASSUME NEW p \in Process, NEW q \in Process, TaskValue(p) <= TaskValue(q)
  PROVE  p.lastCalled <= q.lastCalled + PriorityRange
<1>. DEFINE a == p.priority
            b == q.priority
<1>1. /\ a \in Nat /\ b \in Nat /\ a <= MAX_PRIORITY /\ p.lastCalled \in Nat /\ q.lastCalled \in Nat
      /\ MAX_PRIORITY \in Nat /\ PRIORITY_RATIO \in Nat
  BY GuiaAssumption DEF Process
<1>2. (MAX_PRIORITY - a) * PRIORITY_RATIO + p.lastCalled
        <= (MAX_PRIORITY - b) * PRIORITY_RATIO + q.lastCalled
  BY DEF TaskValue
<1>. HIDE DEF a, b
<1>3. (MAX_PRIORITY - a) * PRIORITY_RATIO \in Nat
  <2>1. MAX_PRIORITY - a \in Nat
    BY <1>1
  <2>. QED  BY <1>1, <2>1
<1>4. (MAX_PRIORITY - b) * PRIORITY_RATIO = PriorityRange - b * PRIORITY_RATIO
  BY <1>1 DEF PriorityRange
<1>5. b * PRIORITY_RATIO \in Nat /\ PriorityRange \in Nat
  BY <1>1 DEF PriorityRange
<1>. QED  BY <1>1, <1>2, <1>3, <1>4, <1>5

\* Every step of tpesoGuia keeps the ages in steps.
LEMMA AgesStep ==
  ASSUME TableTyped, AgesStepped, [GuiaNext]_guiaVars
  PROVE  AgesStepped'
<1>. DEFINE Aft(m) == {i \in Proc : procesos'[i].lastCalled >= Step(m)}
<1>1. \A m \in 0 .. PROCS : Cardinality(Old(m)) <= PROCS - m
  BY DEF AgesStepped
<1>2. SUFFICES ASSUME NEW m \in 0 .. PROCS PROVE Cardinality(Aft(m)) <= PROCS - m
  BY DEF AgesStepped, Old, Step, PriorityRange
<1>3. TableTyped'
  BY TableStaysTyped
<1>4. /\ \A i \in Proc : procesos[i].lastCalled \in Nat /\ procesos[i] \in Process
      /\ \A i \in Proc : procesos'[i].lastCalled \in Nat
  BY <1>3 DEF TableTyped, Process
<1>5. PROCS \in Nat /\ m \in Nat /\ Step(m) \in Nat
  BY Steps
<1>6. ASSUME Aft(m) \subseteq Old(m)
      PROVE  Cardinality(Aft(m)) <= PROCS - m
  <2>1. Old(m) \in SUBSET Proc
    BY DEF Old
  <2>2. IsFiniteSet(Old(m)) /\ Cardinality(Old(m)) \in Nat
    BY <2>1, EntriesFinite
  <2>. HIDE DEF Aft
  <2>3. Cardinality(Aft(m)) <= Cardinality(Old(m)) /\ IsFiniteSet(Aft(m))
    BY <1>6, <2>2, FS_Subset
  <2>4. Cardinality(Aft(m)) \in Nat
    BY <2>3, FS_CardinalityType
  <2>. QED  BY <1>1, <1>5, <2>2, <2>3, <2>4
<1>7. ASSUME m >= 1, NEW c \in Old(m - 1), Aft(m) \subseteq Old(m - 1) \ {c}
      PROVE  Cardinality(Aft(m)) <= PROCS - m
  <2>1. Old(m - 1) \in SUBSET Proc
    BY DEF Old
  <2>2. IsFiniteSet(Old(m - 1)) /\ Cardinality(Old(m - 1)) \in Nat
    BY <2>1, EntriesFinite
  <2>3. IsFiniteSet(Old(m - 1) \ {c}) /\ Cardinality(Old(m - 1) \ {c}) = Cardinality(Old(m - 1)) - 1
    BY <1>7, <2>2, FS_RemoveElement
  <2>. HIDE DEF Aft
  <2>4. Cardinality(Aft(m)) <= Cardinality(Old(m - 1) \ {c}) /\ IsFiniteSet(Aft(m))
    BY <1>7, <2>3, FS_Subset
  <2>5. Cardinality(Aft(m)) \in Nat
    BY <2>4, FS_CardinalityType
  <2>6. Cardinality(Old(m - 1)) <= PROCS - (m - 1)
    <3>1. m - 1 \in 0 .. PROCS
      BY <1>5, <1>7
    <3>. QED  BY <1>1, <3>1
  <2>. QED  BY <1>5, <2>2, <2>3, <2>4, <2>5, <2>6
<1>8. CASE NotOlder
  <2>1. Aft(m) \subseteq Old(m)
    BY <1>4, <1>5, <1>8 DEF NotOlder, Old
  <2>. QED  BY <1>6, <2>1
<1>9. CASE Tick
  <2>. DEFINE able == {i \in Proc : Eligible(procesos[i])}
  <2>1. SUFFICES ASSUME NEW c \in able,
                        \A j \in able : TaskValue(procesos[j]) <= TaskValue(procesos[c]),
                        procesos'[c].lastCalled = 0,
                        \A i \in Proc \ {c} : procesos'[i].lastCalled =
                          IF i \in able THEN procesos[i].lastCalled + 1 ELSE procesos[i].lastCalled
                 PROVE  Cardinality(Aft(m)) <= PROCS - m
    BY <1>8, <1>9, TickTable
  <2>2. c \in Proc /\ able \subseteq Proc
    OBVIOUS
  <2>3. \A j \in able : procesos[j].lastCalled <= procesos[c].lastCalled + PriorityRange
    BY <1>4, <2>1, <2>2, ValueGap
  <2>. HIDE DEF able
  <2>4. CASE m = 0
    <3>1. Aft(m) \subseteq Proc /\ Aft(m) \in SUBSET Proc
      OBVIOUS
    <3>. HIDE DEF Aft
    <3>. QED  BY <1>5, <2>4, <3>1, EntriesFinite
  <2>5. CASE m = 1
    <3>1. Step(m) = 1 /\ Step(m - 1) = 0 /\ m >= 1
      BY <2>5, Steps
    <3>2. c \in Old(m - 1) /\ Aft(m) \subseteq Old(m - 1) \ {c}
      BY <1>4, <2>1, <2>2, <3>1 DEF Old
    <3>. QED  BY <1>7, <3>1, <3>2
  <2>6. CASE m >= 2
    <3>1. Step(m) = Step(m - 1) + PriorityRange + 1 /\ PriorityRange \in Nat /\ Step(m - 1) \in Nat /\ m >= 1
      <4>1. m - 1 \in Nat
        BY <1>5, <2>6
      <4>. QED  BY <1>5, <2>6, <4>1, Steps
    <3>2. CASE Aft(m) \subseteq Old(m)
      BY <1>6, <3>2
    <3>3. CASE ~(Aft(m) \subseteq Old(m))
      <4>1. PICK j \in Proc : procesos'[j].lastCalled >= Step(m) /\ ~(procesos[j].lastCalled >= Step(m))
        BY <3>3 DEF Old
      <4>2. j # c
        BY <2>1, <3>1, <4>1
      <4>3. j \in able /\ procesos[j].lastCalled + 1 >= Step(m)
        BY <1>4, <2>1, <4>1, <4>2
      <4>4. c \in Old(m - 1)
        BY <1>4, <2>2, <2>3, <3>1, <4>3 DEF Old
      <4>5. Aft(m) \subseteq Old(m - 1) \ {c}
        <5>. SUFFICES ASSUME NEW i \in Proc, procesos'[i].lastCalled >= Step(m)
                      PROVE  i # c /\ procesos[i].lastCalled >= Step(m - 1)
          BY DEF Old
        <5>1. i # c
          BY <2>1, <3>1
        <5>2. procesos'[i].lastCalled <= procesos[i].lastCalled + 1
          BY <1>4, <2>1, <5>1
        <5>. QED  BY <1>4, <3>1, <5>1, <5>2
      <4>. QED  BY <1>7, <3>1, <4>4, <4>5
    <3>. QED  BY <3>2, <3>3
  <2>. QED  BY <1>5, <2>4, <2>5, <2>6
<1>10. CASE \E name \in ProcessName, front \in BOOLEAN :
              /\ RoomForProcess /\ procesos' = CreateProcessAt(name, CurrentTTY, front)
              /\ nextPID' = nextPID + 1 /\ UNCHANGED <<CurrentPID, CurrentTTY>>
  BY <1>8, <1>10, CreateTable
<1>11. CASE \E p : procesos' = Destroy(p) /\ UNCHANGED <<CurrentPID, nextPID, CurrentTTY>>
  BY <1>8, <1>11, DestroyTable
<1>. HIDE DEF Aft
<1>. QED  BY <1>8, <1>9, <1>10, <1>11, TableSteps

\* The wait for the CPU is bounded (BoundedWait): of the processes, whatever they do
\* and however their priorities are changed, each range of ages holds one fewer.
THEOREM GuiaWaitBounded == GuiaSpec => []BoundedWait
<1>1. GuiaInit => TableTyped /\ AgesStepped
  <2>. SUFFICES ASSUME GuiaInit PROVE TableTyped /\ AgesStepped
    OBVIOUS
  <2>1. TableTyped /\ \A i \in Proc : procesos[i].lastCalled = 0
    BY TableStarts
  <2>2. ASSUME NEW m \in 0 .. PROCS PROVE Cardinality(Old(m)) <= PROCS - m
    <3>1. PROCS \in Nat /\ m \in Nat /\ Step(m) \in Nat
      BY Steps
    <3>2. CASE m = 0
      <4>1. Old(m) \in SUBSET Proc
        BY DEF Old
      <4>. QED  BY <3>1, <3>2, <4>1, EntriesFinite
    <3>3. CASE m # 0
      <4>1. Step(m) >= 1
        <5>1. CASE m = 1
          BY <5>1, Steps
        <5>2. CASE m >= 2
          <6>1. m - 1 \in Nat
            BY <3>1, <5>2
          <6>2. Step(m) = Step(m - 1) + PriorityRange + 1 /\ PriorityRange \in Nat /\ Step(m - 1) \in Nat
            BY <3>1, <5>2, <6>1, Steps
          <6>. QED  BY <6>2
        <5>. QED  BY <3>1, <3>3, <5>1, <5>2
      <4>2. Old(m) = {}
        BY <2>1, <3>1, <4>1 DEF Old
      <4>3. Cardinality(Old(m)) = 0
        BY <4>2, FS_EmptySet
      <4>. QED  BY <3>1, <4>3
    <3>. QED  BY <3>2, <3>3
  <2>. QED  BY <2>1, <2>2 DEF AgesStepped
<1>2. TableTyped /\ AgesStepped /\ [GuiaNext]_guiaVars => TableTyped' /\ AgesStepped'
  BY TableStaysTyped, AgesStep
<1>3. TableTyped /\ AgesStepped => BoundedWait
  <2>. SUFFICES ASSUME TableTyped, AgesStepped, NEW i \in Proc
                PROVE  procesos[i].lastCalled <= (PROCS - 1) * (MAX_PRIORITY * PRIORITY_RATIO + 1)
    BY DEF BoundedWait
  <2>1. PROCS \in Nat /\ PROCS # 0 /\ PROCS \in 0 .. PROCS /\ PROCS - PROCS = 0
    BY GuiaAssumption
  <2>2. Cardinality(Old(PROCS)) <= 0
    BY <2>1 DEF AgesStepped
  <2>3. Old(PROCS) \in SUBSET Proc
    BY DEF Old
  <2>4. IsFiniteSet(Old(PROCS)) /\ Cardinality(Old(PROCS)) \in Nat
    BY <2>3, EntriesFinite
  <2>5. Cardinality(Old(PROCS)) = 0
    BY <2>2, <2>4
  <2>6. Old(PROCS) = {}
    BY <2>4, <2>5, FS_EmptySet
  <2>7. procesos[i].lastCalled \in Nat /\ Step(PROCS) \in Nat
    BY <2>1, Steps DEF TableTyped, Process
  <2>8. procesos[i].lastCalled < Step(PROCS)
    BY <2>6, <2>7 DEF Old
  <2>9. Step(PROCS) = 1 + (PROCS - 1) * (MAX_PRIORITY * PRIORITY_RATIO + 1)
    BY <2>1 DEF Step, PriorityRange
  <2>10. (PROCS - 1) * (MAX_PRIORITY * PRIORITY_RATIO + 1) \in Int
    BY <2>1, GuiaAssumption
  <2>. QED  BY <2>7, <2>8, <2>9, <2>10
<1>. QED  BY <1>1, <1>2, <1>3, PTL DEF GuiaSpec

-----------------------------------------------------------------------------
(***************************************************************************)
(* Chinux: the file system.                                                *)
(***************************************************************************)

\* Characters.  The literals are strings, which the provers are not told.
Letter ==
  STRING \cup {".", "u", "s", "e", "t", "f", "a", "b", " ", "chinux", NUL}

User == [name : Seq(Letter), group : {ADMIN, USR}]
INode == [id : {"UNKNOWN", "DIRECTORY", "FILE", "FIFO", "LINK"}, gid : {ADMIN, USR}, size : Nat,
          link : Inode, first : Int, quant : Nat, users : Seq(User)]
DirEntry == [type : {"NONE", "DIRECTORY", "FILE", "FIFO"}, inode : Inode, name : Seq(Letter)]
Kinds == {"DIRECTORY", "FILE", "FIFO"}
FileSystem ==
  [used : SUBSET Int, freeBlocks : Int, inodes : 1 .. MaxInodes, nodes : [Inode -> INode],
   dirs : [Inode -> [Slot -> DirEntry]], fd : [Fd -> Inode], current : Inode,
   group : {ADMIN, USR}, weak : SUBSET Inode]

Dir(f, i) == f.nodes[i].id = "DIRECTORY"
Sl == 2 .. SLOTS - 1
Held(f, d, s) == f.dirs[d][s].type # "NONE"

\* The blocks of the header are in use, and so are those of an inode that is not weak,
\* which are its own.
BlocksSound(f) ==
  /\ 0 .. HEADER_BLOCKS - 1 \subseteq f.used
  /\ \A i \in Owners(f) \ f.weak :
       /\ Blocks(f, i) \subseteq f.used \cap (HEADER_BLOCKS .. BITMAP_SIZE - 1)
       /\ \A j \in Owners(f) \ (f.weak \cup {i}) : Blocks(f, i) \cap Blocks(f, j) = {}

\* A directory is an inode in use and keeps its first two entries; nothing else has
\* entries.
DirsSound(f) ==
  /\ Dir(f, 1)
  /\ \A i \in Inode : Dir(f, i) =>
       /\ i \in 1 .. f.inodes - 1
       /\ Held(f, i, 0) /\ Held(f, i, 1) /\ f.dirs[i][1].name = DotDot
  /\ \A i \in Inode : ~Dir(f, i) => \A s \in Slot : ~Held(f, i, s)

\* The entry s of the directory d is the only one of the inode i, which is in use, younger
\* than d and of the type of the entry; if i is a directory, its parent is d.
Names(f, d, s, i) ==
  /\ i \in 1 .. f.inodes - 1 /\ d < i
  /\ f.dirs[d][s].type = EntryType(f.nodes[i].id)
  /\ Dir(f, i) => f.dirs[i][1].inode = d
  /\ \A e \in Inode, t \in Sl : Held(f, e, t) /\ f.dirs[e][t].inode = i => e = d /\ t = s
EntriesSound(f) ==
  \A d \in Inode, s \in Sl : Held(f, d, s) => Names(f, d, s, f.dirs[d][s].inode)

\* The inductive invariant of the file system.
Sound(f) == f \in FileSystem /\ BlocksSound(f) /\ DirsSound(f) /\ EntriesSound(f)

\* The constants that the proofs use, one fact each.
LEMMA FsConstants ==
  /\ SLOTS \in Nat /\ SLOTS > 2 /\ DIR_BLOCKS \in Nat /\ DIR_BLOCKS > 0
  /\ BLOCK_SIZE \in Nat /\ BLOCK_SIZE > 0 /\ HEADER_BLOCKS \in Nat /\ HEADER_BLOCKS > 0
  /\ BITMAP_SIZE \in Nat /\ BITMAP_SIZE > HEADER_BLOCKS
  /\ LAST_FD \in Nat /\ LAST_FD >= 3 /\ CANT \in Nat /\ CANT > 0
  /\ MAX_USERS \in Nat /\ MIN_FREE \in Nat /\ USERS_SIZE \in Nat
  /\ MaxInodes \in Nat /\ MaxInodes >= 5 /\ MaxSize \in Nat
BY FsAssumption

\* A set of integers that is not empty and has a lower bound has a least element.
LEMMA MinOf ==
  ASSUME NEW b \in Int, NEW T \in SUBSET Int, T # {}, \A x \in T : x >= b
  PROVE  Min(T) \in T /\ \A x \in T : Min(T) <= x
<1>. DEFINE U == {x - b : x \in T}
<1>1. U \in SUBSET Nat /\ U # {}
  <2>1. \A x \in T : x - b \in Nat
    OBVIOUS
  <2>. QED  BY <2>1
<1>2. PICK m \in U : \A n \in U : m <= n
  BY <1>1, LeastNat
<1>3. PICK x \in T : m = x - b
  BY <1>2
<1>4. \A y \in T : x <= y
  BY <1>2, <1>3
<1>. QED  BY <1>3, <1>4 DEF Min

\* One that has an upper bound has a greatest one.
LEMMA MaxOf ==
  ASSUME NEW b \in Int, NEW T \in SUBSET Int, T # {}, \A x \in T : x <= b
  PROVE  Max(T) \in T /\ \A x \in T : Max(T) >= x
<1>. DEFINE U == {b - x : x \in T}
<1>1. U \in SUBSET Nat /\ U # {}
  <2>1. \A x \in T : b - x \in Nat
    OBVIOUS
  <2>. QED  BY <2>1
<1>2. PICK m \in U : \A n \in U : m <= n
  BY <1>1, LeastNat
<1>3. PICK x \in T : m = b - x
  BY <1>2
<1>4. \A y \in T : x >= y
  BY <1>2, <1>3
<1>. QED  BY <1>3, <1>4 DEF Max

\* The least of some slots.
LEMMA MinSlot ==
  ASSUME NEW T \in SUBSET Nat, T # {}
  PROVE  Min(T) \in T /\ \A x \in T : Min(T) <= x
BY MinOf

\* What search_free_blocks finds: no block, or blocks behind the header of which
\* those on the disk are free.
LEMMA FreeRunFree ==
  ASSUME NEW f, f.used \in SUBSET Int, 0 .. HEADER_BLOCKS - 1 \subseteq f.used,
         NEW q \in Nat \ {0}, NEW at, at = FreeRun(f, q)
  PROVE  /\ at \in Int
         /\ at = -1 \/ /\ at >= HEADER_BLOCKS
                       /\ \A b \in at .. at + q - 1 : b < BITMAP_SIZE => b \notin f.used
<1>. DEFINE B == BITMAP_SIZE
            H == HEADER_BLOCKS
            runs == {i \in 0 .. B - q : (i .. i + q - 1) \cap f.used = {}}
            low == f.used \cap 0 .. B - 1
<1>1. B \in Nat /\ H \in Nat /\ H > 0 /\ B > H
  BY FsConstants
<1>2. at = IF f.freeBlocks < MIN_FREE THEN -1
           ELSE IF runs # {} THEN Min(runs) ELSE IF B - 1 \in f.used THEN -1 ELSE 1 + Max(low)
  BY DEF FreeRun
<1>3. CASE at = -1
  BY <1>3
<1>4. CASE runs # {} /\ at = Min(runs)
  <2>1. runs \in SUBSET Int /\ \A x \in runs : x >= 0
    OBVIOUS
  <2>2. at \in runs
    <3>. HIDE DEF runs
    <3>. QED  BY <1>4, <2>1, MinOf
  <2>3. at \in Int /\ at >= 0 /\ \A b \in at .. at + q - 1 : b \notin f.used
    BY <2>2
  <2>4. at \in at .. at + q - 1
    BY <2>3
  <2>5. at >= H
    BY <1>1, <2>3, <2>4
  <2>. QED  BY <2>3, <2>5
<1>5. CASE runs = {} /\ B - 1 \notin f.used /\ at = 1 + Max(low)
  <2>1. low \in SUBSET Int /\ \A x \in low : x <= B - 1
    BY <1>1
  <2>2. H - 1 \in low
    BY <1>1
  <2>3. Max(low) \in low /\ \A x \in low : Max(low) >= x
    <3>. HIDE DEF low
    <3>. QED  BY <1>1, <2>1, <2>2, MaxOf
  <2>4. at \in Int /\ at - 1 >= H - 1 /\ \A x \in low : at - 1 >= x
    <3>1. Max(low) \in Int /\ Max(low) >= H - 1
      <4>. HIDE DEF low
      <4>. QED  BY <2>1, <2>2, <2>3
    <3>2. at = 1 + Max(low) /\ H \in Int
      BY <1>1, <1>5
    <3>. HIDE DEF low
    <3>. QED  BY <2>3, <3>1, <3>2
  <2>5. ASSUME NEW b \in at .. at + q - 1, b < B PROVE b \notin f.used
    <3>1. b \in Int /\ b >= at /\ b >= 0
      BY <1>1, <2>4, <2>5
    <3>2. b \in f.used => b \in low
      BY <1>1, <2>5, <3>1
    <3>. QED  BY <2>4, <3>1, <3>2
  <2>. QED  BY <1>1, <2>4, <2>5
<1>. QED  BY <1>2, <1>3, <1>4, <1>5

\* The block b is of the header or of an inode other than i that is not weak.
Foreign(f, i, b) ==
  \/ b \in 0 .. HEADER_BLOCKS - 1
  \/ \E j \in Owners(f) \ (f.weak \cup {i}) : b \in Blocks(f, j)

\* The inode i has no block that is another's.
Apart(f, i) == \A b \in Blocks(f, i) : ~Foreign(f, i, b)

\* The fields of a file system.
LEMMA Fields ==
  ASSUME NEW f \in FileSystem
  PROVE  /\ f.used \in SUBSET Int /\ f.freeBlocks \in Int /\ f.inodes \in 1 .. MaxInodes
         /\ f.nodes \in [Inode -> INode] /\ f.dirs \in [Inode -> [Slot -> DirEntry]]
         /\ f.fd \in [Fd -> Inode] /\ f.current \in Inode /\ f.group \in {ADMIN, USR}
         /\ f.weak \in SUBSET Inode
BY DEF FileSystem

\* The fields of an inode.
LEMMA Numbers ==
  ASSUME NEW f \in FileSystem, NEW i \in Inode
  PROVE  /\ f.nodes[i] \in INode /\ f.nodes[i].first \in Int /\ f.nodes[i].quant \in Nat
         /\ f.nodes[i].size \in Nat /\ f.nodes[i].link \in Inode
         /\ f.nodes[i].gid \in {ADMIN, USR} /\ f.nodes[i].users \in Seq(User)
         /\ i \in Int /\ i >= 0
<1>1. f.nodes[i] \in INode
  BY Fields
<1>2. MaxInodes \in Nat
  BY FsConstants
<1>3. i \in Int /\ i >= 0
  BY <1>2 DEF Inode
<1>. QED  BY <1>1, <1>3 DEF INode

\* Blocks that are another's are in use, and on the disk.
LEMMA ForeignUsed ==
  ASSUME NEW f \in FileSystem, BlocksSound(f), NEW i, NEW b, Foreign(f, i, b)
  PROVE  b \in f.used /\ b \in Int /\ b < BITMAP_SIZE
<1>1. BITMAP_SIZE \in Nat /\ HEADER_BLOCKS \in Nat /\ HEADER_BLOCKS < BITMAP_SIZE
  BY FsConstants
<1>2. CASE b \in 0 .. HEADER_BLOCKS - 1
  BY <1>1, <1>2 DEF BlocksSound
<1>3. CASE \E j \in Owners(f) \ (f.weak \cup {i}) : b \in Blocks(f, j)
  <2>1. PICK j \in Owners(f) \ f.weak : b \in Blocks(f, j)
    BY <1>3
  <2>2. b \in f.used \cap (HEADER_BLOCKS .. BITMAP_SIZE - 1)
    BY <2>1 DEF BlocksSound
  <2>. QED  BY <1>1, <2>2
<1>. QED  BY <1>2, <1>3 DEF Foreign

\* The inode i gets other blocks, free ones unless it is weak, and those that are freed
\* are nobody else's.
LEMMA BlocksMoved ==
  ASSUME NEW f \in FileSystem, NEW g \in FileSystem, BlocksSound(f), NEW i \in Inode, NEW freed,
         \A b \in freed : ~Foreign(f, i, b),
         \A b \in f.used : b \in freed \/ b \in g.used,
         \A j \in Inode : j # i => g.nodes[j] = f.nodes[j],
         \A j \in Inode : j # i => (j \in g.weak <=> j \in f.weak),
         \/ i \in g.weak
         \/ \A b \in Blocks(g, i) : /\ b \in g.used /\ b >= HEADER_BLOCKS /\ b < BITMAP_SIZE
                                    /\ b \notin f.used
  PROVE  BlocksSound(g) /\ \A b : Foreign(g, i, b) <=> Foreign(f, i, b)
<1>. DEFINE O(h) == Owners(h) \ h.weak
<1>1. \A j \in Inode : j # i => /\ Blocks(g, j) = Blocks(f, j)
                                /\ j \in O(g) <=> j \in O(f)
  BY DEF Blocks, Owners
<1>2. \A j : j \in O(g) \/ j \in O(f) => j \in Inode
  BY DEF Owners
<1>3. \A b : Foreign(g, i, b) <=> Foreign(f, i, b)
  BY <1>1, <1>2 DEF Foreign
<1>4. \A b : Foreign(f, i, b) => b \in g.used
  BY ForeignUsed
<1>5. 0 .. HEADER_BLOCKS - 1 \subseteq g.used
  BY <1>4 DEF Foreign
<1>6. ASSUME NEW j \in O(g)
      PROVE  Blocks(g, j) \subseteq g.used \cap (HEADER_BLOCKS .. BITMAP_SIZE - 1)
  <2>1. CASE j = i
    <3>1. \A b \in Blocks(g, i) : b \in Int
      BY DEF Blocks
    <3>2. BITMAP_SIZE \in Nat /\ HEADER_BLOCKS \in Nat
      BY FsConstants
    <3>. QED  BY <1>6, <2>1, <3>1, <3>2
  <2>2. CASE j # i
    <3>1. j \in O(f) /\ Blocks(g, j) = Blocks(f, j)
      BY <1>1, <1>2, <1>6, <2>2
    <3>2. Blocks(f, j) \subseteq f.used \cap (HEADER_BLOCKS .. BITMAP_SIZE - 1)
      BY <3>1 DEF BlocksSound
    <3>3. \A b \in Blocks(f, j) : Foreign(f, i, b)
      BY <2>2, <3>1 DEF Foreign
    <3>. QED  BY <1>4, <3>1, <3>2, <3>3
  <2>. QED  BY <2>1, <2>2
<1>7. ASSUME NEW j \in O(g), j # i PROVE Blocks(g, i) \cap Blocks(g, j) = {} \/ i \notin O(g)
  <2>1. j \in O(f) /\ Blocks(g, j) = Blocks(f, j)
    BY <1>1, <1>2, <1>7
  <2>2. \A b \in Blocks(f, j) : b \in f.used
    BY <2>1 DEF BlocksSound
  <2>. QED  BY <2>1, <2>2
<1>8. ASSUME NEW j \in O(g), NEW k \in O(g), j # k PROVE Blocks(g, j) \cap Blocks(g, k) = {}
  <2>1. CASE j = i
    BY <1>7, <1>8, <2>1
  <2>2. CASE k = i
    BY <1>7, <1>8, <2>2
  <2>3. CASE j # i /\ k # i
    <3>1. /\ j \in O(f) /\ Blocks(g, j) = Blocks(f, j)
          /\ k \in O(f) /\ Blocks(g, k) = Blocks(f, k)
      BY <1>1, <1>2, <2>3
    <3>2. k \in Owners(f) \ (f.weak \cup {j})
      BY <1>8, <3>1
    <3>3. Blocks(f, j) \cap Blocks(f, k) = {}
      BY <3>1, <3>2 DEF BlocksSound
    <3>. QED  BY <3>1, <3>3
  <2>. QED  BY <2>1, <2>2, <2>3
<1>9. BlocksSound(g)
  <2>1. \A j \in Owners(g) \ g.weak : \A k \in Owners(g) \ (g.weak \cup {j}) :
          Blocks(g, j) \cap Blocks(g, k) = {}
    BY <1>8
  <2>. QED  BY <1>5, <1>6, <2>1 DEF BlocksSound
<1>. QED  BY <1>3, <1>9

\* The bits that are set.
LEMMA Takes ==
  ASSUME NEW f \in FileSystem, NEW at \in Int, NEW q \in Nat, NEW h, h = TakeBlocks(f, at, q)
  PROVE  /\ h \in FileSystem
         /\ \A b : b \in h.used <=> b \in f.used \/ (at # -1 /\ b \in at .. at + q - 1)
         /\ h.inodes = f.inodes /\ h.nodes = f.nodes /\ h.dirs = f.dirs /\ h.fd = f.fd
         /\ h.current = f.current /\ h.group = f.group /\ h.weak = f.weak
<1>1. at .. at + q - 1 \in SUBSET Int
  OBVIOUS
<1>2. CASE at = -1
  BY <1>2 DEF TakeBlocks
<1>3. CASE at # -1
  <2>. DEFINE u == f.used \cup at .. at + q - 1
              n == f.freeBlocks - q
  <2>1. u \in SUBSET Int /\ n \in Int
    BY <1>1, Fields
  <2>2. h = [f EXCEPT !.used = u, !.freeBlocks = n]
    BY <1>3 DEF TakeBlocks
  <2>. HIDE DEF u, n
  <2>3. h \in FileSystem /\ h.used = u
    BY <2>1, <2>2 DEF FileSystem
  <2>4. /\ h.inodes = f.inodes /\ h.nodes = f.nodes /\ h.dirs = f.dirs /\ h.fd = f.fd
        /\ h.current = f.current /\ h.group = f.group /\ h.weak = f.weak
    BY <2>2 DEF FileSystem
  <2>. QED  BY <1>3, <2>3, <2>4 DEF u
<1>. QED  BY <1>2, <1>3

\* A new inode without its entries.
LEMMA Creates ==
  ASSUME NEW f \in FileSystem, BlocksSound(f), f.inodes \in Inode,
         NEW id \in Kinds, NEW size \in Nat,
         NEW g, g = fs_creat_inode(f, id, size)
  PROVE  /\ g \in FileSystem
         /\ g.inodes = f.inodes + 1 /\ g.dirs = f.dirs /\ g.fd = f.fd
         /\ g.current = f.current /\ g.group = f.group
         /\ \A i \in Inode : i # f.inodes => g.nodes[i] = f.nodes[i]
         /\ g.nodes[f.inodes].id = id
         /\ BlocksSound(g)
         /\ id = "FILE" /\ size = 0 => Apart(g, f.inodes)
<1>. DEFINE q == CASE id = "DIRECTORY" -> DIR_BLOCKS
                   [] id = "FIFO" -> 0
                   [] OTHER -> size \div BLOCK_SIZE + 1
            at == IF id = "FIFO" THEN 0 ELSE FreeRun(f, q)
            h == IF id = "FIFO" THEN f ELSE TakeBlocks(f, at, q)
            i == f.inodes
            node == [id |-> id, gid |-> f.group, size |-> size, link |-> 0, first |-> at,
                     quant |-> q, users |-> <<>>]
            weak == IF at = -1 \/ at + q > BITMAP_SIZE THEN h.weak \cup {i} ELSE h.weak
<1>0. /\ BITMAP_SIZE \in Nat /\ HEADER_BLOCKS \in Nat /\ HEADER_BLOCKS > 0
      /\ DIR_BLOCKS \in Nat \ {0} /\ BLOCK_SIZE \in Nat \ {0} /\ MaxInodes \in Nat
  BY FsConstants
<1>1. q \in Nat /\ (id # "FIFO" => q \in Nat \ {0}) /\ (id = "FIFO" => q = 0)
  <2>1. size \div BLOCK_SIZE \in Nat
    BY <1>0
  <2>. QED  BY <1>0, <2>1
<1>1a. id = "FILE" /\ size = 0 => q = 1
  BY <1>0
<1>2. g = [h EXCEPT !.inodes = h.inodes + 1, !.nodes[i] = node, !.weak = weak]
  BY DEF fs_creat_inode
<1>. HIDE DEF q
<1>3. /\ at \in Int
      /\ id = "FIFO" \/ at = -1 \/
           /\ at >= HEADER_BLOCKS
           /\ \A b \in at .. at + q - 1 : b < BITMAP_SIZE => b \notin f.used
  <2>1. CASE id = "FIFO"
    BY <2>1
  <2>2. CASE id # "FIFO"
    <3>1. f.used \in SUBSET Int /\ 0 .. HEADER_BLOCKS - 1 \subseteq f.used
      BY Fields DEF BlocksSound
    <3>2. at = FreeRun(f, q)
      BY <2>2
    <3>. HIDE DEF at
    <3>. QED  BY <1>1, <2>2, <3>1, <3>2, FreeRunFree
  <2>. QED  BY <2>1, <2>2
<1>. HIDE DEF at
<1>4. /\ h \in FileSystem
      /\ \A b : b \in h.used <=>
                  b \in f.used \/ (id # "FIFO" /\ at # -1 /\ b \in at .. at + q - 1)
      /\ h.inodes = i /\ h.nodes = f.nodes /\ h.dirs = f.dirs /\ h.fd = f.fd
      /\ h.current = f.current /\ h.group = f.group /\ h.weak = f.weak
  <2>1. CASE id = "FIFO"
    BY <2>1
  <2>2. CASE id # "FIFO"
    <3>1. h = TakeBlocks(f, at, q)
      BY <2>2
    <3>2. q \in Nat /\ at \in Int
      BY <1>1, <1>3
    <3>. HIDE DEF h
    <3>3. /\ h \in FileSystem
          /\ \A b : b \in h.used <=> b \in f.used \/ (at # -1 /\ b \in at .. at + q - 1)
          /\ h.inodes = f.inodes /\ h.nodes = f.nodes /\ h.dirs = f.dirs /\ h.fd = f.fd
          /\ h.current = f.current /\ h.group = f.group /\ h.weak = f.weak
      BY <3>1, <3>2, Takes
    <3>. QED  BY <2>2, <3>3
  <2>. QED  BY <2>1, <2>2
<1>5. /\ node \in INode /\ node.id = id /\ node.first = at /\ node.quant = q
  <2>1. f.group \in {ADMIN, USR} /\ 0 \in Inode /\ ADMIN = 0 /\ USR = 1
    BY <1>0, Fields, FsConstants DEF Inode, ADMIN, USR
  <2>2. <<>> \in Seq(User)
    OBVIOUS
  <2>. QED  BY <1>1, <1>3, <2>1, <2>2 DEF INode, Kinds
<1>6. weak \in SUBSET Inode /\ \A j \in Inode : j # i => (j \in weak <=> j \in f.weak)
  <2>1. f.weak \in SUBSET Inode
    BY Fields
  <2>. QED  BY <1>4, <2>1
<1>7. at = -1 \/ at + q > BITMAP_SIZE => i \in weak
  OBVIOUS
<1>. HIDE DEF h, node, weak
<1>8. h.inodes + 1 \in 1 .. MaxInodes
  BY <1>0, <1>4 DEF Inode
<1>9. /\ g.inodes = h.inodes + 1 /\ g.nodes = [h.nodes EXCEPT ![i] = node] /\ g.weak = weak
      /\ g.used = h.used /\ g.freeBlocks = h.freeBlocks /\ g.dirs = h.dirs /\ g.fd = h.fd
      /\ g.current = h.current /\ g.group = h.group
  BY <1>2, <1>4 DEF FileSystem
<1>10. g \in FileSystem
  <2>. DEFINE nodes == [h.nodes EXCEPT ![i] = node]
              n == h.inodes + 1
  <2>1. nodes \in [Inode -> INode]
    BY <1>4, <1>5, Fields
  <2>2. n \in 1 .. MaxInodes /\ weak \in SUBSET Inode /\ h \in FileSystem
    BY <1>4, <1>6, <1>8
  <2>3. g = [h EXCEPT !.inodes = n, !.nodes = nodes, !.weak = weak]
    BY <1>2
  <2>. HIDE DEF nodes, n
  <2>. QED  BY <2>1, <2>2, <2>3 DEF FileSystem
<1>11. /\ \A j \in Inode : j # i => g.nodes[j] = f.nodes[j]
       /\ g.nodes[i] = node
  BY <1>4, <1>9, Fields
<1>12. Blocks(g, i) = at .. at + q - 1
  BY <1>5, <1>11 DEF Blocks
<1>13. \/ i \in g.weak
       \/ \A b \in Blocks(g, i) : /\ b \in g.used /\ b >= HEADER_BLOCKS /\ b < BITMAP_SIZE
                                  /\ b \notin f.used
  <2>1. CASE id = "FIFO"
    <3>1. \A b : b \notin Blocks(g, i)
      BY <1>1, <1>3, <1>12, <2>1
    <3>. QED  BY <3>1
  <2>2. CASE at = -1 \/ at + q > BITMAP_SIZE
    BY <1>7, <1>9, <2>2
  <2>3. CASE id # "FIFO" /\ at # -1 /\ ~(at + q > BITMAP_SIZE)
    <3>1. \A b \in at .. at + q - 1 : b \in g.used
      BY <1>4, <1>9, <2>3
    <3>2. at >= HEADER_BLOCKS /\ \A b \in at .. at + q - 1 : b < BITMAP_SIZE => b \notin f.used
      BY <1>3, <2>3
    <3>3. \A b \in at .. at + q - 1 : b >= HEADER_BLOCKS /\ b < BITMAP_SIZE
      BY <1>0, <1>1, <1>3, <2>3, <3>2
    <3>. QED  BY <1>12, <3>1, <3>2, <3>3
  <2>. QED  BY <2>1, <2>2, <2>3
<1>14. BlocksSound(g) /\ \A b : Foreign(g, i, b) <=> Foreign(f, i, b)
  <2>. DEFINE freed == {}
  <2>1. \A b \in f.used : b \in freed \/ b \in g.used
    BY <1>4, <1>9
  <2>2. \A b \in freed : ~Foreign(f, i, b)
    OBVIOUS
  <2>3. \A j \in Inode : j # i => (j \in g.weak <=> j \in f.weak)
    BY <1>6, <1>9
  <2>. HIDE DEF freed
  <2>. QED  BY <1>10, <1>11, <1>13, <2>1, <2>2, <2>3, BlocksMoved
<1>15. id = "FILE" /\ size = 0 => Apart(g, i)
  <2>1. SUFFICES ASSUME id = "FILE", size = 0, NEW b \in Blocks(g, i), Foreign(f, i, b)
                 PROVE  FALSE
    BY <1>14 DEF Apart
  <2>2. b = at
    BY <1>1a, <1>3, <1>12, <2>1
  <2>3. b \in f.used /\ b < BITMAP_SIZE
    BY <2>1, ForeignUsed
  <2>4. at # -1
    <3>1. b >= 0
      <4>1. CASE b \in 0 .. HEADER_BLOCKS - 1
        BY <4>1
      <4>2. CASE \E j \in Owners(f) \ f.weak : b \in Blocks(f, j)
        <5>1. b \in HEADER_BLOCKS .. BITMAP_SIZE - 1
          BY <4>2 DEF BlocksSound
        <5>. QED  BY <1>0, <5>1
      <4>. QED  BY <2>1, <4>1, <4>2 DEF Foreign
    <3>. QED  BY <2>2, <3>1
  <2>5. at \in at .. at + q - 1
    BY <1>1a, <1>3, <2>1
  <2>. QED  BY <1>3, <2>1, <2>2, <2>3, <2>4, <2>5
<1>. QED  BY <1>4, <1>5, <1>9, <1>10, <1>11, <1>14, <1>15

\* The names of the system are names, and so are those of its users.
LEMMA FixedNames ==
  /\ Dot \in Seq(Letter) /\ DotDot \in Seq(Letter)
  /\ usersName \in Seq(Letter) /\ etcName \in Seq(Letter) /\ usersfile \in Seq(Letter)
  /\ fifoa \in Seq(Letter) /\ fifob \in Seq(Letter) /\ <<>> \in Seq(Letter)
<1>1. /\ "." \in Letter /\ "u" \in Letter /\ "s" \in Letter /\ "e" \in Letter /\ "t" \in Letter
      /\ "f" \in Letter /\ "a" \in Letter /\ "b" \in Letter
  BY DEF Letter
<1>. HIDE DEF Letter
<1>2. /\ \A c \in Letter : <<c>> \in Seq(Letter)
      /\ \A c \in Letter, d \in Letter : <<c, d>> \in Seq(Letter)
      /\ \A c \in Letter, d \in Letter, e \in Letter : <<c, d, e>> \in Seq(Letter)
  OBVIOUS
<1>. QED  BY <1>1, <1>2 DEF Dot, DotDot, usersName, etcName, usersfile, fifoa, fifob

\* A sequence of strings is one of characters.
LEMMA StringsLetters ==
  ASSUME NEW s \in Seq(STRING)
  PROVE  s \in Seq(Letter)
<1>1. Len(s) \in Nat /\ s = [k \in 1 .. Len(s) |-> s[k]] /\ \A k \in 1 .. Len(s) : s[k] \in STRING
  OBVIOUS
<1>2. \A k \in 1 .. Len(s) : s[k] \in Letter
  BY <1>1 DEF Letter
<1>. HIDE DEF Letter
<1>3. [k \in 1 .. Len(s) |-> s[k]] \in Seq(Letter)
  BY <1>1, <1>2
<1>. QED  BY <1>1, <1>3

\* A name written over another one.
LEMMA OverlayTyped ==
  ASSUME NEW new \in Seq(Letter), NEW old \in Seq(Letter)
  PROVE  Overlay(new, old) \in Seq(Letter)
<1>. DEFINE rest == SubSeq(old, Len(new) + 1, Len(old))
<1>1. Len(new) \in Nat /\ Len(old) \in Nat
  OBVIOUS
<1>2. rest \in Seq(Letter)
  BY <1>1
<1>. HIDE DEF rest
<1>3. new \o rest \in Seq(Letter)
  BY <1>2
<1>. QED  BY <1>3 DEF Overlay, rest

WithEntry(f, d, s, x) == [f EXCEPT !.dirs[d][s] = x]
WithRow(f, d, row) == [f EXCEPT !.dirs[d] = row]

\* One entry of a directory is replaced.
LEMMA EntryReplaced ==
  ASSUME NEW f \in FileSystem, NEW d \in Inode, NEW s \in Slot, NEW x \in DirEntry,
         NEW g, g = WithEntry(f, d, s, x)
  PROVE  /\ g \in FileSystem
         /\ g.used = f.used /\ g.inodes = f.inodes /\ g.nodes = f.nodes /\ g.fd = f.fd
         /\ g.current = f.current /\ g.group = f.group /\ g.weak = f.weak
         /\ g.dirs[d][s] = x
         /\ \A e \in Inode, t \in Slot : e # d \/ t # s => g.dirs[e][t] = f.dirs[e][t]
<1>. DEFINE row == [f.dirs[d] EXCEPT ![s] = x]
            dirs == [f.dirs EXCEPT ![d] = row]
<1>1. f.dirs \in [Inode -> [Slot -> DirEntry]] /\ f.dirs[d] \in [Slot -> DirEntry]
  BY Fields
<1>2. row \in [Slot -> DirEntry] /\ row[s] = x /\ \A t \in Slot : t # s => row[t] = f.dirs[d][t]
  BY <1>1
<1>3. g = [f EXCEPT !.dirs = dirs]
  BY DEF WithEntry
<1>. HIDE DEF row
<1>4. /\ dirs \in [Inode -> [Slot -> DirEntry]] /\ dirs[d] = row
      /\ \A e \in Inode : e # d => dirs[e] = f.dirs[e]
  BY <1>1, <1>2
<1>. HIDE DEF dirs
<1>5. g \in FileSystem /\ g.dirs = dirs
  BY <1>3, <1>4 DEF FileSystem
<1>6. /\ g.used = f.used /\ g.inodes = f.inodes /\ g.nodes = f.nodes /\ g.fd = f.fd
      /\ g.current = f.current /\ g.group = f.group /\ g.weak = f.weak
  BY <1>3 DEF FileSystem
<1>7. \A e \in Inode, t \in Slot : e # d \/ t # s => dirs[e][t] = f.dirs[e][t]
  BY <1>2, <1>4
<1>. QED  BY <1>2, <1>4, <1>5, <1>6, <1>7

\* The entries of a directory are replaced.
LEMMA RowReplaced ==
  ASSUME NEW f \in FileSystem, NEW d \in Inode, NEW row \in [Slot -> DirEntry],
         NEW g, g = WithRow(f, d, row)
  PROVE  /\ g \in FileSystem
         /\ g.used = f.used /\ g.inodes = f.inodes /\ g.nodes = f.nodes /\ g.fd = f.fd
         /\ g.current = f.current /\ g.group = f.group /\ g.weak = f.weak
         /\ g.dirs[d] = row
         /\ \A e \in Inode : e # d => g.dirs[e] = f.dirs[e]
<1>. DEFINE dirs == [f.dirs EXCEPT ![d] = row]
<1>1. g = [f EXCEPT !.dirs = dirs]
  BY DEF WithRow
<1>2. /\ dirs \in [Inode -> [Slot -> DirEntry]] /\ dirs[d] = row
      /\ \A e \in Inode : e # d => dirs[e] = f.dirs[e]
  BY Fields
<1>. HIDE DEF dirs
<1>3. g \in FileSystem /\ g.dirs = dirs
  BY <1>1, <1>2 DEF FileSystem
<1>4. /\ g.used = f.used /\ g.inodes = f.inodes /\ g.nodes = f.nodes /\ g.fd = f.fd
      /\ g.current = f.current /\ g.group = f.group /\ g.weak = f.weak
  BY <1>1 DEF FileSystem
<1>. QED  BY <1>2, <1>3, <1>4

\* An entry of a directory.
LEMMA EntryOf ==
  ASSUME NEW f \in FileSystem, NEW d \in Inode, NEW s \in Slot
  PROVE  /\ f.dirs[d][s] \in DirEntry /\ f.dirs[d][s].inode \in Inode
         /\ f.dirs[d][s].name \in Seq(Letter)
<1>1. f.dirs[d][s] \in DirEntry
  BY Fields
<1>. QED  BY <1>1 DEF DirEntry

\* A name is entered in a directory, at an entry that is not in use, or nothing is.
LEMMA Enters ==
  ASSUME NEW f \in FileSystem, NEW type \in Kinds, NEW i \in Inode,
         NEW d \in Inode, NEW name \in Seq(Letter), NEW g, g = insert_entry(f, type, i, d, name)
  PROVE  /\ g \in FileSystem
         /\ g.used = f.used /\ g.inodes = f.inodes /\ g.nodes = f.nodes /\ g.fd = f.fd
         /\ g.current = f.current /\ g.group = f.group /\ g.weak = f.weak
         /\ \/ g.dirs = f.dirs
            \/ \E s \in Slot :
                 /\ ~Held(f, d, s) /\ Held(g, d, s)
                 /\ g.dirs[d][s].inode = i /\ g.dirs[d][s].type = type
                 /\ \A e \in Inode, t \in Slot : e # d \/ t # s => g.dirs[e][t] = f.dirs[e][t]
<1>. DEFINE open == {s \in Slot : f.dirs[d][s].type = "NONE"}
            s == Min(open)
            x == [type |-> type, inode |-> i, name |-> Overlay(name, f.dirs[d][s].name)]
<1>1. CASE open = {}
  <2>1. g = f
    BY <1>1 DEF insert_entry
  <2>. QED  BY <2>1
<1>2. CASE open # {}
  <2>1. s \in open
    <3>1. open \in SUBSET Nat
      BY FsConstants DEF Slot
    <3>. HIDE DEF open
    <3>. QED  BY <1>2, <3>1, MinSlot
  <2>2. s \in Slot /\ ~Held(f, d, s)
    BY <2>1 DEF Held
  <2>3. g = WithEntry(f, d, s, x)
    BY <1>2 DEF insert_entry, WithEntry
  <2>. HIDE DEF s
  <2>4. Overlay(name, f.dirs[d][s].name) \in Seq(Letter)
    <3>1. f.dirs[d][s].name \in Seq(Letter)
      BY <2>2, EntryOf
    <3>. QED  BY <3>1, OverlayTyped
  <2>5. x \in DirEntry /\ x.type # "NONE" /\ x.inode = i /\ x.type = type
    BY <2>4 DEF DirEntry, Kinds
  <2>. HIDE DEF x
  <2>6. /\ g \in FileSystem
        /\ g.used = f.used /\ g.inodes = f.inodes /\ g.nodes = f.nodes /\ g.fd = f.fd
        /\ g.current = f.current /\ g.group = f.group /\ g.weak = f.weak
        /\ g.dirs[d][s] = x
        /\ \A e \in Inode, t \in Slot : e # d \/ t # s => g.dirs[e][t] = f.dirs[e][t]
    BY <2>2, <2>3, <2>5, EntryReplaced
  <2>7. Held(g, d, s) /\ g.dirs[d][s].inode = i /\ g.dirs[d][s].type = type
    BY <2>5, <2>6 DEF Held
  <2>. QED  BY <2>2, <2>6, <2>7
<1>. QED  BY <1>1, <1>2

\* What is in use stays where it is.
AllKept(f, g) ==
  \A d \in Inode, s \in Slot : Held(f, d, s) => g.dirs[d][s] = f.dirs[d][s]

\* The slots behind the first two.
LEMMA Slots ==
  /\ 0 \in Slot /\ 1 \in Slot /\ 0 \notin Sl /\ 1 \notin Sl
  /\ \A s \in Slot : s \in Sl \/ s = 0 \/ s = 1
  /\ \A s \in Sl : s \in Slot /\ s # 0 /\ s # 1
BY FsConstants DEF Slot, Sl

\* The entries stay sound when some of them are cleared.
LEMMA FewerEntries ==
  ASSUME NEW f \in FileSystem, EntriesSound(f), NEW g, g.inodes = f.inodes,
         \A e \in Inode : Dir(g, e) <=> Dir(f, e),
         \A e \in Inode : EntryType(g.nodes[e].id) = EntryType(f.nodes[e].id),
         \A e \in Inode : g.dirs[e][1] = f.dirs[e][1],
         \A e \in Inode, t \in Sl : Held(g, e, t) => Held(f, e, t) /\ g.dirs[e][t] = f.dirs[e][t]
  PROVE  EntriesSound(g)
<1>1. ASSUME NEW d \in Inode, NEW s \in Sl, Held(g, d, s)
      PROVE  Names(g, d, s, g.dirs[d][s].inode)
  <2>. DEFINE i == g.dirs[d][s].inode
  <2>1. Held(f, d, s) /\ i = f.dirs[d][s].inode /\ g.dirs[d][s].type = f.dirs[d][s].type
    BY <1>1
  <2>2. Names(f, d, s, i)
    BY <2>1 DEF EntriesSound
  <2>3. i \in Inode
    BY <2>1, EntryOf, Slots
  <2>. HIDE DEF i
  <2>4. Dir(g, i) => g.dirs[i][1].inode = d
    BY <2>2, <2>3 DEF Names
  <2>5. ASSUME NEW e \in Inode, NEW t \in Sl, Held(g, e, t), g.dirs[e][t].inode = i
        PROVE  e = d /\ t = s
    <3>1. Held(f, e, t) /\ f.dirs[e][t].inode = i
      BY <2>5
    <3>. QED  BY <2>2, <3>1 DEF Names
  <2>6. /\ i \in 1 .. g.inodes - 1 /\ d < i
        /\ g.dirs[d][s].type = EntryType(g.nodes[i].id)
    BY <2>1, <2>2, <2>3 DEF Names
  <2>7. Names(g, d, s, i)
    BY <2>4, <2>5, <2>6 DEF Names
  <2>. QED  BY <2>7 DEF i
<1>. QED  BY <1>1 DEF EntriesSound

\* A directory gets an entry for an inode that has none.
LEMMA EntersSound ==
  ASSUME NEW g, Sound(g), NEW type \in Kinds,
         NEW i \in Inode, i \in 1 .. g.inodes - 1, g.nodes[i].id = type,
         NEW d \in Inode, Dir(g, d), d < i,
         \A e \in Inode, t \in Sl : Held(g, e, t) => g.dirs[e][t].inode # i,
         Dir(g, i) => g.dirs[i][1].inode = d,
         NEW name \in Seq(Letter), NEW h, h = insert_entry(g, type, i, d, name)
  PROVE  /\ Sound(h) /\ AllKept(g, h)
         /\ h.used = g.used /\ h.inodes = g.inodes /\ h.nodes = g.nodes /\ h.fd = g.fd
         /\ h.current = g.current /\ h.group = g.group /\ h.weak = g.weak
<1>1. g \in FileSystem /\ BlocksSound(g) /\ DirsSound(g) /\ EntriesSound(g)
  BY DEF Sound
<1>2. /\ h \in FileSystem
      /\ h.used = g.used /\ h.inodes = g.inodes /\ h.nodes = g.nodes /\ h.fd = g.fd
      /\ h.current = g.current /\ h.group = g.group /\ h.weak = g.weak
  BY <1>1, Enters
<1>3. \/ h.dirs = g.dirs
      \/ \E s \in Slot :
           /\ ~Held(g, d, s) /\ Held(h, d, s)
           /\ h.dirs[d][s].inode = i /\ h.dirs[d][s].type = type
           /\ \A e \in Inode, t \in Slot : e # d \/ t # s => h.dirs[e][t] = g.dirs[e][t]
  BY <1>1, Enters
<1>4. BlocksSound(h)
  BY <1>1, <1>2 DEF BlocksSound, Owners, Blocks
<1>5. \A e \in Inode : Dir(h, e) <=> Dir(g, e)
  BY <1>2 DEF Dir
<1>6. CASE h.dirs = g.dirs
  <2>1. \A e \in Inode, t \in Slot : (Held(h, e, t) <=> Held(g, e, t))
    BY <1>6 DEF Held
  <2>2. DirsSound(h)
    BY <1>1, <1>2, <1>6 DEF DirsSound, Held, Dir
  <2>3. EntriesSound(h)
    BY <1>1, <1>2, <1>5, <1>6, <2>1, FewerEntries, Slots
  <2>4. AllKept(g, h)
    BY <1>6 DEF AllKept
  <2>. QED  BY <1>2, <1>4, <2>2, <2>3, <2>4 DEF Sound
<1>7. ASSUME NEW s \in Slot, ~Held(g, d, s), Held(h, d, s),
             h.dirs[d][s].inode = i, h.dirs[d][s].type = type,
             \A e \in Inode, t \in Slot : e # d \/ t # s => h.dirs[e][t] = g.dirs[e][t]
      PROVE  Sound(h) /\ AllKept(g, h)
  <2>1. s \in Sl
    <3>1. Held(g, d, 0) /\ Held(g, d, 1)
      BY <1>1 DEF DirsSound
    <3>. QED  BY <1>7, <3>1, Slots
  <2>2. \A e \in Inode, t \in Slot : e # d \/ t # s =>
          h.dirs[e][t] = g.dirs[e][t] /\ (Held(h, e, t) <=> Held(g, e, t))
    BY <1>7 DEF Held
  <2>3. 0 \in Slot /\ 1 \in Slot /\ s # 0 /\ s # 1
    BY <2>1, Slots
  <2>4. \A e \in Inode : /\ h.dirs[e][1] = g.dirs[e][1]
                         /\ Held(h, e, 0) <=> Held(g, e, 0)
                         /\ Held(h, e, 1) <=> Held(g, e, 1)
    BY <2>2, <2>3
  <2>5. DirsSound(h)
    <3>0. MaxInodes \in Nat /\ 1 \in Inode
      BY FsConstants DEF Inode
    <3>1. Dir(h, 1)
      BY <1>1, <1>5, <3>0 DEF DirsSound
    <3>2. ASSUME NEW e \in Inode, Dir(h, e)
          PROVE  /\ e \in 1 .. h.inodes - 1
                 /\ Held(h, e, 0) /\ Held(h, e, 1) /\ h.dirs[e][1].name = DotDot
      BY <1>1, <1>2, <1>5, <2>4, <3>2 DEF DirsSound
    <3>3. ASSUME NEW e \in Inode, ~Dir(h, e), NEW t \in Slot PROVE ~Held(h, e, t)
      <4>1. ~Dir(g, e) /\ e # d
        BY <1>5, <3>3
      <4>. QED  BY <1>1, <2>2, <4>1 DEF DirsSound
    <3>. QED  BY <3>1, <3>2, <3>3 DEF DirsSound
  <2>6. EntriesSound(h)
    <3>1. ASSUME NEW e \in Inode, NEW t \in Sl, Held(h, e, t)
          PROVE  Names(h, e, t, h.dirs[e][t].inode)
      <4>. DEFINE k == h.dirs[e][t].inode
      <4>0. t \in Slot /\ \A t2 \in Sl : t2 \in Slot
        BY Slots
      <4>1. CASE e = d /\ t = s
        <5>1. k = i
          BY <1>7, <4>1
        <5>2. Dir(h, i) => h.dirs[i][1].inode = d
          BY <1>5, <2>4
        <5>3. ASSUME NEW e2 \in Inode, NEW t2 \in Sl, Held(h, e2, t2), h.dirs[e2][t2].inode = i
              PROVE  e2 = d /\ t2 = s
          BY <2>2, <4>0, <5>3
        <5>4. i \in 1 .. h.inodes - 1 /\ h.dirs[d][s].type = EntryType(h.nodes[i].id)
          BY <1>2, <1>7 DEF EntryType, Kinds
        <5>5. Names(h, d, s, i)
          BY <5>2, <5>3, <5>4 DEF Names
        <5>. QED  BY <4>1, <5>1, <5>5
      <4>2. CASE e # d \/ t # s
        <5>1. Held(g, e, t) /\ k = g.dirs[e][t].inode
          BY <2>2, <3>1, <4>0, <4>2
        <5>2. Names(g, e, t, k)
          BY <1>1, <5>1 DEF EntriesSound
        <5>3. k # i
          BY <5>1
        <5>4. k \in Inode
          BY <1>1, <4>0, <5>1, EntryOf
        <5>. HIDE DEF k
        <5>5. ASSUME NEW e2 \in Inode, NEW t2 \in Sl, Held(h, e2, t2), h.dirs[e2][t2].inode = k
              PROVE  e2 = e /\ t2 = t
          <6>1. e2 # d \/ t2 # s
            BY <1>7, <5>3, <5>5
          <6>2. Held(g, e2, t2) /\ g.dirs[e2][t2].inode = k
            BY <2>2, <4>0, <5>5, <6>1
          <6>. QED  BY <5>2, <6>2 DEF Names
        <5>6. /\ k \in 1 .. h.inodes - 1 /\ e < k
              /\ h.dirs[e][t].type = EntryType(h.nodes[k].id)
          BY <1>2, <2>2, <4>0, <4>2, <5>2 DEF Names
        <5>7. Dir(h, k) => h.dirs[k][1].inode = e
          BY <1>5, <2>4, <5>2, <5>4 DEF Names
        <5>8. Names(h, e, t, k)
          BY <5>5, <5>6, <5>7 DEF Names
        <5>. QED  BY <5>8 DEF k
      <4>. QED  BY <4>1, <4>2
    <3>. QED  BY <3>1 DEF EntriesSound
  <2>7. AllKept(g, h)
    BY <1>7, <2>2 DEF AllKept
  <2>. QED  BY <1>2, <1>4, <2>5, <2>6, <2>7 DEF Sound
<1>. QED  BY <1>2, <1>3, <1>6, <1>7

\* The entries of a new directory.
LEMMA NewDirectoryTyped ==
  ASSUME NEW i \in Inode, NEW d \in Inode
  PROVE  /\ NewDirectory(i, d) \in [Slot -> DirEntry]
         /\ NewDirectory(i, d)[0].type # "NONE" /\ NewDirectory(i, d)[1].type # "NONE"
         /\ NewDirectory(i, d)[1].name = DotDot /\ NewDirectory(i, d)[1].inode = d
         /\ \A s \in Sl : NewDirectory(i, d)[s].type = "NONE"
<1>. DEFINE x == [type |-> "DIRECTORY", inode |-> i, name |-> Dot]
            y == [type |-> "DIRECTORY", inode |-> d, name |-> DotDot]
<1>1. /\ x \in DirEntry /\ x.type # "NONE"
      /\ y \in DirEntry /\ y.type # "NONE" /\ y.name = DotDot /\ y.inode = d
  <2>1. Dot \in Seq(Letter) /\ DotDot \in Seq(Letter)
    BY FixedNames
  <2>. QED  BY <2>1 DEF DirEntry
<1>2. NoEntry \in DirEntry /\ NoEntry.type = "NONE"
  <2>1. <<>> \in Seq(Letter) /\ 0 \in Inode
    BY FsConstants DEF Inode
  <2>. QED  BY <2>1 DEF NoEntry, DirEntry
<1>3. NewDirectory(i, d) = [s \in Slot |-> IF s = 0 THEN x ELSE IF s = 1 THEN y ELSE NoEntry]
  BY DEF NewDirectory
<1>. HIDE DEF x, y
<1>4. NewDirectory(i, d) \in [Slot -> DirEntry]
  BY <1>1, <1>2, <1>3
<1>5. NewDirectory(i, d)[0] = x /\ NewDirectory(i, d)[1] = y
  BY <1>3, Slots
<1>6. \A s \in Sl : NewDirectory(i, d)[s] = NoEntry
  BY <1>3, Slots
<1>. QED  BY <1>1, <1>2, <1>4, <1>5, <1>6

\* A new inode, with its entries when it is a directory, in a sound file system.
LEMMA CreatesSound ==
  ASSUME NEW f, Sound(f), f.inodes \in Inode, NEW id \in Kinds, NEW d \in Inode,
         Dir(f, d),
         NEW g \in FileSystem, BlocksSound(g), g.inodes = f.inodes + 1,
         \A e \in Inode : e # f.inodes => g.nodes[e] = f.nodes[e] /\ g.dirs[e] = f.dirs[e],
         g.nodes[f.inodes].id = id,
         g.dirs[f.inodes] = IF id = "DIRECTORY" THEN NewDirectory(f.inodes, d)
                            ELSE f.dirs[f.inodes]
  PROVE  /\ Sound(g) /\ AllKept(f, g)
         /\ f.inodes \in 1 .. g.inodes - 1 /\ d < f.inodes
         /\ \A e \in Inode, t \in Sl : Held(g, e, t) => g.dirs[e][t].inode # f.inodes
         /\ Dir(g, f.inodes) => g.dirs[f.inodes][1].inode = d
         /\ \A e \in Inode : Dir(f, e) => Dir(g, e)
<1>. DEFINE i == f.inodes
<1>1. f \in FileSystem /\ BlocksSound(f) /\ DirsSound(f) /\ EntriesSound(f)
  BY DEF Sound
<1>2. i \in 1 .. MaxInodes /\ MaxInodes \in Nat /\ i \in Nat /\ g.inodes = i + 1
  BY <1>1, FsConstants, Fields
<1>. HIDE DEF i
<1>3. ~Dir(f, i) /\ \A s \in Slot : ~Held(f, i, s)
  <2>1. ~Dir(f, i)
    BY <1>1, <1>2 DEF DirsSound, i
  <2>. QED  BY <1>1, <2>1 DEF DirsSound, i
<1>4. \A e \in Inode : e # i => /\ Dir(g, e) <=> Dir(f, e)
                                /\ g.dirs[e] = f.dirs[e]
                                /\ \A s \in Slot : Held(g, e, s) <=> Held(f, e, s)
  BY DEF Dir, Held, i
<1>5. Dir(g, i) <=> id = "DIRECTORY"
  BY DEF Dir, i
<1>6. Dir(g, i) => /\ Held(g, i, 0) /\ Held(g, i, 1) /\ g.dirs[i][1].name = DotDot
                   /\ g.dirs[i][1].inode = d
  <2>1. i \in Inode
    BY DEF i
  <2>2. Dir(g, i) => g.dirs[i] = NewDirectory(i, d)
    BY <1>5 DEF i
  <2>3. /\ NewDirectory(i, d)[0].type # "NONE" /\ NewDirectory(i, d)[1].type # "NONE"
        /\ NewDirectory(i, d)[1].name = DotDot /\ NewDirectory(i, d)[1].inode = d
    BY <2>1, NewDirectoryTyped
  <2>. QED  BY <2>2, <2>3 DEF Held
<1>7. /\ \A s \in Sl : ~Held(g, i, s)
      /\ ~Dir(g, i) => \A s \in Slot : ~Held(g, i, s)
  <2>1. CASE id = "DIRECTORY"
    <3>1. i \in Inode /\ g.dirs[i] = NewDirectory(i, d)
      BY <2>1 DEF i
    <3>2. \A s \in Sl : NewDirectory(i, d)[s].type = "NONE"
      BY <3>1, NewDirectoryTyped
    <3>. QED  BY <1>5, <2>1, <3>1, <3>2 DEF Held
  <2>2. CASE id # "DIRECTORY"
    <3>1. g.dirs[i] = f.dirs[i]
      BY <2>2 DEF i
    <3>2. \A s \in Slot : ~Held(g, i, s)
      BY <1>3, <3>1 DEF Held
    <3>. QED  BY <3>2, Slots
  <2>. QED  BY <2>1, <2>2
<1>8. DirsSound(g)
  <2>1. Dir(g, 1)
    <3>1. 1 \in Inode /\ Dir(f, 1)
      BY <1>1, FsConstants DEF Inode, DirsSound
    <3>. QED  BY <1>3, <1>4, <3>1
  <2>2. ASSUME NEW e \in Inode, Dir(g, e)
        PROVE  /\ e \in 1 .. g.inodes - 1
               /\ Held(g, e, 0) /\ Held(g, e, 1) /\ g.dirs[e][1].name = DotDot
    <3>1. CASE e = i
      BY <1>2, <1>6, <2>2, <3>1
    <3>2. CASE e # i
      <4>1. /\ e \in 1 .. i - 1
            /\ Held(f, e, 0) /\ Held(f, e, 1) /\ f.dirs[e][1].name = DotDot
        BY <1>1, <1>4, <2>2, <3>2 DEF DirsSound, i
      <4>2. 0 \in Slot /\ 1 \in Slot
        BY Slots
      <4>. QED  BY <1>2, <1>4, <3>2, <4>1, <4>2
    <3>. QED  BY <3>1, <3>2
  <2>3. ASSUME NEW e \in Inode, ~Dir(g, e), NEW s \in Slot PROVE ~Held(g, e, s)
    <3>1. CASE e = i
      BY <1>7, <2>3, <3>1
    <3>2. CASE e # i
      BY <1>1, <1>4, <2>3, <3>2 DEF DirsSound
    <3>. QED  BY <3>1, <3>2
  <2>. QED  BY <2>1, <2>2, <2>3 DEF DirsSound
<1>9. ASSUME NEW e \in Inode, NEW t \in Sl, Held(g, e, t)
      PROVE  /\ Names(g, e, t, g.dirs[e][t].inode)
             /\ g.dirs[e][t].inode # i
  <2>. DEFINE k == g.dirs[e][t].inode
  <2>0. \A t2 \in Sl : t2 \in Slot
    BY Slots
  <2>1. \A e2 \in Inode, t2 \in Sl : Held(g, e2, t2) =>
          Held(f, e2, t2) /\ g.dirs[e2][t2] = f.dirs[e2][t2]
    BY <1>4, <1>7, <2>0
  <2>2. Held(f, e, t) /\ k = f.dirs[e][t].inode
    BY <1>9, <2>1
  <2>3. Names(f, e, t, k)
    BY <1>1, <2>2 DEF EntriesSound
  <2>4. k \in Inode
    BY <1>1, <2>0, <2>2, EntryOf
  <2>. HIDE DEF k
  <2>5. k # i /\ k \in 1 .. g.inodes - 1
    <3>1. k \in 1 .. i - 1
      BY <2>3 DEF Names, i
    <3>. QED  BY <1>2, <3>1
  <2>6. /\ Dir(g, k) => g.dirs[k][1].inode = e
        /\ e < k /\ g.dirs[e][t].type = EntryType(g.nodes[k].id)
    BY <1>4, <1>9, <2>1, <2>3, <2>4, <2>5 DEF Names, i
  <2>7. ASSUME NEW e2 \in Inode, NEW t2 \in Sl, Held(g, e2, t2), g.dirs[e2][t2].inode = k
        PROVE  e2 = e /\ t2 = t
    <3>1. Held(f, e2, t2) /\ f.dirs[e2][t2].inode = k
      BY <2>1, <2>7
    <3>. QED  BY <2>3, <3>1 DEF Names
  <2>8. Names(g, e, t, k)
    BY <2>5, <2>6, <2>7 DEF Names
  <2>. QED  BY <2>5, <2>8 DEF k
<1>10. EntriesSound(g)
  BY <1>9 DEF EntriesSound
<1>11. AllKept(f, g)
  BY <1>3, <1>4 DEF AllKept
<1>12. \A e \in Inode, t \in Sl : Held(g, e, t) => g.dirs[e][t].inode # i
  BY <1>9
<1>13. \A e \in Inode : Dir(f, e) => Dir(g, e)
  BY <1>3, <1>4
<1>14. d < i
  BY <1>1, <1>2 DEF DirsSound, i
<1>. QED  BY <1>2, <1>6, <1>8, <1>10, <1>11, <1>12, <1>13, <1>14 DEF Sound, i

\* A new directory, with its entry in the directory d.
LEMMA DirectoryInserted ==
  ASSUME NEW f, Sound(f), f.inodes \in Inode, NEW name \in Seq(Letter),
         NEW d \in Inode, Dir(f, d), NEW h, h = insert_directory(f, name, d)
  PROVE  /\ Sound(h) /\ AllKept(f, h)
         /\ h.inodes = f.inodes + 1 /\ h.fd = f.fd /\ h.current = f.current /\ h.group = f.group
         /\ \A e \in Inode : Dir(f, e) => Dir(h, e)
<1>. DEFINE i == f.inodes
            k == fs_creat_inode(f, "DIRECTORY", BLOCK_SIZE)
            row == NewDirectory(i, d)
            g == WithRow(k, i, row)
<1>0. f \in FileSystem /\ BlocksSound(f) /\ BLOCK_SIZE \in Nat /\ "DIRECTORY" \in Kinds
  BY FsConstants DEF Sound, Kinds
<1>1. h = insert_entry(g, "DIRECTORY", i, d, name)
  BY DEF insert_directory, WithRow
<1>2. i \in Inode
  OBVIOUS
<1>3. row \in [Slot -> DirEntry]
  BY NewDirectoryTyped
<1>. HIDE DEF k, i
<1>4. /\ k \in FileSystem
      /\ k.inodes = i + 1 /\ k.dirs = f.dirs /\ k.fd = f.fd
      /\ k.current = f.current /\ k.group = f.group
      /\ \A e \in Inode : e # i => k.nodes[e] = f.nodes[e]
      /\ k.nodes[i].id = "DIRECTORY"
      /\ BlocksSound(k)
  BY <1>0, <1>2, Creates DEF k, i
<1>. HIDE DEF row, g
<1>5. /\ g \in FileSystem
      /\ g.used = k.used /\ g.inodes = k.inodes /\ g.nodes = k.nodes /\ g.fd = k.fd
      /\ g.current = k.current /\ g.group = k.group /\ g.weak = k.weak
      /\ g.dirs[i] = row
      /\ \A e \in Inode : e # i => g.dirs[e] = k.dirs[e]
  BY <1>2, <1>3, <1>4, RowReplaced DEF g
<1>6. BlocksSound(g)
  BY <1>4, <1>5 DEF BlocksSound, Owners, Blocks
<1>7. /\ \A e \in Inode : e # i => g.nodes[e] = f.nodes[e] /\ g.dirs[e] = f.dirs[e]
      /\ g.nodes[i].id = "DIRECTORY" /\ g.dirs[i] = NewDirectory(i, d) /\ g.inodes = i + 1
      /\ g.fd = f.fd /\ g.current = f.current /\ g.group = f.group
  BY <1>4, <1>5 DEF row
<1>8. /\ Sound(g) /\ AllKept(f, g)
      /\ i \in 1 .. g.inodes - 1 /\ d < i
      /\ \A e \in Inode, t \in Sl : Held(g, e, t) => g.dirs[e][t].inode # i
      /\ Dir(g, i) => g.dirs[i][1].inode = d
      /\ \A e \in Inode : Dir(f, e) => Dir(g, e)
  BY <1>0, <1>5, <1>6, <1>7, CreatesSound DEF i
<1>9. /\ Sound(h) /\ AllKept(g, h)
      /\ h.inodes = g.inodes /\ h.nodes = g.nodes /\ h.fd = g.fd
      /\ h.current = g.current /\ h.group = g.group
  BY <1>0, <1>1, <1>2, <1>7, <1>8, EntersSound
<1>10. AllKept(f, h)
  BY <1>8, <1>9 DEF AllKept, Held
<1>11. \A e \in Inode : Dir(f, e) => Dir(h, e)
  BY <1>8, <1>9 DEF Dir
<1>12. h.inodes = f.inodes + 1
  BY <1>7, <1>9 DEF i
<1>. QED  BY <1>7, <1>9, <1>10, <1>11, <1>12

\* A new file or FIFO, with its entry in the directory d.
LEMMA OtherInserted ==
  ASSUME NEW f, Sound(f), f.inodes \in Inode, NEW name \in Seq(Letter),
         NEW d \in Inode, Dir(f, d), NEW id \in Kinds, id # "DIRECTORY",
         NEW h, h = insert_entry(fs_creat_inode(f, id, 0), id, f.inodes, d, name)
  PROVE  /\ Sound(h) /\ AllKept(f, h)
         /\ h.inodes = f.inodes + 1 /\ h.fd = f.fd /\ h.current = f.current /\ h.group = f.group
         /\ \A e \in Inode : Dir(f, e) => Dir(h, e)
         /\ h.nodes[f.inodes].id = id
         /\ id = "FILE" => Apart(h, f.inodes)
<1>. DEFINE i == f.inodes
            g == fs_creat_inode(f, id, 0)
<1>0. f \in FileSystem /\ BlocksSound(f) /\ 0 \in Nat /\ id \in Kinds /\ id # "DIRECTORY"
  BY DEF Sound, Kinds
<1>1. h = insert_entry(g, id, i, d, name) /\ i \in Inode
  OBVIOUS
<1>. HIDE DEF g, i
<1>4. /\ g \in FileSystem
      /\ g.inodes = i + 1 /\ g.dirs = f.dirs /\ g.fd = f.fd
      /\ g.current = f.current /\ g.group = f.group
      /\ \A e \in Inode : e # i => g.nodes[e] = f.nodes[e]
      /\ g.nodes[i].id = id
      /\ BlocksSound(g)
      /\ id = "FILE" /\ 0 = 0 => Apart(g, i)
  BY <1>0, <1>1, Creates DEF g, i
<1>7. /\ \A e \in Inode : e # i => g.nodes[e] = f.nodes[e] /\ g.dirs[e] = f.dirs[e]
      /\ g.dirs[i] = f.dirs[i]
  BY <1>4
<1>8. /\ Sound(g) /\ AllKept(f, g)
      /\ i \in 1 .. g.inodes - 1 /\ d < i
      /\ \A e \in Inode, t \in Sl : Held(g, e, t) => g.dirs[e][t].inode # i
      /\ Dir(g, i) => g.dirs[i][1].inode = d
      /\ \A e \in Inode : Dir(f, e) => Dir(g, e)
  BY <1>0, <1>4, <1>7, CreatesSound DEF i
<1>9. /\ Sound(h) /\ AllKept(g, h)
      /\ h.inodes = g.inodes /\ h.nodes = g.nodes /\ h.fd = g.fd /\ h.weak = g.weak
      /\ h.current = g.current /\ h.group = g.group
  BY <1>0, <1>1, <1>4, <1>8, EntersSound
<1>10. AllKept(f, h)
  BY <1>8, <1>9 DEF AllKept, Held
<1>11. \A e \in Inode : Dir(f, e) => Dir(h, e)
  BY <1>8, <1>9 DEF Dir
<1>12. id = "FILE" => Apart(h, i)
  <2>1. Owners(h) = Owners(g) /\ \A e : Blocks(h, e) = Blocks(g, e)
    BY <1>9 DEF Owners, Blocks
  <2>2. \A b : Foreign(h, i, b) <=> Foreign(g, i, b)
    BY <1>9, <2>1 DEF Foreign
  <2>. QED  BY <1>4, <2>1, <2>2 DEF Apart
<1>13. h.inodes = f.inodes + 1 /\ h.nodes[f.inodes].id = id
  BY <1>4, <1>9 DEF i
<1>. QED  BY <1>4, <1>9, <1>10, <1>11, <1>12, <1>13 DEF i

\* What is found under a name.
LEMMA SearchTyped ==
  ASSUME NEW f \in FileSystem, NEW d \in Inode, NEW name
  PROVE  search_directory(f, name, d) \in Inode \cup {-1}
<1>. DEFINE T == Found(f, name, d)
<1>1. CASE T = {}
  BY <1>1 DEF search_directory
<1>2. CASE T # {}
  <2>1. T \in SUBSET Nat /\ T \subseteq Slot
    BY FsConstants DEF Found, Slot
  <2>2. Min(T) \in Slot
    <3>. HIDE DEF T
    <3>. QED  BY <1>2, <2>1, MinSlot
  <2>3. f.dirs[d][Min(T)].inode \in Inode
    <3>. HIDE DEF T
    <3>. QED  BY <2>2, EntryOf
  <2>4. search_directory(f, name, d) = f.dirs[d][Min(T)].inode
    BY <1>2 DEF search_directory
  <2>. HIDE DEF T
  <2>. QED  BY <2>3, <2>4
<1>. QED  BY <1>1, <1>2

\* A directory has an entry for its parent.
LEMMA ParentFound ==
  ASSUME NEW f, Sound(f), NEW d \in Inode, Dir(f, d)
  PROVE  search_directory(f, DotDot, d) \in Inode
<1>1. f \in FileSystem /\ f.dirs[d][1].name = DotDot
  BY DEF Sound, DirsSound
<1>2. CString(DotDot) = DotDot
  <2>1. {i \in 1 .. Len(DotDot) : DotDot[i] = NUL} = {}
    BY DEF DotDot, NUL
  <2>. QED  BY <2>1 DEF CString
<1>3. 1 \in Found(f, DotDot, d)
  BY <1>1, <1>2, Slots DEF Found
<1>. DEFINE T == Found(f, DotDot, d)
<1>4. T # {} /\ T \in SUBSET Nat /\ T \subseteq Slot
  BY <1>3, FsConstants DEF Found, Slot
<1>5. search_directory(f, DotDot, d) = f.dirs[d][Min(T)].inode
  BY <1>4 DEF search_directory
<1>. HIDE DEF T
<1>6. Min(T) \in Slot
  BY <1>4, MinSlot
<1>. QED  BY <1>1, <1>5, <1>6, EntryOf

\* The descriptors, the current directory and the group do not matter.
LEMMA SoundSame ==
  ASSUME NEW f, Sound(f), NEW g \in FileSystem, g.used = f.used, g.inodes = f.inodes,
         g.nodes = f.nodes, g.dirs = f.dirs, g.weak = f.weak
  PROVE  /\ Sound(g) /\ AllKept(f, g)
         /\ \A i : Dir(g, i) <=> Dir(f, i)
         /\ \A i : Apart(f, i) => Apart(g, i)
<1>1. BlocksSound(g)
  BY DEF Sound, BlocksSound, Owners, Blocks
<1>2. DirsSound(g)
  BY DEF Sound, DirsSound, Held, Dir
<1>3. EntriesSound(g)
  <2>1. f \in FileSystem /\ EntriesSound(f)
    BY DEF Sound
  <2>2. /\ \A e \in Inode : Dir(g, e) <=> Dir(f, e)
        /\ \A e \in Inode, t \in Sl : Held(g, e, t) <=> Held(f, e, t)
    BY DEF Dir, Held
  <2>. QED  BY <2>1, <2>2, FewerEntries
<1>4. AllKept(f, g) /\ \A i : Dir(g, i) <=> Dir(f, i)
  BY DEF AllKept, Dir
<1>5. \A i : Apart(f, i) => Apart(g, i)
  BY DEF Apart, Foreign, Owners, Blocks
<1>. QED  BY <1>1, <1>2, <1>3, <1>4, <1>5 DEF Sound

WithFd(f, x, i) == [f EXCEPT !.fd[x] = i]

\* g differs from f in the descriptors only.
FdOnly(f, g) ==
  /\ g \in FileSystem /\ g.used = f.used /\ g.inodes = f.inodes /\ g.nodes = f.nodes
  /\ g.dirs = f.dirs /\ g.weak = f.weak /\ g.current = f.current /\ g.group = f.group

\* A descriptor is replaced.
LEMMA FdReplaced ==
  ASSUME NEW f \in FileSystem, NEW x \in Fd, NEW i \in Inode, NEW g, g = WithFd(f, x, i)
  PROVE  FdOnly(f, g) /\ g.fd[x] = i
<1>. DEFINE fd == [f.fd EXCEPT ![x] = i]
<1>1. fd \in [Fd -> Inode] /\ fd[x] = i
  BY Fields
<1>2. g = [f EXCEPT !.fd = fd]
  BY DEF WithFd
<1>. HIDE DEF fd
<1>3. g \in FileSystem /\ g.fd = fd
  BY <1>1, <1>2 DEF FileSystem
<1>4. /\ g.used = f.used /\ g.inodes = f.inodes /\ g.nodes = f.nodes
      /\ g.dirs = f.dirs /\ g.weak = f.weak /\ g.current = f.current /\ g.group = f.group
  BY <1>2 DEF FileSystem
<1>. QED  BY <1>1, <1>3, <1>4 DEF FdOnly

\* Descriptors are numbers other than those of an error, and other than 0.
LEMMA FdNumbers ==
  /\ Fd \in SUBSET Nat /\ 0 \notin Fd /\ -1 \notin Fd /\ -2 \notin Fd /\ NoFd \notin Fd
  /\ 0 \in Inode /\ -1 \notin Inode /\ 1 \in Inode
BY FsConstants DEF Fd, Inode, NoFd

\* What a descriptor stands for.
LEMMA FdTyped ==
  ASSUME NEW f \in FileSystem, NEW fd
  PROVE  search_for_fd(f, fd) \in Inode \cup {-1}
<1>1. fd \in Fd => f.fd[fd] \in Inode
  BY Fields
<1>. QED  BY <1>1, FdNumbers DEF search_for_fd

\* The descriptor an inode is opened under.
LEMMA Opens ==
  ASSUME NEW f \in FileSystem, NEW i \in Inode, NEW r, r = open_fd(f, i)
  PROVE  /\ FdOnly(f, r.fs) /\ r.fd \in Int
         /\ r.fd \in Fd => i # 0
         /\ i # 0 => search_for_fd(r.fs, r.fd) \in {i, -1}
         /\ i # 0 /\ r.fd \in Fd => search_for_fd(r.fs, r.fd) = i
<1>. DEFINE same == {x \in Fd : f.fd[x] = i}
            free == {x \in Fd : f.fd[x] = 0}
<1>0. FdOnly(f, f)
  BY DEF FdOnly
<1>1. /\ same # {} => Min(same) \in same
      /\ free # {} => Min(free) \in free
  <2>1. same \in SUBSET Nat /\ free \in SUBSET Nat
    BY FdNumbers
  <2>. HIDE DEF same, free
  <2>. QED  BY <2>1, MinSlot
<1>2. CASE same # {}
  <2>1. r = [fs |-> f, fd |-> IF i = 0 THEN 0 ELSE Min(same)]
    BY <1>2 DEF open_fd
  <2>2. Min(same) \in Fd /\ f.fd[Min(same)] = i
    BY <1>1, <1>2
  <2>. HIDE DEF same
  <2>3. i # 0 => search_for_fd(f, Min(same)) = i
    BY <2>2 DEF search_for_fd
  <2>4. r.fs = f /\ r.fd = IF i = 0 THEN 0 ELSE Min(same)
    BY <2>1
  <2>5. CASE i = 0
    <3>1. r.fd = 0
      BY <2>4, <2>5
    <3>. QED  BY <1>0, <2>4, <2>5, <3>1, FdNumbers
  <2>6. CASE i # 0
    <3>1. r.fd = Min(same)
      BY <2>4, <2>6
    <3>2. r.fd \in Fd /\ r.fd \in Int
      BY <2>2, <3>1, FdNumbers
    <3>. QED  BY <1>0, <2>3, <2>4, <2>6, <3>1, <3>2
  <2>. QED  BY <2>5, <2>6
<1>3. CASE same = {} /\ free = {}
  <2>1. r.fs = f /\ r.fd = -1
    BY <1>3 DEF open_fd
  <2>2. search_for_fd(f, -1) = -1
    BY FdNumbers DEF search_for_fd
  <2>. QED  BY <1>0, <2>1, <2>2, FdNumbers
<1>4. CASE same = {} /\ free # {}
  <2>. DEFINE x == Min(free)
              g == WithFd(f, x, i)
  <2>1. r.fs = g /\ r.fd = x
    BY <1>4 DEF open_fd, WithFd
  <2>2. x \in Fd /\ f.fd[x] = 0
    BY <1>1, <1>4
  <2>3. i # 0
    BY <1>4, <2>2
  <2>. HIDE DEF x
  <2>4. FdOnly(f, g) /\ g.fd[x] = i
    <3>1. g = WithFd(f, x, i)
      OBVIOUS
    <3>. HIDE DEF g
    <3>. QED  BY <2>2, <3>1, FdReplaced
  <2>. HIDE DEF g
  <2>5. search_for_fd(g, x) = i
    BY <2>2, <2>3, <2>4 DEF search_for_fd
  <2>. QED  BY <2>1, <2>2, <2>3, <2>4, <2>5, FdNumbers
<1>. QED  BY <1>2, <1>3, <1>4

\* A descriptor is given back.
LEMMA Closes ==
  ASSUME NEW f \in FileSystem, NEW fd
  PROVE  FdOnly(f, delete_fd(f, fd))
<1>1. CASE fd \in Fd
  <2>1. delete_fd(f, fd) = WithFd(f, fd, 0)
    BY <1>1 DEF delete_fd, WithFd
  <2>2. 0 \in Inode
    BY FdNumbers
  <2>. QED  BY <1>1, <2>1, <2>2, FdReplaced
<1>2. CASE fd \notin Fd
  BY <1>2 DEF delete_fd, FdOnly
<1>. QED  BY <1>1, <1>2

\* The bits that are cleared.
LEMMA Frees ==
  ASSUME NEW f \in FileSystem, NEW at \in Int, NEW q \in Nat, NEW h, h = free_used_blocks(f, at, q)
  PROVE  /\ h \in FileSystem
         /\ \A b : b \in h.used <=> b \in f.used /\ b \notin at .. at + q - 1
         /\ h.inodes = f.inodes /\ h.nodes = f.nodes /\ h.dirs = f.dirs /\ h.fd = f.fd
         /\ h.current = f.current /\ h.group = f.group /\ h.weak = f.weak
<1>. DEFINE u == f.used \ (at .. at + q - 1)
            n == f.freeBlocks + q
<1>1. u \in SUBSET Int /\ n \in Int
  BY Fields
<1>2. h = [f EXCEPT !.used = u, !.freeBlocks = n]
  BY DEF free_used_blocks
<1>. HIDE DEF u, n
<1>3. h \in FileSystem /\ h.used = u
  BY <1>1, <1>2 DEF FileSystem
<1>4. /\ h.inodes = f.inodes /\ h.nodes = f.nodes /\ h.dirs = f.dirs /\ h.fd = f.fd
      /\ h.current = f.current /\ h.group = f.group /\ h.weak = f.weak
  BY <1>2 DEF FileSystem
<1>. QED  BY <1>3, <1>4 DEF u

WithNode(f, i, node, weak) == [f EXCEPT !.nodes[i] = node, !.weak = weak]

\* An inode is replaced.
LEMMA NodeReplaced ==
  ASSUME NEW f \in FileSystem, NEW i \in Inode, NEW node \in INode, NEW weak \in SUBSET Inode,
         NEW g, g = WithNode(f, i, node, weak)
  PROVE  /\ g \in FileSystem
         /\ g.used = f.used /\ g.inodes = f.inodes /\ g.dirs = f.dirs /\ g.fd = f.fd
         /\ g.current = f.current /\ g.group = f.group /\ g.weak = weak
         /\ g.nodes[i] = node /\ \A e \in Inode : e # i => g.nodes[e] = f.nodes[e]
<1>. DEFINE nodes == [f.nodes EXCEPT ![i] = node]
<1>1. /\ nodes \in [Inode -> INode] /\ nodes[i] = node
      /\ \A e \in Inode : e # i => nodes[e] = f.nodes[e]
  BY Fields
<1>2. g = [f EXCEPT !.nodes = nodes, !.weak = weak]
  BY DEF WithNode
<1>. HIDE DEF nodes
<1>3. g \in FileSystem /\ g.nodes = nodes /\ g.weak = weak
  BY <1>1, <1>2 DEF FileSystem
<1>4. /\ g.used = f.used /\ g.inodes = f.inodes /\ g.dirs = f.dirs /\ g.fd = f.fd
      /\ g.current = f.current /\ g.group = f.group
  BY <1>2 DEF FileSystem
<1>. QED  BY <1>1, <1>3, <1>4

\* The entries of a file system whose inodes change in all but the type of their entry.
LEMMA EntriesSame ==
  ASSUME NEW f, Sound(f), NEW g \in FileSystem, BlocksSound(g), g.inodes = f.inodes,
         g.dirs = f.dirs, \A e \in Inode : Dir(g, e) <=> Dir(f, e),
         \A e \in Inode : EntryType(g.nodes[e].id) = EntryType(f.nodes[e].id)
  PROVE  Sound(g) /\ AllKept(f, g)
<1>0. f \in FileSystem /\ DirsSound(f) /\ EntriesSound(f) /\ 1 \in Inode
  BY FdNumbers DEF Sound
<1>1. \A e, s : Held(g, e, s) <=> Held(f, e, s)
  BY DEF Held
<1>2. DirsSound(g)
  BY <1>0, <1>1 DEF DirsSound
<1>3. EntriesSound(g)
  BY <1>0, <1>1, FewerEntries
<1>4. AllKept(f, g)
  BY DEF AllKept
<1>. QED  BY <1>2, <1>3, <1>4 DEF Sound

\* A write, to an inode that shares no block.
LEMMA WriteSound ==
  ASSUME NEW f, Sound(f), NEW i \in Inode, Apart(f, i), NEW n \in Nat, NEW users \in Seq(User),
         NEW g, g = write_inode(f, i, n, users)
  PROVE  /\ Sound(g) /\ AllKept(f, g) /\ Apart(g, i)
         /\ g.inodes = f.inodes /\ g.dirs = f.dirs /\ g.fd = f.fd
         /\ g.current = f.current /\ g.group = f.group
         /\ \A e \in Inode : Dir(g, e) <=> Dir(f, e)
<1>. DEFINE node == f.nodes[i]
            required == (node.size + n) \div BLOCK_SIZE + 1
            grows == required > node.quant
            at == IF grows THEN FreeRun(f, required) ELSE node.first
            q == IF grows THEN required ELSE node.quant
            k == IF grows THEN TakeBlocks(f, at, q) ELSE f
            h == free_used_blocks(k, node.first, node.quant)
            new == [node EXCEPT !.first = at, !.quant = q, !.size = node.size + n, !.users = users]
            weak == IF \/ (at .. at + q - 1) \cap Blocks(f, i) # {}
                       \/ at + q > BITMAP_SIZE
                    THEN f.weak \cup {i} ELSE f.weak \ {i}
<1>0. /\ f \in FileSystem /\ BlocksSound(f)
      /\ BITMAP_SIZE \in Nat /\ HEADER_BLOCKS \in Nat /\ BLOCK_SIZE \in Nat \ {0}
  BY FsConstants DEF Sound
<1>1. /\ node \in INode /\ node.first \in Int /\ node.quant \in Nat /\ node.size \in Nat
      /\ f.used \in SUBSET Int /\ f.weak \in SUBSET Inode
  BY <1>0, Fields, Numbers
<1>2. required \in Nat \ {0}
  <2>1. node.size + n \in Nat
    BY <1>1
  <2>2. (node.size + n) \div BLOCK_SIZE \in Nat
    BY <1>0, <2>1
  <2>. QED  BY <2>2
<1>3. CASE at = -1
  <2>1. g = f
    BY <1>3 DEF write_inode
  <2>2. AllKept(f, f)
    BY DEF AllKept
  <2>. QED  BY <2>1, <2>2
<1>4. CASE at # -1
  <2>0. Blocks(f, i) = node.first .. node.first + node.quant - 1
    BY DEF Blocks
  <2>. HIDE DEF required, node
  <2>1. /\ q \in Nat \ {0} /\ at \in Int
        /\ grows => /\ at >= HEADER_BLOCKS
                    /\ \A b \in at .. at + q - 1 : b < BITMAP_SIZE => b \notin f.used
        /\ ~grows => at = node.first /\ q = node.quant
    <3>1. CASE grows
      <4>1. at = FreeRun(f, required) /\ q = required
        BY <3>1
      <4>2. 0 .. HEADER_BLOCKS - 1 \subseteq f.used
        BY <1>0 DEF BlocksSound
      <4>. HIDE DEF at
      <4>. QED  BY <1>1, <1>2, <1>4, <3>1, <4>1, <4>2, FreeRunFree
    <3>2. CASE ~grows
      <4>1. at = node.first /\ q = node.quant /\ ~(required > node.quant)
        BY <3>2
      <4>. QED  BY <1>1, <1>2, <3>2, <4>1
    <3>. QED  BY <3>1, <3>2
  <2>2. /\ k \in FileSystem
        /\ \A b : b \in k.used <=> b \in f.used \/ (grows /\ b \in at .. at + q - 1)
        /\ k.inodes = f.inodes /\ k.nodes = f.nodes /\ k.dirs = f.dirs /\ k.fd = f.fd
        /\ k.current = f.current /\ k.group = f.group /\ k.weak = f.weak
    <3>1. CASE grows
      <4>1. k = TakeBlocks(f, at, q) /\ q \in Nat /\ at \in Int /\ f \in FileSystem
        BY <1>0, <2>1, <3>1
      <4>. HIDE DEF k, at, q, grows
      <4>2. /\ k \in FileSystem
            /\ \A b : b \in k.used <=> b \in f.used \/ (at # -1 /\ b \in at .. at + q - 1)
            /\ k.inodes = f.inodes /\ k.nodes = f.nodes /\ k.dirs = f.dirs /\ k.fd = f.fd
            /\ k.current = f.current /\ k.group = f.group /\ k.weak = f.weak
        BY <4>1, Takes
      <4>. QED  BY <1>4, <3>1, <4>2
    <3>2. CASE ~grows
      <4>1. k = f
        BY <3>2
      <4>. HIDE DEF k, at, q, grows
      <4>. QED  BY <1>0, <3>2, <4>1
    <3>. QED  BY <3>1, <3>2
  <2>3. h = free_used_blocks(k, node.first, node.quant)
    OBVIOUS
  <2>4. g = WithNode(h, i, new, weak)
    <3>1. h.weak = f.weak
      <4>. HIDE DEF h, k
      <4>. QED  BY <1>1, <2>2, <2>3, Frees
    <3>2. g = WithNode(h, i, new, IF \/ (at .. at + q - 1) \cap Blocks(f, i) # {}
                                     \/ at + q > BITMAP_SIZE
                                  THEN h.weak \cup {i} ELSE h.weak \ {i})
      BY <1>4 DEF write_inode, WithNode, node, required
    <3>. QED  BY <3>1, <3>2
  <2>. HIDE DEF k, h
  <2>5. /\ h \in FileSystem
        /\ \A b : b \in h.used <=> b \in k.used /\ b \notin Blocks(f, i)
        /\ h.inodes = k.inodes /\ h.nodes = k.nodes /\ h.dirs = k.dirs /\ h.fd = k.fd
        /\ h.current = k.current /\ h.group = k.group /\ h.weak = k.weak
    <3>1. /\ h \in FileSystem
          /\ \A b : b \in h.used <=> b \in k.used /\ b \notin node.first .. node.first + node.quant - 1
          /\ h.inodes = k.inodes /\ h.nodes = k.nodes /\ h.dirs = k.dirs /\ h.fd = k.fd
          /\ h.current = k.current /\ h.group = k.group /\ h.weak = k.weak
      BY <1>1, <2>2, <2>3, Frees
    <3>. QED  BY <2>0, <3>1
  <2>6. /\ new \in INode /\ new.first = at /\ new.quant = q /\ new.id = node.id
        /\ weak \in SUBSET Inode
        /\ \A e \in Inode : e # i => (e \in weak <=> e \in f.weak)
    <3>1. weak \in SUBSET Inode /\ \A e \in Inode : e # i => (e \in weak <=> e \in f.weak)
      BY <1>1
    <3>2. new \in INode /\ new.first = at /\ new.quant = q /\ new.id = node.id
      <4>. DEFINE size == node.size + n
      <4>1. size \in Nat /\ at \in Int /\ q \in Nat
        BY <1>1, <2>1
      <4>2. new = [node EXCEPT !.first = at, !.quant = q, !.size = size, !.users = users]
        OBVIOUS
      <4>. HIDE DEF at, q, size, new
      <4>. QED  BY <1>1, <4>1, <4>2 DEF INode
    <3>. QED  BY <3>1, <3>2
  <2>7. \/ i \in weak
        \/ /\ \A b \in at .. at + q - 1 : b \notin Blocks(f, i)
           /\ ~(at + q > BITMAP_SIZE)
    OBVIOUS
  <2>. HIDE DEF new, weak, grows, at, q
  <2>8. /\ g \in FileSystem
        /\ g.used = h.used /\ g.inodes = f.inodes /\ g.dirs = f.dirs /\ g.fd = f.fd
        /\ g.current = f.current /\ g.group = f.group /\ g.weak = weak
        /\ g.nodes[i] = new /\ \A e \in Inode : e # i => g.nodes[e] = f.nodes[e]
    <3>1. /\ g \in FileSystem
          /\ g.used = h.used /\ g.inodes = h.inodes /\ g.dirs = h.dirs /\ g.fd = h.fd
          /\ g.current = h.current /\ g.group = h.group /\ g.weak = weak
          /\ g.nodes[i] = new /\ \A e \in Inode : e # i => g.nodes[e] = h.nodes[e]
      BY <2>4, <2>5, <2>6, NodeReplaced
    <3>. QED  BY <2>2, <2>5, <3>1
  <2>9. Blocks(g, i) = at .. at + q - 1
    BY <2>6, <2>8 DEF Blocks
  <2>10. \/ i \in g.weak
         \/ \A b \in Blocks(g, i) : /\ b \in g.used /\ b >= HEADER_BLOCKS /\ b < BITMAP_SIZE
                                    /\ b \notin f.used
    <3>1. CASE i \in weak
      BY <2>8, <3>1
    <3>2. CASE /\ \A b \in at .. at + q - 1 : b \notin Blocks(f, i)
               /\ ~(at + q > BITMAP_SIZE)
      <4>1. at \in at .. at + q - 1
        BY <2>1
      <4>2. grows
        BY <2>0, <2>1, <3>2, <4>1
      <4>3. ASSUME NEW b \in at .. at + q - 1
            PROVE  /\ b \in g.used /\ b >= HEADER_BLOCKS /\ b < BITMAP_SIZE
                   /\ b \notin f.used
        <5>1. b \in Int /\ b >= HEADER_BLOCKS /\ b < BITMAP_SIZE
          BY <1>0, <2>1, <3>2, <4>2
        <5>2. b \notin f.used
          BY <2>1, <4>2, <5>1
        <5>3. b \in g.used
          BY <2>2, <2>5, <2>8, <3>2, <4>2
        <5>. QED  BY <5>1, <5>2, <5>3
      <4>. QED  BY <2>9, <4>3
    <3>. QED  BY <2>7, <3>1, <3>2
  <2>11. BlocksSound(g) /\ \A b : Foreign(g, i, b) <=> Foreign(f, i, b)
    <3>. DEFINE freed == Blocks(f, i)
    <3>1. \A b \in freed : ~Foreign(f, i, b)
      BY DEF Apart
    <3>2. \A b \in f.used : b \in freed \/ b \in g.used
      BY <2>2, <2>5, <2>8
    <3>3. \A e \in Inode : e # i => (e \in g.weak <=> e \in f.weak)
      BY <2>6, <2>8
    <3>. HIDE DEF freed
    <3>. QED  BY <1>0, <2>8, <2>10, <3>1, <3>2, <3>3, BlocksMoved
  <2>12. Apart(g, i)
    <3>1. SUFFICES ASSUME NEW b \in at .. at + q - 1, Foreign(f, i, b) PROVE FALSE
      BY <2>9, <2>11 DEF Apart
    <3>2. b \in f.used /\ b < BITMAP_SIZE
      BY <1>0, <3>1, ForeignUsed
    <3>3. ~grows
      BY <2>1, <3>2
    <3>4. b \in Blocks(f, i)
      BY <2>0, <2>1, <3>3
    <3>. QED  BY <3>1, <3>4 DEF Apart
  <2>13. \A e \in Inode : Dir(g, e) <=> Dir(f, e)
    BY <2>6, <2>8 DEF Dir, node
  <2>15. \A e \in Inode : g.nodes[e].id = f.nodes[e].id
    BY <2>6, <2>8 DEF node
  <2>14. Sound(g) /\ AllKept(f, g)
    BY <2>8, <2>11, <2>13, <2>15, EntriesSame
  <2>. QED  BY <2>8, <2>12, <2>13, <2>14
<1>. QED  BY <1>3, <1>4

\* One turn of each of the loops of the file system, from what the last one left.
Turn(loop, a, n, w) ==
  CASE loop = "parser_path" -> Follow(a[1], a[2], n, w)
    [] loop = "makeDir" -> MakeOne(a[n], w)
    [] loop = "bytefile" -> do_write(w, a, BLOCK_SIZE)
    [] loop = "children" -> RemoveChild(a[1], a[2], a[3], a[4], n, w)
    [] OTHER -> RemoveWith(a, w)

\* The function w is M turns of a loop, from x on.
TurnsOf(w, loop, a, x, M) ==
  w = [i \in 0 .. M |-> IF i = 0 THEN x ELSE Turn(loop, a, i, w[i - 1])]

\* A loop runs: by induction over its turns.
LEMMA LoopRuns ==
  ASSUME NEW loop, NEW a, NEW x, NEW M \in Nat
  PROVE  \E w : TurnsOf(w, loop, a, x, M)
<1>. DEFINE Solves(w, N) == w = [i \in 0 .. N |-> IF i = 0 THEN x ELSE Turn(loop, a, i, w[i - 1])]
            ran == {N \in Nat : \E w : Solves(w, N)}
<1>1. 0 \in ran
  <2>1. Solves([i \in 0 .. 0 |-> x], 0)
    OBVIOUS
  <2>. QED  BY <2>1
<1>2. ASSUME NEW N \in Nat, N \in ran PROVE N + 1 \in ran
  <2>1. PICK w : Solves(w, N)
    BY <1>2
  <2>. DEFINE last == Turn(loop, a, N + 1, w[N])
              g == [i \in 0 .. N + 1 |-> IF i <= N THEN w[i] ELSE last]
  <2>2. ASSUME NEW i \in 0 .. N + 1
        PROVE  g[i] = IF i = 0 THEN x ELSE Turn(loop, a, i, g[i - 1])
    <3>1. CASE i = 0
      <4>1. w[0] = x
        BY <2>1
      <4>. QED  BY <3>1, <4>1
    <3>2. CASE i \in 1 .. N
      <4>1. i \in 0 .. N /\ i - 1 \in 0 .. N /\ i - 1 \in 0 .. N + 1 /\ i <= N /\ i - 1 <= N /\ i # 0
        BY <3>2
      <4>2. w[i] = Turn(loop, a, i, w[i - 1])
        BY <2>1, <4>1
      <4>3. g[i] = w[i] /\ g[i - 1] = w[i - 1]
        BY <4>1
      <4>. QED  BY <4>1, <4>2, <4>3
    <3>3. CASE i = N + 1
      <4>1. i # 0 /\ ~(i <= N) /\ i - 1 = N /\ N \in 0 .. N + 1 /\ N <= N
        BY <3>3
      <4>2. g[i] = last /\ g[N] = w[N]
        BY <4>1
      <4>. QED  BY <3>3, <4>1, <4>2
    <3>. QED  BY <3>1, <3>2, <3>3
  <2>3. g = [i \in 0 .. N + 1 |-> IF i = 0 THEN x ELSE Turn(loop, a, i, g[i - 1])]
    BY <2>2
  <2>4. Solves(g, N + 1)
    BY <2>3
  <2>5. \E h : Solves(h, N + 1)
    BY <2>4
  <2>. HIDE DEF Solves
  <2>. QED  BY <2>5
<1>3. M \in ran
  <2>1. \A i \in 0 .. M - 1 : i \in ran => i + 1 \in ran
    BY <1>2
  <2>2. M \in 0 .. M
    OBVIOUS
  <2>. HIDE DEF ran
  <2>. QED  BY <1>1, <2>1, <2>2, UpTo
<1>. QED  BY <1>3 DEF TurnsOf

\* The loop of parser_path.
LEMMA WalkRuns ==
  ASSUME NEW f, NEW path, Len(path.parts) \in Nat
  PROVE  /\ Walk(f, path)[0] = [at |-> IF path.root THEN 1 ELSE f.current, buffer |-> <<>>, ok |-> TRUE]
         /\ \A n \in 1 .. Len(path.parts) :
              Walk(f, path)[n] = Follow(f, path.parts, n, Walk(f, path)[n - 1])
<1>. DEFINE N == Len(path.parts)
            x == [at |-> IF path.root THEN 1 ELSE f.current, buffer |-> <<>>, ok |-> TRUE]
            a == <<f, path.parts>>
            Is(w) == w = [n \in 0 .. N |-> IF n = 0 THEN x ELSE Follow(f, path.parts, n, w[n - 1])]
<1>1. \A n, v : Turn("parser_path", a, n, v) = Follow(f, path.parts, n, v)
  BY DEF Turn
<1>. HIDE DEF a, x, N
<1>2. PICK w : TurnsOf(w, "parser_path", a, x, N)
  <2>1. N \in Nat
    BY DEF N
  <2>. QED  BY <2>1, LoopRuns
<1>3. Is(w)
  BY <1>1, <1>2 DEF TurnsOf
<1>4. Walk(f, path) = CHOOSE v : Is(v)
  BY DEF Walk, N, x
<1>5. Is(Walk(f, path))
  BY <1>3, <1>4
<1>6. \A n \in 1 .. N : n \in 0 .. N /\ n # 0
  BY DEF N
<1>7. 0 \in 0 .. N
  BY DEF N
<1>. QED  BY <1>5, <1>6, <1>7 DEF N, x

\* The loop of makeDir.
LEMMA MadeRuns ==
  ASSUME NEW f, NEW parts, Len(parts) \in Nat
  PROVE  /\ Made(f, parts)[0] = [fs |-> f, at |-> f.current]
         /\ \A n \in 1 .. Len(parts) : Made(f, parts)[n] = MakeOne(parts[n], Made(f, parts)[n - 1])
<1>. DEFINE N == Len(parts)
            x == [fs |-> f, at |-> f.current]
            Is(w) == w = [k \in 0 .. N |-> IF k = 0 THEN x ELSE MakeOne(parts[k], w[k - 1])]
<1>1. \A n, v : Turn("makeDir", parts, n, v) = MakeOne(parts[n], v)
  BY DEF Turn
<1>. HIDE DEF x, N
<1>2. PICK w : TurnsOf(w, "makeDir", parts, x, N)
  <2>1. N \in Nat
    BY DEF N
  <2>. QED  BY <2>1, LoopRuns
<1>3. Is(w)
  BY <1>1, <1>2 DEF TurnsOf
<1>4. Made(f, parts) = CHOOSE v : Is(v)
  BY DEF Made, N, x
<1>5. Is(Made(f, parts))
  BY <1>3, <1>4
<1>6. \A n \in 1 .. N : n \in 0 .. N /\ n # 0
  BY DEF N
<1>7. 0 \in 0 .. N
  BY DEF N
<1>. QED  BY <1>5, <1>6, <1>7 DEF N, x

\* The loop of create_n_bytes.
LEMMA WrittenRuns ==
  ASSUME NEW f, NEW fd
  PROVE  \E w : /\ w[0] = f
                /\ \A n \in 1 .. CANT : w[n] = do_write(w[n - 1], fd, BLOCK_SIZE)
                /\ Written(f, fd) = w[CANT]
<1>. DEFINE Is(w) == w = [k \in 0 .. CANT |-> IF k = 0 THEN f ELSE do_write(w[k - 1], fd, BLOCK_SIZE)]
<1>0. CANT \in Nat
  BY FsConstants
<1>1. \A n, v : Turn("bytefile", fd, n, v) = do_write(v, fd, BLOCK_SIZE)
  BY DEF Turn
<1>2. PICK w : TurnsOf(w, "bytefile", fd, f, CANT)
  BY <1>0, LoopRuns
<1>3. Is(w)
  BY <1>1, <1>2 DEF TurnsOf
<1>. DEFINE v == CHOOSE u : Is(u)
<1>4. Written(f, fd) = v[CANT]
  BY DEF Written
<1>5. Is(v)
  BY <1>3
<1>. HIDE DEF v
<1>6. /\ \A n \in 1 .. CANT : n \in 0 .. CANT /\ n # 0
      /\ 0 \in 0 .. CANT
  BY <1>0
<1>. QED  BY <1>4, <1>5, <1>6

\* The loop of recursive_remove.
LEMMA ChildrenRun ==
  ASSUME NEW f, NEW remove, NEW gone, NEW d
  PROVE  \E w : /\ w[0] = [gone |-> gone, ret |-> FALSE]
                /\ \A s \in 1 .. SLOTS - 1 : w[s] = RemoveChild(f, remove, gone, d, s, w[s - 1])
                /\ RemoveChildren(f, remove, gone, d) = w[SLOTS - 1]
<1>. DEFINE N == SLOTS - 1
            x == [gone |-> gone, ret |-> FALSE]
            a == <<f, remove, gone, d>>
            Is(w) == w = [s \in 0 .. N |-> IF s = 0 THEN x
                                           ELSE RemoveChild(f, remove, gone, d, s, w[s - 1])]
<1>0. N \in Nat
  BY FsConstants
<1>1. \A n, v : Turn("children", a, n, v) = RemoveChild(f, remove, gone, d, n, v)
  BY DEF Turn
<1>. HIDE DEF a, x, N
<1>2. PICK w : TurnsOf(w, "children", a, x, N)
  BY <1>0, LoopRuns
<1>3. Is(w)
  BY <1>1, <1>2 DEF TurnsOf
<1>. DEFINE v == CHOOSE u : Is(u)
<1>4. RemoveChildren(f, remove, gone, d) = v[N]
  BY DEF RemoveChildren, N, x, Slot
<1>5. Is(v)
  BY <1>3
<1>. HIDE DEF v
<1>6. /\ \A n \in 1 .. N : n \in 0 .. N /\ n # 0
      /\ 0 \in 0 .. N
  BY <1>0
<1>. QED  BY <1>4, <1>5, <1>6 DEF N, x

\* The calls of recursive_remove inside each other.
LEMMA RemovalRuns ==
  ASSUME NEW f
  PROVE  /\ Removal(f)[0] = [t \in (SUBSET (Inode \X Slot)) \X Inode |->
                               [gone |-> t[1], ret |-> Refused(f, t[2])]]
         /\ \A n \in 1 .. MaxInodes : Removal(f)[n] = RemoveWith(f, Removal(f)[n - 1])
<1>. DEFINE x == [t \in (SUBSET (Inode \X Slot)) \X Inode |-> [gone |-> t[1], ret |-> Refused(f, t[2])]]
            Is(w) == w = [n \in 0 .. MaxInodes |-> IF n = 0 THEN x ELSE RemoveWith(f, w[n - 1])]
<1>0. MaxInodes \in Nat
  BY FsConstants
<1>1. \A n, v : Turn("removal", f, n, v) = RemoveWith(f, v)
  BY DEF Turn
<1>. HIDE DEF x
<1>2. PICK w : TurnsOf(w, "removal", f, x, MaxInodes)
  BY <1>0, LoopRuns
<1>3. Is(w)
  BY <1>1, <1>2 DEF TurnsOf
<1>4. Removal(f) = CHOOSE v : Is(v)
  BY DEF Removal, x
<1>5. Is(Removal(f))
  BY <1>3, <1>4
<1>6. /\ \A n \in 1 .. MaxInodes : n \in 0 .. MaxInodes /\ n # 0
      /\ 0 \in 0 .. MaxInodes
  BY <1>0
<1>. QED  BY <1>5, <1>6 DEF x

Places == Inode \X Slot

\* The places of the entries behind the first two whose inodes are not refused.
Removable(f) == {c \in Inode \X Sl : ~Refused(f, f.dirs[c[1]][c[2]].inode)}

\* r clears more entries than those of `gone', and only such that may be; when it says
\* that all went well the inode i is not refused.
ClearsMore(f, gone, i, r) ==
  /\ r.gone \in SUBSET Places /\ r.gone \subseteq gone \cup Removable(f)
  /\ r.ret \in BOOLEAN /\ (~r.ret => ~Refused(f, i))

\* All the calls of recursive_remove do.
AllClear(f, remove) ==
  \A gone \in SUBSET Places, i \in Inode : ClearsMore(f, gone, i, remove[<<gone, i>>])

\* The loop over the children of a directory.
LEMMA ChildrenClear ==
  ASSUME NEW f \in FileSystem, NEW remove, AllClear(f, remove),
         NEW gone \in SUBSET Places, NEW d \in Inode, NEW r, r = RemoveChildren(f, remove, gone, d)
  PROVE  /\ r.gone \in SUBSET Places /\ r.gone \subseteq gone \cup Removable(f)
         /\ r.ret \in BOOLEAN
<1>1. PICK w : /\ w[0] = [gone |-> gone, ret |-> FALSE]
               /\ \A s \in 1 .. SLOTS - 1 : w[s] = RemoveChild(f, remove, gone, d, s, w[s - 1])
               /\ RemoveChildren(f, remove, gone, d) = w[SLOTS - 1]
  BY ChildrenRun
<1>. DEFINE Fine(v) == /\ v.gone \in SUBSET Places /\ v.gone \subseteq gone \cup Removable(f)
                       /\ v.ret \in BOOLEAN
            fine == {s \in 0 .. SLOTS - 1 : Fine(w[s])}
<1>2. SLOTS \in Nat /\ SLOTS - 1 \in Nat /\ 0 \in 0 .. SLOTS - 1 /\ SLOTS - 1 \in 0 .. SLOTS - 1
  BY FsConstants
<1>3. 0 \in fine
  <2>1. w[0].gone = gone /\ w[0].ret = FALSE
    BY <1>1
  <2>2. Fine(w[0])
    BY <2>1
  <2>. QED  BY <1>2, <2>2
<1>4. ASSUME NEW n \in 0 .. SLOTS - 1 - 1, n \in fine PROVE n + 1 \in fine
  <2>. DEFINE s == n + 1
              v == w[n]
              k == f.dirs[d][s].inode
              x == remove[<<v.gone, k>>]
              new == [gone |-> IF x.ret THEN x.gone ELSE x.gone \cup {<<d, s>>}, ret |-> x.ret]
  <2>1. s \in 1 .. SLOTS - 1 /\ s - 1 = n /\ s \in 0 .. SLOTS - 1 /\ s \in Slot
    BY <1>2 DEF Slot
  <2>2. Fine(v)
    BY <1>4
  <2>3. w[s] = IF s \notin InUse(f, gone, d) THEN v ELSE new
    <3>1. w[s] = RemoveChild(f, remove, gone, d, s, w[s - 1])
      BY <1>1, <2>1
    <3>2. w[s] = RemoveChild(f, remove, gone, d, s, v)
      BY <2>1, <3>1
    <3>. HIDE DEF v, s
    <3>. QED  BY <3>2 DEF RemoveChild
  <2>. HIDE DEF s, v
  <2>4. k \in Inode
    BY <2>1, EntryOf
  <2>. HIDE DEF k
  <2>5. ClearsMore(f, v.gone, k, x)
    BY <2>2, <2>4 DEF AllClear
  <2>. HIDE DEF x
  <2>6. CASE s \in InUse(f, gone, d)
    <3>1. s \in Sl
      BY <2>6, Slots DEF InUse
    <3>2. <<d, s>> \in Places
      BY <2>1 DEF Places
    <3>3. ~x.ret => <<d, s>> \in Removable(f)
      BY <2>5, <3>1 DEF ClearsMore, Removable, k
    <3>4. Fine(new)
      BY <2>2, <2>5, <3>2, <3>3 DEF ClearsMore
    <3>. QED  BY <2>1, <2>3, <2>6, <3>4 DEF s
  <2>7. CASE s \notin InUse(f, gone, d)
    <3>1. Fine(w[s])
      BY <2>2, <2>3, <2>7
    <3>. HIDE DEF Fine
    <3>. QED  BY <2>1, <3>1 DEF s
  <2>. QED  BY <2>6, <2>7
<1>5. \A s \in 0 .. SLOTS - 1 : s \in fine
  <2>. HIDE DEF fine
  <2>. QED  BY <1>2, <1>3, <1>4, UpTo
<1>. QED  BY <1>1, <1>2, <1>5

\* recursive_remove clears only entries that are not refused, however deep it goes.
LEMMA RemovalClears ==
  ASSUME NEW f \in FileSystem
  PROVE  AllClear(f, Removal(f)[MaxInodes])
<1>. DEFINE w == Removal(f)
            fine == {n \in 0 .. MaxInodes : AllClear(f, w[n])}
<1>0. MaxInodes \in Nat /\ 0 \in 0 .. MaxInodes /\ MaxInodes \in 0 .. MaxInodes
  BY FsConstants
<1>a. \A i \in Inode : Refused(f, i) \in BOOLEAN
  BY DEF Refused
<1>1. 0 \in fine
  <2>1. w[0] = [t \in (SUBSET Places) \X Inode |-> [gone |-> t[1], ret |-> Refused(f, t[2])]]
    BY RemovalRuns DEF Places
  <2>2. ASSUME NEW gone \in SUBSET Places, NEW i \in Inode
        PROVE  ClearsMore(f, gone, i, w[0][<<gone, i>>])
    <3>1. w[0][<<gone, i>>] = [gone |-> gone, ret |-> Refused(f, i)]
      BY <2>1
    <3>. DEFINE r == w[0][<<gone, i>>]
    <3>2. r.gone = gone /\ r.ret = Refused(f, i)
      BY <3>1
    <3>3. Refused(f, i) \in BOOLEAN
      BY <1>a
    <3>. HIDE DEF r
    <3>4. r.ret \in BOOLEAN /\ (~r.ret => ~Refused(f, i))
      BY <3>2, <3>3
    <3>5. ClearsMore(f, gone, i, r)
      BY <3>2, <3>4 DEF ClearsMore
    <3>. QED  BY <3>5 DEF r
  <2>3. AllClear(f, w[0])
    <3>. HIDE DEF w
    <3>. QED  BY <2>2 DEF AllClear
  <2>. HIDE DEF w
  <2>. QED  BY <1>0, <2>3
<1>2. ASSUME NEW n \in 0 .. MaxInodes - 1, n \in fine PROVE n + 1 \in fine
  <2>1. n + 1 \in 1 .. MaxInodes /\ n + 1 \in 0 .. MaxInodes /\ (n + 1) - 1 = n
    BY <1>0
  <2>2. w[n + 1] = RemoveWith(f, w[n])
    <3>1. w[n + 1] = RemoveWith(f, w[(n + 1) - 1])
      BY <2>1, RemovalRuns
    <3>. HIDE DEF w
    <3>. QED  BY <2>1, <3>1
  <2>3. AllClear(f, w[n])
    BY <1>2
  <2>. HIDE DEF w
  <2>4. ASSUME NEW gone \in SUBSET Places, NEW i \in Inode
        PROVE  ClearsMore(f, gone, i, RemoveWith(f, w[n])[<<gone, i>>])
    <3>1. RemoveWith(f, w[n])[<<gone, i>>] =
            IF Refused(f, i) THEN [gone |-> gone, ret |-> TRUE]
            ELSE IF f.nodes[i].id # "DIRECTORY" THEN [gone |-> gone, ret |-> FALSE]
            ELSE RemoveChildren(f, w[n], gone, i)
      BY DEF RemoveWith, Places
    <3>2. CASE Refused(f, i)
      BY <3>1, <3>2 DEF ClearsMore
    <3>3. CASE ~Refused(f, i) /\ f.nodes[i].id # "DIRECTORY"
      BY <3>1, <3>3 DEF ClearsMore
    <3>4. CASE ~Refused(f, i) /\ f.nodes[i].id = "DIRECTORY"
      <4>. DEFINE r == RemoveChildren(f, w[n], gone, i)
      <4>1. /\ r.gone \in SUBSET Places /\ r.gone \subseteq gone \cup Removable(f)
            /\ r.ret \in BOOLEAN
        BY <2>3, ChildrenClear
      <4>2. RemoveWith(f, w[n])[<<gone, i>>] = r
        BY <3>1, <3>4
      <4>. HIDE DEF r
      <4>. QED  BY <3>4, <4>1, <4>2 DEF ClearsMore
    <3>. QED  BY <3>2, <3>3, <3>4
  <2>. QED  BY <2>1, <2>2, <2>4 DEF AllClear
<1>3. \A n \in 0 .. MaxInodes : n \in fine
  <2>. HIDE DEF fine
  <2>. QED  BY <1>0, <1>1, <1>2, UpTo
<1>. QED  BY <1>0, <1>3

\* g is f with some of its entries cleared, none of them refused.
Cleared(f, g) ==
  /\ g \in FileSystem
  /\ g.used = f.used /\ g.inodes = f.inodes /\ g.nodes = f.nodes /\ g.fd = f.fd
  /\ g.current = f.current /\ g.group = f.group /\ g.weak = f.weak
  /\ \A d \in Inode, s \in Slot :
       \/ g.dirs[d][s] = f.dirs[d][s]
       \/ s \in Sl /\ ~Held(g, d, s) /\ ~Refused(f, f.dirs[d][s].inode)

\* Clearing twice is clearing.
LEMMA ClearedTwice ==
  ASSUME NEW f, NEW g, NEW h, Cleared(f, g), Cleared(g, h)
  PROVE  Cleared(f, h)
<1>1. ASSUME NEW d \in Inode, NEW s \in Slot
      PROVE  \/ h.dirs[d][s] = f.dirs[d][s]
             \/ s \in Sl /\ ~Held(h, d, s) /\ ~Refused(f, f.dirs[d][s].inode)
  <2>1. \A i : Refused(g, i) <=> Refused(f, i)
    BY DEF Cleared, Refused
  <2>2. CASE g.dirs[d][s] = f.dirs[d][s]
    BY <2>1, <2>2 DEF Cleared
  <2>3. CASE g.dirs[d][s] # f.dirs[d][s]
    <3>1. s \in Sl /\ ~Held(g, d, s) /\ ~Refused(f, f.dirs[d][s].inode)
      BY <2>3 DEF Cleared
    <3>2. ~Held(h, d, s)
      <4>1. h.dirs[d][s] = g.dirs[d][s] \/ ~Held(h, d, s)
        BY DEF Cleared
      <4>. QED  BY <3>1, <4>1 DEF Held
    <3>. QED  BY <3>1, <3>2
  <2>. QED  BY <2>2, <2>3
<1>2. /\ h \in FileSystem
      /\ h.used = f.used /\ h.inodes = f.inodes /\ h.nodes = f.nodes /\ h.fd = f.fd
      /\ h.current = f.current /\ h.group = f.group /\ h.weak = f.weak
  BY DEF Cleared
<1>. QED  BY <1>1, <1>2 DEF Cleared

\* What is left is still sound.
LEMMA ClearedSound ==
  ASSUME NEW f, Sound(f), NEW g, Cleared(f, g)
  PROVE  Sound(g)
<1>1. /\ f \in FileSystem /\ BlocksSound(f) /\ DirsSound(f) /\ EntriesSound(f)
      /\ g \in FileSystem
      /\ g.used = f.used /\ g.inodes = f.inodes /\ g.nodes = f.nodes /\ g.weak = f.weak
  BY DEF Sound, Cleared
<1>2. BlocksSound(g)
  BY <1>1 DEF BlocksSound, Owners, Blocks
<1>3. \A e : Dir(g, e) <=> Dir(f, e)
  BY <1>1 DEF Dir
<1>4. \A d \in Inode, s \in Slot : Held(g, d, s) => g.dirs[d][s] = f.dirs[d][s]
  BY DEF Cleared
<1>5. \A d \in Inode, s \in Slot : Held(g, d, s) => Held(f, d, s)
  BY <1>4 DEF Held
<1>6. \A d \in Inode : g.dirs[d][0] = f.dirs[d][0] /\ g.dirs[d][1] = f.dirs[d][1]
  BY Slots DEF Cleared
<1>7. DirsSound(g)
  <2>1. 1 \in Inode /\ Dir(g, 1)
    BY <1>1, <1>3, FdNumbers DEF DirsSound
  <2>2. ASSUME NEW e \in Inode, Dir(g, e)
        PROVE  /\ e \in 1 .. g.inodes - 1
               /\ Held(g, e, 0) /\ Held(g, e, 1) /\ g.dirs[e][1].name = DotDot
    <3>1. /\ e \in 1 .. f.inodes - 1
          /\ Held(f, e, 0) /\ Held(f, e, 1) /\ f.dirs[e][1].name = DotDot
      BY <1>1, <1>3, <2>2 DEF DirsSound
    <3>. QED  BY <1>1, <1>6, <3>1 DEF Held
  <2>3. \A e \in Inode : ~Dir(g, e) => \A s \in Slot : ~Held(g, e, s)
    BY <1>1, <1>3, <1>5 DEF DirsSound
  <2>. QED  BY <2>1, <2>2, <2>3 DEF DirsSound
<1>8. EntriesSound(g)
  <2>1. \A d \in Inode, s \in Sl : Held(g, d, s) => Held(f, d, s) /\ g.dirs[d][s] = f.dirs[d][s]
    BY <1>4, <1>5, Slots
  <2>. QED  BY <1>1, <1>3, <1>6, <2>1, FewerEntries
<1>. QED  BY <1>1, <1>2, <1>7, <1>8 DEF Sound

\* An entry that is cleared, with any name.
LEMMA ClearedEntry ==
  ASSUME NEW name \in Seq(Letter)
  PROVE  LET x == [NoEntry EXCEPT !.name = name] IN x \in DirEntry /\ x.type = "NONE"
<1>1. 0 \in Inode
  BY FdNumbers
<1>2. NoEntry \in DirEntry /\ NoEntry.type = "NONE"
  BY <1>1, FixedNames DEF NoEntry, DirEntry
<1>. QED  BY <1>2 DEF DirEntry

\* recursive_remove.
LEMMA RecursiveRemoveClears ==
  ASSUME NEW f \in FileSystem, NEW i \in Inode
  PROVE  Cleared(f, recursive_remove(f, i).fs)
<1>. DEFINE r == Removal(f)[MaxInodes][<<{}, i>>]
            kept(d, s) == IF <<d, s>> \in r.gone THEN [NoEntry EXCEPT !.name = f.dirs[d][s].name]
                          ELSE f.dirs[d][s]
            dirs == [d \in Inode |-> [s \in Slot |-> kept(d, s)]]
            g == recursive_remove(f, i).fs
<1>1. r.gone \subseteq Removable(f)
  <2>1. AllClear(f, Removal(f)[MaxInodes]) /\ {} \in SUBSET Places
    BY RemovalClears
  <2>2. ClearsMore(f, {}, i, r)
    BY <2>1 DEF AllClear
  <2>. QED  BY <2>2 DEF ClearsMore
<1>2. g = [f EXCEPT !.dirs = dirs]
  BY DEF recursive_remove
<1>. HIDE DEF r, g
<1>3. ASSUME NEW d \in Inode, NEW s \in Slot
      PROVE  /\ kept(d, s) \in DirEntry
             /\ \/ kept(d, s) = f.dirs[d][s]
                \/ /\ s \in Sl /\ kept(d, s).type = "NONE"
                   /\ ~Refused(f, f.dirs[d][s].inode)
  <2>. DEFINE x == [NoEntry EXCEPT !.name = f.dirs[d][s].name]
  <2>1. f.dirs[d][s] \in DirEntry /\ f.dirs[d][s].name \in Seq(Letter)
    BY EntryOf
  <2>2. x \in DirEntry /\ x.type = "NONE"
    BY <2>1, ClearedEntry
  <2>3. <<d, s>> \in r.gone => s \in Sl /\ ~Refused(f, f.dirs[d][s].inode)
    BY <1>1 DEF Removable
  <2>. HIDE DEF x
  <2>4. kept(d, s) = IF <<d, s>> \in r.gone THEN x ELSE f.dirs[d][s]
    BY DEF x
  <2>. HIDE DEF kept
  <2>. QED  BY <2>1, <2>2, <2>3, <2>4
<1>. HIDE DEF kept
<1>4. dirs \in [Inode -> [Slot -> DirEntry]]
  BY <1>3
<1>5. \A d \in Inode, s \in Slot : dirs[d][s] = kept(d, s)
  OBVIOUS
<1>. HIDE DEF dirs
<1>6. g \in FileSystem /\ g.dirs = dirs
  BY <1>2, <1>4 DEF FileSystem
<1>7. /\ g.used = f.used /\ g.inodes = f.inodes /\ g.nodes = f.nodes /\ g.fd = f.fd
      /\ g.current = f.current /\ g.group = f.group /\ g.weak = f.weak
  BY <1>2 DEF FileSystem
<1>8. \A d \in Inode, s \in Slot :
        \/ g.dirs[d][s] = f.dirs[d][s]
        \/ s \in Sl /\ ~Held(g, d, s) /\ ~Refused(f, f.dirs[d][s].inode)
  BY <1>3, <1>5, <1>6 DEF Held
<1>. QED  BY <1>6, <1>7, <1>8 DEF Cleared, g

\* The entry of an inode that is not refused.
LEMMA ClearEntryClears ==
  ASSUME NEW f \in FileSystem, NEW i \in Inode, ~Refused(f, i)
  PROVE  Cleared(f, ClearEntry(f, i))
<1>. DEFINE here == {s \in Slot \ {0, 1} : f.dirs[f.current][s].inode = i}
            d == f.current
            s == Min(here)
            old == f.dirs[d][s].name
            name == IF Len(old) <= 2 THEN <<>> ELSE <<NUL, NUL>> \o SubSeq(old, 3, Len(old))
            x == [NoEntry EXCEPT !.name = name]
            g == ClearEntry(f, i)
<1>1. CASE here = {}
  BY <1>1 DEF ClearEntry, Cleared
<1>2. CASE here # {}
  <2>1. s \in here
    <3>1. here \in SUBSET Nat
      BY FsConstants DEF Slot
    <3>. HIDE DEF here
    <3>. QED  BY <1>2, <3>1, MinSlot
  <2>2. s \in Slot /\ s \in Sl /\ f.dirs[d][s].inode = i /\ d \in Inode
    BY <2>1, Fields, Slots
  <2>3. g = WithEntry(f, d, s, x)
    BY <1>2 DEF ClearEntry, WithEntry
  <2>. HIDE DEF s, d, g
  <2>4. old \in Seq(Letter)
    BY <2>2, EntryOf
  <2>. HIDE DEF old
  <2>5. name \in Seq(Letter)
    <3>1. SubSeq(old, 3, Len(old)) \in Seq(Letter)
      BY <2>4
    <3>2. <<NUL, NUL>> \in Seq(Letter)
      <4>1. NUL \in Letter
        BY DEF Letter
      <4>. HIDE DEF Letter
      <4>. QED  BY <4>1
    <3>. DEFINE tail == SubSeq(old, 3, Len(old))
                nuls == <<NUL, NUL>>
    <3>3. tail \in Seq(Letter) /\ nuls \in Seq(Letter)
      BY <3>1, <3>2
    <3>. HIDE DEF tail, nuls
    <3>4. nuls \o tail \in Seq(Letter)
      BY <3>3
    <3>5. <<>> \in Seq(Letter)
      OBVIOUS
    <3>. QED  BY <3>4, <3>5 DEF tail, nuls
  <2>. HIDE DEF name
  <2>6. x \in DirEntry /\ x.type = "NONE"
    BY <2>5, ClearedEntry
  <2>. HIDE DEF x
  <2>7. /\ g \in FileSystem
        /\ g.used = f.used /\ g.inodes = f.inodes /\ g.nodes = f.nodes /\ g.fd = f.fd
        /\ g.current = f.current /\ g.group = f.group /\ g.weak = f.weak
        /\ g.dirs[d][s] = x
        /\ \A e \in Inode, t \in Slot : e # d \/ t # s => g.dirs[e][t] = f.dirs[e][t]
    BY <2>2, <2>3, <2>6, EntryReplaced
  <2>8. \A e \in Inode, t \in Slot :
          \/ g.dirs[e][t] = f.dirs[e][t]
          \/ t \in Sl /\ ~Held(g, e, t) /\ ~Refused(f, f.dirs[e][t].inode)
    BY <2>2, <2>6, <2>7 DEF Held
  <2>. QED  BY <2>7, <2>8 DEF Cleared, g
<1>. QED  BY <1>1, <1>2

\* rmDir, of what a path stands for.
LEMMA RmDirClears ==
  ASSUME NEW f \in FileSystem, NEW path, parser_path(f, path) \in Inode \cup {-1}
  PROVE  Cleared(f, rmDir(f, path))
<1>. DEFINE i == parser_path(f, path)
            r == recursive_remove(f, i)
            g == rmDir(f, path)
<1>1. g = IF i = -1 \/ Refused(f, i) THEN f
          ELSE IF f.nodes[i].id # "DIRECTORY" THEN ClearEntry(f, i)
          ELSE IF r.ret THEN r.fs ELSE ClearEntry(r.fs, i)
  BY DEF rmDir
<1>2. i \in Inode \cup {-1}
  OBVIOUS
<1>. HIDE DEF i, g
<1>3. Cleared(f, f)
  BY DEF Cleared
<1>4. i # -1 => i \in Inode
  BY <1>2
<1>5. i \in Inode => Cleared(f, r.fs)
  BY RecursiveRemoveClears
<1>. HIDE DEF r
<1>6. i \in Inode /\ ~Refused(f, i) => Cleared(f, ClearEntry(f, i))
  BY ClearEntryClears
<1>7. i \in Inode /\ ~Refused(f, i) => Cleared(f, ClearEntry(r.fs, i))
  <2>1. SUFFICES ASSUME i \in Inode, ~Refused(f, i) PROVE Cleared(f, ClearEntry(r.fs, i))
    OBVIOUS
  <2>2. Cleared(f, r.fs)
    BY <1>5, <2>1
  <2>3. r.fs \in FileSystem /\ ~Refused(r.fs, i)
    BY <2>1, <2>2 DEF Cleared, Refused
  <2>4. Cleared(r.fs, ClearEntry(r.fs, i))
    BY <2>1, <2>3, ClearEntryClears
  <2>. QED  BY <2>2, <2>4, ClearedTwice
<1>. QED  BY <1>1, <1>3, <1>4, <1>5, <1>6, <1>7 DEF g

\* A walk along components, each looked up in a directory, stays among the inodes.
LEMMA PathTyped ==
  ASSUME NEW f, Sound(f), NEW path, Len(path.parts) \in Nat,
         \A k \in 1 .. Len(path.parts) : path.parts[k] \in Seq(Letter),
         \A n \in 0 .. Len(path.parts) - 1 : Dir(f, Walk(f, path)[n].at)
  PROVE  parser_path(f, path) \in Inode \cup {-1}
<1>. DEFINE N == Len(path.parts)
            parts == path.parts
            w == Walk(f, path)
            Place == [at : Inode, buffer : Seq(Letter), ok : BOOLEAN]
            fine == {n \in 0 .. N : w[n] \in Place}
<1>0. f \in FileSystem /\ N \in Nat /\ 0 \in 0 .. N /\ N \in 0 .. N
  BY DEF Sound
<1>1. 0 \in fine
  <2>1. w[0] = [at |-> IF path.root THEN 1 ELSE f.current, buffer |-> <<>>, ok |-> TRUE]
    BY WalkRuns
  <2>2. (IF path.root THEN 1 ELSE f.current) \in Inode
    BY <1>0, FdNumbers, Fields
  <2>3. <<>> \in Seq(Letter)
    OBVIOUS
  <2>4. w[0] \in Place
    <3>. HIDE DEF w
    <3>. QED  BY <2>1, <2>2, <2>3
  <2>. HIDE DEF w, Place
  <2>. QED  BY <1>0, <2>4
<1>2. ASSUME NEW n \in 0 .. N - 1, n \in fine PROVE n + 1 \in fine
  <2>. DEFINE m == n + 1
              v == w[n]
  <2>1. m \in 1 .. N /\ m \in 0 .. N /\ m - 1 = n
    BY <1>0
  <2>2. v \in Place /\ Dir(f, v.at)
    BY <1>2
  <2>3. w[m] = Follow(f, parts, m, v)
    <3>1. w[m] = Follow(f, parts, m, w[m - 1])
      BY <2>1, WalkRuns
    <3>. HIDE DEF w, m
    <3>. QED  BY <2>1, <3>1
  <2>4. parts[m] \in Seq(Letter)
    BY <2>1
  <2>. HIDE DEF v, m
  <2>. DEFINE name == v.buffer \o parts[m]
              next == search_directory(f, name, v.at)
              up == search_directory(f, DotDot, v.at)
              ok == v.ok \/ m = Len(parts)
  <2>5. v.at \in Inode /\ name \in Seq(Letter) /\ ok \in BOOLEAN
    BY <2>2, <2>4
  <2>6. next \in Inode \cup {-1} /\ up \in Inode
    BY <1>0, <2>2, <2>5, SearchTyped, ParentFound
  <2>7. Follow(f, parts, m, v) =
          IF parts[m] = Dot THEN [v EXCEPT !.ok = ok]
          ELSE IF parts[m] = DotDot THEN [v EXCEPT !.at = up, !.ok = ok]
          ELSE IF next # -1 THEN [at |-> next, buffer |-> <<>>, ok |-> ok]
          ELSE [v EXCEPT !.buffer = name, !.ok = FALSE]
    BY DEF Follow
  <2>. HIDE DEF name, next, up, ok
  <2>8. /\ [v EXCEPT !.ok = ok] \in Place
        /\ [v EXCEPT !.at = up, !.ok = ok] \in Place
        /\ [v EXCEPT !.buffer = name, !.ok = FALSE] \in Place
    BY <2>2, <2>5, <2>6
  <2>9. next # -1 => [at |-> next, buffer |-> <<>>, ok |-> ok] \in Place
    <3>1. <<>> \in Seq(Letter)
      OBVIOUS
    <3>. QED  BY <2>5, <2>6, <3>1
  <2>10. w[m] \in Place
    <3>. HIDE DEF Place, w
    <3>. QED  BY <2>3, <2>7, <2>8, <2>9
  <2>. HIDE DEF Place, w
  <2>. QED  BY <2>1, <2>10 DEF m
<1>3. \A n \in 0 .. N : n \in fine
  <2>. HIDE DEF fine
  <2>. QED  BY <1>0, <1>1, <1>2, UpTo
<1>4. w[N] \in Place
  BY <1>0, <1>3
<1>5. parser_path(f, path) = IF w[N].ok THEN w[N].at ELSE -1
  BY DEF parser_path
<1>. HIDE DEF w
<1>. QED  BY <1>4, <1>5

\* One component, in the current directory.
LEMMA HereTyped ==
  ASSUME NEW f, Sound(f), Dir(f, f.current), NEW name \in Seq(Letter)
  PROVE  parser_path(f, Here(name)) \in Inode \cup {-1}
<1>. DEFINE path == Here(name)
<1>1. path.parts = <<name>> /\ ~path.root
  BY DEF Here
<1>2. Len(path.parts) = 1 /\ path.parts[1] = name
  BY <1>1
<1>3. Walk(f, path)[0].at = f.current
  <2>1. Len(path.parts) \in Nat
    BY <1>2
  <2>2. Walk(f, path)[0] = [at |-> IF path.root THEN 1 ELSE f.current, buffer |-> <<>>, ok |-> TRUE]
    BY <2>1, WalkRuns
  <2>. QED  BY <1>1, <2>2
<1>. HIDE DEF path
<1>4. \A n \in 0 .. Len(path.parts) - 1 : Dir(f, Walk(f, path)[n].at)
  BY <1>2, <1>3
<1>5. \A k \in 1 .. Len(path.parts) : path.parts[k] \in Seq(Letter)
  BY <1>2
<1>6. Len(path.parts) \in Nat
  BY <1>2
<1>7. parser_path(f, path) \in Inode \cup {-1}
  BY <1>4, <1>5, <1>6, PathTyped
<1>. QED  BY <1>7 DEF path

\* The entries of inodes of the administrators stay, for an ordinary user.
Spares(f, g) ==
  f.group = USR => \A d \in Inode, s \in Slot :
    Held(f, d, s) /\ f.nodes[f.dirs[d][s].inode].gid = ADMIN => g.dirs[d][s] = f.dirs[d][s]

\* So they do when everything in use stays ...
LEMMA KeptSpares ==
  ASSUME NEW f, NEW g, AllKept(f, g)
  PROVE  Spares(f, g)
BY DEF AllKept, Spares

\* ... and when nothing that is refused is cleared.
LEMMA ClearedSpares ==
  ASSUME NEW f, NEW g, Cleared(f, g)
  PROVE  Spares(f, g)
<1>1. \A i : f.group = USR /\ f.nodes[i].gid = ADMIN => Refused(f, i)
  BY DEF Refused, ADMIN, USR
<1>2. \A d \in Inode, s \in Slot : g.dirs[d][s] = f.dirs[d][s] \/ ~Refused(f, f.dirs[d][s].inode)
  BY DEF Cleared
<1>. QED  BY <1>1, <1>2 DEF Spares

\* g comes from f by a command that keeps or spares what is in use.
Follows(f, g) == Sound(g) /\ Spares(f, g)

\* The file a descriptor stands for is alone on its blocks.
WriteSafe(f, fd) == search_for_fd(f, fd) = -1 \/ Apart(f, search_for_fd(f, fd))

\* Writes through a descriptor.
LEMMA FdWriteSound ==
  ASSUME NEW f, Sound(f), NEW fd, WriteSafe(f, fd), NEW n \in Nat, NEW users \in Seq(User),
         NEW g, g = LET i == search_for_fd(f, fd)
                    IN  IF i = -1 THEN f ELSE write_inode(f, i, n, users)
  PROVE  /\ Sound(g) /\ AllKept(f, g) /\ WriteSafe(g, fd) /\ g.fd = f.fd
         /\ g.inodes = f.inodes /\ g.current = f.current /\ g.group = f.group
         /\ \A e \in Inode : Dir(g, e) <=> Dir(f, e)
<1>. DEFINE i == search_for_fd(f, fd)
<1>1. i \in Inode \cup {-1}
  BY FdTyped DEF Sound
<1>2. CASE i = -1
  <2>1. g = f /\ AllKept(f, f)
    BY <1>2 DEF AllKept
  <2>. QED  BY <2>1
<1>3. CASE i # -1
  <2>1. g = write_inode(f, i, n, users) /\ i \in Inode /\ Apart(f, i)
    BY <1>1, <1>3 DEF WriteSafe
  <2>2. \A h : h.fd = f.fd => search_for_fd(h, fd) = i
    BY DEF search_for_fd
  <2>. HIDE DEF i
  <2>3. /\ Sound(g) /\ AllKept(f, g) /\ Apart(g, i)
        /\ g.inodes = f.inodes /\ g.dirs = f.dirs /\ g.fd = f.fd
        /\ g.current = f.current /\ g.group = f.group
        /\ \A e \in Inode : Dir(g, e) <=> Dir(f, e)
    BY <2>1, WriteSound
  <2>. QED  BY <2>2, <2>3 DEF WriteSafe
<1>. QED  BY <1>2, <1>3

\* g keeps what is in use in f, and its directories.
Keeps(f, g) ==
  /\ Sound(g) /\ AllKept(f, g) /\ g.current = f.current /\ g.group = f.group
  /\ \A e \in Inode : Dir(f, e) => Dir(g, e)

\* Two steps that keep what is in use.
LEMMA KeepsTwice ==
  ASSUME NEW f, NEW g, NEW h, Keeps(f, g), Keeps(g, h)
  PROVE  Keeps(f, h)
<1>1. AllKept(f, h)
  BY DEF Keeps, AllKept, Held
<1>. QED  BY <1>1 DEF Keeps

\* A change of the descriptors keeps everything.
LEMMA FdKeeps ==
  ASSUME NEW f, Sound(f), NEW g, FdOnly(f, g)
  PROVE  /\ Keeps(f, g) /\ g.inodes = f.inodes
         /\ \A i : Apart(f, i) => Apart(g, i)
<1>1. /\ g \in FileSystem /\ g.used = f.used /\ g.inodes = f.inodes /\ g.nodes = f.nodes
      /\ g.dirs = f.dirs /\ g.weak = f.weak /\ g.current = f.current /\ g.group = f.group
  BY DEF FdOnly
<1>2. /\ Sound(g) /\ AllKept(f, g)
      /\ \A i : Dir(g, i) <=> Dir(f, i)
      /\ \A i : Apart(f, i) => Apart(g, i)
  BY <1>1, SoundSame
<1>. QED  BY <1>1, <1>2 DEF Keeps

\* Nothing happens.
LEMMA KeepsSelf ==
  ASSUME NEW f, Sound(f)
  PROVE  Keeps(f, f)
BY DEF Keeps, AllKept

\* A write to an open file.
LEMMA DoWriteKeeps ==
  ASSUME NEW f, Sound(f), NEW fd, WriteSafe(f, fd), NEW n \in Nat, NEW g, g = do_write(f, fd, n)
  PROVE  Keeps(f, g) /\ WriteSafe(g, fd) /\ g.inodes = f.inodes
<1>. DEFINE i == search_for_fd(f, fd)
            users == f.nodes[i].users
<1>1. i \in Inode \cup {-1} /\ f \in FileSystem
  BY FdTyped DEF Sound
<1>2. CASE i = -1
  <2>1. g = f
    BY <1>2 DEF do_write
  <2>. QED  BY <2>1, KeepsSelf
<1>3. CASE i # -1
  <2>1. users \in Seq(User)
    BY <1>1, <1>3, Numbers
  <2>2. g = LET j == search_for_fd(f, fd)
            IN  IF j = -1 THEN f ELSE write_inode(f, j, n, users)
    BY DEF do_write
  <2>. HIDE DEF users
  <2>3. /\ Sound(g) /\ AllKept(f, g) /\ WriteSafe(g, fd)
        /\ g.inodes = f.inodes /\ g.current = f.current /\ g.group = f.group
        /\ \A e \in Inode : Dir(g, e) <=> Dir(f, e)
    BY <2>1, <2>2, FdWriteSound
  <2>. QED  BY <2>3 DEF Keeps
<1>. QED  BY <1>2, <1>3

\* The list of users is written.
LEMMA WriteUsersKeeps ==
  ASSUME NEW f, Sound(f), NEW fd, WriteSafe(f, fd), NEW users \in Seq(User),
         NEW g, g = write_users(f, fd, users)
  PROVE  Keeps(f, g) /\ WriteSafe(g, fd) /\ g.inodes = f.inodes
<1>1. USERS_SIZE \in Nat
  BY FsConstants
<1>2. g = LET j == search_for_fd(f, fd)
          IN  IF j = -1 THEN f ELSE write_inode(f, j, USERS_SIZE, users)
  BY DEF write_users
<1>3. /\ Sound(g) /\ AllKept(f, g) /\ WriteSafe(g, fd)
      /\ g.inodes = f.inodes /\ g.current = f.current /\ g.group = f.group
      /\ \A e \in Inode : Dir(g, e) <=> Dir(f, e)
  BY <1>1, <1>2, FdWriteSound
<1>. QED  BY <1>3 DEF Keeps

\* A file is made and opened: it is alone on its blocks.
LEMMA DoCreatKeeps ==
  ASSUME NEW f, Sound(f), f.inodes \in Inode, Dir(f, f.current), NEW name \in Seq(Letter),
         NEW r, r = do_creat(f, name)
  PROVE  Keeps(f, r.fs) /\ WriteSafe(r.fs, r.fd) /\ r.fs.inodes <= f.inodes + 1
<1>. DEFINE i == f.inodes
            d == f.current
            h == insert_file(f, name, d)
            o == open_fd(h, i)
<1>1. f \in FileSystem /\ d \in Inode /\ i \in Nat \ {0}
  <2>1. f \in FileSystem
    BY DEF Sound
  <2>2. d \in Inode /\ f.inodes \in 1 .. MaxInodes
    BY <2>1, Fields
  <2>3. MaxInodes \in Nat
    BY FsConstants
  <2>. QED  BY <2>1, <2>2, <2>3
<1>2. CASE search_directory(f, name, d) # -1
  <2>1. r = [fs |-> f, fd |-> -1]
    BY <1>2 DEF do_creat
  <2>2. search_for_fd(f, -1) = -1
    BY FdNumbers DEF search_for_fd
  <2>3. f.inodes <= f.inodes + 1
    BY <1>1
  <2>. QED  BY <2>1, <2>2, <2>3, KeepsSelf DEF WriteSafe
<1>3. CASE search_directory(f, name, d) = -1
  <2>1. r = o
    BY <1>3 DEF do_creat
  <2>2. h = insert_entry(fs_creat_inode(f, "FILE", 0), "FILE", f.inodes, d, name)
    BY DEF insert_file
  <2>3. "FILE" \in Kinds /\ "FILE" # "DIRECTORY"
    BY DEF Kinds
  <2>. HIDE DEF h, o, d
  <2>4. /\ Sound(h) /\ AllKept(f, h)
        /\ h.inodes = f.inodes + 1 /\ h.current = f.current /\ h.group = f.group
        /\ \A e \in Inode : Dir(f, e) => Dir(h, e)
        /\ Apart(h, f.inodes)
    <3>1. Dir(f, d)
      BY DEF d
    <3>2. /\ Sound(h) /\ AllKept(f, h)
          /\ h.inodes = f.inodes + 1 /\ h.current = f.current /\ h.group = f.group
          /\ \A e \in Inode : Dir(f, e) => Dir(h, e)
          /\ "FILE" = "FILE" => Apart(h, f.inodes)
      BY <1>1, <2>2, <2>3, <3>1, OtherInserted
    <3>. QED  BY <3>2
  <2>5. h \in FileSystem /\ i \in Inode
    BY <2>4 DEF Sound
  <2>. HIDE DEF i
  <2>6. FdOnly(h, o.fs) /\ (i # 0 => search_for_fd(o.fs, o.fd) \in {i, -1})
    BY <2>5, Opens DEF o
  <2>7. Keeps(h, o.fs) /\ o.fs.inodes = h.inodes /\ \A e : Apart(h, e) => Apart(o.fs, e)
    BY <2>4, <2>6, FdKeeps
  <2>8. Keeps(f, h)
    BY <2>4 DEF Keeps
  <2>9. Keeps(f, o.fs)
    BY <2>7, <2>8, KeepsTwice
  <2>10. WriteSafe(o.fs, o.fd)
    BY <1>1, <2>4, <2>6, <2>7 DEF WriteSafe, i
  <2>11. o.fs.inodes <= f.inodes + 1
    BY <1>1, <2>4, <2>7 DEF i
  <2>. QED  BY <2>1, <2>9, <2>10, <2>11
<1>. QED  BY <1>2, <1>3

\* A file is opened; a link is opened as the file it names.
LEMMA DoOpens ==
  ASSUME NEW f, Sound(f), NEW name, NEW r, r = do_open(f, name)
  PROVE  /\ FdOnly(f, r.fs) /\ r.fd \in Int
         /\ r.fd \in Fd => search_for_fd(r.fs, r.fd) \in Inode
<1>. DEFINE i == search_directory(f, name, f.current)
            j == IF f.nodes[i].id = "LINK" THEN f.nodes[i].link ELSE i
<1>1. f \in FileSystem /\ f.current \in Inode /\ FdOnly(f, f)
  BY Fields DEF Sound, FdOnly
<1>2. i \in Inode \cup {-1}
  BY <1>1, SearchTyped
<1>3. CASE i = -1
  <2>1. r = [fs |-> f, fd |-> -1]
    BY <1>3 DEF do_open
  <2>. QED  BY <1>1, <2>1, FdNumbers
<1>4. CASE i # -1 /\ Refused(f, i)
  <2>1. r = [fs |-> f, fd |-> -2]
    BY <1>4 DEF do_open
  <2>. QED  BY <1>1, <2>1, FdNumbers
<1>5. CASE i # -1 /\ ~Refused(f, i)
  <2>1. r = open_fd(f, j)
    BY <1>5 DEF do_open
  <2>2. i \in Inode
    BY <1>2, <1>5
  <2>. HIDE DEF i
  <2>3. j \in Inode
    BY <1>1, <2>2, Numbers
  <2>. HIDE DEF j
  <2>4. /\ FdOnly(f, r.fs) /\ r.fd \in Int
        /\ r.fd \in Fd => j # 0
        /\ j # 0 /\ r.fd \in Fd => search_for_fd(r.fs, r.fd) = j
    BY <1>1, <2>1, <2>3, Opens
  <2>. QED  BY <2>3, <2>4
<1>. QED  BY <1>3, <1>4, <1>5

\* A file of CANT blocks is written.
LEMMA WrittenKeeps ==
  ASSUME NEW f, Sound(f), NEW fd, WriteSafe(f, fd), NEW g, g = Written(f, fd)
  PROVE  Keeps(f, g)
<1>0. CANT \in Nat /\ BLOCK_SIZE \in Nat
  BY FsConstants
<1>1. PICK w : /\ w[0] = f
               /\ \A n \in 1 .. CANT : w[n] = do_write(w[n - 1], fd, BLOCK_SIZE)
               /\ Written(f, fd) = w[CANT]
  BY WrittenRuns
<1>. DEFINE fine == {n \in 0 .. CANT : Keeps(f, w[n]) /\ WriteSafe(w[n], fd)}
<1>2. 0 \in fine
  BY <1>0, <1>1, KeepsSelf
<1>3. ASSUME NEW n \in 0 .. CANT - 1, n \in fine PROVE n + 1 \in fine
  <2>. DEFINE m == n + 1
              v == w[n]
  <2>1. m \in 1 .. CANT /\ m \in 0 .. CANT /\ m - 1 = n
    BY <1>0
  <2>. HIDE DEF m
  <2>2. w[m] = do_write(v, fd, BLOCK_SIZE)
    BY <1>1, <2>1
  <2>3. Keeps(f, v) /\ WriteSafe(v, fd)
    BY <1>3
  <2>. HIDE DEF v
  <2>4. Sound(v)
    BY <2>3 DEF Keeps
  <2>5. Keeps(v, w[m]) /\ WriteSafe(w[m], fd)
    BY <1>0, <2>2, <2>3, <2>4, DoWriteKeeps
  <2>6. Keeps(f, w[m])
    BY <2>3, <2>5, KeepsTwice
  <2>7. m \in fine
    BY <2>1, <2>5, <2>6
  <2>. HIDE DEF fine
  <2>. QED  BY <2>7 DEF m
<1>4. \A n \in 0 .. CANT : n \in fine
  <2>. HIDE DEF fine
  <2>. QED  BY <1>0, <1>2, <1>3, UpTo
<1>. QED  BY <1>0, <1>1, <1>4

\* The directories of a path are made, each in one that exists.
LEMMA MadeKeeps ==
  ASSUME NEW f, Sound(f), Dir(f, f.current), NEW parts, Len(parts) \in Nat,
         f.inodes + Len(parts) <= MaxInodes,
         \A k \in 1 .. Len(parts) : parts[k] \in Seq(Letter),
         \A k \in 0 .. Len(parts) - 1 :
           Made(f, parts)[k].at # -1 /\ Dir(Made(f, parts)[k].fs, Made(f, parts)[k].at)
  PROVE  Keeps(f, Made(f, parts)[Len(parts)].fs)
<1>. DEFINE N == Len(parts)
            w == Made(f, parts)
            Fine(n) == /\ Keeps(f, w[n].fs) /\ w[n].at \in Inode \cup {-1}
                       /\ w[n].fs.inodes <= f.inodes + n
            fine == {n \in 0 .. N : Fine(n)}
<1>0. /\ f \in FileSystem /\ f.inodes \in Nat /\ MaxInodes \in Nat /\ f.current \in Inode
      /\ N \in Nat
  <2>1. f \in FileSystem /\ MaxInodes \in Nat
    BY FsConstants DEF Sound
  <2>2. f.inodes \in 1 .. MaxInodes /\ f.current \in Inode
    BY <2>1, Fields
  <2>. QED  BY <2>1, <2>2
<1>1. 0 \in fine
  <2>1. w[0] = [fs |-> f, at |-> f.current]
    BY MadeRuns
  <2>. HIDE DEF w
  <2>2. w[0].fs = f /\ w[0].at = f.current
    BY <2>1
  <2>3. f.inodes <= f.inodes + 0
    BY <1>0
  <2>4. 0 \in 0 .. N
    BY <1>0
  <2>. HIDE DEF N
  <2>. QED  BY <1>0, <2>2, <2>3, <2>4, KeepsSelf
<1>2. ASSUME NEW n \in 0 .. N - 1, n \in fine PROVE n + 1 \in fine
  <2>. DEFINE m == n + 1
              v == w[n]
              name == parts[m]
              i == search_directory(v.fs, name, v.at)
              g == insert_directory(v.fs, name, v.at)
              j == search_directory(g, name, v.at)
  <2>1. m \in 1 .. N /\ m \in 0 .. N /\ m - 1 = n /\ n \in Nat /\ m = n + 1
    BY <1>0
  <2>2. name \in Seq(Letter)
    BY <2>1
  <2>3. w[m] = MakeOne(name, v)
    <3>1. w[m] = MakeOne(parts[m], w[m - 1])
      BY <2>1, MadeRuns
    <3>. HIDE DEF w, m
    <3>. QED  BY <2>1, <3>1
  <2>4. /\ Keeps(f, v.fs) /\ v.at \in Inode \cup {-1} /\ v.fs.inodes <= f.inodes + n
        /\ v.at # -1 /\ Dir(v.fs, v.at)
    BY <1>2
  <2>. HIDE DEF v, name, m
  <2>5. Sound(v.fs) /\ v.fs \in FileSystem /\ v.at \in Inode
    BY <2>4 DEF Keeps, Sound
  <2>6. ASSUME i # -1 PROVE Fine(m)
    <3>1. w[m] = [fs |-> v.fs, at |-> i]
      BY <2>3, <2>6 DEF MakeOne
    <3>2. i \in Inode \cup {-1}
      BY <2>5, SearchTyped
    <3>. HIDE DEF i, w
    <3>3. w[m].fs = v.fs /\ w[m].at = i
      BY <3>1
    <3>4. v.fs.inodes \in Nat
      <4>1. v.fs.inodes \in 1 .. MaxInodes
        BY <2>5, Fields
      <4>. QED  BY <1>0, <4>1
    <3>5. v.fs.inodes <= f.inodes + m
      BY <1>0, <2>1, <2>4, <3>4
    <3>. QED  BY <2>4, <3>2, <3>3, <3>5
  <2>7. ASSUME i = -1 PROVE Fine(m)
    <3>1. w[m] = [fs |-> g, at |-> j]
      BY <2>3, <2>7 DEF MakeOne
    <3>2. v.fs.inodes \in Nat /\ v.fs.inodes \in Inode
      <4>1. v.fs.inodes \in 1 .. MaxInodes
        BY <2>5, Fields
      <4>2. f.inodes + N <= MaxInodes
        OBVIOUS
      <4>3. v.fs.inodes <= f.inodes + n /\ n < N /\ n \in Nat
        BY <1>0, <2>1, <2>4
      <4>. HIDE DEF N
      <4>. QED  BY <1>0, <4>1, <4>2, <4>3 DEF Inode
    <3>3. g = insert_directory(v.fs, name, v.at)
      OBVIOUS
    <3>. HIDE DEF i, w, g
    <3>4. /\ Sound(g) /\ AllKept(v.fs, g)
          /\ g.inodes = v.fs.inodes + 1 /\ g.current = v.fs.current /\ g.group = v.fs.group
          /\ \A e \in Inode : Dir(v.fs, e) => Dir(g, e)
      BY <2>2, <2>4, <2>5, <3>2, <3>3, DirectoryInserted
    <3>5. Keeps(v.fs, g)
      BY <3>4 DEF Keeps
    <3>6. Keeps(f, g)
      BY <2>4, <3>5, KeepsTwice
    <3>7. g \in FileSystem
      BY <3>4 DEF Sound
    <3>8. j \in Inode \cup {-1}
      BY <2>5, <3>7, SearchTyped
    <3>. HIDE DEF j
    <3>9. w[m].fs = g /\ w[m].at = j
      BY <3>1
    <3>10. g.inodes <= f.inodes + m
      <4>1. g.inodes = v.fs.inodes + 1 /\ v.fs.inodes <= f.inodes + n
        BY <2>4, <3>4
      <4>. QED  BY <1>0, <2>1, <3>2, <4>1
    <3>. QED  BY <3>6, <3>8, <3>9, <3>10
  <2>. HIDE DEF Fine
  <2>8. Fine(m)
    BY <2>6, <2>7
  <2>9. m \in fine
    BY <2>1, <2>8
  <2>. HIDE DEF fine
  <2>. QED  BY <2>1, <2>9
<1>3. \A n \in 0 .. N : n \in fine
  <2>. HIDE DEF fine
  <2>. QED  BY <1>0, <1>1, <1>2, UpTo
<1>4. N \in 0 .. N
  BY <1>0
<1>5. Keeps(f, w[N].fs)
  BY <1>3, <1>4
<1>. QED  BY <1>5

\* While the blocks can be trusted, no inode shares any, and the current inode is a directory.
LEMMA IntactApart ==
  ASSUME NEW f \in FileSystem, Intact(f)
  PROVE  Dir(f, f.current) /\ \A i \in Inode : Apart(f, i)
<1>1. Dir(f, f.current)
  BY DEF Intact, Dir
<1>2. ASSUME NEW i \in Inode, NEW b \in Blocks(f, i) PROVE ~Foreign(f, i, b)
  <2>1. /\ f.nodes[i].first \in Int /\ f.nodes[i].quant \in Nat
        /\ HEADER_BLOCKS \in Nat
    BY Numbers, FsConstants
  <2>2. b \in Int /\ b >= f.nodes[i].first /\ f.nodes[i].quant > 0
    BY <1>2, <2>1 DEF Blocks
  <2>3. i \in Owners(f)
    BY <2>2 DEF Owners
  <2>4. b \notin 0 .. HEADER_BLOCKS - 1
    <3>1. f.nodes[i].first >= HEADER_BLOCKS
      BY <2>3 DEF Intact
    <3>. QED  BY <2>1, <2>2, <3>1
  <2>5. ASSUME NEW j \in Owners(f) \ (f.weak \cup {i}) PROVE b \notin Blocks(f, j)
    BY <1>2, <2>3, <2>5 DEF Intact
  <2>. QED  BY <2>4, <2>5 DEF Foreign
<1>. QED  BY <1>1, <1>2 DEF Apart

\* A step that keeps what is in use, and one that clears what the user may remove.
LEMMA KeepsFollows ==
  ASSUME NEW f, NEW g, Keeps(f, g)
  PROVE  Follows(f, g)
BY KeptSpares DEF Keeps, Follows

\* The same, for a step that removes.
LEMMA ClearedFollows ==
  ASSUME NEW f, Sound(f), NEW g, Cleared(f, g)
  PROVE  Follows(f, g)
BY ClearedSound, ClearedSpares DEF Follows

WithCurrent(f, i) == [f EXCEPT !.current = i]
WithGroup(f, group) == [f EXCEPT !.group = group]

\* g differs from f in the descriptors, the current directory and the group only.
ShellOnly(f, g) ==
  /\ g \in FileSystem /\ g.used = f.used /\ g.inodes = f.inodes /\ g.nodes = f.nodes
  /\ g.dirs = f.dirs /\ g.weak = f.weak

\* The current directory changes.
LEMMA CurrentReplaced ==
  ASSUME NEW f \in FileSystem, NEW i \in Inode, NEW g, g = WithCurrent(f, i)
  PROVE  ShellOnly(f, g) /\ g.current = i /\ g.group = f.group
<1>1. g \in FileSystem /\ g.current = i
  BY DEF FileSystem, WithCurrent
<1>2. /\ g.used = f.used /\ g.inodes = f.inodes /\ g.nodes = f.nodes
      /\ g.dirs = f.dirs /\ g.weak = f.weak /\ g.group = f.group
  BY DEF FileSystem, WithCurrent
<1>. QED  BY <1>1, <1>2 DEF ShellOnly

\* The group changes.
LEMMA GroupReplaced ==
  ASSUME NEW f \in FileSystem, NEW group \in {ADMIN, USR}, NEW g, g = WithGroup(f, group)
  PROVE  ShellOnly(f, g) /\ g.current = f.current /\ g.group = group
<1>1. g \in FileSystem /\ g.group = group
  BY DEF FileSystem, WithGroup
<1>2. /\ g.used = f.used /\ g.inodes = f.inodes /\ g.nodes = f.nodes
      /\ g.dirs = f.dirs /\ g.weak = f.weak /\ g.current = f.current
  BY DEF FileSystem, WithGroup
<1>. QED  BY <1>1, <1>2 DEF ShellOnly

\* Such a change follows.
LEMMA ShellFollows ==
  ASSUME NEW f, Sound(f), NEW g, ShellOnly(f, g)
  PROVE  /\ Follows(f, g) /\ g.inodes = f.inodes /\ g.nodes = f.nodes
         /\ \A i : Apart(f, i) => Apart(g, i)
<1>1. /\ g \in FileSystem /\ g.used = f.used /\ g.inodes = f.inodes /\ g.nodes = f.nodes
      /\ g.dirs = f.dirs /\ g.weak = f.weak
  BY DEF ShellOnly
<1>2. /\ Sound(g) /\ AllKept(f, g)
      /\ \A i : Apart(f, i) => Apart(g, i)
  BY <1>1, SoundSame
<1>. QED  BY <1>1, <1>2, KeptSpares DEF Follows

\* What is typed.
LEMMA InputsTyped ==
  /\ \A n \in Name : n \in Seq(Letter)
  /\ \A p \in Path : /\ Len(p.parts) \in Nat
                     /\ \A k \in 1 .. Len(p.parts) : p.parts[k] \in Seq(Letter)
  /\ \A u \in UserName : <<u>> \in Seq(Letter)
<1>1. /\ Name \subseteq Seq(STRING) /\ UserName \subseteq STRING
      /\ Path \subseteq [root : BOOLEAN, parts : Seq(Seq(STRING))]
  BY FsAssumption
<1>2. \A n \in Name : n \in Seq(Letter)
  BY <1>1, StringsLetters
<1>3. ASSUME NEW p \in Path
      PROVE  /\ Len(p.parts) \in Nat
             /\ \A k \in 1 .. Len(p.parts) : p.parts[k] \in Seq(Letter)
  <2>1. p.parts \in Seq(Seq(STRING))
    BY <1>1
  <2>2. Len(p.parts) \in Nat /\ \A k \in 1 .. Len(p.parts) : p.parts[k] \in Seq(STRING)
    BY <2>1
  <2>. QED  BY <2>2, StringsLetters
<1>4. ASSUME NEW u \in UserName PROVE <<u>> \in Seq(Letter)
  <2>1. u \in Letter
    BY <1>1 DEF Letter
  <2>. HIDE DEF Letter
  <2>2. \A c \in Letter : <<c>> \in Seq(Letter)
    OBVIOUS
  <2>. QED  BY <2>1, <2>2
<1>. QED  BY <1>2, <1>3, <1>4

\* A command finds the file system sound, and can be trusted.
LEMMA Starts ==
  ASSUME Sound(fs), Intact(fs)
  PROVE  /\ fs \in FileSystem /\ fs.inodes \in Nat \ {0} /\ fs.current \in Inode
         /\ MaxInodes \in Nat
         /\ Dir(fs, fs.current) /\ \A i \in Inode : Apart(fs, i)
<1>1. fs \in FileSystem /\ MaxInodes \in Nat
  BY FsConstants DEF Sound
<1>2. fs.inodes \in 1 .. MaxInodes /\ fs.current \in Inode
  BY <1>1, Fields
<1>. QED  BY <1>1, <1>2, IntactApart

\* There is an inode left.
LEMMA RoomFor ==
  ASSUME Sound(fs), NEW n \in Nat \ {0}, Room(n)
  PROVE  fs.inodes \in Inode
<1>1. fs \in FileSystem /\ MaxInodes \in Nat
  BY FsConstants DEF Sound
<1>2. fs.inodes \in 1 .. MaxInodes
  BY <1>1, Fields
<1>. QED  BY <1>1, <1>2 DEF Room, Inode

\* touch.
LEMMA TouchFollows ==
  ASSUME Sound(fs), NEW name \in Name, touch(name)
  PROVE  Follows(fs, fs')
<1>. DEFINE r == do_creat(fs, name)
<1>1. Intact(fs) /\ Room(1) /\ fs' = r.fs
  BY DEF touch
<1>2. fs.inodes \in Inode /\ Dir(fs, fs.current) /\ name \in Seq(Letter)
  BY <1>1, Starts, RoomFor, InputsTyped
<1>3. Keeps(fs, r.fs)
  BY <1>2, DoCreatKeeps
<1>. HIDE DEF r
<1>. QED  BY <1>1, <1>3, KeepsFollows

\* writefile.
LEMMA WritefileFollows ==
  ASSUME Sound(fs), NEW name \in Name, NEW n \in Lengths, writefile(name, n)
  PROVE  Follows(fs, fs')
<1>. DEFINE r == do_open(fs, name)
            g == do_write(r.fs, r.fd, n)
<1>1. Intact(fs) /\ fs' = g
  BY DEF writefile, Leaves
<1>2. n \in Nat
  BY FsAssumption
<1>. HIDE DEF g
<1>3. FdOnly(fs, r.fs)
  BY DoOpens
<1>. HIDE DEF r
<1>4. Keeps(fs, r.fs) /\ \A i \in Inode : Apart(r.fs, i)
  BY <1>1, <1>3, FdKeeps, Starts
<1>5. Sound(r.fs)
  BY <1>4 DEF Keeps
<1>6. WriteSafe(r.fs, r.fd)
  <2>1. search_for_fd(r.fs, r.fd) \in Inode \cup {-1}
    BY <1>5, FdTyped DEF Sound
  <2>. QED  BY <1>4, <2>1 DEF WriteSafe
<1>7. Keeps(r.fs, g)
  BY <1>2, <1>5, <1>6, DoWriteKeeps DEF g
<1>. QED  BY <1>1, <1>4, <1>7, KeepsTwice, KeepsFollows

\* cat.
LEMMA CatFollows ==
  ASSUME Sound(fs), NEW name \in Name, cat(name)
  PROVE  Follows(fs, fs')
<1>. DEFINE r == do_open(fs, name)
<1>1. fs' = r.fs
  BY DEF cat, Leaves
<1>2. FdOnly(fs, r.fs)
  BY DoOpens
<1>. HIDE DEF r
<1>. QED  BY <1>1, <1>2, FdKeeps, KeepsFollows

\* bytefile.
LEMMA BytesFollow ==
  ASSUME Sound(fs), NEW name \in Name, create_n_bytes(name)
  PROVE  Follows(fs, fs')
<1>. DEFINE r == do_creat(fs, name)
            g == Written(r.fs, r.fd)
            h == delete_fd(g, r.fd)
<1>1. Intact(fs) /\ Room(1) /\ fs' = h
  BY DEF create_n_bytes, Leaves
<1>2. fs.inodes \in Inode /\ Dir(fs, fs.current) /\ name \in Seq(Letter)
  BY <1>1, Starts, RoomFor, InputsTyped
<1>3. Keeps(fs, r.fs) /\ WriteSafe(r.fs, r.fd)
  BY <1>2, DoCreatKeeps
<1>. HIDE DEF r
<1>4. Sound(r.fs)
  BY <1>3 DEF Keeps
<1>5. Keeps(r.fs, g)
  BY <1>3, <1>4, WrittenKeeps
<1>. HIDE DEF g
<1>6. Sound(g) /\ g \in FileSystem
  BY <1>5 DEF Keeps, Sound
<1>7. FdOnly(g, h)
  BY <1>6, Closes
<1>. HIDE DEF h
<1>8. Keeps(g, h)
  BY <1>6, <1>7, FdKeeps
<1>. QED  BY <1>1, <1>3, <1>5, <1>8, KeepsTwice, KeepsFollows

\* makedir.
LEMMA MakeDirFollows ==
  ASSUME Sound(fs), NEW parts, Len(parts) \in Nat,
         \A k \in 1 .. Len(parts) : parts[k] \in Seq(Letter), makeDir(parts)
  PROVE  Follows(fs, fs')
<1>. DEFINE g == Made(fs, parts)[Len(parts)].fs
<1>1. Intact(fs) /\ fs' = g /\ fs.inodes + Len(parts) <= MaxInodes
  BY DEF makeDir, Leaves, Room
<1>2. \A k \in 0 .. Len(parts) - 1 :
        Made(fs, parts)[k].at # -1 /\ Dir(Made(fs, parts)[k].fs, Made(fs, parts)[k].at)
  BY DEF makeDir, Dir
<1>3. Dir(fs, fs.current)
  BY <1>1, Starts
<1>4. Keeps(fs, g)
  BY <1>1, <1>2, <1>3, MadeKeeps
<1>. HIDE DEF g
<1>. QED  BY <1>1, <1>4, KeepsFollows

\* What rm names.
LEMMA WalkTyped ==
  ASSUME Sound(fs), NEW path \in Path, WalksDirectories(path)
  PROVE  parser_path(fs, path) \in Inode \cup {-1}
<1>1. /\ Len(path.parts) \in Nat
      /\ \A k \in 1 .. Len(path.parts) : path.parts[k] \in Seq(Letter)
  BY InputsTyped
<1>2. \A n \in 0 .. Len(path.parts) - 1 : Dir(fs, Walk(fs, path)[n].at)
  BY DEF WalksDirectories, Dir
<1>. QED  BY <1>1, <1>2, PathTyped

\* rm, and rm of a file of the current directory.
LEMMA RmFollows ==
  ASSUME Sound(fs),
         NEW path, path \in Path \/ \E name \in Name : path = Here(name), rm(path)
  PROVE  Follows(fs, fs')
<1>. DEFINE g == rmDir(fs, path)
<1>1. Intact(fs) /\ fs' = g /\ WalksDirectories(path)
  BY DEF rm, Leaves
<1>2. fs \in FileSystem /\ Dir(fs, fs.current)
  BY <1>1, Starts
<1>3. path \in Path => parser_path(fs, path) \in Inode \cup {-1}
  BY <1>1, WalkTyped
<1>4. \A name \in Name : parser_path(fs, Here(name)) \in Inode \cup {-1}
  BY <1>2, InputsTyped, HereTyped
<1>5. Cleared(fs, g)
  BY <1>2, <1>3, <1>4, RmDirClears
<1>. HIDE DEF g
<1>. QED  BY <1>1, <1>5, ClearedFollows

\* rmfifo, two removals.
LEMMA RmfifoFollows ==
  ASSUME Sound(fs), rmfifo
  PROVE  Follows(fs, fs')
<1>. DEFINE g == rmDir(fs, Here(fifoa))
            h == rmDir(g, Here(fifob))
<1>1. Intact(fs) /\ fs' = h
  BY DEF rmfifo, Leaves
<1>2. fs \in FileSystem /\ Dir(fs, fs.current)
  BY <1>1, Starts
<1>3. fifoa \in Seq(Letter) /\ fifob \in Seq(Letter)
  BY FixedNames
<1>4. Cleared(fs, g)
  <2>1. parser_path(fs, Here(fifoa)) \in Inode \cup {-1}
    BY <1>2, <1>3, HereTyped
  <2>. QED  BY <1>2, <2>1, RmDirClears
<1>. HIDE DEF g
<1>5. Sound(g) /\ g \in FileSystem /\ Dir(g, g.current)
  BY <1>2, <1>4, ClearedSound DEF Cleared, Dir
<1>6. Cleared(g, h)
  <2>1. parser_path(g, Here(fifob)) \in Inode \cup {-1}
    BY <1>3, <1>5, HereTyped
  <2>. QED  BY <1>5, <2>1, RmDirClears
<1>. HIDE DEF h
<1>7. Cleared(fs, h)
  BY <1>4, <1>6, ClearedTwice
<1>. QED  BY <1>1, <1>7, ClearedFollows

\* cd.
LEMMA CdFollows ==
  ASSUME Sound(fs), NEW path \in Path, cd(path)
  PROVE  Follows(fs, fs')
<1>. DEFINE i == parser_path(fs, path)
<1>1. /\ WalksDirectories(path)
      /\ fs' = fs \/ (i # -1 /\ fs' = WithCurrent(fs, i))
  <2>1. /\ WalksDirectories(path)
        /\ fs' = IF i = -1 THEN fs
                 ELSE IF (Refused(fs, i) /\ i # 1) \/ fs.nodes[i].id = "FILE" THEN fs
                 ELSE [fs EXCEPT !.current = i]
    BY DEF cd, Leaves
  <2>. HIDE DEF i
  <2>. QED  BY <2>1 DEF WithCurrent
<1>2. i \in Inode \cup {-1}
  BY <1>1, WalkTyped
<1>. HIDE DEF i
<1>3. CASE fs' = fs
  <2>1. Keeps(fs, fs')
    BY <1>3, KeepsSelf
  <2>. QED  BY <2>1, KeepsFollows
<1>4. CASE i # -1 /\ fs' = WithCurrent(fs, i)
  <2>1. i \in Inode /\ fs \in FileSystem
    BY <1>2, <1>4 DEF Sound
  <2>2. ShellOnly(fs, fs')
    BY <1>4, <2>1, CurrentReplaced
  <2>. QED  BY <2>2, ShellFollows
<1>. QED  BY <1>1, <1>3, <1>4

\* mkfifo, two insertions.
LEMMA MkfifoFollows ==
  ASSUME Sound(fs), mkfifo
  PROVE  Follows(fs, fs')
<1>. DEFINE g == insert_fifo(fs, fifoa)
            h == insert_fifo(g, fifob)
<1>1. Intact(fs) /\ Room(2) /\ fs' = h
  BY DEF mkfifo, Leaves
<1>2. /\ fs \in FileSystem /\ Dir(fs, fs.current) /\ fs.current \in Inode
      /\ fs.inodes \in Nat /\ MaxInodes \in Nat
  BY <1>1, Starts
<1>3. fs.inodes \in Inode /\ fs.inodes + 1 \in Inode
  BY <1>1, <1>2 DEF Room, Inode
<1>4. fifoa \in Seq(Letter) /\ fifob \in Seq(Letter) /\ "FIFO" \in Kinds /\ "FIFO" # "DIRECTORY"
  BY FixedNames DEF Kinds
<1>5. /\ Sound(g) /\ AllKept(fs, g)
      /\ g.inodes = fs.inodes + 1 /\ g.current = fs.current /\ g.group = fs.group
      /\ \A e \in Inode : Dir(fs, e) => Dir(g, e)
  <2>1. g = insert_entry(fs_creat_inode(fs, "FIFO", 0), "FIFO", fs.inodes, fs.current, fifoa)
    BY DEF insert_fifo
  <2>. HIDE DEF g
  <2>. QED  BY <1>2, <1>3, <1>4, <2>1, OtherInserted
<1>. HIDE DEF g
<1>6. g.inodes \in Inode /\ g.current \in Inode /\ Dir(g, g.current)
  BY <1>2, <1>3, <1>5
<1>7. /\ Sound(h) /\ AllKept(g, h)
      /\ h.current = g.current /\ h.group = g.group
      /\ \A e \in Inode : Dir(g, e) => Dir(h, e)
  <2>1. h = insert_entry(fs_creat_inode(g, "FIFO", 0), "FIFO", g.inodes, g.current, fifob)
    BY DEF insert_fifo
  <2>. HIDE DEF h
  <2>. QED  BY <1>4, <1>5, <1>6, <2>1, OtherInserted
<1>. HIDE DEF h
<1>8. Keeps(fs, g) /\ Keeps(g, h)
  BY <1>5, <1>7 DEF Keeps
<1>. QED  BY <1>1, <1>8, KeepsTwice, KeepsFollows

WithLink(f, j, i) == [f EXCEPT !.nodes[j].id = "LINK", !.nodes[j].link = i]

\* A file becomes a link.
LEMMA LinkKeeps ==
  ASSUME NEW f, Sound(f), NEW j \in Inode, f.nodes[j].id = "FILE", NEW i \in Inode,
         NEW g, g = WithLink(f, j, i)
  PROVE  Keeps(f, g)
<1>. DEFINE node == [f.nodes[j] EXCEPT !.id = "LINK", !.link = i]
            nodes == [f.nodes EXCEPT ![j] = node]
<1>0. f \in FileSystem /\ BlocksSound(f)
  BY DEF Sound
<1>1. /\ node \in INode /\ node.id = "LINK"
      /\ node.first = f.nodes[j].first /\ node.quant = f.nodes[j].quant
  <2>1. f.nodes[j] \in INode
    BY <1>0, Fields
  <2>. QED  BY <2>1 DEF INode
<1>2. f.nodes \in [Inode -> INode]
  BY <1>0, Fields
<1>3. g = [f EXCEPT !.nodes = nodes]
  BY DEF WithLink
<1>. HIDE DEF node
<1>4. /\ nodes \in [Inode -> INode] /\ nodes[j] = node
      /\ \A e \in Inode : e # j => nodes[e] = f.nodes[e]
  BY <1>1, <1>2
<1>. HIDE DEF nodes
<1>5. g \in FileSystem /\ g.nodes = nodes
  BY <1>0, <1>3, <1>4 DEF FileSystem
<1>6. /\ g.used = f.used /\ g.inodes = f.inodes /\ g.dirs = f.dirs /\ g.fd = f.fd
      /\ g.current = f.current /\ g.group = f.group /\ g.weak = f.weak
  BY <1>0, <1>3 DEF FileSystem
<1>7. \A e \in Inode : g.nodes[e].first = f.nodes[e].first /\ g.nodes[e].quant = f.nodes[e].quant
  BY <1>1, <1>4, <1>5
<1>8. BlocksSound(g)
  <2>1. Owners(g) = Owners(f)
    BY <1>7 DEF Owners
  <2>2. \A e \in Inode : Blocks(g, e) = Blocks(f, e)
    BY <1>7 DEF Blocks
  <2>3. Owners(f) \subseteq Inode
    BY DEF Owners
  <2>. QED  BY <1>0, <1>6, <2>1, <2>2, <2>3 DEF BlocksSound
<1>9. \A e \in Inode : Dir(g, e) <=> Dir(f, e)
  BY <1>1, <1>4, <1>5 DEF Dir
<1>11. \A e \in Inode : EntryType(g.nodes[e].id) = EntryType(f.nodes[e].id)
  BY <1>1, <1>4, <1>5 DEF EntryType
<1>10. Sound(g) /\ AllKept(f, g)
  BY <1>5, <1>6, <1>8, <1>9, <1>11, EntriesSame
<1>. QED  BY <1>6, <1>9, <1>10 DEF Keeps

\* ln.
LEMMA LinksFollow ==
  ASSUME Sound(fs), NEW path \in Path, NEW dir \in Name \cup {<<>>}, NEW name \in Name,
         links(path, dir, name)
  PROVE  Follows(fs, fs')
<1>. DEFINE i == parser_path(fs, path)
            d == IF dir = <<>> THEN fs.current
                 ELSE parser_path(fs, [root |-> FALSE, parts |-> <<dir>>])
            f == insert_file(fs, name, d)
            g == WithLink(f, fs.inodes, i)
<1>1. /\ Intact(fs) /\ Room(1) /\ WalksDirectories(path) /\ i # -1 /\ d # -1
      /\ Dir(fs, d)
      /\ fs' = f \/ fs' = g
  BY DEF links, Leaves, Dir, WithLink
<1>2. i \in Inode
  BY <1>1, WalkTyped
<1>. HIDE DEF i
<1>3. /\ fs \in FileSystem /\ Dir(fs, fs.current) /\ fs.current \in Inode
      /\ fs.inodes \in Inode
  BY <1>1, Starts, RoomFor
<1>4. dir \in Seq(Letter) /\ name \in Seq(Letter)
  BY InputsTyped, FixedNames
<1>5. d \in Inode
  <2>1. parser_path(fs, [root |-> FALSE, parts |-> <<dir>>]) \in Inode \cup {-1}
    <3>1. parser_path(fs, Here(dir)) \in Inode \cup {-1}
      BY <1>3, <1>4, HereTyped
    <3>. QED  BY <3>1 DEF Here
  <2>. QED  BY <1>1, <1>3, <2>1
<1>6. f = insert_entry(fs_creat_inode(fs, "FILE", 0), "FILE", fs.inodes, d, name)
  BY DEF insert_file
<1>7. "FILE" \in Kinds /\ "FILE" # "DIRECTORY"
  BY DEF Kinds
<1>. HIDE DEF d, f
<1>8. /\ Sound(f) /\ AllKept(fs, f)
      /\ f.current = fs.current /\ f.group = fs.group
      /\ \A e \in Inode : Dir(fs, e) => Dir(f, e)
      /\ f.nodes[fs.inodes].id = "FILE"
  BY <1>1, <1>3, <1>4, <1>5, <1>6, <1>7, OtherInserted
<1>9. Keeps(fs, f)
  BY <1>8 DEF Keeps
<1>10. Keeps(f, g)
  BY <1>2, <1>3, <1>8, LinkKeeps
<1>. HIDE DEF g
<1>. QED  BY <1>1, <1>9, <1>10, KeepsTwice, KeepsFollows

\* createusr, by an administrator.
LEMMA CreateusrFollows ==
  ASSUME Sound(fs), NEW name \in UserName, NEW group \in {ADMIN, USR}, createusr(name, group)
  PROVE  Follows(fs, fs')
<1>. DEFINE f1 == WithCurrent(fs, 1)
            r == do_open(f1, usersfile)
            u == search_for_fd(r.fs, r.fd)
            usr == fs.nodes[u].users
            f2 == delete_fd(r.fs, r.fd)
            removed == rmDir(f2, Here(usersfile))
            c == do_creat(removed, usersfile)
            user == [name |-> <<name>>, group |-> group]
            new == Append(usr, user)
            f3 == write_users(c.fs, c.fd, new)
            f4 == delete_fd(f3, c.fd)
            f5 == WithCurrent(f4, fs.current)
<1>1. /\ Intact(fs) /\ Room(1) /\ fs.group = ADMIN /\ r.fd \in Fd
      /\ fs' = r.fs \/ fs' = f5
  BY DEF createusr, Leaves, WithCurrent
<1>2. /\ fs \in FileSystem /\ fs.current \in Inode /\ fs.inodes \in Inode /\ 1 \in Inode
      /\ Dir(fs, 1) /\ usersfile \in Seq(Letter)
  <2>1. Dir(fs, 1) /\ 1 \in Inode /\ usersfile \in Seq(Letter)
    BY FdNumbers, FixedNames DEF Sound, DirsSound
  <2>2. fs \in FileSystem /\ fs.current \in Inode
    BY <1>1, Starts
  <2>3. fs.inodes \in Inode
    BY <1>1, RoomFor
  <2>. QED  BY <2>1, <2>2, <2>3
<1>3. Sound(f1) /\ f1.current = 1 /\ f1.nodes = fs.nodes /\ f1.inodes = fs.inodes
  <2>1. ShellOnly(fs, f1) /\ f1.current = 1
    BY <1>2, CurrentReplaced
  <2>. HIDE DEF f1
  <2>. QED  BY <2>1, ShellFollows DEF Follows
<1>. HIDE DEF f1
<1>4. FdOnly(f1, r.fs) /\ u \in Inode
  BY <1>1, <1>3, DoOpens
<1>5. usr \in Seq(User)
  <2>. HIDE DEF u
  <2>. QED  BY <1>2, <1>4, Numbers
<1>. HIDE DEF r, u, usr
<1>6. new \in Seq(User)
  <2>1. user \in User
    BY InputsTyped DEF User
  <2>. HIDE DEF user
  <2>. QED  BY <1>5, <2>1
<1>. HIDE DEF new
<1>7. /\ Sound(r.fs) /\ r.fs \in FileSystem /\ r.fs.nodes = fs.nodes /\ r.fs.current = 1
      /\ r.fs.inodes = fs.inodes
  BY <1>3, <1>4, FdKeeps DEF Keeps, FdOnly
<1>8. /\ Sound(f2) /\ f2 \in FileSystem /\ f2.nodes = fs.nodes /\ f2.current = 1
      /\ f2.inodes = fs.inodes
  <2>1. FdOnly(r.fs, f2)
    BY <1>7, Closes
  <2>. HIDE DEF f2
  <2>. QED  BY <1>7, <2>1, FdKeeps DEF Keeps, FdOnly
<1>. HIDE DEF f2
<1>9. /\ Sound(removed) /\ removed.inodes \in Inode /\ Dir(removed, removed.current)
  <2>1. Dir(f2, f2.current)
    BY <1>2, <1>8 DEF Dir
  <2>2. parser_path(f2, Here(usersfile)) \in Inode \cup {-1}
    BY <1>2, <1>8, <2>1, HereTyped
  <2>3. Cleared(f2, removed)
    BY <1>8, <2>2, RmDirClears
  <2>. HIDE DEF removed
  <2>. QED  BY <1>2, <1>8, <2>1, <2>3, ClearedSound DEF Cleared, Dir
<1>. HIDE DEF removed
<1>10. Sound(c.fs) /\ WriteSafe(c.fs, c.fd)
  BY <1>2, <1>9, DoCreatKeeps DEF Keeps
<1>. HIDE DEF c
<1>11. Sound(f3) /\ f3 \in FileSystem
  BY <1>6, <1>10, WriteUsersKeeps DEF Keeps, Sound
<1>. HIDE DEF f3
<1>12. Sound(f4) /\ f4 \in FileSystem
  <2>1. FdOnly(f3, f4)
    BY <1>11, Closes
  <2>. HIDE DEF f4
  <2>. QED  BY <1>11, <2>1, FdKeeps DEF Keeps, FdOnly
<1>. HIDE DEF f4
<1>13. Sound(f5)
  <2>1. ShellOnly(f4, f5)
    BY <1>2, <1>12, CurrentReplaced
  <2>. HIDE DEF f5
  <2>. QED  BY <1>12, <2>1, ShellFollows DEF Follows
<1>. HIDE DEF f5
<1>14. Sound(fs') /\ Spares(fs, fs')
  BY <1>1, <1>7, <1>13 DEF Spares, ADMIN, USR
<1>. QED  BY <1>14 DEF Follows

\* logUser opens the file of users.
LEMMA LogOpensFollows ==
  ASSUME Sound(fs), log_opens
  PROVE  Sound(fs')
<1>. DEFINE f1 == WithCurrent(fs, 1)
            f2 == WithGroup(f1, ADMIN)
            r == do_open(f2, usersfile)
<1>1. fs' = r.fs
  BY DEF log_opens, WithCurrent, WithGroup
<1>2. fs \in FileSystem /\ 1 \in Inode /\ ADMIN \in {ADMIN, USR}
  BY FdNumbers DEF Sound
<1>. HIDE DEF r
<1>3. Sound(f1) /\ f1 \in FileSystem
  <2>1. ShellOnly(fs, f1)
    BY <1>2, CurrentReplaced
  <2>. HIDE DEF f1
  <2>. QED  BY <2>1, ShellFollows DEF Follows, ShellOnly
<1>. HIDE DEF f1
<1>4. Sound(f2)
  <2>1. ShellOnly(f1, f2)
    BY <1>2, <1>3, GroupReplaced
  <2>. HIDE DEF f2
  <2>. QED  BY <1>3, <2>1, ShellFollows DEF Follows
<1>. HIDE DEF f2
<1>5. FdOnly(f2, r.fs)
  BY <1>4, DoOpens DEF r
<1>. QED  BY <1>1, <1>4, <1>5, FdKeeps DEF Keeps

\* A user is logged in.
LEMMA LogInFollows ==
  ASSUME Sound(fs), log_in
  PROVE  Sound(fs')
<1>. DEFINE i == search_for_fd(fs, loginFd)
            users == fs.nodes[i].users
            g == delete_fd(fs, loginFd)
<1>1. PICK k \in 1 .. Len(users) : fs' = WithGroup(g, users[k].group)
  BY DEF log_in, WithGroup
<1>2. i \in Inode /\ fs \in FileSystem
  BY FdTyped DEF log_in, Sound
<1>. HIDE DEF i
<1>3. users \in Seq(User)
  BY <1>2, Numbers
<1>. HIDE DEF users
<1>4. users[k].group \in {ADMIN, USR}
  <2>1. users[k] \in User
    BY <1>1, <1>3
  <2>. QED  BY <2>1 DEF User
<1>5. Sound(g) /\ g \in FileSystem
  <2>1. FdOnly(fs, g)
    BY <1>2, Closes
  <2>. HIDE DEF g
  <2>. QED  BY <2>1, FdKeeps DEF Keeps, FdOnly
<1>. HIDE DEF g
<1>6. ShellOnly(g, fs')
  BY <1>1, <1>4, <1>5, GroupReplaced
<1>. QED  BY <1>5, <1>6, ShellFollows DEF Follows

\* The disk before anything is on it.
LEMMA EmptyTyped ==
  /\ EmptyFs \in FileSystem /\ BlocksSound(EmptyFs)
  /\ EmptyFs.inodes = 1 /\ EmptyFs.current = 1
  /\ \A i \in Inode : ~Dir(EmptyFs, i) /\ \A s \in Slot : ~Held(EmptyFs, i, s)
<1>. DEFINE f == EmptyFs
            nodes == [i \in Inode |-> Unknown]
            dirs == [i \in Inode |-> [s \in Slot |-> NoEntry]]
            fd == [x \in Fd |-> 0]
            used == 0 .. HEADER_BLOCKS
            none == {}
<1>1. /\ 0 \in Inode /\ 1 \in Inode /\ BITMAP_SIZE \in Nat /\ HEADER_BLOCKS \in Nat
      /\ 1 \in 1 .. MaxInodes
  BY FsConstants, FdNumbers
<1>2. Unknown \in INode /\ Unknown.quant = 0 /\ Unknown.id = "UNKNOWN"
  <2>1. <<>> \in Seq(User)
    OBVIOUS
  <2>. QED  BY <1>1, <2>1 DEF Unknown, INode
<1>3. NoEntry \in DirEntry /\ NoEntry.type = "NONE"
  BY <1>1, FixedNames DEF NoEntry, DirEntry
<1>4. nodes \in [Inode -> INode] /\ \A i \in Inode : nodes[i] = Unknown
  BY <1>2
<1>5. dirs \in [Inode -> [Slot -> DirEntry]] /\ \A i \in Inode, s \in Slot : dirs[i][s] = NoEntry
  BY <1>3
<1>6. fd \in [Fd -> Inode]
  BY <1>1
<1>7. used \in SUBSET Int /\ 0 .. HEADER_BLOCKS - 1 \subseteq used
  BY <1>1
<1>8. none \in SUBSET Inode
  OBVIOUS
<1>9. f = [used |-> used, freeBlocks |-> BITMAP_SIZE, inodes |-> 1, nodes |-> nodes, dirs |-> dirs,
           fd |-> fd, current |-> 1, group |-> ADMIN, weak |-> none]
  BY DEF EmptyFs
<1>. HIDE DEF f, nodes, dirs, fd, used, none
<1>10. f \in FileSystem
  BY <1>1, <1>4, <1>5, <1>6, <1>7, <1>8, <1>9 DEF FileSystem
<1>11. f.used = used /\ f.nodes = nodes /\ f.dirs = dirs /\ f.inodes = 1 /\ f.current = 1
  BY <1>9
<1>12. Owners(f) = {}
  BY <1>2, <1>4, <1>11 DEF Owners
<1>13. BlocksSound(f)
  BY <1>7, <1>11, <1>12 DEF BlocksSound
<1>14. \A i \in Inode : ~Dir(f, i)
  BY <1>2, <1>4, <1>11 DEF Dir
<1>15. \A i \in Inode, s \in Slot : ~Held(f, i, s)
  BY <1>3, <1>5, <1>11 DEF Held
<1>. QED  BY <1>10, <1>11, <1>13, <1>14, <1>15 DEF f

\* The root is the first directory.
LEMMA RootSound ==
  Sound(init_root) /\ init_root.inodes = 2 /\ init_root.current = 1
<1>. DEFINE f == EmptyFs
            k == fs_creat_inode(f, "DIRECTORY", BLOCK_SIZE)
            row == NewDirectory(1, 1)
            g == WithRow(k, 1, row)
<1>0. 1 \in Inode /\ BLOCK_SIZE \in Nat /\ "DIRECTORY" \in Kinds /\ MaxInodes \in Nat
  BY FdNumbers, FsConstants DEF Kinds
<1>1. init_root = g
  BY DEF init_root, WithRow
<1>2. /\ f \in FileSystem /\ BlocksSound(f) /\ f.inodes = 1 /\ f.current = 1
      /\ \A i \in Inode : ~Dir(f, i) /\ \A s \in Slot : ~Held(f, i, s)
  BY EmptyTyped
<1>. HIDE DEF f, k
<1>3. /\ k \in FileSystem /\ k.inodes = f.inodes + 1 /\ k.dirs = f.dirs /\ k.current = f.current
      /\ \A i \in Inode : i # f.inodes => k.nodes[i] = f.nodes[i]
      /\ k.nodes[f.inodes].id = "DIRECTORY"
      /\ BlocksSound(k)
  BY <1>0, <1>2, Creates DEF k
<1>4. /\ row \in [Slot -> DirEntry] /\ row[0].type # "NONE" /\ row[1].type # "NONE"
      /\ row[1].name = DotDot /\ \A s \in Sl : row[s].type = "NONE"
  BY <1>0, NewDirectoryTyped
<1>. HIDE DEF row, g
<1>5. /\ g \in FileSystem
      /\ g.used = k.used /\ g.inodes = k.inodes /\ g.nodes = k.nodes /\ g.weak = k.weak
      /\ g.current = k.current
      /\ g.dirs[1] = row
      /\ \A e \in Inode : e # 1 => g.dirs[e] = k.dirs[e]
  BY <1>0, <1>3, <1>4, RowReplaced DEF g
<1>6. g.inodes = 2 /\ g.current = 1
  BY <1>2, <1>3, <1>5
<1>7. BlocksSound(g)
  BY <1>3, <1>5 DEF BlocksSound, Owners, Blocks
<1>8. Dir(g, 1) /\ \A i \in Inode : i # 1 => ~Dir(g, i)
  BY <1>2, <1>3, <1>5 DEF Dir
<1>9. \A i \in Inode, s \in Slot : i # 1 => ~Held(g, i, s)
  BY <1>2, <1>3, <1>5 DEF Held
<1>10. /\ Held(g, 1, 0) /\ Held(g, 1, 1) /\ g.dirs[1][1].name = DotDot
       /\ \A s \in Sl : ~Held(g, 1, s)
  BY <1>4, <1>5 DEF Held
<1>11. DirsSound(g)
  <2>1. 1 \in 1 .. g.inodes - 1
    BY <1>6
  <2>. QED  BY <1>8, <1>9, <1>10, <2>1 DEF DirsSound
<1>12. EntriesSound(g)
  <2>1. \A d \in Inode, s \in Sl : ~Held(g, d, s)
    BY <1>9, <1>10, Slots
  <2>. QED  BY <2>1 DEF EntriesSound
<1>. QED  BY <1>1, <1>5, <1>6, <1>7, <1>11, <1>12 DEF Sound

\* The file system a shell starts with.
LEMMA StartSound ==
  Sound(init_filesystem)
<1>. DEFINE f1 == insert_directory(init_root, usersName, 1)
            f2 == insert_directory(f1, etcName, 1)
            r == do_creat(f2, usersfile)
            users == <<[name |-> <<"chinux">>, group |-> ADMIN]>>
            f3 == write_users(r.fs, r.fd, users)
            f4 == delete_fd(f3, r.fd)
<1>0. /\ 1 \in Inode /\ 2 \in Inode /\ 3 \in Inode /\ 4 \in Inode
      /\ usersName \in Seq(Letter) /\ etcName \in Seq(Letter) /\ usersfile \in Seq(Letter)
  BY FsConstants, FixedNames DEF Inode
<1>1. init_filesystem = f4
  BY DEF init_filesystem
<1>2. Sound(init_root) /\ init_root.inodes = 2 /\ init_root.current = 1 /\ Dir(init_root, 1)
  BY RootSound DEF Sound, DirsSound
<1>3. Sound(f1) /\ f1.inodes = 3 /\ f1.current = 1 /\ Dir(f1, 1)
  <2>1. /\ Sound(f1) /\ f1.inodes = init_root.inodes + 1 /\ f1.current = init_root.current
        /\ \A e \in Inode : Dir(init_root, e) => Dir(f1, e)
    BY <1>0, <1>2, DirectoryInserted
  <2>. QED  BY <1>0, <1>2, <2>1
<1>. HIDE DEF f1
<1>4. Sound(f2) /\ f2.inodes = 4 /\ f2.current = 1 /\ Dir(f2, 1)
  <2>1. /\ Sound(f2) /\ f2.inodes = f1.inodes + 1 /\ f2.current = f1.current
        /\ \A e \in Inode : Dir(f1, e) => Dir(f2, e)
    BY <1>0, <1>3, DirectoryInserted
  <2>. QED  BY <1>0, <1>3, <2>1
<1>. HIDE DEF f2
<1>5. Sound(r.fs) /\ WriteSafe(r.fs, r.fd)
  BY <1>0, <1>4, DoCreatKeeps DEF Keeps
<1>. HIDE DEF r
<1>6. users \in Seq(User)
  <2>1. <<"chinux">> \in Seq(Letter)
    <3>1. "chinux" \in Letter
      BY DEF Letter
    <3>. HIDE DEF Letter
    <3>2. \A c \in Letter : <<c>> \in Seq(Letter)
      OBVIOUS
    <3>. QED  BY <3>1, <3>2
  <2>2. [name |-> <<"chinux">>, group |-> ADMIN] \in User
    BY <2>1 DEF User
  <2>3. \A u \in User : <<u>> \in Seq(User)
    OBVIOUS
  <2>. QED  BY <2>2, <2>3
<1>. HIDE DEF users
<1>7. Sound(f3) /\ f3 \in FileSystem
  BY <1>5, <1>6, WriteUsersKeeps DEF Keeps, Sound
<1>. HIDE DEF f3
<1>8. FdOnly(f3, f4)
  BY <1>7, Closes
<1>. HIDE DEF f4
<1>. QED  BY <1>1, <1>7, <1>8, FdKeeps DEF Keeps

\* What a step of the file system leaves, and what it spares while somebody is logged in.
FsStep == Sound(fs') /\ (usrLoged => Spares(fs, fs'))

\* The commands on files.
LEMMA FileCommandStep ==
  ASSUME Sound(fs), FileCommand
  PROVE  FsStep
<1>1. SUFFICES Follows(fs, fs')
  BY DEF Follows, FsStep
<1>2. ASSUME NEW n \in Name, touch(n) PROVE Follows(fs, fs')
  BY <1>2, TouchFollows
<1>3. ASSUME NEW n \in Name, cat(n) PROVE Follows(fs, fs')
  BY <1>3, CatFollows
<1>4. ASSUME NEW n \in Name, create_n_bytes(n) PROVE Follows(fs, fs')
  BY <1>4, BytesFollow
<1>5. ASSUME NEW n \in Name, rm(Here(n)) PROVE Follows(fs, fs')
  BY <1>5, RmFollows
<1>6. ASSUME NEW n \in Name, NEW k \in Lengths, writefile(n, k) PROVE Follows(fs, fs')
  BY <1>6, WritefileFollows
<1>7. ASSUME NEW n \in Name, NEW p \in Path, NEW d \in Name \cup {<<>>}, links(p, d, n)
      PROVE  Follows(fs, fs')
  BY <1>7, LinksFollow
<1>8. CASE mkfifo
  BY <1>8, MkfifoFollows
<1>9. CASE rmfifo
  BY <1>9, RmfifoFollows
<1>. QED  BY <1>2, <1>3, <1>4, <1>5, <1>6, <1>7, <1>8, <1>9 DEF FileCommand

\* The commands on directories.
LEMMA TreeCommandStep ==
  ASSUME Sound(fs), TreeCommand
  PROVE  FsStep
<1>1. SUFFICES Follows(fs, fs')
  BY DEF Follows, FsStep
<1>2. ASSUME NEW n \in Name, touch(n) PROVE Follows(fs, fs')
  BY <1>2, TouchFollows
<1>3. ASSUME NEW n \in Name, makeDir(<<n>>) PROVE Follows(fs, fs')
  <2>. DEFINE parts == <<n>>
  <2>1. n \in Seq(Letter)
    BY InputsTyped
  <2>2. Len(parts) \in Nat /\ \A k \in 1 .. Len(parts) : parts[k] \in Seq(Letter)
    BY <2>1
  <2>3. makeDir(parts)
    BY <1>3
  <2>. HIDE DEF parts
  <2>. QED  BY <2>2, <2>3, MakeDirFollows
<1>4. ASSUME NEW n \in Name, NEW m \in Name, makeDir(<<m, n>>) PROVE Follows(fs, fs')
  <2>. DEFINE parts == <<m, n>>
  <2>1. n \in Seq(Letter) /\ m \in Seq(Letter)
    BY InputsTyped
  <2>2. Len(parts) \in Nat /\ \A k \in 1 .. Len(parts) : parts[k] \in Seq(Letter)
    BY <2>1
  <2>3. makeDir(parts)
    BY <1>4
  <2>. HIDE DEF parts
  <2>. QED  BY <2>2, <2>3, MakeDirFollows
<1>5. ASSUME NEW p \in Path, rm(p) PROVE Follows(fs, fs')
  BY <1>5, RmFollows
<1>6. ASSUME NEW p \in Path, cd(p) PROVE Follows(fs, fs')
  BY <1>6, CdFollows
<1>. QED  BY <1>2, <1>3, <1>4, <1>5, <1>6 DEF TreeCommand

\* The users.
LEMMA UserCommandStep ==
  ASSUME Sound(fs), UserCommand
  PROVE  FsStep
<1>1. ASSUME NEW u \in UserName, NEW g \in {ADMIN, USR}, createusr(u, g) PROVE FsStep
  <2>1. Follows(fs, fs')
    BY <1>1, CreateusrFollows
  <2>. QED  BY <2>1 DEF Follows, FsStep
<1>2. CASE log_opens
  <2>1. Sound(fs') /\ ~usrLoged
    BY <1>2, LogOpensFollows DEF log_opens
  <2>. QED  BY <2>1 DEF FsStep
<1>3. CASE log_in
  <2>1. Sound(fs') /\ ~usrLoged
    BY <1>3, LogInFollows DEF log_in
  <2>. QED  BY <2>1 DEF FsStep
<1>4. CASE logout
  <2>1. fs' = fs
    BY <1>4 DEF logout
  <2>2. Keeps(fs, fs)
    BY KeepsSelf
  <2>. QED  BY <2>1, <2>2, KeepsFollows DEF Follows, FsStep
<1>. QED  BY <1>1, <1>2, <1>3, <1>4 DEF UserCommand

\* The invariant of the file system.
THEOREM FileSystemSound == Spec => []Sound(fs)
<1>1. Init => Sound(fs)
  BY StartSound DEF Init
<1>2. Sound(fs) /\ [Next]_vars => Sound(fs)'
  <2>1. SUFFICES ASSUME Sound(fs), [Next]_vars PROVE Sound(fs')
    OBVIOUS
  <2>2. CASE Next
    <3>1. FsStep
      BY <2>1, <2>2, FileCommandStep, TreeCommandStep, UserCommandStep DEF Next
    <3>. QED  BY <3>1 DEF FsStep
  <2>3. CASE UNCHANGED vars
    <3>1. fs' = fs
      BY <2>3 DEF vars
    <3>. QED  BY <2>1, <3>1
  <2>. QED  BY <2>1, <2>2, <2>3
<1>. QED  BY <1>1, <1>2, PTL DEF Spec

\* An inode that was neither rewritten in place nor cut off by the end of the disk has
\* blocks on the disk, in use, that are no other's.
THEOREM FileBlocksOwned == Spec => []BlocksOwned
<1>1. Sound(fs) => BlocksOwned
  BY DEF Sound, BlocksSound, BlocksOwned
<1>. QED  BY <1>1, FileSystemSound, PTL

\* The directories are a forest.
THEOREM FileTreeSound == Spec => []TreeSound
<1>1. ASSUME Sound(fs) PROVE TreeSound
  <2>. DEFINE Dirs == {i \in Inode : fs.nodes[i].id = "DIRECTORY"}
              entries == {e \in Dirs \X Slot : e[2] >= 2 /\ fs.dirs[e[1]][e[2]].type # "NONE"}
              node(e) == fs.dirs[e[1]][e[2]].inode
  <2>1. \A e \in entries : e[1] \in Inode /\ e[2] \in Sl /\ Held(fs, e[1], e[2])
    <3>1. \A s \in Slot : s >= 2 => s \in Sl
      BY FsConstants DEF Slot, Sl
    <3>. QED  BY <3>1 DEF Held
  <2>2. \A e, x \in entries : e[1] = x[1] /\ e[2] = x[2] => x = e
    OBVIOUS
  <2>. HIDE DEF entries
  <2>3. ASSUME NEW e \in entries
        PROVE  /\ node(e) \in e[1] + 1 .. fs.inodes - 1
               /\ fs.dirs[e[1]][e[2]].type = EntryType(fs.nodes[node(e)].id)
               /\ fs.nodes[node(e)].id = "DIRECTORY" => fs.dirs[node(e)][1].inode = e[1]
               /\ \A x \in entries : node(x) = node(e) => x[1] = e[1] /\ x[2] = e[2]
    <3>. DEFINE d == e[1]
                s == e[2]
                i == fs.dirs[d][s].inode
    <3>1. EntriesSound(fs)
      BY <1>1 DEF Sound
    <3>2. d \in Inode /\ s \in Sl /\ Held(fs, d, s) /\ node(e) = i
      BY <2>1
    <3>3. /\ i \in d + 1 .. fs.inodes - 1
          /\ fs.dirs[d][s].type = EntryType(fs.nodes[i].id)
          /\ Dir(fs, i) => fs.dirs[i][1].inode = d
          /\ \A c \in Inode, t \in Sl : Held(fs, c, t) /\ fs.dirs[c][t].inode = i => c = d /\ t = s
      <4>. HIDE DEF d, s
      <4>1. Names(fs, d, s, i)
        BY <3>1, <3>2 DEF EntriesSound
      <4>2. d \in Nat /\ fs.inodes \in Nat
        BY <1>1, <3>2, FsConstants, Fields DEF Inode, Sound
      <4>. HIDE DEF i
      <4>. QED  BY <4>1, <4>2 DEF Names
    <3>4. ASSUME NEW x \in entries, node(x) = i PROVE x[1] = d /\ x[2] = s
      <4>1. x[1] \in Inode /\ x[2] \in Sl /\ Held(fs, x[1], x[2]) /\ fs.dirs[x[1]][x[2]].inode = i
        BY <2>1, <3>4
      <4>. HIDE DEF d, s, i, node
      <4>. QED  BY <3>3, <4>1
    <3>5. fs.nodes[i].id = "DIRECTORY" => fs.dirs[i][1].inode = d
      BY <3>3 DEF Dir
    <3>. HIDE DEF d, s, node
    <3>6. /\ node(e) \in d + 1 .. fs.inodes - 1
          /\ fs.dirs[d][s].type = EntryType(fs.nodes[node(e)].id)
          /\ fs.nodes[node(e)].id = "DIRECTORY" => fs.dirs[node(e)][1].inode = d
          /\ \A x \in entries : node(x) = node(e) => x[1] = d /\ x[2] = s
      <4>1. node(e) = i
        BY <3>2
      <4>. HIDE DEF i
      <4>. QED  BY <3>3, <3>4, <3>5, <4>1
    <3>. QED  BY <3>6 DEF d, s
  <2>. HIDE DEF node
  <2>4. \A e \in entries :
          /\ node(e) \in e[1] + 1 .. fs.inodes - 1
          /\ fs.dirs[e[1]][e[2]].type = EntryType(fs.nodes[node(e)].id)
          /\ fs.nodes[node(e)].id = "DIRECTORY" => fs.dirs[node(e)][1].inode = e[1]
          /\ \A x \in entries : node(x) = node(e) => x = e
    BY <2>2, <2>3
  <2>. QED  BY <2>4, Zenon DEF TreeSound, entries, node
<1>. QED  BY <1>1, FileSystemSound, PTL

\* An ordinary user removes nothing of the administrators.
THEOREM FileProtectedKept == Spec => ProtectedKept
<1>. DEFINE Kept == usrLoged /\ fs.group = USR =>
              \A d \in Inode, s \in Slot :
                fs.dirs[d][s].type # "NONE" /\ fs.nodes[fs.dirs[d][s].inode].gid = ADMIN
                  => fs'.dirs[d][s] = fs.dirs[d][s]
<1>1. ASSUME Sound(fs), Next PROVE Kept
  <2>1. FsStep
    BY <1>1, FileCommandStep, TreeCommandStep, UserCommandStep DEF Next
  <2>. QED  BY <2>1 DEF FsStep, Spares, Held
<1>2. Sound(fs) /\ [Next]_vars => [Kept]_vars
  BY <1>1
<1>. HIDE DEF Kept
<1>3. [][Kept]_vars => ProtectedKept
  BY PTL DEF ProtectedKept, Kept
<1>. QED  BY <1>2, <1>3, FileSystemSound, PTL DEF Spec
=============================================================================
