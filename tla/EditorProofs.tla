---------------------------- MODULE EditorProofs ----------------------------
(***************************************************************************)
(* The editors' text moves, for lines and blocks of any size: byte by byte *)
(* MOVE and MOVE- do what one copy of the whole run would, as long as they *)
(* start from the right end, so what X or E cuts I puts back; and no word  *)
(* or key but R, P and U leaves the buffer, with its bytes or its cursor.  *)
(***************************************************************************)
EXTENDS Editor, WellFoundedInduction, TLAPS

-----------------------------------------------------------------------------
(* Numbers.                                                                *)

\* Numbers have no endless way down.
LEMMA LessIsWellFounded == IsWellFoundedOn({p \in Nat \X Nat : p[1] < p[2]}, Nat)
  BY NatLessThanWellFounded DEF OpToRel

\* What holds at 0 and goes on to the next number holds up to n.
LEMMA UpTo ==
  ASSUME NEW n \in Nat, NEW S, 0 \in S, \A i \in 1..n : i - 1 \in S => i \in S
  PROVE  0..n \subseteq S
<1> DEFINE R == {p \in Nat \X Nat : p[1] < p[2]}
           Bad == (0..n) \ S
<1>1. SUFFICES ASSUME Bad # {} PROVE FALSE
  OBVIOUS
<1>2. IsWellFoundedOn(R, Nat) /\ Bad \subseteq Nat
  BY LessIsWellFounded
<1> HIDE DEF R
<1>3. PICK m \in Bad : \A k \in Bad : <<k, m>> \notin R
  BY <1>1, <1>2, WFMin
<1>4. m \in 1..n /\ m - 1 \in 0..n /\ m - 1 \in Nat /\ m \in Nat /\ m - 1 < m
  BY <1>3
<1>5. <<m - 1, m>> \in R
  BY <1>4 DEF R
<1>6. m - 1 \in S
  BY <1>3, <1>4, <1>5
<1> QED
  BY <1>3, <1>4, <1>6

\* The line of place p starts at bol and ends in the block.
LEMMA LineOf ==
  ASSUME NEW p \in Places
  PROVE  /\ p % LNSZ \in 0..(LNSZ - 1)
         /\ p - (p % LNSZ) \in Nat /\ p - (p % LNSZ) <= p
         /\ p - (p % LNSZ) + LNSZ \in Nat
         /\ p - (p % LNSZ) + LNSZ <= SIZE
         /\ p \div LNSZ \in 0..(LINES - 1)
<1> DEFINE q == p \div LNSZ
           r == p % LNSZ
<1>1. LNSZ \in Nat \ {0} /\ LINES \in Nat \ {0} /\ p \in Nat
  BY SizeAssumption DEF Places
<1>2. q \in Nat /\ r \in 0..(LNSZ - 1) /\ p = LNSZ * q + r
  BY <1>1
<1>3. LNSZ * q \in Nat /\ LNSZ * LINES \in Nat /\ p < LNSZ * LINES
  BY <1>1, <1>2 DEF Places, SIZE
<1>4. q + 1 <= LINES
  <2>1. SUFFICES ASSUME LINES <= q PROVE FALSE
    BY <1>1, <1>2
  <2>2. PICK d \in Nat : q = LINES + d
    <3>1. q - LINES \in Nat /\ q = LINES + (q - LINES)
      BY <1>1, <1>2, <2>1
    <3> QED
      BY <3>1
  <2>3. LNSZ * q = LNSZ * LINES + LNSZ * d /\ LNSZ * d \in Nat
    BY <1>1, <2>2
  <2> QED
    BY <1>2, <1>3, <2>3
<1>5. LNSZ * q + LNSZ <= LNSZ * LINES
  <2>1. PICK d \in Nat : LINES = (q + 1) + d
    <3>1. LINES - (q + 1) \in Nat /\ LINES = (q + 1) + (LINES - (q + 1))
      BY <1>1, <1>2, <1>4
    <3> QED
      BY <3>1
  <2>2. LNSZ * LINES = (LNSZ * q + LNSZ) + LNSZ * d /\ LNSZ * d \in Nat
    BY <1>1, <1>2, <2>1
  <2> QED
    BY <1>1, <1>3, <2>2
<1>6. q \in 0..(LINES - 1)
  BY <1>1, <1>2, <1>4
<1>7. q = p \div LNSZ
  OBVIOUS
<1> HIDE DEF q
<1> QED
  BY <1>1, <1>2, <1>3, <1>5, <1>6, <1>7 DEF SIZE

-----------------------------------------------------------------------------
(* Moves of text.                                                          *)

Memory == Places \cup Beyond
IsMemory(m) == m = [x \in Memory |-> m[x]]

\* The block has a line at least, and the memory is one interval.
LEMMA Sizes ==
  /\ LNSZ \in Nat \ {0} /\ LINES \in Nat \ {0} /\ SIZE \in Nat \ {0} /\ LNSZ <= SIZE
  /\ Memory = 0..(SIZE + LNSZ - 1)
<1>1. LNSZ \in Nat \ {0} /\ LINES \in Nat \ {0}
  BY SizeAssumption
<1>2. LNSZ * LINES \in Nat \ {0} /\ LNSZ <= LNSZ * LINES
  <2>1. LNSZ * LINES = LNSZ + LNSZ * (LINES - 1) /\ LNSZ * (LINES - 1) \in Nat
    BY <1>1
  <2> QED
    BY <1>1, <2>1
<1> QED
  BY <1>1, <1>2 DEF SIZE, Memory, Places, Beyond

\* m with the u cells at dst as those at src are.
Put(m, src, dst, u) ==
  [x \in Memory |-> IF x \in dst..(dst + u - 1) THEN At(m, src + (x - dst)) ELSE m[x]]

\* MOVE to lower places, or to places apart, takes each byte before it is
\* written over.
LEMMA Forward ==
  ASSUME NEW m, IsMemory(m), NEW src \in Nat, NEW dst \in Nat, NEW u \in Nat,
         dst <= src \/ src + u <= dst
  PROVE  MOVE(m, src, dst, u) = Put(m, src, dst, u)
<1> DEFINE Step(f) == [i \in 0..u |->
             IF i = 0 THEN m
             ELSE [f[i - 1] EXCEPT ![dst + i - 1] = At(f[i - 1], src + i - 1)]]
           g == [i \in 0..u |-> Put(m, src, dst, i)]
           to == CHOOSE f : f = Step(f)
<1>1. DOMAIN m = Memory /\ Memory = 0..(SIZE + LNSZ - 1) /\ SIZE \in Nat /\ LNSZ \in Nat
  BY Sizes DEF IsMemory
<1>2. g[0] = m
  <2>1. dst..(dst + 0 - 1) = {}
    OBVIOUS
  <2> QED
    BY <2>1 DEF Put, IsMemory
<1>3. ASSUME NEW i \in 1..u
      PROVE  g[i] = [g[i - 1] EXCEPT ![dst + i - 1] = At(g[i - 1], src + i - 1)]
  <2> DEFINE h == Put(m, src, dst, i - 1)
  <2>1. g[i - 1] = h /\ g[i] = Put(m, src, dst, i)
    OBVIOUS
  <2>2. DOMAIN h = Memory
    BY DEF Put
  <2>3. At(h, src + i - 1) = At(m, src + i - 1)
    BY <1>1, <2>2 DEF At, Put
  <2>4. [h EXCEPT ![dst + i - 1] = At(h, src + i - 1)]
          = [x \in Memory |-> IF x = dst + i - 1 THEN At(m, src + i - 1) ELSE h[x]]
    BY <2>2, <2>3
  <2>5. ASSUME NEW x \in Memory
        PROVE  (IF x = dst + i - 1 THEN At(m, src + i - 1) ELSE h[x])
                 = IF x \in dst..(dst + i - 1) THEN At(m, src + (x - dst)) ELSE m[x]
    <3>1. x \in Nat /\ (x = dst + i - 1 => src + (x - dst) = src + i - 1)
      BY <1>1
    <3> QED
      BY <3>1 DEF Put
  <2>6. Put(m, src, dst, i)
          = [x \in Memory |-> IF x \in dst..(dst + i - 1) THEN At(m, src + (x - dst)) ELSE m[x]]
    BY DEF Put
  <2> HIDE DEF h, g
  <2> QED
    BY <2>1, <2>4, <2>5, <2>6
<1>4. g = Step(g)
  <2>1. g = [i \in 0..u |-> g[i]]
    OBVIOUS
  <2>2. ASSUME NEW i \in 0..u
        PROVE  g[i] = IF i = 0 THEN m
                      ELSE [g[i - 1] EXCEPT ![dst + i - 1] = At(g[i - 1], src + i - 1)]
    <3>1. i = 0 \/ i \in 1..u
      OBVIOUS
    <3> HIDE DEF g
    <3> QED
      BY <1>2, <1>3, <3>1
  <2> HIDE DEF g
  <2> QED
    BY <2>1, <2>2
<1> HIDE DEF g
<1>5. to = Step(to)
  BY <1>4
<1>6. MOVE(m, src, dst, u) = to[u]
  BY DEF MOVE
<1> HIDE DEF to
<1> DEFINE S == {i \in 0..u : to[i] = g[i]}
<1>7. 0 \in S
  BY <1>2, <1>5
<1>8. ASSUME NEW i \in 1..u, i - 1 \in S PROVE i \in S
  <2>1. i \in 0..u /\ i # 0 /\ to[i - 1] = g[i - 1]
    BY <1>8
  <2>2. to[i] = [to[i - 1] EXCEPT ![dst + i - 1] = At(to[i - 1], src + i - 1)]
    BY <1>5, <2>1
  <2>3. to[i] = g[i]
    BY <1>3, <2>1, <2>2
  <2> QED
    BY <2>1, <2>3
<1> HIDE DEF S
<1>9. u \in S
  BY <1>7, <1>8, UpTo
<1> QED
  BY <1>6, <1>9 DEF S, g

\* MOVE- to higher places takes each byte before it is written over.
LEMMA Backward ==
  ASSUME NEW m, IsMemory(m), NEW src \in Nat, NEW dst \in Nat, NEW u \in Nat,
         src <= dst, dst + u <= SIZE
  PROVE  MOVEm(m, src, dst, u) = Put(m, src, dst, u)
<1> DEFINE Step(f) == [i \in 0..u |->
             IF i = 0 THEN m
             ELSE [f[i - 1] EXCEPT ![dst + u - i] = f[i - 1][src + u - i]]]
           Done(i) == [x \in Memory |->
             IF x \in (dst + u - i)..(dst + u - 1) THEN m[src + (x - dst)] ELSE m[x]]
           g == [i \in 0..u |-> Done(i)]
           to == CHOOSE f : f = Step(f)
<1>1. DOMAIN m = Memory /\ Memory = 0..(SIZE + LNSZ - 1) /\ SIZE \in Nat /\ LNSZ \in Nat
  BY Sizes DEF IsMemory
<1>2. g[0] = m
  <2>1. (dst + u - 0)..(dst + u - 1) = {}
    OBVIOUS
  <2> QED
    BY <2>1 DEF IsMemory
<1>3. ASSUME NEW i \in 1..u
      PROVE  g[i] = [g[i - 1] EXCEPT ![dst + u - i] = g[i - 1][src + u - i]]
  <2> DEFINE h == Done(i - 1)
  <2>1. g[i - 1] = h /\ g[i] = Done(i)
    OBVIOUS
  <2>2. DOMAIN h = Memory
    OBVIOUS
  <2>3. h[src + u - i] = m[src + u - i]
    BY <1>1
  <2>4. [h EXCEPT ![dst + u - i] = h[src + u - i]]
          = [x \in Memory |-> IF x = dst + u - i THEN m[src + u - i] ELSE h[x]]
    BY <2>2, <2>3
  <2>5. ASSUME NEW x \in Memory
        PROVE  (IF x = dst + u - i THEN m[src + u - i] ELSE h[x])
                 = IF x \in (dst + u - i)..(dst + u - 1) THEN m[src + (x - dst)] ELSE m[x]
    <3>1. x \in Nat /\ (x = dst + u - i => src + (x - dst) = src + u - i)
      BY <1>1
    <3> QED
      BY <3>1
  <2>6. Done(i)
          = [x \in Memory |->
               IF x \in (dst + u - i)..(dst + u - 1) THEN m[src + (x - dst)] ELSE m[x]]
    OBVIOUS
  <2> HIDE DEF h, g, Done
  <2> QED
    BY <2>1, <2>4, <2>5, <2>6
<1>4. g = Step(g)
  <2>1. g = [i \in 0..u |-> g[i]]
    OBVIOUS
  <2>2. ASSUME NEW i \in 0..u
        PROVE  g[i] = IF i = 0 THEN m
                      ELSE [g[i - 1] EXCEPT ![dst + u - i] = g[i - 1][src + u - i]]
    <3>1. i = 0 \/ i \in 1..u
      OBVIOUS
    <3> HIDE DEF g
    <3> QED
      BY <1>2, <1>3, <3>1
  <2> HIDE DEF g
  <2> QED
    BY <2>1, <2>2
<1> HIDE DEF g
<1>5. to = Step(to)
  BY <1>4
<1>6. MOVEm(m, src, dst, u) = to[u]
  BY DEF MOVEm
<1> HIDE DEF to
<1> DEFINE S == {i \in 0..u : to[i] = g[i]}
<1>7. 0 \in S
  BY <1>2, <1>5
<1>8. ASSUME NEW i \in 1..u, i - 1 \in S PROVE i \in S
  <2>1. i \in 0..u /\ i # 0 /\ to[i - 1] = g[i - 1]
    BY <1>8
  <2>2. to[i] = [to[i - 1] EXCEPT ![dst + u - i] = to[i - 1][src + u - i]]
    BY <1>5, <2>1
  <2>3. to[i] = g[i]
    BY <1>3, <2>1, <2>2
  <2> QED
    BY <2>1, <2>3
<1> HIDE DEF S
<1>9. u \in S
  BY <1>7, <1>8, UpTo
<1>10. Done(u) = Put(m, src, dst, u)
  <2>1. ASSUME NEW x \in Memory
        PROVE  (IF x \in (dst + u - u)..(dst + u - 1) THEN m[src + (x - dst)] ELSE m[x])
                 = IF x \in dst..(dst + u - 1) THEN At(m, src + (x - dst)) ELSE m[x]
    BY <1>1 DEF At
  <2> QED
    BY <2>1 DEF Put
<1> QED
  BY <1>6, <1>9, <1>10 DEF S, g

\* What FILL writes, cell by cell.
LEMMA FillCells ==
  ASSUME NEW m, IsMemory(m), NEW a \in Nat, NEW u \in Nat
  PROVE  /\ IsMemory(FILL(m, a, u))
         /\ \A x \in Memory : FILL(m, a, u)[x] = IF x \in a..(a + u - 1) THEN " " ELSE m[x]
  BY DEF IsMemory, FILL

\* A memory is what its cells are.
LEMMA SameMemory ==
  ASSUME NEW m, NEW k, IsMemory(m), IsMemory(k), \A x \in Memory : m[x] = k[x]
  PROVE  m = k
  BY DEF IsMemory

\* The r cells at p without the first n, and with room for n again.
Cut(m, p, r, n) == FILL(Put(m, p + n, p, r), p + (r - n), n)
Opened(m, p, r, n) == IF n < r THEN Put(m, p, p + n, r - n) ELSE m

\* Of r cells at p the first n are cut and the others moved over them; moved
\* back, and what was cut put before them, all are what they were.
LEMMA Reopened ==
  ASSUME NEW m, IsMemory(m), NEW p \in Nat, NEW r \in Nat, NEW n \in 1..r, p + r <= SIZE,
         NEW buf, \A i \in 1..n : buf.at[i] = m[p + i - 1]
  PROVE  /\ IsMemory(Cut(m, p, r, n))
         /\ Paste(Opened(Cut(m, p, r, n), p, r, n), buf, p, n) = m
<1> DEFINE moved == Put(m, p + n, p, r)
           cut == Cut(m, p, r, n)
           opened == Opened(cut, p, r, n)
<1>1. Memory = 0..(SIZE + LNSZ - 1) /\ SIZE \in Nat /\ LNSZ \in Nat /\ n \in Nat /\ r - n \in Nat
  BY Sizes
<1>2. /\ IsMemory(moved)
      /\ \A x \in Memory :
           moved[x] = IF x \in p..(p + r - 1) THEN At(m, p + n + (x - p)) ELSE m[x]
  BY DEF Put, IsMemory
<1> HIDE DEF moved
<1>3. /\ IsMemory(cut)
      /\ \A x \in Memory :
           cut[x] = IF x \in (p + (r - n))..(p + (r - n) + n - 1) THEN " " ELSE moved[x]
  BY <1>2 DEF FILL, IsMemory, Cut, moved
<1> HIDE DEF cut
<1>4. /\ IsMemory(opened)
      /\ \A x \in Memory :
           opened[x] = IF n < r /\ x \in (p + n)..(p + n + (r - n) - 1)
                         THEN At(cut, p + (x - (p + n))) ELSE cut[x]
  BY <1>3 DEF Put, IsMemory, Opened
<1> HIDE DEF opened
<1> DEFINE back == Paste(opened, buf, p, n)
<1>5. /\ IsMemory(back)
      /\ \A x \in Memory :
           back[x] = IF x \in p..(p + n - 1) THEN buf.at[x - p + 1] ELSE opened[x]
  BY <1>4 DEF Paste, IsMemory
<1> HIDE DEF back
<1>6. ASSUME NEW x \in Memory PROVE back[x] = m[x]
  <2>1. x \in Nat /\ r <= SIZE
    BY <1>1
  <2>2. CASE x \in p..(p + n - 1)
    <3>1. x - p + 1 \in 1..n /\ p + (x - p + 1) - 1 = x
      BY <1>1, <2>1, <2>2
    <3> QED
      BY <1>5, <2>2, <3>1
  <2>3. CASE x \in (p + n)..(p + r - 1)
    <3> DEFINE y == x - n
    <3>1. /\ y \in Memory /\ y \in p..(p + r - 1) /\ p + (x - (p + n)) = y
          /\ y \notin (p + (r - n))..(p + (r - n) + n - 1)
          /\ p + n + (y - p) = x /\ n < r /\ p + n + (r - n) - 1 = p + r - 1
          /\ x \notin p..(p + n - 1)
      BY <1>1, <2>1, <2>3
    <3> HIDE DEF y
    <3>2. back[x] = At(cut, y)
      BY <1>4, <1>5, <2>3, <3>1
    <3>3. At(cut, y) = cut[y] /\ At(m, x) = m[x]
      BY <1>3, <3>1 DEF At, IsMemory
    <3>4. cut[y] = moved[y] /\ moved[y] = At(m, x)
      BY <1>2, <1>3, <3>1
    <3> QED
      BY <3>2, <3>3, <3>4
  <2>4. CASE x \notin p..(p + r - 1)
    <3>1. /\ x \notin p..(p + n - 1)
          /\ x \notin (p + n)..(p + n + (r - n) - 1)
          /\ x \notin (p + (r - n))..(p + (r - n) + n - 1)
      BY <1>1, <2>1, <2>4
    <3> QED
      BY <1>2, <1>3, <1>4, <1>5, <2>4, <3>1
  <2> QED
    BY <1>1, <2>1, <2>2, <2>3, <2>4
<1> QED
  BY <1>3, <1>5, <1>6, SameMemory DEF back, opened, cut

\* So X and E close the line over what they cut, and I opens it again.
LEMMA PutBack ==
  ASSUME IsMemory(mem), EDPOS \in Places, NEW u \in 1..LNSZ
  PROVE  Insert(del(mem, u), icpy(Least(u, rbufsz))) = mem
<1> DEFINE r == rbufsz
           n == Least(u, rbufsz)
           cut == Cut(mem, EDPOS, r, n)
           opened == Opened(cut, EDPOS, r, n)
           buf == icpy(n)
<1>1. LNSZ \in Nat \ {0} /\ SIZE \in Nat /\ EDPOS \in Nat
  BY Sizes DEF Places
<1>2. r \in 1..LNSZ /\ EDPOS + r <= SIZE /\ bol + LNSZ = EDPOS + r /\ bol \in Nat
  BY <1>1, LineOf DEF rbufsz, bol
<1> HIDE DEF r
<1>3. n \in 1..r /\ n \in Nat /\ r \in Nat /\ n <= LNSZ
  BY <1>1, <1>2 DEF Least, r
<1>4. bol + LNSZ - n = EDPOS + (r - n)
  BY <1>1, <1>2, <1>3
<1>5. del(mem, u) = cut
  <2>1. MOVE(mem, EDPOS + n, EDPOS, r) = Put(mem, EDPOS + n, EDPOS, r)
    <3> HIDE DEF n
    <3> QED
      BY <1>1, <1>3, Forward
  <2>2. u # 0
    OBVIOUS
  <2> QED
    BY <1>4, <2>1, <2>2, Zenon DEF del, r, Cut
<1>6. buf.len = n /\ \A i \in 1..n : buf.at[i] = mem[EDPOS + i - 1]
  <2> HIDE DEF n
  <2>1. \A i \in 1..n : i \in 1..LNSZ /\ i <= n
    BY <1>1, <1>3
  <2> QED
    BY <2>1 DEF icpy, Copied
<1> HIDE DEF buf, n
<1>7. IsMemory(cut) /\ Paste(opened, buf, EDPOS, n) = mem
  BY <1>1, <1>2, <1>3, <1>6, Reopened
<1> HIDE DEF cut
<1>8. n < r => MOVEm(cut, EDPOS, EDPOS + n, r - n) = Put(cut, EDPOS, EDPOS + n, r - n)
  BY <1>1, <1>2, <1>3, <1>7, Backward
<1>9. ~(n < r) => n = r
  BY <1>3
<1>10. Insert(cut, buf) = Paste(opened, buf, EDPOS, n)
  BY <1>6, <1>8, <1>9 DEF Insert, r, Opened
<1> QED
  BY <1>5, <1>7, <1>10 DEF buf, n

-----------------------------------------------------------------------------
(* Searches and repetitions end in a value of theirs, whatever they find.  *)

Rising(f, lo, hi, end, Hit, val) ==
  f = [x \in lo..hi |-> IF x = hi THEN end ELSE IF x \in Hit THEN val[x] ELSE f[x + 1]]
Falling(f, lo, hi, end, Hit, val) ==
  f = [x \in lo..hi |-> IF x = lo THEN end ELSE IF x \in Hit THEN val[x] ELSE f[x - 1]]

Among(end, val, lo, hi) == {end} \cup {val[y] : y \in lo..hi}

\* A search upwards from x stops at the first place of Hit, or at hi.
LEMMA SearchUp ==
  ASSUME NEW lo \in Int, NEW hi \in Int, lo <= hi, NEW end, NEW Hit, NEW val
  PROVE  /\ \E f : Rising(f, lo, hi, end, Hit, val)
         /\ \A f : Rising(f, lo, hi, end, Hit, val)
              => \A x \in lo..hi : f[x] \in Among(end, val, lo, hi - 1)
<1> DEFINE n == hi - lo
           Eq(f, i) == f = [x \in (hi - i)..hi |-> IF x = hi THEN end
                                                  ELSE IF x \in Hit THEN val[x] ELSE f[x + 1]]
           S == {i \in 0..n : \E f : Eq(f, i)}
<1>1. n \in Nat /\ hi - n = lo
  OBVIOUS
<1>2. 0 \in S
  <2> DEFINE g == [x \in (hi - 0)..hi |-> end]
  <2>1. Eq(g, 0)
    OBVIOUS
  <2> HIDE DEF Eq
  <2> QED
    BY <1>1, <2>1
<1>3. ASSUME NEW i \in 1..n, i - 1 \in S PROVE i \in S
  <2>1. PICK f : Eq(f, i - 1)
    BY <1>3
  <2> DEFINE k == hi - i
             g == [x \in (hi - i)..hi |-> IF x = k THEN (IF x \in Hit THEN val[x] ELSE f[x + 1])
                                          ELSE f[x]]
  <2>2. k \in Int /\ i \in Nat /\ k < hi /\ hi - (i - 1) = k + 1
    BY <1>1
  <2>3. ASSUME NEW x \in (hi - i)..hi
        PROVE  g[x] = IF x = hi THEN end ELSE IF x \in Hit THEN val[x] ELSE g[x + 1]
    <3>1. x \in Int /\ (x # hi => x + 1 \in (hi - i)..hi /\ x + 1 # k)
          /\ (x # k => x \in (hi - (i - 1))..hi)
      BY <2>2
    <3>2. x # hi => g[x + 1] = f[x + 1]
      BY <3>1
    <3>3. CASE x = k
      BY <2>2, <3>1, <3>2, <3>3
    <3>4. CASE x # k
      <4>1. g[x] = f[x]
        BY <3>4
      <4>2. f[x] = IF x = hi THEN end ELSE IF x \in Hit THEN val[x] ELSE f[x + 1]
        BY <2>1, <3>1, <3>4
      <4> QED
        BY <3>2, <4>1, <4>2
    <3> QED
      BY <3>3, <3>4
  <2>4. Eq(g, i)
    <3>1. g = [x \in (hi - i)..hi |-> g[x]]
      OBVIOUS
    <3> HIDE DEF g
    <3> QED
      BY <2>3, <3>1
  <2> HIDE DEF Eq, g
  <2> QED
    BY <2>4
<1>4. n \in S
  <2> HIDE DEF S
  <2> QED
    BY <1>1, <1>2, <1>3, UpTo
<1>5. \E f : Rising(f, lo, hi, end, Hit, val)
  BY <1>1, <1>4 DEF Rising
<1>6. ASSUME NEW f, Rising(f, lo, hi, end, Hit, val), NEW x \in lo..hi
      PROVE  f[x] \in Among(end, val, lo, hi - 1)
  <2> DEFINE V == {end} \cup {val[y] : y \in lo..(hi - 1)}
             Fits == {i \in 0..n : f[hi - i] \in V}
  <2>1. 0 \in Fits
    <3>1. hi - 0 = hi /\ hi \in lo..hi
      OBVIOUS
    <3> QED
      BY <1>1, <1>6, <3>1 DEF Rising
  <2>2. ASSUME NEW i \in 1..n, i - 1 \in Fits PROVE i \in Fits
    <3> DEFINE y == hi - i
    <3>1. y \in lo..hi /\ y # hi /\ y + 1 = hi - (i - 1) /\ y \in lo..(hi - 1)
      BY <1>1
    <3> HIDE DEF y
    <3>2. f[y] = IF y \in Hit THEN val[y] ELSE f[y + 1]
      BY <1>6, <3>1 DEF Rising
    <3>3. f[y + 1] \in V /\ val[y] \in V
      BY <2>2, <3>1
    <3> HIDE DEF V
    <3> QED
      BY <3>2, <3>3 DEF y
  <2> HIDE DEF Fits
  <2>3. 0..n \subseteq Fits
    BY <1>1, <2>1, <2>2, UpTo
  <2>4. hi - x \in 0..n /\ hi - (hi - x) = x
    BY <1>1
  <2> QED
    BY <2>3, <2>4 DEF Fits, Among
<1> QED
  BY <1>5, <1>6

\* And one downwards at the last place before x, or at lo.
LEMMA SearchDown ==
  ASSUME NEW lo \in Int, NEW hi \in Int, lo <= hi, NEW end, NEW Hit, NEW val
  PROVE  /\ \E f : Falling(f, lo, hi, end, Hit, val)
         /\ \A f : Falling(f, lo, hi, end, Hit, val)
              => \A x \in lo..hi : f[x] \in Among(end, val, lo + 1, hi)
<1> DEFINE H == {x \in Int : -x \in Hit}
           v == [x \in Int |-> val[-x]]
           Asc(f) == Rising(f, -hi, -lo, end, H, v)
           Desc(f) == Falling(f, lo, hi, end, Hit, val)
<1>1. -hi \in Int /\ -lo \in Int /\ -hi <= -lo
  OBVIOUS
<1>2. /\ \E f : Asc(f)
      /\ \A f : Asc(f) => \A x \in (-hi)..(-lo) :
                           f[x] \in {end} \cup {v[y] : y \in (-hi)..(-lo - 1)}
  <2> HIDE DEF H, v
  <2> QED
    BY <1>1, SearchUp DEF Among
<1>3. PICK g : Asc(g)
  BY <1>2
<1>4. \E f : Desc(f)
  <2> DEFINE f == [x \in lo..hi |-> g[-x]]
  <2>1. ASSUME NEW x \in lo..hi
        PROVE  f[x] = IF x = lo THEN end ELSE IF x \in Hit THEN val[x] ELSE f[x - 1]
    <3> DEFINE y == -x
    <3>1. /\ y \in (-hi)..(-lo) /\ y \in Int /\ -y = x /\ (x = lo <=> y = -lo)
          /\ -(x - 1) = y + 1 /\ (x # lo => x - 1 \in lo..hi)
      OBVIOUS
    <3>2. f[x] = g[y] /\ (x # lo => f[x - 1] = g[y + 1])
      BY <3>1
    <3>3. (y \in H <=> x \in Hit) /\ v[y] = val[x]
      BY <3>1
    <3> HIDE DEF y, H, v, f
    <3>4. g[y] = IF y = -lo THEN end ELSE IF y \in H THEN v[y] ELSE g[y + 1]
      BY <1>3, <3>1 DEF Rising
    <3> QED
      BY <3>1, <3>2, <3>3, <3>4
  <2>2. f = [x \in lo..hi |-> f[x]]
    OBVIOUS
  <2> HIDE DEF f
  <2>3. Desc(f)
    BY <2>1, <2>2 DEF Falling
  <2> QED
    BY <2>3
<1>5. ASSUME NEW f, Desc(f), NEW x \in lo..hi
      PROVE  f[x] \in Among(end, val, lo + 1, hi)
  <2> DEFINE h == [z \in (-hi)..(-lo) |-> f[-z]]
  <2>1. ASSUME NEW z \in (-hi)..(-lo)
        PROVE  h[z] = IF z = -lo THEN end ELSE IF z \in H THEN v[z] ELSE h[z + 1]
    <3> DEFINE y == -z
    <3>1. /\ y \in lo..hi /\ z \in Int /\ (y = lo <=> z = -lo)
          /\ -(z + 1) = y - 1 /\ (z # -lo => z + 1 \in (-hi)..(-lo))
      OBVIOUS
    <3>2. h[z] = f[y] /\ (z # -lo => h[z + 1] = f[y - 1])
      BY <3>1
    <3>3. (z \in H <=> y \in Hit) /\ v[z] = val[y]
      BY <3>1
    <3> HIDE DEF y, H, v, h
    <3>4. f[y] = IF y = lo THEN end ELSE IF y \in Hit THEN val[y] ELSE f[y - 1]
      BY <1>5, <3>1 DEF Falling
    <3> QED
      BY <3>1, <3>2, <3>3, <3>4
  <2>2. h = [z \in (-hi)..(-lo) |-> h[z]]
    OBVIOUS
  <2>3. -x \in (-hi)..(-lo) /\ h[-x] = f[x]
    OBVIOUS
  <2> HIDE DEF h
  <2>4. Asc(h)
    BY <2>1, <2>2 DEF Rising
  <2>5. f[x] \in {end} \cup {v[y] : y \in (-hi)..(-lo - 1)}
    BY <1>2, <2>3, <2>4
  <2>6. ASSUME NEW y \in (-hi)..(-lo - 1)
        PROVE  v[y] \in {val[z] : z \in (lo + 1)..hi}
    <3>1. -y \in (lo + 1)..hi /\ v[y] = val[-y]
      OBVIOUS
    <3> QED
      BY <3>1
  <2> HIDE DEF v
  <2> QED
    BY <2>5, <2>6 DEF Among
<1> QED
  BY <1>4, <1>5

Steps(f, V, v0, n, step) ==
  f \in [0..n -> V] /\ \A i \in 0..n : f[i] = IF i = 0 THEN v0 ELSE step[i][f[i - 1]]

\* Doing a step n times from v0 stays where the step does.
LEMMA Repeated ==
  ASSUME NEW V, NEW v0 \in V, NEW n \in Nat, NEW step \in [1..n -> [V -> V]]
  PROVE  \E f : Steps(f, V, v0, n, step)
<1> DEFINE Eq(f, k) == \A i \in 0..k : f[i] = IF i = 0 THEN v0 ELSE step[i][f[i - 1]]
           S == {k \in 0..n : \E f \in [0..k -> V] : Eq(f, k)}
<1>1. 0 \in S
  <2> DEFINE g == [i \in 0..0 |-> v0]
  <2>1. g \in [0..0 -> V] /\ Eq(g, 0)
    OBVIOUS
  <2> HIDE DEF Eq, g
  <2> QED
    BY <2>1
<1>2. ASSUME NEW k \in 1..n, k - 1 \in S PROVE k \in S
  <2>1. PICK f \in [0..(k - 1) -> V] : Eq(f, k - 1)
    BY <1>2
  <2> DEFINE g == [i \in 0..k |-> IF i = k THEN step[k][f[k - 1]] ELSE f[i]]
  <2>2. f[k - 1] \in V /\ step[k][f[k - 1]] \in V
    OBVIOUS
  <2>3. g \in [0..k -> V]
    BY <2>2
  <2>4. ASSUME NEW i \in 0..k PROVE g[i] = IF i = 0 THEN v0 ELSE step[i][g[i - 1]]
    <3>1. i # 0 => i - 1 \in 0..k /\ i - 1 # k /\ g[i - 1] = f[i - 1]
      OBVIOUS
    <3>2. CASE i = k
      BY <3>1, <3>2
    <3>3. CASE i # k
      <4>1. i \in 0..(k - 1) /\ g[i] = f[i]
        BY <3>3
      <4> QED
        BY <2>1, <3>1, <4>1
    <3> QED
      BY <3>2, <3>3
  <2> HIDE DEF g
  <2>5. Eq(g, k)
    BY <2>4
  <2> HIDE DEF Eq
  <2> QED
    BY <2>3, <2>5
<1>3. n \in S
  <2> HIDE DEF S
  <2>1. 0..n \subseteq S
    BY <1>1, <1>2, UpTo
  <2> QED
    BY <2>1
<1> QED
  BY <1>3 DEF Steps

-----------------------------------------------------------------------------
(* Where searches and movements stop.                                      *)

\* F and n find a place of the block.
LEMMA FindRange ==
  ASSUME NEW m, NEW p \in Places, NEW buf
  PROVE  FindIn(m, p, buf) \in Places
<1> DEFINE found(a) == \A i \in 1..buf.len : m[a + i - 1] = buf.at[i]
           Step(f) == [a \in (p + 1)..SIZE |->
                         IF a = SIZE THEN p ELSE IF found(a) THEN a ELSE f[a + 1]]
           Hit == {a \in (p + 1)..SIZE : found(a)}
           val == [a \in (p + 1)..SIZE |-> a]
           lo == p + 1
           from == CHOOSE f : f = Step(f)
<1>1. p \in Nat /\ SIZE \in Int /\ lo \in Int /\ lo <= SIZE /\ lo \in lo..SIZE
  BY Sizes DEF Places
<1>2. ASSUME NEW f PROVE f = Step(f) <=> Rising(f, lo, SIZE, p, Hit, val)
  <2> HIDE DEF found
  <2> QED
    BY DEF Rising
<1>3. \A y \in lo..(SIZE - 1) : val[y] \in Places
  BY <1>1 DEF Places
<1>4. FindIn(m, p, buf) = from[lo]
  BY DEF FindIn
<1> HIDE DEF Hit, val, Step, lo
<1>5. PICK f : Rising(f, lo, SIZE, p, Hit, val)
  BY <1>1, SearchUp
<1>6. from = Step(from)
  <2>1. f = Step(f)
    BY <1>2, <1>5
  <2> QED
    BY <2>1
<1> HIDE DEF from
<1>7. Rising(from, lo, SIZE, p, Hit, val)
  BY <1>2, <1>6
<1>8. from[lo] \in Among(p, val, lo, SIZE - 1)
  BY <1>1, <1>7, SearchUp
<1> QED
  BY <1>8, <1>3, <1>4 DEF Among

\* word>> and ws>> stop by the first place after the block,
LEMMA UpRange ==
  ASSUME NEW a \in 0..(SIZE + 1), NEW space
  PROVE  Up(a, space) \in 0..(SIZE + 1)
<1> DEFINE hi == SIZE + 1
           Stops(x) == WS(mem[x]) = space
           Step(f) == [x \in 0..(SIZE + 1) |->
                         IF x >= SIZE THEN SIZE + 1 ELSE IF Stops(x) THEN x + 1 ELSE f[x + 1]]
           Hit == {x \in 0..(SIZE + 1) : x >= SIZE \/ Stops(x)}
           val == [x \in 0..(SIZE + 1) |-> IF x >= SIZE THEN SIZE + 1 ELSE x + 1]
           up == CHOOSE f : f = Step(f)
<1>1. SIZE \in Nat /\ hi \in Int /\ 0 \in Int /\ 0 <= hi /\ a \in 0..hi
  BY Sizes
<1>2. ASSUME NEW f PROVE f = Step(f) <=> Rising(f, 0, hi, hi, Hit, val)
  <2> HIDE DEF Stops
  <2> QED
    BY <1>1 DEF Rising
<1>3. \A y \in 0..(hi - 1) : val[y] \in 0..hi
  BY <1>1
<1>4. Up(a, space) = up[a]
  BY DEF Up
<1> HIDE DEF Hit, val, Step
<1>5. PICK f : Rising(f, 0, hi, hi, Hit, val)
  <2> HIDE DEF hi
  <2> QED
    BY <1>1, SearchUp
<1>6. up = Step(up)
  <2>1. f = Step(f)
    BY <1>2, <1>5
  <2> QED
    BY <2>1
<1> HIDE DEF up
<1>7. Rising(up, 0, hi, hi, Hit, val)
  BY <1>2, <1>6
<1>8. up[a] \in Among(hi, val, 0, hi - 1)
  <2> HIDE DEF hi
  <2> QED
    BY <1>1, <1>7, SearchUp
<1> QED
  BY <1>1, <1>8, <1>3, <1>4 DEF Among

\* word<< and ws<< two before it.
LEMMA BackRange ==
  ASSUME NEW a \in (-4)..(SIZE - 1), NEW space
  PROVE  Back(a, space) \in (-2)..(SIZE - 2)
<1> DEFINE lo == -4
           hi == SIZE - 1
           end == -2
           Stops(x) == WS(mem[x]) = space
           Step(f) == [x \in (-4)..(SIZE - 1) |->
                         IF x < 0 THEN -2 ELSE IF Stops(x) THEN x - 1 ELSE f[x - 1]]
           Hit == {x \in (-4)..(SIZE - 1) : x < 0 \/ Stops(x)}
           val == [x \in (-4)..(SIZE - 1) |-> IF x < 0 THEN -2 ELSE x - 1]
           back == CHOOSE f : f = Step(f)
<1>1. SIZE \in Nat \ {0} /\ lo \in Int /\ hi \in Int /\ lo <= hi /\ a \in lo..hi
  BY Sizes
<1>2. ASSUME NEW f PROVE f = Step(f) <=> Falling(f, lo, hi, end, Hit, val)
  <2> HIDE DEF Stops
  <2> QED
    BY <1>1 DEF Falling
<1>3. \A y \in (lo + 1)..hi : val[y] \in (-2)..(SIZE - 2)
  BY <1>1
<1>4. Back(a, space) = back[a]
  BY DEF Back
<1>5. end \in (-2)..(SIZE - 2)
  BY <1>1
<1> HIDE DEF Hit, val, Step, lo, hi, end
<1>6. PICK f : Falling(f, lo, hi, end, Hit, val)
  BY <1>1, SearchDown
<1>7. back = Step(back)
  <2>1. f = Step(f)
    BY <1>2, <1>6
  <2> QED
    BY <2>1
<1> HIDE DEF back
<1>8. Falling(back, lo, hi, end, Hit, val)
  BY <1>2, <1>7
<1>9. back[a] \in Among(end, val, lo + 1, hi)
  BY <1>1, <1>8, SearchDown
<1> QED
  BY <1>9, <1>3, <1>4, <1>5 DEF Among

\* L's place is a number.
LEMMA LineEndRange ==
  ASSUME EDPOS \in Places
  PROVE  lineEnd \in Int
<1> DEFINE end == bol + LNSZ - 1
           Stops(p) == WS(mem[p])
           Step(f) == [p \in EDPOS..end |-> IF p = EDPOS THEN end
                                           ELSE IF Stops(p) THEN f[p - 1] ELSE p + 1]
           Hit == {p \in EDPOS..end : ~Stops(p)}
           val == [p \in EDPOS..end |-> p + 1]
           res == CHOOSE f : f = Step(f)
<1>1. EDPOS \in Int /\ end \in Int /\ EDPOS <= end /\ end \in EDPOS..end
  <2>1. LNSZ \in Nat \ {0} /\ EDPOS \in Nat /\ EDPOS % LNSZ \in 0..(LNSZ - 1)
    BY Sizes, LineOf DEF Places
  <2> DEFINE r == EDPOS % LNSZ
  <2>2. end = EDPOS - r + LNSZ - 1 /\ r \in 0..(LNSZ - 1)
    BY <2>1 DEF bol
  <2> HIDE DEF r, end
  <2> QED
    BY <2>1, <2>2
<1>2. lineEnd = res[end]
  BY DEF lineEnd
<1> HIDE DEF end
<1>3. ASSUME NEW f PROVE f = Step(f) <=> Falling(f, EDPOS, end, end, Hit, val)
  <2> HIDE DEF Stops
  <2> QED
    BY <1>1 DEF Falling
<1>4. \A y \in (EDPOS + 1)..end : val[y] \in Int
  BY <1>1
<1> HIDE DEF Hit, val, Step
<1>5. PICK f : Falling(f, EDPOS, end, end, Hit, val)
  BY <1>1, SearchDown
<1>6. res = Step(res)
  <2>1. f = Step(f)
    BY <1>3, <1>5
  <2> QED
    BY <2>1
<1> HIDE DEF res
<1>7. Falling(res, EDPOS, end, end, Hit, val)
  BY <1>3, <1>6
<1>8. res[end] \in Among(end, val, EDPOS + 1, end)
  BY <1>1, <1>7, SearchDown
<1> QED
  BY <1>1, <1>8, <1>4, <1>2 DEF Among

\* Some number of words on or back.
LEMMA WordStartRange ==
  ASSUME EDPOS \in Places, NEW n \in Nat
  PROVE  wordStart(n) \in Int
<1> DEFINE V == 0..(SIZE + 1)
           go(x) == Up(Up(x, TRUE), FALSE)
           Step(f) == [i \in 0..n |-> IF i = 0 THEN EDPOS ELSE go(f[i - 1])]
           step == [i \in 1..n |-> [x \in V |-> go(x)]]
           p == CHOOSE f : f = Step(f)
<1>1. EDPOS \in V /\ SIZE \in Nat /\ V \subseteq Int
  BY Sizes DEF Places
<1>2. \A x \in V : go(x) \in V
  <2> SUFFICES ASSUME NEW x \in V PROVE go(x) \in V
    OBVIOUS
  <2>1. Up(x, TRUE) \in 0..(SIZE + 1)
    BY UpRange
  <2> QED
    BY <2>1, UpRange
<1>3. wordStart(n) = p[n] - 1
  BY DEF wordStart
<1> HIDE DEF V, go
<1>4. step \in [1..n -> [V -> V]]
  BY <1>2
<1>5. PICK f : Steps(f, V, EDPOS, n, step)
  <2> HIDE DEF step
  <2> QED
    BY <1>1, <1>4, Repeated
<1>6. f = Step(f)
  <2>1. ASSUME NEW i \in 0..n PROVE f[i] = IF i = 0 THEN EDPOS ELSE go(f[i - 1])
    <3>1. i # 0 => i \in 1..n /\ f[i - 1] \in V
      BY <1>5 DEF Steps
    <3> QED
      BY <1>5, <3>1 DEF Steps
  <2>2. f = [i \in 0..n |-> f[i]]
    BY <1>5 DEF Steps
  <2> QED
    BY <2>1, <2>2
<1>7. p = Step(p)
  BY <1>6
<1> HIDE DEF p
<1> DEFINE S == {i \in 0..n : p[i] \in V}
<1>8. 0 \in S
  BY <1>1, <1>7
<1>9. ASSUME NEW i \in 1..n, i - 1 \in S PROVE i \in S
  BY <1>2, <1>7, <1>9
<1>10. 0..n \subseteq S
  <2> HIDE DEF S
  <2> QED
    BY <1>8, <1>9, UpTo
<1>11. p[n] \in V
  BY <1>10
<1>12. p[n] \in Int
  BY <1>1, <1>11
<1> HIDE DEF S
<1> QED
  BY <1>3, <1>12

LEMMA WordEndRange ==
  ASSUME EDPOS \in Places, NEW n \in Nat
  PROVE  wordEnd(n) \in Int
<1> DEFINE V == 0..(SIZE + 1)
           go(x) == Up(Up(x, FALSE), TRUE)
           Step(f) == [i \in 0..n |-> IF i = 0 THEN EDPOS ELSE go(f[i - 1])]
           step == [i \in 1..n |-> [x \in V |-> go(x)]]
           p == CHOOSE f : f = Step(f)
<1>1. EDPOS \in V /\ SIZE \in Nat /\ V \subseteq Int
  BY Sizes DEF Places
<1>2. \A x \in V : go(x) \in V
  <2> SUFFICES ASSUME NEW x \in V PROVE go(x) \in V
    OBVIOUS
  <2>1. Up(x, FALSE) \in 0..(SIZE + 1)
    BY UpRange
  <2> QED
    BY <2>1, UpRange
<1>3. wordEnd(n) = p[n] - 1
  BY DEF wordEnd
<1> HIDE DEF V, go
<1>4. step \in [1..n -> [V -> V]]
  BY <1>2
<1>5. PICK f : Steps(f, V, EDPOS, n, step)
  <2> HIDE DEF step
  <2> QED
    BY <1>1, <1>4, Repeated
<1>6. f = Step(f)
  <2>1. ASSUME NEW i \in 0..n PROVE f[i] = IF i = 0 THEN EDPOS ELSE go(f[i - 1])
    <3>1. i # 0 => i \in 1..n /\ f[i - 1] \in V
      BY <1>5 DEF Steps
    <3> QED
      BY <1>5, <3>1 DEF Steps
  <2>2. f = [i \in 0..n |-> f[i]]
    BY <1>5 DEF Steps
  <2> QED
    BY <2>1, <2>2
<1>7. p = Step(p)
  BY <1>6
<1> HIDE DEF p
<1> DEFINE S == {i \in 0..n : p[i] \in V}
<1>8. 0 \in S
  BY <1>1, <1>7
<1>9. ASSUME NEW i \in 1..n, i - 1 \in S PROVE i \in S
  BY <1>2, <1>7, <1>9
<1>10. 0..n \subseteq S
  <2> HIDE DEF S
  <2> QED
    BY <1>8, <1>9, UpTo
<1>11. p[n] \in V
  BY <1>10
<1>12. p[n] \in Int
  BY <1>1, <1>11
<1> HIDE DEF S
<1> QED
  BY <1>3, <1>12

LEMMA WordBackRange ==
  ASSUME EDPOS \in Places, NEW n \in Nat
  PROVE  wordBack(n) \in Int
<1> DEFINE V == (-2)..(SIZE - 1)
           go(x) == Back(Back(x - 1, FALSE), TRUE)
           Step(f) == [i \in 0..n |-> IF i = 0 THEN EDPOS ELSE go(f[i - 1])]
           step == [i \in 1..n |-> [x \in V |-> go(x)]]
           p == CHOOSE f : f = Step(f)
<1>1. EDPOS \in V /\ SIZE \in Nat /\ V \subseteq Int
  BY Sizes DEF Places
<1>2. \A x \in V : go(x) \in V
  <2> SUFFICES ASSUME NEW x \in V PROVE go(x) \in V
    OBVIOUS
  <2> DEFINE y == Back(x - 1, FALSE)
  <2>1. x - 1 \in (-4)..(SIZE - 1)
    BY <1>1
  <2>2. y \in (-2)..(SIZE - 2)
    BY <2>1, BackRange
  <2> HIDE DEF y
  <2>3. y \in (-4)..(SIZE - 1)
    BY <1>1, <2>2
  <2>4. Back(y, TRUE) \in (-2)..(SIZE - 2)
    BY <2>3, BackRange
  <2>5. \A z \in (-2)..(SIZE - 2) : z \in V
    BY <1>1
  <2>6. Back(y, TRUE) \in V
    BY <2>4, <2>5
  <2> QED
    BY <2>6 DEF y
<1>3. wordBack(n) = p[n] + 2
  BY DEF wordBack
<1> HIDE DEF V, go
<1>4. step \in [1..n -> [V -> V]]
  BY <1>2
<1>5. PICK f : Steps(f, V, EDPOS, n, step)
  <2> HIDE DEF step
  <2> QED
    BY <1>1, <1>4, Repeated
<1>6. f = Step(f)
  <2>1. ASSUME NEW i \in 0..n PROVE f[i] = IF i = 0 THEN EDPOS ELSE go(f[i - 1])
    <3>1. i # 0 => i \in 1..n /\ f[i - 1] \in V
      BY <1>5 DEF Steps
    <3> QED
      BY <1>5, <3>1 DEF Steps
  <2>2. f = [i \in 0..n |-> f[i]]
    BY <1>5 DEF Steps
  <2> QED
    BY <2>1, <2>2
<1>7. p = Step(p)
  BY <1>6
<1> HIDE DEF p
<1> DEFINE S == {i \in 0..n : p[i] \in V}
<1>8. 0 \in S
  BY <1>1, <1>7
<1>9. ASSUME NEW i \in 1..n, i - 1 \in S PROVE i \in S
  BY <1>2, <1>7, <1>9
<1>10. 0..n \subseteq S
  <2> HIDE DEF S
  <2> QED
    BY <1>8, <1>9, UpTo
<1>11. p[n] \in V
  BY <1>10
<1>12. p[n] \in Int
  BY <1>1, <1>11
<1> HIDE DEF S
<1> QED
  BY <1>3, <1>12

-----------------------------------------------------------------------------
(* What the words and keys leave of the memory after the block.            *)

Keeps(m, k) == IsMemory(k) /\ \A x \in Beyond : k[x] = m[x]

\* The cells after the block lie at SIZE and above.
LEMMA Outside == Beyond \subseteq Memory /\ \A x \in Beyond : x \in Nat /\ SIZE <= x
  BY Sizes DEF Memory, Beyond

\* What two writes leave alone one after the other, both leave alone.
LEMMA KeepsAll ==
  ASSUME NEW m, NEW k, NEW h, Keeps(m, k), Keeps(k, h)
  PROVE  Keeps(m, h)
  BY DEF Keeps

\* MOVE, FILL and the copy of a buffer stay where they are told to.
LEMMA MoveKeeps ==
  ASSUME NEW m, IsMemory(m), NEW src \in Nat, NEW dst \in Nat, NEW u \in Nat,
         dst <= src \/ src + u <= dst, dst + u <= SIZE
  PROVE  Keeps(m, MOVE(m, src, dst, u))
<1>1. MOVE(m, src, dst, u) = Put(m, src, dst, u)
  BY Forward
<1>2. \A x \in Beyond : x \notin dst..(dst + u - 1) /\ x \in Memory
  BY Outside, Sizes
<1> QED
  BY <1>1, <1>2 DEF Keeps, Put, IsMemory

LEMMA FillKeeps ==
  ASSUME NEW m, IsMemory(m), NEW a \in Nat, NEW u \in Nat, a + u <= SIZE
  PROVE  Keeps(m, FILL(m, a, u))
<1>1. \A x \in Beyond : x \notin a..(a + u - 1) /\ x \in Memory
  BY Outside, Sizes
<1> QED
  BY <1>1, FillCells DEF Keeps

LEMMA PasteKeeps ==
  ASSUME NEW m, IsMemory(m), NEW buf, NEW a \in Nat, NEW u \in Nat, a + u <= SIZE
  PROVE  Keeps(m, Paste(m, buf, a, u))
<1>1. \A x \in Beyond : x \notin a..(a + u - 1) /\ x \in Memory
  BY Outside, Sizes
<1> QED
  BY <1>1 DEF Keeps, Paste, IsMemory

\* The rest of the cursor's line, which lies in the block.
LEMMA RestOfLine ==
  ASSUME EDPOS \in Places
  PROVE  /\ rbufsz \in 1..LNSZ /\ EDPOS + rbufsz <= SIZE /\ EDPOS \in Nat
         /\ bol + LNSZ = EDPOS + rbufsz /\ bol \in Places /\ bol <= EDPOS
<1>1. LNSZ \in Nat \ {0} /\ SIZE \in Nat /\ EDPOS \in Nat
  BY Sizes DEF Places
<1>2. /\ EDPOS % LNSZ \in 0..(LNSZ - 1)
      /\ bol \in Nat /\ bol <= EDPOS /\ bol + LNSZ \in Nat /\ bol + LNSZ <= SIZE
  BY LineOf DEF bol
<1>3. rbufsz \in 1..LNSZ /\ bol + LNSZ = EDPOS + rbufsz
  BY <1>1, <1>2 DEF rbufsz, bol
<1> QED
  BY <1>1, <1>2, <1>3 DEF Places

\* _I and _del stay on the line of the cursor.
LEMMA InsertKeeps ==
  ASSUME NEW m, IsMemory(m), EDPOS \in Places, NEW buf, buf.len \in Nat
  PROVE  Keeps(m, Insert(m, buf))
<1> DEFINE room == rbufsz
           n == IF buf.len < room THEN buf.len ELSE room
           moved == IF buf.len < room THEN MOVEm(m, EDPOS, EDPOS + buf.len, room - buf.len) ELSE m
<1>1. room \in Nat /\ EDPOS + room <= SIZE /\ EDPOS \in Nat /\ LNSZ \in Nat /\ SIZE \in Nat
  BY RestOfLine, Sizes
<1>2. Insert(m, buf) = Paste(moved, buf, EDPOS, n)
  BY DEF Insert
<1> HIDE DEF room
<1>3. Keeps(m, moved)
  <2>1. CASE buf.len < room
    <3> DEFINE to == EDPOS + buf.len
               k == room - buf.len
    <3>1. to \in Nat /\ k \in Nat /\ EDPOS <= to /\ to + k <= SIZE /\ EDPOS \in Nat
      BY <1>1, <2>1
    <3>2. moved = MOVEm(m, EDPOS, to, k)
      BY <2>1
    <3> HIDE DEF to, k, moved
    <3>3. moved = Put(m, EDPOS, to, k)
      BY <3>1, <3>2, Backward
    <3>4. \A x \in Beyond : x \notin to..(to + k - 1) /\ x \in Memory
      BY <3>1, Outside, Sizes
    <3> QED
      BY <3>3, <3>4 DEF Keeps, Put, IsMemory
  <2>2. CASE ~(buf.len < room)
    BY <2>2 DEF Keeps
  <2> QED
    BY <2>1, <2>2
<1>4. n \in Nat /\ EDPOS + n <= SIZE
  BY <1>1
<1> HIDE DEF moved, n
<1>5. Keeps(moved, Paste(moved, buf, EDPOS, n))
  BY <1>1, <1>3, <1>4, PasteKeeps DEF Keeps
<1> QED
  BY <1>2, <1>3, <1>5, KeepsAll

LEMMA DelKeeps ==
  ASSUME NEW m, IsMemory(m), EDPOS \in Places, NEW u \in Nat
  PROVE  Keeps(m, del(m, u)) /\ Least(u, rbufsz) \in Nat
<1> DEFINE n == Least(u, rbufsz)
           r == rbufsz
           from == EDPOS + n
           gap == bol + LNSZ - n
           moved == MOVE(m, from, EDPOS, r)
<1>1. /\ r \in Nat /\ EDPOS + r <= SIZE /\ EDPOS \in Nat /\ LNSZ \in Nat /\ SIZE \in Nat
      /\ bol + LNSZ = EDPOS + r /\ bol \in Nat
  BY RestOfLine, Sizes DEF Places
<1>2. n \in Nat /\ n <= r
  BY <1>1 DEF Least
<1>3. del(m, u) = IF u = 0 THEN m ELSE FILL(moved, gap, n)
  BY DEF del
<1> HIDE DEF n, r
<1>4. from \in Nat /\ EDPOS <= from /\ gap \in Nat /\ gap + n <= SIZE
  BY <1>1, <1>2
<1> HIDE DEF from, gap
<1>5. Keeps(m, moved)
  BY <1>1, <1>4, MoveKeeps
<1> HIDE DEF moved
<1>6. Keeps(moved, FILL(moved, gap, n))
  BY <1>2, <1>4, <1>5, FillKeeps DEF Keeps
<1>7. Keeps(m, FILL(moved, gap, n))
  BY <1>5, <1>6, KeepsAll
<1>8. Keeps(m, m)
  BY DEF Keeps
<1> QED
  BY <1>2, <1>3, <1>7, <1>8 DEF n

\* A line is moved down only where there is one below.
LEMMA LineKeeps ==
  ASSUME NEW m, IsMemory(m), NEW ln \in 0..(LINES - 1), NEW Vals, "?" \in Vals
  PROVE  /\ Keeps(m, mvln(m, ln))
         /\ m \in [Memory -> Vals] => mvln(m, ln) \in [Memory -> Vals]
<1> DEFINE src == ln * LNSZ
           dst == (ln + 1) * LNSZ
<1>1. CASE ln > LINES - 2
  BY <1>1 DEF mvln, Keeps
<1>2. CASE ~(ln > LINES - 2)
  <2>1. LNSZ \in Nat /\ LINES \in Nat /\ ln \in Nat /\ SIZE \in Nat
    BY Sizes
  <2>2. src \in Nat /\ dst \in Nat /\ src + LNSZ <= dst /\ dst + LNSZ <= SIZE
    <3>1. src \in Nat /\ dst = src + LNSZ
      BY <2>1
    <3>2. PICK d \in Nat : LINES = (ln + 2) + d
      <4>1. LINES - (ln + 2) \in Nat /\ LINES = (ln + 2) + (LINES - (ln + 2))
        BY <1>2, <2>1
      <4> QED
        BY <4>1
    <3>3. SIZE = src + LNSZ + LNSZ + LNSZ * d /\ LNSZ * d \in Nat
      BY <2>1, <3>2 DEF SIZE
    <3> HIDE DEF src, dst
    <3> QED
      BY <2>1, <3>1, <3>3
  <2>3. mvln(m, ln) = MOVE(m, src, dst, LNSZ)
    BY <1>2 DEF mvln
  <2> HIDE DEF src, dst
  <2>4. MOVE(m, src, dst, LNSZ) = Put(m, src, dst, LNSZ)
    BY <2>1, <2>2, Forward
  <2>5. Keeps(m, MOVE(m, src, dst, LNSZ))
    BY <2>1, <2>2, MoveKeeps
  <2>6. ASSUME m \in [Memory -> Vals] PROVE Put(m, src, dst, LNSZ) \in [Memory -> Vals]
    <3>1. \A a : At(m, a) \in Vals
      BY <2>6 DEF At
    <3> QED
      BY <2>6, <3>1 DEF Put
  <2> QED
    BY <2>3, <2>4, <2>5, <2>6
<1> QED
  BY <1>1, <1>2

\* Line after line is moved down, from the last but one.
LEMMA DownKeeps ==
  ASSUME NEW m, IsMemory(m), NEW p \in Places
  PROVE  Keeps(m, DownFrom(m, p))
<1> DEFINE u == LINES - 1 - (p \div LNSZ)
           Vals == {m[x] : x \in Memory} \cup {"?"}
           V == {k \in [Memory -> Vals] : Keeps(m, k)}
           go(k, i) == mvln(k, LINES - 1 - i)
           Step(f) == [i \in 0..u |-> IF i = 0 THEN m ELSE go(f[i - 1], i)]
           step == [i \in 1..u |-> [k \in V |-> go(k, i)]]
           at == CHOOSE f : f = Step(f)
<1>1. u \in Nat /\ \A i \in 1..u : LINES - 1 - i \in 0..(LINES - 1)
  <2> DEFINE q == p \div LNSZ
  <2>1. q \in 0..(LINES - 1) /\ LINES \in Nat
    BY LineOf, Sizes
  <2>2. u = LINES - 1 - q
    OBVIOUS
  <2> HIDE DEF q, u
  <2> QED
    BY <2>1, <2>2
<1> HIDE DEF u
<1>2. m \in V
  BY DEF IsMemory, Keeps
<1>3. ASSUME NEW k \in V, NEW i \in 1..u PROVE go(k, i) \in V
  <2> DEFINE ln == LINES - 1 - i
  <2>1. k \in [Memory -> Vals] /\ Keeps(m, k) /\ IsMemory(k) /\ "?" \in Vals
    BY DEF Keeps
  <2>2. ln \in 0..(LINES - 1)
    BY <1>1
  <2>3. go(k, i) = mvln(k, ln)
    OBVIOUS
  <2> HIDE DEF ln, Vals, go
  <2>4. Keeps(k, mvln(k, ln)) /\ mvln(k, ln) \in [Memory -> Vals]
    BY <2>1, <2>2, LineKeeps
  <2>5. Keeps(m, mvln(k, ln))
    BY <2>1, <2>4, KeepsAll
  <2> QED
    BY <2>3, <2>4, <2>5
<1>4. DownFrom(m, p) = at[u]
  BY DEF DownFrom, u
<1>5. \A k \in V : Keeps(m, k)
  OBVIOUS
<1> HIDE DEF V, go
<1>6. step \in [1..u -> [V -> V]]
  BY <1>3
<1>7. PICK f : Steps(f, V, m, u, step)
  <2> HIDE DEF step
  <2> QED
    BY <1>1, <1>2, <1>6, Repeated
<1>8. f = Step(f)
  <2>1. ASSUME NEW i \in 0..u PROVE f[i] = IF i = 0 THEN m ELSE go(f[i - 1], i)
    <3>1. i # 0 => i \in 1..u /\ f[i - 1] \in V
      BY <1>1, <1>7 DEF Steps
    <3> QED
      BY <1>7, <3>1 DEF Steps
  <2>2. f = [i \in 0..u |-> f[i]]
    BY <1>7 DEF Steps
  <2> QED
    BY <2>1, <2>2
<1>9. at = Step(at)
  BY <1>8
<1> HIDE DEF at
<1> DEFINE S == {i \in 0..u : at[i] \in V}
<1>10. 0 \in S
  BY <1>1, <1>2, <1>9
<1>11. ASSUME NEW i \in 1..u, i - 1 \in S PROVE i \in S
  BY <1>1, <1>3, <1>9, <1>11
<1>12. 0..u \subseteq S
  <2> HIDE DEF S
  <2> QED
    BY <1>1, <1>10, <1>11, UpTo
<1>13. at[u] \in V
  BY <1>1, <1>12
<1> QED
  BY <1>4, <1>5, <1>13

-----------------------------------------------------------------------------
(* Words and keys.                                                         *)

Inv ==
  /\ IsMemory(mem)
  /\ EDPOS \in Int /\ PREVPOS \in Int
  /\ IBUF.len \in Nat /\ FBUF.len \in Nat
  /\ MARKS = [u \in Numbers |-> MARKS[u]] /\ \A u \in Numbers : MARKS[u].pos \in Int

Within == Keeps(mem, mem') /\ EDPOS' \in Places

\* What the person may type and the places are.
LEMMA Inputs ==
  /\ \A t \in Typed : t \in Seq(Chars \cup {" "}) /\ Len(t) \in Nat
  /\ \A u \in Numbers : u \in Nat /\ acc(u) \in Nat
  /\ Places \subseteq Nat /\ Places \subseteq Int /\ 0 \in Int
<1>1. \A t \in Typed : t \in Seq(Chars \cup {" "}) /\ Len(t) \in Nat
  <2> SUFFICES ASSUME NEW t \in Typed PROVE t \in Seq(Chars \cup {" "}) /\ Len(t) \in Nat
    OBVIOUS
  <2>1. t \in Seq(Chars \cup {" "})
    BY TypedAssumption
  <2>2. \A A : \A q \in Seq(A) : Len(q) \in Nat
    OBVIOUS
  <2> QED
    BY <2>1, <2>2, Zenon
<1>2. \A u \in Numbers : u \in Nat /\ acc(u) \in Nat
  <2> SUFFICES ASSUME NEW u \in Numbers PROVE u \in Nat /\ acc(u) \in Nat
    OBVIOUS
  <2>1. u \in Nat
    BY NumbersAssumption
  <2> QED
    BY <2>1 DEF acc
<1>3. Places \subseteq Nat /\ Places \subseteq Int
  BY Sizes DEF Places
<1>4. 0 \in Int
  OBVIOUS
<1> QED
  BY <1>1, <1>2, <1>3, <1>4

\* A buffer typed into has a length.
LEMMA TypeLen ==
  ASSUME NEW buf, buf.len \in Nat, NEW t \in Typed, NEW pad
  PROVE  Type(buf, t, pad).len \in Nat
  BY Inputs DEF Type

\* pos! clamps.
LEMMA PosStays ==
  ASSUME EDPOS \in Places, NEW p \in Int, pos(p)
  PROVE  EDPOS' \in Places /\ PREVPOS' = EDPOS
  BY Sizes DEF pos, Places, Least

\* A block read fills the buffer and nothing after it.
LEMMA HoldsKeeps ==
  ASSUME IsMemory(mem), NEW p
  PROVE  Keeps(mem, Holds(p))
<1>1. DOMAIN mem = Memory
  BY DEF IsMemory
<1>2. Holds(p) = [a \in Memory |-> IF a < SIZE THEN p[a] ELSE mem[a]]
  BY <1>1 DEF Holds
<1>3. \A x \in Beyond : x \in Memory /\ ~(x < SIZE)
  BY Outside, Sizes
<1> QED
  BY <1>2, <1>3 DEF IsMemory, Keeps

LEMMA FetchKeeps ==
  ASSUME IsMemory(mem), NEW n, BLKfetch(n)
  PROVE  Keeps(mem, mem')
<1>1. CASE n = BLKat
  BY <1>1 DEF BLKfetch, Keeps
<1>2. CASE n # BLKat
  <2>1. mem' = Holds(disk'[n])
    BY <1>2 DEF BLKfetch
  <2> QED
    BY <2>1, HoldsKeeps
<1> QED
  BY <1>1, <1>2

\* O and o clear one line of the block.
LEMMA OpenKeeps ==
  ASSUME IsMemory(mem), NEW p \in Places, OpenAt(p)
  PROVE  Within /\ PREVPOS' \in Int
<1> DEFINE line == p - (p % LNSZ)
           down == DownFrom(mem, p)
<1>1. line \in Nat /\ LNSZ \in Nat /\ line + LNSZ <= SIZE /\ line \in Places
  <2>1. line \in Nat /\ line + LNSZ <= SIZE /\ LNSZ \in Nat \ {0} /\ SIZE \in Nat
    BY LineOf, Sizes
  <2> HIDE DEF line
  <2> QED
    BY <2>1 DEF Places
<1>2. EDPOS' = line /\ PREVPOS' = p /\ mem' = FILL(down, line, LNSZ)
  BY DEF OpenAt, Changed
<1> HIDE DEF line
<1>3. Keeps(mem, down)
  BY DownKeeps
<1> HIDE DEF down
<1>4. Keeps(down, FILL(down, line, LNSZ))
  BY <1>1, <1>3, FillKeeps DEF Keeps
<1> QED
  BY <1>1, <1>2, <1>3, <1>4, KeepsAll, Inputs DEF Within

-----------------------------------------------------------------------------
(* The words of ED, some of which are keys of VE too.                      *)

\* T's lines start in the block.
LEMMA LineStart ==
  ASSUME NEW u \in 1..LINES
  PROVE  (u - 1) * LNSZ \in Places
<1>1. LNSZ \in Nat \ {0} /\ LINES \in Nat \ {0} /\ u - 1 \in Nat /\ LINES - u \in Nat
  BY Sizes
<1>2. PICK k \in Nat, d \in Nat : k = u - 1 /\ LINES = (k + 1) + d
  <2>1. LINES = ((u - 1) + 1) + (LINES - u)
    BY <1>1
  <2> QED
    BY <1>1, <2>1
<1>3. SIZE = k * LNSZ + LNSZ + d * LNSZ /\ k * LNSZ \in Nat /\ d * LNSZ \in Nat
  BY <1>1, <1>2 DEF SIZE
<1> QED
  BY <1>1, <1>2, <1>3 DEF Places

\* All but P and U, in either editor.
LEMMA WordsStay ==
  ASSUME Inv, Inside,
         \/ \E u \in 1..LINES : T(u)
         \/ \E s \in Typed, pad \in {" ", "0"} : F(s, pad) \/ I(s, pad)
         \/ \E u \in Nat : X(u)
         \/ \E n : G(n)
         \/ E \/ Y \/ VE
  PROVE  Inv' /\ Within
<1>1. /\ EDPOS \in Places /\ EDPOS \in Nat /\ Places \subseteq Int
      /\ IsMemory(mem) /\ IBUF.len \in Nat /\ FBUF.len \in Nat
  BY Inputs DEF Inside, Inv
<1>2. ASSUME NEW u \in 1..LINES, T(u) PROVE Inv' /\ Within
  <2>1. (u - 1) * LNSZ \in Places
    BY LineStart
  <2>2. /\ EDPOS' \in Places
        /\ UNCHANGED <<mem, PREVPOS, IBUF, FBUF, MARKS>>
    BY <1>2, <2>1 DEF T, SameText, SameBuffers, SameRest
  <2> QED
    BY <1>1, <2>2 DEF Inv, Within, Keeps
<1>3. ASSUME NEW s \in Typed, NEW pad, F(s, pad) PROVE Inv' /\ Within
  <2>1. /\ FBUF' = Type(FBUF, s, pad) /\ EDPOS' = FindIn(mem, EDPOS, FBUF')
        /\ UNCHANGED <<mem, PREVPOS, IBUF, MARKS>>
    BY <1>3 DEF F, SameText, SameRest
  <2>2. FBUF'.len \in Nat
    BY <1>1, <2>1, TypeLen
  <2>3. EDPOS' \in Places
    BY <1>1, <2>1, FindRange
  <2> QED
    BY <1>1, <2>1, <2>2, <2>3 DEF Inv, Within, Keeps
<1>4. ASSUME NEW s \in Typed, NEW pad, I(s, pad) PROVE Inv' /\ Within
  <2>1. /\ IBUF' = Type(IBUF, s, pad) /\ mem' = Insert(mem, IBUF')
        /\ UNCHANGED <<EDPOS, PREVPOS, FBUF, MARKS>>
    BY <1>4 DEF I, Changed, SamePlace, SameRest
  <2>2. IBUF'.len \in Nat
    BY <1>1, <2>1, TypeLen
  <2>3. Keeps(mem, mem')
    BY <1>1, <2>1, <2>2, InsertKeeps
  <2> QED
    BY <1>1, <2>1, <2>2, <2>3 DEF Inv, Within, Keeps
<1>5. ASSUME NEW u \in Nat, X(u) PROVE Inv' /\ Within
  <2>1. Keeps(mem, del(mem, u)) /\ Least(u, rbufsz) \in Nat
    BY <1>1, DelKeeps
  <2>2. UNCHANGED <<EDPOS, PREVPOS, FBUF, MARKS>>
    BY <1>5 DEF X, SamePlace, SameRest
  <2>3. \/ UNCHANGED <<mem, IBUF>>
        \/ IBUF' = icpy(Least(u, rbufsz)) /\ mem' = del(mem, u)
    BY <1>5 DEF X, SameText, Changed
  <2>4. IBUF'.len \in Nat
    <3>1. \A n : icpy(n).len = n
      BY DEF icpy, Copied
    <3> QED
      BY <1>1, <2>1, <2>3, <3>1
  <2>5. Keeps(mem, mem')
    BY <1>1, <2>1, <2>3 DEF Keeps
  <2> QED
    BY <1>1, <2>2, <2>4, <2>5 DEF Inv, Within, Keeps
<1>6. ASSUME NEW n, G(n) PROVE Inv' /\ Within
  <2>1. BLKfetch(n) /\ UNCHANGED <<EDPOS, PREVPOS, IBUF, FBUF, MARKS>>
    BY <1>6 DEF G, SamePlace, SameBuffers, SameRest
  <2>2. Keeps(mem, mem')
    BY <1>1, <2>1, FetchKeeps
  <2> QED
    BY <1>1, <2>1, <2>2 DEF Inv, Within, Keeps
<1>7. ASSUME E PROVE Inv' /\ Within
  <2>1. Keeps(mem, del(mem, FBUF.len)) /\ Least(FBUF.len, rbufsz) \in Nat
    BY <1>1, DelKeeps
  <2>2. /\ UNCHANGED <<EDPOS, PREVPOS, FBUF, MARKS>>
        /\ IBUF' = icpy(Least(FBUF.len, rbufsz)) /\ mem' = del(mem, FBUF.len)
    BY <1>7 DEF E, Changed, SamePlace, SameRest
  <2>3. IBUF'.len \in Nat
    BY <2>1, <2>2 DEF icpy, Copied
  <2> QED
    BY <1>1, <2>1, <2>2, <2>3 DEF Inv, Within, Keeps
<1>8. ASSUME Y PROVE Inv' /\ Within
  <2>1. IBUF' = FBUF /\ UNCHANGED <<mem, EDPOS, PREVPOS, FBUF, MARKS>>
    BY <1>8 DEF Y, SameText, SamePlace, SameRest
  <2> QED
    BY <1>1, <2>1 DEF Inv, Within, Keeps
<1>9. ASSUME VE PROVE Inv' /\ Within
  <2>1. PREVPOS' \in Int /\ UNCHANGED <<mem, EDPOS, IBUF, FBUF, MARKS>>
    <3>1. PREVPOS' = 0
      BY <1>9 DEF VE
    <3>2. UNCHANGED <<mem, EDPOS, IBUF, FBUF, MARKS>>
      BY <1>9 DEF VE, SameText, SameBuffers
    <3>3. PREVPOS' \in Int
      BY <3>1, Inputs, Zenon
    <3> QED
      BY <3>2, <3>3
  <2> QED
    BY <1>1, <2>1 DEF Inv, Within, Keeps
<1> QED
  BY <1>2, <1>3, <1>4, <1>5, <1>6, <1>7, <1>8, <1>9

\* P and U put a whole line at the cursor, wherever it is.
LEMMA LinePut ==
  ASSUME Inv, Inside, NEW s \in Typed, P(s) \/ U(s)
  PROVE  Inv' /\ EDPOS' \in Places /\ (EDPOS <= SIZE - LNSZ => Keeps(mem, mem'))
<1>1. /\ EDPOS \in Places /\ EDPOS \in Nat /\ IsMemory(mem) /\ IBUF.len \in Nat
      /\ LNSZ \in Nat /\ SIZE \in Nat
  BY Inputs, Sizes DEF Inside, Inv
<1>2. IBUF' = Type(IBUF, s, " ") /\ UNCHANGED <<EDPOS, PREVPOS, FBUF, MARKS>>
  BY DEF P, U, SamePlace, SameRest
<1>3. IBUF'.len \in Nat
  BY <1>1, <1>2, TypeLen
<1>4. PICK k : Keeps(mem, k) /\ mem' = Paste(k, IBUF', EDPOS, LNSZ)
  <2>1. CASE P(s)
    <3>1. mem' = Paste(mem, IBUF', EDPOS, LNSZ)
      BY <2>1 DEF P, Changed
    <3>2. Keeps(mem, mem)
      BY <1>1 DEF Keeps
    <3> QED
      BY <3>1, <3>2
  <2>2. CASE U(s)
    <3>1. mem' = Paste(DownFrom(mem, EDPOS), IBUF', EDPOS, LNSZ)
      BY <2>2 DEF U, Changed
    <3>2. Keeps(mem, DownFrom(mem, EDPOS))
      BY <1>1, DownKeeps
    <3> QED
      BY <3>1, <3>2
  <2> QED
    BY <2>1, <2>2
<1>5. IsMemory(k) /\ IsMemory(mem')
  BY <1>4 DEF Keeps, IsMemory, Paste
<1>6. ASSUME EDPOS <= SIZE - LNSZ PROVE Keeps(mem, mem')
  <2>1. EDPOS + LNSZ <= SIZE
    BY <1>1, <1>6
  <2>2. Keeps(k, mem')
    BY <1>1, <1>4, <1>5, <2>1, PasteKeeps
  <2> QED
    BY <1>4, <2>2, KeepsAll
<1> QED
  BY <1>1, <1>2, <1>3, <1>5, <1>6 DEF Inv

-----------------------------------------------------------------------------
(* The keys of VE.                                                         *)

\* A movement changes no text.
LEMMA MovesStay ==
  ASSUME Inv, Inside, NEW c, NEW u, NEW p \in Int, Moves(c, u, p)
  PROVE  Inv' /\ Within
<1>1. EDPOS \in Places /\ IsMemory(mem)
  BY DEF Inside, Inv
<1>2. pos(p) /\ UNCHANGED <<mem, IBUF, FBUF, MARKS>>
  BY DEF Moves, SameText, SameBuffers, SameRest
<1>3. EDPOS' \in Places /\ EDPOS' \in Int /\ PREVPOS' \in Int
  BY <1>1, <1>2, PosStays, Inputs
<1> QED
  BY <1>1, <1>2, <1>3 DEF Inv, Within, Keeps

LEMMA MotionStays ==
  ASSUME Inv, Inside, NEW u \in Numbers, Motion(u)
  PROVE  Inv' /\ Within
<1>1. EDPOS \in Places /\ EDPOS \in Int /\ LNSZ \in Nat /\ acc(u) \in Nat
  BY Inputs, Sizes DEF Inside
<1>2. /\ EDPOS - acc(u) \in Int /\ EDPOS + acc(u) \in Int
      /\ EDPOS - LNSZ * acc(u) \in Int /\ EDPOS + LNSZ * acc(u) \in Int
      /\ (acc(u) - 1) * LNSZ \in Int
  BY <1>1
<1>3. wordStart(acc(u)) \in Int /\ wordEnd(acc(u)) \in Int /\ wordBack(acc(u)) \in Int
  BY <1>1, WordStartRange, WordEndRange, WordBackRange
<1> QED
  BY <1>2, <1>3, MovesStay, Zenon DEF Motion

\* The search of N ends in the block or in one that is fetched.
LEMMA SearchStays ==
  ASSUME Inv, Inside, NEW u, N(u)
  PROVE  Inv' /\ Within
<1>1. EDPOS \in Places /\ IsMemory(mem) /\ 0 \in Places
  BY Sizes DEF Inside, Inv, Places
<1>2. UNCHANGED <<PREVPOS, IBUF, FBUF, MARKS>>
  BY DEF N, SameBuffers, SameRest
<1>3. EDPOS' \in Places /\ Keeps(mem, mem')
  <2> DEFINE here == FindIn(mem, EDPOS, FBUF)
             found(b) == FindIn(Holds(disk[b]), 0, FBUF)
  <2>1. here \in Places /\ \A b : found(b) \in Places
    BY <1>1, FindRange
  <2>2. \/ EDPOS' = here /\ mem' = mem
        \/ \E b : BLKfetch(b) /\ EDPOS' = found(b)
    BY DEF N, SameText
  <2> HIDE DEF here, found
  <2> QED
    BY <1>1, <2>1, <2>2, FetchKeeps DEF Keeps
<1>4. EDPOS' \in Int
  BY <1>3, Inputs
<1> QED
  BY <1>1, <1>2, <1>3, <1>4 DEF Inv, Within, Keeps

\* C is X's deletion and I's insertion at the same place.
LEMMA ChangeStays ==
  ASSUME Inv, Inside, NEW s \in Typed, C(s)
  PROVE  Inv' /\ Within
<1>1. EDPOS \in Places /\ EDPOS \in Int /\ IsMemory(mem) /\ FBUF.len \in Nat /\ IBUF.len \in Nat
  BY Inputs DEF Inside, Inv
<1>2. /\ IBUF' = Type(IBUF, s, "0") /\ mem' = Insert(del(mem, FBUF.len), IBUF')
      /\ UNCHANGED <<EDPOS, PREVPOS, FBUF, MARKS>>
  BY DEF C, Changed, SamePlace, SameRest
<1>3. IBUF'.len \in Nat
  BY <1>1, <1>2, TypeLen
<1>4. Keeps(mem, del(mem, FBUF.len))
  BY <1>1, DelKeeps
<1>5. Keeps(del(mem, FBUF.len), mem')
  BY <1>1, <1>2, <1>3, <1>4, InsertKeeps DEF Keeps
<1>6. Keeps(mem, mem')
  BY <1>4, <1>5, KeepsAll
<1> QED
  BY <1>1, <1>2, <1>3, <1>6 DEF Inv, Within, Keeps

\* L stays in the block.
LEMMA LineEndStays ==
  ASSUME Inv, Inside, L
  PROVE  Inv' /\ Within
<1>1. EDPOS \in Places /\ IsMemory(mem)
  BY DEF Inside, Inv
<1>2. CASE EDPOS % LNSZ = LNSZ - 1
  <2>1. UNCHANGED <<mem, EDPOS, PREVPOS, IBUF, FBUF, MARKS>>
    BY <1>2 DEF L, SamePlace, SameText, SameBuffers, SameRest
  <2> QED
    BY <1>1, <2>1 DEF Inv, Within, Keeps
<1>3. CASE EDPOS % LNSZ # LNSZ - 1
  <2>1. Moves("L", 0, lineEnd)
    BY <1>3 DEF L
  <2>2. lineEnd \in Int
    BY <1>1, LineEndRange
  <2> QED
    BY <2>1, <2>2, MovesStay
<1> QED
  BY <1>2, <1>3

\* f takes at most a line, wherever the other place is.
LEMMA TakeStays ==
  ASSUME Inv, Inside, Take
  PROVE  Inv' /\ Within
<1>1. /\ EDPOS \in Places /\ EDPOS \in Int /\ PREVPOS \in Int /\ IsMemory(mem)
      /\ FBUF.len \in Nat /\ LNSZ \in Nat
  BY Inputs, Sizes DEF Inside, Inv
<1>2. UNCHANGED <<mem, IBUF, MARKS>>
  BY DEF Take, SameText, SameRest
<1>3. \/ pos(PREVPOS)
      \/ UNCHANGED <<EDPOS, PREVPOS>>
  BY DEF Take, SamePlace
<1>4. EDPOS' \in Places /\ EDPOS' \in Int /\ PREVPOS' \in Int
  BY <1>1, <1>3, PosStays, Inputs
<1>5. FBUF'.len \in Nat
  <2> DEFINE a == Least(EDPOS, PREVPOS)
             b == EDPOS + PREVPOS - a
             n == Least(b - a, LNSZ)
  <2>1. n \in Nat
    BY <1>1 DEF Least
  <2>2. UNCHANGED FBUF \/ FBUF' = Copied(mem, a, n)
    BY DEF Take
  <2>3. Copied(mem, a, n).len = n
    BY DEF Copied
  <2> HIDE DEF a, n
  <2> QED
    BY <1>1, <2>1, <2>2, <2>3
<1> QED
  BY <1>1, <1>2, <1>4, <1>5 DEF Inv, Within, Keeps

\* O and o stay in the block.
LEMMA OpenStays ==
  ASSUME Inv, Inside, O \/ OpenBelow
  PROVE  Inv' /\ Within
<1>1. EDPOS \in Places /\ EDPOS \in Nat /\ IsMemory(mem) /\ LNSZ \in Nat /\ SIZE \in Nat
  BY Inputs, Sizes DEF Inside, Inv
<1>2. UNCHANGED <<IBUF, FBUF, MARKS>>
  BY DEF O, OpenBelow, SameBuffers, SameRest
<1>3. ASSUME NEW p \in Places, OpenAt(p) PROVE Within /\ PREVPOS' \in Int
  BY <1>1, <1>3, OpenKeeps
<1>4. CASE UNCHANGED <<mem, EDPOS, PREVPOS>>
  BY <1>1, <1>2, <1>4 DEF Inv, Within, Keeps
<1>5. CASE O
  <2>1. Within /\ PREVPOS' \in Int
    BY <1>1, <1>3, <1>5 DEF O
  <2> QED
    BY <1>2, <2>1, Inputs DEF Inv, Within, Keeps
<1>6. CASE OpenBelow /\ EDPOS < SIZE - LNSZ
  <2>1. EDPOS + LNSZ \in Places
    BY <1>1, <1>6 DEF Places
  <2>2. OpenAt(EDPOS + LNSZ)
    BY <1>6 DEF OpenBelow
  <2>3. Within /\ PREVPOS' \in Int
    BY <1>3, <2>1, <2>2
  <2> QED
    BY <1>2, <2>3, Inputs DEF Inv, Within, Keeps
<1>7. CASE OpenBelow /\ ~(EDPOS < SIZE - LNSZ)
  <2>1. UNCHANGED <<mem, EDPOS, PREVPOS>>
    BY <1>7 DEF OpenBelow, SamePlace, SameText
  <2> QED
    BY <1>4, <2>1
<1> QED
  BY <1>5, <1>6, <1>7

\* D moves what follows up to the line of the cursor and clears the end.
LEMMA DeleteStays ==
  ASSUME Inv, Inside, NEW u \in Numbers, D(u)
  PROVE  Inv' /\ Within
<1> DEFINE size == Least(acc(u) * LNSZ, SIZE - bol)
           moved == MOVE(mem, bol + size, bol, SIZE - bol)
<1>1. EDPOS \in Places /\ EDPOS \in Int /\ IsMemory(mem) /\ FBUF.len \in Nat
  BY Inputs DEF Inside, Inv
<1>2. /\ pos(bol) /\ UNCHANGED <<FBUF, MARKS>>
      /\ IBUF' = Copied(mem, bol, LNSZ) /\ mem' = FILL(moved, SIZE - size, size)
  BY DEF D, Changed, SameRest
<1>3. /\ bol \in Nat /\ bol \in Int /\ SIZE - bol \in Nat /\ LNSZ \in Nat /\ SIZE \in Nat
      /\ acc(u) * LNSZ \in Nat
  <2>1. bol \in Places /\ LNSZ \in Nat /\ SIZE \in Nat /\ acc(u) \in Nat
    BY <1>1, RestOfLine, Sizes, Inputs
  <2>2. bol \in Nat /\ bol < SIZE
    BY <2>1 DEF Places
  <2>3. acc(u) * LNSZ \in Nat
    BY <2>1
  <2> QED
    BY <2>1, <2>2, <2>3
<1>4. size \in Nat /\ size <= SIZE - bol
  BY <1>3 DEF Least
<1> HIDE DEF size
<1>5. Keeps(mem, moved)
  <2> DEFINE src == bol + size
             u0 == SIZE - bol
  <2>1. src \in Nat /\ u0 \in Nat /\ bol <= src /\ bol + u0 <= SIZE
    BY <1>3, <1>4
  <2> HIDE DEF src, u0
  <2>2. Keeps(mem, MOVE(mem, src, bol, u0))
    BY <1>1, <1>3, <2>1, MoveKeeps
  <2> QED
    BY <2>2 DEF src, u0
<1> HIDE DEF moved
<1>6. Keeps(moved, mem')
  <2> DEFINE a == SIZE - size
  <2>1. a \in Nat /\ a + size <= SIZE
    BY <1>3, <1>4
  <2>2. mem' = FILL(moved, a, size)
    BY <1>2
  <2> HIDE DEF a
  <2> QED
    BY <1>4, <1>5, <2>1, <2>2, FillKeeps DEF Keeps
<1>7. Keeps(mem, mem')
  BY <1>5, <1>6, KeepsAll
<1>8. EDPOS' \in Places /\ EDPOS' \in Int /\ PREVPOS' \in Int
  BY <1>1, <1>2, <1>3, PosStays, Inputs
<1>9. IBUF'.len \in Nat
  BY <1>2, <1>3 DEF Copied
<1> QED
  BY <1>1, <1>2, <1>7, <1>8, <1>9 DEF Inv, Within, Keeps

\* m and t: a mark is a place, wherever it was set.
LEMMA MarkStays ==
  ASSUME Inv, Inside, NEW u \in Numbers, Mark(u) \/ Recall(u)
  PROVE  Inv' /\ Within
<1>1. /\ EDPOS \in Places /\ EDPOS \in Int /\ IsMemory(mem)
      /\ MARKS = [v \in Numbers |-> MARKS[v]] /\ MARKS[u].pos \in Int
  BY Inputs DEF Inside, Inv
<1>2. CASE Mark(u)
  <2>1. /\ MARKS' = [MARKS EXCEPT ![u] = [blk |-> BLKat, pos |-> EDPOS]]
        /\ UNCHANGED <<mem, EDPOS, PREVPOS, IBUF, FBUF>>
    BY <1>2 DEF Mark, SameText, SameBuffers, SamePlace
  <2>2. MARKS' = [v \in Numbers |-> MARKS'[v]]
    BY <1>1, <2>1
  <2>3. ASSUME NEW v \in Numbers PROVE MARKS'[v].pos \in Int
    <3>1. MARKS'[v] = IF v = u THEN [blk |-> BLKat, pos |-> EDPOS] ELSE MARKS[v]
      BY <1>1, <2>1
    <3>2. MARKS[v].pos \in Int
      BY DEF Inv
    <3> QED
      BY <1>1, <3>1, <3>2
  <2> QED
    BY <1>1, <2>1, <2>2, <2>3 DEF Inv, Within, Keeps
<1>3. CASE Recall(u)
  <2>1. /\ pos(MARKS[u].pos) /\ BLKfetch(MARKS[u].blk)
        /\ UNCHANGED <<IBUF, FBUF, MARKS>>
    BY <1>3 DEF Recall, SameBuffers, SameRest
  <2>2. EDPOS' \in Places /\ EDPOS' \in Int /\ PREVPOS' \in Int
    BY <1>1, <2>1, PosStays, Inputs
  <2>3. Keeps(mem, mem')
    BY <1>1, <2>1, FetchKeeps
  <2> QED
    BY <2>1, <2>2, <2>3 DEF Inv, Within, Keeps
<1> QED
  BY <1>2, <1>3

\* & @ ! n, and the keys that change nothing but the mode.
LEMMA OthersStay ==
  ASSUME Inv, Inside, Wipe \/ Reload \/ Store \/ NextMatch \/ \E c, a : Enter(c, a)
  PROVE  Inv' /\ Within
<1>1. EDPOS \in Places /\ EDPOS \in Int /\ IsMemory(mem)
  BY Inputs DEF Inside, Inv
<1>2. CASE Wipe
  <2>1. /\ mem' = FILL(mem, 0, SIZE)
        /\ UNCHANGED <<EDPOS, PREVPOS, IBUF, FBUF, MARKS>>
    BY <1>2 DEF Wipe, Changed, SamePlace, SameBuffers, SameRest
  <2>2. 0 \in Nat /\ SIZE \in Nat /\ 0 + SIZE <= SIZE
    BY Sizes
  <2>3. Keeps(mem, mem')
    BY <1>1, <2>1, <2>2, FillKeeps
  <2> QED
    BY <1>1, <2>1, <2>3 DEF Inv, Within, Keeps
<1>3. CASE Reload
  <2>1. /\ mem' = Holds(disk[BLKat])
        /\ UNCHANGED <<EDPOS, PREVPOS, IBUF, FBUF, MARKS>>
    BY <1>3 DEF Reload, SamePlace, SameBuffers, SameRest
  <2>2. Keeps(mem, mem')
    BY <1>1, <2>1, HoldsKeeps
  <2> QED
    BY <1>1, <2>1, <2>2 DEF Inv, Within, Keeps
<1>4. CASE Store
  <2>1. UNCHANGED <<mem, EDPOS, PREVPOS, IBUF, FBUF, MARKS>>
    BY <1>4 DEF Store, SamePlace, SameBuffers, SameRest
  <2> QED
    BY <1>1, <2>1 DEF Inv, Within, Keeps
<1>5. CASE NextMatch
  <2>1. /\ EDPOS' = FindIn(mem, EDPOS, FBUF)
        /\ UNCHANGED <<mem, PREVPOS, IBUF, FBUF, MARKS>>
    BY <1>5 DEF NextMatch, SameText, SameBuffers, SameRest
  <2>2. EDPOS' \in Places /\ EDPOS' \in Int
    BY <1>1, <2>1, FindRange, Inputs
  <2> QED
    BY <1>1, <2>1, <2>2 DEF Inv, Within, Keeps
<1>6. CASE \E c, a : Enter(c, a)
  <2>1. UNCHANGED <<mem, EDPOS, PREVPOS, IBUF, FBUF, MARKS>>
    BY <1>6 DEF Enter, SameText, SamePlace, SameBuffers
  <2> QED
    BY <1>1, <2>1 DEF Inv, Within, Keeps
<1> QED
  BY <1>2, <1>3, <1>4, <1>5, <1>6

\* R writes in the block, but neither of its keys looks where the cursor goes.
LEMMA OverwritesOne ==
  ASSUME Inv, Inside, NEW c, Overtype(c) \/ Backspace
  PROVE  /\ Inv' /\ Keeps(mem, mem')
         /\ Overtype(c) /\ EDPOS # SIZE - 1 => EDPOS' \in Places
         /\ Backspace /\ EDPOS # 0 => EDPOS' \in Places
<1>1. /\ EDPOS \in Places /\ EDPOS \in Nat /\ EDPOS < SIZE /\ SIZE \in Nat
      /\ IsMemory(mem)
  <2>1. EDPOS \in Places /\ IsMemory(mem)
    BY Zenon DEF Inside, Inv
  <2>2. SIZE \in Nat
    BY Sizes
  <2>3. EDPOS \in Nat /\ EDPOS < SIZE
    BY <2>1, <2>2 DEF Places
  <2> QED
    BY <2>1, <2>2, <2>3
<1>2. CASE Overtype(c)
  <2>1. /\ mem' = [mem EXCEPT ![EDPOS] = c] /\ EDPOS' = EDPOS + 1
        /\ UNCHANGED <<PREVPOS, IBUF, FBUF, MARKS>>
    BY <1>2 DEF Overtype, Changed, SameBuffers, SameRest
  <2>2. \A x \in Beyond : x # EDPOS
    BY <1>1, Outside
  <2>3. Keeps(mem, mem')
    BY <1>1, <2>1, <2>2, Outside DEF Keeps, IsMemory
  <2>4. EDPOS' \in Int /\ (EDPOS # SIZE - 1 => EDPOS' \in Places)
    BY <1>1, <2>1 DEF Places
  <2>5. ~Backspace
    BY <1>2 DEF Overtype, Backspace, Given, Key
  <2> QED
    BY <2>1, <2>3, <2>4, <2>5 DEF Inv, Keeps
<1>3. CASE Backspace
  <2>1. EDPOS' = EDPOS - 1 /\ UNCHANGED <<mem, PREVPOS, IBUF, FBUF, MARKS>>
    BY <1>3 DEF Backspace, SameText, SameBuffers, SameRest
  <2>2. EDPOS' \in Int /\ (EDPOS # 0 => EDPOS' \in Places)
    BY <1>1, <2>1 DEF Places
  <2>3. ~Overtype(c)
    BY <1>3 DEF Overtype, Backspace, Given, Key
  <2> QED
    BY <1>1, <2>1, <2>2, <2>3 DEF Inv, Keeps
<1> QED
  BY <1>2, <1>3

Strayed ==
  \/ last'.cmd = "type" /\ EDPOS = SIZE - 1
  \/ last'.cmd = "back" /\ EDPOS = 0
  \/ last'.cmd \in {"P", "U"} /\ EDPOS > SIZE - LNSZ

\* Each word and key keeps what the others rely on, and all but those three stay.
LEMMA EachStays ==
  ASSUME Inv, Next
  PROVE  Inv' /\ (Within \/ Strayed)
<1>1. Inside /\ EDPOS \in Nat /\ SIZE \in Nat /\ LNSZ \in Nat
  BY Inputs, Sizes DEF Next, Inside
<1>2. CASE ED
  <2>1. CASE \E s \in Typed : P(s) \/ U(s)
    <3>1. PICK s \in Typed : P(s) \/ U(s)
      BY <2>1
    <3>2. Inv' /\ EDPOS' \in Places /\ (EDPOS <= SIZE - LNSZ => Keeps(mem, mem'))
      BY <1>1, <3>1, LinePut
    <3>3. last'.cmd \in {"P", "U"}
      <4>1. last' = Key("P", 0, s) \/ last' = Key("U", 0, s)
        BY <3>1 DEF P, U, Given
      <4>2. \A c : Key(c, 0, s).cmd = c
        BY DEF Key
      <4> QED
        BY <4>1, <4>2
    <3> QED
      BY <1>1, <3>2, <3>3 DEF Within, Strayed
  <2>2. CASE ~ \E s \in Typed : P(s) \/ U(s)
    <3>1. \/ \E u \in 1..LINES : T(u)
          \/ \E s \in Typed, pad \in {" ", "0"} : F(s, pad) \/ I(s, pad)
          \/ \E u \in Nat : X(u)
          \/ \E n : G(n)
          \/ E \/ Y \/ VE
      BY <1>2, <2>2, NumbersAssumption, Zenon DEF ED
    <3> QED
      BY <1>1, <3>1, WordsStay
  <2> QED
    BY <2>1, <2>2
<1>3. CASE Visual
  <2>1. CASE \E u \in Numbers : Motion(u) \/ Mark(u) \/ Recall(u) \/ D(u) \/ N(acc(u))
    BY <1>1, <2>1, MotionStays, MarkStays, DeleteStays, SearchStays
  <2>2. CASE \/ \E u \in Numbers : G(u) \/ G(BLKat - acc(u)) \/ G(BLKat + acc(u)) \/ X(acc(u))
             \/ \E s \in Typed : I(s, "0") \/ F(s, "0")
             \/ Y \/ E
    <3>1. \/ \E s \in Typed, pad \in {" ", "0"} : F(s, pad) \/ I(s, pad)
          \/ \E u \in Nat : X(u)
          \/ \E n : G(n)
          \/ E \/ Y
      BY <2>2, Inputs, Zenon
    <3> QED
      BY <1>1, <3>1, WordsStay
  <2>3. CASE \E s \in Typed : C(s)
    BY <1>1, <2>3, ChangeStays
  <2>4. CASE Moves("H", 0, bol)
    <3>1. bol \in Int
      BY <1>1, RestOfLine, Inputs DEF Inside
    <3> QED
      BY <1>1, <2>4, <3>1, MovesStay
  <2>5. CASE L \/ Take \/ O \/ OpenBelow
    BY <1>1, <2>5, LineEndStays, TakeStays, OpenStays
  <2>6. CASE NextMatch \/ Reload \/ Store \/ Wipe \/ Enter("R", "R") \/ Enter("q", "ED")
    BY <1>1, <2>6, OthersStay
  <2> QED
    BY <1>3, <2>1, <2>2, <2>3, <2>4, <2>5, <2>6, Zenon DEF Visual
<1>4. CASE Replacing
  <2>1. CASE \E c \in Chars : Overtype(c)
    <3>1. PICK c \in Chars : Overtype(c)
      BY <2>1
    <3>2. last'.cmd = "type"
      BY <3>1 DEF Overtype, Given, Key
    <3> QED
      BY <1>1, <3>1, <3>2, OverwritesOne DEF Within, Strayed
  <2>2. CASE Backspace
    <3>1. last'.cmd = "back"
      BY <2>2 DEF Backspace, Given, Key
    <3> QED
      BY <1>1, <2>2, <3>1, OverwritesOne DEF Within, Strayed
  <2>3. CASE Enter("return", "VE")
    BY <1>1, <2>3, OthersStay
  <2> QED
    BY <1>4, <2>1, <2>2, <2>3 DEF Replacing
<1> QED
  BY <1>2, <1>3, <1>4 DEF Next

\* At first the person is in the block and nothing after it is written.
LEMMA Starts == Init => Inv
<1> SUFFICES ASSUME Init PROVE Inv
  OBVIOUS
<1>1. IsMemory(mem)
  BY DEF Init, IsMemory, Memory
<1>2. EDPOS \in Int /\ PREVPOS \in Int
  BY Inputs DEF Init
<1>3. IBUF.len \in Nat
  BY DEF Init
<1>4. FBUF.len \in Nat
  <2>1. Len(FirstF) \in 1..LNSZ
    BY FirstFAssumption, Zenon
  <2>2. Len(<<>>) = 0
    OBVIOUS
  <2>3. Len(FirstF) \in Nat /\ Len(FirstF) # 0
    BY <2>1
  <2>4. FirstF # <<>>
    BY <2>2, <2>3, Zenon
  <2>5. FBUF = Type(<<>>, FirstF, " ")
    BY DEF Init
  <2>6. FBUF.len = Len(FirstF)
    BY <2>4, <2>5 DEF Type
  <2> QED
    BY <2>3, <2>6
<1>5. MARKS = [u \in Numbers |-> MARKS[u]] /\ \A u \in Numbers : MARKS[u].pos \in Int
  <2>1. MARKS = [u \in Numbers |-> [blk |-> 0, pos |-> 0]]
    BY DEF Init
  <2>2. \A u \in Numbers : MARKS[u].pos = 0
    BY <2>1
  <2> QED
    BY <2>1, <2>2
<1> QED
  BY <1>1, <1>2, <1>3, <1>4, <1>5 DEF Inv

\* The invariant the others rest on: no word or key loses a cell of the memory,
\* the length of a buffer or the place of a mark (blk.fs B20-B32).
THEOREM Invariance == Spec => []Inv
<1>1. Init => Inv
  BY Starts
<1>2. Inv /\ [Next]_vars => Inv'
  <2>1. ASSUME Inv, UNCHANGED vars PROVE Inv'
    BY <2>1 DEF Inv, vars
  <2> QED
    BY <2>1, EachStays
<1> QED
  BY <1>1, <1>2, PTL DEF Spec

\* What X and E cut, I right after them puts back, wherever the cursor is and in
\* blocks of any size (_del, _I and icpy of blk.fs).
THEOREM CutsUndone == Spec => []CutPaste
<1>1. Inv => CutPaste
  BY PutBack DEF Inv, CutPaste, Inside
<1> QED
  BY <1>1, Invariance, PTL

\* Whatever is typed, in blocks of any size, only R's two keys and P and U write
\* outside the block buffer or leave the cursor there (blk.fs B20-B32).
THEOREM StaysInside == Spec => Strays
<1>1. ASSUME Inv, [Next]_vars, Inside, ~Inside' PROVE Strayed
  <2>1. Next
    BY <1>1 DEF Inside, vars
  <2>2. Within => Inside'
    BY <1>1 DEF Within, Keeps, Inside
  <2> QED
    BY <1>1, <2>1, <2>2, EachStays
<1>2. Inv /\ [Next]_vars => [Inside /\ ~Inside' => Strayed]_vars
  BY <1>1
<1> QED
  BY <1>2, Invariance, PTL DEF Spec, Strays, Strayed

=============================================================================
