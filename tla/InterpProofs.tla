---------------------------- MODULE InterpProofs ----------------------------
(***************************************************************************)
(* The pointers of the interpreter stay together, for lines and blocks of  *)
(* any size and any text in them.  The step that could part them is the    *)
(* one past the last line: LOAD's loop looks at IN( only when a word has   *)
(* run, so it is the word \S after the buffer that must be run there, by   *)
(* no comment skipped, before LN< goes a line further.                     *)
(***************************************************************************)
EXTENDS Interp, SequenceTheorems, WellFoundedInduction, TLAPS

-----------------------------------------------------------------------------
(* Numbers.                                                                *)

LEMMA LessIsWellFounded == IsWellFoundedOn({p \in Nat \X Nat : p[1] < p[2]}, Nat)
  BY NatLessThanWellFounded DEF OpToRel

\* A set of numbers that is not empty has a least one.
LEMMA Least ==
  ASSUME NEW S, S \subseteq Nat, S # {}
  PROVE  \E m \in S : \A n \in S : m <= n
<1> DEFINE R == {p \in Nat \X Nat : p[1] < p[2]}
<1>1. IsWellFoundedOn(R, Nat)
  BY LessIsWellFounded
<1> HIDE DEF R
<1>2. PICK m \in S : \A n \in S : <<n, m>> \notin R
  BY <1>1, WFMin
<1>3. ASSUME NEW n \in S PROVE m <= n
  <2>1. m \in Nat /\ n \in Nat
    BY <1>2, <1>3
  <2>2. <<n, m>> \in Nat \X Nat => <<n, m>> \in R \/ ~(n < m)
    BY Zenon DEF R
  <2>3. ~(n < m)
    BY <1>2, <1>3, <2>1, <2>2
  <2> QED
    BY <2>1, <2>3
<1> QED
  BY <1>2, <1>3

LEMMA Products ==
  ASSUME NEW w \in Nat, NEW n \in Nat, NEW i \in Nat
  PROVE  /\ i * w \in Nat /\ (i + 1) * w = i * w + w
         /\ i < n => i * w + w <= n * w
  OBVIOUS

\* Cell r of line i is the r-th cell of the i-th line.
LEMMA LineOfCell ==
  ASSUME NEW w \in Nat \ {0}, NEW i \in Nat, NEW r \in 0..(w - 1)
  PROVE  (i * w + r) \div w = i /\ (i * w + r) % w = r
  OBVIOUS

-----------------------------------------------------------------------------
(* Memory.                                                                 *)

LEMMA Sizes ==
  /\ LNSZ \in Nat \ {0} /\ LNSZ > 1 /\ Lines \in Nat \ {0}
  /\ BLKhi \in Nat /\ INBUF \in Nat /\ BLKhi > 0
  /\ INBUF > BLKhi + LNSZ + 1
<1>1. LNSZ \in Nat \ {0} /\ LNSZ > 1 /\ Lines \in Nat \ {0}
  BY SizeAssumption
<1>2. Lines * LNSZ \in Nat /\ Lines * LNSZ > 0
  BY <1>1
<1> QED
  BY <1>1, <1>2 DEF BLKhi, INBUF

\* The lines of the block, and the place after them.
LEMMA LinePlaces ==
  ASSUME NEW i \in 0..Lines
  PROVE  /\ i * LNSZ \in Nat /\ i * LNSZ <= BLKhi
         /\ i * LNSZ # BLKhi => /\ i + 1 \in 0..Lines /\ (i + 1) * LNSZ = i * LNSZ + LNSZ
                                /\ i * LNSZ + LNSZ <= BLKhi
<1>1. i \in Nat /\ LNSZ \in Nat /\ Lines \in Nat /\ i <= Lines
  BY Sizes
<1>2. i * LNSZ \in Nat /\ (i + 1) * LNSZ = i * LNSZ + LNSZ
  BY <1>1, Products
<1>3. i < Lines => i * LNSZ + LNSZ <= BLKhi
  BY <1>1, Products DEF BLKhi
<1>4. i = Lines => i * LNSZ = BLKhi
  BY DEF BLKhi
<1>5. BLKhi \in Nat
  BY Sizes
<1>6. CASE i < Lines
  BY <1>1, <1>2, <1>3, <1>5, <1>6
<1>7. CASE i = Lines
  BY <1>4, <1>5, <1>7
<1> QED
  BY <1>1, <1>6, <1>7

\* No word of a block loads or fetches one, and two are apart in their line.
LEMMA TextCells ==
  ASSUME NEW n \in Blks, NEW i \in 0..(Lines - 1), NEW r \in 0..(LNSZ - 1)
  PROVE  /\ TextCell(n, i * LNSZ + r).does \notin {"load", "fetch"}
         /\ r < LNSZ - 1 => \/ TextCell(n, i * LNSZ + r) = Space
                            \/ TextCell(n, i * LNSZ + r + 1) = Space
<1>1. LNSZ \in Nat \ {0} /\ i \in Nat /\ r \in Nat /\ i + 1 \in 1..Lines /\ r + 1 \in 1..LNSZ
  BY Sizes
<1>2. TextCell(n, i * LNSZ + r) = Texts[n][i + 1][r + 1]
  <2>1. (i * LNSZ + r) \div LNSZ = i /\ (i * LNSZ + r) % LNSZ = r
    BY <1>1, LineOfCell
  <2> QED
    BY <2>1 DEF TextCell
<1>3. Texts[n][i + 1][r + 1].does \notin {"load", "fetch"}
  BY <1>1, TextsAssumption
<1>4. ASSUME r < LNSZ - 1
      PROVE  Texts[n][i + 1][r + 1] = Space \/ TextCell(n, i * LNSZ + r + 1) = Space
  <2>1. r + 1 \in 0..(LNSZ - 1) /\ r + 1 \in 1..(LNSZ - 1)
    BY <1>1, <1>4
  <2>2. /\ (i * LNSZ + (r + 1)) \div LNSZ = i
        /\ (i * LNSZ + (r + 1)) % LNSZ = r + 1
    BY <1>1, <2>1, LineOfCell
  <2>3. i * LNSZ + r + 1 = i * LNSZ + (r + 1)
    BY <1>1, Products
  <2>4. TextCell(n, i * LNSZ + r + 1) = Texts[n][i + 1][(r + 1) + 1]
    BY <2>2, <2>3 DEF TextCell
  <2>5. Apart(Texts[n][i + 1])
    BY <1>1, LinesAssumption
  <2> QED
    BY <2>1, <2>4, <2>5 DEF Apart
<1> QED
  BY <1>2, <1>3, <1>4

-----------------------------------------------------------------------------
(* The pointers.                                                           *)

Bounds == INlo \in Nat /\ INat \in Nat /\ INlo <= INat /\ INat <= INhi

\* The keyboard's line, and no loop of LOAD around it.
Typing ==
  LNlt = "RDLN" => /\ INlo = INBUF
                   /\ pc # "test"
                   /\ pc = "load" \/ range = <<>>

\* A line of the block of the loop, or the one after it, where nothing but its
\* word \S is run; a comment that is open ends further in the block.
Loading ==
  LNlt = "next" =>
    /\ pc # "load" /\ range # <<>> /\ BLKat = range[1]
    /\ \E i \in 0..Lines : INlo = i * LNSZ
    /\ pc = "run" /\ INlo = BLKhi => INat = BLKhi
    /\ comment => \E p \in INat..(BLKhi - 1) : TextCell(BLKat, p).does = "close"
    /\ BLKINat \in INBUF..(INBUF + LNSZ)

\* The blocks LOADR is still to load are there.
Loads ==
  /\ pc = "load" => LNlt = "RDLN" /\ range # <<>>
  /\ comment => pc = "run"
  /\ range # <<>> => /\ range \in Blks \X Blks /\ range[1] <= range[2]
                     /\ range[1]..range[2] \subseteq Blks

Fields ==
  /\ LNlt \in {"RDLN", "next"}
  /\ BLKat \in Blks \cup {NoBlk}
  /\ inbuf \in Typed \cup {[i \in 1..LNSZ |-> Space]}
  /\ pc \in {"run", "load", "test"}
  /\ comment \in BOOLEAN
  /\ BLKINat \in 0..(INBUF + LNSZ)

Inv == Fields /\ Bounds /\ Typing /\ Loading /\ Loads

LEMMA InvInit == Init => Inv
<1> SUFFICES ASSUME Init PROVE Inv
  OBVIOUS
<1>1. /\ INlo = INBUF /\ INat = INBUF + LNSZ /\ LNlt = "RDLN"
      /\ BLKINat = INBUF /\ BLKat = NoBlk /\ inbuf = [i \in 1..LNSZ |-> Space]
      /\ range = <<>> /\ pc = "run" /\ comment = FALSE
  BY DEF Init
<1>2. Bounds
  BY <1>1, Sizes DEF Bounds, INhi
<1>3. Fields
  <2>1. BLKINat \in 0..(INBUF + LNSZ)
    BY <1>1, Sizes
  <2> QED
    BY <1>1, <2>1 DEF Fields
<1> QED
  BY <1>1, <1>2, <1>3 DEF Inv, Typing, Loading, Loads

-----------------------------------------------------------------------------
(* WORD.                                                                   *)

LEMMA WordIsFound ==
  ASSUME Bounds, NextAt # {}
  PROVE  /\ At \in Nat /\ INat <= At /\ At < INhi /\ Cell(At) # Space
         /\ \A p \in NextAt : At <= p
         /\ AfterAt \in Nat /\ At < AfterAt /\ AfterAt <= INhi
<1>1. INat \in Nat /\ INhi \in Nat
  BY Sizes DEF Bounds, INhi
<1>2. NextAt \subseteq Nat
  BY <1>1 DEF NextAt
<1>3. \E p \in NextAt : \A q \in NextAt : p <= q
  BY <1>2, Least
<1>4. At \in NextAt /\ \A q \in NextAt : At <= q
  BY <1>3, Zenon DEF At
<1>5. At \in Nat /\ INat <= At /\ At < INhi /\ Cell(At) # Space
  BY <1>1, <1>4 DEF NextAt
<1> QED
  BY <1>1, <1>4, <1>5 DEF AfterAt

\* Past its first line, the line after the block, LOAD finds \S at once.
LEMMA AfterBlock ==
  ASSUME Inv, LNlt = "next", pc = "run", INlo = BLKhi
  PROVE  NextAt # {} /\ At = BLKhi /\ Cell(At) = StopWord /\ ~comment
<1>1. INat = BLKhi /\ INhi = BLKhi + LNSZ /\ ~comment
  BY Sizes DEF Inv, Loading, INhi
<1>2. Cell(BLKhi) = StopWord /\ StopWord # Space
  BY Sizes DEF Cell, StopWord, Space
<1>3. BLKhi \in NextAt
  BY <1>1, <1>2, Sizes DEF NextAt
<1>4. At \in Nat /\ BLKhi <= At /\ At <= BLKhi
  BY <1>1, <1>3, WordIsFound DEF Inv
<1>5. At = BLKhi
  BY <1>4, Sizes
<1> QED
  BY <1>1, <1>2, <1>3, <1>5

\* In a line of the block it finds a word of the text, and the next word is at
\* AfterAt or beyond.
LEMMA InBlock ==
  ASSUME Inv, LNlt = "next", INlo # BLKhi
  PROVE  /\ INhi <= BLKhi /\ \E i \in 0..Lines : INhi = i * LNSZ
         /\ \A p \in INlo..(INhi - 1) : Cell(p) = TextCell(BLKat, p)
         /\ BLKat \in Blks
         /\ NextAt # {} => /\ Cell(At).does \notin {"load", "fetch"}
                           /\ \A p \in (At + 1)..(BLKhi - 1) :
                                TextCell(BLKat, p) = Space \/ AfterAt <= p
<1>1. PICK i \in 0..Lines : INlo = i * LNSZ
  BY DEF Inv, Loading
<1>2. /\ i \in 0..(Lines - 1) /\ i + 1 \in 0..Lines
      /\ INhi = (i + 1) * LNSZ /\ INhi <= BLKhi
      /\ INlo \in Nat /\ INhi \in Nat /\ INhi = INlo + LNSZ
  BY <1>1, LinePlaces, Sizes DEF INhi, BLKhi
<1>3. BLKat \in Blks /\ BLKat # NoBlk
  BY BlksAssumption DEF Inv, Loading, Loads, NoBlk
<1>4. \A p \in INlo..(INhi - 1) : Cell(p) = TextCell(BLKat, p)
  BY <1>2, <1>3, Sizes DEF Cell
<1>5. ASSUME NextAt # {}
      PROVE  /\ Cell(At).does \notin {"load", "fetch"}
             /\ \A p \in (At + 1)..(BLKhi - 1) :
                  TextCell(BLKat, p) = Space \/ AfterAt <= p
  <2>1. /\ At \in Nat /\ INat <= At /\ At < INhi /\ Cell(At) # Space
        /\ INlo \in Nat /\ INat \in Nat /\ INlo <= INat
    BY <1>5, WordIsFound DEF Inv, Bounds
  <2> DEFINE r == At - INlo
  <2>2. r \in 0..(LNSZ - 1) /\ At = i * LNSZ + r
    BY <1>1, <1>2, <2>1, Sizes
  <2>3. Cell(At) = TextCell(BLKat, At)
    BY <1>2, <1>4, <2>1
  <2> HIDE DEF r
  <2>4. Cell(At).does \notin {"load", "fetch"}
    BY <1>2, <1>3, <2>2, <2>3, TextCells
  <2>5. r < LNSZ - 1 => TextCell(BLKat, At + 1) = Space
    BY <1>2, <1>3, <2>1, <2>2, <2>3, TextCells
  <2>6. ASSUME NEW p \in (At + 1)..(BLKhi - 1), TextCell(BLKat, p) # Space
        PROVE  AfterAt <= p
    <3>1. p \in Nat /\ At + 1 <= p
      BY <2>1, Sizes
    <3>2. CASE At + 2 > INhi
      BY <1>2, <2>1, <3>1, <3>2 DEF AfterAt
    <3>3. CASE ~(At + 2 > INhi)
      <4>1. r < LNSZ - 1
        BY <1>1, <1>2, <2>1, <2>2, <3>3, Sizes
      <4>2. p # At + 1
        BY <2>5, <2>6, <4>1
      <4> QED
        BY <2>1, <3>1, <3>3, <4>2 DEF AfterAt
    <3> QED
      BY <3>2, <3>3
  <2> QED
    BY <2>4, <2>6
<1> QED
  BY <1>2, <1>3, <1>4, <1>5

\* In the line that was typed it finds no \S, and loads blocks that are there.
LEMMA InTyped ==
  ASSUME Inv, LNlt = "RDLN", NextAt # {}
  PROVE  /\ Cell(At).does # "stop"
         /\ Cell(At).does = "fetch" => Cell(At).from \in Blks
         /\ Cell(At).does = "load" =>
              /\ Cell(At).from \in Blks /\ Cell(At).to \in Blks
              /\ Cell(At).from <= Cell(At).to
              /\ Cell(At).from..Cell(At).to \subseteq Blks
<1>1. INlo = INBUF /\ INhi = INBUF + LNSZ
  BY DEF Inv, Typing, INhi
<1>2. /\ At \in Nat /\ INBUF <= At /\ At < INBUF + LNSZ /\ Cell(At) # Space
  BY <1>1, WordIsFound, Sizes DEF Inv, Bounds
<1> DEFINE j == At + 1 - INBUF
<1>3. j \in 1..LNSZ
  BY <1>2, Sizes
<1>4. Cell(At) = inbuf[j]
  BY <1>2, Sizes DEF Cell
<1> HIDE DEF j
<1>5. inbuf \in Typed
  <2>1. ASSUME inbuf = [i \in 1..LNSZ |-> Space] PROVE FALSE
    BY <1>2, <1>3, <1>4, <2>1
  <2> QED
    BY <2>1 DEF Inv, Fields
<1> QED
  BY <1>3, <1>4, <1>5, TypedAssumption

-----------------------------------------------------------------------------
(* The steps.                                                              *)

LEMMA ReadLineKeeps == ASSUME Inv, ReadLine PROVE Inv'
<1>1. /\ LNlt = "RDLN" /\ inbuf' \in Typed /\ INat' = INlo
      /\ UNCHANGED <<INlo, LNlt, BLKINat, BLKat, range, pc, comment>>
  BY DEF ReadLine
<1> USE DEF Inv
<1>2. Bounds'
  BY <1>1, Sizes DEF Bounds, INhi
<1> QED
  BY <1>1, <1>2 DEF Fields, Typing, Loading, Loads

\* The line after the block is left by \S only, so the next line is one of the
\* block's, or that one.
LEMMA NextLineKeeps == ASSUME Inv, NextLine PROVE Inv'
<1>1. /\ LNlt = "next" /\ pc = "run" /\ NextAt = {} /\ INlo' = INhi /\ INat' = INhi
      /\ UNCHANGED <<LNlt, BLKINat, BLKat, inbuf, range, pc, comment>>
  BY DEF NextLine
<1> USE DEF Inv
<1>2. INlo # BLKhi
  BY <1>1, AfterBlock
<1>3. Bounds'
  BY <1>1, Sizes DEF Bounds, INhi
<1>4. comment => \E p \in INhi..(BLKhi - 1) : TextCell(BLKat, p).does = "close"
  <2>1. SUFFICES ASSUME comment
                 PROVE  \E p \in INhi..(BLKhi - 1) : TextCell(BLKat, p).does = "close"
    OBVIOUS
  <2>2. PICK p \in INat..(BLKhi - 1) : TextCell(BLKat, p).does = "close"
    BY <1>1, <2>1 DEF Loading
  <2>3. /\ p \in Nat /\ INat <= p /\ INhi \in Nat /\ INat \in Nat /\ INlo \in Nat
        /\ INlo <= INat /\ p <= BLKhi - 1
    BY Sizes DEF Bounds, INhi
  <2>4. ASSUME p < INhi PROVE FALSE
    <3>1. Cell(p) = TextCell(BLKat, p)
      BY <1>1, <1>2, <2>3, <2>4, InBlock
    <3>2. Cell(p) # Space
      BY <2>2, <3>1 DEF Space
    <3> QED
      BY <1>1, <2>3, <2>4, <3>2 DEF NextAt
  <2> QED
    BY <2>2, <2>3, <2>4, Sizes
<1>5. \E i \in 0..Lines : INlo' = i * LNSZ
  BY <1>1, <1>2, InBlock
<1>6. Loading'
  BY <1>1, <1>4, <1>5 DEF Loading
<1> QED
  BY <1>1, <1>3, <1>6 DEF Fields, Typing, Loads

\* A word that only moves IN> past itself.
LEMMA WordPassed ==
  ASSUME Inv, pc = "run", NextAt # {}, INat' = AfterAt,
         UNCHANGED <<INlo, LNlt, BLKINat, inbuf, range>>,
         LNlt = "next" => UNCHANGED BLKat /\ INlo # BLKhi,
         BLKat' \in Blks \cup {NoBlk}, comment' \in BOOLEAN,
         (Returned /\ ~comment') \/ (pc' = "run" /\ comment' = TRUE),
         LNlt = "next" /\ comment' =>
           \E p \in AfterAt..(BLKhi - 1) : TextCell(BLKat, p).does = "close"
  PROVE  Inv'
<1> USE DEF Inv
<1>1. Bounds'
  BY WordIsFound, Sizes DEF Bounds, INhi
<1>2. Fields'
  <2>1. CASE Returned /\ ~comment'
    <3>1. pc' \in {"run", "load", "test"}
      BY <2>1 DEF Returned
    <3> QED
      BY <3>1, Zenon DEF Fields
  <2>2. CASE pc' = "run" /\ comment' = TRUE
    BY <2>2, Zenon DEF Fields
  <2> QED
    BY <2>1, <2>2
<1>3. Typing'
  BY DEF Typing, Returned
<1>4. Loading'
  BY DEF Loading, Returned
<1>5. Loads'
  BY DEF Loads, Returned
<1> QED
  BY <1>1, <1>2, <1>3, <1>4, <1>5

LEMMA SkipKeeps == ASSUME Inv, Skip PROVE Inv'
<1>1. /\ pc = "run" /\ comment /\ NextAt # {} /\ INat' = AfterAt
      /\ UNCHANGED <<INlo, LNlt, BLKINat, BLKat, inbuf, range>>
      /\ \/ Cell(At).does = "close" /\ comment' = FALSE /\ Returned
         \/ Cell(At).does # "close" /\ UNCHANGED <<comment, pc>>
  BY DEF Skip
<1>2. LNlt = "next" => INlo # BLKhi
  BY <1>1, AfterBlock
<1>3. ASSUME LNlt = "next", Cell(At).does # "close"
      PROVE  \E p \in AfterAt..(BLKhi - 1) : TextCell(BLKat, p).does = "close"
  <2>1. PICK p \in INat..(BLKhi - 1) : TextCell(BLKat, p).does = "close"
    BY <1>1, <1>3 DEF Inv, Loading
  <2>2. /\ INat \in Nat /\ p \in Nat /\ INat <= p /\ p <= BLKhi - 1
        /\ INlo \in Nat /\ INlo <= INat /\ INhi \in Nat
    BY Sizes DEF Inv, Bounds, INhi
  <2>3. /\ At \in Nat /\ INat <= At /\ At < INhi /\ AfterAt \in Nat
        /\ \A q \in NextAt : At <= q
    BY <1>1, WordIsFound DEF Inv
  <2>4. \A q \in INlo..(INhi - 1) : Cell(q) = TextCell(BLKat, q)
    BY <1>2, <1>3, InBlock
  <2>5. p # At
    BY <1>3, <2>1, <2>2, <2>3, <2>4
  <2>6. TextCell(BLKat, p) # Space
    BY <2>1 DEF Space
  <2>7. At <= p
    <3>1. CASE p < INhi
      BY <2>2, <2>3, <2>4, <2>6, <3>1 DEF NextAt
    <3>2. CASE ~(p < INhi)
      BY <2>2, <2>3, <3>2
    <3> QED
      BY <3>1, <3>2
  <2>8. p \in (At + 1)..(BLKhi - 1)
    BY <2>2, <2>3, <2>5, <2>7, Sizes
  <2>9. AfterAt <= p
    BY <1>1, <1>2, <1>3, <2>6, <2>8, InBlock
  <2> QED
    BY <2>1, <2>2, <2>3, <2>9, Sizes
<1>4. /\ (Returned /\ ~comment') \/ (pc' = "run" /\ comment' = TRUE)
      /\ comment' => Cell(At).does # "close"
  <2>1. comment = TRUE
    BY <1>1 DEF Inv, Fields
  <2>2. CASE Cell(At).does = "close" /\ comment' = FALSE /\ Returned
    <3>1. ~comment' /\ Returned
      BY <2>2
    <3> QED
      BY <3>1, Zenon
  <2>3. CASE Cell(At).does # "close" /\ UNCHANGED <<comment, pc>>
    <3>1. comment' = TRUE /\ pc' = "run" /\ Cell(At).does # "close"
      BY <1>1, <2>1, <2>3
    <3> QED
      BY <3>1, Zenon
  <2> QED
    BY <1>1, <2>2, <2>3
<1>5. BLKat' \in Blks \cup {NoBlk}
  BY <1>1 DEF Inv, Fields
<1>6. comment' \in BOOLEAN
  <2>1. comment' = FALSE \/ comment' = comment
    BY <1>1
  <2> QED
    BY <2>1, Zenon DEF Inv, Fields
<1> QED
  BY <1>1, <1>2, <1>3, <1>4, <1>5, <1>6, WordPassed

LEMMA PlainKeeps == ASSUME Inv, Plain PROVE Inv'
<1>1. /\ pc = "run" /\ ~comment /\ NextAt # {} /\ Cell(At).does \in {"plain", "fetch"}
      /\ INat' = AfterAt /\ Returned
      /\ BLKat' = IF Cell(At).does = "fetch" THEN Cell(At).from ELSE BLKat
      /\ UNCHANGED <<INlo, LNlt, BLKINat, inbuf, range>> /\ comment' = comment
  BY DEF Plain, Reads
<1>2. LNlt = "next" => INlo # BLKhi
  <2>1. StopWord.does = "stop"
    BY DEF StopWord
  <2> QED
    BY <1>1, <2>1, AfterBlock
<1>3. LNlt = "next" => Cell(At).does # "fetch" /\ BLKat' = BLKat
  BY <1>1, <1>2, InBlock
<1>4. BLKat' \in Blks \cup {NoBlk}
  <2>1. CASE LNlt = "next"
    BY <1>3, <2>1 DEF Inv, Fields
  <2>2. CASE LNlt = "RDLN"
    BY <1>1, <2>2, InTyped DEF Inv, Fields
  <2> QED
    BY <2>1, <2>2 DEF Inv, Fields
<1>5. ~comment'
  BY <1>1
<1>6. (Returned /\ ~comment') \/ (pc' = "run" /\ comment' = TRUE)
  BY <1>1, <1>5, Zenon
<1>7. comment' \in BOOLEAN
  BY <1>1, Zenon DEF Inv, Fields
<1> QED
  BY <1>1, <1>2, <1>3, <1>4, <1>5, <1>6, <1>7, WordPassed

\* The comment a block opens ends in it.
LEMMA OpenKeeps == ASSUME Inv, Open PROVE Inv'
<1>1. /\ pc = "run" /\ NextAt # {} /\ Cell(At).does = "open"
      /\ INat' = AfterAt /\ comment' = TRUE /\ pc' = "run"
      /\ UNCHANGED <<INlo, LNlt, BLKINat, BLKat, inbuf, range>>
  BY DEF Open, Reads
<1>2. LNlt = "next" => INlo # BLKhi
  <2>1. StopWord.does = "stop"
    BY DEF StopWord
  <2> QED
    BY <1>1, <2>1, AfterBlock
<1>3. ASSUME LNlt = "next"
      PROVE  \E p \in AfterAt..(BLKhi - 1) : TextCell(BLKat, p).does = "close"
  <2>1. /\ At \in Nat /\ INat <= At /\ At < INhi /\ AfterAt \in Nat
        /\ INlo \in Nat /\ INat \in Nat /\ INlo <= INat /\ INhi \in Nat
    BY <1>1, WordIsFound, Sizes DEF Inv, Bounds, INhi
  <2>2. /\ INhi <= BLKhi /\ BLKat \in Blks
        /\ \A q \in INlo..(INhi - 1) : Cell(q) = TextCell(BLKat, q)
        /\ \A q \in (At + 1)..(BLKhi - 1) :
             TextCell(BLKat, q) = Space \/ AfterAt <= q
    BY <1>1, <1>2, <1>3, InBlock
  <2>3. At \in 0..(BLKhi - 1) /\ TextCell(BLKat, At).does = "open"
    BY <1>1, <2>1, <2>2, Sizes
  <2>4. Ends(BLKat)
    BY <2>2, TextsAssumption
  <2>5. PICK p \in (At + 1)..(BLKhi - 1) : TextCell(BLKat, p).does = "close"
    BY <2>3, <2>4 DEF Ends
  <2>6. TextCell(BLKat, p) # Space
    BY <2>5 DEF Space
  <2>7. AfterAt <= p
    BY <2>2, <2>5, <2>6
  <2> QED
    BY <2>1, <2>5, <2>7, Sizes
<1>4. (Returned /\ ~comment') \/ (pc' = "run" /\ comment' = TRUE)
  BY <1>1
<1>5. BLKat' \in Blks \cup {NoBlk}
  BY <1>1 DEF Inv, Fields
<1>6. comment' \in BOOLEAN
  BY <1>1, Zenon
<1> QED
  BY <1>1, <1>2, <1>3, <1>4, <1>5, <1>6, WordPassed

LEMMA BackslashKeeps == ASSUME Inv, Backslash PROVE Inv'
<1>1. /\ pc = "run" /\ ~comment /\ NextAt # {} /\ Cell(At).does = "line"
      /\ INat' = INhi /\ Returned /\ comment' = comment
      /\ UNCHANGED <<INlo, LNlt, BLKINat, BLKat, inbuf, range>>
  BY DEF Backslash, Reads
<1> USE DEF Inv
<1>2. LNlt = "next" => INlo # BLKhi
  <2>1. StopWord.does = "stop"
    BY DEF StopWord
  <2> QED
    BY <1>1, <2>1, AfterBlock
<1>3. ~comment'
  BY <1>1
<1>4. Bounds'
  BY <1>1, Sizes DEF Bounds, INhi
<1>5. Fields'
  BY <1>1, Zenon DEF Fields, Returned
<1>6. Typing'
  BY <1>1 DEF Typing, Returned
<1>7. Loading'
  BY <1>1, <1>2, <1>3 DEF Loading, Returned
<1>8. Loads'
  BY <1>1, <1>3 DEF Loads, Returned
<1> QED
  BY <1>4, <1>5, <1>6, <1>7, <1>8

\* \S is only run during a LOAD, and takes IN( to the line that ends it.
LEMMA BackslashSKeeps == ASSUME Inv, BackslashS PROVE Inv'
<1>1. /\ pc = "run" /\ ~comment /\ NextAt # {} /\ Cell(At).does = "stop"
      /\ INat' = BLKhi /\ INlo' = BLKhi /\ Returned /\ comment' = comment
      /\ UNCHANGED <<LNlt, BLKINat, BLKat, inbuf, range>>
  BY DEF BackslashS, Reads
<1> USE DEF Inv
<1>2. LNlt = "next"
  BY <1>1, InTyped DEF Fields
<1>3. pc' = "test" /\ ~comment'
  BY <1>1, <1>2 DEF Returned, Loading
<1>4. Bounds'
  BY <1>1, Sizes DEF Bounds, INhi
<1>5. Fields'
  BY <1>1, Zenon DEF Fields, Returned
<1>6. Loading'
  <2>1. Lines \in 0..Lines /\ BLKhi = Lines * LNSZ
    BY Sizes DEF BLKhi
  <2> QED
    BY <1>1, <1>2, <1>3, <2>1 DEF Loading
<1>7. Loads' /\ Typing'
  BY <1>1, <1>2, <1>3 DEF Loads, Typing
<1> QED
  BY <1>4, <1>5, <1>6, <1>7

LEMMA NotFoundKeeps == ASSUME Inv, NotFound PROVE Inv'
<1>1. /\ pc = "run" /\ ~comment /\ comment' = comment
      /\ INlo' = INBUF /\ LNlt' = "RDLN" /\ INat' = INBUF + LNSZ
      /\ range' = <<>> /\ pc' = "run"
      /\ UNCHANGED <<BLKINat, BLKat, inbuf>>
  BY DEF NotFound, Reads, INreset
<1>2. ~comment'
  BY <1>1
<1>3. Bounds'
  BY <1>1, Sizes DEF Bounds, INhi
<1>4. Fields'
  BY <1>1, Zenon DEF Inv, Fields
<1> QED
  BY <1>1, <1>2, <1>3, <1>4 DEF Inv, Typing, Loading, Loads

\* LOAD is typed: there is no loop that this one would be in.
LEMMA LOADRKeeps == ASSUME Inv, LOADR PROVE Inv'
<1>1. /\ pc = "run" /\ ~comment /\ NextAt # {} /\ Cell(At).does = "load"
      /\ INat' = AfterAt /\ comment' = comment
      /\ range' = <<Cell(At).from, Cell(At).to>> /\ pc' = "load"
      /\ UNCHANGED <<INlo, LNlt, BLKINat, BLKat, inbuf>>
  BY DEF LOADR, Reads
<1> USE DEF Inv
<1>2. LNlt = "RDLN"
  <2>1. StopWord.does = "stop"
    BY DEF StopWord
  <2> QED
    BY <1>1, <2>1, AfterBlock, InBlock DEF Fields
<1>3. /\ Cell(At).from \in Blks /\ Cell(At).to \in Blks
      /\ Cell(At).from <= Cell(At).to
      /\ Cell(At).from..Cell(At).to \subseteq Blks
  BY <1>1, <1>2, InTyped
<1>4. Bounds'
  BY <1>1, WordIsFound, Sizes DEF Bounds, INhi
<1>5. Fields'
  BY <1>1, Zenon DEF Fields
<1>6. ~comment'
  BY <1>1
<1> QED
  BY <1>1, <1>2, <1>3, <1>4, <1>5, <1>6 DEF Typing, Loading, Loads

LEMMA LOADKeeps == ASSUME Inv, LOAD PROVE Inv'
<1>1. /\ pc = "load" /\ BLKINat' = INat /\ LNlt' = "next" /\ BLKat' = range[1]
      /\ INlo' = 0 /\ INat' = 0 /\ pc' = "run" /\ comment' = comment
      /\ UNCHANGED <<inbuf, range>>
  BY DEF LOAD, BLKlo
<1> USE DEF Inv
<1>2. LNlt = "RDLN" /\ range # <<>> /\ ~comment /\ INlo = INBUF
  BY <1>1 DEF Loads, Typing
<1>3. range \in Blks \X Blks /\ range[1] \in Blks
  BY <1>2 DEF Loads
<1>4. INat \in INBUF..(INBUF + LNSZ) /\ INat \in 0..(INBUF + LNSZ)
  BY <1>2, Sizes DEF Bounds, INhi
<1>5. ~comment'
  BY <1>1, <1>2
<1>6. Bounds'
  BY <1>1, Sizes DEF Bounds, INhi
<1>7. Fields'
  BY <1>1, <1>3, <1>4, Zenon DEF Fields
<1>8. Loading'
  <2>1. 0 \in 0..Lines /\ 0 = 0 * LNSZ /\ 0 # BLKhi
    BY Sizes
  <2> QED
    BY <1>1, <1>2, <1>4, <1>5, <2>1 DEF Loading
<1> QED
  BY <1>1, <1>2, <1>5, <1>6, <1>7, <1>8 DEF Typing, Loads

LEMMA LoadTestKeeps == ASSUME Inv, LoadTest PROVE Inv'
<1>1. /\ pc = "test" /\ comment' = comment
      /\ UNCHANGED <<BLKINat, BLKat, inbuf>>
  BY DEF LoadTest
<1> USE DEF Inv
<1>2. LNlt = "next" /\ ~comment /\ range # <<>> /\ BLKINat \in INBUF..(INBUF + LNSZ)
  BY <1>1 DEF Fields, Typing, Loads, Loading
<1>3. ~comment'
  BY <1>1, <1>2
<1>4. /\ range \in Blks \X Blks /\ range[1] <= range[2]
      /\ range[1]..range[2] \subseteq Blks
      /\ range[1] \in Nat /\ range[2] \in Nat
  BY <1>2, BlksAssumption DEF Loads
<1>5. CASE Loaded /\ INreset /\ INat' = Resume
           /\ range' = (IF range[1] < range[2] THEN <<range[1] + 1, range[2]>> ELSE <<>>)
           /\ pc' = (IF range[1] < range[2] THEN "load" ELSE "run")
  <2>1. INlo' = INBUF /\ LNlt' = "RDLN" /\ INat' = BLKINat
    BY <1>5 DEF INreset, Resume
  <2>2. Bounds'
    BY <1>2, <2>1, Sizes DEF Bounds, INhi
  <2>3. pc' \in {"load", "run"} /\ (pc' = "load" \/ range' = <<>>)
    BY <1>5
  <2>4. Fields'
    BY <1>1, <2>1, <2>3, Zenon DEF Fields
  <2>5. CASE range[1] < range[2]
    <3>1. range' = <<range[1] + 1, range[2]>>
      BY <1>5, <2>5
    <3>2. /\ range[1] + 1 \in range[1]..range[2] /\ range[1] + 1 <= range[2]
          /\ (range[1] + 1)..range[2] \subseteq range[1]..range[2]
      BY <1>4, <2>5
    <3>3. range' \in Blks \X Blks /\ range'[1] <= range'[2]
          /\ range'[1]..range'[2] \subseteq Blks /\ range' # <<>>
      BY <1>4, <3>1, <3>2
    <3> QED
      BY <1>3, <2>1, <2>2, <2>3, <2>4, <3>3 DEF Typing, Loading, Loads
  <2>6. CASE ~(range[1] < range[2])
    <3>1. range' = <<>> /\ pc' = "run"
      BY <1>5, <2>6
    <3> QED
      BY <1>3, <2>1, <2>2, <2>4, <3>1 DEF Typing, Loading, Loads
  <2> QED
    BY <2>5, <2>6
<1>6. CASE ~Loaded /\ pc' = "run" /\ UNCHANGED <<INlo, INat, LNlt, range>>
  <2>1. INlo # BLKhi
    BY <1>6 DEF Loaded
  <2>2. Bounds'
    BY <1>6 DEF Bounds, INhi
  <2>3. Fields'
    <3>1. LNlt' = LNlt /\ pc' = "run"
      BY <1>6
    <3> QED
      BY <1>1, <3>1, Zenon DEF Fields
  <2>4. Loading'
    BY <1>1, <1>2, <1>3, <1>6, <2>1 DEF Loading
  <2> QED
    BY <1>2, <1>3, <1>6, <2>2, <2>3, <2>4 DEF Typing, Loads
<1> QED
  BY <1>5, <1>6 DEF LoadTest

LEMMA InvNext == Inv /\ [Next]_vars => Inv'
<1> SUFFICES ASSUME Inv, [Next]_vars PROVE Inv'
  OBVIOUS
<1>1. CASE ReadLine
  BY <1>1, ReadLineKeeps
<1>2. CASE NextLine
  BY <1>2, NextLineKeeps
<1>3. CASE Skip
  BY <1>3, SkipKeeps
<1>4. CASE Plain
  BY <1>4, PlainKeeps
<1>5. CASE Open
  BY <1>5, OpenKeeps
<1>6. CASE Backslash
  BY <1>6, BackslashKeeps
<1>7. CASE BackslashS
  BY <1>7, BackslashSKeeps
<1>8. CASE NotFound
  BY <1>8, NotFoundKeeps
<1>9. CASE LOADR
  BY <1>9, LOADRKeeps
<1>10. CASE LOAD
  BY <1>10, LOADKeeps
<1>11. CASE LoadTest
  BY <1>11, LoadTestKeeps
<1>12. CASE UNCHANGED vars
  BY <1>12 DEF vars, Inv, Fields, Bounds, INhi, Typing, Loading, Loads
<1> QED
  BY <1>1, <1>2, <1>3, <1>4, <1>5, <1>6, <1>7, <1>8, <1>9, <1>10, <1>11, <1>12
  DEF Next, INTERPRET

\* The invariant under which the pointers stay together.
THEOREM Invariance == Spec => []Inv
BY InvInit, InvNext, PTL DEF Spec

\* Every pointer stays in the memory the interpreter reads: IN> and IN( are in
\* the block buffer, in the line BLK$ put after it, or in the line typed.
THEOREM Types == Spec => []TypeOK
<1>1. Inv => TypeOK
  <2> SUFFICES ASSUME Inv PROVE TypeOK
    OBVIOUS
  <2> USE DEF Inv
  <2>1. INlo <= INBUF /\ INlo \in Nat
    <3>1. CASE LNlt = "RDLN"
      BY <3>1, Sizes DEF Typing
    <3>2. CASE LNlt = "next"
      <4>1. PICK i \in 0..Lines : INlo = i * LNSZ
        BY <3>2 DEF Loading
      <4> QED
        BY <4>1, LinePlaces, Sizes
    <3> QED
      BY <3>1, <3>2 DEF Fields
  <2>2. INat \in 0..(INBUF + LNSZ) /\ INlo \in 0..(INBUF + LNSZ)
    BY <2>1, Sizes DEF Bounds, INhi
  <2>3. range \in {<<>>} \cup (Blks \X Blks)
    BY DEF Loads
  <2> QED
    BY <2>2, <2>3, Zenon DEF TypeOK, Fields
<1> QED
  BY <1>1, Invariance, PTL

\* IN(, IN>, LN< and the loop of LOAD tell the same story at every word, after
\* an error in a block included.
THEOREM Together == Spec => []OneSource
<1>1. Inv => OneSource
  <2> SUFFICES ASSUME Inv PROVE OneSource
    OBVIOUS
  <2>1. ASSUME LNlt = "next" PROVE INBUF <= BLKINat /\ BLKINat <= INBUF + LNSZ
    BY <2>1, Sizes DEF Inv, Loading
  <2> QED
    BY <2>1 DEF Inv, OneSource, Bounds, Typing, Loading
<1> QED
  BY <1>1, Invariance, PTL
=============================================================================
