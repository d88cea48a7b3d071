-------------------------------- MODULE Editor --------------------------------
(***************************************************************************)
(* The block editors (blk.fs B20-B32, doc/ed.txt): the words of ED and the *)
(* keys of VE over the block buffer.  The buffer is flat memory; the text  *)
(* is moved byte by byte, and nothing but the words themselves keeps them  *)
(* from the cells after it, where the marker \S, BLK> and BLKDTY lie.      *)
(*                                                                         *)
(* A word, or a key with the digits before it and the text typed after it, *)
(* is one action; R is left by a key of its own, and each character typed  *)
(* in between is an action.  The screen is left out, and so are errors of  *)
(* the driver, which Blk is about.  A block is active all along, as VE     *)
(* sees to, F has been used, and the person stays within bounds the words  *)
(* do not check: T's number is a line, B, N, G, [ and ] stay on the medium.*)
(***************************************************************************)
EXTENDS Integers, Sequences, FiniteSets

CONSTANTS
  LNSZ, LINES,   \* 64 and 16: characters of a line, lines of a block
  Blks,          \* blocks of the medium, an interval
  Disks,         \* what the medium may hold at first
  Chars,         \* characters that are typed
  Typed,         \* texts that are typed, <<>> for none
  FirstF,        \* the text F has looked for
  Numbers,       \* what ACC may be, and X's argument
  MaxKeys        \* words and keys given

ASSUME SizeAssumption == LNSZ \in Nat \ {0} /\ LINES \in Nat \ {0}
ASSUME TypedAssumption == \A t \in Typed : t \in Seq(Chars \cup {" "}) /\ Len(t) <= LNSZ
ASSUME FirstFAssumption == FirstF \in Seq(Chars \cup {" "}) /\ Len(FirstF) \in 1 .. LNSZ
ASSUME NumbersAssumption == Numbers \subseteq Nat

SIZE == LNSZ * LINES
Places == 0 .. SIZE - 1
Beyond == SIZE .. SIZE + LNSZ - 1     \* BLK) and the cells after it
Cells == Chars \cup {" ", "0"}        \* "0" is a NUL

ASSUME DisksAssumption == \A d \in Disks : d \in [Blks -> [Places -> Cells]]

VARIABLES
  mem,       \* BLK( and Beyond, whose cells are "?" until they are written
  BLKat, BLKDTY, disk,
  EDPOS, PREVPOS, IBUF, FBUF, MARKS,
  app,       \* "ED", "VE", or "R" inside VE's R
  last,      \* the word or key given last, with ACC or argument and text
  keys

blkvars == <<BLKat, BLKDTY, disk>>
vars == <<mem, blkvars, EDPOS, PREVPOS, IBUF, FBUF, MARKS, app, last, keys>>

Key(c, n, t) == [cmd |-> c, n |-> n, t |-> t]
WS(c) == c \in {" ", "0"}

-----------------------------------------------------------------------------
(* Memory.                                                                 *)

At(m, a) == IF a \in DOMAIN m THEN m[a] ELSE "?"

MOVE(m, src, dst, u) ==
  LET to[i \in 0 .. u] ==
        IF i = 0 THEN m ELSE [to[i - 1] EXCEPT ![dst + i - 1] = At(to[i - 1], src + i - 1)]
  IN to[u]

\* MOVE- starts from the end.
MOVEm(m, src, dst, u) ==
  LET to[i \in 0 .. u] ==
        IF i = 0 THEN m ELSE [to[i - 1] EXCEPT ![dst + u - i] = to[i - 1][src + u - i]]
  IN to[u]

FILL(m, a, u) == [x \in DOMAIN m |-> IF x \in a .. a + u - 1 THEN " " ELSE m[x]]

\* u cells of a buffer to address a, and cells of the page to a buffer.
Paste(m, buf, a, u) ==
  [x \in DOMAIN m |-> IF x \in a .. a + u - 1 THEN buf.at[x - a + 1] ELSE m[x]]
Copied(m, a, n) ==
  [len |-> n, at |-> [i \in 1 .. LNSZ |-> IF i <= n THEN m[a + i - 1] ELSE " "]]

\* _type pads with spaces, buftype with what LNTYPE leaves, NUL; a buffer is
\* kept if nothing is typed.
Type(buf, t, pad) ==
  IF t = <<>> THEN buf
  ELSE [len |-> Len(t), at |-> [i \in 1 .. LNSZ |-> IF i <= Len(t) THEN t[i] ELSE pad]]

-----------------------------------------------------------------------------
(* Words on lines.                                                         *)

\* Mutant of rbufsz: one more than is left of the line.
rbufszOver == LNSZ + 1 - (EDPOS % LNSZ)

rbufsz == LNSZ - (EDPOS % LNSZ)
bol == EDPOS - (EDPOS % LNSZ)

mvln(m, ln) ==                                                   \* _mvln+
  IF ln > LINES - 2 THEN m ELSE MOVE(m, ln * LNSZ, (ln + 1) * LNSZ, LNSZ)

DownFrom(m, pos) ==                                              \* _U
  LET u == LINES - 1 - (pos \div LNSZ)
      at[i \in 0 .. u] == IF i = 0 THEN m ELSE mvln(at[i - 1], LINES - 1 - i)
  IN at[u]

\* Mutant of Insert: the rest of the line is moved from its start.
InsertForward(m, buf) ==
  LET n == IF buf.len < rbufsz THEN buf.len ELSE rbufsz
  IN Paste(MOVE(m, EDPOS, EDPOS + n, rbufsz - n), buf, EDPOS, n)

Insert(m, buf) ==                                                \* _I
  LET room == rbufsz
      more == buf.len < room
      n == IF more THEN buf.len ELSE room
      moved == IF more THEN MOVEm(m, EDPOS, EDPOS + buf.len, room - buf.len) ELSE m
  IN Paste(moved, buf, EDPOS, n)

Least(a, b) == IF a < b THEN a ELSE b

del(m, u) ==                                                     \* _del
  LET n == Least(u, rbufsz)
  IN IF u = 0 THEN m
     ELSE FILL(MOVE(m, EDPOS + n, EDPOS, rbufsz), bol + LNSZ - n, n)

icpy(n) == Copied(mem, EDPOS, n)

\* Where a buffer's text is next found in m after place p, or p.
FindIn(m, p, buf) ==                                                \* _F
  LET found(a) == \A i \in 1 .. buf.len : m[a + i - 1] = buf.at[i]
      from[a \in p + 1 .. SIZE] ==
        IF a = SIZE THEN p ELSE IF found(a) THEN a ELSE from[a + 1]
  IN from[p + 1]

-----------------------------------------------------------------------------
(* Pointers that look for a space or for anything else, forward and back.  *)
(* Past the buffer it does not matter where they stop: pos! clamps.        *)

Up(a, space) ==                                       \* word>>, ws>>
  LET f[x \in 0 .. SIZE + 1] ==
        IF x >= SIZE THEN SIZE + 1 ELSE IF WS(mem[x]) = space THEN x + 1 ELSE f[x + 1]
  IN f[a]
Back(a, space) ==                                     \* word<<, ws<<
  LET f[x \in -4 .. SIZE - 1] ==
        IF x < 0 THEN -2 ELSE IF WS(mem[x]) = space THEN x - 1 ELSE f[x - 1]
  IN f[a]

acc(n) == IF n = 0 THEN 1 ELSE n                      \* acc@

wordStart(n) == LET p[i \in 0 .. n] == IF i = 0 THEN EDPOS ELSE Up(Up(p[i - 1], TRUE), FALSE)
                IN p[n] - 1
wordEnd(n) == LET p[i \in 0 .. n] == IF i = 0 THEN EDPOS ELSE Up(Up(p[i - 1], FALSE), TRUE)
              IN p[n] - 1
wordBack(n) == LET p[i \in 0 .. n] == IF i = 0 THEN EDPOS
                                      ELSE Back(Back(p[i - 1] - 1, FALSE), TRUE)
               IN p[n] + 2

\* L: after the last character of the line that is no space, from the cursor on.
lineEnd ==
  LET end == bol + LNSZ - 1
      res[p \in EDPOS .. end] == IF p = EDPOS THEN end
                                 ELSE IF WS(mem[p]) THEN res[p - 1] ELSE p + 1
  IN res[end]

-----------------------------------------------------------------------------
(* Blocks.                                                                 *)

Buffer == [p \in Places |-> mem[p]]
Holds(p) == [a \in DOMAIN mem |-> IF a < SIZE THEN p[a] ELSE mem[a]]
Flushed == IF BLKDTY THEN [disk EXCEPT ![BLKat] = Buffer] ELSE disk

BLKfetch(n) ==                                        \* BLK@
  /\ n \in Blks
  /\ IF n = BLKat THEN UNCHANGED <<mem, blkvars>>
     ELSE /\ disk' = Flushed /\ BLKat' = n /\ BLKDTY' = FALSE
          /\ mem' = Holds(disk'[n])

\* BLK!! and the change of the page before it.
Changed(m) == mem' = m /\ BLKDTY' = TRUE /\ UNCHANGED <<BLKat, disk>>

pos(p) == PREVPOS' = EDPOS /\ EDPOS' = IF p < 0 THEN 0 ELSE Least(p, SIZE - 1)  \* pos!

-----------------------------------------------------------------------------
(* What an action leaves alone.                                            *)

Given(c, n, t) == last' = Key(c, n, t)
SameText == UNCHANGED <<mem, blkvars>>
SameBuffers == UNCHANGED <<IBUF, FBUF>>
SamePlace == UNCHANGED <<EDPOS, PREVPOS>>
SameRest == UNCHANGED <<MARKS, app>>

-----------------------------------------------------------------------------
(* Words of ED, some of which are also keys of VE.  In ED a text typed is  *)
(* padded with spaces, in VE with NULs.                                    *)

T(n) ==
  /\ Given("T", n, <<>>)
  /\ EDPOS' = (n - 1) * LNSZ
  /\ SameText /\ SameBuffers /\ SameRest /\ UNCHANGED PREVPOS

P(t) ==
  /\ Given("P", 0, t)
  /\ IBUF' = Type(IBUF, t, " ")
  /\ Changed(Paste(mem, IBUF', EDPOS, LNSZ))
  /\ SamePlace /\ SameRest /\ UNCHANGED FBUF

U(t) ==
  /\ Given("U", 0, t)
  /\ IBUF' = Type(IBUF, t, " ")
  /\ Changed(Paste(DownFrom(mem, EDPOS), IBUF', EDPOS, LNSZ))
  /\ SamePlace /\ SameRest /\ UNCHANGED FBUF

I(t, pad) ==
  /\ Given("I", 0, t)
  /\ IBUF' = Type(IBUF, t, pad)
  /\ Changed(Insert(mem, IBUF'))
  /\ SamePlace /\ SameRest /\ UNCHANGED FBUF

X(n) ==                                               \* and _X
  /\ Given("X", n, <<>>)
  /\ IF n = 0 THEN SameText /\ UNCHANGED IBUF
     ELSE IBUF' = icpy(Least(n, rbufsz)) /\ Changed(del(mem, n))
  /\ SamePlace /\ SameRest /\ UNCHANGED FBUF

E ==
  /\ Given("E", 0, <<>>)
  /\ IBUF' = icpy(Least(FBUF.len, rbufsz)) /\ Changed(del(mem, FBUF.len))
  /\ SamePlace /\ SameRest /\ UNCHANGED FBUF

Y ==
  /\ Given("Y", 0, <<>>)
  /\ IBUF' = FBUF
  /\ SameText /\ SamePlace /\ SameRest /\ UNCHANGED FBUF

F(t, pad) ==                                          \* types and finds
  /\ Given("F", 0, t)
  /\ FBUF' = Type(FBUF, t, pad)
  /\ EDPOS' = FindIn(mem, EDPOS, FBUF')
  /\ SameText /\ SameRest /\ UNCHANGED <<PREVPOS, IBUF>>

\* N and B of ED, G [ ] of VE: BLK@ of a block that is on the medium.
G(n) ==
  /\ Given("G", n, <<>>)
  /\ BLKfetch(n)
  /\ SameBuffers /\ SamePlace /\ SameRest

\* VE: numbers, buffers and cursor stay as ED left them.
VE ==
  /\ Given("VE", 0, <<>>)
  /\ PREVPOS' = 0 /\ app' = "VE"
  /\ SameText /\ SameBuffers /\ UNCHANGED <<EDPOS, MARKS>>

-----------------------------------------------------------------------------
(* Keys of VE.                                                             *)

NextMatch ==                                          \* n
  /\ Given("n", 0, <<>>)
  /\ EDPOS' = FindIn(mem, EDPOS, FBUF)
  /\ SameText /\ SameBuffers /\ SameRest /\ UNCHANGED PREVPOS

\* The next blocks are searched from the character after the first.
N(u) ==
  LET here == FindIn(mem, EDPOS, FBUF)
      found(b) == FindIn(Holds(disk[b]), 0, FBUF)
      hits == {b \in Blks : b \in BLKat + 1 .. BLKat + u /\ found(b) # 0}
      b == IF hits = {} THEN BLKat + u ELSE CHOOSE h \in hits : \A x \in hits : h <= x
  IN /\ Given("N", u, <<>>)
     /\ IF here # EDPOS THEN EDPOS' = here /\ SameText
                        ELSE BLKfetch(b) /\ EDPOS' = found(b)
     /\ SameBuffers /\ SameRest /\ UNCHANGED PREVPOS

C(t) ==
  /\ Given("C", 0, t)
  /\ IBUF' = Type(IBUF, t, "0")
  /\ Changed(Insert(del(mem, FBUF.len), IBUF'))
  /\ SamePlace /\ SameRest /\ UNCHANGED FBUF

Moves(c, u, p) ==
  /\ Given(c, u, <<>>)
  /\ pos(p)
  /\ SameText /\ SameBuffers /\ SameRest

Motion(u) ==
  \/ Moves("h", u, EDPOS - acc(u)) \/ Moves("l", u, EDPOS + acc(u))
  \/ Moves("k", u, EDPOS - LNSZ * acc(u)) \/ Moves("j", u, EDPOS + LNSZ * acc(u))
  \/ Moves("g", u, (acc(u) - 1) * LNSZ)
  \/ Moves("w", u, wordStart(acc(u))) \/ Moves("W", u, wordEnd(acc(u)))
  \/ Moves("b", u, wordBack(acc(u)))

L ==
  IF EDPOS % LNSZ = LNSZ - 1
    THEN Given("L", 0, <<>>) /\ SamePlace /\ SameText /\ SameBuffers /\ SameRest
    ELSE Moves("L", 0, lineEnd)

\* f takes what lies between the two places, up to a line; the cursor goes before it.
Take ==
  LET a == Least(EDPOS, PREVPOS)
      b == EDPOS + PREVPOS - a
  IN /\ Given("f", 0, <<>>)
     /\ IF a = b THEN SamePlace /\ UNCHANGED FBUF
        ELSE /\ IF EDPOS > PREVPOS THEN pos(PREVPOS) ELSE SamePlace
             /\ FBUF' = Copied(mem, a, Least(b - a, LNSZ))
     /\ SameText /\ SameRest /\ UNCHANGED IBUF

\* Mutant of OpenAt: BLK!! is left out.
OpenAtClean(p) ==
  LET line == p - (p % LNSZ)
  IN /\ PREVPOS' = p /\ EDPOS' = line
     /\ mem' = FILL(DownFrom(mem, p), line, LNSZ) /\ UNCHANGED blkvars

OpenAt(p) ==                                          \* insl with EDPOS = p
  LET line == p - (p % LNSZ)
  IN /\ PREVPOS' = p /\ EDPOS' = line
     /\ Changed(FILL(DownFrom(mem, p), line, LNSZ))

O ==
  /\ Given("O", 0, <<>>)
  /\ OpenAt(EDPOS)
  /\ SameBuffers /\ SameRest

OpenBelow ==                                          \* o
  /\ Given("o", 0, <<>>)
  /\ IF EDPOS < SIZE - LNSZ THEN OpenAt(EDPOS + LNSZ) ELSE SamePlace /\ SameText
  /\ SameBuffers /\ SameRest

D(u) ==
  LET size == Least(acc(u) * LNSZ, SIZE - bol)
  IN /\ Given("D", u, <<>>)
     /\ pos(bol)
     /\ IBUF' = Copied(mem, bol, LNSZ)
     /\ Changed(FILL(MOVE(mem, bol + size, bol, SIZE - bol), SIZE - size, size))
     /\ SameRest /\ UNCHANGED FBUF

Mark(u) ==                                            \* m
  /\ Given("m", u, <<>>)
  /\ MARKS' = [MARKS EXCEPT ![u] = [blk |-> BLKat, pos |-> EDPOS]]
  /\ SameText /\ SameBuffers /\ SamePlace /\ UNCHANGED app

Recall(u) ==                                          \* t
  /\ Given("t", u, <<>>)
  /\ pos(MARKS[u].pos) /\ BLKfetch(MARKS[u].blk)
  /\ SameBuffers /\ SameRest

Wipe ==                                               \* &
  /\ Given("&", 0, <<>>)
  /\ Changed(FILL(mem, 0, SIZE))
  /\ SameBuffers /\ SamePlace /\ SameRest

Reload ==                                             \* @
  /\ Given("@", 0, <<>>)
  /\ mem' = Holds(disk[BLKat]) /\ BLKDTY' = FALSE /\ UNCHANGED <<BLKat, disk>>
  /\ SameBuffers /\ SamePlace /\ SameRest

Store ==                                              \* !
  /\ Given("!", 0, <<>>)
  /\ disk' = Flushed /\ UNCHANGED <<mem, BLKat>>
  /\ BLKDTY' = FALSE
  /\ SameBuffers /\ SamePlace /\ SameRest

\* R: each character replaces one and moves on, BS moves back, return ends it.
Enter(c, a) ==
  /\ Given(c, 0, <<>>)
  /\ app' = a
  /\ SameText /\ SameBuffers /\ SamePlace /\ UNCHANGED MARKS

Overtype(c) ==
  /\ Given("type", 0, <<c>>)
  /\ Changed([mem EXCEPT ![EDPOS] = c])
  /\ EDPOS' = EDPOS + 1
  /\ SameBuffers /\ SameRest /\ UNCHANGED PREVPOS

Backspace ==
  /\ Given("back", 0, <<>>)
  /\ EDPOS' = EDPOS - 1
  /\ SameText /\ SameBuffers /\ SameRest /\ UNCHANGED PREVPOS

-----------------------------------------------------------------------------
(* The editors.  Once something outside the buffer has been written, or R  *)
(* has left the cursor outside, what follows depends on the memory there.  *)

Inside == EDPOS \in Places /\ \A a \in Beyond : mem[a] = "?"

Init ==
  /\ disk \in Disks
  /\ BLKat = 0 /\ BLKDTY = FALSE
  /\ mem = [a \in Places \cup Beyond |-> IF a < SIZE THEN disk[BLKat][a] ELSE "?"]
  /\ EDPOS \in Places /\ PREVPOS = 0
  /\ FBUF = Type(<<>>, FirstF, " ")
  /\ IBUF = [len |-> 0, at |-> [i \in 1 .. LNSZ |-> "0"]]
  /\ MARKS = [u \in Numbers |-> [blk |-> 0, pos |-> 0]]
  /\ app \in {"ED", "VE"}
  /\ last = Key("VE", 0, <<>>)
  /\ keys = 0

ED ==
  /\ app = "ED"
  /\ \/ \E u \in 1 .. LINES : T(u)
     \/ \E s \in Typed : P(s) \/ U(s) \/ F(s, " ") \/ I(s, " ")
     \/ \E u \in Numbers : X(u)
     \/ E \/ Y
     \/ G(BLKat - 1) \/ G(BLKat + 1)
     \/ VE

Visual ==
  /\ app = "VE"
  /\ \/ \E u \in Numbers : G(u) \/ G(BLKat - acc(u)) \/ G(BLKat + acc(u)) \/ N(acc(u))
                           \/ X(acc(u)) \/ Motion(u) \/ Mark(u) \/ Recall(u) \/ D(u)
     \/ \E s \in Typed : I(s, "0") \/ F(s, "0") \/ C(s)
     \/ NextMatch \/ Y \/ E \/ Moves("H", 0, bol) \/ L \/ Reload \/ Store \/ Wipe
     \/ Take \/ O \/ OpenBelow
     \/ Enter("R", "R") \/ Enter("q", "ED")

Replacing ==
  /\ app = "R"
  /\ (\E c \in Chars : Overtype(c)) \/ Backspace \/ Enter("return", "VE")

Next ==
  /\ Inside /\ keys < MaxKeys
  /\ keys' = keys + 1
  /\ ED \/ Visual \/ Replacing

Spec == Init /\ [][Next]_vars

-----------------------------------------------------------------------------
(* Properties.                                                             *)

\* The editors work on lines: seen as pages of lines, with the changes of a
\* block that are not saved yet, each word and key does what Pages says of it
\* to the text, the cursor, both buffers and the blocks on the medium, though
\* the code only moves bytes of flat memory.  Pages says what the code means
\* to do; where doc/ed.txt says otherwise see EdText.
Lines(p) == [l \in 1 .. LINES |-> [i \in 1 .. LNSZ |-> p[(l - 1) * LNSZ + i - 1]]]
Seen == [b \in Blks |-> Lines(IF b = BLKat THEN Buffer ELSE disk[b])]
Held(buf) == SubSeq(buf.at, 1, buf.len)

Commands == [cmd : STRING, n : Nat, t : Seq(Cells)]

Edited == INSTANCE Pages WITH
  Chars <- Cells,
  text <- Seen, saved <- [b \in Blks |-> Lines(disk[b])], active <- BLKat,
  cursor <- EDPOS, prev <- PREVPOS, clip <- Held(IBUF), sought <- Held(FBUF), marks <- MARKS

PagesSpec == Edited!Spec

\* No word or key writes outside the block buffer, over the marker that ends a
\* LOAD or over BLK> and BLKDTY, and none leaves the cursor outside: but R,
\* which checks neither end, and P and U in the middle of the last line.
Strays ==
  [][ Inside /\ ~Inside' =>
        \/ last'.cmd = "type" /\ EDPOS = SIZE - 1
        \/ last'.cmd = "back" /\ EDPOS = 0
        \/ last'.cmd \in {"P", "U"} /\ EDPOS > SIZE - LNSZ ]_vars

\* What is cut can be put back: I right after X or E restores the page, in the
\* buffer and after it, wherever the cursor is and however much was asked for.
CutPaste ==
  Inside => \A u \in 1 .. LNSZ :
    LET cut == del(mem, u) IN Insert(cut, icpy(Least(u, rbufsz))) = mem
=============================================================================
