------------------------------- MODULE Interp -------------------------------
(***************************************************************************)
(* The interpreter's input (blk.fs B219-221, B223, B228, B233): IN( is the *)
(* line being read and IN> a place in it; at its end LN< brings the next   *)
(* one.  LN< reads the keyboard, or during a LOAD moves IN( one line       *)
(* further in the block buffer.  After the buffer BLK$ has left the word   *)
(* \S, which sends IN( to BLK), where LOAD's loop stops.                   *)
(*                                                                         *)
(* A word is a cell of memory, as wide as one character, with a space      *)
(* after it unless its line ends there.  What a word does is in the cell.  *)
(* The driver is assumed not to fail, the blocks LOADR is given to be there*)
(* and in order, and as doc/blk.txt:24-26 asks, no block runs LOAD; nor    *)
(* does one fetch another block, or leave a comment open at its end.       *)
(***************************************************************************)
EXTENDS SourceText, Integers

CONSTANTS
  LNSZ,      \* cells in a line: 64
  Lines      \* lines in a block: 16

StopWord == [does |-> "stop"]                               \* \S
Other == [does |-> "unknown"]                               \* bytes of no text

Blks == DOMAIN Texts
NoBlk == -1

BLKhi == Lines * LNSZ                                       \* BLK)
TextCell(n, at) == Texts[n][(at \div LNSZ) + 1][(at % LNSZ) + 1]

\* A word is not adjacent to the next one, and a comment ends in its text.
Apart(line) == \A i \in 1..(LNSZ - 1) : line[i] = Space \/ line[i + 1] = Space
Ends(n) ==
  \A i \in 0..(BLKhi - 1) : TextCell(n, i).does = "open" =>
    \E j \in (i + 1)..(BLKhi - 1) : TextCell(n, j).does = "close"

ASSUME SizeAssumption == LNSZ \in Nat /\ LNSZ > 1 /\ Lines \in Nat \ {0}
ASSUME BlksAssumption == Blks \subseteq Nat
ASSUME LinesAssumption ==
  \A line \in Typed \cup UNION {{Texts[n][i] : i \in 1..Lines} : n \in Blks} :
    Len(line) = LNSZ /\ Apart(line)
\* No block runs LOAD or BLK@, or leaves a comment open.
ASSUME TextsAssumption ==
  \A n \in Blks : /\ Len(Texts[n]) = Lines
                  /\ \A i \in 1..Lines, j \in 1..LNSZ :
                       Texts[n][i][j].does \notin {"load", "fetch"}
                  /\ Ends(n)
\* \S is not typed, and blocks that are asked for are there.
ASSUME TypedAssumption ==
  \A line \in Typed, j \in 1..LNSZ :
    /\ line[j].does # "stop"
    /\ line[j].does = "fetch" => line[j].from \in Blks
    /\ line[j].does = "load" =>
         /\ line[j].from \in Blks /\ line[j].to \in Blks
         /\ line[j].from <= line[j].to /\ line[j].from..line[j].to \subseteq Blks

VARIABLES
  INat,      \* IN>
  INlo,      \* IN(
  LNlt,      \* LN<: "RDLN", or "next" in LOAD
  BLKINat,   \* BLKIN>, IN> as LOAD found it
  BLKat,     \* BLK>; the buffer holds its text
  inbuf,     \* the line in INBUF
  range,     \* of LOADR: the block LOAD is at and the last one; or nothing
  pc,        \* "run" in RUN1, "load" before a LOAD, "test" at the end of its loop
  comment,   \* in WAITW, which reads words until a )
  ran        \* the word run last, for the properties only

vars == <<INat, INlo, LNlt, BLKINat, BLKat, inbuf, range, pc, comment, ran>>

\* Memory: the block buffer, what BLK$ put after it, then INBUF.
BLKlo == 0
INBUF == BLKhi + 2 * LNSZ
INhi == INlo + LNSZ

Cell(at) ==
  IF at < BLKhi
    THEN IF BLKat = NoBlk THEN Other
         ELSE TextCell(BLKat, at)
  ELSE IF at = BLKhi THEN StopWord                          \* BLK$
  ELSE IF at = BLKhi + 1 THEN Space
  ELSE IF at \in INBUF..(INBUF + LNSZ - 1) THEN inbuf[at + 1 - INBUF]
  ELSE Other

TypeOK ==
  /\ {INat, INlo, BLKINat} \subseteq 0..(INBUF + LNSZ)
  /\ LNlt \in {"RDLN", "next"}
  /\ BLKat \in Blks \cup {NoBlk}
  /\ inbuf \in Typed \cup {[i \in 1..LNSZ |-> Space]}
  /\ range \in {<<>>} \cup (Blks \X Blks)
  /\ pc \in {"run", "load", "test"}
  /\ comment \in BOOLEAN

Init ==                                                     \* BOOT, IN$
  /\ INlo = INBUF /\ INat = INBUF + LNSZ /\ LNlt = "RDLN"
  /\ BLKINat = INBUF /\ BLKat = NoBlk
  /\ inbuf = [i \in 1..LNSZ |-> Space]
  /\ range = <<>> /\ pc = "run" /\ comment = FALSE
  /\ ran = Space

-----------------------------------------------------------------------------
(* WORD: to the next word, over as many lines as it takes.                 *)

NextAt == {p \in INat..(INhi - 1) : Cell(p) # Space}
At == CHOOSE p \in NextAt : \A q \in NextAt : p <= q

ReadLine ==
  /\ pc = "run" /\ NextAt = {} /\ LNlt = "RDLN"
  /\ inbuf' \in Typed
  /\ INat' = INlo
  /\ UNCHANGED <<INlo, LNlt, BLKINat, BLKat, range, pc, comment, ran>>

NextLine ==
  /\ pc = "run" /\ NextAt = {} /\ LNlt = "next"
  /\ INlo' = INhi /\ INat' = INhi
  /\ UNCHANGED <<LNlt, BLKINat, BLKat, inbuf, range, pc, comment, ran>>

\* Mutant of AfterAt: IN<? steps past the end of the line it stops at.
AfterAtBeyond == At + 2

\* The space after the word is read with it, unless the line ends first.
AfterAt == IF At + 2 > INhi THEN INhi ELSE At + 2

\* RUN1 in a LOAD is followed by the test of its loop.
Returned == pc' = IF range = <<>> THEN "run" ELSE "test"

Reads(does) ==
  pc = "run" /\ ~comment /\ NextAt # {} /\ Cell(At).does \in does

Skip ==                                                     \* WAITW
  /\ pc = "run" /\ comment /\ NextAt # {}
  /\ INat' = AfterAt
  /\ \/ Cell(At).does = "close" /\ comment' = FALSE /\ Returned
     \/ Cell(At).does # "close" /\ UNCHANGED <<comment, pc>>
  /\ UNCHANGED <<INlo, LNlt, BLKINat, BLKat, inbuf, range, ran>>

-----------------------------------------------------------------------------
(* RUN1: what the words do.                                                *)

Plain ==
  /\ Reads({"plain", "fetch"})
  /\ INat' = AfterAt /\ ran' = Cell(At)
  /\ BLKat' = IF Cell(At).does = "fetch" THEN Cell(At).from ELSE BLKat
  /\ Returned
  /\ UNCHANGED <<INlo, LNlt, BLKINat, inbuf, range, comment>>

Open ==                                                     \* (
  /\ Reads({"open"})
  /\ INat' = AfterAt /\ comment' = TRUE
  /\ UNCHANGED <<INlo, LNlt, BLKINat, BLKat, inbuf, range, pc, ran>>

Backslash ==
  /\ Reads({"line"})
  /\ INat' = INhi /\ Returned
  /\ UNCHANGED <<INlo, LNlt, BLKINat, BLKat, inbuf, range, comment, ran>>

BackslashS ==
  /\ Reads({"stop"})
  /\ INlo' = BLKhi /\ INat' = BLKhi /\ Returned
  /\ UNCHANGED <<LNlt, BLKINat, BLKat, inbuf, range, comment, ran>>

\* Mutant of INreset: LN< keeps what LOAD put there.
INresetNotLN ==
  /\ INlo' = INBUF /\ UNCHANGED LNlt

\* IN$, but for IN>.
INreset ==
  /\ INlo' = INBUF /\ LNlt' = "RDLN"

\* (wnf), ABORT: the return stack is emptied and the main loop starts over.
NotFound ==
  /\ Reads({"unknown", "close"})
  /\ INreset /\ INat' = INBUF + LNSZ
  /\ range' = <<>> /\ pc' = "run"
  /\ UNCHANGED <<BLKINat, BLKat, inbuf, comment, ran>>

LOADR ==
  /\ Reads({"load"})
  /\ INat' = AfterAt
  /\ range' = <<Cell(At).from, Cell(At).to>> /\ pc' = "load"
  /\ UNCHANGED <<INlo, LNlt, BLKINat, BLKat, inbuf, comment, ran>>

LOAD ==
  /\ pc = "load"
  /\ BLKINat' = INat
  /\ LNlt' = "next" /\ BLKat' = range[1]
  /\ INlo' = BLKlo /\ INat' = BLKlo
  /\ pc' = "run"
  /\ UNCHANGED <<inbuf, range, comment, ran>>

\* Mutant of Loaded: the loop ends past BLK), not at it.
LoadedPast == INlo > BLKhi

Loaded == INlo = BLKhi

\* Mutant of Resume: IN> stays where IN$ puts it.
ResumeAtEnd == INBUF + LNSZ

Resume == BLKINat

\* The end of LOAD's loop; LOADR goes on with the next block.
LoadTest ==
  /\ pc = "test"
  /\ \/ /\ Loaded
        /\ INreset /\ INat' = Resume
        /\ range' = IF range[1] < range[2] THEN <<range[1] + 1, range[2]>> ELSE <<>>
        /\ pc' = IF range[1] < range[2] THEN "load" ELSE "run"
     \/ ~Loaded /\ pc' = "run" /\ UNCHANGED <<INlo, INat, LNlt, range>>
  /\ UNCHANGED <<BLKINat, BLKat, inbuf, comment, ran>>

INTERPRET ==
  NextLine \/ Skip \/ Plain \/ Open \/ Backslash \/ BackslashS \/ NotFound
    \/ LOADR \/ LOAD \/ LoadTest

Next == ReadLine \/ INTERPRET

Spec == Init /\ [][Next]_vars

\* INTERPRET loops for ever; it only stops for the keyboard.
LiveSpec == Spec /\ WF_vars(INTERPRET)

-----------------------------------------------------------------------------

\* IN(, IN>, LN< and LOAD's loop tell the same story, an error in the middle of
\* a LOAD included: the line read is the keyboard's, or one of the block's or
\* the one that holds \S, and IN> is in it (doc/impl.txt:304-305, "These words
\* take care of not stepping out of bounds"; 281-283).
OneSource ==
  /\ INlo <= INat /\ INat <= INhi
  /\ LNlt = "RDLN" => INlo = INBUF /\ (range = <<>> \/ pc = "load")
  /\ LNlt = "next" => /\ range # <<>> /\ BLKat = range[1]
                      /\ \E i \in 0..Lines : INlo = i * LNSZ
                      /\ INBUF <= BLKINat /\ BLKINat <= INBUF + LNSZ

\* What is left to run: of the block buffer, of the blocks LOADR has yet to
\* load, and of the line that was typed.
Left(from, to) == [i \in 1..(to - from) |-> Cell(from + i - 1)]
BlockLeft ==
  LET line == INlo \div LNSZ
  IN  IF line >= Lines THEN <<>>
      ELSE <<Words(Left(INat, INhi))>>
             \o [i \in 1..(Lines - line - 1) |->
                   Words(Left((line + i) * LNSZ, (line + i + 1) * LNSZ))]
TypedLeft(from) == << <<Words(Left(from, INBUF + LNSZ))>> >>
BlocksLeft ==
  IF range = <<>> THEN <<>>
  ELSE TextsOf(range[1] + (IF pc = "load" THEN 0 ELSE 1), range[2])

todoNow ==
  Tidy(
    IF LNlt = "next" THEN <<BlockLeft>> \o BlocksLeft \o TypedLeft(BLKINat)
                     ELSE BlocksLeft \o TypedLeft(INat))

\* Words run in the order of the text (doc/blk.txt:34: "LOAD interprets the
\* specified block as if you typed it"): with all its pointers, the interpreter
\* implements WordStream.
Stream == INSTANCE WordStream WITH todo <- todoNow
StreamSpec == Stream!Spec

\* What was typed is run to its end and the keyboard is read again, whatever
\* is loaded on the way.
Ready == todoNow # <<>> ~> (todoNow = <<>> /\ LNlt = "RDLN")
=============================================================================
