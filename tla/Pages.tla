-------------------------------- MODULE Pages --------------------------------
(***************************************************************************)
(* What the commands of the editors do, in the terms of doc/ed.txt: blocks *)
(* are pages of lines, one page is being worked on, and each command does  *)
(* something to the lines, to the cursor, to the insert buffer and to the  *)
(* find buffer.  A page is saved when another is selected or when the user *)
(* says so, and @ goes back to what is saved.                              *)
(*                                                                         *)
(* This is the code's meaning without its memory, not the document's word: *)
(* where doc/ed.txt says something else, the commands below do what the    *)
(* code does, and module EdText states what the document says instead.     *)
(*   P and U put their text over the page from the cursor on, wherever in  *)
(*     a line it is, and so into the next line; P opens no line.           *)
(*   Y copies the find buffer, not the characters after the cursor.        *)
(*   N does not look at the first character of the pages it turns to.      *)
(*   b with a number steps over a word of one letter just before one it    *)
(*     has come to.                                                        *)
(*   n, N, T and R leave prev alone, so that f after them does not take    *)
(*     the previous movement.                                              *)
(***************************************************************************)
EXTENDS Integers, Sequences, SequencesExt

CONSTANTS
  LNSZ, LINES,   \* characters of a line, lines of a page
  Blks,          \* the pages, numbered
  Chars,         \* what a character can be
  Commands       \* [cmd, n, t]: a command, its number, the text typed

VARIABLES
  text,      \* what each page says, a sequence of lines
  saved,     \* what it says on the medium
  active,    \* the page being worked on
  cursor, prev,    \* where the cursor is, and was before it last moved
  clip, sought,    \* the insert and the find buffer
  marks,     \* bookmarks: a page and a place
  last       \* the command given last

pvars == <<text, saved, active, cursor, prev, clip, sought, marks, last>>

SIZE == LNSZ * LINES
Places == 0 .. SIZE - 1
Blanks == {" ", "0"}               \* a space, and the NUL of an unused buffer

Page == text[active]
Flat == FlattenSeq(Page)           \* its characters, that of place p at p + 1
Blank(p) == Flat[p + 1] \in Blanks
Ln == (cursor \div LNSZ) + 1
Col == cursor % LNSZ
Line == Page[Ln]
LineStart == cursor - Col
LineEnd == LineStart + LNSZ - 1

Fit(l) == [i \in 1 .. LNSZ |-> IF i <= Len(l) THEN l[i] ELSE " "]
BlankLine == Fit(<<>>)
Paged(f) == [i \in 1 .. LINES |-> SubSeq(f, (i - 1) * LNSZ + 1, i * LNSZ)]

Before == SubSeq(Line, 1, Col)
After(n) == SubSeq(Line, Col + n + 1, LNSZ)

-----------------------------------------------------------------------------
(* Changes of the page.                                                    *)

Writes(p) == text' = [text EXCEPT ![active] = p]
WritesLine(l) == Writes([Page EXCEPT ![Ln] = Fit(l)])

\* The page with l from the cursor on, whatever line it ends in, and the page
\* with line n twice.
Overlaid(p, l) ==
  Paged([i \in 1 .. SIZE |-> IF i - cursor \in 1 .. LNSZ THEN l[i - cursor]
                                                        ELSE FlattenSeq(p)[i]])
Doubled(n) == SubSeq(InsertAt(Page, n, Page[n]), 1, LINES)

Opened(n) == SubSeq(InsertAt(Page, n, BlankLine), 1, LINES)
Closed(k) ==
  LET rest == SubSeq(Page, 1, Ln - 1) \o SubSeq(Page, Ln + k, LINES)
  IN [i \in 1 .. LINES |-> IF i <= Len(rest) THEN rest[i] ELSE BlankLine]

\* Cutting stops at the end of the line.
Cut(n) ==
  IF n = 0 THEN UNCHANGED <<text, clip>>
  ELSE /\ WritesLine(Before \o After(n))
       /\ clip' = SubSeq(Line, Col + 1, Min({Col + n, LNSZ}))

-----------------------------------------------------------------------------
(* Movements.                                                              *)

Clamp(p) == IF p < 0 THEN 0 ELSE IF p >= SIZE THEN SIZE - 1 ELSE p
GoesTo(p) == prev' = cursor /\ cursor' = Clamp(p)

\* The places a word motion may stop at, the nearest first.
WordStarts == {p \in Places : ~Blank(p) /\ (p = 0 \/ Blank(p - 1))}
WordEnds == {p \in Places \ {0} : Blank(p) /\ ~Blank(p - 1)}
Nth(S, n) == CHOOSE p \in S : Cardinality({q \in S : q <= p}) = n
Ahead(S, n) ==
  LET T == {p \in S : p > cursor} IN IF n <= Cardinality(T) THEN Nth(T, n) ELSE SIZE
StartUpTo(p) == Max({0} \cup {q \in WordStarts : q <= p})
Back(n) ==
  LET at[i \in 1 .. n] == IF i = 1 THEN StartUpTo(cursor - 1) ELSE StartUpTo(at[i - 1] - 3)
  IN at[n]

EndOfLine ==
  LET seen == {p \in cursor + 1 .. LineEnd : ~Blank(p)}
  IN IF seen = {} THEN LineEnd ELSE Max(seen) + 1

\* Where t is found in page p, past place q.
Hits(p, q, t) ==
  {a \in q + 1 .. SIZE - Len(t) : SubSeq(FlattenSeq(p), a + 1, a + Len(t)) = t}
Finds(t) ==
  /\ cursor' = IF Hits(Page, cursor, t) = {} THEN cursor ELSE Min(Hits(Page, cursor, t))
  /\ UNCHANGED active

\* The next pages, at most n of them, until t is found.
FindsOn(n, t) ==
  IF Hits(Page, cursor, t) # {} THEN Finds(t)
  ELSE LET pages == {b \in Blks : b \in active + 1 .. active + n
                                  /\ (b = active + n \/ Hits(text[b], 0, t) # {})}
           b == Min(pages)
       IN /\ active' = b
          /\ cursor' = IF Hits(text[b], 0, t) = {} THEN 0 ELSE Min(Hits(text[b], 0, t))

-----------------------------------------------------------------------------
(* Commands.                                                               *)

One(n) == IF n = 0 THEN 1 ELSE n             \* no number stands for 1
Or(t, buffer) == IF t = <<>> THEN buffer ELSE t
Stays == UNCHANGED <<cursor, prev>>
Keeps == UNCHANGED <<saved, active, marks>>
Saves == saved' = [saved EXCEPT ![active] = Page]

Changes(k) ==
  /\ k.cmd \in {"I", "C", "E", "X", "P", "U", "O", "o", "D", "&", "type", "Y"}
  /\ Keeps /\ UNCHANGED sought
  /\ \/ k.cmd = "I" /\ clip' = Or(k.t, clip) /\ WritesLine(Before \o clip' \o After(0)) /\ Stays
     \/ k.cmd = "C" /\ clip' = Or(k.t, clip)
                    /\ WritesLine(Before \o clip' \o After(Len(sought))) /\ Stays
     \/ k.cmd = "E" /\ Cut(Len(sought)) /\ Stays
     \/ k.cmd = "X" /\ Cut(k.n) /\ Stays
     \/ k.cmd \in {"P", "U"}
          /\ clip' = Or(k.t, clip) /\ Stays
          /\ \E c \in Blanks :
               Writes(Overlaid(IF k.cmd = "U" THEN Doubled(Ln) ELSE Page,
                               clip' \o [i \in 1 .. LNSZ - Len(clip') |-> c]))
     \/ k.cmd = "O" /\ Writes(Opened(Ln)) /\ GoesTo(LineStart) /\ UNCHANGED clip
     \/ k.cmd = "o" /\ UNCHANGED clip
                    /\ IF Ln = LINES THEN Stays /\ UNCHANGED text
                       ELSE /\ Writes(Opened(Ln + 1))
                            /\ prev' = cursor + LNSZ /\ cursor' = LineStart + LNSZ
     \/ k.cmd = "D" /\ clip' = Line /\ Writes(Closed(One(k.n))) /\ GoesTo(LineStart)
     \/ k.cmd = "&" /\ Writes([i \in 1 .. LINES |-> BlankLine]) /\ Stays /\ UNCHANGED clip
     \/ k.cmd = "type" /\ Writes(Paged([Flat EXCEPT ![cursor + 1] = k.t[1]]))
                       /\ cursor' = cursor + 1 /\ UNCHANGED <<prev, clip>>
     \/ k.cmd = "Y" /\ clip' = sought /\ Stays /\ UNCHANGED text

Moves(k) ==
  /\ k.cmd \in {"h", "l", "k", "j", "H", "L", "g", "w", "W", "b", "T", "back", "R", "return",
                "q", "VE"}
  /\ Keeps /\ UNCHANGED <<text, clip, sought>>
  /\ \/ k.cmd = "h" /\ GoesTo(cursor - One(k.n))
     \/ k.cmd = "l" /\ GoesTo(cursor + One(k.n))
     \/ k.cmd = "k" /\ GoesTo(cursor - One(k.n) * LNSZ)
     \/ k.cmd = "j" /\ GoesTo(cursor + One(k.n) * LNSZ)
     \/ k.cmd = "H" /\ GoesTo(LineStart)
     \/ k.cmd = "L" /\ IF cursor = LineEnd THEN Stays ELSE GoesTo(EndOfLine)
     \/ k.cmd = "g" /\ GoesTo((One(k.n) - 1) * LNSZ)
     \/ k.cmd = "w" /\ GoesTo(Ahead(WordStarts, One(k.n)))
     \/ k.cmd = "W" /\ GoesTo(Ahead(WordEnds, One(k.n)))
     \/ k.cmd = "b" /\ GoesTo(Back(One(k.n)))
     \/ k.cmd = "T" /\ cursor' = (k.n - 1) * LNSZ /\ UNCHANGED prev
     \/ k.cmd = "back" /\ cursor' = cursor - 1 /\ UNCHANGED prev
     \/ k.cmd \in {"R", "return", "q"} /\ Stays
     \/ k.cmd = "VE" /\ prev' = 0 /\ UNCHANGED cursor

\* f takes what the last movement went over, up to a line, and leaves the
\* cursor before it.
Searches(k) ==
  /\ k.cmd \in {"f", "F", "n", "N"}
  /\ UNCHANGED <<text, clip, marks>>
  /\ \/ /\ k.cmd = "f" /\ UNCHANGED <<saved, active>>
        /\ LET a == Min({cursor, prev})  b == Max({cursor, prev})
           IN IF a = b THEN Stays /\ UNCHANGED sought
              ELSE /\ sought' = SubSeq(Flat, a + 1, Min({b, a + LNSZ}))
                   /\ cursor' = a /\ prev' = b
     \/ k.cmd = "F" /\ sought' = Or(k.t, sought) /\ Finds(sought')
                    /\ UNCHANGED <<prev, saved>>
     \/ k.cmd = "n" /\ Finds(sought) /\ UNCHANGED <<prev, saved, sought>>
     \/ /\ k.cmd = "N" /\ FindsOn(One(k.n), sought)
        /\ IF active' = active THEN UNCHANGED saved ELSE Saves
        /\ UNCHANGED <<prev, sought>>

Turns(k) ==
  /\ k.cmd \in {"G", "!", "@", "m", "t"}
  /\ UNCHANGED <<clip, sought>>
  /\ \/ /\ k.cmd = "G" /\ active' = k.n
        /\ IF active' = active THEN UNCHANGED saved ELSE Saves
        /\ UNCHANGED <<text, marks>> /\ Stays
     \/ k.cmd = "!" /\ Saves /\ UNCHANGED <<text, active, marks>> /\ Stays
     \/ k.cmd = "@" /\ Writes(saved[active]) /\ UNCHANGED <<saved, active, marks>> /\ Stays
     \/ k.cmd = "m" /\ marks' = [marks EXCEPT ![k.n] = [blk |-> active, pos |-> cursor]]
                    /\ UNCHANGED <<text, saved, active>> /\ Stays
     \/ /\ k.cmd = "t" /\ active' = marks[k.n].blk /\ GoesTo(marks[k.n].pos)
        /\ IF active' = active THEN UNCHANGED saved ELSE Saves
        /\ UNCHANGED <<text, marks>>

Init ==
  /\ saved \in [Blks -> [1 .. LINES -> [1 .. LNSZ -> Chars]]] /\ text = saved
  /\ active \in Blks /\ cursor \in Places /\ prev \in Places
  /\ clip \in BoundedSeq(Chars, LNSZ) /\ sought \in BoundedSeq(Chars, LNSZ)
  /\ \A m \in DOMAIN marks : marks[m] \in [blk : Blks, pos : Places]
  /\ last \in Commands

Next ==
  last' \in Commands /\ (Changes(last') \/ Moves(last') \/ Searches(last') \/ Turns(last'))

Spec == Init /\ [][Next]_pvars
=============================================================================
