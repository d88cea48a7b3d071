-------------------------------- MODULE EdText --------------------------------
(***************************************************************************)
(* What doc/ed.txt says of the editors' commands where the code does       *)
(* something else.  Each property restates a sentence of the document over *)
(* the lines of a page, and Pages, which follows the code, breaks it.      *)
(***************************************************************************)
EXTENDS Editor

Page == Seen[BLKat]
PageNext == Seen'[BLKat']
Ln == (EDPOS \div LNSZ) + 1
Typing(c) == keys' # keys /\ last'.cmd = c

\* "P foo" inserts a new line under the cursor and places foo on it; the last
\* line of the block is lost (ed.txt:44-46).
PInserts ==
  [][ Typing("P") /\ last'.t # <<>> /\ Ln < LINES =>
        PageNext = [Edited!Opened(Ln + 1) EXCEPT ![Ln + 1] = Edited!Fit(Held(IBUF'))] ]_vars

\* "U" does the same on the line above the cursor, that is, the new line is
\* where the selected one was, and the selected one below it, as a whole
\* (ed.txt:46-47, 72).
UInserts ==
  [][ Typing("U") /\ last'.t # <<>> =>
        PageNext = [Edited!Opened(Ln) EXCEPT ![Ln] = Edited!Fit(Held(IBUF'))] ]_vars

\* "Y: Copy n characters after cursor into IBUF, n being length of FBUF"
\* (ed.txt:75-76).
YCopies ==
  [][ Typing("Y") /\ EDPOS + FBUF.len <= SIZE =>
        Held(IBUF') = Held(Copied(mem, EDPOS, FBUF.len)) ]_vars

\* "'N' is the same as 'n', but if it doesn't find anything, it continues the
\* search in the, at most, "modifier" next blocks" (ed.txt:135-136): it stops
\* at the first block that has the text and at its first occurrence there.
Occurs(b) == {p \in 0 .. SIZE - FBUF.len :
                SubSeq([i \in 1 .. SIZE |-> Holds(disk[b])[i - 1]], p + 1, p + FBUF.len) = Held(FBUF)}
NContinues ==
  [][ Typing("N") /\ BLKat' # BLKat =>
        \A b \in Blks : b \in BLKat + 1 .. BLKat + last'.n /\ Occurs(b) # {} =>
          \/ BLKat' < b
          \/ BLKat' = b /\ EDPOS' = CHOOSE p \in Occurs(b) : \A q \in Occurs(b) : p <= q ]_vars

\* "'b' moves backward" by "modifier" words (ed.txt:127): to the n-th start of
\* a word before the cursor.
Behind == {p \in Edited!WordStarts : p < EDPOS}
bCounts ==
  [][ Typing("b") /\ Cardinality(Behind) >= acc(last'.n) =>
        EDPOS' \in Behind /\ Cardinality({p \in Behind : p >= EDPOS'}) = acc(last'.n) ]_vars

\* "'f' puts the contents of your previous cursor movement into FBUF"
\* (ed.txt:153): so the place n and N moved the cursor from is kept for f.
MovesKept ==
  [][ last'.cmd \in {"n", "N"} /\ EDPOS' # EDPOS => PREVPOS' = EDPOS ]_vars
=============================================================================
