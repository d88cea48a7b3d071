----------------------------- MODULE SourceText -----------------------------
(***************************************************************************)
(* Text the interpreter reads: lines of cells.  A cell is a space or a     *)
(* word, which says what it does: "plain", "fetch" (BLK@) and "load"       *)
(* (LOADR) run and go on, "open" and "line" are ( and \, "close" is ),     *)
(* "stop" is \S and "unknown" is in no dictionary.                         *)
(***************************************************************************)
EXTENDS Naturals, Sequences

CONSTANTS
  Texts,     \* what each block holds, a sequence of lines
  Typed      \* the lines that may be typed

Space == [does |-> "space"]

Words(cells) == SelectSeq(cells, LAMBDA c : c # Space)
NonEmpty(s) == SelectSeq(s, LAMBDA x : x # <<>>)
Tidy(texts) == NonEmpty([i \in 1..Len(texts) |-> NonEmpty(texts[i])])

Text(n) == [i \in 1..Len(Texts[n]) |-> Words(Texts[n][i])]
TextsOf(n, m) == [i \in 1..(m + 1 - n) |-> Text(n + i - 1)]
=============================================================================
