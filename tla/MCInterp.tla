----------------------------- MODULE MCInterp -----------------------------
(* Lines of four cells, blocks of two lines.  Words stand at the end of a  *)
(* line, at the end of the block, alone, after \S and in comments that     *)
(* span lines; one block holds a word that is not found, one is empty.     *)
EXTENDS Interp, TLC

o == Space
w(name) == [does |-> "plain", name |-> name]
load(n, m) == [does |-> "load", from |-> n, to |-> m]
fetch(n) == [does |-> "fetch", from |-> n]
open == [does |-> "open"]
close == [does |-> "close"]
back == [does |-> "line"]

MCTexts ==
  1 :> << <<w("a"), o, o, w("b")>>, <<w("c"), o, o, w("d")>> >> @@
  2 :> << <<w("e"), o, back, o>>, <<back, o, w("f"), o>> >> @@
  3 :> << <<o, open, o, w("g")>>, <<back, o, close, o>> >> @@
  4 :> << <<o, w("h"), o, StopWord>>, <<w("i"), o, o, o>> >> @@
  5 :> << <<o, o, o, o>>, <<o, w("k"), o, Other>> >> @@
  6 :> << <<o, o, o, o>>, <<o, o, o, o>> >>

MCTyped ==
  {<<o, load(n, n), o, w("y")>> : n \in 1..6} \cup
  {<<o, load(n, n + 1), o, w("y")>> : n \in 1..5} \cup {<<o, load(1, 3), o, w("y")>>} \cup
  {<<w("x"), o, o, load(n, n)>> : n \in {1, 5}} \cup
  {<<load(1, 1), o, load(4, 4), o>>, <<fetch(2), o, load(2, 2), o>>,
   <<fetch(3), o, Other, o>>, <<o, o, o, o>>, <<w("x"), o, back, o>>,
   <<w("y"), o, open, o>>, <<close, o, w("x"), o>>, <<w("x"), o, close, o>>}
=============================================================================
