----------------------------- MODULE WordStream -----------------------------
(***************************************************************************)
(* What the interpreter promises about the order of words (doc/blk.txt:34, *)
(* doc/impl.txt): the words of a typed line run from left to right, the    *)
(* words of a block that is loaded run as if they were typed in its place, *)
(* a comment runs nothing, and a word that is not found drops everything.  *)
(* Nothing here knows of buffers, pointers or the ends of lines.           *)
(***************************************************************************)
EXTENDS SourceText

VARIABLES
  todo,      \* texts still to run, the innermost first; of each, its lines
  comment,   \* words are skipped until a )
  ran        \* the word run last

vars == <<todo, comment, ran>>

Init == todo = <<>> /\ comment = FALSE /\ ran = Space

Type ==
  /\ todo = <<>>
  /\ \E line \in Typed : todo' = Tidy(<< <<Words(line)>> >>)
  /\ UNCHANGED <<comment, ran>>

word == todo[1][1][1]
AfterWord == Tidy(<< <<Tail(todo[1][1])>> \o Tail(todo[1]) >> \o Tail(todo))
AfterLine == Tidy(<<Tail(todo[1])>> \o Tail(todo))

Skip ==
  /\ todo # <<>> /\ comment
  /\ todo' = AfterWord
  /\ comment' = (word.does # "close")
  /\ UNCHANGED ran

Runs(does) == todo # <<>> /\ ~comment /\ word.does \in does

Plain ==
  /\ Runs({"plain", "fetch"})
  /\ todo' = AfterWord /\ ran' = word /\ UNCHANGED comment

Load ==
  /\ Runs({"load"})
  /\ todo' = Tidy(TextsOf(word.from, word.to)) \o AfterWord
  /\ UNCHANGED <<comment, ran>>

Comment ==
  \/ /\ Runs({"open"})
     /\ todo' = AfterWord /\ comment' = TRUE /\ UNCHANGED ran
  \/ /\ Runs({"line"})
     /\ todo' = AfterLine /\ UNCHANGED <<comment, ran>>

Stop == Runs({"stop"}) /\ todo' = Tail(todo) /\ UNCHANGED <<comment, ran>>

NotFound == Runs({"unknown", "close"}) /\ todo' = <<>> /\ UNCHANGED <<comment, ran>>

Next == Type \/ Skip \/ Plain \/ Load \/ Comment \/ Stop \/ NotFound

Spec == Init /\ [][Next]_vars
=============================================================================
