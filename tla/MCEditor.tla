------------------------------- MODULE MCEditor -------------------------------
(* Blocks of three lines of four characters; words, runs of spaces, a line   *)
(* that is full, the text searched at the start of a block and at its end.   *)
EXTENDS EdText

MCTyped == {<<>>, <<"b", "a">>, <<"b", " ", "a", "b">>}

Text(l) == [p \in Places |-> (l[1] \o l[2] \o l[3])[p + 1]]
Texts == << Text(<< <<"a", "b", " ", " ">>, <<"b", " ", "a", "b">>, <<" ", " ", "b", "a">> >>),
            Text(<< <<"b", "a", "b", "a">>, <<" ", " ", " ", " ">>, <<" ", "a", " ", " ">> >>),
            Text(<< <<" ", " ", " ", " ">>, <<"a", " ", "b", " ">>, <<"a", "a", "a", "a">> >>) >>

MCDisks == {[b \in Blks |-> Texts[b + 1]]}
MCFirstF == <<"b", "a">>
=============================================================================
