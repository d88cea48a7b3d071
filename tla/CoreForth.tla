----------------------------- MODULE CoreForth -----------------------------
(***************************************************************************)
(* The core words that blk.fs defines in Forth (B211-217, B221, B223), as  *)
(* its source spells them, and the compiler that turns them into threads   *)
(* (B204-205).  A word after ?: is compiled only on a port that has no     *)
(* native word of that name.  'A, TO? and L1 are the addresses that the  *)
(* source computes in [ ]: the variable of the A register, the flag of TO  *)
(* and the hexadecimal digits; ~10 and ~16 are the two nameless words that *)
(* PARSE and FMTx call.                                                    *)
(***************************************************************************)
EXTENDS Naturals, Integers, Sequences, TLC

Arith ==
    "=" :> <<"-", "NOT">> @@ ">" :> <<"SWAP", "<">>
 @@ "0<" :> <<"$7fff", ">">> @@ "0>=" :> <<"$8000", "<">>
 @@ ">=" :> <<"<", "NOT">> @@ "<=" :> <<">", "NOT">>
 @@ "1+" :> <<"1", "+">> @@ "1-" :> <<"1", "-">>
 @@ "2DROP" :> <<"DROP", "DROP">> @@ "2DUP" :> <<"OVER", "OVER">>
 @@ "NIP" :> <<"SWAP", "DROP">> @@ "TUCK" :> <<"SWAP", "OVER">> @@ "ROT>" :> <<"ROT", "ROT">>
 @@ "=><=" :> <<"OVER", "-", "ROT>", "-", ">=">>
 @@ "/" :> <<"/MOD", "NIP">> @@ "MOD" :> <<"/MOD", "DROP">>
 @@ "<>" :> <<"2DUP", ">", "IF", "SWAP", "THEN">>
 @@ "MIN" :> <<"<>", "DROP">> @@ "MAX" :> <<"<>", "NIP">> @@ "-^" :> <<"SWAP", "-">>

Shifts ==
    "<<" :> <<"2", "*">> @@ ">>" :> <<"2", "/">>
 @@ "<<8" :> <<"$100", "*">> @@ ">>8" :> <<"$100", "/">>
 @@ "RSHIFT" :> <<"?DUP", "IF", ">R", "BEGIN", ">>", "NEXT", "THEN">>
 @@ "LSHIFT" :> <<"?DUP", "IF", ">R", "BEGIN", "<<", "NEXT", "THEN">>
 @@ "L|M" :> <<"DUP", "<<8", ">>8", "SWAP", ">>8">>
 @@ "+!" :> <<"TUCK", "@", "+", "SWAP", "!">>
 @@ "A>" :> <<"'A", "@">> @@ ">A" :> <<"'A", "!">>
 @@ "A>R" :> <<"R>", "A>", ">R", ">R">> @@ "R>A" :> <<"R>", "R>", ">A", ">R">>
 @@ "A+" :> <<"1", "'A", "+!">> @@ "A-" :> <<"-1", "'A", "+!">>
 @@ "AC@" :> <<"A>", "C@">> @@ "AC!" :> <<"A>", "C!">>
 @@ "AC@+" :> <<"AC@", "A+">> @@ "AC!+" :> <<"AC!", "A+">>
 @@ "LEAVE" :> <<"R>", "R~", "1", ">R", ">R">> @@ "TO" :> <<"1", "TO?", "C!">>

Fills ==
    "C@+" :> <<"DUP", "1+", "SWAP", "C@">> @@ "C!+" :> <<"TUCK", "C!", "1+">>
 @@ "ALLOT" :> <<"'HERE", "+!">>
 @@ "FILL" :> <<"ROT>", ">R", ">A", "BEGIN", "DUP", "AC!+", "NEXT", "DROP">>
 @@ "ALLOT0" :> <<"HERE", "OVER", "0", "FILL", "ALLOT">>
 @@ "IMMEDIATE" :> <<"CURRENT", "1-", "DUP", "C@", "$80", "OR", "SWAP", "C!">>
 @@ "," :> <<"HERE", "!", "2", "ALLOT">> @@ "C," :> <<"HERE", "C!", "1", "ALLOT">>
 @@ "L," :> <<"DUP", "C,", ">>8", "C,">> @@ "M," :> <<"DUP", ">>8", "C,", "C,">>
 @@ "MOVE" :> <<"?DUP", "IF", ">R", ">A", "BEGIN", "C@+", "AC!+", "NEXT", "DROP", "THEN">>
 @@ "MOVE," :> <<"HERE", "OVER", "ALLOT", "SWAP", "MOVE">>

Searches ==
    "[C]?" :> <<"?DUP", "NOT", "IF", "2DROP", "-1", "EXIT", "THEN", "A>R", "OVER", ">R", ">R",
                ">A", "BEGIN", "DUP", "AC@+", "=", "IF", "LEAVE", "THEN", "NEXT",
                "A-", "AC@", "=", "IF", "A>", "R>", "-", "ELSE", "R~", "-1", "THEN", "R>A">>
 @@ "[]=" :> <<"?DUP", "NOT", "IF", "2DROP", "1", "EXIT", "THEN", "A>R", ">R", ">A",
               "BEGIN", "AC@+", "OVER", "C@", "=", "NOT", "IF", "R~", "R>A", "DROP", "0", "EXIT",
               "THEN", "1+", "NEXT", "DROP", "R>A", "1">>
 @@ "CRC16" :> <<"<<8", "XOR", "8", ">R", "BEGIN", "DUP", "0<",
                 "IF", "<<", "$1021", "XOR", "ELSE", "<<", "THEN", "NEXT">>

Formats ==
    "FMTD" :> <<"6", "+", ">A", "A>R", "DUP", ">R", "DUP", "0<", "IF", "0", "-^", "THEN",
                "BEGIN", "10", "/MOD", "A-", "SWAP", "'0'", "+", "AC!", "?DUP", "NOT", "UNTIL",
                "R>", "0<", "IF", "A-", "'-'", "AC!", "THEN", "R>", "A>", "TUCK", "-">>
 @@ "~16" :> <<"C@", "DUP", ">R", "DUP", ">R", "+", ">A",
               "BEGIN", "16", "/MOD", "A-", "SWAP", "L1", "+", "C@", "AC!", "NEXT",
               "DROP", "A>", "R>">>

Parsing ==
    "~10" :> <<">R", "0", "BEGIN", "10", "*", "AC@+", "'0'", "-", "DUP", "9", ">", "IF",
               "2DROP", "R~", "0", "EXIT", "THEN", "+", "NEXT", "1">>
 @@ "PARSE" :>
      <<"OVER", "C@", "'''", "=", "IF",
          "3", "=", "IF", "1+", "DUP", "1+", "C@", "'''", "=", "IF", "C@", "1", "EXIT", "THEN",
          "THEN", "DROP", "0", "EXIT", "THEN",
        "OVER", "C@", "'$'", "=", "IF", "1-", ">R", "1+", ">A", "0", "BEGIN",
          "16", "*", "AC@+", "$20", "OR", "L1", "$10", "[C]?",
          "DUP", "0<", "IF", "2DROP", "R~", "0", "EXIT", "THEN", "+", "NEXT", "1", "EXIT", "THEN",
        "SWAP", ">A", "DUP", "1", ">", "AC@", "'-'", "=", "AND", "IF",
          "A+", "1-", "~10", "IF", "0", "-^", "1", "ELSE", "0", "THEN",
        "ELSE", "~10", "THEN">>

Finds ==
    "FIND" :> <<"A>R", ">R", ">A", "CURRENT", "BEGIN", "DUP", "1-", "C@", "$7f", "AND", "R@", "=",
                "IF", "DUP", "R@", "-", "3", "-", "A>", "R@", "[]=",
                      "IF", "R~", "1", "R>A", "EXIT", "THEN", "THEN",
                "3", "-", "@", "?DUP", "NOT", "UNTIL", "R~", "0", "R>A">>
 @@ "S=" :> <<"ROT", "OVER", "=", "IF", "[]=", "ELSE", "DROP", "2DROP", "0", "THEN">>

Colons ==
    Arith @@ Shifts @@ Fills @@ Searches @@ Formats @@ Parsing @@ Finds

(* The block driver of the CVM: a command byte, block number, address.     *)
CvmColons ==
    "_" :> <<"SWAP", "L|M", "3", "PC!", "3", "PC!", "L|M", "3", "PC!", "3", "PC!">>
 @@ "(blk@)" :> <<"1", "3", "PC!", "_">> @@ "(blk!)" :> <<"2", "3", "PC!", "_">>

(* DOER words: the word that DOES> gives them, and their data.             *)
Doers == "FMTx" :> [does |-> "~16", data |-> 2] @@ "FMTX" :> [does |-> "~16", data |-> 4]

HexDigits == <<48, 49, 50, 51, 52, 53, 54, 55, 56, 57, 97, 98, 99, 100, 101, 102>>

Literal ==
    "-1" :> 65535 @@ "0" :> 0 @@ "1" :> 1 @@ "2" :> 2 @@ "3" :> 3 @@ "6" :> 6 @@ "8" :> 8
 @@ "9" :> 9 @@ "10" :> 10 @@ "16" :> 16 @@ "$10" :> 16 @@ "$20" :> 32 @@ "'0'" :> 48
 @@ "'-'" :> 45 @@ "'$'" :> 36 @@ "'''" :> 39 @@ "$7f" :> 127 @@ "$80" :> 128
 @@ "$100" :> 256 @@ "$1021" :> 4129 @@ "$7fff" :> 32767 @@ "$8000" :> 32768
-----------------------------------------------------------------------------
(* The compiler.  where[w] is the address of word w, or of the datum w.    *)

Data == {"'A", "TO?", "L1"}
Branches == "IF" :> "(?br)" @@ "ELSE" :> "(br)" @@ "AGAIN" :> "(br)" @@ "UNTIL" :> "(?br)"
            @@ "NEXT" :> "(next)"

CellOf(a) == <<a % 256, a \div 256>>

(* LITN: a byte after (b), or a cell after (n).                            *)
LITN(where, n) ==
    IF n > 255 THEN CellOf(where["(n)"]) \o CellOf(n) ELSE Append(CellOf(where["(b)"]), n)

(* code so far, and open: the places that IF and BEGIN left on the stack.  *)
IF_(s, br) == [code |-> s.code \o br \o <<0>>, open |-> <<Len(s.code) + 3>> \o s.open]
THEN_(s) == [code |-> [s.code EXCEPT ![s.open[1]] = Len(s.code) + 1 - s.open[1]],
             open |-> Tail(s.open)]
ELSE_(s, br) ==
    LET s1 == [s EXCEPT !.code = @ \o br \o <<0>>]
        s2 == THEN_(s1)
    IN  [s2 EXCEPT !.open = <<Len(s1.code)>> \o @]
BEGIN_(s) == [s EXCEPT !.open = <<Len(s.code) + 1>> \o @]
Back(s, br) ==
    [code |-> s.code \o br \o <<(s.open[1] - (Len(s.code) + 3)) % 256>>, open |-> Tail(s.open)]

Token(where, s, t) ==
    LET br == CellOf(where[Branches[t]])
    IN  CASE t = "IF" -> IF_(s, br)
          [] t = "ELSE" -> ELSE_(s, br)
          [] t = "THEN" -> THEN_(s)
          [] t = "BEGIN" -> BEGIN_(s)
          [] t \in {"AGAIN", "UNTIL", "NEXT"} -> Back(s, br)
          [] t \in DOMAIN Literal -> [s EXCEPT !.code = @ \o LITN(where, Literal[t])]
          [] t \in Data -> [s EXCEPT !.code = @ \o LITN(where, where[t])]
          [] OTHER -> [s EXCEPT !.code = @ \o CellOf(where[t])]

compile(where, body) ==
    LET at[i \in 0..Len(body)] ==
            IF i = 0 THEN [code |-> <<>>, open |-> <<>>] ELSE Token(where, at[i - 1], body[i])
    IN  at[Len(body)].code \o CellOf(where["EXIT"])
=============================================================================
