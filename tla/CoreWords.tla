----------------------------- MODULE CoreWords -----------------------------
(***************************************************************************)
(* What the core words of Collapse OS do, whoever implements them: the     *)
(* machine they run on is a parameter stack, a return stack, the A         *)
(* register and memory.  Words that a port may leave out are defined by    *)
(* the Forth that blk.fs then uses (B211-214, B221); the others by their   *)
(* rows of doc/dict.txt.                                                   *)
(*                                                                         *)
(* A frame f is what a word sees: ps and rs, the stacks, top first; a, the *)
(* A register; mem, the bytes of the memory it may use; port, the byte its *)
(* port gives; current, the last entry of the dictionary; here, its end;   *)
(* to, the flag that TO sets; val, the value of v; cell, the address c     *)
(* gives; disk, the blocks that the block driver reads and writes.         *)
(***************************************************************************)
EXTENDS Words, Sequences, FiniteSets, TLC

BlkSize == 1024
S8(b) == Signed8(b)
Mod(n) == n % 65536
Flag(on) == IF on THEN 1 ELSE 0

Cell(f, a) == Join(f.mem[a + 1], f.mem[a])
PutByte(f, a, v) == [f EXCEPT !.mem[a] = v]
PutCell(f, a, v) == [f EXCEPT !.mem[a] = Lo(v), !.mem[a + 1] = Hi(v)]

(* n cells of the stack give way to those of new.                          *)
Drop(s, n) == SubSeq(s, n + 1, Len(s))
Put(f, n, new) == [f EXCEPT !.ps = new \o Drop(f.ps, n)]
RPush(f, v) == [f EXCEPT !.rs = <<v>> \o f.rs]
RDrop(f) == [f EXCEPT !.rs = Tail(f.rs)]

-----------------------------------------------------------------------------

Stack == {"DUP", "?DUP", "DROP", "SWAP", "OVER", "ROT", "ROT>", "NIP", "TUCK",
          ">R", "R>", "R@", "R~", "A>", ">A", "A>R", "R>A", "A+", "A-", "2DROP", "2DUP"}
StackWord(w, f) ==
    LET a == f.ps[1]  b == f.ps[2]  c == f.ps[3]  r == f.rs[1]
    IN  CASE w = "DUP" -> Put(f, 1, <<a, a>>)
          [] w = "?DUP" -> IF a = 0 THEN f ELSE Put(f, 1, <<a, a>>)
          [] w = "DROP" -> Put(f, 1, <<>>)
          [] w = "SWAP" -> Put(f, 2, <<b, a>>)
          [] w = "OVER" -> Put(f, 2, <<b, a, b>>)
          [] w = "ROT" -> Put(f, 3, <<c, a, b>>)
          [] w = "ROT>" -> Put(f, 3, <<b, c, a>>)
          [] w = "NIP" -> Put(f, 2, <<a>>)
          [] w = "TUCK" -> Put(f, 2, <<a, b, a>>)
          [] w = "2DROP" -> Put(f, 2, <<>>)
          [] w = "2DUP" -> Put(f, 2, <<a, b, a, b>>)
          [] w = ">R" -> RPush(Put(f, 1, <<>>), a)
          [] w = "R>" -> RDrop(Put(f, 0, <<r>>))
          [] w = "R@" -> Put(f, 0, <<r>>)
          [] w = "R~" -> RDrop(f)
          [] w = "A>" -> Put(f, 0, <<f.a>>)
          [] w = ">A" -> [Put(f, 1, <<>>) EXCEPT !.a = a]
          [] w = "A>R" -> RPush(f, f.a)
          [] w = "R>A" -> [RDrop(f) EXCEPT !.a = r]
          [] w = "A+" -> [f EXCEPT !.a = Mod(@ + 1)]
          [] w = "A-" -> [f EXCEPT !.a = Mod(@ - 1)]

(* The CRC of one byte more: eight rounds of a shift and the polynomial.   *)
CRC16(crc, n) ==
    LET round[i \in 0..8] ==
            IF i = 0 THEN Xor((n * 256) % 65536, crc, 16)
            ELSE LET d == Mod(2 * round[i - 1])
                 IN  IF round[i - 1] >= 32768 THEN Xor(d, 4129, 16) ELSE d
    IN  round[8]

Product(a, b) == Mod((((a * Hi(b)) % 256) * 256) + (a * Lo(b)))

Arithmetic == {"+", "-", "*", "/MOD", "1+", "1-", "AND", "OR", "XOR", "NOT", "=", "<",
               ">>", "<<", ">>8", "<<8", "CRC16", "/", "MOD", "-^", "RSHIFT", "LSHIFT", "L|M"}
ArithmeticWord(w, f) ==
    LET a == f.ps[1]  b == f.ps[2]
    IN  CASE w = "+" -> Put(f, 2, <<Mod(b + a)>>)
          [] w = "-" -> Put(f, 2, <<Mod(b - a)>>)
          [] w = "*" -> Put(f, 2, <<Product(b, a)>>)
          [] w = "/MOD" -> Put(f, 2, <<b \div a, b % a>>)
          [] w = "1+" -> Put(f, 1, <<Mod(a + 1)>>)
          [] w = "1-" -> Put(f, 1, <<Mod(a - 1)>>)
          [] w = "AND" -> Put(f, 2, <<And(b, a, 16)>>)
          [] w = "OR" -> Put(f, 2, <<Or(b, a, 16)>>)
          [] w = "XOR" -> Put(f, 2, <<Xor(b, a, 16)>>)
          [] w = "NOT" -> Put(f, 1, <<Flag(a = 0)>>)
          [] w = "=" -> Put(f, 2, <<Flag(a = b)>>)
          [] w = "<" -> Put(f, 2, <<Flag(b < a)>>)
          [] w = ">>" -> Put(f, 1, <<a \div 2>>)
          [] w = "<<" -> Put(f, 1, <<Mod(2 * a)>>)
          [] w = ">>8" -> Put(f, 1, <<Hi(a)>>)
          [] w = "<<8" -> Put(f, 1, <<256 * Lo(a)>>)
          [] w = "CRC16" -> Put(f, 2, <<CRC16(b, a)>>)
          [] w = "/" -> Put(f, 2, <<b \div a>>)
          [] w = "MOD" -> Put(f, 2, <<b % a>>)
          [] w = "-^" -> Put(f, 2, <<Mod(a - b)>>)
          [] w = "RSHIFT" -> Put(f, 2, <<IF a > 15 THEN 0 ELSE b \div 2^a>>)
          [] w = "LSHIFT" -> Put(f, 2, <<IF a > 15 THEN 0 ELSE (b % 2^(16 - a)) * 2^a>>)
          [] w = "L|M" -> Put(f, 1, <<Hi(a), Lo(a)>>)

Order == {">", "0<", "0>=", ">=", "<=", "=><=", "<>", "MIN", "MAX"}
OrderWord(w, f) ==
    LET a == f.ps[1]  b == f.ps[2]
        low  == IF a < b THEN a ELSE b
        high == IF a < b THEN b ELSE a
    IN  CASE w = ">" -> Put(f, 2, <<Flag(b > a)>>)
          [] w = "0<" -> Put(f, 1, <<Flag(Signed16(a) < 0)>>)
          [] w = "0>=" -> Put(f, 1, <<Flag(Signed16(a) >= 0)>>)
          [] w = ">=" -> Put(f, 2, <<Flag(b >= a)>>)
          [] w = "<=" -> Put(f, 2, <<Flag(b <= a)>>)
          [] w = "=><=" -> Put(f, 3, <<Flag(b <= f.ps[3] /\ f.ps[3] <= a)>>)
          [] w = "<>" -> Put(f, 2, <<high, low>>)
          [] w = "MIN" -> Put(f, 2, <<low>>)
          [] w = "MAX" -> Put(f, 2, <<high>>)

(* The first of the u bytes at a that is c.                                *)
Index(f, c, a, u) ==
    IF \A i \in 0..(u - 1) : f.mem[a + i] # c THEN 65535
    ELSE CHOOSE i \in 0..(u - 1) : f.mem[a + i] = c /\ \A j \in 0..(i - 1) : f.mem[a + j] # c
Same(f, a1, a2, u) == \A i \in 0..(u - 1) : f.mem[a1 + i] = f.mem[a2 + i]

(* Bytes are copied upwards, one at a time: a range that overlaps the one  *)
(* before it repeats.                                                      *)
Copied(f, src, dst, u) ==
    LET at[i \in 0..u] ==
            IF i = 0 THEN f ELSE PutByte(at[i - 1], dst + i - 1, at[i - 1].mem[src + i - 1])
    IN  at[u]

(* An entry is its name, the address of the entry before it, and the       *)
(* length of the name with the IMMEDIATE flag; w is the address past it.   *)
NameLen(f, w) == f.mem[w - 1] % 128
Prev(f, w) == Cell(f, w - 3)
Named(f, w, sa, sl) == NameLen(f, w) = sl /\ Same(f, w - sl - 3, sa, sl)
Find(f, sa, sl) ==
    LET entries == {w \in DOMAIN f.mem : w >= f.current - 40 /\ w <= f.current}
        walk[i \in 0..Cardinality(entries)] ==
            IF i = 0 THEN f.current
            ELSE LET w == walk[i - 1]
                 IN  IF w = 0 THEN 0 ELSE IF Named(f, w, sa, sl) THEN w ELSE Prev(f, w)
    IN  walk[Cardinality(entries)]

Filled(f, a, u, c) == [f EXCEPT !.mem = [i \in a .. (a + u - 1) |-> c] @@ @]

Memory == {"C@", "@", "C!", "!", "+!", "AC@", "AC!", "MOVE", "[]=", "[C]?", "FIND", "PC@",
           "AC@+", "AC!+", "C@+", "C!+", "FILL", "S=", "(blk@)", "(blk!)"}
MemoryWord(w, f) ==
    LET a == f.ps[1]  b == f.ps[2]  c == f.ps[3]
    IN  CASE w = "C@" -> Put(f, 1, <<f.mem[a]>>)
          [] w = "@" -> Put(f, 1, <<Cell(f, a)>>)
          [] w = "C!" -> PutByte(Put(f, 2, <<>>), a, Lo(b))
          [] w = "!" -> PutCell(Put(f, 2, <<>>), a, b)
          [] w = "+!" -> PutCell(Put(f, 2, <<>>), a, Mod(Cell(f, a) + b))
          [] w = "AC@" -> Put(f, 0, <<f.mem[f.a]>>)
          [] w = "AC!" -> PutByte(Put(f, 1, <<>>), f.a, Lo(a))
          [] w = "MOVE" -> Copied(Put(f, 3, <<>>), c, b, a)
          [] w = "[]=" -> Put(f, 3, <<Flag(Same(f, c, b, a))>>)
          [] w = "[C]?" -> Put(f, 3, <<Index(f, c, b, a)>>)
          [] w = "FIND" -> LET e == Find(f, b, a) IN Put(f, 2, IF e = 0 THEN <<0>> ELSE <<1, e>>)
          [] w = "PC@" -> Put(f, 1, <<f.port>>)
          [] w = "AC@+" -> [Put(f, 0, <<f.mem[f.a]>>) EXCEPT !.a = Mod(@ + 1)]
          [] w = "AC!+" -> [PutByte(Put(f, 1, <<>>), f.a, Lo(a)) EXCEPT !.a = Mod(@ + 1)]
          [] w = "C@+" -> Put(f, 1, <<f.mem[a], Mod(a + 1)>>)
          [] w = "C!+" -> PutByte(Put(f, 2, <<Mod(a + 1)>>), a, Lo(b))
          [] w = "FILL" -> Filled(Put(f, 3, <<>>), c, b, Lo(a))
          [] w = "(blk@)" -> [Put(f, 2, <<>>) EXCEPT !.mem =
                                 [i \in a .. (a + BlkSize - 1) |-> f.disk[b][i - a]] @@ @]
          [] w = "(blk!)" -> [Put(f, 2, <<>>) EXCEPT !.disk =
                                 (b :> [i \in 0..(BlkSize - 1) |-> f.mem[a + i]]) @@ @]
          [] w = "S=" -> Put(f, 4, <<Flag(a = c /\ Same(f, f.ps[4], b, a))>>)

(* What is added to the dictionary goes to here.                           *)
Laid(f, n, bytes) ==
    LET g == Put(f, n, <<>>)
    IN  [g EXCEPT !.mem = [i \in f.here .. (f.here + Len(bytes) - 1) |-> bytes[i - f.here + 1]] @@ @,
                  !.here = Mod(@ + Len(bytes))]
Dictionary == {"HERE", "ALLOT", "ALLOT0", "IMMEDIATE", ",", "C,", "L,", "M,", "MOVE,", "TO", "v", "c"}
DictionaryWord(w, f) ==
    LET a == f.ps[1]  b == f.ps[2]  flags == f.current - 1
    IN  CASE w = "HERE" -> Put(f, 0, <<f.here>>)
          [] w = "ALLOT" -> [Put(f, 1, <<>>) EXCEPT !.here = Mod(@ + a)]
          [] w = "ALLOT0" -> Laid(f, 1, [i \in 1..a |-> 0])
          [] w = "IMMEDIATE" -> PutByte(f, flags, Or(f.mem[flags], 128, 8))
          [] w \in {",", "L,"} -> Laid(f, 1, <<Lo(a), Hi(a)>>)
          [] w = "M," -> Laid(f, 1, <<Hi(a), Lo(a)>>)
          [] w = "C," -> Laid(f, 1, <<Lo(a)>>)
          [] w = "MOVE," -> Laid(f, 2, [i \in 1..a |-> f.mem[b + i - 1]])
          [] w = "TO" -> [f EXCEPT !.to = 1]
          [] w = "v" -> IF f.to = 0 THEN Put(f, 0, <<f.val>>)
                        ELSE [Put(f, 1, <<>>) EXCEPT !.val = a, !.to = 0]
          [] w = "c" -> Put(f, 0, <<f.cell>>)

(* Numbers as text.                                                        *)
Text(f, sa, sl) == [i \in 1..sl |-> f.mem[sa + i - 1]]
DigitOf(c, base) ==
    LET low == IF base = 16 THEN Or(c, 32, 8) ELSE c
    IN  CASE low \in 48..57 -> low - 48
          [] low \in 97..102 /\ base = 16 -> low - 87
          [] OTHER -> base
Value(s, base) ==
    LET to[i \in 0..Len(s)] == IF i = 0 THEN 0 ELSE Mod((base * to[i - 1]) + DigitOf(s[i], base))
    IN  to[Len(s)]
Number(s) ==
    LET rest == Tail(s)
        In(t, base, n) == IF t # <<>> /\ \A i \in 1..Len(t) : DigitOf(t[i], base) < base
                          THEN <<1, n>> ELSE <<0>>
    IN  CASE s[1] = 39 -> IF Len(s) = 3 /\ s[3] = 39 THEN <<1, s[2]>> ELSE <<0>>
          [] s[1] = 36 -> In(rest, 16, Value(rest, 16))
          [] s[1] = 45 /\ Len(s) > 1 -> In(rest, 10, Mod(-Value(rest, 10)))
          [] OTHER -> In(s, 10, Value(s, 10))

DecimalText(n) ==
    LET v == IF n < 32768 THEN n ELSE 65536 - n
        k == CHOOSE k \in 1..5 : v < 10^k /\ (k = 1 \/ v >= 10^(k - 1))
        digits == [i \in 1..k |-> 48 + ((v \div 10^(k - i)) % 10)]
    IN  IF n < 32768 THEN digits ELSE <<45>> \o digits
HexText(n, k) ==
    [i \in 1..k |-> LET d == (n \div 16^(k - i)) % 16 IN IF d < 10 THEN 48 + d ELSE 87 + d]

(* The text of a number ends where the room for it at a does.              *)
Formatted(f, a, room, text) ==
    LET sa == a + room - Len(text)
        g  == Put(f, 2, <<Len(text), sa>>)
    IN  [g EXCEPT !.mem = [i \in sa .. (sa + Len(text) - 1) |-> text[i - sa + 1]] @@ @]

Numbers == {"FMTD", "FMTx", "FMTX", "PARSE"}
NumberWord(w, f) ==
    LET a == f.ps[1]  b == f.ps[2]
    IN  CASE w = "FMTD" -> Formatted(f, a, 6, DecimalText(b))
          [] w = "FMTx" -> Formatted(f, a, 2, HexText(b, 2))
          [] w = "FMTX" -> Formatted(f, a, 4, HexText(b, 4))
          [] w = "PARSE" -> Put(f, 2, Number(Text(f, b, a)))

(* Words that move IP: x is what follows the word in the thread, at ip.    *)
Flow == {"(b)", "(n)", "(br)", "(?br)", "(next)", "EXIT", "LEAVE"}
FlowWord(w, f, ip, x) ==
    LET a == f.ps[1]
        To(g, n) == [f |-> g, ip |-> Mod(ip + n)]
        left == Mod(f.rs[1] - 1)
    IN  CASE w = "(b)" -> To(Put(f, 0, <<x[1]>>), 1)
          [] w = "(n)" -> To(Put(f, 0, <<Join(x[2], x[1])>>), 2)
          [] w = "(br)" -> To(f, S8(x[1]))
          [] w = "(?br)" -> To(Put(f, 1, <<>>), IF a # 0 THEN 1 ELSE S8(x[1]))
          [] w = "(next)" -> IF left = 0 THEN To(RDrop(f), 1)
                             ELSE To(RPush(RDrop(f), left), S8(x[1]))
          [] w = "EXIT" -> [f |-> RDrop(f), ip |-> f.rs[1]]
          [] w = "LEAVE" -> To([f EXCEPT !.rs[1] = 1], 0)

(* Words doc/dict.txt marks as using A, and words that do not give it back,*)
(* of which the formatters are marked only in blk.fs:668 and 673.          *)
Marked == {"MOVE", "MOVE,", "FILL", "ALLOT0", "PARSE"}
UsesA == Marked \cup {"FMTD", "FMTx", "FMTX"}

Meaning(w, f, ip, x) ==
    CASE w \in Stack -> [f |-> StackWord(w, f), ip |-> ip]
      [] w \in Arithmetic -> [f |-> ArithmeticWord(w, f), ip |-> ip]
      [] w \in Order -> [f |-> OrderWord(w, f), ip |-> ip]
      [] w \in Memory -> [f |-> MemoryWord(w, f), ip |-> ip]
      [] w \in Dictionary -> [f |-> DictionaryWord(w, f), ip |-> ip]
      [] w \in Numbers -> [f |-> NumberWord(w, f), ip |-> ip]
      [] w \in Flow -> FlowWord(w, f, ip, x)
=============================================================================
