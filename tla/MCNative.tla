------------------------------ MODULE MCNative ------------------------------
EXTENDS Native

(* TLC evaluates images and where once, and what a constant stands for at  *)
(* each use: hence these two, of which only the name is left to evaluate.  *)
NativeImages == LET filled == images IN filled
NativeEntry == LET placed == where IN placed

Psk0 == [stat |-> 9, cc |-> 165, bufi |-> 7, bufo |-> 5, buf |-> <<1, 2, 3, 4, 5, 6, 7, 8>>,
         vid |-> <<2, 3>>]
Plain == [kind |-> "word", cpu |-> "z80", word |-> "", body |-> <<>>, ps |-> <<>>, rs |-> <<>>,
          a |-> 0, mem |-> <<>>, x |-> <<>>, bus |-> 16, psk |-> Psk0, ints |-> 0,
          code |-> <<>>, disk |-> <<>>, v |-> 0, F |-> {}, current |-> 0, here |-> 28928]
W(w, ps) == [Plain EXCEPT !.word = w, !.ps = ps]

(* On every processor that has the word.                                   *)
Everywhere(jobs) ==
    {j \in {[k EXCEPT !.cpu = cpu] : k \in jobs, cpu \in Cpus} :
        j.word = ":" \/ j.word \in DOMAIN Entry[j.cpu]}

-----------------------------------------------------------------------------
(* Words of the stacks, arithmetic and order, on values at the boundaries. *)

Unary == {0, 1, 255, 256, 33023, 65535}
Binary == {<<0, 0>>, <<1, 65535>>, <<65535, 1>>, <<255, 769>>, <<43981, 291>>, <<291, 43981>>}
Compared == {<<32768, 32767>>, <<32767, 32768>>, <<5, 5>>}
Ones == {"DUP", "?DUP", "DROP", "NOT", "1+", "1-", ">>", "<<", ">>8", "<<8", ">A", "L|M"}
Twos == {"SWAP", "OVER", "NIP", "TUCK", "+", "-", "*", "AND", "OR", "XOR", "=", "<", "-^"}
Orders == {">", ">=", "<=", "<>", "MIN", "MAX", "2DROP", "2DUP"}

ValueJobs == Everywhere(
    {W(w, <<a, 7>>) : w \in Ones, a \in Unary} \cup {W(w, s \o <<9>>) : w \in Twos, s \in Binary}
    \cup {W(w, s \o <<9>>) : w \in Orders, s \in Compared}
    \cup {W(w, <<a>>) : w \in {"0<", "0>="}, a \in {0, 32767, 32768}}
    \cup {W(w, <<1, 2, 3, 4>>) : w \in {"ROT", "ROT>"}}
    \cup {W("=><=", s) : s \in {<<7, 5, 6, 1>>, <<7, 5, 5, 1>>, <<7, 5, 7, 1>>, <<7, 5, 8, 1>>, <<7, 5, 4, 1>>}}
    \cup {W(w, s \o <<8>>) : w \in {"/MOD", "/", "MOD"},
          s \in {<<1, 65535>>, <<65535, 65534>>, <<40000, 65535>>, <<7, 43981>>}}
    \cup {W(w, <<c, 33025>>) : w \in {"RSHIFT", "LSHIFT"}, c \in {0, 1, 9, 16}}
    \cup {W("CRC16", <<k, c>>) : k \in {0, 165}, c \in {0, 43981}})

(* The return stack and the A register.                                    *)
Held == [Plain EXCEPT !.ps = <<11, 12>>, !.rs = <<513, 1027>>, !.a = 28672,
                      !.mem = Bytes(28672, <<200, 100, 50>>)]
RegisterJobs == Everywhere(
    {[Held EXCEPT !.word = w, !.a = a] :
        w \in {">R", "R>", "R@", "R~", "A>", ">A", "A>R", "R>A", "A+", "A-", "LEAVE", "PC@"},
        a \in {0, 255, 65535}}
    \cup {[Held EXCEPT !.word = w] : w \in {"AC@", "AC!", "AC@+", "AC!+"}})

(* Memory: u bytes at 28672 and at 28680, which differ at the last.        *)
Shelf == Bytes(28672, <<9, 7, 7, 200>>) @@ Bytes(28680, <<9, 7, 7, 201>>)
M(w, ps) == [W(w, ps) EXCEPT !.mem = Shelf, !.a = 771]
\* A MOVE of no bytes; where it is Forth it does not consume what it is given,
\* so only the Z80's is among the jobs that agree.
EmptyMoves == {M("MOVE", <<0, 28680, 28672, 3>>)}
EmptyMovesAll == Everywhere(EmptyMoves)
MemoryJobs == Everywhere(
    {M(w, <<28674, 3>>) : w \in {"C@", "@", "C@+"}}
    \cup {M(w, <<28674, 65279, 3>>) : w \in {"C!", "!", "+!", "C!+"}}
    \cup {M("MOVE", <<3, d, 28672, 3>>) : d \in {28673, 28680}}
    \cup {M("[]=", <<u, 28672, a, 3>>) : u \in {1, 3, 4}, a \in {28680, 28681}}
    \cup {M("[C]?", <<u, 28672, c, 3>>) : u \in {0, 4}, c \in {9, 7, 200, 1}}
    \cup {M("FILL", <<65, 3, 28672, 3>>)}
    \cup {M("S=", <<u, 28672, t, 28680, 3>>) : u \in {3, 4}, t \in {3, 4}})
    \cup EmptyMoves

(* The block driver of the CVM, on blocks 0 and 258.                       *)
Block(k) == [i \in 0..1023 |-> (i + k) % 256]
BlockJobs ==
    {[W(w, <<28672, n, 3>>) EXCEPT !.cpu = "cvm", !.disk = (0 :> Block(7)) @@ (258 :> Block(9)),
                                   !.mem = [a \in 28672..29695 |-> (3 * a) % 256]] :
        w \in {"(blk@)", "(blk!)"}, n \in {0, 258}}

(* A dictionary of three words: ab, abc (IMMEDIATE) and xb.                *)
Entries == Bytes(28800, <<97, 98, 0, 0, 2, 97, 98, 99, 133, 112, 131, 120, 98, 139, 112, 2, 1>>)
Searched == Bytes(28700, <<97, 98, 99, 120, 98, 121>>)
DictionaryJobs == Everywhere(
    {[W("FIND", <<l, 28700 + o, 3>>) EXCEPT !.mem = Entries @@ Searched, !.current = 28816, !.a = 5] :
        l \in 1..3, o \in {0, 3}}
    \cup {[M(w, <<u, 28672, 3>>) EXCEPT !.mem = Entries @@ Shelf, !.current = 28816] :
             w \in {"HERE", "ALLOT", "ALLOT0", "IMMEDIATE", ",", "C,", "L,", "M,", "MOVE,", "TO", "v", "c"},
             u \in {3}}
    \cup {[M("ALLOT", <<65535>>) EXCEPT !.here = 28927], [M(",", <<43981, 1>>) EXCEPT !.here = 29183]})

-----------------------------------------------------------------------------
(* Numbers.                                                                *)

Texts == {<<48>>, <<54, 53, 53, 51, 55>>, <<45>>, <<45, 49, 50>>, <<49, 47>>,
          <<49, 58>>, <<45, 45>>, <<39, 97>>, <<36>>, <<36, 102, 70, 48>>, <<36, 103>>, <<39, 39, 39>>, <<39, 97, 98, 39>>}
NumberJobs == Everywhere(
    {[W("PARSE", <<Len(t), 28672, 3>>) EXCEPT !.mem = Bytes(28672, Append(t, 122))] : t \in Texts}
    \cup {W("FMTD", <<28672, k, 3>>) : k \in {0, 9, 10, 32767, 32768, 65535}}
    \cup {W(w, <<28672, 43981, 3>>) : w \in {"FMTx", "FMTX"}})
\* Numbers formatted by a program that holds something in A.
HeldJobs == {[j EXCEPT !.a = 771] : j \in {k \in NumberJobs : k.word \in {"FMTD", "FMTx", "FMTX"}}}

(* Words that move IP, threads, and words by their address.                *)
FlowJobs == Everywhere(
    {[W(w, <<a, 3>>) EXCEPT !.x = <<d>>, !.rs = <<a, 5>>] :
        w \in {"(b)", "(br)", "(?br)", "(next)"}, a \in {0, 1, 2, 256, 257}, d \in {127, 246}}
    \cup {[W("(n)", <<3>>) EXCEPT !.x = <<205, 171>>], [W("EXIT", <<3>>) EXCEPT !.rs = <<25600, 4>>]})
Threads == {<<"OVER", "+", "TUCK", "-^">>, <<"TO", "v", "v", "1+", "TO", "v">>,
            <<">R", "A>R", ">A", "A+", "A>", "R>A", "R>">>, <<"c", "HERE", "MAX", "L|M">>}
ThreadJobs ==
    Everywhere({[W(":", <<6, 65530, 258, 3>>) EXCEPT !.body = b, !.a = 44] : b \in Threads})
    \cup {[Plain EXCEPT !.cpu = cpu, !.word = "EXECUTE", !.body = <<w>>, !.ps = <<Entry[cpu][w], 6, 4, 2>>] :
              cpu \in Cpus, w \in {"ROT", "NIP", "<>", "=><="}}

-----------------------------------------------------------------------------
(* Interrupts.  At any instruction of every native word, the ninth edge of *)
(* a frame, which uses most of the handler; at any instruction of some, an *)
(* edge at each of the other places, with the ring full or not, and two    *)
(* edges, the second during the handler of the first or after it.          *)
Interrupted(j, p, ints) == [j EXCEPT !.psk = p[1], !.bus = p[2], !.ints = ints]
Places == {<<[Psk0 EXCEPT !.stat = s], b>> : s \in {0, 1}, b \in {16, 144}}
          \cup {<<Psk0, 0>>, <<[Psk0 EXCEPT !.stat = 8], 144>>, <<[Psk0 EXCEPT !.bufi = 6], 16>>}
Ninth == <<Psk0, 144>>
OnZ80(jobs) == {j \in jobs : j.cpu = "z80" /\ j.word \in DOMAIN Native.z80}
One(jobs) == {CHOOSE j \in jobs : j.word = w : w \in {k.word : k \in jobs}}
InterruptJobs ==
    {Interrupted(j, Ninth, 1) :
        j \in One(OnZ80(ValueJobs)) \cup One(OnZ80(RegisterJobs)) \cup One(OnZ80(MemoryJobs))
              \cup One(OnZ80(DictionaryJobs)) \cup OnZ80(FlowJobs)}
    \cup {Interrupted(j, p, 1) : p \in Places,
             j \in {W("DUP", <<5, 6>>), W("ROT", <<5, 6, 7>>), M("[]=", <<2, 28672, 28680, 3>>),
                    M("MOVE", <<2, 28680, 28672, 3>>), W("/", <<3, 7>>)}}
    \cup {Interrupted(j, p, 2) : p \in {<<[Psk0 EXCEPT !.stat = 8], 144>>, Ninth},
             j \in {W("?DUP", <<5>>), M("[C]?", <<4, 28672, 7, 3>>)}}

-----------------------------------------------------------------------------
(* Instructions that undo each other.                                      *)

U(cpu, code) == [Plain EXCEPT !.kind = "undo", !.cpu = cpu, !.code = code]
On(jobs, values) == {[j EXCEPT !.v = v] : j \in jobs, v \in values}

Z8(code) == U("z80", code)
Shifted == {<<0, 8>>, <<8, 0>>, <<16, 24>>, <<24, 16>>, <<32, 24>>, <<40, 16>>, <<48, 24>>, <<56, 16>>}
Z80Singles ==
    {Z8(<<203, s[1] + g, 203, s[2] + g>>) : s \in Shifted, g \in 0..7}
    \cup {Z8(<<221, 203, 5, s[1] + 6, 221, 203, 5, s[2] + 6>>) : s \in Shifted}
    \cup {Z8(<<253, 203, 253, s[1] + 6, 253, 203, 253, s[2] + 6>>) : s \in Shifted}
    \cup {Z8(<<7, 15>>), Z8(<<15, 7>>), Z8(<<23, 31>>), Z8(<<31, 23>>), Z8(<<47, 47>>), Z8(<<237, 68, 237, 68>>)}
    \cup {Z8(<<4 + (8 * g), 5 + (8 * g)>>) : g \in 0..7} \cup {Z8(<<5 + (8 * g), 4 + (8 * g)>>) : g \in 0..7}
    \cup {Z8(<<221, 52, 5, 221, 53, 5>>), Z8(<<253, 53, 253, 253, 52, 253>>)}
    \cup {Z8(<<p, 36, p, 37>>) : p \in {221, 253}} \cup {Z8(<<p, 45, p, 44>>) : p \in {221, 253}}
    \cup {Z8(<<128 + g, 144 + g>>) : g \in 0..6} \cup {Z8(<<55, 136 + g, 55, 152 + g>>) : g \in 0..6}
    \cup {Z8(<<168 + g, 168 + g>>) : g \in 0..6} \cup {Z8(<<184 + g>>) : g \in 0..7}
    \cup {Z8(<<p, 132, p, 148>>) : p \in {221, 253}} \cup {Z8(<<221, 134, 5, 221, 150, 5>>)}
    \cup {Z8(<<198, 157, 214, 157>>), Z8(<<238, 90, 238, 90>>)}
    \cup {Z8(<<237, 111, 237, 111, 237, 111>>), Z8(<<237, 111, 237, 103>>)}
Z80Pairs ==
    {Z8(<<3 + (16 * p), 11 + (16 * p)>>) : p \in 0..3} \cup {Z8(<<221, 35, 221, 43>>), Z8(<<253, 43, 253, 35>>)}
    \cup {Z8(<<197 + (16 * p), 1 + (16 * p), 0, 0, 193 + (16 * p)>>) : p \in 0..2}
    \cup {Z8(<<245, 175, 241>>), Z8(<<221, 229, 221, 33, 0, 0, 221, 225>>)}
    \cup {Z8(<<8, 8>>), Z8(<<217, 217>>), Z8(<<235, 235>>), Z8(<<8, 217, 217, 8>>)}
    \cup {Z8(<<197, 227, 227, 193>>), Z8(<<221, 229, 221, 227, 221, 227, 221, 225>>)}
    \cup {Z8(<<9 + (16 * p), 183, 237, 66 + (16 * p)>>) : p \in {0, 1, 3}}
    \cup {Z8(<<55, 237, 74 + (16 * p), 55, 237, 66 + (16 * p)>>) : p \in {0, 1, 3}}
    \cup {Z8(<<237, 67 + (16 * p), 184, 111, 1 + (16 * p), 0, 0, 237, 75 + (16 * p), 184, 111>>) : p \in 0..3}
    \cup {Z8(<<34, 184, 111, 33, 0, 0, 42, 184, 111>>), Z8(<<50, 184, 111, 175, 58, 184, 111>>)}
    \cup {Z8(<<18, 175, 26>>), Z8(<<119, 175, 126>>), Z8(<<197, 112, 6, 0, 70, 193, 119>>)}
    \cup {Z8(<<237, 160, 237, 168, 3, 3>>), Z8(<<237, 161, 237, 169, 3, 3>>), Z8(<<237, 163, 237, 171, 4, 4>>)}
    \cup {Z8(<<205, 5, 96, 24, 1, 201>>), Z8(<<197, 6, 3, 16, 254, 193>>), Z8(<<55, 48, 1, 55, 63>>)}
    \cup {Z8(<<196 + (8 * c), 5, 96, 24, 1, 201>>) : c \in 0..7}
Z80Bits ==
    {[Z8(<<203, k + (8 * b) + g, 203, (320 - k) + (8 * b) + g>>) EXCEPT
          !.v = IF k = 128 THEN 255 ELSE 0] : k \in {128, 192}, b \in 0..7, g \in {6, 7}}
    \cup {[Z8(<<221, 203, 5, k + (8 * b) + 6, 221, 203, 5, (320 - k) + (8 * b) + 6>>) EXCEPT
          !.v = IF k = 128 THEN 255 ELSE 0] : k \in {128, 192}, b \in {0, 7}}

I8(code) == U("i86", code)
Turns == {<<0, 1>>, <<1, 0>>, <<2, 3>>, <<3, 2>>, <<4, 3>>, <<5, 2>>, <<7, 2>>}
I86Singles ==
    {I8(<<o, md + (8 * s[1]), o, md + (8 * s[2])>>) : o \in {208, 209}, s \in Turns, md \in {7, 192, 195}}
    \cup {I8(<<o, md + (8 * s[1]), o, md + (8 * s[2])>>) :
              o \in {210, 211}, s \in {<<0, 1>>, <<2, 3>>}, md \in {7, 192}}
    \cup {I8(<<o, 7 + (8 * s), o, 7 + (8 * s)>>) : o \in {246, 247}, s \in {2, 3}}
    \cup {I8(<<o, 7, o, 15>>) : o \in {254, 255}} \cup {I8(<<254, 192, 254, 200>>)}
    \cup {I8(<<o, md, 40 + o, md>>) : o \in 0..3, md \in {15, 203}}
    \cup {I8(<<o, md, o, md>>) : o \in 48..51, md \in {15, 203}}
    \cup {I8(<<249, 16 + o, 203, 249, 24 + o, 203>>) : o \in 0..3}
    \cup {I8(<<o, md>>) : o \in 56..59, md \in {15, 203}}
    \cup {I8(<<4, 90, 44, 90>>), I8(<<5, 90, 7, 45, 90, 7>>), I8(<<52, 90, 52, 90>>)}
    \cup {I8(<<131, 7, 200, 131, 47, 200>>), I8(<<129, 55, 1, 2, 129, 55, 1, 2>>), I8(<<128, 63, 1>>)}
    \cup {I8(<<o, md, o, md>>) : o \in {134, 135}, md \in {203, 12, 13}}
    \cup {I8(<<135, 71, 21, 135, 71, 21>>), I8(<<135, 135, 21, 0, 135, 135, 21, 0>>)}
    \cup {I8(<<33, 192>>), I8(<<9, 219>>), I8(<<133, 203>>), I8(<<168, 3>>)}
I86Words ==
    {I8(<<64 + g, 72 + g>>) : g \in 0..7} \cup {I8(<<144 + g, 144 + g>>) : g \in 0..7 \ {4}}
    \cup {I8(<<80 + g, 184 + g, 5, 6, 88 + g>>) : g \in 0..7 \ {4}}
    \cup {I8(<<6 + s, 7 + s>>) : s \in {0, 16, 24}}
    \cup {I8(<<96, 49, 192, 97>>), I8(<<156, 249, 157>>), I8(<<80, 159, 158, 88>>)}
    \cup {I8(<<200, 8, 0, 0, 201>>), I8(<<255, 55, 143, 7>>), I8(<<104, 1, 2, 68, 68>>)}
    \cup {I8(<<232, 2, 0, 235, 1, 195>>), I8(<<154, 7, 96, 0, 0, 235, 1, 203>>)}
    \cup {I8(<<81, 185, 3, 0, 226, 254, 89>>), I8(<<227, 0>>), I8(<<141, 31>>), I8(<<141, 116, 4, 141, 116, 252>>)}
    \cup {I8(<<112 + c, 2, 144, 144>>) : c \in 0..15}
    \cup {I8(<<o, 253, o, 252>>) : o \in {164, 166, 167, 174, 175}}
    \cup {I8(<<80, 172, 253, 172, 252, 88>>)}
    \cup {I8(<<38, 254, 7, 54, 254, 15>>), I8(<<80, 160, 0, 112, 162, 0, 112, 88>>)}
I86Muls == {[I8(<<82, 247, 225, 247, 241, 90>>) EXCEPT !.v = 3],
                I8(<<246, 229, 246, 245>>), I8(<<212, 10, 213, 10>>)}

Edgy == {0, 1, 127, 128, 254, 255}
UndoJobs == On(Z80Singles, Edgy) \cup On(Z80Pairs, Edgy) \cup Z80Bits
            \cup On(I86Singles, Edgy) \cup On(I86Words, Edgy) \cup I86Muls

DecimalJobs ==
    {[Plain EXCEPT !.kind = k, !.ps = <<a, b>>] :
        k \in {"add", "sub"}, a \in 0..99, b \in 0..99}

Bounds == [word |-> 4000, undo |-> 20, add |-> 4, sub |-> 4]
NativeJobs == ValueJobs \cup BlockJobs \cup RegisterJobs \cup MemoryJobs \cup DictionaryJobs \cup NumberJobs
              \cup FlowJobs \cup ThreadJobs \cup InterruptJobs \cup UndoJobs \cup DecimalJobs
=============================================================================
