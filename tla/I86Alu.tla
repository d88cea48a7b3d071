------------------------------- MODULE I86Alu -------------------------------
(***************************************************************************)
(* The emulated 8086, src/emul/8086/cpu.c, below the opcodes: memory,      *)
(* registers, flags, effective addresses and the operations of its groups. *)
(*                                                                         *)
(* The state c is a record: w, the word registers, and s, the segment      *)
(* registers, by name; ip; F, the set of flags that are on; hlt (hltstate);*)
(* mem, the memory written since the program Image was loaded, at 20-bit   *)
(* addresses; int, the interrupt that the last instruction called (0 if    *)
(* none: interrupt 0 halts instead of being called).  n is the width of an *)
(* operation, 8 or 16.                                                     *)
(***************************************************************************)
EXTENDS Words, FiniteSets, Sequences, TLC

CONSTANT Image    \* the program: a function from addresses to bytes, 0 elsewhere

Flags == {"C", "P", "A", "Z", "S", "T", "I", "D", "O"}
FlagBit == [C |-> 0, P |-> 2, A |-> 4, Z |-> 6, S |-> 7, T |-> 8, I |-> 9, D |-> 10, O |-> 11]

RegName == <<"AX", "CX", "DX", "BX", "SP", "BP", "SI", "DI">>
SegName == <<"ES", "CS", "SS", "DS">>

-----------------------------------------------------------------------------
(* Memory.  A word's second byte is not kept inside its segment.           *)

Linear(a) == a % 1048576
read86(c, a) ==
    LET l == Linear(a)
    IN  IF l \in DOMAIN c.mem THEN c.mem[l] ELSE IF l \in DOMAIN Image THEN Image[l] ELSE 0
readw86(c, a) == Join(read86(c, a + 1), read86(c, a))
write86(c, a, v) == [c EXCEPT !.mem = (Linear(a) :> v) @@ @]
writew86(c, a, v) == write86(write86(c, a, Lo(v)), a + 1, Hi(v))

read(c, n, a) == IF n = 8 THEN read86(c, a) ELSE readw86(c, a)
write(c, n, a, v) == IF n = 8 THEN write86(c, a, v) ELSE writew86(c, a, v)
At(seg, off) == (16 * seg) + off

(* What follows the opcode.                                                *)
Imm(c, n) == read(c, n, At(c.s["CS"], c.ip))
StepIP(c, k) == [c EXCEPT !.ip = (@ + k) % 65536]

(* Registers: the byte registers 0-3 are low halves, 4-7 the high ones.    *)
getreg(c, n, i) ==
    IF n = 16 THEN c.w[RegName[i + 1]]
    ELSE IF i < 4 THEN Lo(c.w[RegName[i + 1]]) ELSE Hi(c.w[RegName[i - 3]])
putreg(c, n, i, v) ==
    IF n = 16 THEN [c EXCEPT !.w[RegName[i + 1]] = v]
    ELSE IF i < 4 THEN [c EXCEPT !.w[RegName[i + 1]] = Join(Hi(@), v)]
    ELSE [c EXCEPT !.w[RegName[i - 3]] = Join(v, Lo(@))]
Add(c, r, k) == [c EXCEPT !.w[r] = (@ + k) % 65536]

push(c, v) ==
    LET c1 == Add(c, "SP", -2) IN writew86(c1, At(c.s["SS"], c1.w["SP"]), v)
Popped(c) == readw86(c, At(c.s["SS"], c.w["SP"]))
pop(c) == Add(c, "SP", 2)

-----------------------------------------------------------------------------
(* Flags.                                                                  *)

If(on, f) == IF on THEN {f} ELSE {}
Set(F, f, on) == IF on THEN F \cup {f} ELSE F \ {f}
Top(n, v) == Bit(v, n - 1)

(* As in the parity table, of the low byte.                                *)
Even(v) == Cardinality(BitsOf(v, 8)) % 2 = 0

flag_szp(n, F, v) ==
    (F \ {"Z", "S", "P"}) \cup If(v = 0, "Z") \cup If(Top(n, v), "S") \cup If(Even(v), "P")
flag_log(n, F, v) == flag_szp(n, F, v) \ {"C", "O"}

(* The flags of dst, the exact sum or difference of v1 and v2.             *)
Arith(n, F, v1, v2, dst, isSub) ==
    LET r == dst % 2^n
    IN  (flag_szp(n, F, r) \ {"C", "O", "A"})
        \cup If(dst # r, "C")
        \cup If((Bit(v1, 4) # Bit(v2, 4)) # Bit(r, 4), "A")
        \cup If((Top(n, v1) = Top(n, v2)) = ~isSub /\ Top(n, r) # Top(n, v1), "O")

Cf(F) == IF "C" \in F THEN 1 ELSE 0
flag_add(n, F, v1, v2) == Arith(n, F, v1, v2, v1 + v2, FALSE)
flag_adc(n, F, v1, v2) == Arith(n, F, v1, v2, v1 + v2 + Cf(F), FALSE)
flag_sub(n, F, v1, v2) == Arith(n, F, v1, v2, v1 - v2, TRUE)
(* The borrow is added to v2 in its own width: lost when v2 is all ones.   *)
flag_sbb(n, F, v1, v2) ==
    LET v == (v2 + Cf(F)) % 2^n IN Arith(n, F, v1, v, v1 - v, TRUE)

(* The eight operations of opcodes 00-3F and of GRP1; 7 compares.          *)
Op(k, n, F, v1, v2) ==
    LET M == 2^n
        X(v, f) == [res |-> v % M, F |-> f]
        L(v) == X(v, flag_log(n, F, v))
    IN  CASE k = 0 -> X(v1 + v2, flag_add(n, F, v1, v2))
          [] k = 1 -> L(Or(v1, v2, n))
          [] k = 2 -> X(v1 + v2 + Cf(F), flag_adc(n, F, v1, v2))
          [] k = 3 -> X(v1 - (v2 + Cf(F)), flag_sbb(n, F, v1, v2))
          [] k = 4 -> L(And(v1, v2, n))
          [] k = 5 -> X(v1 - v2, flag_sub(n, F, v1, v2))
          [] k = 6 -> L(Xor(v1, v2, n))
          [] k = 7 -> X(v1, flag_sub(n, F, v1, v2))

(* INC and DEC keep the carry.                                             *)
IncDec(n, F, v, k) ==
    [Op(k, n, F, v, 1) EXCEPT !.F = Set(@, "C", "C" \in F)]

makeflagsword(c) == 2 + FromBits({FlagBit[f] : f \in c.F}, 12)
decodeflagsword(c, v) == [c EXCEPT !.F = {f \in Flags : Bit(v, FlagBit[f])}]

-----------------------------------------------------------------------------
(* The byte that names the operands: the state past it and its             *)
(* displacement, and what it says.  BP addresses the stack segment unless  *)
(* a prefix (over) says another.                                           *)

Operands(c, pre, b) ==
    LET mode == b \div 64
        rm   == b % 8
        size == IF mode = 2 \/ (mode = 0 /\ rm = 6) THEN 2 ELSE IF mode = 1 THEN 1 ELSE 0
        disp == IF size = 2 THEN Imm(c, 16)
                ELSE IF size = 1 THEN Signed8(Imm(c, 8)) % 65536 ELSE 0
        onBP == mode < 3 /\ (rm \in {2, 3} \/ (rm = 6 /\ mode # 0))
    IN  [c |-> StepIP(c, size),
         m |-> [mode |-> mode, reg |-> (b \div 8) % 8, rm |-> rm, disp |-> disp,
                seg |-> IF onBP /\ ~pre.over THEN c.s["SS"] ELSE pre.seg]]
modregrm(c, pre) == Operands(StepIP(c, 1), pre, Imm(c, 8))

getea(c, m) ==
    LET w    == c.w
        base == CASE m.rm = 0 -> w["BX"] + w["SI"] [] m.rm = 1 -> w["BX"] + w["DI"]
                  [] m.rm = 2 -> w["BP"] + w["SI"] [] m.rm = 3 -> w["BP"] + w["DI"]
                  [] m.rm = 4 -> w["SI"]           [] m.rm = 5 -> w["DI"]
                  [] m.rm = 6 -> IF m.mode = 0 THEN 0 ELSE w["BP"]
                  [] m.rm = 7 -> w["BX"]
    IN  At(m.seg, IF m.mode = 3 THEN 0 ELSE (base + m.disp) % 65536)

readrm(c, n, m) == IF m.mode = 3 THEN getreg(c, n, m.rm) ELSE read(c, n, getea(c, m))
writerm(c, n, m, v) == IF m.mode = 3 THEN putreg(c, n, m.rm, v) ELSE write(c, n, getea(c, m), v)

intcall86(c, k) == IF k = 0 THEN [c EXCEPT !.hlt = TRUE] ELSE [c EXCEPT !.int = k]

-----------------------------------------------------------------------------
(* Shifts and rotations (group 2): one round, then cnt of them.            *)

Shift(n, reg, x) ==
    LET out  == IF reg \in {0, 2, 4, 6} THEN Top(n, x.v) ELSE Bit(x.v, 0)
        in   == CASE reg \in {0, 1} -> out [] reg \in {2, 3} -> x.cf
                  [] reg = 7 -> Top(n, x.v) [] OTHER -> FALSE
        one(b) == IF in THEN b ELSE 0
    IN  [cf |-> out,
         v  |-> IF reg \in {0, 2, 4, 6} THEN ((2 * x.v) % 2^n) + one(1)
                ELSE (x.v \div 2) + one(2^(n - 1))]

op_grp2(n, F, reg, v, count) ==
    LET cnt == count % 32
        after[i \in 0..cnt] ==
            IF i = 0 THEN [v |-> v, cf |-> "C" \in F] ELSE Shift(n, reg, after[i - 1])
        s   == after[cnt].v
        cf  == after[cnt].cf
        top == Top(n, s)
        of  == CASE reg = 0 /\ n = 8 -> cnt = 1 /\ top /\ cf
                 [] reg \in {4, 6} -> ~(cnt = 1 /\ cf = top)
                 [] reg = 5 -> cnt = 1 /\ Top(n, v)
                 [] reg = 7 -> FALSE
                 [] reg < 4 /\ cnt # 1 -> "O" \in F
                 [] reg \in {0, 2} -> cf # top
                 [] reg \in {1, 3} -> top # Bit(s, n - 2)
        F1  == Set(Set(F, "C", cf), "O", of)
    IN  [res |-> s, F |-> IF reg < 4 THEN F1 ELSE flag_szp(n, F1, s)]

-----------------------------------------------------------------------------
(* Multiplication and division (group 3).  A double word is <<hi, lo>>.    *)

Mul(a, b) ==
    LET high == a * Hi(b)
        low  == (a * Lo(b)) + (256 * (high % 256))
    IN  <<(low \div 65536) + (high \div 256), low % 65536>>
IMul(a, b) ==
    LET p == Mul(a, b)
    IN  <<(p[1] - (IF Top(16, a) THEN b ELSE 0) - (IF Top(16, b) THEN a ELSE 0)) % 65536, p[2]>>

(* The remainder and quotient of <<hi, lo>> by d, when hi < d.             *)
DivMod(hi, lo, d) ==
    LET at[i \in 0..16] ==
            IF i = 0 THEN <<hi, 0>>
            ELSE LET r == (2 * at[i - 1][1]) + (IF Bit(lo, 16 - i) THEN 1 ELSE 0)
                     q == 2 * at[i - 1][2]
                 IN  IF r < d THEN <<r, q>> ELSE <<r - d, q + 1>>
    IN  at[16]

Neg(n, v) == (-v) % 2^n
Carry2(F, on) == Set(Set(F, "C", on), "O", on)

SetAX(c, v) == [c EXCEPT !.w["AX"] = v]
SetDXAX(c, hi, lo) == [c EXCEPT !.w["DX"] = hi, !.w["AX"] = lo]

op_div8(c, v, d) ==
    IF d = 0 THEN intcall86(c, 0)
    ELSE IF v \div d > 255 THEN intcall86(c, 0)
    ELSE SetAX(c, Join(v % d, v \div d))
(* The divisor is not extended: only the dividend's sign counts.           *)
op_idiv8(c, v, d) ==
    LET neg == v >= 32768
        s   == IF neg THEN Neg(16, v) ELSE v
        sign(x) == IF neg THEN Neg(8, x) ELSE x
    IN  IF d = 0 THEN intcall86(c, 0)
        ELSE IF s \div d > 255 THEN intcall86(c, 0)
        ELSE SetAX(c, Join(sign(s % d), sign(s \div d)))
op_div16(c, hi, lo, d) ==
    IF d <= hi THEN intcall86(c, 0)
    ELSE LET x == DivMod(hi, lo, d) IN SetDXAX(c, x[1], x[2])
(* Both the quotient and the remainder take the sign of the quotient.      *)
op_idiv16(c, hi, lo, d) ==
    LET down == Top(16, hi)
        h    == IF down THEN (IF lo = 0 THEN Neg(16, hi) ELSE 65535 - hi) ELSE hi
        l    == IF down THEN Neg(16, lo) ELSE lo
        a    == IF Top(16, d) THEN Neg(16, d) ELSE d
        x    == DivMod(h, l, a)
        sign(v) == IF down # Top(16, d) THEN Neg(16, v) ELSE v
    IN  IF a <= h THEN intcall86(c, 0) ELSE SetDXAX(c, sign(x[1]), sign(x[2]))

(* TEST, TEST, NOT, NEG, MUL, IMUL, DIV, IDIV.                             *)
op_grp3_8(c, m, v) ==
    LET al == Lo(c.w["AX"])
        product(p, F) == [SetAX(c, p) EXCEPT !.F = Carry2(F, Hi(p) # 0)]
    IN  CASE m.reg < 2 -> [StepIP(c, 1) EXCEPT !.F = flag_log(8, @, And(v, Imm(c, 8), 8))]
          [] m.reg = 2 -> writerm(c, 8, m, 255 - v)
          [] m.reg = 3 -> writerm([c EXCEPT !.F = flag_sub(8, @, 0, v)], 8, m, Neg(8, v))
          [] m.reg = 4 -> product(v * al, flag_szp(8, c.F, Lo(v * al)))
          [] m.reg = 5 -> product((Signed8(v) * Signed8(al)) % 65536, c.F)
          [] m.reg = 6 -> op_div8(c, c.w["AX"], v)
          [] m.reg = 7 -> op_idiv8(c, c.w["AX"], v)
op_grp3_16(c, m, v) ==
    LET ax == c.w["AX"]
        product(p, F) == [SetDXAX(c, p[1], p[2]) EXCEPT !.F = Carry2(F, p[1] # 0)]
    IN  CASE m.reg < 2 -> [StepIP(c, 2) EXCEPT !.F = flag_log(16, @, And(v, Imm(c, 16), 16))]
          [] m.reg = 2 -> writerm(c, 16, m, 65535 - v)
          [] m.reg = 3 -> writerm([c EXCEPT !.F = flag_sub(16, @, 0, v)], 16, m, Neg(16, v))
          [] m.reg = 4 -> product(Mul(v, ax), flag_szp(16, c.F, Mul(v, ax)[2]))
          [] m.reg = 5 -> product(IMul(v, ax), c.F)
          [] m.reg = 6 -> op_div16(c, c.w["DX"], ax, v)
          [] m.reg = 7 -> op_idiv16(c, c.w["DX"], ax, v)

(* INC, DEC, CALL, CALL far, JMP, JMP far, PUSH; 7 does nothing.           *)
Far(c, a) == [c EXCEPT !.ip = readw86(c, a), !.s["CS"] = readw86(c, a + 2)]
op_grp5(c, m, v) ==
    LET count(k) == LET x == IncDec(16, c.F, v, k) IN writerm([c EXCEPT !.F = x.F], 16, m, x.res)
        pushed == push(push(c, c.s["CS"]), c.ip)
    IN  CASE m.reg = 0 -> count(0)
          [] m.reg = 1 -> count(5)
          [] m.reg = 2 -> [push(c, c.ip) EXCEPT !.ip = v]
          [] m.reg = 3 -> Far(pushed, getea(pushed, m))
          [] m.reg = 4 -> [c EXCEPT !.ip = v]
          [] m.reg = 5 -> Far(c, getea(c, m))
          [] m.reg = 6 -> push(c, v)
          [] m.reg = 7 -> c
=============================================================================
