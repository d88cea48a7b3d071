-------------------------------- MODULE I86 --------------------------------
(***************************************************************************)
(* The emulated 8086: the opcodes of exec86 in src/emul/8086/cpu.c.  One   *)
(* operator per group of opcodes, from the state after the prefixes and    *)
(* the opcode (see I86Alu) to the next one.  pre says what the prefixes    *)
(* left: seg, the segment of memory operands; over, whether a prefix chose *)
(* it; rep, 0, 1 (REP, REPE) or 2 (REPNE); first, where they begin.  An    *)
(* even opcode works on bytes, an odd one on words.                        *)
(***************************************************************************)
EXTENDS I86Alu

CONSTANT MaxPrefix    \* prefixes before an opcode

Width(op) == IF op % 2 = 0 THEN 8 ELSE 16
SetF(c, F) == [c EXCEPT !.F = F]

-----------------------------------------------------------------------------
(* Arithmetic and logic: memory with register, register with memory,       *)
(* accumulator with an immediate operand.                                  *)

(* x, the result of an operation and its flags, into memory or a register. *)
ToMemory(d, n, x) == writerm(SetF(d.c, x.F), n, d.m, x.res)
ToReg(c, n, i, x) == putreg(SetF(c, x.F), n, i, x.res)
(* Comparing keeps only the flags.                                         *)
Kept(d, n, k, x) == IF k = 7 THEN SetF(d.c, x.F) ELSE ToMemory(d, n, x)

Operate(d, n, op, k) ==
    LET mem == readrm(d.c, n, d.m)
        reg == getreg(d.c, n, d.m.reg)
    IN  IF op % 8 < 2 THEN Kept(d, n, k, Op(k, n, d.c.F, mem, reg))
        ELSE ToReg(d.c, n, d.m.reg, Op(k, n, d.c.F, reg, mem))
Forms(c, pre, op, k) ==
    LET n == Width(op)
    IN  IF op % 8 < 4 THEN Operate(modregrm(c, pre), n, op, k)
        ELSE ToReg(StepIP(c, n \div 8), n, 0, Op(k, n, c.F, getreg(c, n, 0), Imm(c, n)))

ADD(c, pre, op) == Forms(c, pre, op, 0)
OR_(c, pre, op) == Forms(c, pre, op, 1)
ADC(c, pre, op) == Forms(c, pre, op, 2)
SBB(c, pre, op) == Forms(c, pre, op, 3)
AND_(c, pre, op) == Forms(c, pre, op, 4)
SUB(c, pre, op) == Forms(c, pre, op, 5)
XOR_(c, pre, op) == Forms(c, pre, op, 6)
CMP(c, pre, op) == Forms(c, pre, op, 7)

PUSH_seg(c, op) == push(c, c.s[SegName[(op \div 8) + 1]])
POP_seg(c, op) == [pop(c) EXCEPT !.s[SegName[(op \div 8) + 1]] = Popped(c)]

AL(c) == Lo(c.w["AX"])
AH(c) == Hi(c.w["AX"])
Unpacked(c) == AL(c) % 16 > 9 \/ "A" \in c.F

(* DAA leaves the flags that it does not set; DAS clears them.             *)
DAA(c) ==
    LET adj == Unpacked(c)
        a1  == IF adj THEN AL(c) + 6 ELSE AL(c)
        cf  == IF adj THEN a1 > 255 ELSE "C" \in c.F
        hi  == a1 % 256 > 159 \/ cf
        a2  == (a1 + (IF hi THEN 96 ELSE 0)) % 256
    IN  putreg(SetF(c, flag_szp(8, Set(Set(c.F, "A", adj \/ "A" \in c.F), "C", hi), a2)),
               8, 0, a2)
DAS(c) ==
    LET adj == Unpacked(c)
        a1  == IF adj THEN AL(c) - 6 ELSE AL(c)
        cf  == IF adj THEN a1 < 0 ELSE "C" \in c.F
        hi  == (a1 % 256) \div 16 > 9 \/ cf
        a2  == (a1 - (IF hi THEN 96 ELSE 0)) % 256
    IN  putreg(SetF(c, flag_szp(8, Set(Set(c.F, "A", adj), "C", hi), a2)), 8, 0, a2)
AdjustASCII(c, k) ==
    LET adj == Unpacked(c)
        by(v, d) == IF adj THEN (v + d) % 256 ELSE v
    IN  SetF(SetAX(c, Join(by(AH(c), IF k > 0 THEN 1 ELSE -1), by(AL(c), k) % 16)),
             Set(Set(c.F, "A", adj), "C", adj))
AAA(c) == AdjustASCII(c, 6)
AAS(c) == AdjustASCII(c, -6)
AAM(c) ==
    LET d == Imm(c, 8)
        c1 == StepIP(c, 1)
        ax == Join(AL(c) \div d, AL(c) % d)
    IN  IF d = 0 THEN intcall86(c1, 0) ELSE SetF(SetAX(c1, ax), flag_szp(16, c.F, ax))
AAD(c) ==
    LET al == ((AH(c) * Imm(c, 8)) + AL(c)) % 256
    IN  SetF(SetAX(StepIP(c, 1), al), flag_szp(16, c.F, al) \ {"S"})

INC(c, i) == ToReg(c, 16, i, IncDec(16, c.F, getreg(c, 16, i), 0))
DEC(c, i) == ToReg(c, 16, i, IncDec(16, c.F, getreg(c, 16, i), 5))

(* Immediate operands: GRP1 (83 extends a byte), multiplication, TEST.     *)
(* Where a byte names the operands, d is what modregrm reads from it.      *)
Stepped(d, k) == [d EXCEPT !.c = StepIP(@, k)]
GRP1(d, op) ==
    LET n == Width(op)
        k == d.m.reg
        v == IF op = 129 THEN Imm(d.c, 16)
             ELSE IF op = 131 THEN Signed8(Imm(d.c, 8)) % 65536 ELSE Imm(d.c, 8)
    IN  Kept(Stepped(d, IF op = 129 THEN 2 ELSE 1), n, k, Op(k, n, d.c.F, readrm(d.c, n, d.m), v))
IMUL_imm(d, n) ==
    LET v == IF n = 16 THEN Imm(d.c, 16) ELSE Signed8(Imm(d.c, 8)) % 65536
        product(p) == [F |-> Carry2(d.c.F, p[1] # 0), res |-> p[2]]
    IN  ToReg(StepIP(d.c, n \div 8), 16, d.m.reg, product(IMul(readrm(d.c, 16, d.m), v)))
TEST(d, op) ==
    LET n == Width(op)
    IN  SetF(d.c, flag_log(n, d.c.F, And(getreg(d.c, n, d.m.reg), readrm(d.c, n, d.m), n)))
TEST_acc(c, op) ==
    LET n == Width(op)
    IN  SetF(StepIP(c, n \div 8), flag_log(n, c.F, And(getreg(c, n, 0), Imm(c, n), n)))

(* C0, C1: by a byte that follows; D0, D1: by one; D2, D3: by CL.          *)
GRP2(d, op) ==
    LET n == Width(op)
        cnt == IF op < 194 THEN Imm(d.c, 8) ELSE IF op < 210 THEN 1 ELSE Lo(d.c.w["CX"])
    IN  ToMemory(Stepped(d, IF op < 194 THEN 1 ELSE 0), n,
                 op_grp2(n, d.c.F, d.m.reg, readrm(d.c, n, d.m), cnt))
GRP3(d, op) ==
    IF op = 246 THEN op_grp3_8(d.c, d.m, readrm(d.c, 8, d.m))
    ELSE op_grp3_16(d.c, d.m, readrm(d.c, 16, d.m))
(* Every operation of FE but 0 decrements.                                 *)
GRP4(d) ==
    ToMemory(d, 8, IncDec(8, d.c.F, readrm(d.c, 8, d.m), IF d.m.reg = 0 THEN 0 ELSE 5))
GRP5(d) == op_grp5(d.c, d.m, readrm(d.c, 16, d.m))

-----------------------------------------------------------------------------
(* The stack.  PUSH SP pushes what SP becomes.                             *)

PUSH(c, i) == push(c, IF i = 4 THEN (c.w["SP"] - 2) % 65536 ELSE getreg(c, 16, i))
POP(c, i) == putreg(pop(c), 16, i, Popped(c))
PUSHA(c) ==
    LET at[i \in 0..8] == IF i = 0 THEN c ELSE push(at[i - 1], getreg(c, 16, i - 1)) IN at[8]
POPA(c) ==
    LET at[i \in 0..8] == IF i = 0 THEN c
                          ELSE IF i = 4 THEN pop(at[3]) ELSE POP(at[i - 1], 8 - i)
    IN  at[8]
POP_rm(d) == writerm(pop(d.c), 16, d.m, Popped(d.c))
PUSH_imm(c, n) == StepIP(push(c, Imm(c, n)), n \div 8)
PUSHF(c) == push(c, (makeflagsword(c) % 2048) + 63488)
POPF(c) == decodeflagsword(pop(c), Popped(c))
SAHF(c) == decodeflagsword(c, Join(Hi(makeflagsword(c)), AH(c)))
LAHF(c) == putreg(c, 8, 4, Lo(makeflagsword(c)))
(* ENTER pushes BP itself for each nested frame, not what BP points to.    *)
ENTER(c) ==
    LET nest  == Imm(StepIP(c, 2), 8)
        c1    == push(StepIP(c, 3), c.w["BP"])
        frame == c1.w["SP"]
        at[i \in 0..255] ==
            IF i < 2 THEN c1
            ELSE LET b == Add(at[i - 1], "BP", -2) IN push(b, b.w["BP"])
        c2    == IF nest = 0 THEN c1 ELSE push(at[nest], at[nest].w["SP"])
    IN  [c2 EXCEPT !.w["BP"] = frame, !.w["SP"] = (frame - Imm(c, 16)) % 65536]
LEAVE(c) ==
    LET c1 == [c EXCEPT !.w["SP"] = c.w["BP"]] IN [pop(c1) EXCEPT !.w["BP"] = Popped(c1)]

-----------------------------------------------------------------------------
(* Moves.  XCHG writes its register first: a memory operand addressed by   *)
(* that register is then written elsewhere than it was read.               *)

XCHG(d, op) ==
    LET n == Width(op)
    IN  writerm(putreg(d.c, n, d.m.reg, readrm(d.c, n, d.m)), n, d.m, getreg(d.c, n, d.m.reg))
XCHG_AX(c, i) == putreg(SetAX(c, getreg(c, 16, i)), 16, i, c.w["AX"])
MOV_rm(d, op) ==
    LET n == Width(op)
    IN  IF op < 138 THEN writerm(d.c, n, d.m, getreg(d.c, n, d.m.reg))
        ELSE putreg(d.c, n, d.m.reg, readrm(d.c, n, d.m))
(* reg is below 4: above, the C code indexes past the segment registers.   *)
MOV_rm_seg(d) == writerm(d.c, 16, d.m, d.c.s[SegName[d.m.reg + 1]])
MOV_seg_rm(d) == [d.c EXCEPT !.s[SegName[d.m.reg + 1]] = readrm(d.c, 16, d.m)]
MOV_reg_imm(c, op) ==
    LET n == IF op < 184 THEN 8 ELSE 16 IN putreg(StepIP(c, n \div 8), n, op % 8, Imm(c, n))
MOV_rm_imm(d, op) ==
    LET n == Width(op) IN StepIP(writerm(d.c, n, d.m, Imm(d.c, n)), n \div 8)
MOV_acc(c, pre, op) ==
    LET n == Width(op)
        a == At(pre.seg, Imm(c, 16))
        c1 == IF op < 162 THEN putreg(c, n, 0, read(c, n, a)) ELSE write(c, n, a, getreg(c, n, 0))
    IN  StepIP(c1, 2)
LEA(d) == putreg(d.c, 16, d.m.reg, (getea(d.c, d.m) - (16 * d.m.seg)) % 65536)
LoadFar(d, seg) ==
    LET a == getea(d.c, d.m)
    IN  [putreg(d.c, 16, d.m.reg, readw86(d.c, a)) EXCEPT !.s[seg] = readw86(d.c, a + 2)]
LES(d) == LoadFar(d, "ES")
LDS(d) == LoadFar(d, "DS")
XLAT(c, pre) == putreg(c, 8, 0, read86(c, At(pre.seg, c.w["BX"] + AL(c))))
CBW(c) == putreg(c, 8, 4, IF AL(c) >= 128 THEN 255 ELSE 0)
CWD(c) == [c EXCEPT !.w["DX"] = IF AH(c) >= 128 THEN 65535 ELSE 0]
(* No port gives anything but 0, and none keeps what it is given.          *)
IN_acc(c, op, k) == StepIP(putreg(c, Width(op), 0, 0), k)
OUT_acc(c, k) == StepIP(c, k)

-----------------------------------------------------------------------------
(* Strings: one round, then ip back on the prefixes, where CX = 0 ends it. *)

Moved(c, n, names) ==
    LET k == (n \div 8) * (IF "D" \in c.F THEN -1 ELSE 1)
    IN  [c EXCEPT !.w = [r \in DOMAIN @ |-> IF r \in names THEN (@[r] + k) % 65536 ELSE @[r]]]
Done(c, pre) == pre.rep # 0 /\ c.w["CX"] = 0
Round(c, pre, stop) ==
    IF pre.rep = 0 THEN c
    ELSE LET c1 == Add(c, "CX", -1) IN IF stop THEN c1 ELSE [c1 EXCEPT !.ip = pre.first]
Found(c, pre) == (pre.rep = 1 /\ "Z" \notin c.F) \/ (pre.rep = 2 /\ "Z" \in c.F)

Source(c, pre) == At(pre.seg, c.w["SI"])
Target(c) == At(c.s["ES"], c.w["DI"])

MOVS(c, pre, op) ==
    LET n == Width(op)
        c1 == write(c, n, Target(c), read(c, n, Source(c, pre)))
    IN  IF Done(c, pre) THEN c ELSE Round(Moved(c1, n, {"SI", "DI"}), pre, FALSE)
CMPS(c, pre, op) ==
    LET n == Width(op)
        F == flag_sub(n, c.F, read(c, n, Source(c, pre)), read(c, n, Target(c)))
        c1 == SetF(Moved(c, n, {"SI", "DI"}), F)
    IN  IF Done(c, pre) THEN c ELSE Round(c1, pre, Found(c1, pre))
STOS(c, pre, op) ==
    LET n == Width(op)
        c1 == write(c, n, Target(c), getreg(c, n, 0))
    IN  IF Done(c, pre) THEN c ELSE Round(Moved(c1, n, {"DI"}), pre, FALSE)
LODS(c, pre, op) ==
    LET n == Width(op)
        c1 == putreg(c, n, 0, read(c, n, Source(c, pre)))
    IN  IF Done(c, pre) THEN c ELSE Round(Moved(c1, n, {"SI"}), pre, FALSE)
SCAS(c, pre, op) ==
    LET n == Width(op)
        c1 == SetF(Moved(c, n, {"DI"}), flag_sub(n, c.F, getreg(c, n, 0), read(c, n, Target(c))))
    IN  IF Done(c, pre) THEN c ELSE Round(c1, pre, Found(c1, pre))
(* A port's 0 goes to SI, not DI; both count.                              *)
INS_OUTS(c, pre, op) ==
    LET n == Width(op)
        c1 == IF op < 110 THEN write(c, n, Source(c, pre), 0) ELSE c
    IN  IF Done(c, pre) THEN c ELSE Round(Moved(c1, n, {"SI", "DI"}), pre, FALSE)

-----------------------------------------------------------------------------
(* Jumps, calls, interrupts and flags.                                     *)

Holds(c, i) ==
    LET F  == c.F
        on == CASE i \div 2 = 0 -> "O" \in F
                [] i \div 2 = 1 -> "C" \in F
                [] i \div 2 = 2 -> "Z" \in F
                [] i \div 2 = 3 -> "C" \in F \/ "Z" \in F
                [] i \div 2 = 4 -> "S" \in F
                [] i \div 2 = 5 -> "P" \in F
                [] i \div 2 = 6 -> ("S" \in F) # ("O" \in F)
                [] i \div 2 = 7 -> ("S" \in F) # ("O" \in F) \/ "Z" \in F
    IN  on = (i % 2 = 0)
Short(c, taken) == StepIP(c, 1 + (IF taken THEN Signed8(Imm(c, 8)) ELSE 0))
Jcc(c, op) == Short(c, Holds(c, op % 16))
LOOP(c, op) ==
    LET c1 == Add(c, "CX", -1)
    IN  Short(c1, c1.w["CX"] # 0 /\ (op = 226 \/ (op = 225) = ("Z" \in c.F)))
JCXZ(c) == Short(c, c.w["CX"] = 0)
JMP_near(c) == StepIP(c, 2 + Imm(c, 16))
JMP_far(c) == [c EXCEPT !.ip = Imm(c, 16), !.s["CS"] = Imm(StepIP(c, 2), 16)]
CALL_near(c) == LET c1 == StepIP(c, 2) IN StepIP(push(c1, c1.ip), Imm(c, 16))
CALL_far(c) ==
    LET c1 == StepIP(c, 4)
    IN  [push(push(c1, c.s["CS"]), c1.ip) EXCEPT !.ip = Imm(c, 16), !.s["CS"] = Imm(StepIP(c, 2), 16)]
RET(c, drop) == [Add(pop(c), "SP", drop) EXCEPT !.ip = Popped(c)]
RETF(c, drop) ==
    LET c1 == pop(c)
    IN  [Add(pop(c1), "SP", drop) EXCEPT !.ip = Popped(c), !.s["CS"] = Popped(c1)]
IRET(c) == POPF(RETF(c, 0))
(* A word below the first bound or above the second one calls INT 5.  The  *)
(* macro getmem16 has no parentheses: ea >> 4, ea & 15 is read at ea & 15. *)
BOUND(d) ==
    LET a == getea(d.c, d.m)
        v == Signed16(getreg(d.c, 16, d.m.reg))
    IN  IF v < Signed16(readw86(d.c, a % 16)) \/ v > Signed16(readw86(d.c, (a + 2) % 16))
        THEN intcall86(d.c, 5) ELSE d.c
INT(c) == intcall86(StepIP(c, 1), Imm(c, 8))
INTO(c) == IF "O" \in c.F THEN intcall86(c, 4) ELSE c
HLT(c) == [c EXCEPT !.hlt = TRUE]
(* F5, F8-FD: CMC, CLC, STC, CLI, STI, CLD, STD.                           *)
CMC(c) == SetF(c, Set(c.F, "C", "C" \notin c.F))
SetFlag(c, op) == SetF(c, Set(c.F, <<"C", "I", "D">>[(op - 246) \div 2], op % 2 = 1))

-----------------------------------------------------------------------------
(* The prefixes of an instruction, and the instruction.                    *)

SegPrefix == (46 :> "CS") @@ (62 :> "DS") @@ (38 :> "ES") @@ (54 :> "SS")
RepPrefix == (243 :> 1) @@ (242 :> 2)

Prefixes(c) ==
    LET byte(i) == Imm(StepIP(c, i), 8)
        count == CHOOSE i \in 0..MaxPrefix :
                     /\ byte(i) \notin DOMAIN SegPrefix \cup DOMAIN RepPrefix
                     /\ \A j \in 0..(i - 1) : byte(j) \in DOMAIN SegPrefix \cup DOMAIN RepPrefix
        last(D) == {i \in 0..(count - 1) :
                        /\ byte(i) \in D
                        /\ \A j \in (i + 1)..(count - 1) : byte(j) \notin D}
        segs == {SegPrefix[byte(i)] : i \in last(DOMAIN SegPrefix)}
        reps == {RepPrefix[byte(i)] : i \in last(DOMAIN RepPrefix)}
    IN  [count |-> count, first |-> c.ip,
         over |-> segs # {}, seg |-> c.s[IF segs = {} THEN "DS" ELSE CHOOSE s \in segs : TRUE],
         rep |-> IF reps = {} THEN 0 ELSE CHOOSE r \in reps : TRUE]

Low(c, pre, op) ==
    LET row == op \div 8
    IN  CASE op \in {6, 14, 22, 30} -> PUSH_seg(c, op)
          [] op \in {7, 23, 31} -> POP_seg(c, op)
          [] op = 39 -> DAA(c)
          [] op = 47 -> DAS(c)
          [] op = 55 -> AAA(c)
          [] op = 63 -> AAS(c)
          [] op = 15 -> intcall86(c, 6)
          [] op % 8 < 6 /\ row = 0 -> ADD(c, pre, op)
          [] op % 8 < 6 /\ row = 1 -> OR_(c, pre, op)
          [] op % 8 < 6 /\ row = 2 -> ADC(c, pre, op)
          [] op % 8 < 6 /\ row = 3 -> SBB(c, pre, op)
          [] op % 8 < 6 /\ row = 4 -> AND_(c, pre, op)
          [] op % 8 < 6 /\ row = 5 -> SUB(c, pre, op)
          [] op % 8 < 6 /\ row = 6 -> XOR_(c, pre, op)
          [] op % 8 < 6 /\ row = 7 -> CMP(c, pre, op)

Mid(c, pre, op) ==
    CASE op < 72 -> INC(c, op % 8)
      [] op \in 72..79 -> DEC(c, op % 8)
      [] op \in 80..87 -> PUSH(c, op % 8)
      [] op \in 88..95 -> POP(c, op % 8)
      [] op = 96 -> PUSHA(c)
      [] op = 97 -> POPA(c)
      [] op = 98 -> BOUND(modregrm(c, pre))
      [] op \in 99..103 -> intcall86(c, 6)
      [] op = 104 -> PUSH_imm(c, 16)
      [] op = 105 -> IMUL_imm(modregrm(c, pre), 16)
      [] op = 106 -> PUSH_imm(c, 8)
      [] op = 107 -> IMUL_imm(modregrm(c, pre), 8)
      [] op \in 108..111 -> INS_OUTS(c, pre, op)
      [] op \in 112..127 -> Jcc(c, op)

High(c, pre, op) ==
    CASE op < 132 -> GRP1(modregrm(c, pre), op)
      [] op \in {132, 133} -> TEST(modregrm(c, pre), op)
      [] op \in {134, 135} -> XCHG(modregrm(c, pre), op)
      [] op \in 136..139 -> MOV_rm(modregrm(c, pre), op)
      [] op = 140 -> MOV_rm_seg(modregrm(c, pre))
      [] op = 141 -> LEA(modregrm(c, pre))
      [] op = 142 -> MOV_seg_rm(modregrm(c, pre))
      [] op = 143 -> POP_rm(modregrm(c, pre))
      [] op \in 144..151 -> XCHG_AX(c, op % 8)
      [] op = 152 -> CBW(c)
      [] op = 153 -> CWD(c)
      [] op = 154 -> CALL_far(c)
      [] op = 155 -> c
      [] op = 156 -> PUSHF(c)
      [] op = 157 -> POPF(c)
      [] op = 158 -> SAHF(c)
      [] op = 159 -> LAHF(c)
      [] op \in 160..163 -> MOV_acc(c, pre, op)
      [] op \in {164, 165} -> MOVS(c, pre, op)
      [] op \in {166, 167} -> CMPS(c, pre, op)
      [] op \in {168, 169} -> TEST_acc(c, op)
      [] op \in {170, 171} -> STOS(c, pre, op)
      [] op \in {172, 173} -> LODS(c, pre, op)
      [] op \in {174, 175} -> SCAS(c, pre, op)
      [] op \in 176..191 -> MOV_reg_imm(c, op)

Top4(c, pre, op) ==
    CASE op \in {192, 193, 208, 209, 210, 211} -> GRP2(modregrm(c, pre), op)
      [] op = 194 -> RET(c, Imm(c, 16))
      [] op = 195 -> RET(c, 0)
      [] op = 196 -> LES(modregrm(c, pre))
      [] op = 197 -> LDS(modregrm(c, pre))
      [] op \in {198, 199} -> MOV_rm_imm(modregrm(c, pre), op)
      [] op = 200 -> ENTER(c)
      [] op = 201 -> LEAVE(c)
      [] op = 202 -> RETF(c, Imm(c, 16))
      [] op = 203 -> RETF(c, 0)
      [] op = 204 -> intcall86(c, 3)
      [] op = 205 -> INT(c)
      [] op = 206 -> INTO(c)
      [] op = 207 -> IRET(c)
      [] op = 212 -> AAM(c)
      [] op = 213 -> AAD(c)
      [] op \in {214, 215} -> XLAT(c, pre)
      [] op \in 216..223 -> modregrm(c, pre).c
      [] op \in 224..226 -> LOOP(c, op)
      [] op = 227 -> JCXZ(c)
      [] op \in {228, 229, 236, 237} -> IN_acc(c, op, IF op < 236 THEN 1 ELSE 0)
      [] op \in {230, 231, 238, 239} -> OUT_acc(c, IF op < 236 THEN 1 ELSE 0)
      [] op = 232 -> CALL_near(c)
      [] op = 233 -> JMP_near(c)
      [] op = 234 -> JMP_far(c)
      [] op = 235 -> Short(c, TRUE)
      [] op = 240 -> c
      [] op = 241 -> intcall86(c, 6)
      [] op = 244 -> HLT(c)
      [] op = 245 -> CMC(c)
      [] op \in {246, 247} -> GRP3(modregrm(c, pre), op)
      [] op \in 248..253 -> SetFlag(c, op)
      [] op = 254 -> GRP4(modregrm(c, pre))
      [] op = 255 -> GRP5(modregrm(c, pre))

Opcode(c, pre, op) ==
    IF op < 64 THEN Low(c, pre, op)
    ELSE IF op < 128 THEN Mid(c, pre, op)
    ELSE IF op < 192 THEN High(c, pre, op)
    ELSE Top4(c, pre, op)
Fetched(at, pre) == Opcode(StepIP([at EXCEPT !.int = 0], 1), pre, Imm(at, 8))
Prefixed(c, pre) == Fetched(StepIP(c, pre.count), pre)
exec86(c) == IF c.hlt THEN c ELSE Prefixed(c, Prefixes(c))

reset86(c, startip) == [c EXCEPT !.s["CS"] = 0, !.ip = startip, !.hlt = FALSE]
=============================================================================
