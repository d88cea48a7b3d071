-------------------------------- MODULE Z80 --------------------------------
(***************************************************************************)
(* The emulated Z80: src/emul/z80/z80.c, opcodes_impl.c and                *)
(* opcodes_table.h.  One operator per family of opcode functions, from the *)
(* state of the processor (see Z80Alu) to the next one; the tables are the *)
(* operators Main, CB, DD, DDCB and ED, which read the fields of an opcode *)
(* (bits 7:6, 5:3 and 2:0: x, y and z) instead of its row.                 *)
(***************************************************************************)
EXTENDS Z80Alu

Incr(c) == [c EXCEPT !.R = ((@ \div 128) * 128) + ((@ + 1) % 128)]

(* The two bytes of an operand, the signed one of a jump or an index, and  *)
(* the state past them.                                                    *)
Skip(c, n) == [c EXCEPT !.PC = (@ + n) % 65536]
Imm8(c)  == read8(c, c.PC)
Imm16(c) == read16(c, c.PC)
Jump(c, a) == [c EXCEPT !.PC = a]

-----------------------------------------------------------------------------
(* Where an operand is: <<"r", register>> or <<"m", address>>.  ix is "HL",*)
(* or the register that a DD or FD prefix puts in its place.               *)

Get(c, p) == IF p[1] = "r" THEN c.r[p[2]] ELSE read8(c, p[2])
Put(c, p, v) == IF p[1] = "r" THEN [c EXCEPT !.r[p[2]] = v] ELSE write8(c, p[2], v)
PutF(c, p, x) == Put([c EXCEPT !.F = x.F], p, x.res)

Reg(ix, y) ==
    LET plain == <<"B", "C", "D", "E", "H", "L", "(HL)", "A">>
    IN  IF ix = "HL" \/ y \notin {4, 5} THEN plain[y + 1]
        ELSE IF y = 4 THEN HighOf[ix] ELSE LowOf[ix]

Indexed(c, ix) == (Wide(c, ix) + Signed8(Imm8(c))) % 65536

(* The operand of field z, and the state once its displacement is read.    *)
Operand(c, ix, z) ==
    IF z # 6 THEN [c |-> c, p |-> <<"r", Reg(ix, z)>>]
    ELSE IF ix = "HL" THEN [c |-> c, p |-> <<"m", Wide(c, "HL")>>]
    ELSE [c |-> Skip(c, 1), p |-> <<"m", Indexed(c, ix)>>]

-----------------------------------------------------------------------------
(* Arithmetic and logic.                                                   *)

(* x, the result of an operation and its flags, into A or a pair.          *)
ToA(c, x) == SetA(c, x.res, x.F)
ToPair(c, rr, x) == SetWide([c EXCEPT !.F = x.F], rr, x.res)

Arith(c, v, withCarry, isSub) == ToA(c, doArithmetic(c, v, withCarry, isSub))
AddWord(c, rr, v, withCarry, isSub) ==
    ToPair(c, rr, doAddWord(c, Wide(c, rr), v, withCarry, isSub))

ADC_A(c, v) == Arith(c, v, TRUE, FALSE)
ADC_HL(c, v) == AddWord(c, "HL", v, TRUE, FALSE)
ADD_A(c, v) == Arith(c, v, FALSE, FALSE)
ADD_rr(c, ix, v) == AddWord(c, ix, v, FALSE, FALSE)
SUB_A(c, v) == Arith(c, v, FALSE, TRUE)
SBC_A(c, v) == Arith(c, v, TRUE, TRUE)
SBC_HL(c, v) == AddWord(c, "HL", v, TRUE, TRUE)
AND_r(c, v) == doAND(c, v)
OR_r(c, v)  == doOR(c, v)
XOR_r(c, v) == doXOR(c, v)
CP_r(c, v)  == doCP(c, v)
NEG(c) == Arith([c EXCEPT !.r["A"] = 0], c.r["A"], FALSE, TRUE)
INC_r(c, p) == PutF(c, p, doIncDec(c.F, Get(c, p), FALSE))
DEC_r(c, p) == PutF(c, p, doIncDec(c.F, Get(c, p), TRUE))
CPL(c) == LET a == 255 - c.r["A"]
          IN  SetA(c, a, (c.F \ {"F5", "F3"}) \cup {"H", "N"} \cup adjustFlags(a))
SCF(c) == [c EXCEPT !.F = (@ \cap {"S", "Z", "PV"}) \cup {"C"} \cup adjustFlags(c.r["A"])]
CCF(c) == [c EXCEPT !.F = (@ \cap {"S", "Z", "PV", "H"}) \cup If("C" \notin @, "C")
                          \cup adjustFlags(c.r["A"])]
DAA(c) == doDAA(c)

ALU(c, y, v) ==
    CASE y = 0 -> ADD_A(c, v) [] y = 1 -> ADC_A(c, v) [] y = 2 -> SUB_A(c, v)
      [] y = 3 -> SBC_A(c, v) [] y = 4 -> AND_r(c, v) [] y = 5 -> XOR_r(c, v)
      [] y = 6 -> OR_r(c, v)  [] y = 7 -> CP_r(c, v)

-----------------------------------------------------------------------------
(* Bits and rotations.                                                     *)

RLC(c, p) == PutF(c, p, doRLC(c.F, TRUE, Get(c, p)))
RRC(c, p) == PutF(c, p, doRRC(c.F, TRUE, Get(c, p)))
RL(c, p)  == PutF(c, p, doRL(c.F, TRUE, Get(c, p)))
RR(c, p)  == PutF(c, p, doRR(c.F, TRUE, Get(c, p)))
SLA(c, p) == PutF(c, p, doSL(c.F, Get(c, p), TRUE))
SLL(c, p) == PutF(c, p, doSL(c.F, Get(c, p), FALSE))
SRA(c, p) == PutF(c, p, doSR(c.F, Get(c, p), TRUE))
SRL(c, p) == PutF(c, p, doSR(c.F, Get(c, p), FALSE))

Rotate(c, y, p) ==
    CASE y = 0 -> RLC(c, p) [] y = 1 -> RRC(c, p) [] y = 2 -> RL(c, p)
      [] y = 3 -> RR(c, p)  [] y = 4 -> SLA(c, p) [] y = 5 -> SRA(c, p)
      [] y = 6 -> SLL(c, p) [] y = 7 -> SRL(c, p)

\* Mutant of RotateA: RRA does not go through the carry.
RotateANoCarry(c, y) ==
    ToA(c, CASE y = 0 -> doRLC(c.F, FALSE, c.r["A"]) [] y \in {1, 3} -> doRRC(c.F, FALSE, c.r["A"])
             [] y = 2 -> doRL(c.F, FALSE, c.r["A"]))
RotateA(c, y) ==
    ToA(c, CASE y = 0 -> doRLC(c.F, FALSE, c.r["A"]) [] y = 1 -> doRRC(c.F, FALSE, c.r["A"])
             [] y = 2 -> doRL(c.F, FALSE, c.r["A"])  [] y = 3 -> doRR(c.F, FALSE, c.r["A"]))

(* F5 and F3 of BIT b,(IX+d) come from the address, otherwise the operand. *)
BIT(c, b, p, ix) ==
    LET seen == IF ix # "HL" THEN Hi(p[2]) ELSE Get(c, p)
    IN  [c EXCEPT !.F = doBIT(c.F, b, Get(c, p)) \cup adjustFlags(seen)]
RES(c, b, p) == Put(c, p, doSetRes(FALSE, b, Get(c, p)))
SET(c, b, p) == Put(c, p, doSetRes(TRUE, b, Get(c, p)))

BitOp(c, op, p, ix) ==
    LET x == op \div 64  y == (op \div 8) % 8
    IN  CASE x = 0 -> Rotate(c, y, p) [] x = 1 -> BIT(c, y, p, ix)
          [] x = 2 -> RES(c, y, p)    [] x = 3 -> SET(c, y, p)

(* RLD and RRD move digits between A and (HL); only RLD touches F5 and F3. *)
Digits(c, aLow, m, kept) ==
    LET a == ((c.r["A"] \div 16) * 16) + aLow
    IN  write8(SetA(c, a, (c.F \cap ({"C"} \cup kept)) \cup adjustFlagSZP(a)
                          \cup (IF kept = {} THEN adjustFlags(a) ELSE {})), Wide(c, "HL"), m)
RLD(c) == LET m == read8(c, Wide(c, "HL"))
          IN  Digits(c, m \div 16, ((m * 16) % 256) + (c.r["A"] % 16), {})
RRD(c) == LET m == read8(c, Wide(c, "HL"))
          IN  Digits(c, m % 16, (m \div 16) + ((c.r["A"] % 16) * 16), {"F5", "F3"})

-----------------------------------------------------------------------------
(* Loads and exchanges.                                                    *)

LD(c, to, from) == Put(c, to, Get(c, from))
LD_n(c, to) == Put(Skip(c, 1), to, Imm8(c))
LD_rr_nn(c, rr) == SetWide(Skip(c, 2), rr, Imm16(c))
LD_rr_off_nn(c, rr) == SetWide(Skip(c, 2), rr, read16(c, Imm16(c)))
LD_off_nn_rr(c, rr) == Skip(write16(c, Imm16(c), Wide(c, rr)), 2)
LD_A_off(c, a) == [c EXCEPT !.r["A"] = read8(c, a)]
LD_off_A(c, a) == write8(c, a, c.r["A"])
LD_SP(c, ix) == [c EXCEPT !.SP = Wide(c, ix)]
LD_I_A(c) == [c EXCEPT !.I = c.r["A"]]
LD_R_A(c) == [c EXCEPT !.R = c.r["A"]]
LD_A_I(c, v) ==
    SetA(c, v, (c.F \cap {"C"}) \cup adjustFlags(v) \cup If(c.IFF2, "PV")
               \cup If(v >= 128, "S") \cup If(v = 0, "Z"))

PUSH(c, rr) == doPush(c, Wide(c, rr))
POP(c, rr) == SetWide(Plus(c, "SP", 2), rr, read16(c, c.SP))

EX_off_SP(c, ix) == SetWide(write16(c, c.SP, Wide(c, ix)), ix, read16(c, c.SP))
EX_AF_AF_(c) == [c EXCEPT !.r["A"] = c.r2["A"], !.r2["A"] = c.r["A"], !.F = c.F2, !.F2 = c.F]
EX_DE_HL(c) == SetWide(SetWide(c, "DE", Wide(c, "HL")), "HL", Wide(c, "DE"))
EXX(c) ==
    LET moved == {"B", "C", "D", "E", "H", "L"}
    IN  [c EXCEPT !.r  = [g \in DOMAIN c.r  |-> IF g \in moved THEN c.r2[g] ELSE c.r[g]],
                  !.r2 = [g \in DOMAIN c.r2 |-> IF g \in moved THEN c.r[g] ELSE c.r2[g]]]

-----------------------------------------------------------------------------
(* Blocks of memory.  A repeated instruction moves PC back on itself, so   *)
(* that an interrupt may come between two rounds.                          *)

Repeat(c, again) == IF again THEN Jump(c, (c.PC - 2) % 65536) ELSE c
RepeatBC(c) == Repeat(c, Wide(c, "BC") # 0)
RepeatCP(c) == Repeat(c, Wide(c, "BC") # 0 /\ "Z" \notin c.F)
RepeatB(c)  == Repeat(c, c.r["B"] # 0)

Move(c, step) ==
    LET v  == read8(c, Wide(c, "HL"))
        n  == c.r["A"] + v
        c1 == write8(c, Wide(c, "DE"), v)
        c2 == Plus(Plus(Plus(c1, "DE", step), "HL", step), "BC", -1)
    IN  [c2 EXCEPT !.F = (@ \cap {"S", "Z", "C"}) \cup If(Bit(n, 1), "F5")
                         \cup If(Bit(n, 3), "F3") \cup If(Wide(c2, "BC") # 0, "PV")]
LDI(c) == Move(c, 1)
LDD(c) == Move(c, -1)
LDIR(c) == RepeatBC(LDI(c))
LDDR(c) == RepeatBC(LDD(c))

(* The value that F5 and F3 are taken from, and the bit F5 is: CPI looks   *)
(* at bit 2 where CPD looks at bit 1.                                      *)
Compared(c, x, bit5) ==
    LET v == (x.res - (IF "H" \in x.F THEN 1 ELSE 0)) % 256
    IN  [c EXCEPT !.F = (x.F \cap {"S", "Z", "H", "N"}) \cup (@ \cap {"C"})
                        \cup If(Wide(c, "BC") # 0, "PV")
                        \cup If(Bit(v, bit5), "F5") \cup If(Bit(v, 3), "F3")]
Compare(c, step, bit5) ==
    Compared(Plus(Plus(c, "HL", step), "BC", -1),
             doArithmetic(c, read8(c, Wide(c, "HL")), FALSE, TRUE), bit5)
CPI(c) == Compare(c, 1, 2)
CPD(c) == Compare(c, -1, 1)
CPIR(c) == RepeatCP(CPI(c))
CPDR(c) == RepeatCP(CPD(c))

-----------------------------------------------------------------------------
(* Ports.  ioRead gives c.bus; ioWrite leaves its port and byte in out.    *)

ioWrite(c, port, v) == [c EXCEPT !.out = <<port, v>>]

IN_A_off_n(c) == [Skip(c, 1) EXCEPT !.r["A"] = c.bus]
IN_r_off_C(c, y) ==
    LET F(v, kept) == (kept \cap {"C"}) \cup adjustFlagSZP(v) \cup adjustFlags(v)
        masked == FByte(ByteF(c.bus) \ {"H", "N"})
    IN  IF y = 6 THEN [c EXCEPT !.F = F(masked, ByteF(c.bus))]
        ELSE [c EXCEPT !.r[Reg("HL", y)] = c.bus, !.F = F(c.bus, @)]
OUT_off_n_A(c) == ioWrite(Skip(c, 1), Join(c.r["A"], Imm8(c)), c.r["A"])
OUT_off_C(c, y) == ioWrite(c, Wide(c, "BC"), IF y = 6 THEN 0 ELSE c.r[Reg("HL", y)])

(* B counts down; H and C tell whether the byte and low add up to a carry. *)
Counted(c, v, low) ==
    LET x   == doIncDec(c.F, c.r["B"], TRUE)
        sum == v + low
    IN  [c EXCEPT !.r["B"] = x.res,
                  !.F = (x.F \cap {"S", "Z", "F5", "F3"}) \cup If(v >= 128, "N")
                        \cup If(sum > 255, "H") \cup If(sum > 255, "C")
                        \cup If(parityBit(Xor(sum % 8, x.res, 8)), "PV")]
InBlock(c, step) ==
    Counted(Plus(write8(c, Wide(c, "HL"), c.bus), "HL", step), c.bus, (c.r["C"] + step) % 256)
OutBlock(c, step) ==
    LET v == read8(c, Wide(c, "HL"))
        counted(c1) == Counted(c1, v, c1.r["L"])
        written(c1) == ioWrite(c1, Wide(c1, "BC"), v)
    IN  written(counted(Plus(c, "HL", step)))
INI(c) == InBlock(c, 1)
IND(c) == InBlock(c, -1)
OUTI(c) == OutBlock(c, 1)
OUTD(c) == OutBlock(c, -1)
INIR(c) == RepeatB(INI(c))
INDR(c) == RepeatB(IND(c))
OTIR(c) == RepeatB(OUTI(c))
OTDR(c) == RepeatB(OUTD(c))

-----------------------------------------------------------------------------
(* Jumps, calls, interrupts off and on.                                    *)

Holds(c, y) == condition(c, <<"NZ", "Z", "NC", "C", "PO", "PE", "P", "M">>[y + 1])

JP_off(c, ix) == Jump(c, Wide(c, ix))
JP_nn(c, taken) == Jump(c, IF taken THEN Imm16(c) ELSE (c.PC + 2) % 65536)
JR_e(c, taken) ==
    Jump(c, (c.PC + 1 + (IF taken THEN Signed8(Imm8(c)) ELSE 0)) % 65536)
\* Mutant of DJNZ: B is tested but not counted down.
DJNZForever(c) == JR_e(c, c.r["B"] # 1)
DJNZ(c) == LET b == (c.r["B"] - 1) % 256 IN JR_e([c EXCEPT !.r["B"] = b], b # 0)
CALL_nn(c, taken) ==
    IF taken THEN Jump(doPush(c, (c.PC + 2) % 65536), Imm16(c)) ELSE Skip(c, 2)
RST(c, y) == Jump(doPush(c, c.PC), 8 * y)
RET(c) == Jump(Plus(c, "SP", 2), read16(c, c.SP))
RET_cc(c, taken) == IF taken THEN RET(c) ELSE c
RETN(c) == RET([c EXCEPT !.IFF1 = c.IFF2])
RETI(c) == RET([c EXCEPT !.IFF1 = c.IFF2])
DI(c) == [c EXCEPT !.IFF1 = FALSE, !.IFF2 = FALSE, !.defer_int = TRUE]
\* Mutant of EI: interrupts are taken from the next instruction on.
EIAtOnce(c) == [c EXCEPT !.IFF1 = TRUE, !.IFF2 = TRUE]
EI(c) == [c EXCEPT !.IFF1 = TRUE, !.IFF2 = TRUE, !.defer_int = TRUE]
IM(c, n) == [c EXCEPT !.IM = n]
HALT(c) == Jump([c EXCEPT !.halted = TRUE], (c.PC - 1) % 65536)
NOP(c) == c

-----------------------------------------------------------------------------
(* The tables.  p and q are bits 5:4 and bit 3 of the opcode.              *)

RP(ix, p) == <<"BC", "DE", ix, "SP">>[p + 1]
RP2(ix, p) == <<"BC", "DE", ix, "AF">>[p + 1]

Main0(c, ix, y, z) ==
    LET p == y \div 2  q == y % 2  rr == RP(ix, p)  o == Operand(c, ix, y)
    IN  CASE z = 0 /\ y = 0 -> NOP(c)
          [] z = 0 /\ y = 1 -> EX_AF_AF_(c)
          [] z = 0 /\ y = 2 -> DJNZ(c)
          [] z = 0 /\ y = 3 -> JR_e(c, TRUE)
          [] z = 0 /\ y > 3 -> JR_e(c, Holds(c, y - 4))
          [] z = 1 /\ q = 0 -> LD_rr_nn(c, rr)
          [] z = 1 /\ q = 1 -> ADD_rr(c, ix, Wide(c, rr))
          [] z = 2 /\ y \in {0, 2} -> LD_off_A(c, Wide(c, rr))
          [] z = 2 /\ y \in {1, 3} -> LD_A_off(c, Wide(c, rr))
          [] z = 2 /\ y = 4 -> LD_off_nn_rr(c, ix)
          [] z = 2 /\ y = 5 -> LD_rr_off_nn(c, ix)
          [] z = 2 /\ y = 6 -> Skip(LD_off_A(c, Imm16(c)), 2)
          [] z = 2 /\ y = 7 -> Skip(LD_A_off(c, Imm16(c)), 2)
          [] z = 3 -> Plus(c, rr, IF q = 0 THEN 1 ELSE -1)
          [] z = 4 -> INC_r(o.c, o.p)
          [] z = 5 -> DEC_r(o.c, o.p)
          [] z = 6 -> LD_n(o.c, o.p)
          [] z = 7 /\ y < 4 -> RotateA(c, y)
          [] z = 7 /\ y = 4 -> DAA(c)
          [] z = 7 /\ y = 5 -> CPL(c)
          [] z = 7 /\ y = 6 -> SCF(c)
          [] z = 7 /\ y = 7 -> CCF(c)

(* With one operand in memory, the other is never half of an index.        *)
Main1(c, ix, y, z) ==
    LET o  == Operand(c, ix, IF y = 6 THEN y ELSE z)
        rx == IF 6 \in {y, z} THEN "HL" ELSE ix
    IN  IF y = 6 /\ z = 6 THEN HALT(c)
        ELSE IF y = 6 THEN LD(o.c, o.p, <<"r", Reg(rx, z)>>)
        ELSE LD(o.c, <<"r", Reg(rx, y)>>, o.p)

Main2(c, ix, y, z) == LET o == Operand(c, ix, z) IN ALU(o.c, y, Get(o.c, o.p))

Main3(c, ix, y, z) ==
    LET p == y \div 2  q == y % 2
    IN  CASE z = 0 -> RET_cc(c, Holds(c, y))
          [] z = 1 /\ q = 0 -> POP(c, RP2(ix, p))
          [] z = 1 /\ y = 1 -> RET(c)
          [] z = 1 /\ y = 3 -> EXX(c)
          [] z = 1 /\ y = 5 -> JP_off(c, ix)
          [] z = 1 /\ y = 7 -> LD_SP(c, ix)
          [] z = 2 -> JP_nn(c, Holds(c, y))
          [] z = 3 /\ y = 0 -> JP_nn(c, TRUE)
          [] z = 3 /\ y = 2 -> OUT_off_n_A(c)
          [] z = 3 /\ y = 3 -> IN_A_off_n(c)
          [] z = 3 /\ y = 4 -> EX_off_SP(c, ix)
          [] z = 3 /\ y = 5 -> EX_DE_HL(c)
          [] z = 3 /\ y = 6 -> DI(c)
          [] z = 3 /\ y = 7 -> EI(c)
          [] z = 4 -> CALL_nn(c, Holds(c, y))
          [] z = 5 /\ q = 0 -> PUSH(c, RP2(ix, p))
          [] z = 5 /\ q = 1 -> CALL_nn(c, TRUE)
          [] z = 6 -> ALU(Skip(c, 1), y, Imm8(c))
          [] z = 7 -> RST(c, y)

Main(c, ix, op) ==
    LET x == op \div 64  y == (op \div 8) % 8  z == op % 8
    IN  CASE x = 0 -> Main0(c, ix, y, z) [] x = 1 -> Main1(c, ix, y, z)
          [] x = 2 -> Main2(c, ix, y, z) [] x = 3 -> Main3(c, ix, y, z)

CB(c, op) == BitOp(c, op, Operand(c, "HL", op % 8).p, "HL")

(* DD and FD: the rows of the main table that name HL, H, L or (HL), but   *)
(* EX DE,HL.  Any other byte after the prefix does nothing.                *)
HasIndex(op) ==
    LET x == op \div 64  y == (op \div 8) % 8  z == op % 8
    IN  \/ x = 0 /\ \/ y \in {4, 5} /\ z \in 1..6
                    \/ y = 6 /\ z \in 4..6
                    \/ z = 1 /\ y \in {1, 3, 7}
        \/ x = 1 /\ op # 118 /\ (z \in 4..6 \/ y \in 4..6)
        \/ x = 2 /\ z \in 4..6
        \/ op \in {225, 227, 229, 233, 249}

DD(c, ix, op) == IF HasIndex(op) THEN Main(c, ix, op) ELSE NOP(c)

(* The displacement comes before the opcode; all but BIT also leave their  *)
(* result in the register that the opcode names.                           *)
LD_r_op(c, op, p) == LD(BitOp(c, op, p, "IX"), <<"r", Reg("HL", op % 8)>>, p)

DDCB(c, ix, op) ==
    LET c1 == Skip(c, 2)  p == <<"m", Indexed(c, ix)>>
    IN  IF op \div 64 = 1 \/ op % 8 = 6 THEN BitOp(c1, op, p, ix) ELSE LD_r_op(c1, op, p)

ED1(c, y, z) ==
    LET p == y \div 2  q == y % 2
    IN  CASE z = 0 -> IN_r_off_C(c, y)
          [] z = 1 -> OUT_off_C(c, y)
          [] z = 2 /\ q = 0 -> SBC_HL(c, Wide(c, RP("HL", p)))
          [] z = 2 /\ q = 1 -> ADC_HL(c, Wide(c, RP("HL", p)))
          [] z = 3 /\ q = 0 -> LD_off_nn_rr(c, RP("HL", p))
          [] z = 3 /\ q = 1 -> LD_rr_off_nn(c, RP("HL", p))
          [] z = 4 -> NEG(c)
          [] z = 5 -> IF y = 1 THEN RETI(c) ELSE RETN(c)
          [] z = 6 -> IM(c, <<0, 0, 1, 2, 0, 0, 1, 2>>[y + 1])
          [] z = 7 /\ y = 0 -> LD_I_A(c)
          [] z = 7 /\ y = 1 -> LD_R_A(c)
          [] z = 7 /\ y = 2 -> LD_A_I(c, c.I)
          [] z = 7 /\ y = 3 -> LD_A_I(c, c.R)
          [] z = 7 /\ y = 4 -> RRD(c)
          [] z = 7 /\ y = 5 -> RLD(c)
          [] z = 7 /\ y > 5 -> NOP(c)

ED2(c, op) ==
    CASE op = 160 -> LDI(c)  [] op = 161 -> CPI(c)  [] op = 162 -> INI(c)  [] op = 163 -> OUTI(c)
      [] op = 168 -> LDD(c)  [] op = 169 -> CPD(c)  [] op = 170 -> IND(c)  [] op = 171 -> OUTD(c)
      [] op = 176 -> LDIR(c) [] op = 177 -> CPIR(c) [] op = 178 -> INIR(c) [] op = 179 -> OTIR(c)
      [] op = 184 -> LDDR(c) [] op = 185 -> CPDR(c) [] op = 186 -> INDR(c) [] op = 187 -> OTDR(c)
      [] OTHER -> NOP(c)

ED(c, op) == IF op \div 64 = 1 THEN ED1(c, (op \div 8) % 8, op % 8) ELSE ED2(c, op)

-----------------------------------------------------------------------------
(* One instruction.  In interrupt mode 0 every opcode that is fetched is   *)
(* the vector (vec), and PC stays; R counts the opcodes, not the one after *)
(* a displacement.                                                         *)

Opcode(c, vec) == IF vec THEN c.int_vector ELSE Imm8(c)
Past(c, vec) == Incr(IF vec THEN c ELSE Skip(c, 1))

do_execute(c, vec) ==
    LET op  == Opcode(c, vec)
        c1  == Past(c, vec)
        op2 == Opcode(c1, vec)
        c2  == Past(c1, vec)
        ix  == IF op = 221 THEN "IX" ELSE "IY"
    IN  CASE op = 203 -> CB(c2, op2)
          [] op = 237 -> ED(c2, op2)
          [] op \in {221, 253} /\ op2 = 203 -> DDCB(c2, ix, read8(c2, (c2.PC + 1) % 65536))
          [] op \in {221, 253} /\ op2 # 203 -> DD(c2, ix, op2)
          [] OTHER -> Main(c1, "HL", op)

unhalt(c) == IF c.halted THEN Skip([c EXCEPT !.halted = FALSE], 1) ELSE c

do_nmi(c) ==
    LET c1 == unhalt(c)
    IN  Jump(doPush([c1 EXCEPT !.IFF2 = c.IFF1, !.IFF1 = FALSE, !.nmi_req = FALSE], c1.PC), 102)

do_int(c) ==
    LET c1 == [unhalt(c) EXCEPT !.IFF1 = FALSE, !.IFF2 = FALSE, !.int_req = FALSE]
        c2 == doPush(c1, c1.PC)
    IN  CASE c.IM = 0 -> do_execute(c1, TRUE)
          [] c.IM = 1 -> Jump(c2, 56)
          [] c.IM = 2 -> Jump(c2, read16(c2, Join(c.I, c.int_vector)))

(* Z80Execute, when a port read by the instruction gives b.                *)
Z80Execute(c0, b) ==
    LET c == [c0 EXCEPT !.bus = b, !.out = <<>>]
    IN  IF c.nmi_req THEN do_nmi(c)
        ELSE IF c.int_req /\ ~c.defer_int /\ c.IFF1 THEN do_int(c)
        ELSE do_execute([c EXCEPT !.defer_int = FALSE], FALSE)

Z80RESET(c) ==
    [c EXCEPT !.PC = 0, !.F = {}, !.IM = 0, !.IFF1 = FALSE, !.IFF2 = FALSE, !.R = 0, !.I = 0,
              !.halted = FALSE, !.nmi_req = FALSE, !.int_req = FALSE, !.defer_int = FALSE]
Z80INT(c, v) == [c EXCEPT !.int_req = TRUE, !.int_vector = v]
Z80NMI(c) == [c EXCEPT !.nmi_req = TRUE]
=============================================================================
