------------------------------- MODULE Z80Alu -------------------------------
(***************************************************************************)
(* The data operations of the emulated Z80: the do... functions of         *)
(* src/emul/z80/z80.c, from the processor state to the next one.           *)
(*                                                                         *)
(* The state c is a record: r and r2, the byte registers of R1 and R2 by   *)
(* name; F and F2, the set of flags that are on in either; SP, PC, I, R,   *)
(* IFF1, IFF2, IM, halted, nmi_req, int_req, defer_int and int_vector as   *)
(* in Z80Context; mem, the memory written since emul_init loaded Image; bus,*)
(* the byte that the machine's ioRead gives to the instruction; out, the   *)
(* port and byte that it gave to ioWrite (<< >> if none).  tstates is left *)
(* out: nothing the processor does depends on it.                          *)
(***************************************************************************)
EXTENDS Words, FiniteSets, Sequences, TLC

CONSTANT Image    \* the program: a function from addresses to bytes, 0 elsewhere

Flags == {"S", "Z", "F5", "H", "F3", "PV", "N", "C"}
FlagBit == [S |-> 7, Z |-> 6, F5 |-> 5, H |-> 4, F3 |-> 3, PV |-> 2, N |-> 1, C |-> 0]

Pairs == {"BC", "DE", "HL", "IX", "IY"}
HighOf == [BC |-> "B", DE |-> "D", HL |-> "H", IX |-> "IXh", IY |-> "IYh"]
LowOf  == [BC |-> "C", DE |-> "E", HL |-> "L", IX |-> "IXl", IY |-> "IYl"]

FByte(F) == FromBits({FlagBit[f] : f \in F}, 8)
ByteF(v) == {f \in Flags : Bit(v, FlagBit[f])}

-----------------------------------------------------------------------------
(* Registers, memory and stack.                                            *)

read8(c, a) ==
    IF a \in DOMAIN c.mem THEN c.mem[a] ELSE IF a \in DOMAIN Image THEN Image[a] ELSE 0
read16(c, a) == Join(read8(c, (a + 1) % 65536), read8(c, a))
write8(c, a, v) == [c EXCEPT !.mem = (a :> v) @@ @]
write16(c, a, v) == write8(write8(c, a, Lo(v)), (a + 1) % 65536, Hi(v))

Wide(c, rr) ==
    CASE rr = "SP" -> c.SP
      [] rr = "AF" -> Join(c.r["A"], FByte(c.F))
      [] OTHER -> Join(c.r[HighOf[rr]], c.r[LowOf[rr]])

SetWide(c, rr, v) ==
    CASE rr = "SP" -> [c EXCEPT !.SP = v]
      [] rr = "AF" -> [c EXCEPT !.r["A"] = Hi(v), !.F = ByteF(Lo(v))]
      [] OTHER -> [c EXCEPT !.r[HighOf[rr]] = Hi(v), !.r[LowOf[rr]] = Lo(v)]

Plus(c, rr, n) == SetWide(c, rr, (Wide(c, rr) + n) % 65536)

SetA(c, v, F) == [c EXCEPT !.r["A"] = v, !.F = F]

doPush(c, v) == write16(Plus(c, "SP", -2), (c.SP - 2) % 65536, v)

-----------------------------------------------------------------------------
(* Flags.                                                                  *)

If(on, f) == IF on THEN {f} ELSE {}

parityBit(v) == Cardinality(BitsOf(v, 8)) % 2 = 0

adjustFlags(v) == If(Bit(v, 5), "F5") \cup If(Bit(v, 3), "F3")

adjustFlagSZP(v) == If(v >= 128, "S") \cup If(v = 0, "Z") \cup If(parityBit(v), "PV")

adjustLogicFlag(c, a, half) ==
    SetA(c, a, adjustFlagSZP(a) \cup adjustFlags(a) \cup If(half, "H"))

condition(c, cond) ==
    LET flag == CASE cond \in {"Z", "NZ"} -> "Z" [] cond \in {"C", "NC"} -> "C"
                  [] cond \in {"M", "P"} -> "S"  [] cond \in {"PE", "PO"} -> "PV"
    IN  (flag \in c.F) <=> (cond \in {"Z", "C", "M", "PE"})

-----------------------------------------------------------------------------
(* Arithmetic.  The half carry does not see the carry that comes in.       *)

Carry(c, withCarry) == IF withCarry /\ "C" \in c.F THEN 1 ELSE 0

(* The overflow of a + v or a - v with result res, by the three signs.     *)
Overflow(aNeg, vNeg, resNeg, isSub) ==
    (aNeg = vNeg) = ~isSub /\ resNeg # aNeg

doArithmetic(c, v, withCarry, isSub) ==
    LET a    == c.r["A"]
        sum  == IF isSub THEN a - v - Carry(c, withCarry) ELSE a + v + Carry(c, withCarry)
        res  == sum % 256
        half == IF isSub THEN a % 16 < v % 16 ELSE (a % 16) + (v % 16) >= 16
    IN  [res |-> res,
         F |-> If(isSub, "N") \cup If(half, "H") \cup If(res >= 128, "S")
               \cup If(sum \notin Byte, "C") \cup If(res = 0, "Z") \cup adjustFlags(res)
               \cup If(Overflow(a >= 128, v >= 128, res >= 128, isSub), "PV")]

(* The carry is added to a2, a ushort: it is lost when a2 is $ffff.        *)
doAddWord(c, a1, a2, withCarry, isSub) ==
    LET v    == (a2 + Carry(c, withCarry)) % 65536
        sum  == IF isSub THEN a1 - v ELSE a1 + v
        res  == sum % 65536
        half == IF isSub THEN a1 % 4096 < v % 4096 ELSE (a1 % 4096) + (v % 4096) >= 4096
        szv  == IF withCarry \/ isSub
                THEN If(Overflow(a1 >= 32768, v >= 32768, res >= 32768, isSub), "PV")
                     \cup If(res >= 32768, "S") \cup If(res = 0, "Z")
                ELSE c.F \cap {"S", "Z", "PV"}
    IN  [res |-> res,
         F |-> szv \cup If(half, "H") \cup If(sum \notin Word, "C") \cup If(isSub, "N")
               \cup adjustFlags(Hi(res))]

doAND(c, v) == adjustLogicFlag(c, And(c.r["A"], v, 8), TRUE)
doOR(c, v)  == adjustLogicFlag(c, Or(c.r["A"], v, 8), FALSE)
doXOR(c, v) == adjustLogicFlag(c, Xor(c.r["A"], v, 8), FALSE)

doIncDec(F, val, isDec) ==
    LET v == (IF isDec THEN val - 1 ELSE val + 1) % 256
    IN  [res |-> v,
         F |-> (F \cap {"C"}) \cup If(val = (IF isDec THEN 128 ELSE 127), "PV")
               \cup If(v % 16 = (IF isDec THEN 15 ELSE 0), "H")
               \cup If(v >= 128, "S") \cup If(v = 0, "Z") \cup If(isDec, "N")
               \cup adjustFlags(v)]

doCP(c, v) ==
    [c EXCEPT !.F = (doArithmetic(c, v, FALSE, TRUE).F \ {"F5", "F3"}) \cup adjustFlags(v)]

\* Mutant of doDAA: the half carry is not looked at.
doDAANoHalf(c) ==
    LET a     == c.r["A"]
        carry == a > 153 \/ "C" \in c.F
        by    == (IF carry THEN 96 ELSE 0) + (IF (a % 16) > 9 THEN 6 ELSE 0)
    IN  SetA(c, (IF "N" \in c.F THEN a - by ELSE a + by) % 256,
             (c.F \cap {"N"}) \cup If(carry, "C"))
doDAA(c) ==
    LET a     == c.r["A"]
        carry == a > 153 \/ "C" \in c.F
        by    == (IF carry THEN 96 ELSE 0)
                 + (IF (a % 16) > 9 \/ "H" \in c.F THEN 6 ELSE 0)
        res   == (IF "N" \in c.F THEN a - by ELSE a + by) % 256
    IN  SetA(c, res, (c.F \cap {"N"}) \cup If(Bit(a, 4) # Bit(res, 4), "H")
                     \cup If(carry, "C") \cup adjustFlagSZP(res) \cup adjustFlags(res))

-----------------------------------------------------------------------------
(* Bits and rotations: from a value and the flags to the value and the     *)
(* flags.  The one-byte rotations of A leave S, Z and P/V alone.           *)

doBIT(F, b, v) ==
    (F \cap {"C"}) \cup {"H"} \cup If(b = 7 /\ Bit(v, 7), "S")
    \cup (IF Bit(v, b) THEN {} ELSE {"Z", "PV"})

doSetRes(isSet, b, v) == FromBits(IF isSet THEN BitsOf(v, 8) \cup {b} ELSE BitsOf(v, 8) \ {b}, 8)

Rotated(F, v, carry, adjFlags) ==
    [res |-> v,
     F |-> If(carry, "C") \cup adjustFlags(v)
           \cup (IF adjFlags THEN adjustFlagSZP(v) ELSE F \cap {"S", "Z", "PV"})]

doRLC(F, adj, v) ==
    Rotated(F, ((2 * v) % 256) + (IF v >= 128 THEN 1 ELSE 0), v >= 128, adj)
\* Mutant of doRL: bit 7 and not the carry enters at bit 0.
doRLNoCarry(F, adj, v) ==
    Rotated(F, ((2 * v) % 256) + (IF v >= 128 THEN 1 ELSE 0), v >= 128, adj)
doRL(F, adj, v) ==
    Rotated(F, ((2 * v) % 256) + (IF "C" \in F THEN 1 ELSE 0), v >= 128, adj)
doRRC(F, adj, v) ==
    Rotated(F, (v \div 2) + (IF Bit(v, 0) THEN 128 ELSE 0), Bit(v, 0), adj)
doRR(F, adj, v) ==
    Rotated(F, (v \div 2) + (IF "C" \in F THEN 128 ELSE 0), Bit(v, 0), adj)
doSL(F, v, isArith) ==
    Rotated(F, ((2 * v) % 256) + (IF isArith THEN 0 ELSE 1), v >= 128, TRUE)
doSR(F, v, isArith) ==
    Rotated(F, (v \div 2) + (IF isArith /\ v >= 128 THEN 128 ELSE 0), Bit(v, 0), TRUE)
=============================================================================
