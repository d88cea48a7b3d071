-------------------------------- MODULE Cvm --------------------------------
(***************************************************************************)
(* The C virtual machine, src/cvm/vm.c: one operator per native word, from *)
(* the state of the VM to the next one.                                    *)
(*                                                                         *)
(* The state v is a record: SP, RS, IP, PC, minSP, maxRS and running as in *)
(* struct VM; mem, the memory written since VM_init loaded Image; blkop    *)
(* and disk, the block port's command and the blocks of blkfp that were    *)
(* written; bus, the byte that a port gives to PC@; out, the port and byte *)
(* of the last PC!.  Addresses wrap at 64K but for the second byte of a    *)
(* cell: at $ffff, gw and sw reach the field after mem, the low byte of SP.*)
(***************************************************************************)
EXTENDS Words, Sequences, TLC

CONSTANTS Image,              \* the bytes of bin_path and, past them, of rand()
          Blocks,             \* blkfp: from block numbers to their bytes, 0-based
          BlkSize,            \* 1024
          SP_ADDR, RS_ADDR, SYSVARS, BLK_PORT

At(v, a) == IF a = 65536 THEN Lo(v.SP)
            ELSE IF a \in DOMAIN v.mem THEN v.mem[a]
            ELSE IF a \in DOMAIN Image THEN Image[a] ELSE 0
PutAt(v, a, b) == IF a = 65536 THEN [v EXCEPT !.SP = Join(Hi(@), b)]
                  ELSE [v EXCEPT !.mem = (a :> b) @@ @]

gw(v, a) == Join(At(v, a + 1), At(v, a))
sw(v, a, n) == PutAt(PutAt(v, a, Lo(n)), a + 1, Hi(n))

peek(v) == gw(v, v.SP)
pop(v) == [v EXCEPT !.SP = (@ + 2) % 65536]
push(v, n) ==
    LET sp == (v.SP - 2) % 65536
        v1 == sw([v EXCEPT !.SP = sp], sp, n)
    IN  IF v1.SP < v1.minSP THEN [v1 EXCEPT !.minSP = v1.SP] ELSE v1

(* Most words replace the top cells of the stack: n cells are popped, then *)
(* those of s are pushed.                                                  *)
Cell(v, i) == gw(v, (v.SP + (2 * i)) % 65536)
Replace(v, n, s) ==
    LET popped == [v EXCEPT !.SP = (@ + (2 * n)) % 65536]
        pushed[i \in 0..Len(s)] == IF i = 0 THEN popped ELSE push(pushed[i - 1], s[i])
    IN  pushed[Len(s)]

topRS(v) == gw(v, v.RS)
popRS(v) == [v EXCEPT !.RS = (@ - 2) % 65536]
pushRS(v, n) ==
    LET rs == (v.RS + 2) % 65536
        v1 == sw([v EXCEPT !.RS = rs], rs, n)
    IN  IF v1.RS > v1.maxRS THEN [v1 EXCEPT !.maxRS = v1.RS] ELSE v1

-----------------------------------------------------------------------------
(* Ports.  A command of the block port is four bytes and the last one, and *)
(* is known to be whole when the first of them is not 0.                   *)

io_read(v) == v.bus
iowr_blk(v, b) ==
    LET rw    == v.blkop[4]
        blkid == Join(v.blkop[3], v.blkop[2])
        dest  == Join(v.blkop[1], b)
        v1    == [v EXCEPT !.blkop = <<0, 0, 0, 0>>]
        block == IF blkid \in DOMAIN v.disk THEN v.disk[blkid] ELSE Blocks[blkid]
    IN  IF rw = 0 THEN [v EXCEPT !.blkop = <<b>> \o SubSeq(@, 1, 3)]
        ELSE IF rw = 2
        THEN [v1 EXCEPT !.disk = (blkid :> [i \in 0..(BlkSize - 1) |-> At(v, dest + i)]) @@ @]
        ELSE [v1 EXCEPT !.mem = [a \in dest..(dest + BlkSize - 1) |-> block[a - dest]] @@ @]
io_write(v, a, b) ==
    LET v1 == [v EXCEPT !.out = <<Lo(a), b>>]
    IN  IF Lo(a) = BLK_PORT THEN iowr_blk(v1, b) ELSE v1

-----------------------------------------------------------------------------
(* The inner interpreter.                                                  *)

lblnext(v) == [v EXCEPT !.PC = gw(v, v.IP), !.IP = (@ + 2) % 65536]
lblxt(v) == LET v1 == pushRS(v, v.IP) IN lblnext([pop(v1) EXCEPT !.IP = peek(v1)])
lbldoes(v) ==
    LET a == peek(v) IN [push(pop(v), (a + 2) % 65536) EXCEPT !.PC = gw(v, a)]
TOflag == SYSVARS + 24
lblval(v) ==
    lblnext(IF At(v, TOflag) # 0
            THEN sw(pop(pop(PutAt(v, TOflag, 0))), Cell(v, 0), Cell(v, 1))
            ELSE Replace(v, 1, <<gw(v, peek(v))>>))
JMPi(v) == [v EXCEPT !.PC = gw(v, v.PC)]
JMPii(v) == [v EXCEPT !.PC = gw(v, gw(v, v.PC))]
CALLi(v) == JMPi(push(v, (v.PC + 2) % 65536))
EXECUTE(v) == [pop(v) EXCEPT !.PC = peek(v)]
EXIT(v) == [popRS(v) EXCEPT !.IP = topRS(v)]

-----------------------------------------------------------------------------
(* Stacks.                                                                 *)

DUP(v)  == push(v, peek(v))
DROP(v) == pop(v)
SWAP(v) == Replace(v, 2, <<Cell(v, 0), Cell(v, 1)>>)
OVER(v) == Replace(v, 1, <<Cell(v, 0), Cell(v, 1)>>)
ROT(v)  == Replace(v, 3, <<Cell(v, 1), Cell(v, 0), Cell(v, 2)>>)
CDUP(v) == IF peek(v) # 0 THEN push(v, peek(v)) ELSE v
RS2PS(v) == push(popRS(v), topRS(v))
PS2RS(v) == pushRS(pop(v), peek(v))
RFETCH(v) == push(v, topRS(v))
RDROP(v) == popRS(v)
RCNT(v) == push(v, ((v.RS - RS_ADDR) \div 2) % 65536)
SCNT(v) == push(v, ((SP_ADDR - v.SP) \div 2) % 65536)
QUIT(v) == [v EXCEPT !.RS = RS_ADDR]
ABORT(v) == [v EXCEPT !.SP = SP_ADDR]

(* Memory and literals.                                                    *)
PUSHi(v) == push([v EXCEPT !.PC = (@ + 2) % 65536], gw(v, v.PC))
PUSHii(v) == push([v EXCEPT !.PC = (@ + 2) % 65536], gw(v, gw(v, v.PC)))
LIT8(v) == push([v EXCEPT !.IP = (@ + 1) % 65536], At(v, v.IP))
LIT16(v) == [push(v, gw(v, v.IP)) EXCEPT !.IP = (@ + 2) % 65536]
CFETCH(v) == Replace(v, 1, <<At(v, peek(v))>>)
FETCH(v) == Replace(v, 1, <<gw(v, peek(v))>>)
CSTORE(v) == PutAt(pop(pop(v)), Cell(v, 0), Lo(Cell(v, 1)))
STORE(v) == sw(pop(pop(v)), Cell(v, 0), Cell(v, 1))
PCSTORE(v) == io_write(pop(pop(v)), Cell(v, 0), Lo(Cell(v, 1)))
PCFETCH(v) == Replace(v, 1, <<io_read(v)>>)

(* Arithmetic and branches.                                                *)
NOT(v) == Replace(v, 1, <<IF peek(v) # 0 THEN 0 ELSE 1>>)
AND(v) == Replace(v, 2, <<And(Cell(v, 0), Cell(v, 1), 16)>>)
OR(v)  == Replace(v, 2, <<Or(Cell(v, 0), Cell(v, 1), 16)>>)
XOR(v) == Replace(v, 2, <<Xor(Cell(v, 0), Cell(v, 1), 16)>>)
PLUS(v) == Replace(v, 2, <<(Cell(v, 1) + Cell(v, 0)) % 65536>>)
SUB(v) == Replace(v, 2, <<(Cell(v, 1) - Cell(v, 0)) % 65536>>)
LT(v) == Replace(v, 2, <<IF Cell(v, 1) < Cell(v, 0) THEN 1 ELSE 0>>)

(* The product of two words is an int: above 2^31 it is undefined, and all *)
(* that the build is taken to keep are its 16 low bits.                    *)
MULT(v) ==
    LET a == Cell(v, 1)  b == Cell(v, 0)
    IN  Replace(v, 2, <<((((a * Hi(b)) % 256) * 256) + (a * Lo(b))) % 65536>>)

\* Mutant of DIVMOD: quotient and remainder change places.
DIVMODSwapped(v) ==
    LET a == Cell(v, 1)  b == Cell(v, 0) IN Replace(v, 2, <<a \div b, a % b>>)
(* A divisor of 0 ends the process.                                        *)
DIVMOD(v) ==
    LET a == Cell(v, 1)  b == Cell(v, 0)
    IN  IF b = 0 THEN [v EXCEPT !.running = FALSE] ELSE Replace(v, 2, <<a % b, a \div b>>)

BR(v) == [v EXCEPT !.IP = (@ + Signed8(At(v, @))) % 65536]
CBR(v) == IF peek(v) # 0 THEN [pop(v) EXCEPT !.IP = (@ + 1) % 65536] ELSE BR(pop(v))
NEXT(v) ==
    LET n == (topRS(v) - 1) % 65536
    IN  IF n # 0 THEN BR(pushRS(popRS(v), n)) ELSE [popRS(v) EXCEPT !.IP = (@ + 1) % 65536]
BYE(v) == [v EXCEPT !.running = FALSE]

-----------------------------------------------------------------------------
(* The table.  A NULL entry ends the process, as BYE ends the VM.          *)

ops(op, v) ==
    CASE op = 0 -> DUP(v)     [] op = 1 -> DROP(v)    [] op = 2 -> PUSHi(v)   [] op = 3 -> PUSHii(v)
      [] op = 4 -> SWAP(v)    [] op = 5 -> OVER(v)    [] op = 6 -> ROT(v)     [] op = 7 -> lblnext(v)
      [] op = 8 -> CBR(v)     [] op = 9 -> NEXT(v)    [] op = 10 -> CALLi(v)  [] op = 11 -> JMPi(v)
      [] op = 12 -> lblxt(v)  [] op = 13 -> EXIT(v)   [] op = 14 -> CDUP(v)   [] op = 15 -> LIT8(v)
      [] op = 16 -> LIT16(v)  [] op = 17 -> JMPii(v)  [] op = 18 -> lbldoes(v) [] op = 19 -> lblval(v)
      [] op = 21 -> EXECUTE(v) [] op = 26 -> RDROP(v) [] op = 28 -> PLUS(v)   [] op = 29 -> SUB(v)
      [] op = 30 -> BR(v)     [] op = 33 -> LT(v)     [] op = 38 -> NOT(v)    [] op = 39 -> AND(v)
      [] op = 40 -> OR(v)     [] op = 41 -> XOR(v)    [] op = 51 -> PCSTORE(v) [] op = 52 -> PCFETCH(v)
      [] op = 53 -> MULT(v)   [] op = 54 -> DIVMOD(v) [] op = 55 -> QUIT(v)   [] op = 56 -> ABORT(v)
      [] op = 57 -> RCNT(v)   [] op = 58 -> SCNT(v)   [] op = 59 -> BYE(v)    [] op = 60 -> RFETCH(v)
      [] op = 61 -> RS2PS(v)  [] op = 62 -> PS2RS(v)  [] op = 63 -> CFETCH(v) [] op = 64 -> FETCH(v)
      [] op = 65 -> STORE(v)  [] op = 66 -> CSTORE(v)
      [] OTHER -> BYE(v)

opexec(v, b) ==
    ops(At(v, v.PC), [v EXCEPT !.PC = (@ + 1) % 65536, !.bus = b, !.out = <<>>])

VM_init ==
    [SP |-> SP_ADDR, RS |-> RS_ADDR, minSP |-> SP_ADDR, maxRS |-> RS_ADDR, IP |-> 0, PC |-> 0,
     mem |-> <<>>, blkop |-> <<0, 0, 0, 0>>, disk |-> <<>>, bus |-> 0, out |-> <<>>,
     running |-> TRUE]
=============================================================================
