------------------------------- MODULE Native -------------------------------
(***************************************************************************)
(* The native words at work: a processor runs a job, one instruction at a  *)
(* step, until the code that ends it halts.  A job is one of               *)
(*   "word"  a core word, or a colon definition of several, called by next *)
(*           from a thread; the meaning of the words is in CoreWords;      *)
(*   "undo"  a few instructions that together change nothing but flags;    *)
(*   "add", "sub"  an operation on decimal digits and its adjustment.      *)
(* On the Z80 the board may raise an interrupt between any two             *)
(* instructions: the handler of the PS/2 keyboard runs, and returns to the *)
(* word it stopped.                                                        *)
(***************************************************************************)
EXTENDS NativeCode, CoreWords

CONSTANTS
  Jobs,      \* the records described at Start below
  Images,    \* for each processor, the memory that NativeCode fills
  Entry,     \* and where each word lies in it
  MaxSteps   \* for each kind of job, more instructions than one should need

Z == INSTANCE Z80 WITH Image <- Images.z80
I == INSTANCE I86 WITH Image <- Images.i86, MaxPrefix <- 1
V == INSTANCE Cvm WITH Image <- Images.cvm, Blocks <- <<>>, BlkSize <- BlkSize,
                       SP_ADDR <- 65530, RS_ADDR <- 65280, SYSVARS <- 65024, BLK_PORT <- 3

VARIABLES
  job,       \* what is being run
  chip,      \* the processor
  steps,     \* instructions so far
  accepted,  \* interrupts accepted so far
  nest       \* handlers entered and not left

vars == <<job, chip, steps, accepted, nest>>

-----------------------------------------------------------------------------
(* Memory of a job: the thread at Base, a colon definition at Def, the     *)
(* stacks, the system variables and the variables of the driver.           *)

PS_ADDR == 65530
RS_ADDR == 65280
Base == 24576
Def == 25088
Address(cpu, w) == IF w = ":" THEN Def ELSE Entry[cpu][w]

Bytes(a, s) == [b \in a .. (a + Len(s) - 1) |-> s[b - a + 1]]
RECURSIVE Cells(_, _)
Cells(a, s) ==
    IF s = <<>> THEN <<>> ELSE Bytes(a, <<Lo(s[1]), Hi(s[1])>>) @@ Cells(a + 2, Tail(s))

(* The driver's variables p: PSK_STAT, PSK_CC, PSK_BUFI, PSK_BUFO, PSK_BUF *)
(* and the two that end the video frames.                                  *)
PSK_MEM == 48982
PskBytes(p) ==
    Bytes(PSK_MEM, <<p.stat, 0, p.cc, 0, p.bufi, 0, p.bufo, 0>> \o p.buf)
    @@ Bytes(PSK_MEM + 24, <<p.vid[1], 0, p.vid[2], 0>>)
PskOf(mem) ==
    [stat |-> mem[PSK_MEM], cc |-> mem[PSK_MEM + 2], bufi |-> mem[PSK_MEM + 4],
     bufo |-> mem[PSK_MEM + 6], buf |-> [i \in 1..8 |-> mem[PSK_MEM + 7 + i]],
     vid |-> <<mem[PSK_MEM + 24], mem[PSK_MEM + 26]>>]

(* What an edge of the keyboard's clock does to them, when the port gives  *)
(* in: bit 4, the cause of the interrupt, and bit 7, the data line.        *)
Edge(p, in) ==
    LET next == (p.bufo + 1) % 8
        full == [p EXCEPT !.stat = 0, !.vid = <<0, 0>>]
    IN  CASE ~Bit(in, 4) -> p
          [] Bit(in, 4) /\ p.stat = 0 -> IF Bit(in, 7) THEN p ELSE [p EXCEPT !.stat = 1]
          [] Bit(in, 4) /\ p.stat \in 1..8 ->
                [p EXCEPT !.stat = @ + 1, !.cc = (@ \div 2) + (IF Bit(in, 7) THEN 128 ELSE 0)]
          [] Bit(in, 4) /\ p.stat = 9 ->
                IF next = p.bufi THEN full
                ELSE [full EXCEPT !.bufo = next, !.buf[next + 1] = p.cc]
RECURSIVE Edges(_, _, _)
Edges(p, in, k) == IF k = 0 THEN p ELSE Edges(Edge(p, in), in, k - 1)

-----------------------------------------------------------------------------
(* What a word is expected to leave: a frame, and IP.                      *)

Frame0(j) == [ps |-> j.ps, rs |-> j.rs, a |-> j.a, mem |-> j.mem, port |-> j.bus,
              current |-> j.current, here |-> j.here, to |-> 0, val |-> j.v, disk |-> j.disk,
              cell |-> Entry[j.cpu]["c"] + Len(Call(Entry, j.cpu, "cell", Entry[j.cpu]["c"]))]

After(j, k) ==
    LET at[i \in 0..k] == IF i = 0 THEN Frame0(j) ELSE Meaning(j.body[i], at[i - 1], 0, <<>>).f
    IN  at[k]
Result(j) ==
    CASE j.word = ":" -> [f |-> After(j, Len(j.body)), ip |-> Base + 2]
      [] j.word = "EXECUTE" ->
            [f |-> Meaning(j.body[1], Put(Frame0(j), 1, <<>>), 0, <<>>).f, ip |-> Base + 2]
      [] OTHER -> Meaning(j.word, Frame0(j), Base + 2, j.x)

(* The start of a word job: PC at next, IP at the cell of the word, and a  *)
(* cell of BYE where IP should be after it.                                *)
ColonCode(j) == Bytes(Def, Colon(Entry, j.cpu, Def, j.body))
ValueAt(cpu) == Entry[cpu]["v"] + Len(Call(Entry, cpu, "val", Entry[cpu]["v"]))
Reversed(s) == [i \in 1..Len(s) |-> s[Len(s) + 1 - i]]
InMemory(j) == IF j.cpu = "cvm" \/ j.ps = <<>> THEN j.ps ELSE Tail(j.ps)
Bottom(j) == PS_ADDR - (2 * Len(j.ps))
WordMem(j) ==
    Cells(Bottom(j), InMemory(j)) @@ Cells(RS_ADDR + 2, Reversed(j.rs))
    @@ Cells(Base, <<Address(j.cpu, j.word)>>) @@ Bytes(Base + 2, j.x)
    @@ Cells(Result(j).ip, <<Address(j.cpu, "BYE")>>)
    @@ (IF j.word = ":" THEN ColonCode(j) ELSE <<>>)
    @@ Cells(SYSVARS[j.cpu] + 2, <<j.current, j.here>>) @@ Cells(ValueAt(j.cpu), <<j.v>>)
    @@ (IF j.cpu = "z80" THEN <<>> ELSE Cells(Entry[j.cpu]["'A"], <<j.a>>))
    @@ j.mem
Processor(j, mem) ==
    LET tos == IF j.ps = <<>> THEN 4660 ELSE j.ps[1]
        rp  == RS_ADDR + (2 * Len(j.rs))
    IN  CASE j.cpu = "z80" ->
              [r |-> [A |-> 90, B |-> Hi(tos), C |-> Lo(tos), D |-> Hi(Base), E |-> Lo(Base),
                      H |-> 18, L |-> 52, IXh |-> Hi(rp), IXl |-> Lo(rp),
                      IYh |-> Hi(j.a), IYl |-> Lo(j.a)],
               r2 |-> [A |-> 1, B |-> 2, C |-> 3, D |-> 4, E |-> 5, H |-> 6, L |-> 7,
                       IXh |-> 0, IXl |-> 0, IYh |-> 0, IYl |-> 0],
               F |-> j.F, F2 |-> {}, SP |-> Bottom(j), PC |-> Entry.z80["next"],
               I |-> 0, R |-> 0, IFF1 |-> TRUE, IFF2 |-> TRUE, IM |-> 1, halted |-> FALSE,
               nmi_req |-> FALSE, int_req |-> FALSE, defer_int |-> FALSE, int_vector |-> 0,
               mem |-> mem, bus |-> 0, out |-> <<>>]
          [] j.cpu = "i86" ->
              [w |-> [AX |-> 4369, CX |-> 8738, DX |-> Base, BX |-> tos, SP |-> Bottom(j),
                      BP |-> rp, SI |-> 13107, DI |-> 17476],
               s |-> [ES |-> 0, CS |-> 0, SS |-> 0, DS |-> 0],
               ip |-> Entry.i86["next"], F |-> j.F, hlt |-> FALSE, mem |-> mem, int |-> 0]
          [] j.cpu = "cvm" ->
              [V!VM_init EXCEPT !.SP = Bottom(j), !.RS = rp, !.IP = Base,
                                !.PC = Entry.cvm["next"], !.mem = mem, !.disk = j.disk]
WordStart(j) ==
    Processor(j, WordMem(j) @@ (IF j.ints > 0 THEN PskBytes(j.psk) ELSE <<>>))

(* The start of an undo job: v is in the registers, in memory where they   *)
(* point, and on the stack.                                                *)
Stop == [z80 |-> 118, i86 |-> 244]
UndoMem(j) ==
    Bytes(Base, Append(j.code, Stop[j.cpu]))
    @@ [a \in {28672, 28693, 28701, 28720} |-> j.v] @@ [a \in 28656..28659 |-> (3 * a + j.v) % 256]
    @@ [a \in {28673, 28694, 28702, 28721} |-> 255 - j.v]
UndoStart(j) ==
    LET c == Processor(j, UndoMem(j))
        v == j.v
    IN  IF j.cpu = "z80"
        THEN [c EXCEPT !.PC = Base, !.SP = 28656,
                       !.r = [A |-> v, B |-> (v + 37) % 256, C |-> 255 - v, D |-> 112,
                              E |-> 48, H |-> 112, L |-> 0, IXh |-> 112, IXl |-> 16,
                              IYh |-> 112, IYl |-> 32]]
        ELSE [c EXCEPT !.ip = Base,
                       !.w = [AX |-> Join(v, 255 - v), CX |-> Join(255 - v, v), DX |-> 40000,
                              BX |-> 28672, SP |-> 28656, BP |-> 28688, SI |-> 28693,
                              DI |-> 28701]]

(* The start of a decimal job: two numbers below 100, in A and B.          *)
Bcd(k) == (16 * (k \div 10)) + (k % 10)
DecimalCode == [add |-> <<128, 39, 118>>, sub |-> <<144, 39, 118>>]
DecimalStart(j) ==
    [Processor(j, Bytes(Base, DecimalCode[j.kind])) EXCEPT
                         !.PC = Base, !.r["A"] = Bcd(j.ps[1]), !.r["B"] = Bcd(j.ps[2])]

Start(j) ==
    CASE j.kind = "word" -> WordStart(j)
      [] j.kind = "undo" -> UndoStart(j)
      [] j.kind \in {"add", "sub"} -> DecimalStart(j)

-----------------------------------------------------------------------------
(* Behaviour.                                                              *)

Halted ==
    CASE job.cpu = "z80" -> chip.halted [] job.cpu = "i86" -> chip.hlt [] job.cpu = "cvm" -> ~chip.running

Accepts == chip.int_req /\ ~chip.defer_int /\ chip.IFF1
Returns == ~Accepts /\ Z!read8(chip, chip.PC) = 237 /\ Z!read8(chip, (chip.PC + 1) % 65536) = 77

Init ==
    /\ job \in Jobs
    /\ chip = Start(job)
    /\ steps = 0 /\ accepted = 0 /\ nest = 0

Running(cpu) == job.cpu = cpu /\ ~Halted /\ steps < MaxSteps[job.kind]

emul_step ==
    /\ Running("z80")
    /\ chip' = Z!Z80Execute(chip, job.bus)
    /\ steps' = steps + 1
    /\ accepted' = IF Accepts THEN accepted + 1 ELSE accepted
    /\ nest' = IF Accepts THEN nest + 1 ELSE IF Returns THEN nest - 1 ELSE nest
    /\ UNCHANGED job

(* The board's interrupt line, between two instructions.                   *)
Interrupt ==
    /\ Running("z80")
    /\ ~chip.int_req /\ accepted < job.ints
    /\ chip' = Z!Z80INT(chip, 0)
    /\ UNCHANGED <<job, steps, accepted, nest>>

exec86 ==
    /\ Running("i86")
    /\ chip' = I!exec86(chip)
    /\ steps' = steps + 1
    /\ UNCHANGED <<job, accepted, nest>>

VM_step ==
    /\ Running("cvm")
    /\ chip' = V!opexec(chip, job.bus)
    /\ steps' = steps + 1
    /\ UNCHANGED <<job, accepted, nest>>

Next == emul_step \/ Interrupt \/ exec86 \/ VM_step

Spec == Init /\ [][Next]_vars

-----------------------------------------------------------------------------
(* What the processor holds, as a frame.                                   *)

Peek(a) ==
    CASE job.cpu = "z80" -> Z!read8(chip, a)
      [] job.cpu = "i86" -> I!read86(chip, a)
      [] job.cpu = "cvm" -> V!At(chip, a)
PeekCell(a) == Join(Peek(a + 1), Peek(a))

Regs ==
    CASE job.cpu = "z80" -> [sp |-> chip.SP, rp |-> Z!Wide(chip, "IX"), a |-> Z!Wide(chip, "IY"),
                             ip |-> Z!Wide(chip, "DE"), tos |-> <<Z!Wide(chip, "BC")>>]
      [] job.cpu = "i86" -> [sp |-> chip.w["SP"], rp |-> chip.w["BP"], a |-> PeekCell(Entry.i86["'A"]),
                             ip |-> chip.w["DX"], tos |-> <<chip.w["BX"]>>]
      [] job.cpu = "cvm" -> [sp |-> chip.SP, rp |-> chip.RS, a |-> PeekCell(Entry.cvm["'A"]),
                             ip |-> chip.IP, tos |-> <<>>]

PS ==
    LET depth == (PS_ADDR - Regs.sp) \div 2
        cells == Regs.tos \o [i \in 1..depth |-> PeekCell(Regs.sp + (2 * (i - 1)))]
    IN  SubSeq(cells, 1, depth)
RS == [i \in 1..((Regs.rp - RS_ADDR) \div 2) |-> PeekCell(Regs.rp - (2 * (i - 1)))]

Scratch ==
    (RS_ADDR .. (RS_ADDR + 63)) \cup ((PS_ADDR - 60) .. 65535)
    \cup (PSK_MEM .. (PSK_MEM + 27)) \cup ((SYSVARS[job.cpu] + 2) .. (SYSVARS[job.cpu] + 9))
    \cup {Entry[job.cpu]["TO?"], ValueAt(job.cpu), ValueAt(job.cpu) + 1}
Kept(mem) ==
    \A a \in (DOMAIN chip.mem \cup DOMAIN mem) \ Scratch : a \in DOMAIN mem /\ Peek(a) = mem[a]

-----------------------------------------------------------------------------
(* Properties.                                                             *)

(* The parts of the state that instructions change have their widths.      *)
TypeOK ==
    /\ \A a \in DOMAIN chip.mem : chip.mem[a] \in Byte
    /\ CASE job.cpu = "z80" -> /\ \A g \in DOMAIN chip.r : chip.r[g] \in Byte
                               /\ chip.SP \in Word /\ chip.PC \in Word
                               /\ chip.F \subseteq Z!Flags
         [] job.cpu = "i86" -> /\ \A g \in DOMAIN chip.w : chip.w[g] \in Word
                               /\ chip.ip \in Word /\ chip.F \subseteq I!Flags
         [] job.cpu = "cvm" -> {chip.SP, chip.RS, chip.IP, chip.PC} \subseteq Word

(* Whatever the processor, and wherever an interrupt came, a word leaves   *)
(* the stacks, the A register, IP and memory as its meaning says, and      *)
(* nothing else in memory changes (the CODE words of arch/z80/blk.fs,      *)
(* arch/8086/blk.fs and cvm/cvm.fs against doc/dict.txt and the Forth of   *)
(* blk.fs B211-214).                                                       *)
Leaves(want) ==
    /\ PS = want.f.ps /\ RS = want.f.rs
    /\ Regs.a = want.f.a \/ job.word \in UsesA
    /\ PeekCell(SYSVARS[job.cpu] + 4) = want.f.here
    /\ PeekCell(ValueAt(job.cpu)) = want.f.val
    /\ Peek(Entry[job.cpu]["TO?"]) = want.f.to
    /\ Regs.ip = want.ip + 2
    /\ job.cpu = "cvm" => chip.disk = want.f.disk
    /\ Kept(want.f.mem @@ Start(job).mem)
Agrees == job.kind = "word" /\ Halted => Leaves(Result(job))

(* A word doc/dict.txt does not mark with *A* gives the A register back    *)
(* (doc/dict.txt:33).                                                      *)
KeepsA == job.kind = "word" /\ Halted => Regs.a = Result(job).f.a \/ job.word \in Marked

(* Between two handlers, the driver's variables are those that as many     *)
(* edges make, whatever word was stopped, shadow registers in use or not   *)
(* (arch/z80/blk.fs B105-107).                                             *)
EdgesSeen ==
    job.ints > 0 /\ nest = 0 => PskOf(chip.mem) = Edges(job.psk, job.bus, accepted)

(* A handler is never interrupted: its EI takes effect after its RETI.     *)
OneFrame == nest \in 0..1

(* Every job halts, and soon (next, the loops of *, /MOD, CRC16, FIND).    *)
Ends == steps < MaxSteps[job.kind]

(* Instructions that undo each other give back every register, the stack   *)
(* pointer and memory (rotations, counts, sums, exchanges, pushes, frames).*)
GivesBack(c) ==
    /\ \A a \in DOMAIN chip.mem \ (28600..28655) : a \in DOMAIN c.mem /\ chip.mem[a] = c.mem[a]
    /\ IF job.cpu = "z80" THEN chip.r = c.r /\ chip.r2 = c.r2 /\ chip.SP = c.SP ELSE chip.w = c.w
Undone == job.kind = "undo" /\ Halted => GivesBack(UndoStart(job))

(* DAA after ADD or SUB of decimal digits gives the digits of the sum or   *)
(* difference and its carry (doDAA, doArithmetic).                         *)
Decimal ==
    job.kind \in {"add", "sub"} /\ Halted =>
        LET x == IF job.kind = "add" THEN job.ps[1] + job.ps[2] ELSE job.ps[1] - job.ps[2]
        IN  chip.r["A"] = Bcd(x % 100) /\ ("C" \in chip.F) = (x \notin 0..99)
=============================================================================
