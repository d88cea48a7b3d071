# Collapse OS in TLA+

This directory models Collapse OS (`src/`) from the processors it runs on up to
its text editors. Two kinds of parts are here: those where several pieces of
state have to agree with each other across words, interrupts, drivers or
machines, and those where the same thing is written several times (a word in
Forth, in Z80, in 8086 and in CVM code) and every copy has to do the same. TLC
checks the models on small instances. TLAPS proves the results that matter most
for every instance.

Collapse OS is a Forth. Its portable core is one text, `blk.fs`, cut in blocks
of 16 lines of 64 characters. Each port adds `arch/<cpu>/blk.fs`. Words are
compiled from those blocks and run on one machine with no scheduler. What is
concurrent is around it: interrupt routines, the keyboard, the machine at the
other end of a serial line, the SD card, and the person who swaps disks or cuts
the power. Line numbers below are those of `src/`.

## 1. The system

### Components that are modelled

**BLK, the block buffer cache** (`blk.fs:840-858`). State: the 1024-byte buffer
`BLK(`, the number `BLK>` of the block in it (-1 for none) and `BLKDTY`.
Operations: `BLK$ BLK! FLUSH BLK@ BLK!! WIPE COPY`, and the visual editor's `@`
and `!` (`blk.fs:310-311`). Everything that reads or edits text works on this
buffer, and everything that moves it calls the driver through `(blk@)` and
`(blk!)`. A driver moves a block in sectors and may `ABORT` between any two of
them. Hard: the three variables change at different moments of one word. Correct
means: `BLK>` names what is in the buffer; unsaved changes are neither forgotten
nor written over another block; block -1 is never written.

**MSPAN, one block space over several disks** (`blk.fs:901-915`). State:
`MSPAN_DISK`, the disk asked for last; around it the drives, the selected drive
and the disks. `dskchk` turns a block number into a disk and a local block, and
`prompt` waits for a person. It stands between BLK and a driver. Correct means:
each sector reaches the disk its block lives on, and no drive is changed while
there is something to save.

**The keyboard driver of the Dan SBC** (`arch/z80/blk.fs:1010-1056`). State: the
frame assembler `PSK_STAT`/`PSK_CC`, the ring `PSK_BUF` with `PSK_BUFI` and
`PSK_BUFO`, and `VD_DECFR`, by which the interrupt routine ends a video frame
loop. The interrupt routine writes, `PSK<` and `PSKV<` read, and nothing disables
interrupts. Correct means: what is read is what was typed, in order, bytes that
wait are never overwritten, and a byte that waits is read.

**PS/2 key codes** (`blk.fs:955-996`). State: `PS2_SHIFT`, and being in the middle
of a break code. `(key?)` is the only operation. It calls `(ps2kc)`, which on the
Dan SBC keeps F1 to F3 for itself. Correct means: each press comes out once, with
the right shift, and the shift does not stick.

**SD card** (`blk.fs:997-1123`, and the card of `emul/z80/sdc.c`). State on one
side `SDC_SDHC` and the place in the word; on the other the card's
initialization, command, response, read and write counters. Operations `SDC$`,
`SDC@`, `SDC!`. Correct means: a transfer that ends without `SDerr` moved the
block, the rest of the card is untouched, and the card is waiting for a command
when a word ends.

**CRC16** (`blk.fs:655-657`, `arch/z80/blk.fs:208-215`, `emul/z80/sdc.c`,
`tools/csum.c`): four implementations that have to agree.

**XMODEM** (`blk.fs:132-172`). State: the sender's packet, the receiver's place in
memory or in the block buffer, `BLK>`, and the bytes under way in both
directions. Operations `MEM>TX`, `BLK>TX`, `RX>MEM`, `RX>BLK`. No timeout and no
retransmission. Correct means: the sender ends normally only if the receiver has
what it sent.

**The interpreter's input** (`blk.fs:697-741`, `763`, `822-823`, `874-882`). State:
`IN(`, `IN>`, `LN<`, `BLKIN>`, the line typed, the block buffer, and where `LOAD`
and `LOADR` are on the return stack. Operations: `WORD` and `RUN1`, `( ... )`,
`\`, `\S`, `LOAD`, `LOADR`, and `(wnf)`. It fetches blocks through BLK. Correct
means: words run in the order of the text, whatever is loaded, and an error in the
middle leads back to the keyboard.

**The editors ED and VE** (`blk.fs:176-355`). State: the buffer as flat memory,
`BLK>`, `BLKDTY`, the cursor `EDPOS` and where it was before (`PREVPOS`), the
buffers `IBUF` and `FBUF`, and the bookmarks. Operations: the words of ED
(`T P U I F X E Y N B`), VE, and each of its keys with the number before it and
the text typed after it. Hard: text is moved byte by byte over itself, and nothing
but the words' own arithmetic keeps them from the cells after the buffer, which
are the marker `\S`, `BLK>` and `BLKDTY`. Correct means: moving bytes does to the lines
what the command means (which is not everywhere what `doc/ed.txt` says); no change forgotten when a block is left; what is cut can be put
back; nothing outside the buffer is written.

**The core words** (`blk.fs` B211-217, and `FIND`, `S=`) and **the native words of
the ports** (`arch/z80/blk.fs`, `arch/8086/blk.fs`, `cvm/cvm.fs`). State: the two
stacks, the A register, `IP`, memory, `CURRENT`, `HERE`, `TO?`. Each port writes
some words as machine code, and takes the rest from the Forth text. The same word
thus exists in up to four forms, which is the hard part: programs rely on it doing
the same everywhere, and each form keeps its own registers while it runs. On the
Z80 an interrupt may come between any two instructions. Correct means: on every
machine a word leaves what its meaning says and touches nothing else.

**The processors**: the Z80 emulator (`emul/z80/z80.c`, `opcodes_impl.c`), the 8086
emulator (`emul/8086/cpu.c`) and the CVM (`cvm/vm.c`). State: registers, flags,
memory, ports, pending interrupts. Operations: one per opcode. Correct means: the
native words run on them as on the hardware; what an instruction does, its inverse
undoes; decimal adjustment gives decimal digits.

### How they interact

```
 LOAD/LOADR (Interp)   ED, VE (Editor)   XMODEM's RX>BLK, BLK>TX (Xmodem)
        \                |            /
         +------- BLK (BlkCtl, Blk) -+
                         |
                 MSPAN (MspanBlk)             TX>, RX<? -- serial line -- peer
                         |
          driver: SDC@/SDC! (SdCard) over (spix) -- card

 KEY, RDLN -- (key?) (Ps2) -- (ps2kc) -- PSKV< (Psk) -- interrupt -- keyboard

 core words (CoreForth) -- native words (NativeCode) -- Z80, I86, Cvm
        \______________ Native: one job, one processor _______/
                         with Psk's handler as bytes on the Z80
```

Calls go through deferred words and through aliases chosen when a system is
built (`ALIAS SDC! (blk!)`), which is why each level is modelled against a
promise of the one below and not against a particular driver.

### Components that are not modelled

`PROJECT.json` lists each, and section 7 says why.

## 2. Modules

| module | models | kind |
|---|---|---|
| `BlkCtl` | the BLK words, control half | component |
| `Blk` | BlkCtl over one medium, with failing drivers and power cuts | composition |
| `BlkPower` | Blk with a record of power cuts, for the properties that except them | composition |
| `BlockStore` | what BLK promises: a store of numbered blocks | abstract |
| `MspanBlk`, `MspanBreak` | BlkCtl over many disks, drives and a person; with BREAK | composition |
| `Psk` | interrupt routine, `PSK<`, `PSKV<`, `(vidfr)` | component |
| `KeyFifo` | a bounded queue of key codes that drops when full | abstract |
| `Ps2` | keyboard, driver queue, `(key?)` | component |
| `SdCard` | SD card words and the emulated card, exchange by exchange | composition |
| `Crc16` | the four CRCs | algorithm |
| `Xmodem` | both machines and the line between them | composition |
| `Interp`, `SourceText` | interpreter input; text as lines of cells | component |
| `WordStream` | the order words should run in | abstract |
| `Editor` | ED and VE over flat memory and a medium | component |
| `Pages` | what the code's commands mean: pages of lines and what each does to them | abstract |
| `EdText` | what `doc/ed.txt` says where the code does something else | properties |
| `Words` | bytes and 16-bit words | helpers |
| `Z80Alu`, `Z80` | the Z80 emulator: arithmetic and flags; opcodes, interrupts | component |
| `I86Alu`, `I86` | the 8086 emulator, likewise | component |
| `Cvm` | the C virtual machine and its block port | component |
| `CoreForth` | the Forth of the core words, compiled to threads | component |
| `CoreWords` | what each core word means, as a step from frame to frame | reference |
| `NativeCode` | the machine code of the native words of the three ports, and where it lies | component |
| `Native` | a processor running a word, an interrupt at any instruction | composition |
| `BlkProofs` | BLK: its invariant; it implements `BlockStore` | proofs |
| `MspanProofs` | many disks implement one medium, and so `BlockStore` | proofs |
| `PskProofs` | the ring never loses its head; it implements `KeyFifo` | proofs |
| `Ps2Proofs` | what `(key?)` makes of the bytes on their way | proofs |
| `SdCardProofs` | on a sound line driver and card stay together, and blocks are moved; the four CRCs are one; types on any line | proofs |
| `XmodemProofs` | bytes are conserved; on a sound line all arrive | proofs |
| `InterpProofs` | `IN(`, `IN>`, `LN<` and LOAD's loop stay together | proofs |
| `EditorProofs` | what is cut can be put back; who writes outside the buffer | proofs |
| `MC*` | constants for TLC | |

How a word became actions: a word that nothing can interrupt is one action. A
word that waits for something else (a driver, a disk, a key, a byte, an
interrupt) is one action per stretch between two waits, and `pc` says where it
is. Every stretch does all the code does there.

- **BlkCtl.** `pc` is `ready`, `put` or `get`; `sec` counts sectors the driver has
  moved; `after`, `want` and `dst` are what is left of the word on the return
  stack. `FlushThen` is `FLUSH` with its continuation: forget (`FLUSH`), fetch
  (`BLK@`), or nothing (VE's `!`). `Continue` moves `BLK>` before the fetch
  starts, as `blk.fs:855` does. A sector's content is one value: nothing in this
  code looks inside.
- **MspanBlk.** Before a sector moves, `dskchk` runs (`ask = "check"`), perhaps
  `prompt` (`ask = "key"`). Block arithmetic is that of 16-bit words: `Left` is
  taken modulo 65536 and the loop stops on the sign bit.
- **Psk.** `Edge` is one run of the interrupt routine. The reader is split where
  an interrupt between two accesses of a shared variable can be told: `Check` and
  `Arm` are the test of the ring and the store to `VD_DECFR`; `vidfr` and `Again`
  the load of `VD_DECFR` by `(vidfr)` and the store of what is left of it, which
  overwrites a 0 the routine has written in between; `Fetch` and `StoreIn` the read
  of the slot and the store of `PSK_BUFI`, in `PSK<` (`PSKlt`) too. The two loads of
  the test of the ring are one step, since only the reader changes `PSK_BUFI`.
- **Ps2.** Keys are members of small sets that say how they behave (plain, shift,
  without character, extended, kept for scrolling) instead of the two 128-entry
  tables. Each byte carries, for the properties only, what `(key?)` may return
  for it.
- **SdCard.** `Spix` is `sdc_spix` byte by byte. A driver action is a run of
  exchanges: a command with its waits, a sector, a busy poll. Nothing else can
  talk to the card in between. In a run at most one byte the driver looks at is
  damaged (`Hits`): one of the `$ff` before an answer, which ends the wait early and
  is taken for the answer; the answer or the token itself, which as `$ff` has the wait
  go on and take a byte behind it; one of the four bytes of an R7; one of a sector
  or of its CRC. The run then goes on from there as the code does, in step with the
  card or not.
- **Xmodem.** Bytes of the line are single; the receiver takes one per action. The
  sender's packet is one action, because it looks at nothing while it sends. Dots
  and letters printed on the way are left out.
- **Interp.** A word is one cell as wide as a character, followed by a space or by
  the end of its line, which keeps every case of `IN<?` and `WORD`. What a word
  does is written in the cell.

- **Editor.** A word or key is one action, with `ACC` and the text typed folded
  in, since the editor looks at nothing else until it is done; `R` is a mode with
  an action per character, since the person may leave it after any. `mem` is the
  buffer and the `LNSZ` cells after it (`Beyond`), which hold `"?"` until something
  writes them; `MOVE`, `MOVE-` and `FILL` go byte by byte as in the code, so an
  overlap smears as it would there. Once a cell outside is written the model stops
  (`Inside`): what follows depends on the memory of the machine.
- **Z80, I86, Cvm.** A processor is a record, and an instruction an operator from
  state to state, with the opcodes in the families that the hardware's encoding
  gives them instead of the emulators' one function or `case` each. `Z80Execute`
  is the emulator's step: accept an interrupt or fetch, decode and execute.
  Memory is sparse: a byte that is not in `mem` comes from the image.
- **NativeCode, CoreForth.** A native word is the sequence of bytes its assembler
  source lays; a Forth word is the thread that `B203-205` compile from its text.
  Both are laid out in memory in order and known by their addresses, so calls
  and branches go where they go on the machine. `Native` takes the filled memories
  and the addresses as the constants `Images` and `Entry`; its configuration gives
  them the `images` and `where` of `NativeCode`, so that TLC computes each once.
- **Native.** A job says what runs: a word with its stacks and memory, or
  instructions that should cancel out, or an addition of decimal digits. One action
  is one instruction of the job's processor; `Interrupt` raises the board's line
  between any two. `Agrees` compares, at the end, the registers that hold the
  stacks (SP, IX, DE, BC, IY on the Z80; SP, BP, DX, BX on the 8086) with the
  frame that `CoreWords` computes. A cell of `BYE` lies where `IP` should be, so a
  word that returns elsewhere does not end.

## 3. What is checked

All runs end in an exhausted state space. Passing runs:

| run | bounds | states | shows |
|---|---|---|---|
| `blk_store` (MCBlk) | 2 blocks, 2 sectors of 2 contents | 24832 | BLK implements `BlockStore` with failing drivers and power cuts; `Coherent`, `InvalidNeverWritten`, `CleanMeansSaved`, `DirtyKeepsBlock`; `Inductive`, the invariant of the proofs |
| `mspan_span` | disks of 1 and 2 blocks, 2 drives | 362688 | the disks implement the one medium of `Blk` (`MediumSpec`); `RightDisk`; `DrvselFlushed` |
| `psk_ring` | frames of 2 data bits, 4 slots, 3 codes | 280623 | driver implements `KeyFifo`; `HeadKept`; `ReturnedIfTyping` |
| `ps2_keys` | 6 keys, 5 bytes in the line | 298186 | `Faithful`, `ShiftKnown` |
| `sdc_words` | 3 sectors of 12 bytes, one block moved, waits of 3, 1 damaged byte | 17856 | `Moved`, `OnlyTarget`, `InSync`, `NoErrorUp`, `DamageFound`, `CrcsAgree` |
| `xmodem` | 4 packets of 2 bytes, 2 to a block, 1 fault | 15084 | `Delivered`, `Whole`, `TakenStays`, `Ends` |
| `interp_stream` | lines of 4 cells, blocks of 2 lines, 6 blocks | 2690 | `StreamSpec` (implements `WordStream`), `OneSource`, `Ready` |
| `editor` | 3 blocks of 3 lines of 4 characters, any cursor, 3 keys | 188002 | ED and VE implement `Pages`, the code's meaning (`PagesSpec`); `CutPaste`; `Strays` |
| `native` | some 23000 jobs on three processors | 653359 | `Agrees`, `EdgesSeen`, `OneFrame`, `Ends`, `Undone`, `Decimal` |

Runs that TLC finds violated, each a disagreement between the code and what a
document or a comment says of it:

| run | property | what happens |
|---|---|---|
| `blk_stale` | `HoldsItsBlock` | `BLK@` moves `BLK>` before it reads. After a driver error `BLK>` names a block that is not in the buffer; a retry returns at once, and an edit saves another block's text there |
| `mspan_break` | `RightDisk` | `prompt` stores the disk before it waits. Left by BREAK, `MSPAN_DISK` names a disk that is not in, and the next write goes to the wrong one without a prompt |
| `psk_wakeup` | `Returned` | a byte that completes between `PSKV<`'s test and its store to `VD_DECFR`, or between `(vidfr)`'s load of it and its store, waits for the next byte |

Properties that state what a document says, or what one would expect, and that the
code breaks as well. No run of the list above has them; give the named `.cfg` the
property as its only one (`ChangesHaveBlock`, `MovedOnceStarted`, `KeepsA` and `Agrees` as
`INVARIANT`, the others as `PROPERTY`), with the constants shown, and TLC prints how it
comes about:

| property | in | what happens |
|---|---|---|
| `ChangesHaveBlock` | `MCBlk.cfg`, `Outside = {"abort", "noblk"}` | a word that changes the buffer while no block is active leaves changes of block -1, which `FLUSH` then asks the driver to write (`blk.fs:844`: "-1 means invalid") |
| `ReturnedPastArm` | `MCPskWakeup.cfg` | with bytes that keep coming and never fall between `PSKV<`'s test and store, those that fall between `(vidfr)`'s load and store alone are left unread for good |
| `MovedOnceStarted` | `MCSdCard.cfg` | one damaged byte of CMD58's answer, which nothing checks, makes an SDHC card one addressed by bytes; `SDC$` ends without error, and later transfers reach other sectors, without `SDerr` (`doc/hw/sdcard.txt:23-25`) |
| `PInserts` | `MCEditor.cfg` | `P` opens no line (`doc/ed.txt:44-46`) |
| `UInserts` | `MCEditor.cfg` | `U` in mid-line writes over two lines (46-47, 72) |
| `YCopies` | `MCEditor.cfg` | `Y` copies `FBUF`, not the characters after the cursor (75-76) |
| `NContinues` | `MCEditor.cfg` | `N` does not see a match at the start of the blocks it turns to (135-136) |
| `bCounts` | `MCEditor.cfg` | `2b` goes past a word of one letter (127) |
| `MovesKept` | `MCEditor.cfg` | `n` and `N` do not note where the cursor was, for `f` (153-154) |
| `KeepsA` | `MCNative.cfg`, `Jobs <- HeldJobs` | `FMTD`, `FMTx`, `FMTX` lose A, and `doc/dict.txt:269-272` does not mark them |
| `Agrees` | `MCNative.cfg`, `Jobs <- EmptyMovesAll` | `MOVE` of no bytes leaves two cells where it is Forth (`doc/dict.txt:195`) |

### Why the bounds are enough

- **BLK.** Two blocks tell "the block" from "another one"; two sectors make a
  transfer that can be half done; two contents tell saved from changed. A third
  of any adds no case to a guard. The theorems of section 5 hold for any number.
- **MSPAN.** The walk of `dskchk` both stops on a negative rest and runs into the
  last disk, and a disk has a block other than its first.
- **Psk.** Four slots and three codes fill the ring, wrap it, and drop a byte.
  Code bits that differ in each place tell a shifted frame from a sound one.
  Theorems hold for any ring and any frame.
- **Ps2.** Both shifts, an extended key, one without a character and a scroll key
  can be down together. Five bytes hold the release of an extended key (`$e0 $f0`
  and its code) and a press behind it. The scroll key is only pressed alone (`Alone`):
  what it loses (section 6) is then one press, which `Faithful` names, and not any
  press that follows.
- **SdCard.** A sector must be longer than a command with its waits, or the card
  gets back in step by chance. 12 bytes with 3 waiting exchanges keep that
  order, as 512 and 20 do. The contents look like silence, tokens, answers or
  write commands to whoever is out of step. Resets, wake-up and wait counts are
  constants `Resets`, `Wakes`, `Tries`. The bounds matter for the damaged byte:
  on a sound line the theorems hold for any.
- **Xmodem.** Two packets to a block and two blocks make `RX>BLK` save in the middle
  and at the end. The data holds every byte the protocol gives a meaning (1, 4,
  6, 21, 67), so that a receiver out of step may take data for control.
- **Interp.** Words stand in the first and the last column, in the last column of
  the last line, next to `\S`, and in comments that span lines; a block is empty,
  another has a word that is not found; `LOADR` covers one, two and three blocks.

- **Editor.** Three lines tell the first, the last and one between; four columns
  hold two words, a full line, and text that starts or ends a line. Every cursor
  place is an initial state, so that three keys reach what would take many: F and
  a change where it landed, a cut, a move and a paste, a change and leaving the
  block, `f` after movements that do not note where they came from. Texts of none,
  two and four characters are empty, shorter than what is left of a line, and
  longer. The three blocks have the sought text at place 0, in the middle and at
  the end. `Numbers` are "no number" and 2.
- **Native.** Words get the values where 8- and 16-bit arithmetic turns over, the
  stacks more cells than the word takes (to see that the rest stays), memory an
  unaligned cell and one across a page. Numbers are parsed in each form and with
  each way of being wrong; FIND meets a shorter name, a longer one, an immediate
  entry and none. The keyboard's ninth edge comes at any instruction of one job of
  every native Z80 word; the other edges, the full ring and two edges, at any
  instruction of words that use every register pair and the shadow registers.
  `Undone` takes each instruction that has an inverse, on `{0, 1, 127, 128, 254,
  255}`; `Decimal` all 20000 additions and subtractions of two digits. Block
  transfers have the code's 1024 bytes, on a block number that needs both bytes.
  `Bounds` is a number of instructions that a job which loops by mistake exceeds.

### Fairness

Only `psk_ring`, `psk_wakeup`, `xmodem` and `interp_stream` use it.

- `Psk`: weak fairness of `Edge`, since a keyboard that began a frame clocks it
  out, and of `Reader`, since the processor goes on with its word and the system
  asks for the next key for ever (`KEY` is `BEGIN KEY? UNTIL`). The keyboard is
  not assumed to send anything. `ReturnedIfTyping` therefore has the hypothesis
  that bytes keep coming, and that among them again and again one completes outside
  the two windows in which the reader is about to store 1 in `VD_DECFR`
  (`WellTimed`): the code guarantees neither. `Returned`, without any hypothesis, is
  what `psk_wakeup` refutes; with bytes that only miss the first window it is
  `ReturnedPastArm`, which TLC refutes too.
- `Xmodem`: weak fairness of each machine, since `RX<` and the loop of `_waitC`
  poll for ever. The line is never assumed to be kind.
- `Interp`: weak fairness of `INTERPRET`, an endless loop; nobody is assumed to
  type.

Three runs turn the deadlock check off. In `xmodem` the two machines really stop:
both when they are done, and both waiting when a byte was lost. In `native` a
processor halts at the end of its job, and `Ends` says that each does. In
`editor` the person stops after `MaxKeys`, or when something outside the buffer
was written, and `Strays` says when that is.

## 4. What is assumed

- BLK: words that change or store the buffer run with a block active, unless
  `Outside` has `"noblk"`. VE sees to that (`blk.fs:353`), the line editor does
  not. After `FLUSH`, `WIPE` makes a dirty buffer numbered -1, and the next
  `FLUSH` asks the driver for block 65535 (`ChangesHaveBlock`, section 3): with `"noblk"` in
  `Outside`, which the run `blk_store` leaves out.
  `InvalidNeverWritten` and the refinement are about users who do not do that, as
  theorems say by `ASSUME "noblk" \notin Outside`; `Coherent`, `CleanMeansSaved` and
  `DirtyKeepsBlock` need no such assumption. `CleanMeansSaved` is stated in
  `BlkPower`, whose `cut` tells a power cut from `FLUSH`'s return, which may leave
  the same state: only a cut, and `@` of VE, may drop a change.
- MSPAN: the person does what the prompt asks and boots with disk 0 in drive 0;
  no block has the number $ffff, which is "none" (`WordsAssumption`).
- PS/2: no key's code is `$e0` or `$f0` (`CodesAssumption`). A scroll key is pressed
  with no other down (`AloneAssumption`): what it loses otherwise is in section 6.
- SD: `SDC$` has succeeded once before `SDC@` or `SDC!`, as `doc/hw/sdcard.txt:22-25`
  says. A byte may be damaged where the driver looks (R7 bytes included); bytes the
  driver sends are not, and the card never answers late, since the emulated one does
  not. `Moved` is about a card that `SDC$` has found to be SDHC: that one damaged
  byte can have it found otherwise is what `MovedOnceStarted` fails on (section 3). When the token is what comes
  as `$ff`, the wait goes on into the data and may take a byte `$fe` of them for the
  token: the driver is then out of step with the sector, `SDC@` ends with `SDerr` only
  as its CRC does not fit by chance (for some contents in 65536 it would), and
  `DamageFound` excepts such sectors (`TokenBehind`). `Moved` includes them, on the
  contents of the run. The ten exchanges `SDC$` begins with never reach the card of
  the RC2014 (`emul/z80/rc2014_spi.c:18-23`: nothing is selected yet).
  One wait is enough to wake the card (`Wakes <= Tries`; 8 and 20 in the code).
  That driver and card compute the same CRC is not assumed but proved (section 5).
  Of a byte-addressed card (`badj`) the emulated one is none.
- XMODEM: the UARTs hold a sender back, so no byte is lost to a slow receiver;
  a byte is lost only as one of `Faults`. `Delivered` is claimed for a single
  fault. With two it is false: a C from before lets the sender begin while the
  receiver still drains, so the SOH is dropped and the byte after it taken for an
  EOT; if the receiver's own C then arrives as a NACK, the sender finds both
  answers it waits for, and ends with nothing received. The CRC of a packet is any
  16-bit number, as two bytes (`CRCAssumption`); what it catches is not assumed.
- Interp: the driver does not fail; no block runs `LOAD` (`doc/blk.txt:24-26`) or
  fetches another block; a comment ends in its own block (`TextsAssumption`); `\S`
  is not typed and the blocks asked for are there (`TypedAssumption`).

- Editor: a block is active (VE sees to that), F has been used (before that
  `FBUF` is empty and F compares no bytes; `FirstFAssumption`); what is typed is no
  longer than a line, which `LNTYPE` sees to (`TypedAssumption`); the number given to `T` is a line, and
  `B N G [ ]` stay on the medium, none of which the words check. Not modelled:
  typing something and erasing all of it, an `ACC` that overflows, driver errors
  (they are in `Blk`), and the screen.
- Native: the run `native` compares what its jobs name, not every operand. Left out
  because the forms differ there (section 6): `/MOD` by 0; `[]=`, `FILL` and `ALLOT0`
  of 0 bytes; `MOVE` of 0 bytes but on the Z80 (`EmptyMovesAll` has it everywhere); a
  block command of the CVM that is cut short; DAA after ADC and the 8086's; XCHG of a
  register with memory addressed by it. `=><=` has its bounds in
  order; `[C]?` looks for a byte. The value left in A by words that use it
  (`UsesA`) is not compared: those `doc/dict.txt` marks (`Marked`), and `FMTD`, `FMTx`
  and `FMTX`, which only comments of `blk.fs:668` and 673 do (`KeepsA`, section 3). On the Z80 the image is that of the Dan SBC, whose
  keyboard interrupts in mode 1.

## 5. What is proved

TLAPS checks every step; nothing is assumed but the named `ASSUME`s of the
modules, which TLC evaluates in each run.

**BLK** (`BlkProofs`), for any blocks, contents and media.
`TypeOK /\ Progress /\ Numbered` is the inductive invariant. `TypeOK` alone does
not give `Coherent`: when the driver returns from a read, the buffer agrees with
the medium only because each sector moved so far does, and stays so only because
a fetch never runs over a dirty buffer. `Progress` says that, and that a word on
its way to a fetch knows which block it wants. `Numbered` is the part that needs
users who leave an empty buffer alone.

- `Coherence`: `Spec => []Coherent`. Leaf by leaf: a driver call that succeeds
  makes buffer and block agree (`SectorsAgree`, `DriverDone`), and no other step
  of a clean buffer touches either.
- `InvalidSafe`: `Spec => []InvalidNeverWritten`.
- `SavedBeforeClean`: `PowerSpec => CleanMeansSaved`: whatever the driver does, the
  dirty flag goes down only with both sectors on the medium, but for VE's `@` and a
  power cut. `FLUSH` is held to it too: its return is not a cut.
- `ChangesStayPut`: the action property `DirtyKeepsBlock`, whatever the driver does.
- `Implements`: `Spec => StoreSpec`. The user's view of a block is the buffer
  while it has changes, or while a COPY goes out, and the medium otherwise. Each
  word, sector, return, abort and power cut is one step of `BlockStore` or none.

**Keyboard driver** (`PskProofs`), for a ring and frames of any size.

- `TypeCorrect`: indexes stay in the ring, the bit counter in the frame.
- `HeadStays`: `Spec => []HeadKept`. Strengthened with `Found`: a reader that has
  seen the ring non-empty finds it so, since only it moves `PSK_BUFI`; then the
  slot it reads is not one the interrupt routine writes.
- `Implements`: `Spec => FifoSpec`. Strengthened with `InFrame`: after k clocks
  the shift register's last k-1 bits are the first k-1 of the byte, and the
  counter follows the clock; so the last bit appends the byte that was sent.

**MSPAN** (`MspanProofs`), for any number of disks and drives and disks of any
size, with a person who answers the prompts. The inductive invariant `Inv` says
that the disk last asked for is in the drive selected (`Inserted`), what a transfer
may still ask (`Asks`), and of a transfer under way what `Progress` says of it in
`BlkProofs`, seen on the concatenated disks (`Moving`). Without the second,
`RightDisk` is not inductive: between the choice of the disk and the sector come a
prompt and a person.

- `Types`: `dskchk`'s walk over the sizes ends on a disk that is there and at a
  block that it has. The sum of the sizes is a recursive function, which is shown
  to exist and to grow by the least place where it would not.
- `OnTheRightDisk`, `DrivesFlushed`: `RightDisk` and `DrvselFlushed`.
- `OneMedium`: `Spec => MediumSpec`. Two blocks never share a disk and a place on
  it, so a sector written changes one sector of the span; words and returns are
  those of `Blk`; what `dskchk` and the person do is invisible.
- `OneStore`: with `Implements` of `BlkProofs`, the words over many disks are the
  abstract block store.

**PS/2** (`Ps2Proofs`), for any keys and any number of bytes ahead. What is typed is
decided when a key moves, but PS2_SHIFT changes when its byte is read. So the
invariant reads the line ahead: `Coming` says that a run of `(key?)` over the bytes
under way, from the state it is in, returns for each what its press may come out
as, and ends with the shift of the keys that are down now. A new byte lengthens the
run at its end (`RunAppend`), a byte read shortens it at its start.

- `Typing`: `Spec => []Faithful`. `Shifting`: `Spec => []ShiftKnown`, which is
  `Coming` for a line with nothing on it. `Types`.

**SD card** (`SdCardProofs`), for sectors, files and contents of any size, any number
of tries, resets and wake-up exchanges. On a line where no byte was damaged so far,
the proof goes up three levels.

- One exchange: `Spix` in each state of the card (`AsleepSpix`, `SendSpix`, `ReadSpix`,
  `WriteSpix`, `SilentSpix`, `GatherSpix`, `CommandSpix`).
- A run of exchanges: `Sends` and `wait` are recursive functions over bytes; each
  leaves a trace (`SendsTrace`, `WaitTrace`), two traces of one run are equal by the
  least place where they are not (`OneTrace`), so it is enough to give a trace in
  closed form. A wait wakes a sleeping card (`WaitAsleep`), ends at the answer
  (`WaitAnswer`), or leaves a resting card at rest (`WaitStill`); a frame is gathered
  and carried out (`FrameSent`); a sector and its CRC are read (`SectorTaken`) and the
  driver finds them good (`SentIsGood`); a packet puts a sector in the file, byte by
  byte, and is answered 5 (`SectorPut`).
- A step of a word: the lemmas `ResetDoes` to `BusyDoes` say what each does from where
  the invariant has both sides. The invariant `SoundInv` says that while nothing was
  damaged each word is at one of its own commands (`Places`), the card is at the
  place the driver takes it to be (`Stage`), a card that was started is up and known
  as SDHC (`Begun`), and a half that was moved is the same in buffer and card
  (`Contents`). `InSync` alone speaks of the moments between words only; without
  `Stage` nothing is known of the card in the middle of one.

`Soundness`: `Spec => []SoundInv`. From it:

- `StaysInSync`: `Spec => []InSync`, however a word ended.
- `WritesTarget`: `OnlyTarget`, if all blocks are below 32768 (`Numbered`): above, the
  doubled number wraps and the sectors are those of another block (section 6).
- `FailsOnlyStarting`: `NoErrorUp`. Each answer comes within the wait, each CRC is
  right, each write is accepted; `SDC$` fails on a card that is already up.
- `MovesBlocks`: `Spec => [](glitches = 0 => Moved)`, for files whose sectors a word can
  number.

On any line, whatever was damaged:

- `TypesHold`, `Types`: `Spec => []TypedInv`, `Spec => []TypeOK`. Driver and card may be
  out of step in any way, so nothing is known of one from the other. What holds is
  that an exchange with a byte keeps each part of the card in its range (`SpixTyped`,
  case by case as above), so every run of them does (`SendsTyped`, `WaitTyped`): the card never
  leaves the sector it reads or writes, nor takes more than a command's six bytes.
  `Seq(Byte)` of what is sent and what is waiting to be sent is what makes it inductive:
  `TypeOK` does not say it, and without it a response could be no byte.
- `CrcsTellSame`: `Spec => []CrcsAgree`. The lemma under it, `FourSame`, has no card in it:
  for any run of bytes the four CRCs are equal, `csum.c`'s after its mask.
  `FromBits`, which `Xor` is made of, is a sum of powers that the bits of a number
  determine (`BitsBuilt`, `SameBits`, `XorBits`). A round of each loop shifts and
  taps bits 0, 5 and 12 when the highest went out (`ShiftBits`, `Z80Shifts`,
  `CsumShifts`); after k rounds each bit of the CRC is the exclusive or (`Odd`) of the
  bit k below it and of three bits of `x`, the byte folded into itself that the card's
  formula begins with (`After`, `Feeding`), and after eight rounds that formula's
  own bits (`CardBits`, `CardSame`).
  `csum.c` never clears what goes out above; no later round looks at it (`CsumRounds`).
  Then the bytes, by the least place where two such runs differ (`ThreeSame`,
  `CsumCounts`).
- `FindsDamage`: `Spec => DamageFound`. A round loses nothing, for the bit that goes
  out above comes in below (`ShiftOne`), so a CRC and the next byte each decide
  the other given the result (`ForthOne`, `ByteOne`): once two runs of bytes differ
  in one place, their CRCs differ from there to the end (`OneByteTold`), for sectors of
  any size. From `SoundInv` the sector comes as the card holds it, with its CRC; with
  one byte other, of the data or of the CRC, it is not good (`DamagedIsBad`). Damage in
  a wait is followed through: a `$ff` that came as something else ends the wait with
  that for the answer; an answer that came as `$ff` has the wait go on into silence, or,
  for the token, into the sector, of which no byte within the tries is `Token` unless
  `TokenBehind` holds. So the word fails in that step whatever comes behind.

**XMODEM** (`XmodemProofs`), for packets, blocks and data of any size.

- `Invariance`, `Types`: whatever number of bytes the line damages, loses or makes
  up. The point of `TypeOK` is that the receiver writes no further than what was to
  be sent, which no counter of its own tells it: `Conserved` counts bytes, those
  taken and those on the line being no more than those sent and one that was there
  before; and a packet is longer than that one.
- `Kept`: `Spec => TakenStays`, also for any faults. The arithmetic of places (`Split`,
  `BlockBelow`, `PlaceBelow`) shows that a packet's bytes and a saved block touch
  only places from the current one on, and that saving a full buffer moves each of
  its packets to the place it is counted at.
- `Arrives`: `Spec => []Whole`. On a sound line the two machines are in one of nine
  phases (`Phase`: the receiver calls, a packet is on the line, is being taken, has
  been answered, ...), each of which says where both are and what is on the line
  both ways; `Held` says that the packets taken are in the buffer or on the medium.

**The interpreter's input** (`InterpProofs`), for lines and blocks of any size, any
text in them and any words that are not found. `OneSource` alone is not inductive:
`LOAD`'s loop looks at `IN(` after a word has run, but `LN<` moves it whenever a
line ends, in a comment also. What keeps `LN<` from going past the line after the
buffer is that the word there is `\S` and that it is run, not skipped: `Loading`
says so, and that an open comment has its `)` still ahead in the block; `Typing` and
`Loads` say which line and which loop there are when the keyboard is read, and
`Bounds` keeps `IN>` in its line.

- `Types`: `IN(` and `IN>` stay in the buffer, in the line `BLK$` laid after it, or
  in `INBUF`. `Together`: `Spec => []OneSource`.

**The editors** (`EditorProofs`), for lines and blocks of any size, any keys, texts and
numbers. The memory is moved a byte at a time, by words that read what they may have
written just before. `Forward` and `Backward` say when `MOVE` and `MOVE-` do what one
copy of the run would: when they start from the right end. (Their loops are
recursive functions: the closed form of every prefix satisfies the recursion, and
two solutions agree by the least place where they do not.)

- `CutsUndone`: `Spec => []CutPaste`. `_del` closes the line over what it cuts, whose
  place at the end is filled; `_I` opens it again (`Reopened`), within `_rbufsz`,
  which lies in the block since a line does (`LineOf`).
- `StaysInside`: `Spec => Strays`. Every word and key leaves the cells after the block
  as they were and the cursor in it (`EachStays`): the line-by-line move of `_U` and
  `insl` too (`DownKeeps`), and `w W b L F n N`, whose searches pass the end or the
  start of the block but stop where `pos!` clamps, or not at all (`SearchUp`,
  `SearchDown`).
- `Invariance`: the little that these need to hold in every state: memory, buffers
  and marks are what the words take them for, also after the cursor has strayed.

### Only model-checked

Liveness (`ReturnedIfTyping` and the two it is a repair of, `Ends` of `Xmodem`, `Ready`) and `ENABLED` are out of
the prover's reach. Of the SD card, `Moved` after a damaged byte is checked on
contents that make trouble: the word the byte belongs to is covered by
`FindsDamage` (but for `TokenBehind`), but it may leave the card in the middle of a transfer, and what a
later word then takes for a sector is rejected unless its bytes fit a CRC by chance. `Delivered` of `Xmodem` is true of one fault for what a CRC catches
too, and checked likewise. `Native` and the
modules under it use recursive operators, with which the prover's arithmetic
backend is lost; their point is also the comparison of large finite tables of
code, which is TLC's work. `StreamSpec` of `Interp` compares two recursive functions
over the rest of the text, and `PagesSpec` of `Editor` several for each command:
these inductions over data are for TLC. (A fixed recursive function can be handled
by the least number at which a claim about it fails, as `MspanProofs` and
`SdCardProofs` do; the library's induction theorems, which take an operator, cannot
be used.)

The models of the three processors were read off the emulators' code, and besides
compared with the emulators, compiled, on thousands of random instructions from
random states; no difference in registers, flags or memory was left.

## 6. Other divergences seen

- After a NACK, `_mem>tx` leaves its loop. `MEM>TX` then sends EOT as if all had
  gone, and `BLK>TX` goes on with the next block, whose data the receiver puts
  right after the refused packet. `Delivered` says what survives of
  `doc/rxtx.txt:69` ("reliable"); line 90 calls the implementation "a bit
  fragile".
- A packet's first byte that is not SOH is acknowledged as an EOT and ends the
  receiver (`blk.fs:136`). A lost byte leaves both machines waiting.
- `RX>BLK` does not flush the buffer it overwrites, and after it `BLK>` names a
  block that was never read.
- A count of zero (`MEM>TX` of 0 bytes, `BLK>TX` of equal bounds) loops 65536
  times.
- A word in a loaded block that fetches another block changes the text being
  interpreted, while `doc/blk.txt:34` says LOAD runs it "as if you typed it". An
  unclosed comment or `[IF]` skips `\S` and reads past the buffer. `\S` typed at
  the prompt moves `IN(` to the end of the block buffer.
- The `TO?` flag survives errors (`doc/usage.txt:291-297` warns of its scope).
- After a damaged byte, a later `SDC!` may find the card in the middle of another
  command; `OnlyTarget` and `InSync` are about a sound line. Blocks from 32768 on
  reach the sectors of block 0 (`blk.fs:1110`, 1122).
- MSPAN sends blocks that are negative as 16-bit numbers to disk 0, where
  `doc/mspan.txt:36-38` says the last disk.
- `(ps2kc)` of the Dan SBC waits, where `doc/ps2.txt:7-8` says it returns 0 "if
  nothing was typed".
- On a wrong parity the jump of `arch/z80/blk.fs:1029` is not resolved, since the
  next `TO L1` replaces it: a damaged byte is stored.

Keyboard:

- A scroll key of the Dan SBC is dropped by `(ps2kc)` (`arch/z80/blk.fs:1059`) even
  when `(key?)` waits for the code after `$f0`. `(key?)` then takes the next press
  for the key let go, and that press is lost (`blk.fs:987`).
- Frames are told apart by counting edges alone, and a full ring may drop `$f0` and
  keep the code after it.

Editors, against `doc/ed.txt`:

- What the properties of `EdText` say (section 3). Besides: on the last line `P` and `U` in
  mid-line write over the marker, `BLK>` and `BLKDTY`; `R` checks neither end of the
  buffer (`blk.fs:332-335`). `Strays` names exactly these.
- The document's list of commands (`doc/ed.txt:71`) has `P` put its text on the
  selected line, as the code does at the start of a line; its prose says insert.
- With no match `N` stays in the last block with the cursor at 0.
- `T` and `R`, like `n` and `N`, move the cursor without noting where it was.
- A buffer in which nothing was typed yet pads with NUL characters, which `P` puts
  in the block. `[` at block 0 selects block -1.

Words that differ between ports, or from what is written of them:

- `MOVE` of 0 bytes leaves its source and destination on the stack on the CVM and
  the 8086 (`blk.fs:640-641`; section 3). `ED`'s `I` with an
  empty `IBUF` (`blk.fs:225`) and `MOVE,` can ask for it.
- `[]=` of 0 bytes: the Z80 compares up to 65536 of them, the 8086 tests a flag left
  from before; the Forth form (`blk.fs:652`) says equal.
- `SCNT` and `RCNT` count cells on the CVM, where `doc/dict.txt:168-169` says bytes.
- `PARSE` of a lone `$` loops up to 65536 bytes.
- The TI-84's boot code is jumped to at `$5a` (`arch/z80/ti84/xcomp.fs:14`), but the
  bytes before it put it at `$58`.

Emulators, against the processors they stand for:

- Z80: DAA's half carry ignores the incoming carry, so that after ADC digits that sum
  to 15 and a carry come out wrong; 16-bit ADC and SBC lose a carry when operand and
  carry wrap; `IN F,(C)` overwrites the flags; CPI takes F5 from the wrong bit;
  RRD leaves F5 and F3; a second interrupt before the first is taken is
  merged with it; `rc2014.c`'s vector 0 is a NOP in mode 0.
- 8086: SBB's carry is wrong when operand and carry wrap; the first part of DAA
  clears the carry (99 + 99); XCHG of a register with memory addressed by it writes
  elsewhere; BOUND's macro binds the wrong way; IDIV of a byte does not extend its
  divisor, and IDIV's remainder may have the wrong sign; INS writes to
  SI; PUSH of a byte is not sign-extended; segment registers from 4 on are out of
  bounds; ENTER's nesting and IMUL's carry differ.
- CVM: a block command that is cut short leaves `iowr_blk`'s four bytes out of step
  for good; a transfer to the top of memory and a cell at $ffff go past the array;
  division by 0 and the unassigned opcodes end the program.
- `emul/z80/forth.c` has the block port of the CVM with a command of another length.

Host tools: `blkup.c:71` names a block past the one it flushed; `blksrv.c:36` polls
for good on a line that is gone.

## 7. Not modelled

- **Block server and client**: straight-line code over a line without timeouts;
  what can go wrong on the line is in `Xmodem`, what a failing driver does in `Blk`.
- **Dictionary and compiler** (partly): `FIND`, entries, immediate words, and what the
  compiling words lay are in `CoreForth` and run in `Native`. `FORGET`, contexts and
  `TO?` across an error are not: `Interp` keeps no dictionary, since its words are
  what they do.
- **RX/TX redirection, remote shell, `rupload`, serial drivers and UARTs**: a vector
  stored in another, and a status bit polled.
- **Grid, pager, memory editor, word tables**: screen output over words that are
  modelled.
- **TRS-80 floppy and keyboard, AT28**: timing of a controller; one cell shared
  with an interrupt, where `Psk` has the general case; a poll loop.
- **Assemblers, AVR programmer, fonts, Sega signer**: tables of encodings.
  `NativeCode` holds the bytes for the words that are modelled.
- **6502, 6809 and AVR ports**: nothing in the repository says what their
  processors do.
- **Boards of the emulators** (video, pads, key matrices), **host filters**, and
  the **old copies** of `blk.fs`.
- Of the emulators: T-states, disassemblers, and the hooks for screen and keyboard.
- Of the ports: `QUIT`, `ABORT`, `RCNT`, `SCNT`, `TICKS`, `PC!`, drivers, start-up code.

## 8. What is left to prove

- `Moved` of `SdCard` in the words after one with a damaged byte, for contents whose
  runs no CRC fits by chance.
- `Delivered` of `Xmodem` for one fault, from an assumption on what the CRC catches.
