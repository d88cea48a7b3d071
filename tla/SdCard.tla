------------------------------- MODULE SdCard -------------------------------
(***************************************************************************)
(* The SD card subsystem (blk.fs B250-258, doc/hw/sdcard.txt) and the card *)
(* emul/z80/sdc.c emulates, joined by (spix): each exchange sends the card *)
(* a byte and brings one back.  Driver and card take turns, so a step here *)
(* is a run of exchanges: a command with the wait for its response, or the *)
(* data of a sector.  Either side can be left in the middle of something   *)
(* when a word gives up with SDerr.                                        *)
(*                                                                         *)
(* With a positive Glitches, in that many steps a byte the driver looks at *)
(* comes back damaged, any one of them: a $ff or the answer of a wait, a   *)
(* byte behind the answer, a byte of a sector or of its CRC.  A wait whose *)
(* answer comes as $ff goes on, and takes what is behind it for the answer.*)
(***************************************************************************)
EXTENDS Crc16, SequencesExt

CONSTANTS
  Blocks,    \* block numbers SDC@ and SDC! are called with
  Sectors,   \* sectors of the card's file
  Len512,    \* bytes of a sector; 512 in the code
  Tries,     \* exchanges of _wait; 20 in the code
  Resets,    \* times SDC$ sends CMD0; 10 in the code
  Wakes,     \* exchanges that wake the card up; 8 in the code
  Patterns,  \* what a sector may hold
  Damaged,   \* what a damaged byte may read as
  Glitches   \* steps in which a byte is damaged, at most

ASSUME BoundsAssumption ==
  /\ {Len512, Tries, Resets, Wakes} \subseteq Nat \ {0} /\ Wakes <= Tries /\ Tries <= Len512
  /\ Blocks \subseteq Word /\ Glitches \in Nat
ASSUME BytesAssumption ==
  Patterns \subseteq [1..Len512 -> Byte] /\ Damaged \subseteq Byte

Idle == 255
Token == 254

VARIABLES
  op,        \* the word that runs: "none", "SDC$", "SDC@", "SDC!"
  pc,        \* its next command, or "data"
  resets,    \* CMD0 still to try
  blkno, half,
  buf,       \* the two halves of the block buffer
  SDC_SDHC,
  err,       \* the last word ended with SDerr
  started,   \* SDC$ has succeeded, which doc/hw/sdcard.txt asks for first
  card,      \* the card: see CardInit
  file,      \* its contents
  glitches   \* steps so far that a damaged byte has changed

vars == <<op, pc, resets, blkno, half, buf, SDC_SDHC, err, started, card, file, glitches>>

-----------------------------------------------------------------------------
(* The card.  A state s of an exchange is the card, the file and the bytes *)
(* the driver got.                                                         *)

Woken == Wakes          \* the first initstat that takes commands
Up == Wakes + 4         \* initialized

CardInit == [initstat |-> 0, recv |-> <<>>, send |-> <<>>,
             cmd17 |-> -1, cmd24 |-> -2, at |-> 0, crc |-> 0]

Answers(c, bytes) == [c EXCEPT !.recv = <<>>, !.send = bytes]

CommandUp(c, op6, arg) ==
  CASE op6 = 17 -> [Answers(c, <<0, Token>>) EXCEPT !.at = arg, !.cmd17 = 0, !.crc = 0]
    [] op6 = 24 -> [Answers(c, <<0>>) EXCEPT !.at = arg, !.cmd24 = -1, !.crc = 0]
    [] OTHER -> Answers(c, <<0>>)

\* A complete command f; the initialization wants its commands in order.
Command(c, f) ==
  LET op6  == f[1] % 64
      arg1 == 256 * f[2] + f[3]
      arg2 == 256 * f[4] + f[5]
      Wants(cond, bytes) ==
        IF cond THEN [Answers(c, bytes) EXCEPT !.initstat = @ + 1]
                ELSE [Answers(c, <<>>) EXCEPT !.initstat = Woken]
  IN CASE c.initstat = Woken     -> Wants(op6 = 0, <<1>>)
       [] c.initstat = Woken + 1 -> Wants(op6 = 8 /\ arg2 = 426, <<1, 0, 0, 1, 170>>)
       [] c.initstat = Woken + 2 -> Wants(op6 = 55, <<1>>)
       [] c.initstat = Woken + 3 -> Wants(op6 = 41 /\ arg1 = 16384, <<0>>)
       [] c.initstat = Up        -> CommandUp(c, op6, arg2)

\* getc and putc; past the file's end nothing is read, and what is put there
\* stays out of the model.
Getc(s) == IF s.card.at \in Sectors THEN s.file[s.card.at][s.card.cmd17 + 1] ELSE Idle
Putc(s, v) == IF s.card.at \in Sectors /\ s.card.cmd24 < Len512
                THEN [s.file EXCEPT ![s.card.at][s.card.cmd24 + 1] = v] ELSE s.file

Reading(c, byte) ==
  LET k == CardCrc16(c.crc, byte)
  IN  IF c.cmd17 + 1 = Len512
        THEN [c EXCEPT !.cmd17 = -1, !.send = <<High(k), Low(k)>>]
        ELSE [c EXCEPT !.crc = k, !.cmd17 = @ + 1]

\* Mutant of Writing: after its answer the card waits for a token again.
WritingAgain(c, v) ==
  CASE c.cmd24 = -1         -> [c EXCEPT !.cmd24 = CASE v = Idle  -> -1
                                                     [] v = Token -> 0
                                                     [] OTHER     -> -2]
    [] c.cmd24 \in 0..Len512 -> [c EXCEPT !.cmd24 = @ + 1]
    [] c.cmd24 = Len512 + 1 -> [c EXCEPT !.cmd24 = -1, !.send = <<5>>]

\* After the data come the two bytes of the CRC, which are not minded, and the
\* answer to them.
Writing(c, v) ==
  CASE c.cmd24 = -1         -> [c EXCEPT !.cmd24 = CASE v = Idle  -> -1
                                                     [] v = Token -> 0
                                                     [] OTHER     -> -2]
    [] c.cmd24 \in 0..Len512 -> [c EXCEPT !.cmd24 = @ + 1]
    [] c.cmd24 = Len512 + 1 -> [c EXCEPT !.cmd24 = -2, !.send = <<5>>]

\* One exchange: sdc_spix(v).
Spix(s, v) ==
  LET c == s.card
      Gives(r, d) == [s EXCEPT !.got = Append(@, r), !.card = d]
  IN  IF c.initstat < Woken THEN Gives(Idle, [c EXCEPT !.initstat = @ + 1])
      ELSE IF c.send # <<>> THEN Gives(Head(c.send), [c EXCEPT !.send = Tail(@)])
      ELSE IF c.cmd17 >= 0 THEN Gives(Getc(s), Reading(c, Getc(s)))
      ELSE IF c.cmd24 >= -1 THEN
        [Gives(Idle, Writing(c, v)) EXCEPT !.file = IF c.cmd24 >= 0 THEN Putc(s, v) ELSE @]
      ELSE IF c.recv = <<>> /\ v \notin 64..127 THEN Gives(Idle, c)
      ELSE IF Len(c.recv) < 5 THEN Gives(Idle, [c EXCEPT !.recv = Append(@, v)])
      ELSE Gives(Idle, Command(c, Append(c.recv, v)))

-----------------------------------------------------------------------------
(* The driver's exchanges.                                                 *)

Now == [card |-> card, file |-> file, got |-> <<>>]
Sends(s, bytes) ==
  LET run[i \in 0..Len(bytes)] ==
        IF i = 0 THEN [s EXCEPT !.got = <<>>] ELSE Spix(run[i - 1], bytes[i])
  IN  run[Len(bytes)]
Idles(s, k) == Sends(s, [i \in 1..k |-> Idle])

\* A byte damaged on the line: the nth that is looked at in that part of a step
\* comes as another.
LookedBehind == IF pc = "data" THEN Len512 + 2 ELSE 4
None == [part |-> "none", nth |-> 0, as |-> Idle]
Hits == {None} \cup
  (IF glitches < Glitches
     THEN [part : {"before", "wait"}, nth : 1..Tries, as : Damaged]
            \cup [part : {"behind"}, nth : 1..LookedBehind, as : Damaged]
     ELSE {})
Hit(s, i, hit) == IF i \in DOMAIN s.got THEN [s EXCEPT !.got[i] = hit.as] ELSE s

\* _wait: until a byte is not $ff, for so many tries.
wait(s, part, hit) ==
  LET On(t, i) ==
        IF t.got # <<>> /\ Last(t.got) # Idle THEN t
        ELSE IF hit.part = part /\ hit.nth = i THEN Hit(Spix(t, Idle), i, hit)
        ELSE Spix(t, Idle)
      run[i \in 0..Tries] ==
        IF i = 0 THEN [s EXCEPT !.got = <<>>] ELSE On(run[i - 1], i)
  IN  run[Tries]

Crc7Round(c) == IF 2 * c >= 256 THEN Xor((2 * c) % 256, 18, 8) ELSE 2 * c
crc7(c, b) == Rounds(Crc7Round, Xor(b, c, 8))

CRC16(data) == Crc(ForthCRC16, data)

\* The frame of a command: its arguments and their CRC with a stop bit.
Frame(c, a1, a2) ==
  LET f == <<c, High(a1), Low(a1), High(a2), Low(a2)>>
  IN  Append(f, 2 * (Crc(crc7, f) \div 2) + 1)

\* _cmd leaves the response last among what was got.
cmd(c, a1, a2, hit) == wait(Sends(wait(Now, "before", hit), Frame(c, a1, a2)), "wait", hit)

\* So many bytes behind.
Behind(s, k, hit) ==
  IF hit.part = "behind" THEN Hit(Idles(s, k), hit.nth, hit) ELSE Idles(s, k)

\* SDCMDR7 reads four bytes behind the response.
R7(c, a1, a2, hit) ==
  LET s == cmd(c, a1, a2, hit)
      t == Behind(s, 4, hit)
  IN  [t EXCEPT !.got = <<Last(s.got)>> \o @]

\* _badj: a card that is not SDHC addresses bytes.
badj(k) == IF SDC_SDHC THEN <<0, k>> ELSE <<k \div 128, (512 * k) % 65536>>

\* Mutant of Sector: the block number is not doubled.
SectorSingle(b, h) == (b + h - 1) % 65536

\* SWAP << and, for the second half, 1+.
Sector(b, h) == (((2 * b) % 65536) + h - 1) % 65536

Address == badj(Sector(blkno, half))

-----------------------------------------------------------------------------
(* The words.                                                              *)

Calls(word, first) == op = "none" /\ op' = word /\ pc' = first /\ err' = FALSE
NoSpix == UNCHANGED <<card, file, glitches>>

\* The ten exchanges SDC$ starts with come before (spie): the RC2014's SPI relay
\* keeps them from the card (emul/z80/rc2014_spi.c:18-23).
SDCinit ==                                                          \* SDC$
  /\ Calls("SDC$", "cmd0")
  /\ resets' = Resets
  /\ NoSpix /\ UNCHANGED <<blkno, half, buf, SDC_SDHC, started>>

SDCfetch(b) ==                                                      \* SDC@
  /\ started /\ Calls("SDC@", "read")
  /\ blkno' = b /\ half' = 1
  /\ NoSpix /\ UNCHANGED <<resets, buf, SDC_SDHC, started>>

SDCstore(b, p1, p2) ==                                              \* SDC!
  /\ started /\ Calls("SDC!", "write")
  /\ blkno' = b /\ half' = 1 /\ buf' = <<p1, p2>>
  /\ NoSpix /\ UNCHANGED <<resets, SDC_SDHC, started>>

Goes(p) == pc' = p /\ UNCHANGED <<op, err>>
Ends(e) == op' = "none" /\ pc' = "none" /\ err' = e
Fail == Ends(TRUE)                                                  \* _err

\* A run of exchanges, a byte of it damaged or none, and what the driver makes of
\* the bytes it got.  Damage that changes nothing for either side counts for none.
Takes(s) == card' = s.card /\ file' = s.file
Counts(s, t) == glitches' = glitches + (IF s = t THEN 0 ELSE 1)
Runs(Run(_), Then(_)) ==
  LET sound == Run(None)
  IN  \E hit \in Hits :
        LET s == Run(hit)
        IN  Takes(s) /\ Counts(s, sound) /\ Then(s.got)

Reset ==
  /\ pc = "cmd0"
  /\ Runs(LAMBDA hit : cmd(64, 0, 0, hit), LAMBDA got :
       \/ Last(got) = 1 /\ Goes("cmd8") /\ UNCHANGED resets
       \/ Last(got) # 1 /\ resets > 1 /\ resets' = resets - 1 /\ UNCHANGED <<op, pc, err>>
       \/ Last(got) # 1 /\ resets = 1 /\ Fail /\ UNCHANGED resets)
  /\ UNCHANGED <<blkno, half, buf, SDC_SDHC, started>>

CheckVoltage ==
  /\ pc = "cmd8"
  /\ Runs(LAMBDA hit : R7(72, 0, 426, hit), LAMBDA got :
       IF got = <<1, 0, 0, 1, 170>> THEN Goes("cmd55") ELSE Fail)
  /\ UNCHANGED <<resets, blkno, half, buf, SDC_SDHC, started>>

AppCommand ==
  /\ pc = "cmd55"
  /\ Runs(LAMBDA hit : cmd(119, 0, 0, hit), LAMBDA got :
       IF Last(got) = 1 THEN Goes("cmd41") ELSE Fail)
  /\ UNCHANGED <<resets, blkno, half, buf, SDC_SDHC, started>>

LeaveIdle ==
  /\ pc = "cmd41"
  /\ Runs(LAMBDA hit : cmd(105, 16384, 0, hit), LAMBDA got :
       CASE Last(got) = 0 -> Goes("cmd58") [] Last(got) = 1 -> Goes("cmd55") [] OTHER -> Fail)
  /\ UNCHANGED <<resets, blkno, half, buf, SDC_SDHC, started>>

rdsdhc ==
  /\ pc = "cmd58"
  /\ Runs(LAMBDA hit : R7(122, 0, 0, hit), LAMBDA got :
       Ends(FALSE) /\ SDC_SDHC' = ((got[2] \div 64) % 2 = 1))
  /\ started' = TRUE
  /\ UNCHANGED <<resets, blkno, half, buf>>

\* The second half after the first, then the word is over.
NextHalf(p) == IF half = 1 THEN half' = 2 /\ Goes(p) ELSE Ends(FALSE) /\ UNCHANGED half

ReadCommand ==
  /\ pc = "read"
  /\ Runs(LAMBDA hit : cmd(81, Address[1], Address[2], hit), LAMBDA got :
       IF Last(got) = 0 THEN Goes("token") ELSE Fail)
  /\ UNCHANGED <<resets, blkno, half, buf, SDC_SDHC, started>>

WaitToken ==
  /\ pc = "token"
  /\ Runs(LAMBDA hit : wait(Now, "wait", hit), LAMBDA got :
       IF Last(got) = Token THEN Goes("data") ELSE Fail)
  /\ UNCHANGED <<resets, blkno, half, buf, SDC_SDHC, started>>

\* Mutant of Good: only the CRC's low byte is compared.
GoodLow(got) == Low(CRC16(SubSeq(got, 1, Len512))) = got[Len512 + 2]

\* Mutant of Good: the CRC is read and not compared.
GoodAlways(got) == TRUE

Good(got) == CRC16(SubSeq(got, 1, Len512)) = 256 * got[Len512 + 1] + got[Len512 + 2]

\* The data and their CRC, and a wait of which nothing is kept.
SectorData(hit) ==
  LET s == Behind(Now, Len512 + 2, hit)
  IN  [wait(s, "wait", hit) EXCEPT !.got = s.got]

ReadData ==
  /\ pc = "data"
  /\ Runs(SectorData, LAMBDA got :
       /\ buf' = [buf EXCEPT ![half] = SubSeq(got, 1, Len512)]
       /\ IF Good(got) THEN NextHalf("read") ELSE Fail /\ UNCHANGED half)
  /\ UNCHANGED <<resets, blkno, SDC_SDHC, started>>

WriteCommand ==
  /\ pc = "write"
  /\ Runs(LAMBDA hit : cmd(88, Address[1], Address[2], hit), LAMBDA got :
       IF Last(got) = 0 THEN Goes("wdata") ELSE Fail)
  /\ UNCHANGED <<resets, blkno, half, buf, SDC_SDHC, started>>

\* Mutant of Packet: no exchange of nothing and no token come first.
PacketBare(data) ==
  LET k == CRC16(data) IN data \o <<High(k), Low(k)>>

Packet(data) ==
  LET k == CRC16(data) IN <<Idle, Token>> \o data \o <<High(k), Low(k)>>

WriteData ==
  /\ pc = "wdata"
  /\ Runs(LAMBDA hit : wait(Sends(Now, Packet(buf[half])), "wait", hit), LAMBDA got :
       IF Last(got) % 32 = 5 THEN Goes("busy") ELSE Fail)
  /\ UNCHANGED <<resets, blkno, half, buf, SDC_SDHC, started>>

\* _ready: exchanges until the card is silent.
Busy ==
  /\ pc = "busy"
  /\ Runs(LAMBDA hit : Behind(Now, 1, hit), LAMBDA got :
       IF Last(got) = Idle THEN NextHalf("write") ELSE UNCHANGED <<op, pc, err, half>>)
  /\ UNCHANGED <<resets, blkno, buf, SDC_SDHC, started>>

Init ==
  /\ op = "none" /\ pc = "none" /\ err = FALSE
  /\ resets = 1
  /\ blkno = 0 /\ half = 1
  /\ buf \in {<<p, p>> : p \in Patterns}
  /\ SDC_SDHC \in BOOLEAN                       \* what the memory held
  /\ started = FALSE
  /\ card = CardInit
  /\ file \in [Sectors -> Patterns]
  /\ glitches = 0

Starting == Reset \/ CheckVoltage \/ AppCommand \/ LeaveIdle \/ rdsdhc
Fetching == ReadCommand \/ WaitToken \/ ReadData
Storing  == WriteCommand \/ WriteData \/ Busy
Working  == Starting \/ Fetching \/ Storing

Next ==
  \/ SDCinit
  \/ \E b \in Blocks : SDCfetch(b)
  \/ \E b \in Blocks, p1, p2 \in Patterns : SDCstore(b, p1, p2)
  \/ Working

Spec == Init /\ [][Next]_vars

-----------------------------------------------------------------------------
(* Properties.                                                             *)

TypeOK ==
  /\ op \in {"none", "SDC$", "SDC@", "SDC!"}
  /\ (op = "none") = (pc = "none")
  /\ resets \in 0..Resets
  /\ half \in 1..2
  /\ buf \in [1..2 -> [1..Len512 -> Byte]]
  /\ card.initstat \in 0..Up /\ Len(card.recv) < 6
  /\ card.cmd17 \in -1..(Len512 - 1) /\ card.cmd24 \in -2..(Len512 + 1)
  /\ file \in [Sectors -> [1..Len512 -> Byte]]

InFile(b) == {2 * b, 2 * b + 1} \subseteq Sectors

Same == buf[1] = file[2 * blkno] /\ buf[2] = file[2 * blkno + 1]

\* A transfer that ends without SDerr has moved the block, if SDC$ has found the
\* card to be SDHC, which it is: the buffer and the two sectors of the card hold
\* the same, whatever byte was damaged in whatever step.  Where a missed token put
\* the driver out of step with the sector, only a chance match of the CRC with two
\* bytes of it could say otherwise; what a run's sectors hold gives none.
Moved == op = "none" /\ ~err /\ half = 2 /\ InFile(blkno) /\ SDC_SDHC => Same

\* The same wherever SDC$ has ended without SDerr, after which one "can read/write
\* right now" (doc/hw/sdcard.txt:23-25).
MovedOnceStarted == op = "none" /\ ~err /\ half = 2 /\ InFile(blkno) /\ started => Same

\* On a sound line only SDC! changes the card, and only in the sectors of its
\* block.
OnlyTarget ==
  [][ \A k \in Sectors : file'[k] # file[k] /\ glitches' = 0
        => op = "SDC!" /\ k \in {2 * blkno, 2 * blkno + 1} ]_vars

\* On a sound line the card waits for a command between words: no word leaves
\* it in the middle of one, whatever comes next.
InSync ==
  op = "none" /\ glitches = 0
    => /\ card.recv = <<>> /\ card.send = <<>>
       /\ card.cmd17 = -1 /\ card.cmd24 = -2

\* On a sound line an initialized card does not fail a transfer.
NoErrorUp == [][ card.initstat = Up /\ err' /\ ~err /\ glitches' = 0 => op = "SDC$" ]_vars

\* A token that came as $ff may have one of the data behind it taken for a token.
TokenBehind ==
  pc = "token" /\ card.at \in Sectors /\ \E i \in 1..(Tries - 1) : file[card.at][i] = Token

\* The first byte that comes damaged in SDC@ ends it with SDerr in that very step,
\* be it of an answer, of the data or of their CRC, or the token, if no other
\* follows it within the wait.
DamageFound ==
  [][ op = "SDC@" /\ glitches = 0 /\ glitches' # 0 => err' \/ TokenBehind ]_vars

\* Whatever a transfer leaves in the buffer, the portable CRC16, the Z80's, the
\* card's and the host tool's tell the same of it.
CrcsAgree ==
  op = "none" =>
    \A h \in 1..2 : LET crc == CRC16(buf[h])
                     IN  /\ crc = Crc(Z80CRC16, buf[h])
                         /\ crc = Crc(CardCrc16, buf[h])
                         /\ crc = Crc(CsumCrc16, buf[h]) % 65536
=============================================================================
