------------------------------- MODULE Crc16 -------------------------------
(***************************************************************************)
(* The 16-bit CRC of polynomial $1021 that protects SD card sectors and    *)
(* XMODEM packets, as each place computes it: the portable Forth word, the *)
(* Z80 one, the emulated SD card and the host tool tools/csum.c.           *)
(***************************************************************************)
EXTENDS Words, Sequences

Low(n) == n % 256
High(n) == n \div 256
Top(n) == n >= 32768                   \* 0<, or the carry of a shift left

\* A loop of eight rounds.
Rounds(Round(_), c) ==
  LET r[i \in 0..8] == IF i = 0 THEN c ELSE Round(r[i - 1]) IN r[8]

\* << $1021 XOR, with the bit shifted out deciding.
Shift(c) == IF Top(c) THEN Xor((2 * c) % 65536, 4129, 16) ELSE (2 * c) % 65536

\* <<8 XOR, then eight rounds.
ForthCRC16(c, n) == Rounds(Shift, Xor((n * 256) % 65536, c, 16))

\* Mutant of Z80Round: the polynomial's low byte is left out.
Z80RoundHigh(de) ==
  LET e == (2 * Low(de)) % 256
      d == ((2 * High(de)) % 256) + (IF Low(de) >= 128 THEN 1 ELSE 0)
  IN  IF High(de) >= 128 THEN Xor(d % 256, 16, 8) * 256 + e ELSE (d % 256) * 256 + e

\* E SLA, D RL,: the carry of E goes into D, that of D chooses.
Z80Round(de) ==
  LET e == (2 * Low(de)) % 256
      d == ((2 * High(de)) % 256) + (IF Low(de) >= 128 THEN 1 ELSE 0)
  IN  IF High(de) >= 128 THEN Xor(d, 16, 8) * 256 + Xor(e, 33, 8) ELSE d * 256 + e

Z80CRC16(c, n) == Rounds(Z80Round, Xor(n, High(c), 8) * 256 + Low(c))

\* sdc.c's byte-wise formula; x is a uint8_t.
CardCrc16(crc, data) ==
  LET y == Xor(High(crc), data, 8)
      x == Xor(y, y \div 16, 8)
  IN  Xor(Xor(Xor((crc * 256) % 65536, (x * 4096) % 65536, 16), x * 32, 16), x, 16)

\* csum.c keeps crc16 in an unsigned int and masks it when it prints; of the
\* bits above the sixteenth, which no test looks at, two are kept here.
CsumRound(c) ==
  IF (c \div 32768) % 2 = 1 THEN Xor((2 * c) % 262144, 4129, 18) ELSE (2 * c) % 262144
CsumCrc16(c, n) == Rounds(CsumRound, Xor(c, n * 256, 18))

\* The CRC of a run of bytes.
Crc(Step(_, _), data) ==
  LET crc[i \in 0..Len(data)] ==
        IF i = 0 THEN 0
        ELSE LET c == crc[i - 1] IN IF c \in Nat THEN Step(c, data[i]) ELSE 0
  IN  crc[Len(data)]
=============================================================================
