----------------------------- MODULE MCXmodem -----------------------------
(* Packets of two bytes, two to a block, two blocks.  The data holds every *)
(* byte the protocol gives a meaning.                                      *)
EXTENDS Xmodem

Crc == INSTANCE Crc16

MCSource == << <<1, 4>>, <<6, 21>>, <<67, 1>>, <<4, 6>> >>
MCOld == <<0, 0>>

\* Bytes that may come where the receiver expects data: those of packets and
\* their CRCs, their numbers, and what the line puts in.
Seen == LET crc(p) == Crc!Crc(Crc!ForthCRC16, p)
        IN  UNION {{p[1], p[2], Crc!High(crc(p)), Crc!Low(crc(p))} : p \in Range(MCSource)}
              \cup 1..4 \cup 251..254 \cup {0, 6, 21, 67}
Checksums == {<<p, Crc!Crc(Crc!ForthCRC16, p)>> : p \in Seen \X Seen}
MCCRC16(data) == (CHOOSE c \in Checksums : c[1] = data)[2]
=============================================================================
