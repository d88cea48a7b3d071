------------------------------- MODULE Xmodem -------------------------------
(***************************************************************************)
(* XMODEM between two Collapse OS machines (blk.fs B013-015, doc/rxtx.txt):*)
(* MEM>TX or BLK>TX on one, RX>MEM or RX>BLK on the other, over a serial   *)
(* line whose UARTs hold the sender back when the receiver is busy.        *)
(* Nothing times out and nothing is sent again.  The line may damage, lose *)
(* or still hold a few bytes.                                              *)
(*                                                                         *)
(* Packets are told apart by their place in what is sent, 0 first; for     *)
(* BLK>TX, PerBlk of them make a block.                                    *)
(***************************************************************************)
EXTENDS Integers, Sequences, SequencesExt

CONSTANTS
  PktLen,    \* data bytes of a packet: 128
  PerBlk,    \* packets in a block: 8
  Source,    \* what the sender holds, packet after packet
  Old,       \* the packet that fills the receiver's memory and blocks at first
  CRC16(_),  \* checksum of the bytes of a packet
  Noise,     \* what a damaged or a stale byte may be
  Faults     \* how many bytes the line damages, loses or holds from before

Bytes == 0..255
ASSUME SizeAssumption == PktLen \in Nat \ {0} /\ PerBlk \in Nat \ {0}
ASSUME SourceAssumption ==
  /\ Len(Source) \in Nat \ {0} /\ Len(Source) % PerBlk = 0
  /\ \A p \in {Old} \cup {Source[i] : i \in 1..Len(Source)} :
       p \in [1..PktLen -> Bytes]
ASSUME CRCAssumption ==
  \A i \in 1..Len(Source) :
    \E high, low \in Bytes : CRC16(Source[i]) = high * 256 + low
ASSUME LineAssumption == Noise \subseteq Bytes /\ Faults \in Nat

SOH == 1
EOT == 4
ACK == 6
NACK == 21
C == 67

VARIABLES
  sends,     \* the sender's word
  total,     \* how many packets it is to send
  pkt,       \* the packet it is at
  spc,       \* "wait" in _waitC, "send", "ack" in _ack?, "last", "done", "abort"
  takes,     \* the receiver's word
  rpc,       \* "drain" in _<<s, "top" of the loop, "packet", "done"
  got,       \* bytes of the packet read so far, after its first
  a,         \* packets taken into memory, or into the block buffer
  mem,       \* memory from RX>MEM's address; the block buffer
  BLKat,     \* BLK>, counted from what it was at first
  blocks,    \* the receiver's blocks from there on
  tx, rx,    \* bytes on their way to the receiver, and back
  faults,
  spoiled,   \* a fault hit something else than a packet's data or CRC
  log        \* what the sender learnt: each packet it got an answer for

sender == <<sends, total, pkt, spc, log>>
receiver == <<takes, rpc, got, a, mem, BLKat, blocks>>
noise == <<faults, spoiled>>
vars == <<sender, receiver, tx, rx, noise>>

Packets == [1..PktLen -> Bytes]
Places == 0..(Len(Source) - 1)
ToBlocks == takes = "RX>BLK"
Room == IF ToBlocks THEN PerBlk ELSE Len(Source)

TypeOK ==
  /\ sends \in {"MEM>TX", "BLK>TX"} /\ takes \in {"RX>MEM", "RX>BLK"}
  /\ total \in 1..Len(Source) /\ pkt \in 0..total
  /\ spc \in {"wait", "send", "ack", "last", "done", "abort"}
  /\ rpc \in {"drain", "top", "packet", "done"}
  /\ got \in Seq(Bytes) /\ Len(got) < PktLen + 4
  /\ a \in 0..Room
  /\ mem \in [Places -> Packets] /\ blocks \in [Places -> Packets]
  /\ BLKat \in 0..(total \div PerBlk)
  /\ tx \in Seq(Bytes) /\ rx \in Seq(Bytes)
  /\ faults \in 0..Faults /\ spoiled \in BOOLEAN
  /\ log \in Seq([packet : Places, good : BOOLEAN])

\* Each line may hold a byte from before.
Stale == {<<>>} \cup {<<b>> : b \in Noise}

Init ==
  /\ sends \in {"MEM>TX", "BLK>TX"} /\ takes \in {"RX>MEM", "RX>BLK"}
  /\ total \in 1..Len(Source)
  /\ sends = "BLK>TX" => total % PerBlk = 0
  /\ pkt = 0 /\ spc = "wait" /\ log = <<>>
  /\ rpc = "drain" /\ got = <<>> /\ a = 0 /\ BLKat = 0
  /\ mem = [p \in Places |-> Old] /\ blocks = [p \in Places |-> Old]
  /\ tx \in Stale /\ rx \in Stale
  /\ faults = Len(tx) + Len(rx) /\ faults <= Faults
  /\ spoiled = (faults > 0)

-----------------------------------------------------------------------------
(* The sender.                                                             *)

\* _waitC; anything but a C is dropped.
waitC ==
  /\ spc = "wait" /\ rx # <<>>
  /\ spc' = IF Head(rx) = C THEN "send" ELSE "wait"
  /\ rx' = Tail(rx)
  /\ UNCHANGED <<sends, total, pkt, log, receiver, tx, noise>>

Checked(data) == data \o <<CRC16(data) \div 256, CRC16(data) % 256>>

\* The number of a packet is for other programs; RX>MEM and RX>BLK ignore it.
Frame(p) ==
  <<SOH, (p + 1) % 256, (254 - p) % 256>> \o Checked(Source[p + 1])

\* One turn of _mem>tx up to _ack?.  A byte that comes in meanwhile is not
\* looked at before, so the bytes of the packet need not go out one by one.
SendPacket ==
  /\ spc = "send" /\ pkt < total
  /\ tx' = tx \o Frame(pkt)
  /\ spc' = "ack"
  /\ UNCHANGED <<sends, total, pkt, log, receiver, rx, noise>>

SendEOT ==
  /\ spc = "send" /\ pkt = total
  /\ tx' = Append(tx, EOT)
  /\ spc' = "last"
  /\ UNCHANGED <<sends, total, pkt, log, receiver, rx, noise>>

\* Mutant of AfterNack: MEM>TX goes on as if its memory were blocks.
AfterNackBlock(p) == (p \div PerBlk + 1) * PerBlk

\* _mem>tx leaves its loop on a NACK.  MEM>TX then has nothing more to send;
\* BLK>TX goes on with the next block.
AfterNack(p) ==
  IF sends = "MEM>TX" THEN total ELSE (p \div PerBlk + 1) * PerBlk

Answered(good) ==
  /\ spc' = "send"
  /\ pkt' = IF good THEN pkt + 1 ELSE AfterNack(pkt)
  /\ log' = Append(log, [packet |-> pkt, good |-> good])

\* Mutant of ackq: any answer but an ACK aborts.
ackqStrict ==
  /\ spc = "ack" /\ rx # <<>> /\ rx' = Tail(rx)
  /\ \/ Head(rx) = C /\ UNCHANGED <<pkt, spc, log>>
     \/ Head(rx) = ACK /\ Answered(TRUE)
     \/ Head(rx) \notin {C, ACK} /\ spc' = "abort" /\ UNCHANGED <<pkt, log>>
  /\ UNCHANGED <<sends, total, receiver, tx, noise>>

ackq ==
  /\ spc = "ack" /\ rx # <<>> /\ rx' = Tail(rx)
  /\ \/ Head(rx) = C /\ UNCHANGED <<pkt, spc, log>>
     \/ Head(rx) = ACK /\ Answered(TRUE)
     \/ Head(rx) = NACK /\ Answered(FALSE)
     \/ /\ Head(rx) \notin {C, ACK, NACK}                \* out of sync
        /\ spc' = "abort" /\ UNCHANGED <<pkt, log>>
  /\ UNCHANGED <<sends, total, receiver, tx, noise>>

\* RX< DROP: the answer to the EOT is not looked at.
LastAck ==
  /\ spc = "last" /\ rx # <<>> /\ rx' = Tail(rx)
  /\ spc' = "done"
  /\ UNCHANGED <<sends, total, pkt, log, receiver, tx, noise>>

-----------------------------------------------------------------------------
(* The receiver.                                                           *)

Drain ==
  /\ rpc = "drain" /\ tx # <<>> /\ tx' = Tail(tx)
  /\ UNCHANGED <<sender, receiver, rx, noise>>

\* RX<? finds no byte: none was sent, or the next one is still on its way.
DrainEnds ==
  /\ rpc = "drain"
  /\ rpc' = "top" /\ rx' = Append(rx, C)
  /\ UNCHANGED <<sender, takes, got, a, mem, BLKat, blocks, tx, noise>>

\* Mutant of Full: the block is written once a packet of the next one comes.
FullLate == ToBlocks /\ a = PerBlk /\ tx # <<>> /\ Head(tx) = SOH

Full == ToBlocks /\ a = PerBlk

\* BLK!: the buffer goes to the block BLK> names.
Saved == [p \in Places |-> IF p \div PerBlk = BLKat THEN mem[p % PerBlk]
                                                    ELSE blocks[p]]

\* Mutant of NextBlock: BLK> moves on before BLK!.
NextBlockEarly ==
  /\ rpc = "top" /\ Full
  /\ blocks' = [p \in Places |-> IF p \div PerBlk = BLKat + 1
                                   THEN mem[p % PerBlk] ELSE blocks[p]]
  /\ BLKat' = BLKat + 1
  /\ a' = 0
  /\ UNCHANGED <<sender, takes, rpc, got, mem, tx, rx, noise>>

\* RX>BLK at the top of its loop, the buffer full.
NextBlock ==
  /\ rpc = "top" /\ Full
  /\ blocks' = Saved
  /\ BLKat' = BLKat + 1
  /\ a' = 0
  /\ UNCHANGED <<sender, takes, rpc, got, mem, tx, rx, noise>>

\* The first byte of _rx>mem1: whatever is no SOH is taken for an EOT.
FirstByte ==
  /\ rpc = "top" /\ ~Full /\ tx # <<>> /\ tx' = Tail(tx)
  /\ \/ Head(tx) = SOH /\ rpc' = "packet" /\ UNCHANGED rx
     \/ Head(tx) # SOH /\ rpc' = "done" /\ rx' = Append(rx, ACK)
  /\ UNCHANGED <<sender, takes, got, a, mem, BLKat, blocks, noise>>

\* A byte of the packet.  Data goes straight to memory, before it is checked.
NextByte ==
  /\ rpc = "packet" /\ Len(got) < PktLen + 3 /\ tx # <<>> /\ tx' = Tail(tx)
  /\ got' = Append(got, Head(tx))
  /\ mem' = IF Len(got) \in 2..(PktLen + 1)
              THEN [mem EXCEPT ![a][Len(got) - 1] = Head(tx)] ELSE mem
  /\ UNCHANGED <<sender, takes, rpc, a, BLKat, blocks, rx, noise>>

Matches(data, high, low) == CRC16(data) = high * 256 + low

\* Mutant of LastByte: a packet that is refused keeps its place.
LastByteStays ==
  /\ rpc = "packet" /\ Len(got) = PktLen + 3 /\ tx # <<>> /\ tx' = Tail(tx)
  /\ LET good == Matches(mem[a], got[PktLen + 3], Head(tx))
     IN  /\ rx' = Append(rx, IF good THEN ACK ELSE NACK)
         /\ a' = IF good THEN a + 1 ELSE a
  /\ rpc' = "top" /\ got' = <<>>
  /\ UNCHANGED <<sender, takes, mem, BLKat, blocks, noise>>

\* The second byte of the CRC.  The next packet goes after this one, whether
\* this one was good or not.
LastByte ==
  /\ rpc = "packet" /\ Len(got) = PktLen + 3 /\ tx # <<>> /\ tx' = Tail(tx)
  /\ rx' = Append(rx, IF Matches(mem[a], got[PktLen + 3], Head(tx))
                        THEN ACK ELSE NACK)
  /\ a' = a + 1
  /\ rpc' = "top" /\ got' = <<>>
  /\ UNCHANGED <<sender, takes, mem, BLKat, blocks, noise>>

-----------------------------------------------------------------------------
(* The line.                                                               *)

\* The data and the CRC are the end of what is on the line after a packet.
InBody(i) == spc = "ack" /\ Len(tx) - i < PktLen + 2

Damage ==
  /\ faults < Faults /\ faults' = faults + 1
  /\ \E b \in Noise :
       \/ \E i \in 1..Len(tx) :
            /\ tx[i] # b /\ tx' = [tx EXCEPT ![i] = b]
            /\ spoiled' = (spoiled \/ ~InBody(i)) /\ UNCHANGED rx
       \/ \E i \in 1..Len(rx) :
            /\ rx[i] # b /\ rx' = [rx EXCEPT ![i] = b]
            /\ spoiled' = TRUE /\ UNCHANGED tx
  /\ UNCHANGED <<sender, receiver>>

Lose ==
  /\ faults < Faults /\ faults' = faults + 1
  /\ spoiled' = TRUE
  /\ \/ \E i \in 1..Len(tx) : tx' = RemoveAt(tx, i) /\ UNCHANGED rx
     \/ \E i \in 1..Len(rx) : rx' = RemoveAt(rx, i) /\ UNCHANGED tx
  /\ UNCHANGED <<sender, receiver>>

-----------------------------------------------------------------------------

Sender == waitC \/ SendPacket \/ SendEOT \/ ackq \/ LastAck
Receiver == Drain \/ DrainEnds \/ NextBlock \/ FirstByte \/ NextByte \/ LastByte

Next == Sender \/ Receiver \/ Damage \/ Lose

Spec == Init /\ [][Next]_vars

\* Each machine goes on with its word when it can: RX< and RX<? poll forever.
LiveSpec == Spec /\ WF_vars(Sender) /\ WF_vars(Receiver)

-----------------------------------------------------------------------------

\* What the receiver holds in place i of what it took: full blocks are on the
\* medium, the rest is in memory.
Taken(i) == IF ToBlocks /\ i \div PerBlk < BLKat THEN blocks[i]
            ELSE IF ToBlocks THEN mem[i % PerBlk] ELSE mem[i]
TakenCount == IF ToBlocks THEN BLKat * PerBlk + a ELSE a

\* When the sender ends as if all had gone well, the receiver has ended too,
\* and holds one packet for each answer the sender got, in order, each one
\* that was acknowledged as it was sent - though the line may have damaged or
\* lost any byte, and the receiver takes whatever it does not know for an EOT
\* (doc/rxtx.txt:69, "reliable data transfer over a serial line").
Delivered ==
  spc = "done" =>
    /\ rpc = "done"
    /\ TakenCount = Len(log)
    /\ \A i \in 1..Len(log) :
         log[i].good => Taken(i - 1) = Source[log[i].packet + 1]

\* On a sound line everything arrives: each full block on the medium, each at
\* its place, and no other block is written (doc/rxtx.txt:86-88, RX>BLK
\* "starting with currently active BLK>, increasing by one whenever a block is
\* filled").
Whole ==
  spc = "done" /\ faults = 0 =>
    /\ TakenCount = total
    /\ \A i \in 0..(total - 1) : Taken(i) = Source[i + 1]
    /\ LET saved == IF ToBlocks THEN (total \div PerBlk) * PerBlk ELSE 0
       IN  \A i \in Places : blocks[i] = IF i < saved THEN Source[i + 1] ELSE Old

\* What was taken is not touched again: not by the bytes of later packets, nor
\* when RX>BLK writes a block and starts the buffer over.
TakenStays ==
  [][ \A i \in Places : i < TakenCount => Taken(i)' = Taken(i) ]_vars

\* Packets damaged in their data or CRC are refused and neither machine is
\* left waiting for the other: with no timeout anywhere, one answer too few or
\* too many would do that.
Ends == <>(spoiled \/ (spc = "done" /\ rpc = "done"))
=============================================================================
