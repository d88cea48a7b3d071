---------------------------- MODULE XmodemProofs ----------------------------
(***************************************************************************)
(* Of packets and blocks of any size, whatever the line does to its bytes, *)
(* the receiver takes no more than were sent and never touches again what  *)
(* it took; and on a sound line all of them arrive.  For the last, the two *)
(* machines are in step: Phase says where each of them is in its word and  *)
(* what is then on the line between them.                                  *)
(***************************************************************************)
EXTENDS Xmodem, SequenceTheorems, TLAPS

(***************************************************************************)
(* The place of a packet: its block and its place in it.                   *)
(***************************************************************************)
LEMMA Split ==
  ASSUME NEW i \in Nat, NEW p \in Nat \ {0}
  PROVE  /\ i \div p \in Nat /\ i % p \in 0..(p - 1)
         /\ i = (i \div p) * p + (i % p)
         /\ i % p <= i
<1>1. i \div p \in Nat /\ i % p \in 0..(p - 1)
  OBVIOUS
<1>2. i = (i \div p) * p + (i % p)
  OBVIOUS
<1>3. (i \div p) * p \in Nat
  BY <1>1
<1> QED
  BY <1>1, <1>2, <1>3

LEMMA Larger ==
  ASSUME NEW p \in Nat, NEW b \in Nat, NEW q \in Nat, b <= q
  PROVE  b * p <= q * p
<1>1. PICK d \in Nat : q = b + d
  <2>1. q - b \in Nat /\ q = b + (q - b)
    OBVIOUS
  <2> QED
    BY <2>1
<1>2. q * p = b * p + d * p
  BY <1>1
<1>3. d * p \in Nat /\ b * p \in Nat
  BY <1>1
<1> QED
  BY <1>2, <1>3

\* A place below the end of block b is in block b or before.
LEMMA BlockBelow ==
  ASSUME NEW i \in Nat, NEW p \in Nat \ {0}, NEW b \in Nat, i < b * p + p
  PROVE  i \div p <= b
<1> DEFINE q == i \div p
<1>1. q \in Nat /\ i = q * p + (i % p) /\ i % p \in Nat
  BY Split
<1>2. SUFFICES ASSUME b + 1 <= q PROVE FALSE
  BY <1>1
<1>3. (b + 1) * p <= q * p
  BY <1>1, <1>2, Larger
<1>4. (b + 1) * p = b * p + p
  OBVIOUS
<1>5. q * p \in Nat /\ b * p \in Nat
  BY <1>1
<1> HIDE DEF q
<1> QED
  BY <1>1, <1>3, <1>4, <1>5

\* Of the places before the a-th of block b, those in block b or after are
\* before the a-th of their block.
LEMMA PlaceBelow ==
  ASSUME NEW i \in Nat, NEW p \in Nat \ {0}, NEW b \in Nat, NEW c \in Nat,
         i < b * p + c, b <= i \div p
  PROVE  i % p < c
<1> DEFINE q == i \div p
           r == i % p
<1>1. q \in Nat /\ r \in Nat /\ i = q * p + r
  BY Split
<1>2. b * p <= q * p
  BY <1>1, Larger
<1>3. q * p \in Nat /\ b * p \in Nat
  BY <1>1
<1> HIDE DEF q, r
<1>4. r < c
  BY <1>1, <1>2, <1>3
<1> QED
  BY <1>4 DEF r

-----------------------------------------------------------------------------
(***************************************************************************)
(* Sequences of bytes.                                                     *)
(***************************************************************************)
LEMMA HeadTail ==
  ASSUME NEW S, NEW s \in Seq(S), s # <<>>
  PROVE  /\ Head(s) = s[1] /\ Head(s) \in S
         /\ Tail(s) \in Seq(S) /\ Len(Tail(s)) = Len(s) - 1
         /\ \A i \in 1..Len(Tail(s)) : Tail(s)[i] = s[i + 1]
         /\ Len(s) \in Nat /\ Len(s) > 0
  OBVIOUS

LEMMA Appended ==
  ASSUME NEW S, NEW s \in Seq(S), NEW b \in S
  PROVE  /\ Append(s, b) \in Seq(S) /\ Len(Append(s, b)) = Len(s) + 1
         /\ \A i \in 1..Len(s) : Append(s, b)[i] = s[i]
         /\ Append(s, b)[Len(s) + 1] = b
  OBVIOUS

LEMMA Joined ==
  ASSUME NEW S, NEW s \in Seq(S), NEW t \in Seq(S)
  PROVE  /\ s \o t \in Seq(S) /\ Len(s \o t) = Len(s) + Len(t)
         /\ \A i \in 1..Len(s) : (s \o t)[i] = s[i]
         /\ \A i \in 1..Len(t) : (s \o t)[Len(s) + i] = t[i]
  OBVIOUS

\* Three parts after each other.
LEMMA Places3 ==
  ASSUME NEW f, NEW g, NEW h, NEW d, NEW e, NEW m \in Nat, NEW n \in Nat, NEW k \in Nat,
         \A i \in 1..m : f[i] = h[i], \A i \in 1..(n + k) : f[m + i] = g[i],
         \A i \in 1..n : g[i] = d[i], \A i \in 1..k : g[n + i] = e[i]
  PROVE  /\ \A i \in 1..n : f[m + i] = d[i]
         /\ \A i \in 1..k : f[m + n + i] = e[i]
<1>1. ASSUME NEW i \in 1..n PROVE f[m + i] = d[i]
  <2>1. i \in 1..(n + k)
    OBVIOUS
  <2> QED
    BY <2>1
<1>2. ASSUME NEW i \in 1..k PROVE f[m + n + i] = e[i]
  <2>1. n + i \in 1..(n + k) /\ m + (n + i) = m + n + i
    OBVIOUS
  <2> QED
    BY <2>1
<1> QED
  BY <1>1, <1>2

\* Three sequences after each other.
LEMMA Joined3 ==
  ASSUME NEW S, NEW h \in Seq(S), NEW d \in Seq(S), NEW e \in Seq(S),
         NEW f, f = h \o (d \o e)
  PROVE  /\ f \in Seq(S) /\ Len(f) = Len(h) + (Len(d) + Len(e))
         /\ \A i \in 1..Len(h) : f[i] = h[i]
         /\ \A i \in 1..Len(d) : f[Len(h) + i] = d[i]
         /\ \A i \in 1..Len(e) : f[Len(h) + Len(d) + i] = e[i]
<1> DEFINE g == d \o e
<1>1. /\ g \in Seq(S) /\ Len(g) = Len(d) + Len(e)
      /\ \A i \in 1..Len(d) : g[i] = d[i]
      /\ \A i \in 1..Len(e) : g[Len(d) + i] = e[i]
  OBVIOUS
<1>2. f = h \o g
  OBVIOUS
<1> HIDE DEF g
<1>3. /\ f \in Seq(S) /\ Len(f) = Len(h) + Len(g)
      /\ \A i \in 1..Len(h) : f[i] = h[i]
      /\ \A i \in 1..Len(g) : f[Len(h) + i] = g[i]
  <2>1. g \in Seq(S)
    BY <1>1
  <2> QED
    BY <1>2, <2>1
<1>4. Len(h) \in Nat /\ Len(d) \in Nat /\ Len(e) \in Nat
  OBVIOUS
<1>5. \A i \in 1..(Len(d) + Len(e)) : f[Len(h) + i] = g[i]
  <2>1. Len(g) = Len(d) + Len(e) /\ \A i \in 1..Len(g) : f[Len(h) + i] = g[i]
    BY <1>1, <1>3
  <2> QED
    BY <2>1, Zenon
<1>6. /\ \A i \in 1..Len(d) : f[Len(h) + i] = d[i]
      /\ \A i \in 1..Len(e) : f[Len(h) + Len(d) + i] = e[i]
  BY <1>1, <1>3, <1>4, <1>5, Places3
<1> QED
  BY <1>1, <1>3, <1>6, Zenon

LEMMA Removed ==
  ASSUME NEW S, NEW s \in Seq(S), NEW i \in 1..Len(s)
  PROVE  RemoveAt(s, i) \in Seq(S) /\ Len(RemoveAt(s, i)) = Len(s) - 1
<1>1. /\ SubSeq(s, 1, i - 1) \in Seq(S) /\ Len(SubSeq(s, 1, i - 1)) = i - 1
      /\ SubSeq(s, i + 1, Len(s)) \in Seq(S)
      /\ Len(SubSeq(s, i + 1, Len(s))) = Len(s) - i
      /\ Len(s) \in Nat /\ i \in Nat
  OBVIOUS
<1> DEFINE u == SubSeq(s, 1, i - 1)
           v == SubSeq(s, i + 1, Len(s))
<1>2. u \in Seq(S) /\ v \in Seq(S) /\ Len(u) = i - 1 /\ Len(v) = Len(s) - i
  BY <1>1
<1> HIDE DEF u, v
<1>3. u \o v \in Seq(S) /\ Len(u \o v) = Len(u) + Len(v)
  BY <1>2
<1>4. RemoveAt(s, i) = u \o v
  BY DEF RemoveAt, u, v
<1>5. RemoveAt(s, i) \in Seq(S) /\ Len(RemoveAt(s, i)) = Len(u) + Len(v)
  BY <1>3, <1>4, Zenon
<1>6. Len(u) + Len(v) = Len(s) - 1
  BY <1>1, <1>2
<1> QED
  BY <1>5, <1>6, Zenon

\* The two halves of a checksum.
LEMMA Halves ==
  ASSUME NEW high \in Bytes, NEW low \in Bytes
  PROVE  (high * 256 + low) \div 256 = high /\ (high * 256 + low) % 256 = low
  BY DEF Bytes

LEMMA Numbers ==
  ASSUME NEW p \in Int
  PROVE  p % 256 \in 0..255
  OBVIOUS

\* What SendPacket puts on the line, byte after byte.
LEMMA FrameBytes ==
  ASSUME NEW p \in 0..(Len(Source) - 1)
  PROVE  /\ Frame(p) \in Seq(Bytes) /\ Len(Frame(p)) = PktLen + 5
         /\ Frame(p)[1] = SOH
         /\ \A i \in 1..PktLen : Frame(p)[i + 3] = Source[p + 1][i]
         /\ Frame(p)[PktLen + 4] = CRC16(Source[p + 1]) \div 256
         /\ Frame(p)[PktLen + 5] = CRC16(Source[p + 1]) % 256
<1>1. p + 1 \in 1..Len(Source) /\ PktLen \in Nat
  BY SizeAssumption, SourceAssumption
<1> DEFINE d == Source[p + 1]
           c == CRC16(d)
           h == <<SOH, (p + 1) % 256, (254 - p) % 256>>
           e == <<c \div 256, c % 256>>
<1>2. d \in [1..PktLen -> Bytes]
  BY <1>1, SourceAssumption
<1>3. d \in Seq(Bytes) /\ Len(d) = PktLen
  <2> HIDE DEF d
  <2> QED
    BY <1>1, <1>2 DEF Bytes
<1>4. c \div 256 \in Bytes /\ c % 256 \in Bytes
  <2>1. PICK high \in Bytes, low \in Bytes : c = high * 256 + low
    BY <1>1, CRCAssumption, Zenon
  <2> HIDE DEF c
  <2> QED
    BY <2>1, Halves
<1>5. h \in Seq(Bytes) /\ Len(h) = 3 /\ h[1] = SOH
  <2>1. (p + 1) % 256 \in Bytes /\ (254 - p) % 256 \in Bytes /\ SOH \in Bytes
    BY <1>1, Numbers DEF Bytes, SOH
  <2> DEFINE x == (p + 1) % 256
             y == (254 - p) % 256
  <2> HIDE DEF x, y
  <2>2. x \in Bytes /\ y \in Bytes /\ SOH \in Bytes
    BY <2>1 DEF x, y
  <2>3. h = <<SOH, x, y>>
    BY DEF x, y
  <2> QED
    BY <2>2, <2>3
<1>6. e \in Seq(Bytes) /\ Len(e) = 2 /\ e[1] = c \div 256 /\ e[2] = c % 256
  <2> DEFINE x == c \div 256
             y == c % 256
  <2> HIDE DEF x, y
  <2>1. x \in Bytes /\ y \in Bytes /\ e = <<x, y>>
    BY <1>4 DEF x, y
  <2>2. e \in Seq(Bytes) /\ Len(e) = 2 /\ e[1] = x /\ e[2] = y
    BY <2>1
  <2> QED
    BY <2>2 DEF x, y
<1> DEFINE f == Frame(p)
<1>7. f = h \o (d \o e)
  BY DEF Frame, Checked
<1> HIDE DEF d, c, h, e, f
<1>8. /\ f \in Seq(Bytes) /\ Len(f) = Len(h) + (Len(d) + Len(e))
      /\ \A i \in 1..Len(h) : f[i] = h[i]
      /\ \A i \in 1..Len(d) : f[Len(h) + i] = d[i]
      /\ \A i \in 1..Len(e) : f[Len(h) + Len(d) + i] = e[i]
  <2>1. h \in Seq(Bytes) /\ d \in Seq(Bytes) /\ e \in Seq(Bytes)
    BY <1>3, <1>5, <1>6
  <2> QED
    BY <1>7, <2>1, Joined3
<1>9. Len(f) = PktLen + 5 /\ f[1] = SOH
  BY <1>1, <1>3, <1>5, <1>6, <1>8
<1>10. \A i \in 1..PktLen : f[i + 3] = d[i]
  BY <1>1, <1>3, <1>5, <1>6, <1>8
<1>11. f[PktLen + 4] = e[1] /\ f[PktLen + 5] = e[2]
  BY <1>1, <1>3, <1>5, <1>6, <1>8
<1>12. d = Source[p + 1] /\ c = CRC16(Source[p + 1])
  BY DEF d, c
<1>13. Frame(p) = f
  BY DEF f
<1> QED
  BY <1>6, <1>8, <1>9, <1>10, <1>11, <1>12, <1>13

-----------------------------------------------------------------------------
(***************************************************************************)
(* Whatever happens on the line.                                           *)
(***************************************************************************)
Count == BLKat * PerBlk + a

SenderOK ==
  /\ sends \in {"MEM>TX", "BLK>TX"}
  /\ total \in 1..Len(Source) /\ pkt \in 0..total
  /\ sends = "BLK>TX" => total % PerBlk = 0
  /\ spc \in {"wait", "send", "ack", "last", "done", "abort"}
  /\ spc \in {"ack", "abort"} => pkt < total
  /\ log \in Seq([packet : Places, good : BOOLEAN])

ReceiverOK ==
  /\ takes \in {"RX>MEM", "RX>BLK"}
  /\ rpc \in {"drain", "top", "packet", "done"}
  /\ got \in Seq(Bytes) /\ Len(got) < PktLen + 4
  /\ rpc # "packet" => got = <<>>
  /\ a \in Nat /\ BLKat \in Nat
  /\ ToBlocks => a <= PerBlk /\ (rpc = "packet" => a < PerBlk)
  /\ ~ToBlocks => BLKat = 0
  /\ mem \in [Places -> Packets] /\ blocks \in [Places -> Packets]

LineOK ==
  /\ tx \in Seq(Bytes) /\ rx \in Seq(Bytes)
  /\ faults \in 0..Faults /\ spoiled \in BOOLEAN

\* No byte is taken that was not sent, but for the one that may be on the line
\* at first.
FrameLen == PktLen + 5
TakenBytes ==
  Count * FrameLen + (IF rpc = "packet" THEN Len(got) + 1 ELSE 0)
SentBytes ==
  pkt * FrameLen + (IF spc \in {"ack", "abort"} THEN FrameLen
                    ELSE IF spc \in {"last", "done"} THEN 1 ELSE 0)
Conserved == TakenBytes + Len(tx) <= SentBytes + 1

LEMMA Lengths ==
  /\ PktLen \in Nat \ {0} /\ PerBlk \in Nat \ {0} /\ Len(Source) \in Nat \ {0}
  /\ FrameLen \in Nat /\ FrameLen > PktLen
  BY SizeAssumption, SourceAssumption DEF FrameLen

\* BLK>TX goes on at a packet further on, and not past the last one.
LEMMA BlockAfter ==
  ASSUME NEW p \in Nat, NEW w \in Nat \ {0}, NEW t \in Nat, p < t, t % w = 0
  PROVE  (p \div w + 1) * w \in Nat /\ (p \div w + 1) * w <= t /\ p < (p \div w + 1) * w
<1> DEFINE d == p \div w
           q == t \div w
<1>1. d \in Nat /\ p = d * w + (p % w) /\ p % w \in 0..(w - 1)
  BY Split
<1>2. q \in Nat /\ t = q * w
  BY Split
<1> DEFINE r == p % w
<1>3. r \in 0..(w - 1) /\ p = d * w + r
  BY <1>1
<1> HIDE DEF d, q, r
<1>4. d * w \in Nat /\ q * w \in Nat /\ (d + 1) * w = d * w + w
  BY <1>1, <1>2
<1>5. d + 1 <= q
  <2>1. ASSUME q <= d PROVE FALSE
    <3>1. q * w <= d * w
      BY <1>1, <1>2, <2>1, Larger
    <3>2. d * w <= p /\ q * w = t
      BY <1>2, <1>3, <1>4
    <3> DEFINE x == q * w
               y == d * w
    <3>3. x \in Nat /\ y \in Nat /\ x <= y /\ y <= p /\ x = t
      BY <1>4, <3>1, <3>2
    <3> HIDE DEF x, y
    <3> QED
      BY <3>3
  <2> QED
    BY <1>1, <1>2, <2>1
<1>6. (d + 1) * w <= q * w
  BY <1>1, <1>2, <1>5, Larger
<1>7. (d + 1) * w \in Nat /\ (d + 1) * w <= t /\ p < (d + 1) * w
  BY <1>2, <1>3, <1>4, <1>6
<1> QED
  BY <1>7 DEF d

LEMMA Nacked ==
  ASSUME SenderOK, spc = "ack"
  PROVE  AfterNack(pkt) \in 0..total /\ pkt + 1 <= AfterNack(pkt)
<1>1. pkt \in Nat /\ total \in Nat /\ pkt < total
  BY Lengths DEF SenderOK
<1>2. CASE sends = "MEM>TX"
  BY <1>1, <1>2 DEF AfterNack
<1>3. CASE sends = "BLK>TX"
  <2> DEFINE n == (pkt \div PerBlk + 1) * PerBlk
  <2>1. n \in Nat /\ n <= total /\ pkt < n
    BY <1>1, <1>3, BlockAfter, Lengths DEF SenderOK
  <2>2. AfterNack(pkt) = n
    BY <1>3 DEF AfterNack
  <2> HIDE DEF n
  <2> QED
    BY <1>1, <2>1, <2>2
<1> QED
  BY <1>2, <1>3 DEF SenderOK

LEMMA SenderKeeps == ASSUME SenderOK, [Next]_vars PROVE SenderOK'
<1> USE DEF SenderOK
<1>1. CASE waitC
  BY <1>1 DEF waitC
<1>2. CASE SendPacket
  BY <1>2 DEF SendPacket
<1>3. CASE SendEOT
  BY <1>3 DEF SendEOT
<1>4. CASE LastAck
  BY <1>4 DEF LastAck
<1>5. CASE UNCHANGED sender
  BY <1>5 DEF sender
<1>6. Receiver \/ Damage \/ Lose \/ UNCHANGED vars => UNCHANGED sender
  BY Zenon DEF Receiver, Drain, DrainEnds, NextBlock, FirstByte, NextByte, LastByte,
               Damage, Lose, vars
<1>7. ASSUME spc = "ack", NEW good \in BOOLEAN, Answered(good),
             UNCHANGED <<sends, total>>
      PROVE  SenderOK'
  <2>1. spc' = "send" /\ log' = Append(log, [packet |-> pkt, good |-> good])
    BY <1>7 DEF Answered
  <2>2. pkt' \in 0..total
    BY <1>7, Nacked, Lengths DEF Answered
  <2>3. pkt \in Places
    BY <1>7, Lengths DEF Places
  <2>4. log' \in Seq([packet : Places, good : BOOLEAN])
    <3> DEFINE x == [packet |-> pkt, good |-> good]
    <3>1. x \in [packet : Places, good : BOOLEAN]
      BY <2>3
    <3> HIDE DEF x
    <3>2. log' = Append(log, x)
      BY <2>1 DEF x
    <3> QED
      BY <3>1, <3>2
  <2> QED
    BY <1>7, <2>1, <2>2, <2>4
<1>8. CASE ackq
  <2>1. CASE Answered(TRUE)
    BY <1>7, <1>8, <2>1 DEF ackq
  <2>2. CASE Answered(FALSE)
    BY <1>7, <1>8, <2>2 DEF ackq
  <2>3. CASE UNCHANGED <<pkt, spc, log>>
    BY <1>8, <2>3 DEF ackq
  <2>4. CASE spc' = "abort" /\ UNCHANGED <<pkt, log>>
    BY <1>8, <2>4 DEF ackq
  <2> QED
    BY <1>8, <2>1, <2>2, <2>3, <2>4 DEF ackq
<1> QED
  BY <1>1, <1>2, <1>3, <1>4, <1>5, <1>6, <1>8 DEF Next, Sender

-----------------------------------------------------------------------------
LEMMA ByteComes ==
  ASSUME LineOK, tx # <<>>
  PROVE  /\ Head(tx) = tx[1] /\ Head(tx) \in Bytes
         /\ Tail(tx) \in Seq(Bytes) /\ Len(Tail(tx)) = Len(tx) - 1
         /\ \A i \in 1..Len(Tail(tx)) : Tail(tx)[i] = tx[i + 1]
         /\ Len(tx) \in Nat /\ Len(tx) > 0
<1>1. tx \in Seq(Bytes)
  BY DEF LineOK
<1> QED
  BY <1>1, HeadTail

\* The byte of a packet that comes next goes to its place in memory.
LEMMA ByteStored ==
  ASSUME ReceiverOK, LineOK, NextByte
  PROVE  /\ got' \in Seq(Bytes) /\ Len(got') = Len(got) + 1
         /\ got'[Len(got) + 1] = Head(tx) /\ \A i \in 1..Len(got) : got'[i] = got[i]
         /\ mem' \in [Places -> Packets]
<1>1. got' = Append(got, Head(tx)) /\ Head(tx) \in Bytes
  BY ByteComes DEF NextByte
<1>2. /\ got' \in Seq(Bytes) /\ Len(got') = Len(got) + 1
      /\ got'[Len(got) + 1] = Head(tx) /\ \A i \in 1..Len(got) : got'[i] = got[i]
  <2>1. got \in Seq(Bytes)
    BY DEF ReceiverOK
  <2> QED
    BY <1>1, <2>1, Appended
<1>3. mem \in [Places -> Packets]
  BY DEF ReceiverOK
<1>4. mem' \in [Places -> Packets]
  <2>1. CASE Len(got) \in 2..(PktLen + 1)
    <3> DEFINE k == Len(got) - 1
               b == Head(tx)
               q == [mem[a] EXCEPT ![k] = b]
    <3>1. mem' = [mem EXCEPT ![a] = q] /\ b \in Bytes
      BY <1>1, <2>1 DEF NextByte
    <3> HIDE DEF k, b
    <3>2. CASE a \in Places
      <4>1. mem[a] \in [1..PktLen -> Bytes]
        BY <1>3, <3>2 DEF Packets
      <4>2. q \in Packets
        BY <3>1, <4>1 DEF Packets
      <4> HIDE DEF q
      <4> QED
        BY <1>3, <3>1, <4>2
    <3>3. CASE a \notin Places
      <4> HIDE DEF q
      <4> QED
        BY <1>3, <3>1, <3>3
    <3> QED
      BY <3>2, <3>3
  <2>2. CASE Len(got) \notin 2..(PktLen + 1)
    BY <1>3, <2>2 DEF NextByte
  <2> QED
    BY <2>1, <2>2
<1> QED
  BY <1>2, <1>4, Zenon

LEMMA ReceiverKeeps == ASSUME ReceiverOK, LineOK, [Next]_vars PROVE ReceiverOK'
<1> USE DEF ReceiverOK
<1>1. CASE UNCHANGED receiver
  BY <1>1 DEF receiver, ToBlocks
<1>2. Drain \/ Sender \/ Damage \/ Lose \/ UNCHANGED vars => UNCHANGED receiver
  BY Zenon DEF Sender, waitC, SendPacket, SendEOT, ackq, LastAck, Drain,
               Damage, Lose, vars
<1>3. CASE DrainEnds
  BY <1>3 DEF DrainEnds, ToBlocks
<1>4. CASE NextBlock
  <2>1. ToBlocks /\ a = PerBlk /\ rpc = "top"
    BY <1>4 DEF NextBlock, Full
  <2>2. \A p \in Places : p % PerBlk \in Places
    <3>1. ASSUME NEW p \in Places PROVE p % PerBlk \in Places
      <4>1. p \in Nat /\ PerBlk \in Nat \ {0}
        BY Lengths DEF Places
      <4> DEFINE r == p % PerBlk
      <4>2. r \in Nat /\ r <= p
        <5>1. r \in 0..(PerBlk - 1) /\ r <= p
          BY <4>1, Split, Zenon
        <5> HIDE DEF r
        <5> QED
          BY <4>1, <5>1
      <4> HIDE DEF r
      <4>3. r \in Places
        BY <4>1, <4>2, Lengths DEF Places
      <4> QED
        BY <4>3 DEF r
    <3> QED
      BY <3>1
  <2>3. Saved \in [Places -> Packets]
    BY <2>2 DEF Saved
  <2>4. BLKat' \in Nat /\ a' = 0 /\ a' <= PerBlk
    BY <1>4, Lengths DEF NextBlock
  <2> QED
    BY <1>4, <2>1, <2>3, <2>4 DEF NextBlock, ToBlocks
<1>5. CASE FirstByte
  <2>1. ToBlocks => a < PerBlk
    BY <1>5, Lengths DEF FirstByte, Full
  <2>2. got = <<>>
    BY <1>5 DEF FirstByte
  <2> QED
    BY <1>5, <2>1, <2>2 DEF FirstByte, ToBlocks
<1>6. CASE NextByte
  <2>1. /\ rpc = "packet" /\ Len(got) < PktLen + 3
        /\ UNCHANGED <<takes, rpc, a, BLKat, blocks>>
    BY <1>6 DEF NextByte
  <2>2. Len(got') < PktLen + 4
    BY <1>6, <2>1, ByteStored, Lengths
  <2> QED
    BY <1>6, <2>1, <2>2, ByteStored DEF ToBlocks
<1>7. CASE LastByte
  <2>1. /\ rpc = "packet" /\ rpc' = "top" /\ got' = <<>> /\ a' = a + 1
        /\ UNCHANGED <<takes, mem, BLKat, blocks>>
    BY <1>7 DEF LastByte
  <2>2. got' \in Seq(Bytes) /\ Len(got') = 0 /\ Len(got') < PktLen + 4
    BY <2>1, Lengths
  <2>3. ToBlocks => a' <= PerBlk
    BY <2>1, Lengths
  <2>4. a' \in Nat
    BY <2>1
  <2> QED
    BY <2>1, <2>2, <2>3, <2>4 DEF ToBlocks
<1> QED
  BY <1>1, <1>2, <1>3, <1>4, <1>5, <1>6, <1>7 DEF Next, Receiver

-----------------------------------------------------------------------------
LEMMA LineFaults ==
  ASSUME LineOK, Damage \/ Lose
  PROVE  /\ LineOK' /\ Len(tx') <= Len(tx) /\ faults' = faults + 1
         /\ UNCHANGED <<sender, receiver>>
<1>1. faults' = faults + 1 /\ faults' \in 0..Faults
  BY LineAssumption DEF Damage, Lose, LineOK
<1>2. UNCHANGED <<sender, receiver>>
  BY DEF Damage, Lose
<1>3. spoiled' \in BOOLEAN
  BY Zenon DEF Damage, Lose
<1>4. /\ tx' \in Seq(Bytes) /\ rx' \in Seq(Bytes) /\ Len(tx') <= Len(tx)
  <2>1. tx \in Seq(Bytes) /\ rx \in Seq(Bytes) /\ Len(tx) \in Nat
    BY DEF LineOK
  <2>2. ASSUME NEW b \in Noise, NEW i \in 1..Len(tx),
               tx' = [tx EXCEPT ![i] = b], UNCHANGED rx
        PROVE  tx' \in Seq(Bytes) /\ rx' \in Seq(Bytes) /\ Len(tx') <= Len(tx)
    <3>1. b \in Bytes
      BY LineAssumption
    <3>2. tx' \in Seq(Bytes) /\ Len(tx') = Len(tx)
      BY <2>1, <2>2, <3>1, ExceptSeq
    <3> QED
      BY <2>1, <2>2, <3>2
  <2>3. ASSUME NEW b \in Noise, NEW i \in 1..Len(rx),
               rx' = [rx EXCEPT ![i] = b], UNCHANGED tx
        PROVE  tx' \in Seq(Bytes) /\ rx' \in Seq(Bytes) /\ Len(tx') <= Len(tx)
    <3>1. b \in Bytes
      BY LineAssumption
    <3>2. rx' \in Seq(Bytes)
      BY <2>1, <2>3, <3>1, ExceptSeq
    <3> QED
      BY <2>1, <2>3, <3>2
  <2>4. ASSUME NEW i \in 1..Len(tx), tx' = RemoveAt(tx, i), UNCHANGED rx
        PROVE  tx' \in Seq(Bytes) /\ rx' \in Seq(Bytes) /\ Len(tx') <= Len(tx)
    <3>1. tx' \in Seq(Bytes) /\ Len(tx') = Len(tx) - 1
      BY <2>1, <2>4, Removed
    <3> QED
      BY <2>1, <2>4, <3>1
  <2>5. ASSUME NEW i \in 1..Len(rx), rx' = RemoveAt(rx, i), UNCHANGED tx
        PROVE  tx' \in Seq(Bytes) /\ rx' \in Seq(Bytes) /\ Len(tx') <= Len(tx)
    <3>1. rx' \in Seq(Bytes)
      BY <2>1, <2>5, Removed
    <3> QED
      BY <2>1, <2>5, <3>1
  <2> QED
    BY <2>2, <2>3, <2>4, <2>5, Zenon DEF Damage, Lose
<1> QED
  BY <1>1, <1>2, <1>3, <1>4 DEF LineOK

LEMMA LineKeeps == ASSUME SenderOK, LineOK, [Next]_vars PROVE LineOK'
<1>1. CASE Damage \/ Lose
  BY <1>1, LineFaults
<1>2. ASSUME tx' \in Seq(Bytes), rx' \in Seq(Bytes), UNCHANGED noise PROVE LineOK'
  BY <1>2 DEF LineOK, noise
<1>3. tx \in Seq(Bytes) /\ rx \in Seq(Bytes)
  BY DEF LineOK
<1>4. rx # <<>> => Tail(rx) \in Seq(Bytes)
  BY <1>3, HeadTail
<1>5. tx # <<>> => Tail(tx) \in Seq(Bytes)
  BY <1>3, HeadTail
<1>6. ASSUME NEW b \in {C, ACK, NACK} PROVE Append(rx, b) \in Seq(Bytes)
  <2>1. b \in Bytes
    BY DEF C, ACK, NACK, Bytes
  <2> QED
    BY <1>3, <2>1, Appended
<1>7. CASE waitC \/ ackq \/ LastAck
  <2>1. rx # <<>> /\ rx' = Tail(rx) /\ tx' = tx /\ UNCHANGED noise
    BY <1>7, Zenon DEF waitC, ackq, LastAck
  <2> QED
    BY <1>2, <1>3, <1>4, <2>1
<1>8. CASE SendPacket
  <2>1. tx' = tx \o Frame(pkt) /\ rx' = rx /\ UNCHANGED noise /\ pkt < total
    BY <1>8 DEF SendPacket
  <2>2. pkt \in 0..(Len(Source) - 1)
    BY <2>1, Lengths DEF SenderOK
  <2>3. Frame(pkt) \in Seq(Bytes)
    BY <2>2, FrameBytes
  <2>4. tx' \in Seq(Bytes)
    BY <1>3, <2>1, <2>3, Joined
  <2> QED
    BY <1>2, <1>3, <2>1, <2>4
<1>9. CASE SendEOT
  <2>1. tx' = Append(tx, EOT) /\ rx' = rx /\ UNCHANGED noise
    BY <1>9 DEF SendEOT
  <2>2. EOT \in Bytes
    BY DEF EOT, Bytes
  <2>3. tx' \in Seq(Bytes)
    BY <1>3, <2>1, <2>2, Appended
  <2> QED
    BY <1>2, <1>3, <2>1, <2>3
<1>10. CASE Drain \/ FirstByte \/ NextByte \/ LastByte
  <2>1. tx # <<>> /\ tx' = Tail(tx) /\ UNCHANGED noise
    BY <1>10, Zenon DEF Drain, FirstByte, NextByte, LastByte
  <2>2. rx' = rx \/ rx' = Append(rx, ACK) \/ rx' = Append(rx, NACK)
    BY <1>10 DEF Drain, FirstByte, NextByte, LastByte
  <2>3. rx' \in Seq(Bytes)
    BY <1>3, <1>6, <2>2
  <2> QED
    BY <1>2, <1>5, <2>1, <2>3
<1>11. CASE DrainEnds
  <2>1. tx' = tx /\ rx' = Append(rx, C) /\ UNCHANGED noise
    BY <1>11 DEF DrainEnds
  <2> QED
    BY <1>2, <1>3, <1>6, <2>1
<1>12. CASE NextBlock \/ UNCHANGED vars
  <2>1. tx' = tx /\ rx' = rx /\ UNCHANGED noise
    BY <1>12, Zenon DEF NextBlock, vars
  <2> QED
    BY <1>2, <1>3, <2>1
<1> QED
  BY <1>1, <1>7, <1>8, <1>9, <1>10, <1>11, <1>12 DEF Next, Sender, Receiver

-----------------------------------------------------------------------------
LEMMA Counts ==
  ASSUME ReceiverOK
  PROVE  /\ Count \in Nat
         /\ Count * FrameLen \in Nat /\ (Count + 1) * FrameLen = Count * FrameLen + FrameLen
         /\ TakenCount = Count
<1>1. BLKat * PerBlk \in Nat
  BY Lengths DEF ReceiverOK
<1>2. Count \in Nat
  BY <1>1 DEF Count, ReceiverOK
<1>3. TakenCount = Count
  <2>1. ~ToBlocks => BLKat * PerBlk = 0
    BY Lengths DEF ReceiverOK
  <2> QED
    BY <2>1 DEF TakenCount, Count, ReceiverOK
<1> HIDE DEF Count
<1>4. Count * FrameLen \in Nat /\ (Count + 1) * FrameLen = Count * FrameLen + FrameLen
  BY <1>2, Lengths
<1> QED
  BY <1>2, <1>3, <1>4

\* A byte the receiver takes into a packet is one that comes off the line.
LEMMA ConservedKeeps ==
  ASSUME SenderOK, ReceiverOK, LineOK, Conserved, [Next]_vars
  PROVE  Conserved'
<1> DEFINE t == Count * FrameLen
           n == pkt * FrameLen
<1>1. /\ t \in Nat /\ n \in Nat /\ FrameLen \in Nat /\ FrameLen > 1
      /\ Len(tx) \in Nat /\ Len(got) \in Nat
      /\ SentBytes \in Nat /\ TakenBytes \in Nat
  <2>1. t \in Nat
    BY Counts
  <2>2. n \in Nat /\ FrameLen \in Nat /\ FrameLen > 1
    BY Lengths DEF SenderOK, FrameLen
  <2>3. Len(tx) \in Nat /\ Len(got) \in Nat
    BY DEF LineOK, ReceiverOK
  <2> HIDE DEF t, n, FrameLen
  <2> QED
    BY <2>1, <2>2, <2>3 DEF SentBytes, TakenBytes, t, n
<1>2. ASSUME UNCHANGED receiver, Len(tx') <= Len(tx), UNCHANGED sender
      PROVE  Conserved'
  <2>1. TakenBytes' = TakenBytes /\ SentBytes' = SentBytes
    BY <1>2, Zenon DEF receiver, sender, TakenBytes, SentBytes, Count, FrameLen
  <2>2. Len(tx') \in Nat
    <3>1. LineOK'
      BY LineKeeps
    <3> QED
      BY <3>1 DEF LineOK
  <2> HIDE DEF t, n
  <2> QED
    BY <1>1, <1>2, <2>1, <2>2 DEF Conserved
<1>3. UNCHANGED receiver => TakenBytes' = TakenBytes
  BY Zenon DEF receiver, TakenBytes, Count, FrameLen
<1>4. UNCHANGED sender => SentBytes' = SentBytes
  BY Zenon DEF sender, SentBytes, FrameLen
<1>5. CASE Damage \/ Lose
  BY <1>2, <1>5, LineFaults, Zenon
<1>6. CASE waitC \/ ackq \/ LastAck
  <2>1. UNCHANGED receiver /\ tx' = tx /\ TakenBytes' = TakenBytes
    BY <1>3, <1>6, Zenon DEF waitC, ackq, LastAck
  <2>2. SentBytes <= SentBytes' /\ SentBytes' \in Nat
    <3>1. CASE pkt' = pkt /\ (spc' = spc \/ (spc = "wait" /\ spc' = "send")
                              \/ (spc = "ack" /\ spc' = "abort")
                              \/ (spc = "last" /\ spc' = "done"))
      <4>1. SentBytes' = SentBytes
        BY <3>1 DEF SentBytes, FrameLen
      <4> HIDE DEF t, n
      <4> QED
        BY <1>1, <4>1
    <3>2. CASE /\ spc = "ack" /\ spc' = "send"
               /\ pkt' \in Nat /\ pkt + 1 <= pkt'
      <4>2. pkt \in Nat /\ FrameLen \in Nat
        BY <1>1, Lengths DEF SenderOK
      <4> DEFINE k == pkt'
                 j == pkt + 1
      <4>6. k \in Nat /\ j \in Nat /\ j <= k
        BY <3>2, <4>2
      <4>4. j * FrameLen = n + FrameLen
        BY <4>2
      <4> HIDE DEF k, j, FrameLen
      <4>3. j * FrameLen <= k * FrameLen
        BY <4>2, <4>6, Larger
      <4>5. k * FrameLen \in Nat
        BY <4>2, <4>6
      <4>1. SentBytes = n + FrameLen /\ SentBytes' = k * FrameLen
        <5>1. SentBytes = n + FrameLen
          BY <3>2 DEF SentBytes
        <5>2. SentBytes' = k * FrameLen + 0
          BY <3>2 DEF SentBytes, FrameLen, k
        <5> QED
          BY <4>5, <5>1, <5>2
      <4> HIDE DEF t, n
      <4> QED
        BY <1>1, <4>1, <4>3, <4>4, <4>5
    <3>3. spc = "ack" => AfterNack(pkt) \in Nat /\ pkt + 1 <= AfterNack(pkt)
      BY Nacked, Lengths DEF SenderOK
    <3>4. spc = "ack" => pkt \in Nat /\ pkt + 1 \in Nat /\ pkt + 1 <= pkt + 1
      BY Lengths DEF SenderOK
    <3> HIDE DEF t, n
    <3> QED
      BY <1>6, <3>1, <3>2, <3>3, <3>4 DEF waitC, ackq, LastAck, Answered
  <2> HIDE DEF t, n
  <2> QED
    BY <1>1, <2>1, <2>2 DEF Conserved
<1>7. CASE SendPacket
  <2>1. /\ spc = "send" /\ spc' = "ack" /\ pkt' = pkt /\ pkt < total
        /\ tx' = tx \o Frame(pkt) /\ TakenBytes' = TakenBytes
    BY <1>3, <1>7 DEF SendPacket
  <2>2. pkt \in 0..(Len(Source) - 1)
    BY <2>1, Lengths DEF SenderOK
  <2>3. Len(tx') = Len(tx) + FrameLen
    <3>1. Frame(pkt) \in Seq(Bytes) /\ Len(Frame(pkt)) = FrameLen /\ tx \in Seq(Bytes)
      BY <2>2, FrameBytes DEF FrameLen, LineOK
    <3> DEFINE f == Frame(pkt)
    <3> HIDE DEF f, FrameLen
    <3>2. Len(tx') = Len(tx) + Len(f)
      BY <2>1, <3>1, Joined DEF f
    <3> QED
      BY <3>1, <3>2 DEF f
  <2>4. SentBytes = n /\ SentBytes' = n + FrameLen
    BY <1>1, <2>1 DEF SentBytes, FrameLen
  <2> HIDE DEF t, n
  <2> QED
    BY <1>1, <2>1, <2>3, <2>4 DEF Conserved
<1>8. CASE SendEOT
  <2>1. /\ spc = "send" /\ spc' = "last" /\ pkt' = pkt
        /\ tx' = Append(tx, EOT) /\ TakenBytes' = TakenBytes
    BY <1>3, <1>8 DEF SendEOT
  <2>2. Len(tx') = Len(tx) + 1
    <3>1. tx \in Seq(Bytes) /\ EOT \in Bytes
      BY DEF LineOK, EOT, Bytes
    <3> QED
      BY <2>1, <3>1, Appended
  <2>3. SentBytes = n /\ SentBytes' = n + 1
    BY <1>1, <2>1 DEF SentBytes, FrameLen
  <2> HIDE DEF t, n
  <2> QED
    BY <1>1, <2>1, <2>2, <2>3 DEF Conserved
<1>9. CASE Drain
  <2>1. UNCHANGED receiver /\ UNCHANGED sender /\ tx # <<>> /\ tx' = Tail(tx)
    BY <1>9 DEF Drain
  <2> QED
    BY <1>1, <1>2, <2>1, ByteComes
<1>10. CASE DrainEnds \/ NextBlock
  <2>1. UNCHANGED sender /\ tx' = tx /\ SentBytes' = SentBytes
    BY <1>4, <1>10 DEF DrainEnds, NextBlock
  <2>2. Count' = Count /\ rpc # "packet" /\ rpc' # "packet"
    <3>1. CASE DrainEnds
      BY <3>1 DEF DrainEnds, Count
    <3>2. CASE NextBlock
      <4>1. BLKat' = BLKat + 1 /\ a' = 0 /\ a = PerBlk /\ rpc = "top" /\ rpc' = rpc
        BY <3>2 DEF NextBlock, Full
      <4>2. BLKat \in Nat /\ PerBlk \in Nat
        BY Lengths DEF ReceiverOK
      <4>3. (BLKat + 1) * PerBlk + 0 = BLKat * PerBlk + PerBlk
        BY <4>2
      <4> QED
        BY <4>1, <4>3 DEF Count
    <3> QED
      BY <1>10, <3>1, <3>2
  <2>3. TakenBytes' = TakenBytes
    BY <2>2 DEF TakenBytes, FrameLen
  <2> QED
    BY <2>1, <2>3 DEF Conserved
<1>11. CASE FirstByte
  <2>1. /\ UNCHANGED sender /\ SentBytes' = SentBytes /\ Count' = Count
        /\ tx # <<>> /\ tx' = Tail(tx) /\ got' = got /\ got = <<>>
        /\ rpc = "top" /\ rpc' \in {"packet", "done"}
    BY <1>4, <1>11 DEF FirstByte, Count, ReceiverOK
  <2>2. Len(tx') = Len(tx) - 1
    BY <2>1, ByteComes
  <2>3. TakenBytes' \in {t, t + 1} /\ TakenBytes = t
    <3> HIDE DEF Count
    <3> QED
      BY <1>1, <2>1 DEF TakenBytes, FrameLen
  <2> HIDE DEF t, n
  <2> QED
    BY <1>1, <2>1, <2>2, <2>3 DEF Conserved
<1>12. CASE NextByte
  <2>1. /\ UNCHANGED sender /\ SentBytes' = SentBytes /\ Count' = Count
        /\ tx # <<>> /\ tx' = Tail(tx)
        /\ rpc = "packet" /\ rpc' = "packet"
    BY <1>4, <1>12 DEF NextByte, Count, ReceiverOK
  <2>2. Len(tx') = Len(tx) - 1
    BY <2>1, ByteComes
  <2>3. Len(got') = Len(got) + 1
    BY <1>12, ByteStored
  <2>4. TakenBytes' = TakenBytes + 1
    <3>1. TakenBytes' = t + (Len(got) + 1 + 1) /\ TakenBytes = t + (Len(got) + 1)
      BY <2>1, <2>3 DEF TakenBytes, FrameLen
    <3> HIDE DEF t
    <3> QED
      BY <1>1, <3>1
  <2> HIDE DEF t, n
  <2> QED
    BY <1>1, <2>1, <2>2, <2>4 DEF Conserved
<1>13. CASE LastByte
  <2>1. /\ UNCHANGED sender /\ SentBytes' = SentBytes
        /\ tx # <<>> /\ tx' = Tail(tx) /\ a' = a + 1 /\ BLKat' = BLKat
        /\ rpc = "packet" /\ rpc' = "top" /\ Len(got) = PktLen + 3
    BY <1>4, <1>13 DEF LastByte
  <2>2. Len(tx') = Len(tx) - 1
    BY <2>1, ByteComes
  <2>3. Count' = Count + 1
    <3>1. a \in Nat /\ BLKat * PerBlk \in Nat
      BY Lengths DEF ReceiverOK
    <3> QED
      BY <2>1, <3>1 DEF Count
  <2>4. TakenBytes' = TakenBytes + 1
    <3>1. TakenBytes' = (Count + 1) * FrameLen + 0
      BY <2>1, <2>3 DEF TakenBytes, FrameLen
    <3>2. (Count + 1) * FrameLen = t + FrameLen
      BY Counts
    <3>3. TakenBytes = t + (Len(got) + 1)
      BY <2>1 DEF TakenBytes
    <3>4. FrameLen = PktLen + 5 /\ PktLen \in Nat
      BY Lengths DEF FrameLen
    <3> DEFINE u == (Count + 1) * FrameLen
    <3> HIDE DEF t, u
    <3> QED
      BY <1>1, <2>1, <3>1, <3>2, <3>3, <3>4 DEF u
  <2> HIDE DEF t, n
  <2> QED
    BY <1>1, <2>1, <2>2, <2>4 DEF Conserved
<1>14. CASE UNCHANGED vars
  BY <1>1, <1>2, <1>14 DEF vars
<1> QED
  BY <1>5, <1>6, <1>7, <1>8, <1>9, <1>10, <1>11, <1>12, <1>13, <1>14
  DEF Next, Sender, Receiver

Inv == SenderOK /\ ReceiverOK /\ LineOK /\ Conserved

LEMMA InvInit == Init => Inv
<1> SUFFICES ASSUME Init PROVE Inv
  OBVIOUS
<1>1. /\ sends \in {"MEM>TX", "BLK>TX"} /\ takes \in {"RX>MEM", "RX>BLK"}
      /\ total \in 1..Len(Source) /\ (sends = "BLK>TX" => total % PerBlk = 0)
      /\ pkt = 0 /\ spc = "wait" /\ log = <<>>
      /\ rpc = "drain" /\ got = <<>> /\ a = 0 /\ BLKat = 0
      /\ mem = [p \in Places |-> Old] /\ blocks = [p \in Places |-> Old]
      /\ faults = Len(tx) + Len(rx) /\ faults <= Faults
      /\ spoiled = (faults > 0)
  BY DEF Init
<1>2. SenderOK
  BY <1>1, Lengths DEF SenderOK
<1>3. ReceiverOK
  <2>1. Old \in Packets
    BY SourceAssumption DEF Packets
  <2>2. mem \in [Places -> Packets] /\ blocks \in [Places -> Packets]
    BY <1>1, <2>1
  <2> QED
    BY <1>1, <2>2, Lengths DEF ReceiverOK, ToBlocks
<1>4. /\ tx \in Seq(Bytes) /\ Len(tx) \in Nat /\ Len(tx) <= 1
      /\ rx \in Seq(Bytes) /\ Len(rx) \in Nat /\ Len(rx) <= 1
  <2>1. \A s \in Stale : s \in Seq(Bytes) /\ Len(s) \in Nat /\ Len(s) <= 1
    <3>1. ASSUME NEW b \in Noise
          PROVE  <<b>> \in Seq(Bytes) /\ Len(<<b>>) \in Nat /\ Len(<<b>>) <= 1
      BY LineAssumption
    <3>2. <<>> \in Seq(Bytes) /\ Len(<<>>) \in Nat /\ Len(<<>>) <= 1
      OBVIOUS
    <3>3. ASSUME NEW s \in Stale
          PROVE  s \in Seq(Bytes) /\ Len(s) \in Nat /\ Len(s) <= 1
      <4>1. s = <<>> \/ \E b \in Noise : s = <<b>>
        BY Zenon DEF Stale
      <4> QED
        BY <3>1, <3>2, <4>1, Zenon
    <3> QED
      BY <3>3
  <2> QED
    BY <2>1 DEF Init
<1>5. LineOK
  <2>1. faults \in 0..Faults
    BY <1>1, <1>4, LineAssumption
  <2>2. spoiled \in BOOLEAN
    <3>1. CASE faults > 0
      BY <1>1, <3>1
    <3>2. CASE ~(faults > 0)
      BY <1>1, <3>2
    <3> QED
      BY <3>1, <3>2
  <2> QED
    BY <1>4, <2>1, <2>2 DEF LineOK
<1>6. Conserved
  <2>1. TakenBytes = 0 * FrameLen + 0 /\ SentBytes = 0 * FrameLen + 0
    <3>1. Count = 0
      BY <1>1, Lengths DEF Count
    <3> QED
      BY <1>1, <3>1 DEF TakenBytes, SentBytes
  <2>2. 0 * FrameLen + 0 = 0
    BY Lengths
  <2> QED
    BY <1>4, <2>1, <2>2 DEF Conserved
<1> QED
  BY <1>2, <1>3, <1>5, <1>6 DEF Inv

\* The receiver takes no packet that the sender did not send.
LEMMA NoMore == Inv => Count <= total
<1> SUFFICES ASSUME Inv PROVE Count <= total
  OBVIOUS
<1>1. Count \in Nat /\ total \in Nat /\ pkt \in Nat /\ pkt <= total /\ FrameLen \in Nat
  BY Counts, Lengths DEF Inv, SenderOK
<1> DEFINE t == Count * FrameLen
           n == pkt * FrameLen
           m == total * FrameLen
<1>2. t \in Nat /\ n \in Nat /\ m \in Nat
  <2> HIDE DEF Count, FrameLen
  <2> QED
    BY <1>1
<1>3. FrameLen > 2
  BY Lengths DEF FrameLen
<1>4. Len(got) \in Nat /\ Len(tx) \in Nat
  BY DEF Inv, ReceiverOK, LineOK
<1>5. t <= SentBytes + 1
  <2>1. t <= TakenBytes /\ TakenBytes \in Nat /\ SentBytes \in Nat
    <3> HIDE DEF FrameLen, Count, t, n
    <3>1. SentBytes \in {n, n + 1, n + FrameLen}
      BY <1>2 DEF SentBytes, n
    <3>2. TakenBytes \in {t, t + (Len(got) + 1)}
      BY <1>2 DEF TakenBytes, t
    <3> QED
      BY <1>1, <1>2, <1>4, <3>1, <3>2
  <2> HIDE DEF t
  <2> QED
    BY <1>2, <1>4, <2>1 DEF Inv, Conserved
<1>6. SentBytes < m + 2
  <2>1. CASE pkt < total
    <3>1. (pkt + 1) * FrameLen <= m
      BY <1>1, <2>1, Larger
    <3>2. (pkt + 1) * FrameLen = n + FrameLen
      BY <1>1
    <3>3. SentBytes \in {n, n + 1, n + FrameLen}
      BY <1>1, <1>2 DEF SentBytes
    <3>4. n + FrameLen <= m
      BY <3>1, <3>2
    <3> HIDE DEF n, m
    <3> QED
      BY <1>1, <1>2, <1>3, <3>3, <3>4
  <2>2. CASE pkt = total
    <3>1. SentBytes \in {n, n + 1} /\ n = m
      BY <1>1, <1>2, <2>2 DEF SentBytes, Inv, SenderOK
    <3> HIDE DEF n, m
    <3> QED
      BY <1>2, <3>1
  <2> QED
    BY <1>1, <2>1, <2>2
<1>7. ASSUME total + 1 <= Count PROVE FALSE
  <2>1. (total + 1) * FrameLen <= t
    BY <1>1, <1>7, Larger
  <2>2. (total + 1) * FrameLen = m + FrameLen
    BY <1>1
  <2>3. m + FrameLen <= t /\ SentBytes \in Nat
    <3>1. SentBytes \in Nat
      <4> HIDE DEF FrameLen
      <4> QED
        BY <1>1, <1>2 DEF SentBytes
    <3> QED
      BY <2>1, <2>2, <3>1
  <2> HIDE DEF t, m
  <2> QED
    BY <1>1, <1>2, <1>3, <1>5, <1>6, <2>3
<1> HIDE DEF Count
<1> QED
  BY <1>1, <1>7

\* Sender, receiver, line and the count of bytes between them keep to the
\* invariant, whatever the line does.
THEOREM Invariance == Spec => []Inv
<1>1. Inv /\ [Next]_vars => Inv'
  BY SenderKeeps, ReceiverKeeps, LineKeeps, ConservedKeeps DEF Inv
<1> QED
  BY <1>1, InvInit, PTL DEF Spec

\* However many bytes the line damages, loses or makes up, the receiver writes
\* no further than the packets that were to be sent, in memory or on its medium.
THEOREM Types == Spec => []TypeOK
<1>1. Inv => TypeOK
  <2> SUFFICES ASSUME Inv PROVE TypeOK
    OBVIOUS
  <2> USE DEF Inv
  <2>1. /\ BLKat * PerBlk + a <= total /\ total \in Nat /\ total <= Len(Source)
        /\ a \in Nat /\ BLKat \in Nat /\ PerBlk \in Nat \ {0}
    BY NoMore, Lengths DEF Count, ReceiverOK, SenderOK
  <2>2. a \in 0..Room
    <3>1. CASE ToBlocks
      BY <2>1, <3>1 DEF Room, ReceiverOK
    <3>2. CASE ~ToBlocks
      <4>1. BLKat * PerBlk \in Nat
        BY <2>1
      <4> QED
        BY <2>1, <3>2, <4>1, Lengths DEF Room
    <3> QED
      BY <3>1, <3>2
  <2>3. BLKat \in 0..(total \div PerBlk)
    <3> DEFINE q == total \div PerBlk
               r == total % PerBlk
    <3>1. q \in Nat /\ total = q * PerBlk + r /\ r \in 0..(PerBlk - 1)
      BY <2>1, Split
    <3> HIDE DEF q, r
    <3>2. ASSUME q + 1 <= BLKat PROVE FALSE
      <4>1. (q + 1) * PerBlk <= BLKat * PerBlk
        BY <2>1, <3>1, <3>2, Larger
      <4>2. (q + 1) * PerBlk = q * PerBlk + PerBlk
        BY <2>1, <3>1
      <4>3. q * PerBlk \in Nat /\ BLKat * PerBlk \in Nat
        BY <2>1, <3>1
      <4> DEFINE x == q * PerBlk
                 y == BLKat * PerBlk
      <4>4. /\ x \in Nat /\ y \in Nat /\ x + PerBlk <= y
            /\ y + a <= total /\ total = x + r
        BY <2>1, <3>1, <4>1, <4>2, <4>3
      <4> HIDE DEF x, y
      <4> QED
        BY <2>1, <3>1, <4>4
    <3>3. BLKat \in 0..q
      BY <2>1, <3>1, <3>2
    <3> QED
      BY <3>3 DEF q
  <2> QED
    BY <2>2, <2>3 DEF TypeOK, SenderOK, ReceiverOK, LineOK
<1> QED
  BY <1>1, Invariance, PTL

-----------------------------------------------------------------------------
(***************************************************************************)
(* A step of the receiver keeps what it took.  When RX>BLK writes a block, *)
(* its places go from the buffer to the medium; a byte of a packet goes to *)
(* the place after the last one taken.                                     *)
(***************************************************************************)
LEMMA NextBlockKeeps ==
  ASSUME ReceiverOK, NextBlock, NEW i \in Places, i < TakenCount
  PROVE  Taken(i)' = Taken(i)
<1> DEFINE q == i \div PerBlk
<1>1. i \in Nat /\ PerBlk \in Nat \ {0}
  BY SizeAssumption, SourceAssumption DEF Places
<1>2. ToBlocks /\ a = PerBlk /\ takes' = takes
  BY DEF NextBlock, Full
<1>3. blocks' = Saved /\ mem' = mem /\ BLKat' = BLKat + 1
  BY DEF NextBlock
<1>4. BLKat \in Nat
  BY DEF ReceiverOK
<1>5. i < BLKat * PerBlk + PerBlk
  BY <1>2 DEF TakenCount
<1>6. q \in Nat /\ q <= BLKat
  <2>1. q \in Nat
    BY <1>1, Split
  <2>2. q <= BLKat
    BY <1>1, <1>4, <1>5, BlockBelow
  <2> QED
    BY <2>1, <2>2
<1>7. Taken(i)' = blocks'[i]
  <2>1. ToBlocks' /\ q < BLKat'
    BY <1>2, <1>3, <1>4, <1>6 DEF ToBlocks
  <2> QED
    BY <2>1 DEF Taken
<1>8. blocks'[i] = IF q = BLKat THEN mem[i % PerBlk] ELSE blocks[i]
  BY <1>3 DEF Saved
<1>9. Taken(i) = IF q < BLKat THEN blocks[i] ELSE mem[i % PerBlk]
  BY <1>2 DEF Taken
<1> HIDE DEF q
<1> QED
  BY <1>4, <1>6, <1>7, <1>8, <1>9

LEMMA NextByteKeeps ==
  ASSUME ReceiverOK, NextByte, NEW i \in Places, i < TakenCount
  PROVE  Taken(i)' = Taken(i)
<1> DEFINE q == i \div PerBlk
           r == i % PerBlk
<1>1. i \in Nat /\ PerBlk \in Nat \ {0}
  BY SizeAssumption, SourceAssumption DEF Places
<1>2. q \in Nat /\ r \in Nat /\ r <= i
  <2>1. q \in Nat /\ r \in 0..(PerBlk - 1) /\ r <= i
    BY <1>1, Split, Zenon
  <2> HIDE DEF q, r
  <2> QED
    BY <2>1, <1>1
<1>3. a \in Nat /\ BLKat \in Nat
  BY DEF ReceiverOK
<1>4. ToBlocks' = ToBlocks /\ BLKat' = BLKat /\ blocks' = blocks
  BY DEF NextByte, ToBlocks
<1>5. \A j \in Places : j # a => mem'[j] = mem[j]
  BY DEF NextByte, ReceiverOK
<1>6. r \in Places
  BY <1>1, <1>2, SourceAssumption DEF Places
<1>7. CASE ~ToBlocks
  <2>1. i < a
    BY <1>7 DEF TakenCount
  <2>2. mem'[i] = mem[i]
    BY <2>1, <1>5, <1>1, <1>3
  <2>3. Taken(i) = mem[i] /\ Taken(i)' = mem'[i]
    BY <1>4, <1>7 DEF Taken
  <2> QED
    BY <2>2, <2>3
<1>8. CASE ToBlocks /\ q < BLKat
  BY <1>4, <1>8 DEF Taken
<1>9. CASE ToBlocks /\ ~(q < BLKat)
  <2>1. i < BLKat * PerBlk + a
    BY <1>9 DEF TakenCount
  <2>2. BLKat <= q
    BY <1>2, <1>3, <1>9
  <2>3. r < a
    BY <2>1, <2>2, <1>1, <1>3, PlaceBelow
  <2>4. mem'[r] = mem[r]
    <3>1. r # a
      BY <2>3, <1>2, <1>3
    <3> QED
      BY <3>1, <1>5, <1>6
  <2>5. Taken(i) = mem[r] /\ Taken(i)' = mem'[r]
    BY <1>4, <1>9 DEF Taken
  <2> QED
    BY <2>4, <2>5
<1> QED
  BY <1>7, <1>8, <1>9

LEMMA OthersKeep ==
  ASSUME UNCHANGED <<takes, mem, blocks, BLKat>>, NEW i \in Places
  PROVE  Taken(i)' = Taken(i)
  BY DEF Taken, ToBlocks

\* Once a packet is taken, at its place in memory, in the buffer or on the
\* medium, no later byte, fault or block changes it.
THEOREM Kept == Spec => TakenStays
<1> DEFINE Keeps == \A i \in Places : i < TakenCount => Taken(i)' = Taken(i)
<1>1. ReceiverOK /\ [Next]_vars => [Keeps]_vars
  <2> SUFFICES ASSUME ReceiverOK, Next PROVE Keeps
    BY Zenon
  <2>1. CASE NextBlock
    BY <2>1, NextBlockKeeps
  <2>2. CASE NextByte
    BY <2>2, NextByteKeeps
  <2>3. CASE UNCHANGED <<takes, mem, blocks, BLKat>>
    BY <2>3, OthersKeep
  <2>4. Sender \/ Damage \/ Lose => UNCHANGED <<takes, mem, blocks, BLKat>>
    BY Zenon DEF Sender, waitC, SendPacket, SendEOT, ackq, LastAck, Damage, Lose, receiver
  <2>5. Drain \/ DrainEnds \/ FirstByte \/ LastByte =>
          UNCHANGED <<takes, mem, blocks, BLKat>>
    BY Zenon DEF Drain, DrainEnds, FirstByte, LastByte, receiver
  <2> QED
    BY <2>1, <2>2, <2>3, <2>4, <2>5 DEF Next, Receiver
<1> QED
  BY <1>1, Invariance, PTL DEF Spec, TakenStays, Inv

-----------------------------------------------------------------------------
(***************************************************************************)
(* On a sound line the machines take turns.                                *)
(***************************************************************************)

\* Part of a packet is taken: its bytes are on the line in their order, and its
\* data so far in memory.
Halfway ==
  /\ Len(tx) = PktLen + 4 - Len(got)
  /\ \A i \in 1..Len(tx) : tx[i] = Frame(pkt)[Len(got) + 1 + i]
  /\ \A i \in 1..Len(got) : got[i] = Frame(pkt)[i + 1]
  /\ \A i \in 1..PktLen : i + 2 <= Len(got) => mem[a][i] = Source[pkt + 1][i]

Now(s, r, sent, answered) == spc = s /\ rpc = r /\ tx = sent /\ rx = answered

Calls == Now("wait", "drain", <<>>, <<>>) /\ pkt = 0 /\ Count = 0
Called == Now("wait", "top", <<>>, <<C>>) /\ pkt = 0 /\ Count = 0
Idle == Now("send", "top", <<>>, <<>>) /\ Count = pkt
Sent == Now("ack", "top", Frame(pkt), <<>>) /\ Count = pkt
Taking == spc = "ack" /\ rpc = "packet" /\ rx = <<>> /\ Count = pkt /\ Halfway
TakenOne == Now("ack", "top", <<>>, <<ACK>>) /\ Count = pkt + 1
Closing == Now("last", "top", <<EOT>>, <<>>) /\ Count = total
Closed == Now("last", "done", <<>>, <<ACK>>) /\ Count = total /\ ~Full
Over == spc = "done" /\ rpc = "done" /\ Count = total /\ ~Full

Phase ==
  Calls \/ Called \/ Idle \/ Sent \/ Taking \/ TakenOne \/ Closing \/ Closed \/ Over

\* What was taken is in the buffer or on the medium, each at its place.
Held ==
  /\ \A j \in 0..(a - 1) : mem[j] = Source[BLKat * PerBlk + j + 1]
  /\ \A i \in Places :
       blocks[i] = IF i \div PerBlk < BLKat THEN Source[i + 1] ELSE Old

LEMMA SameHeld ==
  ASSUME UNCHANGED <<a, mem, BLKat, blocks>>
  PROVE  Count' = Count /\ (Held => Held')
  BY DEF Held, Count, Places

LEMMA SingleByte ==
  ASSUME NEW b
  PROVE  Head(<<b>>) = b /\ Tail(<<b>>) = <<>> /\ Append(<<>>, b) = <<b>> /\ <<b>> # <<>>
  OBVIOUS

LEMMA SenderTurn ==
  ASSUME Inv, Phase, Held, Sender
  PROVE  Phase' /\ Held'
<1>1. UNCHANGED receiver
  BY Zenon DEF Sender, waitC, SendPacket, SendEOT, ackq, LastAck
<1>2. UNCHANGED <<takes, rpc, a, mem, BLKat, blocks>>
  BY <1>1 DEF receiver
<1>3. Count' = Count /\ Held'
  BY <1>2, SameHeld
<1>4. Full' = Full
  BY <1>2 DEF Full, ToBlocks
<1> USE DEF Now
<1>5. CASE waitC
  <2>1. spc = "wait" /\ rx # <<>>
    BY <1>5 DEF waitC
  <2>2. Called
    BY <2>1 DEF Phase, Calls, Called, Idle, Sent, Taking, TakenOne, Closing, Closed, Over
  <2>3. Head(rx) = C /\ Tail(rx) = <<>>
    BY <2>2, SingleByte DEF Called
  <2>4. spc' = "send" /\ rx' = <<>> /\ tx' = <<>> /\ pkt' = 0
    BY <1>5, <2>2, <2>3 DEF waitC, Called
  <2>5. Idle'
    BY <1>2, <1>3, <2>2, <2>4 DEF Called, Idle
  <2> QED
    BY <1>3, <2>5 DEF Phase
<1>6. CASE SendPacket \/ SendEOT
  <2>1. spc = "send" /\ pkt' = pkt /\ total' = total /\ rx' = rx
    BY <1>6 DEF SendPacket, SendEOT
  <2>2. Idle
    BY <2>1 DEF Phase, Calls, Called, Idle, Sent, Taking, TakenOne, Closing, Closed, Over
  <2>3. CASE SendPacket
    <3>1. spc' = "ack" /\ tx' = tx \o Frame(pkt) /\ pkt < total
      BY <2>3 DEF SendPacket
    <3>2. pkt \in 0..(Len(Source) - 1)
      BY <3>1, Lengths DEF Inv, SenderOK
    <3>3. Frame(pkt) \in Seq(Bytes)
      BY <3>2, FrameBytes
    <3>4. <<>> \o Frame(pkt) = Frame(pkt)
      BY <3>3, ConcatEmptySeq
    <3>5. tx' = Frame(pkt)'
      BY <2>1, <2>2, <3>1, <3>4 DEF Idle, Frame, Checked
    <3>6. Sent'
      BY <1>2, <1>3, <2>1, <2>2, <3>1, <3>5 DEF Idle, Sent
    <3> QED
      BY <1>3, <3>6 DEF Phase
  <2>4. CASE SendEOT
    <3>1. spc' = "last" /\ tx' = <<EOT>> /\ pkt = total
      BY <2>2, <2>4, SingleByte DEF SendEOT, Idle
    <3>2. Closing'
      BY <1>2, <1>3, <2>1, <2>2, <3>1 DEF Idle, Closing
    <3> QED
      BY <1>3, <3>2 DEF Phase
  <2> QED
    BY <1>6, <2>3, <2>4
<1>7. CASE ackq
  <2>1. spc = "ack" /\ rx # <<>>
    BY <1>7 DEF ackq
  <2>2. TakenOne
    BY <2>1 DEF Phase, Calls, Called, Idle, Sent, Taking, TakenOne, Closing, Closed, Over
  <2>3. Head(rx) = ACK /\ Tail(rx) = <<>> /\ ACK # C /\ ACK # NACK
    BY <2>2, SingleByte DEF TakenOne, ACK, C, NACK
  <2>4. Answered(TRUE) /\ rx' = <<>> /\ tx' = tx
    BY <1>7, <2>3 DEF ackq, noise
  <2>5. spc' = "send" /\ pkt' = pkt + 1
    BY <2>4 DEF Answered
  <2>6. Idle'
    BY <1>2, <1>3, <2>2, <2>4, <2>5 DEF TakenOne, Idle
  <2> QED
    BY <1>3, <2>6 DEF Phase
<1>8. CASE LastAck
  <2>1. spc = "last" /\ rx # <<>> /\ spc' = "done" /\ total' = total
    BY <1>8 DEF LastAck
  <2>2. Closed
    BY <2>1 DEF Phase, Calls, Called, Idle, Sent, Taking, TakenOne, Closing, Closed, Over
  <2>3. Over'
    BY <1>2, <1>3, <1>4, <2>1, <2>2 DEF Closed, Over
  <2> QED
    BY <1>3, <2>3 DEF Phase
<1> QED
  BY <1>5, <1>6, <1>7, <1>8 DEF Sender

\* RX>BLK's buffer goes to the medium, each packet of it to its place.
LEMMA BlockTurn ==
  ASSUME Inv, Phase, Held, NextBlock
  PROVE  Phase' /\ Held'
<1>1. /\ rpc = "top" /\ ToBlocks /\ a = PerBlk /\ a' = 0 /\ BLKat' = BLKat + 1
      /\ blocks' = Saved /\ mem' = mem
      /\ UNCHANGED <<spc, rpc, pkt, total, tx, rx>>
  BY DEF NextBlock, Full, sender
<1>2. BLKat \in Nat /\ PerBlk \in Nat \ {0}
  BY Lengths DEF Inv, ReceiverOK
<1>3. Count' = Count
  <2>1. (BLKat + 1) * PerBlk + 0 = BLKat * PerBlk + PerBlk
    BY <1>2
  <2> QED
    BY <1>1, <2>1 DEF Count
<1>4. Phase'
  <2>1. Frame(pkt)' = Frame(pkt)
    BY <1>1 DEF Frame, Checked
  <2> QED
    BY <1>1, <1>3, <2>1
    DEF Phase, Calls, Called, Idle, Sent, Taking, TakenOne, Closing, Closed, Over, Now
<1>5. ASSUME NEW i \in Places
      PROVE  blocks'[i] = IF i \div PerBlk < BLKat + 1 THEN Source[i + 1] ELSE Old
  <2> DEFINE q == i \div PerBlk
             r == i % PerBlk
  <2>1. /\ blocks'[i] = IF q = BLKat THEN mem[r] ELSE blocks[i]
        /\ blocks[i] = IF q < BLKat THEN Source[i + 1] ELSE Old
    BY <1>1 DEF Saved, Held
  <2>2. i \in Nat
    BY DEF Places
  <2>3. q \in Nat /\ r \in 0..(PerBlk - 1) /\ i = q * PerBlk + r
    BY <1>2, <2>2, Split
  <2> HIDE DEF q, r
  <2>4. CASE q = BLKat
    <3>1. mem[r] = Source[BLKat * PerBlk + r + 1]
      BY <1>1, <2>3 DEF Held
    <3> QED
      BY <1>2, <2>1, <2>3, <2>4, <3>1 DEF q
  <2>5. CASE q # BLKat
    <3>1. q < BLKat <=> q < BLKat + 1
      BY <1>2, <2>3, <2>5
    <3> QED
      BY <2>1, <2>5, <3>1 DEF q
  <2> QED
    BY <2>4, <2>5
<1>6. Held'
  <2>1. 0..(a' - 1) = {}
    BY <1>1
  <2> QED
    BY <1>1, <1>5, <2>1 DEF Held, Places
<1> QED
  BY <1>4, <1>6

LEMMA FirstByteTurn ==
  ASSUME Inv, Phase, Held, FirstByte
  PROVE  Phase' /\ Held'
<1>1. /\ rpc = "top" /\ ~Full /\ tx # <<>> /\ tx' = Tail(tx)
      /\ UNCHANGED <<spc, pkt, total, takes, got, a, mem, BLKat, blocks>>
  BY DEF FirstByte, sender
<1>2. Count' = Count /\ Held' /\ Full' = Full
  BY <1>1, SameHeld DEF Full, ToBlocks
<1> USE DEF Now
<1>3. Sent \/ Closing
  BY <1>1 DEF Phase, Calls, Called, Idle, Sent, Taking, TakenOne, Closing, Closed, Over
<1>4. CASE Sent
  <2> DEFINE f == Frame(pkt)
  <2>1. pkt \in 0..(Len(Source) - 1)
    BY <1>4, Lengths DEF Sent, Inv, SenderOK
  <2>2. f \in Seq(Bytes) /\ Len(f) = PktLen + 5 /\ f[1] = SOH
    BY <2>1, FrameBytes
  <2>3. tx = f /\ spc = "ack" /\ rx = <<>> /\ Count = pkt
    BY <1>4 DEF Sent
  <2>4. f' = f
    BY <1>1 DEF Frame, Checked
  <2> HIDE DEF f
  <2>5. /\ Head(tx) = SOH /\ Len(tx') = PktLen + 4
        /\ \A i \in 1..Len(tx') : tx'[i] = f[i + 1]
    BY <1>1, <2>2, <2>3, Lengths, ByteComes DEF Inv
  <2>6. rpc' = "packet" /\ rx' = rx
    BY <2>5 DEF FirstByte
  <2>7. got' = <<>> /\ Len(got') = 0
    BY <1>1 DEF Inv, ReceiverOK
  <2>8. Halfway'
    <3>1. Len(tx') = PktLen + 4 - Len(got')
      BY <2>5, <2>7, Lengths
    <3>2. \A i \in 1..Len(tx') : tx'[i] = f[Len(got') + 1 + i]
      BY <2>5, <2>7, Lengths
    <3>3. 1..Len(got') = {} /\ \A i \in 1..PktLen : ~(i + 2 <= Len(got'))
      BY <2>7, Lengths
    <3> QED
      BY <2>4, <3>1, <3>2, <3>3, Zenon DEF Halfway, f
  <2>9. Taking'
    BY <1>1, <1>2, <2>3, <2>6, <2>8 DEF Taking
  <2> QED
    BY <1>2, <2>9 DEF Phase
<1>5. CASE Closing
  <2>1. Head(tx) = EOT /\ Tail(tx) = <<>> /\ EOT # SOH
    BY <1>5, SingleByte DEF Closing, EOT, SOH
  <2>2. rpc' = "done" /\ rx' = Append(rx, ACK)
    BY <2>1 DEF FirstByte
  <2>3. rx' = <<ACK>>
    BY <1>5, <2>2, SingleByte DEF Closing
  <2>4. Closed'
    BY <1>1, <1>2, <1>5, <2>1, <2>2, <2>3 DEF Closing, Closed
  <2> QED
    BY <1>2, <2>4 DEF Phase
<1> QED
  BY <1>3, <1>4, <1>5

LEMMA NextByteTurn ==
  ASSUME Inv, Phase, Held, NextByte
  PROVE  Phase' /\ Held'
<1> DEFINE n == Len(got)
           f == Frame(pkt)
<1>1. /\ rpc = "packet" /\ n < PktLen + 3 /\ tx # <<>> /\ tx' = Tail(tx)
      /\ mem' = IF n \in 2..(PktLen + 1)
                  THEN [mem EXCEPT ![a][n - 1] = Head(tx)] ELSE mem
      /\ UNCHANGED <<spc, rpc, pkt, total, takes, a, BLKat, blocks, rx>>
  BY DEF NextByte, sender
<1>2. Taking
  BY <1>1 DEF Phase, Calls, Called, Idle, Sent, Taking, TakenOne, Closing, Closed, Over, Now
<1>3. n \in Nat /\ PktLen \in Nat /\ a \in Nat
  BY Lengths DEF Inv, ReceiverOK
<1>4. pkt \in 0..(Len(Source) - 1) /\ a \in Places
  <2>1. /\ pkt \in Nat /\ pkt < total /\ total <= Len(Source) /\ total \in Nat
        /\ BLKat * PerBlk \in Nat /\ BLKat * PerBlk + a = pkt
    BY <1>2, Lengths DEF Taking, Inv, SenderOK, ReceiverOK, Count
  <2>2. a <= pkt
    BY <1>3, <2>1
  <2> QED
    BY <1>3, <2>1, <2>2, Lengths DEF Places
<1>5. \A i \in 1..PktLen : f[i + 3] = Source[pkt + 1][i]
  BY <1>4, FrameBytes
<1>6. mem \in [Places -> Packets]
  BY DEF Inv, ReceiverOK
<1>7. \A j \in Places : j # a => mem'[j] = mem[j]
  BY <1>1, <1>6
<1>8. f' = f
  BY <1>1 DEF Frame, Checked
<1>9. /\ Len(tx) = PktLen + 4 - n
      /\ \A i \in 1..Len(tx) : tx[i] = f[n + 1 + i]
      /\ \A i \in 1..n : got[i] = f[i + 1]
      /\ \A i \in 1..PktLen : i + 2 <= n => mem[a][i] = Source[pkt + 1][i]
  BY <1>2 DEF Taking, Halfway
<1>10. /\ Head(tx) = tx[1] /\ Len(tx') = Len(tx) - 1 /\ Len(tx) \in Nat /\ Len(tx) > 0
       /\ \A i \in 1..Len(tx') : tx'[i] = tx[i + 1]
  BY <1>1, ByteComes DEF Inv
<1>11. /\ Len(got') = n + 1 /\ got'[n + 1] = Head(tx)
       /\ \A i \in 1..n : got'[i] = got[i]
  BY ByteStored DEF Inv
<1> HIDE DEF n, f
<1>12. Head(tx) = f[n + 2]
  <2>1. 1 \in 1..Len(tx) /\ n + 1 + 1 = n + 2
    BY <1>3, <1>10
  <2> QED
    BY <1>9, <1>10, <2>1
<1>13. Len(tx') = PktLen + 4 - (n + 1)
  BY <1>3, <1>9, <1>10
<1>14. ASSUME NEW i \in 1..Len(tx') PROVE tx'[i] = f[n + 1 + 1 + i]
  <2>1. i + 1 \in 1..Len(tx) /\ n + 1 + (i + 1) = n + 1 + 1 + i
    BY <1>3, <1>10
  <2> QED
    BY <1>9, <1>10, <2>1
<1>15. ASSUME NEW i \in 1..(n + 1) PROVE got'[i] = f[i + 1]
  <2>1. CASE i = n + 1
    <3>1. i + 1 = n + 2
      BY <1>3, <2>1
    <3> QED
      BY <1>11, <1>12, <2>1, <3>1
  <2>2. CASE i # n + 1
    <3>1. i \in 1..n
      BY <1>3, <2>2
    <3> QED
      BY <1>9, <1>11, <3>1
  <2> QED
    BY <2>1, <2>2
<1>16. ASSUME NEW i \in 1..PktLen, i + 2 <= n + 1
       PROVE  mem'[a][i] = Source[pkt + 1][i]
  <2> DEFINE k == n - 1
  <2>1. mem[a] \in [1..PktLen -> Bytes]
    BY <1>4, <1>6 DEF Packets
  <2>2. CASE n \in 2..(PktLen + 1)
    <3>1. mem'[a] = [mem[a] EXCEPT ![k] = Head(tx)]
      <4> DEFINE q == [mem[a] EXCEPT ![k] = Head(tx)]
      <4>1. mem' = [mem EXCEPT ![a] = q]
        BY <1>1, <2>2
      <4> HIDE DEF q
      <4>2. mem'[a] = q
        BY <1>4, <1>6, <4>1
      <4> QED
        BY <4>2 DEF q
    <3>2. k \in 1..PktLen
      BY <1>3, <2>2
    <3>3. CASE i = k
      <4>1. mem'[a][i] = Head(tx)
        BY <2>1, <3>1, <3>2, <3>3
      <4>2. n + 2 = i + 3
        BY <1>3, <3>3
      <4> QED
        BY <1>5, <1>12, <4>1, <4>2
    <3>4. CASE i # k
      <4>1. mem'[a][i] = mem[a][i]
        BY <2>1, <3>1, <3>4
      <4>2. i + 2 <= n
        BY <1>3, <1>16, <3>4
      <4> QED
        BY <1>9, <4>1, <4>2
    <3> QED
      BY <3>3, <3>4
  <2>3. CASE n \notin 2..(PktLen + 1)
    <3>1. mem' = mem
      BY <1>1, <2>3
    <3>2. i + 2 <= n
      BY <1>1, <1>3, <1>16, <2>3
    <3> QED
      BY <1>9, <3>1, <3>2
  <2> QED
    BY <2>2, <2>3
<1>17. Halfway'
  <2>1. n' = n + 1 /\ f' = f /\ a' = a /\ pkt' = pkt
    BY <1>1, <1>8, <1>11 DEF n
  <2>2. /\ Len(tx') = PktLen + 4 - n'
        /\ \A i \in 1..Len(tx') : tx'[i] = f'[n' + 1 + i]
        /\ \A i \in 1..n' : got'[i] = f'[i + 1]
        /\ \A i \in 1..PktLen : i + 2 <= n' => mem'[a'][i] = Source[pkt' + 1][i]
    BY <1>13, <1>14, <1>15, <1>16, <2>1
  <2> QED
    BY <2>2 DEF Halfway, n, f
<1>18. Count' = Count
  BY <1>1 DEF Count
<1>19. Phase'
  BY <1>1, <1>2, <1>17, <1>18 DEF Taking, Phase
<1>20. Held'
  <2>1. \A j \in 0..(a - 1) : j \in Places /\ j # a
    BY <1>3, <1>4 DEF Places
  <2> QED
    BY <1>1, <1>7, <2>1 DEF Held, Places
<1> QED
  BY <1>19, <1>20

LEMMA SameFunction ==
  ASSUME NEW S, NEW T, NEW f \in [S -> T], NEW g \in [S -> T], \A x \in S : f[x] = g[x]
  PROVE  f = g
  OBVIOUS

\* The packet is whole, and its checksum is its own.
LEMMA LastByteTurn ==
  ASSUME Inv, Phase, Held, LastByte
  PROVE  Phase' /\ Held'
<1> DEFINE f == Frame(pkt)
           d == Source[pkt + 1]
<1>1. /\ rpc = "packet" /\ Len(got) = PktLen + 3 /\ tx # <<>> /\ tx' = Tail(tx)
      /\ rx' = Append(rx, IF Matches(mem[a], got[PktLen + 3], Head(tx))
                            THEN ACK ELSE NACK)
      /\ a' = a + 1 /\ rpc' = "top"
      /\ UNCHANGED <<spc, pkt, total, takes, mem, BLKat, blocks>>
  BY DEF LastByte, sender
<1>2. Taking
  BY <1>1 DEF Phase, Calls, Called, Idle, Sent, Taking, TakenOne, Closing, Closed, Over, Now
<1>3. PktLen \in Nat /\ a \in Nat /\ PktLen > 0
  BY Lengths DEF Inv, ReceiverOK
<1>4. /\ pkt \in 0..(Len(Source) - 1) /\ a \in Places
      /\ BLKat * PerBlk \in Nat /\ BLKat * PerBlk + a = pkt
  <2>1. /\ pkt \in Nat /\ pkt < total /\ total <= Len(Source) /\ total \in Nat
        /\ BLKat * PerBlk \in Nat /\ BLKat * PerBlk + a = pkt
    BY <1>2, Lengths DEF Taking, Inv, SenderOK, ReceiverOK, Count
  <2>2. a <= pkt
    BY <1>3, <2>1
  <2> QED
    BY <1>3, <2>1, <2>2, Lengths DEF Places
<1>5. /\ f[PktLen + 4] = CRC16(d) \div 256 /\ f[PktLen + 5] = CRC16(d) % 256
  BY <1>4, FrameBytes
<1>6. /\ Len(tx) = PktLen + 4 - Len(got)
      /\ \A i \in 1..Len(tx) : tx[i] = f[Len(got) + 1 + i]
      /\ \A i \in 1..Len(got) : got[i] = f[i + 1]
      /\ \A i \in 1..PktLen : i + 2 <= Len(got) => mem[a][i] = d[i]
  BY <1>2 DEF Taking, Halfway
<1> HIDE DEF f
<1>7. Len(tx) = 1 /\ Head(tx) = f[PktLen + 5] /\ got[PktLen + 3] = f[PktLen + 4]
  <2>1. Len(tx) = 1
    BY <1>1, <1>3, <1>6
  <2>2. Head(tx) = tx[1]
    BY <1>1, ByteComes DEF Inv
  <2>3. /\ 1 \in 1..1 /\ PktLen + 3 + 1 + 1 = PktLen + 5
        /\ PktLen + 3 \in 1..(PktLen + 3) /\ PktLen + 3 + 1 = PktLen + 4
    BY <1>3
  <2> HIDE DEF d
  <2>4. Head(tx) = f[PktLen + 5]
    <3>1. tx[1] = f[Len(got) + 1 + 1]
      BY <1>6, <2>1, <2>3
    <3>2. Len(got) + 1 + 1 = PktLen + 5
      BY <1>1, <2>3
    <3> QED
      BY <2>2, <3>1, <3>2
  <2>5. got[PktLen + 3] = f[PktLen + 4]
    <3>1. PktLen + 3 \in 1..Len(got)
      BY <1>1, <2>3
    <3>2. got[PktLen + 3] = f[PktLen + 3 + 1]
      BY <1>6, <3>1, Zenon
    <3> QED
      BY <2>3, <3>2
  <2> QED
    BY <2>1, <2>4, <2>5
<1>8. tx' = <<>>
  <2>1. tx' \in Seq(Bytes) /\ Len(tx') = 0
    BY <1>1, <1>7, ByteComes DEF Inv
  <2> QED
    BY <2>1
<1>9. mem[a] = d
  <2>1. mem[a] \in [1..PktLen -> Bytes]
    BY <1>4 DEF Inv, ReceiverOK, Packets
  <2>2. pkt + 1 \in 1..Len(Source)
    BY <1>4, Lengths
  <2>3. d \in [1..PktLen -> Bytes]
    BY <2>2, SourceAssumption
  <2>4. \A i \in 1..PktLen : mem[a][i] = d[i]
    BY <1>1, <1>3, <1>6
  <2> DEFINE m == mem[a]
             places == 1..PktLen
  <2>5. /\ m \in [places -> Bytes] /\ d \in [places -> Bytes]
        /\ \A i \in places : m[i] = d[i]
    BY <2>1, <2>3, <2>4
  <2> HIDE DEF d, m, places
  <2>6. m = d
    BY <2>5, SameFunction
  <2> QED
    BY <2>6 DEF m
<1>10. rx' = <<ACK>>
  <2>1. CRC16(d) = (CRC16(d) \div 256) * 256 + (CRC16(d) % 256)
    <3>1. pkt + 1 \in 1..Len(Source)
      BY <1>4, Lengths
    <3> DEFINE c == CRC16(d)
    <3>2. PICK high \in Bytes, low \in Bytes : c = high * 256 + low
      BY <3>1, CRCAssumption, Zenon
    <3> HIDE DEF c
    <3>3. c \div 256 = high /\ c % 256 = low
      BY <3>2, Halves
    <3> QED
      BY <3>2, <3>3 DEF c
  <2>2. CRC16(mem[a]) = CRC16(d)
    BY <1>9, Zenon
  <2>3. Matches(mem[a], got[PktLen + 3], Head(tx))
    <3> HIDE DEF d
    <3>1. CRC16(mem[a]) = got[PktLen + 3] * 256 + Head(tx)
      BY <1>5, <1>7, <2>1, <2>2, Zenon
    <3> QED
      BY <3>1 DEF Matches
  <2>4. rx = <<>>
    BY <1>2 DEF Taking
  <2>5. rx' = Append(rx, ACK)
    BY <1>1, <2>3, Zenon
  <2> QED
    BY <2>4, <2>5, SingleByte
<1>11. Count' = Count + 1
  BY <1>1, <1>3, <1>4 DEF Count
<1>12. TakenOne'
  BY <1>1, <1>2, <1>8, <1>10, <1>11 DEF TakenOne, Taking, Now
<1>13. Held'
  <2>1. ASSUME NEW j \in 0..(a' - 1) PROVE mem[j] = Source[BLKat * PerBlk + j + 1]
    <3>1. CASE j = a
      <4>1. BLKat * PerBlk + j + 1 = pkt + 1
        BY <1>4, <3>1
      <4> QED
        BY <1>9, <3>1, <4>1
    <3>2. CASE j # a
      <4>1. j \in 0..(a - 1)
        BY <1>1, <1>3, <3>2
      <4> QED
        BY <4>1 DEF Held
    <3> QED
      BY <3>1, <3>2
  <2> QED
    BY <1>1, <2>1 DEF Held, Places
<1> QED
  BY <1>12, <1>13 DEF Phase

Lockstep == faults = 0 => Phase /\ Held

LEMMA LockstepInit == Init => Lockstep
<1> SUFFICES ASSUME Init, faults = 0 PROVE Phase /\ Held
  BY DEF Lockstep
<1>1. /\ spc = "wait" /\ rpc = "drain" /\ pkt = 0 /\ a = 0 /\ BLKat = 0
      /\ blocks = [p \in Places |-> Old] /\ faults = Len(tx) + Len(rx)
  BY DEF Init
<1>2. tx = <<>> /\ rx = <<>>
  <2>1. LineOK
    BY InvInit DEF Inv
  <2>2. /\ tx \in Seq(Bytes) /\ rx \in Seq(Bytes) /\ Len(tx) \in Nat /\ Len(rx) \in Nat
    BY <2>1 DEF LineOK
  <2>3. Len(tx) = 0 /\ Len(rx) = 0
    BY <1>1, <2>2
  <2> QED
    BY <2>2, <2>3
<1>3. Count = 0
  BY <1>1, Lengths DEF Count
<1>4. Calls
  BY <1>1, <1>2, <1>3 DEF Calls, Now
<1>5. ASSUME NEW i \in Places PROVE ~(i \div PerBlk < 0)
  <2>1. i \in Nat /\ PerBlk \in Nat \ {0}
    BY Lengths DEF Places
  <2>2. i \div PerBlk \in Nat
    BY <2>1, Split
  <2> QED
    BY <2>2
<1>6. Held
  <2>1. 0..(a - 1) = {}
    BY <1>1
  <2> QED
    BY <1>1, <1>5, <2>1 DEF Held
<1> QED
  BY <1>4, <1>6 DEF Phase

LEMMA LockstepNext == Inv /\ Lockstep /\ [Next]_vars => Lockstep'
<1> SUFFICES ASSUME Inv, Lockstep, [Next]_vars, faults' = 0 PROVE Phase' /\ Held'
  BY DEF Lockstep
<1>1. ~(Damage \/ Lose)
  <2>1. SUFFICES ASSUME Damage \/ Lose PROVE FALSE
    OBVIOUS
  <2>2. faults' = faults + 1 /\ faults \in Nat
    BY <2>1, LineAssumption DEF Damage, Lose, Inv, LineOK
  <2> QED
    BY <2>2
<1>2. UNCHANGED noise
  BY <1>1, Zenon DEF Next, Sender, waitC, SendPacket, SendEOT, ackq, LastAck, Receiver,
    Drain, DrainEnds, NextBlock, FirstByte, NextByte, LastByte, vars
<1>3. Phase /\ Held
  BY <1>2 DEF Lockstep, noise
<1>4. CASE Sender
  BY <1>3, <1>4, SenderTurn
<1>5. CASE Drain
  <2>1. rpc = "drain" /\ tx # <<>>
    BY <1>5 DEF Drain
  <2> QED
    BY <1>3, <2>1
    DEF Phase, Calls, Called, Idle, Sent, Taking, TakenOne, Closing, Closed, Over, Now
<1>6. CASE DrainEnds
  <2>1. /\ rpc = "drain" /\ rpc' = "top" /\ rx' = Append(rx, C)
        /\ UNCHANGED <<spc, pkt, a, mem, BLKat, blocks, tx>>
    BY <1>6 DEF DrainEnds, sender
  <2>2. Calls
    BY <1>3, <2>1
    DEF Phase, Calls, Called, Idle, Sent, Taking, TakenOne, Closing, Closed, Over, Now
  <2>3. rx' = <<C>>
    BY <2>1, <2>2, SingleByte DEF Calls, Now
  <2>4. Count' = Count /\ Held'
    BY <1>3, <2>1, SameHeld
  <2>5. Called'
    BY <2>1, <2>2, <2>3, <2>4 DEF Calls, Called, Now
  <2> QED
    BY <2>4, <2>5 DEF Phase
<1>7. CASE NextBlock
  BY <1>3, <1>7, BlockTurn
<1>8. CASE FirstByte
  BY <1>3, <1>8, FirstByteTurn
<1>9. CASE NextByte
  BY <1>3, <1>9, NextByteTurn
<1>10. CASE LastByte
  BY <1>3, <1>10, LastByteTurn
<1>11. CASE UNCHANGED vars
  <2>1. UNCHANGED <<spc, pkt, total, rpc, takes, got, a, mem, BLKat, blocks, tx, rx>>
    BY <1>11 DEF vars, sender, receiver
  <2>2. Count' = Count /\ Held' /\ Full' = Full
    BY <1>3, <2>1, SameHeld DEF Full, ToBlocks
  <2>3. Frame(pkt)' = Frame(pkt)
    BY <2>1 DEF Frame, Checked
  <2>4. Halfway' = Halfway
    BY <2>1 DEF Halfway, Frame, Checked
  <2>5. Phase'
    BY <1>3, <2>1, <2>2, <2>3, <2>4
    DEF Phase, Calls, Called, Idle, Sent, Taking, TakenOne, Closing, Closed, Over, Now
  <2> QED
    BY <2>2, <2>5
<1> QED
  BY <1>1, <1>4, <1>5, <1>6, <1>7, <1>8, <1>9, <1>10, <1>11, Zenon DEF Next, Receiver

\* What is held in the end is what was sent.
LEMMA AllThere ==
  ASSUME Inv, Held, Count = total, ~Full
  PROVE  /\ TakenCount = total
         /\ \A i \in 0..(total - 1) : Taken(i) = Source[i + 1]
         /\ LET saved == IF ToBlocks THEN (total \div PerBlk) * PerBlk ELSE 0
            IN  \A i \in Places : blocks[i] = IF i < saved THEN Source[i + 1] ELSE Old
<1> DEFINE b == BLKat
           p == PerBlk
<1>1. /\ b \in Nat /\ p \in Nat \ {0} /\ a \in Nat /\ b * p \in Nat
      /\ total = b * p + a /\ total <= Len(Source) /\ Len(Source) \in Nat
      /\ (ToBlocks => a < p) /\ (~ToBlocks => b = 0)
  BY Lengths DEF Inv, SenderOK, ReceiverOK, Count, Full
<1>2. TakenCount = total
  BY Counts DEF Inv
<1>3. ASSUME NEW i \in 0..(total - 1) PROVE Taken(i) = Source[i + 1]
  <2> DEFINE q == i \div PerBlk
             r == i % PerBlk
  <2>1. i \in Places /\ i \in Nat /\ i < b * p + a
    BY <1>1 DEF Places
  <2>2. q \in Nat /\ r \in 0..(p - 1) /\ i = q * p + r
    BY <1>1, <2>1, Split
  <2>3. CASE ToBlocks /\ q < BLKat
    BY <2>1, <2>3 DEF Taken, Held
  <2>4. CASE ToBlocks /\ ~(q < BLKat)
    <3>1. i < b * p + p
      BY <1>1, <2>1, <2>4
    <3>2. q <= b
      BY <1>1, <2>1, <3>1, BlockBelow
    <3>3. b <= q /\ q = b
      <4> HIDE DEF q
      <4> QED
        BY <1>1, <2>2, <2>4, <3>2
    <3>4. r < a
      BY <1>1, <2>1, <3>3, PlaceBelow
    <3>5. r \in 0..(a - 1) /\ b * p + r + 1 = i + 1
      <4> HIDE DEF q, r
      <4> QED
        BY <1>1, <2>2, <3>3, <3>4
    <3>6. Taken(i) = mem[r]
      BY <2>4 DEF Taken
    <3> HIDE DEF q, r
    <3> QED
      BY <3>5, <3>6 DEF Held
  <2>5. CASE ~ToBlocks
    <3>1. b * p = 0 /\ i \in 0..(a - 1) /\ b * p + i + 1 = i + 1
      BY <1>1, <2>1, <2>5
    <3> QED
      BY <2>5, <3>1 DEF Taken, Held
  <2> QED
    BY <2>3, <2>4, <2>5
<1>4. ASSUME NEW i \in Places
      PROVE  i \div PerBlk < b <=> i < b * p
  <2> DEFINE q == i \div PerBlk
             r == i % PerBlk
  <2>1. i \in Nat
    BY DEF Places
  <2>2. q \in Nat /\ r \in 0..(p - 1) /\ i = q * p + r
    BY <1>1, <2>1, Split
  <2> HIDE DEF q, r
  <2>3. q * p \in Nat /\ (q + 1) * p = q * p + p
    BY <1>1, <2>2
  <2>4. CASE q < b
    <3>1. q + 1 <= b
      BY <1>1, <2>2, <2>4
    <3>2. (q + 1) * p <= b * p
      BY <1>1, <2>2, <3>1, Larger
    <3>3. i < q * p + p
      BY <1>1, <2>2, <2>3
    <3>4. i < b * p
      BY <1>1, <2>1, <2>3, <3>2, <3>3
    <3> QED
      BY <2>4, <3>4 DEF q
  <2>5. CASE ~(q < b)
    <3>1. b <= q
      BY <1>1, <2>2, <2>5
    <3>2. b * p <= q * p
      BY <1>1, <2>2, <3>1, Larger
    <3>3. ~(i < b * p)
      BY <1>1, <2>2, <2>3, <3>2
    <3> QED
      BY <2>5, <3>3 DEF q
  <2> QED
    BY <2>4, <2>5
<1>5. (IF ToBlocks THEN (total \div PerBlk) * PerBlk ELSE 0) = b * p
  <2>1. CASE ToBlocks
    <3>1. (b * p + a) \div p = b
      BY <1>1, <2>1
    <3> QED
      BY <1>1, <2>1, <3>1
  <2>2. CASE ~ToBlocks
    <3>1. b * p = 0
      BY <1>1, <2>2
    <3> QED
      BY <2>2, <3>1
  <2> QED
    BY <2>1, <2>2
<1>6. \A i \in Places : blocks[i] = IF i < b * p THEN Source[i + 1] ELSE Old
  BY <1>4 DEF Held
<1> QED
  BY <1>2, <1>3, <1>5, <1>6

\* On a line that damages, loses and makes up no byte, all that was sent is in
\* memory or on the medium when the sender is done, and no other block is written.
THEOREM Arrives == Spec => []Whole
<1>1. Inv /\ Lockstep => Whole
  <2> SUFFICES ASSUME Inv, Lockstep, spc = "done", faults = 0
               PROVE  /\ TakenCount = total
                      /\ \A i \in 0..(total - 1) : Taken(i) = Source[i + 1]
                      /\ LET saved == IF ToBlocks THEN (total \div PerBlk) * PerBlk ELSE 0
                         IN  \A i \in Places :
                               blocks[i] = IF i < saved THEN Source[i + 1] ELSE Old
    BY Zenon DEF Whole
  <2>1. Phase /\ Held
    BY DEF Lockstep
  <2>2. Over
    BY <2>1
    DEF Phase, Calls, Called, Idle, Sent, Taking, TakenOne, Closing, Closed, Over, Now
  <2> QED
    BY <2>1, <2>2, AllThere DEF Over
<1>2. Spec => []Lockstep
  BY LockstepInit, LockstepNext, Invariance, PTL DEF Spec
<1> QED
  BY <1>1, <1>2, Invariance, PTL
=============================================================================
