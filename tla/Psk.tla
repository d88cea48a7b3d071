-------------------------------- MODULE Psk --------------------------------
(***************************************************************************)
(* The PS/2 keyboard driver of the Dan SBC (arch/z80/blk.fs B105-109).     *)
(* Every falling edge of the keyboard's clock interrupts the processor;    *)
(* the interrupt routine puts the bits of a frame together and, on the     *)
(* parity bit, adds the byte to a ring of PS2_BLEN bytes, or drops it when *)
(* the ring is full.  PSK< and PSKV< take bytes out, one load or store at  *)
(* a time between interrupts.  While it waits, PSKV< streams video frames  *)
(* with (vidfr), which goes on until the interrupt routine clears VD_DECFR *)
(* and itself loads and stores that flag.                                  *)
(***************************************************************************)
EXTENDS Integers, FiniteSets

CONSTANTS
  Bits,      \* data bits of a frame; 8 in the code
  N,         \* PS2_BLEN, slots of the ring; 8 on the Dan SBC
  Codes,     \* the bytes the keyboard sends, as bit sequences
  NoCode     \* no byte

ASSUME BitsAssumption == Bits \in Nat \ {0}
ASSUME RingAssumption == N \in Nat /\ N > 1
ASSUME CodesAssumption == Codes \subseteq [1..Bits -> 0..1] /\ NoCode \notin Codes

VARIABLES
  code,      \* the byte whose frame the keyboard is sending
  clocked,   \* bits of that frame clocked out
  PSK_STAT,  \* bits of the frame seen; 0 while waiting for a start bit
  PSK_CC,    \* shift register
  PSK_BUFI,  \* the slot read last
  PSK_BUFO,  \* the slot written last
  PSK_BUF,
  VD_DECFR,  \* frames (vidfr) has to go on for, never 1 on a new byte
  pc,        \* of PSKV< or PSK<
  kc         \* the byte it read

isr == <<PSK_STAT, PSK_CC, PSK_BUFO, PSK_BUF>>
kbd == <<code, clocked>>
vars == <<kbd, isr, PSK_BUFI, VD_DECFR, pc, kc>>

Slots == 0..(N - 1)

\* Mutant of Succ: the index is not masked.
SuccUnmasked(i) == i + 1

\* 1+ BMSK AND, with PS2_BMSK = PS2_BLEN - 1.
Succ(i) == IF i = N - 1 THEN 0 ELSE i + 1

Ones(c) == Cardinality({i \in 1..Bits : c[i] = 1})

\* Start bit, data, odd parity, stop bit.
Frame(c) == [i \in 1..(Bits + 3) |->
  CASE i = 1              -> 0
    [] i \in 2..(Bits + 1) -> c[i - 1]
    [] i = Bits + 2       -> (Ones(c) + 1) % 2
    [] i = Bits + 3       -> 1]

TypeOK ==
  /\ code \in Codes \cup {NoCode}
  /\ clocked \in 0..(Bits + 2)
  /\ PSK_STAT \in 0..(Bits + 1)
  /\ PSK_CC \in [1..Bits -> 0..1]
  /\ PSK_BUFI \in Slots /\ PSK_BUFO \in Slots
  /\ PSK_BUF \in [Slots -> [1..Bits -> 0..1]]
  /\ VD_DECFR \in 0..1
  /\ pc \in {"idle", "check", "arm", "video", "again", "fetch", "store"}
  /\ kc \in [1..Bits -> 0..1]

Zeros == [i \in 1..Bits |-> 0]

\* PSK$ and VID$, with the keyboard between two frames.
Init ==
  /\ code = NoCode /\ clocked = 0
  /\ PSK_STAT = 0 /\ PSK_CC = Zeros
  /\ PSK_BUFI = 0 /\ PSK_BUFO = 0
  /\ PSK_BUF = [i \in Slots |-> Zeros]
  /\ VD_DECFR = 1
  /\ pc = "idle" /\ kc = Zeros

-----------------------------------------------------------------------------
(* The keyboard and the interrupt routine.                                 *)

Send(c) ==
  /\ code = NoCode /\ code' = c
  /\ UNCHANGED clocked
  /\ UNCHANGED <<isr, PSK_BUFI, VD_DECFR, pc, kc>>

ShiftIn(bit) == [i \in 1..Bits |-> IF i = Bits THEN bit ELSE PSK_CC[i + 1]]

Started(bit) ==
  /\ PSK_STAT = 0
  /\ PSK_STAT' = IF bit = 0 THEN 1 ELSE 0
  /\ UNCHANGED <<PSK_CC, PSK_BUFO, PSK_BUF, VD_DECFR>>

DataBit(bit) ==
  /\ PSK_STAT \in 1..Bits
  /\ PSK_CC' = ShiftIn(bit)
  /\ PSK_STAT' = PSK_STAT + 1
  /\ UNCHANGED <<PSK_BUFO, PSK_BUF, VD_DECFR>>

\* Mutant of Store: a full ring is not told from an empty one.
StoreAlways ==
  /\ PSK_BUFO' = Succ(PSK_BUFO)
  /\ PSK_BUF' = [PSK_BUF EXCEPT ![PSK_BUFO'] = PSK_CC]

\* Mutant of Store: the byte goes to the slot written last.
StoreBehind ==
  IF Succ(PSK_BUFO) = PSK_BUFI
    THEN UNCHANGED <<PSK_BUFO, PSK_BUF>>
    ELSE /\ PSK_BUFO' = Succ(PSK_BUFO)
         /\ PSK_BUF' = [PSK_BUF EXCEPT ![PSK_BUFO] = PSK_CC]

Store ==
  IF Succ(PSK_BUFO) = PSK_BUFI
    THEN UNCHANGED <<PSK_BUFO, PSK_BUF>>
    ELSE /\ PSK_BUFO' = Succ(PSK_BUFO)
         /\ PSK_BUF' = [PSK_BUF EXCEPT ![PSK_BUFO'] = PSK_CC]

\* Mutant of LastBit: the video is not told of the byte.
LastBitQuiet ==
  /\ PSK_STAT = Bits + 1
  /\ PSK_STAT' = 0
  /\ Store
  /\ UNCHANGED <<PSK_CC, VD_DECFR>>

\* The parity is summed, but the jump it should decide has no target: FMARK
\* resolves the last TO L1 only, so a byte is stored whatever its parity.
LastBit ==
  /\ PSK_STAT = Bits + 1
  /\ PSK_STAT' = 0
  /\ Store
  /\ VD_DECFR' = 0
  /\ UNCHANGED PSK_CC

Edge ==
  /\ code # NoCode
  /\ LET bit == Frame(code)[clocked + 1]
     IN  Started(bit) \/ DataBit(bit) \/ LastBit
  /\ IF clocked = Bits + 2
       THEN clocked' = 0 /\ code' = NoCode
       ELSE clocked' = clocked + 1 /\ UNCHANGED code
  /\ UNCHANGED <<PSK_BUFI, pc, kc>>

-----------------------------------------------------------------------------
(* The words that read.                                                    *)

Goes(from, to) == pc = from /\ pc' = to
Empty == PSK_BUFI = PSK_BUFO

\* PSK< returns 0 at once when the ring is empty.
PSKlt ==
  /\ pc = "idle"
  /\ pc' = IF Empty THEN "idle" ELSE "fetch"
  /\ UNCHANGED <<kbd, isr, PSK_BUFI, VD_DECFR, kc>>

PSKVlt ==
  /\ Goes("idle", "check")
  /\ UNCHANGED <<kbd, isr, PSK_BUFI, VD_DECFR, kc>>

Check ==
  /\ pc = "check"
  /\ pc' = IF Empty THEN "arm" ELSE "fetch"
  /\ UNCHANGED <<kbd, isr, PSK_BUFI, VD_DECFR, kc>>

Arm ==
  /\ Goes("arm", "video")
  /\ VD_DECFR' = 1
  /\ UNCHANGED <<kbd, isr, PSK_BUFI, kc>>

\* At the end of a frame (vidfr) loads VD_DECFR and subtracts VD_DECTL, which
\* nothing ever sets; it returns if the difference is 0.
vidfr ==
  /\ pc = "video"
  /\ pc' = IF VD_DECFR = 0 THEN "check" ELSE "again"
  /\ UNCHANGED <<kbd, isr, PSK_BUFI, VD_DECFR, kc>>

\* If not, it stores the difference back, which is the 1 it loaded, over a 0
\* the interrupt routine may have written since, and streams another frame.
Again ==
  /\ Goes("again", "video")
  /\ VD_DECFR' = 1
  /\ UNCHANGED <<kbd, isr, PSK_BUFI, kc>>

Fetch ==
  /\ Goes("fetch", "store")
  /\ kc' = PSK_BUF[Succ(PSK_BUFI)]
  /\ UNCHANGED <<kbd, isr, PSK_BUFI, VD_DECFR>>

StoreIn ==
  /\ Goes("store", "idle")
  /\ PSK_BUFI' = Succ(PSK_BUFI)
  /\ UNCHANGED <<kbd, isr, VD_DECFR, kc>>

Reader == PSKVlt \/ Check \/ Arm \/ vidfr \/ Again \/ Fetch \/ StoreIn

Next == (\E c \in Codes : Send(c)) \/ Edge \/ PSKlt \/ Reader

Spec == Init /\ [][Next]_vars

\* A frame once begun is clocked out, and the system reads keys for ever.
LiveSpec == Spec /\ WF_vars(Edge) /\ WF_vars(Reader)

-----------------------------------------------------------------------------
(* Properties.                                                             *)

\* How many bytes wait, and the k-th of them.
Waiting == IF PSK_BUFO >= PSK_BUFI THEN PSK_BUFO - PSK_BUFI
           ELSE PSK_BUFO + N - PSK_BUFI
SlotOf(k) == IF PSK_BUFI + k < N THEN PSK_BUFI + k ELSE PSK_BUFI + k - N

\* Whatever interrupts what, the ring is a bounded queue of the bytes that
\* were sent, a full ring drops the new byte, and what PSKV< and PSK< return
\* is its head: the driver implements KeyFifo.
Fifo == INSTANCE KeyFifo WITH
          Size <- N - 1,
          typing <- IF clocked <= Bits + 1 THEN code ELSE NoCode,
          queue <- [k \in 1..Waiting |-> PSK_BUF[SlotOf(k)]]
FifoSpec == Fifo!FifoSpec

\* The byte a reader is about to return is still the head of the ring: the
\* interrupt routine never writes the slot being read.
HeadKept == pc = "store" => kc = PSK_BUF[Succ(PSK_BUFI)]

\* PSKV< is not between its test of the ring and its store to VD_DECFR, nor
\* (vidfr) between its load of VD_DECFR and its store: what it is about to
\* store does not hide a byte that completes now.
NoWindow == pc \notin {"arm", "again"}

\* A byte that waits is returned, as long as a byte completes outside those
\* two windows now and then: the one that does ends the video the reader may
\* have been left in when a byte completed inside one.
WellTimed == []<><<LastBit /\ NoWindow>>_vars
Returned == ~Empty ~> (pc = "store")
ReturnedIfTyping == WellTimed => Returned

\* The same with the second window left open: refuted by the store of (vidfr).
PastArm == []<><<LastBit /\ pc # "arm">>_vars
ReturnedPastArm == PastArm => Returned
=============================================================================
