----------------------------- MODULE PskProofs -----------------------------
(***************************************************************************)
(* Proofs about the keyboard driver of the Dan SBC, for a ring and a frame *)
(* of any size: the reader and the interrupt routine never meet in a slot, *)
(* and together they implement the bounded queue of KeyFifo.               *)
(***************************************************************************)
EXTENDS Psk, SequenceTheorems, FiniteSetTheorems, TLAPS

Byte == [1..Bits -> 0..1]

\* A step that moves to the next slot of the ring stays in the ring, and two
\* slots have different successors.
LEMMA SuccInRing == \A i \in Slots : Succ(i) \in Slots
  BY RingAssumption, SMT DEF Slots, Succ

LEMMA SuccInjective == \A i, j \in Slots : Succ(i) = Succ(j) => i = j
  BY RingAssumption, SMT DEF Slots, Succ

-----------------------------------------------------------------------------
(* Types.                                                                  *)

LEMMA InitTypeOK == Init => TypeOK
<1> SUFFICES ASSUME Init PROVE TypeOK
  OBVIOUS
<1>1. Zeros \in Byte
  BY SMT DEF Zeros, Byte
<1>2. 0 \in Slots
  BY RingAssumption, SMT DEF Slots
<1>3. clocked \in 0..(Bits + 2) /\ PSK_STAT \in 0..(Bits + 1) /\ VD_DECFR \in 0..1
  BY BitsAssumption, SMT DEF Init
<1> QED
  BY <1>1, <1>2, <1>3, Zenon DEF Init, TypeOK, Byte

\* One edge of the clock keeps the types of what the interrupt routine owns.
LEMMA EdgeTypeOK == TypeOK /\ Edge => TypeOK'
<1> SUFFICES ASSUME TypeOK, Edge PROVE TypeOK'
  OBVIOUS
<1>1. code' \in Codes \cup {NoCode} /\ clocked' \in 0..(Bits + 2)
  <2>1. CASE clocked = Bits + 2
    BY <2>1, BitsAssumption, SMT DEF Edge, TypeOK
  <2>2. CASE clocked # Bits + 2
    <3>1. clocked' = clocked + 1 /\ code' = code
      BY <2>2, Zenon DEF Edge
    <3> QED
      BY <3>1, <2>2, BitsAssumption, SMT DEF TypeOK
  <2> QED
    BY <2>1, <2>2
<1>2. PSK_BUFI' \in Slots /\ pc' = pc /\ kc' = kc
  BY Zenon DEF Edge, TypeOK
<1>3. Frame(code)[clocked + 1] \in 0..1
  <2>1. code \in Byte
    BY CodesAssumption, Zenon DEF Edge, TypeOK, Byte
  <2>2. clocked + 1 \in 1..(Bits + 3)
    BY BitsAssumption, SMT DEF TypeOK
  <2>3. CASE clocked + 1 = Bits + 2
    <3>1. Frame(code)[clocked + 1] = (Ones(code) + 1) % 2
      BY <2>2, <2>3, BitsAssumption, SMT DEF Frame
    <3>2. Ones(code) \in Nat
      <4>1. IsFiniteSet(1..Bits)
        BY FS_Interval, BitsAssumption
      <4>2. IsFiniteSet({i \in 1..Bits : code[i] = 1})
        BY <4>1, FS_Subset
      <4> QED
        BY <4>2, FS_CardinalityType DEF Ones
    <3> QED
      BY <3>1, <3>2, SMT
  <2>4. CASE clocked + 1 # Bits + 2
    BY <2>1, <2>2, <2>4, BitsAssumption, SMT DEF Frame, Byte
  <2> QED
    BY <2>3, <2>4
<1>4. /\ PSK_STAT' \in 0..(Bits + 1) /\ PSK_CC' \in Byte
      /\ PSK_BUFO' \in Slots /\ PSK_BUF' \in [Slots -> Byte]
      /\ VD_DECFR' \in 0..1
  <2> DEFINE bit == Frame(code)[clocked + 1]
  <2>1. CASE Started(bit)
    BY <2>1, BitsAssumption, SMT DEF Started, TypeOK, Byte
  <2>2. CASE DataBit(bit)
    <3>1. PSK_STAT' \in 0..(Bits + 1)
      BY <2>2, BitsAssumption, SMT DEF DataBit, TypeOK
    <3>2. PSK_CC' \in Byte
      BY <2>2, <1>3, BitsAssumption, SMT DEF DataBit, ShiftIn, TypeOK, Byte
    <3> QED
      BY <2>2, <3>1, <3>2, Zenon DEF DataBit, TypeOK, Byte
  <2>3. CASE LastBit
    <3>1. PSK_STAT' \in 0..(Bits + 1) /\ VD_DECFR' \in 0..1
      BY <2>3, BitsAssumption, SMT DEF LastBit
    <3>2. PSK_BUFO' \in Slots /\ PSK_BUF' \in [Slots -> Byte]
      <4>1. CASE Succ(PSK_BUFO) = PSK_BUFI
        BY <2>3, <4>1, Zenon DEF LastBit, Store, TypeOK, Byte
      <4>2. CASE Succ(PSK_BUFO) # PSK_BUFI
        BY <2>3, <4>2, SuccInRing, SMT DEF LastBit, Store, TypeOK, Byte
      <4> QED
        BY <4>1, <4>2
    <3> QED
      BY <2>3, <3>1, <3>2, Zenon DEF LastBit, TypeOK, Byte
  <2> QED
    BY <2>1, <2>2, <2>3, Zenon DEF Edge
<1> QED
  BY <1>1, <1>2, <1>4, Zenon DEF TypeOK, Byte

LEMMA StepTypeOK == TypeOK /\ [Next]_vars => TypeOK'
<1> SUFFICES ASSUME TypeOK, [Next]_vars PROVE TypeOK'
  OBVIOUS
<1> USE DEF kbd, isr
<1>1. ASSUME NEW c \in Codes, Send(c) PROVE TypeOK'
  BY <1>1, Zenon DEF Send, TypeOK
<1>2. CASE Edge
  BY <1>2, EdgeTypeOK
<1>3. CASE PSKlt
  BY <1>3, Zenon DEF PSKlt, TypeOK
<1>4. CASE PSKVlt
  BY <1>4, Zenon DEF PSKVlt, Goes, TypeOK
<1>5. CASE Check
  BY <1>5, Zenon DEF Check, TypeOK
<1>6. CASE Arm
  <2>1. VD_DECFR' \in 0..1
    BY <1>6, SMT DEF Arm
  <2> QED
    BY <1>6, <2>1, Zenon DEF Arm, Goes, TypeOK
<1>7. CASE vidfr
  BY <1>7, Zenon DEF vidfr, TypeOK
<1>11. CASE Again
  <2>1. VD_DECFR' \in 0..1
    BY <1>11, SMT DEF Again
  <2> QED
    BY <1>11, <2>1, Zenon DEF Again, Goes, TypeOK
<1>8. CASE Fetch
  <2>1. kc' \in Byte
    BY <1>8, SuccInRing, Zenon DEF Fetch, TypeOK, Byte
  <2> QED
    BY <1>8, <2>1, Zenon DEF Fetch, Goes, TypeOK, Byte
<1>9. CASE StoreIn
  BY <1>9, SuccInRing, Zenon DEF StoreIn, Goes, TypeOK
<1>10. CASE UNCHANGED vars
  BY <1>10, Zenon DEF vars, TypeOK
<1> QED
  BY <1>1, <1>2, <1>3, <1>4, <1>5, <1>6, <1>7, <1>8, <1>9, <1>10, <1>11,
     Zenon DEF Next, Reader

\* Every variable keeps its type: the indexes stay in the ring although only
\* the interrupt routine and the reader's last store bound them.
THEOREM TypeCorrect == Spec => []TypeOK
<1>1. Init => TypeOK
  BY InitTypeOK
<1>2. TypeOK /\ [Next]_vars => TypeOK'
  BY StepTypeOK
<1> QED
  BY <1>1, <1>2, PTL DEF Spec

-----------------------------------------------------------------------------
(* The reader and the interrupt routine.                                   *)

\* A reader that has seen a byte still finds it there.
Found == pc \in {"fetch", "store"} => ~Empty

\* What the interrupt routine does to the ring, if anything.
Stores(x) ==
  /\ Succ(PSK_BUFO) # PSK_BUFI
  /\ PSK_BUFO' = Succ(PSK_BUFO)
  /\ PSK_BUF' = [PSK_BUF EXCEPT ![Succ(PSK_BUFO)] = x]

LEMMA EdgeRing ==
  Edge => UNCHANGED <<PSK_BUFO, PSK_BUF>> \/ (PSK_STAT = Bits + 1 /\ Stores(PSK_CC))
  BY Zenon DEF Edge, Started, DataBit, LastBit, Store, Stores

LEMMA FoundStep == TypeOK /\ Found /\ [Next]_vars => Found'
<1> SUFFICES ASSUME TypeOK, Found, [Next]_vars PROVE Found'
  OBVIOUS
<1> USE DEF Found, Empty, kbd, isr
<1>1. ASSUME NEW c \in Codes, Send(c) PROVE Found'
  BY <1>1 DEF Send
<1>2. CASE Edge
  <2>1. pc' = pc /\ PSK_BUFI' = PSK_BUFI
    BY <1>2 DEF Edge
  <2>2. CASE UNCHANGED <<PSK_BUFO, PSK_BUF>>
    BY <2>1, <2>2
  <2>3. CASE Stores(PSK_CC)
    BY <2>1, <2>3 DEF Stores
  <2> QED
    BY <1>2, <2>2, <2>3, EdgeRing
<1>3. CASE PSKlt
  BY <1>3 DEF PSKlt
<1>4. CASE PSKVlt
  BY <1>4 DEF PSKVlt, Goes
<1>5. CASE Check
  BY <1>5 DEF Check
<1>6. CASE Arm \/ vidfr \/ Again
  BY <1>6 DEF Arm, vidfr, Again, Goes
<1>7. CASE Fetch
  BY <1>7 DEF Fetch, Goes
<1>8. CASE StoreIn
  BY <1>8 DEF StoreIn, Goes
<1>9. CASE UNCHANGED vars
  BY <1>9 DEF vars
<1> QED
  BY <1>1, <1>2, <1>3, <1>4, <1>5, <1>6, <1>7, <1>8, <1>9 DEF Next, Reader

LEMMA HeadKeptStep ==
  TypeOK /\ Found /\ HeadKept /\ [Next]_vars => HeadKept'
<1> SUFFICES ASSUME TypeOK, Found, HeadKept, [Next]_vars, pc' = "store"
             PROVE  kc' = PSK_BUF'[Succ(PSK_BUFI')]
  BY DEF HeadKept, Succ
<1> USE DEF kbd, isr
<1>1. ASSUME NEW c \in Codes, Send(c) PROVE kc' = PSK_BUF'[Succ(PSK_BUFI')]
  BY <1>1 DEF Send, HeadKept
<1>2. CASE Edge
  <2>1. pc = "store" /\ PSK_BUFI' = PSK_BUFI /\ kc' = kc
    BY <1>2 DEF Edge
  <2>2. kc = PSK_BUF[Succ(PSK_BUFI)] /\ PSK_BUFI # PSK_BUFO
    BY <2>1 DEF HeadKept, Found, Empty
  <2>3. CASE UNCHANGED <<PSK_BUFO, PSK_BUF>>
    BY <2>1, <2>2, <2>3
  <2>4. CASE Stores(PSK_CC)
    <3>1. Succ(PSK_BUFI) # Succ(PSK_BUFO)
      BY <2>2, SuccInjective DEF TypeOK
    <3>2. PSK_BUF'[Succ(PSK_BUFI)] = PSK_BUF[Succ(PSK_BUFI)]
      BY <2>4, <3>1, SuccInRing DEF Stores, TypeOK
    <3> QED
      BY <2>1, <2>2, <3>2
  <2> QED
    BY <1>2, <2>3, <2>4, EdgeRing
<1>3. CASE Fetch
  BY <1>3 DEF Fetch
<1>4. CASE PSKlt \/ PSKVlt \/ Check \/ Arm \/ vidfr \/ Again \/ StoreIn
  BY <1>4 DEF PSKlt, PSKVlt, Check, Arm, vidfr, Again, StoreIn, Goes
<1>5. CASE UNCHANGED vars
  BY <1>5 DEF vars, HeadKept
<1> QED
  BY <1>1, <1>2, <1>3, <1>4, <1>5 DEF Next, Reader

\* The byte PSK< or PSKV< is about to return is the oldest of the ring, however
\* many interrupts come between its load and its store.
THEOREM HeadStays == Spec => []HeadKept
<1>1. Init => Found /\ HeadKept
  BY DEF Init, Found, HeadKept
<1>2. TypeOK /\ Found /\ [Next]_vars => Found'
  BY FoundStep
<1>3. TypeOK /\ Found /\ HeadKept /\ [Next]_vars => HeadKept'
  BY HeadKeptStep
<1> QED
  BY <1>1, <1>2, <1>3, TypeCorrect, PTL DEF Spec

-----------------------------------------------------------------------------
(* Frames.                                                                 *)

\* The interrupt routine counts the edges the keyboard has clocked, and its
\* shift register ends with the data bits among them.
InFrame ==
  /\ code = NoCode => clocked = 0
  /\ PSK_STAT = (IF clocked = Bits + 2 THEN 0 ELSE clocked)
  /\ clocked \in 1..(Bits + 1) =>
       \A j \in 1..(clocked - 1) : PSK_CC[Bits - clocked + 1 + j] = code[j]

\* An edge in the middle of a frame takes in one more bit.
LEMMA EdgeInFrame ==
  ASSUME TypeOK, InFrame, Edge, clocked <= Bits
  PROVE  /\ InFrame'
         /\ clocked' = clocked + 1 /\ code' = code /\ code # NoCode
         /\ UNCHANGED <<PSK_BUFI, PSK_BUFO, PSK_BUF>>
<1> USE BitsAssumption DEF TypeOK
<1> DEFINE bit == Frame(code)[clocked + 1]
<1>1. clocked' = clocked + 1 /\ code' = code /\ code # NoCode /\ PSK_BUFI' = PSK_BUFI
  BY DEF Edge
<1>2. PSK_STAT = clocked
  BY DEF InFrame
<1>3. Started(bit) \/ DataBit(bit) \/ LastBit
  BY DEF Edge
<1>4. CASE clocked = 0
  <2>1. bit = 0
    BY <1>4 DEF Frame
  <2>2. Started(bit)
    BY <1>2, <1>3, <1>4 DEF DataBit, LastBit
  <2>3. PSK_STAT' = 1 /\ UNCHANGED <<PSK_BUFO, PSK_BUF>>
    BY <2>1, <2>2 DEF Started
  <2>4. InFrame'
    BY <1>1, <1>4, <2>3 DEF InFrame
  <2> QED
    BY <1>1, <2>3, <2>4
<1>5. CASE clocked # 0
  <2>1. bit = code[clocked] /\ clocked \in 1..Bits
    BY <1>5 DEF Frame
  <2>2. DataBit(bit)
    BY <1>2, <1>3, <2>1 DEF Started, LastBit
  <2>3. PSK_STAT' = clocked + 1 /\ UNCHANGED <<PSK_BUFO, PSK_BUF>>
    BY <1>2, <2>2 DEF DataBit
  <2>4. \A j \in 1..clocked : PSK_CC'[Bits - clocked + j] = code[j]
    <3> TAKE j \in 1..clocked
    <3>1. PSK_CC' = ShiftIn(code[clocked])
      BY <2>1, <2>2 DEF DataBit
    <3>2. CASE j = clocked
      BY <2>1, <3>1, <3>2 DEF ShiftIn
    <3>3. CASE j # clocked
      <4>1. Bits - clocked + j \in 1..(Bits - 1) /\ j \in 1..(clocked - 1)
        BY <2>1, <3>3
      <4>2. PSK_CC'[Bits - clocked + j] = PSK_CC[Bits - clocked + j + 1]
        BY <3>1, <4>1 DEF ShiftIn
      <4>3. PSK_CC[Bits - clocked + 1 + j] = code[j]
        BY <2>1, <4>1 DEF InFrame
      <4> QED
        BY <2>1, <4>2, <4>3
    <3> QED
      BY <3>2, <3>3
  <2>5. \A j \in 1..(clocked' - 1) : PSK_CC'[Bits - clocked' + 1 + j] = code'[j]
    <3> TAKE j \in 1..(clocked' - 1)
    <3>1. clocked' - 1 = clocked /\ Bits - clocked' + 1 + j = Bits - clocked + j
      BY <1>1, <2>1
    <3> QED
      BY <1>1, <2>4, <3>1
  <2>6. InFrame'
    BY <1>1, <2>1, <2>3, <2>5 DEF InFrame
  <2> QED
    BY <1>1, <2>3, <2>6
<1> QED
  BY <1>4, <1>5

\* The edge of the parity bit finds the whole byte in the shift register and
\* stores it, or drops it when the ring is full.
LEMMA EdgeLastBit ==
  ASSUME TypeOK, InFrame, Edge, clocked = Bits + 1
  PROVE  /\ InFrame'
         /\ clocked' = Bits + 2 /\ code' = code /\ code # NoCode
         /\ PSK_BUFI' = PSK_BUFI
         /\ IF Succ(PSK_BUFO) = PSK_BUFI THEN UNCHANGED <<PSK_BUFO, PSK_BUF>>
                                         ELSE Stores(code)
<1> USE BitsAssumption DEF TypeOK
<1>1. clocked' = Bits + 2 /\ code' = code /\ code # NoCode /\ PSK_BUFI' = PSK_BUFI
  BY DEF Edge
<1>2. PSK_STAT = Bits + 1
  BY DEF InFrame
<1>3. LastBit
  BY <1>2 DEF Edge, Started, DataBit
<1>4. InFrame'
  BY <1>1, <1>3 DEF InFrame, LastBit
<1>5. PSK_CC = code
  <2>1. code \in Byte
    BY <1>1, CodesAssumption DEF Byte
  <2>2. ASSUME NEW j \in 1..Bits PROVE PSK_CC[j] = code[j]
    <3>1. PSK_CC[Bits - clocked + 1 + j] = code[j]
      BY DEF InFrame
    <3> QED
      BY <3>1
  <2> QED
    BY <2>1, <2>2 DEF Byte
<1> QED
  BY <1>1, <1>3, <1>4, <1>5 DEF LastBit, Store, Stores

\* The stop bit is not taken for a start bit.
LEMMA EdgeStopBit ==
  ASSUME TypeOK, InFrame, Edge, clocked = Bits + 2
  PROVE  /\ InFrame'
         /\ code' = NoCode /\ clocked' = 0
         /\ UNCHANGED <<PSK_BUFI, PSK_BUFO, PSK_BUF>>
<1> USE BitsAssumption DEF TypeOK
<1> DEFINE bit == Frame(code)[clocked + 1]
<1>1. clocked' = 0 /\ code' = NoCode /\ PSK_BUFI' = PSK_BUFI
  BY DEF Edge
<1>2. bit = 1
  BY DEF Frame
<1>3. Started(bit)
  BY DEF Edge, InFrame, DataBit, LastBit
<1>4. PSK_STAT' = 0 /\ UNCHANGED <<PSK_BUFO, PSK_BUF>>
  BY <1>2, <1>3 DEF Started
<1> QED
  BY <1>1, <1>4 DEF InFrame

LEMMA InFrameStep == TypeOK /\ InFrame /\ [Next]_vars => InFrame'
<1> SUFFICES ASSUME TypeOK, InFrame, [Next]_vars PROVE InFrame'
  OBVIOUS
<1> USE DEF kbd, isr
<1>1. ASSUME NEW c \in Codes, Send(c) PROVE InFrame'
  <2>1. clocked = 0 /\ clocked' = 0 /\ PSK_STAT' = PSK_STAT
    BY <1>1 DEF Send, InFrame
  <2> QED
    BY <2>1, BitsAssumption DEF InFrame
<1>2. CASE Edge
  <2>1. clocked <= Bits \/ clocked = Bits + 1 \/ clocked = Bits + 2
    BY BitsAssumption DEF TypeOK
  <2> QED
    BY <1>2, <2>1, EdgeInFrame, EdgeLastBit, EdgeStopBit
<1>3. CASE UNCHANGED <<kbd, isr>>
  BY <1>3 DEF InFrame
<1> QED
  BY <1>1, <1>2, <1>3 DEF Next, Reader, PSKlt, PSKVlt, Check, Arm, vidfr, Again, Fetch, StoreIn, vars

-----------------------------------------------------------------------------
(* The ring as a queue.                                                    *)

Ring == [k \in 1..Waiting |-> PSK_BUF[SlotOf(k)]]

LEMMA RingTypes ==
  ASSUME TypeOK
  PROVE  /\ Waiting \in 0..(N - 1)
         /\ \A k \in 1..Waiting : SlotOf(k) \in Slots
         /\ Ring \in Seq(Byte) /\ Len(Ring) = Waiting
<1>1. Waiting \in 0..(N - 1)
  BY RingAssumption, SMT DEF TypeOK, Slots, Waiting
<1>2. \A k \in 1..Waiting : SlotOf(k) \in Slots
  BY RingAssumption, SMT DEF TypeOK, Slots, Waiting, SlotOf
<1>3. Ring \in [1..Waiting -> Byte]
  BY <1>2 DEF Ring, TypeOK, Byte
<1>4. Waiting \in Nat
  BY <1>1
<1> QED
  BY <1>1, <1>2, <1>3, <1>4

\* The ring is full when one slot is left.
LEMMA RingFull ==
  ASSUME TypeOK PROVE Waiting = N - 1 <=> Succ(PSK_BUFO) = PSK_BUFI
  BY RingAssumption, SMT DEF TypeOK, Slots, Waiting, Succ

\* Storing a byte adds it at the end of the queue.
LEMMA StoresAppends ==
  ASSUME TypeOK, NEW x \in Byte, Stores(x), PSK_BUFI' = PSK_BUFI
  PROVE  Ring' = Append(Ring, x) /\ Waiting < N - 1
<1>1. Waiting' = Waiting + 1 /\ Waiting < N - 1
  BY RingAssumption, SMT DEF TypeOK, Slots, Waiting, Succ, Stores
<1>2. ASSUME NEW k \in 1..(Waiting + 1), k = Waiting + 1
      PROVE  SlotOf(k)' = Succ(PSK_BUFO)
  BY <1>2, RingAssumption, SMT DEF TypeOK, Slots, Waiting, SlotOf, Succ, Stores
<1>3. ASSUME NEW k \in 1..Waiting
      PROVE  SlotOf(k)' = SlotOf(k) /\ SlotOf(k) # Succ(PSK_BUFO) /\ SlotOf(k) \in Slots
  BY <1>3, RingAssumption, SMT DEF TypeOK, Slots, Waiting, SlotOf, Succ, Stores
<1>4. Waiting \in Nat /\ Len(Ring) = Waiting /\ Ring \in Seq(Byte)
  BY RingTypes
<1>5. Succ(PSK_BUFO) \in Slots
  BY SuccInRing DEF TypeOK
<1>6. Ring' = [k \in 1..(Waiting + 1) |-> PSK_BUF'[SlotOf(k)']]
  BY <1>1 DEF Ring
<1>7. ASSUME NEW k \in 1..(Waiting + 1)
      PROVE  PSK_BUF'[SlotOf(k)'] = Append(Ring, x)[k]
  <2>1. CASE k \in 1..Waiting
    <3>1. PSK_BUF'[SlotOf(k)'] = PSK_BUF[SlotOf(k)]
      BY <1>3, <1>5, <2>1 DEF Stores, TypeOK
    <3>2. Append(Ring, x)[k] = Ring[k]
      BY <1>4, <2>1, AppendProperties
    <3> QED
      BY <2>1, <3>1, <3>2 DEF Ring
  <2>2. CASE k = Waiting + 1
    <3>1. PSK_BUF'[SlotOf(k)'] = x
      BY <1>2, <1>5, <2>2 DEF Stores, TypeOK
    <3>2. Append(Ring, x)[k] = x
      BY <1>4, <2>2, AppendProperties
    <3> QED
      BY <3>1, <3>2
  <2> QED
    BY <1>4, <2>1, <2>2
<1>8. /\ Append(Ring, x) \in Seq(Byte)
      /\ Len(Append(Ring, x)) = Waiting + 1
  BY <1>4, AppendProperties
<1>9. Append(Ring, x) \in [1..(Waiting + 1) -> Byte]
  BY <1>8, LenProperties
<1> QED
  BY <1>1, <1>6, <1>7, <1>9

\* Moving PSK_BUFI on takes the head of the queue away.
LEMMA StoreInTails ==
  ASSUME TypeOK, ~Empty, StoreIn
  PROVE  Ring # <<>> /\ Ring' = Tail(Ring)
<1>1. PSK_BUFI' = Succ(PSK_BUFI) /\ PSK_BUFO' = PSK_BUFO /\ PSK_BUF' = PSK_BUF
  BY DEF StoreIn, isr
<1>2. Waiting > 0 /\ Waiting' = Waiting - 1
  BY <1>1, RingAssumption, SMT DEF TypeOK, Slots, Waiting, Succ, Empty
<1>3. ASSUME NEW k \in 1..(Waiting - 1) PROVE SlotOf(k)' = SlotOf(k + 1)
  BY <1>1, <1>3, RingAssumption, SMT DEF TypeOK, Slots, Waiting, SlotOf, Succ, Empty
<1>4. Len(Ring) = Waiting /\ Ring \in Seq(Byte) /\ Waiting \in Nat
  BY RingTypes
<1>5. Ring # <<>>
  BY <1>2, <1>4
<1>6. /\ Tail(Ring) \in Seq(Byte) /\ Len(Tail(Ring)) = Waiting - 1
      /\ \A k \in 1..(Waiting - 1) : Tail(Ring)[k] = Ring[k + 1]
  BY <1>4, <1>5, HeadTailProperties
<1>7. Tail(Ring) = [k \in 1..(Waiting - 1) |-> Ring[k + 1]]
  <2>1. Tail(Ring) \in [1..(Waiting - 1) -> Byte]
    BY <1>6, LenProperties
  <2> QED
    BY <1>6, <2>1
<1>8. \A k \in 1..(Waiting - 1) : k + 1 \in 1..Waiting
  BY <1>4
<1>9. Ring' = [k \in 1..(Waiting - 1) |-> PSK_BUF[SlotOf(k + 1)]]
  BY <1>1, <1>2, <1>3 DEF Ring
<1> QED
  BY <1>5, <1>7, <1>8, <1>9 DEF Ring

-----------------------------------------------------------------------------
(* The driver implements KeyFifo.                                          *)

typing == IF clocked <= Bits + 1 THEN code ELSE NoCode

\* What is known of every state the driver reaches.
Known == TypeOK /\ Found /\ InFrame

LEMMA InitMaps == Init => Fifo!FifoInit
<1> SUFFICES ASSUME Init PROVE Fifo!FifoInit
  OBVIOUS
<1>1. Waiting = 0
  BY RingAssumption DEF Init, Waiting
<1> QED
  BY <1>1, BitsAssumption DEF Init, Fifo!FifoInit

\* An edge is a stutter, or the byte's arrival.
LEMMA EdgeMaps ==
  ASSUME Known, TypeOK', Edge PROVE [Fifo!FifoNext]_Fifo!fvars
<1> USE BitsAssumption DEF Known
<1>1. clocked <= Bits \/ clocked = Bits + 1 \/ clocked = Bits + 2
  BY DEF TypeOK
<1>2. CASE clocked <= Bits
  <2>1. typing' = typing
    BY <1>2, EdgeInFrame DEF typing, TypeOK
  <2>2. Ring' = Ring
    BY <1>2, EdgeInFrame DEF Ring, Waiting, SlotOf
  <2> QED
    BY <2>1, <2>2 DEF Fifo!fvars, typing, Ring
<1>3. CASE clocked = Bits + 1
  <2>1. typing = code /\ typing # NoCode /\ typing' = NoCode
    BY <1>3, EdgeLastBit DEF typing
  <2>2. Ring' = IF Len(Ring) < N - 1 THEN Append(Ring, typing) ELSE Ring
    <3>1. Len(Ring) = Waiting /\ Waiting \in 0..(N - 1)
      BY RingTypes
    <3>2. CASE Succ(PSK_BUFO) = PSK_BUFI
      <4>1. Ring' = Ring
        BY <1>3, <3>2, EdgeLastBit DEF Ring, Waiting, SlotOf
      <4>2. ~(Len(Ring) < N - 1)
        BY <3>1, <3>2, RingFull, RingAssumption
      <4> QED
        BY <4>1, <4>2
    <3>3. CASE Succ(PSK_BUFO) # PSK_BUFI
      <4>1. Stores(code) /\ PSK_BUFI' = PSK_BUFI /\ code \in Byte
        BY <1>3, <3>3, EdgeLastBit, CodesAssumption DEF TypeOK, Byte
      <4> QED
        BY <2>1, <3>1, <4>1, StoresAppends
    <3> QED
      BY <3>2, <3>3
  <2>3. Fifo!Arrive
    BY <2>1, <2>2 DEF Fifo!Arrive, typing, Ring
  <2> QED
    BY <2>3 DEF Fifo!FifoNext
<1>4. CASE clocked = Bits + 2
  <2>1. typing' = NoCode /\ typing = NoCode
    BY <1>4, EdgeStopBit DEF typing
  <2>2. Ring' = Ring
    BY <1>4, EdgeStopBit DEF Ring, Waiting, SlotOf
  <2> QED
    BY <2>1, <2>2 DEF Fifo!fvars, typing, Ring
<1> QED
  BY <1>1, <1>2, <1>3, <1>4

LEMMA SendMaps ==
  ASSUME Known, NEW c \in Codes, Send(c) PROVE Fifo!FifoNext
<1>1. typing = NoCode /\ typing' = c
  BY BitsAssumption DEF Known, InFrame, Send, typing
<1>2. Ring' = Ring
  BY DEF Send, isr, Ring, Waiting, SlotOf
<1>3. Fifo!Type(c)
  BY <1>1, <1>2 DEF Fifo!Type, typing, Ring
<1> QED
  BY <1>3 DEF Fifo!FifoNext

LEMMA StoreInMaps ==
  ASSUME Known, TypeOK', StoreIn PROVE Fifo!FifoNext
<1>1. ~Empty
  BY DEF Known, Found, StoreIn, Goes
<1>2. Ring # <<>> /\ Ring' = Tail(Ring)
  BY <1>1, StoreInTails DEF Known
<1>3. typing' = typing
  BY DEF StoreIn, kbd, typing
<1>4. Fifo!Read
  BY <1>2, <1>3 DEF Fifo!Read, typing, Ring
<1> QED
  BY <1>4 DEF Fifo!FifoNext

LEMMA NextMaps ==
  Known /\ TypeOK' /\ [Next]_vars => [Fifo!FifoNext]_Fifo!fvars
<1> SUFFICES ASSUME Known, TypeOK', [Next]_vars PROVE [Fifo!FifoNext]_Fifo!fvars
  OBVIOUS
<1>1. CASE UNCHANGED <<kbd, isr, PSK_BUFI>>
  <2>1. typing' = typing /\ Ring' = Ring
    BY <1>1 DEF kbd, isr, typing, Ring, Waiting, SlotOf
  <2> QED
    BY <2>1 DEF Fifo!fvars, typing, Ring
<1>2. CASE Edge
  BY <1>2, EdgeMaps
<1>3. ASSUME NEW c \in Codes, Send(c) PROVE [Fifo!FifoNext]_Fifo!fvars
  BY <1>3, SendMaps
<1>4. CASE StoreIn
  BY <1>4, StoreInMaps
<1>5. CASE PSKlt \/ PSKVlt \/ Check \/ Arm \/ vidfr \/ Again \/ Fetch \/ UNCHANGED vars
  BY <1>1, <1>5 DEF PSKlt, PSKVlt, Check, Arm, vidfr, Again, Fetch, vars
<1> QED
  BY <1>2, <1>3, <1>4, <1>5 DEF Next, Reader

\* Whatever interrupts what, the driver is the bounded queue of KeyFifo, for
\* any size of ring and any bytes: none is made up, reordered or damaged, and
\* one is lost only when it completes while the ring is full.
THEOREM Implements == Spec => FifoSpec
<1>1. Init => Found /\ InFrame
  BY BitsAssumption DEF Init, Found, InFrame
<1>2. TypeOK /\ Found /\ [Next]_vars => Found'
  BY FoundStep
<1>3. TypeOK /\ InFrame /\ [Next]_vars => InFrame'
  BY InFrameStep
<1>4. TypeOK /\ Found /\ InFrame => Known
  BY DEF Known
<1>5. TypeOK /\ [Next]_vars => TypeOK'
  BY StepTypeOK
<1>6. Known => TypeOK
  BY DEF Known
<1> QED
  BY <1>1, <1>2, <1>3, <1>4, <1>5, <1>6, InitMaps, NextMaps, TypeCorrect, PTL
  DEF Spec, FifoSpec, Fifo!FifoSpec
=============================================================================
