---------------------------- MODULE MspanProofs ----------------------------
(***************************************************************************)
(* The disks behind MSPAN are one medium, however many there are, whatever *)
(* their sizes and drives: every block of the span has a place of its own, *)
(* and the disk in the selected drive is that of the block under way.  So  *)
(* the words of BlkCtl implement module Blk here too, and what BlkProofs   *)
(* shows of the words in progress carries over through the refinement.     *)
(***************************************************************************)
EXTENDS MspanBlk, SequenceTheorems, WellFoundedInduction, TLAPS

-----------------------------------------------------------------------------
(* Numbers.                                                                *)

LEMMA LessIsWellFounded == IsWellFoundedOn({p \in Nat \X Nat : p[1] < p[2]}, Nat)
  BY NatLessThanWellFounded DEF OpToRel

\* A set of numbers that is not empty has a least one.
LEMMA Least ==
  ASSUME NEW S, S \subseteq Nat, S # {}
  PROVE  \E m \in S : \A n \in S : m <= n
<1> DEFINE R == {p \in Nat \X Nat : p[1] < p[2]}
<1>1. IsWellFoundedOn(R, Nat)
  BY LessIsWellFounded
<1> HIDE DEF R
<1>2. PICK m \in S : \A n \in S : <<n, m>> \notin R
  BY <1>1, WFMin
<1>3. ASSUME NEW n \in S PROVE m <= n
  <2>1. m \in Nat /\ n \in Nat
    BY <1>2, <1>3
  <2>2. <<n, m>> \in Nat \X Nat => <<n, m>> \in R \/ ~(n < m)
    BY Zenon DEF R
  <2>3. ~(n < m)
    BY <1>2, <1>3, <2>1, <2>2
  <2> QED
    BY <2>1, <2>3
<1> QED
  BY <1>2, <1>3

LEMMA SizesAreInts ==
  ASSUME NEW n \in Nat, NEW s \in Seq(1..n)
  PROVE  \A k \in 1..Len(s) : s[k] \in Int
<1>1. 1..n \subseteq Int
  OBVIOUS
<1> QED
  BY <1>1, LenProperties

LEMMA DiskSizes ==
  /\ Len(msdsks) \in Nat \ {0} /\ Len(msdsks) \in 1..Len(msdsks)
  /\ \A k \in 1..Len(msdsks) : msdsks[k] \in Int
<1>1. msdsks \in Seq(1..255) /\ Len(msdsks) > 0 /\ 255 \in Nat
  BY DisksAssumption
<1>2. Len(msdsks) \in Nat \ {0}
  BY <1>1, LenProperties
<1>3. \A k \in 1..Len(msdsks) : msdsks[k] \in Int
  BY <1>1, SizesAreInts
<1> QED
  BY <1>2, <1>3

\* The sums of the sizes of the first disks, up to the first m.
Sums(m, g) == \A k \in 0..m : g[k] = IF k = 0 THEN 0 ELSE g[k - 1] + msdsks[k]

LEMMA SumsExist == \E g \in [0..Len(msdsks) -> Int] : Sums(Len(msdsks), g)
<1> DEFINE L == Len(msdsks)
           Bad == {m \in 0..L : ~\E g \in [0..m -> Int] : Sums(m, g)}
<1>1. L \in Nat /\ \A k \in 1..L : msdsks[k] \in Int
  BY DiskSizes
<1> HIDE DEF L
<1>2. SUFFICES ASSUME Bad # {} PROVE FALSE
  BY <1>1 DEF L
<1>3. PICK m \in Bad : \A n \in Bad : m <= n
  <2>1. Bad \subseteq Nat
    BY <1>1
  <2> HIDE DEF Bad
  <2> QED
    BY <1>2, <2>1, Least
<1>4. CASE m = 0
  <2> DEFINE g == [k \in 0..0 |-> 0]
  <2>1. g \in [0..m -> Int] /\ Sums(m, g)
    BY <1>4 DEF Sums
  <2> QED
    BY <1>3, <2>1
<1>5. CASE m # 0
  <2>1. m \in 1..L /\ m - 1 \in 0..L /\ ~(m <= m - 1)
    BY <1>1, <1>3, <1>5
  <2>2. PICK g \in [0..(m - 1) -> Int] : Sums(m - 1, g)
    BY <1>3, <2>1
  <2> DEFINE h == [k \in 0..m |-> IF k = m THEN g[m - 1] + msdsks[m] ELSE g[k]]
  <2>3. g[m - 1] \in Int
    BY <1>1, <2>1, <2>2
  <2>4. h \in [0..m -> Int]
    BY <1>1, <2>1, <2>2, <2>3
  <2>5. ASSUME NEW k \in 0..m PROVE h[k] = IF k = 0 THEN 0 ELSE h[k - 1] + msdsks[k]
    BY <1>1, <2>1, <2>2 DEF Sums
  <2> HIDE DEF h
  <2>6. Sums(m, h)
    BY <2>5 DEF Sums
  <2> QED
    BY <1>3, <2>4, <2>6
<1> QED
  BY <1>4, <1>5

LEMMA SizesType == \A k \in 0..Len(msdsks) : sizeOf[k] \in Int
<1> DEFINE L == Len(msdsks)
           Def(f) == f = [k \in 0..L |-> IF k = 0 THEN 0 ELSE f[k - 1] + msdsks[k]]
           Bad == {k \in 0..L : sizeOf[k] \notin Int}
<1>1. L \in Nat /\ \A k \in 1..L : msdsks[k] \in Int
  BY DiskSizes
<1>2. PICK g \in [0..L -> Int] : Sums(L, g)
  BY SumsExist
<1>3. Def(g)
  BY <1>2 DEF Sums
<1>4. Def(sizeOf)
  BY <1>3, Zenon DEF sizeOf
<1> HIDE DEF L
<1>5. \A k \in 0..L : sizeOf[k] = IF k = 0 THEN 0 ELSE sizeOf[k - 1] + msdsks[k]
  BY <1>4, Zenon
<1>6. SUFFICES ASSUME Bad # {} PROVE FALSE
  BY DEF L
<1>7. PICK m \in Bad : \A n \in Bad : m <= n
  <2>1. Bad \subseteq Nat
    BY <1>1
  <2> HIDE DEF Bad
  <2> QED
    BY <1>6, <2>1, Least
<1>8. m # 0
  BY <1>5, <1>7
<1>9. m \in 1..L /\ m - 1 \in 0..L /\ ~(m <= m - 1)
  BY <1>1, <1>7, <1>8
<1>10. sizeOf[m - 1] \in Int
  BY <1>7, <1>9
<1>11. sizeOf[m] = sizeOf[m - 1] + msdsks[m] /\ msdsks[m] \in Int
  BY <1>1, <1>5, <1>7, <1>8, <1>9
<1>12. sizeOf[m] \in Int
  BY <1>10, <1>11
<1> QED
  BY <1>7, <1>12

\* dskchk's loop ends, on one of the disks.
LEMMA StopType == \A n : Stop(n) \in 1..Len(msdsks) /\ DiskOf(n) \in Disks
<1> TAKE n
<1> DEFINE L == Len(msdsks)
           S == {k \in 1..L : Stops(n, k)}
           Found(k) == Stops(n, k) /\ \A j \in 1..(k - 1) : ~Stops(n, j)
<1>1. L \in Nat \ {0} /\ L \in 1..L
  BY DiskSizes
<1>2. L \in S
  BY <1>1 DEF Stops
<1>3. PICK k \in S : \A j \in S : k <= j
  <2>1. S \subseteq Nat
    BY <1>1
  <2> HIDE DEF S
  <2> QED
    BY <1>2, <2>1, Least
<1>4. k \in 1..L /\ \A j \in 1..(k - 1) : j \in 1..L /\ ~(k <= j)
  BY <1>1, <1>3
<1>5. Found(k)
  BY <1>3, <1>4
<1>6. Stop(n) \in 1..L
  BY <1>4, <1>5, Zenon DEF Stop
<1> QED
  BY <1>1, <1>6 DEF DiskOf, Disks

\* Words that leave the same rest are equal.
LEMMA SameRest ==
  \A n, m \in Nat, s, c \in Int :
    /\ n < Width /\ m < Width
    /\ (((n - s) % Width) + c) % Width = (((m - s) % Width) + c) % Width
    => n = m
  BY DEF Width

(* Two blocks of the span are never in one place: the number of a block    *)
(* within its disk gives the number it has in the span back.               *)
LEMMA OwnPlace ==
  ASSUME NEW n \in Blks, NEW m \in Blks, DiskOf(n) = DiskOf(m), LocalOf(n) = LocalOf(m)
  PROVE  n = m
<1> DEFINE k == Stop(n)
<1>1. Stop(n) \in Nat /\ Stop(m) \in Nat
  BY StopType, DiskSizes
<1>2. Stop(m) = k
  BY <1>1 DEF DiskOf
<1>3. k \in 1..Len(msdsks) /\ k \in 0..Len(msdsks)
  BY StopType, DiskSizes
<1>4. sizeOf[k] \in Int /\ msdsks[k] \in Int
  BY <1>3, SizesType, DiskSizes
<1>5. n \in Nat /\ m \in Nat /\ n < Width /\ m < Width
  BY BlksAssumption, WordsAssumption DEF Width
<1>6. (((n - sizeOf[k]) % Width) + msdsks[k]) % Width
        = (((m - sizeOf[k]) % Width) + msdsks[k]) % Width
  BY <1>2, Zenon DEF LocalOf, Left
<1> HIDE DEF k
<1> QED
  BY <1>4, <1>5, <1>6, SameRest, Zenon

-----------------------------------------------------------------------------
(* The words over one medium.                                              *)

One == INSTANCE BlkProofs WITH disk <- spanned, torn <- FALSE, Outside <- {},
                               cut <- FALSE

Moving == Medium!TypeOK /\ Medium!Progress /\ Medium!Numbered

\* What BlkProofs shows of module Blk holds of any medium, the disks taken
\* together among them.
LEMMA MovingStep == Moving /\ [Medium!Next]_Medium!vars => Moving'
<1>1. Blks \subseteq Nat /\ Blank \in Vals /\ {} \subseteq {"abort", "noblk"} /\ "noblk" \notin {}
  BY BlksAssumption, ValsAssumption
<1>2. One!TypeOK /\ [One!Next]_One!vars => One!TypeOK'
  BY <1>1, One!TypeStep
<1>3. One!TypeOK /\ One!Progress /\ [One!Next]_One!vars => One!Progress'
  BY <1>1, One!ProgressStep
<1>4. One!TypeOK /\ One!Progress /\ One!Numbered /\ [One!Next]_One!vars => One!Numbered'
  BY <1>1, One!NumberedStep
<1> QED
  BY <1>2, <1>3, <1>4 DEF Moving, One!TypeOK, Medium!TypeOK,
       One!CtlTypeOK, Medium!CtlTypeOK, One!Progress, Medium!Progress,
       One!Numbered, Medium!Numbered, One!AllBlks, Medium!AllBlks,
       One!NoBlk, Medium!NoBlk, One!Data, Medium!Data,
       One!Sectors, Medium!Sectors, One!vars, Medium!vars,
       One!cvars, Medium!cvars, One!Next, Medium!Next, One!Word, Medium!Word,
       One!FLUSH, Medium!FLUSH, One!KeepFlush, Medium!KeepFlush,
       One!BLKfetch, Medium!BLKfetch, One!COPY, Medium!COPY,
       One!MayTouch, Medium!MayTouch, One!BLKstore, Medium!BLKstore,
       One!Reload, Medium!Reload, One!WIPE, Medium!WIPE,
       One!Edit, Medium!Edit, One!PutSector, Medium!PutSector,
       One!GetSector, Medium!GetSector, One!Returns, Medium!Returns,
       One!Abort, Medium!Abort, One!PowerCycle, Medium!PowerCycle,
       One!FlushThen, Medium!FlushThen, One!StartPut, Medium!StartPut,
       One!StartGet, Medium!StartGet, One!Continue, Medium!Continue,
       One!Ready, Medium!Ready, One!CtlPut, Medium!CtlPut,
       One!CtlGet, Medium!CtlGet, One!PutReturns, Medium!PutReturns,
       One!GetReturns, Medium!GetReturns, One!CtlAbort, Medium!CtlAbort,
       One!CtlBoot, Medium!CtlBoot
-----------------------------------------------------------------------------
(* The disks and the drives.                                               *)

DisksTypeOK ==
  /\ MSPAN_DISK \in Disks
  /\ ask \in {"check", "key", "go"}
  /\ drives \in [Drives -> Disks]
  /\ sel \in Drives
  /\ media \in [Disks -> [Locals -> Data]]

(* A driver call asks for its disk before it moves a sector, and prompts   *)
(* only over a clean buffer.                                               *)
Asks ==
  /\ pc = "ready" => ask = "check"
  /\ ask # "go" => sec = 0
  /\ ask = "key" => ~BLKDTY

(* Except in a prompt the disk asked for last is in the selected drive; it *)
(* is that of the call that goes on, and of the block in a buffer no word  *)
(* is at work on or that is to be saved.                                   *)
Inserted ==
  /\ ask # "key" => drives[sel] = MSPAN_DISK
  /\ ask # "check" => MSPAN_DISK = DiskOf(BLKat)
  /\ BLKat # NoBlk /\ (pc = "ready" \/ BLKDTY) => MSPAN_DISK = DiskOf(BLKat)

Inv == Moving /\ DisksTypeOK /\ Asks /\ Inserted

LEMMA NoBlkNotInBlks == NoBlk \notin Blks
  BY BlksAssumption DEF NoBlk

\* The types of module Blk are those of BlkCtl, and its invariants say which
\* block a word in progress is about.
LEMMA MovingCtl ==
  ASSUME Moving
  PROVE  /\ CtlTypeOK
         /\ BLKDTY \/ pc # "ready" => BLKat \in Blks
         /\ pc = "get" => after \in {"fetch", "reload"}
         /\ pc = "get" /\ after = "fetch" => ~BLKDTY
         /\ dst # NoBlk => after = "fetch"
  BY DEF Moving, Medium!TypeOK, Medium!CtlTypeOK, Medium!Data, Medium!Sectors, Medium!AllBlks,
         Medium!NoBlk, Medium!Progress, Medium!Numbered, CtlTypeOK, Data, Sectors, AllBlks, NoBlk

LEMMA SpannedType == media \in [Disks -> [Locals -> Data]] => spanned \in [AllBlks -> Data]
<1> SUFFICES ASSUME media \in [Disks -> [Locals -> Data]], NEW n \in AllBlks
             PROVE  (IF n = NoBlk THEN [s \in Sectors |-> Blank]
                     ELSE media[DiskOf(n)][LocalOf(n)]) \in Data
  BY DEF spanned
<1>1. CASE n = NoBlk
  BY <1>1, ValsAssumption DEF Data
<1>2. CASE n # NoBlk
  <2>1. n \in Blks /\ DiskOf(n) \in Disks
    BY <1>2, StopType DEF AllBlks
  <2>2. LocalOf(n) \in Locals
    BY <2>1 DEF Locals
  <2> QED
    BY <1>2, <2>1, <2>2
<1> QED
  BY <1>1, <1>2

-----------------------------------------------------------------------------
LEMMA DisksInit == Init => DisksTypeOK /\ Asks /\ Inserted
<1> SUFFICES ASSUME Init PROVE DisksTypeOK /\ Asks /\ Inserted
  OBVIOUS
<1>1. 0 \in Disks
  BY DiskSizes DEF Disks
<1>2. drives \in [Drives -> Disks] /\ drives[0] = 0 /\ sel = 0 /\ MSPAN_DISK = 0 /\ 0 \in Drives
  BY DrivesAssumption DEF Init, Injection
<1>3. media \in [Disks -> [Locals -> Data]] /\ ask = "check" /\ pc = "ready" /\ sec = 0
      /\ BLKat = NoBlk /\ BLKDTY = FALSE
  BY DEF Init, CtlInit
<1> QED
  BY <1>1, <1>2, <1>3 DEF DisksTypeOK, Asks, Inserted

\* A word leaves the buffer to no other block than before, unless its driver
\* call is yet to ask for the disk.
LEMMA WordAsks ==
  ASSUME Inv, Word
  PROVE  /\ pc = "ready" /\ sec' = 0 /\ UNCHANGED mvars
         /\ BLKat' # NoBlk /\ (pc' = "ready" \/ BLKDTY') => BLKat' = BLKat
<1>1. sec = 0 \/ pc # "ready"
  BY DEF Inv, Asks
<1>2. UNCHANGED mvars
  BY DEF Word
<1> DEFINE Good == /\ pc = "ready" /\ sec' = 0
                   /\ BLKat' # NoBlk /\ (pc' = "ready" \/ BLKDTY') => BLKat' = BLKat
<1>3. ASSUME NEW next, NEW n, NEW d, FlushThen(next, n, d) PROVE Good
  BY <1>3 DEF FlushThen, StartPut, StartGet, Continue, Ready
<1>4. ASSUME BLKstore \/ Reload \/ WIPE \/ \E s \in Sectors, v \in Vals : Edit(s, v) PROVE Good
  BY <1>1, <1>4 DEF BLKstore, Reload, WIPE, Edit, StartPut, StartGet
<1> HIDE DEF Good
<1>5. Good
  BY <1>3, <1>4 DEF Word, FLUSH, KeepFlush, BLKfetch, COPY
<1> QED
  BY <1>2, <1>5 DEF Good

\* The same when the driver returns to the word.
LEMMA ReturnAsks ==
  ASSUME Inv, Returns
  PROVE  /\ ask = "go" /\ ask' = "check" /\ sec' = 0
         /\ UNCHANGED <<MSPAN_DISK, drives, sel, media>>
         /\ BLKat' # NoBlk /\ (pc' = "ready" \/ BLKDTY') => BLKat' = BLKat
<1>1. ask' = "check" /\ UNCHANGED <<MSPAN_DISK, drives, sel, media>> /\ sec = 2
  BY DEF Returns, PutReturns, GetReturns
<1>2. ask = "go"
  BY <1>1 DEF Inv, Asks
<1>3. CASE PutReturns
  BY <1>1, <1>2, <1>3 DEF PutReturns, Continue, StartGet, Ready
<1>4. CASE GetReturns
  <2>1. dst # NoBlk => ~BLKDTY
    BY <1>4, MovingCtl DEF Inv, GetReturns
  <2>2. BLKDTY' => BLKDTY
    BY <1>4, Zenon DEF GetReturns
  <2> QED
    BY <1>1, <1>2, <1>4, <2>1, <2>2 DEF GetReturns, StartPut, Ready
<1> QED
  BY <1>3, <1>4 DEF Returns

LEMMA PutType ==
  ASSUME Inv, PutSector
  PROVE  media' \in [Disks -> [Locals -> Data]]
<1> DEFINE d == drives[sel]
           l == LocalOf(BLKat)
<1>1. /\ media' = [media EXCEPT ![d][l][sec] = buf[sec]]
      /\ sec \in Sectors /\ pc = "put"
  BY DEF PutSector, CtlPut
<1>2. buf[sec] \in Vals /\ d \in Disks /\ media \in [Disks -> [Locals -> Data]]
  BY <1>1, MovingCtl DEF Inv, DisksTypeOK, CtlTypeOK, Data
<1>3. l \in Locals
  BY <1>1, MovingCtl DEF Inv, Locals
<1> HIDE DEF d, l
<1>4. media[d] \in [Locals -> Data] /\ media[d][l] \in Data
  BY <1>2, <1>3
<1>5. [media[d][l] EXCEPT ![sec] = buf[sec]] \in Data
  BY <1>1, <1>2, <1>4 DEF Data
<1> QED
  BY <1>1, <1>2, <1>3, <1>4, <1>5

LEMMA DisksNext == Inv /\ [Next]_vars => (DisksTypeOK /\ Asks /\ Inserted)'
<1> SUFFICES ASSUME Inv, [Next]_vars PROVE (DisksTypeOK /\ Asks /\ Inserted)'
  OBVIOUS
<1> USE DEF Inv, DisksTypeOK, Asks, Inserted
<1>1. CASE Word
  BY <1>1, WordAsks DEF mvars
<1>2. CASE dskchk
  <2>1. DiskOf(BLKat) \in Disks
    BY StopType
  <2>2. BLKDTY => BLKat # NoBlk
    BY MovingCtl, NoBlkNotInBlks
  <2> QED
    BY <1>2, <2>1, <2>2 DEF dskchk, cvars
<1>3. ASSUME NEW d \in Disks, NEW v \in Drives, Swap(d, v) PROVE (DisksTypeOK /\ Asks /\ Inserted)'
  BY <1>3 DEF Swap, cvars
<1>4. ASSUME NEW v \in Drives, prompt(v) PROVE (DisksTypeOK /\ Asks /\ Inserted)'
  BY <1>4 DEF prompt, cvars
<1>5. CASE PutSector
  <2>1. media' \in [Disks -> [Locals -> Data]]
    BY <1>5, PutType
  <2> QED
    BY <1>5, <2>1 DEF PutSector, CtlPut
<1>6. CASE GetSector
  BY <1>6 DEF GetSector, CtlGet, mvars
<1>7. CASE Returns
  BY <1>7, ReturnAsks
<1>8. CASE PowerCycle
  <2>1. 0 \in Disks
    BY DiskSizes DEF Disks
  <2>2. /\ drives' \in [Drives -> Disks] /\ drives'[0] = 0 /\ sel' = 0 /\ MSPAN_DISK' = 0
        /\ 0 \in Drives /\ ask' = "check" /\ media' = media
    BY <1>8, DrivesAssumption DEF PowerCycle, Injection
  <2>3. pc' = "ready" /\ sec' = 0 /\ BLKat' = NoBlk
    BY <1>8 DEF PowerCycle, CtlBoot, Ready
  <2> QED
    BY <2>1, <2>2, <2>3
<1>9. CASE UNCHANGED vars
  BY <1>9 DEF vars, cvars, mvars
<1> QED
  BY <1>1, <1>2, <1>3, <1>4, <1>5, <1>6, <1>7, <1>8, <1>9 DEF Next

-----------------------------------------------------------------------------
(* The refinement.                                                         *)

LEMMA MapsInit == Init => Medium!Init
<1> SUFFICES ASSUME Init PROVE Medium!Init
  OBVIOUS
<1>1. spanned \in [AllBlks -> Data]
  BY SpannedType DEF Init
<1>2. CtlInit
  BY DEF Init
<1> QED
  BY <1>1, <1>2, Zenon DEF Medium!Init, CtlInit, Medium!CtlInit, AllBlks, Medium!AllBlks,
     Data, Medium!Data, Sectors, Medium!Sectors, NoBlk, Medium!NoBlk

\* A sector written to the disk is written to its block, and to no other.
LEMMA PutMaps ==
  ASSUME Inv, PutSector
  PROVE  Medium!PutSector
<1> DEFINE d == DiskOf(BLKat)
           l == LocalOf(BLKat)
<1>1. /\ media' = [media EXCEPT ![d][l][sec] = buf[sec]]
      /\ BLKat \in Blks /\ sec \in Sectors /\ pc = "put" /\ CtlPut
  BY MovingCtl DEF Inv, Inserted, PutSector, CtlPut
<1>2. d \in Disks /\ l \in Locals /\ media \in [Disks -> [Locals -> Data]]
  BY <1>1, StopType DEF Locals, Inv, DisksTypeOK
<1>3. ASSUME NEW n \in Blks, n # BLKat
      PROVE  media'[DiskOf(n)][LocalOf(n)] = media[DiskOf(n)][LocalOf(n)]
  <2>1. DiskOf(n) \in Disks /\ LocalOf(n) \in Locals
    BY StopType DEF Locals
  <2>2. DiskOf(n) # d \/ LocalOf(n) # l
    BY <1>1, <1>3, OwnPlace
  <2> HIDE DEF d, l
  <2> QED
    BY <1>1, <1>2, <2>1, <2>2
<1>4. media'[d][l] = [media[d][l] EXCEPT ![sec] = buf[sec]]
  <2> HIDE DEF d, l
  <2> QED
    BY <1>1, <1>2
<1>5. spanned[BLKat] = media[d][l]
  BY <1>1, NoBlkNotInBlks DEF spanned, AllBlks
<1>6. ASSUME NEW n \in AllBlks
      PROVE  spanned'[n] = [spanned EXCEPT ![BLKat][sec] = buf[sec]][n]
  <2>1. CASE n = BLKat
    BY <1>1, <1>4, <1>5, <2>1, NoBlkNotInBlks DEF spanned, AllBlks
  <2>2. CASE n # BLKat
    BY <1>3, <2>2 DEF spanned, AllBlks
  <2> QED
    BY <2>1, <2>2
<1>7. spanned' = [spanned EXCEPT ![BLKat][sec] = buf[sec]]
  <2>1. spanned' = [n \in AllBlks |-> spanned'[n]]
    BY DEF spanned
  <2>2. [spanned EXCEPT ![BLKat][sec] = buf[sec]]
          = [n \in AllBlks |-> [spanned EXCEPT ![BLKat][sec] = buf[sec]][n]]
    BY DEF spanned
  <2> QED
    BY <1>6, <2>1, <2>2
<1> QED
  BY <1>1, <1>7 DEF Medium!PutSector, Medium!CtlPut, Medium!Sectors, CtlPut, Sectors

\* One read from it is read from its block.
LEMMA GetMaps ==
  ASSUME Inv, GetSector
  PROVE  Medium!GetSector
<1>1. /\ pc = "get" /\ ask = "go" /\ UNCHANGED media
      /\ CtlGet(media[drives[sel]][LocalOf(BLKat)][sec])
  BY DEF GetSector, CtlGet, mvars
<1>2. BLKat \in Blks /\ drives[sel] = DiskOf(BLKat)
  BY <1>1, MovingCtl DEF Inv, Inserted
<1>3. spanned[BLKat] = media[drives[sel]][LocalOf(BLKat)]
  BY <1>2, NoBlkNotInBlks DEF spanned, AllBlks
<1>4. spanned' = spanned
  BY <1>1 DEF spanned
<1> QED
  BY <1>1, <1>3, <1>4 DEF Medium!GetSector, Medium!CtlGet, Medium!Sectors, CtlGet, Sectors
LEMMA Stutters ==
  ASSUME UNCHANGED <<cvars, media>>
  PROVE  UNCHANGED Medium!vars
  BY DEF cvars, Medium!vars, Medium!cvars, spanned

LEMMA MapsNext == Inv /\ [Next]_vars => [Medium!Next]_Medium!vars
<1> SUFFICES ASSUME Inv, [Next]_vars PROVE [Medium!Next]_Medium!vars
  OBVIOUS
<1>1. CASE Word
  <2>1. spanned' = spanned
    BY <1>1 DEF Word, mvars, spanned
  <2>2. Medium!Word
    BY <1>1, <2>1 DEF Medium!MayTouch, Word, Medium!Word, FLUSH, Medium!FLUSH,
         KeepFlush, Medium!KeepFlush, BLKfetch, Medium!BLKfetch, COPY,
         Medium!COPY, BLKstore, Medium!BLKstore, Reload, Medium!Reload, WIPE,
         Medium!WIPE, Edit, Medium!Edit, FlushThen, Medium!FlushThen,
         StartPut, Medium!StartPut, StartGet, Medium!StartGet, Continue,
         Medium!Continue, Ready, Medium!Ready, NoBlk, Medium!NoBlk, Sectors,
         Medium!Sectors
  <2> QED
    BY <2>2 DEF Medium!Next
<1>2. CASE dskchk
  BY <1>2, Stutters DEF dskchk
<1>3. ASSUME NEW d \in Disks, NEW v \in Drives, Swap(d, v) PROVE UNCHANGED Medium!vars
  BY <1>3, Stutters DEF Swap
<1>4. ASSUME NEW v \in Drives, prompt(v) PROVE UNCHANGED Medium!vars
  BY <1>4, Stutters DEF prompt
<1>5. CASE PutSector
  BY <1>5, PutMaps DEF Medium!Next
<1>6. CASE GetSector
  BY <1>6, GetMaps DEF Medium!Next
<1>7. CASE Returns
  <2>1. spanned' = spanned
    BY <1>7 DEF Returns, spanned
  <2>2. Medium!Returns
    BY <1>7, <2>1 DEF Returns, Medium!Returns, PutReturns, Medium!PutReturns,
         GetReturns, Medium!GetReturns, StartPut, Medium!StartPut, StartGet,
         Medium!StartGet, Continue, Medium!Continue, Ready, Medium!Ready,
         NoBlk, Medium!NoBlk
  <2> QED
    BY <2>2 DEF Medium!Next
<1>8. CASE PowerCycle
  <2>1. spanned' = spanned
    BY <1>8 DEF PowerCycle, spanned
  <2>2. Medium!PowerCycle
    BY <1>8, <2>1 DEF PowerCycle, Medium!PowerCycle, CtlBoot, Medium!CtlBoot,
         Ready, Medium!Ready, Data, Medium!Data, Sectors, Medium!Sectors,
         NoBlk, Medium!NoBlk
  <2> QED
    BY <2>2 DEF Medium!Next
<1>9. CASE UNCHANGED vars
  BY <1>9, Stutters DEF vars, mvars
<1> QED
  BY <1>1, <1>2, <1>3, <1>4, <1>5, <1>6, <1>7, <1>8, <1>9 DEF Next

-----------------------------------------------------------------------------
LEMMA InvInit == Init => Inv
<1> SUFFICES ASSUME Init PROVE Moving
  BY DisksInit DEF Inv
<1>1. Medium!Init
  BY MapsInit
<1>2. Medium!TypeOK
  <2>1. spanned \in [AllBlks -> Data]
    BY SpannedType DEF Init
  <2>2. CtlTypeOK
    <3>1. 0 \in 0..2
      OBVIOUS
    <3> QED
      BY <3>1, Zenon DEF Init, CtlInit, CtlTypeOK, AllBlks
  <2> QED
    BY <2>1, <2>2 DEF Medium!TypeOK, Medium!CtlTypeOK, CtlTypeOK, AllBlks, Medium!AllBlks,
       Data, Medium!Data, Sectors, Medium!Sectors, NoBlk, Medium!NoBlk
<1> QED
  BY <1>1, <1>2 DEF Moving, Medium!Init, Medium!CtlInit, Medium!Progress, Medium!Numbered

LEMMA InvNext == Inv /\ [Next]_vars => Inv'
<1>1. Inv /\ [Next]_vars => Moving'
  BY MapsNext, MovingStep DEF Inv
<1> QED
  BY <1>1, DisksNext DEF Inv

\* All of it holds in every state.
THEOREM Invariance == Spec => []Inv
  BY InvInit, InvNext, PTL DEF Spec

\* The variables keep their types, whatever the disks and drives.
THEOREM Types == Spec => []TypeOK
<1>1. Inv => TypeOK
  BY MovingCtl DEF Inv, DisksTypeOK, TypeOK
<1> QED
  BY <1>1, Invariance, PTL

\* The driver never moves a sector of another disk than the block's: the disk
\* prompted for last is in the selected drive (blk.fs B237, dskchk).
THEOREM OnTheRightDisk == Spec => []RightDisk
<1>1. Inv => RightDisk
  BY DEF Inv, Inserted, RightDisk
<1> QED
  BY <1>1, Invariance, PTL

\* The drive changes in a prompt only while nothing is left to save.
THEOREM DrivesFlushed == Spec => DrvselFlushed
<1>1. Inv /\ [Next]_vars => [sel' # sel /\ ask = "key" => ~BLKDTY]_vars
  BY DEF Inv, Asks
<1> QED
  BY <1>1, Invariance, PTL DEF Spec, DrvselFlushed

(* The disks implement the BLK subsystem over one medium (module Blk),     *)
(* whose own theorems then hold of the span.                               *)
THEOREM OneMedium == Spec => MediumSpec
<1>1. Init => Medium!Init
  BY MapsInit
<1>2. Inv /\ [Next]_vars => [Medium!Next]_Medium!vars
  BY MapsNext
<1> QED
  BY <1>1, <1>2, Invariance, PTL DEF Spec, MediumSpec, Medium!Spec

\* So the span is the store doc/blk.txt describes too: what is saved stays where
\* it was, and only the active block changes.
THEOREM OneStore == Spec => One!StoreSpec
<1>1. Blks \subseteq Nat /\ Blank \in Vals /\ {} \subseteq {"abort", "noblk"} /\ "noblk" \notin {}
  BY BlksAssumption, ValsAssumption
<1>2. One!Spec => One!StoreSpec
  BY <1>1, One!Implements
<1>3. (Medium!Init <=> One!Init) /\ ([Medium!Next]_Medium!vars <=> [One!Next]_One!vars)
  BY DEF One!Init, Medium!Init, One!CtlInit, Medium!CtlInit, One!AllBlks,
       Medium!AllBlks, One!NoBlk, Medium!NoBlk, One!Data, Medium!Data, One!Sectors,
       Medium!Sectors, One!vars, Medium!vars, One!cvars, Medium!cvars, One!Next,
       Medium!Next, One!Word, Medium!Word, One!FLUSH, Medium!FLUSH, One!KeepFlush,
       Medium!KeepFlush, One!BLKfetch, Medium!BLKfetch, One!COPY, Medium!COPY,
       One!MayTouch, Medium!MayTouch, One!BLKstore, Medium!BLKstore, One!Reload,
       Medium!Reload, One!WIPE, Medium!WIPE, One!Edit, Medium!Edit, One!PutSector,
       Medium!PutSector, One!GetSector, Medium!GetSector, One!Returns,
       Medium!Returns, One!Abort, Medium!Abort, One!PowerCycle, Medium!PowerCycle,
       One!FlushThen, Medium!FlushThen, One!StartPut, Medium!StartPut, One!StartGet,
       Medium!StartGet, One!Continue, Medium!Continue, One!Ready, Medium!Ready,
       One!CtlPut, Medium!CtlPut, One!CtlGet, Medium!CtlGet, One!PutReturns,
       Medium!PutReturns, One!GetReturns, Medium!GetReturns, One!CtlAbort,
       Medium!CtlAbort, One!CtlBoot, Medium!CtlBoot
<1>4. Medium!Spec => One!Spec
  BY <1>3, PTL DEF Medium!Spec, One!Spec
<1> QED
  BY <1>2, <1>4, OneMedium DEF MediumSpec
=============================================================================
