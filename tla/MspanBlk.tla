------------------------------ MODULE MspanBlk ------------------------------
(***************************************************************************)
(* The Media Spanning subsystem (blk.fs B237, doc/mspan.txt) between the   *)
(* words of BlkCtl and a driver that only reaches the disk in the selected *)
(* drive.  Before each (blk!) or (blk@), dskchk turns the block number     *)
(* into a disk and a block of that disk and, when MSPAN_DISK says another  *)
(* disk is in, prompts for it.  The person at the keyboard swaps disks     *)
(* during a prompt, then presses a key: a digit selects a drive (DRVSEL).  *)
(*                                                                         *)
(* She is assumed to do what the prompt asks, and to boot with disk 0 in   *)
(* drive 0; in module MspanBreak she may also leave the prompt.            *)
(***************************************************************************)
EXTENDS BlkCtl, Sequences, FiniteSets, Functions

CONSTANTS
  msdsks,    \* (msdsks): how many blocks each disk holds
  Drives     \* drives DRVSEL can select; drive 0 after FD$

ASSUME DisksAssumption ==
  msdsks \in Seq(1..255) /\ Len(msdsks) > 0
ASSUME DrivesAssumption == /\ 0 \in Drives /\ Drives \subseteq 0..9
                            /\ Cardinality(Drives) <= Len(msdsks)

Disks == 0..(Len(msdsks) - 1)
Width == 65536

\* A block number is a 16-bit word, and $ffff is no block's.
ASSUME WordsAssumption == \A n \in Blks : n < Width - 1

\* What is left of n once the sizes of the first k disks are taken off.
sizeOf[k \in 0..Len(msdsks)] == IF k = 0 THEN 0 ELSE sizeOf[k - 1] + msdsks[k]
Left(n, k) == (n - sizeOf[k]) % Width

\* dskchk's loop stops at the first disk that makes the rest negative (its
\* sign bit is set), or at the last one; the disk's size is then added back.
Stops(n, k) == Left(n, k) >= Width \div 2 \/ k = Len(msdsks)
Stop(n) == CHOOSE k \in 1..Len(msdsks) :
             Stops(n, k) /\ \A j \in 1..(k - 1) : ~Stops(n, j)

DiskOf(n) == Stop(n) - 1

LocalOf(n) == (Left(n, Stop(n)) + msdsks[Stop(n)]) % Width

Locals == {LocalOf(n) : n \in Blks}

VARIABLES
  MSPAN_DISK,
  ask,       \* of the driver call under way: "check", "key" (in prompt), "go"
  drives,    \* the disk in each drive
  sel,       \* the selected drive
  media      \* what the disks hold

mvars == <<MSPAN_DISK, ask, drives, sel, media>>
vars == <<cvars, mvars>>

TypeOK ==
  /\ CtlTypeOK
  /\ MSPAN_DISK \in Disks
  /\ ask \in {"check", "key", "go"}
  /\ drives \in [Drives -> Disks]
  /\ sel \in Drives
  /\ media \in [Disks -> [Locals -> Data]]

Init ==
  /\ CtlInit
  /\ MSPAN_DISK = 0                                    \* MSPAN$
  /\ ask = "check"
  /\ drives \in Injection(Drives, Disks) /\ drives[0] = 0
  /\ sel = 0
  /\ media \in [Disks -> [Locals -> Data]]

PowerCycle ==
  /\ CtlBoot
  /\ MSPAN_DISK' = 0
  /\ ask' = "check"
  /\ drives' \in Injection(Drives, Disks) /\ drives'[0] = 0
  /\ sel' = 0
  /\ UNCHANGED media

Word ==
  /\ \/ FLUSH
     \/ KeepFlush
     \/ \E n \in Blks : BLKfetch(n)
     \/ \E s, d \in Blks : COPY(s, d)
     \/ /\ BLKat # NoBlk
        /\ \/ BLKstore
           \/ Reload
           \/ WIPE
           \/ \E s \in Sectors, v \in Vals : Edit(s, v)
  /\ UNCHANGED mvars

-----------------------------------------------------------------------------

\* Mutant of dskchk: the disk asked for is not remembered.
CheckForgets ==
  /\ pc # "ready" /\ ask = "check"
  /\ ask' = IF MSPAN_DISK = DiskOf(BLKat) THEN "go" ELSE "key"
  /\ UNCHANGED <<cvars, MSPAN_DISK, drives, sel, media>>

\* Mutant of dskchk: the disk is taken from the byte after its size.
CheckNext ==
  /\ pc # "ready" /\ ask = "check"
  /\ MSPAN_DISK' = Stop(BLKat)
  /\ ask' = IF MSPAN_DISK = Stop(BLKat) THEN "go" ELSE "key"
  /\ UNCHANGED <<cvars, drives, sel, media>>

dskchk ==
  /\ pc # "ready" /\ ask = "check"
  /\ MSPAN_DISK' = DiskOf(BLKat)
  /\ ask' = IF MSPAN_DISK = DiskOf(BLKat) THEN "go" ELSE "key"
  /\ UNCHANGED <<cvars, drives, sel, media>>

\* A disk can be in one drive only: the one it came from gets the other disk.
Swap(d, v) ==
  /\ ask = "key"
  /\ drives' = [w \in Drives |-> IF w = v THEN d
                                 ELSE IF drives[w] = d THEN drives[v]
                                 ELSE drives[w]]
  /\ UNCHANGED <<cvars, MSPAN_DISK, ask, sel, media>>

\* The key that ends prompt: a digit selects a drive, another key none.
prompt(v) ==
  /\ ask = "key"
  /\ drives[v] = MSPAN_DISK
  /\ sel' = v
  /\ ask' = "go"
  /\ UNCHANGED <<cvars, MSPAN_DISK, drives, media>>

\* Mutant of PutSector: (blk!) is given the number of the span, as (ms!) would
\* be if its doer did not leave dskchk's newblk in its place.
PutUnmapped ==
  /\ ask = "go" /\ CtlPut
  /\ media' = [media EXCEPT ![drives[sel]][BLKat] = 
                 IF BLKat \in Locals THEN [@ EXCEPT ![sec] = buf[sec]] ELSE @]
  /\ UNCHANGED <<MSPAN_DISK, ask, drives, sel>>

PutSector ==
  /\ ask = "go" /\ CtlPut
  /\ media' = [media EXCEPT ![drives[sel]][LocalOf(BLKat)][sec] = buf[sec]]
  /\ UNCHANGED <<MSPAN_DISK, ask, drives, sel>>

GetSector ==
  /\ ask = "go" /\ CtlGet(media[drives[sel]][LocalOf(BLKat)][sec])
  /\ UNCHANGED mvars

Returns ==
  /\ PutReturns \/ GetReturns
  /\ ask' = "check"
  /\ UNCHANGED <<MSPAN_DISK, drives, sel, media>>

Next ==
  \/ Word
  \/ dskchk
  \/ \E d \in Disks, v \in Drives : Swap(d, v)
  \/ \E v \in Drives : prompt(v)
  \/ PutSector
  \/ GetSector
  \/ Returns
  \/ PowerCycle

Spec == Init /\ [][Next]_vars

-----------------------------------------------------------------------------

\* When the driver moves a sector, the disk in the selected drive is the one
\* the block lives on (doc/mspan.txt:23-31: "it checks whether the block
\* currently being requested is on the same disk as the one inserted before").
RightDisk ==
  pc # "ready" /\ ask = "go" => drives[sel] = DiskOf(BLKat)

\* A prompt changes drives only while nothing is left to save: a dirty block's
\* disk is always the one asked for last, so only BLK@ (after its FLUSH) and
\* COPY's write of a clean buffer prompt (doc/mspan.txt:58-59: "This word is
\* always called on a FLUSHed system").
DrvselFlushed == [][ sel' # sel /\ ask = "key" => ~BLKDTY ]_vars

\* The disks, taken together, are the one medium of module Blk: each block of
\* the span is a place of its own, whatever is swapped and selected meanwhile.
spanned == [n \in AllBlks |-> IF n = NoBlk THEN [s \in Sectors |-> Blank]
                              ELSE media[DiskOf(n)][LocalOf(n)]]

Medium == INSTANCE Blk WITH disk <- spanned, torn <- FALSE, Outside <- {}

\* MSPAN with its disks implements the BLK subsystem over one medium.
MediumSpec == Medium!Spec
=============================================================================
