------------------------------- MODULE BlkCtl -------------------------------
(***************************************************************************)
(* The words of the BLK subsystem (blk.fs B230-B231) and of the visual     *)
(* editor that move its three variables: the 1024-byte buffer BLK(, the    *)
(* number of the block it holds BLK>, and its dirty flag BLKDTY.           *)
(*                                                                         *)
(* This module is the control half: what each word does to the buffer and  *)
(* to the variables, and the order in which it asks the driver, (blk!) and *)
(* (blk@), to move the two 512-byte sectors every driver of the system     *)
(* moves a block in.  Where the sectors go is left to the modules that     *)
(* extend this one: Blk (one medium) and MspanBlk (many disks).            *)
(*                                                                         *)
(* A word that calls the driver takes several steps.  While it runs, pc    *)
(* says which way sectors move, sec how many have moved, after what the    *)
(* word does once the driver returns, and want and dst are its block       *)
(* arguments.                                                              *)
(***************************************************************************)
EXTENDS Integers

CONSTANTS
  Blks,     \* block numbers the media really holds
  Vals,     \* contents of one sector
  Blank     \* a sector full of spaces

NoBlk == -1                         \* $ffff: BLK> of an empty buffer
AllBlks == Blks \cup {NoBlk}        \* what BLK> and a driver call can name
Sectors == {0, 1}
Data == [Sectors -> Vals]

ASSUME BlksAssumption == Blks \subseteq Nat
ASSUME ValsAssumption == Blank \in Vals

VARIABLES
  buf,      \* BLK(
  BLKat,    \* BLK>
  BLKDTY,
  pc,       \* "ready", "put" (inside (blk!)) or "get" (inside (blk@))
  sec,      \* sectors the driver call has moved so far
  after,    \* "done", "free" (FLUSH), "fetch" (BLK@) or "reload" (VE's @)
  want,     \* block a BLK@ in progress is to fetch
  dst       \* destination of a COPY in progress, NoBlk otherwise

cvars == <<buf, BLKat, BLKDTY, pc, sec, after, want, dst>>

CtlTypeOK ==
  /\ buf \in Data
  /\ BLKat \in AllBlks
  /\ BLKDTY \in BOOLEAN
  /\ pc \in {"ready", "put", "get"}
  /\ sec \in 0..2
  /\ after \in {"done", "free", "fetch", "reload"}
  /\ want \in AllBlks
  /\ dst \in AllBlks

\* The machine is not inside a word that called the driver.
Ready ==
  /\ pc' = "ready"
  /\ sec' = 0
  /\ after' = "done"
  /\ want' = NoBlk
  /\ dst' = NoBlk

\* BLK$ on power-up: nothing in the buffer, whose bytes are what RAM held.
CtlInit ==
  /\ buf \in Data
  /\ BLKat = NoBlk
  /\ BLKDTY = FALSE
  /\ pc = "ready"
  /\ sec = 0
  /\ after = "done"
  /\ want = NoBlk
  /\ dst = NoBlk

CtlBoot ==
  /\ buf' \in Data
  /\ BLKat' = NoBlk
  /\ BLKDTY' = FALSE
  /\ Ready

-----------------------------------------------------------------------------
(* Entering the driver, and what follows when it returns. *)

\* Mutant of StartPut: the sector count of the last transfer is kept.
PutResumes(next, n, d) ==
  /\ pc' = "put"
  /\ sec' = sec
  /\ after' = next
  /\ want' = n
  /\ dst' = d

StartPut(next, n, d) ==
  /\ pc' = "put"
  /\ sec' = 0
  /\ after' = next
  /\ want' = n
  /\ dst' = d

StartGet(next, d) ==
  /\ pc' = "get"
  /\ sec' = 0
  /\ after' = next
  /\ want' = NoBlk
  /\ dst' = d

\* The part of a word that comes after its FLUSH found or made the buffer
\* clean.  FLUSH forgets the block; BLK@ then claims the one it wants before
\* it reads it.
Continue(next, n, d) ==
  \/ next = "done"  /\ Ready /\ UNCHANGED BLKat
  \/ next = "free"  /\ Ready /\ BLKat' = NoBlk
  \/ next = "fetch" /\ StartGet("fetch", d) /\ BLKat' = n

\* Mutants of FlushThen: the block is forgotten, or the flag taken down, or
\* the new block claimed, before the old one is written; or it is not written.
FlushForgetsFirst(next, n, d) ==
  /\ pc = "ready"
  /\ IF BLKDTY THEN /\ StartPut(next, n, d)
                    /\ BLKat' = IF next = "free" THEN NoBlk ELSE BLKat
               ELSE Continue(next, n, d)
  /\ UNCHANGED <<buf, BLKDTY>>

FlushDrops(next, n, d) ==
  /\ pc = "ready"
  /\ Continue(next, n, d)
  /\ BLKDTY' = FALSE
  /\ UNCHANGED buf

FlushClaimsFirst(next, n, d) ==
  /\ pc = "ready"
  /\ IF BLKDTY THEN /\ StartPut(next, n, d)
                    /\ BLKat' = IF next = "fetch" THEN n ELSE BLKat
               ELSE Continue(next, n, d)
  /\ UNCHANGED <<buf, BLKDTY>>

FlushThen(next, n, d) ==
  /\ pc = "ready"
  /\ IF BLKDTY THEN StartPut(next, n, d) /\ UNCHANGED BLKat
               ELSE Continue(next, n, d)
  /\ UNCHANGED <<buf, BLKDTY>>

-----------------------------------------------------------------------------
(* The words. *)

BLKstore ==                                  \* BLK!
  /\ pc = "ready"
  /\ StartPut("done", NoBlk, NoBlk)
  /\ UNCHANGED <<buf, BLKat, BLKDTY>>

FLUSH == FlushThen("free", NoBlk, NoBlk)

\* Mutant of BLKfetch: the block is read without a FLUSH.
FetchWithoutFlush(n) ==
  /\ n # BLKat /\ pc = "ready"
  /\ StartGet("fetch", NoBlk) /\ BLKat' = n
  /\ UNCHANGED <<buf, BLKDTY>>

BLKfetch(n) ==                               \* BLK@
  /\ n # BLKat
  /\ FlushThen("fetch", n, NoBlk)

\* FLUSH has emptied BLK> when BLK@ looks at it, so the source is always read.
COPY(s, d) == FlushThen("fetch", s, d)

KeepFlush == FlushThen("done", NoBlk, NoBlk) \* VE's !

Reload ==                                    \* VE's @
  /\ pc = "ready"
  /\ StartGet("reload", NoBlk)
  /\ UNCHANGED <<buf, BLKat, BLKDTY>>

\* Mutant of Edit: BLK!! is left out.
EditClean(s, v) ==
  /\ pc = "ready"
  /\ buf' = [buf EXCEPT ![s] = v]
  /\ UNCHANGED <<BLKat, BLKDTY, pc, sec, after, want, dst>>

\* A word that changes part of the buffer and calls BLK!!.
Edit(s, v) ==
  /\ pc = "ready"
  /\ buf' = [buf EXCEPT ![s] = v]
  /\ BLKDTY' = TRUE
  /\ UNCHANGED <<BLKat, pc, sec, after, want, dst>>

WIPE ==
  /\ pc = "ready"
  /\ buf' = [s \in Sectors |-> Blank]
  /\ BLKDTY' = TRUE
  /\ UNCHANGED <<BLKat, pc, sec, after, want, dst>>

-----------------------------------------------------------------------------
(* The driver's steps, as far as they concern the buffer: a sector leaves  *)
(* it, a sector (of contents v) enters it, the driver returns, or it fails *)
(* and ABORTs, which leaves the variables as they were and, on a read, the *)
(* sector under way with any contents.                                     *)

CtlPut ==
  /\ pc = "put" /\ sec \in Sectors
  /\ sec' = sec + 1
  /\ UNCHANGED <<buf, BLKat, BLKDTY, pc, after, want, dst>>

CtlGet(v) ==
  /\ pc = "get" /\ sec \in Sectors
  /\ sec' = sec + 1
  /\ buf' = [buf EXCEPT ![sec] = v]
  /\ UNCHANGED <<BLKat, BLKDTY, pc, after, want, dst>>

PutReturns ==
  /\ pc = "put" /\ sec = 2
  /\ BLKDTY' = FALSE
  /\ Continue(after, want, dst)
  /\ UNCHANGED buf

GetReturns ==
  /\ pc = "get" /\ sec = 2
  /\ BLKDTY' = (BLKDTY /\ after # "reload")
  /\ IF dst = NoBlk THEN Ready /\ UNCHANGED BLKat
                    ELSE StartPut("done", NoBlk, NoBlk) /\ BLKat' = dst
  /\ UNCHANGED buf

CtlAbort ==
  /\ pc # "ready" /\ sec \in Sectors
  /\ \/ pc = "put" /\ UNCHANGED buf
     \/ pc = "get" /\ \E v \in Vals : buf' = [buf EXCEPT ![sec] = v]
  /\ Ready
  /\ UNCHANGED <<BLKat, BLKDTY>>
=============================================================================
