----------------------------- MODULE MspanBreak -----------------------------
(***************************************************************************)
(* Media spanning on the TRS-80, where a key can also end a prompt from    *)
(* outside: the keyboard's interrupt routine turns BREAK into QUIT         *)
(* (arch/z80/blk.fs B088).                                                 *)
(***************************************************************************)
EXTENDS MspanBlk

\* QUIT: the word is over, nothing is undone.
Break ==
  /\ ask = "key"
  /\ Ready
  /\ ask' = "check"
  /\ UNCHANGED <<buf, BLKat, BLKDTY, MSPAN_DISK, drives, sel, media>>

BreakSpec == Init /\ [][Next \/ Break]_vars
=============================================================================
