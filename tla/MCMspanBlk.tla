----------------------------- MODULE MCMspanBlk -----------------------------
(* Two disks of one and two blocks: the walk of dskchk both stops on a     *)
(* negative rest and runs to the last disk, and a disk has a second block. *)
EXTENDS MspanBreak

MCmsdsks == <<1, 2>>
=============================================================================
