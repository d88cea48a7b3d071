------------------------------ MODULE BlkPower ------------------------------
(***************************************************************************)
(* The BLK subsystem with a record of what its last step was.  A power cut *)
(* during FLUSH can leave just what FLUSH leaves when it returns: the same *)
(* bytes in the buffer, no block, nothing dirty.  What may forget unsaved  *)
(* changes and what may not is told apart by cut, which nothing reads.     *)
(***************************************************************************)
EXTENDS Blk

VARIABLE cut     \* the last step was a power cut

pvars == <<vars, cut>>

PowerInit == Init /\ cut = FALSE

PowerNext ==
  \/ /\ Word \/ PutSector \/ GetSector \/ Returns \/ Abort
     /\ cut' = FALSE
  \/ PowerCycle /\ cut' = TRUE

PowerSpec == PowerInit /\ [][PowerNext]_pvars

-----------------------------------------------------------------------------

\* The dirty flag goes down only once both sectors are on the medium, or
\* because VE's @ reads the block anew, or because the power was cut: FLUSH,
\* BLK@, COPY and VE's ! never forget a change, and a driver that gives up
\* half way leaves them all to be saved again (blk.fs B231).
CleanMeansSaved ==
  [][ BLKDTY /\ ~BLKDTY' =>
        \/ disk'[BLKat] = buf
        \/ pc = "get" /\ after = "reload"
        \/ cut' ]_pvars
=============================================================================
