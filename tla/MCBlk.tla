-------------------------------- MODULE MCBlk --------------------------------
(* Model-checking instance of Blk, with the record of power cuts. *)
EXTENDS BlkPower
=============================================================================
