------------------------------- MODULE MCPs2 -------------------------------
(* A plain key, an extended one, a key without a character, and the shifts.*)
EXTENDS Ps2
=============================================================================
