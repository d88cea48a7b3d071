------------------------------ MODULE MCSdCard ------------------------------
(* What a sector holds looks like silence, a token, an answer or a write   *)
(* command to whoever is out of step; one starts with what a driver that   *)
(* missed the token takes for it.  A sector is longer than a command with  *)
(* its waits, as it is in the code.                                        *)
EXTENDS SdCard

MCLong == {[i \in 1..12 |-> IF i \in {2, 10} THEN 254 ELSE IF i = 1 THEN 255 ELSE 0],
           [i \in 1..12 |-> IF i % 6 = 1 THEN 88 ELSE IF i = 8 THEN 254 ELSE 0]}
=============================================================================
