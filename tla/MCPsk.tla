------------------------------- MODULE MCPsk -------------------------------
(* Frames of two data bits, a ring of four slots of which three hold bytes.*)
EXTENDS Psk

MCCodes == {<<0, 0>>, <<0, 1>>, <<1, 1>>}
=============================================================================
