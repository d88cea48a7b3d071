------------------------------- MODULE Words -------------------------------
(***************************************************************************)
(* Bytes, 16-bit words and the bits in them, as the C code's unsigned char *)
(* and unsigned short hold them: arithmetic wraps, and & | ^ act bit by    *)
(* bit.  Used by the models of the emulated processors.                    *)
(***************************************************************************)
EXTENDS Naturals, Integers

Byte == 0..255
Word == 0..65535

Lo(w) == w % 256
Hi(w) == (w \div 256) % 256
Join(hi, lo) == 256 * hi + lo

Bit(v, i) == (v \div 2^i) % 2 = 1

(* The number whose bits below n are those i with P(i). *)
FromBits(S, n) ==
    LET at[i \in 0..n] == IF i = 0 THEN 0
                          ELSE at[i - 1] + IF (i - 1) \in S THEN 2^(i - 1) ELSE 0
    IN  at[n]

BitsOf(v, n) == {i \in 0..(n - 1) : Bit(v, i)}

And(a, b, n) == FromBits(BitsOf(a, n) \cap BitsOf(b, n), n)
Or(a, b, n)  == FromBits(BitsOf(a, n) \cup BitsOf(b, n), n)
Xor(a, b, n) ==
    LET x == BitsOf(a, n)  y == BitsOf(b, n) IN FromBits((x \ y) \cup (y \ x), n)

(* The byte or word as a signed number. *)
Signed8(v)  == IF v < 128 THEN v ELSE v - 256
Signed16(v) == IF v < 32768 THEN v ELSE v - 65536
=============================================================================
