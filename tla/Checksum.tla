------------------------------ MODULE Checksum ------------------------------
(***************************************************************************)
(* The checksum of a packet.  It keeps only the upper half of the          *)
(* register, and then divides bit by bit.                                  *)
(***************************************************************************)
EXTENDS Integers, SequencesExt, Bitwise

Divided(r) == IF r % 2 = 1 THEN (r \div 2) ^^ 40961 ELSE r \div 2   \* A001

Remainder ==        \* after the eight bits of a character
  [c \in 0 .. 255 |->
     FoldLeft(LAMBDA r, bit : Divided(r), c, <<1, 2, 3, 4, 5, 6, 7, 8>>)]

CRC16(d) ==
  FoldLeft(LAMBDA r, c : Remainder[(r \div 256) ^^ c], 65535, d)
=============================================================================
