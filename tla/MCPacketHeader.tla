---------------------------- MODULE MCPacketHeader ----------------------------
(* Instance of PacketHeader for TLC. *)
EXTENDS PacketHeader

\* Every byte of a header can be told from the others, and has both values of
\* every bit.
MCFirmware == {[k \in 0 .. 127 |-> k], [k \in 0 .. 127 |-> 255 - k]}

\* A word that is the first of its five bytes, its neighbour, the last word.
MCRegisters == {2, 3, 32}
MCLevels == {-524288, 524287, 371111}
MCEditWords == {0, 1, 15}
MCBiases == {-1, 524287, -524288}
=============================================================================
