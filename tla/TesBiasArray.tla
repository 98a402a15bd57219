----------------------------- MODULE TesBiasArray -----------------------------
(***************************************************************************)
(* Class TesBiasArray: sixteen signed words of 20 bits in forty bytes, two *)
(* words in five bytes, so that two neighbours share the byte between      *)
(* them.  Arrays are functions from 0 to bytes, little-endian as on the    *)
(* machines this runs on.                                                  *)
(***************************************************************************)
EXTENDS Integers

TesBiasCount == 16
TesBiasBufferSize == (TesBiasCount * 20) \div 8

Bytes == 0 .. 255
Words == 0 .. TesBiasCount - 1

\* A signed value of 20 bits, from an integer of more.
Low20(v) == ((v + 2 ^ 19) % 2 ^ 20) - 2 ^ 19

Unmasked(v, k) == v \div 256 ^ k     \* mutant
\* The k-th byte of an integer, in two's complement.
ByteOf(v, k) == (v \div 256 ^ k) % 256

WholeByte(old, new) == new     \* mutant: the neighbour's nibble is not kept
LowNibbleIn(old, new) == 16 * (old \div 16) + (new % 16)
HighNibbleIn(old, new) == 16 * (new \div 16) + (old % 16)

\* WordIndex: the five bytes a word is in, and which of their two words it is.
Block(index) == index \div 2
Word(index) == index % 2

(***************************************************************************)
(* setWord stores three bytes, in this order: StoreWord is the array after *)
(* the k-th of them, k from 0.                                             *)
(***************************************************************************)

Stored(index, k) == 5 * Block(index) + 2 * Word(index) + k

StoreWord(bytes, index, value, k) ==
  LET v == IF Word(index) = 0 THEN value ELSE 16 * value
      p == Stored(index, k)
  IN [bytes EXCEPT ![p] =
        IF Word(index) = 0 /\ k = 2 THEN LowNibbleIn(@, ByteOf(v, 2))
        ELSE IF Word(index) = 1 /\ k = 0 THEN HighNibbleIn(@, ByteOf(v, 0))
        ELSE ByteOf(v, k)]

setWord(bytes, index, value) ==
  StoreWord(StoreWord(StoreWord(bytes, index, value, 0), index, value, 1), index, value, 2)

\* A read of 32 bits, shifted by four for the second word, and cut to a
\* signed field of 20.
SignedWord(low, b0, b1, b2, b3) ==
  IF low THEN Low20(b0 + 2 ^ 8 * b1 + 2 ^ 16 * b2)
  ELSE Low20((b0 \div 16) + 2 ^ 4 * b1 + 2 ^ 12 * b2 + 2 ^ 20 * b3)

\* The bytes of the array start at a position of a longer buffer: the read of
\* the last word takes a byte that comes after the array.
getWord(buffer, start, index) ==
  LET p == start + 5 * Block(index) + 2 * Word(index)
  IN SignedWord(Word(index) = 0, buffer[p], buffer[p + 1], buffer[p + 2], buffer[p + 3])

=============================================================================
