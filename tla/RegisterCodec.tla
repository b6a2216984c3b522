---------------------------- MODULE RegisterCodec ----------------------------
(***************************************************************************)
(* How a value is laid out in bytes on the wire: the generated codec       *)
(* (gen/go/m261points/codec.go) and the two-register slot that Modbus      *)
(* gives every point that is not an alarm (modbustcp/handlers.go).         *)
(*                                                                         *)
(* A byte is a number below Base, which is 256 in the code.  Integers are  *)
(* two's complement of their width.  Scales are 1, as they are throughout  *)
(* the catalog, and the bits of an F32 are taken for granted: its four     *)
(* bytes are laid out like those of an I32.                                *)
(***************************************************************************)
EXTENDS Integers, Sequences

CONSTANT Base

ASSUME BaseAssumption == Base \in Nat \ {0} /\ Base % 2 = 0

Byte == 0..Base - 1

\* How many values two bytes have, and four.
Size16 == Base * Base
Size32 == Size16 * Size16

ByteOrder == {"big", "little", "big_word_swap", "little_word_swap"}

-----------------------------------------------------------------------------
reverseInPlace(b) == [i \in 1..Len(b) |-> b[Len(b) + 1 - i]]

\* Only four bytes have two words to exchange.
swapWordsInPlace(b) == IF Len(b) = 4 THEN <<b[3], b[4], b[1], b[2]>> ELSE b

\* Mutant: the little-endian word swap forgets to reverse half of the bytes.
reorderRotated(b, order) ==
    CASE order = "big" -> b
      [] order = "little" -> reverseInPlace(b)
      [] order = "big_word_swap" -> swapWordsInPlace(b)
      [] order = "little_word_swap" -> IF Len(b) = 4 THEN <<b[2], b[3], b[4], b[1]>> ELSE reverseInPlace(b)

reorder(b, order) ==
    CASE order = "big" -> b
      [] order = "little" -> reverseInPlace(b)
      [] order = "big_word_swap" -> swapWordsInPlace(b)
      [] order = "little_word_swap" -> reverseInPlace(swapWordsInPlace(b))

-----------------------------------------------------------------------------
\* uintN(v), and intN(u): what Go's conversions do to a value of a given size.
toUnsigned(v, size) == v % size

toSigned(u, size) == IF 2 * u < size THEN u ELSE u - size

EncodeU8(v, order) == reorder(<<toUnsigned(v, Base)>>, order)

DecodeU8(b, order) == reorder(b, order)[1]

EncodeI16(v, order) ==
    LET u == toUnsigned(v, Size16) IN reorder(<<u \div Base, u % Base>>, order)

DecodeI16(b, order) ==
    LET r == reorder(b, order) IN toSigned(r[1] * Base + r[2], Size16)

\* EncodeF32's and EncodeI32's bytes.
bytesOf(u) ==
    <<u \div (Size16 * Base), (u \div Size16) % Base, (u \div Base) % Base, u % Base>>

bitsOf(r) == ((r[1] * Base + r[2]) * Base + r[3]) * Base + r[4]

EncodeI32(v, order) == reorder(bytesOf(toUnsigned(v, Size32)), order)

DecodeI32(b, order) == toSigned(bitsOf(reorder(b, order)), Size32)

EncodeF32(bits, order) == reorder(bytesOf(bits), order)

DecodeF32(b, order) == bitsOf(reorder(b, order))

-----------------------------------------------------------------------------
\* A point's slot on the Modbus wire: one pair of registers of two bytes.
encodeRegisterPair(v, order) ==
    LET b == EncodeI32(v, order) IN << <<b[1], b[2]>>, <<b[3], b[4]>> >>

decodeRegisterPair(pair, order) == DecodeI32(pair[1] \o pair[2], order)

-----------------------------------------------------------------------------
Signed(size) == -(size \div 2)..(size \div 2) - 1
Int16 == Signed(Size16)
Int32 == Signed(Size32)

\* What is decoded in the byte order it was encoded in is what it was.
RoundTrips ==
    \A order \in ByteOrder :
        /\ \A v \in Byte : DecodeU8(EncodeU8(v, order), order) = v
        /\ \A v \in Int16 : DecodeI16(EncodeI16(v, order), order) = v
        /\ \A v \in Int32 : /\ DecodeI32(EncodeI32(v, order), order) = v
                            /\ decodeRegisterPair(encodeRegisterPair(v, order), order) = v
        /\ \A bits \in 0..Size32 - 1 : DecodeF32(EncodeF32(bits, order), order) = bits
=============================================================================
