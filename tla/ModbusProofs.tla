---------------------------- MODULE ModbusProofs ----------------------------
(***************************************************************************)
(* Proofs about RegisterCodec and ModbusServer, for any points, catalog,   *)
(* byte order, number of connections, frames and link operations: decoding *)
(* inverts encoding, a completed drop leaves nobody connected, a response  *)
(* is one instant's view, a write changes the registers it addressed and   *)
(* no other, and the heartbeat never runs backwards.                       *)
(*                                                                         *)
(* First the codec's arithmetic; then ModbusIInv, the locks and what they  *)
(* protect; then, on top of it, WriteInv, what a write under way holds, and*)
(* BeatInv, what the clients have seen of the heartbeat.                   *)
(***************************************************************************)
EXTENDS ModbusServer, TLAPS

\* Division and remainder are determined by their defining equation.
LEMMA DivisionUnique ==
    ASSUME NEW q \in Int, NEW m \in Int, m > 0, NEW r \in Int, 0 <= r, r < m
    PROVE  (m * q + r) \div m = q /\ (m * q + r) % m = r
<1> DEFINE n == m * q + r
<1>1. n \in Int
  OBVIOUS
<1>2. q = n \div m /\ r = n % m
  BY <1>1, SMTT(60)
<1> QED
  BY <1>2

\* What \div and % promise.
LEMMA Division ==
    ASSUME NEW n \in Int, NEW m \in Int, m > 0
    PROVE  /\ n \div m \in Int /\ n % m \in 0 .. m - 1
           /\ n = m * (n \div m) + (n % m)
  BY SMT

\* The base, and the number of values of two bytes and of four, are even.
LEMMA BaseFacts == Base \in Nat /\ Base >= 2 /\ Base % 2 = 0
<1>1. Base \in Nat \ {0} /\ Base % 2 = 0
  BY BaseAssumption
<1> QED
  BY <1>1, SMT

\* Two digits of a number to the base m make a number below m * n, ...
LEMMA Digits ==
    ASSUME NEW m \in Nat, m > 0, NEW n \in Nat, NEW q \in 0 .. n - 1, NEW r \in 0 .. m - 1
    PROVE  /\ m * n \in Nat /\ q * m + r \in 0 .. m * n - 1
           /\ (q * m + r) \div m = q /\ (q * m + r) % m = r
<1>1. q \in Nat /\ r \in Nat /\ q * m \in Nat /\ m * n \in Nat /\ q <= n - 1 /\ r <= m - 1
      /\ m * q = q * m
  OBVIOUS
<1>2. m * q <= m * (n - 1)
  BY <1>1
<1>3. m * (n - 1) = m * n - m
  OBVIOUS
<1>4. (m * q + r) \div m = q /\ (m * q + r) % m = r
  BY <1>1, DivisionUnique
<1> QED
  BY <1>1, <1>2, <1>3, <1>4

\* ... and a number below m * n has two digits.
LEMMA TwoDigits ==
    ASSUME NEW m \in Nat, m > 0, NEW n \in Nat, NEW u \in 0 .. m * n - 1
    PROVE  /\ u \div m \in 0 .. n - 1 /\ u % m \in 0 .. m - 1
           /\ u = (u \div m) * m + (u % m)
<1>1. m * n \in Nat
  OBVIOUS
<1>2. u \in Int /\ u >= 0 /\ u < m * n
  BY <1>1
<1> DEFINE q == u \div m
           r == u % m
<1>3. q \in Int /\ r \in 0 .. m - 1 /\ u = m * q + r
  BY <1>2, Division
<1> HIDE DEF q, r
<1>4. q >= 0
  <2> SUFFICES ASSUME q <= -1
               PROVE  FALSE
    BY <1>3
  <2>1. m * q <= m * (-1)
    BY <1>3
  <2> QED
    BY <1>2, <1>3, <2>1
<1>5. q <= n - 1
  <2> SUFFICES ASSUME q >= n
               PROVE  FALSE
    BY <1>3
  <2>1. m * q >= m * n
    BY <1>3
  <2> QED
    BY <1>2, <1>3, <2>1
<1>6. m * q = q * m
  BY <1>3
<1> QED
  BY <1>3, <1>4, <1>5, <1>6 DEF q, r

LEMMA Sizes ==
    /\ Size16 \in Nat /\ Size16 > 0 /\ Size16 = Base * Base /\ Size16 % 2 = 0
    /\ Size32 \in Nat /\ Size32 > 0 /\ Size32 = Size16 * Size16 /\ Size32 % 2 = 0
<1>1. PICK k \in Nat : Base = 2 * k /\ k > 0
  <2>1. Base = 2 * (Base \div 2) + (Base % 2) /\ Base \div 2 \in Int
    BY BaseFacts, Division
  <2> DEFINE h == Base \div 2
  <2>2. h \in Int /\ Base = 2 * h + 0
    BY <2>1, BaseFacts
  <2> HIDE DEF h
  <2>3. h \in Nat /\ h > 0 /\ Base = 2 * h
    BY <2>2, BaseFacts
  <2> QED
    BY <2>3
<1>2. ASSUME NEW x \in Nat, NEW h \in Nat, x = 2 * h, h > 0
      PROVE  /\ x * x \in Nat /\ h * x \in Nat /\ h * x > 0 /\ x * x = 2 * (h * x)
  <2>1. x * x = (2 * h) * x /\ x >= 1
    BY <1>2
  <2>2. (2 * h) * x = 2 * (h * x)
    BY <1>2
  <2>3. h * x >= h * 1
    BY <1>2, <2>1
  <2> QED
    BY <1>2, <2>1, <2>2, <2>3
<1>3. /\ Base * Base \in Nat /\ k * Base \in Nat /\ k * Base > 0 /\ Base * Base = 2 * (k * Base)
  BY <1>1, <1>2, BaseFacts
<1>4. Size16 \in Nat /\ Size16 > 0 /\ Size16 % 2 = 0
  BY <1>3 DEF Size16
<1>5. PICK h \in Nat : Size16 = 2 * h /\ h > 0
  BY <1>3 DEF Size16
<1>6. Size16 * Size16 \in Nat /\ h * Size16 \in Nat /\ h * Size16 > 0
      /\ Size16 * Size16 = 2 * (h * Size16)
  BY <1>2, <1>4, <1>5
<1>7. Size32 \in Nat /\ Size32 > 0 /\ Size32 % 2 = 0
  BY <1>6 DEF Size32
<1> QED
  BY <1>4, <1>7 DEF Size16, Size32

\* What a conversion to unsigned and back leaves of a number.
LEMMA SignedUnsigned ==
    ASSUME NEW size \in Nat, size > 0, size % 2 = 0, NEW v \in Signed(size)
    PROVE  toUnsigned(v, size) \in 0 .. size - 1 /\ toSigned(toUnsigned(v, size), size) = v
<1>1. v \in Int /\ size = 2 * (size \div 2) /\ -(size \div 2) <= v /\ v <= (size \div 2) - 1
      /\ size \div 2 \in Int
  BY DEF Signed
<1>2. CASE v >= 0
  <2>1. v % size = v
    <3>1. (size * 0 + v) % size = v
      BY <1>1, <1>2, DivisionUnique
    <3> QED
      BY <1>1, <3>1
  <2> QED
    BY <1>1, <1>2, <2>1 DEF toUnsigned, toSigned
<1>3. CASE v < 0
  <2>1. v % size = v + size
    <3>1. (size * (-1) + (v + size)) % size = v + size
      BY <1>1, <1>3, DivisionUnique
    <3>2. size * (-1) + (v + size) = v
      BY <1>1
    <3> QED
      BY <3>1, <3>2
  <2> QED
    BY <1>1, <1>3, <2>1 DEF toUnsigned, toSigned
<1> QED
  BY <1>1, <1>2, <1>3

\* And back again.
LEMMA UnsignedSigned ==
    ASSUME NEW size \in Nat, size > 0, size % 2 = 0, NEW u \in 0 .. size - 1
    PROVE  toSigned(u, size) \in Signed(size) /\ toUnsigned(toSigned(u, size), size) = u
<1>1. size = 2 * (size \div 2) /\ size \div 2 \in Int /\ u \in Int /\ 0 <= u /\ u < size
  OBVIOUS
<1>2. CASE 2 * u < size
  <2>1. toSigned(u, size) = u /\ u % size = u
    <3>1. (size * 0 + u) % size = u
      BY <1>1, DivisionUnique
    <3> QED
      BY <1>1, <1>2, <3>1 DEF toSigned
  <2> QED
    BY <1>1, <1>2, <2>1 DEF toUnsigned, Signed
<1>3. CASE 2 * u >= size
  <2>1. toSigned(u, size) = u - size
    BY <1>1, <1>3 DEF toSigned
  <2>2. (u - size) % size = u
    <3>1. (size * (-1) + u) % size = u
      BY <1>1, DivisionUnique
    <3>2. size * (-1) + u = u - size
      BY <1>1
    <3> QED
      BY <3>1, <3>2
  <2> QED
    BY <1>1, <1>3, <2>1, <2>2 DEF toUnsigned, Signed
<1> QED
  BY <1>1, <1>2, <1>3

\* Dividing by Base twice, and three times.
LEMMA Quotients ==
    ASSUME NEW u \in 0 .. Size32 - 1
    PROVE  LET q1 == u \div Base
               q2 == q1 \div Base IN
           /\ u \div Size16 = q2 /\ u \div (Size16 * Base) = q2 \div Base
           /\ u % Base \in Byte /\ q1 % Base \in Byte /\ q2 % Base \in Byte /\ q2 \div Base \in Byte
           /\ q1 \in Nat /\ q2 \in Nat
           /\ u = q1 * Base + (u % Base) /\ q1 = q2 * Base + (q1 % Base)
           /\ q2 = (q2 \div Base) * Base + (q2 % Base)
<1> DEFINE q1 == u \div Base
           q2 == q1 \div Base
           d1 == q2 \div Base
           d2 == q2 % Base
           d3 == q1 % Base
           d4 == u % Base
           low == d3 * Base + d4
<1>1. Base \in Nat /\ Base > 0 /\ Size16 \in Nat /\ Size16 > 0 /\ Size16 = Base * Base
      /\ Size32 \in Nat /\ Size32 = Size16 * Size16 /\ u \in Int /\ u >= 0 /\ u < Size32
  BY BaseFacts, Sizes
<1>2. q1 \in Int /\ d4 \in 0 .. Base - 1 /\ u = Base * q1 + d4
  BY <1>1, Division
<1>3. q2 \in Int /\ d3 \in 0 .. Base - 1 /\ q1 = Base * q2 + d3
  BY <1>1, <1>2, Division
<1>4. d1 \in Int /\ d2 \in 0 .. Base - 1 /\ q2 = Base * d1 + d2
  BY <1>1, <1>3, Division
<1>5. low \in 0 .. Size16 - 1
  BY <1>1, <1>2, <1>3, Digits
<1>6. u = Size16 * q2 + low
  <2> HIDE DEF q1, q2, d3, d4
  <2>1. Base * (Base * q2 + d3) = (Base * Base) * q2 + Base * d3
    BY <1>1, <1>2, <1>3
  <2> QED
    BY <1>1, <1>2, <1>3, <2>1
<1>7. u \div Size16 = q2
  <2> HIDE DEF q2, low
  <2> QED
    BY <1>1, <1>3, <1>5, <1>6, DivisionUnique
<1>8. q2 \in 0 .. Size16 - 1
  BY <1>1, <1>7, TwoDigits
<1>9. d1 \in 0 .. Base - 1
  BY <1>1, <1>8, TwoDigits
<1>10. d2 * Size16 + low \in 0 .. Size16 * Base - 1 /\ Size16 * Base \in Nat
  <2> HIDE DEF d2, low
  <2> QED
    BY <1>1, <1>4, <1>5, Digits
<1>11. u = (Size16 * Base) * d1 + (d2 * Size16 + low)
  <2> HIDE DEF q2, d1, d2, low
  <2>1. Size16 * (Base * d1 + d2) = (Size16 * Base) * d1 + d2 * Size16
    BY <1>1, <1>4
  <2>2. u = Size16 * (Base * d1 + d2) + low
    BY <1>4, <1>6
  <2> QED
    BY <1>1, <1>4, <1>5, <2>1, <2>2
<1>12. u \div (Size16 * Base) = d1
  <2> DEFINE m == Size16 * Base
             rest == d2 * Size16 + low
  <2>1. m \in Int /\ rest \in Int /\ 0 <= rest /\ rest < m /\ m > 0
    BY <1>1, <1>10
  <2>2. u = m * d1 + rest
    BY <1>11
  <2> HIDE DEF m, rest, d1
  <2>3. u \div m = d1
    BY <1>4, <2>1, <2>2, DivisionUnique
  <2> QED
    BY <2>3 DEF m
<1>13. q1 \in Nat
  <2> HIDE DEF q1, q2, d3
  <2> QED
    BY <1>1, <1>2, <1>3, <1>8
<1> QED
  BY <1>1, <1>2, <1>3, <1>4, <1>7, <1>8, <1>9, <1>12, <1>13 DEF Byte

\* EncodeI32's bytes are bytes, and their bits are the number again, ...
LEMMA BitsOfBytes ==
    ASSUME NEW u \in 0 .. Size32 - 1
    PROVE  /\ bytesOf(u) \in Byte \X Byte \X Byte \X Byte
           /\ bitsOf(bytesOf(u)) = u
<1> DEFINE q1 == u \div Base
           q2 == q1 \div Base
<1>1. bytesOf(u) = <<q2 \div Base, q2 % Base, q1 % Base, u % Base>>
  BY Quotients DEF bytesOf
<1>2. /\ u % Base \in Byte /\ q1 % Base \in Byte /\ q2 % Base \in Byte /\ q2 \div Base \in Byte
      /\ u = q1 * Base + (u % Base) /\ q1 = q2 * Base + (q1 % Base)
      /\ q2 = (q2 \div Base) * Base + (q2 % Base)
  BY Quotients
<1> HIDE DEF q1, q2
<1>3. bitsOf(bytesOf(u)) = (((q2 \div Base) * Base + (q2 % Base)) * Base + (q1 % Base)) * Base
                             + (u % Base)
  BY <1>1 DEF bitsOf
<1> QED
  BY <1>1, <1>2, <1>3

\* ... and any four bytes are the bytes of their bits.
LEMMA BytesOfBits ==
    ASSUME NEW a \in Byte, NEW b \in Byte, NEW c \in Byte, NEW d \in Byte
    PROVE  /\ bitsOf(<<a, b, c, d>>) \in 0 .. Size32 - 1
           /\ bytesOf(bitsOf(<<a, b, c, d>>)) = <<a, b, c, d>>
<1> DEFINE x == a * Base + b
           y == x * Base + c
           z == y * Base + d
<1>1. Base \in Nat /\ Base > 0 /\ Size16 \in Nat /\ Size16 > 0 /\ Size16 = Base * Base
      /\ Size32 \in Nat /\ Size32 = Size16 * Size16
  BY BaseFacts, Sizes
<1>2. x \in 0 .. Size16 - 1 /\ x \div Base = a /\ x % Base = b
  BY <1>1, Digits DEF Byte
<1> HIDE DEF x
<1>3. /\ Base * Size16 \in Nat /\ y \in 0 .. Base * Size16 - 1
      /\ y \div Base = x /\ y % Base = c
  BY <1>1, <1>2, Digits DEF Byte
<1> HIDE DEF y
<1>4. /\ z \in 0 .. Base * (Base * Size16) - 1
      /\ z \div Base = y /\ z % Base = d
  BY <1>1, <1>3, Digits DEF Byte
<1>5. Base * (Base * Size16) = Size32
  BY <1>1
<1>6. bitsOf(<<a, b, c, d>>) = z
  BY DEF bitsOf, x, y
<1> HIDE DEF z
<1>7. z \in 0 .. Size32 - 1
  BY <1>4, <1>5
<1>8. bytesOf(z) = <<x \div Base, x % Base, y % Base, z % Base>>
  BY <1>3, <1>4, <1>7, Quotients DEF bytesOf
<1> QED
  BY <1>2, <1>3, <1>4, <1>6, <1>7, <1>8

\* Reversing undoes itself, swapping undoes itself, and they commute, ...
LEMMA Reversals ==
    ASSUME NEW S, NEW b \in S \X S \X S \X S
    PROVE  /\ reverseInPlace(b) = <<b[4], b[3], b[2], b[1]>>
           /\ swapWordsInPlace(b) = <<b[3], b[4], b[1], b[2]>>
           /\ reverseInPlace(b) \in S \X S \X S \X S
           /\ swapWordsInPlace(b) \in S \X S \X S \X S
<1>1. b = <<b[1], b[2], b[3], b[4]>> /\ b[1] \in S /\ b[2] \in S /\ b[3] \in S /\ b[4] \in S
  OBVIOUS
<1>2. Len(b) = 4
  BY <1>1
<1>3. reverseInPlace(b) = [i \in 1 .. 4 |-> b[5 - i]]
  BY <1>2 DEF reverseInPlace
<1>4. [i \in 1 .. 4 |-> b[5 - i]] = <<b[4], b[3], b[2], b[1]>>
  OBVIOUS
<1>5. swapWordsInPlace(b) = <<b[3], b[4], b[1], b[2]>>
  BY <1>2 DEF swapWordsInPlace
<1> QED
  BY <1>1, <1>3, <1>4, <1>5

\* ... so a byte order undoes itself.
LEMMA ReorderFour ==
    ASSUME NEW order \in ByteOrder, NEW S, NEW b \in S \X S \X S \X S
    PROVE  /\ reorder(b, order) \in S \X S \X S \X S
           /\ reorder(reorder(b, order), order) = b
<1> DEFINE Four == S \X S \X S \X S
<1>1. order = "big" \/ order = "little" \/ order = "big_word_swap" \/ order = "little_word_swap"
  BY DEF ByteOrder
<1>2. \A x : /\ order = "big" => reorder(x, order) = x
             /\ order = "little" => reorder(x, order) = reverseInPlace(x)
             /\ order = "big_word_swap" => reorder(x, order) = swapWordsInPlace(x)
             /\ order = "little_word_swap" =>
                  reorder(x, order) = reverseInPlace(swapWordsInPlace(x))
  BY DEF reorder
<1>3. ASSUME NEW x \in Four
      PROVE  /\ reverseInPlace(x) \in Four /\ swapWordsInPlace(x) \in Four
             /\ reverseInPlace(reverseInPlace(x)) = x /\ swapWordsInPlace(swapWordsInPlace(x)) = x
             /\ reverseInPlace(swapWordsInPlace(x)) = swapWordsInPlace(reverseInPlace(x))
  <2> DEFINE r == reverseInPlace(x)
             w == swapWordsInPlace(x)
  <2>1. x = <<x[1], x[2], x[3], x[4]>>
    OBVIOUS
  <2>2. /\ r \in Four /\ w \in Four
        /\ r = <<x[4], x[3], x[2], x[1]>> /\ w = <<x[3], x[4], x[1], x[2]>>
    BY Reversals
  <2> HIDE DEF r, w
  <2>3. reverseInPlace(r) = <<r[4], r[3], r[2], r[1]>>
    BY <2>2, Reversals
  <2>4. swapWordsInPlace(r) = <<r[3], r[4], r[1], r[2]>>
    BY <2>2, Reversals
  <2>5. swapWordsInPlace(w) = <<w[3], w[4], w[1], w[2]>>
    BY <2>2, Reversals
  <2>6. reverseInPlace(w) = <<w[4], w[3], w[2], w[1]>>
    BY <2>2, Reversals
  <2>7. reverseInPlace(r) = x
    BY <2>1, <2>2, <2>3
  <2>8. swapWordsInPlace(w) = x
    BY <2>1, <2>2, <2>5
  <2>9. reverseInPlace(w) = swapWordsInPlace(r)
    BY <2>2, <2>4, <2>6
  <2> QED
    BY <2>2, <2>7, <2>8, <2>9 DEF r, w
<1> DEFINE rev == reverseInPlace(b)
           swap == swapWordsInPlace(b)
<1>4. b \in Four /\ rev \in Four /\ swap \in Four
  BY <1>3
<1> HIDE DEF Four
<1>5. CASE order = "big"
  BY <1>2, <1>4, <1>5 DEF Four
<1>6. CASE order = "little"
  BY <1>2, <1>3, <1>4, <1>6 DEF Four
<1>7. CASE order = "big_word_swap"
  BY <1>2, <1>3, <1>4, <1>7 DEF Four
<1>8. CASE order = "little_word_swap"
  <2> DEFINE both == reverseInPlace(swap)
  <2>1. both \in Four /\ reorder(b, order) = both
    BY <1>2, <1>3, <1>4, <1>8
  <2>2. reorder(both, order) = reverseInPlace(swapWordsInPlace(both))
    BY <1>2, <1>8
  <2>3. swapWordsInPlace(both) = reverseInPlace(swapWordsInPlace(swap))
    BY <1>3, <1>4
  <2>4. swapWordsInPlace(both) = rev
    BY <1>3, <1>4, <2>3
  <2>5. reverseInPlace(rev) = b
    BY <1>3, <1>4
  <2> QED
    BY <2>1, <2>2, <2>4, <2>5 DEF Four
<1> QED
  BY <1>1, <1>5, <1>6, <1>7, <1>8

\* Shorter values have no words to exchange.
LEMMA ReorderTwo ==
    ASSUME NEW order \in ByteOrder, NEW S, NEW b \in S \X S
    PROVE  reorder(reorder(b, order), order) = b
<1>1. order = "big" \/ order = "little" \/ order = "big_word_swap" \/ order = "little_word_swap"
  BY DEF ByteOrder
<1>2. ASSUME NEW x \in S \X S
      PROVE  /\ reverseInPlace(x) = <<x[2], x[1]>> /\ reverseInPlace(x) \in S \X S
             /\ swapWordsInPlace(x) = x
  <2>1. x = <<x[1], x[2]>> /\ x[1] \in S /\ x[2] \in S
    OBVIOUS
  <2>2. Len(x) = 2
    BY <2>1
  <2>3. reverseInPlace(x) = [i \in 1 .. 2 |-> x[3 - i]]
    BY <2>2 DEF reverseInPlace
  <2>4. [i \in 1 .. 2 |-> x[3 - i]] = <<x[2], x[1]>>
    OBVIOUS
  <2>5. swapWordsInPlace(x) = x
    BY <2>2 DEF swapWordsInPlace
  <2> QED
    BY <2>1, <2>3, <2>4, <2>5
<1>3. \A x : /\ order = "big" => reorder(x, order) = x
             /\ order = "little" => reorder(x, order) = reverseInPlace(x)
             /\ order = "big_word_swap" => reorder(x, order) = swapWordsInPlace(x)
             /\ order = "little_word_swap" =>
                  reorder(x, order) = reverseInPlace(swapWordsInPlace(x))
  BY DEF reorder
<1> DEFINE r == reverseInPlace(b)
<1>4. r \in S \X S /\ r = <<b[2], b[1]>> /\ swapWordsInPlace(b) = b
  BY <1>2
<1> HIDE DEF r
<1>5. swapWordsInPlace(r) = r /\ reverseInPlace(r) = <<r[2], r[1]>>
  BY <1>2, <1>4
<1>6. <<r[2], r[1]>> = b
  BY <1>4
<1>7. CASE order = "big" \/ order = "big_word_swap"
  BY <1>3, <1>4, <1>7
<1>8. CASE order = "little" \/ order = "little_word_swap"
  <2>1. reorder(b, order) = r
    BY <1>3, <1>4, <1>8 DEF r
  <2>2. reorder(r, order) = reverseInPlace(r)
    BY <1>3, <1>5, <1>8
  <2> QED
    BY <1>5, <1>6, <2>1, <2>2
<1> QED
  BY <1>1, <1>7, <1>8

\* One byte is as it is in any order.
LEMMA ReorderOne ==
    ASSUME NEW order \in ByteOrder, NEW v
    PROVE  reorder(<<v>>, order) = <<v>>
<1> DEFINE b == <<v>>
<1>1. order = "big" \/ order = "little" \/ order = "big_word_swap" \/ order = "little_word_swap"
  BY DEF ByteOrder
<1>2. Len(b) = 1 /\ b[1] = v
  OBVIOUS
<1>3. reverseInPlace(b) = b
  <2>1. reverseInPlace(b) = [i \in 1 .. 1 |-> b[2 - i]]
    BY <1>2 DEF reverseInPlace
  <2> QED
    BY <2>1
<1>4. swapWordsInPlace(b) = b
  BY <1>2 DEF swapWordsInPlace
<1> HIDE DEF b
<1> QED
  BY <1>1, <1>3, <1>4 DEF reorder, b

\* Four bytes are two registers of two.
LEMMA TwoAndTwo ==
    ASSUME NEW S, NEW b \in S \X S \X S \X S
    PROVE  <<b[1], b[2]>> \o <<b[3], b[4]>> = b
OBVIOUS

Pairs == (Byte \X Byte) \X (Byte \X Byte)

\* A number of 32 bits comes back from its four bytes, and from its pair of
\* registers, ...
LEMMA DecodeEncode ==
    ASSUME NEW order \in ByteOrder, NEW v \in Int32
    PROVE  /\ DecodeI32(EncodeI32(v, order), order) = v
           /\ encodeRegisterPair(v, order) \in Pairs
           /\ decodeRegisterPair(encodeRegisterPair(v, order), order) = v
<1> DEFINE u == toUnsigned(v, Size32)
           b == EncodeI32(v, order)
<1>1. u \in 0 .. Size32 - 1 /\ toSigned(u, Size32) = v
  BY Sizes, SignedUnsigned DEF Int32
<1>2. bytesOf(u) \in Byte \X Byte \X Byte \X Byte /\ bitsOf(bytesOf(u)) = u
  BY <1>1, BitsOfBytes
<1>3. b \in Byte \X Byte \X Byte \X Byte /\ reorder(b, order) = bytesOf(u)
  BY <1>2, ReorderFour DEF EncodeI32
<1>4. DecodeI32(b, order) = v
  BY <1>1, <1>2, <1>3 DEF DecodeI32
<1>5. encodeRegisterPair(v, order) = << <<b[1], b[2]>>, <<b[3], b[4]>> >>
  BY DEF encodeRegisterPair
<1> HIDE DEF b, u
<1>6. encodeRegisterPair(v, order) \in Pairs
  BY <1>3, <1>5 DEF Pairs
<1>7. <<b[1], b[2]>> \o <<b[3], b[4]>> = b
  BY <1>3, TwoAndTwo
<1>8. decodeRegisterPair(encodeRegisterPair(v, order), order) = v
  <2>1. encodeRegisterPair(v, order)[1] = <<b[1], b[2]>>
        /\ encodeRegisterPair(v, order)[2] = <<b[3], b[4]>>
    BY <1>5
  <2> QED
    BY <1>4, <1>7, <2>1, Zenon DEF decodeRegisterPair
<1> QED
  BY <1>4, <1>6, <1>8 DEF b

\* ... and a pair of registers from the number it is.
LEMMA EncodeDecode ==
    ASSUME NEW order \in ByteOrder, NEW pair \in Pairs
    PROVE  /\ decodeRegisterPair(pair, order) \in Int32
           /\ encodeRegisterPair(decodeRegisterPair(pair, order), order) = pair
<1>1. PICK p \in Byte, q \in Byte, r \in Byte, s \in Byte : pair = << <<p, q>>, <<r, s>> >>
  BY DEF Pairs
<1> DEFINE b == <<p, q, r, s>>
           u == bitsOf(reorder(b, order))
           v == toSigned(u, Size32)
<1>2. b \in Byte \X Byte \X Byte \X Byte
  OBVIOUS
<1>3. reorder(b, order) \in Byte \X Byte \X Byte \X Byte /\ reorder(reorder(b, order), order) = b
  BY <1>2, ReorderFour
<1>4. PICK w \in Byte, x \in Byte, y \in Byte, z \in Byte : reorder(b, order) = <<w, x, y, z>>
  BY <1>3
<1>5. u \in 0 .. Size32 - 1 /\ bytesOf(u) = reorder(b, order)
  BY <1>4, BytesOfBits
<1>6. v \in Int32 /\ toUnsigned(v, Size32) = u
  BY <1>5, Sizes, UnsignedSigned DEF Int32
<1>7. decodeRegisterPair(pair, order) = v
  <2>1. pair[1] \o pair[2] = b
    <3>1. pair[1] = <<b[1], b[2]>> /\ pair[2] = <<b[3], b[4]>>
      BY <1>1
    <3> HIDE DEF b
    <3>2. <<b[1], b[2]>> \o <<b[3], b[4]>> = b
      BY <1>2, TwoAndTwo
    <3> QED
      BY <3>1, <3>2, Zenon
  <2> QED
    BY <2>1 DEF decodeRegisterPair, DecodeI32
<1> HIDE DEF v, u
<1>8. EncodeI32(v, order) = b
  BY <1>3, <1>5, <1>6 DEF EncodeI32
<1>9. encodeRegisterPair(v, order) = << <<b[1], b[2]>>, <<b[3], b[4]>> >>
  BY <1>8 DEF encodeRegisterPair
<1> QED
  BY <1>1, <1>6, <1>7, <1>9

\* Decoding inverts encoding at every width and in every byte order (codec.go).
THEOREM CodecRoundTrips == RoundTrips
<1> SUFFICES ASSUME NEW order \in ByteOrder
             PROVE  /\ \A v \in Byte : DecodeU8(EncodeU8(v, order), order) = v
                    /\ \A v \in Int16 : DecodeI16(EncodeI16(v, order), order) = v
                    /\ \A v \in Int32 :
                         /\ DecodeI32(EncodeI32(v, order), order) = v
                         /\ decodeRegisterPair(encodeRegisterPair(v, order), order) = v
                    /\ \A bits \in 0 .. Size32 - 1 :
                         DecodeF32(EncodeF32(bits, order), order) = bits
  BY Zenon DEF RoundTrips
<1>1. ASSUME NEW v \in Byte
      PROVE  DecodeU8(EncodeU8(v, order), order) = v
  <2>1. toUnsigned(v, Base) = v
    <3>1. v \in Int /\ 0 <= v /\ v < Base /\ Base \in Int
      BY BaseFacts DEF Byte
    <3>2. (Base * 0 + v) % Base = v
      BY <3>1, DivisionUnique
    <3>3. Base * 0 + v = v
      BY <3>1
    <3> QED
      BY <3>2, <3>3 DEF toUnsigned
  <2>2. EncodeU8(v, order) = <<v>> /\ reorder(<<v>>, order) = <<v>>
    BY <2>1, ReorderOne, Zenon DEF EncodeU8
  <2> QED
    BY <2>2 DEF DecodeU8
<1>2. ASSUME NEW v \in Int16
      PROVE  DecodeI16(EncodeI16(v, order), order) = v
  <2> DEFINE u == toUnsigned(v, Size16)
             b == <<u \div Base, u % Base>>
  <2>1. u \in 0 .. Size16 - 1 /\ toSigned(u, Size16) = v
    BY Sizes, SignedUnsigned DEF Int16
  <2>2. u = (u \div Base) * Base + (u % Base)
    BY <2>1, Sizes, BaseFacts, TwoDigits
  <2>3. reorder(EncodeI16(v, order), order) = b
    <3>1. b \in (0 .. Size16) \X (0 .. Size16)
      BY <2>1, Sizes, BaseFacts, TwoDigits
    <3>2. EncodeI16(v, order) = reorder(b, order)
      BY DEF EncodeI16
    <3> HIDE DEF b
    <3> QED
      BY <3>1, <3>2, ReorderTwo
  <2> HIDE DEF u
  <2>4. b[1] * Base + b[2] = u
    BY <2>2
  <2> QED
    BY <2>1, <2>3, <2>4 DEF DecodeI16
<1>3. ASSUME NEW v \in Int32
      PROVE  /\ DecodeI32(EncodeI32(v, order), order) = v
             /\ decodeRegisterPair(encodeRegisterPair(v, order), order) = v
  BY DecodeEncode
<1>4. ASSUME NEW bits \in 0 .. Size32 - 1
      PROVE  DecodeF32(EncodeF32(bits, order), order) = bits
  <2>1. bytesOf(bits) \in Byte \X Byte \X Byte \X Byte /\ bitsOf(bytesOf(bits)) = bits
    BY BitsOfBytes
  <2>2. reorder(EncodeF32(bits, order), order) = bytesOf(bits)
    BY <2>1, ReorderFour DEF EncodeF32
  <2> QED
    BY <2>1, <2>2 DEF DecodeF32
<1> QED
  BY <1>1, <1>2, <1>3, <1>4

-----------------------------------------------------------------------------
\* The fields of a handler's locals and of a server's link state.
Shape ==
    /\ DOMAIN handler = Conns
    /\ \A c \in Conns : DOMAIN handler[c] = {"at", "req", "buf", "exc", "cache"}
    /\ DOMAIN link = {"drop", "hang", "delay", "frozen"}
    /\ DOMAIN admin = {"at", "op", "captured"}
    /\ admin.at \in {"idle", "iec104", "modbus", "close"}
    /\ admin.at # "idle" => admin.op \in LinkOps
    /\ reset \in {"idle", "waits", "restore", "clear"}

\* The link operation under way is a drop that still has to close what it found.
DropCloses == admin.at = "close" /\ admin.op.mode = "drop" /\ "modbus" \in admin.op.targets

\* Who is registered, and that a drop in force has closed them.
DropInv ==
    /\ conns = {c \in Conns : handler[c].at # "none"}
    /\ link.drop /\ ~DropCloses => conns \cap open = {}

\* Nobody else is inside a section that the holder of a lock relies on.
Excluded ==
    /\ admin.at # "idle" => coord = "link"
    /\ reset # "idle" => coord = "reset"
    /\ coord # None => Holders({"enter", "registers"}) = {}
    /\ reset \in {"restore", "clear"} => GateEmpty

\* What a complete response to c's request would be now, ...
Bits(c) == [i \in Nat \ {0} |-> <<BitAt(Address(handler[c].req, i - 1))>>]

Registers(c) == [i \in Nat \ {0} |-> RegisterAt(handler[c].req.fc, Address(handler[c].req, i - 1))]

\* ... of which c's holds the first so far.
BitsSeen(c) == \E k \in Nat : handler[c].buf = [i \in 1..k |-> Bits(c)[i]]

RegistersSeen(c) == \E k \in Nat : handler[c].buf = [i \in 1..k |-> Registers(c)[i]]

\* And so are the points that were resolved for it.
PointsSeen(c) ==
    \A p \in DOMAIN handler[c].cache :
        handler[c].cache[p] = encodeRegisterPair(Visible(p), Order)

Before == {"none", "read", "sleep", "handle", "enter"}

ResponseOf(c) ==
    /\ handler[c].at \in Before => handler[c].buf = << >> /\ handler[c].cache = << >>
    /\ handler[c].at = "bits" => BitsSeen(c)
    /\ handler[c].at = "registers" => RegistersSeen(c) /\ PointsSeen(c)

ResponseInv == \A c \in Conns : ResponseOf(c)

ModbusIInv == Shape /\ DropInv /\ Excluded /\ ResponseInv

-----------------------------------------------------------------------------

\* Setting fields of one handler's locals.
LEMMA SetFields ==
    ASSUME DOMAIN handler = Conns, NEW c \in Conns,
           DOMAIN handler[c] = {"at", "req", "buf", "exc", "cache"},
           NEW a, NEW b, NEW k
    PROVE  /\ DOMAIN [handler EXCEPT ![c].buf = b] = Conns
           /\ DOMAIN [handler EXCEPT ![c].buf = b, ![c].cache = k] = Conns
           /\ DOMAIN [handler EXCEPT ![c].cache = k, ![c].buf = b, ![c].at = a] = Conns
           /\ \A d \in Conns \ {c} :
                /\ [handler EXCEPT ![c].buf = b][d] = handler[d]
                /\ [handler EXCEPT ![c].buf = b, ![c].cache = k][d] = handler[d]
                /\ [handler EXCEPT ![c].cache = k, ![c].buf = b, ![c].at = a][d] = handler[d]
           /\ [handler EXCEPT ![c].buf = b][c] = [handler[c] EXCEPT !.buf = b]
           /\ [handler EXCEPT ![c].buf = b, ![c].cache = k][c]
                = [handler[c] EXCEPT !.buf = b, !.cache = k]
           /\ [handler EXCEPT ![c].cache = k, ![c].buf = b, ![c].at = a][c]
                = [handler[c] EXCEPT !.cache = k, !.buf = b, !.at = a]
OBVIOUS

\* What readRegister does to its handler: one more register, and perhaps one
\* more point resolved.
LEMMA ReadEffect ==
    ASSUME Shape, NEW c \in Conns, readRegister(c)
    PROVE  LET h == handler[c]
               addr == Address(h.req, Len(h.buf))
               s == TheSlot(h.req.fc, addr)
               pair == IF s.key \in DOMAIN h.cache THEN h.cache[s.key]
                       ELSE encodeRegisterPair(Visible(s.key), Order) IN
           /\ DOMAIN handler' = Conns
           /\ \A d \in Conns \ {c} : handler'[d] = handler[d]
           /\ DOMAIN handler'[c] = {"at", "req", "buf", "exc", "cache"}
           /\ handler[c].at = "registers" /\ handler'[c].at = "registers"
           /\ handler'[c].req = h.req
           /\ \/ /\ SlotsAt(h.req.fc, addr) = {}
                 /\ handler'[c].buf = Append(h.buf, <<0, 0>>) /\ handler'[c].cache = h.cache
              \/ /\ SlotsAt(h.req.fc, addr) # {}
                 /\ handler'[c].buf = Append(h.buf, pair[s.which + 1])
                 /\ handler'[c].cache = put(h.cache, s.key, pair)
<1> DEFINE h == handler[c]
           addr == Address(h.req, Len(h.buf))
           s == TheSlot(h.req.fc, addr)
           pair == IF s.key \in DOMAIN h.cache THEN h.cache[s.key]
                   ELSE encodeRegisterPair(Visible(s.key), Order)
           blank == Append(h.buf, <<0, 0>>)
           more == Append(h.buf, pair[s.which + 1])
           points == put(h.cache, s.key, pair)
<1>1. handler[c].at = "registers"
  BY DEF readRegister
<1>2. \/ SlotsAt(h.req.fc, addr) = {} /\ handler' = [handler EXCEPT ![c].buf = blank]
      \/ SlotsAt(h.req.fc, addr) # {}
           /\ handler' = [handler EXCEPT ![c].buf = more, ![c].cache = points]
  BY Zenon DEF readRegister
<1> SUFFICES /\ DOMAIN handler' = Conns
             /\ \A d \in Conns \ {c} : handler'[d] = handler[d]
             /\ DOMAIN handler'[c] = {"at", "req", "buf", "exc", "cache"}
             /\ handler'[c].at = "registers"
             /\ handler'[c].req = handler[c].req
             /\ \/ SlotsAt(h.req.fc, addr) = {}
                     /\ handler'[c].buf = blank /\ handler'[c].cache = handler[c].cache
                \/ SlotsAt(h.req.fc, addr) # {}
                     /\ handler'[c].buf = more /\ handler'[c].cache = points
  BY <1>1, Zenon
<1> HIDE DEF blank, more, points, addr, h
<1>3. CASE SlotsAt(h.req.fc, addr) = {} /\ handler' = [handler EXCEPT ![c].buf = blank]
  <2>1. handler'[c] = [handler[c] EXCEPT !.buf = blank]
    BY <1>3 DEF Shape
  <2> QED BY <1>1, <1>3, <2>1 DEF Shape
<1>4. CASE SlotsAt(h.req.fc, addr) # {}
             /\ handler' = [handler EXCEPT ![c].buf = more, ![c].cache = points]
  <2>1. handler'[c] = [handler[c] EXCEPT !.buf = more, !.cache = points]
    BY <1>4 DEF Shape
  <2> QED BY <1>1, <1>4, <2>1 DEF Shape
<1> QED BY <1>2, <1>3, <1>4

\* What the next register of a write leaves alone.
LEMMA MergeEffect ==
    ASSUME Shape, NEW c \in Conns, mergeRegister(c)
    PROVE  /\ DOMAIN handler' = Conns
           /\ \A d \in Conns \ {c} : handler'[d] = handler[d]
           /\ DOMAIN handler'[c] = {"at", "req", "buf", "exc", "cache"}
           /\ handler[c].at = "merge" /\ handler'[c].at \in {"reply", "merge", "commit"}
<1> DEFINE h == handler[c]
           i == Len(h.buf)
           found == SlotsAt(3, Address(h.req, i))
           s == CHOOSE s \in found : TRUE
           pair == IF s.key \in DOMAIN h.cache THEN h.cache[s.key]
                   ELSE encodeRegisterPair(value[s.key], Order)
           word == h.req.regs[i + 1]
           points == put(h.cache, s.key, [pair EXCEPT ![s.which + 1] = word])
           more == Append(h.buf, word)
           place == IF i + 1 = Len(h.req.regs) THEN "commit" ELSE "merge"
<1>1. handler[c].at = "merge"
  BY DEF mergeRegister
<1>2. \/ exceptionPDU(c, excIllegalDataAddress)
      \/ handler' = [handler EXCEPT ![c].cache = points, ![c].buf = more, ![c].at = place]
  BY Zenon DEF mergeRegister
<1>3. place \in {"commit", "merge"}
  OBVIOUS
<1> HIDE DEF points, more, place
<1>4. CASE exceptionPDU(c, excIllegalDataAddress)
  BY <1>1, <1>4 DEF Shape, exceptionPDU, idle, gone
<1>5. CASE handler' = [handler EXCEPT ![c].cache = points, ![c].buf = more, ![c].at = place]
  <2>1. handler'[c] = [handler[c] EXCEPT !.cache = points, !.buf = more, !.at = place]
    BY <1>5 DEF Shape
  <2> QED BY <1>1, <1>3, <1>5, <2>1 DEF Shape
<1> QED BY <1>2, <1>4, <1>5

\* What a commit leaves alone.
LEMMA CommitEffect ==
    ASSUME Shape, NEW c \in Conns, commits(c)
    PROVE  /\ DOMAIN handler' = Conns
           /\ \A d \in Conns \ {c} : handler'[d] = handler[d]
           /\ DOMAIN handler'[c] = {"at", "req", "buf", "exc", "cache"}
           /\ handler[c].at = "commit" /\ handler'[c].at = "reply"
<1>1. handler[c].at = "commit"
  BY DEF commits
<1>2. \/ replyWith(c, handler[c].req.regs)
      \/ exceptionPDU(c, excIllegalDataValue)
  BY DEF commits, validateAndCommit
<1>3. CASE replyWith(c, handler[c].req.regs)
  BY <1>1, <1>3 DEF Shape, replyWith, idle, gone
<1>4. CASE exceptionPDU(c, excIllegalDataValue)
  BY <1>1, <1>4 DEF Shape, exceptionPDU, idle, gone
<1> QED BY <1>2, <1>3, <1>4

\* What the steps that work on a request leave of everything else.
LEMMA AnswerEffect ==
    ASSUME Shape, NEW c \in Conns, refuses(c) \/ mergeRegister(c) \/ commits(c) \/ readRegister(c)
    PROVE  /\ DOMAIN handler' = Conns
           /\ \A d \in Conns \ {c} : handler'[d] = handler[d]
           /\ DOMAIN handler'[c] = {"at", "req", "buf", "exc", "cache"}
           /\ handler[c].at \in {"handle", "merge", "commit", "registers"}
           /\ handler'[c].at \in {"reply", "merge", "commit", "registers"}
           /\ handler'[c].at = "registers" => handler[c].at = "registers"
           /\ handler'[c].at \in {"merge", "commit"} => handler[c].at = "merge"
           /\ conns' = conns /\ open' = open /\ link' = link /\ admin' = admin /\ reset' = reset
           /\ coord' = coord
<1>1. CASE refuses(c)
  <2>1. PICK code : exceptionPDU(c, code)
    BY <1>1 DEF refuses
  <2>2. handler[c].at = "handle" /\ UNCHANGED <<conns, open, link, admin, reset, coord>>
    BY <1>1 DEF refuses, others
  <2>3. /\ DOMAIN handler' = Conns /\ \A d \in Conns \ {c} : handler'[d] = handler[d]
        /\ handler'[c] = [idle EXCEPT !.at = "reply", !.exc = code]
    BY <2>1 DEF exceptionPDU, Shape
  <2>4. DOMAIN handler'[c] = {"at", "req", "buf", "exc", "cache"} /\ handler'[c].at = "reply"
    BY <2>3 DEF idle, gone
  <2> QED BY <2>2, <2>3, <2>4
<1>2. CASE mergeRegister(c)
  <2>1. UNCHANGED <<conns, open, link, admin, reset, coord>>
    BY <1>2 DEF mergeRegister, others
  <2> QED BY <1>2, <2>1, MergeEffect
<1>3. CASE commits(c)
  <2>1. UNCHANGED <<conns, open, link, admin, reset, coord>>
    BY <1>3 DEF commits
  <2> QED BY <1>3, <2>1, CommitEffect
<1>4. CASE readRegister(c)
  <2>1. UNCHANGED <<conns, open, link, admin, reset, coord>>
    BY <1>4 DEF readRegister, others
  <2> QED BY <1>4, <2>1, ReadEffect
<1> QED BY <1>1, <1>2, <1>3, <1>4

\* What the Modbus server's Set and Clear methods do to its link state.
LEMMA LinkEffect ==
    ASSUME Shape, linkModbus
    PROVE  /\ DOMAIN link' = {"drop", "hang", "delay", "frozen"}
           /\ link'.drop => link.drop \/ (admin.op.mode = "drop" /\ "modbus" \in admin.op.targets)
<1>1. admin.op.mode \in LinkModes
  BY ModbusAssumption DEF linkModbus, Shape
<1>2. CASE "modbus" \notin admin.op.targets
  BY <1>2 DEF linkModbus, Shape
<1>3. CASE "modbus" \in admin.op.targets
  <2>1. CASE admin.op.mode = "drop"
    <3>1. link' = [link EXCEPT !.drop = TRUE]
      BY <1>3, <2>1 DEF linkModbus, applied
    <3> QED BY <1>3, <2>1, <3>1 DEF Shape
  <2>2. CASE admin.op.mode = "hang"
    <3>1. link' = [link EXCEPT !.hang = TRUE]
      BY <1>3, <2>2 DEF linkModbus, applied
    <3> QED BY <3>1 DEF Shape
  <2>3. CASE admin.op.mode = "delay"
    <3>1. link' = [link EXCEPT !.delay = TRUE]
      BY <1>3, <2>3 DEF linkModbus, applied
    <3> QED BY <3>1 DEF Shape
  <2>4. CASE admin.op.mode = "heartbeat_pause"
    <3>1. link' = [link EXCEPT !.frozen = heartbeatValue]
      BY <1>3, <2>4 DEF linkModbus, applied
    <3> QED BY <3>1 DEF Shape
  <2>5. CASE admin.op.mode = "clear"
    <3>1. link' = NoFault
      BY <1>3, <2>5 DEF linkModbus, applied
    <3> QED BY <3>1 DEF NoFault
  <2> QED BY <1>1, <2>1, <2>2, <2>3, <2>4, <2>5 DEF LinkModes
<1> QED BY <1>2, <1>3

\* A reply, or a socket that is closed.
LEMMA ReplyEffect ==
    ASSUME Shape, NEW c \in Conns, replies(c)
    PROVE  /\ \A d \in Conns \ {c} : handler'[d] = handler[d]
           /\ handler[c].at = "reply"
           /\ handler'[c].at = IF c \in open THEN "read" ELSE "none"
           /\ conns' = (IF c \in open THEN conns ELSE conns \ {c})
           /\ open' = open \/ open' = open \ {c}
           /\ link' = link /\ admin' = admin
BY DEF replies, leave, others, idle, gone, Shape

\* The records keep their fields.
LEMMA ShapeStep == Shape /\ [Next]_vars => Shape'
<1> SUFFICES ASSUME Shape, [Next]_vars PROVE Shape'
  OBVIOUS
<1> USE ModbusAssumption DEF Shape, idle, gone, noOp, NoFault
<1>1. CASE UNCHANGED vars
  BY <1>1 DEF vars
<1>2. ASSUME NEW c \in Conns, Accept(c) \/ acceptLoop(c) \/ handleConn(c) PROVE Shape'
  <2>1. CASE Accept(c)
    BY <2>1 DEF Accept
  <2>2. CASE acceptLoop(c)
    BY <2>2 DEF acceptLoop, refuseOrServe, serve
  <2>3. ASSUME NEW frame \in Frames, Receive(c, frame) PROVE Shape'
    BY <2>3 DEF Receive, leave, others
  <2>4. CASE readFails(c)
    BY <2>4 DEF readFails, leave, others
  <2>5. CASE sleeps(c)
    BY <2>5 DEF sleeps, to, others
  <2>6. CASE refuses(c)
    BY <2>6, AnswerEffect
  <2>7. CASE bitsEnter(c)
    BY <2>7 DEF bitsEnter, wellFormed, to, others
  <2>8. CASE readBit(c)
    BY <2>8 DEF readBit, others
  <2>9. CASE registersCoord(c)
    BY <2>9 DEF registersCoord, wellFormed, to, others, CoordFree
  <2>10. CASE registersEnter(c)
    BY <2>10 DEF registersEnter, to, others
  <2>11. CASE readRegister(c)
    BY <2>11, AnswerEffect
  <2>12. CASE answers(c)
    BY <2>12 DEF answers, replyWith, others
  <2>13. CASE writeGate(c)
    BY <2>13 DEF writeGate, wellFormed, to, others
  <2>14. CASE writeLock(c)
    BY <2>14 DEF writeLock, to, others
  <2>15. CASE mergeRegister(c)
    BY <2>15, AnswerEffect
  <2>16. CASE commits(c)
    BY <2>16, AnswerEffect
  <2>17. CASE replies(c)
    BY <2>17 DEF replies, leave, others
  <2> QED BY <1>2, <2>1, <2>2, <2>3, <2>4, <2>5, <2>6, <2>7, <2>8, <2>9, <2>10, <2>11, <2>12,
      <2>13, <2>14, <2>15, <2>16, <2>17 DEF handleConn, handleRequest
<1>3. CASE Tick
  BY <1>3 DEF Tick
<1>4. ASSUME NEW op \in LinkOps, linkBegins(op) PROVE Shape'
  BY <1>4 DEF linkBegins, CoordFree, noOp
<1>5. CASE linkIec104
  BY <1>5 DEF linkIec104
<1>6. CASE linkModbus
  <2>1. admin' = [admin EXCEPT !.at = "close"] /\ handler' = handler /\ reset' = reset
    BY <1>6 DEF linkModbus
  <2> QED BY <1>6, <2>1, LinkEffect DEF linkModbus
<1>7. CASE linkEnds
  BY <1>7 DEF linkEnds, noOp
<1>8. CASE resetCoord
  BY <1>8 DEF resetCoord, CoordFree
<1>9. CASE resetEnters
  BY <1>9 DEF resetEnters
<1>10. CASE resetRestores
  BY <1>10 DEF resetRestores
<1>11. CASE resetClears
  BY <1>11 DEF resetClears
<1> QED BY <1>1, <1>2, <1>3, <1>4, <1>5, <1>6, <1>7, <1>8, <1>9, <1>10, <1>11 DEF Next,
    linkOperation, doReset

\* A connection is registered only while no drop is in force.
LEMMA DropStep == Shape /\ DropInv /\ Excluded /\ [Next]_vars => DropInv'
<1> SUFFICES ASSUME Shape, DropInv, Excluded, [Next]_vars PROVE DropInv'
  OBVIOUS
<1> USE ModbusAssumption DEF Shape, DropInv, DropCloses, Excluded, idle, gone, noOp, NoFault
<1>1. CASE UNCHANGED vars
  BY <1>1 DEF vars
<1>2. ASSUME NEW c \in Conns, Accept(c) \/ acceptLoop(c) \/ handleConn(c) PROVE DropInv'
  <2>1. CASE Accept(c)
    BY <2>1 DEF Accept
  <2>2. CASE acceptLoop(c)
    BY <2>2 DEF acceptLoop, refuseOrServe, serve
  <2>3. ASSUME NEW frame \in Frames, Receive(c, frame) PROVE DropInv'
    BY <2>3 DEF Receive, leave, others
  <2>4. CASE readFails(c)
    BY <2>4 DEF readFails, leave, others
  <2>5. CASE sleeps(c)
    BY <2>5 DEF sleeps, to, others
  <2>6. CASE refuses(c)
    BY <2>6, AnswerEffect
  <2>7. CASE bitsEnter(c)
    BY <2>7 DEF bitsEnter, wellFormed, to, others
  <2>8. CASE readBit(c)
    BY <2>8 DEF readBit, others
  <2>9. CASE registersCoord(c)
    BY <2>9 DEF registersCoord, wellFormed, to, others, CoordFree
  <2>10. CASE registersEnter(c)
    BY <2>10 DEF registersEnter, to, others
  <2>11. CASE readRegister(c)
    BY <2>11, AnswerEffect
  <2>12. CASE answers(c)
    BY <2>12 DEF answers, replyWith, others
  <2>13. CASE writeGate(c)
    BY <2>13 DEF writeGate, wellFormed, to, others
  <2>14. CASE writeLock(c)
    BY <2>14 DEF writeLock, to, others
  <2>15. CASE mergeRegister(c)
    BY <2>15, AnswerEffect
  <2>16. CASE commits(c)
    BY <2>16, AnswerEffect
  <2>17. CASE replies(c)
    BY <2>17, ReplyEffect
  <2> QED BY <1>2, <2>1, <2>2, <2>3, <2>4, <2>5, <2>6, <2>7, <2>8, <2>9, <2>10, <2>11, <2>12,
      <2>13, <2>14, <2>15, <2>16, <2>17 DEF handleConn, handleRequest
<1>3. CASE Tick
  BY <1>3 DEF Tick
<1>4. ASSUME NEW op \in LinkOps, linkBegins(op) PROVE DropInv'
  BY <1>4 DEF linkBegins, CoordFree, noOp
<1>5. CASE linkIec104
  BY <1>5 DEF linkIec104
<1>6. CASE linkModbus
  <2>1. /\ admin' = [admin EXCEPT !.at = "close"] /\ handler' = handler
        /\ conns' = conns /\ open' = open
    BY <1>6 DEF linkModbus
  <2> QED BY <1>6, <2>1, LinkEffect DEF linkModbus
<1>7. CASE linkEnds
  BY <1>7 DEF linkEnds, noOp
<1>8. CASE resetCoord
  BY <1>8 DEF resetCoord, CoordFree
<1>9. CASE resetEnters
  BY <1>9 DEF resetEnters
<1>10. CASE resetRestores
  BY <1>10 DEF resetRestores
<1>11. CASE resetClears
  BY <1>11 DEF resetClears
<1> QED BY <1>1, <1>2, <1>3, <1>4, <1>5, <1>6, <1>7, <1>8, <1>9, <1>10, <1>11 DEF Next,
    linkOperation, doReset

\* Nobody enters a section that a lock closes to him.
LEMMA ExcludedStep == Shape /\ Excluded /\ [Next]_vars => Excluded'
<1> SUFFICES ASSUME Shape, Excluded, [Next]_vars PROVE Excluded'
  OBVIOUS
<1> USE ModbusAssumption DEF Shape, Excluded, Holders, GateEmpty, GateOpen, idle, gone, noOp,
    NoFault
<1>1. CASE UNCHANGED vars
  BY <1>1 DEF vars
<1>2. ASSUME NEW c \in Conns, Accept(c) \/ acceptLoop(c) \/ handleConn(c) PROVE Excluded'
  <2>1. CASE Accept(c)
    BY <2>1 DEF Accept
  <2>2. CASE acceptLoop(c)
    BY <2>2 DEF acceptLoop, refuseOrServe, serve
  <2>3. ASSUME NEW frame \in Frames, Receive(c, frame) PROVE Excluded'
    BY <2>3 DEF Receive, leave, others
  <2>4. CASE readFails(c)
    BY <2>4 DEF readFails, leave, others
  <2>5. CASE sleeps(c)
    BY <2>5 DEF sleeps, to, others
  <2>6. CASE refuses(c)
    BY <2>6, AnswerEffect
  <2>7. CASE bitsEnter(c)
    BY <2>7 DEF bitsEnter, wellFormed, to, others
  <2>8. CASE readBit(c)
    BY <2>8 DEF readBit, others
  <2>9. CASE registersCoord(c)
    BY <2>9 DEF registersCoord, wellFormed, to, others, CoordFree
  <2>10. CASE registersEnter(c)
    BY <2>10 DEF registersEnter, to, others
  <2>11. CASE readRegister(c)
    BY <2>11, AnswerEffect
  <2>12. CASE answers(c)
    BY <2>12 DEF answers, replyWith, others
  <2>13. CASE writeGate(c)
    BY <2>13 DEF writeGate, wellFormed, to, others
  <2>14. CASE writeLock(c)
    BY <2>14 DEF writeLock, to, others
  <2>15. CASE mergeRegister(c)
    BY <2>15, AnswerEffect
  <2>16. CASE commits(c)
    BY <2>16, AnswerEffect
  <2>17. CASE replies(c)
    BY <2>17 DEF replies, leave, others
  <2> QED BY <1>2, <2>1, <2>2, <2>3, <2>4, <2>5, <2>6, <2>7, <2>8, <2>9, <2>10, <2>11, <2>12,
      <2>13, <2>14, <2>15, <2>16, <2>17 DEF handleConn, handleRequest
<1>3. CASE Tick
  BY <1>3 DEF Tick
<1>4. ASSUME NEW op \in LinkOps, linkBegins(op) PROVE Excluded'
  BY <1>4 DEF linkBegins, CoordFree, noOp
<1>5. CASE linkIec104
  BY <1>5 DEF linkIec104
<1>6. CASE linkModbus
  BY <1>6 DEF linkModbus, applied
<1>7. CASE linkEnds
  BY <1>7 DEF linkEnds, noOp
<1>8. CASE resetCoord
  BY <1>8 DEF resetCoord, CoordFree
<1>9. CASE resetEnters
  BY <1>9 DEF resetEnters
<1>10. CASE resetRestores
  BY <1>10 DEF resetRestores
<1>11. CASE resetClears
  BY <1>11 DEF resetClears
<1> QED BY <1>1, <1>2, <1>3, <1>4, <1>5, <1>6, <1>7, <1>8, <1>9, <1>10, <1>11 DEF Next,
    linkOperation, doReset

\* One more element of a sequence that F generates.
LEMMA OneMore ==
    ASSUME NEW F, NEW k \in Nat
    PROVE  /\ Len([i \in 1..k |-> F[i]]) = k
           /\ Append([i \in 1..k |-> F[i]], F[k + 1]) = [i \in 1..k + 1 |-> F[i]]
OBVIOUS

\* A response is what it was while nothing of what it reads changes.
LEMMA ResponseKept ==
    ASSUME NEW c \in Conns, ResponseOf(c), handler'[c] = handler[c],
           handler[c].at \in {"bits", "registers"} => value' = value,
           handler[c].at = "registers" => link' = link
    PROVE  ResponseOf(c)'
<1>1. CASE handler[c].at = "bits"
  <2>1. \A addr : BitAt(addr)' = BitAt(addr)
    BY <1>1 DEF BitAt
  <2>2. Bits(c)' = Bits(c)
    BY <2>1 DEF Bits, Address
  <2> QED BY <1>1, <2>2 DEF ResponseOf, BitsSeen, Before
<1>2. CASE handler[c].at = "registers"
  <2>1. \A p : Visible(p)' = Visible(p)
    BY <1>2 DEF Visible
  <2>2. \A class, addr : RegisterAt(class, addr)' = RegisterAt(class, addr)
    BY <2>1 DEF RegisterAt, SlotsAt, TheSlot, slots
  <2>3. Registers(c)' = Registers(c)
    BY <2>2 DEF Registers, Address
  <2>4. PointsSeen(c)'
    BY <1>2, <2>1 DEF ResponseOf, PointsSeen
  <2> QED BY <1>2, <2>3, <2>4 DEF ResponseOf, RegistersSeen, Before
<1>3. CASE handler[c].at \notin {"bits", "registers"}
  BY <1>3 DEF ResponseOf
<1> QED BY <1>1, <1>2, <1>3

\* readBit adds what it has just read.
LEMMA BitStep ==
    ASSUME Shape, NEW c \in Conns, ResponseOf(c), readBit(c)
    PROVE  ResponseOf(c)' /\ \A d \in Conns \ {c} : handler'[d] = handler[d]
<1>1. handler[c].at = "bits" /\ value' = value
  BY DEF readBit, others
<1>2. PICK k \in Nat : handler[c].buf = [i \in 1..k |-> Bits(c)[i]]
  BY <1>1 DEF ResponseOf, BitsSeen
<1> DEFINE bit == <<BitAt(Address(handler[c].req, Len(handler[c].buf)))>>
           more == Append(handler[c].buf, bit)
<1>3. handler' = [handler EXCEPT ![c].buf = more]
  BY Zenon DEF readBit
<1>4. bit = Bits(c)[k + 1]
  <2>1. Len(handler[c].buf) = k
    BY <1>2, OneMore
  <2>2. k + 1 \in Nat \ {0} /\ (k + 1) - 1 = k
    OBVIOUS
  <2> QED BY <2>1, <2>2 DEF Bits
<1> HIDE DEF bit
<1>5. more = [i \in 1..k + 1 |-> Bits(c)[i]] /\ k + 1 \in Nat
  BY <1>2, <1>4, OneMore
<1> HIDE DEF more
<1>6. /\ handler'[c].buf = more /\ handler'[c].at = "bits" /\ handler'[c].req = handler[c].req
      /\ \A d \in Conns \ {c} : handler'[d] = handler[d]
  <2>1. handler'[c] = [handler[c] EXCEPT !.buf = more]
    BY <1>3 DEF Shape
  <2> QED BY <1>1, <1>3, <2>1 DEF Shape
<1>7. Bits(c)' = Bits(c)
  BY <1>1, <1>6 DEF Bits, BitAt, Address
<1> QED BY <1>5, <1>6, <1>7 DEF ResponseOf, BitsSeen, Before

\* readRegister adds what a read sees now, whether it resolves the point or has
\* resolved it before.
LEMMA RegisterStep ==
    ASSUME Shape, NEW c \in Conns, ResponseOf(c), readRegister(c)
    PROVE  ResponseOf(c)' /\ \A d \in Conns \ {c} : handler'[d] = handler[d]
<1> DEFINE h == handler[c]
           addr == Address(h.req, Len(h.buf))
           s == TheSlot(h.req.fc, addr)
           pair == IF s.key \in DOMAIN h.cache THEN h.cache[s.key]
                   ELSE encodeRegisterPair(Visible(s.key), Order)
<1>1. handler[c].at = "registers" /\ value' = value /\ link' = link
  BY DEF readRegister, others
<1>2. PICK k \in Nat : handler[c].buf = [i \in 1..k |-> Registers(c)[i]]
  BY <1>1 DEF ResponseOf, RegistersSeen
<1>3. pair = encodeRegisterPair(Visible(s.key), Order)
  BY <1>1 DEF ResponseOf, PointsSeen
<1>4. Registers(c)[k + 1] = RegisterAt(h.req.fc, addr)
  <2>1. Len(handler[c].buf) = k
    BY <1>2, OneMore
  <2>2. k + 1 \in Nat \ {0} /\ (k + 1) - 1 = k
    OBVIOUS
  <2> QED BY <2>1, <2>2 DEF Registers
<1>5. /\ \A d \in Conns \ {c} : handler'[d] = handler[d]
      /\ handler'[c].at = "registers" /\ handler'[c].req = h.req
      /\ \/ /\ SlotsAt(h.req.fc, addr) = {}
            /\ handler'[c].buf = Append(h.buf, <<0, 0>>) /\ handler'[c].cache = h.cache
         \/ /\ SlotsAt(h.req.fc, addr) # {}
            /\ handler'[c].buf = Append(h.buf, pair[s.which + 1])
            /\ handler'[c].cache = put(h.cache, s.key, pair)
  BY ReadEffect, Zenon
<1>6. handler'[c].buf = Append(h.buf, RegisterAt(h.req.fc, addr))
  BY <1>3, <1>5 DEF RegisterAt
<1> HIDE DEF addr, pair, s
<1>7. handler'[c].buf = [i \in 1..k + 1 |-> Registers(c)[i]] /\ k + 1 \in Nat
  BY <1>2, <1>4, <1>6, OneMore
<1>8. \A p : Visible(p)' = Visible(p)
  BY <1>1 DEF Visible
<1>9. Registers(c)' = Registers(c)
  <2>1. \A class, a : RegisterAt(class, a)' = RegisterAt(class, a)
    BY <1>8 DEF RegisterAt, SlotsAt, TheSlot, slots
  <2> QED BY <1>5, <2>1 DEF Registers, Address
<1>10. \A p \in DOMAIN handler'[c].cache : handler'[c].cache[p] = encodeRegisterPair(Visible(p),
    Order)
  <2>1. \A p \in DOMAIN h.cache : h.cache[p] = encodeRegisterPair(Visible(p), Order)
    BY <1>1 DEF ResponseOf, PointsSeen
  <2>2. CASE handler'[c].cache = h.cache
    BY <2>1, <2>2
  <2>3. CASE handler'[c].cache = put(h.cache, s.key, pair)
    BY <1>3, <2>1, <2>3 DEF put
  <2> QED BY <1>5, <2>2, <2>3
<1>11. PointsSeen(c)'
  BY <1>8, <1>10 DEF PointsSeen
<1> QED BY <1>5, <1>7, <1>9, <1>11 DEF ResponseOf, RegistersSeen, Before

\* A response that has not begun, or is over.
LEMMA ResponseFresh ==
    ASSUME NEW c \in Conns,
           \/ handler'[c].at \notin Before \cup {"bits", "registers"}
           \/ handler'[c].buf = << >> /\ handler'[c].cache = << >>
    PROVE  ResponseOf(c)'
<1>1. << >> = [i \in 1..0 |-> Bits(c)'[i]] /\ << >> = [i \in 1..0 |-> Registers(c)'[i]]
  OBVIOUS
<1>2. CASE handler'[c].buf = << >> /\ handler'[c].cache = << >>
  <2>1. BitsSeen(c)' /\ RegistersSeen(c)'
    BY <1>1, <1>2 DEF BitsSeen, RegistersSeen
  <2>2. PointsSeen(c)'
    BY <1>2 DEF PointsSeen
  <2> QED BY <1>2, <2>1, <2>2 DEF ResponseOf
<1>3. CASE handler'[c].at \notin Before \cup {"bits", "registers"}
  BY <1>3 DEF ResponseOf
<1> QED BY <1>2, <1>3

\* Nobody changes what a response under construction has read.
LEMMA ResponseStep == Shape /\ Excluded /\ ResponseInv /\ [Next]_vars => ResponseInv'
<1> SUFFICES ASSUME Shape, Excluded, ResponseInv, [Next]_vars PROVE ResponseInv'
  OBVIOUS
<1> USE ModbusAssumption DEF Shape, Excluded, ResponseInv, Holders, GateEmpty, Before, idle, gone
<1>1. CASE UNCHANGED vars
  BY <1>1, ResponseKept DEF vars
<1>2. ASSUME NEW c \in Conns, Accept(c) \/ acceptLoop(c) \/ handleConn(c) PROVE ResponseInv'
  <2>1. CASE Accept(c)
    BY <2>1, ResponseKept DEF Accept
  <2>2. CASE acceptLoop(c)
    <3>1. value' = value /\ link' = link
      BY <2>2 DEF acceptLoop
    <3>2. CASE link.drop
      BY <2>2, <3>1, <3>2, ResponseKept DEF acceptLoop, refuseOrServe
    <3>3. CASE ~link.drop
      <4>1. /\ handler'[c].buf = << >> /\ handler'[c].cache = << >>
            /\ \A d \in Conns \ {c} : handler'[d] = handler[d]
        BY <2>2, <3>3 DEF acceptLoop, refuseOrServe, serve
      <4> QED BY <3>1, <4>1, ResponseFresh, ResponseKept
    <3> QED BY <3>2, <3>3
  <2>3. ASSUME NEW frame \in Frames, Receive(c, frame) PROVE ResponseInv'
    <3>1. /\ \/ handler'[c].at \notin Before \cup {"bits", "registers"}
             \/ handler'[c].buf = << >> /\ handler'[c].cache = << >>
          /\ \A d \in Conns \ {c} : handler'[d] = handler[d]
      BY <2>3 DEF ResponseOf, Receive, leave, others
    <3>2. value' = value /\ link' = link
      BY <2>3 DEF Receive, others
    <3> QED BY <3>1, <3>2, ResponseFresh, ResponseKept
  <2>4. CASE readFails(c)
    <3>1. /\ \/ handler'[c].at \notin Before \cup {"bits", "registers"}
             \/ handler'[c].buf = << >> /\ handler'[c].cache = << >>
          /\ \A d \in Conns \ {c} : handler'[d] = handler[d]
      BY <2>4 DEF ResponseOf, readFails, leave, others
    <3>2. value' = value /\ link' = link
      BY <2>4 DEF readFails, others
    <3> QED BY <3>1, <3>2, ResponseFresh, ResponseKept
  <2>5. CASE sleeps(c)
    <3>1. /\ \/ handler'[c].at \notin Before \cup {"bits", "registers"}
             \/ handler'[c].buf = << >> /\ handler'[c].cache = << >>
          /\ \A d \in Conns \ {c} : handler'[d] = handler[d]
      BY <2>5 DEF ResponseOf, sleeps, to, others
    <3>2. value' = value /\ link' = link
      BY <2>5 DEF sleeps, others
    <3> QED BY <3>1, <3>2, ResponseFresh, ResponseKept
  <2>6. CASE refuses(c)
    <3>1. PICK code : exceptionPDU(c, code)
      BY <2>6 DEF refuses
    <3>2. handler'[c].at = "reply" /\ \A d \in Conns \ {c} : handler'[d] = handler[d]
      BY <3>1 DEF exceptionPDU
    <3>3. value' = value /\ link' = link
      BY <2>6 DEF refuses, others
    <3> QED BY <3>2, <3>3, ResponseFresh, ResponseKept
  <2>7. CASE bitsEnter(c)
    <3>1. /\ \/ handler'[c].at \notin Before \cup {"bits", "registers"}
             \/ handler'[c].buf = << >> /\ handler'[c].cache = << >>
          /\ \A d \in Conns \ {c} : handler'[d] = handler[d]
      BY <2>7 DEF ResponseOf, bitsEnter, wellFormed, to, others
    <3>2. value' = value /\ link' = link
      BY <2>7 DEF bitsEnter, others
    <3> QED BY <3>1, <3>2, ResponseFresh, ResponseKept
  <2>8. CASE readBit(c)
    <3>1. value' = value /\ link' = link
      BY <2>8 DEF readBit, others
    <3> QED BY <2>8, <3>1, BitStep, ResponseKept
  <2>9. CASE registersCoord(c)
    <3>1. /\ \/ handler'[c].at \notin Before \cup {"bits", "registers"}
             \/ handler'[c].buf = << >> /\ handler'[c].cache = << >>
          /\ \A d \in Conns \ {c} : handler'[d] = handler[d]
      BY <2>9 DEF ResponseOf, registersCoord, wellFormed, to, others, CoordFree
    <3>2. value' = value /\ link' = link
      BY <2>9 DEF registersCoord, others
    <3> QED BY <3>1, <3>2, ResponseFresh, ResponseKept
  <2>10. CASE registersEnter(c)
    <3>1. /\ \/ handler'[c].at \notin Before \cup {"bits", "registers"}
             \/ handler'[c].buf = << >> /\ handler'[c].cache = << >>
          /\ \A d \in Conns \ {c} : handler'[d] = handler[d]
      BY <2>10 DEF ResponseOf, registersEnter, to, others
    <3>2. value' = value /\ link' = link
      BY <2>10 DEF registersEnter, others
    <3> QED BY <3>1, <3>2, ResponseFresh, ResponseKept
  <2>11. CASE readRegister(c)
    <3>1. value' = value /\ link' = link
      BY <2>11 DEF readRegister, others
    <3> QED BY <2>11, <3>1, RegisterStep, ResponseKept
  <2>12. CASE answers(c)
    <3>1. /\ \/ handler'[c].at \notin Before \cup {"bits", "registers"}
             \/ handler'[c].buf = << >> /\ handler'[c].cache = << >>
          /\ \A d \in Conns \ {c} : handler'[d] = handler[d]
      BY <2>12 DEF ResponseOf, answers, replyWith, others
    <3>2. value' = value /\ link' = link
      BY <2>12 DEF answers, others
    <3> QED BY <3>1, <3>2, ResponseFresh, ResponseKept
  <2>13. CASE writeGate(c)
    <3>1. /\ \/ handler'[c].at \notin Before \cup {"bits", "registers"}
             \/ handler'[c].buf = << >> /\ handler'[c].cache = << >>
          /\ \A d \in Conns \ {c} : handler'[d] = handler[d]
      BY <2>13 DEF ResponseOf, writeGate, wellFormed, to, others
    <3>2. value' = value /\ link' = link
      BY <2>13 DEF writeGate, others
    <3> QED BY <3>1, <3>2, ResponseFresh, ResponseKept
  <2>14. CASE writeLock(c)
    <3>1. /\ \/ handler'[c].at \notin Before \cup {"bits", "registers"}
             \/ handler'[c].buf = << >> /\ handler'[c].cache = << >>
          /\ \A d \in Conns \ {c} : handler'[d] = handler[d]
      BY <2>14 DEF ResponseOf, writeLock, to, others
    <3>2. value' = value /\ link' = link
      BY <2>14 DEF writeLock, others
    <3> QED BY <3>1, <3>2, ResponseFresh, ResponseKept
  <2>15. CASE mergeRegister(c)
    <3>1. /\ \/ handler'[c].at \notin Before \cup {"bits", "registers"}
             \/ handler'[c].buf = << >> /\ handler'[c].cache = << >>
          /\ \A d \in Conns \ {c} : handler'[d] = handler[d]
      BY <2>15, MergeEffect DEF Before
    <3>2. value' = value /\ link' = link
      BY <2>15 DEF mergeRegister, others
    <3> QED BY <3>1, <3>2, ResponseFresh, ResponseKept
  <2>16. CASE commits(c)
    <3>1. handler'[c].at \notin Before \cup {"bits",
        "registers"} /\ \A d \in Conns \ {c} : handler'[d] = handler[d]
      BY <2>16, CommitEffect DEF Before
    <3>2. link' = link /\ \A d \in Conns : handler[d].at \notin {"bits", "registers"}
      BY <2>16 DEF commits, StoreFree
    <3> QED BY <3>1, <3>2, ResponseFresh, ResponseKept
  <2>17. CASE replies(c)
    <3>1. /\ \/ handler'[c].at \notin Before \cup {"bits", "registers"}
             \/ handler'[c].buf = << >> /\ handler'[c].cache = << >>
          /\ \A d \in Conns \ {c} : handler'[d] = handler[d]
      BY <2>17 DEF ResponseOf, replies, leave, others
    <3>2. value' = value /\ link' = link
      BY <2>17 DEF replies, others
    <3> QED BY <3>1, <3>2, ResponseFresh, ResponseKept
  <2> QED BY <1>2, <2>1, <2>2, <2>3, <2>4, <2>5, <2>6, <2>7, <2>8, <2>9, <2>10, <2>11, <2>12,
      <2>13, <2>14, <2>15, <2>16, <2>17 DEF handleConn, handleRequest
<1>3. CASE Tick
  BY <1>3, ResponseKept DEF Tick, StoreFree
<1>4. ASSUME NEW op \in LinkOps, linkBegins(op) PROVE ResponseInv'
  BY <1>4, ResponseKept DEF linkBegins
<1>5. CASE linkIec104
  BY <1>5, ResponseKept DEF linkIec104
<1>6. CASE linkModbus
  BY <1>6, ResponseKept DEF linkModbus, Shape
<1>7. CASE linkEnds
  BY <1>7, ResponseKept DEF linkEnds
<1>8. CASE resetCoord
  BY <1>8, ResponseKept DEF resetCoord
<1>9. CASE resetEnters
  BY <1>9, ResponseKept DEF resetEnters
<1>10. CASE resetRestores
  BY <1>10, ResponseKept DEF resetRestores
<1>11. CASE resetClears
  BY <1>11, ResponseKept DEF resetClears
<1> QED BY <1>1, <1>2, <1>3, <1>4, <1>5, <1>6, <1>7, <1>8, <1>9, <1>10, <1>11 DEF Next,
    linkOperation, doReset

-----------------------------------------------------------------------------
\* It holds when the server starts, ...
LEMMA ModbusInit == Init => ModbusIInv
<1> SUFFICES ASSUME Init PROVE ModbusIInv
  OBVIOUS
<1> USE DEF Init, idle, gone, noOp, NoFault
<1>1. Shape
  BY DEF Shape
<1>2. DropInv
  BY DEF DropInv, DropCloses
<1>3. Excluded
  BY ModbusAssumption DEF Excluded, Holders, GateEmpty
<1>4. ResponseInv
  BY DEF ResponseInv, ResponseOf, Before
<1> QED BY <1>1, <1>2, <1>3, <1>4 DEF ModbusIInv

\* The inductive invariant always holds.
THEOREM ModbusCorrect == Spec => []ModbusIInv
<1>1. ModbusIInv /\ [Next]_vars => ModbusIInv'
  BY ShapeStep, DropStep, ExcludedStep, ResponseStep DEF ModbusIInv
<1> QED BY <1>1, ModbusInit, PTL DEF Spec

\* A drop in force has disconnected everybody (SetDrop, acceptLoop).
THEOREM DropAlwaysDisconnects == Spec => []DropLeavesNobodyConnected
<1>1. ModbusIInv => DropLeavesNobodyConnected
  BY DEF ModbusIInv, DropInv, DropCloses, DropLeavesNobodyConnected
<1> QED BY <1>1, ModbusCorrect, PTL

\* Every register of a response is of the same instant (handleReadBits,
\* handleReadRegisters).
THEOREM ResponseIsAlwaysOneInstant == Spec => []ResponseIsOneInstant
<1>1. ModbusIInv => ResponseIsOneInstant
  <2> SUFFICES ASSUME ResponseInv, NEW c \in Conns, NEW i \in DOMAIN handler[c].buf
               PROVE  LET addr == Address(handler[c].req, i - 1) IN
                      /\ handler[c].at = "bits" => handler[c].buf[i] = <<BitAt(addr)>>
                      /\ handler[c].at = "registers" =>
                           handler[c].buf[i] = RegisterAt(handler[c].req.fc, addr)
    BY DEF ModbusIInv, ResponseIsOneInstant
  <2>1. CASE handler[c].at = "bits"
    <3>1. PICK k \in Nat : handler[c].buf = [j \in 1..k |-> Bits(c)[j]]
      BY <2>1 DEF ResponseInv, ResponseOf, BitsSeen
    <3>2. i \in 1..k /\ handler[c].buf[i] = Bits(c)[i] /\ i \in Nat \ {0}
      BY <3>1
    <3> QED BY <2>1, <3>2 DEF Bits
  <2>2. CASE handler[c].at = "registers"
    <3>1. PICK k \in Nat : handler[c].buf = [j \in 1..k |-> Registers(c)[j]]
      BY <2>2 DEF ResponseInv, ResponseOf, RegistersSeen
    <3>2. i \in 1..k /\ handler[c].buf[i] = Registers(c)[i] /\ i \in Nat \ {0}
      BY <3>1
    <3> QED BY <2>2, <3>2 DEF Registers
  <2> QED BY <2>1, <2>2
<1> QED BY <1>1, ModbusCorrect, PTL

-----------------------------------------------------------------------------
\* The store holds numbers of 32 bits, and whoever works on a request has one.
HasRequest == {"sleep", "handle", "bits", "enter", "registers", "writeMu", "merge", "commit"}

Requests ==
    \A c \in Conns :
        /\ handler[c].at \in HasRequest => handler[c].req \in Frames \ {None}
        /\ accepting = c => handler[c].at = "none"

WriteRequest(req) ==
    /\ req \in Frames \ {None} /\ req.fc \in {6, 16}
    /\ Len(req.regs) \in 1..Addresses

\* A write has merged the first registers of its request, which are the ones in
\* its response so far: it holds the points they belong to, ...
Touched(c) ==
    LET h == handler[c] IN
    /\ Len(h.buf) <= Len(h.req.regs)
    /\ h.at = "merge" => Len(h.buf) < Len(h.req.regs)
    /\ h.at = "commit" => Len(h.buf) = Len(h.req.regs)
    /\ \A p \in DOMAIN h.cache : p \in Points /\ Catalog[p].class = 3 /\ h.cache[p] \in Pairs

\* ... each half of a point is what the store holds now, or what the request
\* writes there, ...
HalvesAccounted(c) ==
    LET h == handler[c] IN
    \A p \in DOMAIN h.cache : \A w \in {0, 1} :
        \/ h.cache[p][w + 1] = encodeRegisterPair(value[p], Order)[w + 1]
        \/ \E i \in 1..Len(h.buf) : /\ Address(h.req, i - 1) = Catalog[p].addr + w
                                    /\ h.cache[p][w + 1] = h.req.regs[i]

\* ... and every register merged is in the point that it belongs to.
RegistersMerged(c) ==
    LET h == handler[c] IN
    \A i \in 1..Len(h.buf) : \A s \in SlotsAt(3, Address(h.req, i - 1)) :
        s.key \in DOMAIN h.cache /\ h.cache[s.key][s.which + 1] = h.req.regs[i]

WriteOf(c) ==
    /\ handler[c].at \in {"writeMu", "merge", "commit"} => WriteRequest(handler[c].req)
    /\ handler[c].at = "writeMu" => handler[c].buf = << >> /\ handler[c].cache = << >>
    /\ handler[c].at \in {"merge", "commit"} =>
         /\ handler[c].buf \in Seq(Byte \X Byte)
         /\ Touched(c) /\ HalvesAccounted(c) /\ RegistersMerged(c)

OneWriter == \A c, d \in Holders({"merge", "commit"}) : c = d

WriteInv ==
    /\ value \in [Points -> Int32]
    /\ Requests
    /\ OneWriter
    /\ \A c \in Conns : WriteOf(c)

\* What a client has seen of the heartbeat it sees still, and a pause under way
\* will not take it back.
BeatInv ==
    /\ seen # None => seen \in Int32 /\ seen <= Visible(Heartbeat) /\ reset # "clear"
    /\ link.frozen # None =>
         link.frozen \in Int32 /\ (reset # "clear" => link.frozen <= value[Heartbeat])
    /\ admin.at \in {"iec104", "modbus"} /\ admin.op.mode = "heartbeat_pause" =>
         /\ admin.captured \in Int32 /\ admin.captured <= value[Heartbeat]
         /\ seen # None => seen <= admin.captured

Writing == {"writeMu", "merge", "commit"}

-----------------------------------------------------------------------------
\* What every step of a handler but those of a write does to it.
LEMMA OtherEffect ==
    ASSUME Shape, Requests, NEW c \in Conns,
           \/ Accept(c) \/ acceptLoop(c) \/ (\E frame \in Frames : Receive(c, frame))
           \/ readFails(c) \/ sleeps(c) \/ refuses(c) \/ bitsEnter(c) \/ readBit(c)
           \/ registersCoord(c) \/ registersEnter(c) \/ readRegister(c) \/ answers(c) \/ replies(c)
    PROVE  /\ value' = value /\ \A d \in Conns \ {c} : handler'[d] = handler[d]
           /\ handler'[c] = handler[c] \/ handler'[c].at \notin Writing
           /\ handler'[c] = handler[c] \/ handler[c].at # "commit"
           /\ Requests'
<1> USE ModbusAssumption DEF Shape, Requests, HasRequest, Writing, gone, idle, others
<1>1. CASE Accept(c)
  BY <1>1 DEF Accept
<1>2. CASE acceptLoop(c)
  <2>1. handler' = handler \/ handler' = [handler EXCEPT ![c] = idle]
    BY <1>2 DEF acceptLoop, refuseOrServe, serve
  <2>2. value' = value /\ accepting' = None
    BY <1>2 DEF acceptLoop
  <2>3. CASE handler' = handler
    BY <2>2, <2>3
  <2>4. CASE handler' = [handler EXCEPT ![c] = idle]
    <3>1. handler[c].at # "commit" \/ handler'[c] = handler[c]
      BY <1>2, <2>4 DEF acceptLoop
    <3> QED BY <2>2, <2>4, <3>1
  <2> QED BY <2>1, <2>3, <2>4
<1>3. ASSUME NEW frame \in Frames, Receive(c, frame)
      PROVE  /\ value' = value /\ \A d \in Conns \ {c} : handler'[d] = handler[d]
             /\ handler'[c] = handler[c] \/ handler'[c].at \notin Writing
             /\ handler'[c] = handler[c] \/ handler[c].at # "commit"
             /\ Requests'
  BY <1>3 DEF Receive, leave
<1>4. CASE readFails(c)
  BY <1>4 DEF readFails, leave
<1>5. CASE sleeps(c)
  BY <1>5 DEF sleeps, to
<1>6. CASE refuses(c)
  <2>1. PICK code : exceptionPDU(c, code)
    BY <1>6 DEF refuses
  <2>2. handler[c].at = "handle" /\ value' = value
    BY <1>6 DEF refuses
  <2>3. accepting' = accepting
    BY <1>6 DEF refuses
  <2> QED BY <2>1, <2>2, <2>3 DEF exceptionPDU
<1>7. CASE bitsEnter(c)
  BY <1>7 DEF bitsEnter, wellFormed, to
<1>8. CASE readBit(c)
  BY <1>8 DEF readBit
<1>9. CASE registersCoord(c)
  BY <1>9 DEF registersCoord, wellFormed, to
<1>10. CASE registersEnter(c)
  BY <1>10 DEF registersEnter, to
<1>11. CASE readRegister(c)
  <2>1. value' = value /\ accepting' = accepting
    BY <1>11 DEF readRegister
  <2> QED BY <1>11, <2>1, ReadEffect
<1>12. CASE answers(c)
  BY <1>12 DEF answers, replyWith
<1>13. CASE replies(c)
  BY <1>13 DEF replies, leave
<1> QED BY <1>1, <1>2, <1>3, <1>4, <1>5, <1>6, <1>7, <1>8, <1>9, <1>10, <1>11, <1>12, <1>13

\* What the next register of a write does to its handler.
LEMMA MergeDetail ==
    ASSUME Shape, NEW c \in Conns, mergeRegister(c), handler'[c].at # "reply"
    PROVE  LET h == handler[c]
               found == SlotsAt(3, Address(h.req, Len(h.buf)))
               s == CHOOSE s \in found : TRUE
               pair == IF s.key \in DOMAIN h.cache THEN h.cache[s.key]
                       ELSE encodeRegisterPair(value[s.key], Order)
               word == h.req.regs[Len(h.buf) + 1] IN
           /\ found # {} /\ handler'[c].req = h.req
           /\ handler'[c].cache = put(h.cache, s.key, [pair EXCEPT ![s.which + 1] = word])
           /\ handler'[c].buf = Append(h.buf, word)
           /\ handler'[c].at = IF Len(h.buf) + 1 = Len(h.req.regs) THEN "commit" ELSE "merge"
<1> DEFINE h == handler[c]
           i == Len(h.buf)
           found == SlotsAt(3, Address(h.req, i))
           s == CHOOSE s \in found : TRUE
           pair == IF s.key \in DOMAIN h.cache THEN h.cache[s.key]
                   ELSE encodeRegisterPair(value[s.key], Order)
           word == h.req.regs[i + 1]
           points == put(h.cache, s.key, [pair EXCEPT ![s.which + 1] = word])
           more == Append(h.buf, word)
           place == IF i + 1 = Len(h.req.regs) THEN "commit" ELSE "merge"
<1>1. \/ exceptionPDU(c, excIllegalDataAddress)
      \/ /\ found # {}
         /\ handler' = [handler EXCEPT ![c].cache = points, ![c].buf = more, ![c].at = place]
  BY Zenon DEF mergeRegister
<1>2. ~exceptionPDU(c, excIllegalDataAddress)
  BY DEF exceptionPDU, Shape, idle, gone
<1> SUFFICES /\ found # {} /\ handler'[c].req = handler[c].req
             /\ handler'[c].cache = points /\ handler'[c].buf = more /\ handler'[c].at = place
  BY Zenon
<1> HIDE DEF points, more, place, found
<1>3. handler'[c] = [handler[c] EXCEPT !.cache = points, !.buf = more, !.at = place]
  BY <1>1, <1>2 DEF Shape
<1> QED BY <1>1, <1>2, <1>3 DEF Shape

\* What a commit does: all of the points it holds, or nothing.
LEMMA CommitDetail ==
    ASSUME Shape, NEW c \in Conns, commits(c)
    PROVE  \/ /\ handler'[c].exc = 0
              /\ value' = [p \in Points |-> IF p \in DOMAIN handler[c].cache
                                            THEN decodeRegisterPair(handler[c].cache[p], Order)
                                            ELSE value[p]]
           \/ value' = value /\ handler'[c].exc # 0
<1> DEFINE new == decoded(c)
<1>1. \/ commitBatch(new) /\ replyWith(c, handler[c].req.regs)
      \/ value' = value /\ exceptionPDU(c, excIllegalDataValue)
  BY Zenon DEF commits, validateAndCommit
<1>2. CASE value' = value /\ exceptionPDU(c, excIllegalDataValue)
  BY <1>2 DEF exceptionPDU, excIllegalDataValue, Shape, idle, gone
<1>3. CASE commitBatch(new) /\ replyWith(c, handler[c].req.regs)
  <2>1. handler'[c].exc = 0
    BY <1>3 DEF replyWith, Shape, idle, gone
  <2>2. DOMAIN new = DOMAIN handler[c].cache
        /\ \A p \in DOMAIN handler[c].cache :
              new[p] = decodeRegisterPair(handler[c].cache[p], Order)
    BY DEF decoded
  <2> HIDE DEF new
  <2>3. value' = [p \in Points |-> IF p \in DOMAIN new THEN new[p] ELSE value[p]]
    BY <1>3 DEF commitBatch
  <2> QED BY <2>1, <2>2, <2>3
<1> QED BY <1>1, <1>2, <1>3

\* Counting from an address, and wrapping, comes back to no address before it
\* has passed them all.
LEMMA AddressesDiffer ==
    ASSUME NEW start \in Nat, NEW i \in 0 .. Addresses - 1, NEW j \in 0 .. Addresses - 1,
           (start + i) % Addresses = (start + j) % Addresses
    PROVE  i = j
<1>1. Addresses \in Nat /\ Addresses > 0
  BY RegisterAssumption
<1> DEFINE q == (start + i) \div Addresses
           t == (start + j) \div Addresses
           r == (start + i) % Addresses
<1>2. /\ q \in Int /\ t \in Int /\ r \in Int
      /\ start + i = Addresses * q + r /\ start + j = Addresses * t + r
  BY <1>1, Division
<1> HIDE DEF q, t, r
<1>3. i - j = Addresses * (q - t)
  BY <1>1, <1>2
<1>4. CASE q - t >= 1
  <2>1. Addresses * (q - t) >= Addresses * 1
    BY <1>1, <1>2, <1>4
  <2> QED BY <1>1, <1>3, <2>1
<1>5. CASE q - t <= -1
  <2>1. Addresses * (q - t) <= Addresses * (-1)
    BY <1>1, <1>2, <1>5
  <2> QED BY <1>1, <1>3, <2>1
<1>6. CASE q - t = 0
  BY <1>1, <1>3, <1>6
<1> QED BY <1>2, <1>4, <1>5, <1>6

\* Where a slot's register is.
LEMMA SlotFacts ==
    ASSUME NEW s \in slots
    PROVE  /\ s.key \in Points /\ s.which \in {0, 1}
           /\ s.class = Catalog[s.key].class /\ s.class # 2
           /\ Catalog[s.key].addr \in Int /\ s.addr = Catalog[s.key].addr + s.which
           /\ s = [class |-> s.class, addr |-> s.addr, key |-> s.key, which |-> s.which]
<1>1. PICK p \in Points, w \in {0, 1} :
         /\ Catalog[p].class # 2
         /\ s = [class |-> Catalog[p].class, addr |-> Catalog[p].addr + w, key |-> p, which |-> w]
  BY DEF slots
<1>2. Catalog[p] \in [class : {2, 3, 4}, addr : 0..Addresses - 1] /\ Addresses \in Nat
  BY ModbusAssumption, RegisterAssumption
<1>3. Catalog[p].addr \in Int
  BY <1>2
<1> QED BY <1>1, <1>3

\* A register is at most one point's.
LEMMA OneSlot ==
    ASSUME NEW class, NEW addr, NEW s \in SlotsAt(class, addr), NEW t \in SlotsAt(class, addr)
    PROVE  s = t
<1>1. /\ s \in slots /\ t \in slots
      /\ s.class = class /\ t.class = class /\ s.addr = addr /\ t.addr = addr
  BY DEF SlotsAt
<1>2. s.key = t.key \/ /\ Catalog[s.key].addr \notin {Catalog[t.key].addr, Catalog[t.key].addr + 1}
                       /\ Catalog[t.key].addr \notin {Catalog[s.key].addr, Catalog[s.key].addr + 1}
  <2>1. /\ s.key \in Points /\ t.key \in Points
        /\ Catalog[s.key].class = Catalog[t.key].class /\ Catalog[s.key].class # 2
    BY <1>1, SlotFacts
  <2>2. \A p, q \in Points : Catalog[p].class = Catalog[q].class /\ Catalog[p].class # 2 =>
          p = q \/ Catalog[p].addr \notin {Catalog[q].addr, Catalog[q].addr + 1}
    BY RegisterAssumption
  <2> QED BY <2>1, <2>2
<1>3. s.key = t.key /\ s.which = t.which
  BY <1>1, <1>2, SlotFacts
<1> QED BY <1>1, <1>3, SlotFacts

\* The next register of a write, and what is true of those before it.
LEMMA MergeStep ==
    ASSUME Shape, WriteInv, NEW c \in Conns, mergeRegister(c), handler'[c].at # "reply"
    PROVE  WriteOf(c)'
<1>1. handler[c].at = "merge" /\ value' = value
  BY DEF mergeRegister, others
<1> DEFINE req == handler[c].req
           regs == req.regs
           buf == handler[c].buf
           cache == handler[c].cache
           k == Len(buf)
           found == SlotsAt(3, Address(req, k))
           pairOf(p) == IF p \in DOMAIN cache THEN cache[p] ELSE encodeRegisterPair(value[p], Order)
<1>2. PICK s : s = CHOOSE x \in found : TRUE
  OBVIOUS
<1>3. PICK p : p = s.key
  OBVIOUS
<1>4. PICK new : new = [pairOf(p) EXCEPT ![s.which + 1] = regs[k + 1]]
  OBVIOUS
<1>5. /\ found # {} /\ handler'[c].req = req
      /\ handler'[c].cache = put(cache, p, new)
      /\ handler'[c].buf = Append(buf, regs[k + 1])
      /\ handler'[c].at = IF k + 1 = Len(regs) THEN "commit" ELSE "merge"
  BY <1>2, <1>3, <1>4, MergeDetail, Zenon
<1>6. /\ WriteRequest(req) /\ buf \in Seq(Byte \X Byte)
      /\ k < Len(regs)
      /\ \A q \in DOMAIN cache : q \in Points /\ Catalog[q].class = 3 /\ cache[q] \in Pairs
      /\ HalvesAccounted(c) /\ RegistersMerged(c)
  BY <1>1 DEF WriteInv, WriteOf, Touched
<1>7. /\ regs \in Seq(Byte \X Byte) /\ Len(regs) \in 1..Addresses /\ req.start \in Nat
  BY <1>6, RegisterAssumption DEF WriteRequest
<1>8. s \in found /\ s \in slots /\ s.class = 3 /\ s.addr = Address(req, k)
  BY <1>2, <1>5 DEF SlotsAt
<1>9. /\ p \in Points /\ Catalog[p].class = 3
      /\ s.which \in {0, 1} /\ s.addr = Catalog[p].addr + s.which
  BY <1>3, <1>8, SlotFacts
<1>10. k \in Nat /\ regs[k + 1] \in Byte \X Byte
  <2>1. k \in Nat
    BY <1>6
  <2>2. k + 1 \in 1..Len(regs)
    BY <1>6, <1>7, <2>1
  <2> QED BY <1>7, <2>1, <2>2
<1>11. PICK word \in Byte \X Byte : word = regs[k + 1]
  BY <1>10
<1>12. pairOf(p) \in Pairs
  <2>1. CASE p \in DOMAIN cache
    BY <1>6, <2>1
  <2>2. CASE p \notin DOMAIN cache
    BY <1>9, <2>2, DecodeEncode, ModbusAssumption DEF WriteInv
  <2> QED BY <2>1, <2>2
<1>13. /\ new \in Pairs
       /\ \A v \in {0, 1} : new[v + 1] = IF v = s.which THEN word ELSE pairOf(p)[v + 1]
  <2> DEFINE pair == pairOf(p)
             w == s.which
  <2>1. pair \in Pairs /\ w \in {0, 1} /\ new = [pair EXCEPT ![w + 1] = word]
    BY <1>4, <1>9, <1>11, <1>12
  <2> HIDE DEF pair, w
  <2>2. \/ w = 0 /\ new = <<word, pair[2]>>
        \/ w = 1 /\ new = <<pair[1], word>>
    BY <2>1 DEF Pairs
  <2>3. new \in Pairs /\ \A v \in {0, 1} : new[v + 1] = IF v = w THEN word ELSE pair[v + 1]
    BY <2>1, <2>2 DEF Pairs
  <2> QED BY <2>3 DEF pair, w
<1>14. /\ DOMAIN handler'[c].cache = DOMAIN cache \cup {p}
       /\ handler'[c].cache[p] = new
       /\ \A q \in DOMAIN cache \ {p} : handler'[c].cache[q] = cache[q]
  BY <1>5 DEF put
<1> HIDE DEF pairOf, found
<1>15. /\ handler'[c].buf \in Seq(Byte \X Byte) /\ Len(handler'[c].buf) = k + 1
  BY <1>5, <1>6, <1>10
<1>16. /\ handler'[c].at \in {"merge", "commit"}
       /\ handler'[c].at = "commit" => k + 1 = Len(regs)
       /\ handler'[c].at = "merge" => k + 1 # Len(regs)
  BY <1>5
<1>17. Touched(c)'
  <2>1. k + 1 <= Len(regs) /\ (handler'[c].at = "merge" => k + 1 < Len(regs))
    BY <1>6, <1>7, <1>10, <1>16
  <2>2. \A q \in DOMAIN handler'[c].cache :
           q \in Points /\ Catalog[q].class = 3 /\ handler'[c].cache[q] \in Pairs
    BY <1>6, <1>9, <1>13, <1>14
  <2> QED BY <1>5, <1>15, <1>16, <2>1, <2>2 DEF Touched
<1>18. HalvesAccounted(c)'
  <2> SUFFICES ASSUME NEW q \in DOMAIN handler'[c].cache, NEW w \in {0, 1}
               PROVE  \/ handler'[c].cache[q][w + 1] = encodeRegisterPair(value[q], Order)[w + 1]
                      \/ \E i \in 1..k + 1 : /\ Address(req, i - 1) = Catalog[q].addr + w
                                             /\ handler'[c].cache[q][w + 1] = regs[i]
    BY <1>1, <1>5, <1>15 DEF HalvesAccounted, Address
  <2>1. \A r \in DOMAIN cache :
           \/ cache[r][w + 1] = encodeRegisterPair(value[r], Order)[w + 1]
           \/ \E i \in 1..k : Address(req, i - 1) = Catalog[r].addr + w /\ cache[r][w + 1] = regs[i]
    BY <1>6 DEF HalvesAccounted
  <2>2. \A i \in 1..k : i \in 1..k + 1
    BY <1>10
  <2>3. CASE q # p
    <3>1. q \in DOMAIN cache /\ handler'[c].cache[q] = cache[q]
      BY <1>14, <2>3
    <3> QED BY <2>1, <2>2, <3>1
  <2>4. CASE q = p /\ w = s.which
    <3>1. handler'[c].cache[q][w + 1] = regs[k + 1]
      BY <1>11, <1>13, <1>14, <2>4
    <3>2. Address(req, (k + 1) - 1) = Catalog[q].addr + w
      <4>1. (k + 1) - 1 = k
        BY <1>10
      <4> QED BY <1>8, <1>9, <2>4, <4>1
    <3>3. k + 1 \in 1..k + 1
      BY <1>10
    <3> QED BY <3>1, <3>2, <3>3
  <2>5. CASE q = p /\ w # s.which
    <3>1. handler'[c].cache[q][w + 1] = pairOf(p)[w + 1]
      BY <1>13, <1>14, <2>5
    <3>2. CASE p \in DOMAIN cache
      <4>1. handler'[c].cache[q][w + 1] = cache[p][w + 1]
        BY <3>1, <3>2 DEF pairOf
      <4> QED BY <2>1, <2>2, <2>5, <3>2, <4>1
    <3>3. CASE p \notin DOMAIN cache
      BY <2>5, <3>1, <3>3 DEF pairOf
    <3> QED BY <3>2, <3>3
  <2> QED BY <2>3, <2>4, <2>5
<1>19. RegistersMerged(c)'
  <2> SUFFICES ASSUME NEW i \in 1..k + 1, NEW t \in SlotsAt(3, Address(req, i - 1))
               PROVE  /\ t.key \in DOMAIN handler'[c].cache
                      /\ handler'[c].cache[t.key][t.which + 1] = regs[i]
    <3>1. \A a : SlotsAt(3, a)' = SlotsAt(3, a)
      BY DEF SlotsAt, slots
    <3>2. \A i \in 1..k + 1 : Address(handler'[c].req, i - 1) = Address(req, i - 1)
      BY <1>5
    <3> QED BY <1>5, <1>15, <3>1, <3>2, Zenon DEF RegistersMerged, Address
  <2>1. i \in Nat /\ i >= 1
    OBVIOUS
  <2>2. CASE i = k + 1
    <3>1. i - 1 = k
      BY <1>10, <2>2
    <3>2. t = s
      BY <1>8, <3>1, OneSlot DEF found
    <3> QED BY <1>3, <1>9, <1>11, <1>13, <1>14, <2>2, <3>2
  <2>3. CASE i # k + 1
    <3>1. i \in 1..k
      BY <1>10, <2>1, <2>3
    <3>2. t.key \in DOMAIN cache /\ cache[t.key][t.which + 1] = regs[i]
      BY <1>6, <3>1 DEF RegistersMerged
    <3>3. CASE t.key # p
      BY <1>14, <3>2, <3>3
    <3>4. CASE t.key = p
      <4>1. t \in slots /\ t.addr = Address(req, i - 1)
        BY DEF SlotsAt
      <4>2. t.which # s.which
        <5> SUFFICES ASSUME t.which = s.which
                     PROVE  FALSE
          OBVIOUS
        <5>1. Address(req, i - 1) = Address(req, k)
          BY <1>8, <1>9, <3>4, <4>1, SlotFacts
        <5>2. i - 1 \in 0 .. Addresses - 1 /\ k \in 0 .. Addresses - 1
          <6>1. Addresses \in Nat
            BY RegisterAssumption
          <6> QED BY <1>6, <1>7, <1>10, <3>1, <6>1
        <5>3. i - 1 = k
          BY <1>7, <5>1, <5>2, AddressesDiffer DEF Address
        <5> QED BY <1>10, <2>1, <2>3, <5>3
      <4>3. t.which \in {0, 1}
        BY <4>1, SlotFacts
      <4>4. handler'[c].cache[p][t.which + 1] = pairOf(p)[t.which + 1]
        BY <1>13, <1>14, <4>2, <4>3
      <4>5. pairOf(p) = cache[p]
        BY <3>2, <3>4 DEF pairOf
      <4> QED BY <1>14, <3>2, <3>4, <4>4, <4>5
    <3> QED BY <3>3, <3>4
  <2> QED BY <2>2, <2>3
<1> QED BY <1>5, <1>6, <1>15, <1>16, <1>17, <1>18, <1>19 DEF WriteOf, WriteRequest

\* A write that nobody disturbs.
LEMMA WriteKept ==
    ASSUME NEW c \in Conns, WriteOf(c), handler'[c] = handler[c],
           handler[c].at \in {"merge", "commit"} =>
             \A p \in Points : Catalog[p].class = 3 => value'[p] = value[p]
    PROVE  WriteOf(c)'
<1>1. CASE handler[c].at \in {"merge", "commit"}
  <2>1. Touched(c)'
    BY <1>1 DEF WriteOf, Touched
  <2>2. HalvesAccounted(c)'
    <3> SUFFICES ASSUME NEW p \in DOMAIN handler[c].cache, NEW w \in {0, 1}
                 PROVE  \/ handler[c].cache[p][w + 1] = encodeRegisterPair(value'[p], Order)[w + 1]
                        \/ \E i \in 1..Len(handler[c].buf) :
                             /\ Address(handler[c].req, i - 1) = Catalog[p].addr + w
                             /\ handler[c].cache[p][w + 1] = handler[c].req.regs[i]
      BY DEF HalvesAccounted, Address
    <3>1. value'[p] = value[p]
      BY <1>1 DEF WriteOf, Touched
    <3> QED BY <1>1, <3>1 DEF WriteOf, HalvesAccounted
  <2>3. RegistersMerged(c)'
    <3>1. \A a : SlotsAt(3, a)' = SlotsAt(3, a)
      BY DEF SlotsAt, slots
    <3> QED BY <1>1, <3>1 DEF WriteOf, RegistersMerged, Address
  <2> QED BY <1>1, <2>1, <2>2, <2>3 DEF WriteOf, WriteRequest
<1>2. CASE handler[c].at \notin {"merge", "commit"}
  BY <1>2 DEF WriteOf, WriteRequest
<1> QED BY <1>1, <1>2

\* The steps of a handler that is not writing, before or after.
LEMMA QuietStep ==
    ASSUME WriteInv, NEW c \in Conns, value' = value,
           \A d \in Conns \ {c} : handler'[d] = handler[d],
           handler'[c] = handler[c] \/ handler'[c].at \notin Writing,
           Requests'
    PROVE  WriteInv'
<1>1. ASSUME NEW d \in Conns
      PROVE  WriteOf(d)'
  <2>1. CASE handler'[d] = handler[d]
    BY <2>1, WriteKept DEF WriteInv
  <2>2. CASE handler'[d] # handler[d]
    <3>1. handler'[d].at \notin Writing
      BY <2>2
    <3> QED BY <3>1 DEF WriteOf, Writing
  <2> QED BY <2>1, <2>2
<1>2. OneWriter'
  <2>1. \A d \in Conns : handler'[d].at \in {"merge", "commit"} =>
          handler[d].at \in {"merge", "commit"}
    BY DEF Writing
  <2> QED BY <2>1 DEF WriteInv, OneWriter, Holders
<1> QED BY <1>1, <1>2 DEF WriteInv

\* A commit leaves numbers of 32 bits, and only those of its own points are new.
LEMMA CommitStep ==
    ASSUME Shape, WriteInv, NEW c \in Conns, commits(c)
    PROVE  /\ value' \in [Points -> Int32]
           /\ \A p \in Points : p \in DOMAIN handler[c].cache \/ value'[p] = value[p]
           /\ \A p \in Points : Catalog[p].class = 3 \/ value'[p] = value[p]
           /\ handler'[c].exc = 0 => \A p \in Points \cap DOMAIN handler[c].cache :
                encodeRegisterPair(value'[p], Order) = handler[c].cache[p]
<1>1. handler[c].at = "commit"
  BY DEF commits
<1>2. \A p \in DOMAIN handler[c].cache :
        /\ p \in Points /\ Catalog[p].class = 3
        /\ decodeRegisterPair(handler[c].cache[p], Order) \in Int32
        /\ encodeRegisterPair(decodeRegisterPair(handler[c].cache[p], Order), Order)
             = handler[c].cache[p]
  <2>1. \A p \in DOMAIN handler[c].cache :
          p \in Points /\ Catalog[p].class = 3 /\ handler[c].cache[p] \in Pairs
    BY <1>1 DEF WriteInv, WriteOf, Touched
  <2> QED BY <2>1, EncodeDecode, ModbusAssumption
<1>3. value \in [Points -> Int32]
  BY DEF WriteInv
<1>4. CASE value' = value /\ handler'[c].exc # 0
  BY <1>3, <1>4
<1>5. CASE value' = [p \in Points |-> IF p \in DOMAIN handler[c].cache
                                      THEN decodeRegisterPair(handler[c].cache[p], Order)
                                      ELSE value[p]]
  <2>1. \A p \in Points : value'[p] = IF p \in DOMAIN handler[c].cache
                                      THEN decodeRegisterPair(handler[c].cache[p], Order)
                                      ELSE value[p]
    BY <1>5
  <2>2. value' \in [Points -> Int32]
    BY <1>2, <1>3, <1>5
  <2> QED BY <1>2, <2>1, <2>2
<1> QED BY <1>4, <1>5, CommitDetail

\* No step disturbs a write under way: other writers wait, a tick leaves the
\* holding registers alone, and a reset waits until the gate is empty.
LEMMA WriteStep == ModbusIInv /\ WriteInv /\ [Next]_vars => WriteInv'
<1> SUFFICES ASSUME Shape, Excluded, ResponseInv, WriteInv, [Next]_vars
             PROVE  WriteInv'
  BY DEF ModbusIInv
<1>1. ASSUME value' \in [Points -> Int32], handler' = handler, accepting' = accepting,
             \/ \A p \in Points : Catalog[p].class = 3 => value'[p] = value[p]
             \/ GateEmpty
      PROVE  WriteInv'
  <2>1. \A d \in Conns : WriteOf(d)'
    <3> SUFFICES ASSUME NEW d \in Conns
                 PROVE  WriteOf(d)'
      OBVIOUS
    <3>1. handler[d].at \in {"merge", "commit"} =>
            \A p \in Points : Catalog[p].class = 3 => value'[p] = value[p]
      BY <1>1 DEF GateEmpty, Holders
    <3> QED BY <1>1, <3>1, WriteKept DEF WriteInv
  <2> QED BY <1>1, <2>1 DEF WriteInv, Requests, OneWriter, Holders
<1>2. value \in [Points -> Int32] /\ Requests /\ OneWriter /\ \A c \in Conns : WriteOf(c)
  BY DEF WriteInv
<1>3. CASE UNCHANGED vars
  BY <1>1, <1>2, <1>3 DEF vars
<1>4. ASSUME NEW c \in Conns, Accept(c) \/ acceptLoop(c) \/ handleConn(c)
      PROVE  WriteInv'
  <2>1. CASE \/ Accept(c) \/ acceptLoop(c) \/ (\E frame \in Frames : Receive(c, frame))
             \/ readFails(c) \/ sleeps(c) \/ refuses(c) \/ bitsEnter(c) \/ readBit(c)
             \/ registersCoord(c) \/ registersEnter(c) \/ readRegister(c) \/ answers(c)
             \/ replies(c)
    BY <1>2, <2>1, OtherEffect, QuietStep
  <2>2. CASE writeGate(c)
    <3>1. /\ handler[c].at = "handle" /\ handler[c].req.fc \in {6, 16}
          /\ Quantity(handler[c].req) \in 1..MaxQty[handler[c].req.fc]
          /\ handler' = [handler EXCEPT ![c].at = "writeMu"]
          /\ value' = value /\ accepting' = accepting
      BY <2>2 DEF writeGate, wellFormed, to, others
    <3>2. /\ handler'[c].at = "writeMu" /\ handler'[c].req = handler[c].req
          /\ handler'[c].buf = handler[c].buf /\ handler'[c].cache = handler[c].cache
          /\ \A d \in Conns \ {c} : handler'[d] = handler[d]
      BY <3>1 DEF Shape
    <3>3. handler[c].req \in Frames \ {None}
      BY <1>2, <3>1 DEF Requests, HasRequest
    <3>4. WriteRequest(handler[c].req)
      <4>1. "regs" \in DOMAIN handler[c].req
        BY <3>1, <3>3, RegisterAssumption
      <4>2. Len(handler[c].req.regs) \in 1..MaxQty[handler[c].req.fc]
        BY <3>1, <4>1 DEF Quantity
      <4>3. MaxQty[handler[c].req.fc] \in 1..Addresses /\ Addresses \in Nat
        BY <3>1, RegisterAssumption
      <4> QED BY <3>1, <3>3, <4>2, <4>3 DEF WriteRequest
    <3>5. handler[c].buf = << >> /\ handler[c].cache = << >>
      BY <3>1 DEF ResponseInv, ResponseOf, Before
    <3>6. \A d \in Conns \ {c} : WriteOf(d)'
      BY <1>2, <3>1, <3>2, WriteKept
    <3>7. WriteOf(c)'
      BY <3>2, <3>4, <3>5 DEF WriteOf, WriteRequest
    <3>8. Requests' /\ OneWriter'
      BY <1>2, <3>1, <3>2, <3>3 DEF Requests, HasRequest, OneWriter, Holders
    <3> QED BY <1>2, <3>1, <3>6, <3>7, <3>8 DEF WriteInv
  <2>3. CASE writeLock(c)
    <3>1. /\ handler[c].at = "writeMu" /\ WritesFree
          /\ handler' = [handler EXCEPT ![c].at = "merge"]
          /\ value' = value /\ accepting' = accepting
      BY <2>3 DEF writeLock, to, others
    <3>2. /\ handler'[c].at = "merge" /\ handler'[c].req = handler[c].req
          /\ handler'[c].buf = handler[c].buf /\ handler'[c].cache = handler[c].cache
          /\ \A d \in Conns \ {c} : handler'[d] = handler[d]
      BY <3>1 DEF Shape
    <3>3. /\ WriteRequest(handler[c].req)
          /\ handler[c].buf = << >> /\ handler[c].cache = << >>
      BY <1>2, <3>1 DEF WriteOf
    <3>4. \A d \in Conns \ {c} : WriteOf(d)'
      BY <1>2, <3>1, <3>2, WriteKept
    <3>5. WriteOf(c)'
      <4>1. Len(handler[c].buf) = 0 /\ DOMAIN handler[c].cache = {} /\ 1..0 = {}
            /\ handler[c].buf \in Seq(Byte \X Byte)
        BY <3>3
      <4>2. Len(handler[c].req.regs) \in Nat /\ Len(handler[c].req.regs) > 0
        BY <3>3, RegisterAssumption DEF WriteRequest
      <4>3. Touched(c)'
        BY <3>2, <4>1, <4>2 DEF Touched
      <4>4. HalvesAccounted(c)' /\ RegistersMerged(c)'
        BY <3>2, <4>1 DEF HalvesAccounted, RegistersMerged
      <4> QED BY <3>2, <3>3, <4>1, <4>3, <4>4 DEF WriteOf, WriteRequest
    <3>6. Requests' /\ OneWriter'
      BY <1>2, <3>1, <3>2 DEF Requests, HasRequest, OneWriter, Holders, WritesFree
    <3> QED BY <1>2, <3>1, <3>4, <3>5, <3>6 DEF WriteInv
  <2>4. CASE mergeRegister(c)
    <3>1. value' = value /\ accepting' = accepting
      BY <2>4 DEF mergeRegister, others
    <3>2. /\ \A d \in Conns \ {c} : handler'[d] = handler[d]
          /\ handler[c].at = "merge" /\ handler'[c].at \in {"reply", "merge", "commit"}
      BY <2>4, MergeEffect
    <3>3. WriteOf(c)'
      <4>1. CASE handler'[c].at = "reply"
        BY <4>1 DEF WriteOf
      <4>2. CASE handler'[c].at # "reply"
        BY <2>4, <4>2, MergeStep
      <4> QED BY <4>1, <4>2
    <3>4. \A d \in Conns \ {c} : WriteOf(d)'
      BY <1>2, <3>1, <3>2, WriteKept
    <3>5. handler'[c].at = "reply" \/ handler'[c].req = handler[c].req
      BY <2>4, MergeDetail, Zenon
    <3>6. Requests' /\ OneWriter'
      BY <1>2, <3>1, <3>2, <3>5 DEF Requests, HasRequest, OneWriter, Holders
    <3> QED BY <1>2, <3>1, <3>3, <3>4, <3>6 DEF WriteInv
  <2>5. CASE commits(c)
    <3>1. accepting' = accepting /\ handler[c].at = "commit"
      BY <2>5 DEF commits
    <3>2. handler'[c].at = "reply" /\ \A d \in Conns \ {c} : handler'[d] = handler[d]
      BY <2>5, CommitEffect
    <3>3. \A d \in Conns \ {c} : handler[d].at \notin {"merge", "commit"}
      BY <1>2, <3>1 DEF OneWriter, Holders
    <3>4. \A d \in Conns \ {c} : WriteOf(d)'
      BY <1>2, <3>2, <3>3, WriteKept
    <3>5. WriteOf(c)'
      BY <3>2 DEF WriteOf
    <3>6. Requests' /\ OneWriter'
      BY <1>2, <3>1, <3>2 DEF Requests, HasRequest, OneWriter, Holders
    <3>7. value' \in [Points -> Int32]
      BY <2>5, CommitStep
    <3> QED BY <3>4, <3>5, <3>6, <3>7 DEF WriteInv
  <2> QED BY <1>4, <2>1, <2>2, <2>3, <2>4, <2>5 DEF handleConn, handleRequest
<1>5. CASE Tick
  <2>1. /\ value[Heartbeat] < MaxBeat /\ handler' = handler /\ accepting' = accepting
        /\ value' = [p \in Points |-> IF Catalog[p].class = 3 THEN value[p]
                                                              ELSE value[Heartbeat] + 1]
    BY <1>5 DEF Tick
  <2>2. value[Heartbeat] + 1 \in Int32
    <3>1. value[Heartbeat] \in Int32 /\ MaxBeat \in Int32
      BY <1>2, ModbusAssumption, RegisterAssumption
    <3>2. Size32 \div 2 \in Int
      BY Sizes
    <3> QED BY <2>1, <3>1, <3>2 DEF Int32, Signed
  <2>3. value' \in [Points -> Int32]
    BY <1>2, <2>1, <2>2
  <2> QED BY <1>1, <2>1, <2>3
<1>6. ASSUME NEW op \in LinkOps, linkBegins(op)
      PROVE  WriteInv'
  BY <1>1, <1>2, <1>6 DEF linkBegins
<1>7. CASE linkIec104 \/ linkModbus \/ linkEnds \/ resetCoord \/ resetEnters \/ resetClears
  <2>1. UNCHANGED <<value, handler, accepting>>
    BY <1>7 DEF linkIec104, linkModbus, linkEnds, resetCoord, resetEnters, resetClears
  <2> QED BY <1>1, <1>2, <2>1
<1>8. CASE resetRestores
  <2>1. value' = Startup /\ handler' = handler /\ accepting' = accepting /\ reset = "restore"
    BY <1>8 DEF resetRestores
  <2>2. GateEmpty /\ value' \in [Points -> Int32]
    BY <2>1, RegisterAssumption DEF Excluded
  <2> QED BY <1>1, <2>1, <2>2
<1> QED BY <1>3, <1>4, <1>5, <1>6, <1>7, <1>8 DEF Next, linkOperation, doReset

\* Nobody is writing when the server starts, ...
LEMMA WriteInit == Init => WriteInv
<1> SUFFICES ASSUME Init
             PROVE  WriteInv
  OBVIOUS
<1>1. value \in [Points -> Int32]
  BY RegisterAssumption DEF Init
<1>2. \A c \in Conns : handler[c].at = "none"
  BY DEF Init, gone
<1>3. \A c \in Conns : accepting # c
  BY ModbusAssumption DEF Init
<1> QED BY <1>1, <1>2, <1>3 DEF WriteInv, Requests, HasRequest, OneWriter, Holders, WriteOf

\* ... so what is said of writes always holds.
LEMMA WriteAlways == Spec => []WriteInv
<1>1. ModbusIInv /\ WriteInv /\ [Next]_vars => WriteInv'
  BY WriteStep
<1> QED BY <1>1, WriteInit, ModbusCorrect, PTL DEF Spec

\* Decoding inverts encoding at every width, and for every value that the store
\* comes to hold (codec.go).
THEOREM CodecAlwaysRoundTrips == Spec => []DecodeInvertsEncode
<1>1. WriteInv => DecodeInvertsEncode
  BY CodecRoundTrips, DecodeEncode, ModbusAssumption DEF WriteInv, DecodeInvertsEncode
<1> QED BY <1>1, WriteAlways, PTL

\* Only a handler whose request is committed accepts it.
LEMMA OnlyCommitsAccept ==
    ASSUME Shape, Requests, [Next]_vars, NEW c \in Conns, accepts(c)
    PROVE  commits(c)
<1> SUFFICES ASSUME ~commits(c)
             PROVE  FALSE
  OBVIOUS
<1>1. handler[c].at = "commit" /\ handler'[c].at = "reply"
  BY DEF accepts
<1>2. CASE handler' = handler
  BY <1>1, <1>2
<1>3. ASSUME NEW d \in Conns, Accept(d) \/ acceptLoop(d) \/ handleConn(d)
      PROVE  FALSE
  <2>1. CASE \/ Accept(d) \/ acceptLoop(d) \/ (\E frame \in Frames : Receive(d, frame))
             \/ readFails(d) \/ sleeps(d) \/ refuses(d) \/ bitsEnter(d) \/ readBit(d)
             \/ registersCoord(d) \/ registersEnter(d) \/ readRegister(d) \/ answers(d)
             \/ replies(d)
    <3>1. \/ handler'[c] = handler[c]
          \/ c = d /\ handler[d].at # "commit"
      BY <2>1, OtherEffect
    <3> QED BY <1>1, <3>1
  <2>2. CASE writeGate(d)
    <3>1. handler[d].at = "handle" /\ handler' = [handler EXCEPT ![d].at = "writeMu"]
      BY <2>2 DEF writeGate, wellFormed, to
    <3> QED BY <1>1, <3>1 DEF Shape
  <2>3. CASE writeLock(d)
    <3>1. handler[d].at = "writeMu" /\ handler' = [handler EXCEPT ![d].at = "merge"]
      BY <2>3 DEF writeLock, to
    <3> QED BY <1>1, <3>1 DEF Shape
  <2>4. CASE mergeRegister(d)
    BY <1>1, <2>4, MergeEffect
  <2>5. CASE commits(d)
    <3>1. c # d
      BY <2>5
    <3> QED BY <1>1, <2>5, <3>1, CommitEffect
  <2> QED BY <1>3, <2>1, <2>2, <2>3, <2>4, <2>5 DEF handleConn, handleRequest
<1>4. CASE UNCHANGED vars
  BY <1>2, <1>4 DEF vars
<1>5. CASE Tick
  BY <1>2, <1>5 DEF Tick
<1>6. ASSUME NEW op \in LinkOps, linkBegins(op)
      PROVE  FALSE
  BY <1>2, <1>6 DEF linkBegins
<1>7. CASE linkIec104 \/ linkModbus \/ linkEnds
  BY <1>2, <1>7 DEF linkIec104, linkModbus, linkEnds
<1>8. CASE doReset
  BY <1>2, <1>8 DEF doReset, resetCoord, resetEnters, resetRestores, resetClears
<1> QED BY <1>3, <1>4, <1>5, <1>6, <1>7, <1>8 DEF Next, linkOperation

\* Who changes the store: a commit, a tick, which leaves the holding registers
\* alone, and a reset.
LEMMA ValueChanges ==
    ASSUME Shape, WriteInv, [Next]_vars, value' # value
    PROVE  \/ \E c \in Conns : commits(c)
           \/ reset = "restore"
           \/ \A p \in Points : Catalog[p].class = 3 => value'[p] = value[p]
<1>1. ASSUME NEW c \in Conns, Accept(c) \/ acceptLoop(c) \/ handleConn(c)
      PROVE  commits(c)
  <2> SUFFICES ASSUME ~commits(c)
               PROVE  value' = value
    OBVIOUS
  <2>1. CASE \/ Accept(c) \/ acceptLoop(c) \/ (\E frame \in Frames : Receive(c, frame))
             \/ readFails(c) \/ sleeps(c) \/ refuses(c) \/ bitsEnter(c) \/ readBit(c)
             \/ registersCoord(c) \/ registersEnter(c) \/ readRegister(c) \/ answers(c)
             \/ replies(c)
    BY <2>1, OtherEffect DEF WriteInv
  <2>2. CASE writeGate(c) \/ writeLock(c) \/ mergeRegister(c)
    BY <2>2 DEF writeGate, writeLock, mergeRegister, others
  <2> QED BY <1>1, <2>1, <2>2 DEF handleConn, handleRequest
<1>2. CASE Tick
  BY <1>2 DEF Tick, WriteInv
<1>3. CASE UNCHANGED vars
  BY <1>3 DEF vars
<1>4. ASSUME NEW op \in LinkOps, linkBegins(op)
      PROVE  FALSE
  BY <1>4 DEF linkBegins
<1>5. CASE linkIec104 \/ linkModbus \/ linkEnds
  BY <1>5 DEF linkIec104, linkModbus, linkEnds
<1>6. CASE doReset
  BY <1>6 DEF doReset, resetCoord, resetEnters, resetRestores, resetClears
<1> QED BY <1>1, <1>2, <1>3, <1>4, <1>5, <1>6 DEF Next, linkOperation

\* A register changes only by a request that addressed it and was accepted, and
\* an accepted request leaves its registers as written (applyRegisterWrites).
THEOREM WritesTouchOnlyTheirOwn == Spec => WritesTouchOnlyTheirRegisters
<1> DEFINE Changed == \A s \in slots :
             s.class = 3 /\ registerOf(s, value'[s.key]) # registerOf(s, value[s.key]) =>
               \/ reset = "restore"
               \/ \E c \in Conns : /\ accepts(c)
                                   /\ \E i \in DOMAIN handler[c].req.regs :
                                        Address(handler[c].req, i - 1) = s.addr
           Written == \A c \in Conns : accepts(c) =>
             \A i \in DOMAIN handler[c].req.regs :
             \A s \in SlotsAt(3, Address(handler[c].req, i - 1)) :
                 registerOf(s, value'[s.key]) = handler[c].req.regs[i]
<1>1. ASSUME Shape, WriteInv, [Next]_vars
      PROVE  (value' # value => Changed) /\ Written
  <2>1. ASSUME NEW c \in Conns, commits(c)
        PROVE  /\ handler[c].at = "commit" /\ WriteOf(c) /\ WriteRequest(handler[c].req)
               /\ Touched(c) /\ HalvesAccounted(c) /\ RegistersMerged(c)
               /\ DOMAIN handler[c].req.regs = 1..Len(handler[c].buf)
    <3>1. /\ handler[c].at = "commit" /\ WriteOf(c) /\ WriteRequest(handler[c].req)
          /\ Touched(c) /\ HalvesAccounted(c) /\ RegistersMerged(c)
      BY <1>1, <2>1 DEF commits, WriteInv, WriteOf
    <3>2. handler[c].req.regs \in Seq(Byte \X Byte)
      BY <3>1, RegisterAssumption DEF WriteRequest
    <3> QED BY <3>1, <3>2 DEF Touched
  <2>2. ASSUME NEW c \in Conns, accepts(c)
        PROVE  \A i \in DOMAIN handler[c].req.regs :
               \A s \in SlotsAt(3, Address(handler[c].req, i - 1)) :
                   registerOf(s, value'[s.key]) = handler[c].req.regs[i]
    <3>1. commits(c) /\ handler'[c].exc = 0
      BY <1>1, <2>2, OnlyCommitsAccept DEF WriteInv, accepts
    <3>2. \A p \in Points \cap DOMAIN handler[c].cache :
            encodeRegisterPair(value'[p], Order) = handler[c].cache[p]
      BY <1>1, <3>1, CommitStep
    <3> SUFFICES ASSUME NEW i \in 1..Len(handler[c].buf),
                        NEW s \in SlotsAt(3, Address(handler[c].req, i - 1))
                 PROVE  registerOf(s, value'[s.key]) = handler[c].req.regs[i]
      BY <2>1, <3>1
    <3>3. s.key \in DOMAIN handler[c].cache
          /\ handler[c].cache[s.key][s.which + 1] = handler[c].req.regs[i]
      BY <2>1, <3>1 DEF RegistersMerged
    <3>4. s.key \in Points
      BY <2>1, <3>1, <3>3 DEF Touched
    <3> QED BY <3>2, <3>3, <3>4 DEF registerOf
  <2>3. ASSUME value' # value, NEW s \in slots, s.class = 3, reset # "restore",
               registerOf(s, value'[s.key]) # registerOf(s, value[s.key])
        PROVE  \E c \in Conns : /\ accepts(c)
                                /\ \E i \in DOMAIN handler[c].req.regs :
                                     Address(handler[c].req, i - 1) = s.addr
    <3>1. /\ s.key \in Points /\ Catalog[s.key].class = 3 /\ s.which \in {0, 1}
          /\ s.addr = Catalog[s.key].addr + s.which
      BY <2>3, SlotFacts
    <3>2. value'[s.key] # value[s.key]
      BY <2>3
    <3>3. PICK c \in Conns : commits(c)
      BY <1>1, <2>3, <3>1, <3>2, ValueChanges
    <3>4. s.key \in DOMAIN handler[c].cache
      BY <1>1, <3>1, <3>2, <3>3, CommitStep
    <3>5. handler'[c].exc = 0
      BY <1>1, <2>3, <3>3, CommitDetail
    <3>6. accepts(c)
      BY <1>1, <3>3, <3>5, CommitEffect DEF accepts
    <3>7. encodeRegisterPair(value'[s.key], Order) = handler[c].cache[s.key]
      BY <1>1, <3>1, <3>3, <3>4, <3>5, CommitStep
    <3>8. handler[c].cache[s.key][s.which + 1] # encodeRegisterPair(value[s.key], Order)[s.which + 1]
      BY <2>3, <3>7 DEF registerOf
    <3>9. PICK i \in 1..Len(handler[c].buf) :
            Address(handler[c].req, i - 1) = Catalog[s.key].addr + s.which
      BY <2>1, <3>1, <3>3, <3>4, <3>8 DEF HalvesAccounted
    <3> QED BY <2>1, <3>1, <3>3, <3>6, <3>9
  <2> QED BY <2>2, <2>3, Zenon
<1>2. Shape /\ WriteInv /\ [Next]_vars =>
        [(value' # value => Changed) /\ Written]_<<value, handler>>
  BY <1>1
<1> HIDE DEF Changed, Written
<1>3. ModbusIInv => Shape
  BY DEF ModbusIInv
<1>4. Spec => [][(value' # value => Changed) /\ Written]_<<value, handler>>
  BY <1>2, <1>3, ModbusCorrect, WriteAlways, PTL DEF Spec
<1> QED BY <1>4, PTL DEF WritesTouchOnlyTheirRegisters, Changed, Written

-----------------------------------------------------------------------------
\* The numbers that the heartbeat takes.
LEMMA IntFacts == /\ Int32 \subseteq Int /\ None \notin Int32 /\ Order \in ByteOrder
                  /\ Heartbeat \in Points /\ Catalog[Heartbeat].class = 4
<1>1. Size32 \div 2 \in Int
  BY Sizes
<1>2. Int32 \subseteq Int /\ None \notin Int
  BY <1>1, RegisterAssumption DEF Int32, Signed
<1> QED BY <1>2, ModbusAssumption

\* What the link operation does to the frozen heartbeat.
LEMMA FreezeEffect ==
    ASSUME Shape, linkModbus
    PROVE  \/ link'.frozen = link.frozen
           \/ link'.frozen = None
           \/ admin.op.mode = "heartbeat_pause" /\ link'.frozen = admin.captured
<1>1. admin.op.mode \in LinkModes
  BY ModbusAssumption DEF linkModbus, Shape
<1>2. CASE "modbus" \notin admin.op.targets
  BY <1>2 DEF linkModbus
<1>3. CASE "modbus" \in admin.op.targets
  <2>1. CASE admin.op.mode = "drop"
    <3>1. link' = [link EXCEPT !.drop = TRUE]
      BY <1>3, <2>1 DEF linkModbus, applied
    <3> QED BY <3>1 DEF Shape
  <2>2. CASE admin.op.mode = "hang"
    <3>1. link' = [link EXCEPT !.hang = TRUE]
      BY <1>3, <2>2 DEF linkModbus, applied
    <3> QED BY <3>1 DEF Shape
  <2>3. CASE admin.op.mode = "delay"
    <3>1. link' = [link EXCEPT !.delay = TRUE]
      BY <1>3, <2>3 DEF linkModbus, applied
    <3> QED BY <3>1 DEF Shape
  <2>4. CASE admin.op.mode = "heartbeat_pause"
    <3>1. link' = [link EXCEPT !.frozen = admin.captured]
      BY <1>3, <2>4 DEF linkModbus, applied, heartbeatValue
    <3> QED BY <2>4, <3>1 DEF Shape
  <2>5. CASE admin.op.mode = "clear"
    <3>1. link' = NoFault
      BY <1>3, <2>5 DEF linkModbus, applied
    <3> QED BY <3>1 DEF NoFault
  <2> QED BY <1>1, <2>1, <2>2, <2>3, <2>4, <2>5 DEF LinkModes
<1> QED BY <1>2, <1>3

\* A client sees the heartbeat as it is, or as it was before.
LEMMA SeenEffect ==
    ASSUME ModbusIInv, WriteInv, BeatInv, NEW c \in Conns, readRegister(c)
    PROVE  /\ seen' = seen \/ seen' = Visible(Heartbeat)
           /\ handler[c].at = "registers"
           /\ Visible(Heartbeat) \in Int32
<1>1. handler[c].at = "registers"
  BY DEF readRegister
<1>2. Visible(Heartbeat) \in Int32
  BY IntFacts DEF Visible, BeatInv, WriteInv
<1> DEFINE h == handler[c]
           addr == Address(h.req, Len(h.buf))
           s == TheSlot(h.req.fc, addr)
           pair == IF s.key \in DOMAIN h.cache THEN h.cache[s.key]
                   ELSE encodeRegisterPair(Visible(s.key), Order)
<1>3. seen' = seen \/ (s.key = Heartbeat /\ seen' = decodeRegisterPair(pair, Order))
  BY Zenon DEF readRegister
<1>4. pair = encodeRegisterPair(Visible(s.key), Order)
  BY <1>1 DEF ModbusIInv, ResponseInv, ResponseOf, PointsSeen
<1> HIDE DEF pair, s
<1>5. CASE s.key = Heartbeat /\ seen' = decodeRegisterPair(pair, Order)
  <2>1. seen' = decodeRegisterPair(encodeRegisterPair(Visible(Heartbeat), Order), Order)
    BY <1>4, <1>5
  <2>2. decodeRegisterPair(encodeRegisterPair(Visible(Heartbeat), Order), Order)
          = Visible(Heartbeat)
    BY <1>2, DecodeEncode, IntFacts
  <2> QED BY <1>1, <1>2, <2>1, <2>2
<1> QED BY <1>1, <1>2, <1>3, <1>5

\* While the store, the link and the operations stand still, so does BeatInv.
LEMMA BeatKept ==
    ASSUME BeatInv, UNCHANGED <<link, admin, reset>>, value'[Heartbeat] = value[Heartbeat],
           seen' = seen
    PROVE  BeatInv'
BY DEF BeatInv, Visible

\* No step shows a client less of the heartbeat than it has seen.
LEMMA BeatStep ==
    ASSUME ModbusIInv, WriteInv, BeatInv, [Next]_vars
    PROVE  BeatInv' /\ (seen # None /\ seen' # None => seen' >= seen)
<1>1. /\ Shape /\ Excluded /\ value \in [Points -> Int32] /\ value[Heartbeat] \in Int
      /\ seen # None => seen \in Int
  BY IntFacts DEF ModbusIInv, WriteInv, BeatInv
<1>2. ASSUME UNCHANGED <<link, admin, reset>>, value'[Heartbeat] = value[Heartbeat], seen' = seen
      PROVE  BeatInv' /\ (seen # None /\ seen' # None => seen' >= seen)
  BY <1>1, <1>2, BeatKept
<1>3. ASSUME NEW c \in Conns, Accept(c) \/ acceptLoop(c) \/ handleConn(c)
      PROVE  BeatInv' /\ (seen # None /\ seen' # None => seen' >= seen)
  <2>1. CASE \/ Accept(c) \/ acceptLoop(c) \/ (\E frame \in Frames : Receive(c, frame))
             \/ readFails(c) \/ sleeps(c) \/ refuses(c) \/ bitsEnter(c) \/ readBit(c)
             \/ registersCoord(c) \/ registersEnter(c) \/ answers(c) \/ replies(c)
             \/ writeGate(c) \/ writeLock(c) \/ mergeRegister(c)
    <3>1. UNCHANGED <<value, link, admin, reset, seen>>
      BY <2>1 DEF Accept, acceptLoop, Receive, readFails, sleeps, refuses, bitsEnter, readBit,
         registersCoord, registersEnter, answers, replies, writeGate, writeLock, mergeRegister,
         others
    <3> QED BY <1>2, <3>1
  <2>2. CASE commits(c)
    <3>1. UNCHANGED <<link, admin, reset, seen>>
      BY <2>2 DEF commits
    <3>2. value'[Heartbeat] = value[Heartbeat]
      BY <1>1, <2>2, CommitStep, IntFacts
    <3> QED BY <1>2, <3>1, <3>2
  <2>3. CASE readRegister(c)
    <3>1. UNCHANGED <<value, link, admin, reset>>
      BY <2>3 DEF readRegister, others
    <3>2. /\ seen' = seen \/ seen' = Visible(Heartbeat)
          /\ handler[c].at = "registers" /\ Visible(Heartbeat) \in Int32
      BY <2>3, SeenEffect
    <3>3. CASE seen' = seen
      BY <1>2, <3>1, <3>3
    <3>4. CASE seen' = Visible(Heartbeat)
      <4>1. admin.at = "idle" /\ reset # "clear"
        <5>1. c \in Holders({"enter", "registers"}) /\ ~GateEmpty
          BY <3>2 DEF Holders, GateEmpty
        <5> QED BY <1>1, <5>1, ModbusAssumption DEF Excluded, Shape
      <4>2. Visible(Heartbeat)' = Visible(Heartbeat)
        BY <3>1 DEF Visible
      <4>3. BeatInv'
        <5>1. seen' \in Int32 /\ seen' <= Visible(Heartbeat)' /\ reset' # "clear"
          <6>1. \A x \in Int32 : x <= x
            BY IntFacts
          <6>2. seen' \in Int32 /\ Visible(Heartbeat)' = seen'
            BY <3>2, <3>4, <4>2, Zenon
          <6> QED BY <3>1, <4>1, <6>1, <6>2
        <5>2. link'.frozen # None => link'.frozen \in Int32 /\ link'.frozen <= value'[Heartbeat]
          BY <3>1, <4>1 DEF BeatInv
        <5>3. admin'.at = "idle"
          BY <3>1, <4>1
        <5> QED BY <5>1, <5>2, <5>3 DEF BeatInv
      <4>4. seen # None => seen' >= seen
        BY <3>4 DEF BeatInv
      <4> QED BY <4>3, <4>4
    <3> QED BY <3>2, <3>3, <3>4
  <2> QED BY <1>3, <2>1, <2>2, <2>3 DEF handleConn, handleRequest
<1>4. CASE UNCHANGED vars
  BY <1>2, <1>4 DEF vars
<1>5. CASE Tick
  <2>1. /\ UNCHANGED <<link, admin, reset, seen>>
        /\ value' = [p \in Points |-> IF Catalog[p].class = 3 THEN value[p]
                                                              ELSE value[Heartbeat] + 1]
    BY <1>5 DEF Tick
  <2>2. value'[Heartbeat] = value[Heartbeat] + 1
    BY <2>1, IntFacts
  <2>3. value[Heartbeat] \in Int /\ \A x \in Int : x <= value[Heartbeat] => x <= value'[Heartbeat]
    BY <1>1, <2>2
  <2>4. seen # None => seen \in Int /\ seen <= Visible(Heartbeat)'
    <3>1. CASE link.frozen # None
      BY <1>1, <2>1, <3>1 DEF BeatInv, Visible
    <3>2. CASE link.frozen = None
      BY <1>1, <2>1, <2>3, <3>2 DEF BeatInv, Visible
    <3> QED BY <3>1, <3>2
  <2>5. link.frozen # None => (reset # "clear" => link.frozen <= value'[Heartbeat])
    BY <2>3, IntFacts DEF BeatInv
  <2>6. admin.at \in {"iec104", "modbus"} /\ admin.op.mode = "heartbeat_pause" =>
          admin.captured <= value'[Heartbeat]
    BY <2>3, IntFacts DEF BeatInv
  <2>7. BeatInv'
    BY <2>1, <2>4, <2>5, <2>6 DEF BeatInv
  <2> QED BY <1>1, <2>1, <2>7
<1>6. ASSUME NEW op \in LinkOps, linkBegins(op)
      PROVE  BeatInv' /\ (seen # None /\ seen' # None => seen' >= seen)
  <2>1. /\ UNCHANGED <<value, link, reset, seen>> /\ coord = None
        /\ admin' = [at |-> "iec104", op |-> op,
                     captured |-> IF op.mode = "heartbeat_pause" THEN value[Heartbeat] ELSE 0]
    BY <1>6 DEF linkBegins, CoordFree
  <2>2. reset = "idle"
    BY <1>1, <2>1, ModbusAssumption DEF Excluded
  <2>3. seen # None => seen <= value[Heartbeat]
    <3>1. CASE link.frozen # None
      <4>1. seen # None => seen <= link.frozen /\ link.frozen <= value[Heartbeat]
        BY <2>2, <3>1 DEF BeatInv, Visible
      <4>2. link.frozen \in Int
        BY <3>1, IntFacts DEF BeatInv
      <4> QED BY <1>1, <4>1, <4>2
    <3>2. CASE link.frozen = None
      BY <3>2 DEF BeatInv, Visible
    <3> QED BY <3>1, <3>2
  <2>4. /\ admin'.at = "iec104" /\ admin'.op = op
        /\ op.mode = "heartbeat_pause" => admin'.captured = value[Heartbeat]
    BY <2>1
  <2>5. value[Heartbeat] \in Int32
    BY <1>1, IntFacts
  <2> QED BY <1>1, <2>1, <2>3, <2>4, <2>5, IntFacts DEF BeatInv, Visible
<1>7. CASE linkIec104
  <2>1. /\ UNCHANGED <<value, link, reset, seen>> /\ admin.at = "iec104"
        /\ admin' = [admin EXCEPT !.at = "modbus"]
    BY <1>7 DEF linkIec104
  <2>2. admin'.at = "modbus" /\ admin'.op = admin.op /\ admin'.captured = admin.captured
    BY <1>1, <2>1 DEF Shape
  <2> QED BY <1>1, <2>1, <2>2 DEF BeatInv, Visible
<1>8. CASE linkModbus
  <2>1. /\ UNCHANGED <<value, reset, seen>> /\ admin.at = "modbus"
        /\ admin' = [admin EXCEPT !.at = "close"]
    BY <1>8 DEF linkModbus
  <2>2. admin'.at = "close"
    BY <1>1, <2>1 DEF Shape
  <2>3. reset # "clear"
    BY <1>1, <2>1 DEF Excluded
  <2>4. CASE link'.frozen = link.frozen
    BY <1>1, <2>1, <2>2, <2>4 DEF BeatInv, Visible
  <2>5. CASE link'.frozen = None
    BY <1>1, <2>1, <2>2, <2>3, <2>5, IntFacts DEF BeatInv, Visible
  <2>6. CASE admin.op.mode = "heartbeat_pause" /\ link'.frozen = admin.captured
    BY <1>1, <2>1, <2>2, <2>3, <2>6, IntFacts DEF BeatInv, Visible
  <2> QED BY <1>1, <1>8, <2>4, <2>5, <2>6, FreezeEffect
<1>9. CASE linkEnds
  <2>1. UNCHANGED <<value, link, reset, seen>> /\ admin'.at = "idle"
    BY <1>9 DEF linkEnds, noOp
  <2> QED BY <1>1, <2>1 DEF BeatInv, Visible
<1>10. CASE resetCoord
  <2>1. UNCHANGED <<value, link, admin, seen>> /\ reset = "idle" /\ reset' = "waits"
    BY <1>10 DEF resetCoord
  <2> QED BY <1>1, <2>1 DEF BeatInv, Visible
<1>11. CASE resetEnters
  <2>1. UNCHANGED <<value, link, admin, seen>> /\ reset = "waits" /\ reset' = "restore"
    BY <1>11 DEF resetEnters
  <2> QED BY <1>1, <2>1 DEF BeatInv, Visible
<1>12. CASE resetRestores
  <2>1. /\ UNCHANGED <<link, admin>> /\ reset = "restore" /\ reset' = "clear"
        /\ value' = Startup /\ seen' = None
    BY <1>12 DEF resetRestores
  <2>2. admin.at = "idle"
    BY <1>1, <2>1 DEF Excluded
  <2> QED BY <2>1, <2>2 DEF BeatInv, Visible
<1>13. CASE resetClears
  <2>1. /\ UNCHANGED <<value, admin, seen>> /\ reset = "clear" /\ reset' = "idle"
        /\ link'.frozen = None
    BY <1>13 DEF resetClears, NoFault
  <2>2. seen = None /\ admin.at = "idle"
    BY <1>1, <2>1 DEF BeatInv, Excluded
  <2> QED BY <2>1, <2>2 DEF BeatInv, Visible
<1> QED BY <1>3, <1>4, <1>5, <1>6, <1>7, <1>8, <1>9, <1>10, <1>11, <1>12, <1>13
    DEF Next, linkOperation, doReset

\* The heartbeat never runs backwards for any client between resets
\* (ApplyCoordinated, handleReadRegisters).
THEOREM HeartbeatAlwaysAdvances == Spec => HeartbeatNeverGoesBack
<1>1. Init => BeatInv
  BY DEF Init, BeatInv, NoFault, noOp
<1>2. ModbusIInv /\ WriteInv /\ BeatInv /\ [Next]_vars => BeatInv'
  BY BeatStep
<1>3. Spec => []BeatInv
  BY <1>1, <1>2, ModbusCorrect, WriteAlways, PTL DEF Spec
<1>4. ModbusIInv /\ WriteInv /\ BeatInv /\ [Next]_vars =>
        [seen # None /\ seen' # None => seen' >= seen]_seen
  BY BeatStep
<1> QED BY <1>3, <1>4, ModbusCorrect, WriteAlways, PTL DEF Spec, HeartbeatNeverGoesBack
=============================================================================
